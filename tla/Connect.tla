------------------------------ MODULE Connect ------------------------------
(***************************************************************************)
(* How the two peers get in touch: the sender's connection loops with      *)
(* their retry trigger and version fallback, the receiver's checking jobs  *)
(* that ask the sender whether a transfer still exists, and the HTTP front *)
(* of the server (rate limiter, routes, the nonces of the authentication)  *)
(* that both of them talk to, on the receiver's and on the sender's host.  *)
(*                                                                         *)
(* The sender is this program, the receiver may be an older one.  The keys *)
(* are abstracted to whether each peer has the other's public key: the     *)
(* tags of the tickets are then the same on both sides.  What happens on a *)
(* connection is Incoming's, Outgoing's and Stream's; here it is opened,   *)
(* broken or closed.                                                       *)
(***************************************************************************)
EXTENDS Integers, FiniteSets, FiniteSetsExt

CONSTANTS Transfers,    \* outgoing transfers, each with a connection loop
          PeerVersions, \* sets of versions the receiver may know
          Retries,      \* config.connection_retries
          MaxFaults,    \* bound: lost connections and requests, 429s, key changes
          MaxRefresh,   \* bound: calls of network_refresh, on either host
          MaxRestarts   \* bound: restarts of either host

Version == {1, 2, 4, 5, 6}

ASSUME ConnectAssumption ==
  /\ Transfers # {} /\ IsFiniteSet(Transfers)
  /\ PeerVersions \subseteq SUBSET Version
  /\ Retries \in Nat /\ MaxFaults \in Nat /\ MaxRefresh \in Nat /\ MaxRestarts \in Nat

Hosts == {"sender", "receiver"}

\* The jobs that make requests: a connection loop and a checking job per transfer.
Jobs    == {"ws", "check"} \X Transfers
Host(j) == IF j[1] = "ws" THEN "sender" ELSE "receiver"
Peer(j) == IF j[1] = "ws" THEN "receiver" ELSE "sender"

VARIABLES
  known,     \* the versions the server of each host knows
  keys,      \* each peer has the other's public key
  nonces,    \* nonce_store of each host, by the address of the peer's socket
  outgoing,  \* the sender's view of a transfer; "gone" is not in the map
  incoming,  \* the receiver's
  job,       \* the loops and the checking jobs
  trigger,   \* their RetryTriggers: retry, and whether the channel has changed
  attempts,  \* history: attempts since the last refresh took effect
  apart,     \* history: the keys did not agree at some time in this attempt
  faults, refreshes, restarts

bounds == <<refreshes, restarts>>
views  == <<outgoing, incoming>>
hist   == <<attempts, apart>>
vars   == <<known, keys, nonces, views, job, trigger, hist, faults, bounds>>

\* A job: where it is, the version it tries, the socket of the request, the status
\* of the answer, whether the tag in the last header was good, the server's nonce.
At(pc) == [pc |-> pc, ver |-> 0, sock |-> 0, status |-> 0, good |-> FALSE, nonce |-> 0]

\* A checking job has an HTTP client with a pool: its second request may be made on
\* another socket.
Addrs == Jobs \X {0, 1}

TypeOK ==
  /\ known \in [Hosts -> SUBSET Version] /\ keys \in BOOLEAN
  /\ \A h \in Hosts : DOMAIN nonces[h] \subseteq Addrs
  /\ outgoing \in [Transfers -> {"new", "active", "canceled", "gone"}]
  /\ incoming \in [Transfers -> {"none", "alive", "canceled", "removed"}]
  /\ \A j \in Jobs : /\ job[j].pc \in {"off", "start", "req", "resp", "auth", "resp2", "run",
                                       "backoff", "denied", "nover", "end"}
                     /\ job[j].ver \in {0} \cup Version
                     /\ job[j].status \in {0, 101, 200, 401, 404, 410, 429}
                     /\ trigger[j].retry < Max({1, Retries})
  /\ faults \in 0 .. MaxFaults

Init ==
  /\ known \in {[h \in Hosts |-> IF h = "sender" THEN Version ELSE w] : w \in PeerVersions}
  /\ keys \in BOOLEAN
  /\ nonces = [h \in Hosts |-> <<>>]
  /\ outgoing = [t \in Transfers |-> "new"]
  /\ incoming = [t \in Transfers |-> "none"]
  /\ job = [j \in Jobs |-> At(IF j[1] = "ws" THEN "start" ELSE "off")]
  /\ trigger = [j \in Jobs |-> [retry |-> 0, changed |-> FALSE]]
  /\ attempts = [j \in Jobs |-> 0]
  /\ apart = [j \in Jobs |-> FALSE]
  /\ faults = 0
  /\ refreshes = 0
  /\ restarts = 0

To(j, r) == job' = [job EXCEPT ![j] = r]
Fault    == faults < MaxFaults /\ faults' = faults + 1

-----------------------------------------------------------------------------
(* Authentication: drop_auth, auth::Context.  A tag is good if it was made *)
(* and is compared with the same shared secret.                            *)

\* create_tag
Tag == keys

\* authorize: the nonce is the one that was given out, and the tags agree.
Authorize(given, nonce, tag) == given = nonce /\ tag /\ keys

\* Only v6 sends a nonce of the client and wants it signed.
ServerAuthScheme(v) == v = 6

\* create_authorization_header, on the server.
SignedByServer(v) == ServerAuthScheme(v) /\ Tag

\* authorize_server
ServerProved(r) == ServerAuthScheme(r.ver) => Authorize(0, 0, r.good)

\* Nonce::generate_as_server: one nobody has.
NewNonce ==
  LET used == {job[j].nonce : j \in Jobs}
              \cup UNION {{nonces[h][a] : a \in DOMAIN nonces[h]} : h \in Hosts}
  IN Min((1 .. Cardinality(used) + 1) \ used)

-----------------------------------------------------------------------------
(* The front of the server.                                                *)

\* The address of the socket the request came from.
NonceKey(j) == <<j, job[j].sock>>

Uncached(h, a) == [b \in DOMAIN nonces[h] \ {a} |-> nonces[h][b]]

\* Mutant: the transfer is looked for in the map while it is restored.
Accepted_Unrestored(j) ==
  IF j[1] = "ws" THEN 101
  ELSE IF outgoing[j[2]] # "gone" /\ job[<<"ws", j[2]>>].pc # "start" THEN 200 ELSE 410

\* The websocket upgrade, or the answer of the check route.
Accepted(j) ==
  IF j[1] = "ws" THEN 101 ELSE IF outgoing[j[2]] # "gone" THEN 200 ELSE 410

\* The versions before v4 have no authentication.
NoAuth(v) == v \in {1, 2}

\* process_authentication and, for MissingAuth, handle_rejection.
HandlePlain(j) ==
  LET r == job[j]
      h == Peer(j)
      a == NonceKey(j)
  IN
  /\ r.pc = "req"
  /\ \/ /\ r.ver \notin known[h]
        /\ To(j, [r EXCEPT !.pc = "resp", !.status = 404])
        /\ UNCHANGED nonces
     \/ /\ r.ver \in known[h] /\ NoAuth(r.ver)
        /\ To(j, [r EXCEPT !.pc = "resp", !.status = Accepted(j)])
        /\ nonces' = [nonces EXCEPT ![h] = Uncached(h, a)]
     \/ /\ r.ver \in known[h] /\ ~NoAuth(r.ver)
        /\ nonces' = [nonces EXCEPT ![h] = [b \in DOMAIN @ \cup {a} |->
                                              IF b = a THEN NewNonce ELSE @[b]]]
        /\ To(j, [r EXCEPT !.pc = "resp", !.status = 401, !.good = SignedByServer(r.ver),
                           !.nonce = NewNonce])
  /\ UNCHANGED <<known, keys, views, trigger, hist, faults, bounds>>

\* A request with a ticket: its nonce is used up, whatever comes of it.
HandleAuth(j) ==
  LET r == job[j]
      h == Peer(j)
      a == NonceKey(j)
      ok == a \in DOMAIN nonces[h] /\ Authorize(nonces[h][a], r.nonce, r.good)
  IN
  /\ r.pc = "auth"
  /\ nonces' = [nonces EXCEPT ![h] = Uncached(h, a)]
  /\ To(j, [r EXCEPT !.pc = "resp2", !.status = IF ok THEN Accepted(j) ELSE 401])
  /\ UNCHANGED <<known, keys, views, trigger, hist, faults, bounds>>

\* The rate limiter comes first.
TooManyRequests(j) ==
  /\ job[j].pc \in {"req", "auth"}
  /\ Fault
  /\ To(j, [job[j] EXCEPT !.pc = IF @ = "req" THEN "resp" ELSE "resp2", !.status = 429])
  /\ UNCHANGED <<known, keys, nonces, views, trigger, hist, bounds>>

-----------------------------------------------------------------------------
(* make_request, of both jobs.                                             *)

Request(j, v) == To(j, [At("req") EXCEPT !.ver = v])

\* create_clients_auth_header and the second request, on the socket s.  Without the
\* right key there is a bad ticket, or none and RequestError::General.
Answer401(j, s) ==
  LET r == job[j] IN
  \/ ServerProved(r) /\ To(j, [r EXCEPT !.pc = "auth", !.sock = s, !.good = Tag, !.status = 0])
  \/ (~ServerProved(r) \/ ~keys) /\ To(j, At("backoff"))

\* RequestError::General: the peer is not there, or the connection is lost.
Lost(j) ==
  /\ job[j].pc \in {"start", "req", "resp", "auth", "resp2"}
  /\ j[1] = "check" => incoming[j[2]] = "alive" \/ job[j].pc # "start"
  /\ Fault
  /\ attempts' = [attempts EXCEPT ![j] = IF job[j].pc = "start" THEN @ + 1 ELSE @]
  /\ To(j, At("backoff"))
  /\ UNCHANGED <<known, keys, nonces, views, trigger, apart, bounds>>

-----------------------------------------------------------------------------
(* The connection loop.                                                    *)

\* connect_to_peer, establish_ws_conn: the TCP connection is there, v6 is tried.
Dial(t) ==
  LET j == <<"ws", t>> IN
  /\ job[j].pc = "start"
  /\ Request(j, 6)
  /\ attempts' = [attempts EXCEPT ![j] = @ + 1]
  /\ apart' = [apart EXCEPT ![j] = ~keys]
  /\ UNCHANGED <<known, keys, nonces, views, trigger, faults, bounds>>

\* WsConnection::Unrecoverable: outgoing_remove.
GiveUp(t, why) ==
  /\ outgoing' = [outgoing EXCEPT ![t] = "gone"]
  /\ To(<<"ws", t>>, At(why))
  /\ UNCHANGED incoming

OlderThan(t) == {v \in Version : v < job[<<"ws", t>>].ver}

\* Mutant: a 429 is as final as a 401.
Unexpected_Throttled(t, status) ==
  \/ status \in {401, 429} /\ GiveUp(t, "denied")
  \/ /\ status \notin {401, 429}
     /\ \/ OlderThan(t) = {} /\ GiveUp(t, "nover")
        \/ OlderThan(t) # {} /\ Request(<<"ws", t>>, Max(OlderThan(t))) /\ UNCHANGED views

\* Mutant: a 429 makes the loop try an older version.
Unexpected_TryOlder(t, status) ==
  \/ status = 401 /\ GiveUp(t, "denied")
  \/ /\ status # 401
     /\ \/ OlderThan(t) = {} /\ GiveUp(t, "nover")
        \/ OlderThan(t) # {} /\ Request(<<"ws", t>>, Max(OlderThan(t))) /\ UNCHANGED views

\* RequestError::UnexpectedResponse
Unexpected(t, status) ==
  \/ status = 401 /\ GiveUp(t, "denied")
  \/ status = 429 /\ To(<<"ws", t>>, At("backoff")) /\ UNCHANGED views
  \/ /\ status \notin {401, 429}
     /\ \/ OlderThan(t) = {} /\ GiveUp(t, "nover")
        \/ OlderThan(t) # {} /\ Request(<<"ws", t>>, Max(OlderThan(t))) /\ UNCHANGED views

\* outgoing_connected.  The request is sent; a transfer that was canceled here is closed
\* (Closed).
Established(t) ==
  LET j == <<"ws", t>> IN
  IF outgoing[t] = "gone"
  THEN To(j, At("end")) /\ UNCHANGED views
  ELSE /\ outgoing' = [outgoing EXCEPT ![t] = IF @ = "new" THEN "active" ELSE @]
       /\ To(j, [At("run") EXCEPT !.ver = job[j].ver])
       /\ UNCHANGED incoming

\* The first answer.
Response(t) ==
  LET j == <<"ws", t>>
      s == job[j].status
  IN
  /\ job[j].pc = "resp"
  /\ \/ s = 101 /\ (IF ServerProved(job[j]) THEN Established(t)
                                            ELSE To(j, At("backoff")) /\ UNCHANGED views)
     \/ s = 401 /\ Answer401(j, 0) /\ UNCHANGED views
     \/ s \notin {101, 401} /\ Unexpected(t, s)
  /\ UNCHANGED <<known, keys, nonces, trigger, hist, faults, bounds>>

\* The second.
Response2(t) ==
  LET j == <<"ws", t>> IN
  /\ job[j].pc = "resp2"
  /\ IF job[j].status = 101 THEN Established(t) ELSE Unexpected(t, job[j].status)
  /\ UNCHANGED <<known, keys, nonces, trigger, hist, faults, bounds>>

\* register_incoming of a request nobody has seen before; the checking job is spawned.
\* (One that is known leaves the receiver as it is, one that was canceled or removed
\* there is closed: Closed.)
RegisterIncoming(t) ==
  /\ job[<<"ws", t>>].pc = "run" /\ incoming[t] = "none"
  /\ incoming' = [incoming EXCEPT ![t] = "alive"]
  /\ IF 6 \in known["receiver"] THEN To(<<"check", t>>, At("start")) ELSE UNCHANGED job
  /\ UNCHANGED <<known, keys, nonces, outgoing, trigger, hist, faults, bounds>>

\* The connection breaks.
Broken(t) ==
  /\ job[<<"ws", t>>].pc = "run"
  /\ Fault
  /\ To(<<"ws", t>>, At("backoff"))
  /\ UNCHANGED <<known, keys, nonces, views, trigger, hist, bounds>>

\* A Close of the sender, which comes after its request: outgoing_remove at once, and
\* the frame may be lost.
\* A Close of the receiver: the sender removes it, then the receiver.
Closed(t) ==
  LET j == <<"ws", t>> IN
  /\ job[j].pc = "run"
  /\ \/ /\ outgoing[t] = "canceled"
        /\ \/ /\ incoming[t] # "none"
              /\ incoming' = [incoming EXCEPT ![t] = "removed"]
              /\ UNCHANGED faults
           \/ UNCHANGED incoming /\ Fault
     \/ /\ outgoing[t] # "canceled" /\ incoming[t] \in {"canceled", "removed"}
        /\ incoming' = [incoming EXCEPT ![t] = "removed"]
        /\ UNCHANGED faults
  /\ outgoing' = [outgoing EXCEPT ![t] = "gone"]
  /\ To(j, At("end"))
  /\ UNCHANGED <<known, keys, nonces, trigger, hist, bounds>>

-----------------------------------------------------------------------------
(* The checking job.                                                       *)

\* run: a transfer that is canceled here is removed.
CheckRun(t) ==
  LET j == <<"check", t>> IN
  /\ job[j].pc = "start"
  /\ IF incoming[t] = "alive"
     THEN /\ Request(j, 6)
          /\ attempts' = [attempts EXCEPT ![j] = @ + 1]
          /\ UNCHANGED incoming
     ELSE /\ To(j, At("end"))
          /\ incoming' = [incoming EXCEPT ![t] = "removed"]
          /\ UNCHANGED attempts
  /\ UNCHANGED <<known, keys, nonces, outgoing, trigger, apart, faults, bounds>>

GoneAnswer(s) == s = 410

\* GONE: incoming_remove.  OK, and no version left: until the next time.
Conclude(t, s) ==
  LET j == <<"check", t>> IN
  CASE GoneAnswer(s) -> /\ To(j, At("end"))
                        /\ incoming' = [incoming EXCEPT ![t] = "removed"]
    [] ~GoneAnswer(s) /\ s # 200 /\ job[j].ver = 6 -> Request(j, 5) /\ UNCHANGED incoming
    [] OTHER -> To(j, At("backoff")) /\ UNCHANGED incoming

\* The answers.  (Both routes want a ticket: the first is never an OK or a GONE.)
CheckResponse(t) ==
  LET j == <<"check", t>> IN
  /\ \/ /\ job[j].pc = "resp" /\ job[j].status = 401
        /\ \/ Answer401(j, 0) /\ UNCHANGED faults
           \/ Answer401(j, 1) /\ Fault
        /\ UNCHANGED incoming
     \/ /\ \/ job[j].pc = "resp" /\ job[j].status # 401
           \/ job[j].pc = "resp2"
        /\ Conclude(t, job[j].status)
        /\ UNCHANGED faults
  /\ UNCHANGED <<known, keys, nonces, outgoing, trigger, hist, bounds>>

-----------------------------------------------------------------------------
(* RetryTrigger, and what goes on around.                                  *)

\* Mutant: one more.
Sleeps_OneMore(j) == trigger[j].retry < Retries

\* The delay is finite.
Sleeps(j) == trigger[j].retry + 1 < Retries

\* backoff: the channel has changed, or the sleep is over.
Backoff(j) ==
  /\ job[j].pc = "backoff"
  /\ \/ /\ trigger[j].changed
        /\ trigger' = [trigger EXCEPT ![j] = [retry |-> 0, changed |-> FALSE]]
        /\ attempts' = [attempts EXCEPT ![j] = 0]
     \/ /\ Sleeps(j)
        /\ trigger' = [trigger EXCEPT ![j].retry = @ + 1]
        /\ UNCHANGED attempts
  /\ To(j, At("start"))
  /\ UNCHANGED <<known, keys, nonces, views, apart, faults, bounds>>

\* Service::network_refresh: every receiver of the channel sees the change, once.
NetworkRefresh(h) ==
  /\ refreshes < MaxRefresh
  /\ refreshes' = refreshes + 1
  /\ trigger' = [j \in Jobs |-> IF Host(j) = h THEN [trigger[j] EXCEPT !.changed = TRUE]
                                               ELSE trigger[j]]
  /\ UNCHANGED <<known, keys, nonces, views, job, hist, faults, restarts>>

\* outgoing_issue_close, incoming_issue_close.
Cancel(t) ==
  /\ \/ /\ outgoing[t] \in {"new", "active"}
        /\ outgoing' = [outgoing EXCEPT ![t] = IF @ = "new" THEN "gone" ELSE "canceled"]
        /\ UNCHANGED incoming
     \/ /\ incoming[t] = "alive"
        /\ incoming' = [incoming EXCEPT ![t] = "canceled"]
        /\ UNCHANGED outgoing
  /\ UNCHANGED <<known, keys, nonces, job, trigger, hist, faults, bounds>>

\* The application learns another key of the peer, or the right one again.
KeyChange ==
  /\ Fault
  /\ keys' = ~keys
  /\ apart' = [j \in Jobs |-> TRUE]
  /\ UNCHANGED <<known, nonces, views, job, trigger, attempts, bounds>>

\* Mutant: a restored transfer has no job.
Resumed_None(j) == At("off")

\* manager::resume
Resumed(j) ==
  IF j[1] = "ws"
  THEN At(IF outgoing[j[2]] = "gone" THEN "off" ELSE "start")
  ELSE At(IF incoming[j[2]] \in {"alive", "canceled"} /\ 6 \in known["receiver"]
          THEN "start" ELSE "off")

\* Service::stop and start.  The maps are restored before the server is spawned.
\* The connections of the other host are lost.
Restart(h) ==
  /\ restarts < MaxRestarts
  /\ restarts' = restarts + 1
  /\ nonces' = [nonces EXCEPT ![h] = <<>>]
  /\ job' = [j \in Jobs |->
               IF Host(j) = h THEN Resumed(j)
               ELSE IF job[j].pc \in {"req", "resp", "auth", "resp2", "run"} THEN At("backoff")
               ELSE job[j]]
  /\ trigger' = [j \in Jobs |-> IF Host(j) = h THEN [retry |-> 0, changed |-> FALSE]
                                               ELSE trigger[j]]
  /\ attempts' = [j \in Jobs |-> IF Host(j) = h THEN 0 ELSE attempts[j]]
  /\ UNCHANGED <<known, keys, views, apart, faults, refreshes>>

Environment ==
  \/ \E h \in Hosts : NetworkRefresh(h) \/ Restart(h)
  \/ \E t \in Transfers : Cancel(t) \/ Broken(t)
  \/ \E j \in Jobs : Lost(j) \/ TooManyRequests(j)
  \/ KeyChange

Running ==
  \/ \E t \in Transfers : Dial(t) \/ Response(t) \/ Response2(t) \/ RegisterIncoming(t)
                          \/ Closed(t) \/ CheckRun(t) \/ CheckResponse(t)
  \/ \E j \in Jobs : HandlePlain(j) \/ HandleAuth(j) \/ Backoff(j)

Next == Environment \/ Running
Spec == Init /\ [][Next]_vars
FairSpec == Spec /\ WF_vars(Running)

-----------------------------------------------------------------------------
\* A transfer is failed as unauthorized only if the keys did not agree while it was
\* tried, and as not understood only if there is no common version: nonces, lost
\* answers, rate limits and restarts never kill a transfer.
FailedForAReason ==
  \A t \in Transfers : LET j == <<"ws", t>> IN
    /\ job[j].pc = "denied" => apart[j]
    /\ job[j].pc = "nover" => known["receiver"] = {}

\* A connection uses the best version both peers know: nothing that goes wrong on
\* the way makes the loop settle for an older one.
BestVersion ==
  \A t \in Transfers : LET j == <<"ws", t>> IN
    job[j].pc = "run" => job[j].ver = Max(known["receiver"])

\* A transfer the receiver has not canceled is dropped only if the sender canceled
\* it or has none any more, whatever the checking job is answered, on whichever
\* socket, and whoever restarts.
DroppedIsGone ==
  [][\A t \in Transfers : incoming[t] = "alive" /\ incoming'[t] = "removed"
                           => outgoing[t] \in {"canceled", "gone"}]_vars

\* There are at most Retries attempts (and at least one) per network_refresh, also
\* if a connection succeeds in between.
RetriesLimited == \A j \in Jobs : attempts[j] <= Max({1, Retries})

Calm == faults = MaxFaults /\ keys

\* After network_refresh a transfer that waits is connected or settled, once the
\* network is in order, however often it was deferred before.
RefreshConnects ==
  \A t \in Transfers :
    (trigger[<<"ws", t>>].changed /\ Calm)
       ~> (job[<<"ws", t>>].pc = "run" \/ outgoing[t] = "gone")

\* A receiver that was not told that a transfer is gone finds out after a refresh.
GoneIsNoticed ==
  \A t \in Transfers :
    (trigger[<<"check", t>>].changed /\ Calm /\ outgoing[t] = "gone" /\ incoming[t] = "alive"
       /\ 6 \in known["receiver"]) ~> (incoming[t] # "alive")
=============================================================================
