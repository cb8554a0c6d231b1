--------------------------- MODULE ConnectProofs ---------------------------
(***************************************************************************)
(* How the peers get in touch: the theorems about module Connect.          *)
(***************************************************************************)
EXTENDS Connect, FiniteSetTheorems, WellFoundedInduction, TLAPS

Ws(t)    == <<"ws", t>>
Check(t) == <<"check", t>>

LEMMA JobsOf ==
  /\ \A t \in Transfers : Ws(t) \in Jobs /\ Check(t) \in Jobs
  /\ \A t \in Transfers : Host(Ws(t)) = "sender" /\ Peer(Ws(t)) = "receiver"
  /\ \A t \in Transfers : Host(Check(t)) = "receiver" /\ Peer(Check(t)) = "sender"
  /\ \A t, u : Ws(t) # Check(u) /\ (Ws(t) = Ws(u) => t = u) /\ (Check(t) = Check(u) => t = u)
  /\ \A j \in Jobs : /\ j[2] \in Transfers /\ (j = Ws(j[2]) \/ j = Check(j[2]))
                     /\ Host(j) \in Hosts /\ Peer(j) \in Hosts
  /\ \A t : Ws(t)[1] = "ws" /\ Ws(t)[2] = t /\ Check(t)[1] = "check" /\ Check(t)[2] = t
  BY DEF Jobs, Ws, Check, Host, Peer, Hosts

\* The versions are a finite set of numbers: Max is what it should be.
LEMMA MaxVersion ==
  ASSUME NEW S \in SUBSET Version, S # {}
  PROVE  Max(S) \in S /\ \A v \in S : v <= Max(S)
  <1>1. \E x \in S : \A y \in S : x >= y
    <2>1. CASE 6 \in S
      BY <2>1 DEF Version
    <2>2. CASE 6 \notin S /\ 5 \in S
      BY <2>2 DEF Version
    <2>3. CASE 6 \notin S /\ 5 \notin S /\ 4 \in S
      BY <2>3 DEF Version
    <2>4. CASE 6 \notin S /\ 5 \notin S /\ 4 \notin S /\ 2 \in S
      BY <2>4 DEF Version
    <2>5. CASE 6 \notin S /\ 5 \notin S /\ 4 \notin S /\ 2 \notin S
      <3>1. \A y \in S : y = 1
        BY <2>5 DEF Version
      <3> QED
        BY <3>1
    <2> QED
      BY <2>1, <2>2, <2>3, <2>4, <2>5
  <1>2. S \subseteq Int
    BY DEF Version
  <1> QED
    BY <1>1, <1>2 DEF Max

Limit == Max({1, Retries})

LEMMA LimitIs == Limit = IF Retries >= 1 THEN Retries ELSE 1
  <1>1. \E x \in {1, Retries} : \A y \in {1, Retries} : x >= y
    BY ConnectAssumption
  <1>2. Limit \in {1, Retries} /\ \A y \in {1, Retries} : Limit >= y
    BY <1>1 DEF Limit, Max
  <1> QED
    BY <1>2, ConnectAssumption

-----------------------------------------------------------------------------
(* Types.                                                                  *)

Pc     == {"off", "start", "req", "resp", "auth", "resp2", "run", "backoff", "denied", "nover",
           "end"}
Status == {0, 101, 200, 401, 404, 410, 429}

JobRecord == [pc : Pc, ver : {0} \cup Version, sock : {0, 1}, status : Status, good : BOOLEAN,
              nonce : Nat]

NonceStore == UNION {[S -> Nat] : S \in SUBSET Addrs}

TypeInv ==
  /\ known \in [Hosts -> SUBSET Version]
  /\ keys \in BOOLEAN
  /\ nonces \in [Hosts -> NonceStore]
  /\ outgoing \in [Transfers -> {"new", "active", "canceled", "gone"}]
  /\ incoming \in [Transfers -> {"none", "alive", "canceled", "removed"}]
  /\ job \in [Jobs -> JobRecord]
  /\ trigger \in [Jobs -> [retry : Nat, changed : BOOLEAN]]
  /\ attempts \in [Jobs -> Nat]
  /\ apart \in [Jobs -> BOOLEAN]
  /\ faults \in 0 .. MaxFaults
  /\ refreshes \in Nat
  /\ restarts \in Nat

LEMMA AtTyped == \A pc \in Pc : At(pc) \in JobRecord
  BY DEF At, JobRecord, Status

LEMMA JobsFinite == IsFiniteSet(Jobs) /\ IsFiniteSet(Addrs)
  <1>1. IsFiniteSet({"ws", "check"}) /\ IsFiniteSet({0, 1})
    <2>1. IsFiniteSet({"ws"}) /\ IsFiniteSet({0})
      BY FS_Singleton
    <2>2. IsFiniteSet({"ws"} \cup {"check"}) /\ IsFiniteSet({0} \cup {1})
      BY <2>1, FS_AddElement
    <2> QED
      BY <2>2
  <1>2. IsFiniteSet(Jobs)
    BY <1>1, ConnectAssumption, FS_Product DEF Jobs
  <1> QED
    BY <1>1, <1>2, FS_Product DEF Addrs

\* What a function returns on a finite set is a finite set.
LEMMA FiniteImage ==
  ASSUME NEW S, IsFiniteSet(S), NEW g
  PROVE  IsFiniteSet({g[x] : x \in S})
  <1> DEFINE T == {g[x] : x \in S}
             h == [x \in S |-> g[x]]
  <1>1. h \in Surjection(S, T)
    BY DEF Surjection
  <1> QED
    BY <1>1, FS_Surjection

\* Every set of numbers has a least one.
LEMMA SmallestOf ==
  ASSUME NEW S \in SUBSET Nat, S # {}
  PROVE  \E x \in S : \A y \in S : x <= y
  <1> DEFINE R == OpToRel(<, Nat)
  <1>1. \A x, y \in Nat : <<x, y>> \in R <=> x < y
    BY DEF OpToRel
  <1>2. IsWellFoundedOn(R, Nat)
    BY NatLessThanWellFounded
  <1> HIDE DEF R
  <1>3. \E x \in S : \A y \in S : ~(<<y, x>> \in R)
    BY <1>2, WFMin
  <1>4. \A x, y \in S : ~(<<y, x>> \in R) => x <= y
    BY <1>1
  <1> QED
    BY <1>3, <1>4

\* Nonce::generate_as_server: there is always a number that nobody has.
LEMMA NonceIsFresh ==
  ASSUME TypeInv
  PROVE  /\ NewNonce \in Nat
         /\ \A j \in Jobs : job[j].nonce # NewNonce
  <1> DEFINE n == [j \in Jobs |-> job[j].nonce]
             A == {job[j].nonce : j \in Jobs}
             B(h) == {nonces[h][a] : a \in DOMAIN nonces[h]}
             used == A \cup UNION {B(h) : h \in Hosts}
             free == (1 .. Cardinality(used) + 1) \ used
  <1>1. IsFiniteSet(A)
    <2>1. IsFiniteSet({n[j] : j \in Jobs})
      BY JobsFinite, FiniteImage
    <2>2. A = {n[j] : j \in Jobs}
      OBVIOUS
    <2> QED
      BY <2>1, <2>2
  <1>2. \A h \in Hosts : IsFiniteSet(B(h))
    <2> SUFFICES ASSUME NEW h \in Hosts PROVE IsFiniteSet(B(h))
      OBVIOUS
    <2>1. DOMAIN nonces[h] \in SUBSET Addrs
      BY DEF TypeInv, NonceStore
    <2>2. IsFiniteSet(DOMAIN nonces[h])
      BY <2>1, JobsFinite, FS_Subset
    <2> QED
      BY <2>2, FiniteImage
  <1>3. IsFiniteSet(used)
    <2> HIDE DEF B
    <2>1. UNION {B(h) : h \in Hosts} = B("sender") \cup B("receiver")
      BY DEF Hosts
    <2>2. IsFiniteSet(B("sender") \cup B("receiver"))
      BY <1>2, FS_Union DEF Hosts
    <2> HIDE DEF A
    <2>3. IsFiniteSet(A \cup (B("sender") \cup B("receiver")))
      BY <1>1, <2>2, FS_Union
    <2> QED
      BY <2>1, <2>3
  <1>4. NewNonce = Min(free)
    BY DEF NewNonce
  <1> HIDE DEF used
  <1>5. free # {}
    <2>1. Cardinality(used) \in Nat
      BY <1>3, FS_CardinalityType
    <2> DEFINE I == 1 .. Cardinality(used) + 1
    <2>2. Cardinality(I) = Cardinality(used) + 1
      BY <2>1, FS_Interval
    <2> HIDE DEF I
    <2>3. ~(I \in SUBSET used)
      BY <1>3, <2>1, <2>2, FS_Subset
    <2> QED
      BY <2>3 DEF I
  <1>6. Min(free) \in free
    <2>1. free \subseteq Nat
      BY <1>3, FS_CardinalityType
    <2> HIDE DEF free
    <2>2. \E x \in free : \A y \in free : x <= y
      BY <1>5, <2>1, SmallestOf
    <2> QED
      BY <2>2 DEF Min
  <1>7. NewNonce \in Nat /\ NewNonce \notin used
    BY <1>3, <1>4, <1>6, FS_CardinalityType
  <1> QED
    BY <1>7 DEF used

LEMMA ToTyped ==
  ASSUME TypeInv, NEW j \in Jobs, NEW r \in JobRecord, To(j, r)
  PROVE  job' \in [Jobs -> JobRecord]
  BY DEF TypeInv, To

\* The ways the code updates a job keep it a job.
LEMMA TicketTyped ==
  ASSUME NEW r \in JobRecord, NEW p \in Pc, NEW s \in Status, NEW g \in BOOLEAN, NEW k \in {0, 1}
  PROVE  [r EXCEPT !.pc = p, !.sock = k, !.good = g, !.status = s] \in JobRecord
  BY DEF JobRecord

LEMMA RunTyped ==
  ASSUME NEW r \in JobRecord, NEW p \in Pc
  PROVE  [At(p) EXCEPT !.ver = r.ver] \in JobRecord
  <1>1. r.ver \in {0} \cup Version /\ At(p) \in JobRecord
    BY AtTyped DEF JobRecord
  <1> QED
    BY <1>1 DEF JobRecord

LEMMA RequestTyped == \A v \in Version : [At("req") EXCEPT !.ver = v] \in JobRecord
  BY ZenonT(60) DEF At, JobRecord, Status, Pc

LEMMA UncachedTyped ==
  ASSUME TypeInv, NEW h \in Hosts, NEW a
  PROVE  Uncached(h, a) \in NonceStore
  <1>1. PICK S \in SUBSET Addrs : nonces[h] \in [S -> Nat]
    BY DEF TypeInv, NonceStore
  <1>2. Uncached(h, a) \in [S \ {a} -> Nat]
    BY <1>1 DEF Uncached
  <1> QED
    BY <1>2 DEF NonceStore

LEMMA CachedTyped ==
  ASSUME TypeInv, NEW h \in Hosts, NEW a \in Addrs, NEW n \in Nat
  PROVE  [b \in DOMAIN nonces[h] \cup {a} |-> IF b = a THEN n ELSE nonces[h][b]] \in NonceStore
  <1>1. PICK S \in SUBSET Addrs : nonces[h] \in [S -> Nat]
    BY DEF TypeInv, NonceStore
  <1>2. [b \in DOMAIN nonces[h] \cup {a} |-> IF b = a THEN n ELSE nonces[h][b]]
          \in [S \cup {a} -> Nat]
    BY <1>1
  <1> QED
    BY <1>2 DEF NonceStore

LEMMA KeyTyped ==
  ASSUME TypeInv, NEW j \in Jobs
  PROVE  NonceKey(j) \in Addrs
  BY DEF TypeInv, JobRecord, NonceKey, Addrs

LEMMA AcceptedTyped == \A j : Accepted(j) \in Status
  BY DEF Accepted, Status

LEMMA TypeInit == Init => TypeInv
  <1> SUFFICES ASSUME Init PROVE TypeInv
    OBVIOUS
  <1>1. known \in [Hosts -> SUBSET Version]
    BY ConnectAssumption DEF Init
  <1>2. nonces \in [Hosts -> NonceStore]
    <2>1. <<>> \in [{} -> Nat]
      OBVIOUS
    <2> QED
      BY <2>1 DEF Init, NonceStore
  <1>3. job \in [Jobs -> JobRecord]
    BY AtTyped DEF Init, Pc
  <1> QED
    BY <1>1, <1>2, <1>3, ConnectAssumption DEF Init, TypeInv

LEMMA EstablishedTyped ==
  ASSUME TypeInv, NEW t \in Transfers, Established(t)
  PROVE  /\ job' \in [Jobs -> JobRecord]
         /\ outgoing' \in [Transfers -> {"new", "active", "canceled", "gone"}]
         /\ incoming' \in [Transfers -> {"none", "alive", "canceled", "removed"}]
  <1> USE DEF Ws, Check
  <1>1. CASE outgoing[t] = "gone"
    <2>1. To(<<"ws", t>>, At("end")) /\ UNCHANGED views
      BY <1>1 DEF Established
    <2> QED
      BY <2>1, JobsOf, ToTyped, AtTyped DEF TypeInv, Pc, views
  <1>2. CASE outgoing[t] # "gone"
    <2>0. job[Ws(t)] \in JobRecord /\ "run" \in Pc
      BY JobsOf DEF TypeInv, Pc
    <2>1. [At("run") EXCEPT !.ver = job[Ws(t)].ver] \in JobRecord
      BY <2>0, RunTyped
    <2>2. /\ outgoing' = [outgoing EXCEPT ![t] = IF @ = "new" THEN "active" ELSE @]
          /\ To(<<"ws", t>>, [At("run") EXCEPT !.ver = job[<<"ws", t>>].ver])
          /\ incoming' = incoming
      BY <1>2 DEF Established
    <2>3. job' \in [Jobs -> JobRecord]
      BY <2>1, <2>2, JobsOf, ToTyped
    <2> QED
      BY <2>2, <2>3 DEF TypeInv
  <1> QED
    BY <1>1, <1>2

LEMMA UnexpectedTyped ==
  ASSUME TypeInv, NEW t \in Transfers, NEW s, Unexpected(t, s)
  PROVE  /\ job' \in [Jobs -> JobRecord]
         /\ outgoing' \in [Transfers -> {"new", "active", "canceled", "gone"}]
         /\ incoming' \in [Transfers -> {"none", "alive", "canceled", "removed"}]
  <1> USE DEF Ws
  <1> DEFINE older == OlderThan(t)
  <1>1. ASSUME NEW why \in {"denied", "nover"}, GiveUp(t, why)
        PROVE  /\ job' \in [Jobs -> JobRecord]
               /\ outgoing' \in [Transfers -> {"new", "active", "canceled", "gone"}]
               /\ incoming' = incoming
    BY <1>1, JobsOf, ToTyped, AtTyped DEF GiveUp, TypeInv, Pc
  <1>2. CASE To(<<"ws", t>>, At("backoff")) /\ UNCHANGED views
    BY <1>2, JobsOf, ToTyped, AtTyped DEF TypeInv, Pc, views
  <1>3. CASE older # {} /\ Request(<<"ws", t>>, Max(older)) /\ UNCHANGED views
    <2>1. Max(older) \in Version
      BY <1>3, MaxVersion DEF OlderThan
    <2> HIDE DEF older
    <2> QED
      BY <1>3, <2>1, JobsOf, ToTyped, RequestTyped DEF Request, TypeInv, views
  <1>4. CASE GiveUp(t, "denied") \/ GiveUp(t, "nover")
    BY <1>1, <1>4 DEF TypeInv
  <1> QED
    BY <1>2, <1>3, <1>4 DEF Unexpected

LEMMA Answer401Typed ==
  ASSUME TypeInv, NEW j \in Jobs, NEW s \in {0, 1}, Answer401(j, s)
  PROVE  job' \in [Jobs -> JobRecord]
  <1>1. job[j] \in JobRecord /\ Tag \in BOOLEAN /\ "auth" \in Pc /\ 0 \in Status
    BY DEF TypeInv, Tag, Pc, Status
  <1>2. [job[j] EXCEPT !.pc = "auth", !.sock = s, !.good = Tag, !.status = 0] \in JobRecord
    BY <1>1, TicketTyped
  <1> QED
    BY <1>2, ToTyped, AtTyped DEF Answer401, Pc

LEMMA ConcludeTyped ==
  ASSUME TypeInv, NEW t \in Transfers, NEW s, Conclude(t, s)
  PROVE  /\ job' \in [Jobs -> JobRecord]
         /\ incoming' \in [Transfers -> {"none", "alive", "canceled", "removed"}]
  <1> USE DEF Check
  <1>1. Check(t) \in Jobs /\ At("end") \in JobRecord /\ At("backoff") \in JobRecord
    BY JobsOf, AtTyped DEF Pc
  <1>2. [At("req") EXCEPT !.ver = 5] \in JobRecord
    BY RequestTyped DEF Version
  <1>3. \/ To(Check(t), At("end")) \/ To(Check(t), At("backoff"))
        \/ To(Check(t), [At("req") EXCEPT !.ver = 5])
    BY DEF Conclude, Request
  <1>4. job' \in [Jobs -> JobRecord]
    BY <1>1, <1>2, <1>3, ToTyped
  <1>5. incoming' \in [Transfers -> {"none", "alive", "canceled", "removed"}]
    BY DEF Conclude, TypeInv
  <1> QED
    BY <1>4, <1>5

LEMMA TypeStep == TypeInv /\ [Next]_vars => TypeInv'
  <1> SUFFICES ASSUME TypeInv, [Next]_vars PROVE TypeInv'
    OBVIOUS
  <1> USE DEF views, hist, bounds
  <1>1. ASSUME NEW j \in Jobs, HandlePlain(j) PROVE TypeInv'
    <2>1. job[j] \in JobRecord /\ Peer(j) \in Hosts /\ NonceKey(j) \in Addrs
      BY JobsOf, KeyTyped DEF TypeInv
    <2>2. NewNonce \in Nat
      BY NonceIsFresh
    <2>3. SignedByServer(job[j].ver) \in BOOLEAN
      BY DEF SignedByServer, ServerAuthScheme, Tag, TypeInv
    <2>4. "resp" \in Pc /\ {404, 401, Accepted(j)} \subseteq Status
      BY AcceptedTyped DEF Pc, Status
    <2> DEFINE a == NonceKey(j)
               h == Peer(j)
               N == [b \in DOMAIN nonces[h] \cup {a} |-> IF b = a THEN NewNonce ELSE nonces[h][b]]
               M == [job[j] EXCEPT !.pc = "resp", !.status = 401,
                                   !.good = SignedByServer(job[j].ver), !.nonce = NewNonce]
    <2>5a. N \in NonceStore
      BY <2>1, <2>2, CachedTyped
    <2>5b. M \in JobRecord
      <3>0. PICK s \in Status : s = 401
        BY <2>4
      <3>1. PICK n \in Nat : n = NewNonce
        BY <2>2
      <3>2. PICK r \in JobRecord : r = job[j]
        BY <2>1
      <3>3. \A g \in BOOLEAN :
              [r EXCEPT !.pc = "resp", !.status = s, !.good = g, !.nonce = n] \in JobRecord
        BY DEF JobRecord, Pc
      <3>4. CASE SignedByServer(job[j].ver) = TRUE
        BY <3>0, <3>1, <3>2, <3>3, <3>4
      <3>5. CASE SignedByServer(job[j].ver) = FALSE
        BY <3>0, <3>1, <3>2, <3>3, <3>5, ZenonT(60)
      <3> QED
        BY <2>3, <3>4, <3>5
    <2>5. N \in NonceStore /\ M \in JobRecord
      BY <2>5a, <2>5b
    <2>6. \A s \in {404, 401, Accepted(j)} :
            [job[j] EXCEPT !.pc = "resp", !.status = s] \in JobRecord
      <3>1. \A s \in Status : [job[j] EXCEPT !.pc = "resp", !.status = s] \in JobRecord
        BY <2>1 DEF JobRecord, Pc
      <3> QED
        BY <2>4, <3>1, ZenonT(60)
    <2>7. CASE UNCHANGED nonces /\ To(j, [job[j] EXCEPT !.pc = "resp", !.status = 404])
      BY <1>1, <2>6, <2>7, ToTyped DEF HandlePlain, TypeInv
    <2>8. CASE /\ To(j, [job[j] EXCEPT !.pc = "resp", !.status = Accepted(j)])
               /\ nonces' = [nonces EXCEPT ![h] = Uncached(h, a)]
      <3>1. nonces' \in [Hosts -> NonceStore]
        BY <2>1, <2>8, UncachedTyped DEF TypeInv
      <3> QED
        BY <1>1, <2>6, <2>8, <3>1, ToTyped DEF HandlePlain, TypeInv
    <2>9. CASE To(j, M) /\ nonces' = [nonces EXCEPT ![h] = N]
      <3> HIDE DEF N, M
      <3>1. nonces' \in [Hosts -> NonceStore]
        BY <2>1, <2>5, <2>9 DEF TypeInv
      <3> QED
        BY <1>1, <2>5, <2>9, <3>1, ToTyped DEF HandlePlain, TypeInv
    <2> QED
      BY <1>1, <2>7, <2>8, <2>9 DEF HandlePlain
  <1>2. ASSUME NEW j \in Jobs, HandleAuth(j) PROVE TypeInv'
    <2>1. job[j] \in JobRecord /\ Peer(j) \in Hosts
      BY JobsOf DEF TypeInv
    <2>2. "resp2" \in Pc /\ {401, Accepted(j)} \subseteq Status
      BY AcceptedTyped DEF Pc, Status
    <2>3. \A s \in {401, Accepted(j)} : [job[j] EXCEPT !.pc = "resp2", !.status = s] \in JobRecord
      <3>1. \A s \in Status : [job[j] EXCEPT !.pc = "resp2", !.status = s] \in JobRecord
        BY <2>1 DEF JobRecord, Pc
      <3> QED
        BY <2>2, <3>1, ZenonT(60)
    <2>4. \E s \in {401, Accepted(j)} : To(j, [job[j] EXCEPT !.pc = "resp2", !.status = s])
      BY <1>2 DEF HandleAuth
    <2>5. job' \in [Jobs -> JobRecord]
      BY <2>3, <2>4, ToTyped, ZenonT(60)
    <2>6. nonces' \in [Hosts -> NonceStore]
      BY <1>2, <2>1, UncachedTyped DEF HandleAuth, TypeInv
    <2> QED
      BY <1>2, <2>5, <2>6 DEF HandleAuth, TypeInv
  <1>3. ASSUME NEW j \in Jobs, TooManyRequests(j) PROVE TypeInv'
    <2>1. job[j] \in JobRecord /\ 429 \in Status /\ {"resp", "resp2"} \subseteq Pc
      BY DEF TypeInv, Status, Pc
    <2>2. \A p \in {"resp", "resp2"} : [job[j] EXCEPT !.pc = p, !.status = 429] \in JobRecord
      BY <2>1, ZenonT(60) DEF JobRecord
    <2>3. \E p \in {"resp", "resp2"} : To(j, [job[j] EXCEPT !.pc = p, !.status = 429])
      BY <1>3 DEF TooManyRequests
    <2>4. job' \in [Jobs -> JobRecord]
      BY <2>2, <2>3, ToTyped, ZenonT(60)
    <2> QED
      BY <1>3, <2>4, ConnectAssumption DEF TooManyRequests, TypeInv, Fault
  <1>4. ASSUME NEW j \in Jobs, Lost(j) PROVE TypeInv'
    BY <1>4, ToTyped, AtTyped, ConnectAssumption DEF Lost, TypeInv, Fault, Pc
  <1>5. ASSUME NEW j \in Jobs, Backoff(j) PROVE TypeInv'
    <2>1. job' \in [Jobs -> JobRecord]
      BY <1>5, ToTyped, AtTyped DEF Backoff, Pc
    <2>2. trigger' \in [Jobs -> [retry : Nat, changed : BOOLEAN]] /\ attempts' \in [Jobs -> Nat]
      <3>1. CASE /\ trigger' = [trigger EXCEPT ![j] = [retry |-> 0, changed |-> FALSE]]
                 /\ attempts' = [attempts EXCEPT ![j] = 0]
        BY <3>1 DEF TypeInv
      <3>2. CASE /\ trigger' = [trigger EXCEPT ![j].retry = @ + 1]
                 /\ UNCHANGED attempts
        <4>1. [trigger[j] EXCEPT !.retry = @ + 1] \in [retry : Nat, changed : BOOLEAN]
          BY DEF TypeInv
        <4> QED
          BY <3>2, <4>1 DEF TypeInv
      <3> QED
        BY <1>5, <3>1, <3>2 DEF Backoff
    <2> QED
      BY <1>5, <2>1, <2>2 DEF Backoff, TypeInv
  <1>6. ASSUME NEW t \in Transfers, Dial(t) PROVE TypeInv'
    <2>1. job' \in [Jobs -> JobRecord]
      BY <1>6, JobsOf, ToTyped, RequestTyped DEF Dial, Request, Version, Ws
    <2>2. attempts' \in [Jobs -> Nat]
      BY <1>6, JobsOf DEF Dial, TypeInv, Ws
    <2>3. apart' \in [Jobs -> BOOLEAN]
      BY <1>6, JobsOf DEF Dial, TypeInv, Ws
    <2> QED
      BY <1>6, <2>1, <2>2, <2>3 DEF Dial, TypeInv
  <1>7. ASSUME NEW t \in Transfers, Response(t) PROVE TypeInv'
    <2>1. /\ job' \in [Jobs -> JobRecord]
          /\ outgoing' \in [Transfers -> {"new", "active", "canceled", "gone"}]
          /\ incoming' \in [Transfers -> {"none", "alive", "canceled", "removed"}]
      <3>1. CASE Established(t)
        BY <3>1, EstablishedTyped
      <3>2. CASE To(Ws(t), At("backoff")) /\ UNCHANGED views
        BY <3>2, JobsOf, ToTyped, AtTyped DEF TypeInv, Pc
      <3>3. CASE Answer401(Ws(t), 0) /\ UNCHANGED views
        BY <3>3, JobsOf, Answer401Typed DEF TypeInv
      <3>4. CASE Unexpected(t, job[Ws(t)].status)
        BY <3>4, UnexpectedTyped
      <3> QED
        BY <1>7, <3>1, <3>2, <3>3, <3>4 DEF Response, Ws
    <2> QED
      BY <1>7, <2>1 DEF Response, TypeInv
  <1>8. ASSUME NEW t \in Transfers, Response2(t) PROVE TypeInv'
    BY <1>8, EstablishedTyped, UnexpectedTyped DEF Response2, TypeInv
  <1>9. ASSUME NEW t \in Transfers, Broken(t) PROVE TypeInv'
    BY <1>9, JobsOf, ToTyped, AtTyped, ConnectAssumption DEF Broken, TypeInv, Fault, Pc, Ws
  <1>10. ASSUME NEW t \in Transfers, Closed(t) PROVE TypeInv'
    <2>1. job' \in [Jobs -> JobRecord]
      BY <1>10, JobsOf, ToTyped, AtTyped DEF Closed, Pc, Ws
    <2> QED
      BY <1>10, <2>1, ConnectAssumption DEF Closed, TypeInv, Fault
  <1>11. ASSUME NEW t \in Transfers, CheckRun(t) PROVE TypeInv'
    <2>1. job' \in [Jobs -> JobRecord]
      BY <1>11, JobsOf, ToTyped, AtTyped, RequestTyped DEF CheckRun, Request, Version, Pc, Check
    <2>2. attempts' \in [Jobs -> Nat]
      <3>1. CASE attempts' = [attempts EXCEPT ![Check(t)] = @ + 1]
        BY <3>1, JobsOf DEF TypeInv
      <3> QED
        BY <1>11, <3>1 DEF CheckRun, TypeInv, Check
    <2>3. incoming' \in [Transfers -> {"none", "alive", "canceled", "removed"}]
      BY <1>11 DEF CheckRun, TypeInv
    <2> QED
      BY <1>11, <2>1, <2>2, <2>3 DEF CheckRun, TypeInv
  <1>12. ASSUME NEW t \in Transfers, CheckResponse(t) PROVE TypeInv'
    <2>1. /\ job' \in [Jobs -> JobRecord]
          /\ incoming' \in [Transfers -> {"none", "alive", "canceled", "removed"}]
      BY <1>12, JobsOf, Answer401Typed, ConcludeTyped DEF CheckResponse, TypeInv, Check
    <2> QED
      BY <1>12, <2>1, ConnectAssumption DEF CheckResponse, TypeInv, Fault
  <1>13. ASSUME NEW t \in Transfers, Cancel(t) PROVE TypeInv'
    BY <1>13 DEF Cancel, TypeInv
  <1>14. ASSUME NEW h \in Hosts, NetworkRefresh(h) PROVE TypeInv'
    <2>1. trigger' \in [Jobs -> [retry : Nat, changed : BOOLEAN]]
      BY <1>14 DEF NetworkRefresh, TypeInv
    <2> QED
      BY <1>14, <2>1 DEF NetworkRefresh, TypeInv
  <1>15. ASSUME NEW h \in Hosts, Restart(h) PROVE TypeInv'
    <2>1. \A j \in Jobs : Resumed(j) \in JobRecord /\ At("backoff") \in JobRecord
      BY AtTyped DEF Resumed, Pc
    <2>2. <<>> \in NonceStore
      <3>1. <<>> \in [{} -> Nat]
        OBVIOUS
      <3> QED
        BY <3>1 DEF NonceStore
    <2> QED
      BY <1>15, <2>1, <2>2 DEF Restart, TypeInv
  <1>16. ASSUME KeyChange PROVE TypeInv'
    BY <1>16, ConnectAssumption DEF KeyChange, TypeInv, Fault
  <1>17. ASSUME NEW t \in Transfers, RegisterIncoming(t) PROVE TypeInv'
    <2>1. job' \in [Jobs -> JobRecord]
      BY <1>17, JobsOf, ToTyped, AtTyped DEF RegisterIncoming, TypeInv, Pc, Check
    <2> QED
      BY <1>17, <2>1 DEF RegisterIncoming, TypeInv
  <1>18. CASE UNCHANGED vars
    BY <1>18 DEF vars, TypeInv
  <1> QED
    BY <1>1, <1>2, <1>3, <1>4, <1>5, <1>6, <1>7, <1>8, <1>9, <1>10,
       <1>11, <1>12, <1>13, <1>14, <1>15, <1>16, <1>17, <1>18
       DEF Next, Environment, Running

-----------------------------------------------------------------------------
(* The inductive invariant.                                                *)

Asking == {"req", "resp", "auth", "resp2"}
Theirs == known["receiver"]

\* The receiver still has the nonce it gave to the connection loop.
Held(t) ==
  LET a == <<Ws(t), 0>> IN
  /\ a \in DOMAIN nonces["receiver"]
  /\ nonces["receiver"][a] = job[Ws(t)].nonce

\* The search for a version: every version that was skipped is one the receiver has
\* not, and an answer says what the receiver knows.
SearchAt(t) ==
  LET r == job[Ws(t)] IN
  /\ r.sock = 0
  /\ r.pc \in Asking => r.ver \in Version
  /\ r.pc \in Asking \cup {"run"} => \A v \in Theirs : v <= r.ver
  /\ r.pc = "resp" => /\ r.status \in {101, 401, 404, 429}
                      /\ r.status \in {101, 401} => r.ver \in Theirs
                      /\ r.status = 404 => r.ver \notin Theirs
                      /\ r.status = 401 => Held(t)
  /\ r.pc = "auth" => r.ver \in Theirs /\ Held(t)
  /\ r.pc = "resp2" => r.status \in {101, 401, 429} /\ r.ver \in Theirs
  /\ r.pc = "run" => r.ver \in Theirs
  /\ r.pc = "nover" => Theirs = {}

\* The keys: as long as they agree, the ticket is good and is not refused.
KeyAt(t) ==
  LET r == job[Ws(t)] IN
  /\ ~apart[Ws(t)] => /\ r.pc \in Asking => keys
                      /\ r.pc = "auth" => r.good
                      /\ r.pc = "resp2" => r.status # 401
  /\ r.pc = "denied" => apart[Ws(t)]

\* The checking job: it is not there before the transfer is, and a GONE is still true
\* when it is read.
CheckAt(t) ==
  /\ job[Check(t)].status = 410 => outgoing[t] = "gone"
  /\ incoming[t] = "none" => job[Check(t)].pc = "off"

\* The retries: an attempt is paid for before the next one begins.
RetryAt(j) ==
  /\ trigger[j].retry < Limit
  /\ attempts[j] <= trigger[j].retry + 1
  /\ job[j].pc \in {"off", "start"} => attempts[j] <= trigger[j].retry

SearchInv == \A t \in Transfers : SearchAt(t)
KeyInv    == \A t \in Transfers : KeyAt(t)
CheckInv  == \A t \in Transfers : CheckAt(t)
RetryInv  == \A j \in Jobs : RetryAt(j)

\* A step that leaves a connection loop alone.
LEMMA SearchKept ==
  ASSUME TypeInv, SearchInv, KeyInv, NEW u \in Transfers,
         known' = known, job'[Ws(u)] = job[Ws(u)],
         <<Ws(u), 0>> \in DOMAIN nonces["receiver"] =>
           /\ <<Ws(u), 0>> \in DOMAIN nonces'["receiver"]
           /\ nonces'["receiver"][<<Ws(u), 0>>] = nonces["receiver"][<<Ws(u), 0>>],
         apart[Ws(u)] => apart'[Ws(u)],
         ~apart'[Ws(u)] => ~apart[Ws(u)] /\ keys' = keys
  PROVE  (SearchAt(u) /\ KeyAt(u))'
  <1>1. SearchAt(u) /\ KeyAt(u)
    BY DEF SearchInv, KeyInv
  <1>2. Held(u) => Held(u)'
    BY DEF Held
  <1>3. SearchAt(u)'
    BY <1>1, <1>2 DEF SearchAt, Theirs
  <1>4. KeyAt(u)'
    BY <1>1 DEF KeyAt
  <1> QED
    BY <1>3, <1>4

\* A step after which the loop asks for nothing.
LEMMA SearchParked ==
  ASSUME NEW u \in Transfers, NEW p \in {"off", "start", "backoff", "end"}, job'[Ws(u)] = At(p)
  PROVE  (SearchAt(u) /\ KeyAt(u))'
  BY DEF SearchAt, KeyAt, At, Asking

\* A step after which the loop asks for the version v.
LEMMA SearchAsks ==
  ASSUME TypeInv, NEW u \in Transfers, NEW v \in Version,
         job'[Ws(u)] = [At("req") EXCEPT !.ver = v], known' = known,
         \A w \in Theirs : w <= v,
         ~apart'[Ws(u)] => keys'
  PROVE  (SearchAt(u) /\ KeyAt(u))'
  BY DEF SearchAt, KeyAt, At, Asking, Theirs

\* What a step does to the jobs.
LEMMA ToOnly ==
  ASSUME TypeInv, NEW j \in Jobs, NEW r, To(j, r)
  PROVE  job'[j] = r /\ \A i \in Jobs : i # j => job'[i] = job[i]
  BY DEF To, TypeInv

LEMMA OtherSocket ==
  ASSUME NEW j \in Jobs, NEW u \in Transfers, j # Ws(u)
  PROVE  <<Ws(u), 0>> # NonceKey(j)
  BY DEF NonceKey

LEMMA WsSocket ==
  ASSUME SearchInv, NEW u \in Transfers
  PROVE  NonceKey(Ws(u)) = <<Ws(u), 0>>
  BY DEF NonceKey, SearchInv, SearchAt

\* The end of a request that found the version.
LEMMA SearchEstablished ==
  ASSUME TypeInv, SearchInv, KeyInv, NEW t \in Transfers, Established(t),
         job[Ws(t)].ver \in Theirs, \A v \in Theirs : v <= job[Ws(t)].ver,
         known' = known, keys' = keys, nonces' = nonces, apart' = apart
  PROVE  (SearchInv /\ KeyInv)'
  <1> SUFFICES ASSUME NEW u \in Transfers PROVE (SearchAt(u) /\ KeyAt(u))'
    BY DEF SearchInv, KeyInv
  <1>1. CASE u # t
    <2>1. \E r : To(Ws(t), r)
      BY DEF Established, Ws
    <2>2. job'[Ws(u)] = job[Ws(u)]
      BY <1>1, <2>1, JobsOf, ToOnly
    <2> QED
      BY <2>2, SearchKept
  <1>2. CASE u = t
    <2>1. CASE outgoing[t] = "gone"
      <3>1. job'[Ws(u)] = At("end")
        BY <1>2, <2>1, JobsOf, ToOnly DEF Established, Ws
      <3> QED
        BY <3>1, SearchParked
    <2>2. CASE outgoing[t] # "gone"
      <3>1. job'[Ws(u)] = [At("run") EXCEPT !.ver = job[Ws(u)].ver]
        BY <1>2, <2>2, JobsOf, ToOnly DEF Established, Ws
      <3> QED
        BY <1>2, <3>1 DEF SearchAt, KeyAt, At, Asking, Theirs
    <2> QED
      BY <2>1, <2>2
  <1> QED
    BY <1>1, <1>2

\* The end of a request that did not: a 401 needs keys that were apart, and every
\* older version is still to be tried.
LEMMA SearchUnexpected ==
  ASSUME TypeInv, SearchInv, KeyInv, NEW t \in Transfers, NEW s, Unexpected(t, s),
         job[Ws(t)].pc \in Asking,
         s = 401 => apart[Ws(t)],
         s \notin {401, 429} => job[Ws(t)].ver \notin Theirs,
         known' = known, keys' = keys, nonces' = nonces, apart' = apart
  PROVE  (SearchInv /\ KeyInv)'
  <1> SUFFICES ASSUME NEW u \in Transfers PROVE (SearchAt(u) /\ KeyAt(u))'
    BY DEF SearchInv, KeyInv
  <1> DEFINE older == OlderThan(t)
  <1>0. /\ s \notin {401, 429} => (\A v \in Theirs : v \in older)
        /\ job[Ws(t)].ver \in Version
        /\ job[Ws(t)].pc \in Asking /\ ~apart[Ws(t)] => keys
    <2>1. SearchAt(t) /\ KeyAt(t)
      BY DEF SearchInv, KeyInv
    <2>2. Theirs \subseteq Version
      BY DEF Theirs, TypeInv, Hosts
    <2>3. \A v \in Theirs : v <= job[Ws(t)].ver
      BY <2>1 DEF SearchAt
    <2>4. job[Ws(t)].ver \in Version
      BY <2>1 DEF SearchAt
    <2>5. \A v, w \in Version : v <= w => v < w \/ v = w
      BY DEF Version
    <2>6. s \notin {401, 429} => (\A v \in Theirs : v \in older)
      BY <2>2, <2>3, <2>4, <2>5 DEF OlderThan, Ws
    <2> QED
      BY <2>1, <2>4, <2>6 DEF KeyAt
  <1>1. \E r : To(Ws(t), r)
    BY DEF Unexpected, GiveUp, Request, Ws
  <1>2. CASE u # t
    <2>1. job'[Ws(u)] = job[Ws(u)]
      BY <1>1, <1>2, JobsOf, ToOnly
    <2> QED
      BY <2>1, SearchKept
  <1>3. CASE u = t
    <2>1. CASE s = 401
      <3>1. job'[Ws(u)] = At("denied")
        <4>1. GiveUp(t, "denied")
          BY <2>1 DEF Unexpected
        <4> QED
          BY <1>3, <4>1, JobsOf, ToOnly DEF GiveUp, Ws
      <3> QED
        BY <1>3, <2>1, <3>1 DEF SearchAt, KeyAt, At, Asking
    <2>2. CASE s = 429
      <3>1. job'[Ws(u)] = At("backoff")
        <4>1. To(Ws(t), At("backoff"))
          BY <2>2 DEF Unexpected, Ws
        <4> QED
          BY <1>3, <4>1, JobsOf, ToOnly
      <3> QED
        BY <3>1, SearchParked
    <2>3. CASE s \notin {401, 429} /\ older = {}
      <3>1. job'[Ws(u)] = At("nover")
        <4>1. GiveUp(t, "nover")
          BY <2>3 DEF Unexpected, Ws
        <4> QED
          BY <1>3, <4>1, JobsOf, ToOnly DEF GiveUp, Ws
      <3>2. Theirs = {}
        BY <1>0, <2>3
      <3> QED
        BY <3>1, <3>2 DEF SearchAt, KeyAt, At, Asking, Theirs
    <2>4. CASE s \notin {401, 429} /\ older # {}
      <3>1. Request(Ws(t), Max(older))
        BY <2>4 DEF Unexpected, Ws
      <3>2. Max(older) \in Version /\ \A v \in older : v <= Max(older)
        BY <2>4, MaxVersion DEF OlderThan
      <3>3. \A v \in Theirs : v <= Max(older)
        BY <1>0, <2>4, <3>2
      <3> HIDE DEF older
      <3>4. job'[Ws(u)] = [At("req") EXCEPT !.ver = Max(older)]
        BY <1>3, <3>1, JobsOf, ToOnly DEF Request
      <3>5. ~apart'[Ws(u)] => keys'
        BY <1>0, <1>3
      <3> QED
        BY <3>2, <3>3, <3>4, <3>5, SearchAsks
    <2> QED
      BY <2>1, <2>2, <2>3, <2>4
  <1> QED
    BY <1>2, <1>3

LEMMA SearchStep == TypeInv /\ SearchInv /\ KeyInv /\ [Next]_vars => (SearchInv /\ KeyInv)'
  <1> SUFFICES ASSUME TypeInv, SearchInv, KeyInv, [Next]_vars PROVE (SearchInv /\ KeyInv)'
    OBVIOUS
  <1> USE DEF views, hist, bounds
  <1>1. ASSUME NEW j \in Jobs, HandlePlain(j) PROVE (SearchInv /\ KeyInv)'
    <2> SUFFICES ASSUME NEW u \in Transfers PROVE (SearchAt(u) /\ KeyAt(u))'
      BY DEF SearchInv, KeyInv
    <2> USE JobsOf
    <2> DEFINE a == NonceKey(j)
               h == Peer(j)
               N == [b \in DOMAIN nonces[h] \cup {a} |-> IF b = a THEN NewNonce ELSE nonces[h][b]]
               M == [job[j] EXCEPT !.pc = "resp", !.status = 401,
                                   !.good = SignedByServer(job[j].ver), !.nonce = NewNonce]
    <2>1. known' = known /\ keys' = keys /\ apart' = apart /\ job[j].pc = "req"
      BY <1>1 DEF HandlePlain
    <2>2. job[j] \in JobRecord /\ h \in Hosts
      BY DEF TypeInv
    <2>3. \/ /\ job[j].ver \notin known[h]
             /\ To(j, [job[j] EXCEPT !.pc = "resp", !.status = 404])
             /\ UNCHANGED nonces
          \/ /\ job[j].ver \in known[h]
             /\ To(j, [job[j] EXCEPT !.pc = "resp", !.status = Accepted(j)])
             /\ nonces' = [nonces EXCEPT ![h] = Uncached(h, a)]
          \/ /\ job[j].ver \in known[h]
             /\ To(j, M)
             /\ nonces' = [nonces EXCEPT ![h] = N]
      BY <1>1 DEF HandlePlain
    <2>4. CASE Ws(u) # j
      <3>1. <<Ws(u), 0>> # a
        BY <2>4, OtherSocket
      <3>2. job'[Ws(u)] = job[Ws(u)]
        <4> HIDE DEF M, N
        <4>1. \E r : To(j, r)
          BY <2>3
        <4> QED
          BY <2>4, <4>1, ToOnly
      <3>3. <<Ws(u), 0>> \in DOMAIN nonces["receiver"] =>
              /\ <<Ws(u), 0>> \in DOMAIN nonces'["receiver"]
              /\ nonces'["receiver"][<<Ws(u), 0>>] = nonces["receiver"][<<Ws(u), 0>>]
        <4>1. CASE UNCHANGED nonces
          BY <4>1
        <4>2. CASE nonces' = [nonces EXCEPT ![h] = Uncached(h, a)]
          <5>1. \/ nonces'["receiver"] = nonces["receiver"]
                \/ nonces'["receiver"] = Uncached("receiver", a)
            BY <2>2, <4>2 DEF TypeInv, Hosts
          <5> QED
            BY <3>1, <5>1 DEF Uncached
        <4>3. CASE nonces' = [nonces EXCEPT ![h] = N]
          <5>1. \/ nonces'["receiver"] = nonces["receiver"]
                \/ h = "receiver" /\ nonces'["receiver"] = N
            BY <2>2, <4>3 DEF TypeInv, Hosts
          <5> QED
            BY <3>1, <5>1
        <4> QED
          BY <2>3, <4>1, <4>2, <4>3
      <3> QED
        BY <2>1, <3>2, <3>3, SearchKept
    <2>5. CASE Ws(u) = j
      <3>1. SearchAt(u) /\ KeyAt(u) /\ h = "receiver" /\ a = <<Ws(u), 0>>
        BY <2>5, WsSocket DEF SearchInv, KeyInv
      <3>2. KeyAt(u)'
        <4>0. \A r : To(j, r) => job'[Ws(u)] = r
          BY <2>5, ToOnly
        <4>1. job'[Ws(u)].pc = "resp"
          <5>1. CASE To(j, M)
            BY <2>2, <4>0, <5>1, ZenonT(60) DEF JobRecord
          <5>2. CASE To(j, [job[j] EXCEPT !.pc = "resp", !.status = 404])
            BY <2>2, <4>0, <5>2, ZenonT(60) DEF JobRecord
          <5>3. CASE To(j, [job[j] EXCEPT !.pc = "resp", !.status = Accepted(j)])
            BY <2>2, <4>0, <5>3 DEF JobRecord
          <5> QED
            BY <2>3, <5>1, <5>2, <5>3
        <4> QED
          BY <2>1, <2>5, <3>1, <4>1 DEF KeyAt, Asking
      <3>3. CASE /\ job[j].ver \notin known[h]
                 /\ To(j, [job[j] EXCEPT !.pc = "resp", !.status = 404])
        <4>1. job'[Ws(u)] = [job[Ws(u)] EXCEPT !.pc = "resp", !.status = 404]
          BY <2>5, <3>3, ToOnly
        <4>2. /\ job'[Ws(u)].pc = "resp" /\ job'[Ws(u)].status = 404
              /\ job'[Ws(u)].ver = job[Ws(u)].ver /\ job'[Ws(u)].sock = job[Ws(u)].sock
          BY <2>2, <2>5, <4>1 DEF JobRecord
        <4> QED
          BY <2>1, <2>5, <3>1, <3>2, <3>3, <4>2 DEF SearchAt, Asking, Theirs
      <3>4. CASE /\ job[j].ver \in known[h]
                 /\ To(j, [job[j] EXCEPT !.pc = "resp", !.status = Accepted(j)])
        <4>1. Accepted(j) = 101
          BY <2>5 DEF Accepted
        <4>2. job'[Ws(u)] = [job[Ws(u)] EXCEPT !.pc = "resp", !.status = 101]
          BY <2>5, <3>4, <4>1, ToOnly
        <4>3. /\ job'[Ws(u)].pc = "resp" /\ job'[Ws(u)].status = 101
              /\ job'[Ws(u)].ver = job[Ws(u)].ver /\ job'[Ws(u)].sock = job[Ws(u)].sock
          BY <2>2, <2>5, <4>2 DEF JobRecord
        <4> QED
          BY <2>1, <2>5, <3>1, <3>2, <3>4, <4>3 DEF SearchAt, Asking, Theirs
      <3>5. CASE job[j].ver \in known[h] /\ To(j, M) /\ nonces' = [nonces EXCEPT ![h] = N]
        <4>1. job'[Ws(u)] = M
          BY <2>5, <3>5, ToOnly
        <4>2. /\ job'[Ws(u)].pc = "resp" /\ job'[Ws(u)].status = 401
              /\ job'[Ws(u)].ver = job[Ws(u)].ver /\ job'[Ws(u)].sock = job[Ws(u)].sock
              /\ job'[Ws(u)].nonce = NewNonce
          BY <2>2, <2>5, <4>1 DEF JobRecord
        <4>3. Held(u)'
          <5>1. a \in DOMAIN nonces'["receiver"] /\ nonces'["receiver"][a] = NewNonce
            <6>1. nonces'["receiver"] = N
              BY <3>1, <3>5 DEF TypeInv, Hosts
            <6> QED
              BY <3>1, <6>1
          <5> QED
            BY <3>1, <4>2, <5>1 DEF Held
        <4> QED
          BY <2>1, <2>5, <3>1, <3>2, <3>5, <4>2, <4>3 DEF SearchAt, Asking, Theirs
      <3> QED
        BY <2>3, <3>3, <3>4, <3>5
    <2> QED
      BY <2>4, <2>5
  <1>2. ASSUME NEW j \in Jobs, HandleAuth(j) PROVE (SearchInv /\ KeyInv)'
    <2> SUFFICES ASSUME NEW u \in Transfers PROVE (SearchAt(u) /\ KeyAt(u))'
      BY DEF SearchInv, KeyInv
    <2> USE JobsOf
    <2> DEFINE a == NonceKey(j)
               h == Peer(j)
    <2>1. /\ known' = known /\ keys' = keys /\ apart' = apart /\ job[j].pc = "auth"
          /\ nonces' = [nonces EXCEPT ![h] = Uncached(h, a)]
      BY <1>2 DEF HandleAuth
    <2>2. job[j] \in JobRecord /\ h \in Hosts
      BY DEF TypeInv
    <2>3. PICK s :
            /\ To(j, [job[j] EXCEPT !.pc = "resp2", !.status = s])
            /\ IF a \in DOMAIN nonces[h] /\ Authorize(nonces[h][a], job[j].nonce, job[j].good)
               THEN s = Accepted(j) ELSE s = 401
      BY <1>2 DEF HandleAuth
    <2>4. CASE Ws(u) # j
      <3>1. job'[Ws(u)] = job[Ws(u)]
        BY <2>3, <2>4, ToOnly
      <3>2. <<Ws(u), 0>> # a
        BY <2>4, OtherSocket
      <3>3. <<Ws(u), 0>> \in DOMAIN nonces["receiver"] =>
              /\ <<Ws(u), 0>> \in DOMAIN nonces'["receiver"]
              /\ nonces'["receiver"][<<Ws(u), 0>>] = nonces["receiver"][<<Ws(u), 0>>]
        <4>1. \/ nonces'["receiver"] = nonces["receiver"]
              \/ nonces'["receiver"] = Uncached("receiver", a)
          BY <2>1, <2>2 DEF TypeInv, Hosts
        <4> QED
          BY <3>2, <4>1 DEF Uncached
      <3> QED
        BY <2>1, <3>1, <3>3, SearchKept
    <2>5. CASE Ws(u) = j
      <3>1. SearchAt(u) /\ KeyAt(u) /\ h = "receiver" /\ a = <<Ws(u), 0>>
        BY <2>5, WsSocket DEF SearchInv, KeyInv
      <3>2. /\ job'[Ws(u)].pc = "resp2" /\ job'[Ws(u)].status = s
            /\ job'[Ws(u)].ver = job[Ws(u)].ver /\ job'[Ws(u)].sock = job[Ws(u)].sock
        <4>1. job'[Ws(u)] = [job[Ws(u)] EXCEPT !.pc = "resp2", !.status = s]
          BY <2>3, <2>5, ToOnly
        <4> QED
          BY <2>2, <2>5, <4>1 DEF JobRecord
      <3>3. Accepted(j) = 101
        BY <2>5 DEF Accepted
      <3>4. s \in {101, 401}
        BY <2>3, <3>3
      <3>5. ~apart[Ws(u)] => s # 401
        <4> SUFFICES ASSUME ~apart[Ws(u)] PROVE s # 401
          OBVIOUS
        <4>1. keys /\ job[j].good /\ Held(u)
          BY <2>1, <2>5, <3>1 DEF SearchAt, KeyAt, Asking
        <4>2. a \in DOMAIN nonces[h] /\ Authorize(nonces[h][a], job[j].nonce, job[j].good)
          BY <2>5, <3>1, <4>1 DEF Held, Authorize
        <4> QED
          BY <2>3, <3>3, <4>2
      <3>6. SearchAt(u)'
        BY <2>1, <2>5, <3>1, <3>2, <3>4 DEF SearchAt, Asking, Theirs
      <3>7. KeyAt(u)'
        BY <2>1, <2>5, <3>1, <3>2, <3>5 DEF KeyAt, Asking
      <3> QED
        BY <3>6, <3>7
    <2> QED
      BY <2>4, <2>5
  <1>3. ASSUME NEW j \in Jobs, TooManyRequests(j) PROVE (SearchInv /\ KeyInv)'
    <2> SUFFICES ASSUME NEW u \in Transfers PROVE (SearchAt(u) /\ KeyAt(u))'
      BY DEF SearchInv, KeyInv
    <2> USE JobsOf
    <2>1. PICK p \in {"resp", "resp2"} :
            /\ To(j, [job[j] EXCEPT !.pc = p, !.status = 429])
            /\ p = "resp2" <=> job[j].pc = "auth"
      BY <1>3 DEF TooManyRequests
    <2>2. CASE Ws(u) = j
      <3>1. job'[Ws(u)] = [job[Ws(u)] EXCEPT !.pc = p, !.status = 429] /\ job[Ws(u)] \in JobRecord
        BY <2>1, <2>2, ToOnly DEF TypeInv
      <3>2. /\ job'[Ws(u)].pc = p /\ job'[Ws(u)].status = 429
            /\ job'[Ws(u)].ver = job[Ws(u)].ver /\ job'[Ws(u)].sock = job[Ws(u)].sock
        BY <3>1 DEF JobRecord
      <3>3. SearchAt(u) /\ KeyAt(u)
        BY DEF SearchInv, KeyInv
      <3>4. /\ job[Ws(u)].pc \in {"req", "auth"}
            /\ known' = known /\ apart' = apart /\ keys' = keys
        BY <1>3, <2>2 DEF TooManyRequests
      <3>5. SearchAt(u)'
        BY <2>1, <2>2, <3>2, <3>3, <3>4 DEF SearchAt, Asking, Theirs
      <3>6. KeyAt(u)'
        BY <3>2, <3>3, <3>4 DEF KeyAt, Asking
      <3> QED
        BY <3>5, <3>6
    <2>3. CASE Ws(u) # j
      <3>1. job'[Ws(u)] = job[Ws(u)]
        BY <2>1, <2>3, ToOnly
      <3> QED
        BY <1>3, <3>1, SearchKept DEF TooManyRequests
    <2> QED
      BY <2>2, <2>3
  <1>4. ASSUME NEW j \in Jobs, Lost(j) PROVE (SearchInv /\ KeyInv)'
    <2> SUFFICES ASSUME NEW u \in Transfers PROVE (SearchAt(u) /\ KeyAt(u))'
      BY DEF SearchInv, KeyInv
    <2> USE JobsOf
    <2>1. To(j, At("backoff"))
      BY <1>4 DEF Lost
    <2>2. CASE Ws(u) = j
      BY <2>1, <2>2, ToOnly, SearchParked
    <2>3. CASE Ws(u) # j
      <3>1. job'[Ws(u)] = job[Ws(u)]
        BY <2>1, <2>3, ToOnly
      <3> QED
        BY <1>4, <3>1, SearchKept DEF Lost
    <2> QED
      BY <2>2, <2>3
  <1>5. ASSUME NEW j \in Jobs, Backoff(j) PROVE (SearchInv /\ KeyInv)'
    <2> SUFFICES ASSUME NEW u \in Transfers PROVE (SearchAt(u) /\ KeyAt(u))'
      BY DEF SearchInv, KeyInv
    <2> USE JobsOf
    <2>1. To(j, At("start"))
      BY <1>5 DEF Backoff
    <2>2. CASE Ws(u) = j
      BY <2>1, <2>2, ToOnly, SearchParked
    <2>3. CASE Ws(u) # j
      <3>1. job'[Ws(u)] = job[Ws(u)]
        BY <2>1, <2>3, ToOnly
      <3> QED
        BY <1>5, <3>1, SearchKept DEF Backoff
    <2> QED
      BY <2>2, <2>3
  <1>6. ASSUME NEW t \in Transfers, Dial(t) PROVE (SearchInv /\ KeyInv)'
    <2> SUFFICES ASSUME NEW u \in Transfers PROVE (SearchAt(u) /\ KeyAt(u))'
      BY DEF SearchInv, KeyInv
    <2> USE JobsOf
    <2>1. To(Ws(t), [At("req") EXCEPT !.ver = 6]) /\ known' = known /\ keys' = keys /\ nonces' = nonces
      BY <1>6 DEF Dial, Request, Ws
    <2>2. apart' = [apart EXCEPT ![Ws(t)] = ~keys]
      BY <1>6 DEF Dial, Ws
    <2>3. CASE u = t
      <3>1. job'[Ws(u)] = [At("req") EXCEPT !.ver = 6]
        BY <2>1, <2>3, ToOnly
      <3>2. 6 \in Version /\ \A v \in Theirs : v <= 6
        BY SMTT(20) DEF Version, Theirs, TypeInv, Hosts
      <3>3. ~apart'[Ws(u)] => keys'
        BY <2>1, <2>2, <2>3 DEF TypeInv
      <3> QED
        BY <2>1, <3>1, <3>2, <3>3, SearchAsks
    <2>4. CASE u # t
      <3>1. job'[Ws(u)] = job[Ws(u)]
        BY <2>1, <2>4, ToOnly
      <3>2. apart'[Ws(u)] = apart[Ws(u)]
        BY <2>2, <2>4 DEF TypeInv
      <3> QED
        BY <2>1, <3>1, <3>2, SearchKept
    <2> QED
      BY <2>3, <2>4
  <1>7. ASSUME NEW t \in Transfers, Response(t) PROVE (SearchInv /\ KeyInv)'
    <2>1. known' = known /\ keys' = keys /\ nonces' = nonces /\ apart' = apart /\ job[Ws(t)].pc = "resp"
      BY <1>7 DEF Response, Ws
    <2>2. SearchAt(t) /\ KeyAt(t)
      BY DEF SearchInv, KeyInv
    <2>3. /\ job[Ws(t)].status \in {101, 401, 404, 429}
          /\ \A v \in Theirs : v <= job[Ws(t)].ver
          /\ job[Ws(t)].status \in {101, 401} => job[Ws(t)].ver \in Theirs
          /\ job[Ws(t)].status = 404 => job[Ws(t)].ver \notin Theirs
      BY <2>1, <2>2 DEF SearchAt, Asking
    <2>4. CASE job[Ws(t)].status = 101 /\ Established(t)
      BY <2>1, <2>3, <2>4, SearchEstablished
    <2>5. CASE To(Ws(t), At("backoff"))
      <3> SUFFICES ASSUME NEW u \in Transfers PROVE (SearchAt(u) /\ KeyAt(u))'
        BY DEF SearchInv, KeyInv
      <3>1. CASE u = t
        BY <2>5, <3>1, JobsOf, ToOnly, SearchParked
      <3>2. CASE u # t
        <4>1. job'[Ws(u)] = job[Ws(u)]
          BY <2>5, <3>2, JobsOf, ToOnly
        <4> QED
          BY <2>1, <4>1, SearchKept
      <3> QED
        BY <3>1, <3>2
    <2>6. CASE /\ job[Ws(t)].status = 401
               /\ To(Ws(t), [job[Ws(t)] EXCEPT !.pc = "auth", !.sock = 0, !.good = Tag, !.status = 0])
      <3> SUFFICES ASSUME NEW u \in Transfers PROVE (SearchAt(u) /\ KeyAt(u))'
        BY DEF SearchInv, KeyInv
      <3>1. CASE u = t
        <4>1. job'[Ws(u)] = [job[Ws(u)] EXCEPT !.pc = "auth", !.sock = 0, !.good = Tag, !.status = 0]
          BY <2>6, <3>1, JobsOf, ToOnly
        <4>2. job[Ws(u)] \in JobRecord
          BY JobsOf DEF TypeInv
        <4>3. /\ job'[Ws(u)].pc = "auth" /\ job'[Ws(u)].sock = 0
              /\ job'[Ws(u)].ver = job[Ws(u)].ver /\ job'[Ws(u)].nonce = job[Ws(u)].nonce
          BY <4>1, <4>2 DEF JobRecord
        <4>4. job'[Ws(u)].good = keys
          BY <4>1, <4>2 DEF JobRecord, Tag
        <4>5. Held(u)'
          BY <2>1, <2>2, <2>6, <3>1, <4>3 DEF SearchAt, Held
        <4>6. SearchAt(u)'
          BY <2>1, <2>2, <2>3, <2>6, <3>1, <4>3, <4>5 DEF SearchAt, Asking, Theirs
        <4>7. KeyAt(u)'
          BY <2>1, <2>2, <3>1, <4>3, <4>4 DEF KeyAt, Asking
        <4> QED
          BY <4>6, <4>7
      <3>2. CASE u # t
        <4>1. job'[Ws(u)] = job[Ws(u)]
          BY <2>6, <3>2, JobsOf, ToOnly
        <4> QED
          BY <2>1, <4>1, SearchKept
      <3> QED
        BY <3>1, <3>2
    <2>7. CASE job[Ws(t)].status \notin {101, 401} /\ Unexpected(t, job[Ws(t)].status)
      BY <2>1, <2>3, <2>7, SearchUnexpected DEF Asking
    <2> QED
      BY <1>7, <2>4, <2>5, <2>6, <2>7 DEF Response, Answer401, Ws
  <1>8. ASSUME NEW t \in Transfers, Response2(t) PROVE (SearchInv /\ KeyInv)'
    <2>1. known' = known /\ keys' = keys /\ nonces' = nonces /\ apart' = apart /\ job[Ws(t)].pc = "resp2"
      BY <1>8 DEF Response2, Ws
    <2>2. SearchAt(t) /\ KeyAt(t)
      BY DEF SearchInv, KeyInv
    <2>3. /\ job[Ws(t)].status \in {101, 401, 429} /\ job[Ws(t)].ver \in Theirs
          /\ \A v \in Theirs : v <= job[Ws(t)].ver
          /\ job[Ws(t)].status = 401 => apart[Ws(t)]
      BY <2>1, <2>2 DEF SearchAt, KeyAt, Asking
    <2>4. CASE Established(t)
      BY <2>1, <2>3, <2>4, SearchEstablished
    <2>5. CASE job[Ws(t)].status # 101 /\ Unexpected(t, job[Ws(t)].status)
      BY <2>1, <2>3, <2>5, SearchUnexpected DEF Asking
    <2> QED
      BY <1>8, <2>4, <2>5 DEF Response2, Ws
  <1>9. ASSUME NEW t \in Transfers, Broken(t) PROVE (SearchInv /\ KeyInv)'
    <2> SUFFICES ASSUME NEW u \in Transfers PROVE (SearchAt(u) /\ KeyAt(u))'
      BY DEF SearchInv, KeyInv
    <2> USE JobsOf
    <2>1. To(Ws(t), At("backoff"))
      BY <1>9 DEF Broken, Ws
    <2>2. CASE Ws(u) = Ws(t)
      BY <2>1, <2>2, ToOnly, SearchParked
    <2>3. CASE Ws(u) # Ws(t)
      <3>1. job'[Ws(u)] = job[Ws(u)]
        BY <2>1, <2>3, ToOnly
      <3> QED
        BY <1>9, <3>1, SearchKept DEF Broken
    <2> QED
      BY <2>2, <2>3
  <1>10. ASSUME NEW t \in Transfers, Closed(t) PROVE (SearchInv /\ KeyInv)'
    <2> SUFFICES ASSUME NEW u \in Transfers PROVE (SearchAt(u) /\ KeyAt(u))'
      BY DEF SearchInv, KeyInv
    <2> USE JobsOf
    <2>1. To(Ws(t), At("end"))
      BY <1>10 DEF Closed, Ws
    <2>2. CASE Ws(u) = Ws(t)
      BY <2>1, <2>2, ToOnly, SearchParked
    <2>3. CASE Ws(u) # Ws(t)
      <3>1. job'[Ws(u)] = job[Ws(u)]
        BY <2>1, <2>3, ToOnly
      <3> QED
        BY <1>10, <3>1, SearchKept DEF Closed
    <2> QED
      BY <2>2, <2>3
  <1>11. ASSUME NEW t \in Transfers, CheckRun(t) PROVE (SearchInv /\ KeyInv)'
    <2> SUFFICES ASSUME NEW u \in Transfers PROVE (SearchAt(u) /\ KeyAt(u))'
      BY DEF SearchInv, KeyInv
    <2> USE JobsOf
    <2>1. \E r : To(Check(t), r)
      BY <1>11 DEF CheckRun, Request, Check
    <2>2. job'[Ws(u)] = job[Ws(u)]
      BY <2>1, ToOnly
    <2> QED
      BY <1>11, <2>2, SearchKept DEF CheckRun
  <1>12. ASSUME NEW t \in Transfers, CheckResponse(t) PROVE (SearchInv /\ KeyInv)'
    <2> SUFFICES ASSUME NEW u \in Transfers PROVE (SearchAt(u) /\ KeyAt(u))'
      BY DEF SearchInv, KeyInv
    <2> USE JobsOf
    <2>1. \E r : To(Check(t), r)
      BY <1>12 DEF CheckResponse, Answer401, Conclude, Request, Check
    <2>2. job'[Ws(u)] = job[Ws(u)]
      BY <2>1, ToOnly
    <2> QED
      BY <1>12, <2>2, SearchKept DEF CheckResponse
  <1>13. ASSUME NEW t \in Transfers, Cancel(t) PROVE (SearchInv /\ KeyInv)'
    <2> SUFFICES ASSUME NEW u \in Transfers PROVE (SearchAt(u) /\ KeyAt(u))'
      BY DEF SearchInv, KeyInv
    <2> USE JobsOf
    <2>1. job'[Ws(u)] = job[Ws(u)]
      BY <1>13 DEF Cancel
    <2> QED
      BY <1>13, <2>1, SearchKept DEF Cancel
  <1>14. ASSUME NEW h \in Hosts, NetworkRefresh(h) PROVE (SearchInv /\ KeyInv)'
    <2> SUFFICES ASSUME NEW u \in Transfers PROVE (SearchAt(u) /\ KeyAt(u))'
      BY DEF SearchInv, KeyInv
    <2> USE JobsOf
    <2>1. job'[Ws(u)] = job[Ws(u)]
      BY <1>14 DEF NetworkRefresh
    <2> QED
      BY <1>14, <2>1, SearchKept DEF NetworkRefresh
  <1>15. ASSUME NEW h \in Hosts, Restart(h) PROVE (SearchInv /\ KeyInv)'
    <2> SUFFICES ASSUME NEW u \in Transfers PROVE (SearchAt(u) /\ KeyAt(u))'
      BY DEF SearchInv, KeyInv
    <2> USE JobsOf
    <2>1. CASE h = "sender"
      <3>1. job'[Ws(u)] = Resumed(Ws(u))
        BY <1>15, <2>1 DEF Restart
      <3>2. \E p \in {"off", "start"} : job'[Ws(u)] = At(p)
        BY <3>1 DEF Resumed
      <3> QED
        BY <3>2, SearchParked
    <2>2. CASE h = "receiver"
      <3>1. CASE job[Ws(u)].pc \in Asking \cup {"run"}
        <4>1. job'[Ws(u)] = At("backoff")
          BY <1>15, <2>2, <3>1 DEF Restart, Asking
        <4> QED
          BY <4>1, SearchParked
      <3>2. CASE job[Ws(u)].pc \notin Asking \cup {"run"}
        <4>1. job'[Ws(u)] = job[Ws(u)]
          BY <1>15, <2>2, <3>2 DEF Restart, Asking
        <4>2. SearchAt(u) /\ KeyAt(u)
          BY DEF SearchInv, KeyInv
        <4>3. known' = known /\ apart' = apart
          BY <1>15 DEF Restart
        <4> QED
          BY <3>2, <4>1, <4>2, <4>3 DEF SearchAt, KeyAt, Asking, Theirs
      <3> QED
        BY <3>1, <3>2
    <2> QED
      BY <2>1, <2>2 DEF Hosts
  <1>16. ASSUME KeyChange PROVE (SearchInv /\ KeyInv)'
    <2> SUFFICES ASSUME NEW u \in Transfers PROVE (SearchAt(u) /\ KeyAt(u))'
      BY DEF SearchInv, KeyInv
    <2> USE JobsOf
    <2>1. job'[Ws(u)] = job[Ws(u)] /\ apart'[Ws(u)]
      BY <1>16 DEF KeyChange
    <2> QED
      BY <1>16, <2>1, SearchKept DEF KeyChange
  <1>17. ASSUME NEW t \in Transfers, RegisterIncoming(t) PROVE (SearchInv /\ KeyInv)'
    <2> SUFFICES ASSUME NEW u \in Transfers PROVE (SearchAt(u) /\ KeyAt(u))'
      BY DEF SearchInv, KeyInv
    <2>1. To(Check(t), At("start")) \/ job' = job
      BY <1>17 DEF RegisterIncoming, Check
    <2>2. job'[Ws(u)] = job[Ws(u)]
      BY <2>1, JobsOf, ToOnly
    <2> QED
      BY <1>17, <2>2, SearchKept DEF RegisterIncoming
  <1>18. CASE UNCHANGED vars
    BY <1>18
       DEF vars, SearchInv, KeyInv, SearchAt, KeyAt, Held, Theirs
  <1> QED
    BY <1>1, <1>2, <1>3, <1>4, <1>5, <1>6, <1>7, <1>8, <1>9, <1>10,
       <1>11, <1>12, <1>13, <1>14, <1>15, <1>16, <1>17, <1>18
       DEF Next, Environment, Running

\* A step that leaves a checking job alone, or moves it to a state without an answer.
LEMMA CheckKept ==
  ASSUME CheckInv, NEW u \in Transfers,
         outgoing[u] = "gone" => outgoing'[u] = "gone",
         incoming'[u] = "none" => incoming[u] = "none",
         \/ job'[Check(u)] = job[Check(u)]
         \/ /\ job'[Check(u)].status = 410 => outgoing[u] = "gone"
            /\ job'[Check(u)].pc = "off" \/ incoming'[u] # "none"
  PROVE  CheckAt(u)'
  BY DEF CheckInv, CheckAt

LEMMA AtHas ==
  \A p : At(p).pc = p /\ At(p).status = 0 /\ At(p).sock = 0 /\ At(p).ver = 0
  BY DEF At

LEMMA AskHas ==
  \A v : [At("req") EXCEPT !.ver = v].pc = "req" /\ [At("req") EXCEPT !.ver = v].status = 0
  BY DEF At

\* A checking job that is at work has a transfer.
LEMMA CheckBusy ==
  ASSUME TypeInv, CheckInv, NEW u \in Transfers, job[Check(u)].pc # "off"
  PROVE  incoming[u] # "none"
  BY DEF CheckInv, CheckAt

LEMMA CheckEstablished ==
  ASSUME TypeInv, CheckInv, NEW t \in Transfers, Established(t)
  PROVE  CheckInv'
  <1> SUFFICES ASSUME NEW u \in Transfers PROVE CheckAt(u)'
    BY DEF CheckInv
  <1>1. (\E r : To(Ws(t), r)) /\ incoming' = incoming
    BY DEF Established, Ws, views
  <1>2. job'[Check(u)] = job[Check(u)]
    BY <1>1, JobsOf, ToOnly
  <1>3. outgoing[u] = "gone" => outgoing'[u] = "gone"
    BY DEF Established, views, TypeInv
  <1> QED
    BY <1>1, <1>2, <1>3, CheckKept

LEMMA CheckUnexpected ==
  ASSUME TypeInv, CheckInv, NEW t \in Transfers, NEW s, Unexpected(t, s)
  PROVE  CheckInv'
  <1> SUFFICES ASSUME NEW u \in Transfers PROVE CheckAt(u)'
    BY DEF CheckInv
  <1>1. \E r : To(Ws(t), r)
    BY DEF Unexpected, GiveUp, Request, Ws
  <1>2. job'[Check(u)] = job[Check(u)]
    BY <1>1, JobsOf, ToOnly
  <1>3. incoming' = incoming
    BY DEF Unexpected, GiveUp, views
  <1>4. outgoing[u] = "gone" => outgoing'[u] = "gone"
    BY DEF Unexpected, GiveUp, views, TypeInv
  <1> QED
    BY <1>2, <1>3, <1>4, CheckKept

LEMMA CheckStep == TypeInv /\ CheckInv /\ [Next]_vars => CheckInv'
  <1> SUFFICES ASSUME TypeInv, CheckInv, [Next]_vars PROVE CheckInv'
    OBVIOUS
  <1> USE DEF views, hist, bounds
  <1>1. ASSUME NEW j \in Jobs, HandlePlain(j) PROVE CheckInv'
    <2> SUFFICES ASSUME NEW u \in Transfers PROVE CheckAt(u)'
      BY DEF CheckInv
    <2> USE JobsOf
    <2>1. \/ \E s \in {404, Accepted(j)} : To(j, [job[j] EXCEPT !.pc = "resp", !.status = s])
          \/ \E g, n : To(j, [job[j] EXCEPT !.pc = "resp", !.status = 401, !.good = g, !.nonce = n])
      BY <1>1, ZenonT(60) DEF HandlePlain
    <2>2. outgoing' = outgoing /\ incoming' = incoming /\ job[j] \in JobRecord
      BY <1>1 DEF HandlePlain, TypeInv
    <2>3. CASE Check(u) # j
      <3>1. \E r : To(j, r)
        BY <2>1
      <3>2. job'[Check(u)] = job[Check(u)]
        BY <2>3, <3>1, ToOnly
      <3> QED
        BY <2>2, <3>2, CheckKept
    <2>4. CASE Check(u) = j
      <3>1. incoming[u] # "none"
        BY <1>1, <2>4, CheckBusy DEF HandlePlain
      <3>2. job'[Check(u)].status = 410 => outgoing[u] = "gone"
        <4>1. CASE \E s \in {404, Accepted(j)} : To(j, [job[j] EXCEPT !.pc = "resp", !.status = s])
          <5>1. PICK s \in {404, Accepted(j)} : To(j, [job[j] EXCEPT !.pc = "resp", !.status = s])
            BY <4>1
          <5>2. job'[j] = [job[j] EXCEPT !.pc = "resp", !.status = s]
            BY <5>1, ToOnly
          <5>3. job'[j].status = s
            BY <2>2, <5>2 DEF JobRecord
          <5> QED
            BY <2>4, <5>3 DEF Accepted
        <4>2. CASE \E g, n : To(j, [job[j] EXCEPT !.pc = "resp", !.status = 401, !.good = g,
                                                  !.nonce = n])
          <5>1. PICK g, n : To(j, [job[j] EXCEPT !.pc = "resp", !.status = 401, !.good = g,
                                                 !.nonce = n])
            BY <4>2
          <5>2. job'[j] = [job[j] EXCEPT !.pc = "resp", !.status = 401, !.good = g, !.nonce = n]
            BY <5>1, ToOnly
          <5>3. job'[j].status = 401
            BY <2>2, <5>2 DEF JobRecord
          <5> QED
            BY <2>4, <5>3
        <4> QED
          BY <2>1, <4>1, <4>2
      <3> QED
        BY <2>2, <3>1, <3>2, CheckKept
    <2> QED
      BY <2>3, <2>4
  <1>2. ASSUME NEW j \in Jobs, HandleAuth(j) PROVE CheckInv'
    <2> SUFFICES ASSUME NEW u \in Transfers PROVE CheckAt(u)'
      BY DEF CheckInv
    <2> USE JobsOf
    <2>1. \E s \in {401, Accepted(j)} : To(j, [job[j] EXCEPT !.pc = "resp2", !.status = s])
      BY <1>2 DEF HandleAuth
    <2>2. outgoing' = outgoing /\ incoming' = incoming /\ job[j] \in JobRecord
      BY <1>2 DEF HandleAuth, TypeInv
    <2>3. CASE Check(u) # j
      <3>1. \E r : To(j, r)
        BY <2>1
      <3>2. job'[Check(u)] = job[Check(u)]
        BY <2>3, <3>1, ToOnly
      <3> QED
        BY <2>2, <3>2, CheckKept
    <2>4. CASE Check(u) = j
      <3>1. incoming[u] # "none"
        BY <1>2, <2>4, CheckBusy DEF HandleAuth
      <3>2. job'[Check(u)].status = 410 => outgoing[u] = "gone"
        <4>1. PICK s \in {401, Accepted(j)} : To(j, [job[j] EXCEPT !.pc = "resp2", !.status = s])
          BY <2>1
        <4>2. job'[j] = [job[j] EXCEPT !.pc = "resp2", !.status = s]
          BY <4>1, ToOnly
        <4>3. job'[j].status = s
          BY <2>2, <4>2 DEF JobRecord
        <4> QED
          BY <2>4, <4>3 DEF Accepted
      <3> QED
        BY <2>2, <3>1, <3>2, CheckKept
    <2> QED
      BY <2>3, <2>4
  <1>3. ASSUME NEW j \in Jobs, TooManyRequests(j) PROVE CheckInv'
    <2> SUFFICES ASSUME NEW u \in Transfers PROVE CheckAt(u)'
      BY DEF CheckInv
    <2> USE JobsOf
    <2>1. \E p \in {"resp", "resp2"} : To(j, [job[j] EXCEPT !.pc = p, !.status = 429])
      BY <1>3 DEF TooManyRequests
    <2>2. outgoing' = outgoing /\ incoming' = incoming /\ job[j] \in JobRecord
      BY <1>3 DEF TooManyRequests, TypeInv
    <2>3. CASE Check(u) # j
      <3>1. \E r : To(j, r)
        BY <2>1
      <3>2. job'[Check(u)] = job[Check(u)]
        BY <2>3, <3>1, ToOnly
      <3> QED
        BY <2>2, <3>2, CheckKept
    <2>4. CASE Check(u) = j
      <3>1. incoming[u] # "none"
        BY <1>3, <2>4, CheckBusy DEF TooManyRequests
      <3>2. job'[Check(u)].status = 410 => outgoing[u] = "gone"
        <4>1. PICK p : To(j, [job[j] EXCEPT !.pc = p, !.status = 429])
          BY <2>1
        <4>2. job'[j] = [job[j] EXCEPT !.pc = p, !.status = 429]
          BY <4>1, ToOnly
        <4>3. job'[j].status = 429
          BY <2>2, <4>2 DEF JobRecord
        <4> QED
          BY <2>4, <4>3
      <3> QED
        BY <2>2, <3>1, <3>2, CheckKept
    <2> QED
      BY <2>3, <2>4
  <1>4. ASSUME NEW j \in Jobs, Lost(j) PROVE CheckInv'
    <2> SUFFICES ASSUME NEW u \in Transfers PROVE CheckAt(u)'
      BY DEF CheckInv
    <2> USE JobsOf
    <2>1. To(j, At("backoff"))
      BY <1>4 DEF Lost
    <2>2. outgoing' = outgoing /\ incoming' = incoming
      BY <1>4 DEF Lost
    <2>3. CASE Check(u) # j
      BY <2>1, <2>2, <2>3, ToOnly, CheckKept
    <2>4. CASE Check(u) = j
      <3>1. incoming[u] # "none"
        BY <1>4, <2>4, CheckBusy DEF Lost
      <3> QED
        BY <2>1, <2>2, <2>4, <3>1, ToOnly, CheckKept, AtHas
    <2> QED
      BY <2>3, <2>4
  <1>5. ASSUME NEW j \in Jobs, Backoff(j) PROVE CheckInv'
    <2> SUFFICES ASSUME NEW u \in Transfers PROVE CheckAt(u)'
      BY DEF CheckInv
    <2> USE JobsOf
    <2>1. To(j, At("start"))
      BY <1>5 DEF Backoff
    <2>2. outgoing' = outgoing /\ incoming' = incoming
      BY <1>5 DEF Backoff
    <2>3. CASE Check(u) # j
      BY <2>1, <2>2, <2>3, ToOnly, CheckKept
    <2>4. CASE Check(u) = j
      <3>1. incoming[u] # "none"
        BY <1>5, <2>4, CheckBusy DEF Backoff
      <3> QED
        BY <2>1, <2>2, <2>4, <3>1, ToOnly, CheckKept, AtHas
    <2> QED
      BY <2>3, <2>4
  <1>6. ASSUME NEW t \in Transfers, Dial(t) PROVE CheckInv'
    <2> SUFFICES ASSUME NEW u \in Transfers PROVE CheckAt(u)'
      BY DEF CheckInv
    <2> USE JobsOf
    <2>1. \E r : To(Ws(t), r)
      BY <1>6 DEF Dial, Ws, Request
    <2>2. job'[Check(u)] = job[Check(u)]
      BY <2>1, ToOnly
    <2>3. /\ outgoing[u] = "gone" => outgoing'[u] = "gone"
          /\ incoming'[u] = "none" => incoming[u] = "none"
      BY <1>6 DEF Dial, TypeInv
    <2> QED
      BY <2>2, <2>3, CheckKept
  <1>7. ASSUME NEW t \in Transfers, Response(t) PROVE CheckInv'
    <2>1. CASE Established(t)
      BY <2>1, CheckEstablished
    <2>2. CASE Unexpected(t, job[Ws(t)].status)
      BY <2>2, CheckUnexpected
    <2>3. CASE (\E r : To(Ws(t), r)) /\ UNCHANGED views
      <3> SUFFICES ASSUME NEW u \in Transfers PROVE CheckAt(u)'
        BY DEF CheckInv
      <3>1. job'[Check(u)] = job[Check(u)]
        BY <2>3, JobsOf, ToOnly
      <3> QED
        BY <2>3, <3>1, CheckKept
    <2> QED
      BY <1>7, <2>1, <2>2, <2>3 DEF Response, Answer401, Ws
  <1>8. ASSUME NEW t \in Transfers, Response2(t) PROVE CheckInv'
    BY <1>8, CheckEstablished, CheckUnexpected DEF Response2
  <1>9. ASSUME NEW t \in Transfers, Broken(t) PROVE CheckInv'
    <2> SUFFICES ASSUME NEW u \in Transfers PROVE CheckAt(u)'
      BY DEF CheckInv
    <2> USE JobsOf
    <2>1. \E r : To(Ws(t), r)
      BY <1>9 DEF Broken, Ws
    <2>2. job'[Check(u)] = job[Check(u)]
      BY <2>1, ToOnly
    <2>3. /\ outgoing[u] = "gone" => outgoing'[u] = "gone"
          /\ incoming'[u] = "none" => incoming[u] = "none"
      BY <1>9 DEF Broken, TypeInv
    <2> QED
      BY <2>2, <2>3, CheckKept
  <1>10. ASSUME NEW t \in Transfers, Closed(t) PROVE CheckInv'
    <2> SUFFICES ASSUME NEW u \in Transfers PROVE CheckAt(u)'
      BY DEF CheckInv
    <2> USE JobsOf
    <2>1. \E r : To(Ws(t), r)
      BY <1>10 DEF Closed, Ws
    <2>2. job'[Check(u)] = job[Check(u)]
      BY <2>1, ToOnly
    <2>3. /\ outgoing[u] = "gone" => outgoing'[u] = "gone"
          /\ incoming'[u] = "none" => incoming[u] = "none"
      BY <1>10 DEF Closed, TypeInv
    <2> QED
      BY <2>2, <2>3, CheckKept
  <1>11. ASSUME NEW t \in Transfers, CheckRun(t) PROVE CheckInv'
    <2> SUFFICES ASSUME NEW u \in Transfers PROVE CheckAt(u)'
      BY DEF CheckInv
    <2> USE JobsOf
    <2>1. \/ To(Check(t), At("end"))
          \/ To(Check(t), [At("req") EXCEPT !.ver = 6])
      BY <1>11 DEF CheckRun, Request, Check
    <2>2. outgoing' = outgoing /\ (incoming'[u] = "none" => incoming[u] = "none")
      BY <1>11 DEF CheckRun, TypeInv
    <2>3. CASE u # t
      <3>1. job'[Check(u)] = job[Check(u)]
        BY <2>1, <2>3, ToOnly
      <3> QED
        BY <2>2, <3>1, CheckKept
    <2>4. CASE u = t
      <3>1. incoming[u] # "none"
        BY <1>11, <2>4, CheckBusy DEF CheckRun, Check
      <3>2. job'[Check(u)].status = 0
        <4>1. \/ job'[Check(u)] = At("end")
              \/ job'[Check(u)] = [At("req") EXCEPT !.ver = 6]
          BY <2>1, <2>4, ToOnly
        <4> QED
          BY <4>1 DEF At
      <3> QED
        BY <2>2, <3>1, <3>2, CheckKept
    <2> QED
      BY <2>3, <2>4
  <1>12. ASSUME NEW t \in Transfers, CheckResponse(t) PROVE CheckInv'
    <2> SUFFICES ASSUME NEW u \in Transfers PROVE CheckAt(u)'
      BY DEF CheckInv
    <2> USE JobsOf
    <2>1. \E r : To(Check(t), r) /\ r.status = 0
      <3>1. CASE \E k : To(Check(t), [job[Check(t)] EXCEPT !.pc = "auth", !.sock = k, !.good = Tag, !.status = 0])
        <4>1. job[Check(t)] \in JobRecord
          BY DEF TypeInv
        <4>2. \A k : [job[Check(t)] EXCEPT !.pc = "auth", !.sock = k, !.good = Tag, !.status = 0].status = 0
          BY <4>1 DEF JobRecord
        <4> QED
          BY <3>1, <4>2
      <3>2. CASE \E p : To(Check(t), At(p))
        BY <3>2, AtHas
      <3>3. CASE \E v : To(Check(t), [At("req") EXCEPT !.ver = v])
        BY <3>3, AskHas, ZenonT(60)
      <3> QED
        BY <1>12, <3>1, <3>2, <3>3, ZenonT(60) DEF CheckResponse, Answer401, Conclude, Request, Check
    <2>2. outgoing' = outgoing /\ (incoming'[u] = "none" => incoming[u] = "none")
      BY <1>12 DEF CheckResponse, Conclude, TypeInv
    <2>3. CASE u # t
      <3>1. job'[Check(u)] = job[Check(u)]
        BY <2>1, <2>3, ToOnly
      <3> QED
        BY <2>2, <3>1, CheckKept
    <2>4. CASE u = t
      <3>1. incoming[u] # "none"
        BY <1>12, <2>4, CheckBusy DEF CheckResponse, Check
      <3>2. job'[Check(u)].status = 0
        BY <2>1, <2>4, ToOnly
      <3> QED
        BY <2>2, <3>1, <3>2, CheckKept
    <2> QED
      BY <2>3, <2>4
  <1>13. ASSUME NEW t \in Transfers, Cancel(t) PROVE CheckInv'
    <2> SUFFICES ASSUME NEW u \in Transfers PROVE CheckAt(u)'
      BY DEF CheckInv
    <2> USE JobsOf
    <2>1. job' = job /\ (outgoing[u] = "gone" => outgoing'[u] = "gone")
      BY <1>13 DEF Cancel, TypeInv
    <2>2. incoming'[u] = "none" => incoming[u] = "none"
      BY <1>13 DEF Cancel, TypeInv
    <2> QED
      BY <2>1, <2>2, CheckKept
  <1>14. ASSUME NEW h \in Hosts, NetworkRefresh(h) PROVE CheckInv'
    <2> SUFFICES ASSUME NEW u \in Transfers PROVE CheckAt(u)'
      BY DEF CheckInv
    <2> USE JobsOf
    <2>1. job' = job /\ (outgoing[u] = "gone" => outgoing'[u] = "gone")
      BY <1>14 DEF NetworkRefresh, TypeInv
    <2>2. incoming'[u] = "none" => incoming[u] = "none"
      BY <1>14 DEF NetworkRefresh, TypeInv
    <2> QED
      BY <2>1, <2>2, CheckKept
  <1>15. ASSUME NEW h \in Hosts, Restart(h) PROVE CheckInv'
    <2> SUFFICES ASSUME NEW u \in Transfers PROVE CheckAt(u)'
      BY DEF CheckInv
    <2> USE JobsOf
    <2>1. outgoing' = outgoing /\ incoming' = incoming
      BY <1>15 DEF Restart
    <2>2. CASE h = "receiver"
      <3>1. job'[Check(u)] = Resumed(Check(u))
        BY <1>15, <2>2 DEF Restart
      <3>2. PICK p : /\ p = "off" \/ incoming[u] # "none"
                     /\ job'[Check(u)] = At(p)
        BY <3>1 DEF Resumed
      <3> QED
        BY <2>1, <3>2, AtHas, CheckKept
    <2>3. CASE h = "sender"
      <3>1. \/ job'[Check(u)] = job[Check(u)]
            \/ job'[Check(u)] = At("backoff") /\ job[Check(u)].pc # "off"
        BY <1>15, <2>3 DEF Restart
      <3>2. job[Check(u)].pc # "off" => incoming[u] # "none"
        BY CheckBusy
      <3> QED
        BY <2>1, <3>1, <3>2, AtHas, CheckKept
    <2> QED
      BY <2>2, <2>3 DEF Hosts
  <1>16. ASSUME KeyChange PROVE CheckInv'
    <2> SUFFICES ASSUME NEW u \in Transfers PROVE CheckAt(u)'
      BY DEF CheckInv
    <2> USE JobsOf
    <2>1. job' = job /\ (outgoing[u] = "gone" => outgoing'[u] = "gone")
      BY <1>16 DEF KeyChange, TypeInv
    <2>2. incoming'[u] = "none" => incoming[u] = "none"
      BY <1>16 DEF KeyChange, TypeInv
    <2> QED
      BY <2>1, <2>2, CheckKept
  <1>17. ASSUME NEW t \in Transfers, RegisterIncoming(t) PROVE CheckInv'
    <2> SUFFICES ASSUME NEW u \in Transfers PROVE CheckAt(u)'
      BY DEF CheckInv
    <2>1. To(Check(t), At("start")) \/ job' = job
      BY <1>17 DEF RegisterIncoming, Check
    <2>2. /\ outgoing' = outgoing
          /\ incoming'[u] = "none" => incoming[u] = "none" /\ u # t
      BY <1>17 DEF RegisterIncoming, TypeInv
    <2>3. \/ job'[Check(u)] = job[Check(u)]
          \/ u = t /\ job'[Check(u)] = At("start")
      BY <2>1, JobsOf, ToOnly
    <2> QED
      BY <2>2, <2>3, AtHas, CheckKept
  <1>18. CASE UNCHANGED vars
    BY <1>18 DEF vars, CheckInv, CheckAt
  <1> QED
    BY <1>1, <1>2, <1>3, <1>4, <1>5, <1>6, <1>7, <1>8, <1>9, <1>10,
       <1>11, <1>12, <1>13, <1>14, <1>15, <1>16, <1>17, <1>18
       DEF Next, Environment, Running

LEMMA RetryKept ==
  ASSUME RetryInv, NEW i \in Jobs,
         trigger'[i].retry = trigger[i].retry, attempts'[i] = attempts[i],
         job'[i].pc \in {"off", "start"} => job[i].pc \in {"off", "start"}
  PROVE  RetryAt(i)'
  BY DEF RetryInv, RetryAt, Limit

\* The attempt that was waited for begins.
LEMMA RetrySpent ==
  ASSUME TypeInv, RetryInv, NEW i \in Jobs,
         trigger'[i].retry = trigger[i].retry, attempts'[i] = attempts[i] + 1,
         job[i].pc = "start", job'[i].pc \notin {"off", "start"}
  PROVE  RetryAt(i)'
  <1>1. attempts[i] \in Nat /\ trigger[i].retry \in Nat
    BY DEF TypeInv
  <1> QED
    BY <1>1 DEF RetryInv, RetryAt, Limit

\* A step that moves one job, to where it neither waits to begin nor is off.
LEMMA RetryMoved ==
  ASSUME TypeInv, RetryInv, NEW j \in Jobs, NEW r, To(j, r), r.pc \notin {"off", "start"},
         trigger' = trigger, attempts' = attempts
  PROVE  RetryInv'
  <1> SUFFICES ASSUME NEW i \in Jobs PROVE RetryAt(i)'
    BY DEF RetryInv
  <1>1. job'[i].pc \in {"off", "start"} => job[i].pc \in {"off", "start"}
    BY ToOnly
  <1> QED
    BY <1>1, RetryKept

LEMMA RetryEstablished ==
  ASSUME TypeInv, RetryInv, NEW t \in Transfers, Established(t),
         trigger' = trigger, attempts' = attempts
  PROVE  RetryInv'
  <1> DEFINE r == [At("run") EXCEPT !.ver = job[Ws(t)].ver]
  <1>1. r.pc = "run"
    BY DEF At
  <1>2. To(Ws(t), At("end")) \/ To(Ws(t), r)
    BY DEF Established, Ws
  <1> HIDE DEF r
  <1> QED
    BY <1>1, <1>2, JobsOf, AtHas, RetryMoved

LEMMA RetryUnexpected ==
  ASSUME TypeInv, RetryInv, NEW t \in Transfers, NEW s, Unexpected(t, s),
         trigger' = trigger, attempts' = attempts
  PROVE  RetryInv'
  <1>1. \/ \E p \in {"denied", "nover", "backoff"} : To(Ws(t), At(p))
        \/ \E v : To(Ws(t), [At("req") EXCEPT !.ver = v])
    BY DEF Unexpected, GiveUp, Request, Ws
  <1>2. \E r : To(Ws(t), r) /\ r.pc \notin {"off", "start"}
    BY <1>1, AtHas, AskHas
  <1> QED
    BY <1>2, JobsOf, RetryMoved

LEMMA RetryAnswer401 ==
  ASSUME TypeInv, RetryInv, NEW j \in Jobs, NEW k, Answer401(j, k),
         trigger' = trigger, attempts' = attempts
  PROVE  RetryInv'
  <1>1. CASE To(j, [job[j] EXCEPT !.pc = "auth", !.sock = k, !.good = Tag, !.status = 0])
    <2>1. [job[j] EXCEPT !.pc = "auth", !.sock = k, !.good = Tag, !.status = 0].pc = "auth"
      BY DEF TypeInv, JobRecord
    <2> QED
      BY <1>1, <2>1, RetryMoved
  <1>2. CASE To(j, At("backoff"))
    BY <1>2, AtHas, RetryMoved
  <1> QED
    BY <1>1, <1>2 DEF Answer401

LEMMA RetryStep == TypeInv /\ CheckInv /\ RetryInv /\ [Next]_vars => RetryInv'
  <1> SUFFICES ASSUME TypeInv, CheckInv, RetryInv, [Next]_vars PROVE RetryInv'
    OBVIOUS
  <1> USE DEF views, hist, bounds
  <1>1. ASSUME NEW j \in Jobs, HandlePlain(j) PROVE RetryInv'
    <2>1. \/ \E s : To(j, [job[j] EXCEPT !.pc = "resp", !.status = s])
          \/ \E g, n : To(j, [job[j] EXCEPT !.pc = "resp", !.status = 401, !.good = g, !.nonce = n])
      BY <1>1, ZenonT(60) DEF HandlePlain
    <2>2. job[j] \in JobRecord
      BY DEF TypeInv
    <2>3. /\ \A s : [job[j] EXCEPT !.pc = "resp", !.status = s].pc = "resp"
          /\ \A g, n : [job[j] EXCEPT !.pc = "resp", !.status = 401, !.good = g,
                                       !.nonce = n].pc = "resp"
      BY <2>2 DEF JobRecord
    <2>4. \E r : To(j, r) /\ r.pc = "resp"
      BY <2>1, <2>3, ZenonT(60)
    <2> QED
      BY <1>1, <2>4, RetryMoved DEF HandlePlain
  <1>2. ASSUME NEW j \in Jobs, HandleAuth(j) PROVE RetryInv'
    <2>1. \E s : To(j, [job[j] EXCEPT !.pc = "resp2", !.status = s])
      BY <1>2 DEF HandleAuth
    <2>2. \A s : [job[j] EXCEPT !.pc = "resp2", !.status = s].pc = "resp2"
      BY DEF TypeInv, JobRecord
    <2> QED
      BY <1>2, <2>1, <2>2, RetryMoved DEF HandleAuth
  <1>3. ASSUME NEW j \in Jobs, TooManyRequests(j) PROVE RetryInv'
    <2>1. \E p \in {"resp", "resp2"} : To(j, [job[j] EXCEPT !.pc = p, !.status = 429])
      BY <1>3 DEF TooManyRequests
    <2>2. \A p : [job[j] EXCEPT !.pc = p, !.status = 429].pc = p
      BY DEF TypeInv, JobRecord
    <2> QED
      BY <1>3, <2>1, <2>2, RetryMoved, ZenonT(60) DEF TooManyRequests
  <1>4. ASSUME NEW j \in Jobs, Lost(j) PROVE RetryInv'
    <2> SUFFICES ASSUME NEW i \in Jobs PROVE RetryAt(i)'
      BY DEF RetryInv
    <2>1. To(j, At("backoff")) /\ trigger' = trigger
      BY <1>4 DEF Lost
    <2>2. attempts' = [attempts EXCEPT ![j] = IF job[j].pc = "start" THEN @ + 1 ELSE @]
      BY <1>4 DEF Lost
    <2>3. CASE i # j
      <3>1. job'[i] = job[i] /\ attempts'[i] = attempts[i]
        BY <2>1, <2>2, <2>3, ToOnly DEF TypeInv
      <3> QED
        BY <2>1, <3>1, RetryKept
    <2>4. CASE i = j
      <3>1. job'[i].pc = "backoff"
        BY <2>1, <2>4, ToOnly, AtHas
      <3>2. CASE job[j].pc = "start"
        <4>1. attempts'[i] = attempts[i] + 1
          BY <2>2, <2>4, <3>2 DEF TypeInv
        <4> QED
          BY <2>1, <2>4, <3>1, <3>2, <4>1, RetrySpent
      <3>3. CASE job[j].pc # "start"
        <4>1. attempts'[i] = attempts[i]
          BY <2>2, <2>4, <3>3 DEF TypeInv
        <4> QED
          BY <2>1, <3>1, <4>1, RetryKept
      <3> QED
        BY <3>2, <3>3
    <2> QED
      BY <2>3, <2>4
  <1>5. ASSUME NEW j \in Jobs, Backoff(j) PROVE RetryInv'
    <2> SUFFICES ASSUME NEW i \in Jobs PROVE RetryAt(i)'
      BY DEF RetryInv
    <2>1. To(j, At("start")) /\ job[j].pc = "backoff"
      BY <1>5 DEF Backoff
    <2>2. CASE i # j
      <3>1. job'[i] = job[i]
        BY <2>1, <2>2, ToOnly
      <3>2. trigger'[i] = trigger[i] /\ attempts'[i] = attempts[i]
        BY <1>5, <2>2 DEF Backoff, TypeInv
      <3> QED
        BY <3>1, <3>2, RetryKept
    <2>3. CASE i = j
      <3>1. /\ attempts[j] \in Nat /\ trigger[j].retry \in Nat
            /\ attempts[j] <= trigger[j].retry + 1 /\ trigger[j].retry < Limit
        BY DEF TypeInv, RetryInv, RetryAt
      <3>2. Limit \in Nat /\ Limit >= 1 /\ Limit >= Retries
        BY LimitIs, ConnectAssumption
      <3>3. CASE trigger'[j].retry = 0 /\ attempts'[j] = 0
        BY <2>3, <3>2, <3>3 DEF RetryAt, Limit
      <3>4. CASE /\ Sleeps(j) /\ trigger'[j].retry = trigger[j].retry + 1
                 /\ attempts'[j] = attempts[j]
        BY <2>3, <3>1, <3>2, <3>4, ConnectAssumption DEF RetryAt, Limit, Sleeps
      <3>5. CASE /\ trigger' = [trigger EXCEPT ![j] = [retry |-> 0, changed |-> FALSE]]
                 /\ attempts' = [attempts EXCEPT ![j] = 0]
        BY <3>3, <3>5 DEF TypeInv
      <3>6. CASE Sleeps(j) /\ trigger' = [trigger EXCEPT ![j].retry = @ + 1] /\ UNCHANGED attempts
        BY <3>4, <3>6 DEF TypeInv
      <3> QED
        BY <1>5, <3>5, <3>6 DEF Backoff
    <2> QED
      BY <2>2, <2>3
  <1>6. ASSUME NEW t \in Transfers, Dial(t) PROVE RetryInv'
    <2> SUFFICES ASSUME NEW i \in Jobs PROVE RetryAt(i)'
      BY DEF RetryInv
    <2>1. /\ job[Ws(t)].pc = "start" /\ trigger' = trigger
          /\ To(Ws(t), [At("req") EXCEPT !.ver = 6])
          /\ attempts' = [attempts EXCEPT ![Ws(t)] = @ + 1]
      BY <1>6 DEF Dial, Request, Ws
    <2>2. CASE i = Ws(t)
      <3>1. job'[i] = [At("req") EXCEPT !.ver = 6] /\ attempts'[i] = attempts[i] + 1
        BY <2>1, <2>2, ToOnly DEF TypeInv
      <3> QED
        BY <2>1, <2>2, <3>1, AskHas, RetrySpent
    <2>3. CASE i # Ws(t)
      <3>1. job'[i] = job[i] /\ attempts'[i] = attempts[i]
        BY <2>1, <2>3, JobsOf, ToOnly DEF TypeInv
      <3> QED
        BY <2>1, <3>1, RetryKept
    <2> QED
      BY <2>2, <2>3
  <1>7. ASSUME NEW t \in Transfers, Response(t) PROVE RetryInv'
    <2>1. trigger' = trigger /\ attempts' = attempts
      BY <1>7 DEF Response
    <2>2. CASE Established(t)
      BY <2>1, <2>2, RetryEstablished
    <2>3. CASE To(Ws(t), At("backoff"))
      BY <2>1, <2>3, JobsOf, AtHas, RetryMoved
    <2>4. CASE Answer401(Ws(t), 0)
      BY <2>1, <2>4, JobsOf, RetryAnswer401
    <2>5. CASE Unexpected(t, job[Ws(t)].status)
      BY <2>1, <2>5, RetryUnexpected
    <2> QED
      BY <1>7, <2>2, <2>3, <2>4, <2>5 DEF Response, Ws
  <1>8. ASSUME NEW t \in Transfers, Response2(t) PROVE RetryInv'
    BY <1>8, RetryEstablished, RetryUnexpected DEF Response2
  <1>9. ASSUME NEW t \in Transfers, Broken(t) PROVE RetryInv'
    BY <1>9, JobsOf, AtHas, RetryMoved DEF Broken, Ws
  <1>10. ASSUME NEW t \in Transfers, Closed(t) PROVE RetryInv'
    BY <1>10, JobsOf, AtHas, RetryMoved DEF Closed, Ws
  <1>11. ASSUME NEW t \in Transfers, CheckRun(t) PROVE RetryInv'
    <2> SUFFICES ASSUME NEW i \in Jobs PROVE RetryAt(i)'
      BY DEF RetryInv
    <2>1. CASE /\ To(Check(t), [At("req") EXCEPT !.ver = 6])
               /\ attempts' = [attempts EXCEPT ![Check(t)] = @ + 1]
      <3>1. job[Check(t)].pc = "start" /\ trigger' = trigger
        BY <1>11 DEF CheckRun, Check
      <3>2. CASE i = Check(t)
        <4>1. job'[i] = [At("req") EXCEPT !.ver = 6] /\ attempts'[i] = attempts[i] + 1
          BY <2>1, <3>2, ToOnly DEF TypeInv
        <4> QED
          BY <3>1, <3>2, <4>1, AskHas, RetrySpent
      <3>3. CASE i # Check(t)
        <4>1. job'[i] = job[i] /\ attempts'[i] = attempts[i]
          BY <2>1, <3>3, JobsOf, ToOnly DEF TypeInv
        <4> QED
          BY <3>1, <4>1, RetryKept
      <3> QED
        BY <3>2, <3>3
    <2>2. CASE To(Check(t), At("end")) /\ UNCHANGED attempts
      <3>1. trigger' = trigger
        BY <1>11 DEF CheckRun
      <3>2. RetryInv'
        BY <2>2, <3>1, JobsOf, AtHas, RetryMoved
      <3> QED
        BY <3>2 DEF RetryInv
    <2> QED
      BY <1>11, <2>1, <2>2 DEF CheckRun, Request, Check
  <1>12. ASSUME NEW t \in Transfers, CheckResponse(t) PROVE RetryInv'
    <2>1. trigger' = trigger /\ attempts' = attempts
      BY <1>12 DEF CheckResponse
    <2>2. CASE \E k : Answer401(Check(t), k)
      BY <2>1, <2>2, JobsOf, RetryAnswer401
    <2>3. CASE Conclude(t, job[Check(t)].status)
      <3>1. \/ \E p \in {"end", "backoff"} : To(Check(t), At(p))
            \/ \E v : To(Check(t), [At("req") EXCEPT !.ver = v])
        BY <2>3 DEF Conclude, Request, Check
      <3>2. \E r : To(Check(t), r) /\ r.pc \notin {"off", "start"}
        BY <3>1, AtHas, AskHas
      <3> QED
        BY <2>1, <3>2, JobsOf, RetryMoved
    <2> QED
      BY <1>12, <2>2, <2>3 DEF CheckResponse, Check
  <1>13. ASSUME NEW t \in Transfers, Cancel(t) PROVE RetryInv'
    <2> SUFFICES ASSUME NEW i \in Jobs PROVE RetryAt(i)'
      BY DEF RetryInv
    <2> QED
      BY <1>13, RetryKept DEF Cancel
  <1>14. ASSUME NEW h \in Hosts, NetworkRefresh(h) PROVE RetryInv'
    <2> SUFFICES ASSUME NEW i \in Jobs PROVE RetryAt(i)'
      BY DEF RetryInv
    <2>1. trigger'[i].retry = trigger[i].retry
      BY <1>14 DEF NetworkRefresh, TypeInv
    <2> QED
      BY <1>14, <2>1, RetryKept DEF NetworkRefresh
  <1>15. ASSUME NEW h \in Hosts, Restart(h) PROVE RetryInv'
    <2> SUFFICES ASSUME NEW i \in Jobs PROVE RetryAt(i)'
      BY DEF RetryInv
    <2>1. CASE Host(i) = h
      <3>1. trigger'[i].retry = 0 /\ attempts'[i] = 0
        BY <1>15, <2>1 DEF Restart
      <3> QED
        BY <3>1, LimitIs, ConnectAssumption DEF RetryAt, Limit
    <2>2. CASE Host(i) # h
      <3>1. trigger'[i] = trigger[i] /\ attempts'[i] = attempts[i]
        BY <1>15, <2>2 DEF Restart
      <3>2. job'[i] = At("backoff") \/ job'[i] = job[i]
        BY <1>15, <2>2 DEF Restart
      <3> QED
        BY <3>1, <3>2, AtHas, RetryKept
    <2> QED
      BY <2>1, <2>2
  <1>16. ASSUME KeyChange PROVE RetryInv'
    <2> SUFFICES ASSUME NEW i \in Jobs PROVE RetryAt(i)'
      BY DEF RetryInv
    <2> QED
      BY <1>16, RetryKept DEF KeyChange
  <1>17. ASSUME NEW t \in Transfers, RegisterIncoming(t) PROVE RetryInv'
    <2> SUFFICES ASSUME NEW i \in Jobs PROVE RetryAt(i)'
      BY DEF RetryInv
    <2>1. To(Check(t), At("start")) \/ job' = job
      BY <1>17 DEF RegisterIncoming, Check
    <2>2. job[Check(t)].pc = "off"
      BY <1>17 DEF RegisterIncoming, CheckInv, CheckAt
    <2>3. job'[i].pc \in {"off", "start"} => job[i].pc \in {"off", "start"}
      BY <2>1, <2>2, JobsOf, ToOnly
    <2> QED
      BY <1>17, <2>3, RetryKept DEF RegisterIncoming
  <1>18. CASE UNCHANGED vars
    BY <1>18 DEF vars, RetryInv, RetryAt, Limit
  <1> QED
    BY <1>1, <1>2, <1>3, <1>4, <1>5, <1>6, <1>7, <1>8, <1>9, <1>10,
       <1>11, <1>12, <1>13, <1>14, <1>15, <1>16, <1>17, <1>18
       DEF Next, Environment, Running

-----------------------------------------------------------------------------
(* The theorems.                                                           *)

Inv == TypeInv /\ SearchInv /\ KeyInv /\ CheckInv /\ RetryInv

LEMMA InvInit == Init => Inv
  <1> SUFFICES ASSUME Init PROVE Inv
    OBVIOUS
  <1>1. TypeInv
    BY TypeInit
  <1>2. \A t \in Transfers : /\ job[Ws(t)] = At("start") /\ job[Check(t)] = At("off")
                             /\ incoming[t] = "none"
    BY JobsOf DEF Init
  <1>3. SearchInv /\ KeyInv
    BY <1>2 DEF SearchInv, KeyInv, SearchAt, KeyAt, At, Asking
  <1>4. CheckInv
    BY <1>2 DEF CheckInv, CheckAt, At
  <1>5. RetryInv
    <2>1. Limit \in Nat /\ Limit >= 1
      BY LimitIs, ConnectAssumption
    <2>2. \A j \in Jobs : trigger[j].retry = 0 /\ attempts[j] = 0
      BY DEF Init
    <2> QED
      BY <2>1, <2>2 DEF RetryInv, RetryAt
  <1> QED
    BY <1>1, <1>3, <1>4, <1>5 DEF Inv

\* The invariant is inductive, however many transfers, versions, retries, faults,
\* refreshes and restarts there are.
THEOREM Inductive == Spec => []Inv
  <1>1. Inv /\ [Next]_vars => Inv'
    <2> SUFFICES ASSUME Inv, [Next]_vars PROVE Inv'
      OBVIOUS
    <2> USE DEF Inv
    <2>1. TypeInv'
      BY TypeStep
    <2>2. (SearchInv /\ KeyInv)'
      BY SearchStep
    <2>3. CheckInv'
      BY CheckStep
    <2>4. RetryInv'
      BY RetryStep
    <2> QED
      BY <2>1, <2>2, <2>3, <2>4
  <1> QED
    BY <1>1, InvInit, PTL DEF Spec

\* Every variable of Connect has its type, and the trigger stays within the limit.
THEOREM TypeCorrect == Spec => []TypeOK
  <1>1. Inv => TypeOK
    <2> SUFFICES ASSUME Inv PROVE TypeOK
      OBVIOUS
    <2>1. \A h \in Hosts : DOMAIN nonces[h] \subseteq Addrs
      BY DEF Inv, TypeInv, NonceStore
    <2>2. \A j \in Jobs : /\ job[j].pc \in Pc /\ job[j].ver \in {0} \cup Version
                          /\ job[j].status \in Status
      BY DEF Inv, TypeInv, JobRecord
    <2>3. \A j \in Jobs : trigger[j].retry < Limit
      BY DEF Inv, RetryInv, RetryAt
    <2>4. \A j \in Jobs : /\ job[j].pc \in Pc /\ job[j].ver \in {0} \cup Version
                          /\ job[j].status \in Status /\ trigger[j].retry < Limit
      BY <2>2, <2>3
    <2>5. /\ known \in [Hosts -> SUBSET Version] /\ faults \in 0 .. MaxFaults
          /\ outgoing \in [Transfers -> {"new", "active", "canceled", "gone"}]
          /\ incoming \in [Transfers -> {"none", "alive", "canceled", "removed"}]
      BY DEF Inv, TypeInv
    <2>6. keys \in BOOLEAN
      BY DEF Inv, TypeInv
    <2>7. \A j \in Jobs : /\ job[j].pc \in {"off", "start", "req", "resp", "auth", "resp2", "run",
                                             "backoff", "denied", "nover", "end"}
                          /\ job[j].ver \in {0} \cup Version
                          /\ job[j].status \in {0, 101, 200, 401, 404, 410, 429}
                          /\ trigger[j].retry < Max({1, Retries})
      BY <2>4 DEF Pc, Status, Limit
    <2> QED
      BY <2>1, <2>5, <2>6, <2>7, Zenon DEF TypeOK
  <1> QED
    BY <1>1, Inductive, PTL

\* establish_ws_conn: a transfer is failed as unauthorized only if the keys did not
\* agree while it was tried, and as not understood only if the receiver knows no
\* version; nonces, 429s, lost answers and restarts never kill it.
THEOREM FailuresHaveAReason == Spec => []FailedForAReason
  <1>1. Inv => FailedForAReason
    <2> SUFFICES ASSUME Inv, NEW t \in Transfers
                 PROVE  /\ job[Ws(t)].pc = "denied" => apart[Ws(t)]
                        /\ job[Ws(t)].pc = "nover" => known["receiver"] = {}
      BY DEF FailedForAReason, Ws
    <2>1. SearchAt(t) /\ KeyAt(t)
      BY DEF Inv, SearchInv, KeyInv
    <2>2. job[Ws(t)].pc = "denied" => apart[Ws(t)]
      BY <2>1 DEF KeyAt
    <2>3. job[Ws(t)].pc = "nover" => known["receiver"] = {}
      BY <2>1 DEF SearchAt, Theirs
    <2> QED
      BY <2>2, <2>3
  <1> QED
    BY <1>1, Inductive, PTL

\* establish_ws_conn: the version of a connection is the best both peers know.
THEOREM VersionIsBest == Spec => []BestVersion
  <1>1. Inv => BestVersion
    <2> SUFFICES ASSUME Inv, NEW t \in Transfers, job[Ws(t)].pc = "run"
                 PROVE  job[Ws(t)].ver = Max(Theirs)
      BY DEF BestVersion, Theirs, Ws
    <2>1. job[Ws(t)].ver \in Theirs /\ \A v \in Theirs : v <= job[Ws(t)].ver
      BY DEF Inv, SearchInv, SearchAt
    <2>2. Theirs \in SUBSET Version
      BY DEF Inv, TypeInv, Theirs, Hosts
    <2>3. Max(Theirs) \in Theirs /\ job[Ws(t)].ver <= Max(Theirs)
      BY <2>1, <2>2, MaxVersion
    <2>4. \A v, w \in Version : v <= w /\ w <= v => v = w
      BY DEF Version
    <2> QED
      BY <2>1, <2>2, <2>3, <2>4
  <1> QED
    BY <1>1, Inductive, PTL

\* RetryTrigger: at most connection_retries attempts per refresh, and at least one.
THEOREM RetriesAreLimited == Spec => []RetriesLimited
  <1>1. Inv => RetriesLimited
    <2> SUFFICES ASSUME Inv, NEW j \in Jobs PROVE attempts[j] <= Limit
      BY DEF RetriesLimited, Limit
    <2>1. /\ attempts[j] \in Nat /\ trigger[j].retry \in Nat
          /\ attempts[j] <= trigger[j].retry + 1 /\ trigger[j].retry < Limit
      BY DEF Inv, TypeInv, RetryInv, RetryAt
    <2>2. Limit \in Nat
      BY LimitIs, ConnectAssumption
    <2> QED
      BY <2>1, <2>2
  <1> QED
    BY <1>1, Inductive, PTL

\* The checking job and the closing of a connection: the receiver drops a transfer
\* it has not canceled only if the sender canceled it or has none any more.
THEOREM DropsOnlyTheGone == Spec => DroppedIsGone
  <1> DEFINE Dropped(t) == incoming[t] = "alive" /\ incoming'[t] = "removed"
             A == \A t \in Transfers : Dropped(t) => outgoing[t] \in {"canceled", "gone"}
  <1>1. Inv /\ [Next]_vars => A
    <2> SUFFICES ASSUME Inv, [Next]_vars, NEW t \in Transfers, Dropped(t)
                 PROVE  outgoing[t] \in {"canceled", "gone"}
      OBVIOUS
    <2> USE DEF Inv, TypeInv
    <2>1. ASSUME NEW s \in Transfers, Closed(s) PROVE outgoing[t] \in {"canceled", "gone"}
      BY <2>1 DEF Closed
    <2>2. ASSUME NEW s \in Transfers, CheckRun(s) PROVE FALSE
      BY <2>2 DEF CheckRun
    <2>3. ASSUME NEW s \in Transfers, CheckResponse(s) PROVE outgoing[t] \in {"canceled", "gone"}
      <3>1. s = t /\ job[Check(t)].status = 410
        BY <2>3 DEF CheckResponse, Conclude, GoneAnswer, Check
      <3> QED
        BY <3>1 DEF CheckInv, CheckAt
    <2>4. ASSUME NEW s \in Transfers, Response(s) \/ Response2(s) PROVE FALSE
      BY <2>4 DEF Response, Response2, Established, Unexpected, GiveUp, views
    <2>5. ASSUME NEW s \in Transfers, Cancel(s) \/ RegisterIncoming(s) PROVE FALSE
      BY <2>5 DEF Cancel, RegisterIncoming
    <2>6. ASSUME incoming' = incoming PROVE FALSE
      BY <2>6
    <2>7. ASSUME NEW s \in Transfers, Dial(s) \/ Broken(s) PROVE FALSE
      BY <2>6, <2>7 DEF Dial, Broken, views
    <2>8. ASSUME NEW j \in Jobs, \/ HandlePlain(j) \/ HandleAuth(j) \/ Backoff(j) \/ Lost(j)
                                 \/ TooManyRequests(j)
          PROVE  FALSE
      BY <2>6, <2>8 DEF HandlePlain, HandleAuth, Backoff, Lost, TooManyRequests, views
    <2>9. ASSUME NEW h \in Hosts, NetworkRefresh(h) \/ Restart(h) PROVE FALSE
      BY <2>6, <2>9 DEF NetworkRefresh, Restart, views
    <2>10. CASE KeyChange \/ UNCHANGED vars
      BY <2>6, <2>10 DEF KeyChange, vars, views
    <2> QED
      BY <2>1, <2>2, <2>3, <2>4, <2>5, <2>7, <2>8, <2>9, <2>10
         DEF Next, Environment, Running
  <1>2. Inv /\ [Next]_vars => [A]_vars
    BY <1>1
  <1> QED
    BY <1>2, Inductive, PTL DEF Spec, DroppedIsGone
=============================================================================
