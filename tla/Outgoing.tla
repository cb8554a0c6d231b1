------------------------------ MODULE Outgoing ------------------------------
(***************************************************************************)
(* The sending side of one libdrop transfer: the transfer manager, the     *)
(* client task that dials the receiver and serves one connection after the *)
(* other, its upload and checksum jobs, the throttle, the API calls of the *)
(* application, the event task and the database.                           *)
(*                                                                         *)
(* The receiver is an arbitrary environment: it may send any message at    *)
(* any time.  The process may be killed at any time and started again.     *)
(*                                                                         *)
(* Grain of atomicity: as in Incoming.  Here the jobs are tasks of the     *)
(* JoinSet to their last line, so that an abort may cut them anywhere they *)
(* wait, also between posting a failure and reporting it.                  *)
(***************************************************************************)
EXTENDS Storage, Events, Integers, FiniteSets, Functions

CONSTANTS NoFile,      \* the file of an event that is about the transfer
          PeerMsgs,    \* kinds of messages the receiver uses
          ApiCalls,    \* calls the application makes
          Reported,    \* kinds of events the instance follows to the application
          Permits,     \* MAX_UPLOADS_IN_FLIGHT
          MaxCrashes,  \* bound: times the process is killed
          MaxDials,    \* bound: attempts to connect
          MaxMsgs      \* bound: messages received from the receiver

ASSUME FilesAssumption == NoFile \notin Files /\ IsFiniteSet(Files)
ASSUME PeerMsgsAssumption ==
  PeerMsgs \subseteq {"Close", "Done", "Error", "Reject", "Start", "ReqChsum", "Cancel"}
ASSUME ApiCallsAssumption == ApiCalls \subseteq {"reject", "cancel", "purge"}
ASSUME ReportedAssumption ==
  /\ Verdicts \cup {"Canceled", "CanceledByPeer", "TransferFailed"} \subseteq Reported
  /\ Reported \subseteq Verdicts \cup {"Queued", "Deferred", "Throttled", "Started", "Paused",
                                     "Canceled", "CanceledByPeer", "TransferFailed"}
ASSUME BoundsAssumption ==
  /\ Permits \in Nat \ {0}
  /\ MaxCrashes \in Nat /\ MaxDials \in Nat /\ MaxMsgs \in Nat

VARIABLES
  db,       \* the rows of the transfer in SQLite
  up,       \* the process is running
  xfer,     \* OutgoingState.xfer_sync, "Absent" when not in the map
  file,     \* OutgoingState.file_sync
  conn,     \* OutgoingState.conn is Some
  cli,      \* where the client task is
  pc,       \* the handler it is in the middle of
  reqs,     \* its queue of ClientReq
  held,     \* HandlerLoop.tasks: the files it keeps a FileTask for
  job,      \* the upload and checksum jobs
  aborted,  \* upload jobs whose AbortHandle was used
  waitq,    \* files waiting at the throttle semaphore, in order
  pausing,  \* files that a dropped HandlerLoop is about to pause
  fev,      \* state of each FileEventTx
  xev,      \* state of the TransferEventTx
  evq,      \* events on their way to the event task
  api,      \* what is left to do of the API call under way
  told,     \* history: verdicts reported to the application, per file
  ends,     \* history: ends of the transfer reported to the application
  offered,  \* history: the request may have reached the receiver
  parted,   \* history: a close frame went either way, or the receiver refused
  known,    \* history: files whose verdict was exchanged on this connection
  crashes, dials, msgs

mgr    == <<db, xfer, file, conn>>
client == <<cli, pc, reqs, held>>
jobs   == <<job, aborted, waitq>>
events == <<fev, xev, evq, pausing>>
ghost  == <<told, ends, offered, parted, known>>
bounds == <<crashes, dials, msgs>>
vars   == <<mgr, client, jobs, events, ghost, bounds, up, api>>

-----------------------------------------------------------------------------
\* none: not spawned; dial: connecting or backing off; failing: removed the
\* transfer after a refusal; up: connected; hello: registered with the manager;
\* run: in the select loop; drain: left it on a close; shut, cut: shutting
\* down the jobs after a close, after an error; fin, lost: run() returned; over.
CliState == {"none", "dial", "failing", "up", "hello", "run", "drain",
             "shut", "cut", "fin", "lost", "over"}

Select == [op |-> "select", f |-> NoFile]

\* An op in Verdicts is the handler that is about to report it.
HandlerPc == {Select}
             \cup [op : {"closing", "closed", "cancel"}, f : {NoFile}]
             \cup [op : {"start", "begin", "stop"} \cup Verdicts, f : Files]

Kinds == {"upload", "checksum"}

\* fresh: spawned without a permit; queued: waiting for one; work: reading the
\* file; posted: its failure is posted to the manager.
JobState == {"none", "fresh", "queued", "work", "posted"}

Req(k, f) == [k |-> k, f |-> f]
Ev(k, f)  == [k |-> k, f |-> f]
Close     == Req("Close", NoFile)

ClientReqs == [k : {"Reject", "Fail"}, f : Files] \cup {Close}

EventSet == [k : {"Throttled", "Started", "Paused"} \cup Verdicts, f : Files]
            \cup [k : {"Queued", "Deferred", "Canceled", "CanceledByPeer", "TransferFailed"},
                  f : {NoFile}]

ApiCall == [op : {"idle", "cancel"}, f : {NoFile}] \cup [op : {"reject"}, f : Files]
ApiIdle == [op |-> "idle", f |-> NoFile]

TypeOK ==
  /\ db \in Rows
  /\ up \in BOOLEAN
  /\ xfer \in SyncState \cup {"Absent"}
  /\ file \in [Files -> {"Alive"} \cup Verdicts]
  /\ conn \in BOOLEAN
  /\ cli \in CliState
  /\ pc \in HandlerPc
  /\ reqs \in Seq(ClientReqs)
  /\ held \in SUBSET Files
  /\ job \in [Kinds -> [Files -> JobState]]
  /\ aborted \in SUBSET Files
  /\ waitq \in Seq(Files)
  /\ pausing \in SUBSET Files
  /\ fev \in [Files -> FileState]
  /\ xev \in TransferState
  /\ evq \in Seq(EventSet)
  /\ api \in ApiCall
  /\ told \in [Files -> Seq(Verdicts)]
  /\ ends \in Nat
  /\ offered \in BOOLEAN
  /\ parted \in BOOLEAN
  /\ known \in SUBSET Files
  /\ crashes \in Nat /\ dials \in Nat /\ msgs \in Nat

NoJobs == [k \in Kinds |-> [f \in Files |-> "none"]]

Init ==
  /\ db = NoRows
  /\ up = TRUE
  /\ xfer = "Absent"
  /\ file = [f \in Files |-> "Alive"]
  /\ conn = FALSE
  /\ cli = "none"
  /\ pc = Select
  /\ reqs = <<>>
  /\ held = {}
  /\ job = NoJobs
  /\ aborted = {}
  /\ waitq = <<>>
  /\ pausing = {}
  /\ fev = [f \in Files |-> "Idle"]
  /\ xev = "Ongoing"
  /\ evq = <<>>
  /\ api = ApiIdle
  /\ told = [f \in Files |-> <<>>]
  /\ ends = 0
  /\ offered = FALSE
  /\ parted = FALSE
  /\ known = {}
  /\ crashes = 0 /\ dials = 0 /\ msgs = 0

-----------------------------------------------------------------------------
(* The manager's operations.                                               *)

\* ensure_not_cancelled on a transfer that is in the map
Usable == xfer \notin {"Absent", "Canceled"}

\* UnboundedSender::send.  What is sent to a loop that will not read it any
\* more is as good as lost, and so is what is sent to a receiver that is gone.
Push(r) == IF conn /\ cli \in {"hello", "run"} THEN Append(reqs, r) ELSE reqs

Report(passes, k, f) == evq' = Emit(evq, passes /\ k \in Reported, Ev(k, f))

\* The sequences in which a HashMap may list the elements of S.
Orders(S) ==
  {s \in [1 .. Cardinality(S) -> S] : \A i, j \in DOMAIN s : s[i] = s[j] => i = j}

\* Mutant: the sync state of the file is not written.
Terminate_Unsynced(f, v) == file' = [file EXCEPT ![f] = v] /\ UNCHANGED db

\* try_terminate and update_outgoing_file_sync_states
Terminate(f, v) ==
  /\ file' = [file EXCEPT ![f] = v]
  /\ db' = update_file_sync_states(db, f)

\* outgoing_remove of a transfer that is in the map
Remove ==
  /\ xfer' = "Absent"
  /\ file' = [f \in Files |-> "Alive"]
  /\ conn' = FALSE
  /\ db' = transfer_sync_clear(db)

\* Mutant: a failed file is not brought up again.
PendingFiles_RejectedOnly == {f \in Files : file[f] = "Rejected"}

\* OutgoingState::issue_pending_requests
PendingFiles  == {f \in Files : file[f] \in {"Rejected", "Failed"}}
PendingReq(f) == Req(IF file[f] = "Rejected" THEN "Reject" ELSE "Fail", f)

-----------------------------------------------------------------------------
(* The client task connects: connect_to_peer.                              *)

Dials ==
  /\ up
  /\ cli = "dial"
  /\ dials < MaxDials
  /\ dials' = dials + 1

\* WsConnection::Recoverable: no route, a broken or refused handshake, 429.
DialDeferred ==
  /\ Dials
  /\ Report(xfer # "Absent" /\ ongoing_emits(xev), "Deferred", NoFile)
  /\ UNCHANGED <<mgr, client, jobs, fev, xev, pausing, ghost, up, api, crashes, msgs>>

\* WsConnection::Unrecoverable: 401 again, or no version in common.
DialRefused ==
  /\ Dials
  /\ parted' = TRUE
  /\ IF xfer = "Absent" THEN /\ cli' = "over"
                             /\ UNCHANGED mgr
                        ELSE /\ cli' = "failing"
                             /\ Remove
  /\ UNCHANGED <<pc, reqs, held, jobs, events, told, ends, offered, known, up, api, crashes, msgs>>

DialRefusedEmit ==
  /\ up
  /\ cli = "failing"
  /\ Report(finish_emits(xev), "TransferFailed", NoFile)
  /\ xev' = finish(xev)
  /\ cli' = "over"
  /\ UNCHANGED <<mgr, pc, reqs, held, jobs, fev, pausing, ghost, bounds, up, api>>

DialConnected ==
  /\ Dials
  /\ cli' = "up"
  /\ UNCHANGED <<mgr, pc, reqs, held, jobs, events, ghost, up, api, crashes, msgs>>

\* Mutant: the transfer stays New until the receiver answers.
Activated_Late == /\ xfer' = xfer
                  /\ db' = db

\* outgoing_connected makes a new transfer active, first in the database.
Activated ==
  /\ xfer' = IF xfer = "New" THEN "Active" ELSE xfer
  /\ db' = IF xfer = "New" THEN update_transfer_sync_states(db, "Active") ELSE db

\* outgoing_connected: BadTransfer closes the socket, and that is all; a
\* canceled transfer gets a Close and is not registered.
Connected ==
  /\ up
  /\ cli = "up"
  /\ \/ /\ xfer = "Absent"
        /\ cli' = "fin"
        /\ UNCHANGED <<mgr, reqs>>
     \/ /\ xfer = "Canceled"
        /\ cli' = "hello"
        /\ reqs' = <<Close>>
        /\ UNCHANGED mgr
     \/ /\ Usable
        /\ Activated
        /\ cli' = "hello"
        /\ conn' = TRUE
        /\ \E s \in Orders(PendingFiles) : reqs' = [i \in DOMAIN s |-> PendingReq(s[i])]
        /\ UNCHANGED file
  /\ UNCHANGED <<pc, held, jobs, events, ghost, bounds, up, api>>

\* HandlerInit::start sends the TransferRequest.
HelloSent ==
  /\ up
  /\ cli = "hello"
  /\ cli' = "run"
  /\ offered' = TRUE
  /\ known' = {}
  /\ UNCHANGED <<mgr, pc, reqs, held, jobs, events, told, ends, parted, bounds, up, api>>

\* The send fails; it may have reached the receiver all the same.
HelloFailed ==
  /\ up
  /\ cli = "hello"
  /\ cli' = "lost"
  /\ reqs' = <<>>
  /\ offered' \in {offered, TRUE}
  /\ UNCHANGED <<mgr, pc, held, jobs, events, told, ends, parted, known, bounds, up, api>>

-----------------------------------------------------------------------------
(* The select loop: requests of the API first, then messages.              *)

Selecting == up /\ cli = "run" /\ pc = Select

HasReq(k) == Selecting /\ reqs # <<>> /\ Head(reqs).k = k

At(op) == up /\ cli = "run" /\ pc.op = op

Then(op, f) == pc' = [op |-> op, f |-> f]

\* HandlerLoop::stop_task: abort a job that is not finished, open its gate.
Stoppable(f) == f \in held /\ job["upload"][f] # "none"

StopTask(f) ==
  /\ held' = held \ {f}
  /\ aborted' = IF Stoppable(f) THEN aborted \cup {f} ELSE aborted
  /\ fev' = IF Stoppable(f) THEN [fev EXCEPT ![f] = stop(@)] ELSE fev

\* HandlerLoop::on_stop: the gates are opened silently, the jobs go on.
OnStop ==
  /\ fev' = [f \in Files |-> IF f \in held THEN stop(fev[f]) ELSE fev[f]]
  /\ held' = {}

\* issue_reject
OnReqReject ==
  /\ HasReq("Reject")
  /\ LET f == Head(reqs).f IN
     /\ StopTask(f)
     /\ known' = known \cup {f}
  /\ reqs' = Tail(reqs)
  /\ UNCHANGED <<mgr, cli, pc, job, waitq, xev, evq, pausing, told, ends, offered, parted,
                 bounds, up, api>>

\* issue_failure
OnReqFail ==
  /\ HasReq("Fail")
  /\ known' = known \cup {Head(reqs).f}
  /\ reqs' = Tail(reqs)
  /\ UNCHANGED <<mgr, cli, pc, held, jobs, events, told, ends, offered, parted, bounds, up, api>>

\* ClientReq::Close: the close frame, on_close, then outgoing_remove.
OnReqClose ==
  /\ HasReq("Close")
  /\ parted' = TRUE
  /\ OnStop
  /\ Then("closed", NoFile)
  /\ reqs' = Tail(reqs)
  /\ UNCHANGED <<mgr, cli, jobs, xev, evq, pausing, told, ends, offered, known, bounds, up, api>>

\* The loop is left with a Break: handler.on_stop() has nothing left to stop,
\* and the socket is drained.
OnReqCloseRemove ==
  /\ At("closed")
  /\ IF xfer = "Absent" THEN UNCHANGED mgr ELSE Remove
  /\ pc' = Select
  /\ cli' = "drain"
  /\ UNCHANGED <<reqs, held, jobs, events, ghost, bounds, up, api>>

\* A send, a receive or a ping fails, or the receive timeout expires.
LinkBroken ==
  /\ Selecting
  /\ cli' = "cut"
  /\ UNCHANGED <<mgr, pc, reqs, held, jobs, events, ghost, bounds, up, api>>

Receives(m) ==
  /\ m \in PeerMsgs
  /\ Selecting
  /\ reqs = <<>>
  /\ msgs < MaxMsgs
  /\ msgs' = msgs + 1

\* A close frame: on_close, outgoing_remove, and the event.
RecvClose ==
  /\ Receives("Close")
  /\ parted' = TRUE
  /\ OnStop
  /\ Then("closing", NoFile)
  /\ UNCHANGED <<mgr, cli, reqs, jobs, xev, evq, pausing, told, ends, offered, known,
                 crashes, dials, up, api>>

RecvCloseRemove ==
  /\ At("closing")
  /\ \/ /\ xfer = "Absent"
        /\ pc' = Select
        /\ cli' = "drain"
        /\ UNCHANGED mgr
     \/ /\ xfer # "Absent"
        /\ Remove
        /\ Then("cancel", NoFile)
        /\ UNCHANGED cli
  /\ UNCHANGED <<reqs, held, jobs, events, ghost, bounds, up, api>>

RecvCloseCancel ==
  /\ At("cancel")
  /\ Report(finish_emits(xev), "CanceledByPeer", NoFile)
  /\ xev' = finish(xev)
  /\ pc' = Select
  /\ cli' = "drain"
  /\ UNCHANGED <<mgr, reqs, held, jobs, fev, pausing, ghost, bounds, up, api>>

VerdictOf(m) == CASE m = "Done" -> "Completed" [] m = "Error" -> "Failed" [] OTHER -> "Rejected"

\* on_done, on_error, on_reject: outgoing_terminal_recv ends the file if it
\* has not ended, even when the transfer is canceled ...
RecvVerdict(m, f) ==
  /\ Receives(m)
  /\ known' = known \cup {f}
  /\ IF xfer # "Absent" /\ file[f] = "Alive"
     THEN /\ Terminate(f, VerdictOf(m))
          /\ Then(VerdictOf(m), f)
     ELSE /\ Then("stop", f)
          /\ UNCHANGED <<db, file>>
  /\ UNCHANGED <<xfer, conn, cli, reqs, held, jobs, events, told, ends, offered, parted,
                 crashes, dials, up, api>>

\* Mutant: the task is stopped but nothing is reported.
RecvVerdictEmit_Silent ==
  /\ \E v \in Verdicts : At(v)
  /\ Then("stop", pc.f)
  /\ UNCHANGED <<mgr, cli, reqs, held, jobs, events, ghost, bounds, up, api>>

\* ... then reports it ...
RecvVerdictEmit ==
  /\ \E v \in Verdicts : At(v)
  /\ Report(terminate_emits(fev[pc.f]), pc.op, pc.f)
  /\ fev' = [fev EXCEPT ![pc.f] = terminate(@)]
  /\ Then("stop", pc.f)
  /\ UNCHANGED <<mgr, cli, reqs, held, jobs, xev, pausing, ghost, bounds, up, api>>

\* ... and stops the task.
RecvVerdictStop ==
  /\ At("stop")
  /\ StopTask(pc.f)
  /\ pc' = Select
  /\ UNCHANGED <<mgr, cli, reqs, job, waitq, xev, evq, pausing, ghost, bounds, up, api>>

\* on_cancel: the job is aborted and paused; the manager is not told.
RecvCancel(f) ==
  /\ Receives("Cancel")
  /\ f \in held
  /\ Report(Stoppable(f) /\ stop_emits(fev[f]), "Paused", f)
  /\ StopTask(f)
  /\ UNCHANGED <<mgr, cli, pc, reqs, job, waitq, xev, pausing, ghost, crashes, dials, up, api>>

-----------------------------------------------------------------------------
(* on_start and the throttle.                                              *)

\* outgoing_ensure_file_not_terminated; otherwise an Error is sent.
RecvStart(f) ==
  /\ Receives("Start")
  /\ IF xfer # "Absent" /\ file[f] = "Alive" THEN Then("start", f) ELSE UNCHANGED pc
  /\ UNCHANGED <<mgr, cli, reqs, held, jobs, events, ghost, crashes, dials, up, api>>

\* A task that is not finished, or outgoing_file_events fails: an Error is
\* sent.  (An aborted job of the file is taken to be gone by now.)
StartEvents ==
  /\ At("start")
  /\ Stoppable(pc.f) \/ job["upload"][pc.f] = "none"
  /\ IF ~Stoppable(pc.f) /\ Usable THEN Then("begin", pc.f) ELSE pc' = Select
  /\ UNCHANGED <<mgr, cli, reqs, held, jobs, events, ghost, bounds, up, api>>

\* Permits of the semaphore.  One that is released belongs to the first in the
\* queue, whether that one has noticed or not.
Free == Permits - Cardinality({f \in Files : job["upload"][f] = "work"})

\* Mutant: off by one.
Granted_OffByOne(f) == \E i \in 1 .. Len(waitq) : waitq[i] = f /\ i < Free

Granted(f) == \E i \in 1 .. Len(waitq) : waitq[i] = f /\ i <= Free

\* throttle::init, then the job is spawned.
StartUpload ==
  /\ At("begin")
  /\ LET f == pc.f
         permit == Free > Len(waitq)
     IN /\ IF permit
           THEN /\ Report(start_emits(fev[f]), "Started", f)
                /\ fev' = [fev EXCEPT ![f] = start(@)]
           ELSE /\ Report(throttled_emits(fev[f]), "Throttled", f)
                /\ fev' = [fev EXCEPT ![f] = throttled(@)]
        /\ job' = [job EXCEPT !["upload"][f] = IF permit THEN "work" ELSE "fresh"]
        /\ held' = held \cup {f}
  /\ pc' = Select
  /\ UNCHANGED <<mgr, cli, reqs, aborted, waitq, xev, pausing, ghost, bounds, up, api>>

\* on_checksum spawns a job that nothing but the end of the connection stops.
\* (Bound: one at a time for a file.)
RecvReqChsum(f) ==
  /\ Receives("ReqChsum")
  /\ job["checksum"][f] = "none"
  /\ job' = [job EXCEPT !["checksum"][f] = "work"]
  /\ UNCHANGED <<mgr, client, aborted, waitq, events, ghost, crashes, dials, up, api>>

-----------------------------------------------------------------------------
(* The jobs.  An aborted job may go on until it next has to wait.          *)

JobAt(k, f, s) == up /\ job[k][f] = s

\* The queue without f, wherever it stands: a waiter that is dropped leaves.
Without(q, f) ==
  IF f \in Range(q)
  THEN LET p == CHOOSE i \in DOMAIN q : q[i] = f
       IN SubSeq(q, 1, p - 1) \o SubSeq(q, p + 1, Len(q))
  ELSE q

JobTo(k, f, s) ==
  /\ job' = [job EXCEPT ![k][f] = s]
  /\ aborted' = IF s = "none" /\ k = "upload" THEN aborted \ {f} ELSE aborted
  /\ waitq' = CASE s = "queued"     -> Append(waitq, f)
                [] k = "checksum"   -> waitq
                [] OTHER            -> Without(waitq, f)

\* stop_task, or jobs.shutdown()
IsAborted(k, f) == (k = "upload" /\ f \in aborted) \/ cli \in {"shut", "cut"}

JobAborted(k, f) ==
  /\ up
  /\ job[k][f] # "none"
  /\ IsAborted(k, f)
  /\ JobTo(k, f, "none")
  /\ UNCHANGED <<mgr, client, events, ghost, bounds, up, api>>

\* PermitInit::acquire ...
JobQueue(f) ==
  /\ JobAt("upload", f, "fresh")
  /\ JobTo("upload", f, "queued")
  /\ UNCHANGED <<mgr, client, events, ghost, bounds, up, api>>

\* ... and start_with_progress
JobPermit(f) ==
  /\ JobAt("upload", f, "queued")
  /\ Granted(f)
  /\ JobTo("upload", f, "work")
  /\ Report(start_emits(fev[f]), "Started", f)
  /\ fev' = [fev EXCEPT ![f] = start(@)]
  /\ UNCHANGED <<mgr, client, xev, pausing, ghost, bounds, up, api>>

\* All chunks, or the checksum, are handed to the loop.
JobSent(k, f) ==
  /\ JobAt(k, f, "work")
  /\ JobTo(k, f, "none")
  /\ UNCHANGED <<mgr, client, events, ghost, bounds, up, api>>

\* Mutant: without try_terminate.
JobFail_Overwrites(k, f) ==
  /\ JobAt(k, f, "work")
  /\ IF Usable
     THEN Terminate(f, "Failed") /\ JobTo(k, f, "posted")
     ELSE JobTo(k, f, "none") /\ UNCHANGED <<db, file>>
  /\ UNCHANGED <<xfer, conn, client, events, ghost, bounds, up, api>>

\* The file cannot be read: outgoing_failure_post.  If that fails, an Error is
\* sent and nothing else.
JobFail(k, f) ==
  /\ JobAt(k, f, "work")
  /\ IF Usable /\ file[f] = "Alive"
     THEN Terminate(f, "Failed") /\ JobTo(k, f, "posted")
     ELSE JobTo(k, f, "none") /\ UNCHANGED <<db, file>>
  /\ UNCHANGED <<xfer, conn, client, events, ghost, bounds, up, api>>

\* The abort arrives while outgoing_failure_post waits for the database: the
\* file has failed in memory only.
JobFailCut(k, f) ==
  /\ JobAt(k, f, "work")
  /\ IsAborted(k, f)
  /\ Usable
  /\ file[f] = "Alive"
  /\ file' = [file EXCEPT ![f] = "Failed"]
  /\ JobTo(k, f, "none")
  /\ UNCHANGED <<db, xfer, conn, client, events, ghost, bounds, up, api>>

\* events.failed, then the Error message.
JobEmit(k, f) ==
  /\ JobAt(k, f, "posted")
  /\ Report(terminate_emits(fev[f]), "Failed", f)
  /\ fev' = [fev EXCEPT ![f] = terminate(@)]
  /\ known' = known \cup {f}
  /\ JobTo(k, f, "none")
  /\ UNCHANGED <<mgr, client, xev, pausing, told, ends, offered, parted, bounds, up, api>>

-----------------------------------------------------------------------------
(* The end of a connection.                                                *)

\* The receiver closed the socket; there is no timeout.
Drained ==
  /\ up
  /\ cli = "drain"
  /\ cli' = "shut"
  /\ UNCHANGED <<mgr, pc, reqs, held, jobs, events, ghost, bounds, up, api>>

\* Mutant: HandlerLoop has no Drop.
RunReturns_NoDrop ==
  /\ up
  /\ cli \in {"shut", "cut"}
  /\ job = NoJobs
  /\ cli' = IF cli = "shut" THEN "fin" ELSE "lost"
  /\ held' = {}
  /\ reqs' = <<>>
  /\ UNCHANGED <<mgr, pc, jobs, events, ghost, bounds, up, api>>

\* jobs.shutdown() has waited for the jobs; HandlerLoop is dropped and leaves
\* it to a detached task to pause the files that it still has a task for.
RunReturns ==
  /\ up
  /\ cli \in {"shut", "cut"}
  /\ job = NoJobs
  /\ cli' = IF cli = "shut" THEN "fin" ELSE "lost"
  /\ pausing' = pausing \cup held
  /\ held' = {}
  /\ reqs' = <<>>
  /\ UNCHANGED <<mgr, pc, jobs, fev, xev, evq, ghost, bounds, up, api>>

\* outgoing_disconnect; then the task ends or backs off.
Disconnect ==
  /\ up
  /\ cli \in {"fin", "lost"}
  /\ cli' = IF cli = "fin" THEN "over" ELSE "dial"
  /\ conn' = FALSE
  /\ UNCHANGED <<db, xfer, file, pc, reqs, held, jobs, events, ghost, bounds, up, api>>

\* The detached task of Drop.
Pause(f) ==
  /\ up
  /\ f \in pausing
  /\ pausing' = pausing \ {f}
  /\ Report(stop_emits(fev[f]), "Paused", f)
  /\ fev' = [fev EXCEPT ![f] = stop(@)]
  /\ UNCHANGED <<mgr, client, jobs, xev, ghost, bounds, up, api>>

-----------------------------------------------------------------------------
(* API calls; the FFI layer lets one in at a time.                         *)

Calls(k) == up /\ api = ApiIdle /\ k \in ApiCalls

\* Service::send_request: insert_outgoing, queued, spawn.  (The identifier of
\* a transfer is new: there is one call for it.)
ApiSend ==
  /\ up
  /\ api = ApiIdle
  /\ cli = "none"
  /\ crashes = 0
  /\ db' = insert_transfer(db)
  /\ xfer' = "New"
  /\ xev' = transfer_gate(FALSE)
  /\ Report(ongoing_emits(xev'), "Queued", NoFile)
  /\ cli' = "dial"
  /\ UNCHANGED <<file, conn, pc, reqs, held, jobs, fev, pausing, ghost, bounds, up, api>>

\* Mutant: without try_terminate.
ApiReject_Overwrites(f) ==
  /\ Calls("reject")
  /\ Usable
  /\ Terminate(f, "Rejected")
  /\ reqs' = Push(Req("Reject", f))
  /\ api' = [op |-> "reject", f |-> f]
  /\ UNCHANGED <<xfer, conn, cli, pc, held, jobs, events, ghost, bounds, up>>

\* Service::reject: outgoing_rejection_post, then the event.
ApiReject(f) ==
  /\ Calls("reject")
  /\ Usable
  /\ file[f] = "Alive"
  /\ Terminate(f, "Rejected")
  /\ reqs' = Push(Req("Reject", f))
  /\ api' = [op |-> "reject", f |-> f]
  /\ UNCHANGED <<xfer, conn, cli, pc, held, jobs, events, ghost, bounds, up>>

ApiRejectEmit ==
  /\ up
  /\ api.op = "reject"
  /\ Report(terminate_emits(fev[api.f]), "Rejected", api.f)
  /\ fev' = [fev EXCEPT ![api.f] = terminate(@)]
  /\ api' = ApiIdle
  /\ UNCHANGED <<mgr, client, jobs, xev, pausing, ghost, bounds, up>>

\* Mutant: the canceled state is kept in memory only.
ApiCancel_Unsynced ==
  /\ Calls("cancel")
  /\ Usable
  /\ IF xfer = "New" THEN Remove
                     ELSE /\ xfer' = "Canceled"
                          /\ conn' = FALSE
                          /\ UNCHANGED <<db, file>>
  /\ reqs' = Push(Close)
  /\ api' = [op |-> "cancel", f |-> NoFile]
  /\ UNCHANGED <<cli, pc, held, jobs, events, ghost, bounds, up>>

\* Service::cancel_all: outgoing_issue_close.  A transfer the receiver does
\* not know of is forgotten, any other is kept until the receiver is told.
ApiCancel ==
  /\ Calls("cancel")
  /\ Usable
  /\ IF xfer = "New" THEN Remove
                     ELSE /\ xfer' = "Canceled"
                          /\ conn' = FALSE
                          /\ db' = update_transfer_sync_states(db, "Canceled")
                          /\ UNCHANGED file
  /\ reqs' = Push(Close)
  /\ api' = [op |-> "cancel", f |-> NoFile]
  /\ UNCHANGED <<cli, pc, held, jobs, events, ghost, bounds, up>>

\* Mutant: the gate of the transfer is closed before the event.
ApiCancelEmit_Swapped ==
  /\ up
  /\ api.op = "cancel"
  /\ fev' = [f \in Files |-> stop(fev[f])]
  /\ Report(finish_emits(finish(xev)), "Canceled", NoFile)
  /\ xev' = finish(xev)
  /\ api' = ApiIdle
  /\ UNCHANGED <<mgr, client, jobs, pausing, ghost, bounds, up>>

\* All gates are opened silently, then the event.
ApiCancelEmit ==
  /\ up
  /\ api.op = "cancel"
  /\ fev' = [f \in Files |-> stop(fev[f])]
  /\ Report(finish_emits(xev), "Canceled", NoFile)
  /\ xev' = finish(xev)
  /\ api' = ApiIdle
  /\ UNCHANGED <<mgr, client, jobs, pausing, ghost, bounds, up>>

ApiPurge ==
  /\ Calls("purge")
  /\ purge_transfers(db) # db
  /\ db' = purge_transfers(db)
  /\ UNCHANGED <<xfer, file, conn, client, jobs, events, ghost, bounds, up, api>>

-----------------------------------------------------------------------------
(* The event task: store the event, then call the application.             *)

Ending == {"Canceled", "CanceledByPeer", "TransferFailed"}

StoredBy(e) ==
  CASE e.k \in Verdicts -> insert_path_state(db, e.f, e.k)
    [] e.k \in Ending   -> insert_transfer_cancel_state(db)
    [] OTHER            -> db

EventTask ==
  /\ up
  /\ evq # <<>>
  /\ LET e == Head(evq) IN
     /\ db' = StoredBy(e)
     /\ told' = IF e.k \in Verdicts THEN [told EXCEPT ![e.f] = Append(@, e.k)] ELSE told
     /\ ends' = IF e.k \in Ending THEN ends + 1 ELSE ends
  /\ evq' = Tail(evq)
  /\ UNCHANGED <<xfer, file, conn, client, jobs, fev, xev, pausing, offered, parted, known,
                 bounds, up, api>>

-----------------------------------------------------------------------------
(* The process is killed.  What is in memory is lost.                      *)

Down ==
  /\ up
  /\ crashes < MaxCrashes
  /\ crashes' = crashes + 1
  /\ up' = FALSE
  /\ xfer' = "Absent"
  /\ file' = [f \in Files |-> "Alive"]
  /\ conn' = FALSE
  /\ cli' = "none"
  /\ pc' = Select
  /\ reqs' = <<>>
  /\ held' = {}
  /\ job' = NoJobs
  /\ aborted' = {}
  /\ waitq' = <<>>
  /\ pausing' = {}
  /\ fev' = [f \in Files |-> "Idle"]
  /\ xev' = "Ongoing"
  /\ evq' = <<>>
  /\ api' = ApiIdle
  /\ known' = {}
  /\ UNCHANGED <<told, ends, offered, parted, dials, msgs>>

Crash == Down /\ UNCHANGED db

\* Between the row and the call of the application.
CrashInEventTask ==
  /\ evq # <<>>
  /\ Down
  /\ db' = StoredBy(Head(evq))

\* What restore_outgoing makes of a file.
RestoredFile(d, f) == IF IsRestoredTerminal(d, f) THEN RestoredVerdict(d, f) ELSE "Alive"

\* Service::start: cleanup_garbage_transfers, restore_outgoing, resume.
Restart ==
  /\ ~up
  /\ up' = TRUE
  /\ db' = cleanup_garbage_transfers(db)
  /\ IF db'.sync = "None"
     THEN UNCHANGED <<xfer, file, xev, cli>>
     ELSE /\ xfer' = db'.sync
          /\ file' = [f \in Files |-> RestoredFile(db', f)]
          /\ xev' = transfer_gate(db'.sync = "Canceled")
          /\ cli' = "dial"
  /\ UNCHANGED <<conn, pc, reqs, held, jobs, fev, evq, pausing, ghost, bounds, api>>

-----------------------------------------------------------------------------
Dial == DialDeferred \/ DialRefused \/ DialConnected

Request == OnReqReject \/ OnReqFail \/ OnReqClose

Message ==
  \/ RecvClose
  \/ \E f \in Files :
       \/ \E m \in {"Done", "Error", "Reject"} : RecvVerdict(m, f)
       \/ RecvCancel(f) \/ RecvStart(f) \/ RecvReqChsum(f)

\* What the client task does next without waiting for anybody.
Handler ==
  \/ DialRefusedEmit \/ Connected \/ HelloSent \/ HelloFailed
  \/ OnReqCloseRemove \/ RecvCloseRemove \/ RecvCloseCancel
  \/ RecvVerdictEmit \/ RecvVerdictStop
  \/ StartEvents \/ StartUpload
  \/ RunReturns \/ Disconnect

Job ==
  \/ \E k \in Kinds, f \in Files :
       JobAborted(k, f) \/ JobSent(k, f) \/ JobFail(k, f) \/ JobFailCut(k, f) \/ JobEmit(k, f)
  \/ \E f \in Files : JobQueue(f) \/ JobPermit(f)

Api ==
  \/ ApiSend \/ ApiCancel \/ ApiPurge
  \/ \E f \in Files : ApiReject(f)

ApiRest == ApiRejectEmit \/ ApiCancelEmit

Next ==
  \/ Dial \/ Request \/ Message \/ LinkBroken \/ Handler \/ Drained
  \/ Job
  \/ \E f \in Files : Pause(f)
  \/ Api \/ ApiRest \/ EventTask
  \/ Crash \/ CrashInEventTask \/ Restart

Spec == Init /\ [][Next]_vars

-----------------------------------------------------------------------------
(* Safety.                                                                 *)

\* A restart at any moment finds the transfer in the state the manager has it
\* in, and no file that was rejected or completed can be uploaded again, nor
\* is a file that can still be uploaded taken for one that has ended.  (A
\* failure may be lost with the process, see JobFailCut.)
RestoreFaithful ==
  up => /\ xfer = IF db.sync = "None" THEN "Absent" ELSE db.sync
        /\ xfer # "Absent" => \A f \in Files :
             /\ file[f] \in {"Rejected", "Completed"} => IsRestoredTerminal(db, f)
             /\ IsRestoredTerminal(db, f) => file[f] \in Verdicts

\* norddrop.udl, OutgoingPathStateKind: "Terminal states appear once and it is
\* the final state".  The manager, the history in the database, the events
\* under way and the application never have two verdicts on a file, not after
\* a restart either, and the application hears of it once.
OneVerdict ==
  \A f \in Files :
    LET said == db.hist[f] \cup Range(told[f])
                \cup {v \in Verdicts : Ev(v, f) \in Range(evq)}
    IN /\ Cardinality(said) <= 1
       /\ Len(told[f]) <= 1
       /\ up /\ xfer # "Absent" => said \subseteq {file[f]}

\* A transfer that the receiver may know of is not forgotten before the two
\* sides have parted, however cancel_all, crashes and lost connections fall.
\* (outgoing_issue_close forgets a New transfer at once.)
ReceiverNotAbandoned == up /\ offered /\ xfer = "Absent" => parted

\* Once the application was told that the transfer is over it does not come
\* back, not by a restart either.
EndIsFinal == ends > 0 => ~Usable /\ db.sync \in {"None", "Canceled"}

\* ... and it is told so once, whoever of the API call, the close frame and a
\* refused connection was first.
EndReportedOnce == ends <= 1

\* Both sides agree to stop: while a connection is served and has nothing
\* queued, every file that was rejected or failed here, in this life of the
\* connection or before, has been brought up with the receiver, or by it.
VerdictConveyed ==
  \A f \in Files :
    /\ Selecting /\ reqs = <<>> /\ xfer = "Active"
    /\ file[f] \in {"Rejected", "Failed"}
    /\ \A k \in Kinds : job[k][f] # "posted"
    => f \in known

\* norddrop.udl: FilePaused is "emitted automatically for each file in flight
\* in case the peer goes offline but the transfer will be resumed": between
\* two connections no unfinished file is shown as being uploaded or throttled.
PausedWhenOffline ==
  \A f \in Files :
    up /\ cli = "dial" /\ Usable /\ file[f] = "Alive" /\ f \notin pausing
      => fev[f] = "Idle"

\* A verdict is decided once: no race of reject(), the jobs, and the messages
\* of the receiver changes it while the transfer is in the map.
VerdictNeverFlips ==
  [][\A f \in Files : file[f] \in Verdicts /\ xfer' # "Absent" => file'[f] = file[f]]_vars

-----------------------------------------------------------------------------
(* Progress, while the process is not killed.  The runtime polls every task *)
(* that is ready.  A job at work ends as long as the loop takes its chunks: *)
(* every send of the loop has a timeout.  Draining has none.                *)

JobMoves(k, f) ==
  \/ JobAborted(k, f) \/ JobEmit(k, f)
  \/ k = "upload" /\ (JobQueue(f) \/ JobPermit(f))
  \/ cli = "run" /\ (JobSent(k, f) \/ JobFail(k, f))

Fairness ==
  /\ WF_vars(EventTask)
  /\ WF_vars(ApiRest)
  /\ WF_vars(Request)
  /\ WF_vars(Handler)
  /\ \A f \in Files : WF_vars(Pause(f)) /\ \A k \in Kinds : WF_vars(JobMoves(k, f))

FairSpec == Spec /\ Fairness

\* The application learns that a file was rejected or completed, whoever
\* decided it.
VerdictReported ==
  \A f \in Files : file[f] \in {"Rejected", "Completed"} ~> told[f] # <<>>

\* A transfer that is canceled or has left the map is reported as over.
EndReported == (xfer = "Canceled" \/ (xfer = "Absent" /\ db.row)) ~> ends > 0

\* norddrop.udl, FileThrottled: "Whenever the number of active files decreases
\* the file will proceed": a throttled upload gets its turn, unless its
\* connection is over first.
ThrottledProceeds ==
  \A f \in Files :
    job["upload"][f] \in {"fresh", "queued"} ~>
      (job["upload"][f] \notin {"fresh", "queued"} \/ cli # "run")

-----------------------------------------------------------------------------
(***************************************************************************)
(* The refinement mapping: the manager's map while the process runs, what  *)
(* the next start will make of the database while it does not.  A failure  *)
(* counts once it is on disk: its file may be tried again before.          *)
(***************************************************************************)
Sync == IF up THEN xfer ELSE IF db.sync = "None" THEN "Absent" ELSE db.sync

Life == CASE Sync = "Canceled" -> "canceled"
          [] Sync = "Absent"   -> IF db.row THEN "over" ELSE "none"
          [] OTHER             -> "open"

Settled ==
  IF Sync = "Absent" THEN {}
  ELSE {f \in Files : \/ up /\ file[f] \in {"Rejected", "Completed"}
                      \/ (up => file[f] = "Failed") /\ IsRestoredTerminal(db, f)}

Durable == INSTANCE DurableTransfer WITH life <- Life, settled <- Settled, wanted <- {}

\* The sending side is a durable transfer: no crash and no restart loses a verdict
\* or a cancelation, or brings a transfer back that is over.
IsDurable == Durable!Spec
=============================================================================
