------------------------------ MODULE Incoming ------------------------------
(***************************************************************************)
(* The receiving side of one libdrop transfer: the transfer manager, the   *)
(* websocket server loops, the download jobs, the checking job, the API    *)
(* calls of the application, the event task and the database.              *)
(*                                                                         *)
(* The sender is an arbitrary environment: it may connect at any time, on  *)
(* as many connections as there are in Conns, and send any control message *)
(* it likes.  The process may be killed at any time, also between the      *)
(* database writes of one manager operation, and started again.            *)
(*                                                                         *)
(* Grain of atomicity.  Every operation of the manager holds the mutex of  *)
(* the transfer map over its database writes, so it is one step.  Between  *)
(* two awaits that touch different shared state (manager, then event gate, *)
(* then request channel) other tasks may run, and the handler is split     *)
(* there: pc, api, chk and job say where each task is.                     *)
(***************************************************************************)
EXTENDS Storage, Events, Integers, FiniteSets, Functions

CONSTANTS Conns,       \* websocket connections the sender may open
          NoConn,      \* IncomingState.conn = None
          NoFile,      \* the file of an event that is about the transfer
          PeerMsgs,    \* kinds of control messages the sender uses
          ApiCalls,    \* calls the application makes
          Overlap,     \* the sender may connect while a connection is being served
          Reported,    \* kinds of events the instance follows to the application
          MaxCrashes,  \* bound: times the process is killed
          MaxMsgs      \* bound: control messages received from the sender

ASSUME ConnsAssumption == NoConn \notin Conns
ASSUME FilesAssumption == NoFile \notin Files /\ IsFiniteSet(Files)
ASSUME PeerMsgsAssumption == PeerMsgs \subseteq {"Close", "Reject", "Error", "Cancel"}
ASSUME ApiCallsAssumption == ApiCalls \subseteq {"download", "reject", "cancel", "purge"}
ASSUME ReportedAssumption ==
  /\ Verdicts \cup {"Canceled", "CanceledByPeer"} \subseteq Reported
  /\ Reported \subseteq Verdicts \cup {"Pending", "Started", "Paused", "Received",
                                     "Canceled", "CanceledByPeer"}
ASSUME OverlapAssumption == Overlap \in BOOLEAN
ASSUME BoundsAssumption == MaxCrashes \in Nat /\ MaxMsgs \in Nat

VARIABLES
  db,       \* the rows of the transfer in SQLite
  up,       \* the process is running
  xfer,     \* IncomingState.xfer_sync, "Absent" when not in the map
  file,     \* IncomingState.file_sync
  conn,     \* IncomingState.conn
  loop,     \* where client_loop of each connection is
  pc,       \* the handler it is in the middle of
  reqs,     \* its queue of ServerReq
  held,     \* HandlerLoop.jobs: the files it keeps a FileTask for
  job,      \* FileXferTask::run of each connection and file
  aborted,  \* jobs whose AbortHandle was used
  fev,      \* state of each FileEventTx
  xev,      \* state of the TransferEventTx
  evq,      \* events on their way to the event task
  api,      \* what is left to do of the API call under way
  chk,      \* the checking job of check.rs
  temp,     \* files with a temporary file on disk
  placed,   \* files that were moved to their destination
  told,     \* history: verdicts reported to the application, per file
  cancels,  \* history: cancelations reported to the application
  purged,   \* history: the application purged the transfer
  crashes, msgs

mgr    == <<db, xfer, file, conn>>
loops  == <<loop, pc, reqs, held>>
jobs   == <<job, aborted>>
events == <<fev, xev, evq>>
calls  == <<api, chk>>
disk   == <<temp, placed>>
ghost  == <<told, cancels, purged>>
vars   == <<mgr, loops, jobs, events, calls, disk, ghost, up, crashes, msgs>>

-----------------------------------------------------------------------------
Terminal == Verdicts

\* The manager's states of a file; InFlight carries the path, which is fixed.
LocalFileState == {"Idle", "InFlight"} \cup Terminal

\* off: not connected yet; run: in the select loop; ok, err: left it and
\* waiting for the jobs to be shut down; fin: client_loop returned, its
\* request receiver is gone, incoming_disconnect is still to come; dead: over.
LoopState == {"off", "run", "ok", "err", "fin", "dead"}

Select == [op |-> "select", f |-> NoFile]

HandlerPc == {Select}
             \cup [op : {"drain", "remove", "cancel"}, f : {NoFile}]
             \cup [op : {"rej_stop", "rej_none", "rej_emit", "err_emit", "err_stop"},
                   f : Files]

\* A job: spawned; preflight: its gate is set;
\* stream: Start was pushed, receiving chunks; ok, bad: the result is known and the part that
\* cannot be interrupted begins; okpost, badpost: posted to the manager.
JobState == {"none", "spawned", "preflight", "stream",
             "ok", "okpost", "bad", "badpost", "end"}

Abortable == {"spawned", "preflight", "stream"}

Reqs == [k : {"Download", "Start", "Reject", "Done", "Fail"}, f : Files]
        \cup [k : {"Close"}, f : {NoFile}]

FileEvents     == {"Pending", "Started", "Paused"} \cup Verdicts
TransferEvents == {"Received", "Canceled", "CanceledByPeer"}

EventSet == [k : FileEvents, f : Files] \cup [k : TransferEvents, f : {NoFile}]

Req(k, f) == [k |-> k, f |-> f]
Ev(k, f)  == [k |-> k, f |-> f]
Close     == Req("Close", NoFile)

ApiCall == [op : {"idle", "cancel"}, f : {NoFile}] \cup [op : {"reject"}, f : Files]
ApiIdle == [op |-> "idle", f |-> NoFile]

TypeOK ==
  /\ db \in Rows
  /\ up \in BOOLEAN
  /\ xfer \in SyncState \cup {"Absent"}
  /\ file \in [Files -> LocalFileState]
  /\ conn \in Conns \cup {NoConn}
  /\ loop \in [Conns -> LoopState]
  /\ pc \in [Conns -> HandlerPc]
  /\ reqs \in [Conns -> Seq(Reqs)]
  /\ held \in [Conns -> SUBSET Files]
  /\ job \in [Conns -> [Files -> JobState]]
  /\ aborted \in [Conns -> SUBSET Files]
  /\ fev \in [Files -> FileState]
  /\ xev \in TransferState
  /\ evq \in Seq(EventSet)
  /\ api \in ApiCall
  /\ chk \in {"off", "run", "dead", "gone"}
  /\ temp \in SUBSET Files
  /\ placed \in SUBSET Files
  /\ told \in [Files -> SUBSET Verdicts]
  /\ cancels \in Nat
  /\ purged \in BOOLEAN
  /\ crashes \in Nat
  /\ msgs \in Nat

Init ==
  /\ db = NoRows
  /\ up = TRUE
  /\ xfer = "Absent"
  /\ file = [f \in Files |-> "Idle"]
  /\ conn = NoConn
  /\ loop = [c \in Conns |-> "off"]
  /\ pc = [c \in Conns |-> Select]
  /\ reqs = [c \in Conns |-> <<>>]
  /\ held = [c \in Conns |-> {}]
  /\ job = [c \in Conns |-> [f \in Files |-> "none"]]
  /\ aborted = [c \in Conns |-> {}]
  /\ fev = [f \in Files |-> "Idle"]
  /\ xev = "Ongoing"
  /\ evq = <<>>
  /\ api = ApiIdle
  /\ chk = "off"
  /\ temp = {}
  /\ placed = {}
  /\ told = [f \in Files |-> {}]
  /\ cancels = 0
  /\ purged = FALSE
  /\ crashes = 0
  /\ msgs = 0

-----------------------------------------------------------------------------
(* Requests to the loops and the manager's operations.                     *)

\* The receiver of the request channel lives as long as client_loop.
Open(c) == c \in Conns /\ loop[c] \in {"run", "ok", "err"}

\* UnboundedSender::send: lost, with a warning, when the receiver is gone.
Push(c, r) == IF Open(c) THEN [reqs EXCEPT ![c] = Append(@, r)] ELSE reqs

\* EventTx::emit behind a gate.  No gate depends on the queue, so an instance
\* that follows only some kinds of events loses nothing about the others.
Report(passes, k, f) == evq' = Emit(evq, passes /\ k \in Reported, Ev(k, f))

\* ensure_not_cancelled on a transfer that is in the map
Usable == xfer \notin {"Absent", "Canceled"}

\* The sequences in which a HashMap may list the elements of S.
Orders(S) ==
  {s \in [1 .. Cardinality(S) -> S] : \A i, j \in DOMAIN s : s[i] = s[j] => i = j}

\* Mutant: the sync state of the file is not written.
Terminate_Unsynced(f, v) ==
  /\ file' = [file EXCEPT ![f] = v]
  /\ db' = stop_incoming_file(db, f)

\* incoming_rejection_post, incoming_finish_post and incoming_terminal_recv
\* end a file the same way: memory, then two database writes.
Terminate(f, v) ==
  /\ file' = [file EXCEPT ![f] = v]
  /\ db' = stop_incoming_file(update_file_sync_states(db, f), f)

\* incoming_remove of a transfer that is in the map.
Remove ==
  /\ xfer' = "Absent"
  /\ file' = [f \in Files |-> "Idle"]
  /\ conn' = NoConn
  /\ db' = transfer_sync_clear(db)

\* IncomingState::issue_pending_requests
PendingReq(f) ==
  CASE file[f] = "InFlight"  -> Req("Download", f)
    [] file[f] = "Rejected"  -> Req("Reject", f)
    [] file[f] = "Completed" -> Req("Done", f)
    [] OTHER                 -> Req("Fail", f)

\* Mutant: only verdicts are sent again, downloads are not resumed.
Unsettled_VerdictsOnly == {f \in Files : file[f] \in Terminal}

\* The files a new connection has something to be told about.
Unsettled == {f \in Files : file[f] # "Idle"}

-----------------------------------------------------------------------------
(* A connection is accepted: register_incoming, then init_manager.         *)

\* The sender connects.  It does so again before the end of an earlier connection
\* is noticed here only if Overlap says so.
Fresh(c) ==
  /\ up
  /\ loop[c] = "off"
  /\ Overlap \/ \A d \in Conns : ~Open(d)

\* The request does not match the transfer, or ensure!(!conn.is_closed()) fails:
\* a connection is registered and its receiver is gone.  client_loop returns, and
\* incoming_disconnect follows.
RegisterRefused(c) ==
  /\ Fresh(c)
  /\ xfer # "Absent"
  /\ loop' = [loop EXCEPT ![c] = "fin"]
  /\ UNCHANGED <<mgr, pc, reqs, held, jobs, events, calls, disk, ghost, up, crashes, msgs>>

\* No connection is registered, or one whose receiver is alive: it is replaced
\* (its loop keeps a sender of its own channel and runs on).
RegisterResume(c) ==
  /\ Fresh(c)
  /\ xfer # "Absent"
  /\ conn = NoConn \/ Open(conn)
  /\ \E s \in Orders(Unsettled) :
       LET pending == [i \in DOMAIN s |-> PendingReq(s[i])]
       IN  reqs' = [reqs EXCEPT ![c] = IF xfer = "Canceled" THEN Append(pending, Close)
                                                            ELSE pending]
  /\ conn' = IF xfer = "Canceled" THEN conn ELSE c
  /\ loop' = [loop EXCEPT ![c] = "run"]
  /\ UNCHANGED <<db, xfer, file, pc, held, jobs, events, calls, disk, ghost, up, crashes, msgs>>

\* The row is there but the transfer is not: it was closed before.
RegisterClosed(c) ==
  /\ Fresh(c)
  /\ xfer = "Absent"
  /\ ~inserts_transfer(db)
  /\ reqs' = [reqs EXCEPT ![c] = <<Close>>]
  /\ loop' = [loop EXCEPT ![c] = "run"]
  /\ UNCHANGED <<mgr, pc, held, jobs, events, calls, disk, ghost, up, crashes, msgs>>

RegisterNew(c) ==
  /\ Fresh(c)
  /\ xfer = "Absent"
  /\ inserts_transfer(db)
  /\ db' = update_transfer_sync_states(insert_transfer(db), "Active")
  /\ xfer' = "Active"
  /\ file' = [f \in Files |-> "Idle"]
  /\ conn' = c
  /\ fev' = [f \in Files |-> "Idle"]
  /\ xev' = transfer_gate(FALSE)
  /\ Report(ongoing_emits(xev'), "Received", NoFile)
  /\ chk' = "run"
  /\ loop' = [loop EXCEPT ![c] = "run"]
  /\ UNCHANGED <<pc, reqs, held, jobs, api, disk, ghost, up, crashes, msgs>>

-----------------------------------------------------------------------------
(* The server loop: requests of the API and the jobs come first (biased    *)
(* select), then what the sender sends.                                    *)

Selecting(c) == up /\ loop[c] = "run" /\ pc[c] = Select

HasReq(c, k) == Selecting(c) /\ reqs[c] # <<>> /\ Head(reqs[c]).k = k

Pop(c) == reqs' = [reqs EXCEPT ![c] = Tail(@)]

\* The loop is left; jobs.shutdown() aborts every job.
Break(c, how) ==
  /\ loop' = [loop EXCEPT ![c] = how]
  /\ aborted' = [aborted EXCEPT ![c] = {f \in Files : job[c][f] \in Abortable}]

\* HandlerLoop::stop_task: abort a job that is not finished and open its gate.
Stoppable(c, f) == f \in held[c] /\ job[c][f] # "end"

StopTask(c, f) ==
  /\ held' = [held EXCEPT ![c] = @ \ {f}]
  /\ aborted' = IF Stoppable(c, f) /\ job[c][f] \in Abortable
                THEN [aborted EXCEPT ![c] = @ \cup {f}] ELSE aborted
  /\ fev' = IF Stoppable(c, f) THEN [fev EXCEPT ![f] = stop(@)] ELSE fev

\* HandlerLoop::on_close: the gates of all jobs are opened, silently; the
\* jobs themselves run on until they are shut down.
OnClose(c) ==
  /\ fev' = [f \in Files |-> IF f \in held[c] THEN stop(fev[f]) ELSE fev[f]]
  /\ held' = [held EXCEPT ![c] = {}]

\* start_download: ignored while a job runs; ctx.start fails, and with it the
\* loop, when the transfer is gone or canceled.
OnReqDownload(c) ==
  /\ HasReq(c, "Download")
  /\ LET f == Head(reqs[c]).f IN
     \/ /\ Stoppable(c, f)
        /\ UNCHANGED <<loop, held, jobs>>
     \/ /\ ~Stoppable(c, f)
        /\ ~Usable
        /\ Break(c, "err")
        /\ UNCHANGED <<held, job>>
     \/ /\ ~Stoppable(c, f)
        /\ Usable
        /\ held' = [held EXCEPT ![c] = @ \cup {f}]
        /\ job' = [job EXCEPT ![c][f] = "spawned"]
        /\ UNCHANGED <<loop, aborted>>
  /\ Pop(c)
  /\ UNCHANGED <<mgr, pc, events, calls, disk, ghost, up, crashes, msgs>>

\* issue_start, issue_done, issue_failure
OnReqSend(c) ==
  /\ \E k \in {"Start", "Done", "Fail"} : HasReq(c, k)
  /\ Pop(c)
  /\ UNCHANGED <<mgr, loop, pc, held, jobs, events, calls, disk, ghost, up, crashes, msgs>>

\* issue_reject
OnReqReject(c) ==
  /\ HasReq(c, "Reject")
  /\ LET f == Head(reqs[c]).f IN
     /\ StopTask(c, f)
     /\ temp' = temp \ {f}
  /\ Pop(c)
  /\ UNCHANGED <<mgr, loop, pc, job, xev, evq, calls, placed, ghost, up, crashes, msgs>>

\* ServerReq::Close: the close frame is sent, then the socket is drained.
OnReqClose(c) ==
  /\ HasReq(c, "Close")
  /\ OnClose(c)
  /\ pc' = [pc EXCEPT ![c] = [op |-> "drain", f |-> NoFile]]
  /\ Pop(c)
  /\ UNCHANGED <<mgr, loop, jobs, xev, evq, calls, disk, ghost, up, crashes, msgs>>

At(c, op) == up /\ loop[c] = "run" /\ pc[c].op = op

Drained(c) ==
  /\ At(c, "drain")
  /\ IF xfer = "Absent" THEN UNCHANGED mgr ELSE Remove
  /\ pc' = [pc EXCEPT ![c] = Select]
  /\ Break(c, "ok")
  /\ UNCHANGED <<reqs, held, job, events, calls, disk, ghost, up, crashes, msgs>>

\* A send, a receive or a ping fails, or the receive timeout expires.
LinkBroken(c) ==
  /\ Selecting(c) \/ At(c, "drain")
  /\ pc' = [pc EXCEPT ![c] = Select]
  /\ Break(c, "err")
  /\ UNCHANGED <<mgr, reqs, held, job, events, calls, disk, ghost, up, crashes, msgs>>

-----------------------------------------------------------------------------
(* Messages of the sender.                                                 *)

Receives(c, m) ==
  /\ m \in PeerMsgs
  /\ Selecting(c)
  /\ reqs[c] = <<>>
  /\ msgs < MaxMsgs
  /\ msgs' = msgs + 1

RecvClose(c) ==
  /\ Receives(c, "Close")
  /\ OnClose(c)
  /\ pc' = [pc EXCEPT ![c] = [op |-> "remove", f |-> NoFile]]
  /\ UNCHANGED <<mgr, loop, reqs, jobs, xev, evq, calls, disk, ghost, up, crashes>>

RecvCloseRemove(c) ==
  /\ At(c, "remove")
  /\ \/ /\ xfer # "Absent"
        /\ Remove
        /\ pc' = [pc EXCEPT ![c] = [op |-> "cancel", f |-> NoFile]]
        /\ UNCHANGED <<loop, aborted>>
     \/ /\ xfer = "Absent"
        /\ pc' = [pc EXCEPT ![c] = Select]
        /\ Break(c, "ok")
        /\ UNCHANGED mgr
  /\ UNCHANGED <<reqs, held, job, events, calls, disk, ghost, up, crashes, msgs>>

RecvCloseCancel(c) ==
  /\ At(c, "cancel")
  /\ Report(finish_emits(xev), "CanceledByPeer", NoFile)
  /\ xev' = finish(xev)
  /\ pc' = [pc EXCEPT ![c] = Select]
  /\ Break(c, "ok")
  /\ UNCHANGED <<mgr, reqs, held, job, fev, calls, disk, ghost, up, crashes, msgs>>

\* incoming_terminal_recv: ends the file if it has not ended, even when the
\* transfer is canceled.  fresh and stale are the handler's continuations.
TerminalRecv(c, f, v, fresh, stale) ==
  IF xfer # "Absent" /\ file[f] \notin Terminal
  THEN /\ Terminate(f, v)
       /\ pc' = [pc EXCEPT ![c] = [op |-> fresh, f |-> f]]
  ELSE /\ pc' = [pc EXCEPT ![c] = [op |-> stale, f |-> f]]
       /\ UNCHANGED <<db, file>>

\* on_reject
RecvReject(c, f) ==
  /\ Receives(c, "Reject")
  /\ TerminalRecv(c, f, "Rejected", "rej_stop", "rej_none")
  /\ UNCHANGED <<xfer, conn, loop, reqs, held, jobs, events, calls, disk, ghost, up, crashes>>

\* Mutant: the handler returns after stop_task, without its event.
RecvRejectStop_Silent(c) ==
  /\ At(c, "rej_stop") \/ At(c, "rej_none")
  /\ StopTask(c, pc[c].f)
  /\ pc' = [pc EXCEPT ![c] = Select]
  /\ UNCHANGED <<mgr, loop, reqs, job, xev, evq, calls, disk, ghost, up, crashes, msgs>>

RecvRejectStop(c) ==
  /\ At(c, "rej_stop") \/ At(c, "rej_none")
  /\ LET f == pc[c].f IN
     /\ StopTask(c, f)
     /\ pc' = [pc EXCEPT ![c] = IF @.op = "rej_stop" THEN [op |-> "rej_emit", f |-> f]
                                                     ELSE Select]
  /\ UNCHANGED <<mgr, loop, reqs, job, xev, evq, calls, disk, ghost, up, crashes, msgs>>

RecvRejectEmit(c) ==
  /\ At(c, "rej_emit")
  /\ LET f == pc[c].f IN
     /\ temp' = temp \ {f}
     /\ Report(terminate_emits(fev[f]), "Rejected", f)
     /\ fev' = [fev EXCEPT ![f] = terminate(@)]
  /\ pc' = [pc EXCEPT ![c] = Select]
  /\ UNCHANGED <<mgr, loop, reqs, held, jobs, xev, calls, placed, ghost, up, crashes, msgs>>

\* on_error, for a message that names a file
RecvError(c, f) ==
  /\ Receives(c, "Error")
  /\ TerminalRecv(c, f, "Failed", "err_emit", "err_stop")
  /\ UNCHANGED <<xfer, conn, loop, reqs, held, jobs, events, calls, disk, ghost, up, crashes>>

RecvErrorEmit(c) ==
  /\ At(c, "err_emit")
  /\ LET f == pc[c].f IN
     /\ Report(terminate_emits(fev[f]), "Failed", f)
     /\ fev' = [fev EXCEPT ![f] = terminate(@)]
     /\ pc' = [pc EXCEPT ![c] = [op |-> "err_stop", f |-> f]]
  /\ UNCHANGED <<mgr, loop, reqs, held, jobs, xev, calls, disk, ghost, up, crashes, msgs>>

RecvErrorStop(c) ==
  /\ At(c, "err_stop")
  /\ StopTask(c, pc[c].f)
  /\ pc' = [pc EXCEPT ![c] = Select]
  /\ UNCHANGED <<mgr, loop, reqs, job, xev, evq, calls, disk, ghost, up, crashes, msgs>>

\* on_cancel: the job is aborted and paused; the manager is not told.
RecvCancel(c, f) ==
  /\ Receives(c, "Cancel")
  /\ f \in held[c]
  /\ Report(Stoppable(c, f) /\ stop_emits(fev[f]), "Paused", f)
  /\ StopTask(c, f)
  /\ UNCHANGED <<mgr, loop, pc, reqs, job, xev, calls, disk, ghost, up, crashes>>

-----------------------------------------------------------------------------
(* The end of a connection.                                                *)

\* jobs.shutdown() has waited for the jobs (what runs detached goes on).  A
\* broken connection pauses every file it kept a task for, whether that has
\* finished or not; an orderly end removes the temporary files.
Paused(c) == {f \in held[c] : stop_emits(fev[f])}

\* Mutant: the tasks of a broken connection are dropped without a pause.
LoopFinalize_NoPause(c) ==
  /\ up
  /\ loop[c] \in {"ok", "err"}
  /\ \A f \in Files : job[c][f] \notin Abortable
  /\ temp' = IF loop[c] = "ok" THEN {} ELSE temp
  /\ held' = [held EXCEPT ![c] = {}]
  /\ reqs' = [reqs EXCEPT ![c] = <<>>]
  /\ loop' = [loop EXCEPT ![c] = "fin"]
  /\ UNCHANGED <<mgr, pc, jobs, events, calls, placed, ghost, up, crashes, msgs>>

LoopFinalize(c) ==
  /\ up
  /\ loop[c] \in {"ok", "err"}
  /\ \A f \in Files : job[c][f] \notin Abortable
  /\ \E s \in Orders(Paused(c)) :
       evq' = IF "Paused" \in Reported
              THEN evq \o [i \in DOMAIN s |-> Ev("Paused", s[i])] ELSE evq
  /\ fev' = [f \in Files |-> IF f \in held[c] THEN stop(fev[f]) ELSE fev[f]]
  /\ temp' = IF loop[c] = "ok" THEN {} ELSE temp
  /\ held' = [held EXCEPT ![c] = {}]
  /\ reqs' = [reqs EXCEPT ![c] = <<>>]
  /\ loop' = [loop EXCEPT ![c] = "fin"]
  /\ UNCHANGED <<mgr, pc, jobs, xev, calls, placed, ghost, up, crashes, msgs>>

\* incoming_disconnect takes whatever connection is registered.
Disconnect(c) ==
  /\ up
  /\ loop[c] = "fin"
  /\ loop' = [loop EXCEPT ![c] = "dead"]
  /\ conn' = NoConn
  /\ UNCHANGED <<db, xfer, file, pc, reqs, held, jobs, events, calls, disk, ghost, up, crashes, msgs>>

-----------------------------------------------------------------------------
(* FileXferTask::run.  An aborted job may go on until it next has to wait. *)

JobAt(c, f, s) == up /\ job[c][f] = s

JobTo(c, f, s) ==
  /\ job' = [job EXCEPT ![c][f] = s]
  /\ aborted' = IF s \in Abortable THEN aborted ELSE [aborted EXCEPT ![c] = @ \ {f}]

JobAborted(c, f) ==
  /\ up
  /\ job[c][f] \in Abortable
  /\ f \in aborted[c]
  /\ JobTo(c, f, "end")
  /\ UNCHANGED <<mgr, loops, events, calls, disk, ghost, up, crashes, msgs>>

JobPreflight(c, f) ==
  /\ JobAt(c, f, "spawned")
  /\ fev' = [fev EXCEPT ![f] = preflight(@)]
  /\ JobTo(c, f, "preflight")
  /\ UNCHANGED <<mgr, loops, xev, evq, calls, disk, ghost, up, crashes, msgs>>

\* The offset is agreed upon: ServerReq::Start is pushed, events.start, and
\* the temporary file is opened.
JobStart(c, f) ==
  /\ JobAt(c, f, "preflight")
  /\ reqs' = Push(c, Req("Start", f))
  /\ Report(start_emits(fev[f]), "Started", f)
  /\ fev' = [fev EXCEPT ![f] = start(@)]
  /\ temp' = temp \cup {f}
  /\ JobTo(c, f, "stream")
  /\ UNCHANGED <<mgr, loop, pc, held, xev, calls, placed, ghost, up, crashes, msgs>>

\* All chunks are there and the checksum is right: the file is moved.  The
\* move and the spawn of the critical part are in the same poll.
JobPlace(c, f) ==
  /\ JobAt(c, f, "stream")
  /\ xfer # "Absent"
  /\ f \in temp
  /\ temp' = temp \ {f}
  /\ placed' = placed \cup {f}
  /\ JobTo(c, f, "ok")
  /\ UNCHANGED <<mgr, loops, events, calls, ghost, up, crashes, msgs>>

\* Error::Canceled, nothing is posted: prepare_abs_path finds no transfer, or
\* on_close dropped the FileTask and with it the channels the job reads from.
JobCanceled(c, f) ==
  /\ \/ JobAt(c, f, "stream") /\ xfer = "Absent"
     \/ JobAt(c, f, "stream") /\ f \notin held[c]
     \/ JobAt(c, f, "preflight") /\ f \notin held[c]
  /\ JobTo(c, f, "end")
  /\ UNCHANGED <<mgr, loops, events, calls, disk, ghost, up, crashes, msgs>>

\* A bad subpath, an I/O error, a wrong size or a checksum mismatch; or the
\* temporary file cannot be moved, and then it is not removed either.
JobFail(c, f) ==
  /\ up
  /\ job[c][f] \in Abortable
  /\ \/ temp' = temp
     \/ job[c][f] = "stream" /\ temp' = temp \ {f}
  /\ JobTo(c, f, "bad")
  /\ UNCHANGED <<mgr, loops, events, calls, placed, ghost, up, crashes, msgs>>

\* Mutant: a failure is reported but not posted to the manager.
JobPost_OnlySuccess(c, f) ==
  /\ JobAt(c, f, "ok") \/ JobAt(c, f, "bad")
  /\ IF Usable /\ file[f] \notin Terminal /\ job[c][f] = "ok"
     THEN Terminate(f, "Completed")
     ELSE UNCHANGED <<db, file>>
  /\ JobTo(c, f, IF job[c][f] = "ok" THEN "okpost" ELSE "badpost")
  /\ UNCHANGED <<xfer, conn, loops, events, calls, disk, ghost, up, crashes,
                 msgs>>

\* Mutant: without ensure_not_terminated.
JobPost_Overwrites(c, f) ==
  /\ JobAt(c, f, "ok") \/ JobAt(c, f, "bad")
  /\ IF Usable
     THEN Terminate(f, IF job[c][f] = "ok" THEN "Completed" ELSE "Failed")
     ELSE UNCHANGED <<db, file>>
  /\ JobTo(c, f, IF job[c][f] = "ok" THEN "okpost" ELSE "badpost")
  /\ UNCHANGED <<xfer, conn, loops, events, calls, disk, ghost, up, crashes,
                 msgs>>

\* incoming_finish_post: an error is logged, and the task goes on.
JobPost(c, f) ==
  /\ JobAt(c, f, "ok") \/ JobAt(c, f, "bad")
  /\ IF Usable /\ file[f] \notin Terminal
     THEN Terminate(f, IF job[c][f] = "ok" THEN "Completed" ELSE "Failed")
     ELSE UNCHANGED <<db, file>>
  /\ JobTo(c, f, IF job[c][f] = "ok" THEN "okpost" ELSE "badpost")
  /\ UNCHANGED <<xfer, conn, loops, events, calls, disk, ghost, up, crashes,
                 msgs>>

\* Done or Fail is pushed, then events.success or events.failed.
JobReport(c, f) ==
  /\ JobAt(c, f, "okpost") \/ JobAt(c, f, "badpost")
  /\ LET good == job[c][f] = "okpost" IN
     /\ reqs' = Push(c, Req(IF good THEN "Done" ELSE "Fail", f))
     /\ Report(terminate_emits(fev[f]), IF good THEN "Completed" ELSE "Failed", f)
     /\ fev' = [fev EXCEPT ![f] = terminate(@)]
  /\ JobTo(c, f, "end")
  /\ UNCHANGED <<mgr, loop, pc, held, xev, calls, disk, ghost, up, crashes,
                 msgs>>

-----------------------------------------------------------------------------
(* API calls; the FFI layer lets one in at a time.                         *)

Calls(k) == up /\ api = ApiIdle /\ k \in ApiCalls

\* Mutant: the connection is not told of the download.
ApiDownload_Unsent(f) ==
  /\ Calls("download")
  /\ Usable
  /\ file[f] = "Idle"
  /\ Report(pending_emits(fev[f]), "Pending", f)
  /\ file' = [file EXCEPT ![f] = "InFlight"]
  /\ db' = start_incoming_file(db, f)
  /\ UNCHANGED <<xfer, conn, loops, jobs, fev, xev, calls, disk, ghost, up, crashes, msgs>>

\* Service::download of a file that is Idle (otherwise it changes nothing).
ApiDownload(f) ==
  /\ Calls("download")
  /\ Usable
  /\ file[f] = "Idle"
  /\ Report(pending_emits(fev[f]), "Pending", f)
  /\ file' = [file EXCEPT ![f] = "InFlight"]
  /\ db' = start_incoming_file(db, f)
  /\ reqs' = Push(conn, Req("Download", f))
  /\ UNCHANGED <<xfer, conn, loop, pc, held, jobs, fev, xev, calls, disk, ghost, up, crashes, msgs>>

\* Service::reject, first half: incoming_rejection_post.
ApiReject(f) ==
  /\ Calls("reject")
  /\ Usable
  /\ file[f] \notin Terminal
  /\ Terminate(f, "Rejected")
  /\ reqs' = Push(conn, Req("Reject", f))
  /\ api' = [op |-> "reject", f |-> f]
  /\ UNCHANGED <<xfer, conn, loop, pc, held, jobs, events, chk, disk, ghost, up, crashes, msgs>>

\* Second half: the temporary file is removed and the event sent.
ApiRejectEmit ==
  /\ up
  /\ api.op = "reject"
  /\ temp' = temp \ {api.f}
  /\ Report(terminate_emits(fev[api.f]), "Rejected", api.f)
  /\ fev' = [fev EXCEPT ![api.f] = terminate(@)]
  /\ api' = ApiIdle
  /\ UNCHANGED <<mgr, loops, jobs, xev, chk, placed, ghost, up, crashes, msgs>>

\* Mutant: the canceled state is kept in memory only.
ApiCancel_Unsynced ==
  /\ Calls("cancel")
  /\ Usable
  /\ xfer' = "Canceled"
  /\ reqs' = Push(conn, Close)
  /\ conn' = NoConn
  /\ file' = [f \in Files |-> IF file[f] = "InFlight" THEN "Idle" ELSE file[f]]
  /\ api' = [op |-> "cancel", f |-> NoFile]
  /\ UNCHANGED <<db, loop, pc, held, jobs, events, chk, disk, ghost, up, crashes, msgs>>

\* Service::cancel_all, first half: incoming_issue_close.
ApiCancel ==
  /\ Calls("cancel")
  /\ Usable
  /\ db' = update_transfer_sync_states(db, "Canceled")
  /\ xfer' = "Canceled"
  /\ reqs' = Push(conn, Close)
  /\ conn' = NoConn
  /\ file' = [f \in Files |-> IF file[f] = "InFlight" THEN "Idle" ELSE file[f]]
  /\ api' = [op |-> "cancel", f |-> NoFile]
  /\ UNCHANGED <<loop, pc, held, jobs, events, chk, disk, ghost, up, crashes, msgs>>

\* Mutant: the gate of the transfer is closed before the event.
ApiCancelEmit_Swapped ==
  /\ up
  /\ api.op = "cancel"
  /\ fev' = [f \in Files |-> stop(fev[f])]
  /\ Report(finish_emits(finish(xev)), "Canceled", NoFile)
  /\ xev' = finish(xev)
  /\ api' = ApiIdle
  /\ UNCHANGED <<mgr, loops, jobs, chk, disk, ghost, up, crashes, msgs>>

\* Second half: all gates are opened silently, then the event.
ApiCancelEmit ==
  /\ up
  /\ api.op = "cancel"
  /\ fev' = [f \in Files |-> stop(fev[f])]
  /\ Report(finish_emits(xev), "Canceled", NoFile)
  /\ xev' = finish(xev)
  /\ api' = ApiIdle
  /\ UNCHANGED <<mgr, loops, jobs, chk, disk, ghost, up, crashes, msgs>>

\* purge_transfers of a transfer that can be purged.
ApiPurge ==
  /\ Calls("purge")
  /\ purge_transfers(db) # db
  /\ db' = purge_transfers(db)
  /\ purged' = TRUE
  /\ UNCHANGED <<xfer, file, conn, loops, jobs, events, calls, disk, told, cancels,
                 up, crashes, msgs>>

-----------------------------------------------------------------------------
(* check.rs: the transfer is not alive here any more, or the sender        *)
(* answers GONE.                                                           *)

\* is_incoming_alive is false: canceled here, or gone.  incoming_remove hands
\* out the state to the first caller only.
CheckDead ==
  /\ up
  /\ chk = "run"
  /\ ~Usable
  /\ IF xfer = "Absent" THEN /\ chk' = "off"
                             /\ UNCHANGED mgr
                        ELSE /\ chk' = "dead"
                             /\ Remove
  /\ UNCHANGED <<loops, jobs, events, api, disk, ghost, up, crashes, msgs>>

\* The sender answers GONE.  (A transfer that was canceled or removed while
\* the question was under way is taken care of as by CheckDead.)
CheckGone ==
  /\ up
  /\ chk = "run"
  /\ Usable
  /\ Remove
  /\ chk' = "gone"
  /\ UNCHANGED <<loops, jobs, events, api, disk, ghost, up, crashes, msgs>>

\* cancel(true), whatever the reason was.
CheckEmit ==
  /\ up
  /\ chk \in {"dead", "gone"}
  /\ Report(finish_emits(xev), "CanceledByPeer", NoFile)
  /\ xev' = finish(xev)
  /\ chk' = "off"
  /\ UNCHANGED <<mgr, loops, jobs, fev, api, disk, ghost, up, crashes, msgs>>

-----------------------------------------------------------------------------
(* The event task: store the event, then call the application.             *)

Cancelation == {"Canceled", "CanceledByPeer"}

StoredBy(e) ==
  CASE e.k \in Verdicts   -> insert_path_state(db, e.f, e.k)
    [] e.k \in Cancelation -> insert_transfer_cancel_state(db)
    [] OTHER              -> db

EventTask ==
  /\ up
  /\ evq # <<>>
  /\ LET e == Head(evq) IN
     /\ db' = StoredBy(e)
     /\ told' = IF e.k \in Verdicts THEN [told EXCEPT ![e.f] = @ \cup {e.k}] ELSE told
     /\ cancels' = IF e.k \in Cancelation THEN cancels + 1 ELSE cancels
  /\ evq' = Tail(evq)
  /\ UNCHANGED <<xfer, file, conn, loops, jobs, fev, xev, calls, disk, purged, up, crashes, msgs>>

-----------------------------------------------------------------------------
(* The process is killed.  What is in memory is lost.                      *)

Down ==
  /\ up
  /\ crashes < MaxCrashes
  /\ crashes' = crashes + 1
  /\ up' = FALSE
  /\ xfer' = "Absent"
  /\ file' = [f \in Files |-> "Idle"]
  /\ conn' = NoConn
  /\ loop' = [c \in Conns |-> IF loop[c] = "off" THEN "off" ELSE "dead"]
  /\ pc' = [c \in Conns |-> Select]
  /\ reqs' = [c \in Conns |-> <<>>]
  /\ held' = [c \in Conns |-> {}]
  /\ job' = [c \in Conns |-> [f \in Files |-> "none"]]
  /\ aborted' = [c \in Conns |-> {}]
  /\ fev' = [f \in Files |-> "Idle"]
  /\ xev' = "Ongoing"
  /\ evq' = <<>>
  /\ api' = ApiIdle
  /\ chk' = "off"
  /\ UNCHANGED <<disk, ghost, msgs>>

Crash == Down /\ UNCHANGED db

\* Between insert_transfer and update_transfer_sync_states.
CrashInRegister ==
  /\ \E c \in Conns : Fresh(c)
  /\ xfer = "Absent"
  /\ inserts_transfer(db)
  /\ Down
  /\ db' = insert_transfer(db)

\* Between update_incoming_file_sync_states and stop_incoming_file, in an API
\* call, in a job or in the handler of a message.
CrashInTerminate(f) ==
  /\ xfer # "Absent"
  /\ file[f] \notin Terminal
  /\ \/ Calls("reject") /\ Usable
     \/ Usable /\ \E c \in Conns : job[c][f] \in {"ok", "bad"}
     \/ /\ PeerMsgs \cap {"Reject", "Error"} # {}
        /\ msgs < MaxMsgs
        /\ \E c \in Conns : Selecting(c) /\ reqs[c] = <<>>
  /\ Down
  /\ db' = update_file_sync_states(db, f)

\* Between the row and the call of the application.
CrashInEventTask ==
  /\ evq # <<>>
  /\ Down
  /\ db' = StoredBy(Head(evq))

\* Service::start: cleanup_garbage_transfers, restore_incoming, resume.
RestoredFile(d, f) ==
  CASE IsRestoredTerminal(d, f)          -> RestoredVerdict(d, f)
    [] f \in incoming_files_to_resume(d) /\ ~IsRestoredTerminal(d, f) -> "InFlight"
    [] OTHER                             -> "Idle"

Restart ==
  /\ ~up
  /\ up' = TRUE
  /\ db' = cleanup_garbage_transfers(db)
  /\ IF db'.sync = "None"
     THEN UNCHANGED <<xfer, file, xev, chk>>
     ELSE /\ xfer' = db'.sync
          /\ file' = [f \in Files |-> RestoredFile(db', f)]
          /\ xev' = transfer_gate(db'.sync = "Canceled")
          /\ chk' = "run"
  /\ UNCHANGED <<conn, loops, jobs, fev, evq, api, disk, ghost, crashes, msgs>>

-----------------------------------------------------------------------------
Connection(c) ==
  \/ RegisterRefused(c) \/ RegisterResume(c) \/ RegisterClosed(c) \/ RegisterNew(c)

Request(c) ==
  \/ OnReqDownload(c) \/ OnReqSend(c) \/ OnReqReject(c) \/ OnReqClose(c)

Message(c) ==
  \/ RecvClose(c)
  \/ \E f \in Files : RecvReject(c, f) \/ RecvError(c, f) \/ RecvCancel(c, f)

\* What a handler does once it is called.
Handler(c) ==
  \/ Drained(c)
  \/ RecvCloseRemove(c) \/ RecvCloseCancel(c)
  \/ RecvRejectStop(c) \/ RecvRejectEmit(c)
  \/ RecvErrorEmit(c) \/ RecvErrorStop(c)

LoopEnd(c) == LoopFinalize(c) \/ Disconnect(c)

Job(c, f) ==
  \/ JobAborted(c, f) \/ JobPreflight(c, f) \/ JobStart(c, f)
  \/ JobPlace(c, f) \/ JobCanceled(c, f) \/ JobFail(c, f)

Detached(c, f) == JobPost(c, f) \/ JobReport(c, f)

Api ==
  \/ \E f \in Files : ApiDownload(f) \/ ApiReject(f)
  \/ ApiCancel \/ ApiPurge

ApiRest == ApiRejectEmit \/ ApiCancelEmit

Check == CheckDead \/ CheckGone \/ CheckEmit

CrashAny == Crash \/ CrashInRegister \/ CrashInEventTask \/ \E f \in Files : CrashInTerminate(f)

Next ==
  \/ \E c \in Conns :
       \/ Connection(c) \/ Request(c) \/ Message(c) \/ LinkBroken(c) \/ Handler(c)
       \/ LoopEnd(c)
       \/ \E f \in Files : Job(c, f) \/ Detached(c, f)
  \/ Api \/ ApiRest \/ Check \/ EventTask
  \/ CrashAny \/ Restart

Spec == Init /\ [][Next]_vars

-----------------------------------------------------------------------------
(* Safety.                                                                 *)

\* A restart at any moment rebuilds what the manager has in memory: the same
\* transfer state, the same files in flight, and a terminal file as terminal.
\* (manager.rs: every operation writes the database before it gives up the
\* lock, restore_incoming reads it back.)
RestoreFaithful ==
  up => /\ xfer = IF db.sync = "None" THEN "Absent" ELSE db.sync
        /\ \A f \in Files :
             /\ xfer # "Absent" /\ file[f] \in Terminal => IsRestoredTerminal(db, f)
             /\ Usable /\ IsRestoredTerminal(db, f) => file[f] \in Terminal
             /\ Usable => (file[f] = "InFlight" <=> RestoredFile(db, f) = "InFlight")

\* What is reported as completed, to the application, in the database, in the
\* manager or to the sender (Done), is at its destination on disk.
CompletedOnDisk ==
  \A f \in Files :
    \/ file[f] = "Completed"
    \/ "Completed" \in db.hist[f] \cup told[f]
    \/ \E c \in Conns : Req("Done", f) \in Range(reqs[c])
    => f \in placed

\* Once the application was told a file's verdict, the file cannot be
\* downloaded again, not after a crash either (unless it purged the transfer).
ToldVerdictIsFinal ==
  \A f \in Files : up /\ Usable /\ told[f] # {} /\ ~purged => file[f] \in Terminal

\* Once the application was told that the transfer is canceled it does not
\* come back: not by a restart, and not when the sender offers it again.
CanceledStaysCanceled ==
  cancels > 0 /\ ~purged =>
    /\ ~Usable
    /\ db.sync \in {"None", "Canceled"}
    /\ ~inserts_transfer(db)

\* ... and it is told so once, whoever of the API call, the close frame and
\* the checking job was first, and however often the process was restarted.
CancelReportedOnce == ~purged => cancels <= 1

\* A download asked for is never forgotten while its connection is up and not
\* being closed: it is in the queue of the registered loop, or that loop has a
\* job for it.
DownloadNotForgotten ==
  \A c \in Conns, f \in Files :
    up /\ conn = c /\ loop[c] = "run" /\ pc[c].op # "remove" /\ file[f] = "InFlight" =>
      \/ Req("Download", f) \in Range(reqs[c])
      \/ job[c][f] \in Abortable \cup {"ok", "bad"}

\* When no connection is left, no unfinished file is shown as being
\* transferred: its gate was paused.
PausedWhenOffline ==
  \A f \in Files :
    up /\ file[f] = "InFlight" /\ (\A c \in Conns : loop[c] \in {"off", "fin", "dead"})
      => fev[f] \notin {"Preflight", "InFlight"}

\* A verdict is decided once: no race of reject(), the download job, the
\* sender's messages, cancel_all and the end of a connection changes the
\* verdict of a file while the process lives and the transfer is in the map.
VerdictNeverFlips ==
  [][\A f \in Files : file[f] \in Terminal /\ xfer' # "Absent" => file'[f] = file[f]]_vars

-----------------------------------------------------------------------------
(* Progress, while the process is not killed.  The runtime polls every task *)
(* that is ready.  A job that waits for checksums or chunks of the sender is *)
(* not: it waits without a timeout, and the pongs keep its connection alive, *)
(* so neither that it gets on nor that it fails is taken for granted.  It    *)
(* does end when it is aborted or when its channels are dropped.             *)

JobReady(c, f) ==
  \/ JobAborted(c, f) \/ JobPreflight(c, f)
  \/ f \notin held[c] /\ JobCanceled(c, f)

Fairness ==
  /\ WF_vars(EventTask)
  /\ WF_vars(ApiRest)
  /\ WF_vars(CheckEmit)
  /\ \A c \in Conns :
       /\ WF_vars(Request(c))
       /\ WF_vars(Handler(c))
       /\ WF_vars(LoopEnd(c))
       /\ \A f \in Files : WF_vars(JobReady(c, f)) /\ WF_vars(Detached(c, f))

FairSpec == Spec /\ Fairness

\* The application learns the fate of every file: once a file has ended in the
\* manager a verdict on it is reported, whoever ended it.
VerdictReported == \A f \in Files : file[f] \in Terminal ~> told[f] # {}

\* A transfer that the application cancels or that disappears from the map is
\* reported as canceled: the close frame, the API and the checking job leave
\* it to each other, but never all of them.
CancelReported ==
  (xfer = "Canceled" \/ (xfer = "Absent" /\ db.row)) ~> cancels > 0

\* A download that was asked for does not wait in the queue of the connection's loop
\* for ever: a job looks at its temporary file, or the file has its verdict, or the
\* connection or the transfer is over.  (Whether the job then gets its chunks is the
\* sender's affair.)
DownloadTaken ==
  \A c \in Conns, f \in Files :
    (file[f] = "InFlight" /\ conn = c /\ loop[c] = "run")
      ~> \/ job[c][f] \in {"preflight", "stream", "ok", "bad"}
         \/ file[f] # "InFlight" \/ conn # c \/ loop[c] # "run"

-----------------------------------------------------------------------------
(***************************************************************************)
(* The refinement mapping.  While the process runs, the manager's map is   *)
(* what counts; while it does not, what the next start will make of the    *)
(* database.                                                               *)
(***************************************************************************)
Sync == IF up THEN xfer ELSE IF db.sync = "None" THEN "Absent" ELSE db.sync

Life == CASE Sync = "Canceled" -> "canceled"
          [] Sync = "Absent"   -> IF db.row THEN "over" ELSE "none"
          [] OTHER             -> "open"

Settled == IF Sync = "Absent" THEN {}
           ELSE {f \in Files : IF up THEN file[f] \in Terminal ELSE IsRestoredTerminal(db, f)}

Wanted == IF Life # "open" THEN {}
          ELSE {f \in Files : IF up THEN file[f] = "InFlight" ELSE RestoredFile(db, f) = "InFlight"}

Durable == INSTANCE DurableTransfer WITH life <- Life, settled <- Settled, wanted <- Wanted

\* The receiving side is a durable transfer: no crash, not one between two database
\* writes either, and no restart loses a verdict, a download that was asked for or a
\* cancelation, or brings a transfer back that is over.
IsDurable == Durable!Spec
=============================================================================
