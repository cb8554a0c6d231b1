------------------------------- MODULE Events -------------------------------
(***************************************************************************)
(* The gates through which libdrop reports to the application              *)
(* (drop-transfer/src/ws/events.rs): one FileEventTx per file and one      *)
(* TransferEventTx per transfer.  Each is a small automaton behind a       *)
(* mutex; for every call there is the state it leaves behind and whether   *)
(* it puts its event on the queue to the application.                      *)
(***************************************************************************)
EXTENDS Sequences

\* FileEventTxInner.state
FileState == {"Idle", "Throttled", "Preflight", "InFlight", "Terminal"}

\* TransferEventTxInner.state
TransferState == {"Ongoing", "Terminated"}

\* emit: append to the channel of the event task when the gate lets it pass.
Emit(q, passes, e) == IF passes THEN Append(q, e) ELSE q

-----------------------------------------------------------------------------
\* FileEventTx::pending changes nothing; it reports from Idle only.
pending_emits(s) == s = "Idle"

\* FileEventTx::preflight overwrites whatever state there was.
preflight(s) == "Preflight"

\* FileEventTx::start_inner
start(s)       == IF s = "Terminal" THEN s ELSE "InFlight"
start_emits(s) == s # "Terminal"

\* FileEventTx::emit_in_flight (progress) keeps the state.
in_flight_emits(s) == s \in {"Preflight", "InFlight"}

\* Mutant: the gate remembers the pause.
stop_Sticky(s) == "Paused"

\* FileEventTx::stop (pause) and stop_silent: mem::replace puts Idle in place
\* before the old state is looked at, so a Terminal gate is opened again.
stop(s)       == "Idle"
stop_emits(s) == s \notin {"Idle", "Terminal"}

\* FileEventTx::terminate (rejected, failed, success)
terminate(s)       == "Terminal"
terminate_emits(s) == s # "Terminal"

\* FileEventTx::throttled
throttled(s)       == IF s = "Idle" THEN "Throttled" ELSE s
throttled_emits(s) == s = "Idle"

-----------------------------------------------------------------------------
\* TransferEventTx::emit_ongoing (received, queued, deferred) keeps the state.
ongoing_emits(s) == s = "Ongoing"

\* TransferEventTx::stop and failed: the first caller reports.
finish(s)       == "Terminated"
finish_emits(s) == s = "Ongoing"

\* Mutant: the gate of a restored transfer is open, canceled or not.
transfer_gate_Open(blocked) == "Ongoing"

\* EventTxFactory::transfer(xfer, blocked)
transfer_gate(blocked) == IF blocked THEN "Terminated" ELSE "Ongoing"
=============================================================================
