------------------------------ MODULE History ------------------------------
(***************************************************************************)
(* What the application is told about one transfer, what drop-storage      *)
(* keeps of it, and what transfers_since says later.                       *)
(*                                                                         *)
(* The gates of the files (module Events) put events on a queue.  One task *)
(* takes them off: it first lets StorageDispatch write the state row, then *)
(* calls the application.  The state rows lie in one table per kind, each  *)
(* row with the wall-clock millisecond of its commit; transfers_since puts *)
(* them together again by sorting.  The process may be killed between any  *)
(* two of these steps.                                                     *)
(*                                                                         *)
(* When the jobs and loops call the gates is the business of Incoming and  *)
(* Outgoing: here they call them in any order, each in its own step after  *)
(* the bytes, the messages or the manager's tables have changed.           *)
(***************************************************************************)
EXTENDS Events, Integers, FiniteSets, SequencesExt

CONSTANTS Files, NoFile,
          Dirs,        \* directions of the transfer that are looked at
          Size,        \* bytes of every file
          Threshold,   \* REPORT_PROGRESS_THRESHOLD: bytes between two reports
          MaxEvents,   \* bound: events and crashes together
          MaxPending,  \* bound: downloads asked for, per file
          MaxCrashes   \* bound: times the process is killed

ASSUME SizesAssumption == Size \in Nat \ {0} /\ Threshold \in Nat \ {0} /\ MaxEvents \in Nat
                          /\ MaxPending \in Nat /\ MaxCrashes \in Nat
ASSUME DirsAssumption == Dirs \subseteq {"Incoming", "Outgoing"}
ASSUME NoFileAssumption == NoFile \notin Files

VARIABLES
  dir,       \* "Incoming" or "Outgoing": never changes
  gate,      \* FileEventTx of each file
  xgate,     \* TransferEventTx
  job,       \* the receiver's job of each file
  moved,     \* bytes of each file on the receiver's disk
  last,      \* last_progress of the job; outgoing: the last report that came
  posts,     \* verdicts whose gate is still to be called, <<file, verdict>>
  held,      \* this process has gates of the transfer
  settled,   \* files with a verdict in the sync tables
  canceled,  \* the sync row of the transfer says Canceled
  synced,    \* the sync row of the transfer is gone
  queue,     \* events on their way to the event task
  task,      \* the event that is stored and not dispatched yet, or Idle
  progress,  \* StorageDispatch.file_progress of the transfer
  rows,      \* the state rows of each file, in the order of their commits
  over,      \* a row of transfer_cancel_states or transfer_failed_states
  xrow,      \* the row of transfers: "live", "deleted" or "gone"
  hidden,    \* files whose path row is marked is_deleted
  clock,     \* wall-clock milliseconds
  up, crashes, emitted,
  told,      \* ghost: file states the application was told, in order
  reported,  \* ghost: the bytes of the last Started or Progress that passed the gate
  whole      \* ghost: files of which every byte was across once

gates == <<gate, xgate>>
bytes == <<job, moved, last, reported, whole>>
disk  == <<settled, canceled, synced>>
store == <<rows, over, xrow, hidden, clock>>
vars  == <<dir, gates, bytes, posts, held, disk, queue, task, progress, store, up, crashes,
           emitted, told>>

Final  == {"Rejected", "Failed", "Completed"}
Stored == Final \cup {"Started", "Paused"}

\* "Checks": the job looks at the temporary file; "Opens": it has started and its first
\* report is due; "Streams": it takes chunks.
JobState == {"None", "Checks", "Opens", "Streams"}

\* "real" is a ghost: the bytes that were last reported when the event was emitted.
Event == [kind : Stored \cup {"Progress", "Canceled"}, file : Files \cup {NoFile},
          bytes : 0 .. Size, real : 0 .. Size]
Row   == [kind : Stored \cup {"Pending"}, at : Nat, bytes : 0 .. Size, real : 0 .. Size]

Idle == [kind |-> "Idle"]

TypeOK ==
  /\ dir \in {"Incoming", "Outgoing"}
  /\ gate \in [Files -> FileState] /\ xgate \in TransferState
  /\ job \in [Files -> JobState]
  /\ moved \in [Files -> 0 .. Size] /\ last \in [Files -> 0 .. Size]
  /\ posts \subseteq Files \X Final /\ held \in BOOLEAN
  /\ reported \in [Files -> 0 .. Size] /\ whole \subseteq Files
  /\ settled \subseteq Files /\ canceled \in BOOLEAN /\ synced \in BOOLEAN
  /\ \A i \in DOMAIN queue : queue[i] \in Event
  /\ task \in Event \cup {Idle}
  /\ DOMAIN progress \subseteq Files /\ \A f \in DOMAIN progress : progress[f] \in 0 .. Size
  /\ \A f \in Files : \A i \in DOMAIN rows[f] : rows[f][i] \in Row
  /\ over \in BOOLEAN /\ xrow \in {"live", "deleted", "gone"} /\ hidden \subseteq Files
  /\ clock \in Nat /\ up \in BOOLEAN /\ crashes \in Nat /\ emitted \in Nat
  /\ \A f \in Files : Range(told[f]) \subseteq Stored

Init ==
  /\ dir \in Dirs
  /\ gate = [f \in Files |-> "Idle"] /\ xgate = "Ongoing"
  /\ job = [f \in Files |-> "None"]
  /\ moved = [f \in Files |-> 0] /\ last = moved /\ reported = moved
  /\ posts = {} /\ held = TRUE /\ whole = {}
  /\ settled = {} /\ canceled = FALSE /\ synced = FALSE
  /\ queue = <<>> /\ task = Idle /\ progress = [f \in {} |-> 0]
  /\ rows = [f \in Files |-> <<>>]
  /\ over = FALSE /\ xrow = "live" /\ hidden = {} /\ clock = 0
  /\ up = TRUE /\ crashes = 0 /\ emitted = 0
  /\ told = [f \in Files |-> <<>>]

-----------------------------------------------------------------------------
(* The gates are called. *)

Ev(k, f, b) ==
  [kind |-> k, file |-> f, bytes |-> b, real |-> IF f = NoFile THEN 0 ELSE reported'[f]]

\* Bound: a verdict that is posted and a crash count among the MaxEvents; when they are
\* used up, the gates are left alone.
Room == emitted + Cardinality(posts) + crashes < MaxEvents

Emits(passes, e) ==
  /\ queue' = Emit(queue, passes, e)
  /\ emitted' = IF passes THEN emitted + 1 ELSE emitted

\* A row is committed at wall-clock millisecond t; two rows may share one.
Commit(f, k, b, r) ==
  \E t \in {clock, clock + 1} :
    /\ clock' = t
    /\ rows' = [rows EXCEPT ![f] =
         IF xrow = "gone" THEN @
         ELSE Append(@, [kind |-> k, at |-> t, bytes |-> b, real |-> r])]

\* Service::download: start_incoming_file writes the Pending row itself, past the
\* queue.  Its event, FileDownloadPending, is not stored; it is only counted here.
ApiDownload(f) ==
  /\ up /\ dir = "Incoming" /\ ~synced /\ ~canceled /\ f \notin settled /\ Room
  /\ Len(SelectSeq(rows[f], LAMBDA r : r.kind = "Pending")) < MaxPending
  /\ Commit(f, "Pending", 0, 0)
  /\ emitted' = emitted + 1
  /\ UNCHANGED <<dir, gates, bytes, posts, held, disk, queue, task, progress, over, xrow,
                 hidden, up, crashes, told>>

\* A download looks at the temporary file before it starts.  The gate is overwritten.
Preflight(f) ==
  /\ up /\ held /\ dir = "Incoming" /\ Room
  /\ job' = [job EXCEPT ![f] = "Checks"]
  /\ last' = [last EXCEPT ![f] = 0]
  /\ gate' = [gate EXCEPT ![f] = preflight(@)]
  /\ UNCHANGED <<dir, xgate, moved, reported, whole, posts, held, disk, queue, task,
                 progress, store, up, crashes, emitted, told>>

\* An upload waits for a permit; the event is not stored.
Throttle(f) ==
  /\ up /\ held /\ dir = "Outgoing" /\ Room
  /\ gate' = [gate EXCEPT ![f] = throttled(@)]
  /\ UNCHANGED <<dir, xgate, bytes, posts, held, disk, queue, task, progress, store, up,
                 crashes, emitted, told>>

\* The bytes below the offset are kept, the others come again.  The Progress event
\* that follows at the offset is a step of Progress.
Start(f, offset) ==
  /\ up /\ held /\ Room
  /\ dir = "Incoming" => job[f] = "Checks"
  /\ offset <= moved[f]
  /\ job' = [job EXCEPT ![f] = "Opens"]
  /\ moved' = [moved EXCEPT ![f] = offset]
  /\ last' = [last EXCEPT ![f] = offset]
  /\ gate' = [gate EXCEPT ![f] = start(@)]
  /\ reported' = IF start_emits(gate[f]) THEN [reported EXCEPT ![f] = offset] ELSE reported
  /\ Emits(start_emits(gate[f]), Ev("Started", f, offset))
  /\ UNCHANGED <<dir, xgate, whole, posts, held, disk, task, progress, store, up, crashes, told>>

\* The job owes a report: the first one, at the offset, or the threshold is passed.
Due(f) == job[f] = "Opens" \/ last[f] + Threshold <= moved[f]

\* A chunk is written.  The receiving job takes the next one only after it has made the
\* report it owes; at the other end of an outgoing transfer it runs at its own pace.
Chunk(f, n) ==
  /\ moved[f] + n <= Size /\ Room
  /\ IF dir = "Incoming" THEN up /\ job[f] = "Streams" /\ ~Due(f) ELSE job[f] # "None"
  /\ moved' = [moved EXCEPT ![f] = @ + n]
  /\ whole' = IF moved'[f] = Size THEN whole \cup {f} ELSE whole
  /\ UNCHANGED <<dir, gates, job, last, reported, posts, held, disk, queue, task, progress,
                 store, up, crashes, emitted, told>>

\* The job reports what it has written; an outgoing transfer hears of it by a message
\* that may be late, never out of order.  emit_in_flight lets it pass or not.
Progress(f, b) ==
  /\ up /\ held /\ Room /\ job[f] # "None" /\ b <= moved[f]
  /\ IF dir = "Incoming" THEN b = moved[f] /\ job[f] # "Checks" /\ Due(f) ELSE last[f] <= b
  /\ job' = [job EXCEPT ![f] = "Streams"]
  /\ last' = [last EXCEPT ![f] = b]
  /\ reported' = IF in_flight_emits(gate[f]) THEN [reported EXCEPT ![f] = b] ELSE reported
  /\ Emits(in_flight_emits(gate[f]), Ev("Progress", f, b))
  /\ UNCHANGED <<dir, gates, moved, whole, posts, held, disk, task, progress, store, up,
                 crashes, told>>

\* The connection is lost, or the peer calls the file off.  The job is aborted without
\* waiting for it: it may still write what it has in hand.
Pause(f) ==
  /\ up /\ held /\ Room
  /\ UNCHANGED bytes
  /\ gate' = [gate EXCEPT ![f] = stop(@)]
  /\ Emits(stop_emits(gate[f]), Ev("Paused", f, 0))
  /\ UNCHANGED <<dir, xgate, posts, held, disk, task, progress, store, up, crashes, told>>

\* stop_silent: the file is rejected or has failed, or its loop ends in good order.
StopSilent(f) ==
  /\ up /\ held /\ Room
  /\ gate' = [gate EXCEPT ![f] = stop(@)]
  /\ UNCHANGED <<dir, xgate, bytes, posts, held, disk, queue, task, progress, store, up,
                 crashes, emitted, told>>

\* The end of a download job posts the result; the gate is called also if the manager
\* does not take it.
JobEnds(f, v) ==
  /\ up /\ held /\ dir = "Incoming" /\ v # "Rejected" /\ Room
  /\ v = "Completed" => job[f] = "Streams" /\ moved[f] = Size
  /\ job' = [job EXCEPT ![f] = "None"]
  /\ last' = [last EXCEPT ![f] = 0]
  /\ settled' = IF synced \/ canceled THEN settled ELSE settled \cup {f}
  /\ posts' = posts \cup {<<f, v>>}
  /\ UNCHANGED <<dir, gates, moved, reported, whole, held, canceled, synced, queue, task,
                 progress, store, up, crashes, emitted, told>>

\* A verdict of the application, of the peer or of a failed upload: the first one is
\* taken.  The receiver says Done, again after a reconnect, once it has every byte.
Post(f, v) ==
  /\ up /\ held /\ ~synced /\ f \notin settled /\ Room
  /\ v = "Completed" => dir = "Outgoing" /\ f \in whole
  /\ settled' = settled \cup {f}
  /\ posts' = posts \cup {<<f, v>>}
  /\ UNCHANGED <<dir, gates, bytes, held, canceled, synced, queue, task, progress, store, up,
                 crashes, emitted, told>>

\* rejected, failed and success: terminate, from whatever state the gate is in by now.
Verdict(f, v) ==
  /\ up /\ <<f, v>> \in posts
  /\ posts' = posts \ {<<f, v>>}
  /\ UNCHANGED bytes
  /\ gate' = [gate EXCEPT ![f] = terminate(@)]
  /\ Emits(terminate_emits(gate[f]), Ev(v, f, 0))
  /\ UNCHANGED <<dir, xgate, held, disk, task, progress, store, up, crashes, told>>

\* cancel_all (and, but for the gates of the files, the failure of an outgoing transfer,
\* which ends in transfer_failed_states): the sync row, then every file's gate is
\* stopped, then the transfer's gate reports.
Cancel ==
  /\ up /\ ~canceled /\ Room
  /\ UNCHANGED bytes
  /\ canceled' = TRUE
  /\ gate' = [f \in Files |-> stop(gate[f])]
  /\ xgate' = finish(xgate)
  /\ Emits(finish_emits(xgate), Ev("Canceled", NoFile, 0))
  /\ UNCHANGED <<dir, posts, held, settled, synced, task, progress, store, up, crashes, told>>

\* Both sides know of the cancelation: transfer_sync_clear.
SyncClear ==
  /\ up /\ canceled /\ ~synced
  /\ synced' = TRUE
  /\ UNCHANGED <<dir, gates, bytes, posts, held, settled, canceled, queue, task, progress,
                 store, up, crashes, emitted, told>>

-----------------------------------------------------------------------------
(* The event task of NordDropFFI::start. *)

\* Mutant: progress is added up.
store_progress_Sum(p, f, b) ==
  [g \in DOMAIN p \cup {f} |-> (IF g = f THEN b ELSE 0) + (IF g \in DOMAIN p THEN p[g] ELSE 0)]

store_progress(p, f, b) == [g \in DOMAIN p \cup {f} |-> IF g = f THEN b ELSE p[g]]

\* get_file_progress takes the entry out.
progress_of(p, f) == IF f \in DOMAIN p THEN p[f] ELSE 0
forget(p, f)      == [g \in DOMAIN p \ {f} |-> p[g]]

NoProgress == [f \in {} |-> 0]

\* StorageDispatch::handle_event
handle_event(e) ==
  \/ /\ e.kind = "Started"
     /\ progress' = store_progress(progress, e.file, e.bytes)
     /\ Commit(e.file, "Started", e.bytes, e.real)
     /\ UNCHANGED over
  \/ /\ e.kind = "Progress"
     /\ progress' = store_progress(progress, e.file, e.bytes)
     /\ UNCHANGED <<rows, clock, over>>
  \/ /\ e.kind = "Completed"
     /\ Commit(e.file, "Completed", Size, e.real)
     /\ UNCHANGED <<progress, over>>
  \/ /\ e.kind \in {"Failed", "Rejected", "Paused"}
     /\ Commit(e.file, e.kind, progress_of(progress, e.file), e.real)
     /\ progress' = forget(progress, e.file)
     /\ UNCHANGED over
  \/ /\ e.kind = "Canceled"
     /\ over' = (over \/ xrow # "gone")
     /\ progress' = NoProgress
     /\ UNCHANGED <<rows, clock>>

HandleEvent ==
  /\ up /\ task = Idle /\ queue # <<>>
  /\ handle_event(Head(queue))
  /\ task' = Head(queue)
  /\ queue' = Tail(queue)
  /\ UNCHANGED <<dir, gates, bytes, posts, held, disk, xrow, hidden, up, crashes, emitted, told>>

\* EventDispatcher::dispatch, in order, one at a time.
Dispatch ==
  /\ up /\ task # Idle
  /\ told' = IF task.kind \notin Stored THEN told
             ELSE [told EXCEPT ![task.file] = Append(@, task.kind)]
  /\ task' = Idle
  /\ UNCHANGED <<dir, gates, bytes, posts, held, disk, queue, progress, store, up, crashes,
                 emitted>>

-----------------------------------------------------------------------------
(* The application asks for its history, or drops parts of it. *)

Tables == <<"Pending", "Started", "Failed", "Completed", "Rejected", "Paused">>

\* SELECT ... UNION ALL: the tables one after the other, each in the order of its rows.
UnionAll(f) ==
  FlattenSeq([i \in DOMAIN Tables |-> SelectSeq(rows[f], LAMBDA r : r.kind = Tables[i])])

\* Mutant: the union is taken as it comes.
SortByCreatedAt_Union(s) == s

\* states.sort_by(created_at): stable.
SortByCreatedAt(s) ==
  FlattenSeq([t \in 1 .. clock + 1 |-> SelectSeq(s, LAMBDA r : r.at = t - 1)])

\* The states transfers_since returns of a file.
StatesOf(f) == IF xrow # "live" \/ f \in hidden THEN <<>> ELSE SortByCreatedAt(UnionAll(f))

\* bytes_received and bytes_sent of the report: Pending rows say nothing.
LastOf(f) ==
  LET s == SelectSeq(StatesOf(f), LAMBDA r : r.kind # "Pending")
  IN IF s = <<>> THEN [kind |-> "None", at |-> 0, bytes |-> 0, real |-> 0] ELSE Last(s)

BytesOf(f) == IF LastOf(f).kind = "Completed" THEN Size ELSE LastOf(f).bytes

\* purge_transfers and purge_transfers_until
ApiPurge ==
  /\ up /\ xrow = "live" /\ over
  /\ xrow' = "deleted"
  /\ UNCHANGED <<dir, gates, bytes, posts, held, disk, queue, task, progress, rows, over,
                 hidden, clock, up, crashes, emitted, told>>

\* remove_transfer_file: only a path with a final state row.
ApiRemoveFile(f) ==
  /\ up /\ f \notin hidden
  /\ \E i \in DOMAIN rows[f] : rows[f][i].kind \in Final
  /\ hidden' = hidden \cup {f}
  /\ UNCHANGED <<dir, gates, bytes, posts, held, disk, queue, task, progress, rows, over,
                 xrow, clock, up, crashes, emitted, told>>

-----------------------------------------------------------------------------
(* The process is killed and started again. *)

Crash ==
  /\ up /\ crashes < MaxCrashes
  /\ up' = FALSE
  /\ crashes' = crashes + 1
  /\ queue' = <<>> /\ task' = Idle /\ progress' = NoProgress
  /\ posts' = {}
  /\ job' = IF dir = "Incoming" THEN [f \in Files |-> "None"] ELSE job
  /\ UNCHANGED <<dir, gates, moved, last, reported, whole, held, disk, store, emitted, told>>

\* Service::start: garbage is collected, then gates are made for the transfers that are
\* still in the sync tables.
Restart ==
  /\ ~up
  /\ up' = TRUE
  /\ LET garbage == xrow = "deleted" /\ synced
     IN /\ xrow' = IF garbage THEN "gone" ELSE xrow
        /\ rows' = IF garbage THEN [f \in Files |-> <<>>] ELSE rows
        /\ over' = (over /\ ~garbage)
        /\ hidden' = IF garbage THEN {} ELSE hidden
  /\ gate' = [f \in Files |-> "Idle"]
  /\ xgate' = transfer_gate(canceled)
  /\ held' = ~synced
  /\ UNCHANGED <<dir, bytes, posts, disk, queue, task, progress, clock, crashes, emitted, told>>

Next ==
  \/ \E f \in Files :
       \/ ApiDownload(f) \/ Preflight(f) \/ Throttle(f)
       \/ \E b \in 0 .. Size : Start(f, b) \/ Progress(f, b)
       \/ \E n \in 1 .. Size : Chunk(f, n)
       \/ Pause(f) \/ StopSilent(f) \/ ApiRemoveFile(f)
       \/ \E v \in Final : JobEnds(f, v) \/ Post(f, v) \/ Verdict(f, v)
  \/ Cancel \/ SyncClear \/ HandleEvent \/ Dispatch \/ ApiPurge \/ Crash \/ Restart

Spec == Init /\ [][Next]_vars

-----------------------------------------------------------------------------
(* Properties *)

\* s is t with at most n elements left out.
IsThinned(s, t, n) ==
  \E out \in SUBSET DOMAIN t :
    /\ Len(t) - Len(s) = Cardinality(out)
    /\ Cardinality(out) <= n
    /\ s = [i \in 1 .. Len(s) |-> t[CHOOSE j \in DOMAIN t \ out :
                                     Cardinality({k \in DOMAIN t \ out : k <= j}) = i]]

\* As long as no two rows of a file share a millisecond, transfers_since gives the
\* states of the file in the order in which the application was told them, all of
\* them; it may know of one state more for each time the process was killed between
\* the row and the call, and of the one that is being dispatched.
ReportMatchesTold ==
  \A f \in Files :
    LET times == [i \in DOMAIN rows[f] |-> rows[f][i].at]
        shown == SelectSeq(StatesOf(f), LAMBDA r : r.kind # "Pending")
    IN xrow = "live" /\ f \notin hidden /\ IsInjective(times)
         => IsThinned(told[f], [i \in DOMAIN shown |-> shown[i].kind],
                      crashes + (IF task # Idle /\ task.file = f THEN 1 ELSE 0))

\* The bytes transfers_since gives for a file that has stopped are those of the last
\* report that passed the gate before the state was emitted, however many events were
\* queued in between and whatever was written after it, or they are 0; a file that it
\* calls completed was across as a whole.
BytesNeverInvented ==
  \A f \in Files :
    IF LastOf(f).kind = "Completed" THEN f \in whole ELSE BytesOf(f) \in {0, LastOf(f).real}

\* A transfer that the application has purged is over for good: its gate is closed,
\* also after a restart, and garbage collection takes no row that is still needed to
\* synchronize the cancelation.
PurgedIsOver == xrow # "live" => xgate = "Terminated" /\ canceled /\ (xrow = "gone" => synced)

-----------------------------------------------------------------------------
(* A statement of the interface that the code does not keep. *)

\* norddrop.udl, IncomingPath.bytes_received: "Curently received file bytes".  Of a
\* paused download, which will go on where it stopped, these are at least the bytes
\* that were reported.
BytesNotForgotten ==
  \A f \in Files :
    dir = "Incoming" /\ LastOf(f).kind = "Paused" => BytesOf(f) = LastOf(f).real
=============================================================================
