# A TLA+ model of libdrop

libdrop sends files between peers. A *transfer* is a set of files that one peer
offers and the other downloads file by file, rejects, or cancels as a whole.
Both sides keep the transfer in an SQLite database so that it survives lost
connections and restarts, and both report what happens to the application
through events. This directory holds the model of that machinery, the runs that
check it, and the proofs.

## 1. Inventory

| part | source | state it keeps | operations | hard because |
|---|---|---|---|---|
| storage | `drop-storage` | rows of a transfer: existence, sync state, per-file sync state, in-flight rows, history of states, deleted flag | one SQL transaction per call | a manager operation makes several calls; the process may die between them |
| event gates | `drop-transfer/src/ws/events.rs` | one automaton per file (`Idle`, `Throttled`, `Preflight`, `InFlight`, `Terminal`) and one per transfer | pending, preflight, start, stop, stop_silent, terminate, throttled; received, queued, failed, cancel | called by jobs, handlers and API calls in any order; some calls reopen a closed gate |
| event dispatch and history | `norddrop/src/device.rs`, `storage_dispatch.rs`, `drop-storage` | queue of events, last progress of each file, state rows in one table per kind | store the event, call the application; transfers_since, remove_transfer_file, purge | the stored history decides what a restart rebuilds; it is put together again by wall-clock time |
| manager, receiving side | `manager.rs` | per transfer: sync state, per-file state, registered connection, directory mappings | register, download, reject, finish, terminal message, close, remove, disconnect, restore | one mutex, but the callers act before and after it |
| websocket server | `ws/server/*` | request queue, file tasks, job set | select loop, v6 handler, download jobs with a detached tail | jobs are aborted at awaits, tails are not; loops of two connections may overlap |
| checking job | `check.rs` | none | is the transfer alive here, does the sender answer GONE | races with cancel and with the close frame |
| service API | `service.rs`, `device.rs` | none | start, download, reject, cancel_all, purge | verdict under the lock, event after it |
| manager, sending side | `manager.rs` | as above, without in-flight | insert, connected, reject, failure, terminal message, close, remove, restore | a New transfer is canceled differently from an Active one |
| websocket client | `ws/client/*` | request queue, upload tasks | connect with retries, select loop, v6 handler, upload jobs | lost Done messages, retries, throttling |
| throttling | `ws/client/throttle.rs` | a semaphore of 4 permits | acquire now, or report and wait | abort while waiting |
| retry trigger | `utils.rs` | attempt counter | backoff, reset by network_refresh | last wait has no end |
| authentication | `drop-auth`, `auth.rs`, `server/mod.rs` | nonces of the server, by socket address | challenge, response, for both sides | version fallback, rate limit, lost answers |
| older protocols | `ws/*/v2.rs`, `ws/*/v4.rs` | as v6 | v1 and v2 without checksums, resumption or transfer identifiers, v4 without a Reject | a rejection is a Cancel the sender takes for a pause |
| temporary and source files | `server/mod.rs`, `file/*` | temporary file, checksums of it and of the source | resume, write, validate, rename; open, read, checksum | names and descriptors outlive each other; the user writes to the source |
| path choice | `manager.rs` (DirMapping), `utils.rs` | directory mapping per transfer | compose_final_path, filepath_variants | renaming must be consistent over files and restarts |
| wire formats, quarantine, bindings, analytics | see `PROJECT.json` | | | |

The parts meet in the manager. The server loop registers its request channel
there; API calls and jobs change the manager's state under its mutex and push
requests (`Download`, `Start`, `Reject`, `Done`, `Fail`, `Close`) to the
registered loop; everything that the application is told passes a gate and the
event queue; the event task writes the history that the next start reads.

What makes each part correct, and is hard to see in a test, is listed as
`hazards` in `PROJECT.json`, at the lines where it bites.

## 2. Modules

| module | models | used by |
|---|---|---|
| `Storage` | the rows of one transfer that a restart reads, and the statements on them, as operators | `Incoming`, `Outgoing` |
| `Events` | the gates, as operators: the state a call leaves and whether it reports | `Incoming`, `Outgoing`, `History` |
| `Incoming` | the receiving side: manager, server loops, v6 handler, download jobs, checking job, API, event task, crash and restart | `MCIncoming`, proofs |
| `Outgoing` | the sending side: manager, client task, v6 handler, upload and checksum jobs, throttle, API, event task, crash and restart | `MCOutgoing`, proofs |
| `DurableTransfer` | abstract: what a side promises about a transfer, without connections, tasks or crashes | refined by `Incoming` and `Outgoing` |
| `Stream` | both sides composed, for the bytes of one file: checksum exchange, resumption, chunks, validation, rename, verdicts, in v2, v4 and v6, over a lossy succession of connections | `MCStream`, proofs |
| `Connect` | how two hosts get in touch: connection loops, version fallback, checking jobs, retry triggers, and the front of the server with its nonces | `MCConnect`, proofs |
| `History` | gates, event task, state rows and transfers_since: what the application is told, and is told again later | `MCHistory`, proofs |
| `MC...` | instances for TLC | the runs |
| `StorageProofs` | lemmas: what each statement on the rows leaves behind | the proofs of both sides |
| `IncomingProofs`, `IncomingSafety` | proofs about `Incoming`: types; the inductive invariant, its consequences, the refinement | |
| `OutgoingProofs`, `OutgoingSafety` | the same for `Outgoing` | |
| `ConnectProofs` | proofs about `Connect` | |
| `HistoryProofs` | proofs about `History` | |
| `StreamProofs` | proofs about `Stream` | |

The split follows the questions. `Incoming` and `Outgoing` have every lock, await
and database write of a side and an arbitrary peer; `Stream` has both peers and
the data, with coarser steps; `Connect` has the requests before a connection;
`History` has the event path after a gate.

### How `Incoming` corresponds to the code

| variable | code |
|---|---|
| `db` | the SQLite rows (`Storage`) |
| `xfer`, `file`, `conn` | `IncomingState.xfer_sync`, `file_sync`, `conn`; `"Absent"` when the map has no entry |
| `loop`, `pc`, `reqs`, `held` | a `client_loop`: its phase, the handler it is in, its `ServerReq` queue, `HandlerLoop.jobs` |
| `job`, `aborted` | `FileXferTask::run` and its `AbortHandle` |
| `fev`, `xev`, `evq` | the gates and the channel to the event task |
| `api`, `chk` | the rest of the API call under way, the checking job |
| `temp`, `placed` | temporary and final files on disk |
| `told`, `cancels`, `purged` | history of what the application was told and did |

*Atomicity.* A manager operation holds the mutex of the transfer map over its
database writes, so it is one action; `CrashInRegister`, `CrashInTerminate` and
`CrashInEventTask` are the crashes between two writes. A handler is split at
each await behind which it touches other shared state: `on_reject` is
`RecvReject` (manager), `RecvRejectStop` (stop_task), `RecvRejectEmit` (event).
A download job can be aborted until the poll in which its file is moved and the
tail is spawned (`JobPlace`, `JobFail`); `JobPost` and `JobReport` run detached.

*Abstractions.* Chunks, offsets, checksums and paths are left out: a job that
has everything it waits for may succeed, fail or be canceled at each of its
stages. Timeouts and pings are `LinkBroken`, enabled at any time. The retry
interval of the checking job is nondeterministic. The database does not fail.
Progress, paused and pending rows, which no decision depends on, are not kept.

*The sender* is arbitrary: it connects whenever it likes and sends any control
message. `Overlap` says whether it may connect while a loop of an earlier
connection still runs. `Cancel`, which the v6 handler understands and libdrop's
own v6 client never sends and which drops a download without a word to the
manager, is part of `incoming_crash` only.

### How `Outgoing` corresponds to the code

| variable | code |
|---|---|
| `db`, `xfer`, `file`, `conn` | the rows; `OutgoingState.xfer_sync`, `file_sync`, and whether `conn` is `Some` |
| `cli` | where the one task of the transfer (`ws::client::spawn`) is: dialing, connected, in the select loop, draining, waiting for its jobs, between two connections, ended |
| `pc`, `reqs`, `held` | the handler it is in, its `ClientReq` queue, `HandlerLoop.tasks` |
| `job`, `aborted` | upload and checksum jobs of each file, and the aborted uploads |
| `waitq` | the queue of the throttle's semaphore; `Free` and `Granted` say who has a permit |
| `pausing` | files that the detached task of `Drop for HandlerLoop` has yet to pause |
| `fev`, `xev`, `evq`, `api` | as in `Incoming` |
| `told`, `ends` | history: what the application was told |
| `offered`, `parted`, `known` | history: the receiver may know of the transfer, the two sides have parted, the files whose verdict was exchanged on the present connection |

The main difference from the receiver is that an upload job has no detached
tail: an abort may cut it at any await, also between the failure being set in
memory and the database write (`JobFailCut`), and between the failure being
posted and the event. A failure may therefore go unreported, and
be forgotten by a restart; the properties say so. Reading an unreadable file and posting its
failure is one step (`JobFail`), since nothing shared is touched in between.

A dial has three outcomes (recoverable, unrecoverable, connected), which stand
for name resolution, version negotiation and authentication. The wait between
two dials is nondeterministic. A file has one checksum job at a time, and an
aborted upload of a file is taken to be gone before the next one of that file
starts. Progress messages, which only feed progress events, are left out, and
so is the clean stop of the service. The receiver is arbitrary; `Cancel`, which
libdrop's own v6 server does not send, is part of `outgoing_crash` only.

### How `Stream` corresponds to the code

| variable | code |
|---|---|
| `src` | the sender's file: modification time and length |
| `sstat`, `rstat`, `closed` | the manager's state of the file on the two sides; the receiver's cancelation |
| `cl`, `upload`, `sums` | the client's loop of a connection, its upload (position and the metadata of `open`) and its checksum jobs |
| `sv`, `cell`, `held`, `job`, `aborted`, `chunks`, `reports` | the server's loop, `HandlerLoop.checksums` and `.jobs`, `FileXferTask::run` and its channels |
| `dbsum`, `saves` | the checksum column and the detached tasks that fill it |
| `tmp`, `ino`, `dest` | the name of the temporary file, the inodes, the files moved to their destination |

Content is a sequence of blocks `<<mtime, index>>`, so that bytes of two versions of a
file are told apart, and a checksum is the content it was made of. A temporary
file is an inode: a job that has it open goes on writing after another one has removed or
renamed it. A checksum job that overlaps a modification may return any mixture
of both versions. The versions differ in operators with the version in their names
(`UpgradeV2`, `UpgradeV4`, `InitV2`, `InitV4`, `ValidV2`, `ValidV4`,
`FinalizeSuccessV2`, `FinalizeSuccessV4`, `OnStart`, `OnDownload`, `RejectMsg`); v1 is v2 without pings
and v5 is v6. A v2 request carries no transfer identifier: its transfer has
one connection. API calls and manager operations are one step each here, their
inner crash points being `Incoming`'s. A failing disk is not modelled.

### How `Connect` corresponds to the code

`job` is where each connection loop (`ws`) and checking job (`check`) is in its
requests; `trigger` is its `RetryTrigger`; `nonces` is the `nonce_store` of each
host. A request passes the rate limiter (`TooManyRequests`), the route (404 for an
unknown version), `process_authentication` and `handle_rejection`
(`HandlePlain`, `HandleAuth`). A peer's key is right or not (`keys`), and a tag is
good if both sides have it right. The sender is this version of libdrop; the receiver knows any
of the sets in `PeerVersions`. A checking job's second request may leave through
another socket of its pool. Delays are finite or `Duration::MAX`. The sender's side of a
connection (`outgoing_connected`, `Established`) and the receiver's registration of the request
(`register_incoming`, `RegisterIncoming`) are two steps: the sender may hold a transfer for active
that the receiver does not have yet, and a connection that breaks in between leaves it so.

### How `History` corresponds to the code

`gate`, `xgate` are the gates; `queue`, `task` the events on their way and the one
that is stored and not dispatched; `progress` is `StorageDispatch.file_progress`;
`rows` the state rows with `created_at`; `xrow`, `hidden` the deleted flags. `told` is what
the application heard. Two rows may share a millisecond.

`job`, `moved` and `last` are the receiver's job, the bytes it has written and its
`last_progress`. A chunk is written in one step (`Chunk`) and reported in another
(`Progress`), and only past `Threshold` (`REPORT_PROGRESS_THRESHOLD`) or right after the
start, so that a pause or a failure in between finds bytes on disk that no event has
reported. `start_with_progress` is `Start` and then `Progress`. In an outgoing transfer
`job` and `moved` are the other host's, and its reports come late, in order. A file has
one job at a time here; two are `Incoming`'s and `Stream`'s.

The gates are called in any order and whatever their state, as in `events.rs`: `preflight`
overwrites a closed gate, `stop_silent` reopens one, a verdict closes it from any
state. A verdict is posted to the manager (`Post`, `JobEnds`) and reported later
(`Verdict`), with other calls in between; the end of a download job calls the gate also when
the manager did not take its result. So an event may follow a verdict, and a file may get a second one.

`real` in events and rows is history: the bytes of the last Started or Progress
that passed the gate before the event was emitted (`reported`). `whole` is the set of files that
were across as a whole.

### The abstract specification

`DurableTransfer` says that a transfer is offered, its files are wanted and settled,
it is canceled and ends, each at most once until it is purged. It has no crash
action. `Incoming` and `Outgoing` implement it (`IsDurable`) under a mapping, at the
end of each of the two modules, that
reads the manager while the process runs and, while it does not, what the next
start will make of the database: a crash at any point, the ones between two writes
included, and the restart after it must be a step of the abstract transfer or
none at all.

## 3. Runs

Bounds: `Files`, `Conns` (receiver: connections) and `MaxDials` (sender:
attempts to connect), `MaxCrashes`, `MaxMsgs` (control messages from the
peer), `Permits` (4 in the code; 1 with two files is the smallest instance in
which an upload waits), `ApiCalls` and `PeerMsgs` (what the application and the peer do), `Reported`
(the kinds of events that are queued: no gate depends on the queue, so dropping the kinds
that no property mentions changes nothing else). One file is enough for most
questions because files of a transfer meet only in the transfer's own state and at the
throttle; `outgoing_files` has two, and the proofs hold for any number. Two connections are enough for a loop and its
successor; a third one would find the same manager state. In `Stream` a file has 2 or 3
blocks and a chunk 2, so that there are a full chunk, a short one, and a temporary
file that ends inside either; the last connection is not broken, so that liveness
is about one that lasts. In `Connect` two faults and a restart are
enough to use up two attempts. In `History` four events are a start, a progress, a
pause and an end, in every order; a file of 2 bytes with a threshold of 2 has a chunk that is not
reported and one that is. A crash counts as one of the events, and so does a verdict that is
posted, so that it can always be reported. Deadlock is not
checked: with its connections used up and nothing asked for, the system rests.

| run | instance | checks |
|---|---|---|
| `incoming_crash` | 1 file, 2 connections, 1 crash, 1 message | `TypeOK`, `RestoreFaithful`, `CompletedOnDisk`, `ToldVerdictIsFinal`, `CanceledStaysCanceled`, `CancelReportedOnce`, `IsDurable` |
| `incoming_overlap` | 1 file, 2 connections that may overlap, 1 message | `DownloadNotForgotten`, `PausedWhenOffline`, `VerdictNeverFlips` |
| `incoming_live` | 1 file, 1 connection, 1 message, fairness | `VerdictReported`, `CancelReported`, `DownloadTaken` |
| `outgoing_crash` | 1 file, 3 dials, 3 messages, 2 crashes | `RestoreFaithful`, `OneVerdict`, `ReceiverNotAbandoned`, `EndIsFinal`, `EndReportedOnce`, `VerdictNeverFlips`, `IsDurable` |
| `outgoing_files` | 2 files, 1 permit, 2 dials, 2 messages of Start, Done, Error and Reject, fairness | `VerdictConveyed`, `PausedWhenOffline`, `VerdictReported`, `EndReported`, `ThrottledProceeds` |
| `stream` | v2, v4, v6, 2 or 3 blocks, 2 connections, 1 crash, rejections and cancelations | `PlacedIntact`, `DeliveredIsPlaced`, `NoFalseFailure` |
| `stream_live` | v6, 3 blocks, 2 connections, 1 modification of the source, cancelation, fairness | `PlacedIntact`, `CancelCleansUp`, `DownloadSettles` |
| `connect` | 1 transfer, 4 kinds of receivers, 2 retries, 2 faults, 1 refresh, 1 restart, fairness | `FailedForAReason`, `BestVersion`, `RetriesLimited`, `DroppedIsGone`, `RefreshConnects`, `GoneIsNoticed` |
| `history` | 1 file of 2 bytes, threshold 2, 4 events of which 1 may be a crash and 1 a download, both directions | `ReportMatchesTold`, `BytesNeverInvented`, `PurgedIsOver` |

The type invariants `TypeOK` of `Outgoing`, `Stream`, `Connect` and `History` state
what the variables range over; the runs spend their checks on the properties above.
That of `Incoming` is checked too. All of them are proved, that of `Stream` for
connections that do not overlap.

What the runs of the receiving side show:

* `RestoreFaithful`: whenever the process dies, `restore_incoming` rebuilds the
  state of the transfer, the files in flight, and every verdict as *some*
  verdict (a file whose history row was not written yet comes back as Failed,
  as the code comments).
* `CompletedOnDisk`: nobody is told Completed, and nothing remembers it, of a
  file that was not moved.
* `ToldVerdictIsFinal`, `CanceledStaysCanceled`, `CancelReportedOnce`: what the
  application heard holds over crashes and new offers of the sender, as long as
  it did not purge the transfer.
* `DownloadNotForgotten`, `PausedWhenOffline`: a download lives in a queue or in
  a job of the registered loop, and is shown as paused without a connection.
* `VerdictNeverFlips`: API, job and peer race for the verdict and the first wins.
* `VerdictReported`, `CancelReported`: the reports arrive.
* `DownloadTaken`: a download that was asked for over a live connection is taken up by a job. Whether
  the job then gets its chunks is the sender's affair.

What the runs of the sending side show:

* `RestoreFaithful`: whenever the process dies, `restore_outgoing` finds the
  transfer in the state the manager had it in, no rejected or completed file
  can be uploaded again, and no live file comes back as ended.
* `OneVerdict`, `VerdictNeverFlips`: manager, history rows, queued events and
  application agree on at most one verdict per file, reported once; unlike the
  receiver, whose gate can be reopened (see below).
* `ReceiverNotAbandoned`: a transfer that is still New may be dropped at once by
  `cancel_all`. That is right only because `outgoing_connected` writes Active
  before the request is sent; the property fails if it is written later.
* `EndIsFinal`, `EndReportedOnce`: the API call, the close frame, a refused dial
  and a restart of a canceled transfer race for the one report of the end.
* `VerdictConveyed`: `issue_pending_requests` makes up for requests and errors
  that were lost with the connection.
* `PausedWhenOffline`: the gates of unfinished files are open again when the
  task goes back to dialing.
* `VerdictReported`, `EndReported`: the reports arrive. Failures are left out
  because an abort may lose the report. `ThrottledProceeds`: permits come back
  however uploads end, aborted ones that wait in the queue included.

What the runs of the composed parts show:

* `PlacedIntact`: whatever was resumed, retried or modified, a file at its
  destination has the offered size, is what passed validation, and is the
  sender's file if that was left alone.
* `DeliveredIsPlaced`, `NoFalseFailure`: the two sides' verdicts are about the
  same file. With v2 and v4 the receiver may call a file rejected that the sender
  calls completed, since their rejection is a Cancel; it is on disk then.
* `CancelCleansUp`: the temporary file of a canceled transfer is gone for good,
  because the loop waits for its jobs before it removes it. If the connection breaks
  after the sender took the Close, and the sender does not come back, it stays:
  the property excepts that (`CloseBroken`).
* `DownloadSettles`: lost reports, chunks and verdicts are made up for by the next connection.
* `FailedForAReason`, `BestVersion`: 401, 404, 429 and lost answers are not taken for
  each other, in either request of the challenge.
* `RetriesLimited`, `RefreshConnects`: the counter is not reset by a connection, so
  a transfer may be left waiting with the peer in reach; a refresh connects it.
* `DroppedIsGone`, `GoneIsNoticed`: the receiver drops a transfer if and, after a
  refresh, only as long as the sender has none.
* `ReportMatchesTold`: the history agrees with the events. It may
  know one state more per crash.
* `BytesNeverInvented`: the bytes of a file that has stopped are those last reported
  when its state was emitted, which may be fewer than are on disk, or 0; a completed
  file was across as a whole.
* `PurgedIsOver`: purging and collecting rows comes after the end of the transfer and
  after the cancelation is synchronized.

Fairness of the receiving side: weak fairness of the event task, of what is
left of an API call, of the handlers, the request queue, the end of a loop, the tails of aborted jobs,
the event of the checking job, and of a job where it does not wait for the sender
(`JobReady`: it looks at its temporary file, was aborted, or its channels are dropped).
These are tasks that a tokio runtime polls when they are ready and that wait for nothing but
local locks. A job that waits for checksums or chunks has no timeout, and the sender's
pongs keep its loop alive: no fairness is assumed of it. Nothing is assumed of the
sender either, of the API calls, or of the checking job asking.

Fairness of the sending side: weak fairness of the event task, what is left of
an API call, the request queue, the handlers, the task that pauses files, and
each job. A job at work ends only while the loop runs, since the loop
takes its chunks and every send of the loop has a timeout. `drain` waits for
the receiver's close without a timeout, and no fairness is assumed of it, of
dialing, or of the receiver.

Fairness of `Stream` and `Connect`: weak fairness of `Running`, all that the two
programs do by themselves: their tasks are polled when ready, sockets are read
until they are empty or broken, a broken connection is noticed by either end
(ping timeouts), the sender dials again, a sleep of finite length ends. Breaking
connections, losing requests, calling the API, modifying the file, crashing and
refreshing are the environment's and not assumed to happen. Since every step of `Running` makes
progress towards an end within a connection, weak fairness of the whole is
enough for one file or one transfer.

### Statements that the code does not keep

Each is checked by a run that expects TLC to find a counterexample.

| run | statement | what happens |
|---|---|---|
| `stream_shrunk` | "The file size has changed since adding it to the transfer. The original file was modified while not in flight in such a way that its size changed." (`norddrop.udl:157`) | `open` takes the file's metadata when the upload starts, `read_chunk` compares with those: a file shortened before is sent short without an error, and the receiver waits for the rest |
| `stream_overlap` | "Checksum validation at the end of download" (`changelog.md:191`) | the test in `register_incoming` is inverted against its message (`manager.rs:128`), two loops may serve one transfer, and the job of one truncates the temporary file between the validation and the rename of the other |
| `history_bytes` | "Curently received file bytes" (`norddrop.udl:423`) | `get_file_progress` takes the entry out: a download that is paused, looked at again (`preflight`) and paused before it starts is stored with 0 bytes, though bytes were reported and the temporary file keeps them |

Three more things the models allow and no run asserts, since they concern only what an
event says: `stop_silent` can put a Terminal gate back to Idle, so that a
receiver's application may be told two terminal states of a file when a rejection meets the
tail of its job, or `Started` after the rejection of a throttled upload; and the checking job can report a
cancelation made here as the peer's.

## 4. Proofs

Checked by TLAPS for every value of the constants: any sets of files, connections,
transfers and versions, any sizes, permits and retries, and any value of the bounds that
keep TLC's instances finite, under the named assumptions of the modules (which say no more
than what kind of value a constant is) and the hypotheses that a theorem states itself. Each
component has one inductive invariant, and `Incoming`, `Outgoing` and `Stream` a second one on top of it,
written as a conjunction of named parts; TLC checked it on the runs' instances before it
was proved. A lemma per part (`...Step`) has one step per action.

**`IncomingProofs`, `IncomingSafety`**

| theorem | states |
|---|---|
| `TypeCorrect` | `[]TypeOK`, inductive by itself |
| `CompletedIsOnDisk` | `[]CompletedOnDisk` |
| `Inductive` | `[](TypeOK /\ ControlInv /\ SyncInv /\ VerdictInv /\ CancelInv)` |
| `RestoreIsFaithful`, `ToldVerdictStays`, `CancelationIsFinal`, `CancelationIsReportedOnce` | `[]RestoreFaithful`, `[]ToldVerdictIsFinal`, `[]CanceledStaysCanceled`, `[]CancelReportedOnce` |
| `VerdictIsKept` | `VerdictNeverFlips`, an action property |
| `IncomingIsDurable` | `IsDurable`: `Incoming` implements `DurableTransfer` |
| `WorkIsServed` | `NoCancel /\ Spec => []WorkingInv`, with `WorkingInv` = `IdleInv /\ EndingInv /\ WorkInv /\ FlightInv` |
| `DownloadIsNotForgotten`, `OfflineIsPaused` | `NoCancel /\ Spec => []DownloadNotForgotten`, `... []PausedWhenOffline` |

`CompletedOnDisk` needs an invariant of its own, `CompletedInv`: the claim "completed" travels
from the job to the manager, the request queue, the event queue, the history rows, and
after a restart back to the manager, while only the job saw the file; each carrier of the
claim implies that the file was placed.

`RestoreFaithful` speaks of a process that is down, so it needs to know what the manager and
the rows say of each other while it is up, at every point where it can die (`SyncInv`). That
in turn needs that nothing of a transfer is left in tasks, queues and gates once its row is
gone (`ControlInv`), or a late task would write to the rows of the next transfer of that
name. That a file whose verdict is being reported, by a handler, a job's tail, an API call or a queued
event, is terminal in the manager, and that what was told is on record (`VerdictInv`), gives
`ToldVerdictIsFinal`. `CancelInv` counts the possible reports of a
cancelation: those on their way plus those made are at most one until a purge, and
whoever holds one has made the transfer unusable first. The gate alone does not give that: it
is opened again when a transfer is restored or offered again, and the count must survive it.

`DownloadNotForgotten` and `PausedWhenOffline` are about who works on a file. `NoCancel` says that
`Cancel` is not among `PeerMsgs`, as in the instances of the runs that check the two: `on_cancel`
drops the job and leaves the file InFlight in the manager, after which neither property
holds. `IdleInv`: nothing is left of a loop that has ended or not begun. `EndingInv`: while
the transfer can be used no loop is told to close, and what a loop is told to stop has
ended in the manager; so a task is dropped only of a file that has a verdict or goes with the
transfer. `WorkInv`: what is shown as being received, or received by a job, is kept by
a loop that has yet to pause or remove it, also while an older loop still winds up.
`FlightInv`: the registered loop has a request or a job for each file in flight, one that was neither
aborted nor has ended. A connection may be registered while the loop of an older one still winds up, so
`WorkInv` is about any loop and `FlightInv` about the registered one.

**`OutgoingProofs`, `OutgoingSafety`**

| theorem | states |
|---|---|
| `TypeCorrect` | `[]TypeOK` |
| `Inductive` | `[](TypeOK /\ ControlInv /\ SyncInv /\ VerdictInv /\ EndInv /\ OfferInv)` |
| `RestoreIsFaithful`, `VerdictIsOne`, `ReceiverIsNotAbandoned`, `EndStaysFinal`, `EndIsReportedOnce` | `[]RestoreFaithful`, `[]OneVerdict`, `[]ReceiverNotAbandoned`, `[]EndIsFinal`, `[]EndReportedOnce` |
| `VerdictIsKept` | `VerdictNeverFlips` |
| `OutgoingIsDurable` | `IsDurable` |
| `ConnectionsAreServed` | `NoCancel /\ Spec => []ServedInv`, with `ServedInv` = `RestInv /\ StopInv /\ ConveyInv /\ ShownInv` |
| `VerdictIsConveyed`, `OfflineIsPaused` | `NoCancel /\ Spec => []VerdictConveyed`, `... []PausedWhenOffline` |

The argument is that of the receiver, with two differences. A verdict has one value
everywhere: `VerdictInv` says that each speaker (handler, upload, API call), queued event, row and
told state of a file says what the manager says, and that at most one of them has yet to be told.
`OfferInv` relates what the receiver may know to the rows: from `outgoing_connected` on, before the
request is sent, the sync row is Active or Canceled until the two sides have parted.

`VerdictConveyed` follows a rejection or a failure to the receiver. `ConveyInv`: before the
loop runs it is in the queue (`issue_pending_requests`); afterwards it is in the queue, is being reported by a
job that has posted it, or was exchanged. `StopInv` is why nothing else takes it from there: a task is
stopped only once the verdict is the manager's and known to the receiver, and while the
transfer can be used its loop is not told to close. `ShownInv` gives `PausedWhenOffline`: a file shown
as being uploaded is kept by the loop or is among those that the detached task of `Drop` will pause. `RestInv`
is what a client without a connection has left. `NoCancel` is the hypothesis of the receiving side, for
the same reason.

**The refinements.** The mapping reads the manager while the process is up and what
`restore_*` would make of the rows while it is down. So a crash maps to a stutter exactly
if manager and rows agree, which is `SyncInv`; an operation that is cut between two writes
maps to the whole abstract step or to none; and a restart stutters because the mapping has anticipated
it. The proofs go action by action and name the abstract step of each.

**`ConnectProofs`**

| theorem | states |
|---|---|
| `Inductive` | `[](TypeInv /\ SearchInv /\ KeyInv /\ CheckInv /\ RetryInv)` |
| `TypeCorrect`, `FailuresHaveAReason`, `VersionIsBest`, `RetriesAreLimited` | `[]TypeOK`, `[]FailedForAReason`, `[]BestVersion`, `[]RetriesLimited` |
| `DropsOnlyTheGone` | `DroppedIsGone`, an action property |

A request or an answer on its way is a claim about a state that may have passed. `SearchInv`:
the versions already skipped are ones the receiver does not know, an answer says what the
receiver knows, and the nonce an answer gives is still the one the server holds for that socket.
`KeyInv`: as long as the keys agreed throughout, a ticket is good and was not refused.
`CheckInv`: a GONE is still true when it is read. `RetryInv`: an attempt is counted before
the next one begins. That the server gives a fresh nonce rests on the least-number principle
(the model takes the smallest unused number).

**`HistoryProofs`**

| theorem | states |
|---|---|
| `Inductive` | `[](TypeInv /\ QueueInv /\ WholeInv /\ BytesInv /\ OverInv /\ RowsNeverInvented)` |
| `TypeCorrect`, `PurgedStaysOver` | `[]TypeOK`, `[]PurgedIsOver` |
| `RowsAreNotInvented` | `[]RowsNeverInvented`: a stored row says the bytes last reported when its event was emitted, or 0; Completed is stored only of a file that was across as a whole |

StorageDispatch stores a Paused, Failed or Rejected row long after its event was emitted, with the bytes of
whatever report of the file it saw last, and the gate lets through reports after a pause and even after
a verdict. `BytesInv` follows the bytes along the queue: from a report to the state that leaves the file next,
from the remembered progress to a state that comes before any report, from the last report, or with none queued
from the progress, to what is reported at present. It needs no order of the kinds of events, so that it
holds for gates that are reopened. `WholeInv` carries the claim Completed from the
job or the message of the peer over the posted verdict to the queue; `QueueInv` says that only the transfer's event
names no file and that a Started says what it reports.
`RowsNeverInvented` is `BytesNeverInvented` row by row.

**`StreamProofs`**

| theorem | states |
|---|---|
| `StreamInvariant` | `Overlap = FALSE /\ Spec => []StreamInv`, with `StreamInv` = `TypeInv /\ ConnInv /\ FileInv /\ PipeInv` |
| `StreamTypes` | `Overlap = FALSE /\ Spec => []TypeOK` |
| `StreamPlacedIntact` | `Overlap = FALSE /\ Spec => []PlacedIntact` |
| `VerdictsAgree` | `Overlap = FALSE /\ Spec => []VerdictInv`, with `VerdictInv` = `StreamInv /\ ServeInv /\ PlaceInv /\ RefuseInv /\ TrueInv /\ SoundInv /\ ClearInv` |
| `StreamDeliveredIsPlaced`, `StreamNoFalseFailure` | `Overlap = FALSE /\ Spec => []DeliveredIsPlaced`, `... []NoFalseFailure` |

The hypothesis is the one the instances of `stream` and `stream_live` have: the sender connects again
only after the server has ended the old loop. It is needed: with `Overlap`, `stream_overlap`
violates the part of `PlacedIntact` about the validated content. Everything else is arbitrary: connections, sizes,
versions, crashes, modifications of the source, API calls.

`ConnInv`: one connection is served at a time, what belongs to one not yet opened is blank, and a
job that can still be aborted belongs to a loop that still runs. So two jobs never hold
descriptors at once. `FileInv` follows the inode: a job that receives knows the length of what its descriptor
refers to, the temporary name is that inode or nothing, content that was validated stays as it was until
the rename, and an inode at its destination has no name and no writing descriptor any more. That gives
the length and the validated content of `PlacedIntact`, with the source modified or not. `PipeInv` gives the rest,
which v2 has no checksum for: while the source is untouched, every inode holds the file's blocks from the first one
on. A block is right only in the right place, so the invariant says where those on their way belong: the chunks
queued for the job, and after them those on the wire, are a `Chain`, a sequence of pieces each of which
begins where the one before it ends, from what the job has received to where the upload continues,
or to the offset in the `Start` that has not been read yet. Without a running job (`Quiet`) there is neither
chunk nor `Start` of that connection, and a v2 job never resumes (`FromZero`). A chain is stated by its
boundaries, a function on positions, rather than by a recursive sum, so that no induction is needed to append
to it or to take its head.

The verdicts of the two sides need more, since a message on its way is a claim about a file whose state
may have changed. `PlaceInv`: who says Completed, a row, a job or a `Done` on the wire, has a file at
its destination to show, and the `Done` comes after the receiver's own verdict. `RefuseInv` (v6): a receiver that
rejected the file cannot be passed over by a `Done`, because on each wire a `Reject` or an `Error` is
read before it. The invariant speaks of the order of messages (`After`), not only of what is there.
`ServeInv`: a loop that reads requests is the registered one, and the job it holds was not aborted.

For `NoFalseFailure`, `TrueInv` says what an untouched file makes true of all that is on its way:
each checksum of the full length, in a message, a cell, a task or the database, is that of the
offered file, no position is past its end, and no upload sees another version. With `FileInv` and `PipeInv` that
excludes every way a job can fail (`SoundInv`): a chunk too many, a checksum that differs, a temporary file that
is gone. `ClearInv` is about the errors that remain. They do occur in a clean transfer: the sender
answers a request about a file that it has a verdict on with an `Error`, and the receiver answers a chunk
that comes after its job. Neither may become a verdict: the sender's is read only by a receiver
that has completed the file, and the receiver's is behind the `Done`. So `outgoing_terminal_recv` and
`incoming_terminal_recv` meet them only with a verdict in place, by the order of the wire
and not by a check of the message.

**What the proofs showed about the model.** The reaction to an unexpected answer in `Connect`
was a CASE whose guards could hold together, of which TLC takes the first and TLA+ any: it
is now a disjunction of cases that exclude each other, in the order of the code. `SelectSeq` with
a local operator, for an upload that leaves the throttle's queue, became `Without`. The other theorems needed
no change of the model. Three properties turned out to be invariants only for a peer that sends no
`Cancel`, as their runs have it: that hypothesis is now in the theorems.

Only model-checked:

* everything under fairness (`VerdictReported`, `CancelReported`, `EndReported`, `ThrottledProceeds`, `DownloadTaken`,
  `DownloadSettles`, `CancelCleansUp`, `RefreshConnects`, `GoneIsNoticed`), which is beyond the prover;
* `ReportMatchesTold` and `BytesNeverInvented`: `transfers_since` sorts, and `SelectSeq` and `FlattenSeq` are
  recursive, so that what they return needs an induction over data (`RowsAreNotInvented` is the
  part of the latter about the stored rows);
* what is expected to fail: `SizeChangeIsReported`, `ValidatedIsPlaced` and `BytesNotForgotten`.

Every other invariant and action property of a passing run is a theorem.

## 5. What could be added

* The theorems of `Stream` with `Overlap`, without the part that `stream_overlap` violates. `ConnInv` rests
  on one connection being served at a time; with two, each part of `FileInv` has to say which of
  the jobs it is about.
* `Stream` against `Incoming` and `Outgoing`: that what each of these takes for its peer's messages includes
  all that the other one sends. The three share no state, so it would be a composition of its own.
* What the older protocol versions do differently in the managers' races (`Incoming` and `Outgoing`
  follow the v6 handlers).

## 6. Not modelled

* Path choice: `DirMapping`, `extract_directory_mapping`, `filepath_variants`,
  `normalize_filename` and `map_files` compute on strings and on the contents of directories;
  the destination is a set of moved files here.
* Several transfers at one throttle: their uploads wait for each other in the same
  queue, which `outgoing_files` has for two files of one transfer.
* What a clean stop finishes before it returns (`AliveWaiter`): a stop is a crash at a convenient
  moment, in `Connect` a restart.
* Errors of the database and of the disk: the code logs the former and goes on.
* Wire formats, gathering of files, quarantine attributes, analytics, bindings and
  logging: no control of their own.
