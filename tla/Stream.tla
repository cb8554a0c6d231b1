------------------------------- MODULE Stream -------------------------------
(***************************************************************************)
(* The bytes of one file from the sender's disk to the receiver's: the     *)
(* checksum exchange, the resumption of a temporary file, the chunks, the  *)
(* validation and the move to the destination, with the verdicts both      *)
(* sides keep, over a succession of connections.                           *)
(*                                                                         *)
(* The protocol versions that differ (v2, which v1 shares; v4; v6, which   *)
(* v5 shares) are parameters of the handlers.  A v2 connection carries no  *)
(* transfer identifier, the receiver makes one up for each: a v2 transfer  *)
(* is here a transfer of a single connection.                              *)
(*                                                                         *)
(* The content of a file is a sequence of blocks <<mtime, index>>, so that *)
(* bytes of different versions of the sender's file are told apart.  The   *)
(* checksum of some bytes is the bytes: SHA-256 is taken to be injective.  *)
(* A temporary file is an inode, for a file descriptor outlives its name.  *)
(*                                                                         *)
(* Left to Incoming and Outgoing: the event gates, the throttle, the crash *)
(* points between the database writes of one manager operation.            *)
(***************************************************************************)
EXTENDS Integers, Sequences, FiniteSets, FiniteSetsExt

CONSTANTS Versions,    \* protocol versions the two sides may have in common
          Sizes,       \* sizes of the offered file, in blocks
          NewLens,     \* lengths a modification of the sender's file may give it
          ApiCalls,    \* what the applications do besides "download"
          Overlap,     \* the sender may connect while an old connection is served
          MaxConns,    \* bound: connections; the last one is not broken
          MaxMods,     \* bound: modifications of the sender's file
          MaxCrashes   \* bound: times the receiver is killed and started again

ASSUME StreamAssumption ==
  /\ Versions \subseteq {"v2", "v4", "v6"}
  /\ Sizes \subseteq Nat \ {0} /\ NewLens \subseteq Nat
  /\ ApiCalls \subseteq {"reject", "cancel", "sender_reject"}
  /\ Overlap \in BOOLEAN
  /\ MaxConns \in Nat \ {0} /\ MaxMods \in Nat /\ MaxCrashes \in Nat

Conns == 1 .. MaxConns

\* CHUNK_SIZE of the reader, in blocks; and what the channel and the socket hold.
CHUNK_SIZE == 2
Window     == 2

VARIABLES
  ver, size,  \* the version and the size of the file in the transfer request
  src,        \* the sender's file: its modification time and its length
  sstat,      \* OutgoingLocalFileState: "Alive" or the verdict
  cl,         \* the client's loop of each connection
  upload,     \* its upload job
  sums,       \* its checksum jobs
  toC, toS,   \* messages on their way to the client and to the server
  rstat,      \* IncomingLocalFileState
  closed,     \* the receiver canceled the transfer
  dbsum,      \* incoming_paths.checksum
  saves,      \* detached save_checksum tasks
  conn,       \* the connection the receiver's manager has registered
  sv,         \* the server's loop of each connection
  cell,       \* HandlerLoop.checksums
  held,       \* HandlerLoop.jobs has a FileTask
  job,        \* FileXferTask::run
  aborted,    \* the AbortHandle was used
  chunks,     \* the channel behind chunks_tx
  reports,    \* the channel behind csum_tx
  tmp,        \* the inode the name of the temporary file refers to
  ino,        \* contents of the inodes
  dest,       \* files moved to their destination, with the checksum they passed
  crashes

fixed    == <<ver, size>>
sender   == <<src, sstat>>
client   == <<cl, upload, sums>>
wire     == <<toC, toS>>
receiver == <<rstat, closed, dbsum, saves, conn>>
server   == <<sv, cell, held>>
task     == <<job, aborted, chunks, reports>>
disk     == <<tmp, ino, dest>>
vars     == <<fixed, sender, client, wire, receiver, server, task, disk, crashes>>

NoConn == 0
NoIno  == 0
NoSum  == <<"none">>
Ended  == {"Completed", "Failed", "Rejected"}

Blocks(v, n) == [i \in 1 .. n |-> <<v, i>>]

JobPc == {"none", "load", "partial", "full", "start", "recv", "check", "place",
          "ok", "bad", "end"}

NoJob == [pc |-> "none", len |-> 0, csum |-> <<>>, offset |-> 0, received |-> 0,
          fd |-> NoIno]

NoUpload == [pc |-> "none", pos |-> 0, meta |-> [mtime |-> 0, len |-> 0]]

Msg(k, n, d) == [k |-> k, n |-> n, d |-> d]
Note(k)      == Msg(k, 0, <<>>)

Abortable == {"load", "partial", "full", "start", "recv", "check", "place"}

Content == UNION {[1 .. n -> (-1 .. MaxMods) \X (0 .. Max(Sizes \cup NewLens))] :
                  n \in 0 .. 2 * Max(Sizes \cup NewLens)}

TypeOK ==
  /\ ver \in Versions /\ size \in Sizes
  /\ src \in [mtime : 0 .. MaxMods, len : Sizes \cup NewLens]
  /\ sstat \in {"Alive"} \cup Ended
  /\ cl \in [Conns -> {"off", "run", "end", "closed"}]
  /\ \A c \in Conns : upload[c].pc \in {"none", "open", "read", "end"}
  /\ rstat \in {"Idle", "InFlight"} \cup Ended
  /\ closed \in BOOLEAN
  /\ conn \in Conns \cup {NoConn}
  /\ sv \in [Conns -> {"off", "run", "drain", "ok", "fin", "err", "end"}]
  /\ held \in [Conns -> BOOLEAN] /\ aborted \in [Conns -> BOOLEAN]
  /\ \A c \in Conns : job[c].pc \in JobPc /\ job[c].received <= size
  /\ tmp \in Conns \cup {NoIno}
  /\ \A d \in dest : d.ino \in Conns
  /\ crashes \in 0 .. MaxCrashes

Init ==
  /\ ver \in Versions
  /\ size \in Sizes
  /\ src = [mtime |-> 0, len |-> size]
  /\ sstat = "Alive"
  /\ cl = [c \in Conns |-> "off"]
  /\ upload = [c \in Conns |-> NoUpload]
  /\ sums = [c \in Conns |-> {}]
  /\ toC = [c \in Conns |-> <<>>]
  /\ toS = [c \in Conns |-> <<>>]
  /\ rstat = "Idle"
  /\ closed = FALSE
  /\ dbsum = NoSum
  /\ saves = {}
  /\ conn = NoConn
  /\ sv = [c \in Conns |-> "off"]
  /\ cell = [c \in Conns |-> NoSum]
  /\ held = [c \in Conns |-> FALSE]
  /\ job = [c \in Conns |-> NoJob]
  /\ aborted = [c \in Conns |-> FALSE]
  /\ chunks = [c \in Conns |-> <<>>]
  /\ reports = [c \in Conns |-> <<>>]
  /\ tmp = NoIno
  /\ ino = [c \in Conns |-> <<>>]
  /\ dest = {}
  /\ crashes = 0

-----------------------------------------------------------------------------
(* The wire: in order, and lost with the end that would have read it.      *)

SendC(c, ms) == toC' = IF cl[c] = "run" THEN [toC EXCEPT ![c] = @ \o ms] ELSE toC
SendS(c, ms) == toS' = IF sv[c] = "run" THEN [toS EXCEPT ![c] = @ \o ms] ELSE toS

GotC(c, k) == cl[c] = "run" /\ toC[c] # <<>> /\ Head(toC[c]).k = k
GotS(c, k) == sv[c] = "run" /\ toS[c] # <<>> /\ Head(toS[c]).k = k

TakeC(c) == toC' = [toC EXCEPT ![c] = Tail(@)]
TakeS(c) == toS' = [toS EXCEPT ![c] = Tail(@)]

-----------------------------------------------------------------------------
(* A connection: TransferRequest, register_incoming, HandlerInit::upgrade. *)

\* v4, v6: a checksum that is not in the database is asked for; v2 has none.
UpgradeV2(c) == cell' = cell /\ toC' = toC

UpgradeV4(c, pending) ==
  /\ cell' = [cell EXCEPT ![c] = dbsum]
  /\ toC' = [toC EXCEPT ![c] = IF dbsum = NoSum
                               THEN Append(pending, Msg("ReqChsum", size, <<>>)) ELSE pending]

\* The v4 handler's issue_reject sends a Cancel, v6's a Reject.
RejectMsg == IF ver = "v6" THEN Note("Reject") ELSE Note("Cancel")

\* Mutant: a completed file is not reported again.
PendingC_NoDone == CASE rstat = "Failed"   -> <<Note("Error")>>
                     [] rstat = "Rejected" -> <<RejectMsg>>
                     [] OTHER              -> <<>>

\* IncomingState::issue_pending_requests, for a file that has ended.
PendingC == CASE rstat = "Completed" -> <<Note("Done")>>
              [] rstat = "Failed"    -> <<Note("Error")>>
              [] rstat = "Rejected"  -> <<RejectMsg>>
              [] OTHER               -> <<>>

\* OutgoingState::issue_pending_requests
PendingS == CASE sstat = "Rejected" -> <<RejectMsg>>
              [] sstat = "Failed"   -> <<Note("Error")>>
              [] OTHER              -> <<>>

Fresh(c) ==
  /\ cl[c] = "off"
  /\ \A d \in Conns : /\ d < c => cl[d] = "end" /\ (Overlap \/ sv[d] = "end")
                      /\ ver = "v2" => cl[d] = "off"

\* A download that was under way is resumed.  (A rejection that is sent again
\* removes the temporary file again, with v6.)
Connect(c) ==
  /\ Fresh(c)
  /\ ~closed
  /\ cl' = [cl EXCEPT ![c] = "run"]
  /\ sv' = [sv EXCEPT ![c] = "run"]
  /\ conn' = c
  /\ IF ver = "v2" THEN UpgradeV2(c) ELSE UpgradeV4(c, PendingC)
  /\ toS' = [toS EXCEPT ![c] = PendingS]
  /\ tmp' = IF rstat = "Rejected" /\ ver = "v6" THEN NoIno ELSE tmp
  /\ job' = IF rstat = "InFlight" THEN [job EXCEPT ![c].pc = "load"] ELSE job
  /\ held' = [held EXCEPT ![c] = rstat = "InFlight"]
  /\ UNCHANGED <<fixed, sender, upload, sums, rstat, closed, dbsum, saves, aborted, chunks,
                 reports, ino, dest, crashes>>

\* The transfer was canceled meanwhile: the connection is told to close.
ConnectClosed(c) ==
  /\ Fresh(c)
  /\ closed
  /\ cl' = [cl EXCEPT ![c] = "run"]
  /\ sv' = [sv EXCEPT ![c] = "drain"]
  /\ toC' = [toC EXCEPT ![c] = <<Note("Close")>>]
  /\ UNCHANGED <<fixed, sender, upload, sums, toS, receiver, cell, held, task, disk, crashes>>

-----------------------------------------------------------------------------
(* The sender.                                                             *)

\* The user writes to the file.
Modify ==
  /\ src.mtime < MaxMods
  /\ \E n \in NewLens : src' = [mtime |-> src.mtime + 1, len |-> n]
  /\ UNCHANGED <<fixed, sstat, client, wire, receiver, server, task, disk, crashes>>

\* on_checksum spawns a job that reads the first n bytes.
RecvReqChsum(c) ==
  /\ GotC(c, "ReqChsum")
  /\ sums' = [sums EXCEPT ![c] = @ \cup {[limit |-> Head(toC[c]).n, seen |-> src]}]
  /\ TakeC(c)
  /\ UNCHANGED <<fixed, sender, cl, upload, toS, receiver, server, task, disk, crashes>>

\* FileToSend::checksum.  The job yields while it reads: what was read before a
\* modification is of the old version.  There is no check of the mtime here.
Checksums(t) ==
  IF t.seen = src
  THEN {Blocks(src.mtime, Min({t.limit, src.len}))}
  ELSE {[i \in 1 .. Max({k, Min({t.limit, src.len})}) |->
           <<IF i <= k THEN t.seen.mtime ELSE src.mtime, i>>] :
        k \in 0 .. Min({t.limit, t.seen.len})}

\* outgoing_ensure_file_not_terminated fails: an Error is sent.
ReportChsum(c) ==
  \E t \in sums[c] :
    /\ sums' = [sums EXCEPT ![c] = @ \ {t}]
    /\ IF sstat = "Alive"
       THEN \E b \in Checksums(t) : SendS(c, <<Msg("ReportChsum", t.limit, b)>>)
       ELSE SendS(c, <<Note("Error")>>)
    /\ UNCHANGED <<fixed, sender, cl, upload, toC, receiver, server, task, disk, crashes>>

\* Mutant: the offset of the request is not used.
OnStart_FromZero(c) ==
  IF sstat = "Alive"
  THEN upload' = [upload EXCEPT ![c] = [NoUpload EXCEPT !.pc = "open"]] /\ toS' = toS
  ELSE SendS(c, <<Note("Error")>>) /\ upload' = upload

\* on_start, v4 and v6: a file that has ended is answered with an Error.
OnStart(c) == IF sstat = "Alive"
              THEN /\ upload' = [upload EXCEPT ![c] = [NoUpload EXCEPT !.pc = "open",
                                                                       !.pos = Head(toC[c]).n]]
                   /\ toS' = toS
              ELSE SendS(c, <<Note("Error")>>) /\ upload' = upload

\* on_download, v2: always from the beginning, and no answer on failure.
OnDownload(c) ==
  /\ upload' = IF sstat = "Alive" THEN [upload EXCEPT ![c] = [NoUpload EXCEPT !.pc = "open"]]
                                  ELSE upload
  /\ toS' = toS

RecvStart(c) ==
  /\ GotC(c, "Start")
  /\ IF ver = "v2" THEN OnDownload(c) ELSE OnStart(c)
  /\ TakeC(c)
  /\ UNCHANGED <<fixed, sender, cl, sums, receiver, server, task, disk, crashes>>

\* FileToSend::open
UploadOpen(c) ==
  /\ upload[c].pc = "open"
  /\ upload' = [upload EXCEPT ![c].pc = "read", ![c].meta = src]
  /\ UNCHANGED <<fixed, sender, cl, sums, wire, receiver, server, task, disk, crashes>>

\* is_mtime_ok
Intact(c) == upload[c].meta.mtime = src.mtime

\* Bytes the next read returns.
Readable(c) == Min({CHUNK_SIZE, Max({0, src.len - upload[c].pos})})

\* The checks of read_chunk, after the read.
ReadOk(c) ==
  LET n == Readable(c) IN
  /\ Intact(c)
  /\ IF n = 0 THEN upload[c].pos = upload[c].meta.len
              ELSE upload[c].pos + n <= upload[c].meta.len

\* read_chunk, and the message.
UploadChunk(c) ==
  LET n == Readable(c) IN
  /\ upload[c].pc = "read"
  /\ n > 0
  /\ ReadOk(c)
  /\ Len(toS[c]) < Window
  /\ SendS(c, <<Msg("Chunk", n, [i \in 1 .. n |-> <<src.mtime, upload[c].pos + i>>])>>)
  /\ upload' = [upload EXCEPT ![c].pos = @ + n]
  /\ UNCHANGED <<fixed, sender, cl, sums, toC, receiver, server, task, disk, crashes>>

\* End of file: the job is done.
UploadDone(c) ==
  /\ upload[c].pc = "read"
  /\ Readable(c) = 0
  /\ ReadOk(c)
  /\ upload' = [upload EXCEPT ![c].pc = "end"]
  /\ UNCHANGED <<fixed, sender, cl, sums, wire, receiver, server, task, disk, crashes>>

\* FileModified or MismatchedSize: outgoing_failure_post, then an Error.
UploadFail(c) ==
  /\ upload[c].pc = "read"
  /\ ~ReadOk(c)
  /\ upload' = [upload EXCEPT ![c].pc = "end"]
  /\ sstat' = IF sstat = "Alive" THEN "Failed" ELSE sstat
  /\ SendS(c, <<Note("Error")>>)
  /\ UNCHANGED <<fixed, src, cl, sums, toC, receiver, server, task, disk, crashes>>

VerdictOf(k) == CASE k = "Done" -> "Completed" [] k = "Error" -> "Failed" [] OTHER -> "Rejected"

\* on_done, on_error, on_reject: outgoing_terminal_recv, then stop_task.
RecvVerdict(c) ==
  \E k \in {"Done", "Error", "Reject"} :
    /\ GotC(c, k)
    /\ sstat' = IF sstat = "Alive" THEN VerdictOf(k) ELSE sstat
    /\ upload' = [upload EXCEPT ![c] = NoUpload]
    /\ TakeC(c)
    /\ UNCHANGED <<fixed, src, cl, sums, toS, receiver, server, task, disk, crashes>>

\* on_cancel: the upload is aborted and paused, the manager is not told.
RecvCancelC(c) ==
  /\ GotC(c, "Cancel")
  /\ upload' = [upload EXCEPT ![c] = NoUpload]
  /\ TakeC(c)
  /\ UNCHANGED <<fixed, sender, cl, sums, toS, receiver, server, task, disk, crashes>>

\* The end of the client's loop; jobs.shutdown().
ClientEnds(c, how) ==
  /\ cl' = [cl EXCEPT ![c] = how]
  /\ upload' = [upload EXCEPT ![c] = NoUpload]
  /\ sums' = [sums EXCEPT ![c] = {}]
  /\ toC' = [toC EXCEPT ![c] = <<>>]

\* A close frame: outgoing_remove, the transfer is canceled here too.
RecvClose(c) ==
  /\ GotC(c, "Close")
  /\ ClientEnds(c, "closed")
  /\ UNCHANGED <<fixed, sender, toS, receiver, server, task, disk, crashes>>

\* The client notices that the connection is broken.
ClientBreak(c) ==
  /\ cl[c] = "run"
  /\ c < MaxConns \/ sv[c] = "end"
  /\ ClientEnds(c, "end")
  /\ UNCHANGED <<fixed, sender, toS, receiver, server, task, disk, crashes>>

\* Service::reject on the sending side: outgoing_rejection_post, issue_reject.
ApiSenderReject ==
  /\ "sender_reject" \in ApiCalls
  /\ sstat = "Alive"
  /\ sstat' = "Rejected"
  /\ LET live == {c \in Conns : cl[c] = "run"} IN
     /\ upload' = [c \in Conns |-> IF c \in live THEN NoUpload ELSE upload[c]]
     /\ toS' = [c \in Conns |-> IF c \in live /\ sv[c] = "run" THEN Append(toS[c], RejectMsg)
                                                               ELSE toS[c]]
  /\ UNCHANGED <<fixed, src, cl, sums, toC, receiver, server, task, disk, crashes>>

-----------------------------------------------------------------------------
(* The receiver's loop.                                                    *)

\* remove_temp_files
RemoveTemp == tmp' = NoIno

\* stop_task and on_cancel: the FileTask goes, and with it the channels' other
\* ends; a job that is not finished is aborted.  It may run on until it waits.
StopTask(c) ==
  /\ held' = [held EXCEPT ![c] = FALSE]
  /\ aborted' = [aborted EXCEPT ![c] = held[c] /\ job[c].pc \in Abortable]

\* The transfer is in the manager's map, and an API call may be about it.
Known == sv[1] # "off" /\ ~closed

\* It has a connection that reads requests.
Live == conn # NoConn /\ sv[conn] = "run"

\* Service::download
ApiDownload ==
  /\ Known
  /\ rstat = "Idle"
  /\ rstat' = "InFlight"
  /\ job' = IF Live THEN [job EXCEPT ![conn].pc = "load"] ELSE job
  /\ held' = IF Live THEN [held EXCEPT ![conn] = TRUE] ELSE held
  /\ UNCHANGED <<fixed, sender, client, wire, closed, dbsum, saves, conn, sv, cell, aborted,
                 chunks, reports, disk, crashes>>

\* on_chunk: a job whose receiver is gone is answered with an Error.
RecvChunk(c) ==
  /\ GotS(c, "Chunk")
  /\ IF held[c] /\ job[c].pc # "end"
     THEN chunks' = [chunks EXCEPT ![c] = Append(@, Head(toS[c]).d)]
     ELSE UNCHANGED chunks
  /\ IF held[c] /\ job[c].pc = "end" THEN SendC(c, <<Note("Error")>>) ELSE UNCHANGED toC
  /\ TakeS(c)
  /\ UNCHANGED <<fixed, sender, client, receiver, server, job, aborted, reports, disk, crashes>>

\* on_checksum: the full checksum sets the cell (once) and is saved by a
\* detached task; another one is for the job.
RecvReportChsum(c) ==
  /\ GotS(c, "ReportChsum")
  /\ LET m == Head(toS[c]) IN
     IF m.n = size
     THEN /\ cell' = [cell EXCEPT ![c] = IF @ = NoSum THEN m.d ELSE @]
          /\ saves' = saves \cup {m.d}
          /\ UNCHANGED reports
     ELSE /\ reports' = IF held[c] THEN [reports EXCEPT ![c] = Append(@, m)] ELSE reports
          /\ UNCHANGED <<cell, saves>>
  /\ TakeS(c)
  /\ UNCHANGED <<fixed, sender, client, toC, rstat, closed, dbsum, conn, sv, held, job, aborted,
                 chunks, disk, crashes>>

\* save_checksum
SaveChecksum ==
  /\ \E b \in saves : dbsum' = b /\ saves' = saves \ {b}
  /\ UNCHANGED <<fixed, sender, client, wire, rstat, closed, conn, server, task, disk, crashes>>

\* on_error: incoming_terminal_recv, then stop_task.
RecvError(c) ==
  /\ GotS(c, "Error")
  /\ rstat' = IF rstat \in Ended THEN rstat ELSE "Failed"
  /\ StopTask(c)
  /\ TakeS(c)
  /\ UNCHANGED <<fixed, sender, client, toC, closed, dbsum, saves, conn, sv, cell, job, chunks,
                 reports, disk, crashes>>

\* on_reject, v6 only: the temporary file goes if the file had not ended.
RecvReject(c) ==
  /\ GotS(c, "Reject")
  /\ rstat' = IF rstat \in Ended THEN rstat ELSE "Rejected"
  /\ StopTask(c)
  /\ IF rstat \in Ended THEN UNCHANGED tmp ELSE RemoveTemp
  /\ TakeS(c)
  /\ UNCHANGED <<fixed, sender, client, toC, closed, dbsum, saves, conn, sv, cell, job, chunks,
                 reports, ino, dest, crashes>>

\* on_cancel: the manager is not told.
RecvCancel(c) ==
  /\ GotS(c, "Cancel")
  /\ StopTask(c)
  /\ TakeS(c)
  /\ UNCHANGED <<fixed, sender, client, toC, receiver, sv, cell, job, chunks, reports, disk,
                 crashes>>
-----------------------------------------------------------------------------
(* FileXferTask::run and the Downloader of each version.                   *)

JobAt(c, s) == job[c].pc = s

JobEnd == [NoJob EXCEPT !.pc = "end"]

\* The job is over, its ends of the channels are dropped.
JobEnds(c) ==
  /\ job' = [job EXCEPT ![c] = JobEnd]
  /\ aborted' = [aborted EXCEPT ![c] = FALSE]
  /\ chunks' = [chunks EXCEPT ![c] = <<>>]
  /\ reports' = [reports EXCEPT ![c] = <<>>]

JobTo(c, s) ==
  /\ job' = [job EXCEPT ![c].pc = s]
  /\ aborted' = IF s \in Abortable THEN aborted ELSE [aborted EXCEPT ![c] = FALSE]

\* v2: Downloader::init knows no resumption.
InitV2(c) == job' = [job EXCEPT ![c].pc = "start"] /\ toC' = toC

\* v4, v6: TmpFileState::load, and the first half of Downloader::init.
InitV4(c) ==
  IF tmp = NoIno
  THEN job' = [job EXCEPT ![c].pc = "start"] /\ toC' = toC
  ELSE LET b == ino[tmp] IN
       /\ job' = [job EXCEPT ![c].len = Len(b), ![c].csum = b,
                             ![c].pc = CASE Len(b) < size -> "partial"
                                         [] Len(b) = size -> "full"
                                         [] OTHER         -> "start"]
       /\ IF Len(b) < size THEN SendC(c, <<Msg("ReqChsum", Len(b), <<>>)>>) ELSE toC' = toC

JobInit(c) ==
  /\ JobAt(c, "load")
  /\ IF ver = "v2" THEN InitV2(c) ELSE InitV4(c)
  /\ UNCHANGED <<fixed, sender, client, toS, receiver, server, aborted, chunks, reports, disk,
                 crashes>>

PartialMatches(c) == Head(reports[c]).n = job[c].len /\ Head(reports[c]).d = job[c].csum

\* request_csum was answered, by whatever report comes first.
JobPartial(c) ==
  /\ JobAt(c, "partial")
  /\ reports[c] # <<>>
  /\ reports' = [reports EXCEPT ![c] = Tail(@)]
  /\ job' = [job EXCEPT ![c].pc = "start",
                        ![c].offset = IF PartialMatches(c) THEN job[c].len ELSE 0]
  /\ UNCHANGED <<fixed, sender, client, wire, receiver, server, aborted, chunks, disk, crashes>>

\* The temporary file has the full size: the cell decides.
JobFull(c) ==
  /\ JobAt(c, "full")
  /\ cell[c] # NoSum
  /\ job' = [job EXCEPT ![c].pc = "start",
                        ![c].offset = IF cell[c] = job[c].csum THEN job[c].len ELSE 0]
  /\ UNCHANGED <<fixed, sender, client, wire, receiver, server, aborted, chunks, reports, disk,
                 crashes>>

\* ServerReq::Start, then Downloader::open: created, or truncated, at offset 0.
JobStart(c) ==
  /\ JobAt(c, "start")
  /\ IF sv[c] = "run" THEN SendC(c, <<Msg("Start", job[c].offset, <<>>)>>) ELSE toC' = toC
  /\ IF job[c].offset = 0
     THEN LET i == IF tmp = NoIno THEN c ELSE tmp IN
          /\ tmp' = i
          /\ ino' = [ino EXCEPT ![i] = <<>>]
          /\ job' = [job EXCEPT ![c].pc = "recv", ![c].fd = i]
          /\ UNCHANGED aborted
     ELSE /\ UNCHANGED <<tmp, ino>>
          /\ IF tmp = NoIno
             THEN JobTo(c, "bad")
             ELSE /\ job' = [job EXCEPT ![c].pc = "recv", ![c].fd = tmp,
                                        ![c].received = job[c].offset]
                  /\ UNCHANGED aborted
  /\ UNCHANGED <<fixed, sender, client, toS, receiver, server, chunks, reports, dest, crashes>>

\* write_all: at the end with O_APPEND, otherwise where this descriptor is.
Written(old, pos, data, append) ==
  IF append THEN old \o data
  ELSE [i \in 1 .. Max({Len(old), pos + Len(data)}) |->
          IF i > pos /\ i <= pos + Len(data) THEN data[i - pos]
          ELSE IF i <= Len(old) THEN old[i] ELSE <<-1, 0>>]

\* A chunk that goes past the size is MismatchedSize.
JobChunk(c) ==
  /\ JobAt(c, "recv")
  /\ job[c].received < size
  /\ chunks[c] # <<>>
  /\ chunks' = [chunks EXCEPT ![c] = Tail(@)]
  /\ LET d == Head(chunks[c])
         j == job[c]
     IN IF j.received + Len(d) > size
        THEN RemoveTemp /\ JobTo(c, "bad") /\ UNCHANGED ino
        ELSE /\ ino' = [ino EXCEPT ![j.fd] = Written(@, j.received, d, j.offset > 0)]
             /\ job' = [job EXCEPT ![c].received = @ + Len(d)]
             /\ UNCHANGED <<tmp, aborted>>
  /\ UNCHANGED <<fixed, sender, client, wire, receiver, server, reports, dest, crashes>>

\* Mutant: the loop ends one block early.
JobReceived_Early(c) ==
  /\ JobAt(c, "recv")
  /\ job[c].received >= size - 1
  /\ JobTo(c, "check")
  /\ UNCHANGED <<fixed, sender, client, wire, receiver, server, chunks, reports, disk, crashes>>

\* Everything is there: the descriptor is closed.
JobReceived(c) ==
  /\ JobAt(c, "recv")
  /\ job[c].received = size
  /\ JobTo(c, "check")
  /\ UNCHANGED <<fixed, sender, client, wire, receiver, server, chunks, reports, disk, crashes>>

\* v2: Downloader::validate accepts everything.
ValidV2 == TRUE

\* Mutant: only the size is compared.
ValidV4_SizeOnly(c) == tmp # NoIno /\ Len(ino[tmp]) = size

\* v4, v6: the file with that name has the full checksum.
ValidV4(c) == tmp # NoIno /\ ino[tmp] = cell[c]

JobValidate(c) ==
  /\ JobAt(c, "check")
  /\ ver = "v2" \/ tmp = NoIno \/ cell[c] # NoSum
  /\ IF IF ver = "v2" THEN ValidV2 ELSE ValidV4(c)
     THEN JobTo(c, "place") /\ UNCHANGED tmp
     ELSE JobTo(c, "bad") /\ RemoveTemp
  /\ UNCHANGED <<fixed, sender, client, wire, receiver, server, chunks, reports, ino, dest,
                 crashes>>

\* The close was answered: incoming_remove.
Removed == \E c \in Conns : sv[c] \in {"ok", "fin"}

\* place_file_into_dest: the rename; it fails if the name is gone.
JobPlace(c) ==
  /\ JobAt(c, "place")
  /\ ~Removed
  /\ IF tmp = NoIno
     THEN JobTo(c, "bad") /\ UNCHANGED <<tmp, dest>>
     ELSE /\ JobTo(c, "ok")
          /\ dest' = dest \cup {[ino |-> tmp, csum |-> IF ver = "v2" THEN ino[tmp] ELSE cell[c]]}
          /\ tmp' = NoIno
  /\ UNCHANGED <<fixed, sender, client, wire, receiver, server, chunks, reports, ino, crashes>>

\* Mutant: Done is sent and the post to the manager left out.
JobPost_Unposted(c) ==
  /\ JobAt(c, "ok") \/ JobAt(c, "bad")
  /\ IF sv[c] = "run" THEN SendC(c, <<Note(IF JobAt(c, "ok") THEN "Done" ELSE "Error")>>)
                      ELSE UNCHANGED toC
  /\ JobEnds(c)
  /\ UNCHANGED <<fixed, sender, client, toS, receiver, server, disk, crashes>>

\* The part that is not interrupted: incoming_finish_post, then Done or Fail,
\* whatever the post returned.
JobPost(c) ==
  /\ JobAt(c, "ok") \/ JobAt(c, "bad")
  /\ rstat' = IF rstat \in Ended \/ closed THEN rstat
              ELSE IF JobAt(c, "ok") THEN "Completed" ELSE "Failed"
  /\ IF sv[c] = "run" THEN SendC(c, <<Note(IF JobAt(c, "ok") THEN "Done" ELSE "Error")>>)
                      ELSE UNCHANGED toC
  /\ JobEnds(c)
  /\ UNCHANGED <<fixed, sender, client, toS, closed, dbsum, saves, conn, server, disk, crashes>>

\* Error::Canceled: a channel whose sender is gone is empty, or prepare_abs_path does
\* not find the transfer.  Or the abort has reached the job.  The temporary file stays.
JobCanceled(c) ==
  /\ \/ job[c].pc \in Abortable /\ aborted[c]
     \/ JobAt(c, "place") /\ Removed
     \/ JobAt(c, "partial") /\ ~held[c] /\ reports[c] = <<>>
     \/ JobAt(c, "recv") /\ ~held[c] /\ chunks[c] = <<>> /\ job[c].received < size
  /\ JobEnds(c)
  /\ UNCHANGED <<fixed, sender, client, wire, receiver, server, disk, crashes>>

-----------------------------------------------------------------------------
(* The receiver's application, and the end of its loops.                   *)

\* Service::reject: incoming_rejection_post, the temporary file is removed, and
\* the loop's issue_reject sends the message and stops the task.
ApiReject ==
  /\ "reject" \in ApiCalls
  /\ Known
  /\ rstat \in {"Idle", "InFlight"}
  /\ rstat' = "Rejected"
  /\ RemoveTemp
  /\ IF Live THEN SendC(conn, <<RejectMsg>>) /\ StopTask(conn)
             ELSE UNCHANGED <<toC, held, aborted>>
  /\ UNCHANGED <<fixed, sender, client, toS, closed, dbsum, saves, conn, sv, cell, job, chunks,
                 reports, ino, dest, crashes>>

\* Service::cancel_all: on_close drops the FileTask, the job is not aborted.
ApiCancel ==
  /\ "cancel" \in ApiCalls
  /\ Known
  /\ closed' = TRUE
  /\ IF Live
     THEN /\ SendC(conn, <<Note("Close")>>)
          /\ sv' = [sv EXCEPT ![conn] = "drain"]
          /\ held' = [held EXCEPT ![conn] = FALSE]
     ELSE UNCHANGED <<toC, sv, held>>
  /\ UNCHANGED <<fixed, sender, client, toS, rstat, dbsum, saves, conn, cell, task, disk, crashes>>

Leave(c, how) ==
  /\ sv' = [sv EXCEPT ![c] = how]
  /\ toS' = [toS EXCEPT ![c] = <<>>]
  /\ aborted' = [aborted EXCEPT ![c] = job[c].pc \in Abortable]

\* The socket is drained: the client is gone.
Drained(c) ==
  /\ sv[c] = "drain"
  /\ cl[c] = "closed"
  /\ Leave(c, "ok")
  /\ UNCHANGED <<fixed, sender, client, toC, receiver, cell, held, job, chunks, reports, disk,
                 crashes>>

\* The server notices that the connection is broken.
ServerBreak(c) ==
  /\ sv[c] \in {"run", "drain"}
  /\ c < MaxConns \/ cl[c] = "end"
  /\ Leave(c, "err")
  /\ UNCHANGED <<fixed, sender, client, toC, receiver, cell, held, job, chunks, reports, disk,
                 crashes>>

\* v2 leaves what is there; v4, v6: finalize_success removes the temporary file.
FinalizeSuccessV2 == UNCHANGED tmp
FinalizeSuccessV4 == RemoveTemp

\* Mutant: the job is not waited for.
Finalize_NoWait(c) ==
  /\ sv[c] \in {"ok", "err"}
  /\ IF sv[c] = "err" THEN UNCHANGED tmp
     ELSE IF ver = "v2" THEN FinalizeSuccessV2 ELSE FinalizeSuccessV4
  /\ sv' = [sv EXCEPT ![c] = IF @ = "ok" THEN "fin" ELSE "end"]
  /\ held' = [held EXCEPT ![c] = FALSE]
  /\ conn' = IF conn = c THEN NoConn ELSE conn
  /\ UNCHANGED <<fixed, sender, client, wire, rstat, closed, dbsum, saves, cell, task, ino, dest,
                 crashes>>

\* jobs.shutdown() has waited for the job.
Finalize(c) ==
  /\ sv[c] \in {"ok", "err"}
  /\ job[c].pc \notin Abortable
  /\ IF sv[c] = "err" THEN UNCHANGED tmp
     ELSE IF ver = "v2" THEN FinalizeSuccessV2 ELSE FinalizeSuccessV4
  /\ sv' = [sv EXCEPT ![c] = IF @ = "ok" THEN "fin" ELSE "end"]
  /\ held' = [held EXCEPT ![c] = FALSE]
  /\ conn' = IF conn = c THEN NoConn ELSE conn
  /\ UNCHANGED <<fixed, sender, client, wire, rstat, closed, dbsum, saves, cell, task, ino, dest,
                 crashes>>

\* The receiver is killed and started again: what is on disk is left.  (Bound:
\* there is a connection to come.)
Crash ==
  /\ crashes < MaxCrashes
  /\ cl[MaxConns] = "off"
  /\ crashes' = crashes + 1
  /\ sv' = [c \in Conns |-> IF sv[c] \in {"off", "fin"} THEN sv[c] ELSE "end"]
  /\ toS' = [c \in Conns |-> <<>>]
  /\ held' = [c \in Conns |-> FALSE]
  /\ aborted' = [c \in Conns |-> FALSE]
  /\ job' = [c \in Conns |-> IF job[c].pc = "none" THEN NoJob ELSE JobEnd]
  /\ chunks' = [c \in Conns |-> <<>>]
  /\ reports' = [c \in Conns |-> <<>>]
  /\ conn' = NoConn
  /\ saves' = {}
  /\ UNCHANGED <<fixed, sender, client, toC, rstat, closed, dbsum, cell, disk>>

Environment ==
  \/ ApiDownload \/ Modify \/ ApiSenderReject \/ ApiReject \/ ApiCancel \/ Crash
  \/ \E c \in Conns : (sv[c] # "end" /\ ClientBreak(c)) \/ (cl[c] # "end" /\ ServerBreak(c))

Running ==
  \/ SaveChecksum
  \/ \E c \in Conns :
       \/ Connect(c) \/ ConnectClosed(c)
       \/ RecvReqChsum(c) \/ ReportChsum(c) \/ RecvStart(c) \/ UploadOpen(c) \/ UploadChunk(c)
       \/ UploadDone(c) \/ UploadFail(c) \/ RecvVerdict(c) \/ RecvCancelC(c) \/ RecvClose(c)
       \/ sv[c] = "end" /\ ClientBreak(c)
       \/ RecvChunk(c) \/ RecvReportChsum(c) \/ RecvError(c) \/ RecvReject(c) \/ RecvCancel(c)
       \/ JobInit(c) \/ JobPartial(c) \/ JobFull(c) \/ JobStart(c) \/ JobChunk(c)
       \/ JobReceived(c) \/ JobValidate(c) \/ JobPlace(c) \/ JobPost(c) \/ JobCanceled(c)
       \/ Drained(c) \/ Finalize(c)
       \/ cl[c] = "end" /\ ServerBreak(c)

Next == Environment \/ Running
Spec == Init /\ [][Next]_vars
FairSpec == Spec /\ WF_vars(Running)

-----------------------------------------------------------------------------
\* A file that was moved to its destination has the size that was offered and is,
\* and stays, what passed the validation; if the sender's file was never touched
\* it is that file.  Resumptions, retries, late descriptors and half-checked
\* versions must all not matter.
PlacedIntact ==
  \A d \in dest : /\ Len(ino[d.ino]) = size
                  /\ ino[d.ino] = d.csum
                  /\ src.mtime = 0 => d.csum = Blocks(0, size)

\* The sender believes a file was delivered only if the receiver has it on disk, and
\* with v6 and an untouched source agrees, whatever was lost, resent or killed in
\* between.
DeliveredIsPlaced ==
  sstat = "Completed" => dest # {} /\ (ver = "v6" /\ src.mtime = 0 => rstat = "Completed")

\* No connection, crash or resumption makes a download fail: with an untouched
\* source and no rejection neither side ever calls the file failed.
NoFalseFailure ==
  src.mtime = 0 /\ "Rejected" \notin {sstat, rstat} => sstat # "Failed" /\ rstat # "Failed"

\* The connection broke, or the receiver was killed, after the sender took the Close
\* and before the receiver saw its answer: the sender does not come back.
CloseBroken == \E c \in Conns : cl[c] = "closed" /\ sv[c] \in {"err", "end"}

\* A canceled transfer ends with its temporary file removed for good (v4, v6), also
\* if the connection breaks first and the close has to be repeated.
CancelCleansUp == (closed /\ ver # "v2") ~> ([](tmp = NoIno) \/ CloseBroken)

\* With v6 a download that was asked for ends on both sides, or the transfer is
\* canceled: no lost checksum report, chunk or verdict leaves a side waiting.
DownloadSettles ==
  (ver = "v6" /\ rstat = "InFlight") ~> (closed \/ (rstat \in Ended /\ sstat \in Ended))

\* MismatchedSize, "The file size has changed since adding it to the transfer. The
\* original file was modified while not in flight in such a way that its size changed":
\* a download of a file whose size has changed comes to an end.
SizeChangeIsReported ==
  (rstat = "InFlight" /\ src.len # size) ~> (closed \/ rstat \in Ended)

\* "Checksum validation at the end of download" (changelog): what is moved to the
\* destination is what was validated.  Here with connections that overlap.
ValidatedIsPlaced == \A d \in dest : ino[d.ino] = d.csum
=============================================================================
