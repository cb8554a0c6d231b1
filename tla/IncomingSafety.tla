-------------------------- MODULE IncomingSafety --------------------------
(***************************************************************************)
(* The safety theorems of the receiving side.                              *)
(***************************************************************************)
EXTENDS IncomingProofs

-----------------------------------------------------------------------------
(* What the operations on the queues do to the set of their elements.      *)

LEMMA PushRange ==
  ASSUME reqs \in [Conns -> Seq(Reqs)], NEW c, NEW r \in Reqs, NEW d \in Conns
  PROVE  Range(Push(c, r)[d]) \subseteq Range(reqs[d]) \cup {r}
  <1>1. Push(c, r)[d] = reqs[d] \/ Push(c, r)[d] = Append(reqs[d], r)
    BY DEF Push, Open
  <1>2. reqs[d] \in Seq(Reqs)
    OBVIOUS
  <1>3. Range(Append(reqs[d], r)) = Range(reqs[d]) \cup {r}
    BY <1>2, AppendRange
  <1> QED
    BY <1>1, <1>3

LEMMA ReportRange ==
  ASSUME evq \in Seq(EventSet), NEW p, NEW k, NEW f, Ev(k, f) \in EventSet,
         Report(p, k, f)
  PROVE  Range(evq') \subseteq Range(evq) \cup {Ev(k, f)}
  <1>1. evq' \in {evq, Append(evq, Ev(k, f))}
    BY DEF Report, Emit
  <1>2. Range(Append(evq, Ev(k, f))) = Range(evq) \cup {Ev(k, f)}
    BY AppendRange
  <1> HIDE DEF Ev
  <1>3. CASE evq' = evq
    BY <1>3
  <1>4. CASE evq' = Append(evq, Ev(k, f))
    BY <1>2, <1>4
  <1> QED
    BY <1>1, <1>3, <1>4

LEMMA PopRange ==
  ASSUME reqs \in [Conns -> Seq(Reqs)], NEW c \in Conns, NEW k, HasReq(c, k), Pop(c)
  PROVE  \A d \in Conns : Range(reqs'[d]) \subseteq Range(reqs[d])
  <1>1. reqs[c] # <<>> /\ reqs' = [reqs EXCEPT ![c] = Tail(reqs[c])]
    BY DEF HasReq, Pop
  <1> QED
    BY <1>1, TailRange

-----------------------------------------------------------------------------
(* What is reported as completed is on disk.                               *)

\* CompletedOnDisk is not inductive: the claim travels from the job through
\* the manager, the event queue and the database.  Every carrier of it implies
\* that the file was moved.
CompletedInv ==
  \A f \in Files :
    /\ file[f] = "Completed" => f \in placed
    /\ "Completed" \in db.hist[f] => f \in placed
    /\ "Completed" \in told[f] => f \in placed
    /\ \A c \in Conns : job[c][f] \in {"ok", "okpost"} => f \in placed
    /\ \A c \in Conns : Req("Done", f) \in Range(reqs[c]) => f \in placed
    /\ Ev("Completed", f) \in Range(evq) => f \in placed

LEMMA ReqsDiffer ==
  /\ \A f : Close # Req("Done", f)
  /\ \A k, f, g : Req(k, f) = Req("Done", g) => k = "Done" /\ f = g
  BY DEF Close, Req

LEMMA EventsDiffer ==
  /\ \A k, f, g : Ev(k, f) = Ev("Completed", g) => k = "Completed" /\ f = g
  /\ \A e \in EventSet, f \in Files : e.k = "Completed" /\ e.f = f => e = Ev("Completed", f)
  BY DEF Ev, EventSet, TransferEvents

LEMMA TerminateKeeps ==
  ASSUME TypeOK, NEW f \in Files, NEW v \in Verdicts, Terminate(f, v)
  PROVE  db'.hist = db.hist /\ file' = [file EXCEPT ![f] = v]
  <1>1. update_file_sync_states(db, f) \in Rows
    BY RowsTyped DEF TypeOK, Verdicts
  <1> QED
    BY <1>1, HistKept DEF Terminate, TypeOK

LEMMA RemoveKeeps ==
  ASSUME TypeOK, Remove
  PROVE  db'.hist = db.hist /\ \A f \in Files : file'[f] = "Idle"
  BY DEF Remove, TypeOK, transfer_sync_clear, Rows

LEMMA JobToKeeps ==
  ASSUME TypeOK, NEW c \in Conns, NEW f \in Files, NEW s, JobTo(c, f, s)
  PROVE  /\ job'[c][f] = s
         /\ \A d \in Conns, g \in Files : d # c \/ g # f => job'[d][g] = job[d][g]
  BY DEF JobTo, TypeOK

LEMMA ResumeRange ==
  ASSUME TypeOK, CompletedInv, NEW s \in Orders(Unsettled)
  PROVE  LET m == [i \in DOMAIN s |-> PendingReq(s[i])]
         IN  /\ m \in Seq(Reqs)
             /\ \A f \in Files : Req("Done", f) \in Range(m) => f \in placed
  <1> DEFINE m == [i \in DOMAIN s |-> PendingReq(s[i])]
  <1>1. s \in Seq(Files)
    BY OrdersTyped DEF Unsettled
  <1>2. m \in [1 .. Len(s) -> Reqs]
    BY <1>1 DEF PendingReq, Req, Reqs
  <1>3. m \in Seq(Reqs)
    BY <1>1, <1>2
  <1>4. \A f, g \in Files : PendingReq(g) = Req("Done", f) => f \in placed
    BY DEF PendingReq, Req, CompletedInv
  <1>5. \A f \in Files : Req("Done", f) \in Range(m) => f \in placed
    BY <1>1, <1>4 DEF Range
  <1> QED
    BY <1>3, <1>5

LEMMA FinalizeRange ==
  ASSUME TypeOK, NEW c \in Conns, LoopFinalize(c)
  PROVE  Range(evq') \subseteq Range(evq) \cup {Ev("Paused", f) : f \in Files}
  <1>1. PICK s \in Orders(Paused(c)) :
          evq' = IF "Paused" \in Reported
                 THEN evq \o [i \in DOMAIN s |-> Ev("Paused", s[i])] ELSE evq
    BY DEF LoopFinalize
  <1>2. s \in Seq(Files)
    BY <1>1, OrdersTyped DEF Paused, TypeOK
  <1> DEFINE m == [i \in DOMAIN s |-> Ev("Paused", s[i])]
  <1>3. m \in [1 .. Len(s) -> EventSet]
    BY <1>2, EventsTyped DEF FileEvents
  <1>4. m \in Seq(EventSet)
    BY <1>2, <1>3
  <1>5. \A i \in DOMAIN m : m[i] \in {Ev("Paused", f) : f \in Files}
    BY <1>2
  <1> HIDE DEF m
  <1>6. Range(evq \o m) \subseteq Range(evq) \cup {Ev("Paused", f) : f \in Files}
    <2>1. ASSUME NEW i \in DOMAIN (evq \o m)
          PROVE  (evq \o m)[i] \in Range(evq) \cup {Ev("Paused", f) : f \in Files}
      <3>1. evq \in Seq(EventSet)
        BY DEF TypeOK
      <3>2. CASE i \in DOMAIN evq
        BY <3>1, <3>2, <1>4 DEF Range
      <3>3. CASE i \notin DOMAIN evq
        <4>1. i - Len(evq) \in DOMAIN m /\ (evq \o m)[i] = m[i - Len(evq)]
          BY <3>1, <3>3, <1>4
        <4> QED
          BY <4>1, <1>5
      <3> QED
        BY <3>2, <3>3
    <2> QED
      BY <2>1 DEF Range
  <1> QED
    BY <1>1, <1>6 DEF m

LEMMA StoredHist ==
  ASSUME TypeOK, NEW e \in EventSet, NEW f \in Files
  PROVE  "Completed" \in StoredBy(e).hist[f] =>
           "Completed" \in db.hist[f] \/ (e.k = "Completed" /\ e.f = f)
  <1>1. db.hist \in [Files -> SUBSET Verdicts]
    BY DEF TypeOK, Rows
  <1>2. CASE e.k \in Verdicts
    <2>1. e.f \in Files
      BY <1>2 DEF EventSet, TransferEvents, Verdicts
    <2>2. StoredBy(e) = insert_path_state(db, e.f, e.k)
      BY <1>2 DEF StoredBy, Verdicts, Cancelation
    <2>3. CASE db.row
      <3>1. insert_path_state(db, e.f, e.k).hist = [db.hist EXCEPT ![e.f] = @ \cup {e.k}]
        BY <2>3 DEF insert_path_state, TypeOK, Rows
      <3> QED
        BY <1>1, <2>1, <2>2, <3>1
    <2>4. CASE ~db.row
      BY <2>2, <2>4 DEF insert_path_state
    <2> QED
      BY <2>3, <2>4
  <1>3. CASE e.k \notin Verdicts
    <2>1. StoredBy(e) = db \/ StoredBy(e) = insert_transfer_cancel_state(db)
      BY <1>3 DEF StoredBy
    <2> QED
      BY <2>1 DEF insert_transfer_cancel_state, TypeOK, Rows
  <1> QED
    BY <1>2, <1>3

LEMMA RestoredCompleted ==
  ASSUME NEW d, NEW f, RestoredFile(d, f) = "Completed"
  PROVE  "Completed" \in d.hist[f]
  BY DEF RestoredFile, RestoredVerdict

\* A step that adds no claim on a file that is not placed keeps the invariant.
LEMMA CompletedFrame ==
  ASSUME CompletedInv, placed \subseteq placed',
         \A f \in Files : file'[f] = "Completed" => file[f] = "Completed" \/ f \in placed',
         \A f \in Files : "Completed" \in db'.hist[f] =>
                           "Completed" \in db.hist[f] \/ f \in placed',
         \A f \in Files : "Completed" \in told'[f] =>
                           "Completed" \in told[f] \/ f \in placed',
         \A c \in Conns, f \in Files :
           job'[c][f] \in {"ok", "okpost"} => job[c][f] \in {"ok", "okpost"} \/ f \in placed',
         \A c \in Conns, f \in Files :
           Req("Done", f) \in Range(reqs'[c]) =>
             Req("Done", f) \in Range(reqs[c]) \/ f \in placed',
         \A f \in Files : Ev("Completed", f) \in Range(evq') =>
                           Ev("Completed", f) \in Range(evq) \/ f \in placed'
  PROVE  CompletedInv'
  BY DEF CompletedInv

LEMMA JobMoves ==
  ASSUME TypeOK, NEW c \in Conns, NEW f \in Files, NEW s, JobTo(c, f, s),
         s \in {"ok", "okpost"} => f \in placed'
  PROVE  \A d \in Conns, g \in Files :
           job'[d][g] \in {"ok", "okpost"} => job[d][g] \in {"ok", "okpost"} \/ g \in placed'
  <1> SUFFICES ASSUME NEW d \in Conns, NEW g \in Files, job'[d][g] \in {"ok", "okpost"}
               PROVE  job[d][g] \in {"ok", "okpost"} \/ g \in placed'
    OBVIOUS
  <1>1. CASE d = c /\ g = f
    BY <1>1, JobToKeeps
  <1>2. CASE d # c \/ g # f
    BY <1>2, JobToKeeps
  <1> QED
    BY <1>1, <1>2

\* A crash keeps what is on disk and in the database.
LEMMA DownFrame ==
  ASSUME CompletedInv, Down,
         \A f \in Files : "Completed" \in db'.hist[f] =>
                           "Completed" \in db.hist[f] \/ f \in placed
  PROVE  CompletedInv'
  <1>1. /\ placed' = placed
        /\ told' = told
        /\ \A f \in Files : file'[f] = "Idle"
        /\ \A c \in Conns : reqs'[c] = <<>> /\ \A f \in Files : job'[c][f] = "none"
        /\ evq' = <<>>
    BY DEF Down, disk, ghost
  <1> QED
    BY <1>1, EmptyRange, CompletedFrame

LEMMA CompletedStep == TypeOK /\ CompletedInv /\ [Next]_vars => CompletedInv'
  <1> SUFFICES ASSUME TypeOK, CompletedInv, [Next]_vars PROVE CompletedInv'
    OBVIOUS
  <1> USE DEF mgr, loops, jobs, events, calls, disk, ghost
  <1>1. ASSUME NEW c \in Conns, RegisterRefused(c)
       PROVE  CompletedInv'
    BY <1>1, CompletedFrame DEF RegisterRefused
  <1>2. ASSUME NEW c \in Conns, RegisterResume(c)
       PROVE  CompletedInv'
    <2>1. PICK s \in Orders(Unsettled) :
            reqs' = [reqs EXCEPT ![c] =
                       IF xfer = "Canceled"
                       THEN Append([i \in DOMAIN s |-> PendingReq(s[i])], Close)
                       ELSE [i \in DOMAIN s |-> PendingReq(s[i])]]
      BY <1>2 DEF RegisterResume
    <2> DEFINE m == [i \in DOMAIN s |-> PendingReq(s[i])]
    <2>2. m \in Seq(Reqs) /\ \A f \in Files : Req("Done", f) \in Range(m) => f \in placed
      BY ResumeRange, <2>1
    <2>3. reqs' = [reqs EXCEPT ![c] = m] \/ reqs' = [reqs EXCEPT ![c] = Append(m, Close)]
      BY <2>1
    <2> HIDE DEF m
    <2>4. \A f \in Files : Req("Done", f) \in Range(Append(m, Close)) => f \in placed
      BY <2>2, AppendRange, ReqsTyped, ReqsDiffer
    <2>5. \A d \in Conns, f \in Files :
            Req("Done", f) \in Range(reqs'[d]) => Req("Done", f) \in Range(reqs[d]) \/ f \in placed
      BY <2>2, <2>3, <2>4 DEF TypeOK
    <2> QED
      BY <1>2, <2>5, CompletedFrame DEF RegisterResume
  <1>3. ASSUME NEW c \in Conns, RegisterClosed(c)
       PROVE  CompletedInv'
    <2>1. \A d \in Conns : reqs'[d] = reqs[d] \/ reqs'[d] = <<Close>>
      BY <1>3 DEF RegisterClosed, TypeOK
    <2> QED
      BY <1>3, <2>1, SingleRange, ReqsDiffer, CompletedFrame DEF RegisterClosed
  <1>4. ASSUME NEW c \in Conns, RegisterNew(c)
       PROVE  CompletedInv'
    <2>1. \A f \in Files : db'.hist[f] = {} /\ file'[f] = "Idle"
      BY <1>4 DEF RegisterNew, update_transfer_sync_states, insert_transfer, NoRows
    <2>2. Range(evq') \subseteq Range(evq) \cup {Ev("Received", NoFile)}
      BY <1>4, ReportRange, EventsTyped DEF RegisterNew, TransferEvents, TypeOK
    <2> QED
      BY <1>4, <2>1, <2>2, EventsDiffer, CompletedFrame DEF RegisterNew
  <1>5. ASSUME NEW c \in Conns, OnReqDownload(c)
       PROVE  CompletedInv'
    <2>1. \A d \in Conns : Range(reqs'[d]) \subseteq Range(reqs[d])
      BY <1>5, PopRange DEF OnReqDownload, TypeOK
    <2>2. \A d \in Conns, g \in Files :
            job'[d][g] \in {"ok", "okpost"} => job[d][g] \in {"ok", "okpost"}
      <3>1. job' = job \/ job' = [job EXCEPT ![c][Head(reqs[c]).f] = "spawned"]
        BY <1>5 DEF OnReqDownload
      <3>2. \A d \in Conns, g \in Files : job'[d][g] = job[d][g] \/ job'[d][g] = "spawned"
        <4> SUFFICES ASSUME NEW d \in Conns, NEW g \in Files
                     PROVE  job'[d][g] = job[d][g] \/ job'[d][g] = "spawned"
          OBVIOUS
        <4>1. job \in [Conns -> [Files -> JobState]]
          BY DEF TypeOK
        <4>2. CASE job' = job
          BY <4>2
        <4>3. CASE job' = [job EXCEPT ![c][Head(reqs[c]).f] = "spawned"]
          BY <4>1, <4>3
        <4> QED
          BY <3>1, <4>2, <4>3
      <3> QED
        BY <3>2
    <2> QED
      BY <1>5, <2>1, <2>2, CompletedFrame DEF OnReqDownload
  <1>6. ASSUME NEW c \in Conns, OnReqSend(c)
       PROVE  CompletedInv'
    <2>1. \A d \in Conns : Range(reqs'[d]) \subseteq Range(reqs[d])
      BY <1>6, PopRange DEF OnReqSend, TypeOK
    <2> QED
      BY <1>6, <2>1, CompletedFrame DEF OnReqSend
  <1>7. ASSUME NEW c \in Conns, OnReqReject(c)
       PROVE  CompletedInv'
    <2>1. \A d \in Conns : Range(reqs'[d]) \subseteq Range(reqs[d])
      BY <1>7, PopRange DEF OnReqReject, TypeOK
    <2> QED
      BY <1>7, <2>1, CompletedFrame DEF OnReqReject
  <1>8. ASSUME NEW c \in Conns, OnReqClose(c)
       PROVE  CompletedInv'
    <2>1. \A d \in Conns : Range(reqs'[d]) \subseteq Range(reqs[d])
      BY <1>8, PopRange DEF OnReqClose, TypeOK
    <2> QED
      BY <1>8, <2>1, CompletedFrame DEF OnReqClose
  <1>9. ASSUME NEW c \in Conns, Drained(c)
       PROVE  CompletedInv'
    BY <1>9, RemoveKeeps, CompletedFrame DEF Drained
  <1>10. ASSUME NEW c \in Conns, LinkBroken(c)
       PROVE  CompletedInv'
    BY <1>10, CompletedFrame DEF LinkBroken
  <1>11. ASSUME NEW c \in Conns, RecvClose(c)
       PROVE  CompletedInv'
    BY <1>11, CompletedFrame DEF RecvClose
  <1>12. ASSUME NEW c \in Conns, RecvCloseRemove(c)
       PROVE  CompletedInv'
    BY <1>12, RemoveKeeps, CompletedFrame DEF RecvCloseRemove
  <1>13. ASSUME NEW c \in Conns, RecvCloseCancel(c)
       PROVE  CompletedInv'
    <2>1. Range(evq') \subseteq Range(evq) \cup {Ev("CanceledByPeer", NoFile)}
      BY <1>13, ReportRange, EventsTyped DEF RecvCloseCancel, TransferEvents, TypeOK
    <2>2. \A g \in Files : Ev("Completed", g) # Ev("CanceledByPeer", NoFile)
      BY EventsDiffer
    <2> QED
      BY <1>13, <2>1, <2>2, CompletedFrame DEF RecvCloseCancel, Break
  <1>14. ASSUME NEW c \in Conns, NEW f \in Files, RecvReject(c, f)
       PROVE  CompletedInv'
    <2>1. db'.hist = db.hist /\ (file' = file \/ file' = [file EXCEPT ![f] = "Rejected"])
      BY <1>14, TerminateKeeps DEF RecvReject, TerminalRecv, Verdicts
    <2>2. \A g \in Files : file'[g] = "Completed" => file[g] = "Completed"
      BY <2>1 DEF TypeOK
    <2> QED
      BY <1>14, <2>1, <2>2, CompletedFrame DEF RecvReject
  <1>15. ASSUME NEW c \in Conns, RecvRejectStop(c)
       PROVE  CompletedInv'
    BY <1>15, CompletedFrame DEF RecvRejectStop
  <1>16. ASSUME NEW c \in Conns, RecvRejectEmit(c)
       PROVE  CompletedInv'
    <2>1. pc[c].f \in Files
      BY <1>16, PcTyped DEF RecvRejectEmit, At, TypeOK
    <2>2. Range(evq') \subseteq Range(evq) \cup {Ev("Rejected", pc[c].f)}
      BY <1>16, <2>1, ReportRange, EventsTyped DEF RecvRejectEmit, FileEvents, Verdicts, TypeOK
    <2>3. \A g \in Files : Ev("Completed", g) # Ev("Rejected", pc[c].f)
      BY EventsDiffer
    <2> QED
      BY <1>16, <2>2, <2>3, CompletedFrame DEF RecvRejectEmit
  <1>17. ASSUME NEW c \in Conns, NEW f \in Files, RecvError(c, f)
       PROVE  CompletedInv'
    <2>1. db'.hist = db.hist /\ (file' = file \/ file' = [file EXCEPT ![f] = "Failed"])
      BY <1>17, TerminateKeeps DEF RecvError, TerminalRecv, Verdicts
    <2>2. \A g \in Files : file'[g] = "Completed" => file[g] = "Completed"
      BY <2>1 DEF TypeOK
    <2> QED
      BY <1>17, <2>1, <2>2, CompletedFrame DEF RecvError
  <1>18. ASSUME NEW c \in Conns, RecvErrorEmit(c)
       PROVE  CompletedInv'
    <2>1. pc[c].f \in Files
      BY <1>18, PcTyped DEF RecvErrorEmit, At, TypeOK
    <2>2. Range(evq') \subseteq Range(evq) \cup {Ev("Failed", pc[c].f)}
      BY <1>18, <2>1, ReportRange, EventsTyped DEF RecvErrorEmit, FileEvents, Verdicts, TypeOK
    <2>3. \A g \in Files : Ev("Completed", g) # Ev("Failed", pc[c].f)
      BY EventsDiffer
    <2> QED
      BY <1>18, <2>2, <2>3, CompletedFrame DEF RecvErrorEmit
  <1>19. ASSUME NEW c \in Conns, RecvErrorStop(c)
       PROVE  CompletedInv'
    BY <1>19, CompletedFrame DEF RecvErrorStop
  <1>20. ASSUME NEW c \in Conns, NEW f \in Files, RecvCancel(c, f)
       PROVE  CompletedInv'
    <2>1. Range(evq') \subseteq Range(evq) \cup {Ev("Paused", f)}
      BY <1>20, ReportRange, EventsTyped DEF RecvCancel, FileEvents, TypeOK
    <2>2. \A g \in Files : Ev("Completed", g) # Ev("Paused", f)
      BY EventsDiffer
    <2> QED
      BY <1>20, <2>1, <2>2, CompletedFrame DEF RecvCancel
  <1>21. ASSUME NEW c \in Conns, LoopFinalize(c)
       PROVE  CompletedInv'
    <2>1. Range(evq') \subseteq Range(evq) \cup {Ev("Paused", f) : f \in Files}
      BY <1>21, FinalizeRange
    <2>2. \A d \in Conns : reqs'[d] = reqs[d] \/ reqs'[d] = <<>>
      BY <1>21 DEF LoopFinalize, TypeOK
    <2>3. \A f \in Files : Ev("Completed", f) \in Range(evq') => Ev("Completed", f) \in Range(evq)
      BY <2>1, EventsDiffer
    <2> QED
      BY <1>21, <2>2, <2>3, EmptyRange, CompletedFrame DEF LoopFinalize
  <1>22. ASSUME NEW c \in Conns, Disconnect(c)
       PROVE  CompletedInv'
    BY <1>22, CompletedFrame DEF Disconnect
  <1>23. ASSUME NEW c \in Conns, NEW f \in Files, JobAborted(c, f)
       PROVE  CompletedInv'
    BY <1>23, JobMoves, CompletedFrame DEF JobAborted
  <1>24. ASSUME NEW c \in Conns, NEW f \in Files, JobPreflight(c, f)
       PROVE  CompletedInv'
    BY <1>24, JobMoves, CompletedFrame DEF JobPreflight
  <1>25. ASSUME NEW c \in Conns, NEW f \in Files, JobStart(c, f)
       PROVE  CompletedInv'
    <2>1. \A d \in Conns : Range(reqs'[d]) \subseteq Range(reqs[d]) \cup {Req("Start", f)}
      BY <1>25, PushRange, ReqsTyped DEF JobStart, TypeOK
    <2>2. Range(evq') \subseteq Range(evq) \cup {Ev("Started", f)}
      BY <1>25, ReportRange, EventsTyped DEF JobStart, FileEvents, TypeOK
    <2>3. \A g \in Files : /\ Ev("Completed", g) # Ev("Started", f)
                          /\ Req("Done", g) # Req("Start", f)
      BY EventsDiffer, ReqsDiffer
    <2>4. JobTo(c, f, "stream")
      BY <1>25 DEF JobStart
    <2> QED
      BY <1>25, <2>1, <2>2, <2>3, <2>4, JobMoves, CompletedFrame DEF JobStart
  <1>26. ASSUME NEW c \in Conns, NEW f \in Files, JobPlace(c, f)
       PROVE  CompletedInv'
    <2>1. JobTo(c, f, "ok") /\ placed \subseteq placed' /\ f \in placed'
      BY <1>26 DEF JobPlace
    <2> QED
      BY <1>26, <2>1, JobMoves, CompletedFrame DEF JobPlace
  <1>27. ASSUME NEW c \in Conns, NEW f \in Files, JobCanceled(c, f)
       PROVE  CompletedInv'
    BY <1>27, JobMoves, CompletedFrame DEF JobCanceled
  <1>28. ASSUME NEW c \in Conns, NEW f \in Files, JobFail(c, f)
       PROVE  CompletedInv'
    BY <1>28, JobMoves, CompletedFrame DEF JobFail
  <1>29. ASSUME NEW c \in Conns, NEW f \in Files, JobPost(c, f)
       PROVE  CompletedInv'
    <2>1. db'.hist = db.hist
      BY <1>29, TerminateKeeps DEF JobPost, Verdicts
    <2>2. job[c][f] = "ok" => f \in placed
      BY DEF CompletedInv
    <2>3. \A g \in Files : file'[g] = "Completed" => file[g] = "Completed" \/ g \in placed
      BY <1>29, <2>2 DEF JobPost, Terminate, TypeOK
    <2>4. JobTo(c, f, IF job[c][f] = "ok" THEN "okpost" ELSE "badpost") /\ placed' = placed
      BY <1>29 DEF JobPost
    <2>5. \A d \in Conns, g \in Files :
            job'[d][g] \in {"ok", "okpost"} => job[d][g] \in {"ok", "okpost"} \/ g \in placed'
      BY <2>2, <2>4, JobMoves
    <2> QED
      BY <1>29, <2>1, <2>3, <2>5, CompletedFrame DEF JobPost
  <1>30. ASSUME NEW c \in Conns, NEW f \in Files, JobReport(c, f)
       PROVE  CompletedInv'
    <2>1. job[c][f] = "okpost" => f \in placed
      BY DEF CompletedInv
    <2>2. JobTo(c, f, "end") /\ placed' = placed
      BY <1>30 DEF JobReport
    <2>3. \A d \in Conns, g \in Files :
            job'[d][g] \in {"ok", "okpost"} => job[d][g] \in {"ok", "okpost"} \/ g \in placed'
      BY <2>2, JobMoves
    <2>4. CASE job[c][f] = "okpost"
      <3>1. /\ \A d \in Conns : Range(reqs'[d]) \subseteq Range(reqs[d]) \cup {Req("Done", f)}
            /\ Range(evq') \subseteq Range(evq) \cup {Ev("Completed", f)}
        BY <1>30, <2>4, PushRange, ReqsTyped, ReportRange, EventsTyped
           DEF JobReport, FileEvents, Verdicts, TypeOK
      <3>2. f \in placed
        BY <2>1, <2>4
      <3>3. /\ \A d \in Conns, g \in Files : Req("Done", g) \in Range(reqs'[d]) =>
                 Req("Done", g) \in Range(reqs[d]) \/ g \in placed
            /\ \A g \in Files : Ev("Completed", g) \in Range(evq') =>
                 Ev("Completed", g) \in Range(evq) \/ g \in placed
        <4>1. ASSUME NEW d \in Conns, NEW g \in Files, Req("Done", g) \in Range(reqs'[d])
              PROVE  Req("Done", g) \in Range(reqs[d]) \/ g \in placed
          <5>1. Req("Done", g) \in Range(reqs[d]) \/ Req("Done", g) = Req("Done", f)
            BY <3>1, <4>1
          <5>2. Req("Done", g) = Req("Done", f) => g = f
            BY ReqsDiffer
          <5> QED
            BY <5>1, <5>2, <3>2
        <4>2. ASSUME NEW g \in Files, Ev("Completed", g) \in Range(evq')
              PROVE  Ev("Completed", g) \in Range(evq) \/ g \in placed
          <5>1. Ev("Completed", g) \in Range(evq) \/ Ev("Completed", g) = Ev("Completed", f)
            BY <3>1, <4>2
          <5>2. Ev("Completed", g) = Ev("Completed", f) => g = f
            BY EventsDiffer
          <5> QED
            BY <5>1, <5>2, <3>2
        <4> QED
          BY <4>1, <4>2
      <3> QED
        BY <1>30, <2>3, <3>3, CompletedFrame DEF JobReport
    <2>5. CASE job[c][f] # "okpost"
      <3>1. /\ \A d \in Conns : Range(reqs'[d]) \subseteq Range(reqs[d]) \cup {Req("Fail", f)}
            /\ Range(evq') \subseteq Range(evq) \cup {Ev("Failed", f)}
        BY <1>30, <2>5, PushRange, ReqsTyped, ReportRange, EventsTyped
           DEF JobReport, FileEvents, Verdicts, TypeOK
      <3>2. \A g \in Files : /\ Ev("Completed", g) # Ev("Failed", f)
                            /\ Req("Done", g) # Req("Fail", f)
        BY EventsDiffer, ReqsDiffer
      <3> QED
        BY <1>30, <2>3, <3>1, <3>2, CompletedFrame DEF JobReport
    <2> QED
      BY <2>4, <2>5
  <1>31. ASSUME NEW f \in Files, ApiDownload(f)
       PROVE  CompletedInv'
    <2>1. \A d \in Conns : Range(reqs'[d]) \subseteq Range(reqs[d]) \cup {Req("Download", f)}
      BY <1>31, PushRange, ReqsTyped DEF ApiDownload, TypeOK
    <2>2. Range(evq') \subseteq Range(evq) \cup {Ev("Pending", f)}
      BY <1>31, ReportRange, EventsTyped DEF ApiDownload, FileEvents, TypeOK
    <2>3. \A g \in Files : /\ Ev("Completed", g) # Ev("Pending", f)
                          /\ Req("Done", g) # Req("Download", f)
      BY EventsDiffer, ReqsDiffer
    <2>4. db'.hist = db.hist
      BY <1>31, HistKept DEF ApiDownload, TypeOK
    <2>5. \A g \in Files : file'[g] = "Completed" => file[g] = "Completed"
      BY <1>31 DEF ApiDownload, TypeOK
    <2> QED
      BY <1>31, <2>1, <2>2, <2>3, <2>4, <2>5, CompletedFrame DEF ApiDownload
  <1>32. ASSUME NEW f \in Files, ApiReject(f)
       PROVE  CompletedInv'
    <2>1. \A d \in Conns : Range(reqs'[d]) \subseteq Range(reqs[d]) \cup {Req("Reject", f)}
      BY <1>32, PushRange, ReqsTyped DEF ApiReject, TypeOK
    <2>2. db'.hist = db.hist /\ file' = [file EXCEPT ![f] = "Rejected"]
      BY <1>32, TerminateKeeps DEF ApiReject, Verdicts
    <2>3. \A g \in Files : file'[g] = "Completed" => file[g] = "Completed"
      BY <2>2 DEF TypeOK
    <2>4. \A g \in Files : Req("Done", g) # Req("Reject", f)
      BY ReqsDiffer
    <2> QED
      BY <1>32, <2>1, <2>2, <2>3, <2>4, CompletedFrame DEF ApiReject
  <1>33. CASE ApiRejectEmit
    <2>1. api.f \in Files
      BY <1>33, ApiTyped DEF ApiRejectEmit, TypeOK
    <2>2. Range(evq') \subseteq Range(evq) \cup {Ev("Rejected", api.f)}
      BY <1>33, <2>1, ReportRange, EventsTyped DEF ApiRejectEmit, FileEvents, Verdicts, TypeOK
    <2>3. \A g \in Files : Ev("Completed", g) # Ev("Rejected", api.f)
      BY EventsDiffer
    <2> QED
      BY <1>33, <2>2, <2>3, CompletedFrame DEF ApiRejectEmit
  <1>34. CASE ApiCancel
    <2>1. \A d \in Conns : Range(reqs'[d]) \subseteq Range(reqs[d]) \cup {Close}
      BY <1>34, PushRange, ReqsTyped DEF ApiCancel, TypeOK
    <2>2. db'.hist = db.hist
      BY <1>34 DEF ApiCancel, update_transfer_sync_states, TypeOK, Rows
    <2>3. \A f \in Files : file'[f] = "Completed" => file[f] = "Completed"
      BY <1>34 DEF ApiCancel
    <2> QED
      BY <1>34, <2>1, <2>2, <2>3, ReqsDiffer, CompletedFrame DEF ApiCancel
  <1>35. CASE ApiCancelEmit
    <2>1. Range(evq') \subseteq Range(evq) \cup {Ev("Canceled", NoFile)}
      BY <1>35, ReportRange, EventsTyped DEF ApiCancelEmit, TransferEvents, TypeOK
    <2>2. \A g \in Files : Ev("Completed", g) # Ev("Canceled", NoFile)
      BY EventsDiffer
    <2> QED
      BY <1>35, <2>1, <2>2, CompletedFrame DEF ApiCancelEmit, Break
  <1>36. CASE ApiPurge
    <2>1. db'.hist = db.hist
      BY <1>36 DEF ApiPurge, purge_transfers, TypeOK, Rows
    <2> QED
      BY <1>36, <2>1, CompletedFrame DEF ApiPurge
  <1>37. CASE CheckDead
    BY <1>37, RemoveKeeps, CompletedFrame DEF CheckDead
  <1>38. CASE CheckGone
    BY <1>38, RemoveKeeps, CompletedFrame DEF CheckGone
  <1>39. CASE CheckEmit
    <2>1. Range(evq') \subseteq Range(evq) \cup {Ev("CanceledByPeer", NoFile)}
      BY <1>39, ReportRange, EventsTyped DEF CheckEmit, TransferEvents, TypeOK
    <2>2. \A g \in Files : Ev("Completed", g) # Ev("CanceledByPeer", NoFile)
      BY EventsDiffer
    <2> QED
      BY <1>39, <2>1, <2>2, CompletedFrame DEF CheckEmit, Break
  <1>40. CASE EventTask
    <2> DEFINE e == Head(evq)
    <2>1. e \in Range(evq) /\ Range(evq') \subseteq Range(evq) /\ e \in EventSet
      BY <1>40, TailRange DEF EventTask, TypeOK
    <2>2. \A f \in Files : e.k = "Completed" /\ e.f = f => f \in placed
      BY <2>1, EventsDiffer DEF CompletedInv
    <2>3. \A f \in Files : "Completed" \in db'.hist[f] => "Completed" \in db.hist[f] \/ f \in placed
      BY <1>40, <2>1, <2>2, StoredHist DEF EventTask
    <2>4. \A f \in Files : "Completed" \in told'[f] => "Completed" \in told[f] \/ f \in placed
      BY <1>40, <2>2 DEF EventTask, TypeOK
    <2> QED
      BY <1>40, <2>1, <2>3, <2>4, CompletedFrame DEF EventTask
  <1>41. CASE Crash
    BY <1>41, DownFrame DEF Crash
  <1>42. CASE CrashInRegister
    <2>1. \A f \in Files : db'.hist[f] = {}
      BY <1>42 DEF CrashInRegister, insert_transfer, NoRows
    <2> QED
      BY <1>42, <2>1, DownFrame DEF CrashInRegister
  <1>43. ASSUME NEW f \in Files, CrashInTerminate(f)
       PROVE  CompletedInv'
    <2>1. db'.hist = db.hist
      BY <1>43, HistKept DEF CrashInTerminate, TypeOK
    <2> QED
      BY <1>43, <2>1, DownFrame DEF CrashInTerminate
  <1>44. CASE CrashInEventTask
    <2> DEFINE e == Head(evq)
    <2>1. e \in Range(evq) /\ e \in EventSet
      BY <1>44, TailRange DEF CrashInEventTask, TypeOK
    <2>2. \A f \in Files : e.k = "Completed" /\ e.f = f => f \in placed
      BY <2>1, EventsDiffer DEF CompletedInv
    <2>3. \A f \in Files : "Completed" \in db'.hist[f] => "Completed" \in db.hist[f] \/ f \in placed
      BY <1>44, <2>1, <2>2, StoredHist DEF CrashInEventTask
    <2> QED
      BY <1>44, <2>3, DownFrame DEF CrashInEventTask
  <1>45. CASE Restart
    <2>1. \A f \in Files : "Completed" \in db'.hist[f] => "Completed" \in db.hist[f]
      BY <1>45 DEF Restart, cleanup_garbage_transfers, NoRows
    <2>2. \A f \in Files : file'[f] = "Completed" => file[f] = "Completed" \/ f \in placed
      BY <1>45, <2>1, RestoredCompleted DEF Restart, CompletedInv
    <2> QED
      BY <1>45, <2>1, <2>2, CompletedFrame DEF Restart
  <1>46. CASE UNCHANGED vars
    BY <1>46, CompletedFrame DEF vars
  <1> QED
    BY <1>1, <1>2, <1>3, <1>4, <1>5, <1>6, <1>7, <1>8, <1>9, <1>10, <1>11,
       <1>12, <1>13, <1>14, <1>15, <1>16, <1>17, <1>18, <1>19, <1>20, <1>21,
       <1>22, <1>23, <1>24, <1>25, <1>26, <1>27, <1>28, <1>29, <1>30, <1>31,
       <1>32, <1>33, <1>34, <1>35, <1>36, <1>37, <1>38, <1>39, <1>40, <1>41,
       <1>42, <1>43, <1>44, <1>45, <1>46
       DEF Next, Connection, Request, Message, Handler, LoopEnd, Job,
           Detached, Api, ApiRest, Check, CrashAny

\* What the application, the database, the manager and the sender are told is
\* completed was moved to its destination (FileXferTask::run moves the file
\* before it posts; restore_incoming believes the history only), whatever is
\* killed, reconnected, rejected or canceled in between.
THEOREM CompletedIsOnDisk == Spec => []CompletedOnDisk
  <1>1. Init => CompletedInv
    <2> SUFFICES ASSUME Init PROVE CompletedInv
      OBVIOUS
    <2>1. \A f \in Files : file[f] = "Idle" /\ db.hist[f] = {} /\ told[f] = {}
      BY DEF Init, NoRows
    <2>2. \A c \in Conns : reqs[c] = <<>> /\ \A f \in Files : job[c][f] = "none"
      BY DEF Init
    <2>3. evq = <<>>
      BY DEF Init
    <2> QED
      BY <2>1, <2>2, <2>3, EmptyRange DEF CompletedInv
  <1>2. CompletedInv => CompletedOnDisk
    BY DEF CompletedInv, CompletedOnDisk
  <1> QED
    BY <1>1, <1>2, TypeCorrect, CompletedStep, PTL DEF Spec

-----------------------------------------------------------------------------
(* Where control can be.                                                   *)

\* The memory of a process that has nothing to do with the transfer (yet).
Blank ==
  /\ xfer = "Absent" /\ xev = "Ongoing" /\ evq = <<>> /\ api = ApiIdle /\ chk = "off"
  /\ \A c \in Conns : /\ pc[c] = Select
                      /\ loop[c] \in {"off", "dead"}
                      /\ \A f \in Files : job[c][f] = "none"

\* A handler is under way only in the select loop; without a transfer row
\* there are no other rows and nothing goes on; and a row is marked as deleted
\* only by a purge.
ControlInv ==
  /\ xfer = "Absent" => file = [f \in Files |-> "Idle"]
  /\ \A c \in Conns : loop[c] # "run" => pc[c] = Select
  /\ ~up \/ ~db.row => Blank
  /\ ~db.row => db = NoRows
  /\ db.deleted => purged

LEMMA ControlInit == Init => ControlInv
  BY DEF Init, ControlInv, Blank, NoRows

\* What the statements do to the columns that the invariant reads.
LEMMA ControlRows ==
  ASSUME TypeOK
  PROVE  /\ transfer_sync_clear(db).row = db.row
         /\ transfer_sync_clear(db).deleted = db.deleted
         /\ \A s : /\ update_transfer_sync_states(db, s).row = db.row
                   /\ update_transfer_sync_states(db, s).deleted = db.deleted
         /\ \A f : /\ update_file_sync_states(db, f).row = db.row
                   /\ update_file_sync_states(db, f).deleted = db.deleted
                   /\ start_incoming_file(db, f).row = db.row
                   /\ start_incoming_file(db, f).deleted = db.deleted
                   /\ stop_incoming_file(update_file_sync_states(db, f), f).row = db.row
                   /\ stop_incoming_file(update_file_sync_states(db, f), f).deleted = db.deleted
                   /\ \A v : /\ insert_path_state(db, f, v).row = db.row
                             /\ insert_path_state(db, f, v).deleted = db.deleted
         /\ insert_transfer_cancel_state(db).row = db.row
         /\ insert_transfer_cancel_state(db).deleted = db.deleted
         /\ purge_transfers(db).row = db.row
  BY DEF TypeOK, Rows, transfer_sync_clear, update_transfer_sync_states, update_file_sync_states,
     start_incoming_file, stop_incoming_file, insert_path_state, insert_transfer_cancel_state,
     purge_transfers

\* A step of a process that is at work on the transfer.
LEMMA ControlKept ==
  ASSUME ControlInv, up, db.row, up', db'.row,
         xfer' = "Absent" => file' = [f \in Files |-> "Idle"],
         \A c \in Conns : loop'[c] # "run" => pc'[c] = Select,
         db'.deleted => db.deleted \/ purged',
         purged => purged'
  PROVE  ControlInv'
  BY DEF ControlInv

LEMMA StoredControl ==
  ASSUME TypeOK, NEW e
  PROVE  StoredBy(e).row = db.row /\ StoredBy(e).deleted = db.deleted
  BY ControlRows DEF StoredBy

LEMMA DownBlank ==
  ASSUME Down
  PROVE  /\ Blank' /\ ~up' /\ xfer' = "Absent" /\ file' = [f \in Files |-> "Idle"]
         /\ purged' = purged
  BY DEF Down, Blank, ghost

LEMMA ControlStep == TypeOK /\ ControlInv /\ [Next]_vars => ControlInv'
  <1> SUFFICES ASSUME TypeOK, ControlInv, [Next]_vars PROVE ControlInv'
    OBVIOUS
  <1> USE DEF mgr, loops, jobs, events, calls, disk, ghost
  <1>1. ASSUME NEW c \in Conns, RegisterRefused(c) PROVE ControlInv'
    <2>1. ~Blank
      BY <1>1 DEF Blank, RegisterRefused, Fresh, Select
    <2>2. up /\ db.row
      BY <2>1 DEF ControlInv
    <2> QED
      BY <1>1, <2>2, ControlKept DEF ControlInv, TypeOK, RegisterRefused, Fresh
  <1>2. ASSUME NEW c \in Conns, RegisterResume(c) PROVE ControlInv'
    <2>1. ~Blank
      BY <1>2 DEF Blank, RegisterResume, Fresh, Select
    <2>2. up /\ db.row
      BY <2>1 DEF ControlInv
    <2> QED
      BY <1>2, <2>2, ControlKept DEF ControlInv, TypeOK, RegisterResume
  <1>3. ASSUME NEW c \in Conns, RegisterClosed(c) PROVE ControlInv'
    <2>1. up /\ db.row
      BY <1>3 DEF RegisterClosed, Fresh, inserts_transfer
    <2> QED
      BY <1>3, <2>1, ControlKept DEF ControlInv, TypeOK, RegisterClosed, Fresh
  <1>4. ASSUME NEW c \in Conns, RegisterNew(c) PROVE ControlInv'
    <2>1. db' = [NoRows EXCEPT !.row = TRUE, !.sync = "Active"]
      BY <1>4 DEF RegisterNew, insert_transfer, update_transfer_sync_states, NoRows
    <2>2. db'.row /\ ~db'.deleted
      BY <2>1 DEF NoRows
    <2> QED
      BY <1>4, <2>2 DEF RegisterNew, Fresh, ControlInv, TypeOK
  <1>5. ASSUME NEW c \in Conns, OnReqDownload(c) PROVE ControlInv'
    <2>1. ~Blank
      BY <1>5 DEF Blank, OnReqDownload, HasReq, Selecting, Break, Select
    <2>2. up /\ db.row
      BY <2>1 DEF ControlInv
    <2> QED
      BY <1>5, <2>2, ControlKept DEF ControlInv, TypeOK, OnReqDownload, HasReq, Selecting, Break
  <1>6. ASSUME NEW c \in Conns, OnReqSend(c) PROVE ControlInv'
    <2>1. ~Blank
      BY <1>6 DEF Blank, OnReqSend, HasReq, Selecting, Select
    <2>2. up /\ db.row
      BY <2>1 DEF ControlInv
    <2> QED
      BY <1>6, <2>2, ControlKept DEF ControlInv, TypeOK, OnReqSend
  <1>7. ASSUME NEW c \in Conns, OnReqReject(c) PROVE ControlInv'
    <2>1. ~Blank
      BY <1>7 DEF Blank, OnReqReject, HasReq, Selecting, Select
    <2>2. up /\ db.row
      BY <2>1 DEF ControlInv
    <2> QED
      BY <1>7, <2>2, ControlKept DEF ControlInv, TypeOK, OnReqReject
  <1>8. ASSUME NEW c \in Conns, OnReqClose(c) PROVE ControlInv'
    <2>1. ~Blank
      BY <1>8 DEF Blank, OnReqClose, HasReq, Selecting, Select
    <2>2. up /\ db.row
      BY <2>1 DEF ControlInv
    <2> QED
      BY <1>8, <2>2, ControlKept DEF ControlInv, TypeOK, OnReqClose, HasReq, Selecting
  <1>9. ASSUME NEW c \in Conns, RecvClose(c) PROVE ControlInv'
    <2>1. ~Blank
      BY <1>9 DEF Blank, RecvClose, Receives, Selecting, Select
    <2>2. up /\ db.row
      BY <2>1 DEF ControlInv
    <2> QED
      BY <1>9, <2>2, ControlKept DEF ControlInv, TypeOK, RecvClose, Receives, Selecting
  <1>10. ASSUME NEW c \in Conns, NEW f \in Files, RecvReject(c, f) PROVE ControlInv'
    <2>1. ~Blank
      BY <1>10 DEF Blank, RecvReject, Receives, Selecting, TerminalRecv, Select
    <2>2. up /\ db.row
      BY <2>1 DEF ControlInv
    <2>3. db'.row = db.row /\ db'.deleted = db.deleted
      BY <1>10, ControlRows DEF RecvReject, Receives, Selecting, TerminalRecv, Terminate
    <2>4. xfer' = "Absent" => file' = [g \in Files |-> "Idle"]
      BY <1>10 DEF ControlInv, RecvReject, Receives, Selecting, TerminalRecv, Terminate
    <2>5. \A d \in Conns : loop'[d] # "run" => pc'[d] = Select
      BY <1>10 DEF ControlInv, TypeOK, RecvReject, Receives, Selecting, TerminalRecv, Terminate
    <2>6. up' /\ purged' = purged
      BY <1>10, <2>2 DEF RecvReject
    <2> QED
      BY <2>2, <2>3, <2>4, <2>5, <2>6, ControlKept
  <1>11. ASSUME NEW c \in Conns, NEW f \in Files, RecvError(c, f) PROVE ControlInv'
    <2>1. ~Blank
      BY <1>11 DEF Blank, RecvError, Receives, Selecting, TerminalRecv, Select
    <2>2. up /\ db.row
      BY <2>1 DEF ControlInv
    <2>3. db'.row = db.row /\ db'.deleted = db.deleted
      BY <1>11, ControlRows DEF RecvError, Receives, Selecting, TerminalRecv, Terminate
    <2>4. xfer' = "Absent" => file' = [g \in Files |-> "Idle"]
      BY <1>11 DEF ControlInv, RecvError, Receives, Selecting, TerminalRecv, Terminate
    <2>5. \A d \in Conns : loop'[d] # "run" => pc'[d] = Select
      BY <1>11 DEF ControlInv, TypeOK, RecvError, Receives, Selecting, TerminalRecv, Terminate
    <2>6. up' /\ purged' = purged
      BY <1>11, <2>2 DEF RecvError
    <2> QED
      BY <2>2, <2>3, <2>4, <2>5, <2>6, ControlKept
  <1>12. ASSUME NEW c \in Conns, NEW f \in Files, RecvCancel(c, f) PROVE ControlInv'
    <2>1. ~Blank
      BY <1>12 DEF Blank, RecvCancel, Receives, Selecting, Select
    <2>2. up /\ db.row
      BY <2>1 DEF ControlInv
    <2> QED
      BY <1>12, <2>2, ControlKept DEF ControlInv, TypeOK, RecvCancel
  <1>13. ASSUME NEW c \in Conns, LinkBroken(c) PROVE ControlInv'
    <2>1. ~Blank
      BY <1>13 DEF Blank, LinkBroken, Selecting, At, Break, Select
    <2>2. up /\ db.row
      BY <2>1 DEF ControlInv
    <2> QED
      BY <1>13, <2>2, ControlKept DEF ControlInv, TypeOK, LinkBroken, Selecting, At, Break
  <1>14. ASSUME NEW c \in Conns, Drained(c) PROVE ControlInv'
    <2>1. ~Blank
      BY <1>14 DEF Blank, Drained, At, Break, Select
    <2>2. up /\ db.row
      BY <2>1 DEF ControlInv
    <2> QED
      BY <1>14, <2>2, ControlKept, ControlRows DEF ControlInv, TypeOK, Drained, At, Break, Remove
  <1>15. ASSUME NEW c \in Conns, RecvCloseRemove(c) PROVE ControlInv'
    <2>1. ~Blank
      BY <1>15 DEF Blank, RecvCloseRemove, At, Break, Select
    <2>2. up /\ db.row
      BY <2>1 DEF ControlInv
    <2>3. db'.row = db.row /\ db'.deleted = db.deleted
      BY <1>15, ControlRows DEF RecvCloseRemove, At, Break, Remove
    <2>4. xfer' = "Absent" => file' = [g \in Files |-> "Idle"]
      BY <1>15 DEF ControlInv, RecvCloseRemove, At, Break, Remove
    <2>5. \A d \in Conns : loop'[d] # "run" => pc'[d] = Select
      BY <1>15 DEF ControlInv, TypeOK, RecvCloseRemove, At, Break, Remove
    <2>6. up' /\ purged' = purged
      BY <1>15, <2>2 DEF RecvCloseRemove
    <2> QED
      BY <2>2, <2>3, <2>4, <2>5, <2>6, ControlKept
  <1>16. ASSUME NEW c \in Conns, RecvCloseCancel(c) PROVE ControlInv'
    <2>1. ~Blank
      BY <1>16 DEF Blank, RecvCloseCancel, At, Break, Select
    <2>2. up /\ db.row
      BY <2>1 DEF ControlInv
    <2> QED
      BY <1>16, <2>2, ControlKept DEF ControlInv, TypeOK, RecvCloseCancel, At, Break
  <1>17. ASSUME NEW c \in Conns, RecvRejectStop(c) PROVE ControlInv'
    <2>1. ~Blank
      BY <1>17 DEF Blank, RecvRejectStop, At, Select
    <2>2. up /\ db.row
      BY <2>1 DEF ControlInv
    <2> QED
      BY <1>17, <2>2, ControlKept DEF ControlInv, TypeOK, RecvRejectStop, At
  <1>18. ASSUME NEW c \in Conns, RecvRejectEmit(c) PROVE ControlInv'
    <2>1. ~Blank
      BY <1>18 DEF Blank, RecvRejectEmit, At, Select
    <2>2. up /\ db.row
      BY <2>1 DEF ControlInv
    <2> QED
      BY <1>18, <2>2, ControlKept DEF ControlInv, TypeOK, RecvRejectEmit, At
  <1>19. ASSUME NEW c \in Conns, RecvErrorEmit(c) PROVE ControlInv'
    <2>1. ~Blank
      BY <1>19 DEF Blank, RecvErrorEmit, At, Select
    <2>2. up /\ db.row
      BY <2>1 DEF ControlInv
    <2> QED
      BY <1>19, <2>2, ControlKept DEF ControlInv, TypeOK, RecvErrorEmit, At
  <1>20. ASSUME NEW c \in Conns, RecvErrorStop(c) PROVE ControlInv'
    <2>1. ~Blank
      BY <1>20 DEF Blank, RecvErrorStop, At, Select
    <2>2. up /\ db.row
      BY <2>1 DEF ControlInv
    <2> QED
      BY <1>20, <2>2, ControlKept DEF ControlInv, TypeOK, RecvErrorStop, At
  <1>21. ASSUME NEW c \in Conns, LoopFinalize(c) PROVE ControlInv'
    <2>1. ~Blank
      BY <1>21 DEF Blank, LoopFinalize, Select
    <2>2. up /\ db.row
      BY <2>1 DEF ControlInv
    <2> QED
      BY <1>21, <2>2, ControlKept DEF ControlInv, TypeOK, LoopFinalize
  <1>22. ASSUME NEW c \in Conns, Disconnect(c) PROVE ControlInv'
    <2>1. ~Blank
      BY <1>22 DEF Blank, Disconnect, Select
    <2>2. up /\ db.row
      BY <2>1 DEF ControlInv
    <2> QED
      BY <1>22, <2>2, ControlKept DEF ControlInv, TypeOK, Disconnect
  <1>23. ASSUME NEW c \in Conns, NEW f \in Files, JobAborted(c, f) PROVE ControlInv'
    <2>1. ~Blank
      BY <1>23 DEF Blank, JobAborted, Abortable
    <2>2. up /\ db.row
      BY <2>1 DEF ControlInv
    <2> QED
      BY <1>23, <2>2, ControlKept DEF ControlInv, TypeOK, JobAborted
  <1>24. ASSUME NEW c \in Conns, NEW f \in Files, JobPreflight(c, f) PROVE ControlInv'
    <2>1. ~Blank
      BY <1>24 DEF Blank, JobPreflight, JobAt, Select
    <2>2. up /\ db.row
      BY <2>1 DEF ControlInv
    <2> QED
      BY <1>24, <2>2, ControlKept DEF ControlInv, TypeOK, JobPreflight
  <1>25. ASSUME NEW c \in Conns, NEW f \in Files, JobStart(c, f) PROVE ControlInv'
    <2>1. ~Blank
      BY <1>25 DEF Blank, JobStart, JobAt, Select
    <2>2. up /\ db.row
      BY <2>1 DEF ControlInv
    <2> QED
      BY <1>25, <2>2, ControlKept DEF ControlInv, TypeOK, JobStart
  <1>26. ASSUME NEW c \in Conns, NEW f \in Files, JobPlace(c, f) PROVE ControlInv'
    <2>1. ~Blank
      BY <1>26 DEF Blank, JobPlace, JobAt, Select
    <2>2. up /\ db.row
      BY <2>1 DEF ControlInv
    <2> QED
      BY <1>26, <2>2, ControlKept DEF ControlInv, TypeOK, JobPlace
  <1>27. ASSUME NEW c \in Conns, NEW f \in Files, JobCanceled(c, f) PROVE ControlInv'
    <2>1. ~Blank
      BY <1>27 DEF Blank, JobCanceled, JobAt, Select
    <2>2. up /\ db.row
      BY <2>1 DEF ControlInv
    <2> QED
      BY <1>27, <2>2, ControlKept DEF ControlInv, TypeOK, JobCanceled
  <1>28. ASSUME NEW c \in Conns, NEW f \in Files, JobFail(c, f) PROVE ControlInv'
    <2>1. ~Blank
      BY <1>28 DEF Blank, JobFail, Abortable, Select
    <2>2. up /\ db.row
      BY <2>1 DEF ControlInv
    <2> QED
      BY <1>28, <2>2, ControlKept DEF ControlInv, TypeOK, JobFail
  <1>29. ASSUME NEW c \in Conns, NEW f \in Files, JobPost(c, f) PROVE ControlInv'
    <2>1. ~Blank
      BY <1>29 DEF Blank, JobPost, JobAt, Select
    <2>2. up /\ db.row
      BY <2>1 DEF ControlInv
    <2>3. db'.row = db.row /\ db'.deleted = db.deleted
      BY <1>29, ControlRows DEF JobPost, Terminate, Usable
    <2>4. xfer' = "Absent" => file' = [g \in Files |-> "Idle"]
      BY <1>29 DEF ControlInv, JobPost, Terminate, Usable
    <2>5. \A d \in Conns : loop'[d] # "run" => pc'[d] = Select
      BY <1>29 DEF ControlInv, TypeOK, JobPost, Terminate, Usable
    <2>6. up' /\ purged' = purged
      BY <1>29, <2>2 DEF JobPost
    <2> QED
      BY <2>2, <2>3, <2>4, <2>5, <2>6, ControlKept
  <1>30. ASSUME NEW c \in Conns, NEW f \in Files, JobReport(c, f) PROVE ControlInv'
    <2>1. ~Blank
      BY <1>30 DEF Blank, JobReport, JobAt, Select
    <2>2. up /\ db.row
      BY <2>1 DEF ControlInv
    <2> QED
      BY <1>30, <2>2, ControlKept DEF ControlInv, TypeOK, JobReport
  <1>31. ASSUME NEW f \in Files, ApiDownload(f) PROVE ControlInv'
    <2>1. ~Blank
      BY <1>31 DEF Blank, ApiDownload, Calls, Usable, Select
    <2>2. up /\ db.row
      BY <2>1 DEF ControlInv
    <2> QED
      BY <1>31, <2>2, ControlKept, ControlRows DEF ControlInv, TypeOK, ApiDownload, Usable
  <1>32. ASSUME NEW f \in Files, ApiReject(f) PROVE ControlInv'
    <2>1. ~Blank
      BY <1>32 DEF Blank, ApiReject, Calls, Usable, Select
    <2>2. up /\ db.row
      BY <2>1 DEF ControlInv
    <2> QED
      BY <1>32, <2>2, ControlKept, ControlRows DEF ControlInv, TypeOK, ApiReject, Usable,
         Terminate
  <1>33. ASSUME ApiCancel PROVE ControlInv'
    <2>1. ~Blank
      BY <1>33 DEF Blank, ApiCancel, Calls, Usable, Select
    <2>2. up /\ db.row
      BY <2>1 DEF ControlInv
    <2> QED
      BY <1>33, <2>2, ControlKept, ControlRows DEF ControlInv, TypeOK, ApiCancel, Usable
  <1>34. ASSUME ApiPurge PROVE ControlInv'
    <2>1. db.row
      BY <1>34 DEF ApiPurge, ControlInv, purge_transfers, NoRows
    <2> QED
      BY <1>34, <2>1, ControlKept, ControlRows DEF ControlInv, ApiPurge, Calls
  <1>35. ASSUME ApiRejectEmit PROVE ControlInv'
    <2>1. ~Blank
      BY <1>35 DEF Blank, ApiRejectEmit, ApiIdle
    <2>2. up /\ db.row
      BY <2>1 DEF ControlInv
    <2> QED
      BY <1>35, <2>2, ControlKept DEF ControlInv, TypeOK, ApiRejectEmit
  <1>36. ASSUME ApiCancelEmit PROVE ControlInv'
    <2>1. ~Blank
      BY <1>36 DEF Blank, ApiCancelEmit, ApiIdle
    <2>2. up /\ db.row
      BY <2>1 DEF ControlInv
    <2> QED
      BY <1>36, <2>2, ControlKept DEF ControlInv, TypeOK, ApiCancelEmit
  <1>37. ASSUME CheckDead PROVE ControlInv'
    <2>1. ~Blank
      BY <1>37 DEF Blank, CheckDead, Select
    <2>2. up /\ db.row
      BY <2>1 DEF ControlInv
    <2> QED
      BY <1>37, <2>2, ControlKept, ControlRows DEF ControlInv, TypeOK, CheckDead, Remove
  <1>38. ASSUME CheckGone PROVE ControlInv'
    <2>1. ~Blank
      BY <1>38 DEF Blank, CheckGone, Usable, Select
    <2>2. up /\ db.row
      BY <2>1 DEF ControlInv
    <2> QED
      BY <1>38, <2>2, ControlKept, ControlRows DEF ControlInv, TypeOK, CheckGone, Remove
  <1>39. ASSUME CheckEmit PROVE ControlInv'
    <2>1. ~Blank
      BY <1>39 DEF Blank, CheckEmit, Select
    <2>2. up /\ db.row
      BY <2>1 DEF ControlInv
    <2> QED
      BY <1>39, <2>2, ControlKept DEF ControlInv, TypeOK, CheckEmit
  <1>40. ASSUME EventTask PROVE ControlInv'
    <2>1. ~Blank
      BY <1>40 DEF Blank, EventTask
    <2>2. up /\ db.row
      BY <2>1 DEF ControlInv
    <2> QED
      BY <1>40, <2>2, ControlKept, StoredControl DEF ControlInv, EventTask
  <1>41. ASSUME Crash PROVE ControlInv'
    <2>1. Blank' /\ ~up' /\ xfer' = "Absent" /\ file' = [f \in Files |-> "Idle"]
      BY <1>41, DownBlank DEF Crash
    <2>2. \A c \in Conns : pc'[c] = Select
      BY <2>1 DEF Blank
    <2>3. (~db'.row => db' = NoRows) /\ (db'.deleted => purged')
      BY <1>41, DownBlank DEF Crash, ControlInv
    <2> QED
      BY <2>1, <2>2, <2>3 DEF ControlInv
  <1>42. ASSUME CrashInRegister PROVE ControlInv'
    <2>1. Blank' /\ ~up' /\ xfer' = "Absent" /\ file' = [f \in Files |-> "Idle"]
      BY <1>42, DownBlank DEF CrashInRegister
    <2>2. \A c \in Conns : pc'[c] = Select
      BY <2>1 DEF Blank
    <2>3. (~db'.row => db' = NoRows) /\ (db'.deleted => purged')
      BY <1>42 DEF CrashInRegister, insert_transfer, NoRows
    <2> QED
      BY <2>1, <2>2, <2>3 DEF ControlInv
  <1>43. ASSUME NEW f \in Files, CrashInTerminate(f) PROVE ControlInv'
    <2>1. Blank' /\ ~up' /\ xfer' = "Absent" /\ file' = [g \in Files |-> "Idle"]
      BY <1>43, DownBlank DEF CrashInTerminate
    <2>2. \A c \in Conns : pc'[c] = Select
      BY <2>1 DEF Blank
    <2>3. (~db'.row => db' = NoRows) /\ (db'.deleted => purged')
      BY <1>43, DownBlank, ControlRows DEF CrashInTerminate, ControlInv, Blank
    <2> QED
      BY <2>1, <2>2, <2>3 DEF ControlInv
  <1>44. ASSUME CrashInEventTask PROVE ControlInv'
    <2>1. Blank' /\ ~up' /\ xfer' = "Absent" /\ file' = [f \in Files |-> "Idle"]
      BY <1>44, DownBlank DEF CrashInEventTask
    <2>2. \A c \in Conns : pc'[c] = Select
      BY <2>1 DEF Blank
    <2>3. (~db'.row => db' = NoRows) /\ (db'.deleted => purged')
      BY <1>44, DownBlank, StoredControl DEF CrashInEventTask, ControlInv, Blank
    <2> QED
      BY <2>1, <2>2, <2>3 DEF ControlInv
  <1>45. ASSUME Restart PROVE ControlInv'
    <2>1. Blank
      BY <1>45 DEF Restart, ControlInv
    <2>2. (~db'.row => db' = NoRows) /\ (db'.deleted => purged')
      BY <1>45 DEF Restart, ControlInv, cleanup_garbage_transfers, NoRows
    <2>3. CASE db'.sync = "None"
      <3>1. Blank'
        BY <1>45, <2>1, <2>3 DEF Restart, Blank
      <3> QED
        BY <1>45, <2>1, <2>2, <2>3, <3>1 DEF Restart, ControlInv, Blank
    <2>4. CASE db'.sync # "None"
      <3>1. db'.row
        BY <2>2, <2>4 DEF NoRows
      <3>2. db'.sync # "Absent"
        BY <1>45, TransferRowsTyped DEF Restart, TypeOK, Rows, SyncState
      <3> QED
        BY <1>45, <2>1, <2>2, <2>4, <3>1, <3>2 DEF Restart, ControlInv, Blank
    <2> QED
      BY <2>3, <2>4
  <1>46. CASE UNCHANGED vars
    BY <1>46 DEF vars, ControlInv, Blank
  <1> QED
    BY <1>1, <1>2, <1>3, <1>4, <1>5, <1>6, <1>7, <1>8, <1>9, <1>10, <1>11, <1>12, <1>13, <1>14,
       <1>15, <1>16, <1>17, <1>18, <1>19, <1>20, <1>21, <1>22, <1>23, <1>24, <1>25, <1>26,
       <1>27, <1>28, <1>29, <1>30, <1>31, <1>32, <1>33, <1>34, <1>35, <1>36, <1>37, <1>38,
       <1>39, <1>40, <1>41, <1>42, <1>43, <1>44, <1>45, <1>46
       DEF Next, Connection, Request, Message, Handler, LoopEnd, Job, Detached,
           Api, ApiRest, Check, CrashAny

-----------------------------------------------------------------------------
(* The manager's map and the sync rows agree.                              *)

\* A terminal file is one that a restart finds terminal; one that is not is
\* in flight in memory when it is in the table of the files in flight (a
\* cancelation clears only the memory).
Mirrored(f) ==
  /\ file[f] \in Terminal => IsRestoredTerminal(db, f)
  /\ db.file[f] = "Terminal" => file[f] \in Terminal
  /\ Usable /\ file[f] \notin Terminal => (file[f] = "InFlight" <=> f \in db.inflight)
  /\ file[f] = "InFlight" => f \in db.inflight

SyncInv ==
  /\ db.sync # "None" => db.row
  /\ up => xfer = IF db.sync = "None" THEN "Absent" ELSE db.sync
  /\ up /\ xfer # "Absent" => \A f \in Files : Mirrored(f)

LEMMA SyncInit == Init => SyncInv
  BY DEF Init, SyncInv, NoRows

LEMMA SyncFrame ==
  ASSUME SyncInv, UNCHANGED <<db, xfer, file, up>>
  PROVE  SyncInv'
  BY DEF SyncInv, Mirrored, Usable

LEMMA SyncDown ==
  ASSUME ~up', db'.sync # "None" => db'.row
  PROVE  SyncInv'
  BY DEF SyncInv

\* The two writes that end a file.
LEMMA TerminateRows ==
  ASSUME NEW d \in Rows, NEW f \in Files, d.sync # "None",
         NEW e, e = stop_incoming_file(update_file_sync_states(d, f), f)
  PROVE  /\ e.sync = d.sync /\ e.row = d.row /\ e.hist = d.hist
         /\ e.file = [d.file EXCEPT ![f] = "Terminal"]
         /\ e.inflight = d.inflight \ {f}
  BY DEF stop_incoming_file, update_file_sync_states, Rows

LEMMA SyncTerminate ==
  ASSUME TypeOK, SyncInv, NEW f \in Files, NEW v \in Terminal,
         up, xfer # "Absent", Terminate(f, v), up' = up, xfer' = xfer
  PROVE  SyncInv'
  <1>1. db \in Rows /\ db.sync # "None" /\ xfer = db.sync
    BY DEF TypeOK, SyncInv
  <1>2. /\ db'.sync = db.sync /\ db'.row = db.row /\ db'.hist = db.hist
        /\ db'.file = [db.file EXCEPT ![f] = "Terminal"]
        /\ db'.inflight = db.inflight \ {f}
    BY <1>1, TerminateRows DEF Terminate
  <1>3. file' = [file EXCEPT ![f] = v] /\ file \in [Files -> LocalFileState]
    BY DEF Terminate, TypeOK
  <1>4. db.file \in [Files -> {"Alive", "Terminal"}]
    BY <1>1 DEF Rows
  <1>5. v # "InFlight"
    BY DEF Terminal, Verdicts
  <1>6. ASSUME NEW g \in Files PROVE Mirrored(g)'
    <2>1. Mirrored(g)
      BY DEF SyncInv
    <2>2. CASE g = f
      BY <1>2, <1>3, <1>4, <1>5, <2>2 DEF Mirrored, IsRestoredTerminal
    <2>3. CASE g # f
      BY <1>2, <1>3, <1>4, <2>1, <2>3 DEF Mirrored, IsRestoredTerminal, Usable
    <2> QED
      BY <2>2, <2>3
  <1> QED
    BY <1>1, <1>2, <1>6 DEF SyncInv

LEMMA SyncRemove ==
  ASSUME TypeOK, SyncInv, Remove
  PROVE  SyncInv'
  BY DEF TypeOK, Rows, SyncInv, Remove, transfer_sync_clear

\* An event that is stored adds to the history, and to nothing else that a
\* restart reads.
LEMMA StoredRows ==
  ASSUME TypeOK, NEW e \in EventSet
  PROVE  LET d == StoredBy(e) IN
         /\ d.sync = db.sync /\ d.row = db.row /\ d.file = db.file /\ d.inflight = db.inflight
         /\ d.deleted = db.deleted
         /\ \A f \in Files : db.hist[f] \subseteq d.hist[f]
  <1>1. CASE e.k \in Verdicts
    <2>1. e.f \in Files /\ StoredBy(e) = insert_path_state(db, e.f, e.k)
      BY <1>1 DEF StoredBy, EventSet, TransferEvents, Cancelation, Verdicts
    <2> QED
      BY <2>1 DEF TypeOK, Rows, insert_path_state
  <1>2. CASE e.k \notin Verdicts /\ e.k \in Cancelation
    <2>1. StoredBy(e) = insert_transfer_cancel_state(db)
      BY <1>2 DEF StoredBy
    <2> QED
      BY <2>1 DEF TypeOK, Rows, insert_transfer_cancel_state
  <1>3. CASE e.k \notin Verdicts /\ e.k \notin Cancelation
    BY <1>3 DEF StoredBy
  <1> QED
    BY <1>1, <1>2, <1>3

LEMMA QueueHead ==
  ASSUME TypeOK, evq # <<>>
  PROVE  Head(evq) \in EventSet
  BY DEF TypeOK

LEMMA SyncStep == TypeOK /\ ControlInv /\ SyncInv /\ [Next]_vars => SyncInv'
  <1> SUFFICES ASSUME TypeOK, ControlInv, SyncInv, [Next]_vars PROVE SyncInv'
    OBVIOUS
  <1> USE DEF mgr, loops, jobs, events, calls, disk, ghost
  <1>1. ASSUME NEW c \in Conns, RegisterRefused(c) PROVE SyncInv'
    BY <1>1, SyncFrame DEF RegisterRefused, Fresh
  <1>2. ASSUME NEW c \in Conns, RegisterResume(c) PROVE SyncInv'
    BY <1>2, SyncFrame DEF RegisterResume, Fresh
  <1>3. ASSUME NEW c \in Conns, RegisterClosed(c) PROVE SyncInv'
    BY <1>3, SyncFrame DEF RegisterClosed, Fresh, inserts_transfer
  <1>4. ASSUME NEW c \in Conns, RegisterNew(c) PROVE SyncInv'
    <2>1. db' = [NoRows EXCEPT !.row = TRUE, !.sync = "Active"]
      BY <1>4 DEF RegisterNew, insert_transfer, update_transfer_sync_states, NoRows
    <2>2. /\ db'.row /\ db'.sync = "Active" /\ db'.inflight = {}
          /\ db'.file = [f \in Files |-> "Alive"]
      BY <2>1 DEF NoRows
    <2>3. xfer' = "Active" /\ file' = [f \in Files |-> "Idle"]
      BY <1>4 DEF RegisterNew
    <2> QED
      BY <2>2, <2>3 DEF SyncInv, Mirrored, Terminal, Verdicts
  <1>5. ASSUME NEW c \in Conns, OnReqDownload(c) PROVE SyncInv'
    BY <1>5, SyncFrame DEF OnReqDownload, HasReq, Selecting, Break
  <1>6. ASSUME NEW c \in Conns, OnReqSend(c) PROVE SyncInv'
    BY <1>6, SyncFrame DEF OnReqSend, HasReq, Selecting
  <1>7. ASSUME NEW c \in Conns, OnReqReject(c) PROVE SyncInv'
    BY <1>7, SyncFrame DEF OnReqReject, HasReq, Selecting
  <1>8. ASSUME NEW c \in Conns, OnReqClose(c) PROVE SyncInv'
    BY <1>8, SyncFrame DEF OnReqClose, HasReq, Selecting
  <1>9. ASSUME NEW c \in Conns, RecvClose(c) PROVE SyncInv'
    BY <1>9, SyncFrame DEF RecvClose, Receives, Selecting
  <1>10. ASSUME NEW c \in Conns, NEW f \in Files, RecvReject(c, f) PROVE SyncInv'
    <2>1. CASE xfer # "Absent" /\ file[f] \notin Terminal
      <3>1. up /\ xfer # "Absent" /\ up' = up /\ xfer' = xfer
        BY <1>10, <2>1 DEF RecvReject, Receives, Selecting, TerminalRecv
      <3>2. PICK v \in Terminal : Terminate(f, v)
        BY <1>10, <2>1 DEF RecvReject, TerminalRecv, Terminal, Verdicts
      <3> QED
        BY <3>1, <3>2, SyncTerminate
    <2>2. CASE ~(xfer # "Absent" /\ file[f] \notin Terminal)
      BY <1>10, <2>2, SyncFrame DEF RecvReject, Receives, Selecting, TerminalRecv
    <2> QED
      BY <2>1, <2>2
  <1>11. ASSUME NEW c \in Conns, NEW f \in Files, RecvError(c, f) PROVE SyncInv'
    <2>1. CASE xfer # "Absent" /\ file[f] \notin Terminal
      <3>1. up /\ xfer # "Absent" /\ up' = up /\ xfer' = xfer
        BY <1>11, <2>1 DEF RecvError, Receives, Selecting, TerminalRecv
      <3>2. PICK v \in Terminal : Terminate(f, v)
        BY <1>11, <2>1 DEF RecvError, TerminalRecv, Terminal, Verdicts
      <3> QED
        BY <3>1, <3>2, SyncTerminate
    <2>2. CASE ~(xfer # "Absent" /\ file[f] \notin Terminal)
      BY <1>11, <2>2, SyncFrame DEF RecvError, Receives, Selecting, TerminalRecv
    <2> QED
      BY <2>1, <2>2
  <1>12. ASSUME NEW c \in Conns, NEW f \in Files, RecvCancel(c, f) PROVE SyncInv'
    BY <1>12, SyncFrame DEF RecvCancel, Receives, Selecting
  <1>13. ASSUME NEW c \in Conns, LinkBroken(c) PROVE SyncInv'
    BY <1>13, SyncFrame DEF LinkBroken, Selecting, At, Break
  <1>14. ASSUME NEW c \in Conns, Drained(c) PROVE SyncInv'
    BY <1>14, SyncRemove, SyncFrame DEF Drained
  <1>15. ASSUME NEW c \in Conns, RecvCloseRemove(c) PROVE SyncInv'
    BY <1>15, SyncRemove, SyncFrame DEF RecvCloseRemove
  <1>16. ASSUME NEW c \in Conns, RecvCloseCancel(c) PROVE SyncInv'
    BY <1>16, SyncFrame DEF RecvCloseCancel, At, Break
  <1>17. ASSUME NEW c \in Conns, RecvRejectStop(c) PROVE SyncInv'
    BY <1>17, SyncFrame DEF RecvRejectStop, At
  <1>18. ASSUME NEW c \in Conns, RecvRejectEmit(c) PROVE SyncInv'
    BY <1>18, SyncFrame DEF RecvRejectEmit, At
  <1>19. ASSUME NEW c \in Conns, RecvErrorEmit(c) PROVE SyncInv'
    BY <1>19, SyncFrame DEF RecvErrorEmit, At
  <1>20. ASSUME NEW c \in Conns, RecvErrorStop(c) PROVE SyncInv'
    BY <1>20, SyncFrame DEF RecvErrorStop, At
  <1>21. ASSUME NEW c \in Conns, LoopFinalize(c) PROVE SyncInv'
    BY <1>21, SyncFrame DEF LoopFinalize
  <1>22. ASSUME NEW c \in Conns, Disconnect(c) PROVE SyncInv'
    BY <1>22, SyncFrame DEF Disconnect
  <1>23. ASSUME NEW c \in Conns, NEW f \in Files, JobAborted(c, f) PROVE SyncInv'
    BY <1>23, SyncFrame DEF JobAborted, Abortable
  <1>24. ASSUME NEW c \in Conns, NEW f \in Files, JobPreflight(c, f) PROVE SyncInv'
    BY <1>24, SyncFrame DEF JobPreflight, JobAt
  <1>25. ASSUME NEW c \in Conns, NEW f \in Files, JobStart(c, f) PROVE SyncInv'
    BY <1>25, SyncFrame DEF JobStart, JobAt
  <1>26. ASSUME NEW c \in Conns, NEW f \in Files, JobPlace(c, f) PROVE SyncInv'
    BY <1>26, SyncFrame DEF JobPlace, JobAt
  <1>27. ASSUME NEW c \in Conns, NEW f \in Files, JobCanceled(c, f) PROVE SyncInv'
    BY <1>27, SyncFrame DEF JobCanceled, JobAt
  <1>28. ASSUME NEW c \in Conns, NEW f \in Files, JobFail(c, f) PROVE SyncInv'
    BY <1>28, SyncFrame DEF JobFail, Abortable
  <1>29. ASSUME NEW c \in Conns, NEW f \in Files, JobPost(c, f) PROVE SyncInv'
    <2>1. CASE Usable /\ file[f] \notin Terminal
      <3>1. up /\ xfer # "Absent" /\ up' = up /\ xfer' = xfer
        BY <1>29, <2>1 DEF JobPost, JobAt, Usable
      <3>2. PICK v \in Terminal : Terminate(f, v)
        BY <1>29, <2>1 DEF JobPost, Terminal, Verdicts
      <3> QED
        BY <3>1, <3>2, SyncTerminate
    <2>2. CASE ~(Usable /\ file[f] \notin Terminal)
      BY <1>29, <2>2, SyncFrame DEF JobPost, JobAt
    <2> QED
      BY <2>1, <2>2
  <1>30. ASSUME NEW c \in Conns, NEW f \in Files, JobReport(c, f) PROVE SyncInv'
    BY <1>30, SyncFrame DEF JobReport, JobAt
  <1>31. ASSUME NEW f \in Files, ApiDownload(f) PROVE SyncInv'
    <2>1. /\ db \in Rows /\ db.sync # "None" /\ xfer = db.sync /\ up /\ db.row
          /\ file \in [Files -> LocalFileState]
      BY <1>31 DEF ApiDownload, Calls, Usable, SyncInv, TypeOK
    <2>2. /\ db'.sync = db.sync /\ db'.row = db.row /\ db'.hist = db.hist /\ db'.file = db.file
          /\ db'.inflight = db.inflight \cup {f}
      BY <1>31, <2>1 DEF ApiDownload, start_incoming_file, Rows
    <2>3. file' = [file EXCEPT ![f] = "InFlight"] /\ file[f] = "Idle" /\ xfer' = xfer /\ Usable
      BY <1>31 DEF ApiDownload
    <2>4. ASSUME NEW g \in Files PROVE Mirrored(g)'
      <3>1. Mirrored(g)
        BY <2>1, <2>3 DEF SyncInv, Usable
      <3>2. CASE g = f
        BY <2>1, <2>2, <2>3, <3>1, <3>2 DEF Mirrored, Terminal, Verdicts
      <3>3. CASE g # f
        BY <2>1, <2>2, <2>3, <3>1, <3>3 DEF Mirrored, IsRestoredTerminal, Usable
      <3> QED
        BY <3>2, <3>3
    <2> QED
      BY <2>1, <2>2, <2>3, <2>4 DEF SyncInv
  <1>32. ASSUME NEW f \in Files, ApiReject(f) PROVE SyncInv'
    <2>1. up /\ xfer # "Absent" /\ up' = up /\ xfer' = xfer
      BY <1>32 DEF ApiReject, Calls, Usable
    <2>2. Terminate(f, "Rejected") /\ "Rejected" \in Terminal
      BY <1>32 DEF ApiReject, Terminal, Verdicts
    <2> QED
      BY <2>1, <2>2, SyncTerminate
  <1>33. ASSUME ApiCancel PROVE SyncInv'
    <2>1. /\ db \in Rows /\ db.sync # "None" /\ xfer = db.sync /\ up /\ db.row
          /\ file \in [Files -> LocalFileState]
      BY <1>33 DEF ApiCancel, Calls, Usable, SyncInv, TypeOK
    <2>2. /\ db'.sync = "Canceled" /\ db'.row = db.row /\ db'.hist = db.hist /\ db'.file = db.file
          /\ db'.inflight = db.inflight
      BY <1>33, <2>1 DEF ApiCancel, update_transfer_sync_states, Rows
    <2>3. /\ file' = [f \in Files |-> IF file[f] = "InFlight" THEN "Idle" ELSE file[f]]
          /\ xfer' = "Canceled" /\ xfer # "Absent"
      BY <1>33 DEF ApiCancel, Usable
    <2>4. ASSUME NEW g \in Files PROVE Mirrored(g)'
      <3>1. Mirrored(g)
        BY <2>1, <2>3 DEF SyncInv
      <3> QED
        BY <2>1, <2>2, <2>3, <3>1 DEF Mirrored, Terminal, Verdicts, IsRestoredTerminal, Usable
    <2> QED
      BY <2>1, <2>2, <2>3, <2>4 DEF SyncInv
  <1>34. ASSUME ApiPurge PROVE SyncInv'
    <2>1. /\ db'.sync = db.sync /\ db'.row = db.row /\ db'.hist = db.hist /\ db'.file = db.file
          /\ db'.inflight = db.inflight
      BY <1>34 DEF ApiPurge, purge_transfers, TypeOK, Rows
    <2> QED
      BY <1>34, <2>1 DEF ApiPurge, Calls, SyncInv, Mirrored, Usable, IsRestoredTerminal
  <1>35. ASSUME ApiRejectEmit PROVE SyncInv'
    BY <1>35, SyncFrame DEF ApiRejectEmit
  <1>36. ASSUME ApiCancelEmit PROVE SyncInv'
    BY <1>36, SyncFrame DEF ApiCancelEmit
  <1>37. ASSUME CheckDead PROVE SyncInv'
    BY <1>37, SyncRemove, SyncFrame DEF CheckDead
  <1>38. ASSUME CheckGone PROVE SyncInv'
    BY <1>38, SyncRemove DEF CheckGone
  <1>39. ASSUME CheckEmit PROVE SyncInv'
    BY <1>39, SyncFrame DEF CheckEmit
  <1>40. ASSUME EventTask PROVE SyncInv'
    <2>1. /\ db'.sync = db.sync /\ db'.row = db.row /\ db'.file = db.file
          /\ db'.inflight = db.inflight
          /\ \A f \in Files : db.hist[f] \subseteq db'.hist[f]
      BY <1>40, QueueHead, StoredRows DEF EventTask
    <2>2. \A f \in Files : Mirrored(f) => Mirrored(f)'
      BY <1>40, <2>1 DEF EventTask, Mirrored, Usable, IsRestoredTerminal
    <2> QED
      BY <1>40, <2>1, <2>2 DEF EventTask, SyncInv
  <1>41. ASSUME Crash PROVE SyncInv'
    BY <1>41, SyncDown DEF Crash, Down, SyncInv
  <1>42. ASSUME CrashInRegister PROVE SyncInv'
    BY <1>42, SyncDown DEF CrashInRegister, Down, insert_transfer, NoRows
  <1>43. ASSUME NEW f \in Files, CrashInTerminate(f) PROVE SyncInv'
    BY <1>43, SyncDown DEF CrashInTerminate, Down, SyncInv, update_file_sync_states, TypeOK, Rows
  <1>44. ASSUME CrashInEventTask PROVE SyncInv'
    <2>1. db'.sync = db.sync /\ db'.row = db.row
      BY <1>44, QueueHead, StoredRows DEF CrashInEventTask
    <2> QED
      BY <1>44, <2>1, SyncDown DEF CrashInEventTask, Down, SyncInv
  <1>45. ASSUME Restart PROVE SyncInv'
    <2>1. db' \in Rows /\ (db'.sync # "None" => db'.row)
      BY <1>45, TransferRowsTyped DEF Restart, TypeOK, SyncInv, cleanup_garbage_transfers, NoRows
    <2>2. CASE db'.sync = "None"
      <3>1. xfer' = "Absent"
        BY <1>45, <2>2 DEF Restart, ControlInv, Blank
      <3> QED
        BY <2>1, <2>2, <3>1 DEF SyncInv
    <2>3. CASE db'.sync # "None"
      <3>1. xfer' = db'.sync /\ file' = [f \in Files |-> RestoredFile(db', f)]
        BY <1>45, <2>3 DEF Restart
      <3>2. ASSUME NEW f \in Files PROVE Mirrored(f)'
        <4>1. db'.file[f] \in {"Alive", "Terminal"}
          BY <2>1 DEF Rows
        <4>2. RestoredVerdict(db', f) \in Terminal
          BY DEF RestoredVerdict, Terminal, Verdicts
        <4>3. CASE IsRestoredTerminal(db', f)
          <5>1. file'[f] \in Terminal
            BY <3>1, <4>2, <4>3 DEF RestoredFile
          <5> QED
            BY <4>3, <5>1 DEF Mirrored, Terminal, Verdicts
        <4>4. CASE ~IsRestoredTerminal(db', f)
          <5>1. db'.file[f] = "Alive"
            BY <4>1, <4>4 DEF IsRestoredTerminal
          <5>2. file'[f] = IF f \in db'.inflight THEN "InFlight" ELSE "Idle"
            BY <3>1, <4>4, <5>1 DEF RestoredFile, incoming_files_to_resume
          <5> QED
            BY <5>1, <5>2 DEF Mirrored, Terminal, Verdicts
        <4> QED
          BY <4>3, <4>4
      <3> QED
        BY <2>1, <2>3, <3>1, <3>2 DEF SyncInv
    <2> QED
      BY <2>2, <2>3
  <1>46. CASE UNCHANGED vars
    BY <1>46, SyncFrame DEF vars
  <1> QED
    BY <1>1, <1>2, <1>3, <1>4, <1>5, <1>6, <1>7, <1>8, <1>9, <1>10, <1>11, <1>12, <1>13, <1>14,
       <1>15, <1>16, <1>17, <1>18, <1>19, <1>20, <1>21, <1>22, <1>23, <1>24, <1>25, <1>26,
       <1>27, <1>28, <1>29, <1>30, <1>31, <1>32, <1>33, <1>34, <1>35, <1>36, <1>37, <1>38,
       <1>39, <1>40, <1>41, <1>42, <1>43, <1>44, <1>45, <1>46
       DEF Next, Connection, Request, Message, Handler, LoopEnd, Job, Detached,
           Api, ApiRest, Check, CrashAny

-----------------------------------------------------------------------------
(* A verdict that was spoken stays.                                        *)

Speaking == {"rej_stop", "rej_emit", "err_emit"}
Posted   == {"okpost", "badpost"}

\* A task is about to report the end of f, or the report is on its way.
Speaks(f) ==
  \/ api.op = "reject" /\ api.f = f
  \/ \E c \in Conns : pc[c].op \in Speaking /\ pc[c].f = f
  \/ \E c \in Conns : job[c][f] \in Posted
  \/ \E v \in Verdicts : Ev(v, f) \in Range(evq)

\* While the transfer can be used, a file whose end is being reported or is
\* recorded is terminal in the manager; and what the application was told is
\* on record until the transfer is purged.
VerdictInv ==
  \A f \in Files :
    /\ up /\ Usable /\ (Speaks(f) \/ db.hist[f] # {}) => file[f] \in Terminal
    /\ told[f] # {} /\ ~purged => db.hist[f] # {}

LEMMA VerdictInit == Init => VerdictInv
  <1> SUFFICES ASSUME Init PROVE VerdictInv
    OBVIOUS
  <1>1. ~Usable
    BY DEF Init, Usable
  <1> QED
    BY <1>1 DEF Init, VerdictInv

\* Steps that decide nothing, and what follows when a step speaks only of
\* files that have ended.
SpeechStep ==
  /\ told' = told /\ (purged => purged')
  /\ \A f \in Files : db'.hist[f] = db.hist[f]
  /\ up' => up
  /\ Usable' => Usable
  /\ \A f \in Files : Usable' /\ file[f] \in Terminal => file'[f] \in Terminal

LEMMA SpeechKeeps ==
  ASSUME VerdictInv, SpeechStep,
         \A f \in Files : Speaks(f)' /\ Usable' => Speaks(f) \/ file'[f] \in Terminal
  PROVE  VerdictInv'
  BY DEF VerdictInv, SpeechStep

QuietQueue ==
  \A f \in Files, v \in Verdicts : Ev(v, f) \in Range(evq') => Ev(v, f) \in Range(evq)

QuietTasks ==
  /\ api'.op = "reject" => api' = api
  /\ \A c \in Conns : pc'[c].op \in Speaking => pc[c].op \in Speaking /\ pc'[c].f = pc[c].f
  /\ \A c \in Conns, f \in Files : job'[c][f] \in Posted => job[c][f] \in Posted

LEMMA QuietKeeps ==
  ASSUME VerdictInv, SpeechStep, QuietQueue, QuietTasks
  PROVE  VerdictInv'
  <1>1. \A f \in Files : Speaks(f)' => Speaks(f)
    BY DEF Speaks, QuietQueue, QuietTasks
  <1> QED
    BY <1>1, SpeechKeeps

LEMMA VerdictEvents ==
  \A k, g, v, f : Ev(k, g) = Ev(v, f) => k = v /\ g = f
  BY DEF Ev

LEMMA QuietReport ==
  ASSUME TypeOK, NEW p, NEW k, NEW g, Ev(k, g) \in EventSet, k \notin Verdicts, Report(p, k, g)
  PROVE  QuietQueue
  <1>1. Range(evq') \subseteq Range(evq) \cup {Ev(k, g)}
    BY ReportRange DEF TypeOK
  <1> QED
    BY <1>1, VerdictEvents DEF QuietQueue

LEMMA LoudReport ==
  ASSUME TypeOK, NEW p, NEW k, NEW g, Ev(k, g) \in EventSet, Report(p, k, g)
  PROVE  \A f \in Files, v \in Verdicts :
           Ev(v, f) \in Range(evq') => Ev(v, f) \in Range(evq) \/ f = g
  <1>1. Range(evq') \subseteq Range(evq) \cup {Ev(k, g)}
    BY ReportRange DEF TypeOK
  <1> QED
    BY <1>1, VerdictEvents

LEMMA QuietJob ==
  ASSUME TypeOK, NEW c \in Conns, NEW f \in Files, NEW s, s \notin Posted, JobTo(c, f, s)
  PROVE  \A d \in Conns, g \in Files : job'[d][g] \in Posted => job[d][g] \in Posted
  BY JobToKeeps

LEMMA VerdictStep == TypeOK /\ ControlInv /\ VerdictInv /\ [Next]_vars => VerdictInv'
  <1> SUFFICES ASSUME TypeOK, ControlInv, VerdictInv, [Next]_vars PROVE VerdictInv'
    OBVIOUS
  <1> USE DEF mgr, loops, jobs, events, calls, disk, ghost
  <1>1. ASSUME NEW c \in Conns, RegisterRefused(c) PROVE VerdictInv'
    <2>1. QuietQueue
      BY <1>1 DEF QuietQueue, RegisterRefused, Fresh
    <2>3. QuietTasks
      BY <1>1 DEF QuietTasks, Speaking, TypeOK, RegisterRefused, Fresh
    <2>4. SpeechStep
      BY <1>1 DEF SpeechStep, Usable, RegisterRefused, Fresh
    <2> QED
      BY <2>1, <2>3, <2>4, QuietKeeps
  <1>2. ASSUME NEW c \in Conns, RegisterResume(c) PROVE VerdictInv'
    <2>1. QuietQueue
      BY <1>2 DEF QuietQueue, RegisterResume, Fresh
    <2>3. QuietTasks
      BY <1>2 DEF QuietTasks, Speaking, TypeOK, RegisterResume, Fresh
    <2>4. SpeechStep
      BY <1>2 DEF SpeechStep, Usable, RegisterResume, Fresh
    <2> QED
      BY <2>1, <2>3, <2>4, QuietKeeps
  <1>3. ASSUME NEW c \in Conns, RegisterClosed(c) PROVE VerdictInv'
    <2>1. QuietQueue
      BY <1>3 DEF QuietQueue, RegisterClosed, Fresh, inserts_transfer
    <2>3. QuietTasks
      BY <1>3 DEF QuietTasks, Speaking, TypeOK, RegisterClosed, Fresh, inserts_transfer
    <2>4. SpeechStep
      BY <1>3 DEF SpeechStep, Usable, RegisterClosed, Fresh, inserts_transfer
    <2> QED
      BY <2>1, <2>3, <2>4, QuietKeeps
  <1>4. ASSUME NEW c \in Conns, RegisterNew(c) PROVE VerdictInv'
    <2>1. Blank /\ db = NoRows
      BY <1>4 DEF RegisterNew, inserts_transfer, ControlInv
    <2>2. QuietQueue
      BY <1>4, QuietReport, EventsTyped DEF RegisterNew, TransferEvents, Verdicts
    <2>3. \A f \in Files : ~Speaks(f)'
      BY <1>4, <2>1, <2>2, EmptyRange
         DEF RegisterNew, Blank, Speaks, QuietQueue, Select, Speaking, Posted, ApiIdle
    <2>4. \A f \in Files : db'.hist[f] = {} /\ db.hist[f] = {}
      BY <1>4, <2>1 DEF RegisterNew, insert_transfer, update_transfer_sync_states, NoRows
    <2> QED
      BY <1>4, <2>3, <2>4 DEF RegisterNew, VerdictInv
  <1>5. ASSUME NEW c \in Conns, OnReqDownload(c) PROVE VerdictInv'
    <2>1. QuietQueue
      BY <1>5 DEF QuietQueue, OnReqDownload, HasReq, Selecting, Break
    <2>3. QuietTasks
      BY <1>5 DEF QuietTasks, Speaking, TypeOK, OnReqDownload, HasReq, Selecting, Break, Posted
    <2>4. SpeechStep
      BY <1>5 DEF SpeechStep, Usable, OnReqDownload, HasReq, Selecting, Break
    <2> QED
      BY <2>1, <2>3, <2>4, QuietKeeps
  <1>6. ASSUME NEW c \in Conns, OnReqSend(c) PROVE VerdictInv'
    <2>1. QuietQueue
      BY <1>6 DEF QuietQueue, OnReqSend, HasReq, Selecting
    <2>3. QuietTasks
      BY <1>6 DEF QuietTasks, Speaking, TypeOK, OnReqSend, HasReq, Selecting
    <2>4. SpeechStep
      BY <1>6 DEF SpeechStep, Usable, OnReqSend, HasReq, Selecting
    <2> QED
      BY <2>1, <2>3, <2>4, QuietKeeps
  <1>7. ASSUME NEW c \in Conns, OnReqReject(c) PROVE VerdictInv'
    <2>1. QuietQueue
      BY <1>7 DEF QuietQueue, OnReqReject, HasReq, Selecting
    <2>3. QuietTasks
      BY <1>7 DEF QuietTasks, Speaking, TypeOK, OnReqReject, HasReq, Selecting
    <2>4. SpeechStep
      BY <1>7 DEF SpeechStep, Usable, OnReqReject, HasReq, Selecting
    <2> QED
      BY <2>1, <2>3, <2>4, QuietKeeps
  <1>8. ASSUME NEW c \in Conns, OnReqClose(c) PROVE VerdictInv'
    <2>1. QuietQueue
      BY <1>8 DEF QuietQueue, OnReqClose, HasReq, Selecting
    <2>3. QuietTasks
      BY <1>8 DEF QuietTasks, Speaking, TypeOK, OnReqClose, HasReq, Selecting
    <2>4. SpeechStep
      BY <1>8 DEF SpeechStep, Usable, OnReqClose, HasReq, Selecting
    <2> QED
      BY <2>1, <2>3, <2>4, QuietKeeps
  <1>9. ASSUME NEW c \in Conns, RecvClose(c) PROVE VerdictInv'
    <2>1. QuietQueue
      BY <1>9 DEF QuietQueue, RecvClose, Receives, Selecting
    <2>3. QuietTasks
      BY <1>9 DEF QuietTasks, Speaking, TypeOK, RecvClose, Receives, Selecting
    <2>4. SpeechStep
      BY <1>9 DEF SpeechStep, Usable, RecvClose, Receives, Selecting
    <2> QED
      BY <2>1, <2>3, <2>4, QuietKeeps
  <1>10. ASSUME NEW c \in Conns, NEW f \in Files, RecvReject(c, f) PROVE VerdictInv'
    <2>1. CASE xfer # "Absent" /\ file[f] \notin Terminal
      <3>1. PICK v \in Verdicts : Terminate(f, v)
        BY <1>10, <2>1 DEF RecvReject, TerminalRecv, Verdicts
      <3>2. db'.hist = db.hist /\ file' = [file EXCEPT ![f] = v]
        BY <3>1, TerminateKeeps
      <3>3. SpeechStep
        BY <1>10, <2>1, <3>1, <3>2 DEF SpeechStep, Usable, Terminal, TypeOK, RecvReject, Receives, Selecting, TerminalRecv
      <3>4. \A g \in Files : Speaks(g)' => Speaks(g) \/ g = f
        <4>1. \A d \in Conns : pc'[d] = pc[d] \/ pc'[d] = [op |-> "rej_stop", f |-> f]
          BY <1>10, <2>1 DEF TypeOK, RecvReject, TerminalRecv
        <4> QED
          BY <1>10, <4>1 DEF Speaks, RecvReject
      <3>5. file'[f] \in Terminal
        BY <3>1, <3>2 DEF TypeOK, Terminal
      <3> QED
        BY <3>3, <3>4, <3>5, SpeechKeeps
    <2>2. CASE ~(xfer # "Absent" /\ file[f] \notin Terminal)
      <3>1. SpeechStep /\ QuietQueue
        BY <1>10, <2>2 DEF SpeechStep, QuietQueue, Usable, RecvReject, Receives, Selecting, TerminalRecv
      <3>2. QuietTasks
        <4>1. \A d \in Conns : pc'[d] = pc[d] \/ pc'[d] = [op |-> "rej_none", f |-> f]
          BY <1>10, <2>2 DEF TypeOK, RecvReject, TerminalRecv
        <4> QED
          BY <1>10, <4>1 DEF QuietTasks, Speaking, RecvReject
      <3> QED
        BY <3>1, <3>2, QuietKeeps
    <2> QED
      BY <2>1, <2>2
  <1>11. ASSUME NEW c \in Conns, NEW f \in Files, RecvError(c, f) PROVE VerdictInv'
    <2>1. CASE xfer # "Absent" /\ file[f] \notin Terminal
      <3>1. PICK v \in Verdicts : Terminate(f, v)
        BY <1>11, <2>1 DEF RecvError, TerminalRecv, Verdicts
      <3>2. db'.hist = db.hist /\ file' = [file EXCEPT ![f] = v]
        BY <3>1, TerminateKeeps
      <3>3. SpeechStep
        BY <1>11, <2>1, <3>1, <3>2 DEF SpeechStep, Usable, Terminal, TypeOK, RecvError, Receives, Selecting, TerminalRecv
      <3>4. \A g \in Files : Speaks(g)' => Speaks(g) \/ g = f
        <4>1. \A d \in Conns : pc'[d] = pc[d] \/ pc'[d] = [op |-> "err_emit", f |-> f]
          BY <1>11, <2>1 DEF TypeOK, RecvError, TerminalRecv
        <4> QED
          BY <1>11, <4>1 DEF Speaks, RecvError
      <3>5. file'[f] \in Terminal
        BY <3>1, <3>2 DEF TypeOK, Terminal
      <3> QED
        BY <3>3, <3>4, <3>5, SpeechKeeps
    <2>2. CASE ~(xfer # "Absent" /\ file[f] \notin Terminal)
      <3>1. SpeechStep /\ QuietQueue
        BY <1>11, <2>2 DEF SpeechStep, QuietQueue, Usable, RecvError, Receives, Selecting, TerminalRecv
      <3>2. QuietTasks
        <4>1. \A d \in Conns : pc'[d] = pc[d] \/ pc'[d] = [op |-> "err_stop", f |-> f]
          BY <1>11, <2>2 DEF TypeOK, RecvError, TerminalRecv
        <4> QED
          BY <1>11, <4>1 DEF QuietTasks, Speaking, RecvError
      <3> QED
        BY <3>1, <3>2, QuietKeeps
    <2> QED
      BY <2>1, <2>2
  <1>12. ASSUME NEW c \in Conns, NEW f \in Files, RecvCancel(c, f) PROVE VerdictInv'
    <2>1. QuietQueue
      BY <1>12, QuietReport, EventsTyped DEF RecvCancel, FileEvents, TransferEvents, Verdicts
    <2>3. QuietTasks
      BY <1>12 DEF QuietTasks, Speaking, TypeOK, RecvCancel, Receives, Selecting
    <2>4. SpeechStep
      BY <1>12 DEF SpeechStep, Usable, RecvCancel, Receives, Selecting
    <2> QED
      BY <2>1, <2>3, <2>4, QuietKeeps
  <1>13. ASSUME NEW c \in Conns, LinkBroken(c) PROVE VerdictInv'
    <2>1. QuietQueue
      BY <1>13 DEF QuietQueue, LinkBroken, Selecting, At, Break
    <2>3. QuietTasks
      BY <1>13 DEF QuietTasks, Speaking, TypeOK, LinkBroken, Selecting, At, Break, Select
    <2>4. SpeechStep
      BY <1>13 DEF SpeechStep, Usable, LinkBroken, Selecting, At, Break
    <2> QED
      BY <2>1, <2>3, <2>4, QuietKeeps
  <1>14. ASSUME NEW c \in Conns, Drained(c) PROVE VerdictInv'
    <2>1. QuietQueue
      BY <1>14 DEF QuietQueue, Drained, At, Break
    <2>3. QuietTasks
      BY <1>14 DEF QuietTasks, Speaking, TypeOK, Drained, At, Break, Select
    <2>4. SpeechStep
      BY <1>14, RemoveKeeps DEF SpeechStep, Usable, Drained, At, Break, Remove
    <2> QED
      BY <2>1, <2>3, <2>4, QuietKeeps
  <1>15. ASSUME NEW c \in Conns, RecvCloseRemove(c) PROVE VerdictInv'
    <2>1. QuietQueue
      BY <1>15 DEF QuietQueue, RecvCloseRemove, At, Break
    <2>3. QuietTasks
      <3>1. \A d \in Conns : pc'[d] = pc[d] \/ pc'[d].op \in {"cancel", "select"}
        BY <1>15 DEF TypeOK, RecvCloseRemove, Select
      <3> QED
        BY <1>15, <3>1 DEF QuietTasks, Speaking, RecvCloseRemove
    <2>4. SpeechStep
      BY <1>15, RemoveKeeps DEF SpeechStep, Usable, RecvCloseRemove, At, Break, Remove
    <2> QED
      BY <2>1, <2>3, <2>4, QuietKeeps
  <1>16. ASSUME NEW c \in Conns, RecvCloseCancel(c) PROVE VerdictInv'
    <2>1. QuietQueue
      BY <1>16, QuietReport, EventsTyped DEF RecvCloseCancel, FileEvents, TransferEvents,
         Verdicts
    <2>3. QuietTasks
      BY <1>16 DEF QuietTasks, Speaking, TypeOK, RecvCloseCancel, At, Break, Select
    <2>4. SpeechStep
      BY <1>16 DEF SpeechStep, Usable, RecvCloseCancel, At, Break
    <2> QED
      BY <2>1, <2>3, <2>4, QuietKeeps
  <1>17. ASSUME NEW c \in Conns, RecvRejectStop(c) PROVE VerdictInv'
    <2>1. QuietQueue
      BY <1>17 DEF QuietQueue, RecvRejectStop, At
    <2>3. QuietTasks
      BY <1>17 DEF QuietTasks, Speaking, TypeOK, RecvRejectStop, At, Select
    <2>4. SpeechStep
      BY <1>17 DEF SpeechStep, Usable, RecvRejectStop, At
    <2> QED
      BY <2>1, <2>3, <2>4, QuietKeeps
  <1>18. ASSUME NEW c \in Conns, RecvRejectEmit(c) PROVE VerdictInv'
    <2>1. pc[c].f \in Files /\ Speaks(pc[c].f)
      <3>1. pc[c] \in HandlerPc /\ pc[c].op \in Speaking
        BY <1>18 DEF RecvRejectEmit, At, TypeOK, Speaking
      <3>2. pc[c].f \in Files
        BY <3>1 DEF HandlerPc, Select, Speaking
      <3> QED
        BY <3>1, <3>2 DEF Speaks
    <2>2. \A g \in Files, v \in Verdicts :
            Ev(v, g) \in Range(evq') => Ev(v, g) \in Range(evq) \/ g = pc[c].f
      BY <1>18, <2>1, LoudReport, EventsTyped DEF RecvRejectEmit, FileEvents, Verdicts
    <2>3. QuietTasks
      BY <1>18 DEF QuietTasks, Speaking, Posted, TypeOK, RecvRejectEmit, At, Select
    <2>4. \A g \in Files : Speaks(g)' => Speaks(g)
      BY <2>1, <2>2, <2>3 DEF Speaks, QuietTasks
    <2>5. SpeechStep
      BY <1>18 DEF SpeechStep, Usable, RecvRejectEmit, At
    <2> QED
      BY <2>4, <2>5, SpeechKeeps
  <1>19. ASSUME NEW c \in Conns, RecvErrorEmit(c) PROVE VerdictInv'
    <2>1. pc[c].f \in Files /\ Speaks(pc[c].f)
      <3>1. pc[c] \in HandlerPc /\ pc[c].op \in Speaking
        BY <1>19 DEF RecvErrorEmit, At, TypeOK, Speaking
      <3>2. pc[c].f \in Files
        BY <3>1 DEF HandlerPc, Select, Speaking
      <3> QED
        BY <3>1, <3>2 DEF Speaks
    <2>2. \A g \in Files, v \in Verdicts :
            Ev(v, g) \in Range(evq') => Ev(v, g) \in Range(evq) \/ g = pc[c].f
      BY <1>19, <2>1, LoudReport, EventsTyped DEF RecvErrorEmit, FileEvents, Verdicts
    <2>3. QuietTasks
      BY <1>19 DEF QuietTasks, Speaking, Posted, TypeOK, RecvErrorEmit, At, Select
    <2>4. \A g \in Files : Speaks(g)' => Speaks(g)
      BY <2>1, <2>2, <2>3 DEF Speaks, QuietTasks
    <2>5. SpeechStep
      BY <1>19 DEF SpeechStep, Usable, RecvErrorEmit, At
    <2> QED
      BY <2>4, <2>5, SpeechKeeps
  <1>20. ASSUME NEW c \in Conns, RecvErrorStop(c) PROVE VerdictInv'
    <2>1. QuietQueue
      BY <1>20 DEF QuietQueue, RecvErrorStop, At
    <2>3. QuietTasks
      BY <1>20 DEF QuietTasks, Speaking, TypeOK, RecvErrorStop, At, Select
    <2>4. SpeechStep
      BY <1>20 DEF SpeechStep, Usable, RecvErrorStop, At
    <2> QED
      BY <2>1, <2>3, <2>4, QuietKeeps
  <1>21. ASSUME NEW c \in Conns, LoopFinalize(c) PROVE VerdictInv'
    <2>1. QuietQueue
      <3>1. Range(evq') \subseteq Range(evq) \cup {Ev("Paused", f) : f \in Files}
        BY <1>21, FinalizeRange
      <3> QED
        BY <3>1, VerdictEvents DEF QuietQueue, Verdicts
    <2>3. QuietTasks
      BY <1>21 DEF QuietTasks, Speaking, TypeOK, LoopFinalize
    <2>4. SpeechStep
      BY <1>21 DEF SpeechStep, Usable, LoopFinalize
    <2> QED
      BY <2>1, <2>3, <2>4, QuietKeeps
  <1>22. ASSUME NEW c \in Conns, Disconnect(c) PROVE VerdictInv'
    <2>1. QuietQueue
      BY <1>22 DEF QuietQueue, Disconnect
    <2>3. QuietTasks
      BY <1>22 DEF QuietTasks, Speaking, TypeOK, Disconnect
    <2>4. SpeechStep
      BY <1>22 DEF SpeechStep, Usable, Disconnect
    <2> QED
      BY <2>1, <2>3, <2>4, QuietKeeps
  <1>23. ASSUME NEW c \in Conns, NEW f \in Files, JobAborted(c, f) PROVE VerdictInv'
    <2>1. QuietQueue
      BY <1>23 DEF QuietQueue, JobAborted, Abortable
    <2>2. \A d \in Conns, g \in Files : job'[d][g] \in Posted => job[d][g] \in Posted
      BY <1>23, QuietJob DEF JobAborted, Posted
    <2>3. QuietTasks
      BY <1>23, <2>2 DEF QuietTasks, JobAborted, Abortable
    <2>4. SpeechStep
      BY <1>23 DEF SpeechStep, Usable, JobAborted, Abortable
    <2> QED
      BY <2>1, <2>3, <2>4, QuietKeeps
  <1>24. ASSUME NEW c \in Conns, NEW f \in Files, JobPreflight(c, f) PROVE VerdictInv'
    <2>1. QuietQueue
      BY <1>24 DEF QuietQueue, JobPreflight, JobAt
    <2>2. \A d \in Conns, g \in Files : job'[d][g] \in Posted => job[d][g] \in Posted
      BY <1>24, QuietJob DEF JobPreflight, Posted
    <2>3. QuietTasks
      BY <1>24, <2>2 DEF QuietTasks, JobPreflight, JobAt
    <2>4. SpeechStep
      BY <1>24 DEF SpeechStep, Usable, JobPreflight, JobAt
    <2> QED
      BY <2>1, <2>3, <2>4, QuietKeeps
  <1>25. ASSUME NEW c \in Conns, NEW f \in Files, JobStart(c, f) PROVE VerdictInv'
    <2>1. QuietQueue
      BY <1>25, QuietReport, EventsTyped DEF JobStart, FileEvents, TransferEvents, Verdicts
    <2>2. \A d \in Conns, g \in Files : job'[d][g] \in Posted => job[d][g] \in Posted
      BY <1>25, QuietJob DEF JobStart, Posted
    <2>3. QuietTasks
      BY <1>25, <2>2 DEF QuietTasks, JobStart, JobAt
    <2>4. SpeechStep
      BY <1>25 DEF SpeechStep, Usable, JobStart, JobAt
    <2> QED
      BY <2>1, <2>3, <2>4, QuietKeeps
  <1>26. ASSUME NEW c \in Conns, NEW f \in Files, JobPlace(c, f) PROVE VerdictInv'
    <2>1. QuietQueue
      BY <1>26 DEF QuietQueue, JobPlace, JobAt
    <2>2. \A d \in Conns, g \in Files : job'[d][g] \in Posted => job[d][g] \in Posted
      BY <1>26, QuietJob DEF JobPlace, Posted
    <2>3. QuietTasks
      BY <1>26, <2>2 DEF QuietTasks, JobPlace, JobAt
    <2>4. SpeechStep
      BY <1>26 DEF SpeechStep, Usable, JobPlace, JobAt
    <2> QED
      BY <2>1, <2>3, <2>4, QuietKeeps
  <1>27. ASSUME NEW c \in Conns, NEW f \in Files, JobCanceled(c, f) PROVE VerdictInv'
    <2>1. QuietQueue
      BY <1>27 DEF QuietQueue, JobCanceled, JobAt
    <2>2. \A d \in Conns, g \in Files : job'[d][g] \in Posted => job[d][g] \in Posted
      BY <1>27, QuietJob DEF JobCanceled, Posted
    <2>3. QuietTasks
      BY <1>27, <2>2 DEF QuietTasks, JobCanceled, JobAt
    <2>4. SpeechStep
      BY <1>27 DEF SpeechStep, Usable, JobCanceled, JobAt
    <2> QED
      BY <2>1, <2>3, <2>4, QuietKeeps
  <1>28. ASSUME NEW c \in Conns, NEW f \in Files, JobFail(c, f) PROVE VerdictInv'
    <2>1. QuietQueue
      BY <1>28 DEF QuietQueue, JobFail, Abortable
    <2>2. \A d \in Conns, g \in Files : job'[d][g] \in Posted => job[d][g] \in Posted
      BY <1>28, QuietJob DEF JobFail, Posted
    <2>3. QuietTasks
      BY <1>28, <2>2 DEF QuietTasks, JobFail, Abortable
    <2>4. SpeechStep
      BY <1>28 DEF SpeechStep, Usable, JobFail, Abortable
    <2> QED
      BY <2>1, <2>3, <2>4, QuietKeeps
  <1>29. ASSUME NEW c \in Conns, NEW f \in Files, JobPost(c, f) PROVE VerdictInv'
    <2>1. CASE Usable /\ file[f] \notin Terminal
      <3>1. PICK v \in Verdicts : Terminate(f, v)
        BY <1>29, <2>1 DEF JobPost, Verdicts
      <3>2. db'.hist = db.hist /\ file' = [file EXCEPT ![f] = v]
        BY <3>1, TerminateKeeps
      <3>3. SpeechStep
        BY <1>29, <2>1, <3>1, <3>2 DEF SpeechStep, Usable, Terminal, TypeOK, JobPost, JobAt
      <3>4. \A g \in Files : Speaks(g)' => Speaks(g) \/ g = f
        BY <1>29 DEF Speaks, TypeOK, JobPost, JobAt, JobTo
      <3>5. file'[f] \in Terminal
        BY <3>1, <3>2 DEF TypeOK, Terminal
      <3> QED
        BY <3>3, <3>4, <3>5, SpeechKeeps
    <2>2. CASE ~(Usable /\ file[f] \notin Terminal)
      <3>1. SpeechStep
        BY <1>29, <2>2 DEF SpeechStep, Usable, JobPost, JobAt
      <3>2. \A g \in Files : Speaks(g)' => Speaks(g) \/ g = f
        BY <1>29 DEF Speaks, TypeOK, JobPost, JobAt, JobTo
      <3>3. Usable' => file'[f] \in Terminal
        BY <1>29, <2>2 DEF Usable, JobPost
      <3> QED
        BY <3>1, <3>2, <3>3, SpeechKeeps
    <2> QED
      BY <2>1, <2>2
  <1>30. ASSUME NEW c \in Conns, NEW f \in Files, JobReport(c, f) PROVE VerdictInv'
    <2>1. f \in Files /\ Speaks(f)
      BY <1>30 DEF JobReport, JobAt, Speaks, Speaking, Posted
    <2>2. \A g \in Files, v \in Verdicts :
            Ev(v, g) \in Range(evq') => Ev(v, g) \in Range(evq) \/ g = f
      BY <1>30, <2>1, LoudReport, EventsTyped DEF JobReport, FileEvents, Verdicts
    <2>3. QuietTasks
      BY <1>30 DEF QuietTasks, Speaking, Posted, TypeOK, JobReport, JobAt, JobTo
    <2>4. \A g \in Files : Speaks(g)' => Speaks(g)
      BY <2>1, <2>2, <2>3 DEF Speaks, QuietTasks
    <2>5. SpeechStep
      BY <1>30 DEF SpeechStep, Usable, JobReport, JobAt
    <2> QED
      BY <2>4, <2>5, SpeechKeeps
  <1>31. ASSUME NEW f \in Files, ApiDownload(f) PROVE VerdictInv'
    <2>1. QuietQueue
      BY <1>31, QuietReport, EventsTyped DEF ApiDownload, FileEvents, TransferEvents, Verdicts
    <2>3. QuietTasks
      BY <1>31 DEF QuietTasks, Speaking, TypeOK, ApiDownload, Calls, Usable
    <2>4. SpeechStep
      BY <1>31 DEF SpeechStep, Usable, ApiDownload, Calls, Usable, start_incoming_file, TypeOK,
         Rows, Terminal, Verdicts
    <2> QED
      BY <2>1, <2>3, <2>4, QuietKeeps
  <1>32. ASSUME NEW f \in Files, ApiReject(f) PROVE VerdictInv'
    <2>1. Terminate(f, "Rejected") /\ "Rejected" \in Verdicts
      BY <1>32 DEF ApiReject, Verdicts
    <2>2. db'.hist = db.hist /\ file' = [file EXCEPT ![f] = "Rejected"]
      BY <2>1, TerminateKeeps
    <2>3. SpeechStep
      BY <1>32, <2>1, <2>2 DEF SpeechStep, Usable, Terminal, TypeOK, ApiReject, Calls
    <2>4. \A g \in Files : Speaks(g)' => Speaks(g) \/ g = f
      BY <1>32 DEF Speaks, ApiReject
    <2>5. file'[f] \in Terminal
      BY <2>1, <2>2 DEF TypeOK, Terminal
    <2> QED
      BY <2>3, <2>4, <2>5, SpeechKeeps
  <1>33. ASSUME ApiCancel PROVE VerdictInv'
    <2>1. QuietQueue
      BY <1>33 DEF QuietQueue, ApiCancel, Calls, Usable
    <2>3. QuietTasks
      BY <1>33 DEF QuietTasks, Speaking, TypeOK, ApiCancel, Calls, Usable
    <2>4. SpeechStep
      BY <1>33 DEF SpeechStep, Usable, ApiCancel, Calls, Usable, update_transfer_sync_states,
         TypeOK, Rows
    <2> QED
      BY <2>1, <2>3, <2>4, QuietKeeps
  <1>34. ASSUME ApiPurge PROVE VerdictInv'
    <2>1. QuietQueue
      BY <1>34 DEF QuietQueue, ApiPurge, Calls
    <2>3. QuietTasks
      BY <1>34 DEF QuietTasks, Speaking, TypeOK, ApiPurge, Calls
    <2>4. SpeechStep
      BY <1>34 DEF SpeechStep, Usable, ApiPurge, Calls, purge_transfers, TypeOK, Rows
    <2> QED
      BY <2>1, <2>3, <2>4, QuietKeeps
  <1>35. ASSUME ApiRejectEmit PROVE VerdictInv'
    <2>1. api.f \in Files /\ Speaks(api.f)
      BY <1>35 DEF ApiRejectEmit, Speaks, Speaking, Posted, TypeOK, ApiCall
    <2>2. \A g \in Files, v \in Verdicts :
            Ev(v, g) \in Range(evq') => Ev(v, g) \in Range(evq) \/ g = api.f
      BY <1>35, <2>1, LoudReport, EventsTyped DEF ApiRejectEmit, FileEvents, Verdicts
    <2>3. QuietTasks
      BY <1>35 DEF QuietTasks, Speaking, Posted, TypeOK, ApiRejectEmit, ApiIdle
    <2>4. \A g \in Files : Speaks(g)' => Speaks(g)
      BY <2>1, <2>2, <2>3 DEF Speaks, QuietTasks
    <2>5. SpeechStep
      BY <1>35 DEF SpeechStep, Usable, ApiRejectEmit
    <2> QED
      BY <2>4, <2>5, SpeechKeeps
  <1>36. ASSUME ApiCancelEmit PROVE VerdictInv'
    <2>1. QuietQueue
      BY <1>36, QuietReport, EventsTyped DEF ApiCancelEmit, FileEvents, TransferEvents, Verdicts
    <2>3. QuietTasks
      BY <1>36 DEF QuietTasks, Speaking, TypeOK, ApiCancelEmit, ApiIdle
    <2>4. SpeechStep
      BY <1>36 DEF SpeechStep, Usable, ApiCancelEmit
    <2> QED
      BY <2>1, <2>3, <2>4, QuietKeeps
  <1>37. ASSUME CheckDead PROVE VerdictInv'
    <2>1. QuietQueue
      BY <1>37 DEF QuietQueue, CheckDead
    <2>3. QuietTasks
      BY <1>37 DEF QuietTasks, Speaking, TypeOK, CheckDead
    <2>4. SpeechStep
      BY <1>37, RemoveKeeps DEF SpeechStep, Usable, CheckDead, Remove
    <2> QED
      BY <2>1, <2>3, <2>4, QuietKeeps
  <1>38. ASSUME CheckGone PROVE VerdictInv'
    <2>1. QuietQueue
      BY <1>38 DEF QuietQueue, CheckGone, Usable
    <2>3. QuietTasks
      BY <1>38 DEF QuietTasks, Speaking, TypeOK, CheckGone, Usable
    <2>4. SpeechStep
      BY <1>38, RemoveKeeps DEF SpeechStep, Usable, CheckGone, Usable, Remove
    <2> QED
      BY <2>1, <2>3, <2>4, QuietKeeps
  <1>39. ASSUME CheckEmit PROVE VerdictInv'
    <2>1. QuietQueue
      BY <1>39, QuietReport, EventsTyped DEF CheckEmit, FileEvents, TransferEvents, Verdicts
    <2>3. QuietTasks
      BY <1>39 DEF QuietTasks, Speaking, TypeOK, CheckEmit
    <2>4. SpeechStep
      BY <1>39 DEF SpeechStep, Usable, CheckEmit
    <2> QED
      BY <2>1, <2>3, <2>4, QuietKeeps
  <1>40. ASSUME EventTask PROVE VerdictInv'
    <2> DEFINE e == Head(evq)
    <2>1. /\ e \in EventSet /\ evq \in Seq(EventSet) /\ evq # <<>>
          /\ e \in Range(evq) /\ Range(evq') \subseteq Range(evq)
      BY <1>40, QueueHead, TailRange DEF EventTask, TypeOK
    <2>2. db.row
      BY <1>40 DEF EventTask, ControlInv, Blank
    <2>3. /\ db' = StoredBy(e) /\ up' = up /\ xfer' = xfer /\ file' = file /\ purged' = purged
          /\ told' = IF e.k \in Verdicts THEN [told EXCEPT ![e.f] = @ \cup {e.k}] ELSE told
      BY <1>40 DEF EventTask
    <2>4. \A f \in Files : Speaks(f)' => Speaks(f)
      BY <1>40, <2>1 DEF EventTask, Speaks
    <2> HIDE DEF e
    <2> SUFFICES ASSUME NEW f \in Files
                 PROVE  /\ up' /\ Usable' /\ (Speaks(f)' \/ db'.hist[f] # {}) => file'[f] \in Terminal
                        /\ told'[f] # {} /\ ~purged' => db'.hist[f] # {}
      BY DEF VerdictInv
    <2>5. /\ up /\ Usable /\ (Speaks(f) \/ db.hist[f] # {}) => file[f] \in Terminal
          /\ told[f] # {} /\ ~purged => db.hist[f] # {}
      BY DEF VerdictInv
    <2>6. CASE e.k \in Verdicts /\ e.f = f
      <3>1. e = Ev(e.k, f)
        BY <2>1, <2>6 DEF EventSet, TransferEvents, Ev
      <3>2. Speaks(f)
        BY <2>1, <2>6, <3>1 DEF Speaks
      <3>3. db' = insert_path_state(db, f, e.k)
        BY <2>3, <2>6 DEF StoredBy, Cancelation, Verdicts
      <3>4. db'.hist[f] # {}
        BY <2>2, <3>3 DEF insert_path_state, TypeOK, Rows
      <3> QED
        BY <2>3, <2>5, <3>2, <3>4 DEF Usable
    <2>7. CASE ~(e.k \in Verdicts /\ e.f = f)
      <3>1. told'[f] = told[f]
        BY <2>3, <2>7 DEF TypeOK
      <3>2. db'.hist[f] = db.hist[f]
        <4>1. CASE e.k \in Verdicts
          <5>1. e.f \in Files /\ e.f # f /\ db' = insert_path_state(db, e.f, e.k)
            BY <2>1, <2>3, <2>7, <4>1 DEF StoredBy, Cancelation, Verdicts, EventSet, TransferEvents
          <5> QED
            BY <5>1 DEF insert_path_state, TypeOK, Rows
        <4>2. CASE e.k \notin Verdicts
          BY <2>3, <4>2 DEF StoredBy, insert_transfer_cancel_state, TypeOK, Rows
        <4> QED
          BY <4>1, <4>2
      <3> QED
        BY <2>3, <2>4, <2>5, <3>1, <3>2 DEF Usable
    <2> QED
      BY <2>6, <2>7
  <1>41. ASSUME Crash PROVE VerdictInv'
    <2>1. ~up' /\ told' = told /\ purged' = purged
      BY <1>41 DEF Crash, Down
    <2>2. \A f \in Files : db.hist[f] # {} => db'.hist[f] # {}
      BY <1>41 DEF Crash
    <2> QED
      BY <2>1, <2>2 DEF VerdictInv
  <1>42. ASSUME CrashInRegister PROVE VerdictInv'
    <2>1. ~up' /\ told' = told /\ purged' = purged
      BY <1>42 DEF CrashInRegister, Down
    <2>2. \A f \in Files : db.hist[f] # {} => db'.hist[f] # {}
      BY <1>42 DEF CrashInRegister, inserts_transfer, ControlInv, NoRows
    <2> QED
      BY <2>1, <2>2 DEF VerdictInv
  <1>43. ASSUME NEW f \in Files, CrashInTerminate(f) PROVE VerdictInv'
    <2>1. ~up' /\ told' = told /\ purged' = purged
      BY <1>43 DEF CrashInTerminate, Down
    <2>2. \A g \in Files : db.hist[g] # {} => db'.hist[g] # {}
      BY <1>43 DEF CrashInTerminate, update_file_sync_states, TypeOK, Rows
    <2> QED
      BY <2>1, <2>2 DEF VerdictInv
  <1>44. ASSUME CrashInEventTask PROVE VerdictInv'
    <2>1. ~up' /\ told' = told /\ purged' = purged
      BY <1>44 DEF CrashInEventTask, Down
    <2>2. \A f \in Files : db.hist[f] # {} => db'.hist[f] # {}
      BY <1>44, QueueHead, StoredRows DEF CrashInEventTask
    <2> QED
      BY <2>1, <2>2 DEF VerdictInv
  <1>45. ASSUME Restart PROVE VerdictInv'
    <2>1. Blank
      BY <1>45 DEF Restart, ControlInv
    <2>2. \A f \in Files : ~Speaks(f)'
      BY <1>45, <2>1, EmptyRange DEF Restart, Blank, Speaks, Select, Speaking, Posted, ApiIdle
    <2>3. CASE db' = db
      <3>1. ASSUME NEW f \in Files, Usable', db'.hist[f] # {} PROVE file'[f] \in Terminal
        <4>1. file' = [g \in Files |-> RestoredFile(db', g)]
          BY <1>45, <2>1, <3>1 DEF Restart, Usable, Blank
        <4>2. RestoredVerdict(db', f) \in Terminal
          BY DEF RestoredVerdict, Terminal, Verdicts
        <4> QED
          BY <3>1, <4>1, <4>2 DEF RestoredFile, IsRestoredTerminal
      <3> QED
        BY <1>45, <2>2, <2>3, <3>1 DEF Restart, VerdictInv
    <2>4. CASE db' # db
      <3>1. db' = NoRows /\ purged
        BY <1>45, <2>4 DEF Restart, cleanup_garbage_transfers, ControlInv
      <3>2. ~Usable'
        BY <1>45, <2>1, <3>1 DEF Restart, Usable, Blank, NoRows
      <3> QED
        BY <1>45, <2>2, <3>1, <3>2 DEF Restart, VerdictInv
    <2> QED
      BY <2>3, <2>4
  <1>46. CASE UNCHANGED vars
    BY <1>46 DEF vars, VerdictInv, Speaks, Usable
  <1> QED
    BY <1>1, <1>2, <1>3, <1>4, <1>5, <1>6, <1>7, <1>8, <1>9, <1>10, <1>11, <1>12, <1>13, <1>14,
       <1>15, <1>16, <1>17, <1>18, <1>19, <1>20, <1>21, <1>22, <1>23, <1>24, <1>25, <1>26,
       <1>27, <1>28, <1>29, <1>30, <1>31, <1>32, <1>33, <1>34, <1>35, <1>36, <1>37, <1>38,
       <1>39, <1>40, <1>41, <1>42, <1>43, <1>44, <1>45, <1>46
       DEF Next, Connection, Request, Message, Handler, LoopEnd, Job, Detached,
           Api, ApiRest, Check, CrashAny

-----------------------------------------------------------------------------
(* A cancelation is reported once, and for good.                           *)

\* Cancelations on their way to the application, by their place in the queue.
CancelsAt == {i \in DOMAIN evq : evq[i].k \in Cancelation}

\* The application was told, or will be.
Over == cancels > 0 \/ CancelsAt # {}

\* Someone took it upon himself to report a cancelation.
Cancelers ==
  \/ \E c \in Conns : pc[c].op = "cancel"
  \/ api.op = "cancel"
  \/ chk \in {"dead", "gone"}

\* Whoever reports a cancelation has already made the transfer unusable; and
\* until a purge there is one report at most, it is backed by the rows, and
\* the gate is open after it only for a transfer that is gone and that nobody
\* will report again (after a restart).
CancelInv ==
  /\ up /\ Cancelers => xfer \in {"Absent", "Canceled"}
  /\ ~purged =>
       /\ cancels \in {0, 1} /\ (cancels > 0 => CancelsAt = {})
       /\ \A i, j \in CancelsAt : i = j
       /\ Over => db.row /\ db.sync \in {"None", "Canceled"}
       /\ up /\ xev = "Ongoing" /\ Over => xfer = "Absent" /\ ~Cancelers

LEMMA CancelInit == Init => CancelInv
  <1> SUFFICES ASSUME Init PROVE CancelInv
    OBVIOUS
  <1>1. CancelsAt = {} /\ cancels = 0 /\ ~Over /\ ~Cancelers
    BY DEF Init, CancelsAt, Over, Cancelers, Select, ApiIdle
  <1> QED
    BY <1>1 DEF CancelInv

\* Steps that neither report a cancelation nor take it upon anyone to do so.
CancelFrame ==
  /\ CancelsAt' = CancelsAt /\ cancels' = cancels
  /\ purged => purged'
  /\ up' => up
  /\ xev' = xev
  /\ Cancelers' => Cancelers
  /\ xfer \in {"Absent", "Canceled"} => xfer' \in {"Absent", "Canceled"}
  /\ xfer = "Absent" => xfer' = "Absent"
  /\ db.row => db'.row
  /\ db.sync \in {"None", "Canceled"} => db'.sync \in {"None", "Canceled"}

LEMMA CancelKeeps ==
  ASSUME CancelInv, CancelFrame
  PROVE  CancelInv'
  BY DEF CancelInv, CancelFrame, Over

\* The transfer leaves the map or is canceled, and someone will report it.
CancelTaken ==
  /\ CancelsAt' = CancelsAt /\ cancels' = cancels
  /\ purged' = purged
  /\ up
  /\ xev' = xev
  /\ xfer # "Absent" /\ xfer' \in {"Absent", "Canceled"}
  /\ db.row => db'.row
  /\ db'.sync \in {"None", "Canceled"}

LEMMA TakenKeeps ==
  ASSUME CancelInv, CancelTaken
  PROVE  CancelInv'
  BY DEF CancelInv, CancelTaken, Over

\* The report itself.
CancelReport(k) ==
  /\ k \in Cancelation /\ Cancelers /\ up
  /\ Report(finish_emits(xev), k, NoFile)
  /\ xev' = finish(xev)
  /\ cancels' = cancels /\ purged' = purged /\ up' = up /\ xfer' = xfer /\ db' = db
  /\ Cancelers' => Cancelers

LEMMA ReportsCancel ==
  ASSUME TypeOK, ControlInv, SyncInv, CancelInv, NEW k, CancelReport(k)
  PROVE  CancelInv'
  <1>1. xfer \in {"Absent", "Canceled"} /\ xfer' = xfer
    BY DEF CancelInv, CancelReport
  <1>2. db.row /\ db.sync \in {"None", "Canceled"} /\ db' = db
    <2>1. ~Blank
      BY DEF CancelReport, Blank, Cancelers, Select, ApiIdle
    <2>2. db.row
      BY <2>1 DEF ControlInv
    <2>3. xfer = IF db.sync = "None" THEN "Absent" ELSE db.sync
      BY DEF CancelReport, SyncInv
    <2>4. db.sync \in SyncState \cup {"None"}
      BY DEF TypeOK, Rows
    <2> QED
      BY <1>1, <2>2, <2>3, <2>4 DEF SyncState, CancelReport
  <1>3. xev' # "Ongoing" /\ purged' = purged /\ cancels' = cancels /\ up' = up
    BY DEF CancelReport, finish
  <1>4. CASE xev = "Ongoing" /\ ~purged
    <2>1. ~Over
      BY <1>4 DEF CancelInv, CancelReport
    <2>2. cancels = 0 /\ CancelsAt = {}
      BY <1>4, <2>1 DEF CancelInv, Over
    <2>3. Ev(k, NoFile) \in EventSet /\ evq \in Seq(EventSet)
      BY EventsTyped DEF TypeOK, CancelReport, Cancelation, TransferEvents
    <2>4. evq' = evq \/ evq' = Append(evq, Ev(k, NoFile))
      BY DEF CancelReport, Report, Emit
    <2>5. \A i \in DOMAIN Append(evq, Ev(k, NoFile)) :
            \/ i \in DOMAIN evq /\ Append(evq, Ev(k, NoFile))[i] = evq[i]
            \/ i = Len(evq) + 1
      BY <2>3, AppendElements
    <2>6. \A i \in CancelsAt' : i = Len(evq) + 1
      BY <2>2, <2>4, <2>5 DEF CancelsAt
    <2> QED
      BY <1>1, <1>2, <1>3, <2>2, <2>6 DEF CancelInv
  <1>5. CASE ~(xev = "Ongoing" /\ ~purged)
    <2>1. CASE purged
      BY <1>1, <1>3, <2>1 DEF CancelInv
    <2>2. CASE xev # "Ongoing"
      <3>1. evq' = evq
        BY <2>2 DEF CancelReport, Report, Emit, finish_emits
      <3>2. CancelsAt' = CancelsAt
        BY <3>1 DEF CancelsAt
      <3> QED
        BY <1>1, <1>2, <1>3, <3>2 DEF CancelInv, Over
    <2> QED
      BY <1>5, <2>1, <2>2
  <1> QED
    BY <1>4, <1>5

LEMMA OtherReport ==
  ASSUME TypeOK, NEW p, NEW k, NEW g, Ev(k, g) \in EventSet, k \notin Cancelation, Report(p, k, g)
  PROVE  CancelsAt' = CancelsAt
  <1>1. evq \in Seq(EventSet) /\ Ev(k, g).k = k
    BY DEF TypeOK, Ev
  <1>2. CASE evq' = evq
    BY <1>2 DEF CancelsAt
  <1>3. CASE evq' = Append(evq, Ev(k, g))
    <2>1. /\ \A i \in DOMAIN evq : i \in DOMAIN evq' /\ evq'[i] = evq[i]
          /\ \A i \in DOMAIN evq' : i \in DOMAIN evq \/ (evq'[i] = Ev(k, g))
      BY <1>1, <1>3, AppendElements
    <2> QED
      BY <1>1, <2>1 DEF CancelsAt
  <1> QED
    BY <1>2, <1>3 DEF Report, Emit

LEMMA SpeakerFile ==
  ASSUME TypeOK, NEW c \in Conns, pc[c].op \in Speaking
  PROVE  pc[c].f \in Files
  <1>1. pc[c] \in HandlerPc
    BY DEF TypeOK
  <1> QED
    BY <1>1 DEF HandlerPc, Select, Speaking

LEMMA FinalizeCancels ==
  ASSUME TypeOK, NEW c \in Conns, LoopFinalize(c)
  PROVE  CancelsAt' = CancelsAt
  <1>1. PICK s \in Orders(Paused(c)) :
          evq' = IF "Paused" \in Reported
                 THEN evq \o [i \in DOMAIN s |-> Ev("Paused", s[i])] ELSE evq
    BY DEF LoopFinalize
  <1>2. s \in Seq(Files)
    BY <1>1, OrdersTyped DEF Paused, TypeOK
  <1> DEFINE m == [i \in DOMAIN s |-> Ev("Paused", s[i])]
  <1>3. m \in [1 .. Len(s) -> EventSet]
    BY <1>2, EventsTyped DEF FileEvents
  <1>4. m \in Seq(EventSet)
    BY <1>2, <1>3
  <1>5. \A i \in DOMAIN m : m[i].k = "Paused"
    BY DEF Ev
  <1> HIDE DEF m
  <1>6. evq \in Seq(EventSet)
    BY DEF TypeOK
  <1>7. CASE evq' = evq
    BY <1>7 DEF CancelsAt
  <1>8. CASE evq' = evq \o m
    <2>1. \A i \in DOMAIN evq : i \in DOMAIN evq' /\ evq'[i] = evq[i]
      BY <1>4, <1>6, <1>8
    <2>2. \A i \in DOMAIN evq' : i \in DOMAIN evq \/ evq'[i].k = "Paused"
      <3> SUFFICES ASSUME NEW i \in DOMAIN (evq \o m), i \notin DOMAIN evq
                   PROVE  (evq \o m)[i].k = "Paused"
        BY <1>8
      <3>1. i - Len(evq) \in DOMAIN m /\ (evq \o m)[i] = m[i - Len(evq)]
        BY <1>4, <1>6
      <3> QED
        BY <1>5, <3>1
    <2> QED
      BY <2>1, <2>2 DEF CancelsAt, Cancelation
  <1> QED
    BY <1>1, <1>7, <1>8 DEF m

LEMMA CancelStep == TypeOK /\ ControlInv /\ SyncInv /\ CancelInv /\ [Next]_vars => CancelInv'
  <1> SUFFICES ASSUME TypeOK, ControlInv, SyncInv, CancelInv, [Next]_vars PROVE CancelInv'
    OBVIOUS
  <1> USE DEF mgr, loops, jobs, events, calls, disk, ghost
  <1>1. ASSUME NEW c \in Conns, RegisterRefused(c) PROVE CancelInv'
    <2>1. CancelsAt' = CancelsAt
      BY <1>1 DEF CancelsAt, RegisterRefused, Fresh
    <2>2. Cancelers' => Cancelers
      BY <1>1 DEF Cancelers, TypeOK, RegisterRefused, Fresh
    <2>3. CancelFrame
      BY <1>1, <2>1, <2>2 DEF CancelFrame, RegisterRefused, Fresh
    <2> QED
      BY <2>3, CancelKeeps
  <1>2. ASSUME NEW c \in Conns, RegisterResume(c) PROVE CancelInv'
    <2>1. CancelsAt' = CancelsAt
      BY <1>2 DEF CancelsAt, RegisterResume, Fresh
    <2>2. Cancelers' => Cancelers
      BY <1>2 DEF Cancelers, TypeOK, RegisterResume, Fresh
    <2>3. CancelFrame
      BY <1>2, <2>1, <2>2 DEF CancelFrame, RegisterResume, Fresh
    <2> QED
      BY <2>3, CancelKeeps
  <1>3. ASSUME NEW c \in Conns, RegisterClosed(c) PROVE CancelInv'
    <2>1. CancelsAt' = CancelsAt
      BY <1>3 DEF CancelsAt, RegisterClosed, Fresh, inserts_transfer
    <2>2. Cancelers' => Cancelers
      BY <1>3 DEF Cancelers, TypeOK, RegisterClosed, Fresh, inserts_transfer
    <2>3. CancelFrame
      BY <1>3, <2>1, <2>2 DEF CancelFrame, RegisterClosed, Fresh, inserts_transfer
    <2> QED
      BY <2>3, CancelKeeps
  <1>4. ASSUME NEW c \in Conns, RegisterNew(c) PROVE CancelInv'
    <2>1. Blank /\ db = NoRows
      BY <1>4 DEF RegisterNew, inserts_transfer, ControlInv
    <2>2. CancelsAt' = CancelsAt /\ CancelsAt = {}
      <3>1. CancelsAt = {}
        BY <2>1 DEF Blank, CancelsAt
      <3>2. CancelsAt' = CancelsAt
        BY <1>4, OtherReport, EventsTyped DEF RegisterNew, TransferEvents, Cancelation
      <3> QED
        BY <3>1, <3>2
    <2>3. ~Cancelers'
      BY <1>4, <2>1 DEF RegisterNew, Cancelers, Blank, Select, ApiIdle
    <2>4. ~purged => cancels = 0
      BY <2>1 DEF CancelInv, Over, NoRows
    <2>5. cancels' = cancels /\ purged' = purged
      BY <1>4 DEF RegisterNew
    <2> QED
      BY <2>2, <2>3, <2>4, <2>5 DEF CancelInv, Over
  <1>5. ASSUME NEW c \in Conns, OnReqDownload(c) PROVE CancelInv'
    <2>1. CancelsAt' = CancelsAt
      BY <1>5 DEF CancelsAt, OnReqDownload, HasReq, Selecting, Break
    <2>2. Cancelers' => Cancelers
      BY <1>5 DEF Cancelers, TypeOK, OnReqDownload, HasReq, Selecting, Break
    <2>3. CancelFrame
      BY <1>5, <2>1, <2>2 DEF CancelFrame, OnReqDownload, HasReq, Selecting, Break
    <2> QED
      BY <2>3, CancelKeeps
  <1>6. ASSUME NEW c \in Conns, OnReqSend(c) PROVE CancelInv'
    <2>1. CancelsAt' = CancelsAt
      BY <1>6 DEF CancelsAt, OnReqSend, HasReq, Selecting
    <2>2. Cancelers' => Cancelers
      BY <1>6 DEF Cancelers, TypeOK, OnReqSend, HasReq, Selecting
    <2>3. CancelFrame
      BY <1>6, <2>1, <2>2 DEF CancelFrame, OnReqSend, HasReq, Selecting
    <2> QED
      BY <2>3, CancelKeeps
  <1>7. ASSUME NEW c \in Conns, OnReqReject(c) PROVE CancelInv'
    <2>1. CancelsAt' = CancelsAt
      BY <1>7 DEF CancelsAt, OnReqReject, HasReq, Selecting
    <2>2. Cancelers' => Cancelers
      BY <1>7 DEF Cancelers, TypeOK, OnReqReject, HasReq, Selecting
    <2>3. CancelFrame
      BY <1>7, <2>1, <2>2 DEF CancelFrame, OnReqReject, HasReq, Selecting
    <2> QED
      BY <2>3, CancelKeeps
  <1>8. ASSUME NEW c \in Conns, OnReqClose(c) PROVE CancelInv'
    <2>1. CancelsAt' = CancelsAt
      BY <1>8 DEF CancelsAt, OnReqClose, HasReq, Selecting
    <2>2. Cancelers' => Cancelers
      BY <1>8 DEF Cancelers, TypeOK, OnReqClose, HasReq, Selecting
    <2>3. CancelFrame
      BY <1>8, <2>1, <2>2 DEF CancelFrame, OnReqClose, HasReq, Selecting
    <2> QED
      BY <2>3, CancelKeeps
  <1>9. ASSUME NEW c \in Conns, RecvClose(c) PROVE CancelInv'
    <2>1. CancelsAt' = CancelsAt
      BY <1>9 DEF CancelsAt, RecvClose, Receives, Selecting
    <2>2. Cancelers' => Cancelers
      BY <1>9 DEF Cancelers, TypeOK, RecvClose, Receives, Selecting
    <2>3. CancelFrame
      BY <1>9, <2>1, <2>2 DEF CancelFrame, RecvClose, Receives, Selecting
    <2> QED
      BY <2>3, CancelKeeps
  <1>10. ASSUME NEW c \in Conns, NEW f \in Files, RecvReject(c, f) PROVE CancelInv'
    <2>1. CancelsAt' = CancelsAt
      BY <1>10 DEF CancelsAt, RecvReject, Receives, Selecting, TerminalRecv
    <2>2. Cancelers' => Cancelers
      <3>1. \A d \in Conns : pc'[d] = pc[d] \/ pc'[d].op \in {"rej_stop", "rej_none"}
        BY <1>10 DEF TypeOK, RecvReject, TerminalRecv
      <3> QED
        BY <1>10, <3>1 DEF Cancelers, RecvReject
    <2>3. CancelFrame
      BY <1>10, <2>1, <2>2 DEF CancelFrame, RecvReject, Receives, Selecting, TerminalRecv,
         Terminate, stop_incoming_file, update_file_sync_states, TypeOK, Rows
    <2> QED
      BY <2>3, CancelKeeps
  <1>11. ASSUME NEW c \in Conns, NEW f \in Files, RecvError(c, f) PROVE CancelInv'
    <2>1. CancelsAt' = CancelsAt
      BY <1>11 DEF CancelsAt, RecvError, Receives, Selecting, TerminalRecv
    <2>2. Cancelers' => Cancelers
      <3>1. \A d \in Conns : pc'[d] = pc[d] \/ pc'[d].op \in {"err_emit", "err_stop"}
        BY <1>11 DEF TypeOK, RecvError, TerminalRecv
      <3> QED
        BY <1>11, <3>1 DEF Cancelers, RecvError
    <2>3. CancelFrame
      BY <1>11, <2>1, <2>2 DEF CancelFrame, RecvError, Receives, Selecting, TerminalRecv,
         Terminate, stop_incoming_file, update_file_sync_states, TypeOK, Rows
    <2> QED
      BY <2>3, CancelKeeps
  <1>12. ASSUME NEW c \in Conns, NEW f \in Files, RecvCancel(c, f) PROVE CancelInv'
    <2>1. CancelsAt' = CancelsAt
      BY <1>12, OtherReport, EventsTyped DEF RecvCancel, FileEvents, Verdicts, Cancelation
    <2>2. Cancelers' => Cancelers
      BY <1>12 DEF Cancelers, TypeOK, RecvCancel, Receives, Selecting
    <2>3. CancelFrame
      BY <1>12, <2>1, <2>2 DEF CancelFrame, RecvCancel, Receives, Selecting
    <2> QED
      BY <2>3, CancelKeeps
  <1>13. ASSUME NEW c \in Conns, LinkBroken(c) PROVE CancelInv'
    <2>1. CancelsAt' = CancelsAt
      BY <1>13 DEF CancelsAt, LinkBroken, Selecting, At, Break
    <2>2. Cancelers' => Cancelers
      BY <1>13 DEF Cancelers, TypeOK, LinkBroken, Selecting, At, Break, Select
    <2>3. CancelFrame
      BY <1>13, <2>1, <2>2 DEF CancelFrame, LinkBroken, Selecting, At, Break
    <2> QED
      BY <2>3, CancelKeeps
  <1>14. ASSUME NEW c \in Conns, Drained(c) PROVE CancelInv'
    <2>1. CancelsAt' = CancelsAt
      BY <1>14 DEF CancelsAt, Drained, At, Break
    <2>2. Cancelers' => Cancelers
      BY <1>14 DEF Cancelers, TypeOK, Drained, At, Break, Select
    <2>3. CancelFrame
      BY <1>14, <2>1, <2>2 DEF CancelFrame, Drained, At, Break, Remove, transfer_sync_clear,
         TypeOK, Rows
    <2> QED
      BY <2>3, CancelKeeps
  <1>15. ASSUME NEW c \in Conns, RecvCloseRemove(c) PROVE CancelInv'
    <2>1. CASE xfer = "Absent"
      <3>1. \A d \in Conns : pc'[d] = pc[d] \/ pc'[d].op = "select"
        BY <1>15, <2>1 DEF TypeOK, RecvCloseRemove, Select
      <3>2. Cancelers' => Cancelers
        BY <1>15, <3>1 DEF Cancelers, RecvCloseRemove
      <3>3. CancelFrame
        BY <1>15, <2>1, <3>2 DEF CancelFrame, CancelsAt, RecvCloseRemove
      <3> QED
        BY <3>3, CancelKeeps
    <2>2. CASE xfer # "Absent"
      <3>1. CancelTaken
        BY <1>15, <2>2
           DEF CancelTaken, CancelsAt, TypeOK, Rows, RecvCloseRemove, At, Remove, transfer_sync_clear
      <3> QED
        BY <3>1, TakenKeeps
    <2> QED
      BY <2>1, <2>2
  <1>16. ASSUME NEW c \in Conns, RecvCloseCancel(c) PROVE CancelInv'
    <2>1. Cancelers' => Cancelers
      BY <1>16 DEF Cancelers, TypeOK, RecvCloseCancel, At, Break, Select
    <2>2. CancelReport("CanceledByPeer")
      BY <1>16, <2>1 DEF CancelReport, Cancelation, Cancelers, RecvCloseCancel, At, Break
    <2> QED
      BY <2>2, ReportsCancel
  <1>17. ASSUME NEW c \in Conns, RecvRejectStop(c) PROVE CancelInv'
    <2>1. CancelsAt' = CancelsAt
      BY <1>17 DEF CancelsAt, RecvRejectStop, At
    <2>2. Cancelers' => Cancelers
      BY <1>17 DEF Cancelers, TypeOK, RecvRejectStop, At, Select
    <2>3. CancelFrame
      BY <1>17, <2>1, <2>2 DEF CancelFrame, RecvRejectStop, At
    <2> QED
      BY <2>3, CancelKeeps
  <1>18. ASSUME NEW c \in Conns, RecvRejectEmit(c) PROVE CancelInv'
    <2>0. pc[c].f \in Files
      BY <1>18, SpeakerFile DEF RecvRejectEmit, At, Speaking
    <2>1. CancelsAt' = CancelsAt
      BY <1>18, <2>0, OtherReport, EventsTyped DEF RecvRejectEmit, FileEvents, Verdicts,
         Cancelation
    <2>2. Cancelers' => Cancelers
      BY <1>18 DEF Cancelers, TypeOK, RecvRejectEmit, At, Select
    <2>3. CancelFrame
      BY <1>18, <2>1, <2>2 DEF CancelFrame, RecvRejectEmit, At
    <2> QED
      BY <2>3, CancelKeeps
  <1>19. ASSUME NEW c \in Conns, RecvErrorEmit(c) PROVE CancelInv'
    <2>0. pc[c].f \in Files
      BY <1>19, SpeakerFile DEF RecvErrorEmit, At, Speaking
    <2>1. CancelsAt' = CancelsAt
      BY <1>19, <2>0, OtherReport, EventsTyped DEF RecvErrorEmit, FileEvents, Verdicts,
         Cancelation
    <2>2. Cancelers' => Cancelers
      BY <1>19 DEF Cancelers, TypeOK, RecvErrorEmit, At
    <2>3. CancelFrame
      BY <1>19, <2>1, <2>2 DEF CancelFrame, RecvErrorEmit, At
    <2> QED
      BY <2>3, CancelKeeps
  <1>20. ASSUME NEW c \in Conns, RecvErrorStop(c) PROVE CancelInv'
    <2>1. CancelsAt' = CancelsAt
      BY <1>20 DEF CancelsAt, RecvErrorStop, At
    <2>2. Cancelers' => Cancelers
      BY <1>20 DEF Cancelers, TypeOK, RecvErrorStop, At, Select
    <2>3. CancelFrame
      BY <1>20, <2>1, <2>2 DEF CancelFrame, RecvErrorStop, At
    <2> QED
      BY <2>3, CancelKeeps
  <1>21. ASSUME NEW c \in Conns, LoopFinalize(c) PROVE CancelInv'
    <2>1. CancelsAt' = CancelsAt
      BY <1>21, FinalizeCancels
    <2>2. Cancelers' => Cancelers
      BY <1>21 DEF Cancelers, TypeOK, LoopFinalize
    <2>3. CancelFrame
      BY <1>21, <2>1, <2>2 DEF CancelFrame, LoopFinalize
    <2> QED
      BY <2>3, CancelKeeps
  <1>22. ASSUME NEW c \in Conns, Disconnect(c) PROVE CancelInv'
    <2>1. CancelsAt' = CancelsAt
      BY <1>22 DEF CancelsAt, Disconnect
    <2>2. Cancelers' => Cancelers
      BY <1>22 DEF Cancelers, TypeOK, Disconnect
    <2>3. CancelFrame
      BY <1>22, <2>1, <2>2 DEF CancelFrame, Disconnect
    <2> QED
      BY <2>3, CancelKeeps
  <1>23. ASSUME NEW c \in Conns, NEW f \in Files, JobAborted(c, f) PROVE CancelInv'
    <2>1. CancelsAt' = CancelsAt
      BY <1>23 DEF CancelsAt, JobAborted, Abortable
    <2>2. Cancelers' => Cancelers
      BY <1>23 DEF Cancelers, TypeOK, JobAborted, Abortable
    <2>3. CancelFrame
      BY <1>23, <2>1, <2>2 DEF CancelFrame, JobAborted, Abortable
    <2> QED
      BY <2>3, CancelKeeps
  <1>24. ASSUME NEW c \in Conns, NEW f \in Files, JobPreflight(c, f) PROVE CancelInv'
    <2>1. CancelsAt' = CancelsAt
      BY <1>24 DEF CancelsAt, JobPreflight, JobAt
    <2>2. Cancelers' => Cancelers
      BY <1>24 DEF Cancelers, TypeOK, JobPreflight, JobAt
    <2>3. CancelFrame
      BY <1>24, <2>1, <2>2 DEF CancelFrame, JobPreflight, JobAt
    <2> QED
      BY <2>3, CancelKeeps
  <1>25. ASSUME NEW c \in Conns, NEW f \in Files, JobStart(c, f) PROVE CancelInv'
    <2>1. CancelsAt' = CancelsAt
      BY <1>25, OtherReport, EventsTyped DEF JobStart, FileEvents, Verdicts, Cancelation
    <2>2. Cancelers' => Cancelers
      BY <1>25 DEF Cancelers, TypeOK, JobStart, JobAt
    <2>3. CancelFrame
      BY <1>25, <2>1, <2>2 DEF CancelFrame, JobStart, JobAt
    <2> QED
      BY <2>3, CancelKeeps
  <1>26. ASSUME NEW c \in Conns, NEW f \in Files, JobPlace(c, f) PROVE CancelInv'
    <2>1. CancelsAt' = CancelsAt
      BY <1>26 DEF CancelsAt, JobPlace, JobAt
    <2>2. Cancelers' => Cancelers
      BY <1>26 DEF Cancelers, TypeOK, JobPlace, JobAt
    <2>3. CancelFrame
      BY <1>26, <2>1, <2>2 DEF CancelFrame, JobPlace, JobAt
    <2> QED
      BY <2>3, CancelKeeps
  <1>27. ASSUME NEW c \in Conns, NEW f \in Files, JobCanceled(c, f) PROVE CancelInv'
    <2>1. CancelsAt' = CancelsAt
      BY <1>27 DEF CancelsAt, JobCanceled, JobAt
    <2>2. Cancelers' => Cancelers
      BY <1>27 DEF Cancelers, TypeOK, JobCanceled, JobAt
    <2>3. CancelFrame
      BY <1>27, <2>1, <2>2 DEF CancelFrame, JobCanceled, JobAt
    <2> QED
      BY <2>3, CancelKeeps
  <1>28. ASSUME NEW c \in Conns, NEW f \in Files, JobFail(c, f) PROVE CancelInv'
    <2>1. CancelsAt' = CancelsAt
      BY <1>28 DEF CancelsAt, JobFail, Abortable
    <2>2. Cancelers' => Cancelers
      BY <1>28 DEF Cancelers, TypeOK, JobFail, Abortable
    <2>3. CancelFrame
      BY <1>28, <2>1, <2>2 DEF CancelFrame, JobFail, Abortable
    <2> QED
      BY <2>3, CancelKeeps
  <1>29. ASSUME NEW c \in Conns, NEW f \in Files, JobPost(c, f) PROVE CancelInv'
    <2>1. CancelsAt' = CancelsAt
      BY <1>29 DEF CancelsAt, JobPost, JobAt
    <2>2. Cancelers' => Cancelers
      BY <1>29 DEF Cancelers, TypeOK, JobPost, JobAt
    <2>3. CancelFrame
      BY <1>29, <2>1, <2>2 DEF CancelFrame, JobPost, JobAt, Terminate, stop_incoming_file,
         update_file_sync_states, TypeOK, Rows
    <2> QED
      BY <2>3, CancelKeeps
  <1>30. ASSUME NEW c \in Conns, NEW f \in Files, JobReport(c, f) PROVE CancelInv'
    <2>1. CancelsAt' = CancelsAt
      BY <1>30, OtherReport, EventsTyped DEF JobReport, FileEvents, Verdicts, Cancelation
    <2>2. Cancelers' => Cancelers
      BY <1>30 DEF Cancelers, TypeOK, JobReport, JobAt
    <2>3. CancelFrame
      BY <1>30, <2>1, <2>2 DEF CancelFrame, JobReport, JobAt
    <2> QED
      BY <2>3, CancelKeeps
  <1>31. ASSUME NEW f \in Files, ApiDownload(f) PROVE CancelInv'
    <2>1. CancelsAt' = CancelsAt
      BY <1>31, OtherReport, EventsTyped DEF ApiDownload, FileEvents, Verdicts, Cancelation
    <2>2. Cancelers' => Cancelers
      BY <1>31 DEF Cancelers, TypeOK, ApiDownload, Calls, Usable
    <2>3. CancelFrame
      BY <1>31, <2>1, <2>2 DEF CancelFrame, ApiDownload, Calls, Usable, start_incoming_file,
         TypeOK, Rows
    <2> QED
      BY <2>3, CancelKeeps
  <1>32. ASSUME NEW f \in Files, ApiReject(f) PROVE CancelInv'
    <2>1. CancelsAt' = CancelsAt
      BY <1>32 DEF CancelsAt, ApiReject, Calls, Usable
    <2>2. Cancelers' => Cancelers
      BY <1>32 DEF Cancelers, TypeOK, ApiReject, Calls, Usable
    <2>3. CancelFrame
      BY <1>32, <2>1, <2>2 DEF CancelFrame, ApiReject, Calls, Usable, Terminate,
         stop_incoming_file, update_file_sync_states, TypeOK, Rows
    <2> QED
      BY <2>3, CancelKeeps
  <1>33. ASSUME ApiCancel PROVE CancelInv'
    <2>1. db' = update_transfer_sync_states(db, "Canceled") /\ db \in Rows
      BY <1>33 DEF ApiCancel, TypeOK
    <2>2. (db.row => db'.row) /\ db'.sync \in {"None", "Canceled"}
      BY <2>1 DEF update_transfer_sync_states, Rows
    <2>3. CancelTaken
      BY <1>33, <2>2 DEF CancelTaken, CancelsAt, ApiCancel, Calls, Usable
    <2> QED
      BY <2>3, TakenKeeps
  <1>34. ASSUME ApiPurge PROVE CancelInv'
    <2>1. CancelsAt' = CancelsAt
      BY <1>34 DEF CancelsAt, ApiPurge, Calls
    <2>2. Cancelers' => Cancelers
      BY <1>34 DEF Cancelers, TypeOK, ApiPurge, Calls
    <2>3. CancelFrame
      BY <1>34, <2>1, <2>2 DEF CancelFrame, ApiPurge, Calls, purge_transfers, TypeOK, Rows
    <2> QED
      BY <2>3, CancelKeeps
  <1>35. ASSUME ApiRejectEmit PROVE CancelInv'
    <2>0. api.f \in Files
      BY <1>35 DEF ApiRejectEmit, TypeOK, ApiCall
    <2>1. CancelsAt' = CancelsAt
      BY <1>35, <2>0, OtherReport, EventsTyped DEF ApiRejectEmit, FileEvents, Verdicts,
         Cancelation
    <2>2. Cancelers' => Cancelers
      BY <1>35 DEF Cancelers, TypeOK, ApiRejectEmit, ApiIdle
    <2>3. CancelFrame
      BY <1>35, <2>1, <2>2 DEF CancelFrame, ApiRejectEmit
    <2> QED
      BY <2>3, CancelKeeps
  <1>36. ASSUME ApiCancelEmit PROVE CancelInv'
    <2>1. Cancelers' => Cancelers
      BY <1>36 DEF Cancelers, TypeOK, ApiCancelEmit, ApiIdle
    <2>2. CancelReport("Canceled")
      BY <1>36, <2>1 DEF CancelReport, Cancelation, Cancelers, ApiCancelEmit
    <2> QED
      BY <2>2, ReportsCancel
  <1>37. ASSUME CheckDead PROVE CancelInv'
    <2>1. CASE xfer = "Absent"
      <3>1. CancelFrame
        BY <1>37, <2>1 DEF CancelFrame, CancelsAt, Cancelers, CheckDead
      <3> QED
        BY <3>1, CancelKeeps
    <2>2. CASE xfer # "Absent"
      <3>1. CancelTaken
        BY <1>37, <2>2 DEF CancelTaken, CancelsAt, TypeOK, Rows, CheckDead, Remove, transfer_sync_clear
      <3> QED
        BY <3>1, TakenKeeps
    <2> QED
      BY <2>1, <2>2
  <1>38. ASSUME CheckGone PROVE CancelInv'
    <2>1. CancelTaken
      BY <1>38 DEF CancelTaken, CancelsAt, TypeOK, Rows, CheckGone, Usable, Remove, transfer_sync_clear
    <2> QED
      BY <2>1, TakenKeeps
  <1>39. ASSUME CheckEmit PROVE CancelInv'
    <2>1. Cancelers' => Cancelers
      BY <1>39 DEF Cancelers, TypeOK, CheckEmit
    <2>2. CancelReport("CanceledByPeer")
      BY <1>39, <2>1 DEF CancelReport, Cancelation, Cancelers, CheckEmit
    <2> QED
      BY <2>2, ReportsCancel
  <1>40. ASSUME EventTask PROVE CancelInv'
    <2> DEFINE e == Head(evq)
    <2>1. /\ e \in EventSet /\ evq \in Seq(EventSet) /\ evq # <<>> /\ evq' = Tail(evq)
          /\ e = evq[1] /\ 1 \in DOMAIN evq
      BY <1>40, QueueHead, TailElements DEF EventTask, TypeOK
    <2>2. \A i \in CancelsAt' : i \in Nat \ {0} /\ i + 1 \in CancelsAt
      BY <2>1, TailElements DEF CancelsAt
    <2>3. db'.sync = db.sync /\ db'.row = db.row
      BY <1>40, <2>1, StoredRows DEF EventTask
    <2>4. /\ up' = up /\ xfer' = xfer /\ purged' = purged /\ xev' = xev
          /\ cancels' = IF e.k \in Cancelation THEN cancels + 1 ELSE cancels
      BY <1>40 DEF EventTask
    <2>5. Cancelers' <=> Cancelers
      BY <1>40 DEF EventTask, Cancelers
    <2>6. e.k \in Cancelation => 1 \in CancelsAt
      BY <2>1 DEF CancelsAt
    <2> HIDE DEF e
    <2>7. CASE purged
      BY <2>4, <2>5, <2>7 DEF CancelInv
    <2>8. CASE ~purged
      <3>1. Over' => Over
        BY <2>2, <2>4, <2>6 DEF Over
      <3>2. \A i, j \in CancelsAt' : i = j
        <4>1. \A i, j \in CancelsAt' : i + 1 = j + 1
          BY <2>2, <2>8 DEF CancelInv
        <4> QED
          BY <2>2, <4>1
      <3>3. CASE e.k \in Cancelation
        <4>1. cancels = 0 /\ cancels' = 1
          BY <2>4, <2>6, <2>8, <3>3 DEF CancelInv
        <4>2. CancelsAt' = {}
          <5>1. \A i \in CancelsAt' : i + 1 = 1
            BY <2>2, <2>6, <2>8, <3>3 DEF CancelInv
          <5> QED
            BY <2>2, <5>1
        <4> QED
          BY <2>3, <2>4, <2>5, <2>8, <3>1, <3>2, <4>1, <4>2 DEF CancelInv
      <3>4. CASE e.k \notin Cancelation
        <4>1. cancels' = cancels /\ (CancelsAt = {} => CancelsAt' = {})
          BY <2>2, <2>4, <3>4
        <4> QED
          BY <2>3, <2>4, <2>5, <2>8, <3>1, <3>2, <4>1 DEF CancelInv
      <3> QED
        BY <3>3, <3>4
    <2> QED
      BY <2>7, <2>8
  <1>41. ASSUME Crash PROVE CancelInv'
    <2>1. ~up' /\ cancels' = cancels /\ purged' = purged /\ evq' = <<>>
      BY <1>41 DEF Crash, Down
    <2>2. CancelsAt' = {}
      BY <2>1 DEF CancelsAt
    <2>3. cancels > 0 /\ ~purged => db'.row /\ db'.sync \in {"None", "Canceled"}
      BY <1>41 DEF CancelInv, Over, Crash
    <2> QED
      BY <2>1, <2>2, <2>3 DEF CancelInv, Over
  <1>42. ASSUME CrashInRegister PROVE CancelInv'
    <2>1. ~up' /\ cancels' = cancels /\ purged' = purged /\ evq' = <<>>
      BY <1>42 DEF CrashInRegister, Down
    <2>2. CancelsAt' = {}
      BY <2>1 DEF CancelsAt
    <2>3. cancels > 0 /\ ~purged => db'.row /\ db'.sync \in {"None", "Canceled"}
      BY <1>42 DEF CancelInv, Over, CrashInRegister, inserts_transfer
    <2> QED
      BY <2>1, <2>2, <2>3 DEF CancelInv, Over
  <1>43. ASSUME NEW f \in Files, CrashInTerminate(f) PROVE CancelInv'
    <2>1. ~up' /\ cancels' = cancels /\ purged' = purged /\ evq' = <<>>
      BY <1>43 DEF CrashInTerminate, Down
    <2>2. CancelsAt' = {}
      BY <2>1 DEF CancelsAt
    <2>3. cancels > 0 /\ ~purged => db'.row /\ db'.sync \in {"None", "Canceled"}
      BY <1>43 DEF CancelInv, Over, CrashInTerminate, update_file_sync_states, TypeOK, Rows
    <2> QED
      BY <2>1, <2>2, <2>3 DEF CancelInv, Over
  <1>44. ASSUME CrashInEventTask PROVE CancelInv'
    <2>1. ~up' /\ cancels' = cancels /\ purged' = purged /\ evq' = <<>>
      BY <1>44 DEF CrashInEventTask, Down
    <2>2. CancelsAt' = {}
      BY <2>1 DEF CancelsAt
    <2>3. cancels > 0 /\ ~purged => db'.row /\ db'.sync \in {"None", "Canceled"}
      BY <1>44, QueueHead, StoredRows DEF CancelInv, Over, CrashInEventTask
    <2> QED
      BY <2>1, <2>2, <2>3 DEF CancelInv, Over
  <1>45. ASSUME Restart PROVE CancelInv'
    <2>1. Blank
      BY <1>45 DEF Restart, ControlInv
    <2>2. CancelsAt' = {} /\ CancelsAt = {}
      BY <1>45, <2>1 DEF Restart, Blank, CancelsAt
    <2>3. cancels' = cancels /\ purged' = purged
      BY <1>45 DEF Restart
    <2>4. ~Cancelers'
      BY <1>45, <2>1 DEF Restart, Blank, Cancelers, Select, ApiIdle
    <2>5. ASSUME ~purged PROVE db' = db
      BY <1>45, <2>5 DEF Restart, cleanup_garbage_transfers, ControlInv
    <2>6. ASSUME ~purged, cancels > 0, xev' = "Ongoing" PROVE xfer' = "Absent"
      <3>1. db'.sync \in {"None", "Canceled"}
        BY <2>5, <2>6 DEF CancelInv, Over
      <3> QED
        BY <1>45, <2>1, <2>6, <3>1 DEF Restart, Blank, transfer_gate
    <2> QED
      BY <2>2, <2>3, <2>4, <2>5, <2>6 DEF CancelInv, Over
  <1>46. CASE UNCHANGED vars
    BY <1>46 DEF vars, CancelInv, CancelsAt, Over, Cancelers
  <1> QED
    BY <1>1, <1>2, <1>3, <1>4, <1>5, <1>6, <1>7, <1>8, <1>9, <1>10, <1>11, <1>12, <1>13, <1>14,
       <1>15, <1>16, <1>17, <1>18, <1>19, <1>20, <1>21, <1>22, <1>23, <1>24, <1>25, <1>26,
       <1>27, <1>28, <1>29, <1>30, <1>31, <1>32, <1>33, <1>34, <1>35, <1>36, <1>37, <1>38,
       <1>39, <1>40, <1>41, <1>42, <1>43, <1>44, <1>45, <1>46
       DEF Next, Connection, Request, Message, Handler, LoopEnd, Job, Detached,
           Api, ApiRest, Check, CrashAny

-----------------------------------------------------------------------------
(* The theorems.                                                           *)

Inv == TypeOK /\ ControlInv /\ SyncInv /\ VerdictInv /\ CancelInv

\* Inv is an inductive invariant of the receiving side.
THEOREM Inductive == Spec => []Inv
  <1>1. Init => Inv
    BY TypeInit, ControlInit, SyncInit, VerdictInit, CancelInit DEF Inv
  <1>2. Inv /\ [Next]_vars => Inv'
    BY TypeStep, ControlStep, SyncStep, VerdictStep, CancelStep DEF Inv
  <1> QED
    BY <1>1, <1>2, PTL DEF Spec

LEMMA Faithful == Inv => RestoreFaithful
  <1> SUFFICES ASSUME Inv, up PROVE RestoreFaithful
    BY DEF RestoreFaithful
  <1>1. xfer = IF db.sync = "None" THEN "Absent" ELSE db.sync
    BY DEF Inv, SyncInv
  <1>2. ASSUME NEW f \in Files, xfer # "Absent"
        PROVE  /\ file[f] \in Terminal => IsRestoredTerminal(db, f)
               /\ Usable /\ IsRestoredTerminal(db, f) => file[f] \in Terminal
               /\ Usable => (file[f] = "InFlight" <=> RestoredFile(db, f) = "InFlight")
    <2>1. Mirrored(f) /\ (Usable /\ db.hist[f] # {} => file[f] \in Terminal)
      BY <1>2 DEF Inv, SyncInv, VerdictInv
    <2>2. db.file[f] \in {"Alive", "Terminal"}
      BY DEF Inv, TypeOK, Rows
    <2>3. Usable /\ IsRestoredTerminal(db, f) => file[f] \in Terminal
      BY <2>1 DEF Mirrored, IsRestoredTerminal
    <2>4. "InFlight" \notin Terminal /\ RestoredVerdict(db, f) \in Terminal
      BY DEF Terminal, Verdicts, RestoredVerdict
    <2>5. CASE IsRestoredTerminal(db, f)
      BY <2>1, <2>3, <2>4, <2>5 DEF Mirrored, RestoredFile
    <2>6. CASE ~IsRestoredTerminal(db, f)
      <3>1. RestoredFile(db, f) = IF f \in db.inflight THEN "InFlight" ELSE "Idle"
        BY <2>2, <2>6 DEF RestoredFile, incoming_files_to_resume, IsRestoredTerminal
      <3> QED
        BY <2>1, <2>6, <3>1 DEF Mirrored
    <2> QED
      BY <2>5, <2>6
  <1> QED
    BY <1>1, <1>2 DEF RestoreFaithful, Usable

\* RestoreFaithful: whatever was interleaved or cut short before, a restart now
\* rebuilds what the manager has in memory.
THEOREM RestoreIsFaithful == Spec => []RestoreFaithful
  BY Faithful, Inductive, PTL

\* ToldVerdictIsFinal: a file whose verdict was reported is not downloaded again.
THEOREM ToldVerdictStays == Spec => []ToldVerdictIsFinal
  <1>1. Inv => ToldVerdictIsFinal
    BY DEF Inv, VerdictInv, ToldVerdictIsFinal
  <1> QED
    BY <1>1, Inductive, PTL

\* CanceledStaysCanceled: a cancelation that was reported is not undone by a
\* restart or by the sender's next offer.
THEOREM CancelationIsFinal == Spec => []CanceledStaysCanceled
  <1>1. ASSUME Inv, cancels > 0, ~purged
        PROVE  ~Usable /\ db.sync \in {"None", "Canceled"} /\ ~inserts_transfer(db)
    <2>1. db.row /\ db.sync \in {"None", "Canceled"}
      BY <1>1 DEF Inv, CancelInv, Over
    <2>2. CASE up
      BY <1>1, <2>1, <2>2 DEF Inv, SyncInv, Usable, inserts_transfer
    <2>3. CASE ~up
      BY <1>1, <2>1, <2>3 DEF Inv, ControlInv, Blank, Usable, inserts_transfer
    <2> QED
      BY <2>2, <2>3
  <1>2. Inv => CanceledStaysCanceled
    BY <1>1 DEF CanceledStaysCanceled
  <1> QED
    BY <1>2, Inductive, PTL

\* CancelReportedOnce: the API call, the close frame and the checking job report
\* a cancelation once between them, restarts included.
THEOREM CancelationIsReportedOnce == Spec => []CancelReportedOnce
  <1>1. Inv => CancelReportedOnce
    BY DEF Inv, CancelInv, CancelReportedOnce
  <1> QED
    BY <1>1, Inductive, PTL

Kept == \A f \in Files : file[f] \in Terminal /\ xfer' # "Absent" => file'[f] = file[f]

LEMMA VerdictKept == TypeOK /\ ControlInv /\ [Next]_vars => Kept
  <1> SUFFICES ASSUME TypeOK, ControlInv, [Next]_vars PROVE Kept
    OBVIOUS
  <1> USE DEF mgr, loops, jobs, events, calls, disk, ghost
  <1>1. ASSUME NEW c \in Conns, RegisterRefused(c) PROVE Kept
    BY <1>1 DEF Kept, RegisterRefused
  <1>2. ASSUME NEW c \in Conns, RegisterResume(c) PROVE Kept
    BY <1>2 DEF Kept, RegisterResume
  <1>3. ASSUME NEW c \in Conns, RegisterClosed(c) PROVE Kept
    BY <1>3 DEF Kept, RegisterClosed
  <1>4. ASSUME NEW c \in Conns, RegisterNew(c) PROVE Kept
    BY <1>4 DEF Kept, ControlInv, RegisterNew, Terminal, Verdicts
  <1>5. ASSUME NEW c \in Conns, OnReqDownload(c) PROVE Kept
    BY <1>5 DEF Kept, OnReqDownload
  <1>6. ASSUME NEW c \in Conns, OnReqSend(c) PROVE Kept
    BY <1>6 DEF Kept, OnReqSend
  <1>7. ASSUME NEW c \in Conns, OnReqReject(c) PROVE Kept
    BY <1>7 DEF Kept, OnReqReject
  <1>8. ASSUME NEW c \in Conns, OnReqClose(c) PROVE Kept
    BY <1>8 DEF Kept, OnReqClose
  <1>9. ASSUME NEW c \in Conns, RecvClose(c) PROVE Kept
    BY <1>9 DEF Kept, RecvClose
  <1>10. ASSUME NEW c \in Conns, NEW f \in Files, RecvReject(c, f) PROVE Kept
    BY <1>10 DEF Kept, TypeOK, RecvReject, TerminalRecv, Terminate
  <1>11. ASSUME NEW c \in Conns, NEW f \in Files, RecvError(c, f) PROVE Kept
    BY <1>11 DEF Kept, TypeOK, RecvError, TerminalRecv, Terminate
  <1>12. ASSUME NEW c \in Conns, NEW f \in Files, RecvCancel(c, f) PROVE Kept
    BY <1>12 DEF Kept, RecvCancel
  <1>13. ASSUME NEW c \in Conns, LinkBroken(c) PROVE Kept
    BY <1>13 DEF Kept, LinkBroken
  <1>14. ASSUME NEW c \in Conns, Drained(c) PROVE Kept
    BY <1>14 DEF Kept, Drained, Remove
  <1>15. ASSUME NEW c \in Conns, RecvCloseRemove(c) PROVE Kept
    BY <1>15 DEF Kept, RecvCloseRemove, Remove
  <1>16. ASSUME NEW c \in Conns, RecvCloseCancel(c) PROVE Kept
    BY <1>16 DEF Kept, RecvCloseCancel
  <1>17. ASSUME NEW c \in Conns, RecvRejectStop(c) PROVE Kept
    BY <1>17 DEF Kept, RecvRejectStop
  <1>18. ASSUME NEW c \in Conns, RecvRejectEmit(c) PROVE Kept
    BY <1>18 DEF Kept, RecvRejectEmit
  <1>19. ASSUME NEW c \in Conns, RecvErrorEmit(c) PROVE Kept
    BY <1>19 DEF Kept, RecvErrorEmit
  <1>20. ASSUME NEW c \in Conns, RecvErrorStop(c) PROVE Kept
    BY <1>20 DEF Kept, RecvErrorStop
  <1>21. ASSUME NEW c \in Conns, LoopFinalize(c) PROVE Kept
    BY <1>21 DEF Kept, LoopFinalize
  <1>22. ASSUME NEW c \in Conns, Disconnect(c) PROVE Kept
    BY <1>22 DEF Kept, Disconnect
  <1>23. ASSUME NEW c \in Conns, NEW f \in Files, JobAborted(c, f) PROVE Kept
    BY <1>23 DEF Kept, JobAborted
  <1>24. ASSUME NEW c \in Conns, NEW f \in Files, JobPreflight(c, f) PROVE Kept
    BY <1>24 DEF Kept, JobPreflight
  <1>25. ASSUME NEW c \in Conns, NEW f \in Files, JobStart(c, f) PROVE Kept
    BY <1>25 DEF Kept, JobStart
  <1>26. ASSUME NEW c \in Conns, NEW f \in Files, JobPlace(c, f) PROVE Kept
    BY <1>26 DEF Kept, JobPlace
  <1>27. ASSUME NEW c \in Conns, NEW f \in Files, JobCanceled(c, f) PROVE Kept
    BY <1>27 DEF Kept, JobCanceled
  <1>28. ASSUME NEW c \in Conns, NEW f \in Files, JobFail(c, f) PROVE Kept
    BY <1>28 DEF Kept, JobFail
  <1>29. ASSUME NEW c \in Conns, NEW f \in Files, JobPost(c, f) PROVE Kept
    BY <1>29 DEF Kept, TypeOK, JobPost, Terminate
  <1>30. ASSUME NEW c \in Conns, NEW f \in Files, JobReport(c, f) PROVE Kept
    BY <1>30 DEF Kept, JobReport
  <1>31. ASSUME NEW f \in Files, ApiDownload(f) PROVE Kept
    BY <1>31 DEF Kept, TypeOK, ApiDownload, Terminal, Verdicts
  <1>32. ASSUME NEW f \in Files, ApiReject(f) PROVE Kept
    BY <1>32 DEF Kept, TypeOK, ApiReject, Terminate
  <1>33. ASSUME ApiCancel PROVE Kept
    BY <1>33 DEF Kept, ApiCancel, Terminal, Verdicts
  <1>34. ASSUME ApiPurge PROVE Kept
    BY <1>34 DEF Kept, ApiPurge
  <1>35. ASSUME ApiRejectEmit PROVE Kept
    BY <1>35 DEF Kept, ApiRejectEmit
  <1>36. ASSUME ApiCancelEmit PROVE Kept
    BY <1>36 DEF Kept, ApiCancelEmit
  <1>37. ASSUME CheckDead PROVE Kept
    BY <1>37 DEF Kept, CheckDead, Remove
  <1>38. ASSUME CheckGone PROVE Kept
    BY <1>38 DEF Kept, CheckGone, Remove
  <1>39. ASSUME CheckEmit PROVE Kept
    BY <1>39 DEF Kept, CheckEmit
  <1>40. ASSUME EventTask PROVE Kept
    BY <1>40 DEF Kept, EventTask
  <1>41. ASSUME Crash PROVE Kept
    BY <1>41 DEF Kept, Crash, Down
  <1>42. ASSUME CrashInRegister PROVE Kept
    BY <1>42 DEF Kept, CrashInRegister, Down
  <1>43. ASSUME NEW f \in Files, CrashInTerminate(f) PROVE Kept
    BY <1>43 DEF Kept, CrashInTerminate, Down
  <1>44. ASSUME CrashInEventTask PROVE Kept
    BY <1>44 DEF Kept, CrashInEventTask, Down
  <1>45. ASSUME Restart PROVE Kept
    BY <1>45 DEF Kept, ControlInv, Blank, Restart, Terminal, Verdicts
  <1>46. CASE UNCHANGED vars
    BY <1>46 DEF vars, Kept
  <1> QED
    BY <1>1, <1>2, <1>3, <1>4, <1>5, <1>6, <1>7, <1>8, <1>9, <1>10, <1>11, <1>12, <1>13, <1>14,
       <1>15, <1>16, <1>17, <1>18, <1>19, <1>20, <1>21, <1>22, <1>23, <1>24, <1>25, <1>26,
       <1>27, <1>28, <1>29, <1>30, <1>31, <1>32, <1>33, <1>34, <1>35, <1>36, <1>37, <1>38,
       <1>39, <1>40, <1>41, <1>42, <1>43, <1>44, <1>45, <1>46
       DEF Next, Connection, Request, Message, Handler, LoopEnd, Job, Detached,
           Api, ApiRest, Check, CrashAny

\* VerdictNeverFlips: no step changes a verdict while the transfer is in the map.
THEOREM VerdictIsKept == Spec => VerdictNeverFlips
  <1>1. Inv /\ [Next]_vars =>
          [\A f \in Files : file[f] \in Terminal /\ xfer' # "Absent" => file'[f] = file[f]]_vars
    BY VerdictKept DEF Inv, Kept
  <1> QED
    BY <1>1, Inductive, PTL DEF Spec, VerdictNeverFlips

-----------------------------------------------------------------------------
(* The receiving side implements a durable transfer.                       *)

\* The mapping while the process runs, and while it does not.
UpState ==
  /\ Life = IF xfer = "Canceled" THEN "canceled"
            ELSE IF xfer = "Absent" THEN (IF db.row THEN "over" ELSE "none") ELSE "open"
  /\ Settled = IF xfer = "Absent" THEN {} ELSE {f \in Files : file[f] \in Terminal}
  /\ Wanted = IF Usable THEN {f \in Files : file[f] = "InFlight"} ELSE {}

DownState ==
  /\ Life = LifeOf(db)
  /\ Settled = SettledOf(db)
  /\ Wanted = IF db.sync \in {"None", "Canceled"} THEN {}
              ELSE {f \in db.inflight : ~IsRestoredTerminal(db, f)}

LEMMA UpMap == up => UpState
  <1> SUFFICES ASSUME up PROVE UpState
    OBVIOUS
  <1>1. Sync = xfer
    BY DEF Sync
  <1>2. Life = IF xfer = "Canceled" THEN "canceled"
               ELSE IF xfer = "Absent" THEN (IF db.row THEN "over" ELSE "none") ELSE "open"
    BY <1>1 DEF Life
  <1>3. Settled = IF xfer = "Absent" THEN {} ELSE {f \in Files : file[f] \in Terminal}
    BY <1>1 DEF Settled
  <1>4. Wanted = IF Usable THEN {f \in Files : file[f] = "InFlight"} ELSE {}
    BY <1>2 DEF Wanted, Usable
  <1> QED
    BY <1>2, <1>3, <1>4 DEF UpState

LEMMA DownMap == TypeOK /\ ~up => DownState
  <1> SUFFICES ASSUME TypeOK, ~up PROVE DownState
    OBVIOUS
  <1>1. db \in Rows /\ db.sync \in SyncState \cup {"None"}
    BY DEF TypeOK, Rows
  <1>2. Sync = IF db.sync = "None" THEN "Absent" ELSE db.sync
    BY DEF Sync
  <1>3. Life = LifeOf(db)
    BY <1>1, <1>2 DEF Life, LifeOf, SyncState
  <1>4. Settled = SettledOf(db)
    BY <1>1, <1>2 DEF Settled, SettledOf, SyncState
  <1>5. ASSUME NEW f \in Files
        PROVE  RestoredFile(db, f) = "InFlight" <=> f \in db.inflight /\ ~IsRestoredTerminal(db, f)
    <2>1. RestoredVerdict(db, f) # "InFlight" /\ db.file[f] \in {"Alive", "Terminal"}
      BY <1>1 DEF RestoredVerdict, Rows
    <2> QED
      BY <2>1 DEF RestoredFile, incoming_files_to_resume, IsRestoredTerminal
  <1>6. Life = "open" <=> db.sync \notin {"None", "Canceled"}
    BY <1>1, <1>3 DEF LifeOf
  <1>7. Wanted = IF Life # "open" THEN {} ELSE {f \in Files : RestoredFile(db, f) = "InFlight"}
    BY DEF Wanted
  <1>8. db.inflight \subseteq Files
    BY <1>1 DEF Rows
  <1> QED
    BY <1>3, <1>4, <1>5, <1>6, <1>7, <1>8 DEF DownState

\* What a step has to look like.
DurableNext == Durable!Next \/ UNCHANGED <<Life, Settled, Wanted>>

LEMMA DurableFrame ==
  ASSUME up, up', xfer' = xfer, file' = file, db'.row = db.row
  PROVE  DurableNext
  <1>1. UpState /\ UpState'
    BY UpMap, PTL
  <1> QED
    BY <1>1 DEF UpState, Usable, DurableNext

LEMMA DurableTerminate ==
  ASSUME TypeOK, SyncInv, NEW f \in Files, NEW v \in Terminal,
         up, up', xfer # "Absent", xfer' = xfer, Terminate(f, v)
  PROVE  DurableNext
  <1>1. UpState /\ UpState'
    BY UpMap, PTL
  <1>2. file' = [file EXCEPT ![f] = v] /\ file \in [Files -> LocalFileState]
    BY DEF Terminate, TypeOK
  <1>3. v # "InFlight"
    BY DEF Terminal, Verdicts
  <1>4. Life' = Life /\ Life \in {"open", "canceled"}
    BY <1>1 DEF UpState
  <1>5. Settled' = Settled \cup {f}
    BY <1>1, <1>2 DEF UpState
  <1>6. Wanted' = Wanted \ {f}
    BY <1>1, <1>2, <1>3 DEF UpState, Usable
  <1>7. Durable!Settle({f})
    BY <1>4, <1>5, <1>6 DEF Durable!Settle
  <1> QED
    BY <1>7 DEF DurableNext, Durable!Next

LEMMA DurableRemove ==
  ASSUME TypeOK, SyncInv, up, up', xfer # "Absent", Remove
  PROVE  DurableNext
  <1>1. UpState /\ UpState'
    BY UpMap, PTL
  <1>2. xfer' = "Absent" /\ db'.row
    BY DEF Remove, transfer_sync_clear, TypeOK, Rows, SyncInv
  <1>3. Durable!End
    BY <1>1, <1>2 DEF UpState, Durable!End, Usable
  <1> QED
    BY <1>3 DEF DurableNext, Durable!Next

\* A crash that may have made verdicts durable.
LEMMA DurableDown ==
  ASSUME Inv, TypeOK', up, ~up', db'.sync = db.sync, db'.row = db.row,
         db'.inflight = db.inflight,
         \A f \in Files : IsRestoredTerminal(db, f) => IsRestoredTerminal(db', f)
  PROVE  DurableNext
  <1>1. UpState
    BY UpMap
  <1>2. DownState'
    BY DownMap, PTL
  <1>3. xfer = IF db.sync = "None" THEN "Absent" ELSE db.sync
    BY DEF Inv, SyncInv
  <1>4. db.sync \in SyncState \cup {"None"} /\ db.inflight \subseteq Files
    BY DEF Inv, TypeOK, Rows
  <1>5. RestoreFaithful
    BY Faithful
  <1>6. Life' = Life
    BY <1>1, <1>2, <1>3, <1>4 DEF UpState, DownState, LifeOf, SyncState
  <1>7. CASE db.sync = "None"
    <2>1. Settled' = Settled /\ Wanted' = Wanted
      BY <1>1, <1>2, <1>3, <1>7 DEF UpState, DownState, SettledOf, Usable
    <2> QED
      BY <1>6, <2>1 DEF DurableNext
  <1>8. CASE db.sync # "None"
    <2>1. Life \in {"open", "canceled"}
      BY <1>1, <1>3, <1>4, <1>8 DEF UpState, SyncState
    <2>2. Settled = {f \in Files : file[f] \in Terminal}
      BY <1>1, <1>3, <1>4, <1>8 DEF UpState, SyncState
    <2>3. Settled' = {f \in Files : IsRestoredTerminal(db', f)}
      BY <1>2, <1>8 DEF DownState, SettledOf
    <2>4. \A f \in Files : file[f] \in Terminal => IsRestoredTerminal(db, f)
      BY <1>3, <1>4, <1>5, <1>8 DEF RestoreFaithful, SyncState
    <2>5. Settled' = Settled \cup Settled' /\ Settled' \in SUBSET Files
      BY <2>2, <2>3, <2>4
    <2>6. Wanted' = Wanted \ Settled'
      <3>1. CASE db.sync = "Canceled"
        BY <1>1, <1>2, <1>3, <3>1 DEF UpState, DownState, Usable
      <3>2. CASE db.sync # "Canceled"
        <4>1. Usable
          BY <1>3, <1>4, <1>8, <3>2 DEF Usable, SyncState
        <4>2. Wanted = {f \in Files : file[f] = "InFlight"}
          BY <1>1, <4>1 DEF UpState
        <4>3. Wanted' = {f \in db.inflight : ~IsRestoredTerminal(db', f)}
          BY <1>2, <1>8, <3>2 DEF DownState
        <4>4. ASSUME NEW f \in Files
              PROVE  file[f] = "InFlight" => f \in db.inflight
          BY <4>1 DEF Inv, SyncInv, Mirrored, Usable
        <4>5. ASSUME NEW f \in Files, f \in db.inflight, ~IsRestoredTerminal(db, f)
              PROVE  file[f] = "InFlight"
          <5>1. file[f] \notin Terminal /\ Mirrored(f)
            BY <2>4, <4>1, <4>5 DEF Inv, SyncInv, Usable
          <5> QED
            BY <4>1, <4>5, <5>1 DEF Mirrored
        <4> QED
          BY <1>4, <2>3, <4>2, <4>3, <4>4, <4>5
      <3> QED
        BY <3>1, <3>2
    <2>7. Durable!Settle(Settled')
      BY <1>6, <2>1, <2>5, <2>6 DEF Durable!Settle
    <2> QED
      BY <2>5, <2>7 DEF DurableNext, Durable!Next
  <1> QED
    BY <1>7, <1>8

LEMMA DurableStep == Inv /\ Inv' /\ [Next]_vars => DurableNext
  <1> SUFFICES ASSUME Inv, Inv', [Next]_vars PROVE DurableNext
    OBVIOUS
  <1> USE DEF mgr, loops, jobs, events, calls, disk, ghost
  <1>1. ASSUME NEW c \in Conns, RegisterRefused(c) PROVE DurableNext
    BY <1>1, DurableFrame DEF RegisterRefused, Fresh
  <1>2. ASSUME NEW c \in Conns, RegisterResume(c) PROVE DurableNext
    BY <1>2, DurableFrame DEF RegisterResume, Fresh
  <1>3. ASSUME NEW c \in Conns, RegisterClosed(c) PROVE DurableNext
    BY <1>3, DurableFrame DEF RegisterClosed, Fresh, inserts_transfer
  <1>4. ASSUME NEW c \in Conns, RegisterNew(c) PROVE DurableNext
    <2>1. up /\ up' /\ xfer = "Absent" /\ xfer' = "Active" /\ ~db.row
          /\ file' = [f \in Files |-> "Idle"]
      BY <1>4 DEF RegisterNew, Fresh, inserts_transfer
    <2>2. UpState /\ UpState'
      BY <2>1, UpMap, PTL
    <2>3. Life = "none" /\ Settled = {} /\ Wanted = {}
      BY <2>1, <2>2 DEF UpState, Usable
    <2>4. Life' = "open" /\ Settled' = {} /\ Wanted' = {}
      BY <2>1, <2>2 DEF UpState, Usable, Terminal, Verdicts
    <2>5. Durable!Offer
      BY <2>3, <2>4 DEF Durable!Offer
    <2> QED
      BY <2>5 DEF DurableNext, Durable!Next
  <1>5. ASSUME NEW c \in Conns, OnReqDownload(c) PROVE DurableNext
    BY <1>5, DurableFrame DEF OnReqDownload, HasReq, Selecting, Break
  <1>6. ASSUME NEW c \in Conns, OnReqSend(c) PROVE DurableNext
    BY <1>6, DurableFrame DEF OnReqSend, HasReq, Selecting
  <1>7. ASSUME NEW c \in Conns, OnReqReject(c) PROVE DurableNext
    BY <1>7, DurableFrame DEF OnReqReject, HasReq, Selecting
  <1>8. ASSUME NEW c \in Conns, OnReqClose(c) PROVE DurableNext
    BY <1>8, DurableFrame DEF OnReqClose, HasReq, Selecting
  <1>9. ASSUME NEW c \in Conns, RecvClose(c) PROVE DurableNext
    BY <1>9, DurableFrame DEF RecvClose, Receives, Selecting
  <1>10. ASSUME NEW c \in Conns, NEW f \in Files, RecvReject(c, f) PROVE DurableNext
    <2>1. up /\ up' /\ xfer' = xfer
      BY <1>10 DEF RecvReject, Receives, Selecting, TerminalRecv
    <2>2. CASE xfer # "Absent" /\ file[f] \notin Terminal
      <3>1. PICK v \in Terminal : Terminate(f, v)
        BY <1>10, <2>2 DEF RecvReject, TerminalRecv, Terminal, Verdicts
      <3> QED
        BY <2>1, <2>2, <3>1, DurableTerminate DEF Inv, Usable
    <2>3. CASE ~(xfer # "Absent" /\ file[f] \notin Terminal)
      BY <1>10, <2>1, <2>3, DurableFrame DEF RecvReject, TerminalRecv
    <2> QED
      BY <2>2, <2>3
  <1>11. ASSUME NEW c \in Conns, NEW f \in Files, RecvError(c, f) PROVE DurableNext
    <2>1. up /\ up' /\ xfer' = xfer
      BY <1>11 DEF RecvError, Receives, Selecting, TerminalRecv
    <2>2. CASE xfer # "Absent" /\ file[f] \notin Terminal
      <3>1. PICK v \in Terminal : Terminate(f, v)
        BY <1>11, <2>2 DEF RecvError, TerminalRecv, Terminal, Verdicts
      <3> QED
        BY <2>1, <2>2, <3>1, DurableTerminate DEF Inv, Usable
    <2>3. CASE ~(xfer # "Absent" /\ file[f] \notin Terminal)
      BY <1>11, <2>1, <2>3, DurableFrame DEF RecvError, TerminalRecv
    <2> QED
      BY <2>2, <2>3
  <1>12. ASSUME NEW c \in Conns, NEW f \in Files, RecvCancel(c, f) PROVE DurableNext
    BY <1>12, DurableFrame DEF RecvCancel, Receives, Selecting
  <1>13. ASSUME NEW c \in Conns, LinkBroken(c) PROVE DurableNext
    BY <1>13, DurableFrame DEF LinkBroken, Selecting, At, Break
  <1>14. ASSUME NEW c \in Conns, Drained(c) PROVE DurableNext
    <2>1. CASE xfer = "Absent"
      BY <1>14, <2>1, DurableFrame DEF Drained, At, Remove
    <2>2. CASE xfer # "Absent"
      BY <1>14, <2>2, DurableRemove DEF Inv, Drained, At
    <2> QED
      BY <2>1, <2>2
  <1>15. ASSUME NEW c \in Conns, RecvCloseRemove(c) PROVE DurableNext
    <2>1. CASE xfer = "Absent"
      BY <1>15, <2>1, DurableFrame DEF RecvCloseRemove, At, Remove
    <2>2. CASE xfer # "Absent"
      BY <1>15, <2>2, DurableRemove DEF Inv, RecvCloseRemove, At
    <2> QED
      BY <2>1, <2>2
  <1>16. ASSUME NEW c \in Conns, RecvCloseCancel(c) PROVE DurableNext
    BY <1>16, DurableFrame DEF RecvCloseCancel, At, Break
  <1>17. ASSUME NEW c \in Conns, RecvRejectStop(c) PROVE DurableNext
    BY <1>17, DurableFrame DEF RecvRejectStop, At
  <1>18. ASSUME NEW c \in Conns, RecvRejectEmit(c) PROVE DurableNext
    BY <1>18, DurableFrame DEF RecvRejectEmit, At
  <1>19. ASSUME NEW c \in Conns, RecvErrorEmit(c) PROVE DurableNext
    BY <1>19, DurableFrame DEF RecvErrorEmit, At
  <1>20. ASSUME NEW c \in Conns, RecvErrorStop(c) PROVE DurableNext
    BY <1>20, DurableFrame DEF RecvErrorStop, At
  <1>21. ASSUME NEW c \in Conns, LoopFinalize(c) PROVE DurableNext
    BY <1>21, DurableFrame DEF LoopFinalize
  <1>22. ASSUME NEW c \in Conns, Disconnect(c) PROVE DurableNext
    BY <1>22, DurableFrame DEF Disconnect
  <1>23. ASSUME NEW c \in Conns, NEW f \in Files, JobAborted(c, f) PROVE DurableNext
    BY <1>23, DurableFrame DEF JobAborted, Abortable
  <1>24. ASSUME NEW c \in Conns, NEW f \in Files, JobPreflight(c, f) PROVE DurableNext
    BY <1>24, DurableFrame DEF JobPreflight, JobAt
  <1>25. ASSUME NEW c \in Conns, NEW f \in Files, JobStart(c, f) PROVE DurableNext
    BY <1>25, DurableFrame DEF JobStart, JobAt
  <1>26. ASSUME NEW c \in Conns, NEW f \in Files, JobPlace(c, f) PROVE DurableNext
    BY <1>26, DurableFrame DEF JobPlace, JobAt
  <1>27. ASSUME NEW c \in Conns, NEW f \in Files, JobCanceled(c, f) PROVE DurableNext
    BY <1>27, DurableFrame DEF JobCanceled, JobAt
  <1>28. ASSUME NEW c \in Conns, NEW f \in Files, JobFail(c, f) PROVE DurableNext
    BY <1>28, DurableFrame DEF JobFail, Abortable
  <1>29. ASSUME NEW c \in Conns, NEW f \in Files, JobPost(c, f) PROVE DurableNext
    <2>1. up /\ up' /\ xfer' = xfer
      BY <1>29 DEF JobPost, JobAt
    <2>2. CASE Usable /\ file[f] \notin Terminal
      <3>1. PICK v \in Terminal : Terminate(f, v)
        BY <1>29, <2>2 DEF JobPost, Terminal, Verdicts
      <3> QED
        BY <2>1, <2>2, <3>1, DurableTerminate DEF Inv, Usable
    <2>3. CASE ~(Usable /\ file[f] \notin Terminal)
      BY <1>29, <2>1, <2>3, DurableFrame DEF JobPost
    <2> QED
      BY <2>2, <2>3
  <1>30. ASSUME NEW c \in Conns, NEW f \in Files, JobReport(c, f) PROVE DurableNext
    BY <1>30, DurableFrame DEF JobReport, JobAt
  <1>31. ASSUME NEW f \in Files, ApiDownload(f) PROVE DurableNext
    <2>1. /\ up /\ up' /\ xfer' = xfer /\ Usable /\ file[f] = "Idle"
          /\ file' = [file EXCEPT ![f] = "InFlight"] /\ file \in [Files -> LocalFileState]
      BY <1>31 DEF ApiDownload, Calls, Inv, TypeOK
    <2>2. UpState /\ UpState'
      BY <2>1, UpMap, PTL
    <2>3. Life = "open" /\ Life' = "open"
      BY <2>1, <2>2 DEF UpState, Usable
    <2>4. Settled' = Settled /\ f \notin Settled
      BY <2>1, <2>2 DEF UpState, Usable, Terminal, Verdicts
    <2>5. Wanted' = Wanted \cup {f}
      BY <2>1, <2>2 DEF UpState, Usable
    <2>6. Durable!Want(f)
      BY <2>3, <2>4, <2>5 DEF Durable!Want
    <2> QED
      BY <2>6 DEF DurableNext, Durable!Next
  <1>32. ASSUME NEW f \in Files, ApiReject(f) PROVE DurableNext
    <2>1. up /\ up' /\ xfer' = xfer /\ xfer # "Absent"
      BY <1>32 DEF ApiReject, Calls, Usable
    <2>2. Terminate(f, "Rejected") /\ "Rejected" \in Terminal
      BY <1>32 DEF ApiReject, Terminal, Verdicts
    <2> QED
      BY <2>1, <2>2, DurableTerminate DEF Inv
  <1>33. ASSUME ApiCancel PROVE DurableNext
    <2>1. /\ up /\ up' /\ xfer' = "Canceled" /\ Usable
          /\ file' = [f \in Files |-> IF file[f] = "InFlight" THEN "Idle" ELSE file[f]]
      BY <1>33 DEF ApiCancel, Calls
    <2>2. UpState /\ UpState'
      BY <2>1, UpMap, PTL
    <2>3. Life = "open" /\ Life' = "canceled" /\ Wanted' = {}
      BY <2>1, <2>2 DEF UpState, Usable
    <2>4. Settled' = Settled
      BY <2>1, <2>2 DEF UpState, Usable, Terminal, Verdicts
    <2>5. Durable!Cancel
      BY <2>3, <2>4 DEF Durable!Cancel
    <2> QED
      BY <2>5 DEF DurableNext, Durable!Next
  <1>34. ASSUME ApiPurge PROVE DurableNext
    <2>1. db'.row = db.row
      BY <1>34 DEF ApiPurge, purge_transfers, Inv, TypeOK, Rows
    <2> QED
      BY <1>34, <2>1, DurableFrame DEF ApiPurge, Calls
  <1>35. ASSUME ApiRejectEmit PROVE DurableNext
    BY <1>35, DurableFrame DEF ApiRejectEmit
  <1>36. ASSUME ApiCancelEmit PROVE DurableNext
    BY <1>36, DurableFrame DEF ApiCancelEmit
  <1>37. ASSUME CheckDead PROVE DurableNext
    <2>1. CASE xfer = "Absent"
      BY <1>37, <2>1, DurableFrame DEF CheckDead, Remove
    <2>2. CASE xfer # "Absent"
      BY <1>37, <2>2, DurableRemove DEF Inv, CheckDead
    <2> QED
      BY <2>1, <2>2
  <1>38. ASSUME CheckGone PROVE DurableNext
    BY <1>38, DurableRemove DEF Inv, CheckGone, Usable
  <1>39. ASSUME CheckEmit PROVE DurableNext
    BY <1>39, DurableFrame DEF CheckEmit
  <1>40. ASSUME EventTask PROVE DurableNext
    <2>1. db'.row = db.row
      BY <1>40, QueueHead, StoredRows DEF EventTask, Inv
    <2> QED
      BY <1>40, <2>1, DurableFrame DEF EventTask
  <1>41. ASSUME Crash PROVE DurableNext
    BY <1>41, DurableDown DEF Crash, Down, Inv
  <1>42. ASSUME CrashInRegister PROVE DurableNext
    <2>1. up /\ ~up' /\ xfer = "Absent" /\ ~db.row /\ db' = insert_transfer(db)
      BY <1>42 DEF CrashInRegister, Down, inserts_transfer
    <2>2. UpState
      BY <2>1, UpMap
    <2>3. DownState'
      BY <2>1, DownMap, PTL DEF Inv
    <2>4. Life = "none" /\ Settled = {} /\ Wanted = {}
      BY <2>1, <2>2 DEF UpState, Usable
    <2>5. /\ db'.sync = "New" /\ db'.inflight = {}
          /\ \A f \in Files : ~IsRestoredTerminal(db', f)
      BY <2>1 DEF insert_transfer, NoRows, IsRestoredTerminal
    <2>6. Life' = "open" /\ Settled' = {} /\ Wanted' = {}
      BY <2>3, <2>5 DEF DownState, LifeOf, SettledOf
    <2>7. Durable!Offer
      BY <2>4, <2>6 DEF Durable!Offer
    <2> QED
      BY <2>7 DEF DurableNext, Durable!Next
  <1>43. ASSUME NEW f \in Files, CrashInTerminate(f) PROVE DurableNext
    <2>1. /\ db'.sync = db.sync /\ db'.row = db.row /\ db'.hist = db.hist
          /\ db'.inflight = db.inflight
          /\ \A g \in Files : db'.file[g] = db.file[g] \/ db'.file[g] = "Terminal"
      BY <1>43 DEF CrashInTerminate, update_file_sync_states, Inv, TypeOK, Rows
    <2>2. \A g \in Files : IsRestoredTerminal(db, g) => IsRestoredTerminal(db', g)
      BY <2>1 DEF IsRestoredTerminal
    <2> QED
      BY <1>43, <2>1, <2>2, DurableDown DEF CrashInTerminate, Down, Inv
  <1>44. ASSUME CrashInEventTask PROVE DurableNext
    <2>1. /\ db'.sync = db.sync /\ db'.row = db.row /\ db'.file = db.file
          /\ db'.inflight = db.inflight
          /\ \A f \in Files : db.hist[f] \subseteq db'.hist[f]
      BY <1>44, QueueHead, StoredRows DEF CrashInEventTask, Inv
    <2>2. \A f \in Files : IsRestoredTerminal(db, f) => IsRestoredTerminal(db', f)
      BY <2>1 DEF IsRestoredTerminal
    <2> QED
      BY <1>44, <2>1, <2>2, DurableDown DEF CrashInEventTask, Down, Inv
  <1>45. ASSUME Restart PROVE DurableNext
    <2>1. ~up /\ up' /\ Blank
      BY <1>45 DEF Restart, Inv, ControlInv
    <2>2. DownState
      BY <2>1, DownMap DEF Inv
    <2>3. UpState'
      BY <2>1, UpMap, PTL
    <2>4. db.sync \in SyncState \cup {"None"} /\ db.inflight \subseteq Files
      BY DEF Inv, TypeOK, Rows
    <2>5. CASE db' # db
      <3>1. db.sync = "None" /\ db.row /\ db' = NoRows
        BY <1>45, <2>5 DEF Restart, cleanup_garbage_transfers
      <3>2. Life = "over" /\ Settled = {} /\ Wanted = {}
        BY <2>2, <3>1 DEF DownState, LifeOf, SettledOf
      <3>3. xfer' = "Absent" /\ ~db'.row
        BY <1>45, <2>1, <3>1 DEF Restart, Blank, NoRows
      <3>4. Life' = "none" /\ Settled' = {} /\ Wanted' = {}
        BY <2>3, <3>3 DEF UpState, Usable
      <3>5. Durable!Forget
        BY <3>2, <3>4 DEF Durable!Forget
      <3> QED
        BY <3>5 DEF DurableNext, Durable!Next
    <2>6. CASE db' = db /\ db.sync = "None"
      <3>1. xfer' = "Absent"
        BY <1>45, <2>1, <2>6 DEF Restart, Blank
      <3> QED
        BY <2>2, <2>3, <2>6, <3>1 DEF UpState, DownState, LifeOf, SettledOf, Usable, DurableNext
    <2>7. CASE db' = db /\ db.sync # "None"
      <3>1. xfer' = db.sync /\ file' = [f \in Files |-> RestoredFile(db, f)]
        BY <1>45, <2>7 DEF Restart
      <3>2. ASSUME NEW f \in Files
            PROVE  /\ file'[f] \in Terminal <=> IsRestoredTerminal(db, f)
                   /\ file'[f] = "InFlight" <=> f \in db.inflight /\ ~IsRestoredTerminal(db, f)
        <4>1. db.file[f] \in {"Alive", "Terminal"}
          BY DEF Inv, TypeOK, Rows
        <4>2. RestoredVerdict(db, f) \in Terminal /\ "InFlight" \notin Terminal /\ "Idle" \notin Terminal
          BY DEF RestoredVerdict, Terminal, Verdicts
        <4> QED
          BY <3>1, <4>1, <4>2 DEF RestoredFile, incoming_files_to_resume, IsRestoredTerminal
      <3>3. Life' = Life
        BY <2>2, <2>3, <2>4, <2>7, <3>1 DEF UpState, DownState, LifeOf, SyncState
      <3>4. Settled' = Settled
        BY <2>2, <2>3, <2>4, <2>7, <3>1, <3>2 DEF UpState, DownState, SettledOf, SyncState
      <3>5. Wanted' = Wanted
        BY <2>2, <2>3, <2>4, <2>7, <3>1, <3>2 DEF UpState, DownState, Usable, SyncState
      <3> QED
        BY <3>3, <3>4, <3>5 DEF DurableNext
    <2> QED
      BY <2>5, <2>6, <2>7
  <1>46. CASE UNCHANGED vars
    BY <1>46
       DEF vars, DurableNext, Life, Settled, Wanted, Sync, IsRestoredTerminal,
           RestoredFile, incoming_files_to_resume, RestoredVerdict
  <1> QED
    BY <1>1, <1>2, <1>3, <1>4, <1>5, <1>6, <1>7, <1>8, <1>9, <1>10, <1>11, <1>12, <1>13, <1>14,
       <1>15, <1>16, <1>17, <1>18, <1>19, <1>20, <1>21, <1>22, <1>23, <1>24, <1>25, <1>26,
       <1>27, <1>28, <1>29, <1>30, <1>31, <1>32, <1>33, <1>34, <1>35, <1>36, <1>37, <1>38,
       <1>39, <1>40, <1>41, <1>42, <1>43, <1>44, <1>45, <1>46
       DEF Next, Connection, Request, Message, Handler, LoopEnd, Job, Detached,
           Api, ApiRest, Check, CrashAny

\* IsDurable: the receiving side, with its crashes and restarts, is a durable
\* transfer.
THEOREM IncomingIsDurable == Spec => IsDurable
  <1>1. Init => Durable!Init
    BY DEF Init, Durable!Init, Life, Settled, Wanted, Sync, NoRows
  <1>2. Inv /\ Inv' /\ [Next]_vars => [Durable!Next]_(Durable!vars)
    BY DurableStep DEF DurableNext, Durable!vars
  <1> QED
    BY <1>1, <1>2, Inductive, PTL DEF Spec, IsDurable, Durable!Spec

-----------------------------------------------------------------------------
(* Downloads that are not forgotten, and pauses that are shown: who works  *)
(* on a file that is in flight.                                            *)

\* The sender does not use the message that makes on_cancel drop the job of one file.
NoCancel == "Cancel" \notin PeerMsgs

\* The loop still has something to do with f: it keeps a task for it, or has been told
\* that the transfer is over and is about to remove it.
Serves(c, f) == f \in held[c] \/ pc[c].op = "remove"

Asked(k, c, f) == Req(k, f) \in Range(reqs[c])
Showing(f)     == fev[f] \in {"Preflight", "InFlight"}

\* Nothing is left of a loop that is over, or not begun.
IdleInv ==
  /\ ~up => \A f \in Files : ~Showing(f)
  /\ \A c \in Conns :
       /\ ~Open(c) => reqs[c] = <<>> /\ held[c] = {} /\ \A f \in Files : job[c][f] \notin Abortable
       /\ loop[c] = "off" => \A f \in Files : job[c][f] = "none"
       /\ \A f \in aborted[c] : job[c][f] \in Abortable
       /\ \A f \in held[c] : job[c][f] # "none"

\* Only a transfer that can be used has a registered connection; while it can be used no
\* loop is told to close, and a file that a loop is told to stop has ended in the manager.
EndingInv ==
  /\ conn # NoConn => Usable
  /\ Usable => \A c \in Conns :
       /\ Close \notin Range(reqs[c]) /\ pc[c].op \notin {"drain", "cancel"}
       /\ \A f \in Files : Asked("Reject", c, f) \/ pc[c].f = f => file[f] \in Terminal

\* Who works on a file: one that is shown as being received, or that a job receives, is
\* served by a loop that will pause or remove it.
WorkAt(f) ==
  /\ Usable /\ Showing(f) => file[f] # "Idle"
  /\ file[f] = "InFlight" /\ Showing(f) => Usable /\ \E c \in Conns : Open(c) /\ Serves(c, f)
  /\ \A c \in Conns :
       /\ Usable /\ (job[c][f] \in Abortable \/ Asked("Download", c, f)) => file[f] # "Idle"
       /\ file[f] = "InFlight" /\ job[c][f] \in Abortable => Usable /\ Serves(c, f)

WorkInv == \A f \in Files : WorkAt(f)

\* The registered loop works on what is in flight.
Live(c, f) == conn = c /\ loop[c] = "run" /\ pc[c].op # "remove" /\ file[f] \notin Terminal

Attended(c, f) ==
  /\ f \notin aborted[c] /\ job[c][f] # "end"
  /\ file[f] = "InFlight" => Asked("Download", c, f) \/ job[c][f] # "none"

FlightInv == \A c \in Conns, f \in Files : Live(c, f) => Attended(c, f)

\* What the queues hold after a request is taken or added.
LEMMA PopAsked ==
  ASSUME TypeOK, NEW c \in Conns, NEW k, HasReq(c, k), Pop(c)
  PROVE  /\ \A d \in Conns : Range(reqs'[d]) \subseteq Range(reqs[d])
         /\ \A d \in Conns, r \in Reqs :
              r \in Range(reqs[d]) => r \in Range(reqs'[d]) \/ (d = c /\ r = Head(reqs[c]))
         /\ Head(reqs[c]) \in Range(reqs[c]) /\ Head(reqs[c]) \in Reqs /\ Head(reqs[c]).k = k
  <1>1. reqs[c] \in Seq(Reqs) /\ reqs[c] # <<>> /\ reqs' = [reqs EXCEPT ![c] = Tail(reqs[c])]
    BY DEF HasReq, Pop, TypeOK
  <1>2. \A d \in Conns : reqs'[d] = IF d = c THEN Tail(reqs[c]) ELSE reqs[d]
    BY <1>1 DEF TypeOK
  <1>3. \A d \in Conns : Range(reqs'[d]) \subseteq Range(reqs[d])
    BY PopRange DEF TypeOK
  <1>4. Head(reqs[c]) = reqs[c][1] /\ 1 \in DOMAIN reqs[c] /\ Head(reqs[c]) \in Reqs
    BY <1>1
  <1>5. ASSUME NEW r \in Range(reqs[c]), r # Head(reqs[c]) PROVE r \in Range(Tail(reqs[c]))
    <2>1. PICK i \in DOMAIN reqs[c] : reqs[c][i] = r
      BY DEF Range
    <2>2. i # 1
      BY <1>4, <1>5, <2>1
    <2>3. i - 1 \in DOMAIN Tail(reqs[c]) /\ Tail(reqs[c])[i - 1] = r
      BY <1>1, <2>1, <2>2
    <2> QED
      BY <2>3 DEF Range
  <1>6. Head(reqs[c]) \in Range(reqs[c]) /\ Head(reqs[c]).k = k
    BY <1>4 DEF Range, HasReq
  <1> QED
    BY <1>2, <1>3, <1>4, <1>5, <1>6

LEMMA PushAsked ==
  ASSUME TypeOK, NEW c, NEW r \in Reqs, NEW d \in Conns
  PROVE  /\ Range(reqs[d]) \subseteq Range(Push(c, r)[d])
         /\ Range(Push(c, r)[d]) \subseteq Range(reqs[d]) \cup {r}
         /\ ~Open(d) => Push(c, r)[d] = reqs[d]
         /\ Open(d) /\ c = d => r \in Range(Push(c, r)[d])
  <1>1. Push(c, r)[d] = IF Open(d) /\ c = d THEN Append(reqs[d], r) ELSE reqs[d]
    BY DEF Push, Open, TypeOK
  <1>2. reqs[d] \in Seq(Reqs)
    BY DEF TypeOK
  <1>3. Range(Append(reqs[d], r)) = Range(reqs[d]) \cup {r}
    BY <1>2, AppendRange
  <1> QED
    BY <1>1, <1>3

LEMMA OrdersComplete ==
  ASSUME NEW S, S \subseteq Files, NEW s \in Orders(S), NEW x \in S
  PROVE  \E i \in DOMAIN s : s[i] = x
  <1> DEFINE n == Cardinality(S)
  <1>1. IsFiniteSet(S) /\ n \in Nat
    BY FilesAssumption, FS_Subset, FS_CardinalityType
  <1>2. Cardinality(1 .. n) = n
    BY <1>1, FS_Interval
  <1>3. s \in Injection(1 .. n, S)
    BY DEF Orders, Injection, IsInjective
  <1>4. s \in Surjection(1 .. n, S)
    BY <1>1, <1>2, <1>3, FS_Injection
  <1> QED
    BY <1>4 DEF Surjection

LEMMA IdleStep == TypeOK /\ ControlInv /\ IdleInv /\ [Next]_vars => IdleInv'
  <1> SUFFICES ASSUME TypeOK, ControlInv, IdleInv, [Next]_vars PROVE IdleInv'
    OBVIOUS
  <1> USE DEF mgr, loops, jobs, events, calls, disk, ghost
  <1>1. ASSUME NEW c \in Conns, RegisterRefused(c) PROVE IdleInv'
    BY <1>1 DEF IdleInv, Showing, Open, Abortable, TypeOK, RegisterRefused, Fresh
  <1>2. ASSUME NEW c \in Conns, RegisterResume(c) PROVE IdleInv'
    BY <1>2 DEF IdleInv, Showing, Open, Abortable, TypeOK, RegisterResume, Fresh
  <1>3. ASSUME NEW c \in Conns, RegisterClosed(c) PROVE IdleInv'
    BY <1>3 DEF IdleInv, Showing, Open, Abortable, TypeOK, RegisterClosed, Fresh
  <1>4. ASSUME NEW c \in Conns, RegisterNew(c) PROVE IdleInv'
    BY <1>4 DEF IdleInv, Showing, Open, Abortable, TypeOK, RegisterNew, Fresh
  <1>5. ASSUME NEW c \in Conns, OnReqDownload(c) PROVE IdleInv'
    <2> DEFINE f == Head(reqs[c]).f
    <2>1. f \in Files /\ c \in Conns /\ Open(c) /\ up /\ loop[c] = "run"
      BY <1>5 DEF OnReqDownload, HasReq, Selecting, TypeOK, Reqs, Open
    <2>2. /\ fev' = fev /\ up' = up
          /\ \A d \in Conns : d # c => /\ reqs'[d] = reqs[d] /\ held'[d] = held[d] /\ job'[d] = job[d]
                                      /\ aborted'[d] = aborted[d] /\ loop'[d] = loop[d]
          /\ loop'[c] \in {"run", "err"}
      BY <1>5 DEF OnReqDownload, Pop, Break, TypeOK, HasReq, Selecting
    <2> HIDE DEF f
    <2>3. \A g \in Files : job'[c][g] = job[c][g] \/ (g = f /\ job'[c][g] = "spawned")
      BY <1>5, <2>1 DEF OnReqDownload, TypeOK, f
    <2>4. /\ \A g \in aborted'[c] : g \in aborted[c] \/ (job'[c][g] \in Abortable)
          /\ \A g \in held'[c] : g \in held[c] \/ (g = f /\ job'[c][g] = "spawned")
      <3>1. CASE ~Stoppable(c, f) /\ Usable
        BY <1>5, <2>1, <3>1 DEF OnReqDownload, TypeOK, f
      <3>2. CASE ~Stoppable(c, f) /\ ~Usable
        BY <1>5, <2>1, <3>2 DEF OnReqDownload, Break, TypeOK, f
      <3>3. CASE Stoppable(c, f)
        BY <1>5, <2>1, <3>3 DEF OnReqDownload, TypeOK, f
      <3> QED
        BY <3>1, <3>2, <3>3
    <2>5. aborted'[c] \subseteq Files /\ held'[c] \subseteq Files
      BY TypeStep DEF TypeOK
    <2> QED
      BY <2>1, <2>2, <2>3, <2>4, <2>5 DEF IdleInv, Showing, Open, Abortable
  <1>6. ASSUME NEW c \in Conns, OnReqSend(c) PROVE IdleInv'
    BY <1>6 DEF IdleInv, Showing, Open, Abortable, TypeOK, OnReqSend, HasReq, Pop, Selecting
  <1>7. ASSUME NEW c \in Conns, OnReqReject(c) PROVE IdleInv'
    BY <1>7 DEF IdleInv, Showing, Open, Abortable, TypeOK, OnReqReject, HasReq, Pop, StopTask,
       Selecting, Stoppable, stop
  <1>8. ASSUME NEW c \in Conns, OnReqClose(c) PROVE IdleInv'
    BY <1>8 DEF IdleInv, Showing, Open, Abortable, TypeOK, OnReqClose, HasReq, Pop, OnClose,
       Selecting, stop
  <1>9. ASSUME NEW c \in Conns, RecvClose(c) PROVE IdleInv'
    BY <1>9 DEF IdleInv, Showing, Open, Abortable, TypeOK, RecvClose, OnClose, Receives, stop,
       Selecting
  <1>10. ASSUME NEW c \in Conns, NEW f \in Files, RecvReject(c, f) PROVE IdleInv'
    BY <1>10 DEF IdleInv, Showing, Open, Abortable, TypeOK, RecvReject, Receives, TerminalRecv,
       Selecting, Terminate
  <1>11. ASSUME NEW c \in Conns, NEW f \in Files, RecvError(c, f) PROVE IdleInv'
    BY <1>11 DEF IdleInv, Showing, Open, Abortable, TypeOK, RecvError, Receives, TerminalRecv,
       Selecting, Terminate
  <1>12. ASSUME NEW c \in Conns, NEW f \in Files, RecvCancel(c, f) PROVE IdleInv'
    BY <1>12 DEF IdleInv, Showing, Open, Abortable, TypeOK, RecvCancel, StopTask, Stoppable, Receives,
       stop, Selecting
  <1>13. ASSUME NEW c \in Conns, LinkBroken(c) PROVE IdleInv'
    BY <1>13 DEF IdleInv, Showing, Open, Abortable, TypeOK, LinkBroken, Selecting, Break, At
  <1>14. ASSUME NEW c \in Conns, Drained(c) PROVE IdleInv'
    BY <1>14 DEF IdleInv, Showing, Open, Abortable, TypeOK, Drained, Break, At, Remove
  <1>15. ASSUME NEW c \in Conns, RecvCloseRemove(c) PROVE IdleInv'
    BY <1>15 DEF IdleInv, Showing, Open, Abortable, TypeOK, RecvCloseRemove, Break, At, Remove
  <1>16. ASSUME NEW c \in Conns, RecvCloseCancel(c) PROVE IdleInv'
    BY <1>16 DEF IdleInv, Showing, Open, Abortable, TypeOK, RecvCloseCancel, Break, At
  <1>17. ASSUME NEW c \in Conns, RecvRejectStop(c) PROVE IdleInv'
    BY <1>17 DEF IdleInv, Showing, Open, Abortable, TypeOK, RecvRejectStop, StopTask, At, Stoppable,
       stop
  <1>18. ASSUME NEW c \in Conns, RecvRejectEmit(c) PROVE IdleInv'
    BY <1>18 DEF IdleInv, Showing, Open, Abortable, TypeOK, RecvRejectEmit, At, terminate
  <1>19. ASSUME NEW c \in Conns, RecvErrorEmit(c) PROVE IdleInv'
    BY <1>19 DEF IdleInv, Showing, Open, Abortable, TypeOK, RecvErrorEmit, At, terminate
  <1>20. ASSUME NEW c \in Conns, RecvErrorStop(c) PROVE IdleInv'
    BY <1>20 DEF IdleInv, Showing, Open, Abortable, TypeOK, RecvErrorStop, StopTask, At, Stoppable,
       stop
  <1>21. ASSUME NEW c \in Conns, LoopFinalize(c) PROVE IdleInv'
    BY <1>21 DEF IdleInv, Showing, Open, Abortable, TypeOK, LoopFinalize, stop
  <1>22. ASSUME NEW c \in Conns, Disconnect(c) PROVE IdleInv'
    BY <1>22 DEF IdleInv, Showing, Open, Abortable, TypeOK, Disconnect
  <1>23. ASSUME NEW c \in Conns, NEW f \in Files, JobAborted(c, f) PROVE IdleInv'
    BY <1>23 DEF IdleInv, Showing, Open, Abortable, TypeOK, JobAborted, JobTo
  <1>24. ASSUME NEW c \in Conns, NEW f \in Files, JobPreflight(c, f) PROVE IdleInv'
    BY <1>24 DEF IdleInv, Showing, Open, Abortable, TypeOK, JobPreflight, JobTo, JobAt, preflight
  <1>25. ASSUME NEW c \in Conns, NEW f \in Files, JobStart(c, f) PROVE IdleInv'
    BY <1>25 DEF IdleInv, Showing, Open, Abortable, TypeOK, JobStart, JobTo, JobAt, start, preflight,
       Push
  <1>26. ASSUME NEW c \in Conns, NEW f \in Files, JobPlace(c, f) PROVE IdleInv'
    BY <1>26 DEF IdleInv, Showing, Open, Abortable, TypeOK, JobPlace, JobTo, JobAt
  <1>27. ASSUME NEW c \in Conns, NEW f \in Files, JobCanceled(c, f) PROVE IdleInv'
    BY <1>27 DEF IdleInv, Showing, Open, Abortable, TypeOK, JobCanceled, JobTo, JobAt, preflight
  <1>28. ASSUME NEW c \in Conns, NEW f \in Files, JobFail(c, f) PROVE IdleInv'
    BY <1>28 DEF IdleInv, Showing, Open, Abortable, TypeOK, JobFail, JobTo
  <1>29. ASSUME NEW c \in Conns, NEW f \in Files, JobPost(c, f) PROVE IdleInv'
    BY <1>29 DEF IdleInv, Showing, Open, Abortable, TypeOK, JobPost, Terminate, JobTo, JobAt
  <1>30. ASSUME NEW c \in Conns, NEW f \in Files, JobReport(c, f) PROVE IdleInv'
    BY <1>30 DEF IdleInv, Showing, Open, Abortable, TypeOK, JobReport, JobTo, JobAt, terminate, Push
  <1>31. ASSUME NEW f \in Files, ApiDownload(f) PROVE IdleInv'
    BY <1>31 DEF IdleInv, Showing, Open, Abortable, TypeOK, ApiDownload, Calls, Push
  <1>32. ASSUME NEW f \in Files, ApiReject(f) PROVE IdleInv'
    BY <1>32 DEF IdleInv, Showing, Open, Abortable, TypeOK, ApiReject, Terminate, Calls, Push
  <1>33. ASSUME ApiCancel PROVE IdleInv'
    BY <1>33 DEF IdleInv, Showing, Open, Abortable, TypeOK, ApiCancel, Calls, Push
  <1>34. ASSUME ApiPurge PROVE IdleInv'
    BY <1>34 DEF IdleInv, Showing, Open, Abortable, TypeOK, ApiPurge, Calls
  <1>35. ASSUME ApiRejectEmit PROVE IdleInv'
    BY <1>35 DEF IdleInv, Showing, Open, Abortable, TypeOK, ApiRejectEmit, terminate
  <1>36. ASSUME ApiCancelEmit PROVE IdleInv'
    BY <1>36 DEF IdleInv, Showing, Open, Abortable, TypeOK, ApiCancelEmit, stop
  <1>37. ASSUME CheckDead PROVE IdleInv'
    BY <1>37 DEF IdleInv, Showing, Open, Abortable, TypeOK, CheckDead, Remove
  <1>38. ASSUME CheckGone PROVE IdleInv'
    BY <1>38 DEF IdleInv, Showing, Open, Abortable, TypeOK, CheckGone, Remove
  <1>39. ASSUME CheckEmit PROVE IdleInv'
    BY <1>39 DEF IdleInv, Showing, Open, Abortable, TypeOK, CheckEmit
  <1>40. ASSUME EventTask PROVE IdleInv'
    BY <1>40 DEF IdleInv, Showing, Open, Abortable, TypeOK, EventTask
  <1>41. ASSUME Crash PROVE IdleInv'
    BY <1>41 DEF IdleInv, Showing, Open, Abortable, TypeOK, Crash, Down
  <1>42. ASSUME CrashInRegister PROVE IdleInv'
    BY <1>42 DEF IdleInv, Showing, Open, Abortable, TypeOK, CrashInRegister, Fresh, Down
  <1>43. ASSUME NEW f \in Files, CrashInTerminate(f) PROVE IdleInv'
    BY <1>43 DEF IdleInv, Showing, Open, Abortable, TypeOK, CrashInTerminate, Selecting, Calls, Down
  <1>44. ASSUME CrashInEventTask PROVE IdleInv'
    BY <1>44 DEF IdleInv, Showing, Open, Abortable, TypeOK, CrashInEventTask, Down
  <1>45. ASSUME Restart PROVE IdleInv'
    BY <1>45 DEF IdleInv, Showing, Open, Abortable, TypeOK, Restart
  <1>46. CASE UNCHANGED vars
    BY <1>46 DEF vars, IdleInv, Showing, Open, Abortable, TypeOK
  <1> QED
    BY <1>1, <1>2, <1>3, <1>4, <1>5, <1>6, <1>7, <1>8, <1>9, <1>10, <1>11, <1>12, <1>13, <1>14,
       <1>15, <1>16, <1>17, <1>18, <1>19, <1>20, <1>21, <1>22, <1>23, <1>24, <1>25, <1>26,
       <1>27, <1>28, <1>29, <1>30, <1>31, <1>32, <1>33, <1>34, <1>35, <1>36, <1>37, <1>38,
       <1>39, <1>40, <1>41, <1>42, <1>43, <1>44, <1>45, <1>46
       DEF Next, Connection, Request, Message, Handler, LoopEnd, Job, Detached,
           Api, ApiRest, Check, CrashAny

\* Steps that end nothing, and what follows when a step ends only what has ended.
LEMMA EndingKept ==
  ASSUME TypeOK, ControlInv, [Next]_vars, EndingInv,
         conn' # NoConn => Usable', Usable' => Usable,
         \A d \in Conns : Usable' /\ Close \in Range(reqs'[d]) => Close \in Range(reqs[d]),
         \A d \in Conns, f \in Files :
           Usable' /\ Asked("Reject", d, f)' => Asked("Reject", d, f) \/ file'[f] \in Terminal,
         \A d \in Conns : Usable' => \/ pc'[d] = pc[d]
                                     \/ /\ pc'[d].op \notin {"drain", "cancel"}
                                        /\ \A f \in Files : pc'[d].f = f => file'[f] \in Terminal
  PROVE  EndingInv'
  <1>1. \A f \in Files : Usable' /\ file[f] \in Terminal => file'[f] \in Terminal
    BY VerdictKept DEF Kept, Usable
  <1> QED
    BY <1>1 DEF EndingInv

\* A queue that grows by a request, or loses its first.
LEMMA RejectsDiffer ==
  /\ \A k, f, g : Req(k, f) = Req("Reject", g) => k = "Reject" /\ f = g
  /\ \A k, f : Req(k, f) = Close => k = "Close"
  BY DEF Req, Close

LEMMA EndingStep == TypeOK /\ ControlInv /\ IdleInv /\ EndingInv /\ [Next]_vars => EndingInv'
  <1> SUFFICES ASSUME TypeOK, ControlInv, IdleInv, EndingInv, [Next]_vars PROVE EndingInv'
    OBVIOUS
  <1> USE DEF mgr, loops, jobs, events, calls, disk, ghost
  <1>1. ASSUME NEW c \in Conns, RegisterRefused(c) PROVE EndingInv'
    BY <1>1 DEF EndingInv, Asked, Usable, TypeOK, HandlerPc, Select, RegisterRefused, Fresh
  <1>2. ASSUME NEW c \in Conns, RegisterResume(c) PROVE EndingInv'
    <2>1. PICK s \in Orders(Unsettled) :
            reqs' = [reqs EXCEPT ![c] = IF xfer = "Canceled"
                                        THEN Append([i \in DOMAIN s |-> PendingReq(s[i])], Close)
                                        ELSE [i \in DOMAIN s |-> PendingReq(s[i])]]
      BY <1>2 DEF RegisterResume
    <2> DEFINE m == [i \in DOMAIN s |-> PendingReq(s[i])]
    <2>2. \A i \in DOMAIN s : s[i] \in Files
      BY <2>1, OrdersTyped DEF Unsettled
    <2>3. \A g, f \in Files : PendingReq(g) = Req("Reject", f) => file[f] = "Rejected"
      BY RejectsDiffer DEF PendingReq
    <2>4. \A g \in Files : PendingReq(g) # Close
      BY RejectsDiffer DEF PendingReq
    <2>5. Close \notin Range(m) /\ \A f \in Files : Req("Reject", f) \in Range(m) => file[f] = "Rejected"
      BY <2>2, <2>3, <2>4 DEF Range
    <2> HIDE DEF m
    <2>6. Usable => \A d \in Conns : reqs'[d] = reqs[d] \/ reqs'[d] = m
      BY <2>1 DEF TypeOK, Usable, m
    <2>7. "Rejected" \in Terminal
      BY DEF Terminal, Verdicts
    <2> QED
      BY <1>2, <2>5, <2>6, <2>7, EndingKept DEF EndingInv, Asked, Usable, TypeOK, RegisterResume
  <1>3. ASSUME NEW c \in Conns, RegisterClosed(c) PROVE EndingInv'
    BY <1>3 DEF EndingInv, Asked, Usable, TypeOK, HandlerPc, Select, RegisterClosed, Fresh
  <1>4. ASSUME NEW c \in Conns, RegisterNew(c) PROVE EndingInv'
    <2>1. \A d \in Conns : pc[d] = Select /\ loop[d] \in {"off", "dead"}
      BY <1>4 DEF RegisterNew, ControlInv, Blank, inserts_transfer
    <2>2. \A d \in Conns : reqs[d] = <<>>
      BY <2>1 DEF IdleInv, Open
    <2> QED
      BY <1>4, <2>1, <2>2, EmptyRange, FilesAssumption DEF RegisterNew, EndingInv, Asked, Usable, Select
  <1>5. ASSUME NEW c \in Conns, OnReqDownload(c) PROVE EndingInv'
    <2>1. \A d \in Conns : Range(reqs'[d]) \subseteq Range(reqs[d])
      BY <1>5, PopAsked DEF OnReqDownload
    <2> QED
      BY <1>5, <2>1, EndingKept DEF EndingInv, Asked, Usable, TypeOK, OnReqDownload
  <1>6. ASSUME NEW c \in Conns, OnReqSend(c) PROVE EndingInv'
    <2>1. \A d \in Conns : Range(reqs'[d]) \subseteq Range(reqs[d])
      BY <1>6, PopAsked DEF OnReqSend
    <2> QED
      BY <1>6, <2>1, EndingKept DEF EndingInv, Asked, Usable, TypeOK, OnReqSend
  <1>7. ASSUME NEW c \in Conns, OnReqReject(c) PROVE EndingInv'
    <2>1. \A d \in Conns : Range(reqs'[d]) \subseteq Range(reqs[d])
      BY <1>7, PopAsked DEF OnReqReject
    <2> QED
      BY <1>7, <2>1, EndingKept DEF EndingInv, Asked, Usable, TypeOK, OnReqReject
  <1>8. ASSUME NEW c \in Conns, OnReqClose(c) PROVE EndingInv'
    <2>1. ~Usable
      BY <1>8, PopAsked DEF OnReqClose, EndingInv, Reqs, Close, Req
    <2> QED
      BY <1>8, <2>1 DEF EndingInv, Usable, OnReqClose
  <1>9. ASSUME NEW c \in Conns, RecvClose(c) PROVE EndingInv'
    BY <1>9 DEF EndingInv, Asked, Usable, TypeOK, HandlerPc, Select, RecvClose, OnClose, Receives,
       stop, Selecting
  <1>10. ASSUME NEW c \in Conns, NEW f \in Files, RecvReject(c, f) PROVE EndingInv'
    <2>1. Usable => file'[f] \in Terminal
      BY <1>10 DEF RecvReject, TerminalRecv, Terminate, Usable, TypeOK, Terminal, Verdicts
    <2>2. \A d \in Conns : pc'[d] = pc[d] \/ (pc'[d].op \in {"rej_stop", "rej_none"} /\ pc'[d].f = f)
      BY <1>10 DEF RecvReject, TerminalRecv, TypeOK
    <2> QED
      BY <1>10, <2>1, <2>2, EndingKept DEF RecvReject, EndingInv, Asked, Usable
  <1>11. ASSUME NEW c \in Conns, NEW f \in Files, RecvError(c, f) PROVE EndingInv'
    <2>1. Usable => file'[f] \in Terminal
      BY <1>11 DEF RecvError, TerminalRecv, Terminate, Usable, TypeOK, Terminal, Verdicts
    <2>2. \A d \in Conns : pc'[d] = pc[d] \/ (pc'[d].op \in {"err_emit", "err_stop"} /\ pc'[d].f = f)
      BY <1>11 DEF RecvError, TerminalRecv, TypeOK
    <2> QED
      BY <1>11, <2>1, <2>2, EndingKept DEF RecvError, EndingInv, Asked, Usable
  <1>12. ASSUME NEW c \in Conns, NEW f \in Files, RecvCancel(c, f) PROVE EndingInv'
    BY <1>12 DEF EndingInv, Asked, Usable, TypeOK, HandlerPc, Select, RecvCancel, StopTask, Stoppable,
       Receives, stop, Selecting
  <1>13. ASSUME NEW c \in Conns, LinkBroken(c) PROVE EndingInv'
    BY <1>13 DEF EndingInv, Asked, Usable, TypeOK, HandlerPc, Select, LinkBroken, Selecting, Break, At
  <1>14. ASSUME NEW c \in Conns, Drained(c) PROVE EndingInv'
    BY <1>14 DEF EndingInv, Asked, Usable, TypeOK, HandlerPc, Select, Drained, Break, At, Remove
  <1>15. ASSUME NEW c \in Conns, RecvCloseRemove(c) PROVE EndingInv'
    BY <1>15 DEF EndingInv, Asked, Usable, TypeOK, HandlerPc, Select, RecvCloseRemove, Break, At,
       Remove
  <1>16. ASSUME NEW c \in Conns, RecvCloseCancel(c) PROVE EndingInv'
    BY <1>16 DEF EndingInv, Asked, Usable, TypeOK, HandlerPc, Select, RecvCloseCancel, Break, At
  <1>17. ASSUME NEW c \in Conns, RecvRejectStop(c) PROVE EndingInv'
    <2>0. \/ pc' = [pc EXCEPT ![c] = Select]
          \/ pc' = [pc EXCEPT ![c] = [op |-> "rej_emit", f |-> pc[c].f]]
      BY <1>17 DEF RecvRejectStop
    <2>1. \A d \in Conns : \/ pc'[d] = pc[d]
                            \/ pc'[d] = Select
                            \/ pc'[d] = [op |-> "rej_emit", f |-> pc[d].f]
      BY <2>0 DEF TypeOK
    <2> QED
      BY <1>17, <2>1, EndingKept, FilesAssumption DEF RecvRejectStop, EndingInv, Asked, Usable, Select
  <1>18. ASSUME NEW c \in Conns, RecvRejectEmit(c) PROVE EndingInv'
    <2>1. \A d \in Conns : pc'[d] = pc[d] \/ pc'[d] = Select
      BY <1>18 DEF RecvRejectEmit, TypeOK
    <2> QED
      BY <1>18, <2>1, EndingKept, FilesAssumption DEF RecvRejectEmit, EndingInv, Asked, Usable, Select
  <1>19. ASSUME NEW c \in Conns, RecvErrorEmit(c) PROVE EndingInv'
    BY <1>19 DEF EndingInv, Asked, Usable, TypeOK, HandlerPc, Select, RecvErrorEmit, At, terminate
  <1>20. ASSUME NEW c \in Conns, RecvErrorStop(c) PROVE EndingInv'
    <2>1. \A d \in Conns : pc'[d] = pc[d] \/ pc'[d] = Select
      BY <1>20 DEF RecvErrorStop, TypeOK
    <2> QED
      BY <1>20, <2>1, EndingKept, FilesAssumption DEF RecvErrorStop, EndingInv, Asked, Usable, Select
  <1>21. ASSUME NEW c \in Conns, LoopFinalize(c) PROVE EndingInv'
    <2>1. \A d \in Conns : reqs'[d] = reqs[d] \/ reqs'[d] = <<>>
      BY <1>21 DEF LoopFinalize, TypeOK
    <2> QED
      BY <1>21, <2>1, EndingKept, EmptyRange DEF LoopFinalize, EndingInv, Asked, Usable
  <1>22. ASSUME NEW c \in Conns, Disconnect(c) PROVE EndingInv'
    BY <1>22 DEF EndingInv, Asked, Usable, TypeOK, HandlerPc, Select, Disconnect
  <1>23. ASSUME NEW c \in Conns, NEW f \in Files, JobAborted(c, f) PROVE EndingInv'
    BY <1>23 DEF EndingInv, Asked, Usable, TypeOK, HandlerPc, Select, JobAborted, JobTo
  <1>24. ASSUME NEW c \in Conns, NEW f \in Files, JobPreflight(c, f) PROVE EndingInv'
    BY <1>24 DEF EndingInv, Asked, Usable, TypeOK, HandlerPc, Select, JobPreflight, JobTo, JobAt,
       preflight
  <1>25. ASSUME NEW c \in Conns, NEW f \in Files, JobStart(c, f) PROVE EndingInv'
    <2>1. \A d \in Conns : Range(reqs'[d]) \subseteq Range(reqs[d]) \cup {Req("Start", f)}
      BY <1>25, PushAsked, ReqsTyped DEF JobStart
    <2> QED
      BY <1>25, <2>1, EndingKept, RejectsDiffer DEF EndingInv, Asked, Usable, TypeOK, JobStart
  <1>26. ASSUME NEW c \in Conns, NEW f \in Files, JobPlace(c, f) PROVE EndingInv'
    BY <1>26 DEF EndingInv, Asked, Usable, TypeOK, HandlerPc, Select, JobPlace, JobTo, JobAt
  <1>27. ASSUME NEW c \in Conns, NEW f \in Files, JobCanceled(c, f) PROVE EndingInv'
    BY <1>27 DEF EndingInv, Asked, Usable, TypeOK, HandlerPc, Select, JobCanceled, JobTo, JobAt,
       preflight
  <1>28. ASSUME NEW c \in Conns, NEW f \in Files, JobFail(c, f) PROVE EndingInv'
    BY <1>28 DEF EndingInv, Asked, Usable, TypeOK, HandlerPc, Select, JobFail, JobTo
  <1>29. ASSUME NEW c \in Conns, NEW f \in Files, JobPost(c, f) PROVE EndingInv'
    BY <1>29 DEF EndingInv, Asked, Usable, TypeOK, HandlerPc, Select, JobPost, Terminate, JobTo, JobAt
  <1>30. ASSUME NEW c \in Conns, NEW f \in Files, JobReport(c, f) PROVE EndingInv'
    <2>1. \A d \in Conns : Range(reqs'[d]) \subseteq Range(reqs[d]) \cup {Req("Done", f), Req("Fail", f)}
      BY <1>30, PushAsked, ReqsTyped DEF JobReport
    <2>2. UNCHANGED <<xfer, file, conn, pc>>
      BY <1>30 DEF JobReport
    <2>3. \A g \in Files, k \in {"Done", "Fail"} : Req(k, f) # Req("Reject", g) /\ Req(k, f) # Close
      BY RejectsDiffer
    <2> QED
      BY <2>1, <2>2, <2>3, EndingKept DEF EndingInv, Asked, Usable
  <1>31. ASSUME NEW f \in Files, ApiDownload(f) PROVE EndingInv'
    <2>1. \A d \in Conns : Range(reqs'[d]) \subseteq Range(reqs[d]) \cup {Req("Download", f)}
      BY <1>31, PushAsked, ReqsTyped DEF ApiDownload
    <2> QED
      BY <1>31, <2>1, EndingKept, RejectsDiffer DEF EndingInv, Asked, Usable, TypeOK, ApiDownload
  <1>32. ASSUME NEW f \in Files, ApiReject(f) PROVE EndingInv'
    <2>1. \A d \in Conns : Range(reqs'[d]) \subseteq Range(reqs[d]) \cup {Req("Reject", f)}
      BY <1>32, PushAsked, ReqsTyped DEF ApiReject
    <2>2. file'[f] \in Terminal
      BY <1>32 DEF ApiReject, Terminate, TypeOK, Terminal, Verdicts
    <2> QED
      BY <1>32, <2>1, <2>2, EndingKept, RejectsDiffer DEF EndingInv, Asked, Usable, TypeOK, ApiReject
  <1>33. ASSUME ApiCancel PROVE EndingInv'
    BY <1>33 DEF EndingInv, Asked, Usable, TypeOK, HandlerPc, Select, ApiCancel, Calls
  <1>34. ASSUME ApiPurge PROVE EndingInv'
    BY <1>34 DEF EndingInv, Asked, Usable, TypeOK, HandlerPc, Select, ApiPurge, Calls
  <1>35. ASSUME ApiRejectEmit PROVE EndingInv'
    BY <1>35 DEF EndingInv, Asked, Usable, TypeOK, HandlerPc, Select, ApiRejectEmit, terminate
  <1>36. ASSUME ApiCancelEmit PROVE EndingInv'
    BY <1>36 DEF EndingInv, Asked, Usable, TypeOK, HandlerPc, Select, ApiCancelEmit, stop
  <1>37. ASSUME CheckDead PROVE EndingInv'
    BY <1>37 DEF EndingInv, Asked, Usable, TypeOK, HandlerPc, Select, CheckDead, Remove
  <1>38. ASSUME CheckGone PROVE EndingInv'
    BY <1>38 DEF EndingInv, Asked, Usable, TypeOK, HandlerPc, Select, CheckGone, Remove
  <1>39. ASSUME CheckEmit PROVE EndingInv'
    BY <1>39 DEF EndingInv, Asked, Usable, TypeOK, HandlerPc, Select, CheckEmit
  <1>40. ASSUME EventTask PROVE EndingInv'
    BY <1>40 DEF EndingInv, Asked, Usable, TypeOK, HandlerPc, Select, EventTask
  <1>41. ASSUME Crash PROVE EndingInv'
    BY <1>41 DEF EndingInv, Asked, Usable, TypeOK, HandlerPc, Select, Crash, Down
  <1>42. ASSUME CrashInRegister PROVE EndingInv'
    BY <1>42 DEF EndingInv, Asked, Usable, TypeOK, HandlerPc, Select, CrashInRegister, Fresh, Down
  <1>43. ASSUME NEW f \in Files, CrashInTerminate(f) PROVE EndingInv'
    BY <1>43 DEF EndingInv, Asked, Usable, TypeOK, HandlerPc, Select, CrashInTerminate, Selecting,
       Calls, Down
  <1>44. ASSUME CrashInEventTask PROVE EndingInv'
    BY <1>44 DEF EndingInv, Asked, Usable, TypeOK, HandlerPc, Select, CrashInEventTask, Down
  <1>45. ASSUME Restart PROVE EndingInv'
    <2>1. \A d \in Conns : pc[d] = Select /\ loop[d] \in {"off", "dead"}
      BY <1>45 DEF Restart, ControlInv, Blank
    <2>2. \A d \in Conns : reqs[d] = <<>>
      BY <2>1 DEF IdleInv, Open
    <2>3. conn = NoConn
      BY <1>45 DEF Restart, ControlInv, Blank, EndingInv, Usable
    <2> QED
      BY <1>45, <2>1, <2>2, <2>3, EmptyRange, FilesAssumption DEF Restart, EndingInv, Asked, Usable, Select
  <1>46. CASE UNCHANGED vars
    BY <1>46 DEF vars, EndingInv, Asked, Usable, TypeOK, HandlerPc, Select
  <1> QED
    BY <1>1, <1>2, <1>3, <1>4, <1>5, <1>6, <1>7, <1>8, <1>9, <1>10, <1>11, <1>12, <1>13, <1>14,
       <1>15, <1>16, <1>17, <1>18, <1>19, <1>20, <1>21, <1>22, <1>23, <1>24, <1>25, <1>26,
       <1>27, <1>28, <1>29, <1>30, <1>31, <1>32, <1>33, <1>34, <1>35, <1>36, <1>37, <1>38,
       <1>39, <1>40, <1>41, <1>42, <1>43, <1>44, <1>45, <1>46
       DEF Next, Connection, Request, Message, Handler, LoopEnd, Job, Detached,
           Api, ApiRest, Check, CrashAny

\* A file that has ended needs no work, and neither does one that nobody takes up.
LEMMA WorkEnded ==
  ASSUME NEW f \in Files, file'[f] \in Terminal
  PROVE  WorkAt(f)'
  BY DEF WorkAt, Terminal, Verdicts

LEMMA WorkKept ==
  ASSUME NEW f \in Files, IdleInv, WorkAt(f), file'[f] = file[f], Usable' = Usable,
         Showing(f)' => Showing(f) \/ \E c \in Conns : job[c][f] \in Abortable,
         \A c \in Conns : job'[c][f] \in Abortable =>
           job[c][f] \in Abortable \/ (Asked("Download", c, f) /\ Usable /\ Serves(c, f)'),
         \A c \in Conns : Asked("Download", c, f)' => Asked("Download", c, f) \/ file[f] # "Idle",
         \A c \in Conns : Usable /\ file[f] = "InFlight" /\ Open(c) /\ Serves(c, f) =>
           (Open(c)' /\ Serves(c, f)') \/ (~Showing(f)' /\ job'[c][f] \notin Abortable)
  PROVE  WorkAt(f)'
  <1>1. \A c \in Conns : job[c][f] \in Abortable => Open(c)
    BY DEF IdleInv
  <1>2. Usable' /\ Showing(f)' => file'[f] # "Idle"
    BY DEF WorkAt
  <1>3. file'[f] = "InFlight" /\ Showing(f)' => Usable' /\ \E c \in Conns : Open(c)' /\ Serves(c, f)'
    BY <1>1 DEF WorkAt
  <1>4. \A c \in Conns : Usable' /\ (job'[c][f] \in Abortable \/ Asked("Download", c, f)') => file'[f] # "Idle"
    BY DEF WorkAt
  <1>5. \A c \in Conns : file'[f] = "InFlight" /\ job'[c][f] \in Abortable => Usable' /\ Serves(c, f)'
    BY <1>1 DEF WorkAt
  <1> QED
    BY <1>2, <1>3, <1>4, <1>5 DEF WorkAt

LEMMA DownloadsDiffer ==
  \A k, f, g : Req(k, f) = Req("Download", g) => k = "Download" /\ f = g
  BY DEF Req

LEMMA WorkStep ==
  NoCancel /\ TypeOK /\ ControlInv /\ IdleInv /\ EndingInv /\ WorkInv /\ [Next]_vars
    => WorkInv'
  <1> SUFFICES ASSUME NoCancel, TypeOK, ControlInv, IdleInv, EndingInv, WorkInv, [Next]_vars
           PROVE  WorkInv'
    OBVIOUS
  <1> USE DEF mgr, loops, jobs, events, calls, disk, ghost
  <1>1. ASSUME NEW c \in Conns, RegisterRefused(c) PROVE WorkInv'
    BY <1>1 DEF WorkInv, WorkAt, Serves, Asked, Showing, Open, Usable, TypeOK, Abortable,
       RegisterRefused, Fresh
  <1>2. ASSUME NEW c \in Conns, RegisterResume(c) PROVE WorkInv'
    <2> SUFFICES ASSUME NEW g \in Files PROVE WorkAt(g)'
      BY DEF WorkInv
    <2> USE DEF WorkInv
    <2>1. PICK s \in Orders(Unsettled) :
            reqs' = [reqs EXCEPT ![c] = IF xfer = "Canceled"
                                        THEN Append([i \in DOMAIN s |-> PendingReq(s[i])], Close)
                                        ELSE [i \in DOMAIN s |-> PendingReq(s[i])]]
      BY <1>2 DEF RegisterResume
    <2> DEFINE m == [i \in DOMAIN s |-> PendingReq(s[i])]
    <2>2. s \in Seq(Files)
      BY <2>1, OrdersTyped DEF Unsettled
    <2>3. \A f \in Files : PendingReq(f) \in Reqs /\ (PendingReq(f) = Req("Download", g) => file[g] = "InFlight")
      BY DownloadsDiffer, ReqsTyped DEF PendingReq
    <2>4. m \in Seq(Reqs) /\ (Req("Download", g) \in Range(m) => file[g] = "InFlight")
      BY <2>2, <2>3 DEF Range
    <2> HIDE DEF m
    <2>5. Req("Download", g) \in Range(Append(m, Close)) => file[g] = "InFlight"
      BY <2>4, AppendRange, ReqsTyped DEF Req, Close
    <2>6. \A d \in Conns : reqs'[d] = reqs[d] \/ reqs'[d] = m \/ reqs'[d] = Append(m, Close)
      BY <2>1 DEF TypeOK, m
    <2>7. \A d \in Conns : Asked("Download", d, g)' => Asked("Download", d, g) \/ file[g] # "Idle"
      BY <2>4, <2>5, <2>6 DEF Asked
    <2>8. UNCHANGED <<xfer, file, pc, held, job, fev>> /\ \A d \in Conns : Open(d) => Open(d)'
      BY <1>2 DEF RegisterResume, Fresh, Open, TypeOK
    <2> QED
      BY <2>7, <2>8, WorkKept DEF Serves, Showing, Usable
  <1>3. ASSUME NEW c \in Conns, RegisterClosed(c) PROVE WorkInv'
    BY <1>3 DEF WorkInv, WorkAt, Serves, Asked, Showing, Open, Usable, TypeOK, Abortable,
       RegisterClosed, Fresh
  <1>4. ASSUME NEW c \in Conns, RegisterNew(c) PROVE WorkInv'
    <2> SUFFICES ASSUME NEW g \in Files PROVE WorkAt(g)'
      BY DEF WorkInv
    <2> USE DEF WorkInv
    <2>1. \A d \in Conns : job[d][g] = "none" /\ loop[d] \in {"off", "dead"}
      BY <1>4 DEF RegisterNew, ControlInv, Blank, inserts_transfer
    <2>2. \A d \in Conns : reqs[d] = <<>>
      BY <2>1 DEF IdleInv, Open
    <2> QED
      BY <1>4, <2>1, <2>2, EmptyRange DEF RegisterNew, WorkAt, Asked, Showing, Abortable
  <1>5. ASSUME NEW c \in Conns, OnReqDownload(c) PROVE WorkInv'
    <2> SUFFICES ASSUME NEW g \in Files PROVE WorkAt(g)'
      BY DEF WorkInv
    <2> USE DEF WorkInv
    <2> DEFINE f == Head(reqs[c]).f
    <2>1. /\ \A d \in Conns : Range(reqs'[d]) \subseteq Range(reqs[d])
          /\ f \in Files /\ Asked("Download", c, f)
      <3>1. Head(reqs[c]) \in Range(reqs[c]) /\ Head(reqs[c]) \in Reqs /\ Head(reqs[c]).k = "Download"
        BY <1>5, PopAsked DEF OnReqDownload
      <3>2. f \in Files /\ Head(reqs[c]) = Req("Download", f)
        BY <3>1 DEF Reqs, Req
      <3> QED
        BY <1>5, <3>1, <3>2, PopAsked DEF OnReqDownload, Asked
    <2>2. /\ UNCHANGED <<xfer, file, pc, fev>>
          /\ \A d \in Conns : Open(d) => Open(d)'
      BY <1>5 DEF OnReqDownload, Break, Open, TypeOK
    <2> HIDE DEF f
    <2>3. \A d \in Conns : held[d] \subseteq held'[d]
      BY <1>5 DEF OnReqDownload, TypeOK, f
    <2>4. \A d \in Conns : job'[d][g] = job[d][g] \/ (d = c /\ g = f /\ Usable /\ f \in held'[c])
      BY <1>5, <2>1 DEF OnReqDownload, TypeOK, f
    <2> QED
      BY <2>1, <2>2, <2>3, <2>4, WorkKept DEF Serves, Asked, Showing, Usable
  <1>6. ASSUME NEW c \in Conns, OnReqSend(c) PROVE WorkInv'
    <2> SUFFICES ASSUME NEW g \in Files PROVE WorkAt(g)'
      BY DEF WorkInv
    <2> USE DEF WorkInv
    <2>1. \A d \in Conns : Range(reqs'[d]) \subseteq Range(reqs[d])
      BY <1>6, PopAsked DEF OnReqSend
    <2>2. UNCHANGED <<xfer, file, loop, pc, held, job, fev>>
      BY <1>6 DEF OnReqSend
    <2> QED
      BY <2>1, <2>2, WorkKept DEF Serves, Asked, Showing, Open, Usable
  <1>7. ASSUME NEW c \in Conns, OnReqReject(c) PROVE WorkInv'
    <2> SUFFICES ASSUME NEW g \in Files PROVE WorkAt(g)'
      BY DEF WorkInv
    <2> USE DEF WorkInv
    <2> DEFINE f == Head(reqs[c]).f
    <2>1. /\ \A d \in Conns : Range(reqs'[d]) \subseteq Range(reqs[d])
          /\ f \in Files /\ Asked("Reject", c, f)
      <3>1. Head(reqs[c]) \in Range(reqs[c]) /\ Head(reqs[c]) \in Reqs /\ Head(reqs[c]).k = "Reject"
        BY <1>7, PopAsked DEF OnReqReject
      <3>2. f \in Files /\ Head(reqs[c]) = Req("Reject", f)
        BY <3>1 DEF Reqs, Req
      <3> QED
        BY <1>7, <3>1, <3>2, PopAsked DEF OnReqReject, Asked
    <2>2. UNCHANGED <<xfer, file, loop, pc, job>>
      BY <1>7 DEF OnReqReject
    <2> HIDE DEF f
    <2>3. /\ \A d \in Conns : held[d] \ {f} \subseteq held'[d]
          /\ Showing(g)' => Showing(g)
      BY <1>7, <2>1 DEF OnReqReject, StopTask, Showing, stop, TypeOK, f
    <2>4. CASE g = f /\ Usable
      BY <2>1, <2>2, <2>4, WorkEnded DEF EndingInv
    <2>5. CASE ~(g = f /\ Usable)
      BY <2>1, <2>2, <2>3, <2>5, WorkKept DEF Serves, Asked, Open, Usable
    <2> QED
      BY <2>4, <2>5
  <1>8. ASSUME NEW c \in Conns, OnReqClose(c) PROVE WorkInv'
    <2> SUFFICES ASSUME NEW g \in Files PROVE WorkAt(g)'
      BY DEF WorkInv
    <2> USE DEF WorkInv
    <2>1. ~Usable /\ \A d \in Conns : Range(reqs'[d]) \subseteq Range(reqs[d])
      BY <1>8, PopAsked DEF OnReqClose, EndingInv, Reqs, Close, Req
    <2>2. UNCHANGED <<xfer, file, loop, job>> /\ (Showing(g)' => Showing(g))
      BY <1>8 DEF OnReqClose, OnClose, Showing, stop
    <2> QED
      BY <2>1, <2>2, WorkKept DEF Asked, Usable
  <1>9. ASSUME NEW c \in Conns, RecvClose(c) PROVE WorkInv'
    BY <1>9 DEF WorkInv, WorkAt, Serves, Asked, Showing, Open, Usable, TypeOK, Abortable, RecvClose,
       OnClose, Receives, stop, Selecting
  <1>10. ASSUME NEW c \in Conns, NEW f \in Files, RecvReject(c, f) PROVE WorkInv'
    <2> SUFFICES ASSUME NEW g \in Files PROVE WorkAt(g)'
      BY DEF WorkInv
    <2> USE DEF WorkInv
    <2>1. CASE g = f /\ xfer # "Absent"
      <3>1. file'[f] \in Terminal
        BY <1>10, <2>1 DEF RecvReject, TerminalRecv, Terminate, TypeOK, Terminal, Verdicts
      <3> QED
        BY <2>1, <3>1, WorkEnded
    <2>2. CASE ~(g = f /\ xfer # "Absent")
      <3>1. file'[g] = file[g]
        BY <1>10, <2>2 DEF RecvReject, TerminalRecv, Terminate, TypeOK
      <3>2. UNCHANGED <<xfer, loop, reqs, held, job, fev>> /\ pc[c].op # "remove"
        BY <1>10 DEF RecvReject, Receives, Selecting, Select
      <3>3. \A d \in Conns : d # c => pc'[d] = pc[d]
        BY <1>10 DEF RecvReject, TerminalRecv, TypeOK
      <3>4. \A d \in Conns : Serves(d, g) => Serves(d, g)'
        BY <3>2, <3>3 DEF Serves
      <3> QED
        BY <3>1, <3>2, <3>4, WorkKept DEF Asked, Showing, Open, Usable
    <2> QED
      BY <2>1, <2>2
  <1>11. ASSUME NEW c \in Conns, NEW f \in Files, RecvError(c, f) PROVE WorkInv'
    <2> SUFFICES ASSUME NEW g \in Files PROVE WorkAt(g)'
      BY DEF WorkInv
    <2> USE DEF WorkInv
    <2>1. CASE g = f /\ xfer # "Absent"
      <3>1. file'[f] \in Terminal
        BY <1>11, <2>1 DEF RecvError, TerminalRecv, Terminate, TypeOK, Terminal, Verdicts
      <3> QED
        BY <2>1, <3>1, WorkEnded
    <2>2. CASE ~(g = f /\ xfer # "Absent")
      <3>1. file'[g] = file[g]
        BY <1>11, <2>2 DEF RecvError, TerminalRecv, Terminate, TypeOK
      <3>2. UNCHANGED <<xfer, loop, reqs, held, job, fev>> /\ pc[c].op # "remove"
        BY <1>11 DEF RecvError, Receives, Selecting, Select
      <3>3. \A d \in Conns : d # c => pc'[d] = pc[d]
        BY <1>11 DEF RecvError, TerminalRecv, TypeOK
      <3>4. \A d \in Conns : Serves(d, g) => Serves(d, g)'
        BY <3>2, <3>3 DEF Serves
      <3> QED
        BY <3>1, <3>2, <3>4, WorkKept DEF Asked, Showing, Open, Usable
    <2> QED
      BY <2>1, <2>2
  <1>12. ASSUME NEW c \in Conns, NEW f \in Files, RecvCancel(c, f) PROVE WorkInv'
    BY <1>12 DEF NoCancel, WorkInv, WorkAt, Serves, Asked, Showing, Open, Usable, TypeOK, Abortable, RecvCancel,
       StopTask, Stoppable, Receives, stop, Selecting
  <1>13. ASSUME NEW c \in Conns, LinkBroken(c) PROVE WorkInv'
    BY <1>13 DEF WorkInv, WorkAt, Serves, Asked, Showing, Open, Usable, TypeOK, Abortable, LinkBroken,
       Selecting, Break, At
  <1>14. ASSUME NEW c \in Conns, Drained(c) PROVE WorkInv'
    BY <1>14 DEF WorkInv, WorkAt, Serves, Asked, Showing, Open, Usable, TypeOK, Abortable, Drained,
       Break, At, Remove
  <1>15. ASSUME NEW c \in Conns, RecvCloseRemove(c) PROVE WorkInv'
    BY <1>15 DEF WorkInv, WorkAt, Serves, Asked, Showing, Open, Usable, TypeOK, Abortable,
       RecvCloseRemove, Break, At, Remove
  <1>16. ASSUME NEW c \in Conns, RecvCloseCancel(c) PROVE WorkInv'
    BY <1>16 DEF WorkInv, WorkAt, Serves, Asked, Showing, Open, Usable, TypeOK, Abortable,
       RecvCloseCancel, Break, At
  <1>17. ASSUME NEW c \in Conns, RecvRejectStop(c) PROVE WorkInv'
    <2> SUFFICES ASSUME NEW g \in Files PROVE WorkAt(g)'
      BY DEF WorkInv
    <2> USE DEF WorkInv
    <2> DEFINE f == pc[c].f
    <2>1. UNCHANGED <<xfer, file, loop, reqs, job>> /\ f \in Files
      <3>1. pc[c] \in HandlerPc /\ pc[c].op \in {"rej_stop", "rej_none", "err_stop"}
        BY <1>17 DEF RecvRejectStop, At, TypeOK
      <3>2. f \in Files
        BY <3>1 DEF HandlerPc, Select
      <3> QED
        BY <1>17, <3>2 DEF RecvRejectStop
    <2>2. \A d \in Conns : pc[d].op = "remove" => pc'[d] = pc[d]
      BY <1>17 DEF RecvRejectStop, At, TypeOK
    <2> HIDE DEF f
    <2>3. /\ \A d \in Conns : held[d] \ {f} \subseteq held'[d]
          /\ Showing(g)' => Showing(g)
      BY <1>17, <2>1 DEF RecvRejectStop, StopTask, Showing, stop, TypeOK, f
    <2>4. CASE g = f /\ Usable
      BY <2>1, <2>4, WorkEnded DEF EndingInv, f
    <2>5. CASE ~(g = f /\ Usable)
      BY <2>1, <2>2, <2>3, <2>5, WorkKept DEF Serves, Asked, Open, Usable
    <2> QED
      BY <2>4, <2>5
  <1>18. ASSUME NEW c \in Conns, RecvRejectEmit(c) PROVE WorkInv'
    BY <1>18 DEF WorkInv, WorkAt, Serves, Asked, Showing, Open, Usable, TypeOK, Abortable,
       RecvRejectEmit, At, terminate
  <1>19. ASSUME NEW c \in Conns, RecvErrorEmit(c) PROVE WorkInv'
    BY <1>19 DEF WorkInv, WorkAt, Serves, Asked, Showing, Open, Usable, TypeOK, Abortable,
       RecvErrorEmit, At, terminate
  <1>20. ASSUME NEW c \in Conns, RecvErrorStop(c) PROVE WorkInv'
    <2> SUFFICES ASSUME NEW g \in Files PROVE WorkAt(g)'
      BY DEF WorkInv
    <2> USE DEF WorkInv
    <2> DEFINE f == pc[c].f
    <2>1. UNCHANGED <<xfer, file, loop, reqs, job>> /\ f \in Files
      <3>1. pc[c] \in HandlerPc /\ pc[c].op \in {"rej_stop", "rej_none", "err_stop"}
        BY <1>20 DEF RecvErrorStop, At, TypeOK
      <3>2. f \in Files
        BY <3>1 DEF HandlerPc, Select
      <3> QED
        BY <1>20, <3>2 DEF RecvErrorStop
    <2>2. \A d \in Conns : pc[d].op = "remove" => pc'[d] = pc[d]
      BY <1>20 DEF RecvErrorStop, At, TypeOK
    <2> HIDE DEF f
    <2>3. /\ \A d \in Conns : held[d] \ {f} \subseteq held'[d]
          /\ Showing(g)' => Showing(g)
      BY <1>20, <2>1 DEF RecvErrorStop, StopTask, Showing, stop, TypeOK, f
    <2>4. CASE g = f /\ Usable
      BY <2>1, <2>4, WorkEnded DEF EndingInv, f
    <2>5. CASE ~(g = f /\ Usable)
      BY <2>1, <2>2, <2>3, <2>5, WorkKept DEF Serves, Asked, Open, Usable
    <2> QED
      BY <2>4, <2>5
  <1>21. ASSUME NEW c \in Conns, LoopFinalize(c) PROVE WorkInv'
    <2> SUFFICES ASSUME NEW g \in Files PROVE WorkAt(g)'
      BY DEF WorkInv
    <2> USE DEF WorkInv
    <2>1. \A d \in Conns : reqs'[d] = reqs[d] \/ reqs'[d] = <<>>
      BY <1>21 DEF LoopFinalize, TypeOK
    <2>2. UNCHANGED <<xfer, file, pc, job>> /\ (Showing(g)' => Showing(g)) /\ pc[c] = Select
      BY <1>21 DEF LoopFinalize, Showing, stop, ControlInv
    <2>3. \A d \in Conns : d # c => held'[d] = held[d] /\ loop'[d] = loop[d]
      BY <1>21 DEF LoopFinalize, TypeOK
    <2>4. g \in held[c] => ~Showing(g)'
      BY <1>21 DEF LoopFinalize, Showing, stop
    <2>5. job'[c][g] \notin Abortable
      BY <1>21 DEF LoopFinalize
    <2> QED
      BY <2>1, <2>2, <2>3, <2>4, <2>5, EmptyRange, WorkKept DEF Serves, Asked, Open, Usable, Select
  <1>22. ASSUME NEW c \in Conns, Disconnect(c) PROVE WorkInv'
    BY <1>22 DEF WorkInv, WorkAt, Serves, Asked, Showing, Open, Usable, TypeOK, Abortable, Disconnect
  <1>23. ASSUME NEW c \in Conns, NEW f \in Files, JobAborted(c, f) PROVE WorkInv'
    BY <1>23 DEF WorkInv, WorkAt, Serves, Asked, Showing, Open, Usable, TypeOK, Abortable, JobAborted,
       JobTo
  <1>24. ASSUME NEW c \in Conns, NEW f \in Files, JobPreflight(c, f) PROVE WorkInv'
    <2> SUFFICES ASSUME NEW g \in Files PROVE WorkAt(g)'
      BY DEF WorkInv
    <2> USE DEF WorkInv
    <2>1. UNCHANGED <<xfer, file, loop, pc, reqs, held>> /\ job[c][f] \in Abortable
      BY <1>24 DEF JobPreflight, JobAt, Abortable
    <2>2. \A d \in Conns : job'[d][g] \in Abortable => job[d][g] \in Abortable
      BY <1>24, JobToKeeps, <2>1 DEF JobPreflight
    <2>3. Showing(g)' => Showing(g) \/ g = f
      BY <1>24 DEF JobPreflight, Showing, TypeOK
    <2> QED
      BY <2>1, <2>2, <2>3, WorkKept DEF Serves, Asked, Open, Usable
  <1>25. ASSUME NEW c \in Conns, NEW f \in Files, JobStart(c, f) PROVE WorkInv'
    <2> SUFFICES ASSUME NEW g \in Files PROVE WorkAt(g)'
      BY DEF WorkInv
    <2> USE DEF WorkInv
    <2>1. UNCHANGED <<xfer, file, loop, pc, held>> /\ job[c][f] \in Abortable
      BY <1>25 DEF JobStart, JobAt, Abortable
    <2>2. \A d \in Conns : job'[d][g] \in Abortable => job[d][g] \in Abortable
      BY <1>25, JobToKeeps, <2>1 DEF JobStart
    <2>3. Showing(g)' => Showing(g) \/ g = f
      BY <1>25 DEF JobStart, Showing, TypeOK
    <2>4. \A d \in Conns : Range(reqs'[d]) \subseteq Range(reqs[d]) \cup {Req("Start", f)}
      BY <1>25, PushAsked, ReqsTyped DEF JobStart
    <2>5. \A d \in Conns : Asked("Download", d, g)' => Asked("Download", d, g)
      BY <2>4, DownloadsDiffer DEF Asked
    <2> QED
      BY <2>1, <2>2, <2>3, <2>5, WorkKept DEF Serves, Open, Usable
  <1>26. ASSUME NEW c \in Conns, NEW f \in Files, JobPlace(c, f) PROVE WorkInv'
    BY <1>26 DEF WorkInv, WorkAt, Serves, Asked, Showing, Open, Usable, TypeOK, Abortable, JobPlace,
       JobTo, JobAt
  <1>27. ASSUME NEW c \in Conns, NEW f \in Files, JobCanceled(c, f) PROVE WorkInv'
    BY <1>27 DEF WorkInv, WorkAt, Serves, Asked, Showing, Open, Usable, TypeOK, Abortable,
       JobCanceled, JobTo, JobAt, preflight
  <1>28. ASSUME NEW c \in Conns, NEW f \in Files, JobFail(c, f) PROVE WorkInv'
    BY <1>28 DEF WorkInv, WorkAt, Serves, Asked, Showing, Open, Usable, TypeOK, Abortable, JobFail,
       JobTo
  <1>29. ASSUME NEW c \in Conns, NEW f \in Files, JobPost(c, f) PROVE WorkInv'
    BY <1>29 DEF WorkInv, WorkAt, Serves, Asked, Showing, Open, Usable, TypeOK, Abortable, JobPost,
       Terminate, JobTo, JobAt
  <1>30. ASSUME NEW c \in Conns, NEW f \in Files, JobReport(c, f) PROVE WorkInv'
    <2> SUFFICES ASSUME NEW g \in Files PROVE WorkAt(g)'
      BY DEF WorkInv
    <2> USE DEF WorkInv
    <2>1. UNCHANGED <<xfer, file, loop, pc, held>>
      BY <1>30 DEF JobReport
    <2>2. \A d \in Conns : job'[d][g] \in Abortable => job[d][g] \in Abortable
      BY <1>30, JobToKeeps DEF JobReport, Abortable
    <2>3. Showing(g)' => Showing(g)
      BY <1>30 DEF JobReport, Showing, terminate, TypeOK
    <2>4. \A d \in Conns : Range(reqs'[d]) \subseteq Range(reqs[d]) \cup {Req("Done", f), Req("Fail", f)}
      BY <1>30, PushAsked, ReqsTyped DEF JobReport
    <2>5. \A d \in Conns : Asked("Download", d, g)' => Asked("Download", d, g)
      BY <2>4, DownloadsDiffer DEF Asked
    <2> QED
      BY <2>1, <2>2, <2>3, <2>5, WorkKept DEF Serves, Open, Usable
  <1>31. ASSUME NEW f \in Files, ApiDownload(f) PROVE WorkInv'
    <2> SUFFICES ASSUME NEW g \in Files PROVE WorkAt(g)'
      BY DEF WorkInv
    <2> USE DEF WorkInv
    <2>1. UNCHANGED <<xfer, loop, pc, held, job, fev>> /\ Usable /\ file[f] = "Idle"
      BY <1>31 DEF ApiDownload
    <2>2. \A d \in Conns : Range(reqs'[d]) \subseteq Range(reqs[d]) \cup {Req("Download", f)}
      BY <1>31, PushAsked, ReqsTyped DEF ApiDownload
    <2>3. CASE g = f
      <3>1. file'[f] = "InFlight"
        BY <1>31 DEF ApiDownload, TypeOK
      <3> QED
        BY <2>1, <2>3, <3>1 DEF WorkAt, Showing, Usable
    <2>4. CASE g # f
      <3>1. file'[g] = file[g]
        BY <1>31, <2>4 DEF ApiDownload, TypeOK
      <3> QED
        BY <2>1, <2>2, <2>4, <3>1, WorkKept, DownloadsDiffer DEF Serves, Asked, Showing, Open, Usable
    <2> QED
      BY <2>3, <2>4
  <1>32. ASSUME NEW f \in Files, ApiReject(f) PROVE WorkInv'
    <2> SUFFICES ASSUME NEW g \in Files PROVE WorkAt(g)'
      BY DEF WorkInv
    <2> USE DEF WorkInv
    <2>1. UNCHANGED <<xfer, loop, pc, held, job, fev>>
      BY <1>32 DEF ApiReject
    <2>2. \A d \in Conns : Range(reqs'[d]) \subseteq Range(reqs[d]) \cup {Req("Reject", f)}
      BY <1>32, PushAsked, ReqsTyped DEF ApiReject
    <2>3. CASE g = f
      <3>1. file'[f] \in Terminal
        BY <1>32 DEF ApiReject, Terminate, TypeOK, Terminal, Verdicts
      <3> QED
        BY <2>3, <3>1, WorkEnded
    <2>4. CASE g # f
      <3>1. file'[g] = file[g]
        BY <1>32, <2>4 DEF ApiReject, Terminate, TypeOK
      <3> QED
        BY <2>1, <2>2, <3>1, WorkKept, DownloadsDiffer DEF Serves, Asked, Showing, Open, Usable
    <2> QED
      BY <2>3, <2>4
  <1>33. ASSUME ApiCancel PROVE WorkInv'
    BY <1>33 DEF WorkInv, WorkAt, Serves, Asked, Showing, Open, Usable, TypeOK, Abortable, ApiCancel,
       Calls
  <1>34. ASSUME ApiPurge PROVE WorkInv'
    BY <1>34 DEF WorkInv, WorkAt, Serves, Asked, Showing, Open, Usable, TypeOK, Abortable, ApiPurge,
       Calls
  <1>35. ASSUME ApiRejectEmit PROVE WorkInv'
    BY <1>35 DEF WorkInv, WorkAt, Serves, Asked, Showing, Open, Usable, TypeOK, Abortable,
       ApiRejectEmit, terminate
  <1>36. ASSUME ApiCancelEmit PROVE WorkInv'
    BY <1>36 DEF WorkInv, WorkAt, Serves, Asked, Showing, Open, Usable, TypeOK, Abortable,
       ApiCancelEmit, stop
  <1>37. ASSUME CheckDead PROVE WorkInv'
    BY <1>37 DEF WorkInv, WorkAt, Serves, Asked, Showing, Open, Usable, TypeOK, Abortable, CheckDead,
       Remove
  <1>38. ASSUME CheckGone PROVE WorkInv'
    BY <1>38 DEF WorkInv, WorkAt, Serves, Asked, Showing, Open, Usable, TypeOK, Abortable, CheckGone,
       Remove
  <1>39. ASSUME CheckEmit PROVE WorkInv'
    BY <1>39 DEF WorkInv, WorkAt, Serves, Asked, Showing, Open, Usable, TypeOK, Abortable, CheckEmit
  <1>40. ASSUME EventTask PROVE WorkInv'
    BY <1>40 DEF WorkInv, WorkAt, Serves, Asked, Showing, Open, Usable, TypeOK, Abortable, EventTask
  <1>41. ASSUME Crash PROVE WorkInv'
    BY <1>41 DEF WorkInv, WorkAt, Serves, Asked, Showing, Open, Usable, TypeOK, Abortable, Crash, Down
  <1>42. ASSUME CrashInRegister PROVE WorkInv'
    BY <1>42 DEF WorkInv, WorkAt, Serves, Asked, Showing, Open, Usable, TypeOK, Abortable,
       CrashInRegister, Fresh, Down
  <1>43. ASSUME NEW f \in Files, CrashInTerminate(f) PROVE WorkInv'
    BY <1>43 DEF WorkInv, WorkAt, Serves, Asked, Showing, Open, Usable, TypeOK, Abortable,
       CrashInTerminate, Selecting, Calls, Down
  <1>44. ASSUME CrashInEventTask PROVE WorkInv'
    BY <1>44 DEF WorkInv, WorkAt, Serves, Asked, Showing, Open, Usable, TypeOK, Abortable,
       CrashInEventTask, Down
  <1>45. ASSUME Restart PROVE WorkInv'
    <2> SUFFICES ASSUME NEW g \in Files PROVE WorkAt(g)'
      BY DEF WorkInv
    <2> USE DEF WorkInv
    <2>1. \A d \in Conns : job[d][g] = "none" /\ loop[d] \in {"off", "dead"}
      BY <1>45 DEF Restart, ControlInv, Blank
    <2>2. \A d \in Conns : reqs[d] = <<>>
      BY <2>1 DEF IdleInv, Open
    <2>3. ~Showing(g)'
      BY <1>45 DEF Restart, IdleInv, Showing
    <2> QED
      BY <1>45, <2>1, <2>2, <2>3, EmptyRange DEF Restart, WorkAt, Asked, Abortable
  <1>46. CASE UNCHANGED vars
    BY <1>46 DEF vars, WorkInv, WorkAt, Serves, Asked, Showing, Open, Usable, TypeOK, Abortable
  <1> QED
    BY <1>1, <1>2, <1>3, <1>4, <1>5, <1>6, <1>7, <1>8, <1>9, <1>10, <1>11, <1>12, <1>13, <1>14,
       <1>15, <1>16, <1>17, <1>18, <1>19, <1>20, <1>21, <1>22, <1>23, <1>24, <1>25, <1>26,
       <1>27, <1>28, <1>29, <1>30, <1>31, <1>32, <1>33, <1>34, <1>35, <1>36, <1>37, <1>38,
       <1>39, <1>40, <1>41, <1>42, <1>43, <1>44, <1>45, <1>46
       DEF Next, Connection, Request, Message, Handler, LoopEnd, Job, Detached,
           Api, ApiRest, Check, CrashAny

\* A loop that stays registered and goes on, about a file that has not ended.
LEMMA FlightKept ==
  ASSUME NEW c \in Conns, NEW f \in Files, FlightInv, Live(c, f), file[f] = file'[f],
         f \in aborted'[c] => f \in aborted[c],
         job'[c][f] = "end" => job[c][f] = "end",
         Asked("Download", c, f) => Asked("Download", c, f)' \/ job'[c][f] # "none",
         job[c][f] # "none" => job'[c][f] # "none"
  PROVE  Attended(c, f)'
  BY DEF FlightInv, Attended

LEMMA FlightStep ==
  NoCancel /\ TypeOK /\ ControlInv /\ VerdictInv /\ IdleInv /\ EndingInv /\ WorkInv /\ FlightInv /\ [Next]_vars
    => FlightInv'
  <1> SUFFICES ASSUME NoCancel, TypeOK, ControlInv, VerdictInv, IdleInv, EndingInv, WorkInv,
                  FlightInv, [Next]_vars
           PROVE  FlightInv'
    OBVIOUS
  <1> USE DEF mgr, loops, jobs, events, calls, disk, ghost
  <1>1. ASSUME NEW c \in Conns, RegisterRefused(c) PROVE FlightInv'
    <2> SUFFICES ASSUME NEW d \in Conns, NEW g \in Files, Live(d, g)' PROVE Attended(d, g)'
      BY DEF FlightInv
    <2>1. Live(d, g) /\ file'[g] = file[g]
      BY <1>1 DEF Live, TypeOK, RegisterRefused, Fresh
    <2>2. /\ aborted'[d] = aborted[d] /\ job'[d] = job[d]
          /\ reqs'[d] = reqs[d]
      BY <1>1, <2>1 DEF Live, TypeOK, RegisterRefused, Fresh
    <2> QED
      BY <2>1, <2>2, FlightKept DEF Asked
  <1>2. ASSUME NEW c \in Conns, RegisterResume(c) PROVE FlightInv'
    <2> SUFFICES ASSUME NEW d \in Conns, NEW g \in Files, Live(d, g)' PROVE Attended(d, g)'
      BY DEF FlightInv
    <2>1. PICK s \in Orders(Unsettled) :
            reqs' = [reqs EXCEPT ![c] = IF xfer = "Canceled"
                                        THEN Append([i \in DOMAIN s |-> PendingReq(s[i])], Close)
                                        ELSE [i \in DOMAIN s |-> PendingReq(s[i])]]
      BY <1>2 DEF RegisterResume
    <2>2. CASE xfer = "Canceled"
      <3>1. conn' = conn /\ conn # NoConn
        BY <1>2, <2>2, ConnsAssumption DEF RegisterResume, Live
      <3> QED
        BY <2>2, <3>1 DEF EndingInv, Usable
    <2>3. CASE xfer # "Canceled"
      <3> DEFINE m == [i \in DOMAIN s |-> PendingReq(s[i])]
      <3>1. d = c /\ reqs'[c] = m /\ loop[c] = "off" /\ UNCHANGED <<file, job, aborted>>
        BY <1>2, <2>1, <2>3 DEF RegisterResume, Fresh, Live, TypeOK
      <3>2. \A f \in Files : job[c][f] = "none" /\ f \notin aborted[c]
        BY <3>1 DEF IdleInv, Abortable
      <3>3. ASSUME file[g] = "InFlight" PROVE Asked("Download", c, g)'
        <4>1. g \in Unsettled /\ Unsettled \subseteq Files
          BY <3>3 DEF Unsettled
        <4>2. PICK i \in DOMAIN s : s[i] = g
          BY <2>1, <4>1, OrdersComplete
        <4>3. m[i] = Req("Download", g) /\ i \in DOMAIN m
          BY <3>3, <4>2 DEF PendingReq
        <4> HIDE DEF m
        <4> QED
          BY <3>1, <4>3 DEF Asked, Range
      <3> QED
        BY <3>1, <3>2, <3>3 DEF Attended
    <2> QED
      BY <2>2, <2>3
  <1>3. ASSUME NEW c \in Conns, RegisterClosed(c) PROVE FlightInv'
    <2> SUFFICES ASSUME NEW d \in Conns, NEW g \in Files, Live(d, g)' PROVE Attended(d, g)'
      BY DEF FlightInv
    <2>1. conn' = conn /\ conn # NoConn /\ xfer = "Absent"
      BY <1>3, ConnsAssumption DEF RegisterClosed, Live
    <2> QED
      BY <2>1 DEF EndingInv, Usable
  <1>4. ASSUME NEW c \in Conns, RegisterNew(c) PROVE FlightInv'
    <2> SUFFICES ASSUME NEW d \in Conns, NEW g \in Files, Live(d, g)' PROVE Attended(d, g)'
      BY DEF FlightInv
    <2>1. \A f \in Files : job[d][f] = "none"
      BY <1>4 DEF RegisterNew, ControlInv, Blank, inserts_transfer
    <2>2. g \notin aborted[d]
      BY <2>1 DEF IdleInv, Abortable
    <2> QED
      BY <1>4, <2>1, <2>2 DEF RegisterNew, Attended
  <1>5. ASSUME NEW c \in Conns, OnReqDownload(c) PROVE FlightInv'
    <2> SUFFICES ASSUME NEW d \in Conns, NEW g \in Files, Live(d, g)' PROVE Attended(d, g)'
      BY DEF FlightInv
    <2> DEFINE f == Head(reqs[c]).f
    <2>1. /\ \A x \in Reqs : x \in Range(reqs[d]) => x \in Range(reqs'[d]) \/ (d = c /\ x = Req("Download", f))
          /\ f \in Files
      <3>1. Head(reqs[c]) \in Reqs /\ Head(reqs[c]).k = "Download"
        BY <1>5, PopAsked DEF OnReqDownload
      <3>2. f \in Files /\ Head(reqs[c]) = Req("Download", f)
        BY <3>1 DEF Reqs, Req
      <3> QED
        BY <1>5, <3>2, PopAsked DEF OnReqDownload
    <2>2. /\ Live(d, g) /\ file'[g] = file[g]
      BY <1>5 DEF OnReqDownload, Live, Break, TypeOK
    <2>3. Asked("Download", d, g) => Asked("Download", d, g)' \/ (d = c /\ g = f)
      BY <2>1, DownloadsDiffer, ReqsTyped DEF Asked
    <2> HIDE DEF f
    <2>4. job'[d][g] = job[d][g] \/ job'[d][g] = "spawned"
      <3>1. d # c => job'[d] = job[d]
        BY <1>5, <2>1 DEF OnReqDownload, TypeOK
      <3>2. job'[c][g] = job[c][g] \/ job'[c][g] = "spawned"
        BY <1>5, <2>1 DEF OnReqDownload, TypeOK, f
      <3> QED
        BY <3>1, <3>2
    <2>5. d = c /\ g = f => job'[d][g] # "none"
      <3>1. CASE Stoppable(c, f)
        BY <1>5, <2>1, <3>1 DEF OnReqDownload, Stoppable, IdleInv, f
      <3>2. CASE ~Stoppable(c, f)
        <4>1. Usable
          BY <2>2, ConnsAssumption DEF EndingInv, Live
        <4> QED
          BY <1>5, <2>1, <3>2, <4>1 DEF OnReqDownload, TypeOK, f
      <3> QED
        BY <3>1, <3>2
    <2>6. g \in aborted'[d] => g \in aborted[d]
      BY <1>5, <2>2 DEF OnReqDownload, Break, Live, TypeOK
    <2> QED
      BY <2>2, <2>3, <2>4, <2>5, <2>6, FlightKept
  <1>6. ASSUME NEW c \in Conns, OnReqSend(c) PROVE FlightInv'
    <2> SUFFICES ASSUME NEW d \in Conns, NEW g \in Files, Live(d, g)' PROVE Attended(d, g)'
      BY DEF FlightInv
    <2>1. Live(d, g) /\ file'[g] = file[g]
      BY <1>6 DEF Live, TypeOK, OnReqSend

    <2>2. /\ aborted'[d] = aborted[d] /\ job'[d] = job[d]
      BY <1>6 DEF OnReqSend
    <2>3. PICK k \in {"Start", "Done", "Fail"} : HasReq(c, k) /\ Pop(c)
      BY <1>6 DEF OnReqSend
    <2>4. \A x \in Reqs : x \in Range(reqs[d]) => x \in Range(reqs'[d]) \/ x.k = k
      BY <2>3, PopAsked
    <2>5. Req("Download", g) \in Reqs /\ Req("Download", g).k # k
      BY ReqsTyped DEF Req
    <2> QED
      BY <2>1, <2>2, <2>4, <2>5, FlightKept DEF Asked
  <1>7. ASSUME NEW c \in Conns, OnReqReject(c) PROVE FlightInv'
    <2> SUFFICES ASSUME NEW d \in Conns, NEW g \in Files, Live(d, g)' PROVE Attended(d, g)'
      BY DEF FlightInv
    <2> DEFINE f == Head(reqs[c]).f
    <2>1. /\ \A x \in Reqs : x \in Range(reqs[d]) => x \in Range(reqs'[d]) \/ x.k = "Reject"
          /\ f \in Files /\ Asked("Reject", c, f)
      <3>1. Head(reqs[c]) \in Range(reqs[c]) /\ Head(reqs[c]) \in Reqs /\ Head(reqs[c]).k = "Reject"
        BY <1>7, PopAsked DEF OnReqReject
      <3>2. f \in Files /\ Head(reqs[c]) = Req("Reject", f)
        BY <3>1 DEF Reqs, Req
      <3> QED
        BY <1>7, <3>1, <3>2, PopAsked DEF OnReqReject, Asked
    <2>2. Live(d, g) /\ file'[g] = file[g] /\ job'[d] = job[d]
      BY <1>7 DEF OnReqReject, Live
    <2>3. g # f \/ d # c
      BY <2>1, <2>2, ConnsAssumption DEF EndingInv, Live
    <2>4. Asked("Download", d, g) => Asked("Download", d, g)'
      BY <2>1, ReqsTyped DEF Asked, Req
    <2> HIDE DEF f
    <2>5. g \in aborted'[d] => g \in aborted[d]
      BY <1>7, <2>1, <2>3 DEF OnReqReject, StopTask, TypeOK, f
    <2> QED
      BY <2>2, <2>4, <2>5, FlightKept
  <1>8. ASSUME NEW c \in Conns, OnReqClose(c) PROVE FlightInv'
    <2> SUFFICES ASSUME NEW d \in Conns, NEW g \in Files, Live(d, g)' PROVE Attended(d, g)'
      BY DEF FlightInv
    <2>1. ~Usable
      BY <1>8, PopAsked DEF OnReqClose, EndingInv, Reqs, Close, Req
    <2>2. conn' = conn /\ conn # NoConn
      BY <1>8, ConnsAssumption DEF OnReqClose, Live
    <2> QED
      BY <2>1, <2>2 DEF EndingInv
  <1>9. ASSUME NEW c \in Conns, RecvClose(c) PROVE FlightInv'
    <2> SUFFICES ASSUME NEW d \in Conns, NEW g \in Files, Live(d, g)' PROVE Attended(d, g)'
      BY DEF FlightInv
    <2>1. Live(d, g) /\ file'[g] = file[g]
      BY <1>9 DEF Live, TypeOK, RecvClose, OnClose, Receives, stop, Selecting
    <2>2. /\ aborted'[d] = aborted[d] /\ job'[d] = job[d]
          /\ reqs'[d] = reqs[d]
      BY <1>9, <2>1 DEF Live, TypeOK, RecvClose, OnClose, Receives, stop, Selecting
    <2> QED
      BY <2>1, <2>2, FlightKept DEF Asked
  <1>10. ASSUME NEW c \in Conns, NEW f \in Files, RecvReject(c, f) PROVE FlightInv'
    <2> SUFFICES ASSUME NEW d \in Conns, NEW g \in Files, Live(d, g)' PROVE Attended(d, g)'
      BY DEF FlightInv
    <2>0. pc[c] = Select /\ UNCHANGED <<conn, loop>> /\ \A e \in Conns : e # c => pc'[e] = pc[e]
      BY <1>10 DEF RecvReject, Receives, Selecting, TerminalRecv, TypeOK
    <2>1. Live(d, g) /\ file'[g] = file[g]
      <3>1. file'[g] = file[g]
        BY <1>10 DEF Live, TypeOK, RecvReject, TerminalRecv, Terminate, Terminal, Verdicts
      <3> QED
        BY <2>0, <3>1 DEF Live, Select
    <2>2. /\ aborted'[d] = aborted[d] /\ job'[d] = job[d]
          /\ reqs'[d] = reqs[d]
      BY <1>10 DEF RecvReject
    <2> QED
      BY <2>1, <2>2, FlightKept DEF Asked
  <1>11. ASSUME NEW c \in Conns, NEW f \in Files, RecvError(c, f) PROVE FlightInv'
    <2> SUFFICES ASSUME NEW d \in Conns, NEW g \in Files, Live(d, g)' PROVE Attended(d, g)'
      BY DEF FlightInv
    <2>0. pc[c] = Select /\ UNCHANGED <<conn, loop>> /\ \A e \in Conns : e # c => pc'[e] = pc[e]
      BY <1>11 DEF RecvError, Receives, Selecting, TerminalRecv, TypeOK
    <2>1. Live(d, g) /\ file'[g] = file[g]
      <3>1. file'[g] = file[g]
        BY <1>11 DEF Live, TypeOK, RecvError, TerminalRecv, Terminate, Terminal, Verdicts
      <3> QED
        BY <2>0, <3>1 DEF Live, Select
    <2>2. /\ aborted'[d] = aborted[d] /\ job'[d] = job[d]
          /\ reqs'[d] = reqs[d]
      BY <1>11 DEF RecvError
    <2> QED
      BY <2>1, <2>2, FlightKept DEF Asked
  <1>12. ASSUME NEW c \in Conns, NEW f \in Files, RecvCancel(c, f) PROVE FlightInv'
    BY <1>12 DEF RecvCancel, Receives, NoCancel
  <1>13. ASSUME NEW c \in Conns, LinkBroken(c) PROVE FlightInv'
    <2> SUFFICES ASSUME NEW d \in Conns, NEW g \in Files, Live(d, g)' PROVE Attended(d, g)'
      BY DEF FlightInv
    <2>1. d # c /\ Live(d, g) /\ file'[g] = file[g]
      BY <1>13 DEF LinkBroken, Break, Live, TypeOK
    <2>2. aborted'[d] = aborted[d] /\ job'[d] = job[d] /\ reqs'[d] = reqs[d]
      BY <1>13, <2>1 DEF LinkBroken, Break, TypeOK
    <2> QED
      BY <2>1, <2>2, FlightKept DEF Asked
  <1>14. ASSUME NEW c \in Conns, Drained(c) PROVE FlightInv'
    <2> SUFFICES ASSUME NEW d \in Conns, NEW g \in Files, Live(d, g)' PROVE Attended(d, g)'
      BY DEF FlightInv
    <2>1. conn' = NoConn \/ (conn' = conn /\ xfer = "Absent")
      BY <1>14 DEF Drained, Break, At, Remove
    <2>2. conn' = NoConn
      BY <2>1 DEF EndingInv, Usable
    <2> QED
      BY <2>2, ConnsAssumption DEF Live
  <1>15. ASSUME NEW c \in Conns, RecvCloseRemove(c) PROVE FlightInv'
    <2> SUFFICES ASSUME NEW d \in Conns, NEW g \in Files, Live(d, g)' PROVE Attended(d, g)'
      BY DEF FlightInv
    <2>1. conn' = NoConn \/ (conn' = conn /\ xfer = "Absent")
      BY <1>15 DEF RecvCloseRemove, Break, At, Remove
    <2>2. conn' = NoConn
      BY <2>1 DEF EndingInv, Usable
    <2> QED
      BY <2>2, ConnsAssumption DEF Live
  <1>16. ASSUME NEW c \in Conns, RecvCloseCancel(c) PROVE FlightInv'
    <2> SUFFICES ASSUME NEW d \in Conns, NEW g \in Files, Live(d, g)' PROVE Attended(d, g)'
      BY DEF FlightInv
    <2>1. pc[c].op = "cancel" /\ conn' = conn
      BY <1>16 DEF RecvCloseCancel, At
    <2>2. conn' = NoConn
      BY <2>1 DEF EndingInv
    <2> QED
      BY <2>2, ConnsAssumption DEF Live
  <1>17. ASSUME NEW c \in Conns, RecvRejectStop(c) PROVE FlightInv'
    <2> SUFFICES ASSUME NEW d \in Conns, NEW g \in Files, Live(d, g)' PROVE Attended(d, g)'
      BY DEF FlightInv
    <2> DEFINE f == pc[c].f
    <2>1. Live(d, g) /\ file'[g] = file[g] /\ f \in Files
      <3>1. pc[c] \in HandlerPc /\ pc[c].op \in {"rej_stop", "rej_none", "err_stop"}
        BY <1>17 DEF RecvRejectStop, At, TypeOK
      <3>2. f \in Files
        BY <3>1 DEF HandlerPc, Select
      <3> QED
        BY <1>17, <3>1, <3>2 DEF RecvRejectStop, Live, TypeOK
    <2>2. Usable
      BY <2>1, ConnsAssumption DEF EndingInv, Live
    <2>3. g # f \/ d # c
      BY <2>1, <2>2 DEF EndingInv, Live
    <2> HIDE DEF f
    <2>4. (g \in aborted'[d] => g \in aborted[d]) /\ job'[d] = job[d] /\ reqs'[d] = reqs[d]
      BY <1>17, <2>3 DEF RecvRejectStop, StopTask, TypeOK, f
    <2> QED
      BY <2>1, <2>4, FlightKept DEF Asked
  <1>18. ASSUME NEW c \in Conns, RecvRejectEmit(c) PROVE FlightInv'
    <2> SUFFICES ASSUME NEW d \in Conns, NEW g \in Files, Live(d, g)' PROVE Attended(d, g)'
      BY DEF FlightInv
    <2>1. Live(d, g) /\ file'[g] = file[g]
      BY <1>18 DEF Live, TypeOK, RecvRejectEmit, At, terminate
    <2>2. /\ aborted'[d] = aborted[d] /\ job'[d] = job[d]
          /\ reqs'[d] = reqs[d]
      BY <1>18, <2>1 DEF Live, TypeOK, RecvRejectEmit, At, terminate
    <2> QED
      BY <2>1, <2>2, FlightKept DEF Asked
  <1>19. ASSUME NEW c \in Conns, RecvErrorEmit(c) PROVE FlightInv'
    <2> SUFFICES ASSUME NEW d \in Conns, NEW g \in Files, Live(d, g)' PROVE Attended(d, g)'
      BY DEF FlightInv
    <2>1. Live(d, g) /\ file'[g] = file[g]
      BY <1>19 DEF Live, TypeOK, RecvErrorEmit, At, terminate
    <2>2. /\ aborted'[d] = aborted[d] /\ job'[d] = job[d]
          /\ reqs'[d] = reqs[d]
      BY <1>19, <2>1 DEF Live, TypeOK, RecvErrorEmit, At, terminate
    <2> QED
      BY <2>1, <2>2, FlightKept DEF Asked
  <1>20. ASSUME NEW c \in Conns, RecvErrorStop(c) PROVE FlightInv'
    <2> SUFFICES ASSUME NEW d \in Conns, NEW g \in Files, Live(d, g)' PROVE Attended(d, g)'
      BY DEF FlightInv
    <2> DEFINE f == pc[c].f
    <2>1. Live(d, g) /\ file'[g] = file[g] /\ f \in Files
      <3>1. pc[c] \in HandlerPc /\ pc[c].op \in {"rej_stop", "rej_none", "err_stop"}
        BY <1>20 DEF RecvErrorStop, At, TypeOK
      <3>2. f \in Files
        BY <3>1 DEF HandlerPc, Select
      <3> QED
        BY <1>20, <3>1, <3>2 DEF RecvErrorStop, Live, TypeOK
    <2>2. Usable
      BY <2>1, ConnsAssumption DEF EndingInv, Live
    <2>3. g # f \/ d # c
      BY <2>1, <2>2 DEF EndingInv, Live
    <2> HIDE DEF f
    <2>4. (g \in aborted'[d] => g \in aborted[d]) /\ job'[d] = job[d] /\ reqs'[d] = reqs[d]
      BY <1>20, <2>3 DEF RecvErrorStop, StopTask, TypeOK, f
    <2> QED
      BY <2>1, <2>4, FlightKept DEF Asked
  <1>21. ASSUME NEW c \in Conns, LoopFinalize(c) PROVE FlightInv'
    <2> SUFFICES ASSUME NEW d \in Conns, NEW g \in Files, Live(d, g)' PROVE Attended(d, g)'
      BY DEF FlightInv
    <2>1. d # c /\ Live(d, g) /\ file'[g] = file[g]
      BY <1>21 DEF LoopFinalize, Live, TypeOK
    <2>2. aborted'[d] = aborted[d] /\ job'[d] = job[d] /\ reqs'[d] = reqs[d]
      BY <1>21, <2>1 DEF LoopFinalize, TypeOK
    <2> QED
      BY <2>1, <2>2, FlightKept DEF Asked
  <1>22. ASSUME NEW c \in Conns, Disconnect(c) PROVE FlightInv'
    <2> SUFFICES ASSUME NEW d \in Conns, NEW g \in Files, Live(d, g)' PROVE Attended(d, g)'
      BY DEF FlightInv
    <2>1. conn' = NoConn
      BY <1>22 DEF Disconnect
    <2> QED
      BY <2>1, ConnsAssumption DEF Live
  <1>23. ASSUME NEW c \in Conns, NEW f \in Files, JobAborted(c, f) PROVE FlightInv'
    <2> SUFFICES ASSUME NEW d \in Conns, NEW g \in Files, Live(d, g)' PROVE Attended(d, g)'
      BY DEF FlightInv
    <2>1. Live(d, g) /\ file'[g] = file[g] /\ reqs' = reqs
      BY <1>23 DEF JobAborted, Live
    <2>2. d # c \/ g # f
      BY <1>23, <2>1 DEF JobAborted, FlightInv, Attended
    <2>3. job'[d][g] = job[d][g] /\ (g \in aborted'[d] => g \in aborted[d])
      BY <1>23, <2>2 DEF JobAborted, JobTo, TypeOK
    <2> QED
      BY <2>1, <2>3, FlightKept DEF Asked
  <1>24. ASSUME NEW c \in Conns, NEW f \in Files, JobPreflight(c, f) PROVE FlightInv'
    <2> SUFFICES ASSUME NEW d \in Conns, NEW g \in Files, Live(d, g)' PROVE Attended(d, g)'
      BY DEF FlightInv
    <2>1. Live(d, g) /\ file'[g] = file[g]
      BY <1>24 DEF JobPreflight, Live
    <2>2. reqs' = reqs
      BY <1>24 DEF JobPreflight
    <2>3. job'[d][g] = job[d][g] \/ job'[d][g] = "preflight"
      BY <1>24 DEF JobPreflight, JobTo, TypeOK
    <2>4. g \in aborted'[d] => g \in aborted[d]
      BY <1>24 DEF JobPreflight, JobTo, TypeOK
    <2> QED
      BY <2>1, <2>2, <2>3, <2>4, FlightKept DEF Asked
  <1>25. ASSUME NEW c \in Conns, NEW f \in Files, JobStart(c, f) PROVE FlightInv'
    <2> SUFFICES ASSUME NEW d \in Conns, NEW g \in Files, Live(d, g)' PROVE Attended(d, g)'
      BY DEF FlightInv
    <2>1. Live(d, g) /\ file'[g] = file[g]
      BY <1>25 DEF JobStart, Live
    <2>2. Range(reqs[d]) \subseteq Range(reqs'[d])
      BY <1>25, PushAsked, ReqsTyped DEF JobStart
    <2>3. job'[d][g] = job[d][g] \/ job'[d][g] = "stream"
      BY <1>25 DEF JobStart, JobTo, TypeOK
    <2>4. g \in aborted'[d] => g \in aborted[d]
      BY <1>25 DEF JobStart, JobTo, TypeOK
    <2> QED
      BY <2>1, <2>2, <2>3, <2>4, FlightKept DEF Asked
  <1>26. ASSUME NEW c \in Conns, NEW f \in Files, JobPlace(c, f) PROVE FlightInv'
    <2> SUFFICES ASSUME NEW d \in Conns, NEW g \in Files, Live(d, g)' PROVE Attended(d, g)'
      BY DEF FlightInv
    <2>1. Live(d, g) /\ file'[g] = file[g]
      BY <1>26 DEF JobPlace, Live
    <2>2. reqs' = reqs
      BY <1>26 DEF JobPlace
    <2>3. job'[d][g] = job[d][g] \/ job'[d][g] = "ok"
      BY <1>26 DEF JobPlace, JobTo, TypeOK
    <2>4. g \in aborted'[d] => g \in aborted[d]
      BY <1>26 DEF JobPlace, JobTo, TypeOK
    <2> QED
      BY <2>1, <2>2, <2>3, <2>4, FlightKept DEF Asked
  <1>27. ASSUME NEW c \in Conns, NEW f \in Files, JobCanceled(c, f) PROVE FlightInv'
    <2> SUFFICES ASSUME NEW d \in Conns, NEW g \in Files, Live(d, g)' PROVE Attended(d, g)'
      BY DEF FlightInv
    <2>1. Live(d, g) /\ file'[g] = file[g] /\ reqs' = reqs
      BY <1>27 DEF JobCanceled, Live
    <2>2. Usable /\ xfer # "Absent"
      BY <2>1, ConnsAssumption DEF EndingInv, Live, Usable
    <2>3. d # c \/ g # f
      <3>1. SUFFICES ASSUME d = c, g = f PROVE FALSE
        OBVIOUS
      <3>2. job[c][f] \in Abortable /\ f \notin held[c] /\ pc[c].op # "remove"
        BY <1>27, <2>1, <2>2, <3>1 DEF JobCanceled, JobAt, Abortable, Live
      <3>3. file[f] = "InFlight"
        BY <2>1, <2>2, <3>1, <3>2 DEF WorkInv, WorkAt, Live, TypeOK, LocalFileState
      <3> QED
        BY <3>2, <3>3 DEF WorkInv, WorkAt, Serves
    <2>4. job'[d][g] = job[d][g] /\ (g \in aborted'[d] => g \in aborted[d])
      BY <1>27, <2>3 DEF JobCanceled, JobTo, TypeOK
    <2> QED
      BY <2>1, <2>4, FlightKept DEF Asked
  <1>28. ASSUME NEW c \in Conns, NEW f \in Files, JobFail(c, f) PROVE FlightInv'
    <2> SUFFICES ASSUME NEW d \in Conns, NEW g \in Files, Live(d, g)' PROVE Attended(d, g)'
      BY DEF FlightInv
    <2>1. Live(d, g) /\ file'[g] = file[g]
      BY <1>28 DEF JobFail, Live
    <2>2. reqs' = reqs
      BY <1>28 DEF JobFail
    <2>3. job'[d][g] = job[d][g] \/ job'[d][g] = "bad"
      BY <1>28 DEF JobFail, JobTo, TypeOK
    <2>4. g \in aborted'[d] => g \in aborted[d]
      BY <1>28 DEF JobFail, JobTo, TypeOK
    <2> QED
      BY <2>1, <2>2, <2>3, <2>4, FlightKept DEF Asked
  <1>29. ASSUME NEW c \in Conns, NEW f \in Files, JobPost(c, f) PROVE FlightInv'
    <2> SUFFICES ASSUME NEW d \in Conns, NEW g \in Files, Live(d, g)' PROVE Attended(d, g)'
      BY DEF FlightInv
    <2>1. Live(d, g) /\ file'[g] = file[g]
      BY <1>29 DEF JobPost, Live, Terminate, TypeOK, Terminal, Verdicts
    <2>2. job'[d][g] = job[d][g] \/ job'[d][g] \in {"okpost", "badpost"}
      BY <1>29 DEF JobPost, JobTo, TypeOK
    <2>3. (g \in aborted'[d] => g \in aborted[d]) /\ reqs' = reqs
      BY <1>29 DEF JobPost, JobTo, TypeOK
    <2> QED
      BY <2>1, <2>2, <2>3, FlightKept DEF Asked
  <1>30. ASSUME NEW c \in Conns, NEW f \in Files, JobReport(c, f) PROVE FlightInv'
    <2> SUFFICES ASSUME NEW d \in Conns, NEW g \in Files, Live(d, g)' PROVE Attended(d, g)'
      BY DEF FlightInv
    <2>1. Live(d, g) /\ file'[g] = file[g] /\ up
      BY <1>30 DEF JobReport, JobAt, Live
    <2>2. Usable
      BY <2>1, ConnsAssumption DEF EndingInv, Live
    <2>3. d # c \/ g # f
      BY <1>30, <2>1, <2>2 DEF JobReport, JobAt, VerdictInv, Speaks, Posted, Live
    <2>4. job'[d][g] = job[d][g] /\ (g \in aborted'[d] => g \in aborted[d])
      BY <1>30, <2>3 DEF JobReport, JobTo, TypeOK
    <2>5. Range(reqs[d]) \subseteq Range(reqs'[d])
      BY <1>30, PushAsked, ReqsTyped DEF JobReport
    <2> QED
      BY <2>1, <2>4, <2>5, FlightKept DEF Asked
  <1>31. ASSUME NEW f \in Files, ApiDownload(f) PROVE FlightInv'
    <2> SUFFICES ASSUME NEW d \in Conns, NEW g \in Files, Live(d, g)' PROVE Attended(d, g)'
      BY DEF FlightInv
    <2>1. Live(d, g) /\ UNCHANGED <<job, aborted, loop>>
      BY <1>31 DEF ApiDownload, Live, TypeOK, Terminal, Verdicts
    <2>2. Range(reqs[d]) \subseteq Range(reqs'[d]) /\ Req("Download", f) \in Range(reqs'[d])
      BY <1>31, <2>1, PushAsked, ReqsTyped DEF ApiDownload, Live, Open
    <2>3. CASE g = f
      BY <2>1, <2>2, <2>3 DEF FlightInv, Attended, Asked
    <2>4. CASE g # f
      <3>1. file'[g] = file[g]
        BY <1>31, <2>4 DEF ApiDownload, TypeOK
      <3> QED
        BY <2>1, <2>2, <3>1, FlightKept DEF Asked
    <2> QED
      BY <2>3, <2>4
  <1>32. ASSUME NEW f \in Files, ApiReject(f) PROVE FlightInv'
    <2> SUFFICES ASSUME NEW d \in Conns, NEW g \in Files, Live(d, g)' PROVE Attended(d, g)'
      BY DEF FlightInv
    <2>1. Live(d, g) /\ file'[g] = file[g] /\ UNCHANGED <<job, aborted>>
      BY <1>32 DEF ApiReject, Terminate, Live, TypeOK, Terminal, Verdicts
    <2>2. Range(reqs[d]) \subseteq Range(reqs'[d])
      BY <1>32, PushAsked, ReqsTyped DEF ApiReject
    <2> QED
      BY <2>1, <2>2, FlightKept DEF Asked
  <1>33. ASSUME ApiCancel PROVE FlightInv'
    <2> SUFFICES ASSUME NEW d \in Conns, NEW g \in Files, Live(d, g)' PROVE Attended(d, g)'
      BY DEF FlightInv
    <2>1. conn' = NoConn
      BY <1>33 DEF ApiCancel, Calls
    <2> QED
      BY <2>1, ConnsAssumption DEF Live
  <1>34. ASSUME ApiPurge PROVE FlightInv'
    <2> SUFFICES ASSUME NEW d \in Conns, NEW g \in Files, Live(d, g)' PROVE Attended(d, g)'
      BY DEF FlightInv
    <2>1. Live(d, g) /\ file'[g] = file[g]
      BY <1>34 DEF Live, TypeOK, ApiPurge, Calls
    <2>2. /\ aborted'[d] = aborted[d] /\ job'[d] = job[d]
          /\ reqs'[d] = reqs[d]
      BY <1>34, <2>1 DEF Live, TypeOK, ApiPurge, Calls
    <2> QED
      BY <2>1, <2>2, FlightKept DEF Asked
  <1>35. ASSUME ApiRejectEmit PROVE FlightInv'
    <2> SUFFICES ASSUME NEW d \in Conns, NEW g \in Files, Live(d, g)' PROVE Attended(d, g)'
      BY DEF FlightInv
    <2>1. Live(d, g) /\ file'[g] = file[g]
      BY <1>35 DEF Live, TypeOK, ApiRejectEmit, terminate
    <2>2. /\ aborted'[d] = aborted[d] /\ job'[d] = job[d]
          /\ reqs'[d] = reqs[d]
      BY <1>35, <2>1 DEF Live, TypeOK, ApiRejectEmit, terminate
    <2> QED
      BY <2>1, <2>2, FlightKept DEF Asked
  <1>36. ASSUME ApiCancelEmit PROVE FlightInv'
    <2> SUFFICES ASSUME NEW d \in Conns, NEW g \in Files, Live(d, g)' PROVE Attended(d, g)'
      BY DEF FlightInv
    <2>1. Live(d, g) /\ file'[g] = file[g]
      BY <1>36 DEF Live, TypeOK, ApiCancelEmit, stop
    <2>2. /\ aborted'[d] = aborted[d] /\ job'[d] = job[d]
          /\ reqs'[d] = reqs[d]
      BY <1>36, <2>1 DEF Live, TypeOK, ApiCancelEmit, stop
    <2> QED
      BY <2>1, <2>2, FlightKept DEF Asked
  <1>37. ASSUME CheckDead PROVE FlightInv'
    <2> SUFFICES ASSUME NEW d \in Conns, NEW g \in Files, Live(d, g)' PROVE Attended(d, g)'
      BY DEF FlightInv
    <2>1. conn' = NoConn \/ (conn' = conn /\ xfer = "Absent")
      BY <1>37 DEF CheckDead, Remove
    <2>2. conn' = NoConn
      BY <2>1 DEF EndingInv, Usable
    <2> QED
      BY <2>2, ConnsAssumption DEF Live
  <1>38. ASSUME CheckGone PROVE FlightInv'
    <2> SUFFICES ASSUME NEW d \in Conns, NEW g \in Files, Live(d, g)' PROVE Attended(d, g)'
      BY DEF FlightInv
    <2>1. conn' = NoConn
      BY <1>38 DEF CheckGone, Remove
    <2> QED
      BY <2>1, ConnsAssumption DEF Live
  <1>39. ASSUME CheckEmit PROVE FlightInv'
    <2> SUFFICES ASSUME NEW d \in Conns, NEW g \in Files, Live(d, g)' PROVE Attended(d, g)'
      BY DEF FlightInv
    <2>1. Live(d, g) /\ file'[g] = file[g]
      BY <1>39 DEF Live, TypeOK, CheckEmit
    <2>2. /\ aborted'[d] = aborted[d] /\ job'[d] = job[d]
          /\ reqs'[d] = reqs[d]
      BY <1>39, <2>1 DEF Live, TypeOK, CheckEmit
    <2> QED
      BY <2>1, <2>2, FlightKept DEF Asked
  <1>40. ASSUME EventTask PROVE FlightInv'
    <2> SUFFICES ASSUME NEW d \in Conns, NEW g \in Files, Live(d, g)' PROVE Attended(d, g)'
      BY DEF FlightInv
    <2>1. Live(d, g) /\ file'[g] = file[g]
      BY <1>40 DEF Live, TypeOK, EventTask
    <2>2. /\ aborted'[d] = aborted[d] /\ job'[d] = job[d]
          /\ reqs'[d] = reqs[d]
      BY <1>40, <2>1 DEF Live, TypeOK, EventTask
    <2> QED
      BY <2>1, <2>2, FlightKept DEF Asked
  <1>41. ASSUME Crash PROVE FlightInv'
    <2> SUFFICES ASSUME NEW d \in Conns, NEW g \in Files, Live(d, g)' PROVE Attended(d, g)'
      BY DEF FlightInv
    <2>1. conn' = NoConn
      BY <1>41 DEF Crash, Down
    <2> QED
      BY <2>1, ConnsAssumption DEF Live
  <1>42. ASSUME CrashInRegister PROVE FlightInv'
    <2> SUFFICES ASSUME NEW d \in Conns, NEW g \in Files, Live(d, g)' PROVE Attended(d, g)'
      BY DEF FlightInv
    <2>1. conn' = NoConn
      BY <1>42 DEF CrashInRegister, Fresh, Down
    <2> QED
      BY <2>1, ConnsAssumption DEF Live
  <1>43. ASSUME NEW f \in Files, CrashInTerminate(f) PROVE FlightInv'
    <2> SUFFICES ASSUME NEW d \in Conns, NEW g \in Files, Live(d, g)' PROVE Attended(d, g)'
      BY DEF FlightInv
    <2>1. conn' = NoConn
      BY <1>43 DEF CrashInTerminate, Selecting, Calls, Down
    <2> QED
      BY <2>1, ConnsAssumption DEF Live
  <1>44. ASSUME CrashInEventTask PROVE FlightInv'
    <2> SUFFICES ASSUME NEW d \in Conns, NEW g \in Files, Live(d, g)' PROVE Attended(d, g)'
      BY DEF FlightInv
    <2>1. conn' = NoConn
      BY <1>44 DEF CrashInEventTask, Down
    <2> QED
      BY <2>1, ConnsAssumption DEF Live
  <1>45. ASSUME Restart PROVE FlightInv'
    <2> SUFFICES ASSUME NEW d \in Conns, NEW g \in Files, Live(d, g)' PROVE Attended(d, g)'
      BY DEF FlightInv
    <2>1. conn' = NoConn
      BY <1>45 DEF Restart, ControlInv, Blank, EndingInv, Usable
    <2> QED
      BY <2>1, ConnsAssumption DEF Live
  <1>46. CASE UNCHANGED vars
    BY <1>46 DEF vars, FlightInv, Live, Attended, Asked, Usable, Open, TypeOK, Abortable
  <1> QED
    BY <1>1, <1>2, <1>3, <1>4, <1>5, <1>6, <1>7, <1>8, <1>9, <1>10, <1>11, <1>12, <1>13, <1>14,
       <1>15, <1>16, <1>17, <1>18, <1>19, <1>20, <1>21, <1>22, <1>23, <1>24, <1>25, <1>26,
       <1>27, <1>28, <1>29, <1>30, <1>31, <1>32, <1>33, <1>34, <1>35, <1>36, <1>37, <1>38,
       <1>39, <1>40, <1>41, <1>42, <1>43, <1>44, <1>45, <1>46
       DEF Next, Connection, Request, Message, Handler, LoopEnd, Job, Detached,
           Api, ApiRest, Check, CrashAny

WorkingInv == NoCancel /\ IdleInv /\ EndingInv /\ WorkInv /\ FlightInv

LEMMA WorkingInit == NoCancel /\ Init => WorkingInv
  <1> SUFFICES ASSUME NoCancel, Init PROVE WorkingInv
    OBVIOUS
  <1>1. /\ conn = NoConn /\ ~Usable
        /\ \A f \in Files : fev[f] = "Idle" /\ file[f] = "Idle"
        /\ \A c \in Conns : /\ loop[c] = "off" /\ reqs[c] = <<>> /\ held[c] = {}
                            /\ \A f \in Files : job[c][f] = "none"
                            /\ aborted[c] = {}
    BY DEF Init, Usable
  <1>2. IdleInv
    BY <1>1 DEF IdleInv, Showing, Open, Abortable
  <1>3. EndingInv
    BY <1>1 DEF EndingInv
  <1>4. WorkInv
    <2>1. \A f \in Files : file[f] # "InFlight" /\ ~Usable
      BY <1>1
    <2>2. \A f \in Files : WorkAt(f)
      BY <2>1 DEF WorkAt
    <2> QED
      BY <2>2 DEF WorkInv
  <1>5. FlightInv
    BY <1>1, ConnsAssumption DEF FlightInv, Live
  <1> QED
    BY <1>2, <1>3, <1>4, <1>5 DEF WorkingInv

\* WorkingInv is inductive relative to Inv, whatever the process and the connections go
\* through, as long as the sender does not cancel single files (on_cancel drops the job
\* and leaves the file InFlight in the manager).
THEOREM WorkIsServed == NoCancel /\ Spec => []WorkingInv
  <1>1. NoCancel /\ Init => WorkingInv
    BY WorkingInit
  <1>2. Inv /\ WorkingInv /\ [Next]_vars => WorkingInv'
    BY IdleStep, EndingStep, WorkStep, FlightStep DEF Inv, WorkingInv, NoCancel
  <1> QED
    BY <1>1, <1>2, Inductive, PTL DEF Spec

\* DownloadNotForgotten: a file in flight is in the queue of the registered loop, or that
\* loop has a job for it whose result is still to be posted.
THEOREM DownloadIsNotForgotten == NoCancel /\ Spec => []DownloadNotForgotten
  <1>1. Inv /\ WorkingInv => DownloadNotForgotten
    <2> SUFFICES ASSUME Inv, WorkingInv, NEW c \in Conns, NEW f \in Files,
                        up, conn = c, loop[c] = "run", pc[c].op # "remove", file[f] = "InFlight",
                        Req("Download", f) \notin Range(reqs[c])
                 PROVE  job[c][f] \in Abortable \cup {"ok", "bad"}
      BY DEF DownloadNotForgotten
    <2>1. file[f] \notin Terminal
      BY DEF Terminal, Verdicts
    <2>2. job[c][f] \notin {"none", "end"}
      BY <2>1 DEF WorkingInv, FlightInv, Live, Attended, Asked
    <2>3. job[c][f] \notin Posted
      BY <2>1, ConnsAssumption DEF Inv, VerdictInv, Speaks, WorkingInv, EndingInv
    <2> QED
      BY <2>2, <2>3 DEF Inv, TypeOK, JobState, Abortable, Posted
  <1> QED
    BY <1>1, Inductive, WorkIsServed, PTL

\* PausedWhenOffline: once the last connection is over, no unfinished file is shown as
\* being received: the loop that served it has opened its gate.
THEOREM OfflineIsPaused == NoCancel /\ Spec => []PausedWhenOffline
  <1>1. WorkingInv => PausedWhenOffline
    BY DEF WorkingInv, WorkInv, WorkAt, Showing, Open, PausedWhenOffline
  <1> QED
    BY <1>1, WorkIsServed, PTL
=============================================================================
