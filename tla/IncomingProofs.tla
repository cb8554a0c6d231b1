-------------------------- MODULE IncomingProofs --------------------------
(***************************************************************************)
(* Theorems about the receiving side, for any files, any number of         *)
(* connections and any number of crashes and messages.                     *)
(***************************************************************************)
EXTENDS Incoming, StorageProofs, FiniteSetTheorems

-----------------------------------------------------------------------------
(* The orders in which a HashMap may be listed are sequences.              *)

LEMMA OrdersTyped ==
  ASSUME NEW S, S \subseteq Files
  PROVE  Orders(S) \subseteq Seq(Files)
  <1>1. Cardinality(S) \in Nat
    BY FilesAssumption, FS_Subset, FS_CardinalityType
  <1>2. \A s \in Orders(S) : s \in [1 .. Cardinality(S) -> Files]
    BY DEF Orders
  <1> QED
    BY <1>1, <1>2

-----------------------------------------------------------------------------
(* The types of the building blocks of the actions.                        *)

LEMMA ReqsTyped ==
  /\ Close \in Reqs
  /\ \A f \in Files : \A k \in {"Download", "Start", "Reject", "Done", "Fail"} :
       Req(k, f) \in Reqs
  BY DEF Close, Req, Reqs

LEMMA EventsTyped ==
  /\ \A f \in Files : \A k \in FileEvents : Ev(k, f) \in EventSet
  /\ \A k \in TransferEvents : Ev(k, NoFile) \in EventSet
  BY DEF Ev, EventSet

LEMMA PushTyped ==
  ASSUME reqs \in [Conns -> Seq(Reqs)], NEW c, NEW r \in Reqs
  PROVE  Push(c, r) \in [Conns -> Seq(Reqs)]
  BY DEF Push, Open

LEMMA ReportTyped ==
  ASSUME evq \in Seq(EventSet), NEW p, NEW k, NEW f, Ev(k, f) \in EventSet,
         Report(p, k, f)
  PROVE  evq' \in Seq(EventSet)
  BY DEF Report, Emit

LEMMA TerminateTyped ==
  ASSUME db \in Rows, file \in [Files -> LocalFileState],
         NEW f \in Files, NEW v \in Verdicts, Terminate(f, v)
  PROVE  db' \in Rows /\ file' \in [Files -> LocalFileState]
  <1>1. db' \in Rows
    BY RowsTyped DEF Terminate
  <1>2. v \in LocalFileState
    BY DEF LocalFileState, Terminal
  <1> QED
    BY <1>1, <1>2 DEF Terminate

LEMMA RemoveTyped ==
  ASSUME db \in Rows, Remove
  PROVE  /\ db' \in Rows
         /\ file' \in [Files -> LocalFileState]
         /\ xfer' \in SyncState \cup {"Absent"}
         /\ conn' \in Conns \cup {NoConn}
  <1>1. db' \in Rows
    BY DEF Remove, transfer_sync_clear, Rows
  <1> QED
    BY <1>1 DEF Remove, LocalFileState

LEMMA BreakTyped ==
  ASSUME loop \in [Conns -> LoopState], aborted \in [Conns -> SUBSET Files],
         NEW c \in Conns, NEW how \in {"ok", "err"}, Break(c, how)
  PROVE  /\ loop' \in [Conns -> LoopState]
         /\ aborted' \in [Conns -> SUBSET Files]
  BY DEF Break, LoopState

LEMMA StopTaskTyped ==
  ASSUME held \in [Conns -> SUBSET Files], aborted \in [Conns -> SUBSET Files],
         fev \in [Files -> FileState], NEW c \in Conns, NEW f \in Files, StopTask(c, f)
  PROVE  /\ held' \in [Conns -> SUBSET Files]
         /\ aborted' \in [Conns -> SUBSET Files]
         /\ fev' \in [Files -> FileState]
  BY GatesTyped DEF StopTask

LEMMA OnCloseTyped ==
  ASSUME held \in [Conns -> SUBSET Files], fev \in [Files -> FileState],
         NEW c \in Conns, OnClose(c)
  PROVE  /\ held' \in [Conns -> SUBSET Files]
         /\ fev' \in [Files -> FileState]
  BY GatesTyped DEF OnClose

LEMMA JobToTyped ==
  ASSUME job \in [Conns -> [Files -> JobState]], aborted \in [Conns -> SUBSET Files],
         NEW c \in Conns, NEW f \in Files, NEW s \in JobState, JobTo(c, f, s)
  PROVE  /\ job' \in [Conns -> [Files -> JobState]]
         /\ aborted' \in [Conns -> SUBSET Files]
  BY DEF JobTo

LEMMA PcTyped ==
  /\ Select \in HandlerPc
  /\ \A op \in {"drain", "remove", "cancel"} : [op |-> op, f |-> NoFile] \in HandlerPc
  /\ \A op \in {"rej_stop", "rej_none", "rej_emit", "err_emit", "err_stop"} :
       /\ \A f \in Files : [op |-> op, f |-> f] \in HandlerPc
       /\ \A p \in HandlerPc : p.op = op => p.f \in Files
  BY DEF HandlerPc, Select

LEMMA ApiTyped ==
  /\ ApiIdle \in ApiCall
  /\ [op |-> "cancel", f |-> NoFile] \in ApiCall
  /\ \A f \in Files : [op |-> "reject", f |-> f] \in ApiCall
  /\ \A a \in ApiCall : a.op = "reject" => a.f \in Files
  BY DEF ApiCall, ApiIdle

LEMMA TerminalRecvTyped ==
  ASSUME TypeOK, NEW c \in Conns, NEW f \in Files, NEW v \in Verdicts,
         NEW fresh \in {"rej_stop", "err_emit"}, NEW stale \in {"rej_none", "err_stop"},
         TerminalRecv(c, f, v, fresh, stale)
  PROVE  /\ db' \in Rows
         /\ file' \in [Files -> LocalFileState]
         /\ pc' \in [Conns -> HandlerPc]
  <1>1. [op |-> fresh, f |-> f] \in HandlerPc /\ [op |-> stale, f |-> f] \in HandlerPc
    BY PcTyped
  <1>2. CASE xfer # "Absent" /\ file[f] \notin Terminal
    BY <1>1, <1>2, TerminateTyped DEF TerminalRecv, TypeOK
  <1>3. CASE ~(xfer # "Absent" /\ file[f] \notin Terminal)
    BY <1>1, <1>3 DEF TerminalRecv, TypeOK
  <1> QED
    BY <1>2, <1>3

LEMMA PopTyped ==
  ASSUME reqs \in [Conns -> Seq(Reqs)], NEW c \in Conns, NEW k, HasReq(c, k), Pop(c)
  PROVE  /\ reqs' \in [Conns -> Seq(Reqs)]
         /\ Head(reqs[c]) \in Reqs
  BY DEF Pop, HasReq

LEMMA RestoredFileTyped ==
  ASSUME NEW d, NEW f
  PROVE  RestoredFile(d, f) \in LocalFileState
  BY DEF RestoredFile, RestoredVerdict, LocalFileState, Terminal, Verdicts

-----------------------------------------------------------------------------
(* Type correctness.                                                       *)

LEMMA StoredTyped ==
  ASSUME db \in Rows, NEW e \in EventSet
  PROVE  StoredBy(e) \in Rows
  <1>1. e.k \in Verdicts => e.f \in Files
    BY DEF EventSet, TransferEvents, Verdicts
  <1> QED
    BY <1>1, RowsTyped, ZenonT(60) DEF StoredBy, insert_transfer_cancel_state, Rows

LEMMA TypeInit == Init => TypeOK
  <1> SUFFICES ASSUME Init PROVE TypeOK
    OBVIOUS
  <1>1. up \in BOOLEAN /\ purged \in BOOLEAN
    BY DEF Init
  <1>2. db \in Rows /\ pc \in [Conns -> HandlerPc] /\ api \in ApiCall
    BY NoRowsTyped, PcTyped, ApiTyped DEF Init
  <1> QED
    BY <1>1, <1>2 DEF Init, TypeOK, LocalFileState, LoopState, JobState, FileState, TransferState

LEMMA TypeStep == TypeOK /\ [Next]_vars => TypeOK'
  <1> SUFFICES ASSUME TypeOK, [Next]_vars PROVE TypeOK'
    OBVIOUS
  <1> USE DEF TypeOK, mgr, loops, jobs, events, calls, disk, ghost
  <1>1. ASSUME NEW c \in Conns, RegisterRefused(c)
       PROVE  TypeOK'
    BY <1>1 DEF RegisterRefused, Fresh, LoopState
  <1>2. ASSUME NEW c \in Conns, RegisterResume(c)
       PROVE  TypeOK'
    <2>1. PICK s \in Orders(Unsettled) :
            reqs' = [reqs EXCEPT ![c] =
                       IF xfer = "Canceled"
                       THEN Append([i \in DOMAIN s |-> PendingReq(s[i])], Close)
                       ELSE [i \in DOMAIN s |-> PendingReq(s[i])]]
      BY <1>2 DEF RegisterResume
    <2>2. s \in Seq(Files)
      BY <2>1, OrdersTyped DEF Unsettled
    <2>3. \A f \in Files : PendingReq(f) \in Reqs
      BY DEF PendingReq, Req, Reqs
    <2>4. [i \in DOMAIN s |-> PendingReq(s[i])] \in Seq(Reqs)
      <3>1. [i \in DOMAIN s |-> PendingReq(s[i])] \in [1 .. Len(s) -> Reqs]
        BY <2>2, <2>3
      <3> QED
        BY <2>2, <3>1
    <2>5. reqs' \in [Conns -> Seq(Reqs)]
      BY <2>1, <2>4, ReqsTyped
    <2> QED
      BY <1>2, <2>5 DEF RegisterResume, LoopState
  <1>3. ASSUME NEW c \in Conns, RegisterClosed(c)
       PROVE  TypeOK'
    BY <1>3, ReqsTyped DEF RegisterClosed, LoopState
  <1>4. ASSUME NEW c \in Conns, RegisterNew(c)
       PROVE  TypeOK'
    <2>1. db' \in Rows
      <3>1. insert_transfer(db) \in Rows
        BY NoRowsTyped DEF insert_transfer, NoRows, Rows, SyncState
      <3> QED
        BY <1>4, <3>1 DEF RegisterNew, update_transfer_sync_states, Rows, SyncState
    <2>2. evq' \in Seq(EventSet)
      BY <1>4, ReportTyped, EventsTyped DEF RegisterNew, TransferEvents
    <2> QED
      BY <1>4, <2>1, <2>2, GatesTyped DEF RegisterNew, LoopState, LocalFileState, FileState,
         SyncState
  <1>5. ASSUME NEW c \in Conns, OnReqDownload(c)
       PROVE  TypeOK'
    <2>1. /\ reqs' \in [Conns -> Seq(Reqs)]
          /\ Head(reqs[c]).f \in Files
      BY <1>5, PopTyped DEF OnReqDownload, HasReq, Reqs
    <2> DEFINE f == Head(reqs[c]).f
    <2>2. /\ loop' \in [Conns -> LoopState]
          /\ held' \in [Conns -> SUBSET Files]
          /\ job' \in [Conns -> [Files -> JobState]]
          /\ aborted' \in [Conns -> SUBSET Files]
      <3>1. CASE Stoppable(c, f)
        BY <1>5, <3>1 DEF OnReqDownload
      <3>2. CASE ~Stoppable(c, f) /\ ~Usable
        BY <1>5, <3>2, BreakTyped DEF OnReqDownload
      <3>3. CASE ~Stoppable(c, f) /\ Usable
        <4>1. /\ held' = [held EXCEPT ![c] = @ \cup {f}]
              /\ job' = [job EXCEPT ![c][f] = "spawned"]
              /\ UNCHANGED <<loop, aborted>>
          BY <1>5, <3>3 DEF OnReqDownload
        <4>2. "spawned" \in JobState
          BY DEF JobState
        <4> QED
          BY <4>1, <4>2, <2>1
      <3> QED
        BY <3>1, <3>2, <3>3
    <2> QED
      BY <1>5, <2>1, <2>2 DEF OnReqDownload
  <1>6. ASSUME NEW c \in Conns, OnReqSend(c)
       PROVE  TypeOK'
    <2>1. reqs' \in [Conns -> Seq(Reqs)]
      BY <1>6, PopTyped DEF OnReqSend
    <2> QED
      BY <1>6, <2>1 DEF OnReqSend
  <1>7. ASSUME NEW c \in Conns, OnReqReject(c)
       PROVE  TypeOK'
    <2>1. /\ reqs' \in [Conns -> Seq(Reqs)]
          /\ Head(reqs[c]).f \in Files
      BY <1>7, PopTyped DEF OnReqReject, HasReq, Reqs
    <2>2. /\ held' \in [Conns -> SUBSET Files]
          /\ aborted' \in [Conns -> SUBSET Files]
          /\ fev' \in [Files -> FileState]
      BY <1>7, <2>1, StopTaskTyped DEF OnReqReject
    <2> QED
      BY <1>7, <2>1, <2>2 DEF OnReqReject
  <1>8. ASSUME NEW c \in Conns, OnReqClose(c)
       PROVE  TypeOK'
    BY <1>8, PopTyped, OnCloseTyped, PcTyped DEF OnReqClose
  <1>9. ASSUME NEW c \in Conns, Drained(c)
       PROVE  TypeOK'
    BY <1>9, RemoveTyped, BreakTyped, PcTyped DEF Drained
  <1>10. ASSUME NEW c \in Conns, LinkBroken(c)
       PROVE  TypeOK'
    BY <1>10, BreakTyped, PcTyped DEF LinkBroken
  <1>11. ASSUME NEW c \in Conns, RecvClose(c)
       PROVE  TypeOK'
    BY <1>11, OnCloseTyped, PcTyped DEF RecvClose, Receives
  <1>12. ASSUME NEW c \in Conns, RecvCloseRemove(c)
       PROVE  TypeOK'
    BY <1>12, RemoveTyped, BreakTyped, PcTyped DEF RecvCloseRemove
  <1>13. ASSUME NEW c \in Conns, RecvCloseCancel(c)
       PROVE  TypeOK'
    BY <1>13, BreakTyped, ReportTyped, EventsTyped, GatesTyped, PcTyped DEF RecvCloseCancel, TransferEvents
  <1>14. ASSUME NEW c \in Conns, NEW f \in Files, RecvReject(c, f)
       PROVE  TypeOK'
    BY <1>14, TerminalRecvTyped DEF RecvReject, Receives, Verdicts
  <1>15. ASSUME NEW c \in Conns, RecvRejectStop(c)
       PROVE  TypeOK'
    <2>1. pc[c].f \in Files
      BY <1>15, PcTyped DEF RecvRejectStop, At
    <2> QED
      BY <1>15, <2>1, PcTyped, StopTaskTyped DEF RecvRejectStop
  <1>16. ASSUME NEW c \in Conns, RecvRejectEmit(c)
       PROVE  TypeOK'
    <2>1. pc[c].f \in Files
      BY <1>16, PcTyped DEF RecvRejectEmit, At
    <2> QED
      BY <1>16, <2>1, PcTyped, ReportTyped, EventsTyped, GatesTyped DEF RecvRejectEmit, FileEvents, Verdicts
  <1>17. ASSUME NEW c \in Conns, NEW f \in Files, RecvError(c, f)
       PROVE  TypeOK'
    BY <1>17, TerminalRecvTyped DEF RecvError, Receives, Verdicts
  <1>18. ASSUME NEW c \in Conns, RecvErrorEmit(c)
       PROVE  TypeOK'
    <2>1. pc[c].f \in Files
      BY <1>18, PcTyped DEF RecvErrorEmit, At
    <2> QED
      BY <1>18, <2>1, PcTyped, ReportTyped, EventsTyped, GatesTyped DEF RecvErrorEmit, FileEvents, Verdicts
  <1>19. ASSUME NEW c \in Conns, RecvErrorStop(c)
       PROVE  TypeOK'
    <2>1. pc[c].f \in Files
      BY <1>19, PcTyped DEF RecvErrorStop, At
    <2> QED
      BY <1>19, <2>1, PcTyped, StopTaskTyped DEF RecvErrorStop
  <1>20. ASSUME NEW c \in Conns, NEW f \in Files, RecvCancel(c, f)
       PROVE  TypeOK'
    BY <1>20, StopTaskTyped, ReportTyped, EventsTyped DEF RecvCancel, Receives, FileEvents
  <1>21. ASSUME NEW c \in Conns, LoopFinalize(c)
       PROVE  TypeOK'
    <2>1. PICK s \in Orders(Paused(c)) :
            evq' = IF "Paused" \in Reported
                   THEN evq \o [i \in DOMAIN s |-> Ev("Paused", s[i])] ELSE evq
      BY <1>21 DEF LoopFinalize
    <2>2. s \in Seq(Files)
      BY <2>1, OrdersTyped DEF Paused
    <2>3. [i \in DOMAIN s |-> Ev("Paused", s[i])] \in Seq(EventSet)
      <3>1. [i \in DOMAIN s |-> Ev("Paused", s[i])] \in [1 .. Len(s) -> EventSet]
        BY <2>2, EventsTyped DEF FileEvents
      <3> QED
        BY <2>2, <3>1
    <2>4. evq' \in Seq(EventSet)
      BY <2>1, <2>3
    <2> QED
      BY <1>21, <2>4, GatesTyped DEF LoopFinalize, LoopState
  <1>22. ASSUME NEW c \in Conns, Disconnect(c)
       PROVE  TypeOK'
    BY <1>22 DEF Disconnect, LoopState
  <1>23. ASSUME NEW c \in Conns, NEW f \in Files, JobAborted(c, f)
       PROVE  TypeOK'
    BY <1>23, JobToTyped DEF JobAborted, JobState
  <1>24. ASSUME NEW c \in Conns, NEW f \in Files, JobPreflight(c, f)
       PROVE  TypeOK'
    BY <1>24, JobToTyped, GatesTyped DEF JobPreflight, JobState
  <1>25. ASSUME NEW c \in Conns, NEW f \in Files, JobStart(c, f)
       PROVE  TypeOK'
    BY <1>25, JobToTyped, GatesTyped, PushTyped, ReqsTyped, ReportTyped, EventsTyped DEF JobStart, JobState, FileEvents
  <1>26. ASSUME NEW c \in Conns, NEW f \in Files, JobPlace(c, f)
       PROVE  TypeOK'
    BY <1>26, JobToTyped DEF JobPlace, JobState
  <1>27. ASSUME NEW c \in Conns, NEW f \in Files, JobCanceled(c, f)
       PROVE  TypeOK'
    BY <1>27, JobToTyped DEF JobCanceled, JobState
  <1>28. ASSUME NEW c \in Conns, NEW f \in Files, JobFail(c, f)
       PROVE  TypeOK'
    BY <1>28, JobToTyped DEF JobFail, JobState
  <1>29. ASSUME NEW c \in Conns, NEW f \in Files, JobPost(c, f)
       PROVE  TypeOK'
    BY <1>29, JobToTyped, TerminateTyped DEF JobPost, JobState, Verdicts
  <1>30. ASSUME NEW c \in Conns, NEW f \in Files, JobReport(c, f)
       PROVE  TypeOK'
    BY <1>30, JobToTyped, GatesTyped, PushTyped, ReqsTyped, ReportTyped, EventsTyped DEF JobReport, JobState, FileEvents, Verdicts
  <1>31. ASSUME NEW f \in Files, ApiDownload(f)
       PROVE  TypeOK'
    BY <1>31, PushTyped, ReqsTyped, ReportTyped, EventsTyped, RowsTyped DEF ApiDownload, FileEvents, LocalFileState, Verdicts
  <1>32. ASSUME NEW f \in Files, ApiReject(f)
       PROVE  TypeOK'
    BY <1>32, TerminateTyped, PushTyped, ReqsTyped DEF ApiReject, Verdicts, ApiCall
  <1>33. CASE ApiRejectEmit
    <2>1. api.f \in Files
      BY <1>33 DEF ApiRejectEmit, ApiCall
    <2> QED
      BY <1>33, <2>1, ReportTyped, EventsTyped, GatesTyped DEF ApiRejectEmit, ApiCall, ApiIdle, FileEvents, Verdicts
  <1>34. CASE ApiCancel
    <2>1. db' \in Rows
      BY <1>34 DEF ApiCancel, update_transfer_sync_states, Rows, SyncState
    <2>2. file' \in [Files -> LocalFileState]
      BY <1>34 DEF ApiCancel, LocalFileState
    <2>3. reqs' \in [Conns -> Seq(Reqs)]
      BY <1>34, PushTyped, ReqsTyped DEF ApiCancel
    <2> QED
      BY <1>34, <2>1, <2>2, <2>3 DEF ApiCancel, ApiCall, SyncState
  <1>35. CASE ApiCancelEmit
    BY <1>35, ReportTyped, EventsTyped, GatesTyped DEF ApiCancelEmit, TransferEvents, ApiCall, ApiIdle
  <1>36. CASE ApiPurge
    <2>1. db' \in Rows
      BY <1>36 DEF ApiPurge, purge_transfers, Rows
    <2> QED
      BY <1>36, <2>1 DEF ApiPurge
  <1>37. CASE CheckDead
    BY <1>37, RemoveTyped DEF CheckDead
  <1>38. CASE CheckGone
    BY <1>38, RemoveTyped DEF CheckGone
  <1>39. CASE CheckEmit
    BY <1>39, ReportTyped, EventsTyped, GatesTyped DEF CheckEmit, TransferEvents
  <1>40. CASE EventTask
    <2> DEFINE e == Head(evq)
    <2>1. e \in EventSet /\ evq' \in Seq(EventSet)
      BY <1>40 DEF EventTask
    <2>2. e.k \in Verdicts => e.f \in Files
      BY <2>1 DEF EventSet, TransferEvents, Verdicts
    <2>3. db' \in Rows
      BY <1>40, <2>2, RowsTyped, StoredTyped DEF EventTask
    <2>4. told' \in [Files -> SUBSET Verdicts]
      BY <1>40, <2>2 DEF EventTask
    <2>5. cancels' \in Nat
      BY <1>40 DEF EventTask
    <2> QED
      BY <1>40, <2>1, <2>3, <2>4, <2>5 DEF EventTask
  <1>41. ASSUME Down, db' \in Rows
       PROVE  TypeOK'
    <2>1. up' \in BOOLEAN
      BY <1>41 DEF Down
    <2>2. pc' \in [Conns -> HandlerPc] /\ api' \in ApiCall
      BY <1>41, PcTyped, ApiTyped DEF Down
    <2> QED
      BY <1>41, <2>1, <2>2 DEF Down, LocalFileState, LoopState, JobState, FileState, TransferState
  <1>42. CASE CrashAny
    <2>1. CASE Crash
      BY <2>1, <1>41 DEF Crash
    <2>2. CASE CrashInRegister
      BY <2>2, <1>41, NoRowsTyped DEF CrashInRegister, insert_transfer, NoRows, Rows, SyncState
    <2>3. CASE CrashInEventTask
      <3>1. Head(evq) \in EventSet
        BY <2>3 DEF CrashInEventTask
      <3>2. db' \in Rows
        BY <2>3, <3>1, StoredTyped DEF CrashInEventTask
      <3> QED
        BY <2>3, <3>2, <1>41 DEF CrashInEventTask
    <2>4. ASSUME NEW f \in Files, CrashInTerminate(f)
          PROVE  TypeOK'
      <3>1. db' \in Rows
        BY <2>4 DEF CrashInTerminate, update_file_sync_states, Rows
      <3> QED
        BY <2>4, <3>1, <1>41 DEF CrashInTerminate
    <2> QED
      BY <1>42, <2>1, <2>2, <2>3, <2>4 DEF CrashAny
  <1>43. CASE Restart
    <2>1. db' \in Rows
      BY <1>43, NoRowsTyped DEF Restart, cleanup_garbage_transfers
    <2>2. db'.sync # "None" => db'.sync \in SyncState
      BY <2>1 DEF Rows
    <2>3. up' \in BOOLEAN
      BY <1>43 DEF Restart
    <2>4. xfer' \in SyncState \cup {"Absent"} /\ chk' \in {"off", "run", "dead", "gone"}
      BY <1>43, <2>2 DEF Restart
    <2>5. file' \in [Files -> LocalFileState]
      BY <1>43, RestoredFileTyped DEF Restart
    <2>6. xev' \in TransferState
      BY <1>43 DEF Restart, transfer_gate, TransferState
    <2> QED
      BY <1>43, <2>1, <2>3, <2>4, <2>5, <2>6 DEF Restart
  <1>44. CASE UNCHANGED vars
    BY <1>44 DEF vars
  <1> QED
    BY <1>1, <1>2, <1>3, <1>4, <1>5, <1>6, <1>7, <1>8, <1>9, <1>10, <1>11,
       <1>12, <1>13, <1>14, <1>15, <1>16, <1>17, <1>18, <1>19, <1>20, <1>21,
       <1>22, <1>23, <1>24, <1>25, <1>26, <1>27, <1>28, <1>29, <1>30, <1>31,
       <1>32, <1>33, <1>34, <1>35, <1>36, <1>37, <1>38, <1>39, <1>40, <1>42,
       <1>43, <1>44
       DEF Next, Connection, Request, Message, Handler, LoopEnd, Job, Detached, Api, ApiRest,
           Check

\* The variables keep their types in every behaviour: no interleaving of
\* connections, jobs, API calls and crashes leaves a stray value in the
\* manager (manager.rs), the queues or the database rows.
THEOREM TypeCorrect == Spec => []TypeOK
  BY TypeInit, TypeStep, PTL DEF Spec
=============================================================================
