-------------------------- MODULE OutgoingProofs --------------------------
(***************************************************************************)
(* Type correctness of the sending side, for any files, any number of      *)
(* permits, and any number of crashes, dials and messages.                 *)
(***************************************************************************)
EXTENDS Outgoing, StorageProofs, FiniteSetTheorems

-----------------------------------------------------------------------------
(* The types of the building blocks of the actions.                        *)

LEMMA OrdersTyped ==
  ASSUME NEW S, S \subseteq Files
  PROVE  Orders(S) \subseteq Seq(Files)
  <1>1. Cardinality(S) \in Nat
    BY FilesAssumption, FS_Subset, FS_CardinalityType
  <1>2. \A s \in Orders(S) : s \in [1 .. Cardinality(S) -> Files]
    BY DEF Orders
  <1> QED
    BY <1>1, <1>2

LEMMA ReqsTyped ==
  /\ Close \in ClientReqs
  /\ \A f \in Files : \A k \in {"Reject", "Fail"} : Req(k, f) \in ClientReqs
  BY DEF Close, Req, ClientReqs

LEMMA EventsTyped ==
  /\ \A f \in Files : \A k \in {"Throttled", "Started", "Paused"} \cup Verdicts :
       Ev(k, f) \in EventSet
  /\ \A k \in {"Queued", "Deferred", "Canceled", "CanceledByPeer", "TransferFailed"} :
       Ev(k, NoFile) \in EventSet
  BY DEF Ev, EventSet

LEMMA ReportTyped ==
  ASSUME evq \in Seq(EventSet), NEW p, NEW k, NEW f, Ev(k, f) \in EventSet,
         Report(p, k, f)
  PROVE  evq' \in Seq(EventSet)
  BY DEF Report, Emit

LEMMA PushTyped ==
  ASSUME reqs \in Seq(ClientReqs), NEW r \in ClientReqs
  PROVE  Push(r) \in Seq(ClientReqs)
  BY DEF Push

LEMMA HeadTyped ==
  ASSUME reqs \in Seq(ClientReqs), NEW k, HasReq(k)
  PROVE  /\ Tail(reqs) \in Seq(ClientReqs)
         /\ Head(reqs) \in ClientReqs
         /\ k \in {"Reject", "Fail"} => Head(reqs).f \in Files
  BY DEF HasReq, ClientReqs, Close, Req

LEMMA TerminateTyped ==
  ASSUME TypeOK, NEW f \in Files, NEW v \in Verdicts, Terminate(f, v)
  PROVE  db' \in Rows /\ file' \in [Files -> {"Alive"} \cup Verdicts]
  <1>1. db' \in Rows
    BY RowsTyped DEF Terminate, TypeOK
  <1> QED
    BY <1>1 DEF Terminate, TypeOK

LEMMA RemoveTyped ==
  ASSUME TypeOK, Remove
  PROVE  /\ db' \in Rows
         /\ file' \in [Files -> {"Alive"} \cup Verdicts]
         /\ xfer' \in SyncState \cup {"Absent"}
         /\ conn' \in BOOLEAN
  BY TransferRowsTyped DEF Remove, TypeOK

LEMMA StopTaskTyped ==
  ASSUME TypeOK, NEW f \in Files, StopTask(f)
  PROVE  /\ held' \in SUBSET Files
         /\ aborted' \in SUBSET Files
         /\ fev' \in [Files -> FileState]
  <1>1. held' \in SUBSET Files /\ aborted' \in SUBSET Files
    BY DEF StopTask, TypeOK
  <1> QED
    BY <1>1, GatesTyped DEF StopTask, TypeOK

LEMMA OnStopTyped ==
  ASSUME TypeOK, OnStop
  PROVE  held' \in SUBSET Files /\ fev' \in [Files -> FileState]
  BY GatesTyped DEF OnStop, TypeOK

LEMMA WithoutTyped ==
  ASSUME NEW q \in Seq(Files), NEW f
  PROVE  Without(q, f) \in Seq(Files)
  <1>1. CASE f \in Range(q)
    <2> DEFINE p == CHOOSE i \in DOMAIN q : q[i] = f
    <2>1. p \in 1 .. Len(q)
      BY <1>1 DEF Range
    <2>2. Without(q, f) = SubSeq(q, 1, p - 1) \o SubSeq(q, p + 1, Len(q))
      BY <1>1 DEF Without
    <2> HIDE DEF p
    <2>3. SubSeq(q, 1, p - 1) \in Seq(Files) /\ SubSeq(q, p + 1, Len(q)) \in Seq(Files)
      BY <2>1
    <2> QED
      BY <2>2, <2>3
  <1> QED
    BY <1>1 DEF Without

LEMMA JobToTyped ==
  ASSUME TypeOK, NEW k \in Kinds, NEW f \in Files, NEW s \in JobState, JobTo(k, f, s)
  PROVE  /\ job' \in [Kinds -> [Files -> JobState]]
         /\ aborted' \in SUBSET Files
         /\ waitq' \in Seq(Files)
  <1>1. job' \in [Kinds -> [Files -> JobState]] /\ aborted' \in SUBSET Files
    BY DEF JobTo, TypeOK
  <1>2. waitq' \in Seq(Files)
    BY WithoutTyped DEF JobTo, TypeOK
  <1> QED
    BY <1>1, <1>2

LEMMA PcTyped ==
  /\ Select \in HandlerPc
  /\ \A op \in {"closing", "closed", "cancel"} : [op |-> op, f |-> NoFile] \in HandlerPc
  /\ \A op \in {"start", "begin", "stop"} \cup Verdicts :
       /\ \A f \in Files : [op |-> op, f |-> f] \in HandlerPc
       /\ \A p \in HandlerPc : p.op = op => p.f \in Files
  BY DEF HandlerPc, Select, Verdicts

LEMMA ApiTyped ==
  /\ ApiIdle \in ApiCall
  /\ [op |-> "cancel", f |-> NoFile] \in ApiCall
  /\ \A f \in Files : [op |-> "reject", f |-> f] \in ApiCall
  /\ \A a \in ApiCall : a.op = "reject" => a.f \in Files
  BY DEF ApiCall, ApiIdle

LEMMA StoredTyped ==
  ASSUME db \in Rows, NEW e \in EventSet
  PROVE  /\ StoredBy(e) \in Rows
         /\ e.k \in Verdicts => e.f \in Files
  <1>1. e.k \in Verdicts => e.f \in Files
    BY DEF EventSet, Verdicts
  <1> QED
    BY <1>1, RowsTyped, TransferRowsTyped DEF StoredBy

LEMMA VerdictOfTyped == \A m : VerdictOf(m) \in Verdicts
  BY DEF VerdictOf, Verdicts

LEMMA RestoredFileTyped ==
  ASSUME NEW d, NEW f
  PROVE  RestoredFile(d, f) \in {"Alive"} \cup Verdicts
  BY DEF RestoredFile, RestoredVerdict, Verdicts

LEMMA NoJobsTyped == NoJobs \in [Kinds -> [Files -> JobState]]
  BY DEF NoJobs, JobState

-----------------------------------------------------------------------------
(* Type correctness.                                                       *)

LEMMA TypeInit == Init => TypeOK
  <1> SUFFICES ASSUME Init PROVE TypeOK
    OBVIOUS
  <1>1. db \in Rows /\ pc \in HandlerPc /\ api \in ApiCall
    BY NoRowsTyped, PcTyped, ApiTyped DEF Init
  <1>2. job \in [Kinds -> [Files -> JobState]]
    BY NoJobsTyped DEF Init
  <1>3. up \in BOOLEAN /\ conn \in BOOLEAN /\ offered \in BOOLEAN /\ parted \in BOOLEAN
    BY DEF Init
  <1> QED
    BY <1>1, <1>2, <1>3 DEF Init, TypeOK, CliState, FileState, TransferState

LEMMA TypeStep == TypeOK /\ [Next]_vars => TypeOK'
  <1> SUFFICES ASSUME TypeOK, [Next]_vars PROVE TypeOK'
    OBVIOUS
  <1> USE DEF TypeOK, mgr, client, jobs, events, ghost, bounds
  <1>1. ASSUME DialDeferred PROVE TypeOK'
    BY <1>1, ReportTyped, EventsTyped DEF DialDeferred, Dials
  <1>2. ASSUME DialRefused PROVE TypeOK'
    BY <1>2, RemoveTyped DEF DialRefused, Dials, CliState
  <1>3. ASSUME DialConnected PROVE TypeOK'
    BY <1>3 DEF DialConnected, Dials, CliState
  <1>4. ASSUME OnReqReject PROVE TypeOK'
    BY <1>4, HeadTyped, StopTaskTyped DEF OnReqReject
  <1>5. ASSUME OnReqFail PROVE TypeOK'
    BY <1>5, HeadTyped DEF OnReqFail
  <1>6. ASSUME OnReqClose PROVE TypeOK'
    BY <1>6, HeadTyped, OnStopTyped, PcTyped DEF OnReqClose, Then
  <1>7. ASSUME RecvClose PROVE TypeOK'
    BY <1>7, OnStopTyped, PcTyped DEF RecvClose, Receives, Then
  <1>8. ASSUME NEW m \in {"Done", "Error", "Reject"}, NEW f \in Files, RecvVerdict(m, f) PROVE TypeOK'
    <2>1. db' \in Rows /\ file' \in [Files -> {"Alive"} \cup Verdicts]
      BY <1>8, TerminateTyped, VerdictOfTyped DEF RecvVerdict
    <2>2. pc' \in HandlerPc
      BY <1>8, PcTyped, VerdictOfTyped, ZenonT(60) DEF RecvVerdict, Then
    <2> QED
      BY <1>8, <2>1, <2>2 DEF RecvVerdict, Receives
  <1>9. ASSUME NEW f \in Files, RecvCancel(f) PROVE TypeOK'
    BY <1>9, ReportTyped, EventsTyped, StopTaskTyped DEF RecvCancel, Receives
  <1>10. ASSUME NEW f \in Files, RecvStart(f) PROVE TypeOK'
    BY <1>10, PcTyped DEF RecvStart, Receives, Then
  <1>11. ASSUME NEW f \in Files, RecvReqChsum(f) PROVE TypeOK'
    BY <1>11 DEF RecvReqChsum, Receives, Kinds, JobState
  <1>12. ASSUME LinkBroken PROVE TypeOK'
    BY <1>12 DEF LinkBroken, CliState
  <1>13. ASSUME DialRefusedEmit PROVE TypeOK'
    BY <1>13, ReportTyped, EventsTyped, GatesTyped DEF DialRefusedEmit, CliState
  <1>14. ASSUME Connected PROVE TypeOK'
    <2>1. CASE ~Usable
      <3>1. reqs' = reqs \/ reqs' = <<Close>>
        BY <1>14, <2>1 DEF Connected
      <3>2. UNCHANGED mgr
        BY <1>14, <2>1 DEF Connected
      <3>3. reqs' \in Seq(ClientReqs)
        <4>1. ASSUME NEW r \in ClientReqs PROVE <<r>> \in Seq(ClientReqs)
          OBVIOUS
        <4> QED
          BY <3>1, <4>1, ReqsTyped
      <3> QED
        BY <1>14, <3>2, <3>3 DEF Connected, CliState
    <2>2. CASE Usable
      <3>1. PICK s \in Orders(PendingFiles) : reqs' = [i \in DOMAIN s |-> PendingReq(s[i])]
        BY <1>14, <2>2 DEF Connected, Usable
      <3>2. s \in Seq(Files)
        BY <3>1, OrdersTyped DEF PendingFiles
      <3>3. \A f \in Files : PendingReq(f) \in ClientReqs
        BY ReqsTyped DEF PendingReq
      <3>4. [i \in DOMAIN s |-> PendingReq(s[i])] \in [1 .. Len(s) -> ClientReqs]
        BY <3>2, <3>3
      <3>5. reqs' \in Seq(ClientReqs)
        BY <3>1, <3>2, <3>4
      <3>6. db' \in Rows /\ xfer' \in SyncState \cup {"Absent"}
        BY <1>14, <2>2, TransferRowsTyped DEF Connected, Usable, Activated, SyncState
      <3> QED
        BY <1>14, <2>2, <3>5, <3>6 DEF Connected, Usable, CliState
    <2> QED
      BY <2>1, <2>2
  <1>15. ASSUME HelloSent PROVE TypeOK'
    BY <1>15 DEF HelloSent, CliState
  <1>16. ASSUME HelloFailed PROVE TypeOK'
    <2>1. offered' \in BOOLEAN
      BY <1>16 DEF HelloFailed
    <2> QED
      BY <1>16, <2>1 DEF HelloFailed, CliState
  <1>17. ASSUME OnReqCloseRemove PROVE TypeOK'
    BY <1>17, RemoveTyped, PcTyped DEF OnReqCloseRemove, CliState
  <1>18. ASSUME RecvCloseRemove PROVE TypeOK'
    BY <1>18, RemoveTyped, PcTyped DEF RecvCloseRemove, CliState, Then
  <1>19. ASSUME RecvCloseCancel PROVE TypeOK'
    BY <1>19, ReportTyped, EventsTyped, GatesTyped, PcTyped DEF RecvCloseCancel, CliState
  <1>20. ASSUME RecvVerdictEmit PROVE TypeOK'
    <2>1. pc.op \in Verdicts /\ pc.f \in Files
      BY <1>20, PcTyped DEF RecvVerdictEmit, At
    <2> QED
      BY <1>20, <2>1, ReportTyped, EventsTyped, GatesTyped, PcTyped DEF RecvVerdictEmit, Then
  <1>21. ASSUME RecvVerdictStop PROVE TypeOK'
    <2>1. pc.f \in Files
      BY <1>21, PcTyped DEF RecvVerdictStop, At
    <2> QED
      BY <1>21, <2>1, StopTaskTyped, PcTyped DEF RecvVerdictStop
  <1>22. ASSUME StartEvents PROVE TypeOK'
    <2>1. pc.f \in Files
      BY <1>22, PcTyped DEF StartEvents, At
    <2> QED
      BY <1>22, <2>1, PcTyped DEF StartEvents, Then
  <1>23. ASSUME StartUpload PROVE TypeOK'
    <2>1. pc.f \in Files
      BY <1>23, PcTyped DEF StartUpload, At
    <2>2. evq' \in Seq(EventSet)
      BY <1>23, <2>1, ReportTyped, EventsTyped DEF StartUpload
    <2>4. fev' \in [Files -> FileState]
      <3>1. \/ fev' = [fev EXCEPT ![pc.f] = start(@)]
            \/ fev' = [fev EXCEPT ![pc.f] = throttled(@)]
        BY <1>23 DEF StartUpload
      <3> QED
        BY <2>1, <3>1, GatesTyped, SMTT(20)
    <2>3. job' \in [Kinds -> [Files -> JobState]]
      BY <1>23, <2>1 DEF StartUpload, Kinds, JobState
    <2> QED
      BY <1>23, <2>1, <2>2, <2>3, <2>4, PcTyped DEF StartUpload
  <1>24. ASSUME RunReturns PROVE TypeOK'
    BY <1>24 DEF RunReturns, CliState
  <1>25. ASSUME Disconnect PROVE TypeOK'
    BY <1>25 DEF Disconnect, CliState
  <1>26. ASSUME Drained PROVE TypeOK'
    BY <1>26 DEF Drained, CliState
  <1>27. ASSUME NEW k \in Kinds, NEW f \in Files, JobAborted(k, f) PROVE TypeOK'
    BY <1>27, JobToTyped DEF JobAborted, JobState
  <1>28. ASSUME NEW k \in Kinds, NEW f \in Files, JobSent(k, f) PROVE TypeOK'
    BY <1>28, JobToTyped DEF JobSent, JobState
  <1>29. ASSUME NEW k \in Kinds, NEW f \in Files, JobFail(k, f) PROVE TypeOK'
    BY <1>29, JobToTyped, TerminateTyped DEF JobFail, JobState, Verdicts
  <1>30. ASSUME NEW k \in Kinds, NEW f \in Files, JobFailCut(k, f) PROVE TypeOK'
    BY <1>30, JobToTyped DEF JobFailCut, JobState, Verdicts
  <1>31. ASSUME NEW k \in Kinds, NEW f \in Files, JobEmit(k, f) PROVE TypeOK'
    BY <1>31, JobToTyped, ReportTyped, EventsTyped, GatesTyped DEF JobEmit, JobState, Verdicts
  <1>32. ASSUME NEW f \in Files, JobQueue(f) PROVE TypeOK'
    BY <1>32, JobToTyped DEF JobQueue, JobState, Kinds
  <1>33. ASSUME NEW f \in Files, JobPermit(f) PROVE TypeOK'
    BY <1>33, JobToTyped, ReportTyped, EventsTyped, GatesTyped DEF JobPermit, JobState, Kinds
  <1>34. ASSUME NEW f \in Files, Pause(f) PROVE TypeOK'
    BY <1>34, ReportTyped, EventsTyped, GatesTyped DEF Pause
  <1>35. ASSUME ApiSend PROVE TypeOK'
    <2>1. xev' \in TransferState /\ db' \in Rows
      BY <1>35, GatesTyped, TransferRowsTyped DEF ApiSend
    <2> QED
      BY <1>35, <2>1, ReportTyped, EventsTyped DEF ApiSend, CliState, SyncState
  <1>36. ASSUME ApiCancel PROVE TypeOK'
    BY <1>36, RemoveTyped, TransferRowsTyped, PushTyped, ReqsTyped, ApiTyped DEF ApiCancel, SyncState
  <1>37. ASSUME ApiPurge PROVE TypeOK'
    BY <1>37, TransferRowsTyped DEF ApiPurge
  <1>38. ASSUME NEW f \in Files, ApiReject(f) PROVE TypeOK'
    BY <1>38, TerminateTyped, PushTyped, ReqsTyped, ApiTyped DEF ApiReject, Verdicts
  <1>39. ASSUME ApiRejectEmit PROVE TypeOK'
    <2>1. api.f \in Files
      BY <1>39, ApiTyped DEF ApiRejectEmit
    <2> QED
      BY <1>39, <2>1, ReportTyped, EventsTyped, GatesTyped, ApiTyped DEF ApiRejectEmit, Verdicts
  <1>40. ASSUME ApiCancelEmit PROVE TypeOK'
    BY <1>40, ReportTyped, EventsTyped, GatesTyped, ApiTyped DEF ApiCancelEmit
  <1>41. ASSUME EventTask PROVE TypeOK'
    <2>1. Head(evq) \in EventSet /\ evq' \in Seq(EventSet)
      BY <1>41 DEF EventTask
    <2>2. db' \in Rows
      BY <1>41, <2>1, StoredTyped DEF EventTask
    <2>3. told' \in [Files -> Seq(Verdicts)]
      BY <1>41, <2>1, StoredTyped DEF EventTask
    <2> QED
      BY <1>41, <2>1, <2>2, <2>3 DEF EventTask
  <1>42. ASSUME Crash PROVE TypeOK'
    <2>1. up' \in BOOLEAN /\ conn' \in BOOLEAN
      BY <1>42 DEF Crash, Down
    <2> QED
      BY <1>42, <2>1, PcTyped, ApiTyped, NoJobsTyped DEF Crash, Down, CliState, FileState, TransferState
  <1>43. ASSUME CrashInEventTask PROVE TypeOK'
    <2>1. db' \in Rows
      BY <1>43, StoredTyped DEF CrashInEventTask
    <2>2. up' \in BOOLEAN /\ conn' \in BOOLEAN
      BY <1>43 DEF CrashInEventTask, Down
    <2> QED
      BY <1>43, <2>1, <2>2, PcTyped, ApiTyped, NoJobsTyped DEF CrashInEventTask, Down, CliState, FileState,
         TransferState
  <1>44. ASSUME Restart PROVE TypeOK'
    <2>1. db' \in Rows
      BY <1>44, TransferRowsTyped DEF Restart
    <2>2. CASE db'.sync = "None"
      BY <1>44, <2>1, <2>2 DEF Restart
    <2>3. CASE db'.sync # "None"
      <3>1. xfer' \in SyncState
        BY <1>44, <2>1, <2>3 DEF Restart, Rows
      <3>2. xev' \in TransferState
        BY <1>44, <2>3, GatesTyped DEF Restart
      <3>3. file' \in [Files -> {"Alive"} \cup Verdicts]
        BY <1>44, <2>3, RestoredFileTyped DEF Restart
      <3> QED
        BY <1>44, <2>1, <2>3, <3>1, <3>2, <3>3 DEF Restart, CliState
    <2> QED
      BY <2>2, <2>3
  <1>45. CASE UNCHANGED vars
    BY <1>45 DEF vars
  <1> QED
    BY <1>1, <1>2, <1>3, <1>4, <1>5, <1>6, <1>7, <1>8, <1>9, <1>10, <1>11, <1>12, <1>13, <1>14,
       <1>15, <1>16, <1>17, <1>18, <1>19, <1>20, <1>21, <1>22, <1>23, <1>24, <1>25, <1>26,
       <1>27, <1>28, <1>29, <1>30, <1>31, <1>32, <1>33, <1>34, <1>35, <1>36, <1>37, <1>38,
       <1>39, <1>40, <1>41, <1>42, <1>43, <1>44, <1>45
       DEF Next, Dial, Request, Message, Handler, Job, Api, ApiRest

\* The variables of the sending side stay in their types, whatever the receiver
\* sends, wherever the process is killed and whatever the database holds.
THEOREM TypeCorrect == Spec => []TypeOK
  BY TypeInit, TypeStep, PTL DEF Spec
=============================================================================
