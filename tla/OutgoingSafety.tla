-------------------------- MODULE OutgoingSafety --------------------------
(***************************************************************************)
(* The safety theorems of the sending side.                                *)
(***************************************************************************)
EXTENDS OutgoingProofs

-----------------------------------------------------------------------------
(* Where control can be.                                                   *)

\* A handler is under way only in the select loop, nothing goes on before the
\* client task is spawned, and before the first crash that means that the
\* transfer was never offered.
ControlInv ==
  /\ cli # "run" => pc = Select
  /\ xfer = "Absent" => file = [f \in Files |-> "Alive"]
  /\ cli = "none" => /\ xfer = "Absent" /\ evq = <<>> /\ api = ApiIdle
                     /\ job = NoJobs /\ pausing = {}
  /\ ~up => cli = "none" /\ crashes > 0
  /\ cli = "none" /\ crashes = 0 =>
       db = NoRows /\ told = [f \in Files |-> <<>>] /\ ends = 0 /\ ~offered

LEMMA ControlInit == Init => ControlInv
  BY DEF Init, ControlInv

\* A client task that has a job has been spawned.
LEMMA JobNeedsClient ==
  ASSUME ControlInv, NEW k \in Kinds, NEW f \in Files, job[k][f] # "none"
  PROVE  cli # "none"
  BY DEF ControlInv, NoJobs

LEMMA CrashCounts ==
  ASSUME TypeOK, Down
  PROVE  crashes' > 0 /\ crashes' # 0
  BY DEF TypeOK, Down

LEMMA ControlStep == TypeOK /\ ControlInv /\ [Next]_vars => ControlInv'
  <1> SUFFICES ASSUME TypeOK, ControlInv, [Next]_vars PROVE ControlInv'
    OBVIOUS
  <1> USE DEF ControlInv, mgr, client, jobs, events, ghost, bounds
  <1>1. ASSUME DialDeferred PROVE ControlInv'
    BY <1>1 DEF DialDeferred, Dials
  <1>2. ASSUME DialRefused PROVE ControlInv'
    BY <1>2 DEF DialRefused, Dials, Remove
  <1>3. ASSUME DialConnected PROVE ControlInv'
    BY <1>3 DEF DialConnected, Dials
  <1>4. ASSUME OnReqReject PROVE ControlInv'
    BY <1>4 DEF OnReqReject, HasReq, Selecting
  <1>5. ASSUME OnReqFail PROVE ControlInv'
    BY <1>5 DEF OnReqFail, HasReq, Selecting
  <1>6. ASSUME OnReqClose PROVE ControlInv'
    BY <1>6 DEF OnReqClose, HasReq, Selecting, Then
  <1>7. ASSUME RecvClose PROVE ControlInv'
    BY <1>7 DEF RecvClose, Receives, Selecting, Then
  <1>8. ASSUME NEW m \in {"Done", "Error", "Reject"}, NEW f \in Files, RecvVerdict(m, f) PROVE ControlInv'
    BY <1>8 DEF RecvVerdict, Receives, Selecting, Then, Terminate
  <1>9. ASSUME NEW f \in Files, RecvCancel(f) PROVE ControlInv'
    BY <1>9 DEF RecvCancel, Receives, Selecting
  <1>10. ASSUME NEW f \in Files, RecvStart(f) PROVE ControlInv'
    BY <1>10 DEF RecvStart, Receives, Selecting, Then
  <1>11. ASSUME NEW f \in Files, RecvReqChsum(f) PROVE ControlInv'
    BY <1>11 DEF RecvReqChsum, Receives, Selecting
  <1>12. ASSUME LinkBroken PROVE ControlInv'
    BY <1>12 DEF LinkBroken, Selecting
  <1>13. ASSUME DialRefusedEmit PROVE ControlInv'
    BY <1>13 DEF DialRefusedEmit
  <1>14. ASSUME Connected PROVE ControlInv'
    BY <1>14 DEF Connected, Activated, Usable
  <1>15. ASSUME HelloSent PROVE ControlInv'
    BY <1>15 DEF HelloSent
  <1>16. ASSUME HelloFailed PROVE ControlInv'
    BY <1>16 DEF HelloFailed
  <1>17. ASSUME OnReqCloseRemove PROVE ControlInv'
    BY <1>17 DEF OnReqCloseRemove, At, Remove
  <1>18. ASSUME RecvCloseRemove PROVE ControlInv'
    BY <1>18 DEF RecvCloseRemove, At, Remove, Then
  <1>19. ASSUME RecvCloseCancel PROVE ControlInv'
    BY <1>19 DEF RecvCloseCancel, At
  <1>20. ASSUME RecvVerdictEmit PROVE ControlInv'
    BY <1>20 DEF RecvVerdictEmit, At, Then
  <1>21. ASSUME RecvVerdictStop PROVE ControlInv'
    BY <1>21 DEF RecvVerdictStop, At
  <1>22. ASSUME StartEvents PROVE ControlInv'
    BY <1>22 DEF StartEvents, At, Then
  <1>23. ASSUME StartUpload PROVE ControlInv'
    BY <1>23 DEF StartUpload, At
  <1>24. ASSUME RunReturns PROVE ControlInv'
    BY <1>24 DEF RunReturns
  <1>25. ASSUME Disconnect PROVE ControlInv'
    BY <1>25 DEF Disconnect
  <1>26. ASSUME Drained PROVE ControlInv'
    BY <1>26 DEF Drained
  <1>27. ASSUME NEW k \in Kinds, NEW f \in Files, JobAborted(k, f) PROVE ControlInv'
    BY <1>27, JobNeedsClient DEF JobAborted, Kinds
  <1>28. ASSUME NEW k \in Kinds, NEW f \in Files, JobSent(k, f) PROVE ControlInv'
    BY <1>28, JobNeedsClient DEF JobSent, JobAt, Kinds
  <1>29. ASSUME NEW k \in Kinds, NEW f \in Files, JobFail(k, f) PROVE ControlInv'
    BY <1>29, JobNeedsClient DEF JobFail, JobAt, Usable, Terminate, Kinds
  <1>30. ASSUME NEW k \in Kinds, NEW f \in Files, JobFailCut(k, f) PROVE ControlInv'
    BY <1>30 DEF JobFailCut, JobAt, Usable
  <1>31. ASSUME NEW k \in Kinds, NEW f \in Files, JobEmit(k, f) PROVE ControlInv'
    BY <1>31, JobNeedsClient DEF JobEmit, JobAt, Kinds
  <1>32. ASSUME NEW f \in Files, JobQueue(f) PROVE ControlInv'
    BY <1>32, JobNeedsClient DEF JobQueue, JobAt, Kinds
  <1>33. ASSUME NEW f \in Files, JobPermit(f) PROVE ControlInv'
    BY <1>33, JobNeedsClient DEF JobPermit, JobAt, Kinds
  <1>34. ASSUME NEW f \in Files, Pause(f) PROVE ControlInv'
    BY <1>34 DEF Pause
  <1>35. ASSUME ApiSend PROVE ControlInv'
    BY <1>35 DEF ApiSend
  <1>36. ASSUME ApiCancel PROVE ControlInv'
    BY <1>36 DEF ApiCancel, Calls, Usable, Remove
  <1>37. ASSUME ApiPurge PROVE ControlInv'
    BY <1>37 DEF ApiPurge, Calls, purge_transfers, NoRows
  <1>38. ASSUME NEW f \in Files, ApiReject(f) PROVE ControlInv'
    BY <1>38 DEF ApiReject, Calls, Usable, Terminate
  <1>39. ASSUME ApiRejectEmit PROVE ControlInv'
    BY <1>39 DEF ApiRejectEmit, ApiIdle
  <1>40. ASSUME ApiCancelEmit PROVE ControlInv'
    BY <1>40 DEF ApiCancelEmit, ApiIdle
  <1>41. ASSUME EventTask PROVE ControlInv'
    BY <1>41 DEF EventTask
  <1>42. ASSUME Crash PROVE ControlInv'
    BY <1>42, CrashCounts DEF Crash, Down, Select
  <1>43. ASSUME CrashInEventTask PROVE ControlInv'
    BY <1>43, CrashCounts DEF CrashInEventTask, Down, Select
  <1>44. ASSUME Restart PROVE ControlInv'
    <2>1. crashes # 0
      BY <1>44 DEF Restart, TypeOK
    <2>2. db'.sync # "Absent"
      BY <1>44, TransferRowsTyped DEF Restart, TypeOK, Rows, SyncState
    <2> QED
      BY <1>44, <2>1, <2>2 DEF Restart
  <1>45. CASE UNCHANGED vars
    BY <1>45 DEF vars
  <1> QED
    BY <1>1, <1>2, <1>3, <1>4, <1>5, <1>6, <1>7, <1>8, <1>9, <1>10, <1>11, <1>12, <1>13, <1>14,
       <1>15, <1>16, <1>17, <1>18, <1>19, <1>20, <1>21, <1>22, <1>23, <1>24, <1>25, <1>26,
       <1>27, <1>28, <1>29, <1>30, <1>31, <1>32, <1>33, <1>34, <1>35, <1>36, <1>37, <1>38,
       <1>39, <1>40, <1>41, <1>42, <1>43, <1>44, <1>45
       DEF Next, Dial, Request, Message, Handler, Job, Api, ApiRest

-----------------------------------------------------------------------------
(* The database and the manager's map.                                     *)

\* While the process runs, the manager has the transfer in the state of its
\* sync row; a verdict of the receiver or of the application is on disk, and a
\* file whose sync row is terminal has a verdict.
SyncInv ==
  /\ db.sync # "None" => db.row
  /\ up => xfer = IF db.sync = "None" THEN "Absent" ELSE db.sync
  /\ up /\ xfer # "Absent" =>
       \A f \in Files :
         /\ file[f] \in {"Rejected", "Completed"} => IsRestoredTerminal(db, f)
         /\ db.file[f] = "Terminal" => file[f] \in Verdicts

LEMMA SyncInit == Init => SyncInv
  BY DEF Init, SyncInv, NoRows

LEMMA RemoveSync ==
  ASSUME TypeOK, SyncInv, up, up', Remove
  PROVE  SyncInv'
  BY DEF TypeOK, SyncInv, Remove, transfer_sync_clear, Rows

LEMMA TerminateSync ==
  ASSUME TypeOK, SyncInv, up, up', xfer' = xfer, xfer # "Absent",
         NEW f \in Files, NEW v \in Verdicts, Terminate(f, v)
  PROVE  SyncInv'
  <1>1. db.sync # "None" /\ db' = [db EXCEPT !.file[f] = "Terminal"]
    BY DEF SyncInv, Terminate, update_file_sync_states
  <1>2. db'.sync = db.sync /\ db'.row = db.row /\ db'.hist = db.hist
    BY <1>1 DEF TypeOK, Rows
  <1>3. /\ db'.file[f] = "Terminal" /\ file'[f] = v
        /\ \A g \in Files \ {f} : db'.file[g] = db.file[g] /\ file'[g] = file[g]
    BY <1>1 DEF TypeOK, Rows, Terminate
  <1>4. ASSUME NEW g \in Files
        PROVE  /\ file'[g] \in {"Rejected", "Completed"} => IsRestoredTerminal(db', g)
               /\ db'.file[g] = "Terminal" => file'[g] \in Verdicts
    <2>1. CASE g = f
      BY <1>3, <2>1 DEF IsRestoredTerminal
    <2>2. CASE g # f
      BY <1>2, <1>3, <2>2 DEF SyncInv, IsRestoredTerminal
    <2> QED
      BY <2>1, <2>2
  <1> QED
    BY <1>2, <1>4 DEF SyncInv

\* Storing an event touches neither the sync row nor those of the files.
LEMMA StoredRows ==
  ASSUME TypeOK, NEW e \in EventSet
  PROVE  /\ StoredBy(e) \in Rows
         /\ StoredBy(e).sync = db.sync
         /\ StoredBy(e).row = db.row
         /\ StoredBy(e).file = db.file
         /\ \A f \in Files : db.hist[f] \subseteq StoredBy(e).hist[f]
  <1>1. CASE e.k \in Verdicts
    <2>1. e.f \in Files /\ StoredBy(e) = insert_path_state(db, e.f, e.k)
      BY <1>1 DEF StoredBy, EventSet, Ending, Verdicts
    <2>2. StoredBy(e) \in Rows
      BY <1>1, <2>1, RowsTyped DEF TypeOK
    <2>3. CASE db.row
      <3>1. StoredBy(e) = [db EXCEPT !.hist[e.f] = @ \cup {e.k}]
        BY <2>1, <2>3 DEF insert_path_state
      <3>2. StoredBy(e).hist = [db.hist EXCEPT ![e.f] = @ \cup {e.k}]
        BY <3>1 DEF TypeOK, Rows
      <3>3. /\ StoredBy(e).sync = db.sync
            /\ StoredBy(e).row = db.row
            /\ StoredBy(e).file = db.file
        BY <3>1 DEF TypeOK, Rows
      <3> QED
        BY <2>1, <2>2, <3>2, <3>3 DEF TypeOK, Rows
    <2>4. CASE ~db.row
      BY <2>1, <2>2, <2>4 DEF insert_path_state
    <2> QED
      BY <2>3, <2>4
  <1>2. CASE e.k \notin Verdicts /\ e.k \in Ending
    <2>1. StoredBy(e) = insert_transfer_cancel_state(db)
      BY <1>2 DEF StoredBy
    <2>2. StoredBy(e) \in Rows
      BY <2>1, TransferRowsTyped DEF TypeOK
    <2> QED
      BY <2>1, <2>2 DEF insert_transfer_cancel_state, TypeOK, Rows
  <1>3. CASE e.k \notin Verdicts /\ e.k \notin Ending
    BY <1>3 DEF StoredBy, TypeOK
  <1> QED
    BY <1>1, <1>2, <1>3

LEMMA QueueHead ==
  ASSUME TypeOK, evq # <<>>
  PROVE  Head(evq) \in EventSet
  BY DEF TypeOK

LEMMA SyncStep == TypeOK /\ ControlInv /\ SyncInv /\ [Next]_vars => SyncInv'
  <1> SUFFICES ASSUME TypeOK, ControlInv, SyncInv, [Next]_vars PROVE SyncInv'
    OBVIOUS
  <1> USE DEF SyncInv, mgr, client, jobs, events, ghost, bounds
  <1>1. ASSUME DialDeferred PROVE SyncInv'
    BY <1>1 DEF DialDeferred, Dials
  <1>2. ASSUME DialRefused PROVE SyncInv'
    <2>1. CASE xfer = "Absent"
      BY <1>2, <2>1 DEF DialRefused, Dials
    <2>2. CASE xfer # "Absent"
      BY <1>2, <2>2, RemoveSync DEF DialRefused, Dials
    <2> QED
      BY <2>1, <2>2
  <1>3. ASSUME DialConnected PROVE SyncInv'
    BY <1>3 DEF DialConnected, Dials
  <1>4. ASSUME OnReqReject PROVE SyncInv'
    BY <1>4 DEF OnReqReject, HasReq, Selecting
  <1>5. ASSUME OnReqFail PROVE SyncInv'
    BY <1>5 DEF OnReqFail, HasReq, Selecting
  <1>6. ASSUME OnReqClose PROVE SyncInv'
    BY <1>6 DEF OnReqClose, HasReq, Selecting, Then
  <1>7. ASSUME RecvClose PROVE SyncInv'
    BY <1>7 DEF RecvClose, Receives, Selecting, Then
  <1>8. ASSUME NEW m \in {"Done", "Error", "Reject"}, NEW f \in Files, RecvVerdict(m, f) PROVE SyncInv'
    <2>1. CASE xfer # "Absent" /\ file[f] = "Alive"
      <3>1. VerdictOf(m) \in Verdicts
        BY DEF VerdictOf, Verdicts
      <3> QED
        BY <1>8, <2>1, <3>1, TerminateSync DEF RecvVerdict, Receives, Selecting
    <2>2. CASE ~(xfer # "Absent" /\ file[f] = "Alive")
      BY <1>8, <2>2 DEF RecvVerdict, Receives, Selecting
    <2> QED
      BY <2>1, <2>2
  <1>9. ASSUME NEW f \in Files, RecvCancel(f) PROVE SyncInv'
    BY <1>9 DEF RecvCancel, Receives, Selecting
  <1>10. ASSUME NEW f \in Files, RecvStart(f) PROVE SyncInv'
    BY <1>10 DEF RecvStart, Receives, Selecting, Then
  <1>11. ASSUME NEW f \in Files, RecvReqChsum(f) PROVE SyncInv'
    BY <1>11 DEF RecvReqChsum, Receives, Selecting
  <1>12. ASSUME LinkBroken PROVE SyncInv'
    BY <1>12 DEF LinkBroken, Selecting
  <1>13. ASSUME DialRefusedEmit PROVE SyncInv'
    BY <1>13 DEF DialRefusedEmit
  <1>14. ASSUME Connected PROVE SyncInv'
    BY <1>14 DEF Connected, Activated, Usable, update_transfer_sync_states, IsRestoredTerminal,
       TypeOK, Rows
  <1>15. ASSUME HelloSent PROVE SyncInv'
    BY <1>15 DEF HelloSent
  <1>16. ASSUME HelloFailed PROVE SyncInv'
    BY <1>16 DEF HelloFailed
  <1>17. ASSUME OnReqCloseRemove PROVE SyncInv'
    <2>1. CASE xfer = "Absent"
      BY <1>17, <2>1 DEF OnReqCloseRemove, At
    <2>2. CASE xfer # "Absent"
      BY <1>17, <2>2, RemoveSync DEF OnReqCloseRemove, At
    <2> QED
      BY <2>1, <2>2
  <1>18. ASSUME RecvCloseRemove PROVE SyncInv'
    <2>1. CASE xfer = "Absent"
      BY <1>18, <2>1 DEF RecvCloseRemove, At
    <2>2. CASE xfer # "Absent"
      BY <1>18, <2>2, RemoveSync DEF RecvCloseRemove, At
    <2> QED
      BY <2>1, <2>2
  <1>19. ASSUME RecvCloseCancel PROVE SyncInv'
    BY <1>19 DEF RecvCloseCancel, At
  <1>20. ASSUME RecvVerdictEmit PROVE SyncInv'
    BY <1>20 DEF RecvVerdictEmit, At, Then
  <1>21. ASSUME RecvVerdictStop PROVE SyncInv'
    BY <1>21 DEF RecvVerdictStop, At
  <1>22. ASSUME StartEvents PROVE SyncInv'
    BY <1>22 DEF StartEvents, At, Then
  <1>23. ASSUME StartUpload PROVE SyncInv'
    BY <1>23 DEF StartUpload, At
  <1>24. ASSUME RunReturns PROVE SyncInv'
    BY <1>24 DEF RunReturns
  <1>25. ASSUME Disconnect PROVE SyncInv'
    BY <1>25 DEF Disconnect
  <1>26. ASSUME Drained PROVE SyncInv'
    BY <1>26 DEF Drained
  <1>27. ASSUME NEW k \in Kinds, NEW f \in Files, JobAborted(k, f) PROVE SyncInv'
    BY <1>27 DEF JobAborted
  <1>28. ASSUME NEW k \in Kinds, NEW f \in Files, JobSent(k, f) PROVE SyncInv'
    BY <1>28 DEF JobSent, JobAt
  <1>29. ASSUME NEW k \in Kinds, NEW f \in Files, JobFail(k, f) PROVE SyncInv'
    <2>1. CASE Usable /\ file[f] = "Alive"
      BY <1>29, <2>1, TerminateSync DEF JobFail, JobAt, Usable, Verdicts
    <2>2. CASE ~(Usable /\ file[f] = "Alive")
      BY <1>29, <2>2 DEF JobFail, JobAt
    <2> QED
      BY <2>1, <2>2
  <1>30. ASSUME NEW k \in Kinds, NEW f \in Files, JobFailCut(k, f) PROVE SyncInv'
    BY <1>30 DEF JobFailCut, JobAt, Usable, TypeOK, Verdicts
  <1>31. ASSUME NEW k \in Kinds, NEW f \in Files, JobEmit(k, f) PROVE SyncInv'
    BY <1>31 DEF JobEmit, JobAt
  <1>32. ASSUME NEW f \in Files, JobQueue(f) PROVE SyncInv'
    BY <1>32 DEF JobQueue, JobAt
  <1>33. ASSUME NEW f \in Files, JobPermit(f) PROVE SyncInv'
    BY <1>33 DEF JobPermit, JobAt
  <1>34. ASSUME NEW f \in Files, Pause(f) PROVE SyncInv'
    BY <1>34 DEF Pause
  <1>35. ASSUME ApiSend PROVE SyncInv'
    BY <1>35 DEF ApiSend, ControlInv, insert_transfer, NoRows
  <1>36. ASSUME ApiCancel PROVE SyncInv'
    <2>1. CASE xfer = "New"
      BY <1>36, <2>1, RemoveSync DEF ApiCancel, Calls
    <2>2. CASE xfer # "New"
      BY <1>36, <2>2 DEF ApiCancel, Calls, Usable, update_transfer_sync_states, IsRestoredTerminal,
         TypeOK, Rows
    <2> QED
      BY <2>1, <2>2
  <1>37. ASSUME ApiPurge PROVE SyncInv'
    BY <1>37 DEF ApiPurge, Calls, purge_transfers, IsRestoredTerminal, TypeOK, Rows
  <1>38. ASSUME NEW f \in Files, ApiReject(f) PROVE SyncInv'
    BY <1>38, TerminateSync DEF ApiReject, Calls, Usable, Verdicts
  <1>39. ASSUME ApiRejectEmit PROVE SyncInv'
    BY <1>39 DEF ApiRejectEmit
  <1>40. ASSUME ApiCancelEmit PROVE SyncInv'
    BY <1>40 DEF ApiCancelEmit
  <1>41. ASSUME EventTask PROVE SyncInv'
    <2> DEFINE e == Head(evq)
    <2>1. db' = StoredBy(e) /\ e \in EventSet
      BY <1>41, QueueHead DEF EventTask
    <2>2. /\ db'.sync = db.sync /\ db'.row = db.row /\ db'.file = db.file
          /\ \A f \in Files : db.hist[f] \subseteq db'.hist[f]
      BY <2>1, StoredRows
    <2> QED
      BY <1>41, <2>2 DEF EventTask, IsRestoredTerminal
  <1>42. ASSUME Crash PROVE SyncInv'
    BY <1>42 DEF Crash, Down
  <1>43. ASSUME CrashInEventTask PROVE SyncInv'
    <2>1. db'.sync = db.sync /\ db'.row = db.row
      BY <1>43, QueueHead, StoredRows DEF CrashInEventTask
    <2> QED
      BY <1>43, <2>1 DEF CrashInEventTask, Down
  <1>44. ASSUME Restart PROVE SyncInv'
    <2>1. xfer = "Absent"
      BY <1>44 DEF Restart, ControlInv
    <2>2. db'.sync # "None" => db'.row
      BY <1>44 DEF Restart, cleanup_garbage_transfers, NoRows
    <2>3. CASE db'.sync = "None"
      BY <1>44, <2>1, <2>2, <2>3 DEF Restart
    <2>4. CASE db'.sync # "None"
      BY <1>44, <2>2, <2>4 DEF Restart, RestoredFile, RestoredVerdict, IsRestoredTerminal, Verdicts
    <2> QED
      BY <2>3, <2>4
  <1>45. CASE UNCHANGED vars
    BY <1>45 DEF vars
  <1> QED
    BY <1>1, <1>2, <1>3, <1>4, <1>5, <1>6, <1>7, <1>8, <1>9, <1>10, <1>11, <1>12, <1>13, <1>14,
       <1>15, <1>16, <1>17, <1>18, <1>19, <1>20, <1>21, <1>22, <1>23, <1>24, <1>25, <1>26,
       <1>27, <1>28, <1>29, <1>30, <1>31, <1>32, <1>33, <1>34, <1>35, <1>36, <1>37, <1>38,
       <1>39, <1>40, <1>41, <1>42, <1>43, <1>44, <1>45
       DEF Next, Dial, Request, Message, Handler, Job, Api, ApiRest

-----------------------------------------------------------------------------
(* The way of a verdict to the application.                                *)

\* Who is about to report a verdict on a file, and which: the loop, the API
\* call, or one of the jobs of the file.
Speakers == Kinds \cup {"loop", "api"}

Speaks(s, f) ==
  \/ s = "loop" /\ pc.op \in Verdicts /\ pc.f = f
  \/ s = "api" /\ api.op = "reject" /\ api.f = f
  \/ s \in Kinds /\ job[s][f] = "posted"

Says(s) == IF s = "loop" THEN pc.op ELSE IF s = "api" THEN "Rejected" ELSE "Failed"

About(i, f) == evq[i].k \in Verdicts /\ evq[i].f = f
Queued(f)   == \E i \in DOMAIN evq : About(i, f)

\* The verdict on a file is in one place on its way: with one speaker, then in
\* one event, then in the history, then told.  The history is lost only when
\* the rows of the transfer are.
OnItsWay(f) ==
  /\ \A s, t \in Speakers : Speaks(s, f) /\ Speaks(t, f) => s = t
  /\ \A s \in Speakers : Speaks(s, f) => ~Queued(f)
  /\ \A i, j \in DOMAIN evq : About(i, f) /\ About(j, f) => i = j
  /\ (\E s \in Speakers : Speaks(s, f)) \/ Queued(f) => told[f] = <<>> /\ db.hist[f] = {}

Arrived(f) ==
  \/ told[f] = <<>> /\ db.hist[f] = {}
  \/ \E v \in Verdicts : told[f] = <<>> /\ db.hist[f] = {v}
  \/ \E v \in Verdicts : told[f] = <<v>> /\ db.hist[f] = {v}
  \/ \E v \in Verdicts : told[f] = <<v>> /\ db.hist[f] = {} /\ ~db.row

\* Wherever it is, it is the one the manager decided.
Agreed(f) ==
  /\ \A s \in Speakers : Speaks(s, f) => file[f] = Says(s)
  /\ \A i \in DOMAIN evq : About(i, f) => file[f] = evq[i].k
  /\ db.hist[f] \subseteq {file[f]}
  /\ told[f] \in {<<>>, <<file[f]>>}

VerdictInv ==
  \A f \in Files : /\ OnItsWay(f)
                   /\ Arrived(f)
                   /\ up /\ xfer # "Absent" => Agreed(f)

LEMMA VerdictInit == Init => VerdictInv
  <1> SUFFICES ASSUME Init, NEW f \in Files PROVE OnItsWay(f) /\ Arrived(f) /\ xfer = "Absent"
    BY DEF VerdictInv
  <1>1. \A s \in Speakers : ~Speaks(s, f)
    BY DEF Init, Speakers, Speaks, Select, ApiIdle, NoJobs, Verdicts
  <1>2. ~Queued(f)
    BY DEF Init, Queued
  <1>3. told[f] = <<>> /\ db.hist[f] = {}
    BY DEF Init, NoRows
  <1> QED
    BY <1>1, <1>2, <1>3 DEF OnItsWay, Arrived, Queued, Init

\* A step that neither decides on a file nor moves a verdict on its way.
QuietQueue ==
  \A i \in DOMAIN evq' : evq'[i].k \in Verdicts => i \in DOMAIN evq /\ evq'[i] = evq[i]

QuietStep ==
  /\ pc' = pc \/ pc'.op \notin Verdicts
  /\ api' = api \/ api'.op # "reject"
  /\ \A k \in Kinds, f \in Files : job'[k][f] = "posted" => job[k][f] = "posted"
  /\ QuietQueue
  /\ told' = told
  /\ db'.hist = db.hist
  /\ db'.row = db.row
  /\ up' /\ xfer' # "Absent" => up /\ xfer # "Absent" /\ file' = file

LEMMA QuietKeeps ==
  ASSUME VerdictInv, QuietStep
  PROVE  VerdictInv'
  <1> SUFFICES ASSUME NEW f \in Files
               PROVE  OnItsWay(f)' /\ Arrived(f)' /\ (up' /\ xfer' # "Absent" => Agreed(f)')
    BY DEF VerdictInv
  <1>1. \A s \in Speakers : Speaks(s, f)' => Speaks(s, f) /\ Says(s)' = Says(s)
    BY DEF QuietStep, Speakers, Kinds, Speaks, Says
  <1>2. \A i \in DOMAIN evq' : About(i, f)' => i \in DOMAIN evq /\ About(i, f) /\ evq'[i] = evq[i]
    BY DEF QuietStep, QuietQueue, About
  <1>3. Queued(f)' => Queued(f)
    BY <1>2 DEF Queued
  <1>4. told'[f] = told[f] /\ db'.hist[f] = db.hist[f] /\ db'.row = db.row
    BY DEF QuietStep
  <1>5. OnItsWay(f)'
    BY <1>1, <1>2, <1>3, <1>4 DEF VerdictInv, OnItsWay
  <1>6. Arrived(f)'
    BY <1>4 DEF VerdictInv, Arrived
  <1>7. ASSUME up', xfer' # "Absent" PROVE Agreed(f)'
    BY <1>1, <1>2, <1>4, <1>7 DEF VerdictInv, Agreed, QuietStep
  <1> QED
    BY <1>5, <1>6, <1>7

LEMMA QuietReport ==
  ASSUME TypeOK, NEW p, NEW k, NEW f, Ev(k, f) \in EventSet, k \notin Verdicts, Report(p, k, f)
  PROVE  QuietQueue
  BY DEF TypeOK, Report, Emit, Ev, QuietQueue

LEMMA QuietJob ==
  ASSUME TypeOK, NEW k \in Kinds, NEW f \in Files, NEW s, s # "posted", JobTo(k, f, s)
  PROVE  \A l \in Kinds, g \in Files : job'[l][g] = "posted" => job[l][g] = "posted"
  BY DEF TypeOK, JobTo

LEMMA QuietRows ==
  ASSUME TypeOK
  PROVE  /\ transfer_sync_clear(db).row = db.row
         /\ transfer_sync_clear(db).hist = db.hist
         /\ \A s \in SyncState : /\ update_transfer_sync_states(db, s).row = db.row
                                 /\ update_transfer_sync_states(db, s).hist = db.hist
         /\ purge_transfers(db).row = db.row
         /\ purge_transfers(db).hist = db.hist
  BY DEF TypeOK, Rows, transfer_sync_clear, update_transfer_sync_states, purge_transfers

\* A file without a verdict: nobody is about to report one on it.
LEMMA AliveIsSilent ==
  ASSUME TypeOK, VerdictInv, up, xfer # "Absent", NEW f \in Files, file[f] = "Alive"
  PROVE  /\ \A s \in Speakers : ~Speaks(s, f)
         /\ ~Queued(f)
         /\ told[f] = <<>>
         /\ db.hist[f] = {}
  <1>1. Agreed(f) /\ Arrived(f)
    BY DEF VerdictInv
  <1>2. "Alive" \notin Verdicts
    BY DEF Verdicts
  <1>3. \A s \in Speakers : Speaks(s, f) => Says(s) \in Verdicts
    BY DEF Speakers, Kinds, Speaks, Says, Verdicts
  <1>4. \A s \in Speakers : ~Speaks(s, f)
    BY <1>1, <1>2, <1>3 DEF Agreed
  <1>5. ~Queued(f)
    BY <1>1, <1>2 DEF Agreed, Queued, About
  <1>6. db.hist[f] = {}
    BY <1>1, <1>2 DEF Agreed, TypeOK, Rows
  <1>7. told[f] = <<>>
    <2>1. told[f] # <<"Alive">>
      <3>1. told[f] \in Seq(Verdicts)
        BY DEF TypeOK
      <3>2. \A s \in Seq(Verdicts) : Len(s) = 1 => s[1] \in Verdicts
        OBVIOUS
      <3> QED
        BY <1>2, <3>1, <3>2, SingleSeq
    <2> QED
      BY <1>1, <2>1 DEF Agreed
  <1> QED
    BY <1>4, <1>5, <1>6, <1>7

\* One speaker decides on a file, or the decision goes unreported.
Decision(f, v, t) ==
  /\ up /\ xfer # "Absent" /\ file[f] = "Alive"
  /\ file' = [file EXCEPT ![f] = v]
  /\ \A s \in Speakers, g \in Files :
       Speaks(s, g)' => \/ Speaks(s, g) /\ Says(s)' = Says(s)
                        \/ s = t /\ g = f /\ Says(s)' = v
  /\ evq' = evq /\ told' = told
  /\ db'.hist = db.hist /\ db'.row = db.row

LEMMA DecisionKeeps ==
  ASSUME TypeOK, VerdictInv,
         NEW f \in Files, NEW v \in Verdicts, NEW t \in Speakers, Decision(f, v, t)
  PROVE  VerdictInv'
  <1> SUFFICES ASSUME NEW g \in Files
               PROVE  OnItsWay(g)' /\ Arrived(g)' /\ Agreed(g)'
    BY DEF VerdictInv
  <1>0. file' = [file EXCEPT ![f] = v] /\ up /\ xfer # "Absent" /\ file[f] = "Alive"
    BY DEF Decision
  <1>1. told'[g] = told[g] /\ db'.hist[g] = db.hist[g] /\ db'.row = db.row
    BY DEF Decision
  <1>2. \A i : About(i, g)' <=> About(i, g)
    BY DEF Decision, About
  <1>3. Queued(g)' <=> Queued(g)
    BY <1>2 DEF Decision, Queued
  <1>4. Arrived(g)'
    BY <1>1 DEF VerdictInv, Arrived
  <1>5. CASE g = f
    <2>1. /\ \A s \in Speakers : ~Speaks(s, g)
          /\ ~Queued(g) /\ told[g] = <<>> /\ db.hist[g] = {}
      BY <1>0, <1>5, AliveIsSilent
    <2>2. \A s \in Speakers : Speaks(s, g)' => s = t /\ Says(s)' = v
      BY <2>1 DEF Decision
    <2>3. file'[g] = v
      BY <1>0, <1>5 DEF TypeOK
    <2>4. OnItsWay(g)'
      BY <1>1, <1>3, <2>1, <2>2 DEF OnItsWay, Queued
    <2>5. Agreed(g)'
      BY <1>1, <1>3, <2>1, <2>2, <2>3 DEF Agreed, Queued
    <2> QED
      BY <1>4, <2>4, <2>5
  <1>6. CASE g # f
    <2>1. \A s \in Speakers : Speaks(s, g)' => Speaks(s, g) /\ Says(s)' = Says(s)
      BY <1>6 DEF Decision
    <2>2. file'[g] = file[g]
      BY <1>0, <1>6 DEF TypeOK
    <2>3. OnItsWay(g) /\ Agreed(g) /\ evq' = evq
      BY <1>0 DEF VerdictInv, Decision
    <2>4. OnItsWay(g)'
      BY <1>1, <1>2, <1>3, <2>1, <2>3 DEF OnItsWay
    <2>5. Agreed(g)'
      BY <1>1, <1>2, <2>1, <2>2, <2>3 DEF Agreed
    <2> QED
      BY <1>4, <2>4, <2>5
  <1> QED
    BY <1>5, <1>6

\* The speaker reports its verdict, or its gate swallows it.
LEMMA ReportKeeps ==
  ASSUME TypeOK, VerdictInv,
         NEW f \in Files, NEW t \in Speakers, Speaks(t, f), Says(t) \in Verdicts,
         NEW p, Report(p, Says(t), f),
         \A s \in Speakers, g \in Files :
           Speaks(s, g)' => Speaks(s, g) /\ Says(s)' = Says(s) /\ (g = f => s # t),
         told' = told, db' = db, file' = file, xfer' = xfer, up' = up
  PROVE  VerdictInv'
  <1> SUFFICES ASSUME NEW g \in Files
               PROVE  /\ OnItsWay(g)' /\ Arrived(g)'
                      /\ up' /\ xfer' # "Absent" => Agreed(g)'
    BY DEF VerdictInv
  <1>1. Arrived(g)'
    BY DEF VerdictInv, Arrived
  <1> DEFINE e == Ev(Says(t), f)
  <1>2. e \in EventSet /\ e.k = Says(t) /\ e.f = f
    BY EventsTyped DEF Ev
  <1>3. evq \in Seq(EventSet) /\ (evq' = evq \/ evq' = Append(evq, e))
    BY DEF Report, Emit, TypeOK
  <1> HIDE DEF e
  <1>4. /\ Len(evq) \in Nat /\ DOMAIN evq = 1 .. Len(evq)
        /\ \A i \in DOMAIN evq : i \in DOMAIN evq' /\ evq'[i] = evq[i]
        /\ \A i \in DOMAIN evq' : i \in DOMAIN evq \/ (i = Len(evq) + 1 /\ evq'[i] = e)
    <2>1. CASE evq' = evq
      BY <1>3, <2>1, SeqDomain
    <2>2. CASE evq' = Append(evq, e)
      BY <1>2, <1>3, <2>2, AppendElements
    <2> QED
      BY <1>3, <2>1, <2>2
  <1>5. OnItsWay(g)
    BY DEF VerdictInv
  <1>6. CASE g # f
    <2>1. \A i \in DOMAIN evq' : About(i, g)' => i \in DOMAIN evq /\ About(i, g) /\ evq'[i] = evq[i]
      BY <1>2, <1>4, <1>6 DEF About
    <2>2. Queued(g)' => Queued(g)
      BY <2>1 DEF Queued
    <2>3. OnItsWay(g)'
      BY <1>5, <2>1, <2>2 DEF OnItsWay
    <2>4. up' /\ xfer' # "Absent" => Agreed(g)'
      BY <2>1 DEF VerdictInv, Agreed
    <2> QED
      BY <1>1, <2>3, <2>4
  <1>7. CASE g = f
    <2>1. ~Queued(g) /\ told[g] = <<>> /\ db.hist[g] = {}
      BY <1>5, <1>7 DEF OnItsWay
    <2>2. \A s \in Speakers : ~Speaks(s, g)'
      BY <1>5, <1>7 DEF OnItsWay
    <2>3. \A i \in DOMAIN evq' : About(i, g)' => i = Len(evq) + 1 /\ evq'[i] = e
      BY <1>4, <2>1 DEF About, Queued
    <2>4. OnItsWay(g)'
      BY <2>1, <2>2, <2>3 DEF OnItsWay
    <2>5. up' /\ xfer' # "Absent" => Agreed(g)'
      <3>1. up /\ xfer # "Absent" => file[g] = Says(t)
        BY <1>7 DEF VerdictInv, Agreed
      <3> QED
        BY <1>2, <2>1, <2>2, <2>3, <3>1 DEF Agreed
    <2> QED
      BY <1>1, <2>4, <2>5
  <1> QED
    BY <1>6, <1>7

\* What storing an event adds to the history of a file.
LEMMA StoredHist ==
  ASSUME TypeOK, NEW e \in EventSet, NEW f \in Files
  PROVE  /\ StoredBy(e).row = db.row
         /\ e.k \in Verdicts /\ e.f = f =>
              /\ db.row => StoredBy(e).hist[f] = db.hist[f] \cup {e.k}
              /\ ~db.row => StoredBy(e).hist[f] = db.hist[f]
         /\ ~(e.k \in Verdicts /\ e.f = f) => StoredBy(e).hist[f] = db.hist[f]
  <1>1. CASE e.k \in Verdicts
    <2>1. e.f \in Files /\ StoredBy(e) = insert_path_state(db, e.f, e.k)
      BY <1>1 DEF StoredBy, EventSet, Ending, Verdicts
    <2>2. CASE db.row
      <3>1. StoredBy(e) = [db EXCEPT !.hist[e.f] = @ \cup {e.k}]
        BY <2>1, <2>2 DEF insert_path_state
      <3>2. StoredBy(e).hist = [db.hist EXCEPT ![e.f] = @ \cup {e.k}] /\ StoredBy(e).row = db.row
        BY <3>1 DEF TypeOK, Rows
      <3> QED
        BY <1>1, <2>1, <2>2, <3>2 DEF TypeOK, Rows
    <2>3. CASE ~db.row
      BY <2>1, <2>3 DEF insert_path_state
    <2> QED
      BY <2>2, <2>3
  <1>2. CASE e.k \notin Verdicts
    BY <1>2 DEF StoredBy, insert_transfer_cancel_state, TypeOK, Rows
  <1> QED
    BY <1>1, <1>2

LEMMA VerdictStep == TypeOK /\ ControlInv /\ SyncInv /\ VerdictInv /\ [Next]_vars => VerdictInv'
  <1> SUFFICES ASSUME TypeOK, ControlInv, SyncInv, VerdictInv, [Next]_vars PROVE VerdictInv'
    OBVIOUS
  <1> USE DEF mgr, client, jobs, events, ghost, bounds
  <1>1. ASSUME DialDeferred PROVE VerdictInv'
    <2>1. QuietQueue
      BY <1>1, QuietReport, EventsTyped DEF DialDeferred, Verdicts
    <2>3. QuietStep
      BY <1>1, <2>1 DEF QuietStep, Select, Verdicts, DialDeferred, Dials
    <2> QED
      BY <2>3, QuietKeeps
  <1>2. ASSUME DialRefused PROVE VerdictInv'
    <2>1. QuietQueue
      BY <1>2 DEF DialRefused, Dials, Remove, QuietQueue
    <2>3. QuietStep
      BY <1>2, <2>1, QuietRows DEF QuietStep, Select, Verdicts, DialRefused, Dials, Remove
    <2> QED
      BY <2>3, QuietKeeps
  <1>3. ASSUME DialConnected PROVE VerdictInv'
    <2>1. QuietQueue
      BY <1>3 DEF DialConnected, Dials, QuietQueue
    <2>3. QuietStep
      BY <1>3, <2>1 DEF QuietStep, Select, Verdicts, DialConnected, Dials
    <2> QED
      BY <2>3, QuietKeeps
  <1>4. ASSUME OnReqReject PROVE VerdictInv'
    <2>1. QuietQueue
      BY <1>4 DEF OnReqReject, HasReq, Selecting, QuietQueue
    <2>3. QuietStep
      BY <1>4, <2>1 DEF QuietStep, Select, Verdicts, OnReqReject, HasReq, Selecting
    <2> QED
      BY <2>3, QuietKeeps
  <1>5. ASSUME OnReqFail PROVE VerdictInv'
    <2>1. QuietQueue
      BY <1>5 DEF OnReqFail, HasReq, Selecting, QuietQueue
    <2>3. QuietStep
      BY <1>5, <2>1 DEF QuietStep, Select, Verdicts, OnReqFail, HasReq, Selecting
    <2> QED
      BY <2>3, QuietKeeps
  <1>6. ASSUME OnReqClose PROVE VerdictInv'
    <2>1. QuietQueue
      BY <1>6 DEF OnReqClose, HasReq, Selecting, Then, QuietQueue
    <2>3. QuietStep
      BY <1>6, <2>1 DEF QuietStep, Select, Verdicts, OnReqClose, HasReq, Selecting, Then
    <2> QED
      BY <2>3, QuietKeeps
  <1>7. ASSUME RecvClose PROVE VerdictInv'
    <2>1. QuietQueue
      BY <1>7 DEF RecvClose, Receives, Selecting, Then, QuietQueue
    <2>3. QuietStep
      BY <1>7, <2>1 DEF QuietStep, Select, Verdicts, RecvClose, Receives, Selecting, Then
    <2> QED
      BY <2>3, QuietKeeps
  <1>8. ASSUME NEW m \in {"Done", "Error", "Reject"}, NEW f \in Files, RecvVerdict(m, f) PROVE VerdictInv'
    <2>1. CASE xfer # "Absent" /\ file[f] = "Alive"
      <3>1. /\ xfer # "Absent" /\ file[f] = "Alive" /\ up
            /\ file' = [file EXCEPT ![f] = VerdictOf(m)] /\ VerdictOf(m) \in Verdicts
        BY <1>8, <2>1 DEF RecvVerdict, Receives, Selecting, Then, Terminate, Usable, VerdictOf, Verdicts
      <3>2. db'.hist = db.hist /\ db'.row = db.row
        BY <1>8, <2>1 DEF RecvVerdict, Receives, Selecting, Then, Terminate, update_file_sync_states, TypeOK, Rows
      <3>3. \A s \in Speakers, g \in Files :
              Speaks(s, g)' => \/ Speaks(s, g) /\ Says(s)' = Says(s)
                               \/ s = "loop" /\ g = f /\ Says(s)' = VerdictOf(m)
        BY <1>8, <2>1, <3>1 DEF RecvVerdict, Receives, Selecting, Then, Terminate, Speakers, Kinds, Speaks, Says, Select
      <3>4. "loop" \in Speakers /\ evq' = evq /\ told' = told
        BY <1>8 DEF RecvVerdict, Receives, Selecting, Then, Terminate, Speakers
      <3>5. Decision(f, VerdictOf(m), "loop")
        BY <3>1, <3>2, <3>3, <3>4 DEF Decision
      <3> QED
        BY <3>1, <3>4, <3>5, DecisionKeeps
    <2>2. CASE ~(xfer # "Absent" /\ file[f] = "Alive")
      <3>1. QuietStep
        BY <1>8, <2>2 DEF QuietStep, QuietQueue, Verdicts, RecvVerdict, Receives, Selecting, Then
      <3> QED
        BY <3>1, QuietKeeps
    <2> QED
      BY <2>1, <2>2
  <1>9. ASSUME NEW f \in Files, RecvCancel(f) PROVE VerdictInv'
    <2>1. QuietQueue
      BY <1>9, QuietReport, EventsTyped DEF RecvCancel, Verdicts
    <2>3. QuietStep
      BY <1>9, <2>1 DEF QuietStep, Select, Verdicts, RecvCancel, Receives, Selecting
    <2> QED
      BY <2>3, QuietKeeps
  <1>10. ASSUME NEW f \in Files, RecvStart(f) PROVE VerdictInv'
    <2>1. QuietQueue
      BY <1>10 DEF RecvStart, Receives, Selecting, Then, QuietQueue
    <2>3. QuietStep
      BY <1>10, <2>1 DEF QuietStep, Select, Verdicts, RecvStart, Receives, Selecting, Then
    <2> QED
      BY <2>3, QuietKeeps
  <1>11. ASSUME NEW f \in Files, RecvReqChsum(f) PROVE VerdictInv'
    <2>1. QuietQueue
      BY <1>11 DEF RecvReqChsum, Receives, Selecting, QuietQueue
    <2>3. QuietStep
      BY <1>11, <2>1 DEF QuietStep, Select, Verdicts, RecvReqChsum, Receives, Selecting, TypeOK
    <2> QED
      BY <2>3, QuietKeeps
  <1>12. ASSUME LinkBroken PROVE VerdictInv'
    <2>1. QuietQueue
      BY <1>12 DEF LinkBroken, Selecting, QuietQueue
    <2>3. QuietStep
      BY <1>12, <2>1 DEF QuietStep, Select, Verdicts, LinkBroken, Selecting
    <2> QED
      BY <2>3, QuietKeeps
  <1>13. ASSUME DialRefusedEmit PROVE VerdictInv'
    <2>1. QuietQueue
      BY <1>13, QuietReport, EventsTyped DEF DialRefusedEmit, Verdicts
    <2>3. QuietStep
      BY <1>13, <2>1 DEF QuietStep, Select, Verdicts, DialRefusedEmit
    <2> QED
      BY <2>3, QuietKeeps
  <1>14. ASSUME Connected PROVE VerdictInv'
    <2>1. QuietQueue
      BY <1>14 DEF Connected, Activated, Usable, QuietQueue
    <2>3. QuietStep
      BY <1>14, <2>1, QuietRows DEF QuietStep, Select, Verdicts, Connected, Activated, Usable,
         SyncState
    <2> QED
      BY <2>3, QuietKeeps
  <1>15. ASSUME HelloSent PROVE VerdictInv'
    <2>1. QuietQueue
      BY <1>15 DEF HelloSent, QuietQueue
    <2>3. QuietStep
      BY <1>15, <2>1 DEF QuietStep, Select, Verdicts, HelloSent
    <2> QED
      BY <2>3, QuietKeeps
  <1>16. ASSUME HelloFailed PROVE VerdictInv'
    <2>1. QuietQueue
      BY <1>16 DEF HelloFailed, QuietQueue
    <2>3. QuietStep
      BY <1>16, <2>1 DEF QuietStep, Select, Verdicts, HelloFailed
    <2> QED
      BY <2>3, QuietKeeps
  <1>17. ASSUME OnReqCloseRemove PROVE VerdictInv'
    <2>1. QuietQueue
      BY <1>17 DEF OnReqCloseRemove, At, Remove, QuietQueue
    <2>3. QuietStep
      BY <1>17, <2>1, QuietRows DEF QuietStep, Select, Verdicts, OnReqCloseRemove, At, Remove
    <2> QED
      BY <2>3, QuietKeeps
  <1>18. ASSUME RecvCloseRemove PROVE VerdictInv'
    <2>1. QuietQueue
      BY <1>18 DEF RecvCloseRemove, At, Remove, Then, QuietQueue
    <2>3. QuietStep
      BY <1>18, <2>1, QuietRows DEF QuietStep, Select, Verdicts, RecvCloseRemove, At, Remove,
         Then
    <2> QED
      BY <2>3, QuietKeeps
  <1>19. ASSUME RecvCloseCancel PROVE VerdictInv'
    <2>1. QuietQueue
      BY <1>19, QuietReport, EventsTyped DEF RecvCloseCancel, Verdicts
    <2>3. QuietStep
      BY <1>19, <2>1 DEF QuietStep, Select, Verdicts, RecvCloseCancel, At
    <2> QED
      BY <2>3, QuietKeeps
  <1>20. ASSUME RecvVerdictEmit PROVE VerdictInv'
    <2>1. pc.f \in Files /\ "loop" \in Speakers /\ Speaks("loop", pc.f) /\ Says("loop") = pc.op /\ pc.op \in Verdicts
      BY <1>20 DEF RecvVerdictEmit, At, Then, Speakers, Kinds, Speaks, Says, Verdicts, TypeOK, HandlerPc, Select
    <2>2. \A s \in Speakers, g \in Files :
            Speaks(s, g)' => Speaks(s, g) /\ Says(s)' = Says(s) /\ (g = pc.f => s # "loop")
      BY <1>20 DEF RecvVerdictEmit, At, Then, Speakers, Kinds, Speaks, Says, Verdicts
    <2>3. /\ Report(terminate_emits(fev[pc.f]), Says("loop"), pc.f)
          /\ told' = told /\ db' = db /\ file' = file /\ xfer' = xfer /\ up' = up
      BY <1>20, <2>1 DEF RecvVerdictEmit
    <2> QED
      BY <2>1, <2>2, <2>3, ReportKeeps
  <1>21. ASSUME RecvVerdictStop PROVE VerdictInv'
    <2>1. QuietQueue
      BY <1>21 DEF RecvVerdictStop, At, QuietQueue
    <2>3. QuietStep
      BY <1>21, <2>1 DEF QuietStep, Select, Verdicts, RecvVerdictStop, At
    <2> QED
      BY <2>3, QuietKeeps
  <1>22. ASSUME StartEvents PROVE VerdictInv'
    <2>1. QuietQueue
      BY <1>22 DEF StartEvents, At, Then, QuietQueue
    <2>3. QuietStep
      BY <1>22, <2>1 DEF QuietStep, Select, Verdicts, StartEvents, At, Then
    <2> QED
      BY <2>3, QuietKeeps
  <1>23. ASSUME StartUpload PROVE VerdictInv'
    <2>1. QuietQueue
      <3>1. pc.f \in Files
        BY <1>23 DEF StartUpload, At, TypeOK, HandlerPc, Select
      <3>2. \A k \in {"Started", "Throttled"} : Ev(k, pc.f) \in EventSet /\ k \notin Verdicts
        BY <3>1, EventsTyped DEF Verdicts
      <3>3. CASE Free > Len(waitq)
        BY <1>23, <3>2, <3>3, QuietReport DEF StartUpload
      <3>4. CASE ~(Free > Len(waitq))
        BY <1>23, <3>2, <3>4, QuietReport DEF StartUpload
      <3> QED
        BY <3>3, <3>4
    <2>3. QuietStep
      BY <1>23, <2>1 DEF QuietStep, Select, Verdicts, StartUpload, At, TypeOK
    <2> QED
      BY <2>3, QuietKeeps
  <1>24. ASSUME RunReturns PROVE VerdictInv'
    <2>1. QuietQueue
      BY <1>24 DEF RunReturns, QuietQueue
    <2>3. QuietStep
      BY <1>24, <2>1 DEF QuietStep, Select, Verdicts, RunReturns
    <2> QED
      BY <2>3, QuietKeeps
  <1>25. ASSUME Disconnect PROVE VerdictInv'
    <2>1. QuietQueue
      BY <1>25 DEF Disconnect, QuietQueue
    <2>3. QuietStep
      BY <1>25, <2>1 DEF QuietStep, Select, Verdicts, Disconnect
    <2> QED
      BY <2>3, QuietKeeps
  <1>26. ASSUME Drained PROVE VerdictInv'
    <2>1. QuietQueue
      BY <1>26 DEF Drained, QuietQueue
    <2>3. QuietStep
      BY <1>26, <2>1 DEF QuietStep, Select, Verdicts, Drained
    <2> QED
      BY <2>3, QuietKeeps
  <1>27. ASSUME NEW k \in Kinds, NEW f \in Files, JobAborted(k, f) PROVE VerdictInv'
    <2>1. QuietQueue
      BY <1>27 DEF JobAborted, QuietQueue
    <2>2. \A l \in Kinds, g \in Files : job'[l][g] = "posted" => job[l][g] = "posted"
      BY <1>27, QuietJob DEF JobAborted, Kinds
    <2>3. QuietStep
      BY <1>27, <2>1, <2>2 DEF QuietStep, Select, Verdicts, JobAborted
    <2> QED
      BY <2>3, QuietKeeps
  <1>28. ASSUME NEW k \in Kinds, NEW f \in Files, JobSent(k, f) PROVE VerdictInv'
    <2>1. QuietQueue
      BY <1>28 DEF JobSent, JobAt, QuietQueue
    <2>2. \A l \in Kinds, g \in Files : job'[l][g] = "posted" => job[l][g] = "posted"
      BY <1>28, QuietJob DEF JobSent, Kinds
    <2>3. QuietStep
      BY <1>28, <2>1, <2>2 DEF QuietStep, Select, Verdicts, JobSent, JobAt
    <2> QED
      BY <2>3, QuietKeeps
  <1>29. ASSUME NEW k \in Kinds, NEW f \in Files, JobFail(k, f) PROVE VerdictInv'
    <2>1. CASE Usable /\ file[f] = "Alive"
      <3>1. /\ xfer # "Absent" /\ file[f] = "Alive" /\ up
            /\ file' = [file EXCEPT ![f] = "Failed"] /\ "Failed" \in Verdicts
        BY <1>29, <2>1 DEF JobFail, JobAt, Usable, Terminate, VerdictOf, Verdicts
      <3>2. db'.hist = db.hist /\ db'.row = db.row
        BY <1>29, <2>1 DEF JobFail, JobAt, Usable, Terminate, update_file_sync_states, TypeOK, Rows
      <3>3. \A s \in Speakers, g \in Files :
              Speaks(s, g)' => \/ Speaks(s, g) /\ Says(s)' = Says(s)
                               \/ s = k /\ g = f /\ Says(s)' = "Failed"
        BY <1>29, <2>1, <3>1 DEF JobFail, JobAt, Usable, Terminate, Speakers, Kinds, Speaks, Says, Select, JobTo, TypeOK
      <3>4. k \in Speakers /\ evq' = evq /\ told' = told
        BY <1>29 DEF JobFail, JobAt, Usable, Terminate, Speakers
      <3>5. Decision(f, "Failed", k)
        BY <3>1, <3>2, <3>3, <3>4 DEF Decision
      <3> QED
        BY <3>1, <3>4, <3>5, DecisionKeeps
    <2>2. CASE ~(Usable /\ file[f] = "Alive")
      <3>1. \A l \in Kinds, g \in Files : job'[l][g] = "posted" => job[l][g] = "posted"
        BY <1>29, <2>2, QuietJob DEF JobFail
      <3>2. QuietStep
        BY <1>29, <2>2, <3>1 DEF QuietStep, QuietQueue, JobFail
      <3> QED
        BY <3>2, QuietKeeps
    <2> QED
      BY <2>1, <2>2
  <1>30. ASSUME NEW k \in Kinds, NEW f \in Files, JobFailCut(k, f) PROVE VerdictInv'
    <2>1. /\ xfer # "Absent" /\ file[f] = "Alive" /\ up
          /\ file' = [file EXCEPT ![f] = "Failed"] /\ "Failed" \in Verdicts
      BY <1>30 DEF JobFailCut, JobAt, Usable, Verdicts
    <2>2. \A l \in Kinds, g \in Files : job'[l][g] = "posted" => job[l][g] = "posted"
      BY <1>30, QuietJob DEF JobFailCut
    <2>3. \A s \in Speakers, g \in Files : Speaks(s, g)' => Speaks(s, g) /\ Says(s)' = Says(s)
      BY <1>30, <2>2 DEF JobFailCut, Speakers, Kinds, Speaks, Says
    <2>4. k \in Speakers /\ evq' = evq /\ told' = told /\ db' = db
      BY <1>30 DEF JobFailCut, Speakers
    <2>5. Decision(f, "Failed", k)
      BY <2>1, <2>3, <2>4 DEF Decision
    <2> QED
      BY <2>1, <2>4, <2>5, DecisionKeeps
  <1>31. ASSUME NEW k \in Kinds, NEW f \in Files, JobEmit(k, f) PROVE VerdictInv'
    <2>1. f \in Files /\ k \in Speakers /\ Speaks(k, f) /\ Says(k) = "Failed" /\ "Failed" \in Verdicts
      BY <1>31 DEF JobEmit, JobAt, Speakers, Kinds, Speaks, Says, Verdicts
    <2>2. \A s \in Speakers, g \in Files :
            Speaks(s, g)' => Speaks(s, g) /\ Says(s)' = Says(s) /\ (g = f => s # k)
      BY <1>31 DEF JobEmit, JobAt, Speakers, Kinds, Speaks, Says, Verdicts, JobTo, TypeOK
    <2>3. /\ Report(terminate_emits(fev[f]), Says(k), f)
          /\ told' = told /\ db' = db /\ file' = file /\ xfer' = xfer /\ up' = up
      BY <1>31, <2>1 DEF JobEmit
    <2> QED
      BY <2>1, <2>2, <2>3, ReportKeeps
  <1>32. ASSUME NEW f \in Files, JobQueue(f) PROVE VerdictInv'
    <2>1. QuietQueue
      BY <1>32 DEF JobQueue, JobAt, QuietQueue
    <2>2. \A l \in Kinds, g \in Files : job'[l][g] = "posted" => job[l][g] = "posted"
      BY <1>32, QuietJob DEF JobQueue, Kinds
    <2>3. QuietStep
      BY <1>32, <2>1, <2>2 DEF QuietStep, Select, Verdicts, JobQueue, JobAt
    <2> QED
      BY <2>3, QuietKeeps
  <1>33. ASSUME NEW f \in Files, JobPermit(f) PROVE VerdictInv'
    <2>1. QuietQueue
      BY <1>33, QuietReport, EventsTyped DEF JobPermit, Verdicts
    <2>2. \A l \in Kinds, g \in Files : job'[l][g] = "posted" => job[l][g] = "posted"
      BY <1>33, QuietJob DEF JobPermit, Kinds
    <2>3. QuietStep
      BY <1>33, <2>1, <2>2 DEF QuietStep, Select, Verdicts, JobPermit, JobAt
    <2> QED
      BY <2>3, QuietKeeps
  <1>34. ASSUME NEW f \in Files, Pause(f) PROVE VerdictInv'
    <2>1. QuietQueue
      BY <1>34, QuietReport, EventsTyped DEF Pause, Verdicts
    <2>3. QuietStep
      BY <1>34, <2>1 DEF QuietStep, Select, Verdicts, Pause
    <2> QED
      BY <2>3, QuietKeeps
  <1>35. ASSUME ApiSend PROVE VerdictInv'
    <2>1. \A s \in Speakers, f \in Files : ~Speaks(s, f)'
      BY <1>35 DEF ApiSend, ControlInv, Speakers, Speaks, Select, ApiIdle, NoJobs, Verdicts
    <2>2. evq = <<>> /\ QuietQueue
      <3>1. evq = <<>>
        BY <1>35 DEF ApiSend, ControlInv
      <3> QED
        BY <1>35, <3>1, QuietReport, EventsTyped DEF ApiSend, Verdicts
    <2>3. \A f \in Files : ~Queued(f)'
      BY <2>2 DEF QuietQueue, Queued, About
    <2>4. \A f \in Files : told'[f] = <<>> /\ db'.hist[f] = {}
      BY <1>35 DEF ApiSend, ControlInv, insert_transfer, NoRows
    <2> QED
      BY <2>1, <2>3, <2>4 DEF VerdictInv, OnItsWay, Arrived, Agreed, Queued
  <1>36. ASSUME ApiCancel PROVE VerdictInv'
    <2>1. QuietQueue
      BY <1>36 DEF ApiCancel, Calls, Usable, Remove, QuietQueue
    <2>3. QuietStep
      BY <1>36, <2>1, QuietRows DEF QuietStep, Select, Verdicts, ApiCancel, Calls, Usable,
         Remove, SyncState
    <2> QED
      BY <2>3, QuietKeeps
  <1>37. ASSUME ApiPurge PROVE VerdictInv'
    <2>1. QuietQueue
      BY <1>37 DEF ApiPurge, Calls, QuietQueue
    <2>3. QuietStep
      BY <1>37, <2>1, QuietRows DEF QuietStep, Select, Verdicts, ApiPurge, Calls
    <2> QED
      BY <2>3, QuietKeeps
  <1>38. ASSUME NEW f \in Files, ApiReject(f) PROVE VerdictInv'
    <2>1. /\ xfer # "Absent" /\ file[f] = "Alive" /\ up
          /\ file' = [file EXCEPT ![f] = "Rejected"] /\ "Rejected" \in Verdicts
      BY <1>38 DEF ApiReject, Calls, Usable, Terminate, Verdicts
    <2>2. db'.hist = db.hist /\ db'.row = db.row
      BY <1>38 DEF ApiReject, Terminate, update_file_sync_states, TypeOK, Rows
    <2>3. \A s \in Speakers, g \in Files :
            Speaks(s, g)' => \/ Speaks(s, g) /\ Says(s)' = Says(s)
                             \/ s = "api" /\ g = f /\ Says(s)' = "Rejected"
      BY <1>38 DEF ApiReject, Speakers, Kinds, Speaks, Says
    <2>4. "api" \in Speakers /\ evq' = evq /\ told' = told
      BY <1>38 DEF ApiReject, Speakers
    <2>5. Decision(f, "Rejected", "api")
      BY <2>1, <2>2, <2>3, <2>4 DEF Decision
    <2> QED
      BY <2>1, <2>4, <2>5, DecisionKeeps
  <1>39. ASSUME ApiRejectEmit PROVE VerdictInv'
    <2>1. api.f \in Files /\ "api" \in Speakers /\ Speaks("api", api.f) /\ Says("api") = "Rejected" /\ "Rejected" \in Verdicts
      BY <1>39 DEF ApiRejectEmit, Speakers, Kinds, Speaks, Says, Verdicts, TypeOK, ApiCall
    <2>2. \A s \in Speakers, g \in Files :
            Speaks(s, g)' => Speaks(s, g) /\ Says(s)' = Says(s) /\ (g = api.f => s # "api")
      BY <1>39 DEF ApiRejectEmit, Speakers, Kinds, Speaks, Says, Verdicts, ApiIdle
    <2>3. /\ Report(terminate_emits(fev[api.f]), Says("api"), api.f)
          /\ told' = told /\ db' = db /\ file' = file /\ xfer' = xfer /\ up' = up
      BY <1>39, <2>1 DEF ApiRejectEmit
    <2> QED
      BY <2>1, <2>2, <2>3, ReportKeeps
  <1>40. ASSUME ApiCancelEmit PROVE VerdictInv'
    <2>1. QuietQueue
      BY <1>40, QuietReport, EventsTyped DEF ApiCancelEmit, Verdicts
    <2>3. QuietStep
      BY <1>40, <2>1 DEF QuietStep, Select, Verdicts, ApiCancelEmit, ApiIdle
    <2> QED
      BY <2>3, QuietKeeps
  <1>41. ASSUME EventTask PROVE VerdictInv'
    <2> DEFINE e == Head(evq)
    <2>0. e \in EventSet /\ evq \in Seq(EventSet) /\ evq # <<>> /\ evq' = Tail(evq)
      BY <1>41, QueueHead DEF EventTask, TypeOK
    <2>1. /\ e = evq[1] /\ 1 \in DOMAIN evq
          /\ \A i \in DOMAIN evq' : i \in Nat \ {0} /\ i + 1 \in DOMAIN evq /\ evq'[i] = evq[i + 1]
      BY <2>0, TailElements
    <2>2. /\ db' = StoredBy(e) /\ up' = up /\ xfer' = xfer /\ file' = file
          /\ told' = IF e.k \in Verdicts THEN [told EXCEPT ![e.f] = Append(@, e.k)] ELSE told
      BY <1>41 DEF EventTask
    <2>3. \A s \in Speakers, f \in Files : (Speaks(s, f)' <=> Speaks(s, f)) /\ Says(s)' = Says(s)
      BY <1>41 DEF EventTask, Speakers, Kinds, Speaks, Says
    <2> HIDE DEF e
    <2> SUFFICES ASSUME NEW f \in Files
                 PROVE  /\ OnItsWay(f)' /\ Arrived(f)'
                        /\ up' /\ xfer' # "Absent" => Agreed(f)'
      BY DEF VerdictInv
    <2>4. OnItsWay(f) /\ Arrived(f) /\ (up /\ xfer # "Absent" => Agreed(f))
      BY DEF VerdictInv
    <2>5. \A i \in DOMAIN evq' : About(i, f)' => i + 1 \in DOMAIN evq /\ About(i + 1, f)
      BY <2>1 DEF About
    <2>6. CASE e.k \in Verdicts /\ e.f = f
      <3>1. About(1, f) /\ Queued(f)
        BY <2>1, <2>6 DEF About, Queued
      <3>2. \A i \in DOMAIN evq' : ~About(i, f)'
        <4> SUFFICES ASSUME NEW i \in DOMAIN evq', About(i, f)' PROVE FALSE
          OBVIOUS
        <4>1. i + 1 = 1
          BY <2>1, <2>4, <2>5, <3>1 DEF OnItsWay
        <4> QED
          BY <2>1, <4>1
      <3>3. \A s \in Speakers : ~Speaks(s, f)'
        BY <2>3, <2>4, <3>1 DEF OnItsWay
      <3>4. told[f] = <<>> /\ db.hist[f] = {}
        BY <2>4, <3>1 DEF OnItsWay
      <3>5. told'[f] = <<e.k>>
        BY <2>2, <2>6, <3>4 DEF TypeOK
      <3>6. db'.hist[f] = {e.k} \/ (db'.hist[f] = {} /\ ~db'.row)
        <4>1. db'.row = db.row /\ (~db.row => db'.hist[f] = {})
          BY <2>0, <2>2, <2>6, <3>4, StoredHist
        <4>2. db.row => db'.hist[f] = {} \cup {e.k}
          BY <2>0, <2>2, <2>6, <3>4, StoredHist, ZenonT(60)
        <4> QED
          BY <4>1, <4>2
      <3>7. up /\ xfer # "Absent" => file[f] = e.k
        BY <2>1, <2>4, <3>1 DEF Agreed
      <3>8. OnItsWay(f)'
        BY <3>2, <3>3 DEF OnItsWay, Queued
      <3>9. Arrived(f)'
        BY <2>6, <3>5, <3>6 DEF Arrived
      <3>10. up' /\ xfer' # "Absent" => Agreed(f)'
        BY <2>2, <3>2, <3>3, <3>5, <3>6, <3>7 DEF Agreed
      <3> QED
        BY <3>8, <3>9, <3>10
    <2>7. CASE ~(e.k \in Verdicts /\ e.f = f)
      <3>1. told'[f] = told[f]
        BY <2>0, <2>2, <2>7 DEF TypeOK
      <3>2. db'.hist[f] = db.hist[f] /\ db'.row = db.row
        BY <2>0, <2>2, <2>7, StoredHist
      <3>3. Queued(f)' => Queued(f)
        BY <2>5 DEF Queued
      <3>4. \A i, j \in DOMAIN evq' : About(i, f)' /\ About(j, f)' => i = j
        <4> SUFFICES ASSUME NEW i \in DOMAIN evq', NEW j \in DOMAIN evq', About(i, f)', About(j, f)'
                     PROVE  i = j
          OBVIOUS
        <4>1. i + 1 = j + 1
          BY <2>4, <2>5 DEF OnItsWay
        <4> QED
          BY <2>1, <4>1
      <3>5. OnItsWay(f)'
        BY <2>3, <2>4, <3>1, <3>2, <3>3, <3>4 DEF OnItsWay
      <3>6. Arrived(f)'
        BY <2>4, <3>1, <3>2 DEF Arrived
      <3>7. up' /\ xfer' # "Absent" => Agreed(f)'
        BY <2>1, <2>2, <2>3, <2>4, <2>5, <3>1, <3>2 DEF Agreed
      <3> QED
        BY <3>5, <3>6, <3>7
    <2> QED
      BY <2>6, <2>7
  <1>42. ASSUME Crash PROVE VerdictInv'
    <2>1. QuietQueue
      BY <1>42 DEF Crash, Down, QuietQueue
    <2>3. QuietStep
      BY <1>42, <2>1 DEF QuietStep, Select, Verdicts, Crash, Down, ApiIdle, NoJobs
    <2> QED
      BY <2>3, QuietKeeps
  <1>43. ASSUME CrashInEventTask PROVE VerdictInv'
    <2> DEFINE e == Head(evq)
    <2>0. e \in EventSet
      BY <1>43, QueueHead DEF CrashInEventTask
    <2>1. e = evq[1] /\ 1 \in DOMAIN evq
      BY <1>43, TailElements DEF CrashInEventTask, TypeOK
    <2>2. db' = StoredBy(e) /\ told' = told /\ evq' = <<>> /\ ~up'
      BY <1>43 DEF CrashInEventTask, Down
    <2>3. \A s \in Speakers, f \in Files : ~Speaks(s, f)'
      BY <1>43 DEF CrashInEventTask, Down, Speakers, Speaks, Select, ApiIdle, NoJobs, Verdicts
    <2> HIDE DEF e
    <2> SUFFICES ASSUME NEW f \in Files PROVE OnItsWay(f)' /\ Arrived(f)'
      BY <2>2 DEF VerdictInv
    <2>4. OnItsWay(f) /\ Arrived(f)
      BY DEF VerdictInv
    <2>5. OnItsWay(f)'
      BY <2>2, <2>3 DEF OnItsWay, Queued
    <2>6. CASE e.k \in Verdicts /\ e.f = f
      <3>1. told[f] = <<>> /\ db.hist[f] = {}
        BY <2>1, <2>4, <2>6 DEF OnItsWay, Queued, About
      <3>2. db'.hist[f] = {e.k} \/ db'.hist[f] = {}
        <4>1. ~db.row => db'.hist[f] = {}
          BY <2>0, <2>2, <2>6, <3>1, StoredHist
        <4>2. db.row => db'.hist[f] = {} \cup {e.k}
          BY <2>0, <2>2, <2>6, <3>1, StoredHist, ZenonT(60)
        <4> QED
          BY <4>1, <4>2
      <3> QED
        BY <2>2, <2>5, <2>6, <3>1, <3>2 DEF Arrived
    <2>7. CASE ~(e.k \in Verdicts /\ e.f = f)
      BY <2>0, <2>2, <2>4, <2>5, <2>7, StoredHist DEF Arrived
    <2> QED
      BY <2>6, <2>7
  <1>44. ASSUME Restart PROVE VerdictInv'
    <2>1. evq' = evq /\ evq = <<>> /\ told' = told
      BY <1>44 DEF Restart, ControlInv
    <2>2. \A s \in Speakers, f \in Files : ~Speaks(s, f)'
      BY <1>44 DEF Restart, ControlInv, Speakers, Speaks, Select, ApiIdle, NoJobs, Verdicts
    <2> SUFFICES ASSUME NEW f \in Files
                 PROVE  /\ OnItsWay(f)' /\ Arrived(f)'
                        /\ up' /\ xfer' # "Absent" => Agreed(f)'
      BY DEF VerdictInv
    <2>3. OnItsWay(f)'
      BY <2>1, <2>2 DEF OnItsWay, Queued
    <2>4. Arrived(f)
      BY DEF VerdictInv
    <2>5. CASE db' = NoRows
      <3>1. db'.hist[f] = {} /\ ~db'.row
        BY <2>5 DEF NoRows
      <3>2. xfer' = "Absent"
        BY <1>44, <2>5 DEF Restart, ControlInv, NoRows
      <3> QED
        BY <2>1, <2>3, <2>4, <3>1, <3>2 DEF Arrived
    <2>6. CASE db' = db
      <3>1. Arrived(f)'
        BY <2>1, <2>4, <2>6 DEF Arrived
      <3>2. ASSUME xfer' # "Absent" PROVE Agreed(f)'
        <4>1. db.sync # "None" /\ file'[f] = RestoredFile(db, f)
          BY <1>44, <2>6, <3>2 DEF Restart, ControlInv
        <4>2. db.row
          BY <4>1 DEF SyncInv
        <4>3. ASSUME NEW v \in Verdicts, db.hist[f] = {v} PROVE file'[f] = v
          BY <4>1, <4>3 DEF RestoredFile, RestoredVerdict, IsRestoredTerminal, Verdicts
        <4>4. db'.hist[f] \subseteq {file'[f]}
          BY <2>4, <2>6, <4>3 DEF Arrived
        <4>5. told'[f] \in {<<>>, <<file'[f]>>}
          BY <2>1, <2>4, <4>2, <4>3 DEF Arrived
        <4> QED
          BY <2>1, <2>2, <4>4, <4>5 DEF Agreed
      <3> QED
        BY <2>3, <3>1, <3>2
    <2> QED
      BY <1>44, <2>5, <2>6 DEF Restart, cleanup_garbage_transfers
  <1>45. CASE UNCHANGED vars
    BY <1>45, QuietKeeps DEF vars, QuietStep, QuietQueue
  <1> QED
    BY <1>1, <1>2, <1>3, <1>4, <1>5, <1>6, <1>7, <1>8, <1>9, <1>10, <1>11, <1>12, <1>13, <1>14,
       <1>15, <1>16, <1>17, <1>18, <1>19, <1>20, <1>21, <1>22, <1>23, <1>24, <1>25, <1>26,
       <1>27, <1>28, <1>29, <1>30, <1>31, <1>32, <1>33, <1>34, <1>35, <1>36, <1>37, <1>38,
       <1>39, <1>40, <1>41, <1>42, <1>43, <1>44, <1>45
       DEF Next, Dial, Request, Message, Handler, Job, Api, ApiRest

-----------------------------------------------------------------------------
(* The end of the transfer.                                                *)

\* The application was told that the transfer is over, or will be by an event
\* under way.
EndQueued == \E i \in DOMAIN evq : evq[i].k \in Ending
Over      == ends > 0 \/ EndQueued

\* It is told once; what is over has no sync row or a canceled one; whoever is
\* about to report the end has ended the transfer before; and while the gate
\* of the transfer is open nothing was reported, unless no client task is left
\* that could report anything.
EndOnce ==
  /\ ends \in {0, 1}
  /\ ends > 0 => ~EndQueued
  /\ \A i, j \in DOMAIN evq : evq[i].k \in Ending /\ evq[j].k \in Ending => i = j

Enders == cli = "failing" \/ pc.op = "cancel" \/ api.op = "cancel"

EndInv ==
  /\ EndOnce
  /\ Over => db.sync \in {"None", "Canceled"}
  /\ up /\ Enders => xfer \in {"Absent", "Canceled"}
  /\ up /\ xev = "Ongoing" /\ Over => cli = "none"

LEMMA EndInit == Init => EndInv
  BY DEF Init, EndInv, EndOnce, Over, EndQueued, NoRows

\* A step that reports no end.
NoEndQueued ==
  \A i \in DOMAIN evq' : evq'[i].k \in Ending => i \in DOMAIN evq /\ evq'[i] = evq[i]

NoEndStep ==
  /\ NoEndQueued
  /\ ends' = ends
  /\ Over => db'.sync = db.sync \/ db'.sync \in {"None", "Canceled"}
  /\ up' /\ xev' = "Ongoing" => up /\ xev = "Ongoing" /\ (cli = "none" => cli' = "none")
  /\ up' /\ Enders' => xfer' \in {"Absent", "Canceled"}

LEMMA NoEndKeeps ==
  ASSUME EndInv, NoEndStep
  PROVE  EndInv'
  <1>1. EndQueued' => EndQueued
    BY DEF NoEndStep, NoEndQueued, EndQueued
  <1>2. Over' => Over
    BY <1>1 DEF NoEndStep, Over
  <1>3. EndOnce'
    BY <1>1 DEF EndInv, EndOnce, NoEndStep, NoEndQueued
  <1> QED
    BY <1>2, <1>3 DEF EndInv, NoEndStep

LEMMA NoEndReport ==
  ASSUME TypeOK, NEW p, NEW k, NEW f, Ev(k, f) \in EventSet, k \notin Ending, Report(p, k, f)
  PROVE  NoEndQueued
  BY DEF TypeOK, Report, Emit, Ev, NoEndQueued

\* One that does: the gate lets the first through.
LEMMA EndReportKeeps ==
  ASSUME TypeOK, SyncInv, EndInv, up, cli # "none", Enders, xev' = finish(xev),
         NEW k \in Ending, Report(finish_emits(xev), k, NoFile),
         ends' = ends, db' = db, xfer' = xfer
  PROVE  EndInv'
  <1>1. xfer \in {"Absent", "Canceled"} /\ db.sync \in {"None", "Canceled"}
    BY DEF EndInv, SyncInv, TypeOK, Rows, SyncState
  <1>2. xev' # "Ongoing"
    BY DEF finish
  <1> DEFINE e == Ev(k, NoFile)
  <1>3. e \in EventSet /\ e.k = k
    BY EventsTyped DEF Ending, Ev
  <1>4. k \in Reported
    BY ReportedAssumption DEF Ending
  <1> HIDE DEF e
  <1>5. CASE xev = "Ongoing"
    <2>1. ~Over
      BY <1>5 DEF EndInv
    <2>2. evq' = Append(evq, e) /\ evq \in Seq(EventSet)
      BY <1>4, <1>5 DEF Report, Emit, finish_emits, e, TypeOK
    <2>3. \A i \in DOMAIN evq' : i \in DOMAIN evq \/ i = Len(evq) + 1
      BY <1>3, <2>2, AppendElements
    <2>4. \A i \in DOMAIN evq : evq'[i] = evq[i]
      BY <1>3, <2>2, AppendElements
    <2>5. \A i \in DOMAIN evq' : evq'[i].k \in Ending => i = Len(evq) + 1
      BY <2>1, <2>3, <2>4 DEF Over, EndQueued
    <2>6. EndOnce'
      BY <2>1, <2>5 DEF EndInv, EndOnce, Over
    <2> QED
      BY <1>1, <1>2, <2>6 DEF EndInv
  <1>6. CASE xev # "Ongoing"
    <2>1. evq' = evq
      BY <1>6 DEF Report, Emit, finish_emits
    <2> QED
      BY <1>1, <1>2, <2>1 DEF EndInv, EndOnce, EndQueued
  <1> QED
    BY <1>5, <1>6

\* A transfer that can be used is not over.
LEMMA UsableIsNotOver ==
  ASSUME SyncInv, EndInv, up, Usable
  PROVE  ~Over
  BY DEF SyncInv, EndInv, Usable

LEMMA EndStep == TypeOK /\ ControlInv /\ SyncInv /\ EndInv /\ [Next]_vars => EndInv'
  <1> SUFFICES ASSUME TypeOK, ControlInv, SyncInv, EndInv, [Next]_vars PROVE EndInv'
    OBVIOUS
  <1> USE DEF mgr, client, jobs, events, ghost, bounds
  <1>1. ASSUME DialDeferred PROVE EndInv'
    <2>1. NoEndQueued
      BY <1>1, NoEndReport, EventsTyped DEF DialDeferred, Ending, Verdicts
    <2>2. NoEndStep
      BY <1>1, <2>1 DEF NoEndStep, EndInv, Enders, DialDeferred, Dials, Select
    <2> QED
      BY <2>2, NoEndKeeps
  <1>2. ASSUME DialRefused PROVE EndInv'
    <2>1. NoEndQueued
      BY <1>2 DEF DialRefused, Dials, Remove, NoEndQueued
    <2>2. NoEndStep
      BY <1>2, <2>1 DEF NoEndStep, EndInv, Enders, DialRefused, Dials, Remove, Select,
         transfer_sync_clear, TypeOK, Rows
    <2> QED
      BY <2>2, NoEndKeeps
  <1>3. ASSUME DialConnected PROVE EndInv'
    <2>1. NoEndQueued
      BY <1>3 DEF DialConnected, Dials, NoEndQueued
    <2>2. NoEndStep
      BY <1>3, <2>1 DEF NoEndStep, EndInv, Enders, DialConnected, Dials, Select
    <2> QED
      BY <2>2, NoEndKeeps
  <1>4. ASSUME OnReqReject PROVE EndInv'
    <2>1. NoEndQueued
      BY <1>4 DEF OnReqReject, HasReq, Selecting, NoEndQueued
    <2>2. NoEndStep
      BY <1>4, <2>1 DEF NoEndStep, EndInv, Enders, OnReqReject, HasReq, Selecting, Select
    <2> QED
      BY <2>2, NoEndKeeps
  <1>5. ASSUME OnReqFail PROVE EndInv'
    <2>1. NoEndQueued
      BY <1>5 DEF OnReqFail, HasReq, Selecting, NoEndQueued
    <2>2. NoEndStep
      BY <1>5, <2>1 DEF NoEndStep, EndInv, Enders, OnReqFail, HasReq, Selecting, Select
    <2> QED
      BY <2>2, NoEndKeeps
  <1>6. ASSUME OnReqClose PROVE EndInv'
    <2>1. NoEndQueued
      BY <1>6 DEF OnReqClose, HasReq, Selecting, Then, NoEndQueued
    <2>2. NoEndStep
      BY <1>6, <2>1 DEF NoEndStep, EndInv, Enders, OnReqClose, HasReq, Selecting, Then, Select
    <2> QED
      BY <2>2, NoEndKeeps
  <1>7. ASSUME RecvClose PROVE EndInv'
    <2>1. NoEndQueued
      BY <1>7 DEF RecvClose, Receives, Selecting, Then, NoEndQueued
    <2>2. NoEndStep
      BY <1>7, <2>1 DEF NoEndStep, EndInv, Enders, RecvClose, Receives, Selecting, Then, Select
    <2> QED
      BY <2>2, NoEndKeeps
  <1>8. ASSUME NEW m \in {"Done", "Error", "Reject"}, NEW f \in Files, RecvVerdict(m, f) PROVE EndInv'
    <2>1. NoEndQueued
      BY <1>8 DEF RecvVerdict, Receives, Selecting, Then, Terminate, NoEndQueued
    <2>2. NoEndStep
      BY <1>8, <2>1 DEF VerdictOf, NoEndStep, EndInv, Enders, RecvVerdict, Receives, Selecting, Then,
         Terminate, Select, update_file_sync_states, TypeOK, Rows
    <2> QED
      BY <2>2, NoEndKeeps
  <1>9. ASSUME NEW f \in Files, RecvCancel(f) PROVE EndInv'
    <2>1. NoEndQueued
      BY <1>9, NoEndReport, EventsTyped DEF RecvCancel, Ending, Verdicts
    <2>2. NoEndStep
      BY <1>9, <2>1 DEF NoEndStep, EndInv, Enders, RecvCancel, Receives, Selecting, Select
    <2> QED
      BY <2>2, NoEndKeeps
  <1>10. ASSUME NEW f \in Files, RecvStart(f) PROVE EndInv'
    <2>1. NoEndQueued
      BY <1>10 DEF RecvStart, Receives, Selecting, Then, NoEndQueued
    <2>2. NoEndStep
      BY <1>10, <2>1 DEF NoEndStep, EndInv, Enders, RecvStart, Receives, Selecting, Then, Select
    <2> QED
      BY <2>2, NoEndKeeps
  <1>11. ASSUME NEW f \in Files, RecvReqChsum(f) PROVE EndInv'
    <2>1. NoEndQueued
      BY <1>11 DEF RecvReqChsum, Receives, Selecting, NoEndQueued
    <2>2. NoEndStep
      BY <1>11, <2>1 DEF NoEndStep, EndInv, Enders, RecvReqChsum, Receives, Selecting, Select
    <2> QED
      BY <2>2, NoEndKeeps
  <1>12. ASSUME LinkBroken PROVE EndInv'
    <2>1. NoEndQueued
      BY <1>12 DEF LinkBroken, Selecting, NoEndQueued
    <2>2. NoEndStep
      BY <1>12, <2>1 DEF NoEndStep, EndInv, Enders, LinkBroken, Selecting, Select
    <2> QED
      BY <2>2, NoEndKeeps
  <1>13. ASSUME DialRefusedEmit PROVE EndInv'
    <2>1. up /\ cli # "none" /\ Enders
      BY <1>13 DEF DialRefusedEmit, Enders, ControlInv
    <2>2. /\ "TransferFailed" \in Ending /\ Report(finish_emits(xev), "TransferFailed", NoFile)
          /\ xev' = finish(xev) /\ ends' = ends /\ db' = db /\ xfer' = xfer
      BY <1>13 DEF DialRefusedEmit, Ending
    <2> QED
      BY <2>1, <2>2, EndReportKeeps
  <1>14. ASSUME Connected PROVE EndInv'
    <2>1. NoEndQueued
      BY <1>14 DEF Connected, NoEndQueued
    <2>2. Usable => ~Over
      BY <1>14, UsableIsNotOver DEF Connected
    <2>3. NoEndStep
      BY <1>14, <2>1, <2>2 DEF NoEndStep, EndInv, Enders, Connected, Activated, Usable
    <2> QED
      BY <2>3, NoEndKeeps
  <1>15. ASSUME HelloSent PROVE EndInv'
    <2>1. NoEndQueued
      BY <1>15 DEF HelloSent, NoEndQueued
    <2>2. NoEndStep
      BY <1>15, <2>1 DEF NoEndStep, EndInv, Enders, HelloSent, Select
    <2> QED
      BY <2>2, NoEndKeeps
  <1>16. ASSUME HelloFailed PROVE EndInv'
    <2>1. NoEndQueued
      BY <1>16 DEF HelloFailed, NoEndQueued
    <2>2. NoEndStep
      BY <1>16, <2>1 DEF NoEndStep, EndInv, Enders, HelloFailed, Select
    <2> QED
      BY <2>2, NoEndKeeps
  <1>17. ASSUME OnReqCloseRemove PROVE EndInv'
    <2>1. NoEndQueued
      BY <1>17 DEF OnReqCloseRemove, At, Remove, NoEndQueued
    <2>2. NoEndStep
      BY <1>17, <2>1 DEF NoEndStep, EndInv, Enders, OnReqCloseRemove, At, Remove, Select,
         transfer_sync_clear, TypeOK, Rows
    <2> QED
      BY <2>2, NoEndKeeps
  <1>18. ASSUME RecvCloseRemove PROVE EndInv'
    <2>1. NoEndQueued
      BY <1>18 DEF RecvCloseRemove, At, Remove, Then, NoEndQueued
    <2>2. NoEndStep
      BY <1>18, <2>1 DEF NoEndStep, EndInv, Enders, RecvCloseRemove, At, Remove, Then, Select,
         transfer_sync_clear, TypeOK, Rows
    <2> QED
      BY <2>2, NoEndKeeps
  <1>19. ASSUME RecvCloseCancel PROVE EndInv'
    <2>1. up /\ cli # "none" /\ Enders
      BY <1>19 DEF RecvCloseCancel, At, Enders, ControlInv
    <2>2. /\ "CanceledByPeer" \in Ending /\ Report(finish_emits(xev), "CanceledByPeer", NoFile)
          /\ xev' = finish(xev) /\ ends' = ends /\ db' = db /\ xfer' = xfer
      BY <1>19 DEF RecvCloseCancel, Ending
    <2> QED
      BY <2>1, <2>2, EndReportKeeps
  <1>20. ASSUME RecvVerdictEmit PROVE EndInv'
    <2>1. NoEndQueued
      <3>1. Ev(pc.op, pc.f) \in EventSet /\ pc.op \notin Ending
        BY <1>20, EventsTyped DEF RecvVerdictEmit, At, HandlerPc, Select, TypeOK, Ending, Verdicts
      <3> QED
        BY <1>20, <3>1, NoEndReport DEF RecvVerdictEmit
    <2>2. NoEndStep
      BY <1>20, <2>1 DEF NoEndStep, EndInv, Enders, RecvVerdictEmit, At, Then, Select
    <2> QED
      BY <2>2, NoEndKeeps
  <1>21. ASSUME RecvVerdictStop PROVE EndInv'
    <2>1. NoEndQueued
      BY <1>21 DEF RecvVerdictStop, At, NoEndQueued
    <2>2. NoEndStep
      BY <1>21, <2>1 DEF NoEndStep, EndInv, Enders, RecvVerdictStop, At, Select
    <2> QED
      BY <2>2, NoEndKeeps
  <1>22. ASSUME StartEvents PROVE EndInv'
    <2>1. NoEndQueued
      BY <1>22 DEF StartEvents, At, Then, NoEndQueued
    <2>2. NoEndStep
      BY <1>22, <2>1 DEF NoEndStep, EndInv, Enders, StartEvents, At, Then, Select
    <2> QED
      BY <2>2, NoEndKeeps
  <1>23. ASSUME StartUpload PROVE EndInv'
    <2>1. NoEndQueued
      <3>1. pc.f \in Files
        BY <1>23 DEF StartUpload, At, TypeOK, HandlerPc, Select
      <3>2. \A k \in {"Started", "Throttled"} : Ev(k, pc.f) \in EventSet /\ k \notin Ending
        BY <3>1, EventsTyped DEF Ending
      <3>3. CASE Free > Len(waitq)
        BY <1>23, <3>2, <3>3, NoEndReport DEF StartUpload
      <3>4. CASE ~(Free > Len(waitq))
        BY <1>23, <3>2, <3>4, NoEndReport DEF StartUpload
      <3> QED
        BY <3>3, <3>4
    <2>2. NoEndStep
      BY <1>23, <2>1 DEF NoEndStep, EndInv, Enders, StartUpload, At, Select
    <2> QED
      BY <2>2, NoEndKeeps
  <1>24. ASSUME RunReturns PROVE EndInv'
    <2>1. NoEndQueued
      BY <1>24 DEF RunReturns, NoEndQueued
    <2>2. NoEndStep
      BY <1>24, <2>1 DEF NoEndStep, EndInv, Enders, RunReturns, Select
    <2> QED
      BY <2>2, NoEndKeeps
  <1>25. ASSUME Disconnect PROVE EndInv'
    <2>1. NoEndQueued
      BY <1>25 DEF Disconnect, NoEndQueued
    <2>2. NoEndStep
      BY <1>25, <2>1 DEF NoEndStep, EndInv, Enders, Disconnect, Select
    <2> QED
      BY <2>2, NoEndKeeps
  <1>26. ASSUME Drained PROVE EndInv'
    <2>1. NoEndQueued
      BY <1>26 DEF Drained, NoEndQueued
    <2>2. NoEndStep
      BY <1>26, <2>1 DEF NoEndStep, EndInv, Enders, Drained, Select
    <2> QED
      BY <2>2, NoEndKeeps
  <1>27. ASSUME NEW k \in Kinds, NEW f \in Files, JobAborted(k, f) PROVE EndInv'
    <2>1. NoEndQueued
      BY <1>27 DEF JobAborted, NoEndQueued
    <2>2. NoEndStep
      BY <1>27, <2>1 DEF NoEndStep, EndInv, Enders, JobAborted, Select
    <2> QED
      BY <2>2, NoEndKeeps
  <1>28. ASSUME NEW k \in Kinds, NEW f \in Files, JobSent(k, f) PROVE EndInv'
    <2>1. NoEndQueued
      BY <1>28 DEF JobSent, JobAt, NoEndQueued
    <2>2. NoEndStep
      BY <1>28, <2>1 DEF NoEndStep, EndInv, Enders, JobSent, JobAt, Select
    <2> QED
      BY <2>2, NoEndKeeps
  <1>29. ASSUME NEW k \in Kinds, NEW f \in Files, JobFail(k, f) PROVE EndInv'
    <2>1. NoEndQueued
      BY <1>29 DEF JobFail, JobAt, Usable, Terminate, NoEndQueued
    <2>2. NoEndStep
      BY <1>29, <2>1 DEF NoEndStep, EndInv, Enders, JobFail, JobAt, Usable, Terminate, Select,
         update_file_sync_states, TypeOK, Rows
    <2> QED
      BY <2>2, NoEndKeeps
  <1>30. ASSUME NEW k \in Kinds, NEW f \in Files, JobFailCut(k, f) PROVE EndInv'
    <2>1. NoEndQueued
      BY <1>30 DEF JobFailCut, JobAt, Usable, NoEndQueued
    <2>2. NoEndStep
      BY <1>30, <2>1 DEF NoEndStep, EndInv, Enders, JobFailCut, JobAt, Usable, Select
    <2> QED
      BY <2>2, NoEndKeeps
  <1>31. ASSUME NEW k \in Kinds, NEW f \in Files, JobEmit(k, f) PROVE EndInv'
    <2>1. NoEndQueued
      BY <1>31, NoEndReport, EventsTyped DEF JobEmit, Ending, Verdicts
    <2>2. NoEndStep
      BY <1>31, <2>1 DEF NoEndStep, EndInv, Enders, JobEmit, JobAt, Select
    <2> QED
      BY <2>2, NoEndKeeps
  <1>32. ASSUME NEW f \in Files, JobQueue(f) PROVE EndInv'
    <2>1. NoEndQueued
      BY <1>32 DEF JobQueue, JobAt, NoEndQueued
    <2>2. NoEndStep
      BY <1>32, <2>1 DEF NoEndStep, EndInv, Enders, JobQueue, JobAt, Select
    <2> QED
      BY <2>2, NoEndKeeps
  <1>33. ASSUME NEW f \in Files, JobPermit(f) PROVE EndInv'
    <2>1. NoEndQueued
      BY <1>33, NoEndReport, EventsTyped DEF JobPermit, Ending, Verdicts
    <2>2. NoEndStep
      BY <1>33, <2>1 DEF NoEndStep, EndInv, Enders, JobPermit, JobAt, Select
    <2> QED
      BY <2>2, NoEndKeeps
  <1>34. ASSUME NEW f \in Files, Pause(f) PROVE EndInv'
    <2>1. NoEndQueued
      BY <1>34, NoEndReport, EventsTyped DEF Pause, Ending, Verdicts
    <2>2. NoEndStep
      BY <1>34, <2>1 DEF NoEndStep, EndInv, Enders, Pause, Select
    <2> QED
      BY <2>2, NoEndKeeps
  <1>35. ASSUME ApiSend PROVE EndInv'
    <2>1. NoEndQueued
      BY <1>35, NoEndReport, EventsTyped DEF ApiSend, Ending
    <2>2. evq = <<>> /\ ends = 0 /\ ends' = ends
      BY <1>35 DEF ApiSend, ControlInv
    <2>3. ~EndQueued' /\ ~Over' /\ \A i \in DOMAIN evq' : evq'[i].k \notin Ending
      BY <2>1, <2>2 DEF NoEndQueued, EndQueued, Over
    <2>4. ~Enders'
      BY <1>35 DEF ApiSend, ControlInv, Enders, ApiIdle, Select
    <2> QED
      BY <2>2, <2>3, <2>4 DEF EndInv, EndOnce
  <1>36. ASSUME ApiCancel PROVE EndInv'
    <2>1. NoEndQueued
      BY <1>36 DEF ApiCancel, NoEndQueued
    <2>2. xfer' \in {"Absent", "Canceled"} /\ ~Over
      BY <1>36, UsableIsNotOver DEF ApiCancel, Calls, Remove
    <2>3. NoEndStep
      BY <1>36, <2>1, <2>2 DEF NoEndStep, ApiCancel, Calls
    <2> QED
      BY <2>3, NoEndKeeps
  <1>37. ASSUME ApiPurge PROVE EndInv'
    <2>1. NoEndQueued
      BY <1>37 DEF ApiPurge, Calls, NoEndQueued
    <2>2. NoEndStep
      BY <1>37, <2>1 DEF NoEndStep, EndInv, Enders, ApiPurge, Calls, purge_transfers, TypeOK,
         Rows
    <2> QED
      BY <2>2, NoEndKeeps
  <1>38. ASSUME NEW f \in Files, ApiReject(f) PROVE EndInv'
    <2>1. NoEndQueued
      BY <1>38 DEF ApiReject, Calls, Usable, Terminate, NoEndQueued
    <2>2. NoEndStep
      BY <1>38, <2>1 DEF NoEndStep, EndInv, Enders, ApiReject, Calls, Usable, Terminate, Select,
         update_file_sync_states, TypeOK, Rows
    <2> QED
      BY <2>2, NoEndKeeps
  <1>39. ASSUME ApiRejectEmit PROVE EndInv'
    <2>1. NoEndQueued
      <3>1. Ev("Rejected", api.f) \in EventSet /\ "Rejected" \notin Ending
        BY <1>39, EventsTyped DEF ApiRejectEmit, ApiCall, TypeOK, Ending, Verdicts
      <3> QED
        BY <1>39, <3>1, NoEndReport DEF ApiRejectEmit
    <2>2. NoEndStep
      BY <1>39, <2>1 DEF NoEndStep, EndInv, Enders, ApiRejectEmit, ApiIdle
    <2> QED
      BY <2>2, NoEndKeeps
  <1>40. ASSUME ApiCancelEmit PROVE EndInv'
    <2>1. up /\ cli # "none" /\ Enders
      BY <1>40 DEF ApiCancelEmit, Enders, ControlInv, ApiIdle
    <2>2. /\ "Canceled" \in Ending /\ Report(finish_emits(xev), "Canceled", NoFile)
          /\ xev' = finish(xev) /\ ends' = ends /\ db' = db /\ xfer' = xfer
      BY <1>40 DEF ApiCancelEmit, Ending
    <2> QED
      BY <2>1, <2>2, EndReportKeeps
  <1>41. ASSUME EventTask PROVE EndInv'
    <2> DEFINE e == Head(evq)
    <2>1. e \in EventSet /\ evq \in Seq(EventSet) /\ evq # <<>> /\ evq' = Tail(evq)
      BY <1>41, QueueHead DEF EventTask, TypeOK
    <2>2. /\ e = evq[1] /\ 1 \in DOMAIN evq
          /\ \A i \in DOMAIN evq' : i \in Nat \ {0} /\ i + 1 \in DOMAIN evq /\ evq'[i] = evq[i + 1]
      BY <2>1, TailElements
    <2>3. /\ up' = up /\ xev' = xev /\ xfer' = xfer /\ cli' = cli /\ Enders' = Enders
          /\ ends' = IF e.k \in Ending THEN ends + 1 ELSE ends
      BY <1>41 DEF EventTask, Enders
    <2>4. db'.sync = db.sync
      BY <1>41, <2>1, StoredRows DEF EventTask
    <2> HIDE DEF e
    <2>5. EndQueued' => EndQueued
      BY <2>2 DEF EndQueued
    <2>6. CASE e.k \in Ending
      <3>1. EndQueued /\ ends = 0 /\ ends' = 1
        BY <2>2, <2>3, <2>6 DEF EndInv, EndOnce, EndQueued
      <3>2. \A i \in DOMAIN evq' : evq'[i].k \notin Ending
        <4> SUFFICES ASSUME NEW i \in DOMAIN evq', evq'[i].k \in Ending PROVE FALSE
          OBVIOUS
        <4>1. i + 1 = 1
          BY <2>2, <2>6 DEF EndInv, EndOnce
        <4> QED
          BY <2>2, <4>1
      <3>3. EndOnce' /\ Over
        BY <3>1, <3>2 DEF EndOnce, EndQueued, Over
      <3> QED
        BY <2>3, <2>4, <3>3 DEF EndInv
    <2>7. CASE e.k \notin Ending
      <3>1. ends' = ends /\ (Over' => Over)
        BY <2>3, <2>5, <2>7 DEF Over
      <3>2. \A i, j \in DOMAIN evq' : evq'[i].k \in Ending /\ evq'[j].k \in Ending => i = j
        <4> SUFFICES ASSUME NEW i \in DOMAIN evq', NEW j \in DOMAIN evq',
                            evq'[i].k \in Ending, evq'[j].k \in Ending
                     PROVE  i = j
          OBVIOUS
        <4>1. i + 1 = j + 1
          BY <2>2 DEF EndInv, EndOnce
        <4> QED
          BY <2>2, <4>1
      <3>3. EndOnce'
        BY <2>5, <3>1, <3>2 DEF EndInv, EndOnce
      <3> QED
        BY <2>3, <2>4, <3>1, <3>3 DEF EndInv
    <2> QED
      BY <2>6, <2>7
  <1>42. ASSUME Crash PROVE EndInv'
    <2>1. NoEndQueued
      BY <1>42 DEF Crash, Down, NoEndQueued
    <2>2. NoEndStep
      BY <1>42, <2>1 DEF NoEndStep, EndInv, Enders, Crash, Down
    <2> QED
      BY <2>2, NoEndKeeps
  <1>43. ASSUME CrashInEventTask PROVE EndInv'
    <2>1. NoEndQueued
      BY <1>43 DEF CrashInEventTask, Down, NoEndQueued
    <2>2. db'.sync = db.sync
      BY <1>43, QueueHead, StoredRows DEF CrashInEventTask
    <2>3. NoEndStep
      BY <1>43, <2>1, <2>2 DEF NoEndStep, CrashInEventTask, Down
    <2> QED
      BY <2>3, NoEndKeeps
  <1>44. ASSUME Restart PROVE EndInv'
    <2>1. evq' = evq /\ ends' = ends /\ cli = "none"
      BY <1>44 DEF Restart, ControlInv
    <2>2. EndOnce' /\ Over' = Over
      BY <2>1 DEF EndInv, EndOnce, EndQueued, Over
    <2>3. ~Enders'
      BY <1>44 DEF Restart, ControlInv, Enders, Select, ApiIdle
    <2>4. db'.sync = db.sync
      BY <1>44 DEF Restart, cleanup_garbage_transfers, NoRows
    <2>5. up' /\ xev' = "Ongoing" /\ Over => cli' = "none"
      BY <1>44, <2>1, <2>4 DEF Restart, EndInv, transfer_gate
    <2> QED
      BY <2>2, <2>3, <2>4, <2>5 DEF EndInv
  <1>45. CASE UNCHANGED vars
    BY <1>45, NoEndKeeps DEF vars, NoEndStep, NoEndQueued, EndInv, Enders
  <1> QED
    BY <1>1, <1>2, <1>3, <1>4, <1>5, <1>6, <1>7, <1>8, <1>9, <1>10, <1>11, <1>12, <1>13, <1>14,
       <1>15, <1>16, <1>17, <1>18, <1>19, <1>20, <1>21, <1>22, <1>23, <1>24, <1>25, <1>26,
       <1>27, <1>28, <1>29, <1>30, <1>31, <1>32, <1>33, <1>34, <1>35, <1>36, <1>37, <1>38,
       <1>39, <1>40, <1>41, <1>42, <1>43, <1>44, <1>45
       DEF Next, Dial, Request, Message, Handler, Job, Api, ApiRest

-----------------------------------------------------------------------------
(* What the receiver may know.                                             *)

\* Until the two sides part, a transfer that was offered keeps its sync row
\* and is not New any more, and so is one that is about to be offered.
OfferInv ==
  /\ offered /\ ~parted => db.sync \in {"Active", "Canceled"}
  /\ up /\ cli \in {"hello", "run"} /\ ~parted => xfer \in {"Active", "Canceled"}
  /\ pc.op \in {"closing", "closed", "cancel"} => parted

LEMMA OfferInit == Init => OfferInv
  BY DEF Init, OfferInv, Select

LEMMA OfferStep == TypeOK /\ ControlInv /\ SyncInv /\ OfferInv /\ [Next]_vars => OfferInv'
  <1> SUFFICES ASSUME TypeOK, ControlInv, SyncInv, OfferInv, [Next]_vars PROVE OfferInv'
    OBVIOUS
  <1> USE DEF OfferInv, mgr, client, jobs, events, ghost, bounds
  <1>1. ASSUME DialDeferred PROVE OfferInv'
    BY <1>1 DEF DialDeferred, Dials, Select
  <1>2. ASSUME DialRefused PROVE OfferInv'
    BY <1>2 DEF DialRefused, Dials, Remove, Select
  <1>3. ASSUME DialConnected PROVE OfferInv'
    BY <1>3 DEF DialConnected, Dials, Select
  <1>4. ASSUME OnReqReject PROVE OfferInv'
    BY <1>4 DEF OnReqReject, HasReq, Selecting, Select
  <1>5. ASSUME OnReqFail PROVE OfferInv'
    BY <1>5 DEF OnReqFail, HasReq, Selecting, Select
  <1>6. ASSUME OnReqClose PROVE OfferInv'
    BY <1>6 DEF OnReqClose, HasReq, Selecting, Then, Select
  <1>7. ASSUME RecvClose PROVE OfferInv'
    BY <1>7 DEF RecvClose, Receives, Selecting, Then, Select
  <1>8. ASSUME NEW m \in {"Done", "Error", "Reject"}, NEW f \in Files, RecvVerdict(m, f) PROVE OfferInv'
    <2>1. db'.sync = db.sync
      BY <1>8 DEF RecvVerdict, Terminate, update_file_sync_states, TypeOK, Rows
    <2> QED
      BY <1>8, <2>1 DEF RecvVerdict, Receives, Selecting, Then, Terminate, VerdictOf
  <1>9. ASSUME NEW f \in Files, RecvCancel(f) PROVE OfferInv'
    BY <1>9 DEF RecvCancel, Receives, Selecting, Select
  <1>10. ASSUME NEW f \in Files, RecvStart(f) PROVE OfferInv'
    BY <1>10 DEF RecvStart, Receives, Selecting, Then, Select
  <1>11. ASSUME NEW f \in Files, RecvReqChsum(f) PROVE OfferInv'
    BY <1>11 DEF RecvReqChsum, Receives, Selecting, Select
  <1>12. ASSUME LinkBroken PROVE OfferInv'
    BY <1>12 DEF LinkBroken, Selecting, Select
  <1>13. ASSUME DialRefusedEmit PROVE OfferInv'
    BY <1>13 DEF DialRefusedEmit, Select
  <1>14. ASSUME Connected PROVE OfferInv'
    BY <1>14 DEF Connected, Activated, Usable, update_transfer_sync_states, TypeOK, Rows, SyncState
  <1>15. ASSUME HelloSent PROVE OfferInv'
    BY <1>15 DEF HelloSent, SyncInv
  <1>16. ASSUME HelloFailed PROVE OfferInv'
    BY <1>16 DEF HelloFailed, SyncInv
  <1>17. ASSUME OnReqCloseRemove PROVE OfferInv'
    BY <1>17 DEF OnReqCloseRemove, At, Remove, Select
  <1>18. ASSUME RecvCloseRemove PROVE OfferInv'
    BY <1>18 DEF RecvCloseRemove, At, Remove, Then, Select
  <1>19. ASSUME RecvCloseCancel PROVE OfferInv'
    BY <1>19 DEF RecvCloseCancel, At, Select
  <1>20. ASSUME RecvVerdictEmit PROVE OfferInv'
    BY <1>20 DEF RecvVerdictEmit, At, Then, Select
  <1>21. ASSUME RecvVerdictStop PROVE OfferInv'
    BY <1>21 DEF RecvVerdictStop, At, Select
  <1>22. ASSUME StartEvents PROVE OfferInv'
    BY <1>22 DEF StartEvents, At, Then, Select
  <1>23. ASSUME StartUpload PROVE OfferInv'
    BY <1>23 DEF StartUpload, At, Select
  <1>24. ASSUME RunReturns PROVE OfferInv'
    BY <1>24 DEF RunReturns, Select
  <1>25. ASSUME Disconnect PROVE OfferInv'
    BY <1>25 DEF Disconnect, Select
  <1>26. ASSUME Drained PROVE OfferInv'
    BY <1>26 DEF Drained, Select
  <1>27. ASSUME NEW k \in Kinds, NEW f \in Files, JobAborted(k, f) PROVE OfferInv'
    BY <1>27 DEF JobAborted, Select
  <1>28. ASSUME NEW k \in Kinds, NEW f \in Files, JobSent(k, f) PROVE OfferInv'
    BY <1>28 DEF JobSent, JobAt, Select
  <1>29. ASSUME NEW k \in Kinds, NEW f \in Files, JobFail(k, f) PROVE OfferInv'
    <2>1. db'.sync = db.sync
      BY <1>29 DEF JobFail, Terminate, update_file_sync_states, TypeOK, Rows
    <2> QED
      BY <1>29, <2>1 DEF JobFail, JobAt, Usable, Terminate
  <1>30. ASSUME NEW k \in Kinds, NEW f \in Files, JobFailCut(k, f) PROVE OfferInv'
    BY <1>30 DEF JobFailCut, JobAt, Usable, Select
  <1>31. ASSUME NEW k \in Kinds, NEW f \in Files, JobEmit(k, f) PROVE OfferInv'
    BY <1>31 DEF JobEmit, JobAt, Select
  <1>32. ASSUME NEW f \in Files, JobQueue(f) PROVE OfferInv'
    BY <1>32 DEF JobQueue, JobAt, Select
  <1>33. ASSUME NEW f \in Files, JobPermit(f) PROVE OfferInv'
    BY <1>33 DEF JobPermit, JobAt, Select
  <1>34. ASSUME NEW f \in Files, Pause(f) PROVE OfferInv'
    BY <1>34 DEF Pause, Select
  <1>35. ASSUME ApiSend PROVE OfferInv'
    BY <1>35 DEF ApiSend, ControlInv
  <1>36. ASSUME ApiCancel PROVE OfferInv'
    BY <1>36 DEF ApiCancel, Calls, Usable, SyncInv, Remove, update_transfer_sync_states, TypeOK, Rows
  <1>37. ASSUME ApiPurge PROVE OfferInv'
    BY <1>37 DEF ApiPurge, Calls, purge_transfers, TypeOK, Rows
  <1>38. ASSUME NEW f \in Files, ApiReject(f) PROVE OfferInv'
    <2>1. db'.sync = db.sync
      BY <1>38 DEF ApiReject, Terminate, update_file_sync_states, TypeOK, Rows
    <2> QED
      BY <1>38, <2>1 DEF ApiReject, Calls, Usable, Terminate
  <1>39. ASSUME ApiRejectEmit PROVE OfferInv'
    BY <1>39 DEF ApiRejectEmit, Select
  <1>40. ASSUME ApiCancelEmit PROVE OfferInv'
    BY <1>40 DEF ApiCancelEmit, Select
  <1>41. ASSUME EventTask PROVE OfferInv'
    <2>1. db'.sync = db.sync
      BY <1>41, QueueHead, StoredRows DEF EventTask
    <2> QED
      BY <1>41, <2>1 DEF EventTask
  <1>42. ASSUME Crash PROVE OfferInv'
    BY <1>42 DEF Crash, Down, Select
  <1>43. ASSUME CrashInEventTask PROVE OfferInv'
    <2>1. db'.sync = db.sync
      BY <1>43, QueueHead, StoredRows DEF CrashInEventTask
    <2> QED
      BY <1>43, <2>1 DEF CrashInEventTask, Down, Select
  <1>44. ASSUME Restart PROVE OfferInv'
    BY <1>44 DEF Restart, ControlInv, cleanup_garbage_transfers, Select
  <1>45. CASE UNCHANGED vars
    BY <1>45 DEF vars
  <1> QED
    BY <1>1, <1>2, <1>3, <1>4, <1>5, <1>6, <1>7, <1>8, <1>9, <1>10, <1>11, <1>12, <1>13, <1>14,
       <1>15, <1>16, <1>17, <1>18, <1>19, <1>20, <1>21, <1>22, <1>23, <1>24, <1>25, <1>26,
       <1>27, <1>28, <1>29, <1>30, <1>31, <1>32, <1>33, <1>34, <1>35, <1>36, <1>37, <1>38,
       <1>39, <1>40, <1>41, <1>42, <1>43, <1>44, <1>45
       DEF Next, Dial, Request, Message, Handler, Job, Api, ApiRest

-----------------------------------------------------------------------------
(* A verdict is decided once.                                              *)

Flips == \E f \in Files : file[f] \in Verdicts /\ xfer' # "Absent" /\ file'[f] # file[f]

LEMMA TerminateOfAlive ==
  ASSUME TypeOK, NEW f \in Files, file[f] = "Alive", NEW v, Terminate(f, v)
  PROVE  ~Flips
  BY DEF TypeOK, Terminate, Flips, Verdicts

LEMMA VerdictKept == TypeOK /\ ControlInv /\ [Next]_vars => ~Flips
  <1> SUFFICES ASSUME TypeOK, ControlInv, [Next]_vars PROVE ~Flips
    OBVIOUS
  <1> USE DEF mgr, client, jobs, events, ghost, bounds
  <1>1. ASSUME DialDeferred PROVE ~Flips
    BY <1>1 DEF DialDeferred, Dials, Flips
  <1>2. ASSUME DialRefused PROVE ~Flips
    BY <1>2 DEF DialRefused, Dials, Remove, Flips
  <1>3. ASSUME DialConnected PROVE ~Flips
    BY <1>3 DEF DialConnected, Dials, Flips
  <1>4. ASSUME OnReqReject PROVE ~Flips
    BY <1>4 DEF OnReqReject, HasReq, Selecting, Flips
  <1>5. ASSUME OnReqFail PROVE ~Flips
    BY <1>5 DEF OnReqFail, HasReq, Selecting, Flips
  <1>6. ASSUME OnReqClose PROVE ~Flips
    BY <1>6 DEF OnReqClose, HasReq, Selecting, Then, Flips
  <1>7. ASSUME RecvClose PROVE ~Flips
    BY <1>7 DEF RecvClose, Receives, Selecting, Then, Flips
  <1>8. ASSUME NEW m \in {"Done", "Error", "Reject"}, NEW f \in Files, RecvVerdict(m, f) PROVE ~Flips
    <2>1. CASE xfer # "Absent" /\ file[f] = "Alive"
      BY <1>8, <2>1, TerminateOfAlive DEF RecvVerdict
    <2>2. CASE ~(xfer # "Absent" /\ file[f] = "Alive")
      BY <1>8, <2>2 DEF RecvVerdict, Flips
    <2> QED
      BY <2>1, <2>2
  <1>9. ASSUME NEW f \in Files, RecvCancel(f) PROVE ~Flips
    BY <1>9 DEF RecvCancel, Receives, Selecting, Flips
  <1>10. ASSUME NEW f \in Files, RecvStart(f) PROVE ~Flips
    BY <1>10 DEF RecvStart, Receives, Selecting, Then, Flips
  <1>11. ASSUME NEW f \in Files, RecvReqChsum(f) PROVE ~Flips
    BY <1>11 DEF RecvReqChsum, Receives, Selecting, Flips
  <1>12. ASSUME LinkBroken PROVE ~Flips
    BY <1>12 DEF LinkBroken, Selecting, Flips
  <1>13. ASSUME DialRefusedEmit PROVE ~Flips
    BY <1>13 DEF DialRefusedEmit, Flips
  <1>14. ASSUME Connected PROVE ~Flips
    BY <1>14 DEF Connected, Activated, Usable, Flips
  <1>15. ASSUME HelloSent PROVE ~Flips
    BY <1>15 DEF HelloSent, Flips
  <1>16. ASSUME HelloFailed PROVE ~Flips
    BY <1>16 DEF HelloFailed, Flips
  <1>17. ASSUME OnReqCloseRemove PROVE ~Flips
    BY <1>17 DEF OnReqCloseRemove, At, Remove, Flips
  <1>18. ASSUME RecvCloseRemove PROVE ~Flips
    BY <1>18 DEF RecvCloseRemove, At, Remove, Then, Flips
  <1>19. ASSUME RecvCloseCancel PROVE ~Flips
    BY <1>19 DEF RecvCloseCancel, At, Flips
  <1>20. ASSUME RecvVerdictEmit PROVE ~Flips
    BY <1>20 DEF RecvVerdictEmit, At, Then, Flips
  <1>21. ASSUME RecvVerdictStop PROVE ~Flips
    BY <1>21 DEF RecvVerdictStop, At, Flips
  <1>22. ASSUME StartEvents PROVE ~Flips
    BY <1>22 DEF StartEvents, At, Then, Flips
  <1>23. ASSUME StartUpload PROVE ~Flips
    BY <1>23 DEF StartUpload, At, Flips
  <1>24. ASSUME RunReturns PROVE ~Flips
    BY <1>24 DEF RunReturns, Flips
  <1>25. ASSUME Disconnect PROVE ~Flips
    BY <1>25 DEF Disconnect, Flips
  <1>26. ASSUME Drained PROVE ~Flips
    BY <1>26 DEF Drained, Flips
  <1>27. ASSUME NEW k \in Kinds, NEW f \in Files, JobAborted(k, f) PROVE ~Flips
    BY <1>27 DEF JobAborted, Flips
  <1>28. ASSUME NEW k \in Kinds, NEW f \in Files, JobSent(k, f) PROVE ~Flips
    BY <1>28 DEF JobSent, JobAt, Flips
  <1>29. ASSUME NEW k \in Kinds, NEW f \in Files, JobFail(k, f) PROVE ~Flips
    <2>1. CASE Usable /\ file[f] = "Alive"
      BY <1>29, <2>1, TerminateOfAlive DEF JobFail
    <2>2. CASE ~(Usable /\ file[f] = "Alive")
      BY <1>29, <2>2 DEF JobFail, Flips
    <2> QED
      BY <2>1, <2>2
  <1>30. ASSUME NEW k \in Kinds, NEW f \in Files, JobFailCut(k, f) PROVE ~Flips
    BY <1>30 DEF JobFailCut, TypeOK, Flips, Verdicts
  <1>31. ASSUME NEW k \in Kinds, NEW f \in Files, JobEmit(k, f) PROVE ~Flips
    BY <1>31 DEF JobEmit, JobAt, Flips
  <1>32. ASSUME NEW f \in Files, JobQueue(f) PROVE ~Flips
    BY <1>32 DEF JobQueue, JobAt, Flips
  <1>33. ASSUME NEW f \in Files, JobPermit(f) PROVE ~Flips
    BY <1>33 DEF JobPermit, JobAt, Flips
  <1>34. ASSUME NEW f \in Files, Pause(f) PROVE ~Flips
    BY <1>34 DEF Pause, Flips
  <1>35. ASSUME ApiSend PROVE ~Flips
    BY <1>35 DEF ApiSend, Flips
  <1>36. ASSUME ApiCancel PROVE ~Flips
    BY <1>36 DEF ApiCancel, Calls, Usable, Remove, Flips
  <1>37. ASSUME ApiPurge PROVE ~Flips
    BY <1>37 DEF ApiPurge, Calls, Flips
  <1>38. ASSUME NEW f \in Files, ApiReject(f) PROVE ~Flips
    BY <1>38, TerminateOfAlive DEF ApiReject
  <1>39. ASSUME ApiRejectEmit PROVE ~Flips
    BY <1>39 DEF ApiRejectEmit, Flips
  <1>40. ASSUME ApiCancelEmit PROVE ~Flips
    BY <1>40 DEF ApiCancelEmit, Flips
  <1>41. ASSUME EventTask PROVE ~Flips
    BY <1>41 DEF EventTask, Flips
  <1>42. ASSUME Crash PROVE ~Flips
    BY <1>42 DEF Crash, Down, Flips
  <1>43. ASSUME CrashInEventTask PROVE ~Flips
    BY <1>43 DEF CrashInEventTask, Down, Flips
  <1>44. ASSUME Restart PROVE ~Flips
    BY <1>44 DEF Restart, ControlInv, Flips, Verdicts
  <1>45. CASE UNCHANGED vars
    BY <1>45 DEF vars, Flips
  <1> QED
    BY <1>1, <1>2, <1>3, <1>4, <1>5, <1>6, <1>7, <1>8, <1>9, <1>10, <1>11, <1>12, <1>13, <1>14,
       <1>15, <1>16, <1>17, <1>18, <1>19, <1>20, <1>21, <1>22, <1>23, <1>24, <1>25, <1>26,
       <1>27, <1>28, <1>29, <1>30, <1>31, <1>32, <1>33, <1>34, <1>35, <1>36, <1>37, <1>38,
       <1>39, <1>40, <1>41, <1>42, <1>43, <1>44, <1>45
       DEF Next, Dial, Request, Message, Handler, Job, Api, ApiRest

-----------------------------------------------------------------------------
(* The theorems.                                                           *)

Inv == TypeOK /\ ControlInv /\ SyncInv /\ VerdictInv /\ EndInv /\ OfferInv

\* The conjunction is inductive.
THEOREM Inductive == Spec => []Inv
  <1>1. Init => Inv
    BY TypeInit, ControlInit, SyncInit, VerdictInit, EndInit, OfferInit DEF Inv
  <1>2. Inv /\ [Next]_vars => Inv'
    BY TypeStep, ControlStep, SyncStep, VerdictStep, EndStep, OfferStep DEF Inv
  <1> QED
    BY <1>1, <1>2, PTL DEF Spec

LEMMA Faithful ==
  ASSUME Inv
  PROVE  RestoreFaithful
  <1> SUFFICES ASSUME up PROVE RestoreFaithful
    BY DEF RestoreFaithful
  <1>1. xfer = IF db.sync = "None" THEN "Absent" ELSE db.sync
    BY DEF Inv, SyncInv
  <1>2. ASSUME xfer # "Absent", NEW f \in Files
        PROVE  /\ file[f] \in {"Rejected", "Completed"} => IsRestoredTerminal(db, f)
               /\ IsRestoredTerminal(db, f) => file[f] \in Verdicts
    <2>1. Agreed(f)
      BY <1>2 DEF Inv, VerdictInv
    <2>2. db.hist[f] # {} => file[f] \in Verdicts
      BY <2>1 DEF Inv, TypeOK, Rows, Agreed
    <2> QED
      BY <1>2, <2>2 DEF Inv, SyncInv, IsRestoredTerminal
  <1> QED
    BY <1>1, <1>2 DEF RestoreFaithful

\* RestoreFaithful: a restart at any moment finds the transfer in the state the
\* manager has it in, and a file rejected or completed is on disk as ended.
THEOREM RestoreIsFaithful == Spec => []RestoreFaithful
  <1>1. Inv => RestoreFaithful
    BY Faithful
  <1> QED
    BY <1>1, Inductive, PTL

\* OneVerdict: manager, history, queue and application never have two verdicts
\* on a file, and the application hears of it once, restarts included.
THEOREM VerdictIsOne == Spec => []OneVerdict
  <1>1. Inv => OneVerdict
    <2> SUFFICES ASSUME Inv, NEW f \in Files
                 PROVE  LET said == db.hist[f] \cup Range(told[f])
                                    \cup {v \in Verdicts : Ev(v, f) \in Range(evq)}
                        IN /\ Cardinality(said) <= 1
                           /\ Len(told[f]) <= 1
                           /\ up /\ xfer # "Absent" => said \subseteq {file[f]}
      BY DEF OneVerdict
    <2> DEFINE queued == {v \in Verdicts : Ev(v, f) \in Range(evq)}
               said   == db.hist[f] \cup Range(told[f]) \cup queued
    <2>1. OnItsWay(f) /\ Arrived(f) /\ (up /\ xfer # "Absent" => Agreed(f))
      BY DEF Inv, VerdictInv
    <2>2. \A v \in queued : \E i \in DOMAIN evq : About(i, f) /\ evq[i].k = v
      BY DEF Range, Ev, About
    <2>3. \A v, w \in queued : v = w
      BY <2>1, <2>2 DEF OnItsWay
    <2>4. queued # {} => db.hist[f] = {} /\ told[f] = <<>>
      BY <2>1, <2>2 DEF OnItsWay, Queued
    <2>5. Len(told[f]) <= 1
      <3>1. told[f] = <<>> \/ \E v \in Verdicts : told[f] = <<v>>
        BY <2>1 DEF Arrived
      <3> QED
        BY <3>1, ShortSeq
    <2>6. \A v, w \in said : v = w
      <3>1. CASE queued # {}
        BY <2>3, <2>4, <3>1, EmptyRange
      <3>2. CASE queued = {}
        <4>1. said = db.hist[f] \cup Range(told[f])
          BY <3>2
        <4>2. CASE told[f] = <<>> /\ (db.hist[f] = {} \/ \E v \in Verdicts : db.hist[f] = {v})
          BY <4>1, <4>2, EmptyRange
        <4>3. CASE \E v \in Verdicts : told[f] = <<v>> /\ (db.hist[f] = {} \/ db.hist[f] = {v})
          <5>1. PICK v \in Verdicts : told[f] = <<v>> /\ (db.hist[f] = {} \/ db.hist[f] = {v})
            BY <4>3
          <5>2. Range(told[f]) = {v}
            BY <5>1, SingleRange
          <5> QED
            BY <4>1, <5>1, <5>2
        <4> QED
          BY <2>1, <4>2, <4>3 DEF Arrived
      <3> QED
        BY <3>1, <3>2
    <2>7. Cardinality(said) <= 1
      <3> HIDE DEF said
      <3>1. CASE said = {}
        BY <3>1, FS_EmptySet
      <3>2. CASE said # {}
        <4>1. PICK v : v \in said
          BY <3>2
        <4>2. said = {v}
          BY <2>6, <4>1
        <4>3. Cardinality(said) = 1
          BY <4>2, FS_Singleton, Zenon
        <4> QED
          BY <4>3
      <3> QED
        BY <3>1, <3>2
    <2>8. ASSUME up, xfer # "Absent" PROVE said \subseteq {file[f]}
      <3>1. Agreed(f)
        BY <2>1, <2>8
      <3>2. queued \subseteq {file[f]}
        BY <2>2, <3>1 DEF Agreed
      <3>3. Range(told[f]) \subseteq {file[f]}
        BY <3>1, EmptyRange, SingleRange DEF Agreed
      <3> QED
        BY <3>1, <3>2, <3>3 DEF Agreed
    <2> QED
      BY <2>5, <2>7, <2>8
  <1> QED
    BY <1>1, Inductive, PTL

\* ReceiverNotAbandoned: a transfer that may have reached the receiver leaves
\* the map only after the two sides have parted.
THEOREM ReceiverIsNotAbandoned == Spec => []ReceiverNotAbandoned
  <1>1. Inv => ReceiverNotAbandoned
    BY DEF Inv, OfferInv, SyncInv, ReceiverNotAbandoned
  <1> QED
    BY <1>1, Inductive, PTL

\* EndIsFinal: a transfer reported as over is not used again, nor restored.
THEOREM EndStaysFinal == Spec => []EndIsFinal
  <1>1. Inv => EndIsFinal
    BY DEF Inv, ControlInv, EndInv, SyncInv, Over, EndIsFinal, Usable
  <1> QED
    BY <1>1, Inductive, PTL

\* EndReportedOnce: the API call, the close frame and the refused connection
\* report the end once between them, restarts included.
THEOREM EndIsReportedOnce == Spec => []EndReportedOnce
  <1>1. Inv => EndReportedOnce
    BY DEF Inv, EndInv, EndOnce, EndReportedOnce
  <1> QED
    BY <1>1, Inductive, PTL

\* VerdictNeverFlips: no step changes a verdict while the transfer is in the map.
THEOREM VerdictIsKept == Spec => VerdictNeverFlips
  <1>1. Inv /\ [Next]_vars =>
          [\A f \in Files : file[f] \in Verdicts /\ xfer' # "Absent" => file'[f] = file[f]]_vars
    BY VerdictKept DEF Inv, Flips
  <1> QED
    BY <1>1, Inductive, PTL DEF Spec, VerdictNeverFlips

-----------------------------------------------------------------------------
(* The sending side implements a durable transfer.                         *)

\* The statements as the invariant lets them be used.
LEMMA RowStepOf ==
  ASSUME TypeOK, SyncInv
  PROVE  /\ ~db.row => RowStep(db, insert_transfer(db))
         /\ db.sync = "New" => RowStep(db, update_transfer_sync_states(db, "Active"))
         /\ RowStep(db, update_transfer_sync_states(db, "Canceled"))
         /\ db.sync # "None" => RowStep(db, transfer_sync_clear(db))
         /\ \A f \in Files : /\ db.sync # "None" => RowStep(db, update_file_sync_states(db, f))
                             /\ \A v \in Verdicts : RowStep(db, insert_path_state(db, f, v))
         /\ RowStep(db, insert_transfer_cancel_state(db))
         /\ RowStep(db, purge_transfers(db))
         /\ RowStep(db, cleanup_garbage_transfers(db))
  <1>1. db \in Rows /\ (db.sync # "None" => db.row)
    BY DEF TypeOK, SyncInv
  <1> QED
    BY <1>1, TransferSteps, FileSteps

LEMMA StoredStep ==
  ASSUME TypeOK, SyncInv, NEW e \in EventSet
  PROVE  RowStep(db, StoredBy(e))
  <1>1. CASE e.k \in Verdicts
    <2>1. e.f \in Files /\ StoredBy(e) = insert_path_state(db, e.f, e.k)
      BY <1>1 DEF StoredBy, EventSet, Ending, Verdicts
    <2> QED
      BY <1>1, <2>1, RowStepOf
  <1>2. CASE e.k \notin Verdicts /\ e.k \in Ending
    <2>1. StoredBy(e) = insert_transfer_cancel_state(db)
      BY <1>2 DEF StoredBy
    <2> QED
      BY <2>1, RowStepOf
  <1>3. CASE e.k \notin Verdicts /\ e.k \notin Ending
    BY <1>3 DEF StoredBy, RowStep
  <1> QED
    BY <1>1, <1>2, <1>3

LEMMA RowsStep == TypeOK /\ ControlInv /\ SyncInv /\ [Next]_vars => RowStep(db, db')
  <1> SUFFICES ASSUME TypeOK, ControlInv, SyncInv, [Next]_vars PROVE RowStep(db, db')
    OBVIOUS
  <1> USE DEF mgr, client, jobs, events, ghost, bounds
  <1>1. ASSUME DialDeferred PROVE RowStep(db, db')
    BY <1>1 DEF DialDeferred, Dials, RowStep
  <1>2. ASSUME DialRefused PROVE RowStep(db, db')
    <2>1. CASE xfer = "Absent"
      BY <1>2, <2>1 DEF DialRefused, RowStep
    <2>2. CASE xfer # "Absent"
      <3>1. db.sync # "None" /\ db' = transfer_sync_clear(db)
        BY <1>2, <2>2 DEF DialRefused, Dials, Remove, SyncInv
      <3> QED
        BY <3>1, RowStepOf
    <2> QED
      BY <2>1, <2>2
  <1>3. ASSUME DialConnected PROVE RowStep(db, db')
    BY <1>3 DEF DialConnected, Dials, RowStep
  <1>4. ASSUME OnReqReject PROVE RowStep(db, db')
    BY <1>4 DEF OnReqReject, HasReq, Selecting, RowStep
  <1>5. ASSUME OnReqFail PROVE RowStep(db, db')
    BY <1>5 DEF OnReqFail, HasReq, Selecting, RowStep
  <1>6. ASSUME OnReqClose PROVE RowStep(db, db')
    BY <1>6 DEF OnReqClose, HasReq, Selecting, Then, RowStep
  <1>7. ASSUME RecvClose PROVE RowStep(db, db')
    BY <1>7 DEF RecvClose, Receives, Selecting, Then, RowStep
  <1>8. ASSUME NEW m \in {"Done", "Error", "Reject"}, NEW f \in Files, RecvVerdict(m, f) PROVE RowStep(db, db')
    <2>1. CASE db' = db
      BY <2>1 DEF RowStep
    <2>2. CASE db' # db
      <3>1. db.sync # "None" /\ db' = update_file_sync_states(db, f)
        BY <1>8, <2>2 DEF RecvVerdict, Receives, Selecting, Usable, Terminate, SyncInv
      <3> QED
        BY <3>1, RowStepOf
    <2> QED
      BY <2>1, <2>2
  <1>9. ASSUME NEW f \in Files, RecvCancel(f) PROVE RowStep(db, db')
    BY <1>9 DEF RecvCancel, Receives, Selecting, RowStep
  <1>10. ASSUME NEW f \in Files, RecvStart(f) PROVE RowStep(db, db')
    BY <1>10 DEF RecvStart, Receives, Selecting, Then, RowStep
  <1>11. ASSUME NEW f \in Files, RecvReqChsum(f) PROVE RowStep(db, db')
    BY <1>11 DEF RecvReqChsum, Receives, Selecting, RowStep
  <1>12. ASSUME LinkBroken PROVE RowStep(db, db')
    BY <1>12 DEF LinkBroken, Selecting, RowStep
  <1>13. ASSUME DialRefusedEmit PROVE RowStep(db, db')
    BY <1>13 DEF DialRefusedEmit, RowStep
  <1>14. ASSUME Connected PROVE RowStep(db, db')
    <2>1. CASE db' = db
      BY <2>1 DEF RowStep
    <2>2. CASE db' # db
      <3>1. db.sync = "New" /\ db' = update_transfer_sync_states(db, "Active")
        BY <1>14, <2>2 DEF Connected, Activated, SyncInv
      <3> QED
        BY <3>1, RowStepOf
    <2> QED
      BY <2>1, <2>2
  <1>15. ASSUME HelloSent PROVE RowStep(db, db')
    BY <1>15 DEF HelloSent, RowStep
  <1>16. ASSUME HelloFailed PROVE RowStep(db, db')
    BY <1>16 DEF HelloFailed, RowStep
  <1>17. ASSUME OnReqCloseRemove PROVE RowStep(db, db')
    <2>1. CASE xfer = "Absent"
      BY <1>17, <2>1 DEF OnReqCloseRemove, RowStep
    <2>2. CASE xfer # "Absent"
      <3>1. db.sync # "None" /\ db' = transfer_sync_clear(db)
        BY <1>17, <2>2 DEF OnReqCloseRemove, At, Remove, SyncInv
      <3> QED
        BY <3>1, RowStepOf
    <2> QED
      BY <2>1, <2>2
  <1>18. ASSUME RecvCloseRemove PROVE RowStep(db, db')
    <2>1. CASE xfer = "Absent"
      BY <1>18, <2>1 DEF RecvCloseRemove, RowStep
    <2>2. CASE xfer # "Absent"
      <3>1. db.sync # "None" /\ db' = transfer_sync_clear(db)
        BY <1>18, <2>2 DEF RecvCloseRemove, At, Remove, SyncInv
      <3> QED
        BY <3>1, RowStepOf
    <2> QED
      BY <2>1, <2>2
  <1>19. ASSUME RecvCloseCancel PROVE RowStep(db, db')
    BY <1>19 DEF RecvCloseCancel, At, RowStep
  <1>20. ASSUME RecvVerdictEmit PROVE RowStep(db, db')
    BY <1>20 DEF RecvVerdictEmit, At, Then, RowStep
  <1>21. ASSUME RecvVerdictStop PROVE RowStep(db, db')
    BY <1>21 DEF RecvVerdictStop, At, RowStep
  <1>22. ASSUME StartEvents PROVE RowStep(db, db')
    BY <1>22 DEF StartEvents, At, Then, RowStep
  <1>23. ASSUME StartUpload PROVE RowStep(db, db')
    BY <1>23 DEF StartUpload, At, RowStep
  <1>24. ASSUME RunReturns PROVE RowStep(db, db')
    BY <1>24 DEF RunReturns, RowStep
  <1>25. ASSUME Disconnect PROVE RowStep(db, db')
    BY <1>25 DEF Disconnect, RowStep
  <1>26. ASSUME Drained PROVE RowStep(db, db')
    BY <1>26 DEF Drained, RowStep
  <1>27. ASSUME NEW k \in Kinds, NEW f \in Files, JobAborted(k, f) PROVE RowStep(db, db')
    BY <1>27 DEF JobAborted, RowStep
  <1>28. ASSUME NEW k \in Kinds, NEW f \in Files, JobSent(k, f) PROVE RowStep(db, db')
    BY <1>28 DEF JobSent, JobAt, RowStep
  <1>29. ASSUME NEW k \in Kinds, NEW f \in Files, JobFail(k, f) PROVE RowStep(db, db')
    <2>1. CASE db' = db
      BY <2>1 DEF RowStep
    <2>2. CASE db' # db
      <3>1. db.sync # "None" /\ db' = update_file_sync_states(db, f)
        BY <1>29, <2>2 DEF JobFail, JobAt, Usable, Terminate, SyncInv
      <3> QED
        BY <3>1, RowStepOf
    <2> QED
      BY <2>1, <2>2
  <1>30. ASSUME NEW k \in Kinds, NEW f \in Files, JobFailCut(k, f) PROVE RowStep(db, db')
    BY <1>30 DEF JobFailCut, JobAt, Usable, RowStep
  <1>31. ASSUME NEW k \in Kinds, NEW f \in Files, JobEmit(k, f) PROVE RowStep(db, db')
    BY <1>31 DEF JobEmit, JobAt, RowStep
  <1>32. ASSUME NEW f \in Files, JobQueue(f) PROVE RowStep(db, db')
    BY <1>32 DEF JobQueue, JobAt, RowStep
  <1>33. ASSUME NEW f \in Files, JobPermit(f) PROVE RowStep(db, db')
    BY <1>33 DEF JobPermit, JobAt, RowStep
  <1>34. ASSUME NEW f \in Files, Pause(f) PROVE RowStep(db, db')
    BY <1>34 DEF Pause, RowStep
  <1>35. ASSUME ApiSend PROVE RowStep(db, db')
    <2>1. ~db.row /\ db' = insert_transfer(db)
      BY <1>35 DEF ApiSend, ControlInv, NoRows
    <2> QED
      BY <2>1, RowStepOf
  <1>36. ASSUME ApiCancel PROVE RowStep(db, db')
    <2>1. CASE xfer = "New"
      <3>1. db.sync # "None" /\ db' = transfer_sync_clear(db)
        BY <1>36, <2>1 DEF ApiCancel, Calls, Remove, SyncInv
      <3> QED
        BY <3>1, RowStepOf
    <2>2. CASE xfer # "New"
      BY <1>36, <2>2, RowStepOf DEF ApiCancel
    <2> QED
      BY <2>1, <2>2
  <1>37. ASSUME ApiPurge PROVE RowStep(db, db')
    BY <1>37, RowStepOf DEF ApiPurge
  <1>38. ASSUME NEW f \in Files, ApiReject(f) PROVE RowStep(db, db')
    <2>1. CASE db' = db
      BY <2>1 DEF RowStep
    <2>2. CASE db' # db
      <3>1. db.sync # "None" /\ db' = update_file_sync_states(db, f)
        BY <1>38, <2>2 DEF ApiReject, Calls, Usable, Terminate, SyncInv
      <3> QED
        BY <3>1, RowStepOf
    <2> QED
      BY <2>1, <2>2
  <1>39. ASSUME ApiRejectEmit PROVE RowStep(db, db')
    BY <1>39 DEF ApiRejectEmit, RowStep
  <1>40. ASSUME ApiCancelEmit PROVE RowStep(db, db')
    BY <1>40 DEF ApiCancelEmit, RowStep
  <1>41. ASSUME EventTask PROVE RowStep(db, db')
    BY <1>41, QueueHead, StoredStep DEF EventTask
  <1>42. ASSUME Crash PROVE RowStep(db, db')
    BY <1>42 DEF Crash, Down, RowStep
  <1>43. ASSUME CrashInEventTask PROVE RowStep(db, db')
    BY <1>43, QueueHead, StoredStep DEF CrashInEventTask
  <1>44. ASSUME Restart PROVE RowStep(db, db')
    BY <1>44, RowStepOf DEF Restart
  <1>45. CASE UNCHANGED vars
    BY <1>45 DEF vars, RowStep
  <1> QED
    BY <1>1, <1>2, <1>3, <1>4, <1>5, <1>6, <1>7, <1>8, <1>9, <1>10, <1>11, <1>12, <1>13, <1>14,
       <1>15, <1>16, <1>17, <1>18, <1>19, <1>20, <1>21, <1>22, <1>23, <1>24, <1>25, <1>26,
       <1>27, <1>28, <1>29, <1>30, <1>31, <1>32, <1>33, <1>34, <1>35, <1>36, <1>37, <1>38,
       <1>39, <1>40, <1>41, <1>42, <1>43, <1>44, <1>45
       DEF Next, Dial, Request, Message, Handler, Job, Api, ApiRest

\* The mapping is a function of the rows alone.
LEMMA DurableState ==
  ASSUME Inv
  PROVE  Life = LifeOf(db) /\ Settled = SettledOf(db)
  <1>1. Sync = IF db.sync = "None" THEN "Absent" ELSE db.sync
    BY DEF Inv, SyncInv, Sync
  <1>2. db.sync \in SyncState \cup {"None"}
    BY DEF Inv, TypeOK, Rows
  <1>3. Life = LifeOf(db)
    BY <1>1, <1>2 DEF Life, LifeOf, SyncState
  <1>4. CASE db.sync = "None"
    BY <1>1, <1>3, <1>4 DEF Settled, SettledOf
  <1>5. CASE db.sync # "None"
    <2>1. Sync # "Absent" /\ (up => xfer # "Absent")
      BY <1>1, <1>2, <1>5 DEF SyncState, Inv, SyncInv
    <2>2. ASSUME NEW f \in Files
          PROVE  (\/ up /\ file[f] \in {"Rejected", "Completed"}
                  \/ (up => file[f] = "Failed") /\ IsRestoredTerminal(db, f))
                 <=> IsRestoredTerminal(db, f)
      <3>1. CASE ~up
        BY <3>1
      <3>2. CASE up
        <4>1. /\ file[f] \in {"Rejected", "Completed"} => IsRestoredTerminal(db, f)
              /\ IsRestoredTerminal(db, f) => file[f] \in Verdicts
          BY <2>1, <3>2, Faithful DEF RestoreFaithful
        <4> QED
          BY <3>2, <4>1 DEF Verdicts
      <3> QED
        BY <3>1, <3>2
    <2>3. Settled = {f \in Files : \/ up /\ file[f] \in {"Rejected", "Completed"}
                                   \/ (up => file[f] = "Failed") /\ IsRestoredTerminal(db, f)}
      BY <2>1 DEF Settled
    <2>4. SettledOf(db) = {f \in Files : IsRestoredTerminal(db, f)}
      BY <1>5 DEF SettledOf
    <2> QED
      BY <1>3, <2>2, <2>3, <2>4
  <1> QED
    BY <1>4, <1>5

LEMMA DurableStep ==
  ASSUME Inv, Inv', [Next]_vars
  PROVE  [Durable!Next]_(Durable!vars)
  <1>1. RowStep(db, db')
    BY RowsStep DEF Inv
  <1>2. Life = LifeOf(db) /\ Settled = SettledOf(db)
    BY DurableState
  <1>3. (Life = LifeOf(db) /\ Settled = SettledOf(db))'
    BY DurableState, PTL
  <1> QED
    BY <1>1, <1>2, <1>3
       DEF RowStep, Durable!Next, Durable!vars, Durable!Offer, Durable!Cancel, Durable!End,
           Durable!Forget, Durable!Settle

\* IsDurable: the sending side, with its crashes and restarts, is a durable
\* transfer.
THEOREM OutgoingIsDurable == Spec => IsDurable
  <1>1. Init => Durable!Init
    BY DEF Init, Durable!Init, Life, Settled, Sync, NoRows
  <1>2. Inv /\ Inv' /\ [Next]_vars => [Durable!Next]_(Durable!vars)
    BY DurableStep
  <1> QED
    BY <1>1, <1>2, Inductive, PTL DEF Spec, IsDurable, Durable!Spec

-----------------------------------------------------------------------------
(* What a connection leaves behind: verdicts that the receiver is told of, *)
(* and pauses that are shown.                                              *)

\* Without the message that makes on_cancel drop the task of one file.
NoCancel == "Cancel" \notin PeerMsgs

\* The receiver is to be told of f: the request is in the queue of the loop.
Asked(f) == \E k \in {"Reject", "Fail"} : Req(k, f) \in Range(reqs)

\* The loop is about to stop, or to report and stop, the task of f.
Stopping(f) == pc.op \in Verdicts \cup {"stop"} /\ pc.f = f

\* A connection is served, or what served it is being shut down.
Serving == cli \in {"run", "drain", "shut", "cut"}

\* A client task that is not spawned has no requests and shows nothing; one that serves
\* no connection has neither tasks nor jobs.  An upload is begun where there is none.
RestInv ==
  /\ cli = "none" => reqs = <<>> /\ \A f \in Files : fev[f] = "Idle"
  /\ ~Serving => held = {} /\ \A k \in Kinds, f \in Files : job[k][f] = "none"
  /\ \A f \in aborted : job["upload"][f] # "none"
  /\ pc.op = "begin" => job["upload"][pc.f] = "none"

\* While the transfer can be used its connection is registered and the loop is not told
\* to close; and what the loop is told to stop, or has stopped, has ended in the manager
\* and, once it is stopped, was exchanged with the receiver.
StopAt(f) ==
  /\ Asked(f) => f \in PendingFiles
  /\ Stopping(f) => file[f] \in Verdicts
  /\ f \in aborted => file[f] \in Verdicts /\ f \in known

StopInv ==
  /\ \A f \in Files : Stopping(f) => f \in known
  /\ Usable => /\ cli \in {"hello", "run"} => conn
               /\ Close \notin Range(reqs) /\ pc.op \notin {"closed", "cancel"}
               /\ \A f \in Files : StopAt(f)

\* A rejection or a failure is in the queue, is being reported or was exchanged.
ConveyedAt(f) ==
  /\ cli = "hello" => Asked(f)
  /\ cli = "run" => Asked(f) \/ f \in known \/ \E k \in Kinds : job[k][f] = "posted"

ConveyInv == Usable => \A f \in PendingFiles : ConveyedAt(f)

\* A file that is shown as being uploaded, or that a job uploads, is kept by the loop,
\* is about to be paused, or goes with the transfer.
ShownAt(f) ==
  /\ fev[f] # "Idle" => f \in held \/ f \in pausing \/ pc.op = "closing"
  /\ job["upload"][f] # "none" => f \in held \/ pc.op = "closing"

ShownInv == Usable => \A f \in Files : file[f] = "Alive" => ShownAt(f)

\* What the queue holds after a request is taken or added.
LEMMA PopAsked ==
  ASSUME TypeOK, NEW k, HasReq(k), reqs' = Tail(reqs)
  PROVE  /\ Range(reqs') \subseteq Range(reqs)
         /\ \A r \in Range(reqs) : r \in Range(reqs') \/ r = Head(reqs)
         /\ Head(reqs) \in Range(reqs) /\ Head(reqs) \in ClientReqs /\ Head(reqs).k = k
  <1>1. reqs \in Seq(ClientReqs) /\ reqs # <<>>
    BY DEF HasReq, TypeOK
  <1>2. Head(reqs) = reqs[1] /\ 1 \in DOMAIN reqs /\ Head(reqs) \in ClientReqs
    BY <1>1
  <1>3. Range(Tail(reqs)) \subseteq Range(reqs)
    BY <1>1, TailRange
  <1>4. ASSUME NEW r \in Range(reqs), r # Head(reqs) PROVE r \in Range(Tail(reqs))
    <2>1. PICK i \in DOMAIN reqs : reqs[i] = r
      BY DEF Range
    <2>2. i # 1
      BY <1>2, <1>4, <2>1
    <2>3. i - 1 \in DOMAIN Tail(reqs) /\ Tail(reqs)[i - 1] = r
      BY <1>1, <2>1, <2>2
    <2> QED
      BY <2>3 DEF Range
  <1>5. Head(reqs) \in Range(reqs) /\ Head(reqs).k = k
    BY <1>2 DEF Range, HasReq
  <1> QED
    BY <1>2, <1>3, <1>4, <1>5

LEMMA PushAsked ==
  ASSUME TypeOK, NEW r \in ClientReqs
  PROVE  /\ Range(reqs) \subseteq Range(Push(r))
         /\ Range(Push(r)) \subseteq Range(reqs) \cup {r}
         /\ conn /\ cli \in {"hello", "run"} => r \in Range(Push(r))
         /\ cli = "none" => Push(r) = reqs
  <1>1. reqs \in Seq(ClientReqs)
    BY DEF TypeOK
  <1>2. Range(Append(reqs, r)) = Range(reqs) \cup {r}
    BY <1>1, AppendRange
  <1> QED
    BY <1>2 DEF Push

LEMMA ReqsDiffer ==
  /\ \A k, l, f, g : Req(k, f) = Req(l, g) => k = l /\ f = g
  /\ \A k, f : Req(k, f) = Close => k = "Close"
  BY DEF Req, Close

LEMMA OrdersComplete ==
  ASSUME NEW S, S \subseteq Files, NEW s \in Orders(S), NEW x \in S
  PROVE  \E i \in DOMAIN s : s[i] = x
  <1> DEFINE n == Cardinality(S)
  <1>1. IsFiniteSet(S) /\ n \in Nat
    BY FilesAssumption, FS_Subset, FS_CardinalityType
  <1>2. Cardinality(1 .. n) = n
    BY <1>1, FS_Interval
  <1>3. s \in Injection(1 .. n, S)
    BY DEF Orders, Injection, IsInjective
  <1>4. s \in Surjection(1 .. n, S)
    BY <1>1, <1>2, <1>3, FS_Injection
  <1> QED
    BY <1>4 DEF Surjection

\* One job changes.
LEMMA JobMoved ==
  ASSUME TypeOK, NEW k \in Kinds, NEW f \in Files, NEW s, JobTo(k, f, s)
  PROVE  /\ \A l \in Kinds, g \in Files : job'[l][g] = IF l = k /\ g = f THEN s ELSE job[l][g]
         /\ aborted' \subseteq aborted /\ aborted \ {f} \subseteq aborted'
         /\ k = "upload" /\ s = "none" => f \notin aborted'
  BY DEF JobTo, TypeOK

LEMMA RestStep ==
  TypeOK /\ ControlInv /\ RestInv /\ [Next]_vars => RestInv'
  <1> SUFFICES ASSUME TypeOK, ControlInv, RestInv, [Next]_vars PROVE RestInv'
    OBVIOUS
  <1> USE DEF mgr, client, jobs, events, ghost, bounds
  <1>1. ASSUME DialDeferred PROVE RestInv'
    BY <1>1 DEF RestInv, Serving, Select, TypeOK, ControlInv, DialDeferred, Dials
  <1>2. ASSUME DialRefused PROVE RestInv'
    BY <1>2 DEF RestInv, Serving, Select, TypeOK, ControlInv, DialRefused, Dials, Remove
  <1>3. ASSUME DialConnected PROVE RestInv'
    BY <1>3 DEF RestInv, Serving, Select, TypeOK, ControlInv, DialConnected, Dials
  <1>4. ASSUME OnReqReject PROVE RestInv'
    BY <1>4 DEF RestInv, Serving, Select, TypeOK, ControlInv, OnReqReject, HasReq, StopTask,
       Selecting, Stoppable, stop
  <1>5. ASSUME OnReqFail PROVE RestInv'
    BY <1>5 DEF RestInv, Serving, Select, TypeOK, ControlInv, OnReqFail, HasReq, Selecting
  <1>6. ASSUME OnReqClose PROVE RestInv'
    BY <1>6 DEF RestInv, Serving, Select, TypeOK, ControlInv, OnReqClose, HasReq, OnStop, Then,
       Selecting, stop
  <1>7. ASSUME RecvClose PROVE RestInv'
    BY <1>7 DEF RestInv, Serving, Select, TypeOK, ControlInv, RecvClose, OnStop, Then, Receives,
       stop, Selecting
  <1>8. ASSUME NEW m \in {"Done", "Error", "Reject"}, NEW f \in Files, RecvVerdict(m, f) PROVE RestInv'
    <2>1. UNCHANGED <<cli, reqs, fev, held, job, aborted>>
      BY <1>8 DEF RecvVerdict
    <2>2. pc'.op # "begin"
      BY <1>8, VerdictOfTyped DEF RecvVerdict, Then, Verdicts
    <2> QED
      BY <2>1, <2>2 DEF RestInv, Serving
  <1>9. ASSUME NEW f \in Files, RecvCancel(f) PROVE RestInv'
    BY <1>9 DEF RestInv, Serving, Select, TypeOK, ControlInv, RecvCancel, StopTask, Stoppable,
       Receives, stop, Selecting
  <1>10. ASSUME NEW f \in Files, RecvStart(f) PROVE RestInv'
    BY <1>10 DEF RestInv, Serving, Select, TypeOK, ControlInv, RecvStart, Then, Receives, start,
       Selecting
  <1>11. ASSUME NEW f \in Files, RecvReqChsum(f) PROVE RestInv'
    BY <1>11 DEF RestInv, Serving, Select, TypeOK, ControlInv, RecvReqChsum, Receives, Selecting
  <1>12. ASSUME LinkBroken PROVE RestInv'
    BY <1>12 DEF RestInv, Serving, Select, TypeOK, ControlInv, LinkBroken, Selecting
  <1>13. ASSUME DialRefusedEmit PROVE RestInv'
    BY <1>13 DEF RestInv, Serving, Select, TypeOK, ControlInv, DialRefusedEmit
  <1>14. ASSUME Connected PROVE RestInv'
    BY <1>14 DEF RestInv, Serving, Select, TypeOK, ControlInv, Connected
  <1>15. ASSUME HelloSent PROVE RestInv'
    BY <1>15 DEF RestInv, Serving, Select, TypeOK, ControlInv, HelloSent
  <1>16. ASSUME HelloFailed PROVE RestInv'
    BY <1>16 DEF RestInv, Serving, Select, TypeOK, ControlInv, HelloFailed
  <1>17. ASSUME OnReqCloseRemove PROVE RestInv'
    BY <1>17 DEF RestInv, Serving, Select, TypeOK, ControlInv, OnReqCloseRemove, At, Remove
  <1>18. ASSUME RecvCloseRemove PROVE RestInv'
    BY <1>18 DEF RestInv, Serving, Select, TypeOK, ControlInv, RecvCloseRemove, At, Then, Remove
  <1>19. ASSUME RecvCloseCancel PROVE RestInv'
    BY <1>19 DEF RestInv, Serving, Select, TypeOK, ControlInv, RecvCloseCancel, At
  <1>20. ASSUME RecvVerdictEmit PROVE RestInv'
    BY <1>20 DEF RestInv, Serving, Select, TypeOK, ControlInv, RecvVerdictEmit, At, Then, stop,
       terminate
  <1>21. ASSUME RecvVerdictStop PROVE RestInv'
    BY <1>21 DEF RestInv, Serving, Select, TypeOK, ControlInv, RecvVerdictStop, StopTask, At,
       stop, Stoppable
  <1>22. ASSUME StartEvents PROVE RestInv'
    BY <1>22 DEF RestInv, Serving, Select, TypeOK, ControlInv, StartEvents, Stoppable, At, Then,
       start
  <1>23. ASSUME StartUpload PROVE RestInv'
    BY <1>23 DEF RestInv, Serving, Select, TypeOK, ControlInv, StartUpload, At, start, throttled
  <1>24. ASSUME RunReturns PROVE RestInv'
    BY <1>24 DEF RestInv, Serving, NoJobs, RunReturns, TypeOK
  <1>25. ASSUME Disconnect PROVE RestInv'
    BY <1>25 DEF RestInv, Serving, Select, TypeOK, ControlInv, Disconnect
  <1>26. ASSUME Drained PROVE RestInv'
    BY <1>26 DEF RestInv, Serving, Select, TypeOK, ControlInv, Drained
  <1>27. ASSUME NEW k \in Kinds, NEW f \in Files, JobAborted(k, f) PROVE RestInv'
    BY <1>27 DEF RestInv, Serving, Select, TypeOK, ControlInv, JobAborted, JobTo, IsAborted
  <1>28. ASSUME NEW k \in Kinds, NEW f \in Files, JobSent(k, f) PROVE RestInv'
    BY <1>28 DEF RestInv, Serving, Select, TypeOK, ControlInv, JobSent, JobTo, JobAt
  <1>29. ASSUME NEW k \in Kinds, NEW f \in Files, JobFail(k, f) PROVE RestInv'
    <2>1. Serving
      BY <1>29 DEF JobFail, JobAt, RestInv, Kinds
    <2>2. UNCHANGED <<cli, pc>> /\ job[k][f] # "none"
      BY <1>29 DEF JobFail, JobAt
    <2>3. PICK s : JobTo(k, f, s) /\ (s # "none" \/ k # "upload" \/ f \notin aborted')
      BY <1>29, JobMoved DEF JobFail, Kinds
    <2>4. ASSUME NEW g \in aborted' PROVE job'["upload"][g] # "none"
      <3>1. g \in aborted /\ g \in Files /\ job["upload"][g] # "none"
        BY <2>3, JobMoved DEF RestInv, TypeOK, Kinds
      <3> QED
        BY <2>3, <3>1, JobMoved DEF Kinds
    <2>5. pc.op = "begin" => pc.f \in Files /\ job'["upload"][pc.f] = "none"
      <3>1. pc.op = "begin" => pc.f \in Files /\ job["upload"][pc.f] = "none"
        BY PcTyped DEF RestInv, TypeOK
      <3> QED
        BY <2>2, <2>3, <3>1, JobMoved DEF Kinds
    <2> QED
      BY <2>1, <2>2, <2>4, <2>5 DEF RestInv, Serving
  <1>30. ASSUME NEW k \in Kinds, NEW f \in Files, JobFailCut(k, f) PROVE RestInv'
    BY <1>30 DEF RestInv, Serving, Select, TypeOK, ControlInv, JobFailCut, JobTo, JobAt, IsAborted
  <1>31. ASSUME NEW k \in Kinds, NEW f \in Files, JobEmit(k, f) PROVE RestInv'
    BY <1>31 DEF RestInv, Serving, Select, TypeOK, ControlInv, JobEmit, JobTo, JobAt, terminate
  <1>32. ASSUME NEW f \in Files, JobQueue(f) PROVE RestInv'
    BY <1>32 DEF RestInv, Serving, Select, TypeOK, ControlInv, JobQueue, JobTo, JobAt
  <1>33. ASSUME NEW f \in Files, JobPermit(f) PROVE RestInv'
    <2>1. Serving
      BY <1>33 DEF JobPermit, JobAt, RestInv, Kinds
    <2>2. UNCHANGED <<cli, pc>> /\ job["upload"][f] # "none"
      BY <1>33 DEF JobPermit, JobAt
    <2>3. PICK s : JobTo("upload", f, s) /\ (s # "none" \/ "upload" # "upload" \/ f \notin aborted')
      BY <1>33, JobMoved DEF JobPermit, Kinds
    <2>4. ASSUME NEW g \in aborted' PROVE job'["upload"][g] # "none"
      <3>1. g \in aborted /\ g \in Files /\ job["upload"][g] # "none"
        BY <2>3, JobMoved DEF RestInv, TypeOK, Kinds
      <3> QED
        BY <2>3, <3>1, JobMoved DEF Kinds
    <2>5. pc.op = "begin" => pc.f \in Files /\ job'["upload"][pc.f] = "none"
      <3>1. pc.op = "begin" => pc.f \in Files /\ job["upload"][pc.f] = "none"
        BY PcTyped DEF RestInv, TypeOK
      <3> QED
        BY <2>2, <2>3, <3>1, JobMoved DEF Kinds
    <2> QED
      BY <2>1, <2>2, <2>4, <2>5 DEF RestInv, Serving
  <1>34. ASSUME NEW f \in Files, Pause(f) PROVE RestInv'
    BY <1>34 DEF RestInv, Serving, Select, TypeOK, ControlInv, Pause, stop
  <1>35. ASSUME ApiSend PROVE RestInv'
    BY <1>35 DEF RestInv, Serving, Select, TypeOK, ControlInv, ApiSend
  <1>36. ASSUME ApiCancel PROVE RestInv'
    BY <1>36 DEF RestInv, Serving, Select, TypeOK, ControlInv, ApiCancel, Remove, Calls, Push
  <1>37. ASSUME ApiPurge PROVE RestInv'
    BY <1>37 DEF RestInv, Serving, Select, TypeOK, ControlInv, ApiPurge, Calls
  <1>38. ASSUME NEW f \in Files, ApiReject(f) PROVE RestInv'
    BY <1>38 DEF RestInv, Serving, Select, TypeOK, ControlInv, ApiReject, Calls, Push
  <1>39. ASSUME ApiRejectEmit PROVE RestInv'
    BY <1>39 DEF RestInv, Serving, ApiRejectEmit, ApiIdle, ControlInv
  <1>40. ASSUME ApiCancelEmit PROVE RestInv'
    BY <1>40 DEF RestInv, Serving, Select, TypeOK, ControlInv, ApiCancelEmit, stop
  <1>41. ASSUME EventTask PROVE RestInv'
    BY <1>41 DEF RestInv, Serving, Select, TypeOK, ControlInv, EventTask
  <1>42. ASSUME Crash PROVE RestInv'
    BY <1>42 DEF RestInv, Serving, NoJobs, Select, Crash, Down
  <1>43. ASSUME CrashInEventTask PROVE RestInv'
    BY <1>43 DEF RestInv, Serving, NoJobs, Select, CrashInEventTask, Down
  <1>44. ASSUME Restart PROVE RestInv'
    BY <1>44 DEF RestInv, Serving, Select, TypeOK, ControlInv, Restart
  <1>45. CASE UNCHANGED vars
    BY <1>45 DEF vars, RestInv, Serving, Select, TypeOK, ControlInv
  <1> QED
    BY <1>1, <1>2, <1>3, <1>4, <1>5, <1>6, <1>7, <1>8, <1>9, <1>10, <1>11, <1>12, <1>13, <1>14,
       <1>15, <1>16, <1>17, <1>18, <1>19, <1>20, <1>21, <1>22, <1>23, <1>24, <1>25, <1>26,
       <1>27, <1>28, <1>29, <1>30, <1>31, <1>32, <1>33, <1>34, <1>35, <1>36, <1>37, <1>38,
       <1>39, <1>40, <1>41, <1>42, <1>43, <1>44, <1>45
       DEF Next, Dial, Request, Message, Handler, Job, Api, ApiRest

\* A step that lets the loop stop nothing but what has ended.
LEMMA StopKept ==
  ASSUME TypeOK, ControlInv, [Next]_vars, StopInv, Usable' => Usable, known \subseteq known',
         Usable' /\ cli' \in {"hello", "run"} => conn',
         Usable' => Close \notin Range(reqs') /\ pc'.op \notin {"closed", "cancel"},
         \A f \in Files : Usable' /\ Asked(f)' => Asked(f) \/ f \in PendingFiles',
         \A f \in Files : Stopping(f)' =>
           Stopping(f) \/ (f \in known' /\ (Usable' => file'[f] \in Verdicts)),
         \A f \in Files : Usable' /\ f \in aborted' =>
           f \in aborted \/ (file'[f] \in Verdicts /\ f \in known')
  PROVE  StopInv'
  <1>1. \A f \in Files : Usable' /\ file[f] \in Verdicts => file'[f] = file[f]
    BY VerdictKept DEF Flips, Usable
  <1>2. \A f \in Files : Usable' /\ f \in PendingFiles => f \in PendingFiles'
    BY <1>1 DEF PendingFiles, Verdicts
  <1>3. \A f \in Files : Usable' => StopAt(f)'
    BY <1>1, <1>2 DEF StopInv, StopAt
  <1> QED
    BY <1>3 DEF StopInv

LEMMA StopStep ==
  NoCancel /\ TypeOK /\ ControlInv /\ RestInv /\ StopInv /\ [Next]_vars => StopInv'
  <1> SUFFICES ASSUME NoCancel, TypeOK, ControlInv, RestInv, StopInv, [Next]_vars PROVE StopInv'
    OBVIOUS
  <1> USE DEF mgr, client, jobs, events, ghost, bounds
  <1>1. ASSUME DialDeferred PROVE StopInv'
    BY <1>1 DEF StopInv, StopAt, Asked, Stopping, PendingFiles, Usable, TypeOK, ControlInv,
       DialDeferred, Dials
  <1>2. ASSUME DialRefused PROVE StopInv'
    BY <1>2 DEF StopInv, StopAt, Asked, Stopping, PendingFiles, Usable, TypeOK, ControlInv,
       DialRefused, Dials, Remove
  <1>3. ASSUME DialConnected PROVE StopInv'
    BY <1>3 DEF StopInv, StopAt, Asked, Stopping, PendingFiles, Usable, TypeOK, ControlInv,
       DialConnected, Dials
  <1>4. ASSUME OnReqReject PROVE StopInv'
    <2> DEFINE f == Head(reqs).f
    <2>1. /\ Range(reqs') \subseteq Range(reqs)
          /\ f \in Files /\ Asked(f)
      <3>1. /\ Head(reqs) \in Range(reqs) /\ Head(reqs) \in ClientReqs /\ Head(reqs).k = "Reject"
            /\ Range(reqs') \subseteq Range(reqs)
        BY <1>4, PopAsked DEF OnReqReject
      <3>2. f \in Files /\ Head(reqs) = Req("Reject", f)
        BY <3>1 DEF ClientReqs, Close, Req
      <3> QED
        BY <3>1, <3>2 DEF Asked
    <2>2. UNCHANGED <<xfer, file, conn, cli, pc>> /\ known' = known \cup {f}
      BY <1>4 DEF OnReqReject
    <2>3. \A g \in aborted' : g \in aborted \/ g = f
      BY <1>4 DEF OnReqReject, StopTask
    <2> HIDE DEF f
    <2>4. Usable => file[f] \in Verdicts
      BY <2>1 DEF StopInv, StopAt, PendingFiles, Verdicts
    <2> QED
      BY <2>1, <2>2, <2>3, <2>4, StopKept DEF StopInv, Asked, Stopping, Usable
  <1>5. ASSUME OnReqFail PROVE StopInv'
    <2>1. Range(reqs') \subseteq Range(reqs)
      BY <1>5, PopAsked DEF OnReqFail
    <2>2. UNCHANGED <<xfer, file, conn, cli, pc, aborted>> /\ known \subseteq known'
      BY <1>5 DEF OnReqFail
    <2> QED
      BY <2>1, <2>2, StopKept DEF StopInv, Asked, Stopping, Usable
  <1>6. ASSUME OnReqClose PROVE StopInv'
    <2>1. Close \in Range(reqs)
      <3>1. Head(reqs) \in Range(reqs) /\ Head(reqs) \in ClientReqs /\ Head(reqs).k = "Close"
        BY <1>6, PopAsked DEF OnReqClose
      <3> QED
        BY <3>1 DEF ClientReqs, Close, Req
    <2>2. ~Usable /\ xfer' = xfer
      BY <1>6, <2>1 DEF StopInv, OnReqClose
    <2>3. \A f \in Files : ~Stopping(f)'
      BY <1>6 DEF OnReqClose, Then, Stopping, Verdicts
    <2> QED
      BY <2>2, <2>3 DEF StopInv, Usable
  <1>7. ASSUME RecvClose PROVE StopInv'
    <2>1. UNCHANGED <<xfer, file, conn, cli, reqs, known, aborted>>
      BY <1>7 DEF RecvClose
    <2>2. pc'.op = "closing"
      BY <1>7 DEF RecvClose, Then
    <2> QED
      BY <2>1, <2>2, StopKept DEF StopInv, Asked, Stopping, Verdicts, Usable
  <1>8. ASSUME NEW m \in {"Done", "Error", "Reject"}, NEW f \in Files, RecvVerdict(m, f) PROVE StopInv'
    <2>1. UNCHANGED <<xfer, conn, cli, reqs, aborted>> /\ known' = known \cup {f}
      BY <1>8 DEF RecvVerdict
    <2>2. pc'.op \in Verdicts \cup {"stop"} /\ pc'.f = f
      BY <1>8, VerdictOfTyped DEF RecvVerdict, Then
    <2>3. Usable => file'[f] \in Verdicts
      BY <1>8, VerdictOfTyped DEF RecvVerdict, Terminate, Usable, TypeOK
    <2>4. "closed" \notin Verdicts /\ "cancel" \notin Verdicts
      BY DEF Verdicts
    <2> QED
      BY <2>1, <2>2, <2>3, <2>4, StopKept DEF StopInv, Asked, Stopping, Usable
  <1>9. ASSUME NEW f \in Files, RecvCancel(f) PROVE StopInv'
    BY <1>9 DEF RecvCancel, Receives, NoCancel
  <1>10. ASSUME NEW f \in Files, RecvStart(f) PROVE StopInv'
    <2>1. UNCHANGED <<xfer, file, conn, cli, reqs, known, aborted>>
      BY <1>10 DEF RecvStart
    <2>2. (pc' = pc \/ pc'.op = "start") /\ "start" \notin Verdicts
      BY <1>10 DEF RecvStart, Then, Verdicts
    <2> QED
      BY <2>1, <2>2, StopKept DEF StopInv, Asked, Stopping, Usable
  <1>11. ASSUME NEW f \in Files, RecvReqChsum(f) PROVE StopInv'
    BY <1>11 DEF StopInv, StopAt, Asked, Stopping, PendingFiles, Usable, TypeOK, ControlInv,
       RecvReqChsum, Receives, Selecting
  <1>12. ASSUME LinkBroken PROVE StopInv'
    BY <1>12 DEF StopInv, StopAt, Asked, Stopping, PendingFiles, Usable, TypeOK, ControlInv,
       LinkBroken, Selecting
  <1>13. ASSUME DialRefusedEmit PROVE StopInv'
    BY <1>13 DEF StopInv, StopAt, Asked, Stopping, PendingFiles, Usable, TypeOK, ControlInv,
       DialRefusedEmit
  <1>14. ASSUME Connected PROVE StopInv'
    <2>1. UNCHANGED <<pc, known, aborted, file>> /\ pc = Select
      BY <1>14 DEF Connected, ControlInv
    <2>2. CASE ~Usable
      <3>1. ~Usable'
        BY <1>14, <2>2 DEF Connected, Usable
      <3> QED
        BY <2>1, <3>1 DEF StopInv, Stopping
    <2>3. CASE Usable
      <3>1. conn' = TRUE /\ Usable'
        BY <1>14, <2>3 DEF Connected, Activated, Usable
      <3>2. PICK s \in Orders(PendingFiles) : reqs' = [i \in DOMAIN s |-> PendingReq(s[i])]
        BY <1>14, <2>3 DEF Connected, Usable
      <3>3. \A i \in DOMAIN s : s[i] \in PendingFiles /\ s[i] \in Files
        BY <3>2 DEF Orders, PendingFiles
      <3>4. \A r \in Range(reqs') : \E g \in PendingFiles : r = PendingReq(g)
        BY <3>2, <3>3 DEF Range
      <3>5. Close \notin Range(reqs') /\ \A f \in Files : Asked(f)' => f \in PendingFiles
        BY <3>4, ReqsDiffer DEF PendingReq, Asked
      <3>6. \A f \in Files : f \in PendingFiles => f \in PendingFiles'
        BY <2>1 DEF PendingFiles
      <3> QED
        BY <2>1, <2>3, <3>1, <3>5, <3>6, StopKept DEF StopInv, Stopping, Select
    <2> QED
      BY <2>2, <2>3
  <1>15. ASSUME HelloSent PROVE StopInv'
    <2>1. pc = Select /\ pc' = pc
      BY <1>15 DEF HelloSent, ControlInv
    <2>2. aborted = {} /\ UNCHANGED <<xfer, file, conn, reqs, aborted>>
      BY <1>15 DEF HelloSent, RestInv, Serving, TypeOK, Kinds
    <2>3. \A f \in Files : ~Stopping(f)'
      BY <2>1 DEF Stopping, Select, Verdicts
    <2>4. Usable' => conn' /\ Close \notin Range(reqs')
      BY <1>15, <2>2 DEF StopInv, Usable, HelloSent
    <2>5. \A f \in Files : Usable' => StopAt(f)'
      BY <2>2, <2>3 DEF StopInv, StopAt, Asked, PendingFiles, Usable
    <2> QED
      BY <2>1, <2>3, <2>4, <2>5 DEF StopInv, Select
  <1>16. ASSUME HelloFailed PROVE StopInv'
    <2>1. UNCHANGED <<xfer, file, conn, pc, known, aborted>> /\ cli' = "lost" /\ reqs' = <<>>
      BY <1>16 DEF HelloFailed
    <2> QED
      BY <2>1, EmptyRange, StopKept DEF StopInv, Asked, Stopping, Usable
  <1>17. ASSUME OnReqCloseRemove PROVE StopInv'
    <2>1. ~Usable'
      BY <1>17 DEF OnReqCloseRemove, At, Remove, StopInv, Usable
    <2>2. \A f \in Files : ~Stopping(f)'
      BY <1>17 DEF OnReqCloseRemove, At, Remove, Stopping, Select, Verdicts
    <2> QED
      BY <2>1, <2>2 DEF StopInv
  <1>18. ASSUME RecvCloseRemove PROVE StopInv'
    <2>1. ~Usable'
      BY <1>18 DEF RecvCloseRemove, At, Then, Remove, StopInv, Usable
    <2>2. \A f \in Files : ~Stopping(f)'
      BY <1>18 DEF RecvCloseRemove, At, Then, Remove, Stopping, Select, Verdicts
    <2> QED
      BY <2>1, <2>2 DEF StopInv
  <1>19. ASSUME RecvCloseCancel PROVE StopInv'
    <2>1. ~Usable'
      BY <1>19 DEF RecvCloseCancel, At, StopInv, Usable
    <2>2. \A f \in Files : ~Stopping(f)'
      BY <1>19 DEF RecvCloseCancel, At, Stopping, Select, Verdicts
    <2> QED
      BY <2>1, <2>2 DEF StopInv
  <1>20. ASSUME RecvVerdictEmit PROVE StopInv'
    BY <1>20 DEF StopInv, StopAt, Asked, Stopping, PendingFiles, Usable, TypeOK, ControlInv,
       RecvVerdictEmit, At, Then, stop, terminate
  <1>21. ASSUME RecvVerdictStop PROVE StopInv'
    <2>1. UNCHANGED <<xfer, file, conn, cli, reqs, known>> /\ pc' = Select /\ Stopping(pc.f)
      BY <1>21 DEF RecvVerdictStop, At, Stopping
    <2>2. pc.f \in Files
      BY <1>21, PcTyped DEF RecvVerdictStop, At, TypeOK
    <2>3. \A g \in aborted' : g \in aborted \/ g = pc.f
      BY <1>21 DEF RecvVerdictStop, StopTask
    <2>4. pc.f \in known /\ (Usable => file[pc.f] \in Verdicts)
      BY <2>1, <2>2 DEF StopInv, StopAt
    <2>5. \A f \in Files : ~Stopping(f)'
      BY <2>1 DEF Stopping, Select, Verdicts
    <2> QED
      BY <2>1, <2>3, <2>4, <2>5, StopKept DEF StopInv, Asked, Usable, Select
  <1>22. ASSUME StartEvents PROVE StopInv'
    <2>1. UNCHANGED <<xfer, file, conn, cli, reqs, known, aborted>>
      BY <1>22 DEF StartEvents
    <2>2. pc'.op \notin Verdicts \cup {"stop", "closed", "cancel"}
      BY <1>22 DEF StartEvents, Then, Select, Verdicts
    <2> QED
      BY <2>1, <2>2, StopKept DEF StopInv, Asked, Stopping, Usable
  <1>23. ASSUME StartUpload PROVE StopInv'
    <2>1. UNCHANGED <<xfer, file, conn, cli, reqs, known, aborted>>
      BY <1>23 DEF StartUpload
    <2>2. pc'.op \notin Verdicts \cup {"stop", "closed", "cancel"}
      BY <1>23 DEF StartUpload, Select, Verdicts
    <2> QED
      BY <2>1, <2>2, StopKept DEF StopInv, Asked, Stopping, Usable
  <1>24. ASSUME RunReturns PROVE StopInv'
    <2>1. UNCHANGED <<xfer, file, conn, pc, known, aborted>> /\ cli' \in {"fin", "lost"} /\ reqs' = <<>>
      BY <1>24 DEF RunReturns
    <2> QED
      BY <2>1, EmptyRange, StopKept DEF StopInv, Asked, Stopping, Usable
  <1>25. ASSUME Disconnect PROVE StopInv'
    BY <1>25 DEF StopInv, StopAt, Asked, Stopping, PendingFiles, Usable, TypeOK, ControlInv,
       Disconnect
  <1>26. ASSUME Drained PROVE StopInv'
    BY <1>26 DEF StopInv, StopAt, Asked, Stopping, PendingFiles, Usable, TypeOK, ControlInv, Drained
  <1>27. ASSUME NEW k \in Kinds, NEW f \in Files, JobAborted(k, f) PROVE StopInv'
    BY <1>27 DEF StopInv, StopAt, Asked, Stopping, PendingFiles, Usable, TypeOK, ControlInv,
       JobAborted, JobTo, IsAborted
  <1>28. ASSUME NEW k \in Kinds, NEW f \in Files, JobSent(k, f) PROVE StopInv'
    BY <1>28 DEF StopInv, StopAt, Asked, Stopping, PendingFiles, Usable, TypeOK, ControlInv,
       JobSent, JobTo, JobAt
  <1>29. ASSUME NEW k \in Kinds, NEW f \in Files, JobFail(k, f) PROVE StopInv'
    <2>1. UNCHANGED <<xfer, conn, cli, reqs, known, pc>>
      BY <1>29 DEF JobFail
    <2>2. aborted' \subseteq aborted
      BY <1>29 DEF JobFail, JobTo
    <2> QED
      BY <2>1, <2>2, StopKept DEF StopInv, Asked, Stopping, Usable
  <1>30. ASSUME NEW k \in Kinds, NEW f \in Files, JobFailCut(k, f) PROVE StopInv'
    <2>1. UNCHANGED <<xfer, conn, cli, reqs, known, pc>>
      BY <1>30 DEF JobFailCut
    <2>2. aborted' \subseteq aborted
      BY <1>30 DEF JobFailCut, JobTo
    <2> QED
      BY <2>1, <2>2, StopKept DEF StopInv, Asked, Stopping, Usable
  <1>31. ASSUME NEW k \in Kinds, NEW f \in Files, JobEmit(k, f) PROVE StopInv'
    BY <1>31 DEF StopInv, StopAt, Asked, Stopping, PendingFiles, Usable, TypeOK, ControlInv,
       JobEmit, JobTo, JobAt, terminate
  <1>32. ASSUME NEW f \in Files, JobQueue(f) PROVE StopInv'
    BY <1>32 DEF StopInv, StopAt, Asked, Stopping, PendingFiles, Usable, TypeOK, ControlInv,
       JobQueue, JobTo, JobAt
  <1>33. ASSUME NEW f \in Files, JobPermit(f) PROVE StopInv'
    BY <1>33 DEF StopInv, StopAt, Asked, Stopping, PendingFiles, Usable, TypeOK, ControlInv,
       JobPermit, JobTo, JobAt, start
  <1>34. ASSUME NEW f \in Files, Pause(f) PROVE StopInv'
    BY <1>34 DEF StopInv, StopAt, Asked, Stopping, PendingFiles, Usable, TypeOK, ControlInv,
       Pause, stop
  <1>35. ASSUME ApiSend PROVE StopInv'
    <2>1. cli = "none" /\ pc = Select /\ reqs = <<>> /\ aborted = {} /\ UNCHANGED <<pc, reqs, aborted>>
      BY <1>35 DEF ApiSend, ControlInv, RestInv, Serving, Kinds, TypeOK
    <2>2. cli' \notin {"hello", "run"}
      BY <1>35, <2>1 DEF ApiSend
    <2>3. \A f \in Files : ~Stopping(f)' /\ ~Asked(f)'
      BY <2>1, EmptyRange DEF Stopping, Asked, Select, Verdicts
    <2> QED
      BY <2>1, <2>2, <2>3, EmptyRange DEF StopInv, StopAt, Select
  <1>36. ASSUME ApiCancel PROVE StopInv'
    BY <1>36 DEF StopInv, StopAt, Asked, Stopping, PendingFiles, Usable, TypeOK, ControlInv,
       ApiCancel, Remove, Calls, Push
  <1>37. ASSUME ApiPurge PROVE StopInv'
    BY <1>37 DEF StopInv, StopAt, Asked, Stopping, PendingFiles, Usable, TypeOK, ControlInv,
       ApiPurge, Calls
  <1>38. ASSUME NEW f \in Files, ApiReject(f) PROVE StopInv'
    <2>1. UNCHANGED <<xfer, conn, cli, pc, known, aborted>> /\ file'[f] = "Rejected"
      BY <1>38 DEF ApiReject, Terminate, TypeOK
    <2>2. Range(reqs') \subseteq Range(reqs) \cup {Req("Reject", f)}
      BY <1>38, PushAsked, ReqsTyped DEF ApiReject
    <2>3. \A g \in Files : Asked(g)' => Asked(g) \/ g = f
      BY <2>2, ReqsDiffer DEF Asked
    <2>4. Close \in Range(reqs') => Close \in Range(reqs)
      BY <2>2, ReqsDiffer
    <2>5. f \in PendingFiles'
      BY <2>1 DEF PendingFiles
    <2> QED
      BY <2>1, <2>3, <2>4, <2>5, StopKept DEF StopInv, Stopping, Usable
  <1>39. ASSUME ApiRejectEmit PROVE StopInv'
    BY <1>39 DEF StopInv, StopAt, Asked, Stopping, PendingFiles, Usable, TypeOK, ControlInv,
       ApiRejectEmit, terminate
  <1>40. ASSUME ApiCancelEmit PROVE StopInv'
    BY <1>40 DEF StopInv, StopAt, Asked, Stopping, PendingFiles, Usable, TypeOK, ControlInv,
       ApiCancelEmit, stop
  <1>41. ASSUME EventTask PROVE StopInv'
    BY <1>41 DEF StopInv, StopAt, Asked, Stopping, PendingFiles, Usable, TypeOK, ControlInv,
       EventTask
  <1>42. ASSUME Crash PROVE StopInv'
    <2>1. ~Usable'
      BY <1>42 DEF Crash, Down, StopInv, Usable
    <2>2. \A f \in Files : ~Stopping(f)'
      BY <1>42 DEF Crash, Down, Stopping, Select, Verdicts
    <2> QED
      BY <2>1, <2>2 DEF StopInv
  <1>43. ASSUME CrashInEventTask PROVE StopInv'
    <2>1. ~Usable'
      BY <1>43 DEF CrashInEventTask, Down, StopInv, Usable
    <2>2. \A f \in Files : ~Stopping(f)'
      BY <1>43 DEF CrashInEventTask, Down, Stopping, Select, Verdicts
    <2> QED
      BY <2>1, <2>2 DEF StopInv
  <1>44. ASSUME Restart PROVE StopInv'
    <2>1. cli = "none" /\ pc = Select /\ reqs = <<>> /\ aborted = {} /\ UNCHANGED <<pc, reqs, aborted>>
      BY <1>44 DEF Restart, ControlInv, RestInv, Serving, Kinds, TypeOK
    <2>2. cli' \notin {"hello", "run"}
      BY <1>44, <2>1 DEF Restart
    <2>3. \A f \in Files : ~Stopping(f)' /\ ~Asked(f)'
      BY <2>1, EmptyRange DEF Stopping, Asked, Select, Verdicts
    <2> QED
      BY <2>1, <2>2, <2>3, EmptyRange DEF StopInv, StopAt, Select
  <1>45. CASE UNCHANGED vars
    BY <1>45 DEF vars, StopInv, StopAt, Asked, Stopping, PendingFiles, Usable, TypeOK, ControlInv
  <1> QED
    BY <1>1, <1>2, <1>3, <1>4, <1>5, <1>6, <1>7, <1>8, <1>9, <1>10, <1>11, <1>12, <1>13, <1>14,
       <1>15, <1>16, <1>17, <1>18, <1>19, <1>20, <1>21, <1>22, <1>23, <1>24, <1>25, <1>26,
       <1>27, <1>28, <1>29, <1>30, <1>31, <1>32, <1>33, <1>34, <1>35, <1>36, <1>37, <1>38,
       <1>39, <1>40, <1>41, <1>42, <1>43, <1>44, <1>45
       DEF Next, Dial, Request, Message, Handler, Job, Api, ApiRest

\* A step that ends nothing and keeps what was exchanged, or is to be.
LEMMA ConveyKept ==
  ASSUME ConveyInv, NEW f \in PendingFiles, Usable,
         cli' = "hello" => cli = "hello",
         cli' = "run" => cli = "run" \/ (cli = "hello" /\ (Asked(f) => Asked(f)')),
         Asked(f) => Asked(f)' \/ (cli' # "hello" /\ f \in known'),
         cli = "run" /\ f \in known => f \in known',
         cli = "run" => \A k \in Kinds : job[k][f] = "posted" => job'[k][f] = "posted" \/ f \in known'
  PROVE  ConveyedAt(f)'
  BY DEF ConveyInv, ConveyedAt

LEMMA ConveyStep ==
  NoCancel /\ TypeOK /\ ControlInv /\ RestInv /\ StopInv /\ ConveyInv /\ [Next]_vars => ConveyInv'
  <1> SUFFICES ASSUME NoCancel, TypeOK, ControlInv, RestInv, StopInv, ConveyInv, [Next]_vars
           PROVE  ConveyInv'
    OBVIOUS
  <1> USE DEF mgr, client, jobs, events, ghost, bounds
  <1>1. ASSUME DialDeferred PROVE ConveyInv'
    BY <1>1 DEF ConveyInv, ConveyedAt, Asked, PendingFiles, Usable, TypeOK, ControlInv,
       DialDeferred, Dials
  <1>2. ASSUME DialRefused PROVE ConveyInv'
    BY <1>2 DEF ConveyInv, ConveyedAt, Asked, PendingFiles, Usable, TypeOK, ControlInv,
       DialRefused, Dials, Remove
  <1>3. ASSUME DialConnected PROVE ConveyInv'
    BY <1>3 DEF ConveyInv, ConveyedAt, Asked, PendingFiles, Usable, TypeOK, ControlInv,
       DialConnected, Dials
  <1>4. ASSUME OnReqReject PROVE ConveyInv'
    <2> SUFFICES ASSUME Usable', NEW g \in PendingFiles' PROVE ConveyedAt(g)'
      BY DEF ConveyInv
    <2>0. g \in Files
      BY DEF PendingFiles
    <2> DEFINE f == Head(reqs).f
    <2>1. \A r \in Range(reqs) : r \in Range(reqs') \/ r = Req("Reject", f)
      <3>1. Head(reqs) \in ClientReqs /\ Head(reqs).k = "Reject"
        BY <1>4, PopAsked DEF OnReqReject
      <3>2. Head(reqs) = Req("Reject", f)
        BY <3>1 DEF ClientReqs, Close, Req
      <3> QED
        BY <1>4, <3>2, PopAsked DEF OnReqReject
    <2>2. UNCHANGED <<xfer, file, cli, job>> /\ known' = known \cup {f} /\ cli = "run"
      BY <1>4 DEF OnReqReject, HasReq, Selecting
    <2> HIDE DEF f
    <2>3. Asked(g) => Asked(g)' \/ g \in known'
      BY <2>1, <2>2, ReqsDiffer DEF Asked
    <2> QED
      BY <2>2, <2>3, ConveyKept DEF Usable, PendingFiles
  <1>5. ASSUME OnReqFail PROVE ConveyInv'
    <2> SUFFICES ASSUME Usable', NEW g \in PendingFiles' PROVE ConveyedAt(g)'
      BY DEF ConveyInv
    <2>0. g \in Files
      BY DEF PendingFiles
    <2> DEFINE f == Head(reqs).f
    <2>1. \A r \in Range(reqs) : r \in Range(reqs') \/ r = Req("Fail", f)
      <3>1. Head(reqs) \in ClientReqs /\ Head(reqs).k = "Fail"
        BY <1>5, PopAsked DEF OnReqFail
      <3>2. Head(reqs) = Req("Fail", f)
        BY <3>1 DEF ClientReqs, Close, Req
      <3> QED
        BY <1>5, <3>2, PopAsked DEF OnReqFail
    <2>2. UNCHANGED <<xfer, file, cli, job>> /\ known' = known \cup {f} /\ cli = "run"
      BY <1>5 DEF OnReqFail, HasReq, Selecting
    <2> HIDE DEF f
    <2>3. Asked(g) => Asked(g)' \/ g \in known'
      BY <2>1, <2>2, ReqsDiffer DEF Asked
    <2> QED
      BY <2>2, <2>3, ConveyKept DEF Usable, PendingFiles
  <1>6. ASSUME OnReqClose PROVE ConveyInv'
    <2>1. Close \in Range(reqs)
      <3>1. Head(reqs) \in Range(reqs) /\ Head(reqs) \in ClientReqs /\ Head(reqs).k = "Close"
        BY <1>6, PopAsked DEF OnReqClose
      <3> QED
        BY <3>1 DEF ClientReqs, Close, Req
    <2>2. ~Usable /\ xfer' = xfer
      BY <1>6, <2>1 DEF StopInv, OnReqClose
    <2> QED
      BY <2>2 DEF ConveyInv, Usable
  <1>7. ASSUME RecvClose PROVE ConveyInv'
    BY <1>7 DEF ConveyInv, ConveyedAt, Asked, PendingFiles, Usable, TypeOK, ControlInv, RecvClose,
       OnStop, Then, Receives, stop, Selecting
  <1>8. ASSUME NEW m \in {"Done", "Error", "Reject"}, NEW f \in Files, RecvVerdict(m, f) PROVE ConveyInv'
    BY <1>8 DEF ConveyInv, ConveyedAt, Asked, PendingFiles, Usable, TypeOK, ControlInv,
       RecvVerdict, Then, Receives, Terminate, stop, VerdictOf, Selecting
  <1>9. ASSUME NEW f \in Files, RecvCancel(f) PROVE ConveyInv'
    BY <1>9 DEF ConveyInv, ConveyedAt, Asked, PendingFiles, Usable, TypeOK, ControlInv,
       RecvCancel, StopTask, Stoppable, Receives, stop, Selecting
  <1>10. ASSUME NEW f \in Files, RecvStart(f) PROVE ConveyInv'
    BY <1>10 DEF ConveyInv, ConveyedAt, Asked, PendingFiles, Usable, TypeOK, ControlInv,
       RecvStart, Then, Receives, start, Selecting
  <1>11. ASSUME NEW f \in Files, RecvReqChsum(f) PROVE ConveyInv'
    BY <1>11 DEF ConveyInv, ConveyedAt, Asked, PendingFiles, Usable, TypeOK, ControlInv,
       RecvReqChsum, Receives, Selecting
  <1>12. ASSUME LinkBroken PROVE ConveyInv'
    BY <1>12 DEF ConveyInv, ConveyedAt, Asked, PendingFiles, Usable, TypeOK, ControlInv,
       LinkBroken, Selecting
  <1>13. ASSUME DialRefusedEmit PROVE ConveyInv'
    BY <1>13 DEF ConveyInv, ConveyedAt, Asked, PendingFiles, Usable, TypeOK, ControlInv,
       DialRefusedEmit
  <1>14. ASSUME Connected PROVE ConveyInv'
    <2> SUFFICES ASSUME Usable', NEW g \in PendingFiles' PROVE ConveyedAt(g)'
      BY DEF ConveyInv
    <2>0. g \in Files
      BY DEF PendingFiles
    <2>1. Usable /\ cli' = "hello" /\ UNCHANGED file
      BY <1>14 DEF Connected, Usable
    <2>2. PICK s \in Orders(PendingFiles) : reqs' = [i \in DOMAIN s |-> PendingReq(s[i])]
      BY <1>14, <2>1 DEF Connected, Usable
    <2>3. g \in PendingFiles /\ PendingFiles \subseteq Files
      BY <2>1 DEF PendingFiles
    <2>4. PICK i \in DOMAIN s : s[i] = g
      BY <2>2, <2>3, OrdersComplete
    <2>5. PendingReq(g) \in Range(reqs')
      BY <2>2, <2>4 DEF Range
    <2> QED
      BY <2>1, <2>5 DEF ConveyedAt, Asked, PendingReq
  <1>15. ASSUME HelloSent PROVE ConveyInv'
    BY <1>15 DEF ConveyInv, ConveyedAt, Asked, PendingFiles, Usable, TypeOK, ControlInv, HelloSent
  <1>16. ASSUME HelloFailed PROVE ConveyInv'
    BY <1>16 DEF ConveyInv, ConveyedAt, Asked, PendingFiles, Usable, TypeOK, ControlInv, HelloFailed
  <1>17. ASSUME OnReqCloseRemove PROVE ConveyInv'
    BY <1>17 DEF ConveyInv, ConveyedAt, Asked, PendingFiles, Usable, TypeOK, ControlInv,
       OnReqCloseRemove, At, Remove
  <1>18. ASSUME RecvCloseRemove PROVE ConveyInv'
    BY <1>18 DEF ConveyInv, ConveyedAt, Asked, PendingFiles, Usable, TypeOK, ControlInv,
       RecvCloseRemove, At, Then, Remove
  <1>19. ASSUME RecvCloseCancel PROVE ConveyInv'
    BY <1>19 DEF ConveyInv, ConveyedAt, Asked, PendingFiles, Usable, TypeOK, ControlInv,
       RecvCloseCancel, At
  <1>20. ASSUME RecvVerdictEmit PROVE ConveyInv'
    BY <1>20 DEF ConveyInv, ConveyedAt, Asked, PendingFiles, Usable, TypeOK, ControlInv,
       RecvVerdictEmit, At, Then, stop, terminate
  <1>21. ASSUME RecvVerdictStop PROVE ConveyInv'
    BY <1>21 DEF ConveyInv, ConveyedAt, Asked, PendingFiles, Usable, TypeOK, ControlInv,
       RecvVerdictStop, StopTask, At, stop, Stoppable
  <1>22. ASSUME StartEvents PROVE ConveyInv'
    BY <1>22 DEF ConveyInv, ConveyedAt, Asked, PendingFiles, Usable, TypeOK, ControlInv,
       StartEvents, Stoppable, At, Then, start
  <1>23. ASSUME StartUpload PROVE ConveyInv'
    <2> SUFFICES ASSUME Usable', NEW g \in PendingFiles' PROVE ConveyedAt(g)'
      BY DEF ConveyInv
    <2>0. g \in Files
      BY DEF PendingFiles
    <2>1. UNCHANGED <<xfer, file, cli, reqs, known>> /\ pc.op = "begin"
      BY <1>23 DEF StartUpload, At
    <2>2. pc.f \in Files /\ job["upload"][pc.f] = "none"
      BY <2>1, PcTyped DEF RestInv, TypeOK
    <2>3. \A k \in Kinds : job[k][g] = "posted" => job'[k][g] = "posted"
      BY <1>23, <2>0, <2>2 DEF StartUpload, TypeOK, Kinds
    <2> QED
      BY <2>1, <2>3, ConveyKept DEF Usable, PendingFiles, Asked
  <1>24. ASSUME RunReturns PROVE ConveyInv'
    BY <1>24 DEF ConveyInv, ConveyedAt, Asked, PendingFiles, Usable, TypeOK, ControlInv, RunReturns
  <1>25. ASSUME Disconnect PROVE ConveyInv'
    BY <1>25 DEF ConveyInv, ConveyedAt, Asked, PendingFiles, Usable, TypeOK, ControlInv, Disconnect
  <1>26. ASSUME Drained PROVE ConveyInv'
    BY <1>26 DEF ConveyInv, ConveyedAt, Asked, PendingFiles, Usable, TypeOK, ControlInv, Drained
  <1>27. ASSUME NEW k \in Kinds, NEW f \in Files, JobAborted(k, f) PROVE ConveyInv'
    <2> SUFFICES ASSUME Usable', NEW g \in PendingFiles' PROVE ConveyedAt(g)'
      BY DEF ConveyInv
    <2>0. g \in Files
      BY DEF PendingFiles
    <2>1. UNCHANGED <<xfer, file, cli, reqs, known>>
      BY <1>27 DEF JobAborted
    <2>2. Usable /\ g \in PendingFiles
      BY <2>1 DEF Usable, PendingFiles
    <2>3. cli = "run" /\ g = f => g \in known
      BY <1>27, <2>0, <2>2 DEF JobAborted, IsAborted, StopInv, StopAt
    <2>4. g # f => \A l \in Kinds : job'[l][g] = job[l][g]
      BY <1>27, <2>0, JobMoved DEF JobAborted
    <2> QED
      BY <2>1, <2>2, <2>3, <2>4, ConveyKept DEF Asked
  <1>28. ASSUME NEW k \in Kinds, NEW f \in Files, JobSent(k, f) PROVE ConveyInv'
    BY <1>28 DEF ConveyInv, ConveyedAt, Asked, PendingFiles, Usable, TypeOK, ControlInv, JobSent,
       JobTo, JobAt
  <1>29. ASSUME NEW k \in Kinds, NEW f \in Files, JobFail(k, f) PROVE ConveyInv'
    <2> SUFFICES ASSUME Usable', NEW g \in PendingFiles' PROVE ConveyedAt(g)'
      BY DEF ConveyInv
    <2>0. g \in Files
      BY DEF PendingFiles
    <2>1. UNCHANGED <<xfer, cli, reqs, known>> /\ job[k][f] = "work"
      BY <1>29 DEF JobFail, JobAt
    <2>2. CASE Usable /\ file[f] = "Alive"
      <3>1. \A h \in Files : h # f => file'[h] = file[h]
        BY <1>29, <2>2 DEF JobFail, Terminate, TypeOK
      <3>2. \A l \in Kinds, h \in Files : job'[l][h] = IF l = k /\ h = f THEN "posted" ELSE job[l][h]
        BY <1>29, <2>2, JobMoved DEF JobFail
      <3>3. CASE g = f
        <4>1. cli # "hello"
          BY <2>1 DEF RestInv, Serving
        <4> QED
          BY <2>1, <3>2, <3>3, <4>1 DEF ConveyedAt
      <3>4. CASE g # f
        BY <2>0, <2>1, <2>2, <3>1, <3>2, <3>4, ConveyKept DEF PendingFiles, Asked
      <3> QED
        BY <3>3, <3>4
    <2>3. CASE ~(Usable /\ file[f] = "Alive")
      <3>1. UNCHANGED file /\ JobTo(k, f, "none")
        BY <1>29, <2>3 DEF JobFail
      <3>2. \A l \in Kinds : job[l][g] = "posted" => job'[l][g] = "posted"
        BY <2>0, <2>1, <3>1, JobMoved
      <3> QED
        BY <2>1, <3>1, <3>2, ConveyKept DEF PendingFiles, Asked, Usable
    <2> QED
      BY <2>2, <2>3
  <1>30. ASSUME NEW k \in Kinds, NEW f \in Files, JobFailCut(k, f) PROVE ConveyInv'
    <2> SUFFICES ASSUME Usable', NEW g \in PendingFiles' PROVE ConveyedAt(g)'
      BY DEF ConveyInv
    <2>0. g \in Files
      BY DEF PendingFiles
    <2>1. /\ UNCHANGED <<xfer, cli, reqs, known>> /\ job[k][f] = "work"
          /\ Usable /\ file[f] = "Alive" /\ IsAborted(k, f) /\ JobTo(k, f, "none")
          /\ \A h \in Files : h # f => file'[h] = file[h]
      BY <1>30 DEF JobFailCut, JobAt, TypeOK
    <2>2. cli \notin {"hello", "run"}
      BY <2>1 DEF IsAborted, StopInv, StopAt, Verdicts
    <2> QED
      BY <2>1, <2>2 DEF ConveyedAt
  <1>31. ASSUME NEW k \in Kinds, NEW f \in Files, JobEmit(k, f) PROVE ConveyInv'
    BY <1>31 DEF ConveyInv, ConveyedAt, Asked, PendingFiles, Usable, TypeOK, ControlInv, JobEmit,
       JobTo, JobAt, terminate
  <1>32. ASSUME NEW f \in Files, JobQueue(f) PROVE ConveyInv'
    BY <1>32 DEF ConveyInv, ConveyedAt, Asked, PendingFiles, Usable, TypeOK, ControlInv, JobQueue,
       JobTo, JobAt
  <1>33. ASSUME NEW f \in Files, JobPermit(f) PROVE ConveyInv'
    BY <1>33 DEF ConveyInv, ConveyedAt, Asked, PendingFiles, Usable, TypeOK, ControlInv,
       JobPermit, JobTo, JobAt, start
  <1>34. ASSUME NEW f \in Files, Pause(f) PROVE ConveyInv'
    BY <1>34 DEF ConveyInv, ConveyedAt, Asked, PendingFiles, Usable, TypeOK, ControlInv, Pause, stop
  <1>35. ASSUME ApiSend PROVE ConveyInv'
    BY <1>35 DEF ConveyInv, ConveyedAt, Asked, PendingFiles, Usable, TypeOK, ControlInv, ApiSend
  <1>36. ASSUME ApiCancel PROVE ConveyInv'
    BY <1>36 DEF ConveyInv, ConveyedAt, Asked, PendingFiles, Usable, TypeOK, ControlInv,
       ApiCancel, Remove, Calls, Push
  <1>37. ASSUME ApiPurge PROVE ConveyInv'
    BY <1>37 DEF ConveyInv, ConveyedAt, Asked, PendingFiles, Usable, TypeOK, ControlInv, ApiPurge,
       Calls
  <1>38. ASSUME NEW f \in Files, ApiReject(f) PROVE ConveyInv'
    <2> SUFFICES ASSUME Usable', NEW g \in PendingFiles' PROVE ConveyedAt(g)'
      BY DEF ConveyInv
    <2>0. g \in Files
      BY DEF PendingFiles
    <2>1. UNCHANGED <<xfer, cli, known, job>> /\ Usable /\ \A h \in Files : h # f => file'[h] = file[h]
      BY <1>38 DEF ApiReject, Terminate, TypeOK
    <2>2. /\ Range(reqs) \subseteq Range(reqs')
          /\ conn /\ cli \in {"hello", "run"} => Req("Reject", f) \in Range(reqs')
      BY <1>38, PushAsked, ReqsTyped DEF ApiReject
    <2>3. CASE g = f
      BY <2>1, <2>2, <2>3 DEF ConveyedAt, StopInv, Asked
    <2>4. CASE g # f
      BY <2>0, <2>1, <2>2, <2>4, ConveyKept DEF PendingFiles, Asked
    <2> QED
      BY <2>3, <2>4
  <1>39. ASSUME ApiRejectEmit PROVE ConveyInv'
    BY <1>39 DEF ConveyInv, ConveyedAt, Asked, PendingFiles, Usable, TypeOK, ControlInv,
       ApiRejectEmit, terminate
  <1>40. ASSUME ApiCancelEmit PROVE ConveyInv'
    BY <1>40 DEF ConveyInv, ConveyedAt, Asked, PendingFiles, Usable, TypeOK, ControlInv,
       ApiCancelEmit, stop
  <1>41. ASSUME EventTask PROVE ConveyInv'
    BY <1>41 DEF ConveyInv, ConveyedAt, Asked, PendingFiles, Usable, TypeOK, ControlInv, EventTask
  <1>42. ASSUME Crash PROVE ConveyInv'
    BY <1>42 DEF ConveyInv, ConveyedAt, Asked, PendingFiles, Usable, TypeOK, ControlInv, Crash, Down
  <1>43. ASSUME CrashInEventTask PROVE ConveyInv'
    BY <1>43 DEF ConveyInv, ConveyedAt, Asked, PendingFiles, Usable, TypeOK, ControlInv,
       CrashInEventTask, Down
  <1>44. ASSUME Restart PROVE ConveyInv'
    BY <1>44 DEF ConveyInv, ConveyedAt, Asked, PendingFiles, Usable, TypeOK, ControlInv, Restart
  <1>45. CASE UNCHANGED vars
    BY <1>45 DEF vars, ConveyInv, ConveyedAt, Asked, PendingFiles, Usable, TypeOK, ControlInv
  <1> QED
    BY <1>1, <1>2, <1>3, <1>4, <1>5, <1>6, <1>7, <1>8, <1>9, <1>10, <1>11, <1>12, <1>13, <1>14,
       <1>15, <1>16, <1>17, <1>18, <1>19, <1>20, <1>21, <1>22, <1>23, <1>24, <1>25, <1>26,
       <1>27, <1>28, <1>29, <1>30, <1>31, <1>32, <1>33, <1>34, <1>35, <1>36, <1>37, <1>38,
       <1>39, <1>40, <1>41, <1>42, <1>43, <1>44, <1>45
       DEF Next, Dial, Request, Message, Handler, Job, Api, ApiRest

\* A step that shows nothing new and lets go of nothing that has not ended.
LEMMA ShownKept ==
  ASSUME ShownInv, NEW f \in Files, Usable, file[f] = "Alive",
         fev'[f] # "Idle" => fev[f] # "Idle" \/ job["upload"][f] # "none",
         job'["upload"][f] # "none" => job["upload"][f] # "none",
         f \in held => f \in held' \/ pc'.op = "closing",
         f \in pausing => f \in pausing',
         pc.op = "closing" => pc'.op = "closing"
  PROVE  ShownAt(f)'
  BY DEF ShownInv, ShownAt

LEMMA ShownStep ==
  NoCancel /\ TypeOK /\ ControlInv /\ VerdictInv /\ RestInv /\ StopInv /\ ShownInv /\ [Next]_vars
    => ShownInv'
  <1> SUFFICES ASSUME NoCancel, TypeOK, ControlInv, VerdictInv, RestInv, StopInv, ShownInv, [Next]_vars
           PROVE  ShownInv'
    OBVIOUS
  <1> USE DEF mgr, client, jobs, events, ghost, bounds
  <1>1. ASSUME DialDeferred PROVE ShownInv'
    BY <1>1 DEF ShownInv, ShownAt, Usable, TypeOK, ControlInv, DialDeferred, Dials
  <1>2. ASSUME DialRefused PROVE ShownInv'
    BY <1>2 DEF ShownInv, ShownAt, Usable, TypeOK, ControlInv, DialRefused, Dials, Remove
  <1>3. ASSUME DialConnected PROVE ShownInv'
    BY <1>3 DEF ShownInv, ShownAt, Usable, TypeOK, ControlInv, DialConnected, Dials
  <1>4. ASSUME OnReqReject PROVE ShownInv'
    <2> SUFFICES ASSUME Usable', NEW g \in Files, file'[g] = "Alive" PROVE ShownAt(g)'
      BY DEF ShownInv
    <2> DEFINE f == Head(reqs).f
    <2>1. UNCHANGED <<xfer, file, pc, job, pausing>> /\ Usable /\ file[g] = "Alive"
      BY <1>4 DEF OnReqReject, Usable
    <2>2. f \in Files /\ Asked(f)
      <3>1. Head(reqs) \in Range(reqs) /\ Head(reqs) \in ClientReqs /\ Head(reqs).k = "Reject"
        BY <1>4, PopAsked DEF OnReqReject
      <3>2. f \in Files /\ Head(reqs) = Req("Reject", f)
        BY <3>1 DEF ClientReqs, Close, Req
      <3> QED
        BY <3>1, <3>2 DEF Asked
    <2>3. g # f
      BY <2>1, <2>2 DEF StopInv, StopAt, PendingFiles
    <2> HIDE DEF f
    <2>4. (g \in held => g \in held') /\ fev'[g] = fev[g]
      BY <1>4, <2>2, <2>3 DEF OnReqReject, StopTask, TypeOK, f
    <2> QED
      BY <2>1, <2>4, ShownKept
  <1>5. ASSUME OnReqFail PROVE ShownInv'
    BY <1>5 DEF ShownInv, ShownAt, Usable, TypeOK, ControlInv, OnReqFail, HasReq, Selecting
  <1>6. ASSUME OnReqClose PROVE ShownInv'
    <2>1. Close \in Range(reqs)
      <3>1. Head(reqs) \in Range(reqs) /\ Head(reqs) \in ClientReqs /\ Head(reqs).k = "Close"
        BY <1>6, PopAsked DEF OnReqClose
      <3> QED
        BY <3>1 DEF ClientReqs, Close, Req
    <2>2. ~Usable /\ xfer' = xfer
      BY <1>6, <2>1 DEF StopInv, OnReqClose
    <2> QED
      BY <2>2 DEF ShownInv, Usable
  <1>7. ASSUME RecvClose PROVE ShownInv'
    BY <1>7 DEF ShownInv, ShownAt, Usable, TypeOK, ControlInv, RecvClose, OnStop, Then, Receives,
       stop, Selecting
  <1>8. ASSUME NEW m \in {"Done", "Error", "Reject"}, NEW f \in Files, RecvVerdict(m, f) PROVE ShownInv'
    <2> SUFFICES ASSUME Usable', NEW g \in Files, file'[g] = "Alive" PROVE ShownAt(g)'
      BY DEF ShownInv
    <2>1. UNCHANGED <<xfer, fev, job, held, pausing>> /\ Usable /\ pc = Select
      BY <1>8 DEF RecvVerdict, Usable, Receives, Selecting
    <2>2. file[g] = "Alive"
      BY <1>8, VerdictOfTyped DEF RecvVerdict, Terminate, TypeOK, Verdicts
    <2> QED
      BY <2>1, <2>2, ShownKept DEF Select
  <1>9. ASSUME NEW f \in Files, RecvCancel(f) PROVE ShownInv'
    BY <1>9 DEF RecvCancel, Receives, NoCancel
  <1>10. ASSUME NEW f \in Files, RecvStart(f) PROVE ShownInv'
    <2> SUFFICES ASSUME Usable', NEW g \in Files, file'[g] = "Alive" PROVE ShownAt(g)'
      BY DEF ShownInv
    <2>1. UNCHANGED <<xfer, file, fev, job, held, pausing>> /\ Usable /\ pc = Select
      BY <1>10 DEF RecvStart, Usable, Receives, Selecting
    <2> QED
      BY <2>1, ShownKept DEF Select
  <1>11. ASSUME NEW f \in Files, RecvReqChsum(f) PROVE ShownInv'
    BY <1>11 DEF ShownInv, ShownAt, Usable, TypeOK, ControlInv, RecvReqChsum, Receives, Selecting
  <1>12. ASSUME LinkBroken PROVE ShownInv'
    BY <1>12 DEF ShownInv, ShownAt, Usable, TypeOK, ControlInv, LinkBroken, Selecting
  <1>13. ASSUME DialRefusedEmit PROVE ShownInv'
    BY <1>13 DEF ShownInv, ShownAt, Usable, TypeOK, ControlInv, DialRefusedEmit
  <1>14. ASSUME Connected PROVE ShownInv'
    BY <1>14 DEF ShownInv, ShownAt, Usable, TypeOK, ControlInv, Connected, Activated
  <1>15. ASSUME HelloSent PROVE ShownInv'
    BY <1>15 DEF ShownInv, ShownAt, Usable, TypeOK, ControlInv, HelloSent
  <1>16. ASSUME HelloFailed PROVE ShownInv'
    BY <1>16 DEF ShownInv, ShownAt, Usable, TypeOK, ControlInv, HelloFailed
  <1>17. ASSUME OnReqCloseRemove PROVE ShownInv'
    BY <1>17 DEF ShownInv, ShownAt, Usable, TypeOK, ControlInv, OnReqCloseRemove, At, Remove
  <1>18. ASSUME RecvCloseRemove PROVE ShownInv'
    BY <1>18 DEF ShownInv, ShownAt, Usable, TypeOK, ControlInv, RecvCloseRemove, At, Then, Remove
  <1>19. ASSUME RecvCloseCancel PROVE ShownInv'
    BY <1>19 DEF ShownInv, ShownAt, Usable, TypeOK, ControlInv, RecvCloseCancel, At
  <1>20. ASSUME RecvVerdictEmit PROVE ShownInv'
    <2> SUFFICES ASSUME Usable', NEW g \in Files, file'[g] = "Alive" PROVE ShownAt(g)'
      BY DEF ShownInv
    <2>1. UNCHANGED <<xfer, file, job, held, pausing>> /\ Usable /\ pc.op \in Verdicts
      BY <1>20 DEF RecvVerdictEmit, Usable, At
    <2>2. pc.f \in Files
      BY <2>1, PcTyped DEF TypeOK
    <2>3. g # pc.f
      BY <2>1, <2>2 DEF StopInv, StopAt, Stopping, Verdicts
    <2>4. fev'[g] = fev[g] /\ pc.op # "closing"
      BY <1>20, <2>1, <2>3 DEF RecvVerdictEmit, TypeOK, Verdicts
    <2> QED
      BY <2>1, <2>4, ShownKept
  <1>21. ASSUME RecvVerdictStop PROVE ShownInv'
    <2> SUFFICES ASSUME Usable', NEW g \in Files, file'[g] = "Alive" PROVE ShownAt(g)'
      BY DEF ShownInv
    <2>1. UNCHANGED <<xfer, file, job, pausing>> /\ Usable /\ pc.op = "stop"
      BY <1>21 DEF RecvVerdictStop, Usable, At
    <2>2. pc.f \in Files
      BY <2>1, PcTyped DEF TypeOK
    <2>3. g # pc.f
      BY <2>1, <2>2 DEF StopInv, StopAt, Stopping, Verdicts
    <2>4. fev'[g] = fev[g] /\ (g \in held => g \in held')
      BY <1>21, <2>3 DEF RecvVerdictStop, StopTask, TypeOK
    <2> QED
      BY <2>1, <2>4, ShownKept
  <1>22. ASSUME StartEvents PROVE ShownInv'
    BY <1>22 DEF ShownInv, ShownAt, Usable, TypeOK, ControlInv, StartEvents, Stoppable, At, Then,
       start
  <1>23. ASSUME StartUpload PROVE ShownInv'
    BY <1>23 DEF ShownInv, ShownAt, Usable, TypeOK, ControlInv, StartUpload, At, start, throttled
  <1>24. ASSUME RunReturns PROVE ShownInv'
    <2> SUFFICES ASSUME Usable', NEW g \in Files, file'[g] = "Alive" PROVE ShownAt(g)'
      BY DEF ShownInv
    <2>1. UNCHANGED <<xfer, file, pc, fev, job>> /\ Usable /\ pc = Select
      BY <1>24 DEF RunReturns, Usable, ControlInv
    <2>2. job["upload"][g] = "none" /\ pausing' = pausing \cup held
      BY <1>24 DEF RunReturns, NoJobs, Kinds
    <2> QED
      BY <2>1, <2>2 DEF ShownInv, ShownAt, Select
  <1>25. ASSUME Disconnect PROVE ShownInv'
    BY <1>25 DEF ShownInv, ShownAt, Usable, TypeOK, ControlInv, Disconnect
  <1>26. ASSUME Drained PROVE ShownInv'
    BY <1>26 DEF ShownInv, ShownAt, Usable, TypeOK, ControlInv, Drained
  <1>27. ASSUME NEW k \in Kinds, NEW f \in Files, JobAborted(k, f) PROVE ShownInv'
    BY <1>27 DEF ShownInv, ShownAt, Usable, TypeOK, ControlInv, JobAborted, JobTo, IsAborted
  <1>28. ASSUME NEW k \in Kinds, NEW f \in Files, JobSent(k, f) PROVE ShownInv'
    BY <1>28 DEF ShownInv, ShownAt, Usable, TypeOK, ControlInv, JobSent, JobTo, JobAt
  <1>29. ASSUME NEW k \in Kinds, NEW f \in Files, JobFail(k, f) PROVE ShownInv'
    <2> SUFFICES ASSUME Usable', NEW g \in Files, file'[g] = "Alive" PROVE ShownAt(g)'
      BY DEF ShownInv
    <2>1. UNCHANGED <<xfer, pc, fev, held, pausing>> /\ Usable /\ job[k][f] = "work"
      BY <1>29 DEF JobFail, Usable, JobAt
    <2>2. file[g] = "Alive"
      BY <1>29 DEF JobFail, Terminate, TypeOK
    <2>3. PICK s : JobTo(k, f, s)
      BY <1>29 DEF JobFail
    <2>4. job'["upload"][g] # "none" => job["upload"][g] # "none"
      BY <2>1, <2>3, JobMoved DEF Kinds
    <2> QED
      BY <2>1, <2>2, <2>4, ShownKept
  <1>30. ASSUME NEW k \in Kinds, NEW f \in Files, JobFailCut(k, f) PROVE ShownInv'
    BY <1>30 DEF ShownInv, ShownAt, Usable, TypeOK, ControlInv, JobFailCut, JobTo, JobAt, IsAborted
  <1>31. ASSUME NEW k \in Kinds, NEW f \in Files, JobEmit(k, f) PROVE ShownInv'
    <2> SUFFICES ASSUME Usable', NEW g \in Files, file'[g] = "Alive" PROVE ShownAt(g)'
      BY DEF ShownInv
    <2>1. UNCHANGED <<xfer, file, pc, held, pausing>> /\ Usable /\ Speaks(k, f) /\ up
      BY <1>31 DEF JobEmit, Usable, JobAt, Speaks
    <2>2. file[f] = Says(k)
      BY <2>1 DEF VerdictInv, Agreed, Speakers, Usable
    <2>3. g # f
      BY <2>1, <2>2 DEF Says, Kinds
    <2>4. fev'[g] = fev[g] /\ job'["upload"][g] = job["upload"][g]
      BY <1>31, <2>3, JobMoved DEF JobEmit, TypeOK, Kinds
    <2> QED
      BY <2>1, <2>4, ShownKept
  <1>32. ASSUME NEW f \in Files, JobQueue(f) PROVE ShownInv'
    BY <1>32 DEF ShownInv, ShownAt, Usable, TypeOK, ControlInv, JobQueue, JobTo, JobAt
  <1>33. ASSUME NEW f \in Files, JobPermit(f) PROVE ShownInv'
    BY <1>33 DEF ShownInv, ShownAt, Usable, TypeOK, ControlInv, JobPermit, JobTo, JobAt, start
  <1>34. ASSUME NEW f \in Files, Pause(f) PROVE ShownInv'
    BY <1>34 DEF ShownInv, ShownAt, Usable, TypeOK, ControlInv, Pause, stop
  <1>35. ASSUME ApiSend PROVE ShownInv'
    <2>1. cli = "none" /\ UNCHANGED <<fev, job>>
      BY <1>35 DEF ApiSend, ControlInv
    <2>2. \A g \in Files : fev[g] = "Idle" /\ job["upload"][g] = "none"
      BY <2>1 DEF RestInv, Serving, Kinds
    <2> QED
      BY <2>1, <2>2 DEF ShownInv, ShownAt
  <1>36. ASSUME ApiCancel PROVE ShownInv'
    BY <1>36 DEF ShownInv, ShownAt, Usable, TypeOK, ControlInv, ApiCancel, Remove, Calls, Push
  <1>37. ASSUME ApiPurge PROVE ShownInv'
    BY <1>37 DEF ShownInv, ShownAt, Usable, TypeOK, ControlInv, ApiPurge, Calls
  <1>38. ASSUME NEW f \in Files, ApiReject(f) PROVE ShownInv'
    BY <1>38 DEF ShownInv, ShownAt, Usable, TypeOK, ControlInv, ApiReject, Terminate, Calls, Push
  <1>39. ASSUME ApiRejectEmit PROVE ShownInv'
    <2> SUFFICES ASSUME Usable', NEW g \in Files, file'[g] = "Alive" PROVE ShownAt(g)'
      BY DEF ShownInv
    <2>1. UNCHANGED <<xfer, file, pc, held, pausing, job>> /\ Usable /\ up /\ api.op = "reject"
      BY <1>39 DEF ApiRejectEmit, Usable
    <2>2. api.f \in Files /\ Speaks("api", api.f)
      BY <2>1, ApiTyped DEF Speaks, TypeOK
    <2>3. file[api.f] = "Rejected"
      BY <2>1, <2>2 DEF VerdictInv, Agreed, Speakers, Says, Usable
    <2>4. fev'[g] = fev[g]
      BY <1>39, <2>1, <2>3 DEF ApiRejectEmit, TypeOK
    <2> QED
      BY <2>1, <2>4, ShownKept
  <1>40. ASSUME ApiCancelEmit PROVE ShownInv'
    BY <1>40 DEF ShownInv, ShownAt, Usable, TypeOK, ControlInv, ApiCancelEmit, stop
  <1>41. ASSUME EventTask PROVE ShownInv'
    BY <1>41 DEF ShownInv, ShownAt, Usable, TypeOK, ControlInv, EventTask
  <1>42. ASSUME Crash PROVE ShownInv'
    BY <1>42 DEF ShownInv, ShownAt, Usable, TypeOK, ControlInv, Crash, Down
  <1>43. ASSUME CrashInEventTask PROVE ShownInv'
    BY <1>43 DEF ShownInv, ShownAt, Usable, TypeOK, ControlInv, CrashInEventTask, Down
  <1>44. ASSUME Restart PROVE ShownInv'
    <2>1. cli = "none" /\ UNCHANGED <<fev, job>>
      BY <1>44 DEF Restart, ControlInv
    <2>2. \A g \in Files : fev[g] = "Idle" /\ job["upload"][g] = "none"
      BY <2>1 DEF RestInv, Serving, Kinds
    <2> QED
      BY <2>1, <2>2 DEF ShownInv, ShownAt
  <1>45. CASE UNCHANGED vars
    BY <1>45 DEF vars, ShownInv, ShownAt, Usable, TypeOK, ControlInv
  <1> QED
    BY <1>1, <1>2, <1>3, <1>4, <1>5, <1>6, <1>7, <1>8, <1>9, <1>10, <1>11, <1>12, <1>13, <1>14,
       <1>15, <1>16, <1>17, <1>18, <1>19, <1>20, <1>21, <1>22, <1>23, <1>24, <1>25, <1>26,
       <1>27, <1>28, <1>29, <1>30, <1>31, <1>32, <1>33, <1>34, <1>35, <1>36, <1>37, <1>38,
       <1>39, <1>40, <1>41, <1>42, <1>43, <1>44, <1>45
       DEF Next, Dial, Request, Message, Handler, Job, Api, ApiRest

\* The parts together.
ServedInv == NoCancel /\ RestInv /\ StopInv /\ ConveyInv /\ ShownInv

LEMMA ServedInit == NoCancel /\ Init => ServedInv
  <1> SUFFICES ASSUME NoCancel, Init PROVE ServedInv
    OBVIOUS
  <1>1. ~Usable /\ pc = Select
    BY DEF Init, Usable
  <1>2. RestInv
    BY DEF Init, RestInv, NoJobs, Select
  <1>3. StopInv
    BY <1>1 DEF StopInv, Stopping, Select, Verdicts
  <1>4. ConveyInv /\ ShownInv
    BY <1>1 DEF ConveyInv, ShownInv
  <1> QED
    BY <1>2, <1>3, <1>4 DEF ServedInv

\* ServedInv is inductive relative to Inv, over any number of connections, crashes and
\* messages, as long as the receiver does not cancel single files (on_cancel drops the
\* task and leaves the file alive in the manager).
THEOREM ConnectionsAreServed == NoCancel /\ Spec => []ServedInv
  <1>1. NoCancel /\ Init => ServedInv
    BY ServedInit
  <1>2. Inv /\ ServedInv /\ [Next]_vars => ServedInv'
    BY RestStep, StopStep, ConveyStep, ShownStep DEF Inv, ServedInv, NoCancel
  <1> QED
    BY <1>1, <1>2, Inductive, PTL DEF Spec

\* VerdictConveyed: with nothing left in its queue, the loop has exchanged every
\* rejection and every failure with the receiver, the ones from before this connection
\* included (issue_pending_requests).
THEOREM VerdictIsConveyed == NoCancel /\ Spec => []VerdictConveyed
  <1>1. ServedInv => VerdictConveyed
    <2> SUFFICES ASSUME ServedInv, NEW f \in Files, Selecting, reqs = <<>>, xfer = "Active",
                        file[f] \in {"Rejected", "Failed"},
                        \A k \in Kinds : job[k][f] # "posted"
                 PROVE  f \in known
      BY DEF VerdictConveyed
    <2>1. Usable /\ f \in PendingFiles /\ cli = "run"
      BY DEF Usable, PendingFiles, Selecting
    <2>2. ~Asked(f)
      BY EmptyRange DEF Asked
    <2> QED
      BY <2>1, <2>2 DEF ServedInv, ConveyInv, ConveyedAt
  <1> QED
    BY <1>1, ConnectionsAreServed, PTL

\* PausedWhenOffline: between two connections no unfinished file is shown as being
\* uploaded or throttled, unless its pause is under way (the detached task of Drop).
THEOREM OfflineIsPaused == NoCancel /\ Spec => []PausedWhenOffline
  <1>1. Inv /\ ServedInv => PausedWhenOffline
    <2> SUFFICES ASSUME Inv, ServedInv, NEW f \in Files, cli = "dial", Usable,
                        file[f] = "Alive", f \notin pausing
                 PROVE  fev[f] = "Idle"
      BY DEF PausedWhenOffline
    <2>1. held = {} /\ pc = Select
      BY DEF ServedInv, RestInv, Serving, Inv, ControlInv
    <2> QED
      BY <2>1 DEF ServedInv, ShownInv, ShownAt, Select
  <1> QED
    BY <1>1, Inductive, ConnectionsAreServed, PTL
=============================================================================
