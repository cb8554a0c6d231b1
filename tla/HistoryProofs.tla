--------------------------- MODULE HistoryProofs ---------------------------
(***************************************************************************)
(* What is stored and told of a transfer: the theorems about module        *)
(* History.                                                                *)
(***************************************************************************)
EXTENDS History, TLAPS

-----------------------------------------------------------------------------
(* The queue and the tables grow at one end.                               *)

LEMMA SeqDomain ==
  ASSUME NEW T, NEW s \in Seq(T)
  PROVE  Len(s) \in Nat /\ DOMAIN s = 1 .. Len(s) /\ \A i \in DOMAIN s : s[i] \in T /\ i \in Nat
  OBVIOUS

LEMMA AppendElements ==
  ASSUME NEW T, NEW s \in Seq(T), NEW x \in T
  PROVE  /\ Append(s, x) \in Seq(T)
         /\ Len(s) \in Nat /\ DOMAIN s = 1 .. Len(s)
         /\ DOMAIN Append(s, x) = 1 .. Len(s) + 1
         /\ \A i \in 1 .. Len(s) : Append(s, x)[i] = s[i]
         /\ Append(s, x)[Len(s) + 1] = x
  OBVIOUS

LEMMA TailElements ==
  ASSUME NEW T, NEW s \in Seq(T), s # <<>>
  PROVE  /\ Len(s) \in Nat /\ Len(s) >= 1 /\ DOMAIN s = 1 .. Len(s)
         /\ Head(s) = s[1] /\ Head(s) \in T
         /\ Tail(s) \in Seq(T)
         /\ DOMAIN Tail(s) = 1 .. Len(s) - 1
         /\ \A i \in 1 .. Len(s) - 1 : Tail(s)[i] = s[i + 1]
  OBVIOUS

-----------------------------------------------------------------------------
(* The inductive invariant.                                                *)

TypeInv ==
  /\ dir \in {"Incoming", "Outgoing"}
  /\ gate \in [Files -> FileState]
  /\ xgate \in TransferState
  /\ job \in [Files -> JobState]
  /\ moved \in [Files -> 0 .. Size]
  /\ last \in [Files -> 0 .. Size]
  /\ reported \in [Files -> 0 .. Size]
  /\ whole \in SUBSET Files
  /\ posts \in SUBSET (Files \X Final)
  /\ held \in BOOLEAN
  /\ settled \in SUBSET Files
  /\ canceled \in BOOLEAN
  /\ synced \in BOOLEAN
  /\ queue \in Seq(Event)
  /\ task \in Event \cup {Idle}
  /\ DOMAIN progress \in SUBSET Files
  /\ \A f \in DOMAIN progress : progress[f] \in 0 .. Size
  /\ rows \in [Files -> Seq(Row)]
  /\ over \in BOOLEAN
  /\ xrow \in {"live", "deleted", "gone"}
  /\ hidden \in SUBSET Files
  /\ clock \in Nat
  /\ up \in BOOLEAN
  /\ crashes \in Nat
  /\ emitted \in Nat
  /\ told \in [Files -> Seq(Stored)]

\* The events of a file that set the bytes a later state reports, and those states.
Moving  == {"Started", "Progress"}
Leaving == {"Failed", "Rejected", "Paused"}

\* Only the event of the transfer has no file, and a start says what it reports.
QueueInv ==
  /\ \A i \in DOMAIN queue : queue[i].kind = "Canceled" <=> queue[i].file = NoFile
  /\ task # Idle /\ task.kind \in Stored => task.file \in Files
  /\ \A i \in DOMAIN queue : queue[i].kind = "Started" => queue[i].bytes = queue[i].real

\* Completed is said only of a file that was across, from the job or the message of the
\* peer to the gate and along the queue.
WholeInv ==
  /\ \A f \in Files : moved[f] = Size => f \in whole
  /\ \A f \in Files : <<f, "Completed">> \in posts => f \in whole
  /\ \A i \in DOMAIN queue : queue[i].kind = "Completed" => queue[i].file \in whole

\* Places of the queue where the bytes of f are reported, and where f is left.
Reports(i, f) == queue[i].file = f /\ queue[i].kind \in Moving
Leaves(i, f)  == queue[i].file = f /\ queue[i].kind \in Leaving

\* The last report of f on the queue; the report before f is left; f is left before
\* any report; there is no report.
IsLast(i, f) ==
  /\ i \in DOMAIN queue /\ Reports(i, f)
  /\ \A k \in DOMAIN queue : i < k => ~Reports(k, f)
IsBefore(i, j, f) ==
  /\ i \in DOMAIN queue /\ j \in DOMAIN queue /\ i < j
  /\ Reports(i, f) /\ Leaves(j, f)
  /\ \A k \in DOMAIN queue : i < k /\ k < j => ~Reports(k, f)
IsFirst(j, f) ==
  /\ j \in DOMAIN queue /\ Leaves(j, f)
  /\ \A k \in DOMAIN queue : k < j => ~Reports(k, f)
IsQuiet(f) == \A k \in DOMAIN queue : ~Reports(k, f)

\* A state that leaves f carries the bytes of the report before it: along the queue, at
\* its two ends and past it, where StorageDispatch has them in file_progress.
BytesAt(f) ==
  /\ \A i \in DOMAIN queue : IsLast(i, f) => queue[i].bytes = reported[f]
  /\ \A i, j \in DOMAIN queue : IsBefore(i, j, f) => queue[i].bytes = queue[j].real
  /\ \A j \in DOMAIN queue : IsFirst(j, f) /\ f \in DOMAIN progress => progress[f] = queue[j].real
  /\ IsQuiet(f) /\ f \in DOMAIN progress => progress[f] = reported[f]

BytesInv == \A f \in Files : BytesAt(f)

\* The end: the gate of the transfer knows of the cancelation, and nothing is purged
\* or collected before it.
OverInv ==
  /\ xgate = "Terminated" <=> canceled
  /\ over => canceled
  /\ \A i \in DOMAIN queue : queue[i].kind = "Canceled" => canceled
  /\ xrow # "live" => canceled
  /\ xrow = "gone" => synced

\* No row of the database, on its own, says other bytes than were last reported when
\* its event was emitted, or none, and Completed is stored only of a file that was across.
RowTrue(f, r) == IF r.kind = "Completed" THEN f \in whole ELSE r.bytes \in {0, r.real}

RowsNeverInvented == \A f \in Files : \A i \in DOMAIN rows[f] : RowTrue(f, rows[f][i])

Inv == TypeInv /\ QueueInv /\ WholeInv /\ BytesInv /\ OverInv /\ RowsNeverInvented

-----------------------------------------------------------------------------
(* Types.                                                                  *)

LEMMA TypeInit == Init => TypeInv
  <1> SUFFICES ASSUME Init PROVE TypeInv
    OBVIOUS
  <1>1. /\ moved \in [Files -> 0 .. Size] /\ last \in [Files -> 0 .. Size]
        /\ reported \in [Files -> 0 .. Size]
    BY SizesAssumption DEF Init
  <1>2. DOMAIN progress = {}
    BY DEF Init
  <1>3. gate \in [Files -> FileState] /\ xgate \in TransferState /\ job \in [Files -> JobState]
    BY DEF Init, FileState, TransferState, JobState
  <1>4. queue \in Seq(Event) /\ rows \in [Files -> Seq(Row)] /\ told \in [Files -> Seq(Stored)]
    BY DEF Init
  <1>5. /\ canceled \in BOOLEAN /\ synced \in BOOLEAN /\ over \in BOOLEAN /\ up \in BOOLEAN
        /\ held \in BOOLEAN
    BY DEF Init
  <1>6. dir \in {"Incoming", "Outgoing"} /\ posts \in SUBSET (Files \X Final)
    BY DirsAssumption DEF Init
  <1> QED
    BY <1>1, <1>2, <1>3, <1>4, <1>5, <1>6 DEF Init, TypeInv

LEMMA GateTyped ==
  \A s \in FileState : {start(s), stop(s), terminate(s), preflight(s), throttled(s)} \subseteq FileState
  BY DEF FileState, start, stop, terminate, preflight, throttled

\* The events of the gates.
LEMMA EvTyped ==
  ASSUME reported' \in [Files -> 0 .. Size], NEW k \in Stored \cup {"Progress", "Canceled"},
         NEW f \in Files \cup {NoFile}, NEW b \in 0 .. Size
  PROVE  /\ Ev(k, f, b) \in Event
         /\ Ev(k, f, b).kind = k /\ Ev(k, f, b).file = f /\ Ev(k, f, b).bytes = b
         /\ f \in Files => Ev(k, f, b).real = reported'[f]
  <1>1. 0 \in 0 .. Size
    BY SizesAssumption
  <1>2. (IF f = NoFile THEN 0 ELSE reported'[f]) \in 0 .. Size
    BY <1>1
  <1>3. Ev(k, f, b) \in Event
    BY <1>2 DEF Ev, Event
  <1>4. /\ Ev(k, f, b).kind = k /\ Ev(k, f, b).file = f /\ Ev(k, f, b).bytes = b
        /\ f \in Files => Ev(k, f, b).real = reported'[f]
    BY NoFileAssumption DEF Ev
  <1> QED
    BY <1>3, <1>4

\* A gate is called and its event passes or not: what all such steps have in common.
EmitStep(p, e) ==
  /\ Emits(p, e)
  /\ p => /\ e.kind = "Canceled" <=> e.file = NoFile
          /\ e.kind = "Started" => e.bytes = e.real
          /\ e.kind = "Completed" => e.file \in whole
          /\ e.kind = "Canceled" => canceled'
          /\ e.file \in Files => e.real = reported'[e.file]
  /\ \A f \in Files : IF p /\ e.file = f /\ e.kind \in Moving THEN reported'[f] = e.bytes
                      ELSE reported'[f] = reported[f]
  /\ \A f \in Files : moved'[f] <= moved[f]
  /\ UNCHANGED <<whole, task, progress, store>>
  /\ posts' \subseteq posts
  /\ xgate' = IF canceled' THEN "Terminated" ELSE xgate
  /\ (canceled => canceled') /\ (synced => synced')

LEMMA EmitsTyped ==
  ASSUME TypeInv, NEW e \in Event, NEW p \in BOOLEAN, Emits(p, e)
  PROVE  queue' \in Seq(Event) /\ emitted' \in Nat
  BY DEF TypeInv, Emits, Emit

LEMMA StartEmits ==
  ASSUME TypeInv, OverInv, NEW f \in Files, NEW b \in 0 .. Size, Start(f, b)
  PROVE  \E p \in BOOLEAN, e \in Event : EmitStep(p, e)
  <1> DEFINE p == start_emits(gate[f])
             e == Ev("Started", f, b)
  <1>1. reported' \in [Files -> 0 .. Size]
    BY DEF Start, TypeInv
  <1>2. p \in BOOLEAN
    BY DEF start_emits
  <1>3. e \in Event /\ e.kind = "Started" /\ e.file = f /\ e.bytes = b /\ e.real = reported'[f]
    BY <1>1, EvTyped, SizesAssumption DEF Stored, Final
  <1>4. Emits(p, e)
    BY DEF Start
  <1>5. \A g \in Files : moved'[g] <= moved[g]
    BY DEF Start, TypeInv
  <1>6. \A g \in Files : IF p /\ g = f THEN reported'[g] = b ELSE reported'[g] = reported[g]
    BY DEF Start, TypeInv
  <1>7. UNCHANGED <<whole, task, progress, store>> /\ posts' \subseteq posts
    BY DEF Start
  <1>8. xgate' = (IF canceled' THEN "Terminated" ELSE xgate) /\ (canceled => canceled') /\ (synced => synced')
    BY DEF Start, gates, disk, OverInv, finish
  <1> HIDE DEF p, e
  <1>10. EmitStep(p, e)
    BY <1>3, <1>4, <1>5, <1>6, <1>7, <1>8, NoFileAssumption DEF EmitStep, Moving
  <1> QED
    BY <1>2, <1>3, <1>10

LEMMA ProgressEmits ==
  ASSUME TypeInv, OverInv, NEW f \in Files, NEW b \in 0 .. Size, Progress(f, b)
  PROVE  \E p \in BOOLEAN, e \in Event : EmitStep(p, e)
  <1> DEFINE p == in_flight_emits(gate[f])
             e == Ev("Progress", f, b)
  <1>1. reported' \in [Files -> 0 .. Size]
    BY DEF Progress, TypeInv
  <1>2. p \in BOOLEAN
    BY DEF in_flight_emits
  <1>3. e \in Event /\ e.kind = "Progress" /\ e.file = f /\ e.bytes = b /\ e.real = reported'[f]
    BY <1>1, EvTyped, SizesAssumption DEF Stored, Final
  <1>4. Emits(p, e)
    BY DEF Progress
  <1>5. \A g \in Files : moved'[g] <= moved[g]
    BY DEF Progress, TypeInv
  <1>6. \A g \in Files : IF p /\ g = f THEN reported'[g] = b ELSE reported'[g] = reported[g]
    BY DEF Progress, TypeInv
  <1>7. UNCHANGED <<whole, task, progress, store>> /\ posts' \subseteq posts
    BY DEF Progress
  <1>8. xgate' = (IF canceled' THEN "Terminated" ELSE xgate) /\ (canceled => canceled') /\ (synced => synced')
    BY DEF Progress, gates, disk, OverInv, finish
  <1> HIDE DEF p, e
  <1>10. EmitStep(p, e)
    BY <1>3, <1>4, <1>5, <1>6, <1>7, <1>8, NoFileAssumption DEF EmitStep, Moving
  <1> QED
    BY <1>2, <1>3, <1>10

LEMMA PauseEmits ==
  ASSUME TypeInv, OverInv, NEW f \in Files, Pause(f)
  PROVE  \E p \in BOOLEAN, e \in Event : EmitStep(p, e)
  <1> DEFINE p == stop_emits(gate[f])
             e == Ev("Paused", f, 0)
  <1>1. reported' \in [Files -> 0 .. Size]
    BY DEF Pause, TypeInv, bytes
  <1>2. p \in BOOLEAN
    BY DEF stop_emits
  <1>3. e \in Event /\ e.kind = "Paused" /\ e.file = f /\ e.bytes = 0 /\ e.real = reported'[f]
    BY <1>1, EvTyped, SizesAssumption DEF Stored, Final
  <1>4. Emits(p, e)
    BY DEF Pause
  <1>5. \A g \in Files : moved'[g] <= moved[g]
    BY DEF Pause, TypeInv, bytes
  <1>6. reported' = reported
    BY DEF Pause, bytes
  <1>7. UNCHANGED <<whole, task, progress, store>> /\ posts' \subseteq posts
    BY DEF Pause, bytes
  <1>8. xgate' = (IF canceled' THEN "Terminated" ELSE xgate) /\ (canceled => canceled') /\ (synced => synced')
    BY DEF Pause, gates, disk, OverInv, finish
  <1> HIDE DEF p, e
  <1>10. EmitStep(p, e)
    BY <1>3, <1>4, <1>5, <1>6, <1>7, <1>8, NoFileAssumption DEF EmitStep, Moving
  <1> QED
    BY <1>2, <1>3, <1>10

LEMMA VerdictEmits ==
  ASSUME TypeInv, WholeInv, OverInv, NEW f \in Files, NEW v \in Final, Verdict(f, v)
  PROVE  \E p \in BOOLEAN, e \in Event : EmitStep(p, e)
  <1> DEFINE p == terminate_emits(gate[f])
             e == Ev(v, f, 0)
  <1>1. reported' \in [Files -> 0 .. Size]
    BY DEF Verdict, TypeInv, bytes
  <1>2. p \in BOOLEAN
    BY DEF terminate_emits
  <1>3. e \in Event /\ e.kind = v /\ e.file = f /\ e.bytes = 0 /\ e.real = reported'[f]
    BY <1>1, EvTyped, SizesAssumption DEF Stored, Final
  <1>4. Emits(p, e)
    BY DEF Verdict
  <1>5. \A g \in Files : moved'[g] <= moved[g]
    BY DEF Verdict, TypeInv, bytes
  <1>6. reported' = reported
    BY DEF Verdict, bytes
  <1>7. UNCHANGED <<whole, task, progress, store>> /\ posts' \subseteq posts
    BY DEF Verdict, bytes
  <1>8. xgate' = (IF canceled' THEN "Terminated" ELSE xgate) /\ (canceled => canceled') /\ (synced => synced')
    BY DEF Verdict, gates, disk, OverInv, finish
  <1>9. v = "Completed" => f \in whole
    BY DEF Verdict, WholeInv
  <1> HIDE DEF p, e
  <1>10. EmitStep(p, e)
    BY <1>3, <1>4, <1>5, <1>6, <1>7, <1>8, <1>9, NoFileAssumption DEF EmitStep, Moving, Final
  <1> QED
    BY <1>2, <1>3, <1>10

LEMMA CancelEmits ==
  ASSUME TypeInv, OverInv, Cancel
  PROVE  \E p \in BOOLEAN, e \in Event : EmitStep(p, e)
  <1> DEFINE p == finish_emits(xgate)
             e == Ev("Canceled", NoFile, 0)
  <1>1. reported' \in [Files -> 0 .. Size]
    BY DEF Cancel, TypeInv, bytes
  <1>2. p \in BOOLEAN
    BY DEF finish_emits
  <1>3. e \in Event /\ e.kind = "Canceled" /\ e.file = NoFile /\ e.bytes = 0
    BY <1>1, EvTyped, SizesAssumption DEF Stored, Final
  <1>4. Emits(p, e)
    BY DEF Cancel
  <1>5. \A g \in Files : moved'[g] <= moved[g]
    BY DEF Cancel, TypeInv, bytes
  <1>6. reported' = reported
    BY DEF Cancel, bytes
  <1>7. UNCHANGED <<whole, task, progress, store>> /\ posts' \subseteq posts
    BY DEF Cancel, bytes
  <1>8. xgate' = (IF canceled' THEN "Terminated" ELSE xgate) /\ (canceled => canceled') /\ (synced => synced')
    BY DEF Cancel, gates, disk, OverInv, finish
  <1>9. canceled'
    BY DEF Cancel
  <1> HIDE DEF p, e
  <1>10. EmitStep(p, e)
    BY <1>3, <1>4, <1>5, <1>6, <1>7, <1>8, <1>9, NoFileAssumption DEF EmitStep, Moving
  <1> QED
    BY <1>2, <1>3, <1>10

\* A row is appended, or nothing is.
LEMMA CommitRows ==
  ASSUME TypeInv, NEW f \in Files, NEW k \in Stored \cup {"Pending"}, NEW b \in 0 .. Size,
         NEW r \in 0 .. Size, Commit(f, k, b, r)
  PROVE  /\ clock' \in Nat
         /\ rows' \in [Files -> Seq(Row)]
         /\ \A g \in Files : \A i \in DOMAIN rows'[g] :
              \/ i \in DOMAIN rows[g] /\ rows'[g][i] = rows[g][i]
              \/ /\ rows'[g][i].kind = k /\ rows'[g][i].bytes = b /\ rows'[g][i].real = r
                 /\ g = f
  <1>1. PICK t \in {clock, clock + 1} :
          /\ clock' = t
          /\ rows' = [rows EXCEPT ![f] = IF xrow = "gone" THEN @
                         ELSE Append(@, [kind |-> k, at |-> t, bytes |-> b, real |-> r])]
    BY DEF Commit
  <1>2. t \in Nat /\ rows[f] \in Seq(Row)
    BY DEF TypeInv
  <1> DEFINE x == [kind |-> k, at |-> t, bytes |-> b, real |-> r]
  <1>3. x \in Row /\ x.kind = k /\ x.bytes = b /\ x.real = r
    BY <1>2 DEF Row
  <1> HIDE DEF x
  <1>4. CASE xrow = "gone"
    <2>1. rows' = rows
      BY <1>1, <1>4 DEF TypeInv
    <2> QED
      BY <1>1, <1>2, <2>1 DEF TypeInv
  <1>5. CASE xrow # "gone"
    <2>1. rows' = [rows EXCEPT ![f] = Append(rows[f], x)]
      BY <1>1, <1>5 DEF x
    <2>2. Append(rows[f], x) \in Seq(Row)
      BY <1>2, <1>3
    <2>3. rows' \in [Files -> Seq(Row)]
      BY <2>1, <2>2 DEF TypeInv
    <2>4. \A g \in Files : g # f => rows'[g] = rows[g]
      BY <2>1 DEF TypeInv
    <2>5. rows'[f] = Append(rows[f], x)
      BY <2>1 DEF TypeInv
    <2>6. \A i \in DOMAIN rows'[f] : (i \in DOMAIN rows[f] /\ rows'[f][i] = rows[f][i]) \/ rows'[f][i] = x
      <3>1. /\ Len(rows[f]) \in Nat /\ DOMAIN rows[f] = 1 .. Len(rows[f])
            /\ DOMAIN Append(rows[f], x) = 1 .. Len(rows[f]) + 1
            /\ \A i \in 1 .. Len(rows[f]) : Append(rows[f], x)[i] = rows[f][i]
            /\ Append(rows[f], x)[Len(rows[f]) + 1] = x
        BY <1>2, <1>3, AppendElements
      <3>2. \A i \in 1 .. Len(rows[f]) + 1 : i \in 1 .. Len(rows[f]) \/ i = Len(rows[f]) + 1
        BY <3>1
      <3> QED
        BY <2>5, <3>1, <3>2
    <2> QED
      BY <1>1, <1>2, <1>3, <2>3, <2>4, <2>6
  <1> QED
    BY <1>4, <1>5

LEMMA ProgressTyped ==
  ASSUME TypeInv, NEW f \in Files, NEW b \in 0 .. Size
  PROVE  /\ DOMAIN store_progress(progress, f, b) \in SUBSET Files
         /\ \A g \in DOMAIN store_progress(progress, f, b) :
              store_progress(progress, f, b)[g] \in 0 .. Size
         /\ DOMAIN forget(progress, f) \in SUBSET Files
         /\ \A g \in DOMAIN forget(progress, f) : forget(progress, f)[g] \in 0 .. Size
         /\ DOMAIN NoProgress = {}
         /\ progress_of(progress, f) \in 0 .. Size
  BY SizesAssumption DEF TypeInv, store_progress, forget, NoProgress, progress_of

\* What the event task finds at the head of the queue.
LEMMA HeadOf ==
  ASSUME TypeInv, QueueInv, queue # <<>>
  PROVE  /\ Head(queue) \in Event /\ Tail(queue) \in Seq(Event)
         /\ 1 \in DOMAIN queue /\ Head(queue) = queue[1]
         /\ Head(queue).kind # "Canceled" => Head(queue).file \in Files
  <1>1. /\ Head(queue) \in Event /\ Tail(queue) \in Seq(Event)
        /\ 1 \in DOMAIN queue /\ Head(queue) = queue[1]
    BY TailElements DEF TypeInv
  <1>2. Head(queue).kind = "Canceled" <=> Head(queue).file = NoFile
    BY <1>1 DEF QueueInv
  <1>3. Head(queue).file \in Files \cup {NoFile}
    BY <1>1 DEF Event
  <1> QED
    BY <1>1, <1>2, <1>3

LEMMA TypeStep == TypeInv /\ QueueInv /\ WholeInv /\ OverInv /\ [Next]_vars => TypeInv'
  <1> SUFFICES ASSUME TypeInv, QueueInv, WholeInv, OverInv, [Next]_vars PROVE TypeInv'
    OBVIOUS
  <1> USE DEF gates, bytes, disk, store
  <1>1. ASSUME NEW f \in Files, ApiDownload(f) PROVE TypeInv'
    <2>1. Commit(f, "Pending", 0, 0) /\ 0 \in 0 .. Size
      BY <1>1, SizesAssumption DEF ApiDownload
    <2>2. clock' \in Nat /\ rows' \in [Files -> Seq(Row)]
      BY <2>1, CommitRows
    <2>3. emitted' \in Nat
      BY <1>1 DEF ApiDownload, TypeInv
    <2> QED
      BY <1>1, <2>2, <2>3 DEF ApiDownload, TypeInv
  <1>2. ASSUME NEW f \in Files, Preflight(f) PROVE TypeInv'
    <2>1. job' \in [Files -> JobState] /\ last' \in [Files -> 0 .. Size]
      BY <1>2, SizesAssumption DEF Preflight, TypeInv, JobState
    <2> QED
      BY <1>2, <2>1, GateTyped DEF Preflight, TypeInv
  <1>3. ASSUME NEW f \in Files, Throttle(f) PROVE TypeInv'
    BY <1>3, GateTyped DEF Throttle, TypeInv
  <1>4. ASSUME NEW f \in Files, StopSilent(f) PROVE TypeInv'
    BY <1>4, GateTyped DEF StopSilent, TypeInv
  <1>5. ASSUME NEW f \in Files, NEW b \in 0 .. Size, Start(f, b) PROVE TypeInv'
    <2>1. queue' \in Seq(Event) /\ emitted' \in Nat
      BY <1>5, StartEmits, EmitsTyped DEF EmitStep
    <2>2. /\ gate' \in [Files -> FileState] /\ job' \in [Files -> JobState]
          /\ moved' \in [Files -> 0 .. Size] /\ last' \in [Files -> 0 .. Size]
          /\ reported' \in [Files -> 0 .. Size]
      BY <1>5, GateTyped DEF Start, TypeInv, JobState
    <2> QED
      BY <1>5, <2>1, <2>2 DEF Start, TypeInv
  <1>6. ASSUME NEW f \in Files, NEW b \in 0 .. Size, Progress(f, b) PROVE TypeInv'
    <2>1. queue' \in Seq(Event) /\ emitted' \in Nat
      BY <1>6, ProgressEmits, EmitsTyped DEF EmitStep
    <2>2. /\ gate' \in [Files -> FileState] /\ job' \in [Files -> JobState]
          /\ last' \in [Files -> 0 .. Size] /\ reported' \in [Files -> 0 .. Size]
      BY <1>6, GateTyped DEF Progress, TypeInv, JobState
    <2> QED
      BY <1>6, <2>1, <2>2 DEF Progress, TypeInv
  <1>7. ASSUME NEW f \in Files, Pause(f) PROVE TypeInv'
    <2>1. queue' \in Seq(Event) /\ emitted' \in Nat
      BY <1>7, PauseEmits, EmitsTyped DEF EmitStep
    <2>2. gate' \in [Files -> FileState] /\ posts' \in SUBSET (Files \X Final)
      BY <1>7, GateTyped DEF Pause, TypeInv
    <2> QED
      BY <1>7, <2>1, <2>2 DEF Pause, TypeInv
  <1>8. ASSUME NEW f \in Files, NEW v \in Final, Verdict(f, v) PROVE TypeInv'
    <2>1. queue' \in Seq(Event) /\ emitted' \in Nat
      BY <1>8, VerdictEmits, EmitsTyped DEF EmitStep
    <2>2. gate' \in [Files -> FileState] /\ posts' \in SUBSET (Files \X Final)
      BY <1>8, GateTyped DEF Verdict, TypeInv
    <2> QED
      BY <1>8, <2>1, <2>2 DEF Verdict, TypeInv
  <1>9. CASE Cancel
    <2>1. queue' \in Seq(Event) /\ emitted' \in Nat
      BY <1>9, CancelEmits, EmitsTyped DEF EmitStep
    <2>2. gate' \in [Files -> FileState] /\ xgate' \in TransferState /\ canceled' \in BOOLEAN
      BY <1>9, GateTyped DEF Cancel, TypeInv, finish, TransferState
    <2> QED
      BY <1>9, <2>1, <2>2 DEF Cancel, TypeInv
  <1>10. ASSUME NEW f \in Files, NEW n \in 1 .. Size, Chunk(f, n) PROVE TypeInv'
    <2>1. moved[f] + n \in 0 .. Size
      BY <1>10, SizesAssumption DEF Chunk, TypeInv
    <2>2. moved' \in [Files -> 0 .. Size] /\ whole' \in SUBSET Files
      BY <1>10, <2>1 DEF Chunk, TypeInv
    <2> QED
      BY <1>10, <2>2 DEF Chunk, TypeInv
  <1>11. ASSUME NEW f \in Files, NEW v \in Final, JobEnds(f, v) PROVE TypeInv'
    <2>1. job' \in [Files -> JobState] /\ last' \in [Files -> 0 .. Size]
      BY <1>11, SizesAssumption DEF JobEnds, TypeInv, JobState
    <2>2. posts' \in SUBSET (Files \X Final) /\ settled' \in SUBSET Files
      BY <1>11 DEF JobEnds, TypeInv
    <2> QED
      BY <1>11, <2>1, <2>2 DEF JobEnds, TypeInv
  <1>12. ASSUME NEW f \in Files, NEW v \in Final, Post(f, v) PROVE TypeInv'
    <2>1. posts' \in SUBSET (Files \X Final) /\ settled' \in SUBSET Files
      BY <1>12 DEF Post, TypeInv
    <2> QED
      BY <1>12, <2>1 DEF Post, TypeInv
  <1>13. ASSUME NEW f \in Files, ApiRemoveFile(f) PROVE TypeInv'
    BY <1>13 DEF ApiRemoveFile, TypeInv
  <1>14. CASE SyncClear
    BY <1>14 DEF SyncClear, TypeInv
  <1>15. CASE HandleEvent
    <2> DEFINE e == Head(queue)
    <2>1. /\ e \in Event /\ Tail(queue) \in Seq(Event)
          /\ e.kind # "Canceled" => e.file \in Files
      BY <1>15, HeadOf DEF HandleEvent
    <2>2. handle_event(e) /\ task' = e /\ queue' = Tail(queue)
      BY <1>15 DEF HandleEvent
    <2> HIDE DEF e
    <2>3. e.bytes \in 0 .. Size /\ e.real \in 0 .. Size /\ Size \in 0 .. Size
      BY <2>1, SizesAssumption DEF Event
    <2>4. clock' \in Nat /\ rows' \in [Files -> Seq(Row)]
      <3>1. CASE UNCHANGED <<rows, clock>>
        BY <3>1 DEF TypeInv
      <3>2. CASE \E k \in Stored, b \in 0 .. Size : e.file \in Files /\ Commit(e.file, k, b, e.real)
        BY <2>3, <3>2, CommitRows
      <3>3. e.file \in Files => progress_of(progress, e.file) \in 0 .. Size
        BY <2>3, ProgressTyped
      <3> QED
        BY <2>1, <2>2, <2>3, <3>1, <3>2, <3>3 DEF handle_event, Stored, Final
    <2>5. DOMAIN progress' \in SUBSET Files /\ \A f \in DOMAIN progress' : progress'[f] \in 0 .. Size
      <3>1. CASE e.kind = "Canceled"
        BY <2>2, <3>1 DEF handle_event, NoProgress
      <3>2. CASE e.kind # "Canceled"
        <4>1. e.file \in Files
          BY <2>1, <3>2
        <4>2. \/ progress' = store_progress(progress, e.file, e.bytes)
              \/ progress' = progress
              \/ progress' = forget(progress, e.file)
          BY <2>2, <3>2 DEF handle_event
        <4> QED
          BY <2>3, <4>1, <4>2, ProgressTyped DEF TypeInv
      <3> QED
        BY <3>1, <3>2
    <2>6. over' \in BOOLEAN
      BY <2>2 DEF handle_event, TypeInv
    <2> QED
      BY <1>15, <2>1, <2>2, <2>4, <2>5, <2>6 DEF HandleEvent, TypeInv
  <1>16. CASE Dispatch
    <2>1. told' \in [Files -> Seq(Stored)]
      <3>1. CASE task.kind \notin Stored
        BY <1>16, <3>1 DEF Dispatch, TypeInv
      <3>2. CASE task.kind \in Stored
        <4>1. task.file \in Files /\ told[task.file] \in Seq(Stored)
          BY <1>16, <3>2 DEF Dispatch, QueueInv, TypeInv
        <4>2. Append(told[task.file], task.kind) \in Seq(Stored)
          BY <3>2, <4>1
        <4> QED
          BY <1>16, <3>2, <4>1, <4>2 DEF Dispatch, TypeInv
      <3> QED
        BY <3>1, <3>2
    <2> QED
      BY <1>16, <2>1 DEF Dispatch, TypeInv
  <1>17. CASE ApiPurge
    BY <1>17 DEF ApiPurge, TypeInv
  <1>18. CASE Crash
    <2>1. DOMAIN progress' = {} /\ queue' \in Seq(Event) /\ task' = Idle
      BY <1>18 DEF Crash, NoProgress
    <2>2. up' \in BOOLEAN
      BY <1>18 DEF Crash
    <2>3. crashes' \in Nat
      BY <1>18 DEF Crash, TypeInv
    <2>4. job' \in [Files -> JobState] /\ posts' \in SUBSET (Files \X Final)
      BY <1>18 DEF Crash, TypeInv, JobState
    <2> QED
      BY <1>18, <2>1, <2>2, <2>3, <2>4 DEF Crash, TypeInv
  <1>19. CASE Restart
    <2>5. held' \in BOOLEAN
      BY <1>19 DEF Restart, TypeInv
    <2>1. gate' \in [Files -> FileState] /\ xgate' \in TransferState
      BY <1>19 DEF Restart, FileState, TransferState, transfer_gate
    <2>2. rows' \in [Files -> Seq(Row)]
      BY <1>19 DEF Restart, TypeInv
    <2>3. over' \in BOOLEAN
      BY <1>19 DEF Restart, TypeInv
    <2>4. xrow' \in {"live", "deleted", "gone"} /\ hidden' \in SUBSET Files
      BY <1>19 DEF Restart, TypeInv
    <2> QED
      BY <1>19, <2>1, <2>2, <2>3, <2>4, <2>5 DEF Restart, TypeInv
  <1>20. CASE UNCHANGED vars
    BY <1>20 DEF vars, TypeInv
  <1> QED
    BY <1>1, <1>2, <1>3, <1>4, <1>5, <1>6, <1>7, <1>8, <1>9, <1>10,
       <1>11, <1>12, <1>13, <1>14, <1>15, <1>16, <1>17, <1>18, <1>19, <1>20
       DEF Next

-----------------------------------------------------------------------------
(* The bytes along the queue.                                              *)

\* The queue after an event was put on it.
LEMMA QueueGrows ==
  ASSUME TypeInv, NEW e \in Event, queue' = Append(queue, e)
  PROVE  /\ Len(queue) \in Nat /\ DOMAIN queue = 1 .. Len(queue)
         /\ DOMAIN queue' = 1 .. Len(queue) + 1
         /\ \A i \in 1 .. Len(queue) : queue'[i] = queue[i]
         /\ queue'[Len(queue) + 1] = e
  BY AppendElements DEF TypeInv

\* The queue after its head was taken.
LEMMA QueueShrinks ==
  ASSUME TypeInv, queue # <<>>, queue' = Tail(queue)
  PROVE  /\ Len(queue) \in Nat /\ Len(queue) >= 1 /\ DOMAIN queue = 1 .. Len(queue)
         /\ DOMAIN queue' = 1 .. Len(queue) - 1
         /\ \A i \in 1 .. Len(queue) - 1 : queue'[i] = queue[i + 1]
         /\ Head(queue) = queue[1]
  BY TailElements DEF TypeInv

\* A step that touches neither the queue nor the reports of f.
LEMMA BytesQuiet ==
  ASSUME BytesInv, NEW f \in Files, queue' = queue, progress' = progress,
         reported'[f] = reported[f]
  PROVE  BytesAt(f)'
  BY DEF BytesInv, BytesAt, IsBefore, IsFirst, IsLast, IsQuiet, Reports, Leaves

\* A report of f is put on the queue.
LEMMA BytesMoving ==
  ASSUME TypeInv, BytesInv, NEW f \in Files, NEW e \in Event, queue' = Append(queue, e),
         e.file = f, e.kind \in Moving, e.bytes = reported'[f], progress' = progress
  PROVE  BytesAt(f)'
  <1> DEFINE n == Len(queue)
  <1>1. /\ n \in Nat /\ DOMAIN queue = 1 .. n /\ DOMAIN queue' = 1 .. n + 1
        /\ \A i \in 1 .. n : queue'[i] = queue[i]
        /\ queue'[n + 1] = e
    BY QueueGrows
  <1>2. BytesAt(f)
    BY DEF BytesInv
  <1> HIDE DEF n
  <1>3. \A i \in 1 .. n + 1 : i = n + 1 => Reports(i, f)' /\ ~Leaves(i, f)'
    BY <1>1 DEF Reports, Leaves, Moving, Leaving
  <1>4. \A i \in 1 .. n + 1 : i \in 1 .. n \/ i = n + 1
    BY <1>1
  <1>5. \A i \in 1 .. n : (Reports(i, f)' <=> Reports(i, f)) /\ (Leaves(i, f)' <=> Leaves(i, f))
    BY <1>1 DEF Reports, Leaves
  <1>6. \A i \in DOMAIN queue' : IsLast(i, f)' => i = n + 1
    BY <1>1, <1>3, <1>4 DEF IsLast
  <1>7. \A i \in DOMAIN queue' : IsFirst(i, f)' => i \in 1 .. n /\ IsFirst(i, f)
    BY <1>1, <1>3, <1>4, <1>5 DEF IsFirst
  <1>8. \A i, j \in DOMAIN queue' : IsBefore(i, j, f)' => i \in 1 .. n /\ j \in 1 .. n /\ IsBefore(i, j, f)
    <2> SUFFICES ASSUME NEW i \in DOMAIN queue', NEW j \in DOMAIN queue', IsBefore(i, j, f)'
                 PROVE  i \in 1 .. n /\ j \in 1 .. n /\ IsBefore(i, j, f)
      OBVIOUS
    <2>1. j \in 1 .. n /\ i < j
      BY <1>1, <1>3, <1>4 DEF IsBefore
    <2>2. i \in 1 .. n
      BY <1>1, <1>4, <2>1
    <2> QED
      BY <1>1, <1>5, <2>1, <2>2 DEF IsBefore
  <1>9. ~IsQuiet(f)'
    BY <1>1, <1>3 DEF IsQuiet
  <1> QED
    BY <1>1, <1>2, <1>6, <1>7, <1>8, <1>9 DEF BytesAt

\* Another event is put on the queue: of another file, or one that leaves f.
LEMMA BytesStill ==
  ASSUME TypeInv, BytesInv, NEW f \in Files, NEW e \in Event, queue' = Append(queue, e),
         ~(e.file = f /\ e.kind \in Moving), e.file = f => e.real = reported[f],
         reported'[f] = reported[f], progress' = progress
  PROVE  BytesAt(f)'
  <1> DEFINE n == Len(queue)
  <1>1. /\ n \in Nat /\ DOMAIN queue = 1 .. n /\ DOMAIN queue' = 1 .. n + 1
        /\ \A i \in 1 .. n : queue'[i] = queue[i]
        /\ queue'[n + 1] = e
    BY QueueGrows
  <1>2. BytesAt(f)
    BY DEF BytesInv
  <1> HIDE DEF n
  <1>3. \A i \in 1 .. n + 1 : i = n + 1 => ~Reports(i, f)' /\ (Leaves(i, f)' => e.real = reported[f])
    BY <1>1 DEF Reports, Leaves
  <1>4. \A i \in 1 .. n + 1 : i \in 1 .. n \/ i = n + 1
    BY <1>1
  <1>5. \A i \in 1 .. n : (Reports(i, f)' <=> Reports(i, f)) /\ (Leaves(i, f)' <=> Leaves(i, f))
    BY <1>1 DEF Reports, Leaves
  <1>6. \A i \in DOMAIN queue' : IsLast(i, f)' => i \in 1 .. n /\ IsLast(i, f)
    BY <1>1, <1>3, <1>4, <1>5 DEF IsLast
  <1>7. IsQuiet(f)' => IsQuiet(f)
    BY <1>1, <1>5 DEF IsQuiet
  <1>8. \A j \in DOMAIN queue' : IsFirst(j, f)' /\ f \in DOMAIN progress' => progress'[f] = queue'[j].real
    <2> SUFFICES ASSUME NEW j \in DOMAIN queue', IsFirst(j, f)', f \in DOMAIN progress
                 PROVE  progress[f] = queue'[j].real
      OBVIOUS
    <2>1. CASE j \in 1 .. n
      <3>1. IsFirst(j, f)
        BY <1>1, <1>5, <2>1 DEF IsFirst
      <3> QED
        BY <1>1, <1>2, <2>1, <3>1 DEF BytesAt
    <2>2. CASE j = n + 1
      <3>1. Leaves(j, f)' /\ \A k \in 1 .. n : ~Reports(k, f)
        BY <1>1, <1>5, <2>2 DEF IsFirst
      <3>2. IsQuiet(f)
        BY <1>1, <3>1 DEF IsQuiet
      <3> QED
        BY <1>1, <1>2, <1>3, <2>2, <3>1, <3>2 DEF BytesAt
    <2> QED
      BY <1>1, <1>4, <2>1, <2>2
  <1>9. \A i, j \in DOMAIN queue' : IsBefore(i, j, f)' => queue'[i].bytes = queue'[j].real
    <2> SUFFICES ASSUME NEW i \in DOMAIN queue', NEW j \in DOMAIN queue', IsBefore(i, j, f)'
                 PROVE  queue'[i].bytes = queue'[j].real
      OBVIOUS
    <2>1. i \in 1 .. n /\ i < j /\ Reports(i, f) /\ Leaves(j, f)'
      BY <1>1, <1>3, <1>4, <1>5 DEF IsBefore
    <2>2. CASE j \in 1 .. n
      <3>1. IsBefore(i, j, f)
        BY <1>1, <1>5, <2>1, <2>2 DEF IsBefore
      <3> QED
        BY <1>1, <1>2, <2>1, <2>2, <3>1 DEF BytesAt
    <2>3. CASE j = n + 1
      <3>1. \A k \in 1 .. n : i < k => ~Reports(k, f)
        BY <1>1, <1>5, <2>3 DEF IsBefore
      <3>2. IsLast(i, f)
        BY <1>1, <2>1, <3>1 DEF IsLast
      <3> QED
        BY <1>1, <1>2, <1>3, <2>1, <2>3, <3>2 DEF BytesAt
    <2> QED
      BY <1>1, <1>4, <2>2, <2>3
  <1> QED
    BY <1>1, <1>2, <1>6, <1>7, <1>8, <1>9 DEF BytesAt

\* What is taken off the queue is remembered, or it ended what was remembered.
LEMMA BytesTaken ==
  ASSUME TypeInv, BytesInv, NEW f \in Files, queue # <<>>, queue' = Tail(queue),
         reported' = reported,
         Reports(1, f) => progress'[f] = queue[1].bytes,
         ~Reports(1, f) /\ f \in DOMAIN progress' => f \in DOMAIN progress /\ progress'[f] = progress[f]
  PROVE  BytesAt(f)'
  <1> DEFINE n == Len(queue)
  <1>1. /\ n \in Nat /\ n >= 1 /\ DOMAIN queue = 1 .. n /\ DOMAIN queue' = 1 .. n - 1
        /\ \A i \in 1 .. n - 1 : queue'[i] = queue[i + 1]
    BY QueueShrinks
  <1>2. BytesAt(f)
    BY DEF BytesInv
  <1> HIDE DEF n
  <1>3. \A i \in 1 .. n - 1 : i + 1 \in 1 .. n /\ 1 < i + 1
    BY <1>1
  <1>4. \A i \in 1 .. n - 1 : (Reports(i, f)' <=> Reports(i + 1, f)) /\ (Leaves(i, f)' <=> Leaves(i + 1, f))
    BY <1>1 DEF Reports, Leaves
  <1>5. \A k \in 1 .. n : 1 < k => k - 1 \in 1 .. n - 1 /\ (Reports(k, f) <=> Reports(k - 1, f)')
    <2> SUFFICES ASSUME NEW k \in 1 .. n, 1 < k
                 PROVE  k - 1 \in 1 .. n - 1 /\ (Reports(k, f) <=> Reports(k - 1, f)')
      OBVIOUS
    <2>1. k - 1 \in 1 .. n - 1 /\ (k - 1) + 1 = k
      BY <1>1
    <2>2. queue'[k - 1] = queue[k]
      BY <1>1, <2>1
    <2> QED
      BY <2>1, <2>2 DEF Reports
  <1>6. \A i \in DOMAIN queue' : IsLast(i, f)' => IsLast(i + 1, f)
    <2> SUFFICES ASSUME NEW i \in DOMAIN queue', IsLast(i, f)',
                        NEW k \in DOMAIN queue, i + 1 < k
                 PROVE  ~Reports(k, f)
      BY <1>1, <1>3, <1>4 DEF IsLast
    <2>1. 1 < k /\ i < k - 1 /\ k - 1 \in 1 .. n - 1
      BY <1>1
    <2> QED
      BY <1>1, <1>5, <2>1 DEF IsLast
  <1>7. \A i, j \in DOMAIN queue' : IsBefore(i, j, f)' => IsBefore(i + 1, j + 1, f)
    <2> SUFFICES ASSUME NEW i \in DOMAIN queue', NEW j \in DOMAIN queue', IsBefore(i, j, f)'
                 PROVE  IsBefore(i + 1, j + 1, f)
      OBVIOUS
    <2>1. i + 1 < j + 1 /\ Reports(i + 1, f) /\ Leaves(j + 1, f)
      BY <1>1, <1>4 DEF IsBefore
    <2>2. ASSUME NEW k \in DOMAIN queue, i + 1 < k, k < j + 1 PROVE ~Reports(k, f)
      <3>1. 1 < k /\ i < k - 1 /\ k - 1 < j /\ k - 1 \in 1 .. n - 1
        BY <1>1, <2>2
      <3> QED
        BY <1>1, <1>5, <3>1 DEF IsBefore
    <2> QED
      BY <1>1, <1>3, <2>1, <2>2 DEF IsBefore
  <1>8. \A j \in DOMAIN queue' : IsFirst(j, f)' => IF Reports(1, f) THEN IsBefore(1, j + 1, f)
                                                                   ELSE IsFirst(j + 1, f)
    <2> SUFFICES ASSUME NEW j \in DOMAIN queue', IsFirst(j, f)'
                 PROVE  IF Reports(1, f) THEN IsBefore(1, j + 1, f) ELSE IsFirst(j + 1, f)
      OBVIOUS
    <2>1. j + 1 \in DOMAIN queue /\ 1 \in DOMAIN queue /\ 1 < j + 1 /\ Leaves(j + 1, f)
      BY <1>1, <1>3, <1>4 DEF IsFirst
    <2>2. ASSUME NEW k \in DOMAIN queue, 1 < k, k < j + 1 PROVE ~Reports(k, f)
      <3>1. k - 1 \in 1 .. n - 1 /\ k - 1 < j
        BY <1>1, <2>2
      <3> QED
        BY <1>1, <1>5, <2>2, <3>1 DEF IsFirst
    <2>3. CASE Reports(1, f)
      BY <2>1, <2>2, <2>3 DEF IsBefore
    <2>4. CASE ~Reports(1, f)
      <3>1. \A k \in DOMAIN queue : k = 1 \/ 1 < k
        BY <1>1
      <3> QED
        BY <2>1, <2>2, <2>4, <3>1 DEF IsFirst
    <2> QED
      BY <2>3, <2>4
  <1>9. IsQuiet(f)' => IF Reports(1, f) THEN IsLast(1, f) ELSE IsQuiet(f)
    <2> SUFFICES ASSUME IsQuiet(f)' PROVE IF Reports(1, f) THEN IsLast(1, f) ELSE IsQuiet(f)
      OBVIOUS
    <2>1. \A k \in DOMAIN queue : 1 < k => ~Reports(k, f)
      BY <1>1, <1>5 DEF IsQuiet
    <2>2. \A k \in DOMAIN queue : k = 1 \/ 1 < k
      BY <1>1
    <2>3. 1 \in DOMAIN queue
      BY <1>1
    <2> QED
      BY <2>1, <2>2, <2>3 DEF IsLast, IsQuiet
  <1>10. \A i \in DOMAIN queue' : IsLast(i, f)' => queue'[i].bytes = reported'[f]
    BY <1>1, <1>2, <1>3, <1>6 DEF BytesAt
  <1>11. \A i, j \in DOMAIN queue' : IsBefore(i, j, f)' => queue'[i].bytes = queue'[j].real
    BY <1>1, <1>2, <1>3, <1>7 DEF BytesAt
  <1>12. \A j \in DOMAIN queue' : IsFirst(j, f)' /\ f \in DOMAIN progress' => progress'[f] = queue'[j].real
    <2> SUFFICES ASSUME NEW j \in DOMAIN queue', IsFirst(j, f)', f \in DOMAIN progress'
                 PROVE  progress'[f] = queue'[j].real
      OBVIOUS
    <2>1. j + 1 \in DOMAIN queue /\ queue'[j] = queue[j + 1] /\ 1 \in DOMAIN queue
      BY <1>1, <1>3
    <2>2. CASE Reports(1, f)
      BY <1>2, <1>8, <2>1, <2>2 DEF BytesAt
    <2>3. CASE ~Reports(1, f)
      BY <1>2, <1>8, <2>1, <2>3 DEF BytesAt
    <2> QED
      BY <2>2, <2>3
  <1>13. IsQuiet(f)' /\ f \in DOMAIN progress' => progress'[f] = reported'[f]
    <2>1. 1 \in DOMAIN queue
      BY <1>1
    <2> QED
      BY <1>2, <1>9, <2>1 DEF BytesAt
  <1> QED
    BY <1>10, <1>11, <1>12, <1>13 DEF BytesAt

-----------------------------------------------------------------------------
(* What is on the queue.                                                   *)

\* A gate was called: the queue is the old one, or one event longer.
LEMMA QueueAfter ==
  ASSUME TypeInv, NEW p \in BOOLEAN, NEW e \in Event, EmitStep(p, e)
  PROVE  \A i \in DOMAIN queue' : \/ i \in DOMAIN queue /\ queue'[i] = queue[i]
                                  \/ p /\ queue'[i] = e
  <1>1. CASE p
    <2>1. queue' = Append(queue, e)
      BY <1>1 DEF EmitStep, Emits, Emit
    <2>2. /\ Len(queue) \in Nat /\ DOMAIN queue = 1 .. Len(queue)
          /\ DOMAIN queue' = 1 .. Len(queue) + 1
          /\ \A i \in 1 .. Len(queue) : queue'[i] = queue[i]
          /\ queue'[Len(queue) + 1] = e
      BY <2>1, QueueGrows
    <2>3. \A i \in DOMAIN queue' : i \in DOMAIN queue \/ i = Len(queue) + 1
      BY <2>2
    <2> QED
      BY <1>1, <2>2, <2>3
  <1>2. CASE ~p
    BY <1>2 DEF EmitStep, Emits, Emit
  <1> QED
    BY <1>1, <1>2

LEMMA QueuePut ==
  ASSUME TypeInv, QueueInv, NEW p \in BOOLEAN, NEW e \in Event, EmitStep(p, e)
  PROVE  QueueInv'
  <1>1. \A i \in DOMAIN queue' : (i \in DOMAIN queue /\ queue'[i] = queue[i]) \/ (p /\ queue'[i] = e)
    BY QueueAfter
  <1>2. task' = task
    BY DEF EmitStep
  <1>3. \A i \in DOMAIN queue' : queue'[i].kind = "Canceled" <=> queue'[i].file = NoFile
    BY <1>1 DEF EmitStep, QueueInv
  <1>4. \A i \in DOMAIN queue' : queue'[i].kind = "Started" => queue'[i].bytes = queue'[i].real
    BY <1>1 DEF EmitStep, QueueInv
  <1> QED
    BY <1>2, <1>3, <1>4 DEF QueueInv

LEMMA QueueStep == TypeInv /\ QueueInv /\ WholeInv /\ OverInv /\ [Next]_vars => QueueInv'
  <1> SUFFICES ASSUME TypeInv, QueueInv, WholeInv, OverInv, [Next]_vars PROVE QueueInv'
    OBVIOUS
  <1> USE DEF gates, bytes, disk, store
  <1>1. ASSUME NEW f \in Files, ApiDownload(f) PROVE QueueInv'
    BY <1>1 DEF ApiDownload, QueueInv
  <1>2. ASSUME NEW f \in Files, Preflight(f) PROVE QueueInv'
    BY <1>2 DEF Preflight, QueueInv
  <1>3. ASSUME NEW f \in Files, Throttle(f) PROVE QueueInv'
    BY <1>3 DEF Throttle, QueueInv
  <1>4. ASSUME NEW f \in Files, StopSilent(f) PROVE QueueInv'
    BY <1>4 DEF StopSilent, QueueInv
  <1>5. ASSUME NEW f \in Files, NEW b \in 0 .. Size, Start(f, b) PROVE QueueInv'
    BY <1>5, StartEmits, QueuePut
  <1>6. ASSUME NEW f \in Files, NEW b \in 0 .. Size, Progress(f, b) PROVE QueueInv'
    BY <1>6, ProgressEmits, QueuePut
  <1>7. ASSUME NEW f \in Files, Pause(f) PROVE QueueInv'
    BY <1>7, PauseEmits, QueuePut
  <1>8. ASSUME NEW f \in Files, NEW v \in Final, Verdict(f, v) PROVE QueueInv'
    BY <1>8, VerdictEmits, QueuePut
  <1>9. CASE Cancel
    BY <1>9, CancelEmits, QueuePut
  <1>10. ASSUME NEW f \in Files, NEW n \in 1 .. Size, Chunk(f, n) PROVE QueueInv'
    BY <1>10 DEF Chunk, QueueInv
  <1>11. ASSUME NEW f \in Files, NEW v \in Final, JobEnds(f, v) PROVE QueueInv'
    BY <1>11 DEF JobEnds, QueueInv
  <1>12. ASSUME NEW f \in Files, NEW v \in Final, Post(f, v) PROVE QueueInv'
    BY <1>12 DEF Post, QueueInv
  <1>13. ASSUME NEW f \in Files, ApiRemoveFile(f) PROVE QueueInv'
    BY <1>13 DEF ApiRemoveFile, QueueInv
  <1>14. CASE SyncClear
    BY <1>14 DEF SyncClear, QueueInv
  <1>15. CASE HandleEvent
    <2>1. /\ Len(queue) \in Nat /\ DOMAIN queue = 1 .. Len(queue) /\ DOMAIN queue' = 1 .. Len(queue) - 1
          /\ \A i \in 1 .. Len(queue) - 1 : queue'[i] = queue[i + 1]
      BY <1>15, QueueShrinks DEF HandleEvent
    <2>2. \A i \in DOMAIN queue' : i + 1 \in DOMAIN queue /\ queue'[i] = queue[i + 1]
      BY <2>1
    <2>3. task' = Head(queue) /\ (Head(queue).kind # "Canceled" => Head(queue).file \in Files)
      BY <1>15, HeadOf DEF HandleEvent
    <2>4. task'.kind \in Stored => task'.file \in Files
      BY <2>3 DEF Stored, Final
    <2> QED
      BY <2>2, <2>4 DEF QueueInv
  <1>16. CASE Dispatch
    BY <1>16 DEF Dispatch, QueueInv
  <1>17. CASE ApiPurge
    BY <1>17 DEF ApiPurge, QueueInv
  <1>18. CASE Crash
    <2>1. DOMAIN queue' = {} /\ task' = Idle
      BY <1>18 DEF Crash
    <2> QED
      BY <2>1 DEF QueueInv
  <1>19. CASE Restart
    BY <1>19 DEF Restart, QueueInv
  <1>20. CASE UNCHANGED vars
    BY <1>20 DEF vars, QueueInv
  <1> QED
    BY <1>1, <1>2, <1>3, <1>4, <1>5, <1>6, <1>7, <1>8, <1>9, <1>10,
       <1>11, <1>12, <1>13, <1>14, <1>15, <1>16, <1>17, <1>18, <1>19, <1>20
       DEF Next

LEMMA WholePut ==
  ASSUME TypeInv, TypeInv', WholeInv, NEW p \in BOOLEAN, NEW e \in Event, EmitStep(p, e)
  PROVE  WholeInv'
  <1>1. \A i \in DOMAIN queue' : (i \in DOMAIN queue /\ queue'[i] = queue[i]) \/ (p /\ queue'[i] = e)
    BY QueueAfter
  <1>2. whole' = whole /\ posts' \subseteq posts
    BY DEF EmitStep
  <1>3. ASSUME NEW f \in Files, moved'[f] = Size PROVE f \in whole'
    <2>1. moved[f] \in 0 .. Size /\ moved'[f] <= moved[f]
      BY DEF TypeInv, EmitStep
    <2>2. moved[f] = Size
      BY <1>3, <2>1, SizesAssumption
    <2> QED
      BY <1>2, <2>2 DEF WholeInv
  <1>4. \A i \in DOMAIN queue' : queue'[i].kind = "Completed" => queue'[i].file \in whole'
    BY <1>1, <1>2 DEF EmitStep, WholeInv
  <1> QED
    BY <1>2, <1>3, <1>4 DEF WholeInv

LEMMA WholeStep ==
  TypeInv /\ TypeInv' /\ QueueInv /\ WholeInv /\ OverInv /\ [Next]_vars
    => WholeInv'
  <1> SUFFICES ASSUME TypeInv, TypeInv', QueueInv, WholeInv, OverInv, [Next]_vars
               PROVE  WholeInv'
    OBVIOUS
  <1> USE DEF gates, bytes, disk, store
  <1>1. ASSUME NEW f \in Files, ApiDownload(f) PROVE WholeInv'
    BY <1>1 DEF ApiDownload, WholeInv
  <1>2. ASSUME NEW f \in Files, Preflight(f) PROVE WholeInv'
    BY <1>2 DEF Preflight, WholeInv
  <1>3. ASSUME NEW f \in Files, Throttle(f) PROVE WholeInv'
    BY <1>3 DEF Throttle, WholeInv
  <1>4. ASSUME NEW f \in Files, StopSilent(f) PROVE WholeInv'
    BY <1>4 DEF StopSilent, WholeInv
  <1>5. ASSUME NEW f \in Files, NEW b \in 0 .. Size, Start(f, b) PROVE WholeInv'
    BY <1>5, StartEmits, WholePut
  <1>6. ASSUME NEW f \in Files, NEW b \in 0 .. Size, Progress(f, b) PROVE WholeInv'
    BY <1>6, ProgressEmits, WholePut
  <1>7. ASSUME NEW f \in Files, Pause(f) PROVE WholeInv'
    BY <1>7, PauseEmits, WholePut
  <1>8. ASSUME NEW f \in Files, NEW v \in Final, Verdict(f, v) PROVE WholeInv'
    BY <1>8, VerdictEmits, WholePut
  <1>9. CASE Cancel
    BY <1>9, CancelEmits, WholePut
  <1>10. ASSUME NEW f \in Files, NEW n \in 1 .. Size, Chunk(f, n) PROVE WholeInv'
    <2>1. \A g \in Files : moved'[g] = Size => g \in whole'
      BY <1>10 DEF Chunk, TypeInv, WholeInv
    <2>2. whole \subseteq whole'
      BY <1>10 DEF Chunk
    <2> QED
      BY <1>10, <2>1, <2>2 DEF Chunk, WholeInv
  <1>11. ASSUME NEW f \in Files, NEW v \in Final, JobEnds(f, v) PROVE WholeInv'
    <2>1. v = "Completed" => f \in whole
      BY <1>11 DEF JobEnds, WholeInv
    <2>2. \A g \in Files : <<g, "Completed">> \in posts' => g \in whole
      BY <1>11, <2>1 DEF JobEnds, WholeInv
    <2> QED
      BY <1>11, <2>2 DEF JobEnds, WholeInv
  <1>12. ASSUME NEW f \in Files, NEW v \in Final, Post(f, v) PROVE WholeInv'
    <2>1. v = "Completed" => f \in whole
      BY <1>12 DEF Post, WholeInv
    <2>2. \A g \in Files : <<g, "Completed">> \in posts' => g \in whole
      BY <1>12, <2>1 DEF Post, WholeInv
    <2> QED
      BY <1>12, <2>2 DEF Post, WholeInv
  <1>13. ASSUME NEW f \in Files, ApiRemoveFile(f) PROVE WholeInv'
    BY <1>13 DEF ApiRemoveFile, WholeInv
  <1>14. CASE SyncClear
    BY <1>14 DEF SyncClear, WholeInv
  <1>15. CASE HandleEvent
    <2>1. /\ Len(queue) \in Nat /\ DOMAIN queue = 1 .. Len(queue) /\ DOMAIN queue' = 1 .. Len(queue) - 1
          /\ \A i \in 1 .. Len(queue) - 1 : queue'[i] = queue[i + 1]
      BY <1>15, QueueShrinks DEF HandleEvent
    <2>2. \A i \in DOMAIN queue' : i + 1 \in DOMAIN queue /\ queue'[i] = queue[i + 1]
      BY <2>1
    <2> QED
      BY <1>15, <2>2 DEF HandleEvent, WholeInv
  <1>16. CASE Dispatch
    BY <1>16 DEF Dispatch, WholeInv
  <1>17. CASE ApiPurge
    BY <1>17 DEF ApiPurge, WholeInv
  <1>18. CASE Crash
    <2>1. DOMAIN queue' = {}
      BY <1>18 DEF Crash
    <2> QED
      BY <1>18, <2>1 DEF Crash, WholeInv
  <1>19. CASE Restart
    BY <1>19 DEF Restart, WholeInv
  <1>20. CASE UNCHANGED vars
    BY <1>20 DEF vars, WholeInv
  <1> QED
    BY <1>1, <1>2, <1>3, <1>4, <1>5, <1>6, <1>7, <1>8, <1>9, <1>10,
       <1>11, <1>12, <1>13, <1>14, <1>15, <1>16, <1>17, <1>18, <1>19, <1>20
       DEF Next

-----------------------------------------------------------------------------
(* The bytes a state will be stored with.                                  *)

LEMMA BytesPut ==
  ASSUME TypeInv, BytesInv, NEW p \in BOOLEAN, NEW e \in Event, EmitStep(p, e)
  PROVE  BytesInv'
  <1> SUFFICES ASSUME NEW f \in Files PROVE BytesAt(f)'
    BY DEF BytesInv
  <1>1. progress' = progress
    BY DEF EmitStep
  <1>2. CASE ~p
    <2>1. queue' = queue /\ reported'[f] = reported[f]
      BY <1>2 DEF EmitStep, Emits, Emit
    <2> QED
      BY <1>1, <2>1, BytesQuiet
  <1>3. CASE p
    <2>1. queue' = Append(queue, e)
      BY <1>3 DEF EmitStep, Emits, Emit
    <2>2. CASE e.file = f /\ e.kind \in Moving
      <3>1. e.bytes = reported'[f]
        BY <1>3, <2>2 DEF EmitStep
      <3> QED
        BY <1>1, <2>1, <2>2, <3>1, BytesMoving
    <2>3. CASE ~(e.file = f /\ e.kind \in Moving)
      <3>1. reported'[f] = reported[f] /\ (e.file = f => e.real = reported[f])
        BY <1>3, <2>3 DEF EmitStep
      <3> QED
        BY <1>1, <2>1, <2>3, <3>1, BytesStill
    <2> QED
      BY <2>2, <2>3
  <1> QED
    BY <1>2, <1>3

LEMMA BytesStep ==
  TypeInv /\ QueueInv /\ WholeInv /\ OverInv /\ BytesInv /\ [Next]_vars
    => BytesInv'
  <1> SUFFICES ASSUME TypeInv, QueueInv, WholeInv, OverInv, BytesInv, [Next]_vars
               PROVE  BytesInv'
    OBVIOUS
  <1> USE DEF gates, bytes, disk, store
  <1>1. ASSUME NEW f \in Files, ApiDownload(f) PROVE BytesInv'
    <2>1. queue' = queue /\ progress' = progress /\ reported' = reported
      BY <1>1 DEF ApiDownload
    <2> QED
      BY <2>1, BytesQuiet DEF BytesInv
  <1>2. ASSUME NEW f \in Files, Preflight(f) PROVE BytesInv'
    <2>1. queue' = queue /\ progress' = progress /\ reported' = reported
      BY <1>2 DEF Preflight
    <2> QED
      BY <2>1, BytesQuiet DEF BytesInv
  <1>3. ASSUME NEW f \in Files, Throttle(f) PROVE BytesInv'
    <2>1. queue' = queue /\ progress' = progress /\ reported' = reported
      BY <1>3 DEF Throttle
    <2> QED
      BY <2>1, BytesQuiet DEF BytesInv
  <1>4. ASSUME NEW f \in Files, StopSilent(f) PROVE BytesInv'
    <2>1. queue' = queue /\ progress' = progress /\ reported' = reported
      BY <1>4 DEF StopSilent
    <2> QED
      BY <2>1, BytesQuiet DEF BytesInv
  <1>5. ASSUME NEW f \in Files, NEW b \in 0 .. Size, Start(f, b) PROVE BytesInv'
    BY <1>5, StartEmits, BytesPut
  <1>6. ASSUME NEW f \in Files, NEW b \in 0 .. Size, Progress(f, b) PROVE BytesInv'
    BY <1>6, ProgressEmits, BytesPut
  <1>7. ASSUME NEW f \in Files, Pause(f) PROVE BytesInv'
    BY <1>7, PauseEmits, BytesPut
  <1>8. ASSUME NEW f \in Files, NEW v \in Final, Verdict(f, v) PROVE BytesInv'
    BY <1>8, VerdictEmits, BytesPut
  <1>9. CASE Cancel
    BY <1>9, CancelEmits, BytesPut
  <1>10. ASSUME NEW f \in Files, NEW n \in 1 .. Size, Chunk(f, n) PROVE BytesInv'
    <2>1. queue' = queue /\ progress' = progress /\ reported' = reported
      BY <1>10 DEF Chunk
    <2> QED
      BY <2>1, BytesQuiet DEF BytesInv
  <1>11. ASSUME NEW f \in Files, NEW v \in Final, JobEnds(f, v) PROVE BytesInv'
    <2>1. queue' = queue /\ progress' = progress /\ reported' = reported
      BY <1>11 DEF JobEnds
    <2> QED
      BY <2>1, BytesQuiet DEF BytesInv
  <1>12. ASSUME NEW f \in Files, NEW v \in Final, Post(f, v) PROVE BytesInv'
    <2>1. queue' = queue /\ progress' = progress /\ reported' = reported
      BY <1>12 DEF Post
    <2> QED
      BY <2>1, BytesQuiet DEF BytesInv
  <1>13. ASSUME NEW f \in Files, ApiRemoveFile(f) PROVE BytesInv'
    <2>1. queue' = queue /\ progress' = progress /\ reported' = reported
      BY <1>13 DEF ApiRemoveFile
    <2> QED
      BY <2>1, BytesQuiet DEF BytesInv
  <1>14. CASE SyncClear
    <2>1. queue' = queue /\ progress' = progress /\ reported' = reported
      BY <1>14 DEF SyncClear
    <2> QED
      BY <2>1, BytesQuiet DEF BytesInv
  <1>15. CASE HandleEvent
    <2> SUFFICES ASSUME NEW f \in Files PROVE BytesAt(f)'
      BY DEF BytesInv
    <2> DEFINE e == Head(queue)
    <2>1. e \in Event /\ e = queue[1] /\ (e.kind # "Canceled" => e.file \in Files)
      BY <1>15, HeadOf DEF HandleEvent
    <2>2. /\ queue # <<>> /\ queue' = Tail(queue) /\ reported' = reported
          /\ handle_event(e)
      BY <1>15 DEF HandleEvent
    <2>3. e.kind = "Canceled" => e.file # f
      <3>1. 1 \in DOMAIN queue
        BY <2>2, HeadOf
      <3> QED
        BY <2>1, <3>1, NoFileAssumption DEF QueueInv
    <2> HIDE DEF e
    <2>4. CASE e.kind \in Moving
      <3>1. progress' = store_progress(progress, e.file, e.bytes)
        BY <2>2, <2>4 DEF handle_event, Moving
      <3>2. Reports(1, f) => progress'[f] = queue[1].bytes
        BY <2>1, <3>1 DEF Reports, store_progress
      <3>3. ~Reports(1, f) /\ f \in DOMAIN progress' => f \in DOMAIN progress /\ progress'[f] = progress[f]
        BY <2>1, <2>4, <3>1 DEF Reports, store_progress
      <3> QED
        BY <2>2, <3>2, <3>3, BytesTaken
    <2>5. CASE e.kind \notin Moving
      <3>1. ~Reports(1, f)
        BY <2>1, <2>5 DEF Reports
      <3>2. progress' \in {progress, forget(progress, e.file), NoProgress}
        BY <2>2, <2>5 DEF handle_event, Moving
      <3>3. f \in DOMAIN progress' => f \in DOMAIN progress /\ progress'[f] = progress[f]
        BY <3>2 DEF forget, NoProgress
      <3> QED
        BY <2>2, <3>1, <3>3, BytesTaken
    <2> QED
      BY <2>4, <2>5
  <1>16. CASE Dispatch
    <2>1. queue' = queue /\ progress' = progress /\ reported' = reported
      BY <1>16 DEF Dispatch
    <2> QED
      BY <2>1, BytesQuiet DEF BytesInv
  <1>17. CASE ApiPurge
    <2>1. queue' = queue /\ progress' = progress /\ reported' = reported
      BY <1>17 DEF ApiPurge
    <2> QED
      BY <2>1, BytesQuiet DEF BytesInv
  <1>18. CASE Crash
    <2>1. DOMAIN queue' = {} /\ DOMAIN progress' = {}
      BY <1>18 DEF Crash, NoProgress
    <2> QED
      BY <2>1 DEF BytesInv, BytesAt
  <1>19. CASE Restart
    <2>1. queue' = queue /\ progress' = progress /\ reported' = reported
      BY <1>19 DEF Restart
    <2> QED
      BY <2>1, BytesQuiet DEF BytesInv
  <1>20. CASE UNCHANGED vars
    <2>1. queue' = queue /\ progress' = progress /\ reported' = reported
      BY <1>20 DEF vars
    <2> QED
      BY <2>1, BytesQuiet DEF BytesInv
  <1> QED
    BY <1>1, <1>2, <1>3, <1>4, <1>5, <1>6, <1>7, <1>8, <1>9, <1>10,
       <1>11, <1>12, <1>13, <1>14, <1>15, <1>16, <1>17, <1>18, <1>19, <1>20
       DEF Next

-----------------------------------------------------------------------------
(* The end of the transfer.                                                *)

LEMMA OverPut ==
  ASSUME TypeInv, OverInv, NEW p \in BOOLEAN, NEW e \in Event, EmitStep(p, e)
  PROVE  OverInv'
  <1>1. \A i \in DOMAIN queue' : (i \in DOMAIN queue /\ queue'[i] = queue[i]) \/ (p /\ queue'[i] = e)
    BY QueueAfter
  <1>2. \A i \in DOMAIN queue' : queue'[i].kind = "Canceled" => canceled'
    BY <1>1 DEF EmitStep, OverInv
  <1> QED
    BY <1>2 DEF EmitStep, OverInv, store

LEMMA OverStep == TypeInv /\ QueueInv /\ WholeInv /\ OverInv /\ [Next]_vars => OverInv'
  <1> SUFFICES ASSUME TypeInv, QueueInv, WholeInv, OverInv, [Next]_vars PROVE OverInv'
    OBVIOUS
  <1> USE DEF gates, bytes, disk, store
  <1>1. ASSUME NEW f \in Files, ApiDownload(f) PROVE OverInv'
    BY <1>1 DEF ApiDownload, OverInv
  <1>2. ASSUME NEW f \in Files, Preflight(f) PROVE OverInv'
    BY <1>2 DEF Preflight, OverInv
  <1>3. ASSUME NEW f \in Files, Throttle(f) PROVE OverInv'
    BY <1>3 DEF Throttle, OverInv
  <1>4. ASSUME NEW f \in Files, StopSilent(f) PROVE OverInv'
    BY <1>4 DEF StopSilent, OverInv
  <1>5. ASSUME NEW f \in Files, NEW b \in 0 .. Size, Start(f, b) PROVE OverInv'
    BY <1>5, StartEmits, OverPut
  <1>6. ASSUME NEW f \in Files, NEW b \in 0 .. Size, Progress(f, b) PROVE OverInv'
    BY <1>6, ProgressEmits, OverPut
  <1>7. ASSUME NEW f \in Files, Pause(f) PROVE OverInv'
    BY <1>7, PauseEmits, OverPut
  <1>8. ASSUME NEW f \in Files, NEW v \in Final, Verdict(f, v) PROVE OverInv'
    BY <1>8, VerdictEmits, OverPut
  <1>9. CASE Cancel
    BY <1>9, CancelEmits, OverPut
  <1>10. ASSUME NEW f \in Files, NEW n \in 1 .. Size, Chunk(f, n) PROVE OverInv'
    BY <1>10 DEF Chunk, OverInv
  <1>11. ASSUME NEW f \in Files, NEW v \in Final, JobEnds(f, v) PROVE OverInv'
    BY <1>11 DEF JobEnds, OverInv
  <1>12. ASSUME NEW f \in Files, NEW v \in Final, Post(f, v) PROVE OverInv'
    BY <1>12 DEF Post, OverInv
  <1>13. ASSUME NEW f \in Files, ApiRemoveFile(f) PROVE OverInv'
    BY <1>13 DEF ApiRemoveFile, OverInv
  <1>14. CASE SyncClear
    BY <1>14 DEF SyncClear, OverInv
  <1>15. CASE HandleEvent
    <2>1. /\ Len(queue) \in Nat /\ DOMAIN queue = 1 .. Len(queue) /\ DOMAIN queue' = 1 .. Len(queue) - 1
          /\ \A i \in 1 .. Len(queue) - 1 : queue'[i] = queue[i + 1]
      BY <1>15, QueueShrinks DEF HandleEvent
    <2>2. \A i \in DOMAIN queue' : i + 1 \in DOMAIN queue /\ queue'[i] = queue[i + 1]
      BY <2>1
    <2>3. 1 \in DOMAIN queue /\ Head(queue) = queue[1]
      BY <1>15, HeadOf DEF HandleEvent
    <2>4. over' => canceled
      BY <1>15, <2>3 DEF HandleEvent, handle_event, OverInv
    <2>5. \A i \in DOMAIN queue' : queue'[i].kind = "Canceled" => canceled
      BY <2>2 DEF OverInv
    <2> QED
      BY <1>15, <2>4, <2>5 DEF HandleEvent, OverInv
  <1>16. CASE Dispatch
    BY <1>16 DEF Dispatch, OverInv
  <1>17. CASE ApiPurge
    BY <1>17 DEF ApiPurge, OverInv
  <1>18. CASE Crash
    <2>1. DOMAIN queue' = {}
      BY <1>18 DEF Crash
    <2> QED
      BY <1>18, <2>1 DEF Crash, OverInv
  <1>19. CASE Restart
    BY <1>19 DEF Restart, OverInv, TypeInv, transfer_gate
  <1>20. CASE UNCHANGED vars
    BY <1>20 DEF vars, OverInv
  <1> QED
    BY <1>1, <1>2, <1>3, <1>4, <1>5, <1>6, <1>7, <1>8, <1>9, <1>10,
       <1>11, <1>12, <1>13, <1>14, <1>15, <1>16, <1>17, <1>18, <1>19, <1>20
       DEF Next

-----------------------------------------------------------------------------
(* The rows.                                                               *)

\* The head of the queue, if it leaves a file, finds the right bytes.
LEMMA HeadBytes ==
  ASSUME TypeInv, QueueInv, BytesInv, queue # <<>>, Head(queue).kind \in Leaving
  PROVE  progress_of(progress, Head(queue).file) \in {0, Head(queue).real}
  <1>1. 1 \in DOMAIN queue /\ Head(queue) = queue[1] /\ Head(queue).file \in Files
    BY HeadOf DEF Leaving
  <1>2. \A k \in DOMAIN queue : ~ (k < 1)
    BY SeqDomain DEF TypeInv
  <1>3. IsFirst(1, Head(queue).file)
    BY <1>1, <1>2 DEF IsFirst, Leaves
  <1>4. BytesAt(Head(queue).file)
    BY <1>1 DEF BytesInv
  <1> QED
    BY <1>1, <1>3, <1>4 DEF BytesAt, progress_of

\* A row that says the truth is added to rows that do.
LEMMA CommitTrue ==
  ASSUME TypeInv, RowsNeverInvented, NEW f \in Files, NEW k \in Stored \cup {"Pending"},
         NEW b \in 0 .. Size, NEW r \in 0 .. Size, Commit(f, k, b, r), whole' = whole,
         IF k = "Completed" THEN f \in whole ELSE b \in {0, r}
  PROVE  RowsNeverInvented'
  <1>1. \A g \in Files : \A i \in DOMAIN rows'[g] :
          \/ i \in DOMAIN rows[g] /\ rows'[g][i] = rows[g][i]
          \/ /\ rows'[g][i].kind = k /\ rows'[g][i].bytes = b /\ rows'[g][i].real = r
             /\ g = f
    BY CommitRows
  <1>2. ASSUME NEW g \in Files, NEW i \in DOMAIN rows'[g]
        PROVE  IF rows'[g][i].kind = "Completed" THEN g \in whole
               ELSE rows'[g][i].bytes \in {0, rows'[g][i].real}
    <2>1. CASE i \in DOMAIN rows[g] /\ rows'[g][i] = rows[g][i]
      BY <2>1 DEF RowsNeverInvented, RowTrue
    <2>2. CASE rows'[g][i].kind = k /\ rows'[g][i].bytes = b /\ rows'[g][i].real = r /\ g = f
      BY <2>2
    <2> QED
      BY <1>1, <2>1, <2>2
  <1> QED
    BY <1>2 DEF RowsNeverInvented, RowTrue

LEMMA RowsStep ==
  TypeInv /\ QueueInv /\ WholeInv /\ BytesInv /\ RowsNeverInvented /\ [Next]_vars
    => RowsNeverInvented'
  <1> SUFFICES ASSUME TypeInv, QueueInv, WholeInv, BytesInv, RowsNeverInvented, [Next]_vars
               PROVE  RowsNeverInvented'
    OBVIOUS
  <1> USE DEF gates, bytes, disk, store
  <1>1. ASSUME NEW f \in Files, ApiDownload(f) PROVE RowsNeverInvented'
    <2>1. Commit(f, "Pending", 0, 0) /\ 0 \in 0 .. Size /\ whole' = whole
      BY <1>1, SizesAssumption DEF ApiDownload
    <2> QED
      BY <2>1, CommitTrue
  <1>2. ASSUME NEW f \in Files, Preflight(f) PROVE RowsNeverInvented'
    BY <1>2 DEF Preflight, RowsNeverInvented, RowTrue
  <1>3. ASSUME NEW f \in Files, Throttle(f) PROVE RowsNeverInvented'
    BY <1>3 DEF Throttle, RowsNeverInvented, RowTrue
  <1>4. ASSUME NEW f \in Files, StopSilent(f) PROVE RowsNeverInvented'
    BY <1>4 DEF StopSilent, RowsNeverInvented, RowTrue
  <1>5. ASSUME NEW f \in Files, NEW b \in 0 .. Size, Start(f, b) PROVE RowsNeverInvented'
    BY <1>5 DEF Start, RowsNeverInvented, RowTrue
  <1>6. ASSUME NEW f \in Files, NEW b \in 0 .. Size, Progress(f, b) PROVE RowsNeverInvented'
    BY <1>6 DEF Progress, RowsNeverInvented, RowTrue
  <1>7. ASSUME NEW f \in Files, Pause(f) PROVE RowsNeverInvented'
    BY <1>7 DEF Pause, RowsNeverInvented, RowTrue
  <1>8. ASSUME NEW f \in Files, NEW v \in Final, Verdict(f, v) PROVE RowsNeverInvented'
    BY <1>8 DEF Verdict, RowsNeverInvented, RowTrue
  <1>9. CASE Cancel
    BY <1>9 DEF Cancel, RowsNeverInvented, RowTrue
  <1>10. ASSUME NEW f \in Files, NEW n \in 1 .. Size, Chunk(f, n) PROVE RowsNeverInvented'
    BY <1>10 DEF Chunk, RowsNeverInvented, RowTrue
  <1>11. ASSUME NEW f \in Files, NEW v \in Final, JobEnds(f, v) PROVE RowsNeverInvented'
    BY <1>11 DEF JobEnds, RowsNeverInvented, RowTrue
  <1>12. ASSUME NEW f \in Files, NEW v \in Final, Post(f, v) PROVE RowsNeverInvented'
    BY <1>12 DEF Post, RowsNeverInvented, RowTrue
  <1>13. ASSUME NEW f \in Files, ApiRemoveFile(f) PROVE RowsNeverInvented'
    BY <1>13 DEF ApiRemoveFile, RowsNeverInvented, RowTrue
  <1>14. CASE SyncClear
    BY <1>14 DEF SyncClear, RowsNeverInvented, RowTrue
  <1>15. CASE HandleEvent
    <2> DEFINE e == Head(queue)
    <2>1. /\ e \in Event /\ (e.kind # "Canceled" => e.file \in Files)
          /\ 1 \in DOMAIN queue /\ e = queue[1]
      BY <1>15, HeadOf DEF HandleEvent
    <2>2. handle_event(e) /\ whole' = whole
      BY <1>15 DEF HandleEvent
    <2>3. /\ e.kind = "Started" => e.bytes = e.real
          /\ e.kind = "Completed" => e.file \in whole
      BY <2>1 DEF QueueInv, WholeInv
    <2>4. e.kind \in Leaving => progress_of(progress, e.file) \in {0, e.real}
      BY <1>15, HeadBytes DEF HandleEvent
    <2> HIDE DEF e
    <2>5. e.bytes \in 0 .. Size /\ e.real \in 0 .. Size /\ Size \in 0 .. Size
      BY <2>1, SizesAssumption DEF Event
    <2>6. CASE e.kind = "Started"
      <3>1. Commit(e.file, "Started", e.bytes, e.real)
        BY <2>2, <2>6 DEF handle_event
      <3> QED
        BY <2>1, <2>2, <2>3, <2>5, <2>6, <3>1, CommitTrue DEF Stored
    <2>7. CASE e.kind = "Completed"
      <3>1. Commit(e.file, "Completed", Size, e.real)
        BY <2>2, <2>7 DEF handle_event
      <3> QED
        BY <2>1, <2>2, <2>3, <2>5, <2>7, <3>1, CommitTrue DEF Stored, Final
    <2>8. CASE e.kind \in Leaving
      <3>1. /\ Commit(e.file, e.kind, progress_of(progress, e.file), e.real)
            /\ e.file \in Files /\ e.kind \in Stored /\ e.kind # "Completed"
        BY <2>1, <2>2, <2>8 DEF handle_event, Leaving, Stored, Final
      <3>2. progress_of(progress, e.file) \in 0 .. Size
        BY <2>5, <3>1, ProgressTyped
      <3> QED
        BY <2>2, <2>4, <2>5, <2>8, <3>1, <3>2, CommitTrue
    <2>9. CASE e.kind \in {"Progress", "Canceled"}
      BY <2>2, <2>9 DEF handle_event, RowsNeverInvented, RowTrue
    <2> QED
      BY <2>2, <2>6, <2>7, <2>8, <2>9 DEF handle_event, Leaving
  <1>16. CASE Dispatch
    BY <1>16 DEF Dispatch, RowsNeverInvented, RowTrue
  <1>17. CASE ApiPurge
    BY <1>17 DEF ApiPurge, RowsNeverInvented, RowTrue
  <1>18. CASE Crash
    BY <1>18 DEF Crash, RowsNeverInvented, RowTrue
  <1>19. CASE Restart
    <2>1. CASE rows' = rows
      BY <1>19, <2>1 DEF Restart, RowsNeverInvented, RowTrue
    <2>2. CASE rows' = [f \in Files |-> <<>>]
      <3>1. \A f \in Files : DOMAIN rows'[f] = {}
        BY <2>2
      <3> QED
        BY <3>1 DEF RowsNeverInvented
    <2> QED
      BY <1>19, <2>1, <2>2 DEF Restart
  <1>20. CASE UNCHANGED vars
    BY <1>20 DEF vars, RowsNeverInvented, RowTrue
  <1> QED
    BY <1>1, <1>2, <1>3, <1>4, <1>5, <1>6, <1>7, <1>8, <1>9, <1>10,
       <1>11, <1>12, <1>13, <1>14, <1>15, <1>16, <1>17, <1>18, <1>19, <1>20
       DEF Next

-----------------------------------------------------------------------------
(* The theorems.                                                           *)

LEMMA InvInit == Init => Inv
  <1> SUFFICES ASSUME Init PROVE Inv
    OBVIOUS
  <1>1. DOMAIN queue = {} /\ DOMAIN progress = {} /\ \A f \in Files : DOMAIN rows[f] = {}
    BY DEF Init
  <1>2. TypeInv
    BY TypeInit
  <1>3. OverInv
    BY <1>1 DEF Init, OverInv
  <1>4. QueueInv
    BY <1>1 DEF Init, QueueInv
  <1>5. WholeInv
    <2>1. \A f \in Files : moved[f] # Size
      BY SizesAssumption DEF Init
    <2> QED
      BY <1>1, <2>1 DEF Init, WholeInv
  <1>6. BytesInv
    BY <1>1 DEF BytesInv, BytesAt
  <1>7. RowsNeverInvented
    BY <1>1 DEF RowsNeverInvented
  <1> QED
    BY <1>2, <1>3, <1>4, <1>5, <1>6, <1>7 DEF Inv

\* The queue of events, the progress StorageDispatch keeps and the rows of the database
\* agree on what was reported of every file, with the gates called in any order, chunks
\* written between the reports, a second verdict, and the process killed anywhere.
THEOREM Inductive == Spec => []Inv
  <1>1. Init => Inv
    BY InvInit
  <1>2. Inv /\ [Next]_vars => Inv'
    BY TypeStep, QueueStep, WholeStep, BytesStep, OverStep, RowsStep DEF Inv
  <1> QED
    BY <1>1, <1>2, PTL DEF Spec

LEMMA RangeTyped ==
  ASSUME NEW T, NEW s \in Seq(T)
  PROVE  Range(s) \subseteq T
  BY DEF Range

LEMMA TypeFacts == TypeInv => TypeOK
  <1> SUFFICES ASSUME TypeInv PROVE TypeOK
    OBVIOUS
  <1>1. \A i \in DOMAIN queue : queue[i] \in Event
    BY SeqDomain DEF TypeInv
  <1>2. \A f \in Files : \A i \in DOMAIN rows[f] : rows[f][i] \in Row
    <2> SUFFICES ASSUME NEW f \in Files PROVE \A i \in DOMAIN rows[f] : rows[f][i] \in Row
      OBVIOUS
    <2>1. rows[f] \in Seq(Row)
      BY DEF TypeInv
    <2> QED
      BY <2>1, SeqDomain
  <1>3. \A f \in Files : Range(told[f]) \subseteq Stored
    <2> SUFFICES ASSUME NEW f \in Files PROVE Range(told[f]) \subseteq Stored
      OBVIOUS
    <2>1. told[f] \in Seq(Stored)
      BY DEF TypeInv
    <2> QED
      BY <2>1, RangeTyped
  <1> QED
    BY <1>1, <1>2, <1>3 DEF TypeInv, TypeOK

\* The variables keep their types.
THEOREM TypeCorrect == Spec => []TypeOK
  <1>1. Inv => TypeOK
    BY TypeFacts DEF Inv
  <1> QED
    BY <1>1, Inductive, PTL

\* A transfer that purge_transfers has marked, or that garbage collection has taken, is
\* over: its gate is closed, also after a restart, and only what was synchronized is
\* collected.
THEOREM PurgedStaysOver == Spec => []PurgedIsOver
  <1>1. Inv => PurgedIsOver
    BY DEF Inv, OverInv, PurgedIsOver
  <1> QED
    BY <1>1, Inductive, PTL

\* Every row StorageDispatch stores of a file that stops says the bytes of the last
\* report that passed the gate before its event, or 0, however many events were queued
\* in between and whatever came after the report; a Completed row is stored only of a
\* file that was across as a whole.
THEOREM RowsAreNotInvented == Spec => []RowsNeverInvented
  <1>1. Inv => RowsNeverInvented
    BY DEF Inv
  <1> QED
    BY <1>1, Inductive, PTL

=============================================================================
