--------------------------- MODULE StorageProofs ---------------------------
(***************************************************************************)
(* Facts about the database statements, the event gates and the queues     *)
(* that the proofs about both sides of a transfer use.                     *)
(***************************************************************************)
EXTENDS Storage, Events, Integers, Functions, TLAPS

-----------------------------------------------------------------------------
(* The database statements keep the rows well formed.                      *)

LEMMA NoRowsTyped == NoRows \in Rows
  BY DEF NoRows, Rows

LEMMA RowsTyped ==
  ASSUME NEW d \in Rows, NEW f \in Files, NEW v \in Verdicts
  PROVE  /\ insert_transfer(d) \in Rows
         /\ \A s \in SyncState : update_transfer_sync_states(d, s) \in Rows
         /\ transfer_sync_clear(d) \in Rows
         /\ update_file_sync_states(d, f) \in Rows
         /\ start_incoming_file(d, f) \in Rows
         /\ stop_incoming_file(d, f) \in Rows
         /\ insert_path_state(d, f, v) \in Rows
         /\ insert_transfer_cancel_state(d) \in Rows
         /\ purge_transfers(d) \in Rows
         /\ cleanup_garbage_transfers(d) \in Rows
  <1>1. insert_transfer(d) \in Rows
    BY DEF insert_transfer, NoRows, Rows, SyncState
  <1>2. \A s \in SyncState : update_transfer_sync_states(d, s) \in Rows
    BY DEF update_transfer_sync_states, Rows
  <1>3. transfer_sync_clear(d) \in Rows
    BY DEF transfer_sync_clear, Rows
  <1>4. update_file_sync_states(d, f) \in Rows
    BY DEF update_file_sync_states, Rows
  <1>5. start_incoming_file(d, f) \in Rows
    BY DEF start_incoming_file, Rows
  <1>6. stop_incoming_file(d, f) \in Rows
    BY DEF stop_incoming_file, Rows
  <1>7. insert_path_state(d, f, v) \in Rows
    BY DEF insert_path_state, Rows
  <1>8. insert_transfer_cancel_state(d) \in Rows
    BY DEF insert_transfer_cancel_state, Rows
  <1>9. purge_transfers(d) \in Rows
    BY DEF purge_transfers, Rows
  <1>10. cleanup_garbage_transfers(d) \in Rows
    BY NoRowsTyped DEF cleanup_garbage_transfers
  <1> QED
    BY <1>1, <1>2, <1>3, <1>4, <1>5, <1>6, <1>7, <1>8, <1>9, <1>10

\* The statements that concern the whole transfer, where there may be no file.
LEMMA TransferRowsTyped ==
  ASSUME NEW d \in Rows
  PROVE  /\ insert_transfer(d) \in Rows
         /\ \A s \in SyncState : update_transfer_sync_states(d, s) \in Rows
         /\ transfer_sync_clear(d) \in Rows
         /\ insert_transfer_cancel_state(d) \in Rows
         /\ purge_transfers(d) \in Rows
         /\ cleanup_garbage_transfers(d) \in Rows
  <1>1. insert_transfer(d) \in Rows
    BY DEF insert_transfer, NoRows, Rows, SyncState
  <1>2. \A s \in SyncState : update_transfer_sync_states(d, s) \in Rows
    BY DEF update_transfer_sync_states, Rows
  <1>3. transfer_sync_clear(d) \in Rows
    BY DEF transfer_sync_clear, Rows
  <1>4. insert_transfer_cancel_state(d) \in Rows
    BY DEF insert_transfer_cancel_state, Rows
  <1>5. purge_transfers(d) \in Rows
    BY DEF purge_transfers, Rows
  <1>6. cleanup_garbage_transfers(d) \in Rows
    BY NoRowsTyped DEF cleanup_garbage_transfers
  <1> QED
    BY <1>1, <1>2, <1>3, <1>4, <1>5, <1>6

-----------------------------------------------------------------------------
(* What each statement does to the rows that a restart reads.              *)

LEMMA HistKept ==
  ASSUME NEW d \in Rows, NEW f \in Files
  PROVE  /\ \A s \in SyncState : update_transfer_sync_states(d, s).hist = d.hist
         /\ transfer_sync_clear(d).hist = d.hist
         /\ update_file_sync_states(d, f).hist = d.hist
         /\ start_incoming_file(d, f).hist = d.hist
         /\ stop_incoming_file(d, f).hist = d.hist
         /\ insert_transfer_cancel_state(d).hist = d.hist
         /\ purge_transfers(d).hist = d.hist
  BY DEF update_transfer_sync_states, transfer_sync_clear, update_file_sync_states,
     start_incoming_file, stop_incoming_file, insert_transfer_cancel_state, purge_transfers, Rows

-----------------------------------------------------------------------------
(* What the rows alone say of the life of a transfer and of its files, as  *)
(* a restart would see it, and how each statement changes that.            *)

LifeOf(d) == CASE d.sync = "Canceled" -> "canceled"
               [] d.sync = "None"     -> IF d.row THEN "over" ELSE "none"
               [] OTHER               -> "open"

SettledOf(d) == IF d.sync = "None" THEN {} ELSE {f \in Files : IsRestoredTerminal(d, f)}

\* The steps of a durable transfer, seen in the rows.
RowStep(d, e) ==
  \/ LifeOf(e) = LifeOf(d) /\ SettledOf(e) = SettledOf(d)
  \/ LifeOf(d) = "none" /\ LifeOf(e) = "open" /\ SettledOf(e) = SettledOf(d)
  \/ LifeOf(d) = "open" /\ LifeOf(e) = "canceled" /\ SettledOf(e) = SettledOf(d)
  \/ LifeOf(d) \in {"open", "canceled"} /\ LifeOf(e) = "over" /\ SettledOf(e) = {}
  \/ LifeOf(d) = "over" /\ LifeOf(e) = "none" /\ SettledOf(e) = SettledOf(d)
  \/ /\ LifeOf(d) \in {"open", "canceled"}
     /\ LifeOf(e) = LifeOf(d)
     /\ \E S \in SUBSET Files : SettledOf(e) = SettledOf(d) \cup S

LEMMA TransferSteps ==
  ASSUME NEW d \in Rows, d.sync # "None" => d.row
  PROVE  /\ ~d.row => RowStep(d, insert_transfer(d))
         /\ d.sync = "New" => RowStep(d, update_transfer_sync_states(d, "Active"))
         /\ RowStep(d, update_transfer_sync_states(d, "Canceled"))
         /\ d.sync # "None" => RowStep(d, transfer_sync_clear(d))
         /\ RowStep(d, insert_transfer_cancel_state(d))
         /\ RowStep(d, purge_transfers(d))
         /\ RowStep(d, cleanup_garbage_transfers(d))
  <1> USE DEF Rows, SyncState, LifeOf
  <1>1. ~d.row => RowStep(d, insert_transfer(d))
    BY DEF insert_transfer, NoRows, RowStep, SettledOf, IsRestoredTerminal
  <1>2. d.sync = "New" => RowStep(d, update_transfer_sync_states(d, "Active"))
    BY DEF update_transfer_sync_states, RowStep, SettledOf, IsRestoredTerminal
  <1>3. RowStep(d, update_transfer_sync_states(d, "Canceled"))
    BY DEF update_transfer_sync_states, RowStep, SettledOf, IsRestoredTerminal
  <1>4. d.sync # "None" => RowStep(d, transfer_sync_clear(d))
    BY DEF transfer_sync_clear, RowStep, SettledOf
  <1>5. RowStep(d, insert_transfer_cancel_state(d))
    BY DEF insert_transfer_cancel_state, RowStep, SettledOf, IsRestoredTerminal
  <1>6. RowStep(d, purge_transfers(d))
    BY DEF purge_transfers, RowStep, SettledOf, IsRestoredTerminal
  <1>7. RowStep(d, cleanup_garbage_transfers(d))
    BY DEF cleanup_garbage_transfers, NoRows, RowStep, SettledOf
  <1> QED
    BY <1>1, <1>2, <1>3, <1>4, <1>5, <1>6, <1>7

LEMMA FileSteps ==
  ASSUME NEW d \in Rows, d.sync # "None" => d.row, NEW f \in Files
  PROVE  /\ d.sync # "None" => RowStep(d, update_file_sync_states(d, f))
         /\ \A v \in Verdicts : RowStep(d, insert_path_state(d, f, v))
  <1> USE DEF Rows, SyncState, LifeOf, RowStep, SettledOf, IsRestoredTerminal
  <1>1. d.sync # "None" => RowStep(d, update_file_sync_states(d, f))
    BY ZenonT(60) DEF update_file_sync_states
  <1>2. ASSUME NEW v \in Verdicts PROVE RowStep(d, insert_path_state(d, f, v))
    BY DEF insert_path_state
  <1> QED
    BY <1>1, <1>2

-----------------------------------------------------------------------------
(* The gates.                                                              *)

LEMMA GatesTyped ==
  ASSUME NEW s
  PROVE  /\ preflight(s) \in FileState
         /\ stop(s) \in FileState
         /\ terminate(s) \in FileState
         /\ s \in FileState => start(s) \in FileState
         /\ s \in FileState => throttled(s) \in FileState
         /\ finish(s) \in TransferState
         /\ \A b \in BOOLEAN : transfer_gate(b) \in TransferState
  BY DEF preflight, stop, terminate, start, throttled, finish, transfer_gate, FileState,
     TransferState

-----------------------------------------------------------------------------
(* What the operations on the queues do to the set of their elements.      *)

LEMMA AppendRange ==
  ASSUME NEW T, NEW s \in Seq(T), NEW x \in T
  PROVE  Range(Append(s, x)) = Range(s) \cup {x}
  <1> DEFINE a == Append(s, x)
  <1>1. /\ Len(s) \in Nat
        /\ DOMAIN s = 1 .. Len(s)
        /\ DOMAIN a = 1 .. Len(s) + 1
        /\ \A i \in 1 .. Len(s) : a[i] = s[i]
        /\ a[Len(s) + 1] = x
    OBVIOUS
  <1> HIDE DEF a
  <1>2. \A y \in Range(a) : y \in Range(s) \cup {x}
    BY <1>1 DEF Range
  <1>3. \A y \in Range(s) \cup {x} : y \in Range(a)
    BY <1>1 DEF Range
  <1>4. Range(a) = Range(s) \cup {x}
    BY <1>2, <1>3
  <1> QED
    BY <1>4 DEF a

LEMMA SeqDomain ==
  \A T : \A s \in Seq(T) : Len(s) \in Nat /\ DOMAIN s = 1 .. Len(s)
  OBVIOUS

LEMMA SingleSeq == \A x : Len(<<x>>) = 1 /\ <<x>>[1] = x
  OBVIOUS

LEMMA ShortSeq ==
  ASSUME NEW s, s = <<>> \/ \E x : s = <<x>>
  PROVE  Len(s) <= 1
  <1>1. CASE s = <<>>
    BY <1>1
  <1>2. CASE \E x : s = <<x>>
    BY <1>2
  <1> QED
    BY <1>1, <1>2

LEMMA AppendElements ==
  ASSUME NEW T, NEW s \in Seq(T), NEW x \in T
  PROVE  /\ Len(s) \in Nat /\ DOMAIN s = 1 .. Len(s)
         /\ \A i \in DOMAIN s : i \in DOMAIN Append(s, x) /\ Append(s, x)[i] = s[i]
         /\ \A i \in DOMAIN Append(s, x) :
              i \in DOMAIN s \/ (i = Len(s) + 1 /\ Append(s, x)[i] = x)
  OBVIOUS

LEMMA TailElements ==
  ASSUME NEW T, NEW s \in Seq(T), s # <<>>
  PROVE  /\ Len(s) \in Nat \ {0} /\ DOMAIN s = 1 .. Len(s)
         /\ Head(s) = s[1]
         /\ Tail(s) \in Seq(T)
         /\ \A i \in DOMAIN Tail(s) : i \in Nat \ {0} /\ i + 1 \in DOMAIN s /\ Tail(s)[i] = s[i + 1]
         /\ \A i \in DOMAIN s : i = 1 \/ (i - 1 \in DOMAIN Tail(s) /\ Tail(s)[i - 1] = s[i])
  OBVIOUS

LEMMA TailRange ==
  ASSUME NEW T, NEW s \in Seq(T), s # <<>>
  PROVE  Range(Tail(s)) \subseteq Range(s) /\ Head(s) \in Range(s)
  BY DEF Range

LEMMA EmptyRange == Range(<<>>) = {}
  BY DEF Range

LEMMA SingleRange == \A x : Range(<<x>>) = {x}
  BY DEF Range
=============================================================================
