-------------------------- MODULE DurableTransfer --------------------------
(***************************************************************************)
(* What one side of libdrop promises about a transfer, to its application  *)
(* and to the peer, across any number of connections and restarts: it is   *)
(* offered once, a file that is settled stays settled, a download that was *)
(* asked for stays asked for until its file is settled, a cancelation is   *)
(* not taken back, and the transfer ends once.  There is no crash here: a  *)
(* crash and the restart after it have to look like one of these steps, or *)
(* like nothing at all.                                                    *)
(***************************************************************************)
CONSTANT Files

VARIABLES life,     \* "none", "open", "canceled", "over"
          settled,  \* files with a verdict
          wanted    \* files the application asked to download

vars == <<life, settled, wanted>>

Init == life = "none" /\ settled = {} /\ wanted = {}

Offer ==
  /\ life = "none"
  /\ life' = "open"
  /\ UNCHANGED <<settled, wanted>>

Want(f) ==
  /\ life = "open"
  /\ f \notin settled
  /\ wanted' = wanted \cup {f}
  /\ UNCHANGED <<life, settled>>

\* Several at once: a restart may make more than one verdict definitive.
Settle(S) ==
  /\ life \in {"open", "canceled"}
  /\ settled' = settled \cup S
  /\ wanted' = wanted \ S
  /\ UNCHANGED life

Cancel ==
  /\ life = "open"
  /\ life' = "canceled"
  /\ wanted' = {}
  /\ UNCHANGED settled

End ==
  /\ life \in {"open", "canceled"}
  /\ life' = "over"
  /\ settled' = {}
  /\ wanted' = {}

\* The transfer was purged: its identifier may be used again.
Forget ==
  /\ life = "over"
  /\ life' = "none"
  /\ UNCHANGED <<settled, wanted>>

Next ==
  \/ Offer \/ Cancel \/ End \/ Forget
  \/ \E f \in Files : Want(f)
  \/ \E S \in SUBSET Files : Settle(S)

Spec == Init /\ [][Next]_vars
=============================================================================
