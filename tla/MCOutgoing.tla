---------------------------- MODULE MCOutgoing ----------------------------
(* Instances of Outgoing for TLC. *)
EXTENDS Outgoing, TLC

\* Files are interchangeable: no action tells them apart.
FileSymmetry == Permutations(Files)
=============================================================================
