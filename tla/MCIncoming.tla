---------------------------- MODULE MCIncoming ----------------------------
(* Instances of Incoming for TLC. *)
EXTENDS Incoming, TLC

\* Connections, and files, are interchangeable: no action tells them apart.
ConnSymmetry == Permutations(Conns)
FileSymmetry == Permutations(Files)
=============================================================================
