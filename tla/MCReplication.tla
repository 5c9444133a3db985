------------------------- MODULE MCReplication --------------------------
(* Replication for TLC. *)
EXTENDS Replication, TLC

Symmetry == Permutations(QID) \cup Permutations(Name)
=========================================================================
