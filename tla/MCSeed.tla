----------------------------- MODULE MCSeed -----------------------------
(* Seed for TLC: a dump of six lines, and one that replaces it. *)
EXTENDS Seed

CONSTANTS e1, e2

MCSize == [f \in File |-> IF f = e1 THEN 6 ELSE 2]
MCKind == [l \in [f : File, n : 1..6] |->
             CASE l.f = e1 /\ l.n = 2 -> "skip"
               [] l.f = e2 /\ l.n = 2 -> "huge"
               [] OTHER -> "entity"]
=========================================================================
