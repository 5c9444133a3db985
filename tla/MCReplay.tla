---------------------------- MODULE MCReplay ----------------------------
(* Replay for TLC: a snapshot of three items, each with one identifier. *)
EXTENDS Replay

CONSTANTS q1, q2, q3, A, dA

MCEntriesOf == [d \in Doc |-> {A}]
MCLines == <<[q |-> q1, d |-> dA], [q |-> q2, d |-> dA], [q |-> q3, d |-> dA]>>
=========================================================================
