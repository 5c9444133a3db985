---------------------------- MODULE MCQueue -----------------------------
(* Queue for TLC. *)
EXTENDS Queue

CONSTANTS q1, q2, q3

\* Single claims with an item that never parses, twice disturbed; batches of
\* two with such an item; batches of two, any of which may be written.
Instances ==
  {[items |-> {q1, q2}, poison |-> {q1}, batch |-> 1, faults |-> 2, hazards |-> {}],
   [items |-> QID, poison |-> {q1}, batch |-> 2, faults |-> 1, hazards |-> {}],
   [items |-> QID, poison |-> {}, batch |-> 2, faults |-> 1, hazards |-> {}]}

\* Two calls in flight hold one item.
Overlapping ==
  {[items |-> {q1, q2}, poison |-> {}, batch |-> 1, faults |-> 0, hazards |-> {"overlap"}]}
=========================================================================
