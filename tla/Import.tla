----------------------------- MODULE Import -----------------------------
(***************************************************************************)
(* What a seed promises: it replaces the contents of the store by those of *)
(* one dump, and dump_time says so only when all of them are there.        *)
(***************************************************************************)
CONSTANT Dumps  \* the contents of the dumps there may be

VARIABLES
  phase,    \* "before", "importing", "complete", "abandoned"
  stored,   \* what the store holds
  dumpTime  \* meta.dump_time is set

vars == <<phase, stored, dumpTime>>

\* A store to seed: without dump_time or of another configuration.
Init == phase = "before" /\ dumpTime \in BOOLEAN

\* The store is emptied, its markers with it.
Begin ==
  /\ phase = "before"
  /\ phase' = "importing"
  /\ stored' = {}
  /\ dumpTime' = FALSE

Add ==
  /\ phase = "importing"
  /\ stored \subseteq stored'
  /\ \E d \in Dumps : stored' \subseteq d
  /\ UNCHANGED <<phase, dumpTime>>

Finish ==
  /\ phase = "importing"
  /\ stored \in Dumps
  /\ phase' = "complete"
  /\ dumpTime' = TRUE
  /\ UNCHANGED stored

\* Given up: before anything was done, emptied, in the middle, or by someone who
\* does not know that it is complete; what is there is no longer touched.
Abandon ==
  /\ phase \in {"before", "importing"}
  /\ phase' = "abandoned"
  /\ \/ UNCHANGED <<stored, dumpTime>>
     \/ phase = "before" /\ stored' = {} /\ dumpTime' = FALSE
     \/ phase = "importing" /\ stored \in Dumps /\ dumpTime' = TRUE /\ UNCHANGED stored

Next == Begin \/ Add \/ Finish \/ Abandon

Spec == Init /\ [][Next]_vars
=========================================================================
