------------------------- MODULE CrossReference -------------------------
(***************************************************************************)
(* What the store promises its readers: a map from Wikidata items to the   *)
(* set of external identifiers ("P345:tt0111161") they carry, and, for     *)
(* every identifier, exactly the items that carry it.  There is no index   *)
(* here: lookup is the inverse of xref, recomputed at every step.          *)
(***************************************************************************)
CONSTANTS
  QID,     \* Wikidata items
  Entry    \* external identifiers, "P<property>:<value>"

VARIABLES
  xref,    \* xref[q]: the identifiers of item q
  lookup   \* lookup[e]: the items that carry identifier e

vars == <<xref, lookup>>

\* The items that m maps to e.
Carriers(m, e) == {q \in QID : e \in m[q]}

Init == /\ xref = [q \in QID |-> {}]
        /\ lookup = [e \in Entry |-> {}]

\* One item's identifiers are replaced (or removed: E = {}).
Replace(q, E) == /\ xref' = [xref EXCEPT ![q] = E]
                 /\ lookup' = [e \in Entry |-> Carriers(xref', e)]

\* The database is flushed.
Clear == /\ xref' = [q \in QID |-> {}]
         /\ lookup' = [e \in Entry |-> {}]

Next == \/ \E q \in QID, E \in SUBSET Entry : Replace(q, E)
        \/ Clear

Spec == Init /\ [][Next]_vars
=========================================================================
