---------------------------- MODULE MCStore -----------------------------
(* Store for TLC: two items, two identifiers, and four documents, among    *)
(* them two with the same identifiers in another order and one with none.  *)
EXTENDS Store, TLC

CONSTANTS A, B, dA, dAB, dBA, dNil

MCEntriesOf == [d \in Doc |-> CASE d = dA -> {A} [] d \in {dAB, dBA} -> {A, B} [] d = dNil -> {}]

Items == Permutations(QID)
=========================================================================
