SPECIFICATION Spec
CONSTANTS
  q1 = q1
  q2 = q2
  q3 = q3
  A = A
  dA = dA
  QID = {q1, q2, q3}
  Entry = {A}
  Doc = {dA}
  EntriesOf <- MCEntriesOf
  NoDoc = NoDoc
  Cut = Cut
  Lines <- MCLines
  FrameSize = 2
  MaxCuts = 1
CHECK_DEADLOCK FALSE
INVARIANTS
  IndexedWhenApplied
