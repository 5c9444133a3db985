SPECIFICATION Spec
CONSTANTS
  QID = {q1, q2}
  Doc = {d1}
  NoDoc = NoDoc
  Name = {n1, n2, n3, n4}
  NoName = NoName
  FrameSize = 1
  ReadCount = 2
  MaxId = 3
  MaxReseeds = 0
  MaxFaults = 0
  Environments = {{"trim"}}
CHECK_DEADLOCK FALSE
INVARIANTS
  NoLostChange
