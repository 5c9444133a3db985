SPECIFICATION Spec
CONSTANTS
  QID = {q1, q2}
  Doc = {d1}
  NoDoc = NoDoc
  Name = {n1, n2, n3, n4}
  NoName = NoName
  FrameSize = 1
  ReadCount = 2
  MaxId = 3
  MaxReseeds = 1
  MaxFaults = 1
  Environments = {{"torn"}, {"trim", "reseed", "skip", "cut"}}
SYMMETRY Symmetry
CHECK_DEADLOCK FALSE
INVARIANTS
  TypeOK
  NoLostChangeUnlessHostile
  ResumeFaithful
  SnapshotFaithful
PROPERTIES
  PurgeOnlyUncovered
  CursorMovesForward
