SPECIFICATION FairSpec
CONSTANTS
  QID = {q1, q2}
  Doc = {d1}
  NoDoc = NoDoc
  Name = {n1, n2, n3}
  NoName = NoName
  FrameSize = 1
  ReadCount = 1
  MaxId = 2
  MaxReseeds = 1
  MaxFaults = 1
  Environments = {{}}
CHECK_DEADLOCK FALSE
INVARIANTS
  ResumePairMatches
PROPERTIES
  Converges
