SPECIFICATION FairSpec
CONSTANTS
  QID = {q1, q2}
  A = A
  B = B
  Entry = {A, B}
  dA = dA
  dAB = dAB
  dBA = dBA
  dNil = dNil
  Doc = {dA, dAB, dBA, dNil}
  EntriesOf <- MCEntriesOf
  NoDoc = NoDoc
  TrimBatch = 1
  MaxId = 4
  MaxErrors = 1
CHECK_DEADLOCK FALSE
INVARIANTS
  TypeOK
  IndexExact
  EntityCountExact
  ChangelogReplays
PROPERTIES
  BacklogDrains
  TrimRemovesOldPrefix
  ImplementsCrossReference
