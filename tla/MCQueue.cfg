SPECIFICATION FairSpec
CONSTANTS
  q1 = q1
  q2 = q2
  q3 = q3
  QID = {q1, q2, q3}
  MaxEdits = 3
  MaxFaults = 2
  Worlds <- Instances
CHECK_DEADLOCK FALSE
INVARIANTS
  TypeOK
  NoLostEdit
  InFlightRecoverable
PROPERTIES
  NothingStranded
  FailuresKept
  CatchesUp
  EveryFailureRetried
