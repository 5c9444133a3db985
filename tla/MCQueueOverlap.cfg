SPECIFICATION Spec
CONSTANTS
  q1 = q1
  q2 = q2
  q3 = q3
  QID = {q1, q2, q3}
  MaxEdits = 2
  MaxFaults = 0
  Worlds <- Overlapping
CHECK_DEADLOCK FALSE
INVARIANTS
  InFlightRecoverable
