SPECIFICATION FairSpec
CONSTANTS
  Retention = 3
  DumpAge = 5
  Threshold = 2
  MaxTime = 6
  MaxFaults = 2
  Feeds = {"timed", "mixed"}
CHECK_DEADLOCK FALSE
INVARIANTS
  TypeOK
  MarkersTruthful
  ImportComplete
  CursorOfThisSeed
  NoLongHole
  ReaderVersion
PROPERTIES
  CatchesUp
