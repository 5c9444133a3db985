SPECIFICATION FairSpec
CONSTANTS
  e1 = e1
  e2 = e2
  File = {e1, e2}
  Size <- MCSize
  Kind <- MCKind
  MaxRetries = 2
  ChunkCap = 1
  EntityCap = 1
  BatchSize = 2
  WriteAttempts = 2
  Environments = {"steady", "hostile"}
CHECK_DEADLOCK FALSE
INVARIANTS
  SeedTypeOK
  PrefixOfOneFile
PROPERTIES
  ImplementsImport
  SeedSucceeds
  AllEnd
