SPECIFICATION Spec
CONSTANTS
  Author = alice
  Reader = bob
  FileSize = 3
  MaxChunkBytes = 2
  MaxMessages = 2
  MaxCalls = 5
  MaxTasks = 2
  Faults = {"request", "lose", "crash"}
  MaxFaults = 1
INVARIANTS
  DeliveredIsTrue
  ReadIsTrue
  NonePendingAtRest
  FilesArriveWhole
  SameAtRest
  
PROPERTIES
  TombstoneStays
CHECK_DEADLOCK FALSE
