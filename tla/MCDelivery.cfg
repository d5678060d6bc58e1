SPECIFICATION Spec
CONSTANTS
  c1 = c1
  c2 = c2
  Conn = {c1, c2}
  MaxEnvelopes = 2
  MaxQueuedPerRecipient = 2
  MaxEnvelopesPerFetch = 1
  SweepBatchSize = 1
  PoolConns = 1
  HubSendBuffer = 1
  MaxDrainPages = 2
  MaxRemembered = 1
  Faults = {"drop", "fetch", "throw", "ack", "crash", "server", "token", "close", "expire", "abort"}
  MaxFaults = 1
  UnboundedDrops = FALSE
SYMMETRY ConnSymmetry
INVARIANTS
  TypeOK
  NothingLost
  TwiceOnlyAfterEviction
  PassAwaitsRunningCall
PROPERTY ImplementsMailbox
CHECK_DEADLOCK FALSE
