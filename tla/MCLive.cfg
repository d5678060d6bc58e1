SPECIFICATION FairSpec
CONSTANTS
  c1 = c1
  Conn = {c1}
  MaxEnvelopes = 2
  MaxQueuedPerRecipient = 2
  MaxEnvelopesPerFetch = 1
  SweepBatchSize = 1
  PoolConns = 2
  HubSendBuffer = 1
  MaxDrainPages = 2
  MaxRemembered = 2
  Faults = {"fetch", "throw", "ack", "crash", "server"}
  MaxFaults = 1
  UnboundedDrops = TRUE
PROPERTIES
  PassEnds
  HandledWhenUp
  HandledByReconnecting
CHECK_DEADLOCK FALSE
