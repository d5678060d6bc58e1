SPECIFICATION PushFairSpec
CONSTANTS
  c1 = c1
  Conn = {c1}
  MaxEnvelopes = 3
  MaxQueuedPerRecipient = 1
  MaxEnvelopesPerFetch = 1
  SweepBatchSize = 1
  PoolConns = 2
  HubSendBuffer = 2
INVARIANTS
  NoSilentGap
  ServedIsRegistered
  QueueOvershootBounded
PROPERTIES
  ClosedLeavesHub
  PushedOrClosed
CHECK_DEADLOCK FALSE
