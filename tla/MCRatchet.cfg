SPECIFICATION Spec
CONSTANTS
  Initiator = alice
  Responder = bob
  MaxInitiated = 6
  MaxAnswered = 3
  MaxSkippedKeys = 3
  MaxSkipChains = 2
INVARIANTS
  ChannelTypeOK
  OpenedOnce
  InAnyOrder
  KeyUsedOnce
CHECK_DEADLOCK FALSE
