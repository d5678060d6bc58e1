\* Two keys, topped up when one is left; three peers; two faults of any kind.
CONSTANTS
  Peer = {1, 2, 3}
  MaxStoredPrekeysPerAccount = 3
  PREKEY_TARGET = 2
  PREKEY_LOW_WATER = 1
  Faults = {"upload", "crash", "abandon", "abort"}
  MaxFaults = 2
SPECIFICATION Spec
INVARIANTS
  PrekeysTypeOK
  HandedOutOnce
  SecretUsedOnce
  PublishedKeysHeld
PROPERTY
  RefilledUnlessFault
\* Every peer may have started its session.
CHECK_DEADLOCK FALSE
