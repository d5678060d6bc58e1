SPECIFICATION Spec
CONSTANTS
  Device = {alice, bob}
  OneTimeKeys = 1
  MaxSends = 2
  Faults = {"crash"}
  MaxFaults = 1
  MaxTasks = 1
  MaxSkippedKeys = 3
  MaxSkipChains = 2
INVARIANT KeySealsOnce
CHECK_DEADLOCK FALSE
