SPECIFICATION Spec
CONSTANTS
  Device = {alice, bob}
  OneTimeKeys = 1
  MaxSends = 2
  Faults = {}
  MaxFaults = 0
  MaxTasks = 2
  MaxSkippedKeys = 3
  MaxSkipChains = 2
INVARIANTS
  NotWedged
CHECK_DEADLOCK FALSE
