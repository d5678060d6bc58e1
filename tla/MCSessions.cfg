SPECIFICATION Spec
CONSTANTS
  Device = {alice, bob}
  OneTimeKeys = 1
  MaxSends = 3
  Faults = {"crash", "request", "forget"}
  MaxFaults = 1
  MaxTasks = 2
  MaxSkippedKeys = 3
  MaxSkipChains = 2
INVARIANTS
  KeyOpensOnce
  NothingLostUndisturbed
  AppliedOnce
SYMMETRY Symmetry
CHECK_DEADLOCK FALSE
