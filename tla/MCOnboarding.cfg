SPECIFICATION Spec
CONSTANTS
  Tab = {t1, t2}
  Passphrase = {p, q}
  Address = {"home", "other"}
  AddressOf = "home"
  Cost = 1
  Capacity = 4
  TrustedProxies = 1
  MaxTime = 1
  ChallengeTTL = 1
  MaxCreates = 2
  MaxUnlocks = 2
  Faults = {"request", "reload", "repeat"}
  MaxFaults = 1
SYMMETRY Symmetry
CHECK_DEADLOCK FALSE
INVARIANTS
  IdentityRegistered
  ShownAccountKept
  VaultAtRest
  NonceBuysOneToken
  WindowBounded
