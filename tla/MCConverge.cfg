SPECIFICATION Spec
CONSTANTS
  Account <- MCAccount
  Name = {"team", "renamed"}
  Creator = 1
  InitialMembers = {1, 2, 3}
  InitialName = "team"
  Changes <- MCChanges
  Clock <- SameClock
  MaxUpdates = 3
  MaxWrites = 2
  NoGroup = NoGroup
CHECK_DEADLOCK FALSE
INVARIANT MembersConverge
