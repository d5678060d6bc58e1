SPECIFICATION Spec
CONSTANTS
  Account <- MCAccount
  Name = {"team", "renamed"}
  Creator = 1
  InitialMembers = {1, 2}
  InitialName = "team"
  Changes <- MCChanges
  Clock <- MCClock
  MaxUpdates = 3
  MaxWrites = 2
  NoGroup = NoGroup
CHECK_DEADLOCK FALSE
INVARIANT MembersFollowChanges
INVARIANT ChangeSupersedes
INVARIANT MergeConverges
