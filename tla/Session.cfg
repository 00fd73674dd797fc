\* One account, a second number, three requests, three overlays, and an expired or fresh session at first.
CONSTANTS
  Phone = {"p1", "p2"}
  Registered <- OneAccount
  MaxSent = 3
  MaxDialogs = 3
SPECIFICATION Spec
CHECK_DEADLOCK FALSE
INVARIANTS SessionFollowsLogin OnlyProvenUsers AccountsAreUnique NoDeadButton
