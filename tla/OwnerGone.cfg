SPECIFICATION ClaimsSpec
SYMMETRY Symmetry
CONSTANTS
  None = None
  Damaged = Damaged
  NoRow = NoRow
  a = a
  b = b
  Items = {x}
  Worktrees = {x}
  Instances = {a, b}
  Identities <- RecordedIdentities
  Confirmed <- Full
  Commands = {"request", "reclaim"}
  Tolerance = 0
  StaleAfter = 0
  MaxTime = 1
  MaxRevision = 2
  MaxSession = 2
  MaxBoot = 0
PROPERTIES
  ReclaimedOwnerIsGone
CHECK_DEADLOCK FALSE
