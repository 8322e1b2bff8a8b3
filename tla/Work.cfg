SPECIFICATION SettingsSpec
SYMMETRY Symmetry
CONSTANTS
  None = None
  Damaged = Damaged
  NoRow = NoRow
  a = a
  b = b
  Items = {x}
  Worktrees = {x}
  Instances = {a, b}
  Identities <- RecordedIdentities
  Confirmed <- FullOrSession
  Commands = {"request", "reclaim", "release", "edit"}
  Tolerance = 0
  StaleAfter = 0
  MaxTime = 1
  MaxRevision = 2
  MaxSession = 2
  MaxBoot = 1
PROPERTIES
  RecordedAgentKeepsItem
  RecordedWorkIsBanked
  ReleasedHasHandoff
  NoWorkDestroyed
  FinishStrandsNoTree
CHECK_DEADLOCK FALSE
