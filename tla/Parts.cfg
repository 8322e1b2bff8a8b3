SPECIFICATION PartsSpec
SYMMETRY Symmetry
CONSTANTS
  None = None
  MaxTime = 1
  NoRow = NoRow
  Items = {x, y}
  Instances = {a, b}
  Worktrees = {w}
  Identities = {p, q}
  MaxRevision = 1
  Logs = {l1, l2}
  Basename = base
  Facts = {r1}
  Unstamped = {l2}
  Clock = Clock
  Pruned = Pruned
  PruneAge = 1
  MaxSecond = 1
  MaxTurns = 2
  MaxDays = 2
  MaxVersion = 2
  MaxEdits = 2
  MaxMishaps = 2
  Recipients = {u1, u2}
  Numbered = {u1}
  Reports = {r1, r2}
INVARIANTS
  SkipLosesOneSecond
  FiledOnce
  PeersKeptApart
  EditsNeedAnAnswer
  NeverNeither
PROPERTIES
  HandoverNeedsTheRowRead
  ImplementsOwnership
  HistoryKept
CHECK_DEADLOCK FALSE
