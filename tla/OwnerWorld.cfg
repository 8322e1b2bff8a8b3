SPECIFICATION PartsSpec
SYMMETRY Symmetry
CONSTANTS
  None = None
  Damaged = Damaged
  Tolerance = 1
  StaleAfter = 1
  Pids = {i1, i2}
  MaxTime = 3
  MaxBoots = 2
  MaxNudge = 1
  MaxStarts = 3
  Checkouts = {c1, c2}
  MaxCommits = 3
  Projects = {p1, p2}
  MaxTexts = 2
  MaxOwn = 1
  MaxFaults = 2
  Tabs = {t1, t2}
  Commands = {u1, u2}
  Users = {u3, u4}
  Slugs = {1, 2}
  MaxId = 2
  MaxFiles = 2
INVARIANTS
  DeadOnlyIfGone
  GoneIsFound
  PrunedHasEnded
  VerdictIsItsOwn
  WatermarkIsCovered
  NeverInNone
  TabsSurvive
  ClosedWasWorkable
CHECK_DEADLOCK FALSE
