SPECIFICATION Spec
CONSTANTS
  Logs = {l1, l2}
  Basename = base
  Facts = {r1}
  Unstamped = {l2}
  Clock = Clock
  None = None
  Pruned = Pruned
  PruneAge = 1
  MaxSecond = 2
PROPERTIES PrunedIsRecorded
CHECK_DEADLOCK FALSE
