SPECIFICATION Spec
CONSTANTS
  None = None
  Projects = {p1, p2}
  MaxTexts = 2
  MaxOwn = 1
  MaxFaults = 2
INVARIANT ListIsCurrent
CHECK_DEADLOCK FALSE
