SPECIFICATION PartsSpec
CONSTANTS
  None = None
  NoId = NoId
  BadId = BadId
  Junk = Junk
  Foreign = Foreign
  Names = {1, 2}
  Readers = {r1, r2}
  Loops = {r2}
  MaxSessions = 4
  MaxFaults = 3
  MaxMishaps = 1
  MaxFailures = 2
  MaxNochange = 2
  MaxUnaccounted = 3
  MaxWork = 2
  MaxSwaps = 2
INVARIANTS
  QueuedIsDelivered
  StopsNoHealthyLoop
  CodeIsOwn
  OutlivedIsObserved
PROPERTIES
  ShownIsArchived
  StalledLoopStops
CHECK_DEADLOCK FALSE
