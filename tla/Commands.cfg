SPECIFICATION Spec
SYMMETRY Symmetry
CONSTANTS
  None = None
  p1 = p1
  p2 = p2
  p3 = p3
  c1 = c1
  c2 = c2
  c3 = c3
  Sups <- ThreeSups
  Callers <- ThreeCallers
  Commands = {"start", "stop", "stop-session", "stop-loop", "restart-loop"}
  MaxLaunches = 2
  MaxFailures = 2
  Apart = {{"start"}, {"start", "restart-loop"}, {"stop", "restart-loop"}}
  MayTimeOut = FALSE
  MayCrash = TRUE
INVARIANTS
  OneSupervisor
  NoStrandedDetach
PROPERTIES
  LaunchKillsNoAgent
  CleanStopIsFinal
CHECK_DEADLOCK FALSE
