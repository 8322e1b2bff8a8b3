SPECIFICATION FairSpec
CONSTANTS
  None = None
  p1 = p1
  p2 = p2
  p3 = p3
  c1 = c1
  c2 = c2
  c3 = c3
  Sups <- TwoSups
  Callers <- TwoCallers
  Commands = {"start", "stop", "stop-loop", "restart-loop", "stop-session", "forget"}
  MaxLaunches = 2
  MaxFailures = 2
  Apart = {{"start"}, {"start", "restart-loop"}}
  MayTimeOut = TRUE
  MayCrash = FALSE
PROPERTIES
  InvocationsReturn
  AgentComesBack
CHECK_DEADLOCK FALSE
