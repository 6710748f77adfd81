\* Two questions of a REPL, the first of which may lose its race.
SPECIFICATION FairSpec
CONSTANTS
  Questions = 2
  Branch = {"endpoint", "connectivity"}
  Plan <- MCPlan
  Asked <- HostOrPod
  Hosts = {"windows", "other"}
INVARIANTS QueueInv OneShell DetectionSound ProbesStayHome
PROPERTIES ProbesEnd
CHECK_DEADLOCK FALSE
