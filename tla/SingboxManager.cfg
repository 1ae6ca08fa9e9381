SPECIFICATION FairSpec
CONSTANTS
  p1 = p1
  p2 = p2
  Pids <- MCPids
  None = None
  Ghost = Ghost
  MaxComing = 1
  Faults = {"user", "ghost", "stuck", "held"}
INVARIANT AloneWhileStarting
INVARIANT LogIsOfThisLaunch
INVARIANT StopIsFinal
PROPERTY ReadyIsOurs
PROPERTY CallsEnd
