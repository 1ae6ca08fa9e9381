SPECIFICATION Spec
CONSTANTS
  s1 = s1
  s2 = s2
  Servers = {s1, s2}
  Squid = squid
  Gateways = {g1, g2}
  None = None
  Own = {"high"}
  Configs <- MCConfigs
  SlowPins = FALSE
  MaxEvents = 2
INVARIANTS
  CardIsFree
  MetricIsBack
  PinnedAfresh
  ServerRidesTunnel
  NeverDeniesHole
