SPECIFICATION TrafficSpec
CONSTANTS
  site = site
  other = other
  inner = inner
  near = near
  app = app
  Sites <- MCSites
  Apps <- MCApps
  Names <- MCNames
  Nets <- MCNets
  Lists <- MCLists
  Vacant = Vacant
INVARIANTS
  ServerIsReached
  ListsHold
