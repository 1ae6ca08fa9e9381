SPECIFICATION Spec
CONSTANTS
  Threads = {a, b}
  Servers = {s1, s2}
  Keys = {k1, k2}
  Options = {o1, o2}
  No = No
  MaxEdits = 2
  Versions <- MCVersions
  PinAt <- MCPinAt
  MaxFaults = 3
  MaxListed = 3
  Nothing = Nothing
  Names = {pc, phone, laptop}
  Pc = pc
  MaxHost = 4
  MaxKeys = 4
  Void = Void

INVARIANTS
  KeysSurvive
  CacheIsTrue
  StartsPinned
  OfferIsNewest
  AddressesApart
PROPERTIES
  NobodyIsCutOff
\* A server whose clients are all made and whose keys are used up has no
\* further command in the model.
CHECK_DEADLOCK FALSE
