\* Either dial; ticks end before the user acts; two things fail.
SPECIFICATION Spec
CONSTANTS
  d1 = d1
  d2 = d2
  Dogs <- MCDogs
  Gui = Gui
  None = None
  UserActions <- AllActions
  Configs <- BothDials
  Overlap = FALSE
  Faults = {"crash", "link", "foreign", "launch", "binary", "stop", "pac", "dns", "config"}
  MaxFaults = 2
INVARIANT OffRestores
INVARIANT FailClosedIsSealed
INVARIANT HandshakeIsFree
