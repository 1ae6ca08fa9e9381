\* Every button at any moment, next to a tick that is under way; one thing fails.
SPECIFICATION Spec
CONSTANTS
  d1 = d1
  d2 = d2
  Dogs <- MCDogs
  Gui = Gui
  None = None
  UserActions <- AllActions
  Configs <- Vless
  Overlap = TRUE
  Faults = {"crash", "link", "gateway", "launch", "plan", "silent", "memory"}
  MaxFaults = 1
INVARIANT UpOwnsDefault
PROPERTY UpIsOpen
PROPERTY DeadExitIsClosed
PROPERTY PhasesSpec
