\* A disconnect while a tick that saw a dead link is still under way.
SPECIFICATION Spec
CONSTANTS
  d1 = d1
  d2 = d2
  Dogs <- MCDogs
  Gui = Gui
  None = None
  UserActions <- OnOff
  Configs <- Vless
  Overlap = TRUE
  Faults = {"link"}
  MaxFaults = 1
INVARIANT StaysOff
