\* A dead exit, and a server that falls silent or a config.json that cannot be
\* read while the underlay is being closed.
SPECIFICATION Spec
CONSTANTS
  d1 = d1
  d2 = d2
  Dogs <- MCDogs
  Gui = Gui
  None = None
  UserActions <- OnOff
  Configs <- Vless
  Overlap = FALSE
  Faults = {"crash", "silent", "config"}
  MaxFaults = 2
INVARIANT DeadExitSeals
