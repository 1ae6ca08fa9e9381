\* A reconnect of the watchdog whose launch fails.
SPECIFICATION FairSpec
CONSTANTS
  d1 = d1
  d2 = d2
  Dogs <- MCDogs
  Gui = Gui
  None = None
  UserActions <- OnOff
  Configs <- Vless
  Overlap = FALSE
  Faults = {"crash", "launch"}
  MaxFaults = 2
PROPERTY RetriesUntilUp
