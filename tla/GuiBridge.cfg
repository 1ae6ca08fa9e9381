\* Two buttons, or one and a fault, or two faults.
SPECIFICATION FairSpec
CONSTANTS
  Quitter = Quitter
  Dog = Dog
  None = None
  Budget = 2
  Faults = {"crash", "error", "config", "late"}
INVARIANT InstallerFindsItDown
INVARIANT QuitLeavesItOff
PROPERTY ConnectIsAwaited
PROPERTY BusyEnds
PROPERTY ShowsTheClient
CHECK_DEADLOCK FALSE
