SPECIFICATION Spec
CONSTANTS
  nothing = nothing
  theirs = theirs
  Users <- MCUsers
  Absent = nothing
  Modes <- MCModes
  Faults = {"crash", "torn", "unwritable"}
INVARIANTS
  Recoverable
  OffGivesBack
  LinkedIsOverridden
