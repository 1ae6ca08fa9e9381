\* Whatever one thing fails; beside the slot whose operations may hang, and the
\* policies with nothing failing.
SPECIFICATION MCSpec
CONSTANTS
  w1 = w1
  w2 = w2
  w3 = w3
  w4 = w4
  Workers <- MCWorkers
  Actions <- MCActions
  NoAction = NoAction
  MaxTakeovers = 3
  d1 = d1
  d2 = d2
  Dogs <- MCDogs
  Gui = Gui
  None = None
  UserActions <- AllActions
  Configs <- BothDials
  Overlap = FALSE
  Faults = {"crash", "link", "foreign", "gateway", "silent", "memory", "config", "launch",
            "binary", "stop", "pac", "dns", "plan", "unlink", "slowclear"}
  MaxFaults = 1
  hkcu = hkcu
  hklm = hklm
  absent = absent
  set = set
  Keys <- MCKeys
  UserKeys <- MCUserKeys
  Theirs <- MCTheirs
  Ours = Ours
  NoBackup = NoBackup
  NoCopy = NoCopy
  ShieldFaults = {}
PROPERTY OpEnds
PROPERTY CrashHeals
INVARIANT SlotIsExact
PROPERTY SlotFreed
PROPERTY PoolSpec
INVARIANT PolicyReturned
PROPERTY Lent
