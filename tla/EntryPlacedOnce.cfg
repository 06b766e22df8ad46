\* A rolled-back pass sends the entry again.
CONSTANTS
    Legs = 1
    Configs = {c1}
    AutoRestart = {}
    Requests = {}
    Attempts = 1
    RefreshCascades = FALSE
    NoConfig = nocfg
    MaxVersion = 1
    MaxAccept = 3
    MaxFaults = 2
    MaxRestarts = 0
SPECIFICATION Spec
INVARIANT EntryPlacedOnce
CHECK_DEADLOCK FALSE
