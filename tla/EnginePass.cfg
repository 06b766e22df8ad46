\* A two-leg grid, two failures.
CONSTANTS
    Legs = 2
    Configs = {c1}
    AutoRestart = {}
    Requests = {r1}
    Attempts = 2
    RefreshCascades = TRUE
    NoConfig = nocfg
    MaxVersion = 1
    MaxAccept = 3
    MaxFaults = 2
    MaxRestarts = 0
SPECIFICATION Spec
INVARIANT TypeOK
INVARIANT NoPhantomOrder
INVARIANT DuplicatesAccounted
CHECK_DEADLOCK FALSE
