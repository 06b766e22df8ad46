\* Two requests at a time, PATCHes among them, over passes and re-created grids.
CONSTANTS
    Legs = 1
    Configs = {c1,c2}
    AutoRestart = {c1}
    Requests = {r1,r2}
    Attempts = 2
    RefreshCascades = FALSE
    NoConfig = nocfg
    MaxVersion = 2
    MaxAccept = 3
    MaxFaults = 0
    MaxRestarts = 1
SPECIFICATION Spec
INVARIANT PlacedWithCurrentConfig
PROPERTY NeverReactivated
SYMMETRY Overlap
CHECK_DEADLOCK FALSE
