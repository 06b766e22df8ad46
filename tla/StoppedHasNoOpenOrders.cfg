\* A pass in flight places an order after the cancel.
CONSTANTS
    Legs = 1
    Configs = {c1}
    AutoRestart = {}
    Requests = {r1}
    Attempts = 1
    RefreshCascades = FALSE
    NoConfig = nocfg
    MaxVersion = 2
    MaxAccept = 2
    MaxFaults = 0
    MaxRestarts = 0
SPECIFICATION Spec
INVARIANT StoppedHasNoOpenOrders
CHECK_DEADLOCK FALSE
