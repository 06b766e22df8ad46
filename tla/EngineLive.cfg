\* Liveness and the abstract ledger: one failure, PATCHes, a re-created grid.
CONSTANTS
    Legs = 1
    Configs = {c1}
    AutoRestart = {c1}
    Requests = {r1}
    Attempts = 2
    RefreshCascades = FALSE
    NoConfig = nocfg
    MaxVersion = 2
    MaxAccept = 4
    MaxFaults = 1
    MaxRestarts = 1
SPECIFICATION FairSpec
PROPERTY Quiesces
PROPERTY ActiveIsServed
PROPERTY Converges
PROPERTY CommittedPassKnowsOpenOrders
PROPERTY FollowsLedger
CHECK_DEADLOCK FALSE
