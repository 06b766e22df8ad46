\* Two requests, single or batch, on three bots, under fairness.
CONSTANTS
    Bots = {1,2,3}
    Requests = {r1,r2}
    ReloadCascades = TRUE
    MaxFaults = 1
SPECIFICATION FairSpec
INVARIANT TypeOK
INVARIANT ReportTrue
INVARIANT DeletedNotActive
PROPERTY RequestsEnd
