\* Two bots on a symbol: one re-creates its grid, the other may be stopped.
CONSTANTS
    Bots = {b1,b2}
    AutoRestart = {b1}
    Stoppable = {b2}
    NoBot = none
    Legs = 1
    MaxVersion = 2
    MaxAccept = 4
    MaxFaults = 1
SPECIFICATION FairSpec
INVARIANT TypeOK
INVARIANT DuplicatesAccounted
INVARIANT AdoptedOnlyLost
PROPERTY RecordedNotResent
PROPERTY FollowsLedger
PROPERTY RestartCancelsOnlyOthers
PROPERTY FlushEnds
PROPERTY GridsRecorded
CHECK_DEADLOCK FALSE
