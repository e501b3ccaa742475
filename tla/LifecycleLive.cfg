SPECIFICATION FairSpec
CONSTANTS
    p1 = p1
    p2 = p2
    Elections <- OneElection
    Private <- OnlyFirst
    Keyed <- OnlyFirst
    Managed <- OnlyFirst
    Polls <- OnePoll
    MaxFaults = 0
    MaxCrashes = 1
    TxMayRevert = FALSE
PROPERTIES
    ChainCatchesUp
    KeyGetsPublished
    KeyGetsMarked
INVARIANTS
    TypeOK
