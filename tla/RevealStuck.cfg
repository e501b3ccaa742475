SPECIFICATION FairSpec
CONSTANTS
    p1 = p1
    p2 = p2
    Elections <- OneElection
    Private <- OnlyFirst
    Keyed <- OnlyFirst
    Managed <- OnlyFirst
    Polls <- OnePoll
    MaxFaults = 1
    MaxCrashes = 0
    TxMayRevert = FALSE
PROPERTIES
    KeyGetsPublished
