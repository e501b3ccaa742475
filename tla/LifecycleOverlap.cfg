SPECIFICATION FairSpec
CONSTANTS
    p1 = p1
    p2 = p2
    Elections <- OneElection
    Private = {}
    Keyed = {}
    Managed = {}
    Polls <- TwoPolls
    MaxFaults = 1
    MaxCrashes = 0
    TxMayRevert = TRUE
PROPERTIES
    SnapshotConverges
