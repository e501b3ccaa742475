SPECIFICATION FairSpec
CONSTANTS
    p1 = p1
    p2 = p2
    e1 = e1
    e2 = e2
    v1 = v1
    v2 = v2
    v3 = v3
    o1 = o1
    ElectionLogs <- OneElection
    PrivateVotes <- TwoVotes
    OpenVotes = {}
    BlockOf <- PrivateBlocks
    ElectionOf <- PrivateElections
    Rejected = {}
    Poison <- FirstVote
    StartBlock = 0
    MaxBlock = 2
    Lookback = 0
    Polls <- OnePoll
    MaxFaults = 0
    MaxCrashes = 0
PROPERTIES
    PoisonIsContained
