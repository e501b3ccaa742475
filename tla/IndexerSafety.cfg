SPECIFICATION Spec
CONSTANTS
    p1 = p1
    p2 = p2
    e1 = e1
    e2 = e2
    v1 = v1
    v2 = v2
    v3 = v3
    o1 = o1
    ElectionLogs <- TwoElections
    PrivateVotes <- ThreeVotes
    OpenVotes <- OneOpenVote
    BlockOf <- MixedBlocks
    ElectionOf <- MixedElections
    Rejected <- RejectedVote
    Poison <- PoisonVote
    StartBlock = 0
    MaxBlock = 3
    Lookback = 1
    Polls <- TwoPolls
    MaxFaults = 0
    MaxCrashes = 1
SYMMETRY PollSymmetry
INVARIANTS
    TypeOK
    CursorsPassOnlyDoneLogs
