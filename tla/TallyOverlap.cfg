SPECIFICATION Spec
CONSTANTS
    p1 = p1
    p2 = p2
    election = election
    Elections <- OneElection
    Votes <- TwoVotes
    ElectionOf <- BothOfIt
    BlockOf <- TwoBlocks
    Reindexed <- OneElection
    Polls <- TwoPolls
    LastBlock = 2
    MaxFaults = 1
SYMMETRY PollSymmetry
CONSTRAINT Followed
INVARIANTS
    TypeOK
    TalliesSettle
    FinalTallyKeepsDecidedVotes
