SPECIFICATION Spec
CONSTANTS
    p1 = p1
    p2 = p2
    c1 = c1
    alice = alice
    bob = bob
    Submissions <- ThreeVotes
    VoterOf <- AliceBobAlice
    TimeOf <- ThreeTimes
    Policy = "ONE_PER_INTERVAL"
    ResetInterval = 10
    Offset = 1
    StartAt = 5
    EndAt = 17
    HasKey = TRUE
    Malformed = {}
    Polls <- TwoPolls
    Callers <- OneCaller
    MaxFaults = 1
CONSTRAINT TwoAtOnce
SYMMETRY PollSymmetry
CHECK_DEADLOCK FALSE
INVARIANTS
    OneBallotUnlessMisjudged
    EarlierVoteWins
    RefusalsAreExplained
PROPERTIES
    DecidesInChainOrder
