SPECIFICATION Spec
CONSTANTS
    p1 = p1
    p2 = p2
    c1 = c1
    alice = alice
    bob = bob
    Submissions <- TwoVotes
    VoterOf <- AliceOnly
    TimeOf <- TwoTimes
    Policy = "ONE_PER_ELECTION"
    ResetInterval = 10
    Offset = 1
    StartAt = 5
    EndAt = 17
    HasKey = TRUE
    Malformed = {}
    Polls <- TwoPolls
    Callers = {}
    MaxFaults = 1
CHECK_DEADLOCK FALSE
INVARIANTS
    OneValidBallotPerPeriod
