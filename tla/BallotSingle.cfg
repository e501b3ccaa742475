SPECIFICATION HistorySpec
CONSTANTS
    p1 = p1
    alice = alice
    Submissions <- ThreeVotes
    VoterOf <- AliceThrice
    TimeOf <- ThreeTimes
    Policy = "ONE_PER_INTERVAL"
    ResetInterval = 10
    Offset = 1
    StartAt = 5
    EndAt = 12
    HasKey = TRUE
    Malformed = {1}
    Polls <- OnePoll
    Callers = {}
    MaxFaults = 2
    OpenVotes <- TwoOpenVotes
    OpenVoterOf <- AliceTwice
    OpenTimeOf <- OpenTimes
    OpenBlockOf <- OpenBlocks
    BlockOf <- ThreeBlocks
    Voter = alice
    Limits = {0, 1, 2}
    DefaultPageSize = 2
    MaxPageSize = 2
INVARIANTS
    TypeOK
    LiveTallySettles
    PagesGoBack
    WalkShowsEveryVote
