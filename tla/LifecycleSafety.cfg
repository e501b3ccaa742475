SPECIFICATION Spec
CONSTANTS
    p1 = p1
    p2 = p2
    Elections <- OneElection
    Private <- OnlyFirst
    Keyed <- OnlyFirst
    Managed <- OnlyFirst
    Polls <- TwoPolls
    MaxFaults = 1
    MaxCrashes = 1
    TxMayRevert = TRUE
SYMMETRY PollSymmetry
CONSTRAINT OneMishap
INVARIANTS
    SnapshotNeverAhead
    RowsAheadAreRequested
    RevealedIsPublished
    KeySentOnlyWhenPending
