SPECIFICATION Spec
CONSTANTS
    p1 = p1
    p2 = p2
    r1 = r1
    r2 = r2
    draftA = draftA
    draftB = draftB
    draftC = draftC
    seriesX = seriesX
    seriesY = seriesY
    upper = upper
    lower = lower
    Drafts <- ThreeDrafts
    SeriesIds <- TwoSeries
    Contracts <- FiveContracts
    DraftOf <- TheirDrafts
    SeriesIdOf <- TheirSeries
    Polls <- TwoPolls
    MaxPollFaults = 1
    Spellings <- TwoSpellings
    Requests <- TwoRequests
    Configured = TRUE
    MaxFaults = 1
SYMMETRY Symmetry
INVARIANTS
    TypeOK
    RowsFitTogether
    RegistryAgrees
PROPERTY
    SeriesIdsArePermanent
