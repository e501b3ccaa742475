----------------------------- MODULE MC_Registration -----------------------------
EXTENDS Registration, TLC

CONSTANTS p1, p2, r1, r2, draftA, draftB, draftC, seriesX, seriesY, upper, lower

TwoPolls == {p1, p2}
TwoRequests == {r1, r2}
TwoSpellings == {upper, lower}
Symmetry == Permutations(TwoPolls) \cup Permutations(TwoRequests) \cup Permutations(TwoSpellings)

ThreeDrafts == {draftA, draftB, draftC}
TwoSeries == {seriesX, seriesY}

\* A private election joins the series of one without a draft, another one the series of
\* a private election; and the last contract commits to a key that was used before.
FiveContracts == 1..5
TheirDrafts == <<NoDraft, draftA, draftB, draftC, draftA>>
TheirSeries == <<seriesX, seriesX, seriesY, seriesY, seriesY>>
=============================================================================
