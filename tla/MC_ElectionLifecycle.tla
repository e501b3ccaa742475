--------------------------- MODULE MC_ElectionLifecycle ---------------------------
EXTENDS ElectionLifecycle, TLC

CONSTANTS p1, p2

OneElection == {1}
TwoElections == {1, 2}
OnlyFirst == {1}
OnePoll == {p1}
TwoPolls == {p1, p2}

\* One mishap per behaviour: a failed call, a reverted transaction or a crash.
OneMishap == faults + crashes <= 1

PollSymmetry == Permutations(TwoPolls)
=============================================================================
