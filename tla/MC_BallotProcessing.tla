--------------------------- MODULE MC_BallotProcessing ---------------------------
EXTENDS BallotProcessing, TLC

CONSTANTS p1, p2, c1, alice, bob

TwoPolls == {p1, p2}
OneCaller == {c1}

\* A bound: while two workers are under way no third one is followed further.
TwoAtOnce == Cardinality({w \in Workers : pc[w] # "idle"}) <= 2

PollSymmetry == Permutations(TwoPolls)

\* Two votes of one voter, in one period: with an interval of 10 they are in two
\* without the offset of 1.
TwoVotes == 1..2
AliceOnly == <<alice, alice>>
TwoTimes == <<9, 12>>

\* Another voter's vote between them.
ThreeVotes == 1..3
AliceBobAlice == <<alice, bob, alice>>
ThreeTimes == <<9, 10, 12>>
=============================================================================
