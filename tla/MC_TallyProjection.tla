--------------------------- MODULE MC_TallyProjection ---------------------------
EXTENDS TallyProjection, TLC

CONSTANTS p1, p2, election

TwoPolls == {p1, p2}
PollSymmetry == Permutations(TwoPolls)

\* Two votes of one election in two blocks; Init makes it a private or an open one.
OneElection == {election}
TwoVotes == 1..2
BothOfIt == <<election, election>>
TwoBlocks == <<1, 2>>

\* Of two actors one at most is a request.  The first vote is valid until another verdict
\* replaces that, the second is not.  An election that TalliesSettle excepts goes on among
\* polls that replace no verdict.  A state with more is checked and not followed.
Followed ==
    LET requests == {p \in TwoPolls : stage[p] = "request"} IN
    /\ Cardinality(requests) <= 1
    /\ ballots[1] = "invalid" => 1 \in redecided
    /\ ballots[2] # "valid"
    /\ overlapped \cup abandoned # {} => redecided = {} /\ requests = {}
=============================================================================
