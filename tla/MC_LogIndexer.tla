------------------------------ MODULE MC_LogIndexer ------------------------------
EXTENDS LogIndexer, TLC

CONSTANTS p1, p2, e1, e2, v1, v2, v3, o1

OnePoll == {p1}
TwoPolls == {p1, p2}
PollSymmetry == Permutations(TwoPolls)

\* A private election with two votes, one in the block of its creation.
OneElection == {e1}
TwoVotes == {v1, v2}
FirstVote == {v1}
PrivateBlocks == (e1 :> 1) @@ (v1 :> 1) @@ (v2 :> 2)
PrivateElections == [v \in TwoVotes |-> e1]

\* A private election, and an open one created later; v2 is rejected, v3 poison.
TwoElections == {e1, e2}
ThreeVotes == {v1, v2, v3}
OneOpenVote == {o1}
RejectedVote == {v2}
PoisonVote == {v3}
MixedBlocks == (e1 :> 1) @@ (v1 :> 1) @@ (e2 :> 2) @@ (o1 :> 2) @@ (v2 :> 2) @@ (v3 :> 3)
MixedElections == (v1 :> e1) @@ (v2 :> e1) @@ (v3 :> e1) @@ (o1 :> e2)
=============================================================================
