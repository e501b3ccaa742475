----------------------------- MODULE MC_VoteHistory -----------------------------
EXTENDS VoteHistory

CONSTANTS p1, alice

OnePoll == {p1}

\* Alice votes three times in a private election that ends at her last vote.
ThreeVotes == 1..3
AliceThrice == <<alice, alice, alice>>
ThreeTimes == <<5, 9, 12>>
ThreeBlocks == <<1, 2, 3>>

\* Alice casts two open votes, in the blocks of her first and her third private one:
\* the first gets the same id as the private vote in its block, the other does not.
TwoOpenVotes == 1..2
AliceTwice == <<alice, alice>>
OpenTimes == <<5, 12>>
OpenBlocks == <<1, 3>>
=============================================================================
