-------------------------------- MODULE EventLogs --------------------------------
(***************************************************************************)
(* The event logs of the watched contracts: ElectionCreated logs of the    *)
(* factory, EncryptedVoteSubmitted and OpenVoteSubmitted logs of the       *)
(* elections.  The chain only ever appends to them.                        *)
(***************************************************************************)
EXTENDS Integers

CONSTANTS
    ElectionLogs,   \* ElectionCreated
    PrivateVotes,   \* EncryptedVoteSubmitted
    OpenVotes,      \* OpenVoteSubmitted
    BlockOf,        \* the block of each log
    ElectionOf,     \* the creation log of each vote's election
    Rejected,       \* votes whose calldata does not hash to what the event says
    StartBlock,     \* INDEXER_START_BLOCK
    MaxBlock        \* bound on the height of the chain

Votes == PrivateVotes \cup OpenVotes
Logs == ElectionLogs \cup Votes

ASSUME LogAssumption ==
    /\ StartBlock \in Nat
    /\ MaxBlock \in Nat
    /\ BlockOf \in [Logs -> 1..MaxBlock]
    /\ ElectionOf \in [Votes -> ElectionLogs]
    /\ \A v \in Votes : BlockOf[ElectionOf[v]] <= BlockOf[v]
    /\ Rejected \subseteq Votes
    /\ ElectionLogs \cap Votes = {}
    /\ PrivateVotes \cap OpenVotes = {}

\* The logs the indexer is there for: the elections created since the start
\* block and their well-formed votes.
Wanted ==
    {l \in ElectionLogs : BlockOf[l] >= StartBlock} \cup
    {v \in Votes \ Rejected : BlockOf[ElectionOf[v]] >= StartBlock}
=============================================================================
