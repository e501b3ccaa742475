------------------------------ MODULE TallyProjection ------------------------------
(***************************************************************************)
(* The tables derived from votes: live_tally, finalized_tally and          *)
(* result_summaries.  The indexer's polls store open and private votes,    *)
(* and after each vote recompute the live tally and the summary of its     *)
(* election; they compute the finalized tally of an election that is       *)
(* FINALIZED when they index it, or when they refresh its state and find   *)
(* no tally.  Requests to the endpoints process private votes, decided     *)
(* ones again.  What a recompute reads it writes some awaits later, and    *)
(* polls and requests overlap.  Which verdict a validation comes to is     *)
(* left open here, each time anew; BallotProcessing says how it comes      *)
(* about.                                                                  *)
(***************************************************************************)
EXTENDS Integers, FiniteSets

CONSTANTS
    Elections,
    Votes,          \* the votes, numbered in chain order
    ElectionOf,     \* ElectionOf[v]
    BlockOf,        \* BlockOf[v]
    Reindexed,      \* the elections that polls meet again after they have a row
    Polls,          \* the polls and requests that may overlap
    LastBlock,      \* bound on the length of the chain
    MaxFaults       \* bound on failed calls

ASSUME ProjectionAssumption ==
    /\ Votes \subseteq Nat \ {0} /\ IsFiniteSet(Votes)
    /\ LastBlock \in Nat
    /\ ElectionOf \in [Votes -> Elections]
    /\ BlockOf \in [Votes -> 1..LastBlock]
    /\ \A u, v \in Votes : u < v => BlockOf[u] <= BlockOf[v]
    /\ Reindexed \subseteq Elections
    /\ MaxFaults \in Nat

VARIABLES
    mined,          \* the latest block
    private,        \* the elections whose visibilityMode is PRIVATE; it never changes
    final,          \* the elections whose contract is FINALIZED
    cursor,         \* the next block to scan, per stream of votes
    indexed,        \* rows of onchain_elections
    submitted,      \* rows of private_vote_submissions and open_vote_submissions
    ballots,        \* decrypted_ballots of the private votes
    liveTally,      \* live_tally: per election what its rows count, {} without rows
    finalTally,     \* finalized_tally
    summary,        \* result_summaries
    stage,          \* where each poll, or request, is: its stage,
    step,           \* and the await within the visit to one vote or election
    todo,           \* the votes or elections the stage has still to visit
    latest,         \* the poll's latestBlock
    at,             \* the election it is busy with
    vote,           \* the private vote it processes
    had,            \* the ballot that vote had when it was loaded is still there
    counted,        \* the votes read for a tally
    sums,           \* the counts read for a summary
    faults,
    overlapped,     \* history: elections two polls have recomputed at once
    redecided,      \* history: votes whose verdict was replaced by another one
    abandoned,      \* history: elections of such a vote left without their recompute
    validAtFinal    \* history: the valid votes stored when the contract was finalized

chain == <<mined, final, private>>
tables == <<cursor, indexed, submitted, ballots, liveTally, finalTally, summary>>
polls == <<stage, step, todo, latest, at, vote, had, counted, sums>>
history == <<overlapped, redecided, abandoned, validAtFinal>>
vars == <<chain, tables, polls, faults, history>>

None == "none"
NoCount == -1
Listed == 0         \* in a tally: the rows of the candidates its manifest lists
Streams == {"private", "open"}

IsPrivate(v) == ElectionOf[v] \in private
StreamOf(v) == IF IsPrivate(v) THEN "private" ELSE "open"
VotesOf(e) == {v \in Votes : ElectionOf[v] = e}
Stored(e) == VotesOf(e) \cap submitted
Decided(e) == {v \in Stored(e) : ballots[v] # None}

\* The votes a tally counts: open votes as they are, private ones with a valid ballot.
Valid(e) == IF e \in private THEN {v \in Stored(e) : ballots[v] = "valid"} ELSE Stored(e)

Tallies == SUBSET (Votes \cup {Listed})
Counts(N) == [submissions : N, decrypted : N, valid : N]
Unread == [submissions |-> NoCount, decrypted |-> NoCount, valid |-> NoCount]

Stages == {"idle", "index", "private", "open", "prepared", "pending", "states", "request"}
Steps == {"next", "load", "decide", "count", "store", "clash", "sum"}

TypeOK ==
    /\ mined \in 0..LastBlock
    /\ private \subseteq Elections
    /\ final \subseteq Elections /\ indexed \subseteq Elections
    /\ overlapped \subseteq Elections /\ abandoned \subseteq Elections
    /\ redecided \subseteq Votes
    /\ cursor \in [Streams -> Nat]
    /\ submitted \subseteq Votes
    /\ ballots \in [Votes -> {None, "valid", "invalid"}]
    /\ liveTally \in [Elections -> Tallies]
    /\ finalTally \in [Elections -> Tallies]
    /\ summary \in [Elections -> {Unread} \cup Counts(Nat)]
    /\ stage \in [Polls -> Stages]
    /\ step \in [Polls -> Steps]
    /\ todo \in [Polls -> SUBSET (Votes \cup Elections)]
    /\ latest \in [Polls -> 0..LastBlock]
    /\ at \in [Polls -> Elections \cup {None}]
    /\ vote \in [Polls -> Votes \cup {0}]
    /\ had \in [Polls -> BOOLEAN]
    /\ counted \in [Polls -> Tallies]
    /\ sums \in [Polls -> Counts(Nat \cup {NoCount})]
    /\ faults \in 0..MaxFaults
    /\ validAtFinal \in [Elections -> SUBSET Votes]

Init ==
    /\ mined = 0
    /\ private \in SUBSET Elections
    /\ final = {} /\ indexed = {}
    /\ overlapped = {} /\ redecided = {} /\ abandoned = {}
    /\ cursor = [s \in Streams |-> 1]
    /\ submitted = {}
    /\ ballots = [v \in Votes |-> None]
    /\ liveTally = [e \in Elections |-> {}]
    /\ finalTally = [e \in Elections |-> {}]
    /\ summary = [e \in Elections |-> Unread]
    /\ stage = [p \in Polls |-> "idle"]
    /\ step = [p \in Polls |-> "next"]
    /\ todo = [p \in Polls |-> {}]
    /\ latest = [p \in Polls |-> 0]
    /\ at = [p \in Polls |-> None]
    /\ vote = [p \in Polls |-> 0]
    /\ had = [p \in Polls |-> FALSE]
    /\ counted = [p \in Polls |-> {}]
    /\ sums = [p \in Polls |-> Unread]
    /\ faults = 0
    /\ validAtFinal = [e \in Elections |-> {}]

Fault ==
    /\ faults < MaxFaults
    /\ faults' = faults + 1

-----------------------------------------------------------------------------
(***************************************************************************)
(* The chain.                                                              *)
(***************************************************************************)

Mine ==
    /\ mined < LastBlock
    /\ mined' = mined + 1
    /\ UNCHANGED <<final, private, tables, polls, faults, history>>

\* A contract is finalized after the last vote it took.
Finalize(e) ==
    /\ e \notin final
    /\ \A v \in VotesOf(e) : BlockOf[v] <= mined
    /\ final' = final \cup {e}
    /\ validAtFinal' = [validAtFinal EXCEPT ![e] = Valid(e)]
    /\ UNCHANGED <<mined, private, tables, polls, faults, overlapped, redecided, abandoned>>

-----------------------------------------------------------------------------
(***************************************************************************)
(* pollOnce: its stages.                                                   *)
(***************************************************************************)

\* Back to the loop of the stage; what was remembered of the visit is dropped.
VisitEnds(p) ==
    /\ step' = [step EXCEPT ![p] = "next"]
    /\ at' = [at EXCEPT ![p] = None]
    /\ vote' = [vote EXCEPT ![p] = 0]
    /\ had' = [had EXCEPT ![p] = FALSE]
    /\ counted' = [counted EXCEPT ![p] = {}]
    /\ sums' = [sums EXCEPT ![p] = Unread]

\* The poll ends or throws; then the cursor stays where it was.
PollEnds(p) ==
    /\ stage' = [stage EXCEPT ![p] = "idle"]
    /\ todo' = [todo EXCEPT ![p] = {}]
    /\ latest' = [latest EXCEPT ![p] = 0]
    /\ VisitEnds(p)

\* It indexes the elections that have no row yet, and may meet others again: for a
\* cursor that was moved back, or in the lookback while some draft is PREPARED.
PollStart(p) ==
    /\ stage[p] = "idle"
    /\ \E again \in SUBSET (indexed \cap Reindexed) :
          todo' = [todo EXCEPT ![p] = (Elections \ indexed) \cup again]
    /\ stage' = [stage EXCEPT ![p] = "index"]
    /\ latest' = [latest EXCEPT ![p] = mined]
    /\ UNCHANGED <<chain, tables, step, at, vote, had, counted, sums, faults, history>>

Unscanned(s, p) == {v \in Votes : StreamOf(v) = s /\ BlockOf[v] \in cursor[s]..latest[p]}

Undecrypted == {v \in Votes : IsPrivate(v) /\ v \in submitted /\ ballots[v] = None}

Order == <<"index", "private", "open", "prepared", "pending", "states">>

\* Whether a stage has anything to do when the poll comes to it, and what: a scan
\* needs a new block, the lookback over private votes one without a ballot.
HasWork(p, s) ==
    /\ s \in Streams => cursor[s] <= latest[p]
    /\ s = "pending" => Undecrypted # {}

Since(from, p) == {v \in Votes : IsPrivate(v) /\ BlockOf[v] \in from..latest[p]}

TakesUp(p, s) ==
    \/ s \in Streams /\ todo' = [todo EXCEPT ![p] = Unscanned(s, p)]
    \/ /\ s = "prepared"
       /\ \E again \in SUBSET (indexed \cap Reindexed) : todo' = [todo EXCEPT ![p] = again]
    \/ /\ s = "pending"
       /\ \E from \in 1..latest[p] : todo' = [todo EXCEPT ![p] = Since(from, p)]
    \/ s = "states" /\ todo' = [todo EXCEPT ![p] = indexed]

\* The loop of a stage is over: a scan moves its cursor behind the poll's latest block,
\* and the poll goes on to the next stage that has work.
StageEnds(p) ==
    /\ stage[p] \notin {"idle", "states", "request"}
    /\ step[p] = "next" /\ todo[p] = {}
    /\ cursor' = [s \in Streams |-> IF s = stage[p] THEN latest[p] + 1 ELSE cursor[s]]
    /\ \E i, j \in DOMAIN Order :
          /\ Order[i] = stage[p] /\ i < j
          /\ HasWork(p, Order[j])
          /\ \A k \in i + 1..j - 1 : ~HasWork(p, Order[k])
          /\ stage' = [stage EXCEPT ![p] = Order[j]]
          /\ TakesUp(p, Order[j])
    /\ UNCHANGED <<chain, indexed, submitted, ballots, liveTally, finalTally, summary,
                   step, latest, at, vote, had, counted, sums, faults, history>>

\* The end of a poll, and of a request.
LastStageEnds(p) ==
    /\ stage[p] \in {"states", "request"}
    /\ step[p] = "next" /\ todo[p] = {}
    /\ PollEnds(p)
    /\ UNCHANGED <<chain, tables, faults, history>>

-----------------------------------------------------------------------------
(***************************************************************************)
(* The visits of a stage.                                                  *)
(***************************************************************************)

Busy(e, p) == at[p] = e /\ step[p] \in {"count", "store", "clash", "sum"}

\* Poll p comes to election e, and goes on at label.
Visits(p, e, label) ==
    /\ at' = [at EXCEPT ![p] = e]
    /\ step' = [step EXCEPT ![p] = label]

\* A recompute of e begins: overlapped remembers that another one was under way.
Overlaps(p, e) ==
    overlapped' = IF \E q \in Polls \ {p} : Busy(e, q) THEN overlapped \cup {e} ELSE overlapped

\* indexElection: an election it finds FINALIZED is finalized at once, whether or
\* not it has been before and whether or not its votes are stored.
IndexElection(p) ==
    /\ stage[p] \in {"index", "prepared"} /\ step[p] = "next"
    /\ \E e \in todo[p] :
          /\ todo' = [todo EXCEPT ![p] = @ \ {e}]
          /\ indexed' = indexed \cup {e}
          /\ IF e \in final
             THEN Visits(p, e, "count") /\ Overlaps(p, e)
             ELSE UNCHANGED <<at, step, overlapped>>
    /\ UNCHANGED <<chain, cursor, submitted, ballots, liveTally, finalTally, summary, stage,
                   latest, vote, had, counted, sums, faults, redecided, abandoned, validAtFinal>>

\* Mutant of EnsureFinalizedProjection: also of an election that is not FINALIZED yet.
EnsureFinalizedProjection_AnyState(p) ==
    /\ stage[p] = "states" /\ step[p] = "next"
    /\ \E e \in todo[p] :
          /\ todo' = [todo EXCEPT ![p] = @ \ {e}]
          /\ IF finalTally[e] = {}
             THEN Visits(p, e, "count") /\ Overlaps(p, e)
             ELSE UNCHANGED <<at, step, overlapped>>
    /\ UNCHANGED <<chain, tables, stage, latest, vote, had, counted, sums, faults,
                   redecided, abandoned, validAtFinal>>

\* The refresh of the states: a FINALIZED election without a row of finalized_tally.
EnsureFinalizedProjection(p) ==
    /\ stage[p] = "states" /\ step[p] = "next"
    /\ \E e \in todo[p] :
          /\ todo' = [todo EXCEPT ![p] = @ \ {e}]
          /\ IF e \in final /\ finalTally[e] = {}
             THEN Visits(p, e, "count") /\ Overlaps(p, e)
             ELSE UNCHANGED <<at, step, overlapped>>
    /\ UNCHANGED <<chain, tables, stage, latest, vote, had, counted, sums, faults,
                   redecided, abandoned, validAtFinal>>

\* Logs are visited in chain order.  The upsert changes nothing of a row that exists.
VisitsVotes(p) == stage[p] \in Streams \cup {"pending"} /\ step[p] = "next"

StoreVote(p, v) ==
    /\ \A u \in todo[p] : v <= u
    /\ ElectionOf[v] \in indexed
    /\ todo' = [todo EXCEPT ![p] = @ \ {v}]
    /\ submitted' = submitted \cup {v}
    /\ UNCHANGED <<chain, cursor, indexed, ballots, liveTally, finalTally, summary, stage,
                   latest, had, counted, sums, faults, redecided, abandoned, validAtFinal>>

\* A private vote without a decrypted ballot is processed first.
IndexPrivateVote(p) ==
    VisitsVotes(p) /\ \E v \in todo[p] :
        /\ IsPrivate(v) /\ ballots[v] = None
        /\ StoreVote(p, v)
        /\ vote' = [vote EXCEPT ![p] = v]
        /\ Visits(p, ElectionOf[v], "load")
        /\ UNCHANGED overlapped

\* After an open vote, and after a private one that has its ballot, only the live
\* tally is recomputed.
Revisit(p) ==
    VisitsVotes(p) /\ \E v \in todo[p] :
        /\ IsPrivate(v) => ballots[v] # None
        /\ StoreVote(p, v)
        /\ Visits(p, ElectionOf[v], "count")
        /\ Overlaps(p, ElectionOf[v])
        /\ UNCHANGED vote

-----------------------------------------------------------------------------
(***************************************************************************)
(* The endpoints, and processSubmission.                                   *)
(***************************************************************************)

\* POST :id/process of a stored private vote, with a ballot or without, or process-pending
\* of the votes without a ballot, of all elections or of one; with none it does nothing.
Request(p) ==
    /\ stage[p] = "idle"
    /\ \E wanted \in {{v} : v \in {u \in submitted : IsPrivate(u)}} \cup {Undecrypted}
                     \cup {Undecrypted \cap VotesOf(e) : e \in Elections} :
          wanted # {} /\ todo' = [todo EXCEPT ![p] = wanted]
    /\ stage' = [stage EXCEPT ![p] = "request"]
    /\ UNCHANGED <<chain, tables, step, latest, at, vote, had, counted, sums, faults, history>>

TakesRequested(p) ==
    /\ stage[p] = "request" /\ step[p] = "next"
    /\ \E v \in todo[p] :
          /\ \A u \in todo[p] : v <= u
          /\ todo' = [todo EXCEPT ![p] = @ \ {v}]
          /\ vote' = [vote EXCEPT ![p] = v]
          /\ Visits(p, ElectionOf[v], "load")
    /\ UNCHANGED <<chain, tables, stage, latest, had, counted, sums, faults, history>>

\* The submission is loaded with its ballot, if there is one by now.
LoadSubmission(p) ==
    /\ step[p] = "load"
    /\ had' = [had EXCEPT ![p] = ballots[vote[p]] # None]
    /\ step' = [step EXCEPT ![p] = "decide"]
    /\ UNCHANGED <<chain, tables, stage, todo, latest, at, vote, counted, sums, faults, history>>

\* Validation and transaction: the ballot that was loaded, if any, is deleted, and one with
\* the new verdict is created.  Other transactions on the vote that wait at their delete or
\* create by then will find that the row they wait for is gone or taken.
ProcessSubmission(p) ==
    /\ step[p] = "decide"
    /\ had[p] = (ballots[vote[p]] # None)
    /\ \E verdict \in {"valid", "invalid"} :
          /\ ballots' = [ballots EXCEPT ![vote[p]] = verdict]
          /\ redecided' = IF ballots[vote[p]] \in {None, verdict} THEN redecided
                          ELSE redecided \cup {vote[p]}
    /\ \E waiting \in SUBSET {q \in Polls \ {p} : step[q] = "decide" /\ vote[q] = vote[p]} :
          had' = [q \in Polls |-> q \notin waiting \cup {p} /\ had[q]]
    /\ Visits(p, at[p], "count") /\ Overlaps(p, at[p])
    /\ UNCHANGED <<chain, cursor, indexed, submitted, liveTally, finalTally, summary, stage,
                   todo, latest, vote, counted, sums, faults, abandoned, validAtFinal>>

\* Or it rolls back, on a ballot that has appeared or been replaced since, and throws.
LosesRace(p) ==
    /\ step[p] = "decide"
    /\ had[p] # (ballots[vote[p]] # None)
    /\ PollEnds(p)
    /\ UNCHANGED <<chain, tables, faults, history>>

-----------------------------------------------------------------------------
(***************************************************************************)
(* recomputeForElection of the live tally and finalizeForElection, which   *)
(* differ in the table they write.                                         *)
(***************************************************************************)

Final(p) == stage[p] \in {"index", "prepared", "states"}

\* There is a row for each candidate of the manifest and each candidate voted for.
CountVotes(p) ==
    /\ step[p] = "count"
    /\ counted' = [counted EXCEPT ![p] = Valid(at[p]) \cup {Listed}]
    /\ step' = [step EXCEPT ![p] = "store"]
    /\ UNCHANGED <<chain, tables, stage, todo, latest, at, vote, had, sums, faults, history>>

\* A failed fetch of the manifest gives no candidates.
CountWithoutManifest(p) ==
    /\ step[p] = "count"
    /\ Fault
    /\ counted' = [counted EXCEPT ![p] = Valid(at[p])]
    /\ step' = [step EXCEPT ![p] = "store"]
    /\ UNCHANGED <<chain, tables, stage, todo, latest, at, vote, had, sums, history>>

\* Transactions on the same rows that have begun their deletion before this one commits
\* throw at their createMany, for the unique index on election and candidate.
Contenders(p) ==
    {q \in Polls \ {p} : step[q] = "store" /\ at[q] = at[p] /\ Final(q) = Final(p)
                         /\ counted[q] # {} /\ counted[p] # {}}

\* deleteMany and createMany in one transaction.
StoreTally(p) ==
    /\ step[p] = "store"
    /\ IF Final(p)
       THEN finalTally' = [finalTally EXCEPT ![at[p]] = counted[p]] /\ UNCHANGED liveTally
       ELSE liveTally' = [liveTally EXCEPT ![at[p]] = counted[p]] /\ UNCHANGED finalTally
    /\ counted' = [counted EXCEPT ![p] = {}]
    /\ \E waiting \in SUBSET Contenders(p) :
          step' = [q \in Polls |-> IF q = p THEN "sum"
                                  ELSE IF q \in waiting THEN "clash" ELSE step[q]]
    /\ UNCHANGED <<chain, cursor, indexed, submitted, ballots, summary, stage, todo, latest,
                   at, vote, had, sums, faults, history>>

\* An error while a state is refreshed is caught, and the loop goes on with the next
\* election; any other ends the poll.
Throws(p) ==
    \/ /\ stage[p] = "states" /\ step[p] # "next"
       /\ VisitEnds(p)
       /\ UNCHANGED <<stage, todo, latest>>
    \/ /\ ~(stage[p] = "states" /\ step[p] # "next")
       /\ PollEnds(p)

\* abandoned remembers the election when the verdict of the vote p has processed was
\* replaced, and p has not yet recomputed.
Abandons(p) ==
    abandoned' = IF vote[p] \in redecided /\ Busy(at[p], p)
                 THEN abandoned \cup {at[p]} ELSE abandoned

Clash(p) ==
    /\ step[p] = "clash"
    /\ Throws(p) /\ Abandons(p)
    /\ UNCHANGED <<chain, tables, faults, overlapped, redecided, validAtFinal>>

Fails(p) ==
    /\ stage[p] # "idle" /\ step[p] # "clash"
    /\ Fault
    /\ Throws(p) /\ Abandons(p)
    /\ UNCHANGED <<chain, tables, overlapped, redecided, validAtFinal>>

-----------------------------------------------------------------------------
(***************************************************************************)
(* recomputeForElection of the summary.                                    *)
(***************************************************************************)

\* The submissions are counted; for an open election that is all ...
CountSubmissions(p) ==
    /\ step[p] = "sum" /\ sums[p].submissions = NoCount
    /\ LET n == Cardinality(Stored(at[p])) IN
       sums' = [sums EXCEPT ![p] =
                  IF at[p] \in private
                  THEN [submissions |-> n, decrypted |-> @.decrypted, valid |-> @.valid]
                  ELSE [submissions |-> n, decrypted |-> 0, valid |-> n]]
    /\ UNCHANGED <<chain, tables, stage, step, todo, latest, at, vote, had, counted, faults,
                   history>>

\* ... for a private one its ballots are read at the same time, in another query.
FindBallots(p) ==
    /\ step[p] = "sum" /\ sums[p].decrypted = NoCount
    /\ at[p] \in private
    /\ sums' = [sums EXCEPT ![p] =
                  [submissions |-> @.submissions,
                   decrypted |-> Cardinality(Decided(at[p])),
                   valid |-> Cardinality(Valid(at[p]))]]
    /\ UNCHANGED <<chain, tables, stage, step, todo, latest, at, vote, had, counted, faults,
                   history>>

\* Mutant of PutSummary: the row is only created, never updated.
PutSummary_CreateOnly(p) ==
    /\ step[p] = "sum"
    /\ NoCount \notin {sums[p].submissions, sums[p].decrypted, sums[p].valid}
    /\ summary' = [summary EXCEPT ![at[p]] = IF @ = Unread THEN sums[p] ELSE @]
    /\ VisitEnds(p)
    /\ UNCHANGED <<chain, cursor, indexed, submitted, ballots, liveTally, finalTally, stage,
                   todo, latest, faults, history>>

\* Mutant of PutSummary: it does not wait for both queries.
PutSummary_TooSoon(p) ==
    /\ step[p] = "sum"
    /\ sums[p] # Unread
    /\ summary' = [summary EXCEPT ![at[p]] = sums[p]]
    /\ VisitEnds(p)
    /\ UNCHANGED <<chain, cursor, indexed, submitted, ballots, liveTally,
                   finalTally, stage, todo, latest, faults, history>>

\* The upsert.  The number of invalid votes is the difference of the last two counts.
PutSummary(p) ==
    /\ step[p] = "sum"
    /\ NoCount \notin {sums[p].submissions, sums[p].decrypted, sums[p].valid}
    /\ summary' = [summary EXCEPT ![at[p]] = sums[p]]
    /\ VisitEnds(p)
    /\ UNCHANGED <<chain, cursor, indexed, submitted, ballots, liveTally, finalTally, stage,
                   todo, latest, faults, history>>

-----------------------------------------------------------------------------
Step(p) ==
    \/ StageEnds(p)
    \/ LastStageEnds(p)
    \/ IndexElection(p)
    \/ EnsureFinalizedProjection(p)
    \/ IndexPrivateVote(p)
    \/ Revisit(p)
    \/ TakesRequested(p)
    \/ LoadSubmission(p)
    \/ ProcessSubmission(p)
    \/ LosesRace(p)
    \/ CountVotes(p)
    \/ StoreTally(p)
    \/ Clash(p)
    \/ CountSubmissions(p)
    \/ FindBallots(p)
    \/ PutSummary(p)

Next ==
    \/ Mine
    \/ \E e \in Elections : Finalize(e)
    \/ \E p \in Polls :
          PollStart(p) \/ Request(p) \/ Step(p) \/ CountWithoutManifest(p) \/ Fails(p)

Spec == Init /\ [][Next]_vars

-----------------------------------------------------------------------------
(***************************************************************************)
(* Properties.                                                             *)
(***************************************************************************)

\* Every vote on the chain has been scanned and no poll is busy with e.
Settled(e) ==
    /\ \A s \in Streams : cursor[s] > mined
    /\ \A p \in Polls : at[p] # e

SummaryOf(e) ==
    [submissions |-> Cardinality(Stored(e)),
     decrypted |-> IF e \in private THEN Cardinality(Decided(e)) ELSE 0,
     valid |-> Cardinality(Valid(e))]

\* A settled election has a live tally of exactly its valid votes and a summary that counts
\* them: whatever failed, whoever lost a race, and however often its votes were processed.
\* There are two exceptions.  Where two recomputes of it overlapped, the later write may be the
\* older count; and where a poll or a request has thrown between replacing a verdict and its
\* recompute, no cursor is before the vote.  Either stays until a recompute comes along.
TalliesSettle ==
    \A e \in Elections \ (overlapped \cup abandoned) :
        Settled(e) /\ Stored(e) # {} =>
            /\ liveTally[e] \ {Listed} = Valid(e)
            /\ summary[e] = SummaryOf(e)

\* A final tally counts valid votes only, and all that were valid when the contract was
\* finalized, whichever polls computed it and whichever was last, save votes whose verdict
\* was replaced by another: the tally may be older than the new verdict, and is not computed
\* again.  It need not count a vote that was decided after the finalization.
FinalTallyKeepsDecidedVotes ==
    \A e \in Elections : finalTally[e] # {} =>
        /\ validAtFinal[e] \ redecided \subseteq finalTally[e]
        /\ finalTally[e] \subseteq Valid(e) \cup {Listed} \cup redecided
=============================================================================
