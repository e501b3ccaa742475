-------------------------- MODULE TallyProjection_proofs --------------------------
(***************************************************************************)
(* Theorems about TallyProjection, for any elections, votes, overlapping   *)
(* polls and requests, verdicts and failures.                              *)
(***************************************************************************)
EXTENDS TallyProjection, FiniteSetTheorems, TLAPS

-----------------------------------------------------------------------------
(***************************************************************************)
(* The inductive invariant.                                                *)
(***************************************************************************)

USE DEF Stages, Steps

Busying == {"load", "decide", "count", "store", "clash", "sum"}
VoteStages == Streams \cup {"pending", "request"}
ElectionStages == {"index", "prepared", "states"}

\* A poll has votes to visit in a stage of votes, and elections in one of elections.
StagesVisitTheirKind ==
    \A p \in Polls :
        /\ stage[p] = "idle" => todo[p] = {}
        /\ stage[p] \in VoteStages => todo[p] \subseteq Votes
        /\ stage[p] \in ElectionStages => todo[p] \subseteq Elections

\* Within a visit the poll knows its election, and the vote it processes.
VisitsAreOfSomething ==
    \A p \in Polls :
        /\ step[p] \in Busying => at[p] \in Elections /\ stage[p] # "idle"
        /\ step[p] \in {"load", "decide"} => vote[p] \in Votes /\ stage[p] \in VoteStages

\* A vote that was valid stays so unless its verdict is replaced, and until the contract is
\* finalized there is no tally.
FinalizedLater ==
    \A e \in Elections :
        /\ validAtFinal[e] \ redecided \subseteq Valid(e)
        /\ e \notin final => validAtFinal[e] = {} /\ finalTally[e] = {}

\* What a poll has counted for a final tally, however long ago, holds the votes that
\* were valid when the contract was finalized, and only valid ones, but for replaced verdicts.
CountsAreLateEnough ==
    \A p \in Polls : Final(p) /\ step[p] \in Busying =>
        /\ at[p] \in final
        /\ step[p] = "store" => /\ validAtFinal[at[p]] \ redecided \subseteq counted[p]
                                /\ counted[p] \subseteq Valid(at[p]) \cup {Listed} \cup redecided

PollsInv == StagesVisitTheirKind /\ VisitsAreOfSomething
TallyInv == FinalizedLater /\ CountsAreLateEnough /\ FinalTallyKeepsDecidedVotes

ProjectionInv == TypeOK /\ PollsInv /\ TallyInv

-----------------------------------------------------------------------------
(***************************************************************************)
(* Type correctness.                                                       *)
(***************************************************************************)

\* The sets that are counted are finite.
LEMMA CountsAreNumbers ==
    ASSUME NEW e
    PROVE  /\ Cardinality(Stored(e)) \in Nat
           /\ Cardinality(Decided(e)) \in Nat
           /\ Cardinality(Valid(e)) \in Nat
           /\ Valid(e) \subseteq Votes
<1>1. IsFiniteSet(Votes)
  BY ProjectionAssumption
<1>2. Stored(e) \subseteq Votes /\ Decided(e) \subseteq Votes /\ Valid(e) \subseteq Votes
  BY DEF Stored, Decided, Valid, VotesOf
<1>3. IsFiniteSet(Stored(e)) /\ IsFiniteSet(Decided(e)) /\ IsFiniteSet(Valid(e))
  BY <1>1, <1>2, FS_Subset
<1> QED
  BY <1>2, <1>3, FS_CardinalityType

\* Dropping what a poll remembers of a visit keeps the types.
LEMMA EndsTyped ==
    ASSUME TypeOK, NEW p \in Polls
    PROVE  /\ VisitEnds(p) => /\ step' \in [Polls -> Steps]
                              /\ at' \in [Polls -> Elections \cup {None}]
                              /\ vote' \in [Polls -> Votes \cup {0}]
                              /\ had' \in [Polls -> BOOLEAN]
                              /\ counted' \in [Polls -> Tallies]
                              /\ sums' \in [Polls -> Counts(Nat \cup {NoCount})]
           /\ PollEnds(p) => /\ VisitEnds(p)
                             /\ stage' \in [Polls -> Stages]
                             /\ todo' \in [Polls -> SUBSET (Votes \cup Elections)]
                             /\ latest' \in [Polls -> 0..LastBlock]
<1>1. {} \in Tallies /\ Unread \in Counts(Nat \cup {NoCount}) /\ 0 \in 0..LastBlock
  BY ProjectionAssumption DEF Tallies, Unread, Counts
<1>2. ASSUME VisitEnds(p)
      PROVE  /\ step' \in [Polls -> Steps]
             /\ at' \in [Polls -> Elections \cup {None}]
             /\ vote' \in [Polls -> Votes \cup {0}]
             /\ had' \in [Polls -> BOOLEAN]
             /\ counted' \in [Polls -> Tallies]
             /\ sums' \in [Polls -> Counts(Nat \cup {NoCount})]
  BY <1>1, <1>2 DEF TypeOK, VisitEnds
<1>3. ASSUME PollEnds(p)
      PROVE  /\ stage' \in [Polls -> Stages]
             /\ todo' \in [Polls -> SUBSET (Votes \cup Elections)]
             /\ latest' \in [Polls -> 0..LastBlock]
  BY <1>1, <1>3 DEF TypeOK, PollEnds
<1> QED
  BY <1>2, <1>3 DEF PollEnds

\* An error ends the visit or the poll.
LEMMA ThrowsTyped ==
    ASSUME TypeOK, PollsInv, NEW p \in Polls, Throws(p), Abandons(p),
           UNCHANGED <<chain, tables, overlapped, redecided, validAtFinal>>,
           faults' \in 0..MaxFaults
    PROVE  TypeOK'
<1>0. abandoned' \subseteq Elections
  BY DEF Abandons, Busy, PollsInv, VisitsAreOfSomething, Busying, TypeOK
<1>1. CASE VisitEnds(p) /\ UNCHANGED <<stage, todo, latest>>
  BY <1>0, <1>1, EndsTyped DEF TypeOK, chain, tables
<1>2. CASE PollEnds(p)
  BY <1>0, <1>2, EndsTyped DEF TypeOK, chain, tables
<1> QED
  BY <1>1, <1>2 DEF Throws

\* The chain's steps keep the types.
LEMMA ChainTyped ==
    ASSUME TypeOK, Mine \/ \E e \in Elections : Finalize(e)
    PROVE  TypeOK'
<1> USE DEF TypeOK, chain, tables, polls, history
<1>1. CASE Mine
  <2>1. mined' \in 0..LastBlock
    BY <1>1, ProjectionAssumption DEF Mine
  <2> QED
    BY <1>1, <2>1 DEF Mine
<1>2. ASSUME NEW e \in Elections, Finalize(e)
      PROVE  TypeOK'
  BY <1>2, CountsAreNumbers DEF Finalize
<1> QED
  BY <1>1, <1>2

\* What there may be to do.
LEMMA SubsetsAreWork ==
    ASSUME NEW w, w \subseteq Votes \/ w \subseteq Elections
    PROVE  w \in SUBSET (Votes \cup Elections)
OBVIOUS

\* A poll that is through with a stage goes on to another one, with work of its kind.
LEMMA NextStage ==
    ASSUME TypeOK, NEW p \in Polls, StageEnds(p)
    PROVE  \E s \in VoteStages \cup ElectionStages, work \in SUBSET (Votes \cup Elections) :
               /\ stage' = [stage EXCEPT ![p] = s]
               /\ todo' = [todo EXCEPT ![p] = work]
               /\ s \in VoteStages => work \subseteq Votes
               /\ s \in ElectionStages => work \subseteq Elections
<1> USE DEF VoteStages, ElectionStages, Streams
<1>1. PICK i \in DOMAIN Order, j \in DOMAIN Order :
            /\ stage' = [stage EXCEPT ![p] = Order[j]]
            /\ TakesUp(p, Order[j])
  BY DEF StageEnds
<1>2. PICK s \in Streams \cup {"pending"} \cup ElectionStages :
            stage' = [stage EXCEPT ![p] = s] /\ TakesUp(p, s)
  <2>1. Order[j] \in Streams \cup {"pending"} \cup ElectionStages
    BY DEF Order
  <2> QED
    BY <1>1, <2>1
<1>3. CASE s \in Streams
  <2>1. todo' = [todo EXCEPT ![p] = Unscanned(s, p)] /\ Unscanned(s, p) \subseteq Votes
    BY <1>2, <1>3 DEF TakesUp, Unscanned
  <2> QED
    BY <1>2, <1>3, <2>1
<1>4. CASE s = "pending"
  <2>1. PICK from \in 1..latest[p] : todo' = [todo EXCEPT ![p] = Since(from, p)]
    BY <1>2, <1>4 DEF TakesUp
  <2>2. Since(from, p) \subseteq Votes
    BY DEF Since
  <2> QED
    BY <1>2, <1>4, <2>1, <2>2
<1>5. CASE s \in ElectionStages
  <2>1. PICK work \in SUBSET indexed : todo' = [todo EXCEPT ![p] = work]
    BY <1>2, <1>5 DEF TakesUp
  <2>2. work \subseteq Elections
    BY <2>1 DEF TypeOK
  <2>3. s \notin VoteStages
    BY <1>5
  <2> QED
    BY <1>2, <2>1, <2>2, <2>3, SubsetsAreWork
<1> QED
  BY <1>3, <1>4, <1>5

\* A request is for stored private votes.
LEMMA RequestedVotes ==
    ASSUME TypeOK, NEW p \in Polls, Request(p)
    PROVE  \E wanted \in SUBSET submitted :
               todo' = [todo EXCEPT ![p] = wanted] /\ \A v \in wanted : v \in Votes /\ IsPrivate(v)
<1>1. PICK wanted \in {{v} : v \in {u \in submitted : IsPrivate(u)}} \cup {Undecrypted}
                     \cup {Undecrypted \cap VotesOf(e) : e \in Elections} :
            todo' = [todo EXCEPT ![p] = wanted]
  BY DEF Request
<1>2. wanted \subseteq submitted /\ \A v \in wanted : IsPrivate(v)
  BY <1>1 DEF Undecrypted
<1> QED
  BY <1>1, <1>2 DEF TypeOK

\* The poll is at an election.
VisitTyped ==
    /\ at' \in [Polls -> Elections \cup {None}]
    /\ step' \in [Polls -> Steps]
    /\ overlapped' \subseteq Elections

\* Coming to an election keeps the types.
LEMMA VisitsTyped ==
    ASSUME TypeOK, NEW p \in Polls, NEW e \in Elections,
           \/ Visits(p, e, "count") /\ Overlaps(p, e)
           \/ Visits(p, e, "load") /\ UNCHANGED overlapped
           \/ UNCHANGED <<at, step, overlapped>>
    PROVE  VisitTyped
BY DEF TypeOK, Visits, Overlaps, VisitTyped

\* A poll's steps keep the types.
LEMMA PollTyped ==
    ASSUME ProjectionInv, NEW p \in Polls,
           PollStart(p) \/ Request(p) \/ Step(p) \/ CountWithoutManifest(p) \/ Fails(p)
    PROVE  TypeOK'
<1> USE DEF chain, tables, polls, history
<1>0. TypeOK /\ PollsInv
  BY DEF ProjectionInv
<1>1. CASE PollStart(p)
  <2>1. PICK again \in SUBSET (indexed \cap Reindexed) :
              todo' = [todo EXCEPT ![p] = (Elections \ indexed) \cup again]
    BY <1>1 DEF PollStart
  <2> DEFINE work == (Elections \ indexed) \cup again
  <2>2. work \in SUBSET (Votes \cup Elections)
    <3>1. work \subseteq Elections
      BY <1>0 DEF TypeOK
    <3> QED
      BY <3>1, SubsetsAreWork
  <2>3. todo' \in [Polls -> SUBSET (Votes \cup Elections)]
    <3>1. todo' = [todo EXCEPT ![p] = work]
      BY <2>1
    <3> HIDE DEF work
    <3> QED
      BY <1>0, <2>2, <3>1 DEF TypeOK
  <2>4. stage' \in [Polls -> Stages]
    BY <1>0, <1>1 DEF PollStart, TypeOK
  <2>5. latest' \in [Polls -> 0..LastBlock]
    BY <1>0, <1>1 DEF PollStart, TypeOK
  <2> QED
    BY <1>0, <1>1, <2>3, <2>4, <2>5 DEF PollStart, TypeOK
<1>2. CASE StageEnds(p)
  <2>1. PICK s \in VoteStages \cup ElectionStages, work \in SUBSET (Votes \cup Elections) :
              stage' = [stage EXCEPT ![p] = s] /\ todo' = [todo EXCEPT ![p] = work]
    BY <1>0, <1>2, NextStage
  <2>2. stage' \in [Polls -> Stages]
    BY <1>0, <2>1 DEF TypeOK, VoteStages, ElectionStages, Streams
  <2>3. cursor' \in [Streams -> Nat]
    <3>1. latest[p] \in Nat
      BY <1>0 DEF TypeOK
    <3> QED
      BY <1>0, <1>2, <3>1 DEF StageEnds, TypeOK
  <2>4. todo' \in [Polls -> SUBSET (Votes \cup Elections)]
    BY <1>0, <2>1 DEF TypeOK
  <2> QED
    BY <1>0, <1>2, <2>2, <2>3, <2>4 DEF StageEnds, TypeOK
<1>3. CASE LastStageEnds(p)
  BY <1>0, <1>3, EndsTyped DEF LastStageEnds, TypeOK
<1>4. CASE IndexElection(p) \/ EnsureFinalizedProjection(p)
  <2>1. PICK e \in todo[p] :
              /\ todo' = [todo EXCEPT ![p] = @ \ {e}]
              /\ indexed' = indexed \cup {e} \/ indexed' = indexed
              /\ \/ Visits(p, e, "count") /\ Overlaps(p, e)
                 \/ UNCHANGED <<at, step, overlapped>>
    BY <1>4 DEF IndexElection, EnsureFinalizedProjection
  <2>2. e \in Elections /\ todo[p] \ {e} \subseteq Elections
    BY <1>0, <1>4
    DEF IndexElection, EnsureFinalizedProjection, PollsInv, StagesVisitTheirKind, ElectionStages
  <2>3. todo' \in [Polls -> SUBSET (Votes \cup Elections)]
    BY <1>0, <2>1, <2>2 DEF TypeOK
  <2>4. VisitTyped
    BY <1>0, <2>1, <2>2, VisitsTyped
  <2>5. indexed' \subseteq Elections
    BY <1>0, <2>1, <2>2 DEF TypeOK
  <2> QED
    BY <1>0, <1>4, <2>3, <2>4, <2>5
    DEF IndexElection, EnsureFinalizedProjection, VisitTyped, TypeOK
<1>5. CASE IndexPrivateVote(p) \/ Revisit(p)
  <2>1. PICK v \in todo[p] :
              /\ StoreVote(p, v)
              /\ \/ vote' = [vote EXCEPT ![p] = v] /\ Visits(p, ElectionOf[v], "load")
                    /\ UNCHANGED overlapped
                 \/ Visits(p, ElectionOf[v], "count") /\ Overlaps(p, ElectionOf[v])
                    /\ UNCHANGED vote
    BY <1>5 DEF IndexPrivateVote, Revisit
  <2>2. v \in Votes /\ todo[p] \ {v} \subseteq Votes
    BY <1>0, <1>5, <2>1
    DEF IndexPrivateVote, Revisit, VisitsVotes, PollsInv, StagesVisitTheirKind, VoteStages
  <2>3. ElectionOf[v] \in Elections
    BY <2>2, ProjectionAssumption
  <2>4. todo' \in [Polls -> SUBSET (Votes \cup Elections)] /\ submitted' \subseteq Votes
    BY <1>0, <2>1, <2>2 DEF StoreVote, TypeOK
  <2>5. VisitTyped
    BY <1>0, <2>1, <2>3, VisitsTyped
  <2>6. vote' \in [Polls -> Votes \cup {0}]
    BY <1>0, <2>1, <2>2 DEF TypeOK
  <2> QED
    BY <1>0, <2>1, <2>4, <2>5, <2>6 DEF StoreVote, VisitTyped, TypeOK
<1>6. CASE ProcessSubmission(p)
  <2>1. at[p] \in Elections
    BY <1>0, <1>6 DEF ProcessSubmission, PollsInv, VisitsAreOfSomething, Busying
  <2>2. VisitTyped
    BY <1>0, <1>6, <2>1, VisitsTyped DEF ProcessSubmission
  <2>3. /\ ballots' \in [Votes -> {None, "valid", "invalid"}]
        /\ redecided' \subseteq Votes
    <3>1. vote[p] \in Votes
      BY <1>0, <1>6 DEF ProcessSubmission, PollsInv, VisitsAreOfSomething
    <3> QED
      BY <1>0, <1>6, <3>1 DEF ProcessSubmission, TypeOK
  <2>4. had' \in [Polls -> BOOLEAN]
    BY <1>0, <1>6 DEF ProcessSubmission, TypeOK
  <2> QED
    BY <1>0, <1>6, <2>2, <2>3, <2>4 DEF ProcessSubmission, VisitTyped, TypeOK
<1>7. CASE LosesRace(p)
  BY <1>0, <1>7, EndsTyped DEF LosesRace, TypeOK
<1>8. CASE CountVotes(p) \/ CountWithoutManifest(p)
  <2>1. Valid(at[p]) \cup {Listed} \in Tallies /\ Valid(at[p]) \in Tallies
    BY CountsAreNumbers DEF Tallies
  <2>2. faults' \in 0..MaxFaults
    BY <1>0, <1>8, ProjectionAssumption DEF CountVotes, CountWithoutManifest, Fault, TypeOK
  <2> QED
    BY <1>0, <1>8, <2>1, <2>2 DEF CountVotes, CountWithoutManifest, TypeOK
<1>9. CASE StoreTally(p)
  <2>1. PICK waiting \in SUBSET Contenders(p) :
              step' = [q \in Polls |-> IF q = p THEN "sum"
                                      ELSE IF q \in waiting THEN "clash" ELSE step[q]]
    BY <1>9 DEF StoreTally
  <2>2. liveTally' \in [Elections -> Tallies] /\ finalTally' \in [Elections -> Tallies]
    BY <1>0, <1>9 DEF StoreTally, TypeOK
  <2>3. step' \in [Polls -> Steps]
    BY <1>0, <2>1 DEF TypeOK
  <2>4. counted' \in [Polls -> Tallies]
    BY <1>0, <1>9 DEF StoreTally, Tallies, TypeOK
  <2> QED
    BY <1>0, <1>9, <2>2, <2>3, <2>4 DEF StoreTally, TypeOK
<1>10. CASE Clash(p)
  BY <1>0, <1>10, ThrowsTyped DEF Clash, TypeOK
<1>11. CASE Fails(p)
  <2>1. faults' \in 0..MaxFaults
    BY <1>0, <1>11, ProjectionAssumption DEF Fails, Fault, TypeOK
  <2> QED
    BY <1>0, <1>11, <2>1, ThrowsTyped DEF Fails
<1>12. CASE CountSubmissions(p)
  <2> DEFINE n == Cardinality(Stored(at[p]))
             sum == IF at[p] \in private
                    THEN [submissions |-> n, decrypted |-> sums[p].decrypted, valid |-> sums[p].valid]
                    ELSE [submissions |-> n, decrypted |-> 0, valid |-> n]
  <2>1. sums' = [sums EXCEPT ![p] = sum]
    BY <1>12 DEF CountSubmissions
  <2>2. sum \in Counts(Nat \cup {NoCount})
    BY <1>0, CountsAreNumbers DEF Counts, TypeOK
  <2>3. sums' \in [Polls -> Counts(Nat \cup {NoCount})]
    BY <1>0, <2>1, <2>2 DEF TypeOK
  <2> QED
    BY <1>0, <1>12, <2>3 DEF CountSubmissions, TypeOK
<1>13. CASE FindBallots(p)
  <2> DEFINE sum == [submissions |-> sums[p].submissions,
                     decrypted |-> Cardinality(Decided(at[p])),
                     valid |-> Cardinality(Valid(at[p]))]
  <2>1. sums' = [sums EXCEPT ![p] = sum]
    BY <1>13 DEF FindBallots
  <2>2. sum \in Counts(Nat \cup {NoCount})
    BY <1>0, CountsAreNumbers DEF Counts, TypeOK
  <2>3. sums' \in [Polls -> Counts(Nat \cup {NoCount})]
    BY <1>0, <2>1, <2>2 DEF TypeOK
  <2> QED
    BY <1>0, <1>13, <2>3 DEF FindBallots, TypeOK
<1>14. CASE PutSummary(p)
  <2>1. sums[p] \in Counts(Nat)
    BY <1>0, <1>14 DEF PutSummary, Counts, TypeOK
  <2>2. summary' \in [Elections -> {Unread} \cup Counts(Nat)]
    BY <1>0, <1>14, <2>1 DEF PutSummary, TypeOK
  <2> QED
    BY <1>0, <1>14, <2>2, EndsTyped DEF PutSummary, TypeOK
<1>15. CASE Request(p)
  <2>1. PICK wanted \in SUBSET submitted :
            todo' = [todo EXCEPT ![p] = wanted] /\ \A v \in wanted : v \in Votes /\ IsPrivate(v)
    BY <1>0, <1>15, RequestedVotes
  <2>2. todo' \in [Polls -> SUBSET (Votes \cup Elections)]
    BY <1>0, <2>1 DEF TypeOK
  <2>3. stage' \in [Polls -> Stages]
    BY <1>0, <1>15 DEF Request, TypeOK
  <2> QED
    BY <1>0, <1>15, <2>2, <2>3 DEF Request, TypeOK
<1>16. CASE TakesRequested(p)
  <2>1. PICK v \in todo[p] :
              /\ todo' = [todo EXCEPT ![p] = @ \ {v}]
              /\ vote' = [vote EXCEPT ![p] = v]
              /\ Visits(p, ElectionOf[v], "load")
    BY <1>16 DEF TakesRequested
  <2>2. v \in Votes /\ todo[p] \ {v} \subseteq Votes
    BY <1>0, <1>16, <2>1 DEF TakesRequested, PollsInv, StagesVisitTheirKind, VoteStages
  <2>3. ElectionOf[v] \in Elections
    BY <2>2, ProjectionAssumption
  <2>4. todo' \in [Polls -> SUBSET (Votes \cup Elections)] /\ vote' \in [Polls -> Votes \cup {0}]
    BY <1>0, <2>1, <2>2 DEF TypeOK
  <2>5. VisitTyped
    BY <1>0, <1>16, <2>1, <2>3, VisitsTyped DEF TakesRequested
  <2> QED
    BY <1>0, <1>16, <2>4, <2>5 DEF TakesRequested, VisitTyped, TypeOK
<1>17. CASE LoadSubmission(p)
  BY <1>0, <1>17 DEF LoadSubmission, TypeOK
<1> QED
  BY <1>1, <1>2, <1>3, <1>4, <1>5, <1>6, <1>7, <1>8, <1>9, <1>10, <1>11, <1>12, <1>13, <1>14,
     <1>15, <1>16, <1>17
  DEF Step

-----------------------------------------------------------------------------
(***************************************************************************)
(* What a step of a poll does to the other polls, and to the votes.        *)
(***************************************************************************)

PollAction(p) == PollStart(p) \/ Request(p) \/ Step(p) \/ CountWithoutManifest(p) \/ Fails(p)

\* A step of another poll leaves a poll where it is, but for a transaction that will throw.
LEMMA OthersStay ==
    ASSUME TypeOK, NEW p \in Polls, PollAction(p), NEW q \in Polls \ {p}
    PROVE  /\ stage'[q] = stage[q] /\ todo'[q] = todo[q] /\ at'[q] = at[q]
           /\ vote'[q] = vote[q] /\ counted'[q] = counted[q]
           /\ latest'[q] = latest[q] /\ sums'[q] = sums[q]
           /\ step'[q] = step[q] \/ (step[q] = "store" /\ step'[q] = "clash")
<1> USE DEF TypeOK, chain, tables, polls, history
<1>1. CASE PollStart(p) \/ StageEnds(p) \/ Request(p)
  BY <1>1 DEF PollStart, StageEnds, TakesUp, Request
<1>2. CASE LastStageEnds(p) \/ LosesRace(p) \/ Clash(p) \/ Fails(p)
  BY <1>2 DEF LastStageEnds, LosesRace, Clash, Fails, Throws, PollEnds, VisitEnds
<1>3. CASE IndexElection(p) \/ EnsureFinalizedProjection(p)
  BY <1>3 DEF IndexElection, EnsureFinalizedProjection, Visits
<1>4. CASE IndexPrivateVote(p) \/ Revisit(p)
  BY <1>4 DEF IndexPrivateVote, Revisit, StoreVote, Visits
<1>5. CASE ProcessSubmission(p) \/ LoadSubmission(p) \/ TakesRequested(p)
  BY <1>5 DEF ProcessSubmission, LoadSubmission, TakesRequested, Visits
<1>6. CASE CountVotes(p) \/ CountWithoutManifest(p)
  BY <1>6 DEF CountVotes, CountWithoutManifest
<1>7. CASE StoreTally(p)
  <2>1. PICK waiting \in SUBSET Contenders(p) :
              step' = [r \in Polls |-> IF r = p THEN "sum"
                                      ELSE IF r \in waiting THEN "clash" ELSE step[r]]
    BY <1>7 DEF StoreTally
  <2>2. q \in waiting => step[q] = "store"
    BY DEF Contenders
  <2> QED
    BY <1>7, <2>1, <2>2 DEF StoreTally
<1>8. CASE CountSubmissions(p) \/ FindBallots(p)
  BY <1>8 DEF CountSubmissions, FindBallots
<1>9. CASE PutSummary(p)
  BY <1>9 DEF PutSummary, VisitEnds
<1> QED
  BY <1>1, <1>2, <1>3, <1>4, <1>5, <1>6, <1>7, <1>8, <1>9 DEF PollAction, Step

\* Votes are stored for good, decided for good unless a verdict is replaced, and only a final
\* tally is stored as one.
LEMMA VotesStay ==
    ASSUME ProjectionInv, NEW p \in Polls, PollAction(p)
    PROVE  /\ UNCHANGED chain /\ UNCHANGED validAtFinal
           /\ submitted \subseteq submitted' /\ redecided \subseteq redecided'
           /\ \A v \in Votes \ redecided' : ballots[v] = "valid" => ballots'[v] = "valid"
           /\ (StoreTally(p) /\ Final(p)) \/ finalTally' = finalTally
<1> USE DEF chain, tables, polls, history, ProjectionInv
<1>1. CASE PollStart(p) \/ Request(p) \/ StageEnds(p) \/ LastStageEnds(p) \/ LosesRace(p)
           \/ Clash(p) \/ Fails(p) \/ IndexElection(p) \/ EnsureFinalizedProjection(p)
  BY <1>1 DEF PollStart, Request, StageEnds, LastStageEnds, LosesRace, Clash, Fails,
              IndexElection, EnsureFinalizedProjection
<1>2. CASE IndexPrivateVote(p) \/ Revisit(p) \/ TakesRequested(p) \/ LoadSubmission(p)
  BY <1>2 DEF IndexPrivateVote, Revisit, StoreVote, TakesRequested, LoadSubmission
<1>3. CASE ProcessSubmission(p)
  <2>1. PICK verdict \in {"valid", "invalid"} :
            /\ ballots' = [ballots EXCEPT ![vote[p]] = verdict]
            /\ redecided' = IF ballots[vote[p]] \in {None, verdict} THEN redecided
                            ELSE redecided \cup {vote[p]}
    BY <1>3 DEF ProcessSubmission
  <2>2. \A v \in Votes \ redecided' : ballots[v] = "valid" => ballots'[v] = "valid"
    BY <2>1 DEF TypeOK, None
  <2> QED
    BY <1>3, <2>1, <2>2 DEF ProcessSubmission
<1>4. CASE CountVotes(p) \/ CountWithoutManifest(p) \/ CountSubmissions(p) \/ FindBallots(p)
           \/ PutSummary(p)
  BY <1>4 DEF CountVotes, CountWithoutManifest, CountSubmissions, FindBallots, PutSummary
<1>5. CASE StoreTally(p)
  BY <1>5 DEF StoreTally
<1> QED
  BY <1>1, <1>2, <1>3, <1>4, <1>5 DEF PollAction, Step

\* A vote that counts goes on to count, unless its verdict is replaced.
LEMMA ValidGrows ==
    ASSUME NEW e, private' = private, submitted \subseteq submitted',
           \A v \in Votes \ redecided' : ballots[v] = "valid" => ballots'[v] = "valid"
    PROVE  Valid(e) \ redecided' \subseteq Valid(e)'
BY DEF Valid, Stored, VotesOf

-----------------------------------------------------------------------------
(***************************************************************************)
(* What a poll knows.                                                      *)
(***************************************************************************)

\* What p has to do, and what it is busy with.
OwnWork(p) ==
    /\ stage[p] = "idle" => todo[p] = {}
    /\ stage[p] \in VoteStages => todo[p] \subseteq Votes
    /\ stage[p] \in ElectionStages => todo[p] \subseteq Elections
OwnVisit(p) ==
    /\ step[p] \in Busying => at[p] \in Elections /\ stage[p] # "idle"
    /\ step[p] \in {"load", "decide"} => vote[p] \in Votes /\ stage[p] \in VoteStages

\* Through with a visit or with the poll, nothing is remembered.
LEMMA EndsKeep ==
    ASSUME TypeOK, NEW p \in Polls, OwnWork(p)
    PROVE  /\ VisitEnds(p) => step'[p] = "next" /\ OwnVisit(p)'
           /\ PollEnds(p) => stage'[p] = "idle" /\ OwnWork(p)'
           /\ VisitEnds(p) /\ UNCHANGED <<stage, todo>> => OwnWork(p)'
<1> USE DEF TypeOK, VoteStages, ElectionStages, Streams, Busying
<1>1. ASSUME VisitEnds(p)
      PROVE  step'[p] = "next" /\ OwnVisit(p)'
  BY <1>1 DEF VisitEnds, OwnVisit
<1>2. ASSUME PollEnds(p)
      PROVE  stage'[p] = "idle" /\ OwnWork(p)'
  BY <1>2 DEF PollEnds, OwnWork
<1>3. ASSUME UNCHANGED <<stage, todo>>
      PROVE  OwnWork(p)'
  BY <1>3 DEF OwnWork
<1> QED
  BY <1>1, <1>2, <1>3

\* A poll's own step keeps what it knows.
LEMMA OwnStep ==
    ASSUME TypeOK, NEW p \in Polls, OwnWork(p), OwnVisit(p), PollAction(p)
    PROVE  OwnWork(p)' /\ OwnVisit(p)'
<1> USE DEF chain, tables, polls, history
<1>1. CASE PollStart(p)
  <2>1. PICK again \in SUBSET (indexed \cap Reindexed) :
              todo' = [todo EXCEPT ![p] = (Elections \ indexed) \cup again]
    BY <1>1 DEF PollStart
  <2>2. todo'[p] \subseteq Elections
    BY <2>1 DEF TypeOK
  <2>3. stage'[p] = "index"
    BY <1>1 DEF PollStart, TypeOK
  <2> QED
    BY <1>1, <2>2, <2>3
    DEF PollStart, OwnWork, OwnVisit, VoteStages, ElectionStages, Streams, Busying
<1>2. CASE StageEnds(p)
  <2>1. PICK s \in VoteStages \cup ElectionStages, work \in SUBSET (Votes \cup Elections) :
              /\ stage' = [stage EXCEPT ![p] = s]
              /\ todo' = [todo EXCEPT ![p] = work]
              /\ s \in VoteStages => work \subseteq Votes
              /\ s \in ElectionStages => work \subseteq Elections
    BY <1>2, NextStage
  <2>2. stage'[p] = s /\ todo'[p] = work
    BY <2>1 DEF TypeOK
  <2>3. step'[p] = "next"
    BY <1>2 DEF StageEnds
  <2> QED
    BY <2>1, <2>2, <2>3
    DEF OwnWork, OwnVisit, VoteStages, ElectionStages, Streams, Busying
<1>3. CASE LastStageEnds(p) \/ LosesRace(p)
  BY <1>3, EndsKeep DEF LastStageEnds, LosesRace, PollEnds
<1>4. CASE Clash(p) \/ Fails(p)
  BY <1>4, EndsKeep DEF Clash, Fails, Throws, PollEnds
<1>5. CASE IndexElection(p) \/ EnsureFinalizedProjection(p)
  <2>1. PICK e \in todo[p] :
              /\ todo' = [todo EXCEPT ![p] = @ \ {e}]
              /\ \/ Visits(p, e, "count") /\ Overlaps(p, e)
                 \/ UNCHANGED <<at, step, overlapped>>
    BY <1>5 DEF IndexElection, EnsureFinalizedProjection
  <2>2. stage[p] \in ElectionStages /\ stage' = stage /\ step[p] = "next"
    BY <1>5 DEF IndexElection, EnsureFinalizedProjection, ElectionStages
  <2>3. e \in Elections /\ todo'[p] \subseteq Elections
    BY <2>1, <2>2 DEF OwnWork, TypeOK
  <2>4. step'[p] = "next" \/ (step'[p] = "count" /\ at'[p] = e)
    BY <2>1, <2>2 DEF Visits, TypeOK
  <2> QED
    BY <2>2, <2>3, <2>4 DEF OwnWork, OwnVisit, VoteStages, ElectionStages, Streams, Busying
<1>6. CASE IndexPrivateVote(p) \/ Revisit(p)
  <2>1. PICK v \in todo[p] :
              /\ StoreVote(p, v)
              /\ \/ vote' = [vote EXCEPT ![p] = v] /\ Visits(p, ElectionOf[v], "load")
                 \/ Visits(p, ElectionOf[v], "count")
    BY <1>6 DEF IndexPrivateVote, Revisit
  <2>2. stage[p] \in VoteStages /\ stage' = stage
    BY <1>6, <2>1 DEF IndexPrivateVote, Revisit, VisitsVotes, VoteStages, StoreVote
  <2>3. v \in Votes /\ todo'[p] \subseteq Votes
    BY <2>1, <2>2 DEF OwnWork, StoreVote, TypeOK
  <2>4. ElectionOf[v] \in Elections
    BY <2>3, ProjectionAssumption
  <2>5. /\ at'[p] = ElectionOf[v]
        /\ (step'[p] = "load" /\ vote'[p] = v) \/ step'[p] = "count"
    BY <2>1 DEF Visits, TypeOK
  <2> QED
    BY <2>2, <2>3, <2>4, <2>5
    DEF OwnWork, OwnVisit, VoteStages, ElectionStages, Streams, Busying
<1>7. CASE ProcessSubmission(p)
  <2>1. step'[p] = "count" /\ at'[p] = at[p] /\ at[p] \in Elections /\ stage[p] # "idle"
    BY <1>7 DEF ProcessSubmission, Visits, OwnVisit, Busying, TypeOK
  <2> QED
    BY <1>7, <2>1 DEF ProcessSubmission, OwnWork, OwnVisit
<1>8. CASE CountVotes(p) \/ CountWithoutManifest(p)
  <2>1. step'[p] = "store" /\ at[p] \in Elections /\ stage[p] # "idle"
    BY <1>8 DEF CountVotes, CountWithoutManifest, OwnVisit, Busying, TypeOK
  <2> QED
    BY <1>8, <2>1 DEF CountVotes, CountWithoutManifest, OwnWork, OwnVisit
<1>9. CASE StoreTally(p)
  <2>1. step'[p] = "sum" /\ at[p] \in Elections /\ stage[p] # "idle"
    BY <1>9 DEF StoreTally, OwnVisit, Busying
  <2> QED
    BY <1>9, <2>1 DEF StoreTally, OwnWork, OwnVisit
<1>10. CASE CountSubmissions(p) \/ FindBallots(p)
  BY <1>10 DEF CountSubmissions, FindBallots, OwnWork, OwnVisit
<1>11. CASE PutSummary(p)
  BY <1>11, EndsKeep DEF PutSummary
<1>12. CASE Request(p)
  <2>1. PICK wanted \in SUBSET Votes : todo' = [todo EXCEPT ![p] = wanted]
    BY <1>12, RequestedVotes DEF TypeOK
  <2>2. stage'[p] = "request" /\ todo'[p] \subseteq Votes /\ step' = step
    BY <1>12, <2>1 DEF Request, TypeOK
  <2>3. step[p] \notin Busying
    BY <1>12 DEF Request, OwnVisit
  <2> QED
    BY <2>2, <2>3 DEF OwnWork, OwnVisit, VoteStages, ElectionStages, Streams, Busying
<1>13. CASE TakesRequested(p)
  <2>1. PICK v \in todo[p] :
              /\ todo' = [todo EXCEPT ![p] = @ \ {v}]
              /\ vote' = [vote EXCEPT ![p] = v]
              /\ Visits(p, ElectionOf[v], "load")
    BY <1>13 DEF TakesRequested
  <2>2. stage[p] = "request" /\ stage' = stage
    BY <1>13 DEF TakesRequested
  <2>3. v \in Votes /\ todo'[p] \subseteq Votes /\ vote'[p] = v
    BY <2>1, <2>2 DEF OwnWork, VoteStages, TypeOK
  <2>4. at'[p] = ElectionOf[v] /\ ElectionOf[v] \in Elections /\ step'[p] = "load"
    BY <2>1, <2>3, ProjectionAssumption DEF Visits, TypeOK
  <2> QED
    BY <2>2, <2>3, <2>4 DEF OwnWork, OwnVisit, VoteStages, ElectionStages, Streams, Busying
<1>14. CASE LoadSubmission(p)
  BY <1>14 DEF LoadSubmission, OwnWork, OwnVisit, Busying, TypeOK
<1> QED
  BY <1>1, <1>2, <1>3, <1>4, <1>5, <1>6, <1>7, <1>8, <1>9, <1>10, <1>11, <1>12, <1>13, <1>14
  DEF PollAction, Step

\* All polls know what they know of their own.
LEMMA OwnIsAll ==
    /\ PollsInv <=> \A p \in Polls : OwnWork(p) /\ OwnVisit(p)
    /\ PollsInv' <=> \A p \in Polls : OwnWork(p)' /\ OwnVisit(p)'
BY DEF PollsInv, StagesVisitTheirKind, VisitsAreOfSomething, OwnWork, OwnVisit

\* So every step of a poll keeps what polls know.
LEMMA PollKeepsPolls ==
    ASSUME ProjectionInv, NEW p \in Polls, PollAction(p)
    PROVE  PollsInv'
<1>1. TypeOK /\ \A q \in Polls : OwnWork(q) /\ OwnVisit(q)
  BY OwnIsAll DEF ProjectionInv
<1>2. OwnWork(p)' /\ OwnVisit(p)'
  BY <1>1, OwnStep
<1>3. ASSUME NEW q \in Polls \ {p}
      PROVE  OwnWork(q)' /\ OwnVisit(q)'
  BY <1>1, OthersStay DEF OwnWork, OwnVisit, Busying
<1> QED
  BY <1>2, <1>3, OwnIsAll

-----------------------------------------------------------------------------
(***************************************************************************)
(* The final tally.                                                        *)
(***************************************************************************)

\* What p has counted for a final tally.
OwnCount(p) ==
    Final(p) /\ step[p] \in Busying =>
        /\ at[p] \in final
        /\ step[p] = "store" => /\ validAtFinal[at[p]] \ redecided \subseteq counted[p]
                                /\ counted[p] \subseteq Valid(at[p]) \cup {Listed} \cup redecided

\* A poll that begins or ends a visit has counted nothing yet.
LEMMA NothingCounted ==
    ASSUME NEW p \in Polls, step'[p] = "next"
    PROVE  OwnCount(p)'
BY DEF OwnCount, Busying

\* A poll counts for a final tally what is valid after the contract was finalized.
LEMMA OwnCountStep ==
    ASSUME ProjectionInv, NEW p \in Polls, PollAction(p)
    PROVE  OwnCount(p)'
<1> USE DEF chain, tables, polls, history
<1>0. /\ TypeOK /\ OwnWork(p) /\ OwnVisit(p) /\ OwnCount(p) /\ FinalizedLater
      /\ final' = final /\ validAtFinal' = validAtFinal
  BY OwnIsAll, VotesStay DEF ProjectionInv, TallyInv, CountsAreLateEnough, OwnCount
<1>1. CASE PollStart(p) \/ Request(p) \/ StageEnds(p)
  <2>1. step' = step
    BY <1>1 DEF PollStart, Request, StageEnds
  <2>2. step[p] \notin Busying
    BY <1>0, <1>1 DEF PollStart, Request, StageEnds, OwnVisit, Busying
  <2> QED
    BY <2>1, <2>2 DEF OwnCount
<1>2. CASE LastStageEnds(p) \/ LosesRace(p) \/ Clash(p) \/ Fails(p) \/ PutSummary(p)
  <2>1. step'[p] = "next"
    BY <1>0, <1>2, EndsKeep
    DEF LastStageEnds, LosesRace, Clash, Fails, Throws, PollEnds, PutSummary
  <2> QED
    BY <2>1, NothingCounted
<1>3. CASE IndexElection(p) \/ EnsureFinalizedProjection(p)
  <2>1. step[p] = "next"
    BY <1>3 DEF IndexElection, EnsureFinalizedProjection
  <2>2. PICK e \in todo[p] : (e \in final /\ Visits(p, e, "count")) \/ step' = step
    BY <1>3 DEF IndexElection, EnsureFinalizedProjection
  <2>3. CASE e \in final /\ Visits(p, e, "count")
    <3>1. at'[p] = e /\ step'[p] = "count"
      BY <1>0, <2>3 DEF Visits, TypeOK
    <3> QED
      BY <1>0, <2>3, <3>1 DEF OwnCount
  <2>4. CASE step' = step
    BY <2>1, <2>4, NothingCounted
  <2> QED
    BY <2>2, <2>3, <2>4
<1>4. CASE IndexPrivateVote(p) \/ Revisit(p) \/ TakesRequested(p)
  <2>1. stage[p] \in VoteStages /\ stage' = stage
    BY <1>4 DEF IndexPrivateVote, Revisit, VisitsVotes, VoteStages, StoreVote, TakesRequested
  <2> QED
    BY <2>1 DEF OwnCount, Final, VoteStages, Streams
<1>5. CASE ProcessSubmission(p) \/ LoadSubmission(p)
  <2>1. stage[p] \in VoteStages /\ stage' = stage
    BY <1>0, <1>5 DEF ProcessSubmission, LoadSubmission, OwnVisit
  <2> QED
    BY <2>1 DEF OwnCount, Final, VoteStages, Streams
<1>6. CASE CountVotes(p) \/ CountWithoutManifest(p)
  <2>1. /\ step[p] = "count" /\ step[p] \in Busying /\ at' = at /\ stage' = stage
        /\ at[p] \in Elections /\ step'[p] = "store"
        /\ counted'[p] = Valid(at[p]) \cup {Listed} \/ counted'[p] = Valid(at[p])
    BY <1>0, <1>6 DEF CountVotes, CountWithoutManifest, OwnVisit, Busying, TypeOK
  <2>2. Valid(at[p])' = Valid(at[p]) /\ redecided' = redecided
    BY <1>6 DEF CountVotes, CountWithoutManifest, Valid, Stored, VotesOf
  <2>3. Final(p)' => at[p] \in final
    BY <1>0, <2>1 DEF OwnCount, Final
  <2>4. validAtFinal[at[p]] \ redecided \subseteq Valid(at[p])
    BY <1>0, <2>1 DEF FinalizedLater
  <2>5. /\ validAtFinal[at[p]] \ redecided \subseteq counted'[p]
        /\ counted'[p] \subseteq Valid(at[p]) \cup {Listed} \cup redecided
    BY <2>1, <2>4
  <2> QED
    BY <1>0, <2>1, <2>2, <2>3, <2>5 DEF OwnCount
<1>7. CASE StoreTally(p)
  <2>1. step'[p] = "sum" /\ at' = at /\ stage' = stage /\ step[p] \in Busying
    BY <1>7 DEF StoreTally, Busying
  <2> QED
    BY <1>0, <2>1 DEF OwnCount, Final
<1>8. CASE CountSubmissions(p) \/ FindBallots(p)
  <2>1. step' = step /\ at' = at /\ stage' = stage /\ step[p] = "sum"
    BY <1>8 DEF CountSubmissions, FindBallots
  <2> QED
    BY <1>0, <2>1 DEF OwnCount, Final
<1> QED
  BY <1>1, <1>2, <1>3, <1>4, <1>5, <1>6, <1>7, <1>8 DEF PollAction, Step

\* The step of a poll keeps the final tallies what they should be.
LEMMA PollKeepsTallies ==
    ASSUME ProjectionInv, NEW p \in Polls, PollAction(p)
    PROVE  TallyInv'
<1> USE DEF chain
<1>0. /\ TypeOK /\ PollsInv /\ FinalizedLater /\ CountsAreLateEnough
      /\ FinalTallyKeepsDecidedVotes
      /\ final' = final /\ validAtFinal' = validAtFinal /\ private' = private
      /\ redecided \subseteq redecided'
  BY VotesStay DEF ProjectionInv, TallyInv
<1>1. \A e \in Elections : Valid(e) \ redecided' \subseteq Valid(e)'
  BY <1>0, VotesStay, ValidGrows
<1>3. finalTally' = finalTally \/
      /\ at[p] \in final /\ finalTally' = [finalTally EXCEPT ![at[p]] = counted[p]]
      /\ validAtFinal[at[p]] \ redecided \subseteq counted[p]
      /\ counted[p] \subseteq Valid(at[p]) \cup {Listed} \cup redecided
  <2>1. CASE StoreTally(p) /\ Final(p)
    BY <1>0, <2>1 DEF StoreTally, CountsAreLateEnough, Busying
  <2> QED
    BY <2>1, VotesStay
<1>4. FinalizedLater'
  BY <1>0, <1>1, <1>3 DEF FinalizedLater, TypeOK
<1>5. FinalTallyKeepsDecidedVotes'
  <2> SUFFICES ASSUME NEW e \in Elections, finalTally'[e] # {}
               PROVE  validAtFinal[e] \ redecided' \subseteq finalTally'[e]
                      /\ finalTally'[e] \subseteq Valid(e)' \cup {Listed} \cup redecided'
    BY <1>0 DEF FinalTallyKeepsDecidedVotes
  <2>1. CASE finalTally'[e] = finalTally[e]
    BY <1>0, <1>1, <2>1 DEF FinalTallyKeepsDecidedVotes
  <2>2. CASE finalTally'[e] # finalTally[e]
    <3>1. e = at[p] /\ finalTally'[e] = counted[p]
      BY <1>0, <1>3, <2>2 DEF TypeOK
    <3> QED
      BY <1>0, <1>1, <1>3, <2>2, <3>1
  <2> QED
    BY <2>1, <2>2
<1>6. CountsAreLateEnough'
  <2>1. OwnCount(p)'
    BY OwnCountStep
  <2>2. ASSUME NEW q \in Polls \ {p}
        PROVE  OwnCount(q)'
    <3>1. OwnCount(q)
      BY <1>0 DEF CountsAreLateEnough, OwnCount
    <3>2. /\ stage'[q] = stage[q] /\ at'[q] = at[q] /\ counted'[q] = counted[q]
          /\ step'[q] = step[q] \/ (step[q] = "store" /\ step'[q] = "clash")
      BY <1>0, OthersStay
    <3>3. step[q] \in Busying => at[q] \in Elections
      BY <1>0 DEF PollsInv, VisitsAreOfSomething
    <3> QED
      BY <1>0, <1>1, <3>1, <3>2, <3>3 DEF OwnCount, Final, Busying
  <2> QED
    BY <2>1, <2>2 DEF CountsAreLateEnough, OwnCount
<1> QED
  BY <1>4, <1>5, <1>6 DEF TallyInv

\* The chain's steps keep the invariant: what is valid when a contract is finalized is
\* remembered, and no tally of it has been counted.
LEMMA ChainKeeps ==
    ASSUME ProjectionInv, Mine \/ \E e \in Elections : Finalize(e)
    PROVE  PollsInv' /\ TallyInv'
<1> USE DEF tables, polls, history
<1>0. TypeOK /\ PollsInv /\ TallyInv
  BY DEF ProjectionInv
<1>1. CASE Mine
  BY <1>0, <1>1
  DEF Mine, history, PollsInv, StagesVisitTheirKind, VisitsAreOfSomething, TallyInv, FinalizedLater,
      CountsAreLateEnough, FinalTallyKeepsDecidedVotes, Final, Valid, Stored
<1>2. ASSUME NEW e \in Elections, Finalize(e)
      PROVE  PollsInv' /\ TallyInv'
  <2>1. /\ e \notin final /\ final' = final \cup {e}
        /\ validAtFinal' = [validAtFinal EXCEPT ![e] = Valid(e)]
        /\ UNCHANGED <<private, submitted, ballots, finalTally, stage, step, todo, at, vote, counted,
                       redecided>>
    BY <1>2 DEF Finalize
  <2>2. finalTally[e] = {}
    BY <1>0, <2>1 DEF TallyInv, FinalizedLater
  <2>3. \A d : Valid(d)' = Valid(d)
    BY <2>1 DEF Valid, Stored
  <2>4. PollsInv'
    BY <1>0, <2>1 DEF PollsInv, StagesVisitTheirKind, VisitsAreOfSomething
  <2>6. FinalizedLater'
    BY <1>0, <2>1, <2>3 DEF TallyInv, FinalizedLater, TypeOK
  <2>7. CountsAreLateEnough'
    BY <1>0, <2>1, <2>3 DEF TallyInv, CountsAreLateEnough, Final, TypeOK
  <2>8. FinalTallyKeepsDecidedVotes'
    BY <1>0, <2>1, <2>2, <2>3 DEF TallyInv, FinalTallyKeepsDecidedVotes, TypeOK
  <2> QED
    BY <2>4, <2>6, <2>7, <2>8 DEF TallyInv
<1> QED
  BY <1>1, <1>2

-----------------------------------------------------------------------------
(***************************************************************************)
(* The theorems.                                                           *)
(***************************************************************************)

\* ProjectionInv holds at the start.
LEMMA ProjectionInvInit == Init => ProjectionInv
<1> SUFFICES ASSUME Init
             PROVE  ProjectionInv
  OBVIOUS
<1>1. TypeOK
  <2>1. {} \in Tallies /\ Unread \in Counts(Nat \cup {NoCount}) /\ 0 \in 0..LastBlock
        /\ 0 \in 0..MaxFaults
    BY ProjectionAssumption DEF Tallies, Unread, Counts
  <2> QED
    BY <2>1 DEF Init, TypeOK
<1>2. PollsInv
  BY DEF Init, PollsInv, StagesVisitTheirKind, VisitsAreOfSomething, Busying
<1>4. FinalizedLater /\ FinalTallyKeepsDecidedVotes
  BY DEF Init, FinalizedLater, FinalTallyKeepsDecidedVotes
<1>5. CountsAreLateEnough
  BY DEF Init, CountsAreLateEnough, Final, Busying
<1> QED
  BY <1>1, <1>2, <1>4, <1>5 DEF ProjectionInv, TallyInv

\* Every step keeps ProjectionInv.
LEMMA ProjectionInvNext == ProjectionInv /\ [Next]_vars => ProjectionInv'
<1> SUFFICES ASSUME ProjectionInv, [Next]_vars
             PROVE  ProjectionInv'
  OBVIOUS
<1>1. CASE Mine \/ \E e \in Elections : Finalize(e)
  BY <1>1, ChainTyped, ChainKeeps DEF ProjectionInv
<1>2. ASSUME NEW p \in Polls, PollAction(p)
      PROVE  ProjectionInv'
  BY <1>2, PollTyped, PollKeepsPolls, PollKeepsTallies DEF ProjectionInv, PollAction
<1>3. CASE UNCHANGED vars
  BY <1>3
  DEF vars, chain, tables, polls, history, ProjectionInv, TypeOK, PollsInv,
      StagesVisitTheirKind, VisitsAreOfSomething, TallyInv, FinalizedLater,
      CountsAreLateEnough, FinalTallyKeepsDecidedVotes, Final, Valid, Stored
<1> QED
  BY <1>1, <1>2, <1>3 DEF Next, PollAction

\* A poll that counts for a final tally counts what was valid when the contract was
\* finalized, however long the counting takes and whoever else counts, but for votes whose
\* verdict has been replaced.
THEOREM ProjectionInvariant == Spec => []ProjectionInv
BY ProjectionInvInit, ProjectionInvNext, PTL DEF Spec

\* The variables keep their types.
THEOREM TypeCorrectness == Spec => []TypeOK
<1>1. ProjectionInv => TypeOK
  BY DEF ProjectionInv
<1> QED
  BY <1>1, ProjectionInvariant, PTL

\* No final tally misses a vote that was valid when the contract was finalized, or counts
\* one that is not, unless the vote's verdict was replaced by another: for any number of
\* overlapping polls and requests, votes and failures, whatever validations come to.
THEOREM FinalTalliesKeepVotes == Spec => []FinalTallyKeepsDecidedVotes
<1>1. ProjectionInv => FinalTallyKeepsDecidedVotes
  BY DEF ProjectionInv, TallyInv
<1> QED
  BY <1>1, ProjectionInvariant, PTL
=============================================================================
