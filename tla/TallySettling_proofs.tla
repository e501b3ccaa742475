--------------------------- MODULE TallySettling_proofs ---------------------------
(***************************************************************************)
(* Theorem about TallyProjection: the live tallies and the summaries       *)
(* settle on what is stored, of elections whose recomputes did not overlap *)
(* and of which no replaced verdict was left without its recompute, for    *)
(* any elections, votes, polls and requests, verdicts and failures.        *)
(***************************************************************************)
EXTENDS TallyProjection_proofs

-----------------------------------------------------------------------------
(***************************************************************************)
(* The inductive invariant.                                                *)
(***************************************************************************)

\* Nothing is left to do for the vote but to count it.
Fixed(v) == v \in submitted /\ (IsPrivate(v) => ballots[v] # None)

\* Poll p scans the stream of v and has come past v, or is at it.
Behind(p, v) == stage[p] = StreamOf(v) /\ BlockOf[v] <= latest[p] /\ v \notin todo[p]

IsAt(p, e) == step[p] \in Busying /\ at[p] = e

Deciding(p) == step[p] \in {"load", "decide"}
Scans == Streams \cup {"pending"}

\* Polls see what is mined, and visit what they see.
PollsLookAtTheChain ==
    /\ \A v \in submitted : BlockOf[v] <= mined
    /\ \A p \in Polls : latest[p] <= mined
    /\ \A p \in Polls : stage[p] \in Scans => \A v \in todo[p] : BlockOf[v] <= latest[p]

\* Requests are for stored private votes, and the vote a poll or request decides is one of
\* the election it is at.
PollsKnowTheirVote ==
    \A p \in Polls :
        /\ stage[p] = "request" => \A v \in todo[p] : IsPrivate(v) /\ v \in submitted
        /\ Deciding(p) => /\ IsPrivate(vote[p]) /\ vote[p] \in submitted
                          /\ at[p] = ElectionOf[vote[p]]

\* A cursor passes a vote, and a scan goes on from it, only when it is stored and decided.
ScansLeaveNoVote ==
    \A v \in Votes :
        /\ BlockOf[v] < cursor[StreamOf(v)] => Fixed(v)
        /\ \A p \in Polls : Behind(p, v) => Fixed(v) \/ (Deciding(p) /\ vote[p] = v)

\* Without an overlap one poll at a time recomputes an election.
OneRecomputes ==
    \A e \in Elections \ overlapped : \A p, q \in Polls : Busy(e, p) /\ Busy(e, q) => p = q

\* Some poll will yet recompute the election of v: the cursor is before v, and a scan
\* that is past v is still at its election.
Owing(v) ==
    /\ cursor[StreamOf(v)] <= BlockOf[v]
    /\ \A p \in Polls : Behind(p, v) => IsAt(p, ElectionOf[v])

\* Or a poll or request has replaced a verdict of e and is still at its recompute.
Mends(p, e) == Busy(e, p) /\ ~Final(p) /\ vote[p] \in redecided

Current(e) == liveTally[e] \ {Listed} = Valid(e) /\ summary[e] = SummaryOf(e)

Agrees(n, m) == n = NoCount \/ n = m

\* What p has read of e, and stored of it, is what the tables hold.
ReadRight(p, e) ==
    /\ step[p] = "store" => counted[p] \ {Listed} = Valid(e)
    /\ step[p] = "sum" =>
        /\ ~Final(p) => liveTally[e] \ {Listed} = Valid(e)
        /\ Agrees(sums[p].submissions, SummaryOf(e).submissions)
        /\ Agrees(sums[p].decrypted, SummaryOf(e).decrypted)
        /\ Agrees(sums[p].valid, SummaryOf(e).valid)

\* A tally or a summary is out of date only while a vote of its election is owing, or a
\* replaced verdict has still to be counted, ...
LateTalliesAreOwed ==
    \A e \in Elections \ (overlapped \cup abandoned) :
        \/ Stored(e) = {} \/ Current(e)
        \/ \E v \in Stored(e) : Owing(v)
        \/ \E p \in Polls : Mends(p, e)

\* ... and what a poll has read only with a vote that poll will come to or leaves to others.
LateReadsAreOwed ==
    \A e \in Elections \ overlapped, p \in Polls : at[p] = e =>
        ReadRight(p, e) \/ \E v \in Stored(e) : Owing(v) /\ ~Behind(p, v)

\* Nothing is read for a summary before the tally is stored.
SumsAreFresh == \A p \in Polls : step[p] # "sum" => sums[p] = Unread

ScanInv == /\ PollsLookAtTheChain
           /\ PollsKnowTheirVote
           /\ ScansLeaveNoVote
           /\ OneRecomputes
           /\ SumsAreFresh

SettleInv == ProjectionInv /\ ScanInv /\ LateTalliesAreOwed /\ LateReadsAreOwed

-----------------------------------------------------------------------------
(***************************************************************************)
(* What a step does to a vote.                                             *)
(***************************************************************************)

\* Poll p takes up v: it stores it, and goes on to load it or to count.
Takes(p, v) ==
    /\ v \in todo[p] /\ todo' = [todo EXCEPT ![p] = @ \ {v}]
    /\ stage[p] \in Scans /\ step[p] = "next"
    /\ submitted' = submitted \cup {v}
    /\ at'[p] = ElectionOf[v]
    /\ \/ step'[p] = "load" /\ vote'[p] = v /\ IsPrivate(v) /\ ballots[v] = None
       \/ step'[p] = "count" /\ (IsPrivate(v) => ballots[v] # None)
    /\ UNCHANGED <<chain, cursor, ballots, liveTally, summary, stage, latest>>

\* The two ways to visit a vote take it up.
LEMMA VisitTakes ==
    ASSUME TypeOK, PollsInv, NEW p \in Polls, IndexPrivateVote(p) \/ Revisit(p)
    PROVE  \E v \in Votes : Takes(p, v)
<1>1. PICK v \in todo[p] :
            /\ StoreVote(p, v)
            /\ \/ /\ IsPrivate(v) /\ ballots[v] = None
                  /\ vote' = [vote EXCEPT ![p] = v] /\ Visits(p, ElectionOf[v], "load")
               \/ (IsPrivate(v) => ballots[v] # None) /\ Visits(p, ElectionOf[v], "count")
  BY DEF IndexPrivateVote, Revisit
<1>2. stage[p] \in Scans /\ step[p] = "next"
  BY DEF IndexPrivateVote, Revisit, VisitsVotes, Scans
<1>3. v \in Votes
  BY <1>1, <1>2 DEF PollsInv, StagesVisitTheirKind, Scans, VoteStages
<1>4. Takes(p, v)
  BY <1>1, <1>2 DEF Takes, StoreVote, Visits, TypeOK
<1> QED
  BY <1>3, <1>4

\* The steps of a poll that touch neither votes nor tallies nor what was counted.
Quiet(p) ==
    \/ PollStart(p) \/ Request(p) \/ StageEnds(p) \/ LastStageEnds(p) \/ LosesRace(p)
    \/ Clash(p) \/ Fails(p) \/ IndexElection(p) \/ EnsureFinalizedProjection(p)

Counting(p) ==
    \/ CountVotes(p) \/ CountWithoutManifest(p) \/ StoreTally(p) \/ CountSubmissions(p)
    \/ FindBallots(p) \/ PutSummary(p)

\* These are the steps of a poll.
LEMMA PollSteps ==
    ASSUME TypeOK, PollsInv, NEW p \in Polls, PollAction(p)
    PROVE  \/ Quiet(p)
           \/ Counting(p)
           \/ \E v \in Votes : Takes(p, v)
           \/ TakesRequested(p) \/ LoadSubmission(p) \/ ProcessSubmission(p)
BY VisitTakes DEF PollAction, Step, Quiet, Counting

LEMMA QuietSteps ==
    ASSUME NEW p \in Polls, Quiet(p)
    PROVE  UNCHANGED <<chain, submitted, ballots, liveTally, summary>>
BY DEF Quiet, PollStart, Request, StageEnds, LastStageEnds, LosesRace, Clash, Fails,
       IndexElection, EnsureFinalizedProjection, tables

\* Nor do those that lead to a decision.
LEMMA LoadingSteps ==
    ASSUME TypeOK, NEW p \in Polls, TakesRequested(p) \/ LoadSubmission(p)
    PROVE  /\ UNCHANGED <<chain, cursor, indexed, submitted, ballots, liveTally, summary, stage,
                          latest, counted, sums, overlapped, redecided>>
           /\ Deciding(p)'
BY DEF TakesRequested, LoadSubmission, Visits, Deciding, tables, history, TypeOK

\* After a quiet step the poll is between two visits, or has yet to count.
LEMMA QuietRests ==
    ASSUME TypeOK, PollsInv, NEW p \in Polls, Quiet(p)
    PROVE  step'[p] \in {"next", "count"}
<1>1. CASE PollStart(p) \/ Request(p) \/ StageEnds(p)
  <2>1. step' = step
    BY <1>1 DEF PollStart, Request, StageEnds
  <2>2. step[p] = "next"
    <3>1. step[p] \notin Busying
      BY <1>1 DEF PollStart, Request, StageEnds, PollsInv, VisitsAreOfSomething, Busying
    <3> QED
      BY <3>1 DEF Busying, Steps, TypeOK
  <2> QED
    BY <2>1, <2>2
<1>2. CASE LastStageEnds(p) \/ LosesRace(p) \/ Clash(p) \/ Fails(p)
  BY <1>2 DEF LastStageEnds, LosesRace, Clash, Fails, Throws, PollEnds, VisitEnds, TypeOK
<1>3. CASE IndexElection(p) \/ EnsureFinalizedProjection(p)
  BY <1>3 DEF IndexElection, EnsureFinalizedProjection, Visits, TypeOK
<1> QED
  BY <1>1, <1>2, <1>3 DEF Quiet

\* Through with the scan of a stream, the poll moves the cursor behind what it has seen.
CursorMoves(p) ==
    /\ step[p] = "next" /\ todo[p] = {}
    /\ cursor' = [s \in Streams |-> IF s = stage[p] THEN latest[p] + 1 ELSE cursor[s]]

LEMMA CursorSteps ==
    ASSUME NEW p \in Polls, PollAction(p)
    PROVE  cursor' = cursor \/ CursorMoves(p)
<1>1. CASE StageEnds(p)
  BY <1>1 DEF StageEnds, CursorMoves
<1>2. CASE ProcessSubmission(p) \/ CountVotes(p) \/ CountWithoutManifest(p) \/ StoreTally(p)
           \/ CountSubmissions(p) \/ FindBallots(p) \/ PutSummary(p)
  BY <1>2 DEF ProcessSubmission, CountVotes, CountWithoutManifest, StoreTally, CountSubmissions,
              FindBallots, PutSummary, tables
<1>3. CASE IndexPrivateVote(p) \/ Revisit(p)
  BY <1>3 DEF IndexPrivateVote, Revisit, StoreVote
<1>4. CASE PollStart(p) \/ Request(p) \/ LastStageEnds(p) \/ LosesRace(p) \/ Clash(p)
           \/ Fails(p) \/ IndexElection(p) \/ EnsureFinalizedProjection(p)
           \/ TakesRequested(p) \/ LoadSubmission(p)
  BY <1>4 DEF PollStart, Request, LastStageEnds, LosesRace, Clash, Fails, IndexElection,
              EnsureFinalizedProjection, TakesRequested, LoadSubmission, tables
<1> QED
  BY <1>1, <1>2, <1>3, <1>4 DEF PollAction, Step

\* While a poll loads, decides and counts it stays where it is.
LEMMA CountingStays ==
    ASSUME TypeOK, NEW p \in Polls, Counting(p) \/ ProcessSubmission(p) \/ LoadSubmission(p)
    PROVE  /\ UNCHANGED <<private, stage, todo, latest, cursor, submitted, indexed>>
           /\ step[p] # "next" /\ (Deciding(p) => ProcessSubmission(p) \/ LoadSubmission(p))
           /\ PutSummary(p) \/ \A e : IsAt(p, e) => IsAt(p, e)'
<1> USE DEF chain, tables, Deciding
<1>1. CASE ProcessSubmission(p) \/ LoadSubmission(p)
  BY <1>1 DEF ProcessSubmission, LoadSubmission, Visits, IsAt, Busying, TypeOK
<1>2. CASE CountVotes(p) \/ CountWithoutManifest(p)
  BY <1>2 DEF CountVotes, CountWithoutManifest, IsAt, Busying, TypeOK
<1>3. CASE StoreTally(p)
  BY <1>3 DEF StoreTally, IsAt, Busying
<1>4. CASE CountSubmissions(p) \/ FindBallots(p)
  BY <1>4 DEF CountSubmissions, FindBallots, IsAt
<1>5. CASE PutSummary(p)
  BY <1>5 DEF PutSummary
<1> QED
  BY <1>1, <1>2, <1>3, <1>4, <1>5 DEF Counting

\* A poll that ends or throws is in no scan any more.
LEMMA EndsBehindNothing ==
    ASSUME TypeOK, NEW p \in Polls, NEW v,
           LastStageEnds(p) \/ LosesRace(p) \/ Clash(p) \/ Fails(p)
    PROVE  ~Behind(p, v)'
<1>1. stage'[p] = "idle" \/ stage'[p] = "states"
  BY DEF LastStageEnds, LosesRace, Clash, Fails, Throws, PollEnds, TypeOK
<1> QED
  BY <1>1 DEF Behind, StreamOf

\* A poll comes behind a vote that the cursor has passed, or when it takes it up.
LEMMA OwnBehind ==
    ASSUME TypeOK, PollsInv, NEW p \in Polls, PollAction(p), NEW v \in Votes, Behind(p, v)'
    PROVE  \/ BlockOf[v] < cursor[StreamOf(v)]
           \/ Takes(p, v)
           \/ /\ Behind(p, v)
              /\ Deciding(p) => ProcessSubmission(p) \/ LoadSubmission(p)
              /\ PutSummary(p) \/ \A e : IsAt(p, e) => IsAt(p, e)'
<1>1. CASE LastStageEnds(p) \/ LosesRace(p) \/ Clash(p) \/ Fails(p)
  BY <1>1, EndsBehindNothing
<1>2. CASE PollStart(p) \/ Request(p) \/ IndexElection(p) \/ EnsureFinalizedProjection(p)
           \/ TakesRequested(p)
  <2>1. stage'[p] \in ElectionStages \cup {"request"}
    BY <1>2 DEF PollStart, Request, IndexElection, EnsureFinalizedProjection, TakesRequested,
                ElectionStages, TypeOK
  <2> QED
    BY <2>1 DEF Behind, StreamOf, ElectionStages
<1>3. CASE StageEnds(p)
  <2>1. PICK i \in DOMAIN Order, j \in DOMAIN Order :
            /\ Order[i] = stage[p] /\ i < j
            /\ stage' = [stage EXCEPT ![p] = Order[j]]
            /\ TakesUp(p, Order[j])
    BY <1>3 DEF StageEnds
  <2>2. stage'[p] = Order[j] /\ UNCHANGED <<private, latest>>
    BY <1>3, <2>1 DEF StageEnds, chain, TypeOK
  <2>3. Order[j] = StreamOf(v) /\ Order[j] \in Streams
    BY <2>2 DEF Behind, StreamOf, IsPrivate, Streams
  <2>4. todo' = [todo EXCEPT ![p] = Unscanned(StreamOf(v), p)]
    BY <2>1, <2>3 DEF TakesUp, Streams
  <2>5. v \notin Unscanned(StreamOf(v), p) /\ BlockOf[v] <= latest[p]
    BY <2>2, <2>4 DEF Behind, TypeOK
  <2>6. BlockOf[v] \in Nat /\ cursor[StreamOf(v)] \in Nat
    BY ProjectionAssumption DEF TypeOK, StreamOf, Streams
  <2>7. latest[p] \in Nat
    BY DEF TypeOK
  <2> QED
    BY <2>5, <2>6, <2>7 DEF Unscanned
<1>4. ASSUME NEW u \in Votes, Takes(p, u)
      PROVE  Takes(p, v) \/ (Behind(p, v) /\ step[p] = "next")
  <2>1. todo'[p] = todo[p] \ {u} /\ UNCHANGED <<private, stage, latest>> /\ step[p] = "next"
    BY <1>4 DEF Takes, chain, TypeOK
  <2> QED
    BY <1>4, <2>1 DEF Behind, StreamOf, IsPrivate
<1>5. CASE Counting(p) \/ ProcessSubmission(p) \/ LoadSubmission(p)
  <2>1. Behind(p, v)
    BY <1>5, CountingStays DEF Behind, StreamOf, IsPrivate
  <2> QED
    BY <1>5, <2>1, CountingStays
<1>6. step[p] = "next" => ~Deciding(p) /\ \A e : ~IsAt(p, e)
  BY DEF IsAt, Busying, Deciding
<1> QED
  BY <1>1, <1>2, <1>3, <1>4, <1>5, <1>6, PollSteps DEF Quiet

\* A step of another poll changes nothing of it.
LEMMA OtherBehind ==
    ASSUME TypeOK, NEW p \in Polls, PollAction(p), NEW q \in Polls \ {p}, NEW v,
           UNCHANGED private
    PROVE  /\ Behind(q, v)' <=> Behind(q, v)
           /\ \A e : IsAt(q, e)' <=> IsAt(q, e)
           /\ Deciding(q)' <=> Deciding(q)
<1>1. /\ stage'[q] = stage[q] /\ todo'[q] = todo[q] /\ at'[q] = at[q] /\ latest'[q] = latest[q]
      /\ step'[q] = step[q] \/ (step[q] = "store" /\ step'[q] = "clash")
  BY OthersStay
<1>2. Behind(q, v)' <=> Behind(q, v)
  BY <1>1 DEF Behind, StreamOf, IsPrivate
<1> QED
  BY <1>1, <1>2 DEF IsAt, Busying, Deciding

-----------------------------------------------------------------------------
(***************************************************************************)
(* What polls know of votes.                                               *)
(***************************************************************************)

\* A vote that is stored and decided stays so.
LEMMA VotesStayFixed ==
    ASSUME ProjectionInv, ScanInv, NEW p \in Polls, PollAction(p), NEW v \in Votes
    PROVE  Fixed(v) => Fixed(v)'
<1>0. TypeOK /\ PollsInv
  BY DEF ProjectionInv
<1>1. private' = private /\ submitted \subseteq submitted'
  BY VotesStay DEF chain
<1>2. ballots[v] # None => ballots'[v] # None
  <2>1. CASE ProcessSubmission(p)
    <3>1. PICK verdict \in {"valid", "invalid"} :
              ballots' = [ballots EXCEPT ![vote[p]] = verdict]
      BY <2>1 DEF ProcessSubmission
    <3> QED
      BY <1>0, <3>1 DEF TypeOK, None
  <2>2. CASE ~ProcessSubmission(p)
    <3>1. ballots' = ballots
      BY <1>0, <2>2, PollSteps, QuietSteps, LoadingSteps
      DEF Counting, CountVotes, CountWithoutManifest, StoreTally, CountSubmissions,
          FindBallots, PutSummary, Takes, tables
    <3> QED
      BY <3>1
  <2> QED
    BY <2>1, <2>2
<1> QED
  BY <1>1, <1>2 DEF Fixed, IsPrivate

\* A poll sees the blocks up to its latest one.
LEMMA PollSeesChain ==
    ASSUME ProjectionInv, PollsLookAtTheChain, NEW p \in Polls, PollAction(p)
    PROVE  /\ latest'[p] <= mined /\ mined' = mined
           /\ stage'[p] \in Scans => \A v \in todo'[p] : BlockOf[v] <= latest'[p]
<1>0. TypeOK /\ PollsInv /\ mined' = mined /\ latest[p] <= mined
  BY VotesStay DEF ProjectionInv, PollsLookAtTheChain, chain
<1>1. CASE LastStageEnds(p) \/ LosesRace(p) \/ Clash(p) \/ Fails(p)
  <2>1. CASE PollEnds(p)
    BY <1>0, <2>1 DEF PollEnds, Scans, Streams, TypeOK
  <2>2. CASE stage[p] = "states" /\ UNCHANGED <<stage, todo, latest>>
    BY <1>0, <2>2 DEF Scans, Streams
  <2> QED
    BY <1>1, <2>1, <2>2 DEF LastStageEnds, LosesRace, Clash, Fails, Throws
<1>2. CASE PollStart(p) \/ Request(p)
  <2>1. stage'[p] \in {"index", "request"} /\ latest'[p] \in {mined, latest[p]}
    BY <1>0, <1>2 DEF PollStart, Request, TypeOK
  <2> QED
    BY <1>0, <2>1 DEF Scans, Streams, TypeOK
<1>3. CASE IndexElection(p) \/ EnsureFinalizedProjection(p)
  <2>1. stage' = stage /\ latest' = latest /\ stage[p] \in ElectionStages
    BY <1>3 DEF IndexElection, EnsureFinalizedProjection, ElectionStages
  <2> QED
    BY <1>0, <2>1 DEF Scans, Streams, ElectionStages
<1>4. CASE StageEnds(p)
  <2>1. PICK j \in DOMAIN Order :
            /\ stage' = [stage EXCEPT ![p] = Order[j]]
            /\ TakesUp(p, Order[j])
    BY <1>4 DEF StageEnds
  <2>2. stage'[p] = Order[j] /\ latest' = latest
    BY <1>0, <1>4, <2>1 DEF StageEnds, TypeOK
  <2>3. ASSUME NEW s \in Streams, todo' = [todo EXCEPT ![p] = Unscanned(s, p)], NEW v \in todo'[p]
        PROVE  BlockOf[v] <= latest'[p]
    <3>1. v \in Unscanned(s, p)
      BY <1>0, <2>3 DEF TypeOK
    <3>2. v \in Votes /\ BlockOf[v] \in cursor[s]..latest[p]
      BY <3>1 DEF Unscanned
    <3> QED
      BY <1>0, <2>2, <3>2
  <2>4. ASSUME NEW from, todo' = [todo EXCEPT ![p] = Since(from, p)], NEW v \in todo'[p]
        PROVE  BlockOf[v] <= latest'[p]
    <3>1. v \in Since(from, p)
      BY <1>0, <2>4 DEF TypeOK
    <3>2. v \in Votes /\ BlockOf[v] \in from..latest[p]
      BY <3>1 DEF Since
    <3> QED
      BY <1>0, <2>2, <3>2
  <2>5. stage'[p] \in Streams => todo' = [todo EXCEPT ![p] = Unscanned(stage'[p], p)]
    BY <2>1, <2>2 DEF TakesUp, Streams
  <2>6. stage'[p] = "pending" => \E from : todo' = [todo EXCEPT ![p] = Since(from, p)]
    BY <2>1, <2>2 DEF TakesUp, Streams
  <2>7. stage'[p] \in Scans => \A v \in todo'[p] : BlockOf[v] <= latest'[p]
    BY <2>3, <2>4, <2>5, <2>6 DEF Scans
  <2> QED
    BY <1>0, <2>2, <2>7
<1>5. CASE Counting(p) \/ ProcessSubmission(p) \/ LoadSubmission(p)
  BY <1>0, <1>5, CountingStays DEF PollsLookAtTheChain
<1>6. ASSUME NEW u \in Votes, Takes(p, u)
      PROVE  latest'[p] <= mined /\ \A v \in todo'[p] : BlockOf[v] <= latest'[p]
  <2>1. latest' = latest /\ todo'[p] \subseteq todo[p] /\ stage[p] \in Scans
    BY <1>0, <1>6 DEF Takes, TypeOK
  <2> QED
    BY <1>0, <2>1 DEF PollsLookAtTheChain
<1>7. CASE TakesRequested(p)
  BY <1>0, <1>7, LoadingSteps DEF TakesRequested, Scans, Streams
<1> QED
  BY <1>0, <1>1, <1>2, <1>3, <1>4, <1>5, <1>6, <1>7, PollSteps DEF Quiet

LEMMA PollKeepsLook ==
    ASSUME ProjectionInv, ScanInv, NEW p \in Polls, PollAction(p)
    PROVE  PollsLookAtTheChain'
<1>0. TypeOK /\ PollsInv /\ PollsLookAtTheChain
  BY DEF ProjectionInv, ScanInv
<1>1. mined' = mined /\ latest'[p] <= mined
      /\ (stage'[p] \in Scans => \A v \in todo'[p] : BlockOf[v] <= latest'[p])
  BY <1>0, PollSeesChain
<1>2. \A v \in submitted' : BlockOf[v] <= mined
  <2>1. ASSUME NEW u \in Votes, Takes(p, u)
        PROVE  BlockOf[u] <= mined
    <3>1. BlockOf[u] <= latest[p] /\ latest[p] <= mined
      BY <1>0, <2>1 DEF Takes, PollsLookAtTheChain
    <3>2. BlockOf[u] \in Nat /\ latest[p] \in Nat /\ mined \in Nat
      BY <1>0, ProjectionAssumption DEF TypeOK
    <3> QED
      BY <3>1, <3>2
  <2>2. ~(\E u \in Votes : Takes(p, u)) => submitted' = submitted
    BY <1>0, PollSteps, QuietSteps, CountingStays, LoadingSteps
  <2> QED
    BY <1>0, <2>1, <2>2 DEF PollsLookAtTheChain, Takes
<1>3. ASSUME NEW q \in Polls \ {p}
      PROVE  /\ latest'[q] <= mined
             /\ stage'[q] \in Scans => \A v \in todo'[q] : BlockOf[v] <= latest'[q]
  BY <1>0, OthersStay DEF PollsLookAtTheChain
<1> QED
  BY <1>1, <1>2, <1>3 DEF PollsLookAtTheChain

LEMMA PollKeepsVote ==
    ASSUME ProjectionInv, ScanInv, NEW p \in Polls, PollAction(p)
    PROVE  PollsKnowTheirVote'
<1>0. /\ TypeOK /\ PollsInv /\ PollsKnowTheirVote
      /\ private' = private /\ submitted \subseteq submitted'
  BY VotesStay DEF ProjectionInv, ScanInv, chain
<1>1. ASSUME stage'[p] = "request", NEW v \in todo'[p]
      PROVE  IsPrivate(v) /\ v \in submitted'
  <2>1. CASE Request(p)
    <3>1. PICK wanted \in SUBSET submitted :
              todo' = [todo EXCEPT ![p] = wanted] /\ \A u \in wanted : u \in Votes /\ IsPrivate(u)
      BY <1>0, <2>1, RequestedVotes
    <3> QED
      BY <1>0, <1>1, <3>1 DEF TypeOK
  <2>2. CASE stage[p] = "request" /\ todo'[p] \subseteq todo[p]
    BY <1>0, <1>1, <2>2 DEF PollsKnowTheirVote
  <2>3. CASE Counting(p) \/ ProcessSubmission(p) \/ LoadSubmission(p)
    BY <1>0, <1>1, <2>2, <2>3, CountingStays
  <2>4. CASE TakesRequested(p)
    BY <1>0, <2>2, <2>4 DEF TakesRequested, TypeOK
  <2>5. CASE \E u \in Votes : Takes(p, u)
    BY <1>0, <1>1, <2>5 DEF Takes, Scans, Streams
  <2>6. CASE Quiet(p) /\ ~Request(p)
    <3>1. CASE StageEnds(p)
      BY <1>0, <1>1, <3>1 DEF StageEnds, Order, TypeOK
    <3>2. CASE PollStart(p) \/ LastStageEnds(p) \/ LosesRace(p) \/ Clash(p) \/ Fails(p)
      BY <1>0, <1>1, <2>2, <3>2
      DEF PollStart, LastStageEnds, LosesRace, Clash, Fails, Throws, PollEnds, TypeOK
    <3>3. CASE IndexElection(p) \/ EnsureFinalizedProjection(p)
      BY <1>0, <1>1, <3>3 DEF IndexElection, EnsureFinalizedProjection, TypeOK
    <3> QED
      BY <2>6, <3>1, <3>2, <3>3 DEF Quiet
  <2> QED
    BY <1>0, <2>1, <2>3, <2>4, <2>5, <2>6, PollSteps
<1>2. ASSUME Deciding(p)'
      PROVE  /\ IsPrivate(vote'[p]) /\ vote'[p] \in submitted'
             /\ at'[p] = ElectionOf[vote'[p]]
  <2>1. ~Quiet(p)
    BY <1>0, <1>2, QuietRests DEF Deciding
  <2>2. ~ProcessSubmission(p)
    BY <1>0, <1>2 DEF ProcessSubmission, Visits, Deciding, TypeOK
  <2>3. ~Counting(p)
    BY <1>0, <1>2
    DEF Counting, CountVotes, CountWithoutManifest, StoreTally, CountSubmissions, FindBallots,
        PutSummary, VisitEnds, Deciding, TypeOK
  <2>4. CASE \E v \in Votes : Takes(p, v)
    BY <1>2, <2>4 DEF Takes, Deciding
  <2>5. CASE TakesRequested(p)
    <3>1. PICK v \in todo[p] : vote' = [vote EXCEPT ![p] = v] /\ Visits(p, ElectionOf[v], "load")
      BY <2>5 DEF TakesRequested
    <3>2. IsPrivate(v) /\ v \in submitted
      BY <1>0, <2>5, <3>1 DEF TakesRequested, PollsKnowTheirVote
    <3> QED
      BY <1>0, <3>1, <3>2 DEF Visits, TypeOK
  <2>6. CASE LoadSubmission(p)
    BY <1>0, <2>6 DEF LoadSubmission, PollsKnowTheirVote, Deciding, tables
  <2> QED
    BY <1>0, <2>1, <2>2, <2>3, <2>4, <2>5, <2>6, PollSteps
<1>3. ASSUME NEW q \in Polls \ {p}
      PROVE  /\ stage'[q] = "request" => \A v \in todo'[q] : IsPrivate(v) /\ v \in submitted'
             /\ Deciding(q)' => /\ IsPrivate(vote'[q]) /\ vote'[q] \in submitted'
                                /\ at'[q] = ElectionOf[vote'[q]]
  <2>1. stage'[q] = stage[q] /\ todo'[q] = todo[q] /\ vote'[q] = vote[q] /\ at'[q] = at[q]
        /\ (Deciding(q)' => Deciding(q))
    BY <1>0, OthersStay, OtherBehind
  <2> QED
    BY <1>0, <2>1 DEF PollsKnowTheirVote
<1> QED
  BY <1>0, <1>1, <1>2, <1>3 DEF PollsKnowTheirVote, IsPrivate

\* A cursor or a scan that comes past a vote leaves it stored and decided.
LEMMA PollKeepsScans ==
    ASSUME ProjectionInv, ScanInv, NEW p \in Polls, PollAction(p)
    PROVE  ScansLeaveNoVote'
<1> SUFFICES ASSUME NEW v \in Votes
             PROVE  /\ BlockOf[v] < cursor'[StreamOf(v)] => Fixed(v)'
                    /\ \A q \in Polls : Behind(q, v)' => Fixed(v)' \/ (Deciding(q)' /\ vote'[q] = v)
  <2>1. private' = private
    BY VotesStay DEF chain
  <2> QED
    BY <2>1 DEF ScansLeaveNoVote, StreamOf, IsPrivate
<1>0. /\ TypeOK /\ PollsInv /\ private' = private
      /\ BlockOf[v] < cursor[StreamOf(v)] => Fixed(v)
      /\ \A q \in Polls : Behind(q, v) => Fixed(v) \/ (Deciding(q) /\ vote[q] = v)
      /\ Fixed(v) => Fixed(v)'
  BY VotesStay, VotesStayFixed DEF ProjectionInv, ScanInv, ScansLeaveNoVote, chain
<1>1. ASSUME BlockOf[v] < cursor'[StreamOf(v)]
      PROVE  Fixed(v)'
  <2>1. CASE cursor' = cursor
    BY <1>0, <1>1, <2>1
  <2>2. CASE CursorMoves(p) /\ stage[p] = StreamOf(v)
    <3>1. BlockOf[v] < latest[p] + 1 /\ step[p] = "next" /\ todo[p] = {}
      BY <1>1, <2>2 DEF CursorMoves, StreamOf, Streams
    <3>2. BlockOf[v] <= latest[p]
      BY <1>0, <3>1, ProjectionAssumption DEF TypeOK
    <3> QED
      BY <1>0, <2>2, <3>1, <3>2 DEF Behind, Deciding
  <2>3. CASE CursorMoves(p) /\ stage[p] # StreamOf(v)
    BY <1>0, <1>1, <2>3 DEF CursorMoves, StreamOf, Streams
  <2> QED
    BY <2>1, <2>2, <2>3, CursorSteps
<1>2. ASSUME Behind(p, v)'
      PROVE  Fixed(v)' \/ (Deciding(p)' /\ vote'[p] = v)
  <2>1. CASE Takes(p, v)
    BY <1>0, <2>1 DEF Takes, Fixed, IsPrivate, Deciding
  <2>2. CASE ProcessSubmission(p) /\ vote[p] = v
    <3>1. PICK verdict \in {"valid", "invalid"} :
              ballots' = [ballots EXCEPT ![v] = verdict]
      BY <2>2 DEF ProcessSubmission
    <3>2. v \in submitted /\ ballots'[v] # None /\ submitted' = submitted
      BY <1>0, <2>2, <3>1
      DEF ProcessSubmission, ScanInv, PollsKnowTheirVote, Deciding, TypeOK, None
    <3> QED
      BY <3>2 DEF Fixed
  <2>3. CASE LoadSubmission(p) /\ vote[p] = v
    BY <1>0, <2>3, LoadingSteps DEF LoadSubmission
  <2>4. CASE Behind(p, v) /\ (Deciding(p) => ProcessSubmission(p) \/ LoadSubmission(p))
    BY <1>0, <2>2, <2>3, <2>4
  <2> QED
    BY <1>0, <1>2, <2>1, <2>4, OwnBehind
<1>3. ASSUME NEW q \in Polls \ {p}, Behind(q, v)'
      PROVE  Fixed(v)' \/ (Deciding(q)' /\ vote'[q] = v)
  <2>1. Behind(q, v) /\ vote'[q] = vote[q] /\ (Deciding(q) => Deciding(q)')
    BY <1>0, <1>3, OtherBehind, OthersStay
  <2> QED
    BY <1>0, <2>1
<1> QED
  BY <1>1, <1>2, <1>3

\* A recompute that begins beside another one of the election is remembered.
LEMMA PollKeepsOne ==
    ASSUME ProjectionInv, ScanInv, NEW p \in Polls, PollAction(p)
    PROVE  OneRecomputes' /\ overlapped \subseteq overlapped'
<1>0. TypeOK /\ PollsInv /\ OneRecomputes
  BY DEF ProjectionInv, ScanInv
<1>1. \A q \in Polls \ {p} : \A e : Busy(e, q)' => Busy(e, q)
  BY <1>0, OthersStay DEF Busy
<1>2. /\ overlapped \subseteq overlapped'
      /\ \A e \in Elections : Busy(e, p)' =>
             \/ Busy(e, p)
             \/ \E q \in Polls \ {p} : Busy(e, q) /\ e \in overlapped'
             \/ \A q \in Polls \ {p} : ~Busy(e, q)
  <2> USE DEF history
  <2>1. CASE IndexElection(p) \/ EnsureFinalizedProjection(p)
    <3>1. PICK e \in todo[p] :
              (Visits(p, e, "count") /\ Overlaps(p, e)) \/ UNCHANGED <<at, step, overlapped>>
      BY <2>1 DEF IndexElection, EnsureFinalizedProjection
    <3>2. CASE Visits(p, e, "count") /\ Overlaps(p, e)
      BY <1>0, <3>2 DEF Visits, Overlaps, Busy, TypeOK
    <3>3. CASE UNCHANGED <<at, step, overlapped>>
      BY <3>3 DEF Busy
    <3> QED
      BY <3>1, <3>2, <3>3
  <2>2. CASE IndexPrivateVote(p)
    BY <1>0, <2>2 DEF IndexPrivateVote, Visits, Busy, TypeOK
  <2>3. CASE Revisit(p)
    <3>1. PICK e \in {ElectionOf[v] : v \in todo[p]} : Visits(p, e, "count") /\ Overlaps(p, e)
      BY <2>3 DEF Revisit
    <3> QED
      BY <1>0, <3>1 DEF Visits, Overlaps, Busy, TypeOK
  <2>4. CASE ProcessSubmission(p)
    <3>1. Visits(p, at[p], "count") /\ Overlaps(p, at[p])
      BY <2>4 DEF ProcessSubmission
    <3> QED
      BY <1>0, <3>1 DEF Visits, Overlaps, Busy, TypeOK
  <2>5. CASE PollStart(p) \/ Request(p) \/ StageEnds(p)
    BY <2>5 DEF PollStart, Request, StageEnds, Busy
  <2>6. CASE LastStageEnds(p) \/ LosesRace(p) \/ Clash(p) \/ Fails(p) \/ PutSummary(p)
    BY <1>0, <2>6
    DEF LastStageEnds, LosesRace, Clash, Fails, PutSummary, Throws, PollEnds, VisitEnds, Busy, TypeOK
  <2>7. CASE CountVotes(p) \/ CountWithoutManifest(p)
    BY <1>0, <2>7 DEF CountVotes, CountWithoutManifest, Busy, TypeOK
  <2>8. CASE StoreTally(p)
    BY <1>0, <2>8 DEF StoreTally, Busy
  <2>9. CASE CountSubmissions(p) \/ FindBallots(p)
    BY <2>9 DEF CountSubmissions, FindBallots, Busy
  <2>10. CASE TakesRequested(p) \/ LoadSubmission(p)
    BY <1>0, <2>10, LoadingSteps DEF Busy, Deciding
  <2> QED
    BY <2>1, <2>2, <2>3, <2>4, <2>5, <2>6, <2>7, <2>8, <2>9, <2>10 DEF PollAction, Step
<1>3. ASSUME NEW e \in Elections \ overlapped', NEW q \in Polls, NEW r \in Polls,
             Busy(e, q)', Busy(e, r)'
      PROVE  q = r
  <2>1. e \in Elections \ overlapped
    BY <1>2
  <2>2. \A s \in Polls \ {p} : Busy(e, p)' /\ Busy(e, s)' => FALSE
    BY <1>0, <1>1, <1>2, <1>3, <2>1 DEF OneRecomputes
  <2> QED
    BY <1>0, <1>1, <1>3, <2>1, <2>2 DEF OneRecomputes
<1> QED
  BY <1>2, <1>3 DEF OneRecomputes

LEMMA PollKeepsSums ==
    ASSUME ProjectionInv, ScanInv, NEW p \in Polls, PollAction(p)
    PROVE  SumsAreFresh'
<1>0. TypeOK /\ PollsInv /\ SumsAreFresh
  BY DEF ProjectionInv, ScanInv
<1>1. step'[p] # "sum" => sums'[p] = Unread
  <2> USE DEF tables
  <2>1. CASE PollStart(p) \/ Request(p) \/ StageEnds(p)
    BY <1>0, <2>1 DEF PollStart, Request, StageEnds, SumsAreFresh
  <2>2. CASE LastStageEnds(p) \/ LosesRace(p) \/ Clash(p) \/ Fails(p) \/ PutSummary(p)
    BY <1>0, <2>2
    DEF LastStageEnds, LosesRace, Clash, Fails, PutSummary, Throws, PollEnds, VisitEnds, TypeOK
  <2>3. CASE IndexElection(p) \/ EnsureFinalizedProjection(p)
    BY <1>0, <2>3 DEF IndexElection, EnsureFinalizedProjection, SumsAreFresh
  <2>4. CASE IndexPrivateVote(p) \/ Revisit(p)
    BY <1>0, <2>4 DEF IndexPrivateVote, Revisit, VisitsVotes, StoreVote, SumsAreFresh
  <2>5. CASE ProcessSubmission(p) \/ CountVotes(p) \/ CountWithoutManifest(p)
    BY <1>0, <2>5 DEF ProcessSubmission, CountVotes, CountWithoutManifest, SumsAreFresh
  <2>6. CASE StoreTally(p) \/ CountSubmissions(p) \/ FindBallots(p)
    BY <1>0, <2>6 DEF StoreTally, CountSubmissions, FindBallots
  <2>7. CASE TakesRequested(p) \/ LoadSubmission(p)
    BY <1>0, <2>7 DEF TakesRequested, LoadSubmission, SumsAreFresh
  <2> QED
    BY <2>1, <2>2, <2>3, <2>4, <2>5, <2>6, <2>7 DEF PollAction, Step
<1>2. ASSUME NEW q \in Polls \ {p}, step'[q] # "sum"
      PROVE  sums'[q] = Unread
  BY <1>0, <1>2, OthersStay DEF SumsAreFresh
<1> QED
  BY <1>1, <1>2 DEF SumsAreFresh

LEMMA PollKeepsScanInv ==
    ASSUME ProjectionInv, ScanInv, NEW p \in Polls, PollAction(p)
    PROVE  ScanInv'
BY PollKeepsLook, PollKeepsVote, PollKeepsScans, PollKeepsOne, PollKeepsSums
DEF ScanInv

-----------------------------------------------------------------------------
(***************************************************************************)
(* Who owes a recompute.                                                   *)
(***************************************************************************)

\* A vote is owing until a scan completes the recompute after it.
LEMMA OwingStays ==
    ASSUME ProjectionInv, ScanInv, NEW p \in Polls, PollAction(p), NEW v \in Votes,
           Owing(v), PutSummary(p) => ~Behind(p, v)
    PROVE  Owing(v)'
<1>0. TypeOK /\ PollsInv /\ private' = private
  BY VotesStay DEF ProjectionInv, chain
<1>1. cursor'[StreamOf(v)] <= BlockOf[v]
  <2>1. CASE cursor' = cursor
    BY <2>1 DEF Owing
  <2>2. CASE CursorMoves(p) /\ stage[p] = StreamOf(v)
    <3>1. ~Behind(p, v)
      BY <2>2 DEF Owing, IsAt, CursorMoves, Busying
    <3>2. ~(BlockOf[v] <= latest[p])
      BY <2>2, <3>1 DEF Behind, CursorMoves
    <3>3. cursor'[StreamOf(v)] = latest[p] + 1
      BY <2>2 DEF CursorMoves, StreamOf, Streams
    <3> QED
      BY <1>0, <3>2, <3>3, ProjectionAssumption DEF TypeOK
  <2>3. CASE CursorMoves(p) /\ stage[p] # StreamOf(v)
    BY <2>3 DEF Owing, CursorMoves, StreamOf, Streams
  <2> QED
    BY <2>1, <2>2, <2>3, CursorSteps
<1>2. ASSUME Behind(p, v)'
      PROVE  IsAt(p, ElectionOf[v])'
  <2>1. ~(BlockOf[v] < cursor[StreamOf(v)])
    <3>1. BlockOf[v] \in Nat /\ cursor[StreamOf(v)] \in Nat
      BY <1>0, ProjectionAssumption DEF TypeOK, StreamOf, Streams
    <3> QED
      BY <3>1 DEF Owing
  <2>2. CASE Takes(p, v)
    BY <2>2 DEF Takes, IsAt, Busying
  <2>3. CASE Behind(p, v) /\ \A e : IsAt(p, e) => IsAt(p, e)'
    BY <2>3 DEF Owing
  <2> QED
    BY <1>0, <1>2, <2>1, <2>2, <2>3, OwnBehind
<1>3. ASSUME NEW q \in Polls \ {p}, Behind(q, v)'
      PROVE  IsAt(q, ElectionOf[v])'
  BY <1>0, <1>3, OtherBehind DEF Owing
<1> QED
  BY <1>0, <1>1, <1>2, <1>3 DEF Owing, StreamOf, IsPrivate

\* A vote that is new, or newly decided, is owing, and whoever counts has not come to it.
LEMMA NewVoteOwes ==
    ASSUME ProjectionInv, ScanInv, NEW p \in Polls, PollAction(p), NEW v \in Votes, ~Fixed(v),
           Takes(p, v) \/ (ProcessSubmission(p) /\ vote[p] = v)
    PROVE  /\ Owing(v)'
           /\ \A q \in Polls : step'[q] \in {"store", "sum"} => ~Behind(q, v)'
<1>0. TypeOK /\ PollsInv /\ private' = private
  BY VotesStay DEF ProjectionInv, chain
<1>1. cursor' = cursor /\ cursor[StreamOf(v)] <= BlockOf[v]
  <2>1. cursor' = cursor
    BY <1>0, CountingStays DEF Takes
  <2>2. ~(BlockOf[v] < cursor[StreamOf(v)])
    BY DEF ScanInv, ScansLeaveNoVote
  <2> QED
    BY <1>0, <2>1, <2>2, ProjectionAssumption DEF TypeOK, StreamOf, Streams
<1>2. \A q \in Polls : Behind(q, v) => Deciding(q) /\ at[q] = ElectionOf[v]
  BY DEF ScanInv, ScansLeaveNoVote, PollsKnowTheirVote
<1>3. IsAt(p, ElectionOf[v])' /\ step'[p] \notin {"store", "sum"}
  <2>1. CASE Takes(p, v)
    BY <2>1 DEF Takes, IsAt, Busying
  <2>2. CASE ProcessSubmission(p) /\ vote[p] = v
    BY <1>0, <2>2 DEF ProcessSubmission, Visits, IsAt, Busying, ScanInv, PollsKnowTheirVote,
                      Deciding, TypeOK
  <2> QED
    BY <2>1, <2>2
<1>4. ASSUME NEW q \in Polls \ {p}, Behind(q, v)'
      PROVE  IsAt(q, ElectionOf[v])' /\ step'[q] \notin {"store", "sum"}
  <2>1. Behind(q, v)
    BY <1>0, <1>4, OtherBehind
  <2>2. IsAt(q, ElectionOf[v]) /\ Deciding(q)
    BY <1>2, <2>1 DEF IsAt, Busying, Deciding
  <2> QED
    BY <1>0, <2>2, OtherBehind DEF Deciding
<1> QED
  BY <1>0, <1>1, <1>3, <1>4 DEF Owing, StreamOf, IsPrivate

\* The step changes nothing of what is counted in e.
SameVotes(e) ==
    /\ Stored(e)' = Stored(e) /\ Valid(e)' = Valid(e) /\ SummaryOf(e)' = SummaryOf(e)

\* The step leaves a vote of e for the polls to come.
Leaves(e) ==
    \E v \in Stored(e)' :
        Owing(v)' /\ \A q \in Polls : step'[q] \in {"store", "sum"} => ~Behind(q, v)'

\* The step replaces a verdict of e, and what e counts has not been read since.
Replaces(p, e) ==
    /\ Stored(e)' = Stored(e)
    /\ Mends(p, e)'
    /\ \A q \in Polls : at'[q] = e => step'[q] \notin {"store", "sum"}

\* When nothing of the votes of e changes, nothing of its counts does.
LEMMA SameRows ==
    ASSUME NEW e, private' = private, Stored(e)' = Stored(e),
           \A v \in Stored(e) : ballots'[v] = ballots[v]
    PROVE  SameVotes(e)
<1>1. {v \in Stored(e)' : ballots'[v] = "valid"} = {v \in Stored(e) : ballots[v] = "valid"}
  OBVIOUS
<1>2. Valid(e)' = Valid(e)
  BY <1>1 DEF Valid
<1>3. Decided(e)' = Decided(e)
  BY DEF Decided
<1> QED
  BY <1>2, <1>3 DEF SameVotes, SummaryOf

LEMMA ChangesAreOwed ==
    ASSUME ProjectionInv, ScanInv, NEW p \in Polls, PollAction(p), NEW e \in Elections \ overlapped'
    PROVE  SameVotes(e) \/ Leaves(e) \/ Replaces(p, e)
<1>0. TypeOK /\ PollsInv /\ private' = private
  BY VotesStay DEF ProjectionInv, chain
<1>1. CASE Quiet(p) \/ Counting(p) \/ TakesRequested(p) \/ LoadSubmission(p)
  <2>1. submitted' = submitted /\ ballots' = ballots
    BY <1>0, <1>1, QuietSteps, LoadingSteps
    DEF Counting, CountVotes, CountWithoutManifest, StoreTally, CountSubmissions, FindBallots,
        PutSummary, tables
  <2> QED
    BY <1>0, <2>1, SameRows DEF Stored
<1>2. ASSUME NEW v \in Votes, Takes(p, v)
      PROVE  SameVotes(e) \/ Leaves(e)
  <2>1. submitted' = submitted \cup {v} /\ ballots' = ballots
    BY <1>2 DEF Takes
  <2>2. CASE v \in submitted \/ ElectionOf[v] # e
    <3>1. Stored(e)' = Stored(e)
      BY <2>1, <2>2 DEF Stored, VotesOf
    <3> QED
      BY <1>0, <2>1, <3>1, SameRows
  <2>3. CASE v \notin submitted /\ ElectionOf[v] = e
    <3>1. v \in Stored(e)' /\ ~Fixed(v)
      BY <2>1, <2>3 DEF Stored, VotesOf, Fixed
    <3> QED
      BY <1>2, <3>1, NewVoteOwes DEF Leaves
  <2> QED
    BY <2>2, <2>3
<1>3. CASE ProcessSubmission(p)
  <2> DEFINE v == vote[p]
  <2>1. PICK verdict \in {"valid", "invalid"} :
            /\ ballots' = [ballots EXCEPT ![v] = verdict]
            /\ redecided' = IF ballots[v] \in {None, verdict} THEN redecided ELSE redecided \cup {v}
    BY <1>3 DEF ProcessSubmission
  <2>2. /\ v \in submitted /\ v \in Votes /\ IsPrivate(v) /\ submitted' = submitted
        /\ at[p] = ElectionOf[v]
    BY <1>0, <1>3 DEF ProcessSubmission, ScanInv, PollsKnowTheirVote, Deciding, TypeOK
  <2>3. Stored(e)' = Stored(e)
    BY <2>2 DEF Stored
  <2>4. CASE ballots[v] = verdict \/ ElectionOf[v] # e
    <3>1. \A u \in Stored(e) : ballots'[u] = ballots[u]
      BY <1>0, <2>1, <2>2, <2>4 DEF Stored, VotesOf, TypeOK
    <3> QED
      BY <1>0, <2>3, <3>1, SameRows
  <2>5. CASE ballots[v] = None /\ ElectionOf[v] = e
    <3>1. v \in Stored(e)' /\ ~Fixed(v)
      BY <2>2, <2>5 DEF Stored, VotesOf, Fixed
    <3> QED
      BY <1>3, <2>2, <3>1, NewVoteOwes DEF Leaves
  <2>6. CASE ballots[v] \notin {None, verdict} /\ ElectionOf[v] = e
    <3>1. /\ step'[p] = "count" /\ at'[p] = e /\ stage' = stage /\ vote' = vote
          /\ stage[p] \in VoteStages
      BY <1>0, <1>3, <2>2, <2>6
      DEF ProcessSubmission, Visits, PollsInv, VisitsAreOfSomething, TypeOK
    <3>2. Mends(p, e)'
      BY <2>1, <2>6, <3>1 DEF Mends, Busy, Final, VoteStages, Streams
    <3>3. \A q \in Polls \ {p} : ~Busy(e, q)
      BY <1>3, <2>2, <2>6 DEF ProcessSubmission, Overlaps
    <3>4. ASSUME NEW q \in Polls, at'[q] = e
          PROVE  step'[q] \notin {"store", "sum"}
      BY <1>0, <3>1, <3>3, <3>4, OthersStay DEF Busy
    <3> QED
      BY <2>3, <3>2, <3>4 DEF Replaces
  <2> QED
    BY <2>4, <2>5, <2>6
<1> QED
  BY <1>0, <1>1, <1>2, <1>3, PollSteps

-----------------------------------------------------------------------------
(***************************************************************************)
(* What is stored, and what was read.                                      *)
(***************************************************************************)

\* What e lacks, some vote of e owes, and it does not owe it to p alone.
Owed(e) == \E v \in Stored(e) : Owing(v)
OwedPast(p, e) == \E v \in Stored(e) : Owing(v) /\ ~Behind(p, v)

LEMMA OwedStays ==
    ASSUME ProjectionInv, ScanInv, NEW p \in Polls, PollAction(p), NEW e \in Elections, SameVotes(e)
    PROVE  /\ OwedPast(p, e) => Owed(e)'
           /\ Owed(e) => Owed(e)' \/ (PutSummary(p) /\ IsAt(p, e))
           /\ \A q \in Polls \ {p} : OwedPast(q, e) => OwedPast(q, e)' \/ (PutSummary(p) /\ IsAt(p, e))
<1>0. TypeOK /\ private' = private /\ \A v \in Stored(e) : v \in Votes /\ ElectionOf[v] = e
  BY VotesStay DEF ProjectionInv, chain, Stored, VotesOf
<1>1. ASSUME NEW v \in Stored(e), Owing(v), ~Behind(p, v)
      PROVE  Owed(e)'
  <2>1. Owing(v)'
    BY <1>0, <1>1, OwingStays
  <2> QED
    BY <2>1 DEF Owed, SameVotes
<1>2. ASSUME NEW v \in Stored(e), Owing(v), ~(PutSummary(p) /\ IsAt(p, e))
      PROVE  Owing(v)'
  <2>1. PutSummary(p) => ~Behind(p, v)
    BY <1>0, <1>2 DEF Owing
  <2> QED
    BY <1>0, <1>2, <2>1, OwingStays
<1>3. ASSUME NEW q \in Polls \ {p}, NEW v \in Stored(e), Owing(v), ~Behind(q, v),
             ~(PutSummary(p) /\ IsAt(p, e))
      PROVE  OwedPast(q, e)'
  <2>1. Owing(v)'
    BY <1>2, <1>3
  <2>2. ~Behind(q, v)'
    BY <1>0, <1>3, OtherBehind
  <2> QED
    BY <2>1, <2>2 DEF OwedPast, SameVotes
<1>4. Owed(e) => Owed(e)' \/ (PutSummary(p) /\ IsAt(p, e))
  BY <1>2 DEF Owed, SameVotes
<1> QED
  BY <1>1, <1>3, <1>4 DEF OwedPast

\* Whoever has replaced a verdict recomputes before it goes on, or throws.
Mended(e) == \E q \in Polls : Mends(q, e)

LEMMA MendsUntilStored ==
    ASSUME ProjectionInv, NEW p \in Polls, PollAction(p), NEW e \in Elections \ abandoned',
           Mended(e)
    PROVE  Mended(e)' \/ (PutSummary(p) /\ Mends(p, e))
<1>0. TypeOK /\ PollsInv /\ redecided \subseteq redecided'
  BY VotesStay DEF ProjectionInv
<1>1. PICK q \in Polls : Mends(q, e)
  BY DEF Mended
<1>2. CASE q # p
  <2>1. Mends(q, e)'
    BY <1>0, <1>1, <1>2, OthersStay DEF Mends, Busy, Final
  <2> QED
    BY <2>1 DEF Mended
<1>3. CASE q = p
  <2>1. /\ at[p] = e /\ step[p] \in {"count", "store", "clash", "sum"}
        /\ vote[p] \in redecided /\ ~Final(p)
    BY <1>1, <1>3 DEF Mends, Busy
  <2>2. ~Quiet(p)
    <3>1. ~(Clash(p) \/ Fails(p))
      BY <2>1 DEF Clash, Fails, Abandons, Busy
    <3>2. ~(PollStart(p) \/ Request(p))
      BY <1>0, <2>1 DEF PollStart, Request, PollsInv, VisitsAreOfSomething, Busying
    <3>3. ~(StageEnds(p) \/ LastStageEnds(p) \/ LosesRace(p) \/ IndexElection(p)
            \/ EnsureFinalizedProjection(p))
      BY <2>1 DEF StageEnds, LastStageEnds, LosesRace, IndexElection, EnsureFinalizedProjection
    <3> QED
      BY <3>1, <3>2, <3>3 DEF Quiet
  <2>3. Counting(p)
    BY <1>0, <2>1, <2>2, PollSteps DEF Takes, TakesRequested, LoadSubmission, ProcessSubmission
  <2>4. CASE PutSummary(p)
    BY <1>1, <1>3, <2>4
  <2>5. CASE ~PutSummary(p)
    <3>1. /\ at'[p] = e /\ stage' = stage /\ vote'[p] = vote[p]
          /\ step'[p] \in {"count", "store", "clash", "sum"}
      BY <1>0, <2>1, <2>3, <2>5
      DEF Counting, CountVotes, CountWithoutManifest, StoreTally, CountSubmissions, FindBallots,
          TypeOK
    <3>2. Mends(p, e)'
      BY <1>0, <2>1, <3>1 DEF Mends, Busy, Final
    <3> QED
      BY <3>2 DEF Mended
  <2> QED
    BY <2>4, <2>5
<1> QED
  BY <1>2, <1>3

\* Only at its own election does a poll store a tally or a summary.
LEMMA StoresAtHome ==
    ASSUME TypeOK, PollsInv, NEW p \in Polls, PollAction(p), NEW e \in Elections
    PROVE  /\ liveTally'[e] = liveTally[e] \/ (StoreTally(p) /\ ~Final(p) /\ IsAt(p, e))
           /\ summary'[e] = summary[e] \/ (PutSummary(p) /\ IsAt(p, e))
<1> USE DEF tables
<1>1. CASE StoreTally(p)
  <2>1. summary' = summary /\ step[p] \in Busying
    BY <1>1 DEF StoreTally, Busying
  <2>2. liveTally' = liveTally \/ (~Final(p) /\ liveTally' = [liveTally EXCEPT ![at[p]] = counted[p]])
    BY <1>1 DEF StoreTally
  <2> QED
    BY <1>1, <2>1, <2>2 DEF IsAt, TypeOK
<1>2. CASE PutSummary(p)
  <2>1. /\ liveTally' = liveTally /\ step[p] \in Busying
        /\ summary' = [summary EXCEPT ![at[p]] = sums[p]]
    BY <1>2 DEF PutSummary, Busying
  <2> QED
    BY <1>2, <2>1 DEF IsAt, TypeOK
<1>3. CASE CountVotes(p) \/ CountWithoutManifest(p) \/ CountSubmissions(p) \/ FindBallots(p)
           \/ ProcessSubmission(p)
  BY <1>3 DEF CountVotes, CountWithoutManifest, CountSubmissions, FindBallots, ProcessSubmission
<1>4. CASE Quiet(p) \/ TakesRequested(p) \/ LoadSubmission(p) \/ \E v \in Votes : Takes(p, v)
  <2>1. liveTally' = liveTally /\ summary' = summary
    BY <1>4, QuietSteps, LoadingSteps DEF Takes
  <2> QED
    BY <2>1
<1> QED
  BY <1>1, <1>2, <1>3, <1>4, PollSteps DEF Counting

\* A count of votes does not count the row of a candidate.
LEMMA ListedIsNoVote ==
    ASSUME NEW e
    PROVE  (Valid(e) \cup {Listed}) \ {Listed} = Valid(e) /\ Valid(e) \ {Listed} = Valid(e)
<1>1. Listed \notin Valid(e)
  BY ProjectionAssumption, CountsAreNumbers DEF Listed
<1> QED
  BY <1>1

\* A tally is stored as it was counted, ...
LEMMA TallyIsStored ==
    ASSUME TypeOK, NEW p \in Polls, StoreTally(p), ~Final(p), NEW e \in Elections,
           IsAt(p, e), ReadRight(p, e), SameVotes(e)
    PROVE  liveTally'[e] \ {Listed} = Valid(e)'
<1>1. counted[p] \ {Listed} = Valid(e)
  BY DEF StoreTally, ReadRight
<1>2. liveTally'[e] = counted[p]
  BY DEF StoreTally, IsAt, TypeOK
<1> QED
  BY <1>1, <1>2 DEF SameVotes

\* ... and a summary as it was read.
LEMMA SummaryIsStored ==
    ASSUME TypeOK, NEW p \in Polls, PutSummary(p), NEW e \in Elections,
           IsAt(p, e), ReadRight(p, e), SameVotes(e)
    PROVE  summary'[e] = SummaryOf(e)'
<1>1. sums[p] = SummaryOf(e)
  <2>1. /\ sums[p].submissions = SummaryOf(e).submissions
        /\ sums[p].decrypted = SummaryOf(e).decrypted
        /\ sums[p].valid = SummaryOf(e).valid
    BY DEF PutSummary, ReadRight, Agrees
  <2>2. sums[p] \in Counts(Nat \cup {NoCount})
    BY DEF TypeOK
  <2>3. sums[p] = [submissions |-> sums[p].submissions, decrypted |-> sums[p].decrypted,
                   valid |-> sums[p].valid]
    BY <2>2 DEF Counts
  <2> QED
    BY <2>1, <2>3 DEF SummaryOf
<1>2. summary'[e] = sums[p]
  BY DEF PutSummary, IsAt, TypeOK
<1> QED
  BY <1>1, <1>2 DEF SameVotes

\* A stored tally is current, or a vote of its election is owing.
LEMMA PollKeepsLateTallies ==
    ASSUME SettleInv, NEW p \in Polls, PollAction(p),
           NEW e \in Elections \ (overlapped \cup abandoned'), e \notin abandoned, SameVotes(e)
    PROVE  Stored(e)' = {} \/ Current(e)' \/ Owed(e)' \/ Mended(e)'
<1>0. /\ TypeOK /\ PollsInv /\ ProjectionInv /\ ScanInv
      /\ Stored(e) = {} \/ Current(e) \/ Owed(e) \/ Mended(e)
      /\ at[p] = e => ReadRight(p, e) \/ OwedPast(p, e)
  BY DEF SettleInv, ProjectionInv, LateTalliesAreOwed, LateReadsAreOwed, Owed, OwedPast, Mended
<1>1. CASE Stored(e) = {}
  BY <1>1 DEF SameVotes
<1>2. CASE PutSummary(p) /\ IsAt(p, e)
  <2>1. CASE OwedPast(p, e)
    BY <1>0, <2>1, OwedStays
  <2>2. CASE ReadRight(p, e) /\ Final(p) /\ Owed(e)
    <3>1. \A v : ~Behind(p, v)
      BY <2>2 DEF Final, Behind, StreamOf
    <3> QED
      BY <1>0, <2>2, <3>1, OwedStays DEF Owed, OwedPast
  <2>3. CASE ReadRight(p, e) /\ (~Final(p) \/ Current(e))
    <3>1. liveTally[e] \ {Listed} = Valid(e) /\ liveTally'[e] = liveTally[e]
      BY <1>2, <2>3 DEF ReadRight, Current, PutSummary
    <3>2. summary'[e] = SummaryOf(e)'
      BY <1>0, <1>2, <2>3, SummaryIsStored
    <3> QED
      BY <3>1, <3>2 DEF Current, SameVotes
  <2>4. CASE Final(p) /\ Mended(e)
    <3>1. Busy(e, p)
      BY <1>2 DEF PutSummary, IsAt, Busy
    <3> QED
      BY <1>0, <2>4, <3>1 DEF Mended, Mends, ScanInv, OneRecomputes
  <2> QED
    BY <1>0, <1>1, <1>2, <2>1, <2>2, <2>3, <2>4 DEF IsAt
<1>3. CASE Owed(e) /\ ~(PutSummary(p) /\ IsAt(p, e))
  BY <1>0, <1>3, OwedStays
<1>4. CASE Current(e) /\ ~(PutSummary(p) /\ IsAt(p, e))
  <2>1. summary'[e] = SummaryOf(e)'
    BY <1>0, <1>4, StoresAtHome DEF Current, SameVotes
  <2>2. CASE liveTally'[e] = liveTally[e]
    BY <1>4, <2>1, <2>2 DEF Current, SameVotes
  <2>3. CASE StoreTally(p) /\ ~Final(p) /\ IsAt(p, e)
    <3>1. CASE ReadRight(p, e)
      BY <1>0, <2>1, <2>3, <3>1, TallyIsStored DEF Current
    <3>2. CASE OwedPast(p, e)
      BY <1>0, <3>2, OwedStays
    <3> QED
      BY <1>0, <2>3, <3>1, <3>2 DEF IsAt
  <2> QED
    BY <1>0, <2>2, <2>3, StoresAtHome
<1>5. CASE Mended(e) /\ ~(PutSummary(p) /\ IsAt(p, e))
  <2>1. ~(PutSummary(p) /\ Mends(p, e))
    BY <1>5 DEF Mends, Busy, IsAt, Busying
  <2> QED
    BY <1>0, <1>5, <2>1, MendsUntilStored
<1> QED
  BY <1>0, <1>1, <1>2, <1>3, <1>4, <1>5

\* What another poll has read stays right while nothing is stored and nothing changes.
LEMMA OthersReadRight ==
    ASSUME SettleInv, NEW p \in Polls, PollAction(p), NEW e \in Elections \ overlapped, SameVotes(e),
           NEW q \in Polls \ {p}, at[q] = e, ReadRight(q, e) \/ OwedPast(q, e)
    PROVE  ReadRight(q, e)' \/ OwedPast(q, e)'
<1>0. TypeOK /\ PollsInv /\ ProjectionInv /\ ScanInv
  BY DEF SettleInv, ProjectionInv
<1>1. /\ stage'[q] = stage[q] /\ counted'[q] = counted[q] /\ sums'[q] = sums[q]
      /\ step'[q] = step[q] \/ (step[q] = "store" /\ step'[q] = "clash")
  BY <1>0, OthersStay
<1>2. CASE step'[q] \notin {"store", "sum"}
  BY <1>2 DEF ReadRight
<1>3. CASE step'[q] \in {"store", "sum"}
  <2>1. step'[q] = step[q] /\ Busy(e, q)
    BY <1>1, <1>3 DEF Busy
  <2>2. ~IsAt(p, e) \/ Deciding(p)
    BY <1>0, <2>1 DEF IsAt, Busy, Busying, Deciding, ScanInv, OneRecomputes
  <2>3. ~(PutSummary(p) /\ IsAt(p, e)) /\ ~(StoreTally(p) /\ IsAt(p, e))
    BY <2>2 DEF PutSummary, StoreTally, Deciding
  <2>4. CASE OwedPast(q, e)
    BY <1>0, <2>3, <2>4, OwedStays
  <2>5. CASE ReadRight(q, e)
    <3>1. liveTally'[e] = liveTally[e]
      BY <1>0, <2>3, StoresAtHome
    <3>2. Final(q)' <=> Final(q)
      BY <1>1 DEF Final
    <3> QED
      BY <1>1, <2>1, <2>5, <3>1, <3>2 DEF ReadRight, SameVotes, Agrees
  <2> QED
    BY <2>4, <2>5
<1> QED
  BY <1>2, <1>3

\* The counts of a summary are read one query after the other.
LEMMA OwnSumsAreRight ==
    ASSUME TypeOK, PollsInv, NEW p \in Polls, CountSubmissions(p) \/ FindBallots(p),
           NEW e \in Elections, at[p] = e, ReadRight(p, e), SameVotes(e)
    PROVE  ReadRight(p, e)'
<1>1. /\ step' = step /\ step[p] = "sum" /\ stage' = stage /\ liveTally' = liveTally
  BY DEF CountSubmissions, FindBallots, tables
<1>2. Final(p)' <=> Final(p)
  BY <1>1 DEF Final
<1>3. ~Final(p)' => liveTally'[e] \ {Listed} = Valid(e)'
  BY <1>1, <1>2 DEF ReadRight, SameVotes
<1>4. /\ Agrees(sums[p].submissions, SummaryOf(e).submissions)
      /\ Agrees(sums[p].decrypted, SummaryOf(e).decrypted)
      /\ Agrees(sums[p].valid, SummaryOf(e).valid)
  BY <1>1 DEF ReadRight
<1>5. /\ Agrees(sums'[p].submissions, SummaryOf(e).submissions)
      /\ Agrees(sums'[p].decrypted, SummaryOf(e).decrypted)
      /\ Agrees(sums'[p].valid, SummaryOf(e).valid)
  <2>1. CASE CountSubmissions(p) /\ e \in private
    <3>1. sums'[p] = [submissions |-> Cardinality(Stored(e)), decrypted |-> sums[p].decrypted,
                      valid |-> sums[p].valid]
      BY <2>1 DEF CountSubmissions, TypeOK
    <3> QED
      BY <1>4, <3>1 DEF SummaryOf, Agrees
  <2>2. CASE CountSubmissions(p) /\ e \notin private
    <3>1. sums'[p] = [submissions |-> Cardinality(Stored(e)), decrypted |-> 0,
                      valid |-> Cardinality(Stored(e))]
      BY <2>2 DEF CountSubmissions, TypeOK
    <3>2. Valid(e) = Stored(e)
      BY <2>2 DEF Valid
    <3> QED
      BY <2>2, <3>1, <3>2 DEF SummaryOf, Agrees
  <2>3. CASE FindBallots(p)
    <3>1. e \in private /\ sums'[p] = [submissions |-> sums[p].submissions,
                                       decrypted |-> Cardinality(Decided(e)),
                                       valid |-> Cardinality(Valid(e))]
      BY <2>3 DEF FindBallots, TypeOK
    <3> QED
      BY <1>4, <3>1 DEF SummaryOf, Agrees
  <2> QED
    BY <2>1, <2>2, <2>3
<1> QED
  BY <1>1, <1>3, <1>5 DEF ReadRight, SameVotes

\* What a poll reads is right when it reads it.
LEMMA OwnReadRight ==
    ASSUME SettleInv, NEW p \in Polls, PollAction(p), NEW e \in Elections \ overlapped, SameVotes(e),
           at'[p] = e
    PROVE  ReadRight(p, e)' \/ OwedPast(p, e)'
<1>0. /\ TypeOK /\ PollsInv /\ ProjectionInv /\ ScanInv
      /\ at[p] = e => ReadRight(p, e) \/ OwedPast(p, e)
  BY DEF SettleInv, ProjectionInv, LateReadsAreOwed, OwedPast
<1>1. CASE step'[p] \notin {"store", "sum"}
  BY <1>1 DEF ReadRight
<1>2. CASE CountVotes(p) \/ CountWithoutManifest(p)
  <2>1. /\ at[p] = e /\ step'[p] = "store"
        /\ counted'[p] = Valid(e) \cup {Listed} \/ counted'[p] = Valid(e)
    BY <1>0, <1>2 DEF CountVotes, CountWithoutManifest, TypeOK
  <2> QED
    BY <2>1, ListedIsNoVote DEF ReadRight, SameVotes
<1>3. CASE StoreTally(p) \/ CountSubmissions(p) \/ FindBallots(p)
  <2>1. /\ at[p] = e /\ stage' = stage /\ todo' = todo /\ latest' = latest
        /\ step[p] \in Busying /\ step'[p] = "sum" /\ private' = private
    BY <1>3 DEF StoreTally, CountSubmissions, FindBallots, Busying, chain
  <2>2. IsAt(p, e)
    BY <2>1 DEF IsAt
  <2>3. CASE OwedPast(p, e)
    <3>1. PICK v \in Stored(e) : Owing(v) /\ ~Behind(p, v)
      BY <2>3 DEF OwedPast
    <3>2. v \in Votes
      BY DEF Stored, VotesOf
    <3>3. Owing(v)'
      BY <1>0, <3>1, <3>2, OwingStays
    <3>4. ~Behind(p, v)'
      BY <2>1, <3>1 DEF Behind, StreamOf, IsPrivate
    <3> QED
      BY <3>1, <3>3, <3>4 DEF OwedPast, SameVotes
  <2>4. CASE ReadRight(p, e) /\ StoreTally(p)
    <3>1. sums'[p] = Unread
      BY <1>0, <2>4 DEF StoreTally, ScanInv, SumsAreFresh
    <3>2. Final(p)' <=> Final(p)
      BY <2>1 DEF Final
    <3>3. ~Final(p) => liveTally'[e] \ {Listed} = Valid(e)'
      BY <1>0, <2>2, <2>4, TallyIsStored
    <3> QED
      BY <2>1, <3>1, <3>2, <3>3 DEF ReadRight, Agrees, Unread
  <2>5. CASE ReadRight(p, e) /\ ~StoreTally(p)
    BY <1>0, <1>3, <2>1, <2>5, OwnSumsAreRight
  <2> QED
    BY <1>0, <2>1, <2>3, <2>4, <2>5
<1>4. CASE PutSummary(p) \/ ProcessSubmission(p)
  <2>1. step'[p] \notin {"store", "sum"}
    BY <1>0, <1>4 DEF PutSummary, VisitEnds, ProcessSubmission, Visits, TypeOK
  <2> QED
    BY <1>1, <2>1
<1>5. CASE Quiet(p) \/ TakesRequested(p) \/ LoadSubmission(p) \/ \E v \in Votes : Takes(p, v)
  <2>1. step'[p] \notin {"store", "sum"}
    BY <1>0, <1>5, QuietRests, LoadingSteps DEF Takes, Deciding
  <2> QED
    BY <1>1, <2>1
<1> QED
  BY <1>0, <1>2, <1>3, <1>4, <1>5, PollSteps DEF Counting

-----------------------------------------------------------------------------
(***************************************************************************)
(* The theorem.                                                            *)
(***************************************************************************)

LEMMA AbandonedStays ==
    ASSUME NEW p \in Polls, PollAction(p)
    PROVE  abandoned \subseteq abandoned'
<1> USE DEF history
<1>1. CASE Clash(p) \/ Fails(p)
  BY <1>1 DEF Clash, Fails, Abandons
<1>2. CASE PollStart(p) \/ Request(p) \/ StageEnds(p) \/ LastStageEnds(p) \/ LosesRace(p)
           \/ IndexElection(p) \/ EnsureFinalizedProjection(p)
  BY <1>2 DEF PollStart, Request, StageEnds, LastStageEnds, LosesRace, IndexElection,
              EnsureFinalizedProjection
<1>3. CASE IndexPrivateVote(p) \/ Revisit(p) \/ TakesRequested(p) \/ LoadSubmission(p)
           \/ ProcessSubmission(p)
  BY <1>3 DEF IndexPrivateVote, Revisit, StoreVote, TakesRequested, LoadSubmission,
              ProcessSubmission
<1>4. CASE CountVotes(p) \/ CountWithoutManifest(p) \/ StoreTally(p) \/ CountSubmissions(p)
           \/ FindBallots(p) \/ PutSummary(p)
  BY <1>4 DEF CountVotes, CountWithoutManifest, StoreTally, CountSubmissions, FindBallots,
              PutSummary
<1> QED
  BY <1>1, <1>2, <1>3, <1>4 DEF PollAction, Step

\* The step of a poll keeps what is stored and read either right or owed.
LEMMA PollSettles ==
    ASSUME SettleInv, NEW p \in Polls, PollAction(p)
    PROVE  LateTalliesAreOwed' /\ LateReadsAreOwed'
<1>0. /\ TypeOK /\ ProjectionInv /\ ScanInv /\ overlapped \subseteq overlapped'
      /\ abandoned \subseteq abandoned'
  BY PollKeepsOne, AbandonedStays DEF SettleInv, ProjectionInv
<1>1. ASSUME NEW e \in Elections \ overlapped'
      PROVE  /\ e \notin abandoned' => Stored(e)' = {} \/ Current(e)' \/ Owed(e)' \/ Mended(e)'
             /\ \A q \in Polls : at'[q] = e => ReadRight(q, e)' \/ OwedPast(q, e)'
  <2>1. e \in Elections \ overlapped
    BY <1>0
  <2>2. CASE Leaves(e)
    <3>1. PICK v \in Stored(e)' :
              Owing(v)' /\ \A q \in Polls : step'[q] \in {"store", "sum"} => ~Behind(q, v)'
      BY <2>2 DEF Leaves
    <3>2. Owed(e)'
      BY <3>1 DEF Owed
    <3>3. ASSUME NEW q \in Polls
          PROVE  ReadRight(q, e)' \/ OwedPast(q, e)'
      BY <3>1 DEF ReadRight, OwedPast
    <3> QED
      BY <3>2, <3>3
  <2>3. CASE SameVotes(e)
    <3>1. e \notin abandoned' => Stored(e)' = {} \/ Current(e)' \/ Owed(e)' \/ Mended(e)'
      BY <1>0, <2>1, <2>3, PollKeepsLateTallies
    <3>2. ASSUME NEW q \in Polls \ {p}, at'[q] = e
          PROVE  ReadRight(q, e)' \/ OwedPast(q, e)'
      <4>1. at[q] = e
        BY <1>0, <3>2, OthersStay
      <4>2. ReadRight(q, e) \/ OwedPast(q, e)
        BY <2>1, <4>1 DEF SettleInv, LateReadsAreOwed, OwedPast
      <4> QED
        BY <2>1, <2>3, <4>1, <4>2, OthersReadRight
    <3>3. at'[p] = e => ReadRight(p, e)' \/ OwedPast(p, e)'
      BY <2>1, <2>3, OwnReadRight
    <3> QED
      BY <3>1, <3>2, <3>3
  <2>4. CASE Replaces(p, e)
    BY <2>4 DEF Replaces, Mended, ReadRight
  <2> QED
    BY <1>0, <2>2, <2>3, <2>4, ChangesAreOwed
<1> QED
  BY <1>1 DEF LateTalliesAreOwed, LateReadsAreOwed, Owed, OwedPast, Mended

\* The chain's steps, and those of nobody, change nothing of what is owed.
LEMMA ChainSettles ==
    ASSUME SettleInv, TypeOK', mined <= mined',
           UNCHANGED <<private, tables, polls, overlapped, redecided, abandoned>>
    PROVE  ScanInv' /\ LateTalliesAreOwed' /\ LateReadsAreOwed'
<1> USE DEF tables, polls
<1>0. ScanInv /\ LateTalliesAreOwed /\ LateReadsAreOwed /\ TypeOK
  BY DEF SettleInv, ProjectionInv
<1>1. SumsAreFresh' /\ OneRecomputes'
  BY <1>0 DEF ScanInv, SumsAreFresh, OneRecomputes, Busy
<1>2. PollsLookAtTheChain'
  <2>1. \A n \in Nat : n <= mined => n <= mined'
    BY <1>0 DEF TypeOK
  <2>2. (\A v \in Votes : BlockOf[v] \in Nat) /\ (\A p \in Polls : latest[p] \in Nat)
    BY <1>0, ProjectionAssumption DEF TypeOK
  <2> QED
    BY <1>0, <2>1, <2>2 DEF ScanInv, PollsLookAtTheChain, TypeOK
<1>3. PollsKnowTheirVote'
  BY <1>0 DEF ScanInv, PollsKnowTheirVote, IsPrivate, Deciding
<1>4. \A v : StreamOf(v)' = StreamOf(v) /\ (Fixed(v)' <=> Fixed(v)) /\ (Owing(v)' <=> Owing(v))
             /\ \A p : Behind(p, v)' <=> Behind(p, v)
  <2> SUFFICES ASSUME NEW v
               PROVE  StreamOf(v)' = StreamOf(v) /\ (Fixed(v)' <=> Fixed(v)) /\ (Owing(v)' <=> Owing(v))
                      /\ \A p : Behind(p, v)' <=> Behind(p, v)
    OBVIOUS
  <2>1. StreamOf(v)' = StreamOf(v) /\ (Fixed(v)' <=> Fixed(v))
    BY DEF StreamOf, Fixed, IsPrivate
  <2>2. \A p : Behind(p, v)' <=> Behind(p, v)
    BY <2>1 DEF Behind
  <2>3. \A p, e : IsAt(p, e)' <=> IsAt(p, e)
    BY DEF IsAt
  <2>4. Owing(v)' <=> Owing(v)
    BY <2>1, <2>2, <2>3 DEF Owing
  <2> QED
    BY <2>1, <2>2, <2>4
<1>5. ScansLeaveNoVote'
  BY <1>0, <1>4 DEF ScanInv, ScansLeaveNoVote, Deciding
<1>6. \A e : Stored(e)' = Stored(e) /\ SameVotes(e)
  <2>1. \A e : Stored(e)' = Stored(e)
    BY DEF Stored
  <2> QED
    BY <2>1, SameRows
<1>7. \A e : (Current(e)' <=> Current(e)) /\ \A p : ReadRight(p, e)' <=> ReadRight(p, e)
  BY <1>6 DEF Current, ReadRight, SameVotes, Final, Agrees
<1>8. LateTalliesAreOwed'
  <2>1. \A e, p : Mends(p, e)' <=> Mends(p, e)
    BY DEF Mends, Busy, Final
  <2> QED
    BY <1>0, <1>4, <1>6, <1>7, <2>1 DEF LateTalliesAreOwed
<1>9. LateReadsAreOwed'
  BY <1>0, <1>4, <1>6, <1>7 DEF LateReadsAreOwed
<1> QED
  BY <1>1, <1>2, <1>3, <1>5, <1>8, <1>9 DEF ScanInv

\* SettleInv holds at the start.
LEMMA SettleInvInit == Init => SettleInv
<1> SUFFICES ASSUME Init
             PROVE  SettleInv
  OBVIOUS
<1>1. ProjectionInv
  BY ProjectionInvInit
<1>2. \A v : StreamOf(v) \in Streams
  BY DEF StreamOf, Streams
<1>3. \A v \in Votes : BlockOf[v] \in Nat \ {0}
  BY ProjectionAssumption
<1>4. ScansLeaveNoVote
  <2>1. \A v \in Votes : ~(BlockOf[v] < cursor[StreamOf(v)])
    BY <1>2, <1>3 DEF Init
  <2>2. \A v : \A p \in Polls : ~Behind(p, v)
    BY DEF Init, Behind, StreamOf
  <2> QED
    BY <2>1, <2>2 DEF ScansLeaveNoVote
<1>5. PollsKnowTheirVote /\ OneRecomputes /\ SumsAreFresh
  BY DEF Init, PollsKnowTheirVote, OneRecomputes, SumsAreFresh, Busy, Deciding
<1>6. PollsLookAtTheChain
  BY DEF Init, PollsLookAtTheChain
<1>7. LateTalliesAreOwed
  <2>1. \A e : Stored(e) = {}
    BY DEF Init, Stored
  <2> QED
    BY <2>1 DEF LateTalliesAreOwed
<1>8. LateReadsAreOwed
  <2>1. \A p \in Polls : \A e : ReadRight(p, e)
    BY DEF Init, ReadRight
  <2> QED
    BY <2>1 DEF LateReadsAreOwed
<1> QED
  BY <1>1, <1>4, <1>5, <1>6, <1>7, <1>8 DEF SettleInv, ScanInv

\* Every step keeps SettleInv.
LEMMA SettleInvNext == SettleInv /\ [Next]_vars => SettleInv'
<1> SUFFICES ASSUME SettleInv, [Next]_vars
             PROVE  SettleInv'
  OBVIOUS
<1>1. ProjectionInv'
  BY ProjectionInvNext DEF SettleInv
<1>2. CASE (Mine \/ \E e \in Elections : Finalize(e)) \/ UNCHANGED vars
  <2>1. UNCHANGED <<private, tables, polls, overlapped, redecided, abandoned>>
    BY <1>2 DEF Mine, Finalize, vars, chain, history
  <2>2. mined <= mined'
    BY <1>2, ProjectionAssumption DEF Mine, Finalize, vars, chain, SettleInv, ProjectionInv, TypeOK
  <2> QED
    BY <1>1, <2>1, <2>2, ChainSettles DEF SettleInv, ProjectionInv
<1>3. ASSUME NEW p \in Polls, PollAction(p)
      PROVE  SettleInv'
  BY <1>1, <1>3, PollKeepsScanInv, PollSettles DEF SettleInv
<1> QED
  BY <1>2, <1>3 DEF Next, PollAction

\* A stored tally or summary, or what a poll has read for one, is out of date only while a
\* vote is owing: one that the cursor has not passed, and that every scan past it is still at;
\* a tally or a summary also while whoever has replaced a verdict is at its recompute.
THEOREM SettlingInvariant == Spec => []SettleInv
BY SettleInvInit, SettleInvNext, PTL DEF Spec

\* Whatever fails, however many polls and requests overlap, and whatever verdicts they come to:
\* once the cursors are past the chain and nobody is busy with it, the live tally and the
\* summary of an election agree with its votes, unless two recomputes of it have overlapped, or
\* one has thrown after the verdict of its vote had been replaced.
THEOREM TalliesAlwaysSettle == Spec => []TalliesSettle
<1>1. SettleInv => TalliesSettle
  <2> SUFFICES ASSUME SettleInv, NEW e \in Elections \ (overlapped \cup abandoned),
                      Settled(e), Stored(e) # {}
               PROVE  Current(e)
    BY DEF TalliesSettle, Current
  <2>1. ASSUME NEW v \in Stored(e), Owing(v)
        PROVE  FALSE
    <3>1. v \in Votes /\ v \in submitted
      BY DEF Stored, VotesOf
    <3>2. BlockOf[v] <= mined /\ BlockOf[v] \in Nat /\ mined \in Nat
      BY <3>1, ProjectionAssumption
      DEF SettleInv, ScanInv, PollsLookAtTheChain, ProjectionInv, TypeOK
    <3>3. cursor[StreamOf(v)] \in Nat /\ cursor[StreamOf(v)] > mined
      BY DEF Settled, StreamOf, Streams, SettleInv, ProjectionInv, TypeOK
    <3>4. cursor[StreamOf(v)] <= BlockOf[v]
      BY <2>1 DEF Owing
    <3> QED
      BY <3>2, <3>3, <3>4
  <2>2. \A p \in Polls : ~Mends(p, e)
    BY DEF Settled, Mends, Busy
  <2> QED
    BY <2>1, <2>2 DEF SettleInv, LateTalliesAreOwed
<1> QED
  BY <1>1, SettlingInvariant, PTL
=============================================================================
