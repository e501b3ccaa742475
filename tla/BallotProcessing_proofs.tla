------------------------- MODULE BallotProcessing_proofs -------------------------
(***************************************************************************)
(* Theorems about BallotProcessing, for any votes and policy, any number   *)
(* of overlapping polls and requests, and any number of failed calls.      *)
(***************************************************************************)
EXTENDS BallotProcessing, FiniteSetTheorems, TLAPS

-----------------------------------------------------------------------------
(***************************************************************************)
(* The steps by their actor.                                               *)
(***************************************************************************)

PollStep(p) ==
    \/ PollStart(p)
    \/ PollFindsNothing(p)
    \/ MoveCursor(p)
    \/ LooksBack(p)
    \/ NothingPending(p)
    \/ \E s \in Submissions : Upsert(p, s)

CallerStep(c) ==
    ProcessOne(c) \/ ProcessPending(c) \/ \E s \in Submissions : Request(c, s)

StepOf(w) ==
    \/ w \in Polls /\ PollStep(w)
    \/ w \in Callers /\ CallerStep(w)
    \/ Process(w)

\* Every step of the system is a new block or the step of one worker.
LEMMA StepsHaveActors == Next => Mine \/ \E w \in Workers : StepOf(w)
BY DEF Next, Workers, StepOf, PollStep, CallerStep

-----------------------------------------------------------------------------
(***************************************************************************)
(* The inductive invariant of the rows.                                    *)
(***************************************************************************)

\* The awaits of processSubmission before its transaction has committed.
Processing == {"load", "validate", "clear", "commit"}

\* A worker in processSubmission works on a stored submission; a verdict is there when
\* it is to be stored; ranges of polls lie within the votes.
IsAtWork(w) ==
    /\ pc[w] \in Processing => at[w] \in submitted
    /\ pc[w] \in {"clear", "commit"} => verdict[w] \in Verdicts
    /\ last[w] \in Submissions \cup {0}

RowsInv ==
    /\ TypeOK
    /\ cursor >= 1
    /\ \A s \in Submissions : ballots[s] # None => s \in submitted
    /\ \A w \in Workers : IsAtWork(w)
    /\ \A c \in Callers : todo[c] \subseteq submitted
    /\ RefusalsAreExplained

\* The submissions are the numbers up to their number.
LEMMA Votes ==
    /\ Cardinality(Submissions) \in Nat
    /\ \A s : s \in Submissions <=> s \in Nat /\ 1 <= s /\ s <= Cardinality(Submissions)
<1>1. Cardinality(Submissions) \in Nat
  BY ProcessingAssumption, FS_CardinalityType
<1> QED
  BY <1>1, ProcessingAssumption

\* The numbers up to a submission are submissions.
LEMMA Ranges ==
    ASSUME NEW m \in Submissions \cup {0}, NEW n \in Nat, n >= 1
    PROVE  n..m \subseteq Submissions
BY Votes

\* The verdict on a submission is a verdict.
LEMMA JudgementIsVerdict == \A s \in Submissions : Judgement(s) \in Verdicts
BY DEF Judgement, Verdicts, ReasonCodes

\* A worker that rests leaves all other workers alone and the types as they are.
LEMMA RestingTyped ==
    ASSUME TypeOK, NEW w \in Workers, Rests(w)
    PROVE  /\ pc' = [pc EXCEPT ![w] = "idle"]
           /\ todo' = [todo EXCEPT ![w] = {}]
           /\ last' = [last EXCEPT ![w] = 0]
           /\ pc' \in [Workers ->
                 {"idle", "next", "pending", "load", "validate", "clear", "commit", "rollback",
                  "count", "wipe", "store", "clash"}]
           /\ todo' \in [Workers -> SUBSET Submissions]
           /\ last' \in [Workers -> Nat]
           /\ at' \in [Workers -> Submissions \cup {0}]
           /\ had' \in [Workers -> BOOLEAN]
           /\ verdict' \in [Workers -> Verdicts \cup {None}]
           /\ doomed' \in [Workers -> SUBSET Workers]
           /\ counted' \in [Workers -> SUBSET Submissions]
           /\ \A v \in Workers \ {w} : at'[v] = at[v] /\ verdict'[v] = verdict[v]
BY DEF TypeOK, Rests, GoesTo, Forgets

\* A step of a worker changes what another one remembers only by making its transaction
\* throw: one on the same submission, or a tally's.
LEMMA OthersUndisturbed ==
    ASSUME TypeOK, NEW w \in Workers, NEW v \in Workers \ {w}, StepOf(w)
    PROVE  /\ at'[v] = at[v] /\ verdict'[v] = verdict[v]
           /\ todo'[v] = todo[v] /\ last'[v] = last[v]
           /\ \/ pc'[v] = pc[v]
              \/ Commit(w) /\ pc[v] = "commit" /\ at[v] = at[w] /\ pc'[v] = "rollback"
              \/ pc[v] = "store" /\ pc'[v] = "clash"
<1> USE DEF TypeOK, tables, workers, GoesTo
<1>1. CASE PollStart(w) \/ PollFindsNothing(w) \/ MoveCursor(w) \/ LooksBack(w)
  BY <1>1 DEF PollStart, PollFindsNothing, MoveCursor, LooksBack
<1>2. CASE ProcessOne(w) \/ ProcessPending(w)
  BY <1>2 DEF ProcessOne, ProcessPending
<1>3. ASSUME NEW s \in Submissions, Upsert(w, s) \/ Request(w, s)
      PROVE  /\ at'[v] = at[v] /\ verdict'[v] = verdict[v]
             /\ todo'[v] = todo[v] /\ last'[v] = last[v] /\ pc'[v] = pc[v]
  BY <1>3 DEF Upsert, Request, TakesNext, Processes
<1>4. CASE NothingPending(w) \/ Rollback(w) \/ TallyClash(w) \/ LoopEnds(w) \/ Fails(w)
  BY <1>4, RestingTyped DEF NothingPending, Rollback, TallyClash, LoopEnds, Fails
<1>5. CASE Load(w) \/ Validate(w) \/ ValidateFails(w) \/ ClearInvalid(w)
  BY <1>5 DEF Load, Validate, ValidateFails, ClearInvalid
<1>6. CASE CountBallots(w) \/ WipeTally(w) \/ StoreTally(w)
  BY <1>6 DEF CountBallots, WipeTally, StoreTally, Forgets
<1>7. CASE Commit(w)
  BY <1>7 DEF Commit, Forgets
<1> QED
  BY <1>1, <1>2, <1>3, <1>4, <1>5, <1>6, <1>7 DEF StepOf, PollStep, CallerStep, Process

\* The step of a worker keeps the types.
LEMMA StepTyped ==
    ASSUME RowsInv, NEW w \in Workers, StepOf(w)
    PROVE  TypeOK' /\ cursor' >= 1
<1>0. TypeOK /\ cursor >= 1 /\ IsAtWork(w) /\ submitted \subseteq Submissions
  BY DEF RowsInv, TypeOK
<1>m. MaxFaults \in Nat
  BY ProcessingAssumption
<1> USE DEF TypeOK, tables, workers, failures, GoesTo
<1>1. CASE PollStart(w)
  <2>1. mined \in Nat /\ cursor..mined \subseteq Submissions
    BY <1>0, Ranges, Votes
  <2> QED
    BY <1>0, <1>1, <2>1 DEF PollStart
<1>2. CASE PollFindsNothing(w)
  BY <1>0, <1>2, Votes DEF PollFindsNothing
<1>3. CASE LooksBack(w)
  <2>1. ASSUME NEW from \in 1..last[w]
        PROVE  from..last[w] \subseteq Submissions
    BY <1>0, Ranges DEF IsAtWork
  <2> QED
    BY <1>0, <1>3, <2>1 DEF LooksBack
<1>4. CASE MoveCursor(w)
  BY <1>0, <1>4 DEF MoveCursor
<1>5. CASE ProcessOne(w) \/ ProcessPending(w)
  BY <1>0, <1>5 DEF ProcessOne, ProcessPending, Pending
<1>6. ASSUME NEW s \in Submissions, Upsert(w, s) \/ Request(w, s)
      PROVE  TypeOK' /\ cursor' >= 1
  BY <1>0, <1>6 DEF Upsert, Request, TakesNext, Processes
<1>7. CASE NothingPending(w) \/ Rollback(w) \/ TallyClash(w) \/ LoopEnds(w)
  BY <1>0, <1>7, RestingTyped DEF NothingPending, Rollback, TallyClash, LoopEnds
<1>8. CASE Fails(w)
  BY <1>0, <1>8, <1>m, RestingTyped DEF Fails, Fault
<1>9. CASE Load(w)
  BY <1>0, <1>9 DEF Load, Verdicts, ReasonCodes
<1>10. CASE Validate(w)
  <2>1. Judgement(at[w]) \in Verdicts
    BY <1>0, <1>10, JudgementIsVerdict DEF Validate, IsAtWork, Processing
  <2> QED
    BY <1>0, <1>10, <2>1 DEF Validate
<1>11. CASE ValidateFails(w)
  BY <1>0, <1>11, <1>m DEF ValidateFails, Fault, Verdicts, ReasonCodes
<1>12. CASE ClearInvalid(w)
  BY <1>0, <1>12 DEF ClearInvalid, IsAtWork, Processing
<1>13. CASE Commit(w)
  <2>1. pc' \in [Workers -> {"idle", "next", "pending", "load", "validate", "clear", "commit",
                             "rollback", "count", "wipe", "store", "clash"}]
    BY <1>0, <1>13 DEF Commit
  <2>2. invalidRows' \in [Submissions -> SUBSET Workers]
    BY <1>0, <1>13 DEF Commit
  <2> QED
    BY <1>0, <1>13, <2>1, <2>2 DEF Commit, Forgets
<1>14. CASE CountBallots(w) \/ WipeTally(w)
  BY <1>0, <1>14 DEF CountBallots, WipeTally, Valid
<1>15. CASE StoreTally(w)
  BY <1>0, <1>15 DEF StoreTally, Forgets
<1> QED
  BY <1>1, <1>2, <1>3, <1>4, <1>5, <1>6, <1>7, <1>8, <1>9, <1>10, <1>11, <1>12, <1>13, <1>14,
     <1>15
  DEF StepOf, PollStep, CallerStep, Process

\* Only a commit writes ballots and only an upsert stores a submission; both tables grow.
LEMMA TablesGrow ==
    ASSUME RowsInv, NEW w \in Workers, StepOf(w)
    PROVE  /\ Commit(w) \/ (ballots' = ballots /\ invalidRows' = invalidRows)
           /\ (\E s \in Submissions : Upsert(w, s)) \/ submitted' = submitted
           /\ submitted \subseteq submitted'
           /\ \A s \in Submissions : ballots[s] # None => ballots'[s] # None
<1>1. Commit(w) \/ (ballots' = ballots /\ invalidRows' = invalidRows)
  BY DEF StepOf, PollStep, CallerStep, Process, PollStart, PollFindsNothing, LooksBack,
         NothingPending, MoveCursor, ProcessOne, ProcessPending, Upsert, Request, Load, Validate,
         ValidateFails, ClearInvalid, Rollback, CountBallots, WipeTally, StoreTally, TallyClash,
         LoopEnds, Fails, tables
<1>2. (\E s \in Submissions : Upsert(w, s)) \/ submitted' = submitted
  BY DEF StepOf, PollStep, CallerStep, Process, PollStart, PollFindsNothing, LooksBack,
         NothingPending, MoveCursor, ProcessOne, ProcessPending, Request, Load, Validate,
         ValidateFails, ClearInvalid, Commit, Rollback, CountBallots, WipeTally, StoreTally,
         TallyClash, LoopEnds, Fails, tables
<1>3. submitted \subseteq submitted'
  BY <1>2 DEF Upsert
<1>4. Commit(w) => \A s \in Submissions : ballots[s] # None => ballots'[s] # None
  BY DEF Commit, RowsInv, IsAtWork, TypeOK, Verdicts, ReasonCodes, None
<1> QED
  BY <1>1, <1>2, <1>3, <1>4

\* A worker's own step keeps it at its work.
LEMMA StaysAtWork ==
    ASSUME RowsInv, NEW w \in Workers, StepOf(w)
    PROVE  IsAtWork(w)' /\ (w \in Callers => todo'[w] \subseteq submitted')
<1>0. /\ TypeOK /\ IsAtWork(w)
      /\ w \in Polls => w \notin Callers
      /\ w \in Callers => todo[w] \subseteq submitted
  BY ProcessingAssumption DEF RowsInv
<1> USE DEF TypeOK, tables, workers, GoesTo, IsAtWork, Processing
<1>1. CASE w \in Polls
           /\ (PollStart(w) \/ PollFindsNothing(w) \/ LooksBack(w) \/ MoveCursor(w))
  BY <1>0, <1>1 DEF PollStart, PollFindsNothing, LooksBack, MoveCursor
<1>2. CASE ProcessOne(w) \/ ProcessPending(w)
  BY <1>0, <1>2 DEF ProcessOne, ProcessPending, Pending
<1>3. ASSUME NEW s \in Submissions,
             (w \in Polls /\ Upsert(w, s)) \/ (w \in Callers /\ Request(w, s))
      PROVE  IsAtWork(w)' /\ (w \in Callers => todo'[w] \subseteq submitted')
  BY <1>0, <1>3 DEF Upsert, Request, TakesNext, Processes
<1>4. CASE (w \in Polls /\ NothingPending(w))
           \/ Rollback(w) \/ TallyClash(w) \/ LoopEnds(w) \/ Fails(w)
  BY <1>0, <1>4, RestingTyped DEF NothingPending, Rollback, TallyClash, LoopEnds, Fails
<1>5. CASE Load(w)
  BY <1>0, <1>5 DEF Load, Verdicts, ReasonCodes
<1>6. CASE Validate(w)
  BY <1>0, <1>6, JudgementIsVerdict DEF Validate
<1>7. CASE ValidateFails(w)
  BY <1>0, <1>7 DEF ValidateFails, Verdicts, ReasonCodes
<1>8. CASE ClearInvalid(w)
  BY <1>0, <1>8 DEF ClearInvalid
<1>9. CASE Commit(w)
  BY <1>0, <1>9 DEF Commit, Forgets
<1>10. CASE CountBallots(w) \/ WipeTally(w) \/ StoreTally(w)
  BY <1>0, <1>10 DEF CountBallots, WipeTally, StoreTally, Forgets
<1> QED
  BY <1>1, <1>2, <1>3, <1>4, <1>5, <1>6, <1>7, <1>8, <1>9, <1>10
  DEF StepOf, PollStep, CallerStep, Process

\* A commit writes a ballot and its explanation together, whatever rows of other
\* transactions its first statement has seen.
LEMMA CommitExplains ==
    ASSUME RowsInv, NEW w \in Workers, Commit(w)
    PROVE  RefusalsAreExplained' /\ at[w] \in submitted
<1>1. at[w] \in submitted /\ at[w] \in Submissions
  BY DEF RowsInv, IsAtWork, Processing, Commit, TypeOK
<1>2. ballots'[at[w]] \in ReasonCodes => w \in invalidRows'[at[w]]
  BY <1>1 DEF Commit, RowsInv, TypeOK, ReasonCodes
<1>3. \A s \in Submissions \ {at[w]} : ballots'[s] = ballots[s] /\ invalidRows'[s] = invalidRows[s]
  BY DEF Commit, RowsInv, TypeOK
<1> QED
  BY <1>1, <1>2, <1>3 DEF RefusalsAreExplained, RowsInv

\* Empty tables fit together.
LEMMA RowsInvInit == Init => RowsInv
<1> SUFFICES ASSUME Init
             PROVE  RowsInv
  OBVIOUS
<1>1. TypeOK
  <2>1. misjudged \in BOOLEAN
    BY DEF Init
  <2> QED
    BY <2>1, ProcessingAssumption DEF Init, TypeOK
<1>2. \A w \in Workers : IsAtWork(w) /\ todo[w] \subseteq submitted
  BY DEF Init, IsAtWork, Processing
<1>3. RefusalsAreExplained
  BY DEF Init, RefusalsAreExplained, ReasonCodes, None
<1> QED
  BY <1>1, <1>2, <1>3 DEF Init, RowsInv, Workers

\* No step takes them apart.
LEMMA RowsInvNext == RowsInv /\ [Next]_vars => RowsInv'
<1> SUFFICES ASSUME RowsInv, [Next]_vars
             PROVE  RowsInv'
  OBVIOUS
<1>1. CASE Mine \/ UNCHANGED vars
  BY <1>1 DEF Mine, vars, tables, workers, failures, RowsInv, TypeOK, IsAtWork, RefusalsAreExplained
<1>2. ASSUME NEW w \in Workers, StepOf(w)
      PROVE  RowsInv'
  <2>0. TypeOK /\ \A v \in Workers : IsAtWork(v)
    BY DEF RowsInv
  <2>1. TypeOK' /\ cursor' >= 1
    BY <1>2, StepTyped
  <2>2. \A s \in Submissions : ballots'[s] # None => s \in submitted'
    <3>1. CASE Commit(w)
      <4>1. \A s \in Submissions : s = at[w] \/ ballots'[s] = ballots[s]
        BY <2>0, <3>1 DEF Commit, TypeOK
      <4> QED
        BY <3>1, <4>1, CommitExplains DEF Commit, RowsInv
    <3> QED
      BY <1>2, <3>1, TablesGrow DEF RowsInv
  <2>3. ASSUME NEW v \in Workers
        PROVE  IsAtWork(v)' /\ (v \in Callers => todo'[v] \subseteq submitted')
    <3>1. CASE v # w
      BY <1>2, <2>0, <3>1, OthersUndisturbed, TablesGrow DEF IsAtWork, Processing, RowsInv
    <3> QED
      BY <1>2, <3>1, StaysAtWork
  <2>4. RefusalsAreExplained'
    BY <1>2, CommitExplains, TablesGrow DEF RefusalsAreExplained, RowsInv
  <2> QED
    BY <2>1, <2>2, <2>3, <2>4 DEF RowsInv, Workers
<1> QED
  BY <1>1, <1>2, StepsHaveActors

\* Submissions, ballots and their explanations fit together, whoever works on them.
THEOREM RowsInvariant == Spec => []RowsInv
BY RowsInvInit, RowsInvNext, PTL DEF Spec

\* The variables keep their types; no scan reaches beyond the votes there are.
THEOREM TypeCorrectness == Spec => []TypeOK
<1>1. RowsInv => TypeOK
  BY DEF RowsInv
<1> QED
  BY <1>1, RowsInvariant, PTL

\* processSubmission never leaves an invalid ballot without a row of invalid_ballots that
\* says why, for any number of transactions on it at once.
THEOREM RefusalsStayExplained == Spec => []RefusalsAreExplained
<1>1. RowsInv => RefusalsAreExplained
  BY DEF RowsInv
<1> QED
  BY <1>1, RowsInvariant, PTL

-----------------------------------------------------------------------------
(***************************************************************************)
(* Votes are taken up in chain order, whoever takes them up.               *)
(***************************************************************************)

AllBefore(n) == \A t \in Submissions : t < n => ballots[t] # None

\* Without a ballot yet, but w will see to it or fail.
InHand(w, t) == t \in todo[w] \/ (pc[w] \in Processing /\ t = at[w])

\* A worker leaves out no vote before one it has to visit, nor one of the range its
\* cursor will pass.
GoesInOrder(w) ==
    /\ \A s \in todo[w] : \A t \in Submissions : t < s => ballots[t] # None \/ InHand(w, t)
    /\ \A t \in Submissions : t <= last[w] => ballots[t] # None \/ InHand(w, t)
    /\ pc[w] \in {"idle", "pending"} => todo[w] = {}

\* A vote is stored only when all votes before it have ballots.
OrderInv ==
    /\ RowsInv
    /\ \A s \in submitted : AllBefore(s)
    /\ AllBefore(cursor)
    /\ \A w \in Workers : GoesInOrder(w)

\* A worker's own step keeps it in order.
LEMMA KeepsItsOrder ==
    ASSUME OrderInv, NEW w \in Workers, StepOf(w)
    PROVE  GoesInOrder(w)'
<1>0. /\ TypeOK
      /\ GoesInOrder(w) /\ AllBefore(cursor)
      /\ \A s \in submitted : AllBefore(s)
      /\ submitted \subseteq Submissions /\ \A s \in Submissions : s \in Int
      /\ mined \in Int /\ cursor \in Int
  BY Votes DEF OrderInv, RowsInv, TypeOK
<1> USE DEF TypeOK, tables, workers, GoesTo, GoesInOrder, InHand, Processing
<1>1. CASE PollStart(w) \/ PollFindsNothing(w)
  BY <1>0, <1>1 DEF PollStart, PollFindsNothing, AllBefore
<1>2. CASE MoveCursor(w)
  BY <1>0, <1>2 DEF MoveCursor
<1>3. CASE LooksBack(w)
  <2>1. last'[w] = 0 /\ \A s \in todo'[w] : s \in Int /\ s <= last[w]
    BY <1>0, <1>3 DEF LooksBack
  <2>2. \A t \in Submissions : t <= last[w] => ballots[t] # None
    BY <1>0, <1>3 DEF LooksBack
  <2>3. \A t \in Submissions : ~(t <= 0)
    BY Votes
  <2>4. pc'[w] = "next" /\ ballots' = ballots /\ last[w] \in Int
    BY <1>0, <1>3 DEF LooksBack
  <2> QED
    BY <1>0, <2>1, <2>2, <2>3, <2>4
<1>4. CASE ProcessOne(w) \/ ProcessPending(w)
  <2>1. /\ todo'[w] \subseteq submitted /\ todo[w] = {}
        /\ pc[w] = "idle" /\ pc'[w] = "next" /\ ballots' = ballots /\ last' = last
    BY <1>0, <1>4 DEF ProcessOne, ProcessPending, Pending
  <2> QED
    BY <1>0, <2>1 DEF AllBefore
<1>5. ASSUME NEW s \in Submissions, Upsert(w, s) \/ Request(w, s)
      PROVE  GoesInOrder(w)'
  <2>1. /\ todo'[w] = todo[w] \ {s} /\ s \in todo[w]
        /\ pc[w] = "next" /\ ballots' = ballots /\ last' = last
        /\ \/ pc'[w] = "load" /\ at'[w] = s
           \/ pc'[w] = "count" /\ ballots[s] # None
    BY <1>0, <1>5 DEF Upsert, Request, TakesNext, Processes
  <2> QED
    BY <1>0, <2>1
<1>6. CASE NothingPending(w) \/ Rollback(w) \/ TallyClash(w) \/ LoopEnds(w) \/ Fails(w)
  <2>1. /\ pc'[w] = "idle" /\ todo'[w] = {} /\ last'[w] = 0
    BY <1>0, <1>6, RestingTyped DEF NothingPending, Rollback, TallyClash, LoopEnds, Fails
  <2>2. \A t \in Submissions : ~(t <= 0)
    BY Votes
  <2> QED
    BY <2>1, <2>2
<1>7. CASE Load(w) \/ Validate(w) \/ ValidateFails(w) \/ ClearInvalid(w)
  BY <1>0, <1>7 DEF Load, Validate, ValidateFails, ClearInvalid
<1>8. CASE Commit(w)
  <2>1. /\ pc[w] = "commit" /\ pc'[w] = "count" /\ todo' = todo /\ last' = last
        /\ at[w] \in Submissions /\ ballots'[at[w]] # None
    BY <1>0, <1>8 DEF Commit, OrderInv, RowsInv, IsAtWork, Verdicts, ReasonCodes, None
  <2>2. \A t \in Submissions : ballots[t] # None => ballots'[t] # None
    BY TablesGrow DEF OrderInv
  <2> QED
    BY <1>0, <2>1, <2>2
<1>9. CASE CountBallots(w) \/ WipeTally(w) \/ StoreTally(w)
  BY <1>0, <1>9 DEF CountBallots, WipeTally, StoreTally
<1> QED
  BY <1>1, <1>2, <1>3, <1>4, <1>5, <1>6, <1>7, <1>8, <1>9
  DEF StepOf, PollStep, CallerStep, Process

\* Before the first vote everything is in order.
LEMMA OrderInvInit == Init => OrderInv
<1> SUFFICES ASSUME Init
             PROVE  OrderInv
  OBVIOUS
<1>1. \A t \in Submissions : t \in Int /\ ~(t <= 0) /\ ~(t < 1)
  BY Votes
<1>2. AllBefore(cursor)
  BY <1>1 DEF Init, AllBefore
<1>3. \A w \in Workers : GoesInOrder(w)
  BY <1>1 DEF Init, GoesInOrder
<1> QED
  BY <1>2, <1>3, RowsInvInit DEF Init, OrderInv

\* Every step keeps the order.
LEMMA OrderInvNext == OrderInv /\ [Next]_vars => OrderInv'
<1> SUFFICES ASSUME OrderInv, [Next]_vars
             PROVE  OrderInv'
  OBVIOUS
<1>0. RowsInv /\ RowsInv'
  BY RowsInvNext DEF OrderInv
<1>1. CASE Mine \/ UNCHANGED vars
  BY <1>0, <1>1
  DEF Mine, vars, tables, workers, OrderInv, AllBefore, GoesInOrder, InHand
<1>2. ASSUME NEW w \in Workers, StepOf(w)
      PROVE  OrderInv'
  <2>0. /\ TypeOK /\ GoesInOrder(w) /\ mined \in Int /\ cursor \in Int
        /\ \A s \in Submissions : s \in Int
        /\ \A s \in Submissions : ballots[s] # None => ballots'[s] # None
    BY <1>0, <1>2, Votes, TablesGrow DEF OrderInv, RowsInv, TypeOK
  <2>1. \A s \in submitted' : AllBefore(s)'
    <3>1. ASSUME NEW s \in Submissions, Upsert(w, s)
          PROVE  AllBefore(s) /\ submitted' = submitted \cup {s}
      BY <2>0, <3>1 DEF Upsert, TakesNext, AllBefore, GoesInOrder, InHand, Processing, TypeOK
    <3>2. \A s \in submitted' : AllBefore(s)
      BY <1>0, <1>2, <3>1, TablesGrow DEF OrderInv
    <3> QED
      BY <2>0, <3>2 DEF AllBefore
  <2>2. AllBefore(cursor)'
    <3>1. CASE MoveCursor(w)
      <4>1. cursor' = last[w] + 1 /\ last[w] \in Int /\ todo[w] = {} /\ pc[w] = "next"
        BY <2>0, <3>1 DEF MoveCursor, TypeOK
      <4>2. \A t \in Submissions : t < cursor' => ballots[t] # None
        BY <2>0, <4>1 DEF GoesInOrder, InHand, Processing
      <4> QED
        BY <2>0, <4>2 DEF AllBefore
    <3>2. CASE ~MoveCursor(w)
      <4>1. cursor' = cursor
        BY <1>2, <3>2
        DEF StepOf, PollStep, CallerStep, Process, PollStart, PollFindsNothing, LooksBack,
            NothingPending, ProcessOne, ProcessPending, Upsert, Request, Load, Validate,
            ValidateFails, ClearInvalid, Commit, Rollback, CountBallots, WipeTally, StoreTally,
            TallyClash, LoopEnds, Fails
      <4> QED
        BY <2>0, <4>1 DEF AllBefore, OrderInv
    <3> QED
      BY <3>1, <3>2
  <2>3. ASSUME NEW v \in Workers
        PROVE  GoesInOrder(v)'
    <3>1. CASE v # w
      <4>1. /\ at'[v] = at[v] /\ todo'[v] = todo[v] /\ last'[v] = last[v]
            /\ \/ pc'[v] = pc[v]
               \/ Commit(w) /\ pc[v] = "commit" /\ at[v] = at[w] /\ pc'[v] = "rollback"
               \/ pc[v] = "store" /\ pc'[v] = "clash"
        BY <1>2, <2>0, <3>1, OthersUndisturbed
      <4>2. Commit(w) => ballots'[at[w]] # None
        BY <1>0 DEF Commit, RowsInv, TypeOK, IsAtWork, Processing, Verdicts, ReasonCodes, None
      <4> QED
        BY <2>0, <4>1, <4>2 DEF GoesInOrder, InHand, Processing, OrderInv
    <3> QED
      BY <1>2, <3>1, KeepsItsOrder
  <2> QED
    BY <1>0, <2>1, <2>2, <2>3 DEF OrderInv, AllBefore
<1> QED
  BY <1>1, <1>2, StepsHaveActors

\* Whatever polls and requests overlap, no vote is stored before all earlier ones are decided.
THEOREM OrderInvariant == Spec => []OrderInv
BY OrderInvInit, OrderInvNext, PTL DEF Spec

-----------------------------------------------------------------------------
(***************************************************************************)
(* As long as no failed call has become a verdict, the verdicts follow     *)
(* from the order of the votes alone.                                      *)
(***************************************************************************)

\* Would the vote be valid if there were no other?
Eligible(s) ==
    HasKey /\ s \notin Malformed /\ CanSubmitBallotOffchain(s) /\ PeriodIsDefined

\* An earlier rival has the ballot.
Beaten(s) ==
    Policy # "UNLIMITED_PAID" /\ \E t \in Rivals(s) : t < s /\ ballots[t] = "valid"

FairVerdict(b, s) ==
    /\ b = "valid" => Eligible(s)
    /\ b # "valid" /\ Eligible(s) => Beaten(s)
    /\ b = "BALLOT_POLICY_VIOLATION" /\ s \notin Malformed /\ CanSubmitBallotOffchain(s)
          => Eligible(s)

FairBallots ==
    /\ \A s \in Submissions : ballots[s] # None => FairVerdict(ballots[s], s)
    /\ \A s \in Valid : HasRemainingBallot(s, Valid)

\* A verdict that waits for its transaction is one that may still be stored.
FairPending(w) ==
    /\ pc[w] = "validate" => HasKey
    /\ pc[w] \in {"clear", "commit"} =>
          /\ FairVerdict(verdict[w], at[w])
          /\ verdict[w] = "valid" => HasRemainingBallot(at[w], Valid)

FairInv ==
    /\ OrderInv
    /\ ~misjudged => FairBallots /\ \A w \in Workers : FairPending(w)

\* Rivalry is mutual.
LEMMA RivalsAreMutual ==
    \A s, t \in Submissions : t \in Rivals(s) => s # t /\ s \in Rivals(t)
BY DEF Rivals

\* Any two verdicts on a vote agree on whether it is valid: processing it again, or twice
\* at a time, makes no difference.
LEMMA VerdictsAgree ==
    ASSUME OrderInv, FairBallots, NEW s \in Submissions, NEW b \in Verdicts,
           ballots[s] # None,
           FairVerdict(b, s), b = "valid" => HasRemainingBallot(s, Valid)
    PROVE  b = "valid" <=> ballots[s] = "valid"
<1>1. \A t \in Submissions : ballots[t] = "valid" => t \in Valid
  BY DEF Valid, OrderInv, RowsInv, None
<1>2. Rivals(s) \subseteq Submissions
  BY DEF Rivals
<1>3. CASE b = "valid" /\ ballots[s] # "valid"
  <2>1. Beaten(s)
    BY <1>3 DEF FairBallots, FairVerdict
  <2> QED
    BY <1>1, <1>2, <1>3, <2>1 DEF Beaten, HasRemainingBallot
<1>4. CASE b # "valid" /\ ballots[s] = "valid"
  <2>1. Beaten(s)
    BY <1>4 DEF FairBallots, FairVerdict, None
  <2> QED
    BY <1>1, <1>2, <1>4, <2>1 DEF Beaten, HasRemainingBallot, FairBallots
<1> QED
  BY <1>3, <1>4

\* validateBallotUsage judges fairly although it counts later rivals, too: a later one is
\* stored only when this vote has its ballot.
LEMMA JudgementIsFair ==
    ASSUME OrderInv, FairBallots, HasKey, NEW s \in submitted
    PROVE  /\ FairVerdict(Judgement(s), s)
           /\ Judgement(s) = "valid" => HasRemainingBallot(s, Valid)
<1>1. submitted \subseteq Submissions /\ \A t \in Submissions : t \in Int
  BY Votes DEF OrderInv, RowsInv, TypeOK
<1>2. CASE ~Eligible(s)
  BY <1>2 DEF Judgement, Eligible, FairVerdict
<1>3. CASE Eligible(s) /\ HasRemainingBallot(s, Valid)
  BY <1>3 DEF Judgement, Eligible, FairVerdict
<1>4. CASE Eligible(s) /\ ~HasRemainingBallot(s, Valid)
  <2>1. Judgement(s) = "BALLOT_POLICY_VIOLATION"
    BY <1>4 DEF Judgement, Eligible
  <2>2. PICK t \in Rivals(s) : t \in Valid
    BY <1>4 DEF HasRemainingBallot
  <2>3. Policy # "UNLIMITED_PAID"
    BY <1>4 DEF HasRemainingBallot
  <2>4. t \in Submissions /\ t # s /\ ballots[t] = "valid" /\ t \in submitted
    BY <2>2 DEF Valid, Rivals
  <2>5. CASE t < s
    BY <1>4, <2>1, <2>2, <2>3, <2>4, <2>5 DEF FairVerdict, Beaten
  <2>6. CASE s < t
    <3>1. ballots[s] # None
      BY <1>1, <2>4, <2>6 DEF OrderInv, AllBefore
    <3>2. CASE ballots[s] = "valid"
      BY <1>4, <3>2 DEF FairBallots, Valid
    <3>3. CASE ballots[s] # "valid"
      BY <1>1, <1>4, <2>1, <3>1, <3>3 DEF FairBallots, FairVerdict
    <3> QED
      BY <3>2, <3>3
  <2> QED
    BY <1>1, <2>4, <2>5, <2>6
<1> QED
  BY <1>2, <1>3, <1>4

\* A vote that gets its ballot has no rival that has one or may still get one: those before
\* it are decided, and those after it are not stored.
LEMMA NewcomerHasNoRival ==
    ASSUME OrderInv, NEW s \in submitted, NEW u \in submitted,
           ballots[s] = None, HasRemainingBallot(s, Valid),
           u \in Valid \/ ballots[u] = None
    PROVE  Policy = "UNLIMITED_PAID" \/ s \notin Rivals(u)
<1>1. submitted \subseteq Submissions /\ \A t \in Submissions : t \in Int
  BY Votes DEF OrderInv, RowsInv, TypeOK
<1>2. CASE u \in Valid
  BY <1>1, <1>2, RivalsAreMutual DEF HasRemainingBallot
<1>3. CASE ballots[u] = None
  <2>1. ~(u < s) /\ ~(s < u)
    BY <1>1, <1>3 DEF OrderInv, AllBefore
  <2> QED
    BY <1>1, <2>1 DEF Rivals
<1> QED
  BY <1>2, <1>3

\* A commit is fair, and leaves the verdicts that still wait fair.
LEMMA CommitIsFair ==
    ASSUME OrderInv, FairBallots, \A v \in Workers : FairPending(v),
           NEW w \in Workers, Commit(w)
    PROVE  FairBallots' /\ \A v \in Workers : FairPending(v)'
<1>0. /\ TypeOK /\ RowsInv /\ FairPending(w) /\ StepOf(w)
      /\ submitted \subseteq Submissions
      /\ \A v \in Workers : IsAtWork(v)
  BY DEF OrderInv, RowsInv, StepOf, Process, TypeOK
<1>1. PICK s \in submitted : s = at[w]
  BY <1>0, CommitExplains
<1>2. PICK b \in Verdicts : b = verdict[w]
  BY <1>0 DEF Commit, IsAtWork
<1>3. /\ submitted' = submitted
      /\ ballots'[s] = b
      /\ \A t \in Submissions \ {s} : ballots'[t] = ballots[t]
      /\ FairVerdict(b, s) /\ (b = "valid" => HasRemainingBallot(s, Valid))
  BY <1>0, <1>1, <1>2 DEF Commit, TypeOK, FairPending
<1>4. ballots[s] # None => (b = "valid" <=> ballots[s] = "valid")
  BY <1>0, <1>3, VerdictsAgree
<1>5. \A t \in Submissions : ballots[t] = "valid" => ballots'[t] = "valid"
  BY <1>3, <1>4 DEF None
<1>6. \A t \in Submissions : Beaten(t) => Beaten(t)'
  BY <1>5 DEF Beaten, Rivals
<1>7. \A t \in Submissions : \A c : FairVerdict(c, t) => FairVerdict(c, t)'
  BY <1>6 DEF FairVerdict, Eligible, CanSubmitBallotOffchain, PeriodIsDefined
<1>8. \A t \in Valid' : t \in Valid \/ (t = s /\ b = "valid" /\ ballots[s] = None)
  BY <1>0, <1>3, <1>4 DEF Valid
<1>9. ASSUME NEW u \in submitted, HasRemainingBallot(u, Valid), u \in Valid \/ ballots[u] = None
      PROVE  HasRemainingBallot(u, Valid')
  BY <1>3, <1>8, <1>9, NewcomerHasNoRival DEF HasRemainingBallot
<1>10. FairBallots'
  <2>1. \A t \in Submissions : \A c : c = ballots'[t] /\ c # None => FairVerdict(c, t)
    BY <1>0, <1>3 DEF FairBallots
  <2>2. \A t \in Submissions : \A c : c = ballots'[t] /\ c # None => FairVerdict(c, t)'
    BY <1>7, <2>1
  <2>3. ASSUME NEW t \in Valid'
        PROVE  HasRemainingBallot(t, Valid')
    <3>1. t \in submitted
      BY <1>3 DEF Valid
    <3>2. HasRemainingBallot(t, Valid) /\ (t \in Valid \/ ballots[t] = None)
      BY <1>3, <1>8 DEF FairBallots
    <3> QED
      BY <1>9, <3>1, <3>2
  <2> QED
    BY <2>2, <2>3 DEF FairBallots
<1>11. ASSUME NEW v \in Workers
       PROVE  FairPending(v)'
  <2>1. CASE v = w
    BY <1>0, <2>1 DEF Commit, TypeOK, FairPending
  <2>2. CASE v # w /\ pc'[v] = "validate"
    BY <1>0, <2>2, OthersUndisturbed DEF FairPending
  <2>3. CASE v # w /\ pc'[v] \in {"clear", "commit"}
    <3>1. /\ pc[v] \in {"clear", "commit"}
          /\ at'[v] = at[v] /\ verdict'[v] = verdict[v]
      BY <1>0, <2>3, OthersUndisturbed
    <3>2. PICK u \in submitted : u = at[v]
      BY <1>0, <3>1 DEF IsAtWork, Processing
    <3>3. PICK c \in Verdicts : c = verdict[v]
      BY <1>0, <3>1 DEF IsAtWork
    <3>4. FairVerdict(c, u) /\ (c = "valid" => HasRemainingBallot(u, Valid))
      BY <3>1, <3>2, <3>3 DEF FairPending
    <3>5. FairVerdict(c, u)'
      BY <1>0, <1>7, <3>4
    <3>6. c = "valid" => HasRemainingBallot(u, Valid')
      <4>1. ballots[u] # None => (c = "valid" <=> ballots[u] = "valid")
        BY <1>0, <3>4, VerdictsAgree
      <4> QED
        BY <1>9, <3>4, <4>1 DEF Valid
    <3> QED
      BY <2>3, <3>1, <3>2, <3>3, <3>5, <3>6 DEF FairPending
  <2> QED
    BY <2>1, <2>2, <2>3 DEF FairPending
<1> QED
  BY <1>10, <1>11

\* Steps that write no ballot keep ballots and waiting verdicts fair.
LEMMA OtherStepsAreFair ==
    ASSUME OrderInv, FairBallots, \A v \in Workers : FairPending(v),
           NEW w \in Workers, StepOf(w), ~Commit(w), ~misjudged'
    PROVE  FairBallots' /\ \A v \in Workers : FairPending(v)'
<1>0. /\ TypeOK /\ RowsInv /\ IsAtWork(w) /\ FairPending(w)
      /\ ballots' = ballots /\ submitted \subseteq Submissions
  BY TablesGrow DEF OrderInv, RowsInv, TypeOK
<1>1. Valid' = Valid
  <2>1. CASE submitted' = submitted
    BY <1>0, <2>1 DEF Valid
  <2>2. ASSUME NEW s \in Submissions, Upsert(w, s)
        PROVE  Valid' = Valid
    BY <1>0, <2>2 DEF Upsert, Valid, RowsInv, None
  <2> QED
    BY <1>0, <2>1, <2>2, TablesGrow
<1>2. \A c, t : FairVerdict(c, t)' <=> FairVerdict(c, t)
  BY <1>0 DEF FairVerdict, Eligible, Beaten, Rivals, CanSubmitBallotOffchain, PeriodIsDefined,
              CurrentPeriodKey
<1>3. FairBallots'
  BY <1>0, <1>1, <1>2 DEF FairBallots, HasRemainingBallot
<1>4. FairPending(w)'
  <2> USE DEF TypeOK, tables, workers, GoesTo
  <2>1. CASE Load(w)
    BY <1>0, <2>1 DEF Load, FairPending, FairVerdict, Eligible
  <2>2. CASE Validate(w)
    <3>1. at[w] \in submitted /\ pc'[w] = "clear" /\ at' = at /\ verdict'[w] = Judgement(at[w])
      BY <1>0, <2>2 DEF Validate, IsAtWork, Processing
    <3>2. /\ FairVerdict(Judgement(at[w]), at[w])
          /\ Judgement(at[w]) = "valid" => HasRemainingBallot(at[w], Valid)
      BY <1>0, <2>2, <3>1, JudgementIsFair DEF Validate, FairPending
    <3> QED
      BY <1>1, <1>2, <3>1, <3>2 DEF FairPending
  <2>3. CASE ValidateFails(w)
    BY <2>3 DEF ValidateFails
  <2>4. CASE ClearInvalid(w)
    BY <1>0, <1>1, <1>2, <2>4 DEF ClearInvalid, FairPending
  <2>5. CASE ~(Load(w) \/ Validate(w) \/ ValidateFails(w) \/ ClearInvalid(w))
    <3>1. pc'[w] \notin {"validate", "clear", "commit"}
      <4>1. CASE PollStep(w)
        BY <1>0, <4>1, RestingTyped
        DEF PollStep, PollStart, PollFindsNothing, LooksBack, MoveCursor, NothingPending, Upsert,
            Processes
      <4>2. CASE CallerStep(w)
        BY <1>0, <4>2 DEF CallerStep, ProcessOne, ProcessPending, Request, Processes
      <4>3. CASE Rollback(w) \/ TallyClash(w) \/ LoopEnds(w) \/ Fails(w)
        BY <1>0, <4>3, RestingTyped DEF Rollback, TallyClash, LoopEnds, Fails
      <4>4. CASE CountBallots(w) \/ WipeTally(w) \/ StoreTally(w)
        BY <1>0, <4>4 DEF CountBallots, WipeTally, StoreTally
      <4> QED
        BY <2>5, <4>1, <4>2, <4>3, <4>4 DEF StepOf, Process
    <3> QED
      BY <3>1 DEF FairPending
  <2> QED
    BY <2>1, <2>2, <2>3, <2>4, <2>5
<1>5. ASSUME NEW v \in Workers \ {w}
      PROVE  FairPending(v)'
  BY <1>0, <1>1, <1>2, OthersUndisturbed DEF FairPending
<1> QED
  BY <1>3, <1>4, <1>5

\* Before the first verdict all verdicts are fair.
LEMMA FairInvInit == Init => FairInv
<1> SUFFICES ASSUME Init
             PROVE  FairInv
  OBVIOUS
<1>1. \A s \in Submissions : ballots[s] = None
  BY DEF Init
<1>2. FairBallots
  BY <1>1 DEF Init, FairBallots, Valid
<1>3. \A w \in Workers : FairPending(w)
  BY DEF Init, FairPending
<1> QED
  BY <1>2, <1>3, OrderInvInit DEF FairInv

\* No step stores an unfair one, unless a failed call became it.
LEMMA FairInvNext == FairInv /\ [Next]_vars => FairInv'
<1> SUFFICES ASSUME FairInv, [Next]_vars
             PROVE  FairInv'
  OBVIOUS
<1>0. OrderInv /\ OrderInv'
  BY OrderInvNext DEF FairInv
<1>1. CASE Mine \/ UNCHANGED vars
  <2>1. UNCHANGED <<tables, workers, failures>>
    BY <1>1 DEF Mine, vars
  <2> QED
    BY <1>0, <2>1
    DEF tables, workers, failures, FairInv, FairBallots, FairPending, FairVerdict, Eligible, Beaten,
        Rivals, CurrentPeriodKey, CanSubmitBallotOffchain, PeriodIsDefined, HasRemainingBallot,
        Valid
<1>2. ASSUME NEW w \in Workers, StepOf(w), ~misjudged'
      PROVE  FairBallots' /\ \A v \in Workers : FairPending(v)'
  <2>1. ~misjudged
    BY <1>2
    DEF StepOf, PollStep, CallerStep, Process, PollStart, PollFindsNothing, LooksBack, MoveCursor,
        NothingPending, ProcessOne, ProcessPending, Upsert, Request, Load, Validate, ValidateFails,
        ClearInvalid, Commit, Rollback, CountBallots, WipeTally, StoreTally, TallyClash, LoopEnds,
        Fails, failures
  <2>2. FairBallots /\ \A v \in Workers : FairPending(v)
    BY <2>1 DEF FairInv
  <2> QED
    BY <1>0, <1>2, <2>2, CommitIsFair, OtherStepsAreFair
<1> QED
  BY <1>0, <1>1, <1>2, StepsHaveActors DEF FairInv

\* Until a failed call becomes a verdict, ballots follow from the order of the votes on the
\* chain, whatever polls and requests process them, overlap, fail and roll back.
THEOREM FairInvariant == Spec => []FairInv
BY FairInvInit, FairInvNext, PTL DEF Spec

\* Overlapping validations of one wallet's votes never give it two ballots of a period,
\* unless a failed fetch or query was stored as a verdict.
THEOREM OneBallotPerPeriod == Spec => []OneBallotUnlessMisjudged
<1>1. FairInv => OneBallotUnlessMisjudged
  BY DEF FairInv, FairBallots, OneBallotUnlessMisjudged, OneValidBallotPerPeriod,
         HasRemainingBallot
<1> QED
  BY <1>1, FairInvariant, PTL

\* Until then validateBallotUsage refuses a well-formed ballot only for an earlier one: the
\* order of processing does not count.
THEOREM TheEarlierVoteWins == Spec => []EarlierVoteWins
<1>1. FairInv => EarlierVoteWins
  <2> SUFFICES ASSUME FairInv, ~misjudged, NEW s \in submitted \ Malformed,
                      ballots[s] = "BALLOT_POLICY_VIOLATION", CanSubmitBallotOffchain(s)
               PROVE  \E t \in Rivals(s) : t < s /\ ballots[t] = "valid"
    BY DEF EarlierVoteWins
  <2>1. s \in Submissions /\ ballots[s] # None
    BY DEF FairInv, OrderInv, RowsInv, TypeOK, None
  <2>2. FairVerdict(ballots[s], s)
    BY <2>1 DEF FairInv, FairBallots
  <2> QED
    BY <2>2 DEF FairVerdict, Beaten
<1> QED
  BY <1>1, FairInvariant, PTL

-----------------------------------------------------------------------------
(***************************************************************************)
(* Each step of the processing is a step of BallotLedger, or none.         *)
(***************************************************************************)

\* The two modules judge by the same rule.
LEMMA SameRule ==
    /\ \A s : Ledger!Eligible(s) <=> Eligible(s)
    /\ \A s, set : Ledger!HasRemainingBallot(s, set) <=> HasRemainingBallot(s, set)
BY DEF Ledger!Eligible, Ledger!HasRemainingBallot, Ledger!Rivals, Ledger!CanSubmitBallotOffchain,
       Ledger!PeriodIsDefined, Ledger!CurrentPeriodKey, Eligible, HasRemainingBallot, Rivals,
       CanSubmitBallotOffchain, PeriodIsDefined, CurrentPeriodKey

\* Only stored submissions have ballots.
LEMMA ValidHaveBallots ==
    /\ RowsInv => Valid = {s \in Submissions : ballots[s] = "valid"}
    /\ RowsInv' => Valid' = {s \in Submissions : ballots'[s] = "valid"}
BY DEF RowsInv, TypeOK, Valid, None

\* A first verdict is the one the ledger gives; a later one changes nothing.
LEMMA CommitDecides ==
    ASSUME FairInv, ~misjudged, RowsInv', NEW w \in Workers, Commit(w)
    PROVE  \/ \E s \in Submissions : Ledger!Decide(s)
           \/ UNCHANGED <<{s \in Submissions : ballots[s] # None}, Valid, misjudged>>
<1> DEFINE decided == {t \in Submissions : ballots[t] # None}
<1>0. /\ OrderInv /\ RowsInv /\ FairBallots /\ FairPending(w) /\ IsAtWork(w) /\ TypeOK
      /\ submitted \subseteq Submissions
  BY DEF FairInv, OrderInv, RowsInv, TypeOK
<1>1. PICK s \in submitted : s = at[w]
  BY <1>0, CommitExplains
<1>2. PICK b \in Verdicts : b = verdict[w]
  BY <1>0 DEF Commit, IsAtWork
<1>3. /\ ballots'[s] = b /\ \A t \in Submissions \ {s} : ballots'[t] = ballots[t]
      /\ FairVerdict(b, s) /\ (b = "valid" => HasRemainingBallot(s, Valid))
      /\ misjudged' = misjudged /\ b # None
  BY <1>0, <1>1, <1>2 DEF Commit, TypeOK, FairPending, failures, Verdicts, ReasonCodes, None
<1>4. /\ \A t \in Submissions : t \in Valid <=> ballots[t] = "valid"
      /\ \A t \in Submissions : t \in Valid' <=> ballots'[t] = "valid"
      /\ Valid \subseteq Submissions /\ Valid' \subseteq Submissions
  BY <1>0, ValidHaveBallots
<1>5. decided' = decided \cup {s}
  BY <1>0, <1>3
<1>6. CASE ballots[s] # None
  <2>1. b = "valid" <=> ballots[s] = "valid"
    BY <1>0, <1>3, <1>6, VerdictsAgree
  <2>2. Valid' = Valid
    BY <1>0, <1>3, <1>4, <2>1
  <2> QED
    BY <1>0, <1>3, <1>5, <1>6, <2>2
<1>7. CASE ballots[s] = None
  <2>1. b = "valid" <=> Eligible(s) /\ HasRemainingBallot(s, Valid)
    <3>1. b # "valid" /\ Eligible(s) => ~HasRemainingBallot(s, Valid)
      BY <1>3, <1>4 DEF FairVerdict, Beaten, HasRemainingBallot, Rivals
    <3> QED
      BY <1>3, <3>1 DEF FairVerdict
  <2>2. Valid' = IF b = "valid" THEN Valid \cup {s} ELSE Valid
    BY <1>0, <1>3, <1>4, <1>7 DEF None
  <2>3. s \notin decided /\ \A t \in Submissions : t < s => t \in decided
    BY <1>0, <1>7 DEF OrderInv, AllBefore
  <2>4. Ledger!Decide(s)
    BY <1>3, <1>5, <2>1, <2>2, <2>3, SameRule DEF Ledger!Decide
  <2> QED
    BY <1>0, <2>4
<1> QED
  BY <1>6, <1>7

\* A step that writes no ballot decides nothing.
LEMMA StepDecides ==
    ASSUME FairInv, FairInv', [Next]_vars
    PROVE  \/ Ledger!Next
           \/ UNCHANGED <<{s \in Submissions : ballots[s] # None}, Valid, misjudged>>
<1>0. RowsInv /\ RowsInv' /\ misjudged \in BOOLEAN /\ misjudged' \in BOOLEAN
  BY DEF FairInv, OrderInv, RowsInv, TypeOK
<1>1. /\ misjudged => misjudged'
      /\ \A s \in Submissions : ballots[s] # None => ballots'[s] # None
  <2>1. CASE Mine \/ UNCHANGED vars
    BY <2>1 DEF Mine, vars, tables, failures
  <2>2. ASSUME NEW w \in Workers, StepOf(w)
        PROVE  misjudged => misjudged'
    BY <2>2
    DEF StepOf, PollStep, CallerStep, Process, PollStart, PollFindsNothing, LooksBack, MoveCursor,
        NothingPending, ProcessOne, ProcessPending, Upsert, Request, Load, Validate, ValidateFails,
        ClearInvalid, Commit, Rollback, CountBallots, WipeTally, StoreTally, TallyClash, LoopEnds,
        Fails, failures
  <2> QED
    BY <1>0, <2>1, <2>2, StepsHaveActors, TablesGrow
<1>2. CASE misjudged'
  <2>1. Valid' \subseteq {s \in Submissions : ballots'[s] # None}
    BY <1>0, ValidHaveBallots DEF None
  <2> QED
    BY <1>1, <1>2, <2>1 DEF Ledger!Next, Ledger!Misjudge
<1>3. CASE ~misjudged' /\ ballots' = ballots
  <2>1. Valid' = Valid
    BY <1>0, <1>3, ValidHaveBallots
  <2> QED
    BY <1>0, <1>1, <1>3, <2>1
<1>4. CASE ~misjudged' /\ ballots' # ballots
  <2>1. PICK w \in Workers : Commit(w)
    BY <1>0, <1>4, StepsHaveActors, TablesGrow DEF Mine, vars, tables
  <2> QED
    BY <1>0, <1>1, <1>4, <2>1, CommitDecides DEF Ledger!Next
<1> QED
  BY <1>2, <1>3, <1>4

\* processSubmission, run by any number of overlapping polls and requests, implements the
\* sequential rule: whatever fails, rolls back or is processed again, the votes are decided
\* in chain order, each once and for good, until a failed call becomes a verdict.
THEOREM ImplementsLedger == Spec => DecidesInChainOrder
<1>1. Init => Ledger!Init
  <2>1. ASSUME Init
        PROVE  Ledger!Init
    BY <2>1 DEF Init, Ledger!Init, Valid
  <2> QED
    BY <2>1
<1>2. FairInv /\ FairInv' /\ [Next]_vars =>
          [Ledger!Next]_<<{s \in Submissions : ballots[s] # None}, Valid, misjudged>>
  BY StepDecides
<1> QED
  BY <1>1, <1>2, FairInvariant, PTL DEF Spec, DecidesInChainOrder, Ledger!Spec

-----------------------------------------------------------------------------
(***************************************************************************)
(* The live tally of a single worker.  A poll owes a recompute for every   *)
(* ballot it has stored since the tally was written, and it pays while the *)
(* vote is still before its cursor: a scan that fails comes back to it.    *)
(***************************************************************************)

\* One poll and nobody at the endpoints, or the reverse.
OneWorker == \E w : Workers = {w}

Scanning(w) == pc[w] \notin {"idle", "pending"}
Recounting == {"count", "wipe", "store"}

\* The scan runs from the cursor over all votes that are stored; between its upsert and
\* its tally there is a vote that the next scan will visit again.
ScansFromCursor(w) ==
    /\ last[w] <= mined
    /\ Scanning(w) => /\ last[w] > 0 /\ todo[w] \subseteq cursor..last[w]
                      /\ \A s \in submitted : s <= last[w]
    /\ pc[w] \in Processing => at[w] >= cursor
    /\ pc[w] \in Recounting => \E s \in submitted : cursor <= s /\ ballots[s] # None
    /\ pc[w] \in {"wipe", "store"} => counted[w] = Valid
    /\ pc[w] = "pending" => Pending = {}

\* A tally that is out of date is being recomputed, or a scan will.
TallyIsOwed(w) ==
    \/ liveTally = Valid
    \/ pc[w] \in Recounting
    \/ \E s \in submitted :
          cursor <= s /\ ballots[s] # None /\ (pc[w] = "idle" \/ s \in todo[w])

QuietInv ==
    /\ OrderInv
    /\ submitted \subseteq 1..mined
    /\ submitted # {} => Workers \subseteq Polls
    /\ \A w \in Workers : ScansFromCursor(w) /\ TallyIsOwed(w)

\* Before the first block there is no tally to owe.
LEMMA QuietInvInit == Init => QuietInv
<1> SUFFICES ASSUME Init
             PROVE  QuietInv
  OBVIOUS
<1>1. Valid = {} /\ liveTally = {} /\ submitted = {} /\ mined = 0
  BY DEF Init, Valid
<1>2. \A w \in Workers : pc[w] = "idle" /\ last[w] = 0
  BY DEF Init
<1> QED
  BY <1>1, <1>2, OrderInvInit
  DEF QuietInv, ScansFromCursor, TallyIsOwed, Scanning, Processing, Recounting

\* The only worker there is keeps owing what it owes.
LEMMA WorkerStaysQuiet ==
    ASSUME OneWorker, QuietInv, NEW w \in Workers, StepOf(w), OrderInv'
    PROVE  /\ submitted' \subseteq 1..mined'
           /\ submitted' # {} => Workers \subseteq Polls
           /\ ScansFromCursor(w)' /\ TallyIsOwed(w)'
<1> DEFINE Quiet == /\ submitted' \subseteq 1..mined'
                    /\ submitted' # {} => Workers \subseteq Polls
                    /\ ScansFromCursor(w)' /\ TallyIsOwed(w)'
<1>0. /\ TypeOK /\ RowsInv /\ OrderInv /\ IsAtWork(w) /\ GoesInOrder(w)
      /\ submitted \subseteq 1..mined /\ (submitted # {} => Workers \subseteq Polls)
      /\ ScansFromCursor(w) /\ TallyIsOwed(w)
  BY DEF QuietInv, OrderInv, RowsInv
<1>n. /\ mined \in Nat /\ cursor \in Nat /\ cursor >= 1 /\ last[w] \in Nat
      /\ submitted \subseteq Submissions /\ \A s \in Submissions : s \in Nat
  BY <1>0, Votes DEF TypeOK, RowsInv
<1> USE DEF tables, workers, GoesTo
<1>1. CASE PollStart(w)
  <2>1. /\ pc[w] = "idle" /\ pc'[w] = "next" /\ todo'[w] = cursor..mined /\ last'[w] = mined
        /\ cursor <= mined /\ mined > 0
        /\ UNCHANGED <<mined, cursor, submitted, ballots, liveTally>>
    BY <1>0, <1>1, <1>n DEF PollStart, TypeOK
  <2>2. ScansFromCursor(w)'
    BY <1>0, <1>n, <2>1 DEF ScansFromCursor, Scanning, Processing, Recounting
  <2>3. TallyIsOwed(w)'
    BY <1>0, <1>n, <2>1 DEF TallyIsOwed, Recounting, Valid
  <2> QED
    BY <1>0, <2>1, <2>2, <2>3
<1>2. CASE PollFindsNothing(w)
  <2>1. /\ pc[w] = "idle" /\ pc'[w] = "pending" /\ last'[w] = mined /\ cursor > mined
        /\ UNCHANGED <<mined, cursor, submitted, ballots, liveTally>>
    BY <1>0, <1>2 DEF PollFindsNothing, TypeOK
  <2>2. \A s \in submitted : s < cursor /\ ballots[s] # None
    BY <1>0, <1>n, <2>1 DEF OrderInv, AllBefore
  <2>3. ScansFromCursor(w)'
    BY <1>n, <2>1, <2>2 DEF ScansFromCursor, Scanning, Processing, Recounting, Pending
  <2>4. TallyIsOwed(w)'
    BY <1>0, <1>n, <2>1, <2>2 DEF TallyIsOwed, Recounting, Valid
  <2> QED
    BY <1>0, <2>1, <2>3, <2>4
<1>3. CASE LooksBack(w)
  BY <1>0, <1>3 DEF LooksBack, ScansFromCursor
<1>4. CASE MoveCursor(w)
  <2>1. /\ pc[w] = "next" /\ pc'[w] = "pending" /\ todo[w] = {} /\ last'[w] = last[w]
        /\ cursor' = last[w] + 1
        /\ UNCHANGED <<mined, submitted, ballots, liveTally>>
    BY <1>0, <1>4 DEF MoveCursor, TypeOK
  <2>2. \A s \in submitted : s <= last[w] /\ ballots[s] # None
    <3>1. \A s \in Submissions : s < last[w] + 1 => ballots[s] # None
      BY <2>1 DEF OrderInv, AllBefore
    <3>2. \A s \in submitted : s <= last[w]
      BY <1>0, <2>1 DEF ScansFromCursor, Scanning
    <3> QED
      BY <1>n, <3>1, <3>2
  <2>3. ScansFromCursor(w)'
    BY <1>0, <1>n, <2>1, <2>2 DEF ScansFromCursor, Scanning, Processing, Recounting, Pending
  <2>4. TallyIsOwed(w)'
    BY <1>0, <2>1 DEF TallyIsOwed, Recounting, Valid
  <2> QED
    BY <1>0, <2>1, <2>3, <2>4
<1>5. CASE NothingPending(w) \/ Rollback(w) \/ TallyClash(w) \/ LoopEnds(w) \/ Fails(w)
  <2>1. /\ pc'[w] = "idle" /\ last'[w] = 0
        /\ UNCHANGED <<mined, cursor, submitted, ballots, liveTally>>
    BY <1>0, <1>5, RestingTyped DEF NothingPending, Rollback, TallyClash, LoopEnds, Fails, TypeOK
  <2>2. ScansFromCursor(w)'
    BY <1>n, <2>1 DEF ScansFromCursor, Scanning, Processing, Recounting
  <2>3. TallyIsOwed(w)'
    BY <1>0, <2>1 DEF TallyIsOwed, ScansFromCursor, Valid
  <2> QED
    BY <1>0, <2>1, <2>2, <2>3
<1>6. CASE w \in Callers /\ CallerStep(w)
  <2>1. submitted = {}
    BY <1>0, <1>6, ProcessingAssumption
  <2> QED
    BY <1>0, <1>6, <2>1
    DEF CallerStep, ProcessOne, ProcessPending, Pending, Request, TakesNext, RowsInv
<1>7. ASSUME w \in Polls, NEW s \in Submissions, Upsert(w, s)
      PROVE  Quiet
  <2>1. /\ pc[w] = "next" /\ s \in todo[w] /\ submitted' = submitted \cup {s}
        /\ todo'[w] = todo[w] \ {s} /\ last'[w] = last[w]
        /\ \/ pc'[w] = "load" /\ at'[w] = s /\ ballots[s] = None
           \/ pc'[w] = "count" /\ ballots[s] # None
        /\ UNCHANGED <<mined, cursor, ballots, liveTally>>
    BY <1>0, <1>7 DEF Upsert, TakesNext, Processes, TypeOK
  <2>2. /\ todo[w] \subseteq cursor..last[w] /\ last[w] > 0 /\ last[w] <= mined
        /\ cursor <= s /\ s <= last[w]
    BY <1>0, <1>n, <2>1 DEF ScansFromCursor, Scanning
  <2>3. Valid' = Valid
    BY <1>0, <2>1 DEF Valid, RowsInv, None
  <2>4. Workers \subseteq Polls
    BY <1>7 DEF OneWorker
  <2>5. submitted' \subseteq 1..mined'
    BY <1>0, <1>n, <2>1, <2>2
  <2>6. ScansFromCursor(w)'
    BY <1>0, <1>n, <2>1, <2>2 DEF ScansFromCursor, Scanning, Processing, Recounting
  <2>7. TallyIsOwed(w)'
    BY <1>0, <2>1, <2>3 DEF TallyIsOwed, Recounting
  <2> QED
    BY <2>4, <2>5, <2>6, <2>7
<1>8. CASE Load(w) \/ Validate(w) \/ ValidateFails(w) \/ ClearInvalid(w)
  <2>1. /\ pc[w] \in Processing /\ pc'[w] \in Processing
        /\ UNCHANGED <<mined, cursor, submitted, ballots, liveTally, todo, last, at>>
    BY <1>0, <1>8 DEF Load, Validate, ValidateFails, ClearInvalid, Processing, TypeOK
  <2>2. ScansFromCursor(w)'
    BY <1>0, <2>1 DEF ScansFromCursor, Scanning, Processing, Recounting
  <2>3. TallyIsOwed(w)'
    BY <1>0, <2>1 DEF TallyIsOwed, Processing, Recounting, Valid
  <2> QED
    BY <1>0, <2>1, <2>2, <2>3
<1>9. CASE Commit(w)
  <2>1. /\ pc[w] = "commit" /\ pc'[w] = "count"
        /\ at[w] \in submitted /\ ballots'[at[w]] # None
        /\ UNCHANGED <<mined, cursor, submitted, todo, last>>
    BY <1>0, <1>9, CommitExplains DEF Commit, IsAtWork, TypeOK, Verdicts, ReasonCodes, None
  <2>2. ScansFromCursor(w)'
    BY <1>0, <2>1 DEF ScansFromCursor, Scanning, Processing, Recounting
  <2>3. TallyIsOwed(w)'
    BY <2>1 DEF TallyIsOwed, Recounting
  <2> QED
    BY <1>0, <2>1, <2>2, <2>3
<1>10. CASE CountBallots(w) \/ WipeTally(w)
  <2>1. /\ pc[w] \in Recounting /\ pc'[w] \in {"wipe", "store"}
        /\ counted'[w] = Valid
        /\ UNCHANGED <<mined, cursor, submitted, ballots, todo, last>>
    BY <1>0, <1>10 DEF CountBallots, WipeTally, TypeOK, Recounting, ScansFromCursor
  <2>2. ScansFromCursor(w)'
    BY <1>0, <2>1 DEF ScansFromCursor, Scanning, Processing, Recounting, Valid
  <2>3. TallyIsOwed(w)'
    BY <2>1 DEF TallyIsOwed, Recounting
  <2> QED
    BY <1>0, <2>1, <2>2, <2>3
<1>11. CASE StoreTally(w)
  <2>1. /\ pc[w] = "store" /\ pc'[w] = "next" /\ liveTally' = Valid
        /\ UNCHANGED <<mined, cursor, submitted, ballots, todo, last>>
    BY <1>0, <1>11 DEF StoreTally, TypeOK, ScansFromCursor
  <2>2. ScansFromCursor(w)'
    BY <1>0, <2>1 DEF ScansFromCursor, Scanning, Processing, Recounting
  <2>3. TallyIsOwed(w)'
    BY <2>1 DEF TallyIsOwed, Valid
  <2> QED
    BY <1>0, <2>1, <2>2, <2>3
<1> QED
  BY <1>1, <1>2, <1>3, <1>4, <1>5, <1>6, <1>7, <1>8, <1>9, <1>10, <1>11
  DEF StepOf, PollStep, Process

\* No step leaves a tally behind for good.
LEMMA QuietInvNext == OneWorker /\ QuietInv /\ [Next]_vars => QuietInv'
<1> SUFFICES ASSUME OneWorker, QuietInv, [Next]_vars
             PROVE  QuietInv'
  OBVIOUS
<1>0. OrderInv'
  BY OrderInvNext DEF QuietInv
<1>1. CASE Mine \/ UNCHANGED vars
  <2>1. /\ mined \in Nat /\ mined' \in Nat /\ mined <= mined'
        /\ UNCHANGED <<cursor, tables, workers>>
    BY <1>1, Votes DEF Mine, vars, QuietInv, OrderInv, RowsInv, TypeOK
  <2>2. submitted' \subseteq 1..mined'
    BY <2>1 DEF tables, QuietInv
  <2>3. \A w \in Workers : last[w] \in Nat
    BY DEF QuietInv, OrderInv, RowsInv, TypeOK
  <2>4. \A w \in Workers : ScansFromCursor(w)' /\ TallyIsOwed(w)'
    BY <2>1, <2>3
    DEF tables, workers, QuietInv, ScansFromCursor, TallyIsOwed, Scanning, Pending, Valid
  <2> QED
    BY <1>0, <2>1, <2>2, <2>4 DEF tables, QuietInv
<1>2. ASSUME NEW w \in Workers, StepOf(w)
      PROVE  QuietInv'
  BY <1>0, <1>2, WorkerStaysQuiet DEF QuietInv, OneWorker
<1> QED
  BY <1>1, <1>2, StepsHaveActors

\* Polls that do not overlap keep the live tally right: after whatever failed calls, once
\* nothing is under way and all votes have been scanned it counts the valid ballots.
THEOREM LiveTallyAlwaysSettles == OneWorker /\ Spec => []LiveTallySettles
<1>1. OneWorker /\ QuietInv => LiveTallySettles
  <2> SUFFICES ASSUME OneWorker, QuietInv, \A w \in Workers : pc[w] = "idle", cursor > mined
               PROVE  liveTally = Valid
    BY DEF LiveTallySettles
  <2>1. /\ mined \in Nat /\ cursor \in Nat /\ submitted \subseteq 1..mined
    BY Votes DEF QuietInv, OrderInv, RowsInv, TypeOK
  <2>2. ASSUME NEW w \in Workers
        PROVE  liveTally = Valid
    BY <2>1 DEF QuietInv, TallyIsOwed, Recounting
  <2> QED
    BY <2>2 DEF OneWorker
<1>2. OneWorker => OneWorker'
  BY DEF OneWorker
<1> QED
  BY <1>1, <1>2, QuietInvInit, QuietInvNext, PTL DEF Spec
=============================================================================
