------------------------- MODULE ElectionLifecycle_proofs -------------------------
(***************************************************************************)
(* Theorems about ElectionLifecycle, for any number of elections, polls,   *)
(* failed calls and crashes.                                               *)
(***************************************************************************)
EXTENDS ElectionLifecycle, TLAPS

-----------------------------------------------------------------------------
(***************************************************************************)
(* The mapping of contract states.                                         *)
(***************************************************************************)

\* Every contract state has a name in the enum of the database.
LEMMA MapIsTyped ==
    ASSUME NEW n \in Scheduled..Cancelled
    PROVE  MapOnchainStateToDbState(n) \in OnchainElectionState
BY DEF MapOnchainStateToDbState, OnchainElectionState, Scheduled, Active, Closed,
       KeyRevealPending, KeyRevealed, Finalized, Cancelled

\* The mapping loses nothing: a row says exactly which state was stored.
LEMMA RankInvertsMap ==
    ASSUME NEW n \in Scheduled..Cancelled
    PROVE  /\ Rank(MapOnchainStateToDbState(n)) = n
           /\ MapOnchainStateToDbState(n) # NoRow
BY DEF MapOnchainStateToDbState, Rank, NoRow, Scheduled, Active, Closed,
       KeyRevealPending, KeyRevealed, Finalized, Cancelled

\* What syncState() returns is a contract state.
LEMMA SyncResultIsTyped ==
    ASSUME ContractTypeOK, NEW e \in Elections
    PROVE  SyncResult(e) \in Scheduled..Cancelled
BY DEF ContractTypeOK, SyncResult, Scheduled, KeyRevealPending, KeyRevealed, Cancelled

-----------------------------------------------------------------------------
(***************************************************************************)
(* Type correctness.                                                       *)
(***************************************************************************)

USE DEF Scheduled, Active, Closed, KeyRevealPending, KeyRevealed, Finalized, Cancelled

\* Whatever happens to a contract leaves it in one of its states.
LEMMA ContractStepTyped ==
    ASSUME ContractTypeOK, NEW e \in Elections, ContractStep(e)
    PROVE  ContractTypeOK'
<1> USE ContractAssumption DEF ContractTypeOK
<1>1. CASE Boundary(e)
  BY <1>1 DEF Boundary, LastDue
<1>2. CASE OthersSync(e)
  BY <1>2, SyncResultIsTyped DEF OthersSync
<1>3. CASE OthersReveal(e)
  BY <1>3 DEF OthersReveal
<1>4. CASE FinalizeResult(e)
  BY <1>4 DEF FinalizeResult
<1>5. CASE Cancel(e)
  BY <1>5 DEF Cancel
<1>6. CASE MineSync(e)
  BY <1>6, SyncResultIsTyped DEF MineSync
<1>7. CASE MineReveal(e)
  <2>1. CASE stored[e] = KeyRevealPending
    <3>1. stored' \in [Elections -> Scheduled..Cancelled]
      BY <1>7, <2>1 DEF MineReveal
    <3>2. keyPublished' \in [Elections -> BOOLEAN] /\ revealTx' \in [Elections -> BOOLEAN]
      BY <1>7, <2>1 DEF MineReveal
    <3> QED
      BY <1>7, <3>1, <3>2 DEF MineReveal
  <2>2. CASE stored[e] # KeyRevealPending
    BY <1>7, <2>2 DEF MineReveal
  <2> QED
    BY <2>1, <2>2
<1>8. CASE MineReverted(e)
  <2>1. faults' \in 0..MaxFaults /\ UNCHANGED <<due, stored, keyPublished>>
    BY <1>8 DEF MineReverted, Fault
  <2>2. CASE syncTx' = [syncTx EXCEPT ![e] = FALSE] /\ UNCHANGED <<revealTx, reverted>>
    BY <2>1, <2>2
  <2>3. CASE /\ revealTx' = [revealTx EXCEPT ![e] = FALSE]
             /\ reverted' = reverted \cup {e} /\ UNCHANGED syncTx
    BY <2>1, <2>3
  <2> QED
    BY <1>8, <2>2, <2>3 DEF MineReverted
<1> QED
  BY <1>1, <1>2, <1>3, <1>4, <1>5, <1>6, <1>7, <1>8 DEF ContractStep

\* A failed call changes nothing of the contracts.
LEMMA FaultTyped ==
    ASSUME ContractTypeOK, UNCHANGED chainVars, Fault \/ UNCHANGED faults
    PROVE  ContractTypeOK'
BY ContractAssumption DEF ContractTypeOK, chainVars, Fault

\* A poll that has turned to an election has no more of its row, and of the others what it had.
LEMMA VisitedTyped ==
    ASSUME PollTypeOK, NEW p \in Polls, NEW e, Visited(p, e)
    PROVE  /\ pollTodo' \in [Polls -> SUBSET Elections]
           /\ pollSnap' \in [Polls -> [Elections -> OnchainElectionState \cup {NoRow}]]
<1>1. pollTodo' \in [Polls -> SUBSET Elections]
  BY DEF PollTypeOK, Visited
<1>2. [pollSnap[p] EXCEPT ![e] = NoRow] \in [Elections -> OnchainElectionState \cup {NoRow}]
  BY DEF PollTypeOK
<1>3. pollSnap' = [pollSnap EXCEPT ![p] = [pollSnap[p] EXCEPT ![e] = NoRow]]
  BY DEF Visited
<1> QED
  BY <1>1, <1>2, <1>3 DEF PollTypeOK

\* A step of a poll stores only states that have a name in the enum.
LEMMA PollStepTyped ==
    ASSUME ContractTypeOK, StoreTypeOK, PollTypeOK, NEW p \in Polls, PollStep(p)
    PROVE  ContractTypeOK' /\ StoreTypeOK' /\ PollTypeOK'
<1> USE DEF ContractTypeOK, StoreTypeOK, PollTypeOK, dbVars, chainVars, NoRow
<1>1. CASE PollStart(p)
  BY <1>1 DEF PollStart
<1>2. ASSUME NEW e \in Elections, IndexRead(p, e)
      PROVE  ContractTypeOK' /\ StoreTypeOK' /\ PollTypeOK'
  BY <1>2 DEF IndexRead
<1>3. CASE IndexUpsert(p)
  <2>1. MapOnchainStateToDbState(pollRead[p]) \in OnchainElectionState
    BY MapIsTyped
  <2> QED
    BY <1>3, <2>1 DEF IndexUpsert, BackToLoop
<1>4. CASE ReconcileStart(p)
  BY <1>4 DEF ReconcileStart
<1>5. ASSUME NEW e \in Elections, SimulateAgrees(p, e)
      PROVE  ContractTypeOK' /\ StoreTypeOK' /\ PollTypeOK'
  BY <1>5, VisitedTyped DEF SimulateAgrees
<1>6. ASSUME NEW e \in Elections, SimulateDiffers(p, e)
      PROVE  ContractTypeOK' /\ StoreTypeOK' /\ PollTypeOK'
  <2>1. SyncResult(e) \in Scheduled..Cancelled
    BY SyncResultIsTyped
  <2> QED
    BY <1>6, <2>1, VisitedTyped DEF SimulateDiffers
<1>7. CASE ReconcileUpdate(p)
  <2>1. MapOnchainStateToDbState(pollRead[p]) \in OnchainElectionState
    BY MapIsTyped
  <2> QED
    BY <1>7, <2>1 DEF ReconcileUpdate, BackToLoop
<1>8. CASE PollEnd(p)
  BY <1>8 DEF PollEnd, PollRests, NoSnapshot
<1>9. CASE PollFails(p)
  <2>1. ContractTypeOK'
    BY <1>9, FaultTyped DEF PollFails
  <2> QED
    BY <1>9, <2>1 DEF PollFails, PollRests, NoSnapshot
<1>10. CASE ReconcileFails(p)
  <2>1. ContractTypeOK' /\ StoreTypeOK'
    BY <1>10, FaultTyped DEF ReconcileFails
  <2>2. CASE pollPc[p] = "update" /\ BackToLoop(p, "reconcile")
    BY <1>10, <2>1, <2>2 DEF BackToLoop
  <2>3. CASE /\ pollPc[p] = "reconcile"
             /\ \E e \in pollTodo[p] : Visited(p, e)
             /\ UNCHANGED <<pollPc, pollAt, pollRead>>
    BY <2>1, <2>3, VisitedTyped
  <2> QED
    BY <1>10, <2>2, <2>3 DEF ReconcileFails
<1> QED
  BY <1>1, <1>2, <1>3, <1>4, <1>5, <1>6, <1>7, <1>8, <1>9, <1>10
  DEF PollStep, PollProceeds

\* A step of the sync worker stores only states that have a name in the enum,
\* and keeps an election at hand while it waits.
LEMMA SyncStepTyped ==
    ASSUME ContractTypeOK, StoreTypeOK, SyncTypeOK, SyncStep
    PROVE  ContractTypeOK' /\ StoreTypeOK' /\ SyncTypeOK'
<1> USE DEF StoreTypeOK, SyncTypeOK, dbVars, chainVars
<1>1. CASE SyncRunOnce
  BY <1>1 DEF SyncRunOnce, SyncContinues, ContractTypeOK
<1>2. ASSUME NEW e \in Elections, SyncSend(e)
      PROVE  ContractTypeOK' /\ StoreTypeOK' /\ SyncTypeOK'
  BY <1>2 DEF SyncSend, NextToSync, ContractTypeOK
<1>3. CASE SyncReadState
  BY <1>3 DEF SyncReadState, ContractTypeOK
<1>4. CASE SyncStore
  <2>1. MapOnchainStateToDbState(syncRead) \in OnchainElectionState
    BY MapIsTyped
  <2> QED
    BY <1>4, <2>1 DEF SyncStore, SyncContinues, ContractTypeOK
<1>5. CASE SyncFails
  <2>1. ContractTypeOK'
    BY <1>5, FaultTyped DEF SyncFails, SyncGivesUp
  <2>2. PICK e \in Elections : SyncGivesUp(e)
    BY <1>5 DEF SyncFails
  <2> QED
    BY <2>1, <2>2 DEF SyncGivesUp, SyncContinues
<1>6. CASE SyncEnd
  BY <1>6 DEF SyncEnd, ContractTypeOK
<1> QED
  BY <1>1, <1>2, <1>3, <1>4, <1>5, <1>6 DEF SyncStep, SyncProceeds

\* A step of the reveal worker stays within the elections that have a key.
LEMMA RevealStepTyped ==
    ASSUME ContractTypeOK, StoreTypeOK, RevealTypeOK, RevealStep
    PROVE  ContractTypeOK' /\ StoreTypeOK' /\ RevealTypeOK'
<1> USE ContractAssumption, StoreAssumption
    DEF StoreTypeOK, RevealTypeOK, dbVars, chainVars, OnchainElectionState
<1>1. CASE RevealRunOnce
  BY <1>1 DEF RevealRunOnce, RevealContinues, ContractTypeOK
<1>2. ASSUME NEW e \in Keyed, RevealReadState(e)
      PROVE  ContractTypeOK' /\ StoreTypeOK' /\ RevealTypeOK'
  BY <1>2 DEF RevealReadState, NextToReveal, RevealContinues, ContractTypeOK
<1>3. CASE RevealReadKey
  BY <1>3 DEF RevealReadKey, RevealContinues, ContractTypeOK
<1>4. CASE RevealSend
  BY <1>4 DEF RevealSend, ContractTypeOK
<1>5. CASE MarkElectionKeyAsRevealed
  BY <1>5 DEF MarkElectionKeyAsRevealed, RevealContinues, ContractTypeOK
<1>6. CASE RevealFails
  <2>1. ContractTypeOK'
    BY <1>6, FaultTyped DEF RevealFails
  <2> QED
    BY <1>6, <2>1 DEF RevealFails, RevealContinues
<1>7. CASE RevealEnd
  BY <1>7 DEF RevealEnd, ContractTypeOK
<1> QED
  BY <1>1, <1>2, <1>3, <1>4, <1>5, <1>6, <1>7 DEF RevealStep, RevealProceeds

\* A restart resets what was in memory to values of its type.
LEMMA CrashTyped ==
    ASSUME TypeOK, Crash
    PROVE  TypeOK'
BY CrashAssumption
DEF Crash, TypeOK, ContractTypeOK, StoreTypeOK, PollTypeOK, SyncTypeOK, RevealTypeOK,
    chainVars, dbVars, NoSnapshot

\* The system starts well typed.
LEMMA InitTyped == Init => TypeOK
BY ContractAssumption, CrashAssumption
DEF Init, TypeOK, ContractInit, StoreInit, PollInit, SyncInit, RevealInit, ContractTypeOK,
    StoreTypeOK, PollTypeOK, SyncTypeOK, RevealTypeOK, NoSnapshot

\* Every step of the composition keeps the types.
LEMMA NextTyped == TypeOK /\ [Next]_vars => TypeOK'
<1> SUFFICES ASSUME TypeOK, [Next]_vars
             PROVE  TypeOK'
  OBVIOUS
<1>1. CASE Chain
  <2>1. PICK e \in Elections : ContractStep(e)
    BY <1>1 DEF Chain
  <2>2. ContractTypeOK'
    BY <2>1, ContractStepTyped DEF TypeOK
  <2> QED
    BY <1>1, <2>2
    DEF Chain, TypeOK, StoreTypeOK, PollTypeOK, SyncTypeOK, RevealTypeOK, dbVars, pollVars,
        syncVars, revealVars
<1>2. ASSUME NEW p \in Polls, Poll(p)
      PROVE  TypeOK'
  <2>1. ContractTypeOK' /\ StoreTypeOK' /\ PollTypeOK'
    BY <1>2, PollStepTyped DEF Poll, TypeOK
  <2> QED
    BY <1>2, <2>1 DEF Poll, TypeOK, SyncTypeOK, RevealTypeOK, syncVars, revealVars
<1>3. CASE Sync
  <2>1. ContractTypeOK' /\ StoreTypeOK' /\ SyncTypeOK'
    BY <1>3, SyncStepTyped DEF Sync, TypeOK
  <2> QED
    BY <1>3, <2>1 DEF Sync, TypeOK, PollTypeOK, RevealTypeOK, pollVars, revealVars
<1>4. CASE Reveal
  <2>1. ContractTypeOK' /\ StoreTypeOK' /\ RevealTypeOK'
    BY <1>4, RevealStepTyped DEF Reveal, TypeOK
  <2> QED
    BY <1>4, <2>1 DEF Reveal, TypeOK, PollTypeOK, SyncTypeOK, pollVars, syncVars
<1>5. CASE Crash
  BY <1>5, CrashTyped
<1>6. CASE UNCHANGED vars
  BY <1>6
  DEF vars, TypeOK, ContractTypeOK, StoreTypeOK, PollTypeOK, SyncTypeOK, RevealTypeOK,
      chainVars, dbVars, pollVars, syncVars, revealVars
<1> QED
  BY <1>1, <1>2, <1>3, <1>4, <1>5, <1>6 DEF Next

\* Every variable of the lifecycle keeps its type: no interleaving of the polls,
\* the two workers and a restart stores a state outside the enum, or leaves a
\* worker in the middle of an election it has lost.
THEOREM TypeCorrect == Spec => []TypeOK
BY InitTyped, NextTyped, PTL DEF Spec

-----------------------------------------------------------------------------
(***************************************************************************)
(* The inductive invariant.                                                *)
(***************************************************************************)

\* The contract follows the clock until the key is revealed.
StoredWithinClock ==
    \A e \in Elections : stored[e] < KeyRevealed => stored[e] <= due[e]

\* A published key takes the contract out of KEY_REVEAL_PENDING for good, and
\* nothing else does that to a private election.
PublicationIsRecorded ==
    \A e \in Elections :
        /\ keyPublished[e] => stored[e] \in {KeyRevealed, Finalized}
        /\ e \in Private /\ stored[e] \in {KeyRevealed, Finalized} => keyPublished[e]

\* What a poll or the sync worker read and is about to store is not ahead of the
\* contract.
ReadsNotAhead ==
    /\ \A p \in Polls :
          pollPc[p] \in {"upsert", "update"} => pollRead[p] <= SyncResult(pollAt[p])
    /\ syncPc = "write" => syncRead <= SyncResult(syncAt)

\* The reveal worker is at a contract that waited for the key when it looked.
RevealLooked ==
    revealPc \in {"check", "send", "mining", "mark"} =>
        stored[revealAt] \in {KeyRevealPending, KeyRevealed, Finalized}

\* A receipt means a published key, whatever its status says, unless the transaction was mined
\* as reverted although the contract waited for the key.
ReceiptMeansPublished ==
    /\ revealPc = "mining" /\ ~revealTx[revealAt] => keyPublished[revealAt] \/ revealAt \in reverted
    /\ revealPc = "mark" => keyPublished[revealAt]

\* Holds of every behaviour.
LifecycleInv ==
    /\ TypeOK
    /\ StoredWithinClock
    /\ PublicationIsRecorded
    /\ ReadsNotAhead
    /\ RevealLooked
    /\ KeySentOnlyWhenPending

\* What rows and marks say of the key, but where a reveal was reverted.
RevealInv ==
    /\ ReceiptMeansPublished
    /\ SnapshotNeverAhead
    /\ RevealedIsPublished

-----------------------------------------------------------------------------
(***************************************************************************)
(* The contract only moves forward.                                        *)
(***************************************************************************)

\* What a step of a contract keeps and what it lets grow.
Forward ==
    \A f \in Elections :
        /\ SyncResult(f) <= SyncResult(f)'
        /\ stored[f] \in {KeyRevealPending, KeyRevealed, Finalized} =>
              stored'[f] \in {KeyRevealPending, KeyRevealed, Finalized}
        /\ keyPublished[f] => keyPublished'[f]
        /\ f \in reverted => f \in reverted'

\* A contract never goes back: no step lowers what syncState() would return, takes
\* it out of the reveal states, or takes a published key back.
LEMMA ContractMovesForward ==
    ASSUME ContractTypeOK, StoredWithinClock, PublicationIsRecorded,
           NEW e \in Elections, ContractStep(e)
    PROVE  StoredWithinClock' /\ PublicationIsRecorded' /\ Forward
<1> USE ContractAssumption
    DEF ContractTypeOK, StoredWithinClock, PublicationIsRecorded, Forward, SyncResult
<1>1. CASE Boundary(e)
  BY <1>1 DEF Boundary, LastDue
<1>2. CASE OthersSync(e)
  BY <1>2 DEF OthersSync
<1>3. CASE OthersReveal(e)
  BY <1>3 DEF OthersReveal
<1>4. CASE FinalizeResult(e)
  BY <1>4 DEF FinalizeResult
<1>5. CASE Cancel(e)
  BY <1>5 DEF Cancel
<1>6. CASE MineSync(e)
  BY <1>6 DEF MineSync
<1>7. CASE MineReveal(e)
  <2>1. CASE stored[e] = KeyRevealPending
    BY <1>7, <2>1 DEF MineReveal
  <2>2. CASE stored[e] # KeyRevealPending
    BY <1>7, <2>2 DEF MineReveal
  <2> QED
    BY <2>1, <2>2
<1>8. CASE MineReverted(e)
  BY <1>8 DEF MineReverted
<1> QED
  BY <1>1, <1>2, <1>3, <1>4, <1>5, <1>6, <1>7, <1>8 DEF ContractStep

\* A step that leaves the contracts alone keeps what is said of them only.
LEMMA ContractAtRest ==
    ASSUME StoredWithinClock, PublicationIsRecorded, UNCHANGED <<due, stored, keyPublished>>
    PROVE  /\ StoredWithinClock'
           /\ PublicationIsRecorded'
           /\ \A e : SyncResult(e)' = SyncResult(e)
BY DEF StoredWithinClock, PublicationIsRecorded, SyncResult

\* syncState() never returns an earlier state than state().
LEMMA StoredNotAhead ==
    ASSUME ContractTypeOK, StoredWithinClock, NEW e \in Elections
    PROVE  stored[e] <= SyncResult(e)
BY DEF ContractTypeOK, StoredWithinClock, SyncResult

-----------------------------------------------------------------------------
(***************************************************************************)
(* LifecycleInv is inductive.                                              *)
(***************************************************************************)

\* LifecycleInv holds at the start.
LEMMA LifecycleInit == Init => LifecycleInv
BY InitTyped
DEF Init, LifecycleInv, ContractInit, PollInit, SyncInit, RevealInit, StoredWithinClock,
    PublicationIsRecorded, ReadsNotAhead, RevealLooked, KeySentOnlyWhenPending

\* A step of the chain keeps LifecycleInv: what was read stays behind it.
LEMMA ChainKeepsInv ==
    ASSUME LifecycleInv, Chain
    PROVE  /\ StoredWithinClock' /\ PublicationIsRecorded' /\ ReadsNotAhead'
           /\ RevealLooked' /\ KeySentOnlyWhenPending'
           /\ Forward
<1>1. PICK e \in Elections : ContractStep(e)
  BY DEF Chain
<1>2. StoredWithinClock' /\ PublicationIsRecorded' /\ Forward
  BY <1>1, ContractMovesForward DEF LifecycleInv, TypeOK
<1>3. \A f \in Elections : SyncResult(f) \in Int /\ SyncResult(f)' \in Int
  <2>1. ContractTypeOK /\ ContractTypeOK'
    BY <1>1, ContractStepTyped DEF LifecycleInv, TypeOK
  <2> QED
    BY <2>1 DEF ContractTypeOK, SyncResult
<1>4. ReadsNotAhead'
  <2>1. ASSUME NEW p \in Polls, pollPc[p] \in {"upsert", "update"}
        PROVE  pollRead[p] <= SyncResult(pollAt[p])'
    <3>1. pollAt[p] \in Elections /\ pollRead[p] \in Int
      BY <2>1 DEF LifecycleInv, TypeOK, PollTypeOK
    <3>2. pollRead[p] <= SyncResult(pollAt[p])
      BY <2>1 DEF LifecycleInv, ReadsNotAhead
    <3>3. SyncResult(pollAt[p]) <= SyncResult(pollAt[p])'
      BY <1>2, <3>1 DEF Forward, Chain, pollVars
    <3> QED
      BY <1>3, <3>1, <3>2, <3>3 DEF Chain, pollVars
  <2>2. syncPc = "write" => syncRead <= SyncResult(syncAt)'
    BY <1>2, <1>3 DEF LifecycleInv, TypeOK, SyncTypeOK, ReadsNotAhead, Forward, Chain, syncVars
  <2> QED
    BY <2>1, <2>2 DEF ReadsNotAhead, Chain, pollVars, syncVars
<1>5. RevealLooked'
  BY <1>2, StoreAssumption, ContractAssumption
  DEF LifecycleInv, TypeOK, RevealTypeOK, RevealLooked, Forward, Chain, revealVars
<1>6. KeySentOnlyWhenPending'
  BY <1>2 DEF LifecycleInv, KeySentOnlyWhenPending, Forward, Chain, revealVars
<1> QED
  BY <1>2, <1>4, <1>5, <1>6

\* A step of a poll keeps what polls and the sync worker remember behind the
\* contracts.
LEMMA PollKeepsReads ==
    ASSUME LifecycleInv, NEW p \in Polls, Poll(p)
    PROVE  ReadsNotAhead'
<1> USE DEF ReadsNotAhead, PollTypeOK, chainVars
<1>1. /\ PollTypeOK /\ ContractTypeOK /\ StoredWithinClock /\ ReadsNotAhead
      /\ PollStep(p) /\ UNCHANGED syncVars
  BY DEF LifecycleInv, TypeOK, Poll
<1>2. UNCHANGED <<due, stored, keyPublished>>
  BY <1>1
  DEF PollStep, PollProceeds, PollStart, IndexRead, IndexUpsert, ReconcileStart, SimulateAgrees,
      SimulateDiffers, ReconcileUpdate, PollEnd, PollFails, ReconcileFails
<1>3. \A e : SyncResult(e)' = SyncResult(e)
  BY <1>2 DEF SyncResult
<1>4. syncPc' = "write" => syncRead' <= SyncResult(syncAt)'
  BY <1>1, <1>2 DEF syncVars, SyncResult
<1> SUFFICES ASSUME NEW q \in Polls, pollPc'[q] \in {"upsert", "update"}
             PROVE  pollRead'[q] <= SyncResult(pollAt[q])'
  BY <1>4
<1>5. SyncResult(pollAt[q])' = SyncResult(pollAt'[q])
  BY <1>2 DEF SyncResult
<1>6. CASE q # p
  <2>1. /\ pollPc'[q] = pollPc[q] /\ pollRead'[q] = pollRead[q] /\ pollAt'[q] = pollAt[q]
    BY <1>1, <1>6
    DEF PollStep, PollProceeds, PollStart, IndexRead, IndexUpsert, ReconcileStart,
        SimulateAgrees, SimulateDiffers, ReconcileUpdate, PollEnd, PollFails, ReconcileFails,
        PollRests, BackToLoop
  <2> QED
    BY <1>1, <1>5, <2>1
<1>7. CASE q = p
  <2>1. CASE PollStart(p)
    BY <1>1, <1>7, <2>1 DEF PollStart
  <2>2. ASSUME NEW e \in Elections, IndexRead(p, e)
        PROVE  pollRead'[q] <= SyncResult(pollAt'[q])
    <3>1. pollRead'[q] = stored[e] /\ pollAt'[q] = e
      BY <1>1, <1>7, <2>2 DEF IndexRead
    <3> QED
      BY <1>1, <3>1, StoredNotAhead
  <2>3. CASE IndexUpsert(p)
    BY <1>1, <1>7, <2>3 DEF IndexUpsert, BackToLoop
  <2>4. CASE ReconcileStart(p)
    BY <1>1, <1>7, <2>4 DEF ReconcileStart
  <2>5. ASSUME NEW e \in Elections, SimulateAgrees(p, e)
        PROVE  pollRead'[q] <= SyncResult(pollAt'[q])
    BY <1>1, <1>7, <2>5 DEF SimulateAgrees
  <2>6. ASSUME NEW e \in Elections, SimulateDiffers(p, e)
        PROVE  pollRead'[q] <= SyncResult(pollAt'[q])
    <3>1. pollRead'[q] = SyncResult(e) /\ pollAt'[q] = e
      BY <1>1, <1>7, <2>6 DEF SimulateDiffers
    <3>2. SyncResult(e) \in Int
      BY <1>1 DEF ContractTypeOK, SyncResult
    <3> QED
      BY <3>1, <3>2
  <2>7. CASE ReconcileUpdate(p)
    BY <1>1, <1>7, <2>7 DEF ReconcileUpdate, BackToLoop
  <2>8. CASE PollEnd(p)
    BY <1>1, <1>7, <2>8 DEF PollEnd, PollRests
  <2>9. CASE PollFails(p)
    BY <1>1, <1>7, <2>9 DEF PollFails, PollRests
  <2>10. CASE ReconcileFails(p)
    BY <1>1, <1>7, <2>10 DEF ReconcileFails, BackToLoop
  <2> QED
    BY <1>1, <1>5, <2>1, <2>2, <2>3, <2>4, <2>5, <2>6, <2>7, <2>8, <2>9, <2>10
    DEF PollStep, PollProceeds
<1> QED
  BY <1>6, <1>7

\* A step of a poll keeps LifecycleInv.
LEMMA PollKeepsInv ==
    ASSUME LifecycleInv, NEW p \in Polls, Poll(p)
    PROVE  /\ StoredWithinClock' /\ PublicationIsRecorded' /\ ReadsNotAhead'
           /\ RevealLooked' /\ KeySentOnlyWhenPending'
<1>1. UNCHANGED <<chainVars, revealVars>>
  BY
  DEF Poll, PollStep, PollProceeds, PollStart, IndexRead, IndexUpsert, ReconcileStart,
      SimulateAgrees, SimulateDiffers, ReconcileUpdate, PollEnd, PollFails, ReconcileFails
<1>2. StoredWithinClock' /\ PublicationIsRecorded'
  BY <1>1, ContractAtRest DEF LifecycleInv, chainVars
<1>3. RevealLooked' /\ KeySentOnlyWhenPending'
  BY <1>1 DEF LifecycleInv, RevealLooked, KeySentOnlyWhenPending, chainVars, revealVars
<1> QED
  BY <1>2, <1>3, PollKeepsReads

\* A step of the sync worker keeps LifecycleInv.
LEMMA SyncKeepsInv ==
    ASSUME LifecycleInv, Sync
    PROVE  /\ StoredWithinClock' /\ PublicationIsRecorded' /\ ReadsNotAhead'
           /\ RevealLooked' /\ KeySentOnlyWhenPending'
<1>1. UNCHANGED <<due, stored, keyPublished, pollVars, revealVars>>
  BY DEF Sync, SyncStep, SyncProceeds, SyncRunOnce, SyncSend, SyncReadState, SyncStore, SyncFails,
         SyncGivesUp, SyncEnd, chainVars
<1>2. StoredWithinClock' /\ PublicationIsRecorded' /\ \A e : SyncResult(e)' = SyncResult(e)
  BY <1>1, ContractAtRest DEF LifecycleInv
<1>3. RevealLooked' /\ KeySentOnlyWhenPending'
  BY <1>1 DEF LifecycleInv, RevealLooked, KeySentOnlyWhenPending, revealVars
<1>4. \A p \in Polls :
          pollPc'[p] \in {"upsert", "update"} => pollRead'[p] <= SyncResult(pollAt[p])'
  BY <1>1 DEF LifecycleInv, ReadsNotAhead, pollVars, SyncResult
<1>5. syncPc' = "write" => syncRead' <= SyncResult(syncAt)'
  <2>1. CASE SyncReadState
    <3>1. syncAt \in Elections /\ syncAt' = syncAt /\ syncRead' = stored[syncAt]
      BY <2>1 DEF LifecycleInv, TypeOK, SyncTypeOK, SyncReadState
    <3>2. stored[syncAt] <= SyncResult(syncAt)
      BY <3>1, StoredNotAhead DEF LifecycleInv, TypeOK
    <3> QED
      BY <1>1, <3>1, <3>2 DEF SyncResult
  <2>2. CASE ~SyncReadState
    <3>1. syncPc' # "write"
      BY <2>2
      DEF Sync, SyncStep, SyncProceeds, SyncRunOnce, SyncSend, SyncStore, SyncFails, SyncGivesUp,
          SyncEnd, SyncContinues
    <3> QED
      BY <3>1
  <2> QED
    BY <2>1, <2>2
<1> QED
  BY <1>2, <1>3, <1>4, <1>5 DEF ReadsNotAhead

\* A step of the reveal worker keeps LifecycleInv: the key is sent only after the
\* look at the contract.
LEMMA RevealKeepsInv ==
    ASSUME LifecycleInv, Reveal
    PROVE  /\ StoredWithinClock' /\ PublicationIsRecorded' /\ ReadsNotAhead'
           /\ RevealLooked' /\ KeySentOnlyWhenPending'
<1>1. UNCHANGED <<due, stored, keyPublished, pollVars, syncVars>>
  BY DEF Reveal, RevealStep, RevealProceeds, RevealRunOnce, RevealReadState, RevealReadKey,
         RevealSend, MarkElectionKeyAsRevealed, RevealFails, RevealEnd, chainVars
<1>2. StoredWithinClock' /\ PublicationIsRecorded'
  BY <1>1, ContractAtRest DEF LifecycleInv
<1>3. ReadsNotAhead'
  BY <1>1 DEF LifecycleInv, ReadsNotAhead, pollVars, syncVars, SyncResult
<1> USE StoreAssumption, ContractAssumption
    DEF LifecycleInv, TypeOK, ContractTypeOK, RevealTypeOK, RevealLooked, KeySentOnlyWhenPending
<1>4. RevealLooked' /\ KeySentOnlyWhenPending'
  <2>1. RevealStep
    BY DEF Reveal
  <2>2. CASE RevealRunOnce
    BY <1>1, <2>2 DEF RevealRunOnce, RevealContinues
  <2>3. ASSUME NEW e \in Keyed, RevealReadState(e)
        PROVE  RevealLooked' /\ KeySentOnlyWhenPending'
    BY <1>1, <2>3 DEF RevealReadState, RevealContinues
  <2>4. CASE RevealReadKey
    BY <1>1, <2>4 DEF RevealReadKey, RevealContinues
  <2>5. CASE RevealSend
    BY <1>1, <2>5 DEF RevealSend
  <2>6. CASE MarkElectionKeyAsRevealed
    BY <1>1, <2>6 DEF MarkElectionKeyAsRevealed, RevealContinues
  <2>7. CASE RevealFails
    BY <1>1, <2>7 DEF RevealFails, RevealContinues
  <2>8. CASE RevealEnd
    BY <1>1, <2>8 DEF RevealEnd
  <2> QED
    BY <2>1, <2>2, <2>3, <2>4, <2>5, <2>6, <2>7, <2>8 DEF RevealStep, RevealProceeds
<1> QED
  BY <1>2, <1>3, <1>4

\* A restart keeps LifecycleInv: nothing is remembered, nothing is unsent.
LEMMA CrashKeepsInv ==
    ASSUME LifecycleInv, Crash
    PROVE  /\ StoredWithinClock' /\ PublicationIsRecorded' /\ ReadsNotAhead'
           /\ RevealLooked' /\ KeySentOnlyWhenPending'
<1>1. StoredWithinClock' /\ PublicationIsRecorded'
  BY ContractAtRest DEF LifecycleInv, Crash, chainVars
<1>2. ReadsNotAhead' /\ RevealLooked'
  BY DEF ReadsNotAhead, RevealLooked, Crash
<1>3. KeySentOnlyWhenPending'
  BY DEF LifecycleInv, KeySentOnlyWhenPending, Crash, chainVars
<1> QED
  BY <1>1, <1>2, <1>3

\* Every step keeps LifecycleInv.
LEMMA LifecycleNext == LifecycleInv /\ [Next]_vars => LifecycleInv'
<1> SUFFICES ASSUME LifecycleInv, [Next]_vars
             PROVE  LifecycleInv'
  OBVIOUS
<1>1. TypeOK'
  BY NextTyped DEF LifecycleInv
<1>2. CASE Next
  BY <1>1, <1>2, ChainKeepsInv, PollKeepsInv, SyncKeepsInv, RevealKeepsInv, CrashKeepsInv
  DEF Next, LifecycleInv
<1>3. CASE UNCHANGED vars
  BY <1>1, <1>3
  DEF LifecycleInv, StoredWithinClock, PublicationIsRecorded, ReadsNotAhead, RevealLooked,
      KeySentOnlyWhenPending, SyncResult, vars, chainVars, pollVars, syncVars, revealVars
<1> QED
  BY <1>2, <1>3

\* The strengthened invariant holds of every behaviour, whatever fails or crashes.
THEOREM LifecycleInvariant == Spec => []LifecycleInv
BY LifecycleInit, LifecycleNext, PTL DEF Spec

\* KeyRevealWorkerService sends the plain key only to a contract that has itself
\* recorded that it waits for the key: the snapshot that selects the election is
\* not enough, and no transaction of anyone else can take the contract back.
THEOREM KeyStaysSecret == Spec => []KeySentOnlyWhenPending
<1>1. LifecycleInv => KeySentOnlyWhenPending
  BY DEF LifecycleInv
<1> QED
  BY <1>1, LifecycleInvariant, PTL

-----------------------------------------------------------------------------
(***************************************************************************)
(* RevealInv is inductive.                                                 *)
(***************************************************************************)

\* The rank of a row is a contract state.
LEMMA RankIsTyped ==
    ASSUME NEW s \in OnchainElectionState
    PROVE  Rank(s) \in Scheduled..Cancelled
BY DEF OnchainElectionState, Rank

\* A step that writes no row and moves the contracts forward keeps the snapshot
\* and the marks behind them.
LEMMA RowsStayBehind ==
    ASSUME LifecycleInv, RevealInv, LifecycleInv', UNCHANGED <<dbState, isRevealed>>, Forward
    PROVE  SnapshotNeverAhead' /\ RevealedIsPublished'
<1>1. ASSUME NEW e \in Elections, Indexed(e)', ~MarkedOnRevert(e)'
      PROVE  Rank(dbState[e])' <= SyncResult(e)'
  <2>0. ~MarkedOnRevert(e)
    BY <1>1 DEF MarkedOnRevert, Forward
  <2>1. Rank(dbState[e]) <= SyncResult(e) /\ SyncResult(e) <= SyncResult(e)'
    BY <1>1, <2>0 DEF RevealInv, SnapshotNeverAhead, Forward, Indexed
  <2>2. Rank(dbState[e]) \in Int
    <3>1. dbState[e] \in OnchainElectionState
      BY <1>1 DEF LifecycleInv, TypeOK, StoreTypeOK, Indexed
    <3> QED
      BY <3>1, RankIsTyped
  <2>3. SyncResult(e) \in Int /\ SyncResult(e)' \in Int
    BY DEF LifecycleInv, TypeOK, ContractTypeOK, SyncResult
  <2>4. Rank(dbState[e])' = Rank(dbState[e])
    BY DEF Rank
  <2> QED
    BY <2>1, <2>2, <2>3, <2>4
<1>2. RevealedIsPublished'
  BY DEF RevealInv, RevealedIsPublished, Forward
<1> QED
  BY <1>1, <1>2 DEF SnapshotNeverAhead

\* A contract that is left alone has moved forward, trivially.
LEMMA RestIsForward ==
    ASSUME ContractTypeOK, UNCHANGED <<due, stored, keyPublished, reverted>>
    PROVE  Forward
BY DEF Forward, ContractTypeOK, SyncResult

\* A row that is overwritten with a state the contract has reached stays behind it.
LEMMA WriteStaysBehind ==
    ASSUME LifecycleInv, RevealInv, UNCHANGED <<due, stored, reverted>>,
           NEW a \in Elections, NEW n \in Scheduled..Cancelled,
           n <= SyncResult(a) \/ MarkedOnRevert(a)',
           \A e \in Elections : isRevealed[e] => isRevealed'[e],
           dbState' = [dbState EXCEPT ![a] = MapOnchainStateToDbState(n)]
    PROVE  SnapshotNeverAhead'
<1> SUFFICES ASSUME NEW e \in Elections, Indexed(e)', ~MarkedOnRevert(e)'
             PROVE  Rank(dbState[e])' <= SyncResult(e)'
  BY DEF SnapshotNeverAhead
<1>1. SyncResult(e)' = SyncResult(e) /\ Rank(dbState[e])' = Rank(dbState'[e])
  BY DEF SyncResult, Rank
<1>2. dbState' \in [Elections -> OnchainElectionState \cup {NoRow}]
  BY MapIsTyped DEF LifecycleInv, TypeOK, StoreTypeOK
<1>3. CASE e = a
  <2>1. dbState'[e] = MapOnchainStateToDbState(n)
    BY <1>3 DEF LifecycleInv, TypeOK, StoreTypeOK
  <2>2. Rank(dbState'[e]) = n
    BY <2>1, RankInvertsMap
  <2> QED
    BY <1>1, <1>3, <2>2
<1>4. CASE e # a
  <2>1. dbState'[e] = dbState[e]
    BY <1>4 DEF LifecycleInv, TypeOK, StoreTypeOK
  <2> QED
    BY <1>1, <2>1 DEF RevealInv, SnapshotNeverAhead, Indexed, MarkedOnRevert
<1> QED
  BY <1>3, <1>4

\* A step of the chain keeps RevealInv: what a row claims stays true of its contract.
LEMMA ChainKeepsReveal ==
    ASSUME LifecycleInv, LifecycleInv', RevealInv, Chain
    PROVE  RevealInv'
<1>1. PICK e \in Elections : ContractStep(e)
  BY DEF Chain
<1>2. Forward /\ SnapshotNeverAhead' /\ RevealedIsPublished'
  BY ChainKeepsInv, RowsStayBehind DEF Chain, dbVars
<1>3. ReceiptMeansPublished'
  <2>1. revealPc' = "mark" => keyPublished'[revealAt']
    BY <1>2, ContractAssumption, StoreAssumption
    DEF RevealInv, ReceiptMeansPublished, Forward, Chain, revealVars, LifecycleInv, TypeOK,
        RevealTypeOK
  <2>2. ASSUME revealPc' = "mining", ~revealTx'[revealAt']
        PROVE  keyPublished'[revealAt'] \/ revealAt' \in reverted'
    <3>1. /\ revealAt' = revealAt /\ revealPc = "mining"
          /\ revealAt \in Elections /\ revealAt \in Private
      BY <2>2, ContractAssumption, StoreAssumption
      DEF Chain, revealVars, LifecycleInv, TypeOK, RevealTypeOK
    <3>2. CASE ~revealTx[revealAt]
      BY <1>2, <3>1, <3>2 DEF RevealInv, ReceiptMeansPublished, Forward
    <3>3. CASE revealTx[revealAt] /\ revealAt \in reverted'
      BY <3>1, <3>3
    <3>4. CASE revealTx[revealAt] /\ revealAt \notin reverted'
      <4>1. e = revealAt /\ MineReveal(e)
        BY <1>1, <2>2, <3>1, <3>4
        DEF ContractStep, Boundary, OthersSync, OthersReveal, FinalizeResult, Cancel, MineSync,
            MineReveal, MineReverted, LifecycleInv, TypeOK, ContractTypeOK
      <4>2. stored[e] \in {KeyRevealPending, KeyRevealed, Finalized}
        BY <3>1, <4>1 DEF LifecycleInv, RevealLooked
      <4>3. CASE stored[e] = KeyRevealPending
        BY <3>1, <4>1, <4>3 DEF MineReveal, LifecycleInv, TypeOK, ContractTypeOK
      <4>4. CASE stored[e] # KeyRevealPending
        BY <3>1, <4>1, <4>2, <4>4 DEF MineReveal, LifecycleInv, PublicationIsRecorded
      <4> QED
        BY <4>3, <4>4
    <3> QED
      BY <3>2, <3>3, <3>4
  <2> QED
    BY <2>1, <2>2 DEF ReceiptMeansPublished
<1> QED
  BY <1>2, <1>3 DEF RevealInv

\* A step of a poll keeps RevealInv: it stores what it read.
LEMMA PollKeepsReveal ==
    ASSUME LifecycleInv, LifecycleInv', RevealInv, NEW p \in Polls, Poll(p)
    PROVE  RevealInv'
<1>1. PollStep(p)
  BY DEF Poll
<1>2. UNCHANGED <<due, stored, keyPublished, reverted, revealTx, isRevealed, revealPc, revealAt>>
  BY <1>1
  DEF Poll, PollStep, PollProceeds, PollStart, IndexRead, IndexUpsert, ReconcileStart,
      SimulateAgrees, SimulateDiffers, ReconcileUpdate, PollEnd, PollFails, ReconcileFails,
      chainVars, dbVars, revealVars
<1>3. ReceiptMeansPublished' /\ RevealedIsPublished'
  BY <1>2 DEF RevealInv, ReceiptMeansPublished, RevealedIsPublished
<1>4. CASE UNCHANGED dbState
  <2>1. Forward
    BY <1>2, RestIsForward DEF LifecycleInv, TypeOK
  <2> QED
    BY <1>2, <1>3, <1>4, <2>1, RowsStayBehind DEF RevealInv
<1>5. CASE IndexUpsert(p) \/ ReconcileUpdate(p)
  <2>1. /\ pollAt[p] \in Elections
        /\ pollRead[p] \in Scheduled..Cancelled
        /\ pollRead[p] <= SyncResult(pollAt[p])
    BY <1>5
    DEF IndexUpsert, ReconcileUpdate, LifecycleInv, TypeOK, PollTypeOK, ReadsNotAhead
  <2>2. dbState' = [dbState EXCEPT ![pollAt[p]] = MapOnchainStateToDbState(pollRead[p])]
    BY <1>5 DEF IndexUpsert, ReconcileUpdate
  <2>3. SnapshotNeverAhead'
    BY <1>2, <2>1, <2>2, WriteStaysBehind
  <2> QED
    BY <1>3, <2>3 DEF RevealInv
<1> QED
  BY <1>1, <1>4, <1>5
  DEF PollStep, PollProceeds, PollStart, IndexRead, ReconcileStart, SimulateAgrees,
      SimulateDiffers, PollEnd, PollFails, ReconcileFails, dbVars

\* A step of the sync worker keeps RevealInv: it stores what it read.
LEMMA SyncKeepsReveal ==
    ASSUME LifecycleInv, LifecycleInv', RevealInv, Sync
    PROVE  RevealInv'
<1>1. SyncStep
  BY DEF Sync
<1>2. UNCHANGED <<due, stored, keyPublished, reverted, revealTx, isRevealed, revealPc, revealAt>>
  BY <1>1
  DEF Sync, SyncStep, SyncProceeds, SyncRunOnce, SyncSend, SyncReadState, SyncStore, SyncFails,
      SyncGivesUp, SyncEnd, chainVars, dbVars, revealVars
<1>3. ReceiptMeansPublished' /\ RevealedIsPublished'
  BY <1>2 DEF RevealInv, ReceiptMeansPublished, RevealedIsPublished
<1>4. CASE UNCHANGED dbState
  <2>1. Forward
    BY <1>2, RestIsForward DEF LifecycleInv, TypeOK
  <2> QED
    BY <1>2, <1>3, <1>4, <2>1, RowsStayBehind DEF RevealInv
<1>5. CASE SyncStore
  <2>1. /\ syncAt \in Elections
        /\ syncRead \in Scheduled..Cancelled
        /\ syncRead <= SyncResult(syncAt)
    BY <1>5 DEF SyncStore, LifecycleInv, TypeOK, SyncTypeOK, ReadsNotAhead
  <2>2. dbState' = [dbState EXCEPT ![syncAt] = MapOnchainStateToDbState(syncRead)]
    BY <1>5 DEF SyncStore
  <2>3. SnapshotNeverAhead'
    BY <1>2, <2>1, <2>2, WriteStaysBehind
  <2> QED
    BY <1>3, <2>3 DEF RevealInv
<1> QED
  BY <1>1, <1>4, <1>5
  DEF SyncStep, SyncProceeds, SyncRunOnce, SyncSend, SyncReadState, SyncFails, SyncGivesUp,
      SyncEnd, dbVars

\* A step of the reveal worker keeps RevealInv: it marks only a published key.
LEMMA RevealKeepsReveal ==
    ASSUME LifecycleInv, LifecycleInv', RevealInv, Reveal
    PROVE  RevealInv'
<1>1. RevealStep /\ UNCHANGED <<due, stored, keyPublished, reverted>>
  BY DEF Reveal, RevealStep, RevealProceeds, RevealRunOnce, RevealReadState, RevealReadKey,
         RevealSend, MarkElectionKeyAsRevealed, RevealFails, RevealEnd, chainVars
<1>2. Forward
  BY <1>1, RestIsForward DEF LifecycleInv, TypeOK
<1>3. ReceiptMeansPublished'
  <2> USE DEF ReceiptMeansPublished
  <2>1. CASE RevealRunOnce
    BY <2>1 DEF RevealRunOnce, RevealContinues
  <2>2. ASSUME NEW e \in Keyed, RevealReadState(e)
        PROVE  ReceiptMeansPublished'
    BY <2>2 DEF RevealReadState, RevealContinues
  <2>3. CASE RevealReadKey
    BY <1>1, <2>3 DEF RevealReadKey, RevealContinues
  <2>4. CASE RevealSend
    <3>1. revealAt \in Elections
      BY <2>4, ContractAssumption, StoreAssumption
      DEF RevealSend, LifecycleInv, TypeOK, RevealTypeOK
    <3> QED
      BY <2>4, <3>1 DEF RevealSend, LifecycleInv, TypeOK, ContractTypeOK
  <2>5. CASE MarkElectionKeyAsRevealed
    BY <2>5 DEF MarkElectionKeyAsRevealed, RevealContinues
  <2>6. CASE RevealFails
    BY <2>6 DEF RevealFails, RevealContinues
  <2>7. CASE RevealEnd
    BY <2>7 DEF RevealEnd
  <2> QED
    BY <1>1, <2>1, <2>2, <2>3, <2>4, <2>5, <2>6, <2>7 DEF RevealStep, RevealProceeds
<1>4. CASE UNCHANGED <<dbState, isRevealed>>
  BY <1>2, <1>3, <1>4, RowsStayBehind DEF RevealInv
<1>5. CASE MarkElectionKeyAsRevealed
  <2>1. PICK a \in Elections : a = revealAt /\ (keyPublished[a] \/ a \in reverted)
    BY <1>5, ContractAssumption, StoreAssumption
    DEF MarkElectionKeyAsRevealed, RevealInv, ReceiptMeansPublished, LifecycleInv, TypeOK,
        RevealTypeOK
  <2>2. KeyRevealed <= SyncResult(a) \/ MarkedOnRevert(a)'
    <3>1. CASE keyPublished[a]
      BY <2>1, <3>1 DEF LifecycleInv, PublicationIsRecorded, SyncResult
    <3>2. CASE a \in reverted
      BY <1>1, <1>5, <2>1, <3>2
      DEF MarkElectionKeyAsRevealed, MarkedOnRevert, LifecycleInv, TypeOK, StoreTypeOK
    <3> QED
      BY <2>1, <3>1, <3>2
  <2>3. dbState' = [dbState EXCEPT ![a] = MapOnchainStateToDbState(KeyRevealed)]
    BY <1>5, <2>1 DEF MarkElectionKeyAsRevealed, MapOnchainStateToDbState
  <2>4. SnapshotNeverAhead'
    <3>1. KeyRevealed \in Scheduled..Cancelled
      OBVIOUS
    <3>2. \A e \in Elections : isRevealed[e] => isRevealed'[e]
      BY <1>5 DEF MarkElectionKeyAsRevealed, LifecycleInv, TypeOK, StoreTypeOK
    <3> HIDE DEF KeyRevealed, Scheduled, Cancelled
    <3> QED
      BY <1>1, <2>1, <2>2, <2>3, <3>1, <3>2, WriteStaysBehind
  <2>5. RevealedIsPublished'
    BY <1>1, <1>5, <2>1
    DEF MarkElectionKeyAsRevealed, RevealInv, RevealedIsPublished, LifecycleInv, TypeOK,
        StoreTypeOK
  <2> QED
    BY <1>3, <2>4, <2>5 DEF RevealInv
<1> QED
  BY <1>1, <1>4, <1>5
  DEF RevealStep, RevealProceeds, RevealRunOnce, RevealReadState, RevealReadKey, RevealSend,
      RevealFails, RevealEnd, dbVars

\* A restart keeps RevealInv.
LEMMA CrashKeepsReveal ==
    ASSUME LifecycleInv, LifecycleInv', RevealInv, Crash
    PROVE  RevealInv'
<1>1. UNCHANGED <<due, stored, keyPublished, reverted, dbState, isRevealed>> /\ revealPc' = "idle"
  BY DEF Crash, chainVars, dbVars
<1>2. Forward
  BY <1>1, RestIsForward DEF LifecycleInv, TypeOK
<1>3. ReceiptMeansPublished'
  BY <1>1 DEF ReceiptMeansPublished
<1> QED
  BY <1>1, <1>2, <1>3, RowsStayBehind DEF RevealInv

\* RevealInv holds at the start.
LEMMA RevealInvInit == Init => RevealInv
BY DEF Init, StoreInit, RevealInit, RevealInv, ReceiptMeansPublished, SnapshotNeverAhead,
       RevealedIsPublished, Indexed

\* Every step keeps RevealInv.
LEMMA RevealInvNext ==
    LifecycleInv /\ LifecycleInv' /\ RevealInv /\ [Next]_vars => RevealInv'
<1> SUFFICES ASSUME LifecycleInv, LifecycleInv', RevealInv, [Next]_vars
             PROVE  RevealInv'
  OBVIOUS
<1>1. CASE Next
  BY <1>1, ChainKeepsReveal, PollKeepsReveal, SyncKeepsReveal, RevealKeepsReveal,
     CrashKeepsReveal
  DEF Next
<1>2. CASE UNCHANGED vars
  BY <1>2
  DEF RevealInv, ReceiptMeansPublished, SnapshotNeverAhead, RevealedIsPublished, MarkedOnRevert,
      Indexed, Rank, SyncResult, vars, chainVars, dbVars, revealVars
<1> QED
  BY <1>1, <1>2

\* The rest of the invariant: with an exception for the elections whose reveal was mined as
\* reverted for a reason of its own, it holds of every behaviour too.
THEOREM RevealInvariant == Spec => []RevealInv
<1>1. LifecycleInv /\ LifecycleInv' /\ RevealInv /\ [Next]_vars => RevealInv'
  BY RevealInvNext
<1> QED
  BY <1>1, RevealInvInit, LifecycleInvariant, PTL DEF Spec

\* onchain_elections never shows a later state than the contract can be synced to, however
\* the stale writes of polls and workers interleave and whatever fails or crashes: the one
\* state it may show too early is the KEY_REVEALED of a marked key, after a reveal that
\* reverted for a reason of its own.
THEOREM SnapshotBehindContract == Spec => []SnapshotNeverAhead
<1>1. RevealInv => SnapshotNeverAhead
  BY DEF RevealInv
<1> QED
  BY <1>1, RevealInvariant, PTL

\* KeyRevealWorkerService, which does not look at the status of the receipt, marks a key
\* revealed without the contract having it only when its own reveal was mined as reverted
\* although the contract waited for the key: lost races do no harm.
THEOREM MarkedKeysArePublished == Spec => []RevealedIsPublished
<1>1. RevealInv => RevealedIsPublished
  BY DEF RevealInv
<1> QED
  BY <1>1, RevealInvariant, PTL
-----------------------------------------------------------------------------
(***************************************************************************)
(* A row that is ahead of its contract keeps its request.  Rows are        *)
(* written with what was read some awaits before, so what is read must     *)
(* stay recorded: states recorded by a contract only grow.                 *)
(***************************************************************************)

\* What polls and the sync worker have read from state(), or from a simulation past the
\* clock's reach, the contract has recorded.
ReadsWereStored ==
    /\ \A p \in Polls :
          pollPc[p] = "upsert" \/ (pollPc[p] = "update" /\ pollRead[p] >= KeyRevealed) =>
              pollRead[p] <= stored[pollAt[p]]
    /\ syncPc = "write" => syncRead <= stored[syncAt]

RequestInv == ReadsWereStored /\ RowsAheadAreRequested

\* No step of the chain lowers what a contract has recorded.
StoredGrows ==
    /\ \A f \in Elections : stored[f] <= stored'[f]
    /\ reverted \subseteq reverted'

LEMMA ContractRecords ==
    ASSUME ContractTypeOK, StoredWithinClock, NEW e \in Elections, ContractStep(e)
    PROVE  StoredGrows
<1> USE DEF ContractTypeOK, StoredWithinClock, StoredGrows, SyncResult
<1>1. CASE Boundary(e)
  BY <1>1 DEF Boundary
<1>2. CASE OthersSync(e)
  BY <1>2 DEF OthersSync
<1>3. CASE OthersReveal(e)
  BY <1>3 DEF OthersReveal
<1>4. CASE FinalizeResult(e)
  BY <1>4 DEF FinalizeResult
<1>5. CASE Cancel(e)
  BY <1>5 DEF Cancel
<1>6. CASE MineSync(e)
  BY <1>6 DEF MineSync
<1>7. CASE MineReveal(e)
  BY <1>7 DEF MineReveal
<1>8. CASE MineReverted(e)
  BY <1>8 DEF MineReverted
<1> QED
  BY <1>1, <1>2, <1>3, <1>4, <1>5, <1>6, <1>7, <1>8 DEF ContractStep

\* A step that touches no row and no request keeps them together.
LEMMA RequestsStay ==
    ASSUME TypeOK, TypeOK', RowsAheadAreRequested, StoredGrows,
           UNCHANGED <<dbState, isStateSyncing, isRevealed>>, dropped \subseteq dropped'
    PROVE  RowsAheadAreRequested'
<1> SUFFICES ASSUME NEW e \in Elections, Indexed(e)', Rank(dbState[e])' > stored'[e],
                    ~MarkedOnRevert(e)'
             PROVE  isStateSyncing'[e] \/ e \in dropped'
  BY DEF RowsAheadAreRequested
<1>1. dbState[e] \in OnchainElectionState
  BY DEF TypeOK, StoreTypeOK, Indexed
<1>2. Rank(dbState[e]) \in Int /\ stored[e] \in Int /\ stored'[e] \in Int
  BY <1>1, RankIsTyped DEF TypeOK, ContractTypeOK
<1>3. Rank(dbState[e])' = Rank(dbState[e])
  BY DEF Rank
<1>4. Rank(dbState[e]) > stored[e]
  BY <1>2, <1>3 DEF StoredGrows
<1> QED
  BY <1>4 DEF RowsAheadAreRequested, Indexed, MarkedOnRevert, StoredGrows

\* A row that is written with n is ahead of nothing, or the request is written with it.
LEMMA RequestsAreWritten ==
    ASSUME TypeOK, RowsAheadAreRequested, UNCHANGED <<stored, reverted>>,
           NEW a \in Elections, NEW n \in Scheduled..Cancelled,
           dbState' = [dbState EXCEPT ![a] = MapOnchainStateToDbState(n)],
           n <= stored[a] \/ isStateSyncing'[a] \/ MarkedOnRevert(a)',
           \A e \in Elections \ {a} :
              /\ isStateSyncing'[e] = isStateSyncing[e] /\ isRevealed'[e] = isRevealed[e]
              /\ e \in dropped => e \in dropped'
    PROVE  RowsAheadAreRequested'
<1> SUFFICES ASSUME NEW e \in Elections, Indexed(e)', Rank(dbState[e])' > stored'[e],
                    ~MarkedOnRevert(e)'
             PROVE  isStateSyncing'[e] \/ e \in dropped'
  BY DEF RowsAheadAreRequested
<1>1. Rank(dbState[e])' = Rank(dbState'[e])
  BY DEF Rank
<1>2. CASE e = a
  <2>1. dbState'[e] = MapOnchainStateToDbState(n)
    BY <1>2 DEF TypeOK, StoreTypeOK
  <2>2. Rank(dbState'[e]) = n
    BY <2>1, RankInvertsMap
  <2>3. stored[a] \in Int
    BY DEF TypeOK, ContractTypeOK
  <2> QED
    BY <1>1, <1>2, <2>2, <2>3
<1>3. CASE e # a
  <2>1. dbState'[e] = dbState[e]
    BY <1>3 DEF TypeOK, StoreTypeOK
  <2> QED
    BY <1>1, <1>3, <2>1 DEF RowsAheadAreRequested, Indexed, MarkedOnRevert
<1> QED
  BY <1>2, <1>3

\* A step of the chain keeps RequestInv: what was recorded stays recorded.
LEMMA ChainKeepsRequests ==
    ASSUME LifecycleInv, TypeOK', RequestInv, Chain
    PROVE  RequestInv'
<1>1. PICK e \in Elections : ContractStep(e)
  BY DEF Chain
<1>2. StoredGrows
  BY <1>1, ContractRecords DEF LifecycleInv, TypeOK
<1>3. RowsAheadAreRequested'
  BY <1>2, RequestsStay DEF Chain, dbVars, syncVars, RequestInv, LifecycleInv
<1>4. \A f \in Elections : stored[f] \in Int /\ stored'[f] \in Int
  BY DEF LifecycleInv, TypeOK, ContractTypeOK
<1>5. ReadsWereStored'
  <2>1. ASSUME NEW p \in Polls,
               pollPc[p] = "upsert" \/ (pollPc[p] = "update" /\ pollRead[p] >= KeyRevealed)
        PROVE  pollRead[p] <= stored'[pollAt[p]]
    <3>0. PollTypeOK
      BY DEF LifecycleInv, TypeOK
    <3>1. pollAt[p] \in Elections /\ pollRead[p] \in Int
      <4>1. pollPc[p] \in {"upsert", "update"}
        BY <2>1
      <4> QED
        BY <3>0, <4>1 DEF PollTypeOK
    <3>2. pollRead[p] <= stored[pollAt[p]]
      BY <2>1 DEF RequestInv, ReadsWereStored
    <3> QED
      BY <1>2, <1>4, <3>1, <3>2 DEF StoredGrows
  <2>2. ASSUME syncPc = "write"
        PROVE  syncRead <= stored'[syncAt]
    <3>1. syncAt \in Elections /\ syncRead \in Int
      BY <2>2 DEF LifecycleInv, TypeOK, SyncTypeOK
    <3>2. syncRead <= stored[syncAt]
      BY <2>2 DEF RequestInv, ReadsWereStored
    <3> QED
      BY <1>2, <1>4, <3>1, <3>2 DEF StoredGrows
  <2> QED
    BY <2>1, <2>2 DEF ReadsWereStored, Chain, pollVars, syncVars
<1> QED
  BY <1>3, <1>5 DEF RequestInv

\* A contract that is left alone has lost nothing.
LEMMA RestRecords ==
    ASSUME TypeOK, UNCHANGED <<stored, reverted>>
    PROVE  StoredGrows
BY DEF StoredGrows, TypeOK, ContractTypeOK

\* A simulation that returns a reveal state or a later one returns what is recorded.
LEMMA LateResultsAreStored ==
    ASSUME ContractTypeOK, NEW e \in Elections, SyncResult(e) >= KeyRevealed
    PROVE  SyncResult(e) = stored[e]
BY DEF ContractTypeOK, SyncResult

\* The states that ask for no transaction are those that a contract has recorded itself.
LEMMA EarlyStatesAreRequested ==
    ASSUME NEW n \in Scheduled..Cancelled
    PROVE  n >= KeyRevealed \/ MapOnchainStateToDbState(n) \in syncableStateSnapshots
BY DEF MapOnchainStateToDbState, syncableStateSnapshots

\* A step of a poll keeps RequestInv: a simulated state is stored with its request.
LEMMA PollKeepsRequests ==
    ASSUME LifecycleInv, TypeOK', RequestInv, NEW p \in Polls, Poll(p)
    PROVE  RequestInv'
<1>1. /\ PollStep(p) /\ UNCHANGED syncVars
      /\ TypeOK /\ PollTypeOK /\ ContractTypeOK /\ ReadsWereStored /\ RowsAheadAreRequested
  BY DEF LifecycleInv, TypeOK, Poll, RequestInv
<1>2. UNCHANGED <<stored, reverted>>
  BY <1>1
  DEF PollStep, PollProceeds, PollStart, IndexRead, IndexUpsert, ReconcileStart, SimulateAgrees,
      SimulateDiffers, ReconcileUpdate, PollEnd, PollFails, ReconcileFails, chainVars
<1>3. RowsAheadAreRequested'
  <2>1. CASE UNCHANGED dbVars
    BY <1>1, <1>2, <2>1, RestRecords, RequestsStay DEF dbVars, syncVars
  <2>2. CASE IndexUpsert(p)
    <3>1. pollAt[p] \in Elections /\ pollRead[p] \in Scheduled..Cancelled
      BY <1>1, <2>2 DEF IndexUpsert, PollTypeOK
    <3>2. pollRead[p] <= stored[pollAt[p]]
      BY <1>1, <2>2 DEF IndexUpsert, ReadsWereStored
    <3>3. /\ dbState' = [dbState EXCEPT ![pollAt[p]] = MapOnchainStateToDbState(pollRead[p])]
          /\ isStateSyncing' = isStateSyncing /\ dropped' = dropped /\ isRevealed' = isRevealed
      BY <1>1, <2>2 DEF IndexUpsert, syncVars
    <3> HIDE DEF Scheduled, Cancelled
    <3> QED
      BY <1>1, <1>2, <3>1, <3>2, <3>3, RequestsAreWritten
  <2>3. CASE ReconcileUpdate(p)
    <3> DEFINE mapped == MapOnchainStateToDbState(pollRead[p])
    <3>1. pollAt[p] \in Elections /\ pollRead[p] \in Scheduled..Cancelled
      BY <1>1, <2>3 DEF ReconcileUpdate, PollTypeOK
    <3>2. /\ dbState' = [dbState EXCEPT ![pollAt[p]] = mapped]
          /\ isStateSyncing' = [isStateSyncing EXCEPT ![pollAt[p]] =
                                   mapped \in syncableStateSnapshots]
          /\ dropped' = dropped /\ isRevealed' = isRevealed
      BY <1>1, <2>3 DEF ReconcileUpdate, syncVars
    <3>3. pollRead[p] >= KeyRevealed \/ mapped \in syncableStateSnapshots
      BY <3>1, EarlyStatesAreRequested
    <3>4. isStateSyncing \in [Elections -> BOOLEAN]
      BY <1>1 DEF TypeOK, StoreTypeOK
    <3>5. pollRead[p] <= stored[pollAt[p]] \/ isStateSyncing'[pollAt[p]]
      <4>1. CASE pollRead[p] >= KeyRevealed
        BY <1>1, <2>3, <4>1 DEF ReconcileUpdate, ReadsWereStored
      <4>2. CASE mapped \in syncableStateSnapshots
        <5> HIDE DEF mapped
        <5> QED
          BY <3>1, <3>2, <3>4, <4>2
      <4> QED
        BY <3>3, <4>1, <4>2
    <3>6. \A e \in Elections \ {pollAt[p]} : isStateSyncing'[e] = isStateSyncing[e]
      <4> HIDE DEF mapped
      <4> QED
        BY <3>2, <3>4
    <3> HIDE DEF Scheduled, Cancelled
    <3> QED
      BY <1>1, <1>2, <3>1, <3>2, <3>5, <3>6, RequestsAreWritten
  <2> QED
    BY <1>1, <2>1, <2>2, <2>3
    DEF PollStep, PollProceeds, PollStart, IndexRead, ReconcileStart, SimulateAgrees,
        SimulateDiffers, PollEnd, PollFails, ReconcileFails
<1>4. ReadsWereStored'
  <2>1. syncPc' = "write" => syncRead' <= stored'[syncAt']
    BY <1>1, <1>2 DEF syncVars, ReadsWereStored
  <2> SUFFICES ASSUME NEW q \in Polls,
                      \/ pollPc'[q] = "upsert"
                      \/ pollPc'[q] = "update" /\ pollRead'[q] >= KeyRevealed
               PROVE  pollRead'[q] <= stored'[pollAt'[q]]
    BY <2>1 DEF ReadsWereStored
  <2>0. /\ pollPc \in [Polls -> {"idle", "index", "upsert", "reconcile", "update"}]
        /\ pollAt \in [Polls -> Elections \cup {-1}]
        /\ pollRead \in [Polls -> Scheduled..Cancelled]
        /\ \A e \in Elections : stored[e] \in Int
    BY <1>1 DEF PollTypeOK, ContractTypeOK
  <2>2. CASE \/ \E e \in Elections : IndexRead(p, e) /\ q = p
             \/ \E e \in Elections : SimulateDiffers(p, e) /\ q = p
    <3>1. CASE \E e \in Elections : IndexRead(p, e) /\ q = p
      <4>1. PICK e \in Elections : IndexRead(p, e) /\ q = p
        BY <3>1
      <4>2. pollRead'[q] = stored[e] /\ pollAt'[q] = e /\ stored[e] \in Int
        BY <2>0, <4>1 DEF IndexRead
      <4> QED
        BY <1>2, <4>2
    <3>2. CASE \E e \in Elections : SimulateDiffers(p, e) /\ q = p
      <4>1. PICK e \in Elections : SimulateDiffers(p, e) /\ q = p
        BY <3>2
      <4>2. pollRead'[q] = SyncResult(e) /\ pollAt'[q] = e /\ pollPc'[q] = "update"
        BY <2>0, <4>1 DEF SimulateDiffers
      <4>3. SyncResult(e) = stored[e] /\ stored[e] \in Int
        BY <1>1, <4>2, LateResultsAreStored DEF ContractTypeOK
      <4> QED
        BY <1>2, <4>2, <4>3
    <3> QED
      BY <2>2, <3>1, <3>2
  <2>3. CASE /\ pollPc'[q] = pollPc[q] /\ pollRead'[q] = pollRead[q] /\ pollAt'[q] = pollAt[q]
    BY <1>1, <1>2, <2>3 DEF ReadsWereStored
  <2>4. CASE pollPc'[q] \notin {"upsert", "update"}
    BY <2>4
  <2> QED
    BY <1>1, <2>0, <2>2, <2>3, <2>4
    DEF PollStep, PollProceeds, PollStart, IndexRead, IndexUpsert, ReconcileStart, SimulateAgrees,
        SimulateDiffers, ReconcileUpdate, PollEnd, PollFails, ReconcileFails, PollRests,
        BackToLoop
<1> QED
  BY <1>3, <1>4 DEF RequestInv
\* A step of the sync worker keeps RequestInv: it takes a request off together with the
\* claim, or drops it.
LEMMA SyncKeepsRequests ==
    ASSUME LifecycleInv, TypeOK', RequestInv, Sync
    PROVE  RequestInv'
<1>1. /\ SyncStep /\ UNCHANGED pollVars
      /\ TypeOK /\ SyncTypeOK /\ ContractTypeOK /\ ReadsWereStored /\ RowsAheadAreRequested
  BY DEF LifecycleInv, TypeOK, Sync, RequestInv
<1>2. UNCHANGED <<stored, reverted>>
  BY <1>1
  DEF SyncStep, SyncProceeds, SyncRunOnce, SyncSend, SyncReadState, SyncStore, SyncFails,
      SyncGivesUp, SyncEnd, chainVars
<1>3. isStateSyncing \in [Elections -> BOOLEAN]
  BY <1>1 DEF TypeOK, StoreTypeOK
<1>4. RowsAheadAreRequested'
  <2>1. CASE UNCHANGED <<dbVars, dropped>>
    BY <1>1, <1>2, <2>1, RestRecords, RequestsStay DEF dbVars
  <2>2. CASE SyncStore
    <3>1. /\ syncAt \in Elections /\ syncRead \in Scheduled..Cancelled
          /\ syncRead <= stored[syncAt]
      BY <1>1, <2>2 DEF SyncStore, SyncTypeOK, ReadsWereStored
    <3>2. /\ dbState' = [dbState EXCEPT ![syncAt] = MapOnchainStateToDbState(syncRead)]
          /\ \A e \in Elections \ {syncAt} :
                /\ isStateSyncing'[e] = isStateSyncing[e] /\ isRevealed'[e] = isRevealed[e]
                /\ e \in dropped => e \in dropped'
      BY <1>3, <2>2 DEF SyncStore
    <3> HIDE DEF Scheduled, Cancelled
    <3> QED
      BY <1>1, <1>2, <3>1, <3>2, RequestsAreWritten
  <2>3. CASE SyncFails
    <3>1. PICK e \in Elections : SyncGivesUp(e)
      BY <1>1, <2>3 DEF SyncFails, SyncTypeOK
    <3> SUFFICES ASSUME NEW f \in Elections, Indexed(f)', Rank(dbState[f])' > stored'[f],
                        ~MarkedOnRevert(f)'
                 PROVE  isStateSyncing'[f] \/ f \in dropped'
      BY DEF RowsAheadAreRequested
    <3>2. Indexed(f) /\ Rank(dbState[f]) > stored[f] /\ ~MarkedOnRevert(f)
      BY <1>2, <3>1 DEF SyncGivesUp, Indexed, Rank, MarkedOnRevert
    <3>3. isStateSyncing[f] \/ f \in dropped
      BY <1>1, <3>2 DEF RowsAheadAreRequested
    <3> QED
      BY <1>3, <3>1, <3>3 DEF SyncGivesUp
  <2> QED
    BY <1>1, <2>1, <2>2, <2>3
    DEF SyncStep, SyncProceeds, SyncRunOnce, SyncSend, SyncReadState, SyncEnd, dbVars
<1>5. ReadsWereStored'
  <2>1. \A p \in Polls :
            pollPc'[p] = "upsert" \/ (pollPc'[p] = "update" /\ pollRead'[p] >= KeyRevealed) =>
                pollRead'[p] <= stored'[pollAt'[p]]
    BY <1>1, <1>2 DEF ReadsWereStored, pollVars
  <2>2. CASE SyncReadState
    <3>1. syncAt \in Elections /\ syncAt' = syncAt /\ syncRead' = stored[syncAt]
      BY <1>1, <2>2 DEF SyncTypeOK, SyncReadState
    <3>2. stored[syncAt] \in Int
      BY <1>1, <3>1 DEF ContractTypeOK
    <3> QED
      BY <1>2, <2>1, <3>1, <3>2 DEF ReadsWereStored
  <2>3. CASE ~SyncReadState
    <3>1. syncPc' # "write"
      BY <1>1, <2>3
      DEF SyncStep, SyncProceeds, SyncRunOnce, SyncSend, SyncStore, SyncFails, SyncGivesUp,
          SyncEnd, SyncContinues
    <3> QED
      BY <2>1, <3>1 DEF ReadsWereStored
  <2> QED
    BY <2>2, <2>3
<1> QED
  BY <1>4, <1>5 DEF RequestInv

\* A step of the reveal worker keeps RequestInv: what it stores was published.
LEMMA RevealKeepsRequests ==
    ASSUME LifecycleInv, RevealInv, TypeOK', RequestInv, Reveal
    PROVE  RequestInv'
<1>1. /\ RevealStep /\ UNCHANGED <<stored, reverted, isStateSyncing, pollVars, syncVars>>
  BY DEF Reveal, RevealStep, RevealProceeds, RevealRunOnce, RevealReadState, RevealReadKey,
         RevealSend, MarkElectionKeyAsRevealed, RevealFails, RevealEnd, chainVars, dbVars
<1>2. TypeOK /\ RowsAheadAreRequested
  BY DEF LifecycleInv, RequestInv
<1>3. ReadsWereStored'
  BY <1>1 DEF RequestInv, ReadsWereStored, pollVars, syncVars
<1>4. CASE UNCHANGED <<dbState, isRevealed>>
  BY <1>1, <1>2, <1>3, <1>4, RestRecords, RequestsStay DEF syncVars, RequestInv
<1>5. CASE MarkElectionKeyAsRevealed
  <2>1. PICK a \in Elections : a = revealAt /\ (keyPublished[a] \/ a \in reverted)
    BY <1>5, ContractAssumption, StoreAssumption
    DEF MarkElectionKeyAsRevealed, RevealInv, ReceiptMeansPublished, LifecycleInv, TypeOK,
        RevealTypeOK
  <2>2. /\ KeyRevealed <= stored[a] \/ MarkedOnRevert(a)'
        /\ KeyRevealed \in Scheduled..Cancelled
    <3>1. CASE keyPublished[a]
      BY <2>1, <3>1 DEF LifecycleInv, PublicationIsRecorded
    <3>2. CASE a \in reverted
      BY <1>1, <1>2, <1>5, <2>1, <3>2
      DEF MarkElectionKeyAsRevealed, MarkedOnRevert, TypeOK, StoreTypeOK
    <3> QED
      BY <2>1, <3>1, <3>2
  <2>3. dbState' = [dbState EXCEPT ![a] = MapOnchainStateToDbState(KeyRevealed)]
    BY <1>5, <2>1 DEF MarkElectionKeyAsRevealed, MapOnchainStateToDbState
  <2>4. /\ dropped' = dropped /\ isStateSyncing' = isStateSyncing /\ UNCHANGED <<stored, reverted>>
        /\ \A e \in Elections \ {a} : isRevealed'[e] = isRevealed[e]
    BY <1>1, <1>2, <1>5, <2>1 DEF syncVars, MarkElectionKeyAsRevealed, TypeOK, StoreTypeOK
  <2>5. RowsAheadAreRequested'
    <3> HIDE DEF KeyRevealed, Scheduled, Cancelled
    <3> QED
      BY <1>2, <2>1, <2>2, <2>3, <2>4, RequestsAreWritten
  <2> QED
    BY <1>3, <2>5 DEF RequestInv
<1> QED
  BY <1>1, <1>4, <1>5
  DEF RevealStep, RevealProceeds, RevealRunOnce, RevealReadState, RevealReadKey, RevealSend,
      RevealFails, RevealEnd, dbVars

\* A restart keeps RequestInv: the request is in the row.
LEMMA CrashKeepsRequests ==
    ASSUME LifecycleInv, TypeOK', RequestInv, Crash
    PROVE  RequestInv'
<1>1. UNCHANGED <<stored, reverted, dbState, isStateSyncing, isRevealed, dropped>>
  BY DEF Crash, chainVars, dbVars
<1>2. RowsAheadAreRequested'
  BY <1>1, RestRecords, RequestsStay DEF LifecycleInv, RequestInv
<1>3. ReadsWereStored'
  BY DEF Crash, ReadsWereStored
<1> QED
  BY <1>2, <1>3 DEF RequestInv

\* RequestInv holds at the start, when there is no row.
LEMMA RequestInvInit == Init => RequestInv
BY DEF Init, StoreInit, PollInit, SyncInit, RequestInv, ReadsWereStored, RowsAheadAreRequested,
       Indexed

\* Every step keeps RequestInv.
LEMMA RequestInvNext ==
    LifecycleInv /\ RevealInv /\ TypeOK' /\ RequestInv /\ [Next]_vars => RequestInv'
<1> SUFFICES ASSUME LifecycleInv, RevealInv, TypeOK', RequestInv, [Next]_vars
             PROVE  RequestInv'
  OBVIOUS
<1>1. CASE Next
  BY <1>1, ChainKeepsRequests, PollKeepsRequests, SyncKeepsRequests, RevealKeepsRequests,
     CrashKeepsRequests
  DEF Next
<1>2. CASE UNCHANGED vars
  BY <1>2
  DEF RequestInv, ReadsWereStored, RowsAheadAreRequested, MarkedOnRevert, Indexed, Rank, vars,
      chainVars, dbVars, pollVars, syncVars
<1> QED
  BY <1>1, <1>2

\* A row that shows a state its contract has not recorded has isStateSyncing set, for any
\* number of elections and overlapping polls and across restarts: unless the worker has
\* failed on it, or its key was marked on a reverted reveal, no contract is forgotten on the
\* way to the state its row already shows.
THEOREM RequestsAreKept == Spec => []RowsAheadAreRequested
<1>1. Spec => []RequestInv
  BY RequestInvInit, RequestInvNext, TypeCorrect, LifecycleInvariant, RevealInvariant, PTL
  DEF Spec
<1>2. RequestInv => RowsAheadAreRequested
  BY DEF RequestInv
<1> QED
  BY <1>1, <1>2, PTL
=============================================================================
