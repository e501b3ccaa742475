---------------------------- MODULE ElectionLifecycle ----------------------------
(***************************************************************************)
(* The indexer's polls, the state sync worker and the key reveal worker,   *)
(* running side by side in one process over the same rows and the same     *)
(* contracts; the process may crash and start again.                       *)
(***************************************************************************)
EXTENDS StateReconciler, StateSyncWorker, KeyRevealWorker

CONSTANT MaxCrashes     \* bound on restarts of the process

ASSUME CrashAssumption == MaxCrashes \in Nat

VARIABLE crashes

vars == <<chainVars, faults, dbVars, pollVars, syncVars, revealVars, crashes>>

TypeOK ==
    /\ ContractTypeOK
    /\ StoreTypeOK
    /\ PollTypeOK
    /\ SyncTypeOK
    /\ RevealTypeOK
    /\ crashes \in 0..MaxCrashes

Init ==
    /\ ContractInit
    /\ StoreInit
    /\ PollInit
    /\ SyncInit
    /\ RevealInit
    /\ crashes = 0

Chain ==
    /\ \E e \in Elections : ContractStep(e)
    /\ UNCHANGED <<dbVars, pollVars, syncVars, revealVars, crashes>>

Poll(p) == PollStep(p) /\ UNCHANGED <<syncVars, revealVars, crashes>>

Sync == SyncStep /\ UNCHANGED <<pollVars, revealVars, crashes>>

Reveal == RevealStep /\ UNCHANGED <<pollVars, syncVars, crashes>>

\* The process dies (a rejected promise that nothing catches, for instance when
\* the update in the catch of a worker throws, ends it too) and starts again:
\* what was in memory is lost, rows and pending transactions are not.
Crash ==
    /\ crashes < MaxCrashes
    /\ crashes' = crashes + 1
    /\ pollPc' = [p \in Polls |-> "idle"]
    /\ pollTodo' = [p \in Polls |-> {}]
    /\ pollSnap' = [p \in Polls |-> NoSnapshot]
    /\ pollAt' = [p \in Polls |-> -1]
    /\ pollRead' = [p \in Polls |-> Scheduled]
    /\ syncPc' = "idle" /\ syncTodo' = {} /\ syncAt' = -1 /\ syncRead' = Scheduled
    /\ revealPc' = "idle" /\ revealTodo' = {} /\ revealAt' = -1
    /\ UNCHANGED <<chainVars, faults, dbVars, dropped, keySent>>

Next ==
    \/ Chain
    \/ \E p \in Polls : Poll(p)
    \/ Sync
    \/ Reveal
    \/ Crash

Spec == Init /\ [][Next]_vars

\* setInterval keeps starting polls and passes, an await that does not throw
\* resolves, and a submitted transaction is mined.  Nothing is assumed of the
\* clock, of other people's transactions, of failures or of crashes.
Fairness ==
    /\ \A p \in Polls :
          /\ WF_vars(PollStart(p) /\ UNCHANGED <<syncVars, revealVars, crashes>>)
          /\ WF_vars(PollProceeds(p) /\ UNCHANGED <<syncVars, revealVars, crashes>>)
    /\ WF_vars((SyncRunOnce \/ SyncProceeds) /\ UNCHANGED <<pollVars, revealVars, crashes>>)
    /\ WF_vars((RevealRunOnce \/ RevealProceeds) /\ UNCHANGED <<pollVars, syncVars, crashes>>)
    /\ \A e \in Elections :
          /\ WF_vars(MineSync(e) /\ UNCHANGED <<dbVars, pollVars, syncVars, revealVars, crashes>>)
          /\ WF_vars(MineReveal(e) /\ UNCHANGED <<dbVars, pollVars, syncVars, revealVars, crashes>>)

FairSpec == Spec /\ Fairness

-----------------------------------------------------------------------------
(***************************************************************************)
(* Safety.                                                                 *)
(***************************************************************************)

\* The reveal worker does not look at the status of the receipt: a row may say KEY_REVEALED
\* because a reveal was mined, and reverted.
MarkedOnRevert(e) == e \in reverted /\ isRevealed[e] /\ dbState[e] = "KEY_REVEALED"

\* A row never claims a later lifecycle state than the contract could be synced
\* to at that moment, however the writes of overlapping polls, of the sync worker
\* and of the reveal worker interleave: each of them stores what it read earlier.  The one
\* exception is KEY_REVEALED after a reveal that reverted for a reason of its own.
SnapshotNeverAhead ==
    \A e \in Elections :
        Indexed(e) => Rank(dbState[e]) <= SyncResult(e) \/ MarkedOnRevert(e)

\* Polls store the state a transaction would lead to, and compare with that row from then
\* on: so as long as the row is ahead of what its contract has recorded, the transaction
\* must still be asked for, whatever other polls, the worker and restarts do in between.
\* Only a failure in the worker itself, which takes the request off, leaves it behind, or
\* the mark after a reveal that reverted.
RowsAheadAreRequested ==
    \A e \in Elections :
        Indexed(e) /\ Rank(dbState[e]) > stored[e] =>
            isStateSyncing[e] \/ e \in dropped \/ MarkedOnRevert(e)

\* A key is marked revealed only when the contract has it, although the worker does not look
\* at the receipt: its reveal reverts for the contract's state only after somebody else's has
\* succeeded, since nothing but a reveal takes a contract out of KEY_REVEAL_PENDING.  When it
\* reverts for a reason of its own, the mark is wrong.
RevealedIsPublished ==
    \A e \in Elections : isRevealed[e] => keyPublished[e] \/ e \in reverted

\* The plain key leaves the backend only when the contract itself (not only the
\* row, which holds a simulated state) has recorded that it waits for the key.
KeySentOnlyWhenPending ==
    \A e \in Elections :
        keySent[e] => stored[e] \in {KeyRevealPending, KeyRevealed, Finalized}

-----------------------------------------------------------------------------
(***************************************************************************)
(* Liveness, under FairSpec.                                               *)
(***************************************************************************)

\* The state sync worker moves every contract over each boundary the clock has
\* passed.
ChainCatchesUp ==
    \A e \in Elections : \A k \in Active..KeyRevealPending :
        due[e] >= k ~> stored[e] >= k

\* When a private election reaches its reveal time, the reveal worker publishes
\* the committed key (an election is cancelled, if at all, before).
KeyGetsPublished ==
    \A e \in Keyed \cap Managed :
        due[e] = KeyRevealPending ~> (keyPublished[e] \/ stored[e] = Cancelled)

\* A key that was sent is marked in the end, although somebody else may reveal it first
\* or the contract move on while the transaction is under way; unless the process crashes
\* or a call fails in between: once the contract is past KEY_REVEAL_PENDING the worker
\* does not come back to a key it has not marked.
KeyGetsMarked ==
    \A e \in Keyed : keySent[e] ~> (isRevealed[e] \/ crashes > 0 \/ faults > 0)

\* Once time and other people's transactions stop, the rows settle on the state
\* the contracts can be synced to, and stay there.
SnapshotConverges ==
    \A e \in Elections : <>[](Indexed(e) /\ Rank(dbState[e]) = SyncResult(e))
=============================================================================
