----------------------------- MODULE StateSyncWorker -----------------------------
(***************************************************************************)
(* StateSyncWorkerService.runOnce: for every row with isStateSyncing, send *)
(* syncState(), wait for the receipt, read state() and store it.           *)
(***************************************************************************)
EXTENDS ElectionStore

VARIABLES
    syncPc,     \* "idle" is isRunning = false
    syncTodo,   \* the rows findMany returned and the loop has not visited
    syncAt,     \* the election under way
    syncRead,   \* what state() returned for it
    dropped     \* history: the rows it has given up on since it last stored their state

syncVars == <<syncPc, syncTodo, syncAt, syncRead, dropped>>

SyncTypeOK ==
    /\ syncPc \in {"idle", "next", "mining", "write"}
    /\ syncTodo \in SUBSET Elections
    /\ syncAt \in Elections \cup {-1}
    /\ syncRead \in Scheduled..Cancelled
    /\ dropped \in SUBSET Elections
    /\ syncPc \in {"mining", "write"} => syncAt \in Elections

SyncInit ==
    /\ syncPc = "idle"
    /\ syncTodo = {}
    /\ syncAt = -1
    /\ syncRead = Scheduled
    /\ dropped = {}

\* The loop visits the rows in id order.
NextToSync(e) ==
    /\ syncPc = "next"
    /\ e \in syncTodo
    /\ \A f \in syncTodo : e <= f

\* The loop turns to the rows that are left.
SyncContinues(todo) ==
    /\ syncPc' = "next"
    /\ syncTodo' = todo
    /\ syncAt' = -1
    /\ syncRead' = Scheduled

\* A tick of the timer; while a pass is under way it returns at once.
SyncRunOnce ==
    /\ syncPc = "idle"
    /\ SyncContinues({e \in Elections :
                         /\ isStateSyncing[e]
                         /\ dbState[e] \notin {"FINALIZED", "CANCELLED"}})
    /\ UNCHANGED <<chainVars, faults, dbVars, dropped>>

\* writeContract (the hash it returns is stored in lastStateSyncTxHash).
SyncSend(e) ==
    /\ NextToSync(e)
    /\ syncTx' = [syncTx EXCEPT ![e] = TRUE]
    /\ syncPc' = "mining"
    /\ syncTodo' = syncTodo \ {e}
    /\ syncAt' = e
    /\ UNCHANGED <<due, stored, keyPublished, revealTx, reverted, faults, dbVars, syncRead,
                   dropped>>

\* waitForTransactionReceipt, whatever its status, and then state().
SyncReadState ==
    /\ syncPc = "mining"
    /\ ~syncTx[syncAt]
    /\ syncRead' = stored[syncAt]
    /\ syncPc' = "write"
    /\ UNCHANGED <<chainVars, faults, dbVars, syncTodo, syncAt, dropped>>

\* Mutant of SyncStore: a row that claims a later state already is left as it is.
SyncStore_OnlyForward ==
    /\ syncPc = "write"
    /\ dbState' = [dbState EXCEPT ![syncAt] =
                      IF Rank(@) > syncRead THEN @ ELSE MapOnchainStateToDbState(syncRead)]
    /\ isStateSyncing' = [isStateSyncing EXCEPT ![syncAt] = FALSE]
    /\ dropped' = dropped \ {syncAt}
    /\ SyncContinues(syncTodo)
    /\ UNCHANGED <<chainVars, faults, isRevealed>>

SyncStore ==
    /\ syncPc = "write"
    /\ dbState' = [dbState EXCEPT ![syncAt] = MapOnchainStateToDbState(syncRead)]
    /\ isStateSyncing' = [isStateSyncing EXCEPT ![syncAt] = FALSE]
    /\ dropped' = dropped \ {syncAt}
    /\ SyncContinues(syncTodo)
    /\ UNCHANGED <<chainVars, faults, isRevealed>>

\* The catch of the loop: the row is no longer to be synchronised.
SyncGivesUp(e) ==
    /\ isStateSyncing' = [isStateSyncing EXCEPT ![e] = FALSE]
    /\ dropped' = dropped \cup {e}
    /\ SyncContinues(syncTodo \ {e})
    /\ UNCHANGED <<chainVars, dbState, isRevealed>>

SyncFails ==
    /\ Fault
    /\ \/ \E e \in Elections : NextToSync(e) /\ SyncGivesUp(e)
       \/ syncPc \in {"mining", "write"} /\ SyncGivesUp(syncAt)

SyncEnd ==
    /\ syncPc = "next"
    /\ syncTodo = {}
    /\ syncPc' = "idle"
    /\ UNCHANGED <<chainVars, faults, dbVars, syncTodo, syncAt, syncRead, dropped>>

SyncProceeds ==
    \/ \E e \in Elections : SyncSend(e)
    \/ SyncReadState
    \/ SyncStore
    \/ SyncEnd

SyncStep ==
    \/ SyncRunOnce
    \/ SyncProceeds
    \/ SyncFails
=============================================================================
