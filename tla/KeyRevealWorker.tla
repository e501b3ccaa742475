----------------------------- MODULE KeyRevealWorker -----------------------------
(***************************************************************************)
(* KeyRevealWorkerService.runOnce: for every private election whose row    *)
(* says KEY_REVEAL_PENDING and whose key is not marked revealed, check the *)
(* contract, send revealPrivateKey with the decrypted key, wait for the    *)
(* receipt and mark the key.                                               *)
(***************************************************************************)
EXTENDS ElectionStore

CONSTANT Managed    \* the elections for which the account is a reveal manager

ASSUME ManagedAssumption == Managed \subseteq Elections

VARIABLES
    revealPc,   \* "idle" is isRunning = false
    revealTodo, \* the rows findMany returned and the loop has not visited
    revealAt,   \* the election under way
    keySent     \* the plain key has left the backend in a transaction

revealVars == <<revealPc, revealTodo, revealAt, keySent>>

RevealTypeOK ==
    /\ revealPc \in {"idle", "next", "check", "send", "mining", "mark"}
    /\ revealTodo \in SUBSET Keyed
    /\ revealAt \in Keyed \cup {-1}
    /\ keySent \in [Elections -> BOOLEAN]
    /\ revealPc \in {"check", "send", "mining", "mark"} => revealAt \in Keyed

RevealInit ==
    /\ revealPc = "idle"
    /\ revealTodo = {}
    /\ revealAt = -1
    /\ keySent = [e \in Elections |-> FALSE]

\* The loop visits the rows in id order.
NextToReveal(e) ==
    /\ revealPc = "next"
    /\ e \in revealTodo
    /\ \A f \in revealTodo : e <= f

\* The loop turns to the rows that are left.
RevealContinues(todo) ==
    /\ revealPc' = "next"
    /\ revealTodo' = todo
    /\ revealAt' = -1

\* A tick of the timer; while a pass is under way it returns at once.
RevealRunOnce ==
    /\ revealPc = "idle"
    /\ RevealContinues({e \in Keyed :
                           /\ dbState[e] = "KEY_REVEAL_PENDING"
                           /\ ~isRevealed[e]})
    /\ UNCHANGED <<chainVars, faults, dbVars, keySent>>

\* Mutant of RevealReadState: the row is believed.
RevealReadState_TrustsRow(e) ==
    /\ NextToReveal(e)
    /\ revealPc' = "check"
    /\ revealTodo' = revealTodo \ {e}
    /\ revealAt' = e
    /\ UNCHANGED <<chainVars, faults, dbVars, keySent>>

\* The read of state(): any other state than 3 ends the visit.
RevealReadState(e) ==
    /\ NextToReveal(e)
    /\ IF stored[e] # KeyRevealPending
       THEN RevealContinues(revealTodo \ {e})
       ELSE /\ revealPc' = "check"
            /\ revealTodo' = revealTodo \ {e}
            /\ revealAt' = e
    /\ UNCHANGED <<chainVars, faults, dbVars, keySent>>

\* The read of revealedPrivateKey() and isRevealManager(), which Promise.all
\* may resolve at a later block than the read of state().
RevealReadKey ==
    /\ revealPc = "check"
    /\ CASE revealAt \notin Managed ->
               RevealContinues(revealTodo)
         [] revealAt \in Managed /\ keyPublished[revealAt] ->
               revealPc' = "mark" /\ UNCHANGED <<revealTodo, revealAt>>
         [] OTHER ->
               revealPc' = "send" /\ UNCHANGED <<revealTodo, revealAt>>
    /\ UNCHANGED <<chainVars, faults, dbVars, keySent>>

\* Mutant of RevealSend: the row already says KEY_REVEALED.
RevealSend_Optimistic ==
    /\ revealPc = "send"
    /\ revealTx' = [revealTx EXCEPT ![revealAt] = TRUE]
    /\ keySent' = [keySent EXCEPT ![revealAt] = TRUE]
    /\ dbState' = [dbState EXCEPT ![revealAt] = "KEY_REVEALED"]
    /\ revealPc' = "mining"
    /\ UNCHANGED <<due, stored, keyPublished, syncTx, reverted, faults, isStateSyncing,
                   isRevealed, revealTodo, revealAt>>

\* decryptPrivateKey and writeContract.
RevealSend ==
    /\ revealPc = "send"
    /\ revealTx' = [revealTx EXCEPT ![revealAt] = TRUE]
    /\ keySent' = [keySent EXCEPT ![revealAt] = TRUE]
    /\ revealPc' = "mining"
    /\ UNCHANGED <<due, stored, keyPublished, syncTx, reverted, faults, dbVars, revealTodo,
                   revealAt>>

\* Mutant of MarkElectionKeyAsRevealed: nobody waits for the receipt.
MarkElectionKeyAsRevealed_NoReceipt ==
    /\ revealPc \in {"mining", "mark"}
    /\ isRevealed' = [isRevealed EXCEPT ![revealAt] = TRUE]
    /\ dbState' = [dbState EXCEPT ![revealAt] = "KEY_REVEALED"]
    /\ RevealContinues(revealTodo)
    /\ UNCHANGED <<chainVars, faults, isStateSyncing, keySent>>

\* Mutant of MarkElectionKeyAsRevealed: only the row of the election is updated.
MarkElectionKeyAsRevealed_RowOnly ==
    /\ \/ revealPc = "mining" /\ ~revealTx[revealAt]
       \/ revealPc = "mark"
    /\ dbState' = [dbState EXCEPT ![revealAt] = "KEY_REVEALED"]
    /\ RevealContinues(revealTodo)
    /\ UNCHANGED <<chainVars, faults, isStateSyncing, isRevealed, keySent>>

\* markElectionKeyAsRevealed: after the receipt, whatever its status, or when
\* the contract already has the key.
MarkElectionKeyAsRevealed ==
    /\ \/ revealPc = "mining" /\ ~revealTx[revealAt]
       \/ revealPc = "mark"
    /\ isRevealed' = [isRevealed EXCEPT ![revealAt] = TRUE]
    /\ dbState' = [dbState EXCEPT ![revealAt] = "KEY_REVEALED"]
    /\ RevealContinues(revealTodo)
    /\ UNCHANGED <<chainVars, faults, isStateSyncing, keySent>>

\* The catch of the loop only logs.
RevealFails ==
    /\ Fault
    /\ \/ \E e \in Keyed : NextToReveal(e) /\ RevealContinues(revealTodo \ {e})
       \/ /\ revealPc \in {"check", "send", "mining", "mark"}
          /\ RevealContinues(revealTodo)
    /\ UNCHANGED <<chainVars, dbVars, keySent>>

\* Mutant of RevealEnd: isRunning is never reset.
RevealEnd_StaysRunning ==
    /\ revealPc = "next"
    /\ revealTodo = {}
    /\ UNCHANGED <<chainVars, faults, dbVars, revealVars>>

RevealEnd ==
    /\ revealPc = "next"
    /\ revealTodo = {}
    /\ revealPc' = "idle"
    /\ UNCHANGED <<chainVars, faults, dbVars, revealTodo, revealAt, keySent>>

RevealProceeds ==
    \/ \E e \in Keyed : RevealReadState(e)
    \/ RevealReadKey
    \/ RevealSend
    \/ MarkElectionKeyAsRevealed
    \/ RevealEnd

RevealStep ==
    \/ RevealRunOnce
    \/ RevealProceeds
    \/ RevealFails
=============================================================================
