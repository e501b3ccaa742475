---------------------------- MODULE ElectionContract ----------------------------
(***************************************************************************)
(* The election contracts the backend watches and drives.  They are not    *)
(* part of the repository: this module models them from how the services   *)
(* use them (the ABI fragments in the indexer and in the two workers).     *)
(*                                                                         *)
(* A contract keeps a state (the uint8 that state() returns) that only     *)
(* transactions change, while the clock decides which state syncState()    *)
(* would move it to.  The backend reads both: state() and the simulated    *)
(* result of syncState().                                                  *)
(***************************************************************************)
EXTENDS Integers

CONSTANTS
    Elections,      \* ids of the rows of onchain_elections, in id order
    Private,        \* the elections of visibility mode PRIVATE
    MaxFaults,      \* bound on failed calls and failed transactions
    TxMayRevert     \* may a submitted transaction be mined as reverted?

ASSUME ContractAssumption ==
    /\ Elections \subseteq Nat
    /\ Private \subseteq Elections
    /\ MaxFaults \in Nat
    /\ TxMayRevert \in BOOLEAN

VARIABLES
    due,            \* the state the clock calls for
    stored,         \* what state() returns
    keyPublished,   \* revealedPrivateKey() is not empty
    syncTx,         \* a syncState transaction of the backend is pending
    revealTx,       \* a revealPrivateKey transaction of the backend is pending
    reverted,       \* history: its reveal was mined as reverted for a reason of its own
    faults          \* failed calls so far

chainVars == <<due, stored, keyPublished, syncTx, revealTx, reverted>>

\* The uint8 values of the contract's state enum.
Scheduled        == 0
Active           == 1
Closed           == 2
KeyRevealPending == 3
KeyRevealed      == 4
Finalized        == 5
Cancelled        == 6

\* The last state the clock alone leads to.
LastDue(e) == IF e \in Private THEN KeyRevealPending ELSE Closed

\* The result of syncState(): the clock decides until the key is revealed, the
\* result finalized or the election cancelled.
SyncResult(e) == IF stored[e] >= KeyRevealed THEN stored[e] ELSE due[e]

\* One more external call has failed.
Fault ==
    /\ faults < MaxFaults
    /\ faults' = faults + 1

ContractTypeOK ==
    /\ due \in [Elections -> Scheduled..KeyRevealPending]
    /\ stored \in [Elections -> Scheduled..Cancelled]
    /\ keyPublished \in [Elections -> BOOLEAN]
    /\ syncTx \in [Elections -> BOOLEAN]
    /\ revealTx \in [Elections -> BOOLEAN]
    /\ reverted \subseteq Elections
    /\ faults \in 0..MaxFaults

ContractInit ==
    /\ due = [e \in Elections |-> Scheduled]
    /\ stored = [e \in Elections |-> Scheduled]
    /\ keyPublished = [e \in Elections |-> FALSE]
    /\ syncTx = [e \in Elections |-> FALSE]
    /\ revealTx = [e \in Elections |-> FALSE]
    /\ reverted = {}
    /\ faults = 0

-----------------------------------------------------------------------------
(***************************************************************************)
(* What happens to a contract without the backend.                         *)
(***************************************************************************)

\* Time passes a lifecycle boundary.
Boundary(e) ==
    /\ stored[e] < KeyRevealed
    /\ due[e] < LastDue(e)
    /\ due' = [due EXCEPT ![e] = @ + 1]
    /\ UNCHANGED <<stored, keyPublished, syncTx, revealTx, reverted, faults>>

\* syncState() is public: anyone may call it.
OthersSync(e) ==
    /\ stored[e] # SyncResult(e)
    /\ stored' = [stored EXCEPT ![e] = SyncResult(e)]
    /\ UNCHANGED <<due, keyPublished, syncTx, revealTx, reverted, faults>>

\* Another reveal manager publishes the committed key.
OthersReveal(e) ==
    /\ stored[e] = KeyRevealPending
    /\ stored' = [stored EXCEPT ![e] = KeyRevealed]
    /\ keyPublished' = [keyPublished EXCEPT ![e] = TRUE]
    /\ UNCHANGED <<due, syncTx, revealTx, reverted, faults>>

\* The organizer finalizes the result (event ResultFinalized).
FinalizeResult(e) ==
    /\ stored[e] = IF e \in Private THEN KeyRevealed ELSE Closed
    /\ stored' = [stored EXCEPT ![e] = Finalized]
    /\ UNCHANGED <<due, keyPublished, syncTx, revealTx, reverted, faults>>

\* The organizer cancels before the vote closes.
Cancel(e) ==
    /\ stored[e] \in {Scheduled, Active}
    /\ stored' = [stored EXCEPT ![e] = Cancelled]
    /\ UNCHANGED <<due, keyPublished, syncTx, revealTx, reverted, faults>>

-----------------------------------------------------------------------------
(***************************************************************************)
(* The backend's own transactions are mined.  A transaction outlives the   *)
(* process that sent it.                                                   *)
(***************************************************************************)

MineSync(e) ==
    /\ syncTx[e]
    /\ syncTx' = [syncTx EXCEPT ![e] = FALSE]
    /\ stored' = [stored EXCEPT ![e] = SyncResult(e)]
    /\ UNCHANGED <<due, keyPublished, revealTx, reverted, faults>>

\* revealPrivateKey reverts unless the contract waits for the key.
MineReveal(e) ==
    /\ revealTx[e]
    /\ revealTx' = [revealTx EXCEPT ![e] = FALSE]
    /\ IF stored[e] = KeyRevealPending
       THEN /\ stored' = [stored EXCEPT ![e] = KeyRevealed]
            /\ keyPublished' = [keyPublished EXCEPT ![e] = TRUE]
       ELSE UNCHANGED <<stored, keyPublished>>
    /\ UNCHANGED <<due, syncTx, reverted, faults>>

\* A transaction runs out of gas, say, and is mined with a receipt of status "reverted",
\* without effect, although the state of the contract would have allowed it.
MineReverted(e) ==
    /\ TxMayRevert
    /\ Fault
    /\ \/ /\ syncTx[e]
          /\ syncTx' = [syncTx EXCEPT ![e] = FALSE]
          /\ UNCHANGED <<revealTx, reverted>>
       \/ /\ revealTx[e]
          /\ revealTx' = [revealTx EXCEPT ![e] = FALSE]
          /\ reverted' = reverted \cup {e}
          /\ UNCHANGED syncTx
    /\ UNCHANGED <<due, stored, keyPublished>>

ContractStep(e) ==
    \/ Boundary(e)
    \/ OthersSync(e)
    \/ OthersReveal(e)
    \/ FinalizeResult(e)
    \/ Cancel(e)
    \/ MineSync(e)
    \/ MineReveal(e)
    \/ MineReverted(e)
=============================================================================
