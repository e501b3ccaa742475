------------------------------ MODULE ElectionStore ------------------------------
(***************************************************************************)
(* The columns of PostgreSQL through which the indexer and the two workers *)
(* meet: onchain_elections.onchain_state and .is_state_syncing, and        *)
(* election_keys.is_revealed.                                              *)
(***************************************************************************)
EXTENDS ElectionContract

CONSTANT Keyed      \* the private elections whose draft has an election key

ASSUME StoreAssumption == Keyed \subseteq Private

VARIABLES dbState, isStateSyncing, isRevealed

dbVars == <<dbState, isStateSyncing, isRevealed>>

OnchainElectionState ==
    {"SCHEDULED", "ACTIVE", "CLOSED", "KEY_REVEAL_PENDING", "KEY_REVEALED",
     "FINALIZED", "CANCELLED"}

NoRow == "NO_ROW"   \* the election is not indexed yet

\* Mutant of MapOnchainStateToDbState: CANCELLED is not in the switch, and what it
\* leaves out has no name in the enum.
MapOnchainStateToDbState_NoCancelled(n) ==
    CASE n = Scheduled        -> "SCHEDULED"
      [] n = Active           -> "ACTIVE"
      [] n = Closed           -> "CLOSED"
      [] n = KeyRevealPending -> "KEY_REVEAL_PENDING"
      [] n = KeyRevealed      -> "KEY_REVEALED"
      [] n = Finalized        -> "FINALIZED"
      [] OTHER                -> "UNKNOWN"

MapOnchainStateToDbState(n) ==
    CASE n = Scheduled        -> "SCHEDULED"
      [] n = Active           -> "ACTIVE"
      [] n = Closed           -> "CLOSED"
      [] n = KeyRevealPending -> "KEY_REVEAL_PENDING"
      [] n = KeyRevealed      -> "KEY_REVEALED"
      [] n = Finalized        -> "FINALIZED"
      [] n = Cancelled        -> "CANCELLED"
      [] OTHER                -> "SCHEDULED"

\* How far along the lifecycle a row says its election is.
Rank(s) ==
    CASE s = "SCHEDULED"          -> Scheduled
      [] s = "ACTIVE"             -> Active
      [] s = "CLOSED"             -> Closed
      [] s = "KEY_REVEAL_PENDING" -> KeyRevealPending
      [] s = "KEY_REVEALED"       -> KeyRevealed
      [] s = "FINALIZED"          -> Finalized
      [] s = "CANCELLED"          -> Cancelled

Indexed(e) == dbState[e] # NoRow

StoreTypeOK ==
    /\ dbState \in [Elections -> OnchainElectionState \cup {NoRow}]
    /\ isStateSyncing \in [Elections -> BOOLEAN]
    /\ isRevealed \in [Elections -> BOOLEAN]

StoreInit ==
    /\ dbState = [e \in Elections |-> NoRow]
    /\ isStateSyncing = [e \in Elections |-> FALSE]
    /\ isRevealed = [e \in Elections |-> FALSE]
=============================================================================
