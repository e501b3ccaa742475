----------------------------- MODULE StateReconciler -----------------------------
(***************************************************************************)
(* The part of ElectionIndexerService that keeps onchain_elections in step *)
(* with the contracts: indexElection, which stores what state() returned,  *)
(* and reconcileOnchainElectionStates, which stores what syncState() would *)
(* return and asks for the transaction.                                    *)
(*                                                                         *)
(* A timer starts a poll every INDEXER_POLL_INTERVAL_MS whether or not the *)
(* previous one has ended, so several polls may be under way: Polls is the *)
(* set of those that may overlap.  Every await is a step of its own.       *)
(***************************************************************************)
EXTENDS ElectionStore

CONSTANT Polls

VARIABLES
    pollPc,     \* where each poll is
    pollTodo,   \* the elections its current loop still has to visit
    pollSnap,   \* the rows findMany returned to the reconcile loop
    pollAt,     \* the election whose update is under way
    pollRead    \* what the chain returned for it

pollVars == <<pollPc, pollTodo, pollSnap, pollAt, pollRead>>

syncableStateSnapshots ==
    {"SCHEDULED", "ACTIVE", "CLOSED", "KEY_REVEAL_PENDING"}

NoSnapshot == [e \in Elections |-> NoRow]

PollTypeOK ==
    /\ pollPc \in [Polls -> {"idle", "index", "upsert", "reconcile", "update"}]
    /\ pollTodo \in [Polls -> SUBSET Elections]
    /\ pollSnap \in [Polls -> [Elections -> OnchainElectionState \cup {NoRow}]]
    /\ pollAt \in [Polls -> Elections \cup {-1}]
    /\ pollRead \in [Polls -> Scheduled..Cancelled]
    /\ \A p \in Polls : pollPc[p] \in {"upsert", "update"} => pollAt[p] \in Elections

PollInit ==
    /\ pollPc = [p \in Polls |-> "idle"]
    /\ pollTodo = [p \in Polls |-> {}]
    /\ pollSnap = [p \in Polls |-> NoSnapshot]
    /\ pollAt = [p \in Polls |-> -1]
    /\ pollRead = [p \in Polls |-> Scheduled]

\* The poll is over, or has thrown.
PollRests(p) ==
    /\ pollPc' = [pollPc EXCEPT ![p] = "idle"]
    /\ pollTodo' = [pollTodo EXCEPT ![p] = {}]
    /\ pollSnap' = [pollSnap EXCEPT ![p] = NoSnapshot]
    /\ pollAt' = [pollAt EXCEPT ![p] = -1]
    /\ pollRead' = [pollRead EXCEPT ![p] = Scheduled]

\* The poll goes back to its loop at pc.
BackToLoop(p, pc) ==
    /\ pollPc' = [pollPc EXCEPT ![p] = pc]
    /\ pollAt' = [pollAt EXCEPT ![p] = -1]
    /\ pollRead' = [pollRead EXCEPT ![p] = Scheduled]
    /\ UNCHANGED <<pollTodo, pollSnap>>

\* The loop over the snapshot has turned to e, which it does once.
Visited(p, e) ==
    /\ pollTodo' = [pollTodo EXCEPT ![p] = @ \ {e}]
    /\ pollSnap' = [pollSnap EXCEPT ![p][e] = NoRow]

-----------------------------------------------------------------------------
\* A tick of the timer.  range is the set of elections whose creation logs the
\* poll will visit: all that have no row yet (the cursor never passes a log that
\* was not stored) and any others it scans again, after a restart, behind an
\* overlapping poll, or in the lookback of reconcilePreparedElections.
PollStart(p) ==
    /\ pollPc[p] = "idle"
    /\ \E range \in SUBSET Elections :
          /\ {e \in Elections : ~Indexed(e)} \subseteq range
          /\ pollTodo' = [pollTodo EXCEPT ![p] = range]
    /\ pollPc' = [pollPc EXCEPT ![p] = "index"]
    /\ UNCHANGED <<chainVars, faults, dbVars, pollSnap, pollAt, pollRead>>

\* indexElection: the contract reads.
IndexRead(p, e) ==
    /\ pollPc[p] = "index"
    /\ e \in pollTodo[p]
    /\ pollTodo' = [pollTodo EXCEPT ![p] = @ \ {e}]
    /\ pollAt' = [pollAt EXCEPT ![p] = e]
    /\ pollRead' = [pollRead EXCEPT ![p] = stored[e]]
    /\ pollPc' = [pollPc EXCEPT ![p] = "upsert"]
    /\ UNCHANGED <<chainVars, faults, dbVars, pollSnap>>

\* indexElection: the upsert overwrites the state of a row that exists.
IndexUpsert(p) ==
    /\ pollPc[p] = "upsert"
    /\ dbState' = [dbState EXCEPT ![pollAt[p]] = MapOnchainStateToDbState(pollRead[p])]
    /\ BackToLoop(p, "index")
    /\ UNCHANGED <<chainVars, faults, isStateSyncing, isRevealed>>

\* Mutant of ReconcileStart: a closed election is taken for a settled one.
ReconcileStart_SkipsClosed(p) ==
    /\ pollPc[p] = "index"
    /\ pollTodo[p] = {}
    /\ pollTodo' = [pollTodo EXCEPT ![p] =
                       {e \in Elections : dbState[e] \notin {"CLOSED", "CANCELLED", NoRow}}]
    /\ pollSnap' = [pollSnap EXCEPT ![p] = dbState]
    /\ pollPc' = [pollPc EXCEPT ![p] = "reconcile"]
    /\ UNCHANGED <<chainVars, faults, dbVars, pollAt, pollRead>>

\* reconcileOnchainElectionStates: findMany.
ReconcileStart(p) ==
    /\ pollPc[p] = "index"
    /\ pollTodo[p] = {}
    /\ pollTodo' = [pollTodo EXCEPT ![p] =
                       {e \in Elections : dbState[e] \notin {"CANCELLED", NoRow}}]
    /\ pollSnap' = [pollSnap EXCEPT ![p] = dbState]
    /\ pollPc' = [pollPc EXCEPT ![p] = "reconcile"]
    /\ UNCHANGED <<chainVars, faults, dbVars, pollAt, pollRead>>

\* The simulated syncState() agrees with the snapshot: nothing to store.
SimulateAgrees(p, e) ==
    /\ pollPc[p] = "reconcile"
    /\ e \in pollTodo[p]
    /\ MapOnchainStateToDbState(SyncResult(e)) = pollSnap[p][e]
    /\ Visited(p, e)
    /\ UNCHANGED <<chainVars, faults, dbVars, pollPc, pollAt, pollRead>>

\* It differs from the snapshot: an update is on its way.
SimulateDiffers(p, e) ==
    /\ pollPc[p] = "reconcile"
    /\ e \in pollTodo[p]
    /\ MapOnchainStateToDbState(SyncResult(e)) # pollSnap[p][e]
    /\ Visited(p, e)
    /\ pollAt' = [pollAt EXCEPT ![p] = e]
    /\ pollRead' = [pollRead EXCEPT ![p] = SyncResult(e)]
    /\ pollPc' = [pollPc EXCEPT ![p] = "update"]
    /\ UNCHANGED <<chainVars, faults, dbVars>>

\* Mutant of ReconcileUpdate: the row is refreshed and no transaction requested.
ReconcileUpdate_NoRequest(p) ==
    /\ pollPc[p] = "update"
    /\ dbState' = [dbState EXCEPT ![pollAt[p]] = MapOnchainStateToDbState(pollRead[p])]
    /\ BackToLoop(p, "reconcile")
    /\ UNCHANGED <<chainVars, faults, isStateSyncing, isRevealed>>

ReconcileUpdate(p) ==
    /\ pollPc[p] = "update"
    /\ LET mappedState == MapOnchainStateToDbState(pollRead[p])
       IN  /\ dbState' = [dbState EXCEPT ![pollAt[p]] = mappedState]
           /\ isStateSyncing' = [isStateSyncing EXCEPT ![pollAt[p]] =
                                    mappedState \in syncableStateSnapshots]
    /\ BackToLoop(p, "reconcile")
    /\ UNCHANGED <<chainVars, faults, isRevealed>>

PollEnd(p) ==
    /\ pollPc[p] = "reconcile"
    /\ pollTodo[p] = {}
    /\ PollRests(p)
    /\ UNCHANGED <<chainVars, faults, dbVars>>

\* A throw while indexing ends the poll.
PollFails(p) ==
    /\ pollPc[p] \in {"index", "upsert"}
    /\ Fault
    /\ PollRests(p)
    /\ UNCHANGED <<chainVars, dbVars>>

\* A throw in the reconcile loop is caught per election.
ReconcileFails(p) ==
    /\ Fault
    /\ \/ /\ pollPc[p] = "update"
          /\ BackToLoop(p, "reconcile")
       \/ /\ pollPc[p] = "reconcile"
          /\ \E e \in pollTodo[p] : Visited(p, e)
          /\ UNCHANGED <<pollPc, pollAt, pollRead>>
    /\ UNCHANGED <<chainVars, dbVars>>

\* What a poll does once it has started, unless a call fails.
PollProceeds(p) ==
    \/ \E e \in Elections :
          IndexRead(p, e) \/ SimulateAgrees(p, e) \/ SimulateDiffers(p, e)
    \/ IndexUpsert(p)
    \/ ReconcileStart(p)
    \/ ReconcileUpdate(p)
    \/ PollEnd(p)

PollStep(p) ==
    \/ PollStart(p)
    \/ PollProceeds(p)
    \/ PollFails(p)
    \/ ReconcileFails(p)
=============================================================================
