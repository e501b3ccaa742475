------------------------------- MODULE LogIndexer -------------------------------
(***************************************************************************)
(* ElectionIndexerService.pollOnce and the three cursors.  A poll reads    *)
(* the latest block once and then, stage by stage, scans the factory's     *)
(* logs, the private votes and the open votes from the cursor of the stage *)
(* to that block, moves the cursor behind it and persists it; two more     *)
(* stages scan the last Lookback blocks again.  Nothing stops a poll from  *)
(* starting while another is under way, and a throw ends a poll wherever   *)
(* it is.  Every await is a step of its own.                               *)
(***************************************************************************)
EXTENDS EventLogs

CONSTANTS
    Poison,         \* logs whose handler throws each time it meets them
    Lookback,       \* INDEXER_RECONCILE_LOOKBACK_BLOCKS
    Polls,          \* the polls that may overlap
    MaxFaults,      \* bound on failed calls
    MaxCrashes      \* bound on restarts of the process

ASSUME IndexerAssumption ==
    /\ Poison \subseteq Logs
    /\ Lookback \in Nat
    /\ MaxFaults \in Nat
    /\ MaxCrashes \in Nat

VARIABLES
    head,           \* the latest block of the chain
    rows,           \* logs with a row: onchain_elections, *_vote_submissions
    ballots,        \* private votes with a row in decrypted_ballots
    saved,          \* the persisted cursors, NoCursor where there is none
    cursor,         \* current*FromBlock, NoCursor (null) until they are loaded
    pollPc,         \* where each poll is within its stage
    pollStage,
    pollLatest,     \* the latest block the poll read when it started
    pollFrom,       \* the first block of its scan
    pollTodo,       \* the logs of the scan it has not handled
    pollAt,         \* the private vote it is processing
    faults,
    crashes

dbVars == <<rows, ballots, saved>>
pollVars == <<pollPc, pollStage, pollLatest, pollFrom, pollTodo, pollAt>>
vars == <<head, dbVars, cursor, pollVars, faults, crashes>>

NoCursor == -1
NoLog == "no log"

\* Each stream of logs has a cursor; the two lookback stages have none.
Streams == {"election", "private", "open"}
Stages == Streams \cup {"prepared", "pending"}

NextStage(s) ==
    CASE s = "election" -> "private"
      [] s = "private"  -> "open"
      [] s = "open"     -> "prepared"
      [] s = "prepared" -> "pending"

LogsOf(s) ==
    CASE s \in {"election", "prepared"} -> ElectionLogs
      [] s \in {"private", "pending"}   -> PrivateVotes
      [] s = "open"                     -> OpenVotes

\* The handling of a log is complete.
Done(l) == l \in rows /\ (l \in PrivateVotes => l \in ballots)

TypeOK ==
    /\ head \in 0..MaxBlock
    /\ rows \subseteq Logs
    /\ ballots \subseteq PrivateVotes
    /\ saved \in [Streams -> Nat \cup {NoCursor}]
    /\ cursor \in [Streams -> Nat \cup {NoCursor}]
    /\ pollPc \in [Polls -> {"idle", "range", "fetch", "scan", "ballot", "persist"}]
    /\ pollStage \in [Polls -> Stages]
    /\ pollLatest \in [Polls -> 0..MaxBlock]
    /\ pollFrom \in [Polls -> Nat]
    /\ pollTodo \in [Polls -> SUBSET Logs]
    /\ pollAt \in [Polls -> PrivateVotes \cup {NoLog}]
    /\ \A p \in Polls : pollPc[p] = "ballot" => pollAt[p] \in PrivateVotes
    /\ faults \in 0..MaxFaults
    /\ crashes \in 0..MaxCrashes

Init ==
    /\ head = 0
    /\ rows = {}
    /\ ballots = {}
    /\ saved = [s \in Streams |-> NoCursor]
    /\ cursor = [s \in Streams |-> NoCursor]
    /\ pollPc = [p \in Polls |-> "idle"]
    /\ pollStage = [p \in Polls |-> "election"]
    /\ pollLatest = [p \in Polls |-> 0]
    /\ pollFrom = [p \in Polls |-> 0]
    /\ pollTodo = [p \in Polls |-> {}]
    /\ pollAt = [p \in Polls |-> NoLog]
    /\ faults = 0
    /\ crashes = 0

-----------------------------------------------------------------------------
(***************************************************************************)
(* The chain and the process.                                              *)
(***************************************************************************)

NewBlock ==
    /\ head < MaxBlock
    /\ head' = head + 1
    /\ UNCHANGED <<dbVars, cursor, pollVars, faults, crashes>>

\* initializeCursorAndPoll: the persisted cursors, or else the start block.
LoadCursors ==
    /\ \A s \in Streams : cursor[s] = NoCursor
    /\ cursor' = [s \in Streams |-> IF saved[s] = NoCursor THEN StartBlock ELSE saved[s]]
    /\ UNCHANGED <<head, dbVars, pollVars, faults, crashes>>

\* The process dies and starts again: the cursors in memory are lost.
Crash ==
    /\ crashes < MaxCrashes
    /\ crashes' = crashes + 1
    /\ cursor' = [s \in Streams |-> NoCursor]
    /\ pollPc' = [p \in Polls |-> "idle"]
    /\ pollStage' = [p \in Polls |-> "election"]
    /\ pollLatest' = [p \in Polls |-> 0]
    /\ pollFrom' = [p \in Polls |-> 0]
    /\ pollTodo' = [p \in Polls |-> {}]
    /\ pollAt' = [p \in Polls |-> NoLog]
    /\ UNCHANGED <<head, dbVars, faults>>

-----------------------------------------------------------------------------
(***************************************************************************)
(* The frame of a poll.                                                    *)
(***************************************************************************)

\* A poll is over, or has thrown.
Rests(p) ==
    /\ pollPc' = [pollPc EXCEPT ![p] = "idle"]
    /\ pollStage' = [pollStage EXCEPT ![p] = "election"]
    /\ pollLatest' = [pollLatest EXCEPT ![p] = 0]
    /\ pollFrom' = [pollFrom EXCEPT ![p] = 0]
    /\ pollTodo' = [pollTodo EXCEPT ![p] = {}]
    /\ pollAt' = [pollAt EXCEPT ![p] = NoLog]

\* The poll turns to its next stage; after the last one it is over (the
\* reconciliation of states that follows is StateReconciler's).
TurnsToNextStage(p) ==
    IF pollStage[p] = "pending"
    THEN Rests(p)
    ELSE /\ pollPc' = [pollPc EXCEPT ![p] = "range"]
         /\ pollStage' = [pollStage EXCEPT ![p] = NextStage(@)]
         /\ pollFrom' = [pollFrom EXCEPT ![p] = 0]
         /\ UNCHANGED <<pollLatest, pollTodo, pollAt>>

\* A tick of the timer, or the first poll after the cursors were loaded.
PollStart(p) ==
    /\ pollPc[p] = "idle"
    /\ \A s \in Streams : cursor[s] # NoCursor
    /\ pollLatest' = [pollLatest EXCEPT ![p] = head]
    /\ pollPc' = [pollPc EXCEPT ![p] = "range"]
    /\ UNCHANGED <<head, dbVars, cursor, pollStage, pollFrom, pollTodo, pollAt, faults, crashes>>

\* Mutant of RangeStart: the lookback reaches below the first block.
RangeStart_BelowZero(p) ==
    IF pollStage[p] \in Streams THEN cursor[pollStage[p]] ELSE pollLatest[p] - Lookback

\* The first block of the stage's scan.
RangeStart(p) ==
    IF pollStage[p] \in Streams THEN cursor[pollStage[p]]
    ELSE IF pollLatest[p] > Lookback THEN pollLatest[p] - Lookback ELSE 0

\* Does the stage scan at all?  (Whether some draft is PREPARED is left open.)
MayScan(p) ==
    CASE pollStage[p] \in Streams  -> cursor[pollStage[p]] <= pollLatest[p]
      [] pollStage[p] = "prepared" -> TRUE
      [] pollStage[p] = "pending"  -> rows \cap PrivateVotes # ballots

EnterStage(p) ==
    /\ pollPc[p] = "range"
    /\ MayScan(p)
    /\ pollFrom' = [pollFrom EXCEPT ![p] = RangeStart(p)]
    /\ pollPc' = [pollPc EXCEPT ![p] = "fetch"]
    /\ UNCHANGED <<head, dbVars, cursor, pollStage, pollLatest, pollTodo, pollAt, faults, crashes>>

SkipStage(p) ==
    /\ pollPc[p] = "range"
    /\ pollStage[p] = "prepared" \/ ~MayScan(p)
    /\ TurnsToNextStage(p)
    /\ UNCHANGED <<head, dbVars, cursor, faults, crashes>>

\* Mutant of FetchLogs: the first block of the range is left out.
FetchLogs_ExclusiveStart(p) ==
    /\ pollPc[p] = "fetch"
    /\ pollTodo' = [pollTodo EXCEPT ![p] =
          {l \in LogsOf(pollStage[p]) :
              /\ pollFrom[p] < BlockOf[l] /\ BlockOf[l] <= pollLatest[p]
              /\ l \in Votes => ElectionOf[l] \in rows}]
    /\ pollPc' = [pollPc EXCEPT ![p] = "scan"]
    /\ UNCHANGED <<head, dbVars, cursor, pollStage, pollLatest, pollFrom, pollAt, faults, crashes>>

\* The rows of the elections of the stage's visibility, then getLogs for their
\* addresses (for the factory's, in the stages that index elections).
FetchLogs(p) ==
    /\ pollPc[p] = "fetch"
    /\ pollTodo' = [pollTodo EXCEPT ![p] =
          {l \in LogsOf(pollStage[p]) :
              /\ pollFrom[p] <= BlockOf[l] /\ BlockOf[l] <= pollLatest[p]
              /\ l \in Votes => ElectionOf[l] \in rows}]
    /\ pollPc' = [pollPc EXCEPT ![p] = "scan"]
    /\ UNCHANGED <<head, dbVars, cursor, pollStage, pollLatest, pollFrom, pollAt, faults, crashes>>

-----------------------------------------------------------------------------
(***************************************************************************)
(* The loop over the logs, in block order.                                 *)
(***************************************************************************)

NextLog(p, l) ==
    /\ pollPc[p] = "scan"
    /\ l \in pollTodo[p]
    /\ \A m \in pollTodo[p] : BlockOf[l] <= BlockOf[m]

\* The hash check fails: the log is skipped.
SkipLog(p, l) ==
    /\ NextLog(p, l)
    /\ l \in Rejected
    /\ pollTodo' = [pollTodo EXCEPT ![p] = @ \ {l}]
    /\ UNCHANGED <<head, dbVars, cursor, pollPc, pollStage, pollLatest, pollFrom, pollAt,
                   faults, crashes>>

\* indexElection, or the upsert of a submission by its transaction hash.  A private
\* vote without a decrypted ballot is processed next.
StoreLog(p, l) ==
    /\ NextLog(p, l)
    /\ l \notin Rejected \cup Poison
    /\ rows' = rows \cup {l}
    /\ pollTodo' = [pollTodo EXCEPT ![p] = @ \ {l}]
    /\ IF l \in PrivateVotes \ ballots
       THEN /\ pollPc' = [pollPc EXCEPT ![p] = "ballot"]
            /\ pollAt' = [pollAt EXCEPT ![p] = l]
       ELSE UNCHANGED <<pollPc, pollAt>>
    /\ UNCHANGED <<head, ballots, saved, cursor, pollStage, pollLatest, pollFrom, faults, crashes>>

\* processSubmission commits a decrypted ballot.  The tally that it recomputes afterwards, as
\* each visit to a vote does, may throw on its unique index when polls overlap, with no call
\* failing: such a clash is one of the PollFails here, within MaxFaults.
StoreBallot(p) ==
    /\ pollPc[p] = "ballot"
    /\ ballots' = ballots \cup {pollAt[p]}
    /\ pollPc' = [pollPc EXCEPT ![p] = "scan"]
    /\ pollAt' = [pollAt EXCEPT ![p] = NoLog]
    /\ UNCHANGED <<head, rows, saved, cursor, pollStage, pollLatest, pollFrom, pollTodo,
                   faults, crashes>>

\* Another poll has committed a ballot for the submission since this one saw none:
\* the unique index makes the second create throw.
LosesRace(p) ==
    /\ pollPc[p] = "ballot"
    /\ pollAt[p] \in ballots
    /\ Rests(p)
    /\ UNCHANGED <<head, dbVars, cursor, faults, crashes>>

\* The handler of the log throws whenever it runs.
MeetsPoison(p) ==
    /\ \E l \in Poison \ Rejected : NextLog(p, l)
    /\ Rests(p)
    /\ UNCHANGED <<head, dbVars, cursor, faults, crashes>>

\* A call to the node or to the database fails.
PollFails(p) ==
    /\ pollPc[p] # "idle"
    /\ faults < MaxFaults
    /\ faults' = faults + 1
    /\ Rests(p)
    /\ UNCHANGED <<head, dbVars, cursor, crashes>>

-----------------------------------------------------------------------------
(***************************************************************************)
(* The end of a stage.                                                     *)
(***************************************************************************)

\* Mutant of MoveCursor: the latest block is read again for the new cursor.
MoveCursor_ToHead(p) ==
    /\ pollPc[p] = "scan"
    /\ pollTodo[p] = {}
    /\ pollStage[p] \in Streams
    /\ cursor' = [cursor EXCEPT ![pollStage[p]] = head + 1]
    /\ pollPc' = [pollPc EXCEPT ![p] = "persist"]
    /\ UNCHANGED <<head, dbVars, pollStage, pollLatest, pollFrom, pollTodo, pollAt,
                   faults, crashes>>

\* current*FromBlock = latestBlock + 1n, whatever it has become meanwhile.
MoveCursor(p) ==
    /\ pollPc[p] = "scan"
    /\ pollTodo[p] = {}
    /\ pollStage[p] \in Streams
    /\ cursor' = [cursor EXCEPT ![pollStage[p]] = pollLatest[p] + 1]
    /\ pollPc' = [pollPc EXCEPT ![p] = "persist"]
    /\ UNCHANGED <<head, dbVars, pollStage, pollLatest, pollFrom, pollTodo, pollAt,
                   faults, crashes>>

PersistCursor(p) ==
    /\ pollPc[p] = "persist"
    /\ saved' = [saved EXCEPT ![pollStage[p]] = pollLatest[p] + 1]
    /\ TurnsToNextStage(p)
    /\ UNCHANGED <<head, rows, ballots, cursor, faults, crashes>>

EndLookback(p) ==
    /\ pollPc[p] = "scan"
    /\ pollTodo[p] = {}
    /\ pollStage[p] \notin Streams
    /\ TurnsToNextStage(p)
    /\ UNCHANGED <<head, dbVars, cursor, faults, crashes>>

\* What a poll does, unless a call fails.
PollProceeds(p) ==
    \/ PollStart(p)
    \/ EnterStage(p)
    \/ SkipStage(p)
    \/ FetchLogs(p)
    \/ \E l \in Logs : SkipLog(p, l) \/ StoreLog(p, l)
    \/ StoreBallot(p)
    \/ LosesRace(p)
    \/ MeetsPoison(p)
    \/ MoveCursor(p)
    \/ PersistCursor(p)
    \/ EndLookback(p)

Next ==
    \/ NewBlock
    \/ LoadCursors
    \/ Crash
    \/ \E p \in Polls : PollProceeds(p) \/ PollFails(p)

Spec == Init /\ [][Next]_vars

\* setInterval keeps starting polls and every await ends; blocks, failures and
\* crashes come as they like.
Fairness ==
    /\ WF_vars(LoadCursors)
    /\ \A p \in Polls : WF_vars(PollProceeds(p))

FairSpec == Spec /\ Fairness

-----------------------------------------------------------------------------
(***************************************************************************)
(* Properties.                                                             *)
(***************************************************************************)

\* Whatever a cursor has passed has been handled completely, and so has whatever
\* the persisted cursor has passed: a restart, a poll that ran behind a faster one
\* and moved the cursor back, or a poll that died half way leaves no log behind.
CursorsPassOnlyDoneLogs ==
    \A s \in Streams : \A l \in LogsOf(s) \cap Wanted :
        BlockOf[l] < cursor[s] \/ BlockOf[l] < saved[s] => Done(l)

\* The logs whose handling is complete are the ingested logs of LogIngestion.
Ingestion == INSTANCE LogIngestion WITH ingested <- {l \in rows : Done(l)}

\* The polls implement the promise of LogIngestion: each log is taken in once, a
\* vote after its election, and every wanted log of a mined block in the end.
IngestsEveryLog == Ingestion!Spec

\* A log the indexer cannot handle costs no other log its place in the tables:
\* every other wanted log of a mined block is stored in the end.
PoisonIsContained ==
    \A l \in Wanted \ Poison : head >= BlockOf[l] ~> Done(l)
=============================================================================
