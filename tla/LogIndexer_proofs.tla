--------------------------- MODULE LogIndexer_proofs ---------------------------
(***************************************************************************)
(* Theorems about LogIndexer, for any logs, any chain, any number of       *)
(* overlapping polls, failures and crashes.                                *)
(***************************************************************************)
EXTENDS LogIndexer, TLAPS

-----------------------------------------------------------------------------
(***************************************************************************)
(* The inductive invariant.                                                *)
(***************************************************************************)

\* Every wanted log of the stage before block b is handled.
DoneBelow(s, b) == \A l \in LogsOf(s) \cap Wanted : BlockOf[l] < b => Done(l)

\* A poll at rest will begin with the first stage, and polls do not start before the
\* cursors are loaded; only a stage with a cursor moves it; and nothing is read beyond
\* the head of the chain.
IsWhereItMayBe(p) ==
    /\ pollPc[p] = "idle" => pollStage[p] = "election"
    /\ pollPc[p] # "idle" => \A s \in Streams : cursor[s] # NoCursor
    /\ pollPc[p] = "persist" => pollStage[p] \in Streams
    /\ pollLatest[p] <= head

\* What a poll has still to handle is mined, and a vote's election has its row.
TodoMayBeIngested(p) ==
    /\ \A l \in pollTodo[p] :
          BlockOf[l] <= pollLatest[p] /\ (l \in Votes => ElectionOf[l] \in rows)
    /\ pollPc[p] = "ballot" =>
          /\ pollAt[p] \in rows /\ ElectionOf[pollAt[p]] \in rows
          /\ BlockOf[pollAt[p]] <= pollLatest[p]

\* Past the first stage all elections up to the poll's latest block have rows: the scan
\* of votes, which asks for the elections with rows, misses none.
ElectionsCameFirst(p) ==
    pollStage[p] # "election" => DoneBelow("election", pollLatest[p] + 1)

\* A poll scans from a block its stream was done up to, and forgets no log of the range.
ScanIsComplete(p) ==
    pollStage[p] \in Streams =>
        /\ pollPc[p] \in {"fetch", "scan", "ballot"} => DoneBelow(pollStage[p], pollFrom[p])
        /\ pollPc[p] \in {"scan", "ballot"} => \A l \in LogsOf(pollStage[p]) \cap Wanted :
              BlockOf[l] <= pollLatest[p] =>
                  Done(l) \/ l \in pollTodo[p] \/ (pollPc[p] = "ballot" /\ l = pollAt[p])
        /\ pollPc[p] = "persist" => DoneBelow(pollStage[p], pollLatest[p] + 1)

PollInv(p) ==
    IsWhereItMayBe(p) /\ TodoMayBeIngested(p) /\ ElectionsCameFirst(p) /\ ScanIsComplete(p)

IndexerInv ==
    /\ TypeOK
    /\ CursorsPassOnlyDoneLogs
    /\ \A p \in Polls : PollInv(p)

-----------------------------------------------------------------------------
(***************************************************************************)
(* Type correctness.                                                       *)
(***************************************************************************)

\* The logs of a stage are logs.
LEMMA StageLogs ==
    ASSUME NEW s \in Stages
    PROVE  LogsOf(s) \subseteq Logs
BY DEF LogsOf, Stages, Streams, Logs, Votes

\* The blocks of logs are numbers.
LEMMA Blocks == \A l \in Logs : BlockOf[l] \in Nat /\ BlockOf[l] <= MaxBlock
BY LogAssumption

\* A poll that rests or turns to its next stage has variables of their types.
LEMMA TurningTyped ==
    ASSUME TypeOK, NEW p \in Polls, TurnsToNextStage(p) \/ Rests(p)
    PROVE  /\ pollPc' \in [Polls -> {"idle", "range", "fetch", "scan", "ballot", "persist"}]
           /\ pollStage' \in [Polls -> Stages]
           /\ pollLatest' \in [Polls -> 0..MaxBlock]
           /\ pollFrom' \in [Polls -> Nat]
           /\ pollTodo' \in [Polls -> SUBSET Logs]
           /\ pollAt' \in [Polls -> PrivateVotes \cup {NoLog}]
           /\ \A q \in Polls : pollPc'[q] = "ballot" => pollAt'[q] \in PrivateVotes
<1> USE DEF TypeOK
<1>1. MaxBlock \in Nat
  BY LogAssumption
<1>2. CASE Rests(p)
  BY <1>1, <1>2 DEF Rests, Stages, Streams
<1>3. CASE TurnsToNextStage(p) /\ pollStage[p] # "pending"
  <2>1. NextStage(pollStage[p]) \in Stages
    BY <1>3 DEF NextStage, Stages, Streams
  <2> QED
    BY <1>3, <2>1 DEF TurnsToNextStage
<1> QED
  BY <1>2, <1>3 DEF TurnsToNextStage

\* The chain and the process keep the types.
LEMMA EnvironmentTyped ==
    ASSUME TypeOK, NewBlock \/ LoadCursors \/ Crash
    PROVE  TypeOK'
<1> USE LogAssumption, IndexerAssumption DEF TypeOK, dbVars, pollVars
<1>1. CASE NewBlock
  BY <1>1 DEF NewBlock
<1>2. CASE LoadCursors
  BY <1>2 DEF LoadCursors
<1>3. CASE Crash
  BY <1>3 DEF Crash, Stages, Streams
<1> QED
  BY <1>1, <1>2, <1>3

\* A poll keeps them.
LEMMA PollTyped ==
    ASSUME TypeOK, NEW p \in Polls, IsWhereItMayBe(p), PollProceeds(p) \/ PollFails(p)
    PROVE  TypeOK'
<1> USE LogAssumption DEF TypeOK, dbVars
<1>1. CASE PollStart(p)
  BY <1>1 DEF PollStart
<1>2. CASE EnterStage(p)
  <2>1. pollStage[p] \in Streams => cursor[pollStage[p]] \in Nat
    BY <1>2 DEF EnterStage, IsWhereItMayBe
  <2>2. RangeStart(p) \in Nat
    BY <2>1, IndexerAssumption DEF RangeStart
  <2> QED
    BY <1>2, <2>2 DEF EnterStage
<1>3. CASE SkipStage(p) \/ EndLookback(p)
  BY <1>3, TurningTyped DEF SkipStage, EndLookback
<1>4. CASE LosesRace(p) \/ MeetsPoison(p)
  BY <1>4, TurningTyped DEF LosesRace, MeetsPoison
<1>5. CASE PollFails(p)
  BY <1>5, TurningTyped, IndexerAssumption DEF PollFails
<1>6. CASE FetchLogs(p)
  BY <1>6, StageLogs DEF FetchLogs
<1>7. ASSUME NEW l \in Logs, SkipLog(p, l)
      PROVE  TypeOK'
  BY <1>7 DEF SkipLog, NextLog
<1>8. ASSUME NEW l \in Logs, StoreLog(p, l)
      PROVE  TypeOK'
  BY <1>8 DEF StoreLog, NextLog
<1>9. CASE StoreBallot(p)
  BY <1>9 DEF StoreBallot
<1>10. CASE MoveCursor(p)
  BY <1>10 DEF MoveCursor
<1>11. CASE PersistCursor(p)
  <2>1. TurnsToNextStage(p)
    BY <1>11 DEF PersistCursor
  <2>2. pollLatest[p] + 1 \in Nat
    OBVIOUS
  <2>3. saved' = [saved EXCEPT ![pollStage[p]] = pollLatest[p] + 1]
    BY <1>11 DEF PersistCursor
  <2>4. saved' \in [Streams -> Nat \cup {NoCursor}]
    BY <2>2, <2>3
  <2> QED
    BY <1>11, <2>1, <2>4, TurningTyped DEF PersistCursor
<1> QED
  BY <1>1, <1>2, <1>3, <1>4, <1>5, <1>6, <1>7, <1>8, <1>9, <1>10, <1>11 DEF PollProceeds

-----------------------------------------------------------------------------
(***************************************************************************)
(* What is handled stays handled.                                          *)
(***************************************************************************)

\* Rows and ballots are only added, and the chain only grows.
LEMMA TablesGrow ==
    ASSUME TypeOK, [Next]_vars
    PROVE  rows \subseteq rows' /\ ballots \subseteq ballots' /\ head <= head'
<1> USE DEF dbVars, vars
<1>1. CASE UNCHANGED vars
  BY <1>1, LogAssumption DEF TypeOK
<1>2. CASE NewBlock
  BY <1>2, LogAssumption DEF NewBlock, TypeOK
<1>3. CASE LoadCursors \/ Crash
  BY <1>3, LogAssumption DEF LoadCursors, Crash, TypeOK
<1>4. ASSUME NEW p \in Polls, PollProceeds(p) \/ PollFails(p)
      PROVE  rows \subseteq rows' /\ ballots \subseteq ballots' /\ head <= head'
  <2>1. head' = head /\ rows \subseteq rows' /\ ballots \subseteq ballots'
    BY <1>4 DEF PollProceeds, PollFails, PollStart, EnterStage, SkipStage, FetchLogs, SkipLog,
                StoreLog, StoreBallot, LosesRace, MeetsPoison, MoveCursor, PersistCursor,
                EndLookback
  <2> QED
    BY <2>1, LogAssumption DEF TypeOK
<1> QED
  BY <1>1, <1>2, <1>3, <1>4 DEF Next

\* A log that is handled stays so, and a block below which all are.
LEMMA DoneStays ==
    ASSUME TypeOK, [Next]_vars
    PROVE  /\ \A l : Done(l) => Done(l)'
           /\ \A s, b : DoneBelow(s, b) =>
                 \A l \in LogsOf(s) \cap Wanted : BlockOf[l] < b => Done(l)'
<1>1. \A l : Done(l) => Done(l)'
  BY TablesGrow DEF Done
<1> QED
  BY <1>1 DEF DoneBelow

-----------------------------------------------------------------------------
(***************************************************************************)
(* The invariant of a poll is kept while it does nothing ...               *)
(***************************************************************************)

\* Other polls, the chain and the process do not disturb a poll, as long as they leave
\* it its variables and do not unload the cursors.
LEMMA Undisturbed ==
    ASSUME TypeOK, TypeOK', [Next]_vars, NEW q \in Polls, PollInv(q),
           pollPc'[q] = pollPc[q], pollStage'[q] = pollStage[q], pollLatest'[q] = pollLatest[q],
           pollFrom'[q] = pollFrom[q], pollTodo'[q] = pollTodo[q], pollAt'[q] = pollAt[q],
           \A s \in Streams : cursor[s] # NoCursor => cursor'[s] # NoCursor
    PROVE  PollInv(q)'
<1> USE TablesGrow, DoneStays DEF PollInv
<1>1. IsWhereItMayBe(q)'
  <2>1. pollLatest[q] \in Nat /\ head \in Nat /\ head' \in Nat
    BY LogAssumption DEF TypeOK
  <2> QED
    BY <2>1 DEF IsWhereItMayBe
<1>2. TodoMayBeIngested(q)'
  BY DEF TodoMayBeIngested
<1>3. ElectionsCameFirst(q)'
  BY DEF ElectionsCameFirst, DoneBelow
<1>4. ScanIsComplete(q)'
  BY DEF ScanIsComplete, DoneBelow
<1> QED
  BY <1>1, <1>2, <1>3, <1>4

-----------------------------------------------------------------------------
(***************************************************************************)
(* ... and by each of its own steps.                                       *)
(***************************************************************************)

\* A poll that is over remembers nothing.
LEMMA RestingInv ==
    ASSUME TypeOK, TypeOK', NEW p \in Polls, Rests(p)
    PROVE  PollInv(p)'
<1>1. /\ pollPc'[p] = "idle" /\ pollStage'[p] = "election" /\ pollLatest'[p] = 0
      /\ pollTodo'[p] = {}
  BY DEF Rests, TypeOK
<1>2. head' \in Nat /\ 0 <= head'
  BY LogAssumption DEF TypeOK
<1> QED
  BY <1>1, <1>2 DEF PollInv, IsWhereItMayBe, TodoMayBeIngested, ElectionsCameFirst, ScanIsComplete

\* A poll turns to the next stage when its elections are done up to its latest block.
LEMMA TurningInv ==
    ASSUME TypeOK, TypeOK', [Next]_vars, NEW p \in Polls, PollInv(p), pollPc[p] # "idle",
           TurnsToNextStage(p), UNCHANGED <<head, rows, ballots, cursor>>,
           pollStage[p] = "election" => DoneBelow("election", pollLatest[p] + 1)
    PROVE  PollInv(p)'
<1>1. CASE Rests(p)
  BY <1>1, RestingInv
<1>2. CASE ~Rests(p)
  <2>1. /\ pollPc'[p] = "range" /\ pollLatest'[p] = pollLatest[p]
        /\ pollTodo'[p] = pollTodo[p]
    BY <1>2 DEF TurnsToNextStage, TypeOK
  <2>2. DoneBelow("election", pollLatest[p] + 1)
    BY DEF PollInv, ElectionsCameFirst
  <2>3. ElectionsCameFirst(p)'
    BY <2>1, <2>2 DEF ElectionsCameFirst, DoneBelow, Done
  <2> QED
    BY <2>1, <2>3 DEF PollInv, IsWhereItMayBe, TodoMayBeIngested, ScanIsComplete
<1> QED
  BY <1>1, <1>2

\* The beginning of a poll and of a stage: the scan begins at the stage's cursor, below
\* which all is done; a stage is skipped when its cursor is beyond the latest block.
LEMMA StageBegins ==
    ASSUME IndexerInv, TypeOK', [Next]_vars, NEW p \in Polls,
           PollStart(p) \/ EnterStage(p) \/ SkipStage(p)
    PROVE  PollInv(p)'
<1>0. TypeOK /\ PollInv(p) /\ head \in Nat /\ pollLatest[p] \in Nat
  BY LogAssumption DEF IndexerInv, TypeOK
<1>1. CASE PollStart(p)
  <2>1. /\ pollPc[p] = "idle" /\ pollStage'[p] = pollStage[p] /\ pollPc'[p] = "range"
        /\ pollLatest'[p] = head /\ pollTodo'[p] = pollTodo[p]
        /\ UNCHANGED <<head, rows, ballots, cursor>>
    BY <1>0, <1>1 DEF PollStart, TypeOK, dbVars
  <2>2. IsWhereItMayBe(p)'
    BY <1>0, <1>1, <2>1 DEF PollStart, PollInv, IsWhereItMayBe
  <2>3. TodoMayBeIngested(p)'
    <3>1. \A l \in pollTodo[p] : BlockOf[l] \in Nat
      BY <1>0, Blocks DEF TypeOK
    <3> QED
      BY <1>0, <2>1, <3>1 DEF PollInv, IsWhereItMayBe, TodoMayBeIngested
  <2>4. ElectionsCameFirst(p)' /\ ScanIsComplete(p)'
    BY <1>0, <2>1 DEF PollInv, IsWhereItMayBe, ElectionsCameFirst, ScanIsComplete
  <2> QED
    BY <2>2, <2>3, <2>4 DEF PollInv
<1>2. CASE EnterStage(p)
  <2>1. /\ pollStage'[p] = pollStage[p] /\ pollPc'[p] = "fetch" /\ pollFrom'[p] = RangeStart(p)
        /\ pollLatest'[p] = pollLatest[p] /\ pollTodo'[p] = pollTodo[p]
        /\ pollPc[p] = "range"
        /\ UNCHANGED <<head, rows, ballots, cursor>>
    BY <1>0, <1>2 DEF EnterStage, TypeOK, dbVars
  <2>2. pollStage[p] \in Streams => DoneBelow(pollStage[p], RangeStart(p))
    BY DEF IndexerInv, CursorsPassOnlyDoneLogs, DoneBelow, RangeStart
  <2>3. ElectionsCameFirst(p)' /\ ScanIsComplete(p)'
    BY <1>0, <2>1, <2>2 DEF PollInv, ElectionsCameFirst, ScanIsComplete, DoneBelow, Done
  <2> QED
    BY <1>0, <2>1, <2>3 DEF PollInv, IsWhereItMayBe, TodoMayBeIngested
<1>3. CASE SkipStage(p)
  <2>1. ASSUME pollStage[p] = "election"
        PROVE  DoneBelow("election", pollLatest[p] + 1)
    <3>1. cursor["election"] \in Nat /\ cursor["election"] > pollLatest[p]
      BY <1>0, <1>3, <2>1 DEF SkipStage, MayScan, Streams, PollInv, IsWhereItMayBe, TypeOK
    <3>2. DoneBelow("election", cursor["election"])
      BY DEF IndexerInv, CursorsPassOnlyDoneLogs, DoneBelow, Streams
    <3>3. \A l \in LogsOf("election") : BlockOf[l] \in Nat
      BY Blocks, StageLogs DEF Stages, Streams
    <3> QED
      BY <1>0, <3>1, <3>2, <3>3 DEF DoneBelow
  <2> QED
    BY <1>0, <1>3, <2>1, TurningInv DEF SkipStage, dbVars
<1> QED
  BY <1>1, <1>2, <1>3

\* A wanted vote is not rejected and its election is wanted.
LEMMA WantedVotes ==
    \A v \in Votes \cap Wanted :
        /\ v \notin Rejected
        /\ ElectionOf[v] \in LogsOf("election") \cap Wanted
        /\ BlockOf[ElectionOf[v]] <= BlockOf[v]
        /\ BlockOf[v] >= StartBlock
<1> SUFFICES ASSUME NEW v \in Votes \cap Wanted
             PROVE  /\ v \notin Rejected
                    /\ ElectionOf[v] \in LogsOf("election") \cap Wanted
                    /\ BlockOf[ElectionOf[v]] <= BlockOf[v]
                    /\ BlockOf[v] >= StartBlock
  OBVIOUS
<1>1. v \notin ElectionLogs /\ ElectionOf[v] \in ElectionLogs
  BY LogAssumption
<1>2. v \notin Rejected /\ BlockOf[ElectionOf[v]] >= StartBlock
  BY <1>1 DEF Wanted
<1>3. LogsOf("election") = ElectionLogs
  BY DEF LogsOf
<1>4. v \in Logs /\ ElectionOf[v] \in Logs
  BY <1>1 DEF Logs
<1>5. BlockOf[v] \in Nat /\ BlockOf[ElectionOf[v]] \in Nat /\ StartBlock \in Nat
  BY <1>4, Blocks, LogAssumption
<1>6. BlockOf[ElectionOf[v]] <= BlockOf[v]
  BY LogAssumption
<1>7. ElectionOf[v] \in Wanted
  BY <1>1, <1>2 DEF Wanted
<1> QED
  BY <1>1, <1>2, <1>3, <1>5, <1>6, <1>7

\* The stages with a cursor, and which of them have votes.
LEMMA VoteStages ==
    ASSUME NEW s \in Streams
    PROVE  s # "election" => LogsOf(s) \subseteq Votes
BY DEF LogsOf, Streams, Votes

\* A scan asks for all it has to handle: an earlier log is done, and a vote whose election
\* has no row yet is not wanted.
LEMMA FetchInv ==
    ASSUME IndexerInv, TypeOK', [Next]_vars, NEW p \in Polls, FetchLogs(p)
    PROVE  PollInv(p)'
<1>0. TypeOK /\ PollInv(p) /\ pollLatest[p] \in Nat /\ pollFrom[p] \in Nat
  BY LogAssumption DEF IndexerInv, TypeOK
<1> DEFINE found == {l \in LogsOf(pollStage[p]) :
                        /\ pollFrom[p] <= BlockOf[l] /\ BlockOf[l] <= pollLatest[p]
                        /\ l \in Votes => ElectionOf[l] \in rows}
<1>1. /\ pollPc[p] = "fetch" /\ pollPc'[p] = "scan" /\ pollTodo'[p] = found
      /\ pollStage'[p] = pollStage[p] /\ pollLatest'[p] = pollLatest[p]
      /\ pollFrom'[p] = pollFrom[p] /\ UNCHANGED <<head, rows, ballots, cursor>>
  BY <1>0 DEF FetchLogs, TypeOK, dbVars
<1>2. IsWhereItMayBe(p)' /\ TodoMayBeIngested(p)'
  BY <1>0, <1>1 DEF PollInv, IsWhereItMayBe, TodoMayBeIngested
<1>3. ElectionsCameFirst(p)'
  BY <1>0, <1>1 DEF PollInv, ElectionsCameFirst, DoneBelow, Done
<1>4. ASSUME pollStage[p] \in Streams, NEW l \in LogsOf(pollStage[p]) \cap Wanted,
             BlockOf[l] <= pollLatest[p], ~Done(l)
      PROVE  l \in found
  <2>1. l \in Logs /\ BlockOf[l] \in Nat
    BY <1>4, Blocks, StageLogs DEF Stages
  <2>2. pollFrom[p] <= BlockOf[l]
    BY <1>0, <1>1, <1>4, <2>1 DEF PollInv, ScanIsComplete, DoneBelow
  <2>3. ASSUME l \in Votes
        PROVE  ElectionOf[l] \in rows
    <3>1. pollStage[p] # "election"
      BY <1>4, <2>3, LogAssumption DEF LogsOf
    <3>2. DoneBelow("election", pollLatest[p] + 1)
      BY <1>0, <3>1 DEF PollInv, ElectionsCameFirst
    <3>3. /\ ElectionOf[l] \in LogsOf("election") \cap Wanted
          /\ BlockOf[ElectionOf[l]] <= BlockOf[l]
      BY <1>4, <2>3, WantedVotes
    <3>4. BlockOf[ElectionOf[l]] \in Nat
      BY <3>3, Blocks, StageLogs DEF Stages, Streams
    <3> QED
      BY <1>0, <1>4, <2>1, <3>2, <3>3, <3>4 DEF DoneBelow, Done
  <2> QED
    BY <1>4, <2>2, <2>3
<1>5. ScanIsComplete(p)'
  BY <1>0, <1>1, <1>4 DEF PollInv, ScanIsComplete, DoneBelow, Done
<1> QED
  BY <1>2, <1>3, <1>5 DEF PollInv

\* A log leaves the scan when it is handled, or was not wanted.
LEMMA HandlingInv ==
    ASSUME IndexerInv, TypeOK', [Next]_vars, NEW p \in Polls,
           NEW l \in Logs, SkipLog(p, l) \/ StoreLog(p, l)
    PROVE  PollInv(p)'
<1>0. TypeOK /\ PollInv(p)
  BY DEF IndexerInv
<1>1. /\ pollPc[p] = "scan" /\ l \in pollTodo[p] /\ pollTodo'[p] = pollTodo[p] \ {l}
      /\ pollStage'[p] = pollStage[p] /\ pollLatest'[p] = pollLatest[p]
      /\ pollFrom'[p] = pollFrom[p] /\ UNCHANGED <<head, ballots, cursor>>
  BY <1>0 DEF SkipLog, StoreLog, NextLog, TypeOK, dbVars
<1>2. CASE SkipLog(p, l)
  <2>1. pollPc'[p] = "scan" /\ rows' = rows
    BY <1>1, <1>2 DEF SkipLog, dbVars
  <2>2. l \notin Wanted
    BY <1>2, WantedVotes, LogAssumption DEF SkipLog
  <2>3. ScanIsComplete(p)'
    BY <1>0, <1>1, <2>1, <2>2 DEF PollInv, ScanIsComplete, DoneBelow, Done
  <2> QED
    BY <1>0, <1>1, <2>1, <2>3, DoneStays
    DEF PollInv, IsWhereItMayBe, TodoMayBeIngested, ElectionsCameFirst, DoneBelow
<1>3. CASE StoreLog(p, l)
  <2>1. /\ rows' = rows \cup {l}
        /\ IF l \in PrivateVotes \ ballots
           THEN pollPc'[p] = "ballot" /\ pollAt'[p] = l
           ELSE pollPc'[p] = "scan"
    BY <1>0, <1>1, <1>3 DEF StoreLog, TypeOK
  <2>2. TodoMayBeIngested(p)'
    BY <1>0, <1>1, <2>1 DEF PollInv, TodoMayBeIngested, Votes
  <2>3. Done(l)' \/ (pollPc'[p] = "ballot" /\ pollAt'[p] = l)
    BY <1>1, <2>1 DEF Done
  <2>4. ScanIsComplete(p)'
    BY <1>0, <1>1, <2>1, <2>3, DoneStays DEF PollInv, ScanIsComplete, DoneBelow
  <2> QED
    BY <1>0, <1>1, <2>1, <2>2, <2>4, DoneStays
    DEF PollInv, IsWhereItMayBe, ElectionsCameFirst, DoneBelow
<1> QED
  BY <1>2, <1>3

\* A ballot completes the handling of its vote.
LEMMA BallotInv ==
    ASSUME IndexerInv, TypeOK', [Next]_vars, NEW p \in Polls, StoreBallot(p)
    PROVE  PollInv(p)'
<1>0. TypeOK /\ PollInv(p)
  BY DEF IndexerInv
<1>1. /\ pollPc[p] = "ballot" /\ pollPc'[p] = "scan" /\ pollTodo'[p] = pollTodo[p]
      /\ pollStage'[p] = pollStage[p] /\ pollLatest'[p] = pollLatest[p]
      /\ pollFrom'[p] = pollFrom[p] /\ UNCHANGED <<head, rows, cursor>>
      /\ ballots' = ballots \cup {pollAt[p]}
  BY <1>0 DEF StoreBallot, TypeOK
<1>2. \A l : l = pollAt[p] => Done(l)'
  BY <1>0, <1>1 DEF PollInv, TodoMayBeIngested, Done
<1>3. ScanIsComplete(p)'
  BY <1>0, <1>1, <1>2, DoneStays DEF PollInv, ScanIsComplete, DoneBelow
<1> QED
  BY <1>0, <1>1, <1>3, DoneStays
  DEF PollInv, IsWhereItMayBe, TodoMayBeIngested, ElectionsCameFirst, DoneBelow

\* At the end of its scan a stage is done up to the poll's latest block.
LEMMA StageEnds ==
    ASSUME IndexerInv, NEW p \in Polls, MoveCursor(p)
    PROVE  DoneBelow(pollStage[p], pollLatest[p] + 1)
<1>1. ASSUME NEW l \in LogsOf(pollStage[p]) \cap Wanted, BlockOf[l] < pollLatest[p] + 1
      PROVE  Done(l)
  <2>1. l \in Logs
    BY <1>1, StageLogs DEF MoveCursor, Stages
  <2>2. BlockOf[l] <= pollLatest[p]
    BY <1>1, <2>1, Blocks, LogAssumption DEF IndexerInv, TypeOK
  <2> QED
    BY <2>2 DEF MoveCursor, IndexerInv, PollInv, ScanIsComplete
<1> QED
  BY <1>1 DEF DoneBelow

\* The cursor moves behind it, in memory and then in the database.
LEMMA CursorInv ==
    ASSUME IndexerInv, TypeOK', [Next]_vars, NEW p \in Polls,
           MoveCursor(p) \/ PersistCursor(p) \/ EndLookback(p)
    PROVE  PollInv(p)'
<1>0. TypeOK /\ PollInv(p)
  BY DEF IndexerInv
<1>1. CASE MoveCursor(p)
  <2>1. /\ pollPc[p] = "scan" /\ pollPc'[p] = "persist" /\ pollTodo'[p] = pollTodo[p]
        /\ pollStage[p] \in Streams
        /\ pollStage'[p] = pollStage[p] /\ pollLatest'[p] = pollLatest[p]
        /\ UNCHANGED <<head, rows, ballots>>
    BY <1>0, <1>1 DEF MoveCursor, TypeOK, dbVars
  <2>2. \A s \in Streams : cursor[s] # NoCursor => cursor'[s] # NoCursor
    BY <1>0, <1>1, LogAssumption DEF MoveCursor, TypeOK, NoCursor
  <2>3. ScanIsComplete(p)'
    BY <1>1, <2>1, StageEnds DEF ScanIsComplete, DoneBelow, Done
  <2> QED
    BY <1>0, <2>1, <2>2, <2>3
    DEF PollInv, IsWhereItMayBe, TodoMayBeIngested, ElectionsCameFirst, DoneBelow, Done
<1>2. CASE PersistCursor(p)
  BY <1>0, <1>2, TurningInv DEF PersistCursor, PollInv, ScanIsComplete, Streams
<1>3. CASE EndLookback(p)
  BY <1>0, <1>3, TurningInv DEF EndLookback, dbVars, Streams
<1> QED
  BY <1>1, <1>2, <1>3

\* Whatever a poll does, it keeps its own invariant.
LEMMA StepInv ==
    ASSUME IndexerInv, TypeOK', [Next]_vars, NEW p \in Polls, PollProceeds(p) \/ PollFails(p)
    PROVE  PollInv(p)'
<1>0. TypeOK
  BY DEF IndexerInv
<1>1. CASE LosesRace(p) \/ MeetsPoison(p) \/ PollFails(p)
  BY <1>0, <1>1, RestingInv DEF LosesRace, MeetsPoison, PollFails
<1>2. CASE PollStart(p) \/ EnterStage(p) \/ SkipStage(p)
  BY <1>2, StageBegins
<1>3. CASE FetchLogs(p)
  BY <1>3, FetchInv
<1>4. CASE \E l \in Logs : SkipLog(p, l) \/ StoreLog(p, l)
  BY <1>4, HandlingInv
<1>5. CASE StoreBallot(p)
  BY <1>5, BallotInv
<1>6. CASE MoveCursor(p) \/ PersistCursor(p) \/ EndLookback(p)
  BY <1>6, CursorInv
<1> QED
  BY <1>1, <1>2, <1>3, <1>4, <1>5, <1>6 DEF PollProceeds

\* A poll leaves the variables of the others alone.
LEMMA PollsAreApart ==
    ASSUME TypeOK, NEW p \in Polls, PollProceeds(p) \/ PollFails(p), NEW q \in Polls \ {p}
    PROVE  /\ pollPc'[q] = pollPc[q] /\ pollStage'[q] = pollStage[q]
           /\ pollLatest'[q] = pollLatest[q] /\ pollFrom'[q] = pollFrom[q]
           /\ pollTodo'[q] = pollTodo[q] /\ pollAt'[q] = pollAt[q]
           /\ \A s \in Streams : cursor[s] # NoCursor => cursor'[s] # NoCursor
<1> USE DEF TypeOK, dbVars
<1>1. CASE MoveCursor(p)
  BY <1>1, LogAssumption DEF MoveCursor, NoCursor
<1>2. CASE ~MoveCursor(p)
  BY <1>2 DEF PollProceeds, PollFails, PollStart, EnterStage, SkipStage, FetchLogs, SkipLog,
              StoreLog, StoreBallot, LosesRace, MeetsPoison, PersistCursor, EndLookback,
              TurnsToNextStage, Rests
<1> QED
  BY <1>1, <1>2

-----------------------------------------------------------------------------
(***************************************************************************)
(* The invariant.                                                          *)
(***************************************************************************)

\* No step moves a cursor, in memory or in the database, past a log that is not done.
LEMMA CursorsNext ==
    ASSUME IndexerInv, TypeOK', [Next]_vars
    PROVE  CursorsPassOnlyDoneLogs'
<1> USE DoneStays DEF IndexerInv
<1>1. CASE cursor' = cursor /\ saved' = saved
  BY <1>1 DEF CursorsPassOnlyDoneLogs
<1>2. CASE LoadCursors
  <2>1. ASSUME NEW s \in Streams, NEW l \in LogsOf(s) \cap Wanted
        PROVE  BlockOf[l] >= StartBlock /\ BlockOf[l] \in Nat
    <3>1. l \in Logs
      BY <2>1, StageLogs DEF Stages
    <3>2. CASE l \in Votes
      BY <2>1, <3>1, <3>2, WantedVotes, Blocks
    <3>3. CASE l \notin Votes
      BY <2>1, <3>1, <3>3, Blocks DEF Wanted
    <3> QED
      BY <3>2, <3>3
  <2>2. \A s \in Streams : saved' = saved
                           /\ (cursor'[s] = saved[s] \/ cursor'[s] = StartBlock)
    BY <1>2 DEF LoadCursors, dbVars
  <2>3. ASSUME NEW s \in Streams, NEW l \in LogsOf(s) \cap Wanted,
               BlockOf[l] < cursor'[s] \/ BlockOf[l] < saved'[s]
        PROVE  Done(l)'
    <3>1. BlockOf[l] < saved[s]
      BY <2>1, <2>2, <2>3, LogAssumption
    <3> QED
      BY <2>3, <3>1 DEF CursorsPassOnlyDoneLogs
  <2> QED
    BY <2>3 DEF CursorsPassOnlyDoneLogs
<1>3. CASE Crash
  <2>1. saved' = saved /\ \A s \in Streams : cursor'[s] = -1
    BY <1>3 DEF Crash, dbVars, NoCursor
  <2>2. ASSUME NEW s \in Streams, NEW l \in LogsOf(s)
        PROVE  BlockOf[l] \in Nat
    BY <2>2, StageLogs, Blocks DEF Stages
  <2> QED
    BY <2>1, <2>2 DEF CursorsPassOnlyDoneLogs
<1>4. ASSUME NEW p \in Polls, MoveCursor(p)
      PROVE  CursorsPassOnlyDoneLogs'
  <2>1. DoneBelow(pollStage[p], pollLatest[p] + 1)
    BY <1>4, StageEnds
  <2>2. /\ saved' = saved
        /\ \A s \in Streams : cursor'[s] = cursor[s]
                              \/ (s = pollStage[p] /\ cursor'[s] = pollLatest[p] + 1)
    BY <1>4 DEF MoveCursor, dbVars, TypeOK
  <2> QED
    BY <2>1, <2>2 DEF CursorsPassOnlyDoneLogs, DoneBelow
<1>5. ASSUME NEW p \in Polls, PersistCursor(p)
      PROVE  CursorsPassOnlyDoneLogs'
  <2>1. DoneBelow(pollStage[p], pollLatest[p] + 1)
    BY <1>5 DEF PersistCursor, PollInv, ScanIsComplete, IsWhereItMayBe
  <2>2. /\ cursor' = cursor
        /\ \A s \in Streams : saved'[s] = saved[s]
                              \/ (s = pollStage[p] /\ saved'[s] = pollLatest[p] + 1)
    BY <1>5 DEF PersistCursor, TypeOK
  <2> QED
    BY <2>1, <2>2 DEF CursorsPassOnlyDoneLogs, DoneBelow
<1>6. ASSUME NEW p \in Polls, PollProceeds(p) \/ PollFails(p),
             ~MoveCursor(p), ~PersistCursor(p)
      PROVE  cursor' = cursor /\ saved' = saved
  BY <1>6 DEF PollProceeds, PollFails, PollStart, EnterStage, SkipStage, FetchLogs, SkipLog,
              StoreLog, StoreBallot, LosesRace, MeetsPoison, EndLookback, dbVars
<1>7. CASE NewBlock \/ UNCHANGED vars
  BY <1>1, <1>7 DEF NewBlock, vars, dbVars
<1> QED
  BY <1>1, <1>2, <1>3, <1>4, <1>5, <1>6, <1>7 DEF Next

\* The cursors begin where nothing is behind them.
LEMMA IndexerInvInit == Init => IndexerInv
<1> SUFFICES ASSUME Init
             PROVE  IndexerInv
  OBVIOUS
<1>1. TypeOK
  BY LogAssumption, IndexerAssumption DEF Init, TypeOK, Stages, Streams
<1>2. CursorsPassOnlyDoneLogs
  <2>1. \A s \in Streams : cursor[s] = -1 /\ saved[s] = -1
    BY DEF Init, NoCursor
  <2>2. ASSUME NEW s \in Streams, NEW l \in LogsOf(s)
        PROVE  BlockOf[l] \in Nat
    BY <2>2, StageLogs, Blocks DEF Stages
  <2> QED
    BY <2>1, <2>2 DEF CursorsPassOnlyDoneLogs
<1>3. ASSUME NEW p \in Polls
      PROVE  PollInv(p)
  BY DEF Init, PollInv, IsWhereItMayBe, TodoMayBeIngested, ElectionsCameFirst, ScanIsComplete
<1> QED
  BY <1>1, <1>2, <1>3 DEF IndexerInv

\* Every step keeps the invariant.
LEMMA IndexerInvNext == IndexerInv /\ [Next]_vars => IndexerInv'
<1> SUFFICES ASSUME IndexerInv, [Next]_vars
             PROVE  IndexerInv'
  OBVIOUS
<1>0. TypeOK /\ \A p \in Polls : PollInv(p) /\ IsWhereItMayBe(p)
  BY DEF IndexerInv, PollInv
<1>1. CASE UNCHANGED vars
  BY <1>0, <1>1
  DEF vars, dbVars, pollVars, IndexerInv, TypeOK, CursorsPassOnlyDoneLogs, Done, PollInv,
      IsWhereItMayBe, TodoMayBeIngested, ElectionsCameFirst, ScanIsComplete, DoneBelow
<1>2. CASE NewBlock \/ LoadCursors
  <2>1. TypeOK'
    BY <1>0, <1>2, EnvironmentTyped
  <2>2. /\ UNCHANGED pollVars
        /\ \A s \in Streams : cursor[s] # NoCursor => cursor'[s] # NoCursor
    BY <1>2 DEF NewBlock, LoadCursors
  <2>3. \A p \in Polls : PollInv(p)'
    BY <1>0, <2>1, <2>2, Undisturbed DEF pollVars
  <2> QED
    BY <2>1, <2>3, CursorsNext DEF IndexerInv
<1>3. CASE Crash
  <2>1. TypeOK'
    BY <1>0, <1>3, EnvironmentTyped
  <2>2. head' \in Nat /\ 0 <= head'
    BY <2>1, LogAssumption DEF TypeOK
  <2>3. ASSUME NEW p \in Polls
        PROVE  PollInv(p)'
    BY <1>3, <2>2
    DEF Crash, PollInv, IsWhereItMayBe, TodoMayBeIngested, ElectionsCameFirst, ScanIsComplete
  <2> QED
    BY <2>1, <2>3, CursorsNext DEF IndexerInv
<1>4. ASSUME NEW p \in Polls, PollProceeds(p) \/ PollFails(p)
      PROVE  IndexerInv'
  <2>1. TypeOK'
    BY <1>0, <1>4, PollTyped
  <2>2. PollInv(p)'
    BY <1>4, <2>1, StepInv
  <2>3. ASSUME NEW q \in Polls \ {p}
        PROVE  PollInv(q)'
    BY <1>0, <1>4, <2>1, PollsAreApart, Undisturbed
  <2> QED
    BY <2>1, <2>2, <2>3, CursorsNext DEF IndexerInv
<1> QED
  BY <1>1, <1>2, <1>3, <1>4 DEF Next

\* What polls remember of their scans fits the tables, whatever other polls do meanwhile.
THEOREM IndexerInvariant == Spec => []IndexerInv
BY IndexerInvInit, IndexerInvNext, PTL DEF Spec

\* The variables keep their types; no lookback reaches below block 0.
THEOREM TypeCorrectness == Spec => []TypeOK
<1>1. IndexerInv => TypeOK
  BY DEF IndexerInv
<1> QED
  BY <1>1, IndexerInvariant, PTL

\* No cursor of pollOnce, in memory or persisted, passes a log that was not handled: for
\* any number of overlapping polls, failed calls and restarts.
THEOREM NoLogIsPassed == Spec => []CursorsPassOnlyDoneLogs
<1>1. IndexerInv => CursorsPassOnlyDoneLogs
  BY DEF IndexerInv
<1> QED
  BY <1>1, IndexerInvariant, PTL

-----------------------------------------------------------------------------
(***************************************************************************)
(* Each step of the indexer is a step of LogIngestion, or none.            *)
(***************************************************************************)

ingested == {l \in rows : Done(l)}

\* What makes the completion of a log a step of LogIngestion.
LEMMA IngestStep ==
    ASSUME NEW l \in Logs, l \notin ingested, BlockOf[l] <= head, head' = head,
           l \in Votes => ElectionOf[l] \in ingested,
           ingested' = ingested \cup {l}
    PROVE  Ingestion!Next
<1>1. Ingestion!Votes = Votes /\ Ingestion!Logs = Logs
  BY DEF Ingestion!Votes, Ingestion!Logs, Votes, Logs
<1>2. Ingestion!Ingest(l)
  BY <1>1 DEF Ingestion!Ingest, ingested
<1> QED
  BY <1>1, <1>2 DEF Ingestion!Next

\* A step that completes the handling of a log completes that of no other, and of a log
\* the chain has, of an election that was indexed before.
LEMMA IngestsOne ==
    ASSUME IndexerInv, [Next]_vars
    PROVE  [Ingestion!Next]_<<head, ingested>>
<1>0. TypeOK /\ \A p \in Polls : PollInv(p)
  BY DEF IndexerInv
<1>1. CASE NewBlock
  BY <1>1 DEF NewBlock, dbVars, ingested, Done, Ingestion!Next, Ingestion!NewBlock
<1>2. CASE LoadCursors \/ Crash \/ UNCHANGED vars
  BY <1>2 DEF LoadCursors, Crash, vars, dbVars, ingested, Done
<1>3. \A e \in ElectionLogs \cap rows : e \in ingested
  BY LogAssumption DEF ingested, Done, Votes
<1>4. ASSUME NEW p \in Polls, NEW l \in Logs, StoreLog(p, l)
      PROVE  [Ingestion!Next]_<<head, ingested>>
  <2>1. /\ head' = head /\ rows' = rows \cup {l} /\ ballots' = ballots
        /\ l \in pollTodo[p]
    BY <1>4 DEF StoreLog, NextLog
  <2>2. BlockOf[l] <= pollLatest[p] /\ pollLatest[p] <= head
        /\ (l \in Votes => ElectionOf[l] \in rows)
    BY <1>0, <2>1 DEF PollInv, TodoMayBeIngested, IsWhereItMayBe
  <2>3. BlockOf[l] <= head
    BY <1>0, <2>2, Blocks, LogAssumption DEF TypeOK
  <2>4. l \in Votes => ElectionOf[l] \in ingested
    BY <1>3, <2>2, LogAssumption
  <2>5. ingested' = ingested \/ (l \notin ingested /\ ingested' = ingested \cup {l})
    BY <2>1 DEF ingested, Done
  <2>6. CASE ingested' = ingested
    BY <2>1, <2>6 DEF ingested
  <2>7. CASE l \notin ingested /\ ingested' = ingested \cup {l}
    <3>1. Ingestion!Next
      BY <2>1, <2>3, <2>4, <2>7, IngestStep
    <3> QED
      BY <3>1
  <2> QED
    BY <2>5, <2>6, <2>7
<1>5. ASSUME NEW p \in Polls, StoreBallot(p)
      PROVE  [Ingestion!Next]_<<head, ingested>>
  <2>0. PICK l \in PrivateVotes : l = pollAt[p]
    BY <1>0, <1>5 DEF StoreBallot, TypeOK
  <2>1. /\ head' = head /\ rows' = rows /\ ballots' = ballots \cup {l}
        /\ l \in PrivateVotes
    BY <2>0, <1>5 DEF StoreBallot
  <2>2. BlockOf[l] <= pollLatest[p] /\ pollLatest[p] <= head /\ ElectionOf[l] \in rows
    BY <1>0, <1>5, <2>0 DEF StoreBallot, PollInv, TodoMayBeIngested, IsWhereItMayBe
  <2>3. l \in Logs /\ BlockOf[l] <= head
    BY <1>0, <2>1, <2>2, Blocks, LogAssumption DEF TypeOK, Logs, Votes
  <2>4. ElectionOf[l] \in ingested
    BY <1>3, <2>1, <2>2, LogAssumption DEF Votes
  <2>5. ingested' = ingested \/ (l \notin ingested /\ ingested' = ingested \cup {l})
    BY <2>1 DEF ingested, Done
  <2>6. CASE ingested' = ingested
    BY <2>1, <2>6 DEF ingested
  <2>7. CASE l \notin ingested /\ ingested' = ingested \cup {l}
    <3>1. Ingestion!Next
      BY <2>1, <2>3, <2>4, <2>7, IngestStep
    <3> QED
      BY <3>1
  <2> QED
    BY <2>5, <2>6, <2>7
<1>6. ASSUME NEW p \in Polls, PollProceeds(p) \/ PollFails(p),
             ~StoreBallot(p), ~\E l \in Logs : StoreLog(p, l)
      PROVE  [Ingestion!Next]_<<head, ingested>>
  BY <1>6
  DEF PollProceeds, PollFails, PollStart, EnterStage, SkipStage, FetchLogs, SkipLog,
      LosesRace, MeetsPoison, MoveCursor, PersistCursor, EndLookback, dbVars, ingested, Done
<1> QED
  BY <1>1, <1>2, <1>4, <1>5, <1>6 DEF Next

\* The indexer implements the safety half of IngestsEveryLog: logs are taken in one by one,
\* each once, after its block is there and after its election, whatever polls overlap.
THEOREM StepsAreIngestions ==
    Spec => Ingestion!Init /\ [][Ingestion!Next]_<<head, ingested>>
<1>1. Init => Ingestion!Init
  BY DEF Init, Ingestion!Init
<1>2. IndexerInv /\ [Next]_vars => [Ingestion!Next]_<<head, ingested>>
  BY IngestsOne
<1> QED
  BY <1>1, <1>2, IndexerInvariant, PTL DEF Spec
=============================================================================
