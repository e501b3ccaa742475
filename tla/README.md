# VESTAr backend: TLA+ models and proofs

These modules specify the part of the VESTAr backend that keeps a PostgreSQL
database in step with election contracts on a chain: the event indexer, the two
workers that send transactions, the processing of encrypted ballots, the tables
derived from votes, the rows of elections and drafts, the verification of
organizers and the history of votes. The models are written from the TypeScript under
`src/src/`; paths below are relative to the repository's `src/src/modules/` unless they
start with `src/`.
`PROJECT.json` maps each definition to the lines it stands for.

## 1. The system

One Node process holds all services. They do not call each other much: they meet
in rows of the database and in the contracts. Nothing is locked; every `await` is
a place where any other service may run.

| component | state it keeps | operations | what makes it correct |
|---|---|---|---|
| Election contracts (external) | lifecycle state, revealed key | `state()`, `syncState()` (sent or simulated), `revealPrivateKey()`, `finalizeResult` | given |
| Log indexer `indexer/services/election-indexer.service.ts` | three cursors in memory and in `indexer_cursors`; rows of elections and votes | `pollOnce` from a timer: three scans, two lookbacks, state reconciliation | no log is lost or passed by a cursor; votes come after their election |
| Lifecycle snapshot (same file) | `onchain_elections.onchain_state`, `is_state_syncing` | `indexElection`, `reconcileOnchainElectionStates` | the row never runs ahead of what the contract can be synced to, and settles on it |
| State sync worker `state-sync-worker/` | `isRunning`, the rows it has selected | `runOnce`: send `syncState`, wait, read, store | every contract is moved over every boundary |
| Key reveal worker `key-reveal-worker/` | `isRunning`, `election_keys.is_revealed` | `runOnce`: check the contract, send the key, wait, mark | the key is published when due and never before; marked means published |
| Private ballot processor `vote-submissions/private-ballot-processor.service.ts` | `decrypted_ballots`, `invalid_ballots` | `processSubmission`, called by polls and by two endpoints | one valid ballot per wallet and period; the earlier vote wins; a refusal has a reason |
| Live tally `live-tally/` | `live_tally` | `recomputeForElection` after every vote | counts exactly the valid ballots |
| Finalized tally `finalized-tally/` | `finalized_tally` | `finalizeForElection`, from `indexElection` and `ensureFinalizedProjection` | counts valid votes only, and all that were decided before |
| Result summaries `result-summaries/` | `result_summaries` | `recomputeForElection`: two queries and an upsert | agree with the votes once all are processed |
| Election indexing (drafts, series, invalid rows), in the indexer | `election_drafts`, `election_series`, `invalid_onchain_elections` | the transaction of `indexElection` | a prepared draft is linked to the contract with its commitment, once |
| Private election preparation `private-elections/` | draft, key and series rows | `prepare` | one transaction |
| Verified organizers `verified-organizers/` | status row, registry contract | request, approve, reject | row and registry agree |
| Vote history `vote-submissions/vote-submissions.service.ts` | none | `findHistory`: two tables merged behind one cursor | no entry skipped or repeated |
| Elections, keys, ballots, admin users, uploads | rows | plain reads and writes | nothing beyond the database's own guarantees |

How they interact:

- A **poll** of the indexer stores `state()` when it indexes an election, and in
  its last stage stores what a *simulated* `syncState()` returns, together with
  `isStateSyncing`, which is the request to the sync worker.
- The **sync worker** selects rows with `isStateSyncing`, sends `syncState`, waits
  for the receipt, stores `state()` and clears the request. It also clears it when
  anything fails.
- The **reveal worker** selects rows that say `KEY_REVEAL_PENDING`, looks at the
  contract itself, sends the decrypted key and marks key and row.
- A poll that stores a private vote runs the **ballot processor** on it, which
  validates against the ballots already stored and then recomputes the **live
  tally**. The two endpoints run the same code on stored votes at any time.
- A poll that stores any vote recomputes **live tally** and **summary** of its
  election; one that meets an election as FINALIZED computes the **final tally**.
- **Preparation** writes a draft, its key and a series of its own; `indexElection`
  links the contract to it by the key's commitment hash and merges series.
- A decision about an **organizer** goes to the registry contract first and to the
  row afterwards.
- A client reads the **history** page by page while polls store further votes.

What is hard here: `setInterval` starts polls whether or not the last one has
ended (the workers have an `isRunning` guard, the indexer has none); every service
writes what it read some awaits earlier; a throw ends a poll between any two of
its writes; a failed call is a verdict in one place, a retry in another and a
dropped request in a third; a rejected promise nobody handles ends the process,
while its transactions are still mined. `PROJECT.json` lists each such hazard at
its line.

## 2. The modules

| module | what it models |
|---|---|
| `ElectionContract` | a contract as the services use it: `due` is what the clock calls for, `stored` what `state()` returns; boundaries, other people's transactions, and the mining of the backend's transactions |
| `ElectionStore` | the three columns the services share, and the mapping of states |
| `StateReconciler` | the polls' writes of the state column: index (read, upsert), reconcile (findMany, simulate, update), failures |
| `StateSyncWorker` | `runOnce`: select, send, wait and read, store, give up |
| `KeyRevealWorker` | `runOnce`: select, read the state, read the key, send, mark |
| `ElectionLifecycle` | the composition of the five above, a crash of the process, fairness, properties |
| `ElectionLifecycle_proofs` | theorems about `ElectionLifecycle` |
| `EventLogs` | the logs of the chain, as constants |
| `LogIngestion` | the abstract promise: logs are taken in one at a time, votes after elections, none is left out for ever |
| `LogIndexer` | `pollOnce`, its stages and cursors; implements `LogIngestion` |
| `BallotPolicy` | periods, window and the rule of one ballot per period |
| `BallotLedger` | the abstract promise: votes are decided one after another in chain order, each once, by the rule |
| `BallotProcessing` | `processSubmission` and the live tally under overlapping polls and endpoint calls; implements `BallotLedger` |
| `BallotProcessing_proofs`, `LogIndexer_proofs` | theorems about the two |
| `TallyProjection` | live tally, finalized tally and summary as polls and the two processing endpoints recompute them, over a chain of votes, verdicts that may be replaced and a finalization at any moment |
| `TallyProjection_proofs` | theorems about it: what the tables never hold |
| `TallySettling_proofs` | theorems about it: what the tables hold in the end |
| `VoteHistory` | `findHistory` and a client that follows its cursors, on top of `BallotProcessing`, whose steps store the private votes |
| `VoteHistory_proofs` | theorems about it |
| `ElectionIndexing` | `prepare`, and the look-up and transaction of `indexElection` over drafts, series, elections and invalid rows |
| `OrganizerVerification` | `request`, `approve`, `reject` against the registry contract |
| `Registration` | the two above side by side |
| `Registration_proofs` | theorems about them |
| `MC_*` | values of the constants for TLC |

### State and actions against the code

`ElectionLifecycle`. A poll is `pollPc`: `index` and `upsert` are the await of the
contract reads and of the transaction in `indexElection`; `reconcile` and `update` are
`simulateContract` and `update` in the loop of `reconcileOnchainElectionStates`.
`pollSnap` is the result of its `findMany`, against which the code compares even after
the row has changed; of an election the loop has visited (`Visited`) it is forgotten.
Which elections a poll indexes is left open (all without a row, and any others), because
cursors that move back and lookbacks make it visit old ones. `syncPc`/`revealPc` name
the await a worker is at, `idle` being `isRunning = false`. The reads of the reveal
worker are two steps, since `Promise.all` may resolve them at different blocks. A
pending transaction (`syncTx`, `revealTx`) belongs to the chain: it survives the process
and any failed wait. `keySent` is a history variable: the plain key has been put into a
transaction; `dropped` another: the sync worker has given up on the row since it last
stored its state; `reverted` a third: a reveal of the backend was mined and reverted for
a reason of its own, out of gas for one. What the column is used for by readers, the
timestamps and `lastStateSyncTxHash` are left out.

`LogIndexer`. `pollStage` runs through `election`, `private`, `open`, `prepared`
(the lookback over creation logs) and `pending` (the lookback over private votes).
`range`, `fetch`, `scan`, `ballot`, `persist` are the awaits of a stage. `cursor`
is the field of the service and `saved` the row; they are two variables because a
crash may fall between the two writes and because every poll reads the field when
its stage starts and overwrites it with its own `latestBlock + 1` when it ends. A
private vote is stored in two steps, the row and then the ballot; `Done` is both.
`Rejected` are logs the code skips after its hash check, `Poison` are logs whose
handler throws each time. Whether a draft is `PREPARED`, which decides on the
first lookback, is left open. A visit to a vote recomputes a tally; that this throws on
the unique index, when another poll recomputes the same one, is among the `PollFails`
here and bounded with them.

`BallotProcessing`. One election. `load`, `validate`, `clear`, `commit`, `count`,
`wipe`, `store` are the awaits of `processSubmission` and `recomputeForElection`;
`had` and `verdict` are what it remembers across them. The transaction runs at
PostgreSQL's READ COMMITTED: the deletion sees the rows committed when it starts
(`doomed`), `decrypted_ballots` has a unique key, so that of two transactions on
one submission one may roll back (`Rollback`), and `invalid_ballots` has none.
`live_tally` is the set of ballots its counts stand for. `pending` is the end
of a poll's scan, where it looks back at the last blocks if some submission has no
ballot yet; how far back is left open. Decryption and the checks
on the payload alone are the constant `Malformed`. A failed fetch or query inside
the validation is caught and becomes a verdict (`ValidateFails`); that this has
happened is the history variable `misjudged`. Any other failed call throws
(`Fails`).

`TallyProjection`. A tally is the set of votes its rows count, which determines its
numbers; `Listed` stands for the rows of zero votes a manifest gives. `stage` is
where a poll is in `pollOnce`, `step` the await within the visit to one vote or
election. A recompute reads (`counted`, `sums`) and writes some awaits later; the
two counts of a summary are two reads. Two transactions that replace the same tally
clash on the unique index, and the second throws. `load` and `decide` are the awaits of
`processSubmission`: what it loads (`had`) decides whether its transaction deletes a ballot
first, so two that process one vote either replace each other's verdict or lose the race
and throw. Every verdict is left open, each time anew: `BallotProcessing` says how they come
about, and that a failed fetch may turn one into another. An actor of `Polls` may be a
request to one of the two endpoints as well: one vote, decided or not, or those without a
ballot. Whether an election is private is chosen in the initial state. Four history
variables: `overlapped` (two recomputes of the election were under way at once),
`redecided` (the verdict of the vote was replaced by another), `abandoned` (an actor threw
between that and its recompute) and `validAtFinal`.

`VoteHistory`. `rows` are the two tables in the order of their ids, which are
independent sequences. `StartWalk` is the first request, `FirstQuery` the query
of the `Promise.all` that is answered first, `MergeAndSlice` the other one, the sort
and the cut. A page is the set of its items: the order of the sort (`ComesBefore`) is
total on the rows of both tables, so the set determines the list, a query's `take`
and the slice are the first rows of a set (`FirstOf`), and the cursor is its last item
(`LastOf`). The client asks again while `hasMore` holds and there is a cursor.
Limits are in halves, as a query string may hold a fraction.

`ElectionIndexing`. `begin` is the await of the look-ups of draft and existing
series, `link` the transaction, which runs as one step and either commits or leaves
nothing; `prepared` the lookback over prepared drafts. A series row is named by the
draft it was made for or by its on-chain id.

`OrganizerVerification`. One wallet, under several spellings. `save`, `send`, `wait`,
`store` are the awaits of a request or a decision; `sent` are the transactions of
the one signer in the order of their nonces, in which the chain executes them.
`alone` and `apart` are history variables: has the decision run undisturbed, and may
row and registry disagree. `Registration` explores the polls first and the requests
afterwards: the two halves share no table and no call, so their steps commute.

## 3. The runs

| run | instance | shows |
|---|---|---|
| `LifecycleSafety` | one private election, two polls, one failed call, reverted transaction or crash | `SnapshotNeverAhead`, `RowsAheadAreRequested`, `RevealedIsPublished`, `KeySentOnlyWhenPending` in every interleaving of two polls and both workers, around a restart too |
| `LifecycleLive` | one private election, one poll, one crash | `ChainCatchesUp`, `KeyGetsPublished`, `KeyGetsMarked`: a restart at any point loses no boundary and no key, as long as no call fails |
| `LifecycleOverlap` | one open election, two polls, one failed call or reverted transaction | `SnapshotConverges`: the row settles although stale states are written back |
| `RevealStuck` | as `LifecycleLive`, one failed call, no crash | violation of `KeyGetsPublished`, see below |
| `IndexerSafety` | two elections, a private and a poisonous vote, a rejected one, an open vote, three blocks, two polls, one crash, lookback 1 | `CursorsPassOnlyDoneLogs` |
| `IndexerRefines` | one election, two votes, two blocks, two polls, one failed call | `IngestsEveryLog`: the detailed indexer implements `LogIngestion`, its liveness included |
| `IndexerPoison` | one poisonous vote before a good one | violation of `PoisonIsContained`, see below |
| `BallotOverlap` | two votes of one wallet in one period, another's between them, two polls, one caller, two of the three at once, one failed call | `OneBallotUnlessMisjudged`, `EarlierVoteWins`, `RefusalsAreExplained`; `DecidesInChainOrder`: the processing implements `BallotLedger` |
| `BallotSingle` (of `VoteHistory`) | three private votes, one malformed, one after the end, and two open ones of one wallet; one poll, two failed calls; limits 0, 1/2 and 1, that is pages of two, no and one item | `LiveTallySettles` after any failure between a verdict and its tally; `PagesGoBack`, `WalkShowsEveryVote` |
| `TallyOverlap` | one election, private or open, two votes in two blocks; two polls, or a poll and a request; verdicts replaced by processing a vote again; one failed call; finalization at any moment after the votes | `TalliesSettle`, `FinalTallyKeepsDecidedVotes` |
| `Registration` | five contracts over three drafts and two series, one key used twice, two polls, one failed call; then two requests, two spellings, one failure | `RowsFitTogether`, `SeriesIdsArePermanent`, `RegistryAgrees` |
| `BallotsConcurrent` | two votes of one wallet, two polls, one failed call | violation of `OneValidBallotPerPeriod`, see below |

### Bounds

- *Elections*: one, two in the indexer. The services treat elections one after the
  other and share nothing between them but the loops; the theorems of section 5
  cover any number.
- *Polls*: two. Two is the least that overlaps; a third adds no new kind of pair.
  The theorems cover any number.
- *MaxFaults, MaxCrashes*: one, two where it is cheap. A failure may strike at
  every await of every actor, and one is enough for both failure findings. Liveness
  runs bound them because an endless failure makes no promise.
- *Blocks, votes*: three blocks and three votes are the least in which a cursor is
  moved back behind a vote that was scanned. Two rivals are the least that race for
  a ballot; their times are such that the time zone offset decides whether they
  share a period. Two votes are the least of which one may be counted late.
- *History*: the first open vote has the same position as a private one, the second
  does not; a page of one item ends between the former two, a page of two does not.
- *Drafts and contracts*: a private election joins the series of one without a
  draft, another one the series of a private election, so that series are merged
  and deleted while the other poll holds them; the last contract claims a draft
  that is taken.
- *Requests*: two, which is the least that overlaps.
- *Lookback*: one block, so that some logs are within and others out of reach.

The limits of the instances are those of time. Three runs have a state constraint; a
state outside it is checked and not followed:

- `TwoAtOnce` in `BallotOverlap`: of its three workers at most two are under way, in any
  pairing. All three at once over two votes pass too, but take five million states.
- `OneMishap` in `LifecycleSafety`: one failed call, one reverted transaction or one
  crash in a behaviour, each at any point. The theorems cover any number of each.
- `Followed` in `TallyOverlap`: of the two actors one at most is a request; the first vote
  is valid at first and the second invalid, until a verdict is replaced; and where
  recomputes have overlapped or one was abandoned, what follows has no request and no
  replaced verdict. With a second election or a third vote, too, the run would exceed ten
  million states; it has two million as it is, like `LifecycleSafety`.

Symmetry is used over polls, requests and spellings, in runs of invariants, of one
action property and of one refinement without fairness, never with liveness.

`CHECK_DEADLOCK FALSE` stands in `BallotOverlap` and `BallotsConcurrent` only: without
new votes and with nothing to scan there may be nothing left to do. In
`BallotSingle` there is always a client that may start again.

### Fairness

The code's timers (`setInterval`) never stop, so the start of a poll and of a pass
is weakly fair; an await that does not throw resolves, so is each further step of
a poll or worker; a transaction that was accepted is mined. Nothing is assumed of
the clock, of other people's transactions, of blocks, failures or crashes: the
liveness properties are of the form "once the clock has passed the boundary ...".

### What the violations show

- **`RevealStuck`**. The indexer writes the *simulated* state
  `KEY_REVEAL_PENDING` and the request in one update. If the sync worker then
  fails once (the node is away, the nonce is taken by the reveal worker, the
  receipt times out), its catch clears the request. The next polls compare the
  simulated state with the row, find them equal and ask for nothing. The contract
  stays before state 3, the reveal worker skips it, and the key is never
  published. At the earlier boundaries the next boundary repairs this; after the
  last one nothing does. `src/README.md:100` promises the opposite.
- **`IndexerPoison`**. `decodeFunctionData` throws when the transaction is not a
  call of the voting function (a vote cast through another contract), two lines
  before the test that would skip it. Each poll ends at that log again. Votes
  after it, and all later stages, wait for ever. `src/README.md:42`.
- **`BallotsConcurrent`**. A verdict is read and stored far apart. Poll 1 stores
  a transient error as the verdict of vote 1 and finds vote 2 of the wallet
  valid; poll 2, which had seen vote 1 without a ballot, validates it again
  before vote 2 is committed. Both are valid in an election of one ballot per
  wallet (`src/readme_img/Project Description.md:70`). It takes
  a failure that becomes a verdict: otherwise the order of processing protects the
  rule, which `BallotOverlap` checks and `BallotProcessing_proofs` proves.

## 4. The properties

- `SnapshotNeverAhead`: four writers store states they read earlier; still no row
  is ahead of what its contract could be synced to. The argument needs that
  contracts only move forward and that the reveal worker stores a *constant* state
  that is true once the transaction is mined. It is not when the transaction reverted for
  a reason of its own: `KEY_REVEALED` of such a marked key (`MarkedOnRevert`) is excepted.
- `RowsAheadAreRequested`: the indexer stores the state a transaction would lead to and
  compares with that row from then on, so the request (`isStateSyncing`) is all that is
  left of the difference. It survives overlapping polls, the worker's own late write and
  restarts; it is dropped only by the worker's catch, which is what `RevealStuck` shows
  the price of (such rows, and `MarkedOnRevert`, are excepted here). The worker must
  write an *older* state over a newer row when it takes the request off: the mutant that
  never moves a row back loses requests.
- `RevealedIsPublished`, `KeySentOnlyWhenPending`: relate what the workers did to
  what the contract had recorded, across steps of other actors in between. The worker
  does not look at the status of a receipt. When its reveal reverts because somebody else
  revealed first, the mark is right all the same; when it reverts for another reason
  (`reverted`), the mark is wrong, and the property excepts it.
- `SnapshotConverges`, `ChainCatchesUp`, `KeyGetsPublished`: liveness of the
  request protocol between indexer and workers.
- `CursorsPassOnlyDoneLogs`, `IngestsEveryLog`: nothing is lost although cursors
  are moved by overlapping polls and persisted late.
- `KeyGetsMarked`: the marking follows the publication, though a stranger may reveal
  the key first. It excepts crashes and failures, after which the code never marks.
- `DecidesInChainOrder`: whatever overlaps, is processed twice, throws or rolls back, the
  verdicts come about as if one process decided the votes one after another in chain
  order, each once and by the ballots decided before it, until a failed call becomes a
  verdict; even then no ballot is taken back.
- `OneBallotUnlessMisjudged`, `EarlierVoteWins`, `RefusalsAreExplained`,
  `LiveTallySettles`: the ballot rules over concurrent check-then-act, roll backs
  and reprocessing. `OneValidBallotPerPeriod` without its premise is the finding above.
- `TalliesSettle`: tally and summary are right once nothing is under way, whatever failed
  and however often votes were processed, with two exceptions: recomputes overlapped
  (`overlapped` has the election: the older count may be written last), or an actor threw
  between replacing a verdict and its recompute (`abandoned`: the vote has a ballot and
  is behind the cursor, so nobody comes back to it). Either stays until the next vote.
  TLC finds the property violated without either exception.
- `FinalTallyKeepsDecidedVotes`: a final tally is computed once or several times, by
  any poll, from what is there; it counts valid votes only and none that was valid
  at the finalization is missing, except votes whose verdict was replaced (`redecided`):
  the tally may count them by either verdict. It is violated without the exception.
- `PagesGoBack`, `WalkShowsEveryVote`: no item twice, none missed, although the
  tables grow and are read at two moments; with one exception, an open vote at exactly
  the position (timestamp, block and id) of the private vote that a page ends with: ids
  are counted per table, and the cursor does not say which table it is of.
- `RowsFitTogether`, `SeriesIdsArePermanent`: what a poll has looked up before its
  transaction may have been moved or deleted by another one; still links agree, no
  draft is linked twice, no log is passed and no series that elections refer to is
  renamed or deleted.
- `RegistryAgrees`: row and registry agree whenever no decision is under way, unless
  a call failed, a transaction reverted or decisions overlapped since the last one
  that ran alone.

Each is broken by at least one plausible change of the code, kept as a `_Suffix`
definition before the one it mutates and listed under `mutants`.

## 5. What is proved

Each theorem holds for all values of the constants that satisfy the named ASSUMEs of
the modules, which TLC evaluates in the runs: any number of elections, votes, polls,
requests, failures and crashes.

| module | theorem | statement |
|---|---|---|
| `ElectionLifecycle_proofs` | `TypeCorrect` | `Spec => []TypeOK` |
| | `LifecycleInvariant` | `Spec => []LifecycleInv` |
| | `KeyStaysSecret` | `Spec => []KeySentOnlyWhenPending` |
| | `RevealInvariant` | `Spec => []RevealInv` |
| | `SnapshotBehindContract` | `Spec => []SnapshotNeverAhead` |
| | `MarkedKeysArePublished` | `Spec => []RevealedIsPublished` |
| | `RequestsAreKept` | `Spec => []RowsAheadAreRequested` |
| `LogIndexer_proofs` | `IndexerInvariant` | `Spec => []IndexerInv` |
| | `TypeCorrectness` | `Spec => []TypeOK` |
| | `NoLogIsPassed` | `Spec => []CursorsPassOnlyDoneLogs` |
| | `StepsAreIngestions` | `Spec => Ingestion!Init /\ [][Ingestion!Next]_<<head, ingested>>` |
| `BallotProcessing_proofs` | `RowsInvariant`, `OrderInvariant`, `FairInvariant` | `Spec => []RowsInv`, `[]OrderInv`, `[]FairInv` |
| | `TypeCorrectness` | `Spec => []TypeOK` |
| | `RefusalsStayExplained` | `Spec => []RefusalsAreExplained` |
| | `OneBallotPerPeriod` | `Spec => []OneBallotUnlessMisjudged` |
| | `TheEarlierVoteWins` | `Spec => []EarlierVoteWins` |
| | `ImplementsLedger` | `Spec => DecidesInChainOrder`, that is `Ledger!Spec` |
| | `LiveTallyAlwaysSettles` | `OneWorker /\ Spec => []LiveTallySettles` |
| `VoteHistory_proofs` | `HistoryProcesses` | `HistorySpec => Spec` |
| | `WalkInvariant` | `HistorySpec => []WalkInv` |
| | `PagesAlwaysGoBack` | `HistorySpec => []PagesGoBack` |
| | `WalksShowEveryVote` | `HistorySpec => []WalkShowsEveryVote` |
| `TallyProjection_proofs` | `ProjectionInvariant` | `Spec => []ProjectionInv` |
| | `TypeCorrectness` | `Spec => []TypeOK` |
| | `FinalTalliesKeepVotes` | `Spec => []FinalTallyKeepsDecidedVotes` |
| `TallySettling_proofs` | `SettlingInvariant` | `Spec => []SettleInv` |
| | `TalliesAlwaysSettle` | `Spec => []TalliesSettle` |
| `Registration_proofs` | `IndexingInvariant`, `VerificationInvariant` | `Spec => []IndexingInv`, `[]VerificationInv` |
| | `RowsAlwaysFit` | `Spec => []RowsFitTogether` |
| | `SeriesKeepTheirIds` | `Spec => SeriesIdsArePermanent` |
| | `RegistryAlwaysAgrees` | `Spec => []RegistryAgrees` |
| | `TypeCorrectness` | `Spec => []TypeOK` |

**The lifecycle.** `KeySentOnlyWhenPending` is not inductive: it says nothing of a
worker that is about to send. `LifecycleInv` adds `RevealLooked` (a worker past its
look at the contract has an election that was in state 3, from which it cannot go
back), `StoredWithinClock` (a contract before its reveal is not ahead of the clock),
`PublicationIsRecorded` (a published key and the contract's state agree) and
`ReadsNotAhead` (what polls and the sync worker remember is behind the contract).
The one fact everything rests on is the lemma `ContractMovesForward`: no step
lowers `SyncResult`, takes a contract out of the reveal states or takes a
published key back. Each actor's steps then either read, which establishes the
bound, or write what was read, which the bound covers.

`RevealInv` adds that a mined reveal means a published key or one that is in `reverted`
(`ReceiptMeansPublished`), on which the worker relies when it does not look at the
receipt's status. A reveal that reverts for the contract's state is no exception: nothing
but a reveal takes the contract out of `KEY_REVEAL_PENDING`, so somebody else has
published the key. One that reverts for another reason (out of gas) leads to a wrong mark,
and the three properties name it: without the exceptions they are false.

`RowsAheadAreRequested` needs that what is about to be stored without a request was
recorded by the contract when it was read (`ReadsWereStored`), which stays true as
recorded states only grow (`ContractRecords`). A simulated state is either stored with
its request or is one that a contract has recorded itself (`EarlyStatesAreRequested`,
`LateResultsAreStored`), and the worker takes a request off in the write that takes the
claim back. The reveal worker writes `KEY_REVEALED` without a request; that this is
recorded is `ReceiptMeansPublished`, hence the same exception.

**The indexer.** `CursorsPassOnlyDoneLogs` needs what a poll in the middle of its scan
still owes. `IndexerInv` adds for each poll `ScanIsComplete` (a log of its range is
done, in `pollTodo` or being processed, and everything before the range is done),
`ElectionsCameFirst` (a poll past its first stage has rows of all elections up to
its latest block, so that fetching votes by these rows misses none),
`TodoMayBeIngested` and `IsWhereItMayBe`. `Done` is monotone, so no poll disturbs
another: a cursor that moves back costs only work. From the same invariant each step
is a step of `LogIngestion` (`IngestsOne`), which is the safety half of the
refinement that TLC checks with its fairness.

**The ballots.** Validation looks at the ballots of other votes long before its verdict
is stored, and still the rule of one ballot holds. First, `OrderInv`: a vote is stored
only when all before it have a ballot (each poll visits the logs in order and moves
its cursor behind what is decided; requests take up stored votes only). Then
`FairInv`: a stored or waiting verdict is "valid" only for an eligible vote none of
whose rivals has a ballot, and refuses an eligible vote only for an earlier one
(`Beaten`). So two verdicts on one vote agree (`VerdictsAgree`), processing it again
changes nothing, and a vote that gets its ballot cannot cross one that waits for
one (`NewcomerHasNoRival`): of two undecided votes only one can be stored. This
breaks down exactly where a failed call becomes a verdict, hence the premise
`~misjudged`. Other failures, roll backs and any number of workers do no harm.

*The ledger.* The mapping takes the votes with a ballot as `decided` and the valid ones
as `valid`. The only steps that matter are the commits. One that stores the ballot of a
vote which had none is `Decide`: `OrderInv` gives the order, and `FairInv` that the
verdict, though computed from what was read some awaits ago, is the one the rule gives
now (`CommitDecides`). A commit on a vote that had a ballot stores the same verdict
again (`VerdictsAgree`) and is a stutter. A commit after the premise has broken is
`Misjudge`, which still takes no ballot back.

*One worker's tally.* `LiveTallySettles` says something only when all is quiet. What
makes it true is a debt: `QuietInv` says that a tally which is out of date is being
recomputed, or that a vote with a ballot is still before the worker's cursor or in its
scan (`TallyIsOwed`). A call that fails between a verdict and its tally ends the scan
without moving the cursor, so the next scan visits that vote again and recomputes
(`ScansFromCursor`). When the cursor is past every mined vote nothing can be owed. With
a second worker the first may pass its cursor over the vote, hence `OneWorker`.

**The tallies.** Nothing is assumed of verdicts: each validation comes to any. `ProjectionInv`
says that a vote which was valid at the finalization still is, unless its verdict was
replaced, and that there is no tally before (`FinalizedLater`); and that a poll which is
to finalize has seen the contract finalized, so that what it has read contains every
vote that was valid at that moment (`CountsAreLateEnough`). `StagesVisitTheirKind` and
`VisitsAreOfSomething` fix what is visited when.

`TalliesSettle` is proved in a module of its own, by the same kind of debt for any
number of polls. A vote is `Owing` while the cursor of its stream is before it and every
poll whose scan is past it is still at its election. `SettleInv` says that a tally or a
summary is out of date only while some stored vote of the election is owing, or while a
poll or request that has replaced a verdict is still at its recompute (`Mends`)
(`LateTalliesAreOwed`), and that a poll holds a count which is out of date only while a
vote is owing that this poll has not come past (`LateReadsAreOwed`): so when it writes
that count, the debt remains with someone. A poll that reaches the end of a recompute
pays for all votes; one that throws leaves its cursor where it was, before the vote. A
fresh vote makes every tally late and is owing itself. A replaced verdict makes it late
behind the cursor: only the actor that replaced it owes the recompute, and when it
throws the debt is lost, hence the elections in `abandoned` are excepted. Two recomputes
of one election would let one poll pay what another undoes, hence those in `overlapped`
are (`OneRecomputes`). `PollsLookAtTheChain`, `PollsKnowTheirVote`, `ScansLeaveNoVote`
and `SumsAreFresh` are what the argument needs to know of the scans.

**The history.** A cursor is a position, and a position is not a row: two rows of
different tables may share it. `ComesBefore` is a strict total order on the rows of
both tables (`RowsAreOrdered`), of which `Older` on positions is the coarser part. From
that order alone follow the facts about a query's `take`: the first n rows of a finite
set are n unless the set is smaller, and what is left out comes after all that is
taken (`LeftOutRows`, `FullPages`). `WalkInv` then says that every vote present at the
start was shown, was skipped at the end of a page, or is still behind the cursor
(`NothingIsLost`), and of the one query that may be out that it lacks such a vote only
if it is full of newer ones (`AnswersAreCut`); pages descend strictly
(`PagesDescend`), so none repeats a vote. Votes stored meanwhile may appear or not and
disturb neither. `HistoryProcesses` lets everything proved of the processing be used of
the history, in particular that a step stores at most one vote.

**Registration.** `IndexingInv` bounds what the look-ups before the transaction are
still worth when it runs: the draft's own series may be gone, but not one it was moved
to (`FoundIsStillGood`); a series that had the contract's id still has it
(`ExistingIsStillGood`), and one may have got it meanwhile. With
`DraftsKeepTheirSeries`, `CreatedSeriesHaveTheirId`, `KeysWerePrepared` and
`PollsVisitWhatIsThere` it is inductive. `VerificationInv` states what a decision that
runs alone can rely on (`AloneIsAlone`, `SendersWait`, `DecisionsAreMadeOneByOne`): the
only transaction in flight is its own, so the registry says what it decided when its
receipt arrives (`RowAndRegistryAgree`).

TLC checked the invariants on small instances before they were proved.

Only model-checked: the liveness properties `ChainCatchesUp`, `KeyGetsPublished`,
`KeyGetsMarked` and `SnapshotConverges`, and the fairness half of `IngestsEveryLog`.
They need ENABLED and fairness, which the prover does not handle. Every
invariant, action property and safety refinement that a passing run checks is a theorem.

## 6. What is not modelled

- The create, update and upsert endpoints for administrators (elections, vote
  submissions, organizers, keys, ballots, one row of a tally, a summary). They write
  what they are given and can break any property.
- The elections read API, which assembles rows and the clock into views; of it only
  whether an organizer is shown is stated. Uploads, users, start-up.
- The cryptography of keys and ballots, whose outcome is a choice or a constant; vote
  ratios and the layout of rows.
- Chain reorganizations, since the code does not handle them.
- In `TallyProjection` cancelled elections. In `ElectionIndexing` the contents of a
  series (when a draft moves to another series, cover and preimage of its own are
  deleted with it).

Things seen while modelling that no run reports as a finding, since the repository
promises nothing else:

- Two overlapping polls may throw on each other's tally again and again, so nothing is
  promised about when a final tally appears. The same throws end the scans of votes: that
  `IngestsEveryLog` has every log handled in the end supposes that they stop.
- A verdict that is replaced after the finalization (a vote processed again, one failed
  fetch of the manifest) leaves the final tally as it was: it may count a vote whose ballot is
  invalid by now. If the recompute after a replaced verdict fails, the live tally and the
  summary stay stale until another vote of the election or a request.
- A reveal that is mined and reverts for a reason of its own is taken for a success: the key
  is marked, and since the worker selects unmarked keys only, it is never sent again.
- When the indexer first meets an election that is already FINALIZED, it computes the
  final tally before any of its votes is scanned, and never again once there is a
  row: votes decided later are missing for good.
- A history limit between 0 and 1 is rounded down to a page without items whose
  `hasMore` may be true with no cursor to go on with.
- Requests of one wallet under two spellings may leave two rows, and the elections API
  shows the organizer when either is VERIFIED.
- A key whose marking failed is never marked, since the contract is past state 3.

## 7. Plan

Done: the lifecycle, the indexer with its refinement, ballot processing with its
refinement, tallies and summaries, the rows of elections, organizers, the history, and
the proofs of every safety property the passing runs check. What is left, in this order:

1. The clashes of tally recomputes in `LogIndexer`, as steps of their own instead of failed calls.
2. The phase and sorting rules of the elections API as operators over rows and clock,
   against a reference definition.
