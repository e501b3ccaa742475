----------------------------- MODULE ElectionIndexing -----------------------------
(***************************************************************************)
(* How an election gets its rows.  PrivateElectionsService.prepare stores  *)
(* a draft with a key and a series of its own; the organizer then creates  *)
(* the contract, and indexElection links the two by the key's commitment   *)
(* hash: it moves the draft to the series that already has the contract's  *)
(* series id, or gives that id to the draft's own series.  The draft is    *)
(* looked up before the transaction that writes all this, and polls        *)
(* overlap.                                                                *)
(***************************************************************************)
EXTENDS Integers

CONSTANTS
    Drafts,         \* the private elections that may be prepared
    SeriesIds,      \* the series ids of the contracts
    Contracts,      \* the ElectionCreated logs, numbered in chain order
    DraftOf,        \* the draft whose key a contract commits to, or NoDraft: it is open,
                    \* or its key is not from here
    SeriesIdOf,     \* the contract's series id
    Polls,          \* the polls that may overlap
    MaxPollFaults   \* bound on their failed calls

None == "none"
NoDraft == None

\* A row of election_series is named by the draft it was made for, or else by its id.
SeriesRows == Drafts \cup SeriesIds

ASSUME IndexingAssumption ==
    /\ Drafts \cap SeriesIds = {} /\ None \notin SeriesRows
    /\ Contracts \subseteq Nat \ {0} /\ \A c \in Contracts : 1..c \subseteq Contracts
    /\ DraftOf \in [Contracts -> Drafts \cup {NoDraft}]
    /\ SeriesIdOf \in [Contracts -> SeriesIds]
    /\ MaxPollFaults \in Nat

VARIABLES
    created,        \* contracts 1..created are on the chain
    cursor,         \* the next log to scan
    syncState,      \* election_drafts: the state of each,
    seriesOf,       \* and its series_id
    series,         \* rows of election_series,
    onchainSeriesId,
    elections,      \* the contracts with a row of onchain_elections
    invalid,        \* those with a row of invalid_onchain_elections
    pc,             \* where each poll is
    todo,           \* the contracts of its range it has still to visit
    upto,           \* the last log of a scan, 0 in the lookback, which moves no cursor
    at,             \* the contract it is indexing, 0 for none
    found,          \* seriesId of the draft it has looked up, None without a draft
    existing,       \* existingSeriesByOnchainId
    pollFaults

draftTable == <<syncState, seriesOf>>
seriesTable == <<series, onchainSeriesId>>
electionTable == <<elections, invalid>>
pollVars == <<pc, todo, upto, at, found, existing>>
indexingVars == <<created, cursor, draftTable, seriesTable, electionTable, pollVars, pollFaults>>

IndexingTypeOK ==
    /\ created \in Contracts \cup {0}
    /\ cursor \in Nat \ {0}
    /\ syncState \in [Drafts -> {None, "PREPARED", "INDEXED"}]
    /\ seriesOf \in [Drafts -> SeriesRows \cup {None}]
    /\ series \subseteq SeriesRows
    /\ onchainSeriesId \in [SeriesRows -> SeriesIds \cup {None}]
    /\ elections \subseteq Contracts
    /\ invalid \subseteq Contracts
    /\ pc \in [Polls -> {"idle", "next", "begin", "link", "prepared"}]
    /\ todo \in [Polls -> SUBSET Contracts]
    /\ upto \in [Polls -> Contracts \cup {0}]
    /\ at \in [Polls -> Contracts \cup {0}]
    /\ found \in [Polls -> SeriesRows \cup {None}]
    /\ existing \in [Polls -> SeriesRows \cup {None}]
    /\ pollFaults \in 0..MaxPollFaults

IndexingInit ==
    /\ created = 0
    /\ cursor = 1
    /\ syncState = [d \in Drafts |-> None]
    /\ seriesOf = [d \in Drafts |-> None]
    /\ series = {}
    /\ onchainSeriesId = [s \in SeriesRows |-> None]
    /\ elections = {}
    /\ invalid = {}
    /\ pc = [p \in Polls |-> "idle"]
    /\ todo = [p \in Polls |-> {}]
    /\ upto = [p \in Polls |-> 0]
    /\ at = [p \in Polls |-> 0]
    /\ found = [p \in Polls |-> None]
    /\ existing = [p \in Polls |-> None]
    /\ pollFaults = 0

-----------------------------------------------------------------------------
(***************************************************************************)
(* The organizer prepares an election and creates its contract.            *)
(***************************************************************************)

\* One transaction creates the series, the draft and the key.
Prepare(d) ==
    /\ syncState[d] = None
    /\ syncState' = [syncState EXCEPT ![d] = "PREPARED"]
    /\ seriesOf' = [seriesOf EXCEPT ![d] = d]
    /\ series' = series \cup {d}
    /\ UNCHANGED <<created, cursor, onchainSeriesId, electionTable, pollVars, pollFaults>>

\* A contract can commit to a key once prepare has returned its hash; nothing keeps a
\* second contract from committing to the same.
CreateElection ==
    /\ created + 1 \in Contracts
    /\ DraftOf[created + 1] # NoDraft => syncState[DraftOf[created + 1]] # None
    /\ created' = created + 1
    /\ UNCHANGED <<cursor, draftTable, seriesTable, electionTable, pollVars, pollFaults>>

-----------------------------------------------------------------------------
(***************************************************************************)
(* The stages of a poll that index elections.                              *)
(***************************************************************************)

\* What was remembered of the visit is dropped.
Forgets(p) ==
    /\ at' = [at EXCEPT ![p] = 0]
    /\ found' = [found EXCEPT ![p] = None]
    /\ existing' = [existing EXCEPT ![p] = None]

PollRests(p) ==
    /\ pc' = [pc EXCEPT ![p] = "idle"]
    /\ todo' = [todo EXCEPT ![p] = {}]
    /\ upto' = [upto EXCEPT ![p] = 0]
    /\ Forgets(p)

ScanElections(p) ==
    /\ pc[p] = "idle"
    /\ cursor <= created
    /\ todo' = [todo EXCEPT ![p] = cursor..created]
    /\ upto' = [upto EXCEPT ![p] = created]
    /\ pc' = [pc EXCEPT ![p] = "next"]
    /\ UNCHANGED <<created, cursor, draftTable, seriesTable, electionTable, at, found, existing,
                   pollFaults>>

\* There is no new block to scan.
ScanNothing(p) ==
    /\ pc[p] = "idle"
    /\ cursor > created
    /\ upto' = [upto EXCEPT ![p] = created]
    /\ pc' = [pc EXCEPT ![p] = "prepared"]
    /\ UNCHANGED <<created, cursor, draftTable, seriesTable, electionTable, todo, at, found,
                   existing, pollFaults>>

MoveElectionCursor(p) ==
    /\ pc[p] = "next" /\ todo[p] = {} /\ upto[p] # 0
    /\ cursor' = upto[p] + 1
    /\ pc' = [pc EXCEPT ![p] = "prepared"]
    /\ UNCHANGED <<created, draftTable, seriesTable, electionTable, todo, upto, at, found,
                   existing, pollFaults>>

\* reconcilePreparedElections: while a draft is PREPARED the last logs up to the poll's
\* latest block are indexed again.
SomePrepared == \E d \in Drafts : syncState[d] = "PREPARED"

\* Mutant of ReconcilePreparedElections: the lookback reaches below the first block.
ReconcilePreparedElections_BelowFirst(p) ==
    /\ pc[p] = "prepared"
    /\ SomePrepared
    /\ \E from \in 0..upto[p] : todo' = [todo EXCEPT ![p] = from..upto[p]]
    /\ upto' = [upto EXCEPT ![p] = 0]
    /\ pc' = [pc EXCEPT ![p] = "next"]
    /\ UNCHANGED <<created, cursor, draftTable, seriesTable, electionTable, at, found,
                   existing, pollFaults>>

ReconcilePreparedElections(p) ==
    /\ pc[p] = "prepared"
    /\ SomePrepared
    /\ \E from \in 1..upto[p] : todo' = [todo EXCEPT ![p] = from..upto[p]]
    /\ upto' = [upto EXCEPT ![p] = 0]
    /\ pc' = [pc EXCEPT ![p] = "next"]
    /\ UNCHANGED <<created, cursor, draftTable, seriesTable, electionTable, at, found,
                   existing, pollFaults>>

PollEnds(p) ==
    /\ \/ pc[p] = "prepared" /\ (SomePrepared => upto[p] = 0)
       \/ pc[p] = "next" /\ todo[p] = {} /\ upto[p] = 0
    /\ PollRests(p)
    /\ UNCHANGED <<created, cursor, draftTable, seriesTable, electionTable, pollFaults>>

PollFails(p) ==
    /\ pc[p] # "idle"
    /\ pollFaults < MaxPollFaults
    /\ pollFaults' = pollFaults + 1
    /\ PollRests(p)
    /\ UNCHANGED <<created, cursor, draftTable, seriesTable, electionTable>>

-----------------------------------------------------------------------------
(***************************************************************************)
(* indexElection.                                                          *)
(***************************************************************************)

\* The contract is read, and the draft is looked up by the key's commitment hash.
LookUpDraft(p) ==
    /\ pc[p] = "next"
    /\ \E c \in todo[p] :
          /\ \A b \in todo[p] : c <= b
          /\ todo' = [todo EXCEPT ![p] = @ \ {c}]
          /\ at' = [at EXCEPT ![p] = c]
          /\ found' = [found EXCEPT ![p] =
                IF DraftOf[c] = NoDraft THEN None ELSE seriesOf[DraftOf[c]]]
    /\ pc' = [pc EXCEPT ![p] = "begin"]
    /\ UNCHANGED <<created, cursor, draftTable, seriesTable, electionTable, upto, existing,
                   pollFaults>>

SeriesWith(id) == {s \in series : onchainSeriesId[s] = id}

\* The first statement of the transaction: is there a series with the contract's id?
FindSeries(p) ==
    /\ pc[p] = "begin"
    /\ existing' = [existing EXCEPT ![p] =
          IF SeriesWith(SeriesIdOf[at[p]]) = {} THEN None
          ELSE CHOOSE s \in SeriesWith(SeriesIdOf[at[p]]) : TRUE]
    /\ pc' = [pc EXCEPT ![p] = "link"]
    /\ UNCHANGED <<created, cursor, draftTable, seriesTable, electionTable, todo, upto, at,
                   found, pollFaults>>

\* The draft moves to the existing series, or its own series gets the contract's id.
Moves(p) == found[p] # None /\ existing[p] \notin {None, found[p]}
Names(p) == found[p] # None /\ existing[p] \in {None, found[p]}
Creates(p) == found[p] = None /\ existing[p] = None

\* The draft's series is deleted when no draft remains in it.
IsDeserted(s, d) == \A e \in Drafts \ {d} : seriesOf[e] # s

\* Statements that throw: one that needs a series that is gone, a second series with the
\* same id, ...
SeriesCollides(p) ==
    LET others == SeriesWith(SeriesIdOf[at[p]]) \ {found[p]} IN
    \/ existing[p] \notin series \cup {None}
    \/ Names(p) /\ (found[p] \notin series \/ others # {})
    \/ Moves(p) /\ IsDeserted(found[p], DraftOf[at[p]]) /\ found[p] \notin series
    \/ Creates(p) /\ others # {}

\* ... and a second election of a draft.
DraftCollides(p) ==
    found[p] # None /\ \E b \in elections \ {at[p]} : DraftOf[b] = DraftOf[at[p]]

\* Mutant of Collides: nothing keeps two elections from sharing a draft.
Collides_DraftIsNotUnique(p) == SeriesCollides(p)

Collides(p) == SeriesCollides(p) \/ DraftCollides(p)

\* The statements on drafts, series and invalid elections.  An election without a draft
\* is marked invalid.
WriteLinks(p) ==
    LET c == at[p]
        d == DraftOf[c] IN
    /\ syncState' = IF found[p] = None THEN syncState ELSE [syncState EXCEPT ![d] = "INDEXED"]
    /\ seriesOf' = IF Moves(p) THEN [seriesOf EXCEPT ![d] = existing[p]] ELSE seriesOf
    /\ series' = IF Creates(p) THEN series \cup {SeriesIdOf[c]}
                 ELSE IF Moves(p) /\ IsDeserted(found[p], d) THEN series \ {found[p]} ELSE series
    /\ onchainSeriesId' =
          IF Creates(p) THEN [onchainSeriesId EXCEPT ![SeriesIdOf[c]] = SeriesIdOf[c]]
          ELSE IF Names(p) THEN [onchainSeriesId EXCEPT ![found[p]] = SeriesIdOf[c]]
          ELSE onchainSeriesId
    /\ invalid' = IF found[p] = None THEN invalid \cup {c} ELSE invalid \ {c}

\* Mutant of LinkElection: the statements before the upsert of the election are
\* committed without it.
LinkElection_NoTransaction(p) ==
    /\ pc[p] = "link"
    /\ ~SeriesCollides(p)
    /\ WriteLinks(p)
    /\ elections' = IF DraftCollides(p) THEN elections ELSE elections \cup {at[p]}
    /\ pc' = [pc EXCEPT ![p] = "next"]
    /\ Forgets(p)
    /\ UNCHANGED <<created, cursor, todo, upto, pollFaults>>

\* The rest of the transaction, with the upsert of the election; a statement that throws
\* would roll all of it back.
LinkElection(p) ==
    /\ pc[p] = "link"
    /\ ~Collides(p)
    /\ WriteLinks(p)
    /\ elections' = elections \cup {at[p]}
    /\ pc' = [pc EXCEPT ![p] = "next"]
    /\ Forgets(p)
    /\ UNCHANGED <<created, cursor, todo, upto, pollFaults>>

\* The throw ends the poll; its cursor stays where it was.
LinkThrows(p) ==
    /\ pc[p] = "link"
    /\ Collides(p)
    /\ PollRests(p)
    /\ UNCHANGED <<created, cursor, draftTable, seriesTable, electionTable, pollFaults>>

-----------------------------------------------------------------------------
PollStep(p) ==
    \/ ScanElections(p)
    \/ ScanNothing(p)
    \/ MoveElectionCursor(p)
    \/ ReconcilePreparedElections(p)
    \/ PollEnds(p)
    \/ PollFails(p)
    \/ LookUpDraft(p)
    \/ FindSeries(p)
    \/ LinkElection(p)
    \/ LinkThrows(p)

IndexingNext ==
    \/ \E d \in Drafts : Prepare(d)
    \/ CreateElection
    \/ \E p \in Polls : PollStep(p)

IndexingSpec == IndexingInit /\ [][IndexingNext]_indexingVars

-----------------------------------------------------------------------------
(***************************************************************************)
(* Properties.                                                             *)
(***************************************************************************)

\* An election that is linked to its draft finds it INDEXED and in a series with the
\* election's own series id, whatever polls have moved, merged and deleted meanwhile.
LinkedDraftsAgree ==
    \A c \in elections : DraftOf[c] # NoDraft =>
        /\ syncState[DraftOf[c]] = "INDEXED"
        /\ seriesOf[DraftOf[c]] \in series
        /\ onchainSeriesId[seriesOf[DraftOf[c]]] = SeriesIdOf[c]

\* A draft is INDEXED through one election, and never through two.
OneElectionPerDraft ==
    /\ \A d \in Drafts : syncState[d] = "INDEXED" => \E c \in elections : DraftOf[c] = d
    /\ \A b, c \in elections : DraftOf[b] = DraftOf[c] => b = c \/ DraftOf[b] = NoDraft

\* Every election's series is there, once.
EverySeriesIsUnique ==
    /\ \A c \in elections : \E s \in series : onchainSeriesId[s] = SeriesIdOf[c]
    /\ \A r, s \in series : onchainSeriesId[r] = onchainSeriesId[s] =>
          r = s \/ onchainSeriesId[r] = None

\* A log behind the cursor has its row, and an election is marked invalid exactly when
\* it has no draft.
NothingIsPassed ==
    /\ \A c \in Contracts : c < cursor => c \in elections
    /\ invalid = {c \in elections : DraftOf[c] = NoDraft}

\* The rows that indexing and preparation leave behind fit together at every moment,
\* although the draft is looked up before the transaction and polls overlap.
RowsFitTogether ==
    LinkedDraftsAgree /\ OneElectionPerDraft /\ EverySeriesIsUnique /\ NothingIsPassed

\* A series that has an on-chain id keeps it and is never deleted: elections refer to it
\* by that id, and would lose their series.
SeriesIdsArePermanent ==
    [][\A s \in series : onchainSeriesId[s] # None =>
          s \in series' /\ onchainSeriesId'[s] = onchainSeriesId[s]]_indexingVars
=============================================================================
