--------------------------- MODULE Registration_proofs ---------------------------
(***************************************************************************)
(* Theorems about Registration, for any drafts, contracts, overlapping     *)
(* polls, requests, spellings and failures.                                *)
(***************************************************************************)
EXTENDS Registration, TLAPS

-----------------------------------------------------------------------------
(***************************************************************************)
(* The inductive invariant of indexing.  RowsFitTogether speaks of the     *)
(* tables only; what a poll remembers between its await points has to be   *)
(* related to them.                                                        *)
(***************************************************************************)

\* A draft's series is there as long as the draft is in it; a series made for a draft
\* has no on-chain id but by the election of this very draft.
DraftsKeepTheirSeries ==
    \A d \in Drafts :
        /\ syncState[d] = None => seriesOf[d] = None /\ d \notin series
        /\ syncState[d] = "PREPARED" => seriesOf[d] = d
        /\ syncState[d] # None => seriesOf[d] \in series
        /\ onchainSeriesId[d] # None => syncState[d] = "INDEXED" /\ seriesOf[d] = d

\* A series that was made for a contract has the contract's id.
CreatedSeriesHaveTheirId ==
    \A s \in SeriesIds : s \in series => onchainSeriesId[s] = s

\* A contract commits to a key that was prepared.
KeysWerePrepared ==
    \A c \in 1..created : DraftOf[c] # NoDraft => syncState[DraftOf[c]] # None

\* A poll visits contracts that are on the chain, and a scan leaves none behind.
PollsVisitWhatIsThere ==
    \A p \in Polls :
        /\ todo[p] \subseteq 1..created
        /\ upto[p] \in 0..created
        /\ pc[p] \in {"begin", "link"} => at[p] \in 1..created
        /\ pc[p] \in {"next", "begin", "link"} /\ upto[p] # 0 =>
              \A c \in 1..upto[p] :
                  c \in elections \cup todo[p] \/ (pc[p] # "next" /\ c = at[p])

\* The series a poll remembers of a draft is the draft's first one, or else still the
\* one it is in.
FoundIsStillGood ==
    \A p \in Polls : pc[p] \in {"begin", "link"} =>
        /\ (found[p] = None) <=> (DraftOf[at[p]] = NoDraft)
        /\ found[p] \notin {None, DraftOf[at[p]]} =>
              /\ syncState[DraftOf[at[p]]] = "INDEXED"
              /\ seriesOf[DraftOf[at[p]]] = found[p]

\* The series a poll has found for a contract's id stays the series of this id.
ExistingIsStillGood ==
    \A p \in Polls : pc[p] = "link" /\ existing[p] # None =>
        /\ existing[p] \in series
        /\ onchainSeriesId[existing[p]] = SeriesIdOf[at[p]]

TablesInv ==
    DraftsKeepTheirSeries /\ CreatedSeriesHaveTheirId /\ KeysWerePrepared

PollsInv ==
    PollsVisitWhatIsThere /\ FoundIsStillGood /\ ExistingIsStillGood

IndexingInv == IndexingTypeOK /\ RowsFitTogether /\ TablesInv /\ PollsInv

-----------------------------------------------------------------------------
(***************************************************************************)
(* Type correctness.                                                       *)
(***************************************************************************)

\* The numbers up to a contract's are contracts.
LEMMA Numbers ==
    ASSUME IndexingTypeOK
    PROVE  /\ created \in Nat /\ 1..created \subseteq Contracts /\ 0 \notin Contracts
           /\ \A k \in Contracts : k \in Nat /\ 1..k \subseteq Contracts
BY IndexingAssumption DEF IndexingTypeOK

\* "none" names no row and no state of a draft.
LEMMA NoneIsNothing ==
    /\ None \notin SeriesRows /\ None \notin Drafts /\ None \notin SeriesIds
    /\ None # "PREPARED" /\ None # "INDEXED" /\ NoDraft = None
    /\ Drafts \subseteq SeriesRows /\ SeriesIds \subseteq SeriesRows
BY IndexingAssumption DEF None, NoDraft, SeriesRows

\* Preparation and the creation of contracts keep the types.
LEMMA EnvironmentTyped ==
    ASSUME IndexingTypeOK, (\E d \in Drafts : Prepare(d)) \/ CreateElection
    PROVE  IndexingTypeOK'
<1> USE DEF IndexingTypeOK, draftTable, seriesTable, electionTable, pollVars
<1>1. ASSUME NEW d \in Drafts, Prepare(d)
      PROVE  IndexingTypeOK'
  BY <1>1, NoneIsNothing DEF Prepare
<1>2. CASE CreateElection
  BY <1>2 DEF CreateElection
<1> QED
  BY <1>1, <1>2

\* A poll's stages keep the types.
LEMMA PollTyped ==
    ASSUME IndexingInv, NEW p \in Polls, PollStep(p)
    PROVE  IndexingTypeOK'
<1> USE DEF IndexingTypeOK, draftTable, seriesTable, electionTable, pollVars
<1>0. IndexingTypeOK /\ PollsInv
  BY DEF IndexingInv
<1>1. CASE ScanElections(p)
  <2>1. cursor..created \subseteq Contracts
    BY <1>0, Numbers
  <2> QED
    BY <1>0, <1>1, <2>1 DEF ScanElections
<1>2. CASE ScanNothing(p)
  BY <1>0, <1>2 DEF ScanNothing
<1>3. CASE MoveElectionCursor(p)
  <2>1. upto[p] + 1 \in Nat \ {0}
    BY <1>0, Numbers
  <2> QED
    BY <1>0, <1>3, <2>1 DEF MoveElectionCursor
<1>4. CASE ReconcilePreparedElections(p)
  <2>1. PICK from \in 1..upto[p] : todo' = [todo EXCEPT ![p] = from..upto[p]]
    BY <1>4 DEF ReconcilePreparedElections
  <2>2. from..upto[p] \subseteq Contracts
    BY <1>0, Numbers
  <2> QED
    BY <1>0, <1>4, <2>1, <2>2 DEF ReconcilePreparedElections
<1>5. CASE PollEnds(p)
  BY <1>0, <1>5 DEF PollEnds, PollRests, Forgets
<1>6. CASE PollFails(p)
  BY <1>0, <1>6, IndexingAssumption DEF PollFails, PollRests, Forgets
<1>7. CASE LookUpDraft(p)
  <2>1. PICK c \in todo[p] :
              /\ todo' = [todo EXCEPT ![p] = @ \ {c}]
              /\ at' = [at EXCEPT ![p] = c]
              /\ found' = [found EXCEPT ![p] =
                    IF DraftOf[c] = NoDraft THEN None ELSE seriesOf[DraftOf[c]]]
    BY <1>7 DEF LookUpDraft
  <2>2. c \in Contracts /\ DraftOf[c] \in Drafts \cup {NoDraft}
    BY <1>0, IndexingAssumption
  <2>3. found' \in [Polls -> SeriesRows \cup {None}]
    BY <1>0, <2>1, <2>2
  <2> QED
    BY <1>0, <1>7, <2>1, <2>2, <2>3 DEF LookUpDraft
<1>8. CASE FindSeries(p)
  <2> DEFINE found0 == SeriesWith(SeriesIdOf[at[p]])
  <2>1. found0 \subseteq SeriesRows
    BY <1>0 DEF SeriesWith
  <2>2. found0 # {} => (CHOOSE s \in found0 : TRUE) \in SeriesRows
    BY <2>1
  <2>3. existing' \in [Polls -> SeriesRows \cup {None}]
    BY <1>0, <1>8, <2>2 DEF FindSeries
  <2> QED
    BY <1>0, <1>8, <2>3 DEF FindSeries
<1>9. CASE LinkElection(p)
  <2>1. at[p] \in Contracts
    BY <1>0, <1>9, Numbers DEF LinkElection, PollsInv, PollsVisitWhatIsThere
  <2>2. DraftOf[at[p]] \in Drafts \cup {NoDraft} /\ SeriesIdOf[at[p]] \in SeriesIds
    BY <2>1, IndexingAssumption
  <2>3. syncState' \in [Drafts -> {None, "PREPARED", "INDEXED"}]
    BY <1>0, <1>9 DEF LinkElection, WriteLinks
  <2>4. seriesOf' \in [Drafts -> SeriesRows \cup {None}]
    BY <1>0, <1>9 DEF LinkElection, WriteLinks
  <2>5. series' \subseteq SeriesRows
    BY <1>0, <1>9, <2>2, NoneIsNothing DEF LinkElection, WriteLinks
  <2>6. onchainSeriesId' \in [SeriesRows -> SeriesIds \cup {None}]
    BY <1>0, <1>9, <2>2 DEF LinkElection, WriteLinks
  <2>7. invalid' \subseteq Contracts /\ elections' \subseteq Contracts
    BY <1>0, <1>9, <2>1 DEF LinkElection, WriteLinks
  <2> QED
    BY <1>0, <1>9, <2>3, <2>4, <2>5, <2>6, <2>7, NoneIsNothing DEF LinkElection, Forgets
<1>10. CASE LinkThrows(p)
  BY <1>0, <1>10 DEF LinkThrows, PollRests, Forgets
<1> QED
  BY <1>1, <1>2, <1>3, <1>4, <1>5, <1>6, <1>7, <1>8, <1>9, <1>10 DEF PollStep

-----------------------------------------------------------------------------
(***************************************************************************)
(* Steps that write no link.                                               *)
(***************************************************************************)

\* A new draft comes with a series of its own, that nothing refers to yet.
LEMMA PrepareKeeps ==
    ASSUME IndexingInv, NEW d \in Drafts, Prepare(d)
    PROVE  RowsFitTogether' /\ TablesInv' /\ PollsInv'
<1> USE DEF electionTable, pollVars
<1>0. IndexingTypeOK /\ RowsFitTogether /\ TablesInv /\ PollsInv
  BY DEF IndexingInv
<1>1. /\ syncState[d] = None /\ seriesOf[d] = None
      /\ d \notin series /\ onchainSeriesId[d] = None
  BY <1>0, NoneIsNothing DEF Prepare, TablesInv, DraftsKeepTheirSeries
<1>2. /\ syncState'[d] = "PREPARED" /\ seriesOf'[d] = d /\ series' = series \cup {d}
      /\ \A e \in Drafts \ {d} : syncState'[e] = syncState[e] /\ seriesOf'[e] = seriesOf[e]
      /\ UNCHANGED <<created, cursor, onchainSeriesId, elections, invalid, pc, todo, upto, at,
                     found, existing>>
  BY <1>0 DEF Prepare, IndexingTypeOK
<1>3. \A c \in elections : DraftOf[c] # d
  BY <1>0, <1>1, NoneIsNothing DEF RowsFitTogether, LinkedDraftsAgree
<1>4. \A c \in elections : c \in Contracts /\ DraftOf[c] \in Drafts \cup {NoDraft}
  BY <1>0, IndexingAssumption DEF IndexingTypeOK
<1>5. RowsFitTogether'
  <2>1. LinkedDraftsAgree'
    BY <1>0, <1>2, <1>3, <1>4, NoneIsNothing DEF RowsFitTogether, LinkedDraftsAgree
  <2>2. OneElectionPerDraft'
    BY <1>0, <1>2 DEF RowsFitTogether, OneElectionPerDraft
  <2>3. EverySeriesIsUnique'
    BY <1>0, <1>1, <1>2 DEF RowsFitTogether, EverySeriesIsUnique
  <2>4. NothingIsPassed'
    BY <1>0, <1>2 DEF RowsFitTogether, NothingIsPassed
  <2> QED
    BY <2>1, <2>2, <2>3, <2>4 DEF RowsFitTogether
<1>6. TablesInv'
  <2>1. DraftsKeepTheirSeries'
    BY <1>0, <1>1, <1>2, NoneIsNothing DEF TablesInv, DraftsKeepTheirSeries
  <2>2. CreatedSeriesHaveTheirId'
    BY <1>0, <1>2, IndexingAssumption DEF TablesInv, CreatedSeriesHaveTheirId
  <2>3. KeysWerePrepared'
    <3> SUFFICES ASSUME NEW c \in 1..created, DraftOf[c] # NoDraft
                 PROVE  syncState'[DraftOf[c]] # None
      BY <1>2 DEF KeysWerePrepared
    <3>1. DraftOf[c] \in Drafts
      BY <1>0, Numbers, IndexingAssumption
    <3> QED
      BY <1>0, <1>2, <3>1, NoneIsNothing DEF TablesInv, KeysWerePrepared
  <2> QED
    BY <2>1, <2>2, <2>3 DEF TablesInv
<1>7. PollsInv'
  <2>1. PollsVisitWhatIsThere'
    BY <1>0, <1>2 DEF PollsInv, PollsVisitWhatIsThere
  <2>2. FoundIsStillGood'
    <3> SUFFICES ASSUME NEW p \in Polls, pc[p] \in {"begin", "link"},
                        found[p] \notin {None, DraftOf[at[p]]}
                 PROVE  /\ syncState'[DraftOf[at[p]]] = "INDEXED"
                        /\ seriesOf'[DraftOf[at[p]]] = found[p]
      BY <1>0, <1>2 DEF PollsInv, FoundIsStillGood
    <3>1. /\ syncState[DraftOf[at[p]]] = "INDEXED" /\ DraftOf[at[p]] # NoDraft
          /\ seriesOf[DraftOf[at[p]]] = found[p]
      BY <1>0, NoneIsNothing DEF PollsInv, FoundIsStillGood
    <3>2. DraftOf[at[p]] \in Drafts \ {d}
      BY <1>0, <1>1, <3>1, Numbers, NoneIsNothing, IndexingAssumption
      DEF PollsInv, PollsVisitWhatIsThere
    <3> QED
      BY <1>2, <3>1, <3>2
  <2>3. ExistingIsStillGood'
    BY <1>0, <1>2 DEF PollsInv, ExistingIsStillGood
  <2> QED
    BY <2>1, <2>2, <2>3 DEF PollsInv
<1> QED
  BY <1>5, <1>6, <1>7

\* A contract is created for a key that was prepared.
LEMMA CreateElectionKeeps ==
    ASSUME IndexingInv, CreateElection
    PROVE  RowsFitTogether' /\ TablesInv' /\ PollsInv'
<1> USE DEF electionTable, pollVars, draftTable, seriesTable
<1>0. IndexingTypeOK /\ RowsFitTogether /\ TablesInv /\ PollsInv
  BY DEF IndexingInv
<1>1. /\ created' = created + 1
      /\ UNCHANGED <<cursor, syncState, seriesOf, series, onchainSeriesId, elections, invalid,
                     pc, todo, upto, at, found, existing>>
  BY DEF CreateElection
<1>2. RowsFitTogether'
  BY <1>0, <1>1 DEF RowsFitTogether, LinkedDraftsAgree, OneElectionPerDraft,
                    EverySeriesIsUnique, NothingIsPassed
<1>3. KeysWerePrepared'
  <2>1. \A c \in 1..created' : c \in 1..created \/ c = created + 1
    BY <1>0, <1>1, Numbers
  <2> QED
    BY <1>0, <1>1, <2>1 DEF TablesInv, KeysWerePrepared, CreateElection
<1>4. TablesInv'
  BY <1>0, <1>1, <1>3 DEF TablesInv, DraftsKeepTheirSeries, CreatedSeriesHaveTheirId
<1>5. PollsVisitWhatIsThere'
  <2>1. 1..created \subseteq 1..created' /\ 0..created \subseteq 0..created'
    BY <1>0, <1>1, Numbers
  <2> QED
    BY <1>0, <1>1, <2>1 DEF PollsInv, PollsVisitWhatIsThere
<1>6. PollsInv'
  BY <1>0, <1>1, <1>5 DEF PollsInv, FoundIsStillGood, ExistingIsStillGood
<1> QED
  BY <1>2, <1>4, <1>6

\* The tables of an election are left alone.
TablesStay ==
    UNCHANGED <<created, syncState, seriesOf, series, onchainSeriesId, elections, invalid>>

\* The cursor moves over a range all of whose logs have their row.
LEMMA CursorKeeps ==
    ASSUME IndexingInv, NEW p \in Polls, MoveElectionCursor(p)
    PROVE  RowsFitTogether'
<1>0. IndexingTypeOK /\ RowsFitTogether /\ PollsInv
  BY DEF IndexingInv
<1>1. \A c \in 1..upto[p] : c \in elections
  BY <1>0 DEF MoveElectionCursor, PollsInv, PollsVisitWhatIsThere
<1>2. ASSUME NEW c \in Contracts, c < cursor'
      PROVE  c \in elections
  <2>1. c \in 1..upto[p]
    BY <1>0, <1>2, Numbers DEF MoveElectionCursor, IndexingTypeOK
  <2> QED
    BY <1>1, <2>1
<1> QED
  BY <1>0, <1>2
  DEF MoveElectionCursor, draftTable, seriesTable, electionTable, RowsFitTogether,
      LinkedDraftsAgree, OneElectionPerDraft, EverySeriesIsUnique, NothingIsPassed

\* The invariant of the tables is about them alone.
LEMMA TablesStayKeeps ==
    ASSUME IndexingInv, TablesStay
    PROVE  /\ TablesInv'
           /\ cursor' = cursor => RowsFitTogether'
BY DEF IndexingInv, TablesStay, TablesInv, DraftsKeepTheirSeries, CreatedSeriesHaveTheirId,
       KeysWerePrepared, RowsFitTogether, LinkedDraftsAgree, OneElectionPerDraft,
       EverySeriesIsUnique, NothingIsPassed

\* When a poll is done with a stage, it remembers nothing of a visit.
LEMMA StagesKeep ==
    ASSUME IndexingInv, NEW p \in Polls, TablesStay,
           \/ ScanElections(p) \/ ScanNothing(p) \/ MoveElectionCursor(p)
           \/ ReconcilePreparedElections(p) \/ PollEnds(p) \/ PollFails(p) \/ LinkThrows(p)
    PROVE  PollsInv'
<1> USE DEF draftTable, seriesTable, electionTable, pollVars, PollRests, Forgets
<1>0. IndexingTypeOK /\ RowsFitTogether /\ PollsInv
  BY DEF IndexingInv
<1>1. /\ pc'[p] \notin {"begin", "link"}
      /\ \A q \in Polls \ {p} :
            /\ pc'[q] = pc[q] /\ todo'[q] = todo[q] /\ upto'[q] = upto[q] /\ at'[q] = at[q]
            /\ found'[q] = found[q] /\ existing'[q] = existing[q]
  BY <1>0 DEF IndexingTypeOK, ScanElections, ScanNothing, MoveElectionCursor,
              ReconcilePreparedElections, PollEnds, PollFails, LinkThrows
<1>2. /\ todo'[p] \subseteq 1..created
      /\ upto'[p] \in 0..created
      /\ pc'[p] = "next" /\ upto'[p] # 0 =>
            \A c \in 1..upto'[p] : c \in elections \cup todo'[p]
  <2>1. CASE ScanElections(p)
    <3>1. /\ pc'[p] = "next" /\ upto'[p] = created /\ todo'[p] = cursor..created
      BY <1>0, <2>1 DEF ScanElections, IndexingTypeOK
    <3>2. ASSUME NEW c \in 1..created, c \notin cursor..created
          PROVE  c \in elections
      BY <1>0, <3>2, Numbers DEF IndexingTypeOK, RowsFitTogether, NothingIsPassed
    <3>3. cursor..created \subseteq 1..created /\ created \in 0..created
      BY <1>0, Numbers DEF IndexingTypeOK
    <3> QED
      BY <3>1, <3>2, <3>3
  <2>2. CASE ScanNothing(p)
    <3>1. /\ pc'[p] = "prepared" /\ upto'[p] = created /\ todo'[p] = todo[p]
      BY <1>0, <2>2 DEF ScanNothing, IndexingTypeOK
    <3>2. created \in 0..created
      BY <1>0, Numbers
    <3> QED
      BY <1>0, <3>1, <3>2 DEF PollsInv, PollsVisitWhatIsThere
  <2>3. CASE MoveElectionCursor(p)
    <3>1. /\ pc'[p] = "prepared" /\ upto'[p] = upto[p] /\ todo'[p] = todo[p]
      BY <1>0, <2>3 DEF MoveElectionCursor, IndexingTypeOK
    <3> QED
      BY <1>0, <3>1 DEF PollsInv, PollsVisitWhatIsThere
  <2>4. CASE ReconcilePreparedElections(p)
    <3>1. PICK from \in 1..upto[p] : todo' = [todo EXCEPT ![p] = from..upto[p]]
      BY <2>4 DEF ReconcilePreparedElections
    <3>2. upto'[p] = 0 /\ todo'[p] = from..upto[p]
      BY <1>0, <2>4, <3>1 DEF ReconcilePreparedElections, IndexingTypeOK
    <3>3. upto[p] \in 0..created /\ created \in Nat
      BY <1>0, Numbers DEF PollsInv, PollsVisitWhatIsThere
    <3> QED
      BY <3>2, <3>3
  <2>5. CASE PollEnds(p) \/ PollFails(p) \/ LinkThrows(p)
    <3>1. upto'[p] = 0 /\ todo'[p] = {} /\ created \in Nat
      BY <1>0, <2>5, Numbers DEF PollEnds, PollFails, LinkThrows, IndexingTypeOK
    <3> QED
      BY <3>1
  <2> QED
    BY <2>1, <2>2, <2>3, <2>4, <2>5
<1>3. PollsVisitWhatIsThere'
  BY <1>0, <1>1, <1>2 DEF TablesStay, PollsInv, PollsVisitWhatIsThere
<1>4. FoundIsStillGood'
  BY <1>0, <1>1 DEF TablesStay, PollsInv, FoundIsStillGood
<1>5. ExistingIsStillGood'
  BY <1>0, <1>1 DEF TablesStay, PollsInv, ExistingIsStillGood
<1> QED
  BY <1>3, <1>4, <1>5 DEF PollsInv

\* The draft that is found is PREPARED and in its own series, or INDEXED.
LEMMA LookUpKeeps ==
    ASSUME IndexingInv, NEW p \in Polls, TablesStay, LookUpDraft(p)
    PROVE  PollsInv'
<1>0. IndexingTypeOK /\ RowsFitTogether /\ TablesInv /\ PollsInv
  BY DEF IndexingInv
<1>1. PICK c \in todo[p] :
            /\ todo' = [todo EXCEPT ![p] = @ \ {c}]
            /\ at' = [at EXCEPT ![p] = c]
            /\ found' = [found EXCEPT ![p] =
                  IF DraftOf[c] = NoDraft THEN None ELSE seriesOf[DraftOf[c]]]
  BY DEF LookUpDraft
<1>2. c \in 1..created /\ c \in Contracts
  BY <1>0, Numbers DEF PollsInv, PollsVisitWhatIsThere
<1>3. /\ pc[p] = "next" /\ pc'[p] = "begin" /\ todo'[p] = todo[p] \ {c}
      /\ at'[p] = c /\ upto'[p] = upto[p]
      /\ found'[p] = IF DraftOf[c] = NoDraft THEN None ELSE seriesOf[DraftOf[c]]
      /\ \A q \in Polls \ {p} :
            /\ pc'[q] = pc[q] /\ todo'[q] = todo[q] /\ upto'[q] = upto[q] /\ at'[q] = at[q]
            /\ found'[q] = found[q] /\ existing'[q] = existing[q]
  BY <1>0, <1>1 DEF LookUpDraft, IndexingTypeOK
<1>4. PollsVisitWhatIsThere'
  BY <1>0, <1>2, <1>3 DEF TablesStay, PollsInv, PollsVisitWhatIsThere
<1>5. /\ (found'[p] = None) <=> (DraftOf[c] = NoDraft)
      /\ found'[p] \notin {None, DraftOf[c]} =>
            syncState[DraftOf[c]] = "INDEXED" /\ seriesOf[DraftOf[c]] = found'[p]
  <2>1. CASE DraftOf[c] = NoDraft
    BY <1>3, <2>1, NoneIsNothing
  <2>2. CASE DraftOf[c] # NoDraft
    <3>1. DraftOf[c] \in Drafts /\ syncState[DraftOf[c]] # None
      BY <1>0, <1>2, <2>2, IndexingAssumption DEF TablesInv, KeysWerePrepared
    <3>2. syncState[DraftOf[c]] \in {"PREPARED", "INDEXED"}
      BY <1>0, <3>1 DEF IndexingTypeOK
    <3>3. seriesOf[DraftOf[c]] # None
      BY <1>0, <3>1, NoneIsNothing DEF TablesInv, DraftsKeepTheirSeries, IndexingTypeOK
    <3> QED
      BY <1>0, <1>3, <2>2, <3>1, <3>2, <3>3 DEF TablesInv, DraftsKeepTheirSeries
  <2> QED
    BY <2>1, <2>2
<1>6. FoundIsStillGood'
  BY <1>0, <1>3, <1>5 DEF TablesStay, PollsInv, FoundIsStillGood
<1>7. ExistingIsStillGood'
  BY <1>0, <1>3 DEF TablesStay, PollsInv, ExistingIsStillGood
<1> QED
  BY <1>4, <1>6, <1>7 DEF PollsInv

\* The series that is found has the contract's id.
LEMMA FindSeriesKeeps ==
    ASSUME IndexingInv, NEW p \in Polls, TablesStay, FindSeries(p)
    PROVE  PollsInv'
<1>0. IndexingTypeOK /\ PollsInv
  BY DEF IndexingInv
<1>1. /\ pc[p] = "begin" /\ pc'[p] = "link" /\ UNCHANGED <<todo, upto, at, found>>
      /\ existing'[p] = IF SeriesWith(SeriesIdOf[at[p]]) = {} THEN None
                        ELSE CHOOSE s \in SeriesWith(SeriesIdOf[at[p]]) : TRUE
      /\ \A q \in Polls \ {p} : pc'[q] = pc[q] /\ existing'[q] = existing[q]
  BY <1>0 DEF FindSeries, IndexingTypeOK
<1>2. existing'[p] # None => existing'[p] \in SeriesWith(SeriesIdOf[at[p]])
  BY <1>1
<1>3. PollsVisitWhatIsThere'
  BY <1>0, <1>1 DEF TablesStay, PollsInv, PollsVisitWhatIsThere
<1>4. FoundIsStillGood'
  BY <1>0, <1>1 DEF TablesStay, PollsInv, FoundIsStillGood
<1>5. ExistingIsStillGood'
  BY <1>0, <1>1, <1>2 DEF TablesStay, PollsInv, ExistingIsStillGood, SeriesWith
<1> QED
  BY <1>3, <1>4, <1>5 DEF PollsInv

-----------------------------------------------------------------------------
(***************************************************************************)
(* The transaction that links an election.                                 *)
(***************************************************************************)

\* What p is linking.
Linking(p) == IndexingInv /\ p \in Polls /\ LinkElection(p)

\* What p remembers has the types it should have.
LEMMA LinkTypes ==
    ASSUME NEW p, Linking(p)
    PROVE  /\ pc[p] = "link" /\ at[p] \in 1..created /\ at[p] \in Contracts
           /\ SeriesIdOf[at[p]] \in SeriesIds /\ SeriesIdOf[at[p]] # None
           /\ DraftOf[at[p]] \in Drafts \cup {NoDraft}
           /\ found[p] # None => DraftOf[at[p]] \in Drafts
           /\ (found[p] = None) <=> (DraftOf[at[p]] = NoDraft)
           /\ found[p] \in SeriesRows \cup {None}
           /\ existing[p] # None =>
                 existing[p] \in series /\ onchainSeriesId[existing[p]] = SeriesIdOf[at[p]]
<1>1. IndexingTypeOK /\ PollsInv /\ p \in Polls /\ pc[p] = "link"
  BY DEF Linking, IndexingInv, LinkElection
<1>2. at[p] \in 1..created /\ at[p] \in Contracts
  BY <1>1, Numbers DEF PollsInv, PollsVisitWhatIsThere
<1>3. SeriesIdOf[at[p]] \in SeriesIds /\ DraftOf[at[p]] \in Drafts \cup {NoDraft}
  BY <1>2, IndexingAssumption
<1> QED
  BY <1>1, <1>2, <1>3, NoneIsNothing
  DEF PollsInv, FoundIsStillGood, ExistingIsStillGood, IndexingTypeOK

\* A draft that is INDEXED is indexed by the election at hand, and is where it belongs.
LEMMA LinkAgain ==
    ASSUME NEW p, Linking(p), found[p] # None, syncState[DraftOf[at[p]]] = "INDEXED"
    PROVE  /\ at[p] \in elections
           /\ seriesOf[DraftOf[at[p]]] \in series
           /\ onchainSeriesId[seriesOf[DraftOf[at[p]]]] = SeriesIdOf[at[p]]
           /\ existing[p] # None => existing[p] = seriesOf[DraftOf[at[p]]]
<1>1. IndexingTypeOK /\ RowsFitTogether /\ ~DraftCollides(p) /\ DraftOf[at[p]] \in Drafts
  BY LinkTypes DEF Linking, IndexingInv, LinkElection, Collides
<1>2. at[p] \in elections
  BY <1>1 DEF RowsFitTogether, OneElectionPerDraft, DraftCollides
<1>3. /\ seriesOf[DraftOf[at[p]]] \in series
      /\ onchainSeriesId[seriesOf[DraftOf[at[p]]]] = SeriesIdOf[at[p]]
  BY <1>1, <1>2, NoneIsNothing DEF RowsFitTogether, LinkedDraftsAgree
<1> QED
  BY <1>1, <1>2, <1>3, LinkTypes, NoneIsNothing DEF RowsFitTogether, EverySeriesIsUnique

\* The draft moves out of its first series only, and this has no on-chain id.
LEMMA MovesAre ==
    ASSUME NEW p, Linking(p), Moves(p)
    PROVE  /\ found[p] = DraftOf[at[p]] /\ found[p] \in Drafts
           /\ onchainSeriesId[found[p]] = None
           /\ existing[p] \in series /\ existing[p] # found[p]
           /\ onchainSeriesId[existing[p]] = SeriesIdOf[at[p]]
           /\ syncState[found[p]] = "INDEXED" => seriesOf[found[p]] = existing[p]
           /\ DraftOf[at[p]] \in Drafts /\ found[p] # None
<1>1. /\ found[p] # None /\ existing[p] # None /\ existing[p] # found[p]
      /\ DraftOf[at[p]] \in Drafts
  BY LinkTypes DEF Moves
<1>2. found[p] = DraftOf[at[p]]
  BY <1>1, LinkAgain, LinkTypes DEF Linking, IndexingInv, PollsInv, FoundIsStillGood
<1>3. onchainSeriesId[found[p]] = None
  BY <1>1, <1>2, LinkAgain DEF Linking, IndexingInv, TablesInv, DraftsKeepTheirSeries
<1> QED
  BY <1>1, <1>2, <1>3, LinkAgain, LinkTypes

\* The series that gets the id has it already or has none, and it is the draft's.
LEMMA NamesAre ==
    ASSUME NEW p, Linking(p), Names(p)
    PROVE  /\ found[p] \in series /\ found[p] # None /\ DraftOf[at[p]] \in Drafts
           /\ onchainSeriesId[found[p]] \in {None, SeriesIdOf[at[p]]}
           /\ \A s \in series \ {found[p]} : onchainSeriesId[s] # SeriesIdOf[at[p]]
           /\ seriesOf[DraftOf[at[p]]] = found[p]
           /\ found[p] # DraftOf[at[p]] => onchainSeriesId[found[p]] = SeriesIdOf[at[p]]
<1> DEFINE d == DraftOf[at[p]]
<1>1. found[p] # None /\ d \in Drafts
  BY LinkTypes DEF Names
<1>2. /\ found[p] \in series
      /\ \A s \in series \ {found[p]} : onchainSeriesId[s] # SeriesIdOf[at[p]]
  BY DEF Linking, LinkElection, Collides, SeriesCollides, Names, SeriesWith
<1>3. CASE syncState[d] = "INDEXED"
  <2>1. seriesOf[d] = found[p]
    BY <1>1, <1>2, <1>3, LinkAgain
  <2> QED
    BY <1>1, <1>2, <1>3, <2>1, LinkAgain
<1>4. CASE syncState[d] # "INDEXED"
  <2>1. found[p] = d /\ onchainSeriesId[d] = None
    BY <1>1, <1>4, LinkTypes
    DEF Linking, IndexingInv, PollsInv, FoundIsStillGood, TablesInv, DraftsKeepTheirSeries
  <2>2. syncState[d] = "PREPARED"
    BY <1>1, <1>2, <1>4, <2>1, NoneIsNothing
    DEF Linking, IndexingInv, TablesInv, DraftsKeepTheirSeries, IndexingTypeOK
  <2>3. seriesOf[d] = d
    BY <1>1, <2>2 DEF Linking, IndexingInv, TablesInv, DraftsKeepTheirSeries
  <2> QED
    BY <1>1, <1>2, <2>1, <2>3
<1> QED
  BY <1>3, <1>4

\* The series that is created is not there yet.
LEMMA CreatesAre ==
    ASSUME NEW p, Linking(p), Creates(p)
    PROVE  /\ SeriesIdOf[at[p]] \notin series /\ found[p] = None
           /\ \A s \in series : onchainSeriesId[s] # SeriesIdOf[at[p]]
<1>1. found[p] = None
  BY DEF Creates
<1>2. \A s \in series : onchainSeriesId[s] # SeriesIdOf[at[p]]
  <2>1. series \subseteq SeriesRows /\ None \notin series
    BY NoneIsNothing DEF Linking, IndexingInv, IndexingTypeOK
  <2> QED
    BY <1>1, <2>1 DEF Linking, LinkElection, Collides, SeriesCollides, SeriesWith
<1>3. SeriesIdOf[at[p]] \notin series
  BY <1>2, LinkTypes DEF Linking, IndexingInv, TablesInv, CreatedSeriesHaveTheirId
<1> QED
  BY <1>1, <1>2, <1>3

\* A series that has an id keeps it, and no other series gets the same; a series is
\* deleted only when no draft is in it.
LEMMA LinkedSeries ==
    ASSUME NEW p, Linking(p)
    PROVE  /\ \A s \in series : onchainSeriesId[s] # None =>
                 s \in series' /\ onchainSeriesId'[s] = onchainSeriesId[s]
           /\ \A s \in series' : onchainSeriesId'[s] # None =>
                 \/ s \in series /\ onchainSeriesId[s] = onchainSeriesId'[s]
                 \/ /\ onchainSeriesId'[s] = SeriesIdOf[at[p]]
                    /\ \A r \in series \ {s} : onchainSeriesId[r] # SeriesIdOf[at[p]]
           /\ \E s \in series' : onchainSeriesId'[s] = SeriesIdOf[at[p]]
           /\ series' \subseteq series \cup {SeriesIdOf[at[p]]}
           /\ \A r, s \in series' :
                 \/ r \in series /\ onchainSeriesId[r] = onchainSeriesId'[r]
                 \/ s \in series /\ onchainSeriesId[s] = onchainSeriesId'[s]
                 \/ r = s
<1>0. IndexingTypeOK /\ WriteLinks(p)
  BY DEF Linking, IndexingInv, LinkElection
<1>1. CASE Creates(p)
  <2>1. /\ series' = series \cup {SeriesIdOf[at[p]]}
        /\ onchainSeriesId' = [onchainSeriesId EXCEPT ![SeriesIdOf[at[p]]] = SeriesIdOf[at[p]]]
    BY <1>0, <1>1 DEF WriteLinks
  <2> QED
    BY <1>0, <1>1, <2>1, CreatesAre, LinkTypes, NoneIsNothing DEF IndexingTypeOK
<1>2. CASE Moves(p)
  <2>1. /\ ~Creates(p) /\ ~Names(p)
    BY <1>2 DEF Creates, Names, Moves
  <2>2. /\ series' \subseteq series /\ series \ {found[p]} \subseteq series'
        /\ onchainSeriesId' = onchainSeriesId
    BY <1>0, <2>1 DEF WriteLinks
  <2> QED
    BY <1>2, <2>2, MovesAre
<1>3. CASE Names(p)
  <2>1. /\ ~Creates(p) /\ ~Moves(p)
    BY <1>3 DEF Creates, Names, Moves
  <2>2. /\ series' = series
        /\ onchainSeriesId' = [onchainSeriesId EXCEPT ![found[p]] = SeriesIdOf[at[p]]]
    BY <1>0, <1>3, <2>1 DEF WriteLinks
  <2> QED
    BY <1>0, <1>3, <2>2, NamesAre, LinkTypes DEF IndexingTypeOK
<1>4. CASE ~Creates(p) /\ ~Moves(p) /\ ~Names(p)
  <2>1. found[p] = None /\ existing[p] # None
    BY <1>4, LinkTypes, NoneIsNothing DEF Creates, Names, Moves
  <2>2. series' = series /\ onchainSeriesId' = onchainSeriesId
    BY <1>0, <1>4 DEF WriteLinks
  <2> QED
    BY <2>1, <2>2, LinkTypes
<1> QED
  BY <1>1, <1>2, <1>3, <1>4

\* The draft ends up in the series with the contract's id, and other drafts where they
\* were; a draft that was INDEXED has not moved.
LEMMA LinkedDraft ==
    ASSUME NEW p, Linking(p)
    PROVE  /\ found[p] = None => UNCHANGED <<syncState, seriesOf>>
           /\ found[p] # None =>
                 /\ syncState'[DraftOf[at[p]]] = "INDEXED"
                 /\ seriesOf'[DraftOf[at[p]]] \in series'
                 /\ onchainSeriesId'[seriesOf'[DraftOf[at[p]]]] = SeriesIdOf[at[p]]
                 /\ syncState[DraftOf[at[p]]] = "INDEXED" =>
                       seriesOf'[DraftOf[at[p]]] = seriesOf[DraftOf[at[p]]]
           /\ \A e \in Drafts \ {DraftOf[at[p]]} :
                 /\ syncState'[e] = syncState[e] /\ seriesOf'[e] = seriesOf[e]
                 /\ seriesOf[e] \in series => seriesOf[e] \in series'
<1>0. IndexingTypeOK /\ WriteLinks(p)
  BY DEF Linking, IndexingInv, LinkElection
<1>1. CASE Creates(p)
  <2>1. found[p] = None /\ series \subseteq series' /\ UNCHANGED <<syncState, seriesOf>>
    BY <1>0, <1>1, NoneIsNothing DEF WriteLinks, Creates, Moves
  <2> QED
    BY <2>1
<1>2. CASE Moves(p)
  <2>1. ~Creates(p) /\ ~Names(p) /\ found[p] # None
    BY <1>2 DEF Creates, Names, Moves
  <2>2. /\ syncState' = [syncState EXCEPT ![DraftOf[at[p]]] = "INDEXED"]
        /\ seriesOf' = [seriesOf EXCEPT ![DraftOf[at[p]]] = existing[p]]
        /\ series' = IF IsDeserted(found[p], DraftOf[at[p]]) THEN series \ {found[p]} ELSE series
        /\ onchainSeriesId' = onchainSeriesId
    BY <1>0, <1>2, <2>1 DEF WriteLinks
  <2>3. \A e \in Drafts \ {DraftOf[at[p]]} : seriesOf[e] \in series => seriesOf[e] \in series'
    BY <2>2 DEF IsDeserted
  <2>4. existing[p] \in series'
    BY <1>2, <2>2, MovesAre
  <2> QED
    BY <1>0, <1>2, <2>1, <2>2, <2>3, <2>4, MovesAre DEF IndexingTypeOK
<1>3. CASE Names(p)
  <2>1. ~Creates(p) /\ ~Moves(p) /\ found[p] # None
    BY <1>3 DEF Creates, Names, Moves
  <2>2. /\ syncState' = [syncState EXCEPT ![DraftOf[at[p]]] = "INDEXED"]
        /\ seriesOf' = seriesOf /\ series' = series
        /\ onchainSeriesId' = [onchainSeriesId EXCEPT ![found[p]] = SeriesIdOf[at[p]]]
    BY <1>0, <1>3, <2>1 DEF WriteLinks
  <2> QED
    BY <1>0, <1>3, <2>1, <2>2, NamesAre, LinkTypes DEF IndexingTypeOK
<1>4. CASE ~Creates(p) /\ ~Moves(p) /\ ~Names(p)
  <2>1. found[p] = None
    BY <1>4 DEF Names, Moves
  <2>2. series' = series /\ UNCHANGED <<syncState, seriesOf>>
    BY <1>0, <1>4, <2>1 DEF WriteLinks
  <2> QED
    BY <2>1, <2>2
<1> QED
  BY <1>1, <1>2, <1>3, <1>4

\* The rows still fit together.
LEMMA LinkKeepsRows ==
    ASSUME NEW p, Linking(p)
    PROVE  RowsFitTogether'
<1> DEFINE d == DraftOf[at[p]]
<1>0. /\ IndexingTypeOK /\ RowsFitTogether /\ WriteLinks(p) /\ ~DraftCollides(p)
      /\ elections' = elections \cup {at[p]} /\ UNCHANGED <<created, cursor>>
  BY DEF Linking, IndexingInv, LinkElection, Collides
<1>1. \A c \in elections' : c \in Contracts /\ DraftOf[c] \in Drafts \cup {NoDraft}
  BY <1>0, LinkTypes, IndexingAssumption DEF IndexingTypeOK
<1>2. LinkedDraftsAgree'
  <2> SUFFICES ASSUME NEW c \in elections', DraftOf[c] # NoDraft
               PROVE  /\ syncState'[DraftOf[c]] = "INDEXED"
                      /\ seriesOf'[DraftOf[c]] \in series'
                      /\ onchainSeriesId'[seriesOf'[DraftOf[c]]] = SeriesIdOf[c]
    BY DEF LinkedDraftsAgree
  <2>1. CASE c = at[p]
    BY <2>1, LinkedDraft, LinkTypes
  <2>2. CASE c # at[p]
    <3>1. /\ c \in elections /\ DraftOf[c] \in Drafts /\ DraftOf[c] # d
          /\ syncState[DraftOf[c]] = "INDEXED"
          /\ seriesOf[DraftOf[c]] \in series
          /\ onchainSeriesId[seriesOf[DraftOf[c]]] = SeriesIdOf[c]
      <4>1. c \in elections /\ DraftOf[c] \in Drafts
        BY <1>0, <1>1, <2>2
      <4>2. DraftOf[c] # d
        BY <1>0, <2>2, <4>1, LinkTypes DEF DraftCollides
      <4> QED
        BY <1>0, <4>1, <4>2 DEF RowsFitTogether, LinkedDraftsAgree
    <3>2. SeriesIdOf[c] # None
      BY <1>1, NoneIsNothing, IndexingAssumption
    <3> QED
      BY <3>1, <3>2, LinkedDraft, LinkedSeries
  <2> QED
    BY <2>1, <2>2
<1>3. OneElectionPerDraft'
  <2>1. ASSUME NEW e \in Drafts, syncState'[e] = "INDEXED"
        PROVE  \E c \in elections' : DraftOf[c] = e
    <3>1. CASE found[p] # None /\ e = d
      BY <1>0, <3>1
    <3>2. CASE found[p] = None \/ e # d
      <4>1. syncState[e] = "INDEXED"
        BY <2>1, <3>2, LinkedDraft
      <4> QED
        BY <1>0, <4>1 DEF RowsFitTogether, OneElectionPerDraft
    <3> QED
      BY <3>1, <3>2
  <2>2. ASSUME NEW b \in elections', NEW c \in elections', DraftOf[b] = DraftOf[c],
               DraftOf[b] # NoDraft
        PROVE  b = c
    <3>1. CASE b \in elections /\ c \in elections
      BY <1>0, <2>2, <3>1 DEF RowsFitTogether, OneElectionPerDraft
    <3>2. CASE b = at[p] \/ c = at[p]
      BY <1>0, <2>2, <3>2, LinkTypes DEF DraftCollides
    <3> QED
      BY <1>0, <3>1, <3>2
  <2> QED
    BY <2>1, <2>2 DEF OneElectionPerDraft
<1>4. EverySeriesIsUnique'
  <2>1. ASSUME NEW c \in elections'
        PROVE  \E s \in series' : onchainSeriesId'[s] = SeriesIdOf[c]
    <3>1. CASE c = at[p]
      BY <3>1, LinkedSeries
    <3>2. CASE c # at[p]
      <4>1. PICK s \in series : onchainSeriesId[s] = SeriesIdOf[c]
        BY <1>0, <3>2 DEF RowsFitTogether, EverySeriesIsUnique
      <4>2. SeriesIdOf[c] # None
        BY <1>1, NoneIsNothing, IndexingAssumption
      <4> QED
        BY <4>1, <4>2, LinkedSeries
    <3> QED
      BY <3>1, <3>2
  <2>2. ASSUME NEW r \in series', NEW s \in series',
               onchainSeriesId'[r] = onchainSeriesId'[s], onchainSeriesId'[r] # None
        PROVE  r = s
    <3>1. CASE /\ r \in series /\ onchainSeriesId[r] = onchainSeriesId'[r]
               /\ s \in series /\ onchainSeriesId[s] = onchainSeriesId'[s]
      BY <1>0, <2>2, <3>1 DEF RowsFitTogether, EverySeriesIsUnique
    <3>2. CASE ~(r \in series /\ onchainSeriesId[r] = onchainSeriesId'[r])
      BY <2>2, <3>2, LinkedSeries
    <3>3. CASE ~(s \in series /\ onchainSeriesId[s] = onchainSeriesId'[s])
      BY <2>2, <3>3, LinkedSeries
    <3> QED
      BY <3>1, <3>2, <3>3
  <2> QED
    BY <2>1, <2>2 DEF EverySeriesIsUnique
<1>5. NothingIsPassed'
  <2>1. invalid' = {c \in elections' : DraftOf[c] = NoDraft}
    <3>1. invalid = {c \in elections : DraftOf[c] = NoDraft}
      BY <1>0 DEF RowsFitTogether, NothingIsPassed
    <3>2. CASE found[p] = None
      <4>1. invalid' = invalid \cup {at[p]} /\ DraftOf[at[p]] = NoDraft
        BY <1>0, <3>2, LinkTypes DEF WriteLinks
      <4> QED
        BY <1>0, <3>1, <4>1
    <3>3. CASE found[p] # None
      <4>1. invalid' = invalid \ {at[p]} /\ DraftOf[at[p]] # NoDraft
        BY <1>0, <3>3, LinkTypes DEF WriteLinks
      <4> QED
        BY <1>0, <3>1, <4>1
    <3> QED
      BY <3>2, <3>3
  <2> QED
    BY <1>0, <2>1 DEF RowsFitTogether, NothingIsPassed
<1> QED
  BY <1>2, <1>3, <1>4, <1>5 DEF RowsFitTogether

\* So does the rest of what is known of the tables.
LEMMA LinkKeepsTables ==
    ASSUME NEW p, Linking(p)
    PROVE  TablesInv'
<1> DEFINE d == DraftOf[at[p]]
<1>0. IndexingTypeOK /\ TablesInv /\ WriteLinks(p) /\ created' = created
  BY DEF Linking, IndexingInv, LinkElection
<1>1. DraftsKeepTheirSeries'
  <2> SUFFICES ASSUME NEW e \in Drafts
               PROVE  /\ syncState'[e] = None => seriesOf'[e] = None /\ e \notin series'
                      /\ syncState'[e] = "PREPARED" => seriesOf'[e] = e
                      /\ syncState'[e] # None => seriesOf'[e] \in series'
                      /\ onchainSeriesId'[e] # None =>
                            syncState'[e] = "INDEXED" /\ seriesOf'[e] = e
    BY DEF DraftsKeepTheirSeries
  <2>0. e # SeriesIdOf[at[p]] /\ e # None
    BY LinkTypes, NoneIsNothing, IndexingAssumption
  <2>1. CASE found[p] # None /\ e = d
    <3>1. /\ syncState'[e] = "INDEXED" /\ seriesOf'[e] \in series'
      BY <2>1, LinkedDraft
    <3>2. ASSUME onchainSeriesId'[e] # None
          PROVE  seriesOf'[e] = e
      <4>1. CASE Names(p)
        <5>1. seriesOf[e] = found[p] /\ seriesOf' = seriesOf /\ ~Creates(p)
          BY <1>0, <2>1, <4>1, NamesAre DEF WriteLinks, Names, Moves, Creates
        <5>2. CASE found[p] = e
          BY <5>1, <5>2
        <5>3. CASE found[p] # e
          <6>1. onchainSeriesId[e] # None
            BY <1>0, <3>2, <4>1, <5>1, <5>3 DEF WriteLinks, IndexingTypeOK
          <6> QED
            BY <1>0, <5>1, <6>1 DEF TablesInv, DraftsKeepTheirSeries
        <5> QED
          BY <5>2, <5>3
      <4>2. CASE ~Names(p)
        <5>1. Moves(p) /\ ~Creates(p)
          BY <2>1, <4>2 DEF Names, Moves, Creates
        <5>2. onchainSeriesId'[e] = onchainSeriesId[e] /\ onchainSeriesId[e] = None
          BY <1>0, <2>1, <4>2, <5>1, MovesAre DEF WriteLinks
        <5> QED
          BY <3>2, <5>2
      <4> QED
        BY <4>1, <4>2
    <3> QED
      BY <3>1, <3>2, NoneIsNothing
  <2>2. CASE found[p] = None \/ e # d
    <3>1. syncState'[e] = syncState[e] /\ seriesOf'[e] = seriesOf[e]
      BY <2>2, LinkedDraft
    <3>2. /\ e \in series' => e \in series
          /\ seriesOf[e] \in series => seriesOf[e] \in series'
      <4>1. CASE found[p] = None
        <5>1. series \subseteq series'
          BY <1>0, <4>1 DEF WriteLinks, Moves
        <5> QED
          BY <2>0, <5>1, LinkedSeries
      <4>2. CASE found[p] # None
        BY <2>0, <2>2, <4>2, LinkedSeries, LinkedDraft
      <4> QED
        BY <4>1, <4>2
    <3>3. onchainSeriesId'[e] # None => onchainSeriesId[e] # None
      <4>1. CASE Names(p) /\ found[p] = e
        <5>1. found[p] # d
          BY <2>2, <4>1, NamesAre
        <5> QED
          BY <4>1, <5>1, NamesAre, LinkTypes
      <4>2. CASE ~(Names(p) /\ found[p] = e)
        BY <1>0, <2>0, <4>2 DEF WriteLinks, IndexingTypeOK
      <4> QED
        BY <4>1, <4>2
    <3> QED
      BY <1>0, <3>1, <3>2, <3>3 DEF TablesInv, DraftsKeepTheirSeries
  <2> QED
    BY <2>1, <2>2
<1>2. CreatedSeriesHaveTheirId'
  <2> SUFFICES ASSUME NEW s \in SeriesIds, s \in series'
               PROVE  onchainSeriesId'[s] = s
    BY DEF CreatedSeriesHaveTheirId
  <2>1. CASE s \in series
    <3>1. onchainSeriesId[s] = s /\ s # None
      BY <1>0, <2>1, NoneIsNothing DEF TablesInv, CreatedSeriesHaveTheirId
    <3> QED
      BY <2>1, <3>1, LinkedSeries
  <2>2. CASE s \notin series
    <3>1. Creates(p) /\ s = SeriesIdOf[at[p]]
      BY <1>0, <2>2, LinkedSeries DEF WriteLinks
    <3> QED
      BY <1>0, <3>1, NoneIsNothing DEF WriteLinks, IndexingTypeOK
  <2> QED
    BY <2>1, <2>2
<1>3. KeysWerePrepared'
  <2> SUFFICES ASSUME NEW c \in 1..created, DraftOf[c] # NoDraft
               PROVE  syncState'[DraftOf[c]] # None
    BY <1>0 DEF KeysWerePrepared
  <2>1. DraftOf[c] \in Drafts /\ syncState[DraftOf[c]] # None
    BY <1>0, Numbers, IndexingAssumption DEF TablesInv, KeysWerePrepared
  <2> QED
    BY <1>0, <2>1, NoneIsNothing DEF WriteLinks, IndexingTypeOK
<1> QED
  BY <1>1, <1>2, <1>3 DEF TablesInv

\* What other polls remember stays true.
LEMMA LinkKeepsPolls ==
    ASSUME NEW p, Linking(p)
    PROVE  PollsInv'
<1>0. IndexingTypeOK /\ PollsInv /\ p \in Polls
  BY DEF Linking, IndexingInv
<1>1. /\ pc[p] = "link" /\ pc'[p] = "next"
      /\ elections' = elections \cup {at[p]} /\ UNCHANGED <<created, todo, upto>>
      /\ \A q \in Polls \ {p} : /\ pc'[q] = pc[q] /\ at'[q] = at[q]
                                /\ found'[q] = found[q] /\ existing'[q] = existing[q]
  BY <1>0 DEF Linking, LinkElection, Forgets, IndexingTypeOK
<1>2. PollsVisitWhatIsThere'
  BY <1>0, <1>1 DEF PollsInv, PollsVisitWhatIsThere
<1>3. FoundIsStillGood'
  <2> SUFFICES ASSUME NEW q \in Polls \ {p}, pc[q] \in {"begin", "link"},
                      found[q] \notin {None, DraftOf[at[q]]}
               PROVE  /\ syncState'[DraftOf[at[q]]] = "INDEXED"
                      /\ seriesOf'[DraftOf[at[q]]] = found[q]
    BY <1>0, <1>1 DEF PollsInv, FoundIsStillGood
  <2>1. /\ syncState[DraftOf[at[q]]] = "INDEXED"
        /\ seriesOf[DraftOf[at[q]]] = found[q]
        /\ DraftOf[at[q]] # NoDraft
    BY <1>0, NoneIsNothing DEF PollsInv, FoundIsStillGood
  <2>2. DraftOf[at[q]] \in Drafts
    BY <1>0, <2>1, Numbers, IndexingAssumption DEF PollsInv, PollsVisitWhatIsThere
  <2>3. CASE found[p] = None
    BY <2>1, <2>3, LinkedDraft
  <2>4. CASE found[p] # None
    BY <2>1, <2>2, <2>4, LinkedDraft
  <2> QED
    BY <2>3, <2>4
<1>4. ExistingIsStillGood'
  <2> SUFFICES ASSUME NEW q \in Polls \ {p}, pc[q] = "link", existing[q] # None
               PROVE  /\ existing[q] \in series'
                      /\ onchainSeriesId'[existing[q]] = SeriesIdOf[at[q]]
    BY <1>0, <1>1 DEF PollsInv, ExistingIsStillGood
  <2>1. existing[q] \in series /\ onchainSeriesId[existing[q]] = SeriesIdOf[at[q]]
    BY <1>0 DEF PollsInv, ExistingIsStillGood
  <2>2. SeriesIdOf[at[q]] # None
    BY <1>0, Numbers, NoneIsNothing, IndexingAssumption DEF PollsInv, PollsVisitWhatIsThere
  <2> QED
    BY <2>1, <2>2, LinkedSeries
<1> QED
  BY <1>2, <1>3, <1>4 DEF PollsInv

-----------------------------------------------------------------------------
(***************************************************************************)
(* The theorems about indexing.                                            *)
(***************************************************************************)

\* IndexingInv holds at the start.
LEMMA IndexingInvInit == IndexingInit => IndexingInv
<1> SUFFICES ASSUME IndexingInit
             PROVE  IndexingInv
  OBVIOUS
<1>1. IndexingTypeOK
  BY IndexingAssumption DEF IndexingInit, IndexingTypeOK
<1>2. RowsFitTogether
  BY IndexingAssumption, NoneIsNothing
  DEF IndexingInit, RowsFitTogether, LinkedDraftsAgree, OneElectionPerDraft,
      EverySeriesIsUnique, NothingIsPassed
<1>3. TablesInv
  BY NoneIsNothing
  DEF IndexingInit, TablesInv, DraftsKeepTheirSeries, CreatedSeriesHaveTheirId,
      KeysWerePrepared
<1>4. PollsInv
  BY DEF IndexingInit, PollsInv, PollsVisitWhatIsThere, FoundIsStillGood, ExistingIsStillGood
<1> QED
  BY <1>1, <1>2, <1>3, <1>4 DEF IndexingInv

\* Every step of a poll keeps IndexingInv.
LEMMA PollKeepsInv ==
    ASSUME IndexingInv, NEW p \in Polls, PollStep(p)
    PROVE  IndexingInv'
<1>1. IndexingTypeOK'
  BY PollTyped
<1>2. CASE LinkElection(p)
  BY <1>1, <1>2, LinkKeepsRows, LinkKeepsTables, LinkKeepsPolls DEF Linking, IndexingInv
<1>3. CASE MoveElectionCursor(p)
  <2>1. TablesStay
    BY <1>3 DEF MoveElectionCursor, TablesStay, draftTable, seriesTable, electionTable
  <2> QED
    BY <1>1, <1>3, <2>1, CursorKeeps, TablesStayKeeps, StagesKeep DEF IndexingInv
<1>4. CASE \/ ScanElections(p) \/ ScanNothing(p) \/ ReconcilePreparedElections(p)
           \/ PollEnds(p) \/ PollFails(p) \/ LinkThrows(p)
  <2>1. TablesStay /\ cursor' = cursor
    BY <1>4 DEF ScanElections, ScanNothing, ReconcilePreparedElections, PollEnds, PollFails,
                LinkThrows, TablesStay, draftTable, seriesTable, electionTable
  <2> QED
    BY <1>1, <1>4, <2>1, TablesStayKeeps, StagesKeep DEF IndexingInv
<1>5. CASE LookUpDraft(p)
  <2>1. TablesStay /\ cursor' = cursor
    BY <1>5 DEF LookUpDraft, TablesStay, draftTable, seriesTable, electionTable
  <2> QED
    BY <1>1, <1>5, <2>1, TablesStayKeeps, LookUpKeeps DEF IndexingInv
<1>6. CASE FindSeries(p)
  <2>1. TablesStay /\ cursor' = cursor
    BY <1>6 DEF FindSeries, TablesStay, draftTable, seriesTable, electionTable
  <2> QED
    BY <1>1, <1>6, <2>1, TablesStayKeeps, FindSeriesKeeps DEF IndexingInv
<1> QED
  BY <1>2, <1>3, <1>4, <1>5, <1>6 DEF PollStep

\* Every step keeps IndexingInv.
LEMMA IndexingInvNext == IndexingInv /\ [IndexingNext]_indexingVars => IndexingInv'
<1> SUFFICES ASSUME IndexingInv, [IndexingNext]_indexingVars
             PROVE  IndexingInv'
  OBVIOUS
<1>1. ASSUME NEW d \in Drafts, Prepare(d)
      PROVE  IndexingInv'
  BY <1>1, PrepareKeeps, EnvironmentTyped DEF IndexingInv
<1>2. CASE CreateElection
  BY <1>2, CreateElectionKeeps, EnvironmentTyped DEF IndexingInv
<1>3. ASSUME NEW p \in Polls, PollStep(p)
      PROVE  IndexingInv'
  BY <1>3, PollKeepsInv
<1>4. CASE UNCHANGED indexingVars
  BY <1>4
  DEF IndexingInv, IndexingTypeOK, RowsFitTogether, LinkedDraftsAgree, OneElectionPerDraft,
      EverySeriesIsUnique, NothingIsPassed, TablesInv, DraftsKeepTheirSeries,
      CreatedSeriesHaveTheirId, KeysWerePrepared, PollsInv, PollsVisitWhatIsThere,
      FoundIsStillGood, ExistingIsStillGood, indexingVars, draftTable, seriesTable,
      electionTable, pollVars
<1> QED
  BY <1>1, <1>2, <1>3, <1>4 DEF IndexingNext

\* A step of the registration is one of indexing, or leaves its tables alone.
LEMMA NextIsIndexing == [Next]_vars => [IndexingNext]_indexingVars
BY DEF Next, IndexingStep, VerificationStep, vars

\* Whatever the polls remember between their await points is still good enough when
\* they use it.
THEOREM IndexingInvariant == Spec => []IndexingInv
<1>1. Init => IndexingInv
  BY IndexingInvInit DEF Init
<1>2. IndexingInv /\ [Next]_vars => IndexingInv'
  BY IndexingInvNext, NextIsIndexing
<1> QED
  BY <1>1, <1>2, PTL DEF Spec

\* The rows that preparation and indexing make of an election fit together at every
\* moment, however many polls overlap and wherever they fail.
THEOREM RowsAlwaysFit == Spec => []RowsFitTogether
<1>1. IndexingInv => RowsFitTogether
  BY DEF IndexingInv
<1> QED
  BY <1>1, IndexingInvariant, PTL

\* No step takes a series its on-chain id, or deletes it.
LEMMA StepsKeepIds ==
    ASSUME IndexingInv, [IndexingNext]_indexingVars
    PROVE  \A s \in series : onchainSeriesId[s] # None =>
               s \in series' /\ onchainSeriesId'[s] = onchainSeriesId[s]
<1> USE DEF seriesTable
<1>1. ASSUME NEW p \in Polls, LinkElection(p)
      PROVE  \A s \in series : onchainSeriesId[s] # None =>
                 s \in series' /\ onchainSeriesId'[s] = onchainSeriesId[s]
  BY <1>1, LinkedSeries DEF Linking
<1>2. ASSUME NEW p \in Polls, PollStep(p), ~LinkElection(p)
      PROVE  UNCHANGED seriesTable
  BY <1>2 DEF PollStep, ScanElections, ScanNothing, MoveElectionCursor,
              ReconcilePreparedElections, PollEnds, PollFails, LookUpDraft, FindSeries, LinkThrows
<1>3. ASSUME NEW d \in Drafts, Prepare(d)
      PROVE  series' = series \cup {d} /\ onchainSeriesId' = onchainSeriesId
  BY <1>3 DEF Prepare
<1>4. ASSUME CreateElection \/ UNCHANGED indexingVars
      PROVE  UNCHANGED seriesTable
  BY <1>4 DEF CreateElection, indexingVars
<1> QED
  BY <1>1, <1>2, <1>3, <1>4 DEF IndexingNext

\* A series that has an on-chain id keeps it for good.
THEOREM SeriesKeepTheirIds == Spec => SeriesIdsArePermanent
<1>1. IndexingInv /\ [Next]_vars =>
          [\A s \in series : onchainSeriesId[s] # None =>
              s \in series' /\ onchainSeriesId'[s] = onchainSeriesId[s]]_indexingVars
  BY StepsKeepIds, NextIsIndexing
<1> QED
  BY <1>1, IndexingInvariant, PTL DEF Spec, SeriesIdsArePermanent

-----------------------------------------------------------------------------
(***************************************************************************)
(* The inductive invariant of verification.  A decision that runs alone is *)
(* the only one with a transaction, and what it has done so far is known.  *)
(***************************************************************************)

\* A handler is at an await of its own, and remembers what this await needs.
HandlersAreWhereTheyMayBe ==
    \A r \in Requests :
        /\ (handling[r] = "nothing") <=> (where[r] = "idle")
        /\ (handling[r] = "request") <=> (where[r] = "save")
        /\ where[r] = "save" => spelling[r] \in Spellings
        /\ r \in Deciding => row[r] \in DOMAIN organizers

\* A transaction that a request has sent is the one it waits for.
SendersWait ==
    /\ \A i \in DOMAIN sent : sent[i].by \in Requests => where[sent[i].by] = "wait"
    /\ \A i, j \in DOMAIN sent : sent[i].by = sent[j].by /\ sent[i].by \in Requests => i = j

\* A decision that runs alone has sent the only transaction, if any is pending; when it
\* has its receipt the registry says what was decided.
AloneIsAlone ==
    \A r \in Deciding : alone[r] =>
        /\ Deciding = {r}
        /\ where[r] = "wait" => Len(sent) = 1 /\ sent[1] = [by |-> r, decision |-> handling[r]]
        /\ where[r] # "wait" => sent = <<>>
        /\ where[r] = "store" /\ Configured => registry = (handling[r] = "approve")

\* While row and registry have not come apart, decisions are made one by one.
DecisionsAreMadeOneByOne ==
    ~apart => /\ \A r \in Deciding : alone[r]
              /\ Deciding = {} => sent = <<>>

\* Until a decision has sent its transaction, the row says what the registry says.
RowAndRegistryAgree ==
    /\ Configured /\ ~apart /\ Len(organizers) = 1
    /\ \A r \in Deciding : where[r] = "send"
    => /\ organizers[1].status = "VERIFIED" => registry
       /\ organizers[1].status = "REJECTED" => ~registry

VerificationInv ==
    /\ VerificationTypeOK
    /\ HandlersAreWhereTheyMayBe
    /\ SendersWait
    /\ AloneIsAlone
    /\ DecisionsAreMadeOneByOne
    /\ RowAndRegistryAgree

-----------------------------------------------------------------------------
(***************************************************************************)
(* Its proof, one lemma for each step.                                     *)
(***************************************************************************)

\* The rows of verified_organizers, and the transactions to the registry.
Organizer == [wallet : Spellings, status : {"PENDING", "VERIFIED", "REJECTED"}]
Transaction == [by : Requests \cup {NoSpelling}, decision : Decisions]

\* The types, with names for the sequences' elements.
LEMMA VerificationTypes ==
    VerificationTypeOK <=>
        /\ organizers \in Seq(Organizer)
        /\ latest \in 0..Len(organizers)
        /\ registry \in BOOLEAN
        /\ sent \in Seq(Transaction)
        /\ handling \in [Requests -> {"nothing", "request"} \cup Decisions]
        /\ where \in [Requests -> {"idle", "save", "send", "wait", "store"}]
        /\ row \in [Requests -> 0..Len(organizers)]
        /\ spelling \in [Requests -> Spellings \cup {NoSpelling}]
        /\ faults \in 0..MaxFaults
        /\ alone \in [Requests -> BOOLEAN]
        /\ apart \in BOOLEAN
BY DEF VerificationTypeOK, Organizer, Transaction

\* A handler that is under way is not looking for work.
LEMMA FindKeeps ==
    ASSUME VerificationInv, NEW r \in Requests, FindOrganizer(r)
    PROVE  VerificationInv'
<1>0. VerificationTypeOK
  BY DEF VerificationInv
<1>1. /\ handling[r] = "nothing" /\ where[r] = "idle"
      /\ handling' = [handling EXCEPT ![r] = "request"]
      /\ where' = [where EXCEPT ![r] = "save"]
      /\ row' = [row EXCEPT ![r] = latest]
      /\ UNCHANGED <<organizers, latest, registry, sent, faults, alone, apart>>
  BY DEF FindOrganizer, VerificationInv, HandlersAreWhereTheyMayBe
<1>2. PICK s \in Spellings : spelling' = [spelling EXCEPT ![r] = s]
  BY DEF FindOrganizer
<1>3. /\ handling'[r] = "request" /\ where'[r] = "save" /\ spelling'[r] \in Spellings
      /\ \A q \in Requests \ {r} : /\ handling'[q] = handling[q] /\ where'[q] = where[q]
                                   /\ row'[q] = row[q] /\ spelling'[q] = spelling[q]
  BY <1>0, <1>1, <1>2, VerificationTypes
<1>4. Deciding' = Deciding /\ r \notin Deciding
  BY <1>1, <1>3 DEF Deciding, Decisions
<1>5. VerificationTypeOK'
  BY <1>0, <1>1, <1>2, VerificationTypes DEF VerificationTypeOK
<1>6. HandlersAreWhereTheyMayBe'
  BY <1>1, <1>3, <1>4 DEF VerificationInv, HandlersAreWhereTheyMayBe
<1>7. SendersWait'
  BY <1>1, <1>3 DEF VerificationInv, SendersWait
<1>8. AloneIsAlone' /\ DecisionsAreMadeOneByOne' /\ RowAndRegistryAgree'
  <2>1. \A q \in Deciding : q \in Requests \ {r}
    BY <1>4 DEF Deciding
  <2>2. AloneIsAlone'
    BY <1>1, <1>3, <1>4, <2>1 DEF VerificationInv, AloneIsAlone
  <2>3. DecisionsAreMadeOneByOne'
    BY <1>1, <1>4 DEF VerificationInv, DecisionsAreMadeOneByOne
  <2>4. RowAndRegistryAgree'
    BY <1>1, <1>3, <1>4, <2>1 DEF VerificationInv, RowAndRegistryAgree
  <2> QED
    BY <2>2, <2>3, <2>4
<1> QED
  BY <1>5, <1>6, <1>7, <1>8 DEF VerificationInv

\* When a request answers it is through with everything.
LEMMA AnsweredIsIdle ==
    ASSUME VerificationTypeOK, NEW r \in Requests, Answers(r)
    PROVE  /\ handling'[r] = "nothing" /\ where'[r] = "idle"
           /\ \A q \in Requests \ {r} :
                 /\ handling'[q] = handling[q] /\ where'[q] = where[q] /\ row'[q] = row[q]
                 /\ spelling'[q] = spelling[q] /\ alone'[q] = alone[q]
           /\ Deciding' = Deciding \ {r}
           /\ handling' \in [Requests -> {"nothing", "request"} \cup Decisions]
           /\ where' \in [Requests -> {"idle", "save", "send", "wait", "store"}]
           /\ row' \in [Requests -> 0..Len(organizers)]
           /\ spelling' \in [Requests -> Spellings \cup {NoSpelling}]
           /\ alone' \in [Requests -> BOOLEAN]
<1>1. /\ handling'[r] = "nothing" /\ where'[r] = "idle"
      /\ \A q \in Requests \ {r} :
            /\ handling'[q] = handling[q] /\ where'[q] = where[q] /\ row'[q] = row[q]
            /\ spelling'[q] = spelling[q] /\ alone'[q] = alone[q]
  BY VerificationTypes DEF Answers
<1>2. Deciding' = Deciding \ {r}
  BY <1>1 DEF Deciding, Decisions
<1>3. Len(organizers) \in Nat
  BY VerificationTypes
<1> QED
  BY <1>1, <1>2, <1>3, VerificationTypes DEF Answers

\* A request for verification leaves the row PENDING, whatever the registry says.
LEMMA SaveKeeps ==
    ASSUME VerificationInv, NEW r \in Requests, SaveRequest(r)
    PROVE  VerificationInv'
<1> DEFINE pending == [wallet |-> spelling[r], status |-> "PENDING"]
<1>0. VerificationTypeOK /\ Answers(r) /\ UNCHANGED <<registry, sent, faults, apart>>
  BY DEF VerificationInv, SaveRequest
<1>1. where[r] = "save" /\ handling[r] = "request" /\ r \notin Deciding
  BY DEF SaveRequest, VerificationInv, HandlersAreWhereTheyMayBe, Deciding, Decisions
<1>2. pending \in Organizer /\ row[r] \in 0..Len(organizers) /\ Len(organizers) \in Nat
  BY <1>0, <1>1, VerificationTypes
  DEF VerificationInv, HandlersAreWhereTheyMayBe, Organizer
<1>3. /\ organizers' \in Seq(Organizer) /\ latest' \in 0..Len(organizers')
      /\ Len(organizers') \in Nat /\ Len(organizers) <= Len(organizers')
      /\ DOMAIN organizers \subseteq DOMAIN organizers'
      /\ Len(organizers') = 1 => \/ organizers' = organizers
                                 \/ organizers'[1].status = "PENDING"
  <2>1. CASE UNCHANGED <<organizers, latest>>
    BY <1>0, <1>2, <2>1, VerificationTypes
  <2>2. CASE row[r] = 0 /\ organizers' = Append(organizers, pending)
                        /\ latest' = Len(organizers) + 1
    BY <1>0, <1>2, <2>2, VerificationTypes
  <2>3. CASE row[r] # 0 /\ organizers' = [organizers EXCEPT ![row[r]] = pending]
                        /\ latest' = row[r]
    BY <1>0, <1>2, <2>3, VerificationTypes
  <2> QED
    BY <2>1, <2>2, <2>3 DEF SaveRequest
<1>4. Deciding' = Deciding /\ \A q \in Deciding : q \in Requests \ {r}
  BY <1>0, <1>1, AnsweredIsIdle DEF Deciding
<1>5. VerificationTypeOK'
  <2>1. row' \in [Requests -> 0..Len(organizers')]
    BY <1>0, <1>2, <1>3, AnsweredIsIdle
  <2> QED
    BY <1>0, <1>3, <2>1, AnsweredIsIdle, VerificationTypes
    DEF VerificationTypeOK, Organizer
<1>6. HandlersAreWhereTheyMayBe'
  BY <1>0, <1>3, <1>4, AnsweredIsIdle DEF VerificationInv, HandlersAreWhereTheyMayBe
<1>7. SendersWait'
  BY <1>0, <1>1, AnsweredIsIdle DEF VerificationInv, SendersWait
<1>8. AloneIsAlone'
  BY <1>0, <1>4, AnsweredIsIdle DEF VerificationInv, AloneIsAlone
<1>9. DecisionsAreMadeOneByOne'
  BY <1>0, <1>4, AnsweredIsIdle DEF VerificationInv, DecisionsAreMadeOneByOne
<1>10. RowAndRegistryAgree'
  BY <1>0, <1>3, <1>4, AnsweredIsIdle DEF VerificationInv, RowAndRegistryAgree
<1> QED
  BY <1>5, <1>6, <1>7, <1>8, <1>9, <1>10 DEF VerificationInv

\* A decision that begins while another one is under way, or a transaction pending, may
\* leave row and registry different.
LEMMA DecideKeeps ==
    ASSUME VerificationInv, NEW r \in Requests, NEW decision \in Decisions, Decide(r, decision)
    PROVE  VerificationInv'
<1>0. VerificationTypeOK
  BY DEF VerificationInv
<1>1. PICK i \in DOMAIN organizers : row' = [row EXCEPT ![r] = i]
  BY DEF Decide
<1>2. /\ handling[r] = "nothing" /\ where[r] = "idle" /\ r \notin Deciding
      /\ UNCHANGED <<organizers, latest, registry, sent, spelling, faults>>
      /\ apart' = (apart \/ Deciding # {} \/ sent # <<>>)
  BY DEF Decide, VerificationInv, HandlersAreWhereTheyMayBe, Deciding, Decisions
<1>3. /\ handling'[r] = decision /\ where'[r] = IF Configured THEN "send" ELSE "store"
      /\ row'[r] \in DOMAIN organizers
      /\ alone'[r] = (Deciding = {} /\ sent = <<>>)
      /\ \A q \in Requests \ {r} : /\ handling'[q] = handling[q] /\ where'[q] = where[q]
                                   /\ row'[q] = row[q]
                                   /\ alone'[q] = (alone[q] /\ q \notin Deciding)
  BY <1>0, <1>1, VerificationTypes DEF Decide
<1>4. Deciding' = Deciding \cup {r}
  BY <1>3 DEF Deciding
<1>5. VerificationTypeOK'
  <2>1. row' \in [Requests -> 0..Len(organizers)]
    BY <1>0, <1>1, VerificationTypes
  <2>2. alone' \in [Requests -> BOOLEAN]
    BY <1>0, VerificationTypes DEF Decide
  <2>3. apart' \in BOOLEAN
    BY <1>2
  <2>4. where' \in [Requests -> {"idle", "save", "send", "wait", "store"}]
    BY <1>0, VerificationTypes DEF Decide
  <2>5. handling' \in [Requests -> {"nothing", "request"} \cup Decisions]
    BY <1>0, VerificationTypes DEF Decide
  <2> QED
    BY <1>0, <1>2, <2>1, <2>2, <2>3, <2>4, <2>5 DEF VerificationTypeOK
<1>6. HandlersAreWhereTheyMayBe'
  BY <1>2, <1>3, <1>4 DEF VerificationInv, HandlersAreWhereTheyMayBe, Deciding, Decisions
<1>7. SendersWait'
  BY <1>2, <1>3 DEF VerificationInv, SendersWait
<1>8. AloneIsAlone'
  BY <1>2, <1>3, <1>4 DEF VerificationInv, AloneIsAlone, Deciding
<1>9. DecisionsAreMadeOneByOne'
  BY <1>2, <1>3, <1>4 DEF VerificationInv, DecisionsAreMadeOneByOne
<1>10. RowAndRegistryAgree'
  BY <1>2, <1>3, <1>4 DEF VerificationInv, RowAndRegistryAgree, DecisionsAreMadeOneByOne
<1> QED
  BY <1>5, <1>6, <1>7, <1>8, <1>9, <1>10 DEF VerificationInv

\* A request sends one transaction, and waits for it.
LEMMA SendKeeps ==
    ASSUME VerificationInv, NEW r \in Requests, SendVerification(r)
    PROVE  VerificationInv'
<1> DEFINE tx == [by |-> r, decision |-> handling[r]]
<1>0. VerificationTypeOK
  BY DEF VerificationInv
<1>1. /\ where[r] = "send" /\ sent' = Append(sent, tx)
      /\ where' = [where EXCEPT ![r] = "wait"]
      /\ UNCHANGED <<organizers, latest, registry, handling, row, spelling, faults, alone, apart>>
  BY DEF SendVerification
<1>2. /\ where'[r] = "wait" /\ \A q \in Requests \ {r} : where'[q] = where[q]
      /\ Deciding' = Deciding
  BY <1>0, <1>1, VerificationTypes DEF Deciding
<1>3. r \in Deciding
  BY <1>0, <1>1, VerificationTypes DEF VerificationInv, HandlersAreWhereTheyMayBe, Deciding
<1>4. tx \in Transaction /\ sent \in Seq(Transaction) /\ sent' \in Seq(Transaction)
  BY <1>0, <1>1, <1>3, VerificationTypes DEF Transaction, Deciding
<1>5. /\ Len(sent') = Len(sent) + 1 /\ Len(sent) \in Nat /\ sent'[Len(sent) + 1] = tx
      /\ DOMAIN sent' = 1..Len(sent) + 1 /\ DOMAIN sent = 1..Len(sent)
      /\ \A i \in 1..Len(sent) : sent'[i] = sent[i]
  BY <1>1, <1>4
<1>6. VerificationTypeOK'
  BY <1>0, <1>1, <1>4, VerificationTypes DEF VerificationTypeOK, Transaction
<1>7. HandlersAreWhereTheyMayBe'
  BY <1>1, <1>2, <1>3 DEF VerificationInv, HandlersAreWhereTheyMayBe
<1>8. SendersWait'
  <2>1. \A i \in DOMAIN sent : sent[i].by # r
    BY <1>1 DEF VerificationInv, SendersWait
  <2>2. \A i \in DOMAIN sent' : i \in DOMAIN sent \/ i = Len(sent) + 1
    BY <1>5
  <2> QED
    BY <1>1, <1>2, <1>5, <2>1, <2>2 DEF VerificationInv, SendersWait
<1>9. AloneIsAlone'
  <2> SUFFICES ASSUME NEW q \in Deciding, alone[q]
               PROVE  /\ Deciding = {q}
                      /\ where'[q] = "wait" =>
                            Len(sent') = 1 /\ sent'[1] = [by |-> q, decision |-> handling[q]]
                      /\ where'[q] # "wait" => sent' = <<>>
                      /\ where'[q] = "store" /\ Configured => registry = (handling[q] = "approve")
    BY <1>1, <1>2 DEF AloneIsAlone
  <2>1. Deciding = {q} /\ q = r
    BY <1>3 DEF VerificationInv, AloneIsAlone
  <2>2. sent = <<>>
    BY <1>1, <2>1 DEF VerificationInv, AloneIsAlone
  <2>3. Len(sent') = 1 /\ sent'[1] = tx
    BY <1>5, <2>2
  <2> QED
    BY <1>2, <2>1, <2>3
<1>10. DecisionsAreMadeOneByOne'
  BY <1>1, <1>2, <1>3 DEF VerificationInv, DecisionsAreMadeOneByOne
<1>11. RowAndRegistryAgree'
  BY <1>1, <1>2, <1>3 DEF VerificationInv, RowAndRegistryAgree
<1> QED
  BY <1>6, <1>7, <1>8, <1>9, <1>10, <1>11 DEF VerificationInv

\* A receipt lets the sender go on, and nobody else.
LEMMA ReceiptIsForTheSender ==
    ASSUME VerificationInv, sent # <<>>, Receipt,
           UNCHANGED <<organizers, handling, row, spelling>>
    PROVE  /\ sent' \in Seq(Transaction) /\ Len(sent') = Len(sent) - 1 /\ Len(sent) \in Nat \ {0}
           /\ Head(sent) = sent[1] /\ sent[1] \in Transaction
           /\ where' \in [Requests -> {"idle", "save", "send", "wait", "store"}]
           /\ \A q \in Requests : /\ sent[1].by = q => where[q] = "wait" /\ where'[q] = "store"
                                  /\ sent[1].by # q => where'[q] = where[q]
           /\ Deciding' = Deciding
           /\ HandlersAreWhereTheyMayBe' /\ SendersWait'
<1>0. VerificationTypeOK
  BY DEF VerificationInv
<1>1. /\ sent' \in Seq(Transaction) /\ Len(sent') = Len(sent) - 1 /\ Len(sent) \in Nat \ {0}
      /\ Head(sent) = sent[1] /\ sent[1] \in Transaction
      /\ DOMAIN sent' = 1..Len(sent) - 1 /\ DOMAIN sent = 1..Len(sent)
      /\ \A i \in 1..Len(sent) - 1 : sent'[i] = sent[i + 1]
  BY <1>0, VerificationTypes DEF Receipt
<1>2. \A q \in Requests : sent[1].by = q => where[q] = "wait"
  BY <1>1 DEF VerificationInv, SendersWait
<1>3. \A q \in Requests : where'[q] = IF sent[1].by = q THEN "store" ELSE where[q]
  BY <1>1 DEF Receipt
<1>4. where' \in [Requests -> {"idle", "save", "send", "wait", "store"}]
  BY <1>0, <1>1, VerificationTypes DEF Receipt
<1>5. Deciding' = Deciding
  BY DEF Deciding
<1>6. HandlersAreWhereTheyMayBe'
  BY <1>2, <1>3, <1>5 DEF VerificationInv, HandlersAreWhereTheyMayBe
<1>7. SendersWait'
  <2>1. \A i \in 1..Len(sent) - 1 : i + 1 \in 1..Len(sent) /\ i + 1 # 1
    BY <1>1
  <2>2. \A i \in DOMAIN sent' : sent'[i].by \in Requests =>
            sent'[i].by # sent[1].by /\ where[sent'[i].by] = "wait"
    BY <1>1, <2>1 DEF VerificationInv, SendersWait
  <2>3. \A i, j \in DOMAIN sent' : sent'[i].by = sent'[j].by /\ sent'[i].by \in Requests => i = j
    <3> SUFFICES ASSUME NEW i \in 1..Len(sent) - 1, NEW j \in 1..Len(sent) - 1,
                        sent[i + 1].by = sent[j + 1].by, sent[i + 1].by \in Requests
                 PROVE  i = j
      BY <1>1
    <3>1. i + 1 = j + 1
      BY <1>1, <2>1 DEF VerificationInv, SendersWait
    <3> QED
      BY <3>1
  <2> QED
    BY <1>3, <2>2, <2>3 DEF SendersWait
<1> QED
  BY <1>1, <1>2, <1>3, <1>4, <1>5, <1>6, <1>7

\* When the only decision that is under way has its receipt, the registry says what was
\* decided.
LEMMA SetKeeps ==
    ASSUME VerificationInv, SetVerification
    PROVE  VerificationInv'
<1>0. /\ VerificationTypeOK /\ sent # <<>> /\ Receipt
      /\ registry' = (Head(sent).decision = "approve")
      /\ UNCHANGED <<organizers, latest, handling, row, spelling, faults, alone, apart>>
  BY DEF VerificationInv, SetVerification
<1>1. VerificationTypeOK'
  BY <1>0, ReceiptIsForTheSender, VerificationTypes DEF VerificationTypeOK, Transaction
<1>2. AloneIsAlone'
  <2> SUFFICES ASSUME NEW q \in Deciding, alone[q]
               PROVE  /\ Deciding = {q} /\ where'[q] = "store" /\ sent' = <<>>
                      /\ registry' = (handling[q] = "approve")
    BY <1>0, ReceiptIsForTheSender DEF AloneIsAlone
  <2>1. Deciding = {q} /\ where[q] = "wait" /\ Len(sent) = 1
        /\ sent[1] = [by |-> q, decision |-> handling[q]]
    BY <1>0 DEF VerificationInv, AloneIsAlone
  <2>2. sent' = <<>>
    BY <1>0, <2>1, ReceiptIsForTheSender
  <2> QED
    BY <1>0, <2>1, <2>2, ReceiptIsForTheSender DEF Deciding
<1>3. DecisionsAreMadeOneByOne'
  BY <1>0, ReceiptIsForTheSender DEF VerificationInv, DecisionsAreMadeOneByOne
<1>4. RowAndRegistryAgree'
  <2> SUFFICES ASSUME ~apart
               PROVE  \E q \in Deciding : where'[q] # "send"
    BY <1>0, ReceiptIsForTheSender DEF RowAndRegistryAgree
  <2>1. PICK q \in Deciding : alone[q]
    BY <1>0 DEF VerificationInv, DecisionsAreMadeOneByOne
  <2>2. where[q] = "wait"
    BY <1>0, <2>1 DEF VerificationInv, AloneIsAlone
  <2>3. where'[q] \in {"wait", "store"}
    BY <1>0, <2>2, ReceiptIsForTheSender DEF Deciding
  <2> QED
    BY <2>3
<1> QED
  BY <1>0, <1>1, <1>2, <1>3, <1>4, ReceiptIsForTheSender DEF VerificationInv

\* After a reverted transaction nothing is claimed of row and registry.
LEMMA RevertKeeps ==
    ASSUME VerificationInv, VerificationReverts
    PROVE  VerificationInv'
<1>0. /\ VerificationTypeOK /\ sent # <<>> /\ Receipt /\ apart' = TRUE
      /\ alone' = [r \in Requests |-> alone[r] /\ Head(sent).by # r]
      /\ faults < MaxFaults /\ faults' = faults + 1
      /\ UNCHANGED <<organizers, latest, registry, handling, row, spelling>>
  BY DEF VerificationInv, VerificationReverts, Fault
<1>1. VerificationTypeOK'
  <2>1. alone' \in [Requests -> BOOLEAN] /\ faults' \in 0..MaxFaults
    BY <1>0, VerificationTypes, VerificationAssumption
  <2> QED
    BY <1>0, <2>1, ReceiptIsForTheSender, VerificationTypes DEF VerificationTypeOK, Transaction
<1>2. AloneIsAlone'
  <2>1. ASSUME NEW q \in Deciding, alone'[q]
        PROVE  FALSE
    <3>1. q \in Requests /\ alone[q] /\ sent[1].by # q
      BY <1>0, <2>1, ReceiptIsForTheSender DEF Deciding
    <3>2. sent[1].by = q
      <4>1. where[q] = "wait"
        BY <1>0, <3>1 DEF VerificationInv, AloneIsAlone
      <4>2. sent[1] = [by |-> q, decision |-> handling[q]]
        BY <3>1, <4>1 DEF VerificationInv, AloneIsAlone
      <4> QED
        BY <4>2
    <3> QED
      BY <3>1, <3>2
  <2> QED
    BY <1>0, <2>1, ReceiptIsForTheSender DEF AloneIsAlone
<1> QED
  BY <1>0, <1>1, <1>2, ReceiptIsForTheSender
  DEF VerificationInv, DecisionsAreMadeOneByOne, RowAndRegistryAgree

\* A decision that ran alone settles what row and registry say.
LEMMA StoreKeeps ==
    ASSUME VerificationInv, NEW r \in Requests, StoreDecision(r)
    PROVE  VerificationInv'
<1> DEFINE status == IF handling[r] = "approve" THEN "VERIFIED" ELSE "REJECTED"
           stored == [wallet |-> organizers[row[r]].wallet, status |-> status]
<1>0. /\ VerificationTypeOK /\ Answers(r) /\ UNCHANGED <<registry, sent, faults>>
      /\ where[r] = "store"
      /\ organizers' = [organizers EXCEPT ![row[r]] = stored]
      /\ latest' = row[r] /\ apart' = (apart /\ ~alone[r])
  BY DEF VerificationInv, StoreDecision
<1>1. r \in Deciding /\ row[r] \in DOMAIN organizers
  BY <1>0, VerificationTypes DEF VerificationInv, HandlersAreWhereTheyMayBe, Deciding
<1>2. /\ organizers' \in Seq(Organizer) /\ Len(organizers') = Len(organizers)
      /\ Len(organizers) \in Nat /\ DOMAIN organizers' = DOMAIN organizers
      /\ DOMAIN organizers = 1..Len(organizers)
      /\ organizers'[row[r]].status = status
  <2>1. organizers \in Seq(Organizer) /\ organizers[row[r]] \in Organizer
    BY <1>0, <1>1, VerificationTypes
  <2>2. stored \in Organizer /\ stored.status = status
    BY <2>1 DEF Organizer
  <2> QED
    BY <1>0, <1>1, <2>1, <2>2
<1>3. VerificationTypeOK'
  BY <1>0, <1>1, <1>2, AnsweredIsIdle, VerificationTypes DEF VerificationTypeOK, Organizer
<1>5. HandlersAreWhereTheyMayBe'
  BY <1>0, <1>2, AnsweredIsIdle DEF VerificationInv, HandlersAreWhereTheyMayBe
<1>6. SendersWait'
  <2>1. \A q \in Requests : where[q] = "wait" => where'[q] = "wait"
    BY <1>0, AnsweredIsIdle
  <2>2. sent' = sent
    BY <1>0
  <2> QED
    BY <2>1, <2>2 DEF VerificationInv, SendersWait
<1>7. AloneIsAlone'
  <2>1. ASSUME NEW q \in Deciding', alone'[q]
        PROVE  FALSE
    <3>1. q \in Deciding /\ q # r /\ alone[q]
      BY <1>0, <2>1, AnsweredIsIdle DEF Deciding
    <3>2. Deciding = {q}
      BY <3>1 DEF VerificationInv, AloneIsAlone
    <3> QED
      BY <1>1, <3>1, <3>2
  <2> QED
    BY <2>1 DEF AloneIsAlone
<1>8. DecisionsAreMadeOneByOne'
  <2> SUFFICES ASSUME ~apart'
               PROVE  Deciding' = {} /\ sent = <<>>
    BY <1>0 DEF DecisionsAreMadeOneByOne
  <2>1. alone[r]
    BY <1>0, <1>1 DEF VerificationInv, DecisionsAreMadeOneByOne
  <2> QED
    BY <1>0, <1>1, <2>1, AnsweredIsIdle DEF VerificationInv, AloneIsAlone
<1>9. RowAndRegistryAgree'
  <2> SUFFICES ASSUME ~apart', Configured, Len(organizers) = 1
               PROVE  organizers'[1].status = status /\ registry = (handling[r] = "approve")
    <3>1. registry' = registry /\ Len(organizers') = Len(organizers)
      BY <1>0, <1>2
    <3>2. /\ status = "VERIFIED" => handling[r] = "approve"
          /\ status = "REJECTED" => handling[r] # "approve"
      OBVIOUS
    <3> QED
      BY <3>1, <3>2 DEF RowAndRegistryAgree
  <2>1. alone[r]
    BY <1>0, <1>1 DEF VerificationInv, DecisionsAreMadeOneByOne
  <2>2. row[r] = 1
    BY <1>1, <1>2
  <2> QED
    BY <1>0, <1>1, <1>2, <2>1, <2>2 DEF VerificationInv, AloneIsAlone
<1> QED
  BY <1>3, <1>5, <1>6, <1>7, <1>8, <1>9 DEF VerificationInv

\* A request that fails after it has sent a transaction leaves it to its fate.
LEMMA FailKeeps ==
    ASSUME VerificationInv, NEW r \in Requests, RequestFails(r)
    PROVE  VerificationInv'
<1>0. /\ VerificationTypeOK /\ Answers(r) /\ UNCHANGED <<organizers, latest, registry>>
      /\ handling[r] # "nothing"
      /\ faults < MaxFaults /\ faults' = faults + 1
      /\ apart' = (apart \/ where[r] \in {"wait", "store"})
  BY DEF VerificationInv, RequestFails, Fault
<1>1. /\ sent' \in Seq(Transaction) /\ DOMAIN sent' = DOMAIN sent /\ Len(sent') = Len(sent)
      /\ \A i \in DOMAIN sent : IF sent[i].by = r THEN sent'[i].by = NoSpelling
                                                  ELSE sent'[i] = sent[i]
  <2>1. sent \in Seq(Transaction) /\ DOMAIN sent = 1..Len(sent) /\ Len(sent) \in Nat
    BY <1>0, VerificationTypes
  <2>2. \A i \in DOMAIN sent :
            /\ sent[i] \in Transaction
            /\ [by |-> NoSpelling, decision |-> sent[i].decision] \in Transaction
    <3>1. \A i \in DOMAIN sent : sent[i] \in Transaction
      BY <2>1
    <3>2. \A i \in DOMAIN sent : sent[i].decision \in Decisions
      BY <3>1 DEF Transaction
    <3> QED
      BY <3>1, <3>2 DEF Transaction
  <2>3. sent' = [i \in 1..Len(sent) |->
            IF sent[i].by = r THEN [by |-> NoSpelling, decision |-> sent[i].decision]
            ELSE sent[i]]
    BY <2>1 DEF RequestFails
  <2>4. sent' \in Seq(Transaction) /\ DOMAIN sent' = 1..Len(sent) /\ Len(sent') = Len(sent)
    BY <2>1, <2>2, <2>3
  <2> QED
    BY <2>1, <2>2, <2>3, <2>4
<1>2. VerificationTypeOK'
  <2>1. faults' \in 0..MaxFaults
    BY <1>0, VerificationTypes, VerificationAssumption
  <2> QED
    BY <1>0, <1>1, <2>1, AnsweredIsIdle, VerificationTypes
    DEF VerificationTypeOK, Transaction
<1>3. HandlersAreWhereTheyMayBe'
  BY <1>0, AnsweredIsIdle DEF VerificationInv, HandlersAreWhereTheyMayBe
<1>4. SendersWait'
  <2>1. \A i \in DOMAIN sent : sent'[i].by \in Requests =>
            sent'[i] = sent[i] /\ sent[i].by \in Requests \ {r}
    BY <1>1, VerificationAssumption
  <2>2. \A q \in Requests \ {r} : where'[q] = where[q]
    BY <1>0, AnsweredIsIdle
  <2>3. DOMAIN sent' = DOMAIN sent
    BY <1>1
  <2>4. \A i \in DOMAIN sent' : sent'[i].by \in Requests => where'[sent'[i].by] = "wait"
    BY <2>1, <2>2, <2>3 DEF VerificationInv, SendersWait
  <2>5. \A i, j \in DOMAIN sent' : sent'[i].by = sent'[j].by /\ sent'[i].by \in Requests => i = j
    BY <2>1, <2>3 DEF VerificationInv, SendersWait
  <2> QED
    BY <2>4, <2>5 DEF SendersWait
<1>5. ASSUME NEW q \in Deciding \ {r}, alone[q]
      PROVE  sent' = sent
  <2>1. \A i \in DOMAIN sent : sent[i].by # r
    <3>1. r \notin Deciding
      BY <1>5 DEF VerificationInv, AloneIsAlone
    <3>2. where[r] # "wait"
      BY <1>0, <3>1, VerificationTypes DEF VerificationInv, HandlersAreWhereTheyMayBe, Deciding
    <3> QED
      BY <3>2 DEF VerificationInv, SendersWait
  <2>2. \A i \in DOMAIN sent : sent'[i] = sent[i]
    BY <1>1, <2>1
  <2>3. sent \in Seq(Transaction) /\ sent' \in Seq(Transaction)
    BY <1>0, <1>1, VerificationTypes
  <2>4. sent = [i \in 1..Len(sent) |-> sent[i]] /\ sent' = [i \in 1..Len(sent') |-> sent'[i]]
    BY <2>3
  <2> QED
    BY <1>1, <2>2, <2>3, <2>4
<1>6. AloneIsAlone'
  <2>1. Deciding' = Deciding \ {r}
    BY <1>0, AnsweredIsIdle
  <2> SUFFICES ASSUME NEW q \in Deciding \ {r}, alone'[q]
               PROVE  /\ Deciding = {q}
                      /\ where[q] = "wait" =>
                            Len(sent) = 1 /\ sent[1] = [by |-> q, decision |-> handling[q]]
                      /\ where[q] # "wait" => sent = <<>>
                      /\ where[q] = "store" /\ Configured => registry = (handling[q] = "approve")
                      /\ sent' = sent
    <3>1. \A q \in Deciding \ {r} : /\ q \in Requests /\ where'[q] = where[q]
                                     /\ handling'[q] = handling[q] /\ alone'[q] = alone[q]
      BY <1>0, AnsweredIsIdle DEF Deciding
    <3> QED
      BY <1>0, <2>1, <3>1 DEF AloneIsAlone
  <2>2. alone[q]
    BY <1>0, AnsweredIsIdle DEF Deciding
  <2>3. sent' = sent
    BY <1>5, <2>2
  <2> QED
    BY <2>2, <2>3 DEF VerificationInv, AloneIsAlone
<1>7. DecisionsAreMadeOneByOne'
  <2> SUFFICES ASSUME ~apart'
               PROVE  /\ \A q \in Deciding' : alone'[q]
                      /\ Deciding' = {} => sent' = <<>>
    BY DEF DecisionsAreMadeOneByOne
  <2>1. ~apart /\ where[r] \notin {"wait", "store"}
    BY <1>0
  <2>2. \A q \in Deciding' : alone'[q]
    BY <1>0, <2>1, AnsweredIsIdle DEF VerificationInv, DecisionsAreMadeOneByOne, Deciding
  <2>3. ASSUME Deciding' = {}
        PROVE  sent = <<>>
    <3>1. Deciding \subseteq {r}
      BY <1>0, <2>3, AnsweredIsIdle
    <3>2. CASE Deciding = {}
      BY <2>1, <3>2 DEF VerificationInv, DecisionsAreMadeOneByOne
    <3>3. CASE r \in Deciding
      <4>1. alone[r]
        BY <2>1, <3>3 DEF VerificationInv, DecisionsAreMadeOneByOne
      <4> QED
        BY <2>1, <3>3, <4>1 DEF VerificationInv, AloneIsAlone
    <3> QED
      BY <3>1, <3>2, <3>3
  <2>4. sent = <<>> => sent' = <<>>
    BY <1>1
  <2> QED
    BY <2>2, <2>3, <2>4
<1>8. RowAndRegistryAgree'
  <2> SUFFICES ASSUME Configured, ~apart', Len(organizers) = 1,
                      \A q \in Deciding' : where'[q] = "send"
               PROVE  /\ organizers[1].status = "VERIFIED" => registry
                      /\ organizers[1].status = "REJECTED" => ~registry
    BY <1>0 DEF RowAndRegistryAgree
  <2>1. ~apart /\ where[r] \notin {"wait", "store"}
    BY <1>0
  <2>2. \A q \in Deciding \ {r} : q \in Requests /\ where[q] = "send"
    BY <1>0, AnsweredIsIdle DEF Deciding
  <2>3. r \in Deciding => where[r] = "send"
    BY <1>0, <2>1, VerificationTypes
    DEF VerificationInv, HandlersAreWhereTheyMayBe, Deciding, Decisions
  <2> QED
    BY <2>1, <2>2, <2>3 DEF VerificationInv, RowAndRegistryAgree
<1> QED
  BY <1>2, <1>3, <1>4, <1>6, <1>7, <1>8 DEF VerificationInv

-----------------------------------------------------------------------------
(***************************************************************************)
(* The theorems about verification.                                        *)
(***************************************************************************)

\* VerificationInv holds at the start.
LEMMA VerificationInvInit == VerificationInit => VerificationInv
<1> SUFFICES ASSUME VerificationInit
             PROVE  VerificationInv
  OBVIOUS
<1>1. VerificationTypeOK
  <2>1. organizers \in Seq(Organizer) /\ sent \in Seq(Transaction) /\ Len(organizers) = 0
    BY DEF VerificationInit
  <2>2. alone \in [Requests -> BOOLEAN] /\ apart \in BOOLEAN /\ registry \in BOOLEAN
    BY Zenon DEF VerificationInit
  <2>3. row \in [Requests -> 0..0] /\ latest \in 0..0 /\ faults \in 0..MaxFaults
    BY VerificationAssumption DEF VerificationInit
  <2>4. /\ handling \in [Requests -> {"nothing", "request"} \cup Decisions]
        /\ where \in [Requests -> {"idle", "save", "send", "wait", "store"}]
        /\ spelling \in [Requests -> Spellings \cup {NoSpelling}]
    BY DEF VerificationInit
  <2> QED
    BY <2>1, <2>2, <2>3, <2>4, VerificationTypes
<1>2. Deciding = {}
  BY DEF VerificationInit, Deciding, Decisions
<1>3. HandlersAreWhereTheyMayBe /\ AloneIsAlone
  BY <1>2 DEF VerificationInit, HandlersAreWhereTheyMayBe, AloneIsAlone
<1>4. organizers = <<>> /\ sent = <<>> /\ Len(organizers) = 0 /\ DOMAIN sent = {}
  BY DEF VerificationInit
<1>5. SendersWait /\ DecisionsAreMadeOneByOne /\ RowAndRegistryAgree
  BY <1>2, <1>4 DEF SendersWait, DecisionsAreMadeOneByOne, RowAndRegistryAgree
<1> QED
  BY <1>1, <1>3, <1>5 DEF VerificationInv

\* Every step keeps VerificationInv.
LEMMA VerificationInvNext ==
    VerificationInv /\ [VerificationNext]_verificationVars => VerificationInv'
<1> SUFFICES ASSUME VerificationInv, [VerificationNext]_verificationVars
             PROVE  VerificationInv'
  OBVIOUS
<1>1. ASSUME NEW r \in Requests, RequestStep(r)
      PROVE  VerificationInv'
  BY <1>1, FindKeeps, SaveKeeps, DecideKeeps, SendKeeps, StoreKeeps, FailKeeps DEF RequestStep
<1>2. CASE UNCHANGED verificationVars
  BY <1>2
  DEF VerificationInv, VerificationTypeOK, HandlersAreWhereTheyMayBe, SendersWait, AloneIsAlone,
      DecisionsAreMadeOneByOne, RowAndRegistryAgree, Deciding, verificationVars
<1> QED
  BY <1>1, <1>2, SetKeeps, RevertKeeps DEF VerificationNext

\* A decision that runs alone is the only one with a transaction, whatever else is asked
\* for and wherever it fails.
THEOREM VerificationInvariant == Spec => []VerificationInv
<1>1. Init => VerificationInv
  BY VerificationInvInit DEF Init
<1>2. VerificationInv /\ [Next]_vars => VerificationInv'
  BY VerificationInvNext DEF Next, IndexingStep, VerificationStep, vars
<1> QED
  BY <1>1, <1>2, PTL DEF Spec

\* The elections API shows an organizer only while the registry has the wallet verified,
\* as long as nothing has come between the two changes of a decision.
THEOREM RegistryAlwaysAgrees == Spec => []RegistryAgrees
<1>1. VerificationInv => RegistryAgrees
  <2> SUFFICES ASSUME VerificationInv, Configured, ~apart, Deciding = {}, Len(organizers) = 1
               PROVE  /\ OrganizerIsShown => registry
                      /\ organizers[1].status = "REJECTED" => ~registry
    BY DEF RegistryAgrees
  <2>1. DOMAIN organizers = {1}
    BY VerificationTypes DEF VerificationInv
  <2> QED
    BY <2>1 DEF VerificationInv, RowAndRegistryAgree, OrganizerIsShown
<1> QED
  BY <1>1, VerificationInvariant, PTL

\* The variables keep their types.
THEOREM TypeCorrectness == Spec => []TypeOK
<1>1. IndexingInv /\ VerificationInv => TypeOK
  BY DEF IndexingInv, VerificationInv, TypeOK
<1> QED
  BY <1>1, IndexingInvariant, VerificationInvariant, PTL
=============================================================================
