---------------------------- MODULE VoteHistory_proofs ----------------------------
(***************************************************************************)
(* Theorems about VoteHistory, for any votes in the two tables, any limit  *)
(* a client asks for, and any votes stored while it walks.                 *)
(***************************************************************************)
EXTENDS VoteHistory, BallotProcessing_proofs, WellFoundedInduction

-----------------------------------------------------------------------------
(***************************************************************************)
(* The order of the rows.                                                  *)
(***************************************************************************)

\* A set of rows of the two tables: an id occurs once in each table.
ArePlaced(set) ==
    /\ \A r \in set : r.table \in Tables /\ r.id \in Nat
                      /\ Timestamp(r) \in Nat /\ BlockNumber(r) \in Nat
    /\ \A r, s \in set : r.table = s.table /\ r.id = s.id => r = s

\* compareHistoryItems orders such rows, and no two are equal in the order.
LEMMA RowsAreOrdered ==
    ASSUME NEW set, ArePlaced(set)
    PROVE  /\ \A r \in set : ~ComesBefore(r, r)
           /\ \A r, s \in set : r = s \/ ComesBefore(r, s) \/ ComesBefore(s, r)
           /\ \A r, s, u \in set : ComesBefore(r, s) /\ ComesBefore(s, u) => ComesBefore(r, u)
<1>1. \A r, s \in set : Position(r) = Position(s) <=>
          Timestamp(r) = Timestamp(s) /\ BlockNumber(r) = BlockNumber(s) /\ r.id = s.id
  BY DEF Position
<1>2. \A r, s \in set : Older(Position(r), Position(s)) <=>
          \/ Timestamp(r) < Timestamp(s)
          \/ Timestamp(r) = Timestamp(s) /\ BlockNumber(r) < BlockNumber(s)
          \/ Timestamp(r) = Timestamp(s) /\ BlockNumber(r) = BlockNumber(s) /\ r.id < s.id
  BY DEF Position, Older
<1> DEFINE before(r, s) ==
          \/ Timestamp(s) < Timestamp(r)
          \/ Timestamp(s) = Timestamp(r) /\ BlockNumber(s) < BlockNumber(r)
          \/ Timestamp(s) = Timestamp(r) /\ BlockNumber(s) = BlockNumber(r) /\ s.id < r.id
          \/ /\ Timestamp(s) = Timestamp(r) /\ BlockNumber(s) = BlockNumber(r) /\ s.id = r.id
             /\ r.table = "private" /\ s.table = "open"
<1>3. \A r, s \in set : ComesBefore(r, s) <=> before(r, s)
  BY <1>1, <1>2 DEF ComesBefore
<1>4. \A r \in set : ~before(r, r)
  BY DEF ArePlaced
<1>5. \A r, s \in set : r = s \/ before(r, s) \/ before(s, r)
  BY DEF ArePlaced, Tables
<1>6. \A r, s, u \in set : before(r, s) /\ before(s, u) => before(r, u)
  BY DEF ArePlaced, Tables
<1> HIDE DEF before
<1> QED
  BY <1>3, <1>4, <1>5, <1>6

\* The rows of a set before one of them.
Ahead(set, r) == {s \in set : ComesBefore(s, r)}

\* The earlier of two rows has fewer rows before it.
LEMMA AheadGrows ==
    ASSUME NEW set, IsFiniteSet(set), ArePlaced(set),
           NEW r \in set, NEW s \in set, ComesBefore(s, r)
    PROVE  /\ Ahead(set, s) \subseteq Ahead(set, r)
           /\ s \in Ahead(set, r) /\ s \notin Ahead(set, s)
           /\ Cardinality(Ahead(set, s)) < Cardinality(Ahead(set, r))
<1>1. /\ Ahead(set, s) \subseteq Ahead(set, r)
      /\ s \in Ahead(set, r) /\ s \notin Ahead(set, s)
  BY RowsAreOrdered DEF Ahead
<1>2. IsFiniteSet(Ahead(set, r))
  BY FS_Subset DEF Ahead
<1>3. Cardinality(Ahead(set, s)) \in Nat /\ Cardinality(Ahead(set, r)) \in Nat
  BY <1>1, <1>2, FS_Subset, FS_CardinalityType
<1> QED
  BY <1>1, <1>2, <1>3, FS_Subset

\* Some rows of a set have a first one.
LEMMA FirstExists ==
    ASSUME NEW set, IsFiniteSet(set), ArePlaced(set), NEW T, T \subseteq set, T # {}
    PROVE  \E m \in T : \A s \in T : ~ComesBefore(s, m)
<1> DEFINE D == {Ahead(set, r) : r \in T}
<1>1. D \subseteq FiniteSubsetsOf(set) /\ D # {}
  <2>1. \A r : Ahead(set, r) \in SUBSET set /\ IsFiniteSet(Ahead(set, r))
    BY FS_Subset DEF Ahead
  <2> QED
    BY <2>1 DEF FiniteSubsetsOf
<1>2. PICK x \in D : \A y \in D : <<y, x>> \notin StrictSubsetOrdering(set)
  <2> HIDE DEF D
  <2> QED
    BY <1>1, FS_StrictSubsetOrderingWellFounded, WFMin
<1>3. PICK m \in T : x = Ahead(set, m)
  BY <1>2
<1>4. ASSUME NEW s \in T, ComesBefore(s, m)
      PROVE  FALSE
  <2>1. Ahead(set, s) \subseteq Ahead(set, m) /\ Ahead(set, s) # Ahead(set, m)
    BY <1>4, AheadGrows
  <2>2. Ahead(set, s) \in SUBSET set /\ Ahead(set, m) \in SUBSET set
    BY DEF Ahead
  <2>3. <<Ahead(set, s), x>> \in StrictSubsetOrdering(set)
    BY <1>3, <2>1, <2>2 DEF StrictSubsetOrdering
  <2> QED
    BY <1>2, <2>3
<1> QED
  BY <1>4

\* A page that is not empty has a last row.
LEMMA LastIsLast ==
    ASSUME NEW page, IsFiniteSet(page), ArePlaced(page), page # {}
    PROVE  /\ LastOf(page) \in page
           /\ \A s \in page : s = LastOf(page) \/ ComesBefore(s, LastOf(page))
<1> DEFINE D == {page \ Ahead(page, r) : r \in page}
<1>1. D \subseteq FiniteSubsetsOf(page) /\ D # {}
  <2>1. \A r : page \ Ahead(page, r) \in SUBSET page /\ IsFiniteSet(page \ Ahead(page, r))
    BY FS_Subset
  <2> QED
    BY <2>1 DEF FiniteSubsetsOf
<1>2. PICK x \in D : \A y \in D : <<y, x>> \notin StrictSubsetOrdering(page)
  <2> HIDE DEF D
  <2> QED
    BY <1>1, FS_StrictSubsetOrderingWellFounded, WFMin
<1>3. PICK m \in page : x = page \ Ahead(page, m)
  BY <1>2
<1>4. ASSUME NEW s \in page, ComesBefore(m, s)
      PROVE  FALSE
  <2>1. /\ Ahead(page, m) \subseteq Ahead(page, s)
        /\ m \in Ahead(page, s) /\ m \notin Ahead(page, m)
    BY <1>4, AheadGrows
  <2>2. page \ Ahead(page, s) \subseteq x /\ page \ Ahead(page, s) # x
    BY <1>3, <2>1
  <2>3. <<page \ Ahead(page, s), x>> \in StrictSubsetOrdering(page)
    BY <1>3, <2>2 DEF StrictSubsetOrdering
  <2> QED
    BY <1>2, <2>3
<1>5. \E r \in page : \A s \in page \ {r} : ComesBefore(s, r)
  BY <1>4, RowsAreOrdered
<1> QED
  BY <1>5 DEF LastOf

\* The query's take: whatever row of the set is left out, n rows come before it.
LEMMA LeftOutRows ==
    ASSUME NEW set, IsFiniteSet(set), ArePlaced(set), NEW n \in Nat,
           NEW r \in set, r \notin FirstOf(n, set)
    PROVE  /\ Cardinality(FirstOf(n, set)) >= n
           /\ \A s \in FirstOf(n, set) : ComesBefore(s, r)
<1> DEFINE T == set \ FirstOf(n, set)
<1>1. PICK m \in T : \A s \in T : ~ComesBefore(s, m)
  BY FirstExists
<1>2. Ahead(set, m) \subseteq FirstOf(n, set) /\ ~(Cardinality(Ahead(set, m)) < n)
  BY <1>1 DEF Ahead, FirstOf
<1>3. IsFiniteSet(FirstOf(n, set))
  BY FS_Subset DEF FirstOf
<1>4. Cardinality(Ahead(set, m)) <= Cardinality(FirstOf(n, set))
      /\ Cardinality(Ahead(set, m)) \in Nat /\ Cardinality(FirstOf(n, set)) \in Nat
  BY <1>2, <1>3, FS_Subset, FS_CardinalityType
<1>5. ASSUME NEW s \in FirstOf(n, set)
      PROVE  ComesBefore(s, r)
  <2>1. s \in set /\ s # r /\ Cardinality(Ahead(set, s)) < n /\ ~(Cardinality(Ahead(set, r)) < n)
    BY DEF FirstOf, Ahead
  <2>2. Cardinality(Ahead(set, s)) \in Nat /\ Cardinality(Ahead(set, r)) \in Nat
    BY FS_Subset, FS_CardinalityType DEF Ahead
  <2>3. ~ComesBefore(r, s)
    BY <2>1, <2>2, AheadGrows
  <2> QED
    BY <2>1, <2>3, RowsAreOrdered
<1> QED
  BY <1>2, <1>4, <1>5

\* A set of at most n rows is taken as a whole.
LEMMA TakesSmallSets ==
    ASSUME NEW set, IsFiniteSet(set), ArePlaced(set), NEW n \in Nat, Cardinality(set) <= n
    PROVE  FirstOf(n, set) = set
<1> SUFFICES ASSUME NEW r \in set
             PROVE  Cardinality(Ahead(set, r)) < n
  BY DEF FirstOf, Ahead
<1>1. Ahead(set, r) \subseteq set /\ r \notin Ahead(set, r)
  BY RowsAreOrdered DEF Ahead
<1>2. Cardinality(set) \in Nat /\ Cardinality(Ahead(set, r)) \in Nat
      /\ Cardinality(Ahead(set, r)) < Cardinality(set)
  BY <1>1, FS_Subset, FS_CardinalityType
<1> QED
  BY <1>2

\* A row that is taken has fewer than n rows before it.
LEMMA TakenRows ==
    ASSUME NEW set, IsFiniteSet(set), ArePlaced(set), NEW n \in Nat,
           NEW r \in FirstOf(n, set), NEW T, T \subseteq set, \A s \in T : ComesBefore(s, r)
    PROVE  Cardinality(T) < n
<1>1. T \subseteq Ahead(set, r) /\ Cardinality(Ahead(set, r)) < n /\ IsFiniteSet(Ahead(set, r))
  BY FS_Subset DEF Ahead, FirstOf
<1>2. Cardinality(T) \in Nat /\ Cardinality(Ahead(set, r)) \in Nat
      /\ Cardinality(T) <= Cardinality(Ahead(set, r))
  BY <1>1, FS_Subset, FS_CardinalityType
<1> QED
  BY <1>1, <1>2

\* A page is empty only for a page size of 0 or when there is nothing to show.
LEMMA FullPages ==
    ASSUME NEW set, IsFiniteSet(set), ArePlaced(set), NEW n \in Nat, n > 0, set # {}
    PROVE  FirstOf(n, set) # {}
<1>1. PICK r \in set : TRUE
  OBVIOUS
<1> QED
  BY <1>1, LeftOutRows, FS_EmptySet

-----------------------------------------------------------------------------
(***************************************************************************)
(* The inductive invariant of a walk.                                      *)
(***************************************************************************)

Rows == RowsOf("private") \cup RowsOf("open")

WalkTypes ==
    /\ rows \in [Tables -> Seq(Submissions \cup OpenVotes)]
    /\ rows["private"] \in Seq(Submissions) /\ rows["open"] \in Seq(OpenVotes)
    /\ limit \in Int
    /\ pages \in Seq(SUBSET Rows)
    /\ DOMAIN read \subseteq Tables
    /\ more \in BOOLEAN
    /\ present \subseteq Rows /\ \A r \in present : WrittenBy(r) = Voter

\* A query is out only while the walk goes on, and then every page had an item to put
\* the cursor on.
WalkGoesOn ==
    /\ read # NoAnswer => more
    /\ more => \A i \in DOMAIN pages : pages[i] # {}

\* What a later page shows is older than all that earlier pages have shown.
PagesDescend ==
    \A i, j \in DOMAIN pages : i < j =>
        \A r \in pages[i], s \in pages[j] : Older(Position(s), Position(r))

\* The answer to a query lacks a vote of the walk only when it is full of newer ones.
IsAnswer(t, set) ==
    /\ set \subseteq RowsOf(t)
    /\ \A r \in set : AfterCursor(r)
    /\ \A r \in present : r.table = t /\ AfterCursor(r) =>
          \/ r \in set
          \/ Cardinality(set) >= PageSize + 1 /\ \A s \in set : ComesBefore(s, r)

AnswersAreCut == \A t \in DOMAIN read : IsAnswer(t, read[t])

\* A vote of the walk has been shown, or is skipped, or is still to come.
Shown(r) == \E i \in DOMAIN pages : r \in pages[i] \/ SkippedAt(pages[i], r)

NothingIsLost ==
    PageSize > 0 => \A r \in present : Shown(r) \/ (more /\ AfterCursor(r))

WalkInv ==
    /\ WalkTypes
    /\ WalkGoesOn
    /\ PagesDescend
    /\ AnswersAreCut
    /\ NothingIsLost

\* The rows of a table are as many as its ids.
LEMMA TablesAreFinite ==
    ASSUME WalkTypes, NEW t \in Tables
    PROVE  IsFiniteSet(RowsOf(t))
<1> DEFINE row(i) == [table |-> t, id |-> i, vote |-> rows[t][i]]
           f == [i \in DOMAIN rows[t] |-> row(i)]
<1>1. IsFiniteSet(DOMAIN rows[t])
  <2>0. rows[t] \in Seq(Submissions \cup OpenVotes)
    BY DEF WalkTypes
  <2>1. DOMAIN rows[t] = 1..Len(rows[t]) /\ Len(rows[t]) \in Nat
    BY <2>0
  <2>2. IsFiniteSet(1..Len(rows[t]))
    BY <2>1, FS_Interval
  <2> QED
    BY <2>1, <2>2, Zenon
<1>2. f \in Surjection(DOMAIN rows[t], RowsOf(t))
  BY DEF Surjection, RowsOf
<1> HIDE DEF f
<1> QED
  BY <1>1, <1>2, FS_Surjection

\* The rows of the two tables are finitely many, and each id occurs once in its table.
LEMMA RowsArePlaced ==
    ASSUME WalkTypes
    PROVE  IsFiniteSet(Rows) /\ ArePlaced(Rows)
<1>1. IsFiniteSet(Rows)
  BY TablesAreFinite, FS_Union DEF Rows, Tables
<1>2. ASSUME NEW r \in RowsOf("private")
      PROVE  /\ r.table = "private" /\ r.id \in Nat /\ r.vote \in Submissions
             /\ r = [table |-> "private", id |-> r.id, vote |-> rows["private"][r.id]]
  BY DEF RowsOf, WalkTypes
<1>3. ASSUME NEW r \in RowsOf("open")
      PROVE  /\ r.table = "open" /\ r.id \in Nat /\ r.vote \in OpenVotes
             /\ r = [table |-> "open", id |-> r.id, vote |-> rows["open"][r.id]]
  BY DEF RowsOf, WalkTypes
<1>4. ASSUME NEW r \in Rows
      PROVE  /\ r.table \in Tables /\ r.id \in Nat
             /\ Timestamp(r) \in Nat /\ BlockNumber(r) \in Nat
  BY <1>2, <1>3, PolicyAssumption, HistoryAssumption DEF Rows, Tables, Timestamp, BlockNumber
<1>5. ASSUME NEW r \in Rows, NEW s \in Rows, r.table = s.table, r.id = s.id
      PROVE  r = s
  BY <1>2, <1>3, <1>5 DEF Rows
<1> QED
  BY <1>1, <1>4, <1>5 DEF ArePlaced

\* So are some of them.
LEMMA SomeRows ==
    ASSUME WalkTypes, NEW set, set \subseteq Rows
    PROVE  IsFiniteSet(set) /\ ArePlaced(set)
BY RowsArePlaced, FS_Subset DEF ArePlaced

\* buildHistoryCursorFilter orders their positions.
LEMMA PositionsAreOrdered ==
    ASSUME WalkTypes
    PROVE  /\ \A r \in Rows : ~Older(Position(r), Position(r))
           /\ \A r, s \in Rows : Older(Position(r), Position(s)) => ~Older(Position(s), Position(r))
           /\ \A r, s, u \in Rows :
                 /\ Older(Position(r), Position(s)) /\ Older(Position(s), Position(u))
                       => Older(Position(r), Position(u))
                 /\ Older(Position(r), Position(s)) /\ Position(s) = Position(u)
                       => Older(Position(r), Position(u))
<1>1. ArePlaced(Rows)
  BY RowsArePlaced
<1>2. \A r, s \in Rows : Older(Position(r), Position(s)) <=>
          \/ Timestamp(r) < Timestamp(s)
          \/ Timestamp(r) = Timestamp(s) /\ BlockNumber(r) < BlockNumber(s)
          \/ Timestamp(r) = Timestamp(s) /\ BlockNumber(r) = BlockNumber(s) /\ r.id < s.id
  BY DEF Position, Older
<1>3. \A r, s \in Rows : Position(r) = Position(s) =>
          Timestamp(r) = Timestamp(s) /\ BlockNumber(r) = BlockNumber(s) /\ r.id = s.id
  BY DEF Position
<1>4. \A r \in Rows : Timestamp(r) \in Nat /\ BlockNumber(r) \in Nat /\ r.id \in Nat
  BY <1>1 DEF ArePlaced
<1> HIDE DEF Rows
<1> QED
  BY <1>2, <1>3, <1>4

\* The page size is a number, whatever limit is asked for.
LEMMA PageSizeIsNat == WalkTypes => PageSize \in Nat
BY HistoryAssumption DEF WalkTypes, PageSize, NormalizeHistoryLimit

-----------------------------------------------------------------------------
(***************************************************************************)
(* The steps.                                                              *)
(***************************************************************************)

\* A history is a run of the processing, whatever is read in it.
THEOREM HistoryProcesses == HistorySpec => Spec
<1>1. HistoryInit => Init
  BY DEF HistoryInit
<1>2. [HistoryNext]_historyVars => [Next]_vars
  BY DEF HistoryNext, historyVars, ProcessingStep, StoreOpenVote, StartWalk, FirstQuery,
         MergeAndSlice
<1> QED
  BY <1>1, <1>2, PTL DEF HistorySpec, Spec

\* A table that gets a row keeps the rows it has.
LEMMA AppendKeepsRows ==
    ASSUME WalkTypes, NEW t \in Tables, NEW v \in Submissions \cup OpenVotes,
           rows' = [rows EXCEPT ![t] = Append(@, v)]
    PROVE  /\ rows' \in [Tables -> Seq(Submissions \cup OpenVotes)]
           /\ \A u \in Tables : RowsOf(u) \subseteq RowsOf(u)'
<1>1. \A u \in Tables : rows[u] \in Seq(Submissions \cup OpenVotes)
  BY DEF WalkTypes
<1>2. rows'[t] = Append(rows[t], v) /\ \A u \in Tables \ {t} : rows'[u] = rows[u]
  BY DEF WalkTypes
<1>3. rows' \in [Tables -> Seq(Submissions \cup OpenVotes)]
  BY <1>1 DEF WalkTypes
<1>4. ASSUME NEW u \in Tables, NEW i \in DOMAIN rows[u]
      PROVE  i \in DOMAIN rows'[u] /\ rows'[u][i] = rows[u][i]
  <2>1. i \in 1..Len(rows[u])
    BY <1>1
  <2>2. CASE u = t
    BY <1>1, <1>2, <2>1, <2>2
  <2> QED
    BY <1>2, <2>2
<1> QED
  BY <1>3, <1>4 DEF RowsOf

\* Votes that are stored while a client walks only add rows.
LEMMA StoringAddsRows ==
    ASSUME WalkTypes, RowsInv, ProcessingStep \/ StoreOpenVote
    PROVE  /\ rows' \in [Tables -> Seq(Submissions \cup OpenVotes)]
           /\ rows'["private"] \in Seq(Submissions) /\ rows'["open"] \in Seq(OpenVotes)
           /\ \A t \in Tables : RowsOf(t) \subseteq RowsOf(t)'
<1>0. "private" \in Tables /\ "open" \in Tables
  BY DEF Tables
<1>1. CASE rows' = rows
  BY <1>1 DEF WalkTypes, RowsOf
<1>2. CASE ProcessingStep /\ rows' # rows
  <2>1. PICK w \in Workers : StepOf(w)
    BY <1>2, StepsHaveActors DEF ProcessingStep, Mine, tables
  <2>2. submitted \subseteq submitted' /\ submitted' \subseteq Submissions
    BY <2>1, TablesGrow, StepTyped DEF TypeOK
  <2> DEFINE s == CHOOSE s \in submitted' : s \notin submitted
  <2>3. submitted' # submitted /\ rows' = [rows EXCEPT !["private"] = Append(@, s)]
    BY <1>2 DEF ProcessingStep
  <2>4. s \in Submissions
    BY <2>2, <2>3
  <2> HIDE DEF s
  <2>5. rows'["private"] \in Seq(Submissions) /\ rows'["open"] = rows["open"]
    BY <1>0, <2>3, <2>4 DEF WalkTypes
  <2> QED
    BY <1>0, <2>3, <2>4, <2>5, AppendKeepsRows DEF WalkTypes
<1>3. CASE StoreOpenVote
  <2> DEFINE v == Len(rows["open"]) + 1
  <2>1. v \in OpenVotes /\ rows' = [rows EXCEPT !["open"] = Append(@, v)]
    BY <1>0, <1>3 DEF StoreOpenVote, WalkTypes
  <2> HIDE DEF v
  <2>2. rows'["open"] \in Seq(OpenVotes) /\ rows'["private"] = rows["private"]
    BY <1>0, <2>1 DEF WalkTypes
  <2> QED
    BY <1>0, <2>1, <2>2, AppendKeepsRows DEF WalkTypes
<1> QED
  BY <1>1, <1>2, <1>3

\* They do not disturb the walk.
LEMMA StoringKeepsWalk ==
    ASSUME WalkInv, RowsInv, ProcessingStep \/ StoreOpenVote
    PROVE  WalkInv'
<1>0. WalkTypes /\ UNCHANGED walk
  BY DEF WalkInv, ProcessingStep, StoreOpenVote
<1>1. WalkTypes'
  <2>1. Rows \subseteq Rows'
    BY <1>0, StoringAddsRows DEF Rows, Tables
  <2>2. pages' \in Seq(SUBSET Rows')
    BY <1>0, <2>1 DEF WalkTypes, walk
  <2>3. \A r : WrittenBy(r)' = WrittenBy(r)
    BY DEF WrittenBy
  <2> QED
    BY <1>0, <2>1, <2>2, <2>3, StoringAddsRows DEF WalkTypes, walk
<1>2. \A r : AfterCursor(r)' <=> AfterCursor(r)
  BY <1>0 DEF walk, AfterCursor, Position, Timestamp, BlockNumber, LastOf, ComesBefore
<1>3. PageSize' = PageSize
  BY <1>0 DEF walk, PageSize
<1>4. AnswersAreCut'
  <2>1. \A u \in DOMAIN read : u \in Tables
    BY <1>0 DEF WalkTypes
  <2>2. \A u \in DOMAIN read : RowsOf(u) \subseteq RowsOf(u)'
    BY <1>0, <2>1, StoringAddsRows
  <2> QED
    BY <1>0, <1>2, <1>3, <2>2 DEF WalkInv, walk, AnswersAreCut, IsAnswer, ComesBefore, Position,
       Timestamp, BlockNumber
<1> QED
  BY <1>0, <1>1, <1>2, <1>3, <1>4
  DEF WalkInv, walk, WalkGoesOn, PagesDescend, NothingIsLost, Shown, SkippedAt

\* A new walk has all its votes before it.
LEMMA StartingKeepsWalk ==
    ASSUME WalkInv, StartWalk
    PROVE  WalkInv'
<1>1. read = NoAnswer /\ read' = NoAnswer /\ DOMAIN read' = {}
  BY DEF WalkInv, WalkGoesOn, StartWalk, NoAnswer
<1>2. pages' = <<>> /\ DOMAIN pages' = {} /\ more' = TRUE /\ rows' = rows /\ limit' \in Int
  BY HistoryAssumption DEF StartWalk
<1>3. WalkTypes'
  BY <1>1, <1>2 DEF WalkInv, WalkTypes, StartWalk, Rows, RowsOf, WrittenBy
<1>4. \A r : AfterCursor(r)'
  BY <1>2 DEF AfterCursor
<1> QED
  BY <1>1, <1>2, <1>3, <1>4 DEF WalkInv, WalkGoesOn, PagesDescend, AnswersAreCut, NothingIsLost

\* A vote of the walk is a row of its table.
LEMMA VotesAreRows ==
    ASSUME WalkTypes, NEW r \in present
    PROVE  r.table \in Tables /\ r \in RowsOf(r.table) /\ WrittenBy(r) = Voter
<1>1. \A t, s : s \in RowsOf(t) => s.table = t
  BY DEF RowsOf
<1> QED
  BY <1>1 DEF WalkTypes, Rows, Tables

\* What a query finds is such an answer.
LEMMA QueriesAnswer ==
    ASSUME WalkTypes, NEW t \in Tables
    PROVE  IsAnswer(t, FindMany(t))
<1> DEFINE set == {r \in RowsOf(t) : WrittenBy(r) = Voter /\ AfterCursor(r)}
<1>1. FindMany(t) = FirstOf(PageSize + 1, set) /\ FindMany(t) \subseteq set
  BY DEF FindMany, FirstOf
<1>2. PageSize + 1 \in Nat
  BY PageSizeIsNat
<1>3. set \subseteq Rows
  BY DEF Rows, Tables
<1>4. IsFiniteSet(set) /\ ArePlaced(set)
  BY <1>3, SomeRows
<1>5. \A r \in present : r.table = t /\ AfterCursor(r) => r \in set
  BY VotesAreRows
<1> HIDE DEF set
<1>6. \A r \in set : r \notin FindMany(t) =>
          Cardinality(FindMany(t)) >= PageSize + 1 /\ \A s \in FindMany(t) : ComesBefore(s, r)
  BY <1>1, <1>2, <1>4, LeftOutRows
<1>7. FindMany(t) \subseteq RowsOf(t) /\ \A r \in FindMany(t) : AfterCursor(r)
  BY <1>1 DEF set
<1> QED
  BY <1>5, <1>6, <1>7 DEF IsAnswer

\* The first of the two queries of a page.
LEMMA QueryKeepsWalk ==
    ASSUME WalkInv, NEW t \in Tables, FirstQuery(t)
    PROVE  WalkInv'
<1>1. /\ DOMAIN read' = {t} /\ read'[t] = FindMany(t) /\ more
      /\ UNCHANGED <<rows, limit, pages, more, present>>
  BY DEF FirstQuery
<1>2. WalkTypes'
  BY <1>1 DEF WalkInv, WalkTypes, Rows, RowsOf, WrittenBy
<1>3. PageSize' = PageSize /\ \A r : AfterCursor(r)' <=> AfterCursor(r)
  BY <1>1 DEF PageSize, AfterCursor, Position, Timestamp, BlockNumber, LastOf, ComesBefore
<1>4. WalkGoesOn' /\ PagesDescend' /\ NothingIsLost'
  BY <1>1, <1>3 DEF WalkInv, WalkGoesOn, PagesDescend, NothingIsLost, Shown, SkippedAt
<1>5. IsAnswer(t, FindMany(t))
  BY QueriesAnswer DEF WalkInv
<1>6. RowsOf(t)' = RowsOf(t)
  BY <1>1 DEF RowsOf
<1>7. AnswersAreCut'
  BY <1>1, <1>3, <1>5, <1>6 DEF AnswersAreCut, IsAnswer, ComesBefore, Position, Timestamp,
     BlockNumber
<1> QED
  BY <1>2, <1>4, <1>7 DEF WalkInv

\* A page of a walk: what is behind its last item is what its cursor will find, all but an
\* open vote at the position of a private one.
LEMMA CursorsMissNothingElse ==
    ASSUME WalkTypes, NEW page, page \subseteq Rows, page # {},
           NEW r \in Rows, \A s \in page : ComesBefore(s, r)
    PROVE  Older(Position(r), Position(LastOf(page))) \/ SkippedAt(page, r)
<1>1. LastOf(page) \in page
  BY SomeRows, LastIsLast
<1> QED
  BY <1>1 DEF ComesBefore, SkippedAt

\* What the next page shows is older than all that was shown.
LEMMA NextPageIsOlder ==
    ASSUME WalkInv, more, NEW i \in DOMAIN pages, NEW r \in pages[i],
           NEW s \in Rows, AfterCursor(s)
    PROVE  Older(Position(s), Position(r))
<1> DEFINE n == Len(pages)
           final == LastOf(pages[n])
<1>1. /\ pages \in Seq(SUBSET Rows) /\ n \in DOMAIN pages /\ pages # <<>>
      /\ i \in Int /\ n \in Int /\ (i = n \/ i < n) /\ \A j \in DOMAIN pages : pages[j] \subseteq Rows
  BY DEF WalkInv, WalkTypes
<1>2. pages[n] # {}
  BY <1>1 DEF WalkInv, WalkGoesOn
<1>3. final \in pages[n] /\ \A u \in pages[n] : u = final \/ ComesBefore(u, final)
  BY <1>1, <1>2, SomeRows, LastIsLast DEF WalkInv
<1>4. Older(Position(s), Position(final))
  BY <1>1 DEF AfterCursor
<1>5. \/ Older(Position(final), Position(r))
      \/ Position(final) = Position(r)
  BY <1>1, <1>3 DEF ComesBefore, WalkInv, PagesDescend
<1> HIDE DEF final, n
<1> QED
  BY <1>1, <1>3, <1>4, <1>5, PositionsAreOrdered DEF WalkInv

\* The second query and the merge.
LEMMA PageKeepsWalk ==
    ASSUME WalkInv, MergeAndSlice
    PROVE  WalkInv'
<1> DEFINE found == [t \in Tables |-> IF t \in DOMAIN read THEN read[t] ELSE FindMany(t)]
           merged == found["private"] \cup found["open"]
           sliced == FirstOf(PageSize, merged)
           n == Len(pages)
<1>0. WalkTypes /\ more /\ PageSize \in Nat
  BY PageSizeIsNat DEF WalkInv, WalkGoesOn, MergeAndSlice
<1>1. \A t \in Tables : IsAnswer(t, found[t])
  BY <1>0, QueriesAnswer DEF WalkInv, AnswersAreCut
<1>2. /\ pages' = Append(pages, sliced)
      /\ more' = (Cardinality(merged) > PageSize /\ sliced # {})
      /\ read' = NoAnswer
      /\ UNCHANGED <<vars, rows, limit, present>>
  BY DEF MergeAndSlice
<1> HIDE DEF found
<1>3. /\ merged \subseteq Rows /\ \A r \in merged : AfterCursor(r)
      /\ IsFiniteSet(merged) /\ ArePlaced(merged) /\ Cardinality(merged) \in Nat
  <2>1. merged \subseteq Rows /\ \A r \in merged : AfterCursor(r)
    BY <1>1 DEF IsAnswer, Rows, Tables
  <2> QED
    BY <1>0, <2>1, SomeRows, FS_CardinalityType
<1> HIDE DEF merged
<1>4. sliced \subseteq merged
  BY DEF FirstOf
<1> HIDE DEF sliced
<1>5. /\ pages \in Seq(SUBSET Rows) /\ n \in Nat
      /\ DOMAIN pages = 1..n /\ DOMAIN pages' = 1..(n + 1) /\ pages' # <<>> /\ Len(pages') = n + 1
      /\ \A i \in 1..n : pages'[i] = pages[i]
      /\ pages'[n + 1] = sliced
  BY <1>0, <1>2 DEF WalkTypes
<1>6. WalkTypes'
  <2>1. Rows' = Rows /\ \A r : WrittenBy(r)' = WrittenBy(r)
    BY <1>2 DEF Rows, RowsOf, WrittenBy
  <2>2. sliced \in SUBSET Rows
    BY <1>3, <1>4
  <2>3. pages' \in Seq(SUBSET Rows')
    BY <1>2, <1>5, <2>1, <2>2
  <2>4. DOMAIN read' = {} /\ more' \in BOOLEAN
    BY <1>2 DEF NoAnswer
  <2> QED
    BY <1>0, <1>2, <2>1, <2>3, <2>4 DEF WalkTypes
<1>7. WalkGoesOn'
  <2>1. more' => sliced # {}
    BY <1>2
  <2>2. \A i \in 1..n : pages[i] # {}
    BY <1>0, <1>5 DEF WalkInv, WalkGoesOn
  <2>3. \A i \in 1..(n + 1) : i \in 1..n \/ i = n + 1
    BY <1>5
  <2> QED
    BY <1>2, <1>5, <2>1, <2>2, <2>3 DEF WalkGoesOn
<1>8. PagesDescend'
  <2> SUFFICES ASSUME NEW i \in 1..(n + 1), NEW j \in 1..(n + 1), i < j,
                      NEW r \in pages'[i], NEW s \in pages'[j]
               PROVE  Older(Position(s), Position(r))
    BY <1>5 DEF PagesDescend, Position, Timestamp, BlockNumber
  <2>1. i \in 1..n
    BY <1>5
  <2>2. CASE j = n + 1
    BY <1>0, <1>3, <1>4, <1>5, <2>1, <2>2, NextPageIsOlder
  <2>3. CASE j # n + 1
    <3>1. j \in 1..n
      BY <1>5, <2>3
    <3> QED
      BY <1>5, <2>1, <3>1 DEF WalkInv, PagesDescend
  <2> QED
    BY <2>2, <2>3
<1>9. AnswersAreCut'
  BY <1>2 DEF AnswersAreCut, NoAnswer
<1>10. NothingIsLost'
  <2>0. PageSize' = PageSize /\ present' = present
    BY <1>2 DEF PageSize
  <2> SUFFICES ASSUME PageSize > 0, NEW r \in present
               PROVE  Shown(r)' \/ (more' /\ AfterCursor(r)')
    BY <2>0 DEF NothingIsLost
  <2>1. \A page : SkippedAt(page, r)' <=> SkippedAt(page, r)
    BY DEF SkippedAt, LastOf, ComesBefore, Position, Timestamp, BlockNumber
  <2>2. CASE Shown(r)
    BY <1>5, <2>1, <2>2 DEF Shown
  <2>3. CASE r \in sliced
    BY <1>5, <2>3 DEF Shown
  <2>4. ASSUME Cardinality(merged) > PageSize, \A s \in sliced : ComesBefore(s, r)
        PROVE  Shown(r)' \/ (more' /\ AfterCursor(r)')
    <3>1. merged # {}
      BY <1>0, <2>4, FS_EmptySet
    <3>2. sliced # {}
      BY <1>0, <1>3, <3>1, FullPages DEF sliced
    <3>3. Older(Position(r), Position(LastOf(sliced))) \/ SkippedAt(sliced, r)
      BY <1>0, <1>3, <1>4, <2>4, <3>2, CursorsMissNothingElse DEF WalkTypes
    <3>4. more'
      BY <1>2, <2>4, <3>2
    <3>5. Older(Position(r), Position(LastOf(sliced))) => AfterCursor(r)'
      <4>1. pages'[Len(pages')] = sliced
        BY <1>5
      <4>2. Older(Position(r), Position(LastOf(pages'[Len(pages')]))) => AfterCursor(r)'
        BY DEF AfterCursor, LastOf, ComesBefore, Position, Timestamp, BlockNumber
      <4> QED
        BY <4>1, <4>2
    <3>6. SkippedAt(sliced, r) => Shown(r)'
      <4>1. n + 1 \in DOMAIN pages'
        BY <1>5
      <4> QED
        BY <1>5, <2>1, <4>1 DEF Shown
    <3> QED
      BY <3>3, <3>4, <3>5, <3>6
  <2>5. CASE r \in merged /\ r \notin sliced
    <3>1. \A s \in sliced : ComesBefore(s, r)
      BY <1>0, <1>3, <2>5, LeftOutRows DEF sliced
    <3>2. ~(Cardinality(merged) <= PageSize)
      BY <1>0, <1>3, <2>5, TakesSmallSets DEF sliced
    <3> QED
      BY <1>0, <1>3, <2>4, <3>1, <3>2
  <2>6. CASE r \notin merged /\ AfterCursor(r)
    <3> DEFINE full == found[r.table]
    <3>1. r.table \in Tables /\ r \in Rows
      BY <1>0, VotesAreRows DEF WalkTypes
    <3>2. full \subseteq merged
      BY <3>1 DEF merged, Tables
    <3>3. Cardinality(full) >= PageSize + 1 /\ \A s \in full : ComesBefore(s, r)
      BY <1>1, <2>6, <3>1, <3>2 DEF IsAnswer
    <3> HIDE DEF full
    <3>4. Cardinality(full) \in Nat /\ Cardinality(full) <= Cardinality(merged)
      BY <1>3, <3>2, FS_Subset, FS_CardinalityType
    <3>5. ASSUME NEW x \in sliced
          PROVE  ComesBefore(x, r)
      <4>1. x \in Rows /\ x # r /\ full \subseteq Rows /\ ArePlaced(Rows)
        BY <1>0, <1>3, <1>4, <2>6, <3>2, RowsArePlaced
      <4>2. ~\A s \in full : ComesBefore(s, x)
        BY <1>0, <1>3, <3>2, <3>3, <3>4, TakenRows DEF sliced
      <4>3. ~ComesBefore(r, x)
        BY <3>1, <3>3, <4>1, <4>2, RowsAreOrdered
      <4> QED
        BY <3>1, <4>1, <4>3, RowsAreOrdered
    <3> QED
      BY <1>0, <1>3, <2>4, <3>3, <3>4, <3>5
  <2> QED
    BY <2>2, <2>3, <2>5, <2>6 DEF WalkInv, NothingIsLost
<1> QED
  BY <1>6, <1>7, <1>8, <1>9, <1>10 DEF WalkInv

-----------------------------------------------------------------------------
(***************************************************************************)
(* The theorems.                                                           *)
(***************************************************************************)

\* Before the first request there is nothing to lose.
LEMMA WalkInvInit == HistoryInit => WalkInv
<1> SUFFICES ASSUME HistoryInit
             PROVE  WalkInv
  OBVIOUS
<1>1. /\ rows = [t \in Tables |-> <<>>] /\ pages = <<>> /\ DOMAIN pages = {} /\ DOMAIN read = {}
      /\ more = FALSE /\ present = {} /\ limit \in Int /\ read = NoAnswer
  BY HistoryAssumption DEF HistoryInit, NoAnswer
<1>2. WalkTypes
  <2>1. rows["private"] = <<>> /\ rows["open"] = <<>>
    BY <1>1 DEF Tables
  <2>2. \A S : <<>> \in Seq(S)
    OBVIOUS
  <2>3. rows \in [Tables -> Seq(Submissions \cup OpenVotes)]
    BY <1>1, <2>2
  <2> QED
    BY <1>1, <2>1, <2>2, <2>3 DEF WalkTypes
<1> QED
  BY <1>1, <1>2 DEF WalkInv, WalkGoesOn, PagesDescend, AnswersAreCut, NothingIsLost

\* No step loses a vote.
LEMMA WalkInvNext == RowsInv /\ WalkInv /\ [HistoryNext]_historyVars => WalkInv'
<1> SUFFICES ASSUME RowsInv, WalkInv, [HistoryNext]_historyVars
             PROVE  WalkInv'
  OBVIOUS
<1>1. CASE ProcessingStep \/ StoreOpenVote
  BY <1>1, StoringKeepsWalk
<1>2. CASE StartWalk
  BY <1>2, StartingKeepsWalk
<1>3. ASSUME NEW t \in Tables, FirstQuery(t)
      PROVE  WalkInv'
  BY <1>3, QueryKeepsWalk
<1>4. CASE MergeAndSlice
  BY <1>4, PageKeepsWalk
<1>5. CASE UNCHANGED historyVars
  <2>1. UNCHANGED <<rows, limit, read, pages, more, present>>
    BY <1>5 DEF historyVars, walk
  <2>2. PageSize' = PageSize /\ \A r : AfterCursor(r)' <=> AfterCursor(r)
    BY <2>1 DEF PageSize, AfterCursor, Position, Timestamp, BlockNumber, LastOf, ComesBefore
  <2>3. WalkTypes'
    BY <2>1 DEF WalkInv, WalkTypes, Rows, RowsOf, WrittenBy
  <2>4. AnswersAreCut'
    BY <2>1, <2>2 DEF WalkInv, AnswersAreCut, IsAnswer, RowsOf, ComesBefore, Position, Timestamp,
       BlockNumber
  <2> QED
    BY <2>1, <2>2, <2>3, <2>4 DEF WalkInv, WalkGoesOn, PagesDescend, NothingIsLost, Shown, SkippedAt
<1> QED
  BY <1>1, <1>2, <1>3, <1>4, <1>5 DEF HistoryNext

\* Whatever is stored between its requests, each vote of a walk is shown, skipped or
\* still to come, and what comes is older than all that was shown.
THEOREM WalkInvariant == HistorySpec => []WalkInv
<1>1. HistorySpec => []RowsInv
  BY HistoryProcesses, RowsInvariant, PTL
<1> QED
  BY <1>1, WalkInvInit, WalkInvNext, PTL DEF HistorySpec

\* findHistory never repeats a vote or goes forward in time from one page to the next,
\* although votes are stored meanwhile and the tables are read at different moments.
THEOREM PagesAlwaysGoBack == HistorySpec => []PagesGoBack
<1>1. WalkInv => PagesGoBack
  <2> SUFFICES ASSUME WalkInv, NEW i \in DOMAIN pages, NEW j \in DOMAIN pages, i < j,
                      NEW r \in pages[i], NEW s \in pages[j]
               PROVE  r # s /\ ~Older(Position(r), Position(s))
    BY DEF PagesGoBack
  <2>1. r \in Rows /\ s \in Rows
    BY DEF WalkInv, WalkTypes
  <2>2. Older(Position(s), Position(r))
    BY DEF WalkInv, PagesDescend
  <2> QED
    BY <2>1, <2>2, PositionsAreOrdered DEF WalkInv
<1> QED
  BY <1>1, WalkInvariant, PTL

\* A client that follows the cursors to the end has been shown every vote there was when
\* it began, except an open one at the position of the private one a page ends with.
THEOREM WalksShowEveryVote == HistorySpec => []WalkShowsEveryVote
<1>1. WalkInv => WalkShowsEveryVote
  BY DEF WalkInv, NothingIsLost, Shown, WalkShowsEveryVote
<1> QED
  BY <1>1, WalkInvariant, PTL
=============================================================================
