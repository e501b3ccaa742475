-------------------------------- MODULE VoteHistory --------------------------------
(***************************************************************************)
(* GET vote-submissions/history: VoteSubmissionsService.findHistory merges *)
(* the private and the open votes of a voter into pages, newest first.  A  *)
(* page is cut by a cursor of timestamp, block number and row id; the two  *)
(* tables number their rows independently, and each page reads them in two *)
(* queries.  A client walks from page to page while the indexer stores     *)
(* further votes.                                                          *)
(***************************************************************************)
EXTENDS BallotProcessing, Sequences

CONSTANTS
    OpenVotes,          \* the open votes, numbered in chain order
    OpenVoterOf,        \* voterAddress, blockTimestamp and blockNumber of the open votes,
    OpenTimeOf,
    OpenBlockOf,
    BlockOf,            \* and the blockNumber of the private ones
    Voter,              \* whose history is read
    Limits,             \* the limits a client may ask for, in halves
    DefaultPageSize,    \* DEFAULT_HISTORY_PAGE_SIZE
    MaxPageSize         \* MAX_HISTORY_PAGE_SIZE

ASSUME HistoryAssumption ==
    /\ OpenVotes = 1..Cardinality(OpenVotes)
    /\ OpenTimeOf \in [OpenVotes -> Nat] /\ OpenBlockOf \in [OpenVotes -> Nat]
    /\ BlockOf \in [Submissions -> Nat]
    /\ Limits \subseteq Int
    /\ DefaultPageSize \in Nat \ {0} /\ MaxPageSize \in Nat \ {0}

VARIABLES
    rows,       \* the two tables: their votes in the order of their ids
    limit,      \* the limit of the walk
    read,       \* what the first query of a request has returned, under its table
    pages,      \* the pages so far, as the sets of their items
    more,       \* hasMore and nextCursor of the last page: is there another page to ask for?
    present     \* history: the voter's votes when the walk began

walk == <<limit, read, pages, more, present>>
historyVars == <<vars, rows, walk>>

Tables == {"private", "open"}

\* The rows of a table; a row's id is its place.
RowsOf(t) == {[table |-> t, id |-> i, vote |-> rows[t][i]] : i \in DOMAIN rows[t]}

Timestamp(r) == IF r.table = "private" THEN TimeOf[r.vote] ELSE OpenTimeOf[r.vote]
BlockNumber(r) == IF r.table = "private" THEN BlockOf[r.vote] ELSE OpenBlockOf[r.vote]
WrittenBy(r) == IF r.table = "private" THEN VoterOf[r.vote] ELSE OpenVoterOf[r.vote]

NoAnswer == [t \in {} |-> {}]

HistoryInit ==
    /\ Init
    /\ rows = [t \in Tables |-> <<>>]
    /\ limit \in Limits
    /\ read = NoAnswer
    /\ pages = <<>>
    /\ more = FALSE
    /\ present = {}

-----------------------------------------------------------------------------
(***************************************************************************)
(* The tables grow.                                                        *)
(***************************************************************************)

\* Whatever step of the processing stores a submission, it gets the next id.
ProcessingStep ==
    /\ Next
    /\ rows' = IF submitted' = submitted THEN rows
               ELSE [rows EXCEPT !["private"] =
                        Append(@, CHOOSE s \in submitted' : s \notin submitted)]
    /\ UNCHANGED walk

\* indexOpenVoteRange, which a poll runs when it is through with the private votes,
\* stores open votes in chain order; the upsert leaves a row that exists as it is.
StoreOpenVote ==
    /\ \E p \in Polls : pc[p] = "idle"
    /\ Len(rows["open"]) + 1 \in OpenVotes
    /\ rows' = [rows EXCEPT !["open"] = Append(@, Len(@) + 1)]
    /\ UNCHANGED <<vars, walk>>

-----------------------------------------------------------------------------
(***************************************************************************)
(* findHistory.                                                            *)
(***************************************************************************)

\* A limit that is no positive number means the default; a fraction is rounded down,
\* below 1 to a page without items.
NormalizeHistoryLimit(halves) ==
    IF halves <= 0 THEN DefaultPageSize
    ELSE IF halves \div 2 < MaxPageSize THEN halves \div 2 ELSE MaxPageSize

PageSize == NormalizeHistoryLimit(limit)

Position(r) == <<Timestamp(r), BlockNumber(r), r.id>>

\* Mutant of Older: a row at the cursor's own position is taken again.
Older_OrEqual(p, q) ==
    \/ p[1] < q[1]
    \/ p[1] = q[1] /\ p[2] < q[2]
    \/ p[1] = q[1] /\ p[2] = q[2] /\ p[3] <= q[3]

\* buildHistoryCursorFilter: lexicographically before a cursor.
Older(p, q) ==
    \/ p[1] < q[1]
    \/ p[1] = q[1] /\ p[2] < q[2]
    \/ p[1] = q[1] /\ p[2] = q[2] /\ p[3] < q[3]

\* compareHistoryItems, as the sort uses it: newest first, and of equal items the
\* private one, which comes first in the list that is sorted.
ComesBefore(r, s) ==
    \/ Older(Position(s), Position(r))
    \/ Position(r) = Position(s) /\ r.table = "private" /\ s.table = "open"

LastOf(page) == CHOOSE r \in page : \A s \in page \ {r} : ComesBefore(s, r)

\* The client's cursor is the last item of the last page, if it has one.
AfterCursor(r) ==
    pages # <<>> => Older(Position(r), Position(LastOf(pages[Len(pages)])))

\* The first n rows of a set in that order.
FirstOf(n, set) == {r \in set : Cardinality({s \in set : ComesBefore(s, r)}) < n}

\* A client asks for the newest votes ...
StartWalk ==
    /\ ~more
    /\ limit' \in Limits
    /\ more' = TRUE
    /\ pages' = <<>>
    /\ present' = {r \in RowsOf("private") \cup RowsOf("open") : WrittenBy(r) = Voter}
    /\ UNCHANGED <<vars, rows, read>>

\* Mutant of FindMany: it asks for no row beyond the page.
FindMany_PageOnly(t) ==
    FirstOf(PageSize, {r \in RowsOf(t) : WrittenBy(r) = Voter /\ AfterCursor(r)})

\* ... and each page takes two queries, for one row beyond the page from each table.
FindMany(t) ==
    FirstOf(PageSize + 1, {r \in RowsOf(t) : WrittenBy(r) = Voter /\ AfterCursor(r)})

\* Either query may be answered first ...
FirstQuery(t) ==
    /\ more /\ read = NoAnswer
    /\ read' = [u \in {t} |-> FindMany(u)]
    /\ UNCHANGED <<vars, rows, limit, pages, more, present>>

\* ... and with the other one the answer is complete.  A client goes on while hasMore
\* says so and there is a cursor.
MergeAndSlice ==
    /\ read # NoAnswer
    /\ LET found == [t \in Tables |-> IF t \in DOMAIN read THEN read[t] ELSE FindMany(t)]
           merged == found["private"] \cup found["open"]
           sliced == FirstOf(PageSize, merged) IN
       /\ pages' = Append(pages, sliced)
       /\ more' = (Cardinality(merged) > PageSize /\ sliced # {})
    /\ read' = NoAnswer
    /\ UNCHANGED <<vars, rows, limit, present>>

HistoryNext ==
    \/ ProcessingStep
    \/ StoreOpenVote
    \/ StartWalk
    \/ \E t \in Tables : FirstQuery(t)
    \/ MergeAndSlice

HistorySpec == HistoryInit /\ [][HistoryNext]_historyVars

-----------------------------------------------------------------------------
(***************************************************************************)
(* Properties.                                                             *)
(***************************************************************************)

\* The pages of a walk go back in time and show no vote twice, although votes are
\* stored while the client reads and the two tables are read at different moments.
PagesGoBack ==
    \A i, j \in DOMAIN pages : i < j =>
        \A r \in pages[i], s \in pages[j] : r # s /\ ~Older(Position(r), Position(s))

\* Is r an open vote at exactly the position of the private vote the page ends with?
SkippedAt(page, r) ==
    /\ page # {}
    /\ LastOf(page).table = "private" /\ r.table = "open"
    /\ Position(LastOf(page)) = Position(r)

\* A client that follows the cursors to the last page has seen every vote that was
\* stored when it began, except one: an open vote at exactly the position of the private
\* vote a page ends with, since ids are counted per table and the cursor does not say
\* which table it comes from.  (A page size of 0 shows nothing.)
WalkShowsEveryVote ==
    ~more /\ PageSize > 0 =>
        \A r \in present : \E i \in DOMAIN pages : r \in pages[i] \/ SkippedAt(pages[i], r)
=============================================================================
