----------------------------- MODULE BallotProcessing -----------------------------
(***************************************************************************)
(* The processing of the private votes of one election: the indexer's      *)
(* polls store submissions and process those without a decrypted ballot    *)
(* (indexPrivateVoteRange), the endpoints POST :id/process and             *)
(* process-pending process stored ones; all of them run                    *)
(* PrivateBallotProcessorService.processSubmission and then                *)
(* LiveTallyService.recomputeForElection, interleaved at every await.      *)
(***************************************************************************)
EXTENDS BallotPolicy

CONSTANTS
    HasKey,         \* is the election linked to a draft with a key?
    Malformed,      \* submissions that fail a check on their payload alone
    Polls,          \* the indexer's polls that may overlap
    Callers,        \* requests to the two endpoints that may overlap
    MaxFaults       \* bound on failed calls

Workers == Polls \cup Callers

ASSUME ProcessingAssumption ==
    /\ IsFiniteSet(Submissions) /\ Submissions = 1..Cardinality(Submissions)
    /\ HasKey \in BOOLEAN
    /\ Malformed \subseteq Submissions
    /\ Polls \cap Callers = {}
    /\ MaxFaults \in Nat

VARIABLES
    mined,          \* submissions 1..mined are on the chain
    cursor,         \* the first submission the next poll scans
    submitted,      \* rows of private_vote_submissions
    ballots,        \* decrypted_ballots: the verdict of each submission
    invalidRows,    \* invalid_ballots: the workers whose row is there
    liveTally,      \* live_tally: the ballots it counts
    pc,             \* where each worker is
    todo,           \* the submissions it has still to visit
    last,           \* the last submission of a poll's scan, 0 in a loop that moves no cursor
    at,             \* the submission it is processing
    had,            \* had it a decrypted ballot when it was loaded?
    verdict,        \* the outcome of its validation
    doomed,         \* the invalid_ballots rows the transaction deletes
    counted,        \* the valid ballots read for the tally
    faults,
    misjudged       \* history: has a failed call become a verdict?

tables == <<submitted, ballots, invalidRows, liveTally>>
workers == <<pc, todo, last, at, had, verdict, doomed, counted>>
failures == <<faults, misjudged>>
vars == <<mined, cursor, tables, workers, failures>>

\* MALFORMED stands for the reason codes of the checks on the payload alone.
ReasonCodes ==
    {"MISSING_ELECTION_KEY", "DECRYPTION_FAILED", "MALFORMED", "UNKNOWN_CANDIDATE",
     "BALLOT_POLICY_VIOLATION"}
Verdicts == {"valid"} \cup ReasonCodes
None == "none"

Valid == {s \in submitted : ballots[s] = "valid"}

TypeOK ==
    /\ mined \in Submissions \cup {0}
    /\ cursor \in Nat
    /\ submitted \subseteq Submissions
    /\ ballots \in [Submissions -> Verdicts \cup {None}]
    /\ invalidRows \in [Submissions -> SUBSET Workers]
    /\ liveTally \subseteq Submissions
    /\ pc \in [Workers ->
          {"idle", "next", "pending", "load", "validate", "clear", "commit", "rollback", "count",
           "wipe", "store", "clash"}]
    /\ todo \in [Workers -> SUBSET Submissions]
    /\ last \in [Workers -> Nat]
    /\ at \in [Workers -> Submissions \cup {0}]
    /\ had \in [Workers -> BOOLEAN]
    /\ verdict \in [Workers -> Verdicts \cup {None}]
    /\ doomed \in [Workers -> SUBSET Workers]
    /\ counted \in [Workers -> SUBSET Submissions]
    /\ faults \in 0..MaxFaults
    /\ misjudged \in BOOLEAN

Init ==
    /\ mined = 0
    /\ cursor = 1
    /\ submitted = {}
    /\ ballots = [s \in Submissions |-> None]
    /\ invalidRows = [s \in Submissions |-> {}]
    /\ liveTally = {}
    /\ pc = [w \in Workers |-> "idle"]
    /\ todo = [w \in Workers |-> {}]
    /\ last = [w \in Workers |-> 0]
    /\ at = [w \in Workers |-> 0]
    /\ had = [w \in Workers |-> FALSE]
    /\ verdict = [w \in Workers |-> None]
    /\ doomed = [w \in Workers |-> {}]
    /\ counted = [w \in Workers |-> {}]
    /\ faults = 0
    /\ misjudged = FALSE

-----------------------------------------------------------------------------
(***************************************************************************)
(* Where a worker goes.                                                    *)
(***************************************************************************)

GoesTo(w, label) == pc' = [pc EXCEPT ![w] = label]

\* What w remembered of the submission it was at is dropped.
Forgets(w) ==
    /\ at' = [at EXCEPT ![w] = 0]
    /\ had' = [had EXCEPT ![w] = FALSE]
    /\ verdict' = [verdict EXCEPT ![w] = None]
    /\ doomed' = [doomed EXCEPT ![w] = {}]
    /\ counted' = [counted EXCEPT ![w] = {}]

\* w is done, or has thrown: then a poll leaves its cursor where it was, and a
\* request fails.
Rests(w) ==
    /\ GoesTo(w, "idle")
    /\ todo' = [todo EXCEPT ![w] = {}]
    /\ last' = [last EXCEPT ![w] = 0]
    /\ Forgets(w)

Fault ==
    /\ faults < MaxFaults
    /\ faults' = faults + 1

Mine ==
    /\ mined + 1 \in Submissions
    /\ mined' = mined + 1
    /\ UNCHANGED <<cursor, tables, workers, failures>>

-----------------------------------------------------------------------------
(***************************************************************************)
(* Who processes what.                                                     *)
(***************************************************************************)

\* Mutant of PollStart: it scans one block too far.
PollStart_TooFar(p) ==
    /\ pc[p] = "idle"
    /\ cursor <= mined
    /\ todo' = [todo EXCEPT ![p] = cursor..(mined + 1)]
    /\ last' = [last EXCEPT ![p] = mined]
    /\ GoesTo(p, "next")
    /\ UNCHANGED <<mined, cursor, tables, at, had, verdict, doomed, counted, failures>>

\* The private votes between the cursor and the latest block.
PollStart(p) ==
    /\ pc[p] = "idle"
    /\ cursor <= mined
    /\ todo' = [todo EXCEPT ![p] = cursor..mined]
    /\ last' = [last EXCEPT ![p] = mined]
    /\ GoesTo(p, "next")
    /\ UNCHANGED <<mined, cursor, tables, at, had, verdict, doomed, counted, failures>>

\* There is no new block for the poll to scan.
PollFindsNothing(p) ==
    /\ pc[p] = "idle"
    /\ cursor > mined
    /\ last' = [last EXCEPT ![p] = mined]
    /\ GoesTo(p, "pending")
    /\ UNCHANGED <<mined, cursor, tables, todo, at, had, verdict, doomed, counted, failures>>

Pending == {s \in submitted : ballots[s] = None}

\* reconcilePrivateVoteSubmissions: while some submission has no decrypted ballot,
\* the poll scans the last blocks again, without a cursor.
LooksBack(p) ==
    /\ pc[p] = "pending"
    /\ Pending # {}
    /\ \E from \in 1..last[p] : todo' = [todo EXCEPT ![p] = from..last[p]]
    /\ last' = [last EXCEPT ![p] = 0]
    /\ GoesTo(p, "next")
    /\ UNCHANGED <<mined, cursor, tables, at, had, verdict, doomed, counted, failures>>

NothingPending(p) ==
    /\ pc[p] = "pending"
    /\ Pending = {}
    /\ Rests(p)
    /\ UNCHANGED <<mined, cursor, tables, failures>>

\* POST :id/process of any stored submission.
ProcessOne(c) ==
    /\ pc[c] = "idle"
    /\ \E s \in submitted : todo' = [todo EXCEPT ![c] = {s}]
    /\ GoesTo(c, "next")
    /\ UNCHANGED <<mined, cursor, tables, last, at, had, verdict, doomed, counted, failures>>

\* POST process-pending: every stored submission without a decrypted ballot.
ProcessPending(c) ==
    /\ pc[c] = "idle"
    /\ Pending # {}
    /\ todo' = [todo EXCEPT ![c] = Pending]
    /\ GoesTo(c, "next")
    /\ UNCHANGED <<mined, cursor, tables, last, at, had, verdict, doomed, counted, failures>>

\* Mutant of TakesNext: the newest submission is visited first.
TakesNext_NewestFirst(w, s) ==
    /\ pc[w] = "next"
    /\ s \in todo[w]
    /\ \A t \in todo[w] : s >= t
    /\ todo' = [todo EXCEPT ![w] = @ \ {s}]

\* Submissions are visited in chain order.
TakesNext(w, s) ==
    /\ pc[w] = "next"
    /\ s \in todo[w]
    /\ \A t \in todo[w] : s <= t
    /\ todo' = [todo EXCEPT ![w] = @ \ {s}]

Processes(w, s) ==
    /\ GoesTo(w, "load")
    /\ at' = [at EXCEPT ![w] = s]

\* Mutant of Upsert: nothing is left to do for a vote that has its ballot.
Upsert_NoRecount(p, s) ==
    /\ TakesNext(p, s)
    /\ submitted' = submitted \cup {s}
    /\ IF ballots[s] = None THEN Processes(p, s) ELSE GoesTo(p, "next") /\ UNCHANGED at
    /\ UNCHANGED <<mined, cursor, ballots, invalidRows, liveTally, last, had, verdict,
                   doomed, counted, failures>>

\* The upsert by transaction hash; a submission with a decrypted ballot is not
\* processed again, only the tally is recomputed.
Upsert(p, s) ==
    /\ TakesNext(p, s)
    /\ submitted' = submitted \cup {s}
    /\ IF ballots[s] = None THEN Processes(p, s) ELSE GoesTo(p, "count") /\ UNCHANGED at
    /\ UNCHANGED <<mined, cursor, ballots, invalidRows, liveTally, last, had, verdict,
                   doomed, counted, failures>>

Request(c, s) ==
    /\ TakesNext(c, s)
    /\ Processes(c, s)
    /\ UNCHANGED <<mined, cursor, tables, last, had, verdict, doomed, counted, failures>>

\* The loop is over: of a request, or of a poll that looked back, ...
LoopEnds(w) ==
    /\ pc[w] = "next"
    /\ todo[w] = {}
    /\ last[w] = 0
    /\ Rests(w)
    /\ UNCHANGED <<mined, cursor, tables, failures>>

\* ... or of a scan from the cursor, which moves behind what was scanned.
MoveCursor(p) ==
    /\ pc[p] = "next"
    /\ todo[p] = {}
    /\ last[p] > 0
    /\ cursor' = last[p] + 1
    /\ GoesTo(p, "pending")
    /\ UNCHANGED <<mined, tables, todo, last, at, had, verdict, doomed, counted, failures>>

-----------------------------------------------------------------------------
(***************************************************************************)
(* processSubmission.                                                      *)
(***************************************************************************)

\* findUnique: the submission, its decrypted ballot, and the election's key.
Load(w) ==
    /\ pc[w] = "load"
    /\ had' = [had EXCEPT ![w] = ballots[at[w]] # None]
    /\ IF HasKey
       THEN GoesTo(w, "validate") /\ UNCHANGED verdict
       ELSE GoesTo(w, "clear") /\ verdict' = [verdict EXCEPT ![w] = "MISSING_ELECTION_KEY"]
    /\ UNCHANGED <<mined, cursor, tables, todo, last, at, doomed, counted, failures>>

\* validateEncryptedSubmission, up to its last await: the valid ballots of the
\* same voter.
Judgement(s) ==
    CASE s \in Malformed -> "MALFORMED"
      [] s \notin Malformed /\ ~CanSubmitBallotOffchain(s) -> "BALLOT_POLICY_VIOLATION"
      [] s \notin Malformed /\ CanSubmitBallotOffchain(s) /\ ~PeriodIsDefined ->
             "DECRYPTION_FAILED"
      [] OTHER -> IF HasRemainingBallot(s, Valid) THEN "valid" ELSE "BALLOT_POLICY_VIOLATION"

Validate(w) ==
    /\ pc[w] = "validate"
    /\ verdict' = [verdict EXCEPT ![w] = Judgement(at[w])]
    /\ GoesTo(w, "clear")
    /\ UNCHANGED <<mined, cursor, tables, todo, last, at, had, doomed, counted, failures>>

\* A failed fetch of the manifest allows no candidate; any other error on the way
\* counts as a failed decryption.  Either is a verdict like any other.
ValidateFails(w) ==
    /\ pc[w] = "validate"
    /\ Fault
    /\ misjudged' = TRUE
    /\ \E reason \in {"UNKNOWN_CANDIDATE", "DECRYPTION_FAILED"} :
          verdict' = [verdict EXCEPT ![w] = reason]
    /\ GoesTo(w, "clear")
    /\ UNCHANGED <<mined, cursor, tables, todo, last, at, had, doomed, counted>>

\* Mutant of ClearInvalid: deleteMany runs before the transaction.
ClearInvalid_AtOnce(w) ==
    /\ pc[w] = "clear"
    /\ invalidRows' = [invalidRows EXCEPT ![at[w]] = {}]
    /\ GoesTo(w, "commit")
    /\ UNCHANGED <<mined, cursor, submitted, ballots, liveTally, todo, last, at, had, verdict,
                   doomed, counted, failures>>

\* The transaction runs at READ COMMITTED: its first statement deletes the rows
\* of invalid_ballots that are committed by then.
ClearInvalid(w) ==
    /\ pc[w] = "clear"
    /\ doomed' = [doomed EXCEPT ![w] = invalidRows[at[w]]]
    /\ GoesTo(w, "commit")
    /\ UNCHANGED <<mined, cursor, tables, todo, last, at, had, verdict, counted, failures>>

\* The other statements: delete throws without the row it deletes, create with one
\* that is already there, and then nothing of the transaction remains.
CommitSucceeds(w) == had[w] = (ballots[at[w]] # None)

\* Of the other transactions on the same submission, those that already wait at
\* their delete or create throw when this one commits: the row they wait for is gone
\* or taken.
Commit(w) ==
    /\ pc[w] = "commit"
    /\ CommitSucceeds(w)
    /\ ballots' = [ballots EXCEPT ![at[w]] = verdict[w]]
    /\ invalidRows' = [invalidRows EXCEPT ![at[w]] =
          (@ \ doomed[w]) \cup (IF verdict[w] = "valid" THEN {} ELSE {w})]
    /\ \E waiting \in SUBSET {v \in Workers \ {w} : pc[v] = "commit" /\ at[v] = at[w]} :
          pc' = [v \in Workers |-> IF v = w THEN "count"
                                  ELSE IF v \in waiting THEN "rollback" ELSE pc[v]]
    /\ Forgets(w)
    /\ UNCHANGED <<mined, cursor, submitted, liveTally, todo, last, failures>>

Rollback(w) ==
    /\ \/ pc[w] = "rollback"
       \/ pc[w] = "commit" /\ ~CommitSucceeds(w)
    /\ Rests(w)
    /\ UNCHANGED <<mined, cursor, tables, failures>>

-----------------------------------------------------------------------------
(***************************************************************************)
(* recomputeForElection of the live tally: what was read is written later. *)
(***************************************************************************)

CountBallots(w) ==
    /\ pc[w] = "count"
    /\ counted' = [counted EXCEPT ![w] = Valid]
    /\ GoesTo(w, "wipe")
    /\ UNCHANGED <<mined, cursor, tables, todo, last, at, had, verdict, doomed, failures>>

\* deleteMany: the rows of the tally that are committed by now.
WipeTally(w) ==
    /\ pc[w] = "wipe"
    /\ GoesTo(w, "store")
    /\ UNCHANGED <<mined, cursor, tables, todo, last, at, had, verdict, doomed, counted, failures>>

\* createMany and the commit.  Every recompute has a row for each candidate of the
\* manifest, so the unique index on election and candidate makes the createMany of
\* every other transaction that has wiped already throw.
StoreTally(w) ==
    /\ pc[w] = "store"
    /\ liveTally' = counted[w]
    /\ pc' = [v \in Workers |-> IF v = w THEN "next"
                               ELSE IF pc[v] = "store" THEN "clash" ELSE pc[v]]
    /\ Forgets(w)
    /\ UNCHANGED <<mined, cursor, submitted, ballots, invalidRows, todo, last, failures>>

TallyClash(w) ==
    /\ pc[w] = "clash"
    /\ Rests(w)
    /\ UNCHANGED <<mined, cursor, tables, failures>>

\* A call to the node or to the database fails.
Fails(w) ==
    /\ pc[w] \notin {"idle", "validate"}
    /\ Fault
    /\ Rests(w)
    /\ UNCHANGED <<mined, cursor, tables, misjudged>>

-----------------------------------------------------------------------------
Process(w) ==
    \/ Load(w)
    \/ Validate(w)
    \/ ValidateFails(w)
    \/ ClearInvalid(w)
    \/ Commit(w)
    \/ Rollback(w)
    \/ CountBallots(w)
    \/ WipeTally(w)
    \/ StoreTally(w)
    \/ TallyClash(w)
    \/ LoopEnds(w)
    \/ Fails(w)

Next ==
    \/ Mine
    \/ \E p \in Polls :
          \/ PollStart(p)
          \/ PollFindsNothing(p)
          \/ MoveCursor(p)
          \/ LooksBack(p)
          \/ NothingPending(p)
          \/ \E s \in Submissions : Upsert(p, s)
    \/ \E c \in Callers :
          ProcessOne(c) \/ ProcessPending(c) \/ \E s \in Submissions : Request(c, s)
    \/ \E w \in Workers : Process(w)

Spec == Init /\ [][Next]_vars

-----------------------------------------------------------------------------
(***************************************************************************)
(* Properties.                                                             *)
(***************************************************************************)

\* No voter has two valid ballots in one period, whoever processed them and in
\* whatever order the validations and the commits of several workers interleaved:
\* validateBallotUsage reads the other ballots long before its verdict is stored.
OneValidBallotPerPeriod ==
    Policy # "UNLIMITED_PAID" => \A s \in Valid : Rivals(s) \cap Valid = {}

\* Whatever calls fail, it takes one that becomes a verdict to break that rule.
OneBallotUnlessMisjudged == ~misjudged => OneValidBallotPerPeriod

\* Until then a well-formed ballot within the window is refused for the policy only when an
\* earlier vote of the same voter in the same period has the ballot: the first vote
\* on the chain counts, not the first one processed, and processing a vote again
\* does not turn its own verdict against it.
EarlierVoteWins ==
    ~misjudged => \A s \in submitted \ Malformed :
        ballots[s] = "BALLOT_POLICY_VIOLATION" /\ CanSubmitBallotOffchain(s) =>
            \E t \in Rivals(s) : t < s /\ ballots[t] = "valid"

\* An invalid ballot always has a row of invalid_ballots that says why, although
\* each processing deletes the rows there are and a transaction may roll back.
RefusalsAreExplained ==
    \A s \in Submissions : ballots[s] \in ReasonCodes => invalidRows[s] # {}

\* When nothing is under way and every mined vote was scanned, the live tally
\* counts exactly the valid ballots, also after calls failed between a verdict and
\* the tally that counts it.  (One worker: overlapping ones write stale counts.)
LiveTallySettles ==
    (\A w \in Workers : pc[w] = "idle") /\ cursor > mined => liveTally = Valid

\* The votes of BallotLedger that are decided are those with a decrypted ballot.
Ledger == INSTANCE BallotLedger
          WITH decided <- {s \in Submissions : ballots[s] # None}, valid <- Valid

\* However polls and requests overlap, throw and repeat each other, the outcome is that of
\* one process that decides the votes in chain order, each once.
DecidesInChainOrder == Ledger!Spec
=============================================================================
