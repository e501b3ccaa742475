------------------------------ MODULE BallotPolicy ------------------------------
(***************************************************************************)
(* The off-chain rule for the use of ballots in one private election:      *)
(* PrivateBallotProcessorService.validateBallotUsage and its helpers.      *)
(* Times are seconds; a submission is a number, in chain order.            *)
(***************************************************************************)
EXTENDS Integers, FiniteSets

CONSTANTS
    Submissions,    \* the private votes of the election, in chain order
    VoterOf,        \* transaction.from of each
    TimeOf,         \* the timestamp of its block
    Policy,         \* the election's ballot policy
    ResetInterval,  \* resetIntervalSeconds
    Offset,         \* timezoneWindowOffset
    StartAt, EndAt  \* the election's window

ASSUME PolicyAssumption ==
    /\ Submissions \subseteq Nat
    /\ TimeOf \in [Submissions -> Nat]
    /\ Policy \in {"ONE_PER_ELECTION", "ONE_PER_INTERVAL", "UNLIMITED_PAID"}
    /\ ResetInterval \in Nat
    /\ Offset \in Int
    /\ StartAt \in Nat
    /\ EndAt \in Nat

\* The interval must be set for the interval policy: the code throws otherwise.
PeriodIsDefined == Policy = "ONE_PER_INTERVAL" => ResetInterval > 0

CurrentPeriodKey(s) ==
    IF Policy = "ONE_PER_INTERVAL" THEN (TimeOf[s] + Offset) \div ResetInterval ELSE 0

CanSubmitBallotOffchain(s) == StartAt <= TimeOf[s] /\ TimeOf[s] < EndAt

\* The other submissions that compete with s for the same ballot.
Rivals(s) ==
    {t \in Submissions \ {s} :
        /\ VoterOf[t] = VoterOf[s]
        /\ CurrentPeriodKey(t) = CurrentPeriodKey(s)}

\* Mutants of HasRemainingBallot: the count is compared with <= 1; the query for
\* the prior ballots does not leave the submission itself out.
HasRemainingBallot_OffByOne(s, valid) ==
    Policy = "UNLIMITED_PAID" \/ Cardinality(Rivals(s) \cap valid) <= 1

HasRemainingBallot_CountsItself(s, valid) ==
    Policy = "UNLIMITED_PAID" \/ (Rivals(s) \cup {s}) \cap valid = {}

\* Is there a ballot left for s when the submissions in valid hold one?
HasRemainingBallot(s, valid) ==
    Policy = "UNLIMITED_PAID" \/ Rivals(s) \cap valid = {}
=============================================================================
