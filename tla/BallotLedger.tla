------------------------------- MODULE BallotLedger -------------------------------
(***************************************************************************)
(* What the processing of private votes promises, and nothing about how:   *)
(* the votes are decided one after the other in the order of the chain,    *)
(* each once, by the rule applied to those decided before it; a decision   *)
(* stands.  An error that is taken for a verdict ends the promise, but a   *)
(* vote that has been decided stays decided.                               *)
(***************************************************************************)
EXTENDS BallotPolicy

CONSTANTS
    HasKey,     \* is the election linked to a draft with a key?
    Malformed   \* submissions that fail a check on their payload alone

VARIABLES
    decided,    \* the votes with a verdict
    valid,      \* those that count
    misjudged   \* has an error been taken for a verdict?

Init ==
    /\ decided = {}
    /\ valid = {}
    /\ misjudged = FALSE

Eligible(s) ==
    HasKey /\ s \notin Malformed /\ CanSubmitBallotOffchain(s) /\ PeriodIsDefined

Decide(s) ==
    /\ ~misjudged
    /\ s \notin decided
    /\ \A t \in Submissions : t < s => t \in decided
    /\ decided' = decided \cup {s}
    /\ valid' = IF Eligible(s) /\ HasRemainingBallot(s, valid) THEN valid \cup {s} ELSE valid
    /\ UNCHANGED misjudged

Misjudge ==
    /\ misjudged' = TRUE
    /\ decided \subseteq decided'
    /\ valid' \subseteq decided'

Next == Misjudge \/ \E s \in Submissions : Decide(s)

Spec == Init /\ [][Next]_<<decided, valid, misjudged>>
=============================================================================
