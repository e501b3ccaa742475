------------------------------- MODULE Registration -------------------------------
(***************************************************************************)
(* What the elections API is assembled from before any vote is cast: the   *)
(* rows that preparation and indexing make of an election, and the         *)
(* verification of its organizer.  The two share neither a table nor a     *)
(* call, so that their steps commute and each can be explored on its own:  *)
(* the requests of the organizer come when the polls are through.          *)
(***************************************************************************)
EXTENDS ElectionIndexing, OrganizerVerification

vars == <<indexingVars, verificationVars>>

TypeOK == IndexingTypeOK /\ VerificationTypeOK

Init == IndexingInit /\ VerificationInit

IndexingStep ==
    /\ organizers = <<>> /\ \A r \in Requests : handling[r] = "nothing"
    /\ IndexingNext
    /\ UNCHANGED verificationVars

VerificationStep ==
    /\ created + 1 \notin Contracts /\ \A p \in Polls : pc[p] = "idle"
    /\ VerificationNext
    /\ UNCHANGED indexingVars

Next == IndexingStep \/ VerificationStep

Spec == Init /\ [][Next]_vars
=============================================================================
