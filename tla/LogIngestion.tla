------------------------------ MODULE LogIngestion ------------------------------
(***************************************************************************)
(* What the indexer promises about the event logs, and nothing about how:  *)
(* logs are taken in one by one, each after its block exists and a vote    *)
(* only after its election; what was taken in stays, and no wanted log of  *)
(* a mined block is left out for ever.                                     *)
(***************************************************************************)
EXTENDS EventLogs

VARIABLES head, ingested

Init ==
    /\ head = 0
    /\ ingested = {}

NewBlock ==
    /\ head < MaxBlock
    /\ head' = head + 1
    /\ UNCHANGED ingested

Ingest(l) ==
    /\ l \notin ingested
    /\ BlockOf[l] <= head
    /\ l \in Votes => ElectionOf[l] \in ingested
    /\ ingested' = ingested \cup {l}
    /\ UNCHANGED head

Next == NewBlock \/ \E l \in Logs : Ingest(l)

Spec ==
    /\ Init
    /\ [][Next]_<<head, ingested>>
    /\ \A l \in Wanted : WF_<<head, ingested>>(Ingest(l))
=============================================================================
