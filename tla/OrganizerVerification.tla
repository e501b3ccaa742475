--------------------------- MODULE OrganizerVerification ---------------------------
(***************************************************************************)
(* VerifiedOrganizersService for one wallet: requests for verification,    *)
(* and the administrators' decisions, which change the registry contract   *)
(* first and the row afterwards.  Requests are handled concurrently.  A    *)
(* wallet is looked up whatever the case of its letters, but the unique    *)
(* index of the table is on the spelling.                                  *)
(***************************************************************************)
EXTENDS Integers, Sequences

CONSTANTS
    Spellings,      \* ways to write the wallet's address
    Requests,       \* requests that may be handled at once
    Configured,     \* are the registry and its signer configured?
    MaxFaults       \* bound on failed calls and reverted transactions

NoSpelling == "none"

ASSUME VerificationAssumption ==
    NoSpelling \notin Requests /\ Configured \in BOOLEAN /\ MaxFaults \in Nat

VARIABLES
    organizers,     \* verified_organizers: the rows, an id is a place
    latest,         \* the row updated last, 0 for none
    registry,       \* is the wallet verified in the registry contract?
    sent,           \* transactions in the order of their nonces
    handling,       \* what each request is about, and
    where,          \* the await it is at
    row,            \* the row it has found, 0 for none
    spelling,       \* the address it gives
    faults,
    alone,          \* history: no other decision was under way since the request began
    apart           \* history: may row and registry have come apart?

verificationVars ==
    <<organizers, latest, registry, sent, handling, where, row, spelling, faults, alone, apart>>

Decisions == {"approve", "reject"}

VerificationTypeOK ==
    /\ organizers \in Seq([wallet : Spellings, status : {"PENDING", "VERIFIED", "REJECTED"}])
    /\ latest \in 0..Len(organizers)
    /\ registry \in BOOLEAN
    /\ sent \in Seq([by : Requests \cup {NoSpelling}, decision : Decisions])
    /\ handling \in [Requests -> {"nothing", "request"} \cup Decisions]
    /\ where \in [Requests -> {"idle", "save", "send", "wait", "store"}]
    /\ row \in [Requests -> 0..Len(organizers)]
    /\ spelling \in [Requests -> Spellings \cup {NoSpelling}]
    /\ faults \in 0..MaxFaults
    /\ alone \in [Requests -> BOOLEAN]
    /\ apart \in BOOLEAN

VerificationInit ==
    /\ organizers = <<>>
    /\ latest = 0
    /\ registry = FALSE
    /\ sent = <<>>
    /\ handling = [r \in Requests |-> "nothing"]
    /\ where = [r \in Requests |-> "idle"]
    /\ row = [r \in Requests |-> 0]
    /\ spelling = [r \in Requests |-> NoSpelling]
    /\ faults = 0
    /\ alone = [r \in Requests |-> TRUE]
    /\ apart = FALSE

Fault ==
    /\ faults < MaxFaults
    /\ faults' = faults + 1

Answers(r) ==
    /\ handling' = [handling EXCEPT ![r] = "nothing"]
    /\ where' = [where EXCEPT ![r] = "idle"]
    /\ row' = [row EXCEPT ![r] = 0]
    /\ spelling' = [spelling EXCEPT ![r] = NoSpelling]
    /\ alone' = [alone EXCEPT ![r] = TRUE]

-----------------------------------------------------------------------------
(***************************************************************************)
(* requestVerification.                                                    *)
(***************************************************************************)

\* The most recent row of the wallet, however it is spelled.
FindOrganizer(r) ==
    /\ handling[r] = "nothing"
    /\ handling' = [handling EXCEPT ![r] = "request"]
    /\ \E s \in Spellings : spelling' = [spelling EXCEPT ![r] = s]
    /\ row' = [row EXCEPT ![r] = latest]
    /\ where' = [where EXCEPT ![r] = "save"]
    /\ UNCHANGED <<organizers, latest, registry, sent, faults, alone, apart>>

\* A row is created, or the one found is updated; a spelling that another row has by now
\* makes either throw.
SpellingIsTaken(r) ==
    \E i \in DOMAIN organizers : i # row[r] /\ organizers[i].wallet = spelling[r]

SaveRequest(r) ==
    /\ handling[r] = "request"
    /\ LET pending == [wallet |-> spelling[r], status |-> "PENDING"] IN
       IF SpellingIsTaken(r) THEN UNCHANGED <<organizers, latest>>
       ELSE IF row[r] = 0
            THEN organizers' = Append(organizers, pending) /\ latest' = Len(organizers) + 1
            ELSE organizers' = [organizers EXCEPT ![row[r]] = pending] /\ latest' = row[r]
    /\ Answers(r)
    /\ UNCHANGED <<registry, sent, faults, apart>>

-----------------------------------------------------------------------------
(***************************************************************************)
(* approve and reject.                                                     *)
(***************************************************************************)

Deciding == {r \in Requests : handling[r] \in Decisions}

\* Mutant of Decide: the row is updated before the registry.
Decide_RowFirst(r, decision) ==
    /\ handling[r] = "nothing"
    /\ \E i \in DOMAIN organizers :
          /\ row' = [row EXCEPT ![r] = i]
          /\ organizers' = [organizers EXCEPT ![i].status =
                IF decision = "approve" THEN "VERIFIED" ELSE "REJECTED"]
    /\ handling' = [handling EXCEPT ![r] = decision]
    /\ where' = [where EXCEPT ![r] = IF Configured THEN "send" ELSE "store"]
    /\ alone' = [q \in Requests |->
          IF q = r THEN Deciding = {} /\ sent = <<>> ELSE alone[q] /\ q \notin Deciding]
    /\ apart' = (apart \/ Deciding # {} \/ sent # <<>>)
    /\ UNCHANGED <<latest, registry, sent, spelling, faults>>

\* The row's address is read; without a configured registry there is nothing to send.
\* Two decisions at once, or one whose transaction has outlived its request, may leave
\* the row and the registry different.
Decide(r, decision) ==
    /\ handling[r] = "nothing"
    /\ \E i \in DOMAIN organizers : row' = [row EXCEPT ![r] = i]
    /\ handling' = [handling EXCEPT ![r] = decision]
    /\ where' = [where EXCEPT ![r] = IF Configured THEN "send" ELSE "store"]
    /\ alone' = [q \in Requests |->
          IF q = r THEN Deciding = {} /\ sent = <<>> ELSE alone[q] /\ q \notin Deciding]
    /\ apart' = (apart \/ Deciding # {} \/ sent # <<>>)
    /\ UNCHANGED <<organizers, latest, registry, sent, spelling, faults>>

SendVerification(r) ==
    /\ where[r] = "send"
    /\ sent' = Append(sent, [by |-> r, decision |-> handling[r]])
    /\ where' = [where EXCEPT ![r] = "wait"]
    /\ UNCHANGED <<organizers, latest, registry, handling, row, spelling, faults,
                   alone, apart>>

\* The next transaction is mined; its receipt lets the request go on.
Receipt ==
    /\ sent' = Tail(sent)
    /\ where' = [r \in Requests |-> IF Head(sent).by = r THEN "store" ELSE where[r]]

SetVerification ==
    /\ sent # <<>>
    /\ registry' = (Head(sent).decision = "approve")
    /\ Receipt
    /\ UNCHANGED <<organizers, latest, handling, row, spelling, faults, alone, apart>>

\* The receipt of a reverted transaction is a receipt too: its status is not looked at.
VerificationReverts ==
    /\ sent # <<>>
    /\ Fault
    /\ Receipt
    /\ apart' = TRUE
    /\ alone' = [r \in Requests |-> alone[r] /\ Head(sent).by # r]
    /\ UNCHANGED <<organizers, latest, registry, handling, row, spelling>>

\* The row is updated.  A decision nobody interfered with settles the matter again.
StoreDecision(r) ==
    /\ where[r] = "store"
    /\ organizers' = [organizers EXCEPT ![row[r]] =
          [wallet |-> @.wallet,
           status |-> IF handling[r] = "approve" THEN "VERIFIED" ELSE "REJECTED"]]
    /\ latest' = row[r]
    /\ apart' = (apart /\ ~alone[r])
    /\ Answers(r)
    /\ UNCHANGED <<registry, sent, faults>>

\* A call fails and the request with it; a transaction that was sent stays sent.
RequestFails(r) ==
    /\ handling[r] # "nothing"
    /\ Fault
    /\ apart' = (apart \/ where[r] \in {"wait", "store"})
    /\ sent' = [i \in DOMAIN sent |->
          IF sent[i].by = r THEN [by |-> NoSpelling, decision |-> sent[i].decision]
          ELSE sent[i]]
    /\ Answers(r)
    /\ UNCHANGED <<organizers, latest, registry>>

-----------------------------------------------------------------------------
RequestStep(r) ==
    \/ FindOrganizer(r)
    \/ SaveRequest(r)
    \/ \E decision \in Decisions : Decide(r, decision)
    \/ SendVerification(r)
    \/ StoreDecision(r)
    \/ RequestFails(r)

VerificationNext ==
    \/ \E r \in Requests : RequestStep(r)
    \/ SetVerification
    \/ VerificationReverts

-----------------------------------------------------------------------------
(***************************************************************************)
(* Properties.                                                             *)
(***************************************************************************)

\* The elections API shows the organizer's name: loadVerifiedOrganizerMap.
OrganizerIsShown == \E i \in DOMAIN organizers : organizers[i].status = "VERIFIED"

\* When no decision is under way, the API shows an organizer only while the registry
\* has the wallet verified, and a rejected one is not verified there: unless a call
\* failed or a transaction reverted since the last decision that ran alone to its end,
\* or the wallet has two rows for two spellings.
RegistryAgrees ==
    Configured /\ ~apart /\ Deciding = {} /\ sent = <<>> /\ Len(organizers) = 1 =>
        /\ OrganizerIsShown => registry
        /\ organizers[1].status = "REJECTED" => ~registry
=============================================================================
