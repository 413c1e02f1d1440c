------------------------------ MODULE EntryApi ------------------------------
(***************************************************************************)
(* What a runner's client sees of the registration service: the entries of *)
(* one runner, each a registration of its own.  RegistrationService models *)
(* the service itself; here every request is one step, payment is reviewed *)
(* by an organizer (provider "manual"), and whether a category still has a *)
(* place is left open.                                                     *)
(***************************************************************************)
EXTENDS Naturals, FiniteSets

CONSTANTS
    Choices,    \* the registrations the runner may make, each for one category of a race; entering
                \* a race again, once the entry for it is over, makes another one
    NoChoice    \* none of them

ASSUME NoChoiceAssumption == NoChoice \notin Choices

VARIABLES
    entry,      \* the state of the runner's entry for each category
    won         \* entries that have been confirmed

apiVars == <<entry, won>>

EntryStates == {"none", "unpaid", "review", "confirmed", "ended"}
Pending == {"unpaid", "review"}

ApiTypeOK ==
    /\ entry \in [Choices -> EntryStates]
    /\ won \subseteq Choices

\* a runner who has no entry yet, or has reserved places and pays later
ApiInit ==
    /\ entry \in [Choices -> {"none", "unpaid"}]
    /\ won = {}

\* Register: paid entries wait for payment, free ones are confirmed.  (That a runner has one
\* open entry for a race is left out: two choices may be entered in any order.)
Enrolled(c) ==
    /\ entry[c] = "none"
    /\ \E st \in {"unpaid", "confirmed"} :
         /\ entry' = [entry EXCEPT ![c] = st]
         /\ won' = IF st = "confirmed" THEN won \union {c} ELSE won

\* SubmitManualPayment: the runner's bank reference goes to review
AcceptsReference(c) ==
    /\ entry[c] = "unpaid"
    /\ entry' = [entry EXCEPT ![c] = "review"]
    /\ UNCHANGED won

RefusesReference(c) == entry[c] # "unpaid" /\ UNCHANGED apiVars

\* Cancel: the place is released, unless the entry is over (an entry that is checked
\* in, which the service does not cancel either, is like one that is confirmed here)
Withdraws(c) ==
    /\ entry[c] \in Pending \union {"confirmed"}
    /\ entry' = [entry EXCEPT ![c] = "ended"]
    /\ UNCHANGED won

\* VerifyPayment and GetPayment report the state of an entry
Verdict(c) == IF entry[c] = "confirmed" THEN "confirmed"
              ELSE IF entry[c] \in Pending THEN "pending" ELSE "over"

-----------------------------------------------------------------------------
(* What others do meanwhile. *)

\* the organizer matches the reference, or rejects it
Approves(c) ==
    /\ entry[c] = "review"
    /\ entry' = [entry EXCEPT ![c] = "confirmed"]
    /\ won' = won \union {c}

Rejects(c) ==
    /\ entry[c] = "review"
    /\ entry' = [entry EXCEPT ![c] = "ended"]
    /\ UNCHANGED won

\* the reservation lapses before a reference was submitted
Lapses(c) ==
    /\ entry[c] = "unpaid"
    /\ entry' = [entry EXCEPT ![c] = "ended"]
    /\ UNCHANGED won

OthersAct == \E c \in Choices : Approves(c) \/ Rejects(c) \/ Lapses(c)
=============================================================================
