------------------------------ MODULE Checkout ------------------------------
(***************************************************************************)
(* The payment sheet BankQRPayment of the web client                       *)
(* (components/BakongPayment.tsx) and of the mobile application            *)
(* (features/payment/BakongPayment.tsx), which are the same program.  The  *)
(* sheet polls the payment, submits the runner's bank reference, and is    *)
(* opened and closed by the screens of RunnerWeb and RunnerPhone.          *)
(***************************************************************************)
EXTENDS EntryApi

CONSTANT
    Presses     \* presses of "I have paid" that may be under way at once

VARIABLES
    sheet,      \* the entry the sheet is about
    phase,      \* phaseRef and the state phase, which are always set together
    checking,   \* the state checking
    poll,       \* verify: the entry it asked about and where it stands
    submit,     \* submitPayment, likewise, for each press
    late,       \* requests on their way whose sheet or page was closed
    swapped     \* another checkout was put into the open sheet

checkoutVars == <<sheet, phase, checking, poll, submit, late, swapped>>

Rest == [of |-> NoChoice, at |-> "idle"]
NoPress == [p \in Presses |-> Rest]
Asks(c) == [of |-> c, at |-> "asked"]
Phases == {"waiting", "processing", "confirmed", "failed"}

CheckoutTypeOK ==
    /\ sheet \in Choices \union {NoChoice}
    /\ phase \in Phases
    /\ checking \in BOOLEAN /\ swapped \in BOOLEAN
    /\ poll \in [of : Choices \union {NoChoice},
                 at : {"idle", "asked", "confirmed", "pending", "over", "lost"}]
    /\ submit \in [Presses -> [of : Choices \union {NoChoice},
                               at : {"idle", "asked", "accepted", "refused"}]]
    /\ late \subseteq {"submit", "enter", "cancel"} \X Choices

CheckoutInit ==
    /\ sheet = NoChoice /\ phase = "waiting" /\ checking = FALSE
    /\ poll = Rest /\ submit = NoPress /\ late = {} /\ swapped = FALSE

\* initialPhase, from the status of the payment when the checkout was read.  The payment
\* of an entry that was cancelled keeps its status; a lapsed or rejected one has failed.
InitialPhases(c, st) ==
    CASE st = "review" -> {"processing"}
      [] st = "confirmed" -> {"confirmed"}
      [] st = "ended" -> {"waiting", "processing", "failed"}
                             \union {p \in {"confirmed"} : c \in won}
      [] OTHER -> {"waiting"}

(***************************************************************************)
(* A screen shows the checkout of entry c, read when the entry was in      *)
(* state st.  A sheet that is already open keeps its state: only the       *)
(* checkout it is about changes.                                           *)
(***************************************************************************)
Shows(c, st) ==
    /\ sheet' = c
    /\ IF sheet = NoChoice
       THEN /\ phase' \in InitialPhases(c, st) /\ checking' = FALSE
            /\ poll' = Rest /\ submit' = NoPress /\ swapped' = FALSE
            /\ UNCHANGED late
       ELSE /\ swapped' = (swapped \/ c # sheet)
            /\ UNCHANGED <<phase, checking, poll, submit, late>>

\* The sheet is unmounted: answers no longer reach it, but a submission goes on, like
\* the requests "others" of the page.
Unmounts(others) ==
    /\ sheet' = NoChoice /\ phase' = "waiting" /\ checking' = FALSE
    /\ poll' = Rest /\ submit' = NoPress /\ swapped' = FALSE
    /\ late' = late \union others
            \union {<<"submit", submit[p].of>> : p \in {q \in Presses : submit[q].at = "asked"}}

-----------------------------------------------------------------------------
\* Mutant: nothing is polled once a reference was submitted.
VerifyWaiting ==
    /\ sheet # NoChoice /\ phase = "waiting"
    /\ poll.at = "idle"
    /\ poll' = Asks(sheet) /\ checking' = TRUE
    /\ UNCHANGED <<sheet, phase, submit, late, swapped>>
    /\ UNCHANGED apiVars

\* The poll: every four seconds while the payment is open, or when the runner
\* presses "Check again".  One check at a time; the sheet asks for its entry.  (What the check
\* does for a press in "waiting" does not happen: the button is shown in "processing" only.)
Verify ==
    /\ sheet # NoChoice /\ phase \in {"waiting", "processing"}
    /\ poll.at = "idle"
    /\ poll' = Asks(sheet) /\ checking' = TRUE
    /\ UNCHANGED <<sheet, phase, submit, late, swapped>>
    /\ UNCHANGED apiVars

VerifyHandled ==
    /\ poll.at = "asked"
    /\ poll' = [poll EXCEPT !.at = Verdict(poll.of)]
    /\ UNCHANGED <<sheet, phase, checking, submit, late, swapped>>
    /\ UNCHANGED apiVars

\* confirmed and failed are reported; otherwise the sheet goes on polling
\* (an answer that is lost is counted and forgotten)
VerifyArrives ==
    /\ poll.at # "idle"
    /\ phase' = CASE poll.at = "confirmed" -> "confirmed"
                  [] poll.at = "over" -> "failed"
                  [] OTHER -> phase
    /\ poll' = Rest /\ checking' = FALSE
    /\ UNCHANGED <<sheet, submit, late, swapped>>
    /\ UNCHANGED apiVars

\* "I have paid": disabled while a check is under way, but not while the submission
\* itself outlives a check (submitPayment does not set checkingRef)
SubmitPayment(p) ==
    /\ sheet # NoChoice /\ phase = "waiting" /\ ~checking
    /\ submit[p].at = "idle"
    /\ submit' = [submit EXCEPT ![p] = Asks(sheet)] /\ checking' = TRUE
    /\ UNCHANGED <<sheet, phase, poll, late, swapped>>
    /\ UNCHANGED apiVars

SubmitHandled(p) ==
    /\ submit[p].at = "asked"
    /\ \/ AcceptsReference(submit[p].of) /\ submit' = [submit EXCEPT ![p].at = "accepted"]
       \/ RefusesReference(submit[p].of) /\ submit' = [submit EXCEPT ![p].at = "refused"]
       \* the answer is lost, before or after the reference was stored
       \/ /\ AcceptsReference(submit[p].of) \/ UNCHANGED apiVars
          /\ submit' = [submit EXCEPT ![p].at = "refused"]
    /\ UNCHANGED <<sheet, phase, checking, poll, late, swapped>>

\* Mutant: the phase follows a submission that was refused, too.
SubmitReturns(p) ==
    /\ submit[p].at \in {"accepted", "refused"}
    /\ phase' = "processing"
    /\ submit' = [submit EXCEPT ![p] = Rest] /\ checking' = FALSE
    /\ UNCHANGED <<sheet, poll, late, swapped>>
    /\ UNCHANGED apiVars

\* the phase follows the submission, whatever a check has reported meanwhile
SubmitArrives(p) ==
    /\ submit[p].at \in {"accepted", "refused"}
    /\ phase' = IF submit[p].at = "accepted" THEN "processing" ELSE phase
    /\ submit' = [submit EXCEPT ![p] = Rest] /\ checking' = FALSE
    /\ UNCHANGED <<sheet, poll, late, swapped>>
    /\ UNCHANGED apiVars

\* a request whose sheet or page is gone reaches the service, or is lost
Straggles ==
    /\ \E kind \in {"submit", "enter", "cancel"}, c \in Choices :
         /\ <<kind, c>> \in late /\ late' = late \ {<<kind, c>>}
         /\ \/ kind = "submit" /\ AcceptsReference(c)
            \/ kind = "enter" /\ Enrolled(c)
            \/ kind = "cancel" /\ Withdraws(c)
            \/ UNCHANGED apiVars
    /\ UNCHANGED <<sheet, phase, checking, poll, submit, swapped>>

SheetSteps ==
    \/ Verify \/ VerifyHandled \/ VerifyArrives
    \/ \E p \in Presses : SubmitPayment(p) \/ SubmitHandled(p) \/ SubmitArrives(p)
    \/ Straggles

\* Timers fire and requests are answered; a request may be lost, but not for ever.
SheetFairness ==
    /\ WF_<<apiVars, checkoutVars>>(Verify)
    /\ SF_<<apiVars, checkoutVars>>(VerifyHandled)
    /\ WF_<<apiVars, checkoutVars>>(VerifyArrives)

-----------------------------------------------------------------------------
\* What the sheet says is true of the entry it is about, although checks and the
\* submission answer in any order and the entry changes elsewhere: "confirmed" only
\* for an entry that was confirmed, "failed" only for one that is over, "processing"
\* only when a reference was submitted.  (Not when a screen puts another checkout into
\* an open sheet, which keeps the phase of the first.)
SheetIsTrue ==
    sheet # NoChoice /\ ~swapped =>
        /\ phase = "confirmed" => sheet \in won
        /\ phase = "failed" => entry[sheet] = "ended"
        /\ phase = "processing" => entry[sheet] # "unpaid"

\* A sheet that stays open ends up saying so when its entry is confirmed or over.
SheetSettles ==
    \A c \in Choices :
        (sheet = c /\ entry[c] \in {"confirmed", "ended"})
            ~> (sheet # c \/ phase \in {"confirmed", "failed"})
=============================================================================
