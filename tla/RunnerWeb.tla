----------------------------- MODULE RunnerWeb -----------------------------
(***************************************************************************)
(* The web pages on which a runner enters a race and looks after her       *)
(* entries: pages/events/[slug]/register.tsx and pages/dashboard.tsx, with *)
(* the payment sheet of Checkout.  A page that is left forgets its state;  *)
(* what it had asked of the service is still carried out.                  *)
(***************************************************************************)
EXTENDS Checkout

CONSTANT
    WebRequests     \* requests a runner's presses put under way at once

VARIABLES
    page,       \* the race whose form is shown, the dashboard, or another page
    ready,      \* whether it has loaded, and how
    list,       \* registrations of the dashboard, existingEntry of the form
    reads,      \* listMyRegistrations, for each caller
    selected,   \* the category of the race is selected
    known,      \* what the form knows of it: there are places, or not
    enter,      \* handleRegister
    resume,     \* resumePayment of each entry: the state it was answered with
    cancel      \* cancelEntry of each entry

formVars == <<selected, known, enter>>
walletVars == <<resume, cancel>>
webPageVars == <<page, ready, list, reads>>
webClientVars == <<webPageVars, formVars, walletVars>>
runnerWebVars == <<apiVars, checkoutVars, webClientVars>>

\* listMyRegistrations
Listing(st) == IF st \in Pending THEN "pending" ELSE st
Snapshot == [c \in Choices |-> Listing(entry[c])]
Empty == [c \in Choices |-> "none"]
Lists == [Choices -> {"none", "pending", "confirmed", "ended"}]
Readers == {"load", "paid"} \union Choices
NotReading == [at |-> "idle", got |-> Empty]
AsksList == [at |-> "asked", got |-> Empty]
Nothing == [r \in Readers |-> NotReading]

RunnerWebTypeOK ==
    /\ ApiTypeOK /\ CheckoutTypeOK
    /\ page \in Choices \union {"dashboard", "elsewhere"}
    /\ ready \in {"loading", "shown", "failed"}
    /\ list \in Lists
    /\ reads \in [Readers -> [at : {"idle", "asked", "read"}, got : Lists]]
    /\ selected \in BOOLEAN /\ known \in {"places", "full"}
    /\ enter \in {"idle", "asked", "unpaid", "confirmed", "refused"}
    /\ resume \in [Choices -> EntryStates \union {"idle", "asked"}]
    /\ cancel \in [Choices -> {"idle", "asked", "done", "refused", "rereads"}]

RunnerWebInit ==
    /\ ApiInit /\ CheckoutInit
    /\ page = "elsewhere" /\ ready = "loading" /\ list = Empty /\ reads = Nothing
    /\ selected = FALSE /\ known = "places" /\ enter = "idle"
    /\ resume = [c \in Choices |-> "idle"] /\ cancel = [c \in Choices |-> "idle"]

\* WebRequests bounds what presses put under way.
MayAsk ==
    Cardinality({c \in Choices : resume[c] # "idle"} ) + Cardinality({c \in Choices : cancel[c] # "idle"})
        + Cardinality(late) < WebRequests

\* A page is opened: its state starts afresh and it begins to load.  The category may
\* come with the address of the form.
Opens(p) ==
    /\ page' = p /\ ready' = "loading" /\ list' = Empty
    /\ reads' = [Nothing EXCEPT !["load"] = AsksList]
    /\ selected' = (p \in Choices) /\ known' = "places" /\ enter' = "idle"
    /\ resume' = [c \in Choices |-> "idle"] /\ cancel' = [c \in Choices |-> "idle"]
    /\ Unmounts({<<"cancel", c>> : c \in {d \in Choices : cancel[d] = "asked"}}
                  \union (IF enter = "asked" THEN {<<"enter", page>>} ELSE {}))

Visits(p) == page = "elsewhere" /\ Opens(p) /\ UNCHANGED apiVars

\* a link, the login page (nobody is signed in, or signing out) or another address
Leaves == page # "elsewhere" /\ late = {} /\ Opens("elsewhere") /\ UNCHANGED apiVars

-----------------------------------------------------------------------------
(* listMyRegistrations is answered with what the service holds at that time. *)

ListRead(r) ==
    /\ reads[r].at = "asked" /\ page # "elsewhere"
    /\ reads' = [reads EXCEPT ![r] = [at |-> "read", got |-> Snapshot]]
    /\ UNCHANGED <<apiVars, checkoutVars, page, ready, list, formVars, walletVars>>

\* The answer arrives, or is lost: the form then opens without the list, the dashboard
\* shows an error instead.
Loaded ==
    /\ reads["load"].at # "idle" /\ page # "elsewhere"
    /\ ready' = IF reads["load"].at = "asked" /\ page = "dashboard" THEN "failed" ELSE "shown"
    /\ list' = reads["load"].got
    /\ reads' = [reads EXCEPT !["load"] = NotReading]
    /\ UNCHANGED <<apiVars, checkoutVars, page, formVars, walletVars>>

\* after a payment or a withdrawal the list is replaced, unless it could not be read
Reread(r) ==
    /\ r # "load" /\ reads[r].at # "idle"
    /\ list' = IF reads[r].at = "read" THEN reads[r].got ELSE list
    /\ reads' = [reads EXCEPT ![r] = NotReading]
    /\ cancel' = IF r \in Choices THEN [cancel EXCEPT ![r] = "idle"] ELSE cancel
    /\ UNCHANGED <<apiVars, checkoutVars, page, ready, formVars, resume>>

-----------------------------------------------------------------------------
(* The form. *)

\* an entry the runner already holds replaces it
FormShown == page \in Choices /\ ready = "shown" /\ list[page] \notin {"pending", "confirmed"}

\* availability is read on a timer, when the window is focused, and after a refusal; the
\* deadline passes by the form's own clock.  A selection that is no longer available is
\* taken back, also when it was the runner's own entry that took the last place.
Counted ==
    /\ page \in Choices /\ ready = "shown"
    /\ known' \in {"places", "full"} \ {known}
    /\ selected' = (selected /\ known' = "places")
    /\ UNCHANGED <<apiVars, checkoutVars, webPageVars, enter, walletVars>>

SelectsCategory ==
    /\ FormShown /\ sheet = NoChoice /\ known = "places"
    /\ ~selected /\ selected' = TRUE
    /\ UNCHANGED <<apiVars, checkoutVars, webPageVars, known, enter, walletVars>>

\* handleRegister: the buttons are disabled without an available category
Registers ==
    /\ FormShown /\ sheet = NoChoice /\ enter = "idle"
    /\ selected /\ known = "places"
    /\ enter' = "asked"
    /\ UNCHANGED <<apiVars, checkoutVars, webPageVars, selected, known, walletVars>>

\* the service enrols her or refuses, or the answer is lost
RegisterHandled ==
    /\ enter = "asked"
    /\ \/ Enrolled(page) /\ enter' \in {entry'[page], "refused"}
       \/ UNCHANGED apiVars /\ enter' = "refused"
    /\ UNCHANGED <<checkoutVars, webPageVars, selected, known, walletVars>>

\* an unpaid entry opens the sheet, a confirmed one the dashboard; a refusal is shown
RegisterArrives ==
    /\ enter \in {"unpaid", "confirmed", "refused"}
    /\ CASE enter = "unpaid" -> /\ Shows(page, "unpaid") /\ enter' = "idle"
                                /\ UNCHANGED <<webPageVars, selected, known, walletVars>>
         [] enter = "confirmed" -> Opens("dashboard")
         [] OTHER -> /\ enter' = "idle"
                     /\ UNCHANGED <<checkoutVars, webPageVars, selected, known, walletVars>>
    /\ UNCHANGED apiVars

-----------------------------------------------------------------------------
(* The dashboard. *)

WalletShown == page = "dashboard" /\ ready # "loading" /\ sheet = NoChoice

\* "Pay now": the checkout of the entry is read again
ResumePayment(c) ==
    /\ WalletShown /\ list[c] = "pending" /\ resume[c] = "idle" /\ MayAsk
    /\ resume' = [resume EXCEPT ![c] = "asked"]
    /\ UNCHANGED <<apiVars, checkoutVars, webPageVars, formVars, cancel>>

ResumeHandled(c) ==
    /\ resume[c] = "asked"
    /\ resume' = [resume EXCEPT ![c] = entry[c]]
    /\ UNCHANGED <<apiVars, checkoutVars, webPageVars, formVars, cancel>>

ResumeArrives(c) ==
    /\ resume[c] # "idle"
    /\ IF resume[c] = "asked" THEN UNCHANGED checkoutVars ELSE Shows(c, resume[c])
    /\ resume' = [resume EXCEPT ![c] = "idle"]
    /\ UNCHANGED <<apiVars, webPageVars, formVars, cancel>>

\* cancelEntry, once the runner has confirmed that she withdraws.  (A second one for the
\* same entry, which the service refuses, is left out.)
CancelEntry(c) ==
    /\ WalletShown /\ list[c] \in {"pending", "confirmed"} /\ cancel[c] = "idle" /\ MayAsk
    /\ cancel' = [cancel EXCEPT ![c] = "asked"]
    /\ UNCHANGED <<apiVars, checkoutVars, webPageVars, formVars, resume>>

CancelHandled(c) ==
    /\ cancel[c] = "asked"
    /\ \/ Withdraws(c) /\ cancel' \in {[cancel EXCEPT ![c] = r] : r \in {"done", "refused"}}
       \/ UNCHANGED apiVars /\ cancel' = [cancel EXCEPT ![c] = "refused"]
    /\ UNCHANGED <<checkoutVars, webPageVars, formVars, resume>>

CancelArrives(c) ==
    /\ \/ /\ cancel[c] = "done"
          /\ cancel' = [cancel EXCEPT ![c] = "rereads"]
          /\ reads' = [reads EXCEPT ![c] = AsksList]
       \/ /\ cancel[c] = "refused"
          /\ cancel' = [cancel EXCEPT ![c] = "idle"]
          /\ UNCHANGED reads
    /\ UNCHANGED <<apiVars, checkoutVars, page, ready, list, formVars, resume>>

-----------------------------------------------------------------------------
(* The sheet on these pages. *)

CloseSheet ==
    /\ sheet # NoChoice /\ late = {} /\ Unmounts({})
    /\ UNCHANGED <<apiVars, webClientVars>>

\* "View my ticket": the form goes to the dashboard, the dashboard reads its list again
FinishPayment ==
    /\ sheet # NoChoice /\ phase = "confirmed"
    /\ IF page \in Choices
       THEN Opens("dashboard")
       ELSE /\ Unmounts({})
            /\ reads' = [reads EXCEPT !["paid"] = AsksList]
            /\ UNCHANGED <<page, ready, list, formVars, walletVars>>
    /\ UNCHANGED apiVars

\* "Start a new entry"
RestartsEntry ==
    /\ sheet # NoChoice /\ phase = "failed"
    /\ Opens(sheet)
    /\ UNCHANGED apiVars

RunnerWebNext ==
    \/ \E p \in Choices \union {"dashboard"} : Visits(p)
    \/ Leaves
    \/ \E r \in Readers : ListRead(r) \/ Reread(r)
    \/ Loaded \/ Counted \/ SelectsCategory
    \/ Registers \/ RegisterHandled \/ RegisterArrives
    \/ \E c \in Choices : ResumePayment(c) \/ ResumeHandled(c) \/ ResumeArrives(c)
    \/ \E c \in Choices : CancelEntry(c) \/ CancelHandled(c) \/ CancelArrives(c)
    \/ CloseSheet \/ FinishPayment \/ RestartsEntry
    \/ SheetSteps /\ UNCHANGED webClientVars
    \/ OthersAct /\ UNCHANGED <<checkoutVars, webClientVars>>

RunnerWebSpec == RunnerWebInit /\ [][RunnerWebNext]_runnerWebVars /\ SheetFairness
=============================================================================
