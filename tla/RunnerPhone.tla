---------------------------- MODULE RunnerPhone ----------------------------
(***************************************************************************)
(* The screens of the mobile application on which a runner enters a race   *)
(* and looks after her entry: RegisterScreen, RegistrationDetailScreen and *)
(* WalletScreen, with the payment sheet of Checkout.  What they show comes *)
(* from two cached queries (features/registrations/queries.ts), which      *)
(* mutations and realtime signals invalidate.  One race is enough to tell  *)
(* the screens apart: each shows the entry of one.                         *)
(***************************************************************************)
EXTENDS Checkout

CONSTANTS
    MyRace,         \* the race the runner is looking at
    Attempts,       \* attempts at a busy category (three)
    PhoneRequests   \* requests that may be under way at once

ASSUME MyRaceAssumption == MyRace \in Choices /\ Attempts \in Nat \ {0}

VARIABLES
    screen,     \* the screen in front
    cache,      \* useMyRegistrations and useRegistration
    attempt,    \* attempts of submit, the mutation of useRegisterForEvent
    signup,     \* where the attempt stands
    here,       \* the form that submitted is still the one in front
    checkout,   \* the state payment of the screen: the status it was read with
    reopen,     \* reopenPayment
    withdrawal, \* the mutation of useCancelRegistration
    told        \* the last outcome the runner was told of and the list can follow

mutationVars == <<attempt, signup, here, reopen, withdrawal, told>>
phoneVars == <<screen, cache, checkout, mutationVars>>
runnerPhoneVars == <<apiVars, checkoutVars, phoneVars>>

Queries == {"mine", "detail"}
InList(st) == IF st \in Pending THEN "pending" ELSE st
Known == {"none", "pending", "confirmed", "ended"}
Active == {"pending", "confirmed"}

Unread == [data |-> "unread", stale |-> FALSE, failed |-> FALSE, fetch |-> "idle"]

RunnerPhoneTypeOK ==
    /\ ApiTypeOK /\ CheckoutTypeOK
    /\ screen \in {"wallet", "form", "detail"}
    /\ cache \in [Queries -> [data : Known \union {"unread"}, stale : BOOLEAN,
                              failed : BOOLEAN, fetch : Known \union {"idle", "asked"}]]
    /\ attempt \in 1..Attempts
    /\ signup \in {"idle", "asked", "busy", "unpaid", "confirmed", "refused"}
    /\ here \in BOOLEAN
    /\ checkout \in EntryStates
    /\ reopen \in EntryStates \union {"idle", "asked"}
    /\ withdrawal \in {"idle", "asked", "done", "refused"}
    /\ told \in {"nothing", "entered", "withdrawn"}

RunnerPhoneInit ==
    /\ ApiInit /\ CheckoutInit
    /\ screen = "wallet" /\ cache = [q \in Queries |-> Unread]
    /\ attempt = 1 /\ signup = "idle" /\ here = FALSE
    /\ checkout = "none" /\ reopen = "idle" /\ withdrawal = "idle" /\ told = "nothing"

\* the wallet is a tab, which stays mounted beneath the other screens
Observed(q) == q = "mine" \/ screen = "detail"

\* What is under way, with the queries as c has them.
RequestsOut(c) ==
    LET waiting == {m \in {<<"mine", c["mine"].fetch>>, <<"detail", c["detail"].fetch>>,
                           <<"signup", signup>>, <<"reopen", reopen>>,
                           <<"withdrawal", withdrawal>>, <<"poll", poll.at>>} : m[2] # "idle"}
    IN  Cardinality(waiting) + Cardinality(late)
          + Cardinality({p \in Presses : submit[p].at # "idle"})

\* PhoneRequests bounds what is asked at once, beyond what an answer asks.
MayBegin == RequestsOut(cache) < PhoneRequests

-----------------------------------------------------------------------------
(* The queries. *)

\* Mutant: a read that is on its way answers for the invalidation.
InvalidatedInFlight(q) ==
    IF Observed(q)
    THEN [cache[q] EXCEPT !.stale = TRUE, !.fetch = IF @ = "idle" THEN "asked" ELSE @]
    ELSE cache[q]

\* the first read of a query, which an invalidation does not restart
FirstRead(q) == cache[q].data = "unread" /\ cache[q].fetch # "idle"

\* invalidateQueries: an observed query is read again, and what was on its way is
\* discarded, unless it is the first read
Invalidated(q) ==
    IF Observed(q) /\ ~FirstRead(q)
    THEN [cache[q] EXCEPT !.stale = TRUE, !.fetch = "asked"] ELSE cache[q]

\* An outcome that comes after the service has answered the first read of the list, and
\* before the answer is there, does not reach the list.
Tells(outcome) ==
    told' = IF FirstRead("mine") /\ cache["mine"].fetch \in Known THEN "nothing" ELSE outcome

\* mounted, focused, pulled down, back on line, or past its staleTime
Refetches(q) ==
    /\ Observed(q) /\ cache[q].fetch = "idle" /\ MayBegin
    /\ cache' = [cache EXCEPT ![q].fetch = "asked"]
    /\ UNCHANGED <<apiVars, checkoutVars, screen, checkout, mutationVars>>

FetchHandled(q) ==
    /\ cache[q].fetch = "asked"
    /\ cache' = [cache EXCEPT ![q].fetch = InList(entry[MyRace])]
    /\ UNCHANGED <<apiVars, checkoutVars, screen, checkout, mutationVars>>

\* The sheet is part of what the screen renders: the form renders something else once the
\* list holds an entry, the detail when its query has failed; the sheet comes back, as
\* it was first read, when they do.
HidesSheet(c) ==
    \/ screen = "form" /\ c["mine"].data \in Active
    \/ screen = "detail" /\ (c["detail"].failed \/ c["detail"].data \in {"unread", "none"})

SheetFollows(c, held) ==
    IF held = "none" THEN UNCHANGED checkoutVars
    ELSE IF HidesSheet(c) THEN IF sheet = NoChoice THEN UNCHANGED checkoutVars ELSE Unmounts({})
    ELSE IF sheet = NoChoice THEN Shows(MyRace, held) ELSE UNCHANGED checkoutVars

FetchArrives(q) ==
    /\ cache[q].fetch \in Known
    /\ cache' = [cache EXCEPT ![q] = [Unread EXCEPT !.data = cache[q].fetch]]
    /\ SheetFollows(cache', checkout)
    /\ UNCHANGED <<apiVars, screen, checkout, mutationVars>>

\* the answer is lost: the data stays, and the detail says that it failed
FetchFails(q) ==
    /\ cache[q].fetch # "idle"
    /\ cache' = [cache EXCEPT ![q].fetch = "idle", ![q].failed = (q = "detail")]
    /\ SheetFollows(cache', checkout)
    /\ UNCHANGED <<apiVars, screen, checkout, mutationVars>>

\* "registrations:changed", or the socket has connected again
Signalled ==
    /\ cache' = [q \in Queries |-> Invalidated(q)]
    /\ cache' # cache /\ RequestsOut(cache') <= PhoneRequests
    /\ UNCHANGED <<apiVars, checkoutVars, screen, checkout, mutationVars>>

-----------------------------------------------------------------------------
(* The screens.  A screen that is left forgets its state and aborts what only it *)
(* had asked for; its mutations are carried out.  One mutation at a time.        *)

\* What the detail finds cached of an earlier visit may be anything; Refetches reads it
\* again when it is old.
Mounted(s) ==
    IF s = "detail"
    THEN {[Unread EXCEPT !.data = d] : d \in Active \union {"ended"}}
           \union {[Unread EXCEPT !.fetch = "asked"]}
    ELSE {Unread}

Goes(s) ==
    /\ screen' = s
    /\ \E detail \in Mounted(s) : cache' = [cache EXCEPT !["detail"] = detail]
    /\ here' = FALSE /\ checkout' = "none" /\ reopen' = "idle"
    /\ IF sheet = NoChoice THEN UNCHANGED checkoutVars ELSE Unmounts({})

Navigates ==
    /\ late = {}
    /\ \E s \in {"wallet", "form", "detail"} \ {screen} : Goes(s)
    /\ UNCHANGED <<apiVars, attempt, signup, withdrawal, told>>

\* submit: the form is there while the list holds no entry; the list need not have been read
PhoneRegisters ==
    /\ screen = "form" /\ cache["mine"].data \notin Active
    /\ sheet = NoChoice /\ checkout = "none" /\ signup = "idle" /\ withdrawal = "idle"
    /\ MayBegin
    /\ signup' = "asked" /\ attempt' = 1 /\ here' = TRUE
    /\ UNCHANGED <<apiVars, checkoutVars, screen, cache, checkout, reopen, withdrawal, told>>

\* the service enrols her, or is busy with the category, or refuses; the answer may be lost
PhoneRegisterHandled ==
    /\ signup = "asked"
    /\ \/ Enrolled(MyRace) /\ signup' \in {entry'[MyRace], "refused"}
       \/ UNCHANGED apiVars /\ signup' \in {"busy", "refused"}
    /\ UNCHANGED <<checkoutVars, screen, cache, checkout, attempt, here, reopen, withdrawal, told>>

\* a busy category is tried again, also when the form has been left
PhoneRetries ==
    /\ signup = "busy"
    /\ IF attempt < Attempts
       THEN attempt' = attempt + 1 /\ signup' = "asked"
       ELSE attempt' = 1 /\ signup' = "idle"
    /\ UNCHANGED <<apiVars, checkoutVars, screen, cache, checkout, here, reopen, withdrawal, told>>

\* The list is invalidated; a paid entry opens the sheet, in the form that asked, and an
\* entry without payment goes to the account, from whatever screen is in front.
PhoneRegisterArrives ==
    /\ signup \in {"unpaid", "confirmed"}
    /\ Tells("entered") /\ signup' = "idle" /\ attempt' = 1
    /\ IF signup = "unpaid"
       THEN /\ cache' = [cache EXCEPT !["mine"] = Invalidated("mine")]
            /\ checkout' = IF here THEN "unpaid" ELSE checkout
            /\ SheetFollows(cache', checkout')
            /\ UNCHANGED <<screen, here, reopen>>
       ELSE /\ screen' = "wallet"
            /\ cache' = [cache EXCEPT !["mine"] = Invalidated("mine"), !["detail"] = Unread]
            /\ here' = FALSE /\ checkout' = "none" /\ reopen' = "idle"
            /\ IF sheet = NoChoice THEN UNCHANGED checkoutVars ELSE Unmounts({})
    /\ UNCHANGED <<apiVars, withdrawal>>

PhoneRegisterRefused ==
    /\ signup = "refused" /\ signup' = "idle" /\ attempt' = 1
    /\ UNCHANGED <<apiVars, checkoutVars, screen, cache, checkout, here, reopen, withdrawal, told>>

DetailShown == screen = "detail" /\ ~cache["detail"].failed

\* reopenPayment
Reopens ==
    /\ DetailShown /\ cache["detail"].data = "pending" /\ reopen = "idle" /\ sheet = NoChoice
    /\ MayBegin /\ reopen' = "asked"
    /\ UNCHANGED <<apiVars, checkoutVars, screen, cache, checkout, attempt, signup, here,
                   withdrawal, told>>

ReopenHandled ==
    /\ reopen = "asked" /\ reopen' = entry[MyRace]
    /\ UNCHANGED <<apiVars, checkoutVars, screen, cache, checkout, attempt, signup, here,
                   withdrawal, told>>

ReopenArrives ==
    /\ reopen # "idle" /\ reopen' = "idle"
    /\ checkout' = IF reopen \in {"asked", "none"} THEN checkout ELSE reopen
    /\ SheetFollows(cache, checkout')
    /\ UNCHANGED <<apiVars, screen, cache, attempt, signup, here, withdrawal, told>>

\* "Cancel this entry"
PhoneCancels ==
    /\ DetailShown /\ cache["detail"].data \in Active /\ sheet = NoChoice /\ withdrawal = "idle"
    /\ signup = "idle" /\ MayBegin /\ withdrawal' = "asked"
    /\ UNCHANGED <<apiVars, checkoutVars, screen, cache, checkout, attempt, signup, here,
                   reopen, told>>

PhoneCancelHandled ==
    /\ withdrawal = "asked"
    /\ \/ Withdraws(MyRace) /\ withdrawal' \in {"done", "refused"}
       \/ UNCHANGED apiVars /\ withdrawal' = "refused"
    /\ UNCHANGED <<checkoutVars, screen, cache, checkout, attempt, signup, here, reopen, told>>

\* the list is invalidated, the detail is not; the screen goes back if it is still there
PhoneCancelArrives ==
    /\ withdrawal \in {"done", "refused"} /\ withdrawal' = "idle"
    /\ IF withdrawal = "done"
       THEN /\ Tells("withdrawn")
            /\ cache' = [cache EXCEPT !["mine"] = Invalidated("mine")]
       ELSE UNCHANGED <<told, cache>>
    /\ UNCHANGED <<apiVars, checkoutVars, screen, checkout, attempt, signup, here, reopen>>

\* onPaid and onClose: the form goes to the account, the detail drops the sheet and, when
\* paid, is read again
PutsSheetAway ==
    /\ sheet # NoChoice /\ late = {}
    /\ \/ screen = "form" /\ Goes("wallet")
       \/ /\ screen = "detail" /\ Unmounts({}) /\ checkout' = "none"
          /\ cache' = IF phase = "confirmed" /\ cache["detail"].fetch = "idle"
                      THEN [cache EXCEPT !["detail"].fetch = "asked"] ELSE cache
          /\ UNCHANGED <<screen, here, reopen>>
    /\ UNCHANGED <<apiVars, attempt, signup, withdrawal, told>>

RunnerPhoneNext ==
    \/ \E q \in Queries : Refetches(q) \/ FetchHandled(q) \/ FetchArrives(q) \/ FetchFails(q)
    \/ Signalled \/ Navigates
    \/ PhoneRegisters \/ PhoneRegisterHandled \/ PhoneRetries
    \/ PhoneRegisterArrives \/ PhoneRegisterRefused
    \/ Reopens \/ ReopenHandled \/ ReopenArrives
    \/ PhoneCancels \/ PhoneCancelHandled \/ PhoneCancelArrives
    \/ PutsSheetAway
    \/ SheetSteps /\ UNCHANGED phoneVars /\ (RequestsOut(cache)' > RequestsOut(cache) => MayBegin)
    \/ OthersAct /\ UNCHANGED <<checkoutVars, phoneVars>>

RunnerPhoneSpec == RunnerPhoneInit /\ [][RunnerPhoneNext]_runnerPhoneVars

-----------------------------------------------------------------------------
\* When the list is settled, nothing being read and nothing invalidated, it agrees with
\* the last outcome the runner was told of: an entry she withdrew is not shown as one she
\* still has, and one she made is there.  Reads that were on their way when an entry was
\* made or withdrawn do not undo it, although they are answered before or after; only the
\* first read of the list may.
ListFollowsOutcomes ==
    LET mine == cache["mine"]
    IN  mine.data # "unread" /\ ~mine.stale /\ mine.fetch = "idle" =>
            /\ told = "withdrawn" => mine.data \notin Active
            /\ told = "entered" => mine.data # "none"
=============================================================================
