------------------------- MODULE RegistrationStore -------------------------
(***************************************************************************)
(* The PostgreSQL tables behind registrations, payments, tickets and       *)
(* check-ins, and the transactions that change them                        *)
(* (backend/internal/registrations/repository.go and                       *)
(* backend/internal/checkin/repository.go).                                *)
(*                                                                         *)
(* One action per committed transaction.  Create takes the category row    *)
(* FOR UPDATE, and the transactions on one registration take its row FOR   *)
(* UPDATE, so each is atomic at READ COMMITTED.  A rejected or rolled back *)
(* transaction changes nothing and is not an action.  The table-wide sweep *)
(* is the exception: its two statements read at different times, and a     *)
(* submission, which takes no lock on the registration, may commit between *)
(* them.  It is two actions, and due holds what its first statement found. *)
(*                                                                         *)
(* Time is three facts about a payment row rather than a clock: lapsed     *)
(* (expires_at has passed), leased (reconcile_lease_until is in the        *)
(* future) and later (reconcile_after is in the future).                   *)
(***************************************************************************)
EXTENDS Integers, FiniteSets

CONSTANTS
    Users,          \* runners
    Events,
    Categories,     \* event categories
    EventOf,        \* the event a category belongs to
    FreeCategories, \* categories whose price is zero
    Regs,           \* primary keys available to registration rows
    Workers,        \* worker processes running the payment reconciler
    None,           \* an absent value: no worker, no key, no holder
    Providers,      \* payment providers the deployment may be configured with
    MaxCapacity,    \* bound on the capacity an organiser enters
    ClaimLimit      \* most payments a reconciler claims in one pass

ASSUME StoreAssumption ==
    /\ EventOf \in [Categories -> Events]
    /\ FreeCategories \subseteq Categories
    /\ IsFiniteSet(Regs)
    /\ None \notin Workers
    /\ Providers \subseteq {"mock", "manual", "bakong"}
    /\ MaxCapacity \in Nat
    /\ ClaimLimit \in Nat \ {0}

VARIABLES
    reg,       \* registrations, by primary key
    pay,       \* the payment row of each registration
    tickets,   \* registrations that have a ticket row
    checkIns,  \* registrations that have a check_ins row
    capacity,  \* event_categories.capacity
    due        \* lapsed payments that the sweep under way has found; none, when {}

storeVars == <<reg, pay, tickets, checkIns, capacity, due>>

-----------------------------------------------------------------------------
(* Rows *)

ActiveStatuses == {"PENDING", "CONFIRMED"}
RegStatuses == ActiveStatuses \cup {"CANCELLED", "EXPIRED"}
PayStatuses == {"PENDING", "PROCESSING", "SUCCEEDED", "FAILED"}

RegRow == [status : RegStatuses, user : Users, cat : Categories]
PayRow == [status : PayStatuses, provider : Providers, lapsed : BOOLEAN,
           worker : Workers \cup {None}, leased : BOOLEAN, later : BOOLEAN]

\* A key no row uses yet.
NoReg == [status |-> "NONE"]
NoPay == [status |-> "NONE"]

\* The tables hold rows of their types.
StoreTypeOK ==
    /\ reg \in [Regs -> RegRow \cup {NoReg}]
    /\ pay \in [Regs -> PayRow \cup {NoPay}]
    /\ tickets \subseteq Regs
    /\ checkIns \subseteq Regs
    /\ capacity \in [Categories -> 0..MaxCapacity]
    /\ due \subseteq Regs

\* Rows of a category that hold a seat, and a user's active rows for an event.
Active(c) == {r \in Regs : reg[r].status \in ActiveStatuses /\ reg[r].cat = c}
ActiveFor(u, e) ==
    {r \in Regs : /\ reg[r].status \in ActiveStatuses
                  /\ reg[r].user = u
                  /\ EventOf[reg[r].cat] = e}

SetStatus(table, rows, s) ==
    [r \in Regs |-> IF r \in rows THEN [table[r] EXCEPT !.status = s] ELSE table[r]]

\* The mock provider reports success from CreatePayment; the others a checkout.
SettlesAtOnce(p) == p = "mock"

\* A registration the sweep's first statement has updated: its row is locked until
\* the sweep ends, and whoever wants to lock or update it waits.
Locked(r) == r \in due /\ reg[r].status = "PENDING"

NewPayment(p, s) == [status |-> s, provider |-> p, lapsed |-> FALSE,
                     worker |-> None, leased |-> FALSE, later |-> FALSE]

-----------------------------------------------------------------------------
(* Registration transactions *)

\* Mutant: one seat too many.
HasRoomOffByOne(c) == Cardinality(Active(c)) <= capacity[c]

\* The count made while the category row is locked.
HasRoom(c) == Cardinality(Active(c)) < capacity[c]

\* Mutant: the unique index on (user_id, event_category_id).
NotRegisteredInCategory(u, c) == \A r \in Active(c) : reg[r].user # u

\* What the partial unique index on (user_id, event_id) lets in.
NotRegistered(u, c) == ActiveFor(u, EventOf[c]) = {}

\* Create: count against the locked capacity, then insert.
Create(r, u, c, confirm) ==
    /\ reg[r].status = "NONE"
    /\ HasRoom(c)
    /\ NotRegistered(u, c)
    /\ reg' = [reg EXCEPT ![r] = [status |-> IF confirm THEN "CONFIRMED" ELSE "PENDING",
                                  user |-> u, cat |-> c]]
    /\ tickets' = IF confirm THEN tickets \cup {r} ELSE tickets
    /\ UNCHANGED <<pay, checkIns, capacity, due>>

\* Mutant: the row is written with a status the tables do not use.
CancelAsRefund(r) ==
    /\ reg[r].status # "NONE"
    /\ ~Locked(r)
    /\ reg' = SetStatus(reg, {r}, "REFUNDED")
    /\ UNCHANGED <<pay, tickets, checkIns, capacity, due>>

\* Cancel: an UPDATE with no condition on the status it replaces.
Cancel(r) ==
    /\ reg[r].status # "NONE"
    /\ ~Locked(r)
    /\ reg' = SetStatus(reg, {r}, "CANCELLED")
    /\ UNCHANGED <<pay, tickets, checkIns, capacity, due>>

\* CreatePayment: a plain INSERT once the provider has made the checkout.
CreatePayment(r, p) ==
    /\ reg[r].status # "NONE"
    /\ pay[r].status = "NONE"
    /\ pay' = [pay EXCEPT ![r] = NewPayment(p, "PENDING")]
    /\ UNCHANGED <<reg, tickets, checkIns, capacity, due>>

\* ConfirmWithPayment: a provider that settles at once; rolls back unless the
\* registration is still PENDING.
ConfirmWithPayment(r, p) ==
    /\ reg[r].status = "PENDING"
    /\ pay[r].status = "NONE"
    /\ pay' = [pay EXCEPT ![r] = NewPayment(p, "SUCCEEDED")]
    /\ reg' = SetStatus(reg, {r}, "CONFIRMED")
    /\ tickets' = tickets \cup {r}
    /\ UNCHANGED <<checkIns, capacity, due>>

\* Mutant: no WHERE status='PENDING'.
ConfirmStoredPaymentUnguarded(r) ==
    /\ pay[r].status # "NONE"
    /\ ~Locked(r)
    /\ pay' = SetStatus(pay, {r}, "SUCCEEDED")
    /\ reg' = SetStatus(reg, {r}, "CONFIRMED")
    /\ tickets' = tickets \cup {r}
    /\ UNCHANGED <<checkIns, capacity, due>>

\* Mutant: the ticket is left to a later step.
ConfirmStoredPaymentNoTicket(r) ==
    /\ pay[r].status # "NONE"
    /\ ~Locked(r)
    /\ pay' = SetStatus(pay, {r}, "SUCCEEDED")
    /\ reg' = IF reg[r].status = "PENDING" THEN SetStatus(reg, {r}, "CONFIRMED") ELSE reg
    /\ UNCHANGED <<tickets, checkIns, capacity, due>>

\* ConfirmStoredPayment: the payment succeeds whatever its status was; the
\* registration is confirmed, with a ticket, only if it is still PENDING.
ConfirmStoredPayment(r) ==
    /\ pay[r].status # "NONE"
    /\ ~Locked(r)
    /\ pay' = SetStatus(pay, {r}, "SUCCEEDED")
    /\ IF reg[r].status = "PENDING"
       THEN /\ reg' = SetStatus(reg, {r}, "CONFIRMED")
            /\ tickets' = tickets \cup {r}
       ELSE UNCHANGED <<reg, tickets>>
    /\ UNCHANGED <<checkIns, capacity, due>>

-----------------------------------------------------------------------------
(* Expiry and the reconciler's lease *)

\* Mutants: the sweep takes any payment, or any undecided one.
LapsedAnyStatus == {r \in Regs : pay[r].status # "NONE" /\ pay[r].lapsed}
LapsedUndecided == {r \in Regs : pay[r].status \in {"PENDING", "PROCESSING"} /\ pay[r].lapsed}

Lapsed == {r \in Regs : pay[r].status = "PENDING" /\ pay[r].lapsed}

\* ExpirePendingPayments, the table-wide sweep.  Its first statement expires the
\* registrations of the lapsed payments, which nobody sees before it commits.  A second
\* sweep waits for the row locks of the first, or has no row in common with it: one at a
\* time is enough.
SweepBegins ==
    /\ due = {}
    /\ Lapsed # {}
    /\ due' = Lapsed
    /\ UNCHANGED <<reg, pay, tickets, checkIns, capacity>>

\* Its second statement fails those payments that are still PENDING, and it commits.
SweepCommits ==
    /\ due # {}
    /\ reg' = SetStatus(reg, {r \in due : reg[r].status = "PENDING"}, "EXPIRED")
    /\ pay' = SetStatus(pay, due \cap Lapsed, "FAILED")
    /\ due' = {}
    /\ UNCHANGED <<tickets, checkIns, capacity>>

\* An error, a cancelled context or a crash between the two.
SweepRollsBack ==
    /\ due # {}
    /\ due' = {}
    /\ UNCHANGED <<reg, pay, tickets, checkIns, capacity>>

\* Mutant: the claim leaves payments past their expiry to the sweep.
ClaimableUnlapsed == {r \in Regs : /\ pay[r].status = "PENDING"
                                   /\ pay[r].provider # "manual"
                                   /\ ~pay[r].lapsed /\ ~pay[r].later /\ ~pay[r].leased}

Claimable == {r \in Regs : /\ pay[r].status = "PENDING"
                           /\ pay[r].provider # "manual"
                           /\ ~pay[r].later
                           /\ ~pay[r].leased}

\* ClaimPendingPayments: SKIP LOCKED may leave any of the candidates out.
ClaimPendingPayments(w, rows) ==
    /\ rows \subseteq Claimable
    /\ rows # {}
    /\ Cardinality(rows) <= ClaimLimit
    /\ pay' = [r \in Regs |-> IF r \in rows
                              THEN [pay[r] EXCEPT !.worker = w, !.leased = TRUE]
                              ELSE pay[r]]
    /\ UNCHANGED <<reg, tickets, checkIns, capacity, due>>

ClaimedBy(w, r) == pay[r].status = "PENDING" /\ pay[r].worker = w

\* Mutant: the lease is given back whoever holds it.
ScheduleAnyLease(w, r) ==
    /\ pay[r].status = "PENDING"
    /\ pay' = [pay EXCEPT ![r].worker = None, ![r].leased = FALSE, ![r].later = TRUE]
    /\ UNCHANGED <<reg, tickets, checkIns, capacity, due>>

\* SchedulePaymentReconciliation: give the lease back and wait.
SchedulePaymentReconciliation(w, r) ==
    /\ ClaimedBy(w, r)
    /\ pay' = [pay EXCEPT ![r].worker = None, ![r].leased = FALSE, ![r].later = TRUE]
    /\ UNCHANGED <<reg, tickets, checkIns, capacity, due>>

\* Mutant: the payment fails and the registration keeps its seat.
ExpireClaimedPaymentOnly(w, r) ==
    /\ ClaimedBy(w, r)
    /\ ~Locked(r)
    /\ pay' = [pay EXCEPT ![r].status = "FAILED", ![r].worker = None, ![r].leased = FALSE]
    /\ UNCHANGED <<reg, tickets, checkIns, capacity, due>>

\* ExpireClaimedPayment: only while the payment is PENDING and still claimed by w.
ExpireClaimedPayment(w, r) ==
    /\ ClaimedBy(w, r)
    /\ ~Locked(r)
    /\ pay' = [pay EXCEPT ![r].status = "FAILED", ![r].worker = None, ![r].leased = FALSE]
    /\ reg' = IF reg[r].status = "PENDING" THEN SetStatus(reg, {r}, "EXPIRED") ELSE reg
    /\ UNCHANGED <<tickets, checkIns, capacity, due>>

-----------------------------------------------------------------------------
(* Manual bank transfers *)

\* SubmitManualPayment looks at the payment row only, by the clock of the database when
\* it started; the clock of a sweep, which is that of its process, may be past the
\* expiry already.
SubmitManualPayment(r) ==
    /\ pay[r].status = "PENDING"
    /\ pay[r].provider = "manual"
    /\ pay[r].lapsed => r \in due
    /\ pay' = SetStatus(pay, {r}, "PROCESSING")
    /\ UNCHANGED <<reg, tickets, checkIns, capacity, due>>

UnderReview(r) ==
    /\ reg[r].status = "PENDING"
    /\ pay[r].status = "PROCESSING"
    /\ pay[r].provider = "manual"

ApproveManualPayment(r) ==
    /\ UnderReview(r)
    /\ ~Locked(r)
    /\ pay' = SetStatus(pay, {r}, "SUCCEEDED")
    /\ reg' = SetStatus(reg, {r}, "CONFIRMED")
    /\ tickets' = tickets \cup {r}
    /\ UNCHANGED <<checkIns, capacity, due>>

FailManualPayment(r) ==
    /\ UnderReview(r)
    /\ ~Locked(r)
    /\ pay' = SetStatus(pay, {r}, "FAILED")
    /\ reg' = SetStatus(reg, {r}, "EXPIRED")
    /\ UNCHANGED <<tickets, checkIns, capacity, due>>

-----------------------------------------------------------------------------
(* Check-in, the organiser's capacity edit, and the passage of time *)

\* checkin Create: an INSERT guarded by the unique registration_id only.
CheckIn(r) ==
    /\ reg[r].status # "NONE"
    /\ r \notin checkIns
    /\ checkIns' = checkIns \cup {r}
    /\ UNCHANGED <<reg, pay, tickets, capacity, due>>

\* UpdateCategory writes any capacity, whatever the number of seats taken.
UpdateCapacity(c, n) ==
    /\ capacity' = [capacity EXCEPT ![c] = n]
    /\ UNCHANGED <<reg, pay, tickets, checkIns, due>>

PaymentLapses(r) ==
    /\ pay[r].status \in {"PENDING", "PROCESSING"}
    /\ ~pay[r].lapsed
    /\ pay' = [pay EXCEPT ![r].lapsed = TRUE]
    /\ UNCHANGED <<reg, tickets, checkIns, capacity, due>>

LeaseEnds(r) ==
    /\ pay[r].status = "PENDING"
    /\ pay[r].leased
    /\ pay' = [pay EXCEPT ![r].leased = FALSE]
    /\ UNCHANGED <<reg, tickets, checkIns, capacity, due>>

ReconcileDue(r) ==
    /\ pay[r].status = "PENDING"
    /\ pay[r].later
    /\ pay' = [pay EXCEPT ![r].later = FALSE]
    /\ UNCHANGED <<reg, tickets, checkIns, capacity, due>>

-----------------------------------------------------------------------------
StoreInit ==
    /\ reg = [r \in Regs |-> NoReg]
    /\ pay = [r \in Regs |-> NoPay]
    /\ tickets = {}
    /\ checkIns = {}
    /\ capacity \in [Categories -> 0..MaxCapacity]
    /\ due = {}

\* What happens to one registration.
RegistrationTransaction(r) ==
    \/ \E u \in Users, c \in Categories : Create(r, u, c, c \in FreeCategories)
    \/ Cancel(r)
    \/ \E p \in Providers : IF SettlesAtOnce(p) THEN ConfirmWithPayment(r, p)
                                             ELSE CreatePayment(r, p)
    \/ ConfirmStoredPayment(r)
    \/ \E w \in Workers : SchedulePaymentReconciliation(w, r) \/ ExpireClaimedPayment(w, r)
    \/ SubmitManualPayment(r) \/ ApproveManualPayment(r) \/ FailManualPayment(r)
    \/ CheckIn(r)
    \/ PaymentLapses(r) \/ LeaseEnds(r) \/ ReconcileDue(r)

\* What touches several rows at once.
TableTransaction ==
    \/ SweepBegins \/ SweepCommits \/ SweepRollsBack
    \/ \E w \in Workers, rows \in SUBSET Regs : ClaimPendingPayments(w, rows)
    \/ \E c \in Categories, n \in 0..MaxCapacity : UpdateCapacity(c, n)

StoreNext == TableTransaction \/ \E r \in Regs : RegistrationTransaction(r)

StoreSpec == StoreInit /\ [][StoreNext]_storeVars

-----------------------------------------------------------------------------
(* Properties *)

\* No transaction takes a category past the capacity it was checked against:
\* the active rows of a category grow only up to the capacity in force
\* (docs/scaling.md "never oversell"; Create).  Lowering the capacity below
\* the seats taken is allowed, so the bound is on growth, not on every state.
NeverOversells ==
    [][\A c \in Categories :
          Active(c)' \subseteq Active(c) \/ Cardinality(Active(c)') <= capacity[c]]_storeVars

\* A user holds at most one active registration per event, across categories
\* (partial unique index of migration 18).
OneActivePerEvent ==
    \A u \in Users, e \in Events : \A r, s \in ActiveFor(u, e) : r = s

\* Only a registration that was confirmed has a ticket, and a confirmed one
\* always has: every transaction that confirms also issues the ticket.
TicketMatchesStatus ==
    \A r \in Regs :
        /\ reg[r].status = "CONFIRMED" => r \in tickets
        /\ r \in tickets => reg[r].status \in {"CONFIRMED", "CANCELLED"}

\* A confirmed place in a priced category is backed by a payment that
\* succeeded, whichever of the four confirming transactions got there.
ConfirmedIsPaid ==
    \A r \in Regs :
        reg[r].status = "CONFIRMED" /\ reg[r].cat \notin FreeCategories
            => pay[r].status = "SUCCEEDED"

\* Expiry and late confirmation never revive a seat that was given up, and
\* never take a confirmed runner's place: only Cancel ends CONFIRMED.
SeatsAreNotRevived ==
    [][\A r \in Regs :
          /\ reg[r].status \in {"CANCELLED", "EXPIRED"} => reg'[r].status \in {"CANCELLED", "EXPIRED"}
          /\ reg[r].status = "CONFIRMED" => reg'[r].status \in {"CONFIRMED", "CANCELLED"}]_storeVars

\* The runners holding a seat in a category, and those whose place is confirmed.
Holders(c, statuses) ==
    {reg[r].user : r \in {q \in Regs : reg[q].status \in statuses /\ reg[q].cat = c}}

Ledger == INSTANCE SeatLedger WITH
    held <- [c \in Categories |-> Holders(c, ActiveStatuses)],
    confirmed <- [c \in Categories |-> Holders(c, {"CONFIRMED"})]

\* The tables implement the seat ledger (SeatLedger): every transaction takes,
\* confirms, releases or expires seats the way the ledger allows, or leaves
\* them alone.
ImplementsLedger == Ledger!Spec
=============================================================================
