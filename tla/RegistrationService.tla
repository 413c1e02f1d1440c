------------------------ MODULE RegistrationService ------------------------
(***************************************************************************)
(* The registration, payment, cancellation and check-in handlers of the    *)
(* API processes and the payment reconciler of the worker processes        *)
(* (backend/internal/registrations/service.go,                             *)
(* backend/internal/checkin/service.go), running over the tables of        *)
(* RegistrationStore.                                                      *)
(*                                                                         *)
(* A handler is a sequence of steps with no transaction around them: each  *)
(* step is one database transaction, one Redis command or one provider     *)
(* call, and what a step read is what the later steps act on.  Calls are   *)
(* the requests in flight over all API processes.                          *)
(***************************************************************************)
EXTENDS RegistrationStore

CONSTANTS
    Calls,       \* requests that can be in flight at once
    Orphan,      \* the lock token of a request that ended without releasing it
    Keys,        \* idempotency keys clients send
    Ops,         \* operations clients invoke
    Settlements, \* what a payer may transfer: the exact amount or another one
    Faults       \* kinds of failure that may happen

ASSUME ServiceAssumption ==
    /\ None \notin Users \cup Categories \cup Regs \cup Keys \cup Calls
    /\ Orphan \notin Calls \cup {None}
    /\ Ops \subseteq {"register", "cancel", "checkin", "verify", "submit", "review"}
    /\ Settlements \subseteq {"exact", "other"}
    /\ Faults \subseteq {"call", "worker", "provider", "db", "redis", "redeploy"}

VARIABLES
    call,      \* where each request is, and what it has read
    job,       \* where each reconciler pass is, and what it has read
    lock,      \* the Redis lock of each category: the call whose token it holds
    bank,      \* what has been transferred for each payment, as the bank knows it
    onTime,    \* history: payments transferred in full before they lapsed
    provider,  \* the provider this deployment is configured with
    open,      \* categories open for registration
    idem,      \* the registration a stored outcome of (user, key) describes
    keyOf,     \* history: the idempotency key a registration was created under
    notices    \* confirmation notices handed to the notifier per registration

serviceVars == <<call, job, lock, bank, onTime, provider, open, idem, keyOf, notices>>
vars == <<storeVars, serviceVars>>

-----------------------------------------------------------------------------
(* Requests *)

RegisterPCs == {"sweep", "expiring", "check", "lock", "create", "checkout", "insert", "undo",
                "settle", "record", "finish"}
CallPCs == RegisterPCs \cup {"idle", "notify", "cancel_checkin", "cancel", "checkin",
                             "poll", "confirm", "expire", "sweeping", "submit", "review"}

\* lock is "lapsed" when the call's lock ran out of its TTL; no code reads that.
CallState == [pc : CallPCs, user : Users \cup {None}, cat : Categories \cup {None},
              key : Keys \cup {None}, reg : Regs \cup {None}, lapsed : BOOLEAN,
              lock : {"none", "held", "lapsed"}]

IdleCall == [pc |-> "idle", user |-> None, cat |-> None, key |-> None, reg |-> None,
             lapsed |-> FALSE, lock |-> "none"]

JobPCs == {"idle", "next", "poll", "expire", "confirm", "notify", "later"}
JobState == [pc : JobPCs, todo : SUBSET Regs, reg : Regs \cup {None}, lapsed : BOOLEAN]
IdleJob == [pc |-> "idle", todo |-> {}, reg |-> None, lapsed |-> FALSE]

\* The most notices counted.
NoticeBound == 2

\* Handlers, workers and the tables hold values of their types.
TypeOK ==
    /\ StoreTypeOK
    /\ call \in [Calls -> CallState]
    /\ job \in [Workers -> JobState]
    /\ lock \in [Categories -> Calls \cup {None, Orphan}]
    /\ bank \in [Regs -> {"none"} \cup Settlements]
    /\ onTime \subseteq Regs
    /\ provider \in Providers
    /\ open \subseteq Categories
    /\ idem \in [Users -> [Keys -> Regs \cup {None}]]
    /\ keyOf \in [Regs -> Keys \cup {None}]
    /\ notices \in [Regs -> 0..NoticeBound]

At(k, pc) == call[k].pc = pc
Goto(k, pc) == call' = [call EXCEPT ![k].pc = pc]
GotoWith(k, pc, r) == call' = [call EXCEPT ![k].pc = pc, ![k].reg = r]
Return(k) == call' = [call EXCEPT ![k] = IdleCall]
Start(k, pc, r, lapsed) ==
    /\ At(k, "idle")
    /\ call' = [call EXCEPT ![k] = [IdleCall EXCEPT !.pc = pc, !.reg = r, !.lapsed = lapsed]]

OnlyCall == UNCHANGED <<job, lock, bank, onTime, provider, open, idem, keyOf, notices>>
OnlyJob == UNCHANGED <<call, lock, bank, onTime, provider, open, idem, keyOf, notices>>

\* Mutant: a plain DEL of the category's key.
ReleasedUnconditionally(k) ==
    [c \in Categories |-> IF call[k].lock # "none" /\ c = call[k].cat THEN None ELSE lock[c]]

\* The token comparison of Lock.Release: only the lock this call still holds goes.
Released(k) == [c \in Categories |-> IF lock[c] = k THEN None ELSE lock[c]]

\* Requests that end without releasing leave their tokens to the TTL.
Orphaned(ks) == [c \in Categories |-> IF lock[c] \in ks THEN Orphan ELSE lock[c]]

-----------------------------------------------------------------------------
(* Register *)

\* A stored outcome is replayed, or conflicts, and changes nothing: only a
\* lookup that finds none goes on.  Bound: no request once every row is used.
RegisterLookup(k, u, c, key) ==
    /\ "register" \in Ops
    /\ At(k, "idle")
    /\ key # None => idem[u][key] = None
    /\ \E r \in Regs : reg[r].status = "NONE"
    /\ call' = [call EXCEPT ![k] = [IdleCall EXCEPT !.pc = "sweep", !.user = u,
                                                    !.cat = c, !.key = key]]
    /\ OnlyCall /\ UNCHANGED storeVars

\* expirePendingPayments: the first statement, unless there is nothing to expire ...
RegisterSweep(k) ==
    /\ At(k, "sweep")
    /\ \/ SweepBegins /\ Goto(k, "expiring")
       \/ Lapsed = {} /\ Goto(k, "check") /\ UNCHANGED storeVars
    /\ OnlyCall

\* ... and the second one.
RegisterExpires(k) ==
    /\ At(k, "expiring")
    /\ SweepCommits
    /\ Goto(k, "check")
    /\ OnlyCall

\* Open category and no active registration; the rate limiter may refuse anyone.
RegisterCheck(k) ==
    /\ At(k, "check")
    /\ \/ /\ call[k].cat \in open
          /\ NotRegistered(call[k].user, call[k].cat)
          /\ Goto(k, "lock")
       \/ Return(k)
    /\ OnlyCall /\ UNCHANGED storeVars

\* TryLock: SET NX; a busy category is refused, a Redis failure is ignored.
RegisterLock(k) ==
    /\ At(k, "lock")
    /\ \/ /\ lock[call[k].cat] = None
          /\ lock' = [lock EXCEPT ![call[k].cat] = k]
          /\ call' = [call EXCEPT ![k].pc = "create", ![k].lock = "held"]
       \/ /\ lock[call[k].cat] # None
          /\ Return(k)
          /\ UNCHANGED lock
       \/ /\ "redis" \in Faults
          /\ Goto(k, "create")
          /\ UNCHANGED lock
    /\ UNCHANGED <<storeVars, job, bank, onTime, provider, open, idem, keyOf, notices>>

\* Mutant: an upsert.
StoredLast(u, key, r) == IF key = None THEN idem ELSE [idem EXCEPT ![u][key] = r]

\* ON CONFLICT DO NOTHING: the first stored outcome of a key wins.
Stored(u, key, r) ==
    IF key = None \/ idem[u][key] # None THEN idem ELSE [idem EXCEPT ![u][key] = r]

\* registerFree: row, ticket and idempotency record in one transaction.
RegisterFree(k, r) ==
    /\ At(k, "create")
    /\ call[k].cat \in FreeCategories
    /\ Create(r, call[k].user, call[k].cat, TRUE)
    /\ keyOf' = [keyOf EXCEPT ![r] = call[k].key]
    /\ idem' = Stored(call[k].user, call[k].key, r)
    /\ GotoWith(k, "notify", r)
    /\ UNCHANGED <<job, lock, bank, onTime, provider, open, notices>>

\* registerPaid: the seat is reserved before the provider is asked.
RegisterReserve(k, r) ==
    /\ At(k, "create")
    /\ call[k].cat \notin FreeCategories
    /\ Create(r, call[k].user, call[k].cat, FALSE)
    /\ keyOf' = [keyOf EXCEPT ![r] = call[k].key]
    /\ GotoWith(k, "checkout", r)
    /\ UNCHANGED <<job, lock, bank, onTime, provider, open, idem, notices>>

RegisterRefused(k) ==
    /\ At(k, "create")
    /\ ~HasRoom(call[k].cat) \/ ~NotRegistered(call[k].user, call[k].cat)
    /\ Goto(k, "finish")
    /\ OnlyCall /\ UNCHANGED storeVars

\* Mutant: a failed checkout returns without releasing the reservation.
RegisterCheckoutNoUndo(k) ==
    /\ At(k, "checkout")
    /\ \/ Goto(k, IF SettlesAtOnce(provider) THEN "settle" ELSE "insert")
       \/ /\ "provider" \in Faults
          /\ provider = "bakong"
          /\ Goto(k, "finish")
    /\ OnlyCall /\ UNCHANGED storeVars

\* provider.CreatePayment
RegisterCheckout(k) ==
    /\ At(k, "checkout")
    /\ \/ Goto(k, IF SettlesAtOnce(provider) THEN "settle" ELSE "insert")
       \/ /\ "provider" \in Faults
          /\ provider = "bakong"
          /\ Goto(k, "undo")
    /\ OnlyCall /\ UNCHANGED storeVars

RegisterInsert(k) ==
    /\ At(k, "insert")
    /\ \/ /\ CreatePayment(call[k].reg, provider)
          /\ Goto(k, "record")
       \/ /\ "db" \in Faults
          /\ Goto(k, "undo")
          /\ UNCHANGED storeVars
    /\ OnlyCall

\* releaseFailedPaymentRegistration: its own failure is only reported.
RegisterUndo(k) ==
    /\ At(k, "undo")
    /\ \/ Cancel(call[k].reg)
       \/ "db" \in Faults /\ UNCHANGED storeVars
    /\ Goto(k, "finish")
    /\ OnlyCall

\* Mutant: the registration is confirmed in a statement of its own.
RegisterSettleInParts(k) ==
    /\ At(k, "settle")
    /\ reg' = SetStatus(reg, {call[k].reg}, "CONFIRMED")
    /\ UNCHANGED <<pay, tickets, checkIns, capacity, due>>
    /\ Goto(k, "notify")
    /\ OnlyCall

\* ConfirmWithPayment fails, and the handler with it, unless still PENDING.
RegisterSettle(k) ==
    /\ At(k, "settle")
    /\ \/ /\ ConfirmWithPayment(call[k].reg, provider)
          /\ Goto(k, "notify")
       \/ /\ reg[call[k].reg].status # "PENDING" \/ "db" \in Faults
          /\ Goto(k, "finish")
          /\ UNCHANGED storeVars
    /\ OnlyCall

\* storeIdempotentOutcome: best effort, after the fact.
RegisterRecord(k) ==
    /\ At(k, "record")
    /\ \/ idem' = Stored(call[k].user, call[k].key, call[k].reg)
       \/ "db" \in Faults /\ UNCHANGED idem
    /\ Goto(k, "finish")
    /\ UNCHANGED <<storeVars, job, lock, bank, onTime, provider, open, keyOf, notices>>

\* The deferred lock.Release, whose failure is ignored, and the response.
RegisterFinish(k) ==
    /\ At(k, "finish")
    /\ \/ lock' = Released(k)
       \/ "redis" \in Faults /\ lock' = Orphaned({k})
    /\ Return(k)
    /\ UNCHANGED <<storeVars, job, bank, onTime, provider, open, idem, keyOf, notices>>

OneMoreNotice(r) ==
    notices' = [notices EXCEPT ![r] = IF @ < NoticeBound THEN @ + 1 ELSE @]

\* NotifyRegistrationConfirmed, by the handler that confirmed the registration.
Notify(k) ==
    /\ At(k, "notify")
    /\ OneMoreNotice(call[k].reg)
    /\ IF call[k].cat \in Categories \ FreeCategories THEN Goto(k, "record") ELSE Goto(k, "finish")
    /\ UNCHANGED <<storeVars, job, lock, bank, onTime, provider, open, idem, keyOf>>

Register(k) ==
    \/ \E u \in Users, c \in Categories, key \in Keys \cup {None} : RegisterLookup(k, u, c, key)
    \/ RegisterSweep(k) \/ RegisterExpires(k) \/ RegisterCheck(k) \/ RegisterLock(k)
    \/ \E r \in Regs : RegisterFree(k, r) \/ RegisterReserve(k, r)
    \/ RegisterRefused(k) \/ RegisterCheckout(k) \/ RegisterInsert(k) \/ RegisterUndo(k)
    \/ RegisterSettle(k) \/ RegisterRecord(k) \/ RegisterFinish(k)

-----------------------------------------------------------------------------
(* Cancel and check-in: each decides on what it read earlier *)

CancelRead(k, r) ==
    /\ "cancel" \in Ops
    /\ reg[r].status \in ActiveStatuses
    /\ Start(k, "cancel_checkin", r, FALSE)
    /\ OnlyCall /\ UNCHANGED storeVars

CancelHasCheckIn(k) ==
    /\ At(k, "cancel_checkin")
    /\ IF call[k].reg \in checkIns THEN Return(k) ELSE Goto(k, "cancel")
    /\ OnlyCall /\ UNCHANGED storeVars

CancelWrite(k) ==
    /\ At(k, "cancel")
    /\ Cancel(call[k].reg)
    /\ Return(k)
    /\ OnlyCall

\* Mutant: check-in lets any active registration in.
CheckInReadActive(k, r) ==
    /\ "checkin" \in Ops
    /\ reg[r].status \in ActiveStatuses
    /\ Start(k, "checkin", r, FALSE)
    /\ OnlyCall /\ UNCHANGED storeVars

CheckInRead(k, r) ==
    /\ "checkin" \in Ops
    /\ reg[r].status = "CONFIRMED"
    /\ Start(k, "checkin", r, FALSE)
    /\ OnlyCall /\ UNCHANGED storeVars

CheckInWrite(k) ==
    /\ At(k, "checkin")
    /\ \/ CheckIn(call[k].reg)
       \/ call[k].reg \in checkIns /\ UNCHANGED storeVars
    /\ Return(k)
    /\ OnlyCall

-----------------------------------------------------------------------------
(* VerifyPayment *)

\* A payment the configured provider cannot be asked about.
OutOfReach(r) == pay[r].provider = "manual" \/ pay[r].provider # provider

\* Decides on the local expiry clock before asking the provider.  The branches
\* that only report a status are not actions.
VerifyRead(k, r) ==
    /\ "verify" \in Ops
    /\ reg[r].status = "PENDING"
    /\ pay[r].status # "NONE"
    /\ \/ /\ ~OutOfReach(r)
          /\ Start(k, "poll", r, pay[r].lapsed)
       \/ /\ OutOfReach(r)
          /\ pay[r].lapsed
          /\ pay[r].provider = "manual" => pay[r].status = "PENDING"
          /\ Start(k, "expire", r, TRUE)
    /\ OnlyCall /\ UNCHANGED storeVars

\* Mutant: any transfer settles the payment.
VerifyPollAnyAmount(k) ==
    /\ At(k, "poll")
    /\ \/ bank[call[k].reg] = "none" /\ call[k].lapsed /\ Goto(k, "expire")
       \/ bank[call[k].reg] = "none" /\ ~call[k].lapsed /\ Return(k)
       \/ bank[call[k].reg] # "none" /\ Goto(k, "confirm")
    /\ OnlyCall /\ UNCHANGED storeVars

\* GetPaymentStatus answers with what the bank knows; an outage, and a transfer
\* of another amount, end the call.
VerifyPoll(k) ==
    /\ At(k, "poll")
    /\ \/ bank[call[k].reg] = "none" /\ call[k].lapsed /\ Goto(k, "expire")
       \/ bank[call[k].reg] = "none" /\ ~call[k].lapsed /\ Return(k)
       \/ bank[call[k].reg] = "exact" /\ Goto(k, "confirm")
       \/ bank[call[k].reg] = "other" /\ Return(k)
       \/ "provider" \in Faults /\ Return(k)
    /\ OnlyCall /\ UNCHANGED storeVars

VerifyConfirm(k) ==
    /\ At(k, "confirm")
    /\ ConfirmStoredPayment(call[k].reg)
    /\ IF reg[call[k].reg].status = "PENDING" THEN Goto(k, "notify") ELSE Return(k)
    /\ OnlyCall

\* expirePendingPayments from VerifyPayment or SubmitManualPayment: everyone's.
CallSweep(k) ==
    /\ At(k, "expire")
    /\ \/ SweepBegins /\ Goto(k, "sweeping")
       \/ Lapsed = {} /\ Return(k) /\ UNCHANGED storeVars
    /\ OnlyCall

CallExpires(k) ==
    /\ At(k, "sweeping")
    /\ SweepCommits
    /\ Return(k)
    /\ OnlyCall

-----------------------------------------------------------------------------
(* SubmitManualPayment and ReviewManualPayment *)

SubmitRead(k, r) ==
    /\ "submit" \in Ops
    /\ reg[r].status = "PENDING"
    /\ pay[r].status = "PENDING"
    /\ pay[r].provider = "manual"
    /\ Start(k, IF pay[r].lapsed THEN "expire" ELSE "submit", r, pay[r].lapsed)
    /\ OnlyCall /\ UNCHANGED storeVars

SubmitWrite(k) ==
    /\ At(k, "submit")
    /\ \/ SubmitManualPayment(call[k].reg)
       \/ /\ pay[call[k].reg].status # "PENDING" \/ pay[call[k].reg].lapsed
          /\ UNCHANGED storeVars
    /\ Return(k)
    /\ OnlyCall

ReviewRead(k, r) ==
    /\ "review" \in Ops
    /\ UnderReview(r)
    /\ Start(k, "review", r, FALSE)
    /\ OnlyCall /\ UNCHANGED storeVars

ReviewWrite(k) ==
    /\ At(k, "review")
    /\ \/ ApproveManualPayment(call[k].reg) /\ Goto(k, "notify")
       \/ FailManualPayment(call[k].reg) /\ Return(k)
       \/ ~UnderReview(call[k].reg) /\ Return(k) /\ UNCHANGED storeVars
    /\ OnlyCall

Handle(k) ==
    \/ \E r \in Regs : \/ CancelRead(k, r) \/ CheckInRead(k, r) \/ VerifyRead(k, r)
                       \/ SubmitRead(k, r) \/ ReviewRead(k, r)
    \/ CancelHasCheckIn(k) \/ CancelWrite(k) \/ CheckInWrite(k)
    \/ VerifyPoll(k) \/ VerifyConfirm(k) \/ CallSweep(k) \/ CallExpires(k)
    \/ SubmitWrite(k) \/ ReviewWrite(k) \/ Notify(k)

-----------------------------------------------------------------------------
(* The payment reconciler *)

JobAt(w, pc) == job[w].pc = pc
JobGoto(w, pc) == job' = [job EXCEPT ![w].pc = pc]

JobClaim(w, rows) ==
    /\ JobAt(w, "idle")
    /\ ClaimPendingPayments(w, rows)
    /\ job' = [job EXCEPT ![w] = [IdleJob EXCEPT !.pc = "next", !.todo = rows]]
    /\ OnlyJob

\* The next payment of the batch, one at a time; now is read before the poll.
JobNext(w, r) ==
    /\ JobAt(w, "next")
    /\ r \in job[w].todo
    /\ job' = [job EXCEPT ![w] =
                 [pc |-> IF pay[r].provider = provider THEN "poll" ELSE "later",
                  todo |-> @.todo \ {r}, reg |-> r, lapsed |-> pay[r].lapsed]]
    /\ OnlyJob /\ UNCHANGED storeVars

JobDone(w) ==
    /\ JobAt(w, "next")
    /\ job[w].todo = {}
    /\ job' = [job EXCEPT ![w] = IdleJob]
    /\ OnlyJob /\ UNCHANGED storeVars

\* Mutant: the local clock is trusted before the provider is asked.
JobPollClockFirst(w) ==
    /\ JobAt(w, "poll")
    /\ JobGoto(w, IF job[w].lapsed THEN "expire"
                  ELSE IF bank[job[w].reg] = "exact" THEN "confirm" ELSE "later")
    /\ OnlyJob /\ UNCHANGED storeVars

JobPoll(w) ==
    /\ JobAt(w, "poll")
    /\ \/ bank[job[w].reg] = "none" /\ job[w].lapsed /\ JobGoto(w, "expire")
       \/ bank[job[w].reg] = "none" /\ ~job[w].lapsed /\ JobGoto(w, "later")
       \/ bank[job[w].reg] = "exact" /\ JobGoto(w, "confirm")
       \/ bank[job[w].reg] = "other" /\ JobGoto(w, "later")
    /\ OnlyJob /\ UNCHANGED storeVars

JobPollFails(w) ==
    /\ "provider" \in Faults
    /\ JobAt(w, "poll")
    /\ JobGoto(w, "later")
    /\ OnlyJob /\ UNCHANGED storeVars

\* A payment another worker took over, or that is no longer PENDING, is left.
JobExpire(w) ==
    /\ JobAt(w, "expire")
    /\ \/ ExpireClaimedPayment(w, job[w].reg) /\ JobGoto(w, "next")
       \/ ~ClaimedBy(w, job[w].reg) /\ JobGoto(w, "next") /\ UNCHANGED storeVars
       \/ "db" \in Faults /\ JobGoto(w, "later") /\ UNCHANGED storeVars
    /\ OnlyJob

\* Mutant: the reconciler announces nothing.
JobConfirmSilently(w) ==
    /\ JobAt(w, "confirm")
    /\ ConfirmStoredPayment(job[w].reg)
    /\ JobGoto(w, "next")
    /\ OnlyJob

JobConfirm(w) ==
    /\ JobAt(w, "confirm")
    /\ \/ /\ ConfirmStoredPayment(job[w].reg)
          /\ JobGoto(w, IF reg[job[w].reg].status = "PENDING" THEN "notify" ELSE "next")
       \/ "db" \in Faults /\ JobGoto(w, "later") /\ UNCHANGED storeVars
    /\ OnlyJob

JobNotify(w) ==
    /\ JobAt(w, "notify")
    /\ OneMoreNotice(job[w].reg)
    /\ JobGoto(w, "next")
    /\ UNCHANGED <<storeVars, call, lock, bank, onTime, provider, open, idem, keyOf>>

JobLater(w) ==
    /\ JobAt(w, "later")
    /\ \/ SchedulePaymentReconciliation(w, job[w].reg)
       \/ ~ClaimedBy(w, job[w].reg) /\ UNCHANGED storeVars
    /\ JobGoto(w, "next")
    /\ OnlyJob

\* A pass that has claimed its batch.
JobStep(w) ==
    \/ \E r \in Regs : JobNext(w, r)
    \/ JobDone(w) \/ JobExpire(w) \/ JobConfirm(w) \/ JobNotify(w) \/ JobLater(w)

Reconcile(w) ==
    \/ \E rows \in SUBSET Regs : JobClaim(w, rows)
    \/ JobStep(w) \/ JobPoll(w) \/ JobPollFails(w)

-----------------------------------------------------------------------------
(* Payers, administrators, clocks and failures *)

\* A transfer reaches the bank: the code carries no expiry date, so a late one
\* is accepted too, whatever the registration has become.
BankTransfer(r, amount) ==
    /\ pay[r].status # "NONE"
    /\ pay[r].provider = "bakong"
    /\ bank[r] = "none"
    /\ bank' = [bank EXCEPT ![r] = amount]
    /\ onTime' = IF amount = "exact" /\ ~pay[r].lapsed THEN onTime \cup {r} ELSE onTime
    /\ UNCHANGED <<storeVars, call, job, lock, provider, open, idem, keyOf, notices>>

\* The five seconds of the lock are over while its holder is still at work.
LockExpires(c) ==
    /\ lock[c] # None
    /\ lock' = [lock EXCEPT ![c] = None]
    /\ call' = [k \in Calls |-> IF k = lock[c] /\ call[k].lock = "held"
                                THEN [call[k] EXCEPT !.lock = "lapsed"] ELSE call[k]]
    /\ UNCHANGED <<storeVars, job, bank, onTime, provider, open, idem, keyOf, notices>>

\* The organiser opens or closes a category.
SetOpen(c) ==
    /\ open' = IF c \in open THEN open \ {c} ELSE open \cup {c}
    /\ UNCHANGED <<storeVars, call, job, lock, bank, onTime, provider, idem, keyOf, notices>>

\* DeleteExpired: a stored outcome is pruned after a day.
KeyExpires(u, key) ==
    /\ idem[u][key] # None
    /\ idem' = [idem EXCEPT ![u][key] = None]
    /\ UNCHANGED <<storeVars, call, job, lock, bank, onTime, provider, open, keyOf, notices>>

\* The request whose transaction the sweep under way is.
Sweeping(k) == At(k, "expiring") \/ At(k, "sweeping")

\* An error return runs the deferred Release; a crash leaves the lock to its TTL.  The
\* transaction of a sweep is rolled back.
CallFails(k) ==
    /\ "call" \in Faults
    /\ ~At(k, "idle")
    /\ Return(k)
    /\ lock' \in {Released(k), Orphaned({k})}
    /\ IF Sweeping(k) THEN SweepRollsBack ELSE UNCHANGED storeVars
    /\ UNCHANGED <<job, bank, onTime, provider, open, idem, keyOf, notices>>

WorkerCrashes(w) ==
    /\ "worker" \in Faults
    /\ ~JobAt(w, "idle")
    /\ job' = [job EXCEPT ![w] = IdleJob]
    /\ OnlyJob /\ UNCHANGED storeVars

\* Every process restarts with another payment provider.
Redeploy(p) ==
    /\ "redeploy" \in Faults
    /\ p # provider
    /\ provider' = p
    /\ call' = [k \in Calls |-> IdleCall]
    /\ job' = [w \in Workers |-> IdleJob]
    /\ lock' = Orphaned(Calls)
    /\ IF due # {} THEN SweepRollsBack ELSE UNCHANGED storeVars
    /\ UNCHANGED <<bank, onTime, open, idem, keyOf, notices>>

Clock(r) == (PaymentLapses(r) \/ LeaseEnds(r) \/ ReconcileDue(r)) /\ UNCHANGED serviceVars

Environment ==
    \/ \E r \in Regs : Clock(r) \/ \E amount \in Settlements : BankTransfer(r, amount)
    \/ \E c \in Categories : LockExpires(c) \/ SetOpen(c)
    \/ \E c \in Categories, n \in 0..MaxCapacity : UpdateCapacity(c, n) /\ UNCHANGED serviceVars
    \/ \E u \in Users, key \in Keys : KeyExpires(u, key)
    \/ \E k \in Calls : CallFails(k)
    \/ \E w \in Workers : WorkerCrashes(w)
    \/ \E p \in Providers : Redeploy(p)

-----------------------------------------------------------------------------
Init ==
    /\ StoreInit
    /\ call = [k \in Calls |-> IdleCall]
    /\ job = [w \in Workers |-> IdleJob]
    /\ lock = [c \in Categories |-> None]
    /\ bank = [r \in Regs |-> "none"]
    /\ onTime = {}
    /\ provider \in Providers
    /\ open = Categories
    /\ idem = [u \in Users |-> [key \in Keys |-> None]]
    /\ keyOf = [r \in Regs |-> None]
    /\ notices = [r \in Regs |-> 0]

Next ==
    \/ \E k \in Calls : Register(k) \/ Handle(k)
    \/ \E w \in Workers : Reconcile(w)
    \/ Environment

Spec == Init /\ [][Next]_vars

(***************************************************************************)
(* Fairness.  A request in flight goes on (its context has deadlines), a   *)
(* clock reaches its instant, the reconciler ticks every 15 seconds for    *)
(* ever.  Strong fairness on its steps says that no crash or outage always *)
(* hits the same step; the claim is fair to each row because it takes the  *)
(* oldest reconcile_after first.  Clients, payers, administrators and      *)
(* failures are not obliged to do anything.                                *)
(***************************************************************************)
CallStep(k) ==
    \/ RegisterSweep(k) \/ RegisterExpires(k) \/ RegisterCheck(k) \/ RegisterLock(k)
    \/ \E r \in Regs : RegisterFree(k, r) \/ RegisterReserve(k, r)
    \/ RegisterRefused(k) \/ RegisterCheckout(k) \/ RegisterInsert(k) \/ RegisterUndo(k)
    \/ RegisterSettle(k) \/ RegisterRecord(k) \/ RegisterFinish(k)
    \/ CancelHasCheckIn(k) \/ CancelWrite(k) \/ CheckInWrite(k)
    \/ VerifyPoll(k) \/ VerifyConfirm(k) \/ CallSweep(k) \/ CallExpires(k)
    \/ SubmitWrite(k) \/ ReviewWrite(k) \/ Notify(k)

Fairness ==
    /\ \A k \in Calls : WF_vars(CallStep(k))
    /\ \A r \in Regs :
          /\ WF_vars(PaymentLapses(r) /\ UNCHANGED serviceVars)
          /\ WF_vars(LeaseEnds(r) /\ UNCHANGED serviceVars)
          /\ WF_vars(ReconcileDue(r) /\ UNCHANGED serviceVars)
    /\ \A w \in Workers :
          /\ \A r \in Regs :
                /\ SF_vars(\E rows \in SUBSET Regs : r \in rows /\ JobClaim(w, rows))
                /\ SF_vars(JobNext(w, r))
          /\ SF_vars(JobPoll(w)) /\ SF_vars(JobExpire(w)) /\ SF_vars(JobConfirm(w))
          /\ WF_vars(JobDone(w)) /\ WF_vars(JobNotify(w)) /\ WF_vars(JobLater(w))

FairSpec == Spec /\ Fairness

-----------------------------------------------------------------------------
(* Properties *)

\* The tables change only by transactions of the repository, whatever the
\* handlers, the reconciler and the failures do: what RegistrationStore
\* guarantees, the service keeps.
ImplementsStore == StoreSpec

\* A request that believes it holds a category's lock, and has not outlived the
\* TTL, does hold it: the compare-and-delete of Lock.Release never drops the
\* lock another request took over after a TTL ran out (lock.go:45-56).
LockBelief == \A k \in Calls : call[k].lock = "held" => lock[call[k].cat] = k

\* A registration is announced as confirmed at most once, although requests and
\* reconcilers may all find the same payment settled (ConfirmStoredPayment reports
\* which of them confirmed it), and without a crash no confirmation goes
\* unannounced: the actor that confirmed it is about to announce it, or has.
AnnouncedExactlyOnce ==
    \A r \in Regs :
        /\ notices[r] <= 1
        /\ reg[r].status = "CONFIRMED" /\ notices[r] = 0 =>
              \/ \E k \in Calls : At(k, "notify") /\ call[k].reg = r
              \/ \E w \in Workers : JobAt(w, "notify") /\ job[w].reg = r

\* A Bakong payment is recorded as succeeded only for a transfer of the exact
\* amount (the amount check of VerifyPayment and reconcilePayment).
SucceededMeansTransferred ==
    \A r \in Regs :
        pay[r].status = "SUCCEEDED" /\ pay[r].provider = "bakong" => bank[r] = "exact"

\* The reconciler never expires a reservation that was paid in full before it
\* lapsed, however its poll, the transfer, the clock and a takeover by another
\* worker fall (reconcilePayment asks the provider before it expires).
ReconcilerKeepsSettled ==
    [][job' # job =>
          \A r \in onTime : reg[r].status = "PENDING" => reg'[r].status # "EXPIRED"]_vars

\* While a worker's lease on a payment is live no other worker, however late
\* its own steps, takes the payment over or gives the lease back.
LeaseIsExclusive ==
    [][\A r \in Regs, w \in Workers :
          pay[r].status = "PENDING" /\ pay[r].leased /\ pay[r].worker = w /\ job'[w] = job[w]
              => pay'[r].status # "PENDING" \/ pay'[r].worker = w]_vars

\* A payer who has submitted a transfer waits for an administrator: until the
\* review is decided no verification and no sweep that begins later touches the
\* reservation; only its owner may still cancel it.  Excepted is the sweep whose first
\* statement had found the payment before it was submitted: its second one leaves the
\* payment PROCESSING and the registration EXPIRED, out of reach of any review.
SubmittedAwaitsReview ==
    [][\A r \in Regs :
          UnderReview(r) /\ r \notin due =>
              /\ r \notin due'
              /\ \/ reg'[r].status \in {"PENDING", "CANCELLED"}
                 \/ \E k \in Calls : At(k, "review") /\ call[k].reg = r /\ call'[k] # call[k]]_vars

\* Every reservation without a payment row belongs to a request that is still
\* at work on it: nothing else would ever release its seat, since both expiry
\* mechanisms start from the payment row.
ReservationsAreOwned ==
    \A r \in Regs :
        reg[r].status = "PENDING" /\ pay[r].status = "NONE" =>
            \E k \in Calls : call[k].reg = r /\ call[k].pc \in RegisterPCs

\* A free registration made under an idempotency key commits together with its
\* stored outcome, so no retry can miss it (PostInsertHook, registerFree); and once
\* a retry could have been answered with an outcome, no concurrent request under
\* the same key replaces it: replays agree until the record is pruned.
OutcomesStand ==
    [][/\ \A r \in Regs :
             keyOf'[r] # keyOf[r] /\ reg'[r].cat \in FreeCategories
                 => idem'[reg'[r].user][keyOf'[r]] # None
       /\ \A u \in Users, key \in Keys :
             idem[u][key] # None => idem'[u][key] \in {idem[u][key], None}]_vars

\* Nobody is let in who was never confirmed: a check-in row belongs to a
\* registration that has a ticket, although check-in decides on a status it
\* read earlier and its INSERT checks none.
CheckedInHasTicket == checkIns \subseteq tickets

\* A reservation does not hold its seat for ever: it is confirmed, cancelled or
\* expired, even through worker crashes and provider outages.
ReservationsResolve ==
    \A r \in Regs : (reg[r].status = "PENDING") ~> (reg[r].status # "PENDING")

\* A transfer made in time on a reservation that is still waiting is never
\* forgotten: the payment is in the end recorded as succeeded or, if a sweep
\* got there first, as failed.
TransfersAreSettled ==
    \A r \in Regs : (r \in onTime) ~> (pay[r].status \in {"SUCCEEDED", "FAILED"})

-----------------------------------------------------------------------------
(* What the documentation says and the code does not do *)

\* "A payment that settles close to its TTL must be confirmed, not cancelled"
\* (service.go:693-696): no step expires a reservation paid in full in time.
SettledNeverExpires ==
    [][\A r \in onTime : reg[r].status = "PENDING" => reg'[r].status # "EXPIRED"]_vars

\* "checked-in registration cannot be cancelled" (service.go:36).
CheckedInIsKept ==
    [][\A r \in checkIns : reg[r].status # "CANCELLED" => reg'[r].status # "CANCELLED"]_vars
=============================================================================
