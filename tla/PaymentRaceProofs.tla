------------------------- MODULE PaymentRaceProofs -------------------------
(***************************************************************************)
(* The races of RegistrationService around one payment, for any number of  *)
(* requests, workers and registrations: what is recorded as paid was       *)
(* transferred, what is confirmed is announced once, a reservation has an  *)
(* owner until it has a payment, a lease and a review are respected, and   *)
(* an idempotent outcome stands.                                           *)
(***************************************************************************)
EXTENDS RegistrationServiceProofs

-----------------------------------------------------------------------------
(* Whose step it is: a request, or a reconciler pass, moves by a step of    *)
(* its own, or is dropped, or stays where it is.                            *)

LEMMA CallsMoveAlone ==
    ASSUME CallsOK, NEW k \in Calls, Register(k) \/ Handle(k), NEW q \in Calls \ {k}
    PROVE  call'[q] = call[q]
  <1>0. call \in [Calls -> CallState]
    BY DEF CallsOK
  <1>1. ASSUME NEW r \in Regs, \/ CancelRead(k, r) \/ CheckInRead(k, r) \/ VerifyRead(k, r)
                               \/ SubmitRead(k, r) \/ ReviewRead(k, r)
        PROVE  call'[q] = call[q]
    <2>1. \A pc, b : Start(k, pc, r, b) => call'[q] = call[q]
      BY <1>0 DEF Start
    <2> QED  BY <1>1, <2>1 DEF CancelRead, CheckInRead, VerifyRead, SubmitRead, ReviewRead
  <1>2. CASE Register(k)
    BY <1>0, <1>2 DEF Register, RegisterLookup, RegisterSweep, RegisterExpires, RegisterCheck, RegisterLock,
       RegisterFree, RegisterReserve, RegisterRefused, RegisterCheckout, RegisterInsert,
       RegisterUndo, RegisterSettle, RegisterRecord, RegisterFinish, Goto, GotoWith, Return
  <1>3. CASE Handle(k)
    BY <1>0, <1>1, <1>3 DEF Handle, CancelHasCheckIn, CancelWrite, CheckInWrite, VerifyPoll,
       VerifyConfirm, CallSweep, CallExpires, SubmitWrite, ReviewWrite, Notify, Goto, Return
  <1> QED  BY <1>2, <1>3

\* A request that no step of its own moves: a failure ends it, or it is where it was.
Waits(q) ==
    \/ call'[q].pc = "idle" /\ Faults \cap {"call", "redeploy"} # {}
    \/ call'[q].pc = call[q].pc /\ call'[q].reg = call[q].reg

LEMMA EnvironmentWaits ==
    ASSUME CallsOK, Environment \/ UNCHANGED vars, NEW q \in Calls
    PROVE  Waits(q)
  <1>0. call \in [Calls -> CallState]
    BY DEF CallsOK
  <1> USE DEF Waits
  <1>1. ASSUME NEW c \in Categories, LockExpires(c)
        PROVE  Waits(q)
    BY <1>0, <1>1 DEF LockExpires, CallState
  <1>2. ASSUME NEW k \in Calls, CallFails(k)
        PROVE  Waits(q)
    BY <1>0, <1>2 DEF CallFails, Return, IdleCall
  <1>3. ASSUME NEW p \in Providers, Redeploy(p)
        PROVE  Waits(q)
    BY <1>3 DEF Redeploy, IdleCall
  <1>4. CASE \/ \E r \in Regs : Clock(r) \/ \E amount \in Settlements : BankTransfer(r, amount)
             \/ \E c \in Categories : SetOpen(c)
             \/ \E c \in Categories, n \in 0..MaxCapacity : UpdateCapacity(c, n) /\ UNCHANGED serviceVars
             \/ \E u \in Users, key \in Keys : KeyExpires(u, key)
             \/ \E w \in Workers : WorkerCrashes(w)
    BY <1>4 DEF Clock, BankTransfer, SetOpen, KeyExpires, WorkerCrashes, OnlyJob, serviceVars
  <1>5. CASE UNCHANGED vars
    BY <1>5 DEF vars, serviceVars
  <1> QED
    BY <1>1, <1>2, <1>3, <1>4, <1>5 DEF Environment

LEMMA CallStepIsOwn ==
    ASSUME CallsOK, [Next]_vars, NEW q \in Calls
    PROVE  Register(q) \/ Handle(q) \/ Waits(q)
  <1>1. ASSUME NEW k \in Calls, Register(k) \/ Handle(k)
        PROVE  Register(q) \/ Handle(q) \/ Waits(q)
    BY <1>1, CallsMoveAlone DEF Waits
  <1>2. ASSUME NEW w \in Workers, Reconcile(w)
        PROVE  Waits(q)
    BY <1>2 DEF Reconcile, JobStep, JobClaim, JobNext, JobDone, JobExpire, JobConfirm, JobNotify,
                JobLater, JobPoll, JobPollFails, OnlyJob, Waits
  <1> QED
    BY <1>1, <1>2, EnvironmentWaits DEF Next

LEMMA JobsMoveAlone ==
    ASSUME JobsOK, NEW w \in Workers, Reconcile(w), NEW v \in Workers \ {w}
    PROVE  job'[v] = job[v]
  <1>0. job \in [Workers -> JobState]
    BY DEF JobsOK
  <1> QED
    BY <1>0 DEF Reconcile, JobStep, JobClaim, JobNext, JobDone, JobExpire, JobConfirm, JobNotify,
                JobLater, JobPoll, JobPollFails, JobGoto

LEMMA JobsOnlyReconcile ==
    ASSUME JobsOK, [Next]_vars, NEW v \in Workers
    PROVE  Reconcile(v) \/ job'[v] = IdleJob \/ job'[v] = job[v]
  <1>0. job \in [Workers -> JobState]
    BY DEF JobsOK
  <1>1. ASSUME NEW w \in Workers, Reconcile(w)
        PROVE  Reconcile(v) \/ job'[v] = job[v]
    BY <1>1, JobsMoveAlone
  <1>2. ASSUME NEW k \in Calls, Register(k) \/ Handle(k)
        PROVE  UNCHANGED job
    <2>1. CASE Register(k)
      BY <2>1 DEF Register, RegisterLookup, RegisterSweep, RegisterExpires, RegisterCheck, RegisterLock,
         RegisterFree, RegisterReserve, RegisterRefused, RegisterCheckout, RegisterInsert,
         RegisterUndo, RegisterSettle, RegisterRecord, RegisterFinish, OnlyCall
    <2>2. CASE Handle(k)
      BY <2>2 DEF Handle, CancelRead, CheckInRead, VerifyRead, SubmitRead, ReviewRead,
         CancelHasCheckIn, CancelWrite, CheckInWrite, VerifyPoll, VerifyConfirm, CallSweep, CallExpires,
         SubmitWrite, ReviewWrite, Notify, OnlyCall
    <2> QED  BY <1>2, <2>1, <2>2
  <1>3. CASE (\E w \in Workers : WorkerCrashes(w)) \/ (\E p \in Providers : Redeploy(p))
    BY <1>0, <1>3 DEF WorkerCrashes, Redeploy
  <1>4. CASE \/ \E r \in Regs : Clock(r) \/ \E amount \in Settlements : BankTransfer(r, amount)
             \/ \E c \in Categories : LockExpires(c) \/ SetOpen(c)
             \/ \E c \in Categories, n \in 0..MaxCapacity : UpdateCapacity(c, n) /\ UNCHANGED serviceVars
             \/ \E u \in Users, key \in Keys : KeyExpires(u, key)
             \/ \E k \in Calls : CallFails(k)
    BY <1>4 DEF Clock, BankTransfer, LockExpires, SetOpen, KeyExpires, CallFails, serviceVars
  <1>5. CASE UNCHANGED vars
    BY <1>5 DEF vars, serviceVars
  <1> QED
    BY <1>1, <1>2, <1>3, <1>4, <1>5 DEF Next, Environment

-----------------------------------------------------------------------------
(* Where a step of its own takes a request or a pass *)

LEMMA GotoFields ==
    ASSUME CallsOK, NEW k \in Calls, NEW pc, Goto(k, pc)
    PROVE  /\ call'[k].pc = pc /\ call'[k].reg = call[k].reg /\ call'[k].cat = call[k].cat
           /\ call'[k].user = call[k].user /\ call'[k].key = call[k].key
  <1>1. call[k] \in CallState /\ call'[k] = [call[k] EXCEPT !.pc = pc]
    BY DEF CallsOK, Goto
  <1> QED  BY <1>1 DEF CallState

LEMMA GotoWithFields ==
    ASSUME CallsOK, NEW k \in Calls, NEW pc, NEW r \in Regs, GotoWith(k, pc, r)
    PROVE  call'[k].pc = pc /\ call'[k].reg = r
  <1>1. call[k] \in CallState /\ call'[k] = [call[k] EXCEPT !.pc = pc, !.reg = r]
    BY DEF CallsOK, GotoWith
  <1> QED  BY <1>1 DEF CallState

LEMMA StartFields ==
    ASSUME CallsOK, NEW k \in Calls, NEW pc, NEW r \in Regs, NEW b, Start(k, pc, r, b)
    PROVE  call[k].pc = "idle" /\ call'[k].pc = pc /\ call'[k].reg = r
  BY DEF CallsOK, Start, IdleCall, At

LEMMA ReturnFields ==
    ASSUME CallsOK, NEW k \in Calls, Return(k)
    PROVE  call'[k].pc = "idle"
  BY DEF CallsOK, Return, IdleCall

LEMMA JobGotoFields ==
    ASSUME JobsOK, NEW w \in Workers, NEW pc, JobGoto(w, pc)
    PROVE  /\ job'[w].pc = pc /\ job'[w].reg = job[w].reg
           /\ job'[w].lapsed = job[w].lapsed /\ job'[w].todo = job[w].todo
  <1>1. job[w] \in JobState /\ job'[w] = [job[w] EXCEPT !.pc = pc]
    BY DEF JobsOK, JobGoto
  <1> QED  BY <1>1 DEF JobState

\* A registration goes through its own steps only, and gets its row when it reserves or,
\* free, when it is confirmed.
LEMMA RegisterMoves ==
    ASSUME CallsOK, NEW k \in Calls, Register(k)
    PROVE  /\ call'[k].pc \in EarlyPCs \cup {"idle", "finish", "record", "notify", "checkout",
                                             "insert", "undo", "settle"}
           /\ call'[k].pc \in {"insert", "undo", "settle", "record"} => call'[k].reg = call[k].reg
           /\ call'[k].pc = "checkout" => \E r \in Regs : RegisterReserve(k, r) /\ call'[k].reg = r
           /\ call'[k].pc = "notify" => \/ \E r \in Regs : RegisterFree(k, r) /\ call'[k].reg = r
                                        \/ RegisterSettle(k) /\ call'[k].reg = call[k].reg
  <1> USE DEF EarlyPCs
  <1>1. CASE \E u \in Users, c \in Categories, key \in Keys \cup {None} : RegisterLookup(k, u, c, key)
    BY <1>1 DEF RegisterLookup, IdleCall, CallsOK
  <1>2. CASE RegisterSweep(k) \/ RegisterExpires(k) \/ RegisterCheck(k) \/ RegisterRefused(k) \/ RegisterFinish(k)
    <2>1. Goto(k, "expiring") \/ Goto(k, "check") \/ Goto(k, "lock") \/ Goto(k, "finish") \/ Return(k)
      BY <1>2 DEF RegisterSweep, RegisterExpires, RegisterCheck, RegisterRefused, RegisterFinish
    <2> QED  BY <2>1, GotoFields, ReturnFields
  <1>3. CASE RegisterLock(k)
    <2>1. CASE Goto(k, "create") \/ Return(k)
      BY <2>1, GotoFields, ReturnFields
    <2>2. CASE call' = [call EXCEPT ![k].pc = "create", ![k].lock = "held"]
      BY <2>2 DEF CallsOK, CallState
    <2> QED  BY <1>3, <2>1, <2>2 DEF RegisterLock
  <1>4. ASSUME NEW r \in Regs, RegisterFree(k, r)
        PROVE  call'[k].pc = "notify" /\ call'[k].reg = r
    BY <1>4, GotoWithFields DEF RegisterFree
  <1>5. ASSUME NEW r \in Regs, RegisterReserve(k, r)
        PROVE  call'[k].pc = "checkout" /\ call'[k].reg = r
    BY <1>5, GotoWithFields DEF RegisterReserve
  <1>6. CASE \/ RegisterCheckout(k) \/ RegisterInsert(k) \/ RegisterUndo(k) \/ RegisterRecord(k)
    <2>1. \/ Goto(k, "settle") \/ Goto(k, "insert") \/ Goto(k, "undo") \/ Goto(k, "record")
          \/ Goto(k, "finish")
      BY <1>6 DEF RegisterCheckout, RegisterInsert, RegisterUndo, RegisterRecord
    <2> QED  BY <2>1, GotoFields
  <1>7. CASE RegisterSettle(k)
    <2>1. Goto(k, "notify") \/ Goto(k, "finish")
      BY <1>7 DEF RegisterSettle
    <2> QED  BY <1>7, <2>1, GotoFields
  <1> QED  BY <1>1, <1>2, <1>3, <1>4, <1>5, <1>6, <1>7 DEF Register

\* The other requests: where they act on what they read, and who announces.
LEMMA HandleMoves ==
    ASSUME CallsOK, NEW k \in Calls, Handle(k)
    PROVE  /\ call'[k].pc \in {"idle", "cancel_checkin", "cancel", "checkin", "poll", "confirm",
                               "expire", "sweeping", "submit", "review", "notify", "record", "finish"}
           /\ call[k].pc = "idle" \/ call'[k].pc = "idle" \/ call'[k].reg = call[k].reg
           /\ call'[k].pc = "confirm" => VerifyPoll(k) /\ call'[k].reg = call[k].reg
           /\ call'[k].pc = "notify" => /\ VerifyConfirm(k) \/ ReviewWrite(k)
                                        /\ call'[k].reg = call[k].reg
  <1>1. ASSUME NEW r \in Regs, \/ CancelRead(k, r) \/ CheckInRead(k, r) \/ VerifyRead(k, r)
                               \/ SubmitRead(k, r) \/ ReviewRead(k, r)
        PROVE  /\ call[k].pc = "idle"
               /\ call'[k].pc \in {"cancel_checkin", "checkin", "poll", "expire", "submit", "review"}
    <2>1. \E pc \in {"cancel_checkin", "checkin", "poll", "expire", "submit", "review"} :
            \E b : Start(k, pc, r, b)
      BY <1>1 DEF CancelRead, CheckInRead, VerifyRead, SubmitRead, ReviewRead
    <2> QED  BY <2>1, StartFields
  <1>2. CASE \/ CancelHasCheckIn(k) \/ CancelWrite(k) \/ CheckInWrite(k) \/ CallSweep(k) \/ CallExpires(k)
             \/ SubmitWrite(k) \/ Notify(k)
    <2>1. \/ Goto(k, "cancel") \/ Goto(k, "record") \/ Goto(k, "finish") \/ Goto(k, "sweeping")
          \/ Return(k)
      BY <1>2 DEF CancelHasCheckIn, CancelWrite, CheckInWrite, CallSweep, CallExpires, SubmitWrite, Notify
    <2> QED  BY <2>1, GotoFields, ReturnFields
  <1>3. CASE VerifyPoll(k)
    <2>1. Goto(k, "expire") \/ Goto(k, "confirm") \/ Return(k)
      BY <1>3 DEF VerifyPoll
    <2> QED  BY <1>3, <2>1, GotoFields, ReturnFields
  <1>4. CASE VerifyConfirm(k) \/ ReviewWrite(k)
    <2>1. Goto(k, "notify") \/ Return(k)
      BY <1>4 DEF VerifyConfirm, ReviewWrite
    <2> QED  BY <1>4, <2>1, GotoFields, ReturnFields
  <1> QED  BY <1>1, <1>2, <1>3, <1>4 DEF Handle

LEMMA ReconcileMoves ==
    ASSUME JobsOK, NEW w \in Workers, Reconcile(w)
    PROVE  /\ job'[w].pc \in JobPCs
           /\ job'[w].pc \in {"expire", "confirm", "notify"} =>
                 /\ job'[w].reg = job[w].reg /\ job'[w].lapsed = job[w].lapsed
           /\ job'[w].pc \in {"expire", "confirm"} => JobPoll(w)
           /\ job'[w].pc = "notify" => JobConfirm(w)
           /\ job'[w].pc = "poll" => \E r \in Regs : JobNext(w, r) /\ job'[w].reg = r
  <1> USE DEF JobPCs
  <1>1. CASE (\E rows \in SUBSET Regs : JobClaim(w, rows)) \/ JobDone(w)
    <2>0. job \in [Workers -> JobState]
      BY DEF JobsOK
    <2>1. ASSUME NEW rows \in SUBSET Regs, JobClaim(w, rows)
          PROVE  job'[w].pc = "next"
      <3>1. job'[w] = [IdleJob EXCEPT !.pc = "next", !.todo = rows]
        BY <2>0, <2>1 DEF JobClaim
      <3> QED  BY <3>1 DEF IdleJob
    <2>2. CASE JobDone(w)
      BY <2>0, <2>2 DEF JobDone, IdleJob
    <2> QED  BY <1>1, <2>1, <2>2 DEF IdleJob, JobDone
  <1>2. ASSUME NEW r \in Regs, JobNext(w, r)
        PROVE  job'[w].pc \in {"poll", "later"} /\ job'[w].reg = r
    BY <1>2 DEF JobNext, JobsOK
  <1>3. CASE JobPoll(w) \/ JobPollFails(w) \/ JobExpire(w) \/ JobNotify(w) \/ JobLater(w)
    <2>1. \/ JobGoto(w, "next") \/ JobGoto(w, "later")
          \/ JobPoll(w) /\ (JobGoto(w, "expire") \/ JobGoto(w, "confirm"))
      BY <1>3 DEF JobPoll, JobPollFails, JobExpire, JobNotify, JobLater
    <2> QED  BY <2>1, JobGotoFields
  <1>4. CASE JobConfirm(w)
    <2>1. JobGoto(w, "next") \/ JobGoto(w, "later") \/ JobGoto(w, "notify")
      BY <1>4 DEF JobConfirm
    <2> QED  BY <1>4, <2>1, JobGotoFields
  <1> QED  BY <1>1, <1>2, <1>3, <1>4 DEF Reconcile, JobStep

-----------------------------------------------------------------------------
(* Who writes what *)

\* The steps of requests and reconcilers that change a registration row, and those
\* that change a payment row.
RegisterWritesReg(k) ==
    \/ RegisterExpires(k) \/ RegisterUndo(k) \/ RegisterSettle(k)
    \/ \E r \in Regs : RegisterFree(k, r) \/ RegisterReserve(k, r)

HandleWritesReg(k) == CancelWrite(k) \/ VerifyConfirm(k) \/ CallExpires(k) \/ ReviewWrite(k)

CallWritesPay(k) ==
    \/ RegisterExpires(k) \/ RegisterInsert(k) \/ RegisterSettle(k)
    \/ VerifyConfirm(k) \/ CallExpires(k) \/ SubmitWrite(k) \/ ReviewWrite(k)

JobWritesPay(w) ==
    \/ \E rows \in SUBSET Regs : JobClaim(w, rows)
    \/ JobExpire(w) \/ JobConfirm(w) \/ JobLater(w)

LEMMA RegisterWrites ==
    ASSUME NEW k \in Calls, Register(k)
    PROVE  /\ UNCHANGED <<job, notices>>
           /\ reg' = reg \/ RegisterWritesReg(k)
           /\ pay' = pay \/ CallWritesPay(k)
           /\ \/ UNCHANGED <<idem, keyOf>>
              \/ RegisterRecord(k)
              \/ \E r \in Regs : RegisterFree(k, r) \/ RegisterReserve(k, r)
  <1>1. CASE RegisterRecord(k)
    BY <1>1 DEF RegisterRecord, storeVars
  <1>2. CASE RegisterFinish(k) \/ RegisterLock(k)
    BY <1>2 DEF RegisterFinish, RegisterLock, storeVars
  <1>3. CASE \E r \in Regs : RegisterFree(k, r) \/ RegisterReserve(k, r)
    BY <1>3 DEF RegisterFree, RegisterReserve, RegisterWritesReg, Create
  <1>4. CASE \/ \E u \in Users, c \in Categories, key \in Keys \cup {None} : RegisterLookup(k, u, c, key)
             \/ RegisterSweep(k) \/ RegisterCheck(k) \/ RegisterRefused(k) \/ RegisterCheckout(k)
    BY <1>4 DEF RegisterLookup, RegisterSweep, RegisterCheck, RegisterRefused, RegisterCheckout,
                SweepBegins, OnlyCall, storeVars
  <1>5. CASE RegisterExpires(k) \/ RegisterSettle(k)
    BY <1>5 DEF RegisterExpires, RegisterSettle, OnlyCall, RegisterWritesReg, CallWritesPay
  <1>6. CASE RegisterInsert(k)
    BY <1>6 DEF RegisterInsert, CreatePayment, OnlyCall, CallWritesPay, storeVars
  <1>7. CASE RegisterUndo(k)
    BY <1>7 DEF RegisterUndo, Cancel, OnlyCall, RegisterWritesReg, storeVars
  <1> QED  BY <1>1, <1>2, <1>3, <1>4, <1>5, <1>6, <1>7 DEF Register

LEMMA HandleWrites ==
    ASSUME NEW k \in Calls, Handle(k)
    PROVE  /\ UNCHANGED <<job, idem, keyOf>>
           /\ notices' = notices \/ Notify(k)
           /\ reg' = reg \/ HandleWritesReg(k)
           /\ pay' = pay \/ CallWritesPay(k)
  <1>1. CASE Notify(k)
    BY <1>1 DEF Notify, storeVars
  <1>2. CASE \/ \E r \in Regs : \/ CancelRead(k, r) \/ CheckInRead(k, r) \/ VerifyRead(k, r)
                                \/ SubmitRead(k, r) \/ ReviewRead(k, r)
             \/ CancelHasCheckIn(k) \/ VerifyPoll(k)
    BY <1>2 DEF CancelRead, CheckInRead, VerifyRead, SubmitRead, ReviewRead, CancelHasCheckIn,
                VerifyPoll, OnlyCall, storeVars
  <1>3. CASE CheckInWrite(k)
    BY <1>3 DEF CheckInWrite, CheckIn, OnlyCall, storeVars
  <1>4. CASE CancelWrite(k)
    BY <1>4 DEF CancelWrite, Cancel, OnlyCall, HandleWritesReg
  <1>5. CASE SubmitWrite(k)
    BY <1>5 DEF SubmitWrite, SubmitManualPayment, OnlyCall, CallWritesPay, storeVars
  <1>6. CASE VerifyConfirm(k) \/ CallExpires(k) \/ ReviewWrite(k)
    BY <1>6 DEF VerifyConfirm, CallExpires, ReviewWrite, OnlyCall, HandleWritesReg, CallWritesPay
  <1>7. CASE CallSweep(k)
    BY <1>7 DEF CallSweep, SweepBegins, OnlyCall, storeVars
  <1> QED  BY <1>1, <1>2, <1>3, <1>4, <1>5, <1>6, <1>7 DEF Handle

LEMMA ReconcileWrites ==
    ASSUME NEW w \in Workers, Reconcile(w)
    PROVE  /\ UNCHANGED <<call, idem, keyOf>>
           /\ notices' = notices \/ JobNotify(w)
           /\ reg' = reg \/ JobExpire(w) \/ JobConfirm(w)
           /\ pay' = pay \/ JobWritesPay(w)
  <1>1. CASE JobNotify(w)
    BY <1>1 DEF JobNotify, storeVars
  <1>2. CASE (\E r \in Regs : JobNext(w, r)) \/ JobDone(w) \/ JobPoll(w) \/ JobPollFails(w)
    BY <1>2 DEF JobNext, JobDone, JobPoll, JobPollFails, OnlyJob, storeVars
  <1>3. CASE \E rows \in SUBSET Regs : JobClaim(w, rows)
    BY <1>3 DEF JobClaim, ClaimPendingPayments, OnlyJob, JobWritesPay
  <1>4. CASE JobExpire(w) \/ JobConfirm(w)
    BY <1>4 DEF JobExpire, JobConfirm, OnlyJob, JobWritesPay
  <1>5. CASE JobLater(w)
    BY <1>5 DEF JobLater, SchedulePaymentReconciliation, OnlyJob, JobWritesPay, storeVars
  <1> QED  BY <1>1, <1>2, <1>3, <1>4, <1>5 DEF Reconcile, JobStep

\* Everyone else: clocks move payments, a pruned key loses its outcome, and the passes of
\* a worker that crashes or restarts are lost.
LEMMA EnvironmentWrites ==
    ASSUME Environment \/ UNCHANGED vars
    PROVE  /\ UNCHANGED <<reg, keyOf, notices>>
           /\ pay' = pay \/ \E r \in Regs : Clock(r)
           /\ idem' = idem \/ \E u \in Users, key \in Keys : KeyExpires(u, key)
           /\ \/ job' = job
              \/ \E w \in Workers : WorkerCrashes(w)
              \/ \E p \in Providers : Redeploy(p)
  <1>1. ASSUME NEW r \in Regs, Clock(r)
        PROVE  UNCHANGED <<reg, keyOf, notices, idem, job>>
    BY <1>1 DEF Clock, PaymentLapses, LeaseEnds, ReconcileDue, serviceVars
  <1>2. CASE \/ \E r \in Regs, amount \in Settlements : BankTransfer(r, amount)
             \/ \E c \in Categories : LockExpires(c) \/ SetOpen(c)
             \/ \E k \in Calls : CallFails(k)
    BY <1>2 DEF BankTransfer, LockExpires, SetOpen, CallFails, SweepRollsBack, storeVars
  <1>3. CASE \E c \in Categories, n \in 0..MaxCapacity : UpdateCapacity(c, n) /\ UNCHANGED serviceVars
    BY <1>3 DEF UpdateCapacity, serviceVars
  <1>4. CASE \E u \in Users, key \in Keys : KeyExpires(u, key)
    BY <1>4 DEF KeyExpires, storeVars
  <1>5. CASE (\E w \in Workers : WorkerCrashes(w)) \/ (\E p \in Providers : Redeploy(p))
    BY <1>5 DEF WorkerCrashes, Redeploy, SweepRollsBack, OnlyJob, storeVars
  <1>6. CASE UNCHANGED vars
    BY <1>6 DEF vars, storeVars, serviceVars
  <1> QED  BY <1>1, <1>2, <1>3, <1>4, <1>5, <1>6 DEF Environment

-----------------------------------------------------------------------------
(* What is recorded as paid was transferred *)

LEMMA BankStep ==
    ASSUME [Next]_vars
    PROVE  \/ UNCHANGED <<bank, onTime>>
           \/ \E r \in Regs, amount \in Settlements : BankTransfer(r, amount)
  <1>1. ASSUME NEW k \in Calls, Register(k)
        PROVE  UNCHANGED <<bank, onTime>>
    BY <1>1 DEF Register, RegisterLookup, RegisterSweep, RegisterExpires, RegisterCheck, RegisterLock,
       RegisterFree, RegisterReserve, RegisterRefused, RegisterCheckout, RegisterInsert,
       RegisterUndo, RegisterSettle, RegisterRecord, RegisterFinish, OnlyCall
  <1>2. ASSUME NEW k \in Calls, Handle(k)
        PROVE  UNCHANGED <<bank, onTime>>
    BY <1>2 DEF Handle, CancelRead, CheckInRead, VerifyRead, SubmitRead, ReviewRead,
       CancelHasCheckIn, CancelWrite, CheckInWrite, VerifyPoll, VerifyConfirm, CallSweep, CallExpires,
       SubmitWrite, ReviewWrite, Notify, OnlyCall
  <1>3. ASSUME NEW w \in Workers, Reconcile(w)
        PROVE  UNCHANGED <<bank, onTime>>
    BY <1>3 DEF Reconcile, JobStep, JobClaim, JobNext, JobDone, JobExpire, JobConfirm, JobNotify,
                JobLater, JobPoll, JobPollFails, OnlyJob
  <1>4. CASE \/ \E r \in Regs : Clock(r)
             \/ \E c \in Categories : LockExpires(c) \/ SetOpen(c)
             \/ \E c \in Categories, n \in 0..MaxCapacity : UpdateCapacity(c, n) /\ UNCHANGED serviceVars
             \/ \E u \in Users, key \in Keys : KeyExpires(u, key)
             \/ \E k \in Calls : CallFails(k)
             \/ \E w \in Workers : WorkerCrashes(w)
             \/ \E p \in Providers : Redeploy(p)
    BY <1>4 DEF Clock, LockExpires, SetOpen, KeyExpires, CallFails, WorkerCrashes, Redeploy,
                OnlyJob, serviceVars
  <1>5. CASE UNCHANGED vars
    BY <1>5 DEF vars, serviceVars
  <1> QED
    BY <1>1, <1>2, <1>3, <1>4, <1>5 DEF Next, Environment

\* A payment is recorded as succeeded by a request or a pass that is about to confirm it,
\* by a provider that settles at once, or by a review.
Confirming(r) ==
    \/ \E k \in Calls : At(k, "confirm") /\ call[k].reg = r
    \/ \E w \in Workers : JobAt(w, "confirm") /\ job[w].reg = r

LEMMA WhoSucceeds ==
    ASSUME ServiceInv, [Next]_vars, NEW r \in Regs,
           pay[r].status # "SUCCEEDED", pay'[r].status = "SUCCEEDED"
    PROVE  Confirming(r) \/ pay'[r].provider \in {"mock", "manual"}
  <1>0. StoreTypeOK /\ CallsOK /\ JobsOK /\ RestOK /\ pay \in [Regs -> PayRow \cup {NoPay}]
    BY ServiceInvParts DEF StoreTypeOK
  <1>1. ASSUME NEW k \in Calls, Register(k)
        PROVE  pay'[r].provider \in {"mock", "manual"}
    <2>1. CASE RegisterExpires(k)
      BY <1>0, <2>1 DEF RegisterExpires, SweepCommits, SetStatus, Lapsed, PayRow
    <2>2. CASE RegisterInsert(k)
      BY <1>0, <2>2 DEF RegisterInsert, CreatePayment, NewPayment, storeVars
    <2>3. CASE RegisterSettle(k)
      <3>1. provider = "mock"
        BY <1>0, <2>3 DEF RegisterSettle, CallsOK, CallOK, At, SettlesAtOnce
      <3> QED
        BY <1>0, <2>3, <3>1 DEF RegisterSettle, ConfirmWithPayment, NewPayment, storeVars
    <2>4. CASE pay' = pay
      BY <2>4
    <2> QED
      BY <1>1, <2>1, <2>2, <2>3, <2>4 DEF Register, RegisterLookup, RegisterCheck, RegisterLock,
         RegisterFree, RegisterReserve, RegisterRefused, RegisterCheckout, RegisterUndo,
         RegisterRecord, RegisterFinish, RegisterSweep, SweepBegins, Create, Cancel, storeVars
  <1>2. ASSUME NEW k \in Calls, Handle(k)
        PROVE  Confirming(r) \/ pay'[r].provider \in {"mock", "manual"}
    <2>1. CASE CallExpires(k)
      BY <1>0, <2>1 DEF CallExpires, SweepCommits, SetStatus, Lapsed, PayRow
    <2>2. CASE VerifyConfirm(k)
      BY <1>0, <2>2 DEF VerifyConfirm, ConfirmStoredPayment, SetStatus, Confirming
    <2>3. CASE SubmitWrite(k)
      BY <1>0, <2>3 DEF SubmitWrite, SubmitManualPayment, SetStatus, storeVars, PayRow, NoPay
    <2>4. CASE ReviewWrite(k)
      <3>1. CASE pay' = pay
        BY <3>1
      <3>2. CASE FailManualPayment(call[k].reg)
        BY <1>0, <3>2 DEF FailManualPayment, UnderReview, SetStatus, PayRow, NoPay
      <3>3. CASE ApproveManualPayment(call[k].reg)
        BY <1>0, <3>3 DEF ApproveManualPayment, UnderReview, SetStatus, PayRow, NoPay
      <3> QED  BY <2>4, <3>1, <3>2, <3>3 DEF ReviewWrite, storeVars
    <2>5. CASE pay' = pay
      BY <2>5
    <2> QED
      BY <1>2, <2>1, <2>2, <2>3, <2>4, <2>5 DEF Handle, CancelRead, CheckInRead, VerifyRead,
         SubmitRead, ReviewRead, CancelHasCheckIn, CancelWrite, CheckInWrite, VerifyPoll, Notify,
         CallSweep, SweepBegins, Cancel, CheckIn, storeVars
  <1>3. ASSUME NEW w \in Workers, Reconcile(w)
        PROVE  Confirming(r)
    <2>1. CASE \E rows \in SUBSET Regs : JobClaim(w, rows)
      <3>1. PICK rows \in SUBSET Regs : ClaimPendingPayments(w, rows)
        BY <2>1 DEF JobClaim
      <3>2. r \in rows => pay[r].status = "PENDING" /\ pay[r] \in PayRow
        BY <1>0, <3>1 DEF ClaimPendingPayments, Claimable, NoPay
      <3> QED  BY <3>1, <3>2 DEF ClaimPendingPayments, PayRow
    <2>2. CASE JobExpire(w)
      BY <1>0, <2>2 DEF JobExpire, ExpireClaimedPayment, ClaimedBy, storeVars, PayRow, NoPay
    <2>3. CASE JobConfirm(w)
      BY <1>0, <2>3 DEF JobConfirm, ConfirmStoredPayment, SetStatus, Confirming, storeVars
    <2>4. CASE JobLater(w)
      BY <1>0, <2>4 DEF JobLater, SchedulePaymentReconciliation, ClaimedBy, storeVars, PayRow, NoPay
    <2>5. CASE pay' = pay
      BY <2>5
    <2> QED
      BY <1>3, <2>1, <2>2, <2>3, <2>4, <2>5 DEF Reconcile, JobStep, JobNext, JobDone, JobNotify,
         JobPoll, JobPollFails, storeVars
  <1>4. CASE \E q \in Regs : Clock(q)
    BY <1>0, <1>4 DEF Clock, PaymentLapses, LeaseEnds, ReconcileDue, PayRow, NoPay
  <1>5. CASE \/ \E q \in Regs, amount \in Settlements : BankTransfer(q, amount)
             \/ \E c \in Categories : LockExpires(c) \/ SetOpen(c)
             \/ \E c \in Categories, n \in 0..MaxCapacity : UpdateCapacity(c, n) /\ UNCHANGED serviceVars
             \/ \E u \in Users, key \in Keys : KeyExpires(u, key)
             \/ \E k \in Calls : CallFails(k)
             \/ \E w \in Workers : WorkerCrashes(w)
             \/ \E p \in Providers : Redeploy(p)
             \/ UNCHANGED vars
    BY <1>5 DEF BankTransfer, LockExpires, SetOpen, UpdateCapacity, KeyExpires, CallFails,
                WorkerCrashes, Redeploy, SweepRollsBack, storeVars, vars
  <1> QED
    BY <1>1, <1>2, <1>3, <1>4, <1>5 DEF Next, Environment

\* Whoever is about to confirm a payment has seen the exact amount at the bank.
TransferInv ==
    /\ \A r \in Regs : bank[r] # "none" => pay[r].status # "NONE" /\ pay[r].provider = "bakong"
    /\ \A r \in Regs : Confirming(r) => bank[r] = "exact"
    /\ SucceededMeansTransferred

LEMMA WhoConfirms ==
    ASSUME ServiceInv, [Next]_vars, NEW r \in Regs, Confirming(r)'
    PROVE  Confirming(r) \/ bank[r] = "exact"
  <1>0. /\ CallsOK /\ JobsOK /\ call \in [Calls -> CallState] /\ job \in [Workers -> JobState]
    BY ServiceInvParts DEF CallsOK, JobsOK
  <1>1. ASSUME NEW k \in Calls, call'[k].pc = "confirm", call'[k].reg = r
        PROVE  Confirming(r) \/ bank[r] = "exact"
    <2>1. CASE Waits(k)
      BY <1>1, <2>1 DEF Waits, Confirming, At
    <2>2. CASE Register(k)
      BY <1>0, <1>1, <2>2, RegisterMoves DEF EarlyPCs
    <2>3. CASE Handle(k)
      <3>1. VerifyPoll(k) /\ call[k].reg = r
        BY <1>0, <1>1, <2>3, HandleMoves
      <3>2. bank[r] = "exact"
        BY <1>0, <1>1, <3>1, GotoFields, ReturnFields DEF VerifyPoll
      <3> QED  BY <3>2
    <2> QED  BY <1>0, <2>1, <2>2, <2>3, CallStepIsOwn
  <1>2. ASSUME NEW w \in Workers, job'[w].pc = "confirm", job'[w].reg = r
        PROVE  Confirming(r) \/ bank[r] = "exact"
    <2>1. CASE job'[w] = IdleJob \/ job'[w] = job[w]
      BY <1>2, <2>1 DEF IdleJob, Confirming, JobAt
    <2>2. CASE Reconcile(w)
      <3>1. JobPoll(w) /\ job[w].reg = r
        BY <1>0, <1>2, <2>2, ReconcileMoves
      <3>2. bank[r] = "exact"
        BY <1>0, <1>2, <3>1, JobGotoFields DEF JobPoll
      <3> QED  BY <3>2
    <2> QED  BY <1>0, <2>1, <2>2, JobsOnlyReconcile
  <1> QED  BY <1>1, <1>2 DEF Confirming, At, JobAt

LEMMA TransferStep ==
    ASSUME ServiceInv, TransferInv, [Next]_vars
    PROVE  TransferInv'
  <1>0. StoreTypeOK /\ RestOK /\ [StoreNext]_storeVars
    BY ServiceInvParts, StepStore
  <1>1. ASSUME NEW r \in Regs
        PROVE  /\ bank[r] = "exact" => bank'[r] = "exact"
               /\ bank'[r] # "none" => pay[r].status # "NONE" /\ pay[r].provider = "bakong"
    BY <1>0, BankStep DEF BankTransfer, TransferInv, RestOK
  <1>2. ASSUME NEW r \in Regs, bank'[r] # "none"
        PROVE  pay'[r].status # "NONE" /\ pay'[r].provider = "bakong"
    BY <1>0, <1>1, <1>2, PaymentsStay DEF PaymentStays
  <1>3. ASSUME NEW r \in Regs, Confirming(r)'
        PROVE  bank'[r] = "exact"
    BY <1>1, <1>3, WhoConfirms DEF TransferInv
  <1>4. ASSUME NEW r \in Regs, pay'[r].status = "SUCCEEDED", pay'[r].provider = "bakong"
        PROVE  bank'[r] = "exact"
    <2>1. CASE pay[r].status = "SUCCEEDED"
      <3>1. pay[r].provider = "bakong"
        BY <1>0, <1>4, <2>1, PaymentsStay DEF PaymentStays
      <3> QED  BY <1>1, <2>1, <3>1 DEF TransferInv, SucceededMeansTransferred
    <2>2. CASE pay[r].status # "SUCCEEDED"
      BY <1>1, <1>4, <2>2, WhoSucceeds DEF TransferInv
    <2> QED  BY <2>1, <2>2
  <1> QED  BY <1>2, <1>3, <1>4 DEF TransferInv, SucceededMeansTransferred

LEMMA TransferInvariant == Spec => []TransferInv
  <1>1. Init => TransferInv
    BY DEF Init, StoreInit, TransferInv, Confirming, At, JobAt, IdleCall, IdleJob, NoPay,
           SucceededMeansTransferred
  <1> QED  BY <1>1, TransferStep, ServiceInvariant, PTL DEF Spec

\* A Bakong payment is recorded as succeeded only when the bank holds the exact amount,
\* although the check and the record are separate steps, of requests and of reconcilers
\* that may all look at the same payment, and whatever fails between them.
THEOREM SucceededIsTransferred == Spec => []SucceededMeansTransferred
  <1>1. TransferInv => SucceededMeansTransferred
    BY DEF TransferInv
  <1> QED  BY <1>1, TransferInvariant, PTL
-----------------------------------------------------------------------------
(* How a registration comes to be, and to wait or to be confirmed *)

\* A key that is used stays used, and only a request's own transaction uses one.
LEMMA WhoCreates ==
    ASSUME ServiceInv, [Next]_vars, NEW r \in Regs, reg[r].status = "NONE"
    PROVE  \/ reg'[r].status = "NONE"
           \/ \E k \in Calls : RegisterFree(k, r) \/ RegisterReserve(k, r)
  <1>0. StoreTypeOK /\ CallsOK /\ JobsOK
    BY ServiceInvParts
  <1>1. ASSUME NEW q \in Regs, NEW s, reg[q].status # "NONE", reg' = SetStatus(reg, {q}, s)
        PROVE  reg'[r].status = "NONE"
    BY <1>1 DEF SetStatus
  <1>2. ASSUME SweepCommits
        PROVE  reg'[r].status = "NONE"
    BY <1>2 DEF SweepCommits, SetStatus
  <1>3. ASSUME NEW k \in Calls, RegisterWritesReg(k) \/ HandleWritesReg(k)
        PROVE  reg'[r].status = "NONE" \/ RegisterFree(k, r) \/ RegisterReserve(k, r)
    <2>0. k \in Calls /\ CallOK(call[k])
      BY <1>0 DEF CallsOK
    <2> USE DEF CallOK, RowPCs, At
    <2>1. CASE RegisterExpires(k) \/ CallExpires(k)
      BY <1>2, <2>1 DEF RegisterExpires, CallExpires
    <2>2. ASSUME NEW q \in Regs, RegisterFree(k, q) \/ RegisterReserve(k, q)
          PROVE  q = r \/ reg'[r] = reg[r]
      BY <1>0, <2>2 DEF RegisterFree, RegisterReserve, Create, StoreTypeOK
    <2>3. CASE RegisterUndo(k) \/ CancelWrite(k)
      BY <1>1, <2>0, <2>3 DEF RegisterUndo, CancelWrite, Cancel, storeVars
    <2>4. CASE RegisterSettle(k)
      BY <1>1, <2>0, <2>4 DEF RegisterSettle, ConfirmWithPayment, storeVars
    <2>5. CASE VerifyConfirm(k)
      BY <1>1, <2>0, <2>5 DEF VerifyConfirm, ConfirmStoredPayment
    <2>6. CASE ReviewWrite(k)
      BY <1>1, <2>0, <2>6 DEF ReviewWrite, ApproveManualPayment, FailManualPayment, UnderReview,
                              storeVars
    <2> QED  BY <1>3, <2>1, <2>2, <2>3, <2>4, <2>5, <2>6 DEF RegisterWritesReg, HandleWritesReg
  <1>4. ASSUME NEW w \in Workers, JobExpire(w) \/ JobConfirm(w)
        PROVE  reg'[r].status = "NONE"
    <2>1. JobOK(job[w])
      BY <1>0 DEF JobsOK
    <2> QED  BY <1>1, <1>4, <2>1 DEF JobOK, JobAt, JobExpire, JobConfirm, ExpireClaimedPayment,
                                     ConfirmStoredPayment, storeVars
  <1> QED
    BY <1>3, <1>4, RegisterWrites, HandleWrites, ReconcileWrites, EnvironmentWrites DEF Next

\* Only a reservation makes a registration wait.
LEMMA WhoReserves ==
    ASSUME ServiceInv, [Next]_vars, NEW r \in Regs,
           reg'[r].status = "PENDING", reg[r].status # "PENDING"
    PROVE  \E k \in Calls : RegisterReserve(k, r)
  <1>0. StoreTypeOK /\ [StoreNext]_storeVars
    BY ServiceInvParts, StepStore
  <1>1. reg[r].status = "NONE"
    <2>1. CASE RowStep(r)
      BY <2>1 DEF RowStep
    <2>2. CASE Creates
      <3>1. PICK q \in Regs, u \in Users, c \in Categories : Create(q, u, c, c \in FreeCategories)
        BY <2>2 DEF Creates
      <3> QED  BY <1>0, <3>1, CreateRow
    <2> QED  BY <1>0, <2>1, <2>2, StepShape
  <1>2. ASSUME NEW k \in Calls, RegisterFree(k, r)
        PROVE  reg'[r].status = "CONFIRMED"
    BY <1>0, <1>2 DEF RegisterFree, Create, StoreTypeOK
  <1> QED  BY <1>1, <1>2, WhoCreates

\* A registration that is neither unused nor waiting never is again.
LEMMA Decided ==
    ASSUME ServiceInv, [Next]_vars, NEW r \in Regs, reg[r].status \notin {"NONE", "PENDING"}
    PROVE  reg'[r].status \notin {"NONE", "PENDING"}
  <1>0. StoreTypeOK /\ [StoreNext]_storeVars
    BY ServiceInvParts, StepStore
  <1>1. CASE RowStep(r)
    BY <1>1 DEF RowStep
  <1>2. CASE Creates
    <2>1. PICK q \in Regs, u \in Users, c \in Categories : Create(q, u, c, c \in FreeCategories)
      BY <1>2 DEF Creates
    <2> QED  BY <1>0, <2>1, CreateRow
  <1> QED  BY <1>0, <1>1, <1>2, StepShape

-----------------------------------------------------------------------------
(* A reservation has an owner until it has a payment *)

\* The requests that are still going to insert, settle or release reservation r.
Owns(k, r) == call[k].reg = r /\ call[k].pc \in {"checkout", "insert", "undo", "settle"}

OwnedInv ==
    \A r \in Regs :
        reg[r].status = "PENDING" /\ pay[r].status = "NONE" => \E k \in Calls : Owns(k, r)

\* An owner lets go of a reservation only by paying, confirming or cancelling it.
LEMMA OwnerStays ==
    ASSUME ServiceInv, [Next]_vars, Faults \cap {"call", "db", "redeploy"} = {},
           NEW k \in Calls, NEW r \in Regs, Owns(k, r),
           reg'[r].status = "PENDING", pay'[r].status = "NONE"
    PROVE  Owns(k, r)'
  <1>0. StoreTypeOK /\ CallsOK /\ "db" \notin Faults
    BY ServiceInvParts
  <1>1. CASE Waits(k)
    BY <1>1 DEF Waits, Owns
  <1>2. CASE Register(k)
    <2>1. CASE RegisterCheckout(k)
      <3>1. \E pc \in {"settle", "insert", "undo"} : Goto(k, pc)
        BY <2>1 DEF RegisterCheckout
      <3> QED  BY <1>0, <3>1, GotoFields DEF Owns
    <2>2. CASE RegisterInsert(k)
      <3>1. ~CreatePayment(r, provider)
        BY <1>0 DEF CreatePayment, NewPayment, StoreTypeOK
      <3> QED  BY <1>0, <2>2, <3>1 DEF RegisterInsert, Owns
    <2>3. CASE RegisterUndo(k)
      <3>1. ~Cancel(r)
        BY <1>0 DEF Cancel, SetStatus, StoreTypeOK, RegRow, NoReg
      <3> QED  BY <1>0, <2>3, <3>1 DEF RegisterUndo, Owns
    <2>4. CASE RegisterSettle(k)
      <3>1. ~ConfirmWithPayment(r, provider)
        BY <1>0 DEF ConfirmWithPayment, NewPayment, StoreTypeOK
      <3>2. UNCHANGED storeVars /\ reg[r].status # "PENDING"
        BY <1>0, <2>4, <3>1 DEF RegisterSettle, Owns
      <3> QED  BY <3>2 DEF storeVars
    <2> QED
      BY <1>2, <2>1, <2>2, <2>3, <2>4 DEF Register, Owns, At, RegisterLookup, RegisterSweep, RegisterExpires,
         RegisterCheck, RegisterLock, RegisterFree, RegisterReserve, RegisterRefused,
         RegisterRecord, RegisterFinish
  <1>3. ~Handle(k)
    BY DEF Handle, Owns, At, CancelRead, CheckInRead, VerifyRead, SubmitRead, ReviewRead, Start,
       CancelHasCheckIn, CancelWrite, CheckInWrite, VerifyPoll, VerifyConfirm, CallSweep, CallExpires,
       SubmitWrite, ReviewWrite, Notify
  <1> QED  BY <1>0, <1>1, <1>2, <1>3, CallStepIsOwn

LEMMA OwnedStep ==
    ASSUME ServiceInv, OwnedInv, [Next]_vars, Faults \cap {"call", "db", "redeploy"} = {}
    PROVE  OwnedInv'
  <1>0. StoreTypeOK /\ CallsOK /\ [StoreNext]_storeVars
    BY ServiceInvParts, StepStore
  <1> SUFFICES ASSUME NEW r \in Regs, reg'[r].status = "PENDING", pay'[r].status = "NONE"
               PROVE  \E k \in Calls : Owns(k, r)'
    BY DEF OwnedInv
  <1>1. pay[r].status = "NONE"
    BY <1>0, PaymentsStay DEF PaymentStays
  <1>2. CASE reg[r].status = "PENDING"
    BY <1>1, <1>2, OwnerStays DEF OwnedInv
  <1>3. CASE reg[r].status # "PENDING"
    <2>1. PICK k \in Calls : RegisterReserve(k, r)
      BY <1>3, WhoReserves
    <2>2. GotoWith(k, "checkout", r)
      BY <2>1 DEF RegisterReserve
    <2> QED  BY <1>0, <2>2, GotoWithFields DEF Owns
  <1> QED  BY <1>2, <1>3

\* No reservation is left without a payment row and without a request at work on it, as
\* long as requests run to their end and their own writes succeed; a provider that fails,
\* Redis failures and worker crashes are all allowed.  The hypothesis is needed: the run
\* ErrorLeavesReservation shows what a failed request leaves behind.
THEOREM ReservationsHaveOwners ==
    ASSUME Faults \cap {"call", "db", "redeploy"} = {}
    PROVE  Spec => []ReservationsAreOwned
  <1>1. Init => OwnedInv
    BY DEF Init, StoreInit, OwnedInv, NoReg
  <1>2. OwnedInv => ReservationsAreOwned
    BY DEF OwnedInv, ReservationsAreOwned, Owns, RegisterPCs
  <1>3. ServiceInv /\ OwnedInv /\ [Next]_vars => OwnedInv'
    BY OwnedStep
  <1> QED  BY <1>1, <1>2, <1>3, ServiceInvariant, PTL DEF Spec
-----------------------------------------------------------------------------
(* A confirmation is announced once *)

CallAnnounces(k, r) == At(k, "notify") /\ call[k].reg = r
JobAnnounces(w, r) == JobAt(w, "notify") /\ job[w].reg = r

Undecided(r) == reg[r].status \in {"NONE", "PENDING"}

\* Whoever is about to announce is alone, and nothing was announced before.
Announced(r) == (\E k \in Calls : CallAnnounces(k, r)) \/ (\E w \in Workers : JobAnnounces(w, r))

AnnounceOK(r) ==
    /\ \A k, l \in Calls : CallAnnounces(k, r) /\ CallAnnounces(l, r) => k = l
    /\ \A v, w \in Workers : JobAnnounces(v, r) /\ JobAnnounces(w, r) => v = w
    /\ \A k \in Calls, w \in Workers : ~(CallAnnounces(k, r) /\ JobAnnounces(w, r))
    /\ Announced(r) => notices[r] = 0 /\ ~Undecided(r)
    /\ Undecided(r) => notices[r] = 0
    /\ notices[r] <= 1

AnnounceInv == \A r \in Regs : AnnounceOK(r)

\* What a step does to the announcement of r: a confirmation begins it, the notice ends
\* it, and everything else passes it by.
Begins(r) ==
    /\ Undecided(r) /\ reg'[r].status = "CONFIRMED"
    /\ notices'[r] = notices[r]
Ends(r) == notices'[r] = (IF notices[r] < NoticeBound THEN notices[r] + 1 ELSE notices[r])
Passes(r) ==
    /\ notices'[r] = notices[r]
    /\ reg'[r].status = "CONFIRMED" => reg[r].status = "CONFIRMED"

\* A transaction that confirms q and nothing else.
Confirms(q) ==
    /\ Undecided(q) /\ reg'[q].status = "CONFIRMED"
    /\ \A r \in Regs \ {q} : reg'[r] = reg[r]

LEMMA ConfirmingTransactions ==
    ASSUME StoreTypeOK, NEW q \in Regs, NEW p,
           \/ ConfirmWithPayment(q, p) \/ ApproveManualPayment(q)
           \/ ConfirmStoredPayment(q) /\ reg[q].status = "PENDING"
    PROVE  Confirms(q)
  <1>1. reg' = SetStatus(reg, {q}, "CONFIRMED") /\ reg[q].status = "PENDING"
    BY DEF ConfirmWithPayment, ApproveManualPayment, UnderReview, ConfirmStoredPayment
  <1>2. reg[q] \in RegRow
    BY <1>1 DEF StoreTypeOK, NoReg
  <1> QED  BY <1>1, <1>2 DEF SetStatus, Confirms, Undecided, RegRow

\* The other transactions confirm nothing.
ConfirmsNothing == \A r \in Regs : reg'[r].status = "CONFIRMED" => reg[r].status = "CONFIRMED"

LEMMA OtherTransactions ==
    ASSUME StoreTypeOK, NEW q \in Regs,
           \/ reg' = reg \/ SweepCommits \/ Cancel(q) \/ FailManualPayment(q)
           \/ \E w \in Workers : ExpireClaimedPayment(w, q)
           \/ ConfirmStoredPayment(q) /\ reg[q].status # "PENDING"
    PROVE  ConfirmsNothing
  <1> USE DEF ConfirmsNothing
  <1>0. reg \in [Regs -> RegRow \cup {NoReg}]
    BY DEF StoreTypeOK
  <1>1. ASSUME NEW rows \in SUBSET Regs, NEW s \in {"CANCELLED", "EXPIRED"},
               reg' = SetStatus(reg, rows, s), \A r \in rows : reg[r].status # "NONE"
        PROVE  ConfirmsNothing
    <2>1. ASSUME NEW r \in rows
          PROVE  reg'[r].status = s
      <3>1. reg[r] \in RegRow /\ reg'[r] = [reg[r] EXCEPT !.status = s]
        BY <1>0, <1>1 DEF SetStatus, NoReg
      <3> QED  BY <3>1 DEF RegRow
    <2>2. ASSUME NEW r \in Regs \ rows
          PROVE  reg'[r] = reg[r]
      BY <1>1 DEF SetStatus
    <2> QED  BY <2>1, <2>2
  <1>2. CASE SweepCommits
    <2>1. {r \in due : reg[r].status = "PENDING"} \in SUBSET Regs
      BY DEF StoreTypeOK
    <2> QED  BY <1>1, <1>2, <2>1 DEF SweepCommits
  <1> {q} \in SUBSET Regs
    OBVIOUS
  <1>3. CASE Cancel(q)
    BY <1>1, <1>3 DEF Cancel
  <1>4. CASE FailManualPayment(q)
    <2>1. reg' = SetStatus(reg, {q}, "EXPIRED") /\ reg[q].status # "NONE"
      BY <1>4 DEF FailManualPayment, UnderReview
    <2> QED  BY <1>1, <2>1
  <1>5. ASSUME NEW w \in Workers, ExpireClaimedPayment(w, q)
        PROVE  ConfirmsNothing
    <2>1. \/ reg' = SetStatus(reg, {q}, "EXPIRED") /\ reg[q].status # "NONE"
          \/ reg' = reg
      BY <1>5 DEF ExpireClaimedPayment
    <2> QED  BY <1>1, <2>1
  <1>6. CASE ConfirmStoredPayment(q) /\ reg[q].status # "PENDING"
    BY <1>6 DEF ConfirmStoredPayment
  <1> QED  BY <1>2, <1>3, <1>4, <1>5, <1>6

\* A request's own step begins an announcement, which it will make, or makes it, or has
\* nothing to do with it.
LEMMA CallTurn ==
    ASSUME ServiceInv, NEW k \in Calls, Register(k) \/ Handle(k), NEW r \in Regs
    PROVE  \/ Begins(r) /\ CallAnnounces(k, r)'
           \/ Ends(r) /\ reg' = reg /\ CallAnnounces(k, r) /\ ~CallAnnounces(k, r)'
           \/ Passes(r) /\ ~CallAnnounces(k, r) /\ ~CallAnnounces(k, r)'
  <1>0. StoreTypeOK /\ CallsOK /\ RestOK /\ CallOK(call[k])
    BY ServiceInvParts DEF CallsOK
  <1> USE DEF CallAnnounces, At
  <1>1. ASSUME NEW q \in Regs, Confirms(q), UNCHANGED notices, call[k].pc # "notify",
               call'[k].pc = "notify", call'[k].reg = q
        PROVE  \/ Begins(r) /\ CallAnnounces(k, r)'
               \/ Passes(r) /\ ~CallAnnounces(k, r) /\ ~CallAnnounces(k, r)'
    BY <1>1 DEF Confirms, Begins, Passes
  <1>2. ASSUME ConfirmsNothing, UNCHANGED notices, call[k].pc # "notify", call'[k].pc # "notify"
        PROVE  Passes(r) /\ ~CallAnnounces(k, r) /\ ~CallAnnounces(k, r)'
    BY <1>2 DEF ConfirmsNothing, Passes
  <1>3. CASE Register(k)
    <2>0. /\ UNCHANGED notices
          /\ call[k].pc # "notify"
      BY <1>3, RegisterWrites DEF Register, RegisterLookup, RegisterSweep, RegisterExpires, RegisterCheck, RegisterLock,
         RegisterFree, RegisterReserve, RegisterRefused, RegisterCheckout, RegisterInsert,
         RegisterUndo, RegisterSettle, RegisterRecord, RegisterFinish
    <2>1. ASSUME NEW q \in Regs, RegisterFree(k, q)
          PROVE  Confirms(q) /\ call'[k].pc = "notify" /\ call'[k].reg = q
      BY <1>0, <2>1, GotoWithFields DEF RegisterFree, Create, Confirms, Undecided, StoreTypeOK
    <2>2. ASSUME NEW q \in Regs, RegisterReserve(k, q)
          PROVE  ConfirmsNothing /\ call'[k].pc # "notify"
      BY <1>0, <2>2, GotoWithFields DEF RegisterReserve, Create, ConfirmsNothing, StoreTypeOK
    <2>3. CASE RegisterSettle(k)
      <3>0. call[k].reg \in Regs /\ call'[k].reg = call[k].reg
        BY <1>0, <2>3, GotoFields DEF RegisterSettle, CallOK, RowPCs
      <3>1. CASE ConfirmWithPayment(call[k].reg, provider) /\ Goto(k, "notify")
        BY <1>0, <1>1, <2>0, <3>0, <3>1, ConfirmingTransactions, GotoFields
      <3>2. CASE reg' = reg /\ Goto(k, "finish")
        BY <1>0, <1>2, <2>0, <3>2, OtherTransactions, GotoFields
      <3> QED  BY <2>3, <3>1, <3>2 DEF RegisterSettle, storeVars
    <2>4. ASSUME ~RegisterSettle(k), \A q \in Regs : ~RegisterFree(k, q) /\ ~RegisterReserve(k, q)
          PROVE  ConfirmsNothing /\ call'[k].pc # "notify"
      <3>1. call'[k].pc # "notify"
        BY <1>0, <1>3, <2>4, RegisterMoves
      <3>2. CASE RegisterExpires(k) \/ reg' = reg
        <4>1. SweepCommits \/ reg' = reg
          BY <3>2 DEF RegisterExpires
        <4> QED  BY <1>0, <3>1, <4>1, OtherTransactions
      <3>3. CASE RegisterUndo(k) /\ reg' # reg
        <4>1. Cancel(call[k].reg) /\ call[k].reg \in Regs
          BY <1>0, <3>3 DEF RegisterUndo, CallOK, RowPCs, storeVars
        <4> QED  BY <1>0, <3>1, <4>1, OtherTransactions
      <3> QED
        BY <1>3, <2>4, <3>1, <3>2, <3>3, RegisterWrites DEF RegisterWritesReg
    <2> QED  BY <1>1, <1>2, <2>0, <2>1, <2>2, <2>3, <2>4
  <1>4. CASE Handle(k)
    <2>1. CASE Notify(k)
      <3>1. Goto(k, "record") \/ Goto(k, "finish")
        BY <2>1 DEF Notify
      <3> QED
        BY <1>0, <2>1, <3>1, GotoFields DEF Notify, OneMoreNotice, Ends, Passes, RestOK, storeVars
    <2>2. CASE VerifyConfirm(k)
      <3>0. call[k].reg \in Regs /\ notices' = notices /\ call[k].pc # "notify"
        BY <1>0, <2>2 DEF VerifyConfirm, CallOK, RowPCs, OnlyCall
      <3>1. CASE reg[call[k].reg].status = "PENDING"
        BY <1>0, <1>1, <2>2, <3>0, <3>1, ConfirmingTransactions, GotoFields DEF VerifyConfirm
      <3>2. CASE reg[call[k].reg].status # "PENDING"
        BY <1>0, <1>2, <2>2, <3>0, <3>2, OtherTransactions, ReturnFields DEF VerifyConfirm
      <3> QED  BY <3>1, <3>2
    <2>3. CASE ReviewWrite(k)
      <3>0. call[k].reg \in Regs /\ notices' = notices /\ call[k].pc # "notify"
        BY <1>0, <2>3 DEF ReviewWrite, CallOK, RowPCs, OnlyCall
      <3>1. CASE ApproveManualPayment(call[k].reg) /\ Goto(k, "notify")
        BY <1>0, <1>1, <3>0, <3>1, ConfirmingTransactions, GotoFields
      <3>2. CASE (FailManualPayment(call[k].reg) \/ reg' = reg) /\ Return(k)
        BY <1>0, <1>2, <3>0, <3>2, OtherTransactions, ReturnFields
      <3> QED  BY <2>3, <3>1, <3>2 DEF ReviewWrite, storeVars
    <2>4. ASSUME ~Notify(k), ~VerifyConfirm(k), ~ReviewWrite(k)
          PROVE  Passes(r) /\ ~CallAnnounces(k, r) /\ ~CallAnnounces(k, r)'
      <3>1. call'[k].pc # "notify" /\ notices' = notices
        BY <1>0, <1>4, <2>4, HandleMoves, HandleWrites
      <3>2. call[k].pc # "notify"
        BY <1>4, <2>4 DEF Handle, CancelRead, CheckInRead, VerifyRead, SubmitRead, ReviewRead, Start,
           CancelHasCheckIn, CancelWrite, CheckInWrite, VerifyPoll, CallSweep, CallExpires, SubmitWrite
      <3>3. CASE CallExpires(k) \/ reg' = reg
        <4>1. SweepCommits \/ reg' = reg
          BY <3>3 DEF CallExpires
        <4> QED  BY <1>0, <1>2, <3>1, <3>2, <4>1, OtherTransactions
      <3>4. CASE CancelWrite(k)
        <4>1. Cancel(call[k].reg) /\ call[k].reg \in Regs
          BY <1>0, <3>4 DEF CancelWrite, CallOK, RowPCs
        <4> QED  BY <1>0, <1>2, <3>1, <3>2, <4>1, OtherTransactions
      <3> QED
        BY <1>2, <1>4, <2>4, <3>1, <3>2, <3>3, <3>4, HandleWrites DEF HandleWritesReg
    <2> QED  BY <2>1, <2>2, <2>3, <2>4
  <1> QED  BY <1>3, <1>4
LEMMA JobTurn ==
    ASSUME ServiceInv, NEW w \in Workers, Reconcile(w), NEW r \in Regs
    PROVE  \/ Begins(r) /\ JobAnnounces(w, r)'
           \/ Ends(r) /\ reg' = reg /\ JobAnnounces(w, r) /\ ~JobAnnounces(w, r)'
           \/ Passes(r) /\ ~JobAnnounces(w, r) /\ ~JobAnnounces(w, r)'
  <1>0. StoreTypeOK /\ JobsOK /\ RestOK /\ JobOK(job[w])
    BY ServiceInvParts DEF JobsOK
  <1> USE DEF JobAnnounces, JobAt
  <1>1. CASE JobNotify(w)
    BY <1>0, <1>1, JobGotoFields DEF JobNotify, OneMoreNotice, Ends, Passes, RestOK, storeVars
  <1>2. CASE JobConfirm(w)
    <2>0. job[w].reg \in Regs /\ notices' = notices /\ job[w].pc = "confirm"
      BY <1>0, <1>2 DEF JobConfirm, JobOK, OnlyJob
    <2>1. CASE /\ ConfirmStoredPayment(job[w].reg) /\ reg[job[w].reg].status = "PENDING"
               /\ JobGoto(w, "notify")
      <3>1. Confirms(job[w].reg)
        BY <1>0, <2>0, <2>1, ConfirmingTransactions
      <3> QED  BY <1>0, <2>0, <2>1, <3>1, JobGotoFields DEF Confirms, Begins, Passes
    <2>2. CASE /\ ConfirmStoredPayment(job[w].reg) /\ reg[job[w].reg].status # "PENDING"
               /\ JobGoto(w, "next")
      <3>1. ConfirmsNothing
        BY <1>0, <2>0, <2>2, OtherTransactions
      <3> QED  BY <1>0, <2>0, <2>2, <3>1, JobGotoFields DEF ConfirmsNothing, Passes
    <2>3. CASE reg' = reg /\ JobGoto(w, "later")
      BY <1>0, <2>0, <2>3, JobGotoFields DEF Passes
    <2> QED  BY <1>2, <2>1, <2>2, <2>3 DEF JobConfirm, storeVars
  <1>3. ASSUME ~JobNotify(w), ~JobConfirm(w)
        PROVE  Passes(r) /\ ~JobAnnounces(w, r) /\ ~JobAnnounces(w, r)'
    <2>1. job'[w].pc # "notify" /\ notices' = notices
      BY <1>0, <1>3, ReconcileMoves, ReconcileWrites
    <2>2. job[w].pc # "notify"
      BY <1>3 DEF Reconcile, JobStep, JobClaim, JobNext, JobDone, JobExpire, JobLater, JobPoll,
                  JobPollFails
    <2>3. ConfirmsNothing
      <3>1. CASE JobExpire(w)
        <4>1. job[w].reg \in Regs /\ (ExpireClaimedPayment(w, job[w].reg) \/ reg' = reg)
          BY <1>0, <3>1 DEF JobExpire, JobOK, storeVars
        <4> QED  BY <1>0, <4>1, OtherTransactions
      <3>2. CASE reg' = reg
        BY <3>2 DEF ConfirmsNothing
      <3> QED  BY <1>3, <3>1, <3>2, ReconcileWrites
    <2> QED  BY <2>1, <2>2, <2>3 DEF ConfirmsNothing, Passes
  <1> QED  BY <1>1, <1>2, <1>3

\* The step of one request or one pass leaves the other announcers where they are; any
\* other step can only drop them.
CallTakesTurn(k, r) ==
    /\ \A q \in Calls \ {k} : CallAnnounces(q, r)' = CallAnnounces(q, r)
    /\ \A w \in Workers : JobAnnounces(w, r)' = JobAnnounces(w, r)
    /\ \/ Begins(r) /\ CallAnnounces(k, r)'
       \/ Ends(r) /\ reg' = reg /\ CallAnnounces(k, r) /\ ~CallAnnounces(k, r)'
       \/ Passes(r) /\ ~CallAnnounces(k, r) /\ ~CallAnnounces(k, r)'

JobTakesTurn(w, r) ==
    /\ \A v \in Workers \ {w} : JobAnnounces(v, r)' = JobAnnounces(v, r)
    /\ \A k \in Calls : CallAnnounces(k, r)' = CallAnnounces(k, r)
    /\ \/ Begins(r) /\ JobAnnounces(w, r)'
       \/ Ends(r) /\ reg' = reg /\ JobAnnounces(w, r) /\ ~JobAnnounces(w, r)'
       \/ Passes(r) /\ ~JobAnnounces(w, r) /\ ~JobAnnounces(w, r)'

NobodysTurn(r) ==
    /\ Passes(r)
    /\ \A k \in Calls : CallAnnounces(k, r)' => CallAnnounces(k, r)
    /\ \A w \in Workers : JobAnnounces(w, r)' => JobAnnounces(w, r)
    /\ Faults \cap {"call", "worker", "redeploy"} = {} =>
          /\ \A k \in Calls : CallAnnounces(k, r) => CallAnnounces(k, r)'
          /\ \A w \in Workers : JobAnnounces(w, r) => JobAnnounces(w, r)'

LEMMA Turns ==
    ASSUME ServiceInv, [Next]_vars, NEW r \in Regs
    PROVE  \/ \E k \in Calls : CallTakesTurn(k, r)
           \/ \E w \in Workers : JobTakesTurn(w, r)
           \/ NobodysTurn(r)
  <1>0. CallsOK /\ JobsOK /\ job \in [Workers -> JobState]
    BY ServiceInvParts DEF JobsOK
  <1> USE DEF CallAnnounces, JobAnnounces, At, JobAt
  <1>1. ASSUME NEW k \in Calls, Register(k) \/ Handle(k)
        PROVE  CallTakesTurn(k, r)
    <2>1. /\ \A q \in Calls \ {k} : call'[q] = call[q]
          /\ job' = job
      BY <1>0, <1>1, CallsMoveAlone, RegisterWrites, HandleWrites
    <2> QED  BY <1>1, <2>1, CallTurn DEF CallTakesTurn
  <1>2. ASSUME NEW w \in Workers, Reconcile(w)
        PROVE  JobTakesTurn(w, r)
    <2>1. /\ \A v \in Workers \ {w} : job'[v] = job[v]
          /\ call' = call
      BY <1>0, <1>2, JobsMoveAlone, ReconcileWrites
    <2> QED  BY <1>2, <2>1, JobTurn DEF JobTakesTurn
  <1>3. ASSUME Environment \/ UNCHANGED vars
        PROVE  NobodysTurn(r)
    <2>1. Passes(r)
      BY <1>3, EnvironmentWrites DEF Passes
    <2>2. ASSUME NEW k \in Calls
          PROVE  /\ CallAnnounces(k, r)' => CallAnnounces(k, r)
                 /\ Faults \cap {"call", "worker", "redeploy"} = {} =>
                       (CallAnnounces(k, r) => CallAnnounces(k, r)')
      BY <1>0, <1>3, EnvironmentWaits DEF Waits
    <2>3. ASSUME NEW w \in Workers
          PROVE  /\ JobAnnounces(w, r)' => JobAnnounces(w, r)
                 /\ Faults \cap {"call", "worker", "redeploy"} = {} =>
                       (JobAnnounces(w, r) => JobAnnounces(w, r)')
      <3>1. \/ job'[w] = job[w]
            \/ job'[w] = IdleJob /\ Faults \cap {"worker", "redeploy"} # {}
        BY <1>0, <1>3, EnvironmentWrites DEF WorkerCrashes, Redeploy
      <3> QED  BY <3>1 DEF IdleJob
    <2> QED  BY <2>1, <2>2, <2>3 DEF NobodysTurn
  <1> QED  BY <1>1, <1>2, <1>3 DEF Next

LEMMA AnnounceStep ==
    ASSUME ServiceInv, AnnounceInv, [Next]_vars
    PROVE  AnnounceInv'
  <1>0. notices \in [Regs -> 0..NoticeBound]
    BY ServiceInvParts DEF RestOK
  <1> SUFFICES ASSUME NEW r \in Regs
               PROVE  AnnounceOK(r)'
    BY DEF AnnounceInv
  <1>1. AnnounceOK(r) /\ notices[r] \in Nat
    BY <1>0 DEF AnnounceInv
  <1>2. Undecided(r)' => Undecided(r)
    BY Decided DEF Undecided
  <1>3. ASSUME Begins(r), \A k \in Calls : ~CallAnnounces(k, r), \A w \in Workers : ~JobAnnounces(w, r)
        PROVE  notices'[r] = 0 /\ ~Undecided(r)'
    BY <1>1, <1>3 DEF Begins, AnnounceOK, Undecided
  <1>4. ASSUME NEW k \in Calls, CallTakesTurn(k, r)
        PROVE  AnnounceOK(r)'
    <2>1. CASE Begins(r)
      <3>1. ~Announced(r)
        BY <1>1, <2>1 DEF AnnounceOK, Begins
      <3> QED  BY <1>3, <1>4, <2>1, <3>1 DEF AnnounceOK, Announced, CallTakesTurn
    <2>2. CASE Ends(r) /\ reg' = reg /\ CallAnnounces(k, r) /\ ~CallAnnounces(k, r)'
      <3>1. notices'[r] = 1 /\ ~Undecided(r)'
        BY <1>1, <1>2, <2>2 DEF AnnounceOK, Announced, Ends, NoticeBound
      <3>2. ~Announced(r)'
        BY <1>1, <1>4, <2>2 DEF AnnounceOK, Announced, CallTakesTurn
      <3> QED  BY <3>1, <3>2 DEF AnnounceOK, Announced
    <2>3. CASE Passes(r) /\ ~CallAnnounces(k, r) /\ ~CallAnnounces(k, r)'
      BY <1>1, <1>2, <1>4, <2>3 DEF AnnounceOK, Announced, CallTakesTurn, Passes
    <2> QED  BY <1>4, <2>1, <2>2, <2>3 DEF CallTakesTurn
  <1>5. ASSUME NEW w \in Workers, JobTakesTurn(w, r)
        PROVE  AnnounceOK(r)'
    <2>1. CASE Begins(r)
      <3>1. ~Announced(r)
        BY <1>1, <2>1 DEF AnnounceOK, Begins
      <3> QED  BY <1>3, <1>5, <2>1, <3>1 DEF AnnounceOK, Announced, JobTakesTurn
    <2>2. CASE Ends(r) /\ reg' = reg /\ JobAnnounces(w, r) /\ ~JobAnnounces(w, r)'
      <3>1. notices'[r] = 1 /\ ~Undecided(r)'
        BY <1>1, <1>2, <2>2 DEF AnnounceOK, Announced, Ends, NoticeBound
      <3>2. ~Announced(r)'
        BY <1>1, <1>5, <2>2 DEF AnnounceOK, Announced, JobTakesTurn
      <3> QED  BY <3>1, <3>2 DEF AnnounceOK, Announced
    <2>3. CASE Passes(r) /\ ~JobAnnounces(w, r) /\ ~JobAnnounces(w, r)'
      BY <1>1, <1>2, <1>5, <2>3 DEF AnnounceOK, Announced, JobTakesTurn, Passes
    <2> QED  BY <1>5, <2>1, <2>2, <2>3 DEF JobTakesTurn
  <1>6. CASE NobodysTurn(r)
    BY <1>1, <1>2, <1>6 DEF AnnounceOK, Announced, NobodysTurn, Passes
  <1> QED  BY <1>4, <1>5, <1>6, Turns

LEMMA AnnounceInvariant == Spec => []AnnounceInv
  <1>1. Init => AnnounceInv
    BY DEF Init, StoreInit, AnnounceInv, AnnounceOK, Announced, CallAnnounces, JobAnnounces, At,
           JobAt, IdleCall, IdleJob
  <1>2. ServiceInv /\ AnnounceInv /\ [Next]_vars => AnnounceInv'
    BY AnnounceStep
  <1> QED  BY <1>1, <1>2, ServiceInvariant, PTL DEF Spec

\* However many requests and passes find the same payment settled, and whatever fails, a
\* registration is announced as confirmed at most once (the first half of
\* AnnouncedExactlyOnce, with no hypothesis on the failures).
THEOREM AnnouncedAtMostOnce == Spec => [](\A r \in Regs : notices[r] <= 1)
  <1>1. AnnounceInv => \A r \in Regs : notices[r] <= 1
    BY DEF AnnounceInv, AnnounceOK
  <1> QED  BY <1>1, AnnounceInvariant, PTL

\* A confirmed registration that has not been announced is about to be.
ConfirmedInv == \A r \in Regs : reg[r].status = "CONFIRMED" /\ notices[r] = 0 => Announced(r)

LEMMA ConfirmedStep ==
    ASSUME ServiceInv, AnnounceInv, ConfirmedInv, [Next]_vars,
           Faults \cap {"call", "worker", "redeploy"} = {}
    PROVE  ConfirmedInv'
  <1>0. notices \in [Regs -> 0..NoticeBound]
    BY ServiceInvParts DEF RestOK
  <1> SUFFICES ASSUME NEW r \in Regs, reg'[r].status = "CONFIRMED", notices'[r] = 0
               PROVE  Announced(r)'
    BY DEF ConfirmedInv
  <1>1. ~Ends(r)
    BY <1>0 DEF Ends, NoticeBound
  <1>2. CASE Passes(r)
    <2>1. Announced(r)
      BY <1>2 DEF ConfirmedInv, Passes
    <2> QED
      BY <1>1, <1>2, <2>1, Turns DEF Announced, CallTakesTurn, JobTakesTurn, NobodysTurn, Begins,
                                      Undecided, Passes
  <1>3. CASE ~Passes(r)
    BY <1>1, <1>3, Turns DEF Announced, CallTakesTurn, JobTakesTurn, NobodysTurn
  <1> QED  BY <1>2, <1>3

\* As long as no request, worker or deployment dies in between, every confirmation is
\* announced, exactly once: a provider, database or Redis failure does not lose it.
THEOREM ConfirmationsAreAnnounced ==
    ASSUME Faults \cap {"call", "worker", "redeploy"} = {}
    PROVE  Spec => []AnnouncedExactlyOnce
  <1>1. Init => ConfirmedInv
    BY DEF Init, StoreInit, ConfirmedInv, NoReg
  <1>2. AnnounceInv /\ ConfirmedInv => AnnouncedExactlyOnce
    BY DEF AnnounceInv, AnnounceOK, ConfirmedInv, AnnouncedExactlyOnce, Announced, CallAnnounces,
           JobAnnounces
  <1>3. ServiceInv /\ AnnounceInv /\ ConfirmedInv /\ [Next]_vars => ConfirmedInv'
    BY ConfirmedStep
  <1> QED  BY <1>1, <1>2, <1>3, ServiceInvariant, AnnounceInvariant, PTL DEF Spec
-----------------------------------------------------------------------------
(* An idempotent outcome stands *)

\* No key is recorded for a registration that does not exist yet.
KeyInv == \A r \in Regs : reg[r].status = "NONE" => keyOf[r] = None

LEMMA KeyStep ==
    ASSUME ServiceInv, KeyInv, [Next]_vars
    PROVE  KeyInv'
  <1> SUFFICES ASSUME NEW r \in Regs, reg'[r].status = "NONE"
               PROVE  keyOf'[r] = None
    BY DEF KeyInv
  <1>0. StoreTypeOK /\ keyOf \in [Regs -> Keys \cup {None}]
    BY ServiceInvParts DEF RestOK
  <1>1. reg[r].status = "NONE"
    <2>1. CASE reg[r].status = "PENDING"
      <3>1. [StoreNext]_storeVars
        BY StepStore
      <3>2. CASE RowStep(r)
        BY <2>1, <3>2 DEF RowStep
      <3>3. CASE Creates
        <4>1. PICK q \in Regs, u \in Users, c \in Categories : Create(q, u, c, c \in FreeCategories)
          BY <3>3 DEF Creates
        <4> QED  BY <1>0, <2>1, <4>1, CreateRow
      <3> QED  BY <1>0, <3>1, <3>2, <3>3, StepShape
    <2> QED  BY <2>1, Decided
  <1>2. ASSUME NEW k \in Calls, NEW q \in Regs, RegisterFree(k, q) \/ RegisterReserve(k, q)
        PROVE  keyOf'[r] = keyOf[r]
    <2>1. reg'[q].status # "NONE"
      BY <1>0, <1>2 DEF RegisterFree, RegisterReserve, Create, StoreTypeOK
    <2> QED  BY <1>0, <1>2, <2>1 DEF RegisterFree, RegisterReserve
  <1>3. ASSUME NEW k \in Calls, RegisterRecord(k)
        PROVE  keyOf' = keyOf
    BY <1>3 DEF RegisterRecord
  <1>4. keyOf'[r] = keyOf[r]
    BY <1>2, <1>3, RegisterWrites, HandleWrites, ReconcileWrites, EnvironmentWrites DEF Next
  <1> QED  BY <1>1, <1>4 DEF KeyInv

\* Recording an outcome never replaces one, and leaves one where there was none.
LEMMA StoredStands ==
    ASSUME RestOK, NEW u, NEW key, NEW r \in Regs, NEW v \in Users, NEW other \in Keys
    PROVE  /\ idem[v][other] # None => Stored(u, key, r)[v][other] = idem[v][other]
           /\ v = u /\ other = key => Stored(u, key, r)[v][other] # None
  BY ServiceAssumption DEF RestOK, Stored

LEMMA OutcomeStep ==
    ASSUME ServiceInv, KeyInv, [Next]_vars
    PROVE  /\ \A r \in Regs :
                 keyOf'[r] # keyOf[r] /\ reg'[r].cat \in FreeCategories
                     => idem'[reg'[r].user][keyOf'[r]] # None
           /\ \A u \in Users, key \in Keys :
                 idem[u][key] # None => idem'[u][key] \in {idem[u][key], None}
  <1>0. StoreTypeOK /\ CallsOK /\ RestOK
    BY ServiceInvParts
  <1>1. ASSUME NEW r \in Regs, keyOf'[r] # keyOf[r], reg'[r].cat \in FreeCategories
        PROVE  idem'[reg'[r].user][keyOf'[r]] # None
    <2>1. PICK k \in Calls, q \in Regs : RegisterFree(k, q) \/ RegisterReserve(k, q)
      BY <1>1, RegisterWrites, HandleWrites, ReconcileWrites, EnvironmentWrites
         DEF Next, RegisterRecord
    <2>2. /\ q = r /\ keyOf'[r] = call[k].key /\ reg[r].status = "NONE"
          /\ reg'[r].user = call[k].user /\ reg'[r].cat = call[k].cat
      BY <1>0, <1>1, <2>1 DEF RegisterFree, RegisterReserve, Create, RestOK, StoreTypeOK
    <2>3. RegisterFree(k, r)
      BY <1>1, <2>1, <2>2 DEF RegisterReserve
    <2>4. call[k].key \in Keys /\ call[k].user \in Users
      <3>1. call[k] \in CallState /\ CallOK(call[k]) /\ call[k].pc = "create"
        BY <1>0, <2>3 DEF CallsOK, RegisterFree, At
      <3> QED  BY <1>1, <2>2, <3>1 DEF KeyInv, CallState, CallOK, EarlyPCs
    <2> QED  BY <1>0, <2>2, <2>3, <2>4, StoredStands DEF RegisterFree
  <1>2. ASSUME NEW u \in Users, NEW key \in Keys, idem[u][key] # None
        PROVE  idem'[u][key] \in {idem[u][key], None}
    <2>1. ASSUME NEW k \in Calls, NEW r \in Regs, RegisterFree(k, r) \/ RegisterReserve(k, r)
          PROVE  idem'[u][key] = idem[u][key]
      <3>1. idem' = idem \/ idem' = Stored(call[k].user, call[k].key, r)
        BY <2>1 DEF RegisterFree, RegisterReserve
      <3> QED  BY <1>0, <1>2, <3>1, StoredStands
    <2>2. ASSUME NEW k \in Calls, RegisterRecord(k)
          PROVE  idem'[u][key] = idem[u][key]
      <3>1. call[k].reg \in Regs
        BY <1>0, <2>2 DEF CallsOK, CallOK, RowPCs, RegisterRecord, At
      <3> QED  BY <1>0, <1>2, <2>2, <3>1, StoredStands DEF RegisterRecord
    <2>3. ASSUME NEW v \in Users, NEW other \in Keys, KeyExpires(v, other)
          PROVE  idem'[u][key] \in {idem[u][key], None}
      BY <1>0, <2>3 DEF KeyExpires, RestOK
    <2>4. CASE idem' = idem
      BY <2>4
    <2> QED
      BY <2>1, <2>2, <2>3, <2>4, RegisterWrites, HandleWrites, ReconcileWrites, EnvironmentWrites
         DEF Next
  <1> QED  BY <1>1, <1>2

\* A free registration made under a key commits with its outcome, and no request ever
\* replaces an outcome a retry could have been answered with, whatever fails.
THEOREM OutcomesAreKept == Spec => OutcomesStand
  <1>1. Init => KeyInv
    BY DEF Init, KeyInv
  <1>2. ServiceInv /\ KeyInv /\ [Next]_vars => KeyInv'
    BY KeyStep
  <1>3. ServiceInv /\ KeyInv /\ [Next]_vars =>
          [/\ \A r \in Regs :
                 keyOf'[r] # keyOf[r] /\ reg'[r].cat \in FreeCategories
                     => idem'[reg'[r].user][keyOf'[r]] # None
           /\ \A u \in Users, key \in Keys :
                 idem[u][key] # None => idem'[u][key] \in {idem[u][key], None}]_vars
    BY OutcomeStep
  <1> QED  BY <1>1, <1>2, <1>3, ServiceInvariant, PTL DEF Spec, OutcomesStand

-----------------------------------------------------------------------------
(* A live lease is exclusive *)

\* The part of LeaseIsExclusive that concerns payment r and worker w.
LeaseKept(r, w) == pay'[r].status # "PENDING" \/ pay'[r].worker = w

LEMMA LeaseStep ==
    ASSUME ServiceInv, [Next]_vars, NEW r \in Regs, NEW w \in Workers,
           pay[r].status = "PENDING", pay[r].leased, pay[r].worker = w, job'[w] = job[w]
    PROVE  LeaseKept(r, w)
  <1>0. StoreTypeOK /\ JobsOK /\ pay \in [Regs -> PayRow \cup {NoPay}] /\ pay[r] \in PayRow
    BY ServiceInvParts DEF StoreTypeOK, NoPay
  <1> USE DEF LeaseKept
  <1>1. CASE pay' = pay
    BY <1>1
  <1>2. ASSUME NEW rows \in SUBSET Regs, NEW s, pay' = SetStatus(pay, rows, s)
        PROVE  LeaseKept(r, w)
    BY <1>0, <1>2 DEF SetStatus, PayRow
  <1>3. ASSUME NEW k \in Calls, CallWritesPay(k)
        PROVE  LeaseKept(r, w)
    <2>0. CallOK(call[k])
      BY ServiceInvParts DEF CallsOK
    <2>1. CASE RegisterExpires(k) \/ CallExpires(k)
      <3>1. due \cap Lapsed \in SUBSET Regs /\ pay' = SetStatus(pay, due \cap Lapsed, "FAILED")
        BY <2>1 DEF RegisterExpires, CallExpires, SweepCommits, Lapsed
      <3> QED  BY <1>2, <3>1
    <2>2. CASE RegisterInsert(k) \/ RegisterSettle(k)
      BY <1>0, <1>1, <2>2 DEF RegisterInsert, RegisterSettle, CreatePayment, ConfirmWithPayment, storeVars
    <2>3. CASE VerifyConfirm(k) \/ SubmitWrite(k) \/ ReviewWrite(k)
      <3>1. /\ call[k].reg \in Regs
            /\ pay' = pay \/ \E s : pay' = SetStatus(pay, {call[k].reg}, s)
        BY <2>0, <2>3 DEF VerifyConfirm, SubmitWrite, ReviewWrite, ConfirmStoredPayment,
           SubmitManualPayment, ApproveManualPayment, FailManualPayment, CallOK, RowPCs, At, storeVars
      <3> QED  BY <1>1, <1>2, <3>1
    <2> QED  BY <1>3, <2>1, <2>2, <2>3 DEF CallWritesPay
  <1>4. ASSUME NEW v \in Workers, JobWritesPay(v)
        PROVE  LeaseKept(r, w)
    <2>0. JobOK(job[v])
      BY <1>0 DEF JobsOK
    <2>1. ASSUME NEW rows \in SUBSET Regs, JobClaim(v, rows)
          PROVE  LeaseKept(r, w)
      <3>1. r \notin rows
        BY <2>1 DEF JobClaim, ClaimPendingPayments, Claimable
      <3> QED  BY <2>1, <3>1 DEF JobClaim, ClaimPendingPayments
    <2>2. CASE JobExpire(v)
      BY <1>0, <1>1, <2>2 DEF JobExpire, ExpireClaimedPayment, PayRow, storeVars
    <2>3. CASE JobConfirm(v)
      <3>1. /\ job[v].reg \in Regs
            /\ pay' = pay \/ pay' = SetStatus(pay, {job[v].reg}, "SUCCEEDED")
        BY <2>0, <2>3 DEF JobConfirm, ConfirmStoredPayment, JobOK, JobAt, storeVars
      <3> QED  BY <1>1, <1>2, <3>1
    <2>4. CASE JobLater(v)
      <3>1. CASE v = w
        <4>1. job'[v].pc = "next" /\ job[v].pc = "later"
          BY <1>0, <2>4, JobGotoFields DEF JobLater, JobAt
        <4> QED  BY <3>1, <4>1
      <3>2. CASE v # w
        BY <1>0, <1>1, <2>4, <3>2 DEF JobLater, SchedulePaymentReconciliation, ClaimedBy, storeVars
      <3> QED  BY <3>1, <3>2
    <2> QED  BY <1>4, <2>1, <2>2, <2>3, <2>4 DEF JobWritesPay
  <1>5. ASSUME NEW q \in Regs, Clock(q)
        PROVE  LeaseKept(r, w)
    BY <1>0, <1>5 DEF Clock, PaymentLapses, LeaseEnds, ReconcileDue, PayRow
  <1> QED
    BY <1>1, <1>3, <1>4, <1>5, RegisterWrites, HandleWrites, ReconcileWrites, EnvironmentWrites
       DEF Next

\* While a worker's lease on a payment is live nobody else takes the payment over or gives
\* the lease back: not another worker, however late its own steps, nor a request.
THEOREM LeasesAreExclusive == Spec => LeaseIsExclusive
  <1>1. ServiceInv /\ [Next]_vars =>
          [\A r \in Regs, w \in Workers :
              pay[r].status = "PENDING" /\ pay[r].leased /\ pay[r].worker = w /\ job'[w] = job[w]
                  => pay'[r].status # "PENDING" \/ pay'[r].worker = w]_vars
    BY LeaseStep DEF LeaseKept
  <1> QED  BY <1>1, ServiceInvariant, PTL DEF Spec, LeaseIsExclusive
-----------------------------------------------------------------------------
(* The reconciler asks before it expires *)

\* Payment r has lapsed, by the clock of the database.
HasLapsed(r) == pay[r].status # "NONE" /\ pay[r].lapsed

\* A pass that is about to expire a payment saw it lapsed, and then saw no transfer at the
\* bank: so none was made in time, and none can be any more.
PollInv ==
    /\ \A w \in Workers : JobAt(w, "poll") /\ job[w].lapsed => HasLapsed(job[w].reg)
    /\ \A w \in Workers :
          JobAt(w, "expire") => HasLapsed(job[w].reg) /\ job[w].lapsed /\ job[w].reg \notin onTime
    /\ \A r \in onTime : bank[r] = "exact"

LEMMA PollStep ==
    ASSUME ServiceInv, PollInv, [Next]_vars
    PROVE  PollInv'
  <1>0. /\ StoreTypeOK /\ JobsOK /\ RestOK /\ BatchesArePayments /\ [StoreNext]_storeVars
        /\ job \in [Workers -> JobState]
    BY ServiceInvParts, StepStore DEF JobsOK
  <1>1. ASSUME NEW r \in Regs, HasLapsed(r)
        PROVE  HasLapsed(r)' /\ (r \in onTime' => r \in onTime)
    <2>1. HasLapsed(r)'
      BY <1>0, <1>1, PaymentsStay DEF HasLapsed, PaymentStays
    <2>2. r \in onTime' => r \in onTime
      BY <1>1, BankStep DEF BankTransfer, HasLapsed
    <2> QED  BY <2>1, <2>2
  <1>2. \A r \in onTime' : bank'[r] = "exact"
    BY <1>0, BankStep DEF BankTransfer, PollInv, RestOK
  <1>3. ASSUME NEW w \in Workers, job'[w].pc = "poll", job'[w].lapsed
        PROVE  HasLapsed(job[w].reg)'
    <2>1. CASE job'[w] = job[w]
      BY <1>0, <1>1, <1>3, <2>1 DEF PollInv, JobAt, JobsOK, JobOK
    <2>2. CASE job'[w] = IdleJob
      BY <1>3, <2>2 DEF IdleJob
    <2>3. CASE Reconcile(w)
      <3>1. PICK r \in Regs : JobNext(w, r) /\ job'[w].reg = r
        BY <1>0, <1>3, <2>3, ReconcileMoves
      <3>2. job'[w].lapsed = pay[r].lapsed /\ pay[r].status # "NONE"
        BY <1>0, <3>1 DEF JobNext, BatchesArePayments
      <3> QED  BY <1>1, <1>3, <3>1, <3>2 DEF HasLapsed
    <2> QED  BY <1>0, <2>1, <2>2, <2>3, JobsOnlyReconcile
  <1>4. ASSUME NEW w \in Workers, job'[w].pc = "expire"
        PROVE  HasLapsed(job[w].reg)' /\ job'[w].lapsed /\ job'[w].reg \notin onTime'
    <2>1. CASE job'[w] = job[w]
      BY <1>0, <1>1, <1>4, <2>1 DEF PollInv, JobAt, JobsOK, JobOK
    <2>2. CASE job'[w] = IdleJob
      BY <1>4, <2>2 DEF IdleJob
    <2>3. CASE Reconcile(w)
      <3>1. JobPoll(w) /\ job'[w].reg = job[w].reg /\ job'[w].lapsed = job[w].lapsed
        BY <1>0, <1>4, <2>3, ReconcileMoves
      <3>2. bank[job[w].reg] = "none" /\ job[w].lapsed /\ job[w].reg \in Regs
        BY <1>0, <1>4, <3>1, JobGotoFields DEF JobPoll, JobsOK, JobOK, JobAt
      <3>3. HasLapsed(job[w].reg) /\ job[w].reg \notin onTime
        BY <3>1, <3>2 DEF PollInv, JobPoll
      <3> QED  BY <1>1, <3>1, <3>2, <3>3
    <2> QED  BY <1>0, <2>1, <2>2, <2>3, JobsOnlyReconcile
  <1> QED  BY <1>2, <1>3, <1>4 DEF PollInv, JobAt, HasLapsed

\* A reconciler never expires a reservation that was paid in full before it lapsed,
\* however its poll, the transfer, the clock, a crash and a takeover by another worker
\* fall.
THEOREM SettledIsNotExpired == Spec => ReconcilerKeepsSettled
  <1>1. Init => PollInv
    BY DEF Init, PollInv, JobAt, IdleJob
  <1>2. ServiceInv /\ PollInv /\ [Next]_vars => PollInv'
    BY PollStep
  <1>3. ASSUME ServiceInv, PollInv, [Next]_vars, job' # job,
               NEW r \in onTime, reg[r].status = "PENDING"
        PROVE  reg'[r].status # "EXPIRED"
    <2>0. /\ StoreTypeOK /\ CallsOK /\ JobsOK /\ r \in Regs
      BY <1>3, ServiceInvParts DEF RestOK
    <2>1. CASE reg' = reg
      BY <1>3, <2>1
    <2>2. ASSUME NEW w \in Workers, JobExpire(w)
          PROVE  reg'[r].status # "EXPIRED"
      <3>1. job[w].reg # r /\ job[w].reg \in Regs
        BY <1>3, <2>0, <2>2 DEF PollInv, JobExpire, JobAt, JobsOK, JobOK
      <3> QED
        BY <1>3, <2>0, <2>2, <3>1 DEF JobExpire, ExpireClaimedPayment, SetStatus, storeVars
    <2>3. ASSUME NEW w \in Workers, JobConfirm(w)
          PROVE  reg'[r].status # "EXPIRED"
      BY <1>3, <2>0, <2>3 DEF JobConfirm, ConfirmStoredPayment, SetStatus, storeVars, StoreTypeOK,
                             RegRow, NoReg
    <2> QED
      BY <1>3, <2>1, <2>2, <2>3, RegisterWrites, HandleWrites, ReconcileWrites, EnvironmentWrites
         DEF Next
  <1>4. ServiceInv /\ PollInv /\ [Next]_vars =>
          [job' # job => \A r \in onTime : reg[r].status = "PENDING" => reg'[r].status # "EXPIRED"]_vars
    BY <1>3
  <1> QED  BY <1>1, <1>2, <1>4, ServiceInvariant, PTL DEF Spec, ReconcilerKeepsSettled

-----------------------------------------------------------------------------
(* A submitted transfer waits for its review *)

LEMMA ReviewStep ==
    ASSUME ServiceInv, TransferInv, [Next]_vars, NEW r \in Regs, UnderReview(r), r \notin due
    PROVE  /\ r \notin due'
           /\ \/ reg'[r].status \in {"PENDING", "CANCELLED"}
              \/ \E k \in Calls : At(k, "review") /\ call[k].reg = r /\ call'[k] # call[k]
  <1>0. StoreTypeOK /\ CallsOK /\ JobsOK /\ reg \in [Regs -> RegRow \cup {NoReg}] /\ reg[r] \in RegRow
    BY ServiceInvParts DEF StoreTypeOK, UnderReview, NoReg
  <1> DEFINE Waiting == reg'[r].status \in {"PENDING", "CANCELLED"}
  <1>1. ASSUME NEW rows \in SUBSET Regs, NEW s, reg' = SetStatus(reg, rows, s),
               r \notin rows \/ s = "CANCELLED"
        PROVE  Waiting
    BY <1>0, <1>1 DEF SetStatus, RegRow, UnderReview
  <1>2. ASSUME reg' = reg
        PROVE  Waiting
    BY <1>2 DEF UnderReview
  <1>3. ASSUME SweepCommits
        PROVE  Waiting
    <2>1. /\ {q \in due : reg[q].status = "PENDING"} \in SUBSET Regs
          /\ r \notin {q \in due : reg[q].status = "PENDING"}
      BY <1>0 DEF StoreTypeOK
    <2> QED  BY <1>1, <1>3, <2>1 DEF SweepCommits
  <1>4. ~Confirming(r)
    BY DEF TransferInv, UnderReview
  <1>5. ASSUME NEW q \in Regs, q # r, NEW s, reg' = SetStatus(reg, {q}, s)
        PROVE  Waiting
    BY <1>1, <1>5
  <1>6. ASSUME NEW k \in Calls, RegisterWritesReg(k) \/ HandleWritesReg(k)
        PROVE  Waiting \/ (At(k, "review") /\ call[k].reg = r /\ call'[k] # call[k])
    <2>0. CallOK(call[k])
      BY <1>0 DEF CallsOK
    <2>1. CASE RegisterExpires(k) \/ CallExpires(k)
      BY <1>3, <2>1 DEF RegisterExpires, CallExpires
    <2>2. ASSUME NEW q \in Regs, RegisterFree(k, q) \/ RegisterReserve(k, q)
          PROVE  Waiting
      <3>1. reg'[r] = reg[r]
        BY <1>0, <2>2 DEF RegisterFree, RegisterReserve, Create, UnderReview
      <3> QED  BY <3>1 DEF UnderReview
    <2>3. CASE RegisterUndo(k) \/ CancelWrite(k)
      <3>1. /\ call[k].reg \in Regs
            /\ reg' = reg \/ reg' = SetStatus(reg, {call[k].reg}, "CANCELLED")
        BY <2>0, <2>3 DEF RegisterUndo, CancelWrite, Cancel, CallOK, RowPCs, At, storeVars
      <3> QED  BY <1>1, <1>2, <3>1
    <2>4. CASE RegisterSettle(k)
      <3>1. /\ call[k].reg \in Regs
            /\ reg' = reg \/ /\ reg' = SetStatus(reg, {call[k].reg}, "CONFIRMED")
                             /\ pay[call[k].reg].status = "NONE"
        BY <2>0, <2>4 DEF RegisterSettle, ConfirmWithPayment, CallOK, RowPCs, At, storeVars
      <3> QED  BY <1>2, <1>5, <3>1 DEF UnderReview
    <2>5. CASE VerifyConfirm(k)
      <3>1. /\ call[k].reg \in Regs /\ call[k].reg # r
            /\ reg' = reg \/ reg' = SetStatus(reg, {call[k].reg}, "CONFIRMED")
        BY <1>4, <2>0, <2>5 DEF VerifyConfirm, ConfirmStoredPayment, CallOK, RowPCs, At, Confirming
      <3> QED  BY <1>2, <1>5, <3>1
    <2>6. CASE ReviewWrite(k)
      <3>1. /\ call[k].reg \in Regs /\ call[k].pc = "review"
            /\ reg' = reg \/ \E s : reg' = SetStatus(reg, {call[k].reg}, s)
        BY <2>0, <2>6 DEF ReviewWrite, ApproveManualPayment, FailManualPayment, CallOK, RowPCs, At,
                          storeVars
      <3>2. call'[k].pc # "review"
        BY <1>0, <2>6, GotoFields, ReturnFields DEF ReviewWrite
      <3> QED  BY <1>2, <1>5, <3>1, <3>2 DEF At
    <2> QED
      BY <1>6, <2>1, <2>2, <2>3, <2>4, <2>5, <2>6 DEF RegisterWritesReg, HandleWritesReg
  <1>7. ASSUME NEW w \in Workers, JobExpire(w) \/ JobConfirm(w)
        PROVE  Waiting
    <2>1. /\ job[w].reg \in Regs
          /\ \/ reg' = reg
             \/ job[w].reg # r /\ \E s : reg' = SetStatus(reg, {job[w].reg}, s)
      BY <1>0, <1>4, <1>7 DEF JobsOK, JobOK, JobExpire, JobConfirm, ExpireClaimedPayment, ClaimedBy,
         ConfirmStoredPayment, UnderReview, Confirming, JobAt, storeVars
    <2> QED  BY <1>2, <1>5, <2>1
  <1>8. r \notin due'
    BY StepStore, DueStep DEF UnderReview, Lapsed
  <1> QED
    BY <1>2, <1>6, <1>7, <1>8, RegisterWrites, HandleWrites, ReconcileWrites, EnvironmentWrites
       DEF Next

\* Until the review of a submitted transfer is decided neither a verification, a reconciler
\* nor a sweep that begins later touches the reservation; only its owner may still cancel
\* it.  (A sweep that had found the payment before it was submitted does.)
THEOREM SubmittedWaits == Spec => SubmittedAwaitsReview
  <1>1. ServiceInv /\ TransferInv /\ [Next]_vars =>
          [\A r \in Regs :
              UnderReview(r) /\ r \notin due =>
                  /\ r \notin due'
                  /\ \/ reg'[r].status \in {"PENDING", "CANCELLED"}
                     \/ \E k \in Calls : At(k, "review") /\ call[k].reg = r /\ call'[k] # call[k]]_vars
    BY ReviewStep
  <1> QED
    BY <1>1, ServiceInvariant, TransferInvariant, PTL DEF Spec, SubmittedAwaitsReview
=============================================================================
