--------------------- MODULE RegistrationServiceProofs ---------------------
(***************************************************************************)
(* The handlers and the reconciler of RegistrationService change the       *)
(* tables only by transactions of RegistrationStore, for any number of     *)
(* requests, workers and registrations, whatever fails.  What is proved    *)
(* of the tables in RegistrationStoreProofs then holds of the service.     *)
(***************************************************************************)
EXTENDS RegistrationService, RegistrationStoreProofs

-----------------------------------------------------------------------------
(* The invariant: what a request or a pass may rely on where it stands.     *)

EarlyPCs == {"sweep", "expiring", "check", "lock", "create"}
RowPCs == {"checkout", "insert", "undo", "settle", "record", "notify", "cancel_checkin",
           "cancel", "checkin", "poll", "confirm", "submit", "review"}

CallOK(s) ==
    /\ s.pc \in EarlyPCs => s.user \in Users /\ s.cat \in Categories
    /\ s.pc \in RowPCs => s.reg \in Regs
    /\ s.pc = "insert" => ~SettlesAtOnce(provider)
    /\ s.pc = "settle" => SettlesAtOnce(provider)

JobOK(s) == s.pc \in {"poll", "expire", "confirm", "notify", "later"} => s.reg \in Regs

\* What a reconciler has claimed and not yet looked at are payment rows.
BatchesArePayments == \A w \in Workers : \A r \in job[w].todo : pay[r].status # "NONE"

ServiceInv ==
    /\ TypeOK
    /\ \A k \in Calls : CallOK(call[k])
    /\ \A w \in Workers : JobOK(job[w])
    /\ BatchesArePayments

-----------------------------------------------------------------------------
(* Every step is a transaction or leaves the tables alone *)

LEMMA RegisterStore ==
    ASSUME ServiceInv, NEW k \in Calls, Register(k)
    PROVE  [StoreNext]_storeVars
  <1>0. CallOK(call[k]) /\ provider \in Providers
    BY DEF ServiceInv, TypeOK
  <1> USE DEF StoreNext, RegistrationTransaction, CallOK, EarlyPCs, RowPCs, At
  <1>1. CASE \E u \in Users, c \in Categories, key \in Keys \cup {None} : RegisterLookup(k, u, c, key)
    BY <1>1 DEF RegisterLookup
  <1>2. CASE RegisterSweep(k) \/ RegisterExpires(k)
    BY <1>2 DEF RegisterSweep, RegisterExpires, TableTransaction
  <1>3. CASE RegisterCheck(k) \/ RegisterLock(k) \/ RegisterRefused(k) \/ RegisterCheckout(k)
    BY <1>3 DEF RegisterCheck, RegisterLock, RegisterRefused, RegisterCheckout, storeVars
  <1>4. ASSUME NEW r \in Regs, RegisterFree(k, r)
        PROVE  StoreNext
    <2>1. call[k].user \in Users /\ call[k].cat \in Categories
      BY <1>0, <1>4 DEF RegisterFree
    <2>2. Create(r, call[k].user, call[k].cat, call[k].cat \in FreeCategories)
      BY <1>4 DEF RegisterFree, Create
    <2> QED  BY <2>1, <2>2
  <1>5. ASSUME NEW r \in Regs, RegisterReserve(k, r)
        PROVE  StoreNext
    <2>1. call[k].user \in Users /\ call[k].cat \in Categories
      BY <1>0, <1>5 DEF RegisterReserve
    <2>2. Create(r, call[k].user, call[k].cat, call[k].cat \in FreeCategories)
      BY <1>5 DEF RegisterReserve, Create
    <2> QED  BY <2>1, <2>2
  <1>6. CASE RegisterInsert(k)
    BY <1>0, <1>6 DEF RegisterInsert
  <1>7. CASE RegisterUndo(k)
    BY <1>0, <1>7 DEF RegisterUndo
  <1>8. CASE RegisterSettle(k)
    BY <1>0, <1>8 DEF RegisterSettle
  <1>9. CASE RegisterRecord(k) \/ RegisterFinish(k)
    BY <1>9 DEF RegisterRecord, RegisterFinish, storeVars
  <1> QED
    BY <1>1, <1>2, <1>3, <1>4, <1>5, <1>6, <1>7, <1>8, <1>9 DEF Register

LEMMA HandleStore ==
    ASSUME ServiceInv, NEW k \in Calls, Handle(k)
    PROVE  [StoreNext]_storeVars
  <1>0. CallOK(call[k])
    BY DEF ServiceInv
  <1> USE DEF StoreNext, RegistrationTransaction, CallOK, RowPCs, At
  <1>1. ASSUME NEW r \in Regs,
               \/ CancelRead(k, r) \/ CheckInRead(k, r) \/ VerifyRead(k, r)
               \/ SubmitRead(k, r) \/ ReviewRead(k, r)
        PROVE  UNCHANGED storeVars
    BY <1>1 DEF CancelRead, CheckInRead, VerifyRead, SubmitRead, ReviewRead
  <1>2. CASE CancelHasCheckIn(k) \/ VerifyPoll(k)
    BY <1>2 DEF CancelHasCheckIn, VerifyPoll
  <1>3. CASE Notify(k)
    BY <1>3 DEF Notify, storeVars
  <1>4. CASE CancelWrite(k)
    BY <1>0, <1>4 DEF CancelWrite
  <1>5. CASE CheckInWrite(k)
    BY <1>0, <1>5 DEF CheckInWrite
  <1>6. CASE VerifyConfirm(k)
    BY <1>0, <1>6 DEF VerifyConfirm
  <1>7. CASE CallSweep(k) \/ CallExpires(k)
    BY <1>7 DEF CallSweep, CallExpires, TableTransaction
  <1>8. CASE SubmitWrite(k)
    BY <1>0, <1>8 DEF SubmitWrite
  <1>9. CASE ReviewWrite(k)
    BY <1>0, <1>9 DEF ReviewWrite
  <1> QED
    BY <1>1, <1>2, <1>3, <1>4, <1>5, <1>6, <1>7, <1>8, <1>9 DEF Handle

LEMMA ReconcileStore ==
    ASSUME ServiceInv, NEW w \in Workers, Reconcile(w)
    PROVE  [StoreNext]_storeVars
  <1>0. JobOK(job[w])
    BY DEF ServiceInv
  <1> USE DEF StoreNext, RegistrationTransaction, JobOK, JobAt
  <1>1. CASE \E rows \in SUBSET Regs : JobClaim(w, rows)
    BY <1>1 DEF JobClaim, TableTransaction
  <1>2. CASE (\E r \in Regs : JobNext(w, r)) \/ JobDone(w) \/ JobPoll(w) \/ JobPollFails(w)
    BY <1>2 DEF JobNext, JobDone, JobPoll, JobPollFails
  <1>3. CASE JobNotify(w)
    BY <1>3 DEF JobNotify, storeVars
  <1>4. CASE JobExpire(w)
    BY <1>0, <1>4 DEF JobExpire
  <1>5. CASE JobConfirm(w)
    BY <1>0, <1>5 DEF JobConfirm
  <1>6. CASE JobLater(w)
    BY <1>0, <1>6 DEF JobLater
  <1> QED
    BY <1>1, <1>2, <1>3, <1>4, <1>5, <1>6 DEF Reconcile, JobStep

LEMMA EnvironmentStore ==
    ASSUME Environment
    PROVE  [StoreNext]_storeVars
  <1> USE DEF StoreNext, RegistrationTransaction, TableTransaction
  <1>1. CASE \E r \in Regs : Clock(r)
    BY <1>1 DEF Clock
  <1>2. CASE \E c \in Categories, n \in 0..MaxCapacity : UpdateCapacity(c, n) /\ UNCHANGED serviceVars
    BY <1>2
  <1>3. CASE \/ \E r \in Regs, amount \in Settlements : BankTransfer(r, amount)
             \/ \E c \in Categories : LockExpires(c) \/ SetOpen(c)
             \/ \E u \in Users, key \in Keys : KeyExpires(u, key)
             \/ \E k \in Calls : CallFails(k)
             \/ \E w \in Workers : WorkerCrashes(w)
             \/ \E p \in Providers : Redeploy(p)
    BY <1>3 DEF BankTransfer, LockExpires, SetOpen, KeyExpires, CallFails, WorkerCrashes, Redeploy,
                storeVars
  <1> QED
    BY <1>1, <1>2, <1>3 DEF Environment

LEMMA StepStore ==
    ASSUME ServiceInv, [Next]_vars
    PROVE  [StoreNext]_storeVars
  <1>1. CASE UNCHANGED vars
    BY <1>1 DEF vars, storeVars
  <1> QED
    BY <1>1, RegisterStore, HandleStore, ReconcileStore, EnvironmentStore DEF Next

-----------------------------------------------------------------------------
(* The invariant is inductive *)

CallsOK == call \in [Calls -> CallState] /\ \A k \in Calls : CallOK(call[k])
JobsOK == job \in [Workers -> JobState] /\ \A w \in Workers : JobOK(job[w])

\* The part of the type invariant that is about neither tables, calls nor jobs.
RestOK ==
    /\ lock \in [Categories -> Calls \cup {None, Orphan}]
    /\ bank \in [Regs -> {"none"} \cup Settlements]
    /\ onTime \subseteq Regs
    /\ provider \in Providers
    /\ open \subseteq Categories
    /\ idem \in [Users -> [Keys -> Regs \cup {None}]]
    /\ keyOf \in [Regs -> Keys \cup {None}]
    /\ notices \in [Regs -> 0..NoticeBound]

LEMMA ServiceInvParts ==
    ServiceInv <=> StoreTypeOK /\ CallsOK /\ JobsOK /\ RestOK /\ BatchesArePayments
  BY DEF ServiceInv, TypeOK, CallsOK, JobsOK, RestOK

LEMMA IdleCallOK == IdleCall \in CallState /\ CallOK(IdleCall)
  BY DEF IdleCall, CallState, CallPCs, RegisterPCs, CallOK, EarlyPCs, RowPCs

LEMMA IdleJobOK == IdleJob \in JobState /\ JobOK(IdleJob)
  BY DEF IdleJob, JobState, JobPCs, JobOK

\* The four ways a handler moves on.
LEMMA GotoOK ==
    ASSUME CallsOK, NEW k \in Calls, NEW pc \in CallPCs, Goto(k, pc), provider' = provider,
           pc \in EarlyPCs => call[k].user \in Users /\ call[k].cat \in Categories,
           pc \in RowPCs => call[k].reg \in Regs,
           pc = "insert" => ~SettlesAtOnce(provider),
           pc = "settle" => SettlesAtOnce(provider)
    PROVE  CallsOK'
  <1>1. call[k] \in CallState
    BY DEF CallsOK
  <1>2. call' = [call EXCEPT ![k] = [call[k] EXCEPT !.pc = pc]]
    BY DEF Goto, CallsOK
  <1>3. [call[k] EXCEPT !.pc = pc] \in CallState
    BY <1>1 DEF CallState
  <1>4. /\ [call[k] EXCEPT !.pc = pc].pc = pc
        /\ [call[k] EXCEPT !.pc = pc].user = call[k].user
        /\ [call[k] EXCEPT !.pc = pc].cat = call[k].cat
        /\ [call[k] EXCEPT !.pc = pc].reg = call[k].reg
    BY <1>1 DEF CallState
  <1> QED
    BY <1>2, <1>3, <1>4 DEF CallsOK, CallOK, SettlesAtOnce

LEMMA GotoWithOK ==
    ASSUME CallsOK, NEW k \in Calls, NEW pc \in CallPCs \ (EarlyPCs \cup {"insert", "settle"}),
           NEW r \in Regs, GotoWith(k, pc, r), provider' = provider
    PROVE  CallsOK'
  <1>1. call[k] \in CallState
    BY DEF CallsOK
  <1>2. call' = [call EXCEPT ![k] = [call[k] EXCEPT !.pc = pc, !.reg = r]]
    BY DEF GotoWith, CallsOK
  <1>3. /\ [call[k] EXCEPT !.pc = pc, !.reg = r] \in CallState
        /\ [call[k] EXCEPT !.pc = pc, !.reg = r].pc = pc
        /\ [call[k] EXCEPT !.pc = pc, !.reg = r].reg = r
    BY <1>1 DEF CallState
  <1> QED
    BY <1>2, <1>3 DEF CallsOK, CallOK, SettlesAtOnce, EarlyPCs

LEMMA ReturnOK ==
    ASSUME CallsOK, NEW k \in Calls, Return(k), provider' = provider
    PROVE  CallsOK'
  BY IdleCallOK DEF Return, CallsOK, CallOK, SettlesAtOnce

LEMMA StartOK ==
    ASSUME CallsOK, NEW k \in Calls, NEW pc \in CallPCs \ (EarlyPCs \cup {"insert", "settle"}),
           NEW r \in Regs, NEW b \in BOOLEAN, Start(k, pc, r, b), provider' = provider
    PROVE  CallsOK'
  <1>1. call' = [call EXCEPT ![k] = [IdleCall EXCEPT !.pc = pc, !.reg = r, !.lapsed = b]]
    BY DEF Start
  <1>2. /\ [IdleCall EXCEPT !.pc = pc, !.reg = r, !.lapsed = b] \in CallState
        /\ [IdleCall EXCEPT !.pc = pc, !.reg = r, !.lapsed = b].pc = pc
        /\ [IdleCall EXCEPT !.pc = pc, !.reg = r, !.lapsed = b].reg = r
    BY IdleCallOK DEF CallState
  <1> QED
    BY <1>1, <1>2 DEF CallsOK, CallOK, SettlesAtOnce, EarlyPCs

LEMMA StoredOK ==
    ASSUME RestOK, NEW u \in Users \cup {None}, NEW key \in Keys \cup {None}, NEW r \in Regs
    PROVE  Stored(u, key, r) \in [Users -> [Keys -> Regs \cup {None}]]
  <1>1. CASE u \in Users /\ key \in Keys
    <2>1. idem[u] \in [Keys -> Regs \cup {None}]
      BY <1>1 DEF RestOK
    <2>2. [idem[u] EXCEPT ![key] = r] \in [Keys -> Regs \cup {None}]
      BY <2>1
    <2>3. [idem EXCEPT ![u] = [idem[u] EXCEPT ![key] = r]] \in [Users -> [Keys -> Regs \cup {None}]]
      BY <2>2 DEF RestOK
    <2>4. [idem EXCEPT ![u][key] = r] = [idem EXCEPT ![u] = [idem[u] EXCEPT ![key] = r]]
      BY <1>1 DEF RestOK
    <2> QED  BY <2>3, <2>4 DEF Stored, RestOK
  <1>2. CASE key = None
    BY <1>2 DEF Stored, RestOK
  <1>3. CASE u = None
    BY <1>3, ServiceAssumption DEF Stored, RestOK
  <1> QED  BY <1>1, <1>2, <1>3

LEMMA NoticeOK ==
    ASSUME RestOK, NEW r \in Regs, OneMoreNotice(r)
    PROVE  notices' \in [Regs -> 0..NoticeBound]
  <1>1. \A n \in 0..NoticeBound : (IF n < NoticeBound THEN n + 1 ELSE n) \in 0..NoticeBound
    BY DEF NoticeBound
  <1> QED  BY <1>1 DEF OneMoreNotice, RestOK

LEMMA RegisterInv ==
    ASSUME CallsOK, JobsOK, RestOK, NEW k \in Calls, Register(k)
    PROVE  CallsOK' /\ JobsOK' /\ RestOK'
  <1>0. call[k] \in CallState /\ CallOK(call[k]) /\ provider \in Providers
    BY DEF CallsOK, RestOK
  <1> USE DEF At, CallOK, EarlyPCs, RowPCs, CallPCs, RegisterPCs
  <1>1. ASSUME provider' = provider, job' = job PROVE JobsOK'
    BY <1>1 DEF JobsOK, JobOK
  <1>2. ASSUME NEW u \in Users, NEW c \in Categories, NEW key \in Keys \cup {None},
               RegisterLookup(k, u, c, key)
        PROVE  CallsOK' /\ JobsOK' /\ RestOK'
    <2> DEFINE s == [IdleCall EXCEPT !.pc = "sweep", !.user = u, !.cat = c, !.key = key]
    <2>1. call' = [call EXCEPT ![k] = s] /\ provider' = provider
      BY <1>2 DEF RegisterLookup, OnlyCall
    <2>2. s \in CallState /\ s.pc = "sweep" /\ s.user = u /\ s.cat = c
      BY IdleCallOK DEF CallState
    <2>3. CallsOK'
      BY <2>1, <2>2 DEF CallsOK, SettlesAtOnce
    <2> QED  BY <1>1, <1>2, <2>3 DEF RegisterLookup, OnlyCall, RestOK
  <1>3. CASE RegisterSweep(k) \/ RegisterExpires(k)
    <2>1. CallsOK'  BY <1>0, <1>3, GotoOK DEF RegisterSweep, RegisterExpires, OnlyCall
    <2> QED  BY <1>1, <1>3, <2>1 DEF RegisterSweep, RegisterExpires, OnlyCall, RestOK
  <1>4. CASE RegisterCheck(k)
    <2>1. CallsOK'  BY <1>0, <1>4, GotoOK, ReturnOK DEF RegisterCheck, OnlyCall
    <2> QED  BY <1>1, <1>4, <2>1 DEF RegisterCheck, OnlyCall, RestOK
  <1>5. CASE RegisterLock(k)
    <2>0. call[k].user \in Users /\ call[k].cat \in Categories /\ provider' = provider /\ job' = job
      BY <1>0, <1>5 DEF RegisterLock
    <2>1. CallsOK'
      <3>1. CASE Return(k) \/ Goto(k, "create")
        BY <2>0, <3>1, GotoOK, ReturnOK
      <3>2. CASE call' = [call EXCEPT ![k].pc = "create", ![k].lock = "held"]
        <4> DEFINE s == [call[k] EXCEPT !.pc = "create", !.lock = "held"]
        <4>1. call' = [call EXCEPT ![k] = s]
          BY <3>2 DEF CallsOK
        <4>2. s \in CallState /\ s.pc = "create" /\ s.user = call[k].user /\ s.cat = call[k].cat
          BY <1>0 DEF CallState
        <4> QED  BY <2>0, <4>1, <4>2 DEF CallsOK, SettlesAtOnce
      <3> QED  BY <1>5, <3>1, <3>2 DEF RegisterLock
    <2>2. lock' \in [Categories -> Calls \cup {None, Orphan}]
      BY <1>5, <2>0 DEF RegisterLock, RestOK
    <2> QED  BY <1>1, <1>5, <2>0, <2>1, <2>2 DEF RegisterLock, RestOK
  <1>6. ASSUME NEW r \in Regs, RegisterFree(k, r) \/ RegisterReserve(k, r)
        PROVE  CallsOK' /\ JobsOK' /\ RestOK'
    <2>1. provider' = provider /\ job' = job /\ (GotoWith(k, "notify", r) \/ GotoWith(k, "checkout", r))
      BY <1>6 DEF RegisterFree, RegisterReserve
    <2>2. CallsOK'  BY <2>1, GotoWithOK
    <2>3. keyOf' \in [Regs -> Keys \cup {None}]
      BY <1>0, <1>6 DEF RegisterFree, RegisterReserve, RestOK, CallState
    <2>4. idem' \in [Users -> [Keys -> Regs \cup {None}]]
      <3>1. idem' = idem \/ idem' = Stored(call[k].user, call[k].key, r)
        BY <1>6 DEF RegisterFree, RegisterReserve
      <3>2. call[k].user \in Users \cup {None} /\ call[k].key \in Keys \cup {None}
        BY <1>0 DEF CallState
      <3>3. Stored(call[k].user, call[k].key, r) \in [Users -> [Keys -> Regs \cup {None}]]
        BY <3>2, StoredOK
      <3> QED  BY <3>1, <3>3 DEF RestOK
    <2> QED  BY <1>1, <1>6, <2>1, <2>2, <2>3, <2>4 DEF RegisterFree, RegisterReserve, RestOK
  <1>7. CASE RegisterRefused(k) \/ RegisterCheckout(k) \/ RegisterInsert(k) \/ RegisterUndo(k)
             \/ RegisterSettle(k)
    <2>1. OnlyCall
      BY <1>7 DEF RegisterRefused, RegisterCheckout, RegisterInsert, RegisterUndo, RegisterSettle
    <2>2. CASE RegisterRefused(k) \/ RegisterUndo(k)
      BY <1>1, <2>1, <2>2, GotoOK DEF RegisterRefused, RegisterUndo, OnlyCall, RestOK
    <2>3. CASE RegisterCheckout(k)
      <3>1. \/ Goto(k, "settle") /\ SettlesAtOnce(provider)
            \/ Goto(k, "insert") /\ ~SettlesAtOnce(provider)
            \/ Goto(k, "undo")
        BY <2>3 DEF RegisterCheckout
      <3>2. call[k].reg \in Regs
        BY <1>0, <2>3 DEF RegisterCheckout
      <3>3. CallsOK'  BY <2>1, <3>1, <3>2, GotoOK DEF OnlyCall
      <3> QED  BY <1>1, <2>1, <3>3 DEF OnlyCall, RestOK
    <2>4. CASE RegisterInsert(k) \/ RegisterSettle(k)
      <3>1. Goto(k, "record") \/ Goto(k, "undo") \/ Goto(k, "notify") \/ Goto(k, "finish")
        BY <2>4 DEF RegisterInsert, RegisterSettle
      <3>2. call[k].reg \in Regs
        BY <1>0, <2>4 DEF RegisterInsert, RegisterSettle
      <3>3. CallsOK'  BY <2>1, <3>1, <3>2, GotoOK DEF OnlyCall
      <3> QED  BY <1>1, <2>1, <3>3 DEF OnlyCall, RestOK
    <2> QED  BY <1>7, <2>2, <2>3, <2>4
  <1>8. CASE RegisterRecord(k)
    <2>1. provider' = provider /\ job' = job /\ Goto(k, "finish") /\ call[k].reg \in Regs
      BY <1>0, <1>8 DEF RegisterRecord
    <2>2. CallsOK'  BY <2>1, GotoOK
    <2>3. idem' \in [Users -> [Keys -> Regs \cup {None}]]
      <3>1. idem' = idem \/ idem' = Stored(call[k].user, call[k].key, call[k].reg)
        BY <1>8 DEF RegisterRecord
      <3>2. call[k].user \in Users \cup {None} /\ call[k].key \in Keys \cup {None}
        BY <1>0 DEF CallState
      <3>3. Stored(call[k].user, call[k].key, call[k].reg) \in [Users -> [Keys -> Regs \cup {None}]]
        BY <2>1, <3>2, StoredOK
      <3> QED  BY <3>1, <3>3 DEF RestOK
    <2> QED  BY <1>1, <1>8, <2>1, <2>2, <2>3 DEF RegisterRecord, RestOK
  <1>9. CASE RegisterFinish(k)
    <2>1. CallsOK'  BY <1>9, ReturnOK DEF RegisterFinish
    <2>2. lock' \in [Categories -> Calls \cup {None, Orphan}]
      BY <1>9 DEF RegisterFinish, RestOK, Released, Orphaned
    <2> QED  BY <1>1, <1>9, <2>1, <2>2 DEF RegisterFinish, RestOK
  <1> QED
    BY <1>2, <1>3, <1>4, <1>5, <1>6, <1>7, <1>8, <1>9 DEF Register

LEMMA HandleInv ==
    ASSUME CallsOK, JobsOK, RestOK, NEW k \in Calls, Handle(k), StoreTypeOK
    PROVE  CallsOK' /\ JobsOK' /\ RestOK'
  <1>0. call[k] \in CallState /\ CallOK(call[k])
    BY DEF CallsOK
  <1> USE DEF At, CallOK, EarlyPCs, RowPCs, CallPCs, RegisterPCs
  <1>1. CASE OnlyCall /\ CallsOK'
    BY <1>1 DEF OnlyCall, JobsOK, JobOK, RestOK
  <1>2. ASSUME NEW r \in Regs,
               CancelRead(k, r) \/ CheckInRead(k, r) \/ ReviewRead(k, r)
        PROVE  OnlyCall /\ CallsOK'
    <2>1. Start(k, "cancel_checkin", r, FALSE) \/ Start(k, "checkin", r, FALSE)
             \/ Start(k, "review", r, FALSE)
      BY <1>2 DEF CancelRead, CheckInRead, ReviewRead
    <2>2. OnlyCall /\ provider' = provider
      BY <1>2 DEF CancelRead, CheckInRead, ReviewRead, OnlyCall
    <2> QED  BY <2>1, <2>2, StartOK
  <1>3. ASSUME NEW r \in Regs, VerifyRead(k, r) \/ SubmitRead(k, r)
        PROVE  OnlyCall /\ CallsOK'
    <2>1. pay[r].lapsed \in BOOLEAN
      <3>1. pay[r].status # "NONE"
        BY <1>3 DEF VerifyRead, SubmitRead
      <3> QED  BY <3>1 DEF StoreTypeOK, PayRow, NoPay
    <2>2. OnlyCall /\ provider' = provider
      BY <1>3 DEF VerifyRead, SubmitRead, OnlyCall
    <2>3. \/ Start(k, "poll", r, pay[r].lapsed) \/ Start(k, "expire", r, TRUE)
          \/ Start(k, "expire", r, pay[r].lapsed) \/ Start(k, "submit", r, pay[r].lapsed)
      BY <1>3 DEF VerifyRead, SubmitRead
    <2> QED  BY <2>1, <2>2, <2>3, StartOK
  <1>4. ASSUME CancelHasCheckIn(k) \/ CancelWrite(k) \/ CheckInWrite(k) \/ CallSweep(k)
               \/ CallExpires(k) \/ SubmitWrite(k)
        PROVE  OnlyCall /\ CallsOK'
    <2>1. OnlyCall /\ provider' = provider
      BY <1>4 DEF CancelHasCheckIn, CancelWrite, CheckInWrite, CallSweep, CallExpires, SubmitWrite, OnlyCall
    <2>2. Return(k) \/ (Goto(k, "cancel") /\ call[k].reg \in Regs) \/ Goto(k, "sweeping")
      BY <1>0, <1>4 DEF CancelHasCheckIn, CancelWrite, CheckInWrite, CallSweep, CallExpires, SubmitWrite
    <2> QED  BY <2>1, <2>2, GotoOK, ReturnOK
  <1>5. ASSUME VerifyPoll(k) \/ VerifyConfirm(k) \/ ReviewWrite(k)
        PROVE  OnlyCall /\ CallsOK'
    <2>1. OnlyCall /\ provider' = provider /\ call[k].reg \in Regs
      BY <1>0, <1>5 DEF VerifyPoll, VerifyConfirm, ReviewWrite, OnlyCall
    <2>2. Return(k) \/ Goto(k, "expire") \/ Goto(k, "confirm") \/ Goto(k, "notify")
      BY <1>5 DEF VerifyPoll, VerifyConfirm, ReviewWrite
    <2> QED  BY <2>1, <2>2, GotoOK, ReturnOK
  <1>6. CASE Notify(k)
    <2>1. provider' = provider /\ job' = job /\ call[k].reg \in Regs
      BY <1>0, <1>6 DEF Notify
    <2>2. Goto(k, "record") \/ Goto(k, "finish")
      BY <1>6 DEF Notify
    <2>3. CallsOK'  BY <2>1, <2>2, GotoOK
    <2>4. notices' \in [Regs -> 0..NoticeBound]
      BY <1>6, <2>1, NoticeOK DEF Notify
    <2> QED  BY <1>6, <2>1, <2>3, <2>4 DEF Notify, JobsOK, JobOK, RestOK
  <1> QED
    BY <1>1, <1>2, <1>3, <1>4, <1>5, <1>6 DEF Handle

-----------------------------------------------------------------------------
(* The reconciler *)

LEMMA JobGotoOK ==
    ASSUME JobsOK, NEW w \in Workers, NEW pc \in JobPCs, JobGoto(w, pc),
           pc \in {"poll", "expire", "confirm", "notify", "later"} => job[w].reg \in Regs
    PROVE  JobsOK'
  <1>1. job[w] \in JobState
    BY DEF JobsOK
  <1>2. job' = [job EXCEPT ![w] = [job[w] EXCEPT !.pc = pc]]
    BY DEF JobGoto, JobsOK
  <1>3. /\ [job[w] EXCEPT !.pc = pc] \in JobState
        /\ [job[w] EXCEPT !.pc = pc].pc = pc
        /\ [job[w] EXCEPT !.pc = pc].reg = job[w].reg
    BY <1>1 DEF JobState
  <1> QED  BY <1>2, <1>3 DEF JobsOK, JobOK

LEMMA ReconcileInv ==
    ASSUME CallsOK, JobsOK, RestOK, NEW w \in Workers, Reconcile(w), StoreTypeOK,
           BatchesArePayments
    PROVE  CallsOK' /\ JobsOK' /\ RestOK'
  <1>0. job[w] \in JobState /\ JobOK(job[w])
    BY DEF JobsOK
  <1> USE DEF JobAt, JobOK, JobPCs
  <1>1. CASE OnlyJob /\ JobsOK'
    BY <1>1 DEF OnlyJob, CallsOK, CallOK, RestOK, SettlesAtOnce
  <1>2. ASSUME NEW rows \in SUBSET Regs, JobClaim(w, rows)
        PROVE  OnlyJob /\ JobsOK'
    <2> DEFINE s == [IdleJob EXCEPT !.pc = "next", !.todo = rows]
    <2>1. s \in JobState /\ s.pc = "next"
      BY IdleJobOK DEF JobState
    <2>2. OnlyJob /\ job' = [job EXCEPT ![w] = s]
      BY <1>2 DEF JobClaim
    <2> QED  BY <2>1, <2>2 DEF JobsOK
  <1>3. ASSUME NEW r \in Regs, JobNext(w, r)
        PROVE  OnlyJob /\ JobsOK'
    <2> DEFINE s == [pc |-> IF pay[r].provider = provider THEN "poll" ELSE "later",
                     todo |-> job[w].todo \ {r}, reg |-> r, lapsed |-> pay[r].lapsed]
    <2>1. s \in JobState /\ s.reg = r
      <3>1. pay[r].lapsed \in BOOLEAN
        BY <1>3 DEF JobNext, BatchesArePayments, StoreTypeOK, PayRow, NoPay
      <3> QED  BY <1>0, <3>1 DEF JobState
    <2>2. OnlyJob /\ job' = [job EXCEPT ![w] = s]
      BY <1>3 DEF JobNext, JobsOK
    <2> QED  BY <2>1, <2>2 DEF JobsOK
  <1>4. ASSUME JobDone(w)
        PROVE  OnlyJob /\ JobsOK'
    BY <1>4, IdleJobOK DEF JobDone, JobsOK
  <1>5. ASSUME JobPoll(w) \/ JobPollFails(w) \/ JobExpire(w) \/ JobConfirm(w) \/ JobLater(w)
        PROVE  OnlyJob /\ JobsOK'
    <2>1. OnlyJob /\ job[w].reg \in Regs
      BY <1>0, <1>5 DEF JobPoll, JobPollFails, JobExpire, JobConfirm, JobLater
    <2>2. \/ JobGoto(w, "expire") \/ JobGoto(w, "later") \/ JobGoto(w, "confirm")
          \/ JobGoto(w, "notify") \/ JobGoto(w, "next")
      BY <1>5 DEF JobPoll, JobPollFails, JobExpire, JobConfirm, JobLater
    <2> QED  BY <2>1, <2>2, JobGotoOK
  <1>6. CASE JobNotify(w)
    <2>1. /\ provider' = provider /\ call' = call /\ job[w].reg \in Regs /\ JobGoto(w, "next")
      BY <1>0, <1>6 DEF JobNotify
    <2>2. JobsOK'  BY <2>1, JobGotoOK
    <2>3. notices' \in [Regs -> 0..NoticeBound]
      BY <1>6, <2>1, NoticeOK DEF JobNotify
    <2> QED  BY <1>6, <2>1, <2>2, <2>3 DEF JobNotify, CallsOK, CallOK, RestOK, SettlesAtOnce
  <1> QED
    BY <1>1, <1>2, <1>3, <1>4, <1>5, <1>6 DEF Reconcile, JobStep

LEMMA BatchesStep ==
    ASSUME JobsOK, BatchesArePayments, StoreTypeOK, [StoreNext]_storeVars, [Next]_vars
    PROVE  BatchesArePayments'
  <1>1. ASSUME NEW w \in Workers, NEW r \in job'[w].todo
        PROVE  r \in job[w].todo \/ r \in Claimable
    <2>0. job \in [Workers -> JobState]
      BY DEF JobsOK
    <2>1. CASE UNCHANGED job
      BY <1>1, <2>1
    <2>2. CASE \E v \in Workers, rows \in SUBSET Regs : JobClaim(v, rows)
      BY <1>1, <2>0, <2>2 DEF JobClaim, ClaimPendingPayments, IdleJob
    <2>3. CASE \E v \in Workers, q \in Regs : JobNext(v, q)
      BY <1>1, <2>0, <2>3 DEF JobNext
    <2>4. CASE \E v \in Workers : JobDone(v) \/ WorkerCrashes(v)
      BY <1>1, <2>0, <2>4 DEF JobDone, WorkerCrashes, IdleJob
    <2>5. CASE \E v \in Workers, pc \in JobPCs : JobGoto(v, pc)
      <3>1. PICK v \in Workers, pc \in JobPCs : job' = [job EXCEPT ![v] = [job[v] EXCEPT !.pc = pc]]
        BY <2>0, <2>5 DEF JobGoto
      <3>2. [job[v] EXCEPT !.pc = pc].todo = job[v].todo
        BY <2>0 DEF JobState
      <3> QED  BY <1>1, <2>0, <3>1, <3>2
    <2>6. CASE \E p \in Providers : Redeploy(p)
      BY <1>1, <2>6 DEF Redeploy, IdleJob
    <2>7. ASSUME NEW v \in Workers, Reconcile(v)
          PROVE  r \in job[w].todo \/ r \in Claimable
      <3>1. CASE \/ JobExpire(v) \/ JobConfirm(v) \/ JobNotify(v) \/ JobLater(v)
                 \/ JobPoll(v) \/ JobPollFails(v)
        BY <2>5, <3>1 DEF JobExpire, JobConfirm, JobNotify, JobLater, JobPoll, JobPollFails, JobPCs
      <3> QED  BY <2>2, <2>3, <2>4, <2>7, <3>1 DEF Reconcile, JobStep
    <2>8. ASSUME NEW k \in Calls, Register(k) \/ Handle(k)
          PROVE  UNCHANGED job
      <3>1. CASE Register(k)
        BY <3>1 DEF Register, RegisterLookup, RegisterSweep, RegisterExpires, RegisterCheck, RegisterLock,
           RegisterFree, RegisterReserve, RegisterRefused, RegisterCheckout, RegisterInsert,
           RegisterUndo, RegisterSettle, RegisterRecord, RegisterFinish, OnlyCall
      <3>2. CASE Handle(k)
        BY <3>2 DEF Handle, CancelRead, CheckInRead, VerifyRead, SubmitRead, ReviewRead,
           CancelHasCheckIn, CancelWrite, CheckInWrite, VerifyPoll, VerifyConfirm, CallSweep, CallExpires,
           SubmitWrite, ReviewWrite, Notify, OnlyCall
      <3> QED  BY <2>8, <3>1, <3>2
    <2>9. CASE Environment
      <3>1. CASE \/ \E q \in Regs : Clock(q) \/ \E amount \in Settlements : BankTransfer(q, amount)
                 \/ \E c \in Categories : LockExpires(c) \/ SetOpen(c)
                 \/ \E c \in Categories, n \in 0..MaxCapacity : UpdateCapacity(c, n) /\ UNCHANGED serviceVars
                 \/ \E u \in Users, key \in Keys : KeyExpires(u, key)
                 \/ \E k \in Calls : CallFails(k)
        BY <2>1, <3>1 DEF Clock, BankTransfer, LockExpires, SetOpen, KeyExpires, CallFails, serviceVars
      <3> QED  BY <2>4, <2>6, <2>9, <3>1 DEF Environment
    <2>10. CASE UNCHANGED vars
      BY <2>1, <2>10 DEF vars, serviceVars
    <2> QED  BY <2>1, <2>7, <2>8, <2>9, <2>10 DEF Next
  <1>2. ASSUME NEW w \in Workers, NEW r \in job'[w].todo
        PROVE  r \in Regs /\ pay[r].status # "NONE"
    <2>1. CASE r \in Claimable
      BY <2>1 DEF Claimable
    <2>2. CASE r \in job[w].todo
      BY <2>2 DEF BatchesArePayments, JobsOK, JobState
    <2> QED  BY <1>1, <1>2, <2>1, <2>2
  <1> QED  BY <1>2, PaymentsStay DEF PaymentStays, BatchesArePayments

LEMMA EnvironmentInv ==
    ASSUME CallsOK, JobsOK, RestOK, Environment
    PROVE  CallsOK' /\ JobsOK' /\ RestOK'
  <1>1. ASSUME call' = call, provider' = provider PROVE CallsOK'
    BY <1>1 DEF CallsOK, CallOK, SettlesAtOnce
  <1>2. ASSUME job' = job PROVE JobsOK'
    BY <1>2 DEF JobsOK, JobOK
  <1>3. CASE \/ \E r \in Regs : Clock(r)
             \/ \E c \in Categories, n \in 0..MaxCapacity : UpdateCapacity(c, n) /\ UNCHANGED serviceVars
    <2>1. UNCHANGED serviceVars
      BY <1>3 DEF Clock
    <2> QED  BY <1>1, <1>2, <2>1 DEF serviceVars, RestOK
  <1>4. ASSUME NEW r \in Regs, NEW amount \in Settlements, BankTransfer(r, amount)
        PROVE  CallsOK' /\ JobsOK' /\ RestOK'
    BY <1>1, <1>2, <1>4 DEF BankTransfer, RestOK
  <1>5. ASSUME NEW c \in Categories, LockExpires(c)
        PROVE  CallsOK' /\ JobsOK' /\ RestOK'
    <2>1. ASSUME NEW k \in Calls
          PROVE  /\ call'[k] \in CallState
                 /\ call'[k].pc = call[k].pc /\ call'[k].user = call[k].user
                 /\ call'[k].cat = call[k].cat /\ call'[k].reg = call[k].reg
      <3>1. call[k] \in CallState
        BY DEF CallsOK
      <3>2. call'[k] = [call[k] EXCEPT !.lock = "lapsed"] \/ call'[k] = call[k]
        BY <1>5 DEF LockExpires
      <3> QED  BY <3>1, <3>2 DEF CallState
    <2>2. call' = [k \in Calls |-> call'[k]] /\ provider' = provider /\ job' = job
      BY <1>5 DEF LockExpires
    <2>3. CallsOK'
      <3>1. call' \in [Calls -> CallState]
        BY <2>1, <2>2
      <3>2. \A k \in Calls : CallOK(call[k])'
        BY <2>1, <2>2 DEF CallsOK, CallOK, SettlesAtOnce
      <3> QED  BY <3>1, <3>2 DEF CallsOK
    <2>4. lock' \in [Categories -> Calls \cup {None, Orphan}]
      BY <1>5 DEF LockExpires, RestOK
    <2> QED  BY <1>2, <1>5, <2>2, <2>3, <2>4 DEF LockExpires, RestOK
  <1>6. ASSUME NEW c \in Categories, SetOpen(c)
        PROVE  CallsOK' /\ JobsOK' /\ RestOK'
    <2>1. open' \subseteq Categories
      BY <1>6 DEF SetOpen, RestOK
    <2> QED  BY <1>1, <1>2, <1>6, <2>1 DEF SetOpen, RestOK
  <1>7. ASSUME NEW u \in Users, NEW key \in Keys, KeyExpires(u, key)
        PROVE  CallsOK' /\ JobsOK' /\ RestOK'
    <2>1. idem' = [idem EXCEPT ![u] = [idem[u] EXCEPT ![key] = None]]
      BY <1>7 DEF KeyExpires, RestOK
    <2>2. [idem[u] EXCEPT ![key] = None] \in [Keys -> Regs \cup {None}]
      BY DEF RestOK
    <2>3. idem' \in [Users -> [Keys -> Regs \cup {None}]]
      BY <2>1, <2>2 DEF RestOK
    <2> QED  BY <1>1, <1>2, <1>7, <2>3 DEF KeyExpires, RestOK
  <1>8. ASSUME NEW k \in Calls, CallFails(k)
        PROVE  CallsOK' /\ JobsOK' /\ RestOK'
    <2>1. lock' \in [Categories -> Calls \cup {None, Orphan}]
      BY <1>8 DEF CallFails, Released, Orphaned, RestOK
    <2> QED  BY <1>2, <1>8, <2>1, ReturnOK DEF CallFails, RestOK
  <1>9. ASSUME NEW w \in Workers, WorkerCrashes(w)
        PROVE  CallsOK' /\ JobsOK' /\ RestOK'
    <2>1. JobsOK'
      BY <1>9, IdleJobOK DEF WorkerCrashes, JobsOK
    <2> QED  BY <1>1, <1>9, <2>1 DEF WorkerCrashes, OnlyJob, RestOK
  <1>10. ASSUME NEW p \in Providers, Redeploy(p)
         PROVE  CallsOK' /\ JobsOK' /\ RestOK'
    <2>1. CallsOK'
      BY <1>10, IdleCallOK DEF Redeploy, CallsOK, CallOK, IdleCall
    <2>2. JobsOK'
      BY <1>10, IdleJobOK DEF Redeploy, JobsOK
    <2>3. lock' \in [Categories -> Calls \cup {None, Orphan}]
      BY <1>10 DEF Redeploy, Orphaned, RestOK
    <2> QED  BY <1>10, <2>1, <2>2, <2>3 DEF Redeploy, RestOK
  <1> QED
    BY <1>3, <1>4, <1>5, <1>6, <1>7, <1>8, <1>9, <1>10 DEF Environment

LEMMA ServiceInvStep ==
    ASSUME ServiceInv, [Next]_vars
    PROVE  ServiceInv'
  <1>0. StoreTypeOK /\ CallsOK /\ JobsOK /\ RestOK /\ BatchesArePayments
    BY ServiceInvParts
  <1>1. StoreTypeOK' /\ BatchesArePayments'
    BY <1>0, StepStore, StoreTypeStep, BatchesStep
  <1>2. CallsOK' /\ JobsOK' /\ RestOK'
    <2>1. CASE UNCHANGED vars
      BY <1>0, <2>1 DEF vars, serviceVars, CallsOK, CallOK, JobsOK, JobOK, RestOK, SettlesAtOnce
    <2> QED
      BY <1>0, <2>1, RegisterInv, HandleInv, ReconcileInv, EnvironmentInv DEF Next
  <1> QED
    BY <1>1, <1>2 DEF ServiceInv, TypeOK, CallsOK, JobsOK, RestOK

LEMMA ServiceInvInit == Init => ServiceInv
  <1> SUFFICES ASSUME Init PROVE ServiceInv
    OBVIOUS
  <1>1. StoreTypeOK
    BY DEF Init, StoreInit, StoreTypeOK
  <1>2. CallsOK /\ JobsOK
    BY IdleCallOK, IdleJobOK DEF Init, CallsOK, CallOK, JobsOK, IdleCall
  <1>3. RestOK
    BY DEF Init, RestOK, NoticeBound
  <1>4. BatchesArePayments
    BY DEF Init, BatchesArePayments, IdleJob
  <1> QED  BY <1>1, <1>2, <1>3, <1>4, ServiceInvParts

-----------------------------------------------------------------------------
(* The theorems *)

LEMMA ServiceInvariant == Spec => []ServiceInv
  BY ServiceInvInit, ServiceInvStep, PTL DEF Spec

\* Handlers, workers and tables hold values of their types: no handler acts on
\* a user, a category or a registration it has not read (TypeOK).
THEOREM ServiceTypeSafe == Spec => []TypeOK
  <1>1. ServiceInv => TypeOK
    BY DEF ServiceInv
  <1> QED  BY <1>1, ServiceInvariant, PTL

\* Whatever requests, reconcilers, crashes, timeouts and redeployments do, the
\* tables go only through transactions of the repository (ImplementsStore).
THEOREM ServiceImplementsStore == Spec => ImplementsStore
  <1>1. Init => StoreInit
    BY DEF Init
  <1> QED
    BY <1>1, StepStore, ServiceInvariant, PTL DEF Spec, StoreSpec, ImplementsStore

\* What is proved of the tables holds while the service runs on them: no
\* category grows past its capacity, no runner has two active places at an
\* event, confirmed places have a ticket and are paid, given-up seats stay so,
\* and seats move as the ledger says.
THEOREM ServiceKeepsPromises ==
    Spec => /\ NeverOversells /\ SeatsAreNotRevived /\ ImplementsLedger
            /\ [](OneActivePerEvent /\ TicketMatchesStatus /\ ConfirmedIsPaid)
  BY ServiceImplementsStore, NoOverselling, NoRevival, StoreImplementsLedger,
     OnePlacePerRunner, TicketsMatch, PaidPlaces, PTL DEF ImplementsStore

-----------------------------------------------------------------------------
(* The lock a request believes it holds *)

Held(k) == call[k].lock = "held" => call[k].cat \in Categories /\ lock[call[k].cat] = k

\* A step that takes no lock: each request forgets its lock or stays as it was.
Keeps(k) == call'[k].lock = "none" \/ (call'[k].lock = call[k].lock /\ call'[k].cat = call[k].cat)

LEMMA CallKeeps ==
    ASSUME CallsOK, NEW k \in Calls, NEW q \in Calls,
           \/ \E pc \in CallPCs : Goto(k, pc)
           \/ \E pc \in CallPCs, r \in Regs : GotoWith(k, pc, r)
           \/ Return(k)
           \/ \E pc \in CallPCs, r \in Regs, b \in BOOLEAN : Start(k, pc, r, b)
           \/ \E u \in Users, c \in Categories, key \in Keys \cup {None} : RegisterLookup(k, u, c, key)
    PROVE  Keeps(q)
  <1>0. call[k] \in CallState /\ call \in [Calls -> CallState]
    BY DEF CallsOK
  <1>1. CASE \E pc \in CallPCs : Goto(k, pc)
    BY <1>0, <1>1 DEF Goto, CallState, Keeps
  <1>2. CASE \E pc \in CallPCs, r \in Regs : GotoWith(k, pc, r)
    <2>1. PICK pc \in CallPCs, r \in Regs : GotoWith(k, pc, r)
      BY <1>2
    <2>2. call' = [call EXCEPT ![k] = [call[k] EXCEPT !.pc = pc, !.reg = r]]
      BY <2>1 DEF GotoWith
    <2>3. /\ [call[k] EXCEPT !.pc = pc, !.reg = r].lock = call[k].lock
          /\ [call[k] EXCEPT !.pc = pc, !.reg = r].cat = call[k].cat
      BY <1>0 DEF CallState
    <2> QED  BY <1>0, <2>2, <2>3 DEF Keeps
  <1>3. CASE Return(k)
    BY <1>0, <1>3 DEF Return, IdleCall, Keeps
  <1>4. CASE \E pc \in CallPCs, r \in Regs, b \in BOOLEAN : Start(k, pc, r, b)
    <2>1. PICK pc \in CallPCs, r \in Regs, b \in BOOLEAN : Start(k, pc, r, b)
      BY <1>4
    <2>2. [IdleCall EXCEPT !.pc = pc, !.reg = r, !.lapsed = b].lock = "none"
      BY DEF IdleCall
    <2> QED  BY <1>0, <2>1, <2>2 DEF Start, Keeps
  <1>5. CASE \E u \in Users, c \in Categories, key \in Keys \cup {None} : RegisterLookup(k, u, c, key)
    BY <1>0, <1>5 DEF RegisterLookup, IdleCall, Keeps
  <1> QED  BY <1>1, <1>2, <1>3, <1>4, <1>5

LEMMA CallStepKeeps ==
    ASSUME CallsOK, StoreTypeOK, NEW k \in Calls, Register(k) \/ Handle(k), NEW q \in Calls
    PROVE  RegisterLock(k) \/ RegisterFinish(k) \/ (lock' = lock /\ Keeps(q))
  <1> USE DEF CallPCs, RegisterPCs
  <1>0. CallOK(call[k])
    BY DEF CallsOK
  <1>1. CASE \E u \in Users, c \in Categories, key \in Keys \cup {None} : RegisterLookup(k, u, c, key)
    BY <1>1, CallKeeps DEF RegisterLookup, OnlyCall
  <1>2. CASE \/ RegisterSweep(k) \/ RegisterExpires(k) \/ RegisterCheck(k) \/ RegisterRefused(k) \/ RegisterCheckout(k)
             \/ RegisterInsert(k) \/ RegisterUndo(k) \/ RegisterSettle(k) \/ RegisterRecord(k)
    <2>1. Return(k) \/ \E pc \in CallPCs : Goto(k, pc)
      BY <1>2 DEF RegisterSweep, RegisterExpires, RegisterCheck, RegisterRefused, RegisterCheckout, RegisterInsert,
                  RegisterUndo, RegisterSettle, RegisterRecord
    <2>2. lock' = lock
      BY <1>2 DEF RegisterSweep, RegisterExpires, RegisterCheck, RegisterRefused, RegisterCheckout, RegisterInsert,
                  RegisterUndo, RegisterSettle, RegisterRecord, OnlyCall
    <2> QED  BY <2>1, <2>2, CallKeeps
  <1>3. CASE \E r \in Regs : RegisterFree(k, r) \/ RegisterReserve(k, r)
    BY <1>3, CallKeeps DEF RegisterFree, RegisterReserve
  <1>4. ASSUME NEW r \in Regs,
               \/ CancelRead(k, r) \/ CheckInRead(k, r) \/ VerifyRead(k, r)
               \/ SubmitRead(k, r) \/ ReviewRead(k, r)
        PROVE  lock' = lock /\ Keeps(q)
    <2>1. call' = [call EXCEPT ![k] = call'[k]] /\ call'[k].lock = "none" /\ lock' = lock
      <3>1. \A pc, b : Start(k, pc, r, b) =>
              call' = [call EXCEPT ![k] = call'[k]] /\ call'[k].lock = "none"
        BY DEF Start, IdleCall, CallsOK
      <3> QED
        BY <1>4, <3>1 DEF CancelRead, CheckInRead, VerifyRead, SubmitRead, ReviewRead, OnlyCall
    <2> QED  BY <2>1 DEF Keeps, CallsOK
  <1>5. CASE \/ CancelHasCheckIn(k) \/ CancelWrite(k) \/ CheckInWrite(k) \/ VerifyPoll(k)
             \/ VerifyConfirm(k) \/ CallSweep(k) \/ CallExpires(k) \/ SubmitWrite(k) \/ ReviewWrite(k) \/ Notify(k)
    <2>1. Return(k) \/ \E pc \in CallPCs : Goto(k, pc)
      BY <1>5 DEF CancelHasCheckIn, CancelWrite, CheckInWrite, VerifyPoll, VerifyConfirm, CallSweep, CallExpires,
                  SubmitWrite, ReviewWrite, Notify
    <2>2. lock' = lock
      BY <1>5 DEF CancelHasCheckIn, CancelWrite, CheckInWrite, VerifyPoll, VerifyConfirm, CallSweep, CallExpires,
                  SubmitWrite, ReviewWrite, Notify, OnlyCall
    <2> QED  BY <2>1, <2>2, CallKeeps
  <1> QED
    BY <1>1, <1>2, <1>3, <1>4, <1>5 DEF Register, Handle

LEMMA HeldStep ==
    ASSUME ServiceInv, \A k \in Calls : Held(k), [Next]_vars, NEW q \in Calls
    PROVE  Held(q)'
  <1>0. CallsOK /\ RestOK /\ StoreTypeOK
    BY ServiceInvParts
  <1>1. ASSUME lock' = lock, Keeps(q)
        PROVE  Held(q)'
    BY <1>1 DEF Held, Keeps
  <1>2. CASE UNCHANGED <<call, lock>>
    BY <1>2 DEF Held
  <1>3. ASSUME NEW k \in Calls, RegisterLock(k)
        PROVE  Held(q)'
    <2>1. call[k].cat \in Categories
      BY <1>0, <1>3 DEF RegisterLock, At, CallsOK, CallOK, EarlyPCs
    <2>2. CASE lock' = lock /\ (Return(k) \/ Goto(k, "create"))
      BY <1>0, <1>1, <2>2, CallKeeps DEF CallPCs, RegisterPCs
    <2>3. CASE /\ lock[call[k].cat] = None
               /\ lock' = [lock EXCEPT ![call[k].cat] = k]
               /\ call' = [call EXCEPT ![k].pc = "create", ![k].lock = "held"]
      <3>1. call'[q].cat = call[q].cat /\ (q # k => call'[q].lock = call[q].lock)
        BY <1>0, <2>3 DEF CallsOK, CallState
      <3>2. CASE q = k
        BY <1>0, <2>1, <2>3, <3>1, <3>2 DEF Held, RestOK
      <3>3. CASE q # k /\ call[q].lock = "held"
        <4>1. lock[call[q].cat] = q /\ call[q].cat # call[k].cat
          BY <2>3, <3>3, ServiceAssumption DEF Held
        <4> QED  BY <1>0, <2>3, <3>1, <3>3, <4>1 DEF Held, RestOK
      <3> QED  BY <3>1, <3>2, <3>3 DEF Held
    <2> QED  BY <1>3, <2>2, <2>3 DEF RegisterLock
  <1>4. ASSUME NEW k \in Calls, Return(k), lock' \in {Released(k), Orphaned({k})}
        PROVE  Held(q)'
    <2>1. CASE q = k
      BY <1>0, <1>4, <2>1 DEF Return, IdleCall, CallsOK, Held
    <2>2. CASE q # k
      <3>1. call'[q] = call[q]
        BY <1>0, <1>4, <2>2 DEF Return, CallsOK
      <3>2. call[q].cat \in Categories /\ lock[call[q].cat] = q => lock'[call[q].cat] = q
        BY <1>0, <1>4, <2>2 DEF Released, Orphaned, RestOK
      <3> QED  BY <3>1, <3>2 DEF Held
    <2> QED  BY <2>1, <2>2
  <1>5. ASSUME NEW c \in Categories, LockExpires(c)
        PROVE  Held(q)'
    <2>1. call'[q].lock = "held" => call'[q] = call[q] /\ q # lock[c]
      <3>1. CASE q = lock[c] /\ call[q].lock = "held"
        BY <1>0, <1>5, <3>1 DEF LockExpires, CallsOK, CallState
      <3>2. CASE ~(q = lock[c] /\ call[q].lock = "held")
        BY <1>5, <3>2 DEF LockExpires
      <3> QED  BY <3>1, <3>2
    <2>2. call[q].cat \in Categories /\ lock[call[q].cat] = q /\ q # lock[c] => lock'[call[q].cat] = q
      BY <1>0, <1>5 DEF LockExpires, RestOK
    <2> QED  BY <2>1, <2>2 DEF Held
  <1>6. ASSUME NEW p \in Providers, Redeploy(p)
        PROVE  Held(q)'
    BY <1>6 DEF Redeploy, IdleCall, Held
  <1>7. ASSUME NEW k \in Calls, Register(k) \/ Handle(k)
        PROVE  Held(q)'
    BY <1>0, <1>1, <1>3, <1>4, <1>7, CallStepKeeps DEF RegisterFinish
  <1>8. ASSUME NEW w \in Workers, Reconcile(w)
        PROVE  UNCHANGED <<call, lock>>
    BY <1>8 DEF Reconcile, JobStep, JobClaim, JobNext, JobDone, JobExpire, JobConfirm, JobNotify,
                JobLater, JobPoll, JobPollFails, OnlyJob
  <1>9. CASE Environment
    <2>1. CASE \/ \E r \in Regs : Clock(r) \/ \E amount \in Settlements : BankTransfer(r, amount)
               \/ \E c \in Categories : SetOpen(c)
               \/ \E c \in Categories, n \in 0..MaxCapacity : UpdateCapacity(c, n) /\ UNCHANGED serviceVars
               \/ \E u \in Users, key \in Keys : KeyExpires(u, key)
               \/ \E w \in Workers : WorkerCrashes(w)
      BY <1>2, <2>1 DEF Clock, BankTransfer, SetOpen, KeyExpires, WorkerCrashes, OnlyJob, serviceVars
    <2>2. CASE \E k \in Calls : CallFails(k)
      BY <1>4, <2>2 DEF CallFails
    <2> QED  BY <1>5, <1>6, <1>9, <2>1, <2>2 DEF Environment
  <1>10. CASE UNCHANGED vars
    BY <1>2, <1>10 DEF vars, serviceVars
  <1> QED
    BY <1>2, <1>7, <1>8, <1>9, <1>10 DEF Next

\* Lock.Release never drops a lock another request took over after a TTL ran
\* out: who believes to hold a category's lock, within the TTL, does hold it.
THEOREM LocksAreHeld == Spec => []LockBelief
  <1>1. Init => \A k \in Calls : Held(k)
    BY DEF Init, IdleCall, Held
  <1>2. (\A k \in Calls : Held(k)) => LockBelief
    BY DEF Held, LockBelief
  <1>3. ServiceInv /\ (\A k \in Calls : Held(k)) /\ [Next]_vars => (\A k \in Calls : Held(k))'
    BY HeldStep
  <1> QED
    BY <1>1, <1>2, <1>3, ServiceInvariant, PTL DEF Spec

-----------------------------------------------------------------------------
(* Nobody is let in who was never confirmed *)

AtTheDoor(k) == At(k, "checkin") => call[k].reg \in tickets

\* A step that brings no request to the door.
StaysOut(k) == call'[k].pc = "checkin" => call[k].pc = "checkin" /\ call'[k].reg = call[k].reg

LEMMA TicketsStay ==
    ASSUME StoreTypeOK, [StoreNext]_storeVars
    PROVE  tickets \subseteq tickets'
  <1>1. CASE Creates
    <2>1. PICK n \in Regs, v \in Users, c \in Categories : Create(n, v, c, c \in FreeCategories)
      BY <1>1 DEF Creates
    <2> QED  BY <2>1 DEF Create
  <1>2. CASE TableTransaction \/ UNCHANGED storeVars
    BY <1>2 DEF TableTransaction, SweepBegins, SweepCommits, SweepRollsBack, ClaimPendingPayments,
           UpdateCapacity, storeVars
  <1>3. ASSUME NEW r \in Regs, RegistrationTransaction(r), ~Creates
        PROVE  tickets \subseteq tickets'
    <2>1. CASE \E p \in Providers : IF SettlesAtOnce(p) THEN ConfirmWithPayment(r, p)
                                                        ELSE CreatePayment(r, p)
      BY <2>1 DEF ConfirmWithPayment, CreatePayment
    <2>2. CASE Cancel(r) \/ ConfirmStoredPayment(r) \/ SubmitManualPayment(r)
               \/ ApproveManualPayment(r) \/ FailManualPayment(r) \/ CheckIn(r)
               \/ PaymentLapses(r) \/ LeaseEnds(r) \/ ReconcileDue(r)
      BY <2>2 DEF Cancel, ConfirmStoredPayment, SubmitManualPayment, ApproveManualPayment,
                  FailManualPayment, CheckIn, PaymentLapses, LeaseEnds, ReconcileDue
    <2>3. CASE \E w \in Workers : SchedulePaymentReconciliation(w, r) \/ ExpireClaimedPayment(w, r)
      BY <2>3 DEF SchedulePaymentReconciliation, ExpireClaimedPayment
    <2> QED  BY <1>3, <2>1, <2>2, <2>3 DEF RegistrationTransaction, Creates
  <1> QED  BY <1>1, <1>2, <1>3 DEF StoreNext

LEMMA CallStaysOut ==
    ASSUME CallsOK, NEW k \in Calls, NEW q \in Calls,
           \/ \E pc \in CallPCs \ {"checkin"} : Goto(k, pc)
           \/ \E pc \in CallPCs \ {"checkin"}, r \in Regs : GotoWith(k, pc, r)
           \/ Return(k)
           \/ \E pc \in CallPCs \ {"checkin"}, r \in Regs : \E b : Start(k, pc, r, b)
    PROVE  StaysOut(q)
  <1>0. call[k] \in CallState /\ call \in [Calls -> CallState]
    BY DEF CallsOK
  <1>1. CASE \E pc \in CallPCs \ {"checkin"} : Goto(k, pc)
    BY <1>0, <1>1 DEF Goto, CallState, StaysOut
  <1>2. CASE \E pc \in CallPCs \ {"checkin"}, r \in Regs : GotoWith(k, pc, r)
    <2>1. PICK pc \in CallPCs \ {"checkin"}, r \in Regs : GotoWith(k, pc, r)
      BY <1>2
    <2>2. call' = [call EXCEPT ![k] = [call[k] EXCEPT !.pc = pc, !.reg = r]]
      BY <2>1 DEF GotoWith
    <2>3. [call[k] EXCEPT !.pc = pc, !.reg = r].pc = pc
      BY <1>0 DEF CallState
    <2> QED  BY <1>0, <2>2, <2>3 DEF StaysOut
  <1>3. CASE Return(k)
    BY <1>0, <1>3 DEF Return, IdleCall, StaysOut
  <1>4. CASE \E pc \in CallPCs \ {"checkin"}, r \in Regs : \E b : Start(k, pc, r, b)
    <2>0. PICK pc \in CallPCs \ {"checkin"}, r \in Regs : \E b : Start(k, pc, r, b)
      BY <1>4
    <2>1. PICK b : Start(k, pc, r, b)
      BY <2>0
    <2>2. [IdleCall EXCEPT !.pc = pc, !.reg = r, !.lapsed = b].pc = pc
      BY DEF IdleCall
    <2> QED  BY <1>0, <2>1, <2>2 DEF Start, StaysOut
  <1> QED  BY <1>1, <1>2, <1>3, <1>4

LEMMA RegisterStaysOut ==
    ASSUME CallsOK, NEW k \in Calls, Register(k), NEW q \in Calls
    PROVE  StaysOut(q) /\ checkIns' = checkIns
  <1> USE DEF CallPCs, RegisterPCs
  <1>1. CASE \E u \in Users, c \in Categories, key \in Keys \cup {None} : RegisterLookup(k, u, c, key)
    BY <1>1 DEF RegisterLookup, IdleCall, StaysOut, CallsOK, storeVars
  <1>2. CASE RegisterLock(k)
    <2>1. CASE Goto(k, "create") \/ Return(k)
      BY <1>2, <2>1, CallStaysOut DEF RegisterLock, storeVars
    <2>2. CASE call' = [call EXCEPT ![k].pc = "create", ![k].lock = "held"]
      BY <1>2, <2>2 DEF RegisterLock, storeVars, StaysOut, CallsOK, CallState
    <2> QED  BY <1>2, <2>1, <2>2 DEF RegisterLock
  <1>3. CASE \E r \in Regs : RegisterFree(k, r) \/ RegisterReserve(k, r)
    BY <1>3, CallStaysOut DEF RegisterFree, RegisterReserve, Create
  <1>4. CASE \/ RegisterSweep(k) \/ RegisterExpires(k) \/ RegisterCheck(k) \/ RegisterRefused(k) \/ RegisterCheckout(k)
             \/ RegisterInsert(k) \/ RegisterUndo(k) \/ RegisterSettle(k) \/ RegisterRecord(k)
             \/ RegisterFinish(k)
    <2>1. Return(k) \/ \E pc \in CallPCs \ {"checkin"} : Goto(k, pc)
      BY <1>4 DEF RegisterSweep, RegisterExpires, RegisterCheck, RegisterRefused, RegisterCheckout, RegisterInsert,
                  RegisterUndo, RegisterSettle, RegisterRecord, RegisterFinish
    <2>2. checkIns' = checkIns
      BY <1>4 DEF RegisterSweep, RegisterExpires, RegisterCheck, RegisterRefused, RegisterCheckout, RegisterInsert,
                  RegisterUndo, RegisterSettle, RegisterRecord, RegisterFinish, storeVars,
                  SweepBegins, SweepCommits, CreatePayment, ConfirmWithPayment, Cancel
    <2> QED  BY <2>1, <2>2, CallStaysOut
  <1> QED  BY <1>1, <1>2, <1>3, <1>4 DEF Register

LEMMA HandleStaysOut ==
    ASSUME CallsOK, NEW k \in Calls, Handle(k), NEW q \in Calls
    PROVE  \/ StaysOut(q) /\ checkIns' = checkIns
           \/ StaysOut(q) /\ CheckInWrite(k)
           \/ \E r \in Regs : CheckInRead(k, r)
  <1> USE DEF CallPCs, RegisterPCs
  <1>1. ASSUME NEW r \in Regs, CancelRead(k, r) \/ VerifyRead(k, r) \/ SubmitRead(k, r) \/ ReviewRead(k, r)
        PROVE  StaysOut(q) /\ checkIns' = checkIns
    <2>1. \E pc \in CallPCs \ {"checkin"} : \E b : Start(k, pc, r, b)
      BY <1>1 DEF CancelRead, VerifyRead, SubmitRead, ReviewRead
    <2>2. checkIns' = checkIns
      BY <1>1 DEF CancelRead, VerifyRead, SubmitRead, ReviewRead, storeVars
    <2> QED  BY <2>1, <2>2, CallStaysOut
  <1>2. CASE CheckInWrite(k)
    BY <1>2, CallStaysOut DEF CheckInWrite
  <1>3. CASE \/ CancelHasCheckIn(k) \/ CancelWrite(k) \/ VerifyPoll(k) \/ VerifyConfirm(k)
             \/ CallSweep(k) \/ CallExpires(k) \/ SubmitWrite(k) \/ ReviewWrite(k) \/ Notify(k)
    <2>1. Return(k) \/ \E pc \in CallPCs \ {"checkin"} : Goto(k, pc)
      BY <1>3 DEF CancelHasCheckIn, CancelWrite, VerifyPoll, VerifyConfirm, CallSweep, CallExpires,
                  SubmitWrite, ReviewWrite, Notify
    <2>2. checkIns' = checkIns
      BY <1>3 DEF CancelHasCheckIn, CancelWrite, VerifyPoll, VerifyConfirm, CallSweep, CallExpires,
                  SubmitWrite, ReviewWrite, Notify, storeVars, Cancel, ConfirmStoredPayment,
                  SweepBegins, SweepCommits, SubmitManualPayment, ApproveManualPayment, FailManualPayment
    <2> QED  BY <2>1, <2>2, CallStaysOut
  <1> QED  BY <1>1, <1>2, <1>3 DEF Handle

LEMMA OthersStayOut ==
    ASSUME CallsOK, Environment \/ (\E w \in Workers : Reconcile(w)) \/ UNCHANGED vars
    PROVE  (\A q \in Calls : StaysOut(q)) /\ checkIns' = checkIns
  <1>1. CASE UNCHANGED vars
    BY <1>1 DEF vars, storeVars, serviceVars, StaysOut
  <1>2. ASSUME NEW w \in Workers, Reconcile(w)
        PROVE  (\A q \in Calls : StaysOut(q)) /\ checkIns' = checkIns
    <2>1. call' = call
      BY <1>2 DEF Reconcile, JobStep, JobClaim, JobNext, JobDone, JobExpire, JobConfirm, JobNotify,
                  JobLater, JobPoll, JobPollFails, OnlyJob
    <2>2. checkIns' = checkIns
      BY <1>2 DEF Reconcile, JobStep, JobClaim, JobNext, JobDone, JobExpire, JobConfirm, JobNotify,
                  JobLater, JobPoll, JobPollFails, storeVars, ClaimPendingPayments,
                  ExpireClaimedPayment, ConfirmStoredPayment, SchedulePaymentReconciliation
    <2> QED  BY <2>1, <2>2 DEF StaysOut
  <1>3. CASE \/ \E r \in Regs : Clock(r) \/ \E amount \in Settlements : BankTransfer(r, amount)
             \/ \E c \in Categories : SetOpen(c)
             \/ \E c \in Categories, n \in 0..MaxCapacity : UpdateCapacity(c, n) /\ UNCHANGED serviceVars
             \/ \E u \in Users, key \in Keys : KeyExpires(u, key)
             \/ \E w \in Workers : WorkerCrashes(w)
    BY <1>3 DEF Clock, PaymentLapses, LeaseEnds, ReconcileDue, BankTransfer, SetOpen, UpdateCapacity,
                KeyExpires, WorkerCrashes, OnlyJob, storeVars, serviceVars, StaysOut
  <1>4. CASE \E c \in Categories : LockExpires(c)
    BY <1>4 DEF LockExpires, storeVars, StaysOut, CallsOK, CallState
  <1>5. CASE \E k \in Calls : CallFails(k)
    BY <1>5, CallStaysOut DEF CallFails, SweepRollsBack, storeVars
  <1>6. CASE \E p \in Providers : Redeploy(p)
    BY <1>6 DEF Redeploy, SweepRollsBack, IdleCall, storeVars, StaysOut
  <1> QED  BY <1>1, <1>2, <1>3, <1>4, <1>5, <1>6 DEF Environment

LEMMA DoorStep ==
    ASSUME ServiceInv, TicketMatchesStatus, CheckedInHasTicket, \A k \in Calls : AtTheDoor(k), [Next]_vars
    PROVE  CheckedInHasTicket' /\ \A q \in Calls : AtTheDoor(q)'
  <1>0. CallsOK /\ StoreTypeOK
    BY ServiceInvParts
  <1>1. tickets \subseteq tickets'
    BY <1>0, StepStore, TicketsStay
  <1>2. ASSUME NEW q \in Calls, StaysOut(q)
        PROVE  AtTheDoor(q)'
    BY <1>1, <1>2 DEF StaysOut, AtTheDoor, At
  <1>3. ASSUME checkIns' = checkIns
        PROVE  CheckedInHasTicket'
    BY <1>1, <1>3 DEF CheckedInHasTicket
  <1>4. ASSUME NEW k \in Calls, CheckInWrite(k)
        PROVE  CheckedInHasTicket'
    <2>1. call[k].reg \in tickets /\ checkIns' \subseteq checkIns \cup {call[k].reg}
      BY <1>4 DEF CheckInWrite, AtTheDoor, CheckIn, storeVars
    <2> QED  BY <1>1, <2>1 DEF CheckedInHasTicket
  <1>5. ASSUME NEW k \in Calls, NEW r \in Regs, CheckInRead(k, r), NEW q \in Calls
        PROVE  checkIns' = checkIns /\ AtTheDoor(q)'
    <2>1. r \in tickets'
      BY <1>1, <1>5 DEF CheckInRead, TicketMatchesStatus
    <2>2. q = k => call'[q].reg = r
      BY <1>0, <1>5 DEF CheckInRead, Start, IdleCall, CallsOK
    <2>3. q # k => call'[q] = call[q]
      BY <1>0, <1>5 DEF CheckInRead, Start, CallsOK
    <2> QED  BY <1>1, <1>5, <2>1, <2>2, <2>3 DEF CheckInRead, storeVars, AtTheDoor, At
  <1>6. CASE \E k \in Calls : Register(k)
    BY <1>0, <1>2, <1>3, <1>6, RegisterStaysOut
  <1>7. CASE \E k \in Calls : Handle(k)
    <2>1. PICK k \in Calls : Handle(k)
      BY <1>7
    <2>2. CASE \E r \in Regs : CheckInRead(k, r)
      BY <1>3, <1>5, <2>2 DEF CheckInRead, storeVars
    <2>3. CASE ~\E r \in Regs : CheckInRead(k, r)
      BY <1>0, <1>2, <1>3, <1>4, <2>1, <2>3, HandleStaysOut
    <2> QED  BY <2>2, <2>3
  <1>8. CASE Environment \/ (\E w \in Workers : Reconcile(w)) \/ UNCHANGED vars
    BY <1>0, <1>2, <1>3, <1>8, OthersStayOut
  <1> QED  BY <1>6, <1>7, <1>8 DEF Next

\* A check-in row belongs to a registration that has a ticket, although the
\* handler decides on a status it read before and its INSERT checks none.
THEOREM OnlyTicketHoldersEnter == Spec => []CheckedInHasTicket
  <1>1. Init => CheckedInHasTicket /\ \A k \in Calls : AtTheDoor(k)
    BY DEF Init, StoreInit, IdleCall, At, AtTheDoor, CheckedInHasTicket
  <1>2. /\ ServiceInv /\ TicketMatchesStatus
        /\ CheckedInHasTicket /\ (\A k \in Calls : AtTheDoor(k))
        /\ [Next]_vars
        => CheckedInHasTicket' /\ (\A k \in Calls : AtTheDoor(k))'
    BY DoorStep
  <1> QED
    BY <1>1, <1>2, ServiceInvariant, ServiceKeepsPromises, PTL DEF Spec
=============================================================================
