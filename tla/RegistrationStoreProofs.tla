---------------------- MODULE RegistrationStoreProofs ----------------------
(***************************************************************************)
(* Proofs about RegistrationStore for any number of users, categories,     *)
(* registrations and workers.                                              *)
(***************************************************************************)
EXTENDS RegistrationStore, FiniteSetTheorems, TLAPS

-----------------------------------------------------------------------------
(* Rows *)

\* A row that exists and gets a status of its table is still a row.
LEMMA RegRowStatus ==
    ASSUME NEW x \in RegRow \cup {NoReg}, x.status # "NONE", NEW s \in RegStatuses
    PROVE  /\ x \in RegRow
           /\ [x EXCEPT !.status = s] \in RegRow
           /\ [x EXCEPT !.status = s].status = s
           /\ [x EXCEPT !.status = s].user = x.user
           /\ [x EXCEPT !.status = s].cat = x.cat
  BY DEF RegRow, NoReg

LEMMA PayRowStatus ==
    ASSUME NEW x \in PayRow \cup {NoPay}, x.status # "NONE", NEW s \in PayStatuses
    PROVE  /\ x \in PayRow
           /\ [x EXCEPT !.status = s] \in PayRow
           /\ [x EXCEPT !.status = s].status = s
  BY DEF PayRow, NoPay

\* SetStatus changes the status of the rows it is given and nothing else.
LEMMA SetRegStatus ==
    ASSUME StoreTypeOK, NEW rows \in SUBSET Regs, NEW s \in RegStatuses,
           \A r \in rows : reg[r].status # "NONE"
    PROVE  /\ SetStatus(reg, rows, s) \in [Regs -> RegRow \cup {NoReg}]
           /\ \A r \in Regs \ rows : SetStatus(reg, rows, s)[r] = reg[r]
           /\ \A r \in rows : /\ SetStatus(reg, rows, s)[r].status = s
                              /\ SetStatus(reg, rows, s)[r].user = reg[r].user
                              /\ SetStatus(reg, rows, s)[r].cat = reg[r].cat
  <1>1. ASSUME NEW r \in Regs
        PROVE  reg[r] \in RegRow \cup {NoReg}
    BY DEF StoreTypeOK
  <1>2. ASSUME NEW r \in rows
        PROVE  /\ SetStatus(reg, rows, s)[r] = [reg[r] EXCEPT !.status = s]
               /\ [reg[r] EXCEPT !.status = s] \in RegRow
    BY <1>1, RegRowStatus DEF SetStatus
  <1> QED
    BY <1>1, <1>2, RegRowStatus DEF SetStatus

LEMMA SetPayStatus ==
    ASSUME StoreTypeOK, NEW rows \in SUBSET Regs, NEW s \in PayStatuses,
           \A r \in rows : pay[r].status # "NONE"
    PROVE  /\ SetStatus(pay, rows, s) \in [Regs -> PayRow \cup {NoPay}]
           /\ \A r \in Regs \ rows : SetStatus(pay, rows, s)[r] = pay[r]
           /\ \A r \in rows : SetStatus(pay, rows, s)[r].status = s
  <1>1. ASSUME NEW r \in Regs
        PROVE  pay[r] \in PayRow \cup {NoPay}
    BY DEF StoreTypeOK
  <1>2. ASSUME NEW r \in rows
        PROVE  /\ SetStatus(pay, rows, s)[r] = [pay[r] EXCEPT !.status = s]
               /\ [pay[r] EXCEPT !.status = s] \in PayRow
    BY <1>1, PayRowStatus DEF SetStatus
  <1> QED
    BY <1>1, <1>2, PayRowStatus DEF SetStatus

LEMMA NewPaymentType ==
    ASSUME NEW p \in Providers, NEW s \in PayStatuses
    PROVE  NewPayment(p, s) \in PayRow /\ NewPayment(p, s).status = s
  BY DEF NewPayment, PayRow

\* The clocks and the leases leave a payment row a payment row of its status.
LEMMA PayRowFlags ==
    ASSUME NEW x \in PayRow \cup {NoPay}, x.status # "NONE"
    PROVE  /\ x \in PayRow
           /\ [x EXCEPT !.lapsed = TRUE] \in PayRow
           /\ [x EXCEPT !.leased = FALSE] \in PayRow
           /\ [x EXCEPT !.later = FALSE] \in PayRow
           /\ [x EXCEPT !.worker = None, !.leased = FALSE, !.later = TRUE] \in PayRow
           /\ [x EXCEPT !.status = "FAILED", !.worker = None, !.leased = FALSE] \in PayRow
           /\ \A w \in Workers : [x EXCEPT !.worker = w, !.leased = TRUE] \in PayRow
  <1>1. x \in PayRow
    BY DEF NoPay
  <1>2. [x EXCEPT !.lapsed = TRUE] \in PayRow
    BY <1>1 DEF PayRow
  <1>3. [x EXCEPT !.leased = FALSE] \in PayRow
    BY <1>1 DEF PayRow
  <1>4. [x EXCEPT !.later = FALSE] \in PayRow
    BY <1>1 DEF PayRow
  <1>5. [x EXCEPT !.worker = None, !.leased = FALSE, !.later = TRUE] \in PayRow
    BY <1>1 DEF PayRow
  <1>6. [x EXCEPT !.status = "FAILED", !.worker = None, !.leased = FALSE] \in PayRow
    BY <1>1 DEF PayRow, PayStatuses
  <1>7. ASSUME NEW w \in Workers
        PROVE  [x EXCEPT !.worker = w, !.leased = TRUE] \in PayRow
    BY <1>1 DEF PayRow
  <1> QED
    BY <1>1, <1>2, <1>3, <1>4, <1>5, <1>6, <1>7

-----------------------------------------------------------------------------
(* Type correctness *)

LEMMA CreateType ==
    ASSUME StoreTypeOK, NEW r \in Regs, NEW u \in Users, NEW c \in Categories,
           NEW confirm \in BOOLEAN, Create(r, u, c, confirm)
    PROVE  StoreTypeOK'
  BY DEF Create, StoreTypeOK, RegRow, RegStatuses, ActiveStatuses

LEMMA TransactionType ==
    ASSUME StoreAssumption, StoreTypeOK, NEW r \in Regs, RegistrationTransaction(r)
    PROVE  StoreTypeOK'
  <1> USE DEF PayStatuses, RegStatuses, ActiveStatuses
  <1>0. /\ reg[r] \in RegRow \cup {NoReg}
        /\ pay[r] \in PayRow \cup {NoPay}
    BY DEF StoreTypeOK
  <1>1. CASE \E u \in Users, c \in Categories : Create(r, u, c, c \in FreeCategories)
    <2>1. PICK u \in Users, c \in Categories : Create(r, u, c, c \in FreeCategories)
      BY <1>1
    <2>2. (c \in FreeCategories) \in BOOLEAN
      OBVIOUS
    <2> QED  BY <2>1, <2>2, CreateType
  <1>2. CASE Cancel(r)
    <2>1. reg' \in [Regs -> RegRow \cup {NoReg}]
      BY <1>2, SetRegStatus DEF Cancel
    <2> QED  BY <1>2, <2>1 DEF Cancel, StoreTypeOK
  <1>3. ASSUME NEW p \in Providers, CreatePayment(r, p)
        PROVE  StoreTypeOK'
    BY <1>3, NewPaymentType DEF CreatePayment, StoreTypeOK
  <1>4. ASSUME NEW p \in Providers, ConfirmWithPayment(r, p)
        PROVE  StoreTypeOK'
    <2>1. reg' \in [Regs -> RegRow \cup {NoReg}]
      BY <1>4, SetRegStatus DEF ConfirmWithPayment
    <2> QED  BY <1>4, <2>1, NewPaymentType DEF ConfirmWithPayment, StoreTypeOK
  <1>5. CASE ConfirmStoredPayment(r)
    <2>1. pay' \in [Regs -> PayRow \cup {NoPay}]
      BY <1>5, SetPayStatus DEF ConfirmStoredPayment
    <2>2. CASE reg[r].status = "PENDING"
      <3>1. reg' \in [Regs -> RegRow \cup {NoReg}]
        BY <1>5, <2>2, SetRegStatus DEF ConfirmStoredPayment
      <3> QED  BY <1>5, <2>1, <2>2, <3>1 DEF ConfirmStoredPayment, StoreTypeOK
    <2>3. CASE reg[r].status # "PENDING"
      BY <1>5, <2>1, <2>3 DEF ConfirmStoredPayment, StoreTypeOK
    <2> QED  BY <2>2, <2>3
  <1>6. ASSUME NEW w \in Workers, SchedulePaymentReconciliation(w, r)
        PROVE  StoreTypeOK'
    <2>1. pay' = [pay EXCEPT ![r] = [pay[r] EXCEPT !.worker = None, !.leased = FALSE, !.later = TRUE]]
      BY <1>6, <1>0 DEF SchedulePaymentReconciliation, StoreTypeOK
    <2>2. [pay[r] EXCEPT !.worker = None, !.leased = FALSE, !.later = TRUE] \in PayRow
      BY <1>6, <1>0, PayRowFlags DEF SchedulePaymentReconciliation, ClaimedBy
    <2> QED  BY <1>6, <2>1, <2>2 DEF SchedulePaymentReconciliation, StoreTypeOK
  <1>7. ASSUME NEW w \in Workers, ExpireClaimedPayment(w, r)
        PROVE  StoreTypeOK'
    <2>1. pay' = [pay EXCEPT ![r] = [pay[r] EXCEPT !.status = "FAILED", !.worker = None, !.leased = FALSE]]
      BY <1>7, <1>0 DEF ExpireClaimedPayment, StoreTypeOK
    <2>2. [pay[r] EXCEPT !.status = "FAILED", !.worker = None, !.leased = FALSE] \in PayRow
      BY <1>7, <1>0, PayRowFlags DEF ExpireClaimedPayment, ClaimedBy
    <2>3. reg' \in [Regs -> RegRow \cup {NoReg}]
      <3>1. CASE reg[r].status = "PENDING"
        BY <1>7, <3>1, SetRegStatus DEF ExpireClaimedPayment
      <3>2. CASE reg[r].status # "PENDING"
        BY <1>7, <3>2 DEF ExpireClaimedPayment, StoreTypeOK
      <3> QED  BY <3>1, <3>2
    <2>4. pay' \in [Regs -> PayRow \cup {NoPay}]
      BY <2>1, <2>2 DEF StoreTypeOK
    <2> QED  BY <1>7, <2>3, <2>4 DEF ExpireClaimedPayment, StoreTypeOK
  <1>8. CASE SubmitManualPayment(r)
    <2>1. pay' \in [Regs -> PayRow \cup {NoPay}]
      BY <1>8, SetPayStatus DEF SubmitManualPayment
    <2> QED  BY <1>8, <2>1 DEF SubmitManualPayment, StoreTypeOK
  <1>9. CASE ApproveManualPayment(r) \/ FailManualPayment(r)
    <2>1. pay' \in [Regs -> PayRow \cup {NoPay}]
      BY <1>9, SetPayStatus DEF ApproveManualPayment, FailManualPayment, UnderReview
    <2>2. reg' \in [Regs -> RegRow \cup {NoReg}]
      BY <1>9, SetRegStatus DEF ApproveManualPayment, FailManualPayment, UnderReview
    <2> QED  BY <1>9, <2>1, <2>2 DEF ApproveManualPayment, FailManualPayment, StoreTypeOK
  <1>10. CASE CheckIn(r)
    BY <1>10 DEF CheckIn, StoreTypeOK
  <1>11. CASE PaymentLapses(r) \/ LeaseEnds(r) \/ ReconcileDue(r)
    <2>1. /\ pay[r].status # "NONE"
          /\ \/ pay' = [pay EXCEPT ![r] = [pay[r] EXCEPT !.lapsed = TRUE]]
             \/ pay' = [pay EXCEPT ![r] = [pay[r] EXCEPT !.leased = FALSE]]
             \/ pay' = [pay EXCEPT ![r] = [pay[r] EXCEPT !.later = FALSE]]
      BY <1>11, <1>0 DEF PaymentLapses, LeaseEnds, ReconcileDue, StoreTypeOK
    <2>2. pay' \in [Regs -> PayRow \cup {NoPay}]
      BY <2>1, <1>0, PayRowFlags DEF StoreTypeOK
    <2> QED  BY <1>11, <2>2 DEF PaymentLapses, LeaseEnds, ReconcileDue, StoreTypeOK
  <1> QED
    BY <1>1, <1>2, <1>3, <1>4, <1>5, <1>6, <1>7, <1>8, <1>9, <1>10, <1>11
    DEF RegistrationTransaction

LEMMA TableTransactionType ==
    ASSUME StoreAssumption, StoreTypeOK, TableTransaction
    PROVE  StoreTypeOK'
  <1> USE DEF PayStatuses, RegStatuses, ActiveStatuses
  <1>1. CASE SweepCommits
    <2>1. /\ due \cap Lapsed \in SUBSET Regs
          /\ {r \in due : reg[r].status = "PENDING"} \in SUBSET Regs
      BY DEF StoreTypeOK
    <2>2. reg' \in [Regs -> RegRow \cup {NoReg}]
      BY <1>1, <2>1, SetRegStatus DEF SweepCommits
    <2>3. pay' \in [Regs -> PayRow \cup {NoPay}]
      BY <1>1, <2>1, SetPayStatus DEF SweepCommits, Lapsed
    <2> QED  BY <1>1, <2>2, <2>3 DEF SweepCommits, StoreTypeOK
  <1>4. CASE SweepBegins \/ SweepRollsBack
    BY <1>4 DEF SweepBegins, SweepRollsBack, Lapsed, StoreTypeOK
  <1>2. ASSUME NEW w \in Workers, NEW rows \in SUBSET Regs, ClaimPendingPayments(w, rows)
        PROVE  StoreTypeOK'
    <2>1. ASSUME NEW r \in rows
          PROVE  [pay[r] EXCEPT !.worker = w, !.leased = TRUE] \in PayRow
      <3>1. pay[r] \in PayRow \cup {NoPay} /\ pay[r].status # "NONE"
        BY <1>2 DEF ClaimPendingPayments, Claimable, StoreTypeOK
      <3> QED  BY <3>1, PayRowFlags
    <2>2. pay' \in [Regs -> PayRow \cup {NoPay}]
      BY <1>2, <2>1 DEF ClaimPendingPayments, StoreTypeOK
    <2> QED  BY <1>2, <2>2 DEF ClaimPendingPayments, StoreTypeOK
  <1>3. ASSUME NEW c \in Categories, NEW n \in 0..MaxCapacity, UpdateCapacity(c, n)
        PROVE  StoreTypeOK'
    BY <1>3 DEF UpdateCapacity, StoreTypeOK
  <1> QED
    BY <1>1, <1>2, <1>3, <1>4 DEF TableTransaction

LEMMA StoreTypeStep ==
    ASSUME StoreTypeOK, [StoreNext]_storeVars
    PROVE  StoreTypeOK'
  <1>1. CASE TableTransaction
    BY <1>1, StoreAssumption, TableTransactionType
  <1>2. ASSUME NEW r \in Regs, RegistrationTransaction(r)
        PROVE  StoreTypeOK'
    BY <1>2, StoreAssumption, TransactionType
  <1>3. CASE UNCHANGED storeVars
    BY <1>3 DEF storeVars, StoreTypeOK
  <1> QED
    BY <1>1, <1>2, <1>3 DEF StoreNext

\* Every reachable state of the tables is well typed: no transaction writes a
\* status, a provider or an owner its column does not know.
THEOREM StoreTypeSafe == StoreSpec => []StoreTypeOK
  <1>1. StoreInit => StoreTypeOK
    BY DEF StoreInit, StoreTypeOK
  <1> QED
    BY <1>1, StoreTypeStep, PTL DEF StoreSpec

-----------------------------------------------------------------------------
(* What a transaction other than Create does to one row: it leaves it, or   *)
(* cancels it, or ends a PENDING row, with a ticket and a succeeded payment *)
(* if it confirms it.  The safety proofs need no more of the transactions.  *)

RowStep(q) ==
    /\ \/ reg'[q] = reg[q]
       \/ /\ reg[q].status # "NONE"
          /\ reg'[q].user = reg[q].user
          /\ reg'[q].cat = reg[q].cat
          /\ \/ reg'[q].status = "CANCELLED"
             \/ reg[q].status = "PENDING" /\ reg'[q].status = "EXPIRED"
             \/ /\ reg[q].status = "PENDING" /\ reg'[q].status = "CONFIRMED"
                /\ q \in tickets' /\ pay'[q].status = "SUCCEEDED"
    /\ q \in tickets' => q \in tickets \/ reg'[q].status = "CONFIRMED"
    /\ q \in tickets => q \in tickets'
    /\ pay[q].status = "SUCCEEDED" => pay'[q].status = "SUCCEEDED"

Creates == \E r \in Regs, u \in Users, c \in Categories : Create(r, u, c, c \in FreeCategories)

LEMMA TransactionRowStep ==
    ASSUME StoreTypeOK, NEW r \in Regs, RegistrationTransaction(r), NEW q \in Regs
    PROVE  Creates \/ RowStep(q)
  <1> USE DEF PayStatuses, RegStatuses, ActiveStatuses
  <1>0. /\ reg \in [Regs -> RegRow \cup {NoReg}]
        /\ pay \in [Regs -> PayRow \cup {NoPay}]
        /\ pay[r].status # "NONE" => pay[r] \in PayRow
    BY DEF StoreTypeOK, NoPay
  <1>1. CASE \E u \in Users, c \in Categories : Create(r, u, c, c \in FreeCategories)
    BY <1>1 DEF Creates
  <1>2. CASE Cancel(r)
    BY <1>2, <1>0, SetRegStatus DEF Cancel, RowStep
  <1>3. ASSUME NEW p \in Providers, CreatePayment(r, p)
        PROVE  RowStep(q)
    BY <1>3, <1>0 DEF CreatePayment, RowStep
  <1>4. ASSUME NEW p \in Providers, ConfirmWithPayment(r, p)
        PROVE  RowStep(q)
    BY <1>4, <1>0, SetRegStatus, NewPaymentType DEF ConfirmWithPayment, RowStep
  <1>5. CASE ConfirmStoredPayment(r)
    <2>1. /\ pay'[r].status = "SUCCEEDED"
          /\ q # r => pay'[q] = pay[q]
      BY <1>5, <1>0, SetPayStatus DEF ConfirmStoredPayment
    <2>2. CASE reg[r].status = "PENDING"
      BY <1>5, <1>0, <2>1, <2>2, SetRegStatus DEF ConfirmStoredPayment, RowStep
    <2>3. CASE reg[r].status # "PENDING"
      BY <1>5, <1>0, <2>1, <2>3 DEF ConfirmStoredPayment, RowStep
    <2> QED  BY <2>2, <2>3
  <1>6. ASSUME NEW w \in Workers, SchedulePaymentReconciliation(w, r)
        PROVE  RowStep(q)
    BY <1>6, <1>0 DEF SchedulePaymentReconciliation, ClaimedBy, RowStep
  <1>7. ASSUME NEW w \in Workers, ExpireClaimedPayment(w, r)
        PROVE  RowStep(q)
    <2>1. pay[q].status = "SUCCEEDED" => pay'[q].status = "SUCCEEDED"
      BY <1>7, <1>0 DEF ExpireClaimedPayment, ClaimedBy
    <2>2. CASE reg[r].status = "PENDING"
      BY <1>7, <1>0, <2>1, <2>2, SetRegStatus DEF ExpireClaimedPayment, RowStep
    <2>3. CASE reg[r].status # "PENDING"
      BY <1>7, <1>0, <2>1, <2>3 DEF ExpireClaimedPayment, RowStep
    <2> QED  BY <2>2, <2>3
  <1>8. CASE SubmitManualPayment(r)
    BY <1>8, <1>0, SetPayStatus DEF SubmitManualPayment, RowStep
  <1>9. CASE ApproveManualPayment(r)
    BY <1>9, <1>0, SetPayStatus, SetRegStatus DEF ApproveManualPayment, UnderReview, RowStep
  <1>10. CASE FailManualPayment(r)
    BY <1>10, <1>0, SetPayStatus, SetRegStatus DEF FailManualPayment, UnderReview, RowStep
  <1>11. CASE CheckIn(r)
    BY <1>11 DEF CheckIn, RowStep
  <1>12. CASE PaymentLapses(r) \/ LeaseEnds(r) \/ ReconcileDue(r)
    BY <1>12, <1>0 DEF PaymentLapses, LeaseEnds, ReconcileDue, RowStep
  <1> QED
    BY <1>1, <1>2, <1>3, <1>4, <1>5, <1>6, <1>7, <1>8, <1>9, <1>10, <1>11, <1>12
    DEF RegistrationTransaction

LEMMA StepShape ==
    ASSUME StoreTypeOK, [StoreNext]_storeVars
    PROVE  Creates \/ \A q \in Regs : RowStep(q)
  <1> SUFFICES ASSUME NEW q \in Regs
               PROVE  Creates \/ RowStep(q)
    OBVIOUS
  <1>1. CASE SweepCommits
    <2>1. /\ due \cap Lapsed \in SUBSET Regs
          /\ {r \in due : reg[r].status = "PENDING"} \in SUBSET Regs
      BY DEF StoreTypeOK
    <2>2. q \notin Lapsed => pay'[q] = pay[q]
      BY <1>1, <2>1, SetPayStatus DEF SweepCommits, Lapsed, PayStatuses
    <2>3. \/ reg'[q] = reg[q]
          \/ /\ reg[q].status = "PENDING" /\ reg'[q].status = "EXPIRED"
             /\ reg'[q].user = reg[q].user /\ reg'[q].cat = reg[q].cat
      BY <1>1, <2>1, SetRegStatus DEF SweepCommits, RegStatuses, ActiveStatuses
    <2> QED  BY <1>1, <2>2, <2>3 DEF SweepCommits, Lapsed, RowStep
  <1>6. CASE SweepBegins \/ SweepRollsBack
    BY <1>6 DEF SweepBegins, SweepRollsBack, RowStep
  <1>2. ASSUME NEW w \in Workers, NEW rows \in SUBSET Regs, ClaimPendingPayments(w, rows)
        PROVE  RowStep(q)
    BY <1>2 DEF ClaimPendingPayments, Claimable, RowStep
  <1>3. ASSUME NEW c \in Categories, NEW n \in 0..MaxCapacity, UpdateCapacity(c, n)
        PROVE  RowStep(q)
    BY <1>3 DEF UpdateCapacity, RowStep
  <1>4. ASSUME NEW r \in Regs, RegistrationTransaction(r)
        PROVE  Creates \/ RowStep(q)
    BY <1>4, TransactionRowStep
  <1>5. CASE UNCHANGED storeVars
    BY <1>5 DEF storeVars, RowStep
  <1> QED
    BY <1>1, <1>2, <1>3, <1>4, <1>5, <1>6 DEF StoreNext, TableTransaction

\* What a sweep finds are the lapsed payments of that moment; nothing is added later.
LEMMA DueStep ==
    ASSUME [StoreNext]_storeVars
    PROVE  due' \in {due, {}, Lapsed}
  <1>1. CASE SweepBegins \/ SweepCommits \/ SweepRollsBack
    BY <1>1 DEF SweepBegins, SweepCommits, SweepRollsBack
  <1>2. ASSUME NEW r \in Regs, RegistrationTransaction(r)
        PROVE  due' = due
    BY <1>2 DEF RegistrationTransaction, Create, Cancel, ConfirmWithPayment, CreatePayment,
                ConfirmStoredPayment, SchedulePaymentReconciliation, ExpireClaimedPayment,
                SubmitManualPayment, ApproveManualPayment, FailManualPayment, CheckIn,
                PaymentLapses, LeaseEnds, ReconcileDue
  <1> QED
    BY <1>1, <1>2 DEF StoreNext, TableTransaction, ClaimPendingPayments, UpdateCapacity, storeVars

-----------------------------------------------------------------------------
(* Safety *)

\* A payment row, once there, stays a row of its provider, and what has lapsed stays so.
PaymentStays(q) ==
    /\ pay'[q].status # "NONE"
    /\ pay'[q].provider = pay[q].provider
    /\ pay[q].lapsed => pay'[q].lapsed

LEMMA PaymentsStay ==
    ASSUME StoreTypeOK, [StoreNext]_storeVars, NEW q \in Regs, pay[q].status # "NONE"
    PROVE  PaymentStays(q)
  <1>0. pay \in [Regs -> PayRow \cup {NoPay}] /\ pay[q] \in PayRow
    BY DEF StoreTypeOK, NoPay
  <1> USE DEF PayStatuses, PayRow, PaymentStays
  <1>1. CASE UNCHANGED pay
    BY <1>1
  <1>2. ASSUME NEW rows \in SUBSET Regs, NEW s \in PayStatuses, pay' = SetStatus(pay, rows, s)
        PROVE  PaymentStays(q)
    BY <1>0, <1>2 DEF SetStatus
  <1>3. ASSUME NEW r \in Regs, NEW p \in Providers,
               CreatePayment(r, p) \/ ConfirmWithPayment(r, p)
        PROVE  PaymentStays(q)
    BY <1>0, <1>3 DEF CreatePayment, ConfirmWithPayment
  <1>4. ASSUME NEW r \in Regs, NEW w \in Workers,
               SchedulePaymentReconciliation(w, r) \/ ExpireClaimedPayment(w, r)
        PROVE  PaymentStays(q)
    BY <1>0, <1>4 DEF SchedulePaymentReconciliation, ExpireClaimedPayment
  <1>5. ASSUME NEW r \in Regs, PaymentLapses(r) \/ LeaseEnds(r) \/ ReconcileDue(r)
        PROVE  PaymentStays(q)
    BY <1>0, <1>5 DEF PaymentLapses, LeaseEnds, ReconcileDue
  <1>6. ASSUME NEW w \in Workers, NEW rows \in SUBSET Regs, ClaimPendingPayments(w, rows)
        PROVE  PaymentStays(q)
    BY <1>0, <1>6 DEF ClaimPendingPayments
  <1>7. CASE SweepCommits
    <2>1. due \cap Lapsed \in SUBSET Regs /\ pay' = SetStatus(pay, due \cap Lapsed, "FAILED")
      BY <1>7 DEF SweepCommits, StoreTypeOK
    <2> QED  BY <1>2, <2>1
  <1>8. ASSUME NEW r \in Regs,
               \/ ConfirmStoredPayment(r) \/ SubmitManualPayment(r)
               \/ ApproveManualPayment(r) \/ FailManualPayment(r)
        PROVE  PaymentStays(q)
    <2>1. \/ pay' = SetStatus(pay, {r}, "SUCCEEDED") \/ pay' = SetStatus(pay, {r}, "PROCESSING")
          \/ pay' = SetStatus(pay, {r}, "FAILED")
      BY <1>8 DEF ConfirmStoredPayment, SubmitManualPayment, ApproveManualPayment, FailManualPayment
    <2> QED  BY <1>2, <2>1
  <1>9. ASSUME NEW r \in Regs, NEW u \in Users, NEW c \in Categories,
               Create(r, u, c, c \in FreeCategories)
        PROVE  UNCHANGED pay
    BY <1>9 DEF Create
  <1>10. ASSUME NEW r \in Regs, Cancel(r) \/ CheckIn(r)
         PROVE  UNCHANGED pay
    BY <1>10 DEF Cancel, CheckIn
  <1>11. ASSUME NEW c \in Categories, NEW n \in 0..MaxCapacity, UpdateCapacity(c, n)
         PROVE  UNCHANGED pay
    BY <1>11 DEF UpdateCapacity
  <1>12. CASE SweepBegins \/ SweepRollsBack
    BY <1>1, <1>12 DEF SweepBegins, SweepRollsBack
  <1> QED
    BY <1>1, <1>3, <1>4, <1>5, <1>6, <1>7, <1>8, <1>9, <1>10, <1>11, <1>12
       DEF StoreNext, TableTransaction, RegistrationTransaction, storeVars

\* The row Create writes, and the rows it leaves alone.
LEMMA CreateRow ==
    ASSUME StoreTypeOK, NEW r \in Regs, NEW u \in Users, NEW c \in Categories,
           Create(r, u, c, c \in FreeCategories)
    PROVE  /\ reg[r].status = "NONE"
           /\ reg'[r].user = u /\ reg'[r].cat = c
           /\ reg'[r].status = IF c \in FreeCategories THEN "CONFIRMED" ELSE "PENDING"
           /\ \A q \in Regs \ {r} : reg'[q] = reg[q]
           /\ tickets' = IF c \in FreeCategories THEN tickets \cup {r} ELSE tickets
           /\ pay' = pay
  BY DEF Create, StoreTypeOK

LEMMA RowStepActive ==
    ASSUME StoreTypeOK, NEW q \in Regs, RowStep(q), reg'[q].status \in ActiveStatuses
    PROVE  /\ reg[q].status \in ActiveStatuses
           /\ reg'[q].user = reg[q].user
           /\ reg'[q].cat = reg[q].cat
  BY DEF RowStep, ActiveStatuses

LEMMA OneActiveStep ==
    ASSUME StoreTypeOK, OneActivePerEvent, [StoreNext]_storeVars
    PROVE  OneActivePerEvent'
  <1> SUFFICES ASSUME NEW u \in Users, NEW e \in Events,
                      NEW r \in Regs, NEW s \in Regs,
                      r \in ActiveFor(u, e)', s \in ActiveFor(u, e)'
               PROVE  r = s
    BY DEF OneActivePerEvent, ActiveFor
  <1>1. CASE \A q \in Regs : RowStep(q)
    <2>1. r \in ActiveFor(u, e) /\ s \in ActiveFor(u, e)
      BY <1>1, RowStepActive DEF ActiveFor
    <2> QED  BY <2>1 DEF OneActivePerEvent
  <1>2. CASE Creates
    <2>1. PICK n \in Regs, v \in Users, c \in Categories : Create(n, v, c, c \in FreeCategories)
      BY <1>2 DEF Creates
    <2>2. /\ reg'[n].user = v /\ reg'[n].cat = c
          /\ \A q \in Regs \ {n} : reg'[q] = reg[q]
      BY <2>1, CreateRow
    <2>3. ActiveFor(v, EventOf[c]) = {}
      BY <2>1 DEF Create, NotRegistered
    <2>4. ASSUME NEW q \in Regs, q # n, q \in ActiveFor(u, e)'
          PROVE  q \in ActiveFor(u, e)
      BY <2>2, <2>4 DEF ActiveFor
    <2>5. n \in ActiveFor(u, e)' => u = v /\ e = EventOf[c]
      BY <2>2 DEF ActiveFor
    <2> QED  BY <2>3, <2>4, <2>5 DEF OneActivePerEvent
  <1> QED
    BY <1>1, <1>2, StepShape

\* No runner ever holds two active registrations for one event, whatever the
\* categories and however many registrations race.
THEOREM OnePlacePerRunner == StoreSpec => []OneActivePerEvent
  <1>1. StoreInit => OneActivePerEvent
    BY DEF StoreInit, OneActivePerEvent, ActiveFor, ActiveStatuses, NoReg
  <1> QED
    BY <1>1, OneActiveStep, StoreTypeSafe, PTL DEF StoreSpec

LEMMA TicketStep ==
    ASSUME StoreTypeOK, TicketMatchesStatus, [StoreNext]_storeVars
    PROVE  TicketMatchesStatus'
  <1> SUFFICES ASSUME NEW q \in Regs
               PROVE  /\ reg'[q].status = "CONFIRMED" => q \in tickets'
                      /\ q \in tickets' => reg'[q].status \in {"CONFIRMED", "CANCELLED"}
    BY DEF TicketMatchesStatus
  <1>0. /\ reg[q].status = "CONFIRMED" => q \in tickets
        /\ q \in tickets => reg[q].status \in {"CONFIRMED", "CANCELLED"}
    BY DEF TicketMatchesStatus
  <1>1. CASE \A r \in Regs : RowStep(r)
    BY <1>0, <1>1 DEF RowStep
  <1>2. CASE Creates
    <2>1. PICK n \in Regs, v \in Users, c \in Categories : Create(n, v, c, c \in FreeCategories)
      BY <1>2 DEF Creates
    <2> QED  BY <1>0, <2>1, CreateRow
  <1> QED
    BY <1>1, <1>2, StepShape

\* A confirmed registration has its ticket at once, and a ticket only ever
\* belongs to a registration that was confirmed.
THEOREM TicketsMatch == StoreSpec => []TicketMatchesStatus
  <1>1. StoreInit => TicketMatchesStatus
    BY DEF StoreInit, TicketMatchesStatus, NoReg
  <1> QED
    BY <1>1, TicketStep, StoreTypeSafe, PTL DEF StoreSpec

LEMMA PaidStep ==
    ASSUME StoreTypeOK, ConfirmedIsPaid, [StoreNext]_storeVars
    PROVE  ConfirmedIsPaid'
  <1> SUFFICES ASSUME NEW q \in Regs,
                      reg'[q].status = "CONFIRMED", reg'[q].cat \notin FreeCategories
               PROVE  pay'[q].status = "SUCCEEDED"
    BY DEF ConfirmedIsPaid
  <1>0. reg[q].status = "CONFIRMED" /\ reg[q].cat \notin FreeCategories
            => pay[q].status = "SUCCEEDED"
    BY DEF ConfirmedIsPaid
  <1>1. CASE \A r \in Regs : RowStep(r)
    BY <1>0, <1>1 DEF RowStep
  <1>2. CASE Creates
    <2>1. PICK n \in Regs, v \in Users, c \in Categories : Create(n, v, c, c \in FreeCategories)
      BY <1>2 DEF Creates
    <2> QED  BY <1>0, <2>1, CreateRow
  <1> QED
    BY <1>1, <1>2, StepShape

\* Nobody runs in a priced category on a payment that did not succeed.
THEOREM PaidPlaces == StoreSpec => []ConfirmedIsPaid
  <1>1. StoreInit => ConfirmedIsPaid
    BY DEF StoreInit, ConfirmedIsPaid, NoReg
  <1> QED
    BY <1>1, PaidStep, StoreTypeSafe, PTL DEF StoreSpec

LEMMA NotRevivedStep ==
    ASSUME StoreTypeOK, [StoreNext]_storeVars, NEW r \in Regs
    PROVE  /\ reg[r].status \in {"CANCELLED", "EXPIRED"} => reg'[r].status \in {"CANCELLED", "EXPIRED"}
           /\ reg[r].status = "CONFIRMED" => reg'[r].status \in {"CONFIRMED", "CANCELLED"}
  <1>1. CASE \A q \in Regs : RowStep(q)
    BY <1>1 DEF RowStep
  <1>2. CASE Creates
    <2>1. PICK n \in Regs, v \in Users, c \in Categories : Create(n, v, c, c \in FreeCategories)
      BY <1>2 DEF Creates
    <2> QED  BY <2>1, CreateRow
  <1> QED
    BY <1>1, <1>2, StepShape

\* A seat given up stays given up, and nothing but a cancellation ends a
\* confirmed registration.
THEOREM NoRevival == StoreSpec => SeatsAreNotRevived
  <1>1. StoreTypeOK /\ [StoreNext]_storeVars =>
          [\A r \in Regs :
             /\ reg[r].status \in {"CANCELLED", "EXPIRED"} => reg'[r].status \in {"CANCELLED", "EXPIRED"}
             /\ reg[r].status = "CONFIRMED" => reg'[r].status \in {"CONFIRMED", "CANCELLED"}]_storeVars
    BY NotRevivedStep
  <1> QED
    BY <1>1, StoreTypeSafe, PTL DEF StoreSpec, SeatsAreNotRevived

LEMMA OversellStep ==
    ASSUME StoreTypeOK, [StoreNext]_storeVars, NEW d \in Categories
    PROVE  Active(d)' \subseteq Active(d) \/ Cardinality(Active(d)') <= capacity[d]
  <1>1. CASE \A q \in Regs : RowStep(q)
    BY <1>1, RowStepActive DEF Active
  <1>2. CASE Creates
    <2>1. PICK n \in Regs, v \in Users, c \in Categories : Create(n, v, c, c \in FreeCategories)
      BY <1>2 DEF Creates
    <2>2. /\ reg'[n].cat = c /\ reg[n].status = "NONE"
          /\ \A q \in Regs \ {n} : reg'[q] = reg[q]
      BY <2>1, CreateRow
    <2>3. CASE d # c
      BY <2>2, <2>3 DEF Active
    <2>4. CASE d = c
      <3>1. IsFiniteSet(Active(c))
        BY StoreAssumption, FS_Subset DEF Active
      <3>2. Active(c)' \subseteq Active(c) \cup {n}
        BY <2>2 DEF Active
      <3>3. n \notin Active(c)
        BY <2>2 DEF Active, ActiveStatuses
      <3>4. /\ IsFiniteSet(Active(c) \cup {n})
            /\ Cardinality(Active(c) \cup {n}) = Cardinality(Active(c)) + 1
        BY <3>1, <3>3, FS_AddElement
      <3>5. /\ IsFiniteSet(Active(c)')
            /\ Cardinality(Active(c)') <= Cardinality(Active(c) \cup {n})
        BY <3>2, <3>4, FS_Subset
      <3>6. Cardinality(Active(c)) < capacity[c]
        BY <2>1 DEF Create, HasRoom
      <3>7. /\ Cardinality(Active(c)) \in Nat /\ Cardinality(Active(c)') \in Nat
            /\ capacity[c] \in Int
        BY <3>1, <3>5, FS_CardinalityType, StoreAssumption DEF StoreTypeOK
      <3> QED  BY <2>4, <3>4, <3>5, <3>6, <3>7
    <2> QED  BY <2>3, <2>4
  <1> QED
    BY <1>1, <1>2, StepShape

\* The seats taken in a category never grow past its capacity, for any number
\* of runners, categories and concurrent registrations.
THEOREM NoOverselling == StoreSpec => NeverOversells
  <1>1. StoreTypeOK /\ [StoreNext]_storeVars =>
          [\A c \in Categories :
             Active(c)' \subseteq Active(c) \/ Cardinality(Active(c)') <= capacity[c]]_storeVars
    BY OversellStep
  <1> QED
    BY <1>1, StoreTypeSafe, PTL DEF StoreSpec, NeverOversells

-----------------------------------------------------------------------------
(* The seat ledger                                                          *)

Seats(c) == Holders(c, ActiveStatuses)
ConfirmedSeats(c) == Holders(c, {"CONFIRMED"})

\* What one registration's transaction does to the others, and to capacities.
LEMMA OthersStay ==
    ASSUME StoreTypeOK, NEW r \in Regs, RegistrationTransaction(r)
    PROVE  /\ \A q \in Regs \ {r} : reg'[q] = reg[q]
           /\ capacity' = capacity
  <1>0. reg \in [Regs -> RegRow \cup {NoReg}]
    BY DEF StoreTypeOK
  <1>1. \A s : \A q \in Regs \ {r} : SetStatus(reg, {r}, s)[q] = reg[q]
    BY DEF SetStatus
  <1>2. CASE \E u \in Users, c \in Categories : Create(r, u, c, c \in FreeCategories)
    BY <1>0, <1>2 DEF Create
  <1>3. CASE Cancel(r) \/ ConfirmStoredPayment(r) \/ ApproveManualPayment(r) \/ FailManualPayment(r)
    BY <1>1, <1>3 DEF Cancel, ConfirmStoredPayment, ApproveManualPayment, FailManualPayment
  <1>4. ASSUME NEW p \in Providers, ConfirmWithPayment(r, p) \/ CreatePayment(r, p)
        PROVE  (\A q \in Regs \ {r} : reg'[q] = reg[q]) /\ capacity' = capacity
    BY <1>1, <1>4 DEF ConfirmWithPayment, CreatePayment
  <1>5. ASSUME NEW w \in Workers, SchedulePaymentReconciliation(w, r) \/ ExpireClaimedPayment(w, r)
        PROVE  (\A q \in Regs \ {r} : reg'[q] = reg[q]) /\ capacity' = capacity
    BY <1>1, <1>5 DEF SchedulePaymentReconciliation, ExpireClaimedPayment
  <1>6. CASE SubmitManualPayment(r) \/ CheckIn(r) \/ PaymentLapses(r) \/ LeaseEnds(r) \/ ReconcileDue(r)
    BY <1>6 DEF SubmitManualPayment, CheckIn, PaymentLapses, LeaseEnds, ReconcileDue
  <1> QED
    BY <1>2, <1>3, <1>4, <1>5, <1>6 DEF RegistrationTransaction

\* A user's seats in one category are one row.
LEMMA OneRowPerSeat ==
    ASSUME StoreTypeOK, OneActivePerEvent, NEW q \in Regs, NEW r \in Regs,
           reg[q].status \in ActiveStatuses, reg[r].status \in ActiveStatuses,
           reg[q].user = reg[r].user, reg[q].cat = reg[r].cat
    PROVE  q = r
  <1>1. reg[q] \in RegRow
    BY DEF StoreTypeOK, NoReg, ActiveStatuses
  <1>2. reg[q].user \in Users /\ EventOf[reg[q].cat] \in Events
    BY <1>1, StoreAssumption DEF RegRow
  <1> QED
    BY <1>2 DEF OneActivePerEvent, ActiveFor

\* SeatLedger counts with its own instance of FiniteSets.
LEMMA LedgerCounts == ASSUME NEW S PROVE Ledger!Cardinality(S) = Cardinality(S)
  BY DEF Ledger!Cardinality, Cardinality

\* A category has no more holders than active rows.
LEMMA HoldersBelow ==
    ASSUME NEW c \in Categories
    PROVE  /\ Cardinality(Seats(c)) \in Nat
           /\ Cardinality(Active(c)) \in Nat
           /\ Cardinality(Seats(c)) <= Cardinality(Active(c))
  <1> DEFINE userOf == [r \in Active(c) |-> reg[r].user]
  <1>1. IsFiniteSet(Active(c))
    BY StoreAssumption, FS_Subset DEF Active
  <1>2. userOf \in Surjection(Active(c), Seats(c))
    BY DEF Seats, Holders, Active, Surjection
  <1> QED
    BY <1>1, <1>2, FS_Surjection, FS_CardinalityType

\* A new registration takes a seat.
LEMMA CreateTakes ==
    ASSUME StoreTypeOK, NEW r \in Regs, NEW u \in Users, NEW c \in Categories,
           Create(r, u, c, c \in FreeCategories)
    PROVE  Ledger!Take(u, c)
  <1>1. /\ reg[r].status = "NONE"
        /\ reg'[r].user = u /\ reg'[r].cat = c
        /\ reg'[r].status = IF c \in FreeCategories THEN "CONFIRMED" ELSE "PENDING"
        /\ \A q \in Regs \ {r} : reg'[q] = reg[q]
    BY CreateRow
  <1>2. Cardinality(Seats(c)) < capacity[c]
    <2>1. Cardinality(Active(c)) < capacity[c] /\ capacity[c] \in Int
      BY StoreAssumption DEF Create, HasRoom, StoreTypeOK
    <2> QED  BY <2>1, HoldersBelow
  <1>3. \A d \in Categories : EventOf[d] = EventOf[c] => u \notin Seats(d)
    BY DEF Create, NotRegistered, ActiveFor, Seats, Holders
  <1>4. \A d \in Categories : Seats(d)' = IF d = c THEN Seats(c) \cup {u} ELSE Seats(d)
    BY <1>1 DEF Seats, Holders, ActiveStatuses
  <1>5. \A d \in Categories :
           ConfirmedSeats(d)' = IF d = c /\ c \in FreeCategories
                                THEN ConfirmedSeats(c) \cup {u} ELSE ConfirmedSeats(d)
    BY <1>1 DEF ConfirmedSeats, Holders
  <1>6. capacity' = capacity
    BY DEF Create
  <1>7. Ledger!Cardinality(Seats(c)) < capacity[c]
    BY <1>2, LedgerCounts
  <1> QED
    BY <1>3, <1>4, <1>5, <1>6, <1>7 DEF Ledger!Take, Seats, ConfirmedSeats

\* One row's change: nothing, a cancellation, an expiry or a confirmation.
LEMMA RowStepLedger ==
    ASSUME StoreTypeOK, OneActivePerEvent, NEW r \in Regs, RowStep(r),
           \A q \in Regs \ {r} : reg'[q] = reg[q], capacity' = capacity, StoreTypeOK'
    PROVE  [Ledger!Next]_(Ledger!ledgerVars)
  <1> DEFINE u == reg[r].user
             c == reg[r].cat
  <1>1. CASE reg'[r].status \in ActiveStatuses <=> reg[r].status \in ActiveStatuses
    <2>1. CASE reg[r].status = "PENDING" /\ reg'[r].status = "CONFIRMED"
      <3>1. u \in Users /\ c \in Categories
        BY <2>1 DEF StoreTypeOK, RegRow, NoReg
      <3>2. u \in Seats(c) \ ConfirmedSeats(c)
        BY <2>1, OneRowPerSeat DEF Seats, ConfirmedSeats, Holders, ActiveStatuses
      <3>3. \A d \in Categories : Seats(d)' = Seats(d)
        BY <2>1 DEF RowStep, Seats, Holders, ActiveStatuses
      <3>4. \A d \in Categories :
              ConfirmedSeats(d)' = IF d = c THEN ConfirmedSeats(c) \cup {u} ELSE ConfirmedSeats(d)
        BY <2>1 DEF RowStep, ConfirmedSeats, Holders
      <3>5. Ledger!Confirm(u, c)
        BY <3>1, <3>2, <3>3, <3>4 DEF Ledger!Confirm, Seats, ConfirmedSeats
      <3> QED  BY <3>1, <3>5 DEF Ledger!Next
    <2>2. CASE ~(reg[r].status = "PENDING" /\ reg'[r].status = "CONFIRMED")
      <3>1. \A d \in Categories : Seats(d)' = Seats(d) /\ ConfirmedSeats(d)' = ConfirmedSeats(d)
        BY <1>1, <2>2 DEF RowStep, Seats, ConfirmedSeats, Holders, ActiveStatuses
      <3> QED  BY <3>1 DEF Ledger!ledgerVars, Seats, ConfirmedSeats
    <2> QED  BY <2>1, <2>2
  <1>2. CASE reg[r].status \in ActiveStatuses /\ reg'[r].status \notin ActiveStatuses
    <2>1. u \in Users /\ c \in Categories
      BY <1>2 DEF StoreTypeOK, RegRow, NoReg, ActiveStatuses
    <2>2. u \in Seats(c)
      BY <1>2 DEF Seats, Holders
    <2>3. \A q \in Regs \ {r} : reg[q].status \in ActiveStatuses /\ reg[q].cat = c => reg[q].user # u
      BY <1>2, OneRowPerSeat
    <2>4. \A d \in Categories : Seats(d)' = IF d = c THEN Seats(c) \ {u} ELSE Seats(d)
      BY <1>2, <2>3 DEF RowStep, Seats, Holders, ActiveStatuses
    <2>5. \A d \in Categories :
            ConfirmedSeats(d)' = IF d = c THEN ConfirmedSeats(c) \ {u} ELSE ConfirmedSeats(d)
      BY <1>2, <2>3 DEF RowStep, ConfirmedSeats, Holders, ActiveStatuses
    <2>6. Ledger!Release(u, c)
      BY <2>1, <2>2, <2>4, <2>5 DEF Ledger!Release, Seats, ConfirmedSeats
    <2> QED  BY <2>1, <2>6 DEF Ledger!Next
  <1>3. reg'[r].status \in ActiveStatuses => reg[r].status \in ActiveStatuses
    BY RowStepActive
  <1> QED
    BY <1>1, <1>2, <1>3

\* The sweep's expiries run out of time together.
LEMMA SweepExpires ==
    ASSUME StoreTypeOK, StoreTypeOK', SweepCommits
    PROVE  Ledger!Expire
  <1>1. \A q \in Regs :
           \/ reg'[q] = reg[q]
           \/ reg[q].status = "PENDING" /\ reg'[q].status = "EXPIRED"
    <2>1. {r \in due : reg[r].status = "PENDING"} \in SUBSET Regs
      BY DEF StoreTypeOK
    <2> QED
      BY <2>1, SetRegStatus DEF SweepCommits, RegStatuses, ActiveStatuses
  <1>2. \A d \in Categories :
           /\ Seats(d)' \subseteq Seats(d)
           /\ ConfirmedSeats(d) \subseteq Seats(d)'
           /\ ConfirmedSeats(d)' = ConfirmedSeats(d)
    BY <1>1 DEF Seats, ConfirmedSeats, Holders, ActiveStatuses
  <1>3. \A d \in Categories : Seats(d)' \in SUBSET Users
    BY DEF StoreTypeOK, Seats, Holders, ActiveStatuses, RegRow, NoReg
  <1>4. capacity' = capacity
    BY DEF SweepCommits
  <1> QED
    BY <1>2, <1>3, <1>4 DEF Ledger!Expire, Seats, ConfirmedSeats

LEMMA LedgerStep ==
    ASSUME StoreTypeOK, OneActivePerEvent, [StoreNext]_storeVars
    PROVE  [Ledger!Next]_(Ledger!ledgerVars)
  <1>0. StoreTypeOK'
    BY StoreTypeStep
  <1>1. CASE SweepCommits
    BY <1>0, <1>1, SweepExpires DEF Ledger!Next
  <1>2. ASSUME NEW w \in Workers, NEW rows \in SUBSET Regs, ClaimPendingPayments(w, rows)
        PROVE  UNCHANGED <<reg, capacity>>
    BY <1>2 DEF ClaimPendingPayments
  <1>3. ASSUME NEW c \in Categories, NEW n \in 0..MaxCapacity, UpdateCapacity(c, n)
        PROVE  [Ledger!Next]_(Ledger!ledgerVars)
    <2>1. Ledger!Resize(c, n)
      BY <1>3 DEF UpdateCapacity, Ledger!Resize, Holders
    <2> QED  BY <2>1 DEF Ledger!Next
  <1>4. ASSUME NEW r \in Regs, RegistrationTransaction(r)
        PROVE  [Ledger!Next]_(Ledger!ledgerVars)
    <2>1. CASE Creates
      BY <2>1, CreateTakes DEF Creates, Ledger!Next
    <2>2. CASE RowStep(r)
      BY <1>0, <1>4, <2>2, OthersStay, RowStepLedger
    <2> QED  BY <1>4, <2>1, <2>2, TransactionRowStep
  <1>5. ASSUME UNCHANGED <<reg, capacity>>
        PROVE  UNCHANGED Ledger!ledgerVars
    BY <1>5 DEF Ledger!ledgerVars, Holders
  <1>6. CASE SweepBegins \/ SweepRollsBack
    BY <1>5, <1>6 DEF SweepBegins, SweepRollsBack
  <1> QED
    BY <1>1, <1>2, <1>3, <1>4, <1>5, <1>6 DEF StoreNext, TableTransaction, storeVars

\* The tables are a seat ledger: whatever happens to payments, tickets and
\* leases, seats are taken, confirmed, released and expired as SeatLedger allows
\* (ImplementsLedger).
THEOREM StoreImplementsLedger == StoreSpec => ImplementsLedger
  <1>1. StoreInit => Ledger!Init
    BY DEF StoreInit, Ledger!Init, Holders, NoReg, ActiveStatuses
  <1> QED
    BY <1>1, LedgerStep, StoreTypeSafe, OnePlacePerRunner, PTL
       DEF StoreSpec, ImplementsLedger, Ledger!Spec
=============================================================================
