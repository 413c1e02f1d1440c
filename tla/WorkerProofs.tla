----------------------------- MODULE WorkerProofs ---------------------------
(***************************************************************************)
(* The loops of the worker process, with one worker for each queue         *)
(* (docs/scaling.md:190), for any number of notifications, deliveries and  *)
(* automations and any batch limit: a mail or a message goes out twice     *)
(* only after an acceptance that went unrecorded, a recorded outcome       *)
(* stands, and an automation that is SENT has reached everyone it listed.  *)
(***************************************************************************)
EXTENDS MailOutbox, TelegramOutbox, EventAutomations, SequenceTheorems, TLAPS

-----------------------------------------------------------------------------
(* E-MAIL                                                                   *)

OneMailer == \A m, k \in Mailers : m = k

-----------------------------------------------------------------------------
(* The invariant.  MarkSent and RecordFailure do not say which status they  *)
(* replace; they replace PENDING because the worker has looked, and nobody  *)
(* else writes the row.                                                     *)

MailWorking == {"load", "send", "sent", "failed"}

\* Where a worker stands agrees with what it holds.
MailStandOK(m) ==
    /\ mailer[m].pc \in MailWorking => mailer[m].note \in Notes
    /\ mailer[m].pc \in {"send", "sent", "failed"} => note[mailer[m].note].status = "PENDING"

\* A mail that was accepted is in doubt, recorded, or about to be recorded.
MailAccounted(n) ==
    mailed[n] > 0 => \/ n \in mailDoubts
                     \/ note[n].status = "SENT"
                     \/ \E m \in Mailers : mailer[m].pc = "sent" /\ mailer[m].note = n

MailAttemptsOK == \A n \in Notes : note[n].status = "PENDING" => note[n].attempts < MaxAttempts

MailInv ==
    /\ MailTypeOK
    /\ \A m \in Mailers : MailStandOK(m)
    /\ \A n \in Notes : MailAccounted(n)
    /\ MailAttemptsOK
    /\ MailedOnce

-----------------------------------------------------------------------------
LEMMA MailInit == InitMail => MailInv
  BY MailAssumption, LoopAssumption
     DEF InitMail, MailInv, MailTypeOK, MailerState, IdleMailer, NoNote, MailStandOK, MailWorking,
           MailAccounted, MailAttemptsOK, MailedOnce

\* New rows, the queue and the clock: the worker and its records stand.
LEMMA MailOutsideKeeps ==
    ASSUME MailInv, (\E n \in Notes : Enqueue(n) \/ Push(n) \/ Ages(n)) \/ QueueLost
    PROVE  MailInv'
  <1>0. /\ note \in [Notes -> NoteRow \cup {NoNote}] /\ queue \in Seq(Notes) /\ unpushed \subseteq Notes
        /\ UNCHANGED <<mailer, mailed, mailDoubts>>
    BY DEF MailInv, MailTypeOK, Enqueue, Push, Ages, QueueLost
  <1>1. ASSUME NEW n \in Notes, NEW row \in NoteRow, note' = [note EXCEPT ![n] = row],
               note[n].status \in {"NONE", "PENDING"}, row.status = "PENDING", row.attempts < MaxAttempts,
               UNCHANGED queue, unpushed' \subseteq Notes
        PROVE  MailInv'
    <2>1. MailTypeOK'
      BY <1>0, <1>1 DEF MailInv, MailTypeOK
    <2>2. (\A m \in Mailers : MailStandOK(m)') /\ (\A k \in Notes : MailAccounted(k)')
      BY <1>0, <1>1 DEF MailInv, MailStandOK, MailAccounted, MailWorking
    <2>3. MailAttemptsOK' /\ MailedOnce'
      BY <1>0, <1>1 DEF MailInv, MailAttemptsOK, MailedOnce
    <2> QED  BY <2>1, <2>2, <2>3 DEF MailInv
  <1>2. ASSUME NEW n \in Notes, Enqueue(n)
        PROVE  MailInv'
    <2>1. /\ [status |-> "PENDING", attempts |-> 0, aged |-> FALSE] \in NoteRow
          /\ 0 < MaxAttempts
      BY MailAssumption, LoopAssumption DEF NoteRow
    <2> QED  BY <1>0, <1>1, <1>2, <2>1 DEF Enqueue
  <1>3. ASSUME NEW n \in Notes, Ages(n)
        PROVE  MailInv'
    <2>1. note[n] \in NoteRow /\ note[n].status = "PENDING" /\ note[n].attempts < MaxAttempts
      BY <1>0, <1>3 DEF Ages, NoNote, MailInv, MailAttemptsOK
    <2>2. /\ [note[n] EXCEPT !.aged = TRUE] \in NoteRow
          /\ [note[n] EXCEPT !.aged = TRUE].status = "PENDING"
          /\ [note[n] EXCEPT !.aged = TRUE].attempts = note[n].attempts
      BY <2>1 DEF NoteRow
    <2>3. note' = [note EXCEPT ![n] = [note[n] EXCEPT !.aged = TRUE]]
      BY <1>3 DEF Ages
    <2> QED  BY <1>0, <1>1, <1>3, <2>1, <2>2, <2>3 DEF Ages
  <1>4. CASE (\E n \in Notes : Push(n)) \/ QueueLost
    <2>1. note' = note /\ unpushed' \subseteq Notes
      BY <1>0, <1>4 DEF Push, QueueLost
    <2>2. queue' \in Seq(Notes)
      <3>1. \A n \in Notes : <<n>> \in Seq(Notes) /\ <<n>> \o queue \in Seq(Notes)
        BY <1>0, ConcatProperties
      <3> QED  BY <1>0, <1>4, <3>1, EmptySeq DEF Push, QueueLost
    <2> QED
      BY <1>0, <2>1, <2>2
        DEF MailInv, MailTypeOK, MailStandOK, MailWorking, MailAccounted, MailAttemptsOK, MailedOnce
  <1> QED  BY <1>2, <1>3, <1>4

-----------------------------------------------------------------------------
(* The worker                                                               *)

LEMMA MailOneChanges ==
    ASSUME OneMailer, MailTypeOK, NEW m \in Mailers, NEW v \in MailerState,
           mailer' = [mailer EXCEPT ![m] = v]
    PROVE  /\ mailer' \in [Mailers -> MailerState]
           /\ \A k \in Mailers : mailer'[k] = v
  BY DEF OneMailer, MailTypeOK

\* Steps towards a send, and what interrupts the worker before its record.
LEMMA MailWorkKeeps ==
    ASSUME OneMailer, MailInv, NEW m \in Mailers,
           \/ \E n \in Notes : MailNext(m, n)
           \/ MailPop(m) \/ MailSweep(m) \/ MailLoad(m)
           \/ MailUnrecorded(m) \/ MailerCrashes(m)
    PROVE  MailInv'
  <1>0. /\ MailTypeOK /\ mailer[m] \in MailerState /\ MailStandOK(m) /\ mailer \in [Mailers -> MailerState]
        /\ queue \in Seq(Notes) /\ mailDoubts \subseteq Notes
    BY DEF MailInv, MailTypeOK
  <1> DEFINE v == mailer'[m]
  <1>1. note' = note /\ mailed' = mailed /\ unpushed' = unpushed
    BY DEF MailNext, MailPop, MailSweep, MailLoad, MailUnrecorded, MailerCrashes
  <1>2. /\ mailer' = [mailer EXCEPT ![m] = v] /\ v \in MailerState /\ queue' \in Seq(Notes)
        /\ v.pc \in {"idle", "next", "load", "send"}
        /\ v.pc \in {"load", "send"} => v.note \in Notes
        /\ v.pc = "send" => note[v.note].status = "PENDING"
        /\ mailer[m].pc = "sent" => mailer[m].note \in mailDoubts'
        /\ mailDoubts \subseteq mailDoubts' /\ mailDoubts' \subseteq Notes
    <2>1. CASE \E n \in Notes : MailNext(m, n)
      BY <1>0, <2>1 DEF MailNext, MailerAt, MailerState
    <2>2. CASE MailPop(m)
      <3>1. queue[Len(queue)] \in Notes /\ SubSeq(queue, 1, Len(queue) - 1) \in Seq(Notes)
        <4>1. Len(queue) \in Nat \ {0} /\ \A i \in 1..Len(queue) : queue[i] \in Notes
          BY <1>0, <2>2, EmptySeq, ElementOfSeq DEF MailPop
        <4> QED  BY <4>1, SubSeqProperties
      <3> QED  BY <1>0, <2>2, <3>1 DEF MailPop, MailerAt, MailerState
    <2>3. CASE MailSweep(m)
      BY <1>0, <2>3 DEF MailSweep, Unsent, MailerAt, MailerState
    <2>4. CASE MailLoad(m)
      <3>1. mailer[m].pc = "load" /\ mailer[m].note \in Notes
        BY <1>0, <2>4 DEF MailLoad, MailerAt, MailStandOK, MailWorking
      <3>2. \/ note[mailer[m].note].status = "PENDING" /\ MailerGoto(m, "send")
            \/ MailerDone(m)
        BY <2>4 DEF MailLoad
      <3>3. UNCHANGED <<queue, mailDoubts>>
        BY <2>4 DEF MailLoad
      <3>4. CASE note[mailer[m].note].status = "PENDING" /\ MailerGoto(m, "send")
        BY <1>0, <3>1, <3>3, <3>4 DEF MailerGoto, MailerState
      <3>5. CASE MailerDone(m)
        BY <1>0, <3>1, <3>3, <3>5 DEF MailerDone, IdleMailer, MailerState
      <3> QED  BY <3>2, <3>4, <3>5
    <2>5. CASE MailUnrecorded(m)
      BY <1>0, <2>5
        DEF MailUnrecorded, MailAccepted, MailerDone, IdleMailer, MailerAt, MailerState, MailStandOK,
            MailWorking
    <2>6. CASE MailerCrashes(m)
      BY <1>0, <2>6
        DEF MailerCrashes, MailAccepted, IdleMailer, MailerAt, MailerState, MailStandOK, MailWorking
    <2> QED  BY <2>1, <2>2, <2>3, <2>4, <2>5, <2>6
  <1>3. mailer' \in [Mailers -> MailerState] /\ \A k \in Mailers : mailer'[k] = v
    BY <1>0, <1>2, MailOneChanges
  <1> HIDE DEF v
  <1>4. MailTypeOK'
    BY <1>0, <1>1, <1>2, <1>3 DEF MailTypeOK
  <1>5. ASSUME NEW k \in Mailers
        PROVE  MailStandOK(k)'
    <2>1. mailer'[k] = v
      BY <1>3
    <2>2. /\ v.pc \in MailWorking => v.note \in Notes
          /\ v.pc \in {"send", "sent", "failed"} => note'[v.note].status = "PENDING"
      BY <1>1, <1>2 DEF MailWorking
    <2> QED  BY <2>1, <2>2 DEF MailStandOK
  <1>6. \A n \in Notes : MailAccounted(n)'
    BY <1>1, <1>2 DEF OneMailer, MailInv, MailAccounted
  <1>7. MailAttemptsOK' /\ MailedOnce'
    BY <1>1, <1>2 DEF MailInv, MailAttemptsOK, MailedOnce
  <1> QED  BY <1>4, <1>5, <1>6, <1>7 DEF MailInv

\* A send: of a PENDING row, which nothing accepted earlier went into unless it
\* is in doubt.
LEMMA MailSendKeeps == ASSUME OneMailer, MailInv, NEW m \in Mailers, MailSend(m) PROVE MailInv'
  <1>0. /\ MailTypeOK /\ mailer[m] \in MailerState /\ mailer[m].pc = "send" /\ mailer[m].note \in Notes
        /\ note[mailer[m].note].status = "PENDING" /\ note' = note /\ mailed \in [Notes -> 0..2]
    BY DEF MailInv, MailTypeOK, MailSend, MailerAt, MailStandOK, MailWorking
  <1> DEFINE n == mailer[m].note
  <1>1. PICK pc \in {"sent", "failed"} :
           /\ mailer' = [mailer EXCEPT ![m] = [mailer[m] EXCEPT !.pc = pc]]
           /\ \/ pc = "sent" /\ CountMail(n) /\ mailDoubts' = mailDoubts
              \/ pc = "failed" /\ mailed' = mailed /\ mailDoubts' = mailDoubts
              \/ pc = "failed" /\ CountMail(n) /\ mailDoubts' = mailDoubts \cup {n}
    BY DEF MailSend, MailerGoto
  <1> DEFINE v == [mailer[m] EXCEPT !.pc = pc]
  <1>2. v \in MailerState /\ v.pc = pc /\ v.note = n
    BY <1>0 DEF MailerState
  <1>3. mailer' \in [Mailers -> MailerState] /\ \A k \in Mailers : mailer'[k] = v
    BY <1>0, <1>1, <1>2, MailOneChanges
  <1>4. mailed[n] > 0 => n \in mailDoubts
    BY <1>0 DEF OneMailer, MailInv, MailAccounted
  <1>5. mailed' \in [Notes -> 0..2] /\ \A k \in Notes : k # n => mailed'[k] = mailed[k]
    BY <1>0, <1>1 DEF CountMail
  <1>6. mailed'[n] > 1 => n \in mailDoubts'
    BY <1>0, <1>1, <1>4 DEF CountMail
  <1> HIDE DEF v
  <1>7. MailTypeOK'
    BY <1>0, <1>1, <1>3, <1>5 DEF MailTypeOK, MailSend
  <1>8. \A k \in Mailers : MailStandOK(k)'
    BY <1>0, <1>2, <1>3 DEF MailStandOK, MailWorking
  <1>9. ASSUME NEW k \in Notes
        PROVE  MailAccounted(k)'
    <2>1. CASE k = n
      BY <1>0, <1>1, <1>2, <1>3, <1>4, <2>1 DEF MailAccounted
    <2>2. CASE k # n
      <3>1. mailed[k] > 0 => k \in mailDoubts \/ note[k].status = "SENT"
        BY <1>0, <2>2 DEF OneMailer, MailInv, MailAccounted
      <3> QED  BY <1>0, <1>1, <1>5, <2>2, <3>1 DEF MailAccounted
    <2> QED  BY <2>1, <2>2
  <1>10. MailAttemptsOK' /\ MailedOnce'
    BY <1>0, <1>1, <1>5, <1>6 DEF MailInv, MailAttemptsOK, MailedOnce
  <1> QED  BY <1>7, <1>8, <1>9, <1>10 DEF MailInv

LEMMA MailFailedRow ==
    ASSUME NEW row \in NoteRow, row.attempts < MaxAttempts
    PROVE  /\ NoteFailed(row) \in NoteRow /\ NoteFailed(row).status \in {"PENDING", "FAILED"}
           /\ NoteFailed(row).status = "PENDING" => NoteFailed(row).attempts < MaxAttempts
  <1>0. row.attempts \in 0..MaxAttempts /\ MaxAttempts \in Nat
    BY MailAssumption, LoopAssumption DEF NoteRow
  <1> DEFINE n == row.attempts + 1
             s == IF n >= MaxAttempts THEN "FAILED" ELSE "PENDING"
  <1>1. n \in 0..MaxAttempts /\ (s = "PENDING" => n < MaxAttempts) /\ s \in {"PENDING", "FAILED"}
    BY <1>0
  <1>2. NoteFailed(row) = [row EXCEPT !.attempts = n, !.status = s]
    BY DEF NoteFailed
  <1> HIDE DEF n, s
  <1>3. /\ NoteFailed(row) \in NoteRow /\ NoteFailed(row).status = s /\ NoteFailed(row).attempts = n
    BY <1>1, <1>2 DEF NoteRow
  <1> QED  BY <1>1, <1>3

\* The two writes no condition guards: what they replace is PENDING.
LEMMA MailRecordKeeps ==
    ASSUME OneMailer, MailInv, NEW m \in Mailers, MailSent(m) \/ MailFailed(m)
    PROVE  MailInv' /\ note[mailer[m].note].status = "PENDING"
  <1> DEFINE n == mailer[m].note
             row == note'[n]
             v == mailer'[m]
  <1>0. /\ MailTypeOK /\ mailer[m] \in MailerState /\ mailer[m].pc \in {"sent", "failed"} /\ n \in Notes
        /\ note \in [Notes -> NoteRow \cup {NoNote}] /\ note[n].status = "PENDING"
    BY DEF MailInv, MailTypeOK, MailSent, MailFailed, MailerAt, MailStandOK, MailWorking
  <1>1. note[n] \in NoteRow /\ note[n].attempts < MaxAttempts
    BY <1>0 DEF NoNote, MailInv, MailAttemptsOK
  <1>2. /\ note' = [note EXCEPT ![n] = row] /\ row \in NoteRow
        /\ row.status = "PENDING" => row.attempts < MaxAttempts
        /\ mailer[m].pc = "sent" => row.status = "SENT"
    <2>1. CASE MailSent(m)
      <3>1. note' = [note EXCEPT ![n] = [note[n] EXCEPT !.status = "SENT"]]
        BY <2>1 DEF MailSent
      <3>2. /\ [note[n] EXCEPT !.status = "SENT"] \in NoteRow
            /\ [note[n] EXCEPT !.status = "SENT"].status = "SENT"
        BY <1>1 DEF NoteRow
      <3> QED  BY <1>0, <3>1, <3>2
    <2>2. CASE MailFailed(m)
      <3>1. note' = [note EXCEPT ![n] = NoteFailed(note[n])]
        BY <2>2 DEF MailFailed
      <3> QED  BY <1>0, <1>1, <2>2, <3>1, MailFailedRow DEF MailFailed, MailerAt
    <2> QED  BY <2>1, <2>2
  <1>3. UNCHANGED <<unpushed, queue, mailed, mailDoubts>> /\ MailerDone(m)
    BY DEF MailSent, MailFailed
  <1>4. mailer' = [mailer EXCEPT ![m] = v] /\ v \in MailerState /\ v.pc \in {"idle", "next"}
    BY <1>0, <1>3 DEF MailerDone, IdleMailer, MailerState, MailTypeOK
  <1>5. mailer' \in [Mailers -> MailerState] /\ \A k \in Mailers : mailer'[k] = v
    BY <1>0, <1>4, MailOneChanges
  <1>6. /\ note' \in [Notes -> NoteRow \cup {NoNote}] /\ note'[n] = row
        /\ \A k \in Notes : k # n => note'[k] = note[k]
    BY <1>0, <1>2
  <1> HIDE DEF v, row
  <1>7. MailTypeOK'
    BY <1>0, <1>3, <1>5, <1>6 DEF MailTypeOK
  <1>8. \A k \in Mailers : MailStandOK(k)'
    BY <1>4, <1>5 DEF MailStandOK, MailWorking
  <1>9. ASSUME NEW k \in Notes
        PROVE  MailAccounted(k)'
    <2>1. mailed[k] > 0 => k \in mailDoubts \/ note[k].status = "SENT" \/ (k = n /\ mailer[m].pc = "sent")
      BY DEF OneMailer, MailInv, MailAccounted
    <2> QED  BY <1>0, <1>2, <1>3, <1>6, <2>1 DEF MailAccounted
  <1>10. MailAttemptsOK' /\ MailedOnce'
    BY <1>2, <1>3, <1>6 DEF MailInv, MailAttemptsOK, MailedOnce
  <1> QED  BY <1>0, <1>7, <1>8, <1>9, <1>10 DEF MailInv

LEMMA MailNextKeeps == ASSUME OneMailer, MailInv, [MailLoopNext]_mailVars PROVE MailInv'
  <1>1. CASE (\E n \in Notes : Enqueue(n) \/ Push(n) \/ Ages(n)) \/ QueueLost
    BY <1>1, MailOutsideKeeps
  <1>2. ASSUME NEW m \in Mailers, MailStep(m)
        PROVE  MailInv'
    BY <1>2, MailWorkKeeps, MailSendKeeps, MailRecordKeeps DEF MailStep
  <1>3. CASE UNCHANGED mailVars
    BY <1>3 DEF mailVars, MailInv, MailTypeOK, MailStandOK, MailAccounted, MailAttemptsOK, MailedOnce
  <1> QED  BY <1>1, <1>2, <1>3 DEF MailLoopNext

-----------------------------------------------------------------------------
(* Theorems                                                                 *)

LEMMA MailInvariant == ASSUME OneMailer PROVE MailSpec => []MailInv
  BY MailInit, MailNextKeeps, PTL DEF MailSpec

\* A notification is mailed twice only after an acceptance that went unrecorded
\* (MailedOnce), however the queue and the sweep overlap.
THEOREM MailsAreSingle == ASSUME OneMailer PROVE MailSpec => [](MailTypeOK /\ MailedOnce)
  <1>1. MailInv => MailTypeOK /\ MailedOnce
    BY DEF MailInv
  <1> QED  BY <1>1, MailInvariant, PTL

\* SENT and FAILED stand: the worker's unguarded writes meet PENDING rows only
\* (NoteOutcomesStand).
THEOREM MailOutcomesStand == ASSUME OneMailer PROVE MailSpec => NoteOutcomesStand
  <1>1. ASSUME MailInv, [MailLoopNext]_mailVars, NEW n \in Notes, note[n].status \in {"SENT", "FAILED"}
        PROVE  note'[n] = note[n]
    <2>0. note \in [Notes -> NoteRow \cup {NoNote}]
      BY <1>1 DEF MailInv, MailTypeOK
    <2>1. ASSUME NEW k \in Notes, Enqueue(k) \/ Push(k) \/ Ages(k)
          PROVE  note'[n] = note[n]
      BY <1>1, <2>0, <2>1 DEF Enqueue, Push, Ages
    <2>2. ASSUME NEW m \in Mailers, MailSent(m) \/ MailFailed(m)
          PROVE  note'[n] = note[n]
      <3>1. note[mailer[m].note].status = "PENDING"
        BY <1>1, <2>2, MailRecordKeeps
      <3> QED  BY <1>1, <2>0, <2>2, <3>1 DEF MailSent, MailFailed
    <2>3. ASSUME NEW m \in Mailers, MailStep(m)
          PROVE  note'[n] = note[n]
      BY <2>2, <2>3
        DEF MailStep, MailPop, MailSweep, MailNext, MailLoad, MailSend, MailUnrecorded, MailerCrashes
    <2> QED  BY <1>1, <2>1, <2>3 DEF MailLoopNext, QueueLost, mailVars
  <1>2. MailInv /\ [MailLoopNext]_mailVars =>
          [\A n \in Notes : note[n].status \in {"SENT", "FAILED"} => note'[n] = note[n]]_mailVars
    BY <1>1
  <1> QED  BY <1>2, MailInvariant, PTL DEF MailSpec, NoteOutcomesStand

-----------------------------------------------------------------------------
(* TELEGRAM                                                                 *)

OneSender == \A s, t \in Senders : s = t

-----------------------------------------------------------------------------
(* The invariant.  No write of an outcome says which status it replaces;    *)
(* it is PROCESSING, because only the worker itself claims a lapsed lease,  *)
(* and it claims nothing while it holds a batch.                            *)

PostWorking == {"send", "sent", "skipped", "failed"}

\* Where a worker stands agrees with what it holds.
PostStandOK(s) ==
    /\ sender[s].pc \in PostWorking => sender[s].note \in Deliveries \ sender[s].todo
    /\ sender[s].pc \notin PostWorking => sender[s].note = NoItem
    /\ sender[s].pc = "idle" => sender[s].todo = {}

PostHolds(s) == sender[s].todo \cup ({sender[s].note} \cap Deliveries)

\* What a worker holds is PROCESSING.
PostHeldOK(s) == \A n \in PostHolds(s) : delivery[n].status = "PROCESSING"

\* A message that was accepted is in doubt, recorded, or about to be recorded.
PostAccounted(n) ==
    posted[n] > 0 => \/ n \in postDoubts
                     \/ delivery[n].status = "SENT"
                     \/ \E s \in Senders : sender[s].pc = "sent" /\ sender[s].note = n

PostAttemptsOK ==
    \A n \in Deliveries : delivery[n].status \in {"PENDING", "PROCESSING"} => delivery[n].attempts < MaxAttempts

TelegramInv ==
    /\ TelegramTypeOK
    /\ \A s \in Senders : PostStandOK(s) /\ PostHeldOK(s)
    /\ \A n \in Deliveries : PostAccounted(n)
    /\ PostAttemptsOK
    /\ PostedOnce

-----------------------------------------------------------------------------
LEMMA TelegramInit == InitTelegram => TelegramInv
  BY TelegramAssumption, LoopAssumption
     DEF InitTelegram, TelegramInv, TelegramTypeOK, SenderState, IdleSender, NoDelivery, PostStandOK,
           PostHeldOK, PostHolds, PostWorking, PostAccounted,
         PostAttemptsOK, PostedOnce

\* New rows, clocks and administrators: the worker and its records stand.
LEMMA PostOutsideKeeps ==
    ASSUME TelegramInv, NEW n \in Deliveries,
           CreateDelivery(n) \/ RetryTelegramDelivery(n) \/ DeliveryLeaseLapses(n) \/ DeliveryComesDue(n)
    PROVE  TelegramInv'
  <1>0. delivery \in [Deliveries -> DeliveryRow \cup {NoDelivery}] /\ UNCHANGED <<sender, posted, postDoubts>>
    BY
      DEF TelegramInv, TelegramTypeOK, CreateDelivery, RetryTelegramDelivery, DeliveryLeaseLapses,
          DeliveryComesDue
  <1>1. ASSUME NEW row \in DeliveryRow, delivery' = [delivery EXCEPT ![n] = row],
               \/ row.status = delivery[n].status /\ row.attempts = delivery[n].attempts
               \/ delivery[n].status \in {"NONE", "FAILED"} /\ row = NewDelivery
        PROVE  TelegramInv'
    <2>0. NewDelivery.status = "PENDING" /\ NewDelivery.attempts < MaxAttempts
      BY TelegramAssumption, LoopAssumption DEF NewDelivery
    <2>1. TelegramTypeOK'
      BY <1>0, <1>1 DEF TelegramInv, TelegramTypeOK
    <2>2. \A s \in Senders : PostStandOK(s)' /\ PostHeldOK(s)'
      BY <1>0, <1>1 DEF TelegramInv, PostStandOK, PostHeldOK, PostHolds
    <2>3. \A k \in Deliveries : PostAccounted(k)'
      BY <1>0, <1>1 DEF TelegramInv, PostAccounted
    <2>4. PostAttemptsOK' /\ PostedOnce'
      BY <1>0, <1>1, <2>0 DEF TelegramInv, PostAttemptsOK, PostedOnce
    <2> QED  BY <2>1, <2>2, <2>3, <2>4 DEF TelegramInv
  <1>2. CASE CreateDelivery(n) \/ RetryTelegramDelivery(n)
    <2>1. NewDelivery \in DeliveryRow
      BY TelegramAssumption, LoopAssumption DEF NewDelivery, DeliveryRow
    <2> QED  BY <1>1, <1>2, <2>1 DEF CreateDelivery, RetryTelegramDelivery
  <1>3. CASE DeliveryLeaseLapses(n)
    <2>1. delivery[n] \in DeliveryRow
      BY <1>0, <1>3 DEF DeliveryLeaseLapses, NoDelivery
    <2>2. /\ [delivery[n] EXCEPT !.stale = TRUE] \in DeliveryRow
          /\ [delivery[n] EXCEPT !.stale = TRUE].status = delivery[n].status
          /\ [delivery[n] EXCEPT !.stale = TRUE].attempts = delivery[n].attempts
      BY <2>1 DEF DeliveryRow
    <2> QED  BY <1>1, <1>3, <2>2 DEF DeliveryLeaseLapses
  <1>4. CASE DeliveryComesDue(n)
    <2>1. delivery[n] \in DeliveryRow
      BY <1>0, <1>4 DEF DeliveryComesDue, NoDelivery
    <2>2. /\ [delivery[n] EXCEPT !.due = TRUE] \in DeliveryRow
          /\ [delivery[n] EXCEPT !.due = TRUE].status = delivery[n].status
          /\ [delivery[n] EXCEPT !.due = TRUE].attempts = delivery[n].attempts
      BY <2>1 DEF DeliveryRow
    <2> QED  BY <1>1, <1>4, <2>2 DEF DeliveryComesDue
  <1> QED  BY <1>2, <1>3, <1>4

-----------------------------------------------------------------------------
(* The worker                                                               *)

LEMMA PostOneChanges ==
    ASSUME OneSender, TelegramTypeOK, NEW s \in Senders, NEW v \in SenderState,
           sender' = [sender EXCEPT ![s] = v]
    PROVE  /\ sender' \in [Senders -> SenderState]
           /\ \A t \in Senders : sender'[t] = v
  BY DEF OneSender, TelegramTypeOK

\* A claim is made by a worker that holds nothing.
LEMMA PostClaimKeeps ==
    ASSUME OneSender, TelegramInv, NEW s \in Senders, NEW rows \in SUBSET Deliveries, TelegramClaim(s, rows)
    PROVE  TelegramInv'
  <1> DEFINE v == [pc |-> "next", todo |-> rows, note |-> NoItem]
  <1>0. /\ TelegramTypeOK /\ sender[s].pc = "idle" /\ rows \subseteq ClaimableDeliveries
        /\ delivery \in [Deliveries -> DeliveryRow \cup {NoDelivery}] /\ UNCHANGED <<posted, postDoubts>>
    BY DEF TelegramInv, TelegramTypeOK, TelegramClaim, SenderAt
  <1>1. ASSUME NEW n \in Deliveries
        PROVE  \/ n \notin rows /\ delivery'[n] = delivery[n]
               \/ /\ n \in rows /\ delivery[n].status \in {"PENDING", "PROCESSING"}
                  /\ delivery'[n] \in DeliveryRow /\ delivery'[n].status = "PROCESSING"
                  /\ delivery'[n].attempts = delivery[n].attempts
    <2>1. CASE n \in rows
      <3>1. delivery[n] \in DeliveryRow /\ delivery[n].status \in {"PENDING", "PROCESSING"}
        BY <1>0, <2>1 DEF ClaimableDeliveries, NoDelivery
      <3>2. delivery'[n] = [delivery[n] EXCEPT !.status = "PROCESSING", !.stale = FALSE]
        BY <2>1 DEF TelegramClaim
      <3> QED  BY <2>1, <3>1, <3>2 DEF DeliveryRow
    <2>2. CASE n \notin rows
      BY <2>2 DEF TelegramClaim
    <2> QED  BY <2>1, <2>2
  <1>2. sender' = [sender EXCEPT ![s] = v] /\ v \in SenderState
    BY DEF TelegramClaim, SenderState
  <1>3. sender' \in [Senders -> SenderState] /\ \A t \in Senders : sender'[t] = v
    BY <1>0, <1>2, PostOneChanges
  <1>4. delivery' \in [Deliveries -> DeliveryRow \cup {NoDelivery}]
    <2>1. \A n \in Deliveries : delivery'[n] \in DeliveryRow \cup {NoDelivery}
      BY <1>0, <1>1
    <2>2. DOMAIN delivery' = Deliveries /\ delivery' = [n \in DOMAIN delivery' |-> delivery'[n]]
      BY DEF TelegramClaim
    <2> QED  BY <2>1, <2>2
  <1>5. TelegramTypeOK'
    BY <1>0, <1>3, <1>4 DEF TelegramTypeOK
  <1>6. \A t \in Senders : PostStandOK(t)' /\ PostHeldOK(t)'
    BY <1>1, <1>3, TelegramAssumption, LoopAssumption DEF PostStandOK, PostHeldOK, PostHolds, PostWorking
  <1>7. ASSUME NEW n \in Deliveries
        PROVE  PostAccounted(n)'
    <2>1. posted[n] > 0 => n \in postDoubts \/ delivery[n].status = "SENT"
      BY <1>0 DEF OneSender, TelegramInv, PostAccounted
    <2> QED  BY <1>0, <1>1, <2>1 DEF PostAccounted
  <1>8. PostAttemptsOK' /\ PostedOnce'
    BY <1>0, <1>1 DEF TelegramInv, PostAttemptsOK, PostedOnce
  <1> QED  BY <1>5, <1>6, <1>7, <1>8 DEF TelegramInv

\* A delivery is taken up, or what interrupts the worker before its record.
LEMMA PostWorkKeeps ==
    ASSUME OneSender, TelegramInv, NEW s \in Senders,
           (\E n \in Deliveries : TelegramNext(s, n)) \/ TelegramUnrecorded(s) \/ SenderCrashes(s)
    PROVE  TelegramInv'
  <1> DEFINE v == sender'[s]
  <1>0. /\ TelegramTypeOK /\ sender[s] \in SenderState /\ PostStandOK(s) /\ PostHeldOK(s) /\ postDoubts \subseteq Deliveries
        /\ sender \in [Senders -> SenderState] /\ UNCHANGED <<delivery, posted>>
    BY DEF TelegramInv, TelegramTypeOK, TelegramNext, TelegramUnrecorded, SenderCrashes
  <1>1. /\ sender' = [sender EXCEPT ![s] = v] /\ v \in SenderState
        /\ \/ v.pc = "send" /\ v.note \in sender[s].todo /\ v.todo = sender[s].todo \ {v.note}
           \/ v.pc = "next" /\ v.note = NoItem /\ v.todo = sender[s].todo
           \/ v = IdleSender
        /\ sender[s].pc = "sent" => sender[s].note \in postDoubts'
        /\ postDoubts \subseteq postDoubts' /\ postDoubts' \subseteq Deliveries
    <2>1. CASE \E n \in Deliveries : TelegramNext(s, n)
      BY <1>0, <2>1 DEF TelegramNext, SenderAt, SenderState
    <2>2. CASE TelegramUnrecorded(s)
      BY <1>0, <2>2
        DEF TelegramUnrecorded, PostAccepted, SenderDone, IdleSender, SenderAt, SenderState,
            PostStandOK, PostWorking
    <2>3. CASE SenderCrashes(s)
      BY <1>0, <2>3
        DEF SenderCrashes, PostAccepted, IdleSender, SenderAt, SenderState, PostStandOK, PostWorking
    <2> QED  BY <2>1, <2>2, <2>3
  <1>2. sender' \in [Senders -> SenderState] /\ \A t \in Senders : sender'[t] = v
    BY <1>0, <1>1, PostOneChanges
  <1>3. sender[s].todo \subseteq Deliveries
    BY <1>0 DEF SenderState
  <1> HIDE DEF v
  <1>4. TelegramTypeOK'
    BY <1>0, <1>1, <1>2 DEF TelegramTypeOK
  <1>5. \A t \in Senders : PostStandOK(t)' /\ PostHeldOK(t)'
    BY <1>0, <1>1, <1>2, <1>3, TelegramAssumption, LoopAssumption
      DEF PostStandOK, PostHeldOK, PostHolds, PostWorking, IdleSender
  <1>6. \A n \in Deliveries : PostAccounted(n)'
    BY <1>0, <1>1 DEF OneSender, TelegramInv, PostAccounted
  <1>7. PostAttemptsOK' /\ PostedOnce'
    BY <1>0, <1>1 DEF TelegramInv, PostAttemptsOK, PostedOnce
  <1> QED  BY <1>4, <1>5, <1>6, <1>7 DEF TelegramInv

\* A send: of a PROCESSING row, which nothing accepted earlier went into unless
\* it is in doubt.
LEMMA PostSendKeeps == ASSUME OneSender, TelegramInv, NEW s \in Senders, TelegramSend(s) PROVE TelegramInv'
  <1> DEFINE n == sender[s].note
  <1>0. /\ TelegramTypeOK /\ sender[s] \in SenderState /\ sender[s].pc = "send" /\ n \in Deliveries \ sender[s].todo
        /\ PostHeldOK(s) /\ delivery[n].status = "PROCESSING" /\ delivery' = delivery
        /\ posted \in [Deliveries -> 0..2]
    BY
      DEF TelegramInv, TelegramTypeOK, TelegramSend, SenderAt, PostStandOK, PostHeldOK, PostHolds,
          PostWorking
  <1>1. PICK pc \in {"sent", "skipped", "failed"} :
           /\ sender' = [sender EXCEPT ![s] = [sender[s] EXCEPT !.pc = pc]]
           /\ \/ pc = "sent" /\ CountPost(n) /\ postDoubts' = postDoubts
              \/ pc # "sent" /\ posted' = posted /\ postDoubts' = postDoubts
              \/ pc # "sent" /\ CountPost(n) /\ postDoubts' = postDoubts \cup {n}
    BY DEF TelegramSend, SenderGoto
  <1> DEFINE v == [sender[s] EXCEPT !.pc = pc]
  <1>2. v \in SenderState /\ v.pc = pc /\ v.note = n /\ v.todo = sender[s].todo
    BY <1>0 DEF SenderState
  <1>3. sender' \in [Senders -> SenderState] /\ \A t \in Senders : sender'[t] = v
    BY <1>0, <1>1, <1>2, PostOneChanges
  <1>4. posted[n] > 0 => n \in postDoubts
    BY <1>0 DEF OneSender, TelegramInv, PostAccounted
  <1>5. posted' \in [Deliveries -> 0..2] /\ \A k \in Deliveries : k # n => posted'[k] = posted[k]
    BY <1>0, <1>1 DEF CountPost
  <1>6. posted'[n] > 1 => n \in postDoubts'
    BY <1>0, <1>1, <1>4 DEF CountPost
  <1> HIDE DEF v
  <1>7. TelegramTypeOK'
    BY <1>0, <1>1, <1>3, <1>5 DEF TelegramTypeOK
  <1>8. \A t \in Senders : PostStandOK(t)' /\ PostHeldOK(t)'
    BY <1>0, <1>2, <1>3 DEF PostStandOK, PostHeldOK, PostHolds, PostWorking
  <1>9. ASSUME NEW k \in Deliveries
        PROVE  PostAccounted(k)'
    <2>1. CASE k = n
      BY <1>0, <1>1, <1>2, <1>3, <1>4, <2>1 DEF PostAccounted
    <2>2. CASE k # n
      <3>1. posted[k] > 0 => k \in postDoubts \/ delivery[k].status = "SENT"
        BY <1>0, <2>2 DEF OneSender, TelegramInv, PostAccounted
      <3> QED  BY <1>0, <1>1, <1>5, <2>2, <3>1 DEF PostAccounted
    <2> QED  BY <2>1, <2>2
  <1>10. PostAttemptsOK' /\ PostedOnce'
    BY <1>0, <1>1, <1>5, <1>6 DEF TelegramInv, PostAttemptsOK, PostedOnce
  <1> QED  BY <1>7, <1>8, <1>9, <1>10 DEF TelegramInv

LEMMA PostFailedRow ==
    ASSUME NEW row \in DeliveryRow, row.attempts < MaxAttempts
    PROVE  /\ DeliveryFailed(row) \in DeliveryRow /\ DeliveryFailed(row).status \in {"PENDING", "FAILED"}
           /\ DeliveryFailed(row).status = "PENDING" => DeliveryFailed(row).attempts < MaxAttempts
  <1>0. row.attempts \in 0..MaxAttempts /\ MaxAttempts \in Nat
    BY TelegramAssumption, LoopAssumption DEF DeliveryRow
  <1> DEFINE n == row.attempts + 1
             st == IF n >= MaxAttempts THEN "FAILED" ELSE "PENDING"
  <1>1. n \in 0..MaxAttempts /\ (st = "PENDING" => n < MaxAttempts) /\ st \in {"PENDING", "FAILED"}
    BY <1>0
  <1>2. DeliveryFailed(row) = [row EXCEPT !.attempts = n, !.due = FALSE, !.stale = FALSE, !.status = st]
    BY DEF DeliveryFailed
  <1> HIDE DEF n, st
  <1>3. /\ DeliveryFailed(row) \in DeliveryRow /\ DeliveryFailed(row).status = st /\ DeliveryFailed(row).attempts = n
    BY <1>1, <1>2 DEF DeliveryRow
  <1> QED  BY <1>1, <1>3

\* The writes no condition guards: what they replace is PROCESSING.
LEMMA PostRecordKeeps ==
    ASSUME OneSender, TelegramInv, NEW s \in Senders, TelegramRecord(s)
    PROVE  TelegramInv' /\ delivery[sender[s].note].status = "PROCESSING"
  <1> DEFINE n == sender[s].note
             row == delivery'[n]
             v == sender'[s]
  <1>0. /\ TelegramTypeOK /\ sender[s] \in SenderState /\ sender[s].pc \in {"sent", "skipped", "failed"}
        /\ n \in Deliveries \ sender[s].todo /\ PostHeldOK(s) /\ delivery[n].status = "PROCESSING"
        /\ delivery \in [Deliveries -> DeliveryRow \cup {NoDelivery}]
    BY DEF TelegramInv, TelegramTypeOK, TelegramRecord, PostStandOK, PostHeldOK, PostHolds, PostWorking
  <1>1. delivery[n] \in DeliveryRow /\ delivery[n].attempts < MaxAttempts
    BY <1>0 DEF NoDelivery, TelegramInv, PostAttemptsOK
  <1>2. /\ delivery' = [delivery EXCEPT ![n] = row] /\ row \in DeliveryRow
        /\ row.status \in {"PENDING", "PROCESSING"} => row.attempts < MaxAttempts
        /\ sender[s].pc = "sent" => row.status = "SENT"
    <2>1. CASE sender[s].pc \in {"sent", "skipped"}
      <3>1. PICK st \in {"SENT", "SKIPPED"} :
               /\ delivery' = [delivery EXCEPT ![n] = [delivery[n] EXCEPT !.status = st, !.stale = FALSE]]
               /\ sender[s].pc = "sent" => st = "SENT"
        BY <2>1 DEF TelegramRecord, SenderAt
      <3>2. /\ [delivery[n] EXCEPT !.status = st, !.stale = FALSE] \in DeliveryRow
            /\ [delivery[n] EXCEPT !.status = st, !.stale = FALSE].status = st
        BY <1>1 DEF DeliveryRow
      <3> QED  BY <1>0, <3>1, <3>2
    <2>2. CASE sender[s].pc = "failed"
      <3>1. delivery' = [delivery EXCEPT ![n] = DeliveryFailed(delivery[n])]
        BY <2>2 DEF TelegramRecord, SenderAt
      <3> QED  BY <1>0, <1>1, <2>2, <3>1, PostFailedRow
    <2> QED  BY <1>0, <2>1, <2>2
  <1>3. UNCHANGED <<posted, postDoubts>> /\ SenderDone(s)
    BY DEF TelegramRecord
  <1>4. /\ sender' = [sender EXCEPT ![s] = v] /\ v \in SenderState
        /\ v.pc \in {"idle", "next"} /\ v.note = NoItem /\ v.todo = sender[s].todo
        /\ v.pc = "idle" => v.todo = {}
    BY <1>0, <1>3 DEF SenderDone, IdleSender, SenderState, TelegramTypeOK
  <1>5. sender' \in [Senders -> SenderState] /\ \A t \in Senders : sender'[t] = v
    BY <1>0, <1>4, PostOneChanges
  <1>6. /\ delivery' \in [Deliveries -> DeliveryRow \cup {NoDelivery}] /\ delivery'[n] = row
        /\ \A k \in Deliveries : k # n => delivery'[k] = delivery[k]
    BY <1>0, <1>2
  <1>7. sender[s].todo \subseteq Deliveries
    BY <1>0 DEF SenderState
  <1> HIDE DEF v, row
  <1>8. TelegramTypeOK'
    BY <1>0, <1>3, <1>5, <1>6 DEF TelegramTypeOK
  <1>9. \A t \in Senders : PostStandOK(t)' /\ PostHeldOK(t)'
    BY <1>0, <1>4, <1>5, <1>6, <1>7, TelegramAssumption, LoopAssumption
      DEF PostStandOK, PostHeldOK, PostHolds, PostWorking
  <1>10. ASSUME NEW k \in Deliveries
         PROVE  PostAccounted(k)'
    <2>1. posted[k] > 0 => \/ k \in postDoubts
                           \/ delivery[k].status = "SENT"
                           \/ k = n /\ sender[s].pc = "sent"
      BY DEF OneSender, TelegramInv, PostAccounted
    <2> QED  BY <1>0, <1>2, <1>3, <1>6, <2>1 DEF PostAccounted
  <1>11. PostAttemptsOK' /\ PostedOnce'
    BY <1>2, <1>3, <1>6 DEF TelegramInv, PostAttemptsOK, PostedOnce
  <1> QED  BY <1>0, <1>8, <1>9, <1>10, <1>11 DEF TelegramInv

LEMMA TelegramNextKeeps == ASSUME OneSender, TelegramInv, [TelegramLoopNext]_deliveryVars PROVE TelegramInv'
  <1>1. CASE \E n \in Deliveries : CreateDelivery(n) \/ RetryTelegramDelivery(n) \/ DeliveryLeaseLapses(n) \/ DeliveryComesDue(n)
    BY <1>1, PostOutsideKeeps
  <1>2. ASSUME NEW s \in Senders, TelegramStep(s)
        PROVE  TelegramInv'
    BY <1>2, PostClaimKeeps, PostWorkKeeps, PostSendKeeps, PostRecordKeeps DEF TelegramStep
  <1>3. CASE UNCHANGED deliveryVars
    BY <1>3
      DEF deliveryVars, TelegramInv, TelegramTypeOK, PostStandOK, PostHeldOK, PostHolds, PostAccounted,
          PostAttemptsOK, PostedOnce
  <1> QED  BY <1>1, <1>2, <1>3 DEF TelegramLoopNext

-----------------------------------------------------------------------------
(* Theorems                                                                 *)

LEMMA TelegramInvariant == ASSUME OneSender PROVE TelegramSpec => []TelegramInv
  BY TelegramInit, TelegramNextKeeps, PTL DEF TelegramSpec

\* A notification is posted twice only after an acceptance that went unrecorded
\* (PostedOnce): neither the lease, nor the backoff, nor a retry doubles it.
THEOREM PostsAreSingle == ASSUME OneSender PROVE TelegramSpec => [](TelegramTypeOK /\ PostedOnce)
  <1>1. TelegramInv => TelegramTypeOK /\ PostedOnce
    BY DEF TelegramInv
  <1> QED  BY <1>1, TelegramInvariant, PTL

\* SENT and SKIPPED stand, and FAILED does unless an administrator retries: the
\* worker's unguarded writes meet PROCESSING rows only (DeliveryOutcomesStand).
THEOREM PostOutcomesStand == ASSUME OneSender PROVE TelegramSpec => DeliveryOutcomesStand
  <1> DEFINE Stands(n) ==
               /\ delivery[n].status \in {"SENT", "SKIPPED"} => delivery'[n] = delivery[n]
               /\ delivery[n].status = "FAILED" => delivery'[n] \in {delivery[n], NewDelivery}
  <1>1. ASSUME TelegramInv, [TelegramLoopNext]_deliveryVars, NEW n \in Deliveries
        PROVE  Stands(n)
    <2>0. delivery \in [Deliveries -> DeliveryRow \cup {NoDelivery}]
      BY <1>1 DEF TelegramInv, TelegramTypeOK
    <2>1. ASSUME NEW k \in Deliveries, CreateDelivery(k) \/ RetryTelegramDelivery(k) \/ DeliveryLeaseLapses(k) \/ DeliveryComesDue(k)
          PROVE  Stands(n)
      BY <2>0, <2>1 DEF CreateDelivery, RetryTelegramDelivery, DeliveryLeaseLapses, DeliveryComesDue
    <2>2. ASSUME NEW s \in Senders, TelegramRecord(s)
          PROVE  Stands(n)
      <3>1. delivery[sender[s].note].status = "PROCESSING"
        BY <1>1, <2>2, PostRecordKeeps
      <3>2. n # sender[s].note => delivery'[n] = delivery[n]
        BY <2>0, <2>2 DEF TelegramRecord
      <3> QED  BY <3>1, <3>2
    <2>3. ASSUME NEW s \in Senders, NEW rows \in SUBSET Deliveries, TelegramClaim(s, rows)
          PROVE  Stands(n)
      BY <2>3 DEF TelegramClaim, ClaimableDeliveries
    <2>4. ASSUME NEW s \in Senders, TelegramStep(s)
          PROVE  Stands(n)
      BY <2>2, <2>3, <2>4 DEF TelegramStep, TelegramNext, TelegramSend, TelegramUnrecorded, SenderCrashes
    <2> QED  BY <1>1, <2>1, <2>4 DEF TelegramLoopNext, deliveryVars
  <1>2. TelegramInv /\ [TelegramLoopNext]_deliveryVars => [\A n \in Deliveries : Stands(n)]_deliveryVars
    BY <1>1
  <1> QED  BY <1>2, TelegramInvariant, PTL DEF TelegramSpec, DeliveryOutcomesStand
-----------------------------------------------------------------------------
(* The automations.  With one scheduler (docs/scaling.md:190), for any number of automations *)
(* and runners: finished automations stay finished, only what is being processed reaches     *)
(* runners, and SENT means that everyone listed has it.                                      *)

OneScheduler == \A s, t \in Schedulers : s = t

-----------------------------------------------------------------------------
(* The invariant.  Neither MarkSent nor RecordFailure says which status it  *)
(* replaces; what makes them safe is that whatever a scheduler holds is     *)
(* PROCESSING, and that the editor leaves PROCESSING rows alone.            *)

AutoWorking == {"list", "fan", "failed"}

\* Where a scheduler stands agrees with what it holds.
AutoStandOK(s) ==
    /\ sched[s].pc \in AutoWorking => sched[s].auto \in Autos \ sched[s].todo
    /\ sched[s].pc \notin AutoWorking => sched[s].auto = NoItem
    /\ sched[s].pc = "idle" => sched[s].todo = {}
    /\ sched[s].left # {} => sched[s].pc = "fan"

AutoHolds(s) == sched[s].todo \cup ({sched[s].auto} \cap Autos)

\* What a scheduler holds is PROCESSING.
AutoHeldOK(s) == \A a \in AutoHolds(s) : auto[a].status = "PROCESSING"

\* Of what a fan-out listed, what has no notification yet is still to come.
FanOK(s) ==
    sched[s].pc = "fan" => listed[sched[s].auto] \subseteq announced[sched[s].auto] \cup sched[s].left

\* A row that may be tried again has an attempt left.
AutoAttemptsOK ==
    \A a \in Autos : auto[a].status \in {"DRAFT", "SCHEDULED", "PROCESSING"} => auto[a].attempts < MaxAttempts

AutoInv ==
    /\ AutomationsTypeOK
    /\ \A s \in Schedulers : AutoStandOK(s) /\ AutoHeldOK(s) /\ FanOK(s)
    /\ AutoAttemptsOK
    /\ SentReachedListed

-----------------------------------------------------------------------------
LEMMA AutoInit == InitAutomations => AutoInv
  BY AutomationAssumption, LoopAssumption
     DEF InitAutomations, AutoInv, AutomationsTypeOK, SchedState, IdleScheduler, NoAutomation,
           AutoStandOK, AutoHeldOK, FanOK, AutoHolds, AutoWorking,
         AutoAttemptsOK, SentReachedListed

\* A step of the editor or of the clock: one row changes, the scheduler nothing.
LEMMA RowChange ==
    ASSUME AutoInv, NEW a \in Autos, NEW row \in Row,
           auto' = [auto EXCEPT ![a] = row],
           UNCHANGED <<sched, confirmed, announced, listed>>,
           edits' \in [Autos -> 0..EditBound],
           row.status = auto[a].status \/ (auto[a].status # "PROCESSING" /\ row.status # "SENT"),
           row.status \in {"DRAFT", "SCHEDULED", "PROCESSING"} => row.attempts < MaxAttempts
    PROVE  AutoInv'
  <1>1. AutomationsTypeOK'
    BY DEF AutoInv, AutomationsTypeOK
  <1>2. ASSUME NEW s \in Schedulers
        PROVE  (AutoStandOK(s) /\ AutoHeldOK(s) /\ FanOK(s))'
    BY DEF AutoInv, AutomationsTypeOK, SchedState, AutoStandOK, AutoHeldOK, FanOK, AutoHolds
  <1>3. AutoAttemptsOK' /\ SentReachedListed'
    BY DEF AutoInv, AutomationsTypeOK, AutoAttemptsOK, SentReachedListed
  <1> QED  BY <1>1, <1>2, <1>3 DEF AutoInv

LEMMA EditorKeeps ==
    ASSUME AutoInv, NEW a \in Autos, Administer(a) \/ AutomationComesDue(a) \/ AutomationLeaseLapses(a)
    PROVE  AutoInv'
  <1>0. /\ auto \in [Autos -> Row \cup {NoAutomation}] /\ edits \in [Autos -> 0..EditBound]
        /\ auto[a].status # "NONE" => auto[a] \in Row
        /\ auto[a].status \in {"DRAFT", "SCHEDULED", "PROCESSING"} => auto[a].attempts < MaxAttempts
    BY DEF AutoInv, AutomationsTypeOK, AutoAttemptsOK, NoAutomation
  <1>1. ASSUME NEW status \in {"DRAFT", "SCHEDULED"}, CreateAutomation(a, status)
        PROVE  AutoInv'
    <2>1. NewAutomation(status) \in Row /\ NewAutomation(status).attempts < MaxAttempts
      BY AutomationAssumption, LoopAssumption DEF NewAutomation, Row, Statuses, Editable
    <2> QED  BY <1>0, <1>1, <2>1, RowChange DEF CreateAutomation, NewAutomation
  <1>2. ASSUME NEW status \in {"DRAFT", "SCHEDULED"}, Update(a, status)
        PROVE  AutoInv'
    <2> DEFINE row == [status |-> status, due |-> FALSE, stale |-> auto[a].stale,
                       attempts |-> IF auto[a].status = "FAILED" THEN 0 ELSE auto[a].attempts]
    <2>1. auto[a] \in Row /\ auto[a].status # "PROCESSING"
      BY <1>0, <1>2 DEF Update, Editable
    <2>2. row \in Row /\ row.status = status /\ row.attempts < MaxAttempts
      BY <1>0, <1>2, <2>1, AutomationAssumption, LoopAssumption DEF Update, Row, Statuses, Editable
    <2>3. auto' = [auto EXCEPT ![a] = row]
      BY <1>2 DEF Update
    <2>4. edits' \in [Autos -> 0..EditBound]
      BY <1>0, <1>2, AutomationAssumption, LoopAssumption DEF Update
    <2> QED  BY <1>2, <2>1, <2>2, <2>3, <2>4, RowChange DEF Update
  <1>3. CASE CancelAutomation(a)
    <2>1. auto[a] \in Row
      BY <1>0, <1>3 DEF CancelAutomation, Editable
    <2>2. [auto[a] EXCEPT !.status = "CANCELLED"] \in Row
      BY <2>1 DEF Row, Statuses
    <2>3. [auto[a] EXCEPT !.status = "CANCELLED"].status = "CANCELLED"
      BY <2>1 DEF Row
    <2> QED  BY <1>0, <1>3, <2>2, <2>3, RowChange DEF CancelAutomation, Editable
  <1>4. CASE AutomationComesDue(a)
    <2>1. auto[a] \in Row
      BY <1>0, <1>4 DEF AutomationComesDue
    <2>2. /\ [auto[a] EXCEPT !.due = TRUE] \in Row
          /\ [auto[a] EXCEPT !.due = TRUE].status = auto[a].status
          /\ [auto[a] EXCEPT !.due = TRUE].attempts = auto[a].attempts
      BY <2>1 DEF Row
    <2> QED  BY <1>0, <1>4, <2>2, RowChange DEF AutomationComesDue
  <1>5. CASE AutomationLeaseLapses(a)
    <2>1. auto[a] \in Row
      BY <1>0, <1>5 DEF AutomationLeaseLapses
    <2>2. /\ [auto[a] EXCEPT !.stale = TRUE] \in Row
          /\ [auto[a] EXCEPT !.stale = TRUE].status = auto[a].status
          /\ [auto[a] EXCEPT !.stale = TRUE].attempts = auto[a].attempts
      BY <2>1 DEF Row
    <2> QED  BY <1>0, <1>5, <2>2, RowChange DEF AutomationLeaseLapses
  <1> QED  BY <1>1, <1>2, <1>3, <1>4, <1>5 DEF Administer

LEMMA TurnKeeps == ASSUME AutoInv, NEW r \in Runners, Turn(r) PROVE AutoInv'
  BY DEF Turn, AutoInv, AutomationsTypeOK, AutoStandOK, AutoHeldOK, FanOK, AutoHolds, AutoAttemptsOK,
        SentReachedListed

-----------------------------------------------------------------------------
(* The scheduler                                                            *)

LEMMA ClaimKeeps ==
    ASSUME AutoInv, NEW s \in Schedulers, NEW rows \in SUBSET Autos, ClaimDue(s, rows)
    PROVE  AutoInv'
  <1>0. auto \in [Autos -> Row \cup {NoAutomation}] /\ sched \in [Schedulers -> SchedState]
    BY DEF AutoInv, AutomationsTypeOK
  <1>1. ASSUME NEW a \in Autos
        PROVE  \/ auto'[a] = auto[a] /\ a \notin rows
               \/ /\ auto[a] \in Row /\ auto'[a] \in Row /\ auto'[a].status = "PROCESSING"
                  /\ auto'[a].attempts = auto[a].attempts
                  /\ auto[a].status \in {"SCHEDULED", "PROCESSING"}
    <2>1. CASE a \in rows
      <3>0. a \in Due
        BY <2>1 DEF ClaimDue
      <3>1. auto[a] \in Row /\ auto[a].status \in {"SCHEDULED", "PROCESSING"}
        BY <1>0, <3>0 DEF Due, NoAutomation
      <3>2. auto'[a] = [auto[a] EXCEPT !.status = "PROCESSING", !.stale = FALSE]
        BY <2>1 DEF ClaimDue
      <3> QED  BY <3>1, <3>2 DEF Row, Statuses
    <2>2. CASE a \notin rows
      BY <2>2 DEF ClaimDue
    <2> QED  BY <2>1, <2>2
  <1>2. sched' = [sched EXCEPT ![s] = [pc |-> "next", todo |-> rows, auto |-> NoItem, left |-> {}]]
    BY DEF ClaimDue
  <1>3. auto' \in [Autos -> Row \cup {NoAutomation}]
    <2>1. \A a \in Autos : auto'[a] \in Row \cup {NoAutomation}
      BY <1>0, <1>1
    <2>2. DOMAIN auto' = Autos /\ auto' = [a \in DOMAIN auto' |-> auto'[a]]
      BY DEF ClaimDue
    <2> QED  BY <2>1, <2>2
  <1>4. AutomationsTypeOK'
    <2>1. sched' \in [Schedulers -> SchedState]
      BY <1>0, <1>2 DEF SchedState
    <2> QED  BY <1>3, <2>1 DEF AutoInv, AutomationsTypeOK, ClaimDue
  <1>5. ASSUME NEW t \in Schedulers
        PROVE  (AutoStandOK(t) /\ AutoHeldOK(t) /\ FanOK(t))'
    <2>1. CASE t = s
      <3>1. sched'[t] = [pc |-> "next", todo |-> rows, auto |-> NoItem, left |-> {}]
        BY <1>0, <1>2, <2>1
      <3>2. \A a \in rows : auto'[a].status = "PROCESSING"
        BY <1>1
      <3> QED
        BY <3>1, <3>2, AutomationAssumption, LoopAssumption
          DEF AutoStandOK, AutoHeldOK, FanOK, AutoHolds, AutoWorking
    <2>2. CASE t # s
      <3>1. sched'[t] = sched[t] /\ AutoHolds(t) \subseteq Autos /\ AutoStandOK(t) /\ AutoHeldOK(t) /\ FanOK(t)
        BY <1>0, <1>2, <2>2 DEF AutoInv, AutoHolds, SchedState
      <3>2. AutoStandOK(t)' /\ FanOK(t)'
        BY <3>1 DEF ClaimDue, AutoStandOK, FanOK
      <3>3. AutoHeldOK(t)'
        BY <1>1, <3>1 DEF AutoHeldOK, AutoHolds
      <3> QED  BY <3>2, <3>3
    <2> QED  BY <2>1, <2>2
  <1>6. AutoAttemptsOK' /\ SentReachedListed'
    BY <1>1 DEF AutoInv, AutoAttemptsOK, SentReachedListed, ClaimDue
  <1> QED  BY <1>4, <1>5, <1>6 DEF AutoInv

LEMMA OneChanges ==
    ASSUME OneScheduler, AutomationsTypeOK, NEW s \in Schedulers, NEW v \in SchedState,
           sched' = [sched EXCEPT ![s] = v]
    PROVE  /\ sched' \in [Schedulers -> SchedState]
           /\ \A t \in Schedulers : sched'[t] = v
  BY DEF OneScheduler, AutomationsTypeOK

\* Steps of a fan-out that leave the rows alone.
LEMMA FanOutKeeps ==
    ASSUME OneScheduler, AutoInv, NEW s \in Schedulers,
           \/ \E a \in Autos : Pick(s, a)
           \/ \E r \in Runners : Announce(s, r)
           \/ ListRunners(s) \/ FanOutFails(s) \/ Unrecorded(s) \/ SchedulerCrashes(s)
    PROVE  AutoInv'
  <1>0. /\ AutomationsTypeOK /\ sched[s] \in SchedState /\ AutoStandOK(s) /\ AutoHeldOK(s) /\ FanOK(s)
        /\ sched \in [Schedulers -> SchedState] /\ confirmed \subseteq Runners
        /\ announced \in [Autos -> SUBSET Runners] /\ listed \in [Autos -> SUBSET Runners]
    BY DEF AutoInv, AutomationsTypeOK
  <1> DEFINE v == sched'[s]
  <1>1. sched' = [sched EXCEPT ![s] = v] /\ v \in SchedState
    <2>1. CASE \E a \in Autos : Pick(s, a)
      BY <1>0, <2>1 DEF Pick, SchedState
    <2>2. CASE \E r \in Runners : Announce(s, r)
      BY <1>0, <2>2 DEF Announce, SchedState
    <2>3. CASE ListRunners(s) \/ FanOutFails(s)
      BY <1>0, <2>3 DEF ListRunners, FanOutFails, SchedState
    <2>4. CASE Unrecorded(s) \/ SchedulerCrashes(s)
      BY <1>0, <2>4 DEF Unrecorded, SchedulerCrashes, SchedDone, IdleScheduler, SchedState
    <2> QED  BY <2>1, <2>2, <2>3, <2>4
  <1>2. sched' \in [Schedulers -> SchedState] /\ \A t \in Schedulers : sched'[t] = v
    BY <1>0, <1>1, OneChanges
  <1>3. UNCHANGED auto /\ confirmed' = confirmed /\ edits' = edits
    BY DEF Pick, Announce, ListRunners, FanOutFails, Unrecorded, SchedulerCrashes
  <1>4. CASE \E a \in Autos : Pick(s, a)
    <2>1. PICK a \in Autos : Pick(s, a)
      BY <1>4
    <2>2. /\ v.pc = "list" /\ v.todo = sched[s].todo \ {a} /\ v.auto = a /\ v.left = {}
          /\ a \in sched[s].todo /\ UNCHANGED <<announced, listed>>
      BY <1>0, <2>1 DEF Pick, SchedAt
    <2> QED
      BY <1>0, <1>2, <1>3, <2>2
        DEF AutoInv, AutomationsTypeOK, AutoStandOK, AutoHeldOK, FanOK, AutoHolds, AutoWorking,
                                   AutoAttemptsOK, SentReachedListed
  <1>5. CASE \E r \in Runners : Announce(s, r)
    <2>1. PICK r \in Runners : Announce(s, r)
      BY <1>5
    <2>2. /\ v.pc = "fan" /\ v.todo = sched[s].todo /\ v.auto = sched[s].auto
          /\ v.left = sched[s].left \ {r} /\ sched[s].pc = "fan" /\ listed' = listed
          /\ sched[s].auto \in Autos
          /\ announced' = [announced EXCEPT ![sched[s].auto] = @ \cup {r}]
      BY <1>0, <2>1 DEF Announce, SchedAt, SchedState, AutoStandOK, AutoWorking
    <2>3. announced' \in [Autos -> SUBSET Runners] /\ \A a \in Autos : announced[a] \subseteq announced'[a]
      BY <1>0, <2>2
    <2>4. \A t \in Schedulers : AutoStandOK(t)' /\ AutoHeldOK(t)'
      BY <1>0, <1>2, <1>3, <2>2 DEF AutoStandOK, AutoHeldOK, AutoHolds, AutoWorking
    <2>5. \A t \in Schedulers : FanOK(t)'
      BY <1>0, <1>2, <2>2 DEF FanOK
    <2>6. AutoAttemptsOK' /\ SentReachedListed'
      BY <1>3, <2>2, <2>3 DEF AutoInv, AutoAttemptsOK, SentReachedListed
    <2>7. AutomationsTypeOK'
      BY <1>0, <1>2, <1>3, <2>2, <2>3 DEF AutomationsTypeOK
    <2> QED  BY <2>4, <2>5, <2>6, <2>7 DEF AutoInv
  <1>6. CASE ListRunners(s)
    <2>1. /\ v.pc = "fan" /\ v.todo = sched[s].todo /\ v.auto = sched[s].auto /\ v.left = confirmed
          /\ sched[s].auto \in Autos /\ sched[s].auto \notin sched[s].todo
          /\ auto[sched[s].auto].status = "PROCESSING"
          /\ announced' = announced /\ listed' = [listed EXCEPT ![sched[s].auto] = confirmed]
      BY <1>0, <1>6 DEF ListRunners, SchedAt, SchedState, AutoStandOK, AutoHeldOK, AutoHolds, AutoWorking
    <2>2. listed' \in [Autos -> SUBSET Runners] /\ listed'[sched[s].auto] = confirmed
      BY <1>0, <2>1
    <2>3. \A t \in Schedulers : AutoStandOK(t)' /\ AutoHeldOK(t)' /\ FanOK(t)'
      BY <1>0, <1>2, <1>3, <2>1, <2>2 DEF AutoStandOK, AutoHeldOK, FanOK, AutoHolds, AutoWorking
    <2>4. AutoAttemptsOK' /\ SentReachedListed'
      BY <1>0, <1>3, <2>1 DEF AutoInv, AutoAttemptsOK, SentReachedListed
    <2>5. AutomationsTypeOK'
      BY <1>0, <1>2, <1>3, <2>1, <2>2 DEF AutomationsTypeOK
    <2> QED  BY <2>3, <2>4, <2>5 DEF AutoInv
  <1>7. CASE FanOutFails(s) \/ Unrecorded(s) \/ SchedulerCrashes(s)
    <2>1. /\ \/ /\ v.pc = "failed" /\ v.todo = sched[s].todo /\ v.auto = sched[s].auto /\ v.left = {}
                /\ sched[s].pc \in {"list", "fan"}
             \/ v.pc = "next" /\ v.todo = sched[s].todo /\ v.auto = NoItem /\ v.left = {}
             \/ v.pc = "idle" /\ v.todo = {} /\ v.auto = NoItem /\ v.left = {}
          /\ UNCHANGED <<announced, listed>>
      BY <1>0, <1>7
        DEF FanOutFails, Unrecorded, SchedulerCrashes, SchedDone, SchedAt, IdleScheduler, SchedState,
            AutoStandOK
    <2>2. \A t \in Schedulers : AutoStandOK(t)' /\ AutoHeldOK(t)' /\ FanOK(t)'
      BY <1>0, <1>2, <1>3, <2>1, AutomationAssumption, LoopAssumption
        DEF AutoStandOK, AutoHeldOK, FanOK, AutoHolds, AutoWorking
    <2>3. AutoAttemptsOK' /\ SentReachedListed' /\ AutomationsTypeOK'
      BY <1>0, <1>2, <1>3, <2>1 DEF AutoInv, AutoAttemptsOK, SentReachedListed, AutomationsTypeOK
    <2> QED  BY <2>2, <2>3 DEF AutoInv
  <1> QED  BY <1>4, <1>5, <1>6, <1>7

LEMMA FailedRow ==
    ASSUME NEW row \in Row, row.attempts < MaxAttempts
    PROVE  /\ AutomationFailed(row) \in Row /\ AutomationFailed(row).status \in {"SCHEDULED", "FAILED"}
           /\ AutomationFailed(row).status = "SCHEDULED" => AutomationFailed(row).attempts < MaxAttempts
  <1>0. row.attempts \in 0..MaxAttempts /\ MaxAttempts \in Nat
    BY AutomationAssumption, LoopAssumption DEF Row
  <1> DEFINE n == row.attempts + 1
             s == IF n >= MaxAttempts THEN "FAILED" ELSE "SCHEDULED"
  <1>1. n \in 0..MaxAttempts /\ (s = "SCHEDULED" => n < MaxAttempts) /\ s \in {"SCHEDULED", "FAILED"}
    BY <1>0
  <1>2. AutomationFailed(row) = [row EXCEPT !.attempts = n, !.due = FALSE, !.stale = FALSE, !.status = s]
    BY DEF AutomationFailed
  <1> HIDE DEF n, s
  <1>3. /\ AutomationFailed(row) \in Row /\ AutomationFailed(row).status = s /\ AutomationFailed(row).attempts = n
    BY <1>1, <1>2 DEF Row, Statuses, Editable
  <1> QED  BY <1>1, <1>3

\* The two writes no condition guards: what they replace is PROCESSING.
LEMMA RecordKeeps ==
    ASSUME OneScheduler, AutoInv, NEW s \in Schedulers, MarkSent(s) \/ RecordFailure(s)
    PROVE  AutoInv' /\ auto[sched[s].auto].status = "PROCESSING"
  <1>0. /\ AutomationsTypeOK /\ sched[s] \in SchedState /\ AutoStandOK(s) /\ AutoHeldOK(s) /\ FanOK(s) /\ AutoAttemptsOK
        /\ sched \in [Schedulers -> SchedState] /\ auto \in [Autos -> Row \cup {NoAutomation}]
    BY DEF AutoInv, AutomationsTypeOK
  <1> DEFINE a == sched[s].auto
             v == sched'[s]
             row == auto'[a]
  <1>1. /\ sched[s].pc \in {"fan", "failed"} /\ a \in Autos /\ a \notin sched[s].todo
        /\ auto[a].status = "PROCESSING" /\ auto[a] \in Row /\ auto[a].attempts < MaxAttempts
    <2>1. sched[s].pc \in {"fan", "failed"}
      BY DEF MarkSent, FannedOut, RecordFailure, SchedAt
    <2>2. a \in Autos /\ a \notin sched[s].todo
      BY <1>0, <2>1 DEF AutoStandOK, AutoWorking
    <2>3. auto[a].status = "PROCESSING"
      BY <1>0, <2>2 DEF AutoHeldOK, AutoHolds
    <2> QED  BY <1>0, <2>1, <2>2, <2>3 DEF AutoAttemptsOK, NoAutomation
  <1>2. /\ sched' = [sched EXCEPT ![s] = v] /\ v \in SchedState
        /\ v.pc \in {"idle", "next"} /\ v.auto = NoItem /\ v.left = {} /\ v.todo = sched[s].todo
        /\ v.pc = "idle" => v.todo = {}
    <2>1. SchedDone(s)
      BY DEF MarkSent, RecordFailure
    <2> QED  BY <1>0, <1>1, <2>1 DEF SchedDone, IdleScheduler, SchedState
  <1>3. sched' \in [Schedulers -> SchedState] /\ \A t \in Schedulers : sched'[t] = v
    BY <1>0, <1>2, OneChanges
  <1>4. /\ auto' = [auto EXCEPT ![a] = row] /\ row \in Row
        /\ row.status \in {"SCHEDULED", "PROCESSING"} => row.attempts < MaxAttempts
        /\ row.status \in {"SENT", "SCHEDULED", "FAILED"}
        /\ row.status = "SENT" => FannedOut(s)
    <2>1. CASE MarkSent(s)
      BY <1>0, <1>1, <2>1 DEF MarkSent, Row, Statuses, Editable
    <2>2. CASE RecordFailure(s)
      <3>1. auto' = [auto EXCEPT ![a] = AutomationFailed(auto[a])]
        BY <2>2 DEF RecordFailure
      <3>2. /\ AutomationFailed(auto[a]) \in Row /\ AutomationFailed(auto[a]).status \in {"SCHEDULED", "FAILED"}
            /\ AutomationFailed(auto[a]).status = "SCHEDULED" => AutomationFailed(auto[a]).attempts < MaxAttempts
        BY <1>1, FailedRow
      <3> QED  BY <1>0, <1>1, <3>1, <3>2
    <2> QED  BY <2>1, <2>2
  <1>5. /\ auto' \in [Autos -> Row \cup {NoAutomation}] /\ auto'[a] = row
        /\ \A b \in Autos : b # a => auto'[b] = auto[b]
        /\ UNCHANGED <<confirmed, announced, listed, edits>>
    BY <1>0, <1>1, <1>4 DEF MarkSent, RecordFailure
  <1>6. AutomationsTypeOK'
    BY <1>0, <1>3, <1>5 DEF AutomationsTypeOK
  <1>7. \A t \in Schedulers : AutoStandOK(t)' /\ AutoHeldOK(t)' /\ FanOK(t)'
    BY <1>0, <1>1, <1>2, <1>3, <1>5, AutomationAssumption, LoopAssumption
      DEF AutoStandOK, AutoHeldOK, FanOK, AutoHolds, AutoWorking, SchedState
  <1>8. AutoAttemptsOK'
    BY <1>0, <1>4, <1>5 DEF AutoAttemptsOK
  <1>9. SentReachedListed'
    BY <1>0, <1>1, <1>4, <1>5 DEF AutoInv, SentReachedListed, FannedOut, FanOK, SchedAt
  <1> QED  BY <1>1, <1>6, <1>7, <1>8, <1>9 DEF AutoInv

LEMMA AutoNext == ASSUME OneScheduler, AutoInv, [AutomationsNext]_automationVars PROVE AutoInv'
  <1>1. CASE \E a \in Autos : Administer(a) \/ AutomationComesDue(a) \/ AutomationLeaseLapses(a)
    BY <1>1, EditorKeeps
  <1>2. CASE \E r \in Runners : Turn(r)
    BY <1>2, TurnKeeps
  <1>3. ASSUME NEW s \in Schedulers, SchedulerStep(s)
        PROVE  AutoInv'
    BY <1>3, ClaimKeeps, FanOutKeeps, RecordKeeps DEF SchedulerStep
  <1>4. CASE UNCHANGED automationVars
    BY <1>4
      DEF automationVars, AutoInv, AutomationsTypeOK, AutoStandOK, AutoHeldOK, FanOK, AutoHolds,
          AutoAttemptsOK, SentReachedListed
  <1> QED  BY <1>1, <1>2, <1>3, <1>4 DEF AutomationsNext

-----------------------------------------------------------------------------
(* Theorems                                                                 *)

LEMMA AutoInvariant == ASSUME OneScheduler PROVE AutomationsSpec => []AutoInv
  BY AutoInit, AutoNext, PTL DEF AutomationsSpec

\* Rows, schedulers and the histories keep their types, attempts their range.
THEOREM AutomationTypes == ASSUME OneScheduler PROVE AutomationsSpec => []AutomationsTypeOK
  <1>1. AutoInv => AutomationsTypeOK
    BY DEF AutoInv
  <1> QED  BY <1>1, AutoInvariant, PTL

\* Of everyone a fan-out listed before its automation was marked SENT, nobody
\* is without the notification, whatever failed before.
THEOREM SentReachedAll == ASSUME OneScheduler PROVE AutomationsSpec => []SentReachedListed
  <1>1. AutoInv => SentReachedListed
    BY DEF AutoInv
  <1> QED  BY <1>1, AutoInvariant, PTL

\* A SENT or CANCELLED automation keeps its status (ErrImmutable), although the
\* scheduler's own writes do not look at it.
THEOREM FinishedStays == ASSUME OneScheduler PROVE AutomationsSpec => FinishedIsFinal
  <1>1. ASSUME AutoInv, [AutomationsNext]_automationVars, NEW a \in Autos, auto[a].status \in {"SENT", "CANCELLED"}
        PROVE  auto'[a].status = auto[a].status
    <2>0. auto \in [Autos -> Row \cup {NoAutomation}]
      BY <1>1 DEF AutoInv, AutomationsTypeOK
    <2>1. ASSUME NEW b \in Autos, Administer(b) \/ AutomationComesDue(b) \/ AutomationLeaseLapses(b)
          PROVE  auto'[a] = auto[a]
      BY <1>1, <2>0, <2>1
        DEF Administer, CreateAutomation, Update, CancelAutomation, AutomationComesDue,
            AutomationLeaseLapses, Editable
    <2>2. ASSUME NEW s \in Schedulers, NEW rows \in SUBSET Autos, ClaimDue(s, rows)
          PROVE  auto'[a] = auto[a]
      BY <1>1, <2>2 DEF ClaimDue, Due
    <2>3. ASSUME NEW s \in Schedulers, MarkSent(s) \/ RecordFailure(s)
          PROVE  auto'[a] = auto[a]
      BY <1>1, <2>0, <2>3, RecordKeeps DEF MarkSent, RecordFailure
    <2>4. ASSUME NEW s \in Schedulers, SchedulerStep(s)
          PROVE  auto'[a] = auto[a]
      BY <2>2, <2>3, <2>4 DEF SchedulerStep, Pick, Announce, ListRunners, FanOutFails, Unrecorded,
                              SchedulerCrashes
    <2> QED  BY <1>1, <2>1, <2>4 DEF AutomationsNext, automationVars, Turn
  <1>2. AutoInv /\ [AutomationsNext]_automationVars =>
          [\A a \in Autos : auto[a].status \in {"SENT", "CANCELLED"} => auto'[a].status = auto[a].status]_automationVars
    BY <1>1
  <1> QED  BY <1>2, AutoInvariant, PTL DEF AutomationsSpec, FinishedIsFinal

\* A draft, a cancelled or a postponed automation reaches nobody.
THEOREM OnlyProcessingReaches == ASSUME OneScheduler PROVE AutomationsSpec => OnlyProcessingAnnounces
  <1>1. ASSUME AutoInv, [AutomationsNext]_automationVars, NEW a \in Autos, announced'[a] # announced[a]
        PROVE  auto[a].status = "PROCESSING"
    <2>1. PICK s \in Schedulers, r \in Runners : Announce(s, r)
      BY <1>1
        DEF AutomationsNext, automationVars, Administer, CreateAutomation, Update, CancelAutomation,
            AutomationComesDue, AutomationLeaseLapses, Turn, SchedulerStep,
                  ClaimDue, Pick, ListRunners, FanOutFails, MarkSent, RecordFailure, Unrecorded, SchedulerCrashes
    <2>2. announced \in [Autos -> SUBSET Runners] /\ AutoStandOK(s) /\ AutoHeldOK(s)
      BY <1>1 DEF AutoInv, AutomationsTypeOK
    <2>3. sched[s].auto = a
      BY <1>1, <2>1, <2>2 DEF Announce
    <2> QED  BY <2>2, <2>3 DEF AutoHeldOK, AutoHolds
  <1>2. AutoInv /\ [AutomationsNext]_automationVars =>
          [\A a \in Autos : announced'[a] # announced[a] => auto[a].status = "PROCESSING"]_automationVars
    BY <1>1
  <1> QED  BY <1>2, AutoInvariant, PTL DEF AutomationsSpec, OnlyProcessingAnnounces
=============================================================================
