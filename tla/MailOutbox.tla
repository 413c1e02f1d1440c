----------------------------- MODULE MailOutbox -----------------------------
(***************************************************************************)
(* E-mail notifications (backend/internal/notifications): rows made once   *)
(* per subject, an unreliable Redis queue that wakes the mail worker, and  *)
(* a sweep that finds what the queue lost.                                 *)
(*                                                                         *)
(* No status written after a send is guarded by the status it replaces;    *)
(* what keeps mails single is the order of steps in the one worker.        *)
(***************************************************************************)
EXTENDS WorkerLoop, Sequences, FiniteSets

CONSTANTS
    Notes,       \* subjects: one per (type, entity_type, entity_id)
    Mailers      \* processes running the mail worker

ASSUME MailAssumption == NoItem \notin Notes

VARIABLES
    note,      \* notifications rows
    unpushed,  \* rows committed whose enqueue has not reached the Redis push
    queue,     \* the Redis list, newest first
    mailer,    \* where each mail worker is
    mailed,    \* history: mails accepted by the relay, per notification
    mailDoubts \* history: a mail was accepted and its row does not say so

mailVars == <<note, unpushed, queue, mailer, mailed, mailDoubts>>

-----------------------------------------------------------------------------
(* Rows and workers *)

NoteRow == [status : {"PENDING", "SENT", "FAILED"}, attempts : 0..MaxAttempts, aged : BOOLEAN]
NoNote == [status |-> "NONE"]

MailerState == [pc : {"idle", "next", "load", "send", "sent", "failed"},
                todo : SUBSET Notes, note : Notes \cup {NoItem}]
IdleMailer == [pc |-> "idle", todo |-> {}, note |-> NoItem]

\* Rows, queue and workers hold values of their types; attempts stay in range.
MailTypeOK ==
    /\ note \in [Notes -> NoteRow \cup {NoNote}]
    /\ unpushed \subseteq Notes
    /\ queue \in Seq(Notes)
    /\ mailer \in [Mailers -> MailerState]
    /\ mailed \in [Notes -> 0..2]
    /\ mailDoubts \subseteq Notes

\* Bound: sends are counted up to two.
CountMail(n) == mailed' = [mailed EXCEPT ![n] = IF @ < 2 THEN @ + 1 ELSE @]

-----------------------------------------------------------------------------
(* Enqueueing *)

\* Create: a subject that has its row already is left alone (dedup index).
Enqueue(n) ==
    /\ note[n].status = "NONE"
    /\ note' = [note EXCEPT ![n] = [status |-> "PENDING", attempts |-> 0, aged |-> FALSE]]
    /\ unpushed' = unpushed \cup {n}
    /\ UNCHANGED <<queue, mailer, mailed, mailDoubts>>

\* LPUSH after the commit; a failure is logged, and a crash may come between.
Push(n) ==
    /\ n \in unpushed
    /\ unpushed' = unpushed \ {n}
    /\ \/ queue' = <<n>> \o queue
       \/ LoopFaults \cap {"redis", "crash"} # {} /\ UNCHANGED queue
    /\ UNCHANGED <<note, mailer, mailed, mailDoubts>>

\* Redis keeps nothing across a restart.
QueueLost ==
    /\ "redis" \in LoopFaults
    /\ queue # <<>>
    /\ queue' = <<>>
    /\ UNCHANGED <<note, unpushed, mailer, mailed, mailDoubts>>

\* The row becomes older than sweepAge.
Ages(n) ==
    /\ note[n].status = "PENDING"
    /\ ~note[n].aged
    /\ note' = [note EXCEPT ![n].aged = TRUE]
    /\ UNCHANGED <<unpushed, queue, mailer, mailed, mailDoubts>>

-----------------------------------------------------------------------------
(* The mail worker: one notification at a time, from the queue or a sweep *)

MailerAt(m, pc) == mailer[m].pc = pc
MailerGoto(m, pc) == mailer' = [mailer EXCEPT ![m].pc = pc]
MailerDone(m) ==
    mailer' = [mailer EXCEPT ![m] = IF @.todo = {} THEN IdleMailer
                                    ELSE [@ EXCEPT !.pc = "next", !.note = NoItem]]

MailPop(m) ==
    /\ MailerAt(m, "idle")
    /\ queue # <<>>
    /\ mailer' = [mailer EXCEPT ![m] = [pc |-> "load", todo |-> {}, note |-> queue[Len(queue)]]]
    /\ queue' = SubSeq(queue, 1, Len(queue) - 1)
    /\ UNCHANGED <<note, unpushed, mailed, mailDoubts>>

\* Mutant: the sweep takes no row that has failed before.
UnsentUntried == {n \in Notes : note[n].status = "PENDING" /\ note[n].aged /\ note[n].attempts = 0}

Unsent == {n \in Notes : note[n].status = "PENDING" /\ note[n].aged}

\* ListPendingOlderThan: its limit of 100 is not modelled.
MailSweep(m) ==
    /\ MailerAt(m, "idle")
    /\ Unsent # {}
    /\ mailer' = [mailer EXCEPT ![m] = [pc |-> "next", todo |-> Unsent, note |-> NoItem]]
    /\ UNCHANGED <<note, unpushed, queue, mailed, mailDoubts>>

MailNext(m, n) ==
    /\ MailerAt(m, "next")
    /\ n \in mailer[m].todo
    /\ mailer' = [mailer EXCEPT ![m] = [pc |-> "load", todo |-> @.todo \ {n}, note |-> n]]
    /\ UNCHANGED <<note, unpushed, queue, mailed, mailDoubts>>

\* Mutant: the status is not looked at again.
MailLoadUnchecked(m) ==
    /\ MailerAt(m, "load")
    /\ MailerGoto(m, "send")
    /\ UNCHANGED <<note, unpushed, queue, mailed, mailDoubts>>

\* process: only a row that is still PENDING is sent.
MailLoad(m) ==
    /\ MailerAt(m, "load")
    /\ IF note[mailer[m].note].status = "PENDING" THEN MailerGoto(m, "send") ELSE MailerDone(m)
    /\ UNCHANGED <<note, unpushed, queue, mailed, mailDoubts>>

\* The relay accepts, refuses, or accepts and the answer is lost.
MailSend(m) ==
    /\ MailerAt(m, "send")
    /\ \/ MailerGoto(m, "sent") /\ CountMail(mailer[m].note) /\ UNCHANGED mailDoubts
       \/ MailerGoto(m, "failed") /\ UNCHANGED <<mailed, mailDoubts>>
       \/ /\ MailerGoto(m, "failed")
          /\ CountMail(mailer[m].note)
          /\ mailDoubts' = mailDoubts \cup {mailer[m].note}
    /\ UNCHANGED <<note, unpushed, queue>>

\* After a failure: attempts + 1, and FAILED once they reach the maximum.
NoteFailed(row) == [row EXCEPT !.attempts = @ + 1,
                           !.status = IF row.attempts + 1 >= MaxAttempts THEN "FAILED" ELSE "PENDING"]

\* MarkSent and RecordFailure: by id, whatever the status has become.
MailSent(m) ==
    /\ MailerAt(m, "sent")
    /\ note' = [note EXCEPT ![mailer[m].note].status = "SENT"]
    /\ MailerDone(m)
    /\ UNCHANGED <<unpushed, queue, mailed, mailDoubts>>

MailFailed(m) ==
    /\ MailerAt(m, "failed")
    /\ note' = [note EXCEPT ![mailer[m].note] = NoteFailed(@)]
    /\ MailerDone(m)
    /\ UNCHANGED <<unpushed, queue, mailed, mailDoubts>>

MailAccepted(m) == IF MailerAt(m, "sent") THEN {mailer[m].note} ELSE {}

\* A database error at any of these steps is logged and the row left as it is.
MailUnrecorded(m) ==
    /\ "db" \in LoopFaults
    /\ mailer[m].pc \in {"load", "sent", "failed"}
    /\ mailDoubts' = mailDoubts \cup MailAccepted(m)
    /\ MailerDone(m)
    /\ UNCHANGED <<note, unpushed, queue, mailed>>

MailerCrashes(m) ==
    /\ "crash" \in LoopFaults
    /\ ~MailerAt(m, "idle")
    /\ mailDoubts' = mailDoubts \cup MailAccepted(m)
    /\ mailer' = [mailer EXCEPT ![m] = IdleMailer]
    /\ UNCHANGED <<note, unpushed, queue, mailed>>

-----------------------------------------------------------------------------
InitMail ==
    /\ note = [n \in Notes |-> NoNote]
    /\ unpushed = {}
    /\ queue = <<>>
    /\ mailer = [m \in Mailers |-> IdleMailer]
    /\ mailed = [n \in Notes |-> 0]
    /\ mailDoubts = {}

MailStep(m) ==
    \/ MailPop(m) \/ MailSweep(m) \/ MailLoad(m) \/ MailSend(m)
    \/ MailSent(m) \/ MailFailed(m) \/ MailUnrecorded(m) \/ MailerCrashes(m)
    \/ \E n \in Notes : MailNext(m, n)

MailLoopNext ==
    \/ \E n \in Notes : Enqueue(n) \/ Push(n) \/ Ages(n)
    \/ QueueLost
    \/ \E m \in Mailers : MailStep(m)

MailSpec == InitMail /\ [][MailLoopNext]_mailVars

(***************************************************************************)
(* Fairness.  A row grows old, and the worker's loop runs for ever: strong *)
(* fairness on its steps says that crashes and database errors do not      *)
(* always hit the same step, and that a sweep is not put off for ever by a *)
(* busy queue.  Pushes and pops need none: the sweep replaces them.        *)
(***************************************************************************)
MailFairness ==
    /\ \A n \in Notes : WF_mailVars(Ages(n))
    /\ \A m \in Mailers :
          /\ SF_mailVars(MailSweep(m))
          /\ \A n \in Notes : SF_mailVars(MailNext(m, n))
          /\ SF_mailVars(MailLoad(m)) /\ SF_mailVars(MailSend(m))
          /\ SF_mailVars(MailSent(m)) /\ SF_mailVars(MailFailed(m))

MailFairSpec == MailSpec /\ MailFairness

-----------------------------------------------------------------------------
(* Properties, for the one mail worker of the documented deployment         *)
(* ("Keep exactly one worker", docs/scaling.md:190)                         *)

\* A runner gets a mail twice only when an acceptance went unrecorded (a crash
\* or a database error after the send, or a lost answer): a notification that
\* is both queued and swept is never doubled (process re-reads the status).
MailedOnce == \A n \in Notes : mailed[n] > 1 => n \in mailDoubts

\* An outcome recorded for a notification stands, although neither MarkSent
\* nor RecordFailure says WHERE status = 'PENDING'.
NoteOutcomesStand ==
    [][\A n \in Notes : note[n].status \in {"SENT", "FAILED"} => note'[n] = note[n]]_mailVars

\* Every notification is mailed or given up in the end, whatever the queue
\* loses ("Paired with a Postgres sweep for durability", docs/scaling.md:153).
NotesSettle ==
    \A n \in Notes : note[n].status = "PENDING" ~> note[n].status \in {"SENT", "FAILED"}
=============================================================================
