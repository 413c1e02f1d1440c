--------------------------- MODULE TelegramOutbox ---------------------------
(***************************************************************************)
(* Telegram deliveries (backend/internal/notifications): a worker leases a *)
(* batch for two minutes, sends it message after message and records each  *)
(* outcome by id, whatever the row's status has become meanwhile.          *)
(***************************************************************************)
EXTENDS WorkerLoop, FiniteSets

CONSTANTS
    Deliveries,    \* the Telegram delivery of each notification
    Senders,       \* processes running the Telegram worker
    DeliveryBatch  \* most deliveries claimed at once

ASSUME TelegramAssumption ==
    /\ NoItem \notin Deliveries
    /\ DeliveryBatch \in Nat \ {0}

VARIABLES
    delivery,   \* notification_deliveries rows
    sender,     \* where each worker is
    posted,     \* history: messages accepted by Telegram, per notification
    postDoubts  \* history: a message was accepted and its row does not say so

deliveryVars == <<delivery, sender, posted, postDoubts>>

-----------------------------------------------------------------------------
(* Rows and workers *)

DeliveryRow == [status : {"PENDING", "PROCESSING", "SENT", "SKIPPED", "FAILED"},
                attempts : 0..MaxAttempts, due : BOOLEAN, stale : BOOLEAN]
NoDelivery == [status |-> "NONE"]
NewDelivery == [status |-> "PENDING", attempts |-> 0, due |-> TRUE, stale |-> FALSE]

SenderState == [pc : {"idle", "next", "send", "sent", "skipped", "failed"},
                todo : SUBSET Deliveries, note : Deliveries \cup {NoItem}]
IdleSender == [pc |-> "idle", todo |-> {}, note |-> NoItem]

\* Rows and workers hold values of their types; attempts stay in range.
TelegramTypeOK ==
    /\ delivery \in [Deliveries -> DeliveryRow \cup {NoDelivery}]
    /\ sender \in [Senders -> SenderState]
    /\ posted \in [Deliveries -> 0..2]
    /\ postDoubts \subseteq Deliveries

\* Bound: messages are counted up to two.
CountPost(n) == posted' = [posted EXCEPT ![n] = IF @ < 2 THEN @ + 1 ELSE @]

-----------------------------------------------------------------------------
(* The worker *)

SenderAt(s, pc) == sender[s].pc = pc
SenderGoto(s, pc) == sender' = [sender EXCEPT ![s].pc = pc]
SenderDone(s) ==
    sender' = [sender EXCEPT ![s] = IF @.todo = {} THEN IdleSender
                                    ELSE [@ EXCEPT !.pc = "next", !.note = NoItem]]

\* Mutant: a delivery left PROCESSING is not claimed again.
ClaimablePending == {n \in Deliveries : delivery[n].status = "PENDING" /\ delivery[n].due}

ClaimableDeliveries ==
    {n \in Deliveries : \/ delivery[n].status = "PENDING" /\ delivery[n].due
                        \/ delivery[n].status = "PROCESSING" /\ delivery[n].stale}

\* ClaimTelegramDeliveries: SKIP LOCKED may leave any candidate out.
TelegramClaim(s, rows) ==
    /\ SenderAt(s, "idle")
    /\ rows # {}
    /\ rows \subseteq ClaimableDeliveries
    /\ Cardinality(rows) <= DeliveryBatch
    /\ delivery' = [n \in Deliveries |-> IF n \in rows
                                    THEN [delivery[n] EXCEPT !.status = "PROCESSING", !.stale = FALSE]
                                    ELSE delivery[n]]
    /\ sender' = [sender EXCEPT ![s] = [pc |-> "next", todo |-> rows, note |-> NoItem]]
    /\ UNCHANGED <<posted, postDoubts>>

TelegramNext(s, n) ==
    /\ SenderAt(s, "next")
    /\ n \in sender[s].todo
    /\ sender' = [sender EXCEPT ![s] = [pc |-> "send", todo |-> @.todo \ {n}, note |-> n]]
    /\ UNCHANGED <<delivery, posted, postDoubts>>

\* SendNotification: accepted; not wanted by the runner; failed; or accepted
\* although the client saw an error.
TelegramSend(s) ==
    /\ SenderAt(s, "send")
    /\ \/ SenderGoto(s, "sent") /\ CountPost(sender[s].note) /\ UNCHANGED postDoubts
       \/ SenderGoto(s, "skipped") /\ UNCHANGED <<posted, postDoubts>>
       \/ SenderGoto(s, "failed") /\ UNCHANGED <<posted, postDoubts>>
       \/ /\ SenderGoto(s, "failed")
          /\ CountPost(sender[s].note)
          /\ postDoubts' = postDoubts \cup {sender[s].note}
    /\ UNCHANGED delivery

\* RecordDeliveryFailure: back off, or give up at the last attempt.
DeliveryFailed(row) ==
    [row EXCEPT !.attempts = @ + 1, !.due = FALSE, !.stale = FALSE,
                !.status = IF row.attempts + 1 >= MaxAttempts THEN "FAILED" ELSE "PENDING"]

\* MarkDeliverySent, MarkDeliverySkipped and RecordDeliveryFailure: by id.
TelegramRecord(s) ==
    /\ sender[s].pc \in {"sent", "skipped", "failed"}
    /\ delivery' = [delivery EXCEPT ![sender[s].note] =
                      CASE SenderAt(s, "sent")    -> [@ EXCEPT !.status = "SENT", !.stale = FALSE]
                        [] SenderAt(s, "skipped") -> [@ EXCEPT !.status = "SKIPPED", !.stale = FALSE]
                        [] SenderAt(s, "failed")  -> DeliveryFailed(@)]
    /\ SenderDone(s)
    /\ UNCHANGED <<posted, postDoubts>>

PostAccepted(s) == IF SenderAt(s, "sent") THEN {sender[s].note} ELSE {}

TelegramUnrecorded(s) ==
    /\ "db" \in LoopFaults
    /\ sender[s].pc \in {"sent", "skipped", "failed"}
    /\ postDoubts' = postDoubts \cup PostAccepted(s)
    /\ SenderDone(s)
    /\ UNCHANGED <<delivery, posted>>

SenderCrashes(s) ==
    /\ "crash" \in LoopFaults
    /\ ~SenderAt(s, "idle")
    /\ postDoubts' = postDoubts \cup PostAccepted(s)
    /\ sender' = [sender EXCEPT ![s] = IdleSender]
    /\ UNCHANGED <<delivery, posted>>

\* Two minutes have passed since locked_at, which nothing renews.
DeliveryLeaseLapses(n) ==
    /\ delivery[n].status = "PROCESSING"
    /\ ~delivery[n].stale
    /\ delivery' = [delivery EXCEPT ![n].stale = TRUE]
    /\ UNCHANGED <<sender, posted, postDoubts>>

\* next_attempt_at is reached.
DeliveryComesDue(n) ==
    /\ delivery[n].status = "PENDING"
    /\ ~delivery[n].due
    /\ delivery' = [delivery EXCEPT ![n].due = TRUE]
    /\ UNCHANGED <<sender, posted, postDoubts>>

\* Mutant: a retry of any delivery.
RetryAny(n) ==
    /\ delivery[n].status # "NONE"
    /\ delivery' = [delivery EXCEPT ![n] = NewDelivery]
    /\ UNCHANGED <<sender, posted, postDoubts>>

\* RetryTelegramDelivery, by an administrator: of FAILED deliveries only.
RetryTelegramDelivery(n) ==
    /\ delivery[n].status = "FAILED"
    /\ delivery' = [delivery EXCEPT ![n] = NewDelivery]
    /\ UNCHANGED <<sender, posted, postDoubts>>

\* The delivery row that Create inserts with its notification.
CreateDelivery(n) ==
    /\ delivery[n].status = "NONE"
    /\ delivery' = [delivery EXCEPT ![n] = NewDelivery]
    /\ UNCHANGED <<sender, posted, postDoubts>>

-----------------------------------------------------------------------------
InitTelegram ==
    /\ delivery = [n \in Deliveries |-> NoDelivery]
    /\ sender = [s \in Senders |-> IdleSender]
    /\ posted = [n \in Deliveries |-> 0]
    /\ postDoubts = {}

TelegramStep(s) ==
    \/ \E rows \in SUBSET Deliveries : TelegramClaim(s, rows)
    \/ \E n \in Deliveries : TelegramNext(s, n)
    \/ TelegramSend(s) \/ TelegramRecord(s) \/ TelegramUnrecorded(s) \/ SenderCrashes(s)

TelegramLoopNext ==
    \/ \E n \in Deliveries : \/ CreateDelivery(n) \/ RetryTelegramDelivery(n)
                              \/ DeliveryLeaseLapses(n) \/ DeliveryComesDue(n)
    \/ \E s \in Senders : TelegramStep(s)

TelegramSpec == InitTelegram /\ [][TelegramLoopNext]_deliveryVars

(***************************************************************************)
(* Fairness.  Clocks reach their instants and the worker polls for ever;   *)
(* strong fairness on its steps says that crashes and database errors do   *)
(* not always hit the same step of the same delivery.  The claim is fair   *)
(* to each row: it takes the oldest first.                                 *)
(***************************************************************************)
TelegramFairness ==
    /\ \A n \in Deliveries : WF_deliveryVars(DeliveryLeaseLapses(n)) /\ WF_deliveryVars(DeliveryComesDue(n))
    /\ \A s \in Senders, n \in Deliveries :
          /\ SF_deliveryVars(\E rows \in SUBSET Deliveries : n \in rows /\ TelegramClaim(s, rows))
          /\ SF_deliveryVars(TelegramNext(s, n))
          /\ SF_deliveryVars(sender[s].note = n /\ TelegramSend(s))
          /\ SF_deliveryVars(sender[s].note = n /\ TelegramRecord(s))

TelegramFairSpec == TelegramSpec /\ TelegramFairness

-----------------------------------------------------------------------------
(* Properties, for the one worker of the documented deployment              *)

\* A runner gets a message twice only when an acceptance went unrecorded (a
\* crash or a database error after the send, or a lost answer): neither the
\* lease, nor the backoff, nor an administrator's retry doubles it.
PostedOnce == \A n \in Deliveries : posted[n] > 1 => n \in postDoubts

\* A delivery that was sent or skipped stays so, although no status update says
\* WHERE status = ...; only an administrator reopens a failed one.
DeliveryOutcomesStand ==
    [][\A n \in Deliveries :
          /\ delivery[n].status \in {"SENT", "SKIPPED"} => delivery'[n] = delivery[n]
          /\ delivery[n].status = "FAILED" => delivery'[n] \in {delivery[n], NewDelivery}]_deliveryVars

\* Every delivery is sent, skipped or given up in the end, even if its worker
\* dies with the batch.
DeliveriesSettle ==
    \A n \in Deliveries :
        delivery[n].status \in {"PENDING", "PROCESSING"}
            ~> delivery[n].status \in {"SENT", "SKIPPED", "FAILED"}

-----------------------------------------------------------------------------
(* What a comment says and the code does not do *)

\* "leases pending work so multiple API instances do not send the same message
\* concurrently" (repository.go:77).
NoConcurrentSends ==
    \A s, t \in Senders :
        SenderAt(s, "send") /\ SenderAt(t, "send") /\ sender[s].note = sender[t].note => s = t
=============================================================================
