----------------------------- MODULE MCWorkers ------------------------------
(***************************************************************************)
(* The four loops of the worker process in one run: the payment            *)
(* reconciler, with the requests it settles, the mail worker, the Telegram *)
(* worker and the automation scheduler.  They share no row, so a behaviour *)
(* follows the one loop that is chosen at its start; the others stand      *)
(* still.                                                                  *)
(***************************************************************************)
EXTENDS MCRegistrationService, MailOutbox, TelegramOutbox, EventAutomations

VARIABLE loop    \* the loop that this behaviour follows

Loops == {"reconciler", "mail", "telegram", "automations"}

WorkersInit ==
    /\ loop \in Loops
    /\ Init /\ InitMail /\ InitTelegram /\ InitAutomations
    /\ loop # "reconciler" => \A c \in Categories : capacity[c] = MaxCapacity

\* The loop that is followed takes its steps, and the others rest.
Rests(l, loopVars) == loop # l => UNCHANGED loopVars
Step(l, next) == loop = l => next

WorkersNext ==
    /\ UNCHANGED loop
    /\ Rests("reconciler", vars) /\ Rests("mail", mailVars)
    /\ Rests("telegram", deliveryVars) /\ Rests("automations", automationVars)
    /\ Step("reconciler", Next) /\ Step("mail", MailLoopNext)
    /\ Step("telegram", TelegramLoopNext) /\ Step("automations", AutomationsNext)

workersVars == <<vars, mailVars, deliveryVars, automationVars, loop>>

\* Each loop keeps the fairness of its own module.
WorkersFairness ==
    \/ loop = "reconciler" /\ Fairness
    \/ loop = "mail" /\ MailFairness
    \/ loop = "telegram" /\ TelegramFairness
    \/ loop = "automations" /\ AutomationsFairness

WorkersSpec == WorkersInit /\ [][WorkersNext]_workersVars /\ WorkersFairness

-----------------------------------------------------------------------------
\* Every e-mail and every Telegram delivery that is recorded ends sent, given up or
\* cancelled, whatever is pushed twice, lost or left behind by a worker that dies.
MessagesSettle == NotesSettle /\ DeliveriesSettle
=============================================================================
