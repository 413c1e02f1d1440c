-------------------------- MODULE EventAutomations --------------------------
(***************************************************************************)
(* Announcements an administrator drafts, schedules, edits and cancels,    *)
(* and the scheduler that claims the due ones, lists the confirmed runners *)
(* of the event and enqueues one notification for each                     *)
(* (backend/internal/eventautomations).                                    *)
(*                                                                         *)
(* Edits are guarded by the status in the database; MarkSent and           *)
(* RecordFailure are not.                                                  *)
(***************************************************************************)
EXTENDS WorkerLoop, FiniteSets

CONSTANTS
    Autos,            \* automations of one event
    Runners,          \* registrations for that event
    Schedulers,       \* processes running the scheduler
    AutomationBatch,  \* most automations claimed at once
    EditBound         \* bound on an administrator's edits of one automation

ASSUME AutomationAssumption ==
    /\ NoItem \notin Autos
    /\ AutomationBatch \in Nat \ {0}
    /\ EditBound \in Nat

VARIABLES
    auto,       \* event_automations rows
    sched,      \* where each scheduler is, and what it has read
    confirmed,  \* registrations that are CONFIRMED now
    announced,  \* runners with a notification row, per automation
    listed,     \* history: the runners the last fan-out of an automation listed
    edits       \* edits made so far, for EditBound

automationVars == <<auto, sched, confirmed, announced, listed, edits>>

-----------------------------------------------------------------------------
Editable == {"DRAFT", "SCHEDULED", "FAILED"}
Statuses == Editable \cup {"PROCESSING", "SENT", "CANCELLED"}

\* due: send_at and next_attempt_at have passed; stale: locked_at is over five
\* minutes old.
Row == [status : Statuses, attempts : 0..MaxAttempts, due : BOOLEAN, stale : BOOLEAN]
NoAutomation == [status |-> "NONE"]
NewAutomation(status) == [status |-> status, attempts |-> 0, due |-> FALSE, stale |-> FALSE]

SchedState == [pc : {"idle", "next", "list", "fan", "failed"}, todo : SUBSET Autos,
               auto : Autos \cup {NoItem}, left : SUBSET Runners]
IdleScheduler == [pc |-> "idle", todo |-> {}, auto |-> NoItem, left |-> {}]

\* Rows and schedulers hold values of their types; attempts stay in range.
AutomationsTypeOK ==
    /\ auto \in [Autos -> Row \cup {NoAutomation}]
    /\ sched \in [Schedulers -> SchedState]
    /\ confirmed \subseteq Runners
    /\ announced \in [Autos -> SUBSET Runners]
    /\ listed \in [Autos -> SUBSET Runners]
    /\ edits \in [Autos -> 0..EditBound]

-----------------------------------------------------------------------------
(* The administrator *)

CreateAutomation(a, status) ==
    /\ auto[a].status = "NONE"
    /\ auto' = [auto EXCEPT ![a] = NewAutomation(status)]
    /\ UNCHANGED <<sched, confirmed, announced, listed, edits>>

\* Update: a new send_at, or none; only a FAILED row gets its attempts back.
Update(a, status) ==
    /\ auto[a].status \in Editable
    /\ edits[a] < EditBound
    /\ auto' = [auto EXCEPT ![a] =
                  [status |-> status, due |-> FALSE, stale |-> @.stale,
                   attempts |-> IF @.status = "FAILED" THEN 0 ELSE @.attempts]]
    /\ edits' = [edits EXCEPT ![a] = @ + 1]
    /\ UNCHANGED <<sched, confirmed, announced, listed>>

\* Mutant: Cancel does not look at the status.
CancelAny(a) ==
    /\ auto[a].status # "NONE"
    /\ auto' = [auto EXCEPT ![a].status = "CANCELLED"]
    /\ UNCHANGED <<sched, confirmed, announced, listed, edits>>

CancelAutomation(a) ==
    /\ auto[a].status \in Editable
    /\ auto' = [auto EXCEPT ![a].status = "CANCELLED"]
    /\ UNCHANGED <<sched, confirmed, announced, listed, edits>>

-----------------------------------------------------------------------------
(* The scheduler *)

SchedAt(s, pc) == sched[s].pc = pc
SchedDone(s) ==
    sched' = [sched EXCEPT ![s] = IF @.todo = {} THEN IdleScheduler
                                  ELSE [pc |-> "next", todo |-> @.todo, auto |-> NoItem, left |-> {}]]

\* Mutant: what is PROCESSING is never claimed again.
DueScheduled == {a \in Autos : auto[a].status = "SCHEDULED" /\ auto[a].due}

Due == {a \in Autos : \/ auto[a].status = "SCHEDULED" /\ auto[a].due
                      \/ auto[a].status = "PROCESSING" /\ auto[a].stale}

\* ClaimDue: SKIP LOCKED may leave any candidate out.
ClaimDue(s, rows) ==
    /\ SchedAt(s, "idle")
    /\ rows # {}
    /\ rows \subseteq Due
    /\ Cardinality(rows) <= AutomationBatch
    /\ auto' = [a \in Autos |-> IF a \in rows
                                THEN [auto[a] EXCEPT !.status = "PROCESSING", !.stale = FALSE]
                                ELSE auto[a]]
    /\ sched' = [sched EXCEPT ![s] = [pc |-> "next", todo |-> rows, auto |-> NoItem, left |-> {}]]
    /\ UNCHANGED <<confirmed, announced, listed, edits>>

Pick(s, a) ==
    /\ SchedAt(s, "next")
    /\ a \in sched[s].todo
    /\ sched' = [sched EXCEPT ![s] = [pc |-> "list", todo |-> @.todo \ {a}, auto |-> a, left |-> {}]]
    /\ UNCHANGED <<auto, confirmed, announced, listed, edits>>

\* ListAll: the confirmed registrations of the event, once.
ListRunners(s) ==
    /\ SchedAt(s, "list")
    /\ sched' = [sched EXCEPT ![s].pc = "fan", ![s].left = confirmed]
    /\ listed' = [listed EXCEPT ![sched[s].auto] = confirmed]
    /\ UNCHANGED <<auto, confirmed, announced, edits>>

\* EnqueueAnnouncement: a runner who has the notification already is skipped.
Announce(s, r) ==
    /\ SchedAt(s, "fan")
    /\ r \in sched[s].left
    /\ announced' = [announced EXCEPT ![sched[s].auto] = @ \cup {r}]
    /\ sched' = [sched EXCEPT ![s].left = @ \ {r}]
    /\ UNCHANGED <<auto, confirmed, listed, edits>>

\* Mutant: a runner whose notification fails is passed over.
FanOutPassesOver(s) ==
    /\ "db" \in LoopFaults
    /\ \/ SchedAt(s, "list") /\ sched' = [sched EXCEPT ![s].pc = "failed"]
       \/ \E r \in sched[s].left : SchedAt(s, "fan") /\ sched' = [sched EXCEPT ![s].left = @ \ {r}]
    /\ UNCHANGED <<auto, confirmed, announced, listed, edits>>

\* The first database error ends the fan-out.
FanOutFails(s) ==
    /\ "db" \in LoopFaults
    /\ SchedAt(s, "list") \/ sched[s].left # {}
    /\ sched' = [sched EXCEPT ![s].pc = "failed", ![s].left = {}]
    /\ UNCHANGED <<auto, confirmed, announced, listed, edits>>

FannedOut(s) == SchedAt(s, "fan") /\ sched[s].left = {}

MarkSent(s) ==
    /\ FannedOut(s)
    /\ auto' = [auto EXCEPT ![sched[s].auto] = [@ EXCEPT !.status = "SENT", !.stale = FALSE]]
    /\ SchedDone(s)
    /\ UNCHANGED <<confirmed, announced, listed, edits>>

\* Back off, or give up at the last attempt.
AutomationFailed(row) ==
    [row EXCEPT !.attempts = @ + 1, !.due = FALSE, !.stale = FALSE,
                !.status = IF row.attempts + 1 >= MaxAttempts THEN "FAILED" ELSE "SCHEDULED"]

RecordFailure(s) ==
    /\ SchedAt(s, "failed")
    /\ auto' = [auto EXCEPT ![sched[s].auto] = AutomationFailed(@)]
    /\ SchedDone(s)
    /\ UNCHANGED <<confirmed, announced, listed, edits>>

\* MarkSent or RecordFailure fails: the row stays PROCESSING.
Unrecorded(s) ==
    /\ "db" \in LoopFaults
    /\ FannedOut(s) \/ SchedAt(s, "failed")
    /\ SchedDone(s)
    /\ UNCHANGED <<auto, confirmed, announced, listed, edits>>

SchedulerCrashes(s) ==
    /\ "crash" \in LoopFaults
    /\ ~SchedAt(s, "idle")
    /\ sched' = [sched EXCEPT ![s] = IdleScheduler]
    /\ UNCHANGED <<auto, confirmed, announced, listed, edits>>

-----------------------------------------------------------------------------
(* Clocks and runners *)

AutomationComesDue(a) ==
    /\ auto[a].status = "SCHEDULED"
    /\ ~auto[a].due
    /\ auto' = [auto EXCEPT ![a].due = TRUE]
    /\ UNCHANGED <<sched, confirmed, announced, listed, edits>>

AutomationLeaseLapses(a) ==
    /\ auto[a].status = "PROCESSING"
    /\ ~auto[a].stale
    /\ auto' = [auto EXCEPT ![a].stale = TRUE]
    /\ UNCHANGED <<sched, confirmed, announced, listed, edits>>

\* A registration is confirmed, or a confirmed one is cancelled.
Turn(r) ==
    /\ confirmed' = IF r \in confirmed THEN confirmed \ {r} ELSE confirmed \cup {r}
    /\ UNCHANGED <<auto, sched, announced, listed, edits>>

-----------------------------------------------------------------------------
InitAutomations ==
    /\ auto = [a \in Autos |-> NoAutomation]
    /\ sched = [s \in Schedulers |-> IdleScheduler]
    /\ confirmed = {}
    /\ announced = [a \in Autos |-> {}]
    /\ listed = [a \in Autos |-> {}]
    /\ edits = [a \in Autos |-> 0]

Administer(a) ==
    \/ \E status \in {"DRAFT", "SCHEDULED"} : CreateAutomation(a, status) \/ Update(a, status)
    \/ CancelAutomation(a)

SchedulerStep(s) ==
    \/ \E rows \in SUBSET Autos : ClaimDue(s, rows)
    \/ \E a \in Autos : Pick(s, a)
    \/ \E r \in Runners : Announce(s, r)
    \/ ListRunners(s) \/ FanOutFails(s) \/ MarkSent(s) \/ RecordFailure(s)
    \/ Unrecorded(s) \/ SchedulerCrashes(s)

AutomationsNext ==
    \/ \E a \in Autos : Administer(a) \/ AutomationComesDue(a) \/ AutomationLeaseLapses(a)
    \/ \E s \in Schedulers : SchedulerStep(s)
    \/ \E r \in Runners : Turn(r)

AutomationsSpec == InitAutomations /\ [][AutomationsNext]_automationVars

(***************************************************************************)
(* Fairness.  Clocks reach their instants and the scheduler polls every 15 *)
(* seconds for ever; strong fairness on its steps says that crashes and    *)
(* database errors do not always hit the same step of a fan-out.           *)
(* The claim takes the oldest send_at first, so it is fair to each row.    *)
(***************************************************************************)
AutomationsFairness ==
    /\ \A a \in Autos : WF_automationVars(AutomationComesDue(a)) /\ WF_automationVars(AutomationLeaseLapses(a))
    /\ \A s \in Schedulers, a \in Autos :
          /\ SF_automationVars(\E rows \in SUBSET Autos : a \in rows /\ ClaimDue(s, rows))
          /\ SF_automationVars(Pick(s, a))
          /\ SF_automationVars(sched[s].auto = a /\ ListRunners(s))
          /\ \A left \in SUBSET Runners :
                SF_automationVars(/\ sched[s].auto = a /\ sched[s].left = left
                        /\ \E r \in left : Announce(s, r))
          /\ SF_automationVars(sched[s].auto = a /\ MarkSent(s))
          /\ SF_automationVars(sched[s].auto = a /\ RecordFailure(s))

AutomationsFairSpec == AutomationsSpec /\ AutomationsFairness

-----------------------------------------------------------------------------
(* Properties, for the one scheduler of the documented deployment           *)

\* "sent or cancelled automation cannot be changed" (ErrImmutable): neither an
\* edit nor a late write of the scheduler, which no condition guards, changes
\* the status of a finished automation.
FinishedIsFinal ==
    [][\A a \in Autos :
          auto[a].status \in {"SENT", "CANCELLED"} => auto'[a].status = auto[a].status]_automationVars

\* Runners hear of an automation only while it is being processed: a draft, a
\* cancelled or a postponed one reaches nobody, however the administrator's
\* edit and the claim fall.
OnlyProcessingAnnounces ==
    [][\A a \in Autos : announced'[a] # announced[a] => auto[a].status = "PROCESSING"]_automationVars

\* SENT means that every runner the fan-out listed has the notification, even
\* if earlier fan-outs failed half-way.
SentReachedListed ==
    \A a \in Autos : auto[a].status = "SENT" => listed[a] \subseteq announced[a]

\* A scheduled automation does not stay so: it is sent, given up or taken back,
\* once the administrator stops editing.
ScheduledSettles ==
    \A a \in Autos :
        auto[a].status \in {"SCHEDULED", "PROCESSING"}
            ~> auto[a].status \in {"SENT", "FAILED", "CANCELLED", "DRAFT"}
=============================================================================
