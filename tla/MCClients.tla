----------------------------- MODULE MCClients ------------------------------
(***************************************************************************)
(* The screens of the phone, the live views, the forms and the desks of    *)
(* the clients in one run.  They meet only in the service, and what a      *)
(* client sees the service or other clients do is an action of its own     *)
(* module, so a behaviour follows the one part that is chosen at its       *)
(* start; the others stay as they are.                                     *)
(***************************************************************************)
EXTENDS RunnerPhone, EntryForm, RaceTimeline, LiveUpdates, RaceLiveActivity, RunnerCard,
        TelegramLinking, EventWizard, EventEditor, SiteDesk, RaceDesk, TeamAccess, RosterDesk,
        GateDesk, SignalDesk, AuditTrail, RaceCalendar

VARIABLE part    \* what this behaviour follows

Parts == {"phone", "form", "timeline", "live", "follow", "card", "telegram", "wizard", "editor",
          "site", "races", "team", "roster", "gate", "signals", "audit", "calendar"}

\* a part that is not followed starts in one state only
Parked(p, only) == part # p => only

ClientsInit ==
    /\ part \in Parts
    /\ RunnerPhoneInit /\ Parked("phone", \A c \in Choices : entry[c] = "none")
    /\ EntryFormInit
    /\ Parked("form", /\ ~warm /\ takenBack = NoDistance /\ kept = CHOOSE d \in Contents : TRUE
                      /\ \A c \in Distances : places[c] = "open")
    /\ TimelineInit
    /\ LiveInit /\ Parked("live", client = "web")
    /\ FollowInit
    /\ CardInit /\ Parked("card", surface = "web" /\ storedCard = CHOOSE d \in Drafts : TRUE)
    /\ TgInit
    /\ WizardInit
    /\ EditorInit /\ Parked("editor", panel = "details" /\ \A l \in Lines : rows[l] = 1)
    /\ SiteDeskInit
    /\ RaceDeskInit /\ Parked("races", \A e \in Meets : stage[e] = "DRAFT")
    /\ TeamInit /\ Parked("team", \A a \in Accounts : role[a] = "SUPER_ADMIN")
    /\ RosterInit
    /\ GateInit
    /\ SignalDeskInit
    /\ Parked("signals", /\ aged = {} /\ \A d \in Signals : lane[d] = "SENT"
                         /\ loads[CHOOSE l \in Loads : TRUE] # NoLoad)
    /\ AuditInit
    /\ CalendarInit /\ Parked("calendar", address = [tab |-> All, word |-> EmptySearch])

\* The part that is followed takes its steps, and the others rest.
Rests(p, partVars) == part # p => UNCHANGED partVars

ClientsNext ==
    /\ UNCHANGED part
    /\ Rests("phone", runnerPhoneVars) /\ Rests("form", entryFormVars)
    /\ Rests("timeline", timelineVars) /\ Rests("live", liveVars) /\ Rests("follow", followVars)
    /\ Rests("card", cardVars) /\ Rests("telegram", telegramVars)
    /\ Rests("wizard", wizardVars) /\ Rests("editor", editorVars)
    /\ Rests("site", siteDeskVars) /\ Rests("races", raceDeskVars)
    /\ Rests("team", teamVars) /\ Rests("roster", rosterVars)
    /\ Rests("gate", gateVars) /\ Rests("signals", signalVars)
    /\ Rests("audit", auditVars) /\ Rests("calendar", calendarVars)
    /\ \/ part = "phone" /\ RunnerPhoneNext
       \/ part = "form" /\ EntryFormNext
       \/ part = "timeline" /\ TimelineNext
       \/ part = "live" /\ LiveNext
       \/ part = "follow" /\ FollowNext
       \/ part = "card" /\ CardNext
       \/ part = "telegram" /\ TgNext
       \/ part = "wizard" /\ WizardNext
       \/ part = "editor" /\ EditorNext
       \/ part = "site" /\ SiteDeskNext
       \/ part = "races" /\ RaceDeskNext
       \/ part = "team" /\ TeamNext
       \/ part = "roster" /\ RosterNext
       \/ part = "gate" /\ GateNext
       \/ part = "signals" /\ SignalDeskNext
       \/ part = "audit" /\ AuditNext
       \/ part = "calendar" /\ CalendarNext

clientsVars ==
    <<runnerPhoneVars, entryFormVars, timelineVars, liveVars, followVars, cardVars, telegramVars,
      wizardVars, editorVars, siteDeskVars, raceDeskVars, teamVars, rosterVars, gateVars,
      signalVars, auditVars, calendarVars, part>>

ClientsSpec == ClientsInit /\ [][ClientsNext]_clientsVars

-----------------------------------------------------------------------------
\* The phone: its payment sheet says what is true of the entry it is about, its list of
\* entries agrees with the last outcome the runner was told of, its form sends what she
\* confirmed, and its races are the beginning of the list the service has.
PhoneIsTrue == SheetIsTrue /\ ListFollowsOutcomes /\ EntryFormIsTrue /\ TimelineIsTrue

\* The forms of the clients: what the runner's card, the setup wizard, the event editor, the
\* editor of the public site and the filters of the calendar show as kept is what is kept,
\* with the exceptions each of the properties names; an event that is made is not forgotten
\* by the tab that made it, and an image is not put on another slide.
FormsShowStored ==
    /\ CardIsStored /\ WizardShowsStored /\ NoForgottenEvent /\ EditorShowsStored
    /\ SiteDeskIsTrue /\ CalendarIsTrue

\* The desks of the staff: an admin decides on the payment of the runner in the drawer, in a
\* roster that is the one the filters select; the stations hand one kit over a ticket; the
\* races, roles, messages and audit entries that the admin pages list are those that are
\* stored.
DesksAreTrue ==
    RosterIsTrue /\ GateIsTrue /\ RaceDeskIsTrue /\ TeamPageIsTrue /\ SignalDeskIsTrue /\ AuditTrailIsTrue
=============================================================================
