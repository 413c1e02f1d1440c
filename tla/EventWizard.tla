----------------------------- MODULE EventWizard -----------------------------
(***************************************************************************)
(* The organiser's three-step page that sets up an event                   *)
(* (frontend/src/pages/admin/events/new.tsx with its poster field): basics,*)
(* categories, schedule.  Step 1 stores a draft event on the server; the   *)
(* page keeps its own state in localStorage after every change, and a page *)
(* opened later takes it up again and reads the server's draft.  Tabs      *)
(* share what is kept, and write it without looking at it.  One tab is     *)
(* followed through all it does; of the others only what they do to what   *)
(* the tabs share is: the kept draft and the server's events.              *)
(***************************************************************************)
EXTENDS Naturals, FiniteSets

CONSTANTS
    EventIds,   \* events the server can still make
    Items,      \* lines of a list: a category or a schedule line
    Posters,    \* images the organiser uploads
    PageLives,  \* bound: how often the page is opened
    SetupRequests, \* bound: saves, additions and removals asked for
    TabTurns,   \* bound: what other tabs and pages write
    NoEvent, NoPoster

ASSUME WizardAssumption == NoEvent \notin EventIds

VARIABLES
    wizard,     \* the page's state
    draft,      \* localStorage, or {} when the key is absent
    storedEvents,\* the server's events and their lists
    setupJob,   \* the request that holds `loading`: save or add
    removal,    \* a removal; removals hold no lock
    recovery,   \* the read of the server's draft when the page opens
    strays,     \* requests of a page that is gone
    forgotten,  \* history: events whose creation was not heard of
    finished,   \* history: events whose set-up was finished
    otherTab,   \* another tab with this page: the event that it sets up
    displaced,  \* history: events whose kept draft a tab of another event put an end to
    doubt,      \* history: page and server may differ and nobody has compared
    lives,      \* counters for the bounds
    setupAsked,
    tabTurns

keptVars == <<draft, displaced>>
otherTabVars == <<otherTab, tabTurns>>
wizardVars == <<wizard, keptVars, otherTabVars, storedEvents, setupJob, removal, recovery, strays,
                forgotten, finished, doubt, lives, setupAsked>>

WizardLists == {"categories", "schedule"}
NoLists == [l \in WizardLists |-> {}]
NoChange == [at |-> "idle"]
BlankDraft == [open |-> FALSE, ready |-> FALSE, step |-> 1, event |-> NoEvent, poster |-> NoPoster,
               upload |-> "none", lists |-> NoLists]
Calm == [at |-> "idle", dirty |-> FALSE]
NoTab == [open |-> FALSE, event |-> NoEvent]

Kept(w) == [step |-> w.step, event |-> w.event, poster |-> w.poster, lists |-> w.lists]

\* A draft is kept over what was kept, which ends the draft of any event but the writer's own.
KeepsDraft(d, own) ==
    /\ draft' = {d}
    /\ displaced' = (displaced \cup ({k.event : k \in draft} \ own)) \ {d.event}

\* finish: what is kept is removed, whichever tab it is of
RemovesDraft(own) ==
    /\ draft' = {}
    /\ displaced' = displaced \cup ({k.event : k \in draft} \ own)

\* Every change is rendered, and kept once the draft has been looked at.
WizardShows(w) ==
    /\ wizard' = w
    /\ IF w.open /\ w.ready THEN KeepsDraft(Kept(w), {w.event, wizard.event, NoEvent})
       ELSE UNCHANGED keptVars

Loading == setupJob.at # "idle"
Comparing == recovery.at # "idle"

-----------------------------------------------------------------------------
(* Opening and leaving *)

Meaningful(d) == d.event # NoEvent \/ d.poster # NoPoster \/ d.lists # NoLists

\* resumeDraft: what was kept is shown at once; the server's draft is read
\* when the event is known.  Lists kept without an event are those of one that is gone.
OpensWizard ==
    /\ ~wizard.open /\ lives < PageLives
    /\ lives' = lives + 1
    /\ IF \E d \in draft : Meaningful(d)
       THEN LET d == CHOOSE k \in draft : TRUE
                w == [BlankDraft EXCEPT !.open = TRUE, !.ready = d.event = NoEvent, !.step = d.step,
                                   !.event = d.event, !.poster = d.poster, !.lists = d.lists]
            IN  /\ WizardShows(w)
                /\ recovery' = [Calm EXCEPT !.at = IF w.ready THEN "idle" ELSE "asked"]
                /\ doubt' = (d.event # NoEvent \/ d.lists # NoLists)
       ELSE /\ WizardShows([BlankDraft EXCEPT !.open = TRUE, !.ready = TRUE])
            /\ doubt' = FALSE
            /\ UNCHANGED recovery
    /\ UNCHANGED <<storedEvents, setupJob, removal, strays, forgotten, finished, setupAsked, otherTabVars>>

RecoveryHandled ==
    /\ recovery.at = "asked"
    /\ recovery' = IF storedEvents[wizard.event].made = "yes"
                   THEN [at |-> "found", dirty |-> Loading \/ removal.at # "idle" \/ strays # {},
                         poster |-> storedEvents[wizard.event].poster,
                         lists |-> storedEvents[wizard.event].lists]
                   ELSE [recovery EXCEPT !.at = "missing"]
    /\ UNCHANGED <<wizard, keptVars, storedEvents, setupJob, removal, strays, forgotten, finished, doubt,
                   lives, setupAsked, otherTabVars>>

\* The answer overwrites the form and both lists, whatever was done meanwhile.
RecoveryArrives ==
    /\ recovery.at \in {"found", "missing"}
    /\ recovery' = Calm
    /\ IF recovery.at = "found"
       THEN /\ WizardShows([wizard EXCEPT !.ready = TRUE, !.poster = recovery.poster, !.lists = recovery.lists])
            /\ doubt' = (recovery.dirty \/ Loading \/ removal.at # "idle")
       ELSE /\ WizardShows([wizard EXCEPT !.ready = TRUE, !.event = NoEvent, !.step = 1, !.lists = NoLists])
            /\ UNCHANGED doubt
    /\ UNCHANGED <<storedEvents, setupJob, removal, strays, forgotten, finished, lives, setupAsked,
                   otherTabVars>>

\* Any other error leaves what was kept.
RecoveryFails ==
    /\ Comparing
    /\ recovery' = Calm
    /\ WizardShows([wizard EXCEPT !.ready = TRUE])
    /\ UNCHANGED <<storedEvents, setupJob, removal, strays, forgotten, finished, doubt, lives, setupAsked,
                   otherTabVars>>

Made(c) == IF c.at = "done" /\ c.kind = "save" /\ c.event = NoEvent THEN {c.made} ELSE {}

\* The tab is closed or reloaded; what it has asked for may still be done.
WizardCloses ==
    /\ wizard.open
    /\ lives < PageLives
    /\ wizard' = BlankDraft
    /\ strays' = strays \cup {c \in {setupJob, removal} : c.at = "sent"}
    /\ forgotten' = forgotten \cup Made(setupJob)
    /\ setupJob' = NoChange /\ removal' = NoChange /\ recovery' = Calm
    /\ doubt' = FALSE
    /\ UNCHANGED <<keptVars, storedEvents, finished, lives, setupAsked, otherTabVars>>

-----------------------------------------------------------------------------
(* The poster: uploaded first, attached by the next save *)

PosterFree == wizard.open /\ wizard.step = 1 /\ ~Loading /\ wizard.upload # "busy"

Uploads ==
    /\ PosterFree
    /\ wizard' = [wizard EXCEPT !.upload = "busy"]
    /\ UNCHANGED <<keptVars, storedEvents, setupJob, removal, recovery, strays, forgotten, finished, doubt,
                   lives, setupAsked, otherTabVars>>

UploadEnds ==
    /\ wizard.upload = "busy"
    /\ \/ \E p \in Posters : WizardShows([wizard EXCEPT !.upload = "none", !.poster = p])
       \/ wizard' = [wizard EXCEPT !.upload = "error"] /\ UNCHANGED keptVars
    /\ recovery' = [recovery EXCEPT !.dirty = Comparing]
    /\ UNCHANGED <<storedEvents, setupJob, removal, strays, forgotten, finished, doubt, lives, setupAsked,
                   otherTabVars>>

DropsPoster ==
    /\ PosterFree /\ wizard.poster # NoPoster
    /\ WizardShows([wizard EXCEPT !.upload = "none", !.poster = NoPoster])
    /\ recovery' = [recovery EXCEPT !.dirty = Comparing]
    /\ UNCHANGED <<storedEvents, setupJob, removal, strays, forgotten, finished, doubt, lives, setupAsked,
                   otherTabVars>>

\* Typing into any of the forms: nothing asked for, but the draft is kept anew.
EditsForm ==
    /\ wizard.open /\ wizard.ready
    /\ WizardShows(wizard)
    /\ UNCHANGED <<storedEvents, setupJob, removal, recovery, strays, forgotten, finished, doubt, lives,
                   setupAsked, otherTabVars>>

-----------------------------------------------------------------------------
(* Requests *)

Ask(c) ==
    /\ setupJob' = c
    /\ recovery' = [recovery EXCEPT !.dirty = Comparing]
    /\ setupAsked < SetupRequests /\ setupAsked' = setupAsked + 1
    /\ UNCHANGED <<wizard, keptVars, storedEvents, removal, strays, forgotten, finished, doubt, lives,
                   otherTabVars>>

\* Mutant: the upload under way is not waited for.
SubmitsBasicsAnyway ==
    /\ wizard.open /\ wizard.step = 1 /\ ~Loading
    /\ Ask([at |-> "sent", kind |-> "save", event |-> wizard.event, poster |-> wizard.poster,
          made |-> NoEvent])

\* submitBasics: creates the event, or updates the one it knows.
SubmitsBasics ==
    /\ wizard.open /\ wizard.step = 1 /\ ~Loading
    /\ wizard.upload = "none"
    /\ Ask([at |-> "sent", kind |-> "save", event |-> wizard.event, poster |-> wizard.poster,
          made |-> NoEvent])

ListOfStep == IF wizard.step = 2 THEN "categories" ELSE "schedule"

\* addCategory and addScheduleItem.
AddsItem(i) ==
    /\ wizard.open /\ wizard.step > 1 /\ ~Loading
    /\ i \notin storedEvents[wizard.event].lists[ListOfStep] \cup wizard.lists[ListOfStep]
    /\ Ask([at |-> "sent", kind |-> "add", event |-> wizard.event, list |-> ListOfStep, item |-> i,
            made |-> NoEvent])

\* removeCategory and removeScheduleItem: not held back by `loading`.
RemovesItem(i) ==
    /\ wizard.open /\ wizard.step > 1 /\ removal.at = "idle"
    /\ i \in wizard.lists[ListOfStep]
    /\ removal' = [at |-> "sent", kind |-> "remove", event |-> wizard.event, list |-> ListOfStep, item |-> i]
    /\ recovery' = [recovery EXCEPT !.dirty = Comparing]
    /\ setupAsked < SetupRequests /\ setupAsked' = setupAsked + 1
    /\ UNCHANGED <<wizard, keptVars, storedEvents, setupJob, strays, forgotten, finished, doubt, lives,
                   otherTabVars>>

\* What the server does with a request it accepts; `id` is the event a
\* creation makes.
Performed(c, id) ==
    CASE c.kind = "save" /\ c.event = NoEvent ->
            /\ storedEvents[id].made = "no"
            /\ storedEvents' =
                [storedEvents EXCEPT ![id] = [made |-> "yes", poster |-> c.poster, lists |-> NoLists]]
      [] c.kind = "save" /\ c.event # NoEvent ->
            /\ id = c.event /\ storedEvents[id].made = "yes"
            /\ storedEvents' = [storedEvents EXCEPT ![id].poster = c.poster]
      [] c.kind = "add" ->
            /\ id = c.event /\ storedEvents[id].made = "yes"
            /\ storedEvents' = [storedEvents EXCEPT ![id].lists[c.list] = @ \cup {c.item}]
      [] c.kind = "remove" ->
            /\ id = c.event /\ storedEvents[id].made = "yes"
            /\ storedEvents' = [storedEvents EXCEPT ![id].lists[c.list] = @ \ {c.item}]

ChangeHandled(id) ==
    /\ setupJob.at = "sent"
    /\ Performed(setupJob, id)
    /\ setupJob' = [setupJob EXCEPT !.at = "done", !.made = id]
    /\ UNCHANGED <<wizard, keptVars, removal, recovery, strays, forgotten, finished, doubt, lives,
                   setupAsked, otherTabVars>>

RemovalHandled(id) ==
    /\ removal.at = "sent"
    /\ Performed(removal, id)
    /\ removal' = [removal EXCEPT !.at = "done"]
    /\ UNCHANGED <<wizard, keptVars, setupJob, recovery, strays, forgotten, finished, doubt, lives,
                   setupAsked, otherTabVars>>

StrayHandled(c, id) ==
    /\ c \in strays
    /\ strays' = strays \ {c}
    /\ Performed(c, id)
    /\ forgotten' = forgotten \cup (IF c.kind = "save" /\ c.event = NoEvent THEN {id} ELSE {})
    /\ doubt' = wizard.open
    /\ UNCHANGED <<wizard, keptVars, setupJob, removal, recovery, finished, lives, setupAsked, otherTabVars>>

StrayLost(c) ==
    /\ c \in strays
    /\ strays' = strays \ {c}
    /\ UNCHANGED <<wizard, keptVars, storedEvents, setupJob, removal, recovery, forgotten, finished, doubt,
                   lives, setupAsked, otherTabVars>>

-----------------------------------------------------------------------------
(* Answers *)

ChangeArrives ==
    /\ setupJob.at = "done"
    /\ setupJob' = NoChange
    /\ WizardShows(IF setupJob.kind = "save"
             THEN [wizard EXCEPT !.event = setupJob.made, !.poster = setupJob.poster, !.step = 2]
             ELSE [wizard EXCEPT !.lists[setupJob.list] = @ \cup {setupJob.item}])
    /\ UNCHANGED <<storedEvents, removal, recovery, strays, forgotten, finished, doubt, lives, setupAsked,
                   otherTabVars>>

\* Refused, or the answer to something that was done got lost.
ChangeFails ==
    /\ Loading
    /\ setupJob' = NoChange
    /\ forgotten' = forgotten \cup Made(setupJob)
    /\ doubt' = (doubt \/ setupJob.at = "done")
    /\ UNCHANGED <<wizard, keptVars, storedEvents, removal, recovery, strays, finished, lives, setupAsked,
                   otherTabVars>>

RemovalArrives ==
    /\ removal.at = "done"
    /\ removal' = NoChange
    /\ WizardShows([wizard EXCEPT !.lists[removal.list] = @ \ {removal.item}])
    /\ UNCHANGED <<storedEvents, setupJob, recovery, strays, forgotten, finished, doubt, lives, setupAsked,
                   otherTabVars>>

RemovalFails ==
    /\ removal.at # "idle"
    /\ removal' = NoChange
    /\ doubt' = (doubt \/ removal.at = "done")
    /\ UNCHANGED <<wizard, keptVars, storedEvents, setupJob, recovery, strays, forgotten, finished, lives,
                   setupAsked, otherTabVars>>

-----------------------------------------------------------------------------
(* Moving between steps *)

StepsBack ==
    /\ wizard.open /\ wizard.step > 1
    /\ wizard.step = 2 => ~Loading
    /\ WizardShows([wizard EXCEPT !.step = @ - 1])
    /\ UNCHANGED <<storedEvents, setupJob, removal, recovery, strays, forgotten, finished, doubt, lives,
                   setupAsked, otherTabVars>>

StepsOn ==
    /\ wizard.open /\ wizard.step = 2 /\ ~Loading /\ wizard.lists["categories"] # {}
    /\ WizardShows([wizard EXCEPT !.step = 3])
    /\ UNCHANGED <<storedEvents, setupJob, removal, recovery, strays, forgotten, finished, doubt, lives,
                   setupAsked, otherTabVars>>

\* finish: the kept state is dropped and the editor opened.
FinishesSetup ==
    /\ wizard.open /\ wizard.step = 3
    /\ RemovesDraft({wizard.event, NoEvent}) /\ wizard' = BlankDraft
    /\ finished' = finished \cup {wizard.event}
    /\ strays' = strays \cup {c \in {setupJob, removal} : c.at = "sent"}
    /\ setupJob' = NoChange /\ removal' = NoChange /\ recovery' = Calm
    /\ UNCHANGED <<storedEvents, forgotten, doubt, lives, setupAsked, otherTabVars>>

\* The draft is deleted from the list of events.
DraftDeleted(id) ==
    /\ storedEvents[id].made = "yes"
    /\ storedEvents' = [storedEvents EXCEPT ![id].made = "deleted"]
    /\ doubt' = wizard.open
    /\ UNCHANGED <<wizard, keptVars, setupJob, removal, recovery, strays, forgotten, finished, lives,
                   setupAsked, otherTabVars>>

-----------------------------------------------------------------------------
(* Another tab with this page, and another page that edits an event *)

restOfWizard == <<wizard, storedEvents, setupJob, removal, recovery, strays, forgotten, finished,
                  doubt, lives, setupAsked>>

TakesTurn == tabTurns < TabTurns /\ tabTurns' = tabTurns + 1

OtherTabOpens ==
    /\ ~otherTab.open /\ TakesTurn
    /\ otherTab' = [open |-> TRUE, event |-> IF draft = {} THEN NoEvent ELSE (CHOOSE d \in draft : TRUE).event]
    /\ UNCHANGED <<restOfWizard, keptVars>>

\* What its page shows: a blank form with or without an image, or an event as the server has it.
OtherPages(e) ==
    IF e = NoEvent
    THEN {[step |-> 1, event |-> e, poster |-> p, lists |-> NoLists] : p \in Posters \cup {NoPoster}}
    ELSE {[step |-> n, event |-> e, poster |-> storedEvents[e].poster, lists |-> storedEvents[e].lists] : n \in 1 .. 3}

OtherTabKeeps(k) ==
    /\ otherTab.open /\ TakesTurn
    /\ KeepsDraft(k, {k.event, NoEvent})
    /\ UNCHANGED <<restOfWizard, otherTab>>

\* It creates the event of the form it shows; the answer is heard or lost.
OtherTabMakes(id, p) ==
    /\ otherTab.open /\ otherTab.event = NoEvent /\ TakesTurn
    /\ storedEvents[id].made = "no"
    /\ storedEvents' = [storedEvents EXCEPT ![id] = [made |-> "yes", poster |-> p, lists |-> NoLists]]
    /\ \/ /\ otherTab' = [otherTab EXCEPT !.event = id]
          /\ KeepsDraft([step |-> 2, event |-> id, poster |-> p, lists |-> NoLists], {id, NoEvent})
          /\ UNCHANGED forgotten
       \/ forgotten' = forgotten \cup {id} /\ UNCHANGED <<otherTab, keptVars>>
    /\ UNCHANGED <<wizard, setupJob, removal, recovery, strays, finished, doubt, lives, setupAsked>>

\* Opened on a draft whose event is gone, it starts anew with the form it found.
OtherTabMisses(p) ==
    /\ otherTab.event # NoEvent /\ storedEvents[otherTab.event].made = "deleted" /\ TakesTurn
    /\ otherTab' = [otherTab EXCEPT !.event = NoEvent]
    /\ KeepsDraft([step |-> 1, event |-> NoEvent, poster |-> p, lists |-> NoLists], {otherTab.event, NoEvent})
    /\ UNCHANGED restOfWizard

OtherTabFinishes ==
    /\ otherTab.event # NoEvent /\ TakesTurn
    /\ RemovesDraft({otherTab.event, NoEvent})
    /\ finished' = finished \cup {otherTab.event}
    /\ otherTab' = NoTab
    /\ UNCHANGED <<wizard, storedEvents, setupJob, removal, recovery, strays, forgotten, doubt, lives,
                   setupAsked>>

OtherTabCloses ==
    /\ otherTab.open /\ otherTab' = NoTab
    /\ UNCHANGED <<restOfWizard, keptVars, tabTurns>>

\* Another tab or the event's editor saves it or changes a line.
EditedElsewhere(id) ==
    /\ storedEvents[id].made = "yes" /\ TakesTurn
    /\ \/ \E p \in Posters \cup {NoPoster} : storedEvents' = [storedEvents EXCEPT ![id].poster = p]
       \/ \E l \in WizardLists, i \in Items :
            \/ storedEvents' = [storedEvents EXCEPT ![id].lists[l] = @ \cup {i}]
            \/ storedEvents' = [storedEvents EXCEPT ![id].lists[l] = @ \ {i}]
    /\ doubt' = wizard.open
    /\ recovery' = [recovery EXCEPT !.dirty = Comparing]
    /\ UNCHANGED <<wizard, keptVars, setupJob, removal, strays, forgotten, finished, lives, setupAsked,
                   otherTab>>

-----------------------------------------------------------------------------
WizardInit ==
    /\ wizard = BlankDraft /\ draft = {}
    /\ storedEvents = [id \in EventIds |-> [made |-> "no", poster |-> NoPoster, lists |-> NoLists]]
    /\ setupJob = NoChange /\ removal = NoChange /\ recovery = Calm
    /\ strays = {} /\ forgotten = {} /\ finished = {} /\ doubt = FALSE /\ lives = 0 /\ setupAsked = 0
    /\ otherTab = NoTab /\ displaced = {} /\ tabTurns = 0

WizardNext ==
    \/ OpensWizard \/ RecoveryHandled \/ RecoveryArrives \/ RecoveryFails \/ WizardCloses
    \/ Uploads \/ UploadEnds \/ DropsPoster \/ SubmitsBasics
    \/ \E i \in Items : AddsItem(i) \/ RemovesItem(i)
    \/ \E id \in EventIds : ChangeHandled(id) \/ RemovalHandled(id) \/ DraftDeleted(id)
    \/ \E c \in strays : StrayLost(c) \/ \E id \in EventIds : StrayHandled(c, id)
    \/ ChangeArrives \/ ChangeFails \/ RemovalArrives \/ RemovalFails
    \/ StepsBack \/ StepsOn \/ EditsForm \/ FinishesSetup
    \/ OtherTabOpens \/ OtherTabFinishes \/ OtherTabCloses
    \/ \E k \in OtherPages(otherTab.event) : OtherTabKeeps(k)
    \/ \E p \in Posters \cup {NoPoster} : OtherTabMisses(p) \/ \E id \in EventIds : OtherTabMakes(id, p)
    \/ \E id \in EventIds : EditedElsewhere(id)

WizardSpec == WizardInit /\ [][WizardNext]_wizardVars

-----------------------------------------------------------------------------
(* Properties *)

\* A page at rest whose answers were all heard shows the lists and the poster
\* the server has: an uploaded poster is never left behind by a save, and a
\* reload that reads the server's draft settles every earlier doubt.  What is
\* done while that read is under way is exempt: the answer overwrites it; so is
\* what another tab or page has changed since.
WizardShowsStored ==
    (/\ wizard.open /\ wizard.step > 1 /\ ~doubt
     /\ ~Loading /\ removal.at = "idle" /\ ~Comparing /\ strays = {})
       => /\ wizard.lists = storedEvents[wizard.event].lists
          /\ wizard.poster = storedEvents[wizard.event].poster

\* Every event on the server is named by the draft the browser keeps, unless
\* the answer to its creation was lost, its set-up was finished, or a tab that sets up
\* another event has written over its draft or removed it since.  A page by
\* itself, whatever it is closed, reloaded and answered late, displaces none.
NoForgottenEvent ==
    \A id \in EventIds :
        storedEvents[id].made = "yes" =>
            \/ id \in forgotten \cup finished \cup displaced \cup Made(setupJob)
            \/ \E d \in draft : d.event = id
=============================================================================
