---------------------------- MODULE RaceTimeline ----------------------------
(***************************************************************************)
(* The races of the mobile application (EventListScreen): three views of a *)
(* list that is read page by page (useEvents), while races change their    *)
(* status and the pages shift.  A changed race is announced, which makes   *)
(* every page that is shown be read again, one after the other.  No two    *)
(* races are on one day, and both ends order them by date: a list is the   *)
(* set of its races, and the place of a race in it the number of those     *)
(* before it.                                                              *)
(***************************************************************************)
EXTENDS Naturals, Sequences, FiniteSets

CONSTANTS
    SeasonRaces,    \* races, by their dates
    PageRows,       \* rows of a page (limit=20)
    StatusChanges,  \* changes of status: a bound
    RaceStatuses,   \* the statuses races may have
    Views           \* the views the runner may open

ASSUME TimelineAssumption ==
    /\ {SeasonRaces, PageRows} \subseteq Nat \ {0} /\ StatusChanges \in Nat
    /\ "open" \in RaceStatuses /\ RaceStatuses \subseteq {"open", "closed", "past", "hidden"}
    /\ "ahead" \in Views /\ Views \subseteq {"ahead", "open", "past"}

VARIABLES
    raceStatus, \* the status of each race
    changes,    \* changes so far
    unheard,    \* changes whose signal has not come
    view,       \* season and openOnly
    pages,      \* what is cached of each view
    stalePages, \* the view was invalidated
    mixed,      \* the pages were read before and after a change the view was told of
    fetch       \* the read of the view in front

timelineVars == <<raceStatus, changes, unheard, view, pages, stalePages, mixed, fetch>>

Season == 1..SeasonRaces
Statuses(v) == IF v = "ahead" THEN {"open", "closed"} ELSE {v}

\* what the service lists for a view
ListedRaces(v) == {r \in Season : raceStatus[r] \in Statuses(v)}

Place(list, r) == Cardinality({q \in list : q < r})
FirstRaces(list, n) == {r \in list : Place(list, r) < n}

\* ORDER BY event_date LIMIT PageRows OFFSET off
RowsFrom(list, off) == FirstRaces(list, off + PageRows) \ FirstRaces(list, off)

LastPage(read) == read[Len(read)]

\* getNextPageParam; 0 says that there is no other page
NextOffset(p) ==
    IF p.off + Cardinality(p.rows) < p.total /\ p.rows # {} THEN p.off + Cardinality(p.rows) ELSE 0

HasMore(v) == pages[v] # <<>> /\ NextOffset(LastPage(pages[v])) # 0

NoFetch == [at |-> "idle", kind |-> "all", got |-> <<>>, total |-> 0, rows |-> {}]
Reading(kind, got) == [NoFetch EXCEPT !.at = "asked", !.kind = kind, !.got = got]

\* pageParam of the page that is asked for
Offset ==
    IF fetch.kind = "next" THEN NextOffset(LastPage(pages[view]))
    ELSE IF fetch.got = <<>> THEN 0 ELSE NextOffset(LastPage(fetch.got))

\* listRows: the rows of all pages, each race once
Timeline(read) == UNION {read[i].rows : i \in DOMAIN read}

TimelineTypeOK ==
    /\ raceStatus \in [Season -> RaceStatuses] /\ changes \in 0..StatusChanges
    /\ unheard \in 0..changes /\ view \in Views
    /\ stalePages \in [Views -> BOOLEAN] /\ mixed \in [Views -> BOOLEAN]
    /\ fetch.at \in {"idle", "asked", "counted", "answered"} /\ fetch.kind \in {"all", "next"}

TimelineInit ==
    /\ raceStatus = [r \in Season |-> "open"] /\ changes = 0 /\ unheard = 0
    /\ view = "ahead" /\ pages = [v \in Views |-> <<>>]
    /\ stalePages = [v \in Views |-> FALSE] /\ mixed = [v \in Views |-> FALSE]
    /\ fetch = Reading("all", <<>>)

-----------------------------------------------------------------------------
(* The service. *)

ChangesRace(r, s) ==
    /\ changes < StatusChanges /\ raceStatus[r] # s
    /\ raceStatus' = [raceStatus EXCEPT ![r] = s]
    /\ changes' = changes + 1 /\ unheard' = unheard + 1
    /\ UNCHANGED <<view, pages, stalePages, mixed, fetch>>

\* total and rows are two statements
PageCounted ==
    /\ fetch.at = "asked"
    /\ fetch' = [fetch EXCEPT !.at = "counted", !.total = Cardinality(ListedRaces(view))]
    /\ UNCHANGED <<raceStatus, changes, unheard, view, pages, stalePages, mixed>>

PageAnswered ==
    /\ fetch.at = "counted"
    /\ fetch' = [fetch EXCEPT !.at = "answered", !.rows = RowsFrom(ListedRaces(view), Offset)]
    /\ UNCHANGED <<raceStatus, changes, unheard, view, pages, stalePages, mixed>>

-----------------------------------------------------------------------------
(* The screen. *)

FirstPageRead == pages[view] = <<>> /\ fetch.at # "idle"

\* Mutant: a read that is on its way answers for the change.
GoesOnAnyway == fetch.at # "idle"

\* the first read of a view is not started over
GoesOn == FirstPageRead

\* "events:changed", or the socket has connected again.  The pages in front are read again
\* from the first one; a first read goes on, and may have been answered before the change.
HearsChange ==
    /\ unheard > 0 /\ unheard' = unheard - 1
    /\ stalePages' = [v \in Views |-> TRUE]
    /\ fetch' = IF GoesOn THEN fetch ELSE Reading("all", <<>>)
    /\ mixed' = [mixed EXCEPT ![view] = @ \/ (FirstPageRead /\ fetch.at # "asked")]
    /\ UNCHANGED <<raceStatus, changes, view, pages>>

\* pulled down, focused, or "Reload events"
RefetchesPages ==
    /\ fetch.at = "idle" \/ pages[view] # <<>>
    /\ fetch' = Reading("all", <<>>)
    /\ UNCHANGED <<raceStatus, changes, unheard, view, pages, stalePages, mixed>>

\* what a first read had met is forgotten with it
GivesUpFirstRead == mixed' = [mixed EXCEPT ![view] = @ /\ pages[view] # <<>>]

\* Ahead, Past, or "Open for entry only": the read of the view that is left is aborted
ShowsView(v) ==
    /\ v # view /\ (view = "past" => v # "open")
    /\ view' = v
    /\ fetch' \in {NoFetch, Reading("all", <<>>)}
    /\ pages[v] = <<>> \/ stalePages[v] => fetch' # NoFetch
    /\ GivesUpFirstRead
    /\ UNCHANGED <<raceStatus, changes, unheard, pages, stalePages>>

\* "Load more events" is there while the pages are read again, and puts an end to that.
LoadsMoreRaces ==
    /\ HasMore(view) /\ (fetch.at = "idle" \/ fetch.kind = "all")
    /\ fetch' = Reading("next", <<>>)
    /\ mixed' = [mixed EXCEPT ![view] = @ \/ stalePages[view]]
    /\ UNCHANGED <<raceStatus, changes, unheard, view, pages, stalePages>>

\* A list that is read again has as many pages as before, unless it is shorter now.
PageArrives ==
    /\ fetch.at = "answered"
    /\ LET page == [off |-> Offset, rows |-> fetch.rows, total |-> fetch.total]
           got == Append(fetch.got, page)
           whole == IF fetch.kind = "next" THEN Append(pages[view], page) ELSE got
       IN  IF fetch.kind = "all" /\ Len(got) < Len(pages[view]) /\ NextOffset(page) # 0
           THEN fetch' = Reading("all", got) /\ UNCHANGED <<pages, stalePages, mixed>>
           ELSE /\ fetch' = NoFetch /\ pages' = [pages EXCEPT ![view] = whole]
                /\ stalePages' = [stalePages EXCEPT ![view] = FALSE]
                /\ mixed' = [mixed EXCEPT ![view] =
                                @ /\ (fetch.kind = "next" \/ pages[view] = <<>>)]
    /\ UNCHANGED <<raceStatus, changes, unheard, view>>

\* "Let's try that again": the pages that are there stay
PageFails ==
    /\ fetch.at # "idle" /\ fetch' = NoFetch /\ GivesUpFirstRead
    /\ UNCHANGED <<raceStatus, changes, unheard, view, pages, stalePages>>

TimelineNext ==
    \/ \E r \in Season, s \in RaceStatuses : ChangesRace(r, s)
    \/ PageCounted \/ PageAnswered \/ PageArrives \/ PageFails
    \/ HearsChange \/ RefetchesPages \/ LoadsMoreRaces
    \/ \E v \in Views : ShowsView(v)

TimelineSpec == TimelineInit /\ [][TimelineNext]_timelineVars

-----------------------------------------------------------------------------
\* Once every change was heard and nothing is being read, the timeline is the beginning of
\* the list the service has, no race missing between two pages and none left that is gone,
\* and more can be loaded exactly when there is more, however pages shifted while they were
\* read.  A first read that a change overtook is exempt, and so are pages that were put
\* together by "Load more" while the list was stale, until it is read again.
TimelineIsTrue ==
    LET list == ListedRaces(view)
        seen == Timeline(pages[view])
    IN  unheard = 0 /\ fetch = NoFetch /\ pages[view] # <<>> /\ ~stalePages[view] /\ ~mixed[view] =>
            /\ seen = FirstRaces(list, Cardinality(seen))
            /\ HasMore(view) <=> seen # list
=============================================================================
