---------------------------- MODULE RaceCalendar ----------------------------
(***************************************************************************)
(* The filters of the race calendar (pages/events) and the address of the  *)
(* page, which is to survive a reload and the back button.  A change of a  *)
(* filter is shown at once and written to the address by a navigation that *)
(* commits later; every commit runs the effect that reads the address.     *)
(***************************************************************************)
EXTENDS FiniteSets

CONSTANTS
    StatusTabs, Words, \* values of the status filter, and of the search field without outer blanks
    All, EmptySearch,  \* no filter; an empty search
    NoAddress

ASSUME CalendarAssumption ==
    /\ All \in StatusTabs /\ EmptySearch \in Words
    /\ NoAddress \notin [tab : StatusTabs, word : Words]

VARIABLES
    shownFilters,   \* tab and query: the word and whether a blank follows it
    address, \* router.asPath
    going,   \* the navigation that has not committed
    written, \* lastWrittenURL
    typedFilters,   \* what the runner last chose or opened
    overtaken  \* a navigation was overtaken in a way the page does not follow

calendarVars == <<shownFilters, address, going, written, typedFilters, overtaken>>

Addresses == [tab : StatusTabs, word : Words]
Filters == [tab : StatusTabs, word : Words, blank : BOOLEAN]
AddressOf(f) == [tab |-> f.tab, word |-> f.word]
Parsed(a) == [tab |-> a.tab, word |-> a.word, blank |-> FALSE]

CalendarInit ==
    /\ address \in Addresses /\ shownFilters = Parsed(address) /\ typedFilters = shownFilters
    /\ going = NoAddress /\ written = NoAddress /\ overtaken = FALSE

\* updateFilters: a change back to the address that is shown is not written; it does not
\* stop a navigation under way
ChangesFilters(f) ==
    /\ shownFilters' = f /\ typedFilters' = f
    /\ IF AddressOf(f) = address
       THEN /\ overtaken' = (overtaken \/ going # NoAddress)
            /\ UNCHANGED <<going, written>>
       ELSE /\ going' = AddressOf(f) /\ written' = AddressOf(f)
            /\ UNCHANGED overtaken
    /\ UNCHANGED address

\* a tab, the search field, or clearFilters
UpdatesFilters ==
    \E f \in Filters :
       /\ f # shownFilters
       /\ \/ f.tab = shownFilters.tab
          \/ f.word = shownFilters.word /\ f.blank = shownFilters.blank
          \/ f = [tab |-> All, word |-> EmptySearch, blank |-> FALSE]
       /\ ChangesFilters(f)

\* the back button or a link; the navigation under way is cancelled, and an address the page
\* was about to write stays marked as its own
VisitsAddress(a) ==
    /\ a # address
    /\ going' = a
    /\ overtaken' = (overtaken \/ written # NoAddress)
    /\ UNCHANGED <<shownFilters, address, written, typedFilters>>

\* Mutant: the address is read back whoever wrote it.
NotOwn(a) == FALSE

\* the address the page wrote itself is not read back
OwnWrite(a) == written = a

\* a navigation commits, and the effect reads the address
AddressCommits ==
    /\ going # NoAddress
    /\ address' = going /\ going' = NoAddress
    /\ IF OwnWrite(going)
       THEN written' = NoAddress /\ UNCHANGED <<shownFilters, typedFilters>>
       ELSE /\ shownFilters' = Parsed(going) /\ UNCHANGED written
            /\ typedFilters' = IF written = going THEN typedFilters ELSE Parsed(going)
    /\ UNCHANGED overtaken

\* "Could not save these filters in the URL."
NavigationFails ==
    /\ going # NoAddress /\ going' = NoAddress /\ overtaken' = TRUE
    /\ UNCHANGED <<shownFilters, address, written, typedFilters>>

CalendarNext ==
    UpdatesFilters \/ (\E a \in Addresses : VisitsAddress(a)) \/ AddressCommits \/ NavigationFails

CalendarSpec == CalendarInit /\ [][CalendarNext]_calendarVars

-----------------------------------------------------------------------------
\* Filters survive the address: once navigations settle, the filters shown are what the
\* runner last typed or opened, blanks in the search field included, and the address says
\* the same, unless one navigation overtook another in a way the page does not follow.
CalendarIsTrue ==
    overtaken \/ going # NoAddress \/ (shownFilters = typedFilters /\ AddressOf(shownFilters) = address)
=============================================================================
