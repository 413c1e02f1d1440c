------------------------------ MODULE RaceDesk ------------------------------
(***************************************************************************)
(* The admin page that lists the races (pages/admin/events/index.tsx), and *)
(* the deletion of a draft on it, which the service carries out in two     *)
(* statements (events.Service.Delete).                                     *)
(***************************************************************************)
EXTENDS Naturals

CONSTANTS
    Meets,          \* races
    ListReads,      \* reads of the list that may overlap: a bound
    DeskTurns       \* tabs chosen, deletions, and changes by others, together: a bound

ASSUME RaceDeskAssumption == Meets # {} /\ ListReads # {} /\ DeskTurns \in Nat

VARIABLES
    stage,          \* status of each race, "gone" once it is deleted
    raceTab,        \* activeTab
    listedRaces,    \* events: the status of each race that the page holds
    listLoading,    \* loading: a skeleton hides the list
    listReads,      \* fetchEvents: the tab it is about, what the service answered
    deletion,       \* handleDeleteDraft of each race: the tab it began under, and heard unless
                    \* its answer is lost
    torn,           \* races that were deleted while they were no drafts
    opened,         \* races that changed between the two statements of a deletion
    changedBehind,  \* changed by others since the list was read, a read or an answer was lost,
                    \* or the list was read as a visitor
    listCrossed,    \* the last read overlapped with another, or was about another tab
    turns           \* tabs chosen, deletions, and changes by others so far

listVars == <<raceTab, listedRaces, listLoading, listReads, listCrossed>>
raceDeskVars == <<stage, listVars, deletion, torn, opened, changedBehind, turns>>

\* of which visitors see the second
Stages == {"DRAFT", "PUBLISHED", "CANCELLED"}
RaceTabs == {"ALL", "DRAFT", "PAST"}
NoDeletion == [at |-> "idle", tab |-> "ALL", heard |-> TRUE]
Nowhere == [e \in Meets |-> "gone"]
NoList == [at |-> "idle", tab |-> "ALL", got |-> Nowhere]

\* what fetchEvents asks for, and what filteredEvents shows of it
Wanted(tab, status) == status # "gone" /\ (tab = "DRAFT" => status = "DRAFT")
OnTab(tab, status) == Wanted(tab, status) /\ (tab = "PAST" => status = "CANCELLED")

RaceDeskTypeOK ==
    /\ {stage, listedRaces} \subseteq [Meets -> Stages \union {"gone"}]
    /\ raceTab \in RaceTabs /\ listLoading \in BOOLEAN
    /\ \A r \in ListReads : listReads[r].at \in {"idle", "asked", "read"}
    /\ deletion \in [Meets -> [at : {"idle", "asked", "checked", "done", "refused"},
                               tab : RaceTabs, heard : BOOLEAN]]
    /\ torn \subseteq Meets /\ opened \subseteq Meets
    /\ changedBehind \in BOOLEAN /\ listCrossed \in BOOLEAN /\ turns \in 0..DeskTurns

\* The page is opened and asks for all races.
RaceDeskInit ==
    /\ stage \in [Meets -> Stages] /\ raceTab = "ALL" /\ listedRaces = Nowhere
    /\ listLoading = TRUE
    /\ listReads = [[r \in ListReads |-> NoList] EXCEPT ![CHOOSE r \in ListReads : TRUE].at = "asked"]
    /\ deletion = [e \in Meets |-> NoDeletion]
    /\ torn = {} /\ opened = {} /\ changedBehind = FALSE /\ listCrossed = FALSE /\ turns = 0

Turn == turns < DeskTurns /\ turns' = turns + 1

\* fetchEvents, for the page when its tab will be now
Fetches(tab, now) ==
    /\ listLoading' = TRUE
    /\ \E r \in ListReads :
          /\ listReads[r] = NoList
          /\ listReads' = [listReads EXCEPT ![r] = [NoList EXCEPT !.at = "asked", !.tab = tab]]
    /\ listCrossed' = (tab # now \/ \E r \in ListReads : listReads[r] # NoList)

ChoosesTab(tab) ==
    /\ Turn /\ tab # raceTab /\ raceTab' = tab /\ Fetches(tab, tab)
    /\ UNCHANGED <<stage, listedRaces, deletion, torn, opened, changedBehind>>

\* Who asks with a token that has expired is not refused, but taken for a visitor.
ListHandled(r) ==
    /\ listReads[r].at = "asked"
    /\ \E visitor \in BOOLEAN :
          LET shown(e) == Wanted(listReads[r].tab, stage[e]) /\ (visitor => stage[e] = "PUBLISHED")
          IN  /\ listReads' = [listReads EXCEPT ![r] = [@ EXCEPT !.at = "read", !.got =
                     [e \in Meets |-> IF shown(e) THEN stage[e] ELSE "gone"]]]
              /\ changedBehind' = visitor
    /\ UNCHANGED <<stage, raceTab, listedRaces, listLoading, listCrossed>>
    /\ UNCHANGED <<deletion, torn, opened, turns>>

ListArrives(r) ==
    /\ listReads[r].at = "read" /\ listedRaces' = listReads[r].got /\ listLoading' = FALSE
    /\ listReads' = [listReads EXCEPT ![r] = NoList]
    /\ UNCHANGED <<stage, raceTab, listCrossed, deletion, torn, opened, changedBehind, turns>>

\* a failure is not mentioned
ListLost(r) ==
    /\ listReads[r] # NoList /\ listReads' = [listReads EXCEPT ![r] = NoList]
    /\ listLoading' = FALSE /\ changedBehind' = TRUE
    /\ UNCHANGED <<stage, raceTab, listedRaces, listCrossed, deletion, torn, opened, turns>>

-----------------------------------------------------------------------------
(* A draft is deleted. *)

\* one deletion of each race at a time: a bound
DeletesDraft(e) ==
    /\ Turn /\ deletion[e] = NoDeletion
    /\ ~listLoading /\ listedRaces[e] = "DRAFT" /\ OnTab(raceTab, "DRAFT")
    /\ deletion' = [deletion EXCEPT ![e] = [at |-> "asked", tab |-> raceTab, heard |-> TRUE]]
    /\ UNCHANGED <<stage, listVars, torn, opened, changedBehind>>

\* Nobody waits for the answer of a deletion that is not heard.
Answers(e, at) ==
    deletion' = [deletion EXCEPT ![e] = IF @.heard THEN [@ EXCEPT !.at = at] ELSE NoDeletion]

\* GetByID; only drafts go on
DeletionChecked(e) ==
    /\ deletion[e].at = "asked"
    /\ IF stage[e] = "DRAFT" THEN deletion' = [deletion EXCEPT ![e].at = "checked"]
                             ELSE Answers(e, "refused")
    /\ opened' = IF stage[e] = "DRAFT" THEN opened \ {e} ELSE opened
    /\ UNCHANGED <<stage, listVars, torn, changedBehind, turns>>

\* repo.Delete, of the race as it is now
RowDeleted(e) ==
    /\ deletion[e].at = "checked"
    /\ \/ /\ stage[e] # "gone" /\ stage' = [stage EXCEPT ![e] = "gone"]
          /\ torn' = IF stage[e] = "DRAFT" THEN torn ELSE torn \union {e}
          /\ changedBehind' = (changedBehind \/ ~deletion[e].heard) /\ Answers(e, "done")
       \/ Answers(e, "refused") /\ UNCHANGED <<stage, torn, changedBehind>>
    /\ UNCHANGED <<listVars, opened, turns>>

\* Mutant: a race that was deleted is not looked for again.
DeletionAnsweredOnly(e) ==
    /\ deletion[e].at \in {"done", "refused"}
    /\ deletion' = [deletion EXCEPT ![e] = NoDeletion]
    /\ UNCHANGED <<stage, listVars, torn, opened, changedBehind, turns>>

\* The races are read again, of the tab under which the deletion was begun.
DeletionAnswered(e) ==
    /\ deletion[e].at \in {"done", "refused"}
    /\ deletion' = [deletion EXCEPT ![e] = NoDeletion]
    /\ IF deletion[e].at = "done" THEN Fetches(deletion[e].tab, raceTab)
                                  ELSE UNCHANGED <<listLoading, listReads, listCrossed>>
    /\ UNCHANGED <<stage, raceTab, listedRaces, torn, opened, changedBehind, turns>>

DeletionLost(e) ==
    /\ deletion[e] # NoDeletion /\ deletion[e].heard /\ changedBehind' = TRUE
    /\ deletion' = [deletion EXCEPT ![e] = IF @.at \in {"done", "refused"} THEN NoDeletion
                                           ELSE [@ EXCEPT !.heard = FALSE]]
    /\ UNCHANGED <<stage, listVars, torn, opened, turns>>

\* Another admin moves the race on, or deletes it.
MovedElsewhere(e) ==
    /\ Turn
    /\ \E next \in {"PUBLISHED", "CANCELLED", "gone"} :
          /\ stage[e] = "DRAFT" \/ (stage[e] = "PUBLISHED" /\ next = "CANCELLED")
          /\ stage' = [stage EXCEPT ![e] = next]
    /\ opened' = IF deletion[e].at = "checked" THEN opened \union {e} ELSE opened
    /\ changedBehind' = TRUE
    /\ UNCHANGED <<listVars, deletion, torn>>

RaceDeskNext ==
    \/ \E tab \in RaceTabs : ChoosesTab(tab)
    \/ \E r \in ListReads : ListHandled(r) \/ ListArrives(r) \/ ListLost(r)
    \/ \E e \in Meets :
          \/ DeletesDraft(e) \/ DeletionChecked(e) \/ RowDeleted(e)
          \/ DeletionAnswered(e) \/ DeletionLost(e) \/ MovedElsewhere(e)

RaceDeskSpec == RaceDeskInit /\ [][RaceDeskNext]_raceDeskVars

-----------------------------------------------------------------------------
\* Once nothing is under way that the page waits for, it lists the races of its tab as they
\* are, whatever was deleted and whichever tabs were chosen meanwhile.  Only what others
\* change, a read or an answer that is lost, a read with an expired token, and reads that
\* overlap or follow a deletion begun under another tab may leave it with other races.
RaceListIsTrue ==
    LET settled == /\ \A r \in ListReads : listReads[r] = NoList
                   /\ \A e \in Meets : deletion[e] = NoDeletion \/ ~deletion[e].heard
    IN  settled /\ ~changedBehind /\ ~listCrossed =>
            \A e \in Meets : OnTab(raceTab, listedRaces[e]) \/ OnTab(raceTab, stage[e])
                              => listedRaces[e] = stage[e]

\* A race that is open or over is deleted only if it was moved on between the look at its
\* status and the deletion.
DeletedWereDrafts == torn \subseteq opened

RaceDeskIsTrue == RaceListIsTrue /\ DeletedWereDrafts
=============================================================================
