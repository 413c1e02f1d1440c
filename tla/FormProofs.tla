----------------------------- MODULE FormProofs -----------------------------
(***************************************************************************)
(* The forms of the clients show what is stored, for any number of words,  *)
(* drafts, lines, stories, events and requests: the calendar's filters,    *)
(* the runner's card, the editor of an event, that of the public site, and *)
(* the page that sets an event up.                                         *)
(*                                                                         *)
(* Each invariant says what a request that is under way will bring: what a *)
(* form shows and what is stored differ only by answers that are on their  *)
(* way, and an answer that is on its way is still true of what is stored,  *)
(* unless something that the page cannot know of happened meanwhile, which *)
(* the model notes (crossed, foreign, doubt).                              *)
(***************************************************************************)
EXTENDS MCClients, TLAPS

-----------------------------------------------------------------------------
(* THE FILTERS OF THE CALENDAR *)

\* Unless a navigation was overtaken, an address the page wrote is the one under way and that
\* of the filters shown; once none is under way the address is that of the filters.
CalendarInv ==
    /\ address \in Addresses /\ shownFilters \in Filters /\ typedFilters \in Filters
    /\ going \in Addresses \union {NoAddress} /\ written \in Addresses \union {NoAddress}
    /\ overtaken \in BOOLEAN
    /\ ~overtaken =>
          /\ written # NoAddress =>
                written = going /\ going = AddressOf(shownFilters) /\ shownFilters = typedFilters
          /\ going = NoAddress => shownFilters = typedFilters /\ AddressOf(shownFilters) = address

\* Filters that are written to the address and read back are the same, but for a blank.
LEMMA FiltersOfAddresses ==
    /\ NoAddress \notin Addresses
    /\ \A a \in Addresses : Parsed(a) \in Filters /\ AddressOf(Parsed(a)) = a
    /\ \A f \in Filters : AddressOf(f) \in Addresses
BY CalendarAssumption DEF Addresses, Filters, AddressOf, Parsed

LEMMA CalendarStepKeepsInv ==
    ASSUME CalendarInv, CalendarNext \/ UNCHANGED calendarVars
    PROVE  CalendarInv'
<1>1. CASE UpdatesFilters
  <2>1. PICK f \in Filters : ChangesFilters(f)
    BY <1>1 DEF UpdatesFilters
  <2>2. /\ shownFilters' = f /\ typedFilters' = f /\ UNCHANGED address
        /\ AddressOf(f) \in Addresses /\ AddressOf(f) # NoAddress
    BY <2>1, FiltersOfAddresses DEF ChangesFilters
  <2>3. CASE AddressOf(f) = address
    BY <2>1, <2>2, <2>3 DEF ChangesFilters, CalendarInv
  <2>4. CASE AddressOf(f) # address
    BY <2>1, <2>2, <2>4 DEF ChangesFilters, CalendarInv
  <2> QED
    BY <2>3, <2>4
<1>2. ASSUME NEW a \in Addresses, VisitsAddress(a)
      PROVE  CalendarInv'
  BY <1>2, FiltersOfAddresses DEF VisitsAddress, CalendarInv
<1>3. CASE AddressCommits
  <2>1. going \in Addresses /\ Parsed(going) \in Filters /\ AddressOf(Parsed(going)) = going
    BY <1>3, FiltersOfAddresses DEF AddressCommits, CalendarInv
  <2>2. address' = going /\ going' = NoAddress /\ UNCHANGED overtaken
    BY <1>3 DEF AddressCommits
  <2>3. CASE written = going
    BY <1>3, <2>1, <2>2, <2>3, FiltersOfAddresses DEF AddressCommits, OwnWrite, CalendarInv
  <2>4. CASE written # going
    BY <1>3, <2>1, <2>2, <2>4 DEF AddressCommits, OwnWrite, CalendarInv
  <2> QED
    BY <2>3, <2>4
<1>4. CASE NavigationFails
  BY <1>4 DEF NavigationFails, CalendarInv
<1>5. CASE UNCHANGED calendarVars
  BY <1>5 DEF calendarVars, CalendarInv
<1> QED
  BY <1>1, <1>2, <1>3, <1>4, <1>5 DEF CalendarNext

LEMMA CalendarStart == CalendarInit => CalendarInv
BY FiltersOfAddresses DEF CalendarInit, CalendarInv

LEMMA CalendarInvHolds == CalendarInv => CalendarIsTrue
BY DEF CalendarInv, CalendarIsTrue

\* The filters survive the address: whatever is typed, opened and committed in whichever
\* order, what settles is what the visitor typed or opened last (pages/events, the effect
\* that reads the address and its mark of the page's own writes).
THEOREM FiltersSurvive == CalendarSpec => []CalendarIsTrue
<1>1. CalendarInv /\ [CalendarNext]_calendarVars => CalendarInv'
  BY CalendarStepKeepsInv
<1> QED
  BY <1>1, CalendarStart, CalendarInvHolds, PTL DEF CalendarSpec

-----------------------------------------------------------------------------
(* THE RUNNER'S DETAILS *)

\* The form of the web is compared with what it loaded or saved last, and that is stored
\* until it saves again, or a save that was left behind is stored.
WebCard ==
    surface = "web" =>
        /\ loadedMe => query.at = "idle"
        /\ ~loadedMe => save.at = "idle" /\ fields = base /\ (query.at = "read" => query.of = storedCard \/ outrun)
        /\ loadedMe /\ ~unsure /\ ~outrun /\ save.at \in {"idle", "asked"} => base = storedCard

\* The fields of the application are those that are saved or those of its query, and the
\* query that follows a save brings what was saved.
PhoneCard ==
    surface = "phone" =>
        /\ save.at # "idle" => fields \in {save.of, base}
        /\ notice => save.at = "idle" /\ (query.at = "read" => query.of = storedCard \/ outrun)
        /\ notice /\ ~typed /\ ~outrun => fields \in {storedCard, base}
        /\ notice /\ ~typed /\ ~staleMe /\ ~outrun => fields = storedCard

\* what is loaded, read or saved are details
CardFilled ==
    /\ loadedMe => base \in Drafts
    /\ base \in Drafts => fields \in Drafts
    /\ query.at = "read" => query.of \in Drafts
    /\ save.at # "idle" => save.of \in Drafts

CardInv ==
    /\ CardTypeOK /\ CardFilled
    /\ save.at = "done" => save.of = storedCard \/ outrun \/ (surface = "phone" /\ fields = base)
    /\ WebCard /\ PhoneCard

CardRequests == [at : {"idle", "asked", "done", "failed"}, of : Drafts \union {NoQuery}]
CardQueries == [at : {"idle", "asked", "read"}, of : Drafts \union {NoQuery}]

LEMMA CardRest ==
    /\ AtRest \in CardRequests /\ AtRest \in CardQueries /\ AtRest.at = "idle"
    /\ [at |-> "asked", of |-> NoQuery] \in CardQueries
    /\ [at |-> "asked", of |-> NoQuery].at = "asked"
BY DEF AtRest, CardRequests, CardQueries

LEMMA ReopensCardKeepsCard ==
    ASSUME CardInv, ReopensCard
    PROVE  CardInv'
<1>1. /\ fields' = NoQuery /\ base' = NoQuery /\ loadedMe' = FALSE
      /\ query' = [at |-> "asked", of |-> NoQuery] /\ staleMe' = FALSE
      /\ save' = AtRest /\ notice' = FALSE /\ typed' = FALSE /\ unsure' = FALSE
      /\ surface' = surface /\ storedCard' = storedCard /\ outrun' = FALSE
      /\ leftSaves' = IF save.at = "asked" THEN leftSaves \union {save.of} ELSE leftSaves
  BY DEF ReopensCard
<1>2. CardTypeOK'
  <2>1. leftSaves' \subseteq Drafts /\ storedCard' \in Drafts
    BY <1>1 DEF CardInv, CardTypeOK, CardFilled
  <2> QED
    BY <1>1, <2>1, CardRest DEF CardInv, CardTypeOK, CardRequests, CardQueries
<1>3. CardFilled' /\ WebCard' /\ PhoneCard' /\ save'.at # "done"
  BY <1>1, CardRest DEF CardFilled, WebCard, PhoneCard
<1> QED
  BY <1>2, <1>3 DEF CardInv

\* A save that was left behind outruns what the page knows.
LEMMA LeftSaveKeepsCard ==
    ASSUME CardInv, NEW d \in Drafts, LeftSaveStored(d)
    PROVE  CardInv'
<1>1. /\ storedCard' = d /\ outrun' = TRUE /\ leftSaves' = leftSaves \ {d}
      /\ UNCHANGED <<surface, fields, base, loadedMe, query, staleMe, save, notice, typed, unsure>>
  BY DEF LeftSaveStored
<1>2. CardTypeOK' /\ CardFilled'
  BY <1>1 DEF CardInv, CardTypeOK, CardFilled
<1>3. WebCard' /\ PhoneCard'
  BY <1>1 DEF CardInv, WebCard, PhoneCard
<1> QED
  BY <1>1, <1>2, <1>3 DEF CardInv

LEMMA QueriesKeepCard ==
    ASSUME CardInv, QueryHandled \/ QueryFails \/ QueryAgain
    PROVE  CardInv'
<1>1. /\ UNCHANGED <<surface, storedCard, fields, base, loadedMe, staleMe, save, notice, typed, unsure>>
      /\ UNCHANGED <<leftSaves, outrun>>
      /\ \/ query.at = "asked" /\ query' = [at |-> "read", of |-> storedCard]
         \/ query' = AtRest
         \/ surface = "phone" /\ query' = [at |-> "asked", of |-> NoQuery]
  BY DEF QueryHandled, QueryFails, QueryAgain, leftVars
<1>2. storedCard \in Drafts
  BY DEF CardInv, CardTypeOK
<1>3. /\ [at |-> "read", of |-> storedCard] \in CardQueries
      /\ [at |-> "read", of |-> storedCard].of = storedCard
      /\ [at |-> "read", of |-> storedCard].at = "read"
  BY <1>2 DEF CardQueries
<1>4. query' \in CardQueries /\ (query'.at = "read" => query'.of = storedCard)
  BY <1>1, <1>3, CardRest
<1>5. CardTypeOK' /\ CardFilled'
  BY <1>1, <1>2, <1>4 DEF CardInv, CardTypeOK, CardFilled, CardQueries
<1>6. WebCard'
  <2>1. surface = "web" /\ loadedMe => query'.at = "idle"
    BY <1>1, CardRest DEF CardInv, WebCard
  <2> QED
    BY <1>1, <1>4, <2>1 DEF CardInv, WebCard
<1>7. PhoneCard'
  BY <1>1, <1>4 DEF CardInv, PhoneCard
<1> QED
  BY <1>1, <1>5, <1>6, <1>7 DEF CardInv

\* The fields are overwritten when the data has changed, and are the data's otherwise, or
\* were typed.
LEMMA QueryArrivesKeepsCard ==
    ASSUME CardInv, QueryArrives
    PROVE  CardInv'
<1>1. /\ query.at = "read" /\ query' = AtRest /\ loadedMe' = TRUE /\ base' = query.of /\ staleMe' = FALSE
      /\ outrun' = (outrun /\ fields' # storedCard)
      /\ UNCHANGED <<surface, storedCard, save, notice, unsure, leftSaves>>
      /\ IF query.of # base THEN fields' = query.of /\ typed' = FALSE
                            ELSE UNCHANGED <<fields, typed>>
  BY DEF QueryArrives
<1>2. query.of \in Drafts
  BY <1>1 DEF CardInv, CardFilled
<1>3. fields' \in Drafts /\ typed' \in BOOLEAN
  BY <1>1, <1>2 DEF CardInv, CardFilled, CardTypeOK
<1>4. outrun' \in BOOLEAN /\ (~outrun' => ~outrun \/ fields' = storedCard)
  BY <1>1 DEF CardInv, CardTypeOK
<1>5. /\ query' = AtRest /\ loadedMe' = TRUE /\ base' = query.of /\ staleMe' = FALSE
      /\ UNCHANGED <<surface, storedCard, save, notice, unsure, leftSaves>>
  BY <1>1
<1>6. CardTypeOK' /\ CardFilled'
  BY <1>2, <1>3, <1>4, <1>5, CardRest DEF CardInv, CardTypeOK, CardFilled, CardQueries
<1>7. WebCard'
  <2>1. surface = "web" => save.at = "idle" /\ fields = base /\ (query.of = storedCard \/ outrun)
    BY <1>1 DEF CardInv, WebCard
  <2>2. surface = "web" => fields' = query.of
    BY <1>1, <2>1
  <2>3. surface = "web" /\ ~outrun' => base' = storedCard
    BY <1>4, <1>5, <2>1, <2>2
  <2> QED
    BY <1>5, <2>1, <2>3, CardRest DEF WebCard
<1>8. ASSUME surface = "phone"
      PROVE  PhoneCard' /\ (save.at = "done" => save.of = storedCard \/ outrun' \/ fields' = base')
  <2>1. notice => query.of = storedCard \/ outrun
    BY <1>1, <1>8 DEF CardInv, PhoneCard
  <2>2. fields' = query.of \/ (fields' = fields /\ query.of = base /\ typed' = typed)
    BY <1>1
  <2>3. save.at # "idle" => fields' \in {save.of, base'}
    BY <1>5, <1>8, <2>2 DEF CardInv, PhoneCard
  <2>4. notice /\ ~typed' /\ ~outrun' => fields' = storedCard
    <3>1. CASE fields' = storedCard
      BY <3>1
    <3>2. CASE fields' # storedCard /\ fields' = query.of
      BY <1>4, <2>1, <3>2
    <3>3. CASE fields' = fields /\ query.of = base /\ typed' = typed
      BY <1>4, <1>8, <2>1, <3>3 DEF CardInv, PhoneCard
    <3> QED
      BY <2>2, <3>1, <3>2, <3>3
  <2>5. save.at = "done" => save.of = storedCard \/ outrun' \/ fields' = base'
    BY <1>4, <1>5, <1>8, <2>2, <2>3 DEF CardInv, PhoneCard
  <2>6. notice => save.at = "idle"
    BY <1>8 DEF CardInv, PhoneCard
  <2> QED
    BY <1>5, <2>3, <2>4, <2>5, <2>6, CardRest DEF PhoneCard
<1>9. surface = "web" => save.at = "idle"
  BY <1>1 DEF CardInv, WebCard
<1>10. surface \in {"web", "phone"}
  BY DEF CardInv, CardTypeOK
<1> QED
  BY <1>5, <1>6, <1>7, <1>8, <1>9, <1>10 DEF CardInv, PhoneCard

LEMMA TypesKeepsCard ==
    ASSUME CardInv, NEW d \in Drafts, Types(d)
    PROVE  CardInv'
<1>1. /\ loadedMe /\ (surface = "phone" => save.at = "idle") /\ fields' = d /\ typed' = TRUE
      /\ UNCHANGED <<surface, storedCard, base, loadedMe, query, staleMe, save, notice, unsure, leftSaves, outrun>>
  BY DEF Types, leftVars
<1>2. CardTypeOK' /\ CardFilled' /\ WebCard' /\ PhoneCard'
  BY <1>1 DEF CardInv, CardTypeOK, CardFilled, WebCard, PhoneCard
<1> QED
  BY <1>1, <1>2 DEF CardInv

LEMMA SavesCardKeepsCard ==
    ASSUME CardInv, SavesCard
    PROVE  CardInv'
<1> DEFINE new == [at |-> "asked", of |-> fields]
<1>1. /\ loadedMe /\ save.at = "idle" /\ save' = new /\ notice' = FALSE /\ typed' = FALSE
      /\ UNCHANGED <<surface, storedCard, fields, base, loadedMe, query, staleMe, unsure, leftSaves, outrun>>
  BY DEF SavesCard, leftVars
<1>2. fields \in Drafts
  BY <1>1 DEF CardInv, CardFilled
<1>3. new \in CardRequests /\ new.at = "asked" /\ new.of = fields
  BY <1>2 DEF CardRequests
<1> HIDE DEF new
<1>4. CardTypeOK' /\ CardFilled'
  BY <1>1, <1>2, <1>3 DEF CardInv, CardTypeOK, CardFilled, CardRequests
<1>5. WebCard' /\ PhoneCard'
  BY <1>1, <1>3 DEF CardInv, WebCard, PhoneCard
<1> QED
  BY <1>1, <1>3, <1>4, <1>5 DEF CardInv

LEMMA SaveHandledKeepsCard ==
    ASSUME CardInv, SaveHandled
    PROVE  CardInv'
<1>1. /\ save.at = "asked" /\ save \in CardRequests /\ save.of \in Drafts
      /\ UNCHANGED <<surface, fields, base, loadedMe, query, staleMe, notice, typed, unsure, outrun>>
      /\ leftSaves' \subseteq leftSaves \union {save.of}
  BY DEF SaveHandled, CardInv, CardTypeOK, CardFilled, CardRequests
<1>2. \E r \in {"done", "failed"} :
         /\ save' = [save EXCEPT !.at = r]
         /\ storedCard' = save.of \/ (UNCHANGED storedCard /\ r = "failed")
  BY DEF SaveHandled
<1>3. PICK r \in {"done", "failed"} :
         /\ save' = [save EXCEPT !.at = r]
         /\ storedCard' = save.of \/ (UNCHANGED storedCard /\ r = "failed")
  BY <1>2
<1>4. save' \in CardRequests /\ save'.at = r /\ save'.of = save.of
  BY <1>1, <1>3 DEF CardRequests
<1>5. CardTypeOK' /\ CardFilled'
  BY <1>1, <1>3, <1>4 DEF CardInv, CardTypeOK, CardFilled, CardRequests
<1>6. WebCard' /\ PhoneCard'
  BY <1>1, <1>3, <1>4 DEF CardInv, WebCard, PhoneCard
<1> QED
  BY <1>3, <1>4, <1>5, <1>6 DEF CardInv

LEMMA SaveArrivesKeepsCard ==
    ASSUME CardInv, SaveArrives
    PROVE  CardInv'
<1>1. save.at \in {"done", "failed"} /\ save' = AtRest /\ UNCHANGED <<surface, storedCard, loadedMe, leftSaves>>
  BY DEF SaveArrives
<1>2. save.of \in Drafts /\ (save.at = "done" =>
          save.of = storedCard \/ outrun \/ (surface = "phone" /\ fields = base))
  BY <1>1 DEF CardInv, CardFilled
<1>3. CASE save.at = "failed"
  <2>1. unsure' = TRUE /\ UNCHANGED <<fields, base, notice, typed, query, staleMe, outrun>>
    BY <1>3 DEF SaveArrives
  <2>2. CardTypeOK' /\ CardFilled'
    BY <1>1, <2>1, CardRest DEF CardInv, CardTypeOK, CardFilled, CardRequests
  <2>3. WebCard' /\ PhoneCard'
    BY <1>1, <1>3, <2>1, CardRest DEF CardInv, WebCard, PhoneCard
  <2> QED
    BY <1>1, <2>2, <2>3, CardRest DEF CardInv
<1>4. CASE save.at = "done" /\ surface = "web"
  <2>1. /\ notice' = TRUE /\ unsure' = FALSE /\ fields' = save.of /\ base' = save.of /\ typed' = FALSE
        /\ outrun' = (outrun /\ save.of # storedCard) /\ UNCHANGED <<query, staleMe>>
    BY <1>4 DEF SaveArrives
  <2>2. CardTypeOK' /\ CardFilled'
    BY <1>1, <1>2, <2>1, CardRest DEF CardInv, CardTypeOK, CardFilled, CardRequests
  <2>3. WebCard' /\ PhoneCard'
    BY <1>1, <1>2, <1>4, <2>1, CardRest DEF CardInv, WebCard, PhoneCard
  <2> QED
    BY <1>1, <2>2, <2>3, CardRest DEF CardInv
<1>5. CASE save.at = "done" /\ surface # "web"
  <2>1. /\ notice' = TRUE /\ unsure' = FALSE /\ query' = [at |-> "asked", of |-> NoQuery] /\ staleMe' = TRUE
        /\ UNCHANGED <<fields, base, typed, outrun>>
    BY <1>5 DEF SaveArrives
  <2>2. CardTypeOK' /\ CardFilled'
    BY <1>1, <1>2, <2>1, CardRest DEF CardInv, CardTypeOK, CardFilled, CardRequests, CardQueries
  <2>3. WebCard' /\ PhoneCard'
    BY <1>1, <1>2, <1>5, <2>1, CardRest DEF CardInv, WebCard, PhoneCard
  <2> QED
    BY <1>1, <2>2, <2>3, CardRest DEF CardInv
<1> QED
  BY <1>1, <1>3, <1>4, <1>5

LEMMA CardStepKeepsInv ==
    ASSUME CardInv, CardNext \/ UNCHANGED cardVars
    PROVE  CardInv'
<1>1. CASE UNCHANGED cardVars
  BY <1>1 DEF cardVars, leftVars, CardInv, CardTypeOK, CardFilled, WebCard, PhoneCard
<1> QED
  BY <1>1, ReopensCardKeepsCard, LeftSaveKeepsCard, QueriesKeepCard, QueryArrivesKeepsCard, TypesKeepsCard,
     SavesCardKeepsCard,
     SaveHandledKeepsCard, SaveArrivesKeepsCard DEF CardNext

LEMMA CardStart == CardInit => CardInv
<1> SUFFICES ASSUME CardInit
             PROVE  CardInv
  OBVIOUS
<1>1. CardTypeOK
  BY CardRest DEF CardInit, CardTypeOK, CardRequests, CardQueries
<1>2. CardFilled /\ WebCard /\ PhoneCard /\ save.at # "done"
  BY CardRest DEF CardInit, CardFilled, WebCard, PhoneCard
<1> QED
  BY <1>1, <1>2 DEF CardInv

LEMMA CardInvHolds == CardInv => CardIsStored
BY DEF CardInv, WebCard, PhoneCard, CardIsStored, Dirty

\* A page or a screen that says that the runner's details are saved shows what is stored,
\* whatever is typed, read again and saved meanwhile, until a save that went unanswered or
\* that was left behind by an earlier opening overtakes it (profile.tsx, saveProfile;
\* EditProfileScreen, its effect and its mutation).
THEOREM CardsShowStored == CardSpec => []CardIsStored
<1>1. CardInv /\ [CardNext]_cardVars => CardInv'
  BY CardStepKeepsInv
<1> QED
  BY <1>1, CardStart, CardInvHolds, PTL DEF CardSpec

-----------------------------------------------------------------------------
(* THE EDITOR OF AN EVENT *)

EditorPanels == ListPanels \union {"details", "transmissions"}
LineValues == {Absent, 1, 2, Ended}
LineLists == [Lines -> LineValues]
EditorJobs == [no : Nat, at : {"sent", "done"}, kind : {"add", "save", "remove"}, line : Lines,
               value : LineValues, from : LineLists]

EditorTypes ==
    /\ panel \in EditorPanels /\ rows \in LineLists /\ seen \in LineLists
    /\ loaded \in BOOLEAN /\ jobs \subseteq EditorJobs /\ editsAsked \in Nat
    /\ panelCrossed \in BOOLEAN

\* unless requests overlapped where the panel gets it wrong, one is under way, or on the
\* board one for each line
OneJob ==
    ~panelCrossed => \A j, k \in jobs : panel # "transmissions" \/ j.line = k.line => j = k

\* A line that no answer is on its way for is shown as it is stored, and an answer brings
\* what is stored of its line; that of the details the whole event, and that of a list is
\* put into the list that is shown.
JobsBringStored ==
    ~panelCrossed =>
        /\ \A l \in Lines :
              loaded /\ (\A j \in jobs : j.line = l => j.at = "sent") => seen[l] = rows[l]
        /\ \A j \in jobs :
              /\ j.at = "done" => rows[j.line] = j.value
              /\ j.at = "done" /\ panel = "details" => j.from = rows
              /\ panel \in ListPanels => j.from = seen

EditorInv == EditorTypes /\ OneJob /\ JobsBringStored /\ (~loaded => jobs = {})

LEMMA AsksOfPanelKeepsEditor ==
    ASSUME EditorInv, NEW kind \in {"add", "save", "remove"}, NEW l \in Lines, NEW v \in LineValues,
           AsksOfPanel(kind, l, v)
    PROVE  EditorInv'
<1> DEFINE new == [no |-> editsAsked, at |-> "sent", kind |-> kind, line |-> l, value |-> v, from |-> seen]
<1>1. /\ loaded /\ jobs' = jobs \cup {new} /\ editsAsked' = editsAsked + 1
      /\ panelCrossed' = (panelCrossed \/ Crosses(l))
      /\ UNCHANGED <<panel, rows, seen, loaded>>
  BY DEF AsksOfPanel
<1>2. /\ new \in EditorJobs /\ new.line = l /\ new.at = "sent" /\ new.from = seen
  BY DEF EditorInv, EditorTypes, EditorJobs
<1> HIDE DEF new
<1>3. EditorTypes'
  BY <1>1, <1>2 DEF EditorInv, EditorTypes
<1>4. ~panelCrossed' => /\ ~panelCrossed /\ \A j \in jobs : j.line # l
                        /\ panel = "transmissions" \/ jobs = {}
  BY <1>1 DEF Crosses
<1>5. OneJob'
  BY <1>1, <1>2, <1>4 DEF EditorInv, OneJob
<1>6. JobsBringStored'
  BY <1>1, <1>2, <1>4 DEF EditorInv, JobsBringStored
<1> QED
  BY <1>1, <1>3, <1>5, <1>6 DEF EditorInv

LEMMA LoadsEventKeepsEditor ==
    ASSUME EditorInv, LoadsEvent
    PROVE  EditorInv'
<1>1. /\ ~loaded /\ loaded' = TRUE /\ jobs = {} /\ UNCHANGED <<panel, rows, jobs, editsAsked>>
      /\ \/ seen' = rows /\ UNCHANGED panelCrossed
         \/ seen' = [l \in Lines |-> Absent] /\ panelCrossed' = TRUE
  BY DEF LoadsEvent, EditorInv
<1>2. EditorTypes'
  BY <1>1 DEF EditorInv, EditorTypes, LineLists, LineValues
<1>3. OneJob' /\ JobsBringStored'
  BY <1>1 DEF OneJob, JobsBringStored
<1> QED
  BY <1>1, <1>2, <1>3 DEF EditorInv

LEMMA LineHandledKeepsEditor ==
    ASSUME EditorInv, NEW j \in jobs, LineHandled(j)
    PROVE  EditorInv'
<1> DEFINE new == [j EXCEPT !.at = "done", !.from = IF panel = "details" THEN rows' ELSE @]
<1>1. /\ j.at = "sent" /\ rows' = [rows EXCEPT ![j.line] = j.value]
      /\ jobs' = (jobs \ {j}) \cup {new} /\ UNCHANGED <<panel, seen, loaded, editsAsked, panelCrossed>>
  BY DEF LineHandled
<1>2. j \in EditorJobs
  BY DEF EditorInv, EditorTypes
<1>3. rows' \in LineLists /\ rows'[j.line] = j.value /\ \A l \in Lines \ {j.line} : rows'[l] = rows[l]
  BY <1>1, <1>2 DEF EditorInv, EditorTypes, EditorJobs, LineLists
<1>4. /\ new \in EditorJobs /\ new.at = "done" /\ new.line = j.line /\ new.value = j.value
      /\ new.from = IF panel = "details" THEN rows' ELSE j.from
  BY <1>2, <1>3 DEF EditorJobs
<1> HIDE DEF new
<1>5. EditorTypes'
  BY <1>1, <1>3, <1>4 DEF EditorInv, EditorTypes
<1>6. OneJob'
  BY <1>1, <1>4 DEF EditorInv, OneJob
<1>7. JobsBringStored'
  <2> SUFFICES ASSUME ~panelCrossed
               PROVE  JobsBringStored'
    BY <1>1 DEF JobsBringStored
  <2>1. /\ \A k \in jobs \ {j} : k.line # j.line
        /\ panel # "transmissions" => jobs \ {j} = {}
    BY DEF EditorInv, OneJob
  <2>2. \A k \in jobs : k.line \in Lines
    BY DEF EditorInv, EditorTypes, EditorJobs
  <2>3. ASSUME NEW l \in Lines, loaded, \A k \in jobs' : k.line = l => k.at = "sent"
        PROVE  seen[l] = rows'[l]
    <3>1. l # j.line
      BY <1>1, <1>4, <2>3
    <3>2. \A k \in jobs : k.line = l => k.at = "sent"
      BY <1>1, <2>3, <3>1
    <3> QED
      BY <1>3, <2>3, <3>1, <3>2 DEF EditorInv, JobsBringStored
  <2>4. ASSUME NEW k \in jobs'
        PROVE  /\ k.at = "done" => rows'[k.line] = k.value
               /\ k.at = "done" /\ panel = "details" => k.from = rows'
               /\ panel \in ListPanels => k.from = seen
    <3>1. CASE k = new
      BY <1>3, <1>4, <3>1 DEF EditorInv, JobsBringStored, ListPanels
    <3>2. CASE k \in jobs \ {j}
      <4>1. panel = "transmissions" /\ k.line # j.line
        BY <2>1, <3>2
      <4> QED
        BY <1>3, <2>2, <3>2, <4>1 DEF EditorInv, JobsBringStored, ListPanels
    <3> QED
      BY <1>1, <3>1, <3>2
  <2> QED
    BY <1>1, <2>3, <2>4 DEF JobsBringStored
<1> QED
  BY <1>1, <1>5, <1>6, <1>7 DEF EditorInv

LEMMA LineArrivesKeepsEditor ==
    ASSUME EditorInv, NEW j \in jobs, LineArrives(j)
    PROVE  EditorInv'
<1>1. /\ j.at = "done" /\ seen' = Patched(j) /\ jobs' = jobs \ {j}
      /\ UNCHANGED <<panel, rows, loaded, editsAsked, panelCrossed>>
  BY DEF LineArrives, Ends
<1>2. j \in EditorJobs /\ panel \in EditorPanels /\ seen \in LineLists /\ rows \in LineLists
  BY DEF EditorInv, EditorTypes
<1>3. /\ panel = "details" => seen' = j.from
      /\ panel \in ListPanels => seen' = [j.from EXCEPT ![j.line] = j.value]
      /\ panel = "transmissions" => seen' = [seen EXCEPT ![j.line] = j.value]
  BY <1>1 DEF Patched, ListPanels
<1>4. EditorTypes'
  <2>1. seen' \in LineLists
    BY <1>2, <1>3 DEF EditorPanels, EditorJobs, LineLists
  <2> QED
    BY <1>1, <2>1 DEF EditorInv, EditorTypes
<1>5. OneJob'
  BY <1>1 DEF EditorInv, OneJob
<1>6. JobsBringStored'
  <2> SUFFICES ASSUME ~panelCrossed
               PROVE  JobsBringStored'
    BY <1>1 DEF JobsBringStored
  <2>1. /\ \A k \in jobs \ {j} : k.line # j.line
        /\ panel # "transmissions" => jobs \ {j} = {}
    BY DEF EditorInv, OneJob
  <2>2. /\ rows[j.line] = j.value
        /\ panel = "details" => j.from = rows
        /\ panel \in ListPanels => j.from = seen
    BY <1>1 DEF EditorInv, JobsBringStored
  <2>3. panel # "details" => /\ seen'[j.line] = j.value
                             /\ \A l \in Lines \ {j.line} : seen'[l] = seen[l]
    BY <1>2, <1>3, <2>2 DEF EditorPanels, EditorJobs, LineLists
  <2>4. ASSUME NEW l \in Lines, loaded, \A k \in jobs' : k.line = l => k.at = "sent"
        PROVE  seen'[l] = rows[l]
    <3>1. CASE panel = "details"
      BY <1>3, <2>2, <3>1
    <3>2. CASE panel # "details" /\ l = j.line
      BY <2>2, <2>3, <3>2
    <3>3. CASE panel # "details" /\ l # j.line
      BY <1>1, <2>3, <2>4, <3>3 DEF EditorInv, JobsBringStored
    <3> QED
      BY <3>1, <3>2, <3>3
  <2>5. ASSUME NEW k \in jobs'
        PROVE  /\ k.at = "done" => rows[k.line] = k.value
               /\ panel = "transmissions"
    BY <1>1, <2>1 DEF EditorInv, JobsBringStored
  <2> QED
    BY <1>1, <2>4, <2>5 DEF JobsBringStored, ListPanels
<1> QED
  BY <1>1, <1>4, <1>5, <1>6 DEF EditorInv

LEMMA LineFailsKeepsEditor ==
    ASSUME EditorInv, NEW j \in jobs, LineFails(j)
    PROVE  EditorInv'
<1>1. /\ jobs' = jobs \ {j} /\ panelCrossed' = (panelCrossed \/ j.at = "done")
      /\ UNCHANGED <<panel, rows, seen, loaded, editsAsked>>
  BY DEF LineFails, Ends
<1>2. EditorTypes' /\ OneJob'
  BY <1>1 DEF EditorInv, EditorTypes, OneJob
<1>3. JobsBringStored'
  <2>1. j.at \in {"sent", "done"}
    BY DEF EditorInv, EditorTypes, EditorJobs
  <2> QED
    BY <1>1, <2>1 DEF EditorInv, JobsBringStored
<1> QED
  BY <1>1, <1>2, <1>3 DEF EditorInv

LEMMA EditorStepKeepsInv ==
    ASSUME EditorInv, EditorNext \/ UNCHANGED editorVars
    PROVE  EditorInv'
<1>1. CASE UNCHANGED editorVars
  BY <1>1 DEF editorVars, EditorInv, EditorTypes, OneJob, JobsBringStored
<1>2. ASSUME NEW l \in Lines, AddsLine(l) \/ SavesLine(l) \/ RemovesLine(l)
      PROVE  EditorInv'
  <2>1. \E kind \in {"add", "save", "remove"}, v \in LineValues : AsksOfPanel(kind, l, v)
    BY <1>2 DEF AddsLine, SavesLine, RemovesLine, LineValues
  <2> QED
    BY <2>1, AsksOfPanelKeepsEditor
<1> QED
  BY <1>1, <1>2, LoadsEventKeepsEditor, LineHandledKeepsEditor, LineArrivesKeepsEditor, LineFailsKeepsEditor
     DEF EditorNext

LEMMA EditorStart == EditorInit => EditorInv
<1> SUFFICES ASSUME EditorInit
             PROVE  EditorInv
  OBVIOUS
<1>1. rows \in LineLists /\ seen \in LineLists
  BY DEF EditorInit, LineLists, LineValues
<1>2. EditorTypes
  BY <1>1 DEF EditorInit, EditorTypes, EditorPanels
<1>3. OneJob /\ JobsBringStored /\ jobs = {}
  BY DEF EditorInit, OneJob, JobsBringStored
<1> QED
  BY <1>2, <1>3 DEF EditorInv

LEMMA EditorInvHolds == EditorInv => EditorShowsStored
<1> SUFFICES ASSUME EditorInv, loaded, jobs = {}, ~panelCrossed
             PROVE  seen = rows
  BY DEF EditorShowsStored
<1>1. \A l \in Lines : seen[l] = rows[l]
  BY DEF EditorInv, JobsBringStored
<1> QED
  BY <1>1 DEF EditorInv, EditorTypes, LineLists

\* Every panel of the editor at rest shows what is stored, although each patches its own copy
\* with the answers to its own requests and the panels lock different things
\* (events/[id]/edit.tsx and its editors).
THEOREM EditorsShowStored == EditorSpec => []EditorShowsStored
<1>1. EditorInv /\ [EditorNext]_editorVars => EditorInv'
  BY EditorStepKeepsInv
<1> QED
  BY <1>1, EditorStart, EditorInvHolds, PTL DEF EditorSpec

-----------------------------------------------------------------------------
(* THE EDITOR OF THE PUBLIC SITE *)

\* slides whose image is of the stock or what was uploaded for them
Slides == {s \in [about : Stories, image : Stories \cup {"stock"}] : s.image \in {"stock", s.about}}
Carousels == Seq(Slides)
Designs == [words : Nat, slides : Carousels]
Openings == [at : {"idle", "asked"}, settings : Nat, history : Nat]
Writes == [at : {"idle", "asked", "done"}, sent : {0} \cup Designs, made : Nat]
ReadsOfLedger == {q \in [at : {"idle", "asked", "read"}, got : Nat] : q.at = "idle" => q = Unasked}

WriteIsTyped(write) ==
    /\ write \in Writes
    /\ write.at = "asked" => write.sent \in Designs
    /\ write.at = "done" => write.made \in 1..Newest

SiteTypes ==
    /\ versions \in Seq(Designs) /\ Newest >= 1 /\ siteDraft \in Designs /\ edited \in BOOLEAN
    /\ opening \in Openings /\ opening.settings <= Newest /\ opening.history <= Newest
    /\ opening.at = "idle" => opening = NoOpening
    /\ WriteIsTyped(publishing) /\ WriteIsTyped(restoring)
    /\ imageUpload.at = "asked" => imageUpload.slides \in Carousels
                                   /\ imageUpload.slot \in DOMAIN imageUpload.slides
    /\ ledger \in Nat /\ ledgerReads \in [LedgerReads -> ReadsOfLedger]
    /\ foreign \in BOOLEAN /\ crossed \in BOOLEAN /\ unlisted \in BOOLEAN

\* nothing is written, and no list read, before the page is open; what was read for it is
\* what is live, or the page is told apart
OpeningReadsLive ==
    opening.at = "asked" =>
        /\ publishing.at = "idle" /\ restoring.at = "idle" /\ ledger = 0
        /\ \A r \in LedgerReads : ledgerReads[r] = Unasked
        /\ ~foreign /\ opening.settings # 0 => opening.settings = Newest
        /\ ~unlisted /\ opening.history # 0 => opening.history = Newest

\* Of an open page: what was stored last is on its way to the draft, or is the draft, and
\* the list is about to be read again, or is being read, or marks it.
DraftFollows ==
    opening.at = "idle" /\ ~foreign /\ ~crossed =>
        /\ publishing.at = "done" => publishing.made = Newest /\ restoring.at # "done"
        /\ restoring.at = "done" => restoring.made = Newest
        /\ publishing.at # "done" /\ restoring.at # "done" /\ ~edited => siteDraft = Live

LedgerFollows ==
    /\ ~unlisted => \A r, q \in LedgerReads :
                        ledgerReads[r] # Unasked /\ ledgerReads[q] # Unasked => r = q
    /\ opening.at = "idle" /\ ~foreign /\ ~unlisted
       /\ publishing.at # "done" /\ restoring.at # "done" =>
           /\ \A r \in LedgerReads : ledgerReads[r].at = "read" => ledgerReads[r].got = Newest
           /\ (\A r \in LedgerReads : ledgerReads[r] = Unasked) => ledger = Newest

SiteInv == SiteTypes /\ OpeningReadsLive /\ DraftFollows /\ LedgerFollows

LEMMA StoredDesign ==
    ASSUME SiteTypes, NEW v \in 1..Newest
    PROVE  versions[v] \in Designs
BY DEF SiteTypes, Newest

LEMMA OpensKeepSite ==
    ASSUME SiteInv, SettingsRead \/ HistoryRead
    PROVE  SiteInv'
<1>1. /\ opening.at = "asked" /\ Newest \in Nat /\ Newest >= 1 /\ opening \in Openings
      /\ \/ opening' = [opening EXCEPT !.settings = Newest]
         \/ opening' = [opening EXCEPT !.history = Newest]
      /\ UNCHANGED <<versions, siteDraft, edited, edits, imageUpload, ledger, ledgerReads, unlisted,
                     publishing, restoring, crossed, foreign>>
  BY DEF SettingsRead, HistoryRead, SiteInv, SiteTypes, Newest, pageVars, ledgerVars, writeVars
<1>2. /\ opening' \in Openings /\ opening'.at = "asked"
      /\ \/ opening'.settings = Newest /\ opening'.history = opening.history
         \/ opening'.settings = opening.settings /\ opening'.history = Newest
  BY <1>1 DEF Openings
<1>3. SiteTypes'
  BY <1>1, <1>2 DEF SiteInv, SiteTypes, Newest, WriteIsTyped
<1>4. OpeningReadsLive'
  BY <1>1, <1>2 DEF SiteInv, OpeningReadsLive, Newest
<1>5. DraftFollows' /\ LedgerFollows'
  BY <1>1, <1>2 DEF SiteInv, DraftFollows, LedgerFollows
<1> QED
  BY <1>3, <1>4, <1>5 DEF SiteInv

LEMMA PageLoadsKeepsSite ==
    ASSUME SiteInv, PageLoads
    PROVE  SiteInv'
<1>1. /\ opening.settings # 0 /\ opening.history # 0 /\ opening' = NoOpening
      /\ siteDraft' = versions[opening.settings] /\ edited' = FALSE /\ ledger' = opening.history
      /\ UNCHANGED <<versions, edits, imageUpload, ledgerReads, unlisted,
                     publishing, restoring, crossed, foreign>>
  BY DEF PageLoads, TakesDesign, writeVars
<1>2. opening.at = "asked" /\ opening.settings \in 1..Newest /\ opening.history \in 1..Newest
  <2>1. opening \in Openings /\ opening.settings <= Newest /\ opening.history <= Newest /\ Newest \in Nat
        /\ (opening.at = "idle" => opening = NoOpening)
    BY DEF SiteInv, SiteTypes, Newest
  <2>2. NoOpening.settings = 0
    BY DEF NoOpening
  <2> QED
    BY <1>1, <2>1, <2>2 DEF Openings
<1>3. SiteTypes'
  <2>1. siteDraft' \in Designs
    BY <1>1, <1>2, StoredDesign DEF SiteInv
  <2>2. opening' \in Openings /\ opening'.settings <= Newest /\ opening'.history <= Newest
    BY <1>1 DEF NoOpening, Openings, SiteInv, SiteTypes, Newest
  <2>3. ledger' \in Nat
    BY <1>1, <1>2
  <2> QED
    BY <1>1, <2>1, <2>2, <2>3 DEF SiteInv, SiteTypes, Newest, WriteIsTyped
<1>4. OpeningReadsLive'
  BY <1>1 DEF OpeningReadsLive, NoOpening
<1>5. DraftFollows' /\ LedgerFollows'
  BY <1>1, <1>2 DEF SiteInv, OpeningReadsLive, DraftFollows, LedgerFollows, Newest, Live, Unasked
<1> QED
  BY <1>3, <1>4, <1>5 DEF SiteInv

LEMMA PageLoadFailsKeepsSite ==
    ASSUME SiteInv, PageLoadFails
    PROVE  SiteInv'
<1>1. /\ opening.at = "asked" /\ opening' = NoOpening /\ foreign' = TRUE /\ unlisted' = TRUE
      /\ UNCHANGED <<versions, siteDraft, edited, edits, imageUpload, ledger, ledgerReads,
                     publishing, restoring, crossed>>
  BY DEF PageLoadFails, pageVars, writeVars
<1>2. SiteTypes'
  BY <1>1 DEF SiteInv, SiteTypes, Newest, WriteIsTyped, NoOpening, Openings
<1>3. OpeningReadsLive' /\ DraftFollows' /\ LedgerFollows'
  BY <1>1 DEF OpeningReadsLive, DraftFollows, LedgerFollows, NoOpening
<1> QED
  BY <1>2, <1>3 DEF SiteInv

\* whatever is edited, the draft keeps its type and is no longer what was taken
LEMMA EditKeepsSite ==
    ASSUME SiteInv, siteDraft' \in Designs, edited' = TRUE,
           UNCHANGED imageUpload \/ imageUpload' = NoUpload,
           UNCHANGED <<versions, opening, ledger, ledgerReads, unlisted, publishing, restoring, crossed,
                       foreign>>
    PROVE  SiteInv'
<1>1. SiteTypes'
  BY DEF SiteInv, SiteTypes, Newest, WriteIsTyped, NoUpload
<1>2. OpeningReadsLive' /\ DraftFollows' /\ LedgerFollows'
  BY DEF SiteInv, OpeningReadsLive, DraftFollows, LedgerFollows, Newest
<1> QED
  BY <1>1, <1>2 DEF SiteInv

LEMMA WithoutIsCarousel ==
    ASSUME siteDraft \in Designs, NEW i \in DOMAIN siteDraft.slides
    PROVE  SlidesWithout(i) \in Carousels
<1> DEFINE s == siteDraft.slides
           n == Len(s)
           g == [k \in 1..(n - 1) |-> IF k < i THEN s[k] ELSE s[k + 1]]
<1>1. s \in Seq(Slides) /\ n \in Nat /\ DOMAIN s = 1..n /\ i \in 1..n
  BY DEF Designs, Carousels
<1>2. \A k \in 1..(n - 1) : s[k] \in Slides /\ s[k + 1] \in Slides
  BY <1>1
<1>3. n - 1 \in Nat
  BY <1>1
<1>4. g \in [1..(n - 1) -> Slides]
  BY <1>2
<1>5. g \in Seq(Slides)
  BY <1>3, <1>4
<1> QED
  BY <1>5 DEF SlidesWithout, Carousels

LEMMA SlidesEditKeepsSite ==
    ASSUME SiteInv, NEW c \in Carousels, Edits(c), UNCHANGED imageUpload \/ imageUpload' = NoUpload, EditsOnly
    PROVE  SiteInv'
<1>1. siteDraft' = [siteDraft EXCEPT !.slides = c] /\ edited' = TRUE
  BY DEF Edits
<1>2. siteDraft' \in Designs
  BY <1>1 DEF SiteInv, SiteTypes, Designs
<1>3. UNCHANGED <<versions, opening, ledger, ledgerReads, unlisted, publishing, restoring, crossed,
                  foreign>>
  BY DEF EditsOnly, ledgerVars, writeVars
<1> QED
  BY <1>1, <1>2, <1>3, EditKeepsSite

LEMMA EditsKeepSite ==
    ASSUME SiteInv,
           \/ TypesWords \/ MovesSlide \/ \E s \in Stories : AddsSlide(s)
           \/ \E i \in DOMAIN siteDraft.slides : RemovesSlide(i)
           \/ UploadArrives
    PROVE  SiteInv'
<1>1. siteDraft \in Designs /\ siteDraft.slides \in Seq(Slides)
  BY DEF SiteInv, SiteTypes, Designs, Carousels
<1>2. CASE TypesWords
  <2>1. siteDraft' = [siteDraft EXCEPT !.words = 3] /\ edited' = TRUE /\ UNCHANGED imageUpload
    BY <1>2 DEF TypesWords
  <2>2. siteDraft' \in Designs
    BY <1>1, <2>1 DEF Designs
  <2>3. UNCHANGED <<versions, opening, ledger, ledgerReads, unlisted, publishing, restoring, crossed,
                    foreign>>
    BY <1>2 DEF TypesWords, EditsOnly, ledgerVars, writeVars
  <2> QED
    BY <2>1, <2>2, <2>3, EditKeepsSite
<1>3. CASE MovesSlide
  <2>1. <<siteDraft.slides[2], siteDraft.slides[1]>> \in Carousels
    BY <1>1, <1>3 DEF MovesSlide, Carousels
  <2> QED
    BY <1>3, <2>1, SlidesEditKeepsSite DEF MovesSlide
<1>4. ASSUME NEW s \in Stories, AddsSlide(s)
      PROVE  SiteInv'
  <2>1. Stock(s) \in Slides
    BY DEF Stock, Slides
  <2>2. Append(siteDraft.slides, Stock(s)) \in Carousels
    BY <1>1, <2>1 DEF Carousels
  <2> QED
    BY <1>4, <2>2, SlidesEditKeepsSite DEF AddsSlide
<1>5. ASSUME NEW i \in DOMAIN siteDraft.slides, RemovesSlide(i)
      PROVE  SiteInv'
  BY <1>1, <1>5, WithoutIsCarousel, SlidesEditKeepsSite DEF RemovesSlide
<1>6. CASE UploadArrives
  <2> DEFINE old == imageUpload.slides
             new == [old[imageUpload.slot] EXCEPT !.image = old[imageUpload.slot].about]
             c == [old EXCEPT ![imageUpload.slot].image = old[imageUpload.slot].about]
  <2>1. old \in Seq(Slides) /\ imageUpload.slot \in DOMAIN old
    BY <1>6 DEF UploadArrives, SiteInv, SiteTypes, Carousels
  <2>2. old[imageUpload.slot] \in Slides
    BY <2>1
  <2>3. new \in Slides
    BY <2>2 DEF Slides
  <2>4. c = [old EXCEPT ![imageUpload.slot] = new]
    BY <2>1
  <2> HIDE DEF new
  <2>5. c \in Carousels
    BY <2>1, <2>3, <2>4 DEF Carousels
  <2> QED
    BY <1>6, <2>5, SlidesEditKeepsSite DEF UploadArrives
<1> QED
  BY <1>2, <1>3, <1>4, <1>5, <1>6

LEMMA UploadsKeepSite ==
    ASSUME SiteInv, (\E i \in DOMAIN siteDraft.slides : ChoosesImage(i)) \/ UploadFails
    PROVE  SiteInv'
<1>1. UNCHANGED <<versions, siteDraft, edited, opening, ledger, ledgerReads, unlisted, publishing,
                  restoring, crossed, foreign>>
  BY DEF ChoosesImage, UploadFails, EditsOnly, ledgerVars, writeVars
<1>2. imageUpload'.at = "asked" => /\ imageUpload'.slides \in Carousels
                                   /\ imageUpload'.slot \in DOMAIN imageUpload'.slides
  BY DEF ChoosesImage, UploadFails, NoUpload, SiteInv, SiteTypes, Designs
<1>3. SiteTypes'
  BY <1>1, <1>2 DEF SiteInv, SiteTypes, Newest, WriteIsTyped
<1>4. OpeningReadsLive' /\ DraftFollows' /\ LedgerFollows'
  BY <1>1 DEF SiteInv, OpeningReadsLive, DraftFollows, LedgerFollows, Newest, Live
<1> QED
  BY <1>3, <1>4 DEF SiteInv

LEMMA NoWriteIsTyped == NoWrite \in Writes /\ NoWrite.at = "idle"
BY DEF NoWrite, Writes

LEMMA BegunWrite ==
    ASSUME NEW d \in Designs
    PROVE  LET new == [NoWrite EXCEPT !.at = "asked", !.sent = d]
           IN  new \in Writes /\ new.at = "asked" /\ new.sent = d
BY DEF NoWrite, Writes

LEMMA BeginningKeepsSite ==
    ASSUME SiteInv, SavesSite \/ \E v \in 1..Newest : RestoresVersion(v)
    PROVE  SiteInv'
<1>1. /\ UNCHANGED <<versions, siteDraft, edited, imageUpload, opening, ledger, ledgerReads, unlisted,
                     crossed, foreign>>
      /\ \E d \in Designs :
            \/ /\ publishing.at = "idle" /\ publishing' = [NoWrite EXCEPT !.at = "asked", !.sent = d]
               /\ UNCHANGED restoring
            \/ /\ restoring.at = "idle" /\ restoring' = [NoWrite EXCEPT !.at = "asked", !.sent = d]
               /\ UNCHANGED publishing
      /\ opening.at = "idle"
  <2>1. CASE SavesSite
    BY <2>1 DEF SavesSite, SiteInv, SiteTypes, pageVars, ledgerVars
  <2>2. ASSUME NEW v \in 1..Newest, RestoresVersion(v)
        PROVE  <1>1!1 /\ <1>1!2 /\ <1>1!3
    <3>1. versions[v] \in Designs
      BY StoredDesign DEF SiteInv
    <3>2. v \in Nat /\ v # 0 /\ opening \in Openings
      BY DEF SiteInv, SiteTypes, Newest
    <3>3. opening.at = "idle"
      <4>1. v < ledger
        BY <2>2 DEF RestoresVersion
      <4>2. opening.at = "asked" => ledger = 0
        BY DEF SiteInv, OpeningReadsLive
      <4> QED
        BY <3>2, <4>1, <4>2 DEF Openings
    <3> QED
      BY <2>2, <3>1, <3>3 DEF RestoresVersion, pageVars, ledgerVars
  <2> QED
    BY <2>1, <2>2
<1>2. WriteIsTyped(publishing)' /\ WriteIsTyped(restoring)'
  BY <1>1, BegunWrite DEF SiteInv, SiteTypes, WriteIsTyped, Newest
<1>3. /\ publishing'.at = "done" => publishing' = publishing
      /\ restoring'.at = "done" => restoring' = restoring
      /\ publishing.at = "done" => publishing' = publishing
      /\ restoring.at = "done" => restoring' = restoring
  BY <1>1, BegunWrite
<1>4. SiteTypes'
  BY <1>1, <1>2 DEF SiteInv, SiteTypes, Newest
<1>5. OpeningReadsLive'
  BY <1>1 DEF OpeningReadsLive
<1>6. DraftFollows' /\ LedgerFollows'
  BY <1>1, <1>3 DEF SiteInv, DraftFollows, LedgerFollows, Newest, Live
<1> QED
  BY <1>4, <1>5, <1>6 DEF SiteInv

LEMMA DoneWrite ==
    ASSUME NEW w \in Writes, NEW n \in Nat
    PROVE  LET new == [w EXCEPT !.at = "done", !.made = n]
           IN  new \in Writes /\ new.at = "done" /\ new.made = n
BY DEF Writes

LEMMA HandledWrite ==
    ASSUME SiteInv, NEW w, NEW x, NEW o, WriteIsTyped(w), Handled(w, x, o)
    PROVE  /\ w.at = "asked"
           /\ \/ x = NoWrite /\ UNCHANGED <<versions, crossed, foreign>>
              \/ /\ \E d \in Designs : versions' = Append(versions, d)
                 /\ crossed' = (o.at # "idle")
                 /\ \/ /\ x \in Writes /\ x.at = "done" /\ x.made = Newest + 1
                       /\ foreign' = FALSE
                    \/ x = NoWrite /\ foreign' = TRUE
<1>1. w.at = "asked" /\ w \in Writes /\ w.sent \in Designs /\ Newest \in Nat
  BY DEF Handled, WriteIsTyped, SiteInv, SiteTypes, Newest
<1> DEFINE new == [w EXCEPT !.at = "done", !.made = Newest + 1]
<1>2. Newest + 1 \in Nat
  BY <1>1
<1>3. new \in Writes /\ new.at = "done" /\ new.made = Newest + 1
  BY <1>1, <1>2, DoneWrite
<1>4. \/ x = NoWrite /\ UNCHANGED <<versions, crossed, foreign>>
      \/ /\ versions' = Append(versions, w.sent) /\ crossed' = (o.at # "idle")
         /\ (x = new /\ foreign' = FALSE) \/ (x = NoWrite /\ foreign' = TRUE)
  BY DEF Handled, Stores
<1> HIDE DEF new
<1> QED
  BY <1>1, <1>3, <1>4

\* A version is added by one of the two writes, which is then done, or its answer is lost.
LEMMA AddedVersionKeepsSite ==
    ASSUME SiteInv, opening.at = "idle", crossed' \in BOOLEAN, foreign' \in BOOLEAN,
           UNCHANGED <<siteDraft, edited, imageUpload, opening, ledger, ledgerReads, unlisted>>,
           NEW d \in Designs, versions' = Append(versions, d),
           WriteIsTyped(publishing)', WriteIsTyped(restoring)',
           ~foreign' => \/ /\ publishing'.at = "done" /\ publishing'.made = Newest + 1
                           /\ ~crossed' => restoring'.at # "done"
                        \/ /\ restoring'.at = "done" /\ restoring'.made = Newest + 1
                           /\ ~crossed' => publishing'.at # "done"
    PROVE  SiteInv'
<1>1. versions' \in Seq(Designs) /\ Newest' = Newest + 1 /\ Newest \in Nat
  BY DEF SiteInv, SiteTypes, Newest
<1>2. SiteTypes'
  BY <1>1 DEF SiteInv, SiteTypes, Openings
<1>3. OpeningReadsLive' /\ DraftFollows'
  BY <1>1 DEF SiteInv, OpeningReadsLive, DraftFollows
<1>4. LedgerFollows'
  BY DEF SiteInv, LedgerFollows
<1> QED
  BY <1>2, <1>3, <1>4 DEF SiteInv

LEMMA WriteHandledKeepsSite ==
    ASSUME SiteInv, WriteHandled
    PROVE  SiteInv'
<1>1. /\ UNCHANGED <<siteDraft, edited, imageUpload, opening, ledger, ledgerReads, unlisted>>
      /\ \/ Handled(publishing, publishing', restoring) /\ UNCHANGED restoring
         \/ Handled(restoring, restoring', publishing) /\ UNCHANGED publishing
  BY DEF WriteHandled, pageVars, ledgerVars
<1>2. WriteIsTyped(publishing) /\ WriteIsTyped(restoring) /\ opening \in Openings
  BY DEF SiteInv, SiteTypes
<1>3. opening.at = "idle"
  BY <1>1, <1>2 DEF Openings, SiteInv, OpeningReadsLive, Handled
<1>4. ASSUME UNCHANGED <<versions, crossed, foreign>>,
             \/ publishing.at = "asked" /\ publishing' = NoWrite /\ UNCHANGED restoring
             \/ restoring.at = "asked" /\ restoring' = NoWrite /\ UNCHANGED publishing
      PROVE  SiteInv'
  <2>1. WriteIsTyped(publishing)' /\ WriteIsTyped(restoring)'
    BY <1>2, <1>4, NoWriteIsTyped DEF WriteIsTyped, Newest
  <2>2. SiteTypes'
    BY <1>1, <1>4, <2>1 DEF SiteInv, SiteTypes, Newest
  <2>3. OpeningReadsLive' /\ DraftFollows' /\ LedgerFollows'
    BY <1>1, <1>3, <1>4, NoWriteIsTyped
       DEF SiteInv, OpeningReadsLive, DraftFollows, LedgerFollows, Newest, Live
  <2> QED
    BY <2>2, <2>3 DEF SiteInv
<1>5. ASSUME NEW d \in Designs, versions' = Append(versions, d), crossed' \in BOOLEAN,
             \/ publishing'.at = "done" /\ publishing'.made = Newest + 1 /\ foreign' = FALSE
             \/ publishing' = NoWrite /\ foreign' = TRUE,
             publishing' \in Writes, UNCHANGED restoring, crossed' = (restoring.at # "idle")
      PROVE  SiteInv'
  <2>1. Newest' = Newest + 1 /\ Newest \in Nat
    BY <1>5 DEF SiteInv, SiteTypes, Newest
  <2>2. WriteIsTyped(publishing)' /\ WriteIsTyped(restoring)'
    BY <1>2, <1>5, <2>1, NoWriteIsTyped DEF WriteIsTyped
  <2> QED
    BY <1>1, <1>3, <1>5, <2>2, AddedVersionKeepsSite
<1>6. ASSUME NEW d \in Designs, versions' = Append(versions, d), crossed' \in BOOLEAN,
             \/ restoring'.at = "done" /\ restoring'.made = Newest + 1 /\ foreign' = FALSE
             \/ restoring' = NoWrite /\ foreign' = TRUE,
             restoring' \in Writes, UNCHANGED publishing, crossed' = (publishing.at # "idle")
      PROVE  SiteInv'
  <2>1. Newest' = Newest + 1 /\ Newest \in Nat
    BY <1>6 DEF SiteInv, SiteTypes, Newest
  <2>2. WriteIsTyped(publishing)' /\ WriteIsTyped(restoring)'
    BY <1>2, <1>6, <2>1, NoWriteIsTyped DEF WriteIsTyped
  <2> QED
    BY <1>1, <1>3, <1>6, <2>2, AddedVersionKeepsSite
<1>7. CASE Handled(publishing, publishing', restoring) /\ UNCHANGED restoring
  <2>1. \/ publishing' = NoWrite /\ UNCHANGED <<versions, crossed, foreign>>
        \/ /\ \E d \in Designs : versions' = Append(versions, d)
           /\ crossed' = (restoring.at # "idle")
           /\ \/ /\ publishing' \in Writes /\ publishing'.at = "done" /\ publishing'.made = Newest + 1
                 /\ foreign' = FALSE
              \/ publishing' = NoWrite /\ foreign' = TRUE
    BY <1>2, <1>7, HandledWrite
  <2>2. publishing.at = "asked"
    BY <1>2, <1>7, HandledWrite
  <2> QED
    BY <1>4, <1>5, <1>7, <2>1, <2>2, NoWriteIsTyped
<1>8. CASE Handled(restoring, restoring', publishing) /\ UNCHANGED publishing
  <2>1. \/ restoring' = NoWrite /\ UNCHANGED <<versions, crossed, foreign>>
        \/ /\ \E d \in Designs : versions' = Append(versions, d)
           /\ crossed' = (publishing.at # "idle")
           /\ \/ /\ restoring' \in Writes /\ restoring'.at = "done" /\ restoring'.made = Newest + 1
                 /\ foreign' = FALSE
              \/ restoring' = NoWrite /\ foreign' = TRUE
    BY <1>2, <1>8, HandledWrite
  <2>2. restoring.at = "asked"
    BY <1>2, <1>8, HandledWrite
  <2> QED
    BY <1>4, <1>6, <1>8, <2>1, <2>2, NoWriteIsTyped
<1> QED
  BY <1>1, <1>7, <1>8

\* What was stored becomes the draft, and one more read of the list is under way.
LEMMA TakesWrittenKeepsSite ==
    ASSUME SiteInv,
           \/ TakesWritten(publishing) /\ publishing' = NoWrite /\ UNCHANGED restoring
           \/ TakesWritten(restoring) /\ restoring' = NoWrite /\ UNCHANGED publishing
    PROVE  SiteInv'
<1>1. PICK w \in {publishing, restoring}, r \in LedgerReads :
          /\ w.at = "done" /\ siteDraft' = versions[w.made] /\ edited' = FALSE
          /\ ledgerReads[r] = Unasked /\ ledgerReads' = [ledgerReads EXCEPT ![r].at = "asked"]
          /\ unlisted' = \E q \in LedgerReads : ledgerReads[q] # Unasked
          /\ UNCHANGED <<versions, imageUpload, opening, ledger, crossed, foreign>>
          /\ \/ w = publishing /\ publishing' = NoWrite /\ UNCHANGED restoring
             \/ w = restoring /\ restoring' = NoWrite /\ UNCHANGED publishing
  BY DEF TakesWritten, TakesDesign
<1>2. WriteIsTyped(publishing) /\ WriteIsTyped(restoring) /\ opening \in Openings
      /\ ledgerReads \in [LedgerReads -> ReadsOfLedger] /\ Newest \in Nat
  BY DEF SiteInv, SiteTypes, Newest
<1>3. w.made \in 1..Newest /\ versions[w.made] \in Designs
  BY <1>1, <1>2, StoredDesign DEF WriteIsTyped, SiteInv
<1>4. opening.at = "idle"
  BY <1>1, <1>2 DEF Openings, SiteInv, OpeningReadsLive
<1> DEFINE new == [at |-> "asked", got |-> 0]
<1>5. /\ new \in ReadsOfLedger /\ new # Unasked /\ new.at = "asked"
      /\ ledgerReads' = [ledgerReads EXCEPT ![r] = new]
  <2>1. new \in ReadsOfLedger /\ new # Unasked /\ new.at = "asked"
    BY DEF ReadsOfLedger, Unasked
  <2>2. [ledgerReads[r] EXCEPT !.at = "asked"] = new
    BY <1>1 DEF Unasked
  <2> QED
    BY <1>1, <1>2, <2>1, <2>2
<1> HIDE DEF new
<1>6. /\ ledgerReads' \in [LedgerReads -> ReadsOfLedger] /\ ledgerReads'[r] = new
      /\ \A q \in LedgerReads \ {r} : ledgerReads'[q] = ledgerReads[q]
  BY <1>2, <1>5
<1>7. WriteIsTyped(publishing)' /\ WriteIsTyped(restoring)'
  BY <1>1, <1>2, NoWriteIsTyped DEF WriteIsTyped, Newest
<1>8. SiteTypes'
  BY <1>1, <1>3, <1>6, <1>7 DEF SiteInv, SiteTypes, Newest
<1>9. OpeningReadsLive'
  BY <1>1, <1>4 DEF OpeningReadsLive
<1>10. DraftFollows'
  BY <1>1, <1>3, <1>4, NoWriteIsTyped DEF SiteInv, DraftFollows, Newest, Live
<1>11. LedgerFollows'
  <2>1. ~unlisted' => \A q \in LedgerReads \ {r} : ledgerReads'[q] = Unasked
    BY <1>1, <1>6
  <2>2. Unasked.at # "read"
    BY DEF Unasked
  <2> QED
    BY <1>5, <1>6, <2>1, <2>2 DEF LedgerFollows
<1> QED
  BY <1>8, <1>9, <1>10, <1>11 DEF SiteInv

LEMMA LedgerReadKeepsSite ==
    ASSUME SiteInv, NEW r \in LedgerReads, LedgerHandled(r) \/ LedgerArrives(r) \/ LedgerLost(r)
    PROVE  SiteInv'
<1>1. UNCHANGED <<versions, siteDraft, edited, imageUpload, opening, publishing, restoring, crossed, foreign>>
  BY DEF LedgerHandled, LedgerArrives, LedgerLost, pageVars, writeVars
<1>2. opening \in Openings /\ ledgerReads \in [LedgerReads -> ReadsOfLedger] /\ Newest \in Nat
      /\ ledger \in Nat /\ unlisted \in BOOLEAN
  BY DEF SiteInv, SiteTypes, Newest
<1>3. ledgerReads[r] # Unasked
  BY DEF LedgerHandled, LedgerArrives, LedgerLost, Unasked
<1>4. opening.at = "idle"
  BY <1>2, <1>3 DEF Openings, SiteInv, OpeningReadsLive
<1>5. PICK new \in ReadsOfLedger :
          /\ ledgerReads' = [ledgerReads EXCEPT ![r] = new]
          /\ \/ ledgerReads[r].at = "asked" /\ new.at = "read" /\ new.got = Newest
                /\ UNCHANGED <<ledger, unlisted>>
             \/ ledgerReads[r].at = "read" /\ new = Unasked /\ ledger' = ledgerReads[r].got
                /\ UNCHANGED unlisted
             \/ new = Unasked /\ unlisted' = TRUE /\ UNCHANGED ledger
  BY <1>2 DEF LedgerHandled, LedgerArrives, LedgerLost, Unasked, ReadsOfLedger
<1>6. /\ ledgerReads' \in [LedgerReads -> ReadsOfLedger] /\ ledgerReads'[r] = new
      /\ \A q \in LedgerReads \ {r} : ledgerReads'[q] = ledgerReads[q]
  BY <1>2, <1>5
<1>7. ledger' \in Nat /\ unlisted' \in BOOLEAN
  <2>1. ledgerReads[r].got \in Nat
    BY <1>2 DEF ReadsOfLedger
  <2> QED
    BY <1>2, <1>5, <2>1
<1>8. SiteTypes'
  BY <1>1, <1>6, <1>7 DEF SiteInv, SiteTypes, Newest, WriteIsTyped
<1>9. OpeningReadsLive' /\ DraftFollows'
  BY <1>1, <1>4 DEF SiteInv, OpeningReadsLive, DraftFollows, Newest, Live
<1>10. LedgerFollows'
  <2> SUFFICES ASSUME ~unlisted'
               PROVE  LedgerFollows'
    BY DEF LedgerFollows
  <2>1. ~unlisted
    BY <1>5
  <2>2. \A q \in LedgerReads \ {r} : ledgerReads[q] = Unasked
    BY <1>3, <2>1 DEF SiteInv, LedgerFollows
  <2>3. Unasked.at # "read"
    BY DEF Unasked
  <2>4. ASSUME ~foreign, publishing.at # "done", restoring.at # "done"
        PROVE  /\ new.at = "read" => new.got = Newest
               /\ new = Unasked => ledger' = Newest
    BY <1>4, <1>5, <2>1, <2>3, <2>4 DEF SiteInv, LedgerFollows, Unasked
  <2> QED
    BY <1>1, <1>6, <2>2, <2>3, <2>4 DEF LedgerFollows, Newest
<1> QED
  BY <1>8, <1>9, <1>10 DEF SiteInv

LEMMA OtherAdminKeepsSite ==
    ASSUME SiteInv, OtherAdminPublishes
    PROVE  SiteInv'
<1>1. /\ versions' = Append(versions, [words |-> 4, slides |-> Live.slides])
      /\ foreign' = (foreign \/ opening.at = "idle" \/ opening.settings # 0)
      /\ unlisted' = (unlisted \/ opening.at = "idle" \/ opening.history # 0)
      /\ UNCHANGED <<siteDraft, edited, imageUpload, opening, ledger, ledgerReads, publishing, restoring,
                     crossed>>
  BY DEF OtherAdminPublishes, Stores, pageVars, writeVars
<1>2. Newest \in Nat /\ Newest >= 1 /\ Newest \in 1..Newest
  BY DEF SiteInv, SiteTypes, Newest
<1>3. [words |-> 4, slides |-> Live.slides] \in Designs
  BY <1>2, StoredDesign DEF SiteInv, Live, Designs
<1>4. versions' \in Seq(Designs) /\ Newest' = Newest + 1
  BY <1>1, <1>3 DEF SiteInv, SiteTypes, Newest
<1>5. WriteIsTyped(publishing)' /\ WriteIsTyped(restoring)'
  BY <1>1, <1>2, <1>4 DEF SiteInv, SiteTypes, WriteIsTyped
<1>6. SiteTypes'
  BY <1>1, <1>2, <1>4, <1>5 DEF SiteInv, SiteTypes, Openings
<1>7. OpeningReadsLive' /\ DraftFollows' /\ LedgerFollows'
  BY <1>1 DEF SiteInv, OpeningReadsLive, DraftFollows, LedgerFollows
<1> QED
  BY <1>6, <1>7 DEF SiteInv

LEMMA SiteStepKeepsInv ==
    ASSUME SiteInv, SiteDeskNext \/ UNCHANGED siteDeskVars
    PROVE  SiteInv'
<1>1. CASE UNCHANGED siteDeskVars
  <2>1. UNCHANGED <<versions, siteDraft, edited, imageUpload, opening, ledger, ledgerReads, unlisted,
                    publishing, restoring, crossed, foreign>>
    BY <1>1 DEF siteDeskVars, pageVars, ledgerVars, writeVars
  <2> QED
    BY <2>1 DEF SiteInv, SiteTypes, WriteIsTyped, OpeningReadsLive, DraftFollows, LedgerFollows, Newest, Live
<1>2. CASE SiteDeskNext
  BY <1>2, OpensKeepSite, PageLoadsKeepsSite, PageLoadFailsKeepsSite, EditsKeepSite, UploadsKeepSite,
     BeginningKeepsSite, WriteHandledKeepsSite, TakesWrittenKeepsSite, LedgerReadKeepsSite,
     OtherAdminKeepsSite
     DEF SiteDeskNext, SiteSaveArrives, RestoreArrives
<1> QED
  BY <1>1, <1>2

LEMMA SiteStart == SiteDeskInit => SiteInv
<1> SUFFICES ASSUME SiteDeskInit
             PROVE  SiteInv
  OBVIOUS
<1> DEFINE one == CHOOSE s \in Stories : TRUE
           other == CHOOSE s \in Stories : s # one
           carousel == <<Stock(one), Stock(other)>>
<1>1. one \in Stories /\ other \in Stories
  BY SiteAssumption
<1>2. Stock(one) \in Slides /\ Stock(other) \in Slides
  BY <1>1 DEF Stock, Slides
<1>3. /\ versions = [v \in 1..2 |-> [words |-> v, slides |-> carousel]]
      /\ siteDraft = [words |-> 0, slides |-> carousel]
  BY DEF SiteDeskInit
<1> HIDE DEF one, other
<1>4. carousel \in Carousels
  BY <1>2 DEF Carousels
<1> HIDE DEF carousel
<1>5. \A v \in 1..2 : [words |-> v, slides |-> carousel] \in Designs
  BY <1>4 DEF Designs
<1>6. versions \in Seq(Designs) /\ Newest = 2
  BY <1>3, <1>5 DEF Newest
<1>7. siteDraft \in Designs
  BY <1>3, <1>4 DEF Designs
<1>8. opening = [at |-> "asked", settings |-> 0, history |-> 0]
  BY DEF SiteDeskInit, NoOpening
<1>9. Unasked \in ReadsOfLedger
  BY DEF Unasked, ReadsOfLedger
<1>10. SiteTypes
  <2>1. /\ opening \in Openings /\ opening.at = "asked" /\ opening.settings <= Newest
        /\ opening.history <= Newest
    BY <1>6, <1>8 DEF Openings
  <2>2. WriteIsTyped(publishing) /\ WriteIsTyped(restoring)
    BY NoWriteIsTyped DEF SiteDeskInit, WriteIsTyped
  <2>3. ledgerReads \in [LedgerReads -> ReadsOfLedger] /\ ledger \in Nat /\ imageUpload.at = "idle"
    BY <1>9 DEF SiteDeskInit, NoUpload
  <2>4. edited = FALSE /\ foreign = FALSE /\ crossed = FALSE /\ unlisted = FALSE
    BY DEF SiteDeskInit
  <2>5. Newest >= 1 /\ (opening.at = "idle" => opening = NoOpening)
    BY <1>6, <2>1
  <2>6. imageUpload.at # "asked"
    BY <2>3
  <2> QED
    BY <1>6, <1>7, <2>1, <2>2, <2>3, <2>4, <2>5, <2>6, Zenon DEF SiteTypes
<1>11. OpeningReadsLive /\ DraftFollows /\ LedgerFollows
  BY <1>8, NoWriteIsTyped DEF SiteDeskInit, OpeningReadsLive, DraftFollows, LedgerFollows
<1> QED
  BY <1>10, <1>11 DEF SiteInv

LEMMA SiteInvHolds == SiteInv => SiteDeskIsTrue
<1> SUFFICES ASSUME SiteInv
             PROVE  SiteDeskIsTrue
  OBVIOUS
<1>1. ImagesStay
  <2>1. \A c \in Carousels : \A i \in DOMAIN c : c[i] \in Slides
    BY DEF Carousels
  <2>2. siteDraft \in Designs /\ \A v \in DOMAIN versions : versions[v] \in Designs
    BY DEF SiteInv, SiteTypes
  <2> QED
    BY <2>1, <2>2 DEF ImagesStay, Designs, Slides
<1>2. DeskShowsLive
  BY DEF SiteInv, SiteTypes, DraftFollows, LedgerFollows, DeskShowsLive, Unasked
<1> QED
  BY <1>1, <1>2 DEF SiteDeskIsTrue

\* The editor of the public site tells the truth: images stay on the slides they were chosen
\* for, and a page at rest holds the live design and marks it in its list, however edits,
\* publications, restorations and reads overlap (pages/admin/public-site.tsx).
THEOREM SiteDeskTellsTruth == SiteDeskSpec => []SiteDeskIsTrue
<1>1. SiteInv /\ [SiteDeskNext]_siteDeskVars => SiteInv'
  BY SiteStepKeepsInv
<1> QED
  BY <1>1, SiteStart, SiteInvHolds, PTL DEF SiteDeskSpec

-----------------------------------------------------------------------------
(* THE PAGE THAT SETS AN EVENT UP *)

ListPairs == [WizardLists -> SUBSET Items]
MaybeEvents == EventIds \cup {NoEvent}
MaybePosters == Posters \cup {NoPoster}
Pages == [open : BOOLEAN, ready : BOOLEAN, step : 1..3, event : MaybeEvents, poster : MaybePosters,
          upload : {"none", "busy", "error"}, lists : ListPairs]
KeptPages == [step : 1..3, event : MaybeEvents, poster : MaybePosters, lists : ListPairs]
StoredEvents == [made : {"no", "yes", "deleted"}, poster : MaybePosters, lists : ListPairs]
Saves == [at : {"sent", "done"}, kind : {"save"}, event : MaybeEvents, poster : MaybePosters,
          made : MaybeEvents]
Adds == [at : {"sent", "done"}, kind : {"add"}, event : EventIds, list : WizardLists, item : Items,
         made : MaybeEvents]
Removals == [at : {"sent", "done"}, kind : {"remove"}, event : EventIds, list : WizardLists, item : Items]
FoundDrafts == [at : {"found"}, dirty : BOOLEAN, poster : MaybePosters, lists : ListPairs]
OtherReads == [at : {"asked", "missing"}, dirty : BOOLEAN]
Tabs == [open : BOOLEAN, event : MaybeEvents]

WizardTypes ==
    /\ wizard \in Pages /\ draft \subseteq KeptPages /\ storedEvents \in [EventIds -> StoredEvents]
    /\ setupJob \in {NoChange} \cup Saves \cup Adds /\ removal \in {NoChange} \cup Removals
    /\ recovery \in {Calm} \cup OtherReads \cup FoundDrafts
    /\ strays \subseteq Saves \cup Adds \cup Removals /\ doubt \in BOOLEAN
    /\ otherTab \in Tabs

\* one draft is kept; a page that is closed asks for nothing, and one that is open is ready once
\* the draft was looked at; the later steps are those of an event, and a poster is uploaded in the
\* first
PageIsKept ==
    /\ \A d, k \in draft : d = k
    /\ \A d \in draft : d.step > 1 => d.event # NoEvent
    /\ ~wizard.open => /\ wizard = BlankDraft /\ setupJob = NoChange
                       /\ removal = NoChange /\ recovery = Calm
    /\ wizard.open => wizard.ready = ~Comparing
    /\ Comparing => wizard.event # NoEvent
    /\ wizard.step > 1 => wizard.event # NoEvent
    /\ wizard.upload = "busy" => wizard.step = 1 /\ ~Loading

\* an event that is known was made, and one that was made is not made again
EventsAreKnown ==
    /\ wizard.event # NoEvent => storedEvents[wizard.event].made # "no"
    /\ \A d \in draft : d.event # NoEvent => storedEvents[d.event].made # "no"
    /\ otherTab.event # NoEvent => storedEvents[otherTab.event].made # "no"
    /\ setupJob.at = "done" /\ setupJob.kind = "save" =>
           /\ setupJob.made \in EventIds /\ storedEvents[setupJob.made].made # "no"
           /\ setupJob.event # NoEvent => setupJob.made = setupJob.event
    /\ recovery.at = "missing" => storedEvents[wizard.event].made = "deleted"

\* a save is that of the event of the page, unless the page has lost it; a page in doubt is
\* compared once
JobFitsPage ==
    /\ Loading /\ setupJob.kind = "save" => wizard.event \in {setupJob.event, NoEvent}
    /\ Comparing => doubt /\ (Loading => setupJob.event = wizard.event)

\* what was read of the event is what is stored, unless something else was asked for
RecoveryFits ==
    recovery.at = "found" /\ ~recovery.dirty =>
        /\ strays = {} /\ ~Loading /\ removal.at = "idle"
        /\ recovery.poster = storedEvents[wizard.event].poster
        /\ recovery.lists = storedEvents[wizard.event].lists

AddedUnheard(l, i) ==
    setupJob.at = "done" /\ setupJob.kind = "add" /\ setupJob.list = l /\ setupJob.item = i
RemovedUnheard(l, i) == removal.at = "done" /\ removal.list = l /\ removal.item = i

\* Of a page without doubt: its requests are those of its event, of lines it does not show yet
\* or still shows; what is stored is what it shows, and what was added and removed without an
\* answer yet; and a save that was done stored its poster.
PageFollows ==
    wizard.open /\ ~doubt =>
        /\ wizard.event = NoEvent => wizard.lists = NoLists
        /\ Loading => setupJob.event = wizard.event
        /\ Loading /\ setupJob.kind = "save" => wizard.step = 1
        /\ Loading /\ setupJob.kind = "add" => setupJob.item \notin wizard.lists[setupJob.list]
        /\ removal.at # "idle" => /\ removal.event = wizard.event
                                  /\ removal.item \in wizard.lists[removal.list]
        /\ setupJob.at = "done" /\ setupJob.kind = "save" =>
               /\ storedEvents[setupJob.made].poster = setupJob.poster
               /\ setupJob.event = NoEvent => storedEvents[setupJob.made].lists = NoLists
        /\ wizard.event # NoEvent =>
               /\ \A l \in WizardLists, i \in Items :
                      i \in storedEvents[wizard.event].lists[l] <=>
                          (i \in wizard.lists[l] \/ AddedUnheard(l, i)) /\ ~RemovedUnheard(l, i)
               /\ wizard.step > 1 => wizard.poster = storedEvents[wizard.event].poster

WizardInv ==
    WizardTypes /\ PageIsKept /\ EventsAreKnown /\ JobFitsPage /\ RecoveryFits /\ PageFollows
    /\ NoForgottenEvent

LEMMA CalmIsIdle == Calm.at = "idle" /\ Calm.dirty = FALSE /\ NoChange.at = "idle"
BY DEF Calm, NoChange

LEMMA BlankPage ==
    /\ BlankDraft \in Pages /\ BlankDraft.open = FALSE /\ BlankDraft.ready = FALSE /\ BlankDraft.step = 1
    /\ BlankDraft.event = NoEvent /\ BlankDraft.poster = NoPoster /\ BlankDraft.upload = "none"
    /\ BlankDraft.lists = NoLists /\ NoLists \in ListPairs
BY DEF BlankDraft, Pages, MaybeEvents, MaybePosters, NoLists, ListPairs

LEMMA KeptPage ==
    ASSUME NEW w \in Pages
    PROVE  Kept(w) \in KeptPages /\ Kept(w).step = w.step /\ Kept(w).event = w.event
BY DEF Kept, Pages, KeptPages

\* a request that is under way is of one of the kinds
LEMMA JobKinds ==
    ASSUME WizardTypes
    PROVE  /\ Loading => setupJob \in Saves \/ setupJob \in Adds
           /\ Loading /\ setupJob.kind = "save" => setupJob \in Saves
           /\ Loading /\ setupJob.kind = "add" => setupJob \in Adds
           /\ removal.at # "idle" => removal \in Removals
           /\ Comparing => recovery \in OtherReads \/ recovery \in FoundDrafts
           /\ recovery.at = "found" => recovery \in FoundDrafts
           /\ recovery.at \in {"asked", "missing"} => recovery \in OtherReads
BY CalmIsIdle DEF WizardTypes, Loading, Comparing, Saves, Adds, Removals, OtherReads, FoundDrafts

\* What a request that is accepted does to its event.
LEMMA PerformedOnce ==
    ASSUME storedEvents \in [EventIds -> StoredEvents], NEW c \in Saves \cup Adds \cup Removals,
           NEW id \in EventIds, Performed(c, id)
    PROVE  \E e \in StoredEvents :
              /\ storedEvents' = [storedEvents EXCEPT ![id] = e] /\ e.made = "yes"
              /\ c.kind = "save" /\ c.event = NoEvent =>
                     storedEvents[id].made = "no" /\ e.poster = c.poster /\ e.lists = NoLists
              /\ c.kind # "save" \/ c.event # NoEvent => id = c.event /\ storedEvents[id].made = "yes"
              /\ c.kind = "save" /\ c.event # NoEvent =>
                     e.poster = c.poster /\ e.lists = storedEvents[id].lists
              /\ c.kind # "save" => e.poster = storedEvents[id].poster
              /\ c.kind = "add" => \A l \in WizardLists, i \in Items :
                     i \in e.lists[l] <=> i \in storedEvents[id].lists[l] \/ (l = c.list /\ i = c.item)
              /\ c.kind = "remove" => \A l \in WizardLists, i \in Items :
                     i \in e.lists[l] <=> i \in storedEvents[id].lists[l] /\ ~(l = c.list /\ i = c.item)
<1> DEFINE old == storedEvents[id]
<1>1. old \in StoredEvents
  OBVIOUS
<1>2. CASE c.kind = "save" /\ c.event = NoEvent
  <2> DEFINE e == [made |-> "yes", poster |-> c.poster, lists |-> NoLists]
  <2>1. c \in Saves
    BY <1>2 DEF Adds, Removals
  <2>2. e \in StoredEvents
    BY <2>1, BlankPage DEF Saves, StoredEvents
  <2>3. storedEvents' = [storedEvents EXCEPT ![id] = e] /\ storedEvents[id].made = "no"
    BY <1>2 DEF Performed
  <2> QED
    BY <1>2, <2>2, <2>3
<1>3. CASE c.kind = "save" /\ c.event # NoEvent
  <2> DEFINE e == [old EXCEPT !.poster = c.poster]
  <2>1. c \in Saves
    BY <1>3 DEF Adds, Removals
  <2>2. e \in StoredEvents /\ e.poster = c.poster /\ e.lists = old.lists /\ e.made = old.made
    BY <1>1, <2>1 DEF Saves, StoredEvents
  <2>3. storedEvents' = [storedEvents EXCEPT ![id] = e] /\ old.made = "yes" /\ id = c.event
    BY <1>3 DEF Performed
  <2> HIDE DEF e
  <2> QED
    BY <1>3, <2>2, <2>3
<1>4. CASE c.kind = "add"
  <2> DEFINE new == [old.lists EXCEPT ![c.list] = @ \cup {c.item}]
             e == [old EXCEPT !.lists = new]
  <2>1. c \in Adds
    BY <1>4 DEF Saves, Removals
  <2>2. /\ new \in ListPairs
        /\ \A l \in WizardLists, i \in Items : i \in new[l] <=> i \in old.lists[l] \/ (l = c.list /\ i = c.item)
    BY <1>1, <2>1 DEF Adds, StoredEvents, ListPairs
  <2>3. storedEvents' = [storedEvents EXCEPT ![id] = e] /\ old.made = "yes" /\ id = c.event
    BY <1>1, <1>4 DEF Performed, StoredEvents
  <2> HIDE DEF new
  <2>4. e \in StoredEvents /\ e.poster = old.poster /\ e.lists = new /\ e.made = old.made
    BY <1>1, <2>2 DEF StoredEvents
  <2> HIDE DEF e
  <2> QED
    BY <1>4, <2>2, <2>3, <2>4
<1>5. CASE c.kind = "remove"
  <2> DEFINE new == [old.lists EXCEPT ![c.list] = @ \ {c.item}]
             e == [old EXCEPT !.lists = new]
  <2>1. c \in Removals
    BY <1>5 DEF Saves, Adds
  <2>2. /\ new \in ListPairs
        /\ \A l \in WizardLists, i \in Items : i \in new[l] <=> i \in old.lists[l] /\ ~(l = c.list /\ i = c.item)
    BY <1>1, <2>1 DEF Removals, StoredEvents, ListPairs
  <2>3. storedEvents' = [storedEvents EXCEPT ![id] = e] /\ old.made = "yes" /\ id = c.event
    BY <1>1, <1>5 DEF Performed, StoredEvents
  <2> HIDE DEF new
  <2>4. e \in StoredEvents /\ e.poster = old.poster /\ e.lists = new /\ e.made = old.made
    BY <1>1, <2>2 DEF StoredEvents
  <2> HIDE DEF e
  <2> QED
    BY <1>5, <2>2, <2>3, <2>4
<1> QED
  BY <1>2, <1>3, <1>4, <1>5 DEF Saves, Adds, Removals

LEMMA ReadDirtied ==
    ASSUME WizardTypes, recovery' = [recovery EXCEPT !.dirty = Comparing]
    PROVE  /\ recovery' \in {Calm} \cup OtherReads \cup FoundDrafts /\ recovery'.at = recovery.at
           /\ recovery'.at = "found" => recovery'.dirty
           /\ recovery'.at = "idle" => recovery' = Calm
<1>1. CASE recovery = Calm
  BY <1>1, CalmIsIdle DEF Calm, Comparing
<1>2. CASE recovery \in OtherReads
  BY <1>2 DEF OtherReads, Comparing
<1>3. CASE recovery \in FoundDrafts
  <2>1. Comparing
    BY <1>3 DEF FoundDrafts, Comparing
  <2>2. recovery' \in FoundDrafts /\ recovery'.dirty /\ recovery'.at = recovery.at
    BY <1>3, <2>1 DEF FoundDrafts
  <2> QED
    BY <2>2 DEF FoundDrafts
<1> QED
  BY <1>1, <1>2, <1>3 DEF WizardTypes

\* an event is known to the browser by its draft, or some other draft was kept over it
KnownToDraft(id) == id \in displaced \/ \E d \in draft : d.event = id

\* A draft that is kept over another one leaves every event known that is not the writer's own.
LEMMA KeepsKnown ==
    ASSUME NEW d, NEW own, KeepsDraft(d, own), NEW id, KnownToDraft(id), id \in own => id = d.event
    PROVE  KnownToDraft(id)'
BY DEF KeepsDraft, KnownToDraft

\* A page that stays open is kept as it is shown, once the draft was looked at.
LEMMA ShowsPage ==
    ASSUME WizardTypes, PageIsKept, NEW w \in Pages, wizard.open, w.open,
           WizardShows(w) \/ (wizard' = w /\ UNCHANGED keptVars),
           w.ready = ~Comparing', Comparing' => Comparing /\ w.event = wizard.event,
           w.step > 1 => w.event # NoEvent, w.upload = "busy" => w.step = 1 /\ ~Loading',
           w.event = wizard.event \/ wizard.event = NoEvent \/ storedEvents[wizard.event].made # "yes"
    PROVE  /\ wizard' = w /\ draft' \subseteq KeptPages /\ PageIsKept'
           /\ \A d \in draft' : d.event = w.event \/ d \in draft
           /\ \A id \in EventIds : storedEvents[id].made = "yes" /\ KnownToDraft(id) => KnownToDraft(id)'
<1> DEFINE own == {w.event, wizard.event, NoEvent}
<1>1. wizard' = w /\ (UNCHANGED keptVars \/ KeepsDraft(Kept(w), own))
  BY DEF WizardShows
<1> HIDE DEF own
<1>2. Kept(w) \in KeptPages /\ Kept(w).step = w.step /\ Kept(w).event = w.event
  BY KeptPage
<1>3. draft' = draft \/ draft' = {Kept(w)}
  BY <1>1 DEF KeepsDraft, keptVars
<1>4. draft' \subseteq KeptPages /\ \A d \in draft' : d.event = w.event \/ d \in draft
  BY <1>2, <1>3 DEF WizardTypes
<1>5. (\A d, k \in draft' : d = k) /\ \A d \in draft' : d.step > 1 => d.event # NoEvent
  BY <1>2, <1>3 DEF PageIsKept
<1>6. w.open = TRUE /\ w.ready \in BOOLEAN
  BY DEF Pages
<1>7. Comparing' => w.event # NoEvent
  BY DEF PageIsKept
<1>8. ASSUME NEW id \in EventIds, storedEvents[id].made = "yes", KnownToDraft(id)
      PROVE  KnownToDraft(id)'
  <2>1. CASE UNCHANGED keptVars
    BY <1>8, <2>1 DEF KnownToDraft, keptVars
  <2>2. CASE KeepsDraft(Kept(w), own)
    <3>1. id \in own => id = Kept(w).event
      BY <1>2, <1>8, WizardAssumption DEF own
    <3> QED
      BY <1>8, <2>2, <3>1, KeepsKnown
  <2> QED
    BY <1>1, <2>1, <2>2
<1> QED
  BY <1>1, <1>4, <1>5, <1>6, <1>7, <1>8 DEF PageIsKept

\* what a page does to its poster, or where it stands
LEMMA PageChangeKeepsWizard ==
    ASSUME WizardInv, NEW w \in Pages, wizard.open, w.open, w.ready = wizard.ready,
           WizardShows(w) \/ (wizard' = w /\ UNCHANGED keptVars),
           w.event = wizard.event, w.lists = wizard.lists, w.step = wizard.step \/ wizard.step > 1,
           w.step > 1 => w.poster = wizard.poster,
           w.upload = "busy" => w.step = 1 /\ ~Loading,
           recovery' = recovery \/ recovery' = [recovery EXCEPT !.dirty = Comparing],
           UNCHANGED <<storedEvents, setupJob, removal, strays, forgotten, finished, doubt, otherTab>>
    PROVE  WizardInv'
<1>1. /\ recovery' \in {Calm} \cup OtherReads \cup FoundDrafts /\ recovery'.at = recovery.at
      /\ recovery' = recovery \/ (recovery'.at = "found" => recovery'.dirty)
      /\ Comparing' = Comparing
  BY ReadDirtied DEF WizardInv, WizardTypes, Comparing
<1>2. w.step > 1 => w.event # NoEvent
  BY DEF WizardInv, PageIsKept, WizardTypes, Pages
<1>3. w.ready = ~Comparing'
  BY <1>1 DEF WizardInv, PageIsKept
<1>4. /\ wizard' = w /\ draft' \subseteq KeptPages /\ PageIsKept'
      /\ \A d \in draft' : d.event = w.event \/ d \in draft
      /\ \A id \in EventIds : storedEvents[id].made = "yes" /\ KnownToDraft(id) => KnownToDraft(id)'
  BY <1>1, <1>2, <1>3, ShowsPage DEF WizardInv, Loading
<1>5. WizardTypes'
  BY <1>1, <1>4 DEF WizardInv, WizardTypes
<1>6. EventsAreKnown' /\ JobFitsPage'
  BY <1>1, <1>4 DEF WizardInv, EventsAreKnown, JobFitsPage, Loading
<1>7. RecoveryFits'
  BY <1>1, <1>4 DEF WizardInv, RecoveryFits, Loading
<1>8. PageFollows'
  BY <1>4 DEF WizardInv, PageFollows, Loading, AddedUnheard, RemovedUnheard
<1>9. NoForgottenEvent'
  BY <1>4 DEF WizardInv, NoForgottenEvent, KnownToDraft, Made
<1> QED
  BY <1>4, <1>5, <1>6, <1>7, <1>8, <1>9 DEF WizardInv

LEMMA PageStepsKeepWizard ==
    ASSUME WizardInv, Uploads \/ UploadEnds \/ DropsPoster \/ EditsForm \/ StepsBack \/ StepsOn
    PROVE  WizardInv'
<1>1. /\ wizard \in Pages /\ wizard.step \in 1..3
      /\ UNCHANGED <<storedEvents, setupJob, removal, strays, forgotten, finished, doubt, otherTab>>
      /\ recovery' = recovery \/ recovery' = [recovery EXCEPT !.dirty = Comparing]
      /\ wizard.upload = "busy" => wizard.step = 1 /\ ~Loading /\ wizard.open
  BY BlankPage
    DEF WizardInv, WizardTypes, Pages, PageIsKept, Uploads, UploadEnds, DropsPoster, StepsBack, StepsOn,
        EditsForm, otherTabVars
<1>2. CASE Uploads
  <2> DEFINE w == [wizard EXCEPT !.upload = "busy"]
  <2>1. w \in Pages /\ w.open = wizard.open /\ w.ready = wizard.ready /\ w.event = wizard.event
        /\ w.lists = wizard.lists /\ w.step = wizard.step /\ w.poster = wizard.poster
    BY <1>1 DEF Pages
  <2>2. wizard.open /\ wizard' = w /\ UNCHANGED keptVars /\ wizard.step = 1 /\ ~Loading
    BY <1>2 DEF Uploads, PosterFree, keptVars
  <2> HIDE DEF w
  <2> QED
    BY <1>1, <2>1, <2>2, PageChangeKeepsWizard
<1>3. CASE UploadEnds
  <2> DEFINE pageWith(u, p) == [wizard EXCEPT !.upload = u, !.poster = p]
  <2>1. PICK u \in {"none", "error"}, p \in MaybePosters :
            WizardShows(pageWith(u, p)) \/ (wizard' = pageWith(u, p) /\ UNCHANGED keptVars)
    <3>1. ASSUME wizard' = [wizard EXCEPT !.upload = "error"]
          PROVE  wizard' = pageWith("error", wizard.poster)
      BY <1>1, <3>1 DEF Pages
    <3>2. wizard.poster \in MaybePosters
      BY <1>1 DEF Pages
    <3> QED
      BY <1>3, <3>1, <3>2 DEF UploadEnds, MaybePosters
  <2> DEFINE w == [wizard EXCEPT !.upload = u, !.poster = p]
  <2>2. w \in Pages /\ w.open = wizard.open /\ w.ready = wizard.ready /\ w.event = wizard.event
        /\ w.lists = wizard.lists /\ w.step = wizard.step /\ w.upload # "busy"
    BY <1>1 DEF Pages
  <2>3. wizard.open /\ wizard.step = 1
    BY <1>1, <1>3 DEF UploadEnds
  <2>4. WizardShows(w) \/ (wizard' = w /\ UNCHANGED keptVars)
    BY <2>1
  <2> HIDE DEF w
  <2>5. ~(w.step > 1) /\ w.upload # "busy"
    BY <2>2, <2>3
  <2> QED
    BY <1>1, <2>2, <2>3, <2>4, <2>5, PageChangeKeepsWizard
<1>4. CASE DropsPoster
  <2> DEFINE w == [wizard EXCEPT !.upload = "none", !.poster = NoPoster]
  <2>1. w \in Pages /\ w.open = wizard.open /\ w.ready = wizard.ready /\ w.event = wizard.event
        /\ w.lists = wizard.lists /\ w.step = wizard.step /\ w.upload = "none"
    BY <1>1 DEF Pages, MaybePosters
  <2>2. wizard.open /\ WizardShows(w) /\ wizard.step = 1
    BY <1>4 DEF DropsPoster, PosterFree
  <2> HIDE DEF w
  <2>3. ~(w.step > 1) /\ w.upload # "busy"
    BY <2>1, <2>2
  <2> QED
    BY <1>1, <2>1, <2>2, <2>3, PageChangeKeepsWizard
<1>5. ASSUME NEW n \in 1..3, wizard.open, wizard.step > 1, WizardShows([wizard EXCEPT !.step = n])
      PROVE  WizardInv'
  <2> DEFINE w == [wizard EXCEPT !.step = n]
  <2>1. w \in Pages /\ w.open = wizard.open /\ w.ready = wizard.ready /\ w.event = wizard.event
        /\ w.lists = wizard.lists /\ w.upload = wizard.upload /\ w.poster = wizard.poster
    BY <1>1 DEF Pages
  <2>2. WizardShows(w) /\ w.upload # "busy"
    BY <1>1, <1>5, <2>1
  <2> HIDE DEF w
  <2> QED
    BY <1>1, <1>5, <2>1, <2>2, PageChangeKeepsWizard
<1>6. CASE StepsBack
  BY <1>1, <1>5, <1>6 DEF StepsBack
<1>7. CASE StepsOn
  BY <1>1, <1>5, <1>7 DEF StepsOn
<1>8. CASE EditsForm
  BY <1>1, <1>8, PageChangeKeepsWizard DEF EditsForm
<1> QED
  BY <1>2, <1>3, <1>4, <1>6, <1>7, <1>8

LEMMA AskKeepsWizard ==
    ASSUME WizardInv, wizard.open, ~Loading, NEW c \in Saves \cup Adds, c.at = "sent",
           c.event = wizard.event, Ask(c),
           c.kind = "save" => wizard.step = 1 /\ wizard.upload = "none",
           c.kind = "add" => wizard.step > 1 /\ c.item \notin wizard.lists[c.list]
    PROVE  WizardInv'
<1>1. /\ setupJob' = c /\ recovery' = [recovery EXCEPT !.dirty = Comparing]
      /\ UNCHANGED <<wizard, draft, displaced, otherTab, storedEvents, removal, strays, forgotten, finished, doubt>>
  BY DEF Ask, keptVars, otherTabVars
<1>2. /\ recovery' \in {Calm} \cup OtherReads \cup FoundDrafts /\ recovery'.at = recovery.at
      /\ recovery'.at = "found" => recovery'.dirty
      /\ recovery'.at = "idle" => recovery' = Calm
  BY <1>1, ReadDirtied DEF WizardInv
<1>3. wizard.upload # "busy"
  <2>1. wizard.step = 1 \/ wizard.step > 1
    BY DEF WizardInv, WizardTypes, Pages
  <2> QED
    BY <2>1 DEF WizardInv, PageIsKept, Saves, Adds
<1>4. WizardTypes'
  BY <1>1, <1>2 DEF WizardInv, WizardTypes
<1>5. PageIsKept'
  BY <1>1, <1>2, <1>3 DEF WizardInv, PageIsKept, Comparing
<1>6. EventsAreKnown' /\ JobFitsPage'
  BY <1>1, <1>2 DEF WizardInv, EventsAreKnown, JobFitsPage, Comparing
<1>7. RecoveryFits'
  BY <1>2 DEF RecoveryFits
<1>8. PageFollows'
  BY <1>1, CalmIsIdle DEF WizardInv, PageFollows, Loading, AddedUnheard, RemovedUnheard, Saves, Adds
<1>9. NoForgottenEvent'
  BY <1>1 DEF WizardInv, NoForgottenEvent, Made, Loading
<1> QED
  BY <1>4, <1>5, <1>6, <1>7, <1>8, <1>9 DEF WizardInv

LEMMA AsksKeepWizard ==
    ASSUME WizardInv, SubmitsBasics \/ \E i \in Items : AddsItem(i)
    PROVE  WizardInv'
<1>1. wizard \in Pages /\ (wizard.step > 1 => wizard.event # NoEvent)
  BY DEF WizardInv, WizardTypes, PageIsKept
<1>2. CASE SubmitsBasics
  <2> DEFINE c == [at |-> "sent", kind |-> "save", event |-> wizard.event, poster |-> wizard.poster,
                   made |-> NoEvent]
  <2>1. c \in Saves /\ c.at = "sent" /\ c.event = wizard.event /\ c.kind = "save"
    BY <1>1 DEF Saves, Pages, MaybeEvents
  <2>2. Ask(c) /\ wizard.open /\ wizard.step = 1 /\ ~Loading /\ wizard.upload = "none"
    BY <1>2 DEF SubmitsBasics
  <2> HIDE DEF c
  <2> QED
    BY <2>1, <2>2, AskKeepsWizard
<1>3. ASSUME NEW i \in Items, AddsItem(i)
      PROVE  WizardInv'
  <2> DEFINE c == [at |-> "sent", kind |-> "add", event |-> wizard.event, list |-> ListOfStep, item |-> i,
                   made |-> NoEvent]
  <2>1. wizard.open /\ wizard.step > 1 /\ ~Loading /\ Ask(c) /\ i \notin wizard.lists[ListOfStep]
    BY <1>3 DEF AddsItem
  <2>2. ListOfStep \in WizardLists
    BY DEF ListOfStep, WizardLists
  <2>3. wizard.event \in EventIds
    BY <1>1, <2>1 DEF Pages, MaybeEvents
  <2>4. c \in Adds /\ c.at = "sent" /\ c.event = wizard.event /\ c.kind = "add" /\ c.list = ListOfStep
        /\ c.item = i
    BY <2>2, <2>3 DEF Adds, MaybeEvents
  <2> HIDE DEF c
  <2> QED
    BY <2>1, <2>4, AskKeepsWizard
<1> QED
  BY <1>2, <1>3

LEMMA RemovesItemKeepsWizard ==
    ASSUME WizardInv, NEW i \in Items, RemovesItem(i)
    PROVE  WizardInv'
<1> DEFINE c == [at |-> "sent", kind |-> "remove", event |-> wizard.event, list |-> ListOfStep, item |-> i]
<1>1. /\ wizard.open /\ wizard.step > 1 /\ removal.at = "idle" /\ i \in wizard.lists[ListOfStep]
      /\ removal' = c /\ recovery' = [recovery EXCEPT !.dirty = Comparing]
      /\ UNCHANGED <<wizard, draft, displaced, otherTab, storedEvents, setupJob, strays, forgotten, finished, doubt>>
  BY DEF RemovesItem, keptVars, otherTabVars
<1>2. /\ recovery' \in {Calm} \cup OtherReads \cup FoundDrafts /\ recovery'.at = recovery.at
      /\ recovery'.at = "found" => recovery'.dirty
      /\ recovery'.at = "idle" => recovery' = Calm
  BY <1>1, ReadDirtied DEF WizardInv
<1>3. wizard.event \in EventIds /\ ListOfStep \in WizardLists
  BY <1>1 DEF WizardInv, WizardTypes, PageIsKept, Pages, MaybeEvents, ListOfStep, WizardLists
<1>4. c \in Removals /\ c.at = "sent" /\ c.event = wizard.event /\ c.list = ListOfStep /\ c.item = i
  BY <1>3 DEF Removals
<1> HIDE DEF c
<1>5. WizardTypes'
  BY <1>1, <1>2, <1>4 DEF WizardInv, WizardTypes
<1>6. PageIsKept'
  BY <1>1, <1>2 DEF WizardInv, PageIsKept, Comparing, Loading
<1>7. EventsAreKnown' /\ JobFitsPage'
  BY <1>1, <1>2 DEF WizardInv, EventsAreKnown, JobFitsPage, Comparing, Loading
<1>8. RecoveryFits'
  BY <1>2 DEF RecoveryFits
<1>9. PageFollows'
  BY <1>1, <1>4 DEF WizardInv, PageFollows, Loading, AddedUnheard, RemovedUnheard
<1>10. NoForgottenEvent'
  BY <1>1 DEF WizardInv, NoForgottenEvent, KnownToDraft, Made
<1> QED
  BY <1>5, <1>6, <1>7, <1>8, <1>9, <1>10 DEF WizardInv

LEMMA OpensKeepsWizard ==
    ASSUME WizardInv, OpensWizard
    PROVE  WizardInv'
<1>1. /\ ~wizard.open /\ wizard = BlankDraft /\ setupJob = NoChange /\ removal = NoChange
      /\ recovery = Calm
      /\ UNCHANGED <<storedEvents, setupJob, removal, strays, forgotten, finished, otherTab>>
  BY DEF OpensWizard, WizardInv, PageIsKept, otherTabVars
<1>2. Loading' = FALSE /\ removal'.at = "idle" /\ setupJob'.at = "idle"
  BY <1>1, CalmIsIdle DEF Loading
<1>3. ASSUME NEW w \in Pages, w.open, w.upload = "none", w.event # NoEvent => \E d \in draft : d.event = w.event,
             w.step > 1 => w.event # NoEvent, \A d \in draft : d.event # NoEvent => d.event = w.event,
             WizardShows(w), recovery' = [Calm EXCEPT !.at = IF w.ready THEN "idle" ELSE "asked"],
             w.ready <=> w.event = NoEvent, doubt' \in BOOLEAN,
             w.event # NoEvent \/ w.lists # NoLists => doubt'
      PROVE  WizardInv'
  <2>1. /\ recovery'.at = (IF w.ready THEN "idle" ELSE "asked") /\ recovery' \in {Calm} \cup OtherReads
        /\ Comparing' = ~w.ready /\ (w.ready => recovery' = Calm) /\ w.ready \in BOOLEAN /\ w.open = TRUE
        /\ recovery'.at # "found" /\ recovery'.at # "missing"
    BY <1>3 DEF Calm, OtherReads, Comparing, Pages
  <2>2. wizard' = w /\ (draft' = draft \/ draft' = {Kept(w)})
    BY <1>3 DEF WizardShows, KeepsDraft, keptVars
  <2>3. Kept(w) \in KeptPages /\ Kept(w).step = w.step /\ Kept(w).event = w.event
    BY KeptPage
  <2>4. WizardTypes'
    BY <1>1, <1>3, <2>1, <2>2, <2>3 DEF WizardInv, WizardTypes
  <2>5. PageIsKept'
    <3>1. (\A d, k \in draft' : d = k) /\ \A d \in draft' : d.step > 1 => d.event # NoEvent
      BY <1>3, <2>2, <2>3 DEF WizardInv, PageIsKept
    <3>2. ~w.ready => w.event # NoEvent
      BY <1>3
    <3> QED
      BY <1>3, <2>1, <2>2, <3>1, <3>2 DEF PageIsKept
  <2>6. EventsAreKnown'
    BY <1>1, <1>2, <1>3, <2>1, <2>2, <2>3 DEF WizardInv, EventsAreKnown
  <2>7. JobFitsPage' /\ RecoveryFits'
    BY <1>2, <1>3, <2>1, <2>2 DEF JobFitsPage, RecoveryFits
  <2>8. PageFollows'
    BY <1>2, <1>3, <2>2 DEF PageFollows
  <2>9. NoForgottenEvent'
    <3>1. wizard.event = NoEvent
      BY <1>1, BlankPage
    <3>2. ASSUME NEW id \in EventIds, KnownToDraft(id)
          PROVE  KnownToDraft(id)'
      <4>1. CASE UNCHANGED keptVars
        BY <3>2, <4>1 DEF KnownToDraft, keptVars
      <4>2. CASE KeepsDraft(Kept(w), {w.event, wizard.event, NoEvent})
        <5>1. id \in {w.event, wizard.event, NoEvent} => id = Kept(w).event
          BY <2>3, <3>1, WizardAssumption
        <5> QED
          BY <3>2, <4>2, <5>1, KeepsKnown
      <4> QED
        BY <1>3, <4>1, <4>2 DEF WizardShows
    <3> QED
      BY <1>1, <3>2 DEF WizardInv, NoForgottenEvent, KnownToDraft, Made
  <2> QED
    BY <2>4, <2>5, <2>6, <2>7, <2>8, <2>9 DEF WizardInv
<1>4. CASE \E d \in draft : Meaningful(d)
  <2> DEFINE d == CHOOSE k \in draft : TRUE
             w == [BlankDraft EXCEPT !.open = TRUE, !.ready = d.event = NoEvent, !.step = d.step,
                               !.event = d.event, !.poster = d.poster, !.lists = d.lists]
  <2>1. d \in draft /\ d \in KeptPages
    BY <1>4 DEF WizardInv, WizardTypes
  <2>2. WizardShows(w) /\ recovery' = [Calm EXCEPT !.at = IF w.ready THEN "idle" ELSE "asked"]
        /\ doubt' = (d.event # NoEvent \/ d.lists # NoLists)
    BY <1>1, <1>4 DEF OpensWizard, Calm
  <2> HIDE DEF d
  <2>3. w \in Pages /\ w.open = TRUE /\ w.upload = "none" /\ w.step = d.step /\ w.event = d.event
        /\ w.lists = d.lists /\ w.ready = (d.event = NoEvent)
    BY <2>1 DEF KeptPages, Pages, BlankDraft
  <2> HIDE DEF w
  <2>4. (\A k \in draft : k = d) /\ (d.step > 1 => d.event # NoEvent)
    BY <2>1 DEF WizardInv, PageIsKept
  <2> QED
    BY <1>3, <2>1, <2>2, <2>3, <2>4
<1>5. CASE ~\E d \in draft : Meaningful(d)
  <2> DEFINE w == [BlankDraft EXCEPT !.open = TRUE, !.ready = TRUE]
  <2>1. w \in Pages /\ w.open = TRUE /\ w.upload = "none" /\ w.step = 1 /\ w.event = NoEvent
        /\ w.lists = NoLists /\ w.ready = TRUE
    BY BlankPage DEF Pages, BlankDraft
  <2>2. WizardShows(w) /\ recovery' = Calm /\ doubt' = FALSE
    BY <1>1, <1>5 DEF OpensWizard
  <2> HIDE DEF w
  <2>3. \A d \in draft : d.event = NoEvent
    BY <1>5 DEF Meaningful
  <2>4. recovery' = [Calm EXCEPT !.at = IF w.ready THEN "idle" ELSE "asked"]
    BY <2>1, <2>2 DEF Calm
  <2>5. doubt' \in BOOLEAN /\ ~(w.event # NoEvent \/ w.lists # NoLists)
    BY <2>1, <2>2
  <2>6. w.ready /\ w.event = NoEvent
    BY <2>1
  <2>7. ~(w.step > 1)
    BY <2>1
  <2> QED
    BY <1>3, <2>1, <2>2, <2>3, <2>4, <2>5, <2>6, <2>7
<1> QED
  BY <1>4, <1>5

LEMMA RecoveryHandledKeepsWizard ==
    ASSUME WizardInv, RecoveryHandled
    PROVE  WizardInv'
<1>1. /\ recovery.at = "asked" /\ recovery \in OtherReads /\ wizard \in Pages /\ Comparing
      /\ UNCHANGED <<wizard, draft, displaced, otherTab, storedEvents, setupJob, removal, strays,
                     forgotten, finished, doubt>>
  BY JobKinds DEF RecoveryHandled, WizardInv, WizardTypes, Comparing, keptVars, otherTabVars
<1>2. wizard.event \in EventIds /\ storedEvents[wizard.event].made # "no"
      /\ storedEvents[wizard.event] \in StoredEvents
  BY <1>1 DEF WizardInv, WizardTypes, PageIsKept, EventsAreKnown, Pages, MaybeEvents
<1>3. /\ recovery' \in OtherReads \cup FoundDrafts /\ Comparing'
      /\ recovery'.at = "missing" => storedEvents[wizard.event].made = "deleted"
      /\ recovery'.at = "found" /\ ~recovery'.dirty =>
             /\ strays = {} /\ ~Loading /\ removal.at = "idle"
             /\ recovery'.poster = storedEvents[wizard.event].poster
             /\ recovery'.lists = storedEvents[wizard.event].lists
  <2>1. CASE storedEvents[wizard.event].made = "yes"
    <3> DEFINE inUse == Loading \/ removal.at # "idle" \/ strays # {}
               new == [at |-> "found", dirty |-> inUse, poster |-> storedEvents[wizard.event].poster,
                       lists |-> storedEvents[wizard.event].lists]
    <3>1. recovery' = new
      BY <2>1 DEF RecoveryHandled
    <3>2. inUse \in BOOLEAN
      BY DEF Loading
    <3> HIDE DEF inUse
    <3>3. new \in FoundDrafts /\ new.at = "found" /\ new.dirty = inUse
      BY <1>2, <3>2 DEF FoundDrafts, StoredEvents
    <3>4. new.poster = storedEvents[wizard.event].poster /\ new.lists = storedEvents[wizard.event].lists
      OBVIOUS
    <3> HIDE DEF new
    <3> QED
      BY <3>1, <3>3, <3>4 DEF inUse, Comparing
  <2>2. CASE storedEvents[wizard.event].made # "yes"
    BY <1>1, <1>2, <2>2 DEF RecoveryHandled, OtherReads, StoredEvents, Comparing
  <2> QED
    BY <2>1, <2>2
<1>4. WizardTypes'
  BY <1>1, <1>3 DEF WizardInv, WizardTypes
<1>5. PageIsKept'
  <2>1. wizard.open
    BY <1>1, CalmIsIdle DEF WizardInv, PageIsKept, Comparing
  <2>2. Loading' = Loading
    BY <1>1 DEF Loading
  <2> QED
    BY <1>1, <1>3, <2>1, <2>2 DEF WizardInv, PageIsKept
<1>6. EventsAreKnown' /\ JobFitsPage' /\ RecoveryFits'
  BY <1>1, <1>3 DEF WizardInv, EventsAreKnown, JobFitsPage, RecoveryFits, Loading
<1>7. PageFollows'
  BY <1>1 DEF WizardInv, PageFollows, Loading, AddedUnheard, RemovedUnheard
<1>8. NoForgottenEvent'
  BY <1>1 DEF WizardInv, NoForgottenEvent, KnownToDraft, Made
<1> QED
  BY <1>4, <1>5, <1>6, <1>7, <1>8 DEF WizardInv

LEMMA RecoveryEndsKeepsWizard ==
    ASSUME WizardInv, RecoveryArrives \/ RecoveryFails
    PROVE  WizardInv'
<1>1. /\ Comparing /\ recovery' = Calm /\ wizard \in Pages
      /\ UNCHANGED <<storedEvents, setupJob, removal, strays, forgotten, finished, otherTab>>
  BY CalmIsIdle DEF RecoveryArrives, RecoveryFails, Comparing, WizardInv, WizardTypes, otherTabVars
<1>2. /\ wizard.open /\ doubt /\ wizard.event \in EventIds /\ (Loading => setupJob.event = wizard.event)
      /\ ~Comparing' /\ recovery'.at = "idle" /\ Loading' = Loading /\ recovery' = Calm
  BY <1>1, BlankPage, CalmIsIdle
     DEF WizardInv, PageIsKept, JobFitsPage, Comparing, Loading, Pages, MaybeEvents
<1>3. ASSUME NEW w \in Pages, w.open, w.ready, WizardShows(w), w.upload = wizard.upload,
             w.step = 1 \/ (w.step = wizard.step /\ w.event = wizard.event),
             \/ w.event = wizard.event
             \/ w.event = NoEvent /\ storedEvents[wizard.event].made = "deleted"
      PROVE  /\ wizard' = w /\ (WizardTypes' \/ doubt' \notin BOOLEAN)
             /\ PageIsKept' /\ EventsAreKnown' /\ JobFitsPage' /\ RecoveryFits' /\ NoForgottenEvent'
  <2>1. w.step > 1 => w.event # NoEvent
    BY <1>3 DEF WizardInv, PageIsKept
  <2>2. w.upload = "busy" => w.step = 1 /\ ~Loading'
    BY <1>2, <1>3 DEF WizardInv, PageIsKept
  <2>3. w.ready = ~Comparing'
    BY <1>2, <1>3 DEF Pages
  <2>4. /\ wizard' = w /\ draft' \subseteq KeptPages /\ PageIsKept'
        /\ \A d \in draft' : d.event = w.event \/ d \in draft
        /\ \A id \in EventIds : storedEvents[id].made = "yes" /\ KnownToDraft(id) => KnownToDraft(id)'
    BY <1>2, <1>3, <2>1, <2>2, <2>3, ShowsPage DEF WizardInv
  <2>5. WizardTypes' \/ doubt' \notin BOOLEAN
    BY <1>1, <2>4 DEF WizardInv, WizardTypes
  <2>6. EventsAreKnown' /\ JobFitsPage' /\ RecoveryFits'
    BY <1>1, <1>2, <1>3, <2>4, CalmIsIdle
       DEF WizardInv, EventsAreKnown, JobFitsPage, RecoveryFits, Loading
  <2>7. NoForgottenEvent'
    BY <1>1, <1>2, <1>3, <2>4 DEF WizardInv, NoForgottenEvent, KnownToDraft, Made
  <2> QED
    BY <2>4, <2>5, <2>6, <2>7
<1>4. CASE RecoveryArrives /\ recovery.at = "found"
  <2> DEFINE w == [wizard EXCEPT !.ready = TRUE, !.poster = recovery.poster, !.lists = recovery.lists]
  <2>1. recovery \in FoundDrafts /\ WizardShows(w)
        /\ doubt' = (recovery.dirty \/ Loading \/ removal.at # "idle")
    BY <1>4, JobKinds DEF RecoveryArrives, WizardInv
  <2>2. w \in Pages /\ w.open = wizard.open /\ w.ready = TRUE /\ w.event = wizard.event /\ w.step = wizard.step
        /\ w.upload = wizard.upload /\ w.poster = recovery.poster /\ w.lists = recovery.lists
    BY <1>1, <2>1 DEF Pages, FoundDrafts
  <2> HIDE DEF w
  <2>3. /\ wizard' = w /\ (WizardTypes' \/ doubt' \notin BOOLEAN)
        /\ PageIsKept' /\ EventsAreKnown' /\ JobFitsPage' /\ RecoveryFits' /\ NoForgottenEvent'
    BY <1>2, <1>3, <2>1, <2>2
  <2>4. doubt' \in BOOLEAN
    BY <2>1 DEF FoundDrafts, Loading
  <2>5. PageFollows'
    <3> SUFFICES ASSUME ~doubt'
                 PROVE  PageFollows'
      BY DEF PageFollows
    <3>1. ~Loading /\ removal.at = "idle" /\ recovery.lists = storedEvents[wizard.event].lists
          /\ recovery.poster = storedEvents[wizard.event].poster
      BY <1>4, <2>1 DEF WizardInv, RecoveryFits
    <3>2. wizard.event # NoEvent
      BY <1>2, WizardAssumption
    <3>3. ~Loading' /\ removal'.at = "idle" /\ setupJob'.at = "idle"
      BY <1>1, <3>1 DEF Loading
    <3> QED
      BY <1>1, <2>2, <2>3, <3>1, <3>2, <3>3 DEF PageFollows, AddedUnheard, RemovedUnheard
  <2> QED
    BY <2>3, <2>4, <2>5 DEF WizardInv
<1>5. CASE RecoveryArrives /\ recovery.at = "missing"
  <2> DEFINE w == [wizard EXCEPT !.ready = TRUE, !.event = NoEvent, !.step = 1, !.lists = NoLists]
  <2>1. WizardShows(w) /\ UNCHANGED doubt /\ storedEvents[wizard.event].made = "deleted"
    BY <1>5 DEF RecoveryArrives, WizardInv, EventsAreKnown
  <2>2. w \in Pages /\ w.open = wizard.open /\ w.ready = TRUE /\ w.event = NoEvent /\ w.step = 1
        /\ w.upload = wizard.upload
    BY <1>1, BlankPage DEF Pages, MaybeEvents
  <2> HIDE DEF w
  <2>3. /\ wizard' = w /\ (WizardTypes' \/ doubt' \notin BOOLEAN)
        /\ PageIsKept' /\ EventsAreKnown' /\ JobFitsPage' /\ RecoveryFits' /\ NoForgottenEvent'
    BY <1>2, <1>3, <2>1, <2>2
  <2>4. doubt' \in BOOLEAN /\ PageFollows'
    BY <1>2, <2>1 DEF PageFollows, WizardInv, WizardTypes
  <2> QED
    BY <2>3, <2>4 DEF WizardInv
<1>6. CASE RecoveryFails
  <2> DEFINE w == [wizard EXCEPT !.ready = TRUE]
  <2>1. WizardShows(w) /\ UNCHANGED doubt
    BY <1>6 DEF RecoveryFails
  <2>2. w \in Pages /\ w.open = wizard.open /\ w.ready = TRUE /\ w.event = wizard.event
        /\ w.step = wizard.step /\ w.upload = wizard.upload
    BY <1>1 DEF Pages
  <2> HIDE DEF w
  <2>3. /\ wizard' = w /\ (WizardTypes' \/ doubt' \notin BOOLEAN)
        /\ PageIsKept' /\ EventsAreKnown' /\ JobFitsPage' /\ RecoveryFits' /\ NoForgottenEvent'
    BY <1>2, <1>3, <2>1, <2>2
  <2>4. doubt' \in BOOLEAN /\ PageFollows'
    BY <1>2, <2>1 DEF PageFollows, WizardInv, WizardTypes
  <2> QED
    BY <2>3, <2>4 DEF WizardInv
<1> QED
  BY <1>4, <1>5, <1>6 DEF RecoveryArrives

\* The page is gone: what it asked for may still be done.
LEMMA PageGoesKeepsWizard ==
    ASSUME WizardInv, wizard.open, wizard' = BlankDraft, setupJob' = NoChange, removal' = NoChange,
           recovery' = Calm, strays' = strays \cup {c \in {setupJob, removal} : c.at = "sent"},
           doubt' \in BOOLEAN, UNCHANGED storedEvents,
           UNCHANGED otherTab,
           \/ UNCHANGED <<keptVars, finished>> /\ forgotten' = forgotten \cup Made(setupJob)
           \/ /\ RemovesDraft({wizard.event, NoEvent}) /\ finished' = finished \cup {wizard.event}
              /\ UNCHANGED forgotten /\ wizard.step = 3
    PROVE  WizardInv'
<1>1. /\ ~Loading' /\ ~Comparing' /\ setupJob'.at = "idle" /\ removal'.at = "idle"
      /\ recovery'.at = "idle" /\ wizard'.open = FALSE
  BY BlankPage, CalmIsIdle DEF Loading, Comparing
<1>2. strays' \subseteq Saves \cup Adds \cup Removals
  BY CalmIsIdle DEF WizardInv, WizardTypes
<1>3. draft' \subseteq draft
  BY DEF keptVars, RemovesDraft
<1>4. WizardTypes'
  BY <1>2, <1>3, BlankPage DEF WizardInv, WizardTypes
<1>5. PageIsKept'
  BY <1>1, <1>3, BlankPage DEF WizardInv, PageIsKept
<1>6. EventsAreKnown' /\ JobFitsPage' /\ RecoveryFits' /\ PageFollows'
  BY <1>1, <1>3, BlankPage, CalmIsIdle
     DEF WizardInv, EventsAreKnown, JobFitsPage, RecoveryFits, PageFollows
<1>7. NoForgottenEvent'
  <2> SUFFICES ASSUME NEW id \in EventIds, storedEvents[id].made = "yes"
               PROVE  id \in forgotten' \cup finished' \/ KnownToDraft(id)'
    BY DEF NoForgottenEvent, KnownToDraft
  <2>1. id \in forgotten \cup finished \cup Made(setupJob) \/ KnownToDraft(id)
    BY DEF WizardInv, NoForgottenEvent, KnownToDraft
  <2>2. CASE UNCHANGED <<keptVars, finished>> /\ forgotten' = forgotten \cup Made(setupJob)
    BY <2>1, <2>2 DEF KnownToDraft, keptVars
  <2>3. CASE /\ RemovesDraft({wizard.event, NoEvent}) /\ finished' = finished \cup {wizard.event}
             /\ UNCHANGED forgotten /\ wizard.step = 3
    <3>1. wizard.event # NoEvent
      BY <2>3 DEF WizardInv, PageIsKept
    <3>2. Made(setupJob) = {}
      BY <3>1, CalmIsIdle DEF WizardInv, JobFitsPage, Made, Loading
    <3>3. KnownToDraft(id) => id \in displaced' \/ id = wizard.event
      BY <2>3, WizardAssumption DEF RemovesDraft, KnownToDraft
    <3> QED
      BY <2>1, <2>3, <3>2, <3>3 DEF KnownToDraft
  <2> QED
    BY <2>2, <2>3
<1> QED
  BY <1>4, <1>5, <1>6, <1>7 DEF WizardInv

LEMMA LeavesKeepWizard ==
    ASSUME WizardInv, WizardCloses \/ FinishesSetup
    PROVE  WizardInv'
<1>1. CASE WizardCloses
  BY <1>1, PageGoesKeepsWizard DEF WizardCloses, otherTabVars
<1>2. CASE FinishesSetup
  BY <1>2, PageGoesKeepsWizard DEF FinishesSetup, WizardInv, WizardTypes, otherTabVars
<1> QED
  BY <1>1, <1>2

LEMMA ChangeHandledKeepsWizard ==
    ASSUME WizardInv, NEW id \in EventIds, ChangeHandled(id)
    PROVE  WizardInv'
<1>1. /\ setupJob.at = "sent" /\ Performed(setupJob, id)
      /\ setupJob' = [setupJob EXCEPT !.at = "done", !.made = id]
      /\ UNCHANGED <<wizard, draft, displaced, otherTab, removal, recovery, strays, forgotten, finished, doubt>>
  BY DEF ChangeHandled, keptVars, otherTabVars
<1>2. setupJob \in Saves \cup Adds /\ Loading
  BY <1>1, JobKinds DEF WizardInv, Loading
<1>3. /\ setupJob' \in Saves \cup Adds /\ setupJob'.at = "done" /\ setupJob'.made = id
      /\ setupJob'.kind = setupJob.kind /\ setupJob'.event = setupJob.event
      /\ setupJob'.kind = "save" => setupJob'.poster = setupJob.poster
      /\ setupJob'.kind = "add" => setupJob'.list = setupJob.list /\ setupJob'.item = setupJob.item
  <2>1. CASE setupJob \in Saves
    BY <1>1, <2>1 DEF Saves, MaybeEvents
  <2>2. CASE setupJob \in Adds
    BY <1>1, <2>2 DEF Adds, MaybeEvents
  <2> QED
    BY <1>2, <2>1, <2>2
<1>4. storedEvents \in [EventIds -> StoredEvents]
  BY DEF WizardInv, WizardTypes
<1>5. PICK e \in StoredEvents :
          /\ storedEvents' = [storedEvents EXCEPT ![id] = e] /\ e.made = "yes"
          /\ setupJob.kind = "save" /\ setupJob.event = NoEvent =>
                 storedEvents[id].made = "no" /\ e.poster = setupJob.poster /\ e.lists = NoLists
          /\ setupJob.kind # "save" \/ setupJob.event # NoEvent =>
                 id = setupJob.event /\ storedEvents[id].made = "yes"
          /\ setupJob.kind = "save" /\ setupJob.event # NoEvent =>
                 e.poster = setupJob.poster /\ e.lists = storedEvents[id].lists
          /\ setupJob.kind # "save" => e.poster = storedEvents[id].poster
          /\ setupJob.kind = "add" => \A l \in WizardLists, i \in Items :
                 i \in e.lists[l] <=>
                     i \in storedEvents[id].lists[l] \/ (l = setupJob.list /\ i = setupJob.item)
  <2>1. setupJob \in Saves \cup Adds \cup Removals
    BY <1>2
  <2> QED
    BY <1>1, <1>4, <2>1, PerformedOnce
<1>6. /\ storedEvents' \in [EventIds -> StoredEvents] /\ storedEvents'[id] = e
      /\ \A x \in EventIds \ {id} : storedEvents'[x] = storedEvents[x]
  BY <1>4, <1>5
<1>7. Loading' /\ Comparing' = Comparing
  BY <1>1, <1>3 DEF Loading, Comparing
<1>8. /\ wizard \in Pages /\ wizard.event \in EventIds \cup {NoEvent}
      /\ \A d \in draft : d.event \in EventIds \cup {NoEvent}
      /\ otherTab.event \in EventIds \cup {NoEvent}
  BY DEF WizardInv, WizardTypes, Pages, KeptPages, Tabs, MaybeEvents
<1>9. WizardTypes'
  BY <1>1, <1>3, <1>6 DEF WizardInv, WizardTypes
<1>10. PageIsKept'
  <2>1. wizard.open
    BY <1>1, CalmIsIdle DEF WizardInv, PageIsKept
  <2> QED
    BY <1>1, <1>2, <1>7, <2>1 DEF WizardInv, PageIsKept
<1>11. \A x \in EventIds : storedEvents[x].made # "no" => storedEvents'[x].made # "no"
  BY <1>5, <1>6
<1>12. EventsAreKnown'
  <2>1. recovery.at = "missing" => storedEvents'[wizard.event].made = "deleted"
    <3> SUFFICES ASSUME recovery.at = "missing"
                 PROVE  storedEvents'[wizard.event].made = "deleted"
      OBVIOUS
    <3>1. /\ Comparing /\ storedEvents[wizard.event].made = "deleted" /\ wizard.event # NoEvent
          /\ setupJob.event = wizard.event
      BY <1>2 DEF WizardInv, EventsAreKnown, Comparing, PageIsKept, JobFitsPage
    <3>2. id = wizard.event /\ storedEvents[id].made = "yes"
      BY <1>5, <3>1
    <3> QED
      BY <3>1, <3>2
  <2>2. storedEvents'[id].made # "no" /\ (setupJob'.event # NoEvent => setupJob'.made = setupJob'.event)
    BY <1>3, <1>5, <1>6
  <2> QED
    BY <1>1, <1>3, <1>8, <1>11, <2>1, <2>2 DEF WizardInv, EventsAreKnown
<1>13. JobFitsPage'
  BY <1>1, <1>2, <1>3, <1>7 DEF WizardInv, JobFitsPage
<1>14. RecoveryFits'
  BY <1>1, <1>2 DEF WizardInv, RecoveryFits
<1>15. PageFollows'
  <2> SUFFICES ASSUME wizard.open, ~doubt
               PROVE  PageFollows'
    BY <1>1 DEF PageFollows
  <2>1. /\ setupJob.event = wizard.event
        /\ wizard.event = NoEvent => wizard.lists = NoLists
        /\ setupJob.kind = "save" => wizard.step = 1
        /\ setupJob.kind = "add" => setupJob.item \notin wizard.lists[setupJob.list]
        /\ removal.at # "idle" => removal.event = wizard.event /\ removal.item \in wizard.lists[removal.list]
        /\ wizard.event # NoEvent =>
               /\ \A l \in WizardLists, i \in Items :
                      i \in storedEvents[wizard.event].lists[l] <=>
                          (i \in wizard.lists[l] \/ AddedUnheard(l, i)) /\ ~RemovedUnheard(l, i)
               /\ wizard.step > 1 => wizard.poster = storedEvents[wizard.event].poster
    BY <1>2 DEF WizardInv, PageFollows
  <2>2. \A l, i : ~AddedUnheard(l, i) /\ RemovedUnheard(l, i)' = RemovedUnheard(l, i)
    BY <1>1 DEF AddedUnheard, RemovedUnheard
  <2>3. \A l, i : AddedUnheard(l, i)' <=>
            setupJob.kind = "add" /\ setupJob.list = l /\ setupJob.item = i
    BY <1>3 DEF AddedUnheard
  <2>4. \A l, i : RemovedUnheard(l, i) => i \in wizard.lists[l]
    BY <2>1, CalmIsIdle DEF RemovedUnheard
  <2>5. setupJob.kind = "save" \/ setupJob.kind = "add"
    BY <1>2 DEF Saves, Adds
  <2>6. setupJob.kind = "save" => /\ storedEvents'[id].poster = setupJob'.poster
                                  /\ setupJob.event = NoEvent => storedEvents'[id].lists = NoLists
    BY <1>3, <1>5, <1>6
  <2>7. ASSUME wizard.event # NoEvent
        PROVE  /\ \A l \in WizardLists, i \in Items :
                      i \in storedEvents'[wizard.event].lists[l] <=>
                          (i \in wizard.lists[l] \/ AddedUnheard(l, i)') /\ ~RemovedUnheard(l, i)
               /\ wizard.step > 1 => wizard.poster = storedEvents'[wizard.event].poster
    <3>1. id = wizard.event
      BY <1>5, <2>1, <2>7
    <3>2. CASE setupJob.kind = "save"
      <4>1. e.lists = storedEvents[id].lists /\ wizard.step = 1
        BY <1>5, <2>1, <2>7, <3>2
      <4>2. \A l, i : ~AddedUnheard(l, i)'
        BY <2>3, <3>2
      <4>3. ~(wizard.step > 1)
        BY <4>1
      <4> QED
        BY <1>6, <2>1, <2>2, <2>7, <3>1, <4>1, <4>2, <4>3
    <3>3. CASE setupJob.kind = "add"
      <4>1. \A l \in WizardLists, i \in Items :
                i \in e.lists[l] <=> i \in storedEvents[id].lists[l] \/ AddedUnheard(l, i)'
        BY <1>5, <2>3, <3>3
      <4>2. \A l, i : ~(AddedUnheard(l, i)' /\ RemovedUnheard(l, i))
        BY <2>1, <2>3, <2>4, <3>3
      <4>3. e.poster = storedEvents[id].poster
        BY <1>5, <3>3
      <4> QED
        BY <1>6, <2>1, <2>2, <2>7, <3>1, <4>1, <4>2, <4>3
    <3> QED
      BY <2>5, <3>2, <3>3
  <2> QED
    BY <1>1, <1>3, <2>1, <2>2, <2>6, <2>7 DEF PageFollows
<1>16. NoForgottenEvent'
  <2> SUFFICES ASSUME NEW x \in EventIds, storedEvents'[x].made = "yes"
               PROVE  \/ x \in forgotten \cup finished \cup displaced \cup Made(setupJob)'
                      \/ \E d \in draft : d.event = x
    BY <1>1 DEF NoForgottenEvent
  <2>1. Made(setupJob) = {}
    BY <1>1 DEF Made
  <2>2. storedEvents[x].made = "yes" \/ x \in Made(setupJob)'
    BY <1>2, <1>3, <1>5, <1>6, WizardAssumption DEF Made, Saves, Adds
  <2> QED
    BY <2>1, <2>2 DEF WizardInv, NoForgottenEvent
<1> QED
  BY <1>9, <1>10, <1>12, <1>13, <1>14, <1>15, <1>16 DEF WizardInv

LEMMA RemovalHandledKeepsWizard ==
    ASSUME WizardInv, NEW id \in EventIds, RemovalHandled(id)
    PROVE  WizardInv'
<1>1. /\ removal.at = "sent" /\ Performed(removal, id) /\ removal' = [removal EXCEPT !.at = "done"]
      /\ UNCHANGED <<wizard, draft, displaced, otherTab, setupJob, recovery, strays, forgotten, finished, doubt>>
  BY DEF RemovalHandled, keptVars, otherTabVars
<1>2. removal \in Removals /\ storedEvents \in [EventIds -> StoredEvents]
  BY <1>1, JobKinds DEF WizardInv, WizardTypes
<1>3. /\ removal' \in Removals /\ removal'.at = "done" /\ removal'.event = removal.event
      /\ removal'.list = removal.list /\ removal'.item = removal.item
  BY <1>1, <1>2 DEF Removals
<1>4. removal.kind = "remove" /\ removal \in Saves \cup Adds \cup Removals
  BY <1>2 DEF Removals
<1>5. PICK e \in StoredEvents :
          /\ storedEvents' = [storedEvents EXCEPT ![id] = e] /\ e.made = "yes"
          /\ id = removal.event /\ storedEvents[id].made = "yes" /\ e.poster = storedEvents[id].poster
          /\ \A l \in WizardLists, i \in Items :
                 i \in e.lists[l] <=>
                     i \in storedEvents[id].lists[l] /\ ~(l = removal.list /\ i = removal.item)
  BY <1>1, <1>2, <1>4, PerformedOnce
<1>6. /\ storedEvents' \in [EventIds -> StoredEvents] /\ storedEvents'[id] = e
      /\ \A x \in EventIds \ {id} : storedEvents'[x] = storedEvents[x]
  BY <1>2, <1>5
<1>7. \A x \in EventIds : storedEvents'[x].made = storedEvents[x].made
  BY <1>5, <1>6
<1>8. Loading' = Loading /\ Comparing' = Comparing
  BY <1>1 DEF Loading, Comparing
<1>9. /\ wizard \in Pages /\ wizard.event \in EventIds \cup {NoEvent} /\ wizard.open
      /\ \A d \in draft : d.event \in EventIds \cup {NoEvent}
      /\ otherTab.event \in EventIds \cup {NoEvent}
  BY <1>1, CalmIsIdle DEF WizardInv, WizardTypes, PageIsKept, Pages, KeptPages, Tabs, MaybeEvents
<1>10. WizardTypes'
  BY <1>1, <1>3, <1>6 DEF WizardInv, WizardTypes
<1>11. PageIsKept'
  BY <1>1, <1>8, <1>9 DEF WizardInv, PageIsKept
<1>12. EventsAreKnown'
  <2>1. recovery.at = "missing" => wizard.event \in EventIds
    BY <1>9 DEF WizardInv, PageIsKept, Comparing
  <2> QED
    BY <1>1, <1>7, <1>9, <2>1 DEF WizardInv, EventsAreKnown
<1>13. JobFitsPage' /\ RecoveryFits'
  BY <1>1, <1>8 DEF WizardInv, JobFitsPage, RecoveryFits
<1>14. PageFollows'
  <2> SUFFICES ASSUME ~doubt
               PROVE  PageFollows'
    BY <1>1 DEF PageFollows
  <2>1. /\ wizard.event = NoEvent => wizard.lists = NoLists
        /\ Loading => setupJob.event = wizard.event
        /\ Loading /\ setupJob.kind = "save" => wizard.step = 1
        /\ Loading /\ setupJob.kind = "add" => setupJob.item \notin wizard.lists[setupJob.list]
        /\ removal.event = wizard.event /\ removal.item \in wizard.lists[removal.list]
        /\ setupJob.at = "done" /\ setupJob.kind = "save" =>
               /\ storedEvents[setupJob.made].poster = setupJob.poster
               /\ setupJob.event = NoEvent => storedEvents[setupJob.made].lists = NoLists
        /\ wizard.event # NoEvent =>
               /\ \A l \in WizardLists, i \in Items :
                      i \in storedEvents[wizard.event].lists[l] <=>
                          (i \in wizard.lists[l] \/ AddedUnheard(l, i)) /\ ~RemovedUnheard(l, i)
               /\ wizard.step > 1 => wizard.poster = storedEvents[wizard.event].poster
    BY <1>1, <1>9 DEF WizardInv, PageFollows
  <2>2. id = wizard.event /\ wizard.event # NoEvent
    BY <1>5, <2>1, WizardAssumption
  <2>3. /\ \A l, i : ~RemovedUnheard(l, i) /\ AddedUnheard(l, i)' = AddedUnheard(l, i)
        /\ \A l, i : RemovedUnheard(l, i)' <=> removal.list = l /\ removal.item = i
    BY <1>1, <1>3 DEF AddedUnheard, RemovedUnheard
  <2>4. \A l \in WizardLists, i \in Items :
            i \in e.lists[l] <=>
                (i \in wizard.lists[l] \/ AddedUnheard(l, i)) /\ ~RemovedUnheard(l, i)'
    BY <1>5, <2>1, <2>2, <2>3
  <2>5. setupJob.at = "done" /\ setupJob.kind = "save" =>
            /\ setupJob.event # NoEvent /\ setupJob.made \in EventIds
            /\ storedEvents'[setupJob.made].poster = setupJob.poster
    <3> SUFFICES ASSUME setupJob.at = "done", setupJob.kind = "save"
                 PROVE  /\ setupJob.event # NoEvent /\ setupJob.made \in EventIds
                        /\ storedEvents'[setupJob.made].poster = setupJob.poster
      OBVIOUS
    <3>1. setupJob.event = wizard.event /\ setupJob.made \in EventIds
      BY <2>1 DEF Loading, WizardInv, EventsAreKnown
    <3> QED
      BY <1>5, <1>6, <2>1, <2>2, <3>1
  <2> QED
    BY <1>1, <1>3, <1>5, <1>6, <1>8, <2>1, <2>2, <2>3, <2>4, <2>5 DEF PageFollows
<1>15. NoForgottenEvent'
  BY <1>1, <1>7 DEF WizardInv, NoForgottenEvent, KnownToDraft, Made
<1> QED
  BY <1>10, <1>11, <1>12, <1>13, <1>14, <1>15 DEF WizardInv

LEMMA StrayHandledKeepsWizard ==
    ASSUME WizardInv, NEW c \in strays, NEW id \in EventIds, StrayHandled(c, id)
    PROVE  WizardInv'
<1>1. /\ Performed(c, id) /\ strays' = strays \ {c} /\ doubt' = wizard.open
      /\ forgotten' = forgotten \cup (IF c.kind = "save" /\ c.event = NoEvent THEN {id} ELSE {})
      /\ UNCHANGED <<wizard, draft, displaced, otherTab, setupJob, removal, recovery, finished>>
  BY DEF StrayHandled, keptVars, otherTabVars
<1>2. c \in Saves \cup Adds \cup Removals /\ storedEvents \in [EventIds -> StoredEvents]
  BY DEF WizardInv, WizardTypes
<1>3. PICK e \in StoredEvents :
          /\ storedEvents' = [storedEvents EXCEPT ![id] = e] /\ e.made = "yes"
          /\ storedEvents[id].made = "yes" \/ (c.kind = "save" /\ c.event = NoEvent /\ storedEvents[id].made = "no")
  BY <1>1, <1>2, PerformedOnce
<1>4. /\ storedEvents' \in [EventIds -> StoredEvents] /\ storedEvents'[id] = e
      /\ \A x \in EventIds \ {id} : storedEvents'[x] = storedEvents[x]
  BY <1>2, <1>3
<1>5. \A x \in EventIds : /\ storedEvents[x].made # "no" => storedEvents'[x].made # "no"
                          /\ storedEvents[x].made = "deleted" => storedEvents'[x].made = "deleted"
  BY <1>3, <1>4
<1>6. /\ wizard \in Pages /\ wizard.event \in EventIds \cup {NoEvent} /\ wizard.open \in BOOLEAN
      /\ \A d \in draft : d.event \in EventIds \cup {NoEvent}
      /\ otherTab.event \in EventIds \cup {NoEvent}
  BY DEF WizardInv, WizardTypes, Pages, KeptPages, Tabs, MaybeEvents
<1>7. Loading' = Loading /\ Comparing' = Comparing
  BY <1>1 DEF Loading, Comparing
<1>8. WizardTypes'
  BY <1>1, <1>4, <1>6 DEF WizardInv, WizardTypes
<1>9. PageIsKept'
  BY <1>1, <1>7 DEF WizardInv, PageIsKept
<1>10. EventsAreKnown'
  <2>1. recovery.at = "missing" => wizard.event \in EventIds
    BY <1>6 DEF WizardInv, PageIsKept, Comparing
  <2> QED
    BY <1>1, <1>5, <1>6, <2>1 DEF WizardInv, EventsAreKnown
<1>11. JobFitsPage'
  BY <1>1, <1>7, CalmIsIdle DEF WizardInv, JobFitsPage, PageIsKept, Comparing
<1>12. RecoveryFits'
  BY <1>1 DEF WizardInv, RecoveryFits
<1>13. PageFollows'
  BY <1>1 DEF PageFollows
<1>14. NoForgottenEvent'
  <2> SUFFICES ASSUME NEW x \in EventIds, storedEvents'[x].made = "yes"
               PROVE  \/ x \in forgotten' \cup finished \cup displaced \cup Made(setupJob)
                      \/ \E d \in draft : d.event = x
    BY <1>1 DEF NoForgottenEvent, Made
  <2>1. storedEvents[x].made = "yes" \/ x \in forgotten'
    BY <1>1, <1>3, <1>4
  <2> QED
    BY <1>1, <2>1 DEF WizardInv, NoForgottenEvent
<1> QED
  BY <1>8, <1>9, <1>10, <1>11, <1>12, <1>13, <1>14 DEF WizardInv

LEMMA LossesKeepWizard ==
    ASSUME WizardInv, (\E c \in strays : StrayLost(c)) \/ ChangeFails \/ RemovalFails
    PROVE  WizardInv'
<1>1. /\ UNCHANGED <<wizard, draft, displaced, otherTab, storedEvents, recovery, finished>> /\ strays' \subseteq strays
      /\ \/ UNCHANGED <<setupJob, removal, forgotten, doubt>>
         \/ /\ Loading /\ setupJob' = NoChange /\ UNCHANGED removal
            /\ forgotten' = forgotten \cup Made(setupJob) /\ doubt' = (doubt \/ setupJob.at = "done")
         \/ /\ removal' = NoChange /\ UNCHANGED <<setupJob, forgotten>>
            /\ doubt' = (doubt \/ removal.at = "done")
  BY DEF StrayLost, ChangeFails, RemovalFails, keptVars, otherTabVars
<1>2. setupJob' = setupJob \/ setupJob' = NoChange
  BY <1>1
<1>3. removal' = removal \/ removal' = NoChange
  BY <1>1
<1>4. doubt' \in BOOLEAN /\ (doubt => doubt')
  <2>1. doubt \in BOOLEAN
    BY DEF WizardInv, WizardTypes
  <2>2. doubt' = doubt \/ doubt' = (doubt \/ setupJob.at = "done") \/ doubt' = (doubt \/ removal.at = "done")
    BY <1>1
  <2> QED
    BY <2>1, <2>2
<1>5. Comparing' = Comparing
  BY <1>1 DEF Comparing
<1>6. WizardTypes'
  BY <1>1, <1>2, <1>3, <1>4 DEF WizardInv, WizardTypes
<1>7. PageIsKept'
  BY <1>1, <1>2, <1>3, <1>5, CalmIsIdle DEF WizardInv, PageIsKept, Loading
<1>8. EventsAreKnown'
  BY <1>1, <1>2, CalmIsIdle DEF WizardInv, EventsAreKnown
<1>9. JobFitsPage' /\ RecoveryFits'
  BY <1>1, <1>2, <1>3, <1>4, <1>5, CalmIsIdle DEF WizardInv, JobFitsPage, RecoveryFits, Loading
<1>10. PageFollows'
  <2> SUFFICES ASSUME wizard.open, ~doubt'
               PROVE  PageFollows'
    BY <1>1 DEF PageFollows
  <2>1. /\ ~doubt /\ (setupJob' = setupJob \/ setupJob.at # "done")
        /\ (removal' = removal \/ removal.at # "done")
    BY <1>1, <1>4
  <2>2. \A l, i : /\ AddedUnheard(l, i)' = AddedUnheard(l, i)
                  /\ RemovedUnheard(l, i)' = RemovedUnheard(l, i)
    BY <1>2, <1>3, <2>1, CalmIsIdle DEF AddedUnheard, RemovedUnheard
  <2> QED
    BY <1>1, <1>2, <1>3, <2>1, <2>2, CalmIsIdle DEF WizardInv, PageFollows, Loading
<1>11. NoForgottenEvent'
  BY <1>1 DEF WizardInv, NoForgottenEvent
<1> QED
  BY <1>6, <1>7, <1>8, <1>9, <1>10, <1>11 DEF WizardInv

LEMMA DraftDeletedKeepsWizard ==
    ASSUME WizardInv, NEW id \in EventIds, DraftDeleted(id)
    PROVE  WizardInv'
<1>1. /\ storedEvents[id].made = "yes" /\ doubt' = wizard.open
      /\ storedEvents' = [storedEvents EXCEPT ![id].made = "deleted"]
      /\ UNCHANGED <<wizard, draft, displaced, otherTab, setupJob, removal, recovery, strays, forgotten, finished>>
  BY DEF DraftDeleted, keptVars, otherTabVars
<1>2. storedEvents \in [EventIds -> StoredEvents] /\ storedEvents[id] \in StoredEvents
  BY DEF WizardInv, WizardTypes
<1> DEFINE e == [storedEvents[id] EXCEPT !.made = "deleted"]
<1>3. /\ e \in StoredEvents /\ e.made = "deleted" /\ e.poster = storedEvents[id].poster
      /\ e.lists = storedEvents[id].lists
  BY <1>2 DEF StoredEvents
<1>4. storedEvents' = [storedEvents EXCEPT ![id] = e]
  BY <1>1
<1> HIDE DEF e
<1>5. /\ storedEvents' \in [EventIds -> StoredEvents] /\ storedEvents'[id] = e
      /\ \A x \in EventIds \ {id} : storedEvents'[x] = storedEvents[x]
  BY <1>2, <1>3, <1>4
<1>6. \A x \in EventIds : /\ storedEvents[x].made # "no" => storedEvents'[x].made # "no"
                          /\ storedEvents[x].made = "deleted" => storedEvents'[x].made = "deleted"
                          /\ storedEvents'[x].made = "yes" => storedEvents[x].made = "yes"
                          /\ storedEvents'[x].poster = storedEvents[x].poster
                          /\ storedEvents'[x].lists = storedEvents[x].lists
  BY <1>3, <1>5
<1>7. /\ wizard \in Pages /\ wizard.event \in EventIds \cup {NoEvent} /\ wizard.open \in BOOLEAN
      /\ \A d \in draft : d.event \in EventIds \cup {NoEvent}
      /\ otherTab.event \in EventIds \cup {NoEvent}
  BY DEF WizardInv, WizardTypes, Pages, KeptPages, Tabs, MaybeEvents
<1>8. Loading' = Loading /\ Comparing' = Comparing
  BY <1>1 DEF Loading, Comparing
<1>9. WizardTypes'
  BY <1>1, <1>5, <1>7 DEF WizardInv, WizardTypes
<1>10. PageIsKept'
  BY <1>1, <1>8 DEF WizardInv, PageIsKept
<1>11. Comparing => wizard.event \in EventIds
  BY <1>7 DEF WizardInv, PageIsKept
<1>12. EventsAreKnown'
  <2>1. recovery.at = "missing" => Comparing
    BY DEF Comparing
  <2> QED
    BY <1>1, <1>6, <1>7, <1>11, <2>1 DEF WizardInv, EventsAreKnown
<1>13. JobFitsPage'
  BY <1>1, <1>8, CalmIsIdle DEF WizardInv, JobFitsPage, PageIsKept, Comparing
<1>14. RecoveryFits'
  <2>1. recovery.at = "found" => Comparing
    BY DEF Comparing
  <2> QED
    BY <1>1, <1>6, <1>8, <1>11, <2>1 DEF WizardInv, RecoveryFits
<1>15. PageFollows' /\ NoForgottenEvent'
  BY <1>1, <1>6 DEF WizardInv, PageFollows, NoForgottenEvent, Made
<1> QED
  BY <1>9, <1>10, <1>12, <1>13, <1>14, <1>15 DEF WizardInv

LEMMA RemovalArrivesKeepsWizard ==
    ASSUME WizardInv, RemovalArrives
    PROVE  WizardInv'
<1> DEFINE w == [wizard EXCEPT !.lists[removal.list] = @ \ {removal.item}]
<1>1. /\ removal.at = "done" /\ removal' = NoChange /\ WizardShows(w)
      /\ UNCHANGED <<storedEvents, setupJob, recovery, strays, forgotten, finished, doubt, otherTab>>
  BY DEF RemovalArrives, keptVars, otherTabVars
<1>2. removal \in Removals /\ wizard \in Pages /\ wizard.open
  BY <1>1, JobKinds, CalmIsIdle DEF WizardInv, WizardTypes, PageIsKept, Pages
<1> DEFINE new == [wizard.lists EXCEPT ![removal.list] = @ \ {removal.item}]
<1>3. /\ new \in ListPairs
      /\ \A l \in WizardLists, i \in Items :
             i \in new[l] <=> i \in wizard.lists[l] /\ ~(removal.list = l /\ removal.item = i)
  BY <1>2 DEF Removals, Pages, ListPairs
<1>4. w = [wizard EXCEPT !.lists = new]
  BY <1>2 DEF Pages
<1> HIDE DEF new
<1>5. w \in Pages /\ w.open = wizard.open /\ w.ready = wizard.ready /\ w.event = wizard.event
      /\ w.step = wizard.step /\ w.upload = wizard.upload /\ w.poster = wizard.poster /\ w.lists = new
  BY <1>2, <1>3, <1>4 DEF Pages
<1> HIDE DEF w
<1>6. Loading' = Loading /\ Comparing' = Comparing
  BY <1>1 DEF Loading, Comparing
<1>7. /\ wizard' = w /\ draft' \subseteq KeptPages /\ PageIsKept'
      /\ \A d \in draft' : d.event = w.event \/ d \in draft
      /\ \A id \in EventIds : storedEvents[id].made = "yes" /\ KnownToDraft(id) => KnownToDraft(id)'
  <2>1. w.ready = ~Comparing'
    BY <1>2, <1>5, <1>6 DEF WizardInv, PageIsKept
  <2>2. /\ w.step > 1 => w.event # NoEvent
        /\ w.upload = "busy" => w.step = 1 /\ ~Loading'
    BY <1>5, <1>6 DEF WizardInv, PageIsKept
  <2> QED
    BY <1>1, <1>2, <1>5, <1>6, <2>1, <2>2, ShowsPage DEF WizardInv
<1>8. WizardTypes'
  BY <1>1, <1>5, <1>7 DEF WizardInv, WizardTypes
<1>9. EventsAreKnown' /\ JobFitsPage'
  BY <1>1, <1>5, <1>6, <1>7 DEF WizardInv, EventsAreKnown, JobFitsPage
<1>10. RecoveryFits'
  BY <1>1 DEF WizardInv, RecoveryFits
<1>11. PageFollows'
  <2> SUFFICES ASSUME ~doubt
               PROVE  PageFollows'
    BY <1>1 DEF PageFollows
  <2>1. /\ wizard.event = NoEvent => wizard.lists = NoLists
        /\ Loading => setupJob.event = wizard.event
        /\ Loading /\ setupJob.kind = "save" => wizard.step = 1
        /\ Loading /\ setupJob.kind = "add" => setupJob.item \notin wizard.lists[setupJob.list]
        /\ removal.event = wizard.event /\ removal.item \in wizard.lists[removal.list]
        /\ setupJob.at = "done" /\ setupJob.kind = "save" =>
               /\ storedEvents[setupJob.made].poster = setupJob.poster
               /\ setupJob.event = NoEvent => storedEvents[setupJob.made].lists = NoLists
        /\ wizard.event # NoEvent =>
               /\ \A l \in WizardLists, i \in Items :
                      i \in storedEvents[wizard.event].lists[l] <=>
                          (i \in wizard.lists[l] \/ AddedUnheard(l, i)) /\ ~RemovedUnheard(l, i)
               /\ wizard.step > 1 => wizard.poster = storedEvents[wizard.event].poster
    BY <1>1, <1>2 DEF WizardInv, PageFollows
  <2>2. wizard.event # NoEvent
    BY <1>2, <2>1, WizardAssumption DEF Removals
  <2>3. /\ \A l, i : ~RemovedUnheard(l, i)' /\ AddedUnheard(l, i)' = AddedUnheard(l, i)
        /\ \A l, i : RemovedUnheard(l, i) <=> removal.list = l /\ removal.item = i
    BY <1>1, CalmIsIdle DEF AddedUnheard, RemovedUnheard
  <2>4. Loading /\ setupJob.kind = "add" => setupJob.item \notin new[setupJob.list]
    <3>1. Loading /\ setupJob.kind = "add" => setupJob \in Adds
      BY JobKinds DEF WizardInv
    <3> QED
      BY <1>3, <2>1, <3>1 DEF Adds
  <2>5. \A l \in WizardLists, i \in Items : AddedUnheard(l, i) => i \notin wizard.lists[l]
    BY <2>1 DEF AddedUnheard, Loading
  <2>6. \A l \in WizardLists, i \in Items :
            i \in storedEvents[wizard.event].lists[l] <=> i \in new[l] \/ AddedUnheard(l, i)
    BY <1>3, <2>1, <2>2, <2>3, <2>5
  <2> QED
    BY <1>1, <1>5, <1>6, <1>7, <2>1, <2>2, <2>3, <2>4, <2>6, CalmIsIdle DEF PageFollows
<1>12. NoForgottenEvent'
  BY <1>1, <1>2, <1>5, <1>7 DEF WizardInv, NoForgottenEvent, KnownToDraft, Made
<1> QED
  BY <1>7, <1>8, <1>9, <1>10, <1>11, <1>12 DEF WizardInv

LEMMA SaveArrivesKeepsWizard ==
    ASSUME WizardInv, ChangeArrives, setupJob.kind = "save"
    PROVE  WizardInv'
<1> DEFINE w == [wizard EXCEPT !.event = setupJob.made, !.poster = setupJob.poster, !.step = 2]
<1>1. /\ setupJob.at = "done" /\ Loading /\ setupJob' = NoChange /\ WizardShows(w)
      /\ UNCHANGED <<storedEvents, removal, recovery, strays, forgotten, finished, doubt, otherTab>>
  BY DEF ChangeArrives, Loading, otherTabVars
<1>2. setupJob \in Saves /\ wizard \in Pages /\ wizard.open
  BY <1>1, JobKinds, CalmIsIdle DEF WizardInv, WizardTypes, PageIsKept, Pages
<1>3. /\ setupJob.made \in EventIds /\ storedEvents[setupJob.made].made # "no"
      /\ setupJob.event # NoEvent => setupJob.made = setupJob.event
      /\ wizard.event \in {setupJob.event, NoEvent} /\ (Comparing => setupJob.event = wizard.event)
  BY <1>1 DEF WizardInv, EventsAreKnown, JobFitsPage
<1>4. w \in Pages /\ w.open = wizard.open /\ w.ready = wizard.ready /\ w.event = setupJob.made
      /\ w.step = 2 /\ w.upload = wizard.upload /\ w.poster = setupJob.poster /\ w.lists = wizard.lists
  <2>1. setupJob.made \in MaybeEvents /\ setupJob.poster \in MaybePosters /\ 2 \in 1..3
    BY <1>2 DEF Saves
  <2> QED
    BY <1>2, <2>1 DEF Pages
<1> HIDE DEF w
<1>5. ~Loading' /\ Comparing' = Comparing /\ setupJob'.at = "idle" /\ setupJob.made # NoEvent
  BY <1>1, <1>3, CalmIsIdle, WizardAssumption DEF Loading, Comparing
<1>6. Comparing => w.event = wizard.event
  BY <1>3, <1>4 DEF WizardInv, PageIsKept
<1>7. /\ wizard' = w /\ draft' \subseteq KeptPages /\ PageIsKept'
      /\ \A d \in draft' : d.event = w.event \/ d \in draft
      /\ \A id \in EventIds : storedEvents[id].made = "yes" /\ KnownToDraft(id) => KnownToDraft(id)'
  <2>1. w.ready = ~Comparing' /\ w.upload # "busy"
    BY <1>1, <1>2, <1>4, <1>5 DEF WizardInv, PageIsKept
  <2>2. w.event = wizard.event \/ wizard.event = NoEvent
    BY <1>3, <1>4
  <2>3. w.open /\ w.event # NoEvent /\ ~(w.upload = "busy")
    BY <1>2, <1>4, <1>5, <2>1
  <2> QED
    BY <1>1, <1>2, <1>4, <1>5, <1>6, <2>1, <2>2, <2>3, ShowsPage DEF WizardInv
<1>8. WizardTypes'
  BY <1>1, <1>4, <1>7 DEF WizardInv, WizardTypes
<1>9. EventsAreKnown' /\ JobFitsPage'
  <2>1. recovery.at = "missing" => Comparing
    BY DEF Comparing
  <2> QED
    BY <1>1, <1>3, <1>4, <1>5, <1>6, <1>7, <2>1 DEF WizardInv, EventsAreKnown, JobFitsPage
<1>10. RecoveryFits'
  BY <1>1 DEF WizardInv, RecoveryFits
<1>11. PageFollows'
  <2> SUFFICES ASSUME ~doubt
               PROVE  PageFollows'
    BY <1>1 DEF PageFollows
  <2>1. /\ wizard.event = NoEvent => wizard.lists = NoLists
        /\ setupJob.event = wizard.event
        /\ removal.at # "idle" => removal.event = wizard.event /\ removal.item \in wizard.lists[removal.list]
        /\ storedEvents[setupJob.made].poster = setupJob.poster
        /\ setupJob.event = NoEvent => storedEvents[setupJob.made].lists = NoLists
        /\ wizard.event # NoEvent =>
               \A l \in WizardLists, i \in Items :
                  i \in storedEvents[wizard.event].lists[l] <=>
                      (i \in wizard.lists[l] \/ AddedUnheard(l, i)) /\ ~RemovedUnheard(l, i)
    BY <1>1, <1>2 DEF WizardInv, PageFollows
  <2>2. /\ \A l, i : RemovedUnheard(l, i)' = RemovedUnheard(l, i)
        /\ \A l, i : ~AddedUnheard(l, i) /\ ~AddedUnheard(l, i)'
    BY <1>1, <1>5 DEF AddedUnheard, RemovedUnheard
  <2>3. removal.at # "idle" => wizard.event # NoEvent
    BY <2>1, JobKinds, WizardAssumption DEF WizardInv, Removals
  <2>4. \A l \in WizardLists, i \in Items :
            i \in storedEvents[setupJob.made].lists[l] <=> i \in wizard.lists[l] /\ ~RemovedUnheard(l, i)
    <3>1. CASE wizard.event = NoEvent
      <4>1. \A l, i : ~RemovedUnheard(l, i)
        BY <2>3, <3>1 DEF RemovedUnheard
      <4> QED
        BY <2>1, <3>1, <4>1
    <3>2. CASE wizard.event # NoEvent
      BY <1>3, <2>1, <2>2, <3>2
    <3> QED
      BY <3>1, <3>2
  <2>5. removal.at # "idle" => removal.event = setupJob.made
    BY <1>3, <2>1, <2>3
  <2> QED
    BY <1>1, <1>4, <1>5, <1>7, <2>1, <2>2, <2>4, <2>5 DEF PageFollows
<1>12. NoForgottenEvent'
  <2> SUFFICES ASSUME NEW id \in EventIds, storedEvents[id].made = "yes"
               PROVE  id \in forgotten \cup finished \/ KnownToDraft(id)'
    BY <1>1 DEF NoForgottenEvent, KnownToDraft
  <2>1. id \in forgotten \cup finished \cup Made(setupJob) \/ KnownToDraft(id)
    BY DEF WizardInv, NoForgottenEvent, KnownToDraft
  <2>2. CASE id \in Made(setupJob)
    <3>1. setupJob.event = NoEvent /\ setupJob.made = id
      BY <2>2 DEF Made
    <3>2. ~Comparing
      BY <1>3, <3>1 DEF WizardInv, PageIsKept
    <3>3. w.ready
      BY <1>2, <1>4, <3>2 DEF WizardInv, PageIsKept
    <3>4. draft' = {Kept(w)} /\ Kept(w).event = id
      BY <1>1, <1>2, <1>4, <3>1, <3>3, KeptPage DEF WizardShows, KeepsDraft
    <3> QED
      BY <3>4 DEF KnownToDraft
  <2> QED
    BY <1>7, <2>1, <2>2
<1> QED
  BY <1>7, <1>8, <1>9, <1>10, <1>11, <1>12 DEF WizardInv

LEMMA AddArrivesKeepsWizard ==
    ASSUME WizardInv, ChangeArrives, setupJob.kind # "save"
    PROVE  WizardInv'
<1> DEFINE w == [wizard EXCEPT !.lists[setupJob.list] = @ \cup {setupJob.item}]
<1>1. /\ setupJob.at = "done" /\ Loading /\ setupJob' = NoChange /\ WizardShows(w)
      /\ UNCHANGED <<storedEvents, removal, recovery, strays, forgotten, finished, doubt, otherTab>>
  BY DEF ChangeArrives, Loading, otherTabVars
<1>2. setupJob \in Adds /\ wizard \in Pages /\ wizard.open /\ setupJob.kind = "add"
  BY <1>1, JobKinds, CalmIsIdle DEF WizardInv, WizardTypes, PageIsKept, Pages, Saves, Adds
<1> DEFINE new == [wizard.lists EXCEPT ![setupJob.list] = @ \cup {setupJob.item}]
<1>3. /\ new \in ListPairs
      /\ \A l \in WizardLists, i \in Items :
             i \in new[l] <=> i \in wizard.lists[l] \/ (setupJob.list = l /\ setupJob.item = i)
  BY <1>2 DEF Adds, Pages, ListPairs
<1>4. w = [wizard EXCEPT !.lists = new]
  BY <1>2 DEF Pages
<1> HIDE DEF new
<1>5. w \in Pages /\ w.open = wizard.open /\ w.ready = wizard.ready /\ w.event = wizard.event
      /\ w.step = wizard.step /\ w.upload = wizard.upload /\ w.poster = wizard.poster /\ w.lists = new
  BY <1>2, <1>3, <1>4 DEF Pages
<1> HIDE DEF w
<1>6. ~Loading' /\ Comparing' = Comparing /\ setupJob'.at = "idle"
  BY <1>1, CalmIsIdle DEF Loading, Comparing
<1>7. /\ wizard' = w /\ draft' \subseteq KeptPages /\ PageIsKept'
      /\ \A d \in draft' : d.event = w.event \/ d \in draft
      /\ \A id \in EventIds : storedEvents[id].made = "yes" /\ KnownToDraft(id) => KnownToDraft(id)'
  <2>1. w.ready = ~Comparing'
    BY <1>2, <1>5, <1>6 DEF WizardInv, PageIsKept
  <2>2. /\ w.step > 1 => w.event # NoEvent
        /\ w.upload = "busy" => w.step = 1 /\ ~Loading'
    BY <1>5, <1>6 DEF WizardInv, PageIsKept
  <2> QED
    BY <1>1, <1>2, <1>5, <1>6, <2>1, <2>2, ShowsPage DEF WizardInv
<1>8. WizardTypes'
  BY <1>1, <1>5, <1>7 DEF WizardInv, WizardTypes
<1>9. EventsAreKnown' /\ JobFitsPage'
  BY <1>1, <1>5, <1>6, <1>7 DEF WizardInv, EventsAreKnown, JobFitsPage
<1>10. RecoveryFits'
  BY <1>1 DEF WizardInv, RecoveryFits
<1>11. PageFollows'
  <2> SUFFICES ASSUME ~doubt
               PROVE  PageFollows'
    BY <1>1 DEF PageFollows
  <2>1. /\ setupJob.event = wizard.event /\ setupJob.item \notin wizard.lists[setupJob.list]
        /\ removal.at # "idle" => removal.event = wizard.event /\ removal.item \in wizard.lists[removal.list]
        /\ wizard.event # NoEvent =>
               /\ \A l \in WizardLists, i \in Items :
                      i \in storedEvents[wizard.event].lists[l] <=>
                          (i \in wizard.lists[l] \/ AddedUnheard(l, i)) /\ ~RemovedUnheard(l, i)
               /\ wizard.step > 1 => wizard.poster = storedEvents[wizard.event].poster
    BY <1>1, <1>2 DEF WizardInv, PageFollows
  <2>2. wizard.event # NoEvent
    BY <1>2, <2>1, WizardAssumption DEF Adds
  <2>3. /\ \A l, i : ~AddedUnheard(l, i)' /\ RemovedUnheard(l, i)' = RemovedUnheard(l, i)
        /\ \A l, i : AddedUnheard(l, i) <=> setupJob.list = l /\ setupJob.item = i
    BY <1>1, <1>2, <1>6 DEF AddedUnheard, RemovedUnheard
  <2>4. removal.at # "idle" => removal.item \in new[removal.list]
    <3>1. removal.at # "idle" => removal \in Removals
      BY JobKinds DEF WizardInv
    <3> QED
      BY <1>3, <2>1, <3>1 DEF Removals
  <2>5. \A l \in WizardLists, i \in Items :
            i \in storedEvents[wizard.event].lists[l] <=> i \in new[l] /\ ~RemovedUnheard(l, i)
    BY <1>3, <2>1, <2>2, <2>3
  <2> QED
    BY <1>1, <1>5, <1>6, <1>7, <2>1, <2>2, <2>3, <2>4, <2>5 DEF PageFollows
<1>12. NoForgottenEvent'
  <2>1. Made(setupJob) = {}
    BY <1>2 DEF Made
  <2> QED
    BY <1>1, <1>2, <1>5, <1>7, <2>1 DEF WizardInv, NoForgottenEvent, KnownToDraft, Made
<1> QED
  BY <1>7, <1>8, <1>9, <1>10, <1>11, <1>12 DEF WizardInv

\* What another tab does to what is kept, and an event that it makes, leave the page as it is.
LEMMA OtherDraftKeepsWizard ==
    ASSUME WizardInv, UNCHANGED <<wizard, setupJob, removal, recovery, strays, doubt>>,
           storedEvents' \in [EventIds -> StoredEvents],
           \A x \in EventIds : storedEvents[x].made # "no" => storedEvents'[x] = storedEvents[x],
           draft' \subseteq KeptPages, \A d, k \in draft' : d = k,
           \A d \in draft' : /\ d.step > 1 => d.event # NoEvent
                             /\ d.event # NoEvent => storedEvents'[d.event].made # "no",
           otherTab' \in Tabs,
           otherTab'.event # NoEvent => storedEvents'[otherTab'.event].made # "no",
           NoForgottenEvent'
    PROVE  WizardInv'
<1>1. Loading' = Loading /\ Comparing' = Comparing
  BY DEF Loading, Comparing
<1>2. wizard.event \in MaybeEvents /\ (Comparing => wizard.event \in EventIds)
  BY DEF WizardInv, WizardTypes, PageIsKept, Pages, MaybeEvents
<1>3. wizard.event # NoEvent => storedEvents'[wizard.event] = storedEvents[wizard.event]
  BY <1>2 DEF WizardInv, EventsAreKnown, MaybeEvents
<1>4. setupJob.at = "done" /\ setupJob.kind = "save" =>
          storedEvents'[setupJob.made] = storedEvents[setupJob.made]
  BY DEF WizardInv, EventsAreKnown
<1>5. WizardTypes' /\ PageIsKept'
  BY <1>1 DEF WizardInv, WizardTypes, PageIsKept
<1>6. EventsAreKnown'
  BY <1>2, <1>3, <1>4, WizardAssumption DEF WizardInv, EventsAreKnown, Comparing
<1>7. JobFitsPage' /\ RecoveryFits'
  BY <1>1, <1>2, <1>3, WizardAssumption DEF WizardInv, JobFitsPage, RecoveryFits, Comparing
<1>8. PageFollows'
  BY <1>1, <1>3, <1>4 DEF WizardInv, PageFollows, AddedUnheard, RemovedUnheard
<1> QED
  BY <1>5, <1>6, <1>7, <1>8 DEF WizardInv

\* A draft that another tab keeps: of its event, which is known, or of none.
LEMMA OtherKeepsKeepsWizard ==
    ASSUME WizardInv, UNCHANGED restOfWizard, NEW k \in KeptPages, NEW own, KeepsDraft(k, own),
           k.step > 1 => k.event # NoEvent, k.event # NoEvent => storedEvents[k.event].made # "no",
           \A id \in EventIds : id \in own => id = k.event \/ storedEvents[id].made # "yes",
           otherTab' \in Tabs, otherTab'.event # NoEvent => storedEvents[otherTab'.event].made # "no"
    PROVE  WizardInv'
<1>1. UNCHANGED <<wizard, setupJob, removal, recovery, strays, doubt, storedEvents, forgotten, finished>>
  BY DEF restOfWizard
<1>2. draft' = {k} /\ storedEvents \in [EventIds -> StoredEvents]
  BY DEF KeepsDraft, WizardInv, WizardTypes
<1>3. \A id \in EventIds : storedEvents[id].made = "yes" /\ KnownToDraft(id) => KnownToDraft(id)'
  BY KeepsKnown
<1>4. NoForgottenEvent'
  BY <1>1, <1>3 DEF WizardInv, NoForgottenEvent, KnownToDraft, Made
<1> QED
  BY <1>1, <1>2, <1>4, OtherDraftKeepsWizard

LEMMA OtherTabKeepsWizard ==
    ASSUME WizardInv,
           \/ OtherTabOpens \/ OtherTabFinishes \/ OtherTabCloses
           \/ \E k \in OtherPages(otherTab.event) : OtherTabKeeps(k)
           \/ \E p \in Posters \cup {NoPoster} : OtherTabMisses(p) \/ \E id \in EventIds : OtherTabMakes(id, p)
    PROVE  WizardInv'
<1>1. /\ otherTab \in Tabs /\ NoTab \in Tabs /\ NoTab.event = NoEvent /\ storedEvents \in [EventIds -> StoredEvents]
      /\ otherTab.event # NoEvent => otherTab.event \in EventIds /\ storedEvents[otherTab.event].made # "no"
      /\ draft \subseteq KeptPages /\ \A d, k \in draft : d = k
      /\ \A d \in draft : /\ d.step > 1 => d.event # NoEvent
                          /\ d.event \in MaybeEvents
                          /\ d.event # NoEvent => storedEvents[d.event].made # "no"
  BY DEF WizardInv, WizardTypes, PageIsKept, EventsAreKnown, Tabs, NoTab, MaybeEvents, KeptPages
<1>2. CASE OtherTabOpens
  <2> DEFINE found == CHOOSE d \in draft : TRUE
             e == IF draft = {} THEN NoEvent ELSE found.event
  <2>1. UNCHANGED <<restOfWizard, keptVars>> /\ otherTab' = [open |-> TRUE, event |-> e]
    BY <1>2 DEF OtherTabOpens
  <2>2. draft # {} => found \in draft
    OBVIOUS
  <2>3. e \in MaybeEvents /\ (e # NoEvent => storedEvents[e].made # "no")
    BY <1>1, <2>2 DEF MaybeEvents
  <2> HIDE DEF e
  <2>4. otherTab' \in Tabs /\ otherTab'.event = e
    BY <2>1, <2>3 DEF Tabs
  <2>5. NoForgottenEvent'
    BY <2>1 DEF restOfWizard, keptVars, WizardInv, NoForgottenEvent, Made
  <2> QED
    BY <1>1, <2>1, <2>3, <2>4, <2>5, OtherDraftKeepsWizard DEF restOfWizard, keptVars
<1>3. CASE OtherTabFinishes
  <2>1. /\ UNCHANGED <<wizard, storedEvents, setupJob, removal, recovery, strays, forgotten, doubt>>
        /\ otherTab' = NoTab /\ finished' = finished \cup {otherTab.event}
        /\ draft' = {} /\ displaced' = displaced \cup ({k.event : k \in draft} \ {otherTab.event, NoEvent})
    BY <1>3 DEF OtherTabFinishes, RemovesDraft
  <2>2. NoForgottenEvent'
    BY <2>1, WizardAssumption DEF WizardInv, NoForgottenEvent, Made
  <2> QED
    BY <1>1, <2>1, <2>2, OtherDraftKeepsWizard
<1>4. CASE OtherTabCloses
  <2>1. UNCHANGED <<restOfWizard, keptVars>> /\ otherTab' = NoTab
    BY <1>4 DEF OtherTabCloses
  <2>2. NoForgottenEvent'
    BY <2>1 DEF restOfWizard, keptVars, WizardInv, NoForgottenEvent, Made
  <2> QED
    BY <1>1, <2>1, <2>2, OtherDraftKeepsWizard DEF restOfWizard, keptVars
<1>5. ASSUME NEW k \in OtherPages(otherTab.event), OtherTabKeeps(k)
      PROVE  WizardInv'
  <2>1. /\ KeepsDraft(k, {k.event, NoEvent}) /\ UNCHANGED restOfWizard /\ otherTab' = otherTab
    BY <1>5 DEF OtherTabKeeps
  <2>2. k \in KeptPages /\ k.event = otherTab.event /\ (k.step > 1 => k.event # NoEvent)
    <3>1. CASE otherTab.event = NoEvent
      <4>1. PICK p \in MaybePosters : k = [step |-> 1, event |-> NoEvent, poster |-> p, lists |-> NoLists]
        BY <1>5, <3>1 DEF OtherPages, MaybePosters
      <4> QED
        BY <3>1, <4>1, BlankPage DEF KeptPages, MaybeEvents
    <3>2. CASE otherTab.event # NoEvent
      <4>1. PICK n \in 1..3 : k = [step |-> n, event |-> otherTab.event,
                                   poster |-> storedEvents[otherTab.event].poster,
                                   lists |-> storedEvents[otherTab.event].lists]
        BY <1>5, <3>2 DEF OtherPages
      <4>2. storedEvents[otherTab.event] \in StoredEvents
        BY <1>1, <3>2
      <4> QED
        BY <1>1, <3>2, <4>1, <4>2 DEF KeptPages, MaybeEvents, StoredEvents
    <3> QED
      BY <3>1, <3>2
  <2> QED
    BY <1>1, <2>1, <2>2, OtherKeepsKeepsWizard, WizardAssumption
<1>6. ASSUME NEW p \in MaybePosters, OtherTabMisses(p)
      PROVE  WizardInv'
  <2> DEFINE k == [step |-> 1, event |-> NoEvent, poster |-> p, lists |-> NoLists]
  <2>1. /\ KeepsDraft(k, {otherTab.event, NoEvent}) /\ UNCHANGED restOfWizard
        /\ otherTab' = [otherTab EXCEPT !.event = NoEvent]
        /\ otherTab.event # NoEvent /\ storedEvents[otherTab.event].made = "deleted"
    BY <1>6 DEF OtherTabMisses
  <2>2. k \in KeptPages /\ k.event = NoEvent /\ k.step = 1
    BY BlankPage DEF KeptPages, MaybeEvents
  <2>3. otherTab' \in Tabs /\ otherTab'.event = NoEvent
    BY <1>1, <2>1 DEF Tabs, MaybeEvents
  <2> HIDE DEF k
  <2>4. ~(k.step > 1)
    BY <2>2
  <2>5. \A id \in EventIds : id \in {otherTab.event, NoEvent} => storedEvents[id].made # "yes"
    BY <2>1, WizardAssumption
  <2> QED
    BY <2>1, <2>2, <2>3, <2>4, <2>5, OtherKeepsKeepsWizard
<1>7. ASSUME NEW p \in MaybePosters, NEW id \in EventIds, OtherTabMakes(id, p)
      PROVE  WizardInv'
  <2> DEFINE k == [step |-> 2, event |-> id, poster |-> p, lists |-> NoLists]
             e == [made |-> "yes", poster |-> p, lists |-> NoLists]
  <2>1. /\ UNCHANGED <<wizard, setupJob, removal, recovery, strays, finished, doubt>>
        /\ storedEvents[id].made = "no" /\ storedEvents' = [storedEvents EXCEPT ![id] = e]
    BY <1>7 DEF OtherTabMakes
  <2>2. e \in StoredEvents /\ e.made = "yes" /\ k \in KeptPages /\ k.event = id
    BY BlankPage DEF StoredEvents, KeptPages, MaybeEvents
  <2>3. \/ otherTab' = [otherTab EXCEPT !.event = id] /\ KeepsDraft(k, {id, NoEvent}) /\ UNCHANGED forgotten
        \/ forgotten' = forgotten \cup {id} /\ UNCHANGED <<otherTab, keptVars>>
    BY <1>7 DEF OtherTabMakes
  <2> HIDE DEF k, e
  <2>4. /\ storedEvents' \in [EventIds -> StoredEvents] /\ storedEvents'[id].made = "yes"
        /\ \A x \in EventIds \ {id} : storedEvents'[x] = storedEvents[x]
    BY <1>1, <2>1, <2>2
  <2>5. \A x \in EventIds : storedEvents[x].made # "no" => storedEvents'[x] = storedEvents[x]
    BY <2>1, <2>4
  <2>6. CASE otherTab' = [otherTab EXCEPT !.event = id] /\ KeepsDraft(k, {id, NoEvent}) /\ UNCHANGED forgotten
    <3>1. draft' = {k} /\ otherTab' \in Tabs /\ otherTab'.event = id
      BY <1>1, <2>6 DEF KeepsDraft, Tabs, MaybeEvents
    <3>2. k.event # NoEvent
      BY <2>2, WizardAssumption
    <3>3. \A x \in EventIds : KnownToDraft(x) => KnownToDraft(x)'
      BY <2>2, <2>6, KeepsKnown, WizardAssumption
    <3>4. NoForgottenEvent'
      BY <2>1, <2>2, <2>4, <2>6, <3>1, <3>3 DEF WizardInv, NoForgottenEvent, KnownToDraft, Made
    <3> QED
      BY <2>1, <2>2, <2>4, <2>5, <3>1, <3>2, <3>4, OtherDraftKeepsWizard
  <2>7. CASE forgotten' = forgotten \cup {id} /\ UNCHANGED <<otherTab, keptVars>>
    <3>1. NoForgottenEvent'
      BY <2>1, <2>4, <2>7 DEF WizardInv, NoForgottenEvent, Made, keptVars
    <3>2. \A d \in draft : d.event # NoEvent => storedEvents'[d.event].made # "no"
      BY <1>1, <2>5 DEF MaybeEvents
    <3>3. otherTab.event # NoEvent => storedEvents'[otherTab.event].made # "no"
      BY <1>1, <2>5
    <3> QED
      BY <1>1, <2>1, <2>4, <2>5, <2>7, <3>1, <3>2, <3>3, OtherDraftKeepsWizard DEF keptVars
  <2> QED
    BY <2>3, <2>6, <2>7
<1> QED
  BY <1>2, <1>3, <1>4, <1>5, <1>6, <1>7 DEF MaybePosters

\* What is stored of an event elsewhere puts an open page in doubt.
LEMMA EditedElsewhereKeepsWizard ==
    ASSUME WizardInv, NEW id \in EventIds, EditedElsewhere(id)
    PROVE  WizardInv'
<1>1. /\ UNCHANGED <<wizard, draft, displaced, otherTab, setupJob, removal, strays, forgotten, finished>>
      /\ doubt' = wizard.open /\ recovery' = [recovery EXCEPT !.dirty = Comparing]
  BY DEF EditedElsewhere, keptVars
<1>2. storedEvents \in [EventIds -> StoredEvents] /\ storedEvents[id] \in StoredEvents
  BY DEF WizardInv, WizardTypes
<1>3. PICK e \in StoredEvents : e.made = storedEvents[id].made /\ storedEvents' = [storedEvents EXCEPT ![id] = e]
  <2>1. ASSUME NEW p \in MaybePosters, storedEvents' = [storedEvents EXCEPT ![id].poster = p]
        PROVE  \E e \in StoredEvents : e.made = storedEvents[id].made /\ storedEvents' = [storedEvents EXCEPT ![id] = e]
    <3> DEFINE e == [storedEvents[id] EXCEPT !.poster = p]
    <3>1. e \in StoredEvents /\ e.made = storedEvents[id].made
      BY <1>2 DEF StoredEvents
    <3> QED
      BY <2>1, <3>1
  <2>2. ASSUME NEW l \in WizardLists, NEW new \in SUBSET Items,
               storedEvents' = [storedEvents EXCEPT ![id].lists[l] = new]
        PROVE  \E e \in StoredEvents : e.made = storedEvents[id].made /\ storedEvents' = [storedEvents EXCEPT ![id] = e]
    <3> DEFINE lines == [storedEvents[id].lists EXCEPT ![l] = new]
               e == [storedEvents[id] EXCEPT !.lists = lines]
    <3>1. lines \in ListPairs
      BY <1>2 DEF StoredEvents, ListPairs
    <3>2. storedEvents' = [storedEvents EXCEPT ![id] = e]
      BY <2>2
    <3> HIDE DEF lines
    <3>3. e \in StoredEvents /\ e.made = storedEvents[id].made
      BY <1>2, <3>1 DEF StoredEvents
    <3> QED
      BY <3>2, <3>3
  <2>3. CASE \E p \in Posters \cup {NoPoster} : storedEvents' = [storedEvents EXCEPT ![id].poster = p]
    BY <2>1, <2>3 DEF MaybePosters
  <2>4. ASSUME NEW l \in WizardLists, NEW i \in Items,
               \/ storedEvents' = [storedEvents EXCEPT ![id].lists[l] = @ \cup {i}]
               \/ storedEvents' = [storedEvents EXCEPT ![id].lists[l] = @ \ {i}]
        PROVE  \E e \in StoredEvents : e.made = storedEvents[id].made /\ storedEvents' = [storedEvents EXCEPT ![id] = e]
    <3>1. storedEvents[id].lists[l] \subseteq Items
      BY <1>2 DEF StoredEvents, ListPairs
    <3> DEFINE longer == storedEvents[id].lists[l] \cup {i}
               shorter == storedEvents[id].lists[l] \ {i}
    <3>2. longer \in SUBSET Items /\ shorter \in SUBSET Items
      BY <3>1
    <3>3. \/ storedEvents' = [storedEvents EXCEPT ![id].lists[l] = longer]
          \/ storedEvents' = [storedEvents EXCEPT ![id].lists[l] = shorter]
      BY <2>4
    <3> HIDE DEF longer, shorter
    <3> QED
      BY <2>2, <3>2, <3>3
  <2> QED
    BY <2>3, <2>4 DEF EditedElsewhere
<1>4. /\ storedEvents' \in [EventIds -> StoredEvents] /\ \A x \in EventIds : storedEvents'[x].made = storedEvents[x].made
  BY <1>2, <1>3
<1>5. /\ recovery' \in {Calm} \cup OtherReads \cup FoundDrafts /\ recovery'.at = recovery.at
      /\ recovery'.at = "found" => recovery'.dirty
      /\ recovery'.at = "idle" => recovery' = Calm
  BY <1>1, ReadDirtied DEF WizardInv
<1>6. /\ wizard.event \in EventIds \cup {NoEvent} /\ wizard.open \in BOOLEAN
      /\ otherTab.event \in EventIds \cup {NoEvent} /\ \A d \in draft : d.event \in EventIds \cup {NoEvent}
  BY DEF WizardInv, WizardTypes, Pages, KeptPages, Tabs, MaybeEvents
<1>7. Loading' = Loading /\ Comparing' = Comparing /\ (Comparing => wizard.open /\ wizard.event \in EventIds)
  BY <1>1, <1>5, <1>6, CalmIsIdle DEF Loading, Comparing, WizardInv, PageIsKept
<1>8. WizardTypes'
  BY <1>1, <1>4, <1>5, <1>6 DEF WizardInv, WizardTypes
<1>9. PageIsKept'
  BY <1>1, <1>5, <1>7 DEF WizardInv, PageIsKept, Comparing
<1>10. EventsAreKnown'
  <2>1. recovery.at = "missing" => Comparing
    BY DEF Comparing
  <2> QED
    BY <1>1, <1>4, <1>5, <1>6, <1>7, <2>1 DEF WizardInv, EventsAreKnown
<1>11. JobFitsPage' /\ RecoveryFits' /\ PageFollows'
  BY <1>1, <1>5, <1>7 DEF WizardInv, JobFitsPage, RecoveryFits, PageFollows
<1>12. NoForgottenEvent'
  BY <1>1, <1>4 DEF WizardInv, NoForgottenEvent, Made
<1> QED
  BY <1>8, <1>9, <1>10, <1>11, <1>12 DEF WizardInv

LEMMA WizardStepKeepsInv ==
    ASSUME WizardInv, WizardNext \/ UNCHANGED wizardVars
    PROVE  WizardInv'
<1>1. CASE UNCHANGED wizardVars
  BY <1>1 DEF wizardVars, keptVars, otherTabVars, WizardInv, WizardTypes, PageIsKept, EventsAreKnown,
         JobFitsPage, RecoveryFits,
              PageFollows, NoForgottenEvent, Made, Loading, Comparing, AddedUnheard, RemovedUnheard
<1>2. CASE WizardNext
  BY <1>2, OpensKeepsWizard, RecoveryHandledKeepsWizard, RecoveryEndsKeepsWizard, LeavesKeepWizard,
     PageStepsKeepWizard, AsksKeepWizard, RemovesItemKeepsWizard, ChangeHandledKeepsWizard,
     RemovalHandledKeepsWizard, StrayHandledKeepsWizard, LossesKeepWizard, DraftDeletedKeepsWizard,
     RemovalArrivesKeepsWizard, SaveArrivesKeepsWizard, AddArrivesKeepsWizard,
     OtherTabKeepsWizard, EditedElsewhereKeepsWizard
     DEF WizardNext
<1> QED
  BY <1>1, <1>2

LEMMA WizardStart == WizardInit => WizardInv
<1> SUFFICES ASSUME WizardInit
             PROVE  WizardInv
  OBVIOUS
<1>1. ~Loading /\ ~Comparing /\ setupJob.at = "idle" /\ removal.at = "idle" /\ recovery.at = "idle"
      /\ wizard = BlankDraft /\ draft = {}
  BY CalmIsIdle DEF WizardInit, Loading, Comparing
<1>2. [made |-> "no", poster |-> NoPoster, lists |-> NoLists] \in StoredEvents
  BY BlankPage DEF StoredEvents, MaybePosters
<1>3. WizardTypes
  BY <1>2, BlankPage DEF WizardInit, WizardTypes, NoTab, Tabs, MaybeEvents
<1>4. PageIsKept
  BY <1>1, BlankPage DEF WizardInit, PageIsKept
<1>5. EventsAreKnown /\ JobFitsPage /\ RecoveryFits /\ PageFollows
  BY <1>1, BlankPage DEF WizardInit, NoTab, EventsAreKnown, JobFitsPage, RecoveryFits, PageFollows
<1>6. NoForgottenEvent
  BY DEF WizardInit, NoForgottenEvent
<1> QED
  BY <1>3, <1>4, <1>5, <1>6 DEF WizardInv

LEMMA WizardInvHolds == WizardInv => WizardShowsStored /\ NoForgottenEvent
<1> SUFFICES ASSUME WizardInv, wizard.open, wizard.step > 1, ~doubt, ~Loading, removal.at = "idle"
             PROVE  /\ wizard.lists = storedEvents[wizard.event].lists
                    /\ wizard.poster = storedEvents[wizard.event].poster
  BY DEF WizardInv, WizardShowsStored
<1>1. wizard.event # NoEvent /\ wizard.event \in EventIds
  BY DEF WizardInv, PageIsKept, WizardTypes, Pages, MaybeEvents
<1>2. wizard.lists \in ListPairs /\ storedEvents[wizard.event].lists \in ListPairs
  BY <1>1 DEF WizardInv, WizardTypes, Pages, StoredEvents
<1>3. \A l, i : ~AddedUnheard(l, i) /\ ~RemovedUnheard(l, i)
  BY DEF AddedUnheard, RemovedUnheard, Loading
<1>4. /\ \A l \in WizardLists, i \in Items :
             i \in storedEvents[wizard.event].lists[l] <=> i \in wizard.lists[l]
      /\ wizard.poster = storedEvents[wizard.event].poster
  BY <1>1, <1>3 DEF WizardInv, PageFollows
<1>5. \A l \in WizardLists : wizard.lists[l] = storedEvents[wizard.event].lists[l]
  BY <1>2, <1>4 DEF ListPairs
<1> QED
  BY <1>2, <1>4, <1>5 DEF ListPairs

\* The page that sets up an event, in one tab among others: at rest, and unless something it did
\* not hear of was done to its event since it last read it, it shows the lists and the poster the
\* server has; and every event on the server is named by the kept draft, unless the answer to its
\* creation was lost, its set-up was finished, or a tab of another event has kept its own draft
\* over it; through reloads, late requests of pages that are gone, other tabs that write the same
\* draft, and changes and deletions of the event elsewhere (events/new.tsx).
THEOREM WizardLosesNothing == WizardSpec => [](WizardShowsStored /\ NoForgottenEvent)
<1>1. WizardInv /\ [WizardNext]_wizardVars => WizardInv'
  BY WizardStepKeepsInv
<1> QED
  BY <1>1, WizardStart, WizardInvHolds, PTL DEF WizardSpec

-----------------------------------------------------------------------------
(* ALL FORMS *)

FormsInv == CalendarInv /\ CardInv /\ EditorInv /\ SiteInv /\ WizardInv

LEMMA FormsStep ==
    ASSUME ClientsNext \/ UNCHANGED clientsVars
    PROVE  /\ CalendarNext \/ UNCHANGED calendarVars
           /\ CardNext \/ UNCHANGED cardVars
           /\ EditorNext \/ UNCHANGED editorVars
           /\ SiteDeskNext \/ UNCHANGED siteDeskVars
           /\ WizardNext \/ UNCHANGED wizardVars
<1>1. CASE UNCHANGED clientsVars
  BY <1>1 DEF clientsVars
<1>2. CASE ClientsNext
  BY <1>2 DEF ClientsNext, Rests
<1> QED
  BY <1>1, <1>2

\* The forms show what is stored, whichever part of the clients is followed, each with the
\* exceptions its property names: the runner's card (a save that failed without an answer or was
\* left behind), the page that sets an event up (lost answers, other tabs), the editors of an
\* event and of the public site (answers that crossed a reading of the panel), and the filters
\* of the calendar.
THEOREM FormsTellTruth == ClientsSpec => []FormsShowStored
<1>1. ClientsInit => FormsInv
  BY CalendarStart, CardStart, EditorStart, SiteStart, WizardStart DEF ClientsInit, FormsInv
<1>2. FormsInv /\ [ClientsNext]_clientsVars => FormsInv'
  <2> SUFFICES ASSUME FormsInv, ClientsNext \/ UNCHANGED clientsVars
               PROVE  FormsInv'
    OBVIOUS
  <2>1. CalendarInv' /\ CardInv'
    BY FormsStep, CalendarStepKeepsInv, CardStepKeepsInv DEF FormsInv
  <2>2. EditorInv' /\ SiteInv' /\ WizardInv'
    BY FormsStep, EditorStepKeepsInv, SiteStepKeepsInv, WizardStepKeepsInv DEF FormsInv
  <2> QED
    BY <2>1, <2>2 DEF FormsInv
<1>3. FormsInv => FormsShowStored
  BY CalendarInvHolds, CardInvHolds, EditorInvHolds, SiteInvHolds, WizardInvHolds
     DEF FormsInv, FormsShowStored
<1> QED
  BY <1>1, <1>2, <1>3, PTL DEF ClientsSpec
=============================================================================
