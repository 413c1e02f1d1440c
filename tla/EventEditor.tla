----------------------------- MODULE EventEditor -----------------------------
(***************************************************************************)
(* The page that edits a stored event                                      *)
(* (frontend/src/pages/admin/events/[id]/edit.tsx) and the editors under   *)
(* its tabs.  Each panel keeps a copy of what the server has and patches   *)
(* it with the answers to its own requests; the panels differ in what an   *)
(* answer is patched into, and in what they let run at the same time.      *)
(***************************************************************************)
EXTENDS Naturals

CONSTANTS
    Lines,     \* the lines of the panel: categories, answers, transmissions, ...
    EditJobs   \* bound: requests made of one panel

VARIABLES
    panel,     \* the tab that is worked on
    rows,      \* the server's lines: Absent, a version, or Ended
    seen,      \* the lines the panel shows
    loaded,    \* loadEvent has ended
    jobs,      \* requests on their way
    busy,      \* busyId of a list editor
    editsAsked,     \* requests made so far
    panelCrossed    \* history: requests overlapped in a way the panel gets wrong,
               \* or an answer was lost

editorVars == <<panel, rows, seen, loaded, jobs, busy, editsAsked, panelCrossed>>

ListPanels == {"categories", "schedule", "faq", "rules"}
Absent == 0
Written == {1, 2}
Ended == 3

\* The line a request works on; "new" is the form under the list.
Row(j) == IF j.kind = "add" THEN "new" ELSE j.line

-----------------------------------------------------------------------------
\* loadEvent: when the second read fails the panels stay empty.
LoadsEvent ==
    /\ ~loaded
    /\ loaded' = TRUE
    /\ \/ seen' = rows /\ UNCHANGED panelCrossed
       \/ panel # "details" /\ seen' = [l \in Lines |-> Absent] /\ panelCrossed' = TRUE
    /\ UNCHANGED <<panel, rows, jobs, busy, editsAsked>>

\* What holds a button back: busyId knows the last row only, a form its own
\* request, the composer any of its own.
Held(kind, l) ==
    CASE panel \in ListPanels -> busy = (IF kind = "add" THEN "new" ELSE l)
      [] panel = "details" -> \E j \in jobs : j.line = l
      [] panel = "transmissions" /\ kind = "remove" -> \E j \in jobs : j.kind = "remove" /\ j.line = l
      [] panel = "transmissions" /\ kind # "remove" -> \E j \in jobs : j.kind # "remove"

Crosses(l) ==
    IF panel = "transmissions" THEN \E j \in jobs : j.line = l ELSE jobs # {}

AsksOfPanel(kind, l, v) ==
    /\ loaded /\ editsAsked < EditJobs
    /\ ~Held(kind, l)
    /\ jobs' = jobs \cup {[no |-> editsAsked, at |-> "sent", kind |-> kind, line |-> l, value |-> v, from |-> seen]}
    /\ busy' = IF panel \in ListPanels THEN (IF kind = "add" THEN "new" ELSE l) ELSE busy
    /\ editsAsked' = editsAsked + 1
    /\ panelCrossed' = (panelCrossed \/ Crosses(l))
    /\ UNCHANGED <<panel, rows, seen, loaded>>

AddsLine(l) ==
    /\ panel # "details"
    /\ seen[l] = Absent /\ rows[l] = Absent /\ \A j \in jobs : j.line # l
    /\ AsksOfPanel("add", l, 1)

SavesLine(l) ==
    /\ seen[l] \in Written
    /\ AsksOfPanel("save", l, IF seen[l] = 1 THEN 2 ELSE 1)

\* Removal of a line; a transmission is cancelled and stays on the board.
RemovesLine(l) ==
    /\ panel # "details"
    /\ seen[l] \in Written
    /\ AsksOfPanel("remove", l, IF panel = "transmissions" THEN Ended ELSE Absent)

-----------------------------------------------------------------------------
\* The server takes a request if the line is still there to be changed.
LineHandled(j) ==
    /\ j \in jobs /\ j.at = "sent"
    /\ IF j.kind = "add" THEN rows[j.line] = Absent ELSE rows[j.line] \in Written
    /\ rows' = [rows EXCEPT ![j.line] = j.value]
    /\ jobs' = (jobs \ {j}) \cup {[j EXCEPT !.at = "done",
                                             !.from = IF panel = "details" THEN rows' ELSE @]}
    /\ UNCHANGED <<panel, seen, loaded, busy, editsAsked, panelCrossed>>

Ends(j) ==
    /\ jobs' = jobs \ {j}
    /\ busy' = IF panel \in ListPanels THEN "none" ELSE busy

\* Mutant: the board is patched as it was when the request was made.
PatchedAsItWas(j) == [j.from EXCEPT ![j.line] = j.value]

\* The details take the whole event of the answer; a list editor puts the line
\* into the list it was rendered with; the board patches what it shows now.
Patched(j) ==
    CASE panel = "details" -> j.from
      [] panel \in ListPanels -> [j.from EXCEPT ![j.line] = j.value]
      [] panel = "transmissions" -> [seen EXCEPT ![j.line] = j.value]

LineArrives(j) ==
    /\ j \in jobs /\ j.at = "done"
    /\ seen' = Patched(j)
    /\ Ends(j)
    /\ UNCHANGED <<panel, rows, loaded, editsAsked, panelCrossed>>

LineFails(j) ==
    /\ j \in jobs
    /\ Ends(j)
    /\ panelCrossed' = (panelCrossed \/ j.at = "done")
    /\ UNCHANGED <<panel, rows, seen, loaded, editsAsked>>

-----------------------------------------------------------------------------
EditorInit ==
    /\ panel \in ListPanels \cup {"details", "transmissions"}
    /\ rows \in [Lines -> {Absent, 1}]
    /\ panel = "details" => \A l \in Lines : rows[l] = 1
    /\ seen = [l \in Lines |-> Absent]
    /\ loaded = FALSE /\ jobs = {} /\ busy = "none" /\ editsAsked = 0 /\ panelCrossed = FALSE

EditorNext ==
    \/ LoadsEvent
    \/ \E l \in Lines : AddsLine(l) \/ SavesLine(l) \/ RemovesLine(l)
    \/ \E j \in jobs : LineHandled(j) \/ LineArrives(j) \/ LineFails(j)

EditorSpec == EditorInit /\ [][EditorNext]_editorVars

-----------------------------------------------------------------------------
\* A panel at rest shows what the server has, unless an answer was lost or two
\* requests overlapped where the panel's patch gets it wrong: any two of a list
\* editor or of the details, two on the same line of the transmissions.
EditorShowsStored == loaded /\ jobs = {} /\ ~panelCrossed => seen = rows
=============================================================================
