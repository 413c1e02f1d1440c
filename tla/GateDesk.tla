------------------------------ MODULE GateDesk ------------------------------
(***************************************************************************)
(* Race day: the check-in stations of the staff pages (pages/admin/checkin *)
(* and the camera reader) and the check-ins of the service.  A runner may  *)
(* hold a ticket for each race; a scan is a ticket code or the runner's    *)
(* e-mail, which a station looks up among the tickets of its own race.     *)
(***************************************************************************)
EXTENDS Naturals, FiniteSets

CONSTANTS
    Gates,       \* stations
    Races,       \* one ticket of the runner each
    GateScans,   \* bound: kits counted
    NoRace

ASSUME GateAssumption == NoRace \notin Races /\ GateScans \in Nat

VARIABLES
    tickets,  \* the service: confirmed registrations
    admitted, \* the service: check_ins
    station,  \* at each gate: what loaded, selectedEventId, the registrations it knows and
              \* which of them it shows as checked in, and recentCheckins
    scan,     \* handleProcessScan of each gate
    kits      \* kits handed out for a ticket, up to the bound

gateVars == <<tickets, admitted, station, scan, kits>>

NoScan == [at |-> "idle", race |-> NoRace, code |-> NoRace]
NewStation ==
    [page |-> "loading", race |-> NoRace, known |-> {}, checked |-> {}, recent |-> {}, switched |-> FALSE]

GateInit ==
    /\ tickets = Races /\ admitted = {} /\ kits = [t \in Races |-> 0]
    /\ station = [g \in Gates |-> NewStation] /\ scan = [g \in Gates |-> NoScan]

\* an entry is withdrawn (withdrawing one at the gate is a matter of RegistrationService)
TicketActs ==
    /\ \E t \in tickets \ admitted : tickets' = tickets \ {t}
    /\ UNCHANGED <<admitted, station, scan, kits>>

-----------------------------------------------------------------------------
(* The station. *)

\* recentForEvent
RecentFor(checked, r) == checked \intersect {r}

\* loadStation: the events that are announced and the runners; the first event is selected.
\* It runs when the page opens and on "Try again".
LoadsStation(g) ==
    /\ station[g].page \in {"loading", "failed"}
    /\ \/ \E r \in Races :
            station' = [station EXCEPT ![g] =
                [NewStation EXCEPT !.page = "ready", !.race = r, !.known = tickets,
                                   !.checked = admitted, !.recent = RecentFor(admitted, r)]]
       \/ station' = [station EXCEPT ![g].page = "failed"]
    /\ UNCHANGED <<tickets, admitted, scan, kits>>

\* the select is not disabled while a ticket is verified
PicksRace(g) ==
    /\ station[g].page = "ready"
    /\ \E r \in Races \ {station[g].race} :
         station' = [station EXCEPT ![g].race = r, ![g].recent = RecentFor(station[g].checked, r),
                                    ![g].switched = scan[g] # NoScan]
    /\ UNCHANGED <<tickets, admitted, scan, kits>>

\* resolveScanTarget: an e-mail finds the ticket of this gate's race among those it knows;
\* anything that is not found is sent as it is
ScanTarget(g, input) ==
    IF input # "email" THEN input
    ELSE IF station[g].race \in station[g].known THEN station[g].race ELSE NoRace

\* a scan is refused while another one is verified, and the camera pauses
Scans(g) ==
    /\ station[g].page = "ready" /\ scan[g] = NoScan
    /\ \E input \in Races \union {"email"} :
         scan' = [scan EXCEPT ![g] = [at |-> "asked", race |-> station[g].race,
                                      code |-> ScanTarget(g, input)]]
    /\ UNCHANGED <<tickets, admitted, station, kits>>

-----------------------------------------------------------------------------
(* The service. *)

\* Mutant: a ticket that was checked in is admitted again.
GateVerdictAgain(s) ==
    IF s.code \notin tickets \/ s.code # s.race THEN "error" ELSE "success"

\* checkin.Service.CheckIn: a ticket it knows, confirmed, of this event, for the first time
GateVerdict(s) ==
    IF s.code \notin tickets THEN "error"
    ELSE IF s.code # s.race THEN "error"
    ELSE IF s.code \in admitted THEN "already" ELSE "success"

CheckInHandled(g) ==
    /\ scan[g].at = "asked"
    /\ LET v == GateVerdict(scan[g])
       IN  /\ scan' = [scan EXCEPT ![g].at = v]
           /\ admitted' = IF v = "success" THEN admitted \union {scan[g].code} ELSE admitted
    /\ UNCHANGED <<tickets, station, kits>>

\* success is the word to hand the kit over (lastResult); an answer that is lost is an error
ScanArrives(g) ==
    /\ scan[g] # NoScan
    /\ \E v \in {scan[g].at, "error"} \ {"asked"} :
         /\ station' = [station EXCEPT
                ![g].checked = IF v = "success" THEN @ \union ({scan[g].code} \intersect station[g].known) ELSE @,
                ![g].recent = IF v = "success" THEN @ \union {scan[g].code} ELSE @]
         /\ kits' = IF v = "success" /\ kits[scan[g].code] < GateScans
                    THEN [kits EXCEPT ![scan[g].code] = @ + 1] ELSE kits
    /\ scan' = [scan EXCEPT ![g] = NoScan]
    /\ UNCHANGED <<tickets, admitted>>

GateNext ==
    \/ TicketActs
    \/ \E g \in Gates :
         LoadsStation(g) \/ PicksRace(g) \/ Scans(g) \/ CheckInHandled(g) \/ ScanArrives(g)

GateSpec == GateInit /\ [][GateNext]_gateVars

-----------------------------------------------------------------------------
\* Over all stations a ticket hands out one kit, and only for a runner the service has
\* checked in, whatever answers are lost or scans repeated; what a station shows as checked
\* in is so, and its feed lists tickets of its own race unless the race was changed while a
\* ticket was verified.
GateIsTrue ==
    /\ \A t \in Races : kits[t] <= (IF t \in admitted THEN 1 ELSE 0)
    /\ \A g \in Gates :
         /\ station[g].checked \union station[g].recent \subseteq admitted
         /\ station[g].switched \/ station[g].recent \subseteq {station[g].race}
=============================================================================
