----------------------------- MODULE DeskProofs -----------------------------
(***************************************************************************)
(* The desks of the staff tell the truth, for every set of accounts,       *)
(* races, entrants, tickets, messages and log entries, and however many    *)
(* requests are under way: each desk has an inductive invariant, and they  *)
(* hold together in the behaviours that follow any of the clients' parts.  *)
(***************************************************************************)
EXTENDS MCClients, FiniteSetTheorems, TLAPS

-----------------------------------------------------------------------------
(* ROLES *)
(*************************************************************************)
(* The page that assigns the roles tells them truly.  It locks one row   *)
(* at a time, so an account that is not crossed has one change under way *)
(* at most: what the page shows of it is its role, or that change is     *)
(* stored and its answer will bring the row to it.                       *)
(*************************************************************************)

\* one change of an account at a time, unless two overlapped
OneChange ==
    \A c, d \in RoleRequests :
        UnderWay(c) /\ UnderWay(d) /\ roleChange[c].of = roleChange[d].of
          /\ roleChange[c].of \notin crossing => c = d

\* what the page shows of an account, or will show when its answer comes
Followed(a) ==
    \/ \E c \in RoleRequests :
          roleChange[c].at = "done" /\ roleChange[c].of = a /\ roleChange[c].to = role[a]
    \/ /\ team[a] = role[a]
       /\ \A c \in RoleRequests : roleChange[c].of = a => roleChange[c].at # "done"

PageInv ==
    /\ TeamTypeOK
    /\ OneChange
    /\ team = NotLoaded => roleChange = [c \in RoleRequests |-> NoRoleChange]
    /\ updating # 0 => \E c \in RoleRequests : UnderWay(c)
    /\ team # NotLoaded => \A a \in Accounts \ (unseen \union crossing) : Followed(a)

-----------------------------------------------------------------------------
\* The strengthened invariant implies what the page promises.
LEMMA PageInvImplies == PageInv => TeamPageIsTrue
BY DEF PageInv, TeamPageIsTrue, Followed, UnderWay

-----------------------------------------------------------------------------
(* The page.  Each lemma is a step of it. *)

\* A page that is idle follows every role it has read.
LEMMA TeamLoadsKeepsPage == PageInv /\ TeamLoads => PageInv'
<1> SUFFICES ASSUME PageInv, TeamLoads
             PROVE  PageInv'
  OBVIOUS
<1>1. TeamTypeOK'
  BY DEF PageInv, TeamTypeOK, TeamLoads, accountVars, NotLoaded, NoRoleChange
<1>2. roleChange' = [c \in RoleRequests |-> NoRoleChange]
  BY DEF PageInv, TeamLoads
<1>3. \A a \in Accounts : Followed(a)'
  BY <1>2 DEF Followed, TeamLoads, NoRoleChange, accountVars
<1>4. OneChange' /\ (updating' # 0 => \E c \in RoleRequests : UnderWay(c)')
  BY DEF PageInv, OneChange, UnderWay, TeamLoads
<1> QED
  BY <1>1, <1>2, <1>3, <1>4 DEF PageInv

\* A press adds a change of an account, which is crossed if it has another under way.
LEMMA PressesRoleKeepsPage ==
    ASSUME PageInv, NEW c \in RoleRequests, NEW a \in Accounts, NEW new \in Roles,
           PressesRole(c, a, new)
    PROVE  PageInv'
<1> DEFINE pressed == [at |-> "asked", of |-> a, to |-> new]
<1>1. roleChange' = [roleChange EXCEPT ![c] = pressed] /\ roleChange[c] = NoRoleChange
  BY DEF PressesRole
<1>2. DOMAIN roleChange = RoleRequests
  BY DEF PageInv, TeamTypeOK
<1>3. \A d \in RoleRequests : roleChange'[d] = IF d = c THEN pressed ELSE roleChange[d]
  BY <1>1, <1>2
<1>4. UNCHANGED <<role, claimed, team, unseen>> /\ updating' = a
      /\ crossing' = crossing \union Overlapping(a) /\ team # NotLoaded
      /\ roleTurns < RoleBound /\ roleTurns' = roleTurns + 1
  BY DEF PressesRole
<1>5. TeamTypeOK'
  <2>1. roleChange' \in [RoleRequests -> {NoRoleChange} \union
           [at : {"asked", "done", "refused", "late"}, of : Accounts, to : Roles]]
    BY <1>1 DEF PageInv, TeamTypeOK
  <2>2. roleTurns' \in 0..RoleBound
    BY <1>4, TeamAssumption DEF PageInv, TeamTypeOK
  <2>3. crossing' \subseteq Accounts
    BY <1>4 DEF PageInv, TeamTypeOK, Overlapping
  <2> QED
    BY <1>4, <2>1, <2>2, <2>3 DEF PageInv, TeamTypeOK, NotLoaded, NoRoleChange
<1>6. OneChange'
  <2> SUFFICES ASSUME NEW d \in RoleRequests, NEW b \in RoleRequests,
                      UnderWay(d)', UnderWay(b)',
                      roleChange'[d].of = roleChange'[b].of,
                      roleChange'[d].of \notin crossing'
               PROVE  d = b
    BY DEF OneChange
  <2>1. CASE d # c /\ b # c
    BY <1>3, <1>4, <2>1 DEF PageInv, OneChange, UnderWay
  <2>2. ASSUME NEW k \in RoleRequests, k # c, UnderWay(k)', roleChange'[k].of = a
        PROVE  a \in crossing'
    BY <1>3, <1>4, <2>2 DEF Overlapping, UnderWay
  <2> QED
    BY <1>3, <2>1, <2>2
<1>7. \E d \in RoleRequests : UnderWay(d)'
  BY <1>3 DEF UnderWay
<1>8. ASSUME NEW b \in Accounts \ (unseen' \union crossing')
      PROVE  Followed(b)'
  <2>1. Followed(b)
    BY <1>4 DEF PageInv
  <2>2. \A d \in RoleRequests : roleChange'[d].at = "done" =>
            roleChange'[d] = roleChange[d]
    BY <1>3
  <2>3. \A d \in RoleRequests : roleChange[d].at = "done" => roleChange'[d] = roleChange[d]
    BY <1>1, <1>3 DEF NoRoleChange
  <2> QED
    BY <1>4, <2>1, <2>2, <2>3 DEF Followed
<1> QED
  BY <1>4, <1>5, <1>6, <1>7, <1>8 DEF PageInv

\* A change that is stored will be shown when its answer comes; one that is refused, or
\* that nobody waits for, changes nothing the page follows.
LEMMA RoleHandledKeepsPage ==
    ASSUME PageInv, NEW c \in RoleRequests, RoleHandled(c)
    PROVE  PageInv'
<1> DEFINE asked == roleChange[c]
           answered(at) == IF asked.at = "late" THEN NoRoleChange
                          ELSE [at |-> at, of |-> asked.of, to |-> asked.to]
<1>1. asked.at \in {"asked", "late"} /\ UNCHANGED <<roleTurns, team, updating, crossing>>
  BY DEF RoleHandled
<1>2. asked \in [at : {"asked", "late"}, of : Accounts, to : Roles]
  BY <1>1 DEF PageInv, TeamTypeOK, NoRoleChange
<1>3. team # NotLoaded
  BY <1>1 DEF PageInv, NoRoleChange
<1>4. PICK at \in {"done", "refused"} :
          /\ roleChange' = [roleChange EXCEPT ![c] = answered(at)]
          /\ at = "refused" => UNCHANGED <<role, claimed, unseen>>
          /\ at = "done" => ChangesRole(Me, asked.of, asked.to)
                            /\ unseen' = IF asked.at = "late" THEN unseen \union {asked.of}
                                         ELSE unseen \ {asked.of}
  BY DEF RoleHandled
<1>5. \A d \in RoleRequests : roleChange'[d] = IF d = c THEN answered(at) ELSE roleChange[d]
  BY <1>4 DEF PageInv, TeamTypeOK
<1>6. role' = IF at = "done" THEN [role EXCEPT ![asked.of] = asked.to] ELSE role
  BY <1>4 DEF ChangesRole
<1>7. answered(at) \in {NoRoleChange} \union [at : {"done", "refused"}, of : Accounts, to : Roles]
  BY <1>2
<1>8. asked.at = "asked" => answered(at) = [at |-> at, of |-> asked.of, to |-> asked.to]
  BY <1>2
<1>9. TeamTypeOK'
  <2>1. roleChange' \in [RoleRequests -> {NoRoleChange} \union
           [at : {"asked", "done", "refused", "late"}, of : Accounts, to : Roles]]
    BY <1>4, <1>7 DEF PageInv, TeamTypeOK
  <2>2. role' \in [Accounts -> Roles]
    BY <1>2, <1>6 DEF PageInv, TeamTypeOK
  <2>3. claimed' \subseteq Accounts /\ unseen' \subseteq Accounts
    BY <1>2, <1>4 DEF PageInv, TeamTypeOK, ChangesRole
  <2> QED
    BY <1>1, <2>1, <2>2, <2>3 DEF PageInv, TeamTypeOK, NotLoaded, NoRoleChange
<1>10. \A d \in RoleRequests : UnderWay(d)' => UnderWay(d) /\ roleChange'[d].of = roleChange[d].of
  BY <1>1, <1>5, <1>8 DEF UnderWay, NoRoleChange
<1>11. OneChange'
  BY <1>1, <1>10 DEF PageInv, OneChange
<1>12. updating' # 0 => \E d \in RoleRequests : UnderWay(d)'
  <2>1. \A d \in RoleRequests : UnderWay(d) => UnderWay(d)'
    BY <1>1, <1>5, <1>8 DEF UnderWay
  <2> QED
    BY <1>1, <2>1 DEF PageInv
<1>13. ASSUME NEW b \in Accounts \ (unseen' \union crossing')
       PROVE  Followed(b)'
  <2>1. CASE b = asked.of /\ at = "done"
    <3>1. asked.at = "asked"
      BY <1>1, <1>4, <2>1
    <3>2. roleChange'[c] = [at |-> "done", of |-> b, to |-> asked.to]
      BY <1>5, <1>8, <2>1, <3>1
    <3>3. role'[b] = asked.to
      BY <1>6, <2>1 DEF PageInv, TeamTypeOK
    <3> QED
      BY <3>2, <3>3 DEF Followed
  <2>2. CASE ~(b = asked.of /\ at = "done")
    <3>1. b \notin unseen /\ b \notin crossing
      BY <1>1, <1>4, <2>2
    <3>2. Followed(b) /\ role'[b] = role[b] /\ team'[b] = team[b]
      BY <1>1, <1>3, <1>6, <2>2, <3>1 DEF PageInv, TeamTypeOK
    <3>3. \A d \in RoleRequests :
              roleChange[d].at = "done" => roleChange'[d] = roleChange[d]
      BY <1>1, <1>5
    <3>4. \A d \in RoleRequests :
              roleChange'[d].at = "done" /\ roleChange'[d].of = b => roleChange'[d] = roleChange[d]
      BY <1>1, <1>5, <1>8, <2>2 DEF NoRoleChange
    <3> QED
      BY <3>2, <3>3, <3>4 DEF Followed
  <2> QED
    BY <2>1, <2>2
<1> QED
  BY <1>1, <1>3, <1>9, <1>11, <1>12, <1>13 DEF PageInv

\* An answer brings the row to the role that was stored, and unlocks every row.
LEMMA RoleAnsweredKeepsPage ==
    ASSUME PageInv, NEW c \in RoleRequests, RoleAnswered(c)
    PROVE  PageInv'
<1> DEFINE change == roleChange[c]
<1>1. /\ change.at \in {"done", "refused"} /\ updating' = 0
      /\ team' = IF change.at = "done" THEN [team EXCEPT ![change.of] = change.to] ELSE team
      /\ roleChange' = [roleChange EXCEPT ![c] = NoRoleChange]
      /\ UNCHANGED <<role, claimed, roleTurns, unseen, crossing>>
  BY DEF RoleAnswered, accountVars
<1>2. change \in [at : {"done", "refused"}, of : Accounts, to : Roles]
  BY <1>1 DEF PageInv, TeamTypeOK, NoRoleChange
<1>3. team # NotLoaded /\ team \in [Accounts -> Roles]
  BY <1>1 DEF PageInv, TeamTypeOK, NoRoleChange
<1>4. \A d \in RoleRequests : roleChange'[d] = IF d = c THEN NoRoleChange ELSE roleChange[d]
  BY <1>1 DEF PageInv, TeamTypeOK
<1>5. team' \in [Accounts -> Roles]
  BY <1>1, <1>2, <1>3
<1>6. team' # NotLoaded
  BY <1>5, TeamAssumption DEF NotLoaded
<1>7. TeamTypeOK'
  <2>1. roleChange' \in [RoleRequests -> {NoRoleChange} \union
           [at : {"asked", "done", "refused", "late"}, of : Accounts, to : Roles]]
    BY <1>1 DEF PageInv, TeamTypeOK
  <2> QED
    BY <1>1, <1>5, <2>1 DEF PageInv, TeamTypeOK, NotLoaded, NoRoleChange
<1>8. OneChange'
  BY <1>1, <1>4 DEF PageInv, OneChange, UnderWay, NoRoleChange
<1>9. ASSUME NEW b \in Accounts \ (unseen' \union crossing')
      PROVE  Followed(b)'
  <2>1. Followed(b)
    BY <1>1, <1>3 DEF PageInv
  <2>2. \A d \in RoleRequests : roleChange'[d].at = "done" => d # c /\ roleChange'[d] = roleChange[d]
    BY <1>4 DEF NoRoleChange
  <2>3. CASE b # change.of
    <3>1. team'[b] = team[b]
      BY <1>1, <1>3, <2>3
    <3>2. \A d \in RoleRequests : roleChange[d].of = b => roleChange'[d] = roleChange[d]
      BY <1>4, <2>3
    <3> QED
      BY <1>1, <2>1, <2>2, <3>1, <3>2 DEF Followed
  <2>4. CASE b = change.of
    <3>1. ASSUME NEW d \in RoleRequests, roleChange[d].at = "done", roleChange[d].of = b
          PROVE  d = c
      BY <1>1, <2>4, <3>1 DEF PageInv, OneChange, UnderWay
    <3>2. \A d \in RoleRequests : ~(roleChange'[d].of = b /\ roleChange'[d].at = "done")
      BY <2>2, <3>1
    <3>3. team'[b] = role[b]
      <4>1. CASE change.at = "done"
        BY <1>1, <1>3, <2>1, <2>4, <3>1, <4>1 DEF Followed
      <4>2. CASE change.at # "done"
        BY <1>1, <2>1, <3>1, <4>2 DEF Followed
      <4> QED
        BY <4>1, <4>2
    <3> QED
      BY <1>1, <3>2, <3>3 DEF Followed
  <2> QED
    BY <2>3, <2>4
<1> QED
  BY <1>1, <1>6, <1>7, <1>8, <1>9 DEF PageInv

\* What becomes of a change whose answer is lost is not known any more.
LEMMA RoleLostKeepsPage ==
    ASSUME PageInv, NEW c \in RoleRequests, RoleLost(c)
    PROVE  PageInv'
<1> DEFINE change == roleChange[c]
           left == IF change.at = "asked" THEN [change EXCEPT !.at = "late"] ELSE NoRoleChange
<1>1. /\ change.at \in {"asked", "done"} /\ updating' = 0
      /\ roleChange' = [roleChange EXCEPT ![c] = left]
      /\ unseen' = unseen \union {change.of}
      /\ UNCHANGED <<role, claimed, roleTurns, team, crossing>>
  BY DEF RoleLost, accountVars
<1>2. change \in [at : {"asked", "done"}, of : Accounts, to : Roles]
  BY <1>1 DEF PageInv, TeamTypeOK, NoRoleChange
<1>3. team # NotLoaded
  BY <1>1 DEF PageInv, NoRoleChange
<1>4. \A d \in RoleRequests : roleChange'[d] = IF d = c THEN left ELSE roleChange[d]
  BY <1>1 DEF PageInv, TeamTypeOK
<1>5. left \in {NoRoleChange} \union [at : {"late"}, of : Accounts, to : Roles]
  BY <1>2
<1>6. TeamTypeOK'
  <2>1. roleChange' \in [RoleRequests -> {NoRoleChange} \union
           [at : {"asked", "done", "refused", "late"}, of : Accounts, to : Roles]]
    BY <1>1, <1>5 DEF PageInv, TeamTypeOK
  <2> QED
    BY <1>1, <1>2, <2>1 DEF PageInv, TeamTypeOK, NotLoaded, NoRoleChange
<1>7. \A d \in RoleRequests : roleChange'[d].at \in {"asked", "done", "refused"} =>
                                  d # c /\ roleChange'[d] = roleChange[d]
  BY <1>4, <1>5 DEF NoRoleChange
<1>8. OneChange'
  BY <1>1, <1>7 DEF PageInv, OneChange, UnderWay
<1>9. ASSUME NEW b \in Accounts \ (unseen' \union crossing')
      PROVE  Followed(b)'
  <2>1. Followed(b) /\ b # change.of
    BY <1>1, <1>3, <1>9 DEF PageInv
  <2>2. \A d \in RoleRequests : roleChange[d].of = b => roleChange'[d] = roleChange[d]
    BY <1>4, <2>1
  <2> QED
    BY <1>1, <1>7, <2>1, <2>2 DEF Followed
<1> QED
  BY <1>1, <1>3, <1>6, <1>8, <1>9 DEF PageInv

\* The page does not see what is changed elsewhere.
LEMMA ChangedElsewhereKeepsPage ==
    ASSUME PageInv, NEW a \in Accounts, NEW b \in Accounts, NEW new \in Roles,
           ChangedElsewhere(a, b, new)
    PROVE  PageInv'
<1>1. /\ roleTurns < RoleBound /\ roleTurns' = roleTurns + 1
      /\ role' = [role EXCEPT ![b] = new]
      /\ unseen' = IF team = NotLoaded THEN unseen ELSE unseen \union {b}
      /\ UNCHANGED <<claimed, team, updating, roleChange, crossing>>
  BY DEF ChangedElsewhere, ChangesRole
<1>2. TeamTypeOK'
  <2>1. roleTurns' \in 0..RoleBound
    BY <1>1, TeamAssumption DEF PageInv, TeamTypeOK
  <2> QED
    BY <1>1, <2>1 DEF PageInv, TeamTypeOK, NotLoaded, NoRoleChange
<1>3. team # NotLoaded => \A d \in Accounts \ (unseen' \union crossing') : Followed(d)'
  <2> SUFFICES ASSUME team # NotLoaded, NEW d \in Accounts \ (unseen' \union crossing')
               PROVE  Followed(d)'
    OBVIOUS
  <2>1. Followed(d) /\ role'[d] = role[d]
    BY <1>1 DEF PageInv, TeamTypeOK
  <2> QED
    BY <1>1, <2>1 DEF Followed
<1> QED
  BY <1>1, <1>2, <1>3 DEF PageInv, OneChange, UnderWay

\* Every step keeps the page's invariant.
LEMMA PageInvNext == PageInv /\ [TeamNext]_teamVars => PageInv'
<1> SUFFICES ASSUME PageInv, [TeamNext]_teamVars
             PROVE  PageInv'
  OBVIOUS
<1>1. CASE UNCHANGED <<role, roleTurns, teamPageVars>> /\ claimed' \subseteq Accounts
  <2>1. TeamTypeOK' /\ OneChange'
    BY <1>1 DEF PageInv, TeamTypeOK, OneChange, UnderWay, NotLoaded, NoRoleChange, teamPageVars
  <2>2. \A a \in Accounts : Followed(a) => Followed(a)'
    BY <1>1 DEF Followed, teamPageVars
  <2> QED
    BY <1>1, <2>1, <2>2 DEF PageInv, UnderWay, teamPageVars
<1>2. CASE UNCHANGED teamVars \/ \E a \in Accounts : TokenIssued(a) \/ TokensExpire(a)
  <2>1. UNCHANGED <<role, roleTurns, teamPageVars>> /\ claimed' \subseteq Accounts
    BY <1>2 DEF TokenIssued, TokensExpire, teamVars, accountVars, PageInv, TeamTypeOK
  <2> QED
    BY <1>1, <2>1
<1>3. CASE \E a, b \in Accounts, new \in Roles : ChangedElsewhere(a, b, new)
  BY <1>3, ChangedElsewhereKeepsPage
<1>4. CASE TeamLoads
  BY <1>4, TeamLoadsKeepsPage
<1>5. CASE \E c \in RoleRequests, a \in Accounts, new \in Roles : PressesRole(c, a, new)
  BY <1>5, PressesRoleKeepsPage
<1>6. CASE \E c \in RoleRequests : RoleHandled(c) \/ RoleAnswered(c) \/ RoleLost(c)
  BY <1>6, RoleHandledKeepsPage, RoleAnsweredKeepsPage, RoleLostKeepsPage
<1> QED
  BY <1>2, <1>3, <1>4, <1>5, <1>6 DEF TeamNext

\* Nothing is under way when the accounts are set up.
LEMMA TeamInvInit == TeamInit => PageInv
<1> SUFFICES ASSUME TeamInit
             PROVE  PageInv
  OBVIOUS
<1>1. TeamTypeOK
  <2>1. roleChange \in [RoleRequests -> {NoRoleChange}]
    BY DEF TeamInit
  <2>2. 0 \in 0..RoleBound
    BY TeamAssumption
  <2> QED
    BY <2>1, <2>2 DEF TeamInit, TeamTypeOK
<1>2. OneChange
  BY DEF TeamInit, OneChange, UnderWay, NoRoleChange
<1>3. team = NotLoaded /\ updating = 0 /\ roleChange = [c \in RoleRequests |-> NoRoleChange]
  BY DEF TeamInit
<1> QED
  BY <1>1, <1>2, <1>3 DEF PageInv

-----------------------------------------------------------------------------
\* The page of the roles tells the truth of every account that was changed on it alone, one
\* change at a time, although only the row of the last press is locked (updatingUserId).
THEOREM TeamPageTellsTruth == TeamSpec => []TeamPageIsTrue
<1>1. TeamInit => PageInv
  BY TeamInvInit
<1>2. PageInv /\ [TeamNext]_teamVars => PageInv'
  BY PageInvNext
<1>3. PageInv => TeamPageIsTrue
  BY PageInvImplies
<1> QED
  BY <1>1, <1>2, <1>3, PTL DEF TeamSpec

-----------------------------------------------------------------------------
(* THE CHECK-IN STATIONS *)

AtStation == [page : {"loading", "failed", "ready"}, race : Races \union {NoRace}, known : SUBSET Races,
         checked : SUBSET Races, recent : SUBSET Races, switched : BOOLEAN]

GateTypes ==
    /\ tickets \subseteq Races /\ admitted \subseteq Races
    /\ kits \in [Races -> Nat]
    /\ station \in [Gates -> AtStation]
    /\ scan \in [Gates -> [at : {"idle", "asked", "error", "already", "success"},
                           race : Races \union {NoRace}, code : Races \union {NoRace}]]

\* the scan of gate g was let in, and the word of it is on its way
LetIn(g, t) == scan[g].at = "success" /\ scan[g].code = t

\* one kit for a ticket: it is handed out, or one gate has the word to do so
OneKit ==
    \A t \in Races :
        /\ kits[t] \in {0, 1}
        /\ kits[t] = 1 => t \in admitted /\ \A g \in Gates : ~LetIn(g, t)
        /\ \A g, h \in Gates : LetIn(g, t) /\ LetIn(h, t) => g = h

\* what a gate was told is so, and about the race it had selected
GateKnows(g) ==
    /\ scan[g].at = "success" => scan[g].code \in admitted /\ scan[g].code = scan[g].race
    /\ scan[g] # NoScan => station[g].page = "ready" /\ (station[g].switched \/ scan[g].race = station[g].race)
    /\ station[g].checked \union station[g].recent \subseteq admitted
    /\ station[g].switched \/ station[g].recent \subseteq {station[g].race}

GateInv == GateTypes /\ OneKit /\ \A g \in Gates : GateKnows(g)

LEMMA StationStepsKeepGates ==
    ASSUME GateInv, NEW g \in Gates, LoadsStation(g) \/ PicksRace(g) \/ Scans(g)
    PROVE  GateInv'
<1> USE GateAssumption
<1>1. CASE LoadsStation(g)
  <2>1. UNCHANGED <<tickets, admitted, scan, kits>>
    BY <1>1 DEF LoadsStation
  <2>2. scan[g] = NoScan
    BY <1>1 DEF LoadsStation, GateInv, GateKnows
  <2>3. PICK s \in AtStation :
           /\ station' = [station EXCEPT ![g] = s]
           /\ s.checked \union s.recent \subseteq admitted
           /\ s.switched \/ s.recent \subseteq {s.race}
    <3>1. CASE station' = [station EXCEPT ![g].page = "failed"]
      <4> DEFINE new == [station[g] EXCEPT !.page = "failed"]
      <4>1. station' = [station EXCEPT ![g] = new]
        BY <3>1
      <4>2. station[g] \in AtStation /\ GateKnows(g)
        BY DEF GateInv, GateTypes
      <4>3. /\ new \in AtStation /\ new.checked = station[g].checked /\ new.recent = station[g].recent
            /\ new.race = station[g].race /\ new.switched = station[g].switched
        BY <4>2 DEF AtStation
      <4> HIDE DEF new
      <4> QED
        BY <4>1, <4>2, <4>3 DEF GateKnows
    <3>2. CASE station' # [station EXCEPT ![g].page = "failed"]
      <4>1. PICK r \in Races :
               station' = [station EXCEPT ![g] =
                   [NewStation EXCEPT !.page = "ready", !.race = r, !.known = tickets,
                                      !.checked = admitted, !.recent = RecentFor(admitted, r)]]
        BY <1>1, <3>2 DEF LoadsStation
      <4> DEFINE new == [NewStation EXCEPT !.page = "ready", !.race = r, !.known = tickets,
                                          !.checked = admitted, !.recent = RecentFor(admitted, r)]
      <4>2. NewStation \in AtStation
        BY DEF NewStation, AtStation
      <4>3. tickets \subseteq Races /\ admitted \subseteq Races /\ RecentFor(admitted, r) \subseteq Races
        BY DEF GateInv, GateTypes, RecentFor
      <4>4. /\ new \in AtStation /\ new.checked = admitted /\ new.race = r
            /\ new.recent = RecentFor(admitted, r)
        BY <4>2, <4>3 DEF AtStation
      <4>5. station' = [station EXCEPT ![g] = new]
        BY <4>1
      <4> HIDE DEF new
      <4> QED
        BY <4>4, <4>5 DEF RecentFor
    <3> QED
      BY <3>1, <3>2
  <2>4. GateTypes' /\ OneKit'
    BY <2>1, <2>3 DEF GateInv, GateTypes, OneKit, LetIn
  <2>5. GateKnows(g)'
    BY <2>1, <2>2, <2>3 DEF GateInv, GateTypes, GateKnows, NoScan
  <2>6. \A h \in Gates \ {g} : GateKnows(h)'
    BY <2>1, <2>3 DEF GateInv, GateTypes, GateKnows
  <2> QED
    BY <2>4, <2>5, <2>6 DEF GateInv
<1>2. CASE PicksRace(g)
  <2>1. PICK r \in Races :
           /\ station' = [station EXCEPT ![g].race = r, ![g].recent = RecentFor(station[g].checked, r),
                                         ![g].switched = scan[g] # NoScan]
           /\ UNCHANGED <<tickets, admitted, scan, kits>>
    BY <1>2 DEF PicksRace
  <2>2. station[g] \in AtStation
    BY DEF GateInv, GateTypes
  <2> DEFINE new == [station[g] EXCEPT !.race = r, !.recent = RecentFor(station[g].checked, r),
                                      !.switched = (scan[g] # NoScan)]
  <2>3. station' = [station EXCEPT ![g] = new]
    BY <2>1 DEF GateInv, GateTypes
  <2>4. RecentFor(station[g].checked, r) = station[g].checked \intersect {r}
    BY DEF RecentFor
  <2>5. /\ new \in AtStation /\ new.checked = station[g].checked /\ new.page = station[g].page
        /\ new.race = r /\ new.recent = station[g].checked \intersect {r}
        /\ new.switched = (scan[g] # NoScan)
    BY <2>2, <2>4 DEF AtStation
  <2> HIDE DEF new
  <2>6. GateTypes' /\ OneKit'
    <3>0. UNCHANGED <<tickets, admitted, scan, kits>> /\ new \in AtStation
      BY <2>1, <2>5
    <3>1. GateTypes'
      BY <2>3, <3>0 DEF GateInv, GateTypes
    <3>2. OneKit'
      BY <3>0 DEF GateInv, OneKit, LetIn
    <3> QED
      BY <3>1, <3>2
  <2>7. GateKnows(g)'
    BY <2>1, <2>3, <2>5 DEF GateInv, GateTypes, GateKnows
  <2>8. \A h \in Gates \ {g} : GateKnows(h)'
    BY <2>1, <2>3 DEF GateInv, GateTypes, GateKnows
  <2> QED
    BY <2>6, <2>7, <2>8 DEF GateInv
<1>3. CASE Scans(g)
  <2>1. /\ station[g].page = "ready"
        /\ UNCHANGED <<tickets, admitted, station, kits>>
        /\ \E input \in Races \union {"email"} :
             scan' = [scan EXCEPT ![g] = [at |-> "asked", race |-> station[g].race,
                                          code |-> ScanTarget(g, input)]]
    BY <1>3 DEF Scans
  <2>2. PICK c \in Races \union {NoRace} :
           scan' = [scan EXCEPT ![g] = [at |-> "asked", race |-> station[g].race, code |-> c]]
    BY <2>1 DEF ScanTarget, GateInv, GateTypes, AtStation
  <2>3. GateTypes' /\ OneKit'
    BY <2>1, <2>2 DEF GateInv, GateTypes, OneKit, LetIn, AtStation
  <2>4. \A h \in Gates : GateKnows(h)'
    BY <2>1, <2>2 DEF GateInv, GateTypes, GateKnows
  <2> QED
    BY <2>3, <2>4 DEF GateInv
<1> QED
  BY <1>1, <1>2, <1>3

\* Two gates are never both let in for one ticket: the service admits it once.
LEMMA CheckInKeepsGates ==
    ASSUME GateInv, NEW g \in Gates, CheckInHandled(g)
    PROVE  GateInv'
<1> DEFINE v == GateVerdict(scan[g])
<1>1. /\ scan[g].at = "asked" /\ scan' = [scan EXCEPT ![g].at = v]
      /\ admitted' = IF v = "success" THEN admitted \union {scan[g].code} ELSE admitted
      /\ UNCHANGED <<tickets, station, kits>>
  BY DEF CheckInHandled
<1>2. /\ v \in {"error", "already", "success"}
      /\ v = "success" => scan[g].code \in tickets \ admitted /\ scan[g].code = scan[g].race
  BY DEF GateVerdict
<1> HIDE DEF v
<1>3. /\ scan'[g].at = v /\ scan'[g].code = scan[g].code /\ scan'[g].race = scan[g].race
      /\ \A h \in Gates \ {g} : scan'[h] = scan[h]
  BY <1>1 DEF GateInv, GateTypes
<1>4. GateTypes'
  BY <1>1, <1>2 DEF GateInv, GateTypes
<1>5. OneKit'
  <2> SUFFICES ASSUME NEW t \in Races
               PROVE  /\ kits[t] \in {0, 1}
                      /\ kits[t] = 1 => t \in admitted' /\ \A h \in Gates : ~LetIn(h, t)'
                      /\ \A h, i \in Gates : LetIn(h, t)' /\ LetIn(i, t)' => h = i
    BY <1>1 DEF OneKit
  <2>1. \A h \in Gates \ {g} : LetIn(h, t)' <=> LetIn(h, t)
    BY <1>3 DEF LetIn
  <2>2. LetIn(g, t)' => t \notin admitted
    BY <1>2, <1>3 DEF LetIn
  <2>3. \A h \in Gates : LetIn(h, t) => t \in admitted
    BY DEF GateInv, GateKnows, LetIn
  <2> QED
    BY <1>1, <2>1, <2>2, <2>3 DEF GateInv, OneKit
<1>6. \A h \in Gates : GateKnows(h)'
  BY <1>1, <1>2, <1>3 DEF GateInv, GateTypes, GateKnows, NoScan
<1> QED
  BY <1>4, <1>5, <1>6 DEF GateInv

LEMMA ScanArrivesKeepsGates ==
    ASSUME GateInv, NEW g \in Gates, ScanArrives(g)
    PROVE  GateInv'
<1> USE GateAssumption
<1> DEFINE s == scan[g]
           st == station[g]
<1>1. PICK v \in {s.at, "error"} \ {"asked"} :
         /\ station' = [station EXCEPT
                ![g].checked = IF v = "success" THEN @ \union ({s.code} \intersect st.known) ELSE @,
                ![g].recent = IF v = "success" THEN @ \union {s.code} ELSE @]
         /\ kits' = IF v = "success" /\ kits[s.code] < GateScans
                    THEN [kits EXCEPT ![s.code] = @ + 1] ELSE kits
  BY DEF ScanArrives
<1>2. s # NoScan /\ scan' = [scan EXCEPT ![g] = NoScan] /\ UNCHANGED <<tickets, admitted>>
  BY DEF ScanArrives
<1>3. v = "success" => /\ s.at = "success" /\ s.code \in admitted /\ s.code \in Races /\ s.code = s.race
                       /\ LetIn(g, s.code)
  BY DEF GateInv, GateTypes, GateKnows, LetIn
<1>4. st \in AtStation /\ GateKnows(g)
  BY DEF GateInv, GateTypes
<1>5. /\ \A h \in Gates \ {g} : station'[h] = station[h] /\ scan'[h] = scan[h]
      /\ scan'[g] = NoScan
  BY <1>1, <1>2 DEF GateInv, GateTypes
<1>6. /\ station'[g] \in AtStation /\ station'[g].page = st.page /\ station'[g].race = st.race
      /\ station'[g].switched = st.switched
      /\ v = "success" => /\ station'[g].checked = st.checked \union ({s.code} \intersect st.known)
                          /\ station'[g].recent = st.recent \union {s.code}
      /\ v # "success" => station'[g].checked = st.checked /\ station'[g].recent = st.recent
  BY <1>1, <1>3, <1>4 DEF GateInv, GateTypes, AtStation
<1>7. GateTypes'
  <2>1. kits' \in [Races -> Nat]
    BY <1>1, <1>3 DEF GateInv, GateTypes
  <2>2. station' \in [Gates -> AtStation]
    BY <1>1, <1>5, <1>6 DEF GateInv, GateTypes
  <2>3. scan' \in [Gates -> [at : {"idle", "asked", "error", "already", "success"},
                             race : Races \union {NoRace}, code : Races \union {NoRace}]]
    BY <1>2 DEF GateInv, GateTypes, NoScan
  <2> QED
    BY <1>2, <2>1, <2>2, <2>3 DEF GateInv, GateTypes
<1>8. OneKit'
  <2> SUFFICES ASSUME NEW t \in Races
               PROVE  /\ kits'[t] \in {0, 1}
                      /\ kits'[t] = 1 => t \in admitted /\ \A h \in Gates : ~LetIn(h, t)'
                      /\ \A h, i \in Gates : LetIn(h, t)' /\ LetIn(i, t)' => h = i
    BY <1>2 DEF OneKit
  <2>1. ~LetIn(g, t)' /\ \A h \in Gates \ {g} : LetIn(h, t)' <=> LetIn(h, t)
    BY <1>5 DEF LetIn, NoScan
  <2>2. CASE v = "success" /\ t = s.code
    <3>1. kits[t] = 0 /\ kits'[t] \in {0, 1} /\ t \in admitted
      BY <1>1, <1>3, <2>2 DEF GateInv, OneKit, GateTypes
    <3>2. \A h \in Gates \ {g} : ~LetIn(h, t)
      BY <1>3, <2>2 DEF GateInv, OneKit
    <3> QED
      BY <2>1, <3>1, <3>2
  <2>3. CASE ~(v = "success" /\ t = s.code)
    <3>1. kits'[t] = kits[t]
      BY <1>1, <1>3, <2>3 DEF GateInv, GateTypes
    <3> QED
      BY <2>1, <3>1 DEF GateInv, OneKit
  <2> QED
    BY <2>2, <2>3
<1>9. \A h \in Gates : GateKnows(h)'
  <2>1. GateKnows(g)'
    <3>1. station'[g].checked \union station'[g].recent \subseteq admitted
      BY <1>3, <1>4, <1>6 DEF GateKnows
    <3>2. station'[g].switched \/ station'[g].recent \subseteq {station'[g].race}
      BY <1>2, <1>3, <1>4, <1>6 DEF GateKnows
    <3> QED
      BY <1>2, <1>5, <3>1, <3>2 DEF GateKnows, NoScan
  <2>2. \A h \in Gates \ {g} : GateKnows(h)'
    BY <1>2, <1>5 DEF GateInv, GateKnows
  <2> QED
    BY <2>1, <2>2
<1> QED
  BY <1>7, <1>8, <1>9 DEF GateInv

LEMMA GateStepKeepsInv ==
    ASSUME GateInv, [GateNext]_gateVars
    PROVE  GateInv'
<1>1. CASE TicketActs
  BY <1>1 DEF TicketActs, GateInv, GateTypes, OneKit, LetIn, GateKnows
<1>2. CASE UNCHANGED gateVars
  BY <1>2 DEF gateVars, GateInv, GateTypes, OneKit, LetIn, GateKnows
<1> QED
  BY <1>1, <1>2, StationStepsKeepGates, CheckInKeepsGates, ScanArrivesKeepsGates DEF GateNext

LEMMA GateStart == GateInit => GateInv
<1> SUFFICES ASSUME GateInit
             PROVE  GateInv
  OBVIOUS
<1>1. GateTypes
  BY DEF GateInit, GateTypes, AtStation, NewStation, NoScan
<1> QED
  BY <1>1 DEF GateInit, GateInv, OneKit, LetIn, GateKnows, NewStation, NoScan

LEMMA GateInvHolds == GateInv => GateIsTrue
BY DEF GateInv, GateTypes, OneKit, GateKnows, GateIsTrue

\* Over any number of stations a ticket hands out one kit, and what a station shows as
\* checked in is so (checkin.Service.CheckIn inserts a check-in once).
THEOREM GatesTellTruth == GateSpec => []GateIsTrue
<1>1. GateInit => GateInv
  BY GateStart
<1>2. GateInv /\ [GateNext]_gateVars => GateInv'
  BY GateStepKeepsInv
<1> QED
  BY <1>1, <1>2, GateInvHolds, PTL DEF GateSpec

-----------------------------------------------------------------------------
(* THE ROSTER *)

\* A read that is live is about what is selected, and an answer that was used is, too.
RosterInv ==
    /\ "under" \in DOMAIN roster
    /\ \A read \in rosterRead : "live" \in DOMAIN read
    /\ \A read \in payRead : "live" \in DOMAIN read
    /\ excused \in BOOLEAN
    /\ \A read \in rosterRead : read.live => read.under = filter
    /\ \A read \in payRead : read.live => read.of = drawer.of
    /\ RosterIsTrue

LEMMA SelectRegKeeps ==
    ASSUME RosterInv, NEW e, NEW state, SelectReg(e, state)
    PROVE  /\ payment' = Closed
           /\ \A read \in payRead' : "live" \in DOMAIN read
           /\ \A read \in payRead' : read.live => read.of = drawer'.of
<1>1. \A read \in Dead(payRead) : read.live = FALSE /\ "live" \in DOMAIN read
  <2> SUFFICES ASSUME NEW old \in payRead
               PROVE  LET read == [old EXCEPT !.live = FALSE]
                      IN  read.live = FALSE /\ "live" \in DOMAIN read
    BY DEF Dead
  <2> QED
    BY DEF RosterInv
<1>2. drawer' = [of |-> e, state |-> state] /\ payment' = Closed
      /\ payRead' \subseteq Dead(payRead) \union {[of |-> e, live |-> TRUE]}
  BY DEF SelectReg
<1> QED
  BY <1>1, <1>2

LEMMA RosterStepKeepsInv ==
    ASSUME RosterInv, [RosterNext]_rosterVars
    PROVE  RosterInv'
<1>1. CASE EntrantActs \/ LoadsMore \/ ReviewPayment \/ ReviewHandled \/ UNCHANGED rosterVars
  BY <1>1 DEF EntrantActs, LoadsMore, ReviewPayment, ReviewHandled, rosterVars, rosterListVars, RosterInv, RosterIsTrue
<1>2. CASE PicksFilter
  <2>1. \A read \in Dead(rosterRead) : read.live = FALSE /\ "live" \in DOMAIN read
    <3> SUFFICES ASSUME NEW old \in rosterRead
                 PROVE  LET read == [old EXCEPT !.live = FALSE]
                        IN  read.live = FALSE /\ "live" \in DOMAIN read
      BY DEF Dead
    <3> QED
      BY DEF RosterInv
  <2>2. /\ UNCHANGED <<roster, excused, drawer, payment, payRead>>
        /\ rosterRead' = Dead(rosterRead) /\ listTimer' = TRUE
    BY <1>2 DEF PicksFilter
  <2> QED
    BY <2>1, <2>2 DEF RosterInv, RosterIsTrue
<1>3. CASE MoreArrives
  <2>1. UNCHANGED <<filter, rosterRead, listTimer, rosterLoading, drawer, payment, payRead>>
    BY <1>3 DEF MoreArrives, rosterListVars
  <2>2. CASE UNCHANGED <<roster, excused>>
    BY <2>1, <2>2 DEF RosterInv, RosterIsTrue
  <2>3. CASE ~UNCHANGED <<roster, excused>>
    <3>1. PICK some, all : roster' = [roster EXCEPT !.rows = some, !.total = all]
      BY <1>3, <2>3 DEF MoreArrives
    <3>2. roster'.under = roster.under
          /\ "under" \in DOMAIN roster'
      BY <3>1 DEF RosterInv
    <3>3. excused' \in BOOLEAN /\ (excused => excused')
      BY <1>3, <2>3 DEF MoreArrives, RosterInv
    <3> QED
      BY <2>1, <3>2, <3>3 DEF RosterInv, RosterIsTrue
  <2> QED
    BY <2>2, <2>3
<1>4. ASSUME NEW read \in rosterRead, ListRosterArrives(read)
      PROVE  RosterInv'
  <2>1. /\ UNCHANGED <<filter, listTimer, drawer, payment, payRead>> /\ rosterRead' = rosterRead \ {read}
        /\ rosterLoading' = (rosterLoading /\ ~read.live)
    BY <1>4 DEF ListRosterArrives
  <2>2. \/ read.live /\ "under" \in DOMAIN roster' /\ roster'.under = read.under /\ excused' = FALSE
        \/ ~read.live /\ UNCHANGED <<roster, excused>>
        \/ excused' = TRUE /\ UNCHANGED roster
    BY <1>4 DEF ListRosterArrives, Used
  <2> QED
    BY <2>1, <2>2 DEF RosterInv, RosterIsTrue
<1>5. CASE OpensDrawer \/ ClosesDrawer
  <2>1. \E e, state : SelectReg(e, state)
    BY <1>5 DEF OpensDrawer, ClosesDrawer
  <2>2. UNCHANGED <<filter, roster, rosterRead, listTimer, rosterLoading, excused>>
    BY <1>5 DEF OpensDrawer, ClosesDrawer, rosterListVars
  <2>3. /\ payment' = Closed
        /\ \A read \in payRead' : "live" \in DOMAIN read
        /\ \A read \in payRead' : read.live => read.of = drawer'.of
    BY <2>1, SelectRegKeeps
  <2> QED
    BY <2>2, <2>3 DEF RosterInv, RosterIsTrue
<1>6. CASE ReviewArrives
  <2>1. UNCHANGED <<filter, rosterRead, listTimer, rosterLoading, excused>>
    BY <1>6 DEF ReviewArrives, rosterListVars
  <2>2. CASE UNCHANGED <<drawer, payment, payRead, roster>>
    BY <2>1, <2>2 DEF RosterInv, RosterIsTrue
  <2>3. CASE /\ SelectReg(review.of, review.state)
             /\ roster' = [roster EXCEPT !.rows =
                           [e \in DOMAIN @ |-> IF e = review.of THEN review.state ELSE @[e]]]
    <3>1. /\ payment' = Closed
          /\ \A read \in payRead' : "live" \in DOMAIN read
          /\ \A read \in payRead' : read.live => read.of = drawer'.of
      BY <2>3, SelectRegKeeps
    <3>2. roster'.under = roster.under
          /\ "under" \in DOMAIN roster'
      BY <2>3 DEF RosterInv
    <3> QED
      BY <2>1, <3>1, <3>2 DEF RosterInv, RosterIsTrue
  <2> QED
    BY <1>6, <2>2, <2>3 DEF ReviewArrives
<1>7. ASSUME NEW read \in payRead, PaymentArrives(read)
      PROVE  RosterInv'
  BY <1>7 DEF PaymentArrives, rosterListVars, Used, Closed, RosterInv, RosterIsTrue
<1>8. CASE ListTimerFires
  <2>1. /\ UNCHANGED <<filter, roster, excused, drawer, payment, payRead>> /\ rosterLoading' = TRUE
        /\ rosterRead' = rosterRead \union {[under |-> filter, live |-> TRUE]}
    BY <1>8 DEF ListTimerFires
  <2> QED
    BY <2>1 DEF RosterInv, RosterIsTrue
<1> QED
  BY <1>1, <1>2, <1>3, <1>4, <1>5, <1>6, <1>7, <1>8 DEF RosterNext

LEMMA RosterStart == RosterInit => RosterInv
<1> SUFFICES ASSUME RosterInit
             PROVE  RosterInv
  OBVIOUS
<1>1. /\ roster = [rows |-> << >>, total |-> 0, under |-> "ALL"] /\ filter = "ALL" /\ excused = FALSE
      /\ rosterRead = {} /\ payRead = {} /\ payment = Closed
  BY DEF RosterInit
<1>2. roster.under = filter /\ "under" \in DOMAIN roster
  BY <1>1
<1>3. \A read \in rosterRead : "live" \in DOMAIN read /\ read.under = filter
  BY <1>1
<1> QED
  BY <1>1, <1>2, <1>3 DEF RosterInv, RosterIsTrue

\* The payment an admin reviews is the one of the runner in the drawer, and the list is the
\* one the filter selects, however many reads overlap, except between a change of the filters
\* and the timer that reads anew (registrations/index.tsx: the flags of both effects).
THEOREM RostersTellTruth == RosterSpec => []RosterIsTrue
<1>1. RosterInit => RosterInv
  BY RosterStart
<1>2. RosterInv /\ [RosterNext]_rosterVars => RosterInv'
  BY RosterStepKeepsInv
<1>3. RosterInv => RosterIsTrue
  BY DEF RosterInv
<1> QED
  BY <1>1, <1>2, <1>3, PTL DEF RosterSpec

-----------------------------------------------------------------------------
(* THE LIST OF RACES *)

Moments == Stages \union {"gone"}

RaceDeskTypes ==
    /\ stage \in [Meets -> Moments] /\ listedRaces \in [Meets -> Moments]
    /\ raceTab \in RaceTabs
    /\ listReads \in [ListReads -> [at : {"idle", "asked", "read"}, tab : RaceTabs, got : [Meets -> Moments]]]
    /\ deletion \in [Meets -> [at : {"idle", "asked", "checked", "done", "refused"},
                               tab : RaceTabs, heard : BOOLEAN]]
    /\ torn \subseteq Meets /\ opened \subseteq Meets
    /\ changedBehind \in BOOLEAN /\ listCrossed \in BOOLEAN

\* A race that is about to be deleted is a draft or was moved on since it was looked at, and
\* what was torn down is gone for good.
DraftsOnly ==
    \A e \in Meets :
        /\ deletion[e].at = "checked" /\ stage[e] # "DRAFT" => e \in opened
        /\ e \in torn => e \in opened /\ stage[e] = "gone"

\* only the page that waits for a deletion hears that it is done
DoneIsHeard == \A e \in Meets : deletion[e].at = "done" => deletion[e].heard

\* a list shows the races of the tab as they are, but for those just deleted
Current(list) ==
    \A e \in Meets :
        \/ deletion[e].at = "done"
        \/ OnTab(raceTab, list[e]) \/ OnTab(raceTab, stage[e]) => list[e] = stage[e]

\* unless reads overlapped, one read is under way at most, of the tab that is shown
OneListRead ==
    ~listCrossed => \A r, s \in ListReads :
        listReads[r] # NoList => /\ listReads[r].tab = raceTab
                                 /\ listReads[s] # NoList => r = s

ListCurrent ==
    ~listCrossed /\ ~changedBehind =>
        /\ \A r \in ListReads : listReads[r].at = "read" => Current(listReads[r].got)
        /\ (\A r \in ListReads : listReads[r] = NoList) => Current(listedRaces)

RaceDeskInv == RaceDeskTypes /\ DraftsOnly /\ DoneIsHeard /\ OneListRead /\ ListCurrent

\* A new read is the only one under way, or the reads overlap.
LEMMA FetchesKeepsRaces ==
    ASSUME RaceDeskTypes, NEW tab \in RaceTabs, Fetches(tab, raceTab'), raceTab' \in RaceTabs
    PROVE  /\ listReads' \in [ListReads -> [at : {"idle", "asked", "read"}, tab : RaceTabs,
                                            got : [Meets -> Moments]]]
           /\ listCrossed' \in BOOLEAN
           /\ OneListRead'
           /\ ~listCrossed' => /\ \A r \in ListReads : listReads'[r].at # "read"
                               /\ \E r \in ListReads : listReads'[r] # NoList
<1>1. PICK r \in ListReads :
         /\ listReads[r] = NoList
         /\ listReads' = [listReads EXCEPT ![r] = [NoList EXCEPT !.at = "asked", !.tab = tab]]
  BY DEF Fetches
<1> DEFINE new == [NoList EXCEPT !.at = "asked", !.tab = tab]
<1>2. NoList \in [at : {"idle", "asked", "read"}, tab : RaceTabs, got : [Meets -> Moments]]
      /\ NoList.at = "idle"
  BY DEF NoList, Nowhere, Moments, RaceTabs
<1>3. /\ new \in [at : {"idle", "asked", "read"}, tab : RaceTabs, got : [Meets -> Moments]]
      /\ new.at = "asked" /\ new.tab = tab
  BY <1>2
<1>4. listReads' = [listReads EXCEPT ![r] = new]
  BY <1>1
<1> HIDE DEF new
<1>5. listCrossed' = (tab # raceTab' \/ \E s \in ListReads : listReads[s] # NoList)
  BY DEF Fetches
<1>6. listReads'[r] = new /\ \A s \in ListReads \ {r} : listReads'[s] = listReads[s]
  BY <1>4 DEF RaceDeskTypes
<1>7. listReads' \in [ListReads -> [at : {"idle", "asked", "read"}, tab : RaceTabs, got : [Meets -> Moments]]]
  BY <1>3, <1>4 DEF RaceDeskTypes
<1>8. CASE listCrossed'
  BY <1>5, <1>7, <1>8 DEF OneListRead
<1>9. CASE ~listCrossed'
  <2>1. tab = raceTab' /\ \A s \in ListReads \ {r} : listReads'[s] = NoList
    BY <1>5, <1>6, <1>9
  <2>2. OneListRead'
    BY <1>3, <1>6, <2>1 DEF OneListRead
  <2> QED
    BY <1>2, <1>3, <1>5, <1>6, <1>7, <2>1, <2>2
<1> QED
  BY <1>5, <1>8, <1>9

LEMMA ChoosesTabKeepsRaces ==
    ASSUME RaceDeskInv, NEW tab \in RaceTabs, ChoosesTab(tab)
    PROVE  RaceDeskInv'
<1>1. /\ raceTab' = tab /\ Fetches(tab, raceTab')
      /\ UNCHANGED <<stage, listedRaces, deletion, torn, opened, changedBehind>>
  BY DEF ChoosesTab
<1>2. RaceDeskTypes' /\ DraftsOnly' /\ DoneIsHeard'
  BY <1>1, FetchesKeepsRaces DEF RaceDeskInv, RaceDeskTypes, DraftsOnly, DoneIsHeard
<1>3. OneListRead' /\ ListCurrent'
  BY <1>1, FetchesKeepsRaces DEF RaceDeskInv, ListCurrent
<1> QED
  BY <1>2, <1>3 DEF RaceDeskInv

LEMMA ListReadsKeepRaces ==
    ASSUME RaceDeskInv, NEW r \in ListReads, ListHandled(r) \/ ListArrives(r) \/ ListLost(r)
    PROVE  RaceDeskInv'
<1>1. UNCHANGED <<stage, raceTab, listCrossed, deletion, torn, opened>>
  BY DEF ListHandled, ListArrives, ListLost
<1>2. DraftsOnly' /\ DoneIsHeard'
  BY <1>1 DEF RaceDeskInv, DraftsOnly, DoneIsHeard
<1>3. CASE ListHandled(r)
  <2>1. listReads[r].at = "asked" /\ UNCHANGED listedRaces
    BY <1>3 DEF ListHandled
  <2> DEFINE answer(v) == [e \in Meets |-> IF Wanted(listReads[r].tab, stage[e])
                                              /\ (v => stage[e] = "PUBLISHED") THEN stage[e] ELSE "gone"]
  <2>2. PICK visitor \in BOOLEAN :
          /\ listReads' = [listReads EXCEPT ![r] = [@ EXCEPT !.at = "read", !.got = answer(visitor)]]
          /\ changedBehind' = visitor
    BY <1>3 DEF ListHandled
  <2> DEFINE got == answer(visitor)
             new == [listReads[r] EXCEPT !.at = "read", !.got = got]
  <2>3. got \in [Meets -> Moments]
    BY DEF RaceDeskInv, RaceDeskTypes, Moments
  <2>4. ~visitor /\ listReads[r].tab = raceTab => Current(got)
    BY DEF Current, OnTab, Wanted
  <2>5. listReads' = [listReads EXCEPT ![r] = new]
    BY <2>2
  <2> HIDE DEF answer, got
  <2>6. /\ listReads'[r].at = "read" /\ listReads'[r].got = got /\ listReads'[r].tab = listReads[r].tab
        /\ \A s \in ListReads \ {r} : listReads'[s] = listReads[s]
        /\ listReads' \in [ListReads -> [at : {"idle", "asked", "read"}, tab : RaceTabs, got : [Meets -> Moments]]]
    <3>1. listReads[r] \in [at : {"idle", "asked", "read"}, tab : RaceTabs, got : [Meets -> Moments]]
      BY DEF RaceDeskInv, RaceDeskTypes
    <3>3. new \in [at : {"idle", "asked", "read"}, tab : RaceTabs, got : [Meets -> Moments]]
      BY <2>3, <3>1
    <3>4. new.at = "read" /\ new.got = got /\ new.tab = listReads[r].tab
      BY <3>1
    <3> HIDE DEF new
    <3> QED
      BY <2>5, <3>3, <3>4 DEF RaceDeskInv, RaceDeskTypes
  <2>7. listReads[r] # NoList /\ listReads'[r] # NoList
    BY <2>1, <2>6 DEF NoList
  <2>8. RaceDeskTypes'
    BY <1>1, <2>1, <2>2, <2>6 DEF RaceDeskInv, RaceDeskTypes
  <2>9. OneListRead'
    BY <1>1, <2>6, <2>7 DEF RaceDeskInv, OneListRead
  <2>10. ListCurrent'
    <3> SUFFICES ASSUME ~listCrossed, ~visitor
                 PROVE  \A s \in ListReads : (listReads[s].at = "read" => Current(listReads[s].got))'
      BY <1>1, <2>2, <2>7 DEF ListCurrent
    <3>1. listReads[r].tab = raceTab /\ \A s \in ListReads \ {r} : listReads[s] = NoList
      BY <2>7 DEF RaceDeskInv, OneListRead
    <3>2. Current(got)
      BY <2>4, <3>1
    <3>3. \A s \in ListReads \ {r} : listReads'[s].at # "read"
      BY <2>6, <3>1 DEF NoList
    <3> QED
      BY <1>1, <2>6, <3>2, <3>3 DEF Current
  <2> QED
    BY <1>2, <2>8, <2>9, <2>10 DEF RaceDeskInv
<1>4. CASE ListArrives(r) \/ ListLost(r)
  <2>1. listReads' = [listReads EXCEPT ![r] = NoList] /\ listReads[r] # NoList
    BY <1>4 DEF ListArrives, ListLost, NoList
  <2>2. /\ \A s \in ListReads \ {r} : listReads'[s] = listReads[s]
        /\ listReads'[r] = NoList /\ NoList.at = "idle"
    BY <2>1 DEF RaceDeskInv, RaceDeskTypes, NoList
  <2>3. OneListRead'
    BY <1>1, <2>2 DEF RaceDeskInv, OneListRead
  <2>4. \/ listReads[r].at = "read" /\ listedRaces' = listReads[r].got /\ UNCHANGED changedBehind
        \/ changedBehind' = TRUE /\ UNCHANGED listedRaces
    BY <1>4 DEF ListArrives, ListLost
  <2>5. RaceDeskTypes'
    <3>1. NoList \in [at : {"idle", "asked", "read"}, tab : RaceTabs, got : [Meets -> Moments]]
      BY DEF NoList, Nowhere, Moments, RaceTabs
    <3> QED
      BY <1>1, <2>1, <2>4, <3>1 DEF RaceDeskInv, RaceDeskTypes
  <2>6. ListCurrent'
    <3> SUFFICES ASSUME ~listCrossed, ~changedBehind, UNCHANGED changedBehind,
                        listReads[r].at = "read", listedRaces' = listReads[r].got
                 PROVE  /\ \A s \in ListReads : (listReads[s].at = "read" => Current(listReads[s].got))'
                        /\ Current(listedRaces)'
      BY <1>1, <2>4 DEF ListCurrent
    <3>1. Current(listReads[r].got)
      BY DEF RaceDeskInv, ListCurrent
    <3>2. \A s \in ListReads : listReads'[s].at # "read"
      BY <2>1, <2>2 DEF RaceDeskInv, OneListRead
    <3> QED
      BY <1>1, <3>1, <3>2 DEF Current
  <2> QED
    BY <1>2, <2>3, <2>5, <2>6 DEF RaceDeskInv
<1> QED
  BY <1>3, <1>4

\* A step that touches one deletion, its race, and nothing that was read.
LEMMA DeletionKeepsRaces ==
    ASSUME RaceDeskInv, NEW e \in Meets,
           RaceDeskTypes', UNCHANGED listVars,
           \A d \in Meets \ {e} : deletion'[d] = deletion[d] /\ stage'[d] = stage[d],
           torn' \ {e} = torn \ {e}, opened' \ {e} = opened \ {e},
           deletion'[e].at = "checked" /\ stage'[e] # "DRAFT" => e \in opened',
           e \in torn' => e \in opened' /\ stage'[e] = "gone",
           deletion'[e].at = "done" => deletion'[e].heard,
           \/ changedBehind'
           \/ /\ changedBehind' = changedBehind
              /\ \/ deletion'[e].at = "done"
                 \/ stage'[e] = stage[e] /\ deletion[e].at # "done"
    PROVE  RaceDeskInv'
<1>1. UNCHANGED <<raceTab, listedRaces, listReads, listCrossed>>
  BY DEF listVars
<1>2. DraftsOnly' /\ DoneIsHeard'
  BY DEF RaceDeskInv, DraftsOnly, DoneIsHeard
<1>3. OneListRead'
  BY <1>1 DEF RaceDeskInv, OneListRead
<1>4. ListCurrent'
  <2>1. ASSUME NEW list, ~changedBehind', Current(list)
        PROVE  Current(list)'
    BY <1>1, <2>1 DEF Current
  <2> QED
    BY <1>1, <2>1 DEF RaceDeskInv, ListCurrent, RaceDeskTypes
<1> QED
  BY <1>2, <1>3, <1>4 DEF RaceDeskInv

\* The deletion of a race that is taken a step further leaves those of the others alone.
LEMMA DeletionsKeepRaces ==
    ASSUME RaceDeskInv, NEW e \in Meets,
           \/ DeletesDraft(e) \/ DeletionChecked(e) \/ RowDeleted(e) \/ DeletionLost(e) \/ MovedElsewhere(e)
    PROVE  RaceDeskInv'
<1> DEFINE Deletions == [at : {"idle", "asked", "checked", "done", "refused"},
                         tab : RaceTabs, heard : BOOLEAN]
<1>1. /\ deletion \in [Meets -> Deletions] /\ stage \in [Meets -> Moments]
      /\ deletion[e] \in Deletions
  BY DEF RaceDeskInv, RaceDeskTypes
<1>2. NoDeletion \in Deletions /\ NoDeletion.at = "idle"
  BY DEF NoDeletion, RaceTabs
<1>3. UNCHANGED listVars
  BY DEF DeletesDraft, DeletionChecked, RowDeleted, DeletionLost, MovedElsewhere
<1>4. ASSUME NEW d \in Deletions, deletion' = [deletion EXCEPT ![e] = d]
      PROVE  /\ deletion' \in [Meets -> Deletions] /\ deletion'[e] = d
             /\ \A f \in Meets \ {e} : deletion'[f] = deletion[f]
  BY <1>1, <1>4
<1>5. ASSUME NEW at \in {"refused", "done"}, Answers(e, at)
      PROVE  \E d \in Deletions : /\ deletion' = [deletion EXCEPT ![e] = d]
                                  /\ d = NoDeletion \/ (d.at = at /\ d.heard)
  <2>1. CASE deletion[e].heard
    <3> DEFINE new == [deletion[e] EXCEPT !.at = at]
    <3>1. new \in Deletions /\ new.at = at /\ new.heard
      BY <1>1, <2>1
    <3>2. deletion' = [deletion EXCEPT ![e] = new]
      BY <1>5, <2>1 DEF Answers
    <3> QED
      BY <3>1, <3>2
  <2>2. CASE ~deletion[e].heard
    BY <1>2, <1>5, <2>2 DEF Answers
  <2> QED
    BY <2>1, <2>2
<1> HIDE DEF Deletions
<1>6. CASE DeletesDraft(e)
  <2> DEFINE new == [at |-> "asked", tab |-> raceTab, heard |-> TRUE]
  <2>1. new \in Deletions /\ new.at = "asked"
    BY DEF RaceDeskInv, RaceDeskTypes, Deletions
  <2>2. /\ deletion' = [deletion EXCEPT ![e] = new] /\ deletion[e].at = "idle"
        /\ UNCHANGED <<stage, torn, opened, changedBehind>>
    BY <1>2, <1>6 DEF DeletesDraft
  <2> HIDE DEF new
  <2>3. RaceDeskTypes'
    BY <1>3, <1>4, <2>1, <2>2 DEF RaceDeskInv, RaceDeskTypes, listVars, Deletions
  <2> QED
    BY <1>3, <1>4, <2>1, <2>2, <2>3, DeletionKeepsRaces DEF RaceDeskInv, DraftsOnly
<1>7. CASE DeletionChecked(e)
  <2>1. /\ deletion[e].at = "asked" /\ UNCHANGED <<stage, torn, changedBehind>>
        /\ opened' = IF stage[e] = "DRAFT" THEN opened \ {e} ELSE opened
    BY <1>7 DEF DeletionChecked
  <2>2. \E d \in Deletions : /\ deletion' = [deletion EXCEPT ![e] = d]
                             /\ d.at = "checked" => stage[e] = "DRAFT"
                             /\ d.at # "done"
    <3>1. CASE stage[e] = "DRAFT"
      <4> DEFINE new == [deletion[e] EXCEPT !.at = "checked"]
      <4>1. new \in Deletions /\ new.at = "checked"
        BY <1>1 DEF Deletions
      <4>2. deletion' = [deletion EXCEPT ![e] = new]
        BY <1>7, <3>1 DEF DeletionChecked
      <4> QED
        BY <3>1, <4>1, <4>2
    <3>2. CASE stage[e] # "DRAFT"
      BY <1>2, <1>5, <1>7, <3>2 DEF DeletionChecked
    <3> QED
      BY <3>1, <3>2
  <2>3. PICK d \in Deletions : /\ deletion' = [deletion EXCEPT ![e] = d]
                               /\ d.at = "checked" => stage[e] = "DRAFT"
                               /\ d.at # "done"
    BY <2>2
  <2>4. RaceDeskTypes'
    BY <1>3, <1>4, <2>1, <2>3 DEF RaceDeskInv, RaceDeskTypes, listVars, Deletions
  <2>5. e \in torn => stage[e] = "gone" /\ e \in opened
    BY DEF RaceDeskInv, DraftsOnly
  <2> QED
    BY <1>3, <1>4, <2>1, <2>3, <2>4, <2>5, DeletionKeepsRaces
<1>8. CASE RowDeleted(e)
  <2>1. deletion[e].at = "checked" /\ UNCHANGED opened
    BY <1>8 DEF RowDeleted
  <2>2. /\ e \in torn => e \in opened /\ stage[e] = "gone"
        /\ stage[e] # "DRAFT" => e \in opened
    BY <2>1 DEF RaceDeskInv, DraftsOnly
  <2>3. CASE stage' = stage /\ Answers(e, "refused") /\ UNCHANGED <<torn, changedBehind>>
    <3>1. PICK d \in Deletions : /\ deletion' = [deletion EXCEPT ![e] = d]
                                 /\ d.at \in {"idle", "refused"}
      BY <1>2, <1>5, <2>3
    <3>2. RaceDeskTypes'
      BY <1>3, <1>4, <2>1, <2>3, <3>1 DEF RaceDeskInv, RaceDeskTypes, listVars, Deletions
    <3> QED
      BY <1>3, <1>4, <2>1, <2>2, <2>3, <3>1, <3>2, DeletionKeepsRaces
  <2>4. CASE /\ stage' = [stage EXCEPT ![e] = "gone"]
             /\ torn' = IF stage[e] = "DRAFT" THEN torn ELSE torn \union {e}
             /\ changedBehind' = (changedBehind \/ ~deletion[e].heard) /\ Answers(e, "done")
             /\ stage[e] # "gone"
    <3>1. PICK d \in Deletions : /\ deletion' = [deletion EXCEPT ![e] = d]
                                 /\ d = NoDeletion \/ (d.at = "done" /\ d.heard)
      BY <1>5, <2>4
    <3>2. ~deletion[e].heard \/ d.at = "done"
      <4> SUFFICES ASSUME deletion[e].heard
                   PROVE  d.at = "done"
        OBVIOUS
      <4>1. deletion' = [deletion EXCEPT ![e] = [@ EXCEPT !.at = "done"]]
        BY <2>4 DEF Answers
      <4>2. d = [deletion[e] EXCEPT !.at = "done"]
        BY <1>1, <3>1, <4>1
      <4> QED
        BY <1>1, <4>2 DEF Deletions
    <3>3. RaceDeskTypes'
      BY <1>3, <1>4, <2>1, <2>4, <3>1 DEF RaceDeskInv, RaceDeskTypes, listVars, Deletions, Moments
    <3>4. d.at \in {"idle", "done"} /\ (d.at = "done" => d.heard)
      BY <1>2, <3>1
    <3>5. /\ stage'[e] = "gone" /\ \A f \in Meets \ {e} : stage'[f] = stage[f]
          /\ torn' \ {e} = torn \ {e} /\ (e \in torn' => e \in opened)
      BY <1>1, <2>2, <2>4
    <3>6. changedBehind' \/ (changedBehind' = changedBehind /\ d.at = "done")
      BY <2>4, <3>2 DEF RaceDeskInv, RaceDeskTypes
    <3> QED
      BY <1>3, <1>4, <2>1, <3>1, <3>3, <3>4, <3>5, <3>6, DeletionKeepsRaces
  <2> QED
    BY <1>8, <2>3, <2>4 DEF RowDeleted
<1>9. CASE DeletionLost(e)
  <2>1. changedBehind' = TRUE /\ UNCHANGED <<stage, torn, opened>>
    BY <1>9 DEF DeletionLost
  <2>2. \E d \in Deletions : /\ deletion' = [deletion EXCEPT ![e] = d]
                             /\ d.at = "checked" => deletion[e].at = "checked"
                             /\ d.at # "done"
    <3>1. CASE deletion[e].at \in {"done", "refused"}
      BY <1>2, <1>9, <3>1 DEF DeletionLost
    <3>2. CASE deletion[e].at \notin {"done", "refused"}
      <4> DEFINE new == [deletion[e] EXCEPT !.heard = FALSE]
      <4>1. new \in Deletions /\ new.at = deletion[e].at
        BY <1>1 DEF Deletions
      <4>2. deletion' = [deletion EXCEPT ![e] = new]
        BY <1>9, <3>2 DEF DeletionLost
      <4> QED
        BY <3>2, <4>1, <4>2
    <3> QED
      BY <3>1, <3>2
  <2>3. PICK d \in Deletions : /\ deletion' = [deletion EXCEPT ![e] = d]
                               /\ d.at = "checked" => deletion[e].at = "checked"
                               /\ d.at # "done"
    BY <2>2
  <2>4. RaceDeskTypes'
    BY <1>3, <1>4, <2>1, <2>3 DEF RaceDeskInv, RaceDeskTypes, listVars, Deletions
  <2>5. /\ e \in torn => e \in opened /\ stage[e] = "gone"
        /\ deletion[e].at = "checked" /\ stage[e] # "DRAFT" => e \in opened
    BY DEF RaceDeskInv, DraftsOnly
  <2> QED
    BY <1>3, <1>4, <2>1, <2>3, <2>4, <2>5, DeletionKeepsRaces
<1>10. CASE MovedElsewhere(e)
  <2>1. PICK next \in {"PUBLISHED", "CANCELLED", "gone"} :
           /\ stage[e] = "DRAFT" \/ (stage[e] = "PUBLISHED" /\ next = "CANCELLED")
           /\ stage' = [stage EXCEPT ![e] = next]
    BY <1>10 DEF MovedElsewhere
  <2>2. /\ opened' = IF deletion[e].at = "checked" THEN opened \union {e} ELSE opened
        /\ changedBehind' = TRUE /\ UNCHANGED <<deletion, torn>>
    BY <1>10 DEF MovedElsewhere
  <2>3. RaceDeskTypes'
    BY <1>3, <2>1, <2>2 DEF RaceDeskInv, RaceDeskTypes, listVars, Moments, Stages
  <2>4. e \notin torn /\ (deletion[e].at = "done" => deletion[e].heard)
    BY <2>1 DEF RaceDeskInv, DraftsOnly, DoneIsHeard
  <2>5. stage'[e] = next /\ \A f \in Meets \ {e} : stage'[f] = stage[f]
    BY <1>1, <2>1
  <2> QED
    BY <1>3, <2>2, <2>3, <2>4, <2>5, DeletionKeepsRaces
<1> QED
  BY <1>6, <1>7, <1>8, <1>9, <1>10

\* Whoever hears that a race was deleted reads the list again.
LEMMA DeletionAnsweredKeepsRaces ==
    ASSUME RaceDeskInv, NEW e \in Meets, DeletionAnswered(e)
    PROVE  RaceDeskInv'
<1>1. /\ deletion' = [deletion EXCEPT ![e] = NoDeletion] /\ deletion[e].at \in {"done", "refused"}
      /\ UNCHANGED <<stage, raceTab, listedRaces, torn, opened, changedBehind>>
  BY DEF DeletionAnswered
<1>2. /\ NoDeletion \in [at : {"idle", "asked", "checked", "done", "refused"}, tab : RaceTabs,
                         heard : BOOLEAN]
      /\ NoDeletion.at = "idle"
  BY DEF NoDeletion, RaceTabs
<1>3. /\ deletion' \in [Meets -> [at : {"idle", "asked", "checked", "done", "refused"},
                                  tab : RaceTabs, heard : BOOLEAN]]
      /\ deletion'[e] = NoDeletion /\ \A f \in Meets \ {e} : deletion'[f] = deletion[f]
  BY <1>1, <1>2 DEF RaceDeskInv, RaceDeskTypes
<1>4. DraftsOnly' /\ DoneIsHeard'
  BY <1>1, <1>2, <1>3 DEF RaceDeskInv, DraftsOnly, DoneIsHeard
<1>5. CASE deletion[e].at = "done"
  <2>1. Fetches(deletion[e].tab, raceTab') /\ deletion[e].tab \in RaceTabs /\ raceTab' \in RaceTabs
    BY <1>1, <1>5 DEF DeletionAnswered, RaceDeskInv, RaceDeskTypes
  <2>2. RaceDeskTypes /\ RaceDeskTypes'
    BY <1>1, <1>3, <2>1, FetchesKeepsRaces DEF RaceDeskInv, RaceDeskTypes
  <2>3. OneListRead' /\ ListCurrent'
    BY <2>1, <2>2, FetchesKeepsRaces DEF ListCurrent
  <2> QED
    BY <1>4, <2>2, <2>3 DEF RaceDeskInv
<1>6. CASE deletion[e].at = "refused"
  <2>1. UNCHANGED listVars
    BY <1>1, <1>6 DEF DeletionAnswered, listVars
  <2>2. RaceDeskTypes'
    BY <1>1, <1>3, <2>1 DEF RaceDeskInv, RaceDeskTypes, listVars
  <2>3. e \in torn => e \in opened /\ stage[e] = "gone"
    BY DEF RaceDeskInv, DraftsOnly
  <2> QED
    BY <1>1, <1>2, <1>3, <1>6, <2>1, <2>2, <2>3, DeletionKeepsRaces
<1> QED
  BY <1>1, <1>5, <1>6

LEMMA RaceDeskStepKeepsInv ==
    ASSUME RaceDeskInv, RaceDeskNext \/ UNCHANGED raceDeskVars
    PROVE  RaceDeskInv'
<1>1. CASE UNCHANGED raceDeskVars
  BY <1>1 DEF raceDeskVars, listVars, RaceDeskInv, RaceDeskTypes, DraftsOnly, DoneIsHeard, OneListRead,
              ListCurrent, Current
<1> QED
  BY <1>1, ChoosesTabKeepsRaces, ListReadsKeepRaces, DeletionsKeepRaces, DeletionAnsweredKeepsRaces
     DEF RaceDeskNext

LEMMA RaceDeskStart == RaceDeskInit => RaceDeskInv
<1> SUFFICES ASSUME RaceDeskInit
             PROVE  RaceDeskInv
  OBVIOUS
<1> DEFINE first == CHOOSE r \in ListReads : TRUE
           ListRecords == [at : {"idle", "asked", "read"}, tab : RaceTabs, got : [Meets -> Moments]]
           asks == [NoList EXCEPT !.at = "asked"]
<1>1. first \in ListReads
  BY RaceDeskAssumption
<1>2. NoList \in ListRecords /\ NoList.tab = "ALL"
  BY DEF NoList, Nowhere, Moments, RaceTabs
<1>3. asks \in ListRecords /\ asks.at = "asked" /\ asks.tab = "ALL" /\ NoList.at = "idle"
  BY <1>2 DEF NoList
<1>4. listReads = [[r \in ListReads |-> NoList] EXCEPT ![first] = asks]
  BY <1>1 DEF RaceDeskInit
<1> HIDE DEF asks, first
<1>5. /\ listReads \in [ListReads -> ListRecords]
      /\ listReads[first] = asks /\ \A r \in ListReads \ {first} : listReads[r] = NoList
  BY <1>1, <1>2, <1>3, <1>4
<1>6. NoDeletion.at = "idle"
      /\ NoDeletion \in [at : {"idle", "asked", "checked", "done", "refused"}, tab : RaceTabs, heard : BOOLEAN]
  BY DEF NoDeletion, RaceTabs
<1>7. RaceDeskTypes
  BY <1>5, <1>6 DEF RaceDeskInit, RaceDeskTypes, Nowhere, Moments, RaceTabs
<1>8. DraftsOnly /\ DoneIsHeard
  BY <1>6 DEF RaceDeskInit, DraftsOnly, DoneIsHeard
<1>9. OneListRead /\ ListCurrent
  BY <1>1, <1>3, <1>5 DEF RaceDeskInit, OneListRead, ListCurrent
<1> QED
  BY <1>7, <1>8, <1>9 DEF RaceDeskInv

LEMMA RaceDeskInvHolds == RaceDeskInv => RaceDeskIsTrue
<1> SUFFICES ASSUME RaceDeskInv
             PROVE  RaceListIsTrue /\ DeletedWereDrafts
  BY DEF RaceDeskIsTrue
<1>1. DeletedWereDrafts
  BY DEF RaceDeskInv, RaceDeskTypes, DraftsOnly, DeletedWereDrafts
<1>2. \A e \in Meets : deletion[e] = NoDeletion \/ ~deletion[e].heard => deletion[e].at # "done"
  BY DEF RaceDeskInv, DoneIsHeard, NoDeletion
<1>3. RaceListIsTrue
  BY <1>2 DEF RaceDeskInv, ListCurrent, Current, RaceListIsTrue
<1> QED
  BY <1>1, <1>3

\* Whatever was deleted and whichever tabs were chosen, the page at rest lists the races of
\* its tab as they are, and a race that is not a draft is deleted only if it was moved on
\* between the two statements of events.Service.Delete.
THEOREM RaceListsTellTruth == RaceDeskSpec => []RaceDeskIsTrue
<1>1. RaceDeskInv /\ [RaceDeskNext]_raceDeskVars => RaceDeskInv'
  BY RaceDeskStepKeepsInv
<1> QED
  BY <1>1, RaceDeskStart, RaceDeskInvHolds, PTL DEF RaceDeskSpec

-----------------------------------------------------------------------------
(* THE BOARD OF TELEGRAM MESSAGES *)

Figures == [Lane -> Nat]
Listed == [Signals -> Lane]
AskedLoads == [at : {"asked"}, clean : BOOLEAN]
CountedLoads == [at : {"counted"}, clean : BOOLEAN, counts : Figures]
ReadLoads == [at : {"read"}, clean : BOOLEAN, counts : Figures, rows : Listed]
Retries == [of : Signals, at : {"asked", "queued", "refused"}]

SignalTypes ==
    /\ lane \in Listed /\ aged \subseteq Signals
    /\ board \in {NoSnapshot} \union [counts : Figures, rows : Listed]
    /\ loads \in [Loads -> {NoLoad} \union AskedLoads \union CountedLoads \union ReadLoads]
    /\ retrying \in {NoRetry} \union Retries
    /\ strayed \in BOOLEAN

\* what a read that nothing disturbed has found is what the service has, and no retry is
\* under way
CleanLoads ==
    \A l \in Loads :
        loads[l] # NoLoad /\ loads[l].clean =>
            /\ retrying = NoRetry
            /\ loads[l] \in CountedLoads \union ReadLoads => loads[l].counts = Counts(lane)
            /\ loads[l] \in ReadLoads => loads[l].rows = lane

\* A board that has not strayed agrees with the service, but for the retry that is taken and
\* whose answer is awaited.
BoardAgrees ==
    board # NoSnapshot /\ ~strayed =>
        /\ board.counts = Counts(board.rows)
        /\ board.rows = lane \/ retrying # NoRetry
        /\ retrying # NoRetry =>
              /\ board.rows[retrying.of] = "FAILED"
              /\ IF retrying.at = "queued" THEN lane = [board.rows EXCEPT ![retrying.of] = "PENDING"]
                                           ELSE board.rows = lane

RetriedIsShown == retrying # NoRetry => board # NoSnapshot

SignalInv == SignalTypes /\ CleanLoads /\ BoardAgrees /\ RetriedIsShown

\* The kinds of reads are told apart by how far they are.
LEMMA LoadKinds ==
    /\ \A v \in AskedLoads : v.at = "asked" /\ v # NoLoad
    /\ \A v \in CountedLoads : v.at = "counted" /\ v # NoLoad
    /\ \A v \in ReadLoads : v.at = "read" /\ v # NoLoad
    /\ NoLoad.at = "idle"
BY DEF AskedLoads, CountedLoads, ReadLoads, NoLoad

LEMMA RetryKinds == \A v \in Retries : v # NoRetry /\ v.of \in Signals
BY SignalAssumption DEF Retries, NoRetry

LEMMA CountsAreFigures ==
    ASSUME NEW rws \in Listed
    PROVE  Counts(rws) \in Figures
<1>1. ASSUME NEW st \in Lane
      PROVE  Cardinality({d \in Signals \ aged : rws[d] = st}) \in Nat
  <2>1. IsFiniteSet({d \in Signals \ aged : rws[d] = st})
    BY SignalAssumption, FS_Subset
  <2> QED
    BY <2>1, FS_CardinalityType
<1> QED
  BY <1>1 DEF Counts, Figures

\* The patch of the figures is right for a message that was counted as failed.
LEMMA RequeuedCounts ==
    ASSUME NEW rws \in Listed, NEW d \in Signals \ aged, rws[d] = "FAILED"
    PROVE  Requeued(Counts(rws)) = Counts([rws EXCEPT ![d] = "PENDING"])
<1> DEFINE new == [rws EXCEPT ![d] = "PENDING"]
           In(f, st) == {e \in Signals \ aged : f[e] = st}
<1>1. /\ new \in Listed /\ new[d] = "PENDING"
      /\ \A e \in Signals \ {d} : new[e] = rws[e]
  BY DEF Listed, Lane
<1> HIDE DEF new
<1>2. IsFiniteSet(In(rws, "FAILED")) /\ IsFiniteSet(In(rws, "PENDING"))
  BY SignalAssumption, FS_Subset
<1>3. /\ In(new, "FAILED") = In(rws, "FAILED") \ {d} /\ d \in In(rws, "FAILED")
      /\ In(new, "PENDING") = In(rws, "PENDING") \union {d} /\ d \notin In(rws, "PENDING")
      /\ In(new, "SENT") = In(rws, "SENT")
  BY <1>1
<1> HIDE DEF In
<1>4. Cardinality(In(new, "FAILED")) = Cardinality(In(rws, "FAILED")) - 1
  BY <1>2, <1>3, FS_RemoveElement
<1>5. Cardinality(In(new, "PENDING")) = Cardinality(In(rws, "PENDING")) + 1
  BY <1>2, <1>3, FS_AddElement
<1>6. Cardinality(In(new, "FAILED")) \in Nat
  <2>1. IsFiniteSet(In(new, "FAILED"))
    BY <1>2, <1>3, FS_RemoveElement
  <2> QED
    BY <2>1, FS_CardinalityType
<1>7. Cardinality(In(rws, "FAILED")) \in Nat \ {0}
  <2>1. Cardinality(In(rws, "FAILED")) \in Nat
    BY <1>2, FS_CardinalityType
  <2> QED
    BY <1>4, <1>6, <2>1
<1>8. /\ Counts(rws) = [st \in Lane |-> Cardinality(In(rws, st))]
      /\ Counts(new) = [st \in Lane |-> Cardinality(In(new, st))]
  BY DEF Counts, In
<1> HIDE DEF new
<1>9. Requeued(Counts(rws)) =
        [[Counts(rws) EXCEPT !["FAILED"] = Cardinality(In(rws, "FAILED")) - 1]
            EXCEPT !["PENDING"] = Cardinality(In(rws, "PENDING")) + 1]
  BY <1>7, <1>8 DEF Requeued, Lane
<1>10. ASSUME NEW st \in Lane
       PROVE  Requeued(Counts(rws))[st] = Counts(new)[st]
  BY <1>3, <1>4, <1>5, <1>8, <1>9 DEF Lane
<1>11. Requeued(Counts(rws)) = [st \in Lane |-> Requeued(Counts(rws))[st]]
  BY <1>8, <1>9
<1>12. Counts(new) = [st \in Lane |-> Counts(new)[st]]
  BY <1>8
<1>13. Requeued(Counts(rws)) = Counts(new)
  BY <1>10, <1>11, <1>12
<1> QED
  BY <1>13 DEF new

\* A disturbed read goes on, but proves nothing.
LEMMA DisturbedLoads ==
    ASSUME SignalTypes
    PROVE  /\ Disturbed \in [Loads -> {NoLoad} \union AskedLoads \union CountedLoads \union ReadLoads]
           /\ \A l \in Loads : Disturbed[l] # NoLoad => ~Disturbed[l].clean
<1>1. ASSUME NEW l \in Loads, loads[l] # NoLoad
      PROVE  /\ [loads[l] EXCEPT !.clean = FALSE] \in AskedLoads \union CountedLoads \union ReadLoads
             /\ ~[loads[l] EXCEPT !.clean = FALSE].clean
  <2> DEFINE new == [loads[l] EXCEPT !.clean = FALSE]
  <2>1. CASE loads[l] \in AskedLoads
    BY <2>1 DEF AskedLoads
  <2>2. CASE loads[l] \in CountedLoads
    BY <2>2 DEF CountedLoads
  <2>3. CASE loads[l] \in ReadLoads
    BY <2>3 DEF ReadLoads
  <2> QED
    BY <1>1, <2>1, <2>2, <2>3 DEF SignalTypes
<1> QED
  BY <1>1 DEF Disturbed

\* While no read is clean, and a board that may differ is known to have strayed.
LEMMA WorkerMovesKeepsSignals ==
    ASSUME SignalInv, NEW d \in Signals, WorkerMoves(d)
    PROVE  SignalInv'
<1>1. /\ loads' = Disturbed /\ strayed' = TRUE /\ UNCHANGED <<aged, board, retrying>>
      /\ lane' \in Listed
  BY DEF WorkerMoves, SignalInv, SignalTypes, Listed, Lane
<1>2. SignalTypes' /\ CleanLoads' /\ BoardAgrees' /\ RetriedIsShown'
  BY <1>1, DisturbedLoads DEF SignalInv, SignalTypes, CleanLoads, BoardAgrees, RetriedIsShown
<1> QED
  BY <1>2 DEF SignalInv

LEMMA PressesRetryKeepsSignals ==
    ASSUME SignalInv, NEW d \in Signals, PressesRetry(d)
    PROVE  SignalInv'
<1>1. /\ loads' = Disturbed /\ UNCHANGED <<lane, aged, board, strayed>>
      /\ retrying = NoRetry /\ retrying' = [of |-> d, at |-> "asked"]
      /\ board # NoSnapshot /\ board.rows[d] = "FAILED"
  BY DEF PressesRetry
<1>2. retrying' \in Retries /\ retrying'.of = d /\ retrying'.at = "asked"
  BY <1>1 DEF Retries
<1>3. SignalTypes' /\ CleanLoads'
  BY <1>1, <1>2, DisturbedLoads DEF SignalInv, SignalTypes, CleanLoads
<1>4. UNCHANGED Counts(board.rows)
  BY <1>1 DEF Counts
<1>5. BoardAgrees' /\ RetriedIsShown'
  BY <1>1, <1>2, <1>4 DEF SignalInv, BoardAgrees, RetriedIsShown
<1> QED
  BY <1>3, <1>5 DEF SignalInv

\* What one read finds leaves the others and the board alone.
LEMMA LoadStepKeepsSignals ==
    ASSUME SignalInv, NEW l \in Loads,
           NEW new \in {NoLoad} \union AskedLoads \union CountedLoads \union ReadLoads,
           loads' = [loads EXCEPT ![l] = new], UNCHANGED <<lane, aged, board, retrying, strayed>>,
           new # NoLoad /\ new.clean =>
              /\ retrying = NoRetry
              /\ new \in CountedLoads \union ReadLoads => new.counts = Counts(lane)
              /\ new \in ReadLoads => new.rows = lane
    PROVE  SignalInv'
<1>1. loads'[l] = new /\ \A k \in Loads \ {l} : loads'[k] = loads[k]
  BY DEF SignalInv, SignalTypes
<1>2. SignalTypes'
  BY DEF SignalInv, SignalTypes
<1>3. \A rws : UNCHANGED Counts(rws)
  BY DEF Counts
<1>4. UNCHANGED Counts(lane) /\ UNCHANGED Counts(board.rows)
  BY DEF Counts
<1>5. CleanLoads'
  BY <1>1, <1>4 DEF SignalInv, CleanLoads
<1>6. BoardAgrees' /\ RetriedIsShown'
  BY <1>4 DEF SignalInv, BoardAgrees, RetriedIsShown
<1> QED
  BY <1>2, <1>5, <1>6 DEF SignalInv

LEMMA LoadsKeepSignals ==
    ASSUME SignalInv, NEW l \in Loads,
           LoadsBoard(l) \/ BoardCounted(l) \/ BoardListed(l) \/ BoardLost(l)
    PROVE  SignalInv'
<1>1. UNCHANGED <<lane, aged, board, retrying, strayed>>
  BY DEF LoadsBoard, BoardCounted, BoardListed, BoardLost
<1>2. loads[l] \in {NoLoad} \union AskedLoads \union CountedLoads \union ReadLoads
  BY DEF SignalInv, SignalTypes
<1>3. CASE LoadsBoard(l)
  <2> DEFINE new == [at |-> "asked", clean |-> retrying = NoRetry]
  <2>1. new \in AskedLoads /\ (new.clean => retrying = NoRetry)
    BY DEF AskedLoads
  <2>2. loads' = [loads EXCEPT ![l] = new]
    BY <1>3 DEF LoadsBoard
  <2> HIDE DEF new
  <2> QED
    BY <1>1, <2>1, <2>2, LoadKinds, LoadStepKeepsSignals
<1>4. CASE BoardCounted(l)
  <2> DEFINE new == [at |-> "counted", clean |-> loads[l].clean, counts |-> Counts(lane)]
  <2>1. loads[l] \in AskedLoads
    BY <1>2, <1>4, LoadKinds DEF BoardCounted
  <2>2. new \in CountedLoads /\ new.clean = loads[l].clean /\ new.counts = Counts(lane)
    BY <2>1, CountsAreFigures DEF AskedLoads, CountedLoads, SignalInv, SignalTypes
  <2>3. loads' = [loads EXCEPT ![l] = new]
    BY <1>4 DEF BoardCounted
  <2> HIDE DEF new
  <2>4. loads[l].clean => retrying = NoRetry
    BY <2>1, LoadKinds DEF SignalInv, CleanLoads
  <2> QED
    BY <1>1, <2>2, <2>3, <2>4, LoadKinds, LoadStepKeepsSignals
<1>5. CASE BoardListed(l)
  <2> DEFINE new == [at |-> "read", clean |-> loads[l].clean, counts |-> loads[l].counts, rows |-> lane]
  <2>1. loads[l] \in CountedLoads
    BY <1>2, <1>5, LoadKinds DEF BoardListed
  <2>2. /\ new \in ReadLoads /\ new.clean = loads[l].clean
        /\ new.counts = loads[l].counts /\ new.rows = lane
    BY <2>1 DEF CountedLoads, ReadLoads, SignalInv, SignalTypes
  <2>3. loads' = [loads EXCEPT ![l] = new]
    BY <1>5 DEF BoardListed
  <2> HIDE DEF new
  <2>4. loads[l].clean => retrying = NoRetry /\ loads[l].counts = Counts(lane)
    BY <2>1, LoadKinds DEF SignalInv, CleanLoads
  <2> QED
    BY <1>1, <2>2, <2>3, <2>4, LoadKinds, LoadStepKeepsSignals
<1>6. CASE BoardLost(l)
  BY <1>1, <1>6, LoadStepKeepsSignals DEF BoardLost
<1> QED
  BY <1>3, <1>4, <1>5, <1>6

LEMMA BoardArrivesKeepsSignals ==
    ASSUME SignalInv, NEW l \in Loads, BoardArrives(l)
    PROVE  SignalInv'
<1>1. loads[l] \in ReadLoads
  BY LoadKinds DEF BoardArrives, SignalInv, SignalTypes
<1>2. /\ board' = [counts |-> loads[l].counts, rows |-> loads[l].rows]
      /\ strayed' = ~loads[l].clean /\ loads' = [loads EXCEPT ![l] = NoLoad]
      /\ UNCHANGED <<lane, aged, retrying>>
  BY DEF BoardArrives
<1>3. /\ board' \in [counts : Figures, rows : Listed] /\ strayed' \in BOOLEAN
      /\ board'.counts = loads[l].counts /\ board'.rows = loads[l].rows
  BY <1>1, <1>2 DEF ReadLoads
<1>4. SignalTypes'
  BY <1>2, <1>3 DEF SignalInv, SignalTypes
<1>5. UNCHANGED Counts(lane)
  BY <1>2 DEF Counts
<1>6. loads'[l] = NoLoad /\ \A k \in Loads \ {l} : loads'[k] = loads[k]
  BY <1>2 DEF SignalInv, SignalTypes
<1>7. CleanLoads'
  BY <1>2, <1>5, <1>6 DEF SignalInv, CleanLoads
<1>8. loads[l].clean => /\ retrying = NoRetry /\ loads[l].counts = Counts(lane)
                        /\ loads[l].rows = lane
  BY <1>1, LoadKinds DEF SignalInv, CleanLoads
<1>9. board'.rows = lane => Counts(board.rows)' = Counts(lane)'
  BY <1>2
<1>10. BoardAgrees'
  BY <1>2, <1>3, <1>5, <1>8, <1>9 DEF BoardAgrees
<1>11. RetriedIsShown'
  BY <1>3 DEF RetriedIsShown, NoSnapshot
<1> QED
  BY <1>4, <1>7, <1>10, <1>11 DEF SignalInv

LEMMA RetryHandledKeepsSignals ==
    ASSUME SignalInv, RetryHandled
    PROVE  SignalInv'
<1>1. /\ retrying \in Retries /\ retrying # NoRetry /\ retrying.at = "asked"
      /\ UNCHANGED <<aged, board, loads>>
  BY DEF RetryHandled, SignalInv, SignalTypes
<1> DEFINE d == retrying.of
           queued == [retrying EXCEPT !.at = "queued"]
           refused == [retrying EXCEPT !.at = "refused"]
<1>2. /\ queued \in Retries /\ queued.of = d /\ queued.at = "queued"
      /\ refused \in Retries /\ refused.of = d /\ refused.at = "refused"
      /\ d \in Signals
  BY <1>1 DEF Retries
<1>3. /\ retrying' \in {queued, refused} /\ strayed' \in BOOLEAN
      /\ lane' = lane \/ (lane[d] = "FAILED" /\ lane' = [lane EXCEPT ![d] = "PENDING"])
      /\ strayed' \/ (retrying' = refused /\ UNCHANGED <<lane, strayed>>)
           \/ (retrying' = queued /\ lane[d] = "FAILED" /\ UNCHANGED strayed
                 /\ lane' = [lane EXCEPT ![d] = "PENDING"])
  BY DEF RetryHandled, SignalInv, SignalTypes
<1> HIDE DEF queued, refused
<1>4. SignalTypes'
  BY <1>1, <1>2, <1>3 DEF SignalInv, SignalTypes, Listed, Lane
<1>5. CleanLoads'
  BY <1>1 DEF SignalInv, CleanLoads
<1>6. UNCHANGED Counts(board.rows)
  BY <1>1 DEF Counts
<1>7. BoardAgrees'
  <2> SUFFICES ASSUME board # NoSnapshot, ~strayed'
               PROVE  BoardAgrees'
    BY <1>1 DEF BoardAgrees
  <2>1. /\ ~strayed /\ board.counts = Counts(board.rows)
        /\ board.rows[d] = "FAILED" /\ board.rows = lane
    BY <1>1, <1>3 DEF SignalInv, BoardAgrees
  <2>2. retrying' # NoRetry /\ retrying'.of = d
    BY <1>2, <1>3, RetryKinds
  <2>3. IF retrying'.at = "queued" THEN lane' = [board.rows EXCEPT ![d] = "PENDING"] ELSE board.rows = lane'
    BY <1>2, <1>3, <2>1
  <2> QED
    BY <1>1, <1>6, <2>1, <2>2, <2>3 DEF BoardAgrees
<1>8. RetriedIsShown'
  BY <1>1 DEF SignalInv, RetriedIsShown
<1> QED
  BY <1>4, <1>5, <1>7, <1>8 DEF SignalInv

LEMMA RetryArrivesKeepsSignals ==
    ASSUME SignalInv, RetryArrives
    PROVE  SignalInv'
<1>1. /\ retrying \in Retries /\ retrying # NoRetry /\ retrying' = NoRetry
      /\ UNCHANGED <<lane, aged, loads>>
  BY DEF RetryArrives, SignalInv, SignalTypes
<1>2. CleanLoads'
  BY <1>1 DEF SignalInv, CleanLoads
<1>3. CASE retrying.at = "refused"
  <2>1. UNCHANGED <<board, strayed>>
    BY <1>3 DEF RetryArrives
  <2>2. UNCHANGED Counts(board.rows)
    BY <1>1, <2>1 DEF Counts
  <2>3. SignalTypes' /\ BoardAgrees' /\ RetriedIsShown'
    BY <1>1, <1>3, <2>1, <2>2 DEF SignalInv, SignalTypes, BoardAgrees, RetriedIsShown
  <2> QED
    BY <1>2, <2>3 DEF SignalInv
<1>4. CASE retrying.at = "queued"
  <2> DEFINE d == retrying.of
             new == [counts |-> Requeued(board.counts), rows |-> [board.rows EXCEPT ![d] = "PENDING"]]
  <2>1. board' = new /\ strayed' = (strayed \/ d \in aged)
    BY <1>4 DEF RetryArrives
  <2>2. new.counts = Requeued(board.counts) /\ new.rows = [board.rows EXCEPT ![d] = "PENDING"]
    OBVIOUS
  <2>3. board # NoSnapshot /\ board.counts \in Figures /\ board.rows \in Listed /\ d \in Signals
    BY <1>1, RetryKinds DEF SignalInv, SignalTypes, RetriedIsShown
  <2>4. Requeued(board.counts) \in Figures
    BY <2>3 DEF Requeued, Figures, Lane
  <2>5. [board.rows EXCEPT ![d] = "PENDING"] \in Listed
    BY <2>3 DEF Listed, Lane
  <2>6. new \in [counts : Figures, rows : Listed]
    BY <2>4, <2>5
  <2> HIDE DEF new
  <2>7. strayed' \in BOOLEAN
    BY <2>1 DEF SignalInv, SignalTypes
  <2>8. SignalTypes' /\ RetriedIsShown'
    BY <1>1, <2>1, <2>6, <2>7 DEF SignalInv, SignalTypes, RetriedIsShown
  <2>9. ASSUME ~strayed'
        PROVE  new.rows = lane /\ new.counts = Counts(new.rows)
    <3>1. ~strayed /\ d \in Signals \ aged
      BY <2>1, <2>3, <2>9
    <3>2. /\ board.counts = Counts(board.rows) /\ board.rows[d] = "FAILED"
          /\ lane = [board.rows EXCEPT ![d] = "PENDING"]
      BY <1>1, <1>4, <2>3, <3>1 DEF SignalInv, BoardAgrees
    <3>3. Requeued(board.counts) = Counts([board.rows EXCEPT ![d] = "PENDING"])
      BY <2>3, <3>1, <3>2, RequeuedCounts
    <3> QED
      BY <2>2, <3>2, <3>3
  <2>10. UNCHANGED Counts(lane)
    BY <1>1 DEF Counts
  <2>11. BoardAgrees'
    BY <1>1, <2>1, <2>9, <2>10 DEF BoardAgrees
  <2> QED
    BY <1>2, <2>8, <2>11 DEF SignalInv
<1> QED
  BY <1>3, <1>4 DEF RetryArrives

LEMMA SignalStepKeepsInv ==
    ASSUME SignalInv, SignalDeskNext \/ UNCHANGED signalVars
    PROVE  SignalInv'
<1>1. CASE UNCHANGED signalVars
  <2>1. UNCHANGED <<lane, aged, board, loads, retrying, strayed>>
    BY <1>1 DEF signalVars
  <2>2. UNCHANGED Counts(lane) /\ UNCHANGED Counts(board.rows)
    BY <2>1 DEF Counts
  <2> QED
    BY <2>1, <2>2 DEF SignalInv, SignalTypes, CleanLoads, BoardAgrees, RetriedIsShown
<1> QED
  BY <1>1, WorkerMovesKeepsSignals, PressesRetryKeepsSignals, LoadsKeepSignals, BoardArrivesKeepsSignals,
     RetryHandledKeepsSignals, RetryArrivesKeepsSignals DEF SignalDeskNext

LEMMA SignalStart == SignalDeskInit => SignalInv
<1> SUFFICES ASSUME SignalDeskInit
             PROVE  SignalInv
  OBVIOUS
<1>1. loads \in [Loads -> {NoLoad, [at |-> "asked", clean |-> TRUE]}]
  BY DEF SignalDeskInit
<1>2. [at |-> "asked", clean |-> TRUE] \in AskedLoads
  BY DEF AskedLoads
<1>3. SignalTypes
  BY <1>1, <1>2 DEF SignalDeskInit, SignalTypes, Listed
<1>4. CleanLoads
  BY <1>1, <1>2, LoadKinds DEF SignalDeskInit, CleanLoads
<1>5. BoardAgrees /\ RetriedIsShown
  BY DEF SignalDeskInit, BoardAgrees, RetriedIsShown
<1> QED
  BY <1>3, <1>4, <1>5 DEF SignalInv

\* A board at rest awaits no retry.
LEMMA SignalInvHolds == SignalInv => SignalDeskIsTrue
BY DEF SignalInv, BoardAgrees, SignalDeskIsTrue

\* A board that is patched after a retry (automations.tsx, retry) instead of being read again
\* has the figures and the rows that a read would bring.
THEOREM BoardsTellTruth == SignalDeskSpec => []SignalDeskIsTrue
<1>1. SignalInv /\ [SignalDeskNext]_signalVars => SignalInv'
  BY SignalStepKeepsInv
<1> QED
  BY <1>1, SignalStart, SignalInvHolds, PTL DEF SignalDeskSpec

-----------------------------------------------------------------------------
(* THE AUDIT LOG *)

LogFilters == OfferedTypes \union {Everything}
AskedLogs == [of : LogFilters, at : {"asked"}, late : BOOLEAN]
AnsweredLogs == [of : LogFilters, at : {"read"}, late : BOOLEAN, found : SUBSET Nat, log : Nat]

AuditTypes ==
    /\ trail \in Seq(RecordedTypes) /\ logFilter \in LogFilters
    /\ audits \in Seq(AskedLogs \union AnsweredLogs)
    /\ logRead \in 0..Len(trail) /\ logs \subseteq 1..logRead
    /\ auditFailed \in BOOLEAN /\ auditCrossed \in BOOLEAN

\* whatever was asked before something that comes late comes late
LateFirst == \A i, j \in 1..Len(audits) : i < j /\ audits[j].late => audits[i].late

\* the answer to the last choice is still to come
Awaited == audits # <<>> /\ ~audits[Len(audits)].late
AwaitedIsChosen == Awaited => audits[Len(audits)].of = logFilter

AnswerIsTrue(v) ==
    v.at = "read" => v.log \in 0..Len(trail) /\ v.found = NewestEntries(v.of, v.log)
FoundIsTrue == \A i \in 1..Len(audits) : AnswerIsTrue(audits[i])

PageIsAnswer ==
    ~Awaited /\ ~auditFailed /\ ~auditCrossed => ShownLogs = NewestEntries(logFilter, logRead)

AuditInv == AuditTypes /\ LateFirst /\ AwaitedIsChosen /\ FoundIsTrue /\ PageIsAnswer

LEMMA AuditKinds ==
    /\ \A v \in AskedLogs : v.at = "asked" /\ v.of \in LogFilters /\ v.late \in BOOLEAN
    /\ \A v \in AnsweredLogs : /\ v.at = "read" /\ v.of \in LogFilters /\ v.late \in BOOLEAN
                               /\ v.log \in Nat /\ v.found \subseteq Nat
BY DEF AskedLogs, AnsweredLogs

\* What is found is of the filter, and among the entries that were there.
LEMMA NewestAreOfFilter ==
    ASSUME NEW f, NEW n \in Nat
    PROVE  /\ NewestEntries(f, n) \subseteq 1..n
           /\ \A i \in NewestEntries(f, n) : About(f, i)
BY DEF NewestEntries

LEMMA AnswersStay ==
    ASSUME UNCHANGED trail, NEW v
    PROVE  AnswerIsTrue(v)' <=> AnswerIsTrue(v)
<1>1. UNCHANGED NewestEntries(v.of, v.log)
  BY DEF NewestEntries, About
<1> QED
  BY <1>1 DEF AnswerIsTrue

\* Entries that are added change nothing of those that were read.
LEMMA RecordsKeepsAudit ==
    ASSUME AuditInv, NEW type \in RecordedTypes, Records(type)
    PROVE  AuditInv'
<1>1. /\ trail' = Append(trail, type)
      /\ UNCHANGED <<logFilter, audits, logs, logRead, auditFailed, auditCrossed>>
  BY DEF Records
<1>2. /\ trail \in Seq(RecordedTypes) /\ trail' \in Seq(RecordedTypes) /\ Len(trail') = Len(trail) + 1
      /\ \A i \in 1..Len(trail) : trail'[i] = trail[i]
  BY <1>1 DEF AuditInv, AuditTypes
<1>3. \A f : \A i \in 1..Len(trail) : About(f, i)' <=> About(f, i)
  BY <1>2 DEF About
<1>4. ASSUME NEW f, NEW n \in 0..Len(trail)
      PROVE  UNCHANGED NewestEntries(f, n)
  <2> DEFINE Youngest(S) == {i \in S : Cardinality({j \in S : j > i}) < LogPage}
             then == {i \in 1..n : About(f, i)'}
             before == {i \in 1..n : About(f, i)}
  <2>1. then = before
    BY <1>2, <1>3
  <2>2. NewestEntries(f, n) = Youngest(before)
    BY DEF NewestEntries
  <2>3. NewestEntries(f, n)' = Youngest(then)
    BY DEF NewestEntries
  <2> HIDE DEF Youngest, then, before
  <2> QED
    BY <2>1, <2>2, <2>3
<1>5. UNCHANGED ShownLogs
  <2>1. logs \subseteq 1..Len(trail)
    BY DEF AuditInv, AuditTypes
  <2> QED
    BY <1>1, <1>2, <2>1 DEF ShownLogs, About
<1>6. AuditTypes'
  BY <1>1, <1>2 DEF AuditInv, AuditTypes
<1>7. LateFirst' /\ AwaitedIsChosen' /\ (Awaited' <=> Awaited)
  BY <1>1 DEF AuditInv, LateFirst, AwaitedIsChosen, Awaited
<1>8. FoundIsTrue'
  <2>1. ASSUME NEW v, AnswerIsTrue(v)
        PROVE  AnswerIsTrue(v)'
    BY <1>2, <1>4, <2>1 DEF AnswerIsTrue
  <2> QED
    BY <1>1, <2>1 DEF AuditInv, FoundIsTrue
<1>9. PageIsAnswer'
  <2>1. UNCHANGED NewestEntries(logFilter, logRead)
    BY <1>1, <1>4 DEF AuditInv, AuditTypes
  <2> QED
    BY <1>1, <1>5, <1>7, <2>1 DEF AuditInv, PageIsAnswer
<1> QED
  BY <1>6, <1>7, <1>8, <1>9 DEF AuditInv

LEMMA ChoosesFilterKeepsAudit ==
    ASSUME AuditInv, NEW f \in LogFilters, ChoosesFilter(f)
    PROVE  AuditInv'
<1>1. /\ logFilter' = f /\ audits' = Append(audits, AskedLog(f))
      /\ UNCHANGED <<trail, logs, logRead, auditCrossed>> /\ auditFailed' = FALSE
  BY DEF ChoosesFilter
<1>2. AskedLog(f) \in AskedLogs /\ AskedLog(f).of = f /\ ~AskedLog(f).late /\ AskedLog(f).at = "asked"
  BY DEF AskedLog, AskedLogs
<1>3. /\ audits' \in Seq(AskedLogs \union AnsweredLogs) /\ Len(audits') = Len(audits) + 1
      /\ Len(audits) \in Nat /\ audits'[Len(audits')] = AskedLog(f)
      /\ \A i \in 1..Len(audits) : audits'[i] = audits[i]
  BY <1>1, <1>2 DEF AuditInv, AuditTypes
<1>4. AuditTypes'
  BY <1>1, <1>3 DEF AuditInv, AuditTypes
<1>5. LateFirst' /\ AwaitedIsChosen' /\ PageIsAnswer'
  <2>1. Awaited'
    BY <1>2, <1>3 DEF Awaited
  <2>2. LateFirst'
    BY <1>2, <1>3 DEF AuditInv, LateFirst
  <2> QED
    BY <1>1, <1>2, <1>3, <2>1, <2>2 DEF AwaitedIsChosen, PageIsAnswer
<1>6. FoundIsTrue'
  <2>1. \A i \in 1..Len(audits) : AnswerIsTrue(audits[i])
    BY DEF AuditInv, FoundIsTrue
  <2>2. AnswerIsTrue(AskedLog(f))
    BY <1>2 DEF AnswerIsTrue
  <2> QED
    BY <1>1, <1>3, <2>1, <2>2, AnswersStay DEF FoundIsTrue
<1> QED
  BY <1>4, <1>5, <1>6 DEF AuditInv

\* What comes, or is lost, leaves the place of its request, and those that were asked before
\* come late from then on.
LEMMA WithoutAuditKeeps ==
    ASSUME AuditInv, NEW i \in 1..Len(audits), audits' = WithoutAudit(i), UNCHANGED <<trail, logFilter>>
    PROVE  /\ audits' \in Seq(AskedLogs \union AnsweredLogs)
           /\ LateFirst' /\ AwaitedIsChosen' /\ FoundIsTrue'
           /\ IF i = Len(audits) THEN ~Awaited' ELSE Awaited' <=> Awaited
<1> DEFINE last == Len(audits)
           Late(j) == [audits[j] EXCEPT !.late = TRUE]
<1>1. /\ last \in Nat /\ i <= last
      /\ \A j \in 1..last : audits[j] \in AskedLogs \union AnsweredLogs
  BY DEF AuditInv, AuditTypes
<1>2. ASSUME NEW j \in 1..last
      PROVE  /\ Late(j) \in AskedLogs \union AnsweredLogs /\ Late(j).late
             /\ AnswerIsTrue(Late(j)) /\ AnswerIsTrue(audits[j])
  <2>1. AnswerIsTrue(audits[j])
    BY DEF AuditInv, FoundIsTrue
  <2>2. CASE audits[j] \in AskedLogs
    BY <2>1, <2>2 DEF AskedLogs, AnswerIsTrue
  <2>3. CASE audits[j] \in AnsweredLogs
    <3>1. /\ Late(j) \in AnsweredLogs /\ Late(j).late /\ Late(j).at = audits[j].at
          /\ Late(j).of = audits[j].of /\ Late(j).log = audits[j].log /\ Late(j).found = audits[j].found
      BY <2>3 DEF AnsweredLogs
    <3> HIDE DEF Late
    <3> QED
      BY <2>1, <3>1 DEF AnswerIsTrue
  <2> QED
    BY <1>1, <2>2, <2>3
<1>3. audits' = [j \in 1..(last - 1) |-> IF j < i THEN Late(j) ELSE audits[j + 1]]
  BY DEF WithoutAudit
<1> HIDE DEF Late
<1>4. \A j \in 1..(last - 1) : /\ audits'[j] = IF j < i THEN Late(j) ELSE audits[j + 1]
                               /\ audits'[j] \in AskedLogs \union AnsweredLogs
  BY <1>1, <1>2, <1>3
<1>5. audits' \in Seq(AskedLogs \union AnsweredLogs) /\ Len(audits') = last - 1
  BY <1>1, <1>3, <1>4
<1>6. LateFirst'
  BY <1>1, <1>2, <1>4, <1>5 DEF AuditInv, LateFirst
<1>7. FoundIsTrue'
  <2>1. \A j \in 1..(last - 1) : AnswerIsTrue(audits'[j])
    BY <1>1, <1>2, <1>4
  <2> QED
    BY <1>5, <2>1, AnswersStay DEF FoundIsTrue
<1>8. CASE i = last
  <2>1. ~Awaited'
    BY <1>1, <1>2, <1>4, <1>5, <1>8 DEF Awaited
  <2> QED
    BY <1>5, <1>6, <1>7, <1>8, <2>1 DEF AwaitedIsChosen
<1>9. CASE i # last
  <2>1. audits'[last - 1] = audits[last] /\ audits # <<>> /\ audits' # <<>>
    BY <1>1, <1>4, <1>5, <1>9
  <2>2. (Awaited' <=> Awaited) /\ AwaitedIsChosen'
    BY <1>1, <1>5, <2>1 DEF Awaited, AwaitedIsChosen, AuditInv
  <2> QED
    BY <1>5, <1>6, <1>7, <1>9, <2>2
<1> QED
  BY <1>8, <1>9

LEMMA AuditHandledKeepsAudit ==
    ASSUME AuditInv, NEW i \in 1..Len(audits), AuditHandled(i)
    PROVE  AuditInv'
<1> DEFINE v == audits[i]
           new == [of |-> v.of, at |-> "read", late |-> v.late,
                   found |-> NewestEntries(v.of, Len(trail)), log |-> Len(trail)]
<1>1. /\ v.at = "asked" /\ audits' = [audits EXCEPT ![i] = new]
      /\ UNCHANGED <<trail, logFilter, logs, logRead, auditFailed, auditCrossed>>
  BY DEF AuditHandled
<1>2. v \in AskedLogs \union AnsweredLogs /\ Len(trail) \in Nat
  BY DEF AuditInv, AuditTypes
<1>3. v.of \in LogFilters /\ v.late \in BOOLEAN
  BY <1>2, AuditKinds
<1>4. NewestEntries(v.of, Len(trail)) \subseteq Nat
  BY <1>2, NewestAreOfFilter
<1>5. /\ new \in AnsweredLogs /\ new.of = v.of /\ new.late = v.late
      /\ new.found = NewestEntries(v.of, Len(trail)) /\ new.log = Len(trail)
  BY <1>2, <1>3, <1>4 DEF AnsweredLogs
<1> HIDE DEF new
<1>6. AnswerIsTrue(new)
  BY <1>2, <1>5 DEF AnswerIsTrue
<1>7. /\ audits' \in Seq(AskedLogs \union AnsweredLogs) /\ Len(audits') = Len(audits) /\ Len(audits) \in Nat
      /\ audits'[i] = new /\ \A j \in 1..Len(audits) \ {i} : audits'[j] = audits[j]
  BY <1>1, <1>5 DEF AuditInv, AuditTypes
<1>8. AuditTypes' /\ LateFirst' /\ AwaitedIsChosen' /\ (Awaited' <=> Awaited)
  <2>1. audits' # <<>> /\ audits # <<>>
    BY <1>7
  <2>2. Awaited' <=> Awaited
    <3>1. Len(audits) \in 1..Len(audits)
      BY <1>7
    <3>2. audits'[Len(audits)].late = audits[Len(audits)].late
      BY <1>5, <1>7, <3>1
    <3> QED
      BY <1>7, <2>1, <3>2 DEF Awaited
  <2>3. AwaitedIsChosen'
    <3>1. Len(audits) \in 1..Len(audits)
      BY <1>7, <2>1
    <3>2. audits'[Len(audits)].of = audits[Len(audits)].of
      BY <1>5, <1>7, <3>1
    <3> QED
      BY <1>1, <1>7, <2>2, <3>2 DEF AwaitedIsChosen, AuditInv
  <2>4. AuditTypes'
    BY <1>1, <1>7 DEF AuditInv, AuditTypes
  <2>5. LateFirst'
    BY <1>5, <1>7 DEF AuditInv, LateFirst
  <2> QED
    BY <2>2, <2>3, <2>4, <2>5
<1>9. FoundIsTrue'
  <2>1. \A j \in 1..Len(audits) : AnswerIsTrue(audits'[j])
    BY <1>6, <1>7 DEF AuditInv, FoundIsTrue
  <2> QED
    BY <1>1, <1>7, <2>1, AnswersStay DEF FoundIsTrue
<1>10. PageIsAnswer'
  <2>1. UNCHANGED ShownLogs /\ UNCHANGED NewestEntries(logFilter, logRead)
    BY <1>1 DEF ShownLogs, NewestEntries, About
  <2> QED
    BY <1>1, <1>8, <2>1 DEF AuditInv, PageIsAnswer
<1> QED
  BY <1>8, <1>9, <1>10 DEF AuditInv

LEMMA AuditArrivesKeepsAudit ==
    ASSUME AuditInv, NEW i \in 1..Len(audits), AuditArrives(i)
    PROVE  AuditInv'
<1> DEFINE v == audits[i]
<1>1. /\ v.at = "read" /\ logs' = v.found /\ logRead' = v.log /\ auditCrossed' = v.late
      /\ audits' = WithoutAudit(i) /\ UNCHANGED <<trail, logFilter, auditFailed>>
  BY DEF AuditArrives
<1>2. v \in AnsweredLogs
  BY <1>1, AuditKinds DEF AuditInv, AuditTypes
<1>3. v.log \in 0..Len(trail) /\ v.found = NewestEntries(v.of, v.log)
  BY <1>1 DEF AuditInv, FoundIsTrue, AnswerIsTrue
<1>4. /\ v.found \subseteq 1..v.log /\ \A e \in v.found : About(v.of, e)
      /\ v.late \in BOOLEAN
  BY <1>2, <1>3, NewestAreOfFilter, AuditKinds
<1>5. AuditTypes' /\ LateFirst' /\ AwaitedIsChosen' /\ FoundIsTrue'
  BY <1>1, <1>3, <1>4, WithoutAuditKeeps DEF AuditInv, AuditTypes
<1>6. PageIsAnswer'
  <2> SUFFICES ASSUME ~Awaited', ~v.late
               PROVE  ShownLogs' = NewestEntries(logFilter, logRead)'
    BY <1>1 DEF PageIsAnswer
  <2>1. i = Len(audits)
    <3> SUFFICES ASSUME i # Len(audits)
                 PROVE  FALSE
      OBVIOUS
    <3>1. ~Awaited /\ audits # <<>> /\ Len(audits) \in 1..Len(audits) /\ i < Len(audits)
      BY <1>1, WithoutAuditKeeps DEF AuditInv, AuditTypes
    <3>2. audits[Len(audits)].late
      BY <3>1 DEF Awaited
    <3> QED
      BY <3>1, <3>2 DEF AuditInv, LateFirst
  <2>2. v.of = logFilter
    <3>1. Awaited
      BY <2>1 DEF Awaited
    <3> QED
      BY <2>1, <3>1 DEF AuditInv, AwaitedIsChosen
  <2>3. ShownLogs' = logs'
    BY <1>1, <1>4, <2>2 DEF ShownLogs, About
  <2>4. NewestEntries(logFilter, logRead)' = NewestEntries(v.of, v.log)
    BY <1>1, <2>2 DEF NewestEntries, About
  <2> QED
    BY <1>1, <1>3, <2>3, <2>4
<1> QED
  BY <1>5, <1>6 DEF AuditInv

LEMMA AuditLostKeepsAudit ==
    ASSUME AuditInv, NEW i \in 1..Len(audits), AuditLost(i)
    PROVE  AuditInv'
<1>1. /\ logs' = {} /\ logRead' = 0 /\ auditFailed' = TRUE /\ audits' = WithoutAudit(i)
      /\ UNCHANGED <<trail, logFilter, auditCrossed>>
  BY DEF AuditLost
<1>2. AuditTypes' /\ LateFirst' /\ AwaitedIsChosen' /\ FoundIsTrue' /\ PageIsAnswer'
  BY <1>1, WithoutAuditKeeps DEF AuditInv, AuditTypes, PageIsAnswer
<1> QED
  BY <1>2 DEF AuditInv

LEMMA AuditStepKeepsInv ==
    ASSUME AuditInv, AuditNext \/ UNCHANGED auditVars
    PROVE  AuditInv'
<1>1. CASE UNCHANGED auditVars
  <2>1. UNCHANGED <<trail, logFilter, audits, logs, logRead, auditFailed, auditCrossed>>
    BY <1>1 DEF auditVars
  <2>2. AuditTypes' /\ LateFirst' /\ AwaitedIsChosen' /\ (Awaited' <=> Awaited)
    BY <2>1 DEF AuditInv, AuditTypes, LateFirst, AwaitedIsChosen, Awaited
  <2>3. FoundIsTrue'
    BY <2>1, AnswersStay DEF AuditInv, FoundIsTrue
  <2>4. UNCHANGED ShownLogs /\ UNCHANGED NewestEntries(logFilter, logRead)
    BY <2>1 DEF ShownLogs, NewestEntries, About
  <2> QED
    BY <2>1, <2>2, <2>3, <2>4 DEF AuditInv, PageIsAnswer
<1>2. DOMAIN audits = 1..Len(audits)
  BY DEF AuditInv, AuditTypes
<1> QED
  BY <1>1, <1>2, RecordsKeepsAudit, ChoosesFilterKeepsAudit, AuditHandledKeepsAudit, AuditArrivesKeepsAudit,
     AuditLostKeepsAudit DEF AuditNext, LogFilters

LEMMA AuditStart == AuditInit => AuditInv
<1> SUFFICES ASSUME AuditInit
             PROVE  AuditInv
  OBVIOUS
<1> DEFINE first == AskedLog(Everything)
<1>1. first \in AskedLogs /\ ~first.late /\ first.of = Everything /\ first.at = "asked"
  BY DEF AskedLog, AskedLogs, LogFilters
<1>2. audits = <<first>>
  BY DEF AuditInit
<1> HIDE DEF first
<1>3. audits \in Seq(AskedLogs \union AnsweredLogs) /\ Len(audits) = 1 /\ audits[1] = first /\ audits # <<>>
  <2> DEFINE S == AskedLogs \union AnsweredLogs
  <2>1. first \in S
    BY <1>1
  <2> HIDE DEF S
  <2>2. audits \in Seq(S) /\ Len(audits) = 1 /\ audits[1] = first /\ audits # <<>>
    BY <1>2, <2>1
  <2> QED
    BY <2>2 DEF S
<1>4. AuditTypes
  <2>1. trail \in Seq(RecordedTypes) /\ Len(trail) = 0
    BY DEF AuditInit
  <2>2. logs = {} /\ logRead = 0 /\ logFilter \in LogFilters /\ auditFailed = FALSE /\ auditCrossed = FALSE
    BY DEF AuditInit, LogFilters
  <2>3. logRead \in 0..Len(trail) /\ logs \subseteq 1..logRead
    BY <2>1, <2>2
  <2>4. auditFailed \in BOOLEAN /\ auditCrossed \in BOOLEAN
    BY <2>2
  <2>5. audits \in Seq(AskedLogs \union AnsweredLogs)
    BY <1>3
  <2> QED
    BY <2>1, <2>2, <2>3, <2>4, <2>5 DEF AuditTypes
<1>5. Awaited
  BY <1>1, <1>3 DEF Awaited
<1>6. LateFirst /\ AwaitedIsChosen /\ FoundIsTrue /\ PageIsAnswer
  BY <1>1, <1>3, <1>5 DEF AuditInit, LateFirst, AwaitedIsChosen, FoundIsTrue, AnswerIsTrue, PageIsAnswer
<1> QED
  BY <1>4, <1>6 DEF AuditInv

\* A page at rest awaits no answer.
LEMMA AuditInvHolds == AuditInv => AuditTrailIsTrue
BY DEF AuditInv, PageIsAnswer, Awaited, AuditTrailIsTrue

\* The audit log at rest shows what the chosen filter selects, for any number of reads under
\* way and entries recorded meanwhile (audit-logs/index.tsx, loadLogs and filteredLogs).
THEOREM AuditTrailTellsTruth == AuditSpec => []AuditTrailIsTrue
<1>1. AuditInv /\ [AuditNext]_auditVars => AuditInv'
  BY AuditStepKeepsInv
<1> QED
  BY <1>1, AuditStart, AuditInvHolds, PTL DEF AuditSpec

-----------------------------------------------------------------------------
(* THE DESKS TOGETHER *)

DesksInv == RosterInv /\ GateInv /\ RaceDeskInv /\ PageInv /\ SignalInv /\ AuditInv

\* A step of the clients is a step of the desk that is followed, and leaves the other desks.
LEMMA DesksStep ==
    ASSUME ClientsNext \/ UNCHANGED clientsVars
    PROVE  /\ RosterNext \/ UNCHANGED rosterVars
           /\ GateNext \/ UNCHANGED gateVars
           /\ RaceDeskNext \/ UNCHANGED raceDeskVars
           /\ TeamNext \/ UNCHANGED teamVars
           /\ SignalDeskNext \/ UNCHANGED signalVars
           /\ AuditNext \/ UNCHANGED auditVars
<1>1. CASE UNCHANGED clientsVars
  BY <1>1 DEF clientsVars
<1>2. CASE ClientsNext
  BY <1>2 DEF ClientsNext, Rests
<1> QED
  BY <1>1, <1>2

\* The desks of the staff keep showing what is stored, whichever part of the clients is
\* followed: the roster and its drawer, the stations' tickets, the races, the roles, the
\* Telegram messages and the audit log.
THEOREM DesksTellTruth == ClientsSpec => []DesksAreTrue
<1>1. ClientsInit => DesksInv
  BY RosterStart, GateStart, RaceDeskStart, TeamInvInit, SignalStart, AuditStart DEF ClientsInit, DesksInv
<1>2. DesksInv /\ [ClientsNext]_clientsVars => DesksInv'
  <2> SUFFICES ASSUME DesksInv, ClientsNext \/ UNCHANGED clientsVars
               PROVE  DesksInv'
    OBVIOUS
  <2>1. RosterInv' /\ GateInv'
    BY DesksStep, RosterStepKeepsInv, GateStepKeepsInv DEF DesksInv
  <2>2. RaceDeskInv' /\ PageInv'
    BY DesksStep, RaceDeskStepKeepsInv, PageInvNext DEF DesksInv
  <2>3. SignalInv' /\ AuditInv'
    BY DesksStep, SignalStepKeepsInv, AuditStepKeepsInv DEF DesksInv
  <2> QED
    BY <2>1, <2>2, <2>3 DEF DesksInv
<1>3. DesksInv => DesksAreTrue
  <2>1. RosterInv => RosterIsTrue
    BY DEF RosterInv
  <2> QED
    BY <2>1, GateInvHolds, RaceDeskInvHolds, PageInvImplies, SignalInvHolds, AuditInvHolds
       DEF DesksInv, DesksAreTrue
<1> QED
  BY <1>1, <1>2, <1>3, PTL DEF ClientsSpec
=============================================================================
