----------------------------- MODULE TeamAccess -----------------------------
(***************************************************************************)
(* The roles of accounts, the access tokens that claim them, and the page  *)
(* on which a super admin assigns them (pages/admin/users/index.tsx).  A   *)
(* request is let in by the role its token claims, which is the one that   *)
(* was stored when the token was issued; an account has a token for each   *)
(* of its sessions.                                                        *)
(***************************************************************************)
EXTENDS Naturals

CONSTANTS
    Accounts,
    Roles,          \* of which one is above the others
    Me,             \* the account whose page is followed
    RoleRequests,   \* changes that may be under way on the page: a bound
    RoleBound       \* changes, here and elsewhere: a bound

ASSUME TeamAssumption ==
    /\ "SUPER_ADMIN" \in Roles /\ "none" \notin Roles
    /\ Me \in Accounts /\ RoleBound \in Nat

VARIABLES
    role,           \* users.role
    claimed,        \* accounts with a valid token that claims the role above the others
    roleTurns,      \* changes begun so far
    team,           \* the page: what it lists, once it has loaded
    updating,       \* updatingUserId, or 0
    roleChange,     \* handleRoleChange
    unseen,         \* accounts changed elsewhere since they were read, or without an answer
    crossing        \* accounts of which two changes overlapped

accountVars == <<role, claimed, roleTurns>>
teamPageVars == <<team, updating, roleChange, unseen, crossing>>
teamVars == <<accountVars, teamPageVars>>

NotLoaded == [a \in Accounts |-> "none"]
NoRoleChange == [at |-> "idle", of |-> Me, to |-> "none"]
UnderWay(c) == roleChange[c].at \in {"asked", "done", "refused"}
\* the account a, if another change of it is under way
Overlapping(a) == {b \in {a} : \E c \in RoleRequests : UnderWay(c) /\ roleChange[c].of = b}

TeamTypeOK ==
    /\ role \in [Accounts -> Roles] /\ claimed \subseteq Accounts
    /\ roleTurns \in 0..RoleBound
    /\ team \in [Accounts -> Roles] \union {NotLoaded}
    /\ updating \in Accounts \union {0}
    /\ roleChange \in [RoleRequests -> {NoRoleChange} \union
           [at : {"asked", "done", "refused", "late"}, of : Accounts, to : Roles]]
    /\ unseen \subseteq Accounts /\ crossing \subseteq Accounts

TeamInit ==
    /\ role \in [Accounts -> Roles] /\ \E a \in Accounts : role[a] = "SUPER_ADMIN"
    /\ claimed = {} /\ roleTurns = 0
    /\ team = NotLoaded /\ updating = 0 /\ roleChange = [c \in RoleRequests |-> NoRoleChange]
    /\ unseen = {} /\ crossing = {}

-----------------------------------------------------------------------------
(* The service. *)

\* issueTokenPair, at a sign-in or a refresh, of the role that is stored
TokenIssued(a) ==
    /\ role[a] = "SUPER_ADMIN" /\ claimed' = claimed \union {a}
    /\ UNCHANGED <<role, roleTurns, teamPageVars>>

TokensExpire(a) ==
    /\ claimed' = claimed \ {a} /\ UNCHANGED <<role, roleTurns, teamPageVars>>

\* RequireAuth, which goes by the claims, and UpdateUserRole.  Nobody can take her own role away,
\* but two super admins can take each other's while the token of the first to lose it is valid.
ChangesRole(actor, target, new) ==
    /\ actor \in claimed /\ (actor = target => new = "SUPER_ADMIN")
    /\ role' = [role EXCEPT ![target] = new]
    /\ UNCHANGED claimed

\* another page, maybe of the same account
ChangedElsewhere(actor, target, new) ==
    /\ roleTurns < RoleBound /\ roleTurns' = roleTurns + 1
    /\ ChangesRole(actor, target, new)
    /\ unseen' = IF team = NotLoaded THEN unseen ELSE unseen \union {target}
    /\ UNCHANGED <<team, updating, roleChange, crossing>>

-----------------------------------------------------------------------------
(* The page. *)

\* The list is read once.
TeamLoads ==
    /\ team = NotLoaded /\ Me \in claimed /\ team' = role
    /\ UNCHANGED <<accountVars, updating, roleChange, unseen, crossing>>

\* Mutant: the row shows the new role at once, and keeps it when the change is refused.
PressesOptimistically(c, a, new) ==
    /\ team # NotLoaded /\ roleChange[c] = NoRoleChange
    /\ updating # a /\ new # team[a] /\ roleTurns < RoleBound /\ roleTurns' = roleTurns + 1
    /\ roleChange' = [roleChange EXCEPT ![c] = [at |-> "asked", of |-> a, to |-> new]]
    /\ updating' = a /\ team' = [team EXCEPT ![a] = new]
    /\ crossing' = crossing \union Overlapping(a)
    /\ UNCHANGED <<role, claimed, unseen>>

\* Only the account of the last press is locked.
PressesRole(c, a, new) ==
    /\ team # NotLoaded /\ roleChange[c] = NoRoleChange
    /\ updating # a /\ new # team[a] /\ roleTurns < RoleBound /\ roleTurns' = roleTurns + 1
    /\ roleChange' = [roleChange EXCEPT ![c] = [at |-> "asked", of |-> a, to |-> new]]
    /\ updating' = a
    /\ crossing' = crossing \union Overlapping(a)
    /\ UNCHANGED <<role, claimed, team, unseen>>

\* Stored, or refused by the claims, as a change of one's own role, or by the database.
RoleHandled(c) ==
    LET asked == roleChange[c]
        answers(at) == roleChange' = [roleChange EXCEPT ![c] =
                           IF asked.at = "late" THEN NoRoleChange
                           ELSE [at |-> at, of |-> asked.of, to |-> asked.to]]
    IN  /\ asked.at \in {"asked", "late"}
        /\ \/ /\ ChangesRole(Me, asked.of, asked.to) /\ answers("done")
              /\ unseen' = IF asked.at = "late" THEN unseen \union {asked.of} ELSE unseen \ {asked.of}
           \/ answers("refused") /\ UNCHANGED <<role, claimed, unseen>>
        /\ UNCHANGED <<roleTurns, team, updating, crossing>>

\* The row takes the role; no row is locked any more.
RoleAnswered(c) ==
    LET change == roleChange[c]
    IN  /\ change.at \in {"done", "refused"}
        /\ team' = IF change.at = "done" THEN [team EXCEPT ![change.of] = change.to] ELSE team
        /\ updating' = 0 /\ roleChange' = [roleChange EXCEPT ![c] = NoRoleChange]
        /\ UNCHANGED <<accountVars, unseen, crossing>>

\* The request or its answer is lost; the service may still get to it.
RoleLost(c) ==
    /\ roleChange[c].at \in {"asked", "done"}
    /\ roleChange' = [roleChange EXCEPT ![c] =
           IF @.at = "asked" THEN [@ EXCEPT !.at = "late"] ELSE NoRoleChange]
    /\ unseen' = unseen \union {roleChange[c].of} /\ updating' = 0
    /\ UNCHANGED <<accountVars, team, crossing>>

TeamNext ==
    \/ \E a \in Accounts : TokenIssued(a) \/ TokensExpire(a)
    \/ \E a, b \in Accounts, new \in Roles : ChangedElsewhere(a, b, new)
    \/ TeamLoads
    \/ \E c \in RoleRequests :
          \/ \E a \in Accounts, new \in Roles : PressesRole(c, a, new)
          \/ RoleHandled(c) \/ RoleAnswered(c) \/ RoleLost(c)

TeamSpec == TeamInit /\ [][TeamNext]_teamVars

-----------------------------------------------------------------------------
\* Once no change is under way, the page shows the role each account has, and locks none,
\* however changes of several accounts overlapped.  Only an account that was changed
\* elsewhere or without an answer, or of which two changes overlapped, may show another.
TeamPageIsTrue ==
    team # NotLoaded /\ (\A c \in RoleRequests : ~UnderWay(c)) =>
        /\ updating = 0
        /\ \A a \in Accounts \ (unseen \union crossing) : team[a] = role[a]
=============================================================================
