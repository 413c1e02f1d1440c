--------------------------- MODULE MobileSession ---------------------------
(***************************************************************************)
(* The session of the mobile application: the Session class of             *)
(* mobile/services/auth/session.ts, its token storage, its transport and   *)
(* the screens that sign in and out.  Session operations run one after the *)
(* other (serialize); protected requests run beside them.                  *)
(*                                                                         *)
(* identityVersion is not a counter here: a request that is in flight is   *)
(* `current' as long as the version it noted still is the session's.       *)
(***************************************************************************)
EXTENDS RefreshTokens

CONSTANTS
    Requests,   \* protected requests that are in flight at the same time
    OpBound,    \* bound of the model: session operations waiting in the queue
    NoUser      \* nobody is signed in

ASSUME NoUserAssumption == NoUser \notin Users
ASSUME OpBoundAssumption == OpBound \in Nat

VARIABLES
    stored,     \* the pair whose refresh token is in the secure store
    access,     \* the pair whose access token is in memory
    status,     \* state.status of the session
    user,       \* state.user of the session
    ops,        \* the queue of serialize; its head is running
    step,       \* where the running operation stands
    result,     \* the pair the running operation is about
    restoring,  \* restoreFlight is not null
    req,        \* the protected requests
    cache,      \* the accounts whose private data the query client holds
    upset,      \* a lost answer, a failed store or a kill has cost the client a token
    switched    \* an account was signed in over another one, without signing out

phoneVars == <<stored, access, status, user, ops, step, result, restoring, req, cache, upset,
               switched>>
mobileVars == <<serverVars, phoneVars>>

Idle == [phase |-> "idle", signal |-> FALSE, current |-> FALSE, token |-> None,
         second |-> FALSE]
RequestStates ==
    [phase : {"idle", "waitRestore", "waitToken", "sent", "waitRetry", "ending"},
     signal : BOOLEAN, current : BOOLEAN, token : 0..Len(owner), second : BOOLEAN]
Operations ==
    [kind : {"login"}, who : Users] \union [kind : {"refresh", "logout"}]
        \union [kind : {"forget"}, r : Requests]

\* The session keeps its types: every token it holds was issued by the API.
MobileTypeOK ==
    /\ ServerTypeOK
    /\ stored \in 0..Len(owner) /\ access \in 0..Len(owner) /\ result \in 0..Len(owner)
    /\ status \in {"loading", "guest", "authenticated", "unavailable"}
    /\ user \in Users \union {NoUser}
    /\ ops \in Seq(Operations)
    /\ step \in {"start", "load", "transport", "persist", "revoke", "remove"}
    /\ restoring \in BOOLEAN /\ upset \in BOOLEAN /\ switched \in BOOLEAN
    /\ req \in [Requests -> RequestStates]
    /\ cache \subseteq Users

Running(kind) == ops # <<>> /\ Head(ops).kind = kind
Queued(kind) == \E i \in 1..Len(ops) : ops[i].kind = kind

\* refresh(): a flight that is under way is shared
WithRefresh(q) == IF \E i \in 1..Len(q) : q[i].kind = "refresh" THEN q
                  ELSE Append(q, [kind |-> "refresh"])

MobileInit ==
    /\ ServerInit
    /\ stored = None /\ access = None /\ result = None
    /\ status = "loading" /\ user = NoUser
    /\ ops = <<[kind |-> "refresh"]>> /\ step = "start"
    /\ restoring = TRUE
    /\ req = [r \in Requests |-> Idle]
    /\ cache = {}
    /\ upset = FALSE /\ switched = FALSE

\* Mutant: only the cache is cleared.
CacheIsCleared == cache' = {} /\ UNCHANGED req

\* identityVersion++ and clearCache(): a request that was given the signal of its query
\* is cancelled, any other goes on, but no longer for the current identity
IdentityChanges ==
    /\ cache' = {}
    /\ req' = [r \in Requests |-> IF req[r].signal THEN Idle
                                  ELSE [req[r] EXCEPT !.current = FALSE]]

\* forget() up to its await
Forgets ==
    /\ access' = None
    /\ IdentityChanges
    /\ switched' = FALSE
    /\ step' = "remove"

\* A request that waited for a token goes on with token n.
Sends(q, n) == [q EXCEPT !.phase = "sent", !.current = TRUE, !.token = n]
Resends(q, n) == IF q.current THEN [q EXCEPT !.phase = "sent", !.second = TRUE, !.token = n]
                 ELSE Idle

(***************************************************************************)
(* The running operation ends.  Promise continuations run before anything  *)
(* else does, so those who awaited it go on in the same step: after a      *)
(* refresh that succeeded with the pair n, or one that failed.             *)
(***************************************************************************)
Done == ops' = Tail(ops) /\ step' = "start" /\ result' = None

RefreshSucceeds(n) ==
    /\ Done
    /\ restoring' = FALSE
    /\ req' = [r \in Requests |->
                 CASE req[r].phase \in {"waitToken", "waitRestore"} -> Sends(req[r], n)
                   [] req[r].phase = "waitRetry" -> Resends(req[r], n)
                   [] OTHER -> req[r]]

\* requests that only waited for the restoration ask for a refresh of their own
RefreshFails(st) ==
    LET again == \E r \in Requests : req[r].phase = "waitRestore"
    IN  /\ ops' = IF again THEN WithRefresh(Tail(ops)) ELSE Tail(ops)
        /\ step' = "start" /\ result' = None
        /\ restoring' = FALSE
        /\ req' = [r \in Requests |->
                     CASE req[r].phase = "waitRestore" -> [req[r] EXCEPT !.phase = "waitToken"]
                       [] req[r].phase \in {"waitToken", "waitRetry"} -> Idle
                       [] OTHER -> req[r]]
        /\ IF restoring /\ st.status # "guest"
           THEN status' = "unavailable" /\ user' = NoUser
           ELSE status' = st.status /\ user' = st.user

-----------------------------------------------------------------------------
(* The operations of the queue, one action per await. *)

\* authenticate and loginWithGoogle: the credentials are sent
LoginAnswered ==
    /\ Running("login") /\ step = "start"
    /\ LET u == Head(ops).who
       IN  \/ /\ IssuePair(u, {})
              /\ result' = NextPair /\ step' = "persist"
              /\ IdentityChanges
              /\ switched' = (switched \/ access # None)
              /\ UNCHANGED <<stored, access, status, user, ops, restoring, upset>>
           \/ /\ \/ UNCHANGED serverVars
                 \/ IssuePair(u, {})
              /\ Done
              /\ UNCHANGED <<stored, access, status, user, restoring, req, cache, upset, switched>>

\* rotate: the stored token is read
RotateLoads ==
    /\ Running("refresh") /\ step = "start"
    /\ \/ /\ stored = None
          /\ Forgets
          /\ UNCHANGED <<stored, status, user, ops, result, restoring, upset>>
       \/ /\ stored # None
          /\ step' = "transport" /\ result' = stored
          /\ UNCHANGED <<stored, access, status, user, ops, restoring, req, cache, upset,
                         switched>>
       \/ /\ RefreshFails([status |-> status, user |-> user])
          /\ UNCHANGED <<stored, access, cache, upset, switched>>
    /\ UNCHANGED serverVars

RotateAnswered ==
    /\ Running("refresh") /\ step = "transport"
    /\ \/ /\ Rotated(result)
          /\ result' = NextPair /\ step' = "persist"
          /\ UNCHANGED <<stored, access, status, user, ops, restoring, req, cache, upset,
                         switched>>
       \/ /\ Denied(result)
          /\ Forgets
          /\ UNCHANGED <<stored, status, user, ops, result, restoring, upset>>
       \* the answer is lost, the API fails, or nothing reaches it
       \/ /\ \/ Rotated(result) /\ upset' = TRUE
             \/ RotationDies(result) /\ upset' = TRUE
             \/ UNCHANGED <<serverVars, upset>>
          /\ RefreshFails([status |-> status, user |-> user])
          /\ UNCHANGED <<stored, access, cache, switched>>

\* Mutant: a refreshed pair is used without being persisted.
AcceptedInMemory ==
    /\ step = "persist"
    /\ access' = result
    /\ status' = "authenticated" /\ user' = owner[result]
    /\ IF Running("refresh") THEN RefreshSucceeds(result) /\ UNCHANGED stored
                             ELSE Done /\ stored' = result /\ UNCHANGED <<restoring, req>>
    /\ UNCHANGED <<serverVars, cache, upset, switched>>

\* accept: the replacement is persisted before the access token is used
Accepted ==
    /\ step = "persist"
    /\ stored' = result
    /\ access' = result
    /\ status' = "authenticated" /\ user' = owner[result]
    /\ IF Running("refresh") THEN RefreshSucceeds(result)
                             ELSE Done /\ UNCHANGED <<restoring, req>>
    /\ UNCHANGED <<serverVars, cache, upset, switched>>

\* the secure store fails, before or after it wrote
PersistFails ==
    /\ step = "persist"
    /\ stored' \in {stored, result}
    /\ step' = "revoke"
    /\ upset' = TRUE
    /\ UNCHANGED <<serverVars, access, status, user, ops, result, restoring, req, cache, switched>>

\* logout: the stored token is read; the session is forgotten in any case
LogoutLoads ==
    /\ Running("logout") /\ step = "start"
    /\ \/ stored # None /\ step' = "revoke" /\ result' = stored
          /\ UNCHANGED <<access, req, cache, switched>>
       \/ Forgets /\ UNCHANGED result
    /\ UNCHANGED <<serverVars, stored, status, user, ops, restoring, upset>>

\* the revocation of a session is tried once, and then it is forgotten here
RevokeTried ==
    /\ step = "revoke"
    /\ Revoked(result) \/ UNCHANGED serverVars
    /\ Forgets
    /\ UNCHANGED <<stored, status, user, ops, result, restoring, upset>>

\* a request refused twice ends the session, unless it already changed
ForgetRefused ==
    /\ Running("forget") /\ step = "start"
    /\ LET r == Head(ops).r
       IN  IF req[r].current
           THEN /\ Forgets /\ UNCHANGED <<ops, result>>
           ELSE /\ Done /\ req' = [req EXCEPT ![r] = Idle]
                /\ UNCHANGED <<access, cache, switched>>
    /\ UNCHANGED <<serverVars, stored, status, user, restoring, upset>>

\* Mutant: the stored token is left when the session is forgotten.
LeftInStore(ok) == stored

\* forget after its await: the secure store has removed the token, or has failed
InStore(ok) == IF ok THEN None ELSE stored

Removed ==
    /\ step = "remove"
    /\ \E ok \in BOOLEAN :
         LET after == [status |-> IF ok THEN "guest" ELSE "unavailable", user |-> NoUser]
         IN  /\ stored' = InStore(ok)
             /\ upset' = (upset \/ ~ok)
             /\ IF Running("refresh")
                THEN RefreshFails(after)
                ELSE /\ Done
                     /\ status' = after.status /\ user' = after.user
                     /\ req' = IF Running("forget") THEN [req EXCEPT ![Head(ops).r] = Idle]
                                                    ELSE req
                     /\ UNCHANGED restoring
    /\ UNCHANGED <<serverVars, access, cache, switched>>

-----------------------------------------------------------------------------
(* What the screens and the system do. *)

\* AuthScreen and GoogleSignInButton: the login screen opens from any state of
\* the session, and its two ways to sign in do not exclude each other
Authenticate(u) ==
    /\ Len(ops) < OpBound
    /\ Len(owner) < PairBound
    /\ ops' = Append(ops, [kind |-> "login", who |-> u])
    /\ UNCHANGED <<serverVars, stored, access, status, user, step, result, restoring, req,
                   cache, upset, switched>>

\* AccountScreen: signing out is offered where a session is shown or in doubt
SignOut ==
    /\ status \in {"authenticated", "unavailable"}
    /\ ~Queued("logout") /\ Len(ops) < OpBound
    /\ ops' = Append(ops, [kind |-> "logout"])
    /\ UNCHANGED <<serverVars, stored, access, status, user, step, result, restoring, req,
                   cache, upset, switched>>

\* "Try reconnecting"
Reconnect ==
    /\ status = "unavailable" /\ ~restoring
    /\ Len(ops) < OpBound \/ Queued("refresh")
    /\ restoring' = TRUE
    /\ ops' = WithRefresh(ops)
    /\ UNCHANGED <<serverVars, stored, access, status, user, step, result, req, cache, upset, switched>>

\* request(): a screen asks for private data of the account it shows
StartRequest(r) ==
    /\ req[r].phase = "idle"
    /\ Len(ops) < OpBound \/ Queued("refresh")
    /\ \E withSignal \in BOOLEAN :
         LET q == [Idle EXCEPT !.signal = withSignal]
         IN  req' = [req EXCEPT ![r] =
               IF status = "loading" THEN [q EXCEPT !.phase = "waitRestore"]
               ELSE IF access = None THEN [q EXCEPT !.phase = "waitToken"]
               ELSE Sends(q, access)]
    /\ restoring' = (restoring \/ status = "loading")
    /\ ops' = IF status = "loading" \/ access = None THEN WithRefresh(ops) ELSE ops
    /\ UNCHANGED <<serverVars, stored, access, status, user, step, result, cache, upset,
                   switched>>

\* an answer with data: it is refused when the session changed meanwhile
Delivered(r) ==
    /\ req[r].phase = "sent" /\ req[r].token \in fresh
    /\ req' = [req EXCEPT ![r] = Idle]
    /\ cache' = IF req[r].current THEN cache \union {owner[req[r].token]} ELSE cache
    /\ UNCHANGED <<serverVars, stored, access, status, user, ops, step, result, restoring, upset, switched>>

\* a 401: a first one refreshes and retries, a second one ends the session
Refused(r) ==
    LET q == req[r]
    IN  /\ q.phase = "sent" /\ q.token \notin fresh
        /\ IF ~q.current
           THEN req' = [req EXCEPT ![r] = Idle] /\ UNCHANGED ops
           ELSE IF q.second
           THEN /\ req' = [req EXCEPT ![r].phase = "ending"]
                /\ ops' = Append(ops, [kind |-> "forget", r |-> r])
           ELSE IF access = q.token
           THEN /\ req' = [req EXCEPT ![r].phase = "waitRetry"]
                /\ ops' = WithRefresh(ops)
           ELSE /\ req' = [req EXCEPT ![r] = Resends(q, access)]
                /\ UNCHANGED ops
        /\ UNCHANGED <<serverVars, stored, access, status, user, step, result, restoring, cache,
                       upset, switched>>

\* the transport gives up after its timeout or reports a failure
RequestFails(r) ==
    /\ req[r].phase = "sent"
    /\ req' = [req EXCEPT ![r] = Idle]
    /\ UNCHANGED <<serverVars, stored, access, status, user, ops, step, result, restoring, cache,
                   upset, switched>>

\* the application is killed and started again: only the secure store remains
Killed ==
    /\ access' = None /\ status' = "loading" /\ user' = NoUser
    /\ ops' = <<[kind |-> "refresh"]>> /\ step' = "start" /\ result' = None
    /\ restoring' = TRUE
    /\ req' = [r \in Requests |-> Idle]
    /\ cache' = {} /\ switched' = FALSE
    /\ upset' = (upset \/ step \in {"persist", "revoke", "remove"})
    /\ UNCHANGED <<serverVars, stored>>

MobileNext ==
    \/ LoginAnswered \/ RotateLoads \/ RotateAnswered \/ Accepted \/ PersistFails
    \/ LogoutLoads \/ RevokeTried \/ ForgetRefused \/ Removed
    \/ \E u \in Users : Authenticate(u)
    \/ SignOut \/ Reconnect
    \/ \E r \in Requests : StartRequest(r) \/ Delivered(r) \/ Refused(r) \/ RequestFails(r)
    \/ Killed
    \/ AccessExpires /\ UNCHANGED phoneVars

MobileSpec == MobileInit /\ [][MobileNext]_mobileVars

-----------------------------------------------------------------------------
\* The private data held is that of the account shown, and a guest holds none: neither
\* a late answer nor a retry repopulates what signing out cleared.  (The exception is
\* a second account signed in over a first: until its token is persisted, a query
\* that starts is counted as the new one's and sent with the old one's token.)
PrivateDataIsOwn ==
    /\ status = "authenticated" => cache \subseteq {user} \/ switched
    /\ status = "guest" => cache = {}

\* The client never spends its own refresh token twice: a stored token is valid at the
\* API unless an answer, a write or the process was lost in the middle of an exchange,
\* or the stored one is just being exchanged.
StoredIsUsable ==
    stored \in live \union {None} \/ upset \/ step \in {"persist", "revoke", "remove"} 

\* After signing out nothing but signing in opens a session again: not a refresh that
\* was queued behind the logout, and not a restart, which finds nothing stored.
SignedOutStays ==
    [][status = "guest" /\ ~Running("login") => status' # "authenticated" /\ stored' = None]_mobileVars
=============================================================================
