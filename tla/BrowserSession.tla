--------------------------- MODULE BrowserSession --------------------------
(***************************************************************************)
(* Sessions of the web client.  Each tab has its own copy of               *)
(* frontend/src/lib/api.ts, with an access token and a refresh that its    *)
(* calls share; the HttpOnly refresh cookie is one for all tabs.  A cookie *)
(* is read when a request leaves and written when its answer arrives, so   *)
(* two answers may overwrite one another.                                  *)
(***************************************************************************)
EXTENDS RefreshTokens

CONSTANTS
    Tabs,       \* tabs of one browser
    Calls       \* protected calls a tab makes at the same time

VARIABLES
    cookie,     \* the pair whose refresh token is in the cookie
    token,      \* the pair whose access token is in the tab's memory
    flight,     \* the tab's exchange of the cookie
    sign,       \* the tab's sign-in or sign-out
    calls,      \* the tab's protected calls
    page,       \* the page the tab shows
    stale,      \* tabs that kept a token when another tab signed out
    overlap,    \* two exchanges of the cookie were under way at once
    spoilt      \* an exchange or a revocation was cut off or failed at the API

browserVars == <<cookie, token, flight, sign, calls, page, stale, overlap, spoilt>>
webVars == <<serverVars, browserVars>>

NoFlight == [at |-> "none", pair |-> None]
NoSign == [kind |-> "none", at |-> "none", pair |-> None]
NoCall == [phase |-> "idle", quiet |-> FALSE, pair |-> None]

\* upload and download redirect whenever no session is left; other calls may be told
\* not to, as the header of a public page tells its probe
Transfers == {"upload", "download"}
MayBeQuiet(kind) == kind \notin Transfers

\* The browser keeps its types: every token in a tab or the cookie was issued.
BrowserTypeOK ==
    /\ ServerTypeOK
    /\ cookie \in 0..Len(owner)
    /\ token \in [Tabs -> 0..Len(owner)]
    /\ flight \in [Tabs -> [at : {"none", "asked", "granted", "denied", "failed"},
                            pair : 0..Len(owner)]]
    /\ sign \in [Tabs -> [kind : {"none", "login", "logout"}, at : {"none", "asked", "handled"},
                          pair : 0..Len(owner)]]
    /\ calls \in [Tabs -> [Calls -> [phase : {"idle", "sent", "waiting", "resent"},
                                     quiet : BOOLEAN, pair : 0..Len(owner)]]]
    /\ page \in [Tabs -> {"app", "login", "callback"}]
    /\ stale \subseteq Tabs /\ overlap \in BOOLEAN /\ spoilt \in BOOLEAN

BrowserInit ==
    /\ ServerInit
    /\ cookie = None
    /\ token = [t \in Tabs |-> None]
    /\ flight = [t \in Tabs |-> NoFlight]
    /\ sign = [t \in Tabs |-> NoSign]
    /\ calls = [t \in Tabs |-> [c \in Calls |-> NoCall]]
    /\ page = [t \in Tabs |-> "login"]
    /\ stale = {} /\ overlap = FALSE /\ spoilt = FALSE

\* exchanges that will write the cookie when they are answered
Exchanging == \/ \E t \in Tabs : flight[t].at # "none"
              \/ \E t \in Tabs : sign[t].at # "none"

\* A page load starts api.ts afresh; the answers the old page waited for are lost.
Reloaded(t, to) ==
    /\ token' = [token EXCEPT ![t] = None]
    /\ flight' = [flight EXCEPT ![t] = NoFlight]
    /\ sign' = [sign EXCEPT ![t] = NoSign]
    /\ calls' = [calls EXCEPT ![t] = [c \in Calls |-> NoCall]]
    /\ page' = [page EXCEPT ![t] = to]
    /\ stale' = stale \ {t}
    /\ spoilt' = (spoilt \/ flight[t].at = "granted" \/ sign[t].at = "handled")

\* Mutant: every call makes an exchange of its own.
RefreshingAgain(t) ==
    /\ flight' = [flight EXCEPT ![t] = [at |-> "asked", pair |-> cookie]]
    /\ UNCHANGED overlap

\* tryRefreshToken: one exchange for all calls of the tab
Refreshing(t) ==
    IF flight[t].at = "none"
    THEN /\ flight' = [flight EXCEPT ![t] = [at |-> "asked", pair |-> cookie]]
         /\ overlap' = (overlap \/ Exchanging)
    ELSE UNCHANGED <<flight, overlap>>

-----------------------------------------------------------------------------
\* login and register, and logout: what the cookie holds goes along
TabLogin(t) ==
    /\ page[t] = "login" /\ sign[t].at = "none"
    /\ sign' = [sign EXCEPT ![t] = [kind |-> "login", at |-> "asked", pair |-> None]]
    /\ overlap' = (overlap \/ Exchanging)
    /\ UNCHANGED <<serverVars, cookie, token, flight, calls, page, stale, spoilt>>

TabLogout(t) ==
    /\ page[t] = "app" /\ sign[t].at = "none"
    /\ sign' = [sign EXCEPT ![t] = [kind |-> "logout", at |-> "asked", pair |-> cookie]]
    /\ overlap' = (overlap \/ Exchanging)
    /\ UNCHANGED <<serverVars, cookie, token, flight, calls, page, stale, spoilt>>

SignHandled(t) ==
    /\ sign[t].at = "asked"
    /\ \/ /\ sign[t].kind = "login"
          /\ \E u \in Users : IssuePair(u, {})
          /\ sign' = [sign EXCEPT ![t].at = "handled", ![t].pair = NextPair]
          /\ UNCHANGED spoilt
       \* wrong credentials, or the answer fails
       \/ /\ sign[t].kind = "login"
          /\ sign' = [sign EXCEPT ![t] = NoSign]
          /\ UNCHANGED <<serverVars, spoilt>>
       \* a revocation that fails is answered like one that succeeds
       \/ /\ sign[t].kind = "logout"
          /\ \/ Revoked(sign[t].pair) /\ UNCHANGED spoilt
             \/ UNCHANGED serverVars /\ spoilt' = TRUE
          /\ sign' = [sign EXCEPT ![t].at = "handled"]
    /\ UNCHANGED <<cookie, token, flight, calls, page, stale, overlap>>

LoginArrives(t) ==
    /\ sign[t].kind = "login" /\ sign[t].at = "handled"
    /\ cookie' = sign[t].pair
    /\ token' = [token EXCEPT ![t] = sign[t].pair]
    /\ page' = [page EXCEPT ![t] = "app"]
    /\ sign' = [sign EXCEPT ![t] = NoSign]
    /\ stale' = stale \ {t}
    /\ UNCHANGED <<serverVars, flight, calls, overlap, spoilt>>

\* the token is dropped whether or not the API could be reached
LogoutArrives(t) ==
    /\ sign[t].kind = "logout"
    /\ \/ /\ sign[t].at = "handled" /\ cookie' = None
          /\ stale' = {s \in Tabs \ {t} : token[s] # None}
          /\ UNCHANGED spoilt
       \/ /\ sign[t].at = "asked" /\ spoilt' = TRUE
          /\ UNCHANGED <<cookie, stale>>
    /\ token' = [token EXCEPT ![t] = None]
    /\ page' = [page EXCEPT ![t] = "login"]
    /\ sign' = [sign EXCEPT ![t] = NoSign]
    /\ UNCHANGED <<serverVars, flight, calls, overlap>>

\* Google signs in: the API sets the cookie and sends the tab to the callback page,
\* which exchanges it at once
GoogleReturns(t) ==
    /\ page[t] = "login" /\ sign[t].at = "none" /\ flight[t].at = "none"
    /\ \E u \in Users : IssuePair(u, {})
    /\ cookie' = NextPair
    /\ page' = [page EXCEPT ![t] = "callback"]
    /\ token' = [token EXCEPT ![t] = None]
    /\ flight' = [flight EXCEPT ![t] = [at |-> "asked", pair |-> NextPair]]
    /\ calls' = [calls EXCEPT ![t] = [c \in Calls |-> NoCall]]
    /\ stale' = stale \ {t}
    /\ overlap' = (overlap \/ Exchanging)
    /\ UNCHANGED <<sign, spoilt>>

-----------------------------------------------------------------------------
\* the API handles an exchange
RefreshHandled(t) ==
    LET f == flight[t]
        Answer(a, n) == flight' = [flight EXCEPT ![t] = [at |-> a, pair |-> n]]
    IN  /\ f.at = "asked"
        /\ \/ Rotated(f.pair) /\ Answer("granted", NextPair) /\ UNCHANGED spoilt
           \/ Denied(f.pair) /\ Answer("denied", f.pair) /\ UNCHANGED spoilt
           \/ /\ RotationDies(f.pair) \/ UNCHANGED serverVars
              /\ Answer("failed", None) /\ spoilt' = TRUE
        /\ UNCHANGED <<cookie, token, sign, calls, page, stale, overlap>>

\* A call goes on when the exchange it waited for is over.
Retried(c, n) == IF c.phase = "waiting" THEN [c EXCEPT !.phase = "resent", !.pair = n] ELSE c
GivenUp(c) == IF c.phase = "waiting" THEN NoCall ELSE c

\* the replacement arrives: cookie and token, and every waiting call is sent again
RefreshGranted(t) ==
    /\ flight[t].at = "granted"
    /\ cookie' = flight[t].pair
    /\ token' = [token EXCEPT ![t] = flight[t].pair]
    /\ calls' = [calls EXCEPT ![t] = [c \in Calls |-> Retried(calls[t][c], flight[t].pair)]]
    /\ page' = [page EXCEPT ![t] = IF @ = "callback" THEN "app" ELSE @]
    /\ flight' = [flight EXCEPT ![t] = NoFlight]
    /\ stale' = stale \ {t}
    /\ UNCHANGED <<serverVars, sign, overlap, spoilt>>

\* A refusal deletes the cookie, unless none was sent.  Calls that are not quiet send
\* the tab to the login page, which loads it anew; the callback page only says so.
RefreshRefused(t) ==
    LET loud == \E c \in Calls : calls[t][c].phase = "waiting" /\ ~calls[t][c].quiet
    IN  /\ flight[t].at \in {"denied", "failed"}
        /\ cookie' = IF flight[t].at = "denied" /\ flight[t].pair # None THEN None ELSE cookie
        /\ IF loud
           THEN Reloaded(t, "login")
           ELSE /\ token' = [token EXCEPT ![t] = None]
                /\ flight' = [flight EXCEPT ![t] = NoFlight]
                /\ calls' = [calls EXCEPT ![t] = [c \in Calls |-> GivenUp(calls[t][c])]]
                /\ stale' = stale \ {t}
                /\ UNCHANGED <<sign, page, spoilt>>
        /\ UNCHANGED <<serverVars, overlap>>

-----------------------------------------------------------------------------
\* a page asks for protected data
Call(t, c) ==
    /\ calls[t][c].phase = "idle" /\ page[t] # "callback"
    /\ \E kind \in Transfers \union {"request"}, quiet \in BOOLEAN :
         /\ quiet => MayBeQuiet(kind)
         /\ calls' = [calls EXCEPT ![t][c] = [phase |-> "sent", quiet |-> quiet, pair |-> token[t]]]
    /\ UNCHANGED <<serverVars, cookie, token, flight, sign, page, stale, overlap, spoilt>>

\* the API answers: with data, or with an error that is passed on
Answered(t, c) ==
    /\ calls[t][c].phase \in {"sent", "resent"}
    /\ calls[t][c].pair \in fresh \/ calls[t][c].phase = "resent"
    /\ calls' = [calls EXCEPT ![t][c] = NoCall]
    /\ UNCHANGED <<serverVars, cookie, token, flight, sign, page, stale, overlap, spoilt>>

\* 401: the token is missing or has expired; one refresh, one retry
Unauthorized(t, c) ==
    /\ calls[t][c].phase = "sent" /\ calls[t][c].pair \notin fresh
    /\ calls' = [calls EXCEPT ![t][c].phase = "waiting"]
    /\ Refreshing(t)
    /\ UNCHANGED <<serverVars, cookie, token, sign, page, stale, spoilt>>

\* the runner reloads the page or opens another by its address
Reload(t) ==
    /\ \E to \in {"app", "login"} : Reloaded(t, to)
    /\ UNCHANGED <<serverVars, cookie, overlap>>

\* the login page is reached by a link inside the application
GoesToLogin(t) ==
    /\ page[t] # "login" /\ sign[t].at = "none"
    /\ page' = [page EXCEPT ![t] = "login"]
    /\ UNCHANGED <<serverVars, cookie, token, flight, sign, calls, stale, overlap, spoilt>>

BrowserStep(t) ==
    \/ TabLogin(t) \/ TabLogout(t) \/ SignHandled(t) \/ LoginArrives(t) \/ LogoutArrives(t)
    \/ GoogleReturns(t)
    \/ RefreshHandled(t) \/ RefreshGranted(t) \/ RefreshRefused(t)
    \/ \E c \in Calls : Call(t, c) \/ Answered(t, c) \/ Unauthorized(t, c)
    \/ Reload(t) \/ GoesToLogin(t)

BrowserNext ==
    \/ \E t \in Tabs : BrowserStep(t)
    \/ AccessExpires /\ UNCHANGED browserVars

BrowserSpec == BrowserInit /\ [][BrowserNext]_webVars

-----------------------------------------------------------------------------
\* Once nothing is under way, a tab that holds a token can be reloaded: the cookie
\* restores its session, although the two are written by different answers.  The only
\* ways to lose it are exchanges that overlapped, an exchange that was cut off or
\* failed, or a sign-out in another tab.
SessionSurvivesReload ==
    (~Exchanging /\ ~overlap /\ ~spoilt)
        => \A t \in Tabs \ stale : token[t] # None => cookie \in live

\* A cookie is deleted only when its token is of no use any more: signing out has
\* revoked it, and what is refused, when exchanges do not overlap, was spent.
\* (Not when the revocation failed: the handler deletes the cookie all the same.)
OnlySpentCookiesAreDeleted ==
    [][cookie # None /\ cookie' = None /\ ~overlap /\ ~spoilt => cookie \notin live]_webVars
=============================================================================
