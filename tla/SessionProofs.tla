--------------------------- MODULE SessionProofs ---------------------------
(***************************************************************************)
(* The two clients of RefreshTokens, for any number of accounts, tabs,     *)
(* calls and requests: the phone keeps private data and its refresh token  *)
(* to the session they belong to, and the browser's cookie restores every  *)
(* session it should.                                                      *)
(***************************************************************************)
EXTENDS MobileSession, BrowserSession, TLAPS

-----------------------------------------------------------------------------
(* Pairs: they are only added, and what was issued to whom stays. *)

PairsStay ==
    /\ ServerTypeOK'
    /\ Len(owner) \in Nat /\ Len(owner') \in Nat /\ Len(owner) <= Len(owner')
    /\ \A n \in Pairs : owner'[n] = owner[n]

LEMMA IssuedPair ==
    ASSUME ServerTypeOK, NEW u \in Users, NEW spent, IssuePair(u, spent)
    PROVE  /\ PairsStay
           /\ Len(owner') = NextPair /\ owner'[NextPair] = u
           /\ NextPair \in live' /\ NextPair \notin live /\ NextPair # None
           /\ live \ spent \subseteq live'
  <1>1. owner \in Seq(Users) /\ Len(owner) \in Nat /\ owner' = Append(owner, u)
    BY DEF ServerTypeOK, IssuePair
  <1>2. /\ owner' \in Seq(Users) /\ Len(owner') = NextPair /\ owner'[NextPair] = u
        /\ \A n \in Pairs : owner'[n] = owner[n]
    BY <1>1 DEF NextPair, Pairs
  <1>3. NextPair \notin Pairs /\ NextPair # None /\ (Pairs \union {NextPair}) \subseteq Pairs'
    BY <1>1, <1>2 DEF NextPair, Pairs, None
  <1>4. live' = (live \ spent) \union {NextPair} /\ fresh' = fresh \union {NextPair}
    BY DEF IssuePair
  <1>5. ServerTypeOK'
    BY <1>2, <1>3, <1>4 DEF ServerTypeOK
  <1>6. Len(owner) <= Len(owner')
    BY <1>1, <1>2 DEF NextPair
  <1>7. NextPair \notin live
    BY <1>3 DEF ServerTypeOK
  <1>8. Len(owner') \in Nat
    BY <1>2
  <1> QED  BY <1>1, <1>2, <1>4, <1>5, <1>6, <1>7, <1>3, <1>8 DEF PairsStay

LEMMA SameOwners ==
    ASSUME ServerTypeOK, UNCHANGED owner, live' \subseteq live, fresh' \subseteq fresh
    PROVE  PairsStay
  BY DEF ServerTypeOK, PairsStay, Pairs

LEMMA RotatedPair ==
    ASSUME ServerTypeOK, NEW n, Rotated(n)
    PROVE  /\ PairsStay
           /\ Len(owner') = NextPair /\ owner'[NextPair] = owner[n] /\ n \in Pairs
           /\ NextPair \in live' /\ NextPair # None
  <1>1. owner[n] \in Users /\ n \in Pairs
    BY DEF ServerTypeOK, Rotated, Pairs
  <1> QED  BY <1>1, IssuedPair DEF Rotated

LEMMA ServerAnswers ==
    ASSUME ServerTypeOK, NEW n,
           Rotated(n) \/ RotationDies(n) \/ Denied(n) \/ Revoked(n) \/ UNCHANGED serverVars
    PROVE  PairsStay
  <1>1. CASE Rotated(n)
    BY <1>1, RotatedPair
  <1>2. CASE RotationDies(n) \/ Denied(n) \/ Revoked(n) \/ UNCHANGED serverVars
    BY <1>2, SameOwners DEF RotationDies, Denied, Revoked, serverVars
  <1> QED  BY <1>1, <1>2

LEMMA StillNumbered ==
    ASSUME PairsStay, NEW n \in 0..Len(owner)
    PROVE  n \in 0..Len(owner')
  BY DEF PairsStay

-----------------------------------------------------------------------------
(* The browser *)

Busy(t) == flight[t].at # "none" \/ sign[t].at # "none"

\* what a reload needs of the cookie
Backing == \A t \in Tabs \ stale : token[t] # None => cookie \in live

\* an exchange whose answer, still on its way, replaces the cookie
Replacing == \E t \in Tabs : flight[t].at = "granted" \/ sign[t].at = "handled"

BrowserShape ==
    /\ ServerTypeOK
    /\ cookie \in 0..Len(owner)
    /\ token \in [Tabs -> 0..Len(owner)]
    /\ flight \in [Tabs -> [at : {"none", "asked", "granted", "denied", "failed"},
                            pair : 0..Len(owner)]]
    /\ sign \in [Tabs -> [kind : {"none", "login", "logout"}, at : {"none", "asked", "handled"},
                          pair : 0..Len(owner)]]
    /\ stale \subseteq Tabs /\ overlap \in BOOLEAN /\ spoilt \in BOOLEAN

\* one exchange at a time
Alone ==
    /\ \A s, t \in Tabs : Busy(s) /\ Busy(t) => s = t
    /\ \A t \in Tabs : flight[t].at = "none" \/ sign[t].at = "none"

\* the cookie is the pair the exchange is about, until its answer arrives
FlightOf(t) ==
    /\ flight[t].at = "asked" => flight[t].pair = cookie
    /\ flight[t].at = "granted" => flight[t].pair \in live
    /\ flight[t].at = "denied" => flight[t].pair = cookie /\ cookie \notin live
    /\ flight[t].at # "failed"

SignOf(t) ==
    /\ sign[t].at = "none" <=> sign[t].kind = "none"
    /\ sign[t].kind = "login" /\ sign[t].at = "handled" => sign[t].pair \in live
    /\ sign[t].kind = "logout" => sign[t].pair = cookie
    /\ sign[t].kind = "logout" /\ sign[t].at = "handled" => cookie \notin live

BrowserInv ==
    /\ BrowserShape
    /\ ~overlap /\ ~spoilt => /\ Alone
                              /\ Backing \/ Replacing
                              /\ \A t \in Tabs : FlightOf(t) /\ SignOf(t)

Clean == ~overlap /\ ~spoilt
Exclusive == /\ Alone
             /\ Backing \/ Replacing
             /\ \A t \in Tabs : FlightOf(t) /\ SignOf(t)

\* What a step that only reads the API needs to keep the shape.
LEMMA NumbersStay ==
    ASSUME BrowserShape, PairsStay
    PROVE  /\ cookie \in 0..Len(owner')
           /\ token \in [Tabs -> 0..Len(owner')]
           /\ flight \in [Tabs -> [at : {"none", "asked", "granted", "denied", "failed"},
                                   pair : 0..Len(owner')]]
           /\ sign \in [Tabs -> [kind : {"none", "login", "logout"},
                                 at : {"none", "asked", "handled"}, pair : 0..Len(owner')]]
  <1>1. 0..Len(owner) \subseteq 0..Len(owner')
    BY DEF PairsStay
  <1> QED  BY <1>1 DEF BrowserShape

\* Nobody else is busy once one tab is.
LEMMA OthersIdle ==
    ASSUME BrowserShape, Exclusive, NEW t \in Tabs, Busy(t), NEW s \in Tabs, s # t
    PROVE  flight[s].at = "none" /\ sign[s].at = "none"
  BY DEF Exclusive, Alone, Busy

\* An idle browser: whoever starts an exchange is alone, and the cookie backs the tabs.
LEMMA NobodyBusy ==
    ASSUME Exclusive, ~Exchanging
    PROVE  Backing /\ \A t \in Tabs : flight[t].at = "none" /\ sign[t].at = "none"
  BY DEF Exclusive, Exchanging, Replacing

LEMMA TabLoginKeeps ==
    ASSUME BrowserInv, NEW t \in Tabs, TabLogin(t)
    PROVE  BrowserInv'
  <1>1. BrowserShape'
    BY DEF BrowserInv, BrowserShape, TabLogin, ServerTypeOK, Pairs, serverVars, None
  <1>2. ASSUME Clean' PROVE Exclusive'
    <2>1. Exclusive /\ ~Exchanging
      BY <1>2 DEF BrowserInv, Exclusive, TabLogin, Clean, BrowserShape
    <2>2. \A s \in Tabs : flight'[s].at = "none" /\ (s # t => sign'[s] = sign[s])
      BY <2>1, NobodyBusy DEF TabLogin, BrowserInv, BrowserShape
    <2>3. sign'[t] = [kind |-> "login", at |-> "asked", pair |-> None]
      BY DEF TabLogin, BrowserInv, BrowserShape
    <2>4. Alone' /\ Backing'
      BY <2>1, <2>2, <2>3, NobodyBusy DEF Alone, Busy, Backing, TabLogin, serverVars
    <2>5. \A s \in Tabs : FlightOf(s)' /\ SignOf(s)'
      BY <2>1, <2>2, <2>3, NobodyBusy DEF FlightOf, SignOf, Exclusive, TabLogin, serverVars
    <2> QED  BY <2>4, <2>5 DEF Exclusive
  <1> QED  BY <1>1, <1>2 DEF BrowserInv, Exclusive, Clean

LEMMA TabLogoutKeeps ==
    ASSUME BrowserInv, NEW t \in Tabs, TabLogout(t)
    PROVE  BrowserInv'
  <1>1. BrowserShape'
    BY DEF BrowserInv, BrowserShape, TabLogout, ServerTypeOK, Pairs, serverVars, None
  <1>2. ASSUME Clean' PROVE Exclusive'
    <2>1. Exclusive /\ ~Exchanging
      BY <1>2 DEF BrowserInv, Exclusive, TabLogout, Clean, BrowserShape
    <2>2. \A s \in Tabs : flight'[s].at = "none" /\ (s # t => sign'[s] = sign[s])
      BY <2>1, NobodyBusy DEF TabLogout, BrowserInv, BrowserShape
    <2>3. sign'[t] = [kind |-> "logout", at |-> "asked", pair |-> cookie]
      BY DEF TabLogout, BrowserInv, BrowserShape
    <2>4. Alone' /\ Backing'
      BY <2>1, <2>2, <2>3, NobodyBusy DEF Alone, Busy, Backing, TabLogout, serverVars
    <2>5. \A s \in Tabs : FlightOf(s)' /\ SignOf(s)'
      BY <2>1, <2>2, <2>3, NobodyBusy DEF FlightOf, SignOf, Exclusive, TabLogout, serverVars
    <2> QED  BY <2>4, <2>5 DEF Exclusive
  <1> QED  BY <1>1, <1>2 DEF BrowserInv, Exclusive, Clean

\* The API answers a sign-in or a sign-out: what it did, and what the tab waits for.
LEMMA SignAnswer ==
    ASSUME BrowserShape, NEW t \in Tabs, SignHandled(t)
    PROVE  /\ PairsStay
           /\ \E x : /\ x \in [kind : {"none", "login", "logout"},
                               at : {"none", "asked", "handled"}, pair : 0..Len(owner')]
                     /\ sign' = [sign EXCEPT ![t] = x]
                     /\ \/ /\ x.kind = "login" /\ x.at = "handled" /\ x.pair \in live'
                           /\ live \subseteq live'
                        \/ x = NoSign /\ live' = live
                        \/ /\ x.kind = "logout" /\ x.at = "handled" /\ sign[t].kind = "logout"
                           /\ x.pair = sign[t].pair
                           /\ spoilt' \/ live' = live \ {sign[t].pair}
  <1>t. sign[t] \in [kind : {"none", "login", "logout"}, at : {"none", "asked", "handled"},
                     pair : 0..Len(owner)]
    BY DEF BrowserShape
  <1>s. ServerTypeOK
    BY DEF BrowserShape
  <1>1. CASE /\ sign[t].kind = "login" /\ \E u \in Users : IssuePair(u, {})
             /\ sign' = [sign EXCEPT ![t].at = "handled", ![t].pair = NextPair]
    <2>1. /\ PairsStay /\ Len(owner') = NextPair
          /\ NextPair \in live' /\ live \subseteq live'
      BY <1>1, <1>s, IssuedPair
    <2>2. NextPair \in 0..Len(owner')
      BY <2>1 DEF PairsStay
    <2>3. sign' = [sign EXCEPT ![t] = [sign[t] EXCEPT !.at = "handled", !.pair = NextPair]]
      BY <1>1 DEF BrowserShape
    <2> DEFINE x == [sign[t] EXCEPT !.at = "handled", !.pair = NextPair]
    <2>4. /\ x \in [kind : {"none", "login", "logout"},
                    at : {"none", "asked", "handled"}, pair : 0..Len(owner')]
          /\ x.kind = "login" /\ x.at = "handled" /\ x.pair = NextPair
      BY <1>t, <1>1, <2>2
    <2> QED  BY <2>1, <2>3, <2>4
  <1>2. CASE UNCHANGED serverVars /\ sign' = [sign EXCEPT ![t] = NoSign]
    <2>1. PairsStay /\ live' = live
      BY <1>2, <1>s, SameOwners DEF serverVars
    <2>2. NoSign \in [kind : {"none", "login", "logout"},
                      at : {"none", "asked", "handled"}, pair : 0..Len(owner')]
      BY <2>1 DEF PairsStay, NoSign, None
    <2> QED  BY <1>2, <2>1, <2>2
  <1>3. CASE /\ sign[t].kind = "logout" /\ sign' = [sign EXCEPT ![t].at = "handled"]
             /\ \/ Revoked(sign[t].pair)
                \/ UNCHANGED serverVars /\ spoilt' = TRUE
    <2>1. PairsStay /\ (spoilt' \/ live' = live \ {sign[t].pair})
      BY <1>3, <1>s, ServerAnswers DEF Revoked
    <2>2. sign' = [sign EXCEPT ![t] = [sign[t] EXCEPT !.at = "handled"]]
      BY <1>3 DEF BrowserShape
    <2> DEFINE x == [sign[t] EXCEPT !.at = "handled"]
    <2>3. /\ x \in [kind : {"none", "login", "logout"},
                    at : {"none", "asked", "handled"}, pair : 0..Len(owner')]
          /\ x.kind = "logout" /\ x.at = "handled" /\ x.pair = sign[t].pair
      BY <1>t, <1>3, <2>1 DEF PairsStay
    <2> QED  BY <2>1, <2>2, <2>3, <1>3
  <1> QED  BY <1>1, <1>2, <1>3 DEF SignHandled

LEMMA SignHandledKeeps ==
    ASSUME BrowserInv, NEW t \in Tabs, SignHandled(t)
    PROVE  BrowserInv'
  <1>s. BrowserShape
    BY DEF BrowserInv
  <1>1. PICK x : /\ x \in [kind : {"none", "login", "logout"},
                           at : {"none", "asked", "handled"}, pair : 0..Len(owner')]
                 /\ sign' = [sign EXCEPT ![t] = x]
                 /\ \/ /\ x.kind = "login" /\ x.at = "handled" /\ x.pair \in live'
                       /\ live \subseteq live'
                    \/ x = NoSign /\ live' = live
                    \/ /\ x.kind = "logout" /\ x.at = "handled" /\ sign[t].kind = "logout"
                       /\ x.pair = sign[t].pair
                       /\ spoilt' \/ live' = live \ {sign[t].pair}
    BY <1>s, SignAnswer
  <1>2. BrowserShape'
    <2>1. PairsStay /\ ServerTypeOK'
      BY <1>s, SignAnswer DEF PairsStay
    <2>2. sign' \in [Tabs -> [kind : {"none", "login", "logout"},
                              at : {"none", "asked", "handled"}, pair : 0..Len(owner')]]
      BY <1>1, <1>s, <2>1, NumbersStay
    <2>3. spoilt' \in BOOLEAN
      BY <1>s DEF SignHandled, BrowserShape
    <2> QED  BY <1>s, <2>1, <2>2, <2>3, NumbersStay DEF BrowserShape, SignHandled
  <1>3. ASSUME Clean' PROVE Exclusive'
    <2>1. Clean /\ Exclusive /\ Busy(t) /\ ~spoilt'
      BY <1>3 DEF BrowserInv, Exclusive, SignHandled, Clean, BrowserShape, Busy
    <2>2. /\ \A s \in Tabs : flight'[s].at = "none" /\ flight[s].at = "none"
          /\ \A s \in Tabs \ {t} : sign'[s] = sign[s] /\ sign[s].at = "none"
      BY <2>1, OthersIdle DEF SignHandled, BrowserInv, BrowserShape, Alone, Exclusive
    <2>3. Alone'
      BY <2>2 DEF Alone, Busy
    <2>4. \A s \in Tabs : FlightOf(s)'
      BY <2>2 DEF FlightOf
    <2>5. \A s \in Tabs \ {t} : SignOf(s)'
      BY <2>1, <2>2 DEF SignOf, Exclusive
    <2>6. Backing
      BY <2>1, <2>2 DEF Exclusive, Replacing, SignHandled
    <2>7. sign'[t] = x
      BY <1>1, <1>s DEF BrowserShape
    <2>8. SignOf(t)'
      BY <2>7, <1>1, <2>1 DEF SignOf, Exclusive, NoSign, SignHandled
    <2>9. Backing' \/ Replacing'
      BY <2>6, <2>7, <1>1 DEF Backing, Replacing, SignHandled, NoSign
    <2> QED  BY <2>3, <2>4, <2>5, <2>8, <2>9 DEF Exclusive
  <1> QED  BY <1>2, <1>3 DEF BrowserInv, Exclusive, Clean

LEMMA LoginArrivesKeeps ==
    ASSUME BrowserInv, NEW t \in Tabs, LoginArrives(t)
    PROVE  BrowserInv'
  <1>1. BrowserShape'
    BY DEF BrowserInv, BrowserShape, LoginArrives, ServerTypeOK, Pairs, serverVars, None, NoSign
  <1>2. ASSUME Clean' PROVE Exclusive'
    <2>1. Exclusive /\ Busy(t) /\ BrowserShape
      BY <1>2 DEF BrowserInv, Exclusive, LoginArrives, Clean, BrowserShape, Busy
    <2>2. /\ \A s \in Tabs : flight[s].at = "none" /\ flight'[s] = flight[s]
          /\ \A s \in Tabs \ {t} : sign[s].at = "none" /\ sign'[s] = sign[s]
      BY <2>1, OthersIdle DEF LoginArrives, BrowserShape, Exclusive, Alone
    <2>3. sign'[t] = NoSign
      BY <2>1 DEF LoginArrives, BrowserShape
    <2>4. cookie' \in live'
      BY <2>1 DEF LoginArrives, serverVars, Exclusive, SignOf
    <2>5. Alone' /\ Backing'
      BY <2>2, <2>3, <2>4 DEF Alone, Busy, Backing, NoSign
    <2>6. \A s \in Tabs : FlightOf(s)' /\ SignOf(s)'
      BY <2>1, <2>2, <2>3 DEF FlightOf, SignOf, Exclusive, NoSign
    <2> QED  BY <2>5, <2>6 DEF Exclusive
  <1> QED  BY <1>1, <1>2 DEF BrowserInv, Exclusive, Clean

LEMMA LogoutArrivesKeeps ==
    ASSUME BrowserInv, NEW t \in Tabs, LogoutArrives(t)
    PROVE  BrowserInv'
  <1>s. BrowserShape
    BY DEF BrowserInv
  <1>1. BrowserShape'
    <2>1. PairsStay /\ ServerTypeOK'
      BY <1>s, SameOwners DEF LogoutArrives, serverVars, PairsStay, BrowserShape
    <2>2. token' \in [Tabs -> 0..Len(owner')]
      BY <1>s, <2>1, NumbersStay DEF LogoutArrives, PairsStay, None
    <2>3. sign' \in [Tabs -> [kind : {"none", "login", "logout"},
                              at : {"none", "asked", "handled"}, pair : 0..Len(owner')]]
      BY <1>s, <2>1, NumbersStay DEF LogoutArrives, PairsStay, None, NoSign
    <2>4. cookie' \in 0..Len(owner') /\ stale' \subseteq Tabs /\ spoilt' \in BOOLEAN
      <3>1. cookie' \in {cookie, None} /\ None \in 0..Len(owner')
        BY <2>1 DEF LogoutArrives, PairsStay, None
      <3>2. stale' \subseteq Tabs /\ spoilt' \in BOOLEAN
        BY <1>s DEF LogoutArrives, BrowserShape
      <3> QED  BY <3>1, <3>2, <1>s, <2>1, NumbersStay
    <2> QED  BY <1>s, <2>1, <2>2, <2>3, <2>4, NumbersStay DEF BrowserShape, LogoutArrives
  <1>2. ASSUME Clean' PROVE Exclusive'
    <2>1. Exclusive /\ Busy(t) /\ BrowserShape /\ sign[t].at = "handled"
      BY <1>2 DEF BrowserInv, Exclusive, LogoutArrives, Clean, BrowserShape, Busy
    <2>2. /\ \A s \in Tabs : flight[s].at = "none" /\ flight'[s] = flight[s]
          /\ \A s \in Tabs \ {t} : sign[s].at = "none" /\ sign'[s] = sign[s]
      BY <2>1, OthersIdle DEF LogoutArrives, BrowserShape, Exclusive, Alone
    <2>3. sign'[t] = NoSign
      BY <2>1 DEF LogoutArrives, BrowserShape
    <2>4. \A s \in Tabs \ stale' : token'[s] = None
      BY <2>1 DEF LogoutArrives, BrowserShape
    <2>5. Alone' /\ Backing'
      BY <2>2, <2>3, <2>4 DEF Alone, Busy, Backing, NoSign
    <2>6. \A s \in Tabs : FlightOf(s)' /\ SignOf(s)'
      BY <2>1, <2>2, <2>3 DEF FlightOf, SignOf, Exclusive, NoSign
    <2> QED  BY <2>5, <2>6 DEF Exclusive
  <1> QED  BY <1>1, <1>2 DEF BrowserInv, Exclusive, Clean

LEMMA GoogleReturnsKeeps ==
    ASSUME BrowserInv, NEW t \in Tabs, GoogleReturns(t)
    PROVE  BrowserInv'
  <1>s. BrowserShape
    BY DEF BrowserInv
  <1>1. /\ PairsStay /\ ServerTypeOK' /\ Len(owner') = NextPair
        /\ NextPair \in live' /\ live \subseteq live'
    BY <1>s, IssuedPair DEF GoogleReturns, BrowserShape, PairsStay
  <1>2. NextPair \in 0..Len(owner') /\ None \in 0..Len(owner')
    BY <1>1 DEF PairsStay, None
  <1>3. BrowserShape'
    <2>1. flight' \in [Tabs -> [at : {"none", "asked", "granted", "denied", "failed"},
                               pair : 0..Len(owner')]]
      BY <1>1, <1>2, <1>s, NumbersStay DEF GoogleReturns
    <2>2. token' \in [Tabs -> 0..Len(owner')]
      BY <1>1, <1>2, <1>s, NumbersStay DEF GoogleReturns
    <2> QED  BY <2>1, <2>2, <1>1, <1>2, <1>s, NumbersStay DEF BrowserShape, GoogleReturns
  <1>4. ASSUME Clean' PROVE Exclusive'
    <2>1. Exclusive /\ ~Exchanging
      BY <1>4 DEF BrowserInv, Exclusive, GoogleReturns, Clean, BrowserShape
    <2>2. \A s \in Tabs : sign'[s] = sign[s] /\ sign[s].at = "none" /\ (s # t => flight'[s] = flight[s])
      BY <2>1, <1>s, NobodyBusy DEF GoogleReturns, BrowserShape
    <2>3. flight'[t] = [at |-> "asked", pair |-> NextPair] /\ cookie' = NextPair
      BY <1>s DEF GoogleReturns, BrowserShape
    <2>4. Alone' /\ Backing'
      BY <2>1, <2>2, <2>3, <1>1, NobodyBusy DEF Alone, Busy, Backing
    <2>5. \A s \in Tabs : FlightOf(s)' /\ SignOf(s)'
      BY <2>1, <2>2, <2>3, NobodyBusy DEF FlightOf, SignOf, Exclusive
    <2> QED  BY <2>4, <2>5 DEF Exclusive
  <1> QED  BY <1>3, <1>4 DEF BrowserInv, Exclusive, Clean

LEMMA RefreshHandledKeeps ==
    ASSUME BrowserInv, NEW t \in Tabs, RefreshHandled(t)
    PROVE  BrowserInv'
  <1>s. BrowserShape
    BY DEF BrowserInv
  <1>t. flight[t].pair \in 0..Len(owner)
    BY <1>s DEF BrowserShape
  <1>1. /\ PairsStay /\ ServerTypeOK'
        /\ \E x : /\ x \in [at : {"none", "asked", "granted", "denied", "failed"},
                            pair : 0..Len(owner')]
                  /\ flight' = [flight EXCEPT ![t] = x]
                  /\ \/ x.at = "granted" /\ x.pair \in live'
                     \/ /\ x.at = "denied" /\ x.pair = flight[t].pair
                        /\ x.pair \notin live /\ live' = live
                     \/ spoilt'
    <2>1. PairsStay /\ ServerTypeOK'
      BY <1>s, ServerAnswers DEF RefreshHandled, BrowserShape, PairsStay
    <2>2. CASE /\ Rotated(flight[t].pair)
               /\ flight' = [flight EXCEPT ![t] = [at |-> "granted", pair |-> NextPair]]
      <3>1. NextPair \in live' /\ NextPair \in 0..Len(owner')
        BY <2>2, <2>1, <1>s, RotatedPair DEF BrowserShape, PairsStay
      <3> DEFINE x == [at |-> "granted", pair |-> NextPair]
      <3>2. /\ x \in [at : {"none", "asked", "granted", "denied", "failed"}, pair : 0..Len(owner')]
            /\ flight' = [flight EXCEPT ![t] = x] /\ x.at = "granted" /\ x.pair \in live'
        BY <2>2, <3>1
      <3> QED  BY <2>1, <3>2
    <2>3. CASE /\ Denied(flight[t].pair)
               /\ flight' = [flight EXCEPT ![t] = [at |-> "denied", pair |-> flight[t].pair]]
      <3>1. flight[t].pair \in 0..Len(owner')
        BY <2>1, <1>t, StillNumbered
      <3> DEFINE x == [at |-> "denied", pair |-> flight[t].pair]
      <3>2. /\ x \in [at : {"none", "asked", "granted", "denied", "failed"}, pair : 0..Len(owner')]
            /\ flight' = [flight EXCEPT ![t] = x] /\ x.at = "denied" /\ x.pair = flight[t].pair
            /\ x.pair \notin live /\ live' = live
        BY <2>3, <3>1 DEF Denied, serverVars
      <3> QED  BY <2>1, <3>2
    <2>4. CASE spoilt' /\ flight' = [flight EXCEPT ![t] = [at |-> "failed", pair |-> None]]
      <3>1. None \in 0..Len(owner')
        BY <2>1 DEF PairsStay, None
      <3> QED  BY <2>1, <2>4, <3>1
    <2> QED  BY <2>2, <2>3, <2>4 DEF RefreshHandled
  <1>2. PICK x : /\ x \in [at : {"none", "asked", "granted", "denied", "failed"},
                           pair : 0..Len(owner')]
                 /\ flight' = [flight EXCEPT ![t] = x]
                 /\ \/ x.at = "granted" /\ x.pair \in live'
                    \/ /\ x.at = "denied" /\ x.pair = flight[t].pair
                       /\ x.pair \notin live /\ live' = live
                    \/ spoilt'
    BY <1>1
  <1>3. BrowserShape'
    <2>1. flight' \in [Tabs -> [at : {"none", "asked", "granted", "denied", "failed"},
                               pair : 0..Len(owner')]]
      BY <1>1, <1>2, <1>s, NumbersStay
    <2>2. spoilt' \in BOOLEAN
      BY <1>s DEF RefreshHandled, BrowserShape
    <2> QED  BY <2>1, <2>2, <1>1, <1>s, NumbersStay DEF BrowserShape, RefreshHandled
  <1>4. ASSUME Clean' PROVE Exclusive'
    <2>1. Exclusive /\ Busy(t) /\ ~spoilt' /\ flight[t].at = "asked"
      BY <1>4 DEF BrowserInv, Exclusive, RefreshHandled, Clean, BrowserShape, Busy
    <2>2. /\ \A s \in Tabs : sign[s].at = "none" /\ sign'[s] = sign[s]
          /\ \A s \in Tabs \ {t} : flight[s].at = "none" /\ flight'[s] = flight[s]
      BY <2>1, <1>s, OthersIdle DEF RefreshHandled, BrowserShape, Exclusive, Alone
    <2>3. flight'[t] = x
      BY <1>2, <1>s DEF BrowserShape
    <2>4. Alone'
      BY <2>2 DEF Alone, Busy
    <2>5. Backing
      BY <2>1, <2>2 DEF Exclusive, Replacing
    <2>6. Backing' \/ Replacing'
      BY <2>5, <2>3, <2>1, <1>2 DEF Backing, Replacing, RefreshHandled
    <2>7. \A s \in Tabs : FlightOf(s)' /\ SignOf(s)'
      BY <2>1, <2>2, <2>3, <1>2 DEF FlightOf, SignOf, Exclusive, RefreshHandled
    <2> QED  BY <2>4, <2>6, <2>7 DEF Exclusive
  <1> QED  BY <1>3, <1>4 DEF BrowserInv, Exclusive, Clean

LEMMA RefreshGrantedKeeps ==
    ASSUME BrowserInv, NEW t \in Tabs, RefreshGranted(t)
    PROVE  BrowserInv'
  <1>1. BrowserShape'
    BY DEF BrowserInv, BrowserShape, RefreshGranted, ServerTypeOK, Pairs, serverVars, None, NoFlight
  <1>2. ASSUME Clean' PROVE Exclusive'
    <2>1. Exclusive /\ Busy(t) /\ BrowserShape
      BY <1>2 DEF BrowserInv, Exclusive, RefreshGranted, Clean, BrowserShape, Busy
    <2>2. /\ \A s \in Tabs : sign[s].at = "none" /\ sign'[s] = sign[s]
          /\ \A s \in Tabs \ {t} : flight[s].at = "none" /\ flight'[s] = flight[s]
      BY <2>1, OthersIdle DEF RefreshGranted, BrowserShape, Exclusive, Alone
    <2>3. flight'[t] = NoFlight
      BY <2>1 DEF RefreshGranted, BrowserShape
    <2>4. cookie' \in live'
      BY <2>1 DEF RefreshGranted, serverVars, Exclusive, FlightOf
    <2>5. Alone' /\ Backing'
      BY <2>2, <2>3, <2>4 DEF Alone, Busy, Backing, NoFlight
    <2>6. \A s \in Tabs : FlightOf(s)' /\ SignOf(s)'
      BY <2>1, <2>2, <2>3 DEF FlightOf, SignOf, Exclusive, NoFlight
    <2> QED  BY <2>5, <2>6 DEF Exclusive
  <1> QED  BY <1>1, <1>2 DEF BrowserInv, Exclusive, Clean

LEMMA RefreshRefusedKeeps ==
    ASSUME BrowserInv, NEW t \in Tabs, RefreshRefused(t)
    PROVE  BrowserInv'
  <1>s. BrowserShape
    BY DEF BrowserInv
  <1>1. /\ flight' = [flight EXCEPT ![t] = NoFlight] /\ token' = [token EXCEPT ![t] = None]
        /\ (sign' = sign \/ sign' = [sign EXCEPT ![t] = NoSign])
        /\ stale' = stale \ {t} /\ spoilt' \in BOOLEAN /\ (spoilt => spoilt')
        /\ (cookie' = cookie \/ cookie' = None) /\ UNCHANGED serverVars /\ overlap' = overlap
    BY <1>s DEF RefreshRefused, Reloaded, BrowserShape
  <1>2. BrowserShape'
    <2>1. PairsStay /\ ServerTypeOK' /\ None \in 0..Len(owner')
      BY <1>s, <1>1, SameOwners DEF serverVars, PairsStay, BrowserShape, None
    <2>2. token' \in [Tabs -> 0..Len(owner')]
      BY <1>s, <1>1, <2>1, NumbersStay
    <2>3. sign' \in [Tabs -> [kind : {"none", "login", "logout"},
                              at : {"none", "asked", "handled"}, pair : 0..Len(owner')]]
      BY <1>s, <1>1, <2>1, NumbersStay DEF NoSign
    <2>4. flight' \in [Tabs -> [at : {"none", "asked", "granted", "denied", "failed"},
                               pair : 0..Len(owner')]]
      BY <1>s, <1>1, <2>1, NumbersStay DEF NoFlight
    <2>5. cookie' \in 0..Len(owner') /\ stale' \subseteq Tabs /\ overlap' \in BOOLEAN
      BY <1>s, <1>1, <2>1, NumbersStay DEF BrowserShape
    <2> QED  BY <1>1, <2>1, <2>2, <2>3, <2>4, <2>5 DEF BrowserShape
  <1>3. ASSUME Clean' PROVE Exclusive'
    <2>1. Exclusive /\ Busy(t)
      BY <1>3, <1>1 DEF BrowserInv, Exclusive, RefreshRefused, Clean, BrowserShape, Busy
    <2>2. \A s \in Tabs \ {t} : /\ sign[s].at = "none" /\ sign'[s] = sign[s]
                                /\ flight[s].at = "none" /\ flight'[s] = flight[s]
      BY <2>1, <1>1, <1>s, OthersIdle DEF BrowserShape
    <2>3. flight'[t] = NoFlight /\ sign[t].at = "none" /\ (sign'[t] = sign[t] \/ sign'[t] = NoSign)
      BY <2>1, <1>1, <1>s DEF BrowserShape, Exclusive, Alone, RefreshRefused
    <2>4. cookie \notin live /\ flight[t].at = "denied"
      BY <2>1 DEF RefreshRefused, Exclusive, FlightOf
    <2>5. Backing
      BY <2>1, <2>2, <2>3, <2>4 DEF Exclusive, Replacing
    <2>6. Alone' /\ Backing'
      BY <2>2, <2>3, <2>4, <2>5, <1>1, <1>s DEF Alone, Busy, Backing, NoFlight, NoSign, BrowserShape
    <2>7. \A s \in Tabs : FlightOf(s)' /\ SignOf(s)'
      BY <2>1, <2>2, <2>3 DEF FlightOf, SignOf, Exclusive, NoFlight, NoSign
    <2> QED  BY <2>6, <2>7 DEF Exclusive
  <1> QED  BY <1>2, <1>3 DEF BrowserInv, Exclusive, Clean, RefreshRefused

LEMMA UnauthorizedKeeps ==
    ASSUME BrowserInv, NEW t \in Tabs, NEW c \in Calls, Unauthorized(t, c)
    PROVE  BrowserInv'
  <1>s. BrowserShape
    BY DEF BrowserInv
  <1>1. BrowserShape'
    <2>1. PairsStay /\ ServerTypeOK'
      BY <1>s, SameOwners DEF Unauthorized, serverVars, PairsStay, BrowserShape
    <2>2. flight' \in [Tabs -> [at : {"none", "asked", "granted", "denied", "failed"},
                               pair : 0..Len(owner')]]
      <3>1. CASE flight' = flight
        BY <1>s, <2>1, <3>1, NumbersStay
      <3>2. CASE flight' = [flight EXCEPT ![t] = [at |-> "asked", pair |-> cookie]]
        BY <1>s, <2>1, <3>2, NumbersStay
      <3> QED  BY <3>1, <3>2 DEF Unauthorized, Refreshing
    <2>3. overlap' \in BOOLEAN
      BY <1>s DEF Unauthorized, Refreshing, BrowserShape, Exchanging
    <2> QED  BY <1>s, <2>1, <2>2, <2>3, NumbersStay DEF BrowserShape, Unauthorized
  <1>2. ASSUME Clean', flight[t].at = "none" PROVE Exclusive'
    <2>1. Exclusive /\ ~Exchanging
      BY <1>2 DEF BrowserInv, Exclusive, Unauthorized, Refreshing, Clean, BrowserShape
    <2>2. \A s \in Tabs : sign'[s] = sign[s] /\ sign[s].at = "none" /\ (s # t => flight'[s] = flight[s])
      BY <2>1, <1>s, <1>2, NobodyBusy DEF Unauthorized, Refreshing, BrowserShape
    <2>3. flight'[t] = [at |-> "asked", pair |-> cookie] /\ cookie' = cookie
      BY <1>s, <1>2 DEF Unauthorized, Refreshing, BrowserShape
    <2>4. Alone' /\ Backing'
      BY <2>1, <2>2, <2>3, NobodyBusy DEF Alone, Busy, Backing, Unauthorized, serverVars
    <2>5. \A s \in Tabs : FlightOf(s)' /\ SignOf(s)'
      BY <2>1, <2>2, <2>3, NobodyBusy DEF FlightOf, SignOf, Exclusive
    <2> QED  BY <2>4, <2>5 DEF Exclusive
  <1>3. ASSUME Clean', flight[t].at # "none" PROVE Exclusive'
    BY <1>3 DEF Unauthorized, Refreshing, BrowserInv, Clean, Exclusive, Alone, Busy, Backing,
                Replacing, FlightOf, SignOf, serverVars
  <1> QED  BY <1>1, <1>2, <1>3 DEF BrowserInv, Exclusive, Clean

LEMMA ReloadKeeps ==
    ASSUME BrowserInv, NEW t \in Tabs, Reload(t)
    PROVE  BrowserInv'
  <1>s. BrowserShape
    BY DEF BrowserInv
  <1>1. /\ flight' = [flight EXCEPT ![t] = NoFlight] /\ token' = [token EXCEPT ![t] = None]
        /\ sign' = [sign EXCEPT ![t] = NoSign] /\ stale' = stale \ {t}
        /\ spoilt' = (spoilt \/ flight[t].at = "granted" \/ sign[t].at = "handled")
        /\ UNCHANGED <<serverVars, cookie, overlap>>
    BY DEF Reload, Reloaded
  <1>2. BrowserShape'
    BY <1>1, <1>s DEF BrowserShape, ServerTypeOK, Pairs, serverVars, None, NoFlight, NoSign
  <1>3. ASSUME Clean' PROVE Exclusive'
    <2>1. Exclusive /\ flight[t].at # "granted" /\ sign[t].at # "handled"
      BY <1>3, <1>1 DEF BrowserInv, Exclusive, Clean
    <2>2. \A s \in Tabs \ {t} : sign'[s] = sign[s] /\ flight'[s] = flight[s] /\ token'[s] = token[s]
      BY <1>1, <1>s DEF BrowserShape
    <2>3. flight'[t] = NoFlight /\ sign'[t] = NoSign /\ token'[t] = None
      BY <1>1, <1>s DEF BrowserShape
    <2>4. Alone'
      BY <2>1, <2>2, <2>3 DEF Exclusive, Alone, Busy, NoFlight, NoSign
    <2>5. Backing' \/ Replacing'
      BY <2>1, <2>2, <2>3, <1>1 DEF Exclusive, Backing, Replacing, serverVars
    <2>6. \A s \in Tabs : FlightOf(s)' /\ SignOf(s)'
      BY <2>1, <2>2, <2>3, <1>1 DEF FlightOf, SignOf, Exclusive, NoFlight, NoSign, serverVars
    <2> QED  BY <2>4, <2>5, <2>6 DEF Exclusive
  <1> QED  BY <1>2, <1>3 DEF BrowserInv, Exclusive, Clean

\* Steps that touch neither the cookie nor an exchange.
LEMMA OtherStepsKeep ==
    ASSUME BrowserInv,
           UNCHANGED <<owner, live, cookie, token, flight, sign, stale, overlap, spoilt>>,
           fresh' \subseteq fresh
    PROVE  BrowserInv'
  <1>1. BrowserShape'
    BY DEF BrowserInv, BrowserShape, ServerTypeOK, Pairs
  <1>2. ~overlap /\ ~spoilt => Exclusive'
    BY DEF BrowserInv, Exclusive, Alone, Busy, Backing, Replacing, FlightOf, SignOf
  <1> QED  BY <1>1, <1>2 DEF Exclusive, BrowserInv

LEMMA BrowserStepKeeps ==
    ASSUME BrowserInv, [BrowserNext]_webVars
    PROVE  BrowserInv'
  <1>1. ASSUME NEW t \in Tabs, BrowserStep(t) PROVE BrowserInv'
    <2>1. CASE \E c \in Calls : Call(t, c) \/ Answered(t, c)
      BY <2>1, OtherStepsKeep DEF Call, Answered, serverVars
    <2>2. CASE GoesToLogin(t)
      BY <2>2, OtherStepsKeep DEF GoesToLogin, serverVars
    <2> QED  BY <1>1, <2>1, <2>2, TabLoginKeeps, TabLogoutKeeps, SignHandledKeeps,
                LoginArrivesKeeps, LogoutArrivesKeeps, GoogleReturnsKeeps, RefreshHandledKeeps,
                RefreshGrantedKeeps, RefreshRefusedKeeps, UnauthorizedKeeps, ReloadKeeps
             DEF BrowserStep
  <1>2. CASE AccessExpires /\ UNCHANGED browserVars
    BY <1>2, OtherStepsKeep DEF AccessExpires, browserVars
  <1>3. CASE UNCHANGED webVars
    BY <1>3, OtherStepsKeep DEF webVars, browserVars, serverVars
  <1> QED  BY <1>1, <1>2, <1>3 DEF BrowserNext

LEMMA BrowserStarts ==
    ASSUME BrowserInit
    PROVE  BrowserInv
  <1> USE DEF BrowserInit, NoFlight, NoSign, None
  <1>1. ServerTypeOK /\ None \in 0..Len(owner)
    BY DEF ServerInit, ServerTypeOK, Pairs
  <1>2. BrowserShape
    BY <1>1 DEF BrowserShape
  <1>3. Alone /\ Backing
    BY DEF Alone, Busy, Backing
  <1>4. \A t \in Tabs : FlightOf(t) /\ SignOf(t)
    BY DEF FlightOf, SignOf
  <1> QED  BY <1>2, <1>3, <1>4 DEF BrowserInv

\* Once nothing is under way, the cookie restores every session a tab shows.
THEOREM ReloadsRestore == BrowserSpec => []SessionSurvivesReload
  <1>1. BrowserInv => SessionSurvivesReload
    BY DEF BrowserInv, SessionSurvivesReload, Exchanging, Replacing, Backing
  <1> QED  BY <1>1, BrowserStarts, BrowserStepKeeps, PTL DEF BrowserSpec

\* Undisturbed, the browser gives up its cookie only when the API has ended that session.
THEOREM CookiesDieSpent == BrowserSpec => OnlySpentCookiesAreDeleted
  <1>1. ASSUME BrowserInv, [BrowserNext]_webVars
        PROVE  [cookie # None /\ cookie' = None /\ ~overlap /\ ~spoilt => cookie \notin live]_webVars
    <2> SUFFICES ASSUME cookie # None, cookie' = None, ~overlap, ~spoilt, BrowserNext
                 PROVE  cookie \notin live
      BY <1>1 DEF webVars, browserVars
    <2>1. PICK t \in Tabs : BrowserStep(t)
      BY DEF BrowserNext, browserVars
    <2>2. BrowserShape /\ Exclusive
      BY <1>1 DEF BrowserInv, Exclusive
    <2>3. CASE LoginArrives(t)
      BY <2>2, <2>3 DEF LoginArrives, Exclusive, SignOf, BrowserShape, ServerTypeOK, Pairs, None
    <2>4. CASE LogoutArrives(t)
      BY <2>2, <2>4 DEF LogoutArrives, Exclusive, SignOf
    <2>5. CASE GoogleReturns(t)
      BY <2>2, <2>5, IssuedPair DEF GoogleReturns, BrowserShape
    <2>6. CASE RefreshGranted(t)
      BY <2>2, <2>6 DEF RefreshGranted, Exclusive, FlightOf, BrowserShape, ServerTypeOK, Pairs, None
    <2>7. CASE RefreshRefused(t)
      BY <2>2, <2>7 DEF RefreshRefused, Exclusive, FlightOf
    <2>8. CASE cookie' = cookie
      BY <2>8
    <2> QED  BY <2>1, <2>3, <2>4, <2>5, <2>6, <2>7, <2>8
          DEF BrowserStep, TabLogin, TabLogout, SignHandled, RefreshHandled, Call, Answered,
              Unauthorized, Reload, GoesToLogin
  <1> QED  BY <1>1, BrowserStarts, BrowserStepKeeps, PTL
           DEF BrowserSpec, OnlySpentCookiesAreDeleted

-----------------------------------------------------------------------------
(* The phone *)

\* where an operation can stand
StepOfOperation ==
    /\ ops = <<>> => step = "start"
    /\ step = "transport" => Running("refresh") /\ result = stored /\ stored # None
    /\ step = "persist" => (Running("refresh") \/ Running("login")) /\ result \in live
    /\ step = "remove" => access = None

\* the access token belongs to the stored session, and so does what a refresh obtained
OneSession ==
    /\ access # None /\ step # "revoke" => stored # None /\ owner[stored] = owner[access]
    /\ Running("refresh") /\ step = "persist" => stored # None /\ owner[result] = owner[stored]
    /\ Running("login") /\ step = "persist" /\ access # None => switched

\* what is cached, or will be when a request is answered, is of the session's account
OwnData ==
    /\ access = None => cache = {} /\ \A r \in Requests : ~req[r].current
    /\ access # None /\ ~switched =>
           /\ cache \subseteq {owner[access]}
           /\ \A r \in Requests : req[r].current
                  => req[r].token # None /\ owner[req[r].token] = owner[access]
    /\ access # None /\ status = "authenticated" => user = owner[access]
    /\ status = "guest" => access = None

\* a guest has nothing stored but what a sign-in is about to take back
GuestHoldsNothing ==
    status = "guest" =>
        /\ stored # None => Running("login") /\ step \in {"revoke", "remove"}
        /\ step = "persist" => Running("login")

MobileInv ==
    /\ MobileTypeOK
    /\ StepOfOperation /\ OneSession /\ OwnData
    /\ StoredIsUsable /\ GuestHoldsNothing

LEMMA RequestStatesGrow ==
    ASSUME PairsStay
    PROVE  RequestStates \subseteq RequestStates' /\ Idle \in RequestStates'
  BY DEF PairsStay, RequestStates, Idle, None

LEMMA RequestMoves ==
    ASSUME Len(owner) \in Nat, NEW q \in RequestStates
    PROVE  /\ [q EXCEPT !.current = FALSE] \in RequestStates
           /\ [q EXCEPT !.phase = "waitToken"] \in RequestStates
           /\ [q EXCEPT !.phase = "waitRetry"] \in RequestStates
           /\ [q EXCEPT !.phase = "ending"] \in RequestStates
           /\ Idle \in RequestStates /\ ~Idle.current
  <1>1. \A ph \in {"waitToken", "waitRetry", "ending"} : [q EXCEPT !.phase = ph] \in RequestStates
    BY DEF RequestStates
  <1>2. [q EXCEPT !.current = FALSE] \in RequestStates
    BY DEF RequestStates
  <1>3. Idle \in RequestStates /\ ~Idle.current
    BY DEF RequestStates, Idle, None
  <1> QED  BY <1>1, <1>2, <1>3

LEMMA RequestSent ==
    ASSUME Len(owner) \in Nat, NEW q \in RequestStates, NEW n \in 0..Len(owner)
    PROVE  /\ Sends(q, n) \in RequestStates /\ Sends(q, n).token = n
           /\ Resends(q, n) \in RequestStates
           /\ Resends(q, n).current => Resends(q, n).token = n /\ q.current
  <1>1. Sends(q, n) \in RequestStates /\ Sends(q, n).token = n
    BY DEF RequestStates, Sends
  <1>2. CASE q.current
    BY <1>1, <1>2 DEF RequestStates, Resends
  <1>3. CASE ~q.current
    BY <1>1, <1>3, RequestMoves DEF Resends, Idle
  <1> QED  BY <1>1, <1>2, <1>3

\* A token that was issued keeps its number and its account.
LEMMA TokenStays ==
    ASSUME PairsStay, NEW n \in 0..Len(owner)
    PROVE  n \in 0..Len(owner') /\ (n # None => owner'[n] = owner[n])
  BY DEF PairsStay, Pairs, None

\* What is queued does not disturb the operation that runs.
LEMMA QueueGrows ==
    ASSUME ops \in Seq(Operations), NEW x \in Operations
    PROVE  /\ Append(ops, x) \in Seq(Operations) /\ Append(ops, x) # <<>>
           /\ ops # <<>> => Head(Append(ops, x)) = Head(ops)
           /\ WithRefresh(ops) \in Seq(Operations) /\ WithRefresh(ops) # <<>>
           /\ ops # <<>> => Head(WithRefresh(ops)) = Head(ops)
           /\ ops # <<>> => Tail(ops) \in Seq(Operations) /\ WithRefresh(Tail(ops)) \in Seq(Operations)
  <1>1. ASSUME NEW q \in Seq(Operations), NEW y \in Operations
        PROVE  /\ Append(q, y) \in Seq(Operations) /\ Append(q, y) # <<>>
               /\ q # <<>> => Head(Append(q, y)) = Head(q)
    OBVIOUS
  <1>2. [kind |-> "refresh"] \in Operations
    BY DEF Operations
  <1>3. ASSUME NEW q \in Seq(Operations)
        PROVE  /\ WithRefresh(q) \in Seq(Operations) /\ WithRefresh(q) # <<>>
               /\ q # <<>> => Head(WithRefresh(q)) = Head(q)
    <2>1. CASE \E i \in 1..Len(q) : q[i].kind = "refresh"
      BY <2>1 DEF WithRefresh
    <2>2. CASE ~\E i \in 1..Len(q) : q[i].kind = "refresh"
      BY <2>2, <1>1, <1>2 DEF WithRefresh
    <2> QED  BY <2>1, <2>2
  <1>4. ops # <<>> => Tail(ops) \in Seq(Operations)
    OBVIOUS
  <1> QED  BY <1>1, <1>3, <1>4

\* The identity changes: nothing is cached, and no request counts as current.
LEMMA IdentityEnds ==
    ASSUME MobileTypeOK, PairsStay, IdentityChanges
    PROVE  /\ cache' = {} /\ req' \in [Requests -> RequestStates']
           /\ \A r \in Requests : ~req'[r].current
  <1>1. \A r \in Requests : [req[r] EXCEPT !.current = FALSE] \in RequestStates
    BY RequestMoves DEF MobileTypeOK, PairsStay
  <1>2. \A r \in Requests : ~[req[r] EXCEPT !.current = FALSE].current
    BY DEF MobileTypeOK, RequestStates
  <1> QED  BY <1>1, <1>2, RequestStatesGrow DEF IdentityChanges, Idle

LEMMA ForgettingKeeps ==
    ASSUME MobileInv, PairsStay, Forgets, ops # <<>>, ops' = ops,
           result' \in {result, None}, UNCHANGED <<stored, status, user, restoring, upset>>
    PROVE  MobileInv'
  <1>1. MobileTypeOK'
    <2>1. stored \in 0..Len(owner') /\ result \in 0..Len(owner') /\ None \in 0..Len(owner')
      BY TokenStays DEF MobileInv, MobileTypeOK, PairsStay, None
    <2> QED  BY <2>1, IdentityEnds DEF MobileInv, MobileTypeOK, Forgets, PairsStay
  <1>2. StepOfOperation' /\ OneSession' /\ StoredIsUsable'
    BY DEF StepOfOperation, OneSession, StoredIsUsable, Forgets
  <1>3. OwnData'
    BY IdentityEnds DEF MobileInv, OwnData, Forgets
  <1>4. GuestHoldsNothing'
    BY DEF MobileInv, GuestHoldsNothing, Forgets, Running
  <1> QED  BY <1>1, <1>2, <1>3, <1>4 DEF MobileInv

\* Requests that stay current keep the token they were sent with.
LEMMA SameIdentity ==
    ASSUME MobileInv, PairsStay, UNCHANGED <<access, cache, switched>>,
           \A r \in Requests : req'[r].current => req[r].current /\ req'[r].token = req[r].token,
           (status' = status /\ user' = user) \/ status' = "unavailable"
    PROVE  OwnData'
  <1>1. access # None => owner'[access] = owner[access]
    BY TokenStays DEF MobileInv, MobileTypeOK
  <1>2. \A r \in Requests : req[r].token # None => owner'[req[r].token] = owner[req[r].token]
    BY TokenStays DEF MobileInv, MobileTypeOK, RequestStates
  <1> QED  BY <1>1, <1>2 DEF MobileInv, OwnData

LEMMA RefreshFailsKeeps ==
    ASSUME MobileInv, PairsStay, UNCHANGED <<access, cache, switched, stored>>, Running("refresh"),
           RefreshFails([status |-> status, user |-> user]), upset' \in BOOLEAN,
           step \in {"start", "transport"}, stored \in live' \/ stored = None \/ upset'
    PROVE  MobileInv'
  <1>1. /\ ops' \in Seq(Operations) /\ step' = "start" /\ result' = None /\ restoring' \in BOOLEAN
        /\ \/ status' = status /\ user' = user
           \/ status' = "unavailable" /\ user' = NoUser
    <2>1. [kind |-> "refresh"] \in Operations
      BY DEF Operations
    <2> QED  BY <2>1, QueueGrows DEF RefreshFails, MobileInv, MobileTypeOK, Running
  <1>2. /\ req' \in [Requests -> RequestStates']
        /\ \A r \in Requests : req'[r].current => req[r].current /\ req'[r].token = req[r].token
    <2>1. \A r \in Requests : /\ req[r] \in RequestStates
                              /\ [req[r] EXCEPT !.phase = "waitToken"] \in RequestStates
      BY RequestMoves DEF MobileInv, MobileTypeOK, PairsStay
    <2>2. \A r \in Requests : req'[r] \in {req[r], [req[r] EXCEPT !.phase = "waitToken"], Idle}
      BY DEF RefreshFails
    <2>3. req' = [r \in Requests |-> req'[r]]
      BY DEF RefreshFails
    <2>4. req' \in [Requests -> RequestStates']
      BY <2>1, <2>2, <2>3, RequestStatesGrow
    <2> QED  BY <2>1, <2>2, <2>4 DEF RequestStates, Idle
  <1>3. MobileTypeOK'
    <2>1. stored \in 0..Len(owner') /\ access \in 0..Len(owner') /\ None \in 0..Len(owner')
      BY TokenStays DEF MobileInv, MobileTypeOK, PairsStay, None
    <2> QED  BY <1>1, <1>2, <2>1 DEF MobileInv, MobileTypeOK, PairsStay
  <1>4. StepOfOperation' /\ StoredIsUsable'
    BY <1>1 DEF StepOfOperation, StoredIsUsable
  <1>5. OneSession'
    BY <1>1, TokenStays DEF MobileInv, MobileTypeOK, OneSession
  <1>6. OwnData'
    BY <1>1, <1>2, SameIdentity
  <1>7. GuestHoldsNothing'
    BY <1>1 DEF MobileInv, GuestHoldsNothing, Running
  <1> QED  BY <1>3, <1>4, <1>5, <1>6, <1>7 DEF MobileInv

LEMMA DoneKeeps ==
    ASSUME MobileInv, PairsStay, UNCHANGED <<access, cache, switched, restoring>>, ops # <<>>,
           Done, upset' \in BOOLEAN, live \subseteq live',
           \/ UNCHANGED <<stored, status, user, upset>> /\ step = "start"
           \/ /\ access = None /\ user' = NoUser
              /\ \/ status' = "guest" /\ stored' = None
                 \/ status' = "unavailable" /\ stored' = stored /\ upset',
           req' \in [Requests -> RequestStates'],
           \A r \in Requests : req'[r].current => req[r].current /\ req'[r].token = req[r].token
    PROVE  MobileInv'
  <1>1. ops' \in Seq(Operations) /\ step' = "start" /\ result' = None
    BY QueueGrows DEF Done, MobileInv, MobileTypeOK
  <1>2. MobileTypeOK'
    <2>1. /\ stored \in 0..Len(owner') /\ access \in 0..Len(owner') /\ None \in 0..Len(owner')
      BY TokenStays DEF MobileInv, MobileTypeOK, PairsStay, None
    <2> QED  BY <1>1, <2>1 DEF MobileInv, MobileTypeOK, PairsStay
  <1>3. StepOfOperation' /\ StoredIsUsable'
    BY <1>1 DEF StepOfOperation, MobileInv, StoredIsUsable
  <1>4. OneSession'
    BY <1>1, TokenStays DEF MobileInv, MobileTypeOK, OneSession
  <1>5. OwnData'
    <2>1. CASE access = None
      BY <2>1 DEF MobileInv, OwnData
    <2>2. CASE access # None
      BY <2>2, SameIdentity
    <2> QED  BY <2>1, <2>2
  <1>6. GuestHoldsNothing'
    BY <1>1 DEF MobileInv, GuestHoldsNothing, Running
  <1> QED  BY <1>2, <1>3, <1>4, <1>5, <1>6 DEF MobileInv

LEMMA LoginAnsweredKeeps ==
    ASSUME MobileInv, LoginAnswered
    PROVE  MobileInv'
  <1>q. ops # <<>> /\ step = "start" /\ Running("login") /\ MobileTypeOK /\ ServerTypeOK
    BY DEF LoginAnswered, Running, MobileInv, MobileTypeOK
  <1>u. Head(ops).who \in Users
    <2>1. Head(ops) \in Operations
      BY <1>q DEF MobileTypeOK
    <2> QED  BY <1>q, <2>1 DEF Operations, Running
  <1>1. CASE /\ IssuePair(Head(ops).who, {})
             /\ result' = NextPair /\ step' = "persist"
             /\ IdentityChanges
             /\ switched' = (switched \/ access # None)
             /\ UNCHANGED <<stored, access, status, user, ops, restoring, upset>>
    <2>1. /\ PairsStay /\ Len(owner') = NextPair
          /\ NextPair \in live' /\ live \subseteq live' /\ NextPair # None
      BY <1>1, <1>q, <1>u, IssuedPair
    <2>2. MobileTypeOK'
      <3>1. /\ stored \in 0..Len(owner') /\ access \in 0..Len(owner') /\ NextPair \in 0..Len(owner')
        BY <1>q, <2>1, TokenStays DEF MobileTypeOK, PairsStay
      <3> QED  BY <1>1, <1>q, <2>1, <3>1, IdentityEnds DEF MobileTypeOK, PairsStay
    <2>3. StepOfOperation' /\ StoredIsUsable'
      BY <1>1, <1>q, <2>1 DEF StepOfOperation, StoredIsUsable, Running
    <2>4. OneSession'
      BY <1>1, <1>q, <2>1, TokenStays DEF MobileInv, MobileTypeOK, OneSession, Running
    <2>5. OwnData'
      BY <1>1, <1>q, <2>1, TokenStays, IdentityEnds DEF MobileInv, MobileTypeOK, OwnData
    <2>6. GuestHoldsNothing'
      BY <1>1, <1>q DEF MobileInv, GuestHoldsNothing, Running
    <2> QED  BY <2>2, <2>3, <2>4, <2>5, <2>6 DEF MobileInv
  <1>2. CASE /\ \/ UNCHANGED serverVars
                \/ IssuePair(Head(ops).who, {})
             /\ Done
             /\ UNCHANGED <<stored, access, status, user, restoring, req, cache, upset, switched>>
    <2>1. PairsStay /\ live \subseteq live'
      BY <1>2, <1>q, <1>u, IssuedPair, SameOwners DEF serverVars
    <2>2. req' \in [Requests -> RequestStates']
      BY <1>2, <1>q, <2>1, RequestStatesGrow DEF MobileTypeOK
    <2>3. upset' \in BOOLEAN
      BY <1>2, <1>q DEF MobileTypeOK
    <2> QED  BY <1>2, <1>q, <2>1, <2>2, <2>3, DoneKeeps
  <1> QED  BY <1>1, <1>2 DEF LoginAnswered

LEMMA RotateLoadsKeeps ==
    ASSUME MobileInv, RotateLoads
    PROVE  MobileInv'
  <1>q. ops # <<>> /\ step = "start" /\ Running("refresh") /\ MobileTypeOK /\ ServerTypeOK
    BY DEF RotateLoads, Running, MobileInv, MobileTypeOK
  <1>p. PairsStay /\ UNCHANGED serverVars
    BY <1>q, SameOwners DEF RotateLoads, serverVars
  <1>1. CASE /\ Forgets
             /\ UNCHANGED <<stored, status, user, ops, result, restoring, upset>>
    BY <1>1, <1>q, <1>p, ForgettingKeeps
  <1>2. CASE /\ stored # None /\ step' = "transport" /\ result' = stored
             /\ UNCHANGED <<stored, access, status, user, ops, restoring, req, cache, upset,
                            switched>>
    <2>1. MobileTypeOK'
      BY <1>2, <1>q, <1>p DEF MobileTypeOK, PairsStay, RequestStates, serverVars
    <2>2. StepOfOperation' /\ OneSession' /\ StoredIsUsable'
      BY <1>2, <1>q, <1>p DEF MobileInv, StepOfOperation, OneSession, StoredIsUsable, serverVars, Running
    <2>3. OwnData'
      BY <1>2, <1>p, SameIdentity
    <2>4. GuestHoldsNothing'
      BY <1>2, <1>q DEF MobileInv, GuestHoldsNothing, Running
    <2> QED  BY <2>1, <2>2, <2>3, <2>4 DEF MobileInv
  <1>3. CASE /\ RefreshFails([status |-> status, user |-> user])
             /\ UNCHANGED <<stored, access, cache, upset, switched>>
    <2>1. upset' \in BOOLEAN /\ (stored \in live' \/ stored = None \/ upset')
      BY <1>3, <1>q, <1>p DEF MobileInv, MobileTypeOK, StoredIsUsable, serverVars
    <2> QED  BY <1>3, <1>q, <1>p, <2>1, RefreshFailsKeeps
  <1> QED  BY <1>1, <1>2, <1>3 DEF RotateLoads

LEMMA RotateAnsweredKeeps ==
    ASSUME MobileInv, RotateAnswered
    PROVE  MobileInv'
  <1>q. /\ ops # <<>> /\ step = "transport" /\ Running("refresh") /\ MobileTypeOK /\ ServerTypeOK
        /\ result = stored /\ stored # None
    BY DEF RotateAnswered, Running, MobileInv, MobileTypeOK, StepOfOperation
  <1>1. CASE /\ Rotated(result)
             /\ result' = NextPair /\ step' = "persist"
             /\ UNCHANGED <<stored, access, status, user, ops, restoring, req, cache, upset,
                            switched>>
    <2>1. /\ PairsStay /\ Len(owner') = NextPair /\ owner'[NextPair] = owner[stored]
          /\ NextPair \in live' /\ NextPair # None
      BY <1>1, <1>q, RotatedPair
    <2>2. MobileTypeOK'
      <3>1. /\ stored \in 0..Len(owner') /\ access \in 0..Len(owner') /\ NextPair \in 0..Len(owner')
        BY <1>q, <2>1, TokenStays DEF MobileTypeOK, PairsStay
      <3> QED  BY <1>1, <1>q, <2>1, <3>1, RequestStatesGrow DEF MobileTypeOK, PairsStay
    <2>3. StepOfOperation' /\ StoredIsUsable'
      BY <1>1, <1>q, <2>1 DEF StepOfOperation, StoredIsUsable, Running
    <2>4. OneSession'
      BY <1>1, <1>q, <2>1, TokenStays DEF MobileInv, MobileTypeOK, OneSession, Running
    <2>5. OwnData'
      BY <1>1, <2>1, SameIdentity
    <2>6. GuestHoldsNothing'
      BY <1>1, <1>q DEF MobileInv, GuestHoldsNothing, Running
    <2> QED  BY <2>2, <2>3, <2>4, <2>5, <2>6 DEF MobileInv
  <1>2. CASE /\ Denied(result)
             /\ Forgets
             /\ UNCHANGED <<stored, status, user, ops, result, restoring, upset>>
    BY <1>2, <1>q, ServerAnswers, ForgettingKeeps
  <1>3. CASE /\ \/ Rotated(result) /\ upset' = TRUE
                \/ RotationDies(result) /\ upset' = TRUE
                \/ UNCHANGED <<serverVars, upset>>
             /\ RefreshFails([status |-> status, user |-> user])
             /\ UNCHANGED <<stored, access, cache, switched>>
    <2>1. PairsStay
      BY <1>3, <1>q, ServerAnswers DEF serverVars
    <2>2. upset' \in BOOLEAN /\ (stored \in live' \/ stored = None \/ upset')
      <3>1. CASE upset' = TRUE
        BY <3>1
      <3>2. CASE UNCHANGED <<serverVars, upset>>
        <4>1. upset' \in BOOLEAN /\ live' = live /\ upset' = upset
          BY <3>2, <1>q DEF MobileTypeOK, serverVars
        <4>2. stored \in live \/ upset
          BY <1>q DEF MobileInv, StoredIsUsable
        <4> QED  BY <4>1, <4>2
      <3> QED  BY <1>3, <3>1, <3>2
    <2> QED  BY <1>3, <1>q, <2>1, <2>2, RefreshFailsKeeps
  <1> QED  BY <1>1, <1>2, <1>3 DEF RotateAnswered

LEMMA AcceptedKeeps ==
    ASSUME MobileInv, Accepted
    PROVE  MobileInv'
  <1>q. /\ ops # <<>> /\ step = "persist" /\ MobileTypeOK /\ ServerTypeOK /\ result \in live
        /\ (Running("refresh") \/ Running("login"))
    BY DEF Accepted, Running, MobileInv, MobileTypeOK, StepOfOperation
  <1>n. result \in 1..Len(owner) /\ Len(owner) \in Nat /\ owner[result] \in Users
    BY <1>q DEF ServerTypeOK, Pairs
  <1>p. PairsStay /\ UNCHANGED <<owner, live, fresh>>
    BY <1>q, SameOwners DEF Accepted, serverVars
  <1>1. ops' \in Seq(Operations) /\ step' = "start" /\ result' = None
    <2>1. Done
      BY <1>q DEF Accepted, RefreshSucceeds
    <2> QED  BY <1>q, <2>1, QueueGrows DEF Done, MobileTypeOK
  <1>2. /\ req' \in [Requests -> RequestStates']
        /\ \A r \in Requests : req'[r].current =>
               \/ Running("refresh") /\ req'[r].token = result
               \/ req[r].current /\ req'[r].token = req[r].token
    <2>1. ASSUME Running("refresh") PROVE req' \in [Requests -> RequestStates]
      <3>1. \A r \in Requests : req'[r] \in {req[r], Sends(req[r], result), Resends(req[r], result)}
        BY <1>q, <2>1 DEF Accepted, RefreshSucceeds
      <3>2. \A r \in Requests : req[r] \in RequestStates
        BY <1>q DEF MobileTypeOK
      <3>3. req' = [r \in Requests |-> req'[r]]
        BY <1>q, <2>1 DEF Accepted, RefreshSucceeds
      <3>4. \A r \in Requests : req'[r] \in RequestStates
        BY <1>n, <3>1, <3>2, RequestSent
      <3> QED  BY <3>3, <3>4
    <2>2. ASSUME Running("refresh"), NEW r \in Requests, req'[r].current
          PROVE  req'[r].token = result \/ (req[r].current /\ req'[r].token = req[r].token)
      <3>1. req'[r] \in {req[r], Sends(req[r], result), Resends(req[r], result)}
        BY <1>q, <2>2 DEF Accepted, RefreshSucceeds
      <3>2. req[r] \in RequestStates
        BY <1>q DEF MobileTypeOK
      <3> QED  BY <1>n, <2>2, <3>1, <3>2, RequestSent
    <2>3. CASE ~Running("refresh")
      BY <1>q, <1>p, <2>3, RequestStatesGrow DEF Accepted, MobileTypeOK
    <2> QED  BY <1>p, <2>1, <2>2, <2>3, RequestStatesGrow
  <1>3. MobileTypeOK'
    <2>1. restoring' \in BOOLEAN
      BY <1>q DEF MobileTypeOK, Accepted, RefreshSucceeds
    <2>2. /\ stored' = result /\ access' = result /\ status' = "authenticated" /\ user' = owner[result]
          /\ UNCHANGED <<cache, upset, switched>>
      BY DEF Accepted
    <2> QED  BY <1>q, <1>n, <1>p, <1>1, <1>2, <2>1, <2>2 DEF MobileTypeOK, PairsStay, None
  <1>4. StepOfOperation' /\ OneSession' /\ StoredIsUsable' /\ GuestHoldsNothing'
    BY <1>q, <1>n, <1>p, <1>1
       DEF StepOfOperation, OneSession, StoredIsUsable, GuestHoldsNothing, Accepted, Running, None
  <1>5. OwnData'
    <2>1. CASE access = None
      <3>1. \A r \in Requests : req'[r].current => req'[r].token = result
        BY <1>2, <2>1 DEF MobileInv, OwnData
      <3> QED  BY <1>n, <1>p, <2>1, <3>1 DEF MobileInv, OwnData, Accepted, None
    <2>2. CASE access # None /\ ~switched
      <3>1. Running("refresh") /\ owner[result] = owner[access]
        BY <1>q, <2>2 DEF MobileInv, OneSession
      <3>2. \A r \in Requests : req'[r].current
              => req'[r].token # None /\ owner[req'[r].token] = owner[access]
        BY <1>n, <1>2, <2>2, <3>1 DEF MobileInv, OwnData, None
      <3> QED  BY <1>n, <1>p, <2>2, <3>1, <3>2 DEF MobileInv, OwnData, Accepted, None
    <2>3. CASE switched
      BY <1>n, <1>p, <2>3 DEF OwnData, Accepted, None
    <2> QED  BY <2>1, <2>2, <2>3
  <1> QED  BY <1>3, <1>4, <1>5 DEF MobileInv

LEMMA PersistFailsKeeps ==
    ASSUME MobileInv, PersistFails
    PROVE  MobileInv'
  <1>q. /\ ops # <<>> /\ step = "persist" /\ MobileTypeOK /\ ServerTypeOK /\ result \in live
        /\ (Running("refresh") \/ Running("login"))
    BY DEF PersistFails, Running, MobileInv, MobileTypeOK, StepOfOperation
  <1>p. PairsStay /\ UNCHANGED <<owner, live, fresh>>
    BY <1>q, SameOwners DEF PersistFails, serverVars
  <1>1. MobileTypeOK'
    BY <1>q, <1>p DEF MobileTypeOK, PersistFails, PairsStay, RequestStates
  <1>2. StepOfOperation' /\ OneSession' /\ StoredIsUsable' /\ GuestHoldsNothing'
    BY <1>q, <1>p DEF MobileInv, StepOfOperation, OneSession, StoredIsUsable, GuestHoldsNothing,
                      PersistFails, Running
  <1>3. OwnData'
    BY <1>p, SameIdentity DEF PersistFails
  <1> QED  BY <1>1, <1>2, <1>3 DEF MobileInv

LEMMA LogoutLoadsKeeps ==
    ASSUME MobileInv, LogoutLoads
    PROVE  MobileInv'
  <1>q. ops # <<>> /\ step = "start" /\ Running("logout") /\ MobileTypeOK /\ ServerTypeOK
    BY DEF LogoutLoads, Running, MobileInv, MobileTypeOK
  <1>p. PairsStay /\ UNCHANGED <<owner, live, fresh>>
    BY <1>q, SameOwners DEF LogoutLoads, serverVars
  <1>1. CASE stored # None /\ step' = "revoke" /\ result' = stored
             /\ UNCHANGED <<access, req, cache, switched>>
    <2>1. MobileTypeOK'
      BY <1>q, <1>p, <1>1 DEF MobileTypeOK, LogoutLoads, PairsStay, RequestStates
    <2>2. StepOfOperation' /\ OneSession' /\ StoredIsUsable' /\ GuestHoldsNothing'
      BY <1>q, <1>p, <1>1 DEF MobileInv, StepOfOperation, OneSession, StoredIsUsable,
                        GuestHoldsNothing, LogoutLoads, Running
    <2>3. OwnData'
      BY <1>p, <1>1, SameIdentity DEF LogoutLoads
    <2> QED  BY <2>1, <2>2, <2>3 DEF MobileInv
  <1>2. CASE Forgets /\ UNCHANGED result
    BY <1>2, <1>q, <1>p, ForgettingKeeps DEF LogoutLoads
  <1> QED  BY <1>1, <1>2 DEF LogoutLoads

LEMMA RevokeTriedKeeps ==
    ASSUME MobileInv, RevokeTried
    PROVE  MobileInv'
  <1>1. ops # <<>> /\ PairsStay
    BY ServerAnswers DEF RevokeTried, MobileInv, MobileTypeOK, StepOfOperation
  <1> QED  BY <1>1, ForgettingKeeps DEF RevokeTried

LEMMA ForgetRefusedKeeps ==
    ASSUME MobileInv, ForgetRefused
    PROVE  MobileInv'
  <1>q. ops # <<>> /\ step = "start" /\ MobileTypeOK /\ ServerTypeOK
    BY DEF ForgetRefused, Running, MobileInv, MobileTypeOK
  <1>p. PairsStay /\ live' = live
    BY <1>q, SameOwners DEF ForgetRefused, serverVars
  <1>1. CASE Forgets /\ UNCHANGED <<ops, result>>
    BY <1>1, <1>q, <1>p, ForgettingKeeps DEF ForgetRefused
  <1>2. CASE /\ Done /\ req' = [req EXCEPT ![Head(ops).r] = Idle]
             /\ UNCHANGED <<access, cache, switched>>
    <2>1. /\ req' \in [Requests -> RequestStates']
          /\ \A r \in Requests : req'[r].current => req[r].current /\ req'[r].token = req[r].token
      BY <1>2, <1>q, <1>p, RequestStatesGrow DEF MobileTypeOK, Idle
    <2>2. upset' \in BOOLEAN
      BY <1>q DEF ForgetRefused, MobileTypeOK
    <2> QED  BY <1>2, <1>q, <1>p, <2>1, <2>2, DoneKeeps DEF ForgetRefused
  <1> QED  BY <1>1, <1>2 DEF ForgetRefused

LEMMA RemovedKeeps ==
    ASSUME MobileInv, Removed
    PROVE  MobileInv'
  <1>q. /\ ops # <<>> /\ step = "remove" /\ access = None /\ MobileTypeOK /\ ServerTypeOK
        /\ cache = {} /\ \A r \in Requests : ~req[r].current
    BY DEF Removed, MobileInv, MobileTypeOK, StepOfOperation, OwnData
  <1>p. PairsStay /\ live' = live /\ UNCHANGED <<access, cache, switched>>
    BY <1>q, SameOwners DEF Removed, serverVars
  <1>1. PICK ok \in BOOLEAN :
          LET after == [status |-> IF ok THEN "guest" ELSE "unavailable", user |-> NoUser]
          IN  /\ stored' = InStore(ok)
              /\ upset' = (upset \/ ~ok)
              /\ IF Running("refresh")
                 THEN RefreshFails(after)
                 ELSE /\ Done
                      /\ status' = after.status /\ user' = after.user
                      /\ req' = IF Running("forget") THEN [req EXCEPT ![Head(ops).r] = Idle]
                                                     ELSE req
                      /\ UNCHANGED restoring
    BY DEF Removed
  <1>u. upset' \in BOOLEAN
    BY <1>1, <1>q DEF MobileTypeOK
  <1>2. /\ user' = NoUser
        /\ \/ status' = "guest" /\ stored' = None
           \/ status' = "unavailable" /\ stored' = None
           \/ status' = "unavailable" /\ stored' = stored /\ upset'
    BY <1>1 DEF InStore, RefreshFails
  <1>3. /\ ops' \in Seq(Operations) /\ step' = "start" /\ result' = None /\ restoring' \in BOOLEAN
    <2>1. CASE Running("refresh")
      <3>1. [kind |-> "refresh"] \in Operations
        BY DEF Operations
      <3> QED  BY <1>1, <1>q, <2>1, <3>1, QueueGrows DEF RefreshFails, MobileTypeOK
    <2>2. CASE ~Running("refresh")
      <3>1. Done /\ UNCHANGED restoring
        BY <1>1, <2>2
      <3> QED  BY <1>q, <3>1, QueueGrows DEF Done, MobileTypeOK
    <2> QED  BY <2>1, <2>2
  <1>4. req' \in [Requests -> RequestStates'] /\ \A r \in Requests : ~req'[r].current
    <2>1. CASE Running("refresh")
      <3>1. \A r \in Requests : /\ req[r] \in RequestStates
                                /\ [req[r] EXCEPT !.phase = "waitToken"] \in RequestStates
                                /\ ~[req[r] EXCEPT !.phase = "waitToken"].current
        <4>1. \A r \in Requests : req[r] \in RequestStates /\ ~req[r].current
          BY <1>q DEF MobileTypeOK
        <4>2. \A q \in RequestStates : ~q.current => ~[q EXCEPT !.phase = "waitToken"].current
          BY DEF RequestStates
        <4>3. Len(owner) \in Nat
          BY <1>p DEF PairsStay
        <4> QED  BY <4>1, <4>2, <4>3, RequestMoves
      <3>2. \A r \in Requests : req'[r] \in {req[r], [req[r] EXCEPT !.phase = "waitToken"], Idle}
        BY <1>1, <2>1 DEF RefreshFails
      <3>3. req' = [r \in Requests |-> req'[r]]
        BY <1>1, <2>1 DEF RefreshFails
      <3>4. \A r \in Requests : req'[r] \in RequestStates' /\ ~req'[r].current
        <4>1. Idle \in RequestStates' /\ ~Idle.current
          BY <1>p, RequestStatesGrow DEF Idle
        <4> QED  BY <1>q, <1>p, <3>1, <3>2, <4>1, RequestStatesGrow
      <3> QED  BY <3>3, <3>4
    <2>2. CASE ~Running("refresh")
      <3>1. req' = req \/ req' = [req EXCEPT ![Head(ops).r] = Idle]
        BY <1>1, <2>2
      <3> QED  BY <3>1, <1>q, <1>p, RequestStatesGrow DEF MobileTypeOK, Idle
    <2> QED  BY <2>1, <2>2
  <1>5. MobileTypeOK'
    <2>1. stored \in 0..Len(owner') /\ None \in 0..Len(owner')
      BY <1>q, <1>p, TokenStays DEF MobileTypeOK, PairsStay, None
    <2> QED  BY <1>q, <1>p, <1>u, <1>2, <1>3, <1>4, <2>1 DEF MobileTypeOK, PairsStay
  <1>6. StepOfOperation' /\ OneSession' /\ StoredIsUsable' /\ GuestHoldsNothing'
    BY <1>q, <1>p, <1>2, <1>3
       DEF StepOfOperation, OneSession, StoredIsUsable, GuestHoldsNothing, Running
  <1>7. OwnData'
    BY <1>q, <1>p, <1>2, <1>4 DEF OwnData
  <1> QED  BY <1>5, <1>6, <1>7 DEF MobileInv

\* Steps of the screens: they queue operations and send requests with the current token.
LEMMA ScreensKeep ==
    ASSUME MobileInv, fresh' \subseteq fresh, restoring' \in BOOLEAN,
           UNCHANGED <<owner, live, stored, access, status, user, step, result, upset, switched>>,
           ops' \in Seq(Operations), ops # <<>> => ops' # <<>> /\ Head(ops') = Head(ops),
           req' \in [Requests -> RequestStates],
           \A r \in Requests : req'[r].current =>
               \/ req[r].current /\ req'[r].token = req[r].token
               \/ access # None /\ req'[r].token = access,
           \/ cache' = cache
           \/ \E r \in Requests : /\ req[r].current /\ req[r].token \in Pairs
                                  /\ cache' = cache \union {owner[req[r].token]}
    PROVE  MobileInv'
  <1>q. MobileTypeOK /\ ServerTypeOK
    BY DEF MobileInv, MobileTypeOK
  <1>p. PairsStay
    BY <1>q, SameOwners
  <1>1. cache' \subseteq Users
    BY <1>q DEF MobileTypeOK, ServerTypeOK, Pairs
  <1>2. MobileTypeOK'
    BY <1>q, <1>p, <1>1, RequestStatesGrow DEF MobileTypeOK, PairsStay
  <1>3. StepOfOperation' /\ OneSession' /\ StoredIsUsable' /\ GuestHoldsNothing'
    BY DEF MobileInv, StepOfOperation, OneSession, StoredIsUsable, GuestHoldsNothing, Running
  <1>4. OwnData'
    BY DEF MobileInv, OwnData
  <1> QED  BY <1>2, <1>3, <1>4 DEF MobileInv

LEMMA OperationQueued ==
    ASSUME MobileInv, NEW x \in Operations, ops' = Append(ops, x) \/ ops' = WithRefresh(ops),
           restoring' \in BOOLEAN,
           UNCHANGED <<serverVars, stored, access, status, user, step, result, req, cache, upset,
                       switched>>
    PROVE  MobileInv'
  <1>1. ops' \in Seq(Operations) /\ (ops # <<>> => ops' # <<>> /\ Head(ops') = Head(ops))
    BY QueueGrows DEF MobileInv, MobileTypeOK
  <1>2. req' \in [Requests -> RequestStates]
    BY DEF MobileInv, MobileTypeOK
  <1> QED  BY <1>1, <1>2, ScreensKeep DEF serverVars

LEMMA StartRequestKeeps ==
    ASSUME MobileInv, NEW r \in Requests, StartRequest(r)
    PROVE  MobileInv'
  <1>q. MobileTypeOK /\ Len(owner) \in Nat /\ access \in 0..Len(owner) /\ restoring' \in BOOLEAN
    BY DEF MobileInv, MobileTypeOK, ServerTypeOK, StartRequest
  <1>1. PICK withSignal \in BOOLEAN :
          LET q == [Idle EXCEPT !.signal = withSignal]
          IN  req' = [req EXCEPT ![r] =
                IF status = "loading" THEN [q EXCEPT !.phase = "waitRestore"]
                ELSE IF access = None THEN [q EXCEPT !.phase = "waitToken"]
                ELSE Sends(q, access)]
    BY DEF StartRequest
  <1> DEFINE q == [Idle EXCEPT !.signal = withSignal]
  <1>2. /\ q \in RequestStates /\ ~q.current
        /\ \A ph \in {"waitRestore", "waitToken"} :
              [q EXCEPT !.phase = ph] \in RequestStates /\ ~[q EXCEPT !.phase = ph].current
    <2>1. Idle \in RequestStates /\ ~Idle.current
      BY <1>q DEF Idle, RequestStates, None
    <2>2. ASSUME NEW p \in RequestStates, ~p.current, NEW b \in BOOLEAN
          PROVE  [p EXCEPT !.signal = b] \in RequestStates /\ ~[p EXCEPT !.signal = b].current
      BY <2>2 DEF RequestStates
    <2>3. ASSUME NEW p \in RequestStates, ~p.current, NEW ph \in {"waitRestore", "waitToken"}
          PROVE  [p EXCEPT !.phase = ph] \in RequestStates /\ ~[p EXCEPT !.phase = ph].current
      BY <2>3 DEF RequestStates
    <2>4. q \in RequestStates /\ ~q.current
      BY <1>1, <2>1, <2>2
    <2> QED  BY <2>3, <2>4
  <1>3. Sends(q, access) \in RequestStates /\ Sends(q, access).token = access
    BY <1>q, <1>2, RequestSent
  <1>4. PICK n \in RequestStates : /\ req' = [req EXCEPT ![r] = n]
                                   /\ n.current => access # None /\ n.token = access
    BY <1>1, <1>2, <1>3
  <1>5. req' \in [Requests -> RequestStates] /\ req'[r] = n /\ \A s \in Requests \ {r} : req'[s] = req[s]
    BY <1>4, <1>q DEF MobileTypeOK
  <1>6. ops' \in Seq(Operations) /\ (ops # <<>> => ops' # <<>> /\ Head(ops') = Head(ops))
    <2>1. [kind |-> "refresh"] \in Operations
      BY DEF Operations
    <2> QED  BY <1>q, <2>1, QueueGrows DEF MobileTypeOK, StartRequest
  <1>7. \A s \in Requests : req'[s].current =>
               \/ req[s].current /\ req'[s].token = req[s].token
               \/ access # None /\ req'[s].token = access
    BY <1>4, <1>5
  <1> QED  BY <1>q, <1>5, <1>6, <1>7, ScreensKeep DEF StartRequest, serverVars

\* A request that is over, with or without an answer.
LEMMA RequestEnds ==
    ASSUME MobileInv, NEW r \in Requests, req' = [req EXCEPT ![r] = Idle],
           UNCHANGED <<serverVars, stored, access, status, user, ops, step, result, restoring, upset,
                       switched>>,
           \/ cache' = cache
           \/ /\ req[r].current /\ req[r].token \in Pairs
              /\ cache' = cache \union {owner[req[r].token]}
    PROVE  MobileInv'
  <1>q. MobileTypeOK /\ Idle \in RequestStates
    BY DEF MobileInv, MobileTypeOK, ServerTypeOK, Idle, RequestStates, None
  <1>1. req' \in [Requests -> RequestStates] /\ req'[r] = Idle /\ \A s \in Requests \ {r} : req'[s] = req[s]
    BY <1>q DEF MobileTypeOK
  <1>2. \A s \in Requests : req'[s].current => req[s].current /\ req'[s].token = req[s].token
    BY <1>1 DEF Idle
  <1>3. ops' \in Seq(Operations) /\ restoring' \in BOOLEAN
    BY <1>q DEF MobileTypeOK
  <1>4. cache' = cache \/ \E s \in Requests : /\ req[s].current /\ req[s].token \in Pairs
                                             /\ cache' = cache \union {owner[req[s].token]}
    OBVIOUS
  <1> QED  BY <1>1, <1>2, <1>3, <1>4, ScreensKeep DEF serverVars

LEMMA RefusedKeeps ==
    ASSUME MobileInv, NEW r \in Requests, Refused(r)
    PROVE  MobileInv'
  <1> DEFINE q == req[r]
  <1>q. /\ MobileTypeOK /\ Len(owner) \in Nat /\ access \in 0..Len(owner) /\ restoring' \in BOOLEAN
        /\ q \in RequestStates
    BY DEF MobileInv, MobileTypeOK, ServerTypeOK, Refused
  <1>1. CASE ~q.current
    <2>1. req' = [req EXCEPT ![r] = Idle] /\ UNCHANGED ops
      BY <1>1 DEF Refused
    <2> QED  BY <2>1, RequestEnds DEF Refused
  <1>2. CASE q.current
    <2>1. access # None
      BY <1>2 DEF MobileInv, OwnData
    <2>2. \E n \in RequestStates : /\ req' = [req EXCEPT ![r] = n]
                                   /\ \/ n.token = q.token
                                      \/ n.token = access
      <3>1. CASE req' = [req EXCEPT ![r].phase = "ending"]
        <4>1. req' = [req EXCEPT ![r] = [q EXCEPT !.phase = "ending"]]
          BY <3>1, <1>q DEF MobileTypeOK
        <4>2. [q EXCEPT !.phase = "ending"].token = q.token
          BY <1>q DEF RequestStates
        <4> QED  BY <4>1, <4>2, <1>q, RequestMoves
      <3>2. CASE req' = [req EXCEPT ![r].phase = "waitRetry"]
        <4>1. req' = [req EXCEPT ![r] = [q EXCEPT !.phase = "waitRetry"]]
          BY <3>2, <1>q DEF MobileTypeOK
        <4>2. [q EXCEPT !.phase = "waitRetry"].token = q.token
          BY <1>q DEF RequestStates
        <4> QED  BY <4>1, <4>2, <1>q, RequestMoves
      <3>3. CASE req' = [req EXCEPT ![r] = Resends(q, access)]
        <4>1. Resends(q, access) \in RequestStates /\ Resends(q, access).token = access
          BY <1>q, <1>2 DEF Resends, RequestStates
        <4> QED  BY <3>3, <4>1
      <3> QED  BY <1>2, <3>1, <3>2, <3>3 DEF Refused
    <2>3. PICK n \in RequestStates : /\ req' = [req EXCEPT ![r] = n]
                                     /\ \/ n.token = q.token
                                        \/ n.token = access
      BY <2>2
    <2>4. req' \in [Requests -> RequestStates] /\ req'[r] = n /\ \A s \in Requests \ {r} : req'[s] = req[s]
      BY <2>3, <1>q DEF MobileTypeOK
    <2>5. \A s \in Requests : req'[s].current =>
               \/ req[s].current /\ req'[s].token = req[s].token
               \/ access # None /\ req'[s].token = access
      BY <1>2, <2>1, <2>3, <2>4
    <2>6. ops' \in Seq(Operations) /\ (ops # <<>> => ops' # <<>> /\ Head(ops') = Head(ops))
      <3>1. [kind |-> "refresh"] \in Operations /\ [kind |-> "forget", r |-> r] \in Operations
        BY DEF Operations
      <3>2. \/ ops' = ops \/ ops' = WithRefresh(ops)
            \/ ops' = Append(ops, [kind |-> "forget", r |-> r])
        BY <1>2 DEF Refused
      <3> QED  BY <1>q, <3>1, <3>2, QueueGrows DEF MobileTypeOK
    <2> QED  BY <1>q, <2>4, <2>5, <2>6, ScreensKeep DEF Refused, serverVars
  <1> QED  BY <1>1, <1>2

LEMMA KilledKeeps ==
    ASSUME MobileInv, Killed
    PROVE  MobileInv'
  <1>q. MobileTypeOK /\ ServerTypeOK /\ Len(owner) \in Nat
    BY DEF MobileInv, MobileTypeOK, ServerTypeOK
  <1>p. PairsStay /\ UNCHANGED <<owner, live, fresh>>
    BY <1>q, SameOwners DEF Killed, serverVars
  <1>1. MobileTypeOK'
    <2>1. ops' \in Seq(Operations)
      <3>1. [kind |-> "refresh"] \in Operations
        BY DEF Operations
      <3> QED  BY <3>1 DEF Killed
    <2>2. req' \in [Requests -> RequestStates']
      BY <1>p, RequestStatesGrow DEF Killed
    <2>3. upset' \in BOOLEAN
      BY <1>q DEF Killed, MobileTypeOK
    <2>4. /\ stored' \in 0..Len(owner') /\ access' \in 0..Len(owner') /\ result' \in 0..Len(owner')
          /\ ServerTypeOK'
      BY <1>q, <1>p DEF Killed, MobileTypeOK, PairsStay, None
    <2>5. /\ status' = "loading" /\ user' = NoUser /\ step' = "start" /\ restoring' = TRUE
          /\ cache' = {} /\ switched' = FALSE
      BY DEF Killed
    <2> QED  BY <2>1, <2>2, <2>3, <2>4, <2>5 DEF MobileTypeOK
  <1>2. StepOfOperation' /\ OneSession' /\ OwnData' /\ GuestHoldsNothing'
    BY DEF Killed, StepOfOperation, OneSession, OwnData, GuestHoldsNothing, Idle
  <1>3. StoredIsUsable'
    BY <1>p DEF Killed, MobileInv, StoredIsUsable
  <1> QED  BY <1>1, <1>2, <1>3 DEF MobileInv

LEMMA MobileStepKeeps ==
    ASSUME MobileInv, [MobileNext]_mobileVars
    PROVE  MobileInv'
  <1>q. MobileTypeOK /\ ServerTypeOK
    BY DEF MobileInv, MobileTypeOK
  <1>1. ASSUME NEW u \in Users, Authenticate(u) PROVE MobileInv'
    <2>1. [kind |-> "login", who |-> u] \in Operations
      BY DEF Operations
    <2> QED  BY <1>1, <1>q, <2>1, OperationQueued DEF Authenticate, MobileTypeOK
  <1>2. CASE SignOut
    <2>1. [kind |-> "logout"] \in Operations
      BY DEF Operations
    <2> QED  BY <1>2, <1>q, <2>1, OperationQueued DEF SignOut, MobileTypeOK
  <1>3. CASE Reconnect
    <2>1. [kind |-> "refresh"] \in Operations
      BY DEF Operations
    <2> QED  BY <1>3, <1>q, <2>1, OperationQueued DEF Reconnect, MobileTypeOK
  <1>4. ASSUME NEW r \in Requests, Delivered(r) PROVE MobileInv'
    <2>1. req[r].token \in Pairs
      BY <1>4, <1>q DEF Delivered, ServerTypeOK
    <2> QED  BY <1>4, <2>1, RequestEnds DEF Delivered
  <1>5. ASSUME NEW r \in Requests, RequestFails(r) PROVE MobileInv'
    BY <1>5, RequestEnds DEF RequestFails
  <1>6. CASE (AccessExpires /\ UNCHANGED phoneVars) \/ UNCHANGED mobileVars
    <2>1. fresh' \subseteq fresh /\ UNCHANGED <<owner, live>> /\ UNCHANGED phoneVars
      BY <1>6 DEF AccessExpires, mobileVars, serverVars
    <2> QED  BY <1>q, <2>1, ScreensKeep DEF phoneVars, MobileTypeOK
  <1> QED  BY <1>1, <1>2, <1>3, <1>4, <1>5, <1>6, LoginAnsweredKeeps, RotateLoadsKeeps,
              RotateAnsweredKeeps, AcceptedKeeps, PersistFailsKeeps, LogoutLoadsKeeps,
              RevokeTriedKeeps, ForgetRefusedKeeps, RemovedKeeps, StartRequestKeeps, RefusedKeeps,
              KilledKeeps
           DEF MobileNext

LEMMA MobileStarts ==
    ASSUME MobileInit
    PROVE  MobileInv
  <1>1. ServerTypeOK /\ Len(owner) = 0 /\ None \in 0..Len(owner)
    BY DEF MobileInit, ServerInit, ServerTypeOK, Pairs, None
  <1>2. [kind |-> "refresh"] \in Operations /\ Idle \in RequestStates
    BY <1>1 DEF Operations, RequestStates, Idle
  <1>3. MobileTypeOK
    <2>1. ops \in Seq(Operations)
      BY <1>2 DEF MobileInit
    <2>2. req \in [Requests -> RequestStates]
      BY <1>2 DEF MobileInit
    <2>3. /\ stored = None /\ access = None /\ result = None /\ status = "loading" /\ user = NoUser
          /\ step = "start" /\ restoring = TRUE /\ cache = {} /\ upset = FALSE /\ switched = FALSE
      BY DEF MobileInit
    <2> QED  BY <1>1, <2>1, <2>2, <2>3 DEF MobileTypeOK
  <1>4. StepOfOperation /\ OneSession /\ OwnData /\ StoredIsUsable /\ GuestHoldsNothing
    BY DEF MobileInit, StepOfOperation, OneSession, OwnData, StoredIsUsable, GuestHoldsNothing, Idle
  <1> QED  BY <1>3, <1>4 DEF MobileInv

\* What the phone holds of private data belongs to the account it shows.
THEOREM PhoneKeepsPrivacy == MobileSpec => []PrivateDataIsOwn
  <1>1. MobileInv => PrivateDataIsOwn
    BY DEF MobileInv, OwnData, PrivateDataIsOwn
  <1> QED  BY <1>1, MobileStarts, MobileStepKeeps, PTL DEF MobileSpec

\* The phone never spends its own refresh token twice.
THEOREM PhoneKeepsItsToken == MobileSpec => []StoredIsUsable
  <1>1. MobileInv => StoredIsUsable
    BY DEF MobileInv
  <1> QED  BY <1>1, MobileStarts, MobileStepKeeps, PTL DEF MobileSpec

\* Only signing in opens a session after signing out.
THEOREM GuestsStayGuests == MobileSpec => SignedOutStays
  <1>1. ASSUME MobileInv, [MobileNext]_mobileVars
        PROVE  [status = "guest" /\ ~Running("login") => status' # "authenticated" /\ stored' = None]_mobileVars
    <2> SUFFICES ASSUME status = "guest", ~Running("login"), MobileNext
                 PROVE  status' # "authenticated" /\ stored' = None
      BY <1>1
    <2>1. stored = None /\ step # "persist" /\ step # "transport"
      BY <1>1 DEF MobileInv, GuestHoldsNothing, StepOfOperation
    <2>2. CASE Removed
      BY <2>1, <2>2 DEF Removed, InStore, RefreshFails
    <2>3. CASE RotateLoads
      BY <2>1, <2>3 DEF RotateLoads, RefreshFails
    <2> QED  BY <2>1, <2>2, <2>3
          DEF MobileNext, LoginAnswered, RotateAnswered, Accepted, PersistFails, LogoutLoads,
              RevokeTried, ForgetRefused, Authenticate, SignOut, Reconnect, StartRequest,
              Delivered, Refused, RequestFails, Killed, phoneVars
  <1> QED  BY <1>1, MobileStarts, MobileStepKeeps, PTL DEF MobileSpec, SignedOutStays

=============================================================================
