----------------------------- MODULE MCSessions -----------------------------
(***************************************************************************)
(* Instances of the two clients of RefreshTokens.  A behaviour is that of  *)
(* one device, chosen at the start: the phone or the browser.  The other   *)
(* stays as it was installed.                                              *)
(***************************************************************************)
EXTENDS MobileSession, BrowserSession, TLC

VARIABLE device

sessionVars == <<mobileVars, browserVars, device>>

Init ==
    /\ MobileInit /\ BrowserInit
    /\ device \in {"phone", "browser"}

Next ==
    /\ device' = device
    /\ \/ device = "phone" /\ MobileNext /\ UNCHANGED browserVars
       \/ device = "browser" /\ BrowserNext /\ UNCHANGED phoneVars

Spec == Init /\ [][Next]_sessionVars

\* Nothing is claimed of a browser once two exchanges overlapped or one was cut off;
\* the phone, whose queue multiplies the states, gets a pair less.
Undisturbed == ~overlap /\ ~spoilt /\ (device = "phone" => Len(owner) < PairBound)

BothSides == Permutations(Users) \union Permutations(Requests) \union Permutations(Tabs)
                 \union Permutations(Calls)
=============================================================================
