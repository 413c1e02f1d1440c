--------------------------- MODULE RefreshTokens ---------------------------
(***************************************************************************)
(* The part of the API that keeps sessions: pairs of a refresh token (a    *)
(* row of refresh_tokens) and an access token (a signed JWT that nobody    *)
(* can revoke).  Pairs are numbered in the order they are issued.  Both    *)
(* clients, MobileSession and BrowserSession, are built on this module.    *)
(*                                                                         *)
(* Rotation is two commits, the revocation and the insertion.  They are    *)
(* one step here (another request for the same token is refused after the  *)
(* first, and nothing else reads either), and a crash between them is the  *)
(* separate outcome RotationDies.                                          *)
(***************************************************************************)
EXTENDS Naturals, Sequences

CONSTANTS
    Users,      \* accounts that sign in
    PairBound   \* bound of the model: pairs issued in a behaviour

ASSUME PairBoundAssumption == PairBound \in Nat

VARIABLES
    owner,      \* the account of each issued pair
    live,       \* pairs whose refresh token is not revoked (a session is followed for
                \* less than the days after which a token lapses by itself)
    fresh       \* pairs whose access token has not expired

serverVars == <<owner, live, fresh>>

None == 0
Pairs == 1..Len(owner)
NextPair == Len(owner) + 1

ServerTypeOK ==
    /\ owner \in Seq(Users)
    /\ live \subseteq Pairs
    /\ fresh \subseteq Pairs

ServerInit ==
    /\ owner = <<>>
    /\ live = {}
    /\ fresh = {}

\* issueTokenPair for account u, after revoking the pairs in spent
IssuePair(u, spent) ==
    /\ Len(owner) < PairBound
    /\ owner' = Append(owner, u)
    /\ live' = (live \ spent) \union {NextPair}
    /\ fresh' = fresh \union {NextPair}

\* Refresh: the presented token is active, is revoked, and replaced
Rotated(n) ==
    /\ n \in live
    /\ IssuePair(owner[n], {n})

\* the insertion of the replacement fails after the revocation
RotationDies(n) ==
    /\ n \in live
    /\ live' = live \ {n}
    /\ UNCHANGED <<owner, fresh>>

Denied(n) ==
    /\ n \notin live
    /\ UNCHANGED serverVars

\* Mutant: signing out leaves the token active.
LeftActive(n) == UNCHANGED serverVars

\* Logout: revoking a token that is not active is a success too
Revoked(n) ==
    /\ live' = live \ {n}
    /\ UNCHANGED <<owner, fresh>>

\* the lifetime of an access token ends
AccessExpires ==
    \E n \in fresh :
        /\ fresh' = fresh \ {n}
        /\ UNCHANGED <<owner, live>>

=============================================================================
