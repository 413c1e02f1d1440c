----------------------------- MODULE EntryForm ------------------------------
(***************************************************************************)
(* The form of the application on which a runner claims a place            *)
(* (features/events/RegisterScreen.tsx).  Three reads feed it while she    *)
(* fills it in: the race, her saved details and, every thirty seconds, the *)
(* places that are left.  What it sends may have to be sent again when the *)
(* category is busy.  RunnerPhone follows what becomes of the entry.       *)
(***************************************************************************)
EXTENDS Naturals

CONSTANTS
    Contents,   \* what the runner's details may be
    Distances,  \* categories of the race
    NoDistance, \* none is chosen
    Blank,      \* details not filled in, or not read
    Tries       \* attempts at a busy category (three)

ASSUME EntryFormAssumption ==
    NoDistance \notin Distances /\ Blank \notin Contents /\ Tries \in Nat \ {0}

VARIABLES
    warm,       \* the race was cached when the screen was opened
    raceRead,   \* event
    places,     \* what is left of a category at the service; closed counts as full
    everFull,   \* the categories that were full at some time
    seenPlaces, \* availability
    watch,      \* the answer of a read of the availability
    picked,     \* category
    takenBack,  \* the category of the notice "just filled up"
    kept,       \* the details the service holds
    keptAnew,   \* they were changed by another client since the screen was opened
    meData,     \* profile.data
    meAnswer,   \* the answer of a read of the profile
    values,     \* the fields
    retyped,    \* the runner has edited them since they were filled in
    editsLost,  \* her edits were overwritten by a read that was not the first
    claim       \* submit: what was confirmed and what is sent

raceVars == <<warm, raceRead, places, everFull, seenPlaces, watch, picked, takenBack>>
detailVars == <<kept, keptAnew, meData, meAnswer, values, retyped, editsLost>>
entryFormVars == <<raceVars, detailVars, claim>>

NoClaim == [at |-> "idle"]
NoWatch == [of |-> NoDistance]
Order == [distance : Distances \union {NoDistance}, details : Contents \union {Blank}]

EntryFormTypeOK ==
    /\ warm \in BOOLEAN /\ raceRead \in BOOLEAN
    /\ places \in [Distances -> {"open", "full"}] /\ everFull \subseteq Distances
    /\ seenPlaces \in [Distances -> {"open", "full", "unread"}]
    /\ watch \in {NoWatch} \union [of : Distances, as : {"open", "full"}]
    /\ {picked, takenBack} \subseteq Distances \union {NoDistance}
    /\ kept \in Contents /\ {meData, meAnswer, values} \subseteq Contents \union {Blank}
    /\ {keptAnew, retyped, editsLost} \subseteq BOOLEAN
    /\ claim \in {NoClaim} \union
           [at : {"asked", "busy", "refused", "entered"}, try : 1..Tries, confirmed : Order, sent : Order]

\* openCategories and the effect on it: a choice that is no longer offered is taken back.
\* Until the race is read nothing is offered.
Offered(c, read, seen) == c \in Distances /\ read /\ seen[c] # "full"

KeepsIfOffered(read, seen) ==
    IF picked = NoDistance \/ Offered(picked, read, seen)
    THEN UNCHANGED <<picked, takenBack>>
    ELSE picked' = NoDistance /\ takenBack' = picked

\* The screen is opened from the race's page, with a category or without, or by a link
\* before the race is read; then the effect takes a category in the link back.
EntryFormInit ==
    /\ warm \in BOOLEAN /\ raceRead = warm
    /\ places \in [Distances -> {"open", "full"}] /\ everFull = {c \in Distances : places[c] = "full"}
    /\ seenPlaces = [c \in Distances |-> "unread"] /\ watch = NoWatch
    /\ \E c \in Distances \union {NoDistance} :
          /\ picked = IF warm THEN c ELSE NoDistance
          /\ takenBack = IF warm THEN NoDistance ELSE c
    /\ kept \in Contents /\ keptAnew = FALSE
    /\ meData = Blank /\ meAnswer = Blank /\ values = Blank
    /\ retyped = FALSE /\ editsLost = FALSE
    /\ claim = NoClaim

-----------------------------------------------------------------------------
(* What goes on at the service. *)

\* others enter, withdraw or expire; the deadline passes; an organiser closes or opens
PlacesChange(c) ==
    /\ places' = [places EXCEPT ![c] = IF @ = "open" THEN "full" ELSE "open"]
    /\ everFull' = everFull \union {c}
    /\ UNCHANGED <<warm, raceRead, seenPlaces, watch, picked, takenBack, detailVars, claim>>

\* the runner saves other details on the web
DetailsChange ==
    /\ ~keptAnew /\ keptAnew' = TRUE
    /\ kept' \in Contents \ {kept}
    /\ UNCHANGED <<raceVars, meData, meAnswer, values, retyped, editsLost, claim>>

-----------------------------------------------------------------------------
(* The reads. *)

RaceArrives ==
    /\ ~raceRead /\ raceRead' = TRUE
    /\ KeepsIfOffered(TRUE, seenPlaces)
    /\ UNCHANGED <<warm, places, everFull, seenPlaces, watch, detailVars, claim>>

WatchHandled(c) ==
    /\ raceRead /\ watch = NoWatch
    /\ watch' = [of |-> c, as |-> places[c]]
    /\ UNCHANGED <<warm, raceRead, places, everFull, seenPlaces, picked, takenBack, detailVars, claim>>

\* also while an order is under way
WatchArrives ==
    /\ watch # NoWatch /\ watch' = NoWatch
    /\ seenPlaces' = [seenPlaces EXCEPT ![watch.of] = watch.as]
    /\ KeepsIfOffered(raceRead, seenPlaces')
    /\ UNCHANGED <<warm, raceRead, places, everFull, detailVars, claim>>

WatchLost ==
    /\ watch # NoWatch /\ watch' = NoWatch
    /\ UNCHANGED <<warm, raceRead, places, everFull, seenPlaces, picked, takenBack, detailVars, claim>>

MeHandled ==
    /\ meAnswer = Blank /\ meAnswer' = kept
    /\ UNCHANGED <<raceVars, kept, keptAnew, meData, values, retyped, editsLost, claim>>

\* Mutant: every answer fills the fields in.
RefillsAnyway(d) == TRUE

\* an answer with equal data keeps the object that the effect depends on
Refills(d) == d # meData

\* reset(profile.data); also while an order is under way
MeArrives ==
    /\ meAnswer # Blank /\ meAnswer' = Blank /\ meData' = meAnswer
    /\ IF Refills(meAnswer)
       THEN /\ values' = meAnswer /\ retyped' = FALSE
            /\ editsLost' = (editsLost \/ (retyped /\ meData # Blank))
       ELSE UNCHANGED <<values, retyped, editsLost>>
    /\ UNCHANGED <<raceVars, kept, keptAnew, claim>>

MeLost ==
    /\ meAnswer # Blank /\ meAnswer' = Blank
    /\ UNCHANGED <<raceVars, kept, keptAnew, meData, values, retyped, editsLost, claim>>

-----------------------------------------------------------------------------
(* What the runner does. *)

\* the fields and the categories are locked while an order is under way
TypesDetails(d) ==
    /\ raceRead /\ claim = NoClaim /\ d # values
    /\ values' = d /\ retyped' = TRUE
    /\ UNCHANGED <<raceVars, kept, keptAnew, meData, meAnswer, editsLost, claim>>

PicksDistance(c) ==
    /\ claim = NoClaim /\ c # picked /\ Offered(c, raceRead, seenPlaces)
    /\ picked' = c /\ takenBack' = NoDistance
    /\ UNCHANGED <<warm, raceRead, places, everFull, seenPlaces, watch, detailVars, claim>>

\* submit: the payload is put together before the first attempt
Claims ==
    /\ claim = NoClaim /\ raceRead /\ picked # NoDistance /\ values # Blank
    /\ LET order == [distance |-> picked, details |-> values]
       IN  claim' = [at |-> "asked", try |-> 1, confirmed |-> order, sent |-> order]
    /\ takenBack' = NoDistance
    /\ UNCHANGED <<warm, raceRead, places, everFull, seenPlaces, watch, picked, detailVars>>

\* The category is locked by somebody else's checkout, or the entry is refused.  When it is
\* taken the form gives way to the sheet or the wallet.
ClaimHandled ==
    /\ claim.at = "asked"
    /\ \E answer \in {"busy", "refused", "entered"} :
          /\ answer = "entered" => places[claim.sent.distance] = "open"
          /\ claim' = [claim EXCEPT !.at = answer]
    /\ UNCHANGED <<raceVars, detailVars>>

\* Mutant: an attempt sends what the form holds by then.
SentNow == [distance |-> IF picked = NoDistance THEN claim.sent.distance ELSE picked, details |-> values]

SentAgain == claim.sent

\* after a wait, unless it was the last attempt
TriesAgain ==
    /\ claim.at = "busy" /\ claim.try < Tries
    /\ claim' = [claim EXCEPT !.at = "asked", !.try = @ + 1, !.sent = SentAgain]
    /\ UNCHANGED <<raceVars, detailVars>>

ClaimRefused ==
    /\ claim.at \in {"refused", "busy"} /\ (claim.at = "busy" => claim.try = Tries)
    /\ claim' = NoClaim
    /\ takenBack' = NoDistance
    /\ UNCHANGED <<warm, raceRead, places, everFull, seenPlaces, watch, picked, detailVars>>

EntryFormNext ==
    \/ \E c \in Distances : PlacesChange(c) \/ WatchHandled(c) \/ PicksDistance(c)
    \/ DetailsChange \/ RaceArrives \/ WatchArrives \/ WatchLost
    \/ MeHandled \/ MeArrives \/ MeLost
    \/ \E d \in Contents : TypesDetails(d)
    \/ Claims \/ ClaimHandled \/ TriesAgain \/ ClaimRefused

EntryFormSpec == EntryFormInit /\ [][EntryFormNext]_entryFormVars

-----------------------------------------------------------------------------
\* Every attempt sends what the runner confirmed, though the fields may have been filled in
\* anew and her choice taken back since; what she typed is overwritten after the first read
\* only by details that were changed elsewhere; and she is told that a category has filled
\* up only if it had, unless the screen was opened before the race was read.
EntryFormIsTrue ==
    /\ claim # NoClaim => claim.sent = claim.confirmed
    /\ editsLost => keptAnew
    /\ takenBack # NoDistance => (takenBack \in everFull \/ ~warm)
=============================================================================
