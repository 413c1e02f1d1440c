-------------------------- MODULE RaceLiveActivity --------------------------
(***************************************************************************)
(* Following one race on the lock screen of a phone: the activities that   *)
(* ActivityKit shows (widgets/RaceLiveActivity), the service's records of  *)
(* them, and services/liveActivity, which starts and ends both and, each   *)
(* time the wallet reads what is followed, ends the activities that have   *)
(* no record.  The application may be killed at any time; activities,      *)
(* saved content and records survive it.                                   *)
(***************************************************************************)
EXTENDS FiniteSets

CONSTANTS
    Ids,        \* activities ActivityKit may create
    WalletReads,\* reads of getActive that may overlap: a query that is read again does
                \* not abort the read before it, which is given no signal
    NoId

ASSUME NoIdAssumption == NoId \notin Ids

VARIABLES
    running,    \* raceActivity.getInstances()
    saved,      \* activities whose content is in the key chain
    records,    \* the service's row of an activity
    start,      \* raceLiveActivity.start, if under way
    stop,       \* raceLiveActivity.end, if under way
    active,     \* getActive: the ids it captured, the answer, and whether a start began or
                \* ended since (startGeneration), or is under way (startsInFlight)
    listed,     \* useActiveLiveActivities: the record the wallet shows
    followed,   \* activities the runner was told she follows
    letGo       \* activities she has stopped or dismissed

followVars == <<running, saved, records, start, stop, active, listed, followed, letGo>>

NoStart == [at |-> "idle", id |-> NoId]
NoActive == [at |-> "idle", ids |-> {}, got |-> {}, disturbed |-> FALSE]
Fresh == {a \in Ids : records[a] = "none" /\ a \notin running}
ActiveRecords == {a \in Ids : records[a] = "active"}

FollowTypeOK ==
    /\ running \subseteq Ids /\ saved \subseteq Ids /\ followed \subseteq Ids /\ letGo \subseteq Ids
    /\ records \in [Ids -> {"none", "active", "ended"}]
    /\ start \in [at : {"idle", "saving", "posting", "accepted", "rejected"}, id : Ids \union {NoId}]
    /\ stop \in [at : {"idle", "native", "deleting"}, id : Ids \union {NoId}]
    /\ active \in [WalletReads -> [at : {"idle", "asked", "read"}, ids : SUBSET Ids,
                                   got : SUBSET Ids, disturbed : BOOLEAN]]
    /\ listed \in Ids \union {NoId}

FollowInit ==
    /\ running = {} /\ saved = {} /\ records = [a \in Ids |-> "none"]
    /\ start = NoStart /\ stop = NoStart
    /\ active = [g \in WalletReads |-> NoActive] /\ listed = NoId /\ followed = {} /\ letGo = {}

\* startGeneration moves when a start begins and when it ends
Disturbs ==
    active' = [g \in WalletReads |-> [active[g] EXCEPT !.disturbed = active[g] # NoActive]]

\* nativeBridge.end: the content is forgotten also when ActivityKit fails to end it
EndsNative(gone) ==
    /\ running' \in {running \ gone, running}
    /\ saved' = saved \ gone

-----------------------------------------------------------------------------
(* Follow. *)

\* onFollowLive: the wallet shows no record.  ActivityKit starts the activity, which is
\* visible at once; a device that cannot refuses and nothing is left.
Follows ==
    /\ listed = NoId /\ start = NoStart
    /\ \E a \in Fresh :
         /\ running' = running \union {a}
         /\ start' = [at |-> "saving", id |-> a]
    /\ Disturbs
    /\ UNCHANGED <<saved, records, stop, listed, followed, letGo>>

\* the content is saved, then the push token awaited for at most four seconds; an
\* activity whose content cannot be saved is ended, if ActivityKit does
SavesContent ==
    /\ start.at = "saving"
    /\ \/ /\ saved' = saved \union {start.id}
          /\ start' = [start EXCEPT !.at = "posting"]
          /\ UNCHANGED <<running, active>>
       \/ /\ running' \in {running \ {start.id}, running}
          /\ start' = NoStart /\ Disturbs
          /\ UNCHANGED saved
    /\ UNCHANGED <<records, stop, listed, followed, letGo>>

\* the service keeps one active record a race; the answer may be lost
PostsRecord ==
    /\ start.at = "posting"
    /\ \/ /\ ActiveRecords = {}
          /\ records' = [records EXCEPT ![start.id] = "active"]
          /\ start' \in {[start EXCEPT !.at = r] : r \in {"accepted", "rejected"}}
       \/ start' = [start EXCEPT !.at = "rejected"] /\ UNCHANGED records
    /\ UNCHANGED <<running, saved, stop, active, listed, followed, letGo>>

\* a rejected follow does not leave its activity behind, if ActivityKit ends it
StartReturns ==
    /\ start.at \in {"accepted", "rejected"}
    /\ IF start.at = "accepted"
       THEN followed' = followed \union {start.id} /\ UNCHANGED <<running, saved>>
       ELSE EndsNative({start.id}) /\ UNCHANGED followed
    /\ start' = NoStart /\ Disturbs
    /\ UNCHANGED <<records, stop, listed, letGo>>

-----------------------------------------------------------------------------
(* Unfollow, and what the device does by itself. *)

Unfollows ==
    /\ listed # NoId /\ stop = NoStart
    /\ stop' = [at |-> "native", id |-> listed]
    /\ letGo' = letGo \union {listed}
    /\ UNCHANGED <<running, saved, records, start, active, listed, followed>>

StopsNative ==
    /\ stop.at = "native"
    /\ EndsNative({stop.id})
    /\ stop' = [stop EXCEPT !.at = "deleting"]
    /\ UNCHANGED <<records, start, active, listed, followed, letGo>>

\* the record is ended even when the activity was not; the request may be lost
StopReturns ==
    /\ stop.at = "deleting"
    /\ \/ records' = [records EXCEPT ![stop.id] = "ended"]
       \/ UNCHANGED records
    /\ stop' = NoStart
    /\ UNCHANGED <<running, saved, start, active, listed, followed, letGo>>

\* the runner swipes the activity away
Dismisses ==
    /\ \E a \in running :
         /\ running' = running \ {a} /\ letGo' = letGo \union {a}
    /\ UNCHANGED <<saved, records, start, stop, active, listed, followed>>

\* the request that was on its way may have been carried out
AppDies ==
    /\ \/ UNCHANGED records
       \/ /\ start.at = "posting" /\ ActiveRecords = {}
          /\ records' = [records EXCEPT ![start.id] = "active"]
       \/ /\ stop.at = "deleting"
          /\ records' = [records EXCEPT ![stop.id] = "ended"]
    /\ start' = NoStart /\ stop' = NoStart
    /\ active' = [g \in WalletReads |-> NoActive] /\ listed' = NoId
    /\ UNCHANGED <<running, saved, followed, letGo>>

-----------------------------------------------------------------------------
(* getActive and reconcileOrphans. *)

\* the running activities are captured before the service is asked
ReadsActive(g) ==
    /\ active[g].at = "idle"
    /\ active' = [active EXCEPT ![g] = [at |-> "asked", ids |-> running, got |-> {},
                                        disturbed |-> FALSE]]
    /\ UNCHANGED <<running, saved, records, start, stop, listed, followed, letGo>>

ActiveHandled(g) ==
    /\ active[g].at = "asked"
    /\ active' = [active EXCEPT ![g].at = "read", ![g].got = ActiveRecords]
    /\ UNCHANGED <<running, saved, records, start, stop, listed, followed, letGo>>

\* Mutant: a start that began or ended since is not looked for.
UndisturbedAlways(g) == TRUE

Undisturbed(g) == start = NoStart /\ ~active[g].disturbed

Orphans(g) == IF Undisturbed(g) THEN active[g].ids \ active[g].got ELSE {}

\* the answer of an overtaken read is not shown, but its orphans are ended all the same
ActiveArrives(g) ==
    /\ active[g].at = "read"
    /\ EndsNative(Orphans(g))
    /\ listed' \in {listed} \union (IF active[g].got = {} THEN {NoId} ELSE active[g].got)
    /\ active' = [active EXCEPT ![g] = NoActive]
    /\ UNCHANGED <<records, start, stop, followed, letGo>>

ActiveLost(g) ==
    /\ active[g].at # "idle"
    /\ active' = [active EXCEPT ![g] = NoActive]
    /\ UNCHANGED <<running, saved, records, start, stop, listed, followed, letGo>>

FollowNext ==
    \/ Follows \/ SavesContent \/ PostsRecord \/ StartReturns
    \/ Unfollows \/ StopsNative \/ StopReturns \/ Dismisses \/ AppDies
    \/ \E g \in WalletReads : ReadsActive(g) \/ ActiveHandled(g) \/ ActiveArrives(g) \/ ActiveLost(g)

FollowSpec == FollowInit /\ [][FollowNext]_followVars

-----------------------------------------------------------------------------
\* An activity the runner was told she follows stays on her lock screen, with its content
\* and its record, until she stops or dismisses it: no clean-up that overlaps the start,
\* and none after the application was killed, takes it for an orphan.
FollowedStays ==
    \A a \in followed \ letGo : a \in running /\ a \in saved /\ records[a] = "active"
=============================================================================
