---------------------------- MODULE LiveUpdates ----------------------------
(***************************************************************************)
(* The realtime fan-out (realtime/server.mjs), and the two clients that    *)
(* listen to it: the web's SiteConfigProvider, which is sent each new      *)
(* version of the site's configuration, and the mobile application, which  *)
(* is only told that something has changed and reads it again.  Redis      *)
(* Pub/Sub and the sockets forget what nobody receives.  A version is known *)
(* by its stamp: updated_at is the time its transaction began, and two     *)
(* transactions may commit in the other order.                             *)
(***************************************************************************)
EXTENDS Naturals, Sequences

CONSTANT
    Versions,   \* versions of what is watched, beyond the first: a bound
    Refreshes   \* requests of getSiteConfig that may overlap: a bound

ASSUME VersionsAssumption == Versions \in Nat /\ Refreshes \in Nat \ {0}

VARIABLES
    client,     \* which client this is: "web" or "phone"
    begun,      \* transactions that have begun and not committed, by their stamps
    clock,      \* the last stamp that was given
    newest,     \* the version the service holds
    unpublished,\* versions stored and not yet published
    relay,      \* the fan-out: down, deaf (its Redis subscription is broken) or listening
    socketUp,   \* the client's socket is connected
    wire,       \* what the socket carries
    reading,    \* reads of the client: refresh, or the fetch of the query
    shown,      \* the version the client shows (0 is the default configuration, or no data)
    stale,      \* the data of the query was invalidated
    watched,    \* a screen observes the query
    failed      \* something was lost since the socket connected

siteVars == <<begun, clock, newest>>
liveVars == <<client, siteVars, unpublished, relay, socketUp, wire, reading, shown, stale,
              watched, failed>>

\* the versions that were stored, the first among them
Committed == (1..clock) \ begun

Slots == 1..Refreshes
NoRead == [at |-> "idle", got |-> 0]
Asked == [at |-> "asked", got |-> 0]
NothingRead == [s \in Slots |-> NoRead]
Quiet == wire = <<>> /\ unpublished = {} /\ reading = NothingRead

LiveTypeOK ==
    LET Held == 1..(Versions + 1)
    IN  /\ client \in {"web", "phone"} /\ newest \in Held /\ unpublished \subseteq Held
        /\ begun \subseteq Held /\ clock \in Held /\ stale \in BOOLEAN
        /\ relay \in {"down", "deaf", "listening"} /\ socketUp \in BOOLEAN
        /\ wire \in Seq(Held) /\ shown \in Held \union {0}
        /\ reading \in [Slots -> [at : {"idle", "asked", "read"}, got : Held \union {0}]]
        /\ watched \in BOOLEAN /\ failed \in BOOLEAN

\* the page is loaded, or the application started on a screen that reads
LiveInit ==
    /\ client \in {"web", "phone"}
    /\ begun = {} /\ clock = 1 /\ newest = 1 /\ unpublished = {}
    /\ relay = "down" /\ socketUp = FALSE /\ wire = <<>>
    /\ reading = [NothingRead EXCEPT ![1] = Asked] /\ shown = 0 /\ stale = FALSE
    /\ watched = TRUE /\ failed = FALSE

\* Mutant: the version that arrives last is shown.
ApplyLatest(v) == v

\* applyConfig: a version older than the one that is shown is ignored
ApplyConfig(v) == IF shown > v THEN shown ELSE v

-----------------------------------------------------------------------------
(* The service and the fan-out. *)

\* The row of the settings is locked by the update, which comes after the stamp.
SaveBegins ==
    /\ clock <= Versions
    /\ clock' = clock + 1 /\ begun' = begun \union {clock + 1}
    /\ UNCHANGED <<client, newest, unpublished, relay, socketUp, wire, reading, shown, stale,
                   watched, failed>>

SaveCommits(v) ==
    /\ v \in begun /\ begun' = begun \ {v}
    /\ newest' = v /\ unpublished' = unpublished \union {v}
    /\ UNCHANGED <<client, clock, relay, socketUp, wire, reading, shown, stale, watched, failed>>

\* After the commit; two requests may publish in either order.  A publication that fails
\* is logged and forgotten.
Publishes(v) ==
    /\ v \in unpublished /\ unpublished' = unpublished \ {v}
    /\ \/ relay = "listening" /\ socketUp /\ wire' = Append(wire, v) /\ UNCHANGED failed
       \/ ~socketUp /\ UNCHANGED <<wire, failed>>
       \/ socketUp /\ failed' = TRUE /\ UNCHANGED wire
    /\ UNCHANGED <<client, siteVars, relay, socketUp, reading, shown, stale, watched>>

\* The fan-out accepts clients only once it is subscribed.
RelayStarts ==
    /\ relay = "down" /\ relay' = "listening"
    /\ UNCHANGED <<client, siteVars, unpublished, socketUp, wire, reading, shown, stale, watched,
                   failed>>

RelayStops ==
    /\ relay # "down" /\ relay' = "down"
    /\ socketUp' = FALSE /\ wire' = <<>>
    /\ UNCHANGED <<client, siteVars, unpublished, reading, shown, stale, watched, failed>>

\* its subscription breaks and is made again; clients stay connected and are not told
RelayTurns ==
    /\ \/ relay = "listening" /\ relay' = "deaf"
       \/ relay = "deaf" /\ relay' = "listening"
    /\ UNCHANGED <<client, siteVars, unpublished, socketUp, wire, reading, shown, stale, watched,
                   failed>>

-----------------------------------------------------------------------------
(* The clients. *)

\* invalidateQueries: the data is stale, and is read again when a screen observes it.  A read
\* that is on its way starts over, unless it is the first, which goes on.
Invalidates ==
    /\ stale' = TRUE
    /\ reading' = IF ~watched \/ (shown = 0 /\ reading # NothingRead) THEN reading
                  ELSE [NothingRead EXCEPT ![1] = Asked]

\* what the first read was answered with no longer follows from the signals
FirstReadMisses == client = "phone" /\ watched /\ shown = 0 /\ reading[1].at = "read"

\* the socket (re)connects, and on the phone when the application is in front again
Connects ==
    /\ ~socketUp /\ relay # "down"
    /\ socketUp' = TRUE /\ failed' = FirstReadMisses
    /\ \/ client = "phone" /\ Invalidates
       \/ /\ client = "web" /\ UNCHANGED stale
          /\ \E s \in Slots : reading[s] = NoRead /\ reading' = [reading EXCEPT ![s] = Asked]
    /\ UNCHANGED <<client, siteVars, unpublished, relay, wire, shown, watched>>

Disconnects ==
    /\ socketUp /\ socketUp' = FALSE /\ wire' = <<>>
    /\ UNCHANGED <<client, siteVars, unpublished, relay, reading, shown, stale, watched, failed>>

\* "site-config:updated" carries the version, "events:changed" says that there is one
Delivers ==
    /\ wire # <<>> /\ wire' = Tail(wire)
    /\ \/ client = "web" /\ shown' = ApplyConfig(Head(wire)) /\ UNCHANGED <<reading, stale>>
       \/ client = "phone" /\ Invalidates /\ UNCHANGED shown
    /\ failed' = (failed \/ FirstReadMisses)
    /\ UNCHANGED <<client, siteVars, unpublished, relay, socketUp, watched>>

ReadHandled(s) ==
    /\ reading[s] = Asked
    /\ reading' = [reading EXCEPT ![s] = [at |-> "read", got |-> newest]]
    /\ UNCHANGED <<client, siteVars, unpublished, relay, socketUp, wire, shown, stale, watched,
                   failed>>

ReadArrives(s) ==
    /\ reading[s].at = "read"
    /\ shown' = IF client = "web" THEN ApplyConfig(reading[s].got) ELSE reading[s].got
    /\ reading' = [reading EXCEPT ![s] = NoRead] /\ stale' = FALSE
    /\ UNCHANGED <<client, siteVars, unpublished, relay, socketUp, wire, watched, failed>>

\* a refresh that fails is not tried again before the next connection
ReadLost(s) ==
    /\ reading[s] # NoRead /\ reading' = [reading EXCEPT ![s] = NoRead]
    /\ failed' = TRUE
    /\ UNCHANGED <<client, siteVars, unpublished, relay, socketUp, wire, shown, stale, watched>>

\* A screen of the phone stops observing the query, which aborts its read, or observes it
\* again: data that is stale, or past its staleTime, or was never read is read.
Watches ==
    /\ client = "phone" /\ watched' = ~watched
    /\ reading' \in {[NothingRead EXCEPT ![1] = r] : r \in {NoRead, Asked}}
    /\ watched => reading' = NothingRead
    /\ ~watched /\ (stale \/ shown = 0) => reading' # NothingRead
    /\ UNCHANGED <<client, siteVars, unpublished, relay, socketUp, wire, shown, stale, failed>>

LiveNext ==
    \/ SaveBegins \/ (\E v \in begun : SaveCommits(v)) \/ (\E v \in unpublished : Publishes(v))
    \/ RelayStarts \/ RelayStops \/ RelayTurns
    \/ Connects \/ Disconnects \/ Delivers \/ Watches
    \/ \E s \in Slots : ReadHandled(s) \/ ReadArrives(s) \/ ReadLost(s)

LiveSpec == LiveInit /\ [][LiveNext]_liveVars

-----------------------------------------------------------------------------
\* A client that is connected, on which nothing is on its way and for which nothing failed
\* since it connected, shows the version that is stored, whatever was stored while it was
\* offline or while it read, and in whatever order publications and answers reached it.  Only
\* after transactions that committed against their stamps may a browser show another one: a
\* version that was stored, and overwritten by one with an earlier stamp.
ConnectedIsCurrent ==
    socketUp /\ watched /\ Quiet /\ ~failed =>
        \/ shown = newest
        \/ client = "web" /\ shown > newest /\ shown \in Committed
=============================================================================
