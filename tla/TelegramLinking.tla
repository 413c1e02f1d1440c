-------------------------- MODULE TelegramLinking --------------------------
(***************************************************************************)
(* Connecting a runner's Telegram chat: the links and the connection the   *)
(* service keeps (internal/telegram), Telegram's webhook, which delivers a *)
(* "Start" again until it is answered, and the delivery section of the     *)
(* web's profile page, which asks for links, polls, and disconnects.       *)
(***************************************************************************)
EXTENDS Naturals, FiniteSets

CONSTANTS
    Links,      \* links that may be made
    NoLink,
    Polls       \* polls that may be under way: the timer does not wait for the last one

ASSUME LinkAssumption == NoLink \notin Links

VARIABLES
    linkToken,  \* the row of telegram_link_tokens
    connected,  \* the row of telegram_connections
    chosen,     \* its preference (one stands for three)
    made,       \* links handed out or on their way
    updates,    \* deliveries of the webhook under way, for each link
    connects,   \* how often a link has connected (a ghost)
    shownTg,    \* telegram: what the page shows
    timer,      \* telegramLinkExpiresAt is set
    link,       \* createTelegramLink
    cut,        \* disconnectTelegram
    prefs,      \* updateTelegramPreferences: the value before, and where it stands
    polls       \* getTelegramDelivery: the first read, and the polls

serviceVars == <<linkToken, connected, chosen, made, updates, connects>>
telegramVars == <<serviceVars, shownTg, timer, link, cut, prefs, polls>>

Readings == Polls \union {"load"}
Status == [connected |-> connected, chosen |-> connected => chosen]
NotAsked == [at |-> "idle", got |-> [connected |-> FALSE, chosen |-> TRUE]]

TgTypeOK ==
    LET Shown == [connected : BOOLEAN, chosen : BOOLEAN]
    IN  /\ linkToken \in Links \union {NoLink} /\ connected \in BOOLEAN /\ chosen \in BOOLEAN
        /\ made \subseteq Links /\ updates \subseteq Links
        /\ connects \in [Links -> Nat]
        /\ shownTg \in Shown /\ timer \in BOOLEAN
        /\ link \in {"idle", "asked", "made"} /\ cut \in {"idle", "asked", "done"}
        /\ prefs \in [at : {"idle", "asked", "read", "lost"}, was : BOOLEAN, got : Shown]
        /\ polls \in [Readings -> [at : {"idle", "asked", "read"}, got : Shown]]

TgInit ==
    /\ linkToken = NoLink /\ connected = FALSE /\ chosen = TRUE
    /\ made = {} /\ updates = {} /\ connects = [l \in Links |-> 0]
    /\ shownTg = [connected |-> FALSE, chosen |-> TRUE] /\ timer = FALSE
    /\ link = "idle" /\ cut = "idle"
    /\ prefs = [at |-> "idle", was |-> TRUE, got |-> NotAsked.got]
    /\ polls = [p \in Readings |-> IF p = "load" THEN [NotAsked EXCEPT !.at = "asked"] ELSE NotAsked]

-----------------------------------------------------------------------------
(* Telegram and the webhook. *)

\* the runner taps Start, or Telegram delivers it again because it was not answered, any
\* number of times
Starts(l) ==
    /\ l \in made /\ l \notin updates
    /\ updates' = updates \union {l}
    /\ UNCHANGED <<linkToken, connected, chosen, made, connects, shownTg, timer, link, cut, prefs, polls>>

\* Mutant: the link is looked up and not consumed.
WebhookKeepsLink(l) ==
    /\ l \in updates /\ updates' = updates \ {l}
    /\ \/ /\ linkToken = l /\ connected' = TRUE /\ chosen' = (connected => chosen)
          /\ connects' = [connects EXCEPT ![l] = @ + 1]
       \/ UNCHANGED <<connected, chosen, connects>>
    /\ UNCHANGED <<linkToken, made, shownTg, timer, link, cut, prefs, polls>>

\* Connect: the link is consumed and the chat stored in one transaction.  (An answer that
\* fails after it, because the greeting cannot be sent, is delivered again.)
Webhook(l) ==
    /\ l \in updates /\ updates' = updates \ {l}
    /\ \/ /\ linkToken = l /\ linkToken' = NoLink
          /\ connected' = TRUE /\ chosen' = (connected => chosen)
          /\ connects' = [connects EXCEPT ![l] = @ + 1]
       \* unknown, used, replaced or expired; or the transaction failed
       \/ UNCHANGED <<linkToken, connected, chosen, connects>>
    /\ UNCHANGED <<made, shownTg, timer, link, cut, prefs, polls>>

Expires ==
    /\ linkToken # NoLink /\ linkToken' = NoLink
    /\ UNCHANGED <<connected, chosen, made, updates, connects, shownTg, timer, link, cut,
                   prefs, polls>>

-----------------------------------------------------------------------------
(* The page. *)

ConnectTelegram ==
    /\ ~shownTg.connected /\ link = "idle" /\ cut = "idle"
    /\ link' = "asked"
    /\ UNCHANGED <<serviceVars, shownTg, timer, cut, prefs, polls>>

\* SaveLinkToken: a runner has one link, the last
LinkHandled ==
    /\ link = "asked"
    /\ \E l \in Links \ made :
         /\ linkToken' = l /\ made' = made \union {l}
         /\ link' \in {"made", "idle"}      \* or the answer is lost, and the link unknown
    /\ UNCHANGED <<connected, chosen, updates, connects, shownTg, timer, cut, prefs, polls>>

LinkArrives ==
    /\ link = "made" /\ link' = "idle" /\ timer' = TRUE
    /\ UNCHANGED <<serviceVars, shownTg, cut, prefs, polls>>

\* the poll runs while a link is open and nothing is connected, until the link expires
Polling(p) ==
    /\ timer /\ ~shownTg.connected /\ polls[p].at = "idle"
    /\ polls' = [polls EXCEPT ![p].at = "asked"]
    /\ UNCHANGED <<serviceVars, shownTg, timer, link, cut, prefs>>

StopsPolling ==
    /\ timer /\ timer' = FALSE
    /\ UNCHANGED <<serviceVars, shownTg, link, cut, prefs, polls>>

PollHandled(p) ==
    /\ polls[p].at = "asked"
    /\ polls' = [polls EXCEPT ![p] = [at |-> "read", got |-> Status]]
    /\ UNCHANGED <<serviceVars, shownTg, timer, link, cut, prefs>>

\* an answer is applied whenever it comes, also after the polling has stopped
PollArrives(p) ==
    /\ polls[p].at = "read"
    /\ shownTg' = polls[p].got
    /\ timer' = (timer /\ ~polls[p].got.connected)
    /\ polls' = [polls EXCEPT ![p] = NotAsked]
    /\ UNCHANGED <<serviceVars, link, cut, prefs>>

PollFails(p) ==
    /\ polls[p].at # "idle" /\ polls' = [polls EXCEPT ![p] = NotAsked]
    /\ UNCHANGED <<serviceVars, shownTg, timer, link, cut, prefs>>

DisconnectTelegram ==
    /\ shownTg.connected /\ link = "idle" /\ cut = "idle"
    /\ cut' = "asked"
    /\ UNCHANGED <<serviceVars, shownTg, timer, link, prefs, polls>>

DisconnectHandled ==
    /\ cut = "asked"
    /\ \/ connected' = FALSE /\ chosen' = TRUE /\ cut' \in {"done", "idle"}
       \/ cut' = "idle" /\ UNCHANGED <<connected, chosen>>
    /\ UNCHANGED <<linkToken, made, updates, connects, shownTg, timer, link, prefs, polls>>

DisconnectArrives ==
    /\ cut = "done" /\ cut' = "idle"
    /\ shownTg' = [shownTg EXCEPT !.connected = FALSE] /\ timer' = FALSE
    /\ UNCHANGED <<serviceVars, link, prefs, polls>>

\* the switch shows the new choice at once, and goes back when it could not be stored
UpdatePreference ==
    /\ shownTg.connected /\ prefs.at = "idle"
    /\ prefs' = [at |-> "asked", was |-> shownTg.chosen, got |-> NotAsked.got]
    /\ shownTg' = [shownTg EXCEPT !.chosen = ~@]
    /\ UNCHANGED <<serviceVars, timer, link, cut, polls>>

PreferenceHandled ==
    /\ prefs.at = "asked"
    /\ \/ /\ connected /\ chosen' = ~prefs.was
          /\ prefs' \in {[prefs EXCEPT !.at = "read", !.got = [connected |-> TRUE, chosen |-> chosen']],
                         [prefs EXCEPT !.at = "lost"]}
       \/ UNCHANGED chosen /\ prefs' = [prefs EXCEPT !.at = "lost"]
    /\ UNCHANGED <<linkToken, connected, made, updates, connects, shownTg, timer, link, cut, polls>>

PreferenceArrives ==
    /\ prefs.at \in {"read", "lost"}
    /\ shownTg' = IF prefs.at = "read" THEN prefs.got ELSE [shownTg EXCEPT !.chosen = prefs.was]
    /\ prefs' = [at |-> "idle", was |-> TRUE, got |-> NotAsked.got]
    /\ UNCHANGED <<serviceVars, timer, link, cut, polls>>

TgNext ==
    \/ \E l \in Links : Starts(l) \/ Webhook(l)
    \/ Expires
    \/ ConnectTelegram \/ LinkHandled \/ LinkArrives \/ StopsPolling
    \/ \E p \in Polls : Polling(p)
    \/ \E p \in Readings : PollHandled(p) \/ PollArrives(p) \/ PollFails(p)
    \/ DisconnectTelegram \/ DisconnectHandled \/ DisconnectArrives
    \/ UpdatePreference \/ PreferenceHandled \/ PreferenceArrives

TgSpec == TgInit /\ [][TgNext]_telegramVars

-----------------------------------------------------------------------------
\* A link connects a chat at most once, and only while it is the runner's last one: a Start
\* that Telegram delivers again, or an older link, does not connect a runner again who has
\* disconnected.
LinkConnectsOnce ==
    \A l \in Links : connects[l] <= 1 /\ (connects[l] = 1 => linkToken # l)
=============================================================================
