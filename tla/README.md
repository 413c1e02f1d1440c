# Unity Runn Club: a TLA+ verification

Unity Runn Club sells places in running events. A Go backend (`src/backend`), run as two API replicas and one
worker process behind a proxy, keeps everything that matters in PostgreSQL (READ COMMITTED, through PgBouncer)
and uses Redis, without persistence, for locks, caches, rate limits and a wake-up queue. A Next.js site
(`src/frontend`), an Expo application (`src/mobile`) and a Socket.IO fan-out (`src/realtime`) are its clients.

Nothing in the backend is held in a process's memory between requests: every handler is a sequence of short
transactions, Redis commands and calls of a payment provider, and what one step has read the next one acts on. The
clients are the other way round: each holds copies of what the service has, asks without waiting, and is answered
late, out of order or not at all. Those two are where the system is hard, and what this project models: the
interleavings, failures and timeouts between the steps of the backend, and what the screens of the clients claim
while answers, signals and reloads cross. TLC checks the models; TLAPS proves the central ones for every number of
users, requests and messages.

## 1. The system and what is modelled

| Component | State | Operations | Here |
|---|---|---|---|
| Registration tables, `registrations/repository.go` | registrations, payments (with a reconciler lease), tickets, check-ins, capacities | each transaction | `RegistrationStore`, `SeatLedger` |
| Registration and payment handlers, `registrations/service.go` | none; per request what it has read | Register, Cancel, VerifyPayment, SubmitManualPayment, ReviewManualPayment | `RegistrationService` |
| Payment reconciler | its claimed batch | claim, poll, expire, confirm, reschedule | `RegistrationService`, `MCWorkers` |
| Registration lock, idempotency records, check-in | a Redis key per category; outcomes by user and key; check-in rows | lock, release; look up, store, prune; check in | `RegistrationService` |
| Payment providers, `payments/` | what the bank knows | CreatePayment, GetPaymentStatus | `RegistrationService` (partly) |
| E-mail outbox, Telegram deliveries, `notifications/` | rows, a Redis list, leases | enqueue, pop, sweep, claim, send, record, retry | `MailOutbox`, `TelegramOutbox` |
| Event automations, `eventautomations/` | automation rows with a lease | draft, edit, cancel, claim, fan out | `EventAutomations` |
| Sessions and roles, `auth/`, `mobile/services/auth`, `frontend/src/lib/api.ts` | refresh tokens, cookies, stored tokens, claims | sign in, rotate, sign out, change a role | `RefreshTokens`, `MobileSession`, `BrowserSession`, `TeamAccess` |
| Telegram linking, `telegram/` | links, connections | create, use, disconnect, poll | `TelegramLinking` |
| Live activities, `liveactivities/`, `mobile/services/liveActivity` | records, activities on the device | follow, stop, clean up | `RaceLiveActivity` |
| Site configuration and realtime fan-out, `siteconfig/`, `realtime/` | the live design and its versions; signals | publish, restore; signal, re-read | `SiteDesk`, `LiveUpdates` |
| Runners' web pages | forms, a payment sheet, filters | enter, pay, cancel, reopen; edit; filter | `RunnerWeb`, `Checkout`, `EntryApi`, `RunnerCard`, `RaceCalendar` |
| Mobile application | cached queries, a payment sheet | enter, pay, withdraw; list; edit | `RunnerPhone`, `EntryForm`, `RaceTimeline` and the shared ones |
| Admin pages | copies of lists and forms | set up, edit, publish, review, check in, assign, retry, look up | `EventWizard`, `EventEditor`, `SiteDesk`, `RaceDesk`, `TeamAccess`, `RosterDesk`, `GateDesk`, `SignalDesk`, `AuditTrail` |
| Event and category administration, `events/` | events, categories, prices | create, change, delete | as the registrations and the admin pages meet it |
| Availability cache, reminders and event notices, statistics, metrics, HTTP, configuration, rendering, storage | | | not modelled (section 7) |

How the parts interact: handlers and the reconciler share only the tables, the lock and the idempotency records;
the winner of a confirmation calls the notifier after its commit; the notifier inserts a notification and a
Telegram delivery in one transaction and pushes the notification's id to Redis; the mail worker, the Telegram
worker and the automation scheduler work on those rows, each in a loop of the worker process. After a commit the
service publishes a coarse "changed" signal, which Redis and the socket server may lose; a client that hears it
reads again. Clients meet only in the service.

For each part, what makes it correct:

* tables: no category sold past its capacity, one active place per runner and event, tickets exactly for the
  registrations that were confirmed, confirmed priced places paid, no seat revived;
* handlers and reconciler: they change the tables only by those transactions; a payment that settled in time is
  not thrown away; confirmations are announced once; a reservation does not hold its seat for ever; a stored
  outcome is not replaced; nobody without a ticket is let in;
* outboxes and automations: nothing is sent twice without a recorded reason, recorded outcomes stand, and every
  row reaches an outcome although Redis forgets, processes die and leases lapse;
* sessions: an account's private data is shown to that account only, nothing reopens a session that was closed, and
  no client spends the token it will need after the next start;
* screens: a payment sheet says nothing that is untrue of its entry and ends up saying how it ended; what a page
  says is saved, or shows when it is at rest, is what the service has; a link connects one chat; a ticket hands
  out one kit; an activity the runner follows is not cleaned away.

`PROJECT.json` lists the hazards of the code line by line, each with the properties aimed at it.

## 2. The modules and how they correspond to the code

### The backend

**`RegistrationStore`** has one action per committed transaction of `repository.go`, with the name of its function.
`reg`, `pay`, `tickets`, `checkIns` and `capacity` are the tables, indexed by registration; a row keeps the columns the
transactions test. Time is three facts about a payment instead of a clock: `lapsed` (`expires_at` has passed), `leased`
(`reconcile_lease_until` is ahead) and `later` (`reconcile_after` is ahead); `PaymentLapses`, `LeaseEnds` and
`ReconcileDue` let them change at any moment. `Create` counts and inserts while it holds the category row `FOR UPDATE`;
the partial unique index of migration 18 is its conjunct `NotRegistered`. The sweep runs two statements, which see
different snapshots (READ COMMITTED): `SweepBegins` picks and locks the registrations of the lapsed payments (`due`),
`SweepCommits` fails those payments that are still pending and shows both results, and `SweepRollsBack` is an error or a
crash between them. What needs one of the locked rows waits (`Locked`); `SubmitManualPayment` needs none and may fall
between. Left out: registration numbers, amounts (a wrong amount appears as the bank's answer), and price edits
(`FreeCategories` is constant).

**`SeatLedger`** is the abstract specification: for each category a set of holders, some confirmed, with Take,
Confirm, Release, Expire and Resize. The refinement mapping, `Ledger`, is at the end of `RegistrationStore`.

**`RegistrationService`** extends the store. `call[k]` is a request in flight, on any API process: its `pc` names the
next step and its other fields what it has read. Each step is one database transaction, one Redis command or one
provider call, in the code's order: `RegisterLookup` (idempotent replay), `RegisterSweep` and `RegisterExpires` (the
sweep's two statements), `RegisterCheck`, `RegisterLock`, then `RegisterFree`, or `RegisterReserve`, `RegisterCheckout`,
`RegisterInsert` / `RegisterSettle` and, if they fail, `RegisterUndo`; `RegisterRecord` stores the outcome and
`RegisterFinish` runs the deferred release. `Cancel*`, `CheckIn*`, `Verify*`, `Submit*` and `Review*` are split the same
way between what they read and what they write. `job[w]` is a reconciler pass. `bank` is what the payment provider would
answer, `provider` which one is configured. Failures are actions enabled by the constant `Faults`: a request that errs
or whose process dies (`CallFails`), a dying worker (`WorkerCrashes`), a provider outage, database and Redis errors at
the steps whose error paths matter, and a redeployment with another provider. `onTime`, `keyOf` and `notices` are
history variables. A rate-limit refusal and every 4xx without effect are the "return" alternative of a step.

**`WorkerLoop`** declares what the loops of the worker process share. **`MailOutbox`**: `Enqueue` is
`Repository.Create` with its dedup index, `Push` the LPUSH after it (which may never happen), `MailPop` and
`MailSweep` the two ways the worker finds work, `MailLoad` the second look at the status, `MailSend` the SMTP
exchange with its three outcomes (accepted, refused, accepted but reported as an error), `MailSent` and
`MailFailed` the two unguarded updates. **`TelegramOutbox`** models the deliveries the same transaction inserts:
`TelegramClaim` leases a batch that `TelegramNext`, `TelegramSend` and `TelegramRecord` then work through;
`LeaseLapses` may come at any moment, for the code never renews. **`EventAutomations`** models the administrator's
edits (guarded by status), the claim, the one listing of confirmed runners, one `Announce` per runner and the two
unguarded final writes. **`MCWorkers`** puts the reconciler and the three loops into one run; they share no row, so a
behaviour follows one of them.

### Sessions and roles

**`RefreshTokens`** is the part of the API that keeps pairs of a refresh and an access token: rotation revokes and
inserts, and may die in between (`RotationDies`). **`MobileSession`** is the `Session` class: its operations run one
after the other, each split where it awaits (exchange, persist, revoke, remove), beside protected requests whose
answers fill the query cache; the application may be killed anywhere and restarted from what is stored.
**`BrowserSession`** has tabs with their own access token and one cookie for all, read when a request leaves and
written when its answer arrives, with reloads that cut an exchange off and other tabs that sign in and out.
**`TeamAccess`** has the stored roles, the tokens that claim them until they expire, and the page that changes them.

### The runner's clients

**`EntryApi`** is the registration service as a client sees it, one step per request, and **`Checkout`** the payment
sheet that web and phone share. **`RunnerWeb`** opens it from the form and the dashboard, **`RunnerPhone`** from the
form, the entry and the wallet, over two cached queries that mutations and signals invalidate. **`EntryForm`** is the
phone's form itself: three reads (race, availability, profile) fill it while it is edited, and a busy attempt is
repeated. **`RaceTimeline`** is the list that is read page by page while pages shift. **`RunnerCard`** is the runner's
card on both clients (a save whose page is left goes on, and may be stored after the next page has read the profile:
`LeftSaveStored`), **`RaceCalendar`** the filters that live in the address, **`TelegramLinking`** the service's
links with the profile page that polls, and **`RaceLiveActivity`** the activities on the phone, their records and the
clean-up of orphans. **`LiveUpdates`** follows a publication over Redis and the socket to a browser, which compares
stamps, and to a phone, which reads again.

### The admin pages

Each page is modelled as a client with requests under way, each of which is handled by the service in one action and
answered in another, or lost. **`EventWizard`** (setting up an event, with the poster and with a draft that all tabs of
the browser keep and write without looking at it: one tab is followed through everything it does, another one,
`otherTab`, through what it does to the shared draft and to the stored events), **`EventEditor`** (panels that patch
their copy with the answers), **`SiteDesk`** (the public site: edits, uploads by slide position, publications,
restorations and the ledger of versions), **`RaceDesk`** (the list by tab, deletion of drafts in two statements),
**`RosterDesk`** (filters with their timer, next page, the drawer and the review of transfers), **`GateDesk`** (check-in
stations and scans), **`SignalDesk`** (the board of Telegram messages and its retries) and **`AuditTrail`** (the log by
type). **`MCClients`** puts the phone, the live views, the forms and the desks into one run, of which a behaviour
follows one part.

Operators whose comment starts with "Mutant" are deliberately wrong variants of the definition that follows them, used
to show that the properties can fail. A compound property of `MCClients` has one of them in `PROJECT.json`; the other
conjuncts keep theirs beside the definition they vary, and each was seen to break its conjunct.

## 3. The runs

| Run | Question | Size (distinct states) |
|---|---|---|
| `RegistrationTables` | Do the transactions, in any order, keep the table invariants and implement the ledger? | 2 runners, 2 rows, priced and free category, capacity 0..1, manual and Bakong; 449,860 |
| `RegisterRaces` | Two registrations and cancellations, also under one idempotency key, with lock timeouts, crashes and failing Redis and database: do they implement the store, keep the lock honest and the outcomes? | 2 requests, 1 runner, 2 rows; 371,452 |
| `PaymentRaces` | Requests and two reconcilers on one Bakong payment, outages and wrong amounts: is it announced exactly once, never expired once settled, and is each lease exclusive? | 2 requests, 2 workers; 737,195 |
| `AllOperations` | Every operation and every fault, including reviews of manual transfers and a change of provider | 2 requests, 1 worker, 1 row; 848,680 |
| `WorkersSettle` | Each loop of the worker process: does every reservation end, every timely transfer get settled, every message and automation reach an outcome, and is nothing sent twice? | 1 request and 1 reconciler, 2 notifications, 2 deliveries, 1 automation with 2 runners; 34,018 |
| `Sessions` | The phone's session and two browser tabs, with lost answers, kills, reloads and other accounts | 2 accounts, 3 token pairs, 2 protected requests, 2 tabs; 1.68 million |
| `Checkouts` | The web's payment sheet: is what it says true, and does it end up saying how the payment ended? | 2 races, 1 submission, 2 requests; 383,211 |
| `Clients` | The phone, the live views, the forms and the desks: do they show what the service has? | see below; 2.17 million |
| `SweepExpiresSettled`, `CancelCheckedIn`, `ErrorLeavesReservation`, `TelegramOverlap` | Four statements of the documentation the code does not keep (section 6) | counterexamples |

What the three client runs say, property by property:

* `PrivateDataIsOwn`, `StoredIsUsable`, `SignedOutStays` (phone): the cache holds data of the account shown only; a
  stored token is valid unless an exchange was cut off; after a sign-out only a sign-in opens a session.
* `SessionSurvivesReload`, `OnlySpentCookiesAreDeleted` (browser): a tab at rest can be reloaded, and no cookie that is
  still good is deleted, unless exchanges of two tabs overlapped or one was cut off. The overlap is real: the loser's
  401 deletes the winner's cookie (`auth/handler.go:153`), although `api.ts:56` says that the cookie restores the
  session.
* `SheetIsTrue`, `SheetSettles`: "confirmed", "failed" and "processing" are said only of entries of which they hold, and
  a sheet that stays open ends with one of the first two.
* `PhoneIsTrue`: the sheet; the wallet agrees with the last outcome the runner was told of; every attempt of the form
  sends what was confirmed, and what was typed is overwritten only by details changed elsewhere; the timeline is the
  beginning of the service's list.
* `ConnectedIsCurrent`: a client that awaits nothing, and for which nothing failed, shows the stored version, or a
  browser one that was stored and overwritten by one with an earlier stamp.
* `FollowedStays`, `LinkConnectsOnce`: as their names say.
* `FormsShowStored` and `DesksAreTrue`: the conjunction over the forms and over the desks of "at rest, the page shows
  what is stored", each with what is special to it: an image stays on its slide, the kept draft names the event last
  made unless its creation was not heard of, it was finished or another tab wrote over the draft, the reference an admin
  decides on is that of the runner in the drawer, one kit per ticket, only drafts are deleted.

The exceptions that these properties state (an answer that was lost, two writes that overlapped, a change made
elsewhere) are history variables that a step of the code sets exactly when it happens, so that a violation in any other
circumstance is found. They are the places where the pages of the clients do show something else than the service has;
section 6 names those that a team would want to change.

Why the bounds suffice. The races modelled are between two requests, between a request and a worker, or between two
workers or two answers; a third actor of a kind adds no new kind of step, since steps only communicate through rows and
copies. Two rows and a capacity of one already make two runners compete for the last seat and let one runner take a
second place after losing the first. Counters are saturating: notices, mails and messages are counted to 2 because the
properties only ask whether there was a second one. `NoticeBound`, `MaxCapacity`, `ClaimLimit`, `MaxAttempts` (2 of 3),
`BatchLimit` and `EditBound` bound the backend; a registration is not started when all rows of `Regs` are used.
`PairBound` bounds the token pairs: a third pair is what it takes for a spent token to be presented beside a good one.
Among the clients, `Attempts` and `Tries` (2 of the 3 attempts at a busy category) still have a first, a repeated and a
last attempt; `WebRequests`, `PhoneRequests`, `SiteRequests`, `SetupRequests`, `EditJobs`, `RosterOverlap`, `AuditAsks`,
`Loads` and the sets of requests bound what is under way at once, at two or more wherever the page lets two overlap;
`SeasonRaces`, `PageRows`, `PageSize` and `LogPage` are lists of more than one page with the smallest pages;
`StatusChanges`, `Versions`, `Refreshes`, `SiteChanges`, `DeskTurns`, `RoleBound`, `GateScans`, `PageLives`, `TabTurns`
and `LogBound` bound changes made elsewhere and repeated actions. Symmetry is used only in runs without liveness
properties. `OrganiserIdle` is an action constraint of three runs that keeps capacity edits and closings, which
`RegistrationTables` explores, out of the larger products; `Undisturbed` ends a behaviour of `Sessions` where its
properties say nothing any more. Deadlock is not checked: a system with every row used, every message sent and no client
at work has really stopped. One worker is the documented deployment ("Keep exactly one `worker`",
`docs/scaling.md:190`), so the loops have one; two reconcilers are nevertheless run, because `docs/scaling.md:106`
promises that several may share the claim queue.

Every property of a passing run has a mutant in `PROJECT.json`: a dropped guard, a missing reset or an omitted
step of the code for which TLC finds the property violated in that very run.

## 4. Fairness

Safety properties assume none. Two runs have liveness properties.

`WorkersSettle` (`WorkersSpec`):

* clocks reach their instants and a request in flight goes on (WF): request contexts carry deadlines;
* the worker's loops run for ever (tickers of 15 s, 5 s, or the queue loop), so their steps are not put off for
  ever, and crashes, outages and database errors do not always hit the *same* step of the same row (SF on each
  such step). Without the latter a process that dies at each attempt makes no progress, in the code as here;
* a claim or sweep is fair to each row, because it is ordered by `reconcile_after`, `created_at` or `send_at`;
* clients, payers and administrators are obliged to nothing, and neither are Redis pushes and pops: the sweep
  alone must suffice, which is what `docs/scaling.md:153` promises.

It has one worker and transfers of the exact amount only. With two workers a poll that outlasts the 30 s lease can be
overtaken each time, and a transfer of another amount is rescheduled for ever by design. `ScheduledSettles` supposes
that the administrator stops editing, which is what `EditBound` expresses.

`Checkouts` (`RunnerWebSpec`): the sheet's timer ticks while the sheet is open (WF on `Verify`), a check that was sent is
sooner or later handled, though any of them may be lost (SF on `VerifyHandled`), and its answer arrives (WF). Runners,
reviewers and clocks are obliged to nothing.

## 5. What is proved

All proofs are checked by TLAPS, without a bound on users, categories, requests, workers, pages, versions or reads
under way. They rest on the named assumptions of the modules alone: finitely many registrations and Telegram messages
(they are counted), distinct placeholders (`None`, `NoEvent`, `NoAddress`, ...), at least one race, two stories, a
role to begin with, and the like. Every invariant and every action property of a passing run is proved. Each argument
is an inductive invariant; what it adds to the property is what this section tells.

**`RegistrationStoreProofs`**: the tables.

* `StoreTypeSafe`; `OnePlacePerRunner`, `TicketsMatch`, `PaidPlaces` (invariants of the tables); `NoRevival` and
  `NoOverselling` (action properties). The argument goes through `StepShape`: every step either creates one row, under
  `HasRoom` and `NotRegistered`, or moves each row along one of a few arrows (`RowStep`). The invariants are then
  preserved row by row; they are inductive together with `StoreTypeOK`. For `NoOverselling` a step without a creation
  only shrinks the active set, and a creation adds one element to a set smaller than the capacity.
* `StoreImplementsLedger`: initial states map to initial states, and each step to a ledger step or a stutter: a
  creation to Take (a category has no more holders than active rows), the sweep to Expire, a capacity edit to Resize,
  and a change of one row to Confirm, Release or nothing. That a row's end releases the seat needs
  `OneActivePerEvent`: another active row of the same runner would keep it.

**`RegistrationServiceProofs`**: the handlers and the reconciler keep what the tables promise.

* `ServiceImplementsStore`: each step of each handler, reconciler and failure is a transaction of the store or leaves
  the tables alone. This needs the inductive invariant `ServiceInv`: besides types, `CallOK` and `JobOK` say that a
  request or pass standing at a step that acts on a row has really read one (at "insert" a provider that answers
  later, at "settle" one that answers at once), and `BatchesArePayments` that what was claimed and not yet looked at
  has a payment row. Typing alone is not inductive: `Cancel(call[k].reg)` with `reg = None` would leave the tables'
  type.
* `ServiceKeepsPromises`: hence all table properties hold of the running service.
* `LocksAreHeld`, with the strengthening `Held`: a request that believes it holds the lock within the TTL does,
  because `Release` compares tokens and the lock's category is the request's own.
* `OnlyTicketHoldersEnter`, with `AtTheDoor`: a request about to insert a check-in has read CONFIRMED, so a ticket
  exists, and no transaction deletes tickets (`TicketsStay`). Being confirmed is not stable, which is why the
  invariant speaks of tickets.

**`PaymentRaceProofs`**: the races around one payment, between any number of requests and reconcilers. They share
`ServiceInv` and the lemma `PaymentStays`: a payment row, once inserted, keeps its provider, and a lapse stays.

* `SucceededIsTransferred` (`TransferInv`): whoever stands at a confirmation has polled the exact amount, or reviews a
  submitted transfer; what the bank has received does not change again. It is about Bakong payments; mock and manual
  ones succeed otherwise.
* `ReservationsHaveOwners` (`OwnedInv`): a reservation without a payment row is in the hands of a request at one of
  four steps (`Owns`). The hypothesis that no request dies, no write of the clean-up fails and the server is not
  replaced cannot be dropped: the run `ErrorLeavesReservation` is the counterexample.
* `AnnouncedAtMostOnce` (`AnnounceInv`), under every fault: four paths confirm a registration, each only from PENDING,
  so at most one stands at the notice and nothing has been announced before. `ConfirmationsAreAnnounced` adds
  `ConfirmedInv`, that nobody confirms without being about to announce, for as long as no request or worker dies and
  the server is not replaced; that a crash there loses the notice is documented (section 6).
* `OutcomesAreKept` (`KeyInv`), `LeasesAreExclusive`, `SubmittedWaits`: by which steps write the column in question.
  `LeasesAreExclusive` is about reconcilers only: a request, a sweep or a late confirmation may settle a payment that is
  leased. `SubmittedWaits` excepts the registration that a sweep had picked before its runner submitted (section 6), and
  adds that no sweep picks one that was submitted before.
  `SettledIsNotExpired` (`PollInv`): a pass at "expire" has seen the payment lapsed and then no transfer at the bank,
  and a transfer after the lapse is not in time.

**`WorkerProofs`**: the outboxes and the automations, for any number of rows, runners and attempts, and for one worker
(`OneMailer`, `OneSender`, `OneScheduler`), the deployment that `docs/scaling.md:190` demands; with two the statements
are false, as `TelegramOverlap` shows. The final writes of these workers carry no condition in SQL, so each invariant
says why what they replace is still open.

* `MailsAreSingle`, `MailOutcomesStand` (`MailInv`): a notification at the send or after it is PENDING
  (`MailStandOK`), and every acceptance is recorded as SENT, about to be, or in doubt.
* `PostsAreSingle`, `PostOutcomesStand` (`TelegramInv`): besides, all deliveries of the claimed batch are PROCESSING,
  which a lapsing lease does not change while nobody else claims (`PostHeldOK`).
* `SentReachedAll`, `FinishedStays`, `OnlyProcessingReaches`, `AutomationTypes` (`AutoInv`): the automation being
  fanned out is PROCESSING, which no edit may touch (`AutoHeldOK`), and everyone it listed has been reached or is
  still to come (`FanOK`).

**`SessionProofs`**: for any number of accounts, token pairs, tabs and requests.

* `ReloadsRestore`, `CookiesDieSpent` (`BrowserInv`): as long as exchanges neither overlap nor are cut off, one tab at
  most is busy (`Alone`), its exchange is about the cookie the browser has (`FlightOf`, `SignOf`), and the cookie is
  live or the answer that replaces it is on its way (`Backing`, `Replacing`).
* `PhoneKeepsPrivacy`, `PhoneKeepsItsToken`, `GuestsStayGuests` (`MobileInv`): the stored and the access token are of
  one account (`OneSession`); what is cached, or will be when a current request is answered, is of that account
  (`OwnData`); a guest has nothing stored but what a sign-in is about to revoke (`GuestHoldsNothing`). None of the
  three is inductive without the others: what a late refresh persists depends on the operation that runs beside it.

**`RunnerProofs`**: what the clients do for a runner.

* `WebSheetsTellTruth`, `PhoneTellsOutcomes` (`WebInv`, `PhoneInv`): whatever a sheet holds was read of an entry at
  some time, so it is enough that entries move in one direction (`ApiInv`): what was true when it was read stays true.
  The phone's list needs more: a read answered before an outcome is not shown after it.
* `FormsSendWhatWasConfirmed` (`EntryFormInv`): the claim that is repeated is the one that was confirmed, and what the
  form shows was typed, or read of the profile and not typed over.
* `LinksConnectOnce` (`LinkInv`): a link that has connected a chat is no longer the stored one, and a stored one has
  connected none. `FollowedActivitiesStay` (`FollowInv`): an answer that no start disturbed lists every activity that
  is followed, and what a start or a stop may end is not followed yet, or no longer.
* `ConnectedClientsAreCurrent` (`LiveInv`, `CommittedOnly`): a connected browser that shows an older version than the
  newest has its signal, or a read that will return it, on its way; a phone is stale, or reads; and nothing is carried
  or shown that was not stored.
* `TimelinesTellTruth` (`TimelineInv`): pages that are neither stale nor mixed are, one after the other, those of the
  list as it is (`InOrder`), and so is what is being read, unless it is a first read that a change overtook. The
  lemmas count: the first n races of a list are n (`FirstCounted`), and a page goes on where the one before it ended
  (`PageGoesOn`). A list is a set and a race's place in it the number of those before it: on sorted and filtered
  sequences the same statements would need an induction.
* `PhoneTellsTruth` composes the phone's invariants over `ClientsSpec`.

**`DeskProofs`**: the six desks of the staff, each with an invariant of its own, and `DesksTellTruth`, which composes
them over `ClientsSpec`: a step of one desk leaves the others alone (`DesksStep`).

* `TeamPageTellsTruth` (`PageInv`): the page locks the row it changes, so an account
  that is not crossed has one change under way at most, and what the page shows of it is its role, or that change is
  stored and its answer will bring the row to it.
* `GatesTellTruth` (`GateInv`), `RostersTellTruth` (`RosterInv`): what a station says of a ticket, or the drawer of a
  runner, belongs to the ticket or runner that is chosen now, because an answer for another one is discarded.
* `RaceListsTellTruth` (`RaceDeskInv`), `BoardsTellTruth` (`SignalInv`), `AuditTrailTellsTruth` (`AuditInv`): reads
  under way are ordered by the last choice of a tab, lane or filter, and an answer that is shown is of the choice that
  is shown, unless reads crossed. The audit log's is proved for any vocabularies of the page and of the service; those
  of the code have no name in common (section 6). The board's counters are patched after a retry, so its proof counts:
  it needs a finite set of messages.

**`FormProofs`**: the five forms, and `FormsTellTruth`, which composes them over `ClientsSpec`. Each invariant says
what a request under way will bring: page and server differ only by answers on their way, and such an answer is still
true of what is stored, unless something the page cannot know of happened meanwhile.

* `FiltersSurvive` (`CalendarInv`): unless a navigation was overtaken, an address that the page wrote is the one under
  way.
* `CardsShowStored` (`CardInv`), `EditorsShowStored` (`EditorInv`): a job that is done brings the row that is stored,
  and a save of a page that is gone is marked when it is stored after the fields were filled (`outrun`).
* `SiteDeskTellsTruth` (`SiteInv`): the draft differs from the design it was opened on only by marked edits, an upload
  comes back to the slide that asked for it, and the ledger's newest entry is the live version.
* `WizardLosesNothing` (`WizardInv`): the lists stored are those shown, plus additions and minus removals that are
  done and not yet heard (`PageFollows`); every event that was made is that of the page, of the kept draft or of an
  answer on its way, or is accounted for (`EventsAreKnown`): its creation was not heard of, it was finished, or another
  tab kept or removed a draft of something else in its place.

The proof of the wizard found an error in what the model claimed. The property held in every run with two lives of the
page, and is false with three and two events: the page forgets a deleted draft and clears its lists
(`new.tsx:141-143`), a late answer to a category or a schedule line puts that line back (`new.tsx:248`, `282`), the
kept draft then has lists and no event, and the next visit shows lines that the event it goes on to create does not
have. `OpensWizard` now notes a kept draft of that shape as `doubt`; with that the property was checked with three
lives, two events and four requests before it was proved for all. Nothing in the page resolves that
doubt, which is the place to mend the code.

Only model-checked: everything temporal (`ReservationsResolve`, `TransfersAreSettled`, `MessagesSettle`,
`ScheduledSettles`, `SheetSettles`), for liveness under fairness is out of this prover's reach.

No module uses a RECURSIVE operator.

## 6. Where the code and its documentation disagree

Four runs exhibit disagreements; `PROJECT.json` quotes the lines.

1. `SweepExpiresSettled`: every `Register` first expires all lapsed pending payments without asking the provider,
   so a transfer that arrived in time is thrown away when somebody registers before the reconciler's next poll,
   although `docs/scaling.md:102` and `service.go:693` promise the contrary.
2. `CancelCheckedIn`: Cancel checks for a check-in and updates in separate statements; a check-in may fall between.
3. `ErrorLeavesReservation`: when both the payment insert and the clean-up fail, the client gets an error, the
   reservation stays, and no expiry mechanism ever sees it because both start from payment rows. A crash after
   the reservation has the same effect.
4. `TelegramOverlap`: the lease covers a whole batch of sequential sends and is never renewed, so two instances
   can send the same message concurrently.

Others have no run of their own; the property of a passing run exempts exactly the situation (the history variable in
brackets), and without the exemption TLC exhibits it:

* a manual transfer that its runner submits between the two statements of a sweep leaves a registration EXPIRED and its
  payment PROCESSING (`repository.go:606`, `:629`; `SubmitManualPayment`, `:435`, locks no registration), which no
  review accepts or rejects any more (`:449`, `:479`) and nothing expires, although `docs/mvp.md:42` says that runners
  "receive a confirmed ticket or failed-payment state after admin review" (`due`);
* two tabs of the wizard share one kept draft: a tab with a blank form, or with another event, writes over it as soon as
  it opens or types, and the event that the first tab made is set up by nobody's draft (`new.tsx:157`; `displaced`);
* a save of the profile whose page is left is stored after the next page has read the profile, which then shows the old
  one as saved (`profile.tsx:162`; `outrun`);
* a draft is deleted after its status was read in another statement, so a race published in between is deleted
  (`events/service.go:379`; `opened`);
* two tabs that refresh at once: the loser's 401 deletes the cookie the winner was just given, although `api.ts:56` says
  that it restores the session after a reload (`overlap`);
* two publications of the site that commit against their stamps leave browsers with the overwritten one, although
  `SiteConfigProvider.tsx:68` says that they cannot miss the latest (`ConnectedIsCurrent` allows the later stamp);
* a category link that opens the phone's entry form before the race was read is taken back with the words "just filled
  up" (`RegisterScreen.tsx:152`; `warm`), and every changed read of the profile fills the form in anew, although the
  comment at line 133 says only the first does (`keptAnew`);
* uploads, list editors and reviews patch what was there when they were begun: overlapping ones undo each other
  (`crossed`, `panelCrossed`, `crossing`); reads of the roster, the races and the audit log are not ordered, and a late
  one wins (`excused`, `listCrossed`, `auditCrossed`);
* a page that sets an event up and finds its draft deleted clears its lists, and a late answer puts a line back; the
  kept draft then shows, on the next visit, lines that the event it creates does not have (`new.tsx:141`, `248`, `282`;
  `doubt`);
* the filters of the audit log are names ("events", "users") that no handler records ("registration", "user"), so every
  filter but "All Domains" finds nothing; `AuditTrail` models both sets of names and its property holds of the empty
  list.

One has no property at all: two super admins can demote each other, the second on the claim of a token that outlives her
own demotion, and nobody is left to assign roles, although `auth/service.go:242` says of its guard that it is
"preventing an accidental administrative lockout". `TeamAccess` has these steps; an invariant that excepts them would
only restate the guard, so none is checked.

Known and documented weaknesses are not repeated as findings: a notice lost when the process dies between commit
and enqueue (`docs/architecture-discovery.md:258`), at-least-once e-mail, and later event updates suppressed by
the dedup index. They appear as hazards with notes. A note of a hazard also says which of its cases no property catches.

## 7. Not modelled, and why

* Availability cache: display only, for at most its TTL of five seconds; `Register` counts in the database. (A count read
  before an invalidation may be filled in after it, and capacity edits do not invalidate at all, although
  `docs/scaling.md:151` says "invalidated on every mutation".)
* Reminders and event notices: fan-outs of the shape of `EventAutomations`, deduplicated as in `MailOutbox`.
* The eight-hour expiry of live activities, the Telegram test message, password resets and the exchange with Google,
  rate-limit counters (a refusal may hit any request), the full table of an event's status transitions.
* Statistics, metrics, system status, exports, configuration, rendering, object storage, KHQR encoding, JWT signatures
  and password hashing: presentation, pure computation or I/O.
* Of the clients: the page of one race, the home page, ticket codes, navigation, toasts, the duplication dialog and
  layout. Races of one day have no fixed order in the service's paged list (`ORDER BY event_date` alone);
  `RaceTimeline` supposes that no two fall on one day.

## 8. Plan

Done: the registration core, the outboxes and the automations; sessions, roles, linking and live activities; the
clients; and the proofs of every safety property that is checked. What is left, in this order:

1. an abstract specification of the announcement of a confirmation, from the payment to the outboxes, which the service
   and the workers are shown to implement;
2. the event status machine with unguarded full-row updates by two administrators and the reminders that follow it.
