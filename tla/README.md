# NonStopTalk in TLA+

NonStopTalk is a party game for practising speech: players in one room take
turns to talk without a pause about a drawn topic; beside it there is a practice
mode that measures how somebody speaks and gives advice. The repository holds
two editions. The Cloudflare edition (`cloudflare/`) is a Worker with one
Durable Object per room, a shared D1 database and a browser application. The Go
edition (`internal/`, `cmd/`, `web/`) is one server process with rooms in memory
and snapshots on disk.

This directory contains TLA+ models of the stateful parts, TLC configurations
that check them on small instances, and TLAPS proofs for every value of the
constants. `PROJECT.json` lists the runs, what each definition models (file and
lines), the mutants that show that each property can fail, the hazards and the
theorems.

- [Inventory](#inventory)
- [Modules](#modules)
- [Runs and bounds](#runs-and-bounds)
- [Fairness](#fairness)
- [Proofs](#proofs)
- [Where the code and its documents disagree](#where-the-code-and-its-documents-disagree)
- [What is abstracted](#what-is-abstracted)
- [Plan](#plan)
- [How to run it](#how-to-run-it)

## Inventory

### Cloudflare edition

| Component | State it keeps | Operations | Interacts with | What is hard |
|---|---|---|---|---|
| Room milestone delivery (`worker.ts`, `room-milestone-outbox.ts`, `room-milestone-receiver.ts`) | queue, dead letters and drop counters in the object's SQLite; the object's one alarm; receipts, room facts and daily counters in D1 | save with milestones, `alarm()`, acknowledge, retry, dead-letter, purge, receive, clean up | game (produces milestones), room expiry (shares the alarm), platform store (shares D1) | crash between D1 and the local commit, lost answers, requests executed late, one alarm for four purposes |
| Room object: sockets and presence (`worker.ts`) | open sockets, `hostDisconnectedAt` | `/socket`, close and error events, `/state`, broadcast | game (transfer, claim), browser | several tabs, late close events, hosts without a socket |
| Game rules (`game.ts`) | `RoomState`: seats, settings, topics and deck, turns, scores, history | `joinRoom`, `beginTopicGeneration`, 18 actions | room object (loads and saves), browser | requests prepared from old views or sent twice, ids across games, time claimed by remote speakers |
| Room routing and best-effort milestones (`worker.ts`, `routes.ts`, `room-milestone-delivery-mode.ts`) | none of its own | allocate a code, forward, rate limits, best-effort D1 writes after the response | room object, platform store | one milestone delivered twice or never while the mode changes |
| Milestone payload contract (`room-milestone-contract.ts`) | none | canonical encoding, hash, decoding | outbox, receiver | byte-for-byte equality after a restart |
| Platform store (`platform.ts`, `platform-routes.ts`) | coaching summaries, consent, profiles, daily counters, facts, cleanup heartbeat in D1 | save, list, delete, consent, clean up, read counters | browser cloud progress, receiver | quotas checked and filled by concurrent requests, consent withdrawn during a write, retention |
| Platform schema (`platform-schema.ts`, `migrations/`) | schema version marker | compare | receiver, store | code and schema of different versions |
| Sync identity (`sync-identity.ts`) | anonymous profile and its lease | register, renew | platform store | renewal races with cleanup |
| Model gateway (`model-routes.ts`, `model-provider.ts`) | daily call and cost budget in D1 | reserve, call, reconcile; topic generation | room object (generation number) | a reservation left behind by a failed reconciliation, midnight, an edit under way |
| Observability (`observability.ts`) | none | logging | all | nothing |
| Browser: application (`public/app.js` and pages) | the room as last shown, socket, timers, turn controller; the practice under way | requests, `acceptRoom`, socket, rendering; attempts and their ends | room object, coach | HTTP and live updates overtake each other; microphone and route changes during an await |
| Browser: coach loop and storage (`coach-loop.js`, `coach-storage.js`) | practice sessions in IndexedDB, the session loop | start, stop, save, export, delete, upgrade | coach engine, cloud progress | aborted transactions, two tabs, a clock set back, an old database |
| Browser: coach engine (`coach-engine.js`, worklet) | segments of an attempt, tips, baselines | calibrate, frames, snapshot, advise | coach loop | frames that come late or not at all |
| Browser: cloud progress (`cloud-progress.js`) | consent and upload state | opt in, upload, delete | platform store | consent and upload race |
| Browser: microphone selection, sound cues | selected device; audio unlock | refresh, select, play | application | device list changes during an await |

### Go edition

| Component | State it keeps | Operations | Interacts with | What is hard |
|---|---|---|---|---|
| Game rules (`internal/game`) | players, turns, scores, pending verdicts | turns, scoring, reset, snapshot, restore | rooms, judge | a verdict that arrives after a reset or a restart |
| Rooms, presence, persistence (`internal/room`) | rooms under locks, subscribers, turn clock, snapshots | join, leave, subscribe, claim, sweep, save | game, web handlers | presence counts across a new seat, snapshot and crash |
| Judge (`internal/judge`), topics (`internal/topics`) | none | remote grading and generation, static data | web handlers | remote failure |
| Web handlers (`internal/web`) and entry points (`cmd/`) | none | HTTP, event streams, grading goroutine | rooms | goroutines that outlive a game, pages rendered earlier |
| Browser scripts (`web/static/js`) | turn stage: consent, microphone, recogniser, form | refresh, start, submit, preview | web handlers | a swap of the page under a waiting microphone prompt |

### Scripts

| Component | State it keeps | Operations | Interacts with | What is hard |
|---|---|---|---|---|
| Rollback drill (`scripts/drill-staging-outbox-rollback.mjs`) | the checkpoint file between its two phases; in a phase, the counters it compares with, the traces of its tail, the fault deployment it follows | prepare, verify, abort | the staging site: deployed versions, a seeded room and its outbox, D1 counters | what a phase concludes from one request at a time, while other rooms write the same counters and other people deploy |
| Smoke tests and the other drills (`scripts/`) | none | requests in a fixed order | all | nothing: they are tests |

### What makes each correct

- **Milestone delivery.** Every event is counted at most once and in order, is
  acknowledged only when counted, and settles by its deadline; the alarm always
  covers the work; tables stay bounded; an idle room's deletion discards
  nothing.
- **Game.** Turns go round the table; no late or repeated request starts a turn
  twice, hits a newer turn, skips a player or applies a stale draft; scores are
  the sum of turns and corrections; remote speakers cannot gain time; topics
  rotate; seats and memberships agree.
- **Presence.** A host who is there cannot be displaced; one who is gone can be
  replaced after the grace and at most one bucket more.
- **Routing.** A milestone has one way into the database, whatever the mode of
  delivery does; the fact under a code is never older than the room it is about.
- **Store and cloud progress.** Quotas hold under concurrent writes, nothing is
  stored without consent or lost before its time, a listing is complete, and the
  cleanup says it is done only when it is.
- **Model gateway.** The day's budget holds, every reservation is booked or has
  a fault to blame, no draft replaces a newer edit.
- **Go rooms.** Presence counts match streams, a verdict is added once and to
  its own turn, none is awaited in vain, an old page acts on its own turn or on
  none.
- **Browsers.** A microphone is open only for what the page shows, nothing is
  recorded or sent that was not chosen, the page ends with the newest state
  broadcast, and a practice session is kept whole, for its time and in its loop.
- **Coach engine.** What is measured agrees with what an observer of the frames
  could know, and the advice with what is measured.
- **Rollback drill.** A checkpoint is of a row that is pending, and a phase that
  says "drained" says so of the row of its own room, drained by the version that
  was rolled back to.

The hazards, line by line, with the property that covers each, are in
`PROJECT.json`.

## Modules

| Module | Models | Uses |
|---|---|---|
| `RoomMilestoneOutbox` | the object's two tables, as operators on sets of rows | |
| `RoomMilestoneReceiver` | receipts and room facts in D1, as operators | |
| `RoomMilestoneDelivery` | the state machine: object, alarm handler, D1, requests between them | both |
| `MilestoneDelivery` | what delivery promises, abstractly | |
| `TopicDeck` | topics, shuffled deck, generation numbers | |
| `RoomGame` | seats, settings, turns, scores: every branch of `applyAction` that changes them | `TopicDeck` |
| `RoomPresence` | sockets, presence over HTTP, transfer and claim | |
| `RoomRouting` | rooms under one code, both ways of their milestones into D1, the mode of delivery | `RoomPresence` |
| `CloudStore` | the tables of cloud progress and the D1 batches, as operators | |
| `CloudProgress` | requests of browsers, scheduled cleanups, migrations | `CloudStore` |
| `TopicGateway` | a topic request through room, budget, provider and back | |
| `GoGame` | the rules of the Go edition, as operators on a session | |
| `GoRoom` | a room of the Go edition: handlers, streams, judge, clock, autosave, restart | `GoGame` |
| `CoachStorage`, `CoachLoop` | the local database of practice; baselines and retries | |
| `CoachPage` | the practice and progress pages of one tab | both |
| `RoomPage` | the room page of one browser: snapshots, turns, microphone | |
| `GoTurnPage` | the play page of the Go edition: refreshes and the turn stage | |
| `CoachEngine` | calibration, segments, snapshots, tips and advice, with an observer | |
| `CoachReview` | words, summary, comparison and next attempt | `CoachEngine` |
| `StagingSite` | the site of the rollback drill: deployments, the seeded room's object, D1 counters, a tail | |
| `RollbackDrill` | the two phases of the drill, step by step | `StagingSite` |
| `RunningTotals` | sums as running totals, for the scores of both editions | |
| `...Properties` | what is checked of the module so named (the properties of the room page and the Go page, of `RoomRouting`, `CoachReview` and `RollbackDrill` are at the end of these modules) | |
| `MC...` | constants and scopes for TLC | |
| `...Proofs` | theorems | |

A definition that ends in `_Word` under a comment "Slip:" is a plausible mistake
in the definition after it. No specification uses it; the mutants of
`PROJECT.json` put it in the place of the definition it imitates, and TLC must
then find the property violated.

Properties that belong together are conjuncts of one, so that a run reads as a
few questions; each conjunct has a name and a comment of its own.

### Milestone delivery

| TLA+ | Code |
|---|---|
| `room`, `outbox`, `letters`, `drops` | tables `room_state`, `room_milestone_outbox`, `room_milestone_dead_letters`, `room_milestone_meta` |
| `alarm` | the object's alarm; taken when it fires, set again by the handler |
| `pc`, `now`, `held`, `answer` | local variables of `alarm()` and where it waits |
| `awake` | is the object in memory; `Wake` is the constructor, `Evict` a loss of memory |
| `requests` | calls of `receiveRoomMilestone` under way, possibly abandoned by their caller |
| `receipts`, `effects`, `facts` | D1: receipts, additions to `analytics_daily`, `room_facts` |
| `nextId`, `event`, `settled`, `crashes` | history, read only by guards that bound the run and by properties |

The object's input gate lets other events in only where `alarm()` awaits D1, so
what the handler does from one await to the next is one action: `AlarmFire` (the
platform takes the alarm and calls the handler), `AlarmReconcile` or room expiry,
then `AlarmNothingDue`, `AlarmDeadLetterHead` or `AlarmDispatch` (set the
watchdog, send the head), and after the answer `AlarmAcknowledge`, a dead letter,
`AlarmGiveUp` or `AlarmRetry`. An eviction
can fall between any two of them, and a request that was abandoned may still
execute (`DatabaseExecute`) within `MaxFlight`.

### Game

`RoomGame` has one action per branch of `applyAction`. The object loads the
room, applies one request and saves it without a wait in between, so a request
is one step; a branch that throws saves nothing, so its error cases are guards.
What is concurrent is outside: requests carry ids and generation numbers read
from any earlier view, which the actions take from all ids ever given out.
History variables (`lastIssued`, `asked`, `witnessed`, `corrections`,
`finished`, `seen`, `previous`, `superseded`) are read only by properties;
`drafts` also offers the generation numbers a request may carry. `StoredRoom` is
a room an older version left in storage, with a counter that may lag behind the
ids in use.

### Presence and routing

`RoomPresence` keeps for each browser the number of open sockets and of sockets
whose close event has not been delivered yet. It abstracts the game to
membership and to "some action of this browser"; `transfer-host` and
`claim-host` are modelled in `RoomGame` for their effect on the game and here
for the conditions under which they are accepted. `lastProof` and `lastSign` are
history.

`RoomRouting` adds to each of these actions what becomes of its milestones. The
object either queues them or leaves them to the outer Worker with its answer
(`deliveries`); that Worker writes them to D1 one after the other, each write
may fail, and nothing is tried again. `mode` changes with a deployment while
answers, tasks and queued events are under way. A best-effort fact is kept under
the room code and an exact one under the lifetime of the room, as in
`room_facts`; the queue of `RoomMilestoneDelivery` is reduced here to the
outcome of a delivery.

### Cloud progress

A D1 batch is one transaction, and so one operator of `CloudStore` from tables
to tables (`Touch`, `SaveBatch`, `ClearBatch`, the statements of a cleanup
batch); `CloudProgress` lets requests (`flow`), scheduled invocations (`cron`)
and migrations take turns between them. A request reads the clock once. `got`
collects the pages a browser has read. History: `silentGrants`, `lasting` (the
summaries stored ever since a listing began), and `heartbeat.swept`, which is
false for the heartbeat that migration 5 writes without a cleanup.

### Model gateway

`TopicGateway` follows one request through `authorize` (the room object gives it
a generation number), `marker`, `reserve`, `call`, `book` and `recheck` to the
answer and the draft the browser applies. `ledger` has the two rows of a day,
global and of the provider; `sent` counts, as history, the calls that left.
Faults are a failing or committed-but-unanswered database call, a dead isolate
and an authorization that is refused.

### Go edition

`GoGame` has one operator per method of `Session`, on a record. `GoRoom` has one
action per handler; what a handler does under one lock is one step. A join looks
under one lock (`LookMember`) and sits down under another (`JoinRoom`). What
outlives a step is in `streams`, `joins`, `graders` (goroutines that wait for a
judge), `asks` (topic lists being generated) and `page` (a page rendered earlier, with
the ids it will send). `birth` numbers the turns of all games and `epoch` counts
restarts that lost something; the code has neither, the properties need both.
`scope` is what the behaviour may still do: each initial state allows a few
kinds of steps (`Verdicts`, `LatePages`, `Clock`, `Presence`, `Expiry`,
`Topics`).

### Pages of the Cloudflare edition

`CoachPage` keeps what `app.js` keeps: `route` and `generation`, the `practice`
on show, the run and the pending token, and one record per attempt with its
stream, recorder, recogniser and how far its end has come. Each await is a place
where another action may come in. `CoachStorage` has one operator per IndexedDB
transaction. Scopes: `Pages` (two attempts while pages change), `Faults`
(hardware, storage and backup fail), `History` (a loop and its deletion), and
`Database` (a database of version 2, another tab, a clock that is set back).

`RoomPage` has the object reduced to the version, the turn and who drives it;
the page with its socket, its HTTP requests (`calls`), the start of a turn with
the stage its command is in, and the microphone dialog. `runningLocally` is what
the controls show since they were rendered last: a turn can be resumed only if
it is false, and a submission that fails renders nothing. Without the browser's
permission an enumeration finds nothing (`Find`: the ids are empty and are
dropped); the first one of a dialog then asks for it (`List`), a device change
never does. Scopes: `Leaving`,
`Network`, `Clicks`, `Preferences`, `Picking`, `Lists`.

`GoTurnPage` has the server reduced in the same way; `page` holds `#app` with
its turn stage, the window globals that outlive a stage, and the streams;
`calls` the refresh and the one behind it, forms, and the requests to begin.
htmx is modelled from how the templates use it: an answer goes into the element
that was `#app` when it was asked for. Scopes: `Updates`, `Restarts`, `Losses`,
`Breaks`, `Dialogs`, `Previews`, `Forms`.

### Coach engine

`CoachEngine` turns frames into segments of voice, silence and unknown, as the
analyzer does, while `observer` writes down for every unit of time what was
knowable; the properties compare the two. `CoachReview` adds what is made of an
attempt: the count of words, the summary and its check by the server, the
comparison with a baseline, and the cards of the next attempt. Scopes: `Room`
(calibrations from samples), `Talk`, `Burst`, `Murmur`, `Loud`, `Words`,
`Pairs`, `Weak` (the same pairs after a calibration of low confidence that the
user accepted), `Hints`, `Clipped`. Clipping is a sign only with enough frames,
enough of them clipped, and a large enough share of all (`Clipping`), and the
words have their counts and rates: a recording with few clipped frames among
many is not treated as clipped, by the code or by `NextAttemptFits`.

### Rollback drill

`StagingSite` is what the drill talks to: `deployed`, `deployment` and `outer`
(which version answers a public request), `object`, `pending`, `attempts` and
`applied` (the version that the seeded room's object runs, its outbox, and how
D1 came to count its events), `counts` (the aggregate counters of D1, which
every room adds to) and `tail`. Everybody else acts on the same site between any two steps:
`noise` counts, as history, what other rooms wrote.

`RollbackDrill` has one action per step of "prepare" and "verify": `pc` is where
the phase is, `base` the counters it compares with, `proof` the object whose
traces it takes for the seeded room's, `checkpoint` the file that the second
phase starts from. `Abort` stands for every failure of a step and for the end of
the process. `PreparedRowIsPending` and `VerifiedMeansDrained` say what the two
phases' conclusions are worth, with and without foreign traffic.

## Runs and bounds

| Run | Shows | Bounds, and why they are enough |
|---|---|---|
| `delivery` | table sizes, order, no stale row in the handler, at most once, acknowledged means applied (`QueueIsSteady`); facts never go back (`FactIsLatestApplied`); the alarm covers the work (`AlarmCoversWork`); refinement of `MilestoneDelivery` (`ImplementsDelivery`) | three events on a queue of two (a full queue, a group of two that does not fit), two attempts (one retry, one exhaustion), two lifetimes, receipts that expire, one eviction at any step, requests late by two ticks |
| `delivery_settles` | deadlines of events and dead letters, and that expiry discards nothing (`DeadlinesHold`); that every queued event settles (`QueuedEventSettles`) | three events of which one cannot be decoded and one meets a foreign receipt, delays shorter and longer than the deadline, one eviction at any step, all requests may fail, a horizon of eighteen ticks |
| `game` | seats and records, turn order, fairness between players, one turn per request (`TurnsAreFair`, `RecordsAreTrue`); fresh turn ids; sums of scores; rotation of topics and stale drafts (`DeckIsLawful`) | two seats, one or two rounds, four turn ids (two games and exhaustion), a stored counter that lags, two browsers with the host role moving, claims with tolerance and grace; two lists of two topics (a swap at the seam needs two), one correction; three topic generations (a draft that is reserved, made stale by an edit or another draft, and arrives late, before or after a game), in a room of more than one generation at most two turns (`EditsOrTurns`, a state constraint) |
| `presence` | a present host keeps the role, an absent one loses it in time; one way for each milestone, facts that follow the room | sockets: three browsers, two sockets each and three in all, two late close events each, a grace of two ticks and buckets of two; milestones: two rooms under one code, four events, three versions, one browser whose requests are followed |
| `cloud` | quota, consent, profiles; what the operator is told; complete listings; saves that are stored; nothing ends early | two requests of one browser against a limit of two with three ids and two contents, two cleanups of two batches of one row, three migrations, one fault, leases of two ticks in days of two |
| `topics` | the day's budget and its ledger; disclosure and stale drafts; every request ends | two requests of two browsers, one call a day, two days, one edit, one fault anywhere |
| `go_room` | scores, turns, clocks and verdicts, presence, late pages and lists; verdicts come | three browsers and seats, three turn ids, one concern per scope with all interleavings of its steps |
| `page` | the microphone and what is kept; loops; the artifact store; attempts end | two attempts, two of each fault or change at most; artifacts of one and two bytes under a limit of two |
| `room_page` | the microphone, its choice and its list; the page catches up and turns end | two turns, two requests under way, two devices |
| `go_page` | recognition, streams and transcripts; refreshes | two turns, three streams |
| `coach_engine` | measurements against the observer; tips, advice, backups, comparisons, next attempts | attempts of up to eight units with a hold and a glitch of two and a pause of three, so that each comparison of two limits has both outcomes; clipping from half of at least three frames on, fillers and repetitions from three of five words on, so that counts suffice where shares do not; calibrations of low and of medium confidence |
| `drill` | a checkpoint is of a pending row (`PreparedRowIsPending`); verified means drained (`VerifiedMeansDrained`) | both phases once each, three deployments, three kinds of upload (the reviewed one, one with a database, one of another script), two failed attempts, tails of four traces, one foreign write, lost answer or repeated alarm at any step; a checkpoint of a foreign room needs two of these and is left to the theorem |

Each run stops at a horizon: the clock, the turn ids, the events, the changes or
what the scope allows run out, and that is why the configurations end with
`CHECK_DEADLOCK FALSE` except `presence`, where something can always happen. The
bounds are guards of the actions and are named in the modules; `EditsOrTurns` of
`game`, which has safety properties only, is a state constraint. The tests of the
repository fix the real numbers (30 seconds of grace, 16 attempts, seven days);
the models keep only their order, stated in the assumptions on the constants.

The pages, the Go room and the coach engine run with scopes: the initial state
picks one set of kinds of steps and how often each may happen. A scope holds the
steps that bear on one concern, in any order; two concerns that do not read each
other's state are not multiplied.

`DeadlinesHold` and `QueuedEventSettles` are checked with writes that end early
in the run (`WriteTimes`) and an idle time that leaves room for what the alarm
still has to do (`RoomIdleTTL`): with writes at every tick a due alarm is put
off again and again, see below.

`cloud` uses symmetry between the two flows, the two invocations and the two
contents (`Interchangeable`); all its properties are of the safety kind and name
none of them.

## Fairness

- `RoomMilestoneDelivery!FairSpec`: weak fairness of `AlarmStep` (the platform
  delivers a due alarm, constructing the object first if need be, and the
  handler runs on), of a request's end (executed, refused, or failed for its
  caller) and of time. Durable Object alarms are delivered at least once, and
  `alarm()` waits only for a D1 call, which settles one way or the other.
  Nothing is assumed about requests succeeding, about anybody writing the room,
  or about the object staying in memory; a run has finitely many evictions.
- `TopicGateway`: weak fairness, for each request, of its next step on the
  server and of the answer's arrival. The call of a provider is the only wait
  without an end of its own, and the code gives it a time limit.
- `GoRoom`: weak fairness of a verdict that fails. The judge's client has a time
  limit, so a grading goroutine ends with a failure if with nothing better.
- `CoachPage`: weak fairness of timers (watchdog, end of time) and of the awaits
  of an end. A microphone prompt may stay open for ever, and the user need not
  act.
- `RoomPage`: weak fairness of each request's service and answer, of the live
  socket and of the driver's side (a prompt is answered, a turn that is offered
  for resumption is resumed, and one out of time that nothing runs and that the
  page offers only to end is ended: `TurnsEnd` is about turns whose driver
  stays). The last is needed: when the submission of a turn fails, the page
  still shows the controls of a turn it runs.
  Strong fairness of `Reconnect`: the close handler arms a timer that calls
  `connectSocket` again and again, but in the model the request it makes needs
  one of `MaxCalls` places, which others may hold each time it would be taken. A
  real browser has no such bound.
- `GoTurnPage`: weak fairness of reconnecting (`EventSource` does), of the
  queued refresh, of requests and forms, of the animation frame of a turn, and
  of closing the dialog.

All other properties are safety properties and assume none.

## Proofs

Every theorem is about the module's own specification, for all values of its
constants under the assumptions it states, with no horizon: bounds such as
`MaxClock` are constants like the others.

| Module | Theorems |
|---|---|
| `RoomMilestoneSafetyProofs` | `TypeCorrect`: `Spec => []TypeOK`; `DeliveryInvariant`; from it `AtMostOnce`, `AcknowledgedOnlyIfApplied`, `InOrder`, `NeverStale`; `TablesStayBounded`; all five together `QueueSteady`; `FactsLatest`; `WorkIsCovered`; `DeliveryImplements`: the state machine implements `MilestoneDelivery` |
| `RoomGameProofs` | `TypeCorrect`, `TurnIdsFresh`, `DraftsCurrent`, `SeatsKept`, `TopicsRotateAlways`, `DeckLawful`, `RemoteTimeWitnessed`, `GamesArchived`, `RecordsTrue`, `OneTurnEach`, `TurnsInOrder`, `EveryoneSpoke`, `TurnsFair`, `ScoresSum` |
| `RoomRoutingProofs` | `PresenceInvariant`, `RoutingInvariant`; from them `HostKnown`, `GraceIsKept`, `OnePlaceEach`, `FactsFollow` |
| `TopicGatewayProofs` | `BudgetKept`, `HostDecided` |
| `GoRoomProofs` | `RoomInvariant`; from it `TurnsInOrder`, `PresenceAgreed`, `LateComersMissed`, `ScoresSum` |
| `CloudProgressProofs` | `CloudInvariant`; from it and `ListInv` `StoreLawful`, `OperatorTold`, `ListComplete`, `Saved`, `NothingEarly` |
| `RoomPageProofs` | `PageInvariant`; from it `MicrophoneRight` |
| `RollbackDrillProofs` | `DrillInvariant`; from it `PreparedRow`, `VerifiedDrained` |

So each property of the runs `delivery`, `game`, `presence`, `cloud` and `drill`
is proved in general, and of `topics`, `go_room` and `room_page` each but those
that are listed at the end of this section.

The assumptions are those the modules state about their constants. Most of what
they say is that a constant is a number of the right kind. Those that carry an
argument:

- `RetentionAssumption`: a receipt is kept longer than an event can be queued
  and a request under way (ninety days against seven days and some seconds).
- `TopicListAssumption`: what `cleanTopics` leaves is a list that is not empty
  and names no topic twice.
- `GameAssumption`: the tolerance for a remote claim is at most the grace of a
  completion (one second against two).
- `RoutingAssumption`: a room lives longer than its host's grace (thirty days
  against half a minute).
- `CloudAssumption`: leases end at midnight UTC, the cleanup is scheduled at
  03:17, and a request ends before the next cleanup hour (`RequestTime <=
  CronTick`; a Worker is cut off within minutes).

**Delivery.** At-most-once is not inductive by itself. What makes it so
(`DeliveryInv`): the queue holds exactly the queued events; the handler's row is
the head of the queue, because only the handler removes rows and the others are
added behind; a request was sent before its event's deadline and ends within
`MaxFlight`; and an applied event has its receipt unless its age is at least the
retention, by which time no request for it can be under way. Then a second
execution finds the receipt. Order follows in the same way: all events before
the one requested have already left the queue, and an event that has left never
returns. `LatestInv` orders lifetimes, events and facts, so that the last event
applied is the one a fact tells of even after its receipt is forgotten;
`AlarmInv` says, for every place in the handler, which alarm is set or will be
by the step that follows.

**Refinement.** `settled` and `effects` are the abstract `status` and `applied`;
each concrete step is one abstract step or leaves both alone. The invariant
supplies the abstract guards (oldest, applied, not applied yet).

**Presence and routing.** The grace is measured from `hostDisconnectedAt`. It is
sound because that time is never earlier than the last proof of presence
(`NotBeforeProof`), whichever of the three kinds of proof it was; and it is
measured at all because a host counts as present only while a socket of it is
open or its close event still has to arrive. `PlacesInv` gives each milestone
one place among queue, answers, tasks, database and loss. `FactsInv` orders
everything that may still write a fact by stamps (lifetime, version, time): what
is under way never carries a stamp beyond the room's own, and a write with an
older one is refused by the statement's condition.

**Game.** `Steps` sorts the branches of `applyAction` into a few kinds, and each
property has an invariant that is kept by every kind. Types need one of the turn
ids (`TurnIdsInv`): the ids on the table have a greatest one, and the counter is
past every id ever given out unless the last of them is still on the table; so
`repairNextTurn` leaves a counter past them all, although a stored counter may
lag behind, and freshness follows. The rotation of topics rests on `DeckInv`:
the topics seen are those at the deck's first positions, and a deck, being
injective on as many positions as there are topics, holds every topic (the
pigeonhole theorem of the library). One turn per request rests on `AskedInv`:
the turns of a game were asked for after the turn before each, and their ids
grow. Fairness counts turns: by `SharesInv` those of a full round are one per
seat, for any number of seats.

**Scores.** `ScoresAddUp` compares a score with a sum over the turns, and a sum
is here the last of its running totals. The invariant (`Sums`, and `Tallied` for
a session of the Go edition) says of each player that there are running totals
of its turns and that all of them end in the score without the corrections, so a
turn that ends adds one total and no induction is needed. A late verdict raises
a turn in the middle, and with it every total from there on; that these are
numbers at all is an induction over the turns, made of a least counterexample
(`HoldsAll`, from the library's theorem that each set of naturals has a least
element). In the Go edition the proof needs `RoomInv`: who has a turn on the
table still has a seat, or its points would be paid to nobody.

**Model gateway.** `BudgetInv` counts places: a day's reservations cover the
calls sent and those still owed a call, its bookings and unbooked calls are
among those sent, and without a fault what is reserved and not booked is under
way. The counts are cardinalities of sets of requests, so each step is an
argument about one element added to or taken from such a set. `HostInv` says
that a theme leaves only in a request that consented to it, and that a request
whose number is still the room's saw the topics that are there.

**Go rooms.** `RoomInv` holds the session's own invariant (`GameInv`: roster,
ids, play in order), for the room and for the snapshot on disk, since a restart
makes the one out of the other; the seats; the streams' counts; that each
pending verdict has its judge (a restart marks them failed); that the number of
an ask under way tells whether the topics changed; and that a page never shows
an id not given out yet. The order of turns is arithmetic of rounds:
`currentPlayer` is the number of completed turns modulo the number of seats.

**Cloud progress.** `CloudInv` has a part for the tables (`StoreInv`: rows
belong to a browser with a lease, no more than the limit, under consent unless
the lease ended hours ago), for profiles, for each request (what it has found
out at the place it waits), for each invocation (what it will report as finished
is finished) and for the heartbeat. The step that matters is that what has been
swept stays swept while requests go on: a request that began before midnight
could revive nothing, because leases end at midnights, it has ended by the hour
of the cleanup, and later ones extend a lease past now (`Evolves` states what
any batch does to the tables). `ListInv` says that the pages read so far are in
order up to the cursor and hold everything that was stored all the while; an
insert or a deletion between two pages moves neither the cursor nor what lies
before it.

**Room page.** `PageInv` follows three things through every await: an open stream
has a holder, the controller of the turn on the page or a start that waits, so
that whoever ends the one or refuses the other stops the stream
(`StreamsAreHeld`, `ControllerIsCurrent`); a start has fallen back, and a choice
been forgotten, only for a microphone that was missing (`ChoiceIsKept`); and of
the enumerations of an open dialog the newest, and no other, will show what is
plugged in, or has shown it, unless no list of the dialog was made with the
permission: then nothing is shown and nothing remembered (`ListIsComing`).

**Rollback drill.** `DrillInv` says at every step what the phase may take for
granted although others act on the site: the traces of its tail are of its own
version and phase, a proof that names the seeded room names it rightly as long
as no foreign room wrote, the fault deployment it follows is still the one it
reads from unless its number has moved on, and the counters it compares with
differ from those of D1 by its own events and by noise alone
(`CountersAreAnchored`). A checkpoint is then of the row that waits
(`JoinWaits`, `CheckpointIsTrue`), and an alarm without a retry in the traces of
the rollback is the one that took it away (`DrainIsTraced`).

Only model-checked, and why:

- `QueuedEventSettles`, `EveryRequestEnds`, `VerdictsComeInTheEnd`,
  `AttemptsEnd`, `PageKeepsUp`, and the part of `RefreshesAreRight` that says an
  update lands: liveness under fairness is outside what the prover does.
- `DeadlinesHold`: it holds for the writes of its run, not for any. A room saved
  every second puts its due alarm off for ever, so a proof would start from a
  hypothesis on when the writes stop, and count from there.
- `NothingUnasked`, `LoopsAreTold`, `StoreIsInOrder`, `ListensAsChosen`,
  `RefreshesAreRight`, `MeasurementsAgree`, `FeedbackIsSound`: the practice
  page, the Go page and the coach engine have no proofs yet.

## Where the code and its documents disagree

What follows was met while modelling. Where the model allows the behaviour, the
properties are stated so as to except it by name, or the run's bounds leave it
out, as said here.

Room milestones and rooms:

- The operations guide limits an event to 16 attempts
  (`docs/PRODUCTION_OPERATIONS.md:852`); an attempt is counted only when its
  failure is recorded (`worker.ts:346`), so an object evicted while it waits
  sends again without counting. Receipts make the repetition harmless.
- The same line gives an event a hard deadline of seven days.
  `reconcileRoomAlarm` (`worker.ts:621`) puts a due alarm at least a second
  ahead on every save, so a room saved more often than that keeps its queue
  waiting. `WriteTimes` ends the writes of `delivery_settles`.
- Dead letters outlive their thirty days while `deleteAll` of an idle room keeps
  failing: from its expiry on the alarm is for nothing else. `LettersExpire`
  speaks of rooms before their expiry. An idle time hardly longer than the deadline would also delete rooms
  with an event still queued; the code's (thirty days against seven) does not,
  and `RoomIdleTTL` is chosen likewise.
- A comment in `apply-setup-kit` says that the last topic index belongs to the
  replaced topics (`game.ts:335`); `settings` (`game.ts:297`) and
  `custom-topics` replace them and keep it.
- `acceptRoom` promises that an older HTTP snapshot never replaces a newer live
  update (`app.js:2988`); two snapshots of one version may differ in who is
  online, and the older of them is accepted.
- A submission that fails stops the controller and renders nothing
  (`finishTurn`, `app.js:2935`): until the next snapshot the page offers "End
  turn" and not "Resume", though it no longer runs the turn, and its clock, at
  zero, submits nothing. The driver has to end the turn.
- A device change while the dialog's permission prompt is open cancels what the
  prompt would show (`app.js:418`) and does not ask itself: if it finds nothing
  the dialog stays empty, whatever the user then answers, with "No named inputs
  are visible yet", until it is opened again or another device change comes. `ListIsFresh` asks for the list only if
  one of the dialog's enumerations was made with the permission and shown.
- When the fact of a new room's creation fails, its later facts are refused
  until its version passes that of the old room of the same code; a `joined`
  that arrives before its `created` is lost as a fact, though counted.

Model gateway: the action `custom-topics` clears the page's `topicDraft`
(`app.js:2980`), so what a host types while a draft is being generated is lost,
although the room keeps the newer list.

Practice:

- `docs/AI_AND_PRIVACY.md:256` says that leaving or finishing stops the
  microphone. `finishCoachingSession` goes on after three awaits (`app.js:1434`,
  `1450`, `1502`) when a new attempt may have replaced `coachingRun` and
  `practice`; it then clears the new run, whose microphone stays on unseen. The
  model marks this state `overtaken`, and `page` says what holds outside of it.
- Leaving while recogniser and recorder are stopping saves the attempt as
  standalone: the summary is made afterwards (`app.js:1442`), from the practice
  on the page, and the role in a loop is lost. The consents of the new practice
  decide what is kept of the old attempt. `astray` marks such an attempt, and
  `HistoryTellsTheLoops` excepts it; who leaves later, during the writes, loses
  nothing of the loop.
- A save or an upload under way when the history is deleted recreates its
  summary and enables the backup again.
- A retry that fails or is cancelled loses its loop and starts over as a
  baseline. "Try again" after such a leak does not stop the leaked run.
  `cloudProgress.save` has no time limit.
- `coach-engine.js:541` wants the validity of a recording to outrank advice on
  style, and `docs/TECHNICAL_ARCHITECTURE.md:263` wants missing callbacks to
  produce restore-input advice. With at least a second of missing frames, a long
  unpaused run and two or three signs of the words, the idea-boundary card
  scores above protect-input (58 against 55.5), and a drill of delivery is
  given. An attempt of three to eight seconds with missing frames gets the
  repeat-and-compare drill. `NextAttemptFits` excepts both.
- A late last frame after the computer slept makes a duration longer than
  600,000 ms: the backup is refused (`INVALID_INPUT`), though the attempt is
  saved locally.
- `deriveCalibration` can put the target below the speech threshold when that is
  above .75. With a voice less than 19 % above the noise ceiling the lower
  threshold falls below the noise, and a voice never stops; with a quiet voice
  (RMS under .005) the threshold of a calibration called high lies above the
  voice. The run samples levels between .005 and .7.
- The live count of pauses can go down, when a trailing glitch is absorbed;
  `longestSpeakingRun` bridges unknown gaps of 250 ms where `currentSpeakingRun`
  does not; the "resume" tip can come with the very frame that resumed; a tip
  stays when no frame is processed in the five seconds in which it would be
  cleared.

Go edition:

- `handleJoinRoom` takes a browser that is seated for one that reconnects
  (`server.go:462`), but looks under one lock and seats under another: of two
  joins of one browser both may pass. The second rebinds its token; the first
  seat stays in the roster, nobody's, and what its browser's streams counted for
  it stays with it. `ghosts` are those seats, and `PresenceIsCounted` excepts
  them and nothing else.
- A player who watches need not be shown online, as `OnlinePlayers`
  (`room.go:425`) would have it: a stream counts for the seat its browser had
  when it was opened, so a host who takes a seat later is offline until the page
  reconnects.
- `game.go:176` says that a late result can never collide with a turn created
  after a restart. The autosave is up to ten seconds behind, so a restart can
  hand out ids again, and a page rendered before it then acts on the new turn.
  `LateActionsMiss` says what holds without such a loss.
- `startPreview` (`turn.js:602`) does not number its requests: of two that
  overlap the first stream is never stopped. "End Turn" while `start()` waits
  for the microphone lets it run on until the page is swapped, and a lost
  submission then keeps refreshes away. A refused microphone of a destroyed
  stage clears the running flag of the new one. A late error of a destroyed
  stage's recogniser overwrites the remembered consent, towards classic play.
- `room.js:17` promises never to re-render under a running turn or an open
  dialog. The flag is looked at when a refresh is asked for, and the swap comes
  when it is answered: one that was asked for, or waited behind another, when
  the turn began takes the turn away; and so does a later one when the refused
  microphone of a destroyed stage has reset the flag. `RefreshWaitsForTurn` says
  that no other refresh does. One that waits behind one that lands keeps its target,
  so its answer goes nowhere; a lost one is not sent again; the first event of a
  new `EventSource` is only recorded.
- After a submission that failed the start controls stay disabled. The fallback
  of `requestSelectedStream` overwrites a newer selection and stores "auto".
  Words that come after `stop()` never reach the field that was submitted.

## What is abstracted

- **Payloads, names, wording.** A milestone is its creation time, an ordering
  number and the lifetime it belongs to. `stateVersion` is represented by the
  id, which grows with it. A summary is an id and one of two contents, an
  artifact its number of bytes.
- **Errors of D1** are one answer, `error`; `invariant` stands for a schema
  marker of another version or a lost receipt. Retention of `room_facts` is not
  modelled in delivery, only that of receipts; it is in `CloudStore`.
- **Setting the alarm** does not fail by itself; a handler that throws is
  retried by the platform, which is modelled as an eviction.
- **Game.** Clamping of inputs, silence limits, names and standings are left
  out; inputs range over the clamped values. In `start-game` the archiving of a
  finished game never happens, since a finished game has to be reset first; the
  model keeps the call as the code does. The index of a topic counts from 1.
- **Presence.** A lost socket stops counting as open before its close event is
  delivered. The platform is taken to deliver that event in the end; until it
  does the host counts as present. A `join` and the request for a topic
  generation are not noted as presence by the code, and neither by the model.
- **Routing.** The rows of the best-effort mode are keyed by a keyed hash of the
  code, those of the outbox by one of the room instance; the model takes the
  numbers 0 and the lifetime. Resets are not counted. In the scope of milestones
  the creator takes no seat, and a room expires only when no answer or task of
  it is under way.
- **Cloud progress.** Routes that do not exist for a method of the store, and
  the method with them; one version of the policy; the browser's defence against
  a repeated cursor and against more than its maximum of listed summaries.
- **Model gateway.** Request validation, prompts, offline templates and the
  second remote provider's own format.
- **Go edition.** The deck, names, the history of finished games, room codes,
  the rate limiter with its 10,000 keys, a page rendered between two changes, a
  handler that changes a room just removed from the registry.
- **Practice page.** Engine and microphone are awaited as one, and so are
  resuming the audio and loading the worklet; the retry path's
  `readCoachingSummary` cannot be reached. `Resume` turns all consents off, as
  the code does.
- **Room page.** A modal dialog blocks the page behind it; enumerations of a
  closed dialog are taken as cancelled (a prompt of theirs that is granted is
  `Permit`); a permission once given stays; labels are there or not as it comes
  (`named`).
- **Go page.** Levels, cues, labels and timers on display; `setup.js`, whose
  half-typed drafts a swap discards.
- **Coach engine.** Statistics of the level are a choice of the environment; the
  tip about the distance, strengths, the median pause and level consistency are
  left out. The shares of clipped frames, fillers and repetitions are compared
  with their limits exactly; the code rounds them to four and two decimals first.
- **Rollback drill.** A read that is bracketed by two checks of the deployment is
  one step; a wait that goes on and a poll that will be repeated are none, and
  the bound on their attempts is `Abort`. A wait looks at the deployment each
  time it polls, so a version that comes and goes between two polls is not seen
  by the drill and not by the model. Foreign rooms share one name. Traces may be
  lost and are not reordered. The validation of the fault configuration only
  reads; the checks of a canary and the smoke tests that a phase begins with are
  left out.

## Plan

Done: milestone delivery with its abstract specification; game, deck, presence
and routing; cloud progress; the model gateway; Go rooms; the pages of both
editions; the coach engine; the rollback drill; proofs of the safety properties
of everything on the servers, of the microphone on the room page, and of the
drill.

Left:

1. The local database of practice: `StoreIsInOrder` is the next property worth a
   theorem; the invariant is `ArtifactsAreAccounted` with rows whose times
   agree, and one lemma per transaction of `CoachStorage`.
2. The other pages: `NothingUnasked` of `CoachPage` and `StreamsAreStopped` of
   `GoTurnPage`, each an invariant about who owns a stream at each await, as
   `PageInv` is of the room page.
3. `DeadlinesHold` under an explicit hypothesis about the times of writes
   instead of the run's `WriteTimes`.
4. Of the coach engine, the properties of one snapshot (`TipsAreGrounded`,
   `BackupsAreAccepted`), which need no fold; after them the measurements, by
   the induction that `GoRoomProofs` uses for sums (`HoldsAll`).

Not planned: the audio worklet, rendering, static data, logging, start-up wiring
and the scripts other than the rollback drill. They keep no state whose order of change matters.

## How to run it

    tlc -workers 2 -config delivery.cfg MCRoomMilestone
    tlc -workers 2 -config game.cfg MCRoomGame
    tlc -workers 2 -config presence.cfg RoomRouting
    tlc -workers 2 -config cloud.cfg MCCloudProgress
    tlc -workers 2 -config drill.cfg MCRollbackDrill
    tlapm CloudProgressProofs.tla

Which module goes with which configuration is in `PROJECT.json`. A run has
between sixty thousand and one and a half million states and takes one to three
and a half minutes; the longest proofs take some minutes each.
