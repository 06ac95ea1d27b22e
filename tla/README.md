# EngagePulse: specification and proofs

EngagePulse takes casino events from partners (deposits, bets, heartbeats) and turns them into
player rewards: a welcome credit for a first deposit, a VIP tier from the sum of the bets, a
velocity flag for bursts of bets. The path of an event is

    POST /v1/events -> outbox row -> publisher -> Kafka player.events -> consumer -> worker
                                                                           |          |
                                                              player.events.dlq    Postgres tables

and the promise is that a partner's 202 means the event takes effect once, whatever crashes,
is retried or is delivered twice. A web console shows what happens on that path: live counters,
a demo, a contract probe, the dead letters. This directory models the path and the console's
pages, checks them with TLC and proves what matters most with TLAPS.

## Inventory

| Component | State it keeps | Operations | Talks to |
|---|---|---|---|
| ingest API (`internal/api/httpapi/server.go`, `internal/ingest`) | none of its own | `acceptSignedEvent` (validate, verify, enqueue, 202), player and DLQ reads | outbox store, tenant store, inspector |
| outbox store (`internal/store/outbox.go`) | table `outbox`: status, id per event | `EnqueueEvent`, `ReclaimPublishingOutbox`, `ClaimPendingOutbox`, `MarkOutboxPublished`, `MarkOutboxPublishFailed`, `CountOutboxBacklog` | Postgres |
| outbox publisher (`internal/outbox`) | place in `flush`, its batch, a gauge | `Run`, `flush`, `refreshPendingMetric` | outbox store, producer |
| Kafka producer, topics (`internal/kafka/producer.go`, `topic.go`) | the log `player.events`, one partition | `Publish` | broker |
| Kafka consumer (`internal/kafka/consumer.go`) | committed offset, reader position, message and attempt in hand | `Run`, `processEvent` | broker, worker, DLQ writer |
| DLQ writer, inspector, list (`internal/kafka/dlq.go`, `inspect.go`, `httpapi/dlq.go`) | the log `player.events.dlq` | `PublishDLQ`, `ReadRecent`, `handleListDLQ` | broker |
| worker (`internal/worker`) | none of its own | `Handle`: one transaction over the player tables | rules, ledger, store |
| rules engine (`internal/rules`) | thresholds | `Apply` = welcome, VIP, integrity | pure |
| ledger (`internal/ledger`) | `ledger_entries`, `balances` | `CreditTx` | Postgres |
| player and event tables (`internal/store/player.go`, `events.go`) | `players`, `player_state`, `processed_events` | marks, state, counts, snapshot | Postgres |
| tenants and keys (`internal/store/tenant.go`, `ingest/hmac.go`) | `tenants`: current and previous HMAC key | `RotateHMAC`, `RestoreHMAC`, `VerifyKeys` | Postgres |
| migrations (`internal/store/migrate.go`) | `schema_migrations`, an advisory lock | `Migrate` | Postgres |
| lifecycle (`internal/app`) | goroutines of one process | `Run` | everything |
| metrics (`internal/metrics`) | counters and gauges of one process | `Inc` after a commit, `GET /metrics` | ingest, consumer, worker, publisher |
| live counters page (`web/lib/use-live-architecture.ts`, `architecture.ts`) | last reading, glow, timer | a poll loop, "Retry service" | health and metrics routes |
| API health (`web/lib/use-api-health.ts`) | online or not | probes on an interval, on demand, after a failed demo | health route |
| arena (`web/components/pulse-theater.tsx`, `web/app/api/demo/route.ts`) | the story's beat, a run | Ignite: post, wait 3.2 s, read players and counters | ingest API, `GET /v1/players/{id}`, metrics |
| contract probe (`web/app/api/contract/route.ts`) | readings of one request | post twice, poll, compare counters, poison | ingest API, metrics |
| shadow scoring (`internal/shadow`, `web/lib/shadow-score.ts`) | none | score a recorded pack by rule and by mock, compare | pure |
| dead-letter inspector (`web/components/dlq-inspect.tsx`, `web/app/api/dlq/route.ts`, `redriveDeadLetter`) | letters shown, a load, a redrive | load both brands, look a letter up again, post it | DLQ list, ingest API |
| replay, rule patch, tools API, load and soak programs | none | command-line and console helpers | worker, API |

What is hard here: three asynchronous loops over two stores that share no transaction
(Postgres and Kafka), so every boundary between them can fail with an unknown outcome; a
crash between any two of their steps; redelivery and reordering on both sides of the topic;
cumulative commits; a human's redrive; and rules that must count each event once. The console
adds readings taken piecemeal: two requests that make one picture, answers in any order,
counters that all traffic moves and a restart sets to zero, fixed waits for work that may not
be done. The list of hazards, each at its line with the properties that cover it, is in `PROJECT.json`.

Per component, what makes it correct:

* outbox: a 202 is never lost on the way to Kafka; a row says published only if it is; every
  row is sent in the end; one publisher never sends the same row twice without a fault.
* consumer: the committed offset never passes a message that is neither applied nor parked;
  nothing is parked before its attempts are used up; every message is settled.
* worker, rules, ledger: each event takes effect once; credit, tag and mark go together; the
  score is the sum of the bets; the flag means a burst.
* whole program: every 202 stays accounted for from POST to effect, and what partners see is
  what `Delivery` promises.
* keys: a rotated key is honoured until a second before the end of its overlap at least, and
  never after it; the key id a partner is told goes with its secret.
* migrations: each file is applied once, in order, and recorded exactly if it was; starting
  together makes nobody fail.
* DLQ list: the newest letters of the brand in what was read, and always an answer. Snapshot:
  no tag without its credit.
* metrics: until a restart `ingested - processed` hides no accepted event that has no effect.
* console: the counters shown come to rest at the truth, a demo's difference covers its run,
  a verdict "pass" is deserved, a board row is right whatever order its pack is in, a failed or
  slow demo frees its button, the inspector hides no letter of a later second than one it shows.

## Modules

    Domain <- Topic <- Outbox <-------------- Pipeline -> (Delivery)
       ^         ^                               |
       +- Rules <- Worker <- Consumer <----------+
                     ^--- WorkerTx (implements Worker), Snapshot
    Delivery <- Metrics <- LiveCounters, ApiHealth <- Arena, ContractProbe
    DlqList <- DlqInspect;  KeyRotation, Migrate, ShadowRule stand alone

    MCDatabase = WorkerTx, KeyRotation, Migrate
    MCConsole  = LiveCounters, Arena, ContractProbe, ShadowRule, DlqInspect

(`A <- B`: B EXTENDS A.) `Pipeline` implements `Delivery`, and `Metrics` counts over
`Delivery`: the console's pages see the path through its promise, not through its tables.

| Module | Models |
|---|---|
| `Domain` | events with their player, type and amount; the rows `ensurePlayer` creates |
| `Topic` | the log `player.events` and the budget of faults |
| `Rules` | `rules.Engine` as operators on a state record, int64 addition included |
| `Worker` | the worker's transaction `Handle` over marks, state, ledger, balance, and the clock |
| `Outbox` | ingest's transaction and the publisher loop, one action per database or broker call |
| `Consumer` | `Consumer.Run` and `processEvent` around `Handle` |
| `Delivery` | the abstract promise: accepted, applied, parked events and what players were paid |
| `Pipeline` | the process of `app.Run`: ingest, publisher and consumer together, exit, crash, restart, redrive |
| `WorkerTx` | `Handle` statement by statement, in Postgres transactions that overlap |
| `Snapshot` | the two queries of `GetPlayerSnapshot` between the worker's commits |
| `KeyRotation` | `RotateHMAC` by its three statements, the live keys, `VerifyKeys` |
| `Migrate` | `Store.Migrate` by several processes of several builds |
| `DlqList` | `handleListDLQ` and `ReadRecent` next to writers and retention |
| `Metrics` | the counters of `GET /metrics`: what is counted when, lost and reset, next to the truth |
| `LiveCounters` | the architecture page's polls, their answers, the timer, the glow |
| `ApiHealth` | the probes that decide whether Ignite is enabled |
| `Arena` | `runDemo` and the handler of `POST /api/demo` |
| `ContractProbe` | every call of `POST /api/contract` that reads or writes state, and its verdicts |
| `ShadowRule` | the velocity rule over recorded times, the mock scorer, the board's row |
| `DlqInspect` | the inspector's loads and redrives over `DlqList` |
| `MCWorker`, `MCOutbox`, `MCConsumer`, `MCPipeline`, `MCDatabase`, `MCConsole` | instances for TLC |
| `WorkerProofs`, `WorkerTxProofs`, `OutboxProofs`, `ConsumerProofs`, `PipelineProofs`, `KeyRotationProofs`, `MigrateProofs`, `ConsoleProofs` | theorems and proofs |

How state and actions correspond to the code:

* **An event** stands for its key (tenant, event id) with the payload it was accepted with.
  Every table is keyed by the pair, and so is the message, so brands need no modelling of
  their own. Events are the ones `ValidateEvent` lets in (`ValidatedAssumption`). A key posted
  again with another payload meets the row of the first and changes nothing.
* **Outbox.** `status` and `rowId` are the columns of `outbox`; `pc` is the place in `flush`
  (`idle`, before the reclaim, before the claim, in the loop, before either mark, `down`).
  Each call is one action; each error return is one more, which includes the case of a
  statement that took effect although its answer was lost. `StopPublisher` is a process death.
* **Topic.** One partition: the producer lets the broker create the topic
  (`AllowAutoTopicCreation`, `docker-compose.yml:37`), and one is the broker's default;
  `createTopic`, which asks for one, is only called by replay, `ReadRecent` and tests. A publish appends. An append
  may be kept although `Publish` returned an error, and may be repeated by the writer's retry.
* **Consumer.** `position` is kafka-go's own reading position, `committed` the group's
  offset: a fetch moves the first, a commit sets the second to the message in hand (a commit
  covers all earlier messages), a restart or rebalance sets the first back to the second. The
  reader is external; what is modelled is how `consumer.go` relies on it.
* **Worker.** Postgres transactions that fail change nothing, so `Handle` is the committed
  one; failed attempts are `AttemptFails` and `InjectedFailure`, and `CommitAnswerLost` is the
  commit that succeeded but returned an error. A duplicate ledger row would abort the
  transaction at its commit although `worker.go:109` goes on: the guard of `CreditTx`.
* **WorkerTx.** A transaction is a handler's `step`: a statement sees what is committed, the
  INSERTs of player rows and of the mark and the UPDATE of the state wait for whoever holds the
  row (`RowsHolders`, `MarkHolders`, `StateHolders`), and all becomes visible at `CommitTx`.
  `processed_at` is Postgres' `now()`, the start of the transaction (`began`).
* **Snapshot.** `Queries` is the order of the two reads; each sees what is committed when it runs.
* **KeyRotation.** One brand's row; a secret stands for the signatures made with it. Time is in
  ticks, `TicksPerSecond` to a second: the end of an overlap is computed to the tick, cut to a
  whole second when it is stored, and compared with a clock cut likewise. The history variable
  `replaced` keeps the end as it was computed, and `cut`, that a later update took the slot.
* **Migrate.** Files are numbers in the order of their names. A session that ends, by crash or
  by `Release` after the deferred unlock, gives its lock back.
* **DlqList.** Letters are offsets of the one partition; the reader jumps to the first retained
  offset when its own is gone, as kafka-go does.
* **Pipeline.** One process: a crash or a failed consumer takes down both loops
  (`app.go:119`), a supervisor starts it again. `Redrive` is the console's POST.
* **Metrics.** `answering` holds the POSTs whose row is committed and which are not counted
  yet, `uncounted` the increments the consumer has still to make, in the code's order. A crash
  loses both, and every counter.
* **LiveCounters, ApiHealth.** A poll asks health and metrics at once; each answer is taken from
  the Go process when it is given and shown when it arrives. A lost answer is a failed `fetch`.
* **Arena.** `beat` is the page, `demo` the BFF's handler: it reads the counters, posts one event
  after the other, waits, reads two players and the counters in any order. A handler whose page
  has gone posts on; its posts are then a partner's.
* **ContractProbe.** `kpc` is the handler's step; what it read stays in `seen`, so a verdict is
  an operator over two readings. The watch on the poison event reads counters and player by two
  calls (`WatchCounters`, `WatchPlayer`).
* **DlqInspect.** Both brands' lists come from `DlqList`'s handler at moments of their own. The
  route orders them by the *text* of `failed_at`, which Go writes without the zeros a fraction
  ends in, so "…00.5Z" comes after "…00.52Z" and "…00Z" after both: `TextAfter` is that order on
  times, given the ticks a unit of each digit stands for (`Units`). `Begins(t, u)` says that the
  digits of `t` begin those of `u`.
  `loadFrom` and `shownFrom` are history: the letters there were when the load began.

`processed_at` is set with the clock of the transaction; with the tick being coarse, clock and
database time are the same clock (the code compares Go time with database time).

## Runs

| Run | Instance | What it shows |
|---|---|---|
| `worker` | 2 players, 7 events, 3 ticks, window 1, limit 2, scores that wrap beyond 7, a client that reads one player | `WelcomeOnce`, `LedgerFollowsMarks`, `ScoreIsSumOfBets`, `FlagMeansBurst` under every delivery order and repetition; `TagShowsCredit` of the client's answers |
| `outbox` | 1 publisher, 3 events, batch 2, 3 faults | `NothingLost`, `PublishedMeansInTopic`; with one publisher also `BatchIsPublishing`, `PublishedIsFinal`, `DuplicatesNeedFaults`; every row is published (`SavedIsPublished`) and the gauge settles at 0 (`GaugeSettles`) |
| `outbox_overlap` | 2 publishers, 2 events, 1 fault | no starvation when a publisher reclaims the other's rows; `NothingLost` and `PublishedMeansInTopic` are proved for any number of publishers |
| `consumer` | topic of 3 messages, 3 events (one poison), 2 attempts, 4 faults | `CommittedIsSettled`, `GivingUpCostsAttempts`; every message is settled (`EveryMessageSettles`) |
| `consumer_unparked` (violation) | 4 messages, 3 faults | a failed dead letter is passed by the next commit |
| `consumer_dead_credited` (violation) | 4 messages, 3 faults | a dead-lettered event was credited |
| `pipeline` | 2 deposits of one player, batch 2, 2 attempts, 2 faults, 2 ticks | `AckedIsAccountedFor`, `OnlySavedTakesEffect`, `Pipeline` implements `Delivery`, and every saved event is applied or parked (`SavedIsSettled`) |
| `pipeline_redrive` (violation) | 1 attempt, 2 faults | a redrive never runs |
| `database`, rows `worker` | 2 handlers, two deposits of one player and a bet of another, 2 ticks | statements implement the atomic `Handle` (`ImplementsWorker`); `LedgerIsExact` even where they do not; every transaction ends |
| `database`, rows `tenants` | 2 rotations in every interleaving, an overlap of 2 s, 8 ticks of half a second, 1 lost answer | a replaced key is good until at most a second before its end and never after it (`OverlapHonoured`); the key id told goes with the secret (`AnswerIsUsable`) |
| `database`, rows `schema` | 3 processes, builds of 2 and 3 files, 2 faults | in order, once, recorded (`SchemaIsPrefix`, `DoneIsMigrated`); nobody fails for another (`FailuresAreFaults`); everyone ends |
| `console`, page `counters` | one bet posted at most once, one crash, one lost answer; the page left, if at all, before either | `LagHidesNothing`; what the page shows comes to rest at the truth (`CountersSettle`) |
| `console`, page `arena` | a run of two deposits, a partner's post in between, no crash | the difference shown counts all the run's posts and no credit nobody was paid (`DeltaCoversRun`) |
| `console`, page `status` | a run of one deposit, two probes that overtake each other, one crash, one lost request; the worker idle | Ignite comes back (`ArenaComesBack`) |
| `console`, page `contract` | the deposit twice, a poison event, another brand's deposit; injected failures, a lost commit answer, a crash that ends it | a verdict that passes is true (`VerdictsAreTrue`) |
| `console`, page `shadow` | packs of at most 4 events, times 0..3, minute 1, limit 2 | rule, mock and agreement are what they should be in any order of the pack (`BoardIsRight`) |
| `console`, page `list` | 3 letters of 2 brands, a window of 2, clocks 1 apart, retention | the right letters in the right order (`ListIsRecent`), an answer always (`EveryListEnds`) and a deadline met only after a trim (`TimeoutMeansTrimmed`) |
| `console`, page `letters` | the same list, in half seconds; loads and redrives | of the letters there were when it asked the page hides none of a later second than one it shows (`InspectorIsRecent`) |
| `console_lag` (violation) | any page; the contract probe posts twice | a duplicate POST leaves a lag with nothing left to do |
| `console_payoff` (violation) | the arena pages | the pay-off is announced before the worker has paid |

`MCDatabase` and `MCConsole` hold several instances in one state space: a variable chosen in the
initial state (`rows`, `page`) says what a behaviour is about, the others' variables stay as
they are, and the states add up instead of multiplying. That loses nothing the code has: the
rows of the worker, of a brand's keys and of the schema are related by no statement, and the
pages meet only in the Go process's counters and the DLQ topic, whose traffic each behaviour
has. Each module's fairness is required of the behaviours about it only.

The violations are what documents, comments or tests say and the code does not do; the
findings in `PROJECT.json` quote both sides.

**Bounds.** `MaxFaults` bounds the errors, lost answers and crashes of one behaviour (every
one costs one fault; the number needed for the interesting cases is two: lose an answer, then
crash). `MaxTopic` bounds what others write to the topic in the `consumer` runs only.
`MaxTime` bounds the clock; `Window` is one tick, so three ticks hold bursts that overlap,
touch and miss the window. Thresholds are scaled (tier at 3 and 6, limit 2, credit 5) so that
two or three events cross each; in `worker` the tiers are at 3 and 5 and `int64` is scaled too
(`ScoreBound` 7), so that the bets of one player go through both tiers and wrap. Three events
are enough for a full batch and a row behind it; two deposits of one player for a second welcome. `MaxAttempts` is 2 (or 1), enough for a first
attempt that is retried and a last that is not. Events differ in type, player or amount, so
only two equal bets of `worker` (a run of safety properties) are taken as symmetric.

In `console`, `MaxIngested` bounds the POSTs partners make in one process, `MaxRestarts` its
crashes, `MaxGlitches` and `MaxUnanswered` the answers and requests of the browser that get
lost, `MaxPolls` the contract probe's polls (6 and 8 in the code; two already hold a poll that
comes too early and one in time), `MaxPack` a shadow pack. Two probes at once are enough for an
old answer that comes after a new one. `Units` {1, 2} are seconds and halves, the fewest digits
that put a text out of its time's order; the proofs take any. A rotation's overlap of 4 ticks
ends, by the parity of the tick it begins at, on a second or between two. Each page's action in `MCConsole`
says what of the traffic it leaves to another page: `arena` has no crash because `status` has,
`counters` has no failed attempt because `contract` has, on `status` the consumer stands still because
the button asks nothing of it, and one retry, one crash and one lost
answer are each enough for the difference they make to a reading. Two brands, a window of two
letters and three letters are the smallest list that loses, cuts and reorders; that their event
ids alternate and, on the page `letters`, that Acme's consumer has the faster clock pick one of
the symmetric cases.

The `consumer` runs stop where the topic is full and read; in `database` the clock and the
rotations are used up and every process has returned; in `console` the pages are left, the
handlers have answered and the DLQ is as full and trimmed as its bounds let it be: these do not
check deadlock, the others do.

Three properties hold only outside named cases. The cases stay in the model; a property names
them by a history variable or a state predicate. `WorkerTx` is `Worker` until two transactions
of *different* events of one player overlap (`crossed`): then the second save overwrites the
first, and only `LedgerIsExact` is left. A redelivered event may overlap itself, as it does
when the old owner of a partition still handles the message its successor starts with.
`InTick` leaves out commits in a later tick than their transaction began: a mark is dated at
the beginning, and `Worker` has one moment for both. In `KeyRotation` a key whose slot a later
rotation (or a retry) took (`cut`) may die before its end, though it never outlives it, and
`raced` says that a rotation met a row another one had changed under it: both get the same key
id then, and requests with the first secret and its id are refused; those without a key id are
still served, which `OverlapHonoured` goes on to say.

Known limits that no run states as a property: `int64` scores wrap (`ScoreIsSumOfBets` says that
they are the sum but for that, and that a wrapped score takes the tier with it); a raced or
repeated rotation behaves as just said; an overlap of a fraction of a second might not be
honoured at all, but the API passes whole seconds (`httpapi/hmac.go:44`); of two letters of one
second the inspector may put the newer after the older, and hide it, because it sorts texts; the
DLQ list cuts to the newest 100 letters of all brands before it filters, so a busy brand hides
the letters of another although `docs/architecture.md:106` promises the last N "for that brand"; the contract
probe says shadow scoring wrote if a credit of anybody lands between its two readings
(`ShadowWritesNothing` states what it means to say); the worker's velocity rule counts
processing times and the shadow board event times, so they may disagree about a player.

**Fairness.** The publisher loop (a ticker in a goroutine), the consumer loop, the exit after
a consumer error and the restart of a dead process are weakly fair: the first three are
goroutines that are always runnable; the restart is assumed of whoever operates the program
(`docker-compose.yml` has no restart policy; `docs/architecture.md:68` counts on a restart).
Faults, ticks of the clock, posts and redrives have no fairness. `WorkerTx` is strongly fair
to a handler's statements: Postgres queues those who wait for a lock, so one that comes free
again and again is had in the end. `Migrate` needs only weak fairness (each process calls it
finitely often), and `DlqList` that a request made is worked on until its deadline
(`HandlerSteps`). On the console the process is started again and its consumer works on
(`BackendFairness`; on `status` only the restart), a timer that is set fires and a request that
was asked is answered or fails (`LoopAgain`, `PollSteps`, `ProbeSteps`), the interval starts probes (`Refresh`), and a
run's beats and its handler's steps are taken (`Beats`, `RouteSteps`): timers and promises of a
page that stays open. Nothing makes a visitor press a button or a partner post. Liveness is
shown for finitely many faults: a broker that never answers again keeps rows pending for ever,
as the design intends.

## Proofs

Every invariant and every action property a passing run checks is also a theorem, for all
events, players, thresholds, batch sizes, attempts, fault budgets, secrets, overlaps, letters,
windows and packs the assumptions allow. The assumptions are on constants, named, and evaluated
by TLC in every run: `EventsAssumption`, `ValidatedAssumption`, `RulesAssumption`,
`WorkerAssumption`, `HandlersAssumption`, `WatchedAssumption`, `TopicAssumption`,
`OutboxAssumption`, `ConsumerAssumption`, `RotationAssumption`, `MigrateAssumption`,
`MetricsAssumption`, `ArenaAssumption`, `ProbeAssumption`, `ShadowAssumption`,
`DlqListAssumption`, `InspectAssumption`. Two deserve a word. `ProbeAssumption` says that the
probe's ids and players are its own and that only its poison event carries the injected
failure: the route puts the time of the run into every id and player, and the worker injects on
the prefix `poison-`. `InspectAssumption` says that the two brands have different ranks (the
route puts their lists together in a fixed order) and that the units of a time's digits divide
each other, from a second down to a tick. `PROJECT.json` lists the theorems.

**`WorkerProofs`.** `WorkerTypeCorrect`, `WorkerCreditsOnce` (`WelcomeOnce`) and
`WorkerLedgerFollowsMarks`: the invariant `WorkerInv` is the three together, because that a
credit never meets an old ledger row follows from the event having no mark, and that the balance
is 0 or one credit from the tag. `ApplyResult` says all that is needed of the rules.
`WorkerSumsBets` (`ScoreIsSumOfBets`) and `WorkerFlagsBursts` (`FlagMeansBurst`) need what the
rules count: `CountsInv` adds that no mark is later than now (`MarksArePast`), so that the window
of a burst ends at the event in hand. A score is a sum over a set, and the sum is defined by
recursion over its subsets: `SumExists`, `SumUnique` and `SumAnyOrder` take it apart by a
smallest subset for which the statement fails (well-foundedness of the strict-subset relation,
which needs no induction theorem with an operator parameter), and `SumAdd` is what a transaction
uses. The sum holds modulo the width of `int64`; `HandleScore` counts the wraps.

**`WorkerTxProofs`.** `TxLedgerExact` (`LedgerIsExact`): who inserted an event's mark is alone
with it and finds no committed one (`HoldersAlone`, `HeldIsNew`), and what is to be credited is a
deposit (`CreditForDeposit`), so a balance added to at the commit stays the sum of its entries,
whatever else overlaps. `TxImplementsWorker` (`ImplementsWorker`): until two events of one player
have overlapped, a handler is the only one with its player's rows (`SamePlayerSameEvent`), so what
it read is still stored (`SeenIsStored`) and what it computed is what `Handle` would compute now
(`ResultIsNow`); a commit is then `Handle` and every other statement a stutter.
`SnapshotTagShowsCredit` (`TagShowsCredit`): a tag once read stays true (`TagsReadAreTrue`), and
the balance read after it is the credit.

**`OutboxProofs`.** `OutboxTypeCorrect`, `OutboxLosesNothing` (`NothingLost`),
`OutboxPublishesWhatItSays` (`PublishedMeansInTopic`), for any number of publishers. The mark
comes two steps after the send, so the invariant adds `PublisherHolds`: a publisher holds saved
rows only, and one about to mark has its row's message in the topic. For one publisher:
`OneKeepsItsBatch` (`BatchIsPublishing`), `OnePublishesForGood` (`PublishedIsFinal`) and
`OneSendsOnceButForFaults` (`DuplicatesNeedFaults`), whose invariant counts what will be sent
although it was sent: copies in the topic and rows still to send that have one are together at
most the faults.

**`ConsumerProofs`.** `ConsumerCommitsSettled` (`CommittedIsSettled`): a commit is cumulative, so
`BehindIsDone` says long before it that all before the message in hand is done, and all fetched
but that message (a rebalance moves the reader away from it). `ConsumerImplementsWorker`: every
consumer step is a worker step or leaves the tables alone, from which `ConsumerCreditsOnce`
follows. `ConsumerGivesUpLate` (`GivingUpCostsAttempts`): `PaidInv` counts the attempts of the
message in hand as faults already paid.

**`PipelineProofs`.** `PipelineLosesNothing` (`AckedIsAccountedFor`), `PipelineAppliesSaved`
(`OnlySavedTakesEffect`), and two refinements. `PipelineImplementsDelivery`
(`ImplementsDelivery`): the whole program keeps its abstract promise. `PipelineImplementsWorker`:
to the player tables it is the worker, so what is proved of the worker holds from POST to table,
through both loops, crashes and redrives (`PipelineCreditsOnce`, `PipelineCountsBetsOnce`). The
invariants of both halves are invariants of the composition, because each sees the other's steps
as its environment's (`PublisherFrame`, `AcceptFrame`, `OutboxUntouched`); `Effect` sorts every
step by what it does to `Delivery`'s variables: accept, apply, park, or nothing.

**`KeyRotationProofs`.** `RotationHonoursOverlap` (`OverlapHonoured`), `RotationAnswersWell`
(`AnswerIsUsable`). A replaced key whose slot nobody took is the row's previous one, with the end
that was computed for it, and whatever replaced key is in the slot has its own end there
(`SlotHasItsKey`); what the two cuts to seconds make of a comparison is `UnixOrders`. While no
rotations race the ids grow (`IdsGrow`), so a key and the one that replaced it have different
ids, and an answered secret is with its id (`ToldIsItsKey`).

**`MigrateProofs`.** `MigrateAppliesInOrder` (`SchemaIsPrefix`), `MigrateFailsByFaultOnly`
(`FailuresAreFaults`), `MigrateDoneIsMigrated` (`DoneIsMigrated`). That a commit appends the next
file rests on a check made several steps before; the invariant adds that who runs has the lock
(`RunnerHasLock`) and that the file in hand is the next (`NextIsMissing`).

**`ConsoleProofs`**, a section for each page:

* `MetricsLagHidesNothing` (`LagHidesNothing`). The invariant counts both sides of the
  difference: an accepted event is counted or its POST is not answered (`AcceptedIsCounted`), an
  event counted as processed, or about to be, is applied (`ProcessedIsApplied`); a restart voids
  both.
* `MetricsImplementsDelivery`, `ArenaImplementsDelivery`, `ContractImplementsDelivery`: the
  process these pages read, with everybody's posts, is `Delivery`, which `Pipeline` is proved to
  implement, so what is shown here of the counters is shown over the promise the program keeps.
  `DeliveryPaysOnce` says what the promise is worth: a player has the credit once exactly if a
  deposit of theirs has taken effect.
* `ArenaDeltaCoversRun` (`DeltaCoversRun`). The same for credits: only a deposit that was
  applied pays its player (`PaidForDeposits`), and a credit counted or about to be is one paid
  (`CreditedIsPaid`). `ReadingsSpanRun` follows the handler: what it has posted so far is between
  its first reading and now.
* `DlqListTimesOutIfTrimmed` (`TimeoutMeansTrimmed`): while retention is behind the reader, it has
  read every letter from its start to its place (`ReadingOnTrack`).
* `DlqListIsRecent` (`ListIsRecent`). The list is sorted, and that a sorted arrangement exists
  and is the one cut is a proof about `CHOOSE`: of a strict total order on finitely many letters
  the number of those before each is its place (`SortExists`, with `NewerOrders`, `SortedCut`).
* `DlqInspectorIsRecent` (`InspectorIsRecent`): from the moment a brand's list is made, a letter
  due to it is in it or the list is full of newer ones (`BrandListOK`), whatever is appended and
  trimmed afterwards; merging and cutting lists with that property keeps it (`MergedLetters`). The
  order of the merge, that of the texts, is a strict total order (`TextsOrder`) and keeps whole
  seconds (`TextsKeepSeconds`), because the units of the digits divide each other
  (`UnitsApart`, `BeginsFurther`).
* `ShadowBoardIsRight` (`BoardIsRight`): the window rule flags an ordered pack exactly when a
  limit of bets lies within a minute, by the first and last bet of the burst (`FirstAndLast`), and
  every rule flag is a mock flag.
* `ContractVerdictsAreTrue` (`VerdictsAreTrue`), of `CalmContractSpec`. The verdict on the poison
  event compares retry and letter counts of two readings with constants; it is right only if
  nothing else is retried, so the theorem, like the run, is about behaviours in which no attempt
  fails but the injected ones and those whose commit took effect (`OnlyInjectedFail`), and, as
  `VerdictsAreTrue` says, nobody else posts and nothing crashes. `RetriesFrom` counts the poison
  event's retries from the reading before its post: its letter is written after the last of them
  is counted, and so no reading shows more of the letter than of the retries (`ReadingsRight`).

**Only model-checked** are the liveness properties, since liveness under fairness and ENABLED are
out of the prover's reach: `SavedIsPublished`, `GaugeSettles`, `EveryMessageSettles`,
`SavedIsSettled`, `EveryTransactionEnds`, `EveryoneGetsThrough`, `CountersSettle`,
`ArenaComesBack`, `EveryListEnds`. The violations are counterexamples of TLC.


## Plan

Done: the path (`Outbox`, `Worker`, `Consumer`, `Pipeline`, `Delivery`), the database
(`WorkerTx`, `Snapshot`, `KeyRotation`, `Migrate`), the dead letters (`DlqList`, `DlqInspect`),
the metrics and the console (`Metrics`, `LiveCounters`, `ApiHealth`, `Arena`, `ContractProbe`,
`ShadowRule`), with their runs, and the proofs of all their safety properties. Next, in order:

1. What `WorkerTx` implements: the worker's theorems carried over to its committed tables, as
   theorems of their own.
2. The safety half of the liveness arguments: what holds of a consumer or a publisher that is
   stuck, as an invariant.
3. `Replay`: the Kafka replay's publisher next to the application's, on one outbox. Two
   publishers on one outbox are already `outbox_overlap`, an event applied twice `worker`; what
   is left is the replay's own wait for its player to come to rest.

## Not modelled

* HTTP and gRPC plumbing, listeners, the graceful shutdown's deadline: I/O around the handlers
  that are modelled.
* Replay (see the plan), the tools API and rule patches (they run commands and print a language
  model's proposal), tracing, configuration, the load and soak programs, generated code: they
  keep no state these properties depend on.
* The console's presentation. Of the repository's TypeScript lines about nine in ten are
  `web/components/ui`, a vendored library of 227 files of which twelve are imported: dialogs,
  menus, sliders and animations without any say in what the program does. `ops-panels.tsx`,
  `app-shell.tsx`, `pulse-field.tsx` and the diagram only lay out what the hooks and routes above
  have read. Measured over all TypeScript lines the share the definitions stand for is
  therefore small, and cannot be large without modelling a component library; the console's
  hooks, routes and handlers that decide something are modelled, and so are the Go packages.
* Several partitions of the topics (see **Topic** above), malformed dead letters (the
  program writes none), the signature itself (taken to be its secret).
