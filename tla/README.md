# Vintrack: a TLA+ model of the worker and its services

Vintrack watches Vinted catalogs for its members, alerts them on Discord and
Telegram, and lets them buy what was found through a browser extension.  This
directory holds the specification of its concurrent core, the TLC instances
that check it and the TLAPS proofs about it.  Paths below are relative to
`src/`.

## 1. Inventory

| Component | State | Operations | What is hard |
|---|---|---|---|
| Alert outbox and dispatcher (`apps/worker/internal/database/alert_outbox.go`, `apps/worker/internal/scraper/alert_dispatcher.go`) | tables `alert_notifications`, `alert_deliveries`, `alert_dedupe_claims`; a channel of claimed deliveries, an in-flight counter, a pool of sender workers | enqueue (with deduplication), claim a batch, send, complete / fail / cancel / retry, defer a destination, recover leases, expire, prune | leases that run out while a worker still sends; an answer of the database that is lost; a crash between the provider's answer and its record; two sweeps racing the workers |
| Alert pipeline (`scraper/alert_pipeline.go`) | enrichment jobs, a deadline timer per item, shared seller lookups and refresh keys, a bounded alert channel | arm a deadline, look a seller up, judge, enqueue, retry | the timer against the lookup; an answer shared between jobs; an enqueue that committed and was not answered |
| Seller enrichment scheduler (`scraper/seller_scheduler.go`) | one queue per monitor and source, a round robin pointer | submit, select, dispatch, refresh the age of starved jobs | fairness under lanes that come and go |
| Monitor manager and tasks (`scraper/manager.go`, `scraper/engine.go`) | running tasks with their configuration, pending stops | synchronise with the database, start, stop, restart on a changed configuration | a stop that is still draining when the next synchronisation comes; resume against seed |
| Client pools, hedged fetching (`scraper/client_pool.go`, `hedged_fetch.go`, `region_fetcher.go`) | pooled HTTP clients with failure counts, hedge timers | borrow, replace, reconcile, first answer wins | replacing a client another goroutine holds |
| Free proxy pacing and maintenance (`scraper/free_proxy_pacing.go`, `cmd/main.go`, `cmd/free_proxy_uk_canary.go`) | token buckets per region, quarantine and canary states in the database | pace, validate, quarantine, release | several checkers on one list |
| Price watches (`scraper/price_watch_*.go`, `database/price_watch.go`, `apps/control-center/src/actions/price-watch.ts`, `lib/extension-price-watch.server.ts`) | `price_watches`, `price_watch_schedules`, `price_watch_targets`, advisory locks, the limits and the shared budget | book, start, stop, move, delete; claim, apply or record a failure; reconcile limits, proxy groups | a check that ends after the watch it was for has changed; statements of two members without a common lock |
| Discovery and the preindex scanner (`scraper/discovery.go`, `preindex_scanner.go`) | a cursor over item ids, a baseline per query | stream pages, advance the cursor | the baseline of the first run; gaps |
| Vinted service (`apps/vinted-service`) | sessions with tokens, automations | refresh, sync from the browser, run an automation | a refresh racing a sync |
| Browser extension (`apps/vintrack-browser-sync-extension`) | link token, synced sessions, receipts, refresh state and checkout attempts in storage; queues in memory | sync, refresh a Vinted session, connect, clear; prepare and pay a checkout in a tab | the browser stops the worker at any point; copies of storage held across requests |
| Checkout (`apps/control-center/src/lib/open-checkout.ts`, `app/api/checkout`, `apps/vinted-service/internal/api/checkout.go`, and the extension) | preferences, the payment marker in Redis, handoff pages, attempts, runs inside Vinted tabs | open a buy link, claim the payment, prepare, pay | two pages or browsers buying the same item; a lost answer after a payment request |
| Control center (`apps/control-center`) | members, limits, rewards, settings | reconcile limits, synchronise rewards, connect Telegram | overlapping reconciliations |

The senders for Discord and Telegram, the HTTP clients, the SQL of telemetry,
the pages of the control center and the DOM scripts of the extension are input
and output: they are not modelled, or only by the results they may give.
`PROJECT.json` lists each part with its status, and the hazards with their lines.

What makes each modelled component correct, in a sentence:

- **Outbox**: one live sender per destination, an outcome recorded once, a
  repeated message only after a lost lease, every alert settled in the end, and
  at most one live alert per member and item where deduplication is on.
- **Manager**: one goroutine per monitor and per discovery key, active monitors
  watched with their current configuration and others left alone, first tasks
  after an interruption that resume instead of starting a muted baseline, and a
  maintenance switch that says "active" only when the members' work has stopped.
- **Scheduler**: an index that follows lanes which come and go, no accepted job
  lost or handed out twice, no ready job behind one that is not due, and no new
  item or strict retry passed over for ever.
- **Pipeline**: one outbox row per item, none lost without a trace, strict
  monitors alerted only by data of the item's own seller, ordinary ones in time.
- **Price watches**: a drop goes to those who were watching at the price it fell
  from; an active watch is polled; a late result changes nothing; the budget
  and the limits hold as admission projected them.
- **Checkout**: an item is paid automatically at most once and within the limit
  that was claimed, and a request that was sent is not forgotten.
- **Client pool**: a request is counted while it is under way, an exit serves one
  client, a replacement is finished by whoever began it, and no fetch waits for
  an answer that nobody owes.
- **Session sync**: a rate limit is waited out, an interrupted refresh is not
  repeated at once, and a sync is skipped only if it would repeat the last one.

## 2. Plan

| | Module | Models | State |
|---|---|---|---|
| A | `AlertOutbox` | outbox tables, dispatcher, sender workers, sweeps | checked, proved |
| B | `MonitorManager` | Sync, task life cycle, maintenance switch | checked, proved |
| C | `SellerScheduler` | lanes, priorities, aging, enrichment workers | checked, proved |
| D | `AlertDelivery` | abstract life of a delivery, implemented by `AlertOutbox` | checked, proved |
| E | `AlertPipeline` | deadline timer, shared lookups, strict retries, enqueue retries | checked, proved |
| F | `PriceWatch` | bookings, budget, limits, claims, results | checked, proved |
| G | `Checkout` | payment claim, extension's attempts, runs in tabs | checked, proved |
| H | `BrowserSync` | session sync and refresh of the extension | checked, proved |
| I | `MonitorTask` | fetch loop, baseline, item claims | open |
| J | `ClientPool` | borrow, replace, reconcile; the hedged fetch | checked, proved |
| K | `Sessions`, `GithubRewards` | token refresh; overlapping reconciliations of grants | open |

The modules meet at named operations.  `AlertPipeline` hands its jobs to
`SellerScheduler` at `Submit` and takes them from it at `Dispatch`; here each
side leaves open what the other does (the pipeline takes any ready job, the
scheduler's workers finish as they like).  `AlertPipeline` ends where
`AlertOutbox` begins, at `EnqueueAlertNotification`: the idempotency key that
joins the pipeline's two writers (`Inserted`) is the known notification of the
outbox (`Known`).  `MonitorManager` starts the tasks that detect the items.
`BrowserSync` keeps the session that a `Checkout` run uses in the Vinted tab.

## 3. The alert outbox: `AlertOutbox`

| Specification | Code |
|---|---|
| `status, attempts, token, leaseLeft, dueIn` | the columns of `alert_deliveries`; deadlines are kept as the time left until them |
| `ttl`, `claimLeft` | `alert_notifications.expires_at`, `alert_dedupe_claims.expires_at` |
| `hand`, `queue`, `inFlight` | the claims of `alertDeliveryCoordinator`, the channel `claimedAlertDeliveries`, `alertDeliveryInFlight` |
| `work[w]` | what an `alertDeliveryWorker` is about to do: send, defer, record, pause |
| `acked`, `lost` | history: attempts the provider confirmed, attempts whose lease was recovered |
| `EnqueueAlertNotification`, `ClaimAlertDeliveries`, `FinishAlertDelivery`, `RetryAlertDelivery`, `RecoverExpiredLeases`, `ExpireAlertDeliveries`, `PruneDedupeClaims` | one SQL transaction each |
| `PushClaim`, `TakeClaim`, `Send*`, `Defer*`, `DropOutcome`, `Restart` | the steps of the dispatcher in memory, and the end of the process |

A claim may commit and lose its reply, the provider may accept, refuse or ask
for patience, the recording of an outcome may fail at any point, and the
process may stop at any point.

*Runs.*  `outbox_webhook` (a price drop and an alert of the same item for one
webhook, two workers, two attempts; symmetric in the workers) checks the exclusion
of senders, the accounting, what "sent" means, what promotes a dedupe claim, and the
refinement below.  Two deliveries and two workers
are the smallest instance where a lost lease lets a second worker meet the
first.  `outbox_item` (two monitors of one member, the first with two channels)
checks deduplication and, under fairness, that every delivery settles; one worker is
enough there because the claims, not the workers, race, and the lifetimes of
one and two ticks let an alert expire while another waits.
The alerts of `outbox_webhook` live for two ticks, so a delivery can lose its lease
and be claimed again, and an item alert can run out while the price drop is sent.
`ItemAlert` holds the notifications that carry a user and an item, which item
alerts and price drops do and messages about a monitor do not; each of them
promotes the dedupe claim when it is sent.

*Fairness.*  Time passes; the recovery, expiry and claim loops run on tickers
(`runAlertMaintenance`, `alertDeliveryCoordinator`); a worker that holds a claim
goes on, its HTTP calls and transactions having timeouts.  Nothing is assumed
about what the provider or the database answers.

*Bounds.*  `MaxAttempts = 2` is the first value with a retry; `Provisional` and
`Promoted` keep the order of 15 minutes and 30 days; `LeaseTicks = 1` is shorter
than a lifetime, as 60 s is against 120 s.

*Proofs* (`AlertOutbox_proofs`), for all deliveries, workers, delays and limits
that satisfy `OutboxAssumption`: `TypeCorrect`; that a row sent was accepted and
that a repeat or an attempt beyond the limit needs a lost lease (the invariant
`AttemptInv` ties every claim in memory to an attempt that was made, so that an
older token can never match the row); `OneSenderPerDestination` from
`LeaseExclusive` (of the rows of one destination at most one has a running
lease, which the claim query's look at rivals keeps); one live alert per item
from `DedupeInv` (a live deduplicated alert is covered by a claim that runs at
least as long, which needs the assumption that an alert is shorter lived than
its provisional claim); that a settled row stays settled; `PromotionWasReceived`
from `PromotedBySend` (a promoted claim has a sent alert of its member and item,
of either kind) and `SentWasAccepted`, where only the step that lengthens a claim says anything new (the delivery it
lengthens it for succeeds in that step, and succeeded deliveries stay so, which is
`SettledStays`); and `FlightAccounting`, an invariant by itself once the sets it
counts are finite, where each step of the dispatcher moves one claim between the
hand, the queue and a worker.  Hence `IsFiniteSet(Worker)` among the
assumptions, and in the claim, whose `LIMIT` the pool's free places are, the
finiteness of what it returns.  Only model-checked: `EveryAlertSettles`, a
liveness property.

*A price drop promotes, too.*  When an item alert ran out unsent and a price drop
of the same item is sent while the claim's row is there, `finishAlertDelivery`
promotes the claim of that member and item without a look at the kind
(`alert_outbox.go:401`).  The member's monitors are then refused the item for 30
days although no item alert of it was sent, which is `PromotionEarned`, broken
(section 11).  What holds, and is checked and proved, is that *some* alert of the
item reached the member (`PromotionWasReceived`).

*Abstract specification.*  `AlertDelivery` says what all this is for, without
attempts, tokens, workers, queues or clocks: a delivery waits, is leased, may
lapse, and is settled once as sent or closed; at most one delivery of a
destination is leased; a delivery whose latest attempt the provider confirmed is
given back only after its lease lapsed, and only such a delivery is sent.  The
refinement mapping reads the phase of a row off `status` and `leaseLeft`
(`PhaseOf`) and takes a delivery as reached when the attempt its `attempts`
column counts is in `acked`, so a late confirmation of an older attempt is a
stutter.  `DeliveryPromise` is checked in `outbox_webhook` and proved as
`OutboxImplementsDelivery` from `TypeOK`, `LeaseExclusive` and `AttemptInv`,
one abstract action per statement (`StepImplements`).  The claim and the sweeps
move sets of rows, as their abstract actions do, and `Tick` is `Lapse` of the
leases that run out.

*Not modelled.*  Pruning of events, statistics and settled notifications; the
limits of the sweeps' batches; several worker processes; equal `created_at`
values.

## 4. The monitor manager: `MonitorManager`

| Specification | Code |
|---|---|
| `status`, `version` | `monitors.status`; the fields that enter a monitor's fingerprint |
| `maintenance`, `runtime` | the settings `monitor_maintenance` and `monitor_worker_runtime` |
| `quiet` | the quiet hours a monitor is in, as the clock turns them |
| `pc`, `seen`, `listing`, `stamp` | where `runMonitorWorker` stands, and the local copies `Sync` and `publishMonitorWorkerRuntime` hold between two statements |
| `running`, `scheduledPaused`, `synced`, `maintenanceOn` | the fields of `Manager` |
| `task[s][i]` | the goroutines themselves, which outlive their entry |
| `owed`, `held` | history: why the next task should resume; who is paused by maintenance only |

`Sync` is three actions because it reads the switch, then the monitors, and
locks only then: `SyncReadsMaintenance`, `SyncListsMonitors`, `SyncReconciles`.
The heartbeat is two (`PublishReadsRevision`, `PublishCounts`).  Members
activate, pause and edit; the administrator enables, updates and disables
maintenance; a task begins, reads its row, notices its cancellation, stops its
monitor by itself, or leaves; the process shuts down or crashes.

*Runs.*  `manager_worker` (one monitor of a demo account and the discovery of its
key; two configurations, quiet hours, a failed read, a list cut short, an exit
and a crash) checks that no slot has two goroutines, that restarts resume, and
that monitors end up watched or left alone.  `manager_drain` (a member's and an
administrator's monitor share a discovery key) checks the meaning of "active" and
that it comes.  `manager_ended` shows the finding below.  Every kind of event
occurs at least once in one of them; the bounds (`Max...`) count events that the
environment may cause and never steps of the worker.  Deadlock is not checked:
when the events are used up and the worker is down nothing is left to do.
`MaxRevision = 2` in `manager_drain` allows maintenance to be switched on and off;
that it may be switched on again is covered by the theorem only.

*Fairness.*  The ticker calls `Sync` and the heartbeat (`WorkerStep`); a
goroutine that was started runs; a cancelled one ends, because its fetches and
pauses watch the context; one that decided to leave leaves.  No member or
administrator is assumed to do anything.

*Proofs* (`MonitorManager_proofs`), for any monitors, keys and bounds:
`ManagerTypes` and `OneTask` from `TaskInv` (a living goroutine is the one its
slot's entry names, so a free slot has none); `DrainConfirmed` from `DrainInv`
(a listing read after the switch has no member's monitor, revisions only grow,
and a heartbeat with the current revision was counted after such a Sync);
`RestartContinues` from `RestartInv`, of behaviours in which no list was cut short
so far: such a list makes the manager believe it has synchronised a monitor it
has not seen.
Only model-checked: the three liveness properties.

*Finding.*  `manager_ended`: when maintenance ends between two reads of one Sync,
the resumed tasks start without the resume flag and take a muted baseline.

*Not modelled.*  The age of the heartbeat (it only ever delays "active"); the
difference between a pause by the member and one for inactivity; changes of a
monitor's discovery key other than as a new configuration; several worker
processes; telemetry and incidents closed on the way.  `PauseExpiredDemoMonitors`
and `GetActiveMonitors` are one step.

## 5. The seller scheduler: `SellerScheduler`

| Specification | Code |
|---|---|
| `input`, `backgroundInput` | the channels of `SellerEnrichmentScheduler` |
| `lanes`, `laneIndex`, `nextLane`, `selected` | the local variables of `Run` (`laneIndex` counts from 1, 0 is no entry) |
| `pc` | the top of the loop with its non-blocking receive (`Poll`), the `select` (`wait`), the end |
| `worker[w]` | an `enrichmentWorker`: waiting, in `enrichAndPersist`, or blocked in `Submit` |
| `accepted` | history: jobs `Submit` took and no worker has received |
| `Places`, `AddJob`, `RemoveEmptyLane`, `Selection`, `Priority` | `add`, `removeEmptyLane`, the scan, `enrichmentPriority` |

Time is kept as the age of a job against its `readyAt`, from `-MaxDelay` up to
the age that promotes it; beyond that all ages are alike.  A job is a kind of
job: at most one of each is in the system, as the keys of items and of refreshes
ensure for one item, and it may come again after it was handed out.

*Runs.*  `scheduler_served`: two monitors, strict retries of one, a background
retry and a refresh of the other, one worker, channels of one job.  Four lanes
come and go, one of them with two jobs, every channel is full at times, and the
worker that blocks on a full channel is the one the scheduler waits for; a
second worker or more room would only remove blocking.

*Fairness.*  Go's `select` takes one of its ready cases at random, so a case
that is ready again and again is taken (`TakeBackgroundInput`, and a lane that
offers a job while a worker waits); senders on a full channel are served in
turn; the ticker fires; a lookup has a deadline.  New items are not assumed to
come, nor to stop.

*Proofs* (`SellerScheduler_proofs`), for any lanes, jobs, workers, capacity and
delays: `TypesKept` and `LanesStayIndexed` from `IndexInv`, whose part `TableOK`
is preserved by an insertion, by the shift of the lanes behind a removed one and
by the passing of time, and which needs that the scan ends on a lane that exists
(`SelectionInRange`); `ReadyStaysInFront` from `SortedInv`, the order that `add`
relies on and keeps; `QueuedOnceHolds` from `PlacesInv` and `SubmitsOwn`.  That a
job has one place is not inductive by its count of places: `PlacesInv` splits it
into the jobs of the two channels and of the lanes, which are disjoint and
together the accepted ones, each sequence without repetition, and every lane
with jobs of that lane only, so that `TableOK` keeps two lanes apart
(`OneLane`).  `SubmitsOwn` adds that a retry which waits to be submitted is
held by one worker and queued nowhere.  The lemmas `AppendedJobs`, `TailJobs`,
`InsertedJobs` and `AgedJobs` say what the operations on a sequence do to its
jobs.  Only model-checked: the liveness properties.

*Not modelled.*  The queue ages shown to the administrator; which lookups
succeed; the fast path for cached sellers, which does not go through `Run`.

## 6. The alert pipeline: `AlertPipeline`

| Specification | Code |
|---|---|
| `age[i]` | the time since `FoundAt`; it stops at the alert deadline, after which nothing looks at it |
| `job[<<i, kind>>]` | the three enrichment jobs an item may have: the one that alerts, the second look after a failed lookup, the refresh of a stale cache entry |
| `stage` | where the job is: the cache workers' channel, the fast channel, the scheduler, leading or joined to a flight (`sellerFlights`), answered, about to enqueue |
| `alert[<<i, who>>]` | an `alertJob`, by whether the timer or the lookup enqueues it: armed, waiting for the channel, in it, in `deliverAlert` |
| `refreshing` | `sellerRefreshes` |
| `rows` | the rows of `alert_notifications` with the item's idempotency key |
| `decided`, `verified` | history: the alert is written, on record as stale, switched off or rejected; data of the item's own seller passed the filters |

Caches hit or miss, lookups return data, incomplete data or an error, the
database commits, fails, or commits without an answer.  A leader's answer goes
to all who joined its flight, its error included; each joiner has its own
deadline.  Retries follow the code's delays and the last one is scheduled for
the deadline itself.

*Run.*  `pipeline_items`: a strict and an ordinary item of one seller, an alert
channel of one place and one retry delay.  Both items share the flight, either
may lead it, the channel is full while the other's timer waits, and the one
delay and the final retry are both taken.  Deadlock is not checked: when every
item is decided and expired nothing is left to do.

*Fairness.*  Timers fire, alert workers go on, lookups end (they have
deadlines) and time passes.  Nothing is assumed of the enrichment workers, which
other monitors may keep busy: `AlertNotHeldUp` is the promise of the timer.

*Proofs.*  (`AlertPipeline_proofs`), for any items, sellers, limits and delays:
`PipelineTypes`; `StrictAlerts`, `NoAlertVanishes`, `OneRow`, `RefreshKeys` and
`FlightsHaveLeaders`.  The types are one invariant with `Begun` (an item that has
jobs or copies was detected) and `LastChance` (a job's next retry exists as long
as its retries are not used up).  On it rest `HandedOn` (a detected item has a
copy, a job that will alert, or a decision, whatever stage its job is in),
`Checked` (verified data belong to the item's seller), `Keyed` (a refresh key is
held by exactly one refresh job) and `Led` (a joiner has a leader).  Lemmas named
`...Effects` say what one action may do to jobs, copies and rows, so that the
proof of an invariant cites an effect and not a body.  Only model-checked:
`AlertNotHeldUp`, a liveness property.

*Not modelled.*  Status and outage notifications, items whose monitor alerts
nobody, the live feed, metrics; which ready job a worker takes (that is
`SellerScheduler`); how long an enqueue retry waits; the end of the process,
which cancels `jobsCtx` and drops what is in memory by design.

## 7. Price watches: `PriceWatch`

| Specification | Code |
|---|---|
| `watch`, `schedule` | `price_watches`, `price_watch_schedules` (a schedule polls an item over the shared transport or a member's proxy group) |
| `group`, `limit`, `budget` | working proxies of a group; a member's effective limit; `sharedMaxRpm` of the runtime policy |
| `lock` | the advisory locks of `lockPriceWatchUser` and `lockPriceWatchCapacity`, with what was read under them |
| `deleting`, `dropping` | a deletion between its reads and its commit |
| `job[j]` | what a `priceWatchWorker` is checking, and the claim it carries |
| `seen`, `moved`, `late`, `owed` | history for the properties |

Member actions that hold the locks are one step each; those that do not
(`deletePriceWatch`, the extension's deletion, `deleteProxyGroup`,
`reconcilePriceWatchLimits` against an activation) are split where another
transaction may come between.  A claim's lease may run out at any time, and a
result may be applied, recorded as unavailable or as an error, or dropped.

*Runs.*  `price_alerts`: two members, one item, one proxy group, two prices, one
job, schedules that stop at the first miss.  Every pair of a member's action and
a running check occurs.  `price_admission`: three bookings of two members on two
items, two rates, two limits and a budget of three, without polling: two
watches of one schedule, the case in which the sum of fastest rates differs
from the sum of rates, and limits that shrink under an activation.
`GroupMaxRpm` is the code's 60 in both; a group of one proxy never reaches that
cap, so the runs say nothing of it.

*Proofs* (`PriceWatch_proofs`), for any members, items, transports, jobs, rates,
prices and limits, and finitely many bookings.  `PriceTypes` is from `RowsOK`, the
types of the two tables with their foreign key, `Counted` (a schedule that used
up its strikes is stopped and unclaimed, without which the next miss would
count past them) and `OtherOK`.  One lemma per action says what it does to the rows
(`RowStep`); its part `Traced` is what a step leaves of an active watch: it stays
as it was, it was activated, it moved to another transport, or its price was
polled.  `DropWasSeenHolds` and `ActiveIsPolledHolds` follow by these four cases.
`LateResultHolds` is an action property, from `LateLost`: a check that an
activation overtook has lost its claim, and no later claim gives it back.
`LimitKeptHolds` needs `RoomKept`, that the active watches *and the slots granted
under the locks* stay within the limit, by cardinalities.  `AdmittedHolds` (an
action property too) is the arithmetic of `resolveSchedule`: what the schedules
do with a watch added is what they do for the others, and of its own checks those
beyond the fastest of them (`Booked`).  For that proof a sum of rates is a number
of checks, the cardinality of a set, and not a fold.  The assumptions say
that rates, prices and limits are numbers, that rows are not `None`, and that the
bookings are finite, as rows of a table are.  No property of the passing runs is
only model-checked.  `LimitKept` leaves out the member whose limit was lowered
while an activation of his was under way (`owed`): `reconcilePriceWatchLimits`
takes no lock, and the code then lets him keep more active watches than the limit
until a later reconcile.

*Not modelled.*  Fetching and parsing the item page; intervals as such (rates
stand for them); the alert itself, which is an outbox notification; the lists
the pages show.

## 8. Checkout: `Checkout`

| Specification | Code |
|---|---|
| `enabled`, `limit` | the module switch and the saved automatic payment (0: the member reviews) |
| `claimed` | the marker of `ReserveAutoCheckout` in Redis, as the limit that was checked for it |
| `page[p]` | a handoff page in `startCheckout`: loaded, ready, authorized, waiting for the extension |
| `task[b][i]` | `checkoutInFlight` of the extension's worker |
| `attempts[b]` | `checkoutAttempts` in storage, which survive the worker |
| `run` | `runBrowserBuy` inside a Vinted tab, which survives the worker too |
| `sent`, `floor`, `paid` | history: automatic runs that sent a request, the last clear, payment requests |

A page may give up at any point, an authorization may commit and lose its
answer, the worker may be stopped and restarted at any point, a tab may vanish
in mid-run, an answer may come when nobody waits for it.

*Run.*  `checkout_payments`: two browsers with a page each, two items, two
limits, one review attempt kept (100 in the code), two buy links.  Two links
suffice for two claims to meet, on one browser or on two; the browsers are
interchangeable.  Deadlock is not checked: the member may stop.

*Proofs* (`Checkout_proofs`), for any browsers, pages, items, limits, quotes and
lengths of the list.  `CheckoutTypes` needs of `Filter` that it returns a
sequence of the elements kept (`FilterKeeps`); `Filter` is `Array.filter` written
by the ranks of what is kept, because a recursive definition cannot be reasoned
about here.  `PaidOnceHolds` and `PaidWithinClaimHolds` are from `PaymentInv`: there
is at most one permit to pay for an item, held in turn by a page, a task, a run
and the payment (`OnePermit`), and whoever holds one goes by the limit that was
claimed (`Claimed`); the claim is what makes the permit, and it is made once.
`RequestRecordedHolds` is from `RecordInv`: identifiers are used once (`OneId`), what
was sent is of an automatic run that passed the account check (`SentBy`), a task
that sends has the only attempt of its item (`Unsent`), and an automatic purchase
that may still send, or has sent, is in the list or was cleared (`OnRecord`).  That
the list may be cut, aged and lose an attempt after a mismatch is where each part
is needed.  No property of this module is only model-checked.

*Not modelled.*  More than one account (the mismatch is an outcome of the
account check); consent to the risk warning after it was given; an extension
that is missing or too old; reading and writing the attempts as two steps (the
code queues them, except against a clear); the single requests between the
account check and the payment, of which any may fail; preparing on the server,
its lock and its cached result; notifications and the history of links.

## 9. Session sync: `BrowserSync`

| Specification | Code |
|---|---|
| `token`, `saved`, `receipts`, `refreshes` | `browserLinkToken`, `syncedSessions`, `syncReceipts`, `browserRefreshState` in storage; instants as the ticks left until them |
| `cookie[c]` | `access_token_web` of a context (a domain and a cookie store): a value, and whether it is missing, expiring or fresh |
| `queue` | `inFlightLifecycles` and `syncLifecycleTail`: lifecycles by key, run in turn |
| `life` | the running `performSyncLifecycle`, with the token, cookie and refresh state it has read |
| `accepted`, `limited`, `interrupted` | history: what the server took last, the running rate limit, the lease of an unanswered refresh |

The server accepts, refuses or does not answer (and may have accepted all the
same); Vinted rotates the session, refuses, or limits the rate; the browser
stops the worker anywhere, which empties `queue` and `life`; sessions begin and
end; the member connects, clicks and clears at any time, and a clear does not
wait for the queue.

*Run.*  `browser_sync`: one context, three cookie values, two links, waits of
one and two ticks, two failures counted.  Two links and three values are enough
for a receipt to be wrong about either; the rate limit asked for is longer than
the first retry, so that a limit is not hidden by the backoff.  A second context
adds only receipts that a click drops.  Deadlock is not checked.

*Proofs* (`BrowserSync_proofs`), for any contexts (one at least), cookies, links,
waits and lengths of the queue.  `BrowserTypes` goes together with `ReceiptInv`,
by which a receipt is never ahead of what the server accepted for its context,
nor of a sync under way, since links and cookie values only grow;
`CachedWasAcceptedHolds` is the case of equality.  `RateLimitHolds` and
`InterruptedHolds` are action properties, from `RefreshInv`: the stored state, and
the copy of it that a running lifecycle has read, wait at least as long as the
limit and the lease that the history remembers, and no limit runs while a
refresh is asked for.  The copy is the reason for the invariant: the step that
sends looks at the copy, not at storage.  No property of this module is only
model-checked.

*Not modelled.*  The 800 ms that gather events; the second POST after a network
error (its effect is the accepted session without an answer); `Retry-After`
other than with a rate limit; which of several tabs is used; switching accounts
other than by what it drops; updates of the extension and the popup.

## 10. Client pools: `ClientPool`

| Specification | Code |
|---|---|
| `slot[s]` | a `clientState` in `p.states`: the client (its proxy and a generation that stands for the pointer), failures, requests in flight, `replacing`, `retiring` |
| `swap[s]` | the goroutine `Replace` starts, between its reservation of a proxy and the moment it takes the lock again |
| `quarantined`, `reserved`, `resizing` | the fields of `ClientPool` |
| `keeper[k]` | a call of `EnsureSize` that makes clients outside the lock |
| `fetch[f]` | `fetchCatalogHedged`: clients attempted, requests sent, reported clients about to be replaced, the results channel, the hedge timer |

Each step is one section under the pool's lock, which is what the code's
interleavings are made of: a request is sent under the lock, reported under it,
and its client replaced by a goroutine that takes the lock three times.  The
list of proxies may be another one whenever it is read.

*Run.*  `client_pool`: two proxies, two slots, two fetches of two attempts, two
monitors that ask for a pool of one client.  Two fetches share a client, one of
them replaces it while the other still waits for its answer, both slots come and
go through quarantine, reconciliation and growth.  `Generations = 1` bounds how
many clients of one proxy somebody still points to; the theorems have any number.

*Proofs* (`ClientPool_proofs`), for any proxies, slots, fetches, limits and
generations: `TypesKept`; `ReplacementsTracked` from itself; `ExitsAreHeldOnce`
with `Distinct` (no client is in two slots); `AnswersOwed` with `Tried` (a
request under way was attempted, a result is of an attempt); and
`RequestsAreAccounted`, that a client's count is the number of fetches that wait
for it, by cardinalities of sets of fetches that differ in one element.  The
lemmas `SameClients`, `KeepsClients` and `SameConnecting` gather the many actions
that leave the clients or the reservations alone.

*Not modelled.*  Pacing, cooldowns and latencies, which may refuse a client to
any request; a pool made without proxies; warm-up and HTTP.  Two hazards read in
the code stay without a property: `Reconcile` may retire a client while its
`Replace` goroutine is connecting (`client_pool.go:553`), and the results channel
of `hedged_fetch.go:68` has no room when the pool is empty.

## 11. Disagreements seen without a run of their own

`manager_ended` is the one run that ends in a violation.  The following
definitions state other sentences of the repository that the modelled code does
not keep.  Each is in its module; to see a behaviour that breaks it, add it to
the named configuration.

| Property | In | Sentence | What the code does |
|---|---|---|---|
| `OneAlertPerItem` (`AlertOutbox`) | `MCAlertOutbox_item.cfg` | "Send one Discord or Telegram alert when multiple monitors find the same item." (`apps/control-center/src/app/(dashboard)/dashboard/client.tsx:2329`) | a dedupe claim is promoted when a completion is recorded (`alert_outbox.go:399`); an accepted message whose record is lost lets a second monitor alert |
| `PromotionEarned` (`AlertOutbox`) | `MCAlertOutbox_webhook.cfg` | "any alert that then expired or was cancelled left a claim behind that suppressed that item across every one of that member's monitors for a month", of the past (`alert_outbox.go:63`) | a sent price drop promotes the claim an expired item alert left (`alert_outbox.go:401`, `database/price_watch.go:285`) |
| `ConfigRefreshResumes` (`MonitorManager`) | `MCMonitorManager_worker.cfg` | "A config refresh is a continuation of an existing monitor. Treat its first catalog response as a resume" (`manager.go:113`) | the flag is set on a loop variable and is gone when a later Sync starts the replacement (`manager.go:116`) |
| `MaintenanceHolds` (`MonitorManager`) | `MCMonitorManager_worker.cfg` | "All monitors are safely paused and will resume automatically when maintenance is complete." (`apps/control-center/src/lib/monitor-maintenance.ts:9`) | `SetMonitorStatus` of a task that stops its monitor overwrites `maintenance_paused` (`store.go:3171`) |
| `BackgroundServed` (`SellerScheduler`) | `MCSellerScheduler_served.cfg` | "strictRetryStarvationAge bounds how long a ready strict-retry or background job can keep losing the dispatch pick" (`seller_scheduler.go:255`) | a refresh has no `readyAt`, so it never ages (`seller_scheduler.go:272`) |
| `AdmittedWithinPolicy` (`PriceWatch`) | `MCPriceWatch_admission.cfg`, with a second budget | "Runtime floors and request budgets live under Admin -> Operations -> Price Watch" (`docs/configuration.md`) | admission reads another setting than the policy the page saves |
| `DeletedByOwner` (`PriceWatch`) | `MCPriceWatch_alerts.cfg` | "deleting a Price Watch requires a deliberate click" (`docs/browser-extension-privacy.md:31`) | `deletePriceWatch` counts the item's watches and deletes the item without the locks; a booking made in between goes with it (`price-watch.ts:834`) |

Two more were read and are not stated as properties.  The comment at
`alert_pipeline.go:694` says "The final chance is scheduled to run right at the
deadline", at which `enrichAndPersist` returns before it looks anything up (the
model takes that step: the final retry only records the alert as stale).  And
`background.js:1615` says "Permit a retry after the user signs in with the
correct account", while the server's marker of the first automatic payment stays
and refuses the second.

## 12. How to read the checks

Every property of a passing run has a mutant: a definition named after the one
it spoils (`Reaped_Cancelled`, `Places_Append`, `Expires_All`, ...), which states
a plausible mistake in the code and breaks the property when it takes the
original's place.  Each such definition is preceded by what it changes, and
nothing else refers to it.

`TypeOK` is stated in every module that has a proof module and proved there, for
every value of the constants; no run repeats it.  The same goes for `LanesIndexed`,
`SettledForGood`, `ResendOnlyAfterLeaseLoss` and `AttemptLimit`.

Every safety property of a passing run, invariant or action property, is also a
theorem.  Liveness stays with TLC (`EveryAlertSettles`, `ActiveIsWatched`,
`InactiveIsLeft`, `DrainIsConfirmed`, `ForegroundServed`, `StrictServed`,
`WorkersReturn`, `AlertNotHeldUp`): the prover has no rules for fairness and
`ENABLED`.  Folds and other recursive definitions can be evaluated, and not
reasoned about, here; where a proof is about a sum or a filtered list, the model
says it by cardinalities (`SharedRate` in `PriceWatch`, `Filter` in `Checkout`).

*Not modelled at all*, with the reason per part in `PROJECT.json`: the pacing and
validation of free proxies; the catalog loop between the start and the
end of a task; the vinted service's sessions and automations; GitHub rewards;
metrics, senders, pages.
