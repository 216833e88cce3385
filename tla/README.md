# RedRoomRewards: TLA+ specifications

RedRoomRewards is a loyalty-points back end in TypeScript over MongoDB. Users
hold points, put them in escrow for a queued performance, and the queue then
settles them to a model, refunds them, or splits them. There are no database
transactions on these paths: the code relies on single-document atomicity,
version filters, status filters and unique indexes. Other points live in the
ledger alone and are credited and deducted there, with a transaction around the
insert but not around the read. The specifications ask whether that is enough
when calls interleave, conflict, throw or die.

Source paths are relative to the repository root (`src/...` there is
`src/src/...` in `PROJECT.json`, whose paths start one directory higher).

## 1. Inventory

| Component | State | Operations | Hard behaviour | What makes it correct |
|---|---|---|---|---|
| **WalletService** `src/wallets/wallet.service.ts` | none in memory; `wallets`, `model_wallets`, `escrow_items` | holdInEscrow, settleEscrow, refundEscrow, partialSettleEscrow, two balance queries | every `await` lets other calls in; up to seven writes per call without a transaction; conflicts are detected by a version filter; hand-written compensation | a hold spends only points that are there, one processor per item, final items stay final, a key moves points once, wallets = items = ledger |
| **LedgerService** `src/ledger/ledger.service.ts` | `ledger_entries` (append only), `idempotency_records` | createEntry, claimIdempotency, checkIdempotency, storeIdempotencyResult, creditPoints, deductPoints, snapshots, reconciliation, audit queries | a duplicate key is answered with the stored entry; creditPoints reads a snapshot outside the session; reconciliation filters by a tenant that createEntry never writes | each effect recorded once; the running balance equals the sum of the entries |
| **PointAccrualService** `src/services/point-accrual.service.ts` | `wallets`, ledger | awardPoints, deductFromAvailable (+ bonus wrappers), calculateEarnRate | looks for an idempotency scope nobody writes; recursive retry | a key awards once; wallet change = ledger entry |
| **PointExpirationService**, **AdminOpsService** `src/services/` | `wallets`, ledger | processUserExpiration, batch; manualAdjustment, processRefund, correctBalance | unbounded recursive retry; fixed ledger keys (one per user and day, one per request) | never below zero (unless a correction), every change recorded |
| **WalletController + IdempotencyService** `src/api/wallet.controller.ts`, `src/services/idempotency.service.ts` | `idempotency_records` | creditPoints, deductPoints: check key, award, record key | check and record are separate; a concurrent duplicate passes the check | a repeated request is answered, not executed |
| **EventsController** `src/api/events.controller.ts` | `ingest_events`, `idempotency_records` | postEvent, getEventReceipt | check, store the key, enqueue: three awaits | a repeated request queues no second event; an acknowledged event is queued |
| **IngestWorker** `src/ingest-worker/worker.ts` | `ingest_events`, `dlq_events`, `idempotency_records` | poll, processEvent, retry with back-off, moveToDLQ | the claim of an event is not exclusive; several workers; crash between claim and result | an event is handled, then finished or in the DLQ |
| **ReplayController** `src/ingest-worker/replay.ts` | as the worker | replay | resets an event whatever its status, races with the worker | no event that was processed is processed again |
| **EventBus**, **BalanceSnapshotCache**, **WalletEventPublisher** `src/events/` | in-memory maps | publish, subscribe, retry; cache update, TTL, eviction | absolute balances published some awaits after the write; two dedupe keys and a cleanup; retries | the cache shows the newest balance its events carried; a key reaches the handlers once |
| **ReservationService** `src/reservations/service.ts` | `points_reservations` | create, commit, release, markExpired; MongoDB's TTL deletes | commit does not look at expiresAt; TTL deletes any status | one outcome per reservation |
| **Façades over the ledger**: RedRoomLedgerService, MemberService, BurnCatalogService, AwardingWalletService, `src/controllers/wallet.controller.ts`, ReconciliationService | none of their own | awards with compliance checks, sign-up bonus, burns, uploads row by row, credit and deduct, reconciliation | a row fails in the middle of an upload; an award is written but its answer is lost; the burn passes a negative amount to a method that rejects it | an upload accounts for every row; the running balance is the sum of the entries |
| **Rules**: TierEngineService, WelfareGuardianScoreService, CrossMerchantExchangeService, calculateEarnRate, validateTierCap | none; three effective-dated tables nobody writes | pure computations and lookups | thresholds from the environment in any order; rows dated or superseded in the future | the highest tier reached; stricter verdicts for larger awards; the rate in force |
| PointRedemption (on top of holdInEscrow) | – | redeemPoints, validateTierCap | reads the balance before the hold does | the hold's own check decides |
| webhooks, AuthService, gifting, zk-oracle, HTTP edge, metrics, configuration, stubs, schemas without a service | – | – | – | see "Not modelled" |

Interactions: controllers call services; services call the ledger and write
wallet documents directly (accrual, expiration and admin write the same
documents as WalletService); WalletService publishes to the event bus after its
last write; the balance cache subscribes to the bus; the ingest worker takes
what the events controller put in the collection, and the replay controller
puts back what the worker gave up. Awards, sign-ups, burns and uploads end in
creditPoints of the ledger service, whose entries lie beside those of the wallet
services; reservations touch neither.

## 2. Modules

| Module | What it is |
|---|---|
| `WalletEscrow` | the four escrow operations, one action per awaited call |
| `WalletAudit` | accounting equations over `WalletEscrow`, the invariant that proves them, and statements of the documents that the code does not meet |
| `AtomicEscrow` | abstract specification: atomic transfers, a phase per item |
| `WalletRefinement` | the mapping of `WalletEscrow` onto `AtomicEscrow`, and the inductive invariant |
| `WalletEscrowProofs` | theorems and proofs: invariants and refinement |
| `WalletAuditProofs` | theorems and proofs: accounting |
| `SumTheorems` | lemmas about sums over finite sets, for the other proof modules |
| `IngestPipeline` | postEvent, the ingest workers with retry and DLQ, replay |
| `IngestProofs` | theorems and proofs |
| `PointAccrual` | awards, deductions, bonuses, expirations, adjustments; the wallet controller with its idempotency service |
| `AtomicPoints` | abstract specification: a call changes a balance at most once and is told by at most one entry |
| `PointAccrualProofs` | theorems and proofs |
| `EventBus` | state and operations of the bus: subscriptions, deduplication, handlers with retries, cleanup |
| `BalanceCache` | the bus composed with the publishing escrow operations and the balance cache |
| `BalanceCacheProofs` | theorems and proofs |
| `RewardRules` | tiers, welfare score, effective-dated lookups, as operators |
| `LedgerPoints` | creditPoints and deductPoints, what is built on them, and reconciliation |
| `LedgerPointsProofs` | theorems and proofs, those about `RewardRules` included |
| `ReservationLifecycle` | abstract specification: the life of one reservation, what callers are told |
| `Reservations` | the reservation service with the expiry sweep and MongoDB's TTL, mapped onto it |
| `ReservationsProofs` | theorems and proofs |
| `MCWalletEscrow`, `MCIngestPipeline`, `MCPointAccrual`, `MCBalanceCache`, `MCLedgerPoints`, `MCReservations` | symmetry, model values and values of constants for TLC |

The first three parts meet in two collections. PointAccrual and WalletEscrow both write
`wallets`: in WalletEscrow a successful compare-and-set of the other services is
the action `OtherWrite`, which may leave any balance, for correctBalance writes
below zero; in PointAccrual the writers are the accrual, expiration
and admin services themselves. Both append to the ledger by `createEntry`.
BalanceCache takes the escrow operations as the versions they write: that a
version names one balance is `SnapshotsOK`, proved of WalletEscrow. LedgerPoints
uses `RewardRules` for the verdict on an award and takes an award of the accrual
service as two actions, `AwardWallet` and `AwardEntry` (or `AwardLost`).

Everywhere, the code between two `await`s is one action, because Node runs it
without interruption, and a process may die, or a database call reject, at any
of them.

### How WalletEscrow corresponds to the code

* `wallets`, `models`, `items`, `claims`, `ledger` are the collections. A
  document carries the fields the operations read or write; a wallet that does
  not exist has `present = FALSE`.
* A call `c` is one invocation of a service method. `pc[c]` names the await it is
  about to perform, `req[c]` its request, `sawWallet[c]` and `sawModel[c]` the
  documents it read. `HoldRead`, for example, is the `findOne`, the balance check
  and the computation of new balances (`wallet.service.ts:122-143`).
* The three resolving operations share their steps and differ in order
  (`Lock`, `ReadUser`, `ReadModel`, ...): the order is in the `Goto`s.
* Compensation is modelled as written: a conflict on the user wallet puts the
  item back (`Unlock`), a conflict on the model wallet throws with the item
  locked (settle) or puts only the item back (partial).
* `createEntry` returns the stored entry for a key it knows (`CreateEntry`).
  settle and refund use the bare key, the others a suffix.
* `Crash` lets a process die before any await. It also stands for a database
  call that rejects, and for `createEntry` refusing metadata with personal data
  (`ledger.service.ts:65-85`): the call stops there and nothing is undone.
* Retry sleeps, authorization tokens (only tested for presence), event payloads
  and metrics are left out. Publishing can fail without consequence.

Abstractions to know about: uuids are members of `EscrowIds`, and callers know
only ids a hold announced; amounts are positive integers, so the 0.01 tolerance
of partial settlement is the constant `Tolerance`; the 90-day TTL index of
`idempotency_records` is not modelled (a behaviour is shorter than that).

### How IngestPipeline corresponds to the code

* `events`, `dlq`, `done`, `keys` are `ingest_events`, `dlq_events` and the two
  scopes of `idempotency_records`. `dlq` is a sequence ordered by
  `movedToDLQAt`, as the replay query sorts it. `attempts` saturates one above
  `MaxRetryAttempts`, the only number it is compared with; `nextAttemptAt` is
  unset, future or past, and `Tick` lets time pass.
* `running[w]` is `isRunning`; `loop[l]` is where poll loop `l` is. A worker that
  is stopped and started within one poll interval runs two loops: `Owner` says
  which loops belong to a worker.
* `Poll` chooses any batch of at most `MaxConcurrentJobs` events that match the
  query (it has no order); `AwaitBatch` is `Promise.allSettled`.
* `job[l][e]` is one `processEvent`: `claim`, `check`, `handle`, then `finish`
  and `store`, `requeue`, or `park` and `mark`. `rescue` says that the job is in
  the catch block, which reloads the event and treats the error as a retryable
  failure; a second exception ends the job.
* The handler's outcome is any: success, retryable or not, or an exception.
* `post[p]` is one postEvent request; `peak[k]` (history) is the largest number of
  requests with key `k` that were ever in flight together.
* `replay[r].todo` holds the places of `dlq` still to do; `ReplayCheck` looks for
  the success record, `ReplayReset` resets the event in a later await.

Left out: the branch of replay for an event that does not exist (nothing deletes
events), the `MISSING_EVENT_ID` outcome (the schema requires an id), a write that
is performed although its answer is lost, the TTL of the key scope, metrics and
the receipt queries. The TTL of success records is `Expire`, when no job of the
event is in flight.

### How PointAccrual corresponds to the code

* One call is one request: `credit` and `deduct` through the controller,
  `award` a bonus method called directly, `adjust` and `correct` (manualAdjustment
  without and with `allowNegative`; a refund is a positive adjustment), `expire`
  one user's expiration (a batch is several of them). They share the pattern
  read, compare-and-set, createEntry, and so share `Read`, `Cas`, `CasConflict`
  and `CreateEntry`; `FirstStep`, `Accepts`, `Delta`, `Matches`, `RetriesLeft`,
  `RetryStep` and `KeyOf` hold what differs.
* `records` are the controller's idempotency records. The check inside
  awardPoints and deductFromAvailable reads a scope nothing writes, so it always
  answers no and has no action.
* `Query` adds up *all* credits whose date has come, those an earlier run took
  included, as the code does. The query's default
  limit of 100 entries is not modelled, the grace period is the default 0.
* `balances` (every balance a wallet had), `moved` (what a call added) and
  `earlier` (requests answered before) are history variables.
* Days stay within the 90 days an idempotency record lives.
* `ChangeOf`, `Changes`, `Told` and `Log` show a state as one of `AtomicPoints`:
  the change a call has made, and what an entry tells of its call.

### How EventBus and BalanceCache correspond to the code

* `subscriptions`, `processedEvents` are the maps of the bus, `deliveries[c]` the
  `notifySubscriber` calls that the event of `c` started, `cache` the map of the
  cache. All of it is memory, which `Restart` empties.
* `Accept` is publish up to its first await: Node runs the check for a duplicate,
  the marking, and the start of every handler without interruption. The cache's
  handler contains no await, so it is over in the same step (`Handle`); other
  handlers go on (`HandlerResolves`, `HandlerRejects`, `Retry`).
* `Call`, `WriteUser`, `WriteModel`, `Fail`, `Publish` are what the cache can
  notice of an escrow operation: which wallets it writes in which order, and that
  it publishes after its last write, or throws before. A settlement writes both
  wallets and publishes the model's balance (`WriteSilently`). `WriteElsewhere`
  is a write of a service that publishes nothing.
* A balance is represented by the version of the wallet that had it.
* `overlapped` and `missed` are history: accounts for which two events were due at
  once, and accounts with a balance no event will carry. An event that carries
  the newest balance, with no other due, takes its accounts out again.

Left out: BALANCE_UPDATED and LEDGER_ENTRY_CREATED (no code calls their
publishers), priorities (all handlers start in one step), the sleep between
attempts (any length), configurations without deduplication or cache, metrics.

### How LedgerPoints and RewardRules correspond to the code

* `entries` are the user entries of `ledger_entries` in the state "available", with
  the balance after them; `wallet` is the field other services write.
* A call is one request: credit or debit by the wallet endpoints, an award with
  compliance checks, a burn, a sign-up, an upload, a reconciliation. All that
  change points go through `Read` (the snapshot, the check of the balance, the
  timestamp) and then `Commit`, where the entry becomes visible. `Rerun` is
  withTransaction running its callback again after a transient error,
  `Reject` an error that is not, `Duplicate` a key that is taken. A commit that took
  effect may fail to answer.
* `Snapshots` is a set: the newest entry in the order of the timestamps is not
  unique when two entries have the same millisecond.
* An upload is at the row `upload[c].left`; `Counted` is what the loop does after
  a row, awarded or failed.
* A reconciliation reads the entries of its tenant, and then the last snapshot.
  createEntry copies no tenant into an entry (`TenantOf`), so it finds none.
* `awarding` holds the awards of the accrual service that have written the wallet
  (`AwardWallet`, with the balance they will record) and not yet their entry:
  createEntry stamps it and inserts it some time later (`AwardEntry`), or never
  (`AwardLost`). Several may be under way, and insert in any order.
* `Total` is the sum of an account's entries. `upset` (accounts where a read or an
  award overtook a pending insert, timestamps tied, or an award met a wallet that
  did not agree with the ledger) and `unsure` are history.
* In RewardRules a tier is an index into the thresholds, a score the row of the
  rule table, and a configuration row its key, its two dates and its value. A
  lookup without an order returns any row that matches, so it is a set.

Left out: entries of models and of escrow, the fallback when MongoDB has no
transactions (it runs the same callback without a session: one read, one insert),
currency, texts, expiry dates (awardPromotionalPoints ignores them), the queries.

### How Reservations corresponds to the code

* `docs[id]` is the document under an id. Ids are chosen by callers and may be
  used again after a deletion, so a document remembers the call that made it.
* commit and release are one statement each (`Update`); `told[c]` is the document
  they returned. An answer may be lost after the statement took effect.
* A sweep takes `now` when it is called, and is then an updateMany: it goes from
  document to document (`SweepOne`), must come to those that matched when it began
  (`todo`) and may come to others. The `limit` option in its call is no option of
  updateMany and is taken to have no effect.
* `TtlDelete` is the TTL index on `expiresAt`, which looks at no status.

Left out: queries, statistics, user and amount of a reservation (no operation
looks at them).

## 3. Runs

| Run | Question | Bounds |
|---|---|---|
| `safety` | escrow: locks, finality, one effect per key, holds spend what is there, entries that are due are recorded, wallets = items = ledger, refinement | 3 calls, 1 user, 1 model, 2 items, 2 keys (shared between scopes), amounts 1-2, 1 crash, 1 foreign write |
| `live` | escrow calls end; a refund gives up its item | 3 calls, 1 item, amount 1, 1 foreign write |
| `ingest_safety` | how often a handler succeeds; what PROCESSED and DLQ stand for; the proofs' invariant | 1 event, 2 workers, 1 replay, 1 stop, 1 crash, 1 failing call, 1 expired record, 2 attempts |
| `ingest_live` | retry budget; how many events concurrent requests with one key queue; queued events settle; an event on record ends PROCESSED for good | 2 events, 1 key, 1 loop, batches of up to 2, 2 requests that may be in flight at once, 2 replays, 2 attempts |
| `accrual_safety` | entries tell the wallet's history; ledger explains wallet; repetition; overdraft; refinement of `AtomicPoints` | 3 calls, 1 user, 1 key, amounts 1-2, 2 days, 2 attempts |
| `accrual_live` | every accrual call ends | 2 calls, 1 crash |
| `cache_safety` | attempts of handlers; a key is delivered once; size and freshness of the cache; the proofs' invariant | 2 calls, 2 keys, 1 user, 1 model, cache of 1 entry, 1 more handler, 2 attempts, times 0-1, 1 silent write, 1 failing call, 1 restart |
| `ledger_safety` | the running balance is the sum of the entries, an upload accounts for its rows; the proofs' invariant | 1 account, 2 calls, 1 key, amount 2000, bonus 1500, 1 upload of up to 2 rows, times 0-2, 2 awards of the accrual service |
| `reservations` | each reservation has one life and one outcome, and does not stay active | 3 calls, 2 ids, times 0-1 |
| `lostfunds`, `ingest_crash`, `accrual_reapplied` | three statements of documents or comments that the code violates | as small as shows it |

Why the bounds are enough. Every conflict is between two writers of one document:
two calls, a call and a foreign write, two loops, a loop and a replay. In
WalletEscrow a hold must precede a settlement or refund, so three calls give
every pair on one item, or a hold beside a pair of other calls. In IngestPipeline two loops and one
replay give every pair of actors on an event; one crash, one fault and one expiry
together reach the bound `1 + Losses` with each kind. In PointAccrual two calls
conflict while the third repeats, retries a second time or expires what the
others credited; two days separate the keys of expirations. Two attempts make
each retry loop run, retry and give up. Two amounts make balances sufficient and
insufficient, and a foreign deduction below zero meets a hold that has read more. In LedgerPoints two calls and two awards give every race for one account, an upload of
two rows goes on after a failed one, the amount and the bonus lie in different
bands of the score (one is declined), a bonus does not cover a debit, and three times
let a chain of entries be apart, tie, or be overtaken. In
Reservations a third call acts on a reservation made by one and decided, swept or
deleted by another, or uses its id again; with times 0 and 1 a reservation has
run out, or not. In BalanceCache two
calls are due together or one after the other, with one key or two; one entry
less than the accounts makes every second entry evict, also within the event of
a partial settlement; with times 0 and 1 and both lifetimes 0, marks and entries
are found young and too old. A crash adds nothing to `accrual_safety`: a call that never moves
again is already among the interleavings. The theorems depend on no bound.

Deadlock is not checked: calls, requests, mishaps and time are bounded, so the systems
really stop.

Fairness. Wallet and accrual: weak fairness of each accepted call's next step;
Node resumes every await whose promise is settled, MongoDB answers, and a call
whose process died takes no step. Ingest: weak fairness of `Start` (the
deployment restarts a stopped worker), of the poll loop's steps, of each job, of
accepted posts and replays, and of time. Reservations: of time and of the TTL
monitor, not of the scheduled sweep, nor of any caller. Nothing is assumed of callers, crashes,
stops, failing calls or foreign writes. `RefundReleasesItem` is checked without
crashes (with one the item stays locked); `Settles` without crashes and failing
calls, and it promises nothing once an event is replayed, as `RetryBudget` does
(the deviations below show why).

Each property of a passing run has a mutant: a definition beside the one it would
replace (`...Inclusive`, `...Exclusive`, `Any...`, `...Omitted`, `...Stale`,
`...Once`, `...Again`, `...Silently` and so on), a plausible mistake in that code
which the property detects.

## 4. Findings

Three runs have a property TLC violates; quotes and lines are in `PROJECT.json`.

* `lostfunds`: settle credits the model, conflicts on the user wallet, gives the
  item back and throws: the model keeps the points.
* `ingest_crash`: a worker that dies during an event's first attempt leaves it
  PROCESSING without a `nextAttemptAt`; no poll finds it again.
* `accrual_reapplied`: "never re-apply" does not hold of repeated bonuses and
  adjustments, nor of concurrent requests: the key is compared only when the
  ledger entry is written, after the wallet.

More deviations are stated as definitions, without a run of their own. Check the
definition with the constants of the run named, changed as stated, to see the
counterexample.

| Definition | Constants | What it shows |
|---|---|---|
| `PartialRollsBackWallet` | `safety`, 4 `Calls`, `InitialBalance = 2`, `MaxCrashes = 0`, `MaxOthers = 0` | a comment announces the rollback of both; partial settlement puts only the item back |
| `ProcessingHasOwner` | `safety`, 4 `Calls`, `InitialBalance = 2`, `MaxCrashes = 0`, `MaxOthers = 0` | a conflict on the model wallet leaves an item "settling" for ever |
| `EscrowExplained` | `lostfunds` | two records per operation are documented; the debit of escrow is never recorded |
| `RefundIsRecorded` | `safety`, 4 `Calls`, `InitialBalance = 2`, `MaxCrashes = 0`, `MaxOthers = 0` | keys are scoped per operation, ledger keys are not: a refund can go unrecorded |
| `SettlesAmountHeld` | `lostfunds`, `Amounts = {1, 2}`, `TrustedCallers = FALSE` | "must match escrow amount" is not checked by settle |
| `DuplicateGetsSameResult` | `lostfunds` | a repeated key throws; the documents promise the same result |
| `ExclusiveClaim` | `ingest_safety` | two loops that polled an event both claim it |
| `BackoffRespected` | `ingest_live` | a requeued event is polled whatever its `nextAttemptAt` |
| `Claimed` | `ingest_live`, `MaxConcurrentJobs = 1`, `MaxReplays = 1`, `MaxRetryAttempts = 1` | an event that was replayed cannot be parked again (its DLQ record exists): it is retried for ever, and takes the place of others |
| `OneEventPerKey` (an invariant) | `ingest_live` | concurrent requests with one key both queue an event |
| `DuplicateIsQueued` | `ingest_crash`, `Keys = {k1}`, `MaxRequests = 2`, `MaxRetryAttempts = 2`, `MaxCrashes = 0`, `MaxFaults = 1` | a request that fails after its key was stored makes every repetition look like a duplicate ("already processed or queued", `src/api/events.controller.ts:126`), and the event is never queued |
| `CacheIsCurrent` (an invariant) | `cache_safety` | "all balance changes are immediately propagated to interested subscribers" (`docs/EVENT_ARCHITECTURE.md:6`): not the user's after a settlement, not those of accruals, expirations and adjustments, not those whose event is dropped or overtaken |
| `NeverOverdrawn` | `ledger_safety` | "concurrent debits cannot both succeed against the same balance because the read is part of the transaction snapshot" (`src/ledger/ledger.service.ts:618`): the snapshot is read without the session |
| `BalancedMeansSum`, `CalculatedIsSum` | `ledger_safety` | "true only when ledger sum matches the recorded running balance" (`src/services/reconciliation.service.ts:19`): the report adds up no entry, so it is true exactly when the running balance is 0 |
| `WalletIsSum` | `ledger_safety` | "Wallet.balance == sum(LedgerEntry.delta)" (`src/services/reconciliation.service.ts:5`): points credited to the ledger alone are in no wallet |

Three more need no counterexample. "negative delta = burn"
(`src/services/burn-catalog.service.ts:30`): the negative amount meets the guard
of creditPoints, so every burn throws; `NothingBurned` states it, and `BurnsNeverWrite`
proves it. "Active row at any instant T is the one with
effective_at <= T < superseded_at" (`src/db/models/merchant-pair-config.model.ts:11`):
`ScheduledRateLost` proves that a row superseded at a future date is not found any
more, and the default rate applies until then. And `LaterRowAppliesAtOnce` proves
that an earn rate or tier cap dated ahead applies at once.

## 5. Proofs

Proved for every value of the constants that satisfies the named assumptions of
the modules (amounts are positive naturals, initial balances naturals, bounds
naturals, retry limits positive, `Null` is no id, days within the TTL, thresholds of
the score naturals; where sums are taken, finitely many users, models, items and
calls):

**WalletEscrow.** `Invariant`, from which `TypeCorrect`, `LockExclusive`, `OneEffect`
follow, and `FinalIsFinal` and `HoldsSpendWhatIsThere` with the step argument;
`Refinement`: `Spec => ImplementsAtomicEscrow`. An available balance may be negative
here, since other services correct it below zero; what the version filter
guarantees is that a hold takes only points that are available when it writes
(`HoldSpendsCurrentPoints`). The theorems hold whatever callers ask
for, also with `TrustedCallers = FALSE`. None is inductive alone. `IInv` (module
`WalletRefinement`) adds what they rest on:

* `SnapshotsOK`: a version never names two documents, so a version filter that
  matches proves that the document is the one read. This is what makes the
  absolute `$set` of a hold a transfer on the current balance, and its balance
  check still valid.
* `HoldsOK`, `HoldPcOK`, `AnnouncedOK`: each item was created by one hold and is
  unknown to callers until its points have moved; otherwise a retry could delete
  an item somebody has locked.
* `EscrowLockExclusive`: a call between lock and finalise owns its item; hence
  the id-only updates at the end hit only its own item, which gives finality.
* `KeysOK`: a call past its claim owns its key in its scope.

**WalletAudit.** `AvailableIsExplained` and `EntriesRecorded`, for any callers; `EscrowIsBacked` and
`PointsAreConserved` under the hypothesis `TrustedCallers` (they ask for the amount
held: settle does not compare, and a caller that asks for more makes points, see
`SettlesAmountHeld`). `AuditInv` adds to `IInv` what an equation needs to survive each
write:

* `AppliedOK`: at each step of each operation, which of the two wallets the call
  has written (a settlement begins with the model, a partial settlement with
  the user), which says how far the call is from balance.
* `EntriesOK`: an entry was recorded by a call past the step that records, so a call
  about to record finds its key taken only by an earlier call. That is why the
  window `Unrecorded` closes exactly when the entry is added. Together with `KeysOK`
  it also gives `EntriesRecorded`: an entry that is due and missing was swallowed
  for another call with its ledger key, and only a settlement and a refund that
  share a key can have the same one (`RecordedUnlessShared`).
* `HoldItemsOK`, `TrustOK`: an item holds what its hold took; a trusted request
  agrees with its item.

Each equation is then shown action by action: what the step adds on one side it
adds on the other, or in the window. `SettledBooksBalance` draws the conclusion: when
every call has returned, or thrown before its first wallet write, the points in
circulation are those granted, and escrow is the sum of the open items. So with such
callers `lostfunds` shows the only way points are made or lost (a call that throws or
dies between its two wallet writes), not one of several.

**IngestPipeline.** `HandledAtMostOncePerLoop`, `NothingProcessedUnhandled`,
`ParkedStaysReplayable`, for any number of loops, workers, replays and mishaps.
`IInv` adds: only a batch has jobs (`LoopInv`), so a loop never runs an event
twice at once; a success that is not on record is one a job is about to record
or one that was lost, and a job that runs the handler found no record, so all
earlier successes of its loop were lost (`HandlingInv`); the steps after a
success have one (`ProcessedInv`); between the DLQ record and the status there is
a job (`ParkedInv`).
`EventsPerKey`, for any number of posters: a key never has more events than
requests with it were in flight together, so one if clients do not overlap, and never
one more for a retry after the answer (`KeyInv`: an event's key is stored, and the
events of a key and the requests past its check are together no more than
`peak`). `OneEventPerKey` is what fails when requests overlap.
One more holds under a condition the theorem states. `BudgetKept`: with
`LoneLoop` (one poll loop, no crash, no failing call) `RetryBudget` holds (`BudgetInv`:
the loop has the only job of an event that is PROCESSING and knows its attempts).

**PointAccrual.** `EntriesCorrect`, `OnlyCorrectionsGoNegative`,
`RepeatMovesNothing`, `TypeCorrect`; `LedgerExplains` from `AccountsInvariant`; and
`PointsRefinement`: `Spec => ImplementsAtomicPoints`. `IInv` adds: the wallet is the
last balance of its history and the version its length (`WalletsOK`); what a call
read is a balance of that history at the version it read, and what it wrote is the
next one (`SawOK`), so two awaits later the entry still tells neighbours; the check
of the balance holds of the balance read (`AcceptedOK`), hence, by the version, of
the balance written; a controller call that returned has a record, and a
repetition never gets past the check (`RequestsOK`). `Accounted` adds that a call
about to record has moved what it will record, and something (`AccountsOK`), and
the balance equation. In the refinement a matching compare-and-set is one change of
the current balance, a new entry tells the change of its own call under a key not
used before, the creation of a wallet opens it empty, and every other step, a
conflict, retry, crash or duplicate key included, shows nothing. The abstract
specification does not say that each change is recorded; what is left
unrecorded is what `LedgerExplainsWallet` sums up.

**EventBus and BalanceCache.** `HandlersSeeAKeyOnce`, `NeverOutgrown`,
`UndisturbedIsFresh`, for any calls, subscribers, sizes and lifetimes. `IInv`
adds: a publication within the window has a mark at least as young, so the
cleanup cannot have removed it (`MarkedInv`); of an undisturbed account at most
one call has an event due, and that event carries the newest version
(`ToldInv`); an entry implies a subscription (`SubscribedInv`). `TypeCorrect` includes that no
handler is attempted more often than configured.

**LedgerPoints.** `RunningBalance`, `UploadsAccounted`, `ReportsCountNothing`,
`BurnsNeverWrite`, `TypeCorrect`. `Total` is the real sum of the entries, no counter
beside them. `SnapshotIsTotal` is not inductive: `IInv` adds that on an account not
upset at most one insert is pending, of a call or of an award, and it continues
the sum (`PendingInv`; each insert of the accrual service carries the balance of the
wallet, so it continues the sum only if the wallet agreed with it, and two awards
under way put their account in `upset`); that a pending debit is covered (`CallInv`); that no entry is dated in the
future (`ClockInv`), so the entry inserted last is the newest unless it ties or
was overtaken; and that the entries of an upload belong to earlier rows
(`RowInv`, `LeftInv`), so no row is counted twice.

**Reservations.** `Refinement`: `Spec => ImplementsLifecycle`; `ToldOneOutcome`,
`TypeCorrect`. `IInv` ties each document to the call that made it (`DocInv`), bounds what
sweeps may expire by the clock (`ClockInv`), and says that what callers were told
is still true or its document deleted (`ToldInv`). A step maps to opening, deciding,
expiring or forgetting one reservation, to the clock, or to a stutter.

**RewardRules.** `HighestTierReached`, `NextTierExact`, `TierMonotone`;
`DeclinesFromCritical` for any thresholds, `VerdictMonotone` for thresholds in order;
`ExchangeRateInForce` while nothing is superseded at a future date, and the two
deviations of section 4. Of a negative total `PointsToNextTier` counts from 0, so
`NextTierExact` is stated for totals that are not negative.

**SumTheorems.** `SumFunctionOnSet` folds a function over a finite set, and its
definition chooses an order. The usual proof that the order does not matter is an
induction, whose theorem takes a predicate as a parameter and so cannot be used.
The module argues from a minimal counterexample instead: among finite
sets strict inclusion is well founded (`FS_StrictSubsetOrderingWellFounded`), so a set
of counterexamples has a minimal member (`MinimalSet`), and taking one element out
of it gives the contradiction. `SumAdd`, `SumRemove`, `SumChange`, `SumEqual`,
`SumSupport`, `SumZero`, `SumType` and `SumNat` are what the accounts need.

Each invariance proof has a step per action and a frame lemma for the calls that
do not move. The runs `ingest_safety`, `cache_safety` and `ledger_safety` also check
the invariant on a small instance.

Only model-checked: all liveness (`EveryCallReturns` of both services,
`RefundReleasesItem`, `DoneSettles`, `Settles`, `ActiveEnds`), which rests on fairness
and `ENABLED`. Every invariant and every action property of the passing runs has
a theorem, three of them under a hypothesis (a lone loop, trusted callers).
What TLC refutes (section 4) is a counterexample, not a theorem,
except where a theorem of `RewardRules` states the deviation itself.

## 6. Plan

Done: every module planned; the accounting equations and the refinement of the
accrual services. What could follow: an abstract ledger that `LedgerPoints`
implements off the accounts upset; an abstract queue for `IngestPipeline`; the
composition of `LedgerPoints` and `PointAccrual` on one ledger, which `AwardWallet` and
`AwardEntry` stand for now; redemption as a caller of the hold with its fixed key.

## 7. Not modelled

Every component is listed in `PROJECT.json` with its reason. In short: the
webhook receiver checks and records an event and does nothing in between, and
the emitter only logs; creator gifting, settlement, fraud signals, reporting, white label,
age gate and activity feed are stubs that return constants or log; the HTTP edge,
metrics and configuration do not touch points; the schemas without a service are
written by no code; JWTs and hash commitments are cryptography, which no model of
this kind decides. Within modelled components the read-only queries are left
out, as section 2 says of each.
