# TLA+ models of the sub2api gateway

The repository is an AI-API gateway: customers buy balance or subscription terms,
call vendor APIs through the gateway, and are billed per request.  Everything
authoritative lives in PostgreSQL and Redis; any number of Go processes run HTTP
handlers and periodic jobs against it without a coordinator.  What can go wrong is
therefore what happens *between two statements* of a handler.  These modules model
the parts where that costs money, statement by statement.

Contents: [inventory](#1-inventory), [plan](#2-plan), [the modules and the
code](#3-the-modules-and-the-code), [runs](#4-runs), [bounds, fairness](#5-bounds-and-fairness),
[proofs](#6-proofs), [findings](#7-findings), [what is not
modelled](#8-what-is-not-modelled).  Paths are relative to `src/backend/internal`
unless they start with `docs/`.

## 1. Inventory

| Component | State | Operations | Hard behaviour | What makes it correct |
|---|---|---|---|---|
| **Payment orders and fulfillment** (`service/payment_fulfillment.go`, `payment_order_lifecycle.go`, `payment_order.go`) | `payment_orders` row, audit rows unique in (order, action), redeem code, subscription notes | checkout, webhook, status poll, cancel, expiry job, reconcile job, admin retry, fulfillment under a lease, affiliate settlement, completion e-mail | duplicate and late webhooks, take-over of a lease after five minutes, crash after delivery, a failed provider call racing with a payment | delivered exactly once for a right payment; COMPLETED earned and final; a paid order settles |
| **Refunds** (`service/payment_refund.go`) | same row (REFUNDING, REFUND_PENDING, ...), REFUND_* audit rows, user balance or term | prepare, execute, roll back, query and finalize | gateways that answer "pending", late or not at all; failed rollback; two administrators | REFUNDED backed by the gateway; the user charged once; an abandoned refund leaves no trace |
| **Order admission** (`service/payment_order.go`) | the user's orders | pending limit, daily limit, creation | counts in a transaction that locks nothing | limits hold under concurrency |
| **Idempotent requests** (`service/idempotency.go`, `repository/idempotency_repo.go`, cleanup service) | one row per (scope, key): status, fingerprint, lock, expiry, response | claim, replay, conflict, retry after backoff, reclaim, renew, delete | separate statements with a `now` read once; updates by id alone; owner dies | one executor, one effect, replays only of the same request |
| **Concurrency slots, wait queues** (`repository/concurrency_cache.go`, `handler/gateway_helper.go`, `service/concurrency_service.go`, `service/openai_live.go`) | sorted sets of slots and of live leases, wait counter, active index, all in Redis | acquire, wait, retry, release, swap a slot for a lease, refresh, keep the index, clean up at a start and in the background | lost releases and answers, crashed instances, a start that sweeps the others' slots, counters against TTLs | never above the limit, the queue counter counts exactly who waits |
| **Usage billing, reservations** (`service/billing_cache_service.go`) | balance and quota in the database and in Redis | check, reserve, deduct, invalidate | cache against database, deferred deductions, in-flight reservations | every request charged once; cached balance converges |
| **Subscriptions and plan seats** (`service/subscription_service.go`) | terms, seats | assign, extend, revoke, expire | concurrent extension, revocation by a refund | terms add up; seats bounded |
| **Scheduler snapshot, outbox** (`service/scheduler_snapshot_service.go`) | account buckets in Redis, database outbox, watermark | rebuild, apply event, full refresh | stale snapshots, lost or repeated events | snapshot converges to the database |
| **Batch image jobs** (`service/batch_image*.go`, `repository/batch_image_*.go`, holds in `repository/usage_billing_repo.go`) | job row, balance hold, claimed request ids, reward credit, Redis queue with in-flight key, job lock | submit, cancel, submit again, fail stale submissions, take, poll, index, settle, release, delete | five kinds of processes on one row without a common transaction; retries of what was already done; stalled workers; lost answers of captures | charged once and for what it shows; failed jobs free; hold given back; running jobs never drop out of the queue |
| **Capture spool** (`capture/spool`) | files on disk | append, claim batch, acknowledge, quarantine | crash between rename and acknowledgement | nothing acknowledged before it is delivered |
| **OAuth token refresh** (`service/token_refresh_service.go`) | tokens in database and cache, a lock | refresh, cache, invalidate | refresh tokens that can be used once | a fresh token never replaced by a stale one |
| Protocol translation, provider clients, web console, generated ent code | none of their own | | | data conversions, environment, generated statements |

How they interact.  Webhooks, polls and administrators call the payment service, which
credits through the redeem and subscription services and settles affiliate relations.
A refund takes back through the same services.  User and admin endpoints with an
`Idempotency-Key` header run inside the idempotency coordinator.  The request path goes
from the slots through the billing cache to the scheduler's account choice and back to
billing.  Nothing of this is a single transaction.

The hazards of this code, each at its line and with the properties aimed at it, are in
`PROJECT.json` under `hazards`.

## 2. Plan

Done, in this order:

1. `PaymentFulfillment`: money in, entitlement out; the most valuable promise.
2. `PaymentRefund`: the way back.
3. `Idempotency`: the guard in front of every admin write.
4. `PurchasePromise`: the abstract promise of an order, and `PaymentFulfillment` shown to
   implement it (`INSTANCE ... WITH`, run and theorem).
5. `BatchImageJobs`, `BatchImageQueue`, `BatchImageHold`, and `BatchImage` that composes
   them: the component with most actors, and the one that moves money without a common
   transaction.
6. `ConcurrencySlots`: the limit every proxied request passes.
7. The proofs of all of them.
8. `KeyPromise` and `RefundPromise`: the abstract promises of an idempotency key and of a
   refund, and `Idempotency` and `PaymentRefund` shown to implement them (run and theorem).
9. The frozen balance as the sum of the holds, for any number of jobs (`HoldsAreFunded`, by
   proof only).

Next, by value:

10. `OrderAdmission`: several orders of one user against the pending and the daily limit.
11. A refund with the administrator's choice not to deduct as state.
12. `BillingCache`: the per-request deduction in the database against the cached balance
    and in-flight reservations.
13. `SchedulerOutbox`: snapshot, outbox and watermark, with convergence as liveness.
14. Token refresh, capture spool, plan seats.
15. An idempotency model with relative ages, where "a dead owner's key is usable again
    after its TTL" can be stated as liveness.

## 3. The modules and the code

Common conventions.  One row is modelled, because every handler works on the rows of
one order or one key and different ones share nothing the properties are about.  An action is one database statement
or transaction, or one call of a provider, with the local code up to the next one.
Any worker may be overtaken between any two actions.  `pc` (or `at`) is the worker's
position.  Operators marked *Mutant* in the modules are variants of the definition that
follows them, used to show that a property notices such a slip.

### PaymentFulfillment

| Variables | Code |
|---|---|
| `orderType`, `status`, `paidAt`, `tradeNo`, `overdue` | the `payment_orders` row; `overdue`: `expires_at` has passed |
| `age`, `leases` | `updated_at`, which the code uses twice: as a clock (`age`, time since the last update) and as the version of the fulfillment lease (`leases`, the workers whose remembered version is the current one). Every update resets both |
| `creator` | the `CreateOrder` request after its transaction |
| `live`, `paid`, `closed`, `acked`, `dropped` | the provider: an order exists, was paid (right or wrong amount), was closed; its webhook was acknowledged, or acknowledged unread |
| `pc`, `job`, `snap` | the workers: step, kind of request, trade number read with the order |
| `code`, `note`, `assigned`, `success`, `rebate`, `late` | redeem code, order note of the subscription, audit rows |
| `relation` | the payer's affiliate relation |
| `grants`, `rewards`, `emails` | what the user sees, counted |
| `faults` | budget of crashes and errors |

Actions follow the handlers: `InvokeProvider`, `SaveCreated`, `FailCreate` (rest of
`CreateOrder`); `DeliverWebhook`, `VerifyOrder`, `ReconcileOrder`, `CancelOrder`,
`ExpireOrder`, `RetryFulfillment` (ways in); `QueryPaid`, `QueryUnpaid`, `CloseUpstream`,
`PersistTradeNo`, `FinishCancel` (`checkPaidWithOptions`, `cancelCore`); `ToPaid`,
`AlreadyProcessed`, `Execute`, `AcquireLease`, `ClaimLease` (confirmation and lease);
`LookupCode`, `CreateCode`, `RedeemCode` (`doBalance`); `CheckAssigned`,
`AssignSubscription` (`doSub`); `ClaimRebate`, `SettleRebate` (affiliate);
`MarkCompleted`, `Announce`, `MarkFailed`; and `StepFails`, `StepAborts`, `QueryError`,
`LoseWebhook`, `Crash`.

Abstractions: amounts are right or wrong; provider selection, signatures, currencies
and fees are left out; two updates of a row never share a microsecond.

`PurchasePromise` is the order as its customer sees it: `money`, `delivered`, `rewarded`,
`shown`, and the steps `Pay`, `Deliver`, `Reward`, `Complete`, `Reopen`.  The refinement
mapping is at the end of `PaymentFulfillment` (`Promise`): a right payment, the count of
grants, the count of rewards, the status COMPLETED.  `KeepsPromise` says that whatever the
handlers do is a sequence of those steps, in the promised order and one at a time.
`Reopen` is in the promise because of `FailCreate`: a provider call that fails after the
order was paid writes FAILED over COMPLETED.

### PaymentRefund

`status` and `rowPartial` are the row, `gateway` the refund at the gateway, `plan` the
`RefundPlan` of a request, `detail`, `unrolled`, `success` the REFUND_PENDING,
REFUND_ROLLBACK_FAILED and REFUND_SUCCESS audit rows (only the first of each is ever
stored), `revoked` a subscription ended by a deduction, `debits` the deductions applied
and not given back.  `stuck` (a rollback failed) and `stale` (a late verdict overwrote
the row) are history variables: they name the two ways in which the code is known to
lose its promise (section 7), so that the other properties can say that there is no
third.

Actions: `PrepareRefund`, `LockRefund`, `RecheckRollback`, `DeductEntitlement`,
`CallGateway` / `SkipGateway`, `MarkRefundOk`, `RollbackRefund`, `RestoreStatus`,
`MarkRefundFailed`, `MarkRefundPending`, `LogRefundPending` (`ExecuteRefund`);
`BeginFinalize`, `ReadPendingDetail`, `QueryRefund`, `FinalizeSuccess`, `FinalizeFailed`
(`QueryAndFinalizeRefund`); `SettlePending` and `LoseGatewayAnswer` (the gateway);
`DeductFails`, `Abort`.

`RefundPromise` is the refund as user and administrator see it: `shown` (open, busy,
waiting, closed, lost), `owners`, `taken`, `money`, `paid`, and the steps `Start`, `Take`,
`GiveBack`, `Close`, `Leave`, `Vanish`, `Settle`, `Gateway`, `Lose`.  The mapping (`Refund`,
at the end of `PaymentRefund`) takes REFUNDING as busy, REFUND_PENDING as waiting, the refunded
statuses as closed and the rest as open; the owner is the request behind the status lock,
`taken` the debits.  Once `stuck` or `stale` holds the order is lost and the promise speaks
only of the gateway: `Lose` is an honest step, because section 7 shows what happens then.
`KeepsRefundPromise` says among others that an order is left only with the deduction given
back, and that one whose request vanished stays busy with what was taken: no handler
accepts REFUNDING, so nothing deducts or pays a second time, and nothing repairs it either.

### Idempotency

`row` is the record of one (scope, key), `lastId` the id sequence (a deleted and
re-created record has a new id), `req` the calls of `Execute` with the `now` they read
at their start and the record they have `seen`, `clock` the wall clock.  `lapsed` (the
record has been expired while it existed) and `done` (the callback has succeeded) are
history.

Actions: `Begin`, `CreateProcessing`, `GetExisting`, `ReclaimExpired`, `Reread`,
`Decide`, `ReclaimFailed`, `ExecuteOk`, `ExecuteError`, `MarkSucceeded`,
`MarkFailedRetryable`, `Renew`, `Abandon` (a statement fails, an answer is lost, the
client leaves, the process dies), `DeleteExpired` (cleanup job), `Tick`.

Abstractions: a response is named after the request it answers, so cutting and
redaction of stored bodies are left out; requests without a key touch no record; all
instances read the same clock.

`KeyPromise` is the key as its callers see it until the record expires: `phase` (free,
claimed, effected, failed, stored, over), `owners`, `asked`, `answer`, and the steps `Claim`,
`Take`, `Store`, `Fail`, `Vanish`, `Expire`.  The mapping (`Key`, at the end of
`Idempotency`) reads the phase off the record's status and `done`, the owners off the requests
that hold a claim, the question and the answer off the record.  When `lapsed` holds the phase
is over: after the first expiry the code promises less (finding 6).  `KeepsKeyPromise` says
that the separate statements of `Execute` amount to those steps: a failed owner hands the key
on for the same question only, and a vanished owner blocks it until it expires.

### BatchImage

| Module | Models |
|---|---|
| `BatchImageJobs` | statuses and `CanTransitionBatchImageJob` |
| `BatchImageQueue` | the Redis queue: `ready`, `delayed`, `active`, `inflight`, and the job `lock`; one action per script |
| `BatchImageHold` | the billing transactions: `claims` (request ids already used), `balance`, `frozen`, the reward credit `lot` with its expiry, `alloc`; `net` and `charge` are history |
| `BatchImage` | the processes: `job` (rows), `prov` (the provider's batch), `sub`, `can`, `rec`, `wk` (positions of the submitting request, of a cancelling or repeating request, of the recovery scan and of the workers) |

Actions of `BatchImage`: `CreateJob`, `SubmitReserve`, `SubmitItems`, `SubmitUpload`,
`SubmitProvider`, `SubmitHeartbeat`, `SubmitRecord`, `SubmitAbort`, `SubmitEnqueue`,
`SubmitNote`, `SubmitRelease`, `SubmitFail`, `SubmitHide`, `SubmitRetry` (`Submit`);
`Cancel`, `CancelProvider`, `CancelTransition`, `CancelRelease`, `CancelRetry`, `Resubmit`,
`CallEnqueue`, `CallNote`, `HideRecord`, `CleanupOutput`; `FailStale`, `RecoveryRelease`,
`RecoveryRetry` (`ReleaseStaleUnsubmittedOnce`); `TakeJob`, `LockJob`, `LockConflict`,
`AckJob`, `RequeueJob`, `Unlock`, `WorkerHeartbeat` (`RunOnce`); `Route`, `SettleRead`,
`Capture`, `MarkSettled`, `SettleFails`, `ExhaustRelease`, `ExhaustNote`, `ExhaustFail`,
`Reread` (pipeline and settlement); `Proc`, `Poll`, `Apply`, `Index`, `IndexFails`,
`ToSettling`, `TerminalRelease` (provider processor); the queue's loops, ages and expiries;
deaths and errors.

A call may fail, or succeed and lose its answer; the code takes both for a failure, and
the model has both outcomes wherever the call changes something.  `lost` records, per
job, what nothing in the code repairs: `lock` (a worker stalled past the lock's TTL),
`capture` (a call of a committed capture looked like a failure), `handler` (a request died
owing a release), `note` (a late queue note erased the error of a settlement).  The
properties name which of these excuse them.  That is their content: *every other* failure,
at any call of any process, is covered by the code.

Abstractions: an amount is `0..HoldAmount`, so the successful images and their price are one
number; whether counts, manifest and price pass the checks of `Settle` is the field
`valid`, chosen when the output is indexed.  A delayed id may be due at any time.  The lock
token is its worker.  `persistProviderOutputRef`, which stores where the output lies without
looking at the status, writes data only and is part of its step; a missing API key or account
is one of the errors of the step in which it is noticed.

### ConcurrencySlots

`slots` and `live` are the two sorted sets (a member is fresh, or old, that is past its
TTL), `wait` the queue counter, `index` the membership in the active index, `req` the
requests, `inst` the instances with the steps of a start, `janitor` the background cleanup
with what it read, `marker` the key that says that the old wait counters were swept.  `over`
(served without the slot it took) and `skew` (by how much the counter may be off) are
history, as above: `over` holds requests that outlived their slot, stalled, or were swept when
another instance started; `skew.low` grows by one for an increment that failed and is the
number of those waiting when the counter is lost, `skew.high` grows by one for every decrement
that failed and every request that died in the queue.

Actions: `Arrive`, `Retry`, `GiveUp`, `IncrementWaitCount`, `DecrementWaitCount`,
`ReleaseSlot`; `TouchIndex`, `ReadLoad`, `WriteIndex`; `AcquireLiveLease`,
`RefreshLiveLease`, `LiveEnds`, `ReleaseLiveLease`; `IndexDue`, `JanitorRead`,
`JanitorWrite`; ages and key expiries; `Crash`, `BootLegacy`, `BootRead`, `BootSweep`,
`BootDelWait`, `BootUnindex`, `BootError`.

The counter may expire under those it counts (`WaitKeyExpires` has no other guard than that
there is a counter).  Its TTL is the longer of the sticky and the fallback wait
(`repository/wire.go:19`), renewed by every increment.  The timer of an account's wait starts
after the increment, so a wait of that length outlives the counter; the wait for a user's slot
has a fixed length of 30 s, and the configuration only asks the two timeouts to be positive.
`MaxWait` belongs to the request: sticky and other requests compare one counter with
different limits.  The first start after the counters got their present form deletes all of
them, listed in the index or not (`BootLegacy`, for `sweepLegacyWaitKeysOnce`).  When the
upstream refuses a live call, the two scopes differ: an account's slot is released before the
lease (`ReleaseSlot`, then `ReleaseLiveLease`), a user's slot is kept while the failover
releases the lease and takes the next (`CreateFails`).  The model is of either scope and
allows both.

The index is read and written in separate commands, so an id can drop out of it while it
has slots.  The properties do not depend on it: what the cleanup then misses, the
TTLs of the sets remove.

## 4. Runs

| Run | Configuration | Shows |
|---|---|---|
| `fulfil_safe` | two workers, one fault, top-up and group orders | `GrantedAtMostOnce`, `CompletedMeansDelivered`, `RewardedAtMostOnce`, `AnnouncedOnce`, `CompletionIsFinal`, `PaidIsNeverCancelled`, and the refinement `KeepsPromise` (2.5 million states) |
| `fulfil_live` | one worker at a time, two faults, all order types | `PaidOrderSettles`: a right payment is delivered in the end, or recorded as late; the one exception is an order that was closed with no payment recorded after its webhook was acknowledged unread |
| `plan_twice` | two workers, a plan order | violates `GrantedAtMostOnce` |
| `lease_alias` | two workers | violates `LeaseExclusive` |
| `late_payment` | one worker, no fault, fair | violates `PaidOrderReconciles` |
| `refund_safe` | two requests, two faults | `RefundedMeansReturned`, `RestoredMeansUntouched`, `ChargedOnceUnlessStuck`, `RefundExclusive`, `RefundedIsFinal`, and the refinement `KeepsRefundPromise` (1.3 million states) |
| `refund_twice` | two faults | violates `DeductedAtMostOnce` |
| `refund_reopened` | two requests, no fault | violates `CompletedRefundIsFinal` |
| `idem_safe` | two requests, two fingerprints, TTL 2 | `SingleExecutor`, `EffectOnceBeforeExpiry`, `ResultIsStable`, `ReplayMatchesRequest`, and the refinement `KeepsKeyPromise` (0.7 million states) |
| `idem_reclaim` | two requests, TTL 1 | violates `OnlyExpiredResultsAreReclaimed` |
| `batch_safe` | one job, two workers, one fault, one cancel or repeated submission, funded by own money, by a reward credit or not at all | `CompletedIsCharged`, `HoldTakenOnce` (with at most one hold of the others where it is excused), `FailedIsFree`, `InflightIsQueued`, `LiveIsQueued`, `HoldOfFailedReturns`, `BalanceCoversCredit`, `HoldStaysWhileRunning`, `FinishedIsFinal` (1.9 million states) |
| `slots_safe` | three requests on two instances that run or are still to be started, one slot, queue limits 1 and 2, one fault | `ServedWithinLimit`, `WaitersWithinLimit`, `NoPhantomWaiters` (2.7 million states) |

The violating runs document where the code and what is written about it disagree; see
section 7.

## 5. Bounds and fairness

* **Two workers.**  Every hazard listed is a race of two: a take-over, a duplicate, a
  verdict applied late.  A worker returns to `idle` and starts again, so two workers
  are any number of requests of which two overlap.  The proofs cover any number.
* **`MaxFaults` 1 or 2.**  One fault puts an order on its recovery path at any step, the
  second hits the recovery itself.
* **`Grace = 0`, `LeaseTTL = 1`.**  Both thresholds only tell a younger row from an older
  one, and they apply to different statuses; the smallest values keep both sides
  reachable.  `MaxAge` stops the clock where no comparison changes any more.
* **`TTL = 2`, `LockTTL = 1`, `Backoff = 1`, `MaxClock = 3`.**  A lock may run out before
  the record does, the record expires within the run, and time is left for a second
  claim, a deletion and a re-creation.  Times grow with the clock, so the clock is bounded.
* **One job, two workers** (`batch_safe`).  Jobs meet only in the user's balance, so the
  frozen amount of other jobs is a constant (`OtherFrozen`) that a wrong release would eat
  into.  That several jobs do not starve one another is not a question this run can ask: it
  is proved (`HoldsFunded`).  `MaxRetries = 1` makes the first failed settlement the last; `MaxCopies = 1` still
  lets an id be ready, delayed and active at once.  Larger instances were checked beside the
  kept run: two faults with own money and with credit separately (six to seven million states
  each).
* **`Max = 1`, `MaxWait` 1 and 2, three requests, two instances, one fault** (`slots_safe`):
  one served, one waiting, one refused by the shorter limit and let in by the longer, and a
  start of one instance under requests of the other.  Expiry of the counter, a start with its
  sweep and a refused call are no faults, so the one fault may come on top of all of them.  The
  proofs cover any limits and any number of faults.
* **Symmetry** permutes workers or requests (and fingerprints) only, in safety runs only;
  no definition singles one out.
* **`CHECK_DEADLOCK FALSE`** for payments and batch jobs: an order that is completed, refunded or failed
  for good may rest, and so may a finished batch job.  The idempotency and slot runs check
  for deadlock.

Fairness (`FairSpec` of `PaymentFulfillment`).  Handlers that started run on: weak
fairness of each worker.  Time passes.  Providers repeat a webhook until it is
acknowledged, the expiry job visits an overdue PENDING order at every pass, and operators
retry orders that are paid and not delivered: strong fairness, since other workers may
occupy the order whenever such a pass comes along.  Operator retries are the one
assumption about people; without them a FAILED order whose webhook was acknowledged
stays FAILED.  The liveness run has one worker at a time: two workers
that are both slower than the five minutes of a lease can take it from each other for ever,
which no scheduling assumption of the code excludes.

`ConcurrencySlots` and `BatchImage` state no fairness and claim no liveness: nothing promises a
waiting request a slot before its timeout, and a batch job depends on a provider that need not
answer.  Their "must happen" properties are stated as safety instead: what still has to be done is
held by a queue entry or by a handler (`LiveIsQueued`, `HoldOfFailedReturns`).

## 6. Proofs

`PaymentFulfillmentProofs` proves, for any set of workers, order types, thresholds and number
of faults (assumptions: the thresholds and `MaxFaults` are natural numbers, the order
types are the three known ones):

| Theorem | States |
|---|---|
| `TypeCorrect` | `TypeOK` |
| `CompletionIsBacked` | `CompletedMeansDelivered` |
| `DeliveredOnce` | `GrantedAtMostOnce` for orders other than plans |
| `EmailSentOnce` | `AnnouncedOnce` |
| `RewardOnce` | `RewardedAtMostOnce` |
| `NeverCancelledOncePaid` | `PaidIsNeverCancelled` |
| `CompletedIsFinal` | `CompletionIsFinal` |
| `ImplementsPromise` | `KeepsPromise` where no plan seats are sold: `Init` maps to the promise's, every step to one of its steps or a stutter |

None of these is inductive as it stands.  `Backed` adds that without a right payment no
worker is past `confirmPayment` and the row does not look paid; `Delivered`, that before delivery
no marker claims it and no worker is past it; `Counted`, that the marker written in the
delivering transaction (the used code, the order note) *counts* the deliveries, which is why
double leases do no harm to top-ups and groups; `Announcing`, that only the worker
that completed the order is on its way to the e-mail; `Confirmed`, that a row with
`paid_at` has left the statuses that can be cancelled.

The argument shows where the safety of a delivery comes from: not from the lease
(`lease_alias` shows it can be shared) but from the marker inside the transaction.  Plan
orders lack that marker test, and `plan_twice` is the consequence.

`IdempotencyProofs` proves, for any number of requests and any positive TTL, lock and
backoff:

| Theorem | States |
|---|---|
| `TypeCorrect` | `TypeOK` |
| `OneExecutor` | `SingleExecutor` |
| `OneEffect` | `EffectOnceBeforeExpiry` |
| `StableResult` | `ResultIsStable` |
| `GenuineReplay` | `ReplayMatchesRequest` |
| `ImplementsKeyPromise` | `KeepsKeyPromise`: `Init` maps to the promise's, every step to one of its steps or a stutter |

`Owned` is the invariant of the middle three: as long as the record has never been
expired nobody is on the path that takes over expired records, a holder has the record
in `processing` under its id, there is one holder, and after a success the record is
never back in a claimable status.  `Identity` carries the last one through expiries and
deletions: ids are not reused, so whoever knows the record's id knows its fingerprint.
The refinement is proved from these with `Past` (nobody's `now` is ahead of the clock),
`Effected` (who is about to store has had its effect) and `Asked` (an absent record is empty, a
begun call asks something); together they are `KeyInv`.  Before the expiry a step leaves the
record and its holders alone, or is one of five moves of one request, and each move is a
step of the promise (`MovesKeepPromise`).

`PaymentRefundProofs` proves, for any number of requests and faults: `RefundTypes`
(`TypeOK`), `RefundBacked` (`RefundedMeansReturned`), `RefundLock` (`RefundExclusive`),
`RestoredUntouched` (`RestoredMeansUntouched`), `ChargedOnce` (`ChargedOnceUnlessStuck`),
`RefundFinal` (`RefundedIsFinal`), `ImplementsRefundPromise` (`KeepsRefundPromise`).  The invariant adds `SeenReturned` (who goes on to a
settled status saw the money returned), `OwnerHolds` (the steps behind the lock imply
REFUNDING), `FailedIsStuck`, `DeductIsDue`, `Books` (on an undisturbed order the
debits are exactly the owner's) and `LedgerOK`: the requests that may still give something
back are at most as many as the debits, which keeps the count from falling below zero even
when late verdicts let several requests in.  The refinement needs no more than this invariant:
on an undisturbed order `RefundExclusive` and `Books` make the request that moves the owner
of the promise and the debits its `taken`, and `SeenReturned` gives `Close` its guard.

`ConcurrencySlotsProofs` proves, for any finite set of requests, any instances and any
limits: `SlotTypes` (`TypeOK`), `LimitHolds` (`ServedWithinLimit`), `QueueCounted`
(`WaitersWithinLimit`), `QueueNotPhantom` (`NoPhantomWaiters`).  The limit needs `Holds`
(who is served has a fresh member, unless in `over`): then the served requests are among
the members a script counts.  The counter properties are inductive given where a request
returns to after it kept the index (`ReturnOK`).  They do not rest on the counter's TTL: it may
run out at any time, which sets `skew.low` to the number of those waiting, and what is proved is
that the error stays within the failures and losses that `skew` counts.

`BatchImageProofs`, on top of `BatchImageJobProofs` (the holds, and the steps of the submission,
of requests, the recovery and time) and `BatchImageWorkerProofs` (the workers' steps), proves all
properties of `batch_safe`, and one about many jobs, for any number of jobs, workers, retries, amounts and
faults:

| Theorem | States |
|---|---|
| `BatchTypes` | `TypeOK`, with frozen balance and reserved credit never negative |
| `CompletedCharged` | `CompletedIsCharged` |
| `TakenOnce`, `FailedFree` | `HoldTakenOnce`, with the bound of one hold in the excused cases; `FailedIsFree` |
| `HoldsFunded` | `HoldsAreFunded`, which no run checks |
| `InflightQueued`, `LiveQueued` | `InflightIsQueued`, `LiveIsQueued` |
| `FailedReturns` | `HoldOfFailedReturns` |
| `CreditCovered` | `BalanceCoversCredit` |
| `HoldStays` | `HoldStaysWhileRunning` |
| `FinishedFinal` | `FinishedIsFinal` |

The invariant `IInv` has a part per job and a part per worker.  `Books` says what the
claimed request ids mean for the hold, `LotBooks` that the reserved credit is the sum of
what jobs hold of it.  Per job: `Recorded` and `Held` (how far a submission is and what the row
can be), `Provided` (what the provider's state implies), `Charged` (a capture is of the
indexed count, which no longer changes), `Released`, `Settled` (capture and release exclude
each other as long as the lock held and no committed capture looked failed), `Queued`,
`FailedOwed`.  Per worker: `LockHeld`, `Positions` (what its position says about the row),
`Charging`, `Answered` (a verdict of the provider is final), `TakenIsQueued`.  A step of
one process is shown to keep its own job's part (`OutsideStep`, `WorkerStep`), and
`Bystander` shows what such a step leaves to the other workers on the same job.  The
argument shows what the settlement rests on: not on the request ids, which
make each call idempotent and know nothing of one another, but on the job lock.
`HoldsFunded` needs an invariant across jobs, since all of them share one frozen number:
`FrozenBooks` says that it is what the holders put in, less what was overdrawn
(`HoldAmount` times the cardinalities), and `Position` where a job can stand, which also gives
`HoldTakenOnce` its bound.  For `HoldOfFailedReturns`, `Recorded` says that only recorded jobs
are queued and `FailedOwed` that a queued job which failed with its hold is still in the queue,
or released, or lost its lock.  The run has one
job beside a constant of frozen balance; that any number of jobs cannot starve each other is
shown by the proof alone.  `IInv` was
checked with TLC before it was proved.

Only model-checked: liveness (`PaidOrderSettles`; fairness and ENABLED are outside the
prover's reach).  Not claimed, because it is false: `GrantedAtMostOnce` and `KeepsPromise` for
plan orders.  Two overlapping workers are not even needed: one lookup that fails in
`CheckAssigned`, which the code takes for "not there", lets a single worker grant a second
term on its retry.

## 7. Findings

1. **A plan order can be granted twice** (`plan_twice`,
   `service/payment_fulfillment.go:596`).  `doSubWithPlanSeat` does not look for the
   order's marker again inside its transaction; "Idempotency: check durable completion
   marker first." (line 551) runs outside it.
2. **The lease can be shared** (`lease_alias`, line 295).  The version is read back in a
   second statement, so a stalled worker adopts its successor's version, against "The
   lease version prevents a stale worker from overwriting a newer owner." (line 1016).
3. **A payment after the grace period is recorded and never delivered** (`late_payment`,
   line 199), against "If the user has actually paid but the callback was delayed, the
   system will reconcile automatically" (`docs/PAYMENT.md:260`).
4. **A refund can be deducted twice** (`refund_twice`, `service/payment_refund.go:619`).  After
   a failed rollback the retry deducts nothing, reports a successful rollback, and the
   finalization of a pending refund deducts again, against the comment at line 251.
5. **A settled refund can be reopened** (`refund_reopened`, line 528).
   `finalizeRefundFailed` has no condition on the status; `docs/PAYMENT.md:255` calls
   REFUNDED "Refund completed".
6. **A fresh result can be reclaimed** (`idem_reclaim`, `service/idempotency.go:300`).  Two
   requests read the same expired `succeeded` record; one reclaims, executes and stores;
   `TryReclaim` of the other compares status and lock, not the expiry, and takes the fresh
   result, so the effect happens twice within the TTL, against "concurrent same-key
   requests should execute business side-effect once" (`service/idempotency_test.go:394`).

## 8. What is not modelled

* Subscriptions and plan seats beyond their part in an order, scheduler snapshot and outbox,
  capture spool, OAuth token refresh (see the plan), and order admission beyond the creation
  of one order.
* Usage billing beyond the batch holds: the per-request deduction, the balance cache and
  in-flight reservations.
* Of the concurrency slots: leases of WebSocket ingress connections, the statistics slots of
  API keys and the cached load batches, none of which admits a request here.
* Of batch image jobs: validation, pricing, item contents, downloads, input cleanup and audit
  events.
* More than the stated number of faults in a run; the theorems cover any number.
* Amounts, currencies, fees and day arithmetic of refunds: abstracted to right / wrong,
  partial / full, something due / nothing due.  So is the request's choice not to deduct.
* Provider clients, signatures and provider selection: an environment that pays, answers,
  repeats, delays and loses.
* Clock skew between instances, and the length of stored idempotent responses.
* Protocol translation and the web console: stateless conversions and presentation,
  better served by tests on data.
