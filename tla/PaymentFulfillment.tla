------------------------- MODULE PaymentFulfillment -------------------------
(***************************************************************************)
(* The life of one payment order, from checkout to the entitlement it buys *)
(* (a balance top-up or a subscription term).                              *)
(*                                                                         *)
(* Every handler of PaymentService touches the rows of a single order, so  *)
(* one order is modelled and any number of workers (HTTP requests, the     *)
(* expiry job, admin retries, on any instance) run handlers on it at once. *)
(* A step of a worker is one database statement or transaction, or one     *)
(* call of the payment provider; between two steps anything may happen,    *)
(* a crash included.                                                       *)
(*                                                                         *)
(* updated_at, which every update of the row moves to the current time,    *)
(* serves the code twice.  As a clock it is `age`, the time since the last *)
(* update.  As the lease version it is only compared for equality with the *)
(* value a worker remembers: `leases` is the set of workers whose          *)
(* remembered version is the row's current one, and every update empties   *)
(* it (two updates never fall in the same microsecond).                    *)
(***************************************************************************)
EXTENDS Naturals, FiniteSets

CONSTANTS
    Workers,    \* goroutines that run handlers for this order
    OrderTypes, \* what may be bought: "balance", "plan", "group"
    Grace,      \* paymentGraceMinutes, in ticks
    LeaseTTL,   \* paymentFulfillmentLeaseDuration, in ticks
    MaxFaults   \* bound: crashes, failed statements and failed calls

ASSUME OrderTypesAssumption == OrderTypes \subseteq {"balance", "plan", "group"}
ASSUME GraceAssumption     == Grace \in Nat
ASSUME LeaseAssumption     == LeaseTTL \in Nat
ASSUME FaultsAssumption    == MaxFaults \in Nat

VARIABLES
    orderType,                                 \* order_type, fixed at creation
    status, age, paidAt, tradeNo, overdue,     \* the rest of the payment_orders row
    creator,                                   \* the CreateOrder request
    live, paid, closed, acked, dropped,        \* the payment provider
    pc, job, snap, leases,                     \* the workers
    code,                                      \* the redeem_codes row
    note, assigned, success, rebate, late,     \* order note and audit rows
    relation,                                  \* user_affiliates.reward_status
    grants, rewards, emails,                   \* effects the user sees
    faults

orderVars    == <<orderType, status, age, paidAt, tradeNo, overdue>>
providerVars == <<live, paid, closed, acked, dropped>>
workerVars   == <<pc, job, snap, leases>>
markerVars   == <<code, note, assigned, success, rebate, late, relation>>
effectVars   == <<grants, rewards, emails>>
vars == <<orderVars, creator, providerVars, workerVars, markerVars, effectVars,
          faults>>

Statuses == {"PENDING", "PAID", "RECHARGING", "COMPLETED", "EXPIRED",
             "CANCELLED", "FAILED"}

\* Steps taken with the fulfillment lease in hand: an error in one of them
\* ends in markFailed.
LeasedSteps == {"lookup", "create", "redeem", "check", "assign",
                "rebateClaim", "rebateTx", "complete"}
Steps == LeasedSteps \cup
         {"idle", "query", "close", "cancel", "persist", "toPaid", "already",
          "execute", "acquire", "claim", "announce", "fail"}
Jobs == {"none", "webhook", "poll", "cancel", "expire", "admin"}
TradeNos == {"", "prepay", "final"}

MaxAge == IF Grace < LeaseTTL THEN LeaseTTL ELSE Grace + 1

TypeOrder ==
    /\ orderType \in OrderTypes /\ status \in Statuses /\ age \in 0..MaxAge
    /\ paidAt \in BOOLEAN /\ tradeNo \in TradeNos /\ overdue \in BOOLEAN
TypeProvider ==
    /\ creator \in {"creating", "invoked", "saved", "failed", "crashed"}
    /\ live \in BOOLEAN /\ paid \in {"no", "exact", "wrong"}
    /\ closed \in BOOLEAN /\ acked \in BOOLEAN /\ dropped \in BOOLEAN
TypeWorkers ==
    /\ pc \in [Workers -> Steps] /\ job \in [Workers -> Jobs]
    /\ snap \in [Workers -> TradeNos] /\ leases \subseteq Workers
TypeMarkers ==
    /\ code \in {"none", "unused", "used"}
    /\ note \in BOOLEAN /\ assigned \in BOOLEAN /\ success \in BOOLEAN
    /\ rebate \subseteq {"APPLIED", "SKIPPED"} /\ late \in BOOLEAN
    /\ relation \in {"none", "pending", "resolved"}
TypeEffects ==
    /\ grants \in Nat /\ rewards \in Nat /\ emails \in Nat
    /\ faults \in 0..MaxFaults

TypeOK == TypeOrder /\ TypeProvider /\ TypeWorkers /\ TypeMarkers /\ TypeEffects

(***************************************************************************)
(* createOrderInTx has committed: the row is PENDING, without a trade      *)
(* number, and the request is about to call the provider.                  *)
(***************************************************************************)
Init ==
    /\ orderType \in OrderTypes
    /\ status = "PENDING" /\ age = 0 /\ paidAt = FALSE /\ tradeNo = ""
    /\ overdue = FALSE /\ creator = "creating"
    /\ live = FALSE /\ paid = "no" /\ closed = FALSE /\ acked = FALSE
    /\ dropped = FALSE
    /\ pc = [w \in Workers |-> "idle"] /\ job = [w \in Workers |-> "none"]
    /\ snap = [w \in Workers |-> ""] /\ leases = {}
    /\ code = "none" /\ note = FALSE /\ assigned = FALSE /\ success = FALSE
    /\ rebate = {} /\ late = FALSE /\ relation \in {"none", "pending"}
    /\ grants = 0 /\ rewards = 0 /\ emails = 0 /\ faults = 0

-----------------------------------------------------------------------------
(* Helpers *)

\* An update of the order row: ent's UpdateDefault moves updated_at.
Touch(newStatus) == status' = newStatus /\ age' = 0 /\ leases' = {}

Goto(w, step) == pc' = [pc EXCEPT ![w] = step] /\ UNCHANGED <<job, snap>>

\* The handler returns; the provider stops redelivering a webhook that was
\* answered with success.
Return(w, ok) ==
    /\ pc' = [pc EXCEPT ![w] = "idle"]
    /\ job' = [job EXCEPT ![w] = "none"]
    /\ snap' = [snap EXCEPT ![w] = ""]
    /\ acked' = (acked \/ (ok /\ job[w] = "webhook"))

Begin(w, step, kind) ==
    /\ pc[w] = "idle"
    /\ pc' = [pc EXCEPT ![w] = step]
    /\ job' = [job EXCEPT ![w] = kind]
    /\ snap' = [snap EXCEPT ![w] = IF step = "query" THEN tradeNo ELSE ""]
    /\ UNCHANGED <<orderVars, creator, providerVars, leases, markerVars,
                   effectVars, faults>>

UseFault == faults < MaxFaults /\ faults' = faults + 1

\* Mutant: the amount check of confirmPayment is missing.
AmountUnchecked == paid # "no"

\* confirmPayment: the paid amount is the order's, within the tolerance.
AmountMatches == paid = "exact"

-----------------------------------------------------------------------------
(* Environment: the payment provider, the customer, time *)

Pay ==
    /\ live /\ ~closed /\ paid = "no"
    /\ paid' \in {"exact", "wrong"}
    /\ UNCHANGED <<orderVars, creator, live, closed, acked, dropped,
                   workerVars, markerVars, effectVars, faults>>

Tick ==
    /\ age < MaxAge /\ age' = age + 1
    /\ UNCHANGED <<orderType, status, paidAt, tradeNo, overdue, creator,
                   providerVars, workerVars, markerVars, effectVars, faults>>

PassDeadline ==
    /\ ~overdue /\ overdue' = TRUE
    /\ UNCHANGED <<orderType, status, age, paidAt, tradeNo, creator,
                   providerVars, workerVars, markerVars, effectVars, faults>>

-----------------------------------------------------------------------------
(* The CreateOrder request after its transaction *)

\* prov.CreatePayment reaches the provider.
InvokeProvider ==
    /\ creator = "creating"
    /\ creator' = "invoked" /\ live' = TRUE
    /\ UNCHANGED <<orderVars, paid, closed, acked, dropped, workerVars,
                   markerVars, effectVars, faults>>

\* invokeProvider stores the provider's references: an update by id only.
SaveCreated ==
    /\ creator = "invoked" /\ creator' = "saved"
    /\ tradeNo' \in {tradeNo, "prepay", "final"} /\ Touch(status)
    /\ UNCHANGED <<orderType, paidAt, overdue, providerVars, pc, job, snap,
                   markerVars, effectVars, faults>>

\* invokeProvider failed: CreateOrder sets FAILED by id, whatever the status.
FailCreate ==
    /\ creator \in {"creating", "invoked"} /\ creator' = "failed"
    /\ UseFault /\ Touch("FAILED")
    /\ UNCHANGED <<orderType, paidAt, tradeNo, overdue, providerVars, pc, job,
                   snap, markerVars, effectVars>>

CrashCreate ==
    /\ creator \in {"creating", "invoked"} /\ creator' = "crashed"
    /\ UseFault
    /\ UNCHANGED <<orderVars, providerVars, workerVars, markerVars,
                   effectVars>>

-----------------------------------------------------------------------------
(* Ways into fulfillment *)

\* HandlePaymentNotification and confirmPayment up to toPaid.  Redelivery
\* after success is possible (providers deliver at least once).
DeliverWebhook(w) == paid # "no" /\ AmountMatches /\ Begin(w, "toPaid", "webhook")

\* confirmPayment cannot load the order and answers success all the same.
LoseWebhook ==
    /\ paid # "no" /\ ~acked /\ UseFault
    /\ acked' = TRUE /\ dropped' = TRUE
    /\ UNCHANGED <<orderVars, creator, live, paid, closed, workerVars,
                   markerVars, effectVars>>

RetryFulfillment(w) ==
    /\ paidAt /\ status \in {"FAILED", "PAID", "RECHARGING"}
    /\ Begin(w, "execute", "admin")

\* CancelOrder and AdminCancelOrder.
CancelOrder(w) == status = "PENDING" /\ Begin(w, "query", "cancel")

\* ExpireTimedOutOrders, for this order.
ExpireOrder(w) == status = "PENDING" /\ overdue /\ Begin(w, "query", "expire")

\* VerifyOrderByOutTradeNo.
VerifyOrder(w) == status \in {"PENDING", "EXPIRED"} /\ Begin(w, "query", "poll")

\* ReconcilePendingProviderOrders, for this order.
ReconcileOrder(w) == status = "PENDING" /\ ~overdue /\ Begin(w, "query", "poll")

-----------------------------------------------------------------------------
(* checkPaidWithOptions and cancelCore *)

\* prov.QueryOrder.  A paid answer goes to the notification path and the order
\* is not cancelled, even when confirmPayment then rejects the amount.
QueryPaid(w) ==
    /\ pc[w] = "query" /\ paid # "no"
    /\ UNCHANGED <<orderVars, creator, live, paid, closed, dropped, leases,
                   markerVars, effectVars, faults>>
    /\ \/ /\ snap[w] # "final" /\ UNCHANGED acked
          /\ pc' = [pc EXCEPT ![w] = "persist"]
          /\ job' = [job EXCEPT ![w] = "poll"] /\ UNCHANGED snap
       \/ /\ AmountMatches /\ UNCHANGED acked
          /\ pc' = [pc EXCEPT ![w] = "toPaid"]
          /\ job' = [job EXCEPT ![w] = "poll"] /\ UNCHANGED snap
       \/ ~AmountMatches /\ Return(w, TRUE)

QueryUnpaid(w) ==
    /\ pc[w] = "query" /\ paid = "no"
    /\ IF job[w] = "poll" THEN Return(w, TRUE)
                          ELSE Goto(w, "close") /\ UNCHANGED acked
    /\ UNCHANGED <<orderVars, creator, live, paid, closed, dropped, leases,
                   markerVars, effectVars, faults>>

\* The query failed, or twice reported an invalid amount.
QueryError(w) ==
    /\ pc[w] = "query" /\ UseFault
    /\ IF job[w] = "poll" THEN Return(w, TRUE)
                          ELSE Goto(w, "cancel") /\ UNCHANGED acked
    /\ UNCHANGED <<orderVars, creator, live, paid, closed, dropped, leases,
                   markerVars, effectVars>>

\* CancelPayment, where the provider supports it; its result is ignored.
CloseUpstream(w) ==
    /\ pc[w] = "close"
    /\ closed' \in {closed, closed \/ paid = "no"}
    /\ Goto(w, "cancel")
    /\ UNCHANGED <<orderVars, creator, live, paid, acked, dropped, leases,
                   markerVars, effectVars, faults>>

\* Mutant: cancelCore also closes a row that was just paid.
CancellablePaid == status \in {"PENDING", "PAID"}

\* The conditional update at the end of cancelCore.
Cancellable == status = "PENDING"

FinishCancel(w) ==
    /\ pc[w] = "cancel"
    /\ \/ /\ Cancellable
          /\ Touch(IF job[w] = "expire" THEN "EXPIRED" ELSE "CANCELLED")
       \/ ~Cancellable /\ UNCHANGED <<status, age, leases>>
    /\ Return(w, TRUE)
    /\ UNCHANGED <<orderType, paidAt, tradeNo, overdue, creator, live, paid,
                   closed, dropped, markerVars, effectVars, faults>>

\* The upstream trade number is stored by id only, and the payment confirmed
\* even when that fails.
PersistTradeNo(w) ==
    /\ pc[w] = "persist"
    /\ \/ tradeNo' = "final" /\ Touch(status) /\ UNCHANGED faults
       \/ UNCHANGED <<tradeNo, status, age, leases>> /\ UseFault
    /\ \/ /\ AmountMatches /\ UNCHANGED <<job, acked>>
          /\ pc' = [pc EXCEPT ![w] = "toPaid"]
          /\ snap' = [snap EXCEPT ![w] = "final"]
       \/ ~AmountMatches /\ Return(w, TRUE)
    /\ UNCHANGED <<orderType, paidAt, overdue, creator, live, paid, closed,
                   dropped, markerVars, effectVars>>

-----------------------------------------------------------------------------
(* toPaid, alreadyProcessed, executeFulfillment *)

Payable == \/ status \in {"PENDING", "CANCELLED"}
           \/ status = "EXPIRED" /\ age <= Grace

ToPaid(w) ==
    /\ pc[w] = "toPaid" /\ Payable
    /\ Touch("PAID") /\ paidAt' = TRUE
    /\ tradeNo' = IF job[w] = "webhook" THEN "final" ELSE snap[w]
    /\ pc' = [pc EXCEPT ![w] = "execute"] /\ UNCHANGED job
    /\ snap' = [snap EXCEPT ![w] = ""]
    /\ UNCHANGED <<orderType, overdue, creator, providerVars, markerVars,
                   effectVars, faults>>

ToPaidMiss(w) ==
    /\ pc[w] = "toPaid" /\ ~Payable
    /\ pc' = [pc EXCEPT ![w] = "already"] /\ UNCHANGED job
    /\ snap' = [snap EXCEPT ![w] = ""]
    /\ UNCHANGED <<orderVars, creator, providerVars, leases, markerVars,
                   effectVars, faults>>

AlreadyProcessed(w) ==
    /\ pc[w] = "already"
    /\ \/ /\ status \in {"FAILED", "PAID", "RECHARGING"}
          /\ Goto(w, "execute") /\ UNCHANGED <<acked, late>>
       \/ /\ status \notin {"FAILED", "PAID", "RECHARGING"}
          /\ late' = (late \/ status = "EXPIRED")
          /\ Return(w, TRUE)
    /\ UNCHANGED <<orderVars, creator, live, paid, closed, dropped, leases,
                   code, note, assigned, success, rebate, relation, effectVars,
                   faults>>

\* ExecuteBalanceFulfillment / ExecuteSubscriptionFulfillment: status checks.
Execute(w) ==
    /\ pc[w] = "execute"
    /\ \/ /\ status \in {"PAID", "FAILED", "RECHARGING"}
          /\ Goto(w, "acquire") /\ UNCHANGED acked
       \/ /\ status \notin {"PAID", "FAILED", "RECHARGING"}
          /\ Return(w, status = "COMPLETED")
    /\ UNCHANGED <<orderVars, creator, live, paid, closed, dropped, leases,
                   markerVars, effectVars, faults>>

\* Mutant: no takeover of a lease whose owner died.
LeaseFreeNoTakeover == status \in {"PAID", "FAILED"}

\* acquirePaymentFulfillmentLease, its conditional update.
LeaseFree == \/ status \in {"PAID", "FAILED"}
             \/ status = "RECHARGING" /\ age >= LeaseTTL

AcquireLease(w) ==
    /\ pc[w] = "acquire" /\ LeaseFree
    /\ Touch("RECHARGING") /\ Goto(w, "claim")
    /\ UNCHANGED <<orderType, paidAt, tradeNo, overdue, creator, providerVars,
                   markerVars, effectVars, faults>>

AcquireMiss(w) ==
    /\ pc[w] = "acquire" /\ ~LeaseFree
    /\ Return(w, status = "COMPLETED")
    /\ UNCHANGED <<orderVars, creator, live, paid, closed, dropped, leases,
                   markerVars, effectVars, faults>>

\* Its second statement: the persisted updated_at is read back as the version.
ClaimLease(w) ==
    /\ pc[w] = "claim"
    /\ \/ /\ status = "RECHARGING" /\ leases' = leases \cup {w}
          /\ Goto(w, IF orderType = "balance" THEN "lookup" ELSE "check")
          /\ UNCHANGED acked
       \/ status # "RECHARGING" /\ UNCHANGED leases /\ Return(w, FALSE)
    /\ UNCHANGED <<orderVars, creator, live, paid, closed, dropped, markerVars,
                   effectVars, faults>>

-----------------------------------------------------------------------------
(* doBalance *)

\* GetByCode and resolveRedeemAction.
LookupCode(w) ==
    /\ pc[w] = "lookup"
    /\ Goto(w, CASE code = "none"   -> "create"
                 [] code = "unused" -> "redeem"
                 [] code = "used"   -> "rebateClaim")
    /\ UNCHANGED <<orderVars, creator, providerVars, leases, markerVars,
                   effectVars, faults>>

\* Mutant: the code is stored as used, which the balance never sees.
CreateUsedCode(w) ==
    /\ pc[w] = "create" /\ code' = "used" /\ Goto(w, "rebateClaim")
    /\ UNCHANGED <<orderVars, creator, providerVars, leases, note, assigned,
                   success, rebate, late, relation, effectVars, faults>>

\* CreateCode: the code is unique.
CreateCode(w) ==
    /\ pc[w] = "create"
    /\ \/ code = "none" /\ code' = "unused" /\ Goto(w, "redeem")
       \/ code # "none" /\ UNCHANGED code /\ Goto(w, "fail")
    /\ UNCHANGED <<orderVars, creator, providerVars, leases, note, assigned,
                   success, rebate, late, relation, effectVars, faults>>

\* redeem: the transaction that marks the code used and credits the balance.
\* It needs the code's distributed lock, which a concurrent redemption holds.
RedeemCode(w) ==
    /\ pc[w] = "redeem"
    /\ \/ /\ code = "unused" /\ code' = "used" /\ grants' = grants + 1
          /\ \/ Goto(w, "rebateClaim") /\ UNCHANGED faults
             \/ Goto(w, "fail") /\ UseFault   \* the reload after the commit fails
       \/ /\ code # "unused" \/ \E v \in Workers \ {w} : pc[v] = "redeem"
          /\ UNCHANGED <<code, grants, faults>> /\ Goto(w, "fail")
    /\ UNCHANGED <<orderVars, creator, providerVars, leases, note, assigned,
                   success, rebate, late, relation, rewards, emails>>

-----------------------------------------------------------------------------
(* doSub *)

\* The completion marker and the order note are looked up outside any
\* transaction; a lookup that fails counts as "not there".
CheckAssigned(w) ==
    /\ pc[w] = "check"
    /\ \/ (success \/ note) /\ Goto(w, "rebateClaim") /\ UNCHANGED faults
       \/ ~(success \/ note) /\ Goto(w, "assign") /\ UNCHANGED faults
       \/ (success \/ note) /\ Goto(w, "assign") /\ UseFault
    /\ UNCHANGED <<orderVars, creator, providerVars, leases, markerVars,
                   effectVars>>

\* Mutant: only the completion marker is looked up inside the transaction.
AlreadyCompleted == orderType = "group" /\ success

\* ensurePaymentSubscriptionAssigned looks again inside its transaction, which
\* the unique SUBSCRIPTION_ASSIGNED row serialises; doSubWithPlanSeat does not.
AlreadyAssigned == orderType = "group" /\ (assigned \/ success \/ note)

AssignSubscription(w) ==
    /\ pc[w] = "assign"
    /\ grants' = IF AlreadyAssigned THEN grants ELSE grants + 1
    /\ note' = (note \/ ~AlreadyAssigned)
    /\ assigned' = (orderType = "group" \/ assigned)
    /\ \/ Goto(w, "rebateClaim") /\ UNCHANGED faults
       \/ Goto(w, "fail") /\ UseFault   \* cache invalidation after the commit fails
    /\ UNCHANGED <<orderVars, creator, providerVars, leases, code, success,
                   rebate, late, relation, rewards, emails>>

-----------------------------------------------------------------------------
(* applyAffiliateRebateForOrder *)

\* The claim's NOT EXISTS sees what is committed when the statement starts.
ClaimRebate(w) ==
    /\ pc[w] = "rebateClaim"
    /\ Goto(w, IF rebate = {} THEN "rebateTx" ELSE "complete")
    /\ UNCHANGED <<orderVars, creator, providerVars, leases, markerVars,
                   effectVars, faults>>

\* Mutant: the reward leaves the relationship pending.
RewardOnly(rewarded) ==
    /\ relation = "pending" /\ UNCHANGED relation
    /\ rewards' = IF rewarded THEN rewards + 1 ELSE rewards

\* ResolveFirstRecharge settles a relationship that is still pending, with a
\* reward when the recharge qualifies for one; it leaves any other alone.
ResolveFirstRecharge(rewarded) ==
    \/ /\ relation = "pending" /\ relation' = "resolved"
       /\ rewards' = IF rewarded THEN rewards + 1 ELSE rewards
    \/ relation # "pending" /\ ~rewarded /\ UNCHANGED <<relation, rewards>>

\* Its insert waits for other inserts of the same (order, action) key, and
\* gives way to a committed one.  The claim is renamed SKIPPED when nobody is
\* rewarded, and that key is unique too.
SettleRebate(w) ==
    /\ pc[w] = "rebateTx"
    /\ \/ /\ "APPLIED" \in rebate /\ Goto(w, "complete")
          /\ UNCHANGED <<rebate, relation, rewards>>
       \/ /\ "APPLIED" \notin rebate
          /\ ResolveFirstRecharge(TRUE)
          /\ rebate' = rebate \cup {"APPLIED"} /\ Goto(w, "complete")
       \/ /\ rebate = {} /\ ResolveFirstRecharge(FALSE)
          /\ rebate' = {"SKIPPED"} /\ Goto(w, "complete")
       \/ /\ rebate = {"SKIPPED"} /\ UNCHANGED <<rebate, relation, rewards>>
          /\ Goto(w, "fail")
    /\ UNCHANGED <<orderVars, creator, providerVars, leases, code, note,
                   assigned, success, late, grants, emails, faults>>

-----------------------------------------------------------------------------
(* markCompleted, markFailed *)

\* Mutant: markCompleted and markFailed update the row by id only.
HoldsAnyLease(w) == w \in Workers

HoldsLease(w) == status = "RECHARGING" /\ w \in leases

MarkCompleted(w) ==
    /\ pc[w] = "complete"
    /\ \/ /\ HoldsLease(w) /\ Touch("COMPLETED") /\ Goto(w, "announce")
          /\ UNCHANGED acked
       \/ /\ ~HoldsLease(w) /\ UNCHANGED <<status, age, leases>>
          /\ IF status = "COMPLETED" THEN Return(w, TRUE)
                                     ELSE Goto(w, "fail") /\ UNCHANGED acked
    /\ UNCHANGED <<orderType, paidAt, tradeNo, overdue, creator, live, paid,
                   closed, dropped, markerVars, effectVars, faults>>

\* The success audit row decides whether the e-mail goes out; its own write
\* may be lost.
Announce(w) ==
    /\ pc[w] = "announce"
    /\ emails' = IF success THEN emails ELSE emails + 1
    /\ \/ success' = TRUE /\ UNCHANGED faults
       \/ ~success /\ UNCHANGED success /\ UseFault
    /\ Return(w, TRUE)
    /\ UNCHANGED <<orderVars, creator, live, paid, closed, dropped, leases,
                   code, note, assigned, rebate, late, relation, grants,
                   rewards>>

\* Mutant: the refund's failure status is written.
MarkRefundFailed(w) ==
    /\ pc[w] = "fail" /\ HoldsLease(w) /\ Touch("REFUND_FAILED")
    /\ Return(w, FALSE)
    /\ UNCHANGED <<orderType, paidAt, tradeNo, overdue, creator, live, paid,
                   closed, dropped, markerVars, effectVars, faults>>

MarkFailed(w) ==
    /\ pc[w] = "fail"
    /\ \/ HoldsLease(w) /\ Touch("FAILED")
       \/ ~HoldsLease(w) /\ UNCHANGED <<status, age, leases>>
    /\ Return(w, FALSE)
    /\ UNCHANGED <<orderType, paidAt, tradeNo, overdue, creator, live, paid,
                   closed, dropped, markerVars, effectVars, faults>>

-----------------------------------------------------------------------------
(* Faults *)

\* A statement or call fails with the lease in hand: markFailed follows.
StepFails(w) ==
    /\ pc[w] \in LeasedSteps /\ UseFault /\ Goto(w, "fail")
    /\ UNCHANGED <<orderVars, creator, providerVars, leases, markerVars,
                   effectVars>>

\* A statement fails before there is a lease, or inside markFailed: the
\* handler returns an error and nothing else happens.  A failed reload in
\* alreadyProcessed is answered with success.
StepAborts(w) ==
    /\ pc[w] \in {"cancel", "toPaid", "already", "execute", "acquire", "claim",
                  "fail"}
    /\ UseFault /\ Return(w, pc[w] = "already")
    /\ dropped' = (dropped \/ (pc[w] = "already" /\ job[w] = "webhook"))
    /\ leases' = leases \ {w}
    /\ UNCHANGED <<orderVars, creator, live, paid, closed, markerVars,
                   effectVars>>

Crash(w) ==
    /\ pc[w] # "idle" /\ UseFault /\ Return(w, FALSE)
    /\ leases' = leases \ {w}
    /\ UNCHANGED <<orderVars, creator, live, paid, closed, dropped, markerVars,
                   effectVars>>

-----------------------------------------------------------------------------
Start(w) ==
    \/ DeliverWebhook(w) \/ RetryFulfillment(w) \/ CancelOrder(w)
    \/ ExpireOrder(w) \/ VerifyOrder(w) \/ ReconcileOrder(w)

Upstream(w) ==
    \/ QueryPaid(w) \/ QueryUnpaid(w) \/ CloseUpstream(w) \/ FinishCancel(w)
    \/ PersistTradeNo(w)

Fulfill(w) ==
    \/ ToPaid(w) \/ ToPaidMiss(w) \/ AlreadyProcessed(w) \/ Execute(w)
    \/ AcquireLease(w) \/ AcquireMiss(w) \/ ClaimLease(w)
    \/ LookupCode(w) \/ CreateCode(w) \/ RedeemCode(w)
    \/ CheckAssigned(w) \/ AssignSubscription(w)
    \/ ClaimRebate(w) \/ SettleRebate(w)
    \/ MarkCompleted(w) \/ Announce(w) \/ MarkFailed(w)

Fault(w) == QueryError(w) \/ StepFails(w) \/ StepAborts(w) \/ Crash(w)

Next ==
    \/ Pay \/ Tick \/ PassDeadline
    \/ InvokeProvider \/ SaveCreated \/ FailCreate \/ CrashCreate \/ LoseWebhook
    \/ \E w \in Workers : Start(w) \/ Upstream(w) \/ Fulfill(w) \/ Fault(w)

Spec == Init /\ [][Next]_vars

(***************************************************************************)
(* Fairness.  Requests and jobs that started run on.  A provider redelivers*)
(* a webhook until it is acknowledged.  The expiry job visits an overdue   *)
(* PENDING order on every pass.  Operators retry orders that were paid and *)
(* not delivered.  Time passes.                                            *)
(***************************************************************************)
Fairness ==
    /\ WF_vars(Tick) /\ WF_vars(PassDeadline)
    /\ \A w \in Workers : WF_vars(Upstream(w) \/ Fulfill(w))
    /\ SF_vars(~acked /\ \E w \in Workers : DeliverWebhook(w))
    /\ SF_vars(\E w \in Workers : ExpireOrder(w))
    /\ SF_vars(\E w \in Workers : RetryFulfillment(w))

FairSpec == Spec /\ Fairness
-----------------------------------------------------------------------------
(* Properties *)

\* An order is delivered at most once: whatever webhooks are duplicated,
\* leases taken over, statements failed and processes lost, the balance is
\* credited (or the term granted) no second time.
GrantedAtMostOnce == grants <= 1

\* An order is shown COMPLETED only after its entitlement was delivered, and
\* delivery only follows a payment of the right amount at the provider.
CompletedMeansDelivered ==
    /\ status = "COMPLETED" => grants > 0
    /\ grants > 0 => paid = "exact"

\* The invitation reward of the paying user is settled at most once, although
\* the claim's two unique keys let two workers claim the same order.
RewardedAtMostOnce == rewards <= 1 /\ (rewards = 1 => relation = "resolved")

\* A stale worker never takes a completed order back: only the CreateOrder
\* request that reports a failed provider call overwrites COMPLETED.
CompletionIsFinal ==
    [][status = "COMPLETED" /\ status' # "COMPLETED" => creator' # creator]_vars

\* The order as the customer sees it.
Promise == INSTANCE PurchasePromise WITH
    money <- (paid = "exact"), delivered <- grants, rewarded <- rewards,
    shown <- (status = "COMPLETED")

\* The handlers implement the promise of a purchase: every behaviour of theirs
\* pays, delivers once, rewards and completes in that order, and no step does
\* two of these at once.
KeepsPromise == Promise!Spec

\* A payment that was confirmed is never cancelled or expired afterwards.
PaidIsNeverCancelled ==
    [][paidAt => status' \notin {"CANCELLED", "EXPIRED"}]_vars

\* The success e-mail goes out once, unless the late failure of CreateOrder
\* reopened the order between markCompleted and its audit row.
AnnouncedOnce == emails > 1 => creator = "failed"

\* A confirmed payment is delivered in the end, or put on record as late
\* (PAYMENT_AFTER_EXPIRY).  A webhook that is acknowledged though the order could
\* not be read does not prevent that while the order is open, since the expiry job
\* asks the provider again; only an order that was closed without its payment
\* having been recorded stays so, for the provider sends no other webhook.
PaidOrderSettles ==
    paid = "exact" ~>
        \/ status = "COMPLETED" \/ late
        \/ dropped /\ ~paidAt /\ status \in {"EXPIRED", "CANCELLED", "FAILED"}

\* "The lease version prevents a stale worker from overwriting a newer owner":
\* at most one worker remembers the row's current version.
LeaseExclusive == \A v, w \in leases : v = w

\* "If the user has actually paid but the callback was delayed, the system
\* will reconcile automatically": a right payment always ends in COMPLETED.
PaidOrderReconciles == paid = "exact" ~> status = "COMPLETED"

=============================================================================
