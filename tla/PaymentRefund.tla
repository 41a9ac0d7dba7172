---------------------------- MODULE PaymentRefund ----------------------------
(***************************************************************************)
(* Refunds of one delivered payment order.                                 *)
(*                                                                         *)
(* An administrator refunds the order (PrepareRefund, ExecuteRefund): the  *)
(* entitlement is taken back first, then the gateway is asked to return    *)
(* the money.  A gateway that answers "pending" makes the code give the    *)
(* entitlement back and wait; QueryAndFinalizeRefund, run by an            *)
(* administrator later, settles the order and deducts again.               *)
(*                                                                         *)
(* Amounts are abstracted to what decides the control: whether the refund  *)
(* is partial, and whether there is anything to deduct (a positive balance *)
(* or an active subscription, which other requests change all the time).   *)
(* `debits` counts the deductions that were applied and not given back.    *)
(* The audit table is unique in (order, action): only the first row of an  *)
(* action is ever stored.                                                  *)
(***************************************************************************)
EXTENDS Naturals

CONSTANTS
    Workers,    \* admin requests
    MaxFaults   \* bound: crashes, failed statements and failed calls

ASSUME RefundFaultsAssumption == MaxFaults \in Nat

VARIABLES
    orderType, traded,         \* order_type; payment_trade_no is not empty
    status, rowPartial,        \* status and refund_amount of the row
    gateway,                   \* the refund at the payment gateway
    pc, plan,                  \* the requests and their RefundPlan
    detail,                    \* the REFUND_PENDING audit row
    unrolled, success,         \* REFUND_ROLLBACK_FAILED, REFUND_SUCCESS rows
    revoked,                   \* the subscription was revoked by a deduction
    debits,
    faults,
    stuck, stale               \* history: a rollback failed; a late verdict
                               \* overwrote an order that had moved on

rowVars   == <<orderType, traded, status, rowPartial>>
auditVars == <<detail, unrolled, success>>
vars == <<rowVars, gateway, pc, plan, auditVars, revoked, debits, faults,
          stuck, stale>>

\* Mutant: a partial refund may be refunded again.
RefundableAgain == {"COMPLETED", "REFUND_REQUESTED", "REFUND_PENDING",
                    "REFUND_FAILED", "PARTIALLY_REFUNDED"}

\* Mutant: a refund that was left in progress may be taken up again.
RefundableInProgress == {"COMPLETED", "REFUND_REQUESTED", "REFUND_PENDING",
                         "REFUND_FAILED", "REFUNDING"}

Refundable == {"COMPLETED", "REFUND_REQUESTED", "REFUND_PENDING",
               "REFUND_FAILED"}
Refunded   == {"REFUNDED", "PARTIALLY_REFUNDED"}
Statuses   == Refundable \cup Refunded \cup {"REFUNDING"}

\* Steps of a request that moved the order to REFUNDING.
OwnerSteps == {"recheck", "deduct", "gateway", "ok", "undoPending",
               "markPending", "undoFailed", "restore", "markFailed"}
Steps == OwnerSteps \cup {"idle", "lock", "logPending", "detail", "query",
                          "finalize", "finalFail"}

\* RefundPlan: a deduction is due, the refund is partial, the status was
\* REFUND_REQUESTED when the order was read, the rollback succeeded.
Plans == [take : BOOLEAN, partial : BOOLEAN, requested : BOOLEAN,
          undone : BOOLEAN]
NoPlan == [take |-> FALSE, partial |-> FALSE, requested |-> FALSE,
           undone |-> TRUE]

TypeOK ==
    /\ orderType \in {"balance", "subscription"} /\ traded \in BOOLEAN
    /\ status \in Statuses /\ rowPartial \in BOOLEAN
    /\ gateway \in {"none", "pending", "returned"}
    /\ pc \in [Workers -> Steps] /\ plan \in [Workers -> Plans]
    /\ detail \in {"none", "undone", "kept"}
    /\ unrolled \in BOOLEAN /\ success \in BOOLEAN /\ revoked \in BOOLEAN
    /\ debits \in Nat /\ faults \in 0..MaxFaults
    /\ stuck \in BOOLEAN /\ stale \in BOOLEAN

\* A delivered order; REFUND_REQUESTED rows come from an earlier version.
Init ==
    /\ orderType \in {"balance", "subscription"} /\ traded \in BOOLEAN
    /\ status \in {"COMPLETED", "REFUND_REQUESTED"} /\ rowPartial = FALSE
    /\ gateway = "none"
    /\ pc = [w \in Workers |-> "idle"] /\ plan = [w \in Workers |-> NoPlan]
    /\ detail = "none" /\ unrolled = FALSE /\ success = FALSE
    /\ revoked = FALSE /\ debits = 0 /\ faults = 0
    /\ stuck = FALSE /\ stale = FALSE

-----------------------------------------------------------------------------
(* Helpers *)

Goto(w, step) == pc' = [pc EXCEPT ![w] = step]

Return(w) == Goto(w, "idle") /\ plan' = [plan EXCEPT ![w] = NoPlan]

SetStatus(s) == status' = s /\ UNCHANGED <<orderType, traded, rowPartial>>

UseFault == faults < MaxFaults /\ faults' = faults + 1

RefundedStatus(partial) == IF partial THEN "PARTIALLY_REFUNDED" ELSE "REFUNDED"

-----------------------------------------------------------------------------
(* PrepareRefund and ExecuteRefund *)

\* prepDeduct reads the balance or the active subscription, which other
\* requests change: whether there is something to take is open.  A revoked
\* subscription is not active.
PrepareRefund(w) ==
    /\ pc[w] = "idle" /\ status \in Refundable
    /\ \E take, partial \in BOOLEAN :
        /\ take => ~revoked
        /\ plan' = [plan EXCEPT ![w] =
             [take |-> take, partial |-> partial,
              requested |-> status = "REFUND_REQUESTED", undone |-> TRUE]]
    /\ Goto(w, "lock")
    /\ UNCHANGED <<rowVars, gateway, auditVars, revoked, debits, faults, stuck,
                   stale>>

\* Mutant: the row is locked by id only.
LockUnchecked(w) ==
    /\ pc[w] = "lock" /\ SetStatus("REFUNDING")
    /\ Goto(w, IF plan[w].take THEN "recheck" ELSE "gateway")
    /\ UNCHANGED <<gateway, plan, auditVars, revoked, debits, faults, stuck,
                   stale>>

\* The conditional update to REFUNDING.
LockRefund(w) ==
    /\ pc[w] = "lock"
    /\ \/ /\ status \in Refundable /\ SetStatus("REFUNDING")
          /\ Goto(w, IF plan[w].take THEN "recheck" ELSE "gateway")
          /\ UNCHANGED plan
       \/ status \notin Refundable /\ UNCHANGED rowVars /\ Return(w)
    /\ UNCHANGED <<gateway, auditVars, revoked, debits, faults, stuck, stale>>

\* hasAuditLog("REFUND_ROLLBACK_FAILED"); an error counts as "not there".
RecheckRollback(w) ==
    /\ pc[w] = "recheck"
    /\ \/ /\ unrolled /\ plan' = [plan EXCEPT ![w].take = FALSE]
          /\ Goto(w, "gateway") /\ UNCHANGED faults
       \/ ~unrolled /\ Goto(w, "deduct") /\ UNCHANGED <<plan, faults>>
       \/ unrolled /\ Goto(w, "deduct") /\ UNCHANGED plan /\ UseFault
    /\ UNCHANGED <<rowVars, gateway, auditVars, revoked, debits, stuck, stale>>

\* DeductBalance, or ExtendSubscription by minus the days, which revokes a
\* subscription that the deduction would end.  A subscription revoked since
\* it was looked up is not found: the refund is abandoned.
DeductEntitlement(w) ==
    /\ pc[w] = "deduct"
    /\ \/ /\ ~revoked /\ debits' = debits + 1 /\ Goto(w, "gateway")
          /\ revoked' \in {FALSE, orderType = "subscription"}
       \/ revoked /\ UNCHANGED <<revoked, debits>> /\ Goto(w, "restore")
    /\ UNCHANGED <<rowVars, gateway, plan, auditVars, faults, stuck, stale>>

\* restoreStatus, without a condition on the status.
RestoreStatus(w) ==
    /\ pc[w] = "restore"
    /\ SetStatus(IF plan[w].requested THEN "REFUND_REQUESTED" ELSE "COMPLETED")
    /\ Return(w)
    /\ UNCHANGED <<gateway, auditVars, revoked, debits, faults, stuck, stale>>

-----------------------------------------------------------------------------
(* gwRefund *)

\* An order without a trade number is refunded without asking the gateway.
SkipGateway(w) ==
    /\ pc[w] = "gateway" /\ ~traded /\ Goto(w, "ok")
    /\ UNCHANGED <<rowVars, gateway, plan, auditVars, revoked, debits, faults,
                   stuck, stale>>

\* Mutant: a pending answer counts as success.
CallGatewayOptimist(w) ==
    /\ pc[w] = "gateway" /\ traded
    /\ gateway' \in {gateway, "pending", "returned"} /\ Goto(w, "ok")
    /\ UNCHANGED <<rowVars, plan, auditVars, revoked, debits, faults, stuck,
                   stale>>

\* prov.Refund.  The gateway returns the money at most once: a repeated
\* request is answered like the first one, or refused.
CallGateway(w) ==
    /\ pc[w] = "gateway" /\ traded
    /\ \/ /\ gateway \in {"none", "returned"}
          /\ gateway' = "returned" /\ Goto(w, "ok")
       \/ /\ gateway \in {"none", "pending"}
          /\ gateway' = "pending" /\ Goto(w, "undoPending")
       \/ UNCHANGED gateway /\ Goto(w, "undoFailed")
    /\ UNCHANGED <<rowVars, plan, auditVars, revoked, debits, faults, stuck,
                   stale>>

\* The answer is lost: the call errs though the gateway took the refund.
LoseGatewayAnswer(w) ==
    /\ pc[w] = "gateway" /\ traded /\ gateway = "none" /\ UseFault
    /\ gateway' \in {"returned", "pending"} /\ Goto(w, "undoFailed")
    /\ UNCHANGED <<rowVars, plan, auditVars, revoked, debits, stuck, stale>>

\* The gateway decides a pending refund.
SettlePending ==
    /\ gateway = "pending" /\ gateway' \in {"returned", "none"}
    /\ UNCHANGED <<rowVars, pc, plan, auditVars, revoked, debits, faults, stuck,
                   stale>>

-----------------------------------------------------------------------------
(* finishRefund *)

\* markRefundOk, without a condition on the status; its audit row is best
\* effort.
MarkRefundOk(w) ==
    /\ pc[w] = "ok"
    /\ status' = RefundedStatus(plan[w].partial)
    /\ rowPartial' = plan[w].partial
    /\ \/ success' = TRUE /\ UNCHANGED faults
       \/ ~success /\ UNCHANGED success /\ UseFault
    /\ Return(w)
    /\ UNCHANGED <<orderType, traded, gateway, detail, unrolled, revoked,
                   debits, stuck, stale>>

\* Mutant: the deduction is not given back.
RollbackNothing(w) ==
    /\ pc[w] \in {"undoPending", "undoFailed"}
    /\ Goto(w, IF pc[w] = "undoPending" THEN "markPending" ELSE "restore")
    /\ UNCHANGED <<rowVars, gateway, plan, auditVars, revoked, debits, faults,
                   stuck, stale>>

\* Mutant: the amount is given back though nothing was taken.
RollbackAlways(w) ==
    /\ pc[w] \in {"undoPending", "undoFailed"} /\ debits' = debits - 1
    /\ Goto(w, IF pc[w] = "undoPending" THEN "markPending" ELSE "restore")
    /\ UNCHANGED <<rowVars, gateway, plan, auditVars, revoked, faults, stuck,
                   stale>>

\* RollbackRefund gives the deduction back.  A revoked subscription cannot be
\* extended.  The REFUND_ROLLBACK_FAILED row is best effort.
RollbackRefund(w) ==
    /\ pc[w] \in {"undoPending", "undoFailed"}
    /\ \/ /\ ~plan[w].take \/ ~revoked
          /\ debits' = IF plan[w].take THEN debits - 1 ELSE debits
          /\ Goto(w, IF pc[w] = "undoPending" THEN "markPending" ELSE "restore")
          /\ UNCHANGED <<plan, unrolled, stuck, faults>>
       \/ /\ plan[w].take /\ UNCHANGED debits
          /\ \/ revoked /\ unrolled' = TRUE /\ UNCHANGED faults
             \/ revoked /\ UNCHANGED unrolled /\ UseFault
             \/ ~revoked /\ unrolled' = TRUE /\ UseFault
          /\ plan' = [plan EXCEPT ![w].undone = FALSE] /\ stuck' = TRUE
          /\ Goto(w, IF pc[w] = "undoPending" THEN "markPending"
                                              ELSE "markFailed")
    /\ UNCHANGED <<rowVars, gateway, detail, success, revoked, stale>>

\* handleGwFail after a failed rollback, without a condition on the status.
MarkRefundFailed(w) ==
    /\ pc[w] = "markFailed" /\ SetStatus("REFUND_FAILED") /\ Return(w)
    /\ UNCHANGED <<gateway, auditVars, revoked, debits, faults, stuck, stale>>

\* markRefundPending: first the row, without a condition on the status, ...
MarkRefundPending(w) ==
    /\ pc[w] = "markPending"
    /\ status' = "REFUND_PENDING" /\ rowPartial' = plan[w].partial
    /\ Goto(w, "logPending")
    /\ UNCHANGED <<orderType, traded, gateway, plan, auditVars, revoked, debits,
                   faults, stuck, stale>>

\* ... then the audit row that says whether the deduction was given back.
LogRefundPending(w) ==
    /\ pc[w] = "logPending"
    /\ detail' = IF detail # "none" THEN detail
                 ELSE IF plan[w].undone THEN "undone" ELSE "kept"
    /\ Return(w)
    /\ UNCHANGED <<rowVars, gateway, unrolled, success, revoked, debits, faults,
                   stuck, stale>>

-----------------------------------------------------------------------------
(* QueryAndFinalizeRefund *)

BeginFinalize(w) ==
    /\ pc[w] = "idle" /\ status = "REFUND_PENDING"
    /\ plan' = [plan EXCEPT ![w] = [NoPlan EXCEPT !.partial = rowPartial]]
    /\ Goto(w, "detail")
    /\ UNCHANGED <<rowVars, gateway, auditVars, revoked, debits, faults, stuck,
                   stale>>

\* latestRefundPendingDetail: without a row the deduction counts as given back.
ReadPendingDetail(w) ==
    /\ pc[w] = "detail"
    /\ plan' = [plan EXCEPT ![w].take = detail # "kept"]
    /\ Goto(w, "query")
    /\ UNCHANGED <<rowVars, gateway, auditVars, revoked, debits, faults, stuck,
                   stale>>

QueryRefund(w) ==
    /\ pc[w] = "query"
    /\ \/ gateway = "returned" /\ Goto(w, "finalize") /\ UNCHANGED plan
       \/ gateway = "pending" /\ Return(w)
       \/ gateway = "none" /\ Goto(w, "finalFail") /\ UNCHANGED plan
    /\ UNCHANGED <<rowVars, gateway, auditVars, revoked, debits, faults, stuck,
                   stale>>

\* finalizePendingRefundSuccess, one transaction: the conditional update, the
\* deduction of what the user has now, the final status and the audit row,
\* whose unique key aborts everything when a REFUND_SUCCESS row exists.  So does
\* a subscription that was revoked after it was looked up.
FinalizeSuccess(w) ==
    /\ pc[w] = "finalize"
    /\ \/ /\ status = "REFUND_PENDING" /\ ~success
          /\ status' = RefundedStatus(plan[w].partial) /\ success' = TRUE
          /\ rowPartial' = plan[w].partial
          /\ \/ UNCHANGED <<debits, revoked>>   \* nothing left to deduct
             \/ /\ plan[w].take /\ ~revoked /\ debits' = debits + 1
                /\ revoked' \in {FALSE, orderType = "subscription"}
       \/ /\ status # "REFUND_PENDING" \/ success \/ (plan[w].take /\ revoked)
          /\ UNCHANGED <<status, rowPartial, success, debits, revoked>>
    /\ Return(w)
    /\ UNCHANGED <<orderType, traded, gateway, detail, unrolled, faults, stuck,
                   stale>>

\* finalizeRefundFailed, without a condition on the status.
FinalizeFailed(w) ==
    /\ pc[w] = "finalFail"
    /\ stale' = (stale \/ status # "REFUND_PENDING")
    /\ SetStatus("REFUND_FAILED") /\ Return(w)
    /\ UNCHANGED <<gateway, auditVars, revoked, debits, faults, stuck>>

-----------------------------------------------------------------------------
(* Faults *)

\* The deduction statement fails: the status is restored.
DeductFails(w) ==
    /\ pc[w] = "deduct" /\ UseFault /\ Goto(w, "restore")
    /\ UNCHANGED <<rowVars, gateway, plan, auditVars, revoked, debits, stuck,
                   stale>>

\* A crash, or a failed statement whose error ends the request.
Abort(w) ==
    /\ pc[w] # "idle" /\ UseFault /\ Return(w)
    /\ UNCHANGED <<rowVars, gateway, auditVars, revoked, debits, stuck, stale>>

-----------------------------------------------------------------------------
Execute(w) ==
    \/ PrepareRefund(w) \/ LockRefund(w) \/ RecheckRollback(w)
    \/ DeductEntitlement(w) \/ RestoreStatus(w) \/ SkipGateway(w)
    \/ CallGateway(w) \/ MarkRefundOk(w) \/ RollbackRefund(w)
    \/ MarkRefundFailed(w) \/ MarkRefundPending(w) \/ LogRefundPending(w)

Finalize(w) ==
    \/ BeginFinalize(w) \/ ReadPendingDetail(w) \/ QueryRefund(w)
    \/ FinalizeSuccess(w) \/ FinalizeFailed(w)

Next ==
    \/ SettlePending
    \/ \E w \in Workers :
        \/ Execute(w) \/ Finalize(w)
        \/ LoseGatewayAnswer(w) \/ DeductFails(w) \/ Abort(w)

Spec == Init /\ [][Next]_vars
-----------------------------------------------------------------------------
(* Properties *)

\* A settled refund is backed by the gateway: REFUNDED is never shown for an
\* order with a trade number unless the gateway returned the money.
RefundedMeansReturned ==
    status \in Refunded /\ traded => gateway = "returned"

\* A refund attempt that ended with the order back in its old status took
\* nothing from the user, whatever failed on the way, except when giving the
\* deduction back failed or a late verdict let a second request in.
RestoredMeansUntouched ==
    status \in {"COMPLETED", "REFUND_REQUESTED"} => debits = 0 \/ stuck \/ stale

\* The user is charged at most once, with the same two exceptions.
ChargedOnceUnlessStuck == debits <= 1 \/ stuck \/ stale

\* While nothing overwrote the row, REFUNDING has one owner.
RefundExclusive ==
    \/ stale
    \/ \A v, w \in Workers :
        pc[v] \in OwnerSteps /\ pc[w] \in OwnerSteps => v = w

\* A settled refund stays settled while no late verdict intervenes.
RefundedIsFinal ==
    [][(status \in Refunded) => (stale' \/ status' = status)]_vars

\* The refund as the user and the administrators see it.
Disturbed == stuck \/ stale

Shown ==
    IF Disturbed THEN "lost"
    ELSE IF status = "REFUNDING" THEN "busy"
    ELSE IF status = "REFUND_PENDING" THEN "waiting"
    ELSE IF status \in Refunded THEN "closed" ELSE "open"

Owners == {w \in Workers : pc[w] \in OwnerSteps}

Refund == INSTANCE RefundPromise WITH
    Requests <- Workers, paid <- traded, shown <- Shown,
    owners <- IF Disturbed THEN {} ELSE Owners,
    taken <- IF Disturbed THEN 0 ELSE debits, money <- gateway

\* The handlers implement the promise of a refund: an order is closed only when
\* the money went back, reopened only when the deduction was given back, and one
\* that its request left in REFUNDING stays there with what was deducted.
KeepsRefundPromise == Refund!Spec

\* "Skip balance deduction on retry if previous attempt already deducted but
\* failed to roll back": the user is charged at most once.
DeductedAtMostOnce == debits <= 1

\* "REFUNDED: Refund completed": the status of a settled refund is final.
CompletedRefundIsFinal == [][(status \in Refunded) => status' = status]_vars
=============================================================================
