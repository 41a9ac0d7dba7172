------------------------- MODULE PaymentRefundProofs -------------------------
(***************************************************************************)
(* Proofs about PaymentRefund, for any set of requests and any number of   *)
(* faults.                                                                 *)
(***************************************************************************)
EXTENDS PaymentRefund, FiniteSets, FiniteSetTheorems, TLAPS

USE RefundFaultsAssumption

\* Steps between the deduction and its settlement or its return.
ChargedSteps == {"gateway", "ok", "undoPending", "undoFailed"}

\* Requests that deducted something and may still give it back.
Debtors == {w \in Workers : pc[w] \in ChargedSteps /\ plan[w].take}

\* What can be given back was deducted: debits never falls below zero, even
\* when late verdicts let several requests work on one order.
LedgerOK == IsFiniteSet(Debtors) /\ Cardinality(Debtors) <= debits

\* A request that goes on to a settled status saw the money returned.
SeenReturned ==
    /\ \A w \in Workers : pc[w] = "ok" /\ traded => gateway = "returned"
    /\ \A w \in Workers : pc[w] = "finalize" => gateway = "returned"

\* The owner steps imply the status that the lock gave.
OwnerHolds ==
    stale \/ \A w \in Workers : pc[w] \in OwnerSteps => status = "REFUNDING"

\* A request marks the order failed only after its rollback failed.
FailedIsStuck == \A w \in Workers : pc[w] = "markFailed" => stuck

\* Only a request with something to deduct comes to the deduction.
DeductIsDue ==
    \A w \in Workers : pc[w] \in {"recheck", "deduct"} => plan[w].take

\* The books of an order that nothing disturbed.
Books ==
    \/ stuck \/ stale
    \/ /\ status \in Refundable => debits = 0
       /\ debits <= 1
       /\ \A w \in Workers : pc[w] \in OwnerSteps =>
             debits = IF pc[w] \in ChargedSteps /\ plan[w].take THEN 1 ELSE 0

\* The inductive invariant.
IInv ==
    /\ TypeOK /\ LedgerOK /\ SeenReturned /\ RefundedMeansReturned
    /\ OwnerHolds /\ RefundExclusive /\ FailedIsStuck /\ DeductIsDue /\ Books

-----------------------------------------------------------------------------
(* Groundwork *)

\* One step of one request.
Step(w) ==
    \/ Execute(w) \/ Finalize(w)
    \/ LoseGatewayAnswer(w) \/ DeductFails(w) \/ Abort(w)

\* NoPlan is a plan.
LEMMA NoPlanType == NoPlan \in Plans
BY DEF NoPlan, Plans

\* Ending a request keeps the types of all of them.
LEMMA ReturnType ==
    ASSUME TypeOK, NEW w \in Workers, Return(w)
    PROVE  pc' \in [Workers -> Steps] /\ plan' \in [Workers -> Plans]
BY NoPlanType DEF TypeOK, Return, Goto, Steps

\* Moving a request keeps the type of pc.
LEMMA GotoType ==
    ASSUME TypeOK, NEW w \in Workers, NEW s \in Steps, Goto(w, s)
    PROVE  pc' \in [Workers -> Steps]
BY DEF TypeOK, Goto

\* The types but that of debits.
ShapeOK ==
    /\ orderType \in {"balance", "subscription"} /\ traded \in BOOLEAN
    /\ status \in Statuses /\ rowPartial \in BOOLEAN
    /\ gateway \in {"none", "pending", "returned"}
    /\ pc \in [Workers -> Steps] /\ plan \in [Workers -> Plans]
    /\ detail \in {"none", "undone", "kept"}
    /\ unrolled \in BOOLEAN /\ success \in BOOLEAN /\ revoked \in BOOLEAN
    /\ faults \in 0..MaxFaults
    /\ stuck \in BOOLEAN /\ stale \in BOOLEAN

\* Every step keeps the types.
LEMMA ShapeStep == TypeOK /\ [Next]_vars => ShapeOK'
<1>. SUFFICES ASSUME TypeOK, [Next]_vars PROVE ShapeOK'
  OBVIOUS
<1>0. ShapeOK
  BY DEF TypeOK, ShapeOK
<1>1. ASSUME NEW w \in Workers, Step(w) PROVE ShapeOK'
  <2>1. CASE PrepareRefund(w)
    <3>1. PICK take, partial \in BOOLEAN :
             plan' = [plan EXCEPT ![w] =
               [take |-> take, partial |-> partial,
                requested |-> status = "REFUND_REQUESTED", undone |-> TRUE]]
      BY <2>1 DEF PrepareRefund
    <3>2. [take |-> take, partial |-> partial,
           requested |-> status = "REFUND_REQUESTED", undone |-> TRUE] \in Plans
      BY DEF Plans
    <3>3. plan' \in [Workers -> Plans]
      BY <3>1, <3>2 DEF TypeOK
    <3>4. pc' \in [Workers -> Steps]
      BY <2>1, GotoType DEF PrepareRefund, Steps
    <3>. QED BY <2>1, <3>3, <3>4, <1>0 DEF PrepareRefund, ShapeOK, rowVars,
        auditVars
  <2>2. CASE LockRefund(w)
    <3>1. pc' \in [Workers -> Steps] /\ plan' \in [Workers -> Plans]
      BY <2>2, ReturnType, GotoType, NoPlanType DEF LockRefund, Goto, Return,
          TypeOK, Steps, OwnerSteps, Plans, NoPlan
    <3>. QED BY <2>2, <3>1, <1>0 DEF LockRefund, rowVars, auditVars, ShapeOK,
        TypeOK, UseFault, SetStatus, RefundedStatus, Refundable, Refunded, Statuses,
        Steps, OwnerSteps
  <2>3. CASE RecheckRollback(w)
    <3>1. [plan EXCEPT ![w].take = FALSE] \in [Workers -> Plans]
      BY DEF TypeOK, Plans
    <3>2. plan' \in [Workers -> Plans]
      BY <2>3, <3>1 DEF RecheckRollback, TypeOK
    <3>3. pc' \in [Workers -> Steps]
      BY <2>3, GotoType DEF RecheckRollback, Steps, OwnerSteps
    <3>4. faults' \in 0..MaxFaults
      BY <2>3, <1>0 DEF RecheckRollback, ShapeOK, UseFault
    <3>. QED BY <2>3, <3>2, <3>3, <3>4, <1>0 DEF RecheckRollback, ShapeOK, rowVars,
        auditVars
  <2>4. CASE DeductEntitlement(w)
    <3>1. revoked' \in BOOLEAN
      BY <2>4, <1>0 DEF DeductEntitlement, ShapeOK
    <3>2. pc' \in [Workers -> Steps]
      BY <2>4, GotoType DEF DeductEntitlement, Steps, OwnerSteps
    <3>. QED BY <2>4, <3>1, <3>2, <1>0 DEF DeductEntitlement, ShapeOK, rowVars,
        auditVars
  <2>5. CASE RestoreStatus(w)
    <3>1. pc' \in [Workers -> Steps] /\ plan' \in [Workers -> Plans]
      BY <2>5, ReturnType, GotoType, NoPlanType DEF RestoreStatus, Goto, Return,
          TypeOK, Steps, OwnerSteps, Plans, NoPlan
    <3>. QED BY <2>5, <3>1, <1>0 DEF RestoreStatus, rowVars, auditVars, ShapeOK,
        TypeOK, UseFault, SetStatus, RefundedStatus, Refundable, Refunded, Statuses,
        Steps, OwnerSteps
  <2>6. CASE SkipGateway(w)
    <3>1. pc' \in [Workers -> Steps] /\ plan' \in [Workers -> Plans]
      BY <2>6, ReturnType, GotoType, NoPlanType DEF SkipGateway, Goto, Return,
          TypeOK, Steps, OwnerSteps, Plans, NoPlan
    <3>. QED BY <2>6, <3>1, <1>0 DEF SkipGateway, rowVars, auditVars, ShapeOK,
        TypeOK, UseFault, SetStatus, RefundedStatus, Refundable, Refunded, Statuses,
        Steps, OwnerSteps
  <2>7. CASE CallGateway(w)
    <3>1. pc' \in [Workers -> Steps] /\ plan' \in [Workers -> Plans]
      BY <2>7, ReturnType, GotoType, NoPlanType DEF CallGateway, Goto, Return,
          TypeOK, Steps, OwnerSteps, Plans, NoPlan
    <3>. QED BY <2>7, <3>1, <1>0 DEF CallGateway, rowVars, auditVars, ShapeOK,
        TypeOK, UseFault, SetStatus, RefundedStatus, Refundable, Refunded, Statuses,
        Steps, OwnerSteps
  <2>8. CASE MarkRefundOk(w)
    <3>1. plan[w].partial \in BOOLEAN
      BY DEF TypeOK, Plans
    <3>2. pc' \in [Workers -> Steps] /\ plan' \in [Workers -> Plans]
      BY <2>8, ReturnType, GotoType DEF MarkRefundOk, TypeOK, Steps, OwnerSteps
    <3>3. status' \in Statuses /\ rowPartial' \in BOOLEAN
      BY <2>8, <3>1, <1>0 DEF MarkRefundOk, ShapeOK, RefundedStatus, Statuses,
          Refunded, Refundable
    <3>4. success' \in BOOLEAN /\ revoked' \in BOOLEAN
      BY <2>8, <1>0 DEF MarkRefundOk, ShapeOK, auditVars
    <3>5. faults' \in 0..MaxFaults
      BY <2>8, <1>0 DEF MarkRefundOk, ShapeOK, UseFault
    <3>. QED BY <2>8, <3>2, <3>3, <3>4, <3>5, <1>0 DEF MarkRefundOk, ShapeOK,
        auditVars
  <2>9. CASE RollbackRefund(w)
    <3>1. [plan EXCEPT ![w].undone = FALSE] \in [Workers -> Plans]
      BY DEF TypeOK, Plans
    <3>2. plan' \in [Workers -> Plans]
      BY <2>9, <3>1 DEF RollbackRefund, TypeOK
    <3>3. pc' \in [Workers -> Steps]
      BY <2>9, GotoType DEF RollbackRefund, Steps, OwnerSteps
    <3>4. faults' \in 0..MaxFaults
      BY <2>9, <1>0 DEF RollbackRefund, ShapeOK, UseFault
    <3>5. unrolled' \in BOOLEAN /\ stuck' \in BOOLEAN
      BY <2>9, <1>0 DEF RollbackRefund, ShapeOK
    <3>. QED BY <2>9, <3>2, <3>3, <3>4, <3>5, <1>0 DEF RollbackRefund, ShapeOK,
        rowVars
  <2>10. CASE MarkRefundFailed(w)
    <3>1. pc' \in [Workers -> Steps] /\ plan' \in [Workers -> Plans]
      BY <2>10, ReturnType, GotoType, NoPlanType DEF MarkRefundFailed, Goto, Return,
          TypeOK, Steps, OwnerSteps, Plans, NoPlan
    <3>. QED BY <2>10, <3>1, <1>0 DEF MarkRefundFailed, rowVars, auditVars, ShapeOK,
        TypeOK, UseFault, SetStatus, RefundedStatus, Refundable, Refunded, Statuses,
        Steps, OwnerSteps
  <2>11. CASE MarkRefundPending(w)
    <3>1. plan[w].partial \in BOOLEAN
      BY DEF TypeOK, Plans
    <3>2. pc' \in [Workers -> Steps]
      BY <2>11, GotoType DEF MarkRefundPending, Steps, OwnerSteps
    <3>3. status' \in Statuses /\ rowPartial' \in BOOLEAN
      BY <2>11, <3>1 DEF MarkRefundPending, Statuses, Refundable
    <3>. QED BY <2>11, <3>2, <3>3, <1>0 DEF MarkRefundPending, ShapeOK, auditVars
  <2>12. CASE LogRefundPending(w)
    <3>1. pc' \in [Workers -> Steps] /\ plan' \in [Workers -> Plans]
      BY <2>12, ReturnType, GotoType, NoPlanType DEF LogRefundPending, Goto, Return,
          TypeOK, Steps, OwnerSteps, Plans, NoPlan
    <3>. QED BY <2>12, <3>1, <1>0 DEF LogRefundPending, rowVars, auditVars, ShapeOK,
        TypeOK, UseFault, SetStatus, RefundedStatus, Refundable, Refunded, Statuses,
        Steps, OwnerSteps
  <2>13. CASE BeginFinalize(w)
    <3>1. pc' \in [Workers -> Steps] /\ plan' \in [Workers -> Plans]
      BY <2>13, ReturnType, GotoType, NoPlanType DEF BeginFinalize, Goto, Return,
          TypeOK, Steps, OwnerSteps, Plans, NoPlan
    <3>. QED BY <2>13, <3>1, <1>0 DEF BeginFinalize, rowVars, auditVars, ShapeOK,
        TypeOK, UseFault, SetStatus, RefundedStatus, Refundable, Refunded, Statuses,
        Steps, OwnerSteps
  <2>14. CASE ReadPendingDetail(w)
    <3>1. pc' \in [Workers -> Steps] /\ plan' \in [Workers -> Plans]
      BY <2>14, ReturnType, GotoType, NoPlanType DEF ReadPendingDetail, Goto,
          Return, TypeOK, Steps, OwnerSteps, Plans, NoPlan
    <3>. QED BY <2>14, <3>1, <1>0 DEF ReadPendingDetail, rowVars, auditVars,
        ShapeOK, TypeOK, UseFault, SetStatus, RefundedStatus, Refundable, Refunded,
        Statuses, Steps, OwnerSteps
  <2>15. CASE QueryRefund(w)
    <3>1. pc' \in [Workers -> Steps] /\ plan' \in [Workers -> Plans]
      BY <2>15, ReturnType, GotoType, NoPlanType DEF QueryRefund, Goto, Return,
          TypeOK, Steps, OwnerSteps, Plans, NoPlan
    <3>. QED BY <2>15, <3>1, <1>0 DEF QueryRefund, rowVars, auditVars, ShapeOK,
        TypeOK, UseFault, SetStatus, RefundedStatus, Refundable, Refunded, Statuses,
        Steps, OwnerSteps
  <2>16. CASE FinalizeSuccess(w)
    <3>1. plan[w].partial \in BOOLEAN
      BY DEF TypeOK, Plans
    <3>2. pc' \in [Workers -> Steps] /\ plan' \in [Workers -> Plans]
      BY <2>16, ReturnType, GotoType DEF FinalizeSuccess, TypeOK, Steps, OwnerSteps
    <3>3. status' \in Statuses /\ rowPartial' \in BOOLEAN
      BY <2>16, <3>1, <1>0 DEF FinalizeSuccess, ShapeOK, RefundedStatus, Statuses,
          Refunded, Refundable
    <3>4. success' \in BOOLEAN /\ revoked' \in BOOLEAN
      BY <2>16, <1>0 DEF FinalizeSuccess, ShapeOK, auditVars
    <3>5. faults' \in 0..MaxFaults
      BY <2>16, <1>0 DEF FinalizeSuccess, ShapeOK, UseFault
    <3>. QED BY <2>16, <3>2, <3>3, <3>4, <3>5, <1>0 DEF FinalizeSuccess, ShapeOK,
        auditVars
  <2>17. CASE FinalizeFailed(w)
    <3>1. pc' \in [Workers -> Steps] /\ plan' \in [Workers -> Plans]
      BY <2>17, ReturnType, GotoType, NoPlanType DEF FinalizeFailed, Goto, Return,
          TypeOK, Steps, OwnerSteps, Plans, NoPlan
    <3>. QED BY <2>17, <3>1, <1>0 DEF FinalizeFailed, rowVars, auditVars, ShapeOK,
        TypeOK, UseFault, SetStatus, RefundedStatus, Refundable, Refunded, Statuses,
        Steps, OwnerSteps
  <2>18. CASE LoseGatewayAnswer(w)
    <3>1. pc' \in [Workers -> Steps] /\ plan' \in [Workers -> Plans]
      BY <2>18, ReturnType, GotoType, NoPlanType DEF LoseGatewayAnswer, Goto,
          Return, TypeOK, Steps, OwnerSteps, Plans, NoPlan
    <3>. QED BY <2>18, <3>1, <1>0 DEF LoseGatewayAnswer, rowVars, auditVars,
        ShapeOK, TypeOK, UseFault, SetStatus, RefundedStatus, Refundable, Refunded,
        Statuses, Steps, OwnerSteps
  <2>19. CASE DeductFails(w)
    <3>1. pc' \in [Workers -> Steps] /\ plan' \in [Workers -> Plans]
      BY <2>19, ReturnType, GotoType, NoPlanType DEF DeductFails, Goto, Return,
          TypeOK, Steps, OwnerSteps, Plans, NoPlan
    <3>. QED BY <2>19, <3>1, <1>0 DEF DeductFails, rowVars, auditVars, ShapeOK,
        TypeOK, UseFault, SetStatus, RefundedStatus, Refundable, Refunded, Statuses,
        Steps, OwnerSteps
  <2>20. CASE Abort(w)
    <3>1. pc' \in [Workers -> Steps] /\ plan' \in [Workers -> Plans]
      BY <2>20, ReturnType, GotoType, NoPlanType DEF Abort, Goto, Return, TypeOK,
          Steps, OwnerSteps, Plans, NoPlan
    <3>. QED BY <2>20, <3>1, <1>0 DEF Abort, rowVars, auditVars, ShapeOK, TypeOK,
        UseFault, SetStatus, RefundedStatus, Refundable, Refunded, Statuses, Steps,
        OwnerSteps
  <2>. QED BY <1>1, <2>1, <2>2, <2>3, <2>4, <2>5, <2>6, <2>7, <2>8, <2>9, <2>10,
      <2>11, <2>12, <2>13, <2>14, <2>15, <2>16, <2>17, <2>18, <2>19, <2>20 DEF Step,
      Execute, Finalize
<1>2. CASE SettlePending
  BY <1>2, <1>0 DEF SettlePending, ShapeOK, rowVars, auditVars
<1>3. CASE UNCHANGED vars
  BY <1>3, <1>0 DEF ShapeOK, vars, rowVars, auditVars
<1>. QED BY <1>1, <1>2, <1>3 DEF Next, Step

-----------------------------------------------------------------------------
(* The ledger *)

\* Fewer debtors and no less on the ledger.
LEMMA LedgerShrinks ==
    ASSUME LedgerOK, debits \in Nat, debits' \in Nat, debits <= debits',
           Debtors' \subseteq Debtors
    PROVE  LedgerOK'
<1>1. IsFiniteSet(Debtors') /\ Cardinality(Debtors') <= Cardinality(Debtors)
  BY FS_Subset DEF LedgerOK
<1>2. Cardinality(Debtors') \in Nat /\ Cardinality(Debtors) \in Nat
  BY <1>1, FS_CardinalityType DEF LedgerOK
<1>. QED BY <1>1, <1>2 DEF LedgerOK

\* One debtor and one deduction more.
LEMMA LedgerGrows ==
    ASSUME LedgerOK, debits \in Nat, NEW w, debits' = debits + 1,
           Debtors' \subseteq Debtors \cup {w}
    PROVE  LedgerOK'
<1>0. Cardinality(Debtors) \in Nat
  BY FS_CardinalityType DEF LedgerOK
<1>1. IsFiniteSet(Debtors \cup {w})
      /\ Cardinality(Debtors \cup {w}) <= Cardinality(Debtors) + 1
  <2>1. IsFiniteSet(Debtors \cup {w})
    BY FS_AddElement DEF LedgerOK
  <2>2. \/ Cardinality(Debtors \cup {w}) = Cardinality(Debtors)
        \/ Cardinality(Debtors \cup {w}) = Cardinality(Debtors) + 1
    BY FS_AddElement DEF LedgerOK
  <2>. QED BY <2>1, <2>2, <1>0
<1>2. IsFiniteSet(Debtors')
      /\ Cardinality(Debtors') <= Cardinality(Debtors \cup {w})
  BY <1>1, FS_Subset
<1>3. /\ Cardinality(Debtors') \in Nat /\ Cardinality(Debtors) \in Nat
      /\ Cardinality(Debtors \cup {w}) \in Nat
  BY <1>1, <1>2, FS_CardinalityType DEF LedgerOK
<1>. QED BY <1>1, <1>2, <1>3 DEF LedgerOK

\* A debtor gives its deduction back: there is one to give back.
LEMMA LedgerPays ==
    ASSUME LedgerOK, debits \in Nat, NEW w \in Debtors, debits' = debits - 1,
           Debtors' \subseteq Debtors \ {w}
    PROVE  LedgerOK' /\ debits' \in Nat
<1>1. IsFiniteSet(Debtors \ {w})
      /\ Cardinality(Debtors \ {w}) = Cardinality(Debtors) - 1
  BY FS_RemoveElement DEF LedgerOK
<1>2. IsFiniteSet(Debtors')
      /\ Cardinality(Debtors') <= Cardinality(Debtors \ {w})
  BY <1>1, FS_Subset
<1>3. /\ Cardinality(Debtors') \in Nat /\ Cardinality(Debtors) \in Nat
      /\ Cardinality(Debtors \ {w}) \in Nat
  BY <1>1, <1>2, FS_CardinalityType DEF LedgerOK
<1>. QED BY <1>1, <1>2, <1>3 DEF LedgerOK

\* Every step keeps the ledger.
LEMMA LedgerStep == TypeOK /\ LedgerOK /\ [Next]_vars => LedgerOK' /\ debits' \in Nat
<1>. SUFFICES ASSUME TypeOK, LedgerOK, [Next]_vars
              PROVE  LedgerOK' /\ debits' \in Nat
  OBVIOUS
<1>0. debits \in Nat
  BY DEF TypeOK
<1>1. ASSUME NEW w \in Workers, Step(w) PROVE LedgerOK' /\ debits' \in Nat
  <2>1. CASE PrepareRefund(w)
    <3>1. Debtors' \subseteq Debtors
      BY <2>1 DEF PrepareRefund, Debtors, ChargedSteps, Return, Goto, TypeOK
    <3>2. debits' = debits
      BY <2>1 DEF PrepareRefund
    <3>. QED BY <3>1, <3>2, <1>0, LedgerShrinks
  <2>2. CASE LockRefund(w)
    <3>1. Debtors' \subseteq Debtors
      BY <2>2 DEF LockRefund, Debtors, ChargedSteps, Return, Goto, TypeOK
    <3>2. debits' = debits
      BY <2>2 DEF LockRefund
    <3>. QED BY <3>1, <3>2, <1>0, LedgerShrinks
  <2>3. CASE RecheckRollback(w)
    <3>1. Debtors' \subseteq Debtors
      BY <2>3 DEF RecheckRollback, Debtors, ChargedSteps, Goto, TypeOK, Plans
    <3>. QED BY <2>3, <3>1, <1>0, LedgerShrinks DEF RecheckRollback
  <2>4. CASE DeductEntitlement(w)
    <3>1. Debtors' \subseteq Debtors \cup {w}
      BY <2>4 DEF DeductEntitlement, Debtors, ChargedSteps, Goto, TypeOK
    <3>2. CASE debits' = debits + 1
      BY <3>1, <3>2, <1>0, LedgerGrows
    <3>3. CASE debits' = debits /\ Goto(w, "restore")
      <4>1. Debtors' \subseteq Debtors
        BY <2>4, <3>3 DEF DeductEntitlement, Debtors, ChargedSteps, Goto, TypeOK
      <4>. QED BY <3>3, <4>1, <1>0, LedgerShrinks
    <3>. QED BY <2>4, <3>2, <3>3 DEF DeductEntitlement
  <2>5. CASE RestoreStatus(w)
    <3>1. Debtors' \subseteq Debtors
      BY <2>5 DEF RestoreStatus, Debtors, ChargedSteps, Return, Goto, TypeOK
    <3>2. debits' = debits
      BY <2>5 DEF RestoreStatus
    <3>. QED BY <3>1, <3>2, <1>0, LedgerShrinks
  <2>6. CASE SkipGateway(w)
    <3>1. Debtors' \subseteq Debtors
      BY <2>6 DEF SkipGateway, Debtors, ChargedSteps, Return, Goto, TypeOK
    <3>2. debits' = debits
      BY <2>6 DEF SkipGateway
    <3>. QED BY <3>1, <3>2, <1>0, LedgerShrinks
  <2>7. CASE CallGateway(w)
    <3>1. Debtors' \subseteq Debtors
      BY <2>7 DEF CallGateway, Debtors, ChargedSteps, Return, Goto, TypeOK
    <3>2. debits' = debits
      BY <2>7 DEF CallGateway
    <3>. QED BY <3>1, <3>2, <1>0, LedgerShrinks
  <2>8. CASE MarkRefundOk(w)
    <3>1. Debtors' \subseteq Debtors
      BY <2>8 DEF MarkRefundOk, Debtors, ChargedSteps, Return, Goto, TypeOK
    <3>2. debits' = debits
      BY <2>8 DEF MarkRefundOk
    <3>. QED BY <3>1, <3>2, <1>0, LedgerShrinks
  <2>9. CASE RollbackRefund(w)
    <3>1. Debtors' \subseteq Debtors \ {w}
      BY <2>9 DEF RollbackRefund, Debtors, ChargedSteps, Goto, TypeOK
    <3>2. CASE debits' = debits
      BY <3>1, <3>2, <1>0, LedgerShrinks
    <3>3. CASE debits' = debits - 1 /\ plan[w].take
      <4>1. w \in Debtors
        BY <2>9, <3>3 DEF RollbackRefund, Debtors, ChargedSteps
      <4>. QED BY <3>1, <3>3, <4>1, <1>0, LedgerPays
    <3>. QED BY <2>9, <3>2, <3>3 DEF RollbackRefund
  <2>10. CASE MarkRefundFailed(w)
    <3>1. Debtors' \subseteq Debtors
      BY <2>10 DEF MarkRefundFailed, Debtors, ChargedSteps, Return, Goto, TypeOK
    <3>2. debits' = debits
      BY <2>10 DEF MarkRefundFailed
    <3>. QED BY <3>1, <3>2, <1>0, LedgerShrinks
  <2>11. CASE MarkRefundPending(w)
    <3>1. Debtors' \subseteq Debtors
      BY <2>11 DEF MarkRefundPending, Debtors, ChargedSteps, Return, Goto, TypeOK
    <3>2. debits' = debits
      BY <2>11 DEF MarkRefundPending
    <3>. QED BY <3>1, <3>2, <1>0, LedgerShrinks
  <2>12. CASE LogRefundPending(w)
    <3>1. Debtors' \subseteq Debtors
      BY <2>12 DEF LogRefundPending, Debtors, ChargedSteps, Return, Goto, TypeOK
    <3>2. debits' = debits
      BY <2>12 DEF LogRefundPending
    <3>. QED BY <3>1, <3>2, <1>0, LedgerShrinks
  <2>13. CASE BeginFinalize(w)
    <3>1. Debtors' \subseteq Debtors
      BY <2>13 DEF BeginFinalize, Debtors, ChargedSteps, Return, Goto, TypeOK
    <3>2. debits' = debits
      BY <2>13 DEF BeginFinalize
    <3>. QED BY <3>1, <3>2, <1>0, LedgerShrinks
  <2>14. CASE ReadPendingDetail(w)
    <3>1. Debtors' \subseteq Debtors
      BY <2>14 DEF ReadPendingDetail, Debtors, ChargedSteps, Return, Goto, TypeOK
    <3>2. debits' = debits
      BY <2>14 DEF ReadPendingDetail
    <3>. QED BY <3>1, <3>2, <1>0, LedgerShrinks
  <2>15. CASE QueryRefund(w)
    <3>1. Debtors' \subseteq Debtors
      BY <2>15 DEF QueryRefund, Debtors, ChargedSteps, Return, Goto, TypeOK
    <3>2. debits' = debits
      BY <2>15 DEF QueryRefund
    <3>. QED BY <3>1, <3>2, <1>0, LedgerShrinks
  <2>16. CASE FinalizeSuccess(w)
    <3>1. Debtors' \subseteq Debtors
      BY <2>16 DEF FinalizeSuccess, Debtors, ChargedSteps, Return, Goto, TypeOK
    <3>2. debits' = debits \/ debits' = debits + 1
      BY <2>16 DEF FinalizeSuccess
    <3>3. debits' \in Nat /\ debits <= debits'
      BY <3>2, <1>0
    <3>. QED BY <3>1, <3>3, <1>0, LedgerShrinks
  <2>17. CASE FinalizeFailed(w)
    <3>1. Debtors' \subseteq Debtors
      BY <2>17 DEF FinalizeFailed, Debtors, ChargedSteps, Return, Goto, TypeOK
    <3>2. debits' = debits
      BY <2>17 DEF FinalizeFailed
    <3>. QED BY <3>1, <3>2, <1>0, LedgerShrinks
  <2>18. CASE LoseGatewayAnswer(w)
    <3>1. Debtors' \subseteq Debtors
      BY <2>18 DEF LoseGatewayAnswer, Debtors, ChargedSteps, Return, Goto, TypeOK
    <3>2. debits' = debits
      BY <2>18 DEF LoseGatewayAnswer
    <3>. QED BY <3>1, <3>2, <1>0, LedgerShrinks
  <2>19. CASE DeductFails(w)
    <3>1. Debtors' \subseteq Debtors
      BY <2>19 DEF DeductFails, Debtors, ChargedSteps, Return, Goto, TypeOK
    <3>2. debits' = debits
      BY <2>19 DEF DeductFails
    <3>. QED BY <3>1, <3>2, <1>0, LedgerShrinks
  <2>20. CASE Abort(w)
    <3>1. Debtors' \subseteq Debtors
      BY <2>20 DEF Abort, Debtors, ChargedSteps, Return, Goto, TypeOK
    <3>2. debits' = debits
      BY <2>20 DEF Abort
    <3>. QED BY <3>1, <3>2, <1>0, LedgerShrinks
  <2>. QED BY <1>1, <2>1, <2>2, <2>3, <2>4, <2>5, <2>6, <2>7, <2>8, <2>9, <2>10,
      <2>11, <2>12, <2>13, <2>14, <2>15, <2>16, <2>17, <2>18, <2>19, <2>20 DEF Step,
      Execute, Finalize
<1>2. CASE SettlePending \/ UNCHANGED vars
  <2>1. Debtors' = Debtors /\ debits' = debits
    BY <1>2 DEF SettlePending, vars, Debtors
  <2>. QED BY <2>1, <1>0, LedgerShrinks
<1>. QED BY <1>1, <1>2 DEF Next, Step

-----------------------------------------------------------------------------
(* The money and the lock *)

\* A returned refund stays returned, and only a request that saw it settles.
LEMMA GatewayStep ==
    TypeOK /\ SeenReturned /\ RefundedMeansReturned /\ [Next]_vars
        => SeenReturned' /\ RefundedMeansReturned'
<1>. SUFFICES ASSUME TypeOK, SeenReturned, RefundedMeansReturned, [Next]_vars
              PROVE  SeenReturned' /\ RefundedMeansReturned'
  OBVIOUS
<1>1. ASSUME NEW w \in Workers, Step(w) PROVE SeenReturned' /\ RefundedMeansReturned'
  <2>1. CASE PrepareRefund(w)
    <3>1. SeenReturned'
      BY <2>1 DEF PrepareRefund, SeenReturned, rowVars, SetStatus, Return, Goto,
          TypeOK
    <3>2. RefundedMeansReturned'
      BY <2>1 DEF PrepareRefund, SeenReturned, RefundedMeansReturned, Refunded,
          Refundable, rowVars, SetStatus, RefundedStatus, TypeOK
    <3>. QED BY <3>1, <3>2
  <2>2. CASE LockRefund(w)
    <3>1. SeenReturned'
      BY <2>2 DEF LockRefund, SeenReturned, rowVars, SetStatus, Return, Goto, TypeOK
    <3>2. RefundedMeansReturned'
      BY <2>2 DEF LockRefund, SeenReturned, RefundedMeansReturned, Refunded,
          Refundable, rowVars, SetStatus, RefundedStatus, TypeOK
    <3>. QED BY <3>1, <3>2
  <2>3. CASE RecheckRollback(w)
    <3>1. SeenReturned'
      BY <2>3 DEF RecheckRollback, SeenReturned, rowVars, SetStatus, Return, Goto,
          TypeOK
    <3>2. RefundedMeansReturned'
      BY <2>3 DEF RecheckRollback, SeenReturned, RefundedMeansReturned, Refunded,
          Refundable, rowVars, SetStatus, RefundedStatus, TypeOK
    <3>. QED BY <3>1, <3>2
  <2>4. CASE DeductEntitlement(w)
    <3>1. SeenReturned'
      BY <2>4 DEF DeductEntitlement, SeenReturned, rowVars, SetStatus, Return, Goto,
          TypeOK
    <3>2. RefundedMeansReturned'
      BY <2>4 DEF DeductEntitlement, SeenReturned, RefundedMeansReturned, Refunded,
          Refundable, rowVars, SetStatus, RefundedStatus, TypeOK
    <3>. QED BY <3>1, <3>2
  <2>5. CASE RestoreStatus(w)
    <3>1. SeenReturned'
      BY <2>5 DEF RestoreStatus, SeenReturned, rowVars, SetStatus, Return, Goto,
          TypeOK
    <3>2. RefundedMeansReturned'
      BY <2>5 DEF RestoreStatus, SeenReturned, RefundedMeansReturned, Refunded,
          Refundable, rowVars, SetStatus, RefundedStatus, TypeOK
    <3>. QED BY <3>1, <3>2
  <2>6. CASE SkipGateway(w)
    <3>1. SeenReturned'
      BY <2>6 DEF SkipGateway, SeenReturned, rowVars, SetStatus, Return, Goto,
          TypeOK
    <3>2. RefundedMeansReturned'
      BY <2>6 DEF SkipGateway, SeenReturned, RefundedMeansReturned, Refunded,
          Refundable, rowVars, SetStatus, RefundedStatus, TypeOK
    <3>. QED BY <3>1, <3>2
  <2>7. CASE CallGateway(w)
    <3>1. SeenReturned'
      BY <2>7 DEF CallGateway, SeenReturned, rowVars, SetStatus, Return, Goto,
          TypeOK
    <3>2. RefundedMeansReturned'
      BY <2>7 DEF CallGateway, SeenReturned, RefundedMeansReturned, Refunded,
          Refundable, rowVars, SetStatus, RefundedStatus, TypeOK
    <3>. QED BY <3>1, <3>2
  <2>8. CASE MarkRefundOk(w)
    <3>1. SeenReturned'
      BY <2>8 DEF MarkRefundOk, SeenReturned, rowVars, SetStatus, Return, Goto,
          TypeOK
    <3>2. RefundedMeansReturned'
      BY <2>8 DEF MarkRefundOk, SeenReturned, RefundedMeansReturned, Refunded,
          Refundable, rowVars, SetStatus, RefundedStatus, TypeOK
    <3>. QED BY <3>1, <3>2
  <2>9. CASE RollbackRefund(w)
    <3>1. SeenReturned'
      BY <2>9 DEF RollbackRefund, SeenReturned, rowVars, SetStatus, Return, Goto,
          TypeOK
    <3>2. RefundedMeansReturned'
      BY <2>9 DEF RollbackRefund, SeenReturned, RefundedMeansReturned, Refunded,
          Refundable, rowVars, SetStatus, RefundedStatus, TypeOK
    <3>. QED BY <3>1, <3>2
  <2>10. CASE MarkRefundFailed(w)
    <3>1. SeenReturned'
      BY <2>10 DEF MarkRefundFailed, SeenReturned, rowVars, SetStatus, Return, Goto,
          TypeOK
    <3>2. RefundedMeansReturned'
      BY <2>10 DEF MarkRefundFailed, SeenReturned, RefundedMeansReturned, Refunded,
          Refundable, rowVars, SetStatus, RefundedStatus, TypeOK
    <3>. QED BY <3>1, <3>2
  <2>11. CASE MarkRefundPending(w)
    <3>1. SeenReturned'
      BY <2>11 DEF MarkRefundPending, SeenReturned, rowVars, SetStatus, Return,
          Goto, TypeOK
    <3>2. RefundedMeansReturned'
      BY <2>11 DEF MarkRefundPending, SeenReturned, RefundedMeansReturned, Refunded,
          Refundable, rowVars, SetStatus, RefundedStatus, TypeOK
    <3>. QED BY <3>1, <3>2
  <2>12. CASE LogRefundPending(w)
    <3>1. SeenReturned'
      BY <2>12 DEF LogRefundPending, SeenReturned, rowVars, SetStatus, Return, Goto,
          TypeOK
    <3>2. RefundedMeansReturned'
      BY <2>12 DEF LogRefundPending, SeenReturned, RefundedMeansReturned, Refunded,
          Refundable, rowVars, SetStatus, RefundedStatus, TypeOK
    <3>. QED BY <3>1, <3>2
  <2>13. CASE BeginFinalize(w)
    <3>1. SeenReturned'
      BY <2>13 DEF BeginFinalize, SeenReturned, rowVars, SetStatus, Return, Goto,
          TypeOK
    <3>2. RefundedMeansReturned'
      BY <2>13 DEF BeginFinalize, SeenReturned, RefundedMeansReturned, Refunded,
          Refundable, rowVars, SetStatus, RefundedStatus, TypeOK
    <3>. QED BY <3>1, <3>2
  <2>14. CASE ReadPendingDetail(w)
    <3>1. SeenReturned'
      BY <2>14 DEF ReadPendingDetail, SeenReturned, rowVars, SetStatus, Return,
          Goto, TypeOK
    <3>2. RefundedMeansReturned'
      BY <2>14 DEF ReadPendingDetail, SeenReturned, RefundedMeansReturned, Refunded,
          Refundable, rowVars, SetStatus, RefundedStatus, TypeOK
    <3>. QED BY <3>1, <3>2
  <2>15. CASE QueryRefund(w)
    <3>1. SeenReturned'
      BY <2>15 DEF QueryRefund, SeenReturned, rowVars, SetStatus, Return, Goto,
          TypeOK
    <3>2. RefundedMeansReturned'
      BY <2>15 DEF QueryRefund, SeenReturned, RefundedMeansReturned, Refunded,
          Refundable, rowVars, SetStatus, RefundedStatus, TypeOK
    <3>. QED BY <3>1, <3>2
  <2>16. CASE FinalizeSuccess(w)
    <3>1. SeenReturned'
      BY <2>16 DEF FinalizeSuccess, SeenReturned, rowVars, SetStatus, Return, Goto,
          TypeOK
    <3>2. RefundedMeansReturned'
      BY <2>16 DEF FinalizeSuccess, SeenReturned, RefundedMeansReturned, Refunded,
          Refundable, rowVars, SetStatus, RefundedStatus, TypeOK
    <3>. QED BY <3>1, <3>2
  <2>17. CASE FinalizeFailed(w)
    <3>1. SeenReturned'
      BY <2>17 DEF FinalizeFailed, SeenReturned, rowVars, SetStatus, Return, Goto,
          TypeOK
    <3>2. RefundedMeansReturned'
      BY <2>17 DEF FinalizeFailed, SeenReturned, RefundedMeansReturned, Refunded,
          Refundable, rowVars, SetStatus, RefundedStatus, TypeOK
    <3>. QED BY <3>1, <3>2
  <2>18. CASE LoseGatewayAnswer(w)
    <3>1. SeenReturned'
      BY <2>18 DEF LoseGatewayAnswer, SeenReturned, rowVars, SetStatus, Return,
          Goto, TypeOK
    <3>2. RefundedMeansReturned'
      BY <2>18 DEF LoseGatewayAnswer, SeenReturned, RefundedMeansReturned, Refunded,
          Refundable, rowVars, SetStatus, RefundedStatus, TypeOK
    <3>. QED BY <3>1, <3>2
  <2>19. CASE DeductFails(w)
    <3>1. SeenReturned'
      BY <2>19 DEF DeductFails, SeenReturned, rowVars, SetStatus, Return, Goto,
          TypeOK
    <3>2. RefundedMeansReturned'
      BY <2>19 DEF DeductFails, SeenReturned, RefundedMeansReturned, Refunded,
          Refundable, rowVars, SetStatus, RefundedStatus, TypeOK
    <3>. QED BY <3>1, <3>2
  <2>20. CASE Abort(w)
    <3>1. SeenReturned'
      BY <2>20 DEF Abort, SeenReturned, rowVars, SetStatus, Return, Goto, TypeOK
    <3>2. RefundedMeansReturned'
      BY <2>20 DEF Abort, SeenReturned, RefundedMeansReturned, Refunded, Refundable,
          rowVars, SetStatus, RefundedStatus, TypeOK
    <3>. QED BY <3>1, <3>2
  <2>. QED BY <1>1, <2>1, <2>2, <2>3, <2>4, <2>5, <2>6, <2>7, <2>8, <2>9, <2>10,
      <2>11, <2>12, <2>13, <2>14, <2>15, <2>16, <2>17, <2>18, <2>19, <2>20 DEF Step,
      Execute, Finalize
<1>2. CASE SettlePending \/ UNCHANGED vars
  BY <1>2 DEF SettlePending, vars, rowVars, SeenReturned, RefundedMeansReturned
<1>. QED BY <1>1, <1>2 DEF Next, Step

\* Unless a late verdict came between, the lock has one owner and the owner
\* finds its status.
LEMMA OwnerStep ==
    TypeOK /\ OwnerHolds /\ RefundExclusive /\ [Next]_vars
        => OwnerHolds' /\ RefundExclusive'
<1>. SUFFICES ASSUME TypeOK, OwnerHolds, RefundExclusive, [Next]_vars,
                     ~stale'
              PROVE  OwnerHolds' /\ RefundExclusive'
  BY DEF OwnerHolds, RefundExclusive
<1>1. ASSUME NEW w \in Workers, Step(w) PROVE OwnerHolds' /\ RefundExclusive'
  <2>1. CASE PrepareRefund(w)
    <3>1. OwnerHolds'
      BY <2>1 DEF PrepareRefund, OwnerHolds, RefundExclusive, OwnerSteps,
          Refundable, rowVars, SetStatus, Return, Goto, TypeOK
    <3>2. RefundExclusive'
      BY <2>1 DEF PrepareRefund, OwnerHolds, RefundExclusive, OwnerSteps,
          Refundable, rowVars, Return, Goto, TypeOK
    <3>. QED BY <3>1, <3>2
  <2>2. CASE LockRefund(w)
    <3>1. OwnerHolds'
      BY <2>2 DEF LockRefund, OwnerHolds, RefundExclusive, OwnerSteps, Refundable,
          rowVars, SetStatus, Return, Goto, TypeOK
    <3>2. RefundExclusive'
      BY <2>2 DEF LockRefund, OwnerHolds, RefundExclusive, OwnerSteps, Refundable,
          rowVars, Return, Goto, TypeOK
    <3>. QED BY <3>1, <3>2
  <2>3. CASE RecheckRollback(w)
    <3>1. OwnerHolds'
      BY <2>3 DEF RecheckRollback, OwnerHolds, RefundExclusive, OwnerSteps,
          Refundable, rowVars, SetStatus, Return, Goto, TypeOK
    <3>2. RefundExclusive'
      BY <2>3 DEF RecheckRollback, OwnerHolds, RefundExclusive, OwnerSteps,
          Refundable, rowVars, Return, Goto, TypeOK
    <3>. QED BY <3>1, <3>2
  <2>4. CASE DeductEntitlement(w)
    <3>1. OwnerHolds'
      BY <2>4 DEF DeductEntitlement, OwnerHolds, RefundExclusive, OwnerSteps,
          Refundable, rowVars, SetStatus, Return, Goto, TypeOK
    <3>2. RefundExclusive'
      BY <2>4 DEF DeductEntitlement, OwnerHolds, RefundExclusive, OwnerSteps,
          Refundable, rowVars, Return, Goto, TypeOK
    <3>. QED BY <3>1, <3>2
  <2>5. CASE RestoreStatus(w)
    <3>1. OwnerHolds'
      BY <2>5 DEF RestoreStatus, OwnerHolds, RefundExclusive, OwnerSteps,
          Refundable, rowVars, SetStatus, Return, Goto, TypeOK
    <3>2. RefundExclusive'
      BY <2>5 DEF RestoreStatus, OwnerHolds, RefundExclusive, OwnerSteps,
          Refundable, rowVars, Return, Goto, TypeOK
    <3>. QED BY <3>1, <3>2
  <2>6. CASE SkipGateway(w)
    <3>1. OwnerHolds'
      BY <2>6 DEF SkipGateway, OwnerHolds, RefundExclusive, OwnerSteps, Refundable,
          rowVars, SetStatus, Return, Goto, TypeOK
    <3>2. RefundExclusive'
      BY <2>6 DEF SkipGateway, OwnerHolds, RefundExclusive, OwnerSteps, Refundable,
          rowVars, Return, Goto, TypeOK
    <3>. QED BY <3>1, <3>2
  <2>7. CASE CallGateway(w)
    <3>1. OwnerHolds'
      BY <2>7 DEF CallGateway, OwnerHolds, RefundExclusive, OwnerSteps, Refundable,
          rowVars, SetStatus, Return, Goto, TypeOK
    <3>2. RefundExclusive'
      BY <2>7 DEF CallGateway, OwnerHolds, RefundExclusive, OwnerSteps, Refundable,
          rowVars, Return, Goto, TypeOK
    <3>. QED BY <3>1, <3>2
  <2>8. CASE MarkRefundOk(w)
    <3>1. OwnerHolds'
      BY <2>8 DEF MarkRefundOk, OwnerHolds, RefundExclusive, OwnerSteps, Refundable,
          rowVars, SetStatus, Return, Goto, TypeOK
    <3>2. RefundExclusive'
      BY <2>8 DEF MarkRefundOk, OwnerHolds, RefundExclusive, OwnerSteps, Refundable,
          rowVars, Return, Goto, TypeOK
    <3>. QED BY <3>1, <3>2
  <2>9. CASE RollbackRefund(w)
    <3>1. OwnerHolds'
      BY <2>9 DEF RollbackRefund, OwnerHolds, RefundExclusive, OwnerSteps,
          Refundable, rowVars, SetStatus, Return, Goto, TypeOK
    <3>2. RefundExclusive'
      BY <2>9 DEF RollbackRefund, OwnerHolds, RefundExclusive, OwnerSteps,
          Refundable, rowVars, Return, Goto, TypeOK
    <3>. QED BY <3>1, <3>2
  <2>10. CASE MarkRefundFailed(w)
    <3>1. OwnerHolds'
      BY <2>10 DEF MarkRefundFailed, OwnerHolds, RefundExclusive, OwnerSteps,
          Refundable, rowVars, SetStatus, Return, Goto, TypeOK
    <3>2. RefundExclusive'
      BY <2>10 DEF MarkRefundFailed, OwnerHolds, RefundExclusive, OwnerSteps,
          Refundable, rowVars, Return, Goto, TypeOK
    <3>. QED BY <3>1, <3>2
  <2>11. CASE MarkRefundPending(w)
    <3>1. OwnerHolds'
      BY <2>11 DEF MarkRefundPending, OwnerHolds, RefundExclusive, OwnerSteps,
          Refundable, rowVars, SetStatus, Return, Goto, TypeOK
    <3>2. RefundExclusive'
      BY <2>11 DEF MarkRefundPending, OwnerHolds, RefundExclusive, OwnerSteps,
          Refundable, rowVars, Return, Goto, TypeOK
    <3>. QED BY <3>1, <3>2
  <2>12. CASE LogRefundPending(w)
    <3>1. OwnerHolds'
      BY <2>12 DEF LogRefundPending, OwnerHolds, RefundExclusive, OwnerSteps,
          Refundable, rowVars, SetStatus, Return, Goto, TypeOK
    <3>2. RefundExclusive'
      BY <2>12 DEF LogRefundPending, OwnerHolds, RefundExclusive, OwnerSteps,
          Refundable, rowVars, Return, Goto, TypeOK
    <3>. QED BY <3>1, <3>2
  <2>13. CASE BeginFinalize(w)
    <3>1. OwnerHolds'
      BY <2>13 DEF BeginFinalize, OwnerHolds, RefundExclusive, OwnerSteps,
          Refundable, rowVars, SetStatus, Return, Goto, TypeOK
    <3>2. RefundExclusive'
      BY <2>13 DEF BeginFinalize, OwnerHolds, RefundExclusive, OwnerSteps,
          Refundable, rowVars, Return, Goto, TypeOK
    <3>. QED BY <3>1, <3>2
  <2>14. CASE ReadPendingDetail(w)
    <3>1. OwnerHolds'
      BY <2>14 DEF ReadPendingDetail, OwnerHolds, RefundExclusive, OwnerSteps,
          Refundable, rowVars, SetStatus, Return, Goto, TypeOK
    <3>2. RefundExclusive'
      BY <2>14 DEF ReadPendingDetail, OwnerHolds, RefundExclusive, OwnerSteps,
          Refundable, rowVars, Return, Goto, TypeOK
    <3>. QED BY <3>1, <3>2
  <2>15. CASE QueryRefund(w)
    <3>1. OwnerHolds'
      BY <2>15 DEF QueryRefund, OwnerHolds, RefundExclusive, OwnerSteps, Refundable,
          rowVars, SetStatus, Return, Goto, TypeOK
    <3>2. RefundExclusive'
      BY <2>15 DEF QueryRefund, OwnerHolds, RefundExclusive, OwnerSteps, Refundable,
          rowVars, Return, Goto, TypeOK
    <3>. QED BY <3>1, <3>2
  <2>16. CASE FinalizeSuccess(w)
    <3>1. OwnerHolds'
      BY <2>16 DEF FinalizeSuccess, OwnerHolds, RefundExclusive, OwnerSteps,
          Refundable, rowVars, SetStatus, Return, Goto, TypeOK
    <3>2. RefundExclusive'
      BY <2>16 DEF FinalizeSuccess, OwnerHolds, RefundExclusive, OwnerSteps,
          Refundable, rowVars, Return, Goto, TypeOK
    <3>. QED BY <3>1, <3>2
  <2>17. CASE FinalizeFailed(w)
    <3>1. OwnerHolds'
      BY <2>17 DEF FinalizeFailed, OwnerHolds, RefundExclusive, OwnerSteps,
          Refundable, rowVars, SetStatus, Return, Goto, TypeOK
    <3>2. RefundExclusive'
      BY <2>17 DEF FinalizeFailed, OwnerHolds, RefundExclusive, OwnerSteps,
          Refundable, rowVars, Return, Goto, TypeOK
    <3>. QED BY <3>1, <3>2
  <2>18. CASE LoseGatewayAnswer(w)
    <3>1. OwnerHolds'
      BY <2>18 DEF LoseGatewayAnswer, OwnerHolds, RefundExclusive, OwnerSteps,
          Refundable, rowVars, SetStatus, Return, Goto, TypeOK
    <3>2. RefundExclusive'
      BY <2>18 DEF LoseGatewayAnswer, OwnerHolds, RefundExclusive, OwnerSteps,
          Refundable, rowVars, Return, Goto, TypeOK
    <3>. QED BY <3>1, <3>2
  <2>19. CASE DeductFails(w)
    <3>1. OwnerHolds'
      BY <2>19 DEF DeductFails, OwnerHolds, RefundExclusive, OwnerSteps, Refundable,
          rowVars, SetStatus, Return, Goto, TypeOK
    <3>2. RefundExclusive'
      BY <2>19 DEF DeductFails, OwnerHolds, RefundExclusive, OwnerSteps, Refundable,
          rowVars, Return, Goto, TypeOK
    <3>. QED BY <3>1, <3>2
  <2>20. CASE Abort(w)
    <3>1. OwnerHolds'
      BY <2>20 DEF Abort, OwnerHolds, RefundExclusive, OwnerSteps, Refundable,
          rowVars, SetStatus, Return, Goto, TypeOK
    <3>2. RefundExclusive'
      BY <2>20 DEF Abort, OwnerHolds, RefundExclusive, OwnerSteps, Refundable,
          rowVars, Return, Goto, TypeOK
    <3>. QED BY <3>1, <3>2
  <2>. QED BY <1>1, <2>1, <2>2, <2>3, <2>4, <2>5, <2>6, <2>7, <2>8, <2>9, <2>10,
      <2>11, <2>12, <2>13, <2>14, <2>15, <2>16, <2>17, <2>18, <2>19, <2>20 DEF Step,
      Execute, Finalize
<1>2. CASE SettlePending \/ UNCHANGED vars
  BY <1>2 DEF SettlePending, vars, rowVars, OwnerHolds, RefundExclusive
<1>. QED BY <1>1, <1>2 DEF Next, Step

-----------------------------------------------------------------------------
(* The books *)

\* A request marks the order failed only after its rollback failed.
LEMMA FailedStep == TypeOK /\ FailedIsStuck /\ [Next]_vars => FailedIsStuck'
<1>. SUFFICES ASSUME TypeOK, FailedIsStuck, [Next]_vars PROVE FailedIsStuck'
  OBVIOUS
<1>1. ASSUME NEW w \in Workers, Step(w) PROVE FailedIsStuck'
  <2>1. CASE PrepareRefund(w)
    BY <2>1 DEF PrepareRefund, FailedIsStuck, Return, Goto, TypeOK
  <2>2. CASE LockRefund(w)
    BY <2>2 DEF LockRefund, FailedIsStuck, Return, Goto, TypeOK
  <2>3. CASE RecheckRollback(w)
    BY <2>3 DEF RecheckRollback, FailedIsStuck, Return, Goto, TypeOK
  <2>4. CASE DeductEntitlement(w)
    BY <2>4 DEF DeductEntitlement, FailedIsStuck, Return, Goto, TypeOK
  <2>5. CASE RestoreStatus(w)
    BY <2>5 DEF RestoreStatus, FailedIsStuck, Return, Goto, TypeOK
  <2>6. CASE SkipGateway(w)
    BY <2>6 DEF SkipGateway, FailedIsStuck, Return, Goto, TypeOK
  <2>7. CASE CallGateway(w)
    BY <2>7 DEF CallGateway, FailedIsStuck, Return, Goto, TypeOK
  <2>8. CASE MarkRefundOk(w)
    BY <2>8 DEF MarkRefundOk, FailedIsStuck, Return, Goto, TypeOK
  <2>9. CASE RollbackRefund(w)
    BY <2>9 DEF RollbackRefund, FailedIsStuck, Return, Goto, TypeOK
  <2>10. CASE MarkRefundFailed(w)
    BY <2>10 DEF MarkRefundFailed, FailedIsStuck, Return, Goto, TypeOK
  <2>11. CASE MarkRefundPending(w)
    BY <2>11 DEF MarkRefundPending, FailedIsStuck, Return, Goto, TypeOK
  <2>12. CASE LogRefundPending(w)
    BY <2>12 DEF LogRefundPending, FailedIsStuck, Return, Goto, TypeOK
  <2>13. CASE BeginFinalize(w)
    BY <2>13 DEF BeginFinalize, FailedIsStuck, Return, Goto, TypeOK
  <2>14. CASE ReadPendingDetail(w)
    BY <2>14 DEF ReadPendingDetail, FailedIsStuck, Return, Goto, TypeOK
  <2>15. CASE QueryRefund(w)
    BY <2>15 DEF QueryRefund, FailedIsStuck, Return, Goto, TypeOK
  <2>16. CASE FinalizeSuccess(w)
    BY <2>16 DEF FinalizeSuccess, FailedIsStuck, Return, Goto, TypeOK
  <2>17. CASE FinalizeFailed(w)
    BY <2>17 DEF FinalizeFailed, FailedIsStuck, Return, Goto, TypeOK
  <2>18. CASE LoseGatewayAnswer(w)
    BY <2>18 DEF LoseGatewayAnswer, FailedIsStuck, Return, Goto, TypeOK
  <2>19. CASE DeductFails(w)
    BY <2>19 DEF DeductFails, FailedIsStuck, Return, Goto, TypeOK
  <2>20. CASE Abort(w)
    BY <2>20 DEF Abort, FailedIsStuck, Return, Goto, TypeOK
  <2>. QED BY <1>1, <2>1, <2>2, <2>3, <2>4, <2>5, <2>6, <2>7, <2>8, <2>9, <2>10,
      <2>11, <2>12, <2>13, <2>14, <2>15, <2>16, <2>17, <2>18, <2>19, <2>20 DEF Step,
      Execute, Finalize
<1>2. CASE SettlePending \/ UNCHANGED vars
  BY <1>2 DEF SettlePending, vars, FailedIsStuck
<1>. QED BY <1>1, <1>2 DEF Next, Step

\* Only a request with something to deduct comes to the deduction.
LEMMA DeductStep == TypeOK /\ DeductIsDue /\ [Next]_vars => DeductIsDue'
<1>. SUFFICES ASSUME TypeOK, DeductIsDue, [Next]_vars PROVE DeductIsDue'
  OBVIOUS
<1>1. ASSUME NEW w \in Workers, Step(w) PROVE DeductIsDue'
  <2>1. CASE PrepareRefund(w)
    BY <2>1 DEF PrepareRefund, DeductIsDue, Return, Goto, TypeOK, Plans
  <2>2. CASE LockRefund(w)
    BY <2>2 DEF LockRefund, DeductIsDue, Return, Goto, TypeOK, Plans
  <2>3. CASE RecheckRollback(w)
    BY <2>3 DEF RecheckRollback, DeductIsDue, Return, Goto, TypeOK, Plans
  <2>4. CASE DeductEntitlement(w)
    BY <2>4 DEF DeductEntitlement, DeductIsDue, Return, Goto, TypeOK, Plans
  <2>5. CASE RestoreStatus(w)
    BY <2>5 DEF RestoreStatus, DeductIsDue, Return, Goto, TypeOK, Plans
  <2>6. CASE SkipGateway(w)
    BY <2>6 DEF SkipGateway, DeductIsDue, Return, Goto, TypeOK, Plans
  <2>7. CASE CallGateway(w)
    BY <2>7 DEF CallGateway, DeductIsDue, Return, Goto, TypeOK, Plans
  <2>8. CASE MarkRefundOk(w)
    BY <2>8 DEF MarkRefundOk, DeductIsDue, Return, Goto, TypeOK, Plans
  <2>9. CASE RollbackRefund(w)
    BY <2>9 DEF RollbackRefund, DeductIsDue, Return, Goto, TypeOK, Plans
  <2>10. CASE MarkRefundFailed(w)
    BY <2>10 DEF MarkRefundFailed, DeductIsDue, Return, Goto, TypeOK, Plans
  <2>11. CASE MarkRefundPending(w)
    BY <2>11 DEF MarkRefundPending, DeductIsDue, Return, Goto, TypeOK, Plans
  <2>12. CASE LogRefundPending(w)
    BY <2>12 DEF LogRefundPending, DeductIsDue, Return, Goto, TypeOK, Plans
  <2>13. CASE BeginFinalize(w)
    BY <2>13 DEF BeginFinalize, DeductIsDue, Return, Goto, TypeOK, Plans
  <2>14. CASE ReadPendingDetail(w)
    BY <2>14 DEF ReadPendingDetail, DeductIsDue, Return, Goto, TypeOK, Plans
  <2>15. CASE QueryRefund(w)
    BY <2>15 DEF QueryRefund, DeductIsDue, Return, Goto, TypeOK, Plans
  <2>16. CASE FinalizeSuccess(w)
    BY <2>16 DEF FinalizeSuccess, DeductIsDue, Return, Goto, TypeOK, Plans
  <2>17. CASE FinalizeFailed(w)
    BY <2>17 DEF FinalizeFailed, DeductIsDue, Return, Goto, TypeOK, Plans
  <2>18. CASE LoseGatewayAnswer(w)
    BY <2>18 DEF LoseGatewayAnswer, DeductIsDue, Return, Goto, TypeOK, Plans
  <2>19. CASE DeductFails(w)
    BY <2>19 DEF DeductFails, DeductIsDue, Return, Goto, TypeOK, Plans
  <2>20. CASE Abort(w)
    BY <2>20 DEF Abort, DeductIsDue, Return, Goto, TypeOK, Plans
  <2>. QED BY <1>1, <2>1, <2>2, <2>3, <2>4, <2>5, <2>6, <2>7, <2>8, <2>9, <2>10,
      <2>11, <2>12, <2>13, <2>14, <2>15, <2>16, <2>17, <2>18, <2>19, <2>20 DEF Step,
      Execute, Finalize
<1>2. CASE SettlePending \/ UNCHANGED vars
  BY <1>2 DEF SettlePending, vars, DeductIsDue
<1>. QED BY <1>1, <1>2 DEF Next, Step

\* What the owner of the order has deducted.
Due(w) == IF pc[w] \in ChargedSteps /\ plan[w].take THEN 1 ELSE 0

\* Every step keeps the books.
LEMMA BooksStep == IInv /\ [Next]_vars => Books'
<1>. SUFFICES ASSUME IInv, [Next]_vars, ~stuck', ~stale' PROVE Books'
  BY DEF Books
<1>. DEFINE Calm == /\ status \in Refundable => debits = 0
                    /\ debits <= 1
                    /\ \A v \in Workers : pc[v] \in OwnerSteps => debits = Due(v)
<1>0. TypeOK /\ debits \in Nat
  BY DEF IInv, TypeOK
<1>. SUFFICES Calm'
  BY DEF Books, Due
<1>1. ASSUME NEW w \in Workers, Step(w) PROVE Calm'
  <2>0. Calm /\ ~stuck /\ ~stale
    <3>1. ~stuck
      BY <1>1 DEF Step, Execute, Finalize, PrepareRefund, LockRefund,
          RecheckRollback,
          DeductEntitlement, RestoreStatus, SkipGateway, CallGateway, MarkRefundOk,
          RollbackRefund, MarkRefundFailed, MarkRefundPending, LogRefundPending,
          BeginFinalize, ReadPendingDetail, QueryRefund, FinalizeSuccess,
          FinalizeFailed, LoseGatewayAnswer, DeductFails, Abort
    <3>2. ~stale
      BY <1>1 DEF Step, Execute, Finalize, PrepareRefund, LockRefund,
          RecheckRollback,
          DeductEntitlement, RestoreStatus, SkipGateway, CallGateway, MarkRefundOk,
          RollbackRefund, MarkRefundFailed, MarkRefundPending, LogRefundPending,
          BeginFinalize, ReadPendingDetail, QueryRefund, FinalizeSuccess,
          FinalizeFailed, LoseGatewayAnswer, DeductFails, Abort
    <3>. QED BY <3>1, <3>2 DEF IInv, Books, Due
  <2>. \A v \in Workers : pc[v] \in OwnerSteps => status = "REFUNDING" /\
            \A u \in Workers : pc[u] \in OwnerSteps => u = v
    BY <2>0 DEF IInv, OwnerHolds, RefundExclusive
  <2>1. CASE PrepareRefund(w)
    BY <2>1, <2>0, <1>0 DEF PrepareRefund, OwnerSteps, ChargedSteps, Due,
        Refundable, Refunded, RefundedStatus, rowVars, SetStatus, Return, Goto,
        TypeOK, Plans
  <2>2. CASE LockRefund(w)
    BY <2>2, <2>0, <1>0 DEF LockRefund, OwnerSteps, ChargedSteps, Due, Refundable,
        Refunded, RefundedStatus, rowVars, SetStatus, Return, Goto, TypeOK, Plans
  <2>3. CASE RecheckRollback(w)
    BY <2>3, <2>0, <1>0 DEF RecheckRollback, OwnerSteps, ChargedSteps, Due,
        Refundable, Refunded, RefundedStatus, rowVars, SetStatus, Return, Goto,
        TypeOK, Plans
  <2>4. CASE DeductEntitlement(w)
    <3>1. debits = 0 /\ plan[w].take
      BY <2>4, <2>0 DEF DeductEntitlement, Due, OwnerSteps, ChargedSteps, IInv,
          DeductIsDue
    <3>2. CASE debits' = debits + 1 /\ Goto(w, "gateway")
      BY <2>4, <3>1, <3>2, <2>0, <1>0 DEF DeductEntitlement, OwnerSteps,
          ChargedSteps, Due, Refundable, rowVars, Goto, TypeOK
    <3>3. CASE debits' = debits /\ Goto(w, "restore")
      BY <2>4, <3>1, <3>3, <2>0, <1>0 DEF DeductEntitlement, OwnerSteps,
          ChargedSteps, Due, Refundable, rowVars, Goto, TypeOK
    <3>. QED BY <2>4, <3>2, <3>3 DEF DeductEntitlement
  <2>5. CASE RestoreStatus(w)
    BY <2>5, <2>0, <1>0 DEF RestoreStatus, OwnerSteps, ChargedSteps, Due,
        Refundable, Refunded, RefundedStatus, rowVars, SetStatus, Return, Goto,
        TypeOK, Plans
  <2>6. CASE SkipGateway(w)
    BY <2>6, <2>0, <1>0 DEF SkipGateway, OwnerSteps, ChargedSteps, Due, Refundable,
        Refunded, RefundedStatus, rowVars, SetStatus, Return, Goto, TypeOK, Plans
  <2>7. CASE CallGateway(w)
    BY <2>7, <2>0, <1>0 DEF CallGateway, OwnerSteps, ChargedSteps, Due, Refundable,
        Refunded, RefundedStatus, rowVars, SetStatus, Return, Goto, TypeOK, Plans
  <2>8. CASE MarkRefundOk(w)
    BY <2>8, <2>0, <1>0 DEF MarkRefundOk, OwnerSteps, ChargedSteps, Due, Refundable,
        Refunded, RefundedStatus, rowVars, SetStatus, Return, Goto, TypeOK, Plans
  <2>9. CASE RollbackRefund(w)
    BY <2>9, <2>0, <1>0 DEF RollbackRefund, OwnerSteps, ChargedSteps, Due,
        Refundable, Refunded, RefundedStatus, rowVars, SetStatus, Return, Goto,
        TypeOK, Plans
  <2>10. CASE MarkRefundFailed(w)
    BY <2>10, <2>0, <1>0 DEF MarkRefundFailed, OwnerSteps, ChargedSteps, Due,
        Refundable, Refunded, RefundedStatus, rowVars, SetStatus, Return, Goto,
        TypeOK, Plans
  <2>11. CASE MarkRefundPending(w)
    BY <2>11, <2>0, <1>0 DEF MarkRefundPending, OwnerSteps, ChargedSteps, Due,
        Refundable, Refunded, RefundedStatus, rowVars, SetStatus, Return, Goto,
        TypeOK, Plans
  <2>12. CASE LogRefundPending(w)
    BY <2>12, <2>0, <1>0 DEF LogRefundPending, OwnerSteps, ChargedSteps, Due,
        Refundable, Refunded, RefundedStatus, rowVars, SetStatus, Return, Goto,
        TypeOK, Plans
  <2>13. CASE BeginFinalize(w)
    BY <2>13, <2>0, <1>0 DEF BeginFinalize, OwnerSteps, ChargedSteps, Due,
        Refundable, Refunded, RefundedStatus, rowVars, SetStatus, Return, Goto,
        TypeOK, Plans
  <2>14. CASE ReadPendingDetail(w)
    BY <2>14, <2>0, <1>0 DEF ReadPendingDetail, OwnerSteps, ChargedSteps, Due,
        Refundable, Refunded, RefundedStatus, rowVars, SetStatus, Return, Goto,
        TypeOK, Plans
  <2>15. CASE QueryRefund(w)
    BY <2>15, <2>0, <1>0 DEF QueryRefund, OwnerSteps, ChargedSteps, Due, Refundable,
        Refunded, RefundedStatus, rowVars, SetStatus, Return, Goto, TypeOK, Plans
  <2>16. CASE FinalizeSuccess(w)
    <3>1. pc[w] \notin OwnerSteps /\ pc'[w] \notin OwnerSteps
      BY <2>16, <1>0 DEF FinalizeSuccess, OwnerSteps, Return, Goto, TypeOK
    <3>2. \A v \in Workers \ {w} : pc'[v] = pc[v] /\ plan'[v] = plan[v]
      BY <2>16, <1>0 DEF FinalizeSuccess, Return, Goto, TypeOK
    <3>3. CASE status' = status /\ debits' = debits
      BY <3>1, <3>2, <3>3, <2>0 DEF Due
    <3>4. CASE status = "REFUND_PENDING" /\ status' \in Refunded
               /\ (debits' = debits \/ debits' = debits + 1)
      <4>1. debits = 0
        BY <3>4, <2>0 DEF Refundable
      <4>2. \A v \in Workers : pc[v] \notin OwnerSteps
        BY <3>4
      <4>3. \A v \in Workers : pc'[v] \notin OwnerSteps
        BY <4>2, <3>1, <3>2
      <4>4. debits' <= 1
        BY <4>1, <3>4
      <4>. QED BY <3>4, <4>3, <4>4 DEF Refunded, Refundable
    <3>. QED BY <2>16, <3>3, <3>4 DEF FinalizeSuccess, RefundedStatus, Refunded
  <2>17. CASE FinalizeFailed(w)
    BY <2>17, <2>0, <1>0 DEF FinalizeFailed, OwnerSteps, ChargedSteps, Due,
        Refundable, Refunded, RefundedStatus, rowVars, SetStatus, Return, Goto,
        TypeOK, Plans
  <2>18. CASE LoseGatewayAnswer(w)
    BY <2>18, <2>0, <1>0 DEF LoseGatewayAnswer, OwnerSteps, ChargedSteps, Due,
        Refundable, Refunded, RefundedStatus, rowVars, SetStatus, Return, Goto,
        TypeOK, Plans
  <2>19. CASE DeductFails(w)
    BY <2>19, <2>0, <1>0 DEF DeductFails, OwnerSteps, ChargedSteps, Due, Refundable,
        Refunded, RefundedStatus, rowVars, SetStatus, Return, Goto, TypeOK, Plans
  <2>20. CASE Abort(w)
    BY <2>20, <2>0, <1>0 DEF Abort, OwnerSteps, ChargedSteps, Due, Refundable,
        Refunded, RefundedStatus, rowVars, SetStatus, Return, Goto, TypeOK, Plans
  <2>. QED BY <1>1, <2>1, <2>2, <2>3, <2>4, <2>5, <2>6, <2>7, <2>8, <2>9, <2>10,
      <2>11, <2>12, <2>13, <2>14, <2>15, <2>16, <2>17, <2>18, <2>19, <2>20 DEF Step,
      Execute, Finalize
<1>2. CASE SettlePending \/ UNCHANGED vars
  BY <1>2 DEF IInv, Books, Due, SettlePending, vars, rowVars
<1>. QED BY <1>1, <1>2 DEF Next, Step

-----------------------------------------------------------------------------
(* Theorems *)

\* The invariant holds at first and every step keeps it.
LEMMA InitInv == Init => IInv
<1>. SUFFICES ASSUME Init PROVE IInv
  OBVIOUS
<1>1. TypeOK
  <2>1. pc \in [Workers -> Steps] /\ plan \in [Workers -> Plans]
    BY NoPlanType DEF Init, Steps
  <2>2. status \in Statuses
    BY DEF Init, Statuses, Refundable
  <2>3. debits \in Nat /\ faults \in 0..MaxFaults
    BY DEF Init
  <2>. QED BY <2>1, <2>2, <2>3 DEF Init, TypeOK
<1>2. LedgerOK
  <2>1. Debtors = {}
    BY DEF Init, Debtors, ChargedSteps
  <2>. QED BY <2>1, FS_EmptySet DEF LedgerOK, Init
<1>3. SeenReturned /\ RefundedMeansReturned /\ FailedIsStuck /\ DeductIsDue
  BY DEF Init, SeenReturned, RefundedMeansReturned, Refunded, FailedIsStuck,
      DeductIsDue
<1>4. OwnerHolds /\ RefundExclusive /\ Books
  BY DEF Init, OwnerHolds, RefundExclusive, Books, OwnerSteps
<1>. QED BY <1>1, <1>2, <1>3, <1>4 DEF IInv

LEMMA NextInv == IInv /\ [Next]_vars => IInv'
<1>. SUFFICES ASSUME IInv, [Next]_vars PROVE IInv'
  OBVIOUS
<1>1. TypeOK' /\ LedgerOK'
  BY ShapeStep, LedgerStep DEF IInv, TypeOK, ShapeOK
<1>2. SeenReturned' /\ RefundedMeansReturned'
  BY GatewayStep DEF IInv
<1>3. OwnerHolds' /\ RefundExclusive'
  BY OwnerStep DEF IInv
<1>4. FailedIsStuck' /\ DeductIsDue' /\ Books'
  BY FailedStep, DeductStep, BooksStep DEF IInv
<1>. QED BY <1>1, <1>2, <1>3, <1>4 DEF IInv

\* The inductive invariant holds in every state of a refund, with any number of
\* administrators working on the order and any number of faults.
THEOREM RefundInvariant == Spec => []IInv
BY InitInv, NextInv, PTL DEF Spec

\* Types: in particular what RollbackRefund gives back was deducted before, so
\* the account of deductions never turns negative.
THEOREM RefundTypes == Spec => []TypeOK
<1>1. IInv => TypeOK
  BY DEF IInv
<1>. QED BY RefundInvariant, <1>1, PTL

\* REFUNDED orders with a trade number are backed by the gateway's return.
THEOREM RefundBacked == Spec => []RefundedMeansReturned
<1>1. IInv => RefundedMeansReturned
  BY DEF IInv
<1>. QED BY RefundInvariant, <1>1, PTL

\* The REFUNDING row is a lock while no late verdict overwrites it.
THEOREM RefundLock == Spec => []RefundExclusive
<1>1. IInv => RefundExclusive
  BY DEF IInv
<1>. QED BY RefundInvariant, <1>1, PTL

\* A restored order cost the user nothing, unless a rollback failed or a late
\* verdict let a second request in.
THEOREM RestoredUntouched == Spec => []RestoredMeansUntouched
<1>1. IInv => RestoredMeansUntouched
  BY DEF IInv, Books, RestoredMeansUntouched, Refundable
<1>. QED BY RefundInvariant, <1>1, PTL

\* The user is charged at most once, with the same exceptions.
THEOREM ChargedOnce == Spec => []ChargedOnceUnlessStuck
<1>1. IInv => ChargedOnceUnlessStuck
  BY DEF IInv, Books, ChargedOnceUnlessStuck
<1>. QED BY RefundInvariant, <1>1, PTL

\* A settled refund stays settled unless a late verdict intervenes: the
\* unconditional updates of the owners never meet it.
THEOREM RefundFinal == Spec => RefundedIsFinal
<1>1. IInv /\ [Next]_vars => ((status \in Refunded) => (stale' \/ status' = status))
  <2>. SUFFICES ASSUME IInv, [Next]_vars, status \in Refunded, ~stale'
                PROVE  status' = status
    OBVIOUS
  <2>1. ASSUME NEW w \in Workers, Step(w) PROVE status' = status
    <3>1. ~stale
      BY <2>1 DEF Step, Execute, Finalize, PrepareRefund, LockRefund,
          RecheckRollback,
          DeductEntitlement, RestoreStatus, SkipGateway, CallGateway, MarkRefundOk,
          RollbackRefund, MarkRefundFailed, MarkRefundPending, LogRefundPending,
          BeginFinalize, ReadPendingDetail, QueryRefund, FinalizeSuccess,
          FinalizeFailed, LoseGatewayAnswer, DeductFails, Abort
    <3>2. pc[w] \notin OwnerSteps
      BY <3>1 DEF IInv, OwnerHolds, Refunded
    <3>. QED
      BY <2>1, <3>2 DEF Step, Execute, Finalize, PrepareRefund, LockRefund,
          RecheckRollback, DeductEntitlement, RestoreStatus, SkipGateway,
          CallGateway, MarkRefundOk, RollbackRefund, MarkRefundFailed,
          MarkRefundPending, LogRefundPending, BeginFinalize, ReadPendingDetail,
          QueryRefund, FinalizeSuccess, FinalizeFailed, LoseGatewayAnswer,
          DeductFails, Abort, OwnerSteps, Refunded, Refundable, rowVars
  <2>2. CASE SettlePending \/ UNCHANGED vars
    BY <2>2 DEF SettlePending, vars, rowVars
  <2>. QED BY <2>1, <2>2 DEF Next, Step
<1>. QED BY RefundInvariant, <1>1, PTL DEF Spec, RefundedIsFinal

-----------------------------------------------------------------------------
(* The promise of a refund *)

\* A step that neither moves the order nor its owners.
LEMMA QuietRefund ==
    ASSUME UNCHANGED <<traded, status, gateway, debits, stuck, stale>>,
           Owners' = Owners
    PROVE  UNCHANGED Refund!refundVars
BY DEF Refund!refundVars, Shown, Disturbed

\* A step of one request that owns the order before and after it, or neither.
LEMMA OwnersStay ==
    ASSUME NEW w \in Workers, \A v \in Workers \ {w} : pc'[v] = pc[v],
           pc[w] \in OwnerSteps <=> pc'[w] \in OwnerSteps
    PROVE  Owners' = Owners
BY DEF Owners

\* The owner of an order that nothing disturbed is the only one, and what is
\* deducted is what it deducted.
LEMMA SoleOwner ==
    ASSUME IInv, ~stuck, ~stale, NEW w \in Workers, pc[w] \in OwnerSteps
    PROVE  Owners = {w} /\ status = "REFUNDING" /\ debits = Due(w)
BY DEF IInv, OwnerHolds, RefundExclusive, Books, Due, Owners

\* An order that nobody locked has no owner.
LEMMA NoOwner ==
    ASSUME IInv, ~stuck, ~stale, status # "REFUNDING"
    PROVE  Owners = {}
BY DEF IInv, OwnerHolds, Owners

\* The steps that touch nothing the user sees.
LEMMA QuietSteps ==
    ASSUME IInv, NEW w \in Workers,
           \/ PrepareRefund(w) \/ RecheckRollback(w) \/ SkipGateway(w)
           \/ LogRefundPending(w) \/ BeginFinalize(w) \/ ReadPendingDetail(w)
           \/ QueryRefund(w) \/ DeductFails(w)
    PROVE  UNCHANGED Refund!refundVars
<1>. TypeOK
  BY DEF IInv
<1>1. UNCHANGED <<traded, status, gateway, debits, stuck, stale>>
  BY DEF PrepareRefund, RecheckRollback, SkipGateway, LogRefundPending,
      BeginFinalize, ReadPendingDetail, QueryRefund, DeductFails, rowVars
<1>2. \A v \in Workers \ {w} : pc'[v] = pc[v]
  BY DEF PrepareRefund, RecheckRollback, SkipGateway, LogRefundPending,
      BeginFinalize, ReadPendingDetail, QueryRefund, DeductFails, Return, Goto,
      TypeOK
<1>3. pc[w] \in OwnerSteps <=> pc'[w] \in OwnerSteps
  BY DEF PrepareRefund, RecheckRollback, SkipGateway, LogRefundPending,
      BeginFinalize, ReadPendingDetail, QueryRefund, DeductFails, Return, Goto,
      TypeOK, OwnerSteps
<1>. QED BY <1>1, <1>2, <1>3, OwnersStay, QuietRefund

\* The steps of a request on an order that nothing disturbed.
LEMMA RequestMoves ==
    ASSUME IInv, NEW w \in Workers, Step(w), ~stuck, ~stale, ~stuck', ~stale'
    PROVE  [Refund!Next]_(Refund!refundVars)
<1>. TypeOK
  BY DEF IInv
<1>. UNCHANGED <<stuck, stale>>
  <2>1. stuck' \in BOOLEAN /\ stale' \in BOOLEAN
    BY ShapeStep DEF ShapeOK, Next, Step
  <2>. QED BY <2>1 DEF TypeOK
<1>. USE DEF Disturbed, Shown
<1>1. CASE \/ PrepareRefund(w) \/ RecheckRollback(w) \/ SkipGateway(w)
           \/ LogRefundPending(w) \/ BeginFinalize(w) \/ ReadPendingDetail(w)
           \/ QueryRefund(w) \/ DeductFails(w)
  BY <1>1, QuietSteps
<1>2. CASE LockRefund(w)
  <2>1. \A v \in Workers \ {w} : pc'[v] = pc[v]
    BY <1>2 DEF LockRefund, Return, Goto, TypeOK
  <2>2. CASE status \in Refundable
    <3>1. Owners = {} /\ debits = 0
      BY <2>2, NoOwner DEF Refundable, IInv, Books
    <3>2. Owners' = {w}
      BY <1>2, <2>1, <2>2, <3>1 DEF LockRefund, Goto, TypeOK, Owners, OwnerSteps
    <3>3. Shown \in {"open", "waiting"} /\ Shown' = "busy"
      BY <1>2, <2>2 DEF LockRefund, SetStatus, Refundable, Refunded
    <3>4. UNCHANGED <<traded, gateway, debits>>
      BY <1>2, <2>2 DEF LockRefund, SetStatus
    <3>5. Refund!Start(w)
      BY <3>1, <3>2, <3>3, <3>4 DEF Refund!Start
    <3>. QED BY <3>4, <3>5 DEF Refund!Next
  <2>3. CASE status \notin Refundable
    <3>1. pc[w] \notin OwnerSteps /\ pc'[w] \notin OwnerSteps
      BY <1>2, <2>3 DEF LockRefund, Return, Goto, TypeOK, OwnerSteps
    <3>. QED BY <1>2, <2>1, <2>3, <3>1, OwnersStay, QuietRefund DEF LockRefund,
        rowVars
  <2>. QED BY <2>2, <2>3
<1>3. CASE DeductEntitlement(w)
  <2>1. Owners = {w} /\ status = "REFUNDING" /\ debits = 0
    BY <1>3, SoleOwner DEF DeductEntitlement, OwnerSteps, Due, ChargedSteps
  <2>2. Owners' = Owners
    BY <1>3, OwnersStay DEF DeductEntitlement, Goto, TypeOK, OwnerSteps
  <2>3. UNCHANGED <<traded, status, gateway>> /\ debits' \in {0, 1}
    <3>1. UNCHANGED <<traded, status, gateway>>
      BY <1>3 DEF DeductEntitlement, rowVars
    <3>2. debits' = debits + 1 \/ debits' = debits
      BY <1>3 DEF DeductEntitlement
    <3>. QED BY <2>1, <3>1, <3>2
  <2>4. CASE debits' = 1
    <3>1. Refund!Take(w)
      BY <2>1, <2>2, <2>3, <2>4 DEF Refund!Take
    <3>. QED BY <2>3, <3>1 DEF Refund!Next
  <2>5. CASE debits' = 0
    BY <2>1, <2>2, <2>3, <2>5, QuietRefund
  <2>. QED BY <2>3, <2>4, <2>5
<1>4. CASE RestoreStatus(w) \/ MarkRefundPending(w)
  <2>1. Owners = {w} /\ status = "REFUNDING" /\ debits = 0
    BY <1>4, SoleOwner DEF RestoreStatus, MarkRefundPending, OwnerSteps, Due,
        ChargedSteps
  <2>2. pc'[w] \notin OwnerSteps /\ \A v \in Workers \ {w} : pc'[v] = pc[v]
    BY <1>4 DEF RestoreStatus, MarkRefundPending, Return, Goto, TypeOK, OwnerSteps
  <2>3. Owners' = {}
    BY <2>1, <2>2 DEF Owners
  <2>4. /\ UNCHANGED <<traded, gateway, debits>>
        /\ status' \in {"COMPLETED", "REFUND_REQUESTED", "REFUND_PENDING"}
    BY <1>4 DEF RestoreStatus, MarkRefundPending, SetStatus
  <2>5. Shown = "busy" /\ Shown' \in {"open", "waiting"}
    BY <2>1, <2>4 DEF Refunded
  <2>6. Refund!Leave(w)
    BY <2>1, <2>3, <2>4, <2>5 DEF Refund!Leave
  <2>. QED BY <2>4, <2>6 DEF Refund!Next
<1>5. CASE CallGateway(w) \/ LoseGatewayAnswer(w)
  <2>1. Owners = {w} /\ status = "REFUNDING"
    BY <1>5, SoleOwner DEF CallGateway, LoseGatewayAnswer, OwnerSteps
  <2>2. Owners' = Owners
    BY <1>5, OwnersStay DEF CallGateway, LoseGatewayAnswer, Goto, TypeOK, OwnerSteps
  <2>3. UNCHANGED <<traded, status, debits>>
    BY <1>5 DEF CallGateway, LoseGatewayAnswer, rowVars
  <2>4. CASE gateway' = gateway
    BY <2>2, <2>3, <2>4, QuietRefund
  <2>5. CASE gateway' # gateway
    <3>1. gateway = "none" /\ gateway' \in {"pending", "returned"}
      BY <1>5, <2>5 DEF CallGateway, LoseGatewayAnswer, TypeOK
    <3>2. Refund!Gateway
      BY <2>1, <2>2, <2>3, <3>1 DEF Refund!Gateway
    <3>. QED BY <2>3, <3>2 DEF Refund!Next
  <2>. QED BY <2>4, <2>5
<1>6. CASE MarkRefundOk(w)
  <2>1. Owners = {w} /\ status = "REFUNDING"
    BY <1>6, SoleOwner DEF MarkRefundOk, OwnerSteps
  <2>2. pc'[w] \notin OwnerSteps /\ \A v \in Workers \ {w} : pc'[v] = pc[v]
    BY <1>6 DEF MarkRefundOk, Return, Goto, TypeOK, OwnerSteps
  <2>3. Owners' = {}
    BY <2>1, <2>2 DEF Owners
  <2>4. UNCHANGED <<traded, gateway, debits>> /\ status' \in Refunded
    BY <1>6 DEF MarkRefundOk, RefundedStatus, Refunded
  <2>5. Shown = "busy" /\ Shown' = "closed"
    BY <2>1, <2>4 DEF Refunded
  <2>6. traded => gateway = "returned"
    BY <1>6 DEF MarkRefundOk, IInv, SeenReturned
  <2>7. Refund!Close(w)
    BY <2>1, <2>3, <2>4, <2>5, <2>6 DEF Refund!Close
  <2>. QED BY <2>4, <2>7 DEF Refund!Next
<1>7. CASE RollbackRefund(w)
  <2>1. Owners = {w} /\ status = "REFUNDING"
        /\ debits = IF plan[w].take THEN 1 ELSE 0
    BY <1>7, SoleOwner DEF RollbackRefund, OwnerSteps, Due, ChargedSteps
  <2>2. Owners' = Owners
    <3>1. pc[w] \in OwnerSteps /\ pc'[w] \in OwnerSteps
          /\ \A v \in Workers \ {w} : pc'[v] = pc[v]
      BY <1>7 DEF RollbackRefund, Goto, TypeOK, OwnerSteps
    <3>. QED BY <3>1, OwnersStay
  <2>3. UNCHANGED <<traded, status, gateway>> /\ debits' = 0
    BY <1>7, <2>1 DEF RollbackRefund, rowVars
  <2>4. CASE plan[w].take
    <3>1. Refund!GiveBack(w)
      BY <2>1, <2>2, <2>3, <2>4 DEF Refund!GiveBack
    <3>. QED BY <2>3, <3>1 DEF Refund!Next
  <2>5. CASE ~plan[w].take
    BY <2>1, <2>2, <2>3, <2>5, QuietRefund
  <2>. QED BY <2>4, <2>5
<1>8. CASE MarkRefundFailed(w)
  BY <1>8 DEF MarkRefundFailed, IInv, FailedIsStuck
<1>9. CASE FinalizeSuccess(w)
  <2>1. pc[w] \notin OwnerSteps /\ pc'[w] \notin OwnerSteps
        /\ \A v \in Workers \ {w} : pc'[v] = pc[v]
    BY <1>9 DEF FinalizeSuccess, Return, Goto, TypeOK, OwnerSteps
  <2>2. Owners' = Owners
    BY <2>1, OwnersStay
  <2>3. UNCHANGED <<traded, gateway>>
    BY <1>9 DEF FinalizeSuccess
  <2>4. CASE UNCHANGED <<status, debits>>
    BY <2>2, <2>3, <2>4, QuietRefund
  <2>5. CASE /\ status = "REFUND_PENDING" /\ status' \in Refunded
             /\ debits' \in {debits, debits + 1}
    <3>1. debits = 0
      BY <2>5 DEF IInv, Books, Refundable
    <3>2. gateway = "returned"
      BY <1>9 DEF FinalizeSuccess, IInv, SeenReturned
    <3>3. Shown = "waiting" /\ Shown' = "closed" /\ debits' \in {0, 1}
      BY <2>5, <3>1 DEF Refunded
    <3>4. Refund!Settle
      BY <2>2, <2>3, <3>1, <3>2, <3>3 DEF Refund!Settle
    <3>. QED BY <2>3, <3>4 DEF Refund!Next
  <2>. QED BY <1>9, <2>4, <2>5 DEF FinalizeSuccess, RefundedStatus, Refunded
<1>10. CASE FinalizeFailed(w)
  <2>1. status = "REFUND_PENDING" /\ status' = "REFUND_FAILED"
    BY <1>10 DEF FinalizeFailed, SetStatus
  <2>2. pc[w] \notin OwnerSteps /\ pc'[w] \notin OwnerSteps
        /\ \A v \in Workers \ {w} : pc'[v] = pc[v]
    BY <1>10 DEF FinalizeFailed, Return, Goto, TypeOK, OwnerSteps
  <2>3. Owners' = Owners
    BY <2>2, OwnersStay
  <2>4. UNCHANGED <<traded, gateway, debits>> /\ debits = 0
    BY <1>10, <2>1 DEF FinalizeFailed, SetStatus, IInv, Books, Refundable
  <2>5. Shown = "waiting" /\ Shown' = "open"
    BY <2>1 DEF Refunded
  <2>6. Refund!Settle
    BY <2>3, <2>4, <2>5 DEF Refund!Settle
  <2>. QED BY <2>4, <2>6 DEF Refund!Next
<1>11. CASE Abort(w)
  <2>1. pc'[w] \notin OwnerSteps /\ \A v \in Workers \ {w} : pc'[v] = pc[v]
    BY <1>11 DEF Abort, Return, Goto, TypeOK, OwnerSteps
  <2>2. UNCHANGED <<traded, status, gateway, debits>>
    BY <1>11 DEF Abort, rowVars
  <2>3. CASE pc[w] \in OwnerSteps
    <3>1. Owners = {w}
      BY <2>3, SoleOwner
    <3>2. Owners' = {}
      BY <2>1, <3>1 DEF Owners
    <3>3. Refund!Vanish(w)
      BY <2>2, <3>1, <3>2 DEF Refund!Vanish
    <3>. QED BY <2>2, <3>3 DEF Refund!Next
  <2>4. CASE pc[w] \notin OwnerSteps
    BY <2>1, <2>2, <2>4, OwnersStay, QuietRefund
  <2>. QED BY <2>3, <2>4
<1>. QED BY <1>1, <1>2, <1>3, <1>4, <1>5, <1>6, <1>7, <1>8, <1>9, <1>10, <1>11
         DEF Step, Execute, Finalize

\* Every step is a step of the promise or none: once the refund is lost only
\* the gateway's part remains to be kept.
LEMMA RefundStep ==
    ASSUME IInv, [Next]_vars PROVE [Refund!Next]_(Refund!refundVars)
<1>. TypeOK
  BY DEF IInv
<1>. USE DEF Disturbed, Shown
<1>1. CASE UNCHANGED vars
  BY <1>1, QuietRefund DEF vars, rowVars, Owners
<1>2. CASE SettlePending
  <2>1. Owners' = Owners
    BY <1>2 DEF SettlePending, Owners
  <2>2. Refund!Gateway /\ traded' = traded
    BY <1>2, <2>1 DEF SettlePending, rowVars, Refund!Gateway
  <2>. QED BY <2>2 DEF Refund!Next
<1>3. ASSUME NEW w \in Workers, Step(w) PROVE [Refund!Next]_(Refund!refundVars)
  <2>1. traded' = traded /\ (stuck => stuck') /\ (stale => stale')
    <3>1. traded' = traded
      BY <1>3 DEF Step, Execute, Finalize, PrepareRefund, LockRefund,
          RecheckRollback, DeductEntitlement, RestoreStatus, SkipGateway,
          CallGateway, MarkRefundOk, RollbackRefund, MarkRefundFailed,
          MarkRefundPending, LogRefundPending, BeginFinalize, ReadPendingDetail,
          QueryRefund, FinalizeSuccess, FinalizeFailed, LoseGatewayAnswer,
          DeductFails, Abort, SetStatus, rowVars
    <3>2. stuck => stuck'
      BY <1>3 DEF Step, Execute, Finalize, PrepareRefund, LockRefund,
          RecheckRollback, DeductEntitlement, RestoreStatus, SkipGateway,
          CallGateway, MarkRefundOk, RollbackRefund, MarkRefundFailed,
          MarkRefundPending, LogRefundPending, BeginFinalize, ReadPendingDetail,
          QueryRefund, FinalizeSuccess, FinalizeFailed, LoseGatewayAnswer,
          DeductFails, Abort
    <3>3. stale => stale'
      BY <1>3 DEF Step, Execute, Finalize, PrepareRefund, LockRefund,
          RecheckRollback, DeductEntitlement, RestoreStatus, SkipGateway,
          CallGateway, MarkRefundOk, RollbackRefund, MarkRefundFailed,
          MarkRefundPending, LogRefundPending, BeginFinalize, ReadPendingDetail,
          QueryRefund, FinalizeSuccess, FinalizeFailed, LoseGatewayAnswer,
          DeductFails, Abort
    <3>. QED BY <3>1, <3>2, <3>3
  <2>2. CASE ~stuck' /\ ~stale'
    BY <1>3, <2>1, <2>2, RequestMoves
  <2>3. CASE (stuck' \/ stale') /\ gateway' = gateway
    BY <2>1, <2>3 DEF Refund!Next, Refund!Lose
  <2>4. CASE (stuck' \/ stale') /\ gateway' # gateway
    <3>1. /\ gateway = "none" /\ gateway' \in {"pending", "returned"}
          /\ UNCHANGED <<stuck, stale>>
      <4>1. CallGateway(w) \/ LoseGatewayAnswer(w)
        BY <1>3, <2>4 DEF Step, Execute, Finalize, PrepareRefund, LockRefund,
            RecheckRollback, DeductEntitlement, RestoreStatus, SkipGateway,
            MarkRefundOk, RollbackRefund, MarkRefundFailed,
            MarkRefundPending, LogRefundPending, BeginFinalize,
            ReadPendingDetail, QueryRefund, FinalizeSuccess, FinalizeFailed,
            DeductFails, Abort
      <4>. QED BY <4>1, <2>4 DEF CallGateway, LoseGatewayAnswer, TypeOK
    <3>2. Refund!Gateway
      BY <2>4, <3>1 DEF Refund!Gateway
    <3>. QED BY <2>1, <3>2 DEF Refund!Next
  <2>. QED BY <2>2, <2>3, <2>4
<1>. QED BY <1>1, <1>2, <1>3 DEF Next, Step

\* The refund handlers implement the promise of a refund, for any number of
\* administrators and any number of faults: an order is closed only when the
\* money went back, reopened only when the deduction was given back.
THEOREM ImplementsRefundPromise == Spec => KeepsRefundPromise
<1>1. Init => Refund!Init
  BY DEF Init, Refund!Init, Shown, Disturbed, Owners, OwnerSteps, Refunded
<1>2. IInv /\ [Next]_vars => [Refund!Next]_(Refund!refundVars)
  BY RefundStep
<1>. QED BY RefundInvariant, <1>1, <1>2, PTL DEF Spec, KeepsRefundPromise,
    Refund!Spec
=============================================================================
