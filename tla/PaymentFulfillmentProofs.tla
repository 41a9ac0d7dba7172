---------------------- MODULE PaymentFulfillmentProofs ----------------------
(***************************************************************************)
(* Proofs about PaymentFulfillment, for any number of workers, any grace   *)
(* period and lease duration, and any number of faults.                    *)
(***************************************************************************)
EXTENDS PaymentFulfillment, TLAPS

\* A row just updated is younger than any deadline.
LEMMA ZeroAge == 0 \in 0..MaxAge
BY GraceAssumption, LeaseAssumption DEF MaxAge

\* Time passes within the bound.
LEMMA OlderAge == ASSUME NEW a \in 0..MaxAge, a < MaxAge
                  PROVE  a + 1 \in 0..MaxAge
BY GraceAssumption, LeaseAssumption DEF MaxAge

\* The fault budget starts unspent.
LEMMA ZeroFaults == 0 \in 0..MaxFaults
BY FaultsAssumption

-----------------------------------------------------------------------------
(* Type correctness *)

\* The row, the provider's view and the markers have their types initially.
LEMMA InitType == Init => TypeOK
<1>. SUFFICES ASSUME Init PROVE TypeOK
  OBVIOUS
<1>1. TypeOrder BY ZeroAge DEF Init, TypeOrder, Statuses, TradeNos
<1>2. TypeProvider BY DEF Init, TypeProvider
<1>3. TypeWorkers BY DEF Init, TypeWorkers, Steps, Jobs, TradeNos
<1>4. TypeMarkers BY DEF Init, TypeMarkers
<1>5. TypeEffects BY ZeroFaults DEF Init, TypeEffects
<1>. QED BY <1>1, <1>2, <1>3, <1>4, <1>5 DEF TypeOK

\* Starting a handler only moves the worker.
LEMMA BeginType ==
    ASSUME TypeOK, NEW w \in Workers, NEW step \in Steps, NEW kind \in Jobs,
           Begin(w, step, kind)
    PROVE  TypeOK'
<1>1. TypeWorkers'
  BY DEF Begin, TypeOK, TypeOrder, TypeWorkers, TradeNos
<1>2. TypeOrder' /\ TypeProvider'
  BY DEF Begin, TypeOK, TypeOrder, TypeProvider, orderVars, providerVars
<1>3. TypeMarkers' /\ TypeEffects'
  BY DEF Begin, TypeOK, TypeMarkers, TypeEffects, markerVars, effectVars
<1>. QED BY <1>1, <1>2, <1>3 DEF TypeOK

\* Every step keeps the types.
LEMMA NextType == TypeOK /\ [Next]_vars => TypeOK'
<1>. SUFFICES ASSUME TypeOK, [Next]_vars PROVE TypeOK'
  OBVIOUS
<1>. TypeOrder /\ TypeProvider /\ TypeWorkers /\ TypeMarkers /\ TypeEffects
  BY DEF TypeOK
<1>1. ASSUME Pay PROVE TypeOK'
  <2>1. TypeProvider' BY <1>1 DEF Pay, TypeProvider
  <2>2. TypeOrder' /\ TypeWorkers' /\ TypeMarkers' /\ TypeEffects' BY <1>1 DEF
            Pay, orderVars, TypeOrder, workerVars, TypeWorkers, markerVars,
            TypeMarkers, effectVars, TypeEffects
  <2>. QED BY <2>1, <2>2 DEF TypeOK
<1>2. ASSUME Tick PROVE TypeOK'
  <2>1. TypeOrder' BY <1>2, OlderAge DEF Tick, TypeOrder, Statuses, TradeNos
  <2>2. TypeProvider' /\ TypeWorkers' /\ TypeMarkers' /\ TypeEffects' BY <1>2
            DEF Tick, providerVars, TypeProvider, workerVars, TypeWorkers,
            markerVars, TypeMarkers, effectVars, TypeEffects
  <2>. QED BY <2>1, <2>2 DEF TypeOK
<1>3. ASSUME PassDeadline PROVE TypeOK'
  <2>1. TypeOrder' BY <1>3, ZeroAge DEF PassDeadline, TypeOrder, Statuses,
            TradeNos
  <2>2. TypeProvider' /\ TypeWorkers' /\ TypeMarkers' /\ TypeEffects' BY <1>3
            DEF PassDeadline, providerVars, TypeProvider, workerVars,
            TypeWorkers, markerVars, TypeMarkers, effectVars, TypeEffects
  <2>. QED BY <2>1, <2>2 DEF TypeOK
<1>4. ASSUME InvokeProvider PROVE TypeOK'
  <2>1. TypeProvider' BY <1>4 DEF InvokeProvider, TypeProvider
  <2>2. TypeOrder' /\ TypeWorkers' /\ TypeMarkers' /\ TypeEffects' BY <1>4 DEF
            InvokeProvider, orderVars, TypeOrder, workerVars, TypeWorkers,
            markerVars, TypeMarkers, effectVars, TypeEffects
  <2>. QED BY <2>1, <2>2 DEF TypeOK
<1>5. ASSUME SaveCreated PROVE TypeOK'
  <2>1. TypeOrder' BY <1>5, ZeroAge DEF SaveCreated, Touch, TypeOrder,
            Statuses, TradeNos
  <2>2. TypeProvider' BY <1>5 DEF SaveCreated, providerVars, TypeProvider
  <2>3. TypeWorkers' BY <1>5 DEF SaveCreated, Touch, TypeWorkers, Steps, Jobs,
            TradeNos, LeasedSteps
  <2>4. TypeMarkers' /\ TypeEffects' BY <1>5 DEF SaveCreated, markerVars,
            TypeMarkers, effectVars, TypeEffects
  <2>. QED BY <2>1, <2>2, <2>3, <2>4 DEF TypeOK
<1>6. ASSUME FailCreate PROVE TypeOK'
  <2>1. TypeOrder' BY <1>6, ZeroAge DEF FailCreate, Touch, TypeOrder, Statuses,
            TradeNos
  <2>2. TypeProvider' BY <1>6 DEF FailCreate, providerVars, TypeProvider
  <2>3. TypeWorkers' BY <1>6 DEF FailCreate, Touch, TypeWorkers, Steps, Jobs,
            TradeNos, LeasedSteps
  <2>4. TypeEffects' BY <1>6, FaultsAssumption DEF FailCreate, UseFault,
            effectVars, TypeEffects
  <2>5. TypeMarkers' BY <1>6 DEF FailCreate, markerVars, TypeMarkers
  <2>. QED BY <2>1, <2>2, <2>3, <2>4, <2>5 DEF TypeOK
<1>7. ASSUME CrashCreate PROVE TypeOK'
  <2>1. TypeProvider' BY <1>7 DEF CrashCreate, providerVars, TypeProvider
  <2>2. TypeEffects' BY <1>7, FaultsAssumption DEF CrashCreate, UseFault,
            effectVars, TypeEffects
  <2>3. TypeOrder' /\ TypeWorkers' /\ TypeMarkers' BY <1>7 DEF CrashCreate,
            orderVars, TypeOrder, workerVars, TypeWorkers, markerVars,
            TypeMarkers
  <2>. QED BY <2>1, <2>2, <2>3 DEF TypeOK
<1>8. ASSUME LoseWebhook PROVE TypeOK'
  <2>1. TypeProvider' BY <1>8 DEF LoseWebhook, TypeProvider
  <2>2. TypeEffects' BY <1>8, FaultsAssumption DEF LoseWebhook, UseFault,
            effectVars, TypeEffects
  <2>3. TypeOrder' /\ TypeWorkers' /\ TypeMarkers' BY <1>8 DEF LoseWebhook,
            orderVars, TypeOrder, workerVars, TypeWorkers, markerVars,
            TypeMarkers
  <2>. QED BY <2>1, <2>2, <2>3 DEF TypeOK
<1>9. ASSUME NEW w \in Workers, QueryPaid(w) PROVE TypeOK'
  <2>1. TypeProvider' BY <1>9 DEF QueryPaid, Return, TypeProvider
  <2>2. TypeWorkers' BY <1>9 DEF QueryPaid, Return, TypeWorkers, Steps, Jobs,
            TradeNos, LeasedSteps
  <2>3. TypeOrder' /\ TypeMarkers' /\ TypeEffects' BY <1>9 DEF QueryPaid,
            orderVars, TypeOrder, markerVars, TypeMarkers, effectVars,
            TypeEffects
  <2>. QED BY <2>1, <2>2, <2>3 DEF TypeOK
<1>10. ASSUME NEW w \in Workers, QueryUnpaid(w) PROVE TypeOK'
  <2>1. TypeProvider' BY <1>10 DEF QueryUnpaid, Return, TypeProvider
  <2>2. TypeWorkers' BY <1>10 DEF QueryUnpaid, Goto, Return, TypeWorkers,
            Steps, Jobs, TradeNos, LeasedSteps
  <2>3. TypeOrder' /\ TypeMarkers' /\ TypeEffects' BY <1>10 DEF QueryUnpaid,
            orderVars, TypeOrder, markerVars, TypeMarkers, effectVars,
            TypeEffects
  <2>. QED BY <2>1, <2>2, <2>3 DEF TypeOK
<1>11. ASSUME NEW w \in Workers, CloseUpstream(w) PROVE TypeOK'
  <2>1. TypeProvider' BY <1>11 DEF CloseUpstream, TypeProvider
  <2>2. TypeWorkers' BY <1>11 DEF CloseUpstream, Goto, TypeWorkers, Steps,
            Jobs, TradeNos, LeasedSteps
  <2>3. TypeOrder' /\ TypeMarkers' /\ TypeEffects' BY <1>11 DEF CloseUpstream,
            orderVars, TypeOrder, markerVars, TypeMarkers, effectVars,
            TypeEffects
  <2>. QED BY <2>1, <2>2, <2>3 DEF TypeOK
<1>12. ASSUME NEW w \in Workers, FinishCancel(w) PROVE TypeOK'
  <2>1. TypeOrder' BY <1>12, ZeroAge DEF FinishCancel, Touch, TypeOrder,
            Statuses, TradeNos
  <2>2. TypeProvider' BY <1>12 DEF FinishCancel, Return, TypeProvider
  <2>3. TypeWorkers' BY <1>12 DEF FinishCancel, Touch, Return, TypeWorkers,
            Steps, Jobs, TradeNos, LeasedSteps
  <2>4. TypeMarkers' /\ TypeEffects' BY <1>12 DEF FinishCancel, markerVars,
            TypeMarkers, effectVars, TypeEffects
  <2>. QED BY <2>1, <2>2, <2>3, <2>4 DEF TypeOK
<1>13. ASSUME NEW w \in Workers, PersistTradeNo(w) PROVE TypeOK'
  <2>1. TypeOrder' BY <1>13, ZeroAge DEF PersistTradeNo, Touch, TypeOrder,
            Statuses, TradeNos
  <2>2. TypeProvider' BY <1>13 DEF PersistTradeNo, Return, TypeProvider
  <2>3. TypeWorkers' BY <1>13 DEF PersistTradeNo, Touch, Return, TypeWorkers,
            Steps, Jobs, TradeNos, LeasedSteps
  <2>4. TypeMarkers' BY <1>13 DEF PersistTradeNo, markerVars, TypeMarkers
  <2>5. TypeEffects' BY <1>13, FaultsAssumption DEF PersistTradeNo, UseFault,
            effectVars, TypeEffects
  <2>. QED BY <2>1, <2>2, <2>3, <2>4, <2>5 DEF TypeOK
<1>14. ASSUME NEW w \in Workers, ToPaid(w) PROVE TypeOK'
  <2>1. TypeOrder'
    <3>1. status' \in Statuses /\ age' \in 0..MaxAge /\ paidAt' \in BOOLEAN
      BY <1>14, ZeroAge DEF ToPaid, Touch, Statuses
    <3>2. tradeNo' \in TradeNos
      BY <1>14 DEF ToPaid, TypeWorkers, TradeNos
    <3>3. orderType' = orderType /\ overdue' = overdue
      BY <1>14 DEF ToPaid
    <3>. QED BY <3>1, <3>2, <3>3 DEF TypeOrder
  <2>2. TypeWorkers' BY <1>14 DEF ToPaid, Touch, TypeWorkers, Steps, Jobs,
            TradeNos, LeasedSteps
  <2>3. UNCHANGED <<creator, providerVars, markerVars, effectVars, faults>>
    BY <1>14 DEF ToPaid
  <2>4. TypeProvider' /\ TypeMarkers' /\ TypeEffects'
    BY <2>3 DEF providerVars, markerVars, effectVars, TypeProvider,
            TypeMarkers, TypeEffects
  <2>. QED BY <2>1, <2>2, <2>4 DEF TypeOK
<1>15. ASSUME NEW w \in Workers, ToPaidMiss(w) PROVE TypeOK'
  <2>1. TypeWorkers' BY <1>15 DEF ToPaidMiss, TypeWorkers, Steps, Jobs,
            TradeNos, LeasedSteps
  <2>2. UNCHANGED <<orderVars, creator, providerVars, markerVars, effectVars,
                    faults>>
    BY <1>15 DEF ToPaidMiss
  <2>3. TypeOrder' /\ TypeProvider' /\ TypeMarkers' /\ TypeEffects'
    BY <2>2 DEF orderVars, providerVars, markerVars, effectVars, TypeOrder,
            TypeProvider, TypeMarkers, TypeEffects
  <2>. QED BY <2>1, <2>3 DEF TypeOK
<1>16. ASSUME NEW w \in Workers, AlreadyProcessed(w) PROVE TypeOK'
  <2>1. TypeProvider' BY <1>16 DEF AlreadyProcessed, Return, TypeProvider
  <2>2. TypeWorkers' BY <1>16 DEF AlreadyProcessed, Goto, Return, TypeWorkers,
            Steps, Jobs, TradeNos, LeasedSteps
  <2>3. TypeMarkers' BY <1>16 DEF AlreadyProcessed, TypeMarkers
  <2>4. TypeOrder' /\ TypeEffects' BY <1>16 DEF AlreadyProcessed, orderVars,
            TypeOrder, effectVars, TypeEffects
  <2>. QED BY <2>1, <2>2, <2>3, <2>4 DEF TypeOK
<1>17. ASSUME NEW w \in Workers, Execute(w) PROVE TypeOK'
  <2>1. TypeProvider' BY <1>17 DEF Execute, Return, TypeProvider
  <2>2. TypeWorkers' BY <1>17 DEF Execute, Goto, Return, TypeWorkers, Steps,
            Jobs, TradeNos, LeasedSteps
  <2>3. TypeOrder' /\ TypeMarkers' /\ TypeEffects' BY <1>17 DEF Execute,
            orderVars, TypeOrder, markerVars, TypeMarkers, effectVars,
            TypeEffects
  <2>. QED BY <2>1, <2>2, <2>3 DEF TypeOK
<1>18. ASSUME NEW w \in Workers, AcquireLease(w) PROVE TypeOK'
  <2>1. TypeOrder' BY <1>18, ZeroAge DEF AcquireLease, Touch, TypeOrder,
            Statuses, TradeNos
  <2>2. TypeWorkers' BY <1>18 DEF AcquireLease, Touch, Goto, TypeWorkers,
            Steps, Jobs, TradeNos, LeasedSteps
  <2>3. TypeProvider' /\ TypeMarkers' /\ TypeEffects' BY <1>18 DEF
            AcquireLease, providerVars, TypeProvider, markerVars, TypeMarkers,
            effectVars, TypeEffects
  <2>. QED BY <2>1, <2>2, <2>3 DEF TypeOK
<1>19. ASSUME NEW w \in Workers, AcquireMiss(w) PROVE TypeOK'
  <2>1. TypeProvider' BY <1>19 DEF AcquireMiss, Return, TypeProvider
  <2>2. TypeWorkers' BY <1>19 DEF AcquireMiss, Return, TypeWorkers, Steps,
            Jobs, TradeNos, LeasedSteps
  <2>3. TypeOrder' /\ TypeMarkers' /\ TypeEffects' BY <1>19 DEF AcquireMiss,
            orderVars, TypeOrder, markerVars, TypeMarkers, effectVars,
            TypeEffects
  <2>. QED BY <2>1, <2>2, <2>3 DEF TypeOK
<1>20. ASSUME NEW w \in Workers, ClaimLease(w) PROVE TypeOK'
  <2>1. TypeProvider' BY <1>20 DEF ClaimLease, Return, TypeProvider
  <2>2. TypeWorkers' BY <1>20 DEF ClaimLease, Goto, Return, TypeWorkers, Steps,
            Jobs, TradeNos, LeasedSteps
  <2>3. TypeOrder' /\ TypeMarkers' /\ TypeEffects' BY <1>20 DEF ClaimLease,
            orderVars, TypeOrder, markerVars, TypeMarkers, effectVars,
            TypeEffects
  <2>. QED BY <2>1, <2>2, <2>3 DEF TypeOK
<1>21. ASSUME NEW w \in Workers, LookupCode(w) PROVE TypeOK'
  <2>1. TypeWorkers'
    BY <1>21 DEF LookupCode, Goto, TypeMarkers, TypeWorkers, Steps, LeasedSteps
  <2>2. TypeOrder' /\ TypeProvider' /\ TypeMarkers' /\ TypeEffects' BY <1>21
            DEF LookupCode, orderVars, TypeOrder, providerVars, TypeProvider,
            markerVars, TypeMarkers, effectVars, TypeEffects
  <2>. QED BY <2>1, <2>2 DEF TypeOK
<1>22. ASSUME NEW w \in Workers, CreateCode(w) PROVE TypeOK'
  <2>1. TypeWorkers' BY <1>22 DEF CreateCode, Goto, TypeWorkers, Steps, Jobs,
            TradeNos, LeasedSteps
  <2>2. TypeMarkers' BY <1>22 DEF CreateCode, TypeMarkers
  <2>3. TypeOrder' /\ TypeProvider' /\ TypeEffects' BY <1>22 DEF CreateCode,
            orderVars, TypeOrder, providerVars, TypeProvider, effectVars,
            TypeEffects
  <2>. QED BY <2>1, <2>2, <2>3 DEF TypeOK
<1>23. ASSUME NEW w \in Workers, RedeemCode(w) PROVE TypeOK'
  <2>1. TypeWorkers' BY <1>23 DEF RedeemCode, Goto, TypeWorkers, Steps, Jobs,
            TradeNos, LeasedSteps
  <2>2. TypeMarkers' BY <1>23 DEF RedeemCode, TypeMarkers
  <2>3. TypeEffects' BY <1>23, FaultsAssumption DEF RedeemCode, UseFault,
            TypeEffects
  <2>4. TypeOrder' /\ TypeProvider' BY <1>23 DEF RedeemCode, orderVars,
            TypeOrder, providerVars, TypeProvider
  <2>. QED BY <2>1, <2>2, <2>3, <2>4 DEF TypeOK
<1>24. ASSUME NEW w \in Workers, CheckAssigned(w) PROVE TypeOK'
  <2>1. TypeWorkers' BY <1>24 DEF CheckAssigned, Goto, TypeWorkers, Steps,
            Jobs, TradeNos, LeasedSteps
  <2>2. TypeEffects' BY <1>24, FaultsAssumption DEF CheckAssigned, UseFault,
            effectVars, TypeEffects
  <2>3. TypeOrder' /\ TypeProvider' /\ TypeMarkers' BY <1>24 DEF CheckAssigned,
            orderVars, TypeOrder, providerVars, TypeProvider, markerVars,
            TypeMarkers
  <2>. QED BY <2>1, <2>2, <2>3 DEF TypeOK
<1>25. ASSUME NEW w \in Workers, AssignSubscription(w) PROVE TypeOK'
  <2>1. TypeWorkers' BY <1>25 DEF AssignSubscription, Goto, TypeWorkers, Steps,
            Jobs, TradeNos, LeasedSteps
  <2>2. TypeMarkers' BY <1>25 DEF AssignSubscription, TypeMarkers,
            AlreadyAssigned
  <2>3. TypeEffects' BY <1>25, FaultsAssumption DEF AssignSubscription,
            UseFault, TypeEffects
  <2>4. TypeOrder' /\ TypeProvider' BY <1>25 DEF AssignSubscription, orderVars,
            TypeOrder, providerVars, TypeProvider
  <2>. QED BY <2>1, <2>2, <2>3, <2>4 DEF TypeOK
<1>26. ASSUME NEW w \in Workers, ClaimRebate(w) PROVE TypeOK'
  <2>1. TypeWorkers' BY <1>26 DEF ClaimRebate, Goto, TypeWorkers, Steps, Jobs,
            TradeNos, LeasedSteps
  <2>2. TypeOrder' /\ TypeProvider' /\ TypeMarkers' /\ TypeEffects' BY <1>26
            DEF ClaimRebate, orderVars, TypeOrder, providerVars, TypeProvider,
            markerVars, TypeMarkers, effectVars, TypeEffects
  <2>. QED BY <2>1, <2>2 DEF TypeOK
<1>27. ASSUME NEW w \in Workers, SettleRebate(w) PROVE TypeOK'
  <2>1. TypeWorkers' BY <1>27 DEF SettleRebate, Goto, TypeWorkers, Steps, Jobs,
            TradeNos, LeasedSteps
  <2>2. TypeMarkers' BY <1>27 DEF SettleRebate, ResolveFirstRecharge, TypeMarkers
  <2>3. TypeEffects' BY <1>27 DEF SettleRebate, ResolveFirstRecharge, TypeEffects
  <2>4. TypeOrder' /\ TypeProvider' BY <1>27 DEF SettleRebate, orderVars,
            TypeOrder, providerVars, TypeProvider
  <2>. QED BY <2>1, <2>2, <2>3, <2>4 DEF TypeOK
<1>28. ASSUME NEW w \in Workers, MarkCompleted(w) PROVE TypeOK'
  <2>1. TypeOrder' BY <1>28, ZeroAge DEF MarkCompleted, Touch, TypeOrder,
            Statuses, TradeNos
  <2>2. TypeProvider' BY <1>28 DEF MarkCompleted, Return, TypeProvider
  <2>3. TypeWorkers' BY <1>28 DEF MarkCompleted, Touch, Goto, Return,
            TypeWorkers, Steps, Jobs, TradeNos, LeasedSteps
  <2>4. TypeMarkers' /\ TypeEffects' BY <1>28 DEF MarkCompleted, markerVars,
            TypeMarkers, effectVars, TypeEffects
  <2>. QED BY <2>1, <2>2, <2>3, <2>4 DEF TypeOK
<1>29. ASSUME NEW w \in Workers, Announce(w) PROVE TypeOK'
  <2>1. TypeProvider' BY <1>29 DEF Announce, Return, TypeProvider
  <2>2. TypeWorkers' BY <1>29 DEF Announce, Return, TypeWorkers, Steps, Jobs,
            TradeNos, LeasedSteps
  <2>3. TypeMarkers' BY <1>29 DEF Announce, TypeMarkers
  <2>4. TypeEffects' BY <1>29, FaultsAssumption DEF Announce, UseFault,
            TypeEffects
  <2>5. TypeOrder' BY <1>29 DEF Announce, orderVars, TypeOrder
  <2>. QED BY <2>1, <2>2, <2>3, <2>4, <2>5 DEF TypeOK
<1>30. ASSUME NEW w \in Workers, MarkFailed(w) PROVE TypeOK'
  <2>1. TypeOrder' BY <1>30, ZeroAge DEF MarkFailed, Touch, TypeOrder,
            Statuses, TradeNos
  <2>2. TypeProvider' BY <1>30 DEF MarkFailed, Return, TypeProvider
  <2>3. TypeWorkers' BY <1>30 DEF MarkFailed, Touch, Return, TypeWorkers,
            Steps, Jobs, TradeNos, LeasedSteps
  <2>4. TypeMarkers' /\ TypeEffects' BY <1>30 DEF MarkFailed, markerVars,
            TypeMarkers, effectVars, TypeEffects
  <2>. QED BY <2>1, <2>2, <2>3, <2>4 DEF TypeOK
<1>31. ASSUME NEW w \in Workers, QueryError(w) PROVE TypeOK'
  <2>1. TypeProvider' BY <1>31 DEF QueryError, Return, TypeProvider
  <2>2. TypeWorkers' BY <1>31 DEF QueryError, Goto, Return, TypeWorkers, Steps,
            Jobs, TradeNos, LeasedSteps
  <2>3. TypeEffects' BY <1>31, FaultsAssumption DEF QueryError, UseFault,
            effectVars, TypeEffects
  <2>4. TypeOrder' /\ TypeMarkers' BY <1>31 DEF QueryError, orderVars,
            TypeOrder, markerVars, TypeMarkers
  <2>. QED BY <2>1, <2>2, <2>3, <2>4 DEF TypeOK
<1>32. ASSUME NEW w \in Workers, StepFails(w) PROVE TypeOK'
  <2>1. TypeWorkers' BY <1>32 DEF StepFails, Goto, TypeWorkers, Steps, Jobs,
            TradeNos, LeasedSteps
  <2>2. TypeEffects' BY <1>32, FaultsAssumption DEF StepFails, UseFault,
            effectVars, TypeEffects
  <2>3. TypeOrder' /\ TypeProvider' /\ TypeMarkers' BY <1>32 DEF StepFails,
            orderVars, TypeOrder, providerVars, TypeProvider, markerVars,
            TypeMarkers
  <2>. QED BY <2>1, <2>2, <2>3 DEF TypeOK
<1>33. ASSUME NEW w \in Workers, StepAborts(w) PROVE TypeOK'
  <2>1. TypeProvider' BY <1>33 DEF StepAborts, Return, TypeProvider
  <2>2. TypeWorkers' BY <1>33 DEF StepAborts, Return, TypeWorkers, Steps, Jobs,
            TradeNos, LeasedSteps
  <2>3. TypeEffects' BY <1>33, FaultsAssumption DEF StepAborts, UseFault,
            effectVars, TypeEffects
  <2>4. TypeOrder' /\ TypeMarkers' BY <1>33 DEF StepAborts, orderVars,
            TypeOrder, markerVars, TypeMarkers
  <2>. QED BY <2>1, <2>2, <2>3, <2>4 DEF TypeOK
<1>34. ASSUME NEW w \in Workers, Crash(w) PROVE TypeOK'
  <2>1. TypeProvider' BY <1>34 DEF Crash, Return, TypeProvider
  <2>2. TypeWorkers' BY <1>34 DEF Crash, Return, TypeWorkers, Steps, Jobs,
            TradeNos, LeasedSteps
  <2>3. TypeEffects' BY <1>34, FaultsAssumption DEF Crash, UseFault,
            effectVars, TypeEffects
  <2>4. TypeOrder' /\ TypeMarkers' BY <1>34 DEF Crash, orderVars, TypeOrder,
            markerVars, TypeMarkers
  <2>. QED BY <2>1, <2>2, <2>3, <2>4 DEF TypeOK
<1>35. ASSUME NEW w \in Workers, Start(w) PROVE TypeOK'
  BY <1>35, BeginType
  DEF Start, DeliverWebhook, RetryFulfillment, CancelOrder, ExpireOrder,
      VerifyOrder, ReconcileOrder, Steps, Jobs
<1>36. CASE UNCHANGED vars
  <2>1. TypeOrder' /\ TypeProvider'
    BY <1>36 DEF vars, TypeOrder, TypeProvider, orderVars, providerVars
  <2>2. TypeWorkers' /\ TypeMarkers' /\ TypeEffects'
    BY <1>36 DEF vars, TypeWorkers, TypeMarkers, TypeEffects, workerVars,
            markerVars, effectVars
  <2>. QED BY <2>1, <2>2 DEF TypeOK
<1>. QED BY <1>1, <1>2, <1>3, <1>4, <1>5, <1>6, <1>7, <1>8, <1>9, <1>10, <1>11,
      <1>12, <1>13, <1>14, <1>15, <1>16, <1>17, <1>18, <1>19, <1>20, <1>21,
      <1>22, <1>23, <1>24, <1>25, <1>26, <1>27, <1>28, <1>29, <1>30, <1>31,
      <1>32, <1>33, <1>34, <1>35, <1>36 DEF Next, Upstream, Fulfill, Fault

\* Every reachable row, provider state and worker has its type; the statuses
\* are the ones payment_service.go lists and the fault budget is kept.
THEOREM TypeCorrect == Spec => []TypeOK
<1>. QED BY InitType, NextType, PTL DEF Spec

-----------------------------------------------------------------------------
(* Inductive invariants *)

\* Steps a worker only reaches once the payment was confirmed.
PaidSteps == LeasedSteps \cup
             {"toPaid", "already", "execute", "acquire", "claim", "announce",
              "fail"}

\* Steps a worker only reaches once the entitlement was delivered.
DeliveredSteps == {"rebateClaim", "rebateTx", "complete", "announce"}

\* Without a right payment nobody is past confirmPayment and nothing in the
\* database says the order was paid.
Backed ==
    \/ paid = "exact"
    \/ /\ \A w \in Workers : pc[w] \notin PaidSteps
       /\ ~paidAt /\ grants = 0
       /\ status \notin {"PAID", "RECHARGING", "COMPLETED"}

\* Before delivery no marker claims it, the order is not COMPLETED and no
\* worker is past the delivery step.
Delivered ==
    \/ grants > 0
    \/ /\ \A w \in Workers : pc[w] \notin DeliveredSteps
       /\ status # "COMPLETED" /\ code # "used"
       /\ ~note /\ ~assigned /\ ~success

\* The marker written in the delivering transaction counts the deliveries: the
\* used code for a balance order, the order note for a group order.
Counted ==
    /\ orderType = "balance" => grants = IF code = "used" THEN 1 ELSE 0
    /\ orderType = "group" => grants = IF note THEN 1 ELSE 0
    /\ \A w \in Workers :
        /\ pc[w] \in {"lookup", "create", "redeem"} => orderType = "balance"
        /\ pc[w] \in {"check", "assign"} => orderType # "balance"

\* Unless CreateOrder failed late, a completed order stays so and one worker,
\* the one that completed it, may send the e-mail.
Announcing ==
    \/ creator = "failed"
    \/ /\ emails = 0 \/ (emails = 1 /\ status = "COMPLETED")
       /\ \A w \in Workers : pc[w] = "announce" =>
            /\ status = "COMPLETED" /\ emails = 0
            /\ \A v \in Workers : pc[v] = "announce" => v = w

\* A row with paid_at left the states that can still be cancelled.
Confirmed == paidAt => status \notin {"PENDING", "CANCELLED", "EXPIRED"}

\* Only a payment of the right amount leads past confirmPayment.
LEMMA NextBacked == TypeOK /\ Backed /\ [Next]_vars => Backed'
<1>. SUFFICES ASSUME TypeOK, Backed, [Next]_vars PROVE Backed'
  OBVIOUS
<1>. pc \in [Workers -> Steps] /\ grants \in Nat
  BY DEF TypeOK, TypeWorkers, TypeEffects
<1>1. ASSUME Pay PROVE Backed'
  BY <1>1 DEF Pay, orderVars, workerVars, effectVars, Backed, PaidSteps,
      LeasedSteps
<1>2. ASSUME Tick PROVE Backed'
  BY <1>2 DEF Tick, providerVars, workerVars, effectVars, Backed, PaidSteps,
      LeasedSteps
<1>3. ASSUME PassDeadline PROVE Backed'
  BY <1>3 DEF PassDeadline, providerVars, workerVars, effectVars, Backed,
      PaidSteps, LeasedSteps
<1>4. ASSUME InvokeProvider PROVE Backed'
  BY <1>4 DEF InvokeProvider, orderVars, workerVars, effectVars, Backed,
      PaidSteps, LeasedSteps
<1>5. ASSUME SaveCreated PROVE Backed'
  BY <1>5 DEF SaveCreated, Touch, providerVars, effectVars, Backed, PaidSteps,
      LeasedSteps
<1>6. ASSUME FailCreate PROVE Backed'
  BY <1>6 DEF FailCreate, Touch, providerVars, effectVars, Backed, PaidSteps,
      LeasedSteps
<1>7. ASSUME CrashCreate PROVE Backed'
  BY <1>7 DEF CrashCreate, orderVars, providerVars, workerVars, effectVars,
      Backed, PaidSteps, LeasedSteps
<1>8. ASSUME LoseWebhook PROVE Backed'
  BY <1>8 DEF LoseWebhook, orderVars, workerVars, effectVars, Backed,
      PaidSteps, LeasedSteps
<1>9. ASSUME NEW w \in Workers, Start(w) PROVE Backed'
  BY <1>9 DEF Start, DeliverWebhook, RetryFulfillment, CancelOrder,
      ExpireOrder, VerifyOrder, ReconcileOrder, Begin, AmountMatches,
      orderVars, providerVars, effectVars, Backed, PaidSteps, LeasedSteps
<1>10. ASSUME NEW w \in Workers, QueryPaid(w) PROVE Backed'
  BY <1>10 DEF QueryPaid, Return, AmountMatches, orderVars, effectVars, Backed,
      PaidSteps, LeasedSteps
<1>11. ASSUME NEW w \in Workers, QueryUnpaid(w) PROVE Backed'
  BY <1>11 DEF QueryUnpaid, Goto, Return, orderVars, effectVars, Backed,
      PaidSteps, LeasedSteps
<1>12. ASSUME NEW w \in Workers, CloseUpstream(w) PROVE Backed'
  BY <1>12 DEF CloseUpstream, Goto, orderVars, effectVars, Backed, PaidSteps,
      LeasedSteps
<1>13. ASSUME NEW w \in Workers, FinishCancel(w) PROVE Backed'
  BY <1>13 DEF FinishCancel, Touch, Return, effectVars, Backed, PaidSteps,
      LeasedSteps
<1>14. ASSUME NEW w \in Workers, PersistTradeNo(w) PROVE Backed'
  BY <1>14 DEF PersistTradeNo, Touch, Return, AmountMatches, effectVars,
      Backed, PaidSteps, LeasedSteps
<1>15. ASSUME NEW w \in Workers, ToPaid(w) PROVE Backed'
  BY <1>15 DEF ToPaid, Touch, providerVars, effectVars, Backed, PaidSteps,
      LeasedSteps
<1>16. ASSUME NEW w \in Workers, ToPaidMiss(w) PROVE Backed'
  BY <1>16 DEF ToPaidMiss, orderVars, providerVars, effectVars, Backed,
      PaidSteps, LeasedSteps
<1>17. ASSUME NEW w \in Workers, AlreadyProcessed(w) PROVE Backed'
  BY <1>17 DEF AlreadyProcessed, Goto, Return, orderVars, effectVars, Backed,
      PaidSteps, LeasedSteps
<1>18. ASSUME NEW w \in Workers, Execute(w) PROVE Backed'
  BY <1>18 DEF Execute, Goto, Return, orderVars, effectVars, Backed, PaidSteps,
      LeasedSteps
<1>19. ASSUME NEW w \in Workers, AcquireLease(w) PROVE Backed'
  BY <1>19 DEF AcquireLease, Touch, Goto, providerVars, effectVars, Backed,
      PaidSteps, LeasedSteps
<1>20. ASSUME NEW w \in Workers, AcquireMiss(w) PROVE Backed'
  BY <1>20 DEF AcquireMiss, Return, orderVars, effectVars, Backed, PaidSteps,
      LeasedSteps
<1>21. ASSUME NEW w \in Workers, ClaimLease(w) PROVE Backed'
  BY <1>21 DEF ClaimLease, Goto, Return, orderVars, effectVars, Backed,
      PaidSteps, LeasedSteps
<1>22. ASSUME NEW w \in Workers, LookupCode(w) PROVE Backed'
  BY <1>22 DEF LookupCode, Goto, orderVars, providerVars, effectVars, Backed,
      PaidSteps, LeasedSteps
<1>23. ASSUME NEW w \in Workers, CreateCode(w) PROVE Backed'
  BY <1>23 DEF CreateCode, Goto, orderVars, providerVars, effectVars, Backed,
      PaidSteps, LeasedSteps
<1>24. ASSUME NEW w \in Workers, RedeemCode(w) PROVE Backed'
  BY <1>24 DEF RedeemCode, Goto, orderVars, providerVars, Backed, PaidSteps,
      LeasedSteps
<1>25. ASSUME NEW w \in Workers, CheckAssigned(w) PROVE Backed'
  BY <1>25 DEF CheckAssigned, Goto, orderVars, providerVars, effectVars,
      Backed, PaidSteps, LeasedSteps
<1>26. ASSUME NEW w \in Workers, AssignSubscription(w) PROVE Backed'
  BY <1>26 DEF AssignSubscription, Goto, orderVars, providerVars, Backed,
      PaidSteps, LeasedSteps
<1>27. ASSUME NEW w \in Workers, ClaimRebate(w) PROVE Backed'
  BY <1>27 DEF ClaimRebate, Goto, orderVars, providerVars, effectVars, Backed,
      PaidSteps, LeasedSteps
<1>28. ASSUME NEW w \in Workers, SettleRebate(w) PROVE Backed'
  BY <1>28 DEF SettleRebate, Goto, orderVars, providerVars, Backed, PaidSteps,
      LeasedSteps
<1>29. ASSUME NEW w \in Workers, MarkCompleted(w) PROVE Backed'
  BY <1>29 DEF MarkCompleted, Touch, Goto, Return, effectVars, Backed,
      PaidSteps, LeasedSteps
<1>30. ASSUME NEW w \in Workers, Announce(w) PROVE Backed'
  BY <1>30 DEF Announce, Return, orderVars, Backed, PaidSteps, LeasedSteps
<1>31. ASSUME NEW w \in Workers, MarkFailed(w) PROVE Backed'
  BY <1>31 DEF MarkFailed, Touch, Return, effectVars, Backed, PaidSteps,
      LeasedSteps
<1>32. ASSUME NEW w \in Workers, QueryError(w) PROVE Backed'
  BY <1>32 DEF QueryError, Goto, Return, orderVars, effectVars, Backed,
      PaidSteps, LeasedSteps
<1>33. ASSUME NEW w \in Workers, StepFails(w) PROVE Backed'
  BY <1>33 DEF StepFails, Goto, orderVars, providerVars, effectVars, Backed,
      PaidSteps, LeasedSteps
<1>34. ASSUME NEW w \in Workers, StepAborts(w) PROVE Backed'
  BY <1>34 DEF StepAborts, Return, orderVars, effectVars, Backed, PaidSteps,
      LeasedSteps
<1>35. ASSUME NEW w \in Workers, Crash(w) PROVE Backed'
  BY <1>35 DEF Crash, Return, orderVars, effectVars, Backed, PaidSteps,
      LeasedSteps
<1>36. CASE UNCHANGED vars
  BY <1>36 DEF vars, orderVars, providerVars, workerVars, effectVars, Backed,
      PaidSteps, LeasedSteps
<1>. QED BY <1>1, <1>2, <1>3, <1>4, <1>5, <1>6, <1>7, <1>8, <1>9, <1>10, <1>11,
      <1>12, <1>13, <1>14, <1>15, <1>16, <1>17, <1>18, <1>19, <1>20, <1>21,
      <1>22, <1>23, <1>24, <1>25, <1>26, <1>27, <1>28, <1>29, <1>30, <1>31,
      <1>32, <1>33, <1>34, <1>35, <1>36 DEF Next, Upstream, Fulfill, Fault

\* No step skips the delivery.
LEMMA NextDelivered == TypeOK /\ Delivered /\ [Next]_vars => Delivered'
<1>. SUFFICES ASSUME TypeOK, Delivered, [Next]_vars PROVE Delivered'
  OBVIOUS
<1>. pc \in [Workers -> Steps] /\ grants \in Nat
  BY DEF TypeOK, TypeWorkers, TypeEffects
<1>1. ASSUME Pay PROVE Delivered'
  BY <1>1 DEF Pay, orderVars, workerVars, markerVars, effectVars, Delivered,
      DeliveredSteps
<1>2. ASSUME Tick PROVE Delivered'
  BY <1>2 DEF Tick, workerVars, markerVars, effectVars, Delivered,
      DeliveredSteps
<1>3. ASSUME PassDeadline PROVE Delivered'
  BY <1>3 DEF PassDeadline, workerVars, markerVars, effectVars, Delivered,
      DeliveredSteps
<1>4. ASSUME InvokeProvider PROVE Delivered'
  BY <1>4 DEF InvokeProvider, orderVars, workerVars, markerVars, effectVars,
      Delivered, DeliveredSteps
<1>5. ASSUME SaveCreated PROVE Delivered'
  BY <1>5 DEF SaveCreated, Touch, markerVars, effectVars, Delivered,
      DeliveredSteps
<1>6. ASSUME FailCreate PROVE Delivered'
  BY <1>6 DEF FailCreate, Touch, markerVars, effectVars, Delivered,
      DeliveredSteps
<1>7. ASSUME CrashCreate PROVE Delivered'
  BY <1>7 DEF CrashCreate, orderVars, workerVars, markerVars, effectVars,
      Delivered, DeliveredSteps
<1>8. ASSUME LoseWebhook PROVE Delivered'
  BY <1>8 DEF LoseWebhook, orderVars, workerVars, markerVars, effectVars,
      Delivered, DeliveredSteps
<1>9. ASSUME NEW w \in Workers, Start(w) PROVE Delivered'
  BY <1>9 DEF Start, DeliverWebhook, RetryFulfillment, CancelOrder,
      ExpireOrder, VerifyOrder, ReconcileOrder, Begin, orderVars, markerVars,
      effectVars, Delivered, DeliveredSteps
<1>10. ASSUME NEW w \in Workers, QueryPaid(w) PROVE Delivered'
  BY <1>10 DEF QueryPaid, Return, orderVars, markerVars, effectVars, Delivered,
      DeliveredSteps
<1>11. ASSUME NEW w \in Workers, QueryUnpaid(w) PROVE Delivered'
  BY <1>11 DEF QueryUnpaid, Goto, Return, orderVars, markerVars, effectVars,
      Delivered, DeliveredSteps
<1>12. ASSUME NEW w \in Workers, CloseUpstream(w) PROVE Delivered'
  BY <1>12 DEF CloseUpstream, Goto, orderVars, markerVars, effectVars,
      Delivered, DeliveredSteps
<1>13. ASSUME NEW w \in Workers, FinishCancel(w) PROVE Delivered'
  BY <1>13 DEF FinishCancel, Touch, Return, markerVars, effectVars, Delivered,
      DeliveredSteps
<1>14. ASSUME NEW w \in Workers, PersistTradeNo(w) PROVE Delivered'
  BY <1>14 DEF PersistTradeNo, Touch, Return, markerVars, effectVars,
      Delivered, DeliveredSteps
<1>15. ASSUME NEW w \in Workers, ToPaid(w) PROVE Delivered'
  BY <1>15 DEF ToPaid, Touch, markerVars, effectVars, Delivered, DeliveredSteps
<1>16. ASSUME NEW w \in Workers, ToPaidMiss(w) PROVE Delivered'
  BY <1>16 DEF ToPaidMiss, orderVars, markerVars, effectVars, Delivered,
      DeliveredSteps
<1>17. ASSUME NEW w \in Workers, AlreadyProcessed(w) PROVE Delivered'
  BY <1>17 DEF AlreadyProcessed, Goto, Return, orderVars, effectVars,
      Delivered, DeliveredSteps
<1>18. ASSUME NEW w \in Workers, Execute(w) PROVE Delivered'
  BY <1>18 DEF Execute, Goto, Return, orderVars, markerVars, effectVars,
      Delivered, DeliveredSteps
<1>19. ASSUME NEW w \in Workers, AcquireLease(w) PROVE Delivered'
  BY <1>19 DEF AcquireLease, Touch, Goto, markerVars, effectVars, Delivered,
      DeliveredSteps
<1>20. ASSUME NEW w \in Workers, AcquireMiss(w) PROVE Delivered'
  BY <1>20 DEF AcquireMiss, Return, orderVars, markerVars, effectVars,
      Delivered, DeliveredSteps
<1>21. ASSUME NEW w \in Workers, ClaimLease(w) PROVE Delivered'
  BY <1>21 DEF ClaimLease, Goto, Return, orderVars, markerVars, effectVars,
      Delivered, DeliveredSteps
<1>22. ASSUME NEW w \in Workers, LookupCode(w) PROVE Delivered'
  <2>1. code \in {"none", "unused", "used"}
    BY DEF TypeOK, TypeMarkers
  <2>. QED BY <1>22, <2>1 DEF LookupCode, Goto, orderVars, markerVars,
              effectVars, Delivered, DeliveredSteps
<1>23. ASSUME NEW w \in Workers, CreateCode(w) PROVE Delivered'
  BY <1>23 DEF CreateCode, Goto, orderVars, effectVars, Delivered,
      DeliveredSteps
<1>24. ASSUME NEW w \in Workers, RedeemCode(w) PROVE Delivered'
  BY <1>24 DEF RedeemCode, Goto, orderVars, Delivered, DeliveredSteps
<1>25. ASSUME NEW w \in Workers, CheckAssigned(w) PROVE Delivered'
  BY <1>25 DEF CheckAssigned, Goto, orderVars, markerVars, effectVars,
      Delivered, DeliveredSteps
<1>26. ASSUME NEW w \in Workers, AssignSubscription(w) PROVE Delivered'
  BY <1>26 DEF AssignSubscription, Goto, AlreadyAssigned, orderVars, Delivered,
      DeliveredSteps
<1>27. ASSUME NEW w \in Workers, ClaimRebate(w) PROVE Delivered'
  BY <1>27 DEF ClaimRebate, Goto, orderVars, markerVars, effectVars, Delivered,
      DeliveredSteps
<1>28. ASSUME NEW w \in Workers, SettleRebate(w) PROVE Delivered'
  BY <1>28 DEF SettleRebate, Goto, orderVars, Delivered, DeliveredSteps
<1>29. ASSUME NEW w \in Workers, MarkCompleted(w) PROVE Delivered'
  BY <1>29 DEF MarkCompleted, Touch, Goto, Return, markerVars, effectVars,
      Delivered, DeliveredSteps
<1>30. ASSUME NEW w \in Workers, Announce(w) PROVE Delivered'
  BY <1>30 DEF Announce, Return, orderVars, Delivered, DeliveredSteps
<1>31. ASSUME NEW w \in Workers, MarkFailed(w) PROVE Delivered'
  BY <1>31 DEF MarkFailed, Touch, Return, markerVars, effectVars, Delivered,
      DeliveredSteps
<1>32. ASSUME NEW w \in Workers, QueryError(w) PROVE Delivered'
  BY <1>32 DEF QueryError, Goto, Return, orderVars, markerVars, effectVars,
      Delivered, DeliveredSteps
<1>33. ASSUME NEW w \in Workers, StepFails(w) PROVE Delivered'
  BY <1>33 DEF StepFails, Goto, orderVars, markerVars, effectVars, Delivered,
      DeliveredSteps, LeasedSteps
<1>34. ASSUME NEW w \in Workers, StepAborts(w) PROVE Delivered'
  BY <1>34 DEF StepAborts, Return, orderVars, markerVars, effectVars,
      Delivered, DeliveredSteps
<1>35. ASSUME NEW w \in Workers, Crash(w) PROVE Delivered'
  BY <1>35 DEF Crash, Return, orderVars, markerVars, effectVars, Delivered,
      DeliveredSteps
<1>36. CASE UNCHANGED vars
  BY <1>36 DEF vars, orderVars, workerVars, markerVars, effectVars, Delivered,
      DeliveredSteps
<1>. QED BY <1>1, <1>2, <1>3, <1>4, <1>5, <1>6, <1>7, <1>8, <1>9, <1>10, <1>11,
      <1>12, <1>13, <1>14, <1>15, <1>16, <1>17, <1>18, <1>19, <1>20, <1>21,
      <1>22, <1>23, <1>24, <1>25, <1>26, <1>27, <1>28, <1>29, <1>30, <1>31,
      <1>32, <1>33, <1>34, <1>35, <1>36 DEF Next, Upstream, Fulfill, Fault

\* Every delivery writes its marker, and none happens with the marker there.
LEMMA NextCounted == TypeOK /\ Delivered /\ Counted /\ [Next]_vars => Counted'
<1>. SUFFICES ASSUME TypeOK, Delivered, Counted, [Next]_vars PROVE Counted'
  OBVIOUS
<1>. pc \in [Workers -> Steps]
  BY DEF TypeOK, TypeWorkers
<1>1. ASSUME Pay PROVE Counted'
  BY <1>1 DEF Pay, orderVars, workerVars, markerVars, effectVars, Counted
<1>2. ASSUME Tick PROVE Counted'
  BY <1>2 DEF Tick, workerVars, markerVars, effectVars, Counted
<1>3. ASSUME PassDeadline PROVE Counted'
  BY <1>3 DEF PassDeadline, workerVars, markerVars, effectVars, Counted
<1>4. ASSUME InvokeProvider PROVE Counted'
  BY <1>4 DEF InvokeProvider, orderVars, workerVars, markerVars, effectVars,
      Counted
<1>5. ASSUME SaveCreated PROVE Counted'
  BY <1>5 DEF SaveCreated, markerVars, effectVars, Counted
<1>6. ASSUME FailCreate PROVE Counted'
  BY <1>6 DEF FailCreate, markerVars, effectVars, Counted
<1>7. ASSUME CrashCreate PROVE Counted'
  BY <1>7 DEF CrashCreate, orderVars, workerVars, markerVars, effectVars,
      Counted
<1>8. ASSUME LoseWebhook PROVE Counted'
  BY <1>8 DEF LoseWebhook, orderVars, workerVars, markerVars, effectVars,
      Counted
<1>9. ASSUME NEW w \in Workers, Start(w) PROVE Counted'
  <2>1. PICK step \in {"toPaid", "execute", "query"}, kind \in Jobs :
               Begin(w, step, kind)
    BY <1>9 DEF Start, DeliverWebhook, RetryFulfillment, CancelOrder,
            ExpireOrder, VerifyOrder, ReconcileOrder, Jobs
  <2>. QED BY <2>1 DEF Begin, orderVars, markerVars, effectVars, Counted
<1>10. ASSUME NEW w \in Workers, QueryPaid(w) PROVE Counted'
  BY <1>10 DEF QueryPaid, Return, orderVars, markerVars, effectVars, Counted
<1>11. ASSUME NEW w \in Workers, QueryUnpaid(w) PROVE Counted'
  BY <1>11 DEF QueryUnpaid, Goto, Return, orderVars, markerVars, effectVars,
      Counted
<1>12. ASSUME NEW w \in Workers, CloseUpstream(w) PROVE Counted'
  BY <1>12 DEF CloseUpstream, Goto, orderVars, markerVars, effectVars, Counted
<1>13. ASSUME NEW w \in Workers, FinishCancel(w) PROVE Counted'
  BY <1>13 DEF FinishCancel, Return, markerVars, effectVars, Counted
<1>14. ASSUME NEW w \in Workers, PersistTradeNo(w) PROVE Counted'
  BY <1>14 DEF PersistTradeNo, Return, markerVars, effectVars, Counted
<1>15. ASSUME NEW w \in Workers, ToPaid(w) PROVE Counted'
  BY <1>15 DEF ToPaid, markerVars, effectVars, Counted
<1>16. ASSUME NEW w \in Workers, ToPaidMiss(w) PROVE Counted'
  BY <1>16 DEF ToPaidMiss, orderVars, markerVars, effectVars, Counted
<1>17. ASSUME NEW w \in Workers, AlreadyProcessed(w) PROVE Counted'
  BY <1>17 DEF AlreadyProcessed, Goto, Return, orderVars, effectVars, Counted
<1>18. ASSUME NEW w \in Workers, Execute(w) PROVE Counted'
  BY <1>18 DEF Execute, Goto, Return, orderVars, markerVars, effectVars,
      Counted
<1>19. ASSUME NEW w \in Workers, AcquireLease(w) PROVE Counted'
  BY <1>19 DEF AcquireLease, Goto, markerVars, effectVars, Counted
<1>20. ASSUME NEW w \in Workers, AcquireMiss(w) PROVE Counted'
  BY <1>20 DEF AcquireMiss, Return, orderVars, markerVars, effectVars, Counted
<1>21. ASSUME NEW w \in Workers, ClaimLease(w) PROVE Counted'
  BY <1>21 DEF ClaimLease, Goto, Return, orderVars, markerVars, effectVars,
      Counted
<1>22. ASSUME NEW w \in Workers, LookupCode(w) PROVE Counted'
  <2>1. code \in {"none", "unused", "used"}
    BY DEF TypeOK, TypeMarkers
  <2>. QED BY <1>22, <2>1 DEF LookupCode, Goto, orderVars, markerVars,
              effectVars, Counted
<1>23. ASSUME NEW w \in Workers, CreateCode(w) PROVE Counted'
  BY <1>23 DEF CreateCode, Goto, orderVars, effectVars, Counted
<1>24. ASSUME NEW w \in Workers, RedeemCode(w) PROVE Counted'
  BY <1>24 DEF RedeemCode, Goto, orderVars, Counted
<1>25. ASSUME NEW w \in Workers, CheckAssigned(w) PROVE Counted'
  BY <1>25 DEF CheckAssigned, Goto, orderVars, markerVars, effectVars, Counted
<1>26. ASSUME NEW w \in Workers, AssignSubscription(w) PROVE Counted'
  <2>1. orderType' = orderType /\ code' = code
    BY <1>26 DEF AssignSubscription, orderVars
  <2>2. orderType # "balance"
    BY <1>26 DEF AssignSubscription, Counted
  <2>3. \A v \in Workers : pc'[v] = pc[v] \/ pc'[v] \in {"rebateClaim", "fail"}
    BY <1>26 DEF AssignSubscription, Goto
  <2>4. ASSUME orderType = "group" PROVE grants' = IF note' THEN 1 ELSE 0
    <3>1. CASE AlreadyAssigned
      <4>1. grants' = grants /\ note' = note
        BY <1>26, <3>1 DEF AssignSubscription, TypeOK, TypeMarkers
      <4>. QED BY <2>4, <4>1 DEF Counted
    <3>2. CASE ~AlreadyAssigned
      <4>1. grants' = grants + 1 /\ note'
        BY <1>26, <3>2 DEF AssignSubscription
      <4>2. ~note
        BY <2>4, <3>2 DEF AlreadyAssigned
      <4>. QED BY <2>4, <4>1, <4>2 DEF Counted
    <3>. QED BY <3>1, <3>2
  <2>. QED BY <2>1, <2>2, <2>3, <2>4 DEF Counted
<1>27. ASSUME NEW w \in Workers, ClaimRebate(w) PROVE Counted'
  BY <1>27 DEF ClaimRebate, Goto, orderVars, markerVars, effectVars, Counted
<1>28. ASSUME NEW w \in Workers, SettleRebate(w) PROVE Counted'
  BY <1>28 DEF SettleRebate, Goto, orderVars, Counted
<1>29. ASSUME NEW w \in Workers, MarkCompleted(w) PROVE Counted'
  BY <1>29 DEF MarkCompleted, Goto, Return, markerVars, effectVars, Counted
<1>30. ASSUME NEW w \in Workers, Announce(w) PROVE Counted'
  BY <1>30 DEF Announce, Return, orderVars, Counted
<1>31. ASSUME NEW w \in Workers, MarkFailed(w) PROVE Counted'
  BY <1>31 DEF MarkFailed, Return, markerVars, effectVars, Counted
<1>32. ASSUME NEW w \in Workers, QueryError(w) PROVE Counted'
  BY <1>32 DEF QueryError, Goto, Return, orderVars, markerVars, effectVars,
      Counted
<1>33. ASSUME NEW w \in Workers, StepFails(w) PROVE Counted'
  BY <1>33 DEF StepFails, Goto, orderVars, markerVars, effectVars, Counted,
      LeasedSteps
<1>34. ASSUME NEW w \in Workers, StepAborts(w) PROVE Counted'
  BY <1>34 DEF StepAborts, Return, orderVars, markerVars, effectVars, Counted
<1>35. ASSUME NEW w \in Workers, Crash(w) PROVE Counted'
  BY <1>35 DEF Crash, Return, orderVars, markerVars, effectVars, Counted
<1>36. CASE UNCHANGED vars
  BY <1>36 DEF vars, orderVars, workerVars, markerVars, effectVars, Counted
<1>. QED BY <1>1, <1>2, <1>3, <1>4, <1>5, <1>6, <1>7, <1>8, <1>9, <1>10, <1>11,
      <1>12, <1>13, <1>14, <1>15, <1>16, <1>17, <1>18, <1>19, <1>20, <1>21,
      <1>22, <1>23, <1>24, <1>25, <1>26, <1>27, <1>28, <1>29, <1>30, <1>31,
      <1>32, <1>33, <1>34, <1>35, <1>36 DEF Next, Upstream, Fulfill, Fault

\* COMPLETED is entered once.
LEMMA NextAnnouncing == TypeOK /\ Announcing /\ [Next]_vars => Announcing'
<1>. SUFFICES ASSUME TypeOK, Announcing, [Next]_vars PROVE Announcing'
  OBVIOUS
<1>. pc \in [Workers -> Steps]
  BY DEF TypeOK, TypeWorkers
<1>1. ASSUME Pay PROVE Announcing'
  BY <1>1 DEF Pay, orderVars, workerVars, effectVars, Announcing
<1>2. ASSUME Tick PROVE Announcing'
  BY <1>2 DEF Tick, workerVars, effectVars, Announcing
<1>3. ASSUME PassDeadline PROVE Announcing'
  BY <1>3 DEF PassDeadline, workerVars, effectVars, Announcing
<1>4. ASSUME InvokeProvider PROVE Announcing'
  BY <1>4 DEF InvokeProvider, orderVars, workerVars, effectVars, Announcing
<1>5. ASSUME SaveCreated PROVE Announcing'
  BY <1>5 DEF SaveCreated, Touch, effectVars, Announcing
<1>6. ASSUME FailCreate PROVE Announcing'
  BY <1>6 DEF FailCreate, Touch, effectVars, Announcing
<1>7. ASSUME CrashCreate PROVE Announcing'
  BY <1>7 DEF CrashCreate, orderVars, workerVars, effectVars, Announcing
<1>8. ASSUME LoseWebhook PROVE Announcing'
  BY <1>8 DEF LoseWebhook, orderVars, workerVars, effectVars, Announcing
<1>9. ASSUME NEW w \in Workers, Start(w) PROVE Announcing'
  BY <1>9 DEF Start, DeliverWebhook, RetryFulfillment, CancelOrder,
      ExpireOrder, VerifyOrder, ReconcileOrder, Begin, orderVars, effectVars,
      Announcing
<1>10. ASSUME NEW w \in Workers, QueryPaid(w) PROVE Announcing'
  BY <1>10 DEF QueryPaid, Return, orderVars, effectVars, Announcing
<1>11. ASSUME NEW w \in Workers, QueryUnpaid(w) PROVE Announcing'
  BY <1>11 DEF QueryUnpaid, Goto, Return, orderVars, effectVars, Announcing
<1>12. ASSUME NEW w \in Workers, CloseUpstream(w) PROVE Announcing'
  BY <1>12 DEF CloseUpstream, Goto, orderVars, effectVars, Announcing
<1>13. ASSUME NEW w \in Workers, FinishCancel(w) PROVE Announcing'
  BY <1>13 DEF FinishCancel, Cancellable, Touch, Return, effectVars, Announcing
<1>14. ASSUME NEW w \in Workers, PersistTradeNo(w) PROVE Announcing'
  BY <1>14 DEF PersistTradeNo, Touch, Return, effectVars, Announcing
<1>15. ASSUME NEW w \in Workers, ToPaid(w) PROVE Announcing'
  BY <1>15 DEF ToPaid, Touch, Payable, effectVars, Announcing
<1>16. ASSUME NEW w \in Workers, ToPaidMiss(w) PROVE Announcing'
  BY <1>16 DEF ToPaidMiss, Payable, orderVars, effectVars, Announcing
<1>17. ASSUME NEW w \in Workers, AlreadyProcessed(w) PROVE Announcing'
  BY <1>17 DEF AlreadyProcessed, Goto, Return, orderVars, effectVars,
      Announcing
<1>18. ASSUME NEW w \in Workers, Execute(w) PROVE Announcing'
  BY <1>18 DEF Execute, Goto, Return, orderVars, effectVars, Announcing
<1>19. ASSUME NEW w \in Workers, AcquireLease(w) PROVE Announcing'
  BY <1>19 DEF AcquireLease, Touch, Goto, LeaseFree, effectVars, Announcing
<1>20. ASSUME NEW w \in Workers, AcquireMiss(w) PROVE Announcing'
  BY <1>20 DEF AcquireMiss, Return, LeaseFree, orderVars, effectVars,
      Announcing
<1>21. ASSUME NEW w \in Workers, ClaimLease(w) PROVE Announcing'
  BY <1>21 DEF ClaimLease, Goto, Return, orderVars, effectVars, Announcing
<1>22. ASSUME NEW w \in Workers, LookupCode(w) PROVE Announcing'
  <2>1. code \in {"none", "unused", "used"}
    BY DEF TypeOK, TypeMarkers
  <2>. QED BY <1>22, <2>1 DEF LookupCode, Goto, orderVars, effectVars,
              Announcing
<1>23. ASSUME NEW w \in Workers, CreateCode(w) PROVE Announcing'
  BY <1>23 DEF CreateCode, Goto, orderVars, effectVars, Announcing
<1>24. ASSUME NEW w \in Workers, RedeemCode(w) PROVE Announcing'
  BY <1>24 DEF RedeemCode, Goto, orderVars, Announcing
<1>25. ASSUME NEW w \in Workers, CheckAssigned(w) PROVE Announcing'
  BY <1>25 DEF CheckAssigned, Goto, orderVars, effectVars, Announcing
<1>26. ASSUME NEW w \in Workers, AssignSubscription(w) PROVE Announcing'
  BY <1>26 DEF AssignSubscription, Goto, orderVars, Announcing
<1>27. ASSUME NEW w \in Workers, ClaimRebate(w) PROVE Announcing'
  BY <1>27 DEF ClaimRebate, Goto, orderVars, effectVars, Announcing
<1>28. ASSUME NEW w \in Workers, SettleRebate(w) PROVE Announcing'
  BY <1>28 DEF SettleRebate, Goto, orderVars, Announcing
<1>29. ASSUME NEW w \in Workers, MarkCompleted(w) PROVE Announcing'
  BY <1>29 DEF MarkCompleted, Touch, Goto, Return, HoldsLease, effectVars,
      Announcing
<1>30. ASSUME NEW w \in Workers, Announce(w) PROVE Announcing'
  <2>1. status' = status /\ creator' = creator
    BY <1>30 DEF Announce, orderVars
  <2>2. emails' = emails \/ emails' = emails + 1
    BY <1>30 DEF Announce
  <2>3. CASE creator = "failed"
    BY <2>1, <2>3 DEF Announcing
  <2>4. CASE creator # "failed"
    <3>1. status = "COMPLETED" /\ emails = 0
      BY <1>30, <2>4 DEF Announce, Announcing
    <3>2. \A v \in Workers : pc'[v] # "announce"
      BY <1>30, <2>4 DEF Announce, Return, Announcing
    <3>. QED BY <2>1, <2>2, <3>1, <3>2 DEF Announcing
  <2>. QED BY <2>3, <2>4
<1>31. ASSUME NEW w \in Workers, MarkFailed(w) PROVE Announcing'
  BY <1>31 DEF MarkFailed, Touch, Return, HoldsLease, effectVars, Announcing
<1>32. ASSUME NEW w \in Workers, QueryError(w) PROVE Announcing'
  BY <1>32 DEF QueryError, Goto, Return, orderVars, effectVars, Announcing
<1>33. ASSUME NEW w \in Workers, StepFails(w) PROVE Announcing'
  BY <1>33 DEF StepFails, Goto, orderVars, effectVars, Announcing, LeasedSteps
<1>34. ASSUME NEW w \in Workers, StepAborts(w) PROVE Announcing'
  BY <1>34 DEF StepAborts, Return, orderVars, effectVars, Announcing
<1>35. ASSUME NEW w \in Workers, Crash(w) PROVE Announcing'
  BY <1>35 DEF Crash, Return, orderVars, effectVars, Announcing
<1>36. CASE UNCHANGED vars
  BY <1>36 DEF vars, orderVars, workerVars, effectVars, Announcing
<1>. QED BY <1>1, <1>2, <1>3, <1>4, <1>5, <1>6, <1>7, <1>8, <1>9, <1>10, <1>11,
      <1>12, <1>13, <1>14, <1>15, <1>16, <1>17, <1>18, <1>19, <1>20, <1>21,
      <1>22, <1>23, <1>24, <1>25, <1>26, <1>27, <1>28, <1>29, <1>30, <1>31,
      <1>32, <1>33, <1>34, <1>35, <1>36 DEF Next, Upstream, Fulfill, Fault

-----------------------------------------------------------------------------
(* Which actions write what *)

\* The status and paid_at are written by six statements only; each of them but
\* CreateOrder's tests the status first.
LEMMA RowWriters ==
    ASSUME [Next]_vars
    PROVE  \/ UNCHANGED <<status, paidAt>>
           \/ FailCreate
           \/ \E w \in Workers :
                \/ FinishCancel(w) \/ ToPaid(w) \/ AcquireLease(w)
                \/ MarkCompleted(w) \/ MarkFailed(w)
<1>1. ASSUME NEW w \in Workers, Start(w) PROVE UNCHANGED <<status, paidAt>>
  BY <1>1 DEF Start, DeliverWebhook, RetryFulfillment, CancelOrder, ExpireOrder,
       VerifyOrder, ReconcileOrder, Begin, orderVars
<1>2. ASSUME NEW w \in Workers, Upstream(w), ~FinishCancel(w)
      PROVE  UNCHANGED <<status, paidAt>>
  BY <1>2 DEF Upstream, QueryPaid, QueryUnpaid, CloseUpstream, PersistTradeNo,
       Touch, orderVars
<1>3. ASSUME NEW w \in Workers, Fulfill(w), ~ToPaid(w), ~AcquireLease(w),
             ~MarkCompleted(w), ~MarkFailed(w)
      PROVE  UNCHANGED <<status, paidAt>>
  BY <1>3 DEF Fulfill, ToPaidMiss, AlreadyProcessed, Execute, AcquireMiss,
       ClaimLease, LookupCode, CreateCode, RedeemCode, CheckAssigned,
       AssignSubscription, ClaimRebate, SettleRebate, Announce, orderVars
<1>4. ASSUME NEW w \in Workers, Fault(w) PROVE UNCHANGED <<status, paidAt>>
  BY <1>4 DEF Fault, QueryError, StepFails, StepAborts, Crash, orderVars
<1>5. ASSUME \/ Pay \/ Tick \/ PassDeadline \/ InvokeProvider \/ SaveCreated
             \/ CrashCreate \/ LoseWebhook \/ UNCHANGED vars
      PROVE  UNCHANGED <<status, paidAt>>
  BY <1>5 DEF Pay, Tick, PassDeadline, InvokeProvider, SaveCreated, CrashCreate,
       LoseWebhook, Touch, vars, orderVars
<1>6. ASSUME NEW w \in Workers, Upstream(w) \/ Fulfill(w)
      PROVE  \/ UNCHANGED <<status, paidAt>>
             \/ FinishCancel(w) \/ ToPaid(w) \/ AcquireLease(w)
             \/ MarkCompleted(w) \/ MarkFailed(w)
  BY <1>2, <1>3, <1>6
<1>. QED BY <1>1, <1>4, <1>5, <1>6 DEF Next

\* The relationship is settled, and the reward paid, by SettleRebate only.
LEMMA RewardWriters ==
    ASSUME [Next]_vars
    PROVE  \/ UNCHANGED <<relation, rewards>>
           \/ \E w \in Workers : SettleRebate(w)
<1>1. ASSUME NEW w \in Workers, Start(w) PROVE UNCHANGED <<relation, rewards>>
  BY <1>1 DEF Start, DeliverWebhook, RetryFulfillment, CancelOrder, ExpireOrder,
       VerifyOrder, ReconcileOrder, Begin, markerVars, effectVars
<1>2. ASSUME NEW w \in Workers, Upstream(w) \/ Fault(w)
      PROVE  UNCHANGED <<relation, rewards>>
  BY <1>2 DEF Upstream, Fault, QueryPaid, QueryUnpaid, CloseUpstream,
       FinishCancel, PersistTradeNo, QueryError, StepFails, StepAborts, Crash,
       markerVars, effectVars
<1>3. ASSUME NEW w \in Workers, Fulfill(w), ~SettleRebate(w)
      PROVE  UNCHANGED <<relation, rewards>>
  BY <1>3 DEF Fulfill, ToPaid, ToPaidMiss, AlreadyProcessed, Execute,
       AcquireLease, AcquireMiss, ClaimLease, LookupCode, CreateCode,
       RedeemCode, CheckAssigned, AssignSubscription, ClaimRebate,
       MarkCompleted, Announce, MarkFailed, markerVars, effectVars
<1>4. ASSUME \/ Pay \/ Tick \/ PassDeadline \/ InvokeProvider \/ SaveCreated
             \/ FailCreate \/ CrashCreate \/ LoseWebhook \/ UNCHANGED vars
      PROVE  UNCHANGED <<relation, rewards>>
  BY <1>4 DEF Pay, Tick, PassDeadline, InvokeProvider, SaveCreated, FailCreate,
       CrashCreate, LoseWebhook, vars, markerVars, effectVars
<1>. QED BY <1>1, <1>2, <1>3, <1>4 DEF Next

-----------------------------------------------------------------------------
(* Theorems *)

\* All four hold of a new order.
LEMMA InitInvariants == Init => Backed /\ Delivered /\ Counted /\ Announcing
<1>. SUFFICES ASSUME Init PROVE Backed /\ Delivered /\ Counted /\ Announcing
  OBVIOUS
<1>1. Backed BY DEF Init, Backed, PaidSteps, LeasedSteps
<1>2. Delivered BY DEF Init, Delivered, DeliveredSteps
<1>3. Counted BY DEF Init, Counted
<1>4. Announcing BY DEF Init, Announcing
<1>. QED BY <1>1, <1>2, <1>3, <1>4

\* COMPLETED is only ever shown for an order that was delivered, and delivery
\* only follows a payment of the right amount, whatever the workers do.
THEOREM CompletionIsBacked == Spec => []CompletedMeansDelivered
<1>1. Init => TypeOK /\ Backed /\ Delivered
  BY InitType, InitInvariants
<1>2. TypeOK /\ Backed /\ Delivered /\ [Next]_vars
        => (TypeOK /\ Backed /\ Delivered)'
  BY NextType, NextBacked, NextDelivered
<1>3. TypeOK /\ Backed /\ Delivered => CompletedMeansDelivered
  BY DEF TypeOK, TypeEffects, Backed, Delivered, CompletedMeansDelivered
<1>. QED BY <1>1, <1>2, <1>3, PTL DEF Spec

\* Top-ups and group subscriptions are delivered at most once, for any number
\* of workers, lease takeovers, redeliveries and faults: the marker that the
\* delivering transaction itself writes and tests carries the argument, not
\* the lease.  Plan orders are excluded: doSubWithPlanSeat has no such test.
THEOREM DeliveredOnce == Spec => [](orderType # "plan" => GrantedAtMostOnce)
<1>1. Init => TypeOK /\ Delivered /\ Counted
  BY InitType, InitInvariants
<1>2. TypeOK /\ Delivered /\ Counted /\ [Next]_vars
        => (TypeOK /\ Delivered /\ Counted)'
  BY NextType, NextDelivered, NextCounted
<1>3. TypeOK /\ Delivered /\ Counted
        => (orderType # "plan" => GrantedAtMostOnce)
  <2>. SUFFICES ASSUME TypeOK, Counted, orderType # "plan" PROVE grants <= 1
    BY DEF GrantedAtMostOnce
  <2>1. orderType = "balance" \/ orderType = "group"
    BY OrderTypesAssumption DEF TypeOK, TypeOrder
  <2>2. grants = 0 \/ grants = 1
    BY <2>1 DEF Counted
  <2>. QED BY <2>2
<1>. QED BY <1>1, <1>2, <1>3, PTL DEF Spec

\* The success e-mail goes out at most once, unless CreateOrder's late failure
\* reopened the order.
THEOREM EmailSentOnce == Spec => []AnnouncedOnce
<1>1. Init => TypeOK /\ Announcing
  BY InitType, InitInvariants
<1>2. TypeOK /\ Announcing /\ [Next]_vars => (TypeOK /\ Announcing)'
  BY NextType, NextAnnouncing
<1>3. Announcing => AnnouncedOnce
  BY DEF Announcing, AnnouncedOnce
<1>. QED BY <1>1, <1>2, <1>3, PTL DEF Spec

\* The invitation reward is settled at most once for the user, although two
\* workers can hold a claim on the same order.
THEOREM RewardOnce == Spec => []RewardedAtMostOnce
<1>1. Init => RewardedAtMostOnce
  <2>. SUFFICES ASSUME rewards = 0 PROVE RewardedAtMostOnce
    BY DEF Init
  <2>. QED BY DEF RewardedAtMostOnce
<1>2. TypeOK /\ RewardedAtMostOnce /\ [Next]_vars => RewardedAtMostOnce'
  <2>. SUFFICES ASSUME TypeOK, RewardedAtMostOnce, [Next]_vars
                PROVE  RewardedAtMostOnce'
    OBVIOUS
  <2>1. CASE UNCHANGED <<relation, rewards>>
    BY <2>1 DEF RewardedAtMostOnce
  <2>2. ASSUME NEW w \in Workers, SettleRebate(w) PROVE RewardedAtMostOnce'
    <3>1. CASE UNCHANGED <<relation, rewards>>
      BY <3>1 DEF RewardedAtMostOnce
    <3>2. CASE relation' = "resolved" /\ rewards' = rewards
      BY <3>2 DEF RewardedAtMostOnce
    <3>3. CASE /\ relation = "pending" /\ relation' = "resolved"
               /\ rewards' = rewards + 1
      <4>1. rewards = 0
        BY <3>3 DEF RewardedAtMostOnce, TypeOK, TypeEffects
      <4>. QED BY <3>3, <4>1 DEF RewardedAtMostOnce
    <3>. QED BY <2>2, <3>1, <3>2, <3>3 DEF SettleRebate,
              ResolveFirstRecharge
  <2>. QED BY <2>1, <2>2, RewardWriters
<1>. QED BY <1>1, <1>2, TypeCorrect, PTL DEF Spec

\* A confirmed payment is never cancelled or expired afterwards: cancelCore
\* updates PENDING rows only, and no step makes a row PENDING or clears paid_at.
THEOREM NeverCancelledOncePaid == Spec => PaidIsNeverCancelled
<1>1. Init => Confirmed
  BY DEF Init, Confirmed
<1>2. Confirmed /\ [Next]_vars => Confirmed' /\ (paidAt => paidAt')
  <2>. SUFFICES ASSUME Confirmed, [Next]_vars
                PROVE  Confirmed' /\ (paidAt => paidAt')
    OBVIOUS
  <2>1. CASE UNCHANGED <<status, paidAt>>
    BY <2>1 DEF Confirmed
  <2>2. CASE FailCreate
    BY <2>2 DEF FailCreate, Touch, Confirmed
  <2>3. ASSUME NEW w \in Workers, FinishCancel(w)
        PROVE  Confirmed' /\ (paidAt => paidAt')
    BY <2>3 DEF FinishCancel, Cancellable, Touch, Confirmed
  <2>4. ASSUME NEW w \in Workers, ToPaid(w)
        PROVE  Confirmed' /\ (paidAt => paidAt')
    BY <2>4 DEF ToPaid, Touch, Confirmed
  <2>5. ASSUME NEW w \in Workers, AcquireLease(w)
        PROVE  Confirmed' /\ (paidAt => paidAt')
    BY <2>5 DEF AcquireLease, Touch, Confirmed
  <2>6. ASSUME NEW w \in Workers, MarkCompleted(w)
        PROVE  Confirmed' /\ (paidAt => paidAt')
    <3>1. paidAt' = paidAt /\ (status' = "COMPLETED" \/ status' = status)
      BY <2>6 DEF MarkCompleted, Touch
    <3>. QED BY <3>1 DEF Confirmed
  <2>7. ASSUME NEW w \in Workers, MarkFailed(w)
        PROVE  Confirmed' /\ (paidAt => paidAt')
    <3>1. paidAt' = paidAt /\ (status' = "FAILED" \/ status' = status)
      BY <2>7 DEF MarkFailed, Touch
    <3>. QED BY <3>1 DEF Confirmed
  <2>. QED BY <2>1, <2>2, <2>3, <2>4, <2>5, <2>6, <2>7, RowWriters
<1>3. Confirmed /\ [Next]_vars
        => [paidAt => status' \notin {"CANCELLED", "EXPIRED"}]_vars
  BY <1>2 DEF Confirmed
<1>. QED BY <1>1, <1>2, <1>3, PTL DEF Spec, PaidIsNeverCancelled

\* COMPLETED is final: every other update of the row tests the status or the
\* lease version, so only the unconditional one of CreateOrder reopens it.
THEOREM CompletedIsFinal == Spec => CompletionIsFinal
<1>1. ASSUME [Next]_vars, status = "COMPLETED", status' # "COMPLETED"
      PROVE  creator' # creator
  <2>1. CASE FailCreate
    BY <2>1 DEF FailCreate
  <2>2. ASSUME NEW w \in Workers, FinishCancel(w) PROVE FALSE
    BY <1>1, <2>2 DEF FinishCancel, Cancellable
  <2>3. ASSUME NEW w \in Workers, ToPaid(w) PROVE FALSE
    BY <1>1, <2>3 DEF ToPaid, Payable
  <2>4. ASSUME NEW w \in Workers, AcquireLease(w) PROVE FALSE
    BY <1>1, <2>4 DEF AcquireLease, LeaseFree
  <2>5. ASSUME NEW w \in Workers, MarkCompleted(w) \/ MarkFailed(w) PROVE FALSE
    BY <1>1, <2>5 DEF MarkCompleted, MarkFailed, HoldsLease
  <2>. QED BY <1>1, <2>1, <2>2, <2>3, <2>4, <2>5, RowWriters
<1>2. [Next]_vars => [status = "COMPLETED" /\ status' # "COMPLETED"
                        => creator' # creator]_vars
  BY <1>1
<1>. QED BY <1>2, PTL DEF Spec, CompletionIsFinal

-----------------------------------------------------------------------------
(* Refinement *)

\* The provider's record of the payment and the number of deliveries are each
\* written by few actions.
LEMMA MoneyWriters ==
    ASSUME [Next]_vars PROVE Pay \/ UNCHANGED paid
<1>1. ASSUME NEW w \in Workers, Start(w) PROVE UNCHANGED paid
  BY <1>1 DEF Start, DeliverWebhook, RetryFulfillment, CancelOrder, ExpireOrder,
       VerifyOrder, ReconcileOrder, Begin, providerVars
<1>2. ASSUME NEW w \in Workers, Upstream(w) \/ Fault(w) PROVE UNCHANGED paid
  BY <1>2 DEF Upstream, Fault, QueryPaid, QueryUnpaid, CloseUpstream,
       FinishCancel, PersistTradeNo, QueryError, StepFails, StepAborts, Crash,
       providerVars
<1>3. ASSUME NEW w \in Workers, Fulfill(w) PROVE UNCHANGED paid
  BY <1>3 DEF Fulfill, ToPaid, ToPaidMiss, AlreadyProcessed, Execute,
       AcquireLease, AcquireMiss, ClaimLease, LookupCode, CreateCode,
       RedeemCode, CheckAssigned, AssignSubscription, ClaimRebate,
       SettleRebate, MarkCompleted, Announce, MarkFailed, providerVars
<1>4. ASSUME \/ Tick \/ PassDeadline \/ InvokeProvider \/ SaveCreated
             \/ FailCreate \/ CrashCreate \/ LoseWebhook \/ UNCHANGED vars
      PROVE  UNCHANGED paid
  BY <1>4 DEF Tick, PassDeadline, InvokeProvider, SaveCreated, FailCreate,
       CrashCreate, LoseWebhook, vars, providerVars
<1>. QED BY <1>1, <1>2, <1>3, <1>4 DEF Next

LEMMA GrantWriters ==
    ASSUME [Next]_vars
    PROVE  \/ UNCHANGED grants
           \/ \E w \in Workers : RedeemCode(w) \/ AssignSubscription(w)
<1>1. ASSUME NEW w \in Workers, Start(w) PROVE UNCHANGED grants
  BY <1>1 DEF Start, DeliverWebhook, RetryFulfillment, CancelOrder, ExpireOrder,
       VerifyOrder, ReconcileOrder, Begin, effectVars
<1>2. ASSUME NEW w \in Workers, Upstream(w) \/ Fault(w) PROVE UNCHANGED grants
  BY <1>2 DEF Upstream, Fault, QueryPaid, QueryUnpaid, CloseUpstream,
       FinishCancel, PersistTradeNo, QueryError, StepFails, StepAborts, Crash,
       effectVars
<1>3. ASSUME NEW w \in Workers, Fulfill(w), ~RedeemCode(w),
             ~AssignSubscription(w)
      PROVE  UNCHANGED grants
  BY <1>3 DEF Fulfill, ToPaid, ToPaidMiss, AlreadyProcessed, Execute,
       AcquireLease, AcquireMiss, ClaimLease, LookupCode, CreateCode,
       CheckAssigned, ClaimRebate, SettleRebate, MarkCompleted, Announce,
       MarkFailed, effectVars
<1>4. ASSUME \/ Pay \/ Tick \/ PassDeadline \/ InvokeProvider \/ SaveCreated
             \/ FailCreate \/ CrashCreate \/ LoseWebhook \/ UNCHANGED vars
      PROVE  UNCHANGED grants
  BY <1>4 DEF Pay, Tick, PassDeadline, InvokeProvider, SaveCreated, FailCreate,
       CrashCreate, LoseWebhook, vars, effectVars
<1>. QED BY <1>1, <1>2, <1>3, <1>4 DEF Next

\* What the simulation of a step uses.
PromiseInv == TypeOK /\ Backed /\ Delivered /\ Counted /\ RewardedAtMostOnce

\* A step of the handlers is a step of the promise, or none.
LEMMA PromiseStep ==
    ASSUME "plan" \notin OrderTypes, PromiseInv, PromiseInv', [Next]_vars
    PROVE  [Promise!Next]_(Promise!promiseVars)
<1>. USE DEF PromiseInv
<1>1. grants \in {0, 1} /\ grants' \in {0, 1}
  <2>1. orderType \in {"balance", "group"} /\ orderType' \in {"balance", "group"}
    BY OrderTypesAssumption DEF TypeOK, TypeOrder
  <2>. QED BY <2>1 DEF Counted
<1>2. rewards \in {0, 1} /\ rewards' \in {0, 1}
  BY DEF RewardedAtMostOnce, TypeOK, TypeEffects
<1>3. CASE Pay
  <2>1. UNCHANGED <<status, grants, rewards>> /\ paid = "no"
    BY <1>3 DEF Pay, orderVars, effectVars
  <2>. QED BY <2>1 DEF Promise!Next, Promise!Pay, Promise!promiseVars
<1>4. ASSUME NEW w \in Workers, RedeemCode(w) \/ AssignSubscription(w),
             UNCHANGED paid
      PROVE  [Promise!Next]_(Promise!promiseVars)
  <2>1. UNCHANGED <<status, rewards>>
    BY <1>4 DEF RedeemCode, AssignSubscription, orderVars
  <2>2. grants' = grants \/ grants' = grants + 1
    BY <1>4 DEF RedeemCode, AssignSubscription
  <2>3. pc[w] \in {"redeem", "assign"}
    BY <1>4 DEF RedeemCode, AssignSubscription
  <2>4. paid = "exact"
    BY <2>3 DEF Backed, PaidSteps, LeasedSteps
  <2>5. CASE grants' = grants
    BY <1>4, <2>1, <2>5 DEF Promise!promiseVars
  <2>6. CASE grants' = grants + 1
    <3>1. grants = 0 /\ grants' = 1
      BY <1>1, <2>6
    <3>. QED BY <1>4, <2>1, <2>4, <3>1 DEF Promise!Next, Promise!Deliver
  <2>. QED BY <2>2, <2>5, <2>6
<1>5. ASSUME NEW w \in Workers, SettleRebate(w), UNCHANGED <<paid, grants>>
      PROVE  [Promise!Next]_(Promise!promiseVars)
  <2>1. UNCHANGED status /\ pc[w] = "rebateTx"
    BY <1>5 DEF SettleRebate, orderVars
  <2>2. rewards' = rewards \/ rewards' = rewards + 1
    BY <1>5 DEF SettleRebate, ResolveFirstRecharge
  <2>3. grants = 1
    BY <1>1, <2>1 DEF Delivered, DeliveredSteps
  <2>4. CASE rewards' = rewards
    BY <1>5, <2>1, <2>4 DEF Promise!promiseVars
  <2>5. CASE rewards' = rewards + 1
    <3>1. rewards = 0 /\ rewards' = 1
      BY <1>2, <2>5
    <3>. QED BY <1>5, <2>1, <2>3, <3>1 DEF Promise!Next, Promise!Reward
  <2>. QED BY <2>2, <2>4, <2>5
<1>6. ASSUME UNCHANGED <<paid, grants, rewards>>
      PROVE  [Promise!Next]_(Promise!promiseVars)
  <2>1. CASE status' = "COMPLETED"
    <3>1. grants = 1
      BY <1>1, <1>6, <2>1 DEF Delivered
    <3>. QED BY <1>6, <2>1, <3>1 DEF Promise!Next, Promise!Complete
  <2>2. CASE status' # "COMPLETED"
    BY <1>6, <2>2 DEF Promise!Next, Promise!Reopen
  <2>. QED BY <2>1, <2>2
<1>. QED BY <1>3, <1>4, <1>5, <1>6, MoneyWriters, GrantWriters, RewardWriters

\* Where no plan seats are sold, the handlers implement the promise of a
\* purchase, for any number of workers, redeliveries, lease takeovers and faults.
THEOREM ImplementsPromise ==
    ASSUME "plan" \notin OrderTypes PROVE Spec => KeepsPromise
<1>1. Init => PromiseInv
  <2>. SUFFICES ASSUME Init PROVE PromiseInv
    OBVIOUS
  <2>1. RewardedAtMostOnce
    <3>1. rewards = 0 BY DEF Init
    <3>. QED BY <3>1 DEF RewardedAtMostOnce
  <2>. QED BY <2>1, InitType, InitInvariants DEF PromiseInv
<1>2. TypeOK /\ Backed /\ Delivered /\ Counted /\ [Next]_vars
        => (TypeOK /\ Backed /\ Delivered /\ Counted)'
  BY NextType, NextBacked, NextDelivered, NextCounted
<1>3. Spec => []PromiseInv
  <2>1. Init => TypeOK /\ Backed /\ Delivered /\ Counted
    BY <1>1 DEF PromiseInv
  <2>2. TypeOK /\ Backed /\ Delivered /\ Counted /\ RewardedAtMostOnce
          => PromiseInv
    BY DEF PromiseInv
  <2>. QED BY <1>2, <2>1, <2>2, RewardOnce, PTL DEF Spec
<1>4. Init => Promise!Init
  <2>. SUFFICES ASSUME Init PROVE Promise!Init
    OBVIOUS
  <2>1. paid = "no" /\ grants = 0 /\ rewards = 0 /\ status = "PENDING"
    BY DEF Init
  <2>. QED BY <2>1 DEF Promise!Init
<1>5. PromiseInv /\ PromiseInv' /\ [Next]_vars
        => [Promise!Next]_(Promise!promiseVars)
  BY PromiseStep
<1>. QED BY <1>3, <1>4, <1>5, PTL DEF Spec, KeepsPromise, Promise!Spec

=============================================================================
