----------------------- MODULE ConcurrencySlotsProofs -----------------------
(***************************************************************************)
(* Proofs about ConcurrencySlots, for any finite set of requests, any      *)
(* instances, any limits and any number of faults.                         *)
(***************************************************************************)
EXTENDS ConcurrencySlots, FiniteSetTheorems, TLAPS

USE RequestsAssumption, OwnerAssumption, LimitsAssumption

\* Where a request goes after it kept the index.
ReturnOK ==
    \A r \in Requests :
        /\ Pc(r) = "touch" => req[r].then \in {"running", "waiting", "uncountRun"}
        /\ Pc(r) \in {"read", "index"} =>
               req[r].then \in {"running", "idle", "live", "liveend"}

\* A request that is served on a slot or a lease has it, unless time or the start
\* of an instance took it away.
Holds ==
    /\ \A r \in Requests : OnSlot(r) /\ r \notin over => slots[r] = "fresh"
    /\ \A r \in Requests : OnLease(r) /\ r \notin over => live[r] = "fresh"

\* The inductive invariant.
IInv ==
    /\ TypeOK /\ ReturnOK /\ Holds
    /\ ServedWithinLimit /\ WaitersWithinLimit /\ NoPhantomWaiters

\* The steps of a request, of an instance, and of the rest.
Act(r) ==
    Arrive(r) \/ Retry(r) \/ AcquireLiveLease(r) \/ Serve(r) \/ SlotAges(r) \/ LeaseAges(r)

Rest ==
    \/ IndexDue \/ JanitorRead \/ JanitorWrite
    \/ GetConcurrency \/ SlotKeyExpires \/ LeaseKeyExpires \/ WaitKeyExpires

-----------------------------------------------------------------------------
(* Types *)

\* Sets of requests are finite.
LEMMA FiniteRequests ==
    ASSUME NEW S \in SUBSET Requests
    PROVE  IsFiniteSet(S) /\ Cardinality(S) \in Nat
BY FS_Subset, FS_CardinalityType

\* The requests that believe to be counted.
Queue == StillCounted({})

\* The requests in the queue are finitely many.
LEMMA QueueFinite == IsFiniteSet(Queue) /\ Cardinality(Queue) \in Nat
<1>1. Queue \in SUBSET Requests
  BY DEF Queue, StillCounted
<1>. QED BY <1>1, FiniteRequests

\* Purging keeps the type of a set, and what is fresh in it.
LEMMA PurgedType ==
    ASSUME NEW set \in [Requests -> Ages]
    PROVE  /\ Purged(set) \in [Requests -> Ages]
           /\ \A r \in Requests : set[r] = "fresh" => Purged(set)[r] = "fresh"
BY DEF Purged, Ages

\* Moving a request keeps the types.
LEMMA MoveType ==
    ASSUME TypeOK, NEW r \in Requests, NEW p \in Pcs, NEW q \in Pcs,
           Go(r, p) \/ Via(r, q, p)
    PROVE  req' \in [Requests -> [pc : Pcs, then : Pcs, load : BOOLEAN]]
<1>1. "idle" \in Pcs
  BY DEF Pcs
<1>. DEFINE Calls == [pc : Pcs, then : Pcs, load : BOOLEAN]
<1>2. At(p) \in Calls /\ At(q) \in Calls
  BY <1>1 DEF At
<1>3. [At(q) EXCEPT !.then = p] \in Calls
  BY <1>2
<1>4. req \in [Requests -> Calls]
  BY DEF TypeOK
<1>5. CASE Go(r, p)
  BY <1>2, <1>4, <1>5 DEF Go
<1>6. CASE Via(r, q, p)
  BY <1>3, <1>4, <1>6 DEF Via
<1>. QED BY <1>5, <1>6

\* The loss of the counter keeps the types of both counts.
LEMMA LostType ==
    ASSUME CounterLost PROVE wait' = 0 /\ skew' \in [low : Nat, high : Nat]
BY QueueFinite DEF CounterLost, Queue

\* So does counting a fault.
LEMMA FaultType ==
    ASSUME TypeOK, UseFault \/ NoFault PROVE faults' \in 0..MaxFaults
BY DEF TypeOK, UseFault, NoFault

\* Every step keeps the types.
LEMMA TypeStep == TypeOK /\ [Next]_vars => TypeOK'
<1>. SUFFICES ASSUME TypeOK, [Next]_vars PROVE TypeOK'
  OBVIOUS
<1>1. ASSUME NEW r \in Requests, Act(r) PROVE TypeOK'
  <2>1. CASE Arrive(r)
    <3>1. req' \in [Requests -> [pc : Pcs, then : Pcs, load : BOOLEAN]]
      BY <2>1, MoveType DEF Arrive, Pcs, TypeOK
    <3>2. faults' \in 0..MaxFaults
      BY <2>1, FaultType DEF Arrive
    <3>3. slots' \in [Requests -> Ages] /\ live' \in [Requests -> Ages]
      <4>1. slots \in [Requests -> Ages] /\ live \in [Requests -> Ages]
        BY DEF TypeOK
      <4>. QED BY <2>1, <4>1, PurgedType DEF Arrive, AcquireSlot, AcquireRefused, Ages
    <3>. QED BY <2>1, <3>1, <3>2, <3>3 DEF Arrive, TypeOK
  <2>2. CASE Retry(r)
    <3>1. req' \in [Requests -> [pc : Pcs, then : Pcs, load : BOOLEAN]]
      BY <2>2, MoveType DEF Retry, Pcs, TypeOK
    <3>2. faults' \in 0..MaxFaults
      BY <2>2, FaultType DEF Retry
    <3>3. slots' \in [Requests -> Ages] /\ live' \in [Requests -> Ages]
      <4>1. slots \in [Requests -> Ages] /\ live \in [Requests -> Ages]
        BY DEF TypeOK
      <4>. QED BY <2>2, <4>1, PurgedType DEF Retry, AcquireSlot, AcquireRefused, Ages
    <3>. QED BY <2>2, <3>1, <3>2, <3>3 DEF Retry, TypeOK
  <2>3. CASE AcquireLiveLease(r)
    <3>1. req' \in [Requests -> [pc : Pcs, then : Pcs, load : BOOLEAN]]
      BY <2>3, MoveType DEF AcquireLiveLease, Pcs, TypeOK
    <3>2. faults' \in 0..MaxFaults
      BY <2>3, FaultType DEF AcquireLiveLease
    <3>3. slots' \in [Requests -> Ages] /\ live' \in [Requests -> Ages]
      BY <2>3, PurgedType DEF AcquireLiveLease, GrantLease, TypeOK, Ages
    <3>. QED BY <2>3, <3>1, <3>2, <3>3 DEF AcquireLiveLease, TypeOK
  <2>4. CASE GiveUp(r)
    BY <2>4 DEF GiveUp, TypeOK, At, Go, Via, Purged, Ages, Pcs, UseFault, NoFault,
        redisVars, BootGo, Own
  <2>5. CASE IncrementWaitCount(r)
    <3>1. req' \in [Requests -> [pc : Pcs, then : Pcs, load : BOOLEAN]]
      BY <2>5, MoveType DEF IncrementWaitCount, Pcs, TypeOK
    <3>2. faults' \in 0..MaxFaults
      BY <2>5, FaultType DEF IncrementWaitCount
    <3>3. wait \in Nat /\ MaxWait[r] \in Nat
      BY DEF TypeOK
    <3>4. wait' = wait \/ (wait' = wait + 1 /\ wait < MaxWait[r])
      BY <2>5 DEF IncrementWaitCount
    <3>5. wait' \in Nat /\ (wait' > 0 => \E q \in Requests : wait' <= MaxWait[q])
      BY <3>3, <3>4 DEF TypeOK
    <3>6. skew' = skew \/ skew' = [skew EXCEPT !.low = @ + 1]
      BY <2>5 DEF IncrementWaitCount
    <3>7. skew' \in [low : Nat, high : Nat]
      BY <3>6 DEF TypeOK
    <3>. QED BY <2>5, <3>1, <3>2, <3>5, <3>7 DEF IncrementWaitCount, TypeOK
  <2>6. CASE DecrementWaitCount(r)
    <3>1. req' \in [Requests -> [pc : Pcs, then : Pcs, load : BOOLEAN]]
      BY <2>6, MoveType DEF DecrementWaitCount, Pcs, TypeOK
    <3>2. faults' \in 0..MaxFaults
      BY <2>6, FaultType DEF DecrementWaitCount
    <3>3. wait \in Nat /\ MaxWait \in [Requests -> Nat]
      BY DEF TypeOK
    <3>4. wait' = wait \/ wait' = (IF wait > 0 THEN wait - 1 ELSE 0)
      BY <2>6 DEF DecrementWaitCount
    <3>5. wait' \in Nat /\ (wait' > 0 => \E q \in Requests : wait' <= MaxWait[q])
      <4>1. wait' \in Nat /\ wait' <= wait
        BY <3>3, <3>4
      <4>2. ASSUME wait' > 0 PROVE \E q \in Requests : wait' <= MaxWait[q]
        <5>1. PICK q \in Requests : wait <= MaxWait[q]
          BY <3>3, <4>1, <4>2 DEF TypeOK
        <5>2. wait' <= MaxWait[q]
          BY <3>3, <4>1, <5>1
        <5>. QED BY <5>2
      <4>. QED BY <4>1, <4>2
    <3>6. \/ skew' = [skew EXCEPT !.high = @ + 1]
          \/ \E l \in {0, skew.low}, h \in {0, skew.high} :
                skew' = [low |-> l, high |-> h]
      BY <2>6 DEF DecrementWaitCount
    <3>7. skew' \in [low : Nat, high : Nat]
      BY <3>6 DEF TypeOK
    <3>. QED BY <2>6, <3>1, <3>2, <3>5, <3>7 DEF DecrementWaitCount, TypeOK
  <2>7. CASE ReleaseSlot(r)
    <3>1. PICK next \in {"live", "liveend", "idle"} :
             Go(r, next) \/ Via(r, "read", next)
      BY <2>7 DEF ReleaseSlot
    <3>2. req' \in [Requests -> [pc : Pcs, then : Pcs, load : BOOLEAN]]
      BY <3>1, MoveType DEF Pcs
    <3>3. faults' \in 0..MaxFaults
      BY <2>7, FaultType DEF ReleaseSlot
    <3>4. slots' \in [Requests -> Ages] /\ over' \in SUBSET Requests
      BY <2>7 DEF ReleaseSlot, TypeOK, Ages
    <3>. QED BY <2>7, <3>2, <3>3, <3>4 DEF ReleaseSlot, TypeOK
  <2>8. CASE TouchIndex(r)
    BY <2>8 DEF TouchIndex, TypeOK, At, Go, Via, Purged, Ages, Pcs, UseFault,
        NoFault, redisVars, BootGo, Own
  <2>9. CASE ReadLoad(r)
    <3>0. HasLoad(Purged(slots)) \in BOOLEAN /\ "index" \in Pcs /\ "read" \in Pcs
      BY DEF HasLoad, Pcs
    <3>1. \A b \in BOOLEAN : [req EXCEPT ![r].pc = "index", ![r].load = b]
             \in [Requests -> [pc : Pcs, then : Pcs, load : BOOLEAN]]
      BY <3>0 DEF TypeOK
    <3>2. req' \in [Requests -> [pc : Pcs, then : Pcs, load : BOOLEAN]]
      <4>1. CASE Go(r, req[r].then)
        BY <4>1, <3>0, MoveType DEF TypeOK
      <4>2. CASE ~Go(r, req[r].then)
        BY <2>9, <4>2, <3>0, <3>1 DEF ReadLoad
      <4>. QED BY <4>1, <4>2
    <3>3. faults' \in 0..MaxFaults
      BY <2>9, FaultType DEF ReadLoad
    <3>4. slots' \in [Requests -> Ages]
      BY <2>9, PurgedType DEF ReadLoad, TypeOK
    <3>. QED BY <2>9, <3>2, <3>3, <3>4 DEF ReadLoad, TypeOK
  <2>10. CASE WriteIndex(r)
    BY <2>10 DEF WriteIndex, TypeOK, At, Go, Via, Purged, Ages, Pcs, UseFault,
        NoFault, redisVars, BootGo, Own
  <2>11. CASE RefreshLiveLease(r)
    <3>1. req' \in [Requests -> [pc : Pcs, then : Pcs, load : BOOLEAN]]
      BY <2>11, MoveType DEF RefreshLiveLease, Pcs, TypeOK
    <3>2. faults' \in 0..MaxFaults
      BY <2>11, FaultType DEF RefreshLiveLease
    <3>3. slots' \in [Requests -> Ages] /\ live' \in [Requests -> Ages]
      BY <2>11, PurgedType DEF RefreshLiveLease, Members, TypeOK, Ages
    <3>. QED BY <2>11, <3>1, <3>2, <3>3 DEF RefreshLiveLease, TypeOK
  <2>12. CASE LiveEnds(r)
    BY <2>12 DEF LiveEnds, TypeOK, At, Go, Via, Purged, Ages, Pcs, UseFault,
        NoFault, redisVars, BootGo, Own
  <2>13. CASE ReleaseLiveLease(r)
    BY <2>13 DEF ReleaseLiveLease, TypeOK, At, Go, Via, Purged, Ages, Pcs, UseFault,
        NoFault, redisVars, BootGo, Own
  <2>14. CASE SlotAges(r)
    BY <2>14 DEF SlotAges, TypeOK, At, Go, Via, Purged, Ages, Pcs, UseFault,
        NoFault, redisVars, BootGo, Own
  <2>15. CASE LeaseAges(r)
    BY <2>15 DEF LeaseAges, TypeOK, At, Go, Via, Purged, Ages, Pcs, UseFault,
        NoFault, redisVars, BootGo, Own
  <2>16. CASE CreateFails(r)
    <3>1. req' \in [Requests -> [pc : Pcs, then : Pcs, load : BOOLEAN]]
      BY <2>16, MoveType DEF CreateFails, Pcs, TypeOK
    <3>2. faults' \in 0..MaxFaults
      BY <2>16, FaultType DEF CreateFails
    <3>3. live' \in [Requests -> Ages]
      BY <2>16 DEF CreateFails, TypeOK, Ages
    <3>. QED BY <2>16, <3>1, <3>2, <3>3 DEF CreateFails, TypeOK
  <2>. QED BY <1>1, <2>1, <2>2, <2>3, <2>4, <2>5, <2>6, <2>7, <2>8, <2>9, <2>10,
      <2>11, <2>12, <2>13, <2>14, <2>15, <2>16 DEF Act, Serve
<1>2. ASSUME NEW i \in Instances, Crash(i) \/ Boot(i) PROVE TypeOK'
  <2>1. CASE Crash(i)
    <3>1. Cardinality(StillCounted({}) \cap Own(i)) \in Nat
      BY FiniteRequests DEF StillCounted
    <3>2. skew' \in [low : Nat, high : Nat]
      BY <2>1, <3>1 DEF Crash, TypeOK
    <3>3. At("idle") \in [pc : Pcs, then : Pcs, load : BOOLEAN]
      BY DEF At, Pcs
    <3>4. req' \in [Requests -> [pc : Pcs, then : Pcs, load : BOOLEAN]]
      BY <2>1, <3>3 DEF Crash, TypeOK
    <3>5. faults' \in 0..MaxFaults
      BY <2>1, FaultType DEF Crash
    <3>. QED BY <2>1, <3>2, <3>4, <3>5 DEF Crash, TypeOK, redisVars
  <2>2. CASE BootRead(i)
    BY <2>2 DEF BootRead, TypeOK, At, Go, Via, Purged, Ages, Pcs, UseFault, NoFault,
        redisVars, BootGo, Own
  <2>3. CASE BootSweep(i)
    BY <2>3 DEF BootSweep, TypeOK, At, Go, Via, Purged, Ages, Pcs, UseFault,
        NoFault, redisVars, BootGo, Own
  <2>4. CASE BootDelWait(i)
    BY <2>4, LostType DEF BootDelWait, BootGo, TypeOK
  <2>5. CASE BootUnindex(i)
    BY <2>5 DEF BootUnindex, TypeOK, At, Go, Via, Purged, Ages, Pcs, UseFault,
        NoFault, redisVars, BootGo, Own
  <2>6. CASE BootError(i)
    BY <2>6 DEF BootError, TypeOK, At, Go, Via, Purged, Ages, Pcs, UseFault,
        NoFault, redisVars, BootGo, Own
  <2>7. CASE BootLegacy(i)
    <3>1. faults' \in 0..MaxFaults
      BY <2>7, FaultType DEF BootLegacy
    <3>2. wait' = 0 /\ skew' \in [low : Nat, high : Nat]
      BY <2>7, LostType DEF BootLegacy
    <3>3. inst' \in [Instances -> {"up", "down", "sweep", "delwait", "unindex"}]
      BY <2>7 DEF BootLegacy, BootGo, TypeOK
    <3>4. marker' \in BOOLEAN
      BY <2>7 DEF BootLegacy, TypeOK
    <3>. QED BY <2>7, <3>1, <3>2, <3>3, <3>4 DEF BootLegacy, TypeOK
  <2>. QED BY <1>2, <2>1, <2>2, <2>3, <2>4, <2>5, <2>6, <2>7 DEF Boot
<1>3. CASE Rest
  <2>1. CASE IndexDue
    BY <2>1 DEF IndexDue, TypeOK, At, Go, Via, Purged, Ages, Pcs, UseFault, NoFault,
        redisVars, BootGo, Own
  <2>2. CASE JanitorRead
    BY <2>2 DEF JanitorRead, TypeOK, At, Go, Via, Purged, Ages, Pcs, UseFault,
        NoFault, redisVars, BootGo, Own
  <2>3. CASE JanitorWrite
    BY <2>3 DEF JanitorWrite, TypeOK, At, Go, Via, Purged, Ages, Pcs, UseFault,
        NoFault, redisVars, BootGo, Own
  <2>4. CASE GetConcurrency
    BY <2>4 DEF GetConcurrency, TypeOK, At, Go, Via, Purged, Ages, Pcs, UseFault,
        NoFault, redisVars, BootGo, Own
  <2>5. CASE SlotKeyExpires
    BY <2>5 DEF SlotKeyExpires, TypeOK, At, Go, Via, Purged, Ages, Pcs, UseFault,
        NoFault, redisVars, BootGo, Own
  <2>6. CASE LeaseKeyExpires
    BY <2>6 DEF LeaseKeyExpires, TypeOK, At, Go, Via, Purged, Ages, Pcs, UseFault,
        NoFault, redisVars, BootGo, Own
  <2>7. CASE WaitKeyExpires
    BY <2>7, LostType DEF WaitKeyExpires, TypeOK
  <2>. QED BY <1>3, <2>1, <2>2, <2>3, <2>4, <2>5, <2>6, <2>7 DEF Rest
<1>4. CASE UNCHANGED vars
  BY <1>4 DEF vars, redisVars, TypeOK, At, Go, Via, Purged, Ages, Pcs, UseFault,
      NoFault, redisVars, BootGo, Own
<1>. QED BY <1>1, <1>2, <1>3, <1>4 DEF Next, Act, Rest

-----------------------------------------------------------------------------
(* Who holds what *)

\* A request returns from the index to where it was going.
LEMMA ReturnStep == TypeOK /\ ReturnOK /\ [Next]_vars => ReturnOK'
<1>. SUFFICES ASSUME TypeOK, ReturnOK, [Next]_vars PROVE ReturnOK'
  OBVIOUS
<1>1. ASSUME NEW r \in Requests, Act(r) PROVE ReturnOK'
  <2>1. CASE Arrive(r)
    BY <2>1 DEF Arrive, TypeOK, ReturnOK, Pc, At, Go, Via, redisVars, Own
  <2>2. CASE Retry(r)
    BY <2>2 DEF Retry, TypeOK, ReturnOK, Pc, At, Go, Via, redisVars, Own
  <2>3. CASE AcquireLiveLease(r)
    BY <2>3 DEF AcquireLiveLease, TypeOK, ReturnOK, Pc, At, Go, Via, redisVars, Own
  <2>4. CASE GiveUp(r)
    BY <2>4 DEF GiveUp, TypeOK, ReturnOK, Pc, At, Go, Via, redisVars, Own
  <2>5. CASE IncrementWaitCount(r)
    BY <2>5 DEF IncrementWaitCount, TypeOK, ReturnOK, Pc, At, Go, Via, redisVars,
        Own
  <2>6. CASE DecrementWaitCount(r)
    BY <2>6 DEF DecrementWaitCount, TypeOK, ReturnOK, Pc, At, Go, Via, redisVars,
        Own
  <2>7. CASE ReleaseSlot(r)
    BY <2>7 DEF ReleaseSlot, TypeOK, ReturnOK, Pc, At, Go, Via, redisVars, Own
  <2>8. CASE TouchIndex(r)
    BY <2>8 DEF TouchIndex, TypeOK, ReturnOK, Pc, At, Go, Via, redisVars, Own
  <2>9. CASE ReadLoad(r)
    BY <2>9 DEF ReadLoad, TypeOK, ReturnOK, Pc, At, Go, Via, redisVars, Own
  <2>10. CASE WriteIndex(r)
    BY <2>10 DEF WriteIndex, TypeOK, ReturnOK, Pc, At, Go, Via, redisVars, Own
  <2>11. CASE RefreshLiveLease(r)
    BY <2>11 DEF RefreshLiveLease, TypeOK, ReturnOK, Pc, At, Go, Via, redisVars, Own
  <2>12. CASE LiveEnds(r)
    BY <2>12 DEF LiveEnds, TypeOK, ReturnOK, Pc, At, Go, Via, redisVars, Own
  <2>13. CASE ReleaseLiveLease(r)
    BY <2>13 DEF ReleaseLiveLease, TypeOK, ReturnOK, Pc, At, Go, Via, redisVars, Own
  <2>14. CASE SlotAges(r)
    BY <2>14 DEF SlotAges, TypeOK, ReturnOK, Pc, At, Go, Via, redisVars, Own
  <2>15. CASE LeaseAges(r)
    BY <2>15 DEF LeaseAges, TypeOK, ReturnOK, Pc, At, Go, Via, redisVars, Own
  <2>16. CASE CreateFails(r)
    BY <2>16 DEF CreateFails, TypeOK, ReturnOK, Pc, At, Go, Via, redisVars, Own
  <2>. QED BY <1>1, <2>1, <2>2, <2>3, <2>4, <2>5, <2>6, <2>7, <2>8, <2>9, <2>10,
      <2>11, <2>12, <2>13, <2>14, <2>15, <2>16 DEF Act, Serve
<1>2. ASSUME NEW i \in Instances, Crash(i) \/ Boot(i) PROVE ReturnOK'
  <2>1. CASE Crash(i)
    BY <2>1 DEF Crash, TypeOK, ReturnOK, Pc, At, Go, Via, redisVars, Own
  <2>2. CASE BootRead(i)
    BY <2>2 DEF BootRead, TypeOK, ReturnOK, Pc, At, Go, Via, redisVars, Own
  <2>3. CASE BootSweep(i)
    BY <2>3 DEF BootSweep, TypeOK, ReturnOK, Pc, At, Go, Via, redisVars, Own
  <2>4. CASE BootDelWait(i)
    BY <2>4 DEF BootDelWait, TypeOK, ReturnOK, Pc, At, Go, Via, redisVars, Own
  <2>5. CASE BootUnindex(i)
    BY <2>5 DEF BootUnindex, TypeOK, ReturnOK, Pc, At, Go, Via, redisVars, Own
  <2>6. CASE BootError(i)
    BY <2>6 DEF BootError, TypeOK, ReturnOK, Pc, At, Go, Via, redisVars, Own
  <2>7. CASE BootLegacy(i)
    BY <2>7 DEF BootLegacy, TypeOK, ReturnOK, Pc, At, Go, Via, redisVars, Own
  <2>. QED BY <1>2, <2>1, <2>2, <2>3, <2>4, <2>5, <2>6, <2>7 DEF Boot
<1>3. CASE Rest
  <2>1. CASE IndexDue
    BY <2>1 DEF IndexDue, TypeOK, ReturnOK, Pc, At, Go, Via, redisVars, Own
  <2>2. CASE JanitorRead
    BY <2>2 DEF JanitorRead, TypeOK, ReturnOK, Pc, At, Go, Via, redisVars, Own
  <2>3. CASE JanitorWrite
    BY <2>3 DEF JanitorWrite, TypeOK, ReturnOK, Pc, At, Go, Via, redisVars, Own
  <2>4. CASE GetConcurrency
    BY <2>4 DEF GetConcurrency, TypeOK, ReturnOK, Pc, At, Go, Via, redisVars, Own
  <2>5. CASE SlotKeyExpires
    BY <2>5 DEF SlotKeyExpires, TypeOK, ReturnOK, Pc, At, Go, Via, redisVars, Own
  <2>6. CASE LeaseKeyExpires
    BY <2>6 DEF LeaseKeyExpires, TypeOK, ReturnOK, Pc, At, Go, Via, redisVars, Own
  <2>7. CASE WaitKeyExpires
    BY <2>7 DEF WaitKeyExpires, TypeOK, ReturnOK, Pc, At, Go, Via, redisVars, Own
  <2>. QED BY <1>3, <2>1, <2>2, <2>3, <2>4, <2>5, <2>6, <2>7 DEF Rest
<1>4. CASE UNCHANGED vars
  BY <1>4 DEF vars, redisVars, TypeOK, ReturnOK, Pc, At, Go, Via, redisVars, Own
<1>. QED BY <1>1, <1>2, <1>3, <1>4 DEF Next, Act, Rest

\* It is enough to look at the request that moves.
LEMMA HoldsFrame ==
    ASSUME Holds, NEW r \in Requests, over' = over,
           \A q \in Requests \ {r} :
               /\ req'[q] = req[q]
               /\ slots[q] = "fresh" => slots'[q] = "fresh"
               /\ live[q] = "fresh" => live'[q] = "fresh",
           OnSlot(r)' /\ r \notin over => slots'[r] = "fresh",
           OnLease(r)' /\ r \notin over => live'[r] = "fresh"
    PROVE  Holds'
<1>1. ASSUME NEW q \in Requests \ {r}
      PROVE  (OnSlot(q)' <=> OnSlot(q)) /\ (OnLease(q)' <=> OnLease(q))
  BY DEF OnSlot, OnLease, Pc
<1>2. ASSUME NEW q \in Requests, OnSlot(q)', q \notin over'
      PROVE  slots'[q] = "fresh"
  <2>1. CASE q = r
    BY <1>2, <2>1
  <2>2. CASE q # r
    BY <1>1, <1>2, <2>2 DEF Holds
  <2>. QED BY <2>1, <2>2
<1>3. ASSUME NEW q \in Requests, OnLease(q)', q \notin over'
      PROVE  live'[q] = "fresh"
  <2>1. CASE q = r
    BY <1>3, <2>1
  <2>2. CASE q # r
    BY <1>1, <1>3, <2>2 DEF Holds
  <2>. QED BY <2>1, <2>2
<1>. QED BY <1>2, <1>3 DEF Holds

\* What is served is held, unless it is known not to be.
LEMMA HoldsStep == TypeOK /\ ReturnOK /\ Holds /\ [Next]_vars => Holds'
<1>. SUFFICES ASSUME TypeOK, ReturnOK, Holds, [Next]_vars PROVE Holds'
  OBVIOUS
<1>1. ASSUME NEW r \in Requests, Act(r) PROVE Holds'
  <2>1. CASE Arrive(r)
    <3>1. \A q \in Requests \ {r} : req'[q] = req[q]
      BY <2>1 DEF Arrive, TypeOK, Go, Via
    <3>2. \A q \in Requests \ {r} : slots[q] = "fresh" => slots'[q] = "fresh"
      BY <2>1, PurgedType DEF Arrive, AcquireSlot, AcquireRefused, TypeOK
    <3>3. \A q \in Requests \ {r} : live[q] = "fresh" => live'[q] = "fresh"
      BY <2>1, PurgedType DEF Arrive, AcquireSlot, AcquireRefused, TypeOK
    <3>4. OnSlot(r)' /\ r \notin over => slots'[r] = "fresh"
      BY <2>1, PurgedType DEF Arrive, AcquireSlot, AcquireRefused, TypeOK, ReturnOK,
          Holds, OnSlot, OnLease, Pc, At, Go, Via
    <3>5. OnLease(r)' /\ r \notin over => live'[r] = "fresh"
      BY <2>1, PurgedType DEF Arrive, AcquireSlot, AcquireRefused, TypeOK, ReturnOK,
          Holds, OnSlot, OnLease, Pc, At, Go, Via
    <3>. QED BY <2>1, <3>1, <3>2, <3>3, <3>4, <3>5, HoldsFrame DEF Arrive
  <2>2. CASE Retry(r)
    <3>1. \A q \in Requests \ {r} : req'[q] = req[q]
      BY <2>2 DEF Retry, TypeOK, Go, Via
    <3>2. \A q \in Requests \ {r} : slots[q] = "fresh" => slots'[q] = "fresh"
      BY <2>2, PurgedType DEF Retry, AcquireSlot, AcquireRefused, TypeOK
    <3>3. \A q \in Requests \ {r} : live[q] = "fresh" => live'[q] = "fresh"
      BY <2>2, PurgedType DEF Retry, AcquireSlot, AcquireRefused, TypeOK
    <3>4. OnSlot(r)' /\ r \notin over => slots'[r] = "fresh"
      BY <2>2, PurgedType DEF Retry, AcquireSlot, AcquireRefused, TypeOK, ReturnOK,
          Holds, OnSlot, OnLease, Pc, At, Go, Via
    <3>5. OnLease(r)' /\ r \notin over => live'[r] = "fresh"
      BY <2>2, PurgedType DEF Retry, AcquireSlot, AcquireRefused, TypeOK, ReturnOK,
          Holds, OnSlot, OnLease, Pc, At, Go, Via
    <3>. QED BY <2>2, <3>1, <3>2, <3>3, <3>4, <3>5, HoldsFrame DEF Retry
  <2>3. CASE AcquireLiveLease(r)
    <3>1. \A q \in Requests \ {r} : req'[q] = req[q]
      BY <2>3 DEF AcquireLiveLease, TypeOK, Go, Via
    <3>2. \A q \in Requests \ {r} : slots[q] = "fresh" => slots'[q] = "fresh"
      BY <2>3, PurgedType DEF AcquireLiveLease, GrantLease, TypeOK
    <3>3. \A q \in Requests \ {r} : live[q] = "fresh" => live'[q] = "fresh"
      BY <2>3, PurgedType DEF AcquireLiveLease, GrantLease, TypeOK
    <3>4. OnSlot(r)' /\ r \notin over => slots'[r] = "fresh"
      BY <2>3, PurgedType DEF AcquireLiveLease, GrantLease, TypeOK, ReturnOK, Holds,
          OnSlot, OnLease, Pc, At, Go, Via
    <3>5. OnLease(r)' /\ r \notin over => live'[r] = "fresh"
      BY <2>3, PurgedType DEF AcquireLiveLease, GrantLease, TypeOK, ReturnOK, Holds,
          OnSlot, OnLease, Pc, At, Go, Via
    <3>. QED BY <2>3, <3>1, <3>2, <3>3, <3>4, <3>5, HoldsFrame DEF AcquireLiveLease
  <2>4. CASE GiveUp(r)
    BY <2>4, PurgedType DEF GiveUp, TypeOK, ReturnOK, Holds, OnSlot, OnLease,
        AcquireSlot, AcquireRefused, GrantLease, Pc, At, Go, Via, redisVars, Own
  <2>5. CASE IncrementWaitCount(r)
    <3>1. \A q \in Requests \ {r} : req'[q] = req[q]
      BY <2>5 DEF IncrementWaitCount, TypeOK, Go, Via
    <3>2. \A q \in Requests \ {r} : slots[q] = "fresh" => slots'[q] = "fresh"
      BY <2>5, PurgedType DEF IncrementWaitCount, TypeOK
    <3>3. \A q \in Requests \ {r} : live[q] = "fresh" => live'[q] = "fresh"
      BY <2>5, PurgedType DEF IncrementWaitCount, TypeOK
    <3>4. Go(r, "waiting") \/ Go(r, "idle") \/ Via(r, "touch", "waiting")
      BY <2>5 DEF IncrementWaitCount
    <3>5. ~OnSlot(r)' /\ ~OnLease(r)'
      BY <3>4 DEF TypeOK, OnSlot, OnLease, Pc, At, Go, Via
    <3>. QED BY <2>5, <3>1, <3>2, <3>3, <3>5, HoldsFrame DEF IncrementWaitCount
  <2>6. CASE DecrementWaitCount(r)
    <3>1. PICK next \in {"running", "idle"} :
             /\ next = "running" <=> Pc(r) = "uncountRun"
             /\ Go(r, next) \/ Via(r, "read", next)
      BY <2>6 DEF DecrementWaitCount
    <3>2. \A q \in Requests \ {r} : req'[q] = req[q]
      BY <3>1 DEF TypeOK, Go, Via
    <3>3. req'[r] = At(next) \/ req'[r] = [At("read") EXCEPT !.then = next]
      BY <3>1 DEF TypeOK, Go, Via
    <3>4. ~OnLease(r)'
      BY <3>3 DEF OnLease, Pc, At
    <3>5. OnSlot(r)' => OnSlot(r)
      BY <3>1, <3>3 DEF OnSlot, Pc, At
    <3>6. OnSlot(r) /\ r \notin over => slots[r] = "fresh"
      BY DEF Holds
    <3>7. slots' = slots /\ live' = live /\ over' = over
      BY <2>6 DEF DecrementWaitCount
    <3>. QED BY <3>2, <3>4, <3>5, <3>6, <3>7, HoldsFrame
  <2>7. CASE ReleaseSlot(r)
    BY <2>7, PurgedType DEF ReleaseSlot, TypeOK, ReturnOK, Holds, OnSlot, OnLease,
        AcquireSlot, AcquireRefused, GrantLease, Pc, At, Go, Via, redisVars, Own
  <2>8. CASE TouchIndex(r)
    BY <2>8, PurgedType DEF TouchIndex, TypeOK, ReturnOK, Holds, OnSlot, OnLease,
        AcquireSlot, AcquireRefused, GrantLease, Pc, At, Go, Via, redisVars, Own
  <2>9. CASE ReadLoad(r)
    <3>1. \A q \in Requests \ {r} : req'[q] = req[q]
      BY <2>9 DEF ReadLoad, TypeOK, Go, Via
    <3>2. \A q \in Requests \ {r} : slots[q] = "fresh" => slots'[q] = "fresh"
      BY <2>9, PurgedType DEF ReadLoad, TypeOK
    <3>3. \A q \in Requests \ {r} : live[q] = "fresh" => live'[q] = "fresh"
      BY <2>9, PurgedType DEF ReadLoad, TypeOK
    <3>4. OnSlot(r)' /\ r \notin over => slots'[r] = "fresh"
      BY <2>9, PurgedType DEF ReadLoad, TypeOK, ReturnOK, Holds, OnSlot, OnLease,
          Pc, At, Go, Via
    <3>5. OnLease(r)' /\ r \notin over => live'[r] = "fresh"
      BY <2>9, PurgedType DEF ReadLoad, TypeOK, ReturnOK, Holds, OnSlot, OnLease,
          Pc, At, Go, Via
    <3>. QED BY <2>9, <3>1, <3>2, <3>3, <3>4, <3>5, HoldsFrame DEF ReadLoad
  <2>10. CASE WriteIndex(r)
    BY <2>10, PurgedType DEF WriteIndex, TypeOK, ReturnOK, Holds, OnSlot, OnLease,
        AcquireSlot, AcquireRefused, GrantLease, Pc, At, Go, Via, redisVars, Own
  <2>11. CASE RefreshLiveLease(r)
    <3>1. \A q \in Requests \ {r} : req'[q] = req[q]
      BY <2>11 DEF RefreshLiveLease, TypeOK, Go, Via
    <3>2. \A q \in Requests \ {r} : slots[q] = "fresh" => slots'[q] = "fresh"
      BY <2>11, PurgedType DEF RefreshLiveLease, TypeOK
    <3>3. \A q \in Requests \ {r} : live[q] = "fresh" => live'[q] = "fresh"
      BY <2>11, PurgedType DEF RefreshLiveLease, TypeOK
    <3>4. OnSlot(r)' /\ r \notin over => slots'[r] = "fresh"
      BY <2>11, PurgedType DEF RefreshLiveLease, TypeOK, ReturnOK, Holds, OnSlot,
          OnLease, Pc, At, Go, Via
    <3>5. OnLease(r)' /\ r \notin over => live'[r] = "fresh"
      BY <2>11, PurgedType DEF RefreshLiveLease, TypeOK, ReturnOK, Holds, OnSlot,
          OnLease, Pc, At, Go, Via
    <3>. QED BY <2>11, <3>1, <3>2, <3>3, <3>4, <3>5, HoldsFrame DEF RefreshLiveLease
  <2>12. CASE LiveEnds(r)
    BY <2>12, PurgedType DEF LiveEnds, TypeOK, ReturnOK, Holds, OnSlot, OnLease,
        AcquireSlot, AcquireRefused, GrantLease, Pc, At, Go, Via, redisVars, Own
  <2>13. CASE ReleaseLiveLease(r)
    BY <2>13, PurgedType DEF ReleaseLiveLease, TypeOK, ReturnOK, Holds, OnSlot,
        OnLease, AcquireSlot, AcquireRefused, GrantLease, Pc, At, Go, Via,
        redisVars, Own
  <2>14. CASE SlotAges(r)
    BY <2>14, PurgedType DEF SlotAges, TypeOK, ReturnOK, Holds, OnSlot, OnLease,
        AcquireSlot, AcquireRefused, GrantLease, Pc, At, Go, Via, redisVars, Own
  <2>15. CASE LeaseAges(r)
    BY <2>15, PurgedType DEF LeaseAges, TypeOK, ReturnOK, Holds, OnSlot, OnLease,
        AcquireSlot, AcquireRefused, GrantLease, Pc, At, Go, Via, redisVars, Own
  <2>16. CASE CreateFails(r)
    BY <2>16, PurgedType DEF CreateFails, TypeOK, ReturnOK, Holds, OnSlot, OnLease,
        AcquireSlot, AcquireRefused, GrantLease, Pc, At, Go, Via, redisVars, Own
  <2>. QED BY <1>1, <2>1, <2>2, <2>3, <2>4, <2>5, <2>6, <2>7, <2>8, <2>9, <2>10,
      <2>11, <2>12, <2>13, <2>14, <2>15, <2>16 DEF Act, Serve
<1>2. ASSUME NEW i \in Instances, Crash(i) \/ Boot(i) PROVE Holds'
  <2>1. CASE Crash(i)
    BY <2>1, PurgedType DEF Crash, TypeOK, ReturnOK, Holds, OnSlot, OnLease,
        AcquireSlot, AcquireRefused, GrantLease, Pc, At, Go, Via, redisVars, Own
  <2>2. CASE BootRead(i)
    BY <2>2, PurgedType DEF BootRead, TypeOK, ReturnOK, Holds, OnSlot, OnLease,
        AcquireSlot, AcquireRefused, GrantLease, Pc, At, Go, Via, redisVars, Own
  <2>3. CASE BootSweep(i)
    BY <2>3, PurgedType DEF BootSweep, TypeOK, ReturnOK, Holds, OnSlot, OnLease,
        AcquireSlot, AcquireRefused, GrantLease, Pc, At, Go, Via, redisVars, Own
  <2>4. CASE BootDelWait(i)
    BY <2>4, PurgedType DEF BootDelWait, TypeOK, ReturnOK, Holds, OnSlot, OnLease,
        AcquireSlot, AcquireRefused, GrantLease, Pc, At, Go, Via, redisVars, Own
  <2>5. CASE BootUnindex(i)
    BY <2>5, PurgedType DEF BootUnindex, TypeOK, ReturnOK, Holds, OnSlot, OnLease,
        AcquireSlot, AcquireRefused, GrantLease, Pc, At, Go, Via, redisVars, Own
  <2>6. CASE BootError(i)
    BY <2>6, PurgedType DEF BootError, TypeOK, ReturnOK, Holds, OnSlot, OnLease,
        AcquireSlot, AcquireRefused, GrantLease, Pc, At, Go, Via, redisVars, Own
  <2>7. CASE BootLegacy(i)
    BY <2>7, PurgedType DEF BootLegacy, TypeOK, ReturnOK, Holds, OnSlot, OnLease,
        AcquireSlot, AcquireRefused, GrantLease, Pc, At, Go, Via, redisVars, Own
  <2>. QED BY <1>2, <2>1, <2>2, <2>3, <2>4, <2>5, <2>6, <2>7 DEF Boot
<1>3. CASE Rest
  <2>1. CASE IndexDue
    BY <2>1, PurgedType DEF IndexDue, TypeOK, ReturnOK, Holds, OnSlot, OnLease,
        AcquireSlot, AcquireRefused, GrantLease, Pc, At, Go, Via, redisVars, Own
  <2>2. CASE JanitorRead
    BY <2>2, PurgedType DEF JanitorRead, TypeOK, ReturnOK, Holds, OnSlot, OnLease,
        AcquireSlot, AcquireRefused, GrantLease, Pc, At, Go, Via, redisVars, Own
  <2>3. CASE JanitorWrite
    BY <2>3, PurgedType DEF JanitorWrite, TypeOK, ReturnOK, Holds, OnSlot, OnLease,
        AcquireSlot, AcquireRefused, GrantLease, Pc, At, Go, Via, redisVars, Own
  <2>4. CASE GetConcurrency
    BY <2>4, PurgedType DEF GetConcurrency, TypeOK, ReturnOK, Holds, OnSlot,
        OnLease, AcquireSlot, AcquireRefused, GrantLease, Pc, At, Go, Via,
        redisVars, Own
  <2>5. CASE SlotKeyExpires
    BY <2>5, PurgedType DEF SlotKeyExpires, TypeOK, ReturnOK, Holds, OnSlot,
        OnLease, AcquireSlot, AcquireRefused, GrantLease, Pc, At, Go, Via,
        redisVars, Own
  <2>6. CASE LeaseKeyExpires
    BY <2>6, PurgedType DEF LeaseKeyExpires, TypeOK, ReturnOK, Holds, OnSlot,
        OnLease, AcquireSlot, AcquireRefused, GrantLease, Pc, At, Go, Via,
        redisVars, Own
  <2>7. CASE WaitKeyExpires
    BY <2>7, PurgedType DEF WaitKeyExpires, TypeOK, ReturnOK, Holds, OnSlot,
        OnLease, AcquireSlot, AcquireRefused, GrantLease, Pc, At, Go, Via,
        redisVars, Own
  <2>. QED BY <1>3, <2>1, <2>2, <2>3, <2>4, <2>5, <2>6, <2>7 DEF Rest
<1>4. CASE UNCHANGED vars
  BY <1>4, PurgedType DEF vars, redisVars, TypeOK, ReturnOK, Holds, OnSlot, OnLease,
      AcquireSlot, AcquireRefused, GrantLease, Pc, At, Go, Via, redisVars, Own
<1>. QED BY <1>1, <1>2, <1>3, <1>4 DEF Next, Act, Rest

-----------------------------------------------------------------------------
(* The limit *)

\* Whoever is served and not known to be beyond the limit is counted.
LEMMA ServedAreCounted ==
    ASSUME TypeOK, Holds
    PROVE  Cardinality(Served \ over) <= Used /\ Used \in Nat
<1>. DEFINE A == Members(Purged(slots))
            B == Members(Purged(live))
<1>1. Served \ over \subseteq A \cup B
  <2>1. \A r \in Requests : slots[r] = "fresh" => r \in A
    BY DEF Purged, Members
  <2>2. \A r \in Requests : live[r] = "fresh" => r \in B
    BY DEF Purged, Members
  <2>. QED BY <2>1, <2>2 DEF Served, Holds
<1>2. A \in SUBSET Requests /\ B \in SUBSET Requests
  BY DEF Members
<1>3. /\ IsFiniteSet(A) /\ IsFiniteSet(B)
      /\ Cardinality(A) \in Nat /\ Cardinality(B) \in Nat
      /\ Cardinality(A \cap B) \in Nat /\ Cardinality(A \cup B) \in Nat
      /\ IsFiniteSet(A \cup B)
  <2>1. A \cap B \in SUBSET Requests /\ A \cup B \in SUBSET Requests
    BY <1>2
  <2>. QED BY <1>2, <2>1, FiniteRequests
<1>4. Cardinality(A \cup B) = Cardinality(A) + Cardinality(B) - Cardinality(A \cap B)
  BY <1>3, FS_Union
<1>5. Cardinality(Served \ over) <= Cardinality(A \cup B)
  BY <1>1, <1>3, FS_Subset
<1>6. Cardinality(Served \ over) \in Nat
  <2>1. Served \ over \in SUBSET Requests
    BY DEF Served
  <2>. QED BY <2>1, FiniteRequests
<1>7. Used = Cardinality(A) + Cardinality(B)
  BY DEF Used
<1>. QED BY <1>3, <1>4, <1>5, <1>6, <1>7

\* Nobody new is served.
LEMMA ServedShrinks ==
    ASSUME ServedWithinLimit, Served' \ over' \subseteq Served \ over
    PROVE  ServedWithinLimit'
<1>1. Served \ over \in SUBSET Requests /\ Served' \ over' \in SUBSET Requests
  BY DEF Served
<1>2. Cardinality(Served' \ over') <= Cardinality(Served \ over)
  BY <1>1, FiniteRequests, FS_Subset
<1>3. Cardinality(Served' \ over') \in Nat /\ Cardinality(Served \ over) \in Nat
  BY <1>1, FiniteRequests
<1>. QED BY <1>2, <1>3 DEF ServedWithinLimit

\* One more is served, when there was room.
LEMMA ServedGrows ==
    ASSUME TypeOK, Holds, NEW r \in Requests, Used < Max,
           Served' \ over' \subseteq (Served \ over) \cup {r}
    PROVE  ServedWithinLimit'
<1>. DEFINE S == Served \ over
            T == S \cup {r}
<1>1. S \in SUBSET Requests /\ T \in SUBSET Requests /\ Served' \ over' \in SUBSET Requests
  BY DEF Served
<1>2. /\ Cardinality(S) \in Nat /\ Cardinality(T) \in Nat /\ IsFiniteSet(S) /\ IsFiniteSet(T)
      /\ Cardinality(Served' \ over') \in Nat
  BY <1>1, FiniteRequests
<1>3. Cardinality(T) = Cardinality(S) \/ Cardinality(T) = Cardinality(S) + 1
  BY <1>2, FS_AddElement
<1>4. Cardinality(Served' \ over') <= Cardinality(T)
  BY <1>2, FS_Subset
<1>5. Cardinality(S) <= Used /\ Used \in Nat
  BY ServedAreCounted
<1>6. Cardinality(Served' \ over') <= Max
  BY <1>2, <1>3, <1>4, <1>5
<1>. QED BY <1>6 DEF ServedWithinLimit

\* Every step keeps the limit.
LEMMA ServedStep == TypeOK /\ ReturnOK /\ Holds /\ ServedWithinLimit /\ [Next]_vars
    => ServedWithinLimit'
<1>. SUFFICES ASSUME TypeOK, ReturnOK, Holds, ServedWithinLimit, [Next]_vars PROVE
    ServedWithinLimit'
  OBVIOUS
<1>1. ASSUME NEW r \in Requests, Act(r) PROVE ServedWithinLimit'
  <2>1. CASE Arrive(r)
    <3>0. \A q \in Requests \ {r} : (OnSlot(q)' <=> OnSlot(q)) /\ (OnLease(q)' <=> OnLease(q))
      BY <2>1 DEF Arrive, TypeOK, Go, Via, OnSlot, OnLease, Pc
    <3>1. CASE Used < Max
      <4>1. Served' \ over' \subseteq (Served \ over) \cup {r}
        BY <2>1, <3>0 DEF Arrive, Served
      <4>. QED BY <3>1, <4>1, ServedGrows
    <3>2. CASE ~(Used < Max)
      <4>1. ~OnSlot(r)' /\ ~OnLease(r)'
        BY <2>1, <3>2 DEF Arrive, AcquireSlot, TypeOK, Go, Via, At, OnSlot, OnLease,
            Pc
      <4>2. Served' \ over' \subseteq Served \ over
        BY <2>1, <3>0, <4>1 DEF Arrive, Served
      <4>. QED BY <4>2, ServedShrinks
    <3>. QED BY <3>1, <3>2
  <2>2. CASE Retry(r)
    <3>0. \A q \in Requests \ {r} : (OnSlot(q)' <=> OnSlot(q)) /\ (OnLease(q)' <=> OnLease(q))
      BY <2>2 DEF Retry, TypeOK, Go, Via, OnSlot, OnLease, Pc
    <3>1. CASE Used < Max
      <4>1. Served' \ over' \subseteq (Served \ over) \cup {r}
        BY <2>2, <3>0 DEF Retry, Served
      <4>. QED BY <3>1, <4>1, ServedGrows
    <3>2. CASE ~(Used < Max)
      <4>1. ~OnSlot(r)' /\ ~OnLease(r)'
        BY <2>2, <3>2 DEF Retry, AcquireSlot, TypeOK, Go, Via, At, OnSlot, OnLease,
            Pc
      <4>2. Served' \ over' \subseteq Served \ over
        BY <2>2, <3>0, <4>1 DEF Retry, Served
      <4>. QED BY <4>2, ServedShrinks
    <3>. QED BY <3>1, <3>2
  <2>3. CASE AcquireLiveLease(r)
    <3>1. Served' \ over' \subseteq Served \ over
      BY <2>3 DEF AcquireLiveLease, TypeOK, ReturnOK, Served, OnSlot, OnLease, Pc,
          At, Go, Via, redisVars, Own
    <3>. QED BY <3>1, ServedShrinks
  <2>4. CASE GiveUp(r)
    <3>1. Served' \ over' \subseteq Served \ over
      BY <2>4 DEF GiveUp, TypeOK, ReturnOK, Served, OnSlot, OnLease, Pc, At, Go,
          Via, redisVars, Own
    <3>. QED BY <3>1, ServedShrinks
  <2>5. CASE IncrementWaitCount(r)
    <3>1. Served' \ over' \subseteq Served \ over
      BY <2>5 DEF IncrementWaitCount, TypeOK, ReturnOK, Served, OnSlot, OnLease, Pc,
          At, Go, Via, redisVars, Own
    <3>. QED BY <3>1, ServedShrinks
  <2>6. CASE DecrementWaitCount(r)
    <3>1. PICK next \in {"running", "idle"} :
             /\ next = "running" <=> Pc(r) = "uncountRun"
             /\ Go(r, next) \/ Via(r, "read", next)
      BY <2>6 DEF DecrementWaitCount
    <3>2. /\ \A q \in Requests \ {r} : req'[q] = req[q]
          /\ req'[r] = At(next) \/ req'[r] = [At("read") EXCEPT !.then = next]
      BY <3>1 DEF TypeOK, Go, Via
    <3>3. (OnSlot(r)' => OnSlot(r)) /\ ~OnLease(r)'
      BY <3>1, <3>2 DEF OnSlot, OnLease, Pc, At
    <3>4. over' = over
      BY <2>6 DEF DecrementWaitCount
    <3>5. Served' \ over' \subseteq Served \ over
      BY <3>2, <3>3, <3>4 DEF Served, OnSlot, OnLease, Pc
    <3>. QED BY <3>5, ServedShrinks
  <2>7. CASE ReleaseSlot(r)
    <3>1. Served' \ over' \subseteq Served \ over
      BY <2>7 DEF ReleaseSlot, TypeOK, ReturnOK, Served, OnSlot, OnLease, Pc, At,
          Go, Via, redisVars, Own
    <3>. QED BY <3>1, ServedShrinks
  <2>8. CASE TouchIndex(r)
    <3>1. Served' \ over' \subseteq Served \ over
      BY <2>8 DEF TouchIndex, TypeOK, ReturnOK, Served, OnSlot, OnLease, Pc, At, Go,
          Via, redisVars, Own
    <3>. QED BY <3>1, ServedShrinks
  <2>9. CASE ReadLoad(r)
    <3>1. \/ req'[r].pc = "index" /\ req'[r].then = req[r].then
          \/ req'[r] = At(req[r].then)
      BY <2>9 DEF ReadLoad, TypeOK, Go
    <3>2. \A q \in Requests \ {r} : req'[q] = req[q]
      BY <2>9 DEF ReadLoad, TypeOK, Go
    <3>3. Pc(r) = "read" /\ over' = over
      BY <2>9 DEF ReadLoad
    <3>4. Served' \ over' \subseteq Served \ over
      BY <3>1, <3>2, <3>3 DEF ReturnOK, Served, OnSlot, OnLease, Pc, At
    <3>. QED BY <3>4, ServedShrinks
  <2>10. CASE WriteIndex(r)
    <3>1. Served' \ over' \subseteq Served \ over
      BY <2>10 DEF WriteIndex, TypeOK, ReturnOK, Served, OnSlot, OnLease, Pc, At,
          Go, Via, redisVars, Own
    <3>. QED BY <3>1, ServedShrinks
  <2>11. CASE RefreshLiveLease(r)
    <3>1. Served' \ over' \subseteq Served \ over
      BY <2>11 DEF RefreshLiveLease, TypeOK, ReturnOK, Served, OnSlot, OnLease, Pc,
          At, Go, Via, redisVars, Own
    <3>. QED BY <3>1, ServedShrinks
  <2>12. CASE LiveEnds(r)
    <3>1. Served' \ over' \subseteq Served \ over
      BY <2>12 DEF LiveEnds, TypeOK, ReturnOK, Served, OnSlot, OnLease, Pc, At, Go,
          Via, redisVars, Own
    <3>. QED BY <3>1, ServedShrinks
  <2>13. CASE ReleaseLiveLease(r)
    <3>1. Served' \ over' \subseteq Served \ over
      BY <2>13 DEF ReleaseLiveLease, TypeOK, ReturnOK, Served, OnSlot, OnLease, Pc,
          At, Go, Via, redisVars, Own
    <3>. QED BY <3>1, ServedShrinks
  <2>14. CASE SlotAges(r)
    <3>1. Served' \ over' \subseteq Served \ over
      BY <2>14 DEF SlotAges, TypeOK, ReturnOK, Served, OnSlot, OnLease, Pc, At, Go,
          Via, redisVars, Own
    <3>. QED BY <3>1, ServedShrinks
  <2>15. CASE LeaseAges(r)
    <3>1. Served' \ over' \subseteq Served \ over
      BY <2>15 DEF LeaseAges, TypeOK, ReturnOK, Served, OnSlot, OnLease, Pc, At, Go,
          Via, redisVars, Own
    <3>. QED BY <3>1, ServedShrinks
  <2>16. CASE CreateFails(r)
    <3>1. Served' \ over' \subseteq Served \ over
      BY <2>16 DEF CreateFails, TypeOK, ReturnOK, Served, OnSlot, OnLease, Pc, At, Go,
          Via, redisVars, Own
    <3>. QED BY <3>1, ServedShrinks
  <2>. QED BY <1>1, <2>1, <2>2, <2>3, <2>4, <2>5, <2>6, <2>7, <2>8, <2>9, <2>10,
      <2>11, <2>12, <2>13, <2>14, <2>15, <2>16 DEF Act, Serve
<1>2. ASSUME NEW i \in Instances, Crash(i) \/ Boot(i) PROVE ServedWithinLimit'
  <2>1. CASE Crash(i)
    <3>1. Served' \ over' \subseteq Served \ over
      BY <2>1 DEF Crash, TypeOK, ReturnOK, Served, OnSlot, OnLease, Pc, At, Go, Via,
          redisVars, Own
    <3>. QED BY <3>1, ServedShrinks
  <2>2. CASE BootRead(i)
    <3>1. Served' \ over' \subseteq Served \ over
      BY <2>2 DEF BootRead, TypeOK, ReturnOK, Served, OnSlot, OnLease, Pc, At, Go,
          Via, redisVars, Own
    <3>. QED BY <3>1, ServedShrinks
  <2>3. CASE BootSweep(i)
    <3>1. Served' \ over' \subseteq Served \ over
      BY <2>3 DEF BootSweep, TypeOK, ReturnOK, Served, OnSlot, OnLease, Pc, At, Go,
          Via, redisVars, Own
    <3>. QED BY <3>1, ServedShrinks
  <2>4. CASE BootDelWait(i)
    <3>1. Served' \ over' \subseteq Served \ over
      BY <2>4 DEF BootDelWait, TypeOK, ReturnOK, Served, OnSlot, OnLease, Pc, At,
          Go, Via, redisVars, Own
    <3>. QED BY <3>1, ServedShrinks
  <2>5. CASE BootUnindex(i)
    <3>1. Served' \ over' \subseteq Served \ over
      BY <2>5 DEF BootUnindex, TypeOK, ReturnOK, Served, OnSlot, OnLease, Pc, At,
          Go, Via, redisVars, Own
    <3>. QED BY <3>1, ServedShrinks
  <2>6. CASE BootError(i)
    <3>1. Served' \ over' \subseteq Served \ over
      BY <2>6 DEF BootError, TypeOK, ReturnOK, Served, OnSlot, OnLease, Pc, At, Go,
          Via, redisVars, Own
    <3>. QED BY <3>1, ServedShrinks
  <2>7. CASE BootLegacy(i)
    <3>1. Served' \ over' \subseteq Served \ over
      BY <2>7 DEF BootLegacy, TypeOK, ReturnOK, Served, OnSlot, OnLease, Pc, At, Go,
          Via, redisVars, Own
    <3>. QED BY <3>1, ServedShrinks
  <2>. QED BY <1>2, <2>1, <2>2, <2>3, <2>4, <2>5, <2>6, <2>7 DEF Boot
<1>3. CASE Rest
  <2>1. CASE IndexDue
    <3>1. Served' \ over' \subseteq Served \ over
      BY <2>1 DEF IndexDue, TypeOK, ReturnOK, Served, OnSlot, OnLease, Pc, At, Go,
          Via, redisVars, Own
    <3>. QED BY <3>1, ServedShrinks
  <2>2. CASE JanitorRead
    <3>1. Served' \ over' \subseteq Served \ over
      BY <2>2 DEF JanitorRead, TypeOK, ReturnOK, Served, OnSlot, OnLease, Pc, At,
          Go, Via, redisVars, Own
    <3>. QED BY <3>1, ServedShrinks
  <2>3. CASE JanitorWrite
    <3>1. Served' \ over' \subseteq Served \ over
      BY <2>3 DEF JanitorWrite, TypeOK, ReturnOK, Served, OnSlot, OnLease, Pc, At,
          Go, Via, redisVars, Own
    <3>. QED BY <3>1, ServedShrinks
  <2>4. CASE GetConcurrency
    <3>1. Served' \ over' \subseteq Served \ over
      BY <2>4 DEF GetConcurrency, TypeOK, ReturnOK, Served, OnSlot, OnLease, Pc, At,
          Go, Via, redisVars, Own
    <3>. QED BY <3>1, ServedShrinks
  <2>5. CASE SlotKeyExpires
    <3>1. Served' \ over' \subseteq Served \ over
      BY <2>5 DEF SlotKeyExpires, TypeOK, ReturnOK, Served, OnSlot, OnLease, Pc, At,
          Go, Via, redisVars, Own
    <3>. QED BY <3>1, ServedShrinks
  <2>6. CASE LeaseKeyExpires
    <3>1. Served' \ over' \subseteq Served \ over
      BY <2>6 DEF LeaseKeyExpires, TypeOK, ReturnOK, Served, OnSlot, OnLease, Pc,
          At, Go, Via, redisVars, Own
    <3>. QED BY <3>1, ServedShrinks
  <2>7. CASE WaitKeyExpires
    <3>1. Served' \ over' \subseteq Served \ over
      BY <2>7 DEF WaitKeyExpires, TypeOK, ReturnOK, Served, OnSlot, OnLease, Pc, At,
          Go, Via, redisVars, Own
    <3>. QED BY <3>1, ServedShrinks
  <2>. QED BY <1>3, <2>1, <2>2, <2>3, <2>4, <2>5, <2>6, <2>7 DEF Rest
<1>4. CASE UNCHANGED vars
  <3>1. Served' \ over' \subseteq Served \ over
    BY <1>4 DEF vars, redisVars, TypeOK, ReturnOK, Served, OnSlot, OnLease, Pc, At,
        Go, Via, redisVars, Own
  <3>. QED BY <3>1, ServedShrinks
<1>. QED BY <1>1, <1>2, <1>3, <1>4 DEF Next, Act, Rest

-----------------------------------------------------------------------------
(* The queue *)

\* Both sides of the count, together.
QueueOK == WaitersWithinLimit /\ NoPhantomWaiters

\* Neither the counter nor the queue moves.
LEMMA QueueSame ==
    ASSUME QueueOK, Queue' = Queue, wait' = wait, skew' = skew
    PROVE  QueueOK'
BY DEF QueueOK, WaitersWithinLimit, NoPhantomWaiters, Queue

\* One more waits, and is counted or added to what the counter missed.
LEMMA QueueIn ==
    ASSUME TypeOK, QueueOK, NEW r, r \notin Queue, Queue' = Queue \cup {r},
           \/ wait' = wait + 1 /\ skew' = skew
           \/ wait' = wait /\ skew' = [skew EXCEPT !.low = @ + 1]
    PROVE  QueueOK'
<1>1. Cardinality(Queue') = Cardinality(Queue) + 1 /\ Cardinality(Queue) \in Nat
  <2>1. Cardinality(Queue \cup {r}) = Cardinality(Queue) + 1
    BY QueueFinite, FS_AddElement
  <2>. QED BY <2>1, QueueFinite
<1>2. wait \in Nat /\ skew.low \in Nat /\ skew.high \in Nat
  BY DEF TypeOK
<1>3. \/ wait' = wait + 1 /\ skew'.low = skew.low /\ skew'.high = skew.high
      \/ wait' = wait /\ skew'.low = skew.low + 1 /\ skew'.high = skew.high
  BY DEF TypeOK
<1>. QED BY <1>1, <1>2, <1>3 DEF QueueOK, WaitersWithinLimit, NoPhantomWaiters, Queue

\* One leaves.  Nobody is missed in an empty queue, and nobody counted too much in
\* a counter at zero.
LEMMA QueueOut ==
    ASSUME TypeOK, QueueOK, NEW r \in Queue, Queue' = Queue \ {r},
           \/ /\ wait' = IF wait > 0 THEN wait - 1 ELSE 0
              /\ skew' = [low  |-> IF Queue' = {} THEN 0 ELSE skew.low,
                          high |-> IF wait' = 0 THEN 0 ELSE skew.high]
           \/ wait' = wait /\ skew' = [skew EXCEPT !.high = @ + 1]
    PROVE  QueueOK'
<1>1. /\ Cardinality(Queue') = Cardinality(Queue) - 1
      /\ Cardinality(Queue) \in Nat /\ Cardinality(Queue') \in Nat
  <2>1. Cardinality(Queue \ {r}) = Cardinality(Queue) - 1 /\ IsFiniteSet(Queue \ {r})
    BY QueueFinite, FS_RemoveElement
  <2>. QED BY <2>1, QueueFinite, FS_CardinalityType
<1>2. wait \in Nat /\ skew.low \in Nat /\ skew.high \in Nat
  BY DEF TypeOK
<1>3. Queue' = {} => Cardinality(Queue') = 0
  BY FS_EmptySet
<1>4. CASE wait' = wait /\ skew' = [skew EXCEPT !.high = @ + 1]
  <2>1. skew'.low = skew.low /\ skew'.high = skew.high + 1
    BY <1>4 DEF TypeOK
  <2>. QED BY <1>1, <1>2, <1>4, <2>1
      DEF QueueOK, WaitersWithinLimit, NoPhantomWaiters, Queue
<1>5. CASE /\ wait' = IF wait > 0 THEN wait - 1 ELSE 0
           /\ skew' = [low  |-> IF Queue' = {} THEN 0 ELSE skew.low,
                       high |-> IF wait' = 0 THEN 0 ELSE skew.high]
  <2>1. /\ skew'.low = IF Queue' = {} THEN 0 ELSE skew.low
        /\ skew'.high = IF wait' = 0 THEN 0 ELSE skew.high
    BY <1>5
  <2>2. Cardinality(Queue') <= wait' + skew'.low
    BY <1>1, <1>2, <1>3, <1>5, <2>1 DEF QueueOK, WaitersWithinLimit, Queue
  <2>3. wait' <= Cardinality(Queue') + skew'.high
    BY <1>1, <1>2, <1>5, <2>1 DEF QueueOK, NoPhantomWaiters, Queue
  <2>. QED BY <2>2, <2>3 DEF QueueOK, WaitersWithinLimit, NoPhantomWaiters, Queue
<1>. QED BY <1>4, <1>5

\* The counter is lost: it misses exactly those who wait.
LEMMA QueueLost ==
    ASSUME Queue' = Queue, CounterLost
    PROVE  QueueOK'
<1>1. wait' = 0 /\ skew'.low = Cardinality(Queue) /\ skew'.high = 0
  BY DEF CounterLost, Queue
<1>2. Cardinality(Queue) \in Nat
  BY QueueFinite
<1>. QED BY <1>1, <1>2 DEF QueueOK, WaitersWithinLimit, NoPhantomWaiters, Queue

\* Some are gone with their instance: they stay counted, each once.
LEMMA QueueCrash ==
    ASSUME TypeOK, QueueOK, NEW S, Queue' = Queue \ S, wait' = wait,
           skew' = [skew EXCEPT !.high = @ + Cardinality(Queue \cap S)]
    PROVE  QueueOK'
<1>1. /\ Cardinality(Queue') = Cardinality(Queue) - Cardinality(Queue \cap S)
      /\ Cardinality(Queue) \in Nat /\ Cardinality(Queue') \in Nat
      /\ Cardinality(Queue \cap S) \in Nat
  <2>1. /\ IsFiniteSet(Queue \ S)
        /\ Cardinality(Queue \ S) = Cardinality(Queue) - Cardinality(Queue \cap S)
    BY QueueFinite, FS_Difference
  <2>2. IsFiniteSet(Queue \cap S)
    BY QueueFinite, FS_Intersection
  <2>. QED BY <2>1, <2>2, QueueFinite, FS_CardinalityType
<1>2. wait \in Nat /\ skew.low \in Nat /\ skew.high \in Nat
  BY DEF TypeOK
<1>3. /\ skew'.low = skew.low
      /\ skew'.high = skew.high + Cardinality(Queue \cap S)
  BY DEF TypeOK
<1>. QED BY <1>1, <1>2, <1>3 DEF QueueOK, WaitersWithinLimit, NoPhantomWaiters, Queue

\* Every step keeps the count of the queue.
LEMMA QueueStep == TypeOK /\ ReturnOK /\ QueueOK /\ [Next]_vars => QueueOK'
<1>. SUFFICES ASSUME TypeOK, ReturnOK, QueueOK, [Next]_vars PROVE QueueOK'
  OBVIOUS
<1>1. ASSUME NEW r \in Requests, Act(r) PROVE QueueOK'
  <2>1. CASE Arrive(r)
    <3>1. Go(r, "idle") \/ Go(r, "count") \/ Via(r, "touch", "running")
      BY <2>1 DEF Arrive
    <3>2. /\ \A q \in Requests \ {r} : req'[q] = req[q]
          /\ ~Counted(r) /\ ~Counted(r)'
      BY <2>1, <3>1 DEF Arrive, TypeOK, Counted, Pc, At, Go, Via
    <3>3. Queue' = Queue
      BY <3>2 DEF Queue, StillCounted, Counted, Pc
    <3>. QED BY <2>1, <3>3, QueueSame DEF Arrive
  <2>2. CASE Retry(r)
    <3>1. \A q \in Requests \ {r} : req'[q] = req[q]
      BY <2>2 DEF Retry, TypeOK, Go, Via
    <3>2. Counted(r) /\ Counted(r)'
      <4>1. \/ req' = req \/ Go(r, "uncountEnd") \/ Via(r, "touch", "uncountRun")
        BY <2>2 DEF Retry
      <4>. QED BY <2>2, <4>1 DEF Retry, TypeOK, Counted, Pc, Go, Via, At
    <3>3. Queue' = Queue
      BY <3>1, <3>2 DEF Queue, StillCounted, Counted, Pc
    <3>. QED BY <2>2, <3>3, QueueSame DEF Retry
  <2>3. CASE AcquireLiveLease(r)
    <3>1. Queue' = Queue
      BY <2>3 DEF AcquireLiveLease, TypeOK, ReturnOK, Queue, StillCounted, Counted, Pc,
          At, Go, Via, redisVars, Own
    <3>. QED BY <2>3, <3>1, QueueSame DEF AcquireLiveLease, redisVars
  <2>4. CASE GiveUp(r)
    <3>1. Queue' = Queue
      BY <2>4 DEF GiveUp, TypeOK, ReturnOK, Queue, StillCounted, Counted, Pc, At, Go,
          Via, redisVars, Own
    <3>. QED BY <2>4, <3>1, QueueSame DEF GiveUp, redisVars
  <2>5. CASE IncrementWaitCount(r)
    <3>1. r \notin Queue
      BY <2>5 DEF IncrementWaitCount, Queue, StillCounted, Counted, Pc
    <3>2. CASE wait >= MaxWait[r] /\ Go(r, "idle") /\ UNCHANGED <<wait, skew>>
      <4>1. Queue' = Queue
        BY <2>5, <3>2 DEF IncrementWaitCount, TypeOK, ReturnOK, Queue, StillCounted,
            Counted, Pc, At, Go, Via, redisVars, Own
      <4>. QED BY <3>2, <4>1, QueueSame
    <3>3. CASE /\ Go(r, "waiting") \/ Via(r, "touch", "waiting")
               /\ \/ wait' = wait + 1 /\ skew' = skew
                  \/ wait' = wait /\ skew' = [skew EXCEPT !.low = @ + 1]
      <4>1. Queue' = Queue \cup {r}
        BY <3>3 DEF TypeOK, ReturnOK, Queue, StillCounted, Counted, Pc, At, Go, Via,
            redisVars, Own
      <4>. QED BY <3>1, <3>3, <4>1, QueueIn
    <3>. QED BY <2>5, <3>2, <3>3 DEF IncrementWaitCount
  <2>6. CASE DecrementWaitCount(r)
    <3>1. r \in Queue
      BY <2>6 DEF DecrementWaitCount, Queue, StillCounted, Counted
    <3>2. PICK next \in {"running", "idle"} : Go(r, next) \/ Via(r, "read", next)
      BY <2>6 DEF DecrementWaitCount
    <3>3. Queue' = Queue \ {r}
      BY <3>2 DEF TypeOK, ReturnOK, Queue, StillCounted, Counted, Pc, At, Go, Via,
          redisVars, Own
    <3>4. Queue \ {r} = StillCounted({r})
      BY DEF Queue, StillCounted
    <3>5. \/ /\ wait' = IF wait > 0 THEN wait - 1 ELSE 0
             /\ skew' = [low  |-> IF Queue' = {} THEN 0 ELSE skew.low,
                         high |-> IF wait' = 0 THEN 0 ELSE skew.high]
          \/ wait' = wait /\ skew' = [skew EXCEPT !.high = @ + 1]
      BY <2>6, <3>3, <3>4 DEF DecrementWaitCount
    <3>. QED BY <3>1, <3>3, <3>5, QueueOut
  <2>7. CASE ReleaseSlot(r)
    <3>1. Queue' = Queue
      BY <2>7 DEF ReleaseSlot, TypeOK, ReturnOK, Queue, StillCounted, Counted, Pc, At,
          Go, Via, redisVars, Own
    <3>. QED BY <2>7, <3>1, QueueSame DEF ReleaseSlot, redisVars
  <2>8. CASE TouchIndex(r)
    <3>1. Queue' = Queue
      BY <2>8 DEF TouchIndex, TypeOK, ReturnOK, Queue, StillCounted, Counted, Pc, At,
          Go, Via, redisVars, Own
    <3>. QED BY <2>8, <3>1, QueueSame DEF TouchIndex, redisVars
  <2>9. CASE ReadLoad(r)
    <3>1. \/ req'[r].pc = "index" \/ req'[r] = At(req[r].then)
      BY <2>9 DEF ReadLoad, TypeOK, Go
    <3>2. \A q \in Requests \ {r} : req'[q] = req[q]
      BY <2>9 DEF ReadLoad, TypeOK, Go
    <3>3. Pc(r) = "read" /\ req[r].then \in {"running", "idle", "live", "liveend"}
      BY <2>9 DEF ReadLoad, ReturnOK
    <3>4. ~Counted(r) /\ ~Counted(r)'
      BY <3>1, <3>3 DEF Counted, Pc, At
    <3>5. Queue' = Queue
      BY <3>2, <3>4 DEF Queue, StillCounted, Counted, Pc
    <3>. QED BY <2>9, <3>5, QueueSame DEF ReadLoad
  <2>10. CASE WriteIndex(r)
    <3>1. Queue' = Queue
      BY <2>10 DEF WriteIndex, TypeOK, ReturnOK, Queue, StillCounted, Counted, Pc, At,
          Go, Via, redisVars, Own
    <3>. QED BY <2>10, <3>1, QueueSame DEF WriteIndex, redisVars
  <2>11. CASE RefreshLiveLease(r)
    <3>1. Queue' = Queue
      BY <2>11 DEF RefreshLiveLease, TypeOK, ReturnOK, Queue, StillCounted, Counted, Pc,
          At, Go, Via, redisVars, Own
    <3>. QED BY <2>11, <3>1, QueueSame DEF RefreshLiveLease, redisVars
  <2>12. CASE LiveEnds(r)
    <3>1. Queue' = Queue
      BY <2>12 DEF LiveEnds, TypeOK, ReturnOK, Queue, StillCounted, Counted, Pc, At, Go,
          Via, redisVars, Own
    <3>. QED BY <2>12, <3>1, QueueSame DEF LiveEnds, redisVars
  <2>13. CASE ReleaseLiveLease(r)
    <3>1. Queue' = Queue
      BY <2>13 DEF ReleaseLiveLease, TypeOK, ReturnOK, Queue, StillCounted, Counted, Pc,
          At, Go, Via, redisVars, Own
    <3>. QED BY <2>13, <3>1, QueueSame DEF ReleaseLiveLease, redisVars
  <2>14. CASE SlotAges(r)
    <3>1. Queue' = Queue
      BY <2>14 DEF SlotAges, TypeOK, ReturnOK, Queue, StillCounted, Counted, Pc, At, Go,
          Via, redisVars, Own
    <3>. QED BY <2>14, <3>1, QueueSame DEF SlotAges, redisVars
  <2>15. CASE LeaseAges(r)
    <3>1. Queue' = Queue
      BY <2>15 DEF LeaseAges, TypeOK, ReturnOK, Queue, StillCounted, Counted, Pc, At,
          Go, Via, redisVars, Own
    <3>. QED BY <2>15, <3>1, QueueSame DEF LeaseAges, redisVars
  <2>16. CASE CreateFails(r)
    <3>1. Queue' = Queue
      BY <2>16 DEF CreateFails, TypeOK, ReturnOK, Queue, StillCounted, Counted, Pc, At,
          Go, Via, redisVars, Own
    <3>. QED BY <2>16, <3>1, QueueSame DEF CreateFails, redisVars
  <2>. QED BY <1>1, <2>1, <2>2, <2>3, <2>4, <2>5, <2>6, <2>7, <2>8, <2>9, <2>10,
      <2>11, <2>12, <2>13, <2>14, <2>15, <2>16 DEF Act, Serve
<1>2. ASSUME NEW i \in Instances, Crash(i) \/ Boot(i) PROVE QueueOK'
  <2>1. CASE Crash(i)
    <3>1. Queue' = Queue \ Own(i)
      BY <2>1 DEF Crash, TypeOK, Queue, StillCounted, Counted, Pc, At, Own
    <3>2. /\ wait' = wait
          /\ skew' = [skew EXCEPT !.high = @ + Cardinality(Queue \cap Own(i))]
      BY <2>1 DEF Crash, redisVars, Queue
    <3>. QED BY <3>1, <3>2, QueueCrash
  <2>2. CASE BootRead(i)
    <3>1. Queue' = Queue
      BY <2>2 DEF BootRead, TypeOK, ReturnOK, Queue, StillCounted, Counted, Pc, At, Go,
          Via, redisVars, Own
    <3>. QED BY <2>2, <3>1, QueueSame DEF BootRead, redisVars
  <2>3. CASE BootSweep(i)
    <3>1. Queue' = Queue
      BY <2>3 DEF BootSweep, TypeOK, ReturnOK, Queue, StillCounted, Counted, Pc, At, Go,
          Via, redisVars, Own
    <3>. QED BY <2>3, <3>1, QueueSame DEF BootSweep, redisVars
  <2>4. CASE BootDelWait(i)
    <3>1. Queue' = Queue
      BY <2>4 DEF BootDelWait, Queue, StillCounted, Counted, Pc
    <3>. QED BY <2>4, <3>1, QueueLost DEF BootDelWait
  <2>5. CASE BootUnindex(i)
    <3>1. Queue' = Queue
      BY <2>5 DEF BootUnindex, TypeOK, ReturnOK, Queue, StillCounted, Counted, Pc, At,
          Go, Via, redisVars, Own
    <3>. QED BY <2>5, <3>1, QueueSame DEF BootUnindex, redisVars
  <2>6. CASE BootError(i)
    <3>1. Queue' = Queue
      BY <2>6 DEF BootError, TypeOK, ReturnOK, Queue, StillCounted, Counted, Pc, At, Go,
          Via, redisVars, Own
    <3>. QED BY <2>6, <3>1, QueueSame DEF BootError, redisVars
  <2>7. CASE BootLegacy(i)
    <3>1. Queue' = Queue
      BY <2>7 DEF BootLegacy, Queue, StillCounted, Counted, Pc
    <3>. QED BY <2>7, <3>1, QueueLost DEF BootLegacy
  <2>. QED BY <1>2, <2>1, <2>2, <2>3, <2>4, <2>5, <2>6, <2>7 DEF Boot
<1>3. CASE Rest
  <2>1. CASE IndexDue
    <3>1. Queue' = Queue
      BY <2>1 DEF IndexDue, TypeOK, ReturnOK, Queue, StillCounted, Counted, Pc, At, Go,
          Via, redisVars, Own
    <3>. QED BY <2>1, <3>1, QueueSame DEF IndexDue, redisVars
  <2>2. CASE JanitorRead
    <3>1. Queue' = Queue
      BY <2>2 DEF JanitorRead, TypeOK, ReturnOK, Queue, StillCounted, Counted, Pc, At,
          Go, Via, redisVars, Own
    <3>. QED BY <2>2, <3>1, QueueSame DEF JanitorRead, redisVars
  <2>3. CASE JanitorWrite
    <3>1. Queue' = Queue
      BY <2>3 DEF JanitorWrite, TypeOK, ReturnOK, Queue, StillCounted, Counted, Pc, At,
          Go, Via, redisVars, Own
    <3>. QED BY <2>3, <3>1, QueueSame DEF JanitorWrite, redisVars
  <2>4. CASE GetConcurrency
    <3>1. Queue' = Queue
      BY <2>4 DEF GetConcurrency, TypeOK, ReturnOK, Queue, StillCounted, Counted, Pc,
          At, Go, Via, redisVars, Own
    <3>. QED BY <2>4, <3>1, QueueSame DEF GetConcurrency, redisVars
  <2>5. CASE SlotKeyExpires
    <3>1. Queue' = Queue
      BY <2>5 DEF SlotKeyExpires, TypeOK, ReturnOK, Queue, StillCounted, Counted, Pc,
          At, Go, Via, redisVars, Own
    <3>. QED BY <2>5, <3>1, QueueSame DEF SlotKeyExpires, redisVars
  <2>6. CASE LeaseKeyExpires
    <3>1. Queue' = Queue
      BY <2>6 DEF LeaseKeyExpires, TypeOK, ReturnOK, Queue, StillCounted, Counted, Pc,
          At, Go, Via, redisVars, Own
    <3>. QED BY <2>6, <3>1, QueueSame DEF LeaseKeyExpires, redisVars
  <2>7. CASE WaitKeyExpires
    <3>1. Queue' = Queue
      BY <2>7 DEF WaitKeyExpires, Queue, StillCounted, Counted, Pc
    <3>. QED BY <2>7, <3>1, QueueLost DEF WaitKeyExpires
  <2>. QED BY <1>3, <2>1, <2>2, <2>3, <2>4, <2>5, <2>6, <2>7 DEF Rest
<1>4. CASE UNCHANGED vars
  <3>1. Queue' = Queue
    BY <1>4 DEF vars, redisVars, TypeOK, ReturnOK, Queue, StillCounted, Counted, Pc, At,
        Go, Via, redisVars, Own
  <3>. QED BY <1>4, <3>1, QueueSame DEF vars, redisVars, redisVars
<1>. QED BY <1>1, <1>2, <1>3, <1>4 DEF Next, Act, Rest

-----------------------------------------------------------------------------
(* Theorems *)

\* The invariant holds at first and every step keeps it.
LEMMA InitInv == Init => IInv
<1>. SUFFICES ASSUME Init PROVE IInv
  OBVIOUS
<1>1. TypeOK
  <2>1. At("idle") \in [pc : Pcs, then : Pcs, load : BOOLEAN]
    BY DEF At, Pcs
  <2>2. req \in [Requests -> [pc : Pcs, then : Pcs, load : BOOLEAN]]
    BY <2>1 DEF Init
  <2>3. wait = 0 /\ faults \in 0..MaxFaults
    BY DEF Init
  <2>. QED BY <2>2, <2>3 DEF Init, TypeOK, Ages
<1>2. ReturnOK /\ Holds
  BY DEF Init, ReturnOK, Holds, OnSlot, OnLease, Pc, At
<1>3. ServedWithinLimit
  <2>1. Served \ over = {}
    BY DEF Init, Served, OnSlot, OnLease, Pc, At
  <2>. QED BY <2>1, FS_EmptySet DEF ServedWithinLimit
<1>4. WaitersWithinLimit /\ NoPhantomWaiters
  <2>1. StillCounted({}) = {}
    BY DEF Init, StillCounted, Counted, Pc, At
  <2>2. wait = 0 /\ skew.low = 0 /\ skew.high = 0
    BY DEF Init
  <2>3. Cardinality(StillCounted({})) = 0
    BY <2>1, FS_EmptySet
  <2>. QED BY <2>2, <2>3 DEF WaitersWithinLimit, NoPhantomWaiters
<1>. QED BY <1>1, <1>2, <1>3, <1>4 DEF IInv

LEMMA NextInv == IInv /\ [Next]_vars => IInv'
BY TypeStep, ReturnStep, HoldsStep, ServedStep, QueueStep DEF IInv, QueueOK

\* The inductive invariant holds whatever the requests, instances and faults.
THEOREM SlotInvariant == Spec => []IInv
BY InitInv, NextInv, PTL DEF Spec

\* Types: in particular the queue counter stays within its limit.
THEOREM SlotTypes == Spec => []TypeOK
<1>1. IInv => TypeOK
  BY DEF IInv
<1>. QED BY SlotInvariant, <1>1, PTL

\* No more than Max requests and live sessions are served at once, except for those
\* whose slot time or the start of an instance took away.
THEOREM LimitHolds == Spec => []ServedWithinLimit
<1>1. IInv => ServedWithinLimit
  BY DEF IInv
<1>. QED BY SlotInvariant, <1>1, PTL

\* The counter is never below the queue by more than it missed: the requests that
\* waited when it was last lost, and one for each increment that failed since.
THEOREM QueueCounted == Spec => []WaitersWithinLimit
<1>1. IInv => WaitersWithinLimit
  BY DEF IInv
<1>. QED BY SlotInvariant, <1>1, PTL

\* The counter is never above the queue by more than the requests that died in it
\* and the decrements that were lost.
THEOREM QueueNotPhantom == Spec => []NoPhantomWaiters
<1>1. IInv => NoPhantomWaiters
  BY DEF IInv
<1>. QED BY SlotInvariant, <1>1, PTL
=============================================================================
