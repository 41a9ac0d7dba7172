-------------------------- MODULE BatchImageJobProofs --------------------------
(***************************************************************************)
(* Proofs about BatchImage, for any jobs, workers, amounts, funds, number  *)
(* of retries, calls and faults: the inductive invariant, the books of the *)
(* holds, and the steps outside the workers.                               *)
(***************************************************************************)
EXTENDS BatchImage, FiniteSetTheorems, TLAPS

USE NoWorkerAssumption, CopiesAssumption, HoldAssumption, FundsAssumption,
    BoundsAssumption

-----------------------------------------------------------------------------
(* The inductive invariant, by job and by worker *)

\* What a fault broke for the job: the exceptions of the properties.
LockLost(j) == "lock" \in lost[j]
Excused(j) == "lock" \in lost[j] \/ "capture" \in lost[j]
Noted(j) == Excused(j) \/ "note" \in lost[j]

\* The settlement of the row has been given up.
GivenUp(j) == job[j].retry >= MaxRetries /\ job[j].serr

\* Where a row is after its output was indexed, and before it was submitted.
PostIndex == {"settling"} \cup Terminal
Early == {"absent", "failed", "cancelled"} \cup Unsubmitted
BeforeProvider == {"none", "reserve", "items", "upload", "submit"}
BeforeRecord == BeforeProvider \cup
    {"record", "release", "return", "fail", "hide", "relfail", "retryq"}

\* A job nobody submitted is nowhere.
Untouched(j) ==
    sub[j] = "none" =>
        /\ job[j].status = "absent" /\ claims[j] = {} /\ ~InQueue(j)
        /\ can[j] = "idle" /\ rec[j] = "idle"
        /\ \A w \in Workers : Job(w) = j => At(w, "idle")

\* Until the submission recorded the provider's batch, the row is early, nobody
\* cancels at the provider and nobody queued the job as one that runs.  A row runs
\* once its batch is recorded, and is not early again; only such a job is queued to
\* be run.
Recorded(j) ==
    /\ sub[j] \in BeforeRecord =>
        /\ job[j].status \in Early /\ ~job[j].named /\ j \notin queued
        /\ can[j] \notin {"pcancel", "enq", "reenq", "note"}
    /\ job[j].status \in Live \cup {"completed", "output_deleted"} => job[j].named
    /\ job[j].named => job[j].status \in Live \cup Terminal
    /\ j \in queued \/ sub[j] = "enqueue" \/ can[j] \in {"pcancel", "enq", "reenq"}
           => job[j].named

\* The submission holds before it uploads, and a batch is recorded of a held job.
Held(j) ==
    /\ sub[j] \in {"none", "reserve"} => "hold" \notin claims[j]
    /\ sub[j] \in {"items", "upload", "submit", "record"} => "hold" \in claims[j]
    /\ job[j].named => "hold" \in claims[j]

\* A capture is of the count that was indexed, which nothing changes any more.
Charged(j) ==
    /\ "capture" \in claims[j] =>
        charge[j] = job[j].succ /\ job[j].status \in PostIndex /\ job[j].named
    /\ job[j].status \in {"completed", "output_deleted"} => "capture" \in claims[j]

\* What the provider's state says about the row.
Provided(j) ==
    /\ sub[j] \in BeforeProvider => prov[j] = "none"
    /\ job[j].status \in {"indexing", "settling", "completed", "output_deleted"}
           => prov[j] = "succeeded"
    /\ job[j].status = "failed" /\ job[j].named => prov[j] \notin ProviderLive

\* Who releases, and what was released.
Released(j) ==
    /\ can[j] = "rel" => job[j].status \in {"failed", "cancelled"}
    /\ rec[j] = "rel" => job[j].status = "failed" /\ ~job[j].named
    /\ job[j].status \in Live \ {"settling"} => "release" \notin claims[j]
    /\ job[j].status \in Unsubmitted
           /\ sub[j] \in {"reserve", "items", "upload", "submit", "record"}
           => "release" \notin claims[j]

\* What a settlement leaves behind, in progress or failed.
Settled(j) ==
    /\ job[j].status = "settling" /\ "capture" \in claims[j] =>
           Excused(j) \/ (job[j].valid /\ ~GivenUp(j))
    /\ job[j].status = "settling" /\ "release" \in claims[j] =>
           Noted(j) \/ GivenUp(j)
    /\ "capture" \in claims[j] /\ "release" \in claims[j] => Noted(j)
    /\ job[j].status \in {"failed", "cancelled"} /\ "capture" \in claims[j] =>
           Excused(j)

\* The in-flight key and the job's status mean that it is in the queue.
Queued(j) ==
    /\ j \in inflight => InQueue(j)
    /\ j \in queued /\ job[j].status \in Live => InQueue(j) \/ LockLost(j)

\* Somebody else than the submission will release the hold, or has done so.
Owed(j) ==
    \/ InQueue(j) \/ "release" \in claims[j]
    \/ can[j] \in {"rel", "retryq"} \/ rec[j] # "idle"
    \/ "handler" \in lost[j] \/ "lock" \in lost[j]

\* For a job that was queued to be run, that is a worker.
FailedOwed(j) ==
    /\ sub[j] = "fail" =>
           net[j] = 0 \/ "release" \in claims[j] \/ "handler" \in lost[j]
    /\ job[j].status \in {"failed", "cancelled"} /\ (net[j] > 0 \/ sub[j] = "reserve")
           => Owed(j) \/ sub[j] \in {"release", "return", "relfail", "retryq"}
    /\ j \in queued /\ job[j].status \in {"failed", "cancelled"} /\ net[j] > 0
           => InQueue(j) \/ "release" \in claims[j] \/ LockLost(j)

JobInv(j) ==
    /\ Recorded(j) /\ Held(j) /\ Charged(j) /\ Provided(j) /\ Released(j)
    /\ Settled(j) /\ Queued(j) /\ FailedOwed(j)

\* What the claims of a job say about its hold.
Books(j) ==
    /\ "hold" \notin claims[j] => net[j] = 0 /\ j \notin rewarded
    /\ claims[j] = {"hold"} => net[j] = HoldAmount
    /\ "capture" \notin claims[j] \/ "release" \notin claims[j] => net[j] >= 0
    /\ alloc[j] \in {0, HoldAmount}
    /\ j \in rewarded => alloc[j] = net[j]
    /\ j \notin rewarded => alloc[j] = 0

Allotted == {j \in Jobs : alloc[j] # 0}

\* What is reserved of the reward credit is what the jobs hold of it.
LotBooks ==
    /\ IsFiniteSet(Allotted)
    /\ lot.reserved = HoldAmount * Cardinality(Allotted)
    /\ lot.expired => lapsed /\ lot.remaining = 0

\* Who works on a job has its lock.
LockHeld(w) == HoldsLock(w) => lock[Job(w)] = w \/ LockLost(Job(w))

\* What a worker knows of the job at each of its steps.
Positions(w) ==
    LET j == Job(w) IN
    /\ At(w, "proc") => Status(w) # "settling" \/ LockLost(j)
    /\ At(w, "trel") => Status(w) \in {"failed", "cancelled"}
    /\ At(w, "reread") => Status(w) \in PostIndex
    /\ At(w, "ack") => LockLost(j) \/ Status(w) \in Terminal
    /\ wk[w].pc \in {"ack", "reread"} /\ Status(w) \in {"failed", "cancelled"} =>
           LockLost(j) \/ "release" \in claims[j]
    /\ wk[w].pc \in {"poll", "apply", "index", "ixfail", "tosettle"} =>
           Excused(j) \/ "capture" \notin claims[j]
    /\ At(w, "capture") =>
           LockLost(j) \/ (Status(w) = "settling" /\ job[j].valid /\ ~GivenUp(j))
    /\ wk[w].pc \in {"sfail", "exrel", "exnote", "exfail"} =>
           /\ Status(w) \in PostIndex
           /\ Excused(j) \/ "capture" \notin claims[j]
           /\ LockLost(j) \/ Status(w) = "settling"
    /\ At(w, "exrel") => Noted(j) \/ GivenUp(j)
    /\ At(w, "exfail") => LockLost(j) \/ "release" \in claims[j]

\* What a worker is about to charge, and has charged.
Charging(w) ==
    /\ At(w, "capture") =>
           /\ wk[w].cost = job[Job(w)].succ
           /\ Status(w) \in PostIndex /\ job[Job(w)].named
    /\ At(w, "mark") => "capture" \in claims[Job(w)]

\* A verdict of the provider is final.
Answered(w) ==
    /\ At(w, "apply") /\ wk[w].seen \in {"succeeded", "failed", "cancelled"} =>
           prov[Job(w)] = wk[w].seen
    /\ wk[w].pc \in {"index", "ixfail", "tosettle"} => prov[Job(w)] = "succeeded"

\* A job a worker took and that is not finished is in the queue.
TakenIsQueued(w) ==
    ~At(w, "idle") /\ Status(w) \notin Terminal =>
        InQueue(Job(w)) \/ LockLost(Job(w))

WorkerInv(w) ==
    LockHeld(w) /\ Positions(w) /\ Charging(w) /\ Answered(w) /\ TakenIsQueued(w)

\* The inductive invariant.
IInv ==
    /\ TypeOK /\ LotBooks /\ BalanceCoversCredit
    /\ \A j \in Jobs : Untouched(j) /\ Books(j) /\ JobInv(j)
    /\ \A w \in Workers : WorkerInv(w)

-----------------------------------------------------------------------------
(* The holds *)

\* The steps of the holds; a capture is of a job that was held.
HoldMove ==
    \/ UNCHANGED holdVars \/ CreditLapses
    \/ \E j \in Jobs :
        \/ ReserveHold(j) \/ ReleaseHold(j)
        \/ "hold" \in claims[j] /\ \E c \in 0..HoldAmount : CaptureHold(j, c)

HoldBooks == HoldTypeOK /\ LotBooks /\ BalanceCoversCredit /\ \A j \in Jobs : Books(j)

\* Expired credit leaves the lot and the balance together.
LEMMA LotNowOK ==
    ASSUME HoldTypeOK, LotBooks, BalanceCoversCredit
    PROVE  /\ LotNow \in Lots /\ LotNow.reserved = lot.reserved
           /\ BalanceNow \in Int /\ BalanceNow >= LotNow.remaining
           /\ LotNow.expired => lapsed /\ LotNow.remaining = 0
           /\ lapsed => LotNow.remaining = 0
           /\ LotNow.expired \in BOOLEAN /\ LotNow.remaining \in Nat
           /\ LotNow.reserved \in Nat
<1>1. lot \in Lots /\ lapsed \in BOOLEAN /\ balance \in Int
  BY DEF HoldTypeOK
<1>2. CASE lapsed /\ lot.remaining > 0
  <2>1. LotNow = [lot EXCEPT !.remaining = 0, !.expired = TRUE]
    BY <1>2 DEF LotNow
  <2>2. /\ LotNow.remaining = 0 /\ LotNow.reserved = lot.reserved
        /\ LotNow.expired = TRUE
    BY <1>1, <2>1 DEF Lots
  <2>3. LotNow \in Lots
    BY <1>1, <2>1 DEF Lots
  <2>4. lot.remaining \in Nat /\ lot.reserved \in Nat
    BY <1>1 DEF Lots
  <2>5. BalanceNow = balance - lot.remaining
    BY <1>1, <2>2, <2>4 DEF BalanceNow
  <2>6. BalanceNow \in Int /\ BalanceNow >= LotNow.remaining
    BY <1>1, <2>2, <2>4, <2>5 DEF BalanceCoversCredit
  <2>7. LotNow.remaining \in Nat /\ LotNow.reserved \in Nat
    BY <2>2, <2>4
  <2>8. LotNow.expired \in BOOLEAN
    BY <2>3 DEF Lots
  <2>. QED BY <1>2, <2>2, <2>3, <2>6, <2>7, <2>8
<1>3. CASE ~(lapsed /\ lot.remaining > 0)
  <2>1. LotNow = lot
    BY <1>3 DEF LotNow
  <2>. QED BY <1>1, <1>3, <2>1 DEF LotBooks, BalanceCoversCredit, BalanceNow, Lots
<1>. QED BY <1>2, <1>3

\* One more allotment, one less.
LEMMA Allot ==
    ASSUME LotBooks, NEW j \in Jobs, alloc[j] = 0, HoldTypeOK,
           alloc' = [alloc EXCEPT ![j] = HoldAmount]
    PROVE  /\ IsFiniteSet(Allotted')
           /\ HoldAmount * Cardinality(Allotted') = lot.reserved + HoldAmount
<1>1. Allotted' = Allotted \cup {j} /\ j \notin Allotted
  BY DEF Allotted, HoldTypeOK
<1>2. IsFiniteSet(Allotted') /\ Cardinality(Allotted') = Cardinality(Allotted) + 1
  BY <1>1, FS_AddElement DEF LotBooks
<1>3. Cardinality(Allotted) \in Nat
  BY FS_CardinalityType DEF LotBooks
<1>4. \A c \in Nat : HoldAmount * (c + 1) = HoldAmount * c + HoldAmount
  OBVIOUS
<1>. QED BY <1>2, <1>3, <1>4 DEF LotBooks

LEMMA Unallot ==
    ASSUME LotBooks, NEW j \in Jobs, alloc[j] \in {0, HoldAmount}, HoldTypeOK,
           alloc' = [alloc EXCEPT ![j] = 0]
    PROVE  /\ IsFiniteSet(Allotted')
           /\ HoldAmount * Cardinality(Allotted') = lot.reserved - alloc[j]
           /\ lot.reserved - alloc[j] \in Nat
<1>1. Allotted' = Allotted \ {j}
  BY DEF Allotted, HoldTypeOK
<1>2. CASE alloc[j] = 0
  <2>1. Allotted' = Allotted
    BY <1>1, <1>2 DEF Allotted
  <2>2. lot.reserved \in Nat
    BY DEF HoldTypeOK, Lots
  <2>. QED BY <1>2, <2>1, <2>2 DEF LotBooks
<1>3. CASE alloc[j] = HoldAmount
  <2>1. j \in Allotted
    BY <1>3 DEF Allotted
  <2>2. /\ IsFiniteSet(Allotted')
        /\ Cardinality(Allotted') = Cardinality(Allotted) - 1
    BY <1>1, <2>1, FS_RemoveElement DEF LotBooks
  <2>3. Cardinality(Allotted) \in Nat /\ Cardinality(Allotted') \in Nat
    BY <2>2, FS_CardinalityType DEF LotBooks
  <2>4. \A c \in Nat : HoldAmount * (c + 1) = HoldAmount * c + HoldAmount
    OBVIOUS
  <2>5. Cardinality(Allotted) = Cardinality(Allotted') + 1
    BY <2>2, <2>3
  <2>6. HoldAmount * Cardinality(Allotted) =
            HoldAmount * Cardinality(Allotted') + HoldAmount
    BY <2>3, <2>4, <2>5
  <2>7. \A c \in Nat : HoldAmount * c \in Nat
    OBVIOUS
  <2>8. HoldAmount * Cardinality(Allotted') \in Nat
    BY <2>3, <2>7
  <2>. QED BY <1>3, <2>2, <2>6, <2>8 DEF LotBooks
<1>. QED BY <1>2, <1>3

\* Every step of the holds keeps their books.
LEMMA HoldStep == HoldBooks /\ HoldMove => HoldBooks'
<1>. SUFFICES ASSUME HoldBooks, HoldMove PROVE HoldBooks'
  OBVIOUS
<1>. USE DEF HoldBooks
<1>0. /\ claims \in [Jobs -> SUBSET {"hold", "capture", "release"}]
      /\ alloc \in [Jobs -> 0..HoldAmount] /\ net \in [Jobs -> Int]
      /\ charge \in [Jobs -> 0..HoldAmount]
      /\ balance \in Int /\ frozen \in Nat /\ rewarded \in SUBSET Jobs
      /\ lot \in Lots /\ lapsed \in BOOLEAN
  BY DEF HoldTypeOK
<1>n. /\ LotNow \in Lots /\ LotNow.reserved = lot.reserved
      /\ BalanceNow \in Int /\ BalanceNow >= LotNow.remaining
      /\ LotNow.remaining \in Nat /\ LotNow.reserved \in Nat
  BY LotNowOK
<1>x. LotNow.expired => lapsed /\ LotNow.remaining = 0
  BY LotNowOK
<1>y. lapsed => LotNow.remaining = 0
  BY LotNowOK
<1>h. HoldAmount \in Nat
  OBVIOUS
<1>1. CASE UNCHANGED holdVars
  BY <1>1 DEF holdVars, HoldTypeOK, LotBooks, Allotted, BalanceCoversCredit, Books
<1>2. CASE CreditLapses
  BY <1>2 DEF CreditLapses, HoldTypeOK, LotBooks, Allotted, BalanceCoversCredit, Books
<1>3. ASSUME NEW j \in Jobs, ReserveHold(j) PROVE HoldBooks'
  <2>1. /\ claims' = [claims EXCEPT ![j] = @ \cup {"hold"}]
        /\ "hold" \notin claims[j] /\ net[j] = 0 /\ j \notin rewarded
        /\ net' = [net EXCEPT ![j] = @ + HoldAmount]
        /\ balance' = BalanceNow - HoldAmount /\ frozen' = frozen + HoldAmount
        /\ lapsed' = lapsed /\ charge' = charge
    BY <1>3 DEF ReserveHold, Claim, Books
  <2>2. alloc[j] = 0
    BY <2>1 DEF Books
  <2>3. /\ claims' \in [Jobs -> SUBSET {"hold", "capture", "release"}]
        /\ net' \in [Jobs -> Int] /\ balance' \in Int /\ frozen' \in Nat
    BY <1>0, <1>n, <2>1
  <2>4. CASE RewardCovers
    <3>1. /\ rewarded' = rewarded \cup {j} /\ alloc' = [alloc EXCEPT ![j] = HoldAmount]
          /\ lot' = [LotNow EXCEPT !.remaining = @ - HoldAmount,
                                   !.reserved = @ + HoldAmount]
      BY <1>3, <2>4 DEF ReserveHold
    <3>2. LotNow.remaining >= HoldAmount /\ ~lapsed
      BY <2>4 DEF RewardCovers
    <3>3. ~LotNow.expired
      BY <1>x, <3>2
    <3>4. /\ lot' \in Lots /\ lot'.remaining = LotNow.remaining - HoldAmount
          /\ lot'.reserved = LotNow.reserved + HoldAmount
      <4>1. LotNow.remaining - HoldAmount \in Nat /\ LotNow.reserved + HoldAmount \in Nat
        BY <1>n, <3>2
      <4>2. /\ lot'.remaining = LotNow.remaining - HoldAmount
            /\ lot'.reserved = LotNow.reserved + HoldAmount
        BY <1>n, <3>1 DEF Lots
      <4>3. lot' = [remaining |-> LotNow.remaining - HoldAmount,
                    reserved |-> LotNow.reserved + HoldAmount,
                    expired |-> LotNow.expired]
        BY <1>n, <3>1 DEF Lots
      <4>. QED BY <1>n, <4>1, <4>2, <4>3 DEF Lots
    <3>5. lot'.expired = LotNow.expired
      BY <1>n, <3>1 DEF Lots
    <3>6. LotBooks'
      <4>1. IsFiniteSet(Allotted') /\ lot'.reserved = HoldAmount * Cardinality(Allotted')
        BY <1>n, <2>2, <3>1, <3>4, Allot
      <4>. QED BY <3>3, <3>5, <4>1 DEF LotBooks
    <3>7. BalanceCoversCredit'
      BY <1>n, <2>1, <3>4 DEF BalanceCoversCredit
    <3>8. HoldTypeOK'
      BY <1>0, <2>1, <2>3, <3>1, <3>4 DEF HoldTypeOK
    <3>9. \A k \in Jobs : Books(k)'
      BY <1>0, <2>1, <2>2, <3>1 DEF Books
    <3>. QED BY <3>6, <3>7, <3>8, <3>9
  <2>5. CASE ~RewardCovers
    <3>1. /\ rewarded' = rewarded /\ alloc' = alloc /\ lot' = LotNow
      BY <1>3, <2>5 DEF ReserveHold
    <3>2. AccountCovers
      BY <1>3, <2>5 DEF ReserveHold, CanReserve
    <3>3. BalanceNow - HoldAmount >= LotNow.remaining
      <4>1. CASE LotNow.expired
        BY <1>n, <1>x, <3>2, <4>1 DEF AccountCovers
      <4>2. CASE ~LotNow.expired
        BY <1>n, <3>2, <4>2 DEF AccountCovers
      <4>. QED BY <4>1, <4>2
    <3>6. LotBooks'
      <4>1. Allotted' = Allotted
        BY <3>1 DEF Allotted
      <4>2. lot'.reserved = lot.reserved
        BY <1>n, <3>1
      <4>3. lot'.expired => lapsed' /\ lot'.remaining = 0
        BY <1>x, <2>1, <3>1
      <4>. QED BY <4>1, <4>2, <4>3 DEF LotBooks
    <3>7. BalanceCoversCredit'
      BY <1>n, <2>1, <3>1, <3>3 DEF BalanceCoversCredit
    <3>8. HoldTypeOK'
      BY <1>0, <1>n, <2>1, <2>3, <3>1 DEF HoldTypeOK
    <3>9. \A k \in Jobs : Books(k)'
      BY <1>0, <2>1, <2>2, <3>1 DEF Books
    <3>. QED BY <3>6, <3>7, <3>8, <3>9
  <2>. QED BY <2>4, <2>5
<1>4. ASSUME NEW j \in Jobs, NEW c \in 0..HoldAmount, Settle(j, c), "hold" \in claims[j],
             NEW id \in {"capture", "release"}, id \notin claims[j],
             Claim(j, id), UNCHANGED <<lapsed, rewarded>>,
             charge' \in [Jobs -> 0..HoldAmount]
      PROVE  HoldBooks'
  <2>1. claims' \in [Jobs -> SUBSET {"hold", "capture", "release"}]
    BY <1>0, <1>4 DEF Claim
  <2>2. CASE j \in rewarded
    <3>. DEFINE unused == alloc[j] - c
                restored == IF lapsed THEN 0 ELSE unused
                left == [LotNow EXCEPT !.remaining = @ + restored,
                                       !.reserved = @ - alloc[j]]
    <3>1. SettleReward(j, c) /\ c <= alloc[j] /\ frozen >= alloc[j]
      BY <1>4, <2>2 DEF Settle, CanSettle
    <3>2. /\ balance' = BalanceNow + restored /\ frozen' = frozen - alloc[j]
          /\ lot' = [left EXCEPT !.expired = @ \/
               (lapsed /\ unused > 0 /\ left.remaining = 0 /\ left.reserved = 0)]
          /\ alloc' = [alloc EXCEPT ![j] = 0]
          /\ net' = [net EXCEPT ![j] = @ - alloc[j]]
      BY <3>1 DEF SettleReward
    <3>3. alloc[j] \in 0..HoldAmount /\ alloc[j] \in {0, HoldAmount} /\ alloc[j] = net[j]
      BY <1>0, <2>2 DEF Books
    <3>4. restored \in Nat /\ (lapsed => restored = 0)
      BY <1>4, <3>1, <3>3
    <3>5. /\ IsFiniteSet(Allotted')
          /\ HoldAmount * Cardinality(Allotted') = lot.reserved - alloc[j]
          /\ lot.reserved - alloc[j] \in Nat
      BY <3>2, <3>3, Unallot
    <3>. HIDE DEF restored, unused
    <3>6. /\ left \in Lots /\ left.remaining = LotNow.remaining + restored
          /\ left.reserved = lot.reserved - alloc[j]
      <4>1. LotNow.remaining + restored \in Nat
        BY <1>n, <3>4
      <4>2. LotNow.reserved - alloc[j] \in Nat
        BY <1>n, <3>5
      <4>. DEFINE m == [LotNow EXCEPT !.remaining = @ + restored]
                  n == [m EXCEPT !.reserved = @ - alloc[j]]
      <4>3. /\ m \in Lots /\ m.remaining = LotNow.remaining + restored
            /\ m.reserved = LotNow.reserved
        BY <1>n, <4>1 DEF Lots
      <4>. HIDE DEF m
      <4>4. n \in Lots /\ n.remaining = m.remaining /\ n.reserved = m.reserved - alloc[j]
        BY <1>n, <4>2, <4>3 DEF Lots
      <4>5. left = n
        BY DEF m
      <4>. HIDE DEF n, left
      <4>. QED BY <1>n, <4>3, <4>4, <4>5
    <3>7. left.expired = LotNow.expired
      BY <1>n DEF Lots
    <3>. DEFINE gone == lapsed /\ unused > 0 /\ left.remaining = 0 /\ left.reserved = 0
    <3>8. gone \in BOOLEAN /\ lot' = [left EXCEPT !.expired = @ \/ gone]
      BY <3>2
    <3>9. gone => lapsed
      OBVIOUS
    <3>. HIDE DEF left, gone
    <3>10. /\ lot' \in Lots /\ lot'.remaining = left.remaining
           /\ lot'.reserved = left.reserved
      BY <3>6, <3>8 DEF Lots
    <3>11. lot'.expired = (left.expired \/ gone)
      BY <3>6, <3>8 DEF Lots
    <3>12. lot'.expired => lapsed
      BY <1>x, <3>7, <3>9, <3>11
    <3>13. lapsed => lot'.remaining = 0
      BY <1>n, <1>y, <3>4, <3>6, <3>10
    <3>14. LotBooks'
      <4>1. lot'.reserved = HoldAmount * Cardinality(Allotted')
        BY <3>5, <3>6, <3>10
      <4>. QED BY <1>4, <3>5, <3>12, <3>13, <4>1 DEF LotBooks
    <3>15. BalanceCoversCredit'
      BY <1>n, <3>2, <3>4, <3>6, <3>10 DEF BalanceCoversCredit
    <3>16. HoldTypeOK'
      <4>1. balance' \in Int /\ frozen' \in Nat
        BY <1>0, <1>n, <3>1, <3>2, <3>3, <3>4
      <4>2. alloc' \in [Jobs -> 0..HoldAmount] /\ net' \in [Jobs -> Int]
        BY <1>0, <3>2, <3>3
      <4>. QED BY <1>0, <1>4, <2>1, <3>10, <4>1, <4>2 DEF HoldTypeOK
    <3>17. \A k \in Jobs : Books(k)'
      <4>1. ASSUME NEW k \in Jobs, k # j PROVE Books(k)'
        BY <1>0, <1>4, <3>2, <4>1 DEF Books, Claim
      <4>2. alloc'[j] = 0 /\ net'[j] = 0
        BY <1>0, <3>2, <3>3
      <4>3. "hold" \in claims'[j] /\ id \in claims'[j]
        BY <1>0, <1>4 DEF Claim
      <4>4. Books(j)'
        BY <1>4, <2>2, <4>2, <4>3 DEF Books
      <4>. QED BY <4>1, <4>4
    <3>. QED BY <3>14, <3>15, <3>16, <3>17
  <2>3. CASE j \notin rewarded
    <3>1. SettleAccount(j, c) /\ frozen >= HoldAmount
      BY <1>4, <2>3 DEF Settle, CanSettle
    <3>2. /\ balance' = BalanceNow + HoldAmount - c /\ frozen' = frozen - HoldAmount
          /\ lot' = LotNow /\ net' = [net EXCEPT ![j] = @ - HoldAmount]
          /\ alloc' = alloc
      BY <3>1 DEF SettleAccount
    <3>3. LotBooks'
      <4>1. Allotted' = Allotted
        BY <3>2 DEF Allotted
      <4>2. lot'.reserved = lot.reserved
        BY <1>n, <3>2
      <4>3. lot'.expired => lapsed' /\ lot'.remaining = 0
        BY <1>4, <1>x, <3>2
      <4>. QED BY <4>1, <4>2, <4>3 DEF LotBooks
    <3>4. BalanceCoversCredit'
      BY <1>4, <1>n, <3>2 DEF BalanceCoversCredit
    <3>5. HoldTypeOK'
      <4>1. balance' \in Int /\ frozen' \in Nat /\ net' \in [Jobs -> Int]
        BY <1>0, <1>4, <1>n, <3>1, <3>2
      <4>. QED BY <1>0, <1>4, <1>n, <2>1, <3>2, <4>1 DEF HoldTypeOK
    <3>6. \A k \in Jobs : Books(k)'
      <4>1. ASSUME NEW k \in Jobs, k # j PROVE Books(k)'
        BY <1>0, <1>4, <3>2, <4>1 DEF Books, Claim
      <4>2. net'[j] = net[j] - HoldAmount /\ alloc'[j] = 0
        BY <1>0, <2>3, <3>2 DEF Books
      <4>3. claims'[j] = claims[j] \cup {id}
        BY <1>0, <1>4 DEF Claim
      <4>4. claims[j] \in SUBSET {"hold", "capture", "release"}
        BY <1>0
      <4>7. "hold" \in claims'[j] /\ claims'[j] # {"hold"}
        BY <1>4, <4>3
      <4>5. ASSUME claims[j] = {"hold"} PROVE Books(j)'
        <5>1. net[j] = HoldAmount
          BY <4>5 DEF Books
        <5>2. net'[j] = 0
          BY <4>2, <5>1
        <5>. QED BY <1>4, <2>3, <4>2, <4>7, <5>2 DEF Books
      <4>6. ASSUME claims[j] # {"hold"} PROVE Books(j)'
        <5>1. "capture" \in claims'[j] /\ "release" \in claims'[j]
          BY <1>4, <4>3, <4>4, <4>6
        <5>. QED BY <1>4, <2>3, <4>2, <4>7, <5>1 DEF Books
      <4>. QED BY <4>1, <4>5, <4>6
    <3>. QED BY <3>3, <3>4, <3>5, <3>6
  <2>. QED BY <2>2, <2>3
<1>5. ASSUME NEW j \in Jobs, ReleaseHold(j) PROVE HoldBooks'
  <2>1. CASE "release" \in claims[j] /\ UNCHANGED holdVars
    BY <1>1, <2>1
  <2>2. CASE /\ claims[j] \cap {"hold", "release"} = {} /\ Claim(j, "release")
             /\ UNCHANGED <<balance, frozen, lot, lapsed, rewarded, alloc, net, charge>>
    <3>1. claims' \in [Jobs -> SUBSET {"hold", "capture", "release"}]
      BY <1>0, <2>2 DEF Claim
    <3>2. \A k \in Jobs : Books(k)'
      BY <1>0, <2>2 DEF Claim, Books
    <3>. QED BY <1>0, <2>2, <3>1, <3>2
           DEF HoldTypeOK, LotBooks, Allotted, BalanceCoversCredit
  <2>3. CASE /\ claims[j] \cap {"hold", "release"} = {"hold"} /\ Settle(j, 0)
             /\ Claim(j, "release") /\ UNCHANGED <<lapsed, rewarded, charge>>
    <3>1. 0 \in 0..HoldAmount /\ "hold" \in claims[j] /\ "release" \notin claims[j]
      BY <2>3
    <3>. QED BY <1>0, <1>4, <2>3, <3>1
  <2>. QED BY <1>5, <2>1, <2>2, <2>3 DEF ReleaseHold
<1>6. ASSUME NEW j \in Jobs, NEW c \in 0..HoldAmount, "hold" \in claims[j],
             CaptureHold(j, c)
      PROVE  HoldBooks'
  <2>1. CASE UNCHANGED holdVars
    BY <1>1, <2>1
  <2>2. CASE /\ "capture" \notin claims[j] /\ Settle(j, c) /\ Claim(j, "capture")
             /\ charge' = [charge EXCEPT ![j] = c]
             /\ UNCHANGED <<lapsed, rewarded>>
    <3>1. charge' \in [Jobs -> 0..HoldAmount]
      BY <1>0, <2>2
    <3>. QED BY <1>4, <1>6, <2>2, <3>1
  <2>. QED BY <1>6, <2>1, <2>2 DEF CaptureHold
<1>. QED BY <1>1, <1>2, <1>3, <1>5, <1>6 DEF HoldMove

-----------------------------------------------------------------------------
(* What the operations do to one job and leave alone of the others *)

HoldKept(k) == claims'[k] = claims[k] /\ net'[k] = net[k] /\ charge'[k] = charge[k]

QueueKept(k) == (InQueue(k)' <=> InQueue(k)) /\ (k \in inflight' <=> k \in inflight)

LEMMA ReserveEffect ==
    ASSUME HoldTypeOK, NEW j \in Jobs, ReserveHold(j)
    PROVE  /\ \A k \in Jobs \ {j} : HoldKept(k)
           /\ charge'[j] = charge[j] /\ net'[j] = net[j] + HoldAmount
           /\ "hold" \notin claims[j] /\ "hold" \in claims'[j]
           /\ "capture" \in claims'[j] <=> "capture" \in claims[j]
           /\ "release" \in claims'[j] <=> "release" \in claims[j]
BY DEF HoldTypeOK, ReserveHold, Claim, HoldKept

\* Settling a hold takes out of it what is left.
LEMMA SettleEffect ==
    ASSUME HoldTypeOK, NEW j \in Jobs, NEW c \in 0..HoldAmount, Settle(j, c)
    PROVE  /\ \A k \in Jobs \ {j} : net'[k] = net[k]
           /\ net'[j] <= net[j]
<1>1. alloc[j] \in Nat /\ net[j] \in Int /\ net \in [Jobs -> Int]
  BY DEF HoldTypeOK
<1>2. CASE SettleReward(j, c)
  BY <1>1, <1>2 DEF SettleReward
<1>3. CASE SettleAccount(j, c)
  BY <1>1, <1>3 DEF SettleAccount
<1>. QED BY <1>2, <1>3 DEF Settle

LEMMA ReleaseEffect ==
    ASSUME HoldTypeOK, NEW j \in Jobs, ReleaseHold(j)
    PROVE  /\ \A k \in Jobs \ {j} : HoldKept(k)
           /\ charge'[j] = charge[j] /\ net'[j] <= net[j]
           /\ "release" \in claims'[j]
           /\ "hold" \in claims'[j] <=> "hold" \in claims[j]
           /\ "capture" \in claims'[j] <=> "capture" \in claims[j]
<1>1. CASE UNCHANGED holdVars /\ "release" \in claims[j]
  BY <1>1 DEF HoldTypeOK, holdVars, HoldKept
<1>2. CASE Claim(j, "release") /\ UNCHANGED <<net, charge>>
  BY <1>2 DEF HoldTypeOK, Claim, HoldKept
<1>3. CASE Settle(j, 0) /\ Claim(j, "release") /\ UNCHANGED charge
  <2>1. 0 \in 0..HoldAmount
    OBVIOUS
  <2>2. net'[j] <= net[j] /\ \A k \in Jobs \ {j} : net'[k] = net[k]
    BY <1>3, <2>1, SettleEffect
  <2>. QED BY <1>3, <2>2 DEF HoldTypeOK, Claim, HoldKept
<1>. QED BY <1>1, <1>2, <1>3 DEF ReleaseHold

LEMMA CaptureEffect ==
    ASSUME HoldTypeOK, NEW j \in Jobs, NEW c \in 0..HoldAmount, CaptureHold(j, c)
    PROVE  /\ \A k \in Jobs \ {j} : HoldKept(k)
           /\ "capture" \in claims[j] => charge'[j] = charge[j]
           /\ "capture" \notin claims[j] => charge'[j] = c
           /\ net'[j] <= net[j] /\ "capture" \in claims'[j]
           /\ "hold" \in claims'[j] <=> "hold" \in claims[j]
           /\ "release" \in claims'[j] <=> "release" \in claims[j]
<1>1. CASE UNCHANGED holdVars /\ "capture" \in claims[j]
  BY <1>1 DEF HoldTypeOK, holdVars, HoldKept
<1>2. CASE /\ "capture" \notin claims[j] /\ Settle(j, c) /\ Claim(j, "capture")
           /\ charge' = [charge EXCEPT ![j] = c]
  <2>2. net'[j] <= net[j] /\ \A k \in Jobs \ {j} : net'[k] = net[k]
    BY <1>2, SettleEffect
  <2>. QED BY <1>2, <2>2 DEF HoldTypeOK, Claim, HoldKept
<1>. QED BY <1>1, <1>2 DEF CaptureHold

LEMMA EnqueueEffect ==
    ASSUME QueueTypeOK, NEW j \in Jobs, Queued(j), Enqueue(j)
    PROVE  (\A k \in Jobs \ {j} : QueueKept(k)) /\ InQueue(j)' /\ lock' = lock
<1>1. CASE j \in inflight /\ UNCHANGED <<ready, inflight, delayed, active, lock>>
  BY <1>1 DEF QueueKept, InQueue, Queued
<1>2. CASE j \notin inflight /\ inflight' = inflight \cup {j} /\ Push(j)
           /\ UNCHANGED <<delayed, active, lock>>
  BY <1>2 DEF QueueTypeOK, QueueKept, InQueue, Push
<1>. QED BY <1>1, <1>2 DEF Enqueue

\* The operations that move an id within the queue.
LEMMA MoveEffect ==
    ASSUME QueueTypeOK, NEW j \in Jobs,
           \/ Reserve(j) \/ Heartbeat(j) \/ ActiveAges(j)
           \/ MoveDueDelayedToReady(j) \/ RecoverStaleActive(j)
    PROVE  /\ \A k \in Jobs : QueueKept(k)
           /\ InQueue(j) /\ lock' = lock
<1>1. CASE Reserve(j)
  BY <1>1 DEF QueueTypeOK, QueueKept, InQueue, Reserve
<1>2. CASE Heartbeat(j) \/ ActiveAges(j)
  BY <1>2 DEF QueueTypeOK, QueueKept, InQueue, Heartbeat, ActiveAges
<1>3. CASE MoveDueDelayedToReady(j)
  BY <1>3 DEF QueueTypeOK, QueueKept, InQueue, MoveDueDelayedToReady, Push
<1>4. CASE RecoverStaleActive(j)
  BY <1>4 DEF QueueTypeOK, QueueKept, InQueue, RecoverStaleActive, Push
<1>. QED BY <1>1, <1>2, <1>3, <1>4

LEMMA RequeueEffect ==
    ASSUME QueueTypeOK, NEW j \in Jobs, RequeueAfter(j)
    PROVE  (\A k \in Jobs \ {j} : QueueKept(k)) /\ InQueue(j)' /\ lock' = lock
BY DEF QueueTypeOK, QueueKept, InQueue, RequeueAfter

LEMMA AckEffect ==
    ASSUME QueueTypeOK, NEW j \in Jobs, Ack(j)
    PROVE  (\A k \in Jobs \ {j} : QueueKept(k)) /\ j \notin inflight' /\ lock' = lock
BY DEF QueueTypeOK, QueueKept, InQueue, Ack

LEMMA LockEffect ==
    ASSUME UNCHANGED <<ready, delayed, active, inflight>>, NEW k \in Jobs
    PROVE  QueueKept(k)
BY DEF QueueKept, InQueue

\* Nothing happens to the job, except what is named.
SameBut(k, what) ==
    /\ "job" \notin what => job'[k] = job[k]
    /\ "sub" \notin what => sub'[k] = sub[k]
    /\ "can" \notin what => can'[k] = can[k]
    /\ "rec" \notin what => rec'[k] = rec[k]
    /\ "prov" \notin what => prov'[k] = prov[k]
    /\ "lost" \notin what => lost'[k] = lost[k]
    /\ "queue" \notin what => QueueKept(k) /\ (k \in queued' <=> k \in queued)
    /\ "hold" \notin what => HoldKept(k)

Others(j) == \A k \in Jobs \ {j} : SameBut(k, {})

\* The row keeps its fields, except what is named.
RowBut(j, what) ==
    /\ "status" \notin what => job'[j].status = job[j].status
    /\ "named" \notin what => job'[j].named = job[j].named
    /\ "retry" \notin what => job'[j].retry = job[j].retry
    /\ "serr" \notin what => job'[j].serr = job[j].serr
    /\ "succ" \notin what => job'[j].succ = job[j].succ
    /\ "valid" \notin what => job'[j].valid = job[j].valid

\* What no step takes back.
Stable(k) ==
    /\ job[k].status \in PostIndex => job'[k].status \in PostIndex
    /\ job[k].status = "completed" =>
           job'[k].status \in {"completed", "output_deleted"}
    /\ job[k].status = "cancelled" => job'[k].status \in {"cancelled", "failed"}
    /\ job[k].status \in {"failed", "output_deleted"} =>
           job'[k].status = job[k].status
    /\ job[k].status \in PostIndex => job'[k].succ = job[k].succ
    /\ job[k].named => job'[k].named
    /\ \A id \in {"hold", "capture", "release"} : id \in claims[k] => id \in claims'[k]
    /\ \A x \in {"lock", "capture", "handler", "note"} : x \in lost[k] => x \in lost'[k]
    /\ prov[k] \in {"succeeded", "failed", "cancelled"} => prov'[k] = prov[k]
    /\ InQueue(k) => InQueue(k)' \/ LockLost(k) \/ job[k].status \in Terminal

\* What only the worker that holds the lock does.
Quiet(k) ==
    /\ job'[k].status = "settling" <=> job[k].status = "settling"
    /\ job[k].status \in PostIndex /\ job'[k].status \in {"failed", "cancelled"} =>
           job[k].status \in {"failed", "cancelled"}
    /\ "capture" \in claims'[k] <=> "capture" \in claims[k]
    /\ job'[k].retry = job[k].retry /\ (job'[k].valid <=> job[k].valid)
    /\ job'[k].serr => job[k].serr
    /\ job[k].serr /\ job[k].status = "settling" => job'[k].serr \/ "note" \in lost'[k]

\* A job that is left alone keeps its invariant.
LEMMA SameKeeps ==
    ASSUME NEW k \in Jobs, JobInv(k), SameBut(k, {})
    PROVE  JobInv(k)' /\ Stable(k) /\ Quiet(k)
<1>. USE DEF SameBut, HoldKept, QueueKept
<1>1. Recorded(k)' /\ Held(k)' /\ Charged(k)' /\ Provided(k)' /\ Released(k)'
  BY DEF JobInv, Recorded, Held, Charged, Provided, Released
<1>2. Settled(k)' /\ Queued(k)' /\ FailedOwed(k)'
  BY DEF JobInv, Settled, Queued, FailedOwed, Owed, Excused, Noted, LockLost, GivenUp
<1>3. Stable(k) /\ Quiet(k)
  BY DEF Stable, Quiet
<1>. QED BY <1>1, <1>2, <1>3 DEF JobInv

LEMMA UntouchedKeeps ==
    ASSUME NEW k \in Jobs, Untouched(k), SameBut(k, {}), UNCHANGED wk
    PROVE  Untouched(k)'
BY DEF Untouched, SameBut, HoldKept, QueueKept, Job, At

JobTypes ==
    /\ job \in [Jobs -> Rows]
    /\ prov \in [Jobs -> ProviderStates]
    /\ sub \in [Jobs -> {"none", "reserve", "items", "upload", "submit",
                         "record", "abort", "enqueue", "note", "release",
                         "return", "fail", "hide", "relfail", "retryq", "done"}]
    /\ can \in [Jobs -> {"idle", "rel", "trans", "pcancel", "enq", "reenq",
                         "note", "retryq"}]
    /\ rec \in [Jobs -> {"idle", "rel", "retryq"}]
    /\ lost \in [Jobs -> SUBSET {"lock", "capture", "handler", "note"}]
    /\ HoldTypeOK /\ QueueTypeOK

LEMMA TypeParts == TypeOK => JobTypes
BY DEF TypeOK, JobTypes

LEMMA SetStatusEffect ==
    ASSUME JobTypes, NEW j \in Jobs, NEW s, SetStatus(j, s)
    PROVE  /\ \A k \in Jobs \ {j} : job'[k] = job[k]
           /\ job'[j].status = s /\ RowBut(j, {"status"})
BY DEF JobTypes, SetStatus, RowBut, Rows

LEMMA SettlementFailedEffect ==
    ASSUME JobTypes, NEW j \in Jobs, SettlementFailed(j)
    PROVE  /\ \A k \in Jobs \ {j} : job'[k] = job[k]
           /\ job'[j].retry = job[j].retry + 1 /\ job'[j].serr
           /\ RowBut(j, {"retry", "serr"})
BY DEF JobTypes, SettlementFailed, RowBut, Rows

LEMMA BrokenEffect ==
    ASSUME JobTypes, NEW j \in Jobs, NEW x, Broken(j, x)
    PROVE  /\ \A k \in Jobs \ {j} : lost'[k] = lost[k]
           /\ lost'[j] = lost[j] \cup {x}
BY DEF JobTypes, Broken

LEMMA NoteEffect ==
    ASSUME JobTypes, NEW j \in Jobs, NoteQueueFailure(j)
    PROVE  /\ \A k \in Jobs \ {j} : job'[k] = job[k] /\ lost'[k] = lost[k]
           /\ ~job'[j].serr /\ RowBut(j, {"serr"})
           /\ lost'[j] = lost[j] \/ lost'[j] = lost[j] \cup {"note"}
           /\ job[j].status = "settling" => "note" \in lost'[j]
<1>1. /\ \A k \in Jobs \ {j} : job'[k] = job[k]
      /\ ~job'[j].serr /\ RowBut(j, {"serr"})
  BY DEF JobTypes, NoteQueueFailure, RowBut, Rows
<1>2. CASE job[j].status = "settling"
  <2>1. Broken(j, "note")
    BY <1>2 DEF NoteQueueFailure
  <2>. QED BY <1>1, <2>1 DEF Broken, JobTypes
<1>3. CASE job[j].status # "settling"
  <2>1. UNCHANGED lost
    BY <1>3 DEF NoteQueueFailure
  <2>. QED BY <1>1, <1>3, <2>1
<1>. QED BY <1>2, <1>3

\* The queue and the holds are left alone.
LEMMA KeptEffect ==
    ASSUME NEW k \in Jobs
    PROVE  /\ UNCHANGED queueVars => QueueKept(k)
           /\ UNCHANGED holdVars => HoldKept(k)
BY DEF queueVars, holdVars, QueueKept, HoldKept, InQueue

-----------------------------------------------------------------------------
(* The steps outside the workers *)

Outside(j) ==
    \/ Submit(j) \/ Client(j) \/ Recovery(j) \/ RowAges(j) \/ LockExpires(j)
    \/ EntryAges(j) \/ InflightExpires(j) \/ QueueLoops(j) \/ ProviderRuns(j)
    \/ SubmitDies(j) \/ CallDies(j) \/ RecoveryDies(j)

Fine == \A k \in Jobs : JobInv(k)' /\ Stable(k) /\ Quiet(k) /\ Untouched(k)'

LEMMA FineBy ==
    ASSUME IInv, NEW j \in Jobs, Others(j), UNCHANGED wk,
           JobInv(j)', Stable(j), Quiet(j), Untouched(j)'
    PROVE  Fine
<1>1. ASSUME NEW k \in Jobs, k # j
      PROVE  JobInv(k)' /\ Stable(k) /\ Quiet(k) /\ Untouched(k)'
  BY <1>1, SameKeeps, UntouchedKeeps DEF IInv, Others
<1>. QED BY <1>1 DEF Fine

LEMMA OutsideIdle == ASSUME NEW j \in Jobs, Outside(j) PROVE UNCHANGED wk
<1>1. CASE Submit(j)
  BY <1>1 DEF Submit, CreateJob, SubmitReserve, SubmitItems, SubmitUpload,
      SubmitProvider, SubmitHeartbeat, SubmitRecord, SubmitAbort, SubmitEnqueue,
      SubmitNote, SubmitRelease, SubmitFail, SubmitHide, SubmitRetry, procVars
<1>2. CASE Client(j)
  BY <1>2 DEF Client, Cancel, Resubmit, Call, CancelProvider, CallEnqueue, CallNote,
      CancelTransition, CancelRelease, CancelRetry, HideRecord, CleanupOutput,
      procVars
<1>. QED BY <1>1, <1>2 DEF Outside, Recovery, FailStale, RecoveryRelease,
    RecoveryRetry, RowAges, LockExpires, EntryAges, InflightExpires, QueueLoops,
    ProviderRuns, SubmitDies, CallDies, RecoveryDies, procVars

LEMMA OutsideStep ==
    ASSUME IInv, NEW j \in Jobs, Outside(j) PROVE Fine
<1>0. JobTypes /\ JobInv(j) /\ Untouched(j) /\ Books(j)
  BY TypeParts DEF IInv
<1>1. UNCHANGED wk
  BY OutsideIdle
<1>2. Fine
  <2>. USE DEF JobTypes, envVars, procVars, SubGo, SubAnswer, SubError, CanGo,
      CanAnswer, RecGo, JobInv, Recorded, Held, Charged, Provided, Released,
      Settled, Queued, FailedOwed, Owed, Excused, Noted, LockLost, GivenUp, Stable,
      Quiet, Untouched, SameBut, RowBut, HoldKept, QueueKept, BeforeProvider,
      BeforeRecord, Early, PostIndex, Live, Terminal, Unsubmitted, ProviderLive
  <2>1. CASE CreateJob(j)
    <3>1. /\ Others(j) /\ SameBut(j, {"job", "sub"})
          /\ sub[j] = "none" /\ sub'[j] = "reserve" /\ job'[j].status = "created"
          /\ RowBut(j, {"status"})
      BY <1>0, <2>1, KeptEffect, SetStatusEffect DEF CreateJob, Others
    <3>2. JobInv(j)' /\ Stable(j) /\ Quiet(j) /\ Untouched(j)'
      BY <1>0, <1>1, <3>1
    <3>. QED BY <1>0, <1>1, <3>1, <3>2, FineBy
  <2>2. CASE SubmitReserve(j)
    <3>1. CASE ReserveHold(j) /\ SubGo(j, "items") /\ UNCHANGED lost
      <4>1. /\ Others(j) /\ SameBut(j, {"sub", "hold"})
            /\ sub[j] = "reserve" /\ sub'[j] = "items"
            /\ "hold" \in claims'[j] /\ "hold" \notin claims[j]
            /\ ("capture" \in claims'[j] <=> "capture" \in claims[j])
            /\ ("release" \in claims'[j] <=> "release" \in claims[j])
            /\ charge'[j] = charge[j] /\ net'[j] = net[j] + HoldAmount
        BY <1>0, <2>2, <3>1, KeptEffect, ReserveEffect DEF SubmitReserve, Others
      <4>2. JobInv(j)' /\ Stable(j) /\ Quiet(j) /\ Untouched(j)'
        BY <1>0, <1>1, <4>1
      <4>. QED BY <1>0, <1>1, <4>1, <4>2, FineBy
    <3>2. CASE ReserveHold(j) /\ SubGo(j, "fail") /\ Broken(j, "handler")
      <4>1. /\ Others(j) /\ SameBut(j, {"sub", "hold", "lost"})
            /\ sub[j] = "reserve" /\ sub'[j] = "fail"
            /\ lost'[j] = lost[j] \cup {"handler"}
            /\ "hold" \in claims'[j] /\ "hold" \notin claims[j]
            /\ ("capture" \in claims'[j] <=> "capture" \in claims[j])
            /\ ("release" \in claims'[j] <=> "release" \in claims[j])
            /\ charge'[j] = charge[j] /\ net'[j] = net[j] + HoldAmount
        BY <1>0, <2>2, <3>2, KeptEffect, ReserveEffect, BrokenEffect DEF
            SubmitReserve, Others
      <4>2. JobInv(j)' /\ Stable(j) /\ Quiet(j) /\ Untouched(j)'
        BY <1>0, <1>1, <4>1
      <4>. QED BY <1>0, <1>1, <4>1, <4>2, FineBy
    <3>3. CASE SubGo(j, "fail") /\ UNCHANGED <<holdVars, lost>>
      <4>1. /\ Others(j) /\ SameBut(j, {"sub"})
            /\ sub[j] = "reserve" /\ sub'[j] = "fail" /\ net[j] = 0
        BY <1>0, <2>2, <3>3, KeptEffect DEF SubmitReserve, Others, Books
      <4>2. JobInv(j)' /\ Stable(j) /\ Quiet(j) /\ Untouched(j)'
        BY <1>0, <1>1, <4>1
      <4>. QED BY <1>0, <1>1, <4>1, <4>2, FineBy
    <3>. QED BY <1>0, <2>2, <3>1, <3>2, <3>3 DEF SubmitReserve, RetryQueue, SubGo,
        SubAnswer, SubError, CanGo, CanAnswer, RecGo
  <2>3. CASE SubmitItems(j)
    <3>1. /\ Others(j) /\ SameBut(j, {"sub"})
          /\ sub[j] = "items" /\ sub'[j] \in {"upload", "release"}
      BY <1>0, <2>3, KeptEffect DEF SubmitItems, Others
    <3>2. JobInv(j)' /\ Stable(j) /\ Quiet(j) /\ Untouched(j)'
      BY <1>0, <1>1, <3>1
    <3>. QED BY <1>0, <1>1, <3>1, <3>2, FineBy
  <2>4. CASE SubmitUpload(j)
    <3>1. CASE Transition(j, "uploading") /\ (SubGo(j, "submit") \/ SubGo(j,
        "release"))
      <4>1. /\ Others(j) /\ SameBut(j, {"job", "sub"})
            /\ sub[j] = "upload" /\ sub'[j] \in {"submit", "release"}
            /\ job[j].status = "created" /\ job'[j].status = "uploading"
            /\ RowBut(j, {"status"})
        BY <1>0, <2>4, <3>1, KeptEffect, SetStatusEffect DEF SubmitUpload, Others,
            Transition, CanTransition
      <4>2. JobInv(j)' /\ Stable(j) /\ Quiet(j) /\ Untouched(j)'
        BY <1>0, <1>1, <4>1
      <4>. QED BY <1>0, <1>1, <4>1, <4>2, FineBy
    <3>2. CASE UNCHANGED job /\ (SubGo(j, "return") \/ SubGo(j, "release"))
      <4>1. /\ Others(j) /\ SameBut(j, {"sub"})
            /\ sub[j] = "upload" /\ sub'[j] \in {"return", "release"}
        BY <1>0, <2>4, <3>2, KeptEffect DEF SubmitUpload, Others
      <4>2. JobInv(j)' /\ Stable(j) /\ Quiet(j) /\ Untouched(j)'
        BY <1>0, <1>1, <4>1
      <4>. QED BY <1>0, <1>1, <4>1, <4>2, FineBy
    <3>. QED BY <1>0, <2>4, <3>1, <3>2 DEF SubmitUpload, RetryQueue, SubGo,
        SubAnswer, SubError, CanGo, CanAnswer, RecGo
  <2>5. CASE SubmitProvider(j)
    <3>1. CASE prov' = [prov EXCEPT ![j] = "queued"] /\ (SubGo(j, "record") \/
        SubGo(j, "release"))
      <4>1. /\ Others(j) /\ SameBut(j, {"sub", "prov"})
            /\ sub[j] = "submit" /\ sub'[j] \in {"record", "release"}
            /\ prov'[j] = "queued"
        BY <1>0, <2>5, <3>1, KeptEffect DEF SubmitProvider, Others
      <4>2. JobInv(j)' /\ Stable(j) /\ Quiet(j) /\ Untouched(j)'
        BY <1>0, <1>1, <4>1
      <4>. QED BY <1>0, <1>1, <4>1, <4>2, FineBy
    <3>2. CASE UNCHANGED prov /\ SubGo(j, "release")
      <4>1. /\ Others(j) /\ SameBut(j, {"sub"})
            /\ sub[j] = "submit" /\ sub'[j] = "release"
        BY <1>0, <2>5, <3>2, KeptEffect DEF SubmitProvider, Others
      <4>2. JobInv(j)' /\ Stable(j) /\ Quiet(j) /\ Untouched(j)'
        BY <1>0, <1>1, <4>1
      <4>. QED BY <1>0, <1>1, <4>1, <4>2, FineBy
    <3>. QED BY <1>0, <2>5, <3>1, <3>2 DEF SubmitProvider, RetryQueue, SubGo,
        SubAnswer, SubError, CanGo, CanAnswer, RecGo
  <2>6. CASE SubmitHeartbeat(j)
    <3>1. /\ Others(j) /\ SameBut(j, {"job"})
          /\ sub[j] = "submit" /\ RowBut(j, {})
      BY <1>0, <2>6, KeptEffect DEF SubmitHeartbeat, Others, Rows
    <3>2. JobInv(j)' /\ Stable(j) /\ Quiet(j) /\ Untouched(j)'
      BY <1>0, <1>1, <3>1
    <3>. QED BY <1>0, <1>1, <3>1, <3>2, FineBy
  <2>7. CASE SubmitRecord(j)
    <3>1. CASE CanTransition(job[j].status, "submitted") /\ job' = [job EXCEPT
        ![j].status = "submitted", ![j].named = TRUE, ![j].old = FALSE] /\ (SubGo(j,
        "enqueue") \/ SubGo(j, "abort"))
      <4>1. /\ Others(j) /\ SameBut(j, {"job", "sub"})
            /\ sub[j] = "record" /\ sub'[j] \in {"enqueue", "abort"}
            /\ job[j].status \in Unsubmitted /\ job'[j].status = "submitted"
            /\ job'[j].named /\ RowBut(j, {"status", "named"})
        BY <1>0, <2>7, <3>1, KeptEffect DEF SubmitRecord, Others, CanTransition,
            Rows
      <4>2. JobInv(j)' /\ Stable(j) /\ Quiet(j) /\ Untouched(j)'
        BY <1>0, <1>1, <4>1
      <4>. QED BY <1>0, <1>1, <4>1, <4>2, FineBy
    <3>2. CASE UNCHANGED job /\ SubGo(j, "abort")
      <4>1. /\ Others(j) /\ SameBut(j, {"sub"})
            /\ sub[j] = "record" /\ sub'[j] = "abort" /\ job[j].status \in Early
        BY <1>0, <2>7, <3>2, KeptEffect DEF SubmitRecord, Others
      <4>2. JobInv(j)' /\ Stable(j) /\ Quiet(j) /\ Untouched(j)'
        BY <1>0, <1>1, <4>1
      <4>. QED BY <1>0, <1>1, <4>1, <4>2, FineBy
    <3>. QED BY <1>0, <2>7, <3>1, <3>2 DEF SubmitRecord, RetryQueue, SubGo,
        SubAnswer, SubError, CanGo, CanAnswer, RecGo
  <2>8. CASE SubmitAbort(j)
    <3>1. /\ Others(j) /\ SameBut(j, {"sub", "prov"})
          /\ sub[j] = "abort" /\ sub'[j] = "done"
          /\ (prov'[j] = prov[j] \/ prov[j] \in ProviderLive)
      BY <1>0, <2>8, KeptEffect DEF SubmitAbort, Others, ProviderCancel
    <3>2. JobInv(j)' /\ Stable(j) /\ Quiet(j) /\ Untouched(j)'
      BY <1>0, <1>1, <3>1
    <3>. QED BY <1>0, <1>1, <3>1, <3>2, FineBy
  <2>9. CASE SubmitEnqueue(j)
    <3>1. CASE Enqueue(j) /\ queued' = queued \cup {j} /\ (SubGo(j, "done") \/
        SubGo(j, "note"))
      <4>1. /\ Others(j) /\ SameBut(j, {"sub", "queue"})
            /\ sub[j] = "enqueue" /\ sub'[j] \in {"done", "note"} /\ InQueue(j)'
        BY <1>0, <2>9, <3>1, KeptEffect, EnqueueEffect DEF SubmitEnqueue, Others
      <4>2. JobInv(j)' /\ Stable(j) /\ Quiet(j) /\ Untouched(j)'
        BY <1>0, <1>1, <4>1
      <4>. QED BY <1>0, <1>1, <4>1, <4>2, FineBy
    <3>2. CASE SubGo(j, "note") /\ UNCHANGED <<queueVars, queued>>
      <4>1. /\ Others(j) /\ SameBut(j, {"sub"})
            /\ sub[j] = "enqueue" /\ sub'[j] = "note"
        BY <1>0, <2>9, <3>2, KeptEffect DEF SubmitEnqueue, Others
      <4>2. JobInv(j)' /\ Stable(j) /\ Quiet(j) /\ Untouched(j)'
        BY <1>0, <1>1, <4>1
      <4>. QED BY <1>0, <1>1, <4>1, <4>2, FineBy
    <3>. QED BY <1>0, <2>9, <3>1, <3>2 DEF SubmitEnqueue, RetryQueue, SubGo,
        SubAnswer, SubError, CanGo, CanAnswer, RecGo
  <2>10. CASE SubmitNote(j)
    <3>1. CASE NoteQueueFailure(j)
      <4>1. /\ Others(j) /\ SameBut(j, {"sub", "job", "lost"})
            /\ sub[j] = "note" /\ sub'[j] = "done" /\ ~job'[j].serr
            /\ RowBut(j, {"serr"})
            /\ (lost'[j] = lost[j] \/ lost'[j] = lost[j] \cup {"note"})
            /\ (job[j].status = "settling" => "note" \in lost'[j])
        BY <1>0, <2>10, <3>1, KeptEffect, NoteEffect DEF SubmitNote, Others
      <4>2. JobInv(j)' /\ Stable(j) /\ Quiet(j) /\ Untouched(j)'
        BY <1>0, <1>1, <4>1
      <4>. QED BY <1>0, <1>1, <4>1, <4>2, FineBy
    <3>2. CASE UNCHANGED <<job, lost>>
      <4>1. /\ Others(j) /\ SameBut(j, {"sub"})
            /\ sub[j] = "note" /\ sub'[j] = "done"
        BY <1>0, <2>10, <3>2, KeptEffect DEF SubmitNote, Others
      <4>2. JobInv(j)' /\ Stable(j) /\ Quiet(j) /\ Untouched(j)'
        BY <1>0, <1>1, <4>1
      <4>. QED BY <1>0, <1>1, <4>1, <4>2, FineBy
    <3>. QED BY <1>0, <2>10, <3>1, <3>2 DEF SubmitNote, RetryQueue, SubGo,
        SubAnswer, SubError, CanGo, CanAnswer, RecGo
  <2>11. CASE SubmitRelease(j)
    <3>1. CASE ReleaseHold(j)
      <4>1. /\ Others(j) /\ SameBut(j, {"sub", "hold"})
            /\ sub[j] \in {"release", "return"}
            /\ sub'[j] \in {"fail", "done", "relfail"}
            /\ "release" \in claims'[j]
            /\ ("hold" \in claims'[j] <=> "hold" \in claims[j])
            /\ ("capture" \in claims'[j] <=> "capture" \in claims[j])
            /\ charge'[j] = charge[j] /\ net'[j] <= net[j]
        BY <1>0, <2>11, <3>1, KeptEffect, ReleaseEffect DEF SubmitRelease, Others
      <4>2. JobInv(j)' /\ Stable(j) /\ Quiet(j) /\ Untouched(j)'
        BY <1>0, <1>1, <4>1
      <4>. QED BY <1>0, <1>1, <4>1, <4>2, FineBy
    <3>2. CASE UNCHANGED holdVars /\ SubGo(j, "relfail")
      <4>1. /\ Others(j) /\ SameBut(j, {"sub"})
            /\ sub[j] \in {"release", "return"} /\ sub'[j] = "relfail"
        BY <1>0, <2>11, <3>2, KeptEffect DEF SubmitRelease, Others
      <4>2. JobInv(j)' /\ Stable(j) /\ Quiet(j) /\ Untouched(j)'
        BY <1>0, <1>1, <4>1
      <4>. QED BY <1>0, <1>1, <4>1, <4>2, FineBy
    <3>. QED BY <1>0, <2>11, <3>1, <3>2 DEF SubmitRelease, RetryQueue, SubGo,
        SubAnswer, SubError, CanGo, CanAnswer, RecGo
  <2>12. CASE SubmitFail(j)
    <3>1. CASE SetStatus(j, "failed")
      <4>1. /\ Others(j) /\ SameBut(j, {"sub", "job"})
            /\ sub[j] \in {"fail", "relfail"}
            /\ sub'[j] = (IF sub[j] = "fail" THEN "hide" ELSE "retryq")
            /\ job'[j].status = "failed" /\ RowBut(j, {"status"})
        BY <1>0, <2>12, <3>1, KeptEffect, SetStatusEffect DEF SubmitFail, Others
      <4>2. JobInv(j)' /\ Stable(j) /\ Quiet(j) /\ Untouched(j)'
        BY <1>0, <1>1, <4>1
      <4>. QED BY <1>0, <1>1, <4>1, <4>2, FineBy
    <3>2. CASE UNCHANGED job
      <4>1. /\ Others(j) /\ SameBut(j, {"sub"})
            /\ sub[j] \in {"fail", "relfail"}
            /\ sub'[j] = (IF sub[j] = "fail" THEN "hide" ELSE "retryq")
        BY <1>0, <2>12, <3>2, KeptEffect DEF SubmitFail, Others
      <4>2. JobInv(j)' /\ Stable(j) /\ Quiet(j) /\ Untouched(j)'
        BY <1>0, <1>1, <4>1
      <4>. QED BY <1>0, <1>1, <4>1, <4>2, FineBy
    <3>. QED BY <1>0, <2>12, <3>1, <3>2 DEF SubmitFail, RetryQueue, SubGo,
        SubAnswer, SubError, CanGo, CanAnswer, RecGo
  <2>13. CASE SubmitHide(j)
    <3>1. /\ Others(j) /\ SameBut(j, {"sub", "job"})
          /\ sub[j] = "hide" /\ sub'[j] = "done" /\ RowBut(j, {})
      BY <1>0, <2>13, KeptEffect DEF SubmitHide, Others, Rows
    <3>2. JobInv(j)' /\ Stable(j) /\ Quiet(j) /\ Untouched(j)'
      BY <1>0, <1>1, <3>1
    <3>. QED BY <1>0, <1>1, <3>1, <3>2, FineBy
  <2>14. CASE SubmitRetry(j)
    <3>1. CASE Enqueue(j) /\ UNCHANGED lost
      <4>1. /\ Others(j) /\ SameBut(j, {"sub", "queue"})
            /\ sub[j] = "retryq" /\ sub'[j] = "done" /\ InQueue(j)'
            /\ (j \in queued' <=> j \in queued)
        BY <1>0, <2>14, <3>1, KeptEffect, EnqueueEffect DEF SubmitRetry, Others,
            RetryQueue
      <4>2. JobInv(j)' /\ Stable(j) /\ Quiet(j) /\ Untouched(j)'
        BY <1>0, <1>1, <4>1
      <4>. QED BY <1>0, <1>1, <4>1, <4>2, FineBy
    <3>2. CASE UNCHANGED queueVars /\ Broken(j, "handler")
      <4>1. /\ Others(j) /\ SameBut(j, {"sub", "lost"})
            /\ sub[j] = "retryq" /\ sub'[j] = "done"
            /\ lost'[j] = lost[j] \cup {"handler"}
        BY <1>0, <2>14, <3>2, KeptEffect, BrokenEffect DEF SubmitRetry, Others,
            RetryQueue
      <4>2. JobInv(j)' /\ Stable(j) /\ Quiet(j) /\ Untouched(j)'
        BY <1>0, <1>1, <4>1
      <4>. QED BY <1>0, <1>1, <4>1, <4>2, FineBy
    <3>. QED BY <1>0, <2>14, <3>1, <3>2 DEF SubmitRetry, RetryQueue, SubGo,
        SubAnswer, SubError, CanGo, CanAnswer, RecGo
  <2>15. CASE CancelRetry(j)
    <3>1. CASE Enqueue(j) /\ UNCHANGED lost
      <4>1. /\ Others(j) /\ SameBut(j, {"can", "queue"})
            /\ can[j] = "retryq" /\ can'[j] = "idle" /\ InQueue(j)'
            /\ (j \in queued' <=> j \in queued)
        BY <1>0, <2>15, <3>1, KeptEffect, EnqueueEffect DEF CancelRetry, Others,
            RetryQueue
      <4>2. JobInv(j)' /\ Stable(j) /\ Quiet(j) /\ Untouched(j)'
        BY <1>0, <1>1, <4>1
      <4>. QED BY <1>0, <1>1, <4>1, <4>2, FineBy
    <3>2. CASE UNCHANGED queueVars /\ Broken(j, "handler")
      <4>1. /\ Others(j) /\ SameBut(j, {"can", "lost"})
            /\ can[j] = "retryq" /\ can'[j] = "idle"
            /\ lost'[j] = lost[j] \cup {"handler"}
        BY <1>0, <2>15, <3>2, KeptEffect, BrokenEffect DEF CancelRetry, Others,
            RetryQueue
      <4>2. JobInv(j)' /\ Stable(j) /\ Quiet(j) /\ Untouched(j)'
        BY <1>0, <1>1, <4>1
      <4>. QED BY <1>0, <1>1, <4>1, <4>2, FineBy
    <3>. QED BY <1>0, <2>15, <3>1, <3>2 DEF CancelRetry, RetryQueue, SubGo,
        SubAnswer, SubError, CanGo, CanAnswer, RecGo
  <2>16. CASE RecoveryRetry(j)
    <3>1. CASE Enqueue(j) /\ UNCHANGED lost
      <4>1. /\ Others(j) /\ SameBut(j, {"rec", "queue"})
            /\ rec[j] = "retryq" /\ rec'[j] = "idle" /\ InQueue(j)'
            /\ (j \in queued' <=> j \in queued)
        BY <1>0, <2>16, <3>1, KeptEffect, EnqueueEffect DEF RecoveryRetry, Others,
            RetryQueue
      <4>2. JobInv(j)' /\ Stable(j) /\ Quiet(j) /\ Untouched(j)'
        BY <1>0, <1>1, <4>1
      <4>. QED BY <1>0, <1>1, <4>1, <4>2, FineBy
    <3>2. CASE UNCHANGED queueVars /\ Broken(j, "handler")
      <4>1. /\ Others(j) /\ SameBut(j, {"rec", "lost"})
            /\ rec[j] = "retryq" /\ rec'[j] = "idle"
            /\ lost'[j] = lost[j] \cup {"handler"}
        BY <1>0, <2>16, <3>2, KeptEffect, BrokenEffect DEF RecoveryRetry, Others,
            RetryQueue
      <4>2. JobInv(j)' /\ Stable(j) /\ Quiet(j) /\ Untouched(j)'
        BY <1>0, <1>1, <4>1
      <4>. QED BY <1>0, <1>1, <4>1, <4>2, FineBy
    <3>. QED BY <1>0, <2>16, <3>1, <3>2 DEF RecoveryRetry, RetryQueue, SubGo,
        SubAnswer, SubError, CanGo, CanAnswer, RecGo
  <2>17. CASE SubmitDies(j)
    <3>1. /\ Others(j) /\ SameBut(j, {"sub", "lost"})
          /\ sub[j] # "none" /\ sub'[j] = "done"
          /\ lost'[j] = lost[j] \cup {"handler"}
      BY <1>0, <2>17, KeptEffect, BrokenEffect DEF SubmitDies, Others
    <3>2. JobInv(j)' /\ Stable(j) /\ Quiet(j) /\ Untouched(j)'
      BY <1>0, <1>1, <3>1
    <3>. QED BY <1>0, <1>1, <3>1, <3>2, FineBy
  <2>18. CASE CallDies(j)
    <3>1. /\ Others(j) /\ SameBut(j, {"can", "lost"})
          /\ can[j] # "idle" /\ can'[j] = "idle"
          /\ lost'[j] = lost[j] \cup {"handler"}
      BY <1>0, <2>18, KeptEffect, BrokenEffect DEF CallDies, Others
    <3>2. JobInv(j)' /\ Stable(j) /\ Quiet(j) /\ Untouched(j)'
      BY <1>0, <1>1, <3>1
    <3>. QED BY <1>0, <1>1, <3>1, <3>2, FineBy
  <2>19. CASE RecoveryDies(j)
    <3>1. /\ Others(j) /\ SameBut(j, {"rec", "lost"})
          /\ rec[j] # "idle" /\ rec'[j] = "idle"
          /\ lost'[j] = lost[j] \cup {"handler"}
      BY <1>0, <2>19, KeptEffect, BrokenEffect DEF RecoveryDies, Others
    <3>2. JobInv(j)' /\ Stable(j) /\ Quiet(j) /\ Untouched(j)'
      BY <1>0, <1>1, <3>1
    <3>. QED BY <1>0, <1>1, <3>1, <3>2, FineBy
  <2>20. CASE Cancel(j)
    <3>1. /\ Others(j) /\ SameBut(j, {"can"})
          /\ can[j] = "idle" /\ can'[j] \in {"rel", "pcancel", "trans"}
          /\ (can'[j] = "rel" => job[j].status \in {"failed", "cancelled"})
          /\ (can'[j] = "pcancel" => job[j].named) /\ job[j].status # "absent"
      BY <1>0, <2>20, KeptEffect DEF Cancel, Others, Call
    <3>2. JobInv(j)' /\ Stable(j) /\ Quiet(j) /\ Untouched(j)'
      BY <1>0, <1>1, <3>1
    <3>. QED BY <1>0, <1>1, <3>1, <3>2, FineBy
  <2>21. CASE Resubmit(j)
    <3>1. /\ Others(j) /\ SameBut(j, {"can"})
          /\ can[j] = "idle" /\ can'[j] = "reenq" /\ job[j].status = "submitted"
      BY <1>0, <2>21, KeptEffect DEF Resubmit, Others, Call
    <3>2. JobInv(j)' /\ Stable(j) /\ Quiet(j) /\ Untouched(j)'
      BY <1>0, <1>1, <3>1
    <3>. QED BY <1>0, <1>1, <3>1, <3>2, FineBy
  <2>22. CASE CancelProvider(j)
    <3>1. /\ Others(j) /\ SameBut(j, {"can", "prov"})
          /\ can[j] = "pcancel" /\ can'[j] \in {"enq", "idle"}
          /\ (prov'[j] = prov[j] \/ prov[j] \in ProviderLive)
      BY <1>0, <2>22, KeptEffect DEF CancelProvider, Others, ProviderCancel
    <3>2. JobInv(j)' /\ Stable(j) /\ Quiet(j) /\ Untouched(j)'
      BY <1>0, <1>1, <3>1
    <3>. QED BY <1>0, <1>1, <3>1, <3>2, FineBy
  <2>23. CASE CallEnqueue(j)
    <3>1. CASE Enqueue(j) /\ queued' = queued \cup {j}
      <4>1. /\ Others(j) /\ SameBut(j, {"can", "queue"})
            /\ can[j] \in {"enq", "reenq"} /\ can'[j] \in {"idle", "note"}
            /\ InQueue(j)'
        BY <1>0, <2>23, <3>1, KeptEffect, EnqueueEffect DEF CallEnqueue, Others
      <4>2. JobInv(j)' /\ Stable(j) /\ Quiet(j) /\ Untouched(j)'
        BY <1>0, <1>1, <4>1
      <4>. QED BY <1>0, <1>1, <4>1, <4>2, FineBy
    <3>2. CASE UNCHANGED <<queueVars, queued>>
      <4>1. /\ Others(j) /\ SameBut(j, {"can"})
            /\ can[j] \in {"enq", "reenq"} /\ can'[j] \in {"idle", "note"}
        BY <1>0, <2>23, <3>2, KeptEffect DEF CallEnqueue, Others
      <4>2. JobInv(j)' /\ Stable(j) /\ Quiet(j) /\ Untouched(j)'
        BY <1>0, <1>1, <4>1
      <4>. QED BY <1>0, <1>1, <4>1, <4>2, FineBy
    <3>. QED BY <1>0, <2>23, <3>1, <3>2 DEF CallEnqueue, RetryQueue, SubGo,
        SubAnswer, SubError, CanGo, CanAnswer, RecGo
  <2>24. CASE CallNote(j)
    <3>1. CASE NoteQueueFailure(j)
      <4>1. /\ Others(j) /\ SameBut(j, {"can", "job", "lost"})
            /\ can[j] = "note" /\ can'[j] = "idle" /\ ~job'[j].serr
            /\ RowBut(j, {"serr"})
            /\ (lost'[j] = lost[j] \/ lost'[j] = lost[j] \cup {"note"})
            /\ (job[j].status = "settling" => "note" \in lost'[j])
        BY <1>0, <2>24, <3>1, KeptEffect, NoteEffect DEF CallNote, Others
      <4>2. JobInv(j)' /\ Stable(j) /\ Quiet(j) /\ Untouched(j)'
        BY <1>0, <1>1, <4>1
      <4>. QED BY <1>0, <1>1, <4>1, <4>2, FineBy
    <3>2. CASE UNCHANGED <<job, lost>>
      <4>1. /\ Others(j) /\ SameBut(j, {"can"})
            /\ can[j] = "note" /\ can'[j] = "idle"
        BY <1>0, <2>24, <3>2, KeptEffect DEF CallNote, Others
      <4>2. JobInv(j)' /\ Stable(j) /\ Quiet(j) /\ Untouched(j)'
        BY <1>0, <1>1, <4>1
      <4>. QED BY <1>0, <1>1, <4>1, <4>2, FineBy
    <3>. QED BY <1>0, <2>24, <3>1, <3>2 DEF CallNote, RetryQueue, SubGo, SubAnswer,
        SubError, CanGo, CanAnswer, RecGo
  <2>25. CASE CancelTransition(j)
    <3>1. CASE Transition(j, "cancelled") /\ CanGo(j, "rel") /\ UNCHANGED lost
      <4>1. /\ Others(j) /\ SameBut(j, {"can", "job"})
            /\ can[j] = "trans" /\ can'[j] = "rel"
            /\ job[j].status \in {"created", "uploading", "submitted", "running"}
            /\ job'[j].status = "cancelled" /\ RowBut(j, {"status"})
        BY <1>0, <2>25, <3>1, KeptEffect, SetStatusEffect DEF CancelTransition,
            Others, Transition, CanTransition
      <4>2. JobInv(j)' /\ Stable(j) /\ Quiet(j) /\ Untouched(j)'
        BY <1>0, <1>1, <4>1
      <4>. QED BY <1>0, <1>1, <4>1, <4>2, FineBy
    <3>2. CASE Transition(j, "cancelled") /\ CanGo(j, "idle") /\ Broken(j,
        "handler")
      <4>1. /\ Others(j) /\ SameBut(j, {"can", "job", "lost"})
            /\ can[j] = "trans" /\ can'[j] = "idle"
            /\ job[j].status \in {"created", "uploading", "submitted", "running"}
            /\ job'[j].status = "cancelled" /\ RowBut(j, {"status"})
            /\ lost'[j] = lost[j] \cup {"handler"}
        BY <1>0, <2>25, <3>2, KeptEffect, SetStatusEffect, BrokenEffect DEF
            CancelTransition, Others, Transition, CanTransition
      <4>2. JobInv(j)' /\ Stable(j) /\ Quiet(j) /\ Untouched(j)'
        BY <1>0, <1>1, <4>1
      <4>. QED BY <1>0, <1>1, <4>1, <4>2, FineBy
    <3>3. CASE CanGo(j, "idle") /\ UNCHANGED <<job, lost>>
      <4>1. /\ Others(j) /\ SameBut(j, {"can"})
            /\ can[j] = "trans" /\ can'[j] = "idle"
        BY <1>0, <2>25, <3>3, KeptEffect DEF CancelTransition, Others
      <4>2. JobInv(j)' /\ Stable(j) /\ Quiet(j) /\ Untouched(j)'
        BY <1>0, <1>1, <4>1
      <4>. QED BY <1>0, <1>1, <4>1, <4>2, FineBy
    <3>. QED BY <1>0, <2>25, <3>1, <3>2, <3>3 DEF CancelTransition, RetryQueue,
        SubGo, SubAnswer, SubError, CanGo, CanAnswer, RecGo
  <2>26. CASE CancelRelease(j)
    <3>1. CASE ReleaseHold(j)
      <4>1. /\ Others(j) /\ SameBut(j, {"can", "hold"})
            /\ can[j] = "rel" /\ can'[j] \in {"idle", "retryq"}
            /\ "release" \in claims'[j]
            /\ ("hold" \in claims'[j] <=> "hold" \in claims[j])
            /\ ("capture" \in claims'[j] <=> "capture" \in claims[j])
            /\ charge'[j] = charge[j] /\ net'[j] <= net[j]
        BY <1>0, <2>26, <3>1, KeptEffect, ReleaseEffect DEF CancelRelease, Others
      <4>2. JobInv(j)' /\ Stable(j) /\ Quiet(j) /\ Untouched(j)'
        BY <1>0, <1>1, <4>1
      <4>. QED BY <1>0, <1>1, <4>1, <4>2, FineBy
    <3>2. CASE UNCHANGED holdVars /\ CanGo(j, "retryq")
      <4>1. /\ Others(j) /\ SameBut(j, {"can"})
            /\ can[j] = "rel" /\ can'[j] = "retryq"
        BY <1>0, <2>26, <3>2, KeptEffect DEF CancelRelease, Others
      <4>2. JobInv(j)' /\ Stable(j) /\ Quiet(j) /\ Untouched(j)'
        BY <1>0, <1>1, <4>1
      <4>. QED BY <1>0, <1>1, <4>1, <4>2, FineBy
    <3>. QED BY <1>0, <2>26, <3>1, <3>2 DEF CancelRelease, RetryQueue, SubGo,
        SubAnswer, SubError, CanGo, CanAnswer, RecGo
  <2>27. CASE HideRecord(j)
    <3>1. /\ Others(j) /\ SameBut(j, {"job"})
          /\ job[j].status \in Terminal /\ RowBut(j, {})
      BY <1>0, <2>27, KeptEffect DEF HideRecord, Others, Rows
    <3>2. JobInv(j)' /\ Stable(j) /\ Quiet(j) /\ Untouched(j)'
      BY <1>0, <1>1, <3>1
    <3>. QED BY <1>0, <1>1, <3>1, <3>2, FineBy
  <2>28. CASE CleanupOutput(j)
    <3>1. /\ Others(j) /\ SameBut(j, {"job"})
          /\ job[j].status = "completed" /\ job'[j].status = "output_deleted"
          /\ RowBut(j, {"status"})
      BY <1>0, <2>28, KeptEffect, SetStatusEffect DEF CleanupOutput, Others
    <3>2. JobInv(j)' /\ Stable(j) /\ Quiet(j) /\ Untouched(j)'
      BY <1>0, <1>1, <3>1
    <3>. QED BY <1>0, <1>1, <3>1, <3>2, FineBy
  <2>29. CASE FailStale(j)
    <3>1. CASE RecGo(j, "rel") /\ UNCHANGED lost
      <4>1. /\ Others(j) /\ SameBut(j, {"rec", "job"})
            /\ rec'[j] = "rel" /\ job[j].status \in Unsubmitted /\ ~job[j].named
            /\ job'[j].status = "failed" /\ RowBut(j, {"status"})
        BY <1>0, <2>29, <3>1, KeptEffect, SetStatusEffect DEF FailStale, Others
      <4>2. JobInv(j)' /\ Stable(j) /\ Quiet(j) /\ Untouched(j)'
        BY <1>0, <1>1, <4>1
      <4>. QED BY <1>0, <1>1, <4>1, <4>2, FineBy
    <3>2. CASE UNCHANGED rec /\ Broken(j, "handler")
      <4>1. /\ Others(j) /\ SameBut(j, {"rec", "job", "lost"})
            /\ rec'[j] = "idle" /\ job[j].status \in Unsubmitted /\ ~job[j].named
            /\ job'[j].status = "failed" /\ RowBut(j, {"status"})
            /\ lost'[j] = lost[j] \cup {"handler"}
        BY <1>0, <2>29, <3>2, KeptEffect, SetStatusEffect, BrokenEffect DEF
            FailStale, Others
      <4>2. JobInv(j)' /\ Stable(j) /\ Quiet(j) /\ Untouched(j)'
        BY <1>0, <1>1, <4>1
      <4>. QED BY <1>0, <1>1, <4>1, <4>2, FineBy
    <3>. QED BY <1>0, <2>29, <3>1, <3>2 DEF FailStale, RetryQueue, SubGo, SubAnswer,
        SubError, CanGo, CanAnswer, RecGo
  <2>30. CASE RecoveryRelease(j)
    <3>1. CASE ReleaseHold(j)
      <4>1. /\ Others(j) /\ SameBut(j, {"rec", "hold"})
            /\ rec[j] = "rel" /\ rec'[j] \in {"idle", "retryq"}
            /\ "release" \in claims'[j]
            /\ ("hold" \in claims'[j] <=> "hold" \in claims[j])
            /\ ("capture" \in claims'[j] <=> "capture" \in claims[j])
            /\ charge'[j] = charge[j] /\ net'[j] <= net[j]
        BY <1>0, <2>30, <3>1, KeptEffect, ReleaseEffect DEF RecoveryRelease, Others
      <4>2. JobInv(j)' /\ Stable(j) /\ Quiet(j) /\ Untouched(j)'
        BY <1>0, <1>1, <4>1
      <4>. QED BY <1>0, <1>1, <4>1, <4>2, FineBy
    <3>2. CASE UNCHANGED holdVars /\ RecGo(j, "retryq")
      <4>1. /\ Others(j) /\ SameBut(j, {"rec"})
            /\ rec[j] = "rel" /\ rec'[j] = "retryq"
        BY <1>0, <2>30, <3>2, KeptEffect DEF RecoveryRelease, Others
      <4>2. JobInv(j)' /\ Stable(j) /\ Quiet(j) /\ Untouched(j)'
        BY <1>0, <1>1, <4>1
      <4>. QED BY <1>0, <1>1, <4>1, <4>2, FineBy
    <3>. QED BY <1>0, <2>30, <3>1, <3>2 DEF RecoveryRelease, RetryQueue, SubGo,
        SubAnswer, SubError, CanGo, CanAnswer, RecGo
  <2>31. CASE RowAges(j)
    <3>1. /\ Others(j) /\ SameBut(j, {"job"})
          /\ job[j].status \in Unsubmitted /\ RowBut(j, {})
      BY <1>0, <2>31, KeptEffect DEF RowAges, Others, Rows
    <3>2. JobInv(j)' /\ Stable(j) /\ Quiet(j) /\ Untouched(j)'
      BY <1>0, <1>1, <3>1
    <3>. QED BY <1>0, <1>1, <3>1, <3>2, FineBy
  <2>32. CASE LockExpires(j)
    <3>1. /\ Others(j) /\ SameBut(j, {"lost"})
          /\ lost'[j] = lost[j] \/ lost'[j] = lost[j] \cup {"lock"}
      BY <1>0, <2>32, KeptEffect, BrokenEffect, LockEffect DEF LockExpires, Others,
          LockTTL
    <3>2. JobInv(j)' /\ Stable(j) /\ Quiet(j) /\ Untouched(j)'
      BY <1>0, <1>1, <3>1 DEF Job, At
    <3>. QED BY <1>0, <1>1, <3>1, <3>2, FineBy
  <2>33. CASE EntryAges(j)
    <3>1. /\ Others(j) /\ SameBut(j, {})
          /\ InQueue(j)
      BY <1>0, <2>33, KeptEffect, MoveEffect DEF EntryAges, Others
    <3>2. JobInv(j)' /\ Stable(j) /\ Quiet(j) /\ Untouched(j)'
      BY <1>0, <1>1, <3>1
    <3>. QED BY <1>0, <1>1, <3>1, <3>2, FineBy
  <2>34. CASE InflightExpires(j)
    <3>1. /\ Others(j) /\ SameBut(j, {"queue"})
          /\ (InQueue(j)' <=> InQueue(j)) /\ (j \in inflight' => j \in inflight)
          /\ (j \in queued' <=> j \in queued)
      BY <1>0, <2>34, KeptEffect DEF InflightExpires, Others, InflightTTL, InQueue
    <3>2. JobInv(j)' /\ Stable(j) /\ Quiet(j) /\ Untouched(j)'
      BY <1>0, <1>1, <3>1 DEF Job, At
    <3>. QED BY <1>0, <1>1, <3>1, <3>2, FineBy
  <2>35. CASE QueueLoops(j)
    <3>1. /\ Others(j) /\ SameBut(j, {})
          /\ InQueue(j)
      BY <1>0, <2>35, KeptEffect, MoveEffect DEF QueueLoops, Others
    <3>2. JobInv(j)' /\ Stable(j) /\ Quiet(j) /\ Untouched(j)'
      BY <1>0, <1>1, <3>1
    <3>. QED BY <1>0, <1>1, <3>1, <3>2, FineBy
  <2>36. CASE ProviderRuns(j)
    <3>1. /\ Others(j) /\ SameBut(j, {"prov"})
          /\ prov[j] \in ProviderLive
      BY <1>0, <2>36, KeptEffect DEF ProviderRuns, Others
    <3>2. JobInv(j)' /\ Stable(j) /\ Quiet(j) /\ Untouched(j)'
      BY <1>0, <1>1, <3>1
    <3>. QED BY <1>0, <1>1, <3>1, <3>2, FineBy
  <2>. QED BY <2>1, <2>2, <2>3, <2>4, <2>5, <2>6, <2>7, <2>8, <2>9, <2>10, <2>11,
      <2>12, <2>13, <2>14, <2>15, <2>16, <2>17, <2>18, <2>19, <2>20, <2>21, <2>22,
      <2>23, <2>24, <2>25, <2>26, <2>27, <2>28, <2>29, <2>30, <2>31, <2>32, <2>33,
      <2>34, <2>35, <2>36 DEF Outside, Submit, Client, Recovery
<1>. QED BY <1>2
=============================================================================
