---------------------------- MODULE BatchImageHold ----------------------------
(***************************************************************************)
(* The balance holds of batch image jobs, for the jobs of one user.        *)
(*                                                                         *)
(* Submitting a job moves HoldAmount from the user's balance to the frozen *)
(* balance; settling it captures the actual cost and gives the rest back;  *)
(* releasing it gives everything back.  Each of the three is one           *)
(* transaction that first claims a request id of its own in                *)
(* usage_billing_dedup, so that a repeated call changes nothing.  The      *)
(* frozen balance is one number for all holds of the user: a transaction   *)
(* asks only whether it is large enough.                                   *)
(*                                                                         *)
(* A hold is funded by a reward credit when the credit covers it, and by   *)
(* the rest of the balance otherwise.  The credits of the user are one lot *)
(* here; `lapsed` says that its expiry time has passed.                    *)
(***************************************************************************)
EXTENDS Integers, BatchImageJobs

CONSTANTS
    HoldAmount,    \* what a job freezes; also its price when every item succeeds
    OtherFrozen,   \* frozen by other jobs of the user
    Funds          \* what the user may start with: own money and reward credit

ASSUME HoldAssumption == HoldAmount \in Nat \ {0} /\ OtherFrozen \in Nat
ASSUME FundsAssumption == Funds \subseteq Nat \X Nat

VARIABLES
    claims,          \* request ids in usage_billing_dedup, by job
    balance, frozen,
    lot,             \* the reward credit: remaining, reserved, expired_at set
    lapsed,          \* expires_at has passed
    rewarded,        \* jobs with reward allocation rows
    alloc,           \* reward amount still reserved for a job
    net,             \* history: frozen for the job minus taken out for it
    charge           \* history: the captured amount

holdVars == <<claims, balance, frozen, lot, lapsed, rewarded, alloc, net,
              charge>>

Lots == [remaining : Nat, reserved : Nat, expired : BOOLEAN]

HoldTypeOK ==
    /\ claims \in [Jobs -> SUBSET {"hold", "capture", "release"}]
    /\ balance \in Int /\ frozen \in Nat
    /\ lot \in Lots /\ lapsed \in BOOLEAN /\ rewarded \in SUBSET Jobs
    /\ alloc \in [Jobs -> 0..HoldAmount] /\ net \in [Jobs -> Int]
    /\ charge \in [Jobs -> 0..HoldAmount]

\* The balance includes the reward credit.
HoldInit ==
    /\ claims = [j \in Jobs |-> {}] /\ frozen = OtherFrozen
    /\ \E f \in Funds :
        /\ balance = f[1] + f[2]
        /\ lot = [remaining |-> f[2], reserved |-> 0, expired |-> FALSE]
    /\ lapsed = FALSE /\ rewarded = {} /\ alloc = [j \in Jobs |-> 0]
    /\ net = [j \in Jobs |-> 0] /\ charge = [j \in Jobs |-> 0]

Claim(j, id) == claims' = [claims EXCEPT ![j] = @ \cup {id}]

\* expireRewardCreditsForUserTx, at the head of every transaction.
LotNow == IF lapsed /\ lot.remaining > 0
          THEN [lot EXCEPT !.remaining = 0, !.expired = TRUE] ELSE lot

BalanceNow == balance - (lot.remaining - LotNow.remaining)

-----------------------------------------------------------------------------
(* ReserveBatchImageBalance *)

RewardCovers == ~lapsed /\ LotNow.remaining >= HoldAmount

\* What credits have left or reserved does not count as the user's own.
AccountCovers ==
    BalanceNow - (IF LotNow.expired THEN 0
                  ELSE LotNow.remaining + LotNow.reserved) >= HoldAmount

CanReserve == RewardCovers \/ AccountCovers

ReserveHold(j) ==
    /\ CanReserve /\ "hold" \notin claims[j] /\ Claim(j, "hold")
    /\ balance' = BalanceNow - HoldAmount /\ frozen' = frozen + HoldAmount
    /\ net' = [net EXCEPT ![j] = @ + HoldAmount]
    /\ \/ /\ RewardCovers /\ rewarded' = rewarded \cup {j}
          /\ alloc' = [alloc EXCEPT ![j] = HoldAmount]
          /\ lot' = [LotNow EXCEPT !.remaining = @ - HoldAmount,
                                   !.reserved = @ + HoldAmount]
       \/ ~RewardCovers /\ lot' = LotNow /\ UNCHANGED <<rewarded, alloc>>
    /\ UNCHANGED <<lapsed, charge>>

-----------------------------------------------------------------------------
(* CaptureBatchImageBalance and ReleaseBatchImageBalance *)

\* Mutant: the allocation stays reserved.
RewardKept(j, cost) ==
    /\ balance' = BalanceNow + alloc[j] - cost /\ frozen' = frozen - alloc[j]
    /\ lot' = [LotNow EXCEPT !.remaining = @ + alloc[j] - cost,
                             !.reserved = @ - alloc[j]]
    /\ net' = [net EXCEPT ![j] = @ - alloc[j]] /\ UNCHANGED alloc

\* Mutant: what is left goes back to the lot and not to the balance.
RewardForgotten(j, cost) ==
    /\ balance' = BalanceNow /\ frozen' = frozen - alloc[j]
    /\ lot' = [LotNow EXCEPT !.remaining = @ + alloc[j] - cost,
                             !.reserved = @ - alloc[j]]
    /\ alloc' = [alloc EXCEPT ![j] = 0]
    /\ net' = [net EXCEPT ![j] = @ - alloc[j]]

\* settleBatchImageRewardAllocations: `cost` is kept, the rest goes back to the
\* lot and the balance, unless the lot lapsed.
SettleReward(j, cost) ==
    LET unused == alloc[j] - cost
        restored == IF lapsed THEN 0 ELSE unused
        left == [LotNow EXCEPT !.remaining = @ + restored,
                               !.reserved = @ - alloc[j]]
    IN  /\ balance' = BalanceNow + restored /\ frozen' = frozen - alloc[j]
        /\ lot' = [left EXCEPT !.expired = @ \/
             (lapsed /\ unused > 0 /\ left.remaining = 0 /\ left.reserved = 0)]
        /\ alloc' = [alloc EXCEPT ![j] = 0]
        /\ net' = [net EXCEPT ![j] = @ - alloc[j]]

SettleAccount(j, cost) ==
    /\ balance' = BalanceNow + HoldAmount - cost
    /\ frozen' = frozen - HoldAmount /\ lot' = LotNow
    /\ net' = [net EXCEPT ![j] = @ - HoldAmount] /\ UNCHANGED alloc

CanSettle(j, cost) ==
    IF j \in rewarded THEN cost <= alloc[j] /\ frozen >= alloc[j]
                      ELSE frozen >= HoldAmount

Settle(j, cost) ==
    /\ CanSettle(j, cost)
    /\ \/ j \in rewarded /\ SettleReward(j, cost)
       \/ j \notin rewarded /\ SettleAccount(j, cost)

CanCapture(j, cost) == "capture" \in claims[j] \/ CanSettle(j, cost)

\* Mutant: the request id is not claimed.
CaptureUnclaimed(j, cost) ==
    /\ Settle(j, cost) /\ charge' = [charge EXCEPT ![j] = cost]
    /\ UNCHANGED <<claims, lapsed, rewarded>>

\* Captures without asking whether the hold was released before.
CaptureHold(j, cost) ==
    \/ "capture" \in claims[j] /\ UNCHANGED holdVars
    \/ /\ "capture" \notin claims[j] /\ Settle(j, cost) /\ Claim(j, "capture")
       /\ charge' = [charge EXCEPT ![j] = cost]
       /\ UNCHANGED <<lapsed, rewarded>>

CanRelease(j) ==
    {"hold", "release"} \cap claims[j] # {"hold"} \/ CanSettle(j, 0)

\* A hold that was never reserved is not released, but the request id stays
\* claimed.  Releases without asking whether the hold was captured before.
ReleaseHold(j) ==
    \/ "release" \in claims[j] /\ UNCHANGED holdVars
    \/ /\ claims[j] \cap {"hold", "release"} = {} /\ Claim(j, "release")
       /\ UNCHANGED <<balance, frozen, lot, lapsed, rewarded, alloc, net,
                      charge>>
    \/ /\ claims[j] \cap {"hold", "release"} = {"hold"} /\ Settle(j, 0)
       /\ Claim(j, "release") /\ UNCHANGED <<lapsed, rewarded, charge>>

\* The credit's expiry time passes.
CreditLapses ==
    /\ ~lapsed /\ lapsed' = TRUE
    /\ UNCHANGED <<claims, balance, frozen, lot, rewarded, alloc, net, charge>>
=============================================================================
