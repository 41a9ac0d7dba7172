--------------------------- MODULE PurchasePromise ---------------------------
(***************************************************************************)
(* What the shop promises for one purchase, without saying how: it is      *)
(* delivered once, only for the right money, shown as completed only after *)
(* that, and the invitation it may earn is rewarded once and not before.   *)
(* The shop may take the word "completed" back, never the delivery.        *)
(***************************************************************************)
EXTENDS Naturals

VARIABLES
    money,      \* the right amount was paid
    delivered,  \* how often the purchase was delivered
    rewarded,   \* how often the inviter was rewarded for it
    shown       \* the order is shown as completed

promiseVars == <<money, delivered, rewarded, shown>>

Init == money = FALSE /\ delivered = 0 /\ rewarded = 0 /\ shown = FALSE

Pay == money' = TRUE /\ UNCHANGED <<delivered, rewarded, shown>>

Deliver ==
    /\ money /\ delivered = 0 /\ delivered' = 1
    /\ UNCHANGED <<money, rewarded, shown>>

Reward ==
    /\ delivered = 1 /\ rewarded = 0 /\ rewarded' = 1
    /\ UNCHANGED <<money, delivered, shown>>

Complete ==
    /\ delivered = 1 /\ shown' = TRUE
    /\ UNCHANGED <<money, delivered, rewarded>>

Reopen == shown' = FALSE /\ UNCHANGED <<money, delivered, rewarded>>

Next == Pay \/ Deliver \/ Reward \/ Complete \/ Reopen

Spec == Init /\ [][Next]_promiseVars
=============================================================================
