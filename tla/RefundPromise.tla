---------------------------- MODULE RefundPromise ----------------------------
(***************************************************************************)
(* What a refund promises the user and the administrator, without saying   *)
(* how.  One request at a time works on the order.  It takes the           *)
(* entitlement at most once, and either closes the order, for which the    *)
(* gateway must have returned the money, or leaves it open or waiting, for *)
(* which it must have given the entitlement back.  A request that vanishes *)
(* leaves the order busy for good.  A refund of which a rollback failed or *)
(* which a late verdict overwrote is lost: then only the gateway keeps its *)
(* word.                                                                   *)
(***************************************************************************)
EXTENDS Naturals

CONSTANT Requests

VARIABLES
    paid,       \* the order was paid through a gateway; never changes
    shown,      \* the order: "open", "busy", "waiting", "closed", "lost"
    owners,     \* who works on it: nobody or one request
    taken,      \* how often the entitlement is taken and not given back
    money       \* at the gateway: "none", "pending", "returned"

refundVars == <<paid, shown, owners, taken, money>>

Init ==
    /\ paid \in BOOLEAN
    /\ shown = "open" /\ owners = {} /\ taken = 0 /\ money = "none"

Start(w) ==
    /\ shown \in {"open", "waiting"} /\ owners = {} /\ taken = 0
    /\ shown' = "busy" /\ owners' = {w} /\ UNCHANGED <<taken, money>>

Take(w) ==
    /\ shown = "busy" /\ owners = {w} /\ taken = 0 /\ taken' = 1
    /\ UNCHANGED <<shown, owners, money>>

GiveBack(w) ==
    /\ shown = "busy" /\ owners = {w} /\ taken = 1 /\ taken' = 0
    /\ UNCHANGED <<shown, owners, money>>

Close(w) ==
    /\ shown = "busy" /\ owners = {w} /\ (paid => money = "returned")
    /\ shown' = "closed" /\ owners' = {} /\ UNCHANGED <<taken, money>>

Leave(w) ==
    /\ shown = "busy" /\ owners = {w} /\ taken = 0
    /\ shown' \in {"open", "waiting"} /\ owners' = {} /\ UNCHANGED <<taken, money>>

Vanish(w) == owners = {w} /\ owners' = {} /\ UNCHANGED <<shown, taken, money>>

\* The verdict on a waiting refund; whether something is left to take is open.
Settle ==
    /\ shown = "waiting" /\ taken = 0 /\ UNCHANGED <<owners, money>>
    /\ \/ money = "returned" /\ shown' = "closed" /\ taken' \in {0, 1}
       \/ shown' = "open" /\ UNCHANGED taken

\* The gateway is asked by who works on the order, decides when it likes, and
\* never takes returned money back.
Gateway ==
    /\ \/ /\ money = "none" /\ (owners # {} \/ shown = "lost")
          /\ money' \in {"pending", "returned"}
       \/ money = "pending" /\ money' \in {"none", "returned"}
    /\ UNCHANGED <<shown, owners, taken>>

Lose == shown' = "lost" /\ owners' = {} /\ taken' = 0 /\ UNCHANGED money

Next ==
    /\ UNCHANGED paid
    /\ \/ \E w \in Requests : \/ Start(w) \/ Take(w) \/ GiveBack(w) \/ Close(w)
                              \/ Leave(w) \/ Vanish(w)
       \/ Settle \/ Gateway \/ Lose

Spec == Init /\ [][Next]_refundVars
=============================================================================
