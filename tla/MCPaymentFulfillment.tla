------------------------ MODULE MCPaymentFulfillment ------------------------
(* Model values for TLC and the properties of PaymentFulfillment. *)
EXTENDS PaymentFulfillment, TLC

CONSTANTS w1, w2

Symmetry == Permutations(Workers)
=============================================================================
