--------------------------- MODULE MCPaymentRefund ---------------------------
(* Model values for TLC and the properties of PaymentRefund. *)
EXTENDS PaymentRefund, TLC

CONSTANTS w1, w2, w3

Symmetry == Permutations(Workers)
=============================================================================
