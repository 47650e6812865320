-------------------------- MODULE MCPaymentListing --------------------------
(* PaymentListing for TLC: all payments but the last are m1's. *)
EXTENDS PaymentListing

CONSTANTS m1, m2, last

MCOwner == [p \in Payments |-> IF p = last THEN m2 ELSE m1]
=============================================================================
