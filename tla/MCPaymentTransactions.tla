----------------------- MODULE MCPaymentTransactions -----------------------
(***************************************************************************)
(* Instances of PaymentTransactions for TLC.  Orders "ab" and "a-b" name   *)
(* the same invoice once the dashes are gone.                              *)
(***************************************************************************)
EXTENDS PaymentTransactions, TLC

CONSTANTS m1, m2, ab, a_b, other

MCOpening == [m \in Merchants |-> 3]

MCUndashed == [o \in Orders |-> IF o = a_b THEN ab ELSE o]

MCSymmetry == Permutations(Requests) \cup Permutations(Calls) \cup Permutations(Workers)
                  \cup Permutations(ProviderIds) \cup Permutations(Merchants)
=============================================================================
