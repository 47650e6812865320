-------------------------- MODULE MCMerchantAccess --------------------------
(***************************************************************************)
(* Instance of MerchantAccess for TLC: two gateways and two seeds, of      *)
(* which the second may be used without a signature.  The first can spend  *)
(* more often than there are requests at once.                             *)
(***************************************************************************)
EXTENDS MerchantAccess

MCOpening == [i \in Seeds |-> IF i = 1 THEN 3 ELSE 1]
MCBypass == {2}
=============================================================================
