------------------------------ MODULE MCLedger ------------------------------
(***************************************************************************)
(* A small instance of Ledger: two merchants, three payments, two invoices *)
(* and amounts that do not divide the opening balances evenly.             *)
(***************************************************************************)
EXTENDS Ledger, TLC

CONSTANTS m1, m2

MCOpening == (m1 :> 3) @@ (m2 :> 2)

MCSymmetry == Permutations(Payments) \cup Permutations(Invoices)
=============================================================================
