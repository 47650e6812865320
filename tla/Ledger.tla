------------------------------- MODULE Ledger -------------------------------
(***************************************************************************)
(* What the payment table and the balance table promise together, with    *)
(* every database transaction of the gateway as one atomic step.          *)
(*                                                                         *)
(* A payment reserves part of a merchant's available money and is settled *)
(* at most once, either captured (the money leaves the balance) or        *)
(* released (the reservation is given back).  PaymentTransactions is      *)
(* shown to implement this module.                                        *)
(***************************************************************************)
EXTENDS Integers, FiniteSets

CONSTANTS
    Merchants,   \* owners of a balance row
    Payments,    \* identities of payment rows
    Invoices,    \* values of payment.external_invoice_id
    Amounts,     \* amounts a payment can have, in minor units
    Opening,     \* the amount each balance starts with
    None         \* no payment row

Entry == [merchant : Merchants,
          invoice  : Invoices,
          amount   : Amounts,
          state    : {"open", "captured", "released"}]

ASSUME LedgerAssumption ==
    /\ Amounts \subseteq Nat \ {0}
    /\ Opening \in [Merchants -> Nat]
    /\ None \notin Entry

VARIABLES
    funds,   \* funds[m]: the balance row of merchant m
    entry    \* entry[p]: payment p, or None before it is created

vars == <<funds, entry>>

Funds == [amount : Nat, reserved : Nat]

Available(m) == funds[m].amount - funds[m].reserved

Init == /\ funds = [m \in Merchants |-> [amount |-> Opening[m], reserved |-> 0]]
        /\ entry = [p \in Payments |-> None]

-----------------------------------------------------------------------------

\* Mutant: the amount is compared with the balance, not with what is available.
Reserve_IgnoresReserved(p, m, i, a) ==
    /\ entry[p] = None
    /\ \A q \in Payments : entry[q] # None => entry[q].invoice # i
    /\ a <= funds[m].amount
    /\ entry' = [entry EXCEPT ![p] = [merchant |-> m, invoice |-> i,
                                      amount |-> a, state |-> "open"]]
    /\ funds' = [funds EXCEPT ![m].reserved = @ + a]

\* A payment is created and its amount reserved, in one transaction.
Reserve(p, m, i, a) ==
    /\ entry[p] = None
    /\ \A q \in Payments : entry[q] # None => entry[q].invoice # i
    /\ a <= Available(m)
    /\ entry' = [entry EXCEPT ![p] = [merchant |-> m, invoice |-> i,
                                      amount |-> a, state |-> "open"]]
    /\ funds' = [funds EXCEPT ![m].reserved = @ + a]

\* Mutant: a payment that is already settled is captured.
Capture_AnyState(p) ==
    /\ entry[p] # None
    /\ entry' = [entry EXCEPT ![p].state = "captured"]
    /\ funds' = [funds EXCEPT ![entry[p].merchant] =
                    [amount   |-> @.amount - entry[p].amount,
                     reserved |-> @.reserved - entry[p].amount]]

\* The provider completed the payment: the reserved money is spent.
Capture(p) ==
    /\ entry[p] # None
    /\ entry[p].state = "open"
    /\ entry' = [entry EXCEPT ![p].state = "captured"]
    /\ funds' = [funds EXCEPT ![entry[p].merchant] =
                    [amount   |-> @.amount - entry[p].amount,
                     reserved |-> @.reserved - entry[p].amount]]

\* The provider canceled the payment: the reserved money is available again.
Release(p) ==
    /\ entry[p] # None
    /\ entry[p].state = "open"
    /\ entry' = [entry EXCEPT ![p].state = "released"]
    /\ funds' = [funds EXCEPT ![entry[p].merchant].reserved = @ - entry[p].amount]

Next == \E p \in Payments :
            \/ \E m \in Merchants, i \in Invoices, a \in Amounts : Reserve(p, m, i, a)
            \/ Capture(p)
            \/ Release(p)

Spec == Init /\ [][Next]_vars

-----------------------------------------------------------------------------

\* The payments of merchant m that are in state s.
InState(m, s) == {p \in Payments : /\ entry[p] # None
                                   /\ entry[p].merchant = m
                                   /\ entry[p].state = s}

\* One element for every minor unit of the amounts of those payments, so that
\* the sum of the amounts is a cardinality.
Units(m, s) == UNION {{p} \X (1 .. entry[p].amount) : p \in InState(m, s)}

\* Both tables hold rows of the columns the migration declares, and no column
\* of a balance is ever negative.
TypeOK == /\ funds \in [Merchants -> Funds]
          /\ entry \in [Payments -> Entry \cup {None}]

\* The two tables agree: the reserved amount of a balance is the sum of the
\* merchant's open payments, and its amount is the opening amount less the sum
\* of the captured ones.  The code keeps them apart and only relates them by
\* adding and subtracting in the same transaction as it writes the payment.
Explained ==
    \A m \in Merchants :
        /\ funds[m].reserved = Cardinality(Units(m, "open"))
        /\ funds[m].amount = Opening[m] - Cardinality(Units(m, "captured"))

\* A merchant never has more reserved than it owns, so available_amount is
\* never negative and every open payment can still be captured.
Solvent == \A m \in Merchants : funds[m].reserved <= funds[m].amount
=============================================================================
