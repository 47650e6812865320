----------------------------- MODULE AmountWire -----------------------------
(***************************************************************************)
(* How an amount travels to the provider: an integer of minor units is     *)
(* divided by 100 into a binary float, written with two decimals, read as  *)
(* a decimal and turned into minor units again, whose parity decides how   *)
(* the provider emulator ends the payment.                                 *)
(*                                                                         *)
(* A float is units/scale: fewer than Mantissa units (2^53 in a double),   *)
(* at a power of two.  Quotients from Mantissa on are left out.            *)
(***************************************************************************)
EXTENDS Naturals

CONSTANTS
    Mantissa,  \* a float has fewer units than this
    Scales     \* the powers of two that may divide them

ASSUME WireAssumption ==
    /\ Mantissa \in Nat \ {0}
    /\ Scales \subseteq Nat \ {0}
    /\ 128 \in Scales

\* x/y rounded to an integer, ties to even: what IEEE division does to the units
\* and what formatting does to the digits.
Nearest(x, y) ==
    LET q == x \div y
        r == x % y
    IN  IF 2 * r < y \/ (2 * r = y /\ q % 2 = 0) THEN q ELSE q + 1

\* The finest scale at which amount/100 still fits.
IsScale(amount, d) ==
    /\ d \in Scales
    /\ amount * d < 100 * Mantissa
    /\ \A c \in Scales : amount * c < 100 * Mantissa => c <= d

\* event.amount / 100
Quotient(amount) ==
    LET d == CHOOSE d \in Scales : IsScale(amount, d)
    IN  [units |-> Nearest(amount * d, 100), scale |-> d]

\* Mutant: the digits after the second are cut off.
Written_Truncated(x) ==
    LET minor == (100 * x.units) \div x.scale
    IN  [whole |-> minor \div 100, cents |-> minor % 100]

\* f"{x:.2f}"
Written(x) ==
    LET minor == Nearest(100 * x.units, x.scale)
    IN  [whole |-> minor \div 100, cents |-> minor % 100]

\* ProviderService._parse_amount: int(Decimal(raw) * 100).  Decimals are exact here,
\* and its refusals are out of reach: a payment has one minor unit at least.
ParseAmount(raw) == 100 * raw.whole + raw.cents

\* What the provider takes the amount for.
Received(amount) == ParseAmount(Written(Quotient(amount)))

\* ProviderService._resolve_final_status
FinalStatus(amount) == IF amount % 2 = 0 THEN "completed" ELSE "canceled"

\* Amounts whose quotient has a scale of 128 at least, so that its error is less
\* than half a minor unit: 100 * 2^46 in a double.
IsExact(amount) == amount * 128 < 100 * Mantissa
=============================================================================
