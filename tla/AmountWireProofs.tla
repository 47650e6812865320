-------------------------- MODULE AmountWireProofs --------------------------
(***************************************************************************)
(* The way of an amount to the provider changes nothing below the limit of *)
(* IsExact, for floats of any width.                                       *)
(***************************************************************************)
EXTENDS AmountWire, TLAPS

LEMMA DivMod ==
    ASSUME NEW x \in Nat, NEW y \in Nat \ {0}
    PROVE  /\ x \div y \in Nat /\ x % y \in Nat
           /\ x = y * (x \div y) + (x % y)
           /\ x % y < y
OBVIOUS

\* Rounding moves a quotient by half a unit at most.
LEMMA NearestIsNear ==
    ASSUME NEW x \in Nat, NEW y \in Nat \ {0}
    PROVE  /\ Nearest(x, y) \in Nat
           /\ 2 * x <= 2 * (y * Nearest(x, y)) + y
           /\ 2 * (y * Nearest(x, y)) <= 2 * x + y
<1> DEFINE q == x \div y
           r == x % y
<1>1. q \in Nat /\ r \in Nat /\ x = y * q + r /\ r < y BY DivMod
<1>2. Nearest(x, y) \in {q, q + 1} /\ (Nearest(x, y) = q => 2 * r <= y)
        /\ (Nearest(x, y) = q + 1 => 2 * r >= y)
  BY <1>1 DEF Nearest
<1>3. y * (q + 1) = y * q + y BY <1>1
<1>4. y * q \in Nat BY <1>1
<1> DEFINE n == Nearest(x, y)
<1>5. n \in Nat /\ (n = q \/ n = q + 1) BY <1>1, <1>2
<1> HIDE DEF q, r, n
<1>6. CASE n = q BY <1>1, <1>2, <1>4, <1>6 DEF n
<1>7. CASE n = q + 1 BY <1>1, <1>2, <1>3, <1>4, <1>7 DEF n
<1> QED BY <1>5, <1>6, <1>7 DEF n

\* Two integers less than one apart are equal.
LEMMA NoRoomBetween ==
    ASSUME NEW a \in Nat, NEW n \in Nat, NEW d \in Nat, d >= 128,
           2 * (d * n) <= 2 * (d * a) + 100 + d,
           2 * (d * a) <= 2 * (d * n) + 100 + d
    PROVE  n = a
<1>1. ASSUME n > a PROVE FALSE
  <2>1. d * n >= d * (a + 1) BY <1>1
  <2>2. d * (a + 1) = d * a + d OBVIOUS
  <2> QED BY <2>1, <2>2
<1>2. ASSUME a > n PROVE FALSE
  <2>1. d * a >= d * (n + 1) BY <1>2
  <2>2. d * (n + 1) = d * n + d OBVIOUS
  <2> QED BY <2>1, <2>2
<1> QED BY <1>1, <1>2

\* The provider takes a payment for the amount that was reserved, in minor units:
\* the float that carries it is near enough to round back (run_consumer.py:38,
\* provider/service.py:60).
THEOREM AmountArrives ==
    ASSUME NEW a \in Nat, IsExact(a), \E d \in Scales : IsScale(a, d)
    PROVE  Received(a) = a
<1> DEFINE d == CHOOSE d \in Scales : IsScale(a, d)
<1>1. d \in Scales /\ IsScale(a, d) OBVIOUS
<1>2. d \in Nat /\ d >= 128 BY <1>1, WireAssumption DEF IsScale, IsExact
<1> DEFINE u == Nearest(a * d, 100)
           n == Nearest(100 * u, d)
<1>3. a * d \in Nat BY <1>2
<1>4. /\ u \in Nat
      /\ 2 * (a * d) <= 2 * (100 * u) + 100
      /\ 2 * (100 * u) <= 2 * (a * d) + 100
  BY <1>3, NearestIsNear
<1>5. /\ n \in Nat
      /\ 2 * (100 * u) <= 2 * (d * n) + d
      /\ 2 * (d * n) <= 2 * (100 * u) + d
  <2>1. 100 * u \in Nat /\ d \in Nat \ {0}
    <3> HIDE DEF u, d
    <3> QED BY <1>2, <1>4
  <2> HIDE DEF u, d
  <2> QED BY <2>1, NearestIsNear
<1>6. n = a
  <2>1. d * a = a * d /\ d * n \in Nat BY <1>2, <1>5
  <2> HIDE DEF n, u, d
  <2> QED BY <2>1, <1>2, <1>3, <1>4, <1>5, NoRoomBetween
<1>7. Quotient(a) = [units |-> u, scale |-> d] BY DEF Quotient
<1>8. Written(Quotient(a)) = [whole |-> n \div 100, cents |-> n % 100]
  BY <1>7 DEF Written
<1>9. Received(a) = 100 * (n \div 100) + (n % 100) BY <1>8 DEF Received, ParseAmount
<1>10. n = 100 * (n \div 100) + (n % 100)
  <2> HIDE DEF n
  <2> QED BY <1>5, DivMod
<1> QED BY <1>6, <1>9, <1>10
=============================================================================
