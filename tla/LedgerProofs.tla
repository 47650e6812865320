---------------------------- MODULE LedgerProofs ----------------------------
(***************************************************************************)
(* Proofs that the two tables of Ledger agree and that no balance is ever  *)
(* overdrawn, for any merchants, payments, amounts and opening balances.   *)
(*                                                                         *)
(* Explained alone is not inductive: Capture keeps Solvent only because    *)
(* the reserved amount holds the captured payment's units, and cardinality *)
(* facts need the sets of units to be finite.                              *)
(***************************************************************************)
EXTENDS Ledger, FiniteSetTheorems, TLAPS

States == {"open", "captured", "released"}

FiniteUnits == \A m \in Merchants, s \in States : IsFiniteSet(Units(m, s))

IInv == TypeOK /\ FiniteUnits /\ Explained /\ Solvent

\* The units of one payment of amount a.
Block(p, a) == {p} \X (1 .. a)

\* A block has as many elements as the amount it stands for.
LEMMA BlockSize ==
    ASSUME NEW p, NEW a \in Nat
    PROVE  IsFiniteSet(Block(p, a)) /\ Cardinality(Block(p, a)) = a
<1>1. IsFiniteSet({p}) /\ Cardinality({p}) = 1
  BY FS_Singleton
<1>2. IsFiniteSet(1 .. a) /\ Cardinality(1 .. a) = a
  BY FS_Interval
<1>3. IsFiniteSet(Block(p, a)) /\ Cardinality(Block(p, a)) = Cardinality({p}) * Cardinality(1 .. a)
  BY <1>1, <1>2, FS_Product DEF Block
<1> QED  BY <1>1, <1>2, <1>3

\* Adding a block that was not there adds its amount to the sum.
LEMMA AddBlock ==
    ASSUME NEW S, IsFiniteSet(S), NEW p, NEW a \in Nat, S \cap Block(p, a) = {}
    PROVE  /\ IsFiniteSet(S \cup Block(p, a))
           /\ Cardinality(S \cup Block(p, a)) = Cardinality(S) + a
<1>1. IsFiniteSet(Block(p, a)) /\ Cardinality(Block(p, a)) = a
  BY BlockSize
<1>2. Cardinality({}) = 0
  BY FS_EmptySet
<1>3. Cardinality(S) \in Nat
  BY FS_CardinalityType
<1> QED  BY <1>1, <1>2, <1>3, FS_Union

\* Removing a block that was there subtracts its amount from the sum.
LEMMA DropBlock ==
    ASSUME NEW S, IsFiniteSet(S), NEW p, NEW a \in Nat, Block(p, a) \subseteq S
    PROVE  /\ IsFiniteSet(S \ Block(p, a))
           /\ Cardinality(S \ Block(p, a)) = Cardinality(S) - a
           /\ a <= Cardinality(S)
<1>1. IsFiniteSet(Block(p, a)) /\ Cardinality(Block(p, a)) = a
  BY BlockSize
<1>2. S \cap Block(p, a) = Block(p, a)
  OBVIOUS
<1>3. Cardinality(S) \in Nat
  BY FS_CardinalityType
<1>4. a <= Cardinality(S)
  BY <1>1, FS_Subset
<1>5. /\ IsFiniteSet(S \ Block(p, a))
      /\ Cardinality(S \ Block(p, a)) = Cardinality(S) - Cardinality(S \cap Block(p, a))
  BY FS_Difference
<1> QED  BY <1>1, <1>2, <1>3, <1>4, <1>5

-----------------------------------------------------------------------------

\* An element of Units(m, s) is a payment of m in state s with a position
\* below its amount, so it tells which payment it belongs to.
LEMMA UnitsElements ==
    \A m, s, u : u \in Units(m, s) <=>
        \E q \in InState(m, s) : u \in Block(q, entry[q].amount)
BY DEF Units, Block

LEMMA BlockOwner ==
    ASSUME NEW p, NEW q, NEW a, NEW b, NEW u, u \in Block(p, a), u \in Block(q, b)
    PROVE  p = q
BY DEF Block

\* No balance is overdrawn and no column is negative in the initial state,
\* where there are no payments.
LEMMA InitIInv == Init => IInv
<1> SUFFICES ASSUME Init PROVE IInv
  OBVIOUS
<1> USE LedgerAssumption
<1>1. TypeOK
  BY DEF Init, TypeOK, Funds
<1>2. ASSUME NEW m \in Merchants, NEW s \in States PROVE Units(m, s) = {}
  <2>1. InState(m, s) = {}
    BY DEF Init, InState
  <2> QED  BY <2>1, UnitsElements
<1>3. IsFiniteSet({}) /\ Cardinality({}) = 0
  BY FS_EmptySet
<1>4. FiniteUnits
  BY <1>2, <1>3 DEF FiniteUnits
<1>5. Explained
  <2> SUFFICES ASSUME NEW m \in Merchants
               PROVE  /\ funds[m].reserved = Cardinality(Units(m, "open"))
                      /\ funds[m].amount = Opening[m] - Cardinality(Units(m, "captured"))
    BY DEF Explained
  <2>1. Units(m, "open") = {} /\ Units(m, "captured") = {}
    BY <1>2 DEF States
  <2>2. funds[m].amount = Opening[m] /\ funds[m].reserved = 0 /\ Opening[m] \in Nat
    BY DEF Init
  <2> QED  BY <2>1, <2>2, <1>3
<1>6. Solvent
  BY DEF Init, Solvent
<1> QED  BY <1>1, <1>4, <1>5, <1>6 DEF IInv

-----------------------------------------------------------------------------

\* How a step that only touches payment p changes the units: those of a state p
\* is not in stay, those of the state it enters gain its block and those of the
\* state it leaves lose it.
LEMMA UnitsStay ==
    ASSUME NEW m, NEW s, NEW p \in Payments,
           \A q \in Payments \ {p} : entry'[q] = entry[q],
           p \notin InState(m, s), p \notin InState(m, s)'
    PROVE  Units(m, s)' = Units(m, s)
<1>1. InState(m, s)' = InState(m, s)
  BY DEF InState
<1>2. \A q \in InState(m, s) : entry'[q] = entry[q]
  BY DEF InState
<1> QED  BY <1>1, <1>2 DEF Units

LEMMA UnitsGain ==
    ASSUME NEW m, NEW s, NEW p \in Payments,
           \A q \in Payments \ {p} : entry'[q] = entry[q],
           p \notin InState(m, s), p \in InState(m, s)'
    PROVE  /\ Units(m, s)' = Units(m, s) \cup Block(p, entry'[p].amount)
           /\ \A a : Units(m, s) \cap Block(p, a) = {}
<1>1. InState(m, s)' = InState(m, s) \cup {p}
  BY DEF InState
<1>2. \A q \in InState(m, s) : entry'[q] = entry[q]
  BY DEF InState
<1>3. Units(m, s)' = Units(m, s) \cup Block(p, entry'[p].amount)
  BY <1>1, <1>2 DEF Units, Block
<1>4. \A a : Units(m, s) \cap Block(p, a) = {}
  BY UnitsElements, BlockOwner
<1> QED  BY <1>3, <1>4

LEMMA UnitsLose ==
    ASSUME NEW m, NEW s, NEW p \in Payments,
           \A q \in Payments \ {p} : entry'[q] = entry[q],
           p \in InState(m, s), p \notin InState(m, s)'
    PROVE  /\ Units(m, s)' = Units(m, s) \ Block(p, entry[p].amount)
           /\ Block(p, entry[p].amount) \subseteq Units(m, s)
<1>1. InState(m, s)' = InState(m, s) \ {p}
  BY DEF InState
<1>2. \A q \in InState(m, s)' : entry'[q] = entry[q]
  BY <1>1 DEF InState
<1>3. Block(p, entry[p].amount) \subseteq Units(m, s)
  BY UnitsElements
<1>4. ASSUME NEW u PROVE u \in Units(m, s)' <=> u \in Units(m, s) \ Block(p, entry[p].amount)
  <2>1. u \in Units(m, s)' <=> \E q \in InState(m, s) \ {p} : u \in Block(q, entry[q].amount)
    BY <1>1, <1>2 DEF Units, Block
  <2>2. u \in Units(m, s) <=> \E q \in InState(m, s) : u \in Block(q, entry[q].amount)
    BY UnitsElements
  <2> QED  BY <2>1, <2>2, BlockOwner
<1> QED  BY <1>3, <1>4

-----------------------------------------------------------------------------

\* Creating a payment keeps the tables in agreement: the open units of its
\* merchant gain the block the reservation adds, and nothing else changes.
LEMMA ReserveKeepsIInv ==
    ASSUME IInv, NEW p \in Payments, NEW m \in Merchants, NEW i \in Invoices,
           NEW a \in Amounts, Reserve(p, m, i, a)
    PROVE  IInv'
<1> USE LedgerAssumption
<1> DEFINE row == [merchant |-> m, invoice |-> i, amount |-> a, state |-> "open"]
<1>1. row \in Entry /\ row # None /\ a \in Nat
  BY DEF Entry
<1>2. /\ entry[p] = None
      /\ entry' = [entry EXCEPT ![p] = row]
      /\ funds' = [funds EXCEPT ![m].reserved = @ + a]
      /\ a <= funds[m].amount - funds[m].reserved
  BY DEF Reserve, Available
<1>3. TypeOK'
  BY <1>1, <1>2 DEF IInv, TypeOK, Funds
<1>4. entry'[p] = row /\ \A q \in Payments \ {p} : entry'[q] = entry[q]
  BY <1>2 DEF IInv, TypeOK
<1>5. \A n \in Merchants, s \in States : p \notin InState(n, s)
  BY <1>2 DEF InState
<1>6. \A n \in Merchants, s \in States : p \in InState(n, s)' <=> (n = m /\ s = "open")
  BY <1>1, <1>4 DEF InState
<1>7. /\ Units(m, "open")' = Units(m, "open") \cup Block(p, a)
      /\ Units(m, "open") \cap Block(p, a) = {}
  BY <1>4, <1>5, <1>6, UnitsGain DEF States
<1>8. \A n \in Merchants, s \in States :
          ~ (n = m /\ s = "open") => Units(n, s)' = Units(n, s)
  BY <1>4, <1>5, <1>6, UnitsStay
<1>9. /\ IsFiniteSet(Units(m, "open")')
      /\ Cardinality(Units(m, "open")') = Cardinality(Units(m, "open")) + a
  BY <1>1, <1>7, AddBlock DEF IInv, FiniteUnits, States
<1>10. FiniteUnits'
  BY <1>8, <1>9 DEF IInv, FiniteUnits
<1>11. \A n \in Merchants : /\ funds'[n].amount = funds[n].amount
                            /\ funds'[n].reserved = IF n = m THEN funds[n].reserved + a
                                                             ELSE funds[n].reserved
  BY <1>2 DEF IInv, TypeOK, Funds
<1>12. Explained'
  <2> SUFFICES ASSUME NEW n \in Merchants
               PROVE  /\ funds'[n].reserved = Cardinality(Units(n, "open")')
                      /\ funds'[n].amount = Opening[n] - Cardinality(Units(n, "captured")')
    BY DEF Explained
  <2>1. Units(n, "captured")' = Units(n, "captured")
    BY <1>8 DEF States
  <2>2. CASE n = m
    BY <2>1, <2>2, <1>9, <1>11 DEF IInv, Explained
  <2>3. CASE n # m
    <3>1. Units(n, "open")' = Units(n, "open")
      BY <2>3, <1>8 DEF States
    <3> QED  BY <2>1, <2>3, <3>1, <1>11 DEF IInv, Explained
  <2> QED  BY <2>2, <2>3
<1>13. Solvent'
  BY <1>1, <1>2, <1>11 DEF IInv, Solvent, TypeOK, Funds
<1> QED  BY <1>3, <1>10, <1>12, <1>13 DEF IInv

\* Settling a payment keeps the tables in agreement.  The reserved amount holds
\* the whole block of an open payment, so subtracting it leaves both columns
\* non-negative; Release and Capture differ in the state t the payment enters and
\* in how much of its amount is spent.
LEMMA SettleKeepsIInv ==
    ASSUME IInv, NEW p \in Payments, NEW m \in Merchants, NEW a \in Nat, NEW spent \in Nat,
           NEW t \in {"captured", "released"},
           entry[p] # None, entry[p].state = "open",
           entry[p].merchant = m, entry[p].amount = a,
           spent = IF t = "captured" THEN a ELSE 0,
           entry' = [entry EXCEPT ![p].state = t],
           funds' = [funds EXCEPT ![m] = [amount   |-> funds[m].amount - spent,
                                          reserved |-> funds[m].reserved - a]]
    PROVE  IInv'
<1> USE LedgerAssumption
<1>1. /\ entry[p] # None /\ entry[p] \in Entry /\ entry[p].state = "open"
      /\ entry' = [entry EXCEPT ![p].state = t]
  BY DEF IInv, TypeOK
<1>2. t \in States /\ t # "open"
  BY DEF States
<1>3. \A q \in Payments \ {p} : entry'[q] = entry[q]
  BY <1>1 DEF IInv, TypeOK
<1>4. entry'[p] = [entry[p] EXCEPT !.state = t]
  BY <1>1 DEF IInv, TypeOK
<1>5. entry'[p] \in Entry /\ entry'[p] # None
  BY <1>1, <1>2, <1>4 DEF Entry, States
<1>6. \A n \in Merchants, s \in States : p \in InState(n, s) <=> (n = m /\ s = "open")
  BY <1>1 DEF InState
<1>7. \A n \in Merchants, s \in States : p \in InState(n, s)' <=> (n = m /\ s = t)
  BY <1>1, <1>4, <1>5 DEF InState, Entry
<1>8. /\ Units(m, "open")' = Units(m, "open") \ Block(p, a)
      /\ Block(p, a) \subseteq Units(m, "open")
  BY <1>2, <1>3, <1>6, <1>7, UnitsLose DEF States
<1>9. /\ Units(m, t)' = Units(m, t) \cup Block(p, a)
      /\ Units(m, t) \cap Block(p, a) = {}
  <2>1. entry'[p].amount = a
    BY <1>1, <1>4 DEF Entry
  <2>2. p \notin InState(m, t) /\ p \in InState(m, t)'
    BY <1>2, <1>6, <1>7
  <2> QED  BY <1>3, <2>1, <2>2, UnitsGain
<1>10. \A n \in Merchants, s \in States :
          ~ (n = m /\ s \in {"open", t}) => Units(n, s)' = Units(n, s)
  BY <1>3, <1>6, <1>7, UnitsStay
<1>11. /\ IsFiniteSet(Units(m, "open")')
       /\ Cardinality(Units(m, "open")') = Cardinality(Units(m, "open")) - a
       /\ a <= Cardinality(Units(m, "open"))
  BY <1>2, <1>8, DropBlock DEF IInv, FiniteUnits, States
<1>12. /\ IsFiniteSet(Units(m, t)')
       /\ Cardinality(Units(m, t)') = Cardinality(Units(m, t)) + a
  BY <1>2, <1>9, AddBlock DEF IInv, FiniteUnits
<1>13. FiniteUnits'
  BY <1>10, <1>11, <1>12 DEF IInv, FiniteUnits
<1>14. /\ funds[m].reserved = Cardinality(Units(m, "open"))
       /\ funds[m] \in Funds
       /\ a <= funds[m].reserved /\ funds[m].reserved <= funds[m].amount
  BY <1>2, <1>11 DEF IInv, Explained, Solvent, TypeOK
<1>16. TypeOK'
  BY <1>1, <1>3, <1>5, <1>14 DEF IInv, TypeOK, Funds
<1>17. /\ funds'[m].amount = funds[m].amount - spent
       /\ funds'[m].reserved = funds[m].reserved - a
       /\ \A n \in Merchants \ {m} : funds'[n] = funds[n]
  BY DEF IInv, TypeOK
<1>18. Explained'
  <2> SUFFICES ASSUME NEW n \in Merchants
               PROVE  /\ funds'[n].reserved = Cardinality(Units(n, "open")')
                      /\ funds'[n].amount = Opening[n] - Cardinality(Units(n, "captured")')
    BY DEF Explained
  <2>1. CASE n # m
    <3>1. Units(n, "open")' = Units(n, "open") /\ Units(n, "captured")' = Units(n, "captured")
      BY <2>1, <1>10 DEF States
    <3> QED  BY <2>1, <3>1, <1>17 DEF IInv, Explained
  <2>2. CASE n = m /\ t = "captured"
    <3>1. t = "captured" /\ spent = a
      BY <2>2
    <3>2. Cardinality(Units(m, "captured")') = Cardinality(Units(m, "captured")) + a
      BY <3>1, <1>12
    <3>3. IsFiniteSet(Units(m, "captured"))
      BY <1>2 DEF IInv, FiniteUnits, States
    <3>4. Cardinality(Units(m, "captured")) \in Nat
      BY <3>3, FS_CardinalityType
    <3> QED  BY <2>2, <3>1, <3>2, <3>4, <1>2, <1>11, <1>14, <1>17 DEF IInv, Explained
  <2>3. CASE n = m /\ t # "captured"
    <3>1. Units(m, "captured")' = Units(m, "captured") /\ spent = 0
      BY <2>3, <1>2, <1>10 DEF States
    <3> QED  BY <2>3, <3>1, <1>2, <1>11, <1>14, <1>17 DEF IInv, Explained, Funds
  <2> QED  BY <2>1, <2>2, <2>3
<1>19. Solvent'
  BY <1>2, <1>14, <1>17 DEF IInv, Solvent, Funds
<1> QED  BY <1>13, <1>16, <1>18, <1>19 DEF IInv

LEMMA StepKeepsIInv == IInv /\ [Next]_vars => IInv'
<1> SUFFICES ASSUME IInv, [Next]_vars PROVE IInv'
  OBVIOUS
<1>1. ASSUME NEW p \in Payments, NEW m \in Merchants, NEW i \in Invoices,
             NEW a \in Amounts, Reserve(p, m, i, a)
      PROVE  IInv'
  BY <1>1, ReserveKeepsIInv
<1>2. ASSUME NEW p \in Payments, Capture(p) \/ Release(p) PROVE IInv'
  <2>1. entry[p] \in Entry /\ entry[p] # None /\ entry[p].state = "open"
    BY <1>2 DEF Capture, Release, IInv, TypeOK
  <2>2. PICK m \in Merchants, a \in Nat : m = entry[p].merchant /\ a = entry[p].amount
    BY <2>1, LedgerAssumption DEF Entry
  <2>3. funds \in [Merchants -> Funds]
    BY DEF IInv, TypeOK
  <2>4. CASE Capture(p)
    <3>1. /\ entry' = [entry EXCEPT ![p].state = "captured"]
          /\ funds' = [funds EXCEPT ![m] = [amount   |-> funds[m].amount - a,
                                            reserved |-> funds[m].reserved - a]]
      BY <2>2, <2>4 DEF Capture
    <3> QED  BY <2>1, <2>2, <3>1, SettleKeepsIInv
  <2>5. CASE Release(p)
    <3>1. /\ entry' = [entry EXCEPT ![p].state = "released"]
          /\ funds' = [funds EXCEPT ![m].reserved = funds[m].reserved - a]
      BY <2>2, <2>5 DEF Release
    <3>2. /\ funds[m].amount \in Nat
          /\ [funds[m] EXCEPT !.reserved = funds[m].reserved - a]
                = [amount |-> funds[m].amount, reserved |-> funds[m].reserved - a]
      BY <2>3 DEF Funds
    <3>3. funds' = [funds EXCEPT ![m] = [amount   |-> funds[m].amount,
                                        reserved |-> funds[m].reserved - a]]
      BY <3>1, <3>2
    <3>4. funds[m].amount - 0 = funds[m].amount
      BY <3>2
    <3> DEFINE spent == 0
               t == "released"
    <3>5. /\ spent \in Nat /\ t \in {"captured", "released"}
          /\ spent = IF t = "captured" THEN a ELSE 0
          /\ entry' = [entry EXCEPT ![p].state = t]
          /\ funds' = [funds EXCEPT ![m] = [amount   |-> funds[m].amount - spent,
                                            reserved |-> funds[m].reserved - a]]
      BY <3>1, <3>3, <3>4
    <3> HIDE DEF spent, t
    <3> QED  BY <2>1, <2>2, <3>5, SettleKeepsIInv
  <2> QED  BY <1>2, <2>4, <2>5
<1>3. CASE UNCHANGED vars
  <2>1. funds' = funds /\ entry' = entry
    BY <1>3 DEF vars
  <2>2. \A m, s : Units(m, s)' = Units(m, s)
    BY <2>1 DEF Units, InState
  <2> QED  BY <2>1, <2>2 DEF IInv, TypeOK, FiniteUnits, Explained, Solvent
<1> QED  BY <1>1, <1>2, <1>3 DEF Next

\* Both tables keep their types, the balance columns stay the sums of the
\* payments they stand for, and no merchant is overdrawn.
THEOREM LedgerIsSafe == Spec => [](TypeOK /\ Explained /\ Solvent)
<1>1. IInv => TypeOK /\ Explained /\ Solvent
  BY DEF IInv
<1> QED  BY <1>1, InitIInv, StepKeepsIInv, PTL DEF Spec

\* The rows of the two tables keep their types; no column becomes negative.
THEOREM LedgerTypeCorrect == Spec => []TypeOK
<1>1. IInv => TypeOK
  BY DEF IInv
<1> QED  BY <1>1, InitIInv, StepKeepsIInv, PTL DEF Spec

\* The bookkeeping identity of the two tables holds in every state.
THEOREM LedgerExplained == Spec => []Explained
<1>1. IInv => Explained
  BY DEF IInv
<1> QED  BY <1>1, InitIInv, StepKeepsIInv, PTL DEF Spec

\* Every open payment can be settled: its merchant has its amount reserved, and
\* owns it.
OpenIsCovered ==
    \A p \in Payments : (entry[p] # None /\ entry[p].state = "open") =>
        /\ entry[p].amount <= funds[entry[p].merchant].reserved
        /\ entry[p].amount <= funds[entry[p].merchant].amount

\* The reserved amount is at least each of the amounts it is the sum of.
THEOREM LedgerCovers == Spec => []OpenIsCovered
<1>1. IInv => OpenIsCovered
  <2> SUFFICES ASSUME IInv, NEW p \in Payments, entry[p] # None, entry[p].state = "open"
               PROVE  /\ entry[p].amount <= funds[entry[p].merchant].reserved
                      /\ entry[p].amount <= funds[entry[p].merchant].amount
    BY DEF OpenIsCovered
  <2> DEFINE m == entry[p].merchant
             a == entry[p].amount
  <2>1. m \in Merchants /\ a \in Nat /\ funds[m] \in Funds
    BY LedgerAssumption DEF IInv, TypeOK, Entry
  <2>2. p \in InState(m, "open")
    BY DEF InState
  <2>3. Block(p, a) \subseteq Units(m, "open")
    BY <2>2, UnitsElements
  <2>4. IsFiniteSet(Units(m, "open"))
    BY <2>1 DEF IInv, FiniteUnits, States
  <2>5. a <= Cardinality(Units(m, "open"))
    BY <2>1, <2>3, <2>4, DropBlock
  <2> QED  BY <2>1, <2>5 DEF IInv, Explained, Solvent, Funds
<1> QED  BY <1>1, InitIInv, StepKeepsIInv, PTL DEF Spec
=============================================================================
