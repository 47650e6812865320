------------------------ MODULE PaymentListingProofs ------------------------
(***************************************************************************)
(* What a walk through the listing returns, for any number of payments,     *)
(* merchants and walks and every page size.                                 *)
(***************************************************************************)
EXTENDS PaymentListing, FiniteSetTheorems, TLAPS

Visible(p) == row[p] # None /\ row[p].tx = "committed"

\* What a walk was given is committed and lies on the near side of the cursor.
GotIsBehind ==
    \A w \in Walks :
        /\ stage[w] = "new" => got[w] = {} /\ cursor[w] = None /\ due[w] = {}
        /\ stage[w] = "reading" => cursor[w] # None
        /\ \A p \in got[w] :
              /\ Visible(p)
              /\ stage[w] = "reading" => row[p].created >= cursor[w]

DueMatches == \A w \in Walks : \A p \in due[w] : Matches(w, p)

Tied(w, p) == \E q \in got[w] : row[q].created = row[p].created

\* What a walk still owes lies beyond its cursor, or ties with what it gave.
DueIsAhead ==
    \A w \in Walks : query[w].limit > 0 =>
        \A p \in due[w] \ got[w] :
            \/ Tied(w, p)
            \/ stage[w] = "reading" /\ row[p].created < cursor[w]

IInv == TypeOK /\ GotIsBehind /\ DueMatches /\ DueIsAhead /\ NoRepeats

USE ListingAssumption

LEMMA InitIInv == Init => IInv
<1> SUFFICES ASSUME Init PROVE IInv
  OBVIOUS
<1>1. TypeOK
  BY DEF Init, TypeOK
<1>2. NoRepeats
  BY DEF Init, NoRepeats
<1> QED  BY <1>1, <1>2 DEF Init, IInv, GotIsBehind, DueMatches, DueIsAhead

-----------------------------------------------------------------------------
(* Steps of the table. *)

KeepsRows ==
    \A p \in Payments : Visible(p) => Visible(p)' /\ row'[p].created = row[p].created

KeepsDue ==
    \A w \in Walks : /\ due'[w] \subseteq due[w]
                     /\ \A p \in due'[w] : Matches(w, p)'

\* A step that keeps the committed rows and leaves the walks alone keeps the rest.
LEMMA TableInv ==
    ASSUME IInv, TypeOK', KeepsRows, KeepsDue, UNCHANGED walkVars
    PROVE  IInv'
<1> USE DEF IInv, walkVars
<1>1. GotIsBehind'
  BY DEF GotIsBehind, KeepsRows, KeepsDue, TypeOK
<1>2. DueMatches'
  BY DEF DueMatches, KeepsDue
<1>3. DueIsAhead'
  <2> SUFFICES ASSUME NEW w \in Walks, query[w].limit > 0,
                      NEW p \in due'[w] \ got[w]
               PROVE  \/ Tied(w, p)'
                      \/ stage[w] = "reading" /\ row'[p].created < cursor[w]
    BY DEF DueIsAhead
  <2>1. p \in due[w] \ got[w] /\ p \in Payments /\ Visible(p)
    BY DEF KeepsDue, DueMatches, Matches, Visible, TypeOK
  <2>2. row'[p].created = row[p].created
    BY <2>1 DEF KeepsRows
  <2>3. ASSUME NEW q \in got[w] PROVE row'[q].created = row[q].created
    BY DEF GotIsBehind, KeepsRows, TypeOK
  <2> QED  BY <2>1, <2>2, <2>3 DEF DueIsAhead, Tied
<1>4. NoRepeats'
  BY DEF NoRepeats
<1> QED  BY <1>1, <1>2, <1>3, <1>4

LEMMA InsertInv ==
    ASSUME IInv, NEW p \in Payments, Begin(p) \/ Commit(p) \/ Rollback(p)
    PROVE  IInv'
<1> USE DEF IInv
<1>1. TypeOK'
  <2>1. [created |-> now, status |-> "created", tx |-> "open"] \in Row
    BY DEF TypeOK, Row, Statuses
  <2>2. row[p] # None => [row[p] EXCEPT !.tx = "committed"] \in Row
    BY DEF TypeOK, Row
  <2>3. row' \in [Payments -> Row \cup {None}]
    BY <2>1, <2>2 DEF Begin, Commit, Rollback, TypeOK
  <2> QED  BY <2>3 DEF Begin, Commit, Rollback, TypeOK, walkVars
<1>2. KeepsRows
  BY DEF Begin, Commit, Rollback, TypeOK, Row, KeepsRows, Visible
<1>3. ASSUME NEW w \in Walks, NEW q \in due[w]
      PROVE  Matches(w, q)'
  <2>1. Matches(w, q) /\ q \in Payments
    BY DEF DueMatches, TypeOK
  <2>2. q # p
    BY <2>1 DEF Begin, Commit, Rollback, Matches
  <2>3. row'[q] = row[q]
    BY <2>1, <2>2 DEF Begin, Commit, Rollback, TypeOK
  <2> QED  BY <2>1, <2>3 DEF Begin, Commit, Rollback, Matches, walkVars
<1>4. KeepsDue
  BY <1>3 DEF Begin, Commit, Rollback, KeepsDue
<1> QED  BY <1>1, <1>2, <1>4, TableInv DEF Begin, Commit, Rollback

LEMMA UpdateInv ==
    ASSUME IInv, NEW p \in Payments, NEW s \in Statuses, UpdateStatus(p, s)
    PROVE  IInv'
<1> USE DEF IInv, UpdateStatus
<1>1. TypeOK'
  BY DEF TypeOK, Row, walkVars
<1>2. KeepsRows
  BY DEF TypeOK, Row, KeepsRows, Visible
<1>3. KeepsDue
  BY DEF KeepsDue, DueMatches, Matches, TypeOK, Row, walkVars
<1> QED  BY <1>1, <1>2, <1>3, TableInv

-----------------------------------------------------------------------------
(* A page. *)

\* A row that a page leaves out is no newer than those it shows.
LEMMA Skipped ==
    ASSUME TypeOK, NEW C \in SUBSET Payments, NEW m \in Nat, NEW n \in Nat,
           NEW rows, rows \in FirstRows(m, C), NEW items, items \in FirstRows(n, rows),
           NEW p \in C \ items
    PROVE  \A q \in items : row[q].created >= row[p].created
BY DEF FirstRows, Leading

\* If a page has all its rows, or none, nothing is left out.
LEMMA LastPage ==
    ASSUME NEW C \in SUBSET Payments, NEW n \in Nat \ {0},
           NEW rows, rows \in FirstRows(n + 1, C),
           NEW items, items \in FirstRows(n, rows),
           Cardinality(rows) <= n \/ items = {}
    PROVE  items = C
<1>1. IsFiniteSet(C) /\ IsFiniteSet(rows) /\ IsFiniteSet(items)
  BY FS_Subset DEF FirstRows, Leading
<1>2. /\ Cardinality(rows) \in Nat /\ Cardinality(items) \in Nat
      /\ items \subseteq rows /\ rows \subseteq C
  BY <1>1, FS_CardinalityType DEF FirstRows, Leading
<1>3. items = rows
  BY <1>1, <1>2, FS_Subset, FS_EmptySet DEF FirstRows
<1>4. rows = C
  BY <1>1, <1>2, <1>3, FS_EmptySet DEF FirstRows
<1> QED  BY <1>3, <1>4

LEMMA PageInv == ASSUME IInv, NEW w \in Walks, Page(w) PROVE IInv'
<1> USE DEF IInv
<1>1. PICK rows, items :
          /\ rows \in FirstRows(RowsToRead(w), Found(w))
          /\ items \in FirstRows(query[w].limit, rows)
          /\ got' = [got EXCEPT ![w] = got[w] \cup items]
          /\ repeated' = [repeated EXCEPT ![w] = repeated[w] \/ got[w] \cap items # {}]
          /\ \/ /\ Cardinality(rows) > query[w].limit
                /\ \E p \in items : /\ IsLast(p, items)
                                    /\ cursor' = [cursor EXCEPT ![w] = row[p].created]
                /\ stage' = [stage EXCEPT ![w] = "reading"]
             \/ /\ Cardinality(rows) <= query[w].limit \/ items = {}
                /\ stage' = [stage EXCEPT ![w] = "ended"]
                /\ UNCHANGED cursor
  BY DEF Page
<1>2. /\ query[w].limit \in Nat /\ Found(w) \in SUBSET Payments
      /\ RowsToRead(w) = query[w].limit + 1
  BY DEF TypeOK, Found, RowsToRead
<1>3. items \subseteq rows /\ rows \subseteq Found(w)
  BY <1>1 DEF FirstRows, Leading
<1>4. \A p \in items : Visible(p) /\ Matches(w, p) /\ row[p].created \in Nat
  BY <1>3 DEF Found, Matches, Visible, TypeOK, Row
<1>6. /\ UNCHANGED <<now, row, query>>
      /\ due' = IF stage[w] = "new" THEN [due EXCEPT ![w] = Found(w)] ELSE due
      /\ stage[w] \in {"new", "reading"}
  BY DEF Page, TypeOK
<1>7. ASSUME NEW v \in Walks, v # w
      PROVE  /\ got'[v] = got[v] /\ repeated'[v] = repeated[v] /\ due'[v] = due[v]
             /\ cursor'[v] = cursor[v] /\ stage'[v] = stage[v]
  BY <1>1, <1>6, <1>7 DEF TypeOK
<1>8. /\ got'[w] = got[w] \cup items
      /\ (repeated'[w] <=> repeated[w] \/ got[w] \cap items # {})
      /\ due'[w] = IF stage[w] = "new" THEN Found(w) ELSE due[w]
  BY <1>1, <1>6 DEF TypeOK
<1>9. TypeOK'
  <2>1. got' \in [Walks -> SUBSET Payments]
    BY <1>1, <1>2, <1>3 DEF TypeOK
  <2>2. repeated' \in [Walks -> BOOLEAN]
    BY <1>1 DEF TypeOK
  <2>3. due' \in [Walks -> SUBSET Payments]
    BY <1>2, <1>6 DEF TypeOK
  <2>4. \A p \in items : row[p].created \in 0 .. MaxTime
    BY <1>2, <1>3, <1>4 DEF Visible, TypeOK, Row
  <2>5. cursor' \in [Walks -> (0 .. MaxTime) \cup {None}]
    BY <1>1, <2>4 DEF TypeOK
  <2>6. stage' \in [Walks -> {"new", "reading", "ended"}]
    BY <1>1 DEF TypeOK
  <2> QED  BY <1>6, <2>1, <2>2, <2>3, <2>5, <2>6 DEF TypeOK
<1>10. \/ /\ stage'[w] = "reading"
          /\ \E l \in items : IsLast(l, items) /\ cursor'[w] = row[l].created
       \/ /\ stage'[w] = "ended"
          /\ Cardinality(rows) <= query[w].limit \/ items = {}
  BY <1>1 DEF TypeOK
<1>11. GotIsBehind'
  <2>1. ASSUME NEW p \in got'[w], stage'[w] = "reading"
        PROVE  cursor'[w] # None /\ row[p].created >= cursor'[w]
    <3>1. PICK l \in items : IsLast(l, items) /\ cursor'[w] = row[l].created
      BY <1>10, <2>1
    <3>2. cursor'[w] # None
      BY <1>4, <3>1
    <3>3. CASE p \in items
      BY <3>1, <3>2, <3>3 DEF IsLast
    <3>4. CASE p \in got[w]
      <4>1. /\ stage[w] = "reading" /\ cursor[w] # None
            /\ row[p].created >= cursor[w]
        BY <1>6, <3>4 DEF GotIsBehind
      <4>2. row[l].created < cursor[w]
        BY <1>3, <4>1 DEF Found
      <4>3. row[p].created \in Nat /\ cursor[w] \in Nat
        BY <3>4, <4>1 DEF GotIsBehind, Visible, TypeOK, Row
      <4> QED  BY <1>4, <3>1, <3>2, <4>1, <4>2, <4>3
    <3> QED  BY <1>8, <3>3, <3>4
  <2>2. stage'[w] = "reading" => cursor'[w] # None
    BY <1>4, <1>10
  <2>3. \A p \in got'[w] : Visible(p)'
    BY <1>4, <1>6, <1>8 DEF GotIsBehind, Visible
  <2>4. stage'[w] # "new"
    BY <1>10
  <2> QED  BY <1>6, <1>7, <2>1, <2>2, <2>3, <2>4 DEF GotIsBehind, Visible
<1>12. DueMatches'
  BY <1>6, <1>7, <1>8 DEF DueMatches, Matches, Found
<1>13. DueIsAhead'
  <2> SUFFICES ASSUME query[w].limit > 0, NEW p \in due'[w] \ got'[w]
               PROVE  \/ Tied(w, p)'
                      \/ stage'[w] = "reading" /\ row[p].created < cursor'[w]
    BY <1>6, <1>7 DEF DueIsAhead, Tied
  <2>1. CASE p \in Found(w)
    <3>1. \A q \in items : row[q].created >= row[p].created
      BY <1>1, <1>2, <1>8, <2>1, Skipped
    <3>2. items # Found(w)
      BY <1>8, <2>1
    <3>3. ~(Cardinality(rows) <= query[w].limit \/ items = {})
      BY <1>1, <1>2, <3>2, LastPage
    <3>4. PICK l \in items : cursor'[w] = row[l].created
      BY <1>10, <3>3
    <3>5. row[p].created \in Nat
      BY <2>1 DEF Found, Matches, TypeOK, Row
    <3>6. row[p].created = row[l].created \/ row[p].created < row[l].created
      BY <1>4, <3>1, <3>5
    <3> QED  BY <1>6, <1>8, <1>10, <3>3, <3>4, <3>6 DEF Tied
  <2>2. CASE p \notin Found(w)
    <3>1. stage[w] = "reading" /\ p \in due[w] \ got[w]
      BY <1>6, <1>8, <2>2
    <3>2. ~(row[p].created < cursor[w])
      BY <2>2, <3>1 DEF Found, DueMatches, TypeOK
    <3>3. Tied(w, p)
      BY <3>1, <3>2 DEF DueIsAhead
    <3> QED  BY <1>6, <1>8, <3>3 DEF Tied
  <2> QED  BY <2>1, <2>2
<1>14. NoRepeats'
  <2>1. got[w] \cap items = {}
    <3> SUFFICES ASSUME NEW p \in got[w], p \in items PROVE FALSE
      OBVIOUS
    <3>1. /\ stage[w] = "reading" /\ cursor[w] # None
          /\ row[p].created >= cursor[w]
      BY <1>6 DEF GotIsBehind
    <3>2. row[p].created < cursor[w]
      BY <1>3, <3>1 DEF Found
    <3> QED  BY <1>4, <3>1, <3>2 DEF TypeOK
  <2> QED  BY <1>7, <1>8, <2>1 DEF NoRepeats
<1> QED  BY <1>9, <1>11, <1>12, <1>13, <1>14

-----------------------------------------------------------------------------

LEMMA StepKeepsIInv == IInv /\ [Next]_vars => IInv'
<1> SUFFICES ASSUME IInv, [Next]_vars PROVE IInv'
  OBVIOUS
<1>1. CASE Tick \/ UNCHANGED vars
  <2>1. UNCHANGED <<row, walkVars, due>> /\ now' \in 0 .. MaxTime
    BY <1>1 DEF Tick, vars, walkVars, IInv, TypeOK
  <2>2. TypeOK'
    BY <2>1 DEF IInv, TypeOK, walkVars
  <2> QED  BY <2>1, <2>2, TableInv
           DEF IInv, KeepsRows, KeepsDue, Visible, DueMatches, Matches, walkVars
<1>2. ASSUME NEW p \in Payments, Begin(p) \/ Commit(p) \/ Rollback(p) PROVE IInv'
  BY <1>2, InsertInv
<1>3. ASSUME NEW p \in Payments, NEW s \in Statuses, UpdateStatus(p, s) PROVE IInv'
  BY <1>3, UpdateInv
<1>4. ASSUME NEW w \in Walks, Page(w) PROVE IInv'
  BY <1>4, PageInv
<1> QED  BY <1>1, <1>2, <1>3, <1>4 DEF Next

\* The types of the listing hold in every reachable state.
THEOREM ListingTypeCorrect == Spec => []TypeOK
<1>1. IInv => TypeOK
  BY DEF IInv
<1> QED  BY <1>1, InitIInv, StepKeepsIInv, PTL DEF Spec

\* GET /api/v1/payments: no walk is given a payment twice, whatever the page size and
\* whatever happens to the table between its pages.
THEOREM NothingTwice == Spec => []NoRepeats
<1>1. IInv => NoRepeats
  BY DEF IInv
<1> QED  BY <1>1, InitIInv, StepKeepsIInv, PTL DEF Spec

\* GET /api/v1/payments: a finished walk misses nothing that its query matched all
\* along, except payments created at the very time of one it was given.
THEOREM WalksAreComplete == Spec => []OnlyTiesAreMissed
<1>1. IInv => OnlyTiesAreMissed
  BY DEF IInv, DueIsAhead, OnlyTiesAreMissed, Tied
<1> QED  BY <1>1, InitIInv, StepKeepsIInv, PTL DEF Spec

\* Every page ends its walk or moves the walk's cursor to an earlier time.
WalksAdvance ==
    [][\A w \in Walks : Page(w) =>
          \/ stage'[w] = "ended"
          \/ /\ cursor'[w] \in 0 .. MaxTime
             /\ cursor[w] # None => cursor'[w] < cursor[w]]_vars

\* GET /api/v1/payments: the safety half of EveryWalkEnds.  Whatever is created between
\* the pages, a walk has no more pages than there are times before its first cursor.
THEOREM CursorsGoBack == Spec => WalksAdvance
<1>1. IInv /\ [Next]_vars =>
        [\A w \in Walks : Page(w) =>
            \/ stage'[w] = "ended"
            \/ /\ cursor'[w] \in 0 .. MaxTime
               /\ cursor[w] # None => cursor'[w] < cursor[w]]_vars
  <2> SUFFICES ASSUME IInv, NEW w \in Walks, Page(w), stage'[w] # "ended"
               PROVE  /\ cursor'[w] \in 0 .. MaxTime
                      /\ cursor[w] # None => cursor'[w] < cursor[w]
    OBVIOUS
  <2>1. PICK rows, items, p :
            /\ rows \in FirstRows(RowsToRead(w), Found(w))
            /\ items \in FirstRows(query[w].limit, rows)
            /\ p \in items
            /\ cursor' = [cursor EXCEPT ![w] = row[p].created]
    BY DEF Page, IInv, TypeOK
  <2>2. p \in Found(w)
    BY <2>1 DEF FirstRows, Leading
  <2>3. row[p].created \in 0 .. MaxTime
    BY <2>2 DEF Found, Matches, IInv, TypeOK, Row
  <2>4. cursor'[w] = row[p].created
    BY <2>1 DEF IInv, TypeOK
  <2> QED  BY <2>2, <2>3, <2>4 DEF Found
<1> QED  BY <1>1, InitIInv, StepKeepsIInv, PTL DEF Spec, WalksAdvance
=============================================================================
