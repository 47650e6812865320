--------------------------- MODULE PaymentListing ---------------------------
(***************************************************************************)
(* GET /api/v1/payments: a client walks through a merchant's payments page *)
(* by page, newest first, while payments are created, committed, rolled     *)
(* back and settled.  The cursor is the created_at of the last row of a     *)
(* page.  created_at is the time at which the creating transaction began,   *)
(* so it is not unique and it is not the order in which rows appear.        *)
(*                                                                         *)
(* Every page is one SELECT: a snapshot of the committed rows.  What became *)
(* of the money is PaymentTransactions' concern; here a payment is a        *)
(* time, a status and whether its row is committed.                          *)
(***************************************************************************)
EXTENDS Integers, FiniteSets

CONSTANTS
    Merchants,
    Payments,
    Owner,     \* Owner[p]: the merchant of payment p
    Walks,     \* clients walking through a listing
    Limits,    \* values of the query parameter limit
    Filters,   \* values of status_filter; None where absent or not a status
    MaxTime,   \* bound: clock ticks
    None

Statuses == {"created", "processing", "completed", "canceled"}

Row == [created : 0 .. MaxTime, status : Statuses, tx : {"open", "committed"}]

ASSUME ListingAssumption ==
    /\ Owner \in [Payments -> Merchants]
    /\ IsFiniteSet(Payments)
    /\ Limits \subseteq Nat
    /\ Filters \subseteq Statuses \cup {None}
    /\ MaxTime \in Nat
    /\ None \notin Row \cup Nat

VARIABLES
    now,       \* the database's clock
    row,       \* row[p]: payment p's row, or None
    query,     \* query[w]: the merchant, filter and limit of walk w
    cursor,    \* cursor[w]: the cursor of w's next page, or None for its first
    stage,     \* stage[w]: "new", "reading" or "ended"
    got,       \* got[w]: the payments w was given
    repeated,  \* repeated[w]: whether w was given a payment again
    due        \* due[w]: payments that w's query has matched since its first page

vars == <<now, row, query, cursor, stage, got, repeated, due>>

walkVars == <<query, cursor, stage, got, repeated>>

Init ==
    /\ now = 0
    /\ row = [p \in Payments |-> None]
    /\ query \in [Walks -> [merchant : Merchants, filter : Filters, limit : Limits]]
    /\ cursor = [w \in Walks |-> None]
    /\ stage = [w \in Walks |-> "new"]
    /\ got = [w \in Walks |-> {}]
    /\ repeated = [w \in Walks |-> FALSE]
    /\ due = [w \in Walks |-> {}]

-----------------------------------------------------------------------------
(* The payment table. *)

Tick ==
    /\ now < MaxTime
    /\ now' = now + 1
    /\ UNCHANGED <<row, walkVars, due>>

\* A transaction begins and will insert p: func.now() is the time of its begin.
Begin(p) ==
    /\ row[p] = None
    /\ row' = [row EXCEPT ![p] = [created |-> now, status |-> "created",
                                  tx |-> "open"]]
    /\ UNCHANGED <<now, walkVars, due>>

\* The transaction commits, maybe long after it began, or is rolled back.
Commit(p) ==
    /\ row[p] # None
    /\ row[p].tx = "open"
    /\ row' = [row EXCEPT ![p].tx = "committed"]
    /\ UNCHANGED <<now, walkVars, due>>

Rollback(p) ==
    /\ row[p] # None
    /\ row[p].tx = "open"
    /\ row' = [row EXCEPT ![p] = None]
    /\ UNCHANGED <<now, walkVars, due>>

\* What a status may become.
Successors(s) == CASE s = "created"    -> {"processing", "completed", "canceled"}
                   [] s = "processing" -> {"completed", "canceled"}
                   [] OTHER            -> {}

\* Mutant: the provider's status is written to the column.
UpdateStatus_Providers(p, s) ==
    /\ row[p] # None
    /\ row[p].tx = "committed"
    /\ s \in Successors(row[p].status)
    /\ row' = [row EXCEPT ![p].status = IF s = "processing" THEN "Created" ELSE s]
    /\ due' = [w \in Walks |-> IF query[w].filter \in {None, s} THEN due[w]
                                                                ELSE due[w] \ {p}]
    /\ UNCHANGED <<now, walkVars>>

\* The consumer or a webhook moves p on; created_at stays.
UpdateStatus(p, s) ==
    /\ row[p] # None
    /\ row[p].tx = "committed"
    /\ s \in Successors(row[p].status)
    /\ row' = [row EXCEPT ![p].status = s]
    /\ due' = [w \in Walks |-> IF query[w].filter \in {None, s} THEN due[w]
                                                                ELSE due[w] \ {p}]
    /\ UNCHANGED <<now, walkVars>>

-----------------------------------------------------------------------------
(* A page. *)

Matches(w, p) ==
    /\ row[p] # None
    /\ row[p].tx = "committed"
    /\ Owner[p] = query[w].merchant
    /\ query[w].filter \in {None, row[p].status}

\* Mutant: the cursor's own row is read again.
Found_Inclusive(w) ==
    {p \in Payments : /\ Matches(w, p)
                      /\ cursor[w] # None => row[p].created <= cursor[w]}

\* The rows of PaymentRepository.get_by_merchant_id before ORDER BY and LIMIT.
Found(w) ==
    {p \in Payments : /\ Matches(w, p)
                      /\ cursor[w] # None => row[p].created < cursor[w]}

\* Rows of set C which a list of C by created_at, newest first, can begin with;
\* rows with the same created_at come in any order.
Leading(S, C) ==
    /\ S \subseteq C
    /\ \A p \in S, q \in C \ S : row[p].created >= row[q].created

\* The sets that ORDER BY created_at DESC LIMIT n can return of C.
FirstRows(n, C) ==
    {S \in SUBSET C : /\ Leading(S, C)
                      /\ Cardinality(S) <= n
                      /\ S = C \/ Cardinality(S) = n}

\* Mutant: the page is read without the extra row.
RowsToRead_Exact(w) == query[w].limit

\* One row more than the page shows, to learn whether there are more.
RowsToRead(w) == query[w].limit + 1

\* p is the last of the items of a page.
IsLast(p, items) == /\ p \in items
                    /\ \A q \in items : row[q].created >= row[p].created

\* get_payments: next_cursor is given if there are more rows and the page has items;
\* without it the client ends its walk.
Page(w) ==
    /\ stage[w] # "ended"
    /\ \E rows \in FirstRows(RowsToRead(w), Found(w)) :
       \E items \in FirstRows(query[w].limit, rows) :
          /\ got' = [got EXCEPT ![w] = got[w] \cup items]
          /\ repeated' = [repeated EXCEPT ![w] = repeated[w] \/ got[w] \cap items # {}]
          /\ \/ /\ Cardinality(rows) > query[w].limit
                /\ \E p \in items : /\ IsLast(p, items)
                                    /\ cursor' = [cursor EXCEPT ![w] = row[p].created]
                /\ stage' = [stage EXCEPT ![w] = "reading"]
             \/ /\ Cardinality(rows) <= query[w].limit \/ items = {}
                /\ stage' = [stage EXCEPT ![w] = "ended"]
                /\ UNCHANGED cursor
    /\ due' = IF stage[w] = "new" THEN [due EXCEPT ![w] = Found(w)] ELSE due
    /\ UNCHANGED <<now, row, query>>

Next ==
    \/ Tick
    \/ \E p \in Payments : \/ Begin(p) \/ Commit(p) \/ Rollback(p)
                           \/ \E s \in Statuses : UpdateStatus(p, s)
    \/ \E w \in Walks : Page(w)

Spec == Init /\ [][Next]_vars

\* A client that got a cursor asks for the next page.
FairSpec == Spec /\ \A w \in Walks : WF_vars(Page(w))

-----------------------------------------------------------------------------
(* Properties *)

\* Every variable has its type.
TypeOK ==
    /\ now \in 0 .. MaxTime
    /\ row \in [Payments -> Row \cup {None}]
    /\ query \in [Walks -> [merchant : Merchants, filter : Filters, limit : Limits]]
    /\ cursor \in [Walks -> (0 .. MaxTime) \cup {None}]
    /\ stage \in [Walks -> {"new", "reading", "ended"}]
    /\ got \in [Walks -> SUBSET Payments]
    /\ repeated \in [Walks -> BOOLEAN]
    /\ due \in [Walks -> SUBSET Payments]

\* No page repeats a payment of an earlier page, whatever is committed or settled
\* between the pages.
NoRepeats == \A w \in Walks : ~repeated[w]

\* A walk to the end gives every payment that its query matched all along, but for
\* payments created at the same time as one it was given: the cursor jumps over rows
\* that tie with the last of a page.  (With limit 0 the first page is empty and has no
\* cursor, so the walk ends at once.)
OnlyTiesAreMissed ==
    \A w \in Walks : (stage[w] = "ended" /\ query[w].limit > 0) =>
        \A p \in due[w] \ got[w] : \E q \in got[w] : row[q].created = row[p].created

\* A walk comes to an end although payments keep being created.
EveryWalkEnds == <>(\A w \in Walks : stage[w] = "ended")
=============================================================================
