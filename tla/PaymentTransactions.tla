------------------------ MODULE PaymentTransactions ------------------------
(***************************************************************************)
(* The three database transactions that move a payment, at the level of    *)
(* their statements under PostgreSQL's READ COMMITTED isolation:           *)
(*   - a request creates the payment (PaymentService.create_payment),      *)
(*   - a call settles it (WebhookService.handle_provider_webhook),         *)
(*   - a worker hands it to the provider (handle_payment_created).         *)
(* Any number of each run at once; every SELECT ... FOR UPDATE waits for    *)
(* the row, every step may be the last one before a crash, and a commit    *)
(* writes the values the session computed from what it read earlier.       *)
(*                                                                         *)
(* A payment row is named by the request that creates it (its id is a      *)
(* fresh uuid).  The outbox and the broker are abstracted to "a worker may *)
(* receive the event of a committed payment, any number of times", the     *)
(* provider to "it may call back about an id it issued, at any time, in    *)
(* any order and any number of times"; Outbox and Pipeline model those.    *)
(***************************************************************************)
EXTENDS Integers, FiniteSets

CONSTANTS
    Merchants,    \* merchants with a balance row
    Orders,       \* values of merchant_order_id
    Undashed,     \* Undashed[o]: order o without its dashes
    Requests,     \* POST /payments requests
    Calls,        \* webhook requests in progress at the same time
    Workers,      \* consumers
    Amounts,      \* amounts of a payment, in minor units
    Opening,      \* Opening[m]: the amount of m's balance at the start
    ProviderIds,  \* ids the provider can issue
    None

Txns == Requests \cup Calls

Funds == [amount : Nat, reserved : Nat]

Invoices == Merchants \X Orders

Open  == {"created", "processing"}
Final == {"completed", "canceled"}

Body == [merchant : Merchants, order : Orders, amount : Amounts]

Row == [merchant : Merchants, order : Orders, amount : Amounts,
        status : Open \cup Final, ppid : ProviderIds \cup {None}]

\* "Unknown" stands for every string that is not a ProviderStatus.
WebhookStatuses == {"Created", "Completed", "Canceled", "Unknown"}

Hook == [payment : Requests, id : ProviderIds, status : WebhookStatuses]

Work == [payment : Requests, id : ProviderIds \cup {None}]

ASSUME TransactionsAssumption ==
    /\ Amounts \subseteq Nat \ {0}
    /\ Opening \in [Merchants -> Nat]
    /\ Undashed \in [Orders -> Orders]
    /\ Requests \cap Calls = {}
    /\ None \notin Row \cup Hook \cup Work \cup Funds \cup Invoices \cup ProviderIds
    /\ None \notin [merchant : Merchants, invoice : Invoices, amount : Amounts,
                    state : {"open", "captured", "released"}]

VARIABLES
    balance,   \* the balance table, committed
    payment,   \* the payment table, committed; None where there is no row
    issued,    \* issued[id]: the invoice the provider issued id for, or None
    request,   \* request[r]: the body of request r
    stage,     \* stage[r]: how far request r has come
    hook,      \* hook[c]: the webhook call c handles, its payment row locked, or None
    work,      \* work[w]: the payment row worker w has locked and its new id, or None
    seen       \* seen[t]: the balance row t has locked, as it read it, or None

vars == <<balance, payment, issued, request, stage, hook, work, seen>>

Init ==
    /\ balance = [m \in Merchants |-> [amount |-> Opening[m], reserved |-> 0]]
    /\ payment = [r \in Requests |-> None]
    /\ issued = [id \in ProviderIds |-> None]
    /\ request \in [Requests -> Body]
    /\ stage = [r \in Requests |-> "received"]
    /\ hook = [c \in Calls |-> None]
    /\ work = [w \in Workers |-> None]
    /\ seen = [t \in Txns |-> None]

-----------------------------------------------------------------------------
(* Rows and row locks.  A lock is held until the transaction ends. *)

\* external_invoice_id: the merchant and the order, stripped of dashes.
Invoice(x) == <<x.merchant, Undashed[x.order]>>

MerchantOf(t) == IF t \in Requests THEN request[t].merchant
                                   ELSE payment[hook[t].payment].merchant

\* Mutant: the balance is read without FOR UPDATE.
BalanceFree_Unlocked(m) == m \in Merchants

\* Nobody holds m's balance row.
BalanceFree(m) == \A t \in Txns : seen[t] # None => MerchantOf(t) # m

\* Mutant: the payment is read without FOR UPDATE.
PaymentFree_Unlocked(p) == p \in Requests

\* Nobody holds payment row p.
PaymentFree(p) == /\ \A c \in Calls : hook[c] # None => hook[c].payment # p
                  /\ \A w \in Workers : work[w] # None => work[w].payment # p

\* Mutant: the early return for a final payment is missing.
Settling_FinalToo(c) == /\ hook[c] # None
                        /\ hook[c].status \in {"Completed", "Canceled"}

\* Call c has an open payment to settle: its next statement locks the balance.
Settling(c) == /\ hook[c] # None
               /\ payment[hook[c].payment].status \in Open
               /\ hook[c].status \in {"Completed", "Canceled"}

\* Row p has an uncommitted new version: a settling call has recorded its
\* provider id in the session, and the query for the balance flushes it.
Dirty(p) == \E c \in Calls : /\ Settling(c)
                             /\ hook[c].payment = p
                             /\ payment[p].ppid = None

\* Mutant: external_invoice_id is not UNIQUE.
Conflict_NoConstraint(r, p) == FALSE /\ Invoice(payment[p]) = Invoice(request[r])

\* Inserting r's payment violates UNIQUE (external_invoice_id) because of row p.
Conflict(r, p) == /\ payment[p] # None
                  /\ Invoice(payment[p]) = Invoice(request[r])

-----------------------------------------------------------------------------
(* PaymentService.create_payment *)

\* The check for the merchant's order takes no lock.
CheckOrder(r) ==
    /\ stage[r] = "received"
    /\ LET exists == \E p \in Requests : /\ payment[p] # None
                                         /\ payment[p].merchant = request[r].merchant
                                         /\ payment[p].order = request[r].order
       IN  stage' = [stage EXCEPT ![r] = IF exists THEN "refused" ELSE "checked"]
    /\ UNCHANGED <<balance, payment, issued, request, hook, work, seen>>

\* Mutant: the balance is compared with the amount, not with what is available.
ReserveAmount_IgnoresReserved(r) ==
    /\ stage[r] = "checked"
    /\ seen[r] = None
    /\ BalanceFree(request[r].merchant)
    /\ LET b == balance[request[r].merchant]
       IN  IF b.amount < request[r].amount
           THEN /\ stage' = [stage EXCEPT ![r] = "refused"]
                /\ seen' = seen
           ELSE /\ seen' = [seen EXCEPT ![r] = b]
                /\ stage' = stage
    /\ UNCHANGED <<balance, payment, issued, request, hook, work>>

\* Mutant: the unit of work is not closed when the amount is refused.
ReserveAmount_LeaksLock(r) ==
    /\ stage[r] = "checked"
    /\ seen[r] = None
    /\ BalanceFree(request[r].merchant)
    /\ LET b == balance[request[r].merchant]
       IN  /\ seen' = [seen EXCEPT ![r] = b]
           /\ stage' = IF b.amount - b.reserved < request[r].amount
                       THEN [stage EXCEPT ![r] = "refused"] ELSE stage
    /\ UNCHANGED <<balance, payment, issued, request, hook, work>>

\* Locks the balance, reads it and refuses an amount that is not available.
ReserveAmount(r) ==
    /\ stage[r] = "checked"
    /\ seen[r] = None
    /\ BalanceFree(request[r].merchant)
    /\ LET b == balance[request[r].merchant]
       IN  IF b.amount - b.reserved < request[r].amount
           THEN /\ stage' = [stage EXCEPT ![r] = "refused"]
                /\ seen' = seen
           ELSE /\ seen' = [seen EXCEPT ![r] = b]
                /\ stage' = stage
    /\ UNCHANGED <<balance, payment, issued, request, hook, work>>

\* Writes the reservation, the payment and its outbox event, and commits.
CommitPayment(r) ==
    /\ stage[r] = "checked"
    /\ seen[r] # None
    /\ ~ \E p \in Requests : Conflict(r, p)
    /\ balance' = [balance EXCEPT ![request[r].merchant].reserved =
                      seen[r].reserved + request[r].amount]
    /\ payment' = [payment EXCEPT ![r] =
                      [merchant |-> request[r].merchant, order |-> request[r].order,
                       amount |-> request[r].amount, status |-> "created", ppid |-> None]]
    /\ stage' = [stage EXCEPT ![r] = "created"]
    /\ seen' = [seen EXCEPT ![r] = None]
    /\ UNCHANGED <<issued, request, hook, work>>

\* Mutant: the reservation is committed before the payment is inserted.
InsertFails_Reserved(r) ==
    /\ stage[r] = "checked"
    /\ seen[r] # None
    /\ \E p \in Requests : Conflict(r, p) /\ ~ Dirty(p)
    /\ balance' = [balance EXCEPT ![request[r].merchant].reserved =
                      seen[r].reserved + request[r].amount]
    /\ stage' = [stage EXCEPT ![r] = "failed"]
    /\ seen' = [seen EXCEPT ![r] = None]
    /\ UNCHANGED <<payment, issued, request, hook, work>>

\* The INSERT fails on the unique index; it waits for a version of the
\* conflicting row that is not committed yet.
InsertFails(r) ==
    /\ stage[r] = "checked"
    /\ seen[r] # None
    /\ \E p \in Requests : Conflict(r, p) /\ ~ Dirty(p)
    /\ stage' = [stage EXCEPT ![r] = "failed"]
    /\ seen' = [seen EXCEPT ![r] = None]
    /\ UNCHANGED <<balance, payment, issued, request, hook, work>>

-----------------------------------------------------------------------------
(* WebhookService.handle_provider_webhook *)

\* The provider calls back about an id it issued: the payment row is locked.
ReceiveWebhook(c, id, s) ==
    /\ hook[c] = None
    /\ issued[id] # None
    /\ \E p \in Requests :
          /\ payment[p] # None
          /\ Invoice(payment[p]) = issued[id]
          /\ PaymentFree(p)
          /\ hook' = [hook EXCEPT ![c] = [payment |-> p, id |-> id, status |-> s]]
    /\ UNCHANGED <<balance, payment, issued, request, stage, work, seen>>

\* Call c ends and writes nothing.
EndCall(c) ==
    /\ hook' = [hook EXCEPT ![c] = None]
    /\ seen' = [seen EXCEPT ![c] = None]
    /\ UNCHANGED <<balance, payment, issued, request, stage, work>>

\* A status that is not known is refused, a final payment is left as it is.
IgnoreWebhook(c) ==
    /\ hook[c] # None
    /\ \/ hook[c].status = "Unknown"
       \/ payment[hook[c].payment].status \in Final
    /\ EndCall(c)

\* Mutant: the payment's status is overwritten with the provider's.
Updated_ProviderStatus(c, status) ==
    LET row == payment[hook[c].payment]
    IN  [row EXCEPT !.status = hook[c].status,
                    !.ppid = IF row.ppid = None THEN hook[c].id ELSE row.ppid]

\* Mutant: the webhook does not record the provider's id.
Updated_NoId(c, status) == [payment[hook[c].payment] EXCEPT !.status = status]

\* Mutant: an id recorded earlier is overwritten.
Updated_NewId(c, status) ==
    [payment[hook[c].payment] EXCEPT !.status = status, !.ppid = hook[c].id]

\* The row c writes: an id recorded earlier is kept.
Updated(c, status) ==
    LET row == payment[hook[c].payment]
    IN  [row EXCEPT !.status = status,
                    !.ppid = IF row.ppid = None THEN hook[c].id ELSE row.ppid]

MarkProcessing(c) ==
    /\ hook[c] # None
    /\ payment[hook[c].payment].status \in Open
    /\ hook[c].status = "Created"
    /\ payment' = [payment EXCEPT ![hook[c].payment] = Updated(c, "processing")]
    /\ hook' = [hook EXCEPT ![c] = None]
    /\ UNCHANGED <<balance, issued, request, stage, work, seen>>

\* The balance holds what settling call c takes from it.
Covered(c, b) ==
    LET a == payment[hook[c].payment].amount
    IN  a <= b.reserved /\ (hook[c].status = "Completed" => a <= b.amount)

\* Locks the balance and reads it; gives up if it does not cover the payment.
LockFunds(c) ==
    /\ Settling(c)
    /\ seen[c] = None
    /\ BalanceFree(MerchantOf(c))
    /\ LET b == balance[MerchantOf(c)]
       IN  IF Covered(c, b)
           THEN /\ seen' = [seen EXCEPT ![c] = b]
                /\ UNCHANGED <<balance, payment, issued, request, stage, hook, work>>
           ELSE EndCall(c)

\* confirm_reservation: the reserved money leaves the balance.
Complete(c) ==
    /\ Settling(c) /\ hook[c].status = "Completed"
    /\ seen[c] # None
    /\ LET a == payment[hook[c].payment].amount
       IN  balance' = [balance EXCEPT ![MerchantOf(c)] =
                          [amount |-> seen[c].amount - a, reserved |-> seen[c].reserved - a]]
    /\ payment' = [payment EXCEPT ![hook[c].payment] = Updated(c, "completed")]
    /\ hook' = [hook EXCEPT ![c] = None]
    /\ seen' = [seen EXCEPT ![c] = None]
    /\ UNCHANGED <<issued, request, stage, work>>

\* release_reservation: the reserved money is available again.
Cancel(c) ==
    /\ Settling(c) /\ hook[c].status = "Canceled"
    /\ seen[c] # None
    /\ balance' = [balance EXCEPT ![MerchantOf(c)].reserved =
                      seen[c].reserved - payment[hook[c].payment].amount]
    /\ payment' = [payment EXCEPT ![hook[c].payment] = Updated(c, "canceled")]
    /\ hook' = [hook EXCEPT ![c] = None]
    /\ seen' = [seen EXCEPT ![c] = None]
    /\ UNCHANGED <<issued, request, stage, work>>

-----------------------------------------------------------------------------
(* handle_payment_created *)

\* A worker receives p's event and locks the row; a payment that is no longer
\* "created" is left alone.
TakeEvent(w, p) ==
    /\ work[w] = None
    /\ payment[p] # None
    /\ PaymentFree(p)
    /\ payment[p].status = "created"
    /\ work' = [work EXCEPT ![w] = [payment |-> p, id |-> None]]
    /\ UNCHANGED <<balance, payment, issued, request, stage, hook, seen>>

\* The provider issues a fresh id for the invoice at every request.
CallProvider(w, id) ==
    /\ work[w] # None
    /\ work[w].id = None
    /\ issued[id] = None
    /\ issued' = [issued EXCEPT ![id] = Invoice(payment[work[w].payment])]
    /\ work' = [work EXCEPT ![w].id = id]
    /\ UNCHANGED <<balance, payment, request, stage, hook, seen>>

\* The request failed, timed out or its answer was lost: the handler raises.
ProviderFails(w) ==
    /\ work[w] # None
    /\ work' = [work EXCEPT ![w] = None]
    /\ UNCHANGED <<balance, payment, issued, request, stage, hook, seen>>

RecordProcessing(w) ==
    /\ work[w] # None
    /\ work[w].id # None
    /\ payment' = [payment EXCEPT ![work[w].payment].status = "processing",
                                  ![work[w].payment].ppid = work[w].id]
    /\ work' = [work EXCEPT ![w] = None]
    /\ UNCHANGED <<balance, issued, request, stage, hook, seen>>

-----------------------------------------------------------------------------
(* Aborts: the process, the connection or the database fails, or the        *)
(* database picks a victim.  Everything uncommitted is gone, and the locks. *)

AbortRequest(r) ==
    /\ stage[r] = "checked"
    /\ stage' = [stage EXCEPT ![r] = "failed"]
    /\ seen' = [seen EXCEPT ![r] = None]
    /\ UNCHANGED <<balance, payment, issued, request, hook, work>>

AbortCall(c) == hook[c] # None /\ EndCall(c)

\* r's INSERT waits for c's new version of the row, and c for r's balance.
Deadlocked(r, c) ==
    /\ stage[r] = "checked" /\ seen[r] # None
    /\ Settling(c) /\ seen[c] = None
    /\ MerchantOf(c) = request[r].merchant
    /\ Conflict(r, hook[c].payment)
    /\ Dirty(hook[c].payment)

\* PostgreSQL aborts one of the two, whichever waits deadlock_timeout first.
BreakDeadlock(r, c) == Deadlocked(r, c) /\ (AbortRequest(r) \/ AbortCall(c))

-----------------------------------------------------------------------------

RequestStep(r) == CheckOrder(r) \/ ReserveAmount(r) \/ CommitPayment(r) \/ InsertFails(r)

CallStep(c) == IgnoreWebhook(c) \/ MarkProcessing(c) \/ LockFunds(c) \/ Complete(c) \/ Cancel(c)

WorkerStep(w) == \/ \E id \in ProviderIds : CallProvider(w, id)
                 \/ ProviderFails(w)
                 \/ RecordProcessing(w)

Next ==
    \/ \E r \in Requests : RequestStep(r) \/ AbortRequest(r)
    \/ \E c \in Calls : \/ \E id \in ProviderIds, s \in WebhookStatuses : ReceiveWebhook(c, id, s)
                        \/ CallStep(c)
                        \/ AbortCall(c)
    \/ \E w \in Workers : \/ \E p \in Requests : TakeEvent(w, p)
                          \/ WorkerStep(w)
    \/ \E r \in Requests, c \in Calls : BreakDeadlock(r, c)

Spec == Init /\ [][Next]_vars

\* A transaction whose next statement can run does run.  Who waits for a row is
\* queued and woken when its holder's transaction ends, so a wait that ends again
\* and again is over at last: strong fairness for the steps that wait, the two
\* that lock a balance and the INSERT that waits for another row's version.
Fairness ==
    /\ \A r \in Requests : /\ WF_vars(RequestStep(r))
                           /\ SF_vars(ReserveAmount(r))
                           /\ SF_vars(InsertFails(r))
    /\ \A c \in Calls : WF_vars(CallStep(c)) /\ SF_vars(LockFunds(c))
    /\ \A w \in Workers : WF_vars(WorkerStep(w))
    /\ \A r \in Requests, c \in Calls : WF_vars(BreakDeadlock(r, c))

FairSpec == Spec /\ Fairness

-----------------------------------------------------------------------------
(* Safety *)

TypeOK ==
    /\ balance \in [Merchants -> Funds]
    /\ payment \in [Requests -> Row \cup {None}]
    /\ issued \in [ProviderIds -> Invoices \cup {None}]
    /\ request \in [Requests -> Body]
    /\ stage \in [Requests -> {"received", "checked", "created", "refused", "failed"}]
    /\ hook \in [Calls -> Hook \cup {None}]
    /\ work \in [Workers -> Work \cup {None}]
    /\ seen \in [Txns -> Funds \cup {None}]

\* Of two transactions in progress one at most has read a given balance row to
\* change it, and what it read is what the table still says: the absolute
\* values the ORM writes at the commit lose no other transaction's update.
SeenIsCurrent ==
    /\ \A t \in Txns : seen[t] # None => seen[t] = balance[MerchantOf(t)]
    /\ \A t, u \in Txns : (seen[t] # None /\ seen[u] # None
                              /\ MerchantOf(t) = MerchantOf(u)) => t = u

\* What a transaction has checked holds of the committed tables until it ends, though it
\* waits for other rows and for the provider in between and looks only once: the amount a
\* request found available is available, the payment a call found open while it waited for
\* the balance is open, and the payment a worker asks the provider about is "created" and
\* has no id, so that the worker overwrites neither a settlement nor another's id.
ChecksStillHold ==
    /\ \A r \in Requests : seen[r] # None =>
          LET b == balance[request[r].merchant] IN request[r].amount <= b.amount - b.reserved
    /\ \A c \in Calls : seen[c] # None => payment[hook[c].payment].status \in Open
    /\ \A w \in Workers : work[w] # None => /\ payment[work[w].payment].status = "created"
                                            /\ payment[work[w].payment].ppid = None

\* An order is paid at most once although two requests for it may both pass the
\* check: the table has no constraint on (merchant, order), only on the invoice.
OnePaymentPerOrder ==
    \A p, q \in Requests :
        (/\ payment[p] # None /\ payment[q] # None
         /\ payment[p].merchant = payment[q].merchant
         /\ payment[p].order = payment[q].order) => p = q

\* The provider id of a payment was issued for that payment's invoice, and a
\* payment is without one exactly until the provider is heard of: with two ids
\* issued for one invoice, answers and webhooks may record either but no other.
ProviderIdBelongs ==
    \A p \in Requests : payment[p] # None =>
        /\ payment[p].ppid = None <=> payment[p].status = "created"
        /\ payment[p].ppid # None => issued[payment[p].ppid] = Invoice(payment[p])

\* A webhook about an open payment is never refused for lack of reserved funds:
\* the branches of the handler that return False after it are never taken.
AlwaysCovered ==
    \A c \in Calls : Settling(c) => Covered(c, balance[MerchantOf(c)])

\* What a payment row says it says for good: the order and the amount, the
\* provider's id once it is recorded, and everything once it is final, although
\* workers and calls that carry other ids and statuses for it come later.
RecordsStand ==
    [][\A p \in Requests : payment[p] # None =>
          /\ payment'[p] # None
          /\ payment'[p].merchant = payment[p].merchant
          /\ payment'[p].order = payment[p].order
          /\ payment'[p].amount = payment[p].amount
          /\ payment[p].ppid # None => payment'[p].ppid = payment[p].ppid
          /\ payment[p].status \in Final => payment'[p] = payment[p]]_vars

-----------------------------------------------------------------------------
(* Refinement *)

LedgerState == [created |-> "open", processing |-> "open",
                completed |-> "captured", canceled |-> "released"]

Entries ==
    [p \in Requests |->
        IF payment[p] = None THEN None
        ELSE [merchant |-> payment[p].merchant, invoice |-> Invoice(payment[p]),
              amount |-> payment[p].amount, state |-> LedgerState[payment[p].status]]]

L == INSTANCE Ledger WITH Payments <- Requests, funds <- balance, entry <- Entries

\* Whatever the transactions interleave, and wherever they abort, the tables go
\* through the atomic steps of the ledger: money is reserved once per payment
\* and settled once, in the same step as the payment's row.
RefinesLedger == L!Spec

\* Reserved money is exactly what the open payments add up to and money leaves a
\* balance only with a completed payment.
MoneyIsExplained == L!Explained

StatusOf(p) == IF payment[p] = None THEN "none" ELSE payment[p].status

\* How far the worker that has locked row p is.
HeldAs(p) ==
    IF \E w \in Workers : work[w] # None /\ work[w].payment = p
    THEN IF \E w \in Workers : work[w] # None /\ work[w].payment = p /\ work[w].id # None
         THEN "asked" ELSE "locked"
    ELSE "free"

\* The ids the provider has issued for row p.
IdsOf(p) ==
    IF payment[p] = None THEN {} ELSE {id \in ProviderIds : issued[id] = Invoice(payment[p])}

Life == INSTANCE PaymentLife WITH
            Payments <- Requests,
            Ids <- ProviderIds,
            pay <- [p \in Requests |-> StatusOf(p)],
            held <- [p \in Requests |-> HeldAs(p)],
            asked <- [p \in Requests |-> IdsOf(p)]

\* To a payment row, every transaction is one step, that of its commit, but for the
\* worker's lock: no status that was checked, and no lock that was waited for, is
\* stale when the transaction ends.
RefinesLife == Life!Spec

(* Liveness *)

\* No request, webhook call or worker waits for a lock for ever, although a
\* request and a call can wait for each other.
NoTransactionHangs ==
    /\ \A r \in Requests : stage[r] = "checked" ~> stage[r] # "checked"
    /\ \A c \in Calls : hook[c] # None ~> hook[c] = None
    /\ \A w \in Workers : work[w] # None ~> work[w] = None
=============================================================================
