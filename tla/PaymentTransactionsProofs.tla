--------------------- MODULE PaymentTransactionsProofs ---------------------
(***************************************************************************)
(* Proofs about PaymentTransactions, for any number of merchants, orders,  *)
(* requests, webhook calls and workers: type correctness, the exclusion    *)
(* its row locks give, one payment per order, the provider ids, and that   *)
(* the transactions implement the atomic steps of Ledger.                  *)
(***************************************************************************)
EXTENDS PaymentTransactions, FiniteSetTheorems, TLAPS

\* Where a request stands tells whether its row exists and whether it holds the
\* balance, and what it read covers its amount.
RequestsInStep ==
    \A r \in Requests :
        /\ stage[r] = "created" <=> payment[r] # None
        /\ seen[r] # None => /\ stage[r] = "checked"
                             /\ request[r].amount <= seen[r].amount - seen[r].reserved

\* Calls and workers hold rows that exist; a call holds a balance only to settle
\* an open payment it covers, a worker only a payment that is still "created".
RowsInStep ==
    /\ \A c \in Calls :
          /\ hook[c] # None => payment[hook[c].payment] # None
          /\ seen[c] # None => Settling(c) /\ Covered(c, seen[c])
    /\ \A w \in Workers :
          work[w] # None => /\ payment[work[w].payment] # None
                            /\ payment[work[w].payment].status = "created"

\* An invoice names one payment.
OneInvoice ==
    \A p, q \in Requests :
        (payment[p] # None /\ payment[q] # None
            /\ Invoice(payment[p]) = Invoice(payment[q])) => p = q

\* The ids that calls and workers carry were issued for the row they hold.
IdsInStep ==
    /\ \A c \in Calls : hook[c] # None =>
          issued[hook[c].id] = Invoice(payment[hook[c].payment])
    /\ \A w \in Workers : (work[w] # None /\ work[w].id # None) =>
          issued[work[w].id] = Invoice(payment[work[w].payment])

\* Of the calls and workers in progress one at most has locked a given payment.
OneWriterPerPayment ==
    /\ \A c, d \in Calls : (hook[c] # None /\ hook[d] # None
                               /\ hook[c].payment = hook[d].payment) => c = d
    /\ \A v, w \in Workers : (work[v] # None /\ work[w] # None
                                 /\ work[v].payment = work[w].payment) => v = w
    /\ \A c \in Calls, w \in Workers : (hook[c] # None /\ work[w] # None)
                                           => hook[c].payment # work[w].payment

Steps == /\ SeenIsCurrent
         /\ OneWriterPerPayment
         /\ RequestsInStep
         /\ RowsInStep

Names == OneInvoice /\ IdsInStep /\ ProviderIdBelongs

IInv == TypeOK /\ Steps /\ Names

USE TransactionsAssumption

-----------------------------------------------------------------------------
(* The initial state. *)

LEMMA InitIInv == Init => IInv
<1> SUFFICES ASSUME Init PROVE IInv
  OBVIOUS
<1>1. TypeOK
  BY DEF Init, TypeOK, Funds, Txns
<1>2. /\ \A t \in Txns : seen[t] = None
      /\ \A c \in Calls : hook[c] = None /\ seen[c] = None
      /\ \A w \in Workers : work[w] = None
      /\ \A r \in Requests : payment[r] = None /\ stage[r] = "received" /\ seen[r] = None
  BY DEF Init, Txns
<1>3. Steps
  BY <1>2 DEF Steps, SeenIsCurrent, OneWriterPerPayment, RequestsInStep, RowsInStep
<1>4. Names
  BY <1>2 DEF Names, OneInvoice, IdsInStep, ProviderIdBelongs
<1> QED  BY <1>1, <1>3, <1>4 DEF IInv

-----------------------------------------------------------------------------
(* Type correctness. *)

LEMMA RequestTypes ==
    ASSUME IInv, NEW r \in Requests, RequestStep(r) \/ AbortRequest(r)
    PROVE  TypeOK'
<1> USE DEF IInv
<1>1. CASE CheckOrder(r)
  BY <1>1 DEF TypeOK, CheckOrder
<1>2. CASE ReserveAmount(r)
  BY <1>2 DEF TypeOK, ReserveAmount, Txns, Body
<1>3. CASE CommitPayment(r)
  <2>1. seen[r] \in Funds /\ request[r] \in Body
    BY <1>3 DEF TypeOK, CommitPayment, Txns
  <2>2. seen[r].reserved + request[r].amount \in Nat
    <3>1. seen[r].reserved \in Nat
      BY <2>1 DEF Funds
    <3>2. request[r].amount \in Nat
      BY <2>1 DEF Body
    <3> QED  BY <3>1, <3>2
  <2>3. balance' \in [Merchants -> Funds]
    BY <1>3, <2>1, <2>2 DEF TypeOK, CommitPayment, Funds, Body
  <2>4. [merchant |-> request[r].merchant, order |-> request[r].order,
         amount |-> request[r].amount, status |-> "created", ppid |-> None] \in Row
    BY <2>1 DEF Body, Row, Open
  <2>5. payment' \in [Requests -> Row \cup {None}]
    BY <1>3, <2>4 DEF TypeOK, CommitPayment
  <2> QED  BY <1>3, <2>3, <2>5 DEF TypeOK, CommitPayment
<1>4. CASE InsertFails(r)
  BY <1>4 DEF TypeOK, InsertFails
<1>5. CASE AbortRequest(r)
  BY <1>5 DEF TypeOK, AbortRequest
<1> QED  BY <1>1, <1>2, <1>3, <1>4, <1>5 DEF RequestStep

LEMMA HookRow ==
    ASSUME TypeOK, RowsInStep, NEW c \in Calls, hook[c] # None
    PROVE  /\ hook[c] \in Hook
           /\ hook[c].payment \in Requests /\ hook[c].id \in ProviderIds
           /\ payment[hook[c].payment] \in Row
           /\ MerchantOf(c) = payment[hook[c].payment].merchant
           /\ MerchantOf(c) \in Merchants
<1>1. hook[c] \in Hook
  BY DEF TypeOK
<1>2. payment[hook[c].payment] \in Row
  BY <1>1 DEF TypeOK, RowsInStep, Hook
<1>3. c \notin Requests
  OBVIOUS
<1> QED  BY <1>1, <1>2, <1>3 DEF MerchantOf, Row, Hook

LEMMA UpdatedRow ==
    ASSUME TypeOK, RowsInStep, NEW c \in Calls, hook[c] # None,
           NEW status \in Open \cup Final
    PROVE  /\ Updated(c, status) \in Row
           /\ Updated(c, status).status = status
           /\ Updated(c, status).amount = payment[hook[c].payment].amount
           /\ Updated(c, status).ppid =
                 IF payment[hook[c].payment].ppid = None THEN hook[c].id
                 ELSE payment[hook[c].payment].ppid
           /\ Updated(c, status).merchant = payment[hook[c].payment].merchant
           /\ Updated(c, status).order = payment[hook[c].payment].order
           /\ Invoice(Updated(c, status)) = Invoice(payment[hook[c].payment])
<1>1. payment[hook[c].payment] \in Row /\ hook[c].id \in ProviderIds
  BY HookRow
<1> QED  BY <1>1 DEF Updated, Row, Invoice

LEMMA CallTypes ==
    ASSUME IInv, NEW c \in Calls, CallStep(c) \/ AbortCall(c)
    PROVE  TypeOK'
<1> USE DEF IInv, Steps
<1>1. ASSUME EndCall(c) PROVE TypeOK'
  BY <1>1 DEF TypeOK, EndCall
<1>2. CASE MarkProcessing(c)
  <2>1. Updated(c, "processing") \in Row
    BY <1>2, UpdatedRow DEF MarkProcessing, Open
  <2> QED  BY <1>2, <2>1 DEF TypeOK, MarkProcessing
<1>3. CASE LockFunds(c)
  <2>1. balance[MerchantOf(c)] \in Funds
    BY <1>3, HookRow DEF LockFunds, Settling, TypeOK
  <2> QED  BY <1>1, <1>3, <2>1 DEF TypeOK, LockFunds
<1>4. CASE Complete(c) \/ Cancel(c)
  <2> DEFINE a == payment[hook[c].payment].amount
  <2>1. hook[c] # None /\ seen[c] # None
    BY <1>4 DEF Complete, Cancel, Settling
  <2>2. MerchantOf(c) \in Merchants /\ a \in Nat /\ seen[c] \in Funds
    BY <2>1, HookRow DEF TypeOK, Row, Txns
  <2>3. a <= seen[c].reserved /\ (hook[c].status = "Completed" => a <= seen[c].amount)
    BY <2>1 DEF RowsInStep, Covered
  <2>4. seen[c].reserved - a \in Nat
    BY <2>2, <2>3 DEF Funds
  <2>5. CASE Complete(c)
    <3>1. seen[c].amount - a \in Nat
      BY <2>2, <2>3, <2>5 DEF Funds, Complete
    <3>2. Updated(c, "completed") \in Row
      BY <2>1, UpdatedRow DEF Final
    <3>3. balance' \in [Merchants -> Funds]
      BY <2>2, <2>4, <2>5, <3>1 DEF Complete, TypeOK, Funds
    <3> QED  BY <2>5, <3>2, <3>3 DEF TypeOK, Complete
  <2>6. CASE Cancel(c)
    <3>1. Updated(c, "canceled") \in Row
      BY <2>1, UpdatedRow DEF Final
    <3>2. balance' \in [Merchants -> Funds]
      BY <2>2, <2>4, <2>6 DEF Cancel, TypeOK, Funds
    <3> QED  BY <2>6, <3>1, <3>2 DEF TypeOK, Cancel
  <2> QED  BY <1>4, <2>5, <2>6
<1> QED  BY <1>1, <1>2, <1>3, <1>4 DEF CallStep, IgnoreWebhook, AbortCall

LEMMA WebhookTypes ==
    ASSUME IInv, NEW c \in Calls, NEW id \in ProviderIds, NEW s \in WebhookStatuses,
           ReceiveWebhook(c, id, s)
    PROVE  TypeOK'
BY DEF IInv, TypeOK, ReceiveWebhook, Hook

LEMMA WorkerTypes ==
    ASSUME IInv, NEW w \in Workers,
           \/ \E p \in Requests : TakeEvent(w, p)
           \/ WorkerStep(w)
    PROVE  TypeOK'
<1> USE DEF IInv
<1>1. ASSUME NEW p \in Requests, TakeEvent(w, p) PROVE TypeOK'
  BY <1>1 DEF TypeOK, TakeEvent, Work
<1>2. ASSUME work[w] # None
      PROVE  /\ work[w] \in Work /\ work[w].payment \in Requests
             /\ payment[work[w].payment] \in Row
  BY <1>2 DEF TypeOK, Work, Steps, RowsInStep
<1>3. ASSUME NEW id \in ProviderIds, CallProvider(w, id) PROVE TypeOK'
  <2>1. Invoice(payment[work[w].payment]) \in Invoices
    BY <1>2, <1>3 DEF CallProvider, Row, Invoice, Invoices
  <2> QED  BY <1>2, <1>3, <2>1 DEF TypeOK, CallProvider, Work
<1>4. CASE ProviderFails(w)
  BY <1>4 DEF TypeOK, ProviderFails
<1>5. CASE RecordProcessing(w)
  <2>1. work[w].id \in ProviderIds
    BY <1>2, <1>5 DEF RecordProcessing, Work
  <2> QED  BY <1>2, <1>5, <2>1 DEF TypeOK, RecordProcessing, Row, Open
<1> QED  BY <1>1, <1>3, <1>4, <1>5 DEF WorkerStep

-----------------------------------------------------------------------------
(* Locks.  An action is one of four kinds: it begins by locking a payment    *)
(* row, it locks a balance, it ends its transaction, or it touches neither.  *)

\* No step changes what a row is for.
RowsKept ==
    \A p \in Requests : payment[p] # None =>
        /\ payment'[p] # None
        /\ payment'[p].merchant = payment[p].merchant
        /\ payment'[p].order = payment[p].order
        /\ payment'[p].amount = payment[p].amount

LEMMA KeptNames ==
    ASSUME RowsKept, request' = request
    PROVE  /\ \A p \in Requests : payment[p] # None =>
                  Invoice(payment'[p]) = Invoice(payment[p])
           /\ \A r \in Requests : MerchantOf(r)' = MerchantOf(r)
           /\ \A c \in Calls :
                 (hook[c] # None /\ hook'[c] = hook[c] /\ hook[c].payment \in Requests
                    /\ payment[hook[c].payment] # None) => MerchantOf(c)' = MerchantOf(c)
BY DEF RowsKept, Invoice, MerchantOf

\* A transaction that ends forgets the balance it read; it may have written it.
LEMMA ForgetBalance ==
    ASSUME SeenIsCurrent, NEW t \in Txns, seen \in [Txns -> Funds \cup {None}],
           seen' = [seen EXCEPT ![t] = None],
           \A u \in Txns \ {t} : seen[u] # None => MerchantOf(u)' = MerchantOf(u),
           \/ balance' = balance
           \/ /\ seen[t] # None
              /\ \A u \in Txns : seen[u] # None /\ MerchantOf(u) # MerchantOf(t)
                     => balance'[MerchantOf(u)] = balance[MerchantOf(u)]
    PROVE  SeenIsCurrent'
<1>1. \A u \in Txns : seen'[u] # None => u # t /\ seen'[u] = seen[u]
  OBVIOUS
<1>2. ASSUME NEW u \in Txns, seen'[u] # None
      PROVE  seen'[u] = balance'[MerchantOf(u)']
  BY <1>1, <1>2 DEF SeenIsCurrent
<1> QED  BY <1>1, <1>2 DEF SeenIsCurrent

\* A transaction that locks a free balance reads it.
LEMMA ReadBalance ==
    ASSUME SeenIsCurrent, NEW t \in Txns, seen \in [Txns -> Funds \cup {None}],
           BalanceFree(MerchantOf(t)), balance' = balance,
           seen' = [seen EXCEPT ![t] = balance[MerchantOf(t)]],
           \A u \in Txns : (seen[u] # None \/ u = t) => MerchantOf(u)' = MerchantOf(u)
    PROVE  SeenIsCurrent'
<1>1. \A u \in Txns : u # t => seen'[u] = seen[u]
  OBVIOUS
<1>2. \A u \in Txns : seen[u] # None => MerchantOf(u) # MerchantOf(t)
  BY DEF BalanceFree
<1> QED  BY <1>1, <1>2 DEF SeenIsCurrent

-----------------------------------------------------------------------------
(* A call ends: it releases its payment row and its balance, having written  *)
(* the row and possibly the balance, or nothing.                             *)

LEMMA CallEnds ==
    ASSUME IInv, NEW c \in Calls, hook[c] # None,
           hook' = [hook EXCEPT ![c] = None], seen' = [seen EXCEPT ![c] = None],
           request' = request, stage' = stage, work' = work,
           RowsKept,
           \A q \in Requests \ {hook[c].payment} : payment'[q] = payment[q],
           \/ balance' = balance
           \/ /\ seen[c] # None
              /\ \A m \in Merchants \ {MerchantOf(c)} : balance'[m] = balance[m]
    PROVE  Steps'
<1> USE DEF IInv, Steps
<1>1. /\ hook \in [Calls -> Hook \cup {None}] /\ work \in [Workers -> Work \cup {None}]
      /\ seen \in [Txns -> Funds \cup {None}] /\ c \in Txns
      /\ hook[c].payment \in Requests
  BY HookRow DEF TypeOK, Txns
<1>2. ASSUME NEW d \in Calls, hook'[d] # None
      PROVE  /\ d # c /\ hook'[d] = hook[d] /\ hook[d] # None
             /\ payment'[hook[d].payment] = payment[hook[d].payment]
             /\ hook[d].payment \in Requests /\ payment[hook[d].payment] # None
             /\ MerchantOf(d)' = MerchantOf(d)
  <2>1. d # c /\ hook'[d] = hook[d] /\ hook[d] # None
    BY <1>1, <1>2
  <2>2. hook[d].payment \in Requests \ {hook[c].payment}
    BY <2>1, HookRow DEF OneWriterPerPayment
  <2> QED  BY <2>1, <2>2, KeptNames DEF RowsInStep
<1>3. ASSUME NEW w \in Workers, work[w] # None
      PROVE  /\ work[w].payment \in Requests
             /\ payment'[work[w].payment] = payment[work[w].payment]
  <2>1. work[w].payment # hook[c].payment
    BY <1>3 DEF OneWriterPerPayment
  <2> QED  BY <1>1, <1>3, <2>1 DEF Work
<1>4. ASSUME NEW u \in Txns \ {c}, seen[u] # None
      PROVE  MerchantOf(u)' = MerchantOf(u) /\ MerchantOf(u) \in Merchants
  <2>1. CASE u \in Requests
    BY <2>1, KeptNames DEF MerchantOf, TypeOK, Body
  <2>2. CASE u \in Calls
    <3>1. hook[u] # None /\ hook'[u] # None
      BY <1>1, <1>4, <2>2 DEF RowsInStep, Settling
    <3> QED  BY <1>2, <2>2, <3>1, HookRow
  <2> QED  BY <2>1, <2>2 DEF Txns
<1>5. SeenIsCurrent'
  BY <1>1, <1>4, ForgetBalance
<1>6. OneWriterPerPayment'
  BY <1>2 DEF OneWriterPerPayment
<1>7. RequestsInStep'
  <2>1. \A r \in Requests : seen'[r] = seen[r]
    BY <1>1 DEF Txns
  <2>2. \A r \in Requests : payment'[r] # None <=> payment[r] # None
    BY <1>1 DEF RowsKept, RowsInStep
  <2> QED  BY <2>1, <2>2 DEF RequestsInStep
<1>8. RowsInStep'
  <2>1. ASSUME NEW d \in Calls, hook'[d] # None PROVE payment'[hook'[d].payment] # None
    BY <1>2, <2>1
  <2>2. ASSUME NEW d \in Calls, seen'[d] # None PROVE Settling(d)' /\ Covered(d, seen[d])'
    <3>1. d # c /\ seen[d] # None /\ seen'[d] = seen[d]
      BY <1>1, <2>2 DEF Txns
    <3>2. hook'[d] # None
      BY <1>1, <3>1 DEF RowsInStep, Settling
    <3> QED  BY <1>2, <3>1, <3>2 DEF RowsInStep, Settling, Covered
  <2>3. ASSUME NEW d \in Calls, seen'[d] # None PROVE seen'[d] = seen[d]
    BY <1>1, <2>3 DEF Txns
  <2> QED  BY <1>3, <2>1, <2>2, <2>3 DEF RowsInStep, Covered
<1> QED  BY <1>5, <1>6, <1>7, <1>8

LEMMA CallSteps ==
    ASSUME IInv, NEW c \in Calls, CallStep(c) \/ AbortCall(c)
    PROVE  RowsKept /\ Steps'
<1> USE DEF IInv, Steps
<1>1. ASSUME hook[c] # None, EndCall(c) PROVE RowsKept /\ Steps'
  <2>1. RowsKept
    BY <1>1 DEF EndCall, RowsKept
  <2> QED  BY <1>1, <2>1, CallEnds DEF EndCall
<1>2. CASE MarkProcessing(c)
  <2>1. hook[c] # None /\ seen[c] = None
    BY <1>2 DEF MarkProcessing, RowsInStep, Settling
  <2>2. seen' = [seen EXCEPT ![c] = None]
    BY <1>2, <2>1 DEF MarkProcessing, TypeOK, Txns
  <2>3. RowsKept
    BY <1>2, <2>1, HookRow, UpdatedRow DEF MarkProcessing, RowsKept, TypeOK, Open
  <2>4. \A q \in Requests \ {hook[c].payment} : payment'[q] = payment[q]
    BY <1>2 DEF MarkProcessing, TypeOK
  <2> QED  BY <1>2, <2>1, <2>2, <2>3, <2>4, CallEnds DEF MarkProcessing
<1>3. CASE Complete(c) \/ Cancel(c)
  <2>1. hook[c] # None /\ seen[c] # None
    BY <1>3 DEF Complete, Cancel, Settling
  <2>2. \E s \in Final : payment' = [payment EXCEPT ![hook[c].payment] = Updated(c, s)]
    BY <1>3 DEF Complete, Cancel, Final
  <2>3. RowsKept
    BY <2>1, <2>2, HookRow, UpdatedRow DEF RowsKept, TypeOK
  <2>4. \A q \in Requests \ {hook[c].payment} : payment'[q] = payment[q]
    BY <2>2 DEF TypeOK
  <2>5. \A m \in Merchants \ {MerchantOf(c)} : balance'[m] = balance[m]
    BY <1>3 DEF Complete, Cancel, TypeOK
  <2> QED  BY <1>3, <2>1, <2>3, <2>4, <2>5, CallEnds DEF Complete, Cancel
<1>4. ASSUME LockFunds(c), Covered(c, balance[MerchantOf(c)]) PROVE RowsKept /\ Steps'
  <2>1. /\ seen' = [seen EXCEPT ![c] = balance[MerchantOf(c)]]
        /\ UNCHANGED <<balance, payment, issued, request, stage, hook, work>>
        /\ Settling(c) /\ BalanceFree(MerchantOf(c)) /\ c \in Txns
    BY <1>4 DEF LockFunds, Txns
  <2>2. RowsKept
    BY <2>1 DEF RowsKept
  <2>3. seen \in [Txns -> Funds \cup {None}]
    BY DEF TypeOK
  <2>4. \A u \in Txns : MerchantOf(u)' = MerchantOf(u)
    BY <2>1 DEF MerchantOf
  <2>5. SeenIsCurrent'
    BY <2>1, <2>3, <2>4, ReadBalance
  <2>6. OneWriterPerPayment'
    BY <2>1 DEF OneWriterPerPayment
  <2>7. RequestsInStep'
    BY <2>1, <2>3 DEF RequestsInStep, Txns
  <2>8. seen'[c] = balance[MerchantOf(c)] /\ \A d \in Calls \ {c} : seen'[d] = seen[d]
    BY <2>1, <2>3 DEF Txns
  <2>9. RowsInStep'
    BY <1>4, <2>1, <2>8 DEF RowsInStep, Settling, Covered
  <2> QED  BY <2>2, <2>5, <2>6, <2>7, <2>9
<1>5. CallStep(c) \/ AbortCall(c) =>
         \/ hook[c] # None /\ EndCall(c)
         \/ MarkProcessing(c) \/ Complete(c) \/ Cancel(c)
         \/ LockFunds(c) /\ Covered(c, balance[MerchantOf(c)])
  BY DEF CallStep, AbortCall, IgnoreWebhook, LockFunds, Settling
<1> QED  BY <1>1, <1>2, <1>3, <1>4, <1>5

\* A webhook call begins: it locks a payment row nobody holds.
LEMMA WebhookSteps ==
    ASSUME IInv, NEW c \in Calls, NEW id \in ProviderIds, NEW s \in WebhookStatuses,
           ReceiveWebhook(c, id, s)
    PROVE  RowsKept /\ Steps'
<1> USE DEF IInv, Steps
<1>1. PICK p \in Requests :
         /\ payment[p] # None /\ PaymentFree(p)
         /\ hook' = [hook EXCEPT ![c] = [payment |-> p, id |-> id, status |-> s]]
  BY DEF ReceiveWebhook
<1>2. /\ UNCHANGED <<balance, payment, issued, request, stage, work, seen>>
      /\ hook[c] = None /\ seen[c] = None
  BY DEF ReceiveWebhook, RowsInStep, Settling
<1>3. /\ hook'[c].payment = p
      /\ \A d \in Calls \ {c} : hook'[d] = hook[d]
  BY <1>1 DEF TypeOK
<1>4. RowsKept
  BY <1>2 DEF RowsKept
<1>5. \A u \in Txns : seen[u] # None => MerchantOf(u)' = MerchantOf(u)
  BY <1>2, <1>3 DEF MerchantOf, Txns
<1>6. SeenIsCurrent'
  BY <1>2, <1>5 DEF SeenIsCurrent
<1>7. OneWriterPerPayment'
  BY <1>1, <1>2, <1>3 DEF OneWriterPerPayment, PaymentFree
<1>8. RequestsInStep'
  BY <1>2 DEF RequestsInStep
<1>9. RowsInStep'
  BY <1>1, <1>2, <1>3 DEF RowsInStep, Settling, Covered
<1> QED  BY <1>4, <1>6, <1>7, <1>8, <1>9

LEMMA RequestSteps ==
    ASSUME IInv, NEW r \in Requests, RequestStep(r) \/ AbortRequest(r)
    PROVE  RowsKept /\ Steps'
<1> USE DEF IInv, Steps
<1>1. /\ r \in Txns /\ r \notin Calls
      /\ seen \in [Txns -> Funds \cup {None}]
      /\ DOMAIN stage = Requests
      /\ UNCHANGED <<request, hook, work>>
  BY DEF TypeOK, Txns, RequestStep, AbortRequest, CheckOrder, ReserveAmount, CommitPayment, InsertFails
<1>2. CASE CheckOrder(r)
  <2>1. stage[r] = "received" /\ stage'[r] \in {"refused", "checked"}
    BY <1>1, <1>2 DEF CheckOrder
  <2>2. /\ \A q \in Requests \ {r} : stage'[q] = stage[q]
        /\ UNCHANGED <<balance, payment, seen>>
    BY <1>1, <1>2 DEF CheckOrder
  <2>3. \A u \in Txns : MerchantOf(u)' = MerchantOf(u)
    BY <1>1, <2>2 DEF MerchantOf
  <2>4. SeenIsCurrent' /\ OneWriterPerPayment'
    BY <1>1, <2>2, <2>3 DEF SeenIsCurrent, OneWriterPerPayment
  <2>5. RequestsInStep'
    BY <1>1, <2>1, <2>2 DEF RequestsInStep
  <2>6. RowsKept /\ RowsInStep'
    BY <1>1, <2>2 DEF RowsKept, RowsInStep, Settling, Covered
  <2> QED  BY <2>4, <2>5, <2>6
<1>3. CASE ReserveAmount(r)
  <2> DEFINE b == balance[request[r].merchant]
  <2>1. /\ UNCHANGED <<balance, payment>>
        /\ stage[r] = "checked" /\ seen[r] = None
        /\ BalanceFree(MerchantOf(r)) /\ MerchantOf(r) = request[r].merchant
        /\ \/ stage' = [stage EXCEPT ![r] = "refused"] /\ seen' = seen
           \/ /\ seen' = [seen EXCEPT ![r] = b] /\ stage' = stage
              /\ ~ (b.amount - b.reserved < request[r].amount)
    BY <1>3 DEF ReserveAmount, MerchantOf
  <2>2. \A u \in Txns : MerchantOf(u)' = MerchantOf(u)
    BY <1>1, <2>1 DEF MerchantOf
  <2>3. SeenIsCurrent'
    <3>1. CASE seen' = seen
      BY <2>1, <2>2, <3>1 DEF SeenIsCurrent
    <3>2. CASE seen' = [seen EXCEPT ![r] = balance[MerchantOf(r)]]
      BY <1>1, <2>1, <2>2, <3>2, ReadBalance
    <3> QED  BY <2>1, <3>1, <3>2
  <2>4. \A t \in Txns \ {r} : seen'[t] = seen[t]
    BY <1>1, <2>1
  <2>5. RequestsInStep'
    <3>1. b \in Funds /\ request[r].amount \in Nat
      BY DEF TypeOK, Body
    <3>2. \A q \in Requests \ {r} : seen'[q] = seen[q] /\ stage'[q] = stage[q]
      BY <1>1, <2>1, <2>4 DEF Txns
    <3>3. CASE stage' = [stage EXCEPT ![r] = "refused"] /\ seen' = seen
      BY <1>1, <2>1, <3>2, <3>3 DEF RequestsInStep
    <3>4. CASE /\ seen' = [seen EXCEPT ![r] = b] /\ stage' = stage
               /\ ~ (b.amount - b.reserved < request[r].amount)
      <4>1. seen'[r] = b /\ request[r].amount <= b.amount - b.reserved
        BY <1>1, <3>1, <3>4 DEF Funds
      <4> QED  BY <1>1, <2>1, <3>2, <3>4, <4>1 DEF RequestsInStep
    <3> QED  BY <2>1, <3>3, <3>4
  <2>6. RowsKept /\ RowsInStep' /\ OneWriterPerPayment'
    BY <1>1, <2>1, <2>4 DEF RowsKept, RowsInStep, Settling, Covered, OneWriterPerPayment, Txns
  <2> QED  BY <2>3, <2>5, <2>6
<1>4. CASE CommitPayment(r)
  <2>1. /\ stage[r] = "checked" /\ seen[r] # None /\ payment[r] = None
        /\ seen' = [seen EXCEPT ![r] = None]
        /\ stage' = [stage EXCEPT ![r] = "created"]
        /\ \A q \in Requests \ {r} : payment'[q] = payment[q]
        /\ \A m \in Merchants \ {MerchantOf(r)} : balance'[m] = balance[m]
    BY <1>4 DEF CommitPayment, RequestsInStep, TypeOK, MerchantOf
  <2>2. payment'[r] # None
    BY <1>4, RequestTypes DEF TypeOK, CommitPayment, Body, Row, Open
  <2>3. RowsKept
    BY <2>1 DEF RowsKept
  <2>4. \A c \in Calls : hook[c] # None =>
           /\ payment'[hook[c].payment] = payment[hook[c].payment]
           /\ MerchantOf(c)' = MerchantOf(c) /\ MerchantOf(c) \in Merchants
    BY <1>1, <2>1, <2>3, HookRow, KeptNames DEF RowsInStep
  <2>5. \A w \in Workers : work[w] # None =>
           payment'[work[w].payment] = payment[work[w].payment]
    BY <2>1 DEF RowsInStep, TypeOK, Work
  <2>6. \A u \in Txns : seen[u] # None =>
           MerchantOf(u)' = MerchantOf(u) /\ MerchantOf(u) \in Merchants
    <3>1. \A q \in Requests : MerchantOf(q)' = MerchantOf(q) /\ MerchantOf(q) \in Merchants
      BY <1>1, <2>3, KeptNames DEF MerchantOf, TypeOK, Body
    <3>2. \A c \in Calls : seen[c] # None => hook[c] # None
      BY DEF RowsInStep, Settling
    <3> QED  BY <2>4, <3>1, <3>2 DEF Txns
  <2>7. SeenIsCurrent'
    BY <1>1, <2>1, <2>6, ForgetBalance
  <2>8. \A t \in Txns \ {r} : seen'[t] = seen[t]
    BY <1>1, <2>1
  <2>9. RequestsInStep'
    BY <1>1, <2>1, <2>2, <2>8 DEF RequestsInStep, Txns
  <2>10. RowsInStep' /\ OneWriterPerPayment'
    BY <1>1, <2>4, <2>5, <2>8 DEF RowsInStep, Settling, Covered, OneWriterPerPayment, Txns
  <2> QED  BY <2>3, <2>7, <2>9, <2>10
<1>5. CASE InsertFails(r) \/ AbortRequest(r)
  <2>1. /\ stage[r] = "checked"
        /\ seen' = [seen EXCEPT ![r] = None]
        /\ stage' = [stage EXCEPT ![r] = "failed"]
        /\ UNCHANGED <<balance, payment>>
    BY <1>5 DEF InsertFails, AbortRequest
  <2>2. \A u \in Txns : MerchantOf(u)' = MerchantOf(u)
    BY <1>1, <2>1 DEF MerchantOf
  <2>3. SeenIsCurrent'
    BY <1>1, <2>1, <2>2, ForgetBalance
  <2>4. \A t \in Txns \ {r} : seen'[t] = seen[t]
    BY <1>1, <2>1
  <2>5. RequestsInStep'
    BY <1>1, <2>1, <2>4 DEF RequestsInStep, Txns
  <2>6. RowsKept /\ RowsInStep' /\ OneWriterPerPayment'
    BY <1>1, <2>1, <2>4 DEF RowsKept, RowsInStep, Settling, Covered, OneWriterPerPayment, Txns
  <2> QED  BY <2>3, <2>5, <2>6
<1> QED  BY <1>2, <1>3, <1>4, <1>5 DEF RequestStep

LEMMA WorkerSteps ==
    ASSUME IInv, NEW w \in Workers,
           \/ \E p \in Requests : TakeEvent(w, p)
           \/ WorkerStep(w)
    PROVE  RowsKept /\ Steps'
<1> USE DEF IInv, Steps
<1>1. UNCHANGED <<balance, request, stage, hook, seen>>
  BY DEF WorkerStep, TakeEvent, CallProvider, ProviderFails, RecordProcessing
<1>2. \A v \in Workers \ {w} : work'[v] = work[v]
  BY DEF WorkerStep, TakeEvent, CallProvider, ProviderFails, RecordProcessing, TypeOK
<1>3. ASSUME UNCHANGED payment,
             work'[w] # None =>
                /\ payment[work'[w].payment] # None
                /\ payment[work'[w].payment].status = "created"
                /\ \A c \in Calls : hook[c] # None => hook[c].payment # work'[w].payment
                /\ \A v \in Workers \ {w} : work[v] # None => work[v].payment # work'[w].payment
      PROVE  RowsKept /\ Steps'
  <2>1. \A u \in Txns : MerchantOf(u)' = MerchantOf(u)
    BY <1>1, <1>3 DEF MerchantOf
  <2>2. SeenIsCurrent' /\ RequestsInStep'
    BY <1>1, <1>3, <2>1 DEF SeenIsCurrent, RequestsInStep
  <2>3. OneWriterPerPayment'
    BY <1>1, <1>2, <1>3 DEF OneWriterPerPayment
  <2>4. RowsKept /\ RowsInStep'
    BY <1>1, <1>2, <1>3 DEF RowsKept, RowsInStep, Settling, Covered
  <2> QED  BY <2>2, <2>3, <2>4
<1>4. ASSUME NEW p \in Requests, TakeEvent(w, p) PROVE RowsKept /\ Steps'
  <2>1. work'[w].payment = p
    BY <1>4 DEF TakeEvent, TypeOK
  <2> QED  BY <1>3, <1>4, <2>1 DEF TakeEvent, PaymentFree
<1>5. ASSUME NEW id \in ProviderIds, CallProvider(w, id) PROVE RowsKept /\ Steps'
  <2>1. work[w] # None /\ work'[w].payment = work[w].payment
    BY <1>5 DEF CallProvider, TypeOK, Work
  <2> QED  BY <1>3, <1>5, <2>1 DEF CallProvider, RowsInStep, OneWriterPerPayment
<1>6. CASE ProviderFails(w)
  <2>1. work'[w] = None
    BY <1>6 DEF ProviderFails, TypeOK
  <2> QED  BY <1>3, <1>6, <2>1 DEF ProviderFails
<1>7. CASE RecordProcessing(w)
  <2> DEFINE p == work[w].payment
  <2>1. /\ work[w] # None /\ p \in Requests /\ payment[p] \in Row /\ work'[w] = None
    BY <1>7 DEF RecordProcessing, TypeOK, Work, RowsInStep
  <2>2. /\ payment' = [payment EXCEPT ![p] = [payment[p] EXCEPT !.status = "processing",
                                                           !.ppid = work[w].id]]
    BY <1>7 DEF RecordProcessing
  <2>3. \A q \in Requests \ {p} : payment'[q] = payment[q]
    BY <2>2 DEF TypeOK
  <2>4. /\ payment'[p].merchant = payment[p].merchant /\ payment'[p].order = payment[p].order
        /\ payment'[p].amount = payment[p].amount /\ payment'[p] # None
    <3>1. payment'[p] = [payment[p] EXCEPT !.status = "processing", !.ppid = work[w].id]
      BY <2>1, <2>2 DEF TypeOK
    <3>2. work[w].id \in ProviderIds
      BY <1>7, <2>1 DEF RecordProcessing, TypeOK, Work
    <3>3. payment'[p] \in Row
      BY <2>1, <3>1, <3>2 DEF Row, Open
    <3> QED  BY <2>1, <3>1, <3>3 DEF Row
  <2>5. RowsKept
    BY <2>3, <2>4 DEF RowsKept
  <2>6. \A c \in Calls : hook[c] # None =>
           /\ payment'[hook[c].payment] = payment[hook[c].payment]
           /\ MerchantOf(c)' = MerchantOf(c)
    <3>1. \A c \in Calls : hook[c] # None => hook[c].payment \in Requests \ {p}
      BY <2>1, HookRow DEF OneWriterPerPayment
    <3> QED  BY <1>1, <2>3, <2>5, <3>1, KeptNames DEF RowsInStep
  <2>7. ASSUME NEW v \in Workers, work'[v] # None
        PROVE  /\ work'[v] = work[v]
               /\ payment'[work[v].payment] = payment[work[v].payment]
    <3>1. v # w /\ work'[v] = work[v] /\ work[v] # None
      BY <1>2, <2>1, <2>7
    <3>2. work[v].payment \in Requests
      BY <3>1 DEF TypeOK, Work
    <3>3. work[v].payment # p
      BY <2>1, <3>1 DEF OneWriterPerPayment
    <3> QED  BY <2>3, <3>1, <3>2, <3>3
  <2>8. \A u \in Txns : seen[u] # None => MerchantOf(u)' = MerchantOf(u)
    BY <1>1, <2>5, <2>6, KeptNames DEF Txns, RowsInStep, Settling
  <2>9. SeenIsCurrent'
    BY <1>1, <2>8 DEF SeenIsCurrent
  <2>10. OneWriterPerPayment'
    BY <1>1, <2>7 DEF OneWriterPerPayment
  <2>11. RequestsInStep'
    BY <1>1, <2>1, <2>3, <2>4 DEF RequestsInStep, RowsInStep
  <2>12. RowsInStep'
    BY <1>1, <2>6, <2>7 DEF RowsInStep, Settling, Covered
  <2> QED  BY <2>5, <2>9, <2>10, <2>11, <2>12
<1> QED  BY <1>4, <1>5, <1>6, <1>7 DEF WorkerStep

-----------------------------------------------------------------------------
(* Invoices and provider ids. *)

\* A step that creates no row, takes up no id and records no id keeps the names.
LEMMA NamesFrame ==
    ASSUME IInv, RowsKept,
           UNCHANGED request,
           \A p \in Requests : payment'[p] # None => payment[p] # None,
           \A p \in Requests : payment[p] # None =>
              \/ payment'[p] = payment[p]
              \/ /\ payment'[p].status # "created" /\ payment'[p].ppid # None
                 /\ issued'[payment'[p].ppid] = Invoice(payment[p]),
           \A id \in ProviderIds : issued[id] # None => issued'[id] = issued[id],
           \A c \in Calls : hook'[c] # None =>
              \/ hook'[c] = hook[c]
              \/ /\ hook'[c].payment \in Requests /\ payment[hook'[c].payment] # None
                 /\ issued'[hook'[c].id] = Invoice(payment[hook'[c].payment]),
           \A w \in Workers : (work'[w] # None /\ work'[w].id # None) =>
              \/ work'[w] = work[w]
              \/ /\ work'[w].payment \in Requests /\ payment[work'[w].payment] # None
                 /\ issued'[work'[w].id] = Invoice(payment[work'[w].payment])
    PROVE  Names'
<1> USE DEF IInv, Steps, Names
<1>1. \A p \in Requests : payment[p] # None => Invoice(payment'[p]) = Invoice(payment[p])
  BY KeptNames
<1>2. \A p \in Requests : payment[p] # None => Invoice(payment[p]) # None
  BY DEF TypeOK, Row, Invoice, Invoices
<1>3. OneInvoice'
  BY <1>1 DEF OneInvoice, Invoice
<1>4. ASSUME NEW c \in Calls, hook'[c] # None
      PROVE  issued'[hook'[c].id] = Invoice(payment'[hook'[c].payment])
  <2>1. CASE hook'[c] = hook[c]
    <3>1. hook[c].payment \in Requests /\ payment[hook[c].payment] # None /\ hook[c].id \in ProviderIds
      BY <1>4, <2>1, HookRow DEF RowsInStep
    <3> QED  BY <1>1, <1>2, <1>4, <2>1, <3>1 DEF IdsInStep
  <2>2. CASE hook'[c] # hook[c]
    BY <1>1, <1>4, <2>2
  <2> QED  BY <2>1, <2>2
<1>5. ASSUME NEW w \in Workers, work'[w] # None, work'[w].id # None
      PROVE  issued'[work'[w].id] = Invoice(payment'[work'[w].payment])
  <2>1. CASE work'[w] = work[w]
    <3>1. work[w].payment \in Requests /\ payment[work[w].payment] # None /\ work[w].id \in ProviderIds
      BY <1>5, <2>1 DEF RowsInStep, TypeOK, Work
    <3> QED  BY <1>1, <1>2, <1>5, <2>1, <3>1 DEF IdsInStep
  <2>2. CASE work'[w] # work[w]
    BY <1>1, <1>5, <2>2
  <2> QED  BY <2>1, <2>2
<1>6. IdsInStep'
  BY <1>4, <1>5 DEF IdsInStep, Invoice
<1>7. ASSUME NEW p \in Requests, payment'[p] # None
      PROVE  /\ payment'[p].ppid = None <=> payment'[p].status = "created"
             /\ payment'[p].ppid # None => issued'[payment'[p].ppid] = Invoice(payment'[p])
  <2>1. payment[p] # None /\ payment[p] \in Row
    BY <1>7 DEF TypeOK
  <2>2. CASE payment'[p] = payment[p]
    <3>1. payment[p].ppid # None => payment[p].ppid \in ProviderIds
      BY <2>1 DEF Row
    <3> QED  BY <1>2, <2>1, <2>2, <3>1 DEF ProviderIdBelongs
  <2>3. CASE payment'[p] # payment[p]
    BY <1>1, <2>1, <2>3
  <2> QED  BY <2>2, <2>3
<1>8. ProviderIdBelongs'
  BY <1>7 DEF ProviderIdBelongs, Invoice
<1> QED  BY <1>3, <1>6, <1>8

LEMMA RequestNames ==
    ASSUME IInv, NEW r \in Requests, RequestStep(r) \/ AbortRequest(r)
    PROVE  Names'
<1> USE DEF IInv, Steps
<1>1. RowsKept
  BY RequestSteps
<1>2. UNCHANGED <<request, issued, hook, work>>
  BY DEF RequestStep, AbortRequest, CheckOrder, ReserveAmount, CommitPayment, InsertFails
<1>3. CASE payment' = payment
  BY <1>1, <1>2, <1>3, NamesFrame
<1>4. CASE CommitPayment(r)
  <2> DEFINE row == [merchant |-> request[r].merchant, order |-> request[r].order,
                     amount |-> request[r].amount, status |-> "created", ppid |-> None]
  <2>1. /\ payment' = [payment EXCEPT ![r] = row] /\ payment[r] = None
        /\ \A p \in Requests : payment[p] # None => Invoice(payment[p]) # Invoice(request[r])
    BY <1>4 DEF CommitPayment, RequestsInStep, Conflict
  <2>2. payment'[r] = row /\ \A q \in Requests \ {r} : payment'[q] = payment[q]
    BY <2>1 DEF TypeOK
  <2>3. Invoice(row) = Invoice(request[r])
    BY DEF Invoice
  <2>4. OneInvoice'
    BY <2>1, <2>2, <2>3 DEF Names, OneInvoice, Invoice
  <2>5. IdsInStep'
    <3>1. \A c \in Calls : hook[c] # None => hook[c].payment \in Requests \ {r}
      BY <2>1, HookRow DEF RowsInStep
    <3>2. \A w \in Workers : work[w] # None => work[w].payment \in Requests \ {r}
      BY <2>1 DEF RowsInStep, TypeOK, Work
    <3> QED  BY <1>2, <2>2, <3>1, <3>2 DEF Names, IdsInStep, Invoice
  <2>6. row.ppid = None /\ row.status = "created"
    OBVIOUS
  <2>7. ProviderIdBelongs'
    BY <1>2, <2>2, <2>6 DEF Names, ProviderIdBelongs, Invoice
  <2> QED  BY <2>4, <2>5, <2>7 DEF Names
<1>5. payment' = payment \/ CommitPayment(r)
  BY DEF RequestStep, AbortRequest, CheckOrder, ReserveAmount, InsertFails
<1> QED  BY <1>3, <1>4, <1>5

LEMMA CallNames ==
    ASSUME IInv, NEW c \in Calls, CallStep(c) \/ AbortCall(c)
    PROVE  Names'
<1> USE DEF IInv, Steps
<1>1. RowsKept
  BY CallSteps
<1>2. /\ UNCHANGED <<request, issued, work>>
      /\ \A d \in Calls : hook'[d] = hook[d] \/ hook'[d] = None
  BY DEF CallStep, AbortCall, EndCall, IgnoreWebhook, MarkProcessing, LockFunds, Complete, Cancel, TypeOK
<1>3. CASE payment' = payment
  BY <1>1, <1>2, <1>3, NamesFrame
<1>4. ASSUME NEW s \in {"processing", "completed", "canceled"}, hook[c] # None,
             payment' = [payment EXCEPT ![hook[c].payment] = Updated(c, s)]
      PROVE  Names'
  <2> DEFINE p == hook[c].payment
  <2>1. /\ p \in Requests /\ hook[c].id \in ProviderIds /\ payment[p] \in Row /\ payment[p] # None
        /\ issued[hook[c].id] = Invoice(payment[p])
    BY <1>4, HookRow DEF RowsInStep, Names, IdsInStep
  <2>2. payment'[p] = Updated(c, s) /\ \A q \in Requests \ {p} : payment'[q] = payment[q]
    BY <1>4, <2>1 DEF TypeOK
  <2>3. /\ Updated(c, s).status = s
        /\ Updated(c, s).ppid = IF payment[p].ppid = None THEN hook[c].id ELSE payment[p].ppid
    BY <1>4, UpdatedRow DEF Open, Final
  <2>4. /\ payment'[p].status # "created" /\ payment'[p].ppid # None
        /\ issued'[payment'[p].ppid] = Invoice(payment[p])
    BY <1>2, <2>1, <2>2, <2>3 DEF Names, ProviderIdBelongs
  <2>5. \A q \in Requests : payment'[q] # None => payment[q] # None
    BY <2>1, <2>2
  <2> QED  BY <1>1, <1>2, <2>2, <2>4, <2>5, NamesFrame
<1>5. \/ payment' = payment
      \/ /\ hook[c] # None
         /\ \E s \in {"processing", "completed", "canceled"} :
               payment' = [payment EXCEPT ![hook[c].payment] = Updated(c, s)]
  BY DEF CallStep, AbortCall, EndCall, IgnoreWebhook, MarkProcessing, LockFunds, Complete, Cancel, Settling
<1> QED  BY <1>3, <1>4, <1>5

LEMMA WebhookNames ==
    ASSUME IInv, NEW c \in Calls, NEW id \in ProviderIds, NEW s \in WebhookStatuses,
           ReceiveWebhook(c, id, s)
    PROVE  Names'
<1> USE DEF IInv, Steps
<1>1. RowsKept
  BY WebhookSteps
<1>2. UNCHANGED <<payment, request, issued, work>>
  BY DEF ReceiveWebhook
<1>3. PICK p \in Requests : /\ payment[p] # None /\ issued[id] = Invoice(payment[p])
                            /\ hook' = [hook EXCEPT ![c] = [payment |-> p, id |-> id, status |-> s]]
  BY DEF ReceiveWebhook
<1>4. hook'[c].payment = p /\ hook'[c].id = id /\ \A d \in Calls \ {c} : hook'[d] = hook[d]
  BY <1>3 DEF TypeOK
<1> QED  BY <1>1, <1>2, <1>3, <1>4, NamesFrame

LEMMA WorkerNames ==
    ASSUME IInv, NEW w \in Workers,
           \/ \E p \in Requests : TakeEvent(w, p)
           \/ WorkerStep(w)
    PROVE  Names'
<1> USE DEF IInv, Steps
<1>1. RowsKept
  BY WorkerSteps
<1>2. /\ UNCHANGED <<request, hook>>
      /\ \A v \in Workers \ {w} : work'[v] = work[v]
  BY DEF WorkerStep, TakeEvent, CallProvider, ProviderFails, RecordProcessing, TypeOK
<1>3. CASE UNCHANGED <<payment, issued>> /\ (work'[w] = None \/ work'[w].id = None)
  BY <1>1, <1>2, <1>3, NamesFrame
<1>4. ASSUME NEW id \in ProviderIds, CallProvider(w, id) PROVE Names'
  <2>1. /\ work[w] # None /\ work[w].payment \in Requests
        /\ payment[work[w].payment] # None
    BY <1>4 DEF CallProvider, TypeOK, Work, RowsInStep
  <2>2. work'[w].payment = work[w].payment /\ work'[w].id = id
    BY <1>4, <2>1 DEF CallProvider, TypeOK, Work
  <2>3. /\ issued'[id] = Invoice(payment[work[w].payment]) /\ issued[id] = None
        /\ \A i \in ProviderIds \ {id} : issued'[i] = issued[i]
    BY <1>4 DEF CallProvider, TypeOK
  <2>4. payment' = payment
    BY <1>4 DEF CallProvider
  <2> QED  BY <1>1, <1>2, <2>1, <2>2, <2>3, <2>4, NamesFrame
<1>5. CASE RecordProcessing(w)
  <2> DEFINE p == work[w].payment
  <2>1. /\ work[w] # None /\ p \in Requests /\ payment[p] \in Row /\ payment[p] # None
        /\ work[w].id \in ProviderIds /\ work'[w] = None /\ issued' = issued
        /\ issued[work[w].id] = Invoice(payment[p])
    BY <1>5 DEF RecordProcessing, TypeOK, Work, RowsInStep, Names, IdsInStep
  <2>2. payment'[p].status = "processing" /\ payment'[p].ppid = work[w].id
    BY <1>5, <2>1 DEF RecordProcessing, TypeOK, Row
  <2>3. \A q \in Requests \ {p} : payment'[q] = payment[q]
    BY <1>5 DEF RecordProcessing, TypeOK
  <2>4. \A q \in Requests : payment'[q] # None => payment[q] # None
    BY <2>1, <2>3
  <2>5. \A id \in ProviderIds : id # None
    OBVIOUS
  <2> QED  BY <1>1, <1>2, <2>1, <2>2, <2>3, <2>4, <2>5, NamesFrame
<1>6. \/ \E id \in ProviderIds : CallProvider(w, id)
      \/ RecordProcessing(w)
      \/ UNCHANGED <<payment, issued>> /\ (work'[w] = None \/ work'[w].id = None)
  BY DEF WorkerStep, TakeEvent, ProviderFails, TypeOK
<1> QED  BY <1>3, <1>4, <1>5, <1>6

-----------------------------------------------------------------------------
(* The inductive invariant. *)

LEMMA StepKeepsIInv == IInv /\ [Next]_vars => IInv' /\ (Next => RowsKept)
<1> SUFFICES ASSUME IInv, [Next]_vars PROVE IInv' /\ (Next => RowsKept)
  OBVIOUS
<1>1. ASSUME NEW r \in Requests, RequestStep(r) \/ AbortRequest(r)
      PROVE  IInv' /\ RowsKept
  BY <1>1, RequestTypes, RequestSteps, RequestNames DEF IInv
<1>2. ASSUME NEW c \in Calls, CallStep(c) \/ AbortCall(c)
      PROVE  IInv' /\ RowsKept
  BY <1>2, CallTypes, CallSteps, CallNames DEF IInv
<1>3. ASSUME NEW c \in Calls, NEW id \in ProviderIds, NEW s \in WebhookStatuses,
             ReceiveWebhook(c, id, s)
      PROVE  IInv' /\ RowsKept
  BY <1>3, WebhookTypes, WebhookSteps, WebhookNames DEF IInv
<1>4. ASSUME NEW w \in Workers, (\E p \in Requests : TakeEvent(w, p)) \/ WorkerStep(w)
      PROVE  IInv' /\ RowsKept
  BY <1>4, WorkerTypes, WorkerSteps, WorkerNames DEF IInv
<1>5. ASSUME NEW r \in Requests, NEW c \in Calls, BreakDeadlock(r, c)
      PROVE  IInv' /\ RowsKept
  BY <1>1, <1>2, <1>5 DEF BreakDeadlock
<1>6. CASE UNCHANGED vars
  <2>1. UNCHANGED <<balance, payment, issued, request, stage, hook, work, seen>>
    BY <1>6 DEF vars
  <2>2. \A t \in Txns : MerchantOf(t)' = MerchantOf(t)
    BY <2>1 DEF MerchantOf
  <2>3. TypeOK'
    BY <2>1 DEF IInv, TypeOK
  <2>4. Steps'
    BY <2>1, <2>2 DEF IInv, Steps, SeenIsCurrent, OneWriterPerPayment, RequestsInStep,
                      RowsInStep, Settling, Covered
  <2>5. Names'
    BY <2>1 DEF IInv, Names, OneInvoice, IdsInStep, ProviderIdBelongs, Invoice
  <2>6. RowsKept
    BY <2>1 DEF RowsKept
  <2> QED  BY <2>3, <2>4, <2>5, <2>6 DEF IInv
<1> QED  BY <1>1, <1>2, <1>3, <1>4, <1>5, <1>6 DEF Next

\* The invariant holds in every state of every behaviour.
THEOREM Invariance == Spec => []IInv
BY InitIInv, StepKeepsIInv, PTL DEF Spec

\* Every table and every session keeps its type: no column of a balance becomes
\* negative, no status is one the code does not know.
THEOREM TypeCorrect == Spec => []TypeOK
<1>1. IInv => TypeOK
  BY DEF IInv
<1> QED  BY <1>1, Invariance, PTL

\* FOR UPDATE on the balance makes read-compute-write sections exclusive, so the
\* absolute values the ORM writes lose no update.
THEOREM NoLostUpdate == Spec => []SeenIsCurrent
<1>1. IInv => SeenIsCurrent
  BY DEF IInv, Steps
<1> QED  BY <1>1, Invariance, PTL

\* Whatever the other transactions do between a transaction's check and its commit, what
\* it checked still holds of the tables when it writes: the status a worker or a call read
\* (webhook_service.py, run_consumer.py) and the money a request found available.
THEOREM ChecksStand == Spec => []ChecksStillHold
<1>1. IInv => ChecksStillHold
  <2> SUFFICES ASSUME IInv PROVE ChecksStillHold OBVIOUS
  <2> USE DEF IInv, Steps
  <2>1. ASSUME NEW r \in Requests, seen[r] # None
        PROVE  request[r].amount <= balance[request[r].merchant].amount
                                      - balance[request[r].merchant].reserved
    <3>1. seen[r] = balance[request[r].merchant]
      BY <2>1 DEF SeenIsCurrent, MerchantOf, Txns
    <3> QED  BY <2>1, <3>1 DEF RequestsInStep
  <2>2. ASSUME NEW c \in Calls, seen[c] # None PROVE payment[hook[c].payment].status \in Open
    BY <2>2 DEF RowsInStep, Settling
  <2>3. ASSUME NEW w \in Workers, work[w] # None
        PROVE  /\ payment[work[w].payment].status = "created"
               /\ payment[work[w].payment].ppid = None
    <3>1. work[w].payment \in Requests
      BY <2>3 DEF TypeOK, Work
    <3> QED  BY <2>3, <3>1 DEF RowsInStep, Names, ProviderIdBelongs
  <2> QED  BY <2>1, <2>2, <2>3 DEF ChecksStillHold
<1> QED  BY <1>1, Invariance, PTL

\* The unique invoice makes up for the missing constraint on the order.
THEOREM OrderPaidOnce == Spec => []OnePaymentPerOrder
<1>1. IInv => OnePaymentPerOrder
  BY DEF IInv, Names, OneInvoice, OnePaymentPerOrder, Invoice
<1> QED  BY <1>1, Invariance, PTL

\* A payment's provider id was issued for it.
THEOREM IdsBelong == Spec => []ProviderIdBelongs
<1>1. IInv => ProviderIdBelongs
  BY DEF IInv, Names
<1> QED  BY <1>1, Invariance, PTL

-----------------------------------------------------------------------------
(* Refinement of Ledger: a commit that writes a balance is a step of the     *)
(* ledger, every other step leaves both tables as the ledger sees them.      *)

\* What the ledger sees of a payment row.
EntryOf(row) ==
    [merchant |-> row.merchant, invoice |-> Invoice(row),
     amount |-> row.amount, state |-> LedgerState[row.status]]

LEMMA EntriesAt ==
    /\ DOMAIN Entries = Requests
    /\ \A p \in Requests :
          Entries[p] = IF payment[p] = None THEN None ELSE EntryOf(payment[p])
BY DEF Entries, EntryOf

LEMMA EntryIsSome ==
    ASSUME NEW row \in Row
    PROVE  EntryOf(row) \in L!Entry /\ EntryOf(row) # None
<1>1. row.merchant \in Merchants /\ row.amount \in Amounts /\ Invoice(row) \in Invoices
  BY DEF Row, Invoice, Invoices
<1>2. LedgerState[row.status] \in {"open", "captured", "released"}
  BY DEF Row, LedgerState, Open, Final
<1> QED  BY <1>1, <1>2 DEF EntryOf, L!Entry

\* Changing one row changes one entry.
LEMMA EntriesChange ==
    ASSUME NEW p \in Requests, payment \in [Requests -> Row \cup {None}],
           \A q \in Requests \ {p} : payment'[q] = payment[q], payment'[p] # None
    PROVE  Entries' = [Entries EXCEPT ![p] = EntryOf(payment'[p])]
<1>1. ASSUME NEW q \in Requests
      PROVE  Entries'[q] = IF q = p THEN EntryOf(payment'[p]) ELSE Entries[q]
  BY DEF Entries, EntryOf, Invoice
<1>2. DOMAIN Entries' = Requests /\ DOMAIN Entries = Requests
  BY DEF Entries
<1>3. Entries' = [q \in Requests |-> IF q = p THEN EntryOf(payment'[p]) ELSE Entries[q]]
  BY <1>1, <1>2 DEF Entries
<1> QED  BY <1>2, <1>3 DEF Entries

LEMMA LedgerInit == Init => L!Init
BY DEF Init, L!Init, Entries

LEMMA CommitReserves ==
    ASSUME IInv, NEW r \in Requests, CommitPayment(r)
    PROVE  L!Reserve(r, request[r].merchant, Invoice(request[r]), request[r].amount)
<1> USE DEF IInv, Steps
<1> DEFINE m == request[r].merchant
           a == request[r].amount
           row == [merchant |-> m, order |-> request[r].order,
                   amount |-> a, status |-> "created", ppid |-> None]
<1>1. /\ m \in Merchants /\ a \in Nat /\ balance[m] \in Funds /\ row \in Row
      /\ payment \in [Requests -> Row \cup {None}]
  BY DEF TypeOK, Body, Row, Open
<1>2. /\ payment[r] = None /\ seen[r] = balance[m]
      /\ a <= balance[m].amount - balance[m].reserved
      /\ balance' = [balance EXCEPT ![m].reserved = balance[m].reserved + a]
  BY DEF CommitPayment, RequestsInStep, SeenIsCurrent, MerchantOf, Txns
<1>3. /\ payment'[r] = row /\ \A q \in Requests \ {r} : payment'[q] = payment[q]
  BY <1>1 DEF CommitPayment
<1>4. EntryOf(row) = [merchant |-> m, invoice |-> Invoice(request[r]),
                      amount |-> a, state |-> "open"]
  BY DEF EntryOf, Invoice, LedgerState
<1>5. Entries' = [Entries EXCEPT ![r] = EntryOf(row)]
  BY <1>1, <1>3, EntriesChange
<1>6. ASSUME NEW q \in Requests, Entries[q] # None
      PROVE  Entries[q].invoice # Invoice(request[r])
  <2>1. payment[q] # None /\ Entries[q] = EntryOf(payment[q])
    BY <1>6, EntriesAt
  <2> QED  BY <2>1 DEF CommitPayment, Conflict, EntryOf
<1>7. Entries[r] = None
  BY <1>2, EntriesAt
<1> QED  BY <1>2, <1>4, <1>5, <1>6, <1>7 DEF L!Reserve, L!Available

LEMMA SettledEntry ==
    ASSUME IInv, NEW c \in Calls, Settling(c), NEW s \in Final,
           payment' = [payment EXCEPT ![hook[c].payment] = Updated(c, s)]
    PROVE  LET p == hook[c].payment
           IN  /\ Entries[p] # None /\ Entries[p].state = "open"
               /\ Entries[p].merchant = MerchantOf(c)
               /\ Entries[p].amount = payment[p].amount
               /\ Entries' = [Entries EXCEPT ![p].state = LedgerState[s]]
<1> USE DEF IInv, Steps
<1> DEFINE p == hook[c].payment
<1>1. /\ hook[c] # None /\ p \in Requests /\ payment[p] \in Row /\ payment[p] # None
      /\ payment[p].status \in Open /\ MerchantOf(c) = payment[p].merchant
      /\ payment \in [Requests -> Row \cup {None}]
  BY HookRow DEF Settling, RowsInStep, TypeOK
<1>2. Entries[p] = EntryOf(payment[p]) /\ Entries[p] # None
  BY <1>1, EntriesAt, EntryIsSome
<1>3. payment'[p] = Updated(c, s) /\ \A q \in Requests \ {p} : payment'[q] = payment[q]
  BY <1>1
<1>4. /\ Updated(c, s) \in Row /\ Updated(c, s) # None
      /\ EntryOf(Updated(c, s)) = [EntryOf(payment[p]) EXCEPT !.state = LedgerState[s]]
  BY <1>1, UpdatedRow DEF EntryOf
<1>5. Entries' = [Entries EXCEPT ![p] = EntryOf(Updated(c, s))]
  BY <1>1, <1>3, <1>4, EntriesChange
<1>6. Entries' = [Entries EXCEPT ![p].state = LedgerState[s]]
  BY <1>2, <1>4, <1>5
<1> QED  BY <1>1, <1>2, <1>6 DEF EntryOf, LedgerState, Open

LEMMA CompleteCaptures ==
    ASSUME IInv, NEW c \in Calls, Complete(c)
    PROVE  L!Capture(hook[c].payment)
<1> DEFINE p == hook[c].payment
           m == MerchantOf(c)
           a == payment[p].amount
<1>1. /\ Settling(c) /\ seen[c] = balance[m]
      /\ payment' = [payment EXCEPT ![p] = Updated(c, "completed")]
      /\ balance' = [balance EXCEPT ![m] = [amount   |-> seen[c].amount - a,
                                            reserved |-> seen[c].reserved - a]]
  BY DEF Complete, IInv, Steps, SeenIsCurrent, Txns
<1>2. /\ Entries[p] # None /\ Entries[p].state = "open"
      /\ Entries[p].merchant = m /\ Entries[p].amount = a
      /\ Entries' = [Entries EXCEPT ![p].state = LedgerState["completed"]]
  BY <1>1, SettledEntry DEF Final
<1>3. LedgerState["completed"] = "captured"
  BY DEF LedgerState
<1> QED  BY <1>1, <1>2, <1>3 DEF L!Capture

LEMMA CancelReleases ==
    ASSUME IInv, NEW c \in Calls, Cancel(c)
    PROVE  L!Release(hook[c].payment)
<1> DEFINE p == hook[c].payment
           m == MerchantOf(c)
           a == payment[p].amount
<1>1. /\ Settling(c) /\ seen[c] = balance[m]
      /\ payment' = [payment EXCEPT ![p] = Updated(c, "canceled")]
      /\ balance' = [balance EXCEPT ![m].reserved = seen[c].reserved - a]
  BY DEF Cancel, IInv, Steps, SeenIsCurrent, Txns
<1>2. /\ Entries[p] # None /\ Entries[p].state = "open"
      /\ Entries[p].merchant = m /\ Entries[p].amount = a
      /\ Entries' = [Entries EXCEPT ![p].state = LedgerState["canceled"]]
  BY <1>1, SettledEntry DEF Final
<1>3. LedgerState["canceled"] = "released"
  BY DEF LedgerState
<1> QED  BY <1>1, <1>2, <1>3 DEF L!Release

\* A step that leaves the balances alone and moves a row only between the open
\* statuses is invisible to the ledger.
LEMMA OpenRowStutters ==
    ASSUME IInv, NEW p \in Requests, payment[p] # None, payment[p].status \in Open,
           NEW id \in ProviderIds,
           payment' = [payment EXCEPT ![p] =
                                  [payment[p] EXCEPT !.status = "processing", !.ppid = id]]
    PROVE  Entries' = Entries
<1>1. payment \in [Requests -> Row \cup {None}] /\ payment[p] \in Row
  BY DEF IInv, TypeOK
<1>2. payment'[p] = [payment[p] EXCEPT !.status = "processing", !.ppid = id]
  BY <1>1
<1>3. \A q \in Requests \ {p} : payment'[q] = payment[q]
  BY <1>1
<1>4. /\ payment'[p].merchant = payment[p].merchant /\ payment'[p].order = payment[p].order
      /\ payment'[p].amount = payment[p].amount /\ payment'[p].status = "processing"
  BY <1>1, <1>2 DEF Row
<1>5. EntryOf(payment'[p]) = EntryOf(payment[p])
  BY <1>4 DEF EntryOf, Invoice, LedgerState, Open
<1>6. payment'[p] \in Row
  BY <1>1, <1>2 DEF Row, Open
<1>7. Entries' = [Entries EXCEPT ![p] = EntryOf(payment[p])]
  BY <1>1, <1>3, <1>5, <1>6, EntriesChange
<1>8. DOMAIN Entries = Requests /\ Entries[p] = EntryOf(payment[p])
  BY EntriesAt
<1>9. Entries = [q \in Requests |-> Entries[q]]
  BY DEF Entries
<1> QED  BY <1>7, <1>8, <1>9

LEMMA StepRefines == IInv /\ [Next]_vars => [L!Next]_(L!vars)
<1> SUFFICES ASSUME IInv, [Next]_vars PROVE [L!Next]_(L!vars)
  OBVIOUS
<1> USE DEF IInv, Steps
<1>1. ASSUME UNCHANGED <<balance, payment>> PROVE UNCHANGED (L!vars)
  BY <1>1 DEF L!vars, Entries, Invoice
<1>2. ASSUME NEW r \in Requests, CommitPayment(r) PROVE L!Next
  <2>1. /\ request[r].merchant \in Merchants /\ request[r].amount \in Amounts
        /\ Invoice(request[r]) \in Invoices
    BY DEF TypeOK, Body, Invoice, Invoices
  <2> QED  BY <1>2, <2>1, CommitReserves DEF L!Next
<1>3. ASSUME NEW c \in Calls, Complete(c) \/ Cancel(c) PROVE L!Next
  <2>1. hook[c].payment \in Requests
    BY <1>3, HookRow DEF Complete, Cancel, Settling
  <2> QED  BY <1>3, <2>1, CompleteCaptures, CancelReleases DEF L!Next
<1>4. ASSUME NEW c \in Calls, MarkProcessing(c) PROVE UNCHANGED (L!vars)
  <2>1. /\ hook[c].payment \in Requests /\ payment[hook[c].payment] # None
        /\ payment[hook[c].payment].status \in Open /\ balance' = balance
    BY <1>4, HookRow DEF MarkProcessing, RowsInStep
  <2>2. PICK id \in ProviderIds : Updated(c, "processing") =
                    [payment[hook[c].payment] EXCEPT !.status = "processing", !.ppid = id]
    <3>1. hook[c].id \in ProviderIds /\ payment[hook[c].payment] \in Row
      BY <1>4, HookRow DEF MarkProcessing
    <3> QED  BY <3>1 DEF Updated, Row
  <2>3. payment' = [payment EXCEPT ![hook[c].payment] =
                       [payment[hook[c].payment] EXCEPT !.status = "processing", !.ppid = id]]
    BY <1>4, <2>2 DEF MarkProcessing
  <2>4. Entries' = Entries
    BY <2>1, <2>3, OpenRowStutters
  <2> QED  BY <2>1, <2>4 DEF L!vars
<1>5. ASSUME NEW w \in Workers, RecordProcessing(w) PROVE UNCHANGED (L!vars)
  <2>1. /\ work[w].payment \in Requests /\ payment[work[w].payment] # None
        /\ payment[work[w].payment].status \in Open /\ balance' = balance
        /\ work[w].id \in ProviderIds
    BY <1>5 DEF RecordProcessing, RowsInStep, TypeOK, Work, Open
  <2>2. payment' = [payment EXCEPT ![work[w].payment] =
                       [payment[work[w].payment] EXCEPT !.status = "processing",
                                                        !.ppid = work[w].id]]
    BY <1>5 DEF RecordProcessing
  <2>3. Entries' = Entries
    BY <2>1, <2>2, OpenRowStutters
  <2> QED  BY <2>1, <2>3 DEF L!vars
<1>6. \/ UNCHANGED <<balance, payment>>
      \/ \E r \in Requests : CommitPayment(r)
      \/ \E c \in Calls : Complete(c) \/ Cancel(c) \/ MarkProcessing(c)
      \/ \E w \in Workers : RecordProcessing(w)
  <2>1. ASSUME NEW r \in Requests, RequestStep(r) \/ AbortRequest(r)
        PROVE  CommitPayment(r) \/ UNCHANGED <<balance, payment>>
    BY <2>1 DEF RequestStep, AbortRequest, CheckOrder, ReserveAmount, InsertFails
  <2>2. ASSUME NEW c \in Calls, CallStep(c) \/ AbortCall(c)
        PROVE  Complete(c) \/ Cancel(c) \/ MarkProcessing(c) \/ UNCHANGED <<balance, payment>>
    BY <2>2 DEF CallStep, AbortCall, IgnoreWebhook, LockFunds, EndCall
  <2>3. ASSUME NEW c \in Calls, NEW id \in ProviderIds, NEW s \in WebhookStatuses,
               ReceiveWebhook(c, id, s)
        PROVE  UNCHANGED <<balance, payment>>
    BY <2>3 DEF ReceiveWebhook
  <2>4. ASSUME NEW w \in Workers, (\E p \in Requests : TakeEvent(w, p)) \/ WorkerStep(w)
        PROVE  RecordProcessing(w) \/ UNCHANGED <<balance, payment>>
    BY <2>4 DEF TakeEvent, WorkerStep, CallProvider, ProviderFails
  <2>5. ASSUME NEW r \in Requests, NEW c \in Calls, BreakDeadlock(r, c)
        PROVE  UNCHANGED <<balance, payment>>
    BY <2>5 DEF BreakDeadlock, AbortRequest, AbortCall, EndCall
  <2>6. CASE UNCHANGED vars
    BY <2>6 DEF vars
  <2> QED  BY <2>1, <2>2, <2>3, <2>4, <2>5, <2>6 DEF Next
<1> QED  BY <1>1, <1>2, <1>3, <1>4, <1>5, <1>6

\* However the transactions interleave and wherever they abort, the balance and
\* payment tables only take the atomic steps of the ledger.
THEOREM Refinement == Spec => RefinesLedger
<1>1. Spec => L!Init /\ [][L!Next]_(L!vars)
  BY LedgerInit, StepRefines, Invariance, PTL DEF Spec
<1> QED  BY <1>1 DEF RefinesLedger, L!Spec

-----------------------------------------------------------------------------
(* Refinement of PaymentLife: to a payment row, a transaction is the step of *)
(* its commit; only the worker's lock is seen before.                        *)

\* Every id the provider has issued is for the invoice of a payment there is, so a
\* new payment, whose invoice nobody has, starts without any.
IssuedForRows ==
    \A id \in ProviderIds : issued[id] # None =>
        \E p \in Requests : payment[p] # None /\ Invoice(payment[p]) = issued[id]

LEMMA IssuedStep == IInv /\ IssuedForRows /\ [Next]_vars => IssuedForRows'
<1> SUFFICES ASSUME IInv, IssuedForRows, [Next]_vars PROVE IssuedForRows'
  OBVIOUS
<1>1. CASE UNCHANGED vars
  BY <1>1 DEF vars, IssuedForRows, Invoice
<1>2. ASSUME Next PROVE IssuedForRows'
  <2>1. RowsKept
    BY <1>2, StepKeepsIInv
  <2>2. \A p \in Requests : payment[p] # None =>
            payment'[p] # None /\ Invoice(payment'[p]) = Invoice(payment[p])
    BY <2>1 DEF RowsKept, Invoice
  <2>3. ASSUME issued' = issued PROVE IssuedForRows'
    BY <2>2, <2>3 DEF IssuedForRows, Invoice
  <2>4. ASSUME NEW w \in Workers, NEW id \in ProviderIds, CallProvider(w, id)
        PROVE  IssuedForRows'
    <3>1. /\ work[w] # None /\ work[w].payment \in Requests
          /\ payment[work[w].payment] # None
      BY <2>4 DEF CallProvider, IInv, Steps, TypeOK, Work, RowsInStep
    <3>2. /\ issued'[id] = Invoice(payment[work[w].payment])
          /\ \A i \in ProviderIds \ {id} : issued'[i] = issued[i]
      BY <2>4 DEF CallProvider, IInv, TypeOK
    <3> QED  BY <2>2, <3>1, <3>2 DEF IssuedForRows, Invoice
  <2>5. (\A w \in Workers, id \in ProviderIds : ~ CallProvider(w, id)) => issued' = issued
    BY <1>2 DEF Next, RequestStep, CheckOrder, ReserveAmount, CommitPayment, InsertFails,
                AbortRequest, ReceiveWebhook, CallStep, IgnoreWebhook, MarkProcessing,
                LockFunds, Complete, Cancel, EndCall, AbortCall, TakeEvent, WorkerStep,
                ProviderFails, RecordProcessing, BreakDeadlock
  <2> QED  BY <2>3, <2>4, <2>5
<1> QED  BY <1>1, <1>2

\* What the life of a payment sees of the transactions.
Pays == [p \in Requests |-> StatusOf(p)]
Helds == [p \in Requests |-> HeldAs(p)]
Askeds == [p \in Requests |-> IdsOf(p)]

\* What a worker that works on a row has come to.
Come(x) == IF x = None THEN "free" ELSE IF x.id # None THEN "asked" ELSE "locked"

\* A worker's step shows on the row it works on only.
LEMMA WorkerShows ==
    ASSUME NEW w \in Workers, NEW p \in Requests,
           \A v \in Workers \ {w} : work'[v] = work[v],
           \A v \in Workers \ {w} : work[v] # None => work[v].payment # p,
           work[w] # None => work[w].payment = p,
           work'[w] # None => work'[w].payment = p
    PROVE  /\ HeldAs(p) = Come(work[w])
           /\ HeldAs(p)' = Come(work'[w])
           /\ \A q \in Requests \ {p} : HeldAs(q)' = HeldAs(q)
BY DEF HeldAs, Come

\* As long as no id is issued, the ids of a payment stay what they are.
LEMMA IdsStay ==
    ASSUME RowsKept, issued' = issued, NEW p \in Requests, payment[p] # None
    PROVE  IdsOf(p)' = IdsOf(p)
BY DEF RowsKept, IdsOf, Invoice

\* A step that shows on row p only changes the three functions at p only.
LEMMA OneRowMoves ==
    ASSUME NEW p \in Requests,
           \A q \in Requests \ {p} : /\ StatusOf(q)' = StatusOf(q)
                                     /\ HeldAs(q)' = HeldAs(q)
                                     /\ IdsOf(q)' = IdsOf(q)
    PROVE  /\ Pays' = [Pays EXCEPT ![p] = StatusOf(p)']
           /\ Helds' = [Helds EXCEPT ![p] = HeldAs(p)']
           /\ Askeds' = [Askeds EXCEPT ![p] = IdsOf(p)']
BY DEF Pays, Helds, Askeds

LEMMA RowsStay ==
    ASSUME \A q \in Requests : /\ StatusOf(q)' = StatusOf(q)
                               /\ HeldAs(q)' = HeldAs(q)
                               /\ IdsOf(q)' = IdsOf(q)
    PROVE  UNCHANGED Life!vars
BY DEF Life!vars

\* A step that neither changes the payments, nor the ids, nor what workers hold.
LEMMA NothingShows == ASSUME UNCHANGED <<payment, issued, work>> PROVE UNCHANGED Life!vars
BY DEF Life!vars, StatusOf, HeldAs, IdsOf, Invoice

LEMMA LifeInit == Init => Life!Init /\ IssuedForRows
BY DEF Init, Life!Init, StatusOf, HeldAs, IdsOf, IssuedForRows

LEMMA CommitCreates ==
    ASSUME IInv, IssuedForRows, RowsKept, NEW r \in Requests, CommitPayment(r)
    PROVE  Life!Create(r)
<1> USE DEF IInv, Steps
<1> DEFINE row == [merchant |-> request[r].merchant, order |-> request[r].order,
                   amount |-> request[r].amount, status |-> "created", ppid |-> None]
<1>1. /\ payment' = [payment EXCEPT ![r] = row] /\ payment[r] = None
      /\ UNCHANGED <<issued, work>>
      /\ \A p \in Requests : payment[p] # None => Invoice(payment[p]) # Invoice(request[r])
  BY DEF CommitPayment, RequestsInStep, Conflict
<1>2. /\ payment'[r] = row /\ \A q \in Requests \ {r} : payment'[q] = payment[q]
  BY <1>1 DEF TypeOK
<1>3. row # None
  BY DEF TypeOK, Body, Row, Open
<1>4. \A id \in ProviderIds : issued[id] # Invoice(request[r])
  <2>1. Invoice(request[r]) # None
    BY DEF TypeOK, Body, Invoice, Invoices
  <2> QED  BY <1>1, <2>1 DEF IssuedForRows
<1>5. StatusOf(r) = "none" /\ StatusOf(r)' = "created"
  BY <1>1, <1>2, <1>3 DEF StatusOf
<1>6. IdsOf(r) = {} /\ IdsOf(r)' = {}
  BY <1>1, <1>2, <1>3, <1>4 DEF IdsOf, Invoice
<1>7. \A q \in Requests : HeldAs(q)' = HeldAs(q)
  BY <1>1 DEF HeldAs
<1>8. \A q \in Requests \ {r} : StatusOf(q)' = StatusOf(q) /\ IdsOf(q)' = IdsOf(q)
  BY <1>1, <1>2 DEF StatusOf, IdsOf, Invoice
<1>9. /\ Pays' = [Pays EXCEPT ![r] = "created"] /\ Pays[r] = "none"
      /\ Helds' = Helds /\ Askeds' = Askeds
  BY <1>5, <1>6, <1>7, <1>8, OneRowMoves DEF Pays, Helds, Askeds
<1> QED  BY <1>9 DEF Life!Create, Pays, Helds, Askeds

\* A worker's step that issues no id and leaves the statuses alone but for its own
\* row's shows there, as what it has come to.
LEMMA WorkerMoves ==
    ASSUME IInv, RowsKept, NEW w \in Workers, NEW p \in Requests, payment[p] # None,
           \A v \in Workers \ {w} : work'[v] = work[v] /\ (work[v] # None => work[v].payment # p),
           work[w] # None => work[w].payment = p,
           work'[w] # None => work'[w].payment = p,
           \A q \in Requests \ {p} : payment'[q] = payment[q],
           \A q \in Requests \ {p} : IdsOf(q)' = IdsOf(q)
    PROVE  /\ Helds[p] = Come(work[w])
           /\ Helds' = [Helds EXCEPT ![p] = Come(work'[w])]
           /\ Pays' = [Pays EXCEPT ![p] = StatusOf(p)']
           /\ Askeds' = [Askeds EXCEPT ![p] = IdsOf(p)']
<1>1. /\ HeldAs(p) = Come(work[w]) /\ HeldAs(p)' = Come(work'[w])
      /\ \A q \in Requests \ {p} : HeldAs(q)' = HeldAs(q)
  BY WorkerShows
<1>2. \A q \in Requests \ {p} : StatusOf(q)' = StatusOf(q)
  BY DEF StatusOf
<1> QED  BY <1>1, <1>2, OneRowMoves DEF Helds

LEMMA TakeLocks ==
    ASSUME IInv, RowsKept, NEW w \in Workers, NEW p \in Requests, TakeEvent(w, p)
    PROVE  Life!Lock(p)
<1> USE DEF IInv, Steps
<1>1. /\ work[w] = None /\ payment[p] # None /\ payment[p].status = "created"
      /\ work'[w] = [payment |-> p, id |-> None]
      /\ \A v \in Workers \ {w} : work'[v] = work[v] /\ (work[v] # None => work[v].payment # p)
      /\ UNCHANGED <<payment, issued>>
  BY DEF TakeEvent, PaymentFree, TypeOK
<1>2. work'[w].payment = p /\ Come(work'[w]) = "locked" /\ Come(work[w]) = "free"
  <2>1. [payment |-> p, id |-> None] # None
    BY DEF Work
  <2> QED  BY <1>1, <2>1 DEF Come
<1>3. \A q \in Requests : IdsOf(q)' = IdsOf(q) /\ StatusOf(q)' = StatusOf(q)
  BY <1>1 DEF IdsOf, StatusOf, Invoice
<1>4. /\ Helds[p] = "free" /\ Helds' = [Helds EXCEPT ![p] = "locked"]
  BY <1>1, <1>2, <1>3, WorkerMoves
<1>5. Pays' = Pays /\ Askeds' = Askeds /\ Pays[p] = "created"
  BY <1>1, <1>3 DEF Pays, Askeds, StatusOf
<1> QED  BY <1>4, <1>5 DEF Life!Lock, Pays, Helds, Askeds

\* The row a worker holds, and that nobody else holds it.
LEMMA WorkRow ==
    ASSUME IInv, NEW w \in Workers, work[w] # None
    PROVE  /\ work[w] \in Work /\ work[w].payment \in Requests
           /\ payment[work[w].payment] \in Row /\ payment[work[w].payment] # None
           /\ payment[work[w].payment].status = "created"
           /\ \A v \in Workers \ {w} : work[v] # None => work[v].payment # work[w].payment
BY DEF IInv, Steps, TypeOK, Work, RowsInStep, OneWriterPerPayment

LEMMA CallAsks ==
    ASSUME IInv, RowsKept, NEW w \in Workers, NEW id \in ProviderIds, CallProvider(w, id),
           NEW p \in Requests, work[w].payment = p
    PROVE  Life!Ask(p)
<1> USE DEF IInv, Steps
<1>1. /\ work[w] # None /\ work[w].id = None /\ issued[id] = None
      /\ work'[w] = [work[w] EXCEPT !.id = id]
      /\ \A v \in Workers \ {w} : work'[v] = work[v]
      /\ issued'[id] = Invoice(payment[p])
      /\ \A i \in ProviderIds \ {id} : issued'[i] = issued[i]
      /\ UNCHANGED payment
  BY DEF CallProvider, TypeOK
<1>2. /\ work[w] \in Work /\ p \in Requests /\ payment[p] # None /\ payment[p] \in Row
      /\ \A v \in Workers \ {w} : work[v] # None => work[v].payment # p
  BY <1>1, WorkRow
<1>3. work'[w].payment = p /\ Come(work'[w]) = "asked" /\ Come(work[w]) = "locked"
  <2>1. work'[w] \in Work /\ work'[w].id = id /\ work'[w].payment = p
    BY <1>1, <1>2 DEF Work
  <2>2. work'[w] # None /\ id # None
    BY <2>1
  <2> QED  BY <1>1, <2>1, <2>2 DEF Come
<1>4. \A q \in Requests : payment[q] # None => Invoice(payment[q]) # None
  BY DEF TypeOK, Row, Invoice, Invoices
<1>5. IdsOf(p)' = IdsOf(p) \cup {id}
  BY <1>1, <1>2 DEF IdsOf, Invoice
<1>6. \A q \in Requests \ {p} : payment[q] # None => Invoice(payment[q]) # Invoice(payment[p])
  BY <1>2 DEF Names, OneInvoice
<1>7. \A q \in Requests \ {p} : IdsOf(q)' = IdsOf(q)
  <2> TAKE q \in Requests \ {p}
  <2>1. payment'[q] = payment[q] /\ Invoice(payment'[q]) = Invoice(payment[q])
    BY <1>1
  <2>2. ASSUME NEW i \in ProviderIds, payment[q] # None
        PROVE  issued'[i] = Invoice(payment[q]) <=> issued[i] = Invoice(payment[q])
    BY <1>1, <1>4, <1>6, <2>2
  <2> QED  BY <2>1, <2>2 DEF IdsOf, Invoice
<1>8. \A q \in Requests : id \notin IdsOf(q)
  BY <1>1, <1>4 DEF IdsOf
<1>9. /\ Helds[p] = "locked" /\ Helds' = [Helds EXCEPT ![p] = "asked"]
      /\ Askeds' = [Askeds EXCEPT ![p] = IdsOf(p)']
  <2>1. /\ \A v \in Workers \ {w} : work'[v] = work[v] /\ (work[v] # None => work[v].payment # p)
        /\ \A q \in Requests \ {p} : payment'[q] = payment[q]
    BY <1>1, <1>2
  <2>2. /\ Helds[p] = Come(work[w])
        /\ Helds' = [Helds EXCEPT ![p] = Come(work'[w])]
        /\ Askeds' = [Askeds EXCEPT ![p] = IdsOf(p)']
    BY <1>2, <1>3, <1>7, <2>1, WorkerMoves
  <2> QED  BY <1>3, <2>2
<1>10. Pays' = Pays
  BY <1>1 DEF Pays, StatusOf
<1>11. \A q \in Requests : id \notin Askeds[q]
  BY <1>8 DEF Askeds
<1>12. Askeds' = [Askeds EXCEPT ![p] = @ \cup {id}]
  BY <1>2, <1>5, <1>9 DEF Askeds
<1> QED  BY <1>9, <1>10, <1>11, <1>12 DEF Life!Ask, Pays, Helds, Askeds

LEMMA RecordRecords ==
    ASSUME IInv, RowsKept, NEW w \in Workers, RecordProcessing(w),
           NEW p \in Requests, work[w].payment = p
    PROVE  Life!Record(p)
<1> USE DEF IInv, Steps
<1>1. /\ work[w] # None /\ work[w].id # None /\ work'[w] = None
      /\ \A v \in Workers \ {w} : work'[v] = work[v]
      /\ UNCHANGED issued
  BY DEF RecordProcessing, TypeOK
<1>2. /\ p \in Requests /\ payment[p] # None /\ payment[p] \in Row
      /\ \A v \in Workers \ {w} : work[v] # None => work[v].payment # p
  BY <1>1, WorkRow
<1>3. /\ payment'[p].status = "processing"
      /\ \A q \in Requests \ {p} : payment'[q] = payment[q]
  BY <1>2 DEF RecordProcessing, TypeOK, Row
<1>4. StatusOf(p)' = "processing" /\ Come(work'[w]) = "free" /\ Come(work[w]) = "asked"
  BY <1>1, <1>2, <1>3 DEF StatusOf, Come, RowsKept
<1>5. \A q \in Requests : IdsOf(q)' = IdsOf(q)
  BY <1>1, <1>2, <1>3, IdsStay DEF IdsOf
<1>6. /\ Helds[p] = "asked" /\ Helds' = [Helds EXCEPT ![p] = "free"]
      /\ Pays' = [Pays EXCEPT ![p] = "processing"]
  BY <1>1, <1>2, <1>3, <1>4, <1>5, WorkerMoves
<1>7. Askeds' = Askeds
  BY <1>5 DEF Askeds
<1> QED  BY <1>6, <1>7 DEF Life!Record, Pays, Helds, Askeds

LEMMA FailureReleases ==
    ASSUME IInv, RowsKept, NEW w \in Workers, ProviderFails(w),
           NEW p \in Requests, work[w].payment = p
    PROVE  Life!Release(p)
<1> USE DEF IInv, Steps
<1>1. /\ work[w] # None /\ work'[w] = None
      /\ \A v \in Workers \ {w} : work'[v] = work[v]
      /\ UNCHANGED <<payment, issued>>
  BY DEF ProviderFails, TypeOK
<1>2. /\ p \in Requests /\ payment[p] # None
      /\ \A v \in Workers \ {w} : work[v] # None => work[v].payment # p
  BY <1>1, WorkRow
<1>3. \A q \in Requests : IdsOf(q)' = IdsOf(q) /\ StatusOf(q)' = StatusOf(q)
  BY <1>1 DEF IdsOf, StatusOf, Invoice
<1>4. Come(work'[w]) = "free" /\ Come(work[w]) # "free"
  BY <1>1 DEF Come
<1>5. /\ Helds[p] # "free" /\ Helds' = [Helds EXCEPT ![p] = "free"]
  BY <1>1, <1>2, <1>3, <1>4, WorkerMoves
<1>6. Pays' = Pays /\ Askeds' = Askeds
  BY <1>3 DEF Pays, Askeds
<1> QED  BY <1>5, <1>6 DEF Life!Release, Pays, Helds, Askeds

\* A call that moves its payment answers for it: it holds the row, so no worker
\* does, and the id it came with is one of the payment's.
LEMMA CallAnswers ==
    ASSUME IInv, RowsKept, NEW c \in Calls, hook[c] # None,
           NEW p \in Requests, hook[c].payment = p,
           payment[p].status \in Open, UNCHANGED <<issued, work>>,
           NEW s \in {"processing"} \cup Final,
           payment' = [payment EXCEPT ![p] = Updated(c, s)]
    PROVE  Life!Answer(p, s)
<1> USE DEF IInv, Steps
<1>1. /\ p \in Requests /\ payment[p] \in Row /\ payment[p] # None
      /\ hook[c].id \in ProviderIds
  BY HookRow DEF RowsInStep
<1>2. payment'[p] = Updated(c, s) /\ \A q \in Requests \ {p} : payment'[q] = payment[q]
  BY <1>1 DEF TypeOK
<1>3. StatusOf(p)' = s
  <2>1. s \in Open \cup Final
    BY DEF Open
  <2>2. Updated(c, s).status = s
    BY <2>1, UpdatedRow
  <2>3. payment'[p] # None
    BY <1>1 DEF RowsKept
  <2> QED  BY <1>2, <2>2, <2>3 DEF StatusOf
<1>4. HeldAs(p) = "free"
  BY DEF OneWriterPerPayment, HeldAs
<1>5. hook[c].id \in IdsOf(p)
  BY <1>1 DEF Names, IdsInStep, IdsOf
<1>6. \A q \in Requests : IdsOf(q)' = IdsOf(q) /\ HeldAs(q)' = HeldAs(q)
  BY <1>1, <1>2, IdsStay DEF IdsOf, HeldAs
<1>7. \A q \in Requests \ {p} : StatusOf(q)' = StatusOf(q)
  BY <1>2 DEF StatusOf
<1>8. Pays' = [Pays EXCEPT ![p] = s]
  BY <1>1, <1>3, <1>6, <1>7, OneRowMoves
<1>9. Helds' = Helds /\ Askeds' = Askeds
  BY <1>6 DEF Helds, Askeds
<1>10. Pays[p] \in {"created", "processing"} /\ Helds[p] = "free" /\ Askeds[p] # {}
  BY <1>1, <1>4, <1>5 DEF Pays, Helds, Askeds, StatusOf, Open
<1> QED  BY <1>8, <1>9, <1>10 DEF Life!Answer, Life!Open, Pays, Helds, Askeds

LEMMA StepLives == IInv /\ IssuedForRows /\ [Next]_vars => [Life!Next]_(Life!vars)
<1> SUFFICES ASSUME IInv, IssuedForRows, [Next]_vars PROVE [Life!Next]_(Life!vars)
  OBVIOUS
<1>1. CASE UNCHANGED vars
  BY <1>1, NothingShows DEF vars
<1>2. ASSUME Next PROVE [Life!Next]_(Life!vars)
  <2>0. RowsKept
    BY <1>2, StepKeepsIInv
  <2>1. ASSUME NEW r \in Requests, CommitPayment(r) PROVE Life!Next
    BY <2>0, <2>1, CommitCreates DEF Life!Next
  <2>2. ASSUME NEW w \in Workers, NEW p \in Requests, TakeEvent(w, p) PROVE Life!Next
    BY <2>0, <2>2, TakeLocks DEF Life!Next
  <2>3. ASSUME NEW w \in Workers, WorkerStep(w) PROVE Life!Next
    <3>1. work[w] # None
      BY <2>3 DEF WorkerStep, CallProvider, ProviderFails, RecordProcessing
    <3>2. PICK p \in Requests : work[w].payment = p
      BY <3>1, WorkRow
    <3>3. Life!Ask(p) \/ Life!Record(p) \/ Life!Release(p)
      BY <2>0, <2>3, <3>2, CallAsks, RecordRecords, FailureReleases DEF WorkerStep
    <3> QED  BY <3>3 DEF Life!Next
  <2>4. ASSUME NEW c \in Calls, MarkProcessing(c) \/ Complete(c) \/ Cancel(c) PROVE Life!Next
    <3>1. /\ hook[c] # None /\ payment[hook[c].payment].status \in Open
          /\ UNCHANGED <<issued, work>>
      BY <2>4 DEF MarkProcessing, Complete, Cancel, Settling
    <3>2. PICK s \in {"processing"} \cup Final :
              payment' = [payment EXCEPT ![hook[c].payment] = Updated(c, s)]
      BY <2>4 DEF MarkProcessing, Complete, Cancel, Final
    <3>3. PICK p \in Requests : hook[c].payment = p
      BY <3>1, HookRow DEF IInv, Steps
    <3>4. Life!Answer(p, s)
      BY <2>0, <3>1, <3>2, <3>3, CallAnswers
    <3> QED  BY <3>4 DEF Life!Next, Final, Life!Final
  <2>5. \/ UNCHANGED <<payment, issued, work>>
        \/ \E r \in Requests : CommitPayment(r)
        \/ \E w \in Workers : WorkerStep(w) \/ \E p \in Requests : TakeEvent(w, p)
        \/ \E c \in Calls : MarkProcessing(c) \/ Complete(c) \/ Cancel(c)
    BY <1>2 DEF Next, RequestStep, CheckOrder, ReserveAmount, InsertFails,
                AbortRequest, ReceiveWebhook, CallStep, IgnoreWebhook, LockFunds,
                EndCall, AbortCall, BreakDeadlock
  <2> QED  BY <2>1, <2>2, <2>3, <2>4, <2>5, NothingShows
<1> QED  BY <1>1, <1>2

\* However the statements of the transactions interleave, a payment row goes through
\* the steps of its life: what was checked of it still holds when it is written.
THEOREM LifeRefinement == Spec => RefinesLife
<1>1. Spec => [](IInv /\ IssuedForRows)
  BY LifeInit, IssuedStep, Invariance, PTL DEF Spec
<1>2. Spec => Life!Init /\ [][Life!Next]_(Life!vars)
  BY <1>1, LifeInit, StepLives, PTL DEF Spec
<1> QED  BY <1>2 DEF RefinesLife, Life!Spec

-----------------------------------------------------------------------------
(* What a row says for good. *)

\* The only steps that change a row hold it, find it open, and keep its id.
THEOREM RecordsKept == Spec => RecordsStand
<1>1. IInv /\ [Next]_vars =>
        [\A p \in Requests : payment[p] # None =>
            /\ payment'[p] # None
            /\ payment'[p].merchant = payment[p].merchant
            /\ payment'[p].order = payment[p].order
            /\ payment'[p].amount = payment[p].amount
            /\ payment[p].ppid # None => payment'[p].ppid = payment[p].ppid
            /\ payment[p].status \in Final => payment'[p] = payment[p]]_vars
  <2> SUFFICES ASSUME IInv, Next, NEW p \in Requests, payment[p] # None
               PROVE  /\ payment'[p] # None
                      /\ payment'[p].merchant = payment[p].merchant
                      /\ payment'[p].order = payment[p].order
                      /\ payment'[p].amount = payment[p].amount
                      /\ payment[p].ppid # None => payment'[p].ppid = payment[p].ppid
                      /\ payment[p].status \in Final => payment'[p] = payment[p]
    OBVIOUS
  <2> USE DEF IInv, Steps
  <2>1. RowsKept
    BY StepKeepsIInv
  <2>2. ASSUME NEW r \in Requests, CommitPayment(r) PROVE payment'[p] = payment[p]
    BY <2>2 DEF CommitPayment, RequestsInStep, TypeOK
  <2>3. ASSUME NEW w \in Workers, RecordProcessing(w)
        PROVE  \/ payment'[p] = payment[p]
               \/ payment[p].ppid = None /\ payment[p].status \notin Final
    <3>1. CASE work[w].payment = p
      <4>1. payment[p].status = "created"
        BY <2>3, <3>1, WorkRow DEF RecordProcessing
      <4> QED  BY <4>1 DEF Names, ProviderIdBelongs, Final
    <3>2. CASE work[w].payment # p
      BY <2>3, <3>2 DEF RecordProcessing, TypeOK
    <3> QED  BY <3>1, <3>2
  <2>4. ASSUME NEW c \in Calls, MarkProcessing(c) \/ Complete(c) \/ Cancel(c)
        PROVE  \/ payment'[p] = payment[p]
               \/ /\ payment[p].ppid # None => payment'[p].ppid = payment[p].ppid
                  /\ payment[p].status \notin Final
    <3>1. hook[c] # None /\ payment[hook[c].payment].status \in Open
      BY <2>4 DEF MarkProcessing, Complete, Cancel, Settling
    <3>2. PICK s \in Open \cup Final :
              payment' = [payment EXCEPT ![hook[c].payment] = Updated(c, s)]
      BY <2>4 DEF MarkProcessing, Complete, Cancel, Open, Final
    <3>3. CASE hook[c].payment = p
      <4>1. payment'[p] = Updated(c, s)
        BY <3>2, <3>3 DEF TypeOK
      <4>2. Updated(c, s).ppid = IF payment[p].ppid = None THEN hook[c].id ELSE payment[p].ppid
        BY <3>1, <3>3, UpdatedRow
      <4> QED  BY <3>1, <3>3, <4>1, <4>2 DEF Open, Final
    <3>4. CASE hook[c].payment # p
      BY <3>2, <3>4 DEF TypeOK
    <3> QED  BY <3>3, <3>4
  <2>5. \/ UNCHANGED payment
        \/ \E r \in Requests : CommitPayment(r)
        \/ \E w \in Workers : RecordProcessing(w)
        \/ \E c \in Calls : MarkProcessing(c) \/ Complete(c) \/ Cancel(c)
    BY DEF Next, RequestStep, CheckOrder, ReserveAmount, InsertFails, WorkerStep,
           CallProvider, ProviderFails, TakeEvent,
           AbortRequest, ReceiveWebhook, CallStep, IgnoreWebhook, LockFunds,
           EndCall, AbortCall, BreakDeadlock
  <2> QED  BY <2>1, <2>2, <2>3, <2>4, <2>5 DEF RowsKept
<1> QED  BY <1>1, Invariance, PTL DEF Spec, RecordsStand

-----------------------------------------------------------------------------
(* Waiting.  What NoTransactionHangs needs of every state: who cannot run waits *)
(* for somebody who can, or is one of the two whose deadlock is broken.         *)

\* Transaction t is in progress.
InProgress(t) == IF t \in Requests THEN stage[t] = "checked" ELSE hook[t] # None

\* Transaction t waits for a row: for its balance, or its INSERT for the version of
\* a conflicting row that is not committed yet.
Waits(t) ==
    IF t \in Requests
    THEN IF seen[t] = None
         THEN ~ BalanceFree(MerchantOf(t))
         ELSE /\ \E p \in Requests : Conflict(t, p)
              /\ \A p \in Requests : Conflict(t, p) => Dirty(p)
    ELSE Settling(t) /\ seen[t] = None /\ ~ BalanceFree(MerchantOf(t))

\* A transaction that waits does so behind one that holds the balance it is about,
\* and that one can go on, unless its INSERT and a call wait for each other.
WaitsEnd ==
    \A t \in Txns : InProgress(t) /\ Waits(t) =>
        \E u \in Txns : /\ seen[u] # None /\ MerchantOf(u) = MerchantOf(t)
                        /\ InProgress(u)
                        /\ Waits(u) => u \in Requests /\ \E c \in Calls : Deadlocked(u, c)

\* Who holds a balance can go on: a request only waits for a call that settles the
\* payment its order has already, and that call wants the balance it holds.
LEMMA HolderGoesOn ==
    ASSUME IInv, NEW u \in Txns, seen[u] # None
    PROVE  /\ InProgress(u)
           /\ Waits(u) => u \in Requests /\ \E c \in Calls : Deadlocked(u, c)
<1> USE DEF IInv, Steps
<1>1. CASE u \notin Requests
  BY <1>1 DEF Waits, InProgress, RowsInStep, Settling, Txns
<1>2. CASE u \in Requests
  <2> SUFFICES ASSUME Waits(u) PROVE \E c \in Calls : Deadlocked(u, c)
    BY <1>2 DEF InProgress, RequestsInStep
  <2>1. PICK p \in Requests : Conflict(u, p) /\ Dirty(p)
    BY <1>2 DEF Waits
  <2>2. PICK c \in Calls : Settling(c) /\ hook[c].payment = p
    BY <2>1 DEF Dirty
  <2>3. MerchantOf(c) = payment[p].merchant
    BY <2>2, HookRow DEF Settling
  <2>4. payment[p].merchant = request[u].merchant
    BY <2>1 DEF Conflict, Invoice
  <2>5. MerchantOf(u) = request[u].merchant /\ u # c /\ c \in Txns
    BY <1>2 DEF MerchantOf, Txns
  <2>6. seen[c] = None
    BY <2>3, <2>4, <2>5 DEF SeenIsCurrent
  <2>7. stage[u] = "checked"
    BY <1>2 DEF RequestsInStep
  <2> QED  BY <2>1, <2>2, <2>3, <2>4, <2>6, <2>7 DEF Deadlocked
<1> QED  BY <1>1, <1>2

\* No cycle of waits but the one between an INSERT and a webhook call, which the
\* database breaks: what is left of NoTransactionHangs is fairness.
THEOREM NoOtherDeadlock == Spec => []WaitsEnd
<1>1. IInv => WaitsEnd
  <2> SUFFICES ASSUME IInv, NEW t \in Txns, InProgress(t), Waits(t)
               PROVE  \E u \in Txns : seen[u] # None /\ MerchantOf(u) = MerchantOf(t)
    BY HolderGoesOn DEF WaitsEnd
  <2>1. CASE seen[t] # None
    BY <2>1
  <2>2. CASE seen[t] = None
    <3>1. ~ BalanceFree(MerchantOf(t))
      BY <2>2 DEF Waits
    <3> QED  BY <3>1 DEF BalanceFree
  <2> QED  BY <2>1, <2>2
<1> QED  BY <1>1, Invariance, PTL

-----------------------------------------------------------------------------
(* What the ledger promises holds of the transactions. *)

LP == INSTANCE LedgerProofs WITH Payments <- Requests, funds <- balance, entry <- Entries

LEMMA LedgerHolds == Spec => [](L!Explained /\ LP!OpenIsCovered)
<1>1. LP!LedgerAssumption
  BY DEF LP!LedgerAssumption, LP!Entry
<1>2. LP!Spec => []LP!Explained
  BY <1>1, LP!LedgerExplained
<1>3. LP!Spec => []LP!OpenIsCovered
  BY <1>1, LP!LedgerCovers
<1>4. L!Init => LP!Init
  BY DEF L!Init, LP!Init
<1>5. [L!Next]_(L!vars) => [LP!Next]_(LP!vars)
  BY DEF L!Next, LP!Next, L!vars, LP!vars, L!Reserve, LP!Reserve, L!Capture, LP!Capture,
         L!Release, LP!Release, L!Available, LP!Available
<1>6. LP!Explained => L!Explained
  <2>1. \A S : LP!Cardinality(S) = L!Cardinality(S)
    BY DEF LP!Cardinality, L!Cardinality
  <2>2. \A m, s : LP!Units(m, s) = L!Units(m, s)
    BY DEF LP!Units, L!Units, LP!InState, L!InState
  <2> QED  BY <2>1, <2>2 DEF LP!Explained, L!Explained
<1> QED  BY <1>2, <1>3, <1>4, <1>5, <1>6, Refinement, PTL DEF RefinesLedger, L!Spec, LP!Spec

\* Reserved money is what the open payments add up to, and money leaves only
\* with a completed payment: inherited from the ledger.
THEOREM MoneyExplained == Spec => []MoneyIsExplained
<1>1. L!Explained => MoneyIsExplained
  BY DEF MoneyIsExplained
<1> QED  BY <1>1, LedgerHolds, PTL

\* A webhook about an open payment always finds its amount reserved: the refusals
\* after confirm_reservation and release_reservation are dead code.
THEOREM WebhooksCovered == Spec => []AlwaysCovered
<1>1. IInv /\ LP!OpenIsCovered => AlwaysCovered
  <2> SUFFICES ASSUME IInv, LP!OpenIsCovered, NEW c \in Calls, Settling(c)
               PROVE  Covered(c, balance[MerchantOf(c)])
    BY DEF AlwaysCovered
  <2> DEFINE p == hook[c].payment
  <2>1. /\ p \in Requests /\ payment[p] \in Row /\ payment[p] # None
        /\ MerchantOf(c) = payment[p].merchant /\ payment[p].status \in Open
    BY HookRow DEF IInv, Steps, RowsInStep, Settling
  <2>2. Entries[p] = EntryOf(payment[p]) /\ Entries[p] # None
    BY <2>1, EntriesAt, EntryIsSome
  <2>3. /\ Entries[p].state = "open" /\ Entries[p].amount = payment[p].amount
        /\ Entries[p].merchant = payment[p].merchant
    BY <2>1, <2>2 DEF EntryOf, LedgerState, Open
  <2>4. /\ Entries[p].amount <= balance[Entries[p].merchant].reserved
        /\ Entries[p].amount <= balance[Entries[p].merchant].amount
    BY <2>1, <2>2, <2>3 DEF LP!OpenIsCovered
  <2> QED  BY <2>1, <2>3, <2>4 DEF Covered
<1> QED  BY <1>1, LedgerHolds, Invariance, PTL
=============================================================================
