------------------------------ MODULE Pipeline ------------------------------
(***************************************************************************)
(* The way of a payment through the whole system: the request commits it   *)
(* with its outbox row, a publisher hands the row to the broker, a consumer *)
(* takes the message and asks the provider, the provider calls back.       *)
(*                                                                         *)
(* Outbox is used as it is.  The transactions on a payment are atomic but  *)
(* for the row lock the consumer holds while it asks the provider;         *)
(* PaymentTransactions shows that they may be taken so.  An event is       *)
(* identified with its payment, whose amount reaches the provider by way   *)
(* of AmountWire.                                                          *)
(*                                                                         *)
(* PaymentLife, the life of one payment row, is what this module           *)
(* implements.                                                             *)
(*                                                                         *)
(* Which failures happen is a parameter, and MaxFaults bounds how many.    *)
(***************************************************************************)
EXTENDS Outbox, AmountWire

CONSTANTS
    Workers,     \* consumers; each handles one message at a time
    Amount,      \* Amount[e]: minor units of payment e
    QueueFirst,  \* the consumer declares the queue before the first payment
    Faults,      \* the kinds of failures: of a publisher, of a consumer (or its
                 \* connection), of one run of its handler, of one callback, and
                 \* the restart of the provider
    MaxFaults,   \* how many failures happen at most
    None         \* no message

ASSUME PipelineAssumption ==
    /\ Amount \in [Events -> Nat]
    /\ \A e \in Events : \E d \in Scales : IsScale(Amount[e], d)
    /\ QueueFirst \in BOOLEAN
    /\ Faults \subseteq {"publisher", "consumer", "handler", "webhook", "restart"}
    /\ MaxFaults \in Nat
    /\ None \notin [event : Events, step : {"taken", "locked", "asked", "done"}]

VARIABLES
    pay,     \* pay[e]: the status of payment e, "none" before it is committed
    cur,     \* cur[w]: the message w handles and how far it is, or None
    stale,   \* workers whose message the broker has given back to the queue
    due,     \* due[e]: callbacks the provider has yet to make for e
    asked,   \* asked[e]: payments the provider has created for e (history)
    faults,  \* failures so far
    hit      \* payments a failure has concerned (history)

flowVars == <<pay, cur, stale, due, asked>>

vars == <<outboxVars, flowVars, faults, hit>>

Final == {"completed", "canceled"}

Steps == {"taken", "locked", "asked", "done"}

PipelineInit ==
    /\ OutboxInit
    /\ bound = FALSE
    /\ pay = [e \in Events |-> "none"]
    /\ cur = [w \in Workers |-> None]
    /\ stale = {}
    /\ due = [e \in Events |-> 0]
    /\ asked = [e \in Events |-> 0]
    /\ faults = 0
    /\ hit = {}

-----------------------------------------------------------------------------

\* w works on message e and has come to step s.
At(w, e, s) == cur[w] = [event |-> e, step |-> s]

Goto(w, e, s) == cur' = [cur EXCEPT ![w] = [event |-> e, step |-> s]]

\* Mutant: the payment is read without FOR UPDATE.
RowFree_Unlocked(e) == e \in Events

\* No worker holds e's payment row.
RowFree(e) == \A w \in Workers : ~ (At(w, e, "locked") \/ At(w, e, "asked"))

\* One more failure of this kind, which concerns the payments in S.
Fault(kind, S) ==
    /\ kind \in Faults
    /\ faults < MaxFaults
    /\ faults' = faults + 1
    /\ hit' = hit \cup S

\* The payment and its outbox row are committed together.
CreatePayment(e) ==
    /\ QueueFirst => bound
    /\ pay[e] = "none"
    /\ pay' = [pay EXCEPT ![e] = "created"]
    /\ Enqueue(e)
    /\ UNCHANGED <<cur, stale, due, asked, faults, hit>>

PublisherWorks(k) == PublisherStep(k) /\ UNCHANGED <<flowVars, faults, hit>>

PublisherFails(k) ==
    /\ Fault("publisher", {e \in Events : Current(k, e)})
    /\ Error(k) \/ Abandon(k)
    /\ UNCHANGED flowVars

ConsumerStarts == DeclareQueue /\ UNCHANGED <<flowVars, faults, hit>>

-----------------------------------------------------------------------------
(* MessageConsumer.start_consuming and handle_payment_created *)

\* The broker delivers a message; it is not acknowledged yet.
Take(w, e) ==
    /\ cur[w] = None
    /\ queue[e] > 0
    /\ queue' = [queue EXCEPT ![e] = @ - 1]
    /\ Goto(w, e, "taken")
    /\ UNCHANGED <<row, batch, locks, at, bound, handed, pay, stale, due, asked, faults, hit>>

\* Mutant: the payment's status is not looked at.
Lock_AnyStatus(w, e) ==
    /\ At(w, e, "taken")
    /\ RowFree(e)
    /\ Goto(w, e, "locked")
    /\ UNCHANGED <<outboxVars, pay, stale, due, asked, faults, hit>>

\* The payment row is locked; a payment that is no longer "created" is done with.
Lock(w, e) ==
    /\ At(w, e, "taken")
    /\ RowFree(e)
    /\ Goto(w, e, IF pay[e] = "created" THEN "locked" ELSE "done")
    /\ UNCHANGED <<outboxVars, pay, stale, due, asked, faults, hit>>

\* Mutant: the provider does not schedule the callback.
Ask_NoCallback(w, e) ==
    /\ At(w, e, "locked")
    /\ asked' = [asked EXCEPT ![e] = @ + 1]
    /\ Goto(w, e, "asked")
    /\ UNCHANGED <<outboxVars, pay, stale, due, faults, hit>>

\* The provider creates a payment of its own and schedules its callback.
Ask(w, e) ==
    /\ At(w, e, "locked")
    /\ asked' = [asked EXCEPT ![e] = @ + 1]
    /\ due' = [due EXCEPT ![e] = @ + 1]
    /\ Goto(w, e, "asked")
    /\ UNCHANGED <<outboxVars, pay, stale, faults, hit>>

\* The handler raises: the message is not valid, the database fails, the provider
\* cannot be reached or refuses, or its answer is lost.  The transaction rolls back,
\* and the consumer only logs the error.
HandlerFails(w, e) ==
    /\ Fault("handler", {e})
    /\ At(w, e, "taken") \/ At(w, e, "locked") \/ At(w, e, "asked")
    /\ Goto(w, e, "done")
    /\ UNCHANGED <<outboxVars, pay, stale, due, asked>>

\* Mutant: the status is stored as the provider gave it.
Record_ProviderStatus(w, e) ==
    /\ At(w, e, "asked")
    /\ pay' = [pay EXCEPT ![e] = "Created"]
    /\ Goto(w, e, "done")
    /\ UNCHANGED <<outboxVars, stale, due, asked, faults, hit>>

Record(w, e) ==
    /\ At(w, e, "asked")
    /\ pay' = [pay EXCEPT ![e] = "processing"]
    /\ Goto(w, e, "done")
    /\ UNCHANGED <<outboxVars, stale, due, asked, faults, hit>>

\* Leaving message.process() without an exception acknowledges the message, which
\* means nothing to the broker once it has given the message back to the queue.
Acknowledge(w, e) ==
    /\ At(w, e, "done")
    /\ cur' = [cur EXCEPT ![w] = None]
    /\ stale' = stale \ {w}
    /\ UNCHANGED <<outboxVars, pay, due, asked, faults, hit>>

\* The broker gives w's message e back to the queue, if it still waits for its
\* acknowledgement.
GiveBack(w, e) ==
    queue' = IF w \in stale THEN queue ELSE [queue EXCEPT ![e] = @ + 1]

\* Mutant: messages are acknowledged when they are delivered.
ConsumerDies_Acked(w, e) ==
    /\ Fault("consumer", {})
    /\ cur[w] # None /\ cur[w].event = e
    /\ cur' = [cur EXCEPT ![w] = None]
    /\ stale' = stale \ {w}
    /\ UNCHANGED <<outboxVars, pay, due, asked>>

\* The consumer's process dies: its transaction rolls back and its message is
\* delivered again.
ConsumerDies(w, e) ==
    /\ Fault("consumer", {})
    /\ cur[w] # None /\ cur[w].event = e
    /\ GiveBack(w, e)
    /\ cur' = [cur EXCEPT ![w] = None]
    /\ stale' = stale \ {w}
    /\ UNCHANGED <<row, batch, locks, at, bound, handed, pay, due, asked>>

\* Only the connection to the broker is lost, and made again (connect_robust): the
\* message is delivered again, while the handler goes on with it.
ConnectionLost(w, e) ==
    /\ Fault("consumer", {})
    /\ cur[w] # None /\ cur[w].event = e
    /\ w \notin stale
    /\ GiveBack(w, e)
    /\ stale' = stale \cup {w}
    /\ UNCHANGED <<row, batch, locks, at, bound, handed, pay, cur, due, asked>>

-----------------------------------------------------------------------------
(* The provider's callback *)

\* The final status the provider gives each payment, by the amount it was told.
Decision == [e \in Events |-> FinalStatus(Received(Amount[e]))]

\* handle_provider_webhook: waits for the row, leaves a settled payment alone.
Webhook(e) ==
    /\ due[e] > 0
    /\ RowFree(e)
    /\ due' = [due EXCEPT ![e] = @ - 1]
    /\ pay' = [pay EXCEPT ![e] = IF @ \in Final THEN @
                                 ELSE Decision[e]]
    /\ UNCHANGED <<outboxVars, cur, stale, asked, faults, hit>>

\* A callback times out or is refused: the provider calls back only once.
WebhookLost(e) ==
    /\ Fault("webhook", {e})
    /\ due[e] > 0
    /\ due' = [due EXCEPT ![e] = @ - 1]
    /\ UNCHANGED <<outboxVars, pay, cur, stale, asked>>

\* The provider restarts: its payments and the tasks that will call back are in its
\* memory only, so every callback it owes is lost at once.
ProviderRestarts ==
    LET owed == {e \in Events : due[e] > 0}
    IN  /\ owed # {}
        /\ Fault("restart", owed)
        /\ due' = [e \in Events |-> 0]
        /\ UNCHANGED <<outboxVars, pay, cur, stale, asked>>

-----------------------------------------------------------------------------

WorkerStep(w) ==
    \E e \in Events : \/ Take(w, e)
                      \/ Lock(w, e)
                      \/ Ask(w, e)
                      \/ Record(w, e)
                      \/ Acknowledge(w, e)

PipelineNext ==
    \/ ConsumerStarts
    \/ \E k \in Publishers : PublisherWorks(k) \/ PublisherFails(k)
    \/ \E w \in Workers : WorkerStep(w)
    \/ \E w \in Workers, e \in Events :
          HandlerFails(w, e) \/ ConsumerDies(w, e) \/ ConnectionLost(w, e)
    \/ \E e \in Events : CreatePayment(e) \/ Webhook(e) \/ WebhookLost(e)
    \/ ProviderRestarts

PipelineSpec == PipelineInit /\ [][PipelineNext]_vars

\* Every process runs, and is started again after a failure.
PipelineFairness ==
    /\ WF_vars(ConsumerStarts)
    /\ \A k \in Publishers : WF_vars(PublisherWorks(k))
    /\ \A w \in Workers : WF_vars(WorkerStep(w))
    /\ \A e \in Events : WF_vars(Webhook(e))

PipelineFairSpec == PipelineSpec /\ PipelineFairness

-----------------------------------------------------------------------------
(* Safety *)

PipelineTypeOK ==
    /\ OutboxTypeOK
    /\ pay \in [Events -> {"none", "created", "processing"} \cup Final]
    /\ cur \in [Workers -> [event : Events, step : Steps] \cup {None}]
    /\ stale \subseteq {w \in Workers : cur[w] # None}
    /\ due \in [Events -> Nat]
    /\ asked \in [Events -> Nat]
    /\ faults \in 0 .. MaxFaults
    /\ hit \subseteq Events

\* Something on its way will still move payment e on.
Carried(e) ==
    \/ due[e] > 0
    \/ pay[e] = "created" /\ \/ row[e] = "pending"
                             \/ \E k \in Publishers : /\ e \in batch[k]
                                                      /\ at[k] = "publishing"
                             \/ queue[e] > 0
                             \/ \E w \in Workers : /\ cur[w] # None
                                                   /\ cur[w].event = e
                                                   /\ cur[w].step # "done"

Forgotten == {e \in Events : pay[e] \in {"created", "processing"} /\ ~ Carried(e)}

\* As long as nothing fails but consumers, no payment is left open with its money
\* reserved and nothing on its way that would settle it: the message, the row
\* lock and the callback take over from each other without a gap.
NothingIsForgotten == Forgotten = {}

\* Whatever fails, only a payment that a failure itself has concerned is left open:
\* of a publisher's batch the message it works on and not those behind it, of the
\* handler's and the callbacks' failures their own payment, of the provider's restart
\* those it owes a callback, and of a consumer's death or lost connection none.
OnlyHitIsForgotten == Forgotten \subseteq hit

\* The provider is never asked again about a payment whose answer is recorded or that
\* is settled, though its message may be delivered again or published twice.
HandedOverOnce == [][\A e \in Events : pay[e] # "created" => asked'[e] = asked[e]]_vars

\* A second payment at the provider for the same invoice takes a failure between
\* its answer and the commit that records it.
AskedOncePerFault == \A e \in Events : asked[e] <= 1 + faults

\* The provider decides by the amount the gateway has reserved, although it gets it
\* as a float written in decimals: an even payment is completed, an odd one canceled.
SettledByAmount ==
    \A e \in Events : pay[e] \in Final /\ IsExact(Amount[e]) => pay[e] = FinalStatus(Amount[e])

-----------------------------------------------------------------------------
(* Refinement *)

\* How far the worker that holds e's payment row is.
HeldAs(e) ==
    IF \E w \in Workers : At(w, e, "asked") THEN "asked"
    ELSE IF \E w \in Workers : At(w, e, "locked") THEN "locked"
    ELSE "free"

\* The payments the provider has created for e are numbered.  There are no more
\* than one and one for each failure.
Life == INSTANCE PaymentLife WITH
            Payments <- Events,
            Ids <- Events \X (1 .. MaxFaults + 1),
            held <- [e \in Events |-> HeldAs(e)],
            asked <- [e \in Events |-> {e} \X (1 .. asked[e])]

\* Whatever is published twice, delivered again, fails or answers late, a payment
\* row takes the steps of its life only: it is asked about while it is created and
\* locked, answered for when it is free, and settled once.
RefinesLife == Life!Spec

(* Liveness *)

\* Every payment is completed or canceled in the end, so its reservation does not
\* last for ever.
EveryPaymentSettles == \A e \in Events : pay[e] = "created" ~> pay[e] \in Final
=============================================================================
