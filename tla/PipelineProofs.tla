--------------------------- MODULE PipelineProofs ---------------------------
(***************************************************************************)
(* Proofs about Pipeline, for any number of publishers, workers, payments  *)
(* and failures.  The row lock a worker holds while it asks the provider   *)
(* is what keeps a payment from being handed over twice.                   *)
(***************************************************************************)
EXTENDS Pipeline, OutboxProofs, AmountWireProofs

FlowTypes ==
    /\ pay \in [Events -> {"none", "created", "processing"} \cup Final]
    /\ cur \in [Workers -> [event : Events, step : Steps] \cup {None}]
    /\ stale \subseteq {w \in Workers : cur[w] # None}
    /\ due \in [Events -> Nat]
    /\ asked \in [Events -> Nat]
    /\ faults \in 0 .. MaxFaults
    /\ hit \subseteq Events

\* Worker w holds the row lock of payment e.
Holds(w, e) == At(w, e, "locked") \/ At(w, e, "asked")

\* A worker that holds a payment's row found it created, and nobody has moved it
\* on since.
HeldIsCreated ==
    \A w \in Workers, e \in Events : Holds(w, e) => pay[e] = "created"

\* One worker at most holds a payment's row.
OneHolder ==
    \A v, w \in Workers, e \in Events : Holds(v, e) /\ Holds(w, e) => v = w

PInv == IInv /\ FlowTypes /\ HeldIsCreated /\ OneHolder

\* What Goto does to who holds what.
LEMMA GotoHolds ==
    ASSUME FlowTypes, NEW w \in Workers, NEW e \in Events, NEW s \in Steps, Goto(w, e, s)
    PROVE  /\ cur' \in [Workers -> [event : Events, step : Steps] \cup {None}]
           /\ stale \subseteq {v \in Workers : cur'[v] # None}
           /\ \A f \in Events : Holds(w, f)' <=> f = e /\ s \in {"locked", "asked"}
           /\ \A v \in Workers \ {w}, f \in Events : Holds(v, f)' <=> Holds(v, f)
<1> USE DEF FlowTypes, Goto
<1>1. cur'[w] = [event |-> e, step |-> s] OBVIOUS
<1>2. \A v \in Workers \ {w} : cur'[v] = cur[v] OBVIOUS
<1>3. cur' \in [Workers -> [event : Events, step : Steps] \cup {None}] BY DEF Steps
<1>4. \A f \in Events : Holds(w, f)' <=> f = e /\ s \in {"locked", "asked"}
  <2> TAKE f \in Events
  <2>1. At(w, f, "locked")' <=> f = e /\ s = "locked" BY <1>1 DEF At
  <2>2. At(w, f, "asked")' <=> f = e /\ s = "asked" BY <1>1 DEF At
  <2> QED BY <2>1, <2>2 DEF Holds
<1>5. \A v \in Workers \ {w}, f \in Events : Holds(v, f)' <=> Holds(v, f)
  BY <1>2 DEF Holds, At
<1>6. stale \subseteq {v \in Workers : cur'[v] # None}
  <2>1. [event |-> e, step |-> s] \in [event : Events, step : {"taken", "locked", "asked", "done"}]
    BY DEF Steps
  <2>2. cur'[w] # None BY <1>1, <2>1, PipelineAssumption
  <2> QED BY <1>2, <2>2
<1> QED BY <1>3, <1>4, <1>5, <1>6

\* A worker at one step is at no other, and an idle one at none.
LEMMA OneStep ==
    ASSUME NEW w \in Workers, NEW e \in Events, NEW s \in Steps, At(w, e, s)
    PROVE  /\ cur[w] # None
           /\ \A f \in Events, t \in Steps : At(w, f, t) => f = e /\ t = s
<1>1. [event |-> e, step |-> s] \in [event : Events, step : {"taken", "locked", "asked", "done"}]
  BY DEF Steps
<1>2. ASSUME NEW f \in Events, NEW t \in Steps, At(w, f, t) PROVE f = e /\ t = s
  <2> DEFINE x == [event |-> e, step |-> s]
             y == [event |-> f, step |-> t]
  <2>1. x = y BY <1>2 DEF At
  <2>2. x.event = e /\ x.step = s /\ y.event = f /\ y.step = t OBVIOUS
  <2> HIDE DEF x, y
  <2> QED BY <2>1, <2>2
<1> QED BY <1>1, <1>2, PipelineAssumption DEF At

\* A worker without a message holds nothing.
LEMMA DropHolds ==
    ASSUME FlowTypes, NEW w \in Workers, cur' = [cur EXCEPT ![w] = None]
    PROVE  /\ cur' \in [Workers -> [event : Events, step : Steps] \cup {None}]
           /\ stale \ {w} \subseteq {v \in Workers : cur'[v] # None}
           /\ \A f \in Events : ~ Holds(w, f)'
           /\ \A v \in Workers \ {w}, f \in Events : Holds(v, f)' <=> Holds(v, f)
<1> USE DEF FlowTypes
<1>1. cur'[w] = None /\ \A v \in Workers \ {w} : cur'[v] = cur[v] OBVIOUS
<1>2. \A f \in Events : ~ Holds(w, f)'
  <2> SUFFICES ASSUME NEW f \in Events, NEW s \in {"locked", "asked"},
                      None = [event |-> f, step |-> s]
               PROVE  FALSE
    BY <1>1 DEF Holds, At
  <2>1. [event |-> f, step |-> s] \in [event : Events, step : {"taken", "locked", "asked", "done"}]
    OBVIOUS
  <2> QED BY <2>1, PipelineAssumption
<1>3. \A v \in Workers \ {w}, f \in Events : Holds(v, f)' <=> Holds(v, f)
  BY <1>1 DEF Holds, At
<1> QED BY <1>1, <1>2, <1>3

\* No worker has a message at the start.
LEMMA PInit == PipelineInit => PInv
<1> SUFFICES ASSUME PipelineInit PROVE PInv OBVIOUS
<1>1. IInv BY InitInv DEF PipelineInit
<1>2. FlowTypes BY PipelineAssumption DEF PipelineInit, FlowTypes
<1>3. \A w \in Workers, e \in Events : ~ Holds(w, e)
  <2> SUFFICES ASSUME NEW w \in Workers, NEW f \in Events, NEW s \in {"locked", "asked"},
                      None = [event |-> f, step |-> s]
               PROVE  FALSE
    BY DEF Holds, At, PipelineInit
  <2>1. [event |-> f, step |-> s] \in [event : Events, step : {"taken", "locked", "asked", "done"}]
    OBVIOUS
  <2> QED BY <2>1, PipelineAssumption
<1> QED BY <1>1, <1>2, <1>3 DEF PInv, HeldIsCreated, OneHolder

\* The outbox's invariant does not depend on who takes messages from the queue.
LEMMA QueueInv ==
    ASSUME IInv, queue' \in [Events -> Nat],
           UNCHANGED <<row, batch, locks, at, bound, handed>>
    PROVE  IInv'
BY DEF IInv, OutboxTypeOK, HandedOnce, PendingIsFresh, SentIsHanded,
       LockedIsPending, Unlocked, BatchShape, Progress, Current

\* A step of the outbox is one of its own next-state relation.
LEMMA OutboxStep == ASSUME IInv, [OutboxNext]_outboxVars PROVE IInv'
BY NextInv

\* A failure is counted up to MaxFaults, and the payments it concerns are noted.
LEMMA FaultType ==
    ASSUME FlowTypes, NEW kind, NEW S \in SUBSET Events, Fault(kind, S)
    PROVE  faults' \in 0 .. MaxFaults /\ hit' \subseteq Events
BY PipelineAssumption DEF FlowTypes, Fault

\* What neither moves a payment nor a worker keeps the row locks as they are.
LEMMA Aside ==
    ASSUME PInv, UNCHANGED flowVars, faults' \in 0 .. MaxFaults, hit' \subseteq Events, IInv'
    PROVE  PInv'
<1> USE DEF PInv, flowVars
<1>1. FlowTypes' BY DEF FlowTypes
<1>2. HeldIsCreated' BY DEF HeldIsCreated, Holds, At
<1>3. OneHolder' BY DEF OneHolder, Holds, At
<1> QED BY <1>1, <1>2, <1>3

\* Steps of a worker keep the invariant: a row is locked only when it is free and
\* the payment is created, and recorded only by its holder.
LEMMA WorkerInv == ASSUME PInv, NEW w \in Workers, WorkerStep(w) PROVE PInv'
<1> USE DEF PInv
<1>1. ASSUME NEW e \in Events, Take(w, e) PROVE PInv'
  <2> USE <1>1 DEF Take
  <2>1. queue' \in [Events -> Nat] BY DEF IInv, OutboxTypeOK
  <2>2. IInv' BY <2>1, QueueInv
  <2>3. FlowTypes' /\ (\A v \in Workers, f \in Events : Holds(v, f)' => Holds(v, f))
    BY GotoHolds DEF FlowTypes, Steps
  <2> QED BY <2>2, <2>3 DEF HeldIsCreated, OneHolder
<1>2. ASSUME NEW e \in Events, Lock(w, e) PROVE PInv'
  <2> USE <1>2 DEF Lock
  <2>1. IInv' BY OutboxStep DEF outboxVars
  <2> DEFINE s == IF pay[e] = "created" THEN "locked" ELSE "done"
  <2>2. s \in Steps /\ Goto(w, e, s) BY DEF Steps
  <2>3. FlowTypes' BY <2>2, GotoHolds DEF FlowTypes
  <2>4. \A f \in Events : Holds(w, f)' => f = e /\ pay[e] = "created" BY <2>2, GotoHolds
  <2>5. \A v \in Workers \ {w}, f \in Events : Holds(v, f)' <=> Holds(v, f)
    BY <2>2, GotoHolds
  <2>6. \A v \in Workers : ~ Holds(v, e) BY DEF RowFree, Holds
  <2>7. HeldIsCreated' BY <2>4, <2>5 DEF HeldIsCreated
  <2>8. OneHolder' BY <2>4, <2>5, <2>6 DEF OneHolder
  <2> QED BY <2>1, <2>3, <2>7, <2>8
<1>3. ASSUME NEW e \in Events, Ask(w, e) PROVE PInv'
  <2> USE <1>3 DEF Ask
  <2>1. IInv' BY OutboxStep DEF outboxVars
  <2>2. "asked" \in Steps /\ Goto(w, e, "asked") BY DEF Steps
  <2>3. FlowTypes' BY <2>2, GotoHolds DEF FlowTypes
  <2>4. \A v \in Workers, f \in Events : Holds(v, f)' => Holds(v, f)
    BY <2>2, GotoHolds DEF Holds
  <2> QED BY <2>1, <2>3, <2>4 DEF HeldIsCreated, OneHolder
<1>4. ASSUME NEW e \in Events, Record(w, e) PROVE PInv'
  <2> USE <1>4 DEF Record
  <2>1. IInv' BY OutboxStep DEF outboxVars
  <2>2. "done" \in Steps /\ Goto(w, e, "done") BY DEF Steps
  <2>3. FlowTypes' BY <2>2, GotoHolds DEF FlowTypes
  <2>4. \A v \in Workers, f \in Events : Holds(v, f)' => v # w /\ Holds(v, f)
    BY <2>2, GotoHolds
  <2>5. \A v \in Workers : Holds(v, e) => v = w BY DEF OneHolder, Holds
  <2>6. \A f \in Events \ {e} : pay'[f] = pay[f] BY DEF FlowTypes
  <2>7. HeldIsCreated' BY <2>4, <2>5, <2>6 DEF HeldIsCreated
  <2>8. OneHolder' BY <2>4 DEF OneHolder
  <2> QED BY <2>1, <2>3, <2>7, <2>8
<1>5. ASSUME NEW e \in Events, Acknowledge(w, e) PROVE PInv'
  <2> USE <1>5 DEF Acknowledge
  <2>1. IInv' BY OutboxStep DEF outboxVars
  <2>2. FlowTypes' /\ (\A v \in Workers, f \in Events : Holds(v, f)' => Holds(v, f))
    BY DropHolds DEF FlowTypes
  <2> QED BY <2>1, <2>2 DEF HeldIsCreated, OneHolder
<1> QED BY <1>1, <1>2, <1>3, <1>4, <1>5 DEF WorkerStep

\* Failures of the consumer and of the provider only release a row.
LEMMA FailureInv ==
    ASSUME PInv, NEW w \in Workers, NEW e \in Events,
           HandlerFails(w, e) \/ ConsumerDies(w, e) \/ ConnectionLost(w, e)
    PROVE  PInv'
<1> USE DEF PInv
<1>1. CASE HandlerFails(w, e)
  <2> USE <1>1 DEF HandlerFails
  <2>1. IInv' BY OutboxStep DEF outboxVars
  <2>2. "done" \in Steps /\ Goto(w, e, "done") BY DEF Steps
  <2>3. FlowTypes' BY <2>2, GotoHolds, FaultType DEF FlowTypes
  <2>4. \A v \in Workers, f \in Events : Holds(v, f)' => Holds(v, f) BY <2>2, GotoHolds
  <2> QED BY <2>1, <2>3, <2>4 DEF HeldIsCreated, OneHolder
<1>2. CASE ConsumerDies(w, e)
  <2> USE <1>2 DEF ConsumerDies
  <2>1. queue' \in [Events -> Nat] BY DEF GiveBack, IInv, OutboxTypeOK
  <2>2. IInv' BY <2>1, QueueInv
  <2>3. FlowTypes' BY DropHolds, FaultType DEF FlowTypes
  <2>4. \A v \in Workers, f \in Events : Holds(v, f)' => Holds(v, f) BY DropHolds
  <2> QED BY <2>2, <2>3, <2>4 DEF HeldIsCreated, OneHolder
<1>3. CASE ConnectionLost(w, e)
  <2> USE <1>3 DEF ConnectionLost
  <2>1. queue' \in [Events -> Nat] BY DEF GiveBack, IInv, OutboxTypeOK
  <2>2. IInv' BY <2>1, QueueInv
  <2>3. FlowTypes' BY FaultType DEF FlowTypes
  <2> QED BY <2>2, <2>3 DEF HeldIsCreated, OneHolder, Holds, At
<1> QED BY <1>1, <1>2, <1>3

\* The provider ends a payment one way or the other.
LEMMA DecisionIsFinal == \A e \in Events : Decision[e] \in Final
BY DEF Decision, FinalStatus, Final

\* The webhook waits until nobody holds the row it changes; what the provider forgets
\* is no row.
LEMMA WebhookInv ==
    ASSUME PInv, NEW e \in Events, Webhook(e) \/ WebhookLost(e) \/ ProviderRestarts PROVE PInv'
<1> USE DEF PInv
<1>1. CASE Webhook(e)
  <2> USE <1>1 DEF Webhook
  <2>1. IInv' BY OutboxStep DEF outboxVars
  <2>2. FlowTypes' BY DecisionIsFinal DEF FlowTypes, Final
  <2>3. \A v \in Workers : ~ Holds(v, e) BY DEF RowFree, Holds
  <2>4. \A f \in Events \ {e} : pay'[f] = pay[f] BY DEF FlowTypes
  <2>5. HeldIsCreated' BY <2>3, <2>4 DEF HeldIsCreated, Holds, At
  <2>6. OneHolder' BY DEF OneHolder, Holds, At
  <2> QED BY <2>1, <2>2, <2>5, <2>6
<1>2. CASE WebhookLost(e)
  <2> USE <1>2 DEF WebhookLost
  <2>1. IInv' BY OutboxStep DEF outboxVars
  <2>2. FlowTypes' BY FaultType DEF FlowTypes
  <2>3. HeldIsCreated' BY DEF HeldIsCreated, Holds, At
  <2>4. OneHolder' BY DEF OneHolder, Holds, At
  <2> QED BY <2>1, <2>2, <2>3, <2>4
<1>3. CASE ProviderRestarts
  <2> USE <1>3 DEF ProviderRestarts
  <2>1. IInv' BY OutboxStep DEF outboxVars
  <2>2. FlowTypes' BY FaultType DEF FlowTypes
  <2>3. HeldIsCreated' BY DEF HeldIsCreated, Holds, At
  <2>4. OneHolder' BY DEF OneHolder, Holds, At
  <2> QED BY <2>1, <2>2, <2>3, <2>4
<1> QED BY <1>1, <1>2, <1>3

\* A new payment is nobody's yet.
LEMMA CreateInv == ASSUME PInv, NEW e \in Events, CreatePayment(e) PROVE PInv'
<1> USE DEF PInv, CreatePayment
<1>1. IInv' BY EnqueueInv
<1>2. FlowTypes' BY DEF FlowTypes
<1>3. \A w \in Workers : ~ Holds(w, e) BY DEF HeldIsCreated
<1>4. \A f \in Events \ {e} : pay'[f] = pay[f] BY DEF FlowTypes
<1>5. HeldIsCreated' BY <1>3, <1>4 DEF HeldIsCreated, Holds, At
<1>6. OneHolder' BY DEF OneHolder, Holds, At
<1> QED BY <1>1, <1>2, <1>5, <1>6

\* Every step of the pipeline keeps the invariant.
LEMMA PNext == PInv /\ [PipelineNext]_vars => PInv'
<1> SUFFICES ASSUME PInv, [PipelineNext]_vars PROVE PInv' OBVIOUS
<1>a. IInv /\ faults \in 0 .. MaxFaults /\ hit \subseteq Events BY DEF PInv, FlowTypes
<1>1. CASE ConsumerStarts
  <2>1. IInv' BY <1>1, <1>a, OutboxStep DEF ConsumerStarts, OutboxNext
  <2> QED BY <1>1, <1>a, <2>1, Aside DEF ConsumerStarts
<1>2. ASSUME NEW k \in Publishers, PublisherWorks(k) PROVE PInv'
  <2>1. IInv' BY <1>2, <1>a, OutboxStep DEF PublisherWorks, OutboxNext
  <2> QED BY <1>2, <1>a, <2>1, Aside DEF PublisherWorks
<1>3. ASSUME NEW k \in Publishers, PublisherFails(k) PROVE PInv'
  <2>1. IInv' BY <1>3, <1>a, OutboxStep DEF PublisherFails, OutboxNext
  <2>2. faults' \in 0 .. MaxFaults /\ hit' \subseteq Events
    BY <1>3, FaultType DEF PublisherFails, PInv
  <2> QED BY <1>3, <2>1, <2>2, Aside DEF PublisherFails
<1>4. ASSUME NEW w \in Workers, WorkerStep(w) PROVE PInv' BY <1>4, WorkerInv
<1>5. ASSUME NEW w \in Workers, NEW e \in Events,
             HandlerFails(w, e) \/ ConsumerDies(w, e) \/ ConnectionLost(w, e)
      PROVE  PInv'
  BY <1>5, FailureInv
<1>6. ASSUME NEW e \in Events, CreatePayment(e) \/ Webhook(e) \/ WebhookLost(e) PROVE PInv'
  BY <1>6, CreateInv, WebhookInv
<1>7. CASE UNCHANGED vars
  <2>1. IInv' BY <1>7, <1>a, OutboxStep DEF vars
  <2> QED BY <1>7, <1>a, <2>1, Aside DEF vars
<1>8. CASE ProviderRestarts BY <1>8, WebhookInv DEF ProviderRestarts
<1> QED BY <1>1, <1>2, <1>3, <1>4, <1>5, <1>6, <1>7, <1>8 DEF PipelineNext

\* The inductive invariant of the pipeline.
THEOREM PipelineInvariance == PipelineSpec => []PInv
BY PInit, PNext, PTL DEF PipelineSpec

\* The variables of the pipeline and of the outbox in it keep their types.
THEOREM PipelineTypeCorrect == PipelineSpec => []PipelineTypeOK
<1>1. PInv => PipelineTypeOK BY DEF PInv, IInv, FlowTypes, PipelineTypeOK
<1> QED BY <1>1, PipelineInvariance, PTL

\* The provider is not asked again about a payment that is processing or settled,
\* however often its message is published, delivered and delivered again.
THEOREM ProviderAskedOnce == PipelineSpec => HandedOverOnce
<1>1. PInv /\ [PipelineNext]_vars
          => [\A e \in Events : pay[e] # "created" => asked'[e] = asked[e]]_vars
  <2> SUFFICES ASSUME PInv, PipelineNext, NEW e \in Events, pay[e] # "created"
               PROVE  asked'[e] = asked[e]
    OBVIOUS
  <2>1. ASSUME NEW w \in Workers, NEW f \in Events, Ask(w, f) PROVE asked'[e] = asked[e]
    <3>1. pay[f] = "created" BY <2>1 DEF Ask, PInv, HeldIsCreated, Holds
    <3> QED BY <2>1, <3>1 DEF Ask, PInv, FlowTypes
  <2>2. ASSUME NEW w \in Workers, NEW f \in Events,
               \/ Take(w, f) \/ Lock(w, f) \/ Record(w, f) \/ Acknowledge(w, f)
               \/ HandlerFails(w, f) \/ ConsumerDies(w, f) \/ ConnectionLost(w, f)
        PROVE  asked'[e] = asked[e]
    BY <2>2 DEF Take, Lock, Record, Acknowledge, HandlerFails, ConsumerDies, ConnectionLost
  <2>3. ASSUME NEW k \in Publishers, PublisherWorks(k) \/ PublisherFails(k)
        PROVE  asked'[e] = asked[e]
    BY <2>3 DEF PublisherWorks, PublisherFails, flowVars
  <2>4. ASSUME NEW f \in Events, CreatePayment(f) \/ Webhook(f) \/ WebhookLost(f)
        PROVE  asked'[e] = asked[e]
    BY <2>4 DEF CreatePayment, Webhook, WebhookLost
  <2>5. CASE ConsumerStarts \/ ProviderRestarts
    BY <2>5 DEF ConsumerStarts, ProviderRestarts, flowVars
  <2> QED BY <2>1, <2>2, <2>3, <2>4, <2>5 DEF PipelineNext, WorkerStep
<1> QED BY <1>1, PipelineInvariance, PTL DEF PipelineSpec, HandedOverOnce

\* A payment ends as its own amount says, for floats of any width: what the
\* provider decides by is the amount that was reserved.
THEOREM DecidedByAmount == PipelineSpec => []SettledByAmount
<1>1. PipelineInit => SettledByAmount
  BY DEF PipelineInit, SettledByAmount, Final
<1>2. PInv /\ SettledByAmount /\ [PipelineNext]_vars => SettledByAmount'
  <2> SUFFICES ASSUME PInv, SettledByAmount, [PipelineNext]_vars PROVE SettledByAmount'
    OBVIOUS
  <2> USE DEF SettledByAmount, PInv, FlowTypes
  <2>1. ASSUME NEW e \in Events, Webhook(e) PROVE SettledByAmount'
    <3>1. IsExact(Amount[e]) => Received(Amount[e]) = Amount[e]
      BY AmountArrives, PipelineAssumption
    <3>2. IsExact(Amount[e]) => Decision[e] = FinalStatus(Amount[e]) BY <3>1 DEF Decision
    <3>3. /\ pay' = [pay EXCEPT ![e] = pay'[e]]
          /\ pay'[e] = IF pay[e] \in Final THEN pay[e] ELSE Decision[e]
      BY <2>1 DEF Webhook
    <3> QED BY <3>2, <3>3
  <2>2. ASSUME NEW w \in Workers, NEW e \in Events, Record(w, e) PROVE SettledByAmount'
    BY <2>2 DEF Record, Final
  <2>3. ASSUME NEW e \in Events, CreatePayment(e) PROVE SettledByAmount'
    BY <2>3 DEF CreatePayment, Final
  <2>4. ASSUME UNCHANGED pay PROVE SettledByAmount' BY <2>4
  <2>5. ASSUME NEW w \in Workers, NEW e \in Events,
               \/ Take(w, e) \/ Lock(w, e) \/ Ask(w, e) \/ Acknowledge(w, e)
               \/ HandlerFails(w, e) \/ ConsumerDies(w, e) \/ ConnectionLost(w, e)
        PROVE  UNCHANGED pay
    BY <2>5 DEF Take, Lock, Ask, Acknowledge, HandlerFails, ConsumerDies, ConnectionLost
  <2>6. ASSUME NEW k \in Publishers, PublisherWorks(k) \/ PublisherFails(k) PROVE UNCHANGED pay
    BY <2>6 DEF PublisherWorks, PublisherFails, flowVars
  <2>7. ConsumerStarts \/ ProviderRestarts => UNCHANGED pay
    BY DEF ConsumerStarts, ProviderRestarts, flowVars
  <2>8. UNCHANGED vars => UNCHANGED pay BY DEF vars, flowVars
  <2>9. ASSUME NEW e \in Events, WebhookLost(e) PROVE UNCHANGED pay BY <2>9 DEF WebhookLost
  <2> QED BY <2>1, <2>2, <2>3, <2>4, <2>5, <2>6, <2>7, <2>8, <2>9 DEF PipelineNext, WorkerStep
<1> QED BY <1>1, <1>2, PipelineInvariance, PTL DEF PipelineSpec

-----------------------------------------------------------------------------
(* The outbox in the pipeline *)

\* A step of the pipeline is one of the outbox, or takes a message from the queue or
\* puts it back, or leaves the outbox alone.
LEMMA OutboxSide ==
    ASSUME [PipelineNext]_vars
    PROVE  [OutboxNext]_outboxVars \/ UNCHANGED <<row, batch, locks, at, bound, handed>>
<1>1. ASSUME NEW k \in Publishers, PublisherWorks(k) \/ PublisherFails(k)
      PROVE  OutboxNext
  BY <1>1 DEF PublisherWorks, PublisherFails, OutboxNext
<1>2. ASSUME NEW e \in Events, CreatePayment(e) PROVE OutboxNext
  BY <1>2 DEF CreatePayment, OutboxNext
<1>3. ASSUME NEW w \in Workers, NEW e \in Events,
             \/ Take(w, e) \/ Lock(w, e) \/ Ask(w, e) \/ Record(w, e) \/ Acknowledge(w, e)
             \/ HandlerFails(w, e) \/ ConsumerDies(w, e) \/ ConnectionLost(w, e)
      PROVE  UNCHANGED <<row, batch, locks, at, bound, handed>>
  BY <1>3 DEF Take, Lock, Ask, Record, Acknowledge, HandlerFails, ConsumerDies, ConnectionLost,
              outboxVars
<1>4. ASSUME NEW e \in Events, Webhook(e) \/ WebhookLost(e) \/ ProviderRestarts
      PROVE  UNCHANGED outboxVars
  BY <1>4 DEF Webhook, WebhookLost, ProviderRestarts
<1>5. CASE ConsumerStarts \/ UNCHANGED vars
  BY <1>5 DEF ConsumerStarts, OutboxNext, vars
<1>6. CASE ProviderRestarts BY <1>4, <1>6 DEF ProviderRestarts
<1> QED BY <1>1, <1>2, <1>3, <1>4, <1>5, <1>6 DEF PipelineNext, WorkerStep, outboxVars

\* With one publisher a sent row stays sent, whatever happens to its message and to its
\* payment afterwards.
THEOREM PipelineSentForGood ==
    ASSUME \A j, k \in Publishers : j = k
    PROVE  PipelineSpec => SentIsFinal
<1>1. PipelineInit => SentIsDone BY DEF PipelineInit, OutboxInit, SentIsDone
<1>2. PInv /\ SentIsDone /\ [PipelineNext]_vars => SentIsDone'
  BY OutboxSide, SentIsDoneStep DEF PInv, SentIsDone
<1>3. PInv /\ SentIsDone /\ [PipelineNext]_vars
          => [\A e \in Events : row[e] = "sent" => row'[e] = "sent"]_row
  BY OutboxSide, SentIsDoneStep DEF PInv
<1> QED BY <1>1, <1>2, <1>3, PipelineInvariance, PTL DEF PipelineSpec, SentIsFinal

\* The workers from which the broker still waits for e's acknowledgement: the message has
\* not been given back to the queue.
Handling(e) == {w \in Workers \ stale : cur[w] # None /\ cur[w].event = e}

\* Each copy of a message, in the queue or with a worker, came from a publisher of its
\* own: a delivery that fails puts its own copy back and no other.
DeliveriesHaveHanders ==
    \A e \in Events : /\ IsFiniteSet(Handling(e))
                      /\ queue[e] + Cardinality(Handling(e)) <= Cardinality(Handers(e))

\* The broker has no more copies of one message, queued or delivered and not
\* acknowledged, than there are publishers.
DeliveriesBounded ==
    \A e \in Events : /\ IsFiniteSet(Handling(e))
                      /\ queue[e] + Cardinality(Handling(e)) <= Cardinality(Publishers)

\* A worker that takes a message is the only change to who has one.
LEMMA HandlingTaken ==
    ASSUME FlowTypes, NEW w \in Workers, NEW e \in Events, NEW s \in Steps, Goto(w, e, s),
           cur[w] = None, UNCHANGED stale
    PROVE  /\ Handling(e)' = Handling(e) \cup {w} /\ w \notin Handling(e)
           /\ \A f \in Events \ {e} : Handling(f)' = Handling(f)
<1>1. /\ \A v \in Workers \ {w} : cur'[v] = cur[v]
      /\ cur'[w] = [event |-> e, step |-> s] /\ w \notin stale
  BY DEF FlowTypes, Goto
<1>2. [event |-> e, step |-> s] \in [event : Events, step : {"taken", "locked", "asked", "done"}]
  BY DEF Steps
<1>3. cur'[w] # None /\ cur'[w].event = e BY <1>1, <1>2, PipelineAssumption
<1> QED BY <1>1, <1>3 DEF Handling

\* One that goes on with its message is none.
LEMMA HandlingKept ==
    ASSUME FlowTypes, NEW w \in Workers, NEW e \in Events, NEW s \in Steps, Goto(w, e, s),
           cur[w] # None, cur[w].event = e, UNCHANGED stale
    PROVE  \A f \in Events : Handling(f)' = Handling(f)
<1>1. /\ \A v \in Workers \ {w} : cur'[v] = cur[v]
      /\ cur'[w] = [event |-> e, step |-> s]
  BY DEF FlowTypes, Goto
<1>2. [event |-> e, step |-> s] \in [event : Events, step : {"taken", "locked", "asked", "done"}]
  BY DEF Steps
<1>3. cur'[w] # None /\ cur'[w].event = e BY <1>1, <1>2, PipelineAssumption
<1> QED BY <1>1, <1>3 DEF Handling

\* A worker that lets its message go, or from which the broker takes it back, is the only
\* change, and none if it had been taken back before.
LEMMA HandlingDropped ==
    ASSUME FlowTypes, NEW w \in Workers, NEW e \in Events, cur[w] # None, cur[w].event = e,
           \/ cur' = [cur EXCEPT ![w] = None] /\ stale' = stale \ {w}
           \/ cur' = cur /\ stale' = stale \cup {w}
    PROVE  /\ Handling(e)' = Handling(e) \ {w} /\ (w \in Handling(e) <=> w \notin stale)
           /\ \A f \in Events \ {e} : Handling(f)' = Handling(f)
<1>1. CASE cur' = [cur EXCEPT ![w] = None] /\ stale' = stale \ {w}
  <2>1. cur'[w] = None /\ \A v \in Workers \ {w} : cur'[v] = cur[v] BY <1>1 DEF FlowTypes
  <2> QED BY <1>1, <2>1 DEF Handling
<1>2. CASE cur' = cur /\ stale' = stale \cup {w} BY <1>2 DEF Handling
<1> QED BY <1>1, <1>2

\* Every step keeps the copies and those who made them in balance.
LEMMA DeliveriesStep ==
    ASSUME IsFiniteSet(Publishers), PInv, DeliveriesHaveHanders, [PipelineNext]_vars
    PROVE  DeliveriesHaveHanders'
<1> USE DEF PInv
<1>a. \A e \in Events : /\ queue[e] \in Nat /\ Cardinality(Handers(e)) \in Nat
                        /\ IsFiniteSet(Handling(e)) /\ Cardinality(Handling(e)) \in Nat
                        /\ queue[e] + Cardinality(Handling(e)) <= Cardinality(Handers(e))
  BY HandersAreFinite, FS_CardinalityType DEF IInv, OutboxTypeOK, DeliveriesHaveHanders
<1>1. ASSUME UNCHANGED <<queue, handed>>, \A e \in Events : Handling(e)' = Handling(e)
      PROVE  DeliveriesHaveHanders'
  BY <1>1 DEF DeliveriesHaveHanders, Handers
<1>2. ASSUME NEW w \in Workers, NEW e \in Events, Take(w, e) PROVE DeliveriesHaveHanders'
  <2>1. /\ Handling(e)' = Handling(e) \cup {w} /\ w \notin Handling(e)
        /\ \A f \in Events \ {e} : Handling(f)' = Handling(f)
    BY <1>2, HandlingTaken DEF Take, Steps
  <2>2. IsFiniteSet(Handling(e)') /\ Cardinality(Handling(e)') = Cardinality(Handling(e)) + 1
    BY <1>a, <2>1, FS_AddElement
  <2>3. /\ queue'[e] = queue[e] - 1 /\ UNCHANGED handed
        /\ \A f \in Events \ {e} : queue'[f] = queue[f]
    BY <1>2 DEF Take, IInv, OutboxTypeOK
  <2>4. \A f \in Events : Handers(f)' = Handers(f) BY <2>3 DEF Handers
  <2>5. queue'[e] + Cardinality(Handling(e)') <= Cardinality(Handers(e)) BY <1>a, <2>2, <2>3
  <2> QED BY <1>a, <2>1, <2>2, <2>3, <2>4, <2>5 DEF DeliveriesHaveHanders
<1>3. ASSUME NEW w \in Workers, NEW e \in Events, NEW s \in Steps, NEW t \in Steps,
             At(w, e, s), Goto(w, e, t), UNCHANGED <<queue, handed, stale>>
      PROVE  DeliveriesHaveHanders'
  <2>1. cur[w] # None BY <1>3, OneStep
  <2>a. cur[w].event = e BY <1>3 DEF At
  <2>2. \A f \in Events : Handling(f)' = Handling(f)
    BY <1>3, <2>1, <2>a, HandlingKept
  <2> QED BY <1>1, <1>3, <2>2
<1>4. ASSUME NEW w \in Workers, NEW e \in Events,
             Lock(w, e) \/ Ask(w, e) \/ Record(w, e) \/ HandlerFails(w, e)
      PROVE  DeliveriesHaveHanders'
  BY <1>3, <1>4 DEF Lock, Ask, Record, HandlerFails, Steps, outboxVars
<1>5. ASSUME NEW w \in Workers, NEW e \in Events,
             Acknowledge(w, e) \/ ConsumerDies(w, e) \/ ConnectionLost(w, e)
      PROVE  DeliveriesHaveHanders'
  <2>1. cur[w] # None /\ cur[w].event = e
    <3>1. CASE Acknowledge(w, e)
      <4>1. At(w, e, "done") /\ "done" \in Steps BY <3>1 DEF Acknowledge, Steps
      <4>2. cur[w] # None BY <4>1, OneStep
      <4> QED BY <4>1, <4>2 DEF At
    <3>2. CASE ConsumerDies(w, e) \/ ConnectionLost(w, e) BY <3>2 DEF ConsumerDies, ConnectionLost
    <3> QED BY <1>5, <3>1, <3>2
  <2>2. /\ Handling(e)' = Handling(e) \ {w} /\ (w \in Handling(e) <=> w \notin stale)
        /\ \A f \in Events \ {e} : Handling(f)' = Handling(f)
    BY <1>5, <2>1, HandlingDropped DEF Acknowledge, ConsumerDies, ConnectionLost
  <2>3. /\ IsFiniteSet(Handling(e)')
        /\ Cardinality(Handling(e)') = Cardinality(Handling(e)) - (IF w \in stale THEN 0 ELSE 1)
    <3>1. CASE w \in stale
      <4>1. Handling(e)' = Handling(e) BY <2>2, <3>1
      <4> QED BY <1>a, <3>1, <4>1
    <3>2. CASE w \notin stale BY <1>a, <2>2, <3>2, FS_RemoveElement
    <3> QED BY <3>1, <3>2
  <2>4. /\ queue'[e] \in Nat /\ queue'[e] <= queue[e] + (IF w \in stale THEN 0 ELSE 1)
        /\ UNCHANGED handed /\ \A f \in Events \ {e} : queue'[f] = queue[f]
    BY <1>a, <1>5
       DEF Acknowledge, ConsumerDies, ConnectionLost, GiveBack, outboxVars, IInv, OutboxTypeOK
  <2>5. \A f \in Events : Handers(f)' = Handers(f) BY <2>4 DEF Handers
  <2>6. queue'[e] + Cardinality(Handling(e)') <= Cardinality(Handers(e)) BY <1>a, <2>3, <2>4
  <2>7. ASSUME NEW f \in Events
        PROVE  /\ IsFiniteSet(Handling(f)')
               /\ queue'[f] + Cardinality(Handling(f)') <= Cardinality(Handers(f)')
    <3>1. CASE f = e BY <3>1, <2>3, <2>5, <2>6
    <3>2. CASE f # e
      <4>1. Handling(f)' = Handling(f) /\ queue'[f] = queue[f] /\ Handers(f)' = Handers(f)
        BY <3>2, <2>2, <2>4, <2>5
      <4> QED BY <1>a, <4>1
    <3> QED BY <3>1, <3>2
  <2> QED BY <2>7 DEF DeliveriesHaveHanders
<1>6. ASSUME [OutboxNext]_outboxVars, UNCHANGED <<cur, stale>> PROVE DeliveriesHaveHanders'
  <2>1. \A e \in Events : Handling(e)' = Handling(e) BY <1>6 DEF Handling
  <2>2. ASSUME NEW k \in Publishers, NEW e \in Events, Publish(k, e)
        PROVE  DeliveriesHaveHanders'
    BY <1>a, <2>1, <2>2, PublishHands DEF DeliveriesHaveHanders
  <2> QED BY <1>1, <1>6, <2>1, <2>2, OnlyPublishHands
<1>7. ASSUME NEW k \in Publishers, PublisherWorks(k) \/ PublisherFails(k)
      PROVE  DeliveriesHaveHanders'
  BY <1>6, <1>7 DEF PublisherWorks, PublisherFails, OutboxNext, flowVars
<1>8. ASSUME NEW e \in Events, CreatePayment(e) PROVE DeliveriesHaveHanders'
  BY <1>6, <1>8 DEF CreatePayment, OutboxNext
<1>9. ASSUME NEW e \in Events, Webhook(e) \/ WebhookLost(e) PROVE DeliveriesHaveHanders'
  BY <1>6, <1>9 DEF Webhook, WebhookLost
<1>10. CASE ConsumerStarts \/ ProviderRestarts \/ UNCHANGED vars
  BY <1>6, <1>10 DEF ConsumerStarts, ProviderRestarts, OutboxNext, vars, flowVars
<1> QED BY <1>2, <1>4, <1>5, <1>7, <1>8, <1>9, <1>10 DEF PipelineNext, WorkerStep

\* The broker has no more copies of a payment's message, queued or delivered and not
\* acknowledged, than there are publishers, however often it delivers again.  With the one
\* that docker-compose runs, two workers handle one payment at once only if all but one
\* of them have lost their connection and go on with a message they no longer have.
THEOREM DeliveriesAreBounded ==
    ASSUME IsFiniteSet(Publishers)
    PROVE  PipelineSpec => []DeliveriesBounded
<1>1. PipelineInit => DeliveriesHaveHanders
  <2> SUFFICES ASSUME PipelineInit, NEW e \in Events
               PROVE  /\ IsFiniteSet(Handling(e))
                      /\ queue[e] + Cardinality(Handling(e)) <= Cardinality(Handers(e))
    BY DEF DeliveriesHaveHanders
  <2>1. Handling(e) = {} BY DEF PipelineInit, Handling
  <2>2. queue[e] = 0 BY DEF PipelineInit, OutboxInit
  <2> QED BY <2>1, <2>2, FS_EmptySet, HandersAreFinite
<1>2. PInv /\ DeliveriesHaveHanders /\ [PipelineNext]_vars => DeliveriesHaveHanders'
  BY DeliveriesStep
<1>3. PInv /\ DeliveriesHaveHanders => DeliveriesBounded
  <2> SUFFICES ASSUME PInv, DeliveriesHaveHanders, NEW e \in Events
               PROVE  /\ IsFiniteSet(Handling(e))
                      /\ queue[e] + Cardinality(Handling(e)) <= Cardinality(Publishers)
    BY DEF DeliveriesBounded
  <2>1. /\ queue[e] \in Nat /\ Cardinality(Handling(e)) \in Nat
        /\ IsFiniteSet(Handling(e))
        /\ queue[e] + Cardinality(Handling(e)) <= Cardinality(Handers(e))
    BY FS_CardinalityType DEF PInv, IInv, OutboxTypeOK, DeliveriesHaveHanders
  <2> QED BY <2>1, HandersAreFinite
<1> QED BY <1>1, <1>2, <1>3, PipelineInvariance, PTL DEF PipelineSpec

-----------------------------------------------------------------------------
(* How often the provider is asked *)

\* Failures pay for all payments at the provider but the one that is, or will be,
\* recorded.
AskedIsPaid ==
    \A e \in Events :
        /\ asked[e] <= 1 + faults
        /\ pay[e] \in {"none", "created"} /\ (\A w \in Workers : ~ At(w, e, "asked"))
              => asked[e] <= faults

\* A step that asks nobody keeps the count, if it leaves "created" alone or a
\* worker that was past asking loses its payment to a failure.
LEMMA AskedKept ==
    ASSUME PInv, AskedIsPaid, asked' = asked, faults' \in Nat, faults <= faults',
           \A e \in Events :
              \/ faults' = faults + 1
              \/ /\ pay'[e] \in {"none", "created"} => pay[e] \in {"none", "created"}
                 /\ \A w \in Workers : At(w, e, "asked") =>
                       At(w, e, "asked")' \/ pay'[e] \notin {"none", "created"}
    PROVE  AskedIsPaid'
<1> SUFFICES ASSUME NEW e \in Events
             PROVE  /\ asked[e] <= 1 + faults'
                    /\ pay'[e] \in {"none", "created"} /\ (\A w \in Workers : ~ At(w, e, "asked")')
                          => asked[e] <= faults'
  BY DEF AskedIsPaid
<1>1. asked[e] \in Nat /\ faults \in Nat /\ asked[e] <= 1 + faults
  BY PipelineAssumption DEF PInv, FlowTypes, AskedIsPaid
<1>2. CASE faults' = faults + 1 BY <1>1, <1>2
<1>3. CASE faults' # faults + 1 BY <1>1, <1>3 DEF AskedIsPaid
<1> QED BY <1>2, <1>3

\* Every step keeps the count of what failures pay for.
LEMMA AskedStep == PInv /\ AskedIsPaid /\ [PipelineNext]_vars => AskedIsPaid'
<1> SUFFICES ASSUME PInv, AskedIsPaid, [PipelineNext]_vars PROVE AskedIsPaid'
  OBVIOUS
<1> USE DEF PInv
<1>0. faults \in Nat BY PipelineAssumption DEF FlowTypes
<1>1. ASSUME UNCHANGED <<pay, cur, asked, faults>> PROVE AskedIsPaid'
  BY <1>0, <1>1, AskedKept DEF At
<1>2. ASSUME UNCHANGED asked, faults' = faults + 1 PROVE AskedIsPaid'
  BY <1>0, <1>2, AskedKept
<1>3. ASSUME NEW w \in Workers, NEW e \in Events, Ask(w, e) PROVE AskedIsPaid'
  <2>1. Holds(w, e) /\ pay[e] = "created" /\ ~ At(w, e, "asked")
    BY <1>3 DEF Ask, Holds, HeldIsCreated, At
  <2>2. \A v \in Workers : ~ At(v, e, "asked") BY <2>1 DEF OneHolder, Holds
  <2>3. asked[e] <= faults /\ asked[e] \in Nat BY <2>1, <2>2 DEF AskedIsPaid, FlowTypes
  <2>4. /\ asked'[e] = asked[e] + 1 /\ \A f \in Events \ {e} : asked'[f] = asked[f]
        /\ UNCHANGED <<pay, faults>>
    BY <1>3 DEF Ask, FlowTypes
  <2>5. At(w, e, "asked")' /\ \A v \in Workers, f \in Events \ {e} : At(v, f, "asked")' <=> At(v, f, "asked")
    BY <1>3 DEF Ask, Goto, At, FlowTypes
  <2> QED BY <1>0, <2>3, <2>4, <2>5 DEF AskedIsPaid
<1>4. ASSUME NEW w \in Workers, NEW e \in Events,
             Take(w, e) \/ Lock(w, e) \/ Record(w, e) \/ Acknowledge(w, e)
      PROVE  AskedIsPaid'
  <2>1. UNCHANGED <<asked, faults>>
    BY <1>4 DEF Take, Lock, Record, Acknowledge
  <2>2. ASSUME NEW f \in Events
        PROVE  pay'[f] \in {"none", "created"} => pay[f] \in {"none", "created"}
    BY <1>4 DEF Take, Lock, Record, Acknowledge, FlowTypes
  <2>3. ASSUME NEW f \in Events, NEW v \in Workers, At(v, f, "asked")
        PROVE  At(v, f, "asked")' \/ pay'[f] \notin {"none", "created"}
    <3>1. CASE v # w
      <4>1. cur'[v] = cur[v]
        BY <1>4, <3>1 DEF Take, Lock, Record, Acknowledge, Goto, FlowTypes
      <4> QED BY <2>3, <4>1 DEF At
    <3>2. CASE v = w /\ Record(w, e)
      BY <2>3, <3>2 DEF Record, At, FlowTypes
    <3>3. CASE v = w /\ ~ Record(w, e)
      <4>1. cur[w] = [event |-> f, step |-> "asked"] BY <2>3, <3>3 DEF At
      <4>2. cur[w] # None
        <5>1. [event |-> f, step |-> "asked"] \in [event : Events, step : {"taken", "locked", "asked", "done"}]
          OBVIOUS
        <5> QED BY <4>1, <5>1, PipelineAssumption
      <4> QED BY <1>4, <3>3, <4>1, <4>2 DEF Take, Lock, Acknowledge, At
    <3> QED BY <3>1, <3>2, <3>3
  <2> QED BY <1>0, <2>1, <2>2, <2>3, AskedKept
<1>5. ASSUME NEW w \in Workers, NEW e \in Events,
             HandlerFails(w, e) \/ ConsumerDies(w, e) \/ ConnectionLost(w, e)
      PROVE  AskedIsPaid'
  BY <1>2, <1>5 DEF HandlerFails, ConsumerDies, ConnectionLost, Fault
<1>6. ASSUME NEW e \in Events, CreatePayment(e) PROVE AskedIsPaid'
  <2>1. \A f \in Events : pay'[f] \in {"none", "created"} => pay[f] \in {"none", "created"}
    BY <1>6 DEF CreatePayment, FlowTypes
  <2> QED BY <1>0, <1>6, <2>1, AskedKept DEF CreatePayment, At
<1>7. ASSUME NEW e \in Events, Webhook(e) PROVE AskedIsPaid'
  <2>1. \A f \in Events : pay'[f] \in {"none", "created"} => pay[f] \in {"none", "created"}
    BY <1>7, DecisionIsFinal DEF Webhook, FlowTypes, Final
  <2> QED BY <1>0, <1>7, <2>1, AskedKept DEF Webhook, At
<1>8. ASSUME NEW e \in Events, WebhookLost(e) PROVE AskedIsPaid'
  BY <1>2, <1>8 DEF WebhookLost, Fault
<1>9. ASSUME NEW k \in Publishers, PublisherWorks(k) \/ PublisherFails(k) PROVE AskedIsPaid'
  BY <1>1, <1>2, <1>9 DEF PublisherWorks, PublisherFails, Fault, flowVars
<1>10. CASE ConsumerStarts BY <1>1, <1>10 DEF ConsumerStarts, flowVars
<1>11. CASE UNCHANGED vars BY <1>1, <1>11 DEF vars, flowVars
<1>12. CASE ProviderRestarts BY <1>2, <1>12 DEF ProviderRestarts, Fault
<1> QED
  BY <1>3, <1>4, <1>5, <1>6, <1>7, <1>8, <1>9, <1>10, <1>11, <1>12 DEF PipelineNext, WorkerStep

\* A second payment at the provider takes a failure between its answer and the
\* commit (handle_payment_created), whatever the queue does.
THEOREM AskedAgainAfterFault == PipelineSpec => []AskedOncePerFault
<1>1. PipelineInit => AskedIsPaid
  BY DEF PipelineInit, AskedIsPaid
<1>2. AskedIsPaid => AskedOncePerFault
  BY DEF AskedIsPaid, AskedOncePerFault
<1> QED BY <1>1, <1>2, AskedStep, PipelineInvariance, PTL DEF PipelineSpec

-----------------------------------------------------------------------------
(* Refinement of PaymentLife: what messages, redeliveries and callbacks do   *)
(* to a payment row are steps of its life.                                   *)

\* The provider calls back about payments it has created, and creates them for
\* rows that are there.
DueIsAsked ==
    \A e \in Events : /\ due[e] <= asked[e]
                      /\ pay[e] = "none" => asked[e] = 0

LEMMA DueStep == PInv /\ DueIsAsked /\ [PipelineNext]_vars => DueIsAsked'
<1> SUFFICES ASSUME PInv, DueIsAsked, [PipelineNext]_vars PROVE DueIsAsked'
  OBVIOUS
<1> USE DEF PInv, FlowTypes
<1>1. ASSUME UNCHANGED <<due, asked>>,
             \A e \in Events : pay'[e] = "none" => pay[e] = "none"
      PROVE  DueIsAsked'
  BY <1>1 DEF DueIsAsked
<1>2. ASSUME NEW w \in Workers, NEW e \in Events, Ask(w, e) PROVE DueIsAsked'
  <2>1. pay[e] = "created"
    BY <1>2 DEF Ask, HeldIsCreated, Holds
  <2>2. /\ asked'[e] = asked[e] + 1 /\ due'[e] = due[e] + 1 /\ UNCHANGED pay
        /\ \A f \in Events \ {e} : asked'[f] = asked[f] /\ due'[f] = due[f]
    BY <1>2 DEF Ask
  <2>3. asked[e] \in Nat /\ due[e] \in Nat /\ due[e] <= asked[e]
    BY DEF DueIsAsked
  <2>4. due'[e] <= asked'[e]
    BY <2>2, <2>3
  <2> QED BY <2>1, <2>2, <2>4 DEF DueIsAsked
<1>3. ASSUME NEW e \in Events, Webhook(e) \/ WebhookLost(e) PROVE DueIsAsked'
  <2>1. /\ due'[e] = due[e] - 1 /\ UNCHANGED asked
        /\ \A f \in Events \ {e} : due'[f] = due[f]
        /\ \A f \in Events : pay'[f] = "none" => pay[f] = "none"
    BY <1>3, DecisionIsFinal DEF Webhook, WebhookLost, Final
  <2>2. asked[e] \in Nat /\ due[e] \in Nat /\ due[e] <= asked[e]
    BY DEF DueIsAsked
  <2>3. due'[e] <= asked'[e]
    BY <2>1, <2>2
  <2> QED BY <2>1, <2>3 DEF DueIsAsked
<1>4. ASSUME NEW w \in Workers, NEW e \in Events,
             \/ Take(w, e) \/ Lock(w, e) \/ Record(w, e) \/ Acknowledge(w, e)
             \/ HandlerFails(w, e) \/ ConsumerDies(w, e) \/ ConnectionLost(w, e)
      PROVE  DueIsAsked'
  BY <1>1, <1>4 DEF Take, Lock, Record, Acknowledge, HandlerFails, ConsumerDies, ConnectionLost
<1>5. ASSUME NEW e \in Events, CreatePayment(e) PROVE DueIsAsked'
  BY <1>1, <1>5 DEF CreatePayment
<1>6. ASSUME NEW k \in Publishers, PublisherWorks(k) \/ PublisherFails(k) PROVE DueIsAsked'
  BY <1>1, <1>6 DEF PublisherWorks, PublisherFails, flowVars
<1>7. CASE ConsumerStarts \/ UNCHANGED vars
  BY <1>1, <1>7 DEF ConsumerStarts, vars, flowVars
<1>8. CASE ProviderRestarts BY <1>8 DEF ProviderRestarts, DueIsAsked
<1> QED BY <1>2, <1>3, <1>4, <1>5, <1>6, <1>7, <1>8 DEF PipelineNext, WorkerStep

\* How far worker w is with payment e's row, and what the life of a payment sees.
Come(w, e) == IF At(w, e, "asked") THEN "asked"
              ELSE IF At(w, e, "locked") THEN "locked" ELSE "free"
Helds == [e \in Events |-> HeldAs(e)]
Askeds == [e \in Events |-> {e} \X (1 .. asked[e])]

\* A worker's step shows on the row it holds, or comes to hold, only.
LEMMA HolderShows ==
    ASSUME NEW w \in Workers, NEW e \in Events,
           \A v \in Workers \ {w} : cur'[v] = cur[v] /\ ~ Holds(v, e),
           \A f \in Events \ {e} : ~ Holds(w, f) /\ ~ Holds(w, f)'
    PROVE  /\ Helds[e] = Come(w, e)
           /\ Helds' = [Helds EXCEPT ![e] = Come(w, e)']
<1>1. \A v \in Workers \ {w}, f \in Events, s \in {"locked", "asked"} : At(v, f, s)' <=> At(v, f, s)
  BY DEF At
<1>2. HeldAs(e) = Come(w, e) /\ HeldAs(e)' = Come(w, e)'
  BY <1>1 DEF HeldAs, Come, Holds
<1>3. \A f \in Events \ {e} : HeldAs(f)' = HeldAs(f)
  BY <1>1 DEF HeldAs, Holds
<1> QED BY <1>2, <1>3 DEF Helds

\* A worker that holds nothing, before and after, shows nowhere.
LEMMA NothingHeldShows ==
    ASSUME NEW w \in Workers, \A v \in Workers \ {w} : cur'[v] = cur[v],
           \A f \in Events : ~ Holds(w, f) /\ ~ Holds(w, f)'
    PROVE  Helds' = Helds
<1>1. \A v \in Workers, f \in Events, s \in {"locked", "asked"} : At(v, f, s)' <=> At(v, f, s)
  BY DEF At, Holds
<1> QED BY <1>1 DEF Helds, HeldAs

LEMMA NoShow == ASSUME UNCHANGED <<pay, cur, asked>> PROVE UNCHANGED Life!vars
BY DEF Life!vars, HeldAs, At

LEMMA LockLives ==
    ASSUME PInv, NEW w \in Workers, NEW e \in Events, Lock(w, e)
    PROVE  Life!Lock(e) \/ UNCHANGED Life!vars
<1> USE DEF PInv, FlowTypes
<1> DEFINE s == IF pay[e] = "created" THEN "locked" ELSE "done"
<1>1. /\ At(w, e, "taken") /\ Goto(w, e, s) /\ s \in Steps /\ UNCHANGED <<pay, asked>>
      /\ cur' = [cur EXCEPT ![w] = [event |-> e, step |-> s]]
  BY DEF Lock, Goto, Steps
<1>2. \A f \in Events : ~ Holds(w, f)
  BY <1>1, OneStep DEF Holds, Steps
<1>3. \A f \in Events : Holds(w, f)' <=> f = e /\ s = "locked"
  BY <1>1, GotoHolds
<1>4. \A v \in Workers \ {w} : cur'[v] = cur[v] /\ ~ Holds(v, e)
  BY <1>1 DEF Lock, RowFree, Holds
<1>5. Askeds' = Askeds
  BY <1>1 DEF Askeds
<1>6. CASE pay[e] = "created"
  <2>1. Come(w, e) = "free" /\ Come(w, e)' = "locked"
    BY <1>1, <1>2, <1>6 DEF Come, At, Holds
  <2>2. Helds[e] = "free" /\ Helds' = [Helds EXCEPT ![e] = "locked"]
    BY <1>2, <1>3, <1>4, <2>1, HolderShows
  <2> QED BY <1>1, <1>5, <1>6, <2>2 DEF Life!Lock, Helds, Askeds
<1>7. CASE pay[e] # "created"
  <2>1. Helds' = Helds
    BY <1>2, <1>3, <1>4, <1>7, NothingHeldShows
  <2> QED BY <1>1, <1>5, <2>1 DEF Life!vars, Helds, Askeds
<1> QED BY <1>6, <1>7

\* The worker that holds e's row, and nobody else's.
LEMMA OneRowHeld ==
    ASSUME PInv, NEW w \in Workers, NEW e \in Events, Holds(w, e)
    PROVE  /\ \A v \in Workers \ {w} : ~ Holds(v, e)
           /\ \A f \in Events \ {e} : ~ Holds(w, f)
<1>1. \A v \in Workers \ {w} : ~ Holds(v, e)
  BY DEF PInv, OneHolder
<1>2. \A f \in Events \ {e} : ~ Holds(w, f)
  BY DEF Holds, At
<1> QED BY <1>1, <1>2

LEMMA AskLives ==
    ASSUME PInv, AskedIsPaid, NEW w \in Workers, NEW e \in Events, Ask(w, e)
    PROVE  Life!Ask(e)
<1> USE DEF PInv, FlowTypes
<1>1. /\ At(w, e, "locked") /\ Goto(w, e, "asked") /\ "asked" \in Steps /\ UNCHANGED pay
      /\ cur' = [cur EXCEPT ![w] = [event |-> e, step |-> "asked"]]
      /\ asked'[e] = asked[e] + 1 /\ \A f \in Events \ {e} : asked'[f] = asked[f]
  BY DEF Ask, Goto, Steps
<1>2. Holds(w, e) /\ ~ At(w, e, "asked")
  BY <1>1 DEF Holds, At
<1>3. /\ \A v \in Workers \ {w} : cur'[v] = cur[v] /\ ~ Holds(v, e)
      /\ \A f \in Events \ {e} : ~ Holds(w, f) /\ ~ Holds(w, f)'
  BY <1>1, <1>2, OneRowHeld, GotoHolds
<1>4. Come(w, e) = "locked" /\ Come(w, e)' = "asked"
  BY <1>1, <1>2 DEF Come, At
<1>5. Helds[e] = "locked" /\ Helds' = [Helds EXCEPT ![e] = "asked"]
  BY <1>3, <1>4, HolderShows
<1> DEFINE n == asked[e]
           id == <<e, n + 1>>
<1>6. n \in Nat /\ n <= faults
  <2>1. pay[e] = "created" /\ \A v \in Workers : ~ At(v, e, "asked")
    BY <1>2, <1>3 DEF HeldIsCreated, Holds
  <2> QED BY <2>1 DEF AskedIsPaid
<1>7. n + 1 \in 1 .. MaxFaults + 1
  BY <1>6, PipelineAssumption
<1>8. \A f \in Events : id \notin Askeds[f]
  BY <1>6 DEF Askeds
<1>9. Askeds' = [Askeds EXCEPT ![e] = @ \cup {id}]
  <2>1. {e} \X (1 .. n + 1) = ({e} \X (1 .. n)) \cup {id}
    BY <1>6
  <2>2. \A f \in Events \ {e} : {f} \X (1 .. asked'[f]) = {f} \X (1 .. asked[f])
    BY <1>1
  <2> QED BY <1>1, <2>1, <2>2 DEF Askeds
<1>10. id \in Events \X (1 .. MaxFaults + 1)
  BY <1>7
<1> HIDE DEF id
<1> QED BY <1>1, <1>5, <1>8, <1>9, <1>10 DEF Life!Ask, Helds, Askeds

LEMMA RecordLives ==
    ASSUME PInv, NEW w \in Workers, NEW e \in Events, Record(w, e)
    PROVE  Life!Record(e)
<1> USE DEF PInv, FlowTypes
<1>1. /\ At(w, e, "asked") /\ Goto(w, e, "done") /\ "done" \in Steps /\ UNCHANGED asked
      /\ cur' = [cur EXCEPT ![w] = [event |-> e, step |-> "done"]]
      /\ pay' = [pay EXCEPT ![e] = "processing"]
  BY DEF Record, Goto, Steps
<1>2. Holds(w, e)
  BY <1>1 DEF Holds
<1>3. /\ \A v \in Workers \ {w} : cur'[v] = cur[v] /\ ~ Holds(v, e)
      /\ \A f \in Events \ {e} : ~ Holds(w, f) /\ ~ Holds(w, f)'
  BY <1>1, <1>2, OneRowHeld, GotoHolds
<1>4. Come(w, e) = "asked" /\ Come(w, e)' = "free"
  BY <1>1 DEF Come, At
<1>5. Helds[e] = "asked" /\ Helds' = [Helds EXCEPT ![e] = "free"]
  BY <1>3, <1>4, HolderShows
<1> QED BY <1>1, <1>5 DEF Life!Record, Helds, Askeds

\* A failure gives up the row that was held.
LEMMA ReleaseLives ==
    ASSUME PInv, NEW w \in Workers, NEW e \in Events, Holds(w, e),
           \A v \in Workers \ {w} : cur'[v] = cur[v],
           \A f \in Events : ~ Holds(w, f)', UNCHANGED <<pay, asked>>
    PROVE  Life!Release(e)
<1>1. /\ \A v \in Workers \ {w} : cur'[v] = cur[v] /\ ~ Holds(v, e)
      /\ \A f \in Events \ {e} : ~ Holds(w, f) /\ ~ Holds(w, f)'
  BY OneRowHeld
<1>2. Come(w, e) # "free" /\ Come(w, e)' = "free"
  BY DEF Come, Holds
<1>3. Helds[e] # "free" /\ Helds' = [Helds EXCEPT ![e] = "free"]
  BY <1>1, <1>2, HolderShows
<1> QED BY <1>3 DEF Life!Release, Helds, Askeds

LEMMA FailureLives ==
    ASSUME PInv, NEW w \in Workers, NEW e \in Events, HandlerFails(w, e) \/ ConsumerDies(w, e)
    PROVE  Life!Release(e) \/ UNCHANGED Life!vars
<1> USE DEF PInv, FlowTypes
<1>1. UNCHANGED <<pay, asked>> /\ (\A v \in Workers \ {w} : cur'[v] = cur[v])
  BY DEF HandlerFails, ConsumerDies, Goto
<1>2. \A f \in Events : ~ Holds(w, f)'
  <2>1. CASE HandlerFails(w, e)
    BY <2>1, GotoHolds DEF HandlerFails, Steps
  <2>2. CASE ConsumerDies(w, e)
    BY <2>2, DropHolds DEF ConsumerDies
  <2> QED BY <2>1, <2>2
<1>3. CASE Holds(w, e)
  BY <1>1, <1>2, <1>3, ReleaseLives
<1>4. CASE ~ Holds(w, e)
  <2>1. \A f \in Events : ~ Holds(w, f)
    BY <1>4 DEF HandlerFails, ConsumerDies, Holds, At
  <2>2. Helds' = Helds
    BY <1>1, <1>2, <2>1, NothingHeldShows
  <2> QED BY <1>1, <2>2 DEF Life!vars, Helds
<1> QED BY <1>3, <1>4

\* Messages come and go without a lock on the row.
LEMMA MessagesDoNotShow ==
    ASSUME PInv, NEW w \in Workers, NEW e \in Events, Take(w, e) \/ Acknowledge(w, e)
    PROVE  UNCHANGED Life!vars
<1> USE DEF PInv, FlowTypes
<1>1. UNCHANGED <<pay, asked>> /\ (\A v \in Workers \ {w} : cur'[v] = cur[v])
  BY DEF Take, Acknowledge, Goto
<1>2. \A f \in Events : ~ Holds(w, f) /\ ~ Holds(w, f)'
  <2>1. CASE Take(w, e)
    BY <2>1, OneStep, GotoHolds DEF Take, Holds, Steps
  <2>2. CASE Acknowledge(w, e)
    BY <2>2, OneStep, DropHolds DEF Acknowledge, Holds, Steps
  <2> QED BY <2>1, <2>2
<1>3. Helds' = Helds
  BY <1>1, <1>2, NothingHeldShows
<1> QED BY <1>1, <1>3 DEF Life!vars, Helds

\* The callback answers for an open payment; it leaves a settled one alone.
LEMMA WebhookLives ==
    ASSUME PInv, DueIsAsked, NEW e \in Events, Webhook(e)
    PROVE  Life!Answer(e, Decision[e]) \/ UNCHANGED Life!vars
<1> USE DEF PInv, FlowTypes
<1>1. UNCHANGED <<cur, asked>> /\ due[e] > 0 /\ RowFree(e)
  BY DEF Webhook
<1>2. Helds' = Helds /\ Askeds' = Askeds
  BY <1>1 DEF Helds, Askeds, HeldAs, At
<1>3. CASE pay[e] \in Final
  BY <1>1, <1>2, <1>3 DEF Webhook, Life!vars, Helds, Askeds
<1>4. CASE pay[e] \notin Final
  <2>1. asked[e] \in Nat /\ due[e] \in Nat /\ due[e] <= asked[e]
    BY DEF DueIsAsked
  <2>2. asked[e] > 0 /\ pay[e] # "none"
    BY <1>1, <2>1 DEF DueIsAsked
  <2>3. pay[e] \in {"created", "processing"}
    BY <1>4, <2>2
  <2>4. <<e, 1>> \in {e} \X (1 .. asked[e])
    BY <2>1, <2>2
  <2>5. Askeds[e] # {}
    BY <2>4 DEF Askeds
  <2>6. Helds[e] = "free"
    BY <1>1 DEF Helds, HeldAs, RowFree
  <2>7. pay' = [pay EXCEPT ![e] = Decision[e]]
    BY <1>4 DEF Webhook
  <2> QED BY <1>2, <2>3, <2>5, <2>6, <2>7 DEF Life!Answer, Life!Open, Helds, Askeds
<1> QED BY <1>3, <1>4

LEMMA PipelineLives ==
    PInv /\ AskedIsPaid /\ DueIsAsked /\ [PipelineNext]_vars => [Life!Next]_(Life!vars)
<1> SUFFICES ASSUME PInv, AskedIsPaid, DueIsAsked, [PipelineNext]_vars
             PROVE  [Life!Next]_(Life!vars)
  OBVIOUS
<1>1. ASSUME NEW w \in Workers, NEW e \in Events,
             \/ Lock(w, e) \/ Ask(w, e) \/ Record(w, e)
             \/ HandlerFails(w, e) \/ ConsumerDies(w, e)
      PROVE  [Life!Next]_(Life!vars)
  <2>1. \/ Life!Lock(e) \/ Life!Ask(e) \/ Life!Record(e) \/ Life!Release(e)
        \/ UNCHANGED Life!vars
    BY <1>1, LockLives, AskLives, RecordLives, FailureLives
  <2> QED BY <2>1 DEF Life!Next
<1>2. ASSUME NEW w \in Workers, NEW e \in Events, Take(w, e) \/ Acknowledge(w, e)
      PROVE  UNCHANGED Life!vars
  BY <1>2, MessagesDoNotShow
<1>3. ASSUME NEW e \in Events, CreatePayment(e) PROVE Life!Next
  <2>1. Life!Create(e)
    BY <1>3 DEF CreatePayment, Life!Create, HeldAs, At
  <2> QED BY <2>1 DEF Life!Next
<1>4. ASSUME NEW e \in Events, Webhook(e) PROVE [Life!Next]_(Life!vars)
  <2>1. Life!Answer(e, Decision[e]) \/ UNCHANGED Life!vars
    BY <1>4, WebhookLives
  <2>2. Decision[e] \in Life!Final
    BY DecisionIsFinal DEF Final, Life!Final
  <2> QED BY <2>1, <2>2 DEF Life!Next
<1>5. ASSUME NEW e \in Events, WebhookLost(e) PROVE UNCHANGED Life!vars
  BY <1>5, NoShow DEF WebhookLost
<1>8. ASSUME NEW w \in Workers, NEW e \in Events, ConnectionLost(w, e)
      PROVE  UNCHANGED Life!vars
  BY <1>8, NoShow DEF ConnectionLost
<1>9. CASE ProviderRestarts BY <1>9, NoShow DEF ProviderRestarts
<1>6. ASSUME NEW k \in Publishers, PublisherWorks(k) \/ PublisherFails(k)
      PROVE  UNCHANGED Life!vars
  BY <1>6, NoShow DEF PublisherWorks, PublisherFails, flowVars
<1>7. CASE ConsumerStarts \/ UNCHANGED vars
  BY <1>7, NoShow DEF ConsumerStarts, vars, flowVars
<1> QED BY <1>1, <1>2, <1>3, <1>4, <1>5, <1>6, <1>7, <1>8, <1>9 DEF PipelineNext, WorkerStep

\* Whatever is published twice, delivered again, fails or comes late, a payment row
\* takes the steps of its life only, as it does under the statements of the
\* transactions (PaymentTransactionsProofs).
THEOREM PipelineLife == PipelineSpec => RefinesLife
<1>1. PipelineInit => AskedIsPaid /\ DueIsAsked /\ Life!Init
  <2> SUFFICES ASSUME PipelineInit PROVE AskedIsPaid /\ DueIsAsked /\ Life!Init
    OBVIOUS
  <2>1. AskedIsPaid /\ DueIsAsked
    BY DEF PipelineInit, AskedIsPaid, DueIsAsked
  <2>2. \A e \in Events : HeldAs(e) = "free"
    BY PInit DEF PInv, HeldIsCreated, Holds, HeldAs, PipelineInit
  <2>3. \A e \in Events : {e} \X (1 .. asked[e]) = {}
    BY DEF PipelineInit
  <2>4. Life!Init
    BY <2>2, <2>3 DEF PipelineInit, Life!Init
  <2> QED BY <2>1, <2>4
<1>2. PipelineSpec => [](AskedIsPaid /\ DueIsAsked)
  BY <1>1, AskedStep, DueStep, PipelineInvariance, PTL DEF PipelineSpec
<1>3. PipelineSpec => Life!Init /\ [][Life!Next]_(Life!vars)
  BY <1>1, <1>2, PipelineLives, PipelineInvariance, PTL DEF PipelineSpec
<1> QED BY <1>3 DEF RefinesLife, Life!Spec

-----------------------------------------------------------------------------
(* What failures lose *)

Open == {e \in Events : pay[e] \in {"created", "processing"}}

\* Publishers that are about to hand e on, or to mark it failed; workers that handle e
\* while the broker waits for their acknowledgement; workers that have asked the provider
\* about it.
AtPublisher(e) == \E k \in Publishers : Current(k, e) /\ at[k] = "publishing"
Failing(e) == \E k \in Publishers : Current(k, e) /\ at[k] = "failing"
AtWorker(e) == \E w \in Workers \ stale : At(w, e, "taken") \/ Holds(w, e)
Asking(e) == \E w \in Workers : At(w, e, "asked")

\* Something carries e that the next step of a healthy process passes on.
InHand(e) == row[e] = "pending" \/ AtPublisher(e) \/ queue[e] > 0 \/ AtWorker(e)

Safe(e) == due[e] > 0 \/ (pay[e] = "created" /\ InHand(e))

\* A failure has happened already that will leave e behind: its row is about to be
\* marked failed, or the callback of the payment being recorded is lost.
Doomed(e) == Failing(e) \/ (due[e] = 0 /\ Asking(e))

Lost == {e \in Open : ~ Safe(e) \/ Doomed(e)}

\* A committed row finds a queue bound, and a batch holds committed rows.
RowsAndQueue ==
    \A e \in Events : /\ row[e] # "none" => bound
                      /\ \A k \in Publishers : e \in batch[k] => row[e] # "none"

\* A lost payment was lost by a failure that concerned it.
LossIsHit == Lost \subseteq hit

\* What is forgotten is lost.
LEMMA ForgottenIsLost == ASSUME PInv PROVE Forgotten \subseteq Lost
<1> SUFFICES ASSUME NEW e \in Forgotten PROVE e \in Lost
  OBVIOUS
<1>1. ASSUME NEW w \in Workers, NEW s \in {"taken", "locked", "asked"}, At(w, e, s)
      PROVE  cur[w] # None /\ cur[w].event = e /\ cur[w].step # "done"
  <2>1. [event |-> e, step |-> s] \in [event : Events, step : {"taken", "locked", "asked", "done"}]
    BY DEF Forgotten
  <2> QED BY <1>1, <2>1, PipelineAssumption DEF At
<1> QED BY <1>1 DEF Forgotten, Lost, Open, Safe, InHand, AtPublisher, AtWorker, Holds, Carried, Current

\* With the queue declared first, rows are committed to a bound queue.
LEMMA RowsAndQueueStep ==
    ASSUME QueueFirst = TRUE, PInv, RowsAndQueue, [PipelineNext]_vars PROVE RowsAndQueue'
<1> USE DEF PInv, IInv, OutboxTypeOK, RowsAndQueue
<1>1. ASSUME NEW k \in Publishers, Poll(k) PROVE RowsAndQueue'
  <2>1. PICK S \in SUBSET {e \in Events : row[e] = "pending" /\ Unlocked(k, e)} :
            batch' = [batch EXCEPT ![k] = S]
    BY <1>1 DEF Poll
  <2>2. UNCHANGED <<row, bound>> BY <1>1 DEF Poll
  <2>3. \A e \in S : row[e] # "none" OBVIOUS
  <2> QED BY <2>1, <2>2, <2>3
<1>2. ASSUME NEW k \in Publishers, NEW e \in Events,
             MarkProcessing(k, e) \/ Publish(k, e) \/ MarkSent(k, e) \/ MarkFailed(k, e)
      PROVE  RowsAndQueue'
  <2>1. e \in batch[k] /\ bound' = bound
    BY <1>2 DEF MarkProcessing, Publish, MarkSent, MarkFailed, Current
  <2>2. \A j \in Publishers : batch'[j] \subseteq batch[j]
    BY <1>2 DEF MarkProcessing, Publish, MarkSent, MarkFailed, Finish
  <2>3. \A f \in Events : row'[f] = row[f] \/ (f = e /\ row'[f] # "none")
    BY <1>2 DEF MarkProcessing, Publish, MarkSent, MarkFailed
  <2> QED BY <2>1, <2>2, <2>3
<1>3. ASSUME NEW k \in Publishers, PublisherFails(k) PROVE RowsAndQueue'
  BY <1>3 DEF PublisherFails, Error, Abandon
<1>4. ASSUME NEW e \in Events, CreatePayment(e) PROVE RowsAndQueue'
  BY <1>4 DEF CreatePayment, Enqueue
<1>5. CASE ConsumerStarts BY <1>5 DEF ConsumerStarts, DeclareQueue
<1>6. CASE UNCHANGED <<row, batch, bound>> BY <1>6
<1> QED
  BY <1>1, <1>2, <1>3, <1>4, <1>5, <1>6 DEF PipelineNext, PublisherWorks, PublisherStep, WorkerStep,
       Take, Lock, Ask, Record, Acknowledge, HandlerFails, ConsumerDies, ConnectionLost, Webhook,
       WebhookLost, ProviderRestarts, outboxVars, vars

\* A payment that keeps whatever carries it is not lost by the step.
LEMMA KeptIsSafe ==
    ASSUME NEW e \in Events, pay'[e] = pay[e], due'[e] = due[e], InHand(e) => InHand(e)',
           Failing(e)' => Failing(e), Asking(e)' => Asking(e), e \in Lost'
    PROVE  e \in Lost
BY DEF Lost, Open, Safe, Doomed

\* A publisher's step concerns the message it works on.
LEMMA PublisherSide ==
    ASSUME PInv, NEW k \in Publishers, NEW e \in Events,
           \A j \in Publishers \ {k} : at'[j] = at[j] /\ batch'[j] = batch[j]
    PROVE  /\ AtPublisher(e) => AtPublisher(e)' \/ (Current(k, e) /\ at[k] = "publishing")
           /\ Failing(e)' => Failing(e) \/ (Current(k, e)' /\ at'[k] = "failing")
<1>1. \A j \in Publishers \ {k} : Current(j, e)' <=> Current(j, e) BY DEF Current
<1> QED BY <1>1 DEF AtPublisher, Failing

\* A worker's step concerns the message it handles.
LEMMA WorkerSide ==
    ASSUME PInv, NEW w \in Workers, NEW e \in Events, stale' \ {w} = stale \ {w},
           \A v \in Workers \ {w} : cur'[v] = cur[v]
    PROVE  /\ AtWorker(e) => \/ AtWorker(e)'
                             \/ w \notin stale /\ (At(w, e, "taken") \/ Holds(w, e))
           /\ Asking(e)' => Asking(e) \/ At(w, e, "asked")'
<1>1. \A v \in Workers \ {w}, s \in Steps : At(v, e, s)' <=> At(v, e, s) BY DEF At
<1>2. \A v \in Workers \ {w} : v \in stale' <=> v \in stale OBVIOUS
<1> QED BY <1>1, <1>2 DEF AtWorker, Asking, Holds, Steps

\* What publishers do while nothing fails loses nothing.
LEMMA PublishersKeep ==
    ASSUME PInv, RowsAndQueue, NEW k \in Publishers, PublisherWorks(k)
    PROVE  Lost' \subseteq Lost
<1> SUFFICES ASSUME NEW e \in Events, e \in Lost' PROVE e \in Lost
  BY DEF Lost, Open
<1> USE DEF PInv, IInv, OutboxTypeOK
<1>1. UNCHANGED <<pay, cur, due>> /\ (AtWorker(e)' <=> AtWorker(e)) /\ (Asking(e)' <=> Asking(e))
  BY DEF PublisherWorks, flowVars, AtWorker, Asking, Holds, At
<1>2. CASE Poll(k)
  <2>1. \A j \in Publishers \ {k} : at'[j] = at[j] /\ batch'[j] = batch[j] BY <1>2 DEF Poll
  <2>2. at[k] = "idle" /\ at'[k] = "marking" /\ UNCHANGED <<row, queue>> BY <1>2 DEF Poll
  <2>3. (InHand(e) => InHand(e)') /\ (Failing(e)' => Failing(e))
    BY <1>1, <2>1, <2>2, PublisherSide DEF InHand
  <2> QED BY <1>1, <2>3, KeptIsSafe
<1>3. ASSUME NEW f \in Events, MarkProcessing(k, f) PROVE e \in Lost
  <2>1. \A j \in Publishers \ {k} : at'[j] = at[j] /\ batch'[j] = batch[j]
    BY <1>3 DEF MarkProcessing
  <2>2. /\ at[k] = "marking" /\ at'[k] = "publishing" /\ UNCHANGED <<batch, queue>>
        /\ Current(k, f) /\ (e # f => row'[e] = row[e])
    BY <1>3 DEF MarkProcessing
  <2>3. Current(k, f)' BY <2>2 DEF Current
  <2>4. InHand(e) => InHand(e)'
    BY <1>1, <2>1, <2>2, <2>3, PublisherSide DEF InHand, AtPublisher
  <2>5. Failing(e)' => Failing(e) BY <2>1, <2>2, PublisherSide
  <2> QED BY <1>1, <2>4, <2>5, KeptIsSafe
<1>4. ASSUME NEW f \in Events, Publish(k, f) PROVE e \in Lost
  <2>1. \A j \in Publishers \ {k} : at'[j] = at[j] /\ batch'[j] = batch[j]
    BY <1>4 DEF Publish
  <2>2. at[k] = "publishing" /\ at'[k] = "published" /\ Current(k, f) /\ UNCHANGED row
    BY <1>4 DEF Publish
  <2>3. bound BY <2>2 DEF RowsAndQueue, Current
  <2>4. queue'[f] = queue[f] + 1 /\ queue[f] \in Nat /\ (e # f => queue'[e] = queue[e])
    BY <1>4, <2>3 DEF Publish
  <2>5. Current(k, e) => e = f BY <2>2, CurrentIsUnique
  <2>6. InHand(e) => InHand(e)'
    BY <1>1, <2>1, <2>2, <2>4, <2>5, PublisherSide DEF InHand
  <2>7. Failing(e)' => Failing(e) BY <2>1, <2>2, PublisherSide
  <2> QED BY <1>1, <2>6, <2>7, KeptIsSafe
<1>5. ASSUME NEW f \in Events, MarkSent(k, f) PROVE e \in Lost
  <2>1. \A j \in Publishers \ {k} : at'[j] = at[j] /\ batch'[j] = batch[j]
    BY <1>5 DEF MarkSent, Finish
  <2>2. /\ at[k] = "published" /\ at'[k] \in {"idle", "marking"} /\ UNCHANGED queue
        /\ Current(k, f) /\ (e # f => row'[e] = row[e])
    BY <1>5 DEF MarkSent, Finish
  <2>3. row[f] # "pending" BY <2>2 DEF Progress, Current
  <2>4. (InHand(e) => InHand(e)') /\ (Failing(e)' => Failing(e))
    BY <1>1, <2>1, <2>2, <2>3, PublisherSide DEF InHand
  <2> QED BY <1>1, <2>4, KeptIsSafe
<1>6. ASSUME NEW f \in Events, MarkFailed(k, f) PROVE e \in Lost
  <2>1. \A j \in Publishers \ {k} : at'[j] = at[j] /\ batch'[j] = batch[j]
    BY <1>6 DEF MarkFailed, Finish
  <2>2. /\ at[k] = "failing" /\ at'[k] \in {"idle", "marking"} /\ UNCHANGED queue
        /\ Current(k, f) /\ (e # f => row'[e] = row[e])
    BY <1>6 DEF MarkFailed, Finish
  <2>3. CASE e = f BY <1>1, <2>2, <2>3 DEF Lost, Open, Doomed, Failing
  <2>4. CASE e # f
    <3>1. (InHand(e) => InHand(e)') /\ (Failing(e)' => Failing(e))
      BY <1>1, <2>1, <2>2, <2>4, PublisherSide DEF InHand
    <3> QED BY <1>1, <3>1, KeptIsSafe
  <2> QED BY <2>3, <2>4
<1> QED BY <1>2, <1>3, <1>4, <1>5, <1>6 DEF PublisherWorks, PublisherStep

\* A step that leaves the outbox alone leaves its publishers and row alone.
LEMMA OutboxAside ==
    ASSUME UNCHANGED <<row, batch, at>>, NEW e \in Events
    PROVE  /\ row'[e] = row[e] /\ (AtPublisher(e)' <=> AtPublisher(e))
           /\ (Failing(e)' <=> Failing(e))
BY DEF AtPublisher, Failing, Current

\* What workers do while nothing fails loses nothing: the message, the row lock and
\* the callback take over from each other.
LEMMA WorkersKeep ==
    ASSUME PInv, NEW w \in Workers, WorkerStep(w)
    PROVE  Lost' \subseteq Lost
<1> SUFFICES ASSUME NEW e \in Events, e \in Lost' PROVE e \in Lost
  BY DEF Lost, Open
<1> USE DEF PInv, IInv, OutboxTypeOK, FlowTypes
<1>0. row'[e] = row[e] /\ (AtPublisher(e)' <=> AtPublisher(e)) /\ (Failing(e)' <=> Failing(e))
  <2>1. UNCHANGED <<row, batch, at>>
    BY DEF WorkerStep, Take, Lock, Ask, Record, Acknowledge, outboxVars
  <2> QED BY <2>1, OutboxAside
<1>1. ASSUME NEW f \in Events, Take(w, f) PROVE e \in Lost
  <2>1. /\ UNCHANGED <<pay, stale, due>> /\ (\A v \in Workers \ {w} : cur'[v] = cur[v])
        /\ (e # f => queue'[e] = queue[e]) /\ w \notin stale
    BY <1>1 DEF Take, Goto
  <2>2. At(w, f, "taken")' /\ ~ At(w, e, "asked")'
    BY <1>1 DEF Take, Goto, At
  <2>3. ~ (At(w, e, "taken") \/ Holds(w, e))
    BY <1>1, OneStep DEF Take, Holds, Steps
  <2>4. InHand(e) => InHand(e)'
    BY <1>0, <2>1, <2>2, <2>3, WorkerSide DEF InHand, AtWorker
  <2>5. Asking(e)' => Asking(e) BY <2>1, <2>2, WorkerSide
  <2> QED BY <1>0, <2>1, <2>4, <2>5, KeptIsSafe
<1>2. ASSUME NEW f \in Events, Lock(w, f) PROVE e \in Lost
  <2>1. /\ UNCHANGED <<pay, stale, due, queue>> /\ (\A v \in Workers \ {w} : cur'[v] = cur[v])
        /\ cur' = [cur EXCEPT ![w] = [event |-> f, step |-> IF pay[f] = "created" THEN "locked" ELSE "done"]]
        /\ At(w, f, "taken")
    BY <1>2 DEF Lock, Goto, outboxVars
  <2>2. ~ At(w, e, "asked")' BY <2>1 DEF At
  <2>3. Asking(e)' => Asking(e) BY <2>1, <2>2, WorkerSide
  <2>4. At(w, e, "taken") \/ Holds(w, e) => e = f BY <2>1, OneStep DEF Holds, Steps
  <2>5. pay[f] = "created" /\ w \notin stale => AtWorker(f)'
    BY <2>1 DEF AtWorker, Holds, At
  <2>6. CASE pay[e] = "created"
    <3>1. InHand(e) => InHand(e)' BY <1>0, <2>1, <2>4, <2>5, <2>6, WorkerSide DEF InHand
    <3> QED BY <1>0, <2>1, <2>3, <3>1, KeptIsSafe
  <2>7. CASE pay[e] # "created"
    BY <1>0, <2>1, <2>3, <2>7 DEF Lost, Open, Safe, Doomed
  <2> QED BY <2>6, <2>7
<1>3. ASSUME NEW f \in Events, Ask(w, f) PROVE e \in Lost
  <2>1. /\ UNCHANGED <<pay, stale, queue>> /\ (\A v \in Workers \ {w} : cur'[v] = cur[v])
        /\ due'[f] = due[f] + 1 /\ due[f] \in Nat /\ (e # f => due'[e] = due[e])
        /\ At(w, f, "asked")' /\ At(w, f, "locked")
    BY <1>3 DEF Ask, Goto, outboxVars, At
  <2>2. CASE e = f
    BY <1>0, <2>1, <2>2 DEF Lost, Open, Safe, Doomed
  <2>3. CASE e # f
    <3>1. ~ (At(w, e, "taken") \/ Holds(w, e)) BY <2>1, <2>3, OneStep DEF Holds, Steps
    <3>2. ~ At(w, e, "asked")' BY <1>3, <2>3 DEF Ask, Goto, At
    <3>3. (InHand(e) => InHand(e)') /\ (Asking(e)' => Asking(e))
      BY <1>0, <2>1, <3>1, <3>2, WorkerSide DEF InHand
    <3> QED BY <1>0, <2>1, <2>3, <3>3, KeptIsSafe
  <2> QED BY <2>2, <2>3
<1>4. ASSUME NEW f \in Events, Record(w, f) PROVE e \in Lost
  <2>1. /\ UNCHANGED <<stale, due, queue>> /\ (\A v \in Workers \ {w} : cur'[v] = cur[v])
        /\ (e # f => pay'[e] = pay[e]) /\ At(w, f, "asked") /\ At(w, f, "done")'
    BY <1>4 DEF Record, Goto, outboxVars, At
  <2>2. CASE e = f
    <3>1. Asking(e) /\ pay[e] = "created" BY <2>1, <2>2 DEF Asking, HeldIsCreated, Holds
    <3>2. due[e] \in Nat OBVIOUS
    <3>3. pay'[e] = "processing" BY <1>4, <2>2 DEF Record
    <3>4. CASE due[e] = 0 BY <3>1, <3>4 DEF Lost, Open, Doomed
    <3>5. CASE due[e] > 0
      <4>1. Failing(e) BY <1>0, <2>1, <3>5 DEF Lost, Safe, Doomed
      <4> QED BY <3>1, <4>1 DEF Lost, Open, Doomed
    <3> QED BY <3>2, <3>4, <3>5
  <2>3. CASE e # f
    <3>1. ~ (At(w, e, "taken") \/ Holds(w, e)) BY <2>1, <2>3, OneStep DEF Holds, Steps
    <3>2. ~ At(w, e, "asked")' BY <1>4, <2>3 DEF Record, Goto, At
    <3>3. (InHand(e) => InHand(e)') /\ (Asking(e)' => Asking(e))
      BY <1>0, <2>1, <3>1, <3>2, WorkerSide DEF InHand
    <3> QED BY <1>0, <2>1, <2>3, <3>3, KeptIsSafe
  <2> QED BY <2>2, <2>3
<1>5. ASSUME NEW f \in Events, Acknowledge(w, f) PROVE e \in Lost
  <2>1. /\ UNCHANGED <<pay, due, queue>> /\ (\A v \in Workers \ {w} : cur'[v] = cur[v])
        /\ At(w, f, "done") /\ cur' = [cur EXCEPT ![w] = None] /\ stale' = stale \ {w}
    BY <1>5 DEF Acknowledge, outboxVars
  <2>2. ~ (At(w, e, "taken") \/ Holds(w, e)) BY <2>1, OneStep DEF Holds, Steps
  <2>3. ~ At(w, e, "asked")' BY <2>1, DropHolds DEF Holds
  <2>4. (InHand(e) => InHand(e)') /\ (Asking(e)' => Asking(e))
    BY <1>0, <2>1, <2>2, <2>3, WorkerSide DEF InHand
  <2> QED BY <1>0, <2>1, <2>4, KeptIsSafe
<1> QED BY <1>1, <1>2, <1>3, <1>4, <1>5 DEF WorkerStep

\* A callback settles its payment; a new payment is in hand.
LEMMA OthersKeep ==
    ASSUME PInv, RowsAndQueue, NEW f \in Events, CreatePayment(f) \/ Webhook(f)
    PROVE  Lost' \subseteq Lost
<1> SUFFICES ASSUME NEW e \in Events, e \in Lost' PROVE e \in Lost
  BY DEF Lost, Open
<1> USE DEF PInv, IInv, OutboxTypeOK, FlowTypes
<1>1. /\ UNCHANGED <<batch, at, queue, cur, stale>>
      /\ (e # f => row'[e] = row[e] /\ pay'[e] = pay[e] /\ due'[e] = due[e])
  BY DEF CreatePayment, Enqueue, Webhook, outboxVars
<1>2. /\ (AtPublisher(e)' <=> AtPublisher(e)) /\ (Failing(e)' <=> Failing(e))
      /\ (AtWorker(e)' <=> AtWorker(e)) /\ (Asking(e)' <=> Asking(e))
  BY <1>1 DEF AtPublisher, Failing, AtWorker, Asking, Holds, At, Current
<1>3. CASE e # f
  <2>1. InHand(e) => InHand(e)' BY <1>1, <1>2, <1>3 DEF InHand
  <2> QED BY <1>1, <1>2, <1>3, <2>1, KeptIsSafe
<1>4. CASE e = f /\ Webhook(f)
  <2>1. pay'[f] \in Final BY <1>4, DecisionIsFinal DEF Webhook
  <2> QED BY <1>4, <2>1 DEF Lost, Open, Final
<1>5. CASE e = f /\ CreatePayment(f)
  <2>1. pay[f] = "none" /\ row[f] = "none" /\ row'[f] = "pending" /\ pay'[f] = "created"
    BY <1>5 DEF CreatePayment, Enqueue
  <2>2. ~ Failing(f) BY <2>1 DEF RowsAndQueue, Failing, Current
  <2>3. ~ Asking(f) BY <2>1 DEF HeldIsCreated, Holds, Asking
  <2> QED BY <1>2, <1>5, <2>1, <2>2, <2>3 DEF Lost, Safe, Doomed, InHand
<1> QED BY <1>3, <1>4, <1>5

\* A consumer that dies, or loses its connection, leaves its message with the broker.
LEMMA ConsumerKeeps ==
    ASSUME PInv, NEW w \in Workers, NEW f \in Events, ConsumerDies(w, f) \/ ConnectionLost(w, f)
    PROVE  Lost' \subseteq Lost
<1> SUFFICES ASSUME NEW e \in Events, e \in Lost' PROVE e \in Lost
  BY DEF Lost, Open
<1> USE DEF PInv, IInv, OutboxTypeOK, FlowTypes
<1>1. /\ UNCHANGED <<row, batch, at, pay, due>> /\ (\A v \in Workers \ {w} : cur'[v] = cur[v])
      /\ cur' = [cur EXCEPT ![w] = None] \/ cur' = cur
      /\ cur[w].event = f /\ stale' \ {w} = stale \ {w}
      /\ queue' = IF w \in stale THEN queue ELSE [queue EXCEPT ![f] = @ + 1]
  BY DEF ConsumerDies, ConnectionLost, GiveBack
<1>2. row'[e] = row[e] /\ (AtPublisher(e)' <=> AtPublisher(e)) /\ (Failing(e)' <=> Failing(e))
  BY <1>1, OutboxAside
<1>3. At(w, e, "taken") \/ Holds(w, e) => e = f
  <2> SUFFICES ASSUME NEW s \in Steps, cur[w] = [event |-> e, step |-> s] PROVE e = f
    BY DEF At, Holds, Steps
  <2> QED BY <1>1
<1>4. At(w, e, "asked")' => Asking(e)
  <2>1. CASE cur' = [cur EXCEPT ![w] = None] BY <2>1, DropHolds DEF Holds
  <2>2. CASE cur' = cur BY <2>2 DEF Asking, At
  <2> QED BY <1>1, <2>1, <2>2
<1>5. queue'[e] >= queue[e] /\ (e = f /\ w \notin stale => queue'[e] > 0) BY <1>1
<1>6. queue[e] \in Nat /\ queue'[e] \in Nat BY <1>1
<1>7. InHand(e) => InHand(e)' BY <1>1, <1>2, <1>3, <1>5, <1>6, WorkerSide DEF InHand
<1>8. Asking(e)' => Asking(e) BY <1>1, <1>4, WorkerSide
<1> QED BY <1>1, <1>2, <1>7, <1>8, KeptIsSafe

\* Every other failure loses no payment but those it concerns.
LEMMA FailureLosesHit ==
    ASSUME PInv,
           \/ \E k \in Publishers : PublisherFails(k)
           \/ \E w \in Workers, f \in Events : HandlerFails(w, f)
           \/ \E f \in Events : WebhookLost(f)
           \/ ProviderRestarts
    PROVE  Lost' \subseteq Lost \cup hit'
<1> SUFFICES ASSUME NEW e \in Events, e \in Lost', e \notin hit' PROVE e \in Lost
  BY DEF Lost, Open
<1> USE DEF PInv, IInv, OutboxTypeOK, FlowTypes
<1>1. ASSUME NEW k \in Publishers, PublisherFails(k) PROVE e \in Lost
  <2>1. /\ UNCHANGED <<pay, cur, stale, due, row, queue>>
        /\ \A j \in Publishers \ {k} : at'[j] = at[j] /\ batch'[j] = batch[j]
        /\ at'[k] = "idle" \/ (at'[k] = "failing" /\ batch'[k] = batch[k])
    BY <1>1 DEF PublisherFails, Error, Abandon, flowVars
  <2>2. ~ Current(k, e) BY <1>1 DEF PublisherFails, Fault
  <2>3. at'[k] = "failing" => ~ Current(k, e)' BY <2>1, <2>2 DEF Current
  <2>4. (AtWorker(e)' <=> AtWorker(e)) /\ (Asking(e)' <=> Asking(e))
    BY <2>1 DEF AtWorker, Asking, Holds, At
  <2>5. (InHand(e) => InHand(e)') /\ (Failing(e)' => Failing(e))
    BY <2>1, <2>2, <2>3, <2>4, PublisherSide DEF InHand
  <2> QED BY <2>1, <2>4, <2>5, KeptIsSafe
<1>2. ASSUME NEW w \in Workers, NEW f \in Events, HandlerFails(w, f) PROVE e \in Lost
  <2>1. /\ UNCHANGED <<row, batch, at, queue, pay, stale, due>>
        /\ (\A v \in Workers \ {w} : cur'[v] = cur[v])
        /\ At(w, f, "taken") \/ At(w, f, "locked") \/ At(w, f, "asked")
        /\ e # f
    BY <1>2 DEF HandlerFails, Goto, Fault, outboxVars
  <2>2. ~ (At(w, e, "taken") \/ Holds(w, e)) BY <2>1, OneStep DEF Holds, Steps
  <2>3. ~ At(w, e, "asked")' BY <1>2 DEF HandlerFails, Goto, At
  <2>4. (AtPublisher(e)' <=> AtPublisher(e)) /\ (Failing(e)' <=> Failing(e))
    BY <2>1, OutboxAside
  <2>5. (InHand(e) => InHand(e)') /\ (Asking(e)' => Asking(e))
    BY <2>1, <2>2, <2>3, <2>4, WorkerSide DEF InHand
  <2> QED BY <2>1, <2>4, <2>5, KeptIsSafe
<1>3. ASSUME UNCHANGED <<outboxVars, pay, cur, stale>>, due'[e] = due[e] PROVE e \in Lost
  <2>1. /\ (AtPublisher(e)' <=> AtPublisher(e)) /\ (Failing(e)' <=> Failing(e))
        /\ (AtWorker(e)' <=> AtWorker(e)) /\ (Asking(e)' <=> Asking(e))
    BY <1>3 DEF AtPublisher, Failing, AtWorker, Asking, Holds, At, Current, outboxVars
  <2>2. InHand(e) => InHand(e)' BY <1>3, <2>1 DEF InHand, outboxVars
  <2> QED BY <1>3, <2>1, <2>2, KeptIsSafe
<1>4. ASSUME NEW f \in Events, WebhookLost(f) PROVE e \in Lost
  <2>1. e # f /\ due'[e] = due[e] BY <1>4 DEF WebhookLost, Fault
  <2> QED BY <1>3, <1>4, <2>1 DEF WebhookLost
<1>5. CASE ProviderRestarts
  <2>1. due[e] \in Nat /\ ~ (due[e] > 0) /\ due'[e] = 0 BY <1>5 DEF ProviderRestarts, Fault
  <2>2. due'[e] = due[e] BY <2>1
  <2> QED BY <1>3, <1>5, <2>2 DEF ProviderRestarts
<1> QED BY <1>1, <1>2, <1>4, <1>5

\* A step of the healthy processes, or a consumer's failure, loses nothing; what else
\* fails loses nothing but what it concerns.
LEMMA LostStep ==
    ASSUME PInv, RowsAndQueue, [PipelineNext]_vars
    PROVE  /\ hit \subseteq hit'
           /\ \/ Lost' \subseteq Lost
              \/ Lost' \subseteq Lost \cup hit' /\ \E kind \in Faults : kind # "consumer"
<1>1. ASSUME UNCHANGED <<row, batch, at, queue, flowVars>> PROVE Lost' \subseteq Lost
  BY <1>1 DEF Lost, Open, Safe, Doomed, InHand, AtPublisher, AtWorker, Failing, Asking,
              Holds, At, Current, flowVars
<1>2. CASE ConsumerStarts \/ UNCHANGED vars
  BY <1>1, <1>2 DEF ConsumerStarts, DeclareQueue, vars, outboxVars
<1>3. ASSUME NEW k \in Publishers, PublisherWorks(k) PROVE Lost' \subseteq Lost /\ hit' = hit
  BY <1>3, PublishersKeep DEF PublisherWorks
<1>4. ASSUME NEW w \in Workers, WorkerStep(w) PROVE Lost' \subseteq Lost /\ hit' = hit
  BY <1>4, WorkersKeep DEF WorkerStep, Take, Lock, Ask, Record, Acknowledge
<1>5. ASSUME NEW e \in Events, CreatePayment(e) \/ Webhook(e)
      PROVE  Lost' \subseteq Lost /\ hit' = hit
  BY <1>5, OthersKeep DEF CreatePayment, Webhook
<1>6. ASSUME NEW w \in Workers, NEW e \in Events, ConsumerDies(w, e) \/ ConnectionLost(w, e)
      PROVE  Lost' \subseteq Lost /\ hit' = hit
  BY <1>6, ConsumerKeeps DEF ConsumerDies, ConnectionLost, Fault
<1>7. CASE \/ \E k \in Publishers : PublisherFails(k)
           \/ \E w \in Workers, f \in Events : HandlerFails(w, f)
           \/ \E f \in Events : WebhookLost(f)
           \/ ProviderRestarts
  <2>1. hit \subseteq hit' /\ \E kind \in Faults : kind # "consumer"
    BY <1>7 DEF PublisherFails, HandlerFails, WebhookLost, ProviderRestarts, Fault
  <2> QED BY <1>7, <2>1, FailureLosesHit
<1> QED BY <1>2, <1>3, <1>4, <1>5, <1>6, <1>7 DEF PipelineNext, ConsumerStarts, vars

\* Nothing is lost, and nothing committed, at the start.
LEMMA LossInit == PipelineInit => RowsAndQueue /\ Lost = {}
BY DEF PipelineInit, OutboxInit, RowsAndQueue, Lost, Open

\* Whatever fails, only payments that a failure itself has concerned are left open: the
\* publisher marks one message at a time, the handler and a callback concern one payment,
\* a restart of the provider those that wait for a callback, and a consumer's death or lost
\* connection none.  The queue has to be declared before the first payment.
THEOREM OnlyHitIsLost ==
    ASSUME QueueFirst = TRUE
    PROVE  PipelineSpec => []OnlyHitIsForgotten
<1>1. PipelineInit => RowsAndQueue /\ LossIsHit BY LossInit DEF LossIsHit
<1>2. PInv /\ RowsAndQueue /\ LossIsHit /\ [PipelineNext]_vars => (RowsAndQueue /\ LossIsHit)'
  BY RowsAndQueueStep, LostStep DEF LossIsHit
<1>3. PInv /\ LossIsHit => OnlyHitIsForgotten
  BY ForgottenIsLost DEF LossIsHit, OnlyHitIsForgotten
<1> QED BY <1>1, <1>2, <1>3, PipelineInvariance, PTL DEF PipelineSpec

\* Deaths and lost connections of consumers alone leave no payment open: messages come
\* again until the payment has been handed over (MessageConsumer).
THEOREM ConsumersForgetNothing ==
    ASSUME QueueFirst = TRUE, Faults \subseteq {"consumer"}
    PROVE  PipelineSpec => []NothingIsForgotten
<1>1. PipelineInit => RowsAndQueue /\ Lost = {} BY LossInit
<1>2. PInv /\ RowsAndQueue /\ Lost = {} /\ [PipelineNext]_vars => RowsAndQueue' /\ Lost' = {}
  BY RowsAndQueueStep, LostStep
<1>3. PInv /\ Lost = {} => NothingIsForgotten BY ForgottenIsLost DEF NothingIsForgotten
<1> QED
  <2> DEFINE NothingLost == RowsAndQueue /\ Lost = {}
  <2>1. PipelineInit => NothingLost BY <1>1
  <2>2. PInv /\ NothingLost /\ [PipelineNext]_vars => NothingLost' BY <1>2
  <2>3. PInv /\ NothingLost => NothingIsForgotten BY <1>3
  <2> HIDE DEF NothingLost
  <2> QED BY <2>1, <2>2, <2>3, PipelineInvariance, PTL DEF PipelineSpec

-----------------------------------------------------------------------------
(* At rest *)

\* Worker w can take a message, or go on with the one it has without waiting for
\* the payment's row.
CanWork(w) ==
    \/ cur[w] = None /\ \E e \in Events : queue[e] > 0
    \/ cur[w] # None /\ (cur[w].step = "taken" => RowFree(cur[w].event))

\* A callback is due and finds the payment's row free.
CanCallBack(e) == due[e] > 0 /\ RowFree(e)

\* No publisher, consumer or callback can go on.
AtRest ==
    /\ \A k \in Publishers : ~ CanPublish(k)
    /\ \A w \in Workers : ~ CanWork(w)
    /\ \A e \in Events : ~ CanCallBack(e)

\* When the system is at rest, a payment that is open has been forgotten.
RestIsTheEnd == AtRest => Open \subseteq Forgotten

\* The system comes to rest with no payment open but those a failure has concerned.
RestIsHit == AtRest => Open \subseteq hit

\* The system comes to rest only when every payment is completed or canceled.
RestIsSettled == AtRest => \A e \in Events : pay[e] \in {"none"} \cup Final

\* What the outbox's own steps keep of batches and locks, all steps keep.
LEMMA EngagedFlow == PInv /\ Engaged /\ [PipelineNext]_vars => Engaged'
BY OutboxSide, EngagedStep DEF PInv, Engaged

\* Who holds a payment's row does not wait.
LEMMA HolderWorks ==
    ASSUME PInv, NEW w \in Workers, NEW e \in Events, Holds(w, e)
    PROVE  CanWork(w)
<1>1. PICK s \in {"locked", "asked"} : At(w, e, s) BY DEF Holds
<1>2. cur[w] # None BY <1>1, OneStep DEF Steps
<1>3. cur[w].step # "taken" BY <1>1 DEF At
<1> QED BY <1>2, <1>3 DEF CanWork

\* Whatever carries a payment lets somebody go on: who waits does so for a row whose
\* holder does not wait.
LEMMA RestEnds ==
    ASSUME Publishers # {}, Workers # {}, PInv, Engaged
    PROVE  RestIsTheEnd
<1> SUFFICES ASSUME AtRest, NEW e \in Open, Carried(e) PROVE FALSE
  BY DEF RestIsTheEnd, Open, Forgotten
<1> USE DEF AtRest
<1>1. (\A k \in Publishers : at[k] = "idle") /\ (\A f \in Events : row[f] # "pending")
  BY GoOn DEF PInv, PublishersGoOn
<1>2. \A f \in Events : RowFree(f) BY HolderWorks DEF RowFree, Holds
<1>3. \A w \in Workers : cur[w] = None
  <2> SUFFICES ASSUME NEW w \in Workers, cur[w] # None PROVE FALSE OBVIOUS
  <2>1. cur[w].event \in Events BY DEF PInv, FlowTypes
  <2> QED BY <1>2, <2>1 DEF CanWork
<1>4. \A f \in Events : ~ (queue[f] > 0) /\ ~ (due[f] > 0)
  BY <1>2, <1>3 DEF CanWork, CanCallBack
<1> QED BY <1>1, <1>3, <1>4 DEF Carried, Open

\* The safety half of EveryPaymentSettles, whatever fails: no process waits for
\* another in a circle, and what a payment is carried by is always there to be done.
THEOREM NothingStopsEarly ==
    ASSUME Publishers # {}, Workers # {}
    PROVE  PipelineSpec => []RestIsTheEnd
<1>1. PipelineInit => Engaged BY DEF PipelineInit, OutboxInit, Engaged
<1>2. PInv /\ Engaged => RestIsTheEnd BY RestEnds
<1> QED BY <1>1, <1>2, EngagedFlow, PipelineInvariance, PTL DEF PipelineSpec

\* When nothing moves any more, each payment that is still open was left by a failure that
\* concerned it (of the publisher, the handler, its callback or the provider).
THEOREM RestLosesOnlyHit ==
    ASSUME QueueFirst = TRUE, Publishers # {}, Workers # {}
    PROVE  PipelineSpec => []RestIsHit
<1>1. RestIsTheEnd /\ OnlyHitIsForgotten => RestIsHit
  BY DEF RestIsTheEnd, OnlyHitIsForgotten, RestIsHit
<1> QED BY <1>1, NothingStopsEarly, OnlyHitIsLost, PTL

\* With deaths and lost connections of consumers only, the system does not come to rest before every
\* payment is completed or canceled.
THEOREM ConsumersSettle ==
    ASSUME QueueFirst = TRUE, Faults \subseteq {"consumer"}, Publishers # {}, Workers # {}
    PROVE  PipelineSpec => []RestIsSettled
<1>1. PInv /\ RestIsTheEnd /\ NothingIsForgotten => RestIsSettled
  BY DEF RestIsTheEnd, NothingIsForgotten, RestIsSettled, Open, PInv, FlowTypes
<1> QED BY <1>1, NothingStopsEarly, ConsumersForgetNothing, PipelineInvariance, PTL
=============================================================================
