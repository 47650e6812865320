---------------------------- MODULE OutboxProofs ----------------------------
(***************************************************************************)
(* Proofs about Outbox, for any number of publishers and events and any    *)
(* batch size.  Polled messages leave "pending" for good before they are   *)
(* published, which is all the at-most-once promise rests on.              *)
(***************************************************************************)
EXTENDS Outbox, FiniteSetTheorems, TLAPS

\* A publisher has a batch exactly while it works, and locks only rows of a batch
\* of which it has marked nothing yet.
BatchShape ==
    \A k \in Publishers : /\ at[k] = "idle" => batch[k] = {}
                          /\ locks[k] \subseteq batch[k]
                          /\ locks[k] # {} => at[k] = "marking"

\* How far a publisher is with the message it works on.
Progress ==
    \A k \in Publishers, e \in Events :
        e \in batch[k] =>
            /\ handed[k][e] > 0 => Current(k, e) /\ at[k] \in {"published", "failing"}
            /\ at[k] \in {"publishing", "published"} /\ Current(k, e)
                   => row[e] \notin {"none", "pending"}
            /\ at[k] = "published" /\ Current(k, e) => handed[k][e] > 0

IInv == /\ OutboxTypeOK
        /\ HandedOnce
        /\ PendingIsFresh
        /\ SentIsHanded
        /\ LockedIsPending
        /\ BatchShape
        /\ Progress

\* The invariant holds when nothing is enqueued yet.
LEMMA InitInv == OutboxInit => IInv
<1> SUFFICES ASSUME OutboxInit PROVE IInv OBVIOUS
<1> USE DEF OutboxInit
<1>1. OutboxTypeOK BY DEF OutboxTypeOK, Statuses
<1>2. HandedOnce BY DEF HandedOnce
<1>3. PendingIsFresh BY DEF PendingIsFresh
<1>4. SentIsHanded BY DEF SentIsHanded
<1>5. LockedIsPending BY DEF LockedIsPending
<1>6. BatchShape BY DEF BatchShape
<1>7. Progress BY DEF Progress
<1> QED BY <1>1, <1>2, <1>3, <1>4, <1>5, <1>6, <1>7 DEF IInv

\* Only one message of a batch is the current one.
LEMMA CurrentIsUnique ==
    ASSUME NEW k \in Publishers, NEW e \in Events, NEW f \in Events,
           Current(k, e), Current(k, f)
    PROVE  e = f
BY OutboxAssumption DEF Current

\* A new pending row is nobody's business yet.
LEMMA EnqueueInv == ASSUME IInv, NEW e \in Events, Enqueue(e) PROVE IInv'
<1> USE DEF IInv, Enqueue, OutboxTypeOK, Statuses
<1>1. OutboxTypeOK' OBVIOUS
<1>2. HandedOnce' BY DEF HandedOnce
<1>3. PendingIsFresh' BY DEF PendingIsFresh
<1>4. SentIsHanded' BY DEF SentIsHanded
<1>5. LockedIsPending' BY DEF LockedIsPending, Unlocked
<1>6. BatchShape' BY DEF BatchShape
<1>7. Progress'
  <2>1. \A k \in Publishers, f \in Events : f \in batch[k] /\ Current(k, f)
                /\ at[k] \in {"publishing", "published"} => row[f] # "none"
    BY DEF Progress
  <2> QED BY <2>1 DEF Progress, Current
<1> QED BY <1>1, <1>2, <1>3, <1>4, <1>5, <1>6, <1>7

\* Binding the queue changes nothing else.
LEMMA DeclareInv == ASSUME IInv, DeclareQueue PROVE IInv'
BY DEF IInv, DeclareQueue, OutboxTypeOK, HandedOnce, PendingIsFresh, SentIsHanded,
       LockedIsPending, Unlocked, BatchShape, Progress, Current

\* A polled row is pending, so no publisher has handed it on.
LEMMA PollInv == ASSUME IInv, NEW k \in Publishers, Poll(k) PROVE IInv'
<1> USE DEF IInv, OutboxTypeOK
<1>1. PICK S \in SUBSET {e \in Events : row[e] = "pending" /\ Unlocked(k, e)} :
          /\ S # {}
          /\ batch' = [batch EXCEPT ![k] = S]
          /\ locks' = [locks EXCEPT ![k] = S]
  BY DEF Poll
<1>2. /\ at[k] = "idle"
      /\ at' = [at EXCEPT ![k] = "marking"]
      /\ UNCHANGED <<row, bound, queue, handed>>
  BY DEF Poll
<1>3. S \subseteq Events /\ \A e \in S : row[e] = "pending" /\ Unlocked(k, e)
  OBVIOUS
<1>4. OutboxTypeOK' BY <1>1, <1>2, <1>3
<1>5. HandedOnce' BY <1>2 DEF HandedOnce
<1>6. PendingIsFresh' BY <1>2 DEF PendingIsFresh
<1>7. SentIsHanded' BY <1>2 DEF SentIsHanded
<1>8. LockedIsPending' BY <1>1, <1>2, <1>3 DEF LockedIsPending, Unlocked
<1>9. BatchShape' BY <1>1, <1>2 DEF BatchShape
<1>10. Progress'
  <2> SUFFICES ASSUME NEW j \in Publishers, NEW e \in Events, e \in batch'[j]
               PROVE  /\ handed'[j][e] > 0
                             => Current(j, e)' /\ at'[j] \in {"published", "failing"}
                      /\ at'[j] \in {"publishing", "published"} /\ Current(j, e)'
                             => row'[e] \notin {"none", "pending"}
                      /\ at'[j] = "published" /\ Current(j, e)' => handed'[j][e] > 0
    BY DEF Progress
  <2>1. CASE j = k
    <3>1. e \in S /\ at'[j] = "marking" BY <2>1, <1>1, <1>2
    <3>2. handed'[j][e] = 0 BY <3>1, <1>2, <1>3 DEF PendingIsFresh
    <3> QED BY <3>1, <3>2
  <2>2. CASE j # k
    <3>1. batch'[j] = batch[j] /\ at'[j] = at[j] BY <2>2, <1>1, <1>2
    <3> QED BY <3>1, <1>2 DEF Progress, Current
  <2> QED BY <2>1, <2>2
<1> QED BY <1>4, <1>5, <1>6, <1>7, <1>8, <1>9, <1>10

\* The row leaves "pending" before its message is published.
LEMMA MarkProcessingInv ==
    ASSUME IInv, NEW k \in Publishers, NEW e \in Events, MarkProcessing(k, e)
    PROVE  IInv'
<1> USE DEF IInv, MarkProcessing, OutboxTypeOK, Statuses
<1>1. OutboxTypeOK' OBVIOUS
<1>2. HandedOnce' BY DEF HandedOnce
<1>3. PendingIsFresh' BY DEF PendingIsFresh
<1>4. SentIsHanded' BY DEF SentIsHanded
<1>5. LockedIsPending' BY DEF LockedIsPending, Unlocked
<1>6. BatchShape' BY DEF BatchShape
<1>7. Progress'
  <2> SUFFICES ASSUME NEW j \in Publishers, NEW f \in Events, f \in batch[j]
               PROVE  /\ handed[j][f] > 0
                             => Current(j, f)' /\ at'[j] \in {"published", "failing"}
                      /\ at'[j] \in {"publishing", "published"} /\ Current(j, f)'
                             => row'[f] \notin {"none", "pending"}
                      /\ at'[j] = "published" /\ Current(j, f)' => handed[j][f] > 0
    BY DEF Progress
  <2>1. Current(j, f)' <=> Current(j, f) BY DEF Current
  <2>2. CASE j = k
    <3>1. handed[j][f] > 0 => at[j] \in {"published", "failing"} BY DEF Progress
    <3>2. ~ (handed[j][f] > 0) BY <3>1, <2>2
    <3>3. Current(j, f) => f = e BY <2>2, CurrentIsUnique
    <3> QED BY <2>1, <2>2, <3>2, <3>3
  <2>3. CASE j # k
    <3>1. at'[j] = at[j] BY <2>3
    <3>2. row'[f] = row[f] \/ row'[f] = "processing" OBVIOUS
    <3> QED BY <2>1, <3>1, <3>2 DEF Progress
  <2> QED BY <2>2, <2>3
<1> QED BY <1>1, <1>2, <1>3, <1>4, <1>5, <1>6, <1>7

\* What is published had not been handed on by this publisher.
LEMMA PublishInv ==
    ASSUME IInv, NEW k \in Publishers, NEW e \in Events, Publish(k, e)
    PROVE  IInv'
<1> USE DEF IInv, Publish, OutboxTypeOK
<1>a. e \in batch[k] BY DEF Current
<1>b. handed[k][e] = 0 BY <1>a DEF Progress
<1>c. row[e] \notin {"none", "pending"} BY <1>a DEF Progress
<1>d. handed' \in [Publishers -> [Events -> Nat]] OBVIOUS
<1>e. /\ handed'[k][e] = 1
      /\ \A j \in Publishers, f \in Events : <<j, f>> # <<k, e>> => handed'[j][f] = handed[j][f]
  BY <1>b
<1>1. OutboxTypeOK' BY <1>d
<1>2. HandedOnce' BY <1>e DEF HandedOnce
<1>3. PendingIsFresh' BY <1>c, <1>e DEF PendingIsFresh
<1>4. SentIsHanded' BY <1>e DEF SentIsHanded
<1>5. LockedIsPending' BY DEF LockedIsPending, Unlocked
<1>6. BatchShape' BY DEF BatchShape
<1>7. Progress'
  <2> SUFFICES ASSUME NEW j \in Publishers, NEW f \in Events, f \in batch[j]
               PROVE  /\ handed'[j][f] > 0
                             => Current(j, f)' /\ at'[j] \in {"published", "failing"}
                      /\ at'[j] \in {"publishing", "published"} /\ Current(j, f)'
                             => row[f] \notin {"none", "pending"}
                      /\ at'[j] = "published" /\ Current(j, f)' => handed'[j][f] > 0
    BY DEF Progress
  <2>1. Current(j, f)' <=> Current(j, f) BY DEF Current
  <2>2. CASE j = k
    <3>1. Current(j, f) => f = e BY <2>2, CurrentIsUnique
    <3>2. CASE f = e
      <4>1. handed'[j][f] = 1 /\ at'[j] = "published" BY <2>2, <3>2, <1>e
      <4> QED BY <4>1, <2>1, <2>2, <3>2, <1>c
    <3>3. CASE f # e
      <4>1. ~ (handed[j][f] > 0) BY <2>2 DEF Progress
      <4>2. handed'[j][f] = handed[j][f] BY <3>3, <1>e
      <4> QED BY <4>1, <4>2, <2>1, <3>1, <3>3
    <3> QED BY <3>2, <3>3
  <2>3. CASE j # k
    <3>1. at'[j] = at[j] /\ handed'[j][f] = handed[j][f] BY <2>3, <1>e
    <3> QED BY <2>1, <3>1 DEF Progress
  <2> QED BY <2>2, <2>3
<1> QED BY <1>1, <1>2, <1>3, <1>4, <1>5, <1>6, <1>7

\* Finishing the current message leaves a batch that nothing has been published of.
LEMMA FinishProgress ==
    ASSUME IInv, NEW k \in Publishers, NEW e \in Events, Current(k, e), Finish(k, e),
           UNCHANGED handed,
           \A f \in Events : row'[f] \in {"none", "pending"} => row[f] = row'[f]
    PROVE  Progress'
<1> USE DEF IInv, Finish, OutboxTypeOK
<1> SUFFICES ASSUME NEW j \in Publishers, NEW f \in Events, f \in batch'[j]
             PROVE  /\ handed'[j][f] > 0
                           => Current(j, f)' /\ at'[j] \in {"published", "failing"}
                    /\ at'[j] \in {"publishing", "published"} /\ Current(j, f)'
                           => row'[f] \notin {"none", "pending"}
                    /\ at'[j] = "published" /\ Current(j, f)' => handed'[j][f] > 0
  BY DEF Progress
<1>1. CASE j = k
  <2>1. f \in batch[k] /\ f # e BY <1>1
  <2>2. at'[j] = "marking" BY <1>1, <2>1
  <2>3. ~ Current(k, f) BY <2>1, CurrentIsUnique
  <2>4. ~ (handed[k][f] > 0) BY <2>1, <2>3 DEF Progress
  <2> QED BY <1>1, <2>2, <2>4
<1>2. CASE j # k
  <2>1. at'[j] = at[j] /\ batch'[j] = batch[j] BY <1>2
  <2>2. Current(j, f)' <=> Current(j, f) BY <2>1 DEF Current
  <2> QED BY <2>1, <2>2 DEF Progress
<1> QED BY <1>1, <1>2

\* Finishing keeps the shape of the batches: a transaction past its first commit
\* holds no locks.
LEMMA FinishShape ==
    ASSUME IInv, NEW k \in Publishers, NEW e \in Events, Current(k, e), Finish(k, e),
           at[k] # "marking", UNCHANGED locks
    PROVE  BatchShape'
<1> USE DEF IInv, Finish, OutboxTypeOK, BatchShape
<1> SUFFICES ASSUME NEW j \in Publishers
             PROVE  /\ at'[j] = "idle" => batch'[j] = {}
                    /\ locks'[j] \subseteq batch'[j]
                    /\ locks'[j] # {} => at'[j] = "marking"
  OBVIOUS
<1>1. CASE j = k BY <1>1
<1>2. CASE j # k BY <1>2
<1> QED BY <1>1, <1>2

\* A row becomes sent after this publisher, at least, has handed it on.
LEMMA MarkSentInv ==
    ASSUME IInv, NEW k \in Publishers, NEW e \in Events, MarkSent(k, e)
    PROVE  IInv'
<1> USE DEF IInv, MarkSent, OutboxTypeOK, Statuses
<1>a. e \in batch[k] BY DEF Current
<1>b. locks[k] = {} BY DEF BatchShape
<1>1. OutboxTypeOK' BY DEF Finish
<1>2. HandedOnce' BY DEF HandedOnce
<1>3. PendingIsFresh' BY DEF PendingIsFresh
<1>4. SentIsHanded'
  <2>1. handed[k][e] > 0 BY <1>a DEF Progress
  <2> QED BY <2>1 DEF SentIsHanded
<1>5. LockedIsPending' BY <1>b DEF LockedIsPending, Unlocked
<1>6. BatchShape' BY FinishShape
<1>7. Progress'
  <2>1. \A f \in Events : row'[f] \in {"none", "pending"} => row[f] = row'[f] OBVIOUS
  <2> QED BY <2>1, FinishProgress
<1> QED BY <1>1, <1>2, <1>3, <1>4, <1>5, <1>6, <1>7

\* A failed row is not pending, so it is not polled again.
LEMMA MarkFailedInv ==
    ASSUME IInv, NEW k \in Publishers, NEW e \in Events, MarkFailed(k, e)
    PROVE  IInv'
<1> USE DEF IInv, MarkFailed, OutboxTypeOK, Statuses
<1>b. locks[k] = {} BY DEF BatchShape
<1>1. OutboxTypeOK' BY DEF Finish
<1>2. HandedOnce' BY DEF HandedOnce
<1>3. PendingIsFresh' BY DEF PendingIsFresh
<1>4. SentIsHanded' BY DEF SentIsHanded
<1>5. LockedIsPending' BY <1>b DEF LockedIsPending, Unlocked
<1>6. BatchShape' BY FinishShape
<1>7. Progress'
  <2>1. \A f \in Events : row'[f] \in {"none", "pending"} => row[f] = row'[f] OBVIOUS
  <2> QED BY <2>1, FinishProgress
<1> QED BY <1>1, <1>2, <1>3, <1>4, <1>5, <1>6, <1>7

\* An error keeps the batch, for the message to be marked failed.
LEMMA ErrorInv == ASSUME IInv, NEW k \in Publishers, Error(k) PROVE IInv'
<1> USE DEF IInv, Error, OutboxTypeOK
<1>1. OutboxTypeOK' OBVIOUS
<1>2. HandedOnce' BY DEF HandedOnce
<1>3. PendingIsFresh' BY DEF PendingIsFresh
<1>4. SentIsHanded' BY DEF SentIsHanded
<1>5. LockedIsPending' BY DEF LockedIsPending, Unlocked
<1>6. BatchShape' BY DEF BatchShape
<1>7. Progress' BY DEF Progress, Current
<1> QED BY <1>1, <1>2, <1>3, <1>4, <1>5, <1>6, <1>7

\* A forgotten batch leaves the rows as they are.
LEMMA AbandonInv == ASSUME IInv, NEW k \in Publishers, Abandon(k) PROVE IInv'
<1> USE DEF IInv, Abandon, OutboxTypeOK
<1>1. OutboxTypeOK' OBVIOUS
<1>2. HandedOnce' BY DEF HandedOnce
<1>3. PendingIsFresh' BY DEF PendingIsFresh
<1>4. SentIsHanded' BY DEF SentIsHanded
<1>5. LockedIsPending' BY DEF LockedIsPending, Unlocked
<1>6. BatchShape' BY DEF BatchShape
<1>7. Progress' BY DEF Progress, Current
<1> QED BY <1>1, <1>2, <1>3, <1>4, <1>5, <1>6, <1>7

\* Every step of the publishers, the table and the exchange keeps the invariant.
LEMMA NextInv == IInv /\ [OutboxNext]_outboxVars => IInv'
<1> SUFFICES ASSUME IInv, [OutboxNext]_outboxVars PROVE IInv' OBVIOUS
<1>1. CASE \E e \in Events : Enqueue(e) BY <1>1, EnqueueInv
<1>2. CASE DeclareQueue BY <1>2, DeclareInv
<1>3. ASSUME NEW k \in Publishers, PublisherStep(k) PROVE IInv'
  BY <1>3, PollInv, MarkProcessingInv, PublishInv, MarkSentInv, MarkFailedInv
     DEF PublisherStep
<1>4. ASSUME NEW k \in Publishers, Error(k) PROVE IInv' BY <1>4, ErrorInv
<1>5. ASSUME NEW k \in Publishers, Abandon(k) PROVE IInv' BY <1>5, AbandonInv
<1>6. CASE UNCHANGED outboxVars
  BY <1>6 DEF outboxVars, IInv, OutboxTypeOK, HandedOnce, PendingIsFresh, SentIsHanded,
              LockedIsPending, Unlocked, BatchShape, Progress, Current
<1> QED BY <1>1, <1>2, <1>3, <1>4, <1>5, <1>6 DEF OutboxNext

\* The inductive invariant of the outbox.
THEOREM OutboxInvariance == OutboxSpec => []IInv
BY InitInv, NextInv, PTL DEF OutboxSpec

\* The variables keep their types, whatever publishers do and however they fail.
THEOREM OutboxTypeCorrect == OutboxSpec => []OutboxTypeOK
<1>1. IInv => OutboxTypeOK BY DEF IInv
<1> QED BY <1>1, OutboxInvariance, PTL

\* No publisher hands an event to the exchange twice.
THEOREM PublishedOnce == OutboxSpec => []HandedOnce
<1>1. IInv => HandedOnce BY DEF IInv
<1> QED BY <1>1, OutboxInvariance, PTL

\* A row that can be polled has never been published.
THEOREM NeverRepublished == OutboxSpec => []PendingIsFresh
<1>1. IInv => PendingIsFresh BY DEF IInv
<1> QED BY <1>1, OutboxInvariance, PTL

\* A row is marked sent only after its message was handed on.
THEOREM SentAfterPublish == OutboxSpec => []SentIsHanded
<1>1. IInv => SentIsHanded BY DEF IInv
<1> QED BY <1>1, OutboxInvariance, PTL

\* What a publisher has locked is pending, and nobody else has it locked.
THEOREM LocksExclude == OutboxSpec => []LockedIsPending
<1>1. IInv => LockedIsPending BY DEF IInv
<1> QED BY <1>1, OutboxInvariance, PTL

-----------------------------------------------------------------------------
(* One publisher *)

\* A sent row is in no batch.
SentIsDone == \A e \in Events : row[e] = "sent" => \A k \in Publishers : e \notin batch[k]

\* Only the publisher that has a row in its batch marks it.  With a second one, that
\* one may still have the row in its batch.
LEMMA SentIsDoneStep ==
    ASSUME \A j, k \in Publishers : j = k,
           IInv, SentIsDone, [OutboxNext]_outboxVars
    PROVE  SentIsDone' /\ \A e \in Events : row[e] = "sent" => row'[e] = "sent"
<1> DEFINE Stay == \A e \in Events : row[e] = "sent" => row'[e] = "sent"
<1> USE DEF SentIsDone, IInv, OutboxTypeOK
<1>1. ASSUME NEW e \in Events, Enqueue(e) PROVE SentIsDone' /\ Stay BY <1>1 DEF Enqueue
<1>2. ASSUME NEW k \in Publishers, Poll(k) PROVE SentIsDone' /\ Stay
  <2>1. PICK S \in SUBSET {e \in Events : row[e] = "pending" /\ Unlocked(k, e)} :
           batch' = [batch EXCEPT ![k] = S]
    BY <1>2 DEF Poll
  <2>2. row' = row BY <1>2 DEF Poll
  <2> QED BY <2>1, <2>2
<1>3. ASSUME NEW k \in Publishers, NEW e \in Events, Publish(k, e) PROVE SentIsDone' /\ Stay
  BY <1>3 DEF Publish
<1>4. ASSUME NEW k \in Publishers, NEW e \in Events,
             MarkProcessing(k, e) \/ MarkSent(k, e) \/ MarkFailed(k, e)
      PROVE  SentIsDone' /\ Stay
  <2>1. e \in batch[k] /\ row[e] # "sent"
    BY <1>4 DEF MarkProcessing, MarkSent, MarkFailed, Current
  <2>2. Stay BY <1>4, <2>1 DEF MarkProcessing, MarkSent, MarkFailed
  <2>3. SentIsDone' BY <1>4 DEF MarkProcessing, MarkSent, MarkFailed, Finish
  <2> QED BY <2>2, <2>3
<1>5. ASSUME NEW k \in Publishers, Error(k) \/ Abandon(k) PROVE SentIsDone' /\ Stay
  BY <1>5 DEF Error, Abandon
<1>6. CASE DeclareQueue \/ UNCHANGED outboxVars BY <1>6 DEF DeclareQueue, outboxVars
<1> QED BY <1>1, <1>2, <1>3, <1>4, <1>5, <1>6 DEF OutboxNext, PublisherStep

\* With one publisher, as docker-compose runs it, a sent row stays sent.  The
\* assumption is needed: another publisher may still have the row in its batch.
THEOREM SentForGood ==
    ASSUME \A j, k \in Publishers : j = k
    PROVE  OutboxSpec => SentIsFinal
<1>1. OutboxInit => SentIsDone BY DEF OutboxInit, SentIsDone
<1>2. IInv /\ SentIsDone /\ [OutboxNext]_outboxVars => SentIsDone' BY SentIsDoneStep
<1>3. IInv /\ SentIsDone /\ [OutboxNext]_outboxVars
          => [\A e \in Events : row[e] = "sent" => row'[e] = "sent"]_row
  BY SentIsDoneStep
<1> QED BY <1>1, <1>2, <1>3, OutboxInvariance, PTL DEF OutboxSpec, SentIsFinal

-----------------------------------------------------------------------------
(* Copies in the queue *)

\* The publishers that have handed e to the exchange.
Handers(e) == {k \in Publishers : handed[k][e] > 0}

\* They are finitely many, and not more than there are publishers.
LEMMA HandersAreFinite ==
    ASSUME IsFiniteSet(Publishers), NEW e
    PROVE  /\ IsFiniteSet(Handers(e)) /\ Cardinality(Handers(e)) \in Nat
           /\ Cardinality(Publishers) \in Nat
           /\ Cardinality(Handers(e)) <= Cardinality(Publishers)
<1>1. Handers(e) \in SUBSET Publishers BY DEF Handers
<1> QED BY <1>1, FS_Subset, FS_CardinalityType

\* Who publishes an event had not handed it on, so a copy in the queue is one more
\* that has.
LEMMA PublishHands ==
    ASSUME IsFiniteSet(Publishers), IInv,
           NEW k \in Publishers, NEW e \in Events, Publish(k, e)
    PROVE  /\ queue[e] \in Nat /\ queue'[e] \in Nat /\ queue'[e] <= queue[e] + 1
           /\ Cardinality(Handers(e)') = Cardinality(Handers(e)) + 1
           /\ \A f \in Events \ {e} : queue'[f] = queue[f] /\ Handers(f)' = Handers(f)
<1> USE DEF IInv, OutboxTypeOK
<1>1. handed[k][e] = 0
  <2>1. e \in batch[k] /\ at[k] = "publishing" BY DEF Publish, Current
  <2> QED BY <2>1 DEF Progress
<1>2. /\ handed'[k][e] = 1
      /\ \A j \in Publishers, f \in Events :
            <<j, f>> # <<k, e>> => handed'[j][f] = handed[j][f]
  BY <1>1 DEF Publish
<1>3. /\ queue'[e] <= queue[e] + 1 /\ queue'[e] \in Nat /\ queue[e] \in Nat
      /\ \A f \in Events \ {e} : queue'[f] = queue[f]
  BY DEF Publish
<1>4. \A f \in Events \ {e} : Handers(f)' = Handers(f) BY <1>2 DEF Handers
<1>5. Handers(e)' = Handers(e) \cup {k} /\ k \notin Handers(e) BY <1>1, <1>2 DEF Handers
<1>6. Cardinality(Handers(e)') = Cardinality(Handers(e)) + 1
  BY <1>5, HandersAreFinite, FS_AddElement
<1> QED BY <1>3, <1>4, <1>6

\* No other step of the outbox touches the queue, or what was handed to it.
LEMMA OnlyPublishHands ==
    ASSUME [OutboxNext]_outboxVars, \A k \in Publishers, e \in Events : ~ Publish(k, e)
    PROVE  UNCHANGED <<queue, handed>>
BY DEF OutboxNext, PublisherStep, Enqueue, DeclareQueue, Poll, MarkProcessing, MarkSent,
       MarkFailed, Error, Abandon, outboxVars

-----------------------------------------------------------------------------
(* Waiting *)

\* A set of natural numbers has a least element: of the sets of what lies below an
\* element one is minimal, and it is empty.
LEMMA Least ==
    ASSUME NEW T \in SUBSET Nat, T # {}
    PROVE  \E m \in T : \A y \in T : m <= y
<1>1. PICK n \in T : TRUE OBVIOUS
<1> DEFINE S == 0 .. n
           Below(x) == {y \in T : y < x}
           C == {Below(x) : x \in {y \in T : y <= n}}
<1>2. IsFiniteSet(S)
  <2>1. 0 \in Int /\ n \in Int OBVIOUS
  <2> QED BY <2>1, FS_Interval
<1>a. n \in Nat /\ \A z \in T : z \in Nat OBVIOUS
<1>3. ASSUME NEW x \in T, x <= n PROVE Below(x) \in SUBSET S
  <2> SUFFICES ASSUME NEW y \in T, y < x PROVE y \in S OBVIOUS
  <2>1. x \in Nat /\ y \in Nat BY <1>a
  <2> QED BY <1>a, <1>3, <2>1
<1>4. C \subseteq FiniteSubsetsOf(S)
  <2> SUFFICES ASSUME NEW x \in T, x <= n PROVE Below(x) \in FiniteSubsetsOf(S)
    BY Zenon
  <2>1. Below(x) \in SUBSET S BY <1>3
  <2> HIDE DEF Below, S
  <2> QED BY <1>2, <2>1, FS_Subset DEF FiniteSubsetsOf
<1>5. Below(n) \in C OBVIOUS
<1>6. PICK B \in C : \A D \in C : <<D, B>> \notin StrictSubsetOrdering(S)
  <2> HIDE DEF C, S
  <2> QED BY <1>2, <1>4, <1>5, FS_StrictSubsetOrderingWellFounded, WFMin
<1>7. PICK x \in T : x <= n /\ B = Below(x) OBVIOUS
<1>8. ASSUME NEW y \in Below(x) PROVE FALSE
  <2>1. y \in T /\ y < x /\ y <= n BY <1>7
  <2>2. Below(y) \in C BY <2>1
  <2>3. Below(y) \subseteq Below(x) /\ y \notin Below(y)
    <3>1. x \in Nat /\ y \in Nat BY <1>a, <2>1
    <3>2. ~ (y < y) BY <3>1
    <3>3. ASSUME NEW z \in T, z < y PROVE z < x BY <1>a, <2>1, <3>1, <3>3
    <3> QED BY <3>2, <3>3
  <2>4. Below(y) \in SUBSET S /\ Below(x) \in SUBSET S BY <1>3, <1>7, <2>1
  <2>5. <<Below(y), Below(x)>> \in StrictSubsetOrdering(S)
    <3> HIDE DEF Below, S
    <3> QED BY <1>8, <2>3, <2>4 DEF StrictSubsetOrdering
  <2> HIDE DEF Below, C, S
  <2> QED BY <1>6, <1>7, <2>2, <2>5
<1> QED BY <1>8

\* A publisher at work has a batch; as long as it holds locks it has marked nothing
\* of it.
Engaged ==
    \A k \in Publishers : /\ at[k] # "idle" => batch[k] # {}
                          /\ locks[k] # {} => locks[k] = batch[k]

\* Publisher k has a statement to run and no row to wait for.
CanPublish(k) ==
    \/ /\ at[k] = "idle"
       /\ \E e \in Events : row[e] = "pending" /\ Unlocked(k, e)
    \/ /\ at[k] # "idle"
       /\ \E e \in Events : Current(k, e) /\ (at[k] = "publishing" \/ Unlocked(k, e))

\* While a row is pending or a publisher is at work, one of them can go on.
PublishersGoOn ==
    \A k \in Publishers :
        at[k] # "idle" \/ (\E e \in Events : row[e] = "pending")
            => \E j \in Publishers : CanPublish(j)

\* Every step keeps locks and batches together.
LEMMA EngagedStep == IInv /\ Engaged /\ [OutboxNext]_outboxVars => Engaged'
<1> SUFFICES ASSUME IInv, Engaged, [OutboxNext]_outboxVars PROVE Engaged'
  OBVIOUS
<1> USE DEF IInv, OutboxTypeOK, Engaged
<1>1. ASSUME UNCHANGED <<batch, locks, at>> PROVE Engaged' BY <1>1
<1>2. ASSUME NEW k \in Publishers, Poll(k) PROVE Engaged'
  <2>1. PICK S \in SUBSET Events : /\ S # {}
                                   /\ batch' = [batch EXCEPT ![k] = S]
                                   /\ locks' = [locks EXCEPT ![k] = S]
    BY <1>2 DEF Poll
  <2> QED BY <1>2, <2>1 DEF Poll
<1>3. ASSUME NEW k \in Publishers, NEW e \in Events, MarkProcessing(k, e) PROVE Engaged'
  BY <1>3 DEF MarkProcessing, Current
<1>4. ASSUME NEW k \in Publishers, NEW e \in Events, Publish(k, e) PROVE Engaged'
  BY <1>4 DEF Publish, Current
<1>5. ASSUME NEW k \in Publishers, NEW e \in Events, MarkSent(k, e) \/ MarkFailed(k, e)
      PROVE  Engaged'
  <2>1. locks[k] = {} BY <1>5 DEF MarkSent, MarkFailed, BatchShape
  <2>2. Finish(k, e) /\ UNCHANGED locks /\ e \in batch[k]
    BY <1>5 DEF MarkSent, MarkFailed, Current
  <2> QED BY <2>1, <2>2 DEF Finish
<1>6. ASSUME NEW k \in Publishers, Error(k) \/ Abandon(k) PROVE Engaged'
  BY <1>6 DEF Error, Abandon
<1>7. (\E e \in Events : Enqueue(e)) \/ DeclareQueue \/ UNCHANGED outboxVars
         => UNCHANGED <<batch, locks, at>>
  BY DEF Enqueue, DeclareQueue, outboxVars
<1> QED BY <1>1, <1>2, <1>3, <1>4, <1>5, <1>6, <1>7 DEF OutboxNext, PublisherStep

\* Who has rows locked has them for the batch it is about to mark, so it need not wait
\* itself: publishers do not wait for each other in a circle.
LEMMA HolderPublishes ==
    ASSUME IInv, Engaged, NEW j \in Publishers, locks[j] # {}
    PROVE  CanPublish(j)
<1> USE DEF IInv, OutboxTypeOK
<1>1. at[j] = "marking" /\ locks[j] = batch[j] BY DEF BatchShape, Engaged
<1>2. batch[j] \in SUBSET Nat /\ batch[j] # {} BY <1>1, OutboxAssumption
<1>3. PICK e \in batch[j] : \A f \in batch[j] : e <= f BY <1>2, Least
<1>4. e \in Events /\ Current(j, e) BY <1>3 DEF Current
<1>5. Unlocked(j, e) BY <1>1, <1>3 DEF LockedIsPending
<1> QED BY <1>1, <1>4, <1>5 DEF CanPublish

\* The safety half of EveryEventIsTaken: what its fairness is assumed of is always
\* there to be done.
LEMMA GoOn == IInv /\ Engaged => PublishersGoOn
<1> SUFFICES ASSUME IInv, Engaged, NEW k \in Publishers,
                    at[k] # "idle" \/ \E e \in Events : row[e] = "pending"
             PROVE  \E j \in Publishers : CanPublish(j)
  BY DEF PublishersGoOn
<1> USE DEF IInv, OutboxTypeOK
<1>1. CASE \E j \in Publishers : locks[j] # {} BY <1>1, HolderPublishes
<1>2. CASE \A j \in Publishers : locks[j] = {}
  <2>1. \A e \in Events : Unlocked(k, e) BY <1>2 DEF Unlocked
  <2>2. CASE at[k] = "idle" BY <2>1, <2>2 DEF CanPublish
  <2>3. CASE at[k] # "idle"
    <3>1. batch[k] \in SUBSET Nat /\ batch[k] # {} BY <2>3, OutboxAssumption DEF Engaged
    <3>2. PICK e \in batch[k] : \A f \in batch[k] : e <= f BY <3>1, Least
    <3>3. e \in Events /\ Current(k, e) BY <3>2 DEF Current
    <3> QED BY <2>1, <2>3, <3>3 DEF CanPublish
  <2> QED BY <2>2, <2>3
<1> QED BY <1>1, <1>2

\* Publishers do not stand still over work that is left: whatever has failed, one of
\* them can poll, publish or mark without waiting (OutboxPublisher, SKIP LOCKED and
\* the UPDATEs that do wait).
THEOREM PublishersNeverStuck == OutboxSpec => []PublishersGoOn
<1>1. OutboxInit => Engaged BY DEF OutboxInit, Engaged
<1> QED BY <1>1, EngagedStep, GoOn, OutboxInvariance, PTL DEF OutboxSpec
=============================================================================
