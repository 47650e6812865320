------------------------------- MODULE Outbox -------------------------------
(***************************************************************************)
(* The transactional outbox: the outbox_message table, the publishers that *)
(* poll it (OutboxPublisher._process_pending_messages) and the exchange    *)
(* they publish to.                                                        *)
(*                                                                         *)
(* A publisher reads a batch of pending rows FOR UPDATE SKIP LOCKED, but   *)
(* the commit that marks the first of them releases the locks of all; the  *)
(* rest of the batch is worked off from memory.  docker-compose runs one   *)
(* publisher; the query is written for several, and so is this module.     *)
(* UPDATE and COMMIT follow each other and are one step.  A publisher may  *)
(* fail at any step and then polls again.                                  *)
(*                                                                         *)
(* The queue is a bag: no property depends on the order across payments.   *)
(***************************************************************************)
EXTENDS Integers, FiniteSets

CONSTANTS
    Publishers,  \* processes that run the publisher
    Events,      \* outbox rows, numbered in the order of created_at
    Limit        \* rows a poll takes at most

ASSUME OutboxAssumption ==
    /\ Events \subseteq Nat
    /\ Limit \in Nat \ {0}

VARIABLES
    row,     \* row[e]: the status of e's row, "none" before it is committed
    batch,   \* batch[k]: the messages k has read and not finished
    locks,   \* locks[k]: the rows k's transaction has locked
    at,      \* at[k]: where k is with the first message of its batch
    bound,   \* a queue is bound to the exchange
    queue,   \* queue[e]: copies of e in the queue
    handed   \* handed[k][e]: how often k handed e to the exchange (history)

outboxVars == <<row, batch, locks, at, bound, queue, handed>>

Statuses == {"none", "pending", "processing", "sent", "failed"}

\* The broker may have kept the queue of an earlier run.
OutboxInit ==
    /\ row = [e \in Events |-> "none"]
    /\ batch = [k \in Publishers |-> {}]
    /\ locks = [k \in Publishers |-> {}]
    /\ at = [k \in Publishers |-> "idle"]
    /\ bound \in BOOLEAN
    /\ queue = [e \in Events |-> 0]
    /\ handed = [k \in Publishers |-> [e \in Events |-> 0]]

-----------------------------------------------------------------------------

\* e is the message k works on: messages are read in the order of created_at.
Current(k, e) == e \in batch[k] /\ \A f \in batch[k] : e <= f

\* No other transaction holds e's row.
Unlocked(k, e) == \A j \in Publishers \ {k} : e \notin locks[j]

\* k is done with message e and goes on with its batch.
Finish(k, e) ==
    /\ batch' = [batch EXCEPT ![k] = @ \ {e}]
    /\ at' = [at EXCEPT ![k] = IF batch[k] = {e} THEN "idle" ELSE "marking"]

\* The transaction of a payment commits the row of its event.  created_at is the
\* time the transaction started, so rows may appear in another order.
Enqueue(e) ==
    /\ row[e] = "none"
    /\ row' = [row EXCEPT ![e] = "pending"]
    /\ UNCHANGED <<batch, locks, at, bound, queue, handed>>

\* The consumer declares the queue and binds it when it first starts.
DeclareQueue ==
    /\ ~ bound
    /\ bound' = TRUE
    /\ UNCHANGED <<row, batch, locks, at, queue, handed>>

\* Mutant: the query does not look at the status.
Poll_AnyStatus(k) ==
    /\ at[k] = "idle"
    /\ LET found == {e \in Events : row[e] # "none" /\ Unlocked(k, e)}
       IN  \E S \in (SUBSET found) \ {{}} :
              /\ Cardinality(S) <= Limit
              /\ Cardinality(S) = Limit \/ S = found
              /\ \A e \in S, f \in found \ S : e < f
              /\ batch' = [batch EXCEPT ![k] = S]
              /\ locks' = [locks EXCEPT ![k] = S]
    /\ at' = [at EXCEPT ![k] = "marking"]
    /\ UNCHANGED <<row, bound, queue, handed>>

\* get_pending_messages: the oldest pending rows that nobody has locked.
Poll(k) ==
    /\ at[k] = "idle"
    /\ LET found == {e \in Events : row[e] = "pending" /\ Unlocked(k, e)}
       IN  \E S \in (SUBSET found) \ {{}} :
              /\ Cardinality(S) <= Limit
              /\ Cardinality(S) = Limit \/ S = found
              /\ \A e \in S, f \in found \ S : e < f
              /\ batch' = [batch EXCEPT ![k] = S]
              /\ locks' = [locks EXCEPT ![k] = S]
    /\ at' = [at EXCEPT ![k] = "marking"]
    /\ UNCHANGED <<row, bound, queue, handed>>

\* Mutant: the mark is not committed before the message is published.
MarkProcessing_NotCommitted(k, e) ==
    /\ at[k] = "marking"
    /\ Current(k, e)
    /\ Unlocked(k, e)
    /\ at' = [at EXCEPT ![k] = "publishing"]
    /\ UNCHANGED <<row, locks, batch, bound, queue, handed>>

\* Mutant: the whole batch is marked at once.
MarkProcessing_Batch(k, e) ==
    /\ at[k] = "marking"
    /\ Current(k, e)
    /\ Unlocked(k, e)
    /\ row' = [f \in Events |-> IF f \in batch[k] THEN "processing" ELSE row[f]]
    /\ locks' = [locks EXCEPT ![k] = {}]
    /\ at' = [at EXCEPT ![k] = "publishing"]
    /\ UNCHANGED <<batch, bound, queue, handed>>

\* mark_as_processing and commit.  The UPDATE waits for a lock on the row and
\* does not look at its status; the commit releases every lock of the batch.
MarkProcessing(k, e) ==
    /\ at[k] = "marking"
    /\ Current(k, e)
    /\ Unlocked(k, e)
    /\ row' = [row EXCEPT ![e] = "processing"]
    /\ locks' = [locks EXCEPT ![k] = {}]
    /\ at' = [at EXCEPT ![k] = "publishing"]
    /\ UNCHANGED <<batch, bound, queue, handed>>

\* The exchange accepts the message; while no queue is bound it drops it, and
\* the publisher is not told.
Publish(k, e) ==
    /\ at[k] = "publishing"
    /\ Current(k, e)
    /\ queue' = [queue EXCEPT ![e] = IF bound THEN @ + 1 ELSE @]
    /\ handed' = [handed EXCEPT ![k][e] = @ + 1]
    /\ at' = [at EXCEPT ![k] = "published"]
    /\ UNCHANGED <<row, batch, locks, bound>>

\* Mutant: a status that is not an OutboxStatus is stored.
MarkSent_OtherStatus(k, e) ==
    /\ at[k] = "published"
    /\ Current(k, e)
    /\ Unlocked(k, e)
    /\ row' = [row EXCEPT ![e] = "published"]
    /\ Finish(k, e)
    /\ UNCHANGED <<locks, bound, queue, handed>>

\* mark_as_sent and commit.
MarkSent(k, e) ==
    /\ at[k] = "published"
    /\ Current(k, e)
    /\ Unlocked(k, e)
    /\ row' = [row EXCEPT ![e] = "sent"]
    /\ Finish(k, e)
    /\ UNCHANGED <<locks, bound, queue, handed>>

\* A statement or the publish raised, the publish perhaps after the broker had
\* taken the message.  A failed transaction holds no locks.
Error(k) ==
    /\ at[k] \in {"marking", "publishing", "published"}
    /\ at' = [at EXCEPT ![k] = "failing"]
    /\ locks' = [locks EXCEPT ![k] = {}]
    /\ UNCHANGED <<row, batch, bound, queue, handed>>

\* Mutant: a failed message is made pending again.
MarkFailed_Retries(k, e) ==
    /\ at[k] = "failing"
    /\ Current(k, e)
    /\ Unlocked(k, e)
    /\ row' = [row EXCEPT ![e] = "pending"]
    /\ Finish(k, e)
    /\ UNCHANGED <<locks, bound, queue, handed>>

\* Mutant: the message is marked sent whether it was published or not.
MarkFailed_AsSent(k, e) ==
    /\ at[k] = "failing"
    /\ Current(k, e)
    /\ Unlocked(k, e)
    /\ row' = [row EXCEPT ![e] = "sent"]
    /\ Finish(k, e)
    /\ UNCHANGED <<locks, bound, queue, handed>>

\* mark_as_failed and commit.
MarkFailed(k, e) ==
    /\ at[k] = "failing"
    /\ Current(k, e)
    /\ Unlocked(k, e)
    /\ row' = [row EXCEPT ![e] = "failed"]
    /\ Finish(k, e)
    /\ UNCHANGED <<locks, bound, queue, handed>>

\* Mutant: the error leaves start().
Abandon_Stops(k) ==
    /\ at[k] # "idle"
    /\ batch' = [batch EXCEPT ![k] = {}]
    /\ locks' = [locks EXCEPT ![k] = {}]
    /\ at' = [at EXCEPT ![k] = "stopped"]
    /\ UNCHANGED <<row, bound, queue, handed>>

\* mark_as_failed itself fails, or the process is killed and started again: the
\* batch is forgotten and the publisher polls again.
Abandon(k) ==
    /\ at[k] # "idle"
    /\ batch' = [batch EXCEPT ![k] = {}]
    /\ locks' = [locks EXCEPT ![k] = {}]
    /\ at' = [at EXCEPT ![k] = "idle"]
    /\ UNCHANGED <<row, bound, queue, handed>>

-----------------------------------------------------------------------------

\* What a publisher does on its own account.
PublisherStep(k) ==
    \/ Poll(k)
    \/ \E e \in Events : \/ MarkProcessing(k, e)
                         \/ Publish(k, e)
                         \/ MarkSent(k, e)
                         \/ MarkFailed(k, e)

OutboxNext ==
    \/ \E e \in Events : Enqueue(e)
    \/ DeclareQueue
    \/ \E k \in Publishers : PublisherStep(k) \/ Error(k) \/ Abandon(k)

OutboxSpec == OutboxInit /\ [][OutboxNext]_outboxVars

\* A publisher keeps running, and does not fail every time before it has marked
\* the first message of a batch.
OutboxFairness ==
    \A k \in Publishers :
        /\ WF_outboxVars(PublisherStep(k))
        /\ SF_outboxVars(\E e \in Events : MarkProcessing(k, e))

OutboxFairSpec == OutboxSpec /\ OutboxFairness

-----------------------------------------------------------------------------
(* Safety *)

OutboxTypeOK ==
    /\ row \in [Events -> Statuses]
    /\ batch \in [Publishers -> SUBSET Events]
    /\ locks \in [Publishers -> SUBSET Events]
    /\ at \in [Publishers -> {"idle", "marking", "publishing", "published", "failing"}]
    /\ bound \in BOOLEAN
    /\ queue \in [Events -> Nat]
    /\ handed \in [Publishers -> [Events -> Nat]]

\* A publisher hands an event to the exchange at most once, however often it
\* fails: nothing it has begun to publish is ever polled again.
HandedOnce == \A k \in Publishers, e \in Events : handed[k][e] <= 1

\* A row that can be polled has never been published: a failure leaves a row
\* behind as processing or failed, never as one to publish again.
PendingIsFresh ==
    \A e \in Events : row[e] \in {"none", "pending"} =>
                         \A k \in Publishers : handed[k][e] = 0

\* A row is marked sent only after the exchange has accepted its message, even
\* if another publisher works on the same row.
SentIsHanded ==
    \A e \in Events : row[e] = "sent" => \E k \in Publishers : handed[k][e] > 0

\* One publisher at most has a row locked, and what it has locked is still what
\* it read: pending.  Another one that read the row earlier waits.
LockedIsPending ==
    \A k \in Publishers : \A e \in locks[k] : row[e] = "pending" /\ Unlocked(k, e)

\* With one publisher a row that is sent stays sent; with two, one that still has
\* the row in its batch marks it processing again.
SentIsFinal == [][\A e \in Events : row[e] = "sent" => row'[e] = "sent"]_row

(* Liveness *)

\* Every committed event is taken out of the table in the end, whatever else
\* fails and however many rows are older.
EveryEventIsTaken ==
    \A e \in Events : row[e] = "pending" ~> row[e] # "pending"
=============================================================================
