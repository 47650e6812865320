# Payment gateway: TLA+ models and proofs

Formal models of `payment-gateway-faststream`: a FastAPI gateway that reserves a
merchant's money for a payment, hands the payment to an external provider through
a transactional outbox and RabbitMQ, and settles it when the provider calls back.
This directory holds the models, the TLC configurations that check them on small
instances, and proofs of the main properties for instances of any size.

## 1. The system

| part | code | state | operations |
|---|---|---|---|
| payment creation | `app/services/payment_service.py`, `app/api/routes/payments.py` | rows of `payment`, `balance`, `outbox_message` | `create_payment` |
| webhook settlement | `app/services/webhook_service.py`, `app/api/routes/webhooks.py` | `payment`, `balance` | `handle_provider_webhook` |
| tables and repositories | `app/models`, `app/repositories` | the database | row locks, `reserve_amount`, `confirm_reservation`, `release_reservation`, `update_status`, marks of the outbox |
| unit of work | `app/uow/unit_of_work.py` | one session for each `async with` | commit, rollback, close |
| outbox publisher | `app/broker/outbox_publisher.py` | its batch, in memory | poll, mark, publish, mark |
| producer, consumer | `app/broker/producer.py`, `consumer.py` | exchange, queue, unacknowledged messages | publish, declare and bind, deliver, acknowledge |
| payment handler | `scripts/run_consumer.py`, `app/services/provider_service.py` | the payment row, locked | `handle_payment_created` |
| provider emulator | `provider/service.py` | payments and pending callbacks, in memory | create a payment, call back once |
| merchant profile | `app/api/routes/merchants.py`, `app/core/cache.py` | Redis entries | cached read of a balance |
| payment listing | `app/api/routes/payments.py` | none | cursor pages |
| merchant authentication | `app/api/dependencies.py`, `app/services/signature_service.py`, `app/repositories/merchant.py` | `merchant`, `merchant_credential` | `get_current_merchant_id` before each route |
| start of a gateway | `scripts/entrypoint.sh`, `migrations/env.py`, `scripts/seed_data.py` | all tables | upgrade, one transaction for each seed, then uvicorn |
| configuration, set-up | `app/core/config.py`, `app/main.py` | | |

How they interact. A request commits the payment, the reservation and an outbox row
in one transaction. A separate process polls the outbox and publishes to the exchange
`payments`. The consumer process receives the message, locks the payment row, asks
the provider over HTTP while it holds the lock, and records the provider's id. The
provider calls the webhook half a second after it was asked; the webhook locks the
payment row, then the balance row, and settles both. The three kinds of
transactions share nothing but the tables.

What is hard. Any number of requests, webhook calls, consumers (and publishers)
run at once; what a transaction read may be stale when it writes, unless it holds
a row lock; locks are taken in different orders; each process can die between any
two statements, and the provider with all it has in memory; a consumer can lose its
connection and go on with a message that is delivered again elsewhere; messages and
callbacks are repeated, late, reordered or lost; a commit in the middle of a batch releases locks the rest of the batch was read
under. The `hazards` of `PROJECT.json` list these at the line where they bite, with
the properties that cover them.

What makes each part correct:

* tables: reserved money is the sum of the open payments, money leaves only with a
  completed payment, nothing is reserved that is not there;
* creation: an order is paid at most once, a refused or failed request leaves nothing;
* settlement: a payment is settled at most once, in one step with its balance, and
  never refused for lack of reserved money;
* handler: an id is recorded only for the payment it was issued for, and nobody else
  moves the payment meanwhile;
* outbox: a publisher publishes an event at most once, marks it sent only after that,
  and leaves no committed event in the table;
* the whole: every payment settles, unless something fails, and then only payments that a
  failure itself has concerned stay open;
* profile: an outdated balance is shown for a bounded time only;
* listing: a walk through the pages ends, repeats nothing, and misses nothing but ties;
* amounts: the provider gets the amount that was reserved, in spite of floats and decimals;
* merchants: they are seeded whole, once, and before anybody serves; who is switched off
  stays so, and stops spending with the requests under way.

## 2. Modules

    Ledger                  abstract: the two tables, each transaction one step
      ^ implemented by
    PaymentTransactions     the three transactions, statement by statement
      v implements
    PaymentLife             abstract: what one payment row goes through
      ^ implemented by
    Pipeline                outbox + consumer + provider + webhook, with failures
      v EXTENDS
    Outbox                  table, publishers, exchange and queue
    AmountWire              minor units -> float -> two decimals -> minor units

    MerchantAccess          start of the gateways, seeding, authentication
    ProfileCache            GET /api/v1/me behind its cache
    PaymentListing          GET /api/v1/payments, page by page

    LedgerProofs, PaymentTransactionsProofs, OutboxProofs, PipelineProofs,
    ProfileCacheProofs, PaymentListingProofs, AmountWireProofs, MerchantAccessProofs
    MCLedger, MCPaymentTransactions, MCOutbox, MCPipeline, MCPaymentListing,
    MCMerchantAccess                                         instances for TLC

An operator whose comment starts with "Mutant:" is a broken variant of the
definition that follows it. No specification uses it; it is there to show that the
property named in `PROJECT.json` notices that bug.

### Ledger

`funds[m]` is the balance row of a merchant, `entry[p]` a payment row reduced to
merchant, invoice, amount and one of *open*, *captured*, *released*. `Reserve`,
`Capture` and `Release` each change both in one step. The sum of amounts is stated as
the cardinality of a set with one element for each minor unit (`Units`).

### PaymentLife

A payment row in the steps that both detailed models take it through. `pay[p]` is its status, `held[p]`
what its worker has come to (*free*, *locked*, *asked*), `asked[p]` the ids of the payments the provider
has created for it. A worker locks a created payment, asks, and records or lets go; a callback comes
only about a payment the provider has heard of and only while nobody holds the row. The models map to it so:

| PaymentLife | PaymentTransactions | Pipeline |
|---|---|---|
| `pay` | status of the committed row (`StatusOf`) | `pay` |
| `held` | `work[w]` of the worker that has the row (`HeldAs`) | `cur[w]` of the worker that has the message (`HeldAs`) |
| `asked` | ids issued for the row's invoice (`IdsOf`) | as many ids as `asked[e]` counts |

What Pipeline takes as one step is therefore a step of the interleaved statements too, as far as the
payment row tells.

### PaymentTransactions

| code | model |
|---|---|
| `balance`, `payment` tables, as committed | `balance`, `payment` |
| a session's locked and read balance row | `seen[t]` (the value read; not `None` = locked) |
| a webhook call with its payment row locked | `hook[c]` |
| a worker with its payment row locked | `work[w]` |
| a request's progress | `stage[r]`: received, checked, created, refused, failed |
| ids the provider has issued, and for what | `issued` |
| `exists_by_merchant_order_id` | `CheckOrder` (no lock) |
| `get_by_merchant_id_for_update`, `available_amount < amount`, `reserve_amount` | `ReserveAmount` (waits for the row) |
| `payments.create`, `enqueue_event`, `commit` | `CommitPayment`, or `InsertFails` on the unique invoice |
| `get_by_external_invoice_id_for_update` | `ReceiveWebhook` (waits for the row) |
| early returns of the webhook | `IgnoreWebhook` |
| `ProviderStatus.CREATED` branch | `MarkProcessing` |
| `confirm_reservation`, `release_reservation` up to the lock | `LockFunds` |
| the rest of the two branches and `commit` | `Complete`, `Cancel` |
| `handle_payment_created` | `TakeEvent`, `CallProvider`, `RecordProcessing`, `ProviderFails` |
| rollback, crash, lost connection | `AbortRequest`, `AbortCall`, `ProviderFails` |
| PostgreSQL's deadlock detector | `BreakDeadlock` |

The isolation level is READ COMMITTED: a statement sees what is committed when it
runs, a locking read waits for the row and then sees its latest version. Changes
reach the other transactions only at the commit, which writes the *absolute* values
the session computed from what it had read; that is why `seen` keeps that value.

One subtlety of the session: the webhook assigns `provider_payment_id` before it
queries the balance, so that query first flushes the UPDATE of the payment row. From
there to the commit the row has an uncommitted version (`Dirty`), and an INSERT with
the same invoice waits for it. A request that holds the balance and such a webhook
call that wants the balance wait for each other: `Deadlocked`.

The outbox and the broker are here only "a worker may receive the event of a
committed payment, any number of times", the provider "it may call back about an id
it issued, with any status, any number of times": more than Pipeline lets happen. The webhook
route does not authenticate its caller; the model has the provider as the only one, and it calls about an invoice
with an id it issued for that invoice.

### Outbox

`row[e]` is the status of an outbox row, `batch[k]` what publisher `k` has read and
not finished, `locks[k]` the rows its transaction holds, `at[k]` where it is with the
first message of its batch. `Poll` is `get_pending_messages`, `MarkProcessing`,
`Publish`, `MarkSent`, `MarkFailed` are the statements of the loop with the commit
that follows each; `Error` is an exception in the `try` block, `Abandon` an exception in the
`except` block or the death of the process. Events are numbered in the order of
`created_at` and may be committed in another. `queue` is a bag. `bound` tells
whether a queue is bound to the exchange. `handed` counts what was handed to the
exchange and is there for the properties only.

`retry_count`, `error_message` and `processed_at` are written and never read, so they
are left out; so are `get_failed_messages`, `reset_to_pending`, and the marks of
`OutboxService`, which nothing calls.

### Pipeline

Extends Outbox with the payment's status `pay`, the message each worker handles
(`cur`), the callbacks the provider still has to make (`due`) and the number of
payments it has created (`asked`). The transactions on a payment are atomic except for
the row lock a worker keeps while it asks the provider; they are the steps of PaymentLife, which
PaymentTransactions implements statement by statement. A message leaves the queue with `Take`, and comes back
if the broker loses its consumer before `Acknowledge`:

* `ConsumerDies`: the process is gone, and its transaction with it;
* `ConnectionLost`: only the connection is gone. `connect_robust` makes it again and the handler knows nothing of it: it
  goes on to ask the provider and to commit, while another worker may already have the message. The worker
  is `stale` until it ends. Its acknowledgement is for a delivery the broker has forgotten; whether the
  library raises then and the consumer starts again, or goes on, is the same to the model, since the message
  is in the queue. Messages it had prefetched and not begun are taken to come from the queue only.

An exception of the handler, wherever it is raised, leads to `Acknowledge` too (`HandlerFails`), because the
consumer catches it inside `message.process(requeue=True)`. A callback that times out or is refused is lost
(`WebhookLost`); a restart of the provider loses every callback it owes (`ProviderRestarts`), since payments and
tasks are in its memory only.

`Faults` chooses which of these happen, and publishers' failures, and `MaxFaults` how often at most.
`hit` is there for the properties only: the payments a failure has concerned, which are the one whose message a
publisher works on, the one whose handler raises, the one whose callback is lost, and all that wait for
a callback when the provider restarts. A consumer's death or lost connection concerns none.
`QueueFirst` says whether the consumer has declared the queue before the first payment.
How the callback ends is not chosen freely: `Decision` is what the emulator makes of the
amount it receives.

### AmountWire

A pure function, built from three steps: `Quotient` is Python's `event.amount / 100`, `Written` the
format `:.2f`, `ParseAmount` the provider's `int(Decimal(raw) * 100)`. A float is a number of `units`
below `Mantissa` (2^53 in a double) divided by a power of two from `Scales`; the division takes the
finest scale that fits and rounds to the nearest unit, and formatting rounds to the nearest
cent, both with ties to even (`Nearest`). Quotients that need a scale below one, from `Mantissa`
on, are left out. `IsExact` bounds the amounts for which the error of the quotient is less than half
a cent: 100 * 2^46 in a double.

### ProfileCache

One merchant. `version` stands for the balance (the number of its changes so far),
`cache[k]` for the Redis entry under key `k`: the key contains the path, the query and the
caller, so one profile may be stored under several. `Hit` and `Miss` are the
decorator's lookup, `ReadBalance` is `get_merchant_data`, `Store` the return of the
endpoint, `EndpointFails` its 404. Time is relative: what an entry has left, how long ago a
handler read, how long the balance has been unchanged (`quiet`). Redis and `fastapi-cache`
are external: keys expire (`Older`), get lost (`Evict`), an error of Redis is a miss or a
store that does not happen. A process whose `init_cache` failed at start-up is left out.

### PaymentListing

`row[p]` has the time its transaction began (`created_at` is `func.now()`), the status
and whether the transaction is still open. `Begin`, `Commit` and `Rollback` are apart, so a
row can appear with a time that a walk has already passed. `Page` is the whole of `get_payments` with its
query; ORDER BY leaves rows with one time in any order (`FirstRows`). `due`
and `repeated` are there for the properties only: `due[w]` is what the walk's query
has matched from its first page on, `repeated[w]` whether a page gave what an earlier one had. A filter that is not a status is dropped by the service,
which is the same as `None`. Negative limits, which PostgreSQL refuses below -1, are left out.

### MerchantAccess

| code | model |
|---|---|
| `merchant`, `merchant_credential`, `balance`, as committed, for each seed | `merchant[i]`, `credential[i]`, `balance[i]` |
| the tables exist | `migrated` |
| a process in `entrypoint.sh` | `at[g]`, and `job[g]`: 0 is the migration, i the i-th seed |
| rows a transaction has inserted and not committed | `g \in holds` |
| the SELECT of the revision or of the merchant's name | `Check` |
| the tables, or merchant and balance, flushed | `Insert` (waits for a transaction that has inserted the same), `InsertFails` |
| the SELECT of the key id | `FindCredential` (commits if there is one) |
| the INSERT of the credential and `commit` | `Issue` |
| `get_current_merchant_id` | `Authenticate`, with `Admitted` for its refusals |
| the route that was waiting for the merchant's id | `Spend`, a payment of one unit |

A refused request changes nothing and is no step. `last_used_at` and `api_key_hash` are written
and never read; nothing writes `deleted_at`. What a route does with a balance is the business of
PaymentTransactions; here it matters only that it comes after the dependency's transaction and does
not look at `is_active` again. The code has no operation that switches a merchant or a key off, but
it reads the columns: `DeactivateMerchant` and `DeactivateCredential` are an operator's UPDATE.
Names and key ids of the seeds are different from each other, and the configuration is the same at
every start. `late` is there for the properties only.

## 3. Runs

| run | asks | instance | states |
|---|---|---|---|
| `ledger` | does the atomic ledger keep its promises? | 2 merchants, 4 payments, 3 invoices, amounts 1 and 2 | 329 |
| `transactions` | can the three transactions interleave, abort or collide so that money is lost, reserved or settled twice? | 1 balance of 3, 3 requests, 2 calls, 2 workers, 3 orders of which two collide, amounts 1 and 2, 2 provider ids | 289 018 |
| `transactions_live` | does every transaction end, deadlocks included? | 2 requests, 2 calls, 1 worker, 3 orders | 22 855 |
| `outbox` | do two publishers with overlapping batches publish twice, mark rows they do not own, or leave one in the table? | 2 publishers, 3 events, batches of 2 | 213 498 |
| `pipeline_crashes` | does every payment settle when only consumers fail, and how often is the provider asked about one that is published twice? | 2 publishers, 2 workers, 2 payments, 2 deaths or lost connections | 239 801 |
| `pipeline_faults` | which payments can two failures leave open, is the provider asked again, and does it decide by the right amount? | 1 publisher, 3 payments, 2 workers, every kind of failure | 670 641 |
| `profile` | for how long may an outdated balance be shown, and does the cache catch up? | 2 keys, 2 handlers, TTL 3, handling 1 tick, 2 changes | 122 380 |
| `listing` | what may a walk miss or repeat, and does it end? | 4 payments, one of another merchant, 2 times, limits 0 to 2, with and without a filter | 885 615 |
| `merchants` | do two gateways that start on an empty database and die at any step leave it whole and serve? what can a merchant do that is switched off? | 2 gateways, 2 seeds with 3 and 1 units, 2 requests, 2 deaths | 256 424 |
| `pipeline_startup` | (violation) a payment made before the consumer first starts | 1 payment, no failure | |
| `pipeline_provider` | (violation) one failed request to the provider | 1 payment, 1 failure | |
| `profile_second_look` | (violation) the README's second look at the profile | 1 key, 1 handler, TTL 30, handling takes no time | |

Why the bounds are enough. With a balance of 3 and amounts 1 and 2, three requests
both fit and do not fit; two orders that differ only in dashes and a third give a
collision, a duplicate order and an innocent bystander; two calls and two workers are
enough for every pair of transactions to meet on one payment, and two ids for one
invoice arise when a worker fails after the provider answered. One merchant is
enough: rows of different merchants share no lock, and no property relates two
balances (the proofs cover any number). For the outbox, batches of two of three
rows leave one row for the other publisher in every state of the first batch. In
`pipeline_faults` two failures are enough for one to hit what another one left; with three payments a
restart of the provider can lose two callbacks and leave a bystander, and with two workers a lost
connection lets both have the one payment's message.

The profile's run has a handling time shorter than the TTL, two handlers so that one
overtakes the other, and two keys so that one answer is new while another is old. The
listing has three payments of one merchant at two times: two tie, and a page of one or two
ends on either of them.

The pipelines have floats of 10 bits, so that amounts below 800 are exact. The quotients of 56 and 51
lie below the amounts: cut off instead of rounded they lose a minor unit and with it their
parity. With 801 the provider gets 802, which is why `IsExact` is in the property. In `merchants` one
seed may spend without a signature and one not, and the first has more units than there are requests, so
that what it spends after it was switched off is not limited by its balance.

Deadlock checking is off except for the profile (where time never stops): the runs are finite systems that stop when all
requests are handled. That nothing stops too early is stated as a property
(`NoTransactionHangs`, `EveryEventIsTaken`, `EveryPaymentSettles`, `EveryGatewayServes`).

What the passing runs show:

* `SeenIsCurrent`, `ChecksStillHold`: the row locks are sufficient; no
  absolute value written by a commit hides another transaction's update, and what a
  transaction decided by still holds in the tables when it commits: the amount a request found available,
  the open payment a webhook call wants to settle, the created payment without an id of a worker.
* `OnePaymentPerOrder`: although there is no constraint on (merchant, order) and the
  check takes no lock, the unique invoice keeps an order from being paid twice, since
  equal orders have equal invoices.
* `ProviderIdBelongs`: with two ids issued for one invoice either may be recorded, but
  none of another payment; a payment has an id exactly when it has left "created".
* `AlwaysCovered`: the two `return False` after a failed `confirm_reservation` or
  `release_reservation` are never reached.
* `RecordsStand`: a row's order, amount and recorded provider id are never written over, and a final
  row not at all, although workers and calls with other ids and statuses come after.
* `RefinesLife`, checked in `transactions` and in `pipeline_faults`: the statements, in any interleaving, and
  the messages, failures and callbacks of the pipeline move a payment row by the same atomic steps.
* `RefinesLedger`, `MoneyIsExplained`: every behaviour of the statements is one of the
  ledger; the balances are at all times what the payments add up to.
* `NoTransactionHangs`: the deadlock described above is reachable and broken.
* `HandedOnce`, `PendingIsFresh`, `SentIsHanded`:
  the outbox is *at most once* for each publisher; a second publisher can publish a
  message again, because the first commit of a batch releases the locks of all of it.
* `SentIsFinal`: with one publisher a sent row stays sent. With two it does not, which is why
  the property is checked (in `pipeline_faults`), and proved, for one.
* `EveryEventIsTaken`: no row stays pending.
* `NothingIsForgotten`, `EveryPaymentSettles`: deaths and lost connections of the consumer alone lose nothing.
* `OnlyHitIsForgotten`: a failure of the publisher, the handler, a callback or the provider can
  leave a payment open for ever, since nothing retries; but no other payment than the ones it concerned. That
  is one payment, except for a restart of the provider, which leaves open every payment it owes a callback. The
  rest of a publisher's batch goes on.
* `HandedOverOnce`: the provider is not asked again about a payment whose answer is recorded or that is settled,
  though its message may be delivered again, even to a second worker while the first one goes on.
* `AskedOncePerFault`: duplicates of a message are harmless; a second
  payment at the provider takes a failure between its answer and the commit.
* `SettledByAmount`: the provider completes even amounts and cancels odd ones, although it was sent a float.
* `SeedsAreWhole`, `ServingIsSeeded`, `EveryGatewayServes`: gateways that start at once are not kept apart, and the
  loser of a race for a name fails; but each seed is one transaction, the script ends at the first error,
  and the next start goes on where this one ended.
* `SeedIsIdempotent`: seeding at every start neither refills balances nor switches anything on.
* `DeactivationBites`: only requests that were admitted before can still spend, each once.
* `OutdatedForTTL`: not "30 seconds" but 30 seconds plus the time a handler holds what it
  read, because a slow handler may store an old balance over a new one and restart its time.
  `CacheCatchesUp`: nothing invalidates an entry, yet the cache ends up current.
* `NoRepeats`, `OnlyTiesAreMissed`, `EveryWalkEnds`: the strict comparison with the
  cursor makes every walk end without repetition, at the price of the rows that tie with the last
  of a page. With limit 0 a walk ends at once with nothing, whatever there is.

What the violated runs show:

* `pipeline_startup`: the queue is declared only by the consumer. An event that
  is published before is dropped by the broker, the publish returns normally, the
  row is marked sent, and the payment stays created. `README.md:142-143` of the
  repository promises a final balance after the asynchronous stage.
* `pipeline_provider`: the handler raises when the provider fails, and the consumer
  receives messages with `process(requeue=True)`, but it catches the exception
  inside that block, so the message is acknowledged and never handled again.
* `profile_second_look`: the repository's README (lines 127 and 140-143) looks at the profile,
  pays, waits for one to three seconds and looks again for the resulting balance. With a TTL of
  30 seconds the second look is answered from the first. A tick is a second here.

### Fairness

`PaymentTransactions`: a transaction whose next statement can run does run (weak
fairness for each request, call and worker, and for the deadlock detector). Waiting
for a row is queued in PostgreSQL and a waiter is woken when the holder ends, so a
wait that ends again and again is over at last: strong fairness for the steps that
wait for a balance or for another row's uncommitted version. No fairness for
receiving requests, callbacks or events, nor for aborts.

`Outbox`: the publisher's loop goes on (`start()` catches every exception, a killed
process is started again by its operator), and it does not fail every time before the
first mark of a batch (strong fairness of `MarkProcessing`). `Pipeline`: weak fairness
for the consumer's start, each publisher, each worker and each callback; failures are
bounded by `MaxFaults`, so strong fairness is not needed.

`ProfileCache`: time passes, and a handler that has read the balance finishes (weak fairness
of `Tick` and `Store`). `PaymentListing`: a client that was given a cursor asks for the next
page (weak fairness of `Page`); nothing is assumed of the writers.

`MerchantAccess`: a script that is started goes on, and a gateway that is down is started again (weak
fairness of `StartStep`). The compose file has no restart policy, so this is the operator's `up`. Deaths are
bounded by `MaxCrashes`; lost races need no bound, since after one the seed is there.

## 4. Proofs

All proofs are checked by TLAPS with no step left out, for every value of the
constants that satisfies the assumption named in each module (amounts are
positive, opening balances natural numbers, requests and calls are different things,
`None` is not a row; events are natural numbers and the batch size is positive; every amount has a
float; finitely many requests are under way). What is assumed beyond these is in the theorem's own statement.

Some results are proved that no run checks: they are lemmas of a stronger one, or the safety half of a
liveness property, as below. The runs stay with what a reader would ask of the system.

`LedgerProofs`. The inductive invariant is `TypeOK /\ FiniteUnits /\ Explained /\ Solvent`.
The types need the rest of it: `reserved - a` is a natural number only because the
reserved amount is the cardinality of the units of *all* open payments, of which the
units of one are a subset, and cardinalities only add up for finite sets. The lemmas say
what adding, dropping and moving the units of one payment does to `Units`.
`OpenIsCovered`, that the balance always covers each open payment, then follows
(`LedgerCovers`) and is what the webhooks rely on.

`PaymentTransactionsProofs`. `IInv == TypeOK /\ Steps /\ Names`. `Steps` is what each
transaction knows between two of its statements: a locked balance is as it was read and
covers what will be taken from it, a locked payment has the status that was checked, no two
transactions write one payment (`OneWriterPerPayment`). `Names` says that invoices, orders and provider ids name one
payment. The theorems `NoLostUpdate`, `ChecksStand`, `OrderPaidOnce`, `IdsBelong` and
`TypeCorrect` follow from it, and `Refinement` shows each step to be a step of the ledger
or a stutter. `MoneyExplained` and `WebhooksCovered` are then the ledger's own
theorems (`LedgerIsSafe`, `LedgerCovers`) read through the refinement mapping: that no webhook
finds too little reserved is a fact about all payments of a merchant, which the transactions'
own invariant does not count.

`LifeRefinement` maps the statements to PaymentLife. It needs one thing more: an id is only issued
for the invoice of a payment that exists (`IssuedForRows`), so that a new row, whose invoice nobody has,
starts without ids. `RecordsKept` proves `RecordsStand` from `Steps`: the steps that change
a row hold it and have found it open.

`OutboxProofs`. `Progress` is the strengthening: what a publisher has handed on and
still has in its batch is the message it works on, and that message has left "pending".
`SentForGood` needs the assumption that there is one publisher, and says so. That a row is locked by
one publisher and pending is `LocksExclude`.

`PipelineProofs`. The outbox's invariant carries over, since the pipeline otherwise only
takes messages from the queue and puts them back. `ProviderAskedOnce` rests on
`HeldIsCreated` and `OneHolder`: whoever holds a payment's row found it created, is alone with
it, and the webhook waits. `AskedAgainAfterFault` counts: as long as a payment is created and nobody
waits for the provider's answer about it, every earlier request about it has been paid for with a
failure (`AskedIsPaid`).

`OnlyHitIsLost` and `ConsumersForgetNothing` share an invariant about the set `Lost`. It is larger than
what is already forgotten: it has the open payments whose failure has happened but whose
last carrier has still to give up (`Doomed`), such as a row that is about to be marked failed or a payment
that is being recorded after its callback was lost. What a step adds to `Lost` it adds to `hit` (`LostStep`, invariant
`LossIsHit`), and consumers that die or lose their connection add nothing (`ConsumerKeeps`); what is forgotten is lost
(`ForgottenIsLost`). Both
assume `QueueFirst = TRUE`; without it `pipeline_startup` is a counterexample. `DecidedByAmount` is
`AmountArrives` for the callback.

`PipelineLife` maps the composition to PaymentLife; `AskedIsPaid` bounds the ids that are needed, and a
callback is due only about what was asked (`DueIsAsked`), which is the guard of `Answer`. `PipelineSentForGood` carries
`SentForGood` over from the outbox (`OutboxSide`: a step of the pipeline is one of the outbox or leaves it alone).
`DeliveriesAreBounded` counts the broker's copies of a message: each, queued or delivered and not
acknowledged, has a publisher of its own, since a delivery that fails puts back its own copy and no other. A worker
that has lost its connection has no copy any more (`stale`) and is not counted. So with the one publisher of the
compose file two workers have the same payment's message only while all but one of them are stale. What keeps
them apart then is not the broker but the row lock and the status (`HandedOverOnce`, `OneHolder`).

`AmountWireProofs`. Rounding moves a quotient by half a unit at most (`NearestIsNear`). Two roundings, of which
the first is at a scale of 128 or finer, therefore move an amount by less than one minor unit
(`NoRoomBetween`).

`MerchantAccessProofs`. The invariant says what a gateway has learnt by the time it comes to a place: what it
has passed is there (`Done`), what it has inserted nobody else has (`Alone`), and who is about to add a
key has added its merchant (`Issuing`). For `SwitchingOffWorks`, what was spent late plus the
requests under way is at most the number of requests (`LateIsBounded`).

`ProfileCacheProofs`. An outdated entry has less time left the longer the balance has been quiet
(`EntriesFade`), and a handler with an outdated balance has held it since before the last
change (`ReadBeforeChange`); together they bound what `Store` can bring back.

`PaymentListingProofs`. What a walk has got lies on the near side of its cursor, what it still
owes beyond it, or ties with something it got (`GotIsBehind`, `DueIsAhead`). The lemma
`LastPage` is the off-by-one of `limit + 1`: a page without a next one leaves nothing out.

The safety half of liveness. A liveness property fails in one of two ways: something that could move is never
scheduled, or everything waits. Fairness excludes the first; that the second does not happen is a fact about states, and
is proved for instances of any size. The guards are written out (`Waits`, `CanPublish`, `CanWork`, `CanCallBack`, `CanStart`),
because the prover knows no `ENABLED`; TLC finds them equal to it on the instances of the runs.

| liveness property | proved | says |
|---|---|---|
| `NoTransactionHangs` | `NoOtherDeadlock` | who waits does so behind a holder of its balance that can go on, unless an INSERT and a webhook call wait for each other, which the database breaks |
| `EveryEventIsTaken` | `PublishersNeverStuck` | while a row is pending or a batch unfinished, some publisher can take a step: who has rows locked need not wait for the first of its batch (`HolderPublishes`), and where nobody has, nobody waits |
| `EveryPaymentSettles` | `NothingStopsEarly`, `RestLosesOnlyHit`, `ConsumersSettle` | when no process has a step left (`AtRest`), each open payment is forgotten; a failure has concerned each of them; there are none if only consumers failed |
| `CacheCatchesUp` | `QuietCatchesUp` | after TTL and handling time without a change no entry is outdated and no handler can make one so |
| `EveryWalkEnds` | `CursorsGoBack` | each page ends its walk or moves its cursor to an earlier time |
| `EveryGatewayServes` | `NoStartWaitsLong`, `KeysDoNotCollide` | a gateway waits only behind one that can go on, and two never add one key: they collide at the merchant's name, where nothing of the seed is there yet |

Only model-checked: liveness itself (`CacheCatchesUp`, `EveryWalkEnds`, `NoTransactionHangs`, `EveryEventIsTaken`,
`EveryPaymentSettles`, `EveryGatewayServes`), which needs fairness and `ENABLED`. Every safety property that
a passing run checks is also proved.

## 5. Not modelled

* One model of the balances and the pipeline together: PaymentTransactions has the balances and Pipeline the messages,
  and what ties them is that both implement PaymentLife, the life of a payment row. That the outbox row is committed
  with the payment is built into `CreatePayment`, which is the commit of `create_payment`.
* A process whose `init_cache` failed at start-up (`app/main.py:19`): what its cached route does is decided by
  `fastapi-cache`.
* Changes of the configuration between two starts: other secrets, keys or names for rows that are there.
* `alembic downgrade` and the offline mode of `migrations/env.py`, which no process of the system runs.
* Quotients from 2^53 on, and how a request is made canonical (`build_canonical_request`): both ends use one function.

Left out for good: logging, OpenAPI texts, configuration, the signing helper,
encryption and hashing (pure library calls). `BalanceRepository.add_amount` and the status `failed` are not
used by the code and have no action.
