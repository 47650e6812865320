---------------------------- MODULE ProfileCache ----------------------------
(***************************************************************************)
(* GET /api/v1/me of one merchant.  The endpoint is wrapped in a cache that *)
(* nothing invalidates: an answer is kept in Redis for CACHE_TTL_SECONDS    *)
(* under a key made of the path, the query and the caller, and no           *)
(* transaction that changes the balance touches it.  What the model asks is *)
(* for how long a client can see a balance that is no longer true.          *)
(*                                                                         *)
(* Time is relative: an entry carries the ticks it has left, a handler the  *)
(* ticks since it read the balance, and quiet counts those since the        *)
(* balance last changed.  Redis and the caching decorator are libraries;    *)
(* they are modelled as they are used: an error of Redis is a miss or a     *)
(* store that does not happen, and never an error of the request.           *)
(***************************************************************************)
EXTENDS Naturals

CONSTANTS
    Keys,         \* cache keys under which the merchant's profile is asked for
    Handlers,     \* requests handled at the same time
    TTL,          \* CACHE_TTL_SECONDS, in ticks
    MaxHandling,  \* bound: ticks between reading the balance and storing the answer
    MaxChanges,   \* bound: changes of the balance
    None

ASSUME ProfileAssumption ==
    /\ TTL \in Nat \ {0}
    /\ MaxHandling \in Nat
    /\ MaxChanges \in Nat
    /\ None \notin Nat
    /\ None \notin [version : 0 .. MaxChanges, left : 1 .. TTL]
    /\ None \notin [key : Keys, version : (0 .. MaxChanges) \cup {None}, age : 0 .. MaxHandling]
    /\ None \notin [balance : {"current", "outdated"}, quiet : 0 .. TTL + MaxHandling]

VARIABLES
    version,  \* committed changes of the merchant's balance so far
    quiet,    \* ticks since the last change, no further than Horizon
    cache,    \* cache[k]: the version stored under k and the ticks it has left, or None
    handler,  \* handler[h]: the request h handles, past its lookup, or None
    answer    \* the last answer a client got: whether it was outdated, and quiet then

vars == <<version, quiet, cache, handler, answer>>

\* After so much quiet no answer should be outdated, and counting stops.
Horizon == TTL + MaxHandling

Versions == 0 .. MaxChanges

Entry == [version : Versions, left : 1 .. TTL]

Request == [key : Keys, version : Versions \cup {None}, age : 0 .. MaxHandling]

Answer == [balance : {"current", "outdated"}, quiet : 0 .. Horizon]

Init ==
    /\ version = 0
    /\ quiet = 0
    /\ cache = [k \in Keys |-> None]
    /\ handler = [h \in Handlers |-> None]
    /\ answer = None

-----------------------------------------------------------------------------

AnswerWith(v) ==
    answer' = [balance |-> IF v = version THEN "current" ELSE "outdated", quiet |-> quiet]

\* A transaction commits a new balance or a new reserved amount.
ChangeBalance ==
    /\ version < MaxChanges
    /\ version' = version + 1
    /\ quiet' = 0
    /\ UNCHANGED <<cache, handler, answer>>

\* Mutant: a hit extends the life of the entry.
Hit_Sliding(h, k) ==
    /\ handler[h] = None
    /\ cache[k] # None
    /\ AnswerWith(cache[k].version)
    /\ cache' = [cache EXCEPT ![k].left = TTL]
    /\ UNCHANGED <<version, quiet, handler>>

\* The key is found: the stored answer is returned and the endpoint does not run.
Hit(h, k) ==
    /\ handler[h] = None
    /\ cache[k] # None
    /\ AnswerWith(cache[k].version)
    /\ UNCHANGED <<version, quiet, cache, handler>>

\* The key is not found, Redis fails, or the client asks for no-cache.
Miss(h, k) ==
    /\ handler[h] = None
    /\ handler' = [handler EXCEPT ![h] = [key |-> k, version |-> None, age |-> 0]]
    /\ UNCHANGED <<version, quiet, cache, answer>>

\* WebhookService.get_merchant_data: one query reads the merchant and the balance.
ReadBalance(h) ==
    /\ handler[h] # None
    /\ handler[h].version = None
    /\ handler' = [handler EXCEPT ![h].version = version]
    /\ UNCHANGED <<version, quiet, cache, answer>>

\* The endpoint raises: 404 for a merchant that is gone, or the database fails.
\* An exception is not cached.
EndpointFails(h) ==
    /\ handler[h] # None
    /\ handler[h].version = None
    /\ handler' = [handler EXCEPT ![h] = None]
    /\ UNCHANGED <<version, quiet, cache, answer>>

\* Mutant: the answer is stored for longer than CACHE_TTL_SECONDS.
Store_Longer(h) ==
    /\ handler[h] # None
    /\ handler[h].version # None
    /\ \/ cache' = [cache EXCEPT ![handler[h].key] =
                       [version |-> handler[h].version, left |-> TTL + MaxHandling + 1]]
       \/ cache' = cache
    /\ AnswerWith(handler[h].version)
    /\ handler' = [handler EXCEPT ![h] = None]
    /\ UNCHANGED <<version, quiet>>

\* The answer is stored for TTL, over whatever is there by now, and returned;
\* an error of Redis is swallowed.
Store(h) ==
    /\ handler[h] # None
    /\ handler[h].version # None
    /\ \/ cache' = [cache EXCEPT ![handler[h].key] =
                       [version |-> handler[h].version, left |-> TTL]]
       \/ cache' = cache
    /\ AnswerWith(handler[h].version)
    /\ handler' = [handler EXCEPT ![h] = None]
    /\ UNCHANGED <<version, quiet>>

\* Redis loses an entry: eviction, a restart.
Evict(k) ==
    /\ cache[k] # None
    /\ cache' = [cache EXCEPT ![k] = None]
    /\ UNCHANGED <<version, quiet, handler, answer>>

\* Mutant: entries never expire.
Older_Never(entry) == entry

\* An entry one tick later: Redis drops it when its time is over.
Older(entry) == IF entry # None /\ entry.left > 1
                THEN [entry EXCEPT !.left = entry.left - 1]
                ELSE None

\* Time passes, but for no handler longer than MaxHandling after it read.
Tick ==
    /\ \A h \in Handlers :
          (handler[h] # None /\ handler[h].version # None) => handler[h].age < MaxHandling
    /\ cache' = [k \in Keys |-> Older(cache[k])]
    /\ handler' = [h \in Handlers |->
                     IF handler[h] # None /\ handler[h].version # None
                     THEN [handler[h] EXCEPT !.age = handler[h].age + 1]
                     ELSE handler[h]]
    /\ quiet' = IF quiet < Horizon THEN quiet + 1 ELSE quiet
    /\ UNCHANGED <<version, answer>>

HandlerStep(h) ==
    \/ \E k \in Keys : Hit(h, k) \/ Miss(h, k)
    \/ ReadBalance(h)
    \/ EndpointFails(h)
    \/ Store(h)

Next ==
    \/ ChangeBalance
    \/ \E h \in Handlers : HandlerStep(h)
    \/ \E k \in Keys : Evict(k)
    \/ Tick

Spec == Init /\ [][Next]_vars

\* Time passes, and a handler that has read the balance goes on.
Fairness == WF_vars(Tick) /\ \A h \in Handlers : WF_vars(Store(h))

FairSpec == Spec /\ Fairness

-----------------------------------------------------------------------------
(* Properties *)

\* Every variable has its type.
TypeOK ==
    /\ version \in Versions
    /\ quiet \in 0 .. Horizon
    /\ cache \in [Keys -> Entry \cup {None}]
    /\ handler \in [Handlers -> Request \cup {None}]
    /\ answer \in Answer \cup {None}

\* A client sees an outdated balance only within TTL of the last change, plus the
\* time a handler holds what it read: a slow request that read before the change may
\* store over a newer answer, and restarts the time for the old one.
OutdatedForTTL ==
    (answer # None /\ answer.balance = "outdated") => answer.quiet < Horizon

\* Once the balance stops changing the cache catches up with it for good, although
\* nothing ever invalidates an entry.
CacheCatchesUp == <>[](\A k \in Keys : cache[k] # None => cache[k].version = version)

\* README.md:127 and 140-143: GET /api/v1/me, POST /api/v1/payments, wait one to three
\* seconds, and the second GET shows the resulting balance.  With a tick of a second,
\* an answer given three ticks after the last change is current.
SecondLookIsCurrent ==
    (answer # None /\ answer.quiet >= 3) => answer.balance = "current"
=============================================================================
