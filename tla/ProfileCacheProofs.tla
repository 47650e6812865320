------------------------- MODULE ProfileCacheProofs -------------------------
(***************************************************************************)
(* The bound on outdated profiles, for every number of keys and concurrent *)
(* handlers, every TTL and every handling time.                             *)
(***************************************************************************)
EXTENDS ProfileCache, TLAPS

\* An outdated entry has no more time left than the quiet leaves of the horizon.
EntriesFade ==
    \A k \in Keys :
        (cache[k] # None /\ cache[k].version # version) => cache[k].left + quiet <= Horizon

\* A handler with an outdated balance read it before the last change.
ReadBeforeChange ==
    \A h \in Handlers :
        (handler[h] # None /\ handler[h].version # None /\ handler[h].version # version)
            => quiet <= handler[h].age

IInv == TypeOK /\ EntriesFade /\ ReadBeforeChange /\ OutdatedForTTL

USE ProfileAssumption

LEMMA InitIInv == Init => IInv
BY DEF Init, IInv, TypeOK, EntriesFade, ReadBeforeChange, OutdatedForTTL, Versions, Horizon

LEMMA ChangeInv == ASSUME IInv, ChangeBalance PROVE IInv'
<1> USE DEF IInv, ChangeBalance
<1>1. TypeOK'
  BY DEF TypeOK, Versions, Horizon
<1>2. EntriesFade'
  BY DEF TypeOK, EntriesFade, Entry, Horizon
<1>3. ReadBeforeChange'
  BY DEF TypeOK, ReadBeforeChange, Request
<1>4. OutdatedForTTL'
  BY DEF OutdatedForTTL
<1> QED  BY <1>1, <1>2, <1>3, <1>4

LEMMA HitInv ==
    ASSUME IInv, NEW h \in Handlers, NEW k \in Keys, Hit(h, k)
    PROVE  IInv'
<1> USE DEF IInv, Hit, AnswerWith
<1>1. cache[k] \in Entry /\ quiet \in 0 .. Horizon
  BY DEF TypeOK, Answer
<1>2. TypeOK'
  BY <1>1 DEF TypeOK, Answer
<1>3. OutdatedForTTL'
  <2>1. cache[k].version # version => quiet < Horizon
    BY <1>1 DEF EntriesFade, Entry, Horizon
  <2>2. answer'.quiet = quiet /\ (answer'.balance = "outdated" => cache[k].version # version)
    OBVIOUS
  <2> QED  BY <2>1, <2>2 DEF OutdatedForTTL
<1> QED  BY <1>2, <1>3 DEF EntriesFade, ReadBeforeChange

\* Requests before their answer: nothing but the handler changes.
LEMMA HandlerInv ==
    ASSUME IInv, NEW h \in Handlers,
           (\E k \in Keys : Miss(h, k)) \/ ReadBalance(h) \/ EndpointFails(h)
    PROVE  IInv'
<1> USE DEF IInv
<1>1. /\ UNCHANGED <<version, quiet, cache, answer>>
      /\ handler' \in [Handlers -> Request \cup {None}]
      /\ \A g \in Handlers \ {h} : handler'[g] = handler[g]
  BY DEF Miss, ReadBalance, EndpointFails, TypeOK, Request, Versions
<1>2. handler'[h] # None => handler'[h].version \in {None, version}
  BY DEF Miss, ReadBalance, EndpointFails, TypeOK, Request
<1>3. ReadBeforeChange'
  BY <1>1, <1>2 DEF ReadBeforeChange, TypeOK
<1> QED  BY <1>1, <1>3 DEF TypeOK, EntriesFade, OutdatedForTTL

LEMMA StoreInv == ASSUME IInv, NEW h \in Handlers, Store(h) PROVE IInv'
<1> USE DEF IInv, Store, AnswerWith
<1>1. /\ handler[h] \in Request /\ handler[h].version \in Versions
      /\ quiet \in 0 .. Horizon /\ handler[h].key \in Keys
  BY DEF TypeOK, Request
<1>2. handler[h].version # version => quiet <= MaxHandling
  BY <1>1 DEF ReadBeforeChange, Request, Horizon
<1>3. TypeOK'
  <2>1. [version |-> handler[h].version, left |-> TTL] \in Entry
    BY <1>1 DEF Entry
  <2>2. cache' \in [Keys -> Entry \cup {None}]
    BY <1>1, <2>1 DEF TypeOK
  <2>3. answer' \in Answer
    BY <1>1 DEF Answer
  <2> QED  BY <2>2, <2>3 DEF TypeOK
<1>4. EntriesFade'
  <2> SUFFICES ASSUME NEW k \in Keys, cache'[k] # None, cache'[k].version # version'
               PROVE  cache'[k].left + quiet' <= Horizon
    BY DEF EntriesFade
  <2>1. CASE cache'[k] = cache[k]
    BY <2>1 DEF EntriesFade
  <2>2. CASE cache'[k] = [version |-> handler[h].version, left |-> TTL]
    BY <1>1, <1>2, <2>2 DEF Horizon
  <2> QED  BY <2>1, <2>2 DEF TypeOK, Answer
<1>5. ReadBeforeChange'
  BY DEF ReadBeforeChange, TypeOK
<1>6. OutdatedForTTL'
  <2>1. handler[h].version # version => quiet < Horizon
    BY <1>1, <1>2 DEF Horizon
  <2>2. answer'.quiet = quiet /\ (answer'.balance = "outdated" => handler[h].version # version)
    OBVIOUS
  <2> QED  BY <2>1, <2>2 DEF OutdatedForTTL
<1> QED  BY <1>3, <1>4, <1>5, <1>6

LEMMA EvictInv == ASSUME IInv, NEW k \in Keys, Evict(k) PROVE IInv'
BY DEF IInv, Evict, TypeOK, EntriesFade, ReadBeforeChange, OutdatedForTTL

LEMMA TickInv == ASSUME IInv, Tick PROVE IInv'
<1> USE DEF IInv, Tick
<1>1. /\ quiet \in 0 .. Horizon /\ quiet' \in 0 .. Horizon
      /\ quiet' <= quiet + 1 /\ Horizon \in Nat
  BY DEF TypeOK, Horizon
<1>2. ASSUME NEW k \in Keys
      PROVE  /\ cache'[k] \in Entry \cup {None}
             /\ cache'[k] # None => /\ cache[k] # None
                                    /\ cache'[k].version = cache[k].version
                                    /\ cache'[k].left = cache[k].left - 1
                                    /\ cache[k].left \in Nat
  BY DEF TypeOK, Entry, Older
<1>3. ASSUME NEW h \in Handlers
      PROVE  /\ handler'[h] \in Request \cup {None}
             /\ (handler'[h] # None /\ handler'[h].version # None)
                   => /\ handler[h] # None
                      /\ handler'[h].version = handler[h].version
                      /\ handler'[h].age = handler[h].age + 1
                      /\ handler[h].age \in Nat
  BY DEF TypeOK, Request
<1>4. TypeOK'
  BY <1>1, <1>2, <1>3 DEF TypeOK, Answer
<1>5. EntriesFade'
  BY <1>1, <1>2 DEF EntriesFade
<1>6. ReadBeforeChange'
  BY <1>1, <1>3 DEF ReadBeforeChange
<1>7. OutdatedForTTL'
  BY DEF OutdatedForTTL
<1> QED  BY <1>4, <1>5, <1>6, <1>7

LEMMA StepKeepsIInv == IInv /\ [Next]_vars => IInv'
<1> SUFFICES ASSUME IInv, [Next]_vars PROVE IInv'
  OBVIOUS
<1>1. CASE ChangeBalance
  BY <1>1, ChangeInv
<1>2. ASSUME NEW h \in Handlers, HandlerStep(h) PROVE IInv'
  BY <1>2, HitInv, HandlerInv, StoreInv DEF HandlerStep
<1>3. ASSUME NEW k \in Keys, Evict(k) PROVE IInv'
  BY <1>3, EvictInv
<1>4. CASE Tick
  BY <1>4, TickInv
<1>5. CASE UNCHANGED vars
  BY <1>5 DEF vars, IInv, TypeOK, EntriesFade, ReadBeforeChange, OutdatedForTTL
<1> QED  BY <1>1, <1>2, <1>3, <1>4, <1>5 DEF Next

\* The types of the profile's cache hold in every reachable state.
THEOREM ProfileTypeCorrect == Spec => []TypeOK
<1>1. IInv => TypeOK
  BY DEF IInv
<1> QED  BY <1>1, InitIInv, StepKeepsIInv, PTL DEF Spec

\* GET /api/v1/me: whatever the number of keys and handlers and however they
\* interleave, an outdated balance is shown for less than TTL plus the handling time
\* after the last change.
THEOREM ProfileAgeBounded == Spec => []OutdatedForTTL
<1>1. IInv => OutdatedForTTL
  BY DEF IInv
<1> QED  BY <1>1, InitIInv, StepKeepsIInv, PTL DEF Spec

\* After the horizon of quiet no entry is outdated, and no handler holds an outdated
\* balance that it could still store.
CaughtUp ==
    quiet = Horizon =>
        /\ \A k \in Keys : cache[k] # None => cache[k].version = version
        /\ \A h \in Handlers : handler[h] # None => handler[h].version \in {None, version}

\* The safety half of CacheCatchesUp: time alone makes the cache of GET /api/v1/me
\* current, and once it is, only another change of the balance makes it outdated.
THEOREM QuietCatchesUp == Spec => []CaughtUp
<1>1. IInv => CaughtUp
  <2> SUFFICES ASSUME IInv, quiet = Horizon
               PROVE  /\ \A k \in Keys : cache[k] # None => cache[k].version = version
                      /\ \A h \in Handlers :
                            handler[h] # None => handler[h].version \in {None, version}
    BY DEF CaughtUp
  <2>1. ASSUME NEW k \in Keys, cache[k] # None, cache[k].version # version PROVE FALSE
    <3>1. cache[k].left \in 1 .. TTL
      BY <2>1 DEF IInv, TypeOK, Entry
    <3> QED  BY <2>1, <3>1 DEF IInv, EntriesFade, Horizon
  <2>2. ASSUME NEW h \in Handlers, handler[h] # None, handler[h].version \notin {None, version}
        PROVE  FALSE
    <3>1. handler[h].age \in 0 .. MaxHandling
      BY <2>2 DEF IInv, TypeOK, Request
    <3> QED  BY <2>2, <3>1 DEF IInv, ReadBeforeChange, Horizon
  <2> QED  BY <2>1, <2>2
<1> QED  BY <1>1, InitIInv, StepKeepsIInv, PTL DEF Spec
=============================================================================
