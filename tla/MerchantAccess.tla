--------------------------- MODULE MerchantAccess ---------------------------
(***************************************************************************)
(* How merchants come to exist and how their requests are admitted: the    *)
(* start of a gateway (scripts/entrypoint.sh: migration, then one          *)
(* transaction for each seed of scripts/seed_data.py, then uvicorn) and    *)
(* the dependency get_current_merchant_id that every route of a merchant   *)
(* runs before its own transaction.                                        *)
(*                                                                         *)
(* A gateway works through jobs 0 .. N: job 0 is "alembic upgrade head",   *)
(* job i seeds the i-th merchant of get_seed_merchants.  Several gateways  *)
(* may start on one database, at any moment, and die at any moment.  What  *)
(* an open transaction has inserted is seen by itself alone, but makes     *)
(* whoever inserts the same name wait.  Operators switch merchants and     *)
(* credentials off.                                                        *)
(*                                                                         *)
(* A refused request changes nothing and is no step.  last_used_at and     *)
(* api_key_hash are written and never read; deleted_at is never written.   *)
(***************************************************************************)
EXTENDS Integers, FiniteSets

CONSTANTS Gateways,     \* processes that run entrypoint.sh
          N,            \* number of seeds
          Opening,      \* the balance each seed starts with
          Bypass,       \* seeds whose key id is in AUTH_DEV_BYPASS_KEY_IDS
          Requests,     \* requests that can be under way at once
          MaxCrashes,   \* bound on the number of deaths of gateways
          None          \* no row, no merchant

Seeds == 1 .. N

\* The key ids and the names of the seeds are different, so that a seed is
\* both a row of merchant and one of merchant_credential.
ASSUME AccessAssumption ==
    /\ N \in Nat
    /\ Opening \in [Seeds -> Nat]
    /\ Bypass \subseteq Seeds
    /\ MaxCrashes \in Nat
    /\ IsFiniteSet(Requests)
    /\ None \notin Nat

VARIABLES migrated,     \* whether the tables exist
          merchant,     \* merchant[i]: row of seed i, "none", "active", "inactive"
          credential,   \* credential[i]: the same of its key
          balance,      \* balance[i]: its balance, None when there is no row
          at,           \* at[g]: where gateway g is
          job,          \* job[g]: which job it is at
          holds,        \* gateways whose open transaction has inserted rows
          request,      \* request[r]: who is admitted and by which gateway
          crashes,      \* deaths of gateways so far
          late          \* late[i]: spendings of i after it was switched off

vars == <<migrated, merchant, credential, balance, at, job, holds, request, crashes, late>>
rows == <<migrated, merchant, credential, balance>>

RowStates == {"none", "active", "inactive"}
Places == {"down", "checking", "missing", "finding", "issuing", "serving"}
Idle == [of |-> None, by |-> None]

TypeOK ==
    /\ migrated \in {"no", "yes"}
    /\ merchant \in [Seeds -> RowStates]
    /\ credential \in [Seeds -> RowStates]
    /\ balance \in [Seeds -> Nat \cup {None}]
    /\ at \in [Gateways -> Places]
    /\ job \in [Gateways -> 0 .. N]
    /\ holds \subseteq Gateways
    /\ request \in [Requests -> {Idle} \cup [of : Seeds, by : Gateways]]
    /\ crashes \in 0 .. MaxCrashes
    /\ late \in [Seeds -> Nat]

Init ==
    /\ migrated = "no"
    /\ merchant = [i \in Seeds |-> "none"]
    /\ credential = [i \in Seeds |-> "none"]
    /\ balance = [i \in Seeds |-> None]
    /\ at = [g \in Gateways |-> "down"]
    /\ job = [g \in Gateways |-> 0]
    /\ holds = {}
    /\ request = [r \in Requests |-> Idle]
    /\ crashes = 0
    /\ late = [i \in Seeds |-> 0]

-----------------------------------------------------------------------------
(***************************************************************************)
(* The start of a gateway.                                                 *)
(***************************************************************************)

Goto(g, place) == at' = [at EXCEPT ![g] = place]

\* The rows of gateway g's job are there for other transactions to see.
Present(g) == IF job[g] = 0 THEN migrated = "yes" ELSE merchant[job[g]] # "none"

\* Another open transaction has inserted what gateway g is about to insert.
Waits(g) == \E h \in holds \ {g} : job[h] = job[g]

\* The next job of the script, or "exec uvicorn" after the last one.
Proceed(g) ==
    IF job[g] = N THEN Goto(g, "serving") /\ UNCHANGED job
                  ELSE Goto(g, "checking") /\ job' = [job EXCEPT ![g] = job[g] + 1]

\* The container is started, by compose or again by an operator.
Start(g) ==
    /\ at[g] = "down"
    /\ Goto(g, "checking")
    /\ job' = [job EXCEPT ![g] = 0]
    /\ UNCHANGED <<rows, holds, request, crashes, late>>

\* The SELECT of the current revision, or of the merchant of this name.
Check(g) ==
    /\ at[g] = "checking"
    /\ IF ~Present(g) THEN Goto(g, "missing") /\ UNCHANGED job
       ELSE IF job[g] = 0 THEN Proceed(g)
       ELSE Goto(g, "finding") /\ UNCHANGED job
    /\ UNCHANGED <<rows, holds, request, crashes, late>>

\* The tables are created, or merchant and balance are added and flushed.
Insert(g) ==
    /\ at[g] = "missing"
    /\ ~Waits(g)
    /\ ~Present(g)
    /\ holds' = holds \cup {g}
    /\ Goto(g, "finding")
    /\ UNCHANGED <<rows, job, request, crashes, late>>

\* Mutant: a script without "set -e" starts uvicorn after a failed seed.
InsertFails_Serves(g) ==
    /\ at[g] = "missing"
    /\ ~Waits(g)
    /\ Present(g)
    /\ Goto(g, "serving")
    /\ UNCHANGED <<rows, job, holds, request, crashes, late>>

\* Somebody has committed them since the check: the statement violates a
\* unique index, and "set -e" ends the script.
InsertFails(g) ==
    /\ at[g] = "missing"
    /\ ~Waits(g)
    /\ Present(g)
    /\ Goto(g, "down")
    /\ UNCHANGED <<rows, job, holds, request, crashes, late>>

\* The end of the migration's transaction.
CommitMigration(g) ==
    /\ at[g] = "finding" /\ job[g] = 0
    /\ migrated' = "yes"
    /\ holds' = holds \ {g}
    /\ Proceed(g)
    /\ UNCHANGED <<merchant, credential, balance, request, crashes, late>>

\* What the transaction of gateway g has inserted becomes visible.
CommitMerchant(g) ==
    /\ merchant' = IF g \in holds THEN [merchant EXCEPT ![job[g]] = "active"] ELSE merchant
    /\ balance' = IF g \in holds THEN [balance EXCEPT ![job[g]] = Opening[job[g]]] ELSE balance
    /\ holds' = holds \ {g}

\* Mutant: the seed finds active credentials only.
FindCredential_Active(g) ==
    /\ at[g] = "finding" /\ job[g] # 0
    /\ IF credential[job[g]] = "active"
       THEN /\ CommitMerchant(g)
            /\ Proceed(g)
       ELSE /\ Goto(g, "issuing")
            /\ UNCHANGED <<merchant, balance, holds, job>>
    /\ UNCHANGED <<migrated, credential, request, crashes, late>>

\* Mutant: merchant and balance are committed before the credential.
FindCredential_Commits(g) ==
    /\ at[g] = "finding" /\ job[g] # 0
    /\ CommitMerchant(g)
    /\ IF credential[job[g]] # "none" THEN Proceed(g) ELSE Goto(g, "issuing") /\ UNCHANGED job
    /\ UNCHANGED <<migrated, credential, request, crashes, late>>

\* Mutant: a key that is there already is switched on.
FindCredential_Enables(g) ==
    /\ at[g] = "finding" /\ job[g] # 0
    /\ IF credential[job[g]] # "none"
       THEN /\ CommitMerchant(g)
            /\ credential' = [credential EXCEPT ![job[g]] = "active"]
            /\ Proceed(g)
       ELSE /\ Goto(g, "issuing")
            /\ UNCHANGED <<merchant, balance, credential, holds, job>>
    /\ UNCHANGED <<migrated, request, crashes, late>>

\* The SELECT of the key id, whatever its is_active; if there is one the
\* transaction is committed as it is.
FindCredential(g) ==
    /\ at[g] = "finding" /\ job[g] # 0
    /\ IF credential[job[g]] # "none"
       THEN /\ CommitMerchant(g)
            /\ Proceed(g)
       ELSE /\ Goto(g, "issuing")
            /\ UNCHANGED <<merchant, balance, holds, job>>
    /\ UNCHANGED <<migrated, credential, request, crashes, late>>

\* The credential is added and everything committed; the INSERT fails if
\* the key id has come to exist.
Issue(g) ==
    /\ at[g] = "issuing"
    /\ IF credential[job[g]] = "none"
       THEN /\ credential' = [credential EXCEPT ![job[g]] = "active"]
            /\ CommitMerchant(g)
            /\ Proceed(g)
       ELSE /\ holds' = holds \ {g}
            /\ Goto(g, "down")
            /\ UNCHANGED <<merchant, balance, credential, job>>
    /\ UNCHANGED <<migrated, request, crashes, late>>

\* The process dies: its transaction is rolled back, its requests are lost.
Crash(g) ==
    /\ at[g] # "down"
    /\ crashes < MaxCrashes
    /\ crashes' = crashes + 1
    /\ Goto(g, "down")
    /\ holds' = holds \ {g}
    /\ request' = [r \in Requests |-> IF request[r].by = g THEN Idle ELSE request[r]]
    /\ UNCHANGED <<rows, job, late>>

-----------------------------------------------------------------------------
(***************************************************************************)
(* Requests and operators.                                                 *)
(***************************************************************************)

\* An operator switches a merchant, or its key, off.
DeactivateMerchant(i) ==
    /\ merchant[i] = "active"
    /\ merchant' = [merchant EXCEPT ![i] = "inactive"]
    /\ UNCHANGED <<migrated, credential, balance, at, job, holds, request, crashes, late>>

DeactivateCredential(i) ==
    /\ credential[i] = "active"
    /\ credential' = [credential EXCEPT ![i] = "inactive"]
    /\ UNCHANGED <<migrated, merchant, balance, at, job, holds, request, crashes, late>>

SwitchedOn(i) == merchant[i] = "active" /\ credential[i] = "active"

\* What the X-API-Key and X-Signature headers say: the seed whose key id is
\* given (or no known one), the secret after the colon and the signature.
Headers == [key : Seeds \cup {None}, secret : {"absent", "right", "wrong"},
            signature : {"absent", "right", "wrong"}]

\* _parse_api_key: a key without a secret must be one of the bypass keys.
WellFormed(h) == h.secret = "absent" => h.key \in Bypass

\* verify_signature: made with the stored secret, for this method, path and body.
Signed(h) == h.signature = "right"

\* Mutant: the merchant's is_active is not looked at.
Admitted_AnyMerchant(h) ==
    /\ WellFormed(h)
    /\ h.key \in Seeds
    /\ credential[h.key] = "active"
    /\ h.secret # "wrong"
    /\ h.key \in Bypass \/ Signed(h)

\* The refusals of get_current_merchant_id in their order: a malformed key
\* (401), an unknown or inactive credential (401), an inactive merchant (403),
\* a wrong secret (401), and, unless the key is a bypass key, no signature or
\* a wrong one (401).
Admitted(h) ==
    /\ WellFormed(h)
    /\ h.key \in Seeds
    /\ credential[h.key] = "active"
    /\ merchant[h.key] = "active"
    /\ h.secret # "wrong"
    /\ h.key \in Bypass \/ Signed(h)

\* The dependency's transaction.  The route gets no more than the id.
Authenticate(r, g) ==
    /\ at[g] = "serving"
    /\ request[r] = Idle
    /\ \E h \in Headers :
          /\ Admitted(h)
          /\ request' = [request EXCEPT ![r] = [of |-> h.key, by |-> g]]
    /\ UNCHANGED <<rows, at, job, holds, crashes, late>>

\* Mutant: the route does not compare the amount with what is available.
Spend_Unchecked(r) ==
    /\ request[r] # Idle
    /\ request' = [request EXCEPT ![r] = Idle]
    /\ LET i == request[r].of
       IN  /\ balance' = [balance EXCEPT ![i] = balance[i] - 1]
           /\ late' = IF SwitchedOn(i) THEN late ELSE [late EXCEPT ![i] = late[i] + 1]
    /\ UNCHANGED <<migrated, merchant, credential, at, job, holds, crashes>>

\* The route's own transaction, as far as it matters here: a payment of one
\* unit, which does not look at is_active again.
Spend(r) ==
    /\ request[r] # Idle
    /\ request' = [request EXCEPT ![r] = Idle]
    /\ LET i == request[r].of
       IN  IF balance[i] > 0
           THEN /\ balance' = [balance EXCEPT ![i] = balance[i] - 1]
                /\ late' = IF SwitchedOn(i) THEN late ELSE [late EXCEPT ![i] = late[i] + 1]
           ELSE UNCHANGED <<balance, late>>
    /\ UNCHANGED <<migrated, merchant, credential, at, job, holds, crashes>>

-----------------------------------------------------------------------------

StartStep(g) ==
    \/ Start(g) \/ Check(g) \/ Insert(g) \/ InsertFails(g)
    \/ CommitMigration(g) \/ FindCredential(g) \/ Issue(g)

Next ==
    \/ \E g \in Gateways : StartStep(g) \/ Crash(g)
    \/ \E i \in Seeds : DeactivateMerchant(i) \/ DeactivateCredential(i)
    \/ \E r \in Requests : Spend(r) \/ \E g \in Gateways : Authenticate(r, g)

Spec == Init /\ [][Next]_vars

\* A started script goes on, and what is down is started again.
FairSpec == Spec /\ \A g \in Gateways : WF_vars(StartStep(g))

-----------------------------------------------------------------------------

\* A merchant is committed with its balance and its key or not at all, and
\* only into tables that exist: no death between the statements of
\* seed_merchant leaves a merchant without money or without a way in, which
\* the next seeding, finding the merchant, would not repair.
SeedsAreWhole ==
    \A i \in Seeds :
       /\ merchant[i] = "none" <=> balance[i] = None
       /\ merchant[i] = "none" <=> credential[i] = "none"
       /\ merchant[i] # "none" => migrated = "yes"

\* A gateway that listens finds the tables and every seed, although it may
\* have lost the race for any of them to another gateway.
ServingIsSeeded ==
    \A g \in Gateways : at[g] = "serving" =>
       migrated = "yes" /\ \A i \in Seeds : merchant[i] # "none"

\* "Idempotent seed": no step of a starting gateway changes a row that is
\* there; it neither refills a balance that was spent from nor switches a
\* merchant or a key on again.
SeedIsIdempotent ==
    [][\A i \in Seeds : at' # at /\ merchant[i] # "none" =>
         /\ merchant'[i] = merchant[i]
         /\ credential'[i] = credential[i]
         /\ balance'[i] = balance[i]]_vars

\* Once a merchant or its key is switched off, no more is spent than by the
\* requests that were admitted before, though routes do not look again.
DeactivationBites ==
    \A i \in Seeds : late[i] <= Cardinality(Requests)

\* Every gateway serves in the end, whoever wins the races and dies when.
EveryGatewayServes == \A g \in Gateways : <>[](at[g] = "serving")
=============================================================================
