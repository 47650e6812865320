------------------------ MODULE MerchantAccessProofs ------------------------
(***************************************************************************)
(* Proofs about MerchantAccess for any number of gateways, seeds, requests *)
(* and deaths.  The key is Alone: what an open transaction has inserted    *)
(* nobody else has, neither committed nor open.                            *)
(***************************************************************************)
EXTENDS MerchantAccess, FiniteSetTheorems, TLAPS

\* An open transaction's rows are not there yet, and no two have the same.
Alone ==
    \A g \in holds :
       /\ at[g] \in {"finding", "issuing"}
       /\ ~Present(g)
       /\ \A h \in holds : job[h] = job[g] => h = g

\* What a starting gateway has found or made in the jobs it has done.
Done ==
    \A g \in Gateways : at[g] # "down" =>
       /\ job[g] # 0 => migrated = "yes"
       /\ \A i \in Seeds : i < job[g] => merchant[i] # "none"

\* Who adds a credential has added its merchant, and who found a merchant
\* rather than adding it finds it still there.
Issuing ==
    \A g \in Gateways :
       /\ at[g] = "issuing" => job[g] # 0 /\ g \in holds
       /\ at[g] = "finding" /\ g \notin holds => job[g] # 0 /\ merchant[job[g]] # "none"

\* Only merchants that exist have requests under way.
Known == \A r \in Requests : request[r] # Idle => merchant[request[r].of] # "none"

InFlight(i) == {r \in Requests : request[r] # Idle /\ request[r].of = i}

\* Nothing is late while a merchant is on or does not exist; afterwards
\* what is late and what may become late are different requests.
LateIsBounded ==
    \A i \in Seeds :
       /\ SwitchedOn(i) \/ merchant[i] = "none" => late[i] = 0
       /\ late[i] + Cardinality(InFlight(i)) <= Cardinality(Requests)

Starts == TypeOK /\ SeedsAreWhole /\ ServingIsSeeded /\ Alone /\ Done /\ Issuing

IInv == Starts /\ Known /\ LateIsBounded

\* A set of requests is finite and no larger than that of all.
LEMMA RequestSets ==
    ASSUME NEW S \in SUBSET Requests
    PROVE  /\ IsFiniteSet(S)
           /\ Cardinality(S) \in Nat
           /\ Cardinality(S) <= Cardinality(Requests)
           /\ Cardinality(Requests) \in Nat
BY AccessAssumption, FS_Subset, FS_CardinalityType

\* Nothing runs and nothing is there at first.
LEMMA InitHolds == Init => IInv
<1> SUFFICES ASSUME Init  PROVE IInv
  OBVIOUS
<1>1. TypeOK
  BY AccessAssumption DEF Init, TypeOK, RowStates, Places, Seeds
<1>2. SeedsAreWhole /\ ServingIsSeeded /\ Alone /\ Done /\ Issuing
  BY DEF Init, SeedsAreWhole, ServingIsSeeded, Alone, Done, Issuing, Seeds
<1>3. Known
  BY DEF Init, Known
<1>4. LateIsBounded
  <2> SUFFICES ASSUME NEW i \in Seeds
               PROVE  late[i] = 0 /\ late[i] + Cardinality(InFlight(i)) <= Cardinality(Requests)
    BY DEF LateIsBounded
  <2> QED  BY RequestSets DEF Init, InFlight
<1> QED  BY <1>1, <1>2, <1>3, <1>4 DEF IInv, Starts

-----------------------------------------------------------------------------

\* Going on to the next job keeps the types of at and job.
LEMMA ProceedTypes ==
    ASSUME TypeOK, NEW g \in Gateways, Proceed(g)
    PROVE  at' \in [Gateways -> Places] /\ job' \in [Gateways -> 0 .. N]
<1>1. job[g] \in 0 .. N /\ N \in Nat
  BY AccessAssumption DEF TypeOK
<1>2. CASE job[g] = N
  BY <1>2 DEF TypeOK, Proceed, Goto, Places
<1>3. CASE job[g] # N
  <2>1. job[g] + 1 \in 0 .. N
    BY <1>1, <1>3
  <2> QED  BY <1>3, <2>1 DEF TypeOK, Proceed, Goto, Places
<1> QED  BY <1>2, <1>3

\* Committing what a transaction inserted keeps the types.
LEMMA CommitTypes ==
    ASSUME TypeOK, NEW g \in Gateways, job[g] \in Seeds, CommitMerchant(g)
    PROVE  /\ merchant' \in [Seeds -> RowStates]
           /\ balance' \in [Seeds -> Nat \cup {None}]
           /\ holds' \subseteq Gateways
<1>1. Opening[job[g]] \in Nat
  BY AccessAssumption
<1> QED  BY <1>1 DEF TypeOK, CommitMerchant, RowStates

\* Every step keeps the types.
LEMMA TypeStep == IInv /\ [Next]_vars => TypeOK'
<1> SUFFICES ASSUME IInv, [Next]_vars  PROVE TypeOK'
  OBVIOUS
<1> USE DEF IInv, Starts
<1>1. ASSUME NEW g \in Gateways, Start(g) \/ Check(g)  PROVE TypeOK'
  <2>1. CASE Start(g)
    BY <2>1, AccessAssumption DEF TypeOK, Start, Goto, Places, rows
  <2>2. CASE Check(g)
    <3>1. at' \in [Gateways -> Places] /\ job' \in [Gateways -> 0 .. N]
      BY <2>2, ProceedTypes DEF TypeOK, Check, Goto, Places
    <3> QED  BY <2>2, <3>1 DEF TypeOK, Check, rows
  <2> QED  BY <1>1, <2>1, <2>2
<1>2. ASSUME NEW g \in Gateways, Insert(g) \/ InsertFails(g)  PROVE TypeOK'
  BY <1>2 DEF TypeOK, Insert, InsertFails, Goto, Places, rows
<1>3. ASSUME NEW g \in Gateways, CommitMigration(g)  PROVE TypeOK'
  <2>1. at' \in [Gateways -> Places] /\ job' \in [Gateways -> 0 .. N]
    BY <1>3, ProceedTypes DEF CommitMigration
  <2> QED  BY <1>3, <2>1 DEF TypeOK, CommitMigration
<1>4. ASSUME NEW g \in Gateways, FindCredential(g)  PROVE TypeOK'
  <2>1. job[g] \in Seeds
    BY <1>4 DEF FindCredential, TypeOK, Seeds
  <2>2. CASE credential[job[g]] # "none"
    BY <1>4, <2>1, <2>2, ProceedTypes, CommitTypes DEF FindCredential, TypeOK
  <2>3. CASE credential[job[g]] = "none"
    BY <1>4, <2>3 DEF FindCredential, TypeOK, Goto, Places
  <2> QED  BY <2>2, <2>3
<1>5. ASSUME NEW g \in Gateways, Issue(g)  PROVE TypeOK'
  <2>1. job[g] \in Seeds
    BY <1>5 DEF Issue, Issuing, TypeOK, Seeds
  <2>2. CASE credential[job[g]] = "none"
    <3>1. credential' \in [Seeds -> RowStates]
      BY <1>5, <2>2 DEF Issue, TypeOK, RowStates
    <3> QED  BY <1>5, <2>1, <2>2, <3>1, ProceedTypes, CommitTypes DEF Issue, TypeOK
  <2>3. CASE credential[job[g]] # "none"
    BY <1>5, <2>3 DEF Issue, TypeOK, Goto, Places
  <2> QED  BY <2>2, <2>3
<1>6. ASSUME NEW g \in Gateways, Crash(g)  PROVE TypeOK'
  <2>1. crashes' \in 0 .. MaxCrashes
    BY <1>6, AccessAssumption DEF Crash, TypeOK
  <2>2. request' \in [Requests -> {Idle} \cup [of : Seeds, by : Gateways]]
    BY <1>6 DEF Crash, TypeOK
  <2> QED  BY <1>6, <2>1, <2>2 DEF Crash, TypeOK, Goto, Places, rows
<1>7. ASSUME NEW i \in Seeds, DeactivateMerchant(i) \/ DeactivateCredential(i)  PROVE TypeOK'
  BY <1>7 DEF DeactivateMerchant, DeactivateCredential, TypeOK, RowStates
<1>8. ASSUME NEW r \in Requests, NEW g \in Gateways, Authenticate(r, g)  PROVE TypeOK'
  <2>1. request' \in [Requests -> {Idle} \cup [of : Seeds, by : Gateways]]
    BY <1>8 DEF Authenticate, Admitted, TypeOK
  <2> QED  BY <1>8, <2>1 DEF Authenticate, TypeOK, rows
<1>9. ASSUME NEW r \in Requests, Spend(r)  PROVE TypeOK'
  <2> DEFINE i == request[r].of
  <2>1. i \in Seeds
    BY <1>9 DEF Spend, TypeOK
  <2>2. balance[i] \in Nat
    BY <1>9, <2>1 DEF Spend, TypeOK, Known, SeedsAreWhole
  <2>3. request' \in [Requests -> {Idle} \cup [of : Seeds, by : Gateways]]
    BY <1>9 DEF Spend, TypeOK
  <2>4. CASE balance[i] > 0
    <3>1. balance[i] - 1 \in Nat
      BY <2>2, <2>4
    <3>2. late[i] + 1 \in Nat
      BY <2>1 DEF TypeOK
    <3>3. balance' \in [Seeds -> Nat \cup {None}]
      BY <1>9, <2>4, <3>1 DEF Spend, TypeOK
    <3>4. late' \in [Seeds -> Nat]
      BY <1>9, <2>4, <3>2 DEF Spend, TypeOK
    <3> QED  BY <1>9, <2>3, <3>3, <3>4 DEF Spend, TypeOK
  <2>5. CASE ~(balance[i] > 0)
    BY <1>9, <2>3, <2>5 DEF Spend, TypeOK
  <2> QED  BY <2>4, <2>5
<1>10. CASE UNCHANGED vars
  BY <1>10 DEF TypeOK, vars
<1> QED
  BY <1>1, <1>2, <1>3, <1>4, <1>5, <1>6, <1>7, <1>8, <1>9, <1>10 DEF Next, StartStep

-----------------------------------------------------------------------------

\* The five conjuncts of Starts besides the types.
Order == SeedsAreWhole /\ ServingIsSeeded /\ Alone /\ Done /\ Issuing

\* The next job's predecessors are this job and its predecessors.
LEMMA ProceedOrder ==
    ASSUME TypeOK, NEW g \in Gateways, Proceed(g), Done, at[g] # "down",
           migrated' = "yes",
           \A i \in Seeds : merchant[i] # "none" => merchant'[i] # "none",
           job[g] # 0 => merchant'[job[g]] # "none"
    PROVE  /\ at'[g] \in {"checking", "serving"}
           /\ at'[g] = "serving" => job'[g] = N /\ \A i \in Seeds : merchant'[i] # "none"
           /\ \A i \in Seeds : i < job'[g] => merchant'[i] # "none"
           /\ \A h \in Gateways \ {g} : at'[h] = at[h] /\ job'[h] = job[h]
<1>1. job[g] \in 0 .. N /\ N \in Nat
  BY AccessAssumption DEF TypeOK
<1>2. \A h \in Gateways \ {g} : at'[h] = at[h] /\ job'[h] = job[h]
  BY DEF Proceed, Goto, TypeOK
<1>3. \A i \in Seeds : i <= job[g] => merchant'[i] # "none"
  <2> SUFFICES ASSUME NEW i \in Seeds, i <= job[g]  PROVE merchant'[i] # "none"
    OBVIOUS
  <2>1. CASE i = job[g]
    BY <2>1 DEF Seeds
  <2>2. CASE i < job[g]
    BY <2>2 DEF Done
  <2> QED  BY <1>1, <2>1, <2>2 DEF Seeds
<1>4. CASE job[g] = N
  BY <1>1, <1>2, <1>3, <1>4 DEF Proceed, Goto, TypeOK, Seeds
<1>5. CASE job[g] # N
  <2>1. at'[g] = "checking" /\ job'[g] = job[g] + 1
    BY <1>5 DEF Proceed, Goto, TypeOK
  <2> QED  BY <1>1, <1>2, <1>3, <2>1 DEF Seeds
<1> QED  BY <1>4, <1>5

\* A starting gateway that reads keeps the order of things.
LEMMA ReadOrder ==
    ASSUME IInv, NEW g \in Gateways, Start(g) \/ Check(g) \/ InsertFails(g)
    PROVE  Order'
<1> USE DEF IInv, Starts
<1>1. UNCHANGED rows /\ UNCHANGED holds
  BY DEF Start, Check, InsertFails
<1>2. /\ g \notin holds
      /\ \A h \in Gateways \ {g} : at'[h] = at[h] /\ job'[h] = job[h]
  BY DEF Start, Check, InsertFails, Alone, Goto, Proceed, TypeOK
<1>3. /\ at'[g] \in Places \ {"issuing"}
      /\ at'[g] = "finding" => job'[g] # 0 /\ merchant[job'[g]] # "none"
      /\ at'[g] # "down" => /\ job'[g] # 0 => migrated = "yes"
                            /\ \A i \in Seeds : i < job'[g] => merchant[i] # "none"
      /\ at'[g] = "serving" => migrated = "yes" /\ \A i \in Seeds : merchant[i] # "none"
  <2>1. CASE Start(g)
    BY <2>1 DEF Start, Goto, TypeOK, Places, Seeds
  <2>2. CASE InsertFails(g)
    BY <2>2 DEF InsertFails, Goto, TypeOK, Places
  <2>3. CASE Check(g) /\ ~Present(g)
    BY <2>3 DEF Check, Goto, TypeOK, Places, Done
  <2>4. CASE Check(g) /\ Present(g) /\ job[g] = 0
    <3>1. Proceed(g) /\ migrated = "yes"
      BY <2>4 DEF Check, Present
    <3> QED  BY <2>4, <3>1, <1>1, ProceedOrder DEF Check, Places, rows
  <2>5. CASE Check(g) /\ Present(g) /\ job[g] # 0
    BY <2>5 DEF Check, Goto, TypeOK, Places, Done, Present
  <2> QED  BY <2>1, <2>2, <2>3, <2>4, <2>5
<1>4. SeedsAreWhole'
  BY <1>1 DEF SeedsAreWhole, rows
<1>5. ServingIsSeeded'
  BY <1>1, <1>2, <1>3 DEF ServingIsSeeded, rows
<1>6. Alone'
  BY <1>1, <1>2 DEF Alone, Present, rows, TypeOK
<1>7. Done'
  BY <1>1, <1>2, <1>3 DEF Done, rows
<1>8. Issuing'
  BY <1>1, <1>2, <1>3 DEF Issuing, rows
<1> QED  BY <1>4, <1>5, <1>6, <1>7, <1>8 DEF Order

\* So does one that inserts or is at the end of its migration.
LEMMA InsertOrder ==
    ASSUME IInv, NEW g \in Gateways, Insert(g)
    PROVE  Order'
<1> USE DEF IInv, Starts
<1>1. /\ UNCHANGED rows /\ UNCHANGED job
      /\ holds' = holds \cup {g}
      /\ at'[g] = "finding" /\ \A h \in Gateways \ {g} : at'[h] = at[h]
  BY DEF Insert, Goto, TypeOK
<1>2. SeedsAreWhole' /\ ServingIsSeeded' /\ Done'
  BY <1>1 DEF SeedsAreWhole, ServingIsSeeded, Done, rows, Insert
<1>3. Alone'
  <2>1. \A h \in holds : job[h] # job[g]
    BY DEF Insert, Waits, Alone
  <2>2. \A h \in holds' : ~Present(h)'
    BY <1>1 DEF Insert, Alone, Present, rows
  <2>3. \A h \in holds' : at'[h] \in {"finding", "issuing"}
    BY <1>1 DEF Alone, TypeOK
  <2> QED  BY <1>1, <2>1, <2>2, <2>3 DEF Alone
<1>4. Issuing'
  BY <1>1 DEF Issuing, rows
<1> QED  BY <1>2, <1>3, <1>4 DEF Order

\* What one gateway commits, or rolls back, is nobody else's.
LEMMA EndOrder ==
    ASSUME IInv, NEW g \in Gateways, holds' = holds \ {g},
           at'[g] \in {"down", "checking", "serving"},
           \A h \in Gateways \ {g} : at'[h] = at[h] /\ job'[h] = job[h],
           migrated' = migrated \/ (migrated' = "yes" /\ job[g] = 0 /\ g \in holds),
           \A i \in Seeds : merchant[i] # "none" => merchant'[i] # "none",
           \A i \in Seeds : merchant'[i] # "none" /\ merchant[i] = "none" => i = job[g] /\ g \in holds
    PROVE  Alone' /\ Issuing'
<1> USE DEF IInv, Starts
<1>1. ASSUME NEW h \in holds'  PROVE ~Present(h)'
  <2>1. h \in holds /\ h # g /\ h \in Gateways /\ ~Present(h) /\ job'[h] = job[h]
    BY <1>1 DEF Alone, TypeOK
  <2>2. g \in holds => job[h] # job[g]
    BY <2>1 DEF Alone
  <2>3. CASE job[h] = 0
    BY <2>1, <2>2, <2>3 DEF Present
  <2>4. CASE job[h] # 0
    <3>1. job[h] \in Seeds
      BY <2>1, <2>4 DEF TypeOK, Seeds
    <3> QED  BY <2>1, <2>2, <2>4, <3>1 DEF Present
  <2> QED  BY <2>3, <2>4
<1>2. Alone'
  BY <1>1 DEF Alone, TypeOK
<1>3. Issuing'
  <2> SUFFICES ASSUME NEW h \in Gateways
               PROVE  /\ at'[h] = "issuing" => job'[h] # 0 /\ h \in holds'
                      /\ at'[h] = "finding" /\ h \notin holds' => job'[h] # 0 /\ merchant'[job'[h]] # "none"
    BY DEF Issuing
  <2>1. CASE h = g
    BY <2>1
  <2>2. CASE h # g
    BY <2>2 DEF Issuing, TypeOK, Seeds
  <2> QED  BY <2>1, <2>2
<1> QED  BY <1>2, <1>3

\* A process that dies takes its insertions with it.
LEMMA CrashOrder ==
    ASSUME IInv, NEW g \in Gateways, Crash(g)
    PROVE  Order'
<1> USE DEF IInv, Starts
<1>1. /\ UNCHANGED rows /\ holds' = holds \ {g} /\ UNCHANGED job
      /\ at'[g] = "down" /\ \A h \in Gateways \ {g} : at'[h] = at[h] /\ job'[h] = job[h]
  BY DEF Crash, Goto, TypeOK
<1>2. SeedsAreWhole' /\ ServingIsSeeded' /\ Done'
  BY <1>1 DEF SeedsAreWhole, ServingIsSeeded, Done, rows
<1> QED  BY <1>1, <1>2, EndOrder DEF Order, rows

\* The migration is committed by whoever created the tables.
LEMMA MigrationOrder ==
    ASSUME IInv, NEW g \in Gateways, CommitMigration(g)
    PROVE  Order'
<1> USE DEF IInv, Starts
<1>1. /\ migrated' = "yes" /\ UNCHANGED <<merchant, credential, balance>>
      /\ holds' = holds \ {g} /\ g \in holds
      /\ job[g] = 0 /\ at[g] # "down" /\ Proceed(g)
  BY DEF CommitMigration, Issuing
<1>2. /\ at'[g] \in {"checking", "serving"}
      /\ at'[g] = "serving" => job'[g] = N /\ \A i \in Seeds : merchant'[i] # "none"
      /\ \A i \in Seeds : i < job'[g] => merchant'[i] # "none"
      /\ \A h \in Gateways \ {g} : at'[h] = at[h] /\ job'[h] = job[h]
  BY <1>1, ProceedOrder
<1>3. Alone' /\ Issuing'
  BY <1>1, <1>2, EndOrder
<1>4. SeedsAreWhole' /\ ServingIsSeeded' /\ Done'
  BY <1>1, <1>2 DEF SeedsAreWhole, ServingIsSeeded, Done
<1> QED  BY <1>3, <1>4 DEF Order

\* Who looks for the credential has found merchant and credential, or
\* neither: in the first case it commits nothing.
LEMMA FindOrder ==
    ASSUME IInv, NEW g \in Gateways, FindCredential(g)
    PROVE  Order'
<1> USE DEF IInv, Starts
<1>1. job[g] \in Seeds /\ at[g] = "finding" /\ migrated = "yes" /\ UNCHANGED <<migrated, credential>>
  BY DEF FindCredential, TypeOK, Seeds, Done
<1>2. CASE credential[job[g]] # "none"
  <2>1. merchant[job[g]] # "none" /\ g \notin holds
    BY <1>1, <1>2 DEF SeedsAreWhole, Alone, Present, Seeds
  <2>2. UNCHANGED rows /\ UNCHANGED holds /\ Proceed(g)
    BY <1>1, <1>2, <2>1 DEF FindCredential, CommitMerchant, rows
  <2>3. /\ at'[g] \in {"checking", "serving"}
        /\ at'[g] = "serving" => job'[g] = N /\ \A i \in Seeds : merchant'[i] # "none"
        /\ \A i \in Seeds : i < job'[g] => merchant'[i] # "none"
        /\ \A h \in Gateways \ {g} : at'[h] = at[h] /\ job'[h] = job[h]
    BY <1>1, <2>1, <2>2, ProceedOrder DEF rows
  <2>4. Alone' /\ Issuing'
    BY <2>1, <2>2, <2>3, EndOrder DEF rows
  <2>5. SeedsAreWhole' /\ ServingIsSeeded' /\ Done'
    BY <1>1, <2>2, <2>3 DEF SeedsAreWhole, ServingIsSeeded, Done, rows
  <2> QED  BY <2>4, <2>5 DEF Order
<1>3. CASE credential[job[g]] = "none"
  <2>1. /\ UNCHANGED rows /\ UNCHANGED holds /\ UNCHANGED job
        /\ at'[g] = "issuing" /\ \A h \in Gateways \ {g} : at'[h] = at[h]
    BY <1>1, <1>3 DEF FindCredential, Goto, TypeOK, rows
  <2>2. g \in holds
    BY <1>1, <1>3 DEF Issuing, SeedsAreWhole
  <2>3. SeedsAreWhole' /\ ServingIsSeeded' /\ Done' /\ Issuing'
    BY <1>1, <2>1, <2>2 DEF SeedsAreWhole, ServingIsSeeded, Done, Issuing, rows, Seeds
  <2>4. Alone'
    BY <2>1 DEF Alone, Present, rows, TypeOK
  <2> QED  BY <2>3, <2>4 DEF Order
<1> QED  BY <1>2, <1>3

\* Who adds the credential commits merchant, balance and credential of a
\* seed that had none of them.
LEMMA IssueCommits ==
    ASSUME IInv, NEW g \in Gateways, Issue(g)
    PROVE  /\ g \in holds /\ job[g] \in Seeds /\ at[g] # "down" /\ migrated = "yes"
           /\ merchant[job[g]] = "none" /\ credential[job[g]] = "none"
           /\ merchant' = [merchant EXCEPT ![job[g]] = "active"]
           /\ credential' = [credential EXCEPT ![job[g]] = "active"]
           /\ balance' = [balance EXCEPT ![job[g]] = Opening[job[g]]]
           /\ holds' = holds \ {g} /\ Proceed(g)
           /\ UNCHANGED <<migrated, request, late>>
<1> USE DEF IInv, Starts
<1>1. g \in holds /\ job[g] \in Seeds /\ at[g] # "down" /\ migrated = "yes"
  BY DEF Issue, Issuing, TypeOK, Seeds, Done
<1>2. merchant[job[g]] = "none" /\ credential[job[g]] = "none"
  BY <1>1 DEF Alone, Present, SeedsAreWhole, Seeds
<1> QED  BY <1>1, <1>2 DEF Issue, CommitMerchant

LEMMA IssueOrder ==
    ASSUME IInv, NEW g \in Gateways, Issue(g)
    PROVE  Order'
<1> USE DEF IInv, Starts
<1>1. /\ g \in holds /\ job[g] \in Seeds /\ at[g] # "down" /\ migrated = "yes"
      /\ merchant' = [merchant EXCEPT ![job[g]] = "active"]
      /\ credential' = [credential EXCEPT ![job[g]] = "active"]
      /\ balance' = [balance EXCEPT ![job[g]] = Opening[job[g]]]
      /\ holds' = holds \ {g} /\ Proceed(g) /\ migrated' = migrated
  BY IssueCommits
<1>2. \A i \in Seeds :
         /\ i # job[g] => merchant'[i] = merchant[i] /\ credential'[i] = credential[i] /\ balance'[i] = balance[i]
         /\ i = job[g] => merchant'[i] = "active" /\ credential'[i] = "active" /\ balance'[i] = Opening[i]
  BY <1>1 DEF TypeOK
<1>3. Opening[job[g]] # None
  BY <1>1, AccessAssumption
<1>4. /\ at'[g] \in {"checking", "serving"}
      /\ at'[g] = "serving" => job'[g] = N /\ \A i \in Seeds : merchant'[i] # "none"
      /\ \A i \in Seeds : i < job'[g] => merchant'[i] # "none"
      /\ \A h \in Gateways \ {g} : at'[h] = at[h] /\ job'[h] = job[h]
  BY <1>1, <1>2, ProceedOrder
<1>5. Alone' /\ Issuing'
  BY <1>1, <1>2, <1>4, EndOrder
<1>6. SeedsAreWhole'
  BY <1>1, <1>2, <1>3 DEF SeedsAreWhole
<1>7. ServingIsSeeded' /\ Done'
  BY <1>1, <1>2, <1>4 DEF ServingIsSeeded, Done
<1> QED  BY <1>5, <1>6, <1>7 DEF Order

\* Operators and requests leave rows where they are.
LEMMA UseOrder ==
    ASSUME IInv,
           \/ \E i \in Seeds : DeactivateMerchant(i) \/ DeactivateCredential(i)
           \/ \E r \in Requests : Spend(r) \/ \E g \in Gateways : Authenticate(r, g)
           \/ UNCHANGED vars
    PROVE  Order'
<1> USE DEF IInv, Starts
<1>1. UNCHANGED <<migrated, at, job, holds>>
  BY DEF DeactivateMerchant, DeactivateCredential, Spend, Authenticate, vars, rows
<1>2. /\ \A i \in Seeds : merchant'[i] = "none" <=> merchant[i] = "none"
      /\ \A i \in Seeds : credential'[i] = "none" <=> credential[i] = "none"
  BY DEF DeactivateMerchant, DeactivateCredential, Spend, Authenticate, vars, rows, TypeOK
<1>3. \A i \in Seeds : balance'[i] = None <=> balance[i] = None
  <2>1. CASE \E r \in Requests : Spend(r)
    <3> PICK r \in Requests : Spend(r)
      BY <2>1
    <3>1. request[r].of \in Seeds
      BY DEF Spend, TypeOK
    <3>2. balance[request[r].of] \in Nat
      BY <3>1 DEF Spend, TypeOK, Known, SeedsAreWhole
    <3>3. CASE balance[request[r].of] > 0
      <4>1. balance[request[r].of] - 1 \in Nat
        BY <3>2, <3>3
      <4> QED  BY <3>2, <3>3, <4>1, AccessAssumption DEF Spend, TypeOK
    <3> QED  BY <3>3 DEF Spend
  <2>2. CASE UNCHANGED balance
    BY <2>2
  <2> QED  BY <2>1, <2>2 DEF DeactivateMerchant, DeactivateCredential, Authenticate, vars, rows
<1>4. SeedsAreWhole' /\ ServingIsSeeded' /\ Done'
  BY <1>1, <1>2, <1>3 DEF SeedsAreWhole, ServingIsSeeded, Done
<1>5. Issuing'
  BY <1>1, <1>2 DEF Issuing, TypeOK, Seeds
<1>6. ASSUME NEW g \in holds'  PROVE ~Present(g)'
  <2>1. g \in holds /\ ~Present(g) /\ job[g] \in 0 .. N /\ N \in Nat
    BY <1>1, AccessAssumption DEF Alone, TypeOK
  <2> QED  BY <1>1, <1>2, <2>1 DEF Present, Seeds
<1>7. Alone'
  BY <1>1, <1>6 DEF Alone
<1> QED  BY <1>4, <1>5, <1>7 DEF Order

\* Rows stay, and nothing that was off is on again.
LEMMA RowsStay ==
    ASSUME IInv, [Next]_vars, NEW i \in Seeds
    PROVE  /\ merchant[i] # "none" => merchant'[i] # "none"
           /\ SwitchedOn(i)' => SwitchedOn(i) \/ merchant[i] = "none"
<1> USE DEF IInv, Starts
<1>1. CASE \E g \in Gateways : FindCredential(g)
  <2> PICK g \in Gateways : FindCredential(g)
    BY <1>1
  <2>1. UNCHANGED <<merchant, credential>>
    BY DEF FindCredential, CommitMerchant, SeedsAreWhole, Alone, Present, TypeOK, Seeds
  <2> QED  BY <2>1 DEF SwitchedOn
<1>2. CASE \E g \in Gateways : Issue(g)
  <2> PICK g \in Gateways : Issue(g)
    BY <1>2
  <2> QED  BY IssueCommits DEF SwitchedOn, TypeOK
<1>3. CASE \E j \in Seeds : DeactivateMerchant(j) \/ DeactivateCredential(j)
  BY <1>3 DEF DeactivateMerchant, DeactivateCredential, SwitchedOn, TypeOK
<1>4. CASE UNCHANGED <<merchant, credential>>
  BY <1>4 DEF SwitchedOn
<1> QED
  BY <1>1, <1>2, <1>3, <1>4 DEF Next, StartStep, Start, Check, Insert, InsertFails, CommitMigration,
       Crash, Spend, Authenticate, vars, rows

\* Whoever is admitted is on at that moment.
LEMMA KnownStep == IInv /\ [Next]_vars => Known'
<1> SUFFICES ASSUME IInv, [Next]_vars, NEW q \in Requests, request'[q] # Idle
             PROVE  merchant'[request'[q].of] # "none"
  BY DEF Known
<1> USE DEF IInv, Starts
<1>1. CASE request'[q] = request[q]
  <2>1. request[q].of \in Seeds
    BY <1>1 DEF TypeOK
  <2> QED  BY <1>1, <2>1, RowsStay DEF Known
<1>2. CASE \E r \in Requests, g \in Gateways : Authenticate(r, g)
  <2> PICK r \in Requests, g \in Gateways : Authenticate(r, g)
    BY <1>2
  <2>1. CASE q = r
    BY <2>1 DEF Authenticate, Admitted, TypeOK, rows
  <2>2. CASE q # r
    <3>1. request'[q] = request[q]
      BY <2>2 DEF Authenticate, TypeOK
    <3> QED  BY <1>1, <3>1
  <2> QED  BY <2>1, <2>2
<1>3. CASE \E r \in Requests : Spend(r)
  <2> PICK r \in Requests : Spend(r)
    BY <1>3
  <2>1. request'[q] = request[q]
    BY DEF Spend, TypeOK
  <2> QED  BY <1>1, <2>1
<1>4. CASE \E g \in Gateways : Crash(g)
  BY <1>1, <1>4 DEF Crash
<1>5. CASE UNCHANGED request
  BY <1>1, <1>5
<1> QED
  BY <1>2, <1>3, <1>4, <1>5 DEF Next, StartStep, Start, Check, Insert, InsertFails, CommitMigration,
       FindCredential, Issue, DeactivateMerchant, DeactivateCredential, vars

\* A request that spends late is no longer one that may, and none is
\* admitted late.
LEMMA LateStep == IInv /\ [Next]_vars => LateIsBounded'
<1> SUFFICES ASSUME IInv, [Next]_vars, NEW i \in Seeds
             PROVE  /\ SwitchedOn(i)' \/ merchant'[i] = "none" => late'[i] = 0
                    /\ late'[i] + Cardinality(InFlight(i)') <= Cardinality(Requests)
  BY DEF LateIsBounded
<1> USE DEF IInv, Starts
<1>1. /\ IsFiniteSet(InFlight(i)) /\ IsFiniteSet(InFlight(i)')
      /\ Cardinality(InFlight(i)) \in Nat /\ Cardinality(InFlight(i)') \in Nat
      /\ Cardinality(Requests) \in Nat /\ late[i] \in Nat
      /\ Cardinality(InFlight(i)') <= Cardinality(Requests)
  <2>1. InFlight(i) \in SUBSET Requests /\ InFlight(i)' \in SUBSET Requests
    BY DEF InFlight
  <2> QED  BY <2>1, RequestSets DEF TypeOK
<1>2. /\ SwitchedOn(i)' \/ merchant'[i] = "none" => late[i] = 0
      /\ late[i] + Cardinality(InFlight(i)) <= Cardinality(Requests)
  BY RowsStay DEF LateIsBounded
<1>3. CASE late'[i] = late[i] /\ InFlight(i)' \subseteq InFlight(i)
  <2>1. Cardinality(InFlight(i)') <= Cardinality(InFlight(i))
    BY <1>1, <1>3, FS_Subset
  <2> QED  BY <1>1, <1>2, <1>3, <2>1
<1>4. CASE \E r \in Requests, g \in Gateways : Authenticate(r, g)
  <2> PICK r \in Requests, g \in Gateways : Authenticate(r, g)
    BY <1>4
  <2>1. /\ SwitchedOn(request'[r].of) /\ UNCHANGED <<merchant, credential, late>>
        /\ \A q \in Requests \ {r} : request'[q] = request[q]
    BY DEF Authenticate, Admitted, SwitchedOn, TypeOK, rows
  <2>2. CASE request'[r].of = i
    <3>1. late[i] = 0
      BY <2>1, <2>2 DEF LateIsBounded
    <3> QED  BY <1>1, <2>1, <3>1
  <2>3. CASE request'[r].of # i
    BY <1>3, <2>1, <2>3 DEF InFlight
  <2> QED  BY <2>2, <2>3
<1>5. CASE \E r \in Requests : Spend(r)
  <2> PICK r \in Requests : Spend(r)
    BY <1>5
  <2>1. /\ UNCHANGED <<merchant, credential>>
        /\ request[r] # Idle /\ request'[r] = Idle
        /\ \A q \in Requests \ {r} : request'[q] = request[q]
    BY DEF Spend, TypeOK
  <2>2. CASE late'[i] = late[i]
    BY <1>3, <2>1, <2>2 DEF InFlight
  <2>3. CASE late'[i] # late[i]
    <3>1. request[r].of = i /\ late'[i] = late[i] + 1 /\ ~SwitchedOn(i)
      BY <2>3 DEF Spend, TypeOK
    <3>2. InFlight(i)' = InFlight(i) \ {r} /\ r \in InFlight(i)
      BY <2>1, <3>1 DEF InFlight
    <3>3. Cardinality(InFlight(i)') = Cardinality(InFlight(i)) - 1
      BY <1>1, <3>2, FS_RemoveElement
    <3>4. ~SwitchedOn(i)' /\ merchant'[i] # "none"
      BY <2>1, <3>1 DEF SwitchedOn, Known
    <3> QED  BY <1>1, <1>2, <3>1, <3>3, <3>4
  <2> QED  BY <2>2, <2>3
<1>6. CASE \E g \in Gateways : Crash(g)
  BY <1>3, <1>6 DEF Crash, InFlight
<1>7. CASE UNCHANGED <<request, late>>
  BY <1>3, <1>7 DEF InFlight
<1> QED
  BY <1>4, <1>5, <1>6, <1>7 DEF Next, StartStep, Start, Check, Insert, InsertFails, CommitMigration,
       FindCredential, Issue, DeactivateMerchant, DeactivateCredential, vars

-----------------------------------------------------------------------------

LEMMA NextHolds == IInv /\ [Next]_vars => IInv'
<1> SUFFICES ASSUME IInv, [Next]_vars  PROVE IInv'
  OBVIOUS
<1>1. Order'
  BY ReadOrder, InsertOrder, MigrationOrder, FindOrder, IssueOrder, CrashOrder, UseOrder
     DEF Next, StartStep
<1> QED  BY <1>1, TypeStep, KnownStep, LateStep DEF IInv, Starts, Order

\* The inductive invariant holds in every reachable state.
THEOREM AccessInvariance == Spec => []IInv
BY InitHolds, NextHolds, PTL DEF Spec

\* The rows, the places of the gateways and the requests keep their types;
\* no balance is spent below zero.
THEOREM AccessTypeCorrect == Spec => []TypeOK
<1>1. IInv => TypeOK
  BY DEF IInv, Starts
<1> QED  BY AccessInvariance, <1>1, PTL

\* However many gateways start, lose races and die: no merchant is ever
\* there without its balance and its key (seed_merchant).
THEOREM NoHalfSeeds == Spec => []SeedsAreWhole
<1>1. IInv => SeedsAreWhole
  BY DEF IInv, Starts
<1> QED  BY AccessInvariance, <1>1, PTL

\* A gateway listens only when tables and seeds are there (entrypoint.sh).
THEOREM SeededBeforeServing == Spec => []ServingIsSeeded
<1>1. IInv => ServingIsSeeded
  BY DEF IInv, Starts
<1> QED  BY AccessInvariance, <1>1, PTL

\* What is spent after a merchant was switched off is bounded by the
\* requests that can be under way (get_current_merchant_id).
THEOREM SwitchingOffWorks == Spec => []DeactivationBites
<1>1. IInv => DeactivationBites
  <2> SUFFICES ASSUME IInv, NEW i \in Seeds  PROVE late[i] <= Cardinality(Requests)
    BY DEF DeactivationBites
  <2>1. late[i] \in Nat /\ late[i] + Cardinality(InFlight(i)) <= Cardinality(Requests)
    BY DEF IInv, Starts, TypeOK, LateIsBounded
  <2>2. Cardinality(InFlight(i)) \in Nat /\ Cardinality(Requests) \in Nat
    BY RequestSets DEF InFlight
  <2> QED  BY <2>1, <2>2
<1> QED  BY AccessInvariance, <1>1, PTL

\* Seeding at every start leaves existing rows alone, whatever payments and
\* operators have made of them (seed_merchant).
THEOREM SeedingIsIdempotent == Spec => SeedIsIdempotent
<1>1. IInv /\ [Next]_vars =>
        [\A i \in Seeds : at' # at /\ merchant[i] # "none" =>
           /\ merchant'[i] = merchant[i]
           /\ credential'[i] = credential[i]
           /\ balance'[i] = balance[i]]_vars
  <2> SUFFICES ASSUME IInv, Next, NEW i \in Seeds, at' # at, merchant[i] # "none"
               PROVE  merchant'[i] = merchant[i] /\ credential'[i] = credential[i] /\ balance'[i] = balance[i]
    OBVIOUS
  <2> USE DEF IInv, Starts
  <2>1. CASE \E g \in Gateways : FindCredential(g)
    BY <2>1 DEF FindCredential, CommitMerchant, SeedsAreWhole, Alone, Present, TypeOK, Seeds
  <2>2. CASE \E g \in Gateways : Issue(g)
    BY <2>2, IssueCommits DEF TypeOK
  <2> QED
    BY <2>1, <2>2 DEF Next, StartStep, Start, Check, Insert, InsertFails, CommitMigration, Crash,
         DeactivateMerchant, DeactivateCredential, Spend, Authenticate, rows
<1> QED  BY AccessInvariance, <1>1, PTL DEF Spec, SeedIsIdempotent

-----------------------------------------------------------------------------
(* Waiting *)

\* Gateway g has a statement to run, and no other's open transaction to wait for.
CanStart(g) == at[g] # "serving" /\ (at[g] = "missing" => ~Waits(g))

\* A gateway that starts and waits does so for one that can go on with the same job.
StartsGoOn ==
    \A g \in Gateways : at[g] # "serving" =>
       CanStart(g) \/ \E h \in Gateways \ {g} : job[h] = job[g] /\ CanStart(h)

\* Two gateways never add one key: they have waited for each other at the name of its
\* merchant.
KeyIsFree == \A g \in Gateways : at[g] = "issuing" => credential[job[g]] = "none"

\* The safety half of EveryGatewayServes: nobody waits behind one that waits, so starting
\* gateways (entrypoint.sh) do not block each other in a circle.
THEOREM NoStartWaitsLong == Spec => []StartsGoOn
<1>1. IInv => StartsGoOn
  <2> SUFFICES ASSUME IInv, NEW g \in Gateways, at[g] = "missing", Waits(g)
               PROVE  \E h \in Gateways \ {g} : job[h] = job[g] /\ CanStart(h)
    BY DEF StartsGoOn, CanStart
  <2>1. PICK h \in holds \ {g} : job[h] = job[g]
    BY DEF Waits
  <2>2. h \in Gateways /\ at[h] \in {"finding", "issuing"}
    BY <2>1 DEF IInv, Starts, TypeOK, Alone
  <2> QED  BY <2>1, <2>2 DEF CanStart
<1> QED  BY <1>1, AccessInvariance, PTL

\* scripts/seed_data.py: the unique key id is never violated; a start that loses a race
\* loses it at the merchant's name, where nothing of the seed is there yet.
THEOREM KeysDoNotCollide == Spec => []KeyIsFree
<1>1. IInv => KeyIsFree
  <2> SUFFICES ASSUME IInv, NEW g \in Gateways, at[g] = "issuing"
               PROVE  credential[job[g]] = "none"
    BY DEF KeyIsFree
  <2>1. g \in holds /\ job[g] # 0 /\ ~Present(g) /\ job[g] \in 0 .. N
    BY DEF IInv, Starts, TypeOK, Issuing, Alone
  <2>2. job[g] \in Seeds /\ merchant[job[g]] = "none"
    BY <2>1, AccessAssumption DEF Present, Seeds
  <2> QED  BY <2>2 DEF IInv, Starts, SeedsAreWhole
<1> QED  BY <1>1, AccessInvariance, PTL
=============================================================================
