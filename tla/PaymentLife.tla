---------------------------- MODULE PaymentLife ----------------------------
(***************************************************************************)
(* What a payment row goes through, with every transaction on it one step  *)
(* but for the worker's, which keeps the row locked while it asks the      *)
(* provider.                                                               *)
(*                                                                         *)
(* PaymentTransactions, where each transaction is a sequence of            *)
(* statements, and Pipeline, where messages and callbacks decide which     *)
(* transactions come, both implement it: what Pipeline takes as one step   *)
(* is one step of the statements too.                                      *)
(***************************************************************************)

CONSTANTS
    Payments,  \* payment rows
    Ids        \* ids of payments at the provider

VARIABLES
    pay,    \* pay[p]: the status of row p, "none" where there is none
    held,   \* held[p]: what p's worker has come to: "free", "locked", "asked"
    asked   \* asked[p]: the ids of the payments the provider has created for p

vars == <<pay, held, asked>>

Open == {"created", "processing"}

Final == {"completed", "canceled"}

Init ==
    /\ pay = [p \in Payments |-> "none"]
    /\ held = [p \in Payments |-> "free"]
    /\ asked = [p \in Payments |-> {}]

\* The row is committed.
Create(p) ==
    /\ pay[p] = "none"
    /\ pay' = [pay EXCEPT ![p] = "created"]
    /\ UNCHANGED <<held, asked>>

\* A worker locks the row of a payment that is still "created".
Lock(p) ==
    /\ held[p] = "free"
    /\ pay[p] = "created"
    /\ held' = [held EXCEPT ![p] = "locked"]
    /\ UNCHANGED <<pay, asked>>

\* It asks the provider once; the id it gets is nobody else's.
Ask(p) ==
    /\ held[p] = "locked"
    /\ held' = [held EXCEPT ![p] = "asked"]
    /\ \E id \in Ids : /\ \A q \in Payments : id \notin asked[q]
                       /\ asked' = [asked EXCEPT ![p] = @ \cup {id}]
    /\ UNCHANGED pay

\* It records the answer and commits.
Record(p) ==
    /\ held[p] = "asked"
    /\ pay' = [pay EXCEPT ![p] = "processing"]
    /\ held' = [held EXCEPT ![p] = "free"]
    /\ UNCHANGED asked

\* Or it fails, before or after the provider was asked.
Release(p) ==
    /\ held[p] # "free"
    /\ held' = [held EXCEPT ![p] = "free"]
    /\ UNCHANGED <<pay, asked>>

\* The provider calls back about an open payment it has heard of, and no worker
\* holds the row.
Answer(p, status) ==
    /\ held[p] = "free"
    /\ pay[p] \in Open
    /\ asked[p] # {}
    /\ pay' = [pay EXCEPT ![p] = status]
    /\ UNCHANGED <<held, asked>>

Next ==
    \E p \in Payments :
       \/ Create(p) \/ Lock(p) \/ Ask(p) \/ Record(p) \/ Release(p)
       \/ \E status \in {"processing"} \cup Final : Answer(p, status)

Spec == Init /\ [][Next]_vars
=============================================================================
