------------------------------ MODULE MCOutbox ------------------------------
(***************************************************************************)
(* Instance of Outbox for TLC: two publishers whose batches overlap.       *)
(***************************************************************************)
EXTENDS Outbox
=============================================================================
