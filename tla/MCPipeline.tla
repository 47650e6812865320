----------------------------- MODULE MCPipeline -----------------------------
(***************************************************************************)
(* Instances of Pipeline for TLC, with floats of 10 bits: amounts are      *)
(* exact up to 799, and the provider takes 801 for 802.                    *)
(***************************************************************************)
EXTENDS Pipeline, TLC

MCAmount == [e \in Events |-> CASE e = 1 -> 56 [] e = 2 -> 51 [] OTHER -> 801]

MCScales == {2^k : k \in 0 .. 17}

MCSymmetry == Permutations(Publishers) \cup Permutations(Workers)
=============================================================================
