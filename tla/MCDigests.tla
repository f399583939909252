------------------------------ MODULE MCDigests ------------------------------
(* Instances of Digests for TLC. *)
EXTENDS Digests, TLC

Symmetric == Permutations(Request)
=============================================================================
