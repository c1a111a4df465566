------------------------------ MODULE MCVerify ------------------------------
(* Small instances of Verify.                                              *)
EXTENDS Verify, TLC

Symmetry == Permutations(Addresses) \cup Permutations(Buffers)
=============================================================================
