------------------------------ MODULE MCSignIn ------------------------------
(* Small instances of SignIn.                                              *)
EXTENDS SignIn, TLC

Symmetry == Permutations(Browsers) \cup Permutations(States)
              \cup Permutations(Starts) \cup Permutations(Returns)
=============================================================================
