--------------------------- MODULE MCAnswerCache ---------------------------
(* Small instances of AnswerCache.                                         *)
EXTENDS AnswerCache, TLC

Symmetry == Permutations(Requests)
=============================================================================
