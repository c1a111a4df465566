--------------------------- MODULE MCOfferedFlows ---------------------------
(* Small instances of OfferedFlows.                                        *)
EXTENDS OfferedFlows, TLC

Symmetry == Permutations(Callers)
=============================================================================
