-------------------------- MODULE MCPortalSession --------------------------
(***************************************************************************)
(* Small instances of PortalSession.                                       *)
(***************************************************************************)
EXTENDS PortalSession, TLC

Symmetry == Permutations(Requests)
=============================================================================
