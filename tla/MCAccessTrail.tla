--------------------------- MODULE MCAccessTrail ---------------------------
(* A small instance of AccessTrail.                                        *)
EXTENDS AccessTrail, TLC

\* Deployments with everything, with the document service alone, and with
\* nothing but sign-in.
SomeDeployments == {{"documents", "preview", "signer"}, {"documents"}, {}}

TrailSymmetry == Permutations(Addresses) \cup Permutations(Buffers)
                 \cup Permutations(Documents)
=============================================================================
