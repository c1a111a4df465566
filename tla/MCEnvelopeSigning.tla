------------------------- MODULE MCEnvelopeSigning -------------------------
(* Small instances of EnvelopeSigning.                                     *)
EXTENDS EnvelopeSigning, TLC

Symmetry == Permutations(Signings)

\* A slot is the owner's without a code, or another person's, invited by a
\* system that prepared the envelope and spells identity codes its own way.
MixedInvitations == {None} \cup (CoSigners \X {"partner"})
=============================================================================
