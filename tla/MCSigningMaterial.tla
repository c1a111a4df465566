------------------------- MODULE MCSigningMaterial -------------------------
(* A small instance of SigningMaterial, with the one of EnvelopeCreate.    *)
EXTENDS SigningMaterial, TLC

Person(seals) == [identity |-> Own, cert |-> Own, auth |-> Login,
                  seals |-> seals, known |-> TRUE]
WithCert(s) == [id |-> s, cert |-> s]
NoCert(s) == [id |-> s, cert |-> None]

\* With everything, and with one client or none.
SomeDeployments == {{"documents", "envelope", "signflow"},
                    {"envelope"}, {"documents"}, {}}

\* Nothing captured; a person without a certificate whose seals could not be
\* read, one with a seal, with its certificate or without, or with two seals,
\* of which the first has its certificate.
SomeCaptures ==
  {NoCapabilities, [Person(<<>>) EXCEPT !.known = FALSE, !.cert = None]}
    \cup {Person(<<WithCert(s)>>) : s \in SealIds}
    \cup {Person(<<NoCert(s)>>) : s \in SealIds}
    \cup {Person(<<WithCert(s), NoCert(t)>>) : <<s, t>> \in
            {p \in SealIds \X SealIds : p[1] # p[2]}}

Symmetry == Permutations(Files) \cup Permutations(Requests)
              \cup Permutations(SealIds)
=============================================================================
