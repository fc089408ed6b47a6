------------------------ MODULE MCFiscalCertificates ------------------------
\* Workers, certificate ids and fingerprints are interchangeable.
EXTENDS FiscalCertificates, TLC

Symmetry == Permutations(Workers) \cup Permutations(Certs) \cup Permutations(Prints)
=============================================================================
