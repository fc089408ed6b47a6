----------------------------- MODULE MCNfeDraft -----------------------------
(* NfeDraft on small instances.                                            *)
EXTENDS NfeDraft, TLC

Symmetry == Permutations(Workers) \cup Permutations(Certs)
=============================================================================
