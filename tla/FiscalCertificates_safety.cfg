\* Two administrators, three certificate ids, two fingerprints. The ids run out,
\* and without a certificate nothing can be asked for: hence no deadlock check.
SPECIFICATION Spec
CONSTANTS
  Workers = {w1, w2}
  Certs = {c1, c2, c3}
  Prints = {p1, p2}
  NoPrint = NoPrint
  NoCert = NoCert
  Nobody = Nobody
SYMMETRY Symmetry
INVARIANTS TypeOK AtMostOneActive UploadedOnce
PROPERTY ReplacedIsDisabled
CHECK_DEADLOCK FALSE
