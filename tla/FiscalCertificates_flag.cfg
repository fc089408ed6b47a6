\* A validation that loaded the row before its activation.
SPECIFICATION Spec
CONSTANTS
  Workers = {w1, w2}
  Certs = {c1}
  Prints = {p1}
  NoPrint = NoPrint
  NoCert = NoCert
  Nobody = Nobody
INVARIANT ActiveCanSign
CHECK_DEADLOCK FALSE
