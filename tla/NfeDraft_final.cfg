\* An edit that loaded the draft before the signature commits after it.
SPECIFICATION Spec
CONSTANTS
  Workers = {w1,w2}
  Certs = {c1}
  NoCert = NoCert
  Nobody = Nobody
  Kinds = {"item", "xml", "xsd", "sign"}
  Second = 1
  MaxClock = 4
PROPERTY SignedIsFinal
