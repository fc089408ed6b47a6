\* Two requests overlap, none writes over a change made after it loaded the draft; four
\* stamped instants, two to a second.
SPECIFICATION OrderlySpec
CONSTANTS
  Workers = {w1, w2}
  Certs = {c1}
  NoCert = NoCert
  Nobody = Nobody
  Kinds = {"metadata", "item", "validate", "remove", "key", "xml", "xsd", "sign"}
  Second = 2
  MaxClock = 4
SYMMETRY Symmetry
INVARIANTS SignedIsCurrent SignedCarriesKey KeyIsConsistent
PROPERTY SignedIsFinal
