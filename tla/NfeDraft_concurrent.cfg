\* Two gunicorn workers, four stamped instants; metadata and validate, two more
\* edits, only run under OrderlySpec (NfeDraft_orderly), to keep this instance small.
SPECIFICATION Spec
CONSTANTS
  Workers = {w1, w2}
  Certs = {c1, c2}
  NoCert = NoCert
  Nobody = Nobody
  Kinds = {"item", "remove", "key", "xml", "xsd", "sign"}
  Second = 2
  MaxClock = 4
SYMMETRY Symmetry
INVARIANTS TypeOK OneSignature SignatureLedger ApprovedBeforeSigned VersionsNeverClash
PROPERTIES SignsLatestVersion IssuanceStaysBound
