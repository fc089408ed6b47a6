\* Two gunicorn workers, two drafts, numbers up to 2. Every request ends.
SPECIFICATION FairSpec
CONSTANTS
  Workers = {w1, w2}
  Drafts = {d1, d2}
  MaxNumber = 2
  Nobody = Nobody
INVARIANTS TypeOK DistinctNumbers RowCoversNumbers
PROPERTIES NeverReissued RollbackReturnsNumber Implements RequestsEnd
