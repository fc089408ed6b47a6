\* A DUIMP of two items, of one exporter or of two; two requests that the
\* ladder does not ask for, at any time. The process stops when it is completed.
SPECIFICATION Spec
CONSTANTS
  Workers = {w1}
  Items = {i1, i2}
  Duimps = {{1}, {1, 2}}
  MaxSnapshots = 2
  MaxPlans = 4
  MaxDrafts = 6
  MaxRequests = 2
INVARIANTS TypeOK NewestPlanIsActive AdviceIsAccepted
PROPERTY Completion
CHECK_DEADLOCK FALSE
