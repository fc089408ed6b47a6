\* An edit commits between the unlocked snapshot of a bulk update and its lock.
SPECIFICATION Spec
CONSTANTS
  Workers = {w1, w2}
  Ids = {s1}
  Users = {u1, u2}
  Clients = {c1}
  Contents = {a, b}
  NoClient = NoClient
  NoDraft = NoDraft
  Nobody = Nobody
  Drafts <- Named
  Kinds = {"created", "updated", "published", "bulk_apply"}
  Legacy = {}
  MaxVersion = 3
  MaxEvents = 4
INVARIANT HistoryIsChained
CHECK_DEADLOCK FALSE
