\* Two scopes, one client that both may ask for, two requests at a time; one of the
\* scopes may be older than the relational tables. The bounds stop the requests:
\* hence no deadlock check.
SPECIFICATION Spec
CONSTANTS
  Workers = {w1, w2}
  Ids = {s1, s2}
  Users = {u1, u2}
  Clients = {c1}
  Contents = {a}
  NoClient = NoClient
  NoDraft = NoDraft
  Nobody = Nobody
  Drafts <- AnyDraft
  Kinds = {"created", "updated", "published", "deleted", "deactivated", "reactivated", "sync", "bulk_apply", "bulk_move", "reversed"}
  Legacy <- OldRows
  MaxVersion = 3
  MaxEvents = 3
SYMMETRY Symmetry
INVARIANTS TypeOK VersionsAreDense OneScopePerClient ResponsibleAgrees ReversalSparesLaterChanges
PROPERTY ArchivedIsFrozen
CHECK_DEADLOCK FALSE
