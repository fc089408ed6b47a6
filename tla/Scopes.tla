------------------------------- MODULE Scopes -------------------------------
(***************************************************************************)
(* The commercial scopes of an organization: their draft and publication,  *)
(* the numbered versions, the assignments materialised from the draft,     *)
(* inactivation, the two bulk operations, synchronisation of old scopes    *)
(* and deletion, with the audit events they record and the reversal of an  *)
(* event.                                                                  *)
(*                                                                         *)
(* A request is one transaction (READ COMMITTED).  A write on one scope    *)
(* selects it FOR UPDATE with populate_existing, so it plans from the      *)
(* committed row.  A bulk operation first takes its "before" snapshots     *)
(* without a lock.  apply_bulk_scope_update then locks without             *)
(* populate_existing: the one object that the route's loop variable keeps  *)
(* alive still has the attributes it was loaded with.                      *)
(***************************************************************************)
EXTENDS Integers, Sequences, FiniteSetsExt

CONSTANTS Workers,     \* request transactions that may be open at once
          Ids,         \* scopes
          Users,       \* the users a draft may name as responsible
          Clients,     \* clients, by their CNPJ
          Contents,    \* the rest of what a draft says
          NoClient,    \* no client: a scope that is not linked, a draft without one
          NoDraft,     \* nothing published
          Nobody,      \* no user, and the lock holder when a row is not locked
          Drafts,      \* the drafts that callers send
          Kinds,       \* the requests that are sent
          Legacy,      \* rows older than the relational tables
          MaxVersion,  \* bound: versions of a scope
          MaxEvents    \* bound: audit events

ASSUME BoundsAssumption == MaxVersion \in Nat \ {0} /\ MaxEvents \in Nat
ASSUME NoneAssumption == NoClient \notin Clients /\ Nobody \notin Workers \cup Users

VARIABLES
  scopes,      \* the rows of scopes
  links,       \* the relational rows of each scope: scope_assignments, scope_services
  versions,    \* the rows of scope_versions
  events,      \* the rows of audit_events with those of audit_event_changes
  lock,        \* the transaction that locks each row of scopes
  pc,          \* where the request of each worker is
  job          \* what it loaded and what it is about to write

committed == <<scopes, links, versions, events>>
vars == <<committed, lock, pc, job>>

-----------------------------------------------------------------------------
(* Rows                                                                    *)

\* The default draft names neither: its responsavelComercial, cnpj and
\* razaoSocial are empty.  An id that is no UUID names nobody either.
Draft == [content : Contents, responsible : Users \cup {Nobody},
          client : Clients \cup {NoClient}]

Status == {"unborn", "draft", "published", "archived", "deleted"}

\* archived_at and archived_by_id are set exactly when the status is archived.
Row == [status : Status, origin : {"none", "draft", "published"},
        draft : Draft \cup {NoDraft}, snapshot : Draft \cup {NoDraft},
        version : 0..MaxVersion, responsible : Users \cup {Nobody},
        client : Clients \cup {NoClient}]

Version == [scope : Ids, number : 1..MaxVersion, snapshot : Draft]

NoRow == [status |-> "unborn", origin |-> "none", draft |-> NoDraft,
          snapshot |-> NoDraft, version |-> 0, responsible |-> Nobody,
          client |-> NoClient]

Links == [users : SUBSET Users, services : SUBSET Contents]

NoLinks == [users |-> {}, services |-> {}]

Change == [scope : Ids, before : Row, after : Row]

Actions == {"created", "updated", "published", "deactivated", "reactivated",
            "deleted", "bulk_updated", "reversed"}

Event == [action : Actions, reverses : 0..MaxEvents, changes : SUBSET Change]

Reversible == {"updated", "bulk_updated"}

Alive(row) == row.status \notin {"unborn", "deleted"}

\* Planted bug: an inactive scope can be written.
AlwaysWritable(row) == Alive(row)

Writable(row) == Alive(row) /\ row.status # "archived"

\* A row from before the relational tables: never synchronised, and perhaps
\* archived when the prior state was not kept yet.
LegacyRow(d, st) ==
  [status |-> st, origin |-> "none", draft |-> d,
   snapshot |-> IF st = "draft" THEN NoDraft ELSE d, version |-> 1,
   responsible |-> d.responsible, client |-> NoClient]

ASSUME InputsAssumption ==
  /\ Drafts \subseteq Draft
  /\ \A row \in Legacy : \E d \in Draft, st \in {"draft", "published", "archived"} :
                          row = LegacyRow(d, st)

NoJob == [kind |-> "none", writes |-> {}, before |-> [i \in {} |-> NoRow],
          reverses |-> 0, changes |-> {}]

Init ==
  /\ scopes \in {[i \in Ids |-> NoRow]}
             \cup {[i \in Ids |-> IF i = j THEN row ELSE NoRow] : j \in Ids, row \in Legacy}
  /\ links = [i \in Ids |-> NoLinks]
  /\ versions = {} /\ events = <<>>
  /\ lock = [i \in Ids |-> Nobody]
  /\ pc = [w \in Workers |-> "idle"]
  /\ job = [w \in Workers |-> NoJob]

-----------------------------------------------------------------------------
(* Transactions                                                            *)

\* One row that a request is about to write: the attributes its session
\* loaded, the new ones, and whether a row of scope_versions goes with them.
Write(i, loaded, new, rows, publishes) ==
  [scope |-> i, loaded |-> loaded, new |-> new, links |-> rows,
   publishes |-> publishes]

\* SQLAlchemy's UPDATE: a column is written when it differs from what was loaded.
Flush(row, loaded, new) ==
  [c \in DOMAIN row |-> IF new[c] = loaded[c] THEN row[c] ELSE new[c]]

Flushed(w) ==
  [i \in Ids |->
     IF \E x \in job[w].writes : x.scope = i
       THEN LET x == CHOOSE y \in job[w].writes : y.scope = i
            IN Flush(scopes[i], x.loaded, x.new)
       ELSE scopes[i]]

NewVersions(w) ==
  {[scope |-> x.scope, number |-> x.new.version, snapshot |-> x.new.snapshot] :
     x \in {y \in job[w].writes : y.publishes}}

\* Planted bug: the column client_id is not unique.
AnyClients(rows) == TRUE

\* uq_scopes_client_id.
UniqueClients(rows) ==
  \A i, j \in Ids : i # j /\ Alive(rows[i]) /\ Alive(rows[j])
                    /\ rows[i].client = rows[j].client
                    => rows[i].client = NoClient

\* uq_scope_versions_scope_version.
UniqueVersions(new) ==
  \A v \in new : \A u \in versions :
    ~(u.scope = v.scope /\ u.number = v.number)

Free(S) == \A i \in S : lock[i] = Nobody

Idle(w, kind) == pc[w] = "idle" /\ kind \in Kinds

\* The rows are locked and their writes planned.  Rows are really locked one
\* after the other; those already locked cannot change meanwhile.
Plan(w, kind, S, writes, reverses, changes) ==
  /\ writes # {}
  /\ \A x \in writes : x.new.version <= MaxVersion
  /\ Len(events) < MaxEvents
  /\ lock' = [i \in Ids |-> IF i \in S THEN w ELSE lock[i]]
  /\ pc' = [pc EXCEPT ![w] = "commit"]
  /\ job' = [job EXCEPT ![w] = [NoJob EXCEPT !.kind = kind, !.writes = writes,
                                 !.reverses = reverses, !.changes = changes]]
  /\ UNCHANGED committed

\* Planted bug: the row stays locked.
CloseLocked(w) ==
  /\ pc' = [pc EXCEPT ![w] = "idle"]
  /\ job' = [job EXCEPT ![w] = NoJob]
  /\ UNCHANGED lock

Close(w) ==
  /\ pc' = [pc EXCEPT ![w] = "idle"]
  /\ job' = [job EXCEPT ![w] = NoJob]
  /\ lock' = [i \in Ids |-> IF lock[i] = w THEN Nobody ELSE lock[i]]

Recorded(w) ==
  IF job[w].kind = "sync" THEN events
  ELSE Append(events, [action |-> job[w].kind, reverses |-> job[w].reverses,
                       changes |-> job[w].changes])

Commit(w) ==
  /\ pc[w] = "commit"
  /\ UniqueClients(Flushed(w))
  /\ UniqueVersions(NewVersions(w))
  /\ scopes' = Flushed(w)
  /\ links' = [i \in Ids |->
                 IF \E x \in job[w].writes : x.scope = i
                   THEN (CHOOSE x \in job[w].writes : x.scope = i).links
                   ELSE links[i]]
  /\ versions' = {v \in versions : scopes'[v.scope].status # "deleted"}
                   \cup NewVersions(w)
  /\ events' = Recorded(w)
  /\ Close(w)

\* An IntegrityError, a refusal after the lock, a worker that is killed.
Abort(w) ==
  /\ pc[w] # "idle"
  /\ Close(w)
  /\ UNCHANGED committed

-----------------------------------------------------------------------------
(* One scope                                                               *)

\* upsert_client_from_draft: a draft that names no client leaves the scope with
\* the one it has.
Linked(client, d) == IF d.client = NoClient THEN client ELSE d.client

\* Planted bug: the column responsible_user_id stays behind the draft.
AppliedDraftOnly(row, d) == [row EXCEPT !.draft = d, !.client = Linked(@, d)]

\* apply_draft_to_scope, which empties the column when the draft names nobody,
\* and the client.
Applied(row, d) == [row EXCEPT !.draft = d, !.responsible = d.responsible,
                               !.client = Linked(@, d)]

SyncAssignments(d) == {d.responsible} \ {Nobody}

\* The enabled services of the draft, their prepostos with them.
SyncServices(d) == {d.content}

Synchronised(d) == [users |-> SyncAssignments(d), services |-> SyncServices(d)]

\* No other scope has the client that the draft names, if it names one.
AvailableIn(others, d) ==
  d.client # NoClient => \A j \in others : Alive(scopes[j]) => scopes[j].client # d.client

\* ensure_client_available: archived scopes keep their client too.
Available(i, d) == AvailableIn(Ids \ {i}, d)

Changed(i, new) == {[scope |-> i, before |-> scopes[i], after |-> new]}

\* The request writes one row from what it is now, and records its event.
PlanOne(w, kind, i, new, rows, publishes) ==
  Plan(w, kind, {i}, {Write(i, scopes[i], new, rows, publishes)}, 0,
       Changed(i, new))

\* A new row, not locked: nobody else sees it before the commit.
Create(w) ==
  /\ Idle(w, "created")
  /\ \E i \in Ids, d \in Drafts :
       LET new == [Applied(NoRow, d) EXCEPT !.status = "draft", !.version = 1]
       IN /\ scopes[i].status = "unborn"
          /\ \A v \in Workers : \A x \in job[v].writes : x.scope # i
          /\ Available(i, d)
          /\ Plan(w, "created", {}, {Write(i, NoRow, new, Synchronised(d), FALSE)},
                  0, Changed(i, new))

Update(w) ==
  /\ Idle(w, "updated")
  /\ \E i \in Ids, d \in Drafts :
       /\ Free({i}) /\ Writable(scopes[i])
       /\ Available(i, d)
       /\ PlanOne(w, "updated", i, Applied(scopes[i], d), Synchronised(d), FALSE)

Published(row) == [Applied(row, row.draft) EXCEPT
                     !.status = "published", !.snapshot = row.draft,
                     !.version = row.version + 1]

Publish(w) ==
  /\ Idle(w, "published")
  /\ \E i \in Ids :
       /\ Free({i}) /\ Writable(scopes[i])
       /\ Available(i, scopes[i].draft)
       /\ PlanOne(w, "published", i, Published(scopes[i]),
                  Synchronised(scopes[i].draft), TRUE)

Delete(w) ==
  /\ Idle(w, "deleted")
  /\ \E i \in Ids :
       /\ Free({i}) /\ Writable(scopes[i])
       /\ PlanOne(w, "deleted", i, [NoRow EXCEPT !.status = "deleted"], NoLinks, FALSE)

\* Doing again what is done already returns the scope as it is.
Deactivate(w) ==
  /\ Idle(w, "deactivated")
  /\ \E i \in Ids :
       /\ Free({i}) /\ Writable(scopes[i])
       /\ PlanOne(w, "deactivated", i,
                  [scopes[i] EXCEPT !.status = "archived",
                                    !.origin = scopes[i].status],
                  links[i], FALSE)

\* Without a prior state the scope comes back as a draft.
Reactivated(row) ==
  [row EXCEPT !.status = IF row.origin = "none" THEN "draft" ELSE row.origin,
              !.origin = "none"]

Reactivate(w) ==
  /\ Idle(w, "reactivated")
  /\ \E i \in Ids :
       /\ Free({i}) /\ scopes[i].status = "archived"
       /\ PlanOne(w, "reactivated", i, Reactivated(scopes[i]), links[i], FALSE)

-----------------------------------------------------------------------------
(* Several scopes                                                          *)

\* get_sync_missing finds no row that the draft asks for.
Synced(i) ==
  LET d == scopes[i].draft
  IN /\ d.client # NoClient => scopes[i].client # NoClient
     /\ SyncAssignments(d) \subseteq links[i].users
     /\ SyncServices(d) \subseteq links[i].services

\* sync and sync-missing: the relational rows that the draft asks for.  One
\* client that has another scope refuses the whole batch; no event is recorded.
Sync(w) ==
  /\ Idle(w, "sync")
  /\ \E S \in SUBSET {i \in Ids : Writable(scopes[i])} :
       LET stale == {i \in S : ~Synced(i)}
       IN /\ stale # {} /\ Free(S)
          /\ \A i \in stale : /\ Available(i, scopes[i].draft)
                              /\ \A j \in stale \ {i} :
                                   scopes[i].draft.client = scopes[j].draft.client
                                     => scopes[i].draft.client = NoClient
          /\ Plan(w, "sync", S,
                  {LET d == scopes[i].draft
                   IN Write(i, scopes[i], Applied(scopes[i], d),
                            Synchronised(d), FALSE) : i \in stale}, 0, {})

\* The route of a bulk operation loads the scopes for their "before" snapshots.
Snapshots(w, kind) ==
  /\ Idle(w, kind)
  /\ \E S \in SUBSET {i \in Ids : Alive(scopes[i])} :
       /\ S # {}
       /\ pc' = [pc EXCEPT ![w] = "loaded"]
       /\ job' = [job EXCEPT ![w] = [NoJob EXCEPT !.kind = kind,
                                      !.before = [i \in S |-> scopes[i]]]]
  /\ UNCHANGED <<committed, lock>>

BulkLoad(w) == Snapshots(w, "bulk_apply")

MoveLoad(w) == Snapshots(w, "bulk_move")

\* The attributes of a scope in the session of a bulk update: one object, kept
\* alive by the variable of the loop that took the snapshots, is as it was then.
\* (A dict comprehension takes those of a bulk move: no object outlives it.)
Attributes(w, i, kept) == IF i = kept THEN job[w].before[i] ELSE scopes[i]

WithUser(d, u) == [d EXCEPT !.responsible = u]

\* apply_bulk_scope_update, for the field responsavel_comercial.
BulkApplied(row, u) ==
  LET d == WithUser(row.draft, u)
      new == [row EXCEPT !.draft = d, !.responsible = u]
  IN IF row.status # "published" THEN new
     ELSE [new EXCEPT !.snapshot = WithUser(row.snapshot, u),
                      !.version = row.version + 1]

AlreadyAssigned(row, u) == row.responsible = u /\ row.draft.responsible = u

BulkChanges(w, writes) ==
  {[scope |-> x.scope, before |-> job[w].before[x.scope], after |-> x.new] :
     x \in writes}

\* The WHERE of the locking query sees the committed status.
BulkApply(w) ==
  /\ pc[w] = "loaded" /\ job[w].kind = "bulk_apply"
  /\ \E u \in Users, kept \in DOMAIN job[w].before :
       LET S == {i \in DOMAIN job[w].before : scopes[i].status = "published"}
           writes == {LET row == Attributes(w, i, kept)
                      IN Write(i, row, BulkApplied(row, u),
                               [links[i] EXCEPT !.users = {u}], row.status = "published") :
                        i \in {j \in S : ~AlreadyAssigned(Attributes(w, j, kept), u)}}
       IN /\ Free(S)
          /\ Plan(w, "bulk_updated", S, writes, 0, BulkChanges(w, writes))

\* _update_scope_draft_for_bulk_assignment, and the column that follows.
BulkMoved(row, u) == [row EXCEPT !.responsible = u, !.draft = WithUser(row.draft, u)]

\* _move_active_assignments: the user gets the assignments the other one has.
MovedUsers(users, from, to) ==
  IF from \in users THEN (users \ {from}) \cup {to} ELSE users

\* bulk_update_assignment moves the scopes of one user to another one: the
\* draft and the assignments change, what is published does not.
BulkMove(w) ==
  /\ pc[w] = "loaded" /\ job[w].kind = "bulk_move"
  /\ \E from, to \in Users :
       LET S == {i \in DOMAIN job[w].before : Writable(scopes[i])}
           writes == {Write(i, scopes[i], BulkMoved(scopes[i], to),
                            [links[i] EXCEPT !.users = MovedUsers(@, from, to)], FALSE) :
                        i \in {j \in S : scopes[j].responsible = from}}
       IN /\ from # to /\ Free(S)
          /\ Plan(w, "bulk_updated", S, writes, 0, BulkChanges(w, writes))

-----------------------------------------------------------------------------
(* Reversal                                                                *)

\* _scope_conflict_state: everything but the version.
SameState(r1, r2) == [r1 EXCEPT !.version = 0] = [r2 EXCEPT !.version = 0]

AlreadyReversed(e) ==
  UNION {{c.scope : c \in events[r].changes} :
           r \in {x \in 1..Len(events) : events[x].reverses = e}}

Eligible(e) ==
  {c \in events[e].changes : /\ c.scope \notin AlreadyReversed(e)
                             /\ Writable(scopes[c.scope])
                             /\ SameState(scopes[c.scope], c.after)}

\* The preview, which reverse_audit_event takes again, without locks.
Preview(w) ==
  /\ Idle(w, "reversed")
  /\ \E e \in 1..Len(events) :
       /\ events[e].action \in Reversible
       /\ Eligible(e) # {}
       /\ pc' = [pc EXCEPT ![w] = "previewed"]
       /\ job' = [job EXCEPT ![w] = [NoJob EXCEPT !.kind = "reversed",
                    !.reverses = e, !.changes = Eligible(e)]]
  /\ UNCHANGED <<committed, lock>>

\* Planted bug: the reversal of a published scope keeps its number.
RestoredSameVersion(row, target) ==
  [row EXCEPT !.status = target.status, !.draft = target.draft,
              !.snapshot = target.snapshot, !.responsible = target.responsible,
              !.client = Linked(target.client, target.draft)]

\* The state before the change, and the client that its draft names; a published
\* scope gets a new version.
Restored(row, target) ==
  LET old == [row EXCEPT !.status = target.status, !.draft = target.draft,
                         !.snapshot = target.snapshot,
                         !.responsible = target.responsible,
                         !.client = Linked(target.client, target.draft)]
  IN IF old.status = "published" THEN [old EXCEPT !.version = row.version + 1]
     ELSE old

\* Planted bug: what the preview saw is not checked again under the lock.
StillWritable(changes) == \A c \in changes : Writable(scopes[c.scope])

StillEligible(changes) ==
  \A c \in changes : Writable(scopes[c.scope]) /\ SameState(scopes[c.scope], c.after)

\* One scope that changed meanwhile rolls the whole reversal back (Abort).
Reverse(w) ==
  /\ pc[w] = "previewed"
  /\ LET S == {c.scope : c \in job[w].changes}
         new(c) == Restored(scopes[c.scope], c.before)
     IN /\ Free(S)
        /\ StillEligible(job[w].changes)
        /\ \A c \in job[w].changes : AvailableIn(Ids \ S, c.before.draft)
        /\ Plan(w, "reversed", S,
                {Write(c.scope, scopes[c.scope], new(c), Synchronised(c.before.draft),
                       new(c).status = "published") : c \in job[w].changes},
                job[w].reverses,
                {[scope |-> c.scope, before |-> scopes[c.scope], after |-> new(c)] :
                   c \in job[w].changes})

-----------------------------------------------------------------------------

Next ==
  \E w \in Workers :
    \/ Create(w) \/ Update(w) \/ Publish(w) \/ Delete(w)
    \/ Deactivate(w) \/ Reactivate(w)
    \/ Sync(w) \/ BulkLoad(w) \/ MoveLoad(w) \/ BulkApply(w) \/ BulkMove(w)
    \/ Preview(w) \/ Reverse(w)
    \/ Commit(w) \/ Abort(w)

Spec == Init /\ [][Next]_vars

-----------------------------------------------------------------------------
(* Properties                                                              *)

\* Every row has its type, and every lock belongs to a request that is open.
TypeOK ==
  /\ \A i \in Ids : scopes[i] \in Row /\ links[i] \in Links
  /\ versions \subseteq Version
  /\ \A e \in 1..Len(events) : events[e] \in Event
  /\ lock \in [Ids -> Workers \cup {Nobody}]
  /\ pc \in [Workers -> {"idle", "loaded", "previewed", "commit"}]
  /\ \A i \in Ids : lock[i] # Nobody => pc[lock[i]] = "commit"

\* The version of a scope counts its rows in scope_versions: each publication,
\* bulk update or reversal of a published scope adds exactly the next one, even
\* when it planned from stale attributes.  What is published is the newest one.
VersionsAreDense ==
  \A i \in Ids :
    Alive(scopes[i]) =>
      LET numbers == {v.number : v \in {u \in versions : u.scope = i}}
      IN /\ numbers = 2..scopes[i].version
         /\ scopes[i].status = "published" /\ numbers # {} =>
              \E v \in versions : /\ v.scope = i /\ v.number = scopes[i].version
                                  /\ v.snapshot = scopes[i].snapshot

\* A client has at most one scope, whatever requests ran at the same time.
OneScopePerClient ==
  \A i, j \in Ids :
    i # j /\ Alive(scopes[i]) /\ Alive(scopes[j]) /\ scopes[i].client \in Clients
    => scopes[j].client # scopes[i].client

\* The responsible user in the draft, the column and the assignment row agree: a
\* scope that has a client or any relational row has one assignment, that of its
\* responsible, and none when the draft names nobody.
ResponsibleAgrees ==
  \A i \in Ids :
    Alive(scopes[i]) =>
      /\ scopes[i].responsible = scopes[i].draft.responsible
      /\ scopes[i].client # NoClient \/ links[i] # NoLinks
           => links[i].users = SyncAssignments(scopes[i].draft)

\* A reversal wipes out no later change: each scope it wrote was, when it was
\* locked, as the reversed event had left it, and is now as it was before it.
ReversalSparesLaterChanges ==
  \A r \in 1..Len(events) :
    events[r].action = "reversed" =>
      \A c \in events[r].changes :
        \E d \in events[events[r].reverses].changes :
          /\ d.scope = c.scope
          /\ SameState(c.before, d.after)
          /\ c.after.draft = d.before.draft /\ c.after.snapshot = d.before.snapshot

\* An inactive scope is not written: its row, versions and assignments stay until
\* it comes back, with everything but its status as it was.
ArchivedIsFrozen ==
  [][\A i \in Ids :
       scopes[i].status = "archived" =>
         /\ links'[i] = links[i]
         /\ {v \in versions' : v.scope = i} = {v \in versions : v.scope = i}
         /\ scopes'[i] \in {scopes[i], Reactivated(scopes[i])}]_vars

\* The history of a scope has no gap: the state before a change is the one that
\* the change before it left.
HistoryIsChained ==
  \A f \in 1..Len(events) : \A d \in events[f].changes :
    \A e \in 1..(f - 1) : \A c \in events[e].changes :
      c.scope = d.scope
      /\ (\A g \in (e + 1)..(f - 1) : \A x \in events[g].changes : x.scope # c.scope)
      => d.before = c.after
=============================================================================
