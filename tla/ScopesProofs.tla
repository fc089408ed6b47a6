---------------------------- MODULE ScopesProofs ----------------------------
(***************************************************************************)
(* The scopes are safe for any number of workers, scopes, users, clients   *)
(* and versions.  The inductive invariant says what each planned write     *)
(* will do to its row when it is committed: the row lock keeps the row as  *)
(* the plan found it, and of the one write that was planned from stale     *)
(* attributes it says how far behind these may be, so that the unique      *)
(* constraint on the versions stops it when it matters.                    *)
(***************************************************************************)
EXTENDS Scopes, FiniteSetTheorems, SequenceTheorems, TLAPS

USE BoundsAssumption, NoneAssumption

-----------------------------------------------------------------------------
(* The inductive invariant                                                 *)

\* Published, or inactive and published before.
Pub(r) == r.status = "published" \/ (r.status = "archived" /\ r.origin = "published")

GoodRow(r) ==
  /\ r \in Row
  /\ Alive(r) => /\ r.draft \in Draft /\ r.responsible = r.draft.responsible
                 /\ r.version >= 1
  /\ r.status # "archived" => r.origin = "none"
  /\ r.status = "unborn" => r = NoRow
  /\ Pub(r) => r.snapshot \in Draft

\* A row with a client or with relational rows has the assignment of its responsible
\* user, if it names one, and no other.
Agrees(r, rows) ==
  Alive(r) /\ (r.client # NoClient \/ rows # NoLinks)
    => rows.users = {r.responsible} \ {Nobody}

RowsInv ==
  /\ scopes \in [Ids -> Row] /\ links \in [Ids -> Links]
  /\ \A i \in Ids : GoodRow(scopes[i]) /\ Agrees(scopes[i], links[i])

\* The versions of a scope are numbered from 2 to the version of its row; the
\* last one holds what is published.
VersionsInv ==
  /\ versions \in SUBSET Version
  /\ \A v \in versions : Alive(scopes[v.scope]) /\ v.number \in 2..scopes[v.scope].version
  /\ \A i \in Ids : Alive(scopes[i]) =>
       /\ \A n \in 2..scopes[i].version : \E v \in versions : v.scope = i /\ v.number = n
       /\ \A v \in versions :
            Pub(scopes[i]) /\ v.scope = i /\ v.number = scopes[i].version
              => v.snapshot = scopes[i].snapshot

\* The changes of an event that may be reversed start from rows that existed.
GoodChanges(changes) ==
  /\ \A c \in changes : GoodRow(c.before) /\ Alive(c.before)
  /\ \A c, d \in changes : c.scope = d.scope => c = d

\* A reversal starts from what the reversed event left, and takes it back.
TakesBack(evs, e, changes) ==
  /\ e \in 1..Len(evs)
  /\ \A c \in changes : \E d \in evs[e].changes :
       /\ d.scope = c.scope
       /\ SameState(c.before, d.after)
       /\ c.after.draft = d.before.draft /\ c.after.snapshot = d.before.snapshot

EventsInv ==
  /\ events \in Seq(Event)
  /\ \A e \in 1..Len(events) :
       /\ events[e].action \in Reversible => GoodChanges(events[e].changes)
       /\ events[e].action = "reversed" => TakesBack(events, events[e].reverses, events[e].changes)

LockInv ==
  /\ lock \in [Ids -> Workers \cup {Nobody}]
  /\ pc \in [Workers -> {"idle", "loaded", "previewed", "commit"}]
  /\ \A i \in Ids : lock[i] # Nobody => pc[lock[i]] = "commit"

Writes == [scope : Ids, loaded : Row, new : Row, links : Links, publishes : BOOLEAN]

\* What a bulk request loaded may be behind the row, but a version that is still
\* the last one is still what is published.
StaleInv(b, r) ==
  /\ GoodRow(b) /\ Alive(b)
  /\ r.status # "unborn"
  /\ Alive(r) =>
       /\ b.version <= r.version
       /\ Pub(b) /\ Pub(r) /\ b.version = r.version => b.snapshot = r.snapshot

LoadedInv(w) ==
  pc[w] = "loaded" =>
    /\ DOMAIN job[w].before \subseteq Ids
    /\ \A i \in DOMAIN job[w].before : StaleInv(job[w].before[i], scopes[i])

PreviewInv(w) ==
  pc[w] = "previewed" =>
    /\ job[w].reverses \in 1..Len(events)
    /\ events[job[w].reverses].action \in Reversible
    /\ job[w].changes \subseteq events[job[w].reverses].changes

\* The row as the commit of a write leaves it.
After(x) == Flush(scopes[x.scope], x.loaded, x.new)

\* A publication takes the next version, or one that is taken already.
PublicationInv(x) ==
  LET r == scopes[x.scope] n == After(x) IN
  /\ Alive(r) /\ Alive(n)
  /\ x.new.version \in 2..(r.version + 1) /\ n.version = x.new.version
  /\ x.new.snapshot \in Draft
  /\ x.new.version = r.version + 1 => n.snapshot = x.new.snapshot

\* Any other write keeps the version, and what is published with it.
EditInv(x) ==
  LET r == scopes[x.scope] n == After(x) IN
  Alive(n) => \/ r.status = "unborn" /\ n.version = 1 /\ n.status = "draft"
              \/ Alive(r) /\ n.version = r.version
                 /\ (Pub(n) => Pub(r) /\ n.snapshot = r.snapshot)

WriteInv(x) ==
  LET r == scopes[x.scope] n == After(x) IN
  /\ GoodRow(n) /\ Agrees(n, x.links) /\ n.status # "unborn"
  /\ r.status # "deleted"
  /\ IF x.publishes THEN PublicationInv(x) ELSE EditInv(x)
  /\ r.status = "archived" =>
       n = Reactivated(r) /\ x.links = links[x.scope] /\ ~x.publishes

CommitInv(w) ==
  /\ pc[w] # "commit" => job[w].writes = {}
  /\ job[w].writes \subseteq Writes
  /\ \A x \in job[w].writes :
       /\ lock[x.scope] = w \/ scopes[x.scope].status = "unborn"
       /\ WriteInv(x)
  /\ \A x, y \in job[w].writes : x.scope = y.scope => x = y
  /\ pc[w] = "commit" =>
       /\ job[w].kind \in Actions \cup {"sync"} /\ job[w].reverses \in 0..MaxEvents
       /\ job[w].changes \subseteq Change
       /\ job[w].kind \in Reversible => GoodChanges(job[w].changes)
       /\ job[w].kind = "reversed" => TakesBack(events, job[w].reverses, job[w].changes)

\* No two requests write one row.
ApartInv == \A v, w \in Workers : v # w =>
  \A x \in job[v].writes, y \in job[w].writes : x.scope # y.scope

JobInv == /\ DOMAIN job = Workers
          /\ \A w \in Workers : LoadedInv(w) /\ PreviewInv(w) /\ CommitInv(w)

IInv == /\ RowsInv /\ VersionsInv /\ EventsInv /\ LockInv /\ JobInv /\ ApartInv
        /\ OneScopePerClient

-----------------------------------------------------------------------------
(* Lemmas on the operators                                                 *)

\* The UPDATE writes each column from the committed row or from the request.
LEMMA FlushType ==
  ASSUME NEW row \in Row, NEW loaded \in Row, NEW new \in Row
  PROVE  Flush(row, loaded, new) \in Row
BY DEF Flush, Row

\* Planned from the committed row, the update leaves what was planned.
LEMMA FlushSame ==
  ASSUME NEW row \in Row, NEW new \in Row
  PROVE  Flush(row, row, new) = new
BY DEF Flush, Row

LEMMA NoRowGood == NoRow \in Row /\ GoodRow(NoRow) /\ ~Alive(NoRow)
BY DEF NoRow, Row, GoodRow, Alive, Pub, Status

LEMMA NoLinksType == NoLinks \in Links
BY DEF NoLinks, Links

LEMMA SynchronisedType ==
  ASSUME NEW d \in Draft
  PROVE  Synchronised(d) \in Links /\ Synchronised(d).users = {d.responsible} \ {Nobody}
BY DEF Synchronised, SyncAssignments, SyncServices, Links, Draft

\* The columns follow the draft; status, version and publication stay.
LEMMA AppliedGood ==
  ASSUME NEW r \in Row, GoodRow(r), NEW d \in Draft
  PROVE  LET n == Applied(r, d) IN
         /\ n \in Row
         /\ n.status = r.status /\ n.origin = r.origin /\ n.version = r.version
         /\ n.snapshot = r.snapshot /\ n.draft = d /\ n.responsible = d.responsible
         /\ Alive(r) => GoodRow(n)
BY DEF Applied, Linked, Row, Draft, GoodRow, Alive, Pub

LEMMA PublishedGood ==
  ASSUME NEW r, GoodRow(r), Writable(r), r.version + 1 <= MaxVersion
  PROVE  LET n == Published(r) IN
         /\ n \in Row /\ GoodRow(n) /\ Alive(n)
         /\ n.version = r.version + 1 /\ n.snapshot \in Draft
         /\ n.responsible = r.draft.responsible
<1> DEFINE a == Applied(r, r.draft)
           n == [a EXCEPT !.status = "published", !.snapshot = r.draft,
                          !.version = r.version + 1]
<1>1. /\ r \in Row /\ Alive(r) /\ r.status # "archived" /\ r.origin = "none"
      /\ r.draft \in Draft /\ r.version \in 1..MaxVersion
  BY DEF GoodRow, Writable, Row
<1>2. /\ a \in Row /\ a.origin = "none" /\ a.draft = r.draft
      /\ a.responsible = r.draft.responsible
  BY <1>1, AppliedGood
<1>3. r.version + 1 \in 0..MaxVersion
  BY <1>1
<1> HIDE DEF a
<1>4. n \in Row
  BY <1>1, <1>2, <1>3 DEF Row, Status
<1>5. /\ n.status = "published" /\ n.snapshot = r.draft /\ n.version = r.version + 1
      /\ n.origin = "none" /\ n.draft = r.draft /\ n.responsible = r.draft.responsible
  BY <1>2 DEF Row
<1> HIDE DEF n
<1>6. GoodRow(n) /\ Alive(n)
  BY <1>1, <1>4, <1>5 DEF GoodRow, Alive, Pub
<1>7. Published(r) = n
  BY DEF Published, a, n
<1> QED BY <1>1, <1>4, <1>5, <1>6, <1>7

LEMMA ReactivatedGood ==
  ASSUME NEW r, GoodRow(r), r.status = "archived"
  PROVE  LET n == Reactivated(r) IN
         /\ n \in Row /\ GoodRow(n) /\ Alive(n)
         /\ n.version = r.version /\ n.snapshot = r.snapshot
         /\ Pub(n) => Pub(r)
         /\ n.responsible = r.responsible /\ n.client = r.client
BY DEF Reactivated, Row, Draft, GoodRow, Alive, Writable, Pub, Status

-----------------------------------------------------------------------------
(* A request plans its writes                                              *)

LEMMA ReversalStable ==
  ASSUME NEW e, NEW changes, EventsInv, TakesBack(events, e, changes),
         events' = events \/ \E ev \in Event : events' = Append(events, ev)
  PROVE  TakesBack(events', e, changes)
<1>1. /\ events \in Seq(Event) /\ e \in 1..Len(events) /\ Len(events) \in Nat
  BY DEF EventsInv, TakesBack
<1>2. events'[e] = events[e] /\ e \in 1..Len(events')
  BY <1>1, AppendProperties
<1> QED BY <1>2 DEF TakesBack

\* What a plan must establish: a write per row, under the lock of the row or for a
\* row that nobody else writes.
LEMMA PlanStep ==
  ASSUME IInv, NEW w \in Workers, NEW k, NEW S \in SUBSET Ids, NEW writes,
         NEW reverses, NEW changes,
         Plan(w, k, S, writes, reverses, changes),
         pc[w] # "commit",
         k \in Actions \cup {"sync"}, writes \subseteq Writes, reverses \in 0..MaxEvents,
         changes \subseteq Change,
         k \in Reversible => GoodChanges(changes),
         k = "reversed" => TakesBack(events, reverses, changes),
         \A i \in S : lock[i] = Nobody /\ scopes[i].status # "unborn",
         \A x \in writes :
           /\ WriteInv(x)
           /\ \/ x.scope \in S
              \/ /\ scopes[x.scope].status = "unborn"
                 /\ \A v \in Workers : \A y \in job[v].writes : y.scope # x.scope,
         \A x, y \in writes : x.scope = y.scope => x = y
  PROVE  IInv'
<1> DEFINE new == [NoJob EXCEPT !.kind = k, !.writes = writes,
                                !.reverses = reverses, !.changes = changes]
<1>1. /\ UNCHANGED committed
      /\ pc' = [pc EXCEPT ![w] = "commit"]
      /\ job' = [job EXCEPT ![w] = new]
      /\ lock' = [i \in Ids |-> IF i \in S THEN w ELSE lock[i]]
  BY DEF Plan
<1>2. /\ new.kind = k /\ new.writes = writes /\ new.reverses = reverses
      /\ new.changes = changes
  BY DEF NoJob
<1> HIDE DEF new
<1>3. UNCHANGED <<scopes, links, versions, events>>
  BY <1>1 DEF committed
<1>4. DOMAIN job = Workers /\ LockInv
  BY DEF IInv, JobInv
<1>5. /\ DOMAIN job' = Workers /\ job'[w] = new /\ pc'[w] = "commit"
      /\ \A v \in Workers : v # w => job'[v] = job[v] /\ pc'[v] = pc[v]
  BY <1>1, <1>4 DEF LockInv
<1>6. RowsInv' /\ VersionsInv' /\ EventsInv' /\ OneScopePerClient'
  BY <1>3 DEF IInv, RowsInv, VersionsInv, EventsInv, OneScopePerClient, TakesBack
<1>7. LockInv'
  BY <1>1, <1>4, <1>5 DEF LockInv
<1>8. ASSUME NEW x PROVE WriteInv(x) => WriteInv(x)'
  BY <1>3 DEF WriteInv, After, PublicationInv, EditInv
<1>9. LoadedInv(w)' /\ PreviewInv(w)'
  BY <1>5 DEF LoadedInv, PreviewInv
<1>10. CommitInv(w)'
  <2>1. \A x \in writes : /\ lock'[x.scope] = w \/ scopes'[x.scope].status = "unborn"
                          /\ WriteInv(x)'
    BY <1>1, <1>3, <1>8
  <2>2. k = "reversed" => TakesBack(events, reverses, changes)'
    BY <1>3 DEF TakesBack
  <2> QED BY <1>2, <1>5, <2>1, <2>2 DEF CommitInv
<1>11. ASSUME NEW v \in Workers, v # w PROVE LoadedInv(v)' /\ PreviewInv(v)' /\ CommitInv(v)'
  <2>1. LoadedInv(v) /\ PreviewInv(v) /\ CommitInv(v)
    BY DEF IInv, JobInv
  <2>2. job'[v] = job[v] /\ pc'[v] = pc[v]
    BY <1>5, <1>11
  <2>3. LoadedInv(v)' /\ PreviewInv(v)'
    BY <2>1, <2>2, <1>3 DEF LoadedInv, PreviewInv, StaleInv
  <2>4. \A x \in job[v].writes : /\ lock'[x.scope] = v \/ scopes'[x.scope].status = "unborn"
                                 /\ WriteInv(x)'
    <3> TAKE x \in job[v].writes
    <3>1. x.scope \in Ids /\ WriteInv(x) /\ (lock[x.scope] = v \/ scopes[x.scope].status = "unborn")
      BY <2>1 DEF CommitInv, Writes
    <3>2. lock[x.scope] = v => lock'[x.scope] = v
      BY <1>1, <3>1
    <3> QED BY <3>1, <3>2, <1>3, <1>8
  <2>5. (pc[v] = "commit" /\ job[v].kind = "reversed"
           => TakesBack(events, job[v].reverses, job[v].changes))'
    BY <2>1, <2>2, <1>3 DEF CommitInv, TakesBack
  <2>6. CommitInv(v)'
    BY <2>1, <2>2, <2>4, <2>5 DEF CommitInv
  <2> QED BY <2>3, <2>6
<1>12. ApartInv'
  <2>1. ASSUME NEW v \in Workers, v # w, NEW x \in writes, NEW y \in job[v].writes
        PROVE  x.scope # y.scope
    <3>1. lock[y.scope] = v \/ scopes[y.scope].status = "unborn"
      BY DEF IInv, JobInv, CommitInv
    <3> QED BY <3>1
  <2> QED BY <1>2, <1>5, <2>1 DEF IInv, ApartInv
<1> QED BY <1>5, <1>6, <1>7, <1>9, <1>10, <1>11, <1>12 DEF IInv, JobInv

\* A write planned from the committed row does to it what was planned.
LEMMA FreshWrite ==
  ASSUME NEW i \in Ids, scopes[i] \in Row, NEW new \in Row, NEW rows \in Links,
         NEW p \in BOOLEAN, NEW x, x = Write(i, scopes[i], new, rows, p)
  PROVE  /\ x \in Writes /\ After(x) = new
         /\ x.scope = i /\ x.new = new /\ x.links = rows /\ x.publishes = p
<1>1. x \in Writes
  BY DEF Write, Writes
<1>2. /\ x.scope = i /\ x.loaded = scopes[i] /\ x.new = new /\ x.links = rows
      /\ x.publishes = p
  BY DEF Write
<1>3. After(x) = new
  BY <1>2, FlushSame DEF After
<1> QED BY <1>1, <1>2, <1>3

\* An edit of the committed row: version and publication stay as they are.
LEMMA EditWrite ==
  ASSUME NEW i \in Ids, scopes[i] \in Row, Alive(scopes[i]), scopes[i].status # "archived",
         NEW new \in Row, GoodRow(new), NEW rows \in Links, Agrees(new, rows),
         new.status # "unborn",
         Alive(new) => /\ new.version = scopes[i].version
                       /\ Pub(new) => Pub(scopes[i]) /\ new.snapshot = scopes[i].snapshot
  PROVE  WriteInv(Write(i, scopes[i], new, rows, FALSE))
<1> DEFINE x == Write(i, scopes[i], new, rows, FALSE)
<1>1. PICK p \in BOOLEAN : p = FALSE
  OBVIOUS
<1>2. x = Write(i, scopes[i], new, rows, p)
  BY <1>1
<1> HIDE DEF x
<1>3. After(x) = new /\ x.scope = i /\ x.links = rows /\ x.publishes = FALSE
  BY <1>1, <1>2, FreshWrite
<1>4. WriteInv(x)
  BY <1>3 DEF WriteInv, EditInv, Alive
<1> QED BY <1>4 DEF x

\* A publication of the committed row: the next version.
LEMMA PublicationWrite ==
  ASSUME NEW i \in Ids, GoodRow(scopes[i]), Alive(scopes[i]), scopes[i].status # "archived",
         NEW new \in Row, GoodRow(new), Alive(new), NEW rows \in Links, Agrees(new, rows),
         new.version = scopes[i].version + 1, new.snapshot \in Draft
  PROVE  WriteInv(Write(i, scopes[i], new, rows, TRUE))
<1> DEFINE x == Write(i, scopes[i], new, rows, TRUE)
<1>1. PICK p \in BOOLEAN : p = TRUE
  OBVIOUS
<1>2. x = Write(i, scopes[i], new, rows, p)
  BY <1>1
<1> HIDE DEF x
<1>3. scopes[i] \in Row
  BY DEF GoodRow
<1>4. /\ After(x) = new /\ x.scope = i /\ x.links = rows /\ x.publishes = p
      /\ x.new = new
  BY <1>2, <1>3, FreshWrite
<1>5. scopes[i].version \in Nat /\ scopes[i].version >= 1
  BY DEF GoodRow, Row
<1>6. PublicationInv(x)
  BY <1>4, <1>5 DEF PublicationInv
<1>7. WriteInv(x)
  BY <1>1, <1>4, <1>6 DEF WriteInv, Alive
<1> QED BY <1>7 DEF x

\* A request that writes one row.
LEMMA PlanOneStep ==
  ASSUME IInv, NEW w \in Workers, NEW k \in Actions \ {"reversed", "bulk_updated"},
         NEW i \in Ids, NEW new \in Row, NEW rows \in Links, NEW p \in BOOLEAN,
         PlanOne(w, k, i, new, rows, p), pc[w] = "idle",
         lock[i] = Nobody, Alive(scopes[i]),
         WriteInv(Write(i, scopes[i], new, rows, p))
  PROVE  IInv'
<1> DEFINE x == Write(i, scopes[i], new, rows, p)
           c == [scope |-> i, before |-> scopes[i], after |-> new]
<1>1. Plan(w, k, {i}, {x}, 0, {c})
  BY DEF PlanOne, Changed
<1>2. GoodRow(scopes[i]) /\ scopes[i] \in Row
  BY DEF IInv, RowsInv
<1>3. {x} \subseteq Writes /\ x.scope = i
  BY <1>2, FreshWrite
<1>4. {c} \subseteq Change
  BY <1>2 DEF Change
<1>5. GoodChanges({c})
  BY <1>2 DEF GoodChanges
<1>6. scopes[i].status # "unborn"
  BY DEF Alive
<1>7. k # "reversed" /\ k \in Actions \cup {"sync"} /\ 0 \in 0..MaxEvents
  OBVIOUS
<1>8. WriteInv(x)
  OBVIOUS
<1> HIDE DEF x, c
<1> QED BY <1>1, <1>3, <1>4, <1>5, <1>6, <1>7, <1>8, PlanStep

LEMMA UpdateStep ==
  ASSUME IInv, NEW w \in Workers, Update(w)
  PROVE  IInv'
<1>1. PICK i \in Ids, d \in Draft :
        /\ Free({i}) /\ Writable(scopes[i])
        /\ PlanOne(w, "updated", i, Applied(scopes[i], d), Synchronised(d), FALSE)
  BY InputsAssumption DEF Update
<1>2. pc[w] = "idle"
  BY DEF Update, Idle
<1>3. /\ scopes[i] \in Row /\ GoodRow(scopes[i]) /\ Alive(scopes[i])
      /\ scopes[i].status # "archived" /\ lock[i] = Nobody
  BY <1>1 DEF IInv, RowsInv, Writable, Free
<1> DEFINE new == Applied(scopes[i], d)
<1>4. /\ new \in Row /\ GoodRow(new)
      /\ new.status = scopes[i].status /\ new.origin = scopes[i].origin
      /\ new.version = scopes[i].version /\ new.snapshot = scopes[i].snapshot
      /\ new.responsible = d.responsible
  BY <1>3, AppliedGood
<1>5. Synchronised(d) \in Links /\ Agrees(new, Synchronised(d))
  BY <1>4, SynchronisedType DEF Agrees
<1> HIDE DEF new
<1>6. WriteInv(Write(i, scopes[i], new, Synchronised(d), FALSE))
  BY <1>3, <1>4, <1>5, EditWrite DEF Alive, Pub
<1> QED BY <1>1, <1>2, <1>3, <1>4, <1>5, <1>6, PlanOneStep DEF new, Actions

LEMMA PublishStep ==
  ASSUME IInv, NEW w \in Workers, Publish(w)
  PROVE  IInv'
<1>1. PICK i \in Ids :
        /\ Free({i}) /\ Writable(scopes[i])
        /\ PlanOne(w, "published", i, Published(scopes[i]),
                   Synchronised(scopes[i].draft), TRUE)
  BY DEF Publish
<1>2. pc[w] = "idle"
  BY DEF Publish, Idle
<1>3. /\ scopes[i] \in Row /\ GoodRow(scopes[i]) /\ Alive(scopes[i])
      /\ scopes[i].status # "archived" /\ lock[i] = Nobody /\ scopes[i].draft \in Draft
  BY <1>1 DEF IInv, RowsInv, Writable, Free, GoodRow
<1> DEFINE new == Published(scopes[i])
           rows == Synchronised(scopes[i].draft)
<1>4. new.version <= MaxVersion
  BY <1>1 DEF PlanOne, Plan, Write
<1>5. scopes[i].version + 1 <= MaxVersion
  BY <1>3, <1>4 DEF Published, Applied, Row
<1>6. /\ new \in Row /\ GoodRow(new) /\ Alive(new)
      /\ new.version = scopes[i].version + 1 /\ new.snapshot \in Draft
      /\ new.responsible = scopes[i].draft.responsible
  BY <1>1, <1>3, <1>5, PublishedGood
<1>7. rows \in Links /\ Agrees(new, rows)
  BY <1>3, <1>6, SynchronisedType DEF Agrees
<1> HIDE DEF new, rows
<1>8. WriteInv(Write(i, scopes[i], new, rows, TRUE))
  BY <1>3, <1>6, <1>7, PublicationWrite
<1> QED BY <1>1, <1>2, <1>3, <1>6, <1>7, <1>8, PlanOneStep DEF new, rows, Actions

LEMMA DeleteStep ==
  ASSUME IInv, NEW w \in Workers, Delete(w)
  PROVE  IInv'
<1> DEFINE new == [NoRow EXCEPT !.status = "deleted"]
<1>1. PICK i \in Ids :
        /\ Free({i}) /\ Writable(scopes[i])
        /\ PlanOne(w, "deleted", i, new, NoLinks, FALSE)
  BY DEF Delete
<1>2. pc[w] = "idle"
  BY DEF Delete, Idle
<1>3. /\ scopes[i] \in Row /\ Alive(scopes[i])
      /\ scopes[i].status # "archived" /\ lock[i] = Nobody
  BY <1>1 DEF IInv, RowsInv, Writable, Free
<1>4. new \in Row /\ GoodRow(new) /\ ~Alive(new) /\ new.status # "unborn"
  BY DEF NoRow, Row, Status, GoodRow, Alive, Pub
<1> HIDE DEF new
<1>5. WriteInv(Write(i, scopes[i], new, NoLinks, FALSE))
  BY <1>3, <1>4, EditWrite, NoLinksType DEF Agrees
<1> QED BY <1>1, <1>2, <1>3, <1>4, <1>5, NoLinksType, PlanOneStep DEF Actions

LEMMA DeactivateStep ==
  ASSUME IInv, NEW w \in Workers, Deactivate(w)
  PROVE  IInv'
<1>1. PICK i \in Ids :
        /\ Free({i}) /\ Writable(scopes[i])
        /\ PlanOne(w, "deactivated", i,
                   [scopes[i] EXCEPT !.status = "archived", !.origin = scopes[i].status],
                   links[i], FALSE)
  BY DEF Deactivate
<1>2. pc[w] = "idle"
  BY DEF Deactivate, Idle
<1>3. /\ scopes[i] \in Row /\ GoodRow(scopes[i]) /\ Alive(scopes[i])
      /\ scopes[i].status # "archived" /\ lock[i] = Nobody
      /\ links[i] \in Links /\ Agrees(scopes[i], links[i])
  BY <1>1 DEF IInv, RowsInv, Writable, Free
<1> DEFINE new == [scopes[i] EXCEPT !.status = "archived", !.origin = scopes[i].status]
<1>4. scopes[i].status \in {"draft", "published"}
  BY <1>3 DEF Alive, Row, Status
<1>5. /\ new \in Row
      /\ new.status = "archived" /\ new.origin = scopes[i].status
      /\ new.draft = scopes[i].draft /\ new.snapshot = scopes[i].snapshot
      /\ new.version = scopes[i].version /\ new.responsible = scopes[i].responsible
      /\ new.client = scopes[i].client
  BY <1>3, <1>4 DEF Row, Status
<1> HIDE DEF new
<1>6. GoodRow(new) /\ Agrees(new, links[i])
  BY <1>3, <1>5 DEF GoodRow, Alive, Pub, Agrees
<1>7. WriteInv(Write(i, scopes[i], new, links[i], FALSE))
  BY <1>3, <1>5, <1>6, EditWrite DEF Pub
<1> QED BY <1>1, <1>2, <1>3, <1>5, <1>7, PlanOneStep DEF new, Actions

LEMMA ReactivateStep ==
  ASSUME IInv, NEW w \in Workers, Reactivate(w)
  PROVE  IInv'
<1>1. PICK i \in Ids :
        /\ Free({i}) /\ scopes[i].status = "archived"
        /\ PlanOne(w, "reactivated", i, Reactivated(scopes[i]), links[i], FALSE)
  BY DEF Reactivate
<1>2. pc[w] = "idle"
  BY DEF Reactivate, Idle
<1>3. /\ scopes[i] \in Row /\ GoodRow(scopes[i]) /\ Alive(scopes[i]) /\ lock[i] = Nobody
      /\ links[i] \in Links /\ Agrees(scopes[i], links[i])
  BY <1>1 DEF IInv, RowsInv, Alive, Free
<1> DEFINE new == Reactivated(scopes[i])
           x == Write(i, scopes[i], new, links[i], FALSE)
<1>4. /\ new \in Row /\ GoodRow(new) /\ Alive(new)
      /\ new.version = scopes[i].version /\ new.snapshot = scopes[i].snapshot
      /\ Pub(new) => Pub(scopes[i])
      /\ new.responsible = scopes[i].responsible /\ new.client = scopes[i].client
  BY <1>1, <1>3, ReactivatedGood
<1> HIDE DEF new
<1>5. Agrees(new, links[i])
  BY <1>3, <1>4 DEF Agrees
<1>6. PICK p \in BOOLEAN : p = FALSE
  OBVIOUS
<1>7. x = Write(i, scopes[i], new, links[i], p)
  BY <1>6
<1> HIDE DEF x
<1>8. After(x) = new /\ x.scope = i /\ x.links = links[i] /\ x.publishes = FALSE
  BY <1>6, <1>7, <1>3, <1>4, FreshWrite
<1>9. WriteInv(x)
  BY <1>1, <1>3, <1>4, <1>5, <1>8 DEF WriteInv, EditInv, Alive, new
<1>10. WriteInv(Write(i, scopes[i], new, links[i], FALSE))
  BY <1>9 DEF x
<1> QED BY <1>1, <1>2, <1>3, <1>4, <1>10, PlanOneStep DEF new, Actions

\* A new row: until the commit nobody else knows it.
LEMMA CreateStep ==
  ASSUME IInv, NEW w \in Workers, Create(w)
  PROVE  IInv'
<1> DEFINE row(d) == [Applied(NoRow, d) EXCEPT !.status = "draft", !.version = 1]
<1>1. PICK i \in Ids, d \in Draft :
        /\ scopes[i].status = "unborn"
        /\ \A v \in Workers : \A x \in job[v].writes : x.scope # i
        /\ Plan(w, "created", {}, {Write(i, NoRow, row(d), Synchronised(d), FALSE)},
                0, Changed(i, row(d)))
  BY InputsAssumption DEF Create
<1> DEFINE new == row(d)
           x == Write(i, NoRow, new, Synchronised(d), FALSE)
           c == [scope |-> i, before |-> scopes[i], after |-> new]
<1>2. pc[w] = "idle"
  BY DEF Create, Idle
<1>3. GoodRow(scopes[i]) /\ scopes[i] = NoRow /\ scopes[i] \in Row
  BY <1>1 DEF IInv, RowsInv, GoodRow
<1>4. Applied(NoRow, d) \in Row /\ Applied(NoRow, d).draft = d
      /\ Applied(NoRow, d).responsible = d.responsible /\ Applied(NoRow, d).origin = "none"
  BY NoRowGood, AppliedGood DEF NoRow
<1>5. /\ new \in Row /\ new.status = "draft" /\ new.version = 1 /\ new.origin = "none"
      /\ new.draft = d /\ new.responsible = d.responsible
  <2> DEFINE a == Applied(NoRow, d)
  <2>1. new = [a EXCEPT !.status = "draft", !.version = 1]
    OBVIOUS
  <2>2. 1 \in 0..MaxVersion /\ "draft" \in Status
    BY DEF Status
  <2>3. a \in Row /\ a.draft = d /\ a.responsible = d.responsible /\ a.origin = "none"
    BY <1>4
  <2> HIDE DEF a, new
  <2> QED BY <2>1, <2>2, <2>3 DEF Row
<1>6. Synchronised(d) \in Links /\ Synchronised(d).users = {d.responsible} \ {Nobody}
  BY SynchronisedType
<1>7. Plan(w, "created", {}, {x}, 0, {c})
  BY <1>1 DEF Changed
<1>8. PICK p \in BOOLEAN : p = FALSE
  OBVIOUS
<1>9. x = Write(i, scopes[i], new, Synchronised(d), p)
  BY <1>3, <1>8
<1>10. {c} \subseteq Change
  BY <1>3, <1>5 DEF Change
<1> HIDE DEF new, x, c
<1>11. /\ x \in Writes /\ After(x) = new /\ x.scope = i
      /\ x.links = Synchronised(d) /\ x.publishes = p
  BY <1>3, <1>5, <1>6, <1>9, FreshWrite
<1>12. GoodRow(new) /\ Agrees(new, Synchronised(d))
  BY <1>5, <1>6 DEF GoodRow, Alive, Pub, Agrees
<1>13. WriteInv(x)
  BY <1>1, <1>5, <1>11, <1>12, <1>8 DEF WriteInv, EditInv
<1> QED BY <1>1, <1>2, <1>7, <1>10, <1>11, <1>13, PlanStep DEF Actions, Reversible

LEMMA SyncStep ==
  ASSUME IInv, NEW w \in Workers, Sync(w)
  PROVE  IInv'
<1> DEFINE stale(S) == {i \in S : ~Synced(i)}
           d(i) == scopes[i].draft
           x(i) == Write(i, scopes[i], Applied(scopes[i], d(i)), Synchronised(d(i)), FALSE)
<1>1. PICK S \in SUBSET {i \in Ids : Writable(scopes[i])} :
        /\ Free(S)
        /\ Plan(w, "sync", S, {x(i) : i \in stale(S)}, 0, {})
  BY DEF Sync
<1>2. pc[w] = "idle"
  BY DEF Sync, Idle
<1>3. ASSUME NEW i \in S
      PROVE  x(i) \in Writes /\ x(i).scope = i /\ WriteInv(x(i))
  <2>1. /\ i \in Ids /\ scopes[i] \in Row /\ GoodRow(scopes[i]) /\ Alive(scopes[i])
        /\ scopes[i].status # "archived" /\ d(i) \in Draft
    BY <1>1 DEF IInv, RowsInv, Writable, GoodRow
  <2> DEFINE new == Applied(scopes[i], d(i))
  <2>2. /\ new \in Row /\ GoodRow(new)
        /\ new.status = scopes[i].status /\ new.origin = scopes[i].origin
        /\ new.version = scopes[i].version /\ new.snapshot = scopes[i].snapshot
        /\ new.responsible = d(i).responsible
    BY <2>1, AppliedGood
  <2>3. Synchronised(d(i)) \in Links /\ Agrees(new, Synchronised(d(i)))
    BY <2>1, <2>2, SynchronisedType DEF Agrees
  <2>4. new.status # "unborn"
    BY <2>1, <2>2 DEF Alive
  <2> HIDE DEF new
  <2>5. WriteInv(Write(i, scopes[i], new, Synchronised(d(i)), FALSE))
    BY <2>1, <2>2, <2>3, <2>4, EditWrite DEF Pub
  <2>6. Write(i, scopes[i], new, Synchronised(d(i)), FALSE) \in Writes
    BY <2>1, <2>2, <2>3 DEF Write, Writes
  <2>7. x(i).scope = i
    BY DEF Write
  <2> QED BY <2>5, <2>6, <2>7 DEF new
<1> HIDE DEF x
<1>4. \A i \in S : lock[i] = Nobody /\ scopes[i].status # "unborn"
  BY <1>1 DEF Free, Writable, Alive
<1>5. 0 \in 0..MaxEvents
  OBVIOUS
<1> DEFINE writes == {x(i) : i \in stale(S)}
<1>6. writes \subseteq Writes
  BY <1>3
<1>7. \A y \in writes : WriteInv(y) /\ y.scope \in S
  BY <1>3
<1>8. \A y, z \in writes : y.scope = z.scope => y = z
  BY <1>3
<1>9. Plan(w, "sync", S, writes, 0, {})
  BY <1>1
<1> HIDE DEF writes
<1> QED BY <1>2, <1>4, <1>5, <1>6, <1>7, <1>8, <1>9, PlanStep DEF Reversible

-----------------------------------------------------------------------------
(* Loading, previewing and closing leave what is committed alone           *)

LEMMA JobStep ==
  ASSUME IInv, NEW w \in Workers, UNCHANGED committed,
         DOMAIN job' = Workers, job'[w].writes = {},
         \A v \in Workers : v # w => job'[v] = job[v] /\ pc'[v] = pc[v],
         pc' \in [Workers -> {"idle", "loaded", "previewed", "commit"}],
         pc'[w] # "commit",
         lock' \in [Ids -> Workers \cup {Nobody}],
         \A i \in Ids : /\ lock'[i] # w
                        /\ lock'[i] # Nobody => lock'[i] = lock[i]
                        /\ lock[i] # w => lock'[i] = lock[i],
         LoadedInv(w)', PreviewInv(w)'
  PROVE  IInv'
<1>1. UNCHANGED <<scopes, links, versions, events>>
  BY DEF committed
<1>2. RowsInv' /\ VersionsInv' /\ EventsInv' /\ OneScopePerClient'
  BY <1>1 DEF IInv, RowsInv, VersionsInv, EventsInv, OneScopePerClient, TakesBack
<1>3. LockInv'
  <2>1. ASSUME NEW i \in Ids, lock'[i] # Nobody PROVE pc'[lock'[i]] = "commit"
    BY <2>1 DEF IInv, LockInv
  <2> QED BY <2>1 DEF LockInv
<1>4. CommitInv(w)'
  BY DEF CommitInv
<1>5. ASSUME NEW v \in Workers, v # w PROVE LoadedInv(v)' /\ PreviewInv(v)' /\ CommitInv(v)'
  <2>1. LoadedInv(v) /\ PreviewInv(v) /\ CommitInv(v)
    BY DEF IInv, JobInv
  <2>2. job'[v] = job[v] /\ pc'[v] = pc[v]
    BY <1>5
  <2>3. LoadedInv(v)' /\ PreviewInv(v)'
    BY <2>1, <2>2, <1>1 DEF LoadedInv, PreviewInv, StaleInv
  <2>4. \A x \in job[v].writes : /\ lock'[x.scope] = v \/ scopes'[x.scope].status = "unborn"
                                 /\ WriteInv(x)'
    <3> TAKE x \in job[v].writes
    <3>1. x.scope \in Ids /\ WriteInv(x) /\ (lock[x.scope] = v \/ scopes[x.scope].status = "unborn")
      BY <2>1 DEF CommitInv, Writes
    <3>2. lock[x.scope] = v => lock'[x.scope] = v
      BY <1>5, <3>1
    <3>3. WriteInv(x)'
      BY <1>1, <3>1 DEF WriteInv, After, PublicationInv, EditInv
    <3> QED BY <3>1, <3>2, <3>3, <1>1
  <2>5. (pc[v] = "commit" /\ job[v].kind = "reversed"
           => TakesBack(events, job[v].reverses, job[v].changes))'
    BY <2>1, <2>2, <1>1 DEF CommitInv, TakesBack
  <2>6. CommitInv(v)'
    BY <2>1, <2>2, <2>4, <2>5 DEF CommitInv
  <2> QED BY <2>3, <2>6
<1>6. ApartInv'
  BY DEF IInv, ApartInv
<1> QED BY <1>2, <1>3, <1>4, <1>5, <1>6 DEF IInv, JobInv

\* What a bulk request loads are the committed rows.
LEMMA LoadStep ==
  ASSUME IInv, NEW w \in Workers, NEW k, Snapshots(w, k)
  PROVE  IInv'
<1>0. PICK S \in SUBSET {i \in Ids : Alive(scopes[i])} :
        /\ pc' = [pc EXCEPT ![w] = "loaded"]
        /\ job' = [job EXCEPT ![w] = [NoJob EXCEPT !.kind = k,
                                        !.before = [i \in S |-> scopes[i]]]]
  BY DEF Snapshots
<1> DEFINE b == [i \in S |-> scopes[i]]
           new == [NoJob EXCEPT !.kind = k, !.before = b]
<1>1. /\ pc[w] = "idle" /\ S \subseteq Ids /\ \A i \in S : Alive(scopes[i])
      /\ pc' = [pc EXCEPT ![w] = "loaded"]
      /\ job' = [job EXCEPT ![w] = new]
      /\ UNCHANGED committed /\ lock' = lock
  BY <1>0 DEF Snapshots, Idle
<1>2. new.kind = k /\ new.before = b /\ new.writes = {}
  BY DEF NoJob
<1> HIDE DEF new
<1>3. DOMAIN job = Workers /\ LockInv
  BY DEF IInv, JobInv
<1>4. /\ DOMAIN job' = Workers /\ job'[w] = new /\ pc'[w] = "loaded"
      /\ \A v \in Workers : v # w => job'[v] = job[v] /\ pc'[v] = pc[v]
      /\ pc' \in [Workers -> {"idle", "loaded", "previewed", "commit"}]
  BY <1>1, <1>3 DEF LockInv
<1>5. lock' \in [Ids -> Workers \cup {Nobody}] /\ \A i \in Ids : lock'[i] # w
  BY <1>1, <1>3 DEF LockInv
<1>6. LoadedInv(w)'
  <2>1. ASSUME NEW i \in S PROVE StaleInv(b[i], scopes'[i])
    <3>1. scopes'[i] = scopes[i] /\ b[i] = scopes[i]
      BY <1>1 DEF committed
    <3>2. GoodRow(scopes[i]) /\ Alive(scopes[i]) /\ scopes[i].version \in Nat
      BY <1>1 DEF IInv, RowsInv, Row
    <3>3. StaleInv(scopes[i], scopes[i])
      BY <3>2 DEF StaleInv, Alive
    <3> QED BY <3>1, <3>3 DEF StaleInv
  <2>2. DOMAIN b = S
    OBVIOUS
  <2>3. b' = b
    BY <1>1 DEF committed
  <2> HIDE DEF b
  <2>4. \A i \in DOMAIN job'[w].before : StaleInv(b[i], scopes'[i])
    BY <2>1, <2>2, <2>3, <1>2, <1>4
  <2> QED BY <2>2, <2>4, <1>1, <1>2, <1>4 DEF LoadedInv
<1>7. PreviewInv(w)'
  BY <1>4 DEF PreviewInv
<1> QED BY <1>1, <1>2, <1>4, <1>5, <1>6, <1>7, JobStep

LEMMA PreviewStep ==
  ASSUME IInv, NEW w \in Workers, Preview(w)
  PROVE  IInv'
<1>1. PICK e \in 1..Len(events) :
        /\ events[e].action \in Reversible
        /\ pc' = [pc EXCEPT ![w] = "previewed"]
        /\ job' = [job EXCEPT ![w] = [NoJob EXCEPT !.kind = "reversed",
                     !.reverses = e, !.changes = Eligible(e)]]
  BY DEF Preview
<1> DEFINE new == [NoJob EXCEPT !.kind = "reversed", !.reverses = e, !.changes = Eligible(e)]
<1>2. /\ new.reverses = e /\ new.changes = Eligible(e) /\ new.writes = {}
  BY DEF NoJob
<1>3. job' = [job EXCEPT ![w] = new]
  BY <1>1
<1> HIDE DEF new
<1>4. /\ pc[w] = "idle" /\ UNCHANGED committed /\ lock' = lock
      /\ DOMAIN job = Workers /\ LockInv
  BY DEF Preview, Idle, IInv, JobInv
<1>5. /\ DOMAIN job' = Workers /\ job'[w] = new /\ pc'[w] = "previewed"
      /\ \A v \in Workers : v # w => job'[v] = job[v] /\ pc'[v] = pc[v]
      /\ pc' \in [Workers -> {"idle", "loaded", "previewed", "commit"}]
  BY <1>1, <1>3, <1>4 DEF LockInv
<1>6. lock' \in [Ids -> Workers \cup {Nobody}] /\ \A i \in Ids : lock'[i] # w
  BY <1>4 DEF LockInv
<1>7. PreviewInv(w)' /\ LoadedInv(w)'
  <2>1. Eligible(e) \subseteq events[e].changes
    BY DEF Eligible
  <2>2. events' = events
    BY <1>4 DEF committed
  <2> QED BY <1>1, <1>2, <1>5, <2>1, <2>2 DEF PreviewInv, LoadedInv
<1> QED BY <1>2, <1>4, <1>5, <1>6, <1>7, JobStep

LEMMA AbortStep ==
  ASSUME IInv, NEW w \in Workers, Abort(w)
  PROVE  IInv'
<1>1. /\ UNCHANGED committed
      /\ pc' = [pc EXCEPT ![w] = "idle"]
      /\ job' = [job EXCEPT ![w] = NoJob]
      /\ lock' = [i \in Ids |-> IF lock[i] = w THEN Nobody ELSE lock[i]]
  BY DEF Abort, Close
<1>2. DOMAIN job = Workers /\ LockInv /\ NoJob.writes = {}
  BY DEF IInv, JobInv, NoJob
<1>3. /\ DOMAIN job' = Workers /\ job'[w] = NoJob /\ pc'[w] = "idle"
      /\ \A v \in Workers : v # w => job'[v] = job[v] /\ pc'[v] = pc[v]
      /\ pc' \in [Workers -> {"idle", "loaded", "previewed", "commit"}]
  BY <1>1, <1>2 DEF LockInv
<1>4. /\ lock' \in [Ids -> Workers \cup {Nobody}]
      /\ \A i \in Ids : /\ lock'[i] # w
                        /\ lock'[i] # Nobody => lock'[i] = lock[i]
                        /\ lock[i] # w => lock'[i] = lock[i]
  BY <1>1, <1>2 DEF LockInv
<1>5. LoadedInv(w)' /\ PreviewInv(w)'
  BY <1>3 DEF LoadedInv, PreviewInv
<1> QED BY <1>1, <1>2, <1>3, <1>4, <1>5, JobStep

-----------------------------------------------------------------------------
(* The bulk operations                                                     *)

\* The changes of a bulk operation, from its snapshots to its writes.
LEMMA BulkChangesGood ==
  ASSUME IInv, NEW w \in Workers, pc[w] = "loaded", NEW writes \in SUBSET Writes,
         \A x \in writes : x.scope \in DOMAIN job[w].before,
         \A x, y \in writes : x.scope = y.scope => x = y
  PROVE  BulkChanges(w, writes) \subseteq Change /\ GoodChanges(BulkChanges(w, writes))
<1> DEFINE c(x) == [scope |-> x.scope, before |-> job[w].before[x.scope], after |-> x.new]
<1>1. BulkChanges(w, writes) = {c(x) : x \in writes}
  BY DEF BulkChanges
<1>2. ASSUME NEW x \in writes
      PROVE  /\ c(x) \in Change /\ c(x).scope = x.scope
             /\ GoodRow(c(x).before) /\ Alive(c(x).before)
  <2>1. GoodRow(job[w].before[x.scope]) /\ Alive(job[w].before[x.scope])
    BY DEF IInv, JobInv, LoadedInv, StaleInv
  <2>2. job[w].before[x.scope] \in Row /\ x.new \in Row /\ x.scope \in Ids
    BY <2>1 DEF GoodRow, Writes
  <2> QED BY <2>1, <2>2 DEF Change
<1> HIDE DEF c
<1> QED BY <1>1, <1>2 DEF GoodChanges

LEMMA BulkMoveStep ==
  ASSUME IInv, NEW w \in Workers, BulkMove(w)
  PROVE  IInv'
<1> DEFINE S == {i \in DOMAIN job[w].before : Writable(scopes[i])}
           rows(i, from, u) == [links[i] EXCEPT !.users = MovedUsers(@, from, u)]
           moved(i, from, u) == Write(i, scopes[i], BulkMoved(scopes[i], u), rows(i, from, u), FALSE)
<1>0. PICK from \in Users, u \in Users :
        /\ from # u /\ Free(S)
        /\ Plan(w, "bulk_updated", S,
                {moved(i, from, u) : i \in {j \in S : scopes[j].responsible = from}}, 0,
                BulkChanges(w, {moved(i, from, u) : i \in {j \in S : scopes[j].responsible = from}}))
  BY DEF BulkMove
<1> DEFINE x(i) == moved(i, from, u)
<1>1. /\ Free(S)
      /\ Plan(w, "bulk_updated", S,
              {x(i) : i \in {j \in S : scopes[j].responsible = from}}, 0,
              BulkChanges(w, {x(i) : i \in {j \in S : scopes[j].responsible = from}}))
  BY <1>0
<1>2. pc[w] = "loaded" /\ S \subseteq Ids /\ from # Nobody /\ u # Nobody
  BY DEF BulkMove, IInv, JobInv, LoadedInv
<1>3. ASSUME NEW i \in S, scopes[i].responsible = from
      PROVE  x(i) \in Writes /\ x(i).scope = i /\ WriteInv(x(i))
  <2>1. /\ i \in Ids /\ scopes[i] \in Row /\ GoodRow(scopes[i]) /\ Alive(scopes[i])
        /\ scopes[i].status # "archived" /\ scopes[i].draft \in Draft
        /\ links[i] \in Links /\ Agrees(scopes[i], links[i])
    BY <1>2 DEF IInv, RowsInv, Writable, GoodRow
  <2>2. WithUser(scopes[i].draft, u) \in Draft /\ WithUser(scopes[i].draft, u).responsible = u
    BY <1>2, <2>1 DEF WithUser, Draft
  <2> DEFINE new == BulkMoved(scopes[i], u)
  <2>3. /\ new \in Row /\ new.status = scopes[i].status /\ new.origin = scopes[i].origin
        /\ new.version = scopes[i].version /\ new.snapshot = scopes[i].snapshot
        /\ new.client = scopes[i].client
        /\ new.draft = WithUser(scopes[i].draft, u) /\ new.responsible = u
    BY <1>2, <2>1, <2>2 DEF BulkMoved, Row
  <2> HIDE DEF new
  <2>4. GoodRow(new) /\ new.status # "unborn"
    BY <2>1, <2>2, <2>3 DEF GoodRow, Alive, Pub
  <2> DEFINE l == rows(i, from, u)
  <2>5. /\ l.users = MovedUsers(links[i].users, from, u) /\ l.services = links[i].services
        /\ l \in Links
    BY <1>2, <2>1 DEF MovedUsers, Links
  <2> HIDE DEF l
  <2>6. Agrees(new, l)
    <3>1. CASE scopes[i].client = NoClient /\ links[i] = NoLinks
      <4>1. links[i].users = {} /\ links[i].services = {}
        BY <3>1 DEF NoLinks
      <4>2. l.users = {}
        BY <2>5, <4>1 DEF MovedUsers
      <4>3. l = NoLinks
        BY <2>1, <2>5, <4>1, <4>2 DEF Links, NoLinks
      <4> QED BY <2>3, <3>1, <4>3 DEF Agrees
    <3>2. CASE scopes[i].client # NoClient \/ links[i] # NoLinks
      <4>1. links[i].users = {from}
        BY <1>2, <1>3, <2>1, <3>2 DEF Agrees
      <4>2. l.users = {u}
        BY <2>5, <4>1 DEF MovedUsers
      <4> QED BY <1>2, <2>3, <4>2 DEF Agrees
    <3> QED BY <3>1, <3>2
  <2>7. WriteInv(Write(i, scopes[i], new, l, FALSE))
    BY <2>1, <2>3, <2>4, <2>5, <2>6, EditWrite DEF Pub
  <2>8. Write(i, scopes[i], new, l, FALSE) \in Writes
    BY <2>1, <2>3, <2>5 DEF Write, Writes
  <2>9. x(i).scope = i
    BY DEF Write
  <2> QED BY <2>7, <2>8, <2>9 DEF new, l
<1> DEFINE T == {j \in S : scopes[j].responsible = from}
           writes == {x(i) : i \in T}
<1> HIDE DEF x
<1>4. /\ writes \subseteq Writes
      /\ \A y \in writes : WriteInv(y) /\ y.scope \in S
      /\ \A y, z \in writes : y.scope = z.scope => y = z
  BY <1>3
<1>5. \A i \in S : lock[i] = Nobody /\ scopes[i].status # "unborn"
  BY <1>1 DEF Free, Writable, Alive
<1>6. Plan(w, "bulk_updated", S, writes, 0, BulkChanges(w, writes))
  BY <1>1
<1> HIDE DEF writes
<1>7. BulkChanges(w, writes) \subseteq Change /\ GoodChanges(BulkChanges(w, writes))
  BY <1>2, <1>4, BulkChangesGood
<1>8. 0 \in 0..MaxEvents /\ S \in SUBSET Ids
  BY <1>2
<1> HIDE DEF S
<1> QED BY <1>2, <1>4, <1>5, <1>6, <1>7, <1>8, PlanStep DEF Actions

\* The new user is set on a published row from the attributes b, that are as old as
\* the request: the UPDATE leaves a good row.  When it takes the next version, b was
\* published like the row; otherwise the version is taken already.
LEMMA BulkWrite ==
  ASSUME NEW i \in Ids, GoodRow(scopes[i]), scopes[i].status = "published",
         links[i] \in Links,
         NEW b, StaleInv(b, scopes[i]), NEW u \in Users, b.responsible # u,
         NEW p \in BOOLEAN, p <=> b.status = "published",
         NEW x, x = Write(i, b, BulkApplied(b, u), [links[i] EXCEPT !.users = {u}], p),
         x.new.version <= MaxVersion
  PROVE  x \in Writes /\ x.scope = i /\ x.publishes = p /\ WriteInv(x)
<1> DEFINE r == scopes[i]
           l == [links[i] EXCEPT !.users = {u}]
           new == BulkApplied(b, u)
           n == Flush(r, b, new)
<1>1. /\ x.scope = i /\ x.loaded = b /\ x.new = new /\ x.links = l /\ x.publishes = p
  BY DEF Write
<1>2. /\ r \in Row /\ Alive(r) /\ r.status = "published" /\ r.origin = "none" /\ Pub(r)
      /\ r.snapshot \in Draft /\ r.version \in 1..MaxVersion /\ r.draft \in Draft
  BY DEF GoodRow, Alive, Pub, Row
<1>3. /\ b \in Row /\ GoodRow(b) /\ Alive(b) /\ b.draft \in Draft
      /\ b.responsible = b.draft.responsible /\ b.version \in 1..MaxVersion
      /\ b.version <= r.version
  BY <1>2 DEF StaleInv, GoodRow, Row
<1>4. l \in Links /\ l.users = {u}
  BY DEF Links
<1>5. WithUser(b.draft, u) \in Draft /\ WithUser(b.draft, u).responsible = u
  BY <1>3 DEF WithUser, Draft
<1>6. b.status = "published" => b.snapshot \in Draft /\ WithUser(b.snapshot, u) \in Draft
  BY <1>3 DEF GoodRow, Pub, WithUser, Draft
<1>7. /\ new.status = b.status /\ new.origin = b.origin /\ new.client = b.client
      /\ new.draft = WithUser(b.draft, u) /\ new.responsible = u
      /\ IF b.status = "published"
           THEN new.snapshot = WithUser(b.snapshot, u) /\ new.version = b.version + 1
           ELSE new.snapshot = b.snapshot /\ new.version = b.version
      /\ new \in [status : Status, origin : {"none", "draft", "published"},
                  draft : Draft \cup {NoDraft}, snapshot : Draft \cup {NoDraft},
                  version : Nat, responsible : Users \cup {Nobody},
                  client : Clients \cup {NoClient}]
  <2> DEFINE m == [b EXCEPT !.draft = WithUser(b.draft, u), !.responsible = u]
  <2>1. new = IF b.status # "published" THEN m
              ELSE [m EXCEPT !.snapshot = WithUser(b.snapshot, u), !.version = b.version + 1]
    BY DEF BulkApplied
  <2>2. /\ m \in Row /\ m.status = b.status /\ m.origin = b.origin /\ m.client = b.client
        /\ m.draft = WithUser(b.draft, u) /\ m.responsible = u
        /\ m.snapshot = b.snapshot /\ m.version = b.version
    BY <1>3, <1>5 DEF Row
  <2> HIDE DEF m, new
  <2>3. CASE b.status # "published"
    BY <2>1, <2>2, <2>3 DEF Row
  <2>4. CASE b.status = "published"
    <3>1. WithUser(b.snapshot, u) \in Draft /\ b.version + 1 \in Nat
      BY <1>3, <1>6, <2>4
    <3> QED BY <2>1, <2>2, <2>4, <3>1 DEF Row
  <2> QED BY <2>3, <2>4
<1>8. new.version <= MaxVersion
  BY <1>1
<1>9. new \in Row
  BY <1>7, <1>8 DEF Row
<1> HIDE DEF new, l
<1>10. x \in Writes
  BY <1>1, <1>3, <1>4, <1>9 DEF Write, Writes, new, l
<1>11. /\ n \in Row
       /\ n.status = "published" /\ n.origin = "none" /\ n.client = r.client
       /\ n.draft = WithUser(b.draft, u) /\ n.responsible = u
  <2>1. n \in Row
    BY <1>2, <1>3, <1>9, FlushType
  <2>2. WithUser(b.draft, u) # b.draft
    BY <1>3, <1>5
  <2>3. /\ n.status = IF new.status = b.status THEN r.status ELSE new.status
        /\ n.origin = IF new.origin = b.origin THEN r.origin ELSE new.origin
        /\ n.client = IF new.client = b.client THEN r.client ELSE new.client
        /\ n.draft = IF new.draft = b.draft THEN r.draft ELSE new.draft
        /\ n.responsible = IF new.responsible = b.responsible THEN r.responsible
                           ELSE new.responsible
    BY <1>2 DEF Flush, Row
  <2> HIDE DEF n
  <2> QED BY <1>2, <1>7, <2>1, <2>2, <2>3
<1>12. IF b.status = "published"
         THEN /\ n.version = b.version + 1
              /\ n.snapshot = IF new.snapshot = b.snapshot THEN r.snapshot ELSE new.snapshot
         ELSE n.version = r.version /\ n.snapshot = r.snapshot
  <2>1. /\ n.version = IF new.version = b.version THEN r.version ELSE new.version
        /\ n.snapshot = IF new.snapshot = b.snapshot THEN r.snapshot ELSE new.snapshot
    BY <1>2 DEF Flush, Row
  <2> HIDE DEF n
  <2> QED BY <1>3, <1>7, <2>1
<1>13. After(x) = n
  BY <1>1 DEF After
<1>14. n.snapshot \in Draft /\ n.version >= 1
  BY <1>2, <1>3, <1>6, <1>7, <1>12
<1> HIDE DEF n
<1>15. GoodRow(n) /\ Agrees(n, l)
  BY <1>4, <1>5, <1>11, <1>14 DEF GoodRow, Alive, Pub, Agrees
<1>16. CASE b.status = "published"
  <2>1. Pub(b)
    BY <1>16 DEF Pub
  <2>2. new.version = r.version + 1 => b.snapshot = r.snapshot
    BY <1>2, <1>3, <1>7, <1>16, <2>1 DEF StaleInv
  <2>3. PublicationInv(x)
    <3>1. new.version \in 2..(r.version + 1) /\ n.version = new.version
      BY <1>2, <1>3, <1>7, <1>12, <1>16
    <3>2. new.snapshot \in Draft
      BY <1>6, <1>7, <1>16
    <3>3. new.version = r.version + 1 => n.snapshot = new.snapshot
      BY <1>12, <1>16, <2>2
    <3>4. Alive(n)
      BY <1>11 DEF Alive
    <3> QED BY <1>1, <1>2, <1>13, <3>1, <3>2, <3>3, <3>4 DEF PublicationInv
  <2>4. WriteInv(x)
    BY <1>1, <1>2, <1>11, <1>13, <1>15, <1>16, <2>3 DEF WriteInv
  <2> QED BY <1>1, <1>10, <2>4
<1>17. CASE b.status # "published"
  <2>1. EditInv(x)
    BY <1>1, <1>2, <1>12, <1>13, <1>17 DEF EditInv
  <2>2. WriteInv(x)
    BY <1>1, <1>2, <1>11, <1>13, <1>15, <1>17, <2>1 DEF WriteInv
  <2> QED BY <1>1, <1>10, <2>2
<1> QED BY <1>16, <1>17

LEMMA BulkApplyStep ==
  ASSUME IInv, NEW w \in Workers, BulkApply(w)
  PROVE  IInv'
<1> DEFINE S == {i \in DOMAIN job[w].before : scopes[i].status = "published"}
           set(i, row, u) == Write(i, row, BulkApplied(row, u),
                                   [links[i] EXCEPT !.users = {u}], row.status = "published")
           all(u, kept) == {set(i, Attributes(w, i, kept), u) :
                              i \in {j \in S : ~AlreadyAssigned(Attributes(w, j, kept), u)}}
<1>0. PICK u \in Users, kept \in DOMAIN job[w].before :
        Free(S) /\ Plan(w, "bulk_updated", S, all(u, kept), 0, BulkChanges(w, all(u, kept)))
  BY DEF BulkApply
<1> DEFINE b(i) == Attributes(w, i, kept)
           x(i) == set(i, b(i), u)
           T == {j \in S : ~AlreadyAssigned(b(j), u)}
           writes == {x(i) : i \in T}
<1>1. Free(S) /\ Plan(w, "bulk_updated", S, writes, 0, BulkChanges(w, writes))
  BY <1>0
<1>2. pc[w] = "loaded" /\ S \subseteq Ids
  BY DEF BulkApply, IInv, JobInv, LoadedInv
<1>3. \A y \in writes : y.new.version <= MaxVersion
  BY <1>1 DEF Plan
<1>4. ASSUME NEW i \in T
      PROVE  x(i) \in Writes /\ x(i).scope = i /\ WriteInv(x(i))
  <2>1. /\ i \in Ids /\ GoodRow(scopes[i]) /\ scopes[i].status = "published"
        /\ links[i] \in Links /\ Alive(scopes[i]) /\ scopes[i].version \in Nat
    BY <1>2 DEF IInv, RowsInv, Alive, Row
  <2>2. StaleInv(b(i), scopes[i])
    <3>1. CASE i = kept
      BY <1>2, <3>1 DEF Attributes, IInv, JobInv, LoadedInv
    <3>2. CASE i # kept
      <4>1. StaleInv(scopes[i], scopes[i])
        BY <2>1 DEF StaleInv
      <4> QED BY <3>2, <4>1 DEF Attributes
    <3> QED BY <3>1, <3>2
  <2>3. b(i).responsible # u
    BY <2>2 DEF AlreadyAssigned, StaleInv, GoodRow
  <2>4. x(i).new.version <= MaxVersion
    BY <1>3
  <2>5. PICK p \in BOOLEAN : p <=> b(i).status = "published"
    OBVIOUS
  <2>6. x(i) = Write(i, b(i), BulkApplied(b(i), u), [links[i] EXCEPT !.users = {u}], p)
    BY <2>5 DEF Write
  <2> HIDE DEF x, b
  <2> QED BY <1>2, <2>1, <2>2, <2>3, <2>4, <2>5, <2>6, BulkWrite
<1> HIDE DEF x
<1>5. /\ writes \subseteq Writes
      /\ \A y \in writes : WriteInv(y) /\ y.scope \in S
      /\ \A y, z \in writes : y.scope = z.scope => y = z
  BY <1>4
<1>6. \A i \in S : lock[i] = Nobody /\ scopes[i].status # "unborn"
  BY <1>1 DEF Free
<1> HIDE DEF writes
<1>7. BulkChanges(w, writes) \subseteq Change /\ GoodChanges(BulkChanges(w, writes))
  BY <1>2, <1>5, BulkChangesGood
<1>8. 0 \in 0..MaxEvents /\ S \in SUBSET Ids
  BY <1>2
<1> HIDE DEF S
<1> QED BY <1>1, <1>2, <1>5, <1>6, <1>7, <1>8, PlanStep DEF Actions

-----------------------------------------------------------------------------
(* The reversal                                                            *)

\* The state before the change, on the row as it is now.
LEMMA RestoredGood ==
  ASSUME NEW r, GoodRow(r), Writable(r), NEW t, GoodRow(t), Alive(t),
         NEW n, n = Restored(r, t), n.version <= MaxVersion
  PROVE  /\ n \in Row /\ GoodRow(n) /\ Alive(n)
         /\ n.status = t.status /\ n.origin = "none" /\ n.responsible = t.draft.responsible
         /\ n.draft = t.draft /\ n.snapshot = t.snapshot
         /\ n.version = IF n.status = "published" THEN r.version + 1 ELSE r.version
<1>1. /\ r \in Row /\ r.origin = "none" /\ t \in Row /\ t.draft \in Draft
      /\ Linked(t.client, t.draft) \in Clients \cup {NoClient}
      /\ t.responsible = t.draft.responsible
      /\ r.version \in 1..MaxVersion
  BY DEF GoodRow, Writable, Row, Draft, Linked
<1> DEFINE old == [r EXCEPT !.status = t.status, !.draft = t.draft,
                            !.snapshot = t.snapshot, !.responsible = t.responsible,
                            !.client = Linked(t.client, t.draft)]
<1>2. /\ old \in Row /\ old.status = t.status /\ old.origin = "none"
      /\ old.draft = t.draft /\ old.snapshot = t.snapshot /\ old.version = r.version
      /\ old.responsible = t.draft.responsible
  BY <1>1 DEF Row
<1>3. n = IF old.status = "published" THEN [old EXCEPT !.version = r.version + 1] ELSE old
  BY DEF Restored
<1> HIDE DEF old
<1>4. /\ n.status = t.status /\ n.origin = "none"
      /\ n.draft = t.draft /\ n.snapshot = t.snapshot
      /\ n.responsible = t.draft.responsible
      /\ n.version = IF n.status = "published" THEN r.version + 1 ELSE r.version
  BY <1>2, <1>3 DEF Row
<1>5. n \in Row
  <2>1. CASE old.status = "published"
    <3>1. r.version + 1 \in 0..MaxVersion
      BY <1>1, <1>2, <1>4, <2>1
    <3> QED BY <1>2, <1>3, <2>1, <3>1 DEF Row
  <2>2. CASE old.status # "published"
    BY <1>2, <1>3, <2>2
  <2> QED BY <2>1, <2>2
<1>6. Alive(n)
  BY <1>4 DEF Alive
<1>7. t.status = "published" => t.snapshot \in Draft
  BY DEF GoodRow, Pub
<1>8. GoodRow(n)
  BY <1>1, <1>4, <1>5, <1>6, <1>7 DEF GoodRow, Pub, Alive
<1> QED BY <1>4, <1>5, <1>6, <1>8

LEMMA ReverseStep ==
  ASSUME IInv, NEW w \in Workers, Reverse(w)
  PROVE  IInv'
<1> DEFINE e == job[w].reverses
           C == job[w].changes
           S == {c.scope : c \in C}
           new(c) == Restored(scopes[c.scope], c.before)
           x(c) == Write(c.scope, scopes[c.scope], new(c), Synchronised(c.before.draft),
                         new(c).status = "published")
           writes == {x(c) : c \in C}
           rec(c) == [scope |-> c.scope, before |-> scopes[c.scope], after |-> new(c)]
           changes == {rec(c) : c \in C}
<1>1. /\ Free(S) /\ StillEligible(C)
      /\ Plan(w, "reversed", S, writes, e, changes)
  BY DEF Reverse
<1>2. pc[w] = "previewed"
  BY DEF Reverse
<1>3. /\ e \in 1..Len(events) /\ Len(events) < MaxEvents /\ Len(events) \in Nat
      /\ C \subseteq events[e].changes /\ GoodChanges(events[e].changes)
      /\ events[e].changes \subseteq Change
  <2>1. e \in 1..Len(events) /\ C \subseteq events[e].changes /\ events[e].action \in Reversible
    BY <1>2 DEF IInv, JobInv, PreviewInv
  <2>2. events \in Seq(Event) /\ GoodChanges(events[e].changes)
    BY <2>1 DEF IInv, EventsInv
  <2>3. events[e] \in Event /\ Len(events) \in Nat
    BY <2>1, <2>2, ElementOfSeq
  <2>4. Len(events) < MaxEvents
    BY <1>1 DEF Plan
  <2> QED BY <2>1, <2>2, <2>3, <2>4 DEF Event
<1>4. \A y \in writes : y.new.version <= MaxVersion
  BY <1>1 DEF Plan
<1>5. ASSUME NEW c \in C
      PROVE  /\ x(c) \in Writes /\ x(c).scope = c.scope /\ WriteInv(x(c))
             /\ c.scope \in Ids /\ scopes[c.scope].status # "unborn"
             /\ rec(c) \in Change /\ rec(c).scope = c.scope
             /\ SameState(rec(c).before, c.after)
             /\ rec(c).after.draft = c.before.draft
             /\ rec(c).after.snapshot = c.before.snapshot
  <2> DEFINE i == c.scope
             n == new(c)
             l == Synchronised(c.before.draft)
  <2>1. /\ c \in Change /\ GoodRow(c.before) /\ Alive(c.before)
        /\ Writable(scopes[i]) /\ SameState(scopes[i], c.after)
    BY <1>1, <1>3 DEF GoodChanges, StillEligible
  <2>2. i \in Ids /\ c.before.draft \in Draft
    BY <2>1 DEF Change, GoodRow
  <2>3. /\ scopes[i] \in Row /\ GoodRow(scopes[i]) /\ Alive(scopes[i])
        /\ scopes[i].status # "archived" /\ scopes[i].status # "unborn"
        /\ scopes[i].version \in Nat
    BY <2>1, <2>2 DEF IInv, RowsInv, Writable, Alive, Row
  <2>4. x(c).new.version <= MaxVersion /\ x(c).new = n /\ x(c).scope = i
    BY <1>4 DEF Write
  <2>5. n = Restored(scopes[i], c.before)
    OBVIOUS
  <2>6. PICK p \in BOOLEAN : p <=> n.status = "published"
    OBVIOUS
  <2>7. x(c) = Write(i, scopes[i], n, l, p)
    BY <2>6 DEF Write
  <2>8. rec(c) = [scope |-> i, before |-> scopes[i], after |-> n]
    OBVIOUS
  <2> HIDE DEF x, new, n, rec
  <2>9. /\ n \in Row /\ GoodRow(n) /\ Alive(n)
        /\ n.status = c.before.status /\ n.origin = "none"
        /\ n.responsible = c.before.draft.responsible
        /\ n.draft = c.before.draft /\ n.snapshot = c.before.snapshot
        /\ n.version = IF n.status = "published" THEN scopes[i].version + 1
                       ELSE scopes[i].version
    BY <2>1, <2>3, <2>4, <2>5, RestoredGood
  <2>10. l \in Links /\ Agrees(n, l)
    BY <2>2, <2>9, SynchronisedType DEF Agrees
  <2> HIDE DEF l
  <2>11. x(c) \in Writes
    BY <2>2, <2>3, <2>7, <2>9, <2>10, FreshWrite
  <2>12. /\ rec(c) \in Change /\ rec(c).scope = i
         /\ rec(c).before = scopes[i] /\ rec(c).after = n
    BY <2>2, <2>3, <2>8, <2>9 DEF Change
  <2>13. CASE n.status = "published"
    <3>1. n.snapshot \in Draft
      BY <2>1, <2>9, <2>13 DEF GoodRow, Pub
    <3>2. p = TRUE
      BY <2>6, <2>13
    <3>3. x(c) = Write(i, scopes[i], n, l, TRUE)
      BY <2>7, <3>2
    <3>4. WriteInv(Write(i, scopes[i], n, l, TRUE))
      BY <2>2, <2>3, <2>9, <2>10, <2>13, <3>1, PublicationWrite
    <3>5. WriteInv(x(c))
      BY <3>4, <3>3
    <3> QED BY <2>1, <2>2, <2>3, <2>4, <2>9, <2>11, <2>12, <3>5
  <2>14. CASE n.status # "published"
    <3>1. ~Pub(n) /\ n.status # "unborn"
      BY <2>9, <2>14 DEF Pub, Alive
    <3>2. p = FALSE
      BY <2>6, <2>14
    <3>3. x(c) = Write(i, scopes[i], n, l, FALSE)
      BY <2>7, <3>2
    <3>4. WriteInv(Write(i, scopes[i], n, l, FALSE))
      BY <2>2, <2>3, <2>9, <2>10, <2>14, <3>1, EditWrite
    <3>5. WriteInv(x(c))
      BY <3>4, <3>3
    <3> QED BY <2>1, <2>2, <2>3, <2>4, <2>9, <2>11, <2>12, <3>5
  <2> QED BY <2>13, <2>14
<1>6. \A c, d \in C : c.scope = d.scope => c = d
  BY <1>3 DEF GoodChanges
<1> HIDE DEF x, rec, new
<1>7. /\ writes \subseteq Writes
      /\ \A y \in writes : WriteInv(y) /\ y.scope \in S
      /\ \A y, z \in writes : y.scope = z.scope => y = z
      /\ changes \subseteq Change
  BY <1>5, <1>6
<1>8. TakesBack(events, e, changes)
  BY <1>3, <1>5 DEF TakesBack
<1>9. \A i \in S : lock[i] = Nobody /\ scopes[i].status # "unborn"
  BY <1>1, <1>5 DEF Free
<1>10. e \in 0..MaxEvents /\ S \in SUBSET Ids
  BY <1>3, <1>5
<1> HIDE DEF S, writes, changes, C, e
<1> QED BY <1>1, <1>2, <1>7, <1>8, <1>9, <1>10, PlanStep DEF Actions, Reversible

-----------------------------------------------------------------------------
(* The commit                                                              *)

\* The commit does to each row what its one write says, and nothing to the others.
LEMMA CommitRows ==
  ASSUME IInv, NEW w \in Workers, Commit(w)
  PROVE  /\ scopes' \in [Ids -> Row] /\ links' \in [Ids -> Links]
         /\ \A x \in job[w].writes :
              /\ x \in Writes /\ x.scope \in Ids /\ WriteInv(x)
              /\ scopes'[x.scope] = After(x) /\ links'[x.scope] = x.links
         /\ \A i \in Ids : \/ \E x \in job[w].writes : x.scope = i
                           \/ scopes'[i] = scopes[i] /\ links'[i] = links[i]
<1> DEFINE W == job[w].writes
<1>1. /\ W \subseteq Writes /\ \A x \in W : WriteInv(x)
      /\ \A x, y \in W : x.scope = y.scope => x = y
  BY DEF IInv, JobInv, CommitInv
<1>2. scopes \in [Ids -> Row] /\ links \in [Ids -> Links]
  BY DEF IInv, RowsInv
<1>3. /\ scopes' = Flushed(w)
      /\ links' = [i \in Ids |-> IF \E x \in W : x.scope = i
                                   THEN (CHOOSE x \in W : x.scope = i).links ELSE links[i]]
  BY DEF Commit
<1>4. ASSUME NEW x \in W
      PROVE  /\ x \in Writes /\ x.scope \in Ids /\ WriteInv(x)
             /\ scopes'[x.scope] = After(x) /\ links'[x.scope] = x.links
             /\ After(x) \in Row /\ x.links \in Links
  <2>1. x \in Writes /\ x.scope \in Ids /\ WriteInv(x) /\ x.links \in Links
    BY <1>1 DEF Writes
  <2>2. (CHOOSE y \in W : y.scope = x.scope) = x
    BY <1>1
  <2>3. links'[x.scope] = x.links
    BY <1>3, <2>1, <2>2
  <2>4. scopes'[x.scope] = After(x)
    BY <1>3, <2>1, <2>2 DEF Flushed, After
  <2>5. After(x) \in Row
    BY <2>1 DEF WriteInv, GoodRow
  <2> QED BY <2>1, <2>3, <2>4, <2>5
<1>5. ASSUME NEW i \in Ids, \A x \in W : x.scope # i
      PROVE  scopes'[i] = scopes[i] /\ links'[i] = links[i]
  BY <1>3, <1>5 DEF Flushed
<1>6. \A i \in Ids : scopes'[i] \in Row /\ links'[i] \in Links
  BY <1>2, <1>4, <1>5
<1>7. DOMAIN scopes' = Ids /\ scopes' = [i \in Ids |-> scopes'[i]]
  BY <1>3 DEF Flushed
<1>8. links' = [i \in Ids |-> links'[i]]
  BY <1>3
<1> QED BY <1>4, <1>5, <1>6, <1>7, <1>8

\* The unique constraint on the versions leaves a publication only the next number.
LEMMA CommitNumber ==
  ASSUME IInv, NEW w \in Workers, Commit(w), NEW x \in job[w].writes, x.publishes
  PROVE  /\ Alive(scopes[x.scope]) /\ Alive(After(x))
         /\ x.new.version = scopes[x.scope].version + 1
         /\ After(x).version = x.new.version /\ After(x).snapshot = x.new.snapshot
         /\ x.new.version \in 2..MaxVersion /\ x.new.snapshot \in Draft
<1> DEFINE r == scopes[x.scope]
<1>1. x \in Writes /\ x.scope \in Ids /\ WriteInv(x)
  BY CommitRows
<1>2. PublicationInv(x)
  BY <1>1 DEF WriteInv
<1>3. r \in Row /\ x.new \in Row /\ r.version \in Nat /\ x.new.version \in 0..MaxVersion
  BY <1>1 DEF IInv, RowsInv, Writes, Row
<1>4. x.new.version \in 2..(r.version + 1) /\ Alive(r)
  BY <1>2 DEF PublicationInv
<1>5. x.new.version \notin 2..r.version
  <2>1. SUFFICES ASSUME x.new.version \in 2..r.version PROVE FALSE
    OBVIOUS
  <2>2. PICK v \in versions : v.scope = x.scope /\ v.number = x.new.version
    BY <1>1, <1>4, <2>1 DEF IInv, VersionsInv
  <2> DEFINE new == [scope |-> x.scope, number |-> x.new.version, snapshot |-> x.new.snapshot]
  <2>3. new \in NewVersions(w)
    BY DEF NewVersions
  <2>4. UniqueVersions(NewVersions(w))
    BY DEF Commit
  <2> QED BY <2>2, <2>3, <2>4 DEF UniqueVersions
<1>6. x.new.version = r.version + 1
  BY <1>3, <1>4, <1>5
<1> QED BY <1>2, <1>3, <1>4, <1>6 DEF PublicationInv

\* What a commit does to a row that exists already, as seen by others.
LEMMA CommitKeeps ==
  ASSUME IInv, NEW w \in Workers, Commit(w), NEW i \in Ids, scopes[i].status # "unborn"
  PROVE  /\ scopes'[i].status # "unborn"
         /\ Alive(scopes'[i]) =>
              /\ Alive(scopes[i])
              /\ \/ /\ scopes'[i].version = scopes[i].version
                    /\ Pub(scopes'[i]) => Pub(scopes[i])
                                          /\ scopes'[i].snapshot = scopes[i].snapshot
                    /\ \A x \in job[w].writes : x.scope = i => ~x.publishes
                 \/ /\ scopes'[i].version = scopes[i].version + 1
                    /\ \E x \in job[w].writes : x.scope = i /\ x.publishes
<1>1. CASE \A x \in job[w].writes : x.scope # i
  BY <1>1, CommitRows
<1>2. CASE \E x \in job[w].writes : x.scope = i
  <2>1. PICK x \in job[w].writes : x.scope = i
    BY <1>2
  <2>2. WriteInv(x) /\ scopes'[i] = After(x)
    BY <2>1, CommitRows
  <2>3. \A y \in job[w].writes : y.scope = i => y = x
    BY <2>1 DEF IInv, JobInv, CommitInv
  <2>4. scopes'[i].status # "unborn"
    BY <2>2 DEF WriteInv
  <2>5. CASE x.publishes
    BY <2>1, <2>2, <2>4, <2>5, CommitNumber
  <2>6. CASE ~x.publishes
    <3>1. EditInv(x)
      BY <2>2, <2>6 DEF WriteInv
    <3> QED BY <2>1, <2>2, <2>3, <2>4, <2>6, <3>1 DEF EditInv
  <2> QED BY <2>5, <2>6
<1> QED BY <1>1, <1>2

LEMMA CommitVersions ==
  ASSUME IInv, NEW w \in Workers, Commit(w)
  PROVE  VersionsInv'
<1> DEFINE W == job[w].writes
           row(x) == [scope |-> x.scope, number |-> x.new.version, snapshot |-> x.new.snapshot]
<1>1. /\ versions' = {v \in versions : scopes'[v.scope].status # "deleted"} \cup NewVersions(w)
      /\ NewVersions(w) = {row(x) : x \in {y \in W : y.publishes}}
  BY DEF Commit, NewVersions
<1>2. /\ versions \in SUBSET Version
      /\ \A v \in versions : /\ v.scope \in Ids /\ v.number \in Nat
                             /\ Alive(scopes[v.scope]) /\ v.number \in 2..scopes[v.scope].version
  BY DEF IInv, VersionsInv, Version
<1>3. \A i \in Ids : scopes[i].version \in Nat /\ scopes'[i].version \in Nat
  BY CommitRows DEF IInv, RowsInv, Row
<1>4. ASSUME NEW x \in W, x.publishes
      PROVE  /\ row(x) \in Version /\ row(x).scope = x.scope /\ x.scope \in Ids
             /\ row(x).number = scopes[x.scope].version + 1
             /\ row(x).number = scopes'[x.scope].version /\ row(x).number >= 2
             /\ row(x).snapshot = scopes'[x.scope].snapshot
             /\ Alive(scopes[x.scope]) /\ Alive(scopes'[x.scope])
  BY <1>4, CommitNumber, CommitRows DEF Version, Writes
<1>5. \A x, y \in W : x.scope = y.scope => x = y
  BY DEF IInv, JobInv, CommitInv
<1>6. \A v \in versions' : \/ v \in versions /\ scopes'[v.scope].status # "deleted"
                           \/ \E x \in W : x.publishes /\ v = row(x)
  BY <1>1
<1> HIDE DEF row
<1>7. versions' \in SUBSET Version
  BY <1>1, <1>2, <1>4
<1>8. ASSUME NEW v \in versions'
      PROVE  /\ v.scope \in Ids /\ Alive(scopes'[v.scope])
             /\ v.number \in 2..scopes'[v.scope].version
  <2>1. CASE v \in versions /\ scopes'[v.scope].status # "deleted"
    <3>1. /\ v.scope \in Ids /\ Alive(scopes[v.scope]) /\ scopes[v.scope].status # "unborn"
          /\ v.number \in 2..scopes[v.scope].version
      BY <1>2, <2>1 DEF Alive
    <3>2. Alive(scopes'[v.scope])
      BY <2>1, <3>1, CommitKeeps DEF Alive
    <3>3. scopes'[v.scope].version \in {scopes[v.scope].version, scopes[v.scope].version + 1}
      BY <3>1, <3>2, CommitKeeps
    <3> QED BY <1>3, <3>1, <3>2, <3>3
  <2>2. CASE \E x \in W : x.publishes /\ v = row(x)
    <3>1. PICK x \in W : x.publishes /\ v = row(x)
      BY <2>2
    <3>2. v.scope \in Ids /\ Alive(scopes'[v.scope]) /\ v.number = scopes'[v.scope].version
          /\ v.number >= 2
      BY <1>4, <3>1
    <3> QED BY <1>3, <3>2
  <2> QED BY <1>6, <2>1, <2>2
<1>9. ASSUME NEW i \in Ids, Alive(scopes'[i])
      PROVE  /\ \A n \in 2..scopes'[i].version : \E v \in versions' : v.scope = i /\ v.number = n
             /\ \A v \in versions' :
                  Pub(scopes'[i]) /\ v.scope = i /\ v.number = scopes'[i].version
                    => v.snapshot = scopes'[i].snapshot
  <2>1. CASE scopes[i].status = "unborn"
    <3>1. ~Alive(scopes[i])
      BY <2>1 DEF Alive
    <3>2. PICK x \in W : x.scope = i
      BY <1>9, <3>1, CommitRows
    <3>3. WriteInv(x) /\ scopes'[i] = After(x)
      BY <3>2, CommitRows
    <3>4. ~x.publishes
      BY <1>4, <3>1, <3>2
    <3>5. EditInv(x)
      BY <3>3, <3>4 DEF WriteInv
    <3>6. scopes'[i].version = 1 /\ scopes'[i].status = "draft"
      BY <1>9, <3>1, <3>2, <3>3, <3>5 DEF EditInv
    <3> QED BY <3>6 DEF Pub
  <2>2. CASE scopes[i].status # "unborn"
    <3> DEFINE r == scopes[i]
               n == scopes'[i]
    <3>1. /\ Alive(r)
          /\ \A k \in 2..r.version : \E v \in versions : v.scope = i /\ v.number = k
          /\ \A v \in versions : Pub(r) /\ v.scope = i /\ v.number = r.version
                                   => v.snapshot = r.snapshot
      BY <1>9, <2>2, CommitKeeps DEF IInv, VersionsInv
    <3>2. \A v \in versions : v.scope = i => v \in versions'
      BY <1>1, <1>9 DEF Alive
    <3>3. r.version \in Nat /\ n.version \in Nat
      BY <1>3
    <3>4. CASE \E x \in W : x.scope = i /\ x.publishes
      <4>1. PICK x \in W : x.scope = i /\ x.publishes
        BY <3>4
      <4>2. /\ row(x) \in versions' /\ row(x).scope = i /\ row(x).number = n.version
            /\ n.version = r.version + 1 /\ row(x).snapshot = n.snapshot
        BY <1>1, <1>4, <4>1
      <4>3. \A k \in 2..n.version : \E v \in versions' : v.scope = i /\ v.number = k
        <5> TAKE k \in 2..n.version
        <5>1. CASE k = n.version
          BY <4>2, <5>1
        <5>2. CASE k \in 2..r.version
          BY <3>1, <3>2, <5>2
        <5> QED BY <3>3, <4>2, <5>1, <5>2
      <4>4. ASSUME NEW v \in versions', v.scope = i, v.number = n.version
            PROVE  v.snapshot = n.snapshot
        <5>1. v \notin versions
          BY <1>2, <3>3, <4>2, <4>4
        <5>2. PICK y \in W : y.publishes /\ v = row(y)
          BY <1>6, <5>1
        <5> QED BY <1>4, <1>5, <4>1, <4>2, <4>4, <5>2
      <4> QED BY <4>3, <4>4
    <3>5. CASE ~ \E x \in W : x.scope = i /\ x.publishes
      <4>1. /\ n.version = r.version
            /\ Pub(n) => Pub(r) /\ n.snapshot = r.snapshot
        BY <1>9, <2>2, <3>5, CommitKeeps
      <4>2. \A v \in versions' : v.scope = i => v \in versions
        BY <1>4, <1>6, <3>5
      <4> QED BY <3>1, <3>2, <4>1, <4>2
    <3> QED BY <3>4, <3>5
  <2> QED BY <2>1, <2>2
<1> QED BY <1>7, <1>8, <1>9 DEF VersionsInv

LEMMA CommitEvents ==
  ASSUME IInv, NEW w \in Workers, Commit(w)
  PROVE  /\ EventsInv'
         /\ events' = events \/ \E ev \in Event : events' = Append(events, ev)
<1> DEFINE ev == [action |-> job[w].kind, reverses |-> job[w].reverses,
                  changes |-> job[w].changes]
<1>1. /\ job[w].kind \in Actions \cup {"sync"} /\ job[w].reverses \in 0..MaxEvents
      /\ job[w].changes \subseteq Change
      /\ job[w].kind \in Reversible => GoodChanges(job[w].changes)
      /\ job[w].kind = "reversed" => TakesBack(events, job[w].reverses, job[w].changes)
  BY DEF Commit, IInv, JobInv, CommitInv
<1>2. EventsInv /\ events \in Seq(Event) /\ Len(events) \in Nat
  BY DEF IInv, EventsInv
<1>3. CASE job[w].kind = "sync"
  <2>1. events' = events
    BY <1>3 DEF Commit, Recorded
  <2> QED BY <1>2, <2>1 DEF EventsInv, TakesBack
<1>4. CASE job[w].kind # "sync"
  <2>1. events' = Append(events, ev) /\ ev \in Event
    BY <1>1, <1>4 DEF Commit, Recorded, Event
  <2>2. /\ ev.action = job[w].kind /\ ev.reverses = job[w].reverses
        /\ ev.changes = job[w].changes
    OBVIOUS
  <2> HIDE DEF ev
  <2>3. /\ events' \in Seq(Event) /\ Len(events') = Len(events) + 1
        /\ \A e \in 1..Len(events) : events'[e] = events[e]
        /\ events'[Len(events) + 1] = ev
    BY <1>2, <2>1, AppendProperties
  <2>4. ASSUME NEW e \in 1..Len(events')
        PROVE  /\ events'[e].action \in Reversible => GoodChanges(events'[e].changes)
               /\ events'[e].action = "reversed"
                    => TakesBack(events', events'[e].reverses, events'[e].changes)
    <3>1. CASE e \in 1..Len(events)
      <4>1. events'[e] = events[e]
        BY <2>3, <3>1
      <4>2. /\ events[e].action \in Reversible => GoodChanges(events[e].changes)
            /\ events[e].action = "reversed"
                 => TakesBack(events, events[e].reverses, events[e].changes)
        BY <1>2, <3>1 DEF EventsInv
      <4>3. events[e].action = "reversed"
              => TakesBack(events', events[e].reverses, events[e].changes)
        BY <1>2, <2>1, <4>2, ReversalStable
      <4> QED BY <4>1, <4>2, <4>3
    <3>2. CASE e = Len(events) + 1
      <4>1. events'[e] = ev
        BY <2>3, <3>2
      <4>2. ev.action = "reversed" => TakesBack(events', ev.reverses, ev.changes)
        BY <1>1, <1>2, <2>1, <2>2, ReversalStable
      <4> QED BY <1>1, <2>2, <4>1, <4>2
    <3> QED BY <1>2, <2>3, <3>1, <3>2
  <2> QED BY <2>1, <2>3, <2>4 DEF EventsInv
<1> QED BY <1>3, <1>4

\* What the other requests loaded and planned is as true after the commit.
LEMMA CommitOthers ==
  ASSUME IInv, NEW w \in Workers, Commit(w), NEW v \in Workers, v # w
  PROVE  LoadedInv(v)' /\ PreviewInv(v)' /\ CommitInv(v)'
<1>1. LoadedInv(v) /\ PreviewInv(v) /\ CommitInv(v)
  BY DEF IInv, JobInv
<1>2. job'[v] = job[v] /\ pc'[v] = pc[v]
  BY DEF Commit, Close, IInv, JobInv, LockInv
<1>3. events' = events \/ \E ev \in Event : events' = Append(events, ev)
  BY CommitEvents
<1>4. events \in Seq(Event) /\ Len(events) \in Nat /\ EventsInv
  BY DEF IInv, EventsInv
<1>5. Len(events') >= Len(events) /\ Len(events') \in Nat
      /\ \A e \in 1..Len(events) : events'[e] = events[e]
  BY <1>3, <1>4, AppendProperties
<1>6. LoadedInv(v)'
  <2>1. ASSUME NEW i \in Ids, NEW b, StaleInv(b, scopes[i])
        PROVE  StaleInv(b, scopes'[i])
    <3>1. /\ scopes[i].version \in Nat /\ scopes'[i].version \in Nat /\ b.version \in Nat
      BY <2>1, CommitRows DEF IInv, RowsInv, Row, StaleInv, GoodRow
    <3>2. scopes[i].status # "unborn"
      BY <2>1 DEF StaleInv
    <3> QED BY <2>1, <3>1, <3>2, CommitKeeps DEF StaleInv
  <2>2. pc[v] = "loaded"
          => \A i \in DOMAIN job[v].before : StaleInv(job[v].before[i], scopes'[i])
    BY <1>1, <2>1 DEF LoadedInv
  <2> QED BY <1>1, <1>2, <2>2 DEF LoadedInv
<1>7. PreviewInv(v)'
  BY <1>1, <1>2, <1>4, <1>5 DEF PreviewInv
<1>8. CommitInv(v)'
  <2>1. \A x \in job[v].writes : /\ lock'[x.scope] = v \/ scopes'[x.scope].status = "unborn"
                                 /\ WriteInv(x)'
    <3> TAKE x \in job[v].writes
    <3>1. x.scope \in Ids /\ WriteInv(x) /\ (lock[x.scope] = v \/ scopes[x.scope].status = "unborn")
      BY <1>1 DEF CommitInv, Writes
    <3>2. \A y \in job[w].writes : y.scope # x.scope
      BY DEF IInv, ApartInv
    <3>3. scopes'[x.scope] = scopes[x.scope] /\ links'[x.scope] = links[x.scope]
      BY <3>1, <3>2, CommitRows
    <3>4. lock[x.scope] = v => lock'[x.scope] = v
      BY <3>1 DEF Commit, Close
    <3>5. WriteInv(x)'
      BY <3>1, <3>3 DEF WriteInv, After, PublicationInv, EditInv
    <3> QED BY <3>1, <3>3, <3>4, <3>5
  <2>2. pc[v] = "commit" /\ job[v].kind = "reversed"
          => TakesBack(events', job[v].reverses, job[v].changes)
    BY <1>1, <1>3, <1>4, ReversalStable DEF CommitInv
  <2> QED BY <1>1, <1>2, <2>1, <2>2 DEF CommitInv
<1> QED BY <1>6, <1>7, <1>8

LEMMA CommitStep ==
  ASSUME IInv, NEW w \in Workers, Commit(w)
  PROVE  IInv'
<1>1. /\ pc[w] = "commit" /\ UniqueClients(Flushed(w)) /\ scopes' = Flushed(w)
      /\ pc' = [pc EXCEPT ![w] = "idle"]
      /\ job' = [job EXCEPT ![w] = NoJob]
      /\ lock' = [i \in Ids |-> IF lock[i] = w THEN Nobody ELSE lock[i]]
  BY DEF Commit, Close
<1>2. DOMAIN job = Workers /\ LockInv /\ NoJob.writes = {}
  BY DEF IInv, JobInv, NoJob
<1>3. /\ DOMAIN job' = Workers /\ job'[w] = NoJob /\ pc'[w] = "idle"
      /\ \A v \in Workers : v # w => job'[v] = job[v] /\ pc'[v] = pc[v]
  BY <1>1, <1>2 DEF LockInv
<1>4. RowsInv'
  <2>1. ASSUME NEW i \in Ids PROVE GoodRow(scopes'[i]) /\ Agrees(scopes'[i], links'[i])
    <3>1. CASE \E x \in job[w].writes : x.scope = i
      BY <3>1, CommitRows DEF WriteInv
    <3>2. CASE \A x \in job[w].writes : x.scope # i
      BY <3>2, CommitRows DEF IInv, RowsInv
    <3> QED BY <3>1, <3>2
  <2> QED BY <2>1, CommitRows DEF RowsInv
<1>5. VersionsInv' /\ EventsInv'
  BY CommitVersions, CommitEvents
<1>6. OneScopePerClient'
  BY <1>1 DEF UniqueClients, OneScopePerClient
<1>7. LockInv'
  BY <1>1, <1>2, <1>3 DEF LockInv
<1>8. LoadedInv(w)' /\ PreviewInv(w)' /\ CommitInv(w)'
  BY <1>2, <1>3 DEF LoadedInv, PreviewInv, CommitInv
<1>9. JobInv'
  BY <1>3, <1>8, CommitOthers DEF JobInv
<1>10. ApartInv'
  BY <1>2, <1>3 DEF IInv, ApartInv
<1> QED BY <1>4, <1>5, <1>6, <1>7, <1>9, <1>10 DEF IInv

-----------------------------------------------------------------------------
(* The theorems                                                            *)

LEMMA InitStep == Init => IInv
<1> SUFFICES ASSUME Init PROVE IInv
  OBVIOUS
<1>1. /\ scopes = [i \in Ids |-> scopes[i]]
      /\ \A i \in Ids : scopes[i] = NoRow \/ scopes[i] \in Legacy
  BY DEF Init
<1>2. /\ links = [i \in Ids |-> NoLinks] /\ versions = {} /\ events = <<>>
      /\ lock = [i \in Ids |-> Nobody]
      /\ pc = [w \in Workers |-> "idle"] /\ job = [w \in Workers |-> NoJob]
  BY DEF Init
<1>3. ASSUME NEW l \in Legacy
      PROVE  /\ l \in Row /\ GoodRow(l) /\ Agrees(l, NoLinks)
             /\ l.version = 1 /\ l.client = NoClient
  <2>1. PICK d \in Draft, st \in {"draft", "published", "archived"} : l = LegacyRow(d, st)
    BY InputsAssumption
  <2>2. /\ l \in Row /\ l.status = st /\ l.origin = "none" /\ l.draft = d
        /\ l.responsible = d.responsible /\ l.version = 1 /\ l.client = NoClient
        /\ st # "draft" => l.snapshot = d
    BY <2>1 DEF LegacyRow, Row, Status, Draft
  <2>3. GoodRow(l) /\ Agrees(l, NoLinks)
    BY <2>2 DEF GoodRow, Alive, Pub, Agrees
  <2> QED BY <2>2, <2>3
<1>4. Agrees(NoRow, NoLinks) /\ NoRow.client = NoClient
  BY NoRowGood DEF Agrees, NoRow
<1>5. ASSUME NEW i \in Ids
      PROVE  /\ scopes[i] \in Row /\ GoodRow(scopes[i]) /\ Agrees(scopes[i], NoLinks)
             /\ scopes[i].client = NoClient
             /\ Alive(scopes[i]) => scopes[i].version = 1
  BY <1>1, <1>3, <1>4, NoRowGood
<1>6. \A i \in Ids : Alive(scopes[i]) => scopes[i].version = 1
  BY <1>5
<1>7. RowsInv
  <2>1. scopes \in [Ids -> Row]
    BY <1>1, <1>5
  <2> QED BY <1>2, <1>5, <2>1, NoLinksType DEF RowsInv
<1>8. VersionsInv
  BY <1>2, <1>6 DEF VersionsInv
<1>9. EventsInv
  BY <1>2 DEF EventsInv
<1>10. LockInv
  BY <1>2 DEF LockInv
<1>11. JobInv /\ ApartInv
  BY <1>2 DEF JobInv, LoadedInv, PreviewInv, CommitInv, ApartInv, NoJob
<1>12. OneScopePerClient
  <2>1. \A i \in Ids : scopes[i].client \notin Clients
    BY <1>5, NoneAssumption
  <2> QED BY <2>1 DEF OneScopePerClient
<1> QED BY <1>7, <1>8, <1>9, <1>10, <1>11, <1>12 DEF IInv

LEMMA NextStep == IInv /\ [Next]_vars => IInv'
<1> SUFFICES ASSUME IInv, [Next]_vars PROVE IInv'
  OBVIOUS
<1>1. CASE UNCHANGED vars
  <2>1. UNCHANGED <<scopes, links, versions, events, lock, pc, job>>
    BY <1>1 DEF vars, committed
  <2>2. RowsInv' /\ VersionsInv' /\ EventsInv' /\ LockInv' /\ ApartInv' /\ OneScopePerClient'
    BY <2>1 DEF IInv, RowsInv, VersionsInv, EventsInv, LockInv, ApartInv, OneScopePerClient,
       TakesBack
  <2>3. ASSUME NEW w \in Workers PROVE LoadedInv(w)' /\ PreviewInv(w)'
    BY <2>1 DEF IInv, JobInv, LoadedInv, PreviewInv, StaleInv
  <2>4. ASSUME NEW w \in Workers PROVE CommitInv(w)'
    <3>1. CommitInv(w)
      BY DEF IInv, JobInv
    <3>2. ASSUME NEW x PROVE WriteInv(x) => WriteInv(x)'
      BY <2>1 DEF WriteInv, After, PublicationInv, EditInv
    <3> QED BY <2>1, <3>1, <3>2 DEF CommitInv, TakesBack
  <2>5. JobInv'
    BY <2>1, <2>3, <2>4 DEF IInv, JobInv
  <2> QED BY <2>2, <2>5 DEF IInv
<1>2. ASSUME NEW w \in Workers, BulkLoad(w) PROVE IInv'
  BY <1>2, LoadStep DEF BulkLoad
<1>3. ASSUME NEW w \in Workers, MoveLoad(w) PROVE IInv'
  BY <1>3, LoadStep DEF MoveLoad
<1> QED
  BY <1>1, <1>2, <1>3, CreateStep, UpdateStep, PublishStep, DeleteStep, DeactivateStep,
     ReactivateStep, SyncStep, BulkApplyStep, BulkMoveStep, PreviewStep, ReverseStep,
     CommitStep, AbortStep DEF Next

THEOREM Invariant == Spec => []IInv
BY InitStep, NextStep, PTL DEF Spec

\* Every row has its type, and every lock belongs to a request that is open.
THEOREM RowsTyped == Spec => []TypeOK
<1>1. IInv => TypeOK
  <2> SUFFICES ASSUME IInv PROVE TypeOK
    OBVIOUS
  <2>1. \A e \in 1..Len(events) : events[e] \in Event
    BY ElementOfSeq DEF IInv, EventsInv
  <2> QED BY <2>1 DEF IInv, RowsInv, VersionsInv, LockInv, TypeOK
<1> QED BY <1>1, Invariant, PTL

\* The versions of a scope are numbered without a gap up to the version of its
\* row, and the newest one holds what is published, even when a bulk update planned
\* it from stale attributes.
THEOREM VersionsDense == Spec => []VersionsAreDense
<1>1. IInv => VersionsAreDense
  <2> SUFFICES ASSUME IInv, NEW i \in Ids, Alive(scopes[i])
               PROVE  LET numbers == {v.number : v \in {u \in versions : u.scope = i}}
                      IN /\ numbers = 2..scopes[i].version
                         /\ scopes[i].status = "published" /\ numbers # {} =>
                              \E v \in versions : /\ v.scope = i
                                                  /\ v.number = scopes[i].version
                                                  /\ v.snapshot = scopes[i].snapshot
    BY DEF VersionsAreDense
  <2> DEFINE numbers == {v.number : v \in {u \in versions : u.scope = i}}
  <2>1. numbers = 2..scopes[i].version
    BY DEF IInv, VersionsInv
  <2>2. ASSUME scopes[i].status = "published", numbers # {}
        PROVE  \E v \in versions : /\ v.scope = i /\ v.number = scopes[i].version
                                   /\ v.snapshot = scopes[i].snapshot
    <3>1. scopes[i].version \in Nat
      BY DEF IInv, RowsInv, Row
    <3>2. scopes[i].version \in 2..scopes[i].version
      BY <2>1, <2>2, <3>1
    <3>3. PICK v \in versions : v.scope = i /\ v.number = scopes[i].version
      BY <3>2 DEF IInv, VersionsInv
    <3>4. v.snapshot = scopes[i].snapshot
      BY <2>2, <3>3 DEF IInv, VersionsInv, Pub
    <3> QED BY <3>3, <3>4
  <2> QED BY <2>1, <2>2
<1> QED BY <1>1, Invariant, PTL

\* A client has at most one scope.
THEOREM OnePerClient == Spec => []OneScopePerClient
<1>1. IInv => OneScopePerClient
  BY DEF IInv
<1> QED BY <1>1, Invariant, PTL

\* The responsible user of the draft, of the column and of the assignment agree.
THEOREM ResponsibleInStep == Spec => []ResponsibleAgrees
<1>1. IInv => ResponsibleAgrees
  <2> SUFFICES ASSUME IInv, NEW i \in Ids, Alive(scopes[i])
               PROVE  /\ scopes[i].responsible = scopes[i].draft.responsible
                      /\ scopes[i].client # NoClient \/ links[i] # NoLinks
                           => links[i].users = SyncAssignments(scopes[i].draft)
    BY DEF ResponsibleAgrees
  <2>1. GoodRow(scopes[i]) /\ Agrees(scopes[i], links[i])
    BY DEF IInv, RowsInv
  <2> QED BY <2>1 DEF GoodRow, Agrees, SyncAssignments
<1> QED BY <1>1, Invariant, PTL

\* A reversal starts from what the reversed event left and takes only that back.
THEOREM ReversalIsSafe == Spec => []ReversalSparesLaterChanges
<1>1. IInv => ReversalSparesLaterChanges
  BY DEF IInv, EventsInv, TakesBack, ReversalSparesLaterChanges
<1> QED BY <1>1, Invariant, PTL

\* An inactive scope is not written until it comes back, as it was.
THEOREM ArchivedFrozen == Spec => ArchivedIsFrozen
<1> DEFINE A == \A i \in Ids :
             scopes[i].status = "archived" =>
               /\ links'[i] = links[i]
               /\ {v \in versions' : v.scope = i} = {v \in versions : v.scope = i}
               /\ scopes'[i] \in {scopes[i], Reactivated(scopes[i])}
<1>1. IInv /\ [Next]_vars => A
  <2> SUFFICES ASSUME IInv, [Next]_vars PROVE A
    OBVIOUS
  <2>1. ASSUME UNCHANGED committed PROVE A
    BY <2>1 DEF committed
  <2>2. ASSUME NEW w \in Workers, Commit(w) PROVE A
    <3> SUFFICES ASSUME NEW i \in Ids, scopes[i].status = "archived"
                 PROVE  /\ links'[i] = links[i]
                        /\ {v \in versions' : v.scope = i} = {v \in versions : v.scope = i}
                        /\ scopes'[i] \in {scopes[i], Reactivated(scopes[i])}
      OBVIOUS
    <3>1. ASSUME NEW x \in job[w].writes, x.scope = i
          PROVE  /\ scopes'[i] = Reactivated(scopes[i]) /\ links'[i] = links[i] /\ ~x.publishes
      BY <2>2, <3>1, CommitRows DEF WriteInv
    <3>2. links'[i] = links[i] /\ scopes'[i] \in {scopes[i], Reactivated(scopes[i])}
      BY <2>2, <3>1, CommitRows
    <3>3. Alive(Reactivated(scopes[i])) /\ Alive(scopes[i])
      BY ReactivatedGood DEF IInv, RowsInv, Alive
    <3>4. scopes'[i].status # "deleted"
      BY <3>2, <3>3 DEF Alive
    <3>5. \A v \in NewVersions(w) : v.scope # i
      BY <3>1 DEF NewVersions
    <3>6. versions' = {v \in versions : scopes'[v.scope].status # "deleted"} \cup NewVersions(w)
      BY <2>2 DEF Commit
    <3>7. {v \in versions' : v.scope = i} = {v \in versions : v.scope = i}
      BY <3>4, <3>5, <3>6
    <3> QED BY <3>2, <3>7
  <2> HIDE DEF A
  <2>3. ASSUME NEW w \in Workers,
               \/ Create(w) \/ Update(w) \/ Publish(w) \/ Delete(w) \/ Deactivate(w)
               \/ Reactivate(w) \/ Sync(w) \/ BulkLoad(w) \/ MoveLoad(w) \/ BulkApply(w)
               \/ BulkMove(w) \/ Preview(w) \/ Reverse(w) \/ Abort(w)
        PROVE  UNCHANGED committed
    BY <2>3 DEF Create, Update, Publish, Delete, Deactivate, Reactivate, Sync, BulkLoad,
       MoveLoad, BulkApply, BulkMove, Preview, Reverse, Abort, PlanOne, Plan, Snapshots
  <2> QED BY <2>1, <2>2, <2>3 DEF Next, vars
<1>2. Spec => [][A]_vars
  BY <1>1, Invariant, PTL DEF Spec
<1> QED BY <1>2, PTL DEF ArchivedIsFrozen

=============================================================================
