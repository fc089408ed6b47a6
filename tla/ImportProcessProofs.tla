------------------------- MODULE ImportProcessProofs -------------------------
(***************************************************************************)
(* For any number of workers, items, exporters, snapshots, plans and       *)
(* drafts, the last plan of a snapshot is the one that requests work with, *)
(* every row keeps its type, and the ladder of get_nfe_workflow_state      *)
(* names only steps that the service accepts.  The plans need to know what *)
(* an open plan request read before it writes; the types, that the rows it *)
(* read are still there; the ladder, what the rows keep of the requests    *)
(* that wrote them: a plan its classification and its exporters, an XML    *)
(* the grade of the draft it was made from.                                *)
(***************************************************************************)
EXTENDS ImportProcess, OrderLemmas, FiniteSetTheorems, SequenceTheorems, TLAPS

USE ProcessAssumption

-----------------------------------------------------------------------------
(* The inductive invariant                                                 *)

\* Somebody classified an item of snapshot s, if it has any.
Seen(s, classified) == Items = {} \/ \E r \in classified : r.snap = s

SnapshotsInv ==
  /\ snapshots \in Seq(Snapshot) /\ Len(snapshots) <= MaxSnapshots
  /\ saves \in Nat /\ saved \in [1..MaxSnapshots -> Nat]
  /\ \A s \in 1..MaxSnapshots : saved[s] > 0 => Seen(s, rows)

\* A plan divides the exporters of its snapshot, whose items were classified.
GoodPlan(p, shots, classified) ==
  /\ p.snap \in 1..Len(shots)
  /\ p.documents = shots[p.snap].exporters
  /\ Seen(p.snap, classified)

\* The versions of one snapshot grow; when one of its plans is planned, the
\* last of them is.
Ordered(all) ==
  /\ \A p \in DOMAIN all : all[p].version <= p
  /\ \A p, q \in DOMAIN all :
       all[p].snap = all[q].snap /\ p < q => all[p].version < all[q].version
  /\ \A p \in DOMAIN all : all[p].status = "planned" =>
       \E q \in DOMAIN all :
         /\ all[q].snap = all[p].snap /\ all[q].status = "planned"
         /\ \A r \in DOMAIN all : all[r].snap = all[p].snap => r <= q

PlansInv ==
  /\ plans \in Seq(Plan) /\ Len(plans) <= MaxPlans
  /\ \A p \in DOMAIN plans : GoodPlan(plans[p], snapshots, rows)
  /\ Ordered(plans)

\* A planned plan that a plan request did not read was written after every plan
\* that it did read.
Later(P, all) ==
  \A p \in DOMAIN all : all[p].status = "planned" /\ p \notin P =>
    \A q \in P : q < p

ReadRow == [snap : 0..MaxSnapshots, plans : SUBSET (1..MaxPlans),
            missing : SUBSET Exporters, at : Nat]

ReadInv ==
  /\ pc \in [Workers -> {"idle", "planning", "drafting"}]
  /\ read \in [Workers -> ReadRow]
  /\ \A w \in Workers : pc[w] = "planning" =>
       /\ read[w].snap \in 1..Len(snapshots) /\ Seen(read[w].snap, rows)
       /\ read[w].plans \subseteq DOMAIN plans /\ Later(read[w].plans, plans)
  /\ \A w \in Workers : IsFiniteSet(read[w].missing)

\* An XML has the key of its draft. As long as it is not outdated, its content
\* is that of the draft; a signed one is.
GoodDraft(d) ==
  /\ DOMAIN d = {"snap", "plan", "exporter", "grade", "key", "xml", "fits",
                 "stale", "at", "removed"}
  /\ d.grade \in Grades /\ d.at \in Nat
  /\ d.key \in BOOLEAN /\ d.fits \in BOOLEAN /\ d.stale \in BOOLEAN /\ d.removed \in BOOLEAN
  /\ d.xml \in {"none", "unknown", "valid", "invalid", "signed"}
  /\ d.xml # "none" => d.key
  /\ d.xml = "valid" => d.fits
  /\ d.xml # "none" /\ ~d.stale /\ d.fits => d.grade \in {"fit", "blocked"}
  /\ d.xml = "signed" => d.grade = "fit"

DraftsInv ==
  /\ drafts \in Seq(ToSet(drafts))
  /\ \A d \in DOMAIN drafts : GoodDraft(drafts[d])

IInv == SnapshotsInv /\ PlansInv /\ ReadInv /\ DraftsInv

-----------------------------------------------------------------------------
(* Rows that only grow                                                     *)

LEMMA SeqRange ==
  ASSUME NEW S, NEW s \in Seq(S)
  PROVE  s \in Seq(ToSet(s))
<1>1. s \in [1..Len(s) -> ToSet(s)] /\ Len(s) \in Nat
  BY LenProperties DEF ToSet
<1> QED BY <1>1

THEOREM Initially == Init => IInv
<1> SUFFICES ASSUME Init PROVE IInv
  OBVIOUS
<1> USE DEF Init
<1>1. SnapshotsInv
  BY EmptySeq DEF SnapshotsInv
<1>2. PlansInv
  BY EmptySeq DEF PlansInv, Ordered
<1>3. ReadInv
  <2>1. NoRead \in ReadRow /\ IsFiniteSet(NoRead.missing)
    BY FS_EmptySet DEF NoRead, ReadRow
  <2> QED BY <2>1 DEF ReadInv
<1>4. DraftsInv
  BY EmptySeq DEF DraftsInv
<1> QED BY <1>1, <1>2, <1>3, <1>4 DEF IInv

\* Steps that leave the rows and the requests alone: the prerequisites, the tax
\* rule, the order of the drafts.
LEMMA QuietStep ==
  ASSUME IInv, UNCHANGED <<snapshots, rows, saves, saved, plans, drafts, pc, read>>
  PROVE  IInv'
<1>1. SnapshotsInv'
  BY DEF IInv, SnapshotsInv
<1>2. PlansInv'
  BY DEF IInv, PlansInv
<1>3. ReadInv'
  BY DEF IInv, ReadInv
<1>4. DraftsInv'
  BY DEF IInv, DraftsInv
<1> QED BY <1>1, <1>2, <1>3, <1>4 DEF IInv

\* A snapshot is added, or its payload rewritten: those there are keep their
\* exporters.
LEMMA SnapshotsStep ==
  ASSUME IInv, UNCHANGED <<rows, saves, saved, plans, drafts, pc, read>>,
         snapshots' \in Seq(Snapshot),
         Len(snapshots') \in Len(snapshots)..MaxSnapshots,
         \A s \in 1..Len(snapshots) : snapshots'[s].exporters = snapshots[s].exporters
  PROVE  IInv'
<1>1. Len(snapshots) \in Nat /\ Len(snapshots') \in Nat /\ MaxSnapshots \in Nat
  BY LenProperties DEF IInv, SnapshotsInv
<1>2. SnapshotsInv'
  BY <1>1 DEF IInv, SnapshotsInv
<1>3. PlansInv'
  BY <1>1 DEF IInv, PlansInv, GoodPlan
<1>4. ReadInv'
  BY <1>1 DEF IInv, ReadInv
<1>5. DraftsInv'
  BY DEF IInv, DraftsInv
<1> QED BY <1>2, <1>3, <1>4, <1>5 DEF IInv

LEMMA AddSnapshotStep ==
  ASSUME IInv, AddSnapshot
  PROVE  IInv'
<1>1. PICK s \in Snapshot : snapshots' = Append(snapshots, s)
  BY DEF AddSnapshot, CreateSnapshot
<1>2. snapshots \in Seq(Snapshot) /\ Len(snapshots) \in Nat /\ MaxSnapshots \in Nat
  BY LenProperties DEF IInv, SnapshotsInv
<1>3. /\ snapshots' \in Seq(Snapshot) /\ Len(snapshots') = Len(snapshots) + 1
      /\ \A k \in 1..Len(snapshots) : snapshots'[k] = snapshots[k]
  BY <1>1, <1>2, AppendProperties
<1>4. Len(snapshots') \in Len(snapshots)..MaxSnapshots
  BY <1>2, <1>3 DEF AddSnapshot, Newest
<1> QED BY <1>3, <1>4, SnapshotsStep DEF AddSnapshot, workers

LEMMA ResolveStep ==
  ASSUME IInv, NEW s \in 1..Len(snapshots), ResolveContext(s)
  PROVE  IInv'
<1> DEFINE new == [snapshots[s] EXCEPT !.complete = TRUE]
<1>1. snapshots \in Seq(Snapshot) /\ Len(snapshots) \in Nat
      /\ Len(snapshots) <= MaxSnapshots /\ MaxSnapshots \in Nat
  BY LenProperties DEF IInv, SnapshotsInv
<1>2. snapshots[s] \in Snapshot
  BY <1>1, ElementOfSeq
<1>3. new \in Snapshot /\ new.exporters = snapshots[s].exporters
  BY <1>2 DEF Snapshot
<1>4. snapshots' = [snapshots EXCEPT ![s] = new]
  BY DEF ResolveContext
<1> HIDE DEF new
<1>5. /\ snapshots' \in Seq(Snapshot) /\ Len(snapshots') = Len(snapshots)
      /\ \A k \in 1..Len(snapshots) : snapshots'[k] = IF k = s THEN new ELSE snapshots[k]
  BY <1>1, <1>3, <1>4, ExceptSeq
<1>6. \A k \in 1..Len(snapshots) : snapshots'[k].exporters = snapshots[k].exporters
  BY <1>3, <1>5
<1> QED BY <1>1, <1>5, <1>6, SnapshotsStep DEF ResolveContext, workers

\* An item that was classified stays so, by this save or by an earlier one.
LEMMA ClassifyStep ==
  ASSUME IInv, NEW s \in 1..Len(snapshots), NEW I \in SUBSET Items,
         I # {} \/ Items = {}, Classify(s, I)
  PROVE  IInv'
<1>1. \A k : Seen(k, rows) => Seen(k, rows')
  <2> SUFFICES ASSUME NEW k, NEW r \in rows, r.snap = k
               PROVE  \E q \in rows' : q.snap = k
    BY DEF Seen
  <2>1. CASE r.snap # s \/ r.item \notin I
    BY <2>1 DEF Classify
  <2>2. CASE r.snap = s /\ r.item \in I
    <3> DEFINE q == [snap |-> s, item |-> r.item, ruled |-> rule = "active"]
    <3>1. q \in rows' /\ q.snap = k
      BY <2>2 DEF Classify
    <3> QED BY <3>1
  <2> QED BY <2>1, <2>2
<1>2. Seen(s, rows')
  <2>1. CASE Items = {}
    BY <2>1 DEF Seen
  <2>2. CASE I # {}
    <3>1. PICK i \in I : TRUE
      BY <2>2
    <3> DEFINE q == [snap |-> s, item |-> i, ruled |-> rule = "active"]
    <3>2. q \in rows' /\ q.snap = s
      BY DEF Classify
    <3> QED BY <3>2 DEF Seen
  <2> QED BY <2>1, <2>2
<1>3. SnapshotsInv'
  <2>1. saves' = saves + 1 /\ saves \in Nat /\ UNCHANGED snapshots
    BY DEF IInv, SnapshotsInv, Classify
  <2>2. saved \in [1..MaxSnapshots -> Nat] /\ saved' = [saved EXCEPT ![s] = saves + 1]
    BY DEF IInv, SnapshotsInv, Classify
  <2>3. saved' \in [1..MaxSnapshots -> Nat]
    <3>1. saves + 1 \in Nat
      BY <2>1
    <3> QED BY <2>2, <3>1
  <2>4. \A k \in 1..MaxSnapshots : saved'[k] > 0 => Seen(k, rows')
    <3> TAKE k \in 1..MaxSnapshots
    <3>1. CASE k = s
      BY <3>1, <1>2
    <3>2. CASE k # s
      BY <3>2, <2>2, <1>1 DEF IInv, SnapshotsInv
    <3> QED BY <3>1, <3>2
  <2> QED BY <2>1, <2>3, <2>4 DEF IInv, SnapshotsInv
<1>4. UNCHANGED <<snapshots, plans, drafts, pc, read>>
  BY DEF Classify, workers
<1>5. PlansInv'
  BY <1>4, <1>1 DEF IInv, PlansInv, GoodPlan
<1>6. ReadInv'
  BY <1>4, <1>1 DEF IInv, ReadInv
<1>7. DraftsInv'
  BY <1>4 DEF IInv, DraftsInv
<1> QED BY <1>3, <1>5, <1>6, <1>7 DEF IInv

-----------------------------------------------------------------------------
(* The requests                                                            *)

LEMMA NothingRead == NoRead \in ReadRow /\ IsFiniteSet(NoRead.missing)
BY FS_EmptySet DEF NoRead, ReadRow

\* A request ends, whatever it wrote: the others find what they know still true.
LEMMA CloseStep ==
  ASSUME IInv, NEW w \in Workers, Close(w), UNCHANGED <<snapshots, rows>>,
         DOMAIN plans \subseteq DOMAIN plans',
         \A Q \in SUBSET DOMAIN plans : Later(Q, plans) => Later(Q, plans')
  PROVE  ReadInv'
<1>1. /\ pc \in [Workers -> {"idle", "planning", "drafting"}] /\ read \in [Workers -> ReadRow]
      /\ pc' = [pc EXCEPT ![w] = "idle"] /\ read' = [read EXCEPT ![w] = NoRead]
  BY DEF IInv, ReadInv, Close
<1>2. /\ pc' \in [Workers -> {"idle", "planning", "drafting"}]
      /\ read' \in [Workers -> ReadRow]
  BY <1>1, NothingRead
<1>3. ASSUME NEW v \in Workers, pc'[v] = "planning"
      PROVE  /\ read'[v].snap \in 1..Len(snapshots') /\ Seen(read'[v].snap, rows')
             /\ read'[v].plans \subseteq DOMAIN plans' /\ Later(read'[v].plans, plans')
  <2>1. v # w /\ read'[v] = read[v] /\ pc[v] = "planning"
    BY <1>1, <1>3
  <2> QED BY <2>1 DEF IInv, ReadInv
<1>4. \A v \in Workers : IsFiniteSet(read'[v].missing)
  BY <1>1, NothingRead DEF IInv, ReadInv
<1> QED BY <1>2, <1>3, <1>4 DEF ReadInv

LEMMA AbortStep ==
  ASSUME IInv, NEW w \in Workers, Abort(w)
  PROVE  IInv'
<1>1. UNCHANGED <<snapshots, rows, saves, saved, plans, drafts>> /\ Close(w)
  BY DEF Abort, tables
<1>2. SnapshotsInv' /\ PlansInv' /\ DraftsInv'
  BY <1>1 DEF IInv, SnapshotsInv, PlansInv, DraftsInv
<1>3. ReadInv'
  BY <1>1, CloseStep
<1> QED BY <1>2, <1>3 DEF IInv

\* A request reads; what it keeps is what CommitPlan or CommitChildren relies on.
LEMMA OpenStep ==
  ASSUME IInv, NEW w \in Workers, NEW k \in {"planning", "drafting"}, NEW x \in ReadRow,
         UNCHANGED <<snapshots, rows, saves, saved, plans, drafts>>,
         pc' = [pc EXCEPT ![w] = k], read' = [read EXCEPT ![w] = x],
         IsFiniteSet(x.missing),
         k = "planning" => /\ x.snap \in 1..Len(snapshots) /\ Seen(x.snap, rows)
                           /\ x.plans \subseteq DOMAIN plans /\ Later(x.plans, plans)
  PROVE  IInv'
<1>1. SnapshotsInv' /\ PlansInv' /\ DraftsInv'
  BY DEF IInv, SnapshotsInv, PlansInv, DraftsInv
<1>2. ReadInv'
  BY DEF IInv, ReadInv
<1> QED BY <1>1, <1>2 DEF IInv

\* A snapshot that is ready had its items classified.
LEMMA ReadyIsSeen ==
  ASSUME NEW s, Ready(s)
  PROVE  Seen(s, rows)
<1>1. CASE Items = {}
  BY <1>1 DEF Seen
<1>2. CASE Items # {}
  <2>1. PICK i \in Items : Classified(s, i)
    BY <1>2 DEF Ready
  <2> DEFINE r == [snap |-> s, item |-> i, ruled |-> TRUE]
  <2>2. r \in rows /\ r.snap = s
    BY <2>1 DEF Classified
  <2> QED BY <2>2 DEF Seen
<1> QED BY <1>1, <1>2

LEMMA ReadPlanStep ==
  ASSUME IInv, NEW w \in Workers, NEW s \in 1..Len(snapshots), ReadPlan(w, s)
  PROVE  IInv'
<1> DEFINE x == [NoRead EXCEPT !.snap = s, !.plans = AllPlanned, !.at = saves]
<1>1. Len(plans) \in Nat /\ DOMAIN plans = 1..Len(plans) /\ Len(plans) <= MaxPlans
      /\ MaxPlans \in Nat
  BY LenProperties DEF IInv, PlansInv
<1>2. Len(snapshots) \in Nat /\ Len(snapshots) <= MaxSnapshots /\ MaxSnapshots \in Nat
      /\ saves \in Nat
  BY LenProperties DEF IInv, SnapshotsInv
<1>3. NoRead \in ReadRow /\ NoRead.missing = {}
  BY NothingRead DEF NoRead
<1>4. AllPlanned \in SUBSET DOMAIN plans
  BY DEF AllPlanned
<1>5. Later(AllPlanned, plans)
  BY DEF AllPlanned, Later
<1>6. x \in ReadRow
  <2>1. AllPlanned \in SUBSET (1..MaxPlans)
    BY <1>1, <1>4
  <2>2. s \in 0..MaxSnapshots /\ {} \in SUBSET Exporters /\ saves \in Nat
    BY <1>2
  <2> QED BY <1>3, <2>1, <2>2 DEF ReadRow
<1>7. x.snap = s /\ x.plans = AllPlanned /\ IsFiniteSet(x.missing)
  BY <1>3, FS_EmptySet DEF ReadRow
<1>8. /\ pc' = [pc EXCEPT ![w] = "planning"] /\ read' = [read EXCEPT ![w] = x]
      /\ UNCHANGED <<snapshots, rows, saves, saved, plans, drafts>>
  BY DEF ReadPlan, tables
<1>9. Seen(s, rows)
  BY ReadyIsSeen DEF ReadPlan, CanPlan
<1> HIDE DEF x
<1> QED BY <1>4, <1>5, <1>6, <1>7, <1>8, <1>9, OpenStep

\* The documents of a plan are the exporters of a DUIMP: finitely many.
LEMMA DocumentsOfPlan ==
  ASSUME IInv, NEW p \in DOMAIN plans
  PROVE  /\ plans[p] \in Plan /\ plans[p].snap \in 1..Len(snapshots)
         /\ plans[p].documents = ExportersOf(plans[p].snap)
         /\ plans[p].documents # {} /\ IsFiniteSet(plans[p].documents)
<1>1. plans[p] \in Plan
  BY LenProperties, ElementOfSeq DEF IInv, PlansInv
<1>2. GoodPlan(plans[p], snapshots, rows)
  BY DEF IInv, PlansInv
<1>3. snapshots[plans[p].snap] \in Snapshot
  BY <1>2, ElementOfSeq DEF GoodPlan, IInv, SnapshotsInv
<1>4. snapshots[plans[p].snap].exporters \in Duimps
  BY <1>3 DEF Snapshot
<1> QED BY <1>1, <1>2, <1>4 DEF GoodPlan, ExportersOf

LEMMA ReadChildrenStep ==
  ASSUME IInv, NEW w \in Workers, NEW s \in 1..Len(snapshots), ReadChildren(w, s)
  PROVE  IInv'
<1>1. PICK p \in ActivePlan(s) :
        read' = [read EXCEPT ![w] = [snap |-> s, plans |-> {p},
                                     missing |-> Missing(p), at |-> saves]]
  BY DEF ReadChildren
<1> DEFINE x == [snap |-> s, plans |-> {p}, missing |-> Missing(p), at |-> saves]
<1>2. p \in DOMAIN plans
  BY DEF ActivePlan, PlannedOf
<1>3. Missing(p) \subseteq plans[p].documents
  BY DEF Missing
<1>4. IsFiniteSet(Missing(p))
  BY <1>2, <1>3, DocumentsOfPlan, FS_Subset
<1>5. Missing(p) \in SUBSET Exporters
  BY <1>2, <1>3, DocumentsOfPlan DEF Plan
<1>6. Len(plans) \in Nat /\ DOMAIN plans = 1..Len(plans) /\ Len(plans) <= MaxPlans
      /\ MaxPlans \in Nat
  BY LenProperties DEF IInv, PlansInv
<1>7. Len(snapshots) \in Nat /\ Len(snapshots) <= MaxSnapshots /\ MaxSnapshots \in Nat
      /\ saves \in Nat
  BY LenProperties DEF IInv, SnapshotsInv
<1>8. x \in ReadRow
  BY <1>2, <1>5, <1>6, <1>7 DEF ReadRow
<1>9. /\ pc' = [pc EXCEPT ![w] = "drafting"] /\ read' = [read EXCEPT ![w] = x]
      /\ UNCHANGED <<snapshots, rows, saves, saved, plans, drafts>>
  BY <1>1 DEF ReadChildren, tables
<1>10. x.missing = Missing(p)
  OBVIOUS
<1> HIDE DEF x
<1> QED BY <1>4, <1>8, <1>9, <1>10, OpenStep

-----------------------------------------------------------------------------
(* Document plans                                                          *)

\* The version of the next plan is higher than those of its snapshot, and not
\* higher than the number of its row.
LEMMA NextPlanIsNew ==
  ASSUME PlansInv, NEW s
  PROVE  /\ NextPlan(s) \in 1..Len(plans) + 1
         /\ \A p \in DOMAIN plans : plans[p].snap = s => plans[p].version < NextPlan(s)
<1> DEFINE V == {0} \cup {plans[p].version : p \in {q \in DOMAIN plans : plans[q].snap = s}}
<1>1. Len(plans) \in Nat /\ DOMAIN plans = 1..Len(plans) /\ MaxPlans \in Nat
  BY LenProperties DEF PlansInv
<1>2. \A p \in DOMAIN plans : plans[p].version \in 0..Len(plans)
  <2> TAKE p \in DOMAIN plans
  <2>1. plans[p] \in Plan
    BY <1>1, ElementOfSeq DEF PlansInv
  <2>2. plans[p].version \in Nat /\ plans[p].version <= p
    BY <2>1, <1>1 DEF Plan, PlansInv, Ordered
  <2> QED BY <2>2, <1>1
<1>3. V \in SUBSET (0..Len(plans)) /\ V # {}
  BY <1>1, <1>2
<1>4. \A p \in DOMAIN plans : plans[p].snap = s => plans[p].version \in V
  OBVIOUS
<1>5. NextPlan(s) = 1 + Max(V)
  BY DEF NextPlan
<1> HIDE DEF V
<1>6. Max(V) \in 0..Len(plans) /\ \A v \in V : Max(V) >= v
  BY <1>1, <1>3, BoundedMax
<1> QED
  <2>1. NextPlan(s) \in 1..Len(plans) + 1
    BY <1>1, <1>5, <1>6
  <2>2. ASSUME NEW p \in DOMAIN plans, plans[p].snap = s
        PROVE  plans[p].version < NextPlan(s)
    <3>1. plans[p].version <= Max(V) /\ plans[p].version \in Int /\ Max(V) \in Int
      BY <2>2, <1>1, <1>2, <1>4, <1>6
    <3> QED BY <3>1, <1>5
  <2> QED BY <2>1, <2>2

\* What the new sequence of plans is, plan by plan.
LEMMA WrittenPlans ==
  ASSUME IInv, NEW s \in 1..Len(snapshots), NEW P \in SUBSET DOMAIN plans,
         NEW t \in Nat, WritePlan(s, P, t)
  PROVE  /\ plans' \in Seq(Plan) /\ Len(plans) \in Nat
         /\ DOMAIN plans = 1..Len(plans) /\ DOMAIN plans' = 1..Len(plans) + 1
         /\ Len(plans') = Len(plans) + 1 /\ Len(plans') <= MaxPlans
         /\ plans'[Len(plans) + 1].snap = s
         /\ plans'[Len(plans) + 1].version = NextPlan(s)
         /\ plans'[Len(plans) + 1].status = "planned"
         /\ plans'[Len(plans) + 1].documents = ExportersOf(s)
         /\ \A p \in 1..Len(plans) :
              /\ plans'[p].snap = plans[p].snap /\ plans'[p].version = plans[p].version
              /\ plans'[p].documents = plans[p].documents
              /\ plans'[p].status = IF p \in P THEN "superseded" ELSE plans[p].status
<1> DEFINE new == [snap |-> s, version |-> NextPlan(s), at |-> t,
                   status |-> "planned", documents |-> ExportersOf(s)]
           old == Superseded(P)
           n == Len(plans)
<1>1. plans \in Seq(Plan) /\ n \in Nat /\ DOMAIN plans = 1..n /\ MaxPlans \in Nat
  BY LenProperties DEF IInv, PlansInv
<1>2. \A p \in 1..n : plans[p] \in Plan
  BY <1>1, ElementOfSeq
<1>3. \A p \in 1..n :
        /\ old[p] \in Plan
        /\ old[p].snap = plans[p].snap /\ old[p].version = plans[p].version
        /\ old[p].documents = plans[p].documents
        /\ old[p].status = IF p \in P THEN "superseded" ELSE plans[p].status
  BY <1>1, <1>2 DEF Superseded, Plan
<1>4. old \in [1..n -> Plan]
  BY <1>1, <1>3 DEF Superseded
<1>5. old \in Seq(Plan) /\ Len(old) = n
  BY <1>1, <1>4
<1>6. n + 1 <= MaxPlans
  BY <1>1 DEF WritePlan
<1>7. new \in Plan
  <2>1. NextPlan(s) \in 1..n + 1
    BY NextPlanIsNew DEF IInv
  <2>2. snapshots[s] \in Snapshot
    BY ElementOfSeq DEF IInv, SnapshotsInv
  <2>3. ExportersOf(s) \in SUBSET Exporters
    BY <2>2 DEF ExportersOf, Snapshot, Exporters
  <2>4. s \in 1..MaxSnapshots
    BY LenProperties DEF IInv, SnapshotsInv
  <2>5. NextPlan(s) \in 1..MaxPlans
    BY <1>1, <1>6, <2>1
  <2> QED BY <2>3, <2>4, <2>5 DEF Plan
<1>8. plans' = Append(old, new)
  BY DEF WritePlan
<1> HIDE DEF new, old
<1>9. /\ plans' \in Seq(Plan) /\ Len(plans') = n + 1
      /\ plans'[n + 1] = new /\ \A p \in 1..n : plans'[p] = old[p]
  BY <1>1, <1>5, <1>7, <1>8, AppendProperties
<1>10. DOMAIN plans' = 1..n + 1
  BY <1>9, LenProperties
<1>11. /\ new.snap = s /\ new.version = NextPlan(s)
       /\ new.status = "planned" /\ new.documents = ExportersOf(s)
  BY DEF new
<1> QED BY <1>1, <1>3, <1>6, <1>9, <1>10, <1>11

\* The order of the plans survives: the last planned plan of a snapshot is only
\* superseded together with all the planned ones before it, because a request
\* that read it had read these as well.
LEMMA WritePlanOrder ==
  ASSUME IInv, NEW s \in 1..Len(snapshots), NEW P \in SUBSET DOMAIN plans,
         Later(P, plans), NEW t \in Nat, WritePlan(s, P, t)
  PROVE  Ordered(plans')
<1> DEFINE n == Len(plans)
<1>1. /\ n \in Nat /\ DOMAIN plans = 1..n /\ DOMAIN plans' = 1..n + 1
      /\ plans'[n + 1].snap = s /\ plans'[n + 1].version = NextPlan(s)
      /\ plans'[n + 1].status = "planned"
  BY WrittenPlans
<1>2. \A p \in 1..n :
        /\ plans'[p].snap = plans[p].snap /\ plans'[p].version = plans[p].version
        /\ plans'[p].status = IF p \in P THEN "superseded" ELSE plans[p].status
  BY WrittenPlans
<1>3. /\ NextPlan(s) \in 1..n + 1
      /\ \A p \in 1..n : plans[p].snap = s => plans[p].version < NextPlan(s)
  BY <1>1, NextPlanIsNew DEF IInv
<1>4. Ordered(plans)
  BY DEF IInv, PlansInv
<1> HIDE DEF n
<1>5. ASSUME NEW p \in 1..n + 1
      PROVE  plans'[p].version <= p
  <2>1. CASE p \in 1..n
    BY <1>1, <1>2, <1>4, <2>1 DEF Ordered
  <2>2. CASE p = n + 1
    BY <1>1, <1>3, <2>2
  <2> QED BY <1>1, <2>1, <2>2
<1>6. ASSUME NEW p \in 1..n + 1, NEW q \in 1..n + 1,
             plans'[p].snap = plans'[q].snap, p < q
      PROVE  plans'[p].version < plans'[q].version
  <2>1. p \in 1..n
    BY <1>1, <1>6
  <2>2. CASE q \in 1..n
    BY <1>1, <1>2, <1>4, <1>6, <2>1, <2>2 DEF Ordered
  <2>3. CASE q = n + 1
    BY <1>1, <1>2, <1>3, <1>6, <2>1, <2>3
  <2> QED BY <1>1, <2>2, <2>3
<1>7. ASSUME NEW p \in 1..n + 1, plans'[p].status = "planned"
      PROVE  \E q \in 1..n + 1 :
               /\ plans'[q].snap = plans'[p].snap /\ plans'[q].status = "planned"
               /\ \A r \in 1..n + 1 : plans'[r].snap = plans'[p].snap => r <= q
  <2>1. CASE plans'[p].snap = s
    <3>1. \A r \in 1..n + 1 : plans'[r].snap = plans'[p].snap => r <= n + 1
      BY <1>1
    <3> QED BY <1>1, <2>1, <3>1
  <2>2. CASE plans'[p].snap # s
    <3>1. p \in 1..n /\ p \notin P /\ plans[p].status = "planned"
      BY <1>1, <1>2, <1>7, <2>2
    <3>2. PICK q \in 1..n :
            /\ plans[q].snap = plans[p].snap /\ plans[q].status = "planned"
            /\ \A r \in 1..n : plans[r].snap = plans[p].snap => r <= q
      BY <1>1, <1>4, <3>1 DEF Ordered
    <3>3. q \notin P
      <4>1. p <= q
        BY <3>1, <3>2
      <4>2. q \in P => q < p
        BY <1>1, <3>1 DEF Later
      <4> QED BY <1>1, <3>1, <4>1, <4>2
    <3>4. plans'[q].snap = plans'[p].snap /\ plans'[q].status = "planned"
      BY <1>2, <3>1, <3>2, <3>3
    <3>5. \A r \in 1..n + 1 : plans'[r].snap = plans'[p].snap => r <= q
      <4> TAKE r \in 1..n + 1
      <4>1. CASE r = n + 1
        BY <1>1, <2>2, <4>1
      <4>2. CASE r \in 1..n
        BY <1>2, <3>1, <3>2, <4>2
      <4> QED BY <1>1, <4>1, <4>2
    <3> QED BY <1>1, <3>4, <3>5
  <2> QED BY <2>1, <2>2
<1> QED BY <1>1, <1>5, <1>6, <1>7 DEF Ordered

LEMMA WritePlanStep ==
  ASSUME IInv, NEW s \in 1..Len(snapshots), NEW P \in SUBSET DOMAIN plans,
         Later(P, plans), Seen(s, rows), NEW t \in Nat, WritePlan(s, P, t)
  PROVE  /\ SnapshotsInv' /\ PlansInv' /\ DraftsInv' /\ UNCHANGED <<snapshots, rows>>
         /\ DOMAIN plans \subseteq DOMAIN plans'
         /\ \A Q \in SUBSET DOMAIN plans : Later(Q, plans) => Later(Q, plans')
<1> DEFINE n == Len(plans)
<1>1. /\ plans' \in Seq(Plan) /\ n \in Nat
      /\ DOMAIN plans = 1..n /\ DOMAIN plans' = 1..n + 1
      /\ Len(plans') <= MaxPlans
      /\ plans'[n + 1].snap = s /\ plans'[n + 1].documents = ExportersOf(s)
  BY WrittenPlans
<1>2. \A p \in 1..n :
        /\ plans'[p].snap = plans[p].snap /\ plans'[p].documents = plans[p].documents
        /\ plans'[p].status = IF p \in P THEN "superseded" ELSE plans[p].status
  BY WrittenPlans
<1>3. UNCHANGED <<snapshots, rows, saves, saved, drafts>>
  BY DEF WritePlan
<1> HIDE DEF n
<1>4. SnapshotsInv' /\ DraftsInv'
  BY <1>3 DEF IInv, SnapshotsInv, DraftsInv
<1>5. \A p \in DOMAIN plans' : GoodPlan(plans'[p], snapshots, rows)
  <2> TAKE p \in DOMAIN plans'
  <2>1. CASE p = n + 1
    BY <1>1, <2>1 DEF GoodPlan, ExportersOf
  <2>2. CASE p \in 1..n
    <3>1. GoodPlan(plans[p], snapshots, rows)
      BY <1>1, <2>2 DEF IInv, PlansInv
    <3> QED BY <1>2, <2>2, <3>1 DEF GoodPlan
  <2> QED BY <1>1, <2>1, <2>2
<1>6. Ordered(plans')
  BY WritePlanOrder
<1>7. PlansInv'
  BY <1>1, <1>3, <1>5, <1>6 DEF PlansInv
<1>8. ASSUME NEW Q \in SUBSET DOMAIN plans, Later(Q, plans)
      PROVE  Later(Q, plans')
  <2> SUFFICES ASSUME NEW p \in DOMAIN plans', plans'[p].status = "planned", p \notin Q,
                      NEW q \in Q
               PROVE  q < p
    BY DEF Later
  <2>1. CASE p = n + 1
    BY <1>1, <2>1
  <2>2. CASE p \in 1..n
    <3>1. plans[p].status = "planned"
      BY <1>2, <2>2
    <3> QED BY <1>1, <1>8, <2>2, <3>1 DEF Later
  <2> QED BY <1>1, <2>1, <2>2
<1>9. DOMAIN plans \subseteq DOMAIN plans'
  BY <1>1
<1> QED BY <1>3, <1>4, <1>7, <1>8, <1>9

\* A plan request ends with its plan; the others go on.
LEMMA CommitPlanStep ==
  ASSUME IInv, NEW w \in Workers, CommitPlan(w)
  PROVE  IInv'
<1> DEFINE s == read[w].snap
           P == read[w].plans
<1>1. PICK t \in read[w].at..saves : WritePlan(s, P, t)
  BY DEF CommitPlan
<1>2. /\ s \in 1..Len(snapshots) /\ Seen(s, rows) /\ Later(P, plans)
      /\ P \in SUBSET DOMAIN plans
  BY DEF CommitPlan, IInv, ReadInv
<1>3. t \in Nat
  BY <1>1 DEF IInv, ReadInv, ReadRow, SnapshotsInv
<1> HIDE DEF s, P
<1>4. /\ SnapshotsInv' /\ PlansInv' /\ DraftsInv' /\ UNCHANGED <<snapshots, rows>>
      /\ DOMAIN plans \subseteq DOMAIN plans'
      /\ \A Q \in SUBSET DOMAIN plans : Later(Q, plans) => Later(Q, plans')
  BY <1>1, <1>2, <1>3, WritePlanStep
<1>5. ReadInv'
  BY <1>4, CloseStep DEF CommitPlan
<1> QED BY <1>4, <1>5 DEF IInv

-----------------------------------------------------------------------------
(* Drafts: what a request makes of one                                     *)

LEMMA FreshIsGood ==
  ASSUME NEW s, NEW p, NEW x, NEW g \in Grades, NEW t \in Nat
  PROVE  GoodDraft(Fresh(s, p, x, g, t))
BY DEF GoodDraft, Fresh

LEMMA EditedIsGood ==
  ASSUME NEW d, GoodDraft(drafts[d]), drafts[d].xml # "signed", NEW g \in Grades
  PROVE  GoodDraft([Stale(d) EXCEPT !.grade = g])
BY DEF GoodDraft, Stale

LEMMA RemovedIsGood ==
  ASSUME NEW r, GoodDraft(r)
  PROVE  GoodDraft([r EXCEPT !.removed = TRUE])
BY DEF GoodDraft

LEMMA KeyedIsGood ==
  ASSUME NEW d, GoodDraft(drafts[d]), drafts[d].xml # "signed"
  PROVE  GoodDraft([Stale(d) EXCEPT !.key = TRUE])
BY DEF GoodDraft, Stale

LEMMA GeneratedIsGood ==
  ASSUME NEW r, GoodDraft(r)
  PROVE  GoodDraft(Generated(r)) /\ Generated(r).xml = "unknown"
<1> DEFINE q == Generated(r)
<1>1. DOMAIN q = DOMAIN r /\ q.grade = r.grade /\ q.at = r.at /\ q.removed = r.removed
  BY DEF Generated, GoodDraft
<1>2. q.xml = "unknown"
  BY DEF Generated, GoodDraft
<1>3. (q.key <=> TRUE) /\ q.key \in BOOLEAN
  BY DEF Generated, GoodDraft
<1>4. q.stale \in BOOLEAN /\ q.fits \in BOOLEAN
  BY DEF Generated, GoodDraft
<1>5. q.fits => r.grade \in {"fit", "blocked"}
  BY DEF Generated, GoodDraft
<1> HIDE DEF q
<1>6. GoodDraft(q)
  BY <1>1, <1>2, <1>3, <1>4, <1>5 DEF GoodDraft
<1> QED BY <1>2, <1>6 DEF q

LEMMA ValidatedIsGood ==
  ASSUME NEW r, GoodDraft(r), r.xml \in {"unknown", "valid", "invalid"}
  PROVE  GoodDraft(Validated(r))
BY DEF GoodDraft, Validated

LEMMA SignedIsGood ==
  ASSUME NEW r, GoodDraft(r), r.xml = "valid", ~r.stale, r.grade # "blocked"
  PROVE  GoodDraft([r EXCEPT !.xml = "signed"])
BY DEF GoodDraft

LEMMA BatchedIsGood ==
  ASSUME NEW r, GoodDraft(r), NEW numbered \in BOOLEAN
  PROVE  GoodDraft(Batched(r, numbered))
<1>1. CASE r.xml = "signed"
  BY <1>1 DEF Batched
<1>2. CASE r.xml # "signed" /\ Current(r)
  <2>1. r.xml \in {"unknown", "valid", "invalid"} /\ Batched(r, numbered) = Validated(r)
    BY <1>2 DEF Batched, Current, GoodDraft
  <2> QED BY <2>1, ValidatedIsGood
<1>3. CASE r.xml # "signed" /\ ~Current(r) /\ r.grade = "invalid"
  <2>1. Batched(r, numbered) = [r EXCEPT !.stale = r.stale \/ (r.key /\ r.xml # "none")]
    BY <1>3 DEF Batched
  <2>2. GoodDraft([r EXCEPT !.stale = r.stale \/ (r.key /\ r.xml # "none")])
    BY <1>3 DEF GoodDraft, Current
  <2> QED BY <2>1, <2>2
<1>4. CASE r.xml # "signed" /\ ~Current(r) /\ r.grade # "invalid"
  <2>1. Batched(r, numbered) = Validated(Generated(r)) \/ Batched(r, numbered) = r
    BY <1>4 DEF Batched
  <2>2. GoodDraft(Validated(Generated(r)))
    BY GeneratedIsGood, ValidatedIsGood
  <2> QED BY <2>1, <2>2
<1> QED BY <1>1, <1>2, <1>3, <1>4

-----------------------------------------------------------------------------
(* Drafts: the table                                                       *)

LEMMA DraftsStep ==
  ASSUME IInv, UNCHANGED <<snapshots, rows, saves, saved, plans, pc, read>>, DraftsInv'
  PROVE  IInv'
<1>1. SnapshotsInv' /\ PlansInv' /\ ReadInv'
  BY DEF IInv, SnapshotsInv, PlansInv, ReadInv
<1> QED BY <1>1 DEF IInv

LEMMA DraftsTyped ==
  ASSUME IInv
  PROVE  /\ drafts \in Seq(ToSet(drafts)) /\ Len(drafts) \in Nat
         /\ DOMAIN drafts = 1..Len(drafts)
         /\ \A d \in DOMAIN drafts : drafts[d] \in ToSet(drafts) /\ GoodDraft(drafts[d])
<1>1. drafts \in Seq(ToSet(drafts))
  BY DEF IInv, DraftsInv
<1>2. Len(drafts) \in Nat /\ DOMAIN drafts = 1..Len(drafts)
  BY <1>1, LenProperties
<1>3. \A d \in DOMAIN drafts : drafts[d] \in ToSet(drafts) /\ GoodDraft(drafts[d])
  BY DEF IInv, DraftsInv, ToSet
<1> QED BY <1>1, <1>2, <1>3

\* One draft gets another row.
LEMMA ReplaceStep ==
  ASSUME IInv, NEW d \in DOMAIN drafts, NEW row, GoodDraft(row),
         drafts' = [drafts EXCEPT ![d] = row],
         UNCHANGED <<snapshots, rows, saves, saved, plans, pc, read>>
  PROVE  IInv'
<1> DEFINE S == ToSet(drafts) \cup {row}
<1>1. drafts \in Seq(S) /\ d \in 1..Len(drafts) /\ row \in S
  BY DraftsTyped, SeqMonotonic
<1> HIDE DEF S
<1>2. /\ drafts' \in Seq(S) /\ Len(drafts') = Len(drafts)
      /\ \A e \in 1..Len(drafts) : drafts'[e] = IF e = d THEN row ELSE drafts[e]
  BY <1>1, ExceptSeq
<1>3. DOMAIN drafts' = 1..Len(drafts) /\ drafts' \in Seq(ToSet(drafts'))
  BY <1>2, LenProperties, SeqRange
<1>4. \A e \in DOMAIN drafts' : GoodDraft(drafts'[e])
  BY <1>2, <1>3, DraftsTyped
<1>5. DraftsInv'
  BY <1>3, <1>4 DEF DraftsInv
<1> QED BY <1>5, DraftsStep

LEMMA UpdateStep ==
  ASSUME IInv, NEW d \in DOMAIN drafts, NEW row, GoodDraft(row), Update(d, row)
  PROVE  IInv'
BY ReplaceStep DEF Update, workers

\* Drafts are added behind those there are.
LEMMA AddedDrafts ==
  ASSUME IInv, NEW new, new \in Seq(ToSet(new)),
         \A k \in 1..Len(new) : GoodDraft(new[k]), drafts' = drafts \o new
  PROVE  DraftsInv'
<1> DEFINE S == ToSet(drafts) \cup ToSet(new)
           n == Len(drafts)
<1>1. drafts \in Seq(S) /\ new \in Seq(S) /\ n \in Nat /\ Len(new) \in Nat
  BY DraftsTyped, SeqMonotonic, LenProperties
<1> HIDE DEF S, n
<1>2. /\ drafts' \in Seq(S) /\ Len(drafts') = n + Len(new)
      /\ \A k \in 1..n + Len(new) : drafts'[k] = IF k <= n THEN drafts[k] ELSE new[k - n]
  BY <1>1, ConcatProperties DEF n
<1>3. DOMAIN drafts' = 1..n + Len(new) /\ drafts' \in Seq(ToSet(drafts'))
  BY <1>2, LenProperties, SeqRange
<1>4. ASSUME NEW k \in 1..n + Len(new)
      PROVE  GoodDraft(drafts'[k])
  <2>1. CASE k <= n
    <3>1. k \in DOMAIN drafts
      BY <1>1, <2>1, DraftsTyped DEF n
    <3> QED BY <1>2, <2>1, <3>1, DraftsTyped
  <2>2. CASE ~(k <= n)
    <3>1. k - n \in 1..Len(new)
      BY <1>1, <2>2
    <3> QED BY <1>2, <2>2, <3>1
  <2> QED BY <2>1, <2>2
<1> QED BY <1>3, <1>4 DEF DraftsInv

LEMMA WriteChildrenStep ==
  ASSUME IInv, NEW p, NEW X, IsFiniteSet(X), NEW g \in Grades, NEW t \in Nat,
         WriteChildren(p, X, g, t)
  PROVE  DraftsInv' /\ UNCHANGED <<snapshots, rows, saves, saved, plans>>
<1> DEFINE n == Cardinality(X)
           new == [k \in 1..n |-> Fresh(plans[p].snap, p, InOrder(X)[k], g, t)]
<1>1. n \in Nat
  BY FS_CardinalityType
<1>2. drafts' = drafts \o new /\ UNCHANGED <<snapshots, rows, saves, saved, plans>>
  BY DEF WriteChildren
<1> HIDE DEF n
<1>3. \A k \in 1..n : GoodDraft(new[k])
  BY FreshIsGood
<1>4. new \in Seq(ToSet(new)) /\ Len(new) = n
  <2>1. new \in [1..n -> ToSet(new)]
    BY DEF ToSet
  <2> HIDE DEF new
  <2> QED BY <1>1, <2>1
<1> HIDE DEF new
<1>5. DraftsInv'
  BY <1>2, <1>3, <1>4, AddedDrafts
<1> QED BY <1>2, <1>5

LEMMA CommitChildrenStep ==
  ASSUME IInv, NEW w \in Workers, CommitChildren(w)
  PROVE  IInv'
<1>1. PICK p \in read[w].plans, t \in read[w].at..saves, g \in Grades :
        WriteChildren(p, read[w].missing, g, t)
  BY DEF CommitChildren
<1>2. t \in Nat /\ IsFiniteSet(read[w].missing)
  BY <1>1 DEF IInv, ReadInv, ReadRow, SnapshotsInv
<1>3. DraftsInv' /\ UNCHANGED <<snapshots, rows, saves, saved, plans>>
  BY <1>1, <1>2, WriteChildrenStep
<1>4. SnapshotsInv' /\ PlansInv'
  BY <1>3 DEF IInv, SnapshotsInv, PlansInv
<1>5. ReadInv'
  BY <1>3, CloseStep DEF CommitChildren
<1> QED BY <1>3, <1>4, <1>5 DEF IInv

LEMMA CreateDraftStep ==
  ASSUME IInv, NEW s, NEW g \in Grades, CreateDraft(s, g)
  PROVE  IInv'
<1>1. PICK x \in ExportersOf(s) : drafts' = Append(drafts, Fresh(s, 0, x, g, saves))
  BY DEF CreateDraft
<1> DEFINE row == Fresh(s, 0, x, g, saves)
           new == <<row>>
<1>2. GoodDraft(row)
  BY FreshIsGood DEF IInv, SnapshotsInv
<1>3. drafts' = Append(drafts, row)
  BY <1>1
<1> HIDE DEF row
<1>4. new \in Seq(ToSet(new)) /\ \A k \in 1..Len(new) : GoodDraft(new[k])
  BY <1>2 DEF ToSet
<1>5. drafts' = drafts \o new
  BY <1>3, DraftsTyped, AppendIsConcat
<1> HIDE DEF new
<1>6. DraftsInv'
  BY <1>4, <1>5, AddedDrafts
<1> QED BY <1>6, DraftsStep DEF CreateDraft, workers

LEMMA GenerateChildXmlsStep ==
  ASSUME IInv, NEW s, GenerateChildXmls(s)
  PROVE  IInv'
<1>p. PICK p \in ActivePlan(s) : \E Y \in SUBSET Asking(Children(p)) :
        LET numbered == [d \in DOMAIN drafts |-> drafts[d].key \/ d \in Y]
        IN drafts' = [d \in DOMAIN drafts |->
                        IF d \in Children(p) THEN Batched(drafts[d], numbered[d])
                                             ELSE drafts[d]]
  BY Zenon DEF GenerateChildXmls
<1>1. PICK Y \in SUBSET Asking(Children(p)) :
        LET numbered == [d \in DOMAIN drafts |-> drafts[d].key \/ d \in Y]
        IN drafts' = [d \in DOMAIN drafts |->
                        IF d \in Children(p) THEN Batched(drafts[d], numbered[d])
                                             ELSE drafts[d]]
  BY <1>p
<1> DEFINE n == Len(drafts)
           numbered == [d \in DOMAIN drafts |-> drafts[d].key \/ d \in Y]
<1>2. n \in Nat /\ DOMAIN drafts = 1..n
  BY DraftsTyped
<1>3. \A d \in 1..n : GoodDraft(drafts'[d])
  <2> SUFFICES ASSUME NEW d \in 1..n PROVE GoodDraft(drafts'[d])
    OBVIOUS
  <2>1. GoodDraft(drafts[d]) /\ d \in DOMAIN drafts
    BY <1>2, DraftsTyped
  <2>2. drafts'[d] \in {Batched(drafts[d], numbered[d]), drafts[d]}
    BY <1>1, <2>1
  <2>3. numbered[d] \in BOOLEAN
    BY <2>1 DEF GoodDraft
  <2> HIDE DEF numbered
  <2> QED BY <2>1, <2>2, <2>3, BatchedIsGood
<1>4. drafts' \in Seq(ToSet(drafts')) /\ DOMAIN drafts' = 1..n
  <2>1. DOMAIN drafts' = 1..n
    BY <1>1, <1>2
  <2>2. drafts' = [d \in 1..n |-> drafts'[d]]
    BY <1>1, <1>2
  <2>3. drafts' \in [1..n -> ToSet(drafts')]
    BY <2>1, <2>2 DEF ToSet
  <2> QED BY <1>2, <2>1, <2>3
<1>5. DraftsInv'
  BY <1>3, <1>4 DEF DraftsInv
<1> QED BY <1>5, DraftsStep DEF GenerateChildXmls, workers

LEMMA EditStep ==
  ASSUME IInv, NEW d, NEW g \in Grades, Edit(d, g)
  PROVE  IInv'
<1>1. d \in DOMAIN drafts /\ drafts[d].xml # "signed"
  BY DEF Edit, Editable, Active
<1>2. GoodDraft([Stale(d) EXCEPT !.grade = g])
  BY <1>1, DraftsTyped, EditedIsGood
<1> QED BY <1>1, <1>2, UpdateStep DEF Edit

LEMMA RemoveStep ==
  ASSUME IInv, NEW d, RemoveDraft(d)
  PROVE  IInv'
<1>1. d \in DOMAIN drafts
  BY DEF RemoveDraft, Editable, Active
<1>2. GoodDraft([drafts[d] EXCEPT !.removed = TRUE])
  BY <1>1, DraftsTyped, RemovedIsGood
<1> QED BY <1>1, <1>2, UpdateStep DEF RemoveDraft

LEMMA GenerateKeyStep ==
  ASSUME IInv, NEW d, GenerateKey(d)
  PROVE  IInv'
<1>1. d \in DOMAIN drafts /\ drafts[d].xml # "signed"
  BY DEF GenerateKey, CanKey, Editable, Active
<1>2. GoodDraft([Stale(d) EXCEPT !.key = TRUE])
  BY <1>1, DraftsTyped, KeyedIsGood
<1> QED BY <1>1, <1>2, UpdateStep DEF GenerateKey

LEMMA GenerateXmlStep ==
  ASSUME IInv, NEW d, GenerateXml(d)
  PROVE  IInv'
<1>1. d \in DOMAIN drafts
  BY DEF GenerateXml, CanXml, Editable, Active
<1>2. GoodDraft(Generated(drafts[d]))
  BY <1>1, DraftsTyped, GeneratedIsGood
<1> QED BY <1>1, <1>2, UpdateStep DEF GenerateXml

LEMMA ValidateXmlStep ==
  ASSUME IInv, NEW d, ValidateXml(d)
  PROVE  IInv'
<1>1. d \in DOMAIN drafts /\ drafts[d].xml \in {"unknown", "valid", "invalid"}
  BY DEF ValidateXml, CanValidate, Active
<1>2. GoodDraft(Validated(drafts[d]))
  BY <1>1, DraftsTyped, ValidatedIsGood
<1> QED BY <1>1, <1>2, ReplaceStep DEF ValidateXml, workers

LEMMA SignXmlStep ==
  ASSUME IInv, NEW d, SignXml(d)
  PROVE  IInv'
<1>1. /\ d \in DOMAIN drafts /\ drafts[d].xml = "valid" /\ ~drafts[d].stale
      /\ drafts[d].grade # "blocked"
  BY DEF SignXml, CanSign, Active
<1>2. GoodDraft([drafts[d] EXCEPT !.xml = "signed"])
  BY <1>1, DraftsTyped, SignedIsGood
<1> QED BY <1>1, <1>2, UpdateStep DEF SignXml

-----------------------------------------------------------------------------
(* The invariant is inductive                                              *)

\* The requests that change the prerequisites, the snapshots and the items.
LEMMA ConfigureStep ==
  ASSUME IInv,
         \/ \E c \in Setup : Configure(c) \/ Deactivate(c)
         \/ ActivateRule \/ DeactivateRule
  PROVE  IInv'
BY QuietStep DEF Configure, Deactivate, ActivateRule, DeactivateRule, tables, workers

\* The requests about a draft.
LEMMA DraftStep ==
  ASSUME IInv, NEW d,
         \/ \E g \in Grades : Edit(d, g)
         \/ RemoveDraft(d) \/ GenerateKey(d) \/ GenerateXml(d) \/ ValidateXml(d) \/ SignXml(d)
  PROVE  IInv'
BY EditStep, RemoveStep, GenerateKeyStep, GenerateXmlStep, ValidateXmlStep, SignXmlStep

LEMMA NewestSnapshot ==
  ASSUME IInv, Newest # 0
  PROVE  Newest \in 1..Len(snapshots) /\ Newest \in 1..MaxSnapshots
BY LenProperties DEF IInv, SnapshotsInv, Newest

LEMMA LadderStart ==
  ASSUME Newest = 0
  PROVE  next_action \in {"configure_fiscal_profile", "configure_number_sequence",
                          "configure_provider_connection", "fetch_duimp"}
BY DEF next_action

LEMMA RequestStep ==
  ASSUME IInv, Request
  PROVE  IInv'
<1>1. DOMAIN snapshots = 1..Len(snapshots)
  BY LenProperties DEF IInv, SnapshotsInv
<1>2. CASE \/ \E c \in Setup : Configure(c) \/ Deactivate(c)
           \/ ActivateRule \/ DeactivateRule
  BY <1>2, ConfigureStep
<1>3. CASE AddSnapshot
  BY <1>3, AddSnapshotStep
<1>4. CASE \E s \in DOMAIN snapshots : ResolveContext(s)
  BY <1>1, <1>4, ResolveStep
<1>5. CASE \E s \in DOMAIN snapshots : \E I \in (SUBSET Items) \ {{}} : Classify(s, I)
  BY <1>1, <1>5, ClassifyStep
<1>6. CASE \E s \in DOMAIN snapshots : \E w \in Workers : ReadPlan(w, s) \/ ReadChildren(w, s)
  BY <1>1, <1>6, ReadPlanStep, ReadChildrenStep
<1>7. CASE \E s \in DOMAIN snapshots : \E g \in Grades : CreateDraft(s, g)
  BY <1>7, CreateDraftStep
<1>8. CASE \E s \in DOMAIN snapshots : GenerateChildXmls(s)
  BY <1>8, GenerateChildXmlsStep
<1>9. CASE \E d \in DOMAIN drafts :
             \/ \E g \in Grades : Edit(d, g)
             \/ RemoveDraft(d) \/ GenerateKey(d) \/ GenerateXml(d) \/ ValidateXml(d) \/ SignXml(d)
  BY <1>9, DraftStep
<1> QED BY <1>2, <1>3, <1>4, <1>5, <1>6, <1>7, <1>8, <1>9 DEF Request

\* What the operator writes in one request is what an open request writes that
\* read just before.
LEMMA FollowPlanStep ==
  ASSUME IInv, Newest # 0, CanPlan(Newest), WritePlan(Newest, AllPlanned, saves),
         UNCHANGED workers
  PROVE  IInv'
<1>1. Newest \in 1..Len(snapshots) /\ Seen(Newest, rows) /\ saves \in Nat
  BY NewestSnapshot, ReadyIsSeen DEF CanPlan, IInv, SnapshotsInv
<1>2. AllPlanned \in SUBSET DOMAIN plans
  BY DEF AllPlanned
<1>3. Later(AllPlanned, plans)
  BY DEF AllPlanned, Later
<1>4. /\ SnapshotsInv' /\ PlansInv' /\ DraftsInv' /\ UNCHANGED <<snapshots, rows>>
      /\ DOMAIN plans \subseteq DOMAIN plans'
      /\ \A Q \in SUBSET DOMAIN plans : Later(Q, plans) => Later(Q, plans')
  BY <1>1, <1>2, <1>3, WritePlanStep
<1>5. UNCHANGED <<pc, read>>
  BY DEF workers
<1>6. ReadInv'
  BY <1>4, <1>5 DEF IInv, ReadInv
<1> QED BY <1>4, <1>6 DEF IInv

LEMMA FollowChildrenStep ==
  ASSUME IInv, NEW p \in Multi, WriteChildren(p, Missing(p), "fit", saves),
         UNCHANGED workers
  PROVE  IInv'
<1>1. p \in DOMAIN plans
  BY DEF Multi, LatestPlan, ActivePlan, PlannedOf
<1>2. IsFiniteSet(Missing(p))
  BY <1>1, DocumentsOfPlan, FS_Subset DEF Missing
<1>3. saves \in Nat /\ "fit" \in Grades
  BY DEF IInv, SnapshotsInv, Grades
<1>4. DraftsInv' /\ UNCHANGED <<snapshots, rows, saves, saved, plans>>
  BY <1>2, <1>3, WriteChildrenStep
<1> QED BY <1>4, DraftsStep DEF workers

LEMMA FollowStep ==
  ASSUME IInv, Follow
  PROVE  IInv'
<1> DEFINE a == next_action
<1>1. \A d : Corrected(d) => IInv'
  BY EditStep DEF Corrected, Grades
<1>2. CASE \/ SaveProfile \/ Configure("number") \/ Configure("connection")
           \/ Configure("certificate") \/ ActivateRule
  BY <1>2, QuietStep DEF SaveProfile, Configure, ActivateRule, tables, workers
<1>3. CASE Fetch
  BY <1>3, AddSnapshotStep DEF Fetch
<1>4. CASE a \in {"resolve_context", "classify_items", "create_document_plan"} /\ Newest = 0
  BY <1>4, LadderStart
<1>5. CASE Newest # 0 /\ ResolveContext(Newest)
  BY <1>5, NewestSnapshot, ResolveStep
<1>6. CASE Newest # 0 /\ Classify(Newest, Items)
  BY <1>6, NewestSnapshot, ClassifyStep
<1>7. CASE Newest # 0 /\ CanPlan(Newest) /\ WritePlan(Newest, AllPlanned, saves) /\ UNCHANGED workers
  BY <1>7, FollowPlanStep
<1>8. CASE (\E p \in Multi : WriteChildren(p, Missing(p), "fit", saves)) /\ UNCHANGED workers
  BY <1>8, FollowChildrenStep
<1>9. CASE \E d : Corrected(d) \/ GenerateKey(d) \/ GenerateXml(d) \/ ValidateXml(d) \/ SignXml(d)
  BY <1>9, <1>1, DraftStep
<1>10. CASE GenerateChildXmls(Newest)
  BY <1>10, GenerateChildXmlsStep
<1>11. CASE CreateDraft(Newest, "fit")
  BY <1>11, CreateDraftStep DEF Grades
<1> HIDE DEF a
<1> QED BY <1>2, <1>3, <1>4, <1>5, <1>6, <1>7, <1>8, <1>9, <1>10, <1>11 DEF Follow, a

THEOREM Inductive == IInv /\ [Next]_vars => IInv'
<1> SUFFICES ASSUME IInv, [Next]_vars PROVE IInv'
  OBVIOUS
<1>1. CASE Follow
  BY <1>1, FollowStep
<1>2. CASE Request
  BY <1>2, RequestStep
<1>3. ASSUME NEW w \in Workers, Finish(w)
      PROVE  IInv'
  BY <1>3, CommitPlanStep, CommitChildrenStep, AbortStep DEF Finish
<1>4. CASE UNCHANGED vars
  BY <1>4, QuietStep DEF vars, tables, workers
<1> QED BY <1>1, <1>2, <1>3, <1>4 DEF Next

THEOREM Invariant == Spec => []IInv
BY Initially, Inductive, PTL DEF Spec

-----------------------------------------------------------------------------
(* The types                                                               *)

SetupTyped == setup \subseteq Setup /\ rule \in {"absent", "active", "inactive"}

RowsTyped == rows \subseteq Row /\ saved \in [1..MaxSnapshots -> 0..saves]

DraftsFit == \A d \in DOMAIN drafts : drafts[d] \in Draft

AgeOrders == /\ age \in [DOMAIN drafts -> Nat]
             /\ \A d, e \in DOMAIN drafts : age[d] = age[e] => d = e

\* Each of X has a place of its own.
Places(place, X) == /\ \A d \in X : place[d] \in Nat
                    /\ \A d, e \in X : place[d] = place[e] => d = e

\* What an open request read is still there: no row of these tables is deleted.
ReadsStand == \A w \in Workers : /\ read[w].plans \subseteq DOMAIN plans
                                 /\ pc[w] # "idle" => read[w].snap \in DOMAIN snapshots

TInv == SetupTyped /\ RowsTyped /\ DraftsFit /\ AgeOrders /\ ReadsStand

LEMMA FiniteNumbers ==
  ASSUME NEW n \in Nat, NEW X \in SUBSET (1..n)
  PROVE  IsFiniteSet(X) /\ Cardinality(X) \in Nat
<1>1. IsFiniteSet(1..n)
  <2>1. 1 \in Int /\ n \in Int
    OBVIOUS
  <2> QED BY <2>1, FS_Interval, Zenon
<1>2. IsFiniteSet(X)
  BY <1>1, FS_Subset
<1> QED BY <1>2, FS_CardinalityType

\* The drafts that were updated come first, each in its own place, and the
\* others keep their order behind them.
LEMMA AgedOrders ==
  ASSUME AgeOrders, NEW m \in Nat, DOMAIN drafts = 1..m, NEW n \in Nat, m <= n,
         NEW X \in SUBSET (1..n), m+1..n \subseteq X,
         NEW place, Places(place, X)
  PROVE  /\ Aged(X, place, n) \in [1..n -> Nat]
         /\ \A d, e \in 1..n : Aged(X, place, n)[d] = Aged(X, place, n)[e] => d = e
<1> DEFINE Y == (1..m) \ X
           After(d)  == {e \in X : place[e] > place[d]}
           Before(d) == {e \in Y : age[e] < age[d]}
<1>1. DOMAIN age = 1..m /\ \A d \in 1..m : age[d] \in Nat
  BY DEF AgeOrders
<1>2. IsFiniteSet(X) /\ IsFiniteSet(Y) /\ Cardinality(X) \in Nat
  <2>1. Y \in SUBSET (1..m)
    OBVIOUS
  <2> HIDE DEF Y
  <2> QED BY <2>1, FiniteNumbers
<1>3. \A d : /\ IsFiniteSet(After(d)) /\ Cardinality(After(d)) \in Nat
             /\ IsFiniteSet(Before(d)) /\ Cardinality(Before(d)) \in Nat
  <2> TAKE d
  <2>1. After(d) \in SUBSET X /\ Before(d) \in SUBSET Y
    OBVIOUS
  <2> HIDE DEF After, Before, Y
  <2> QED BY <1>2, <2>1, FS_Subset, FS_CardinalityType
<1>4. \A d \in X : Aged(X, place, n)[d] = Cardinality(After(d))
  BY DEF Aged
<1>5. \A d \in Y : Aged(X, place, n)[d] = Cardinality(X) + Cardinality(Before(d))
  <2> SUFFICES ASSUME NEW d \in Y
               PROVE  Aged(X, place, n)[d] = Cardinality(X) + Cardinality(Before(d))
    OBVIOUS
  <2>1. d \in 1..n /\ d \notin X
    OBVIOUS
  <2>2. {e \in DOMAIN age \ X : age[e] < age[d]} = Before(d)
    BY <1>1
  <2> HIDE DEF Before, Y
  <2> QED BY <2>1, <2>2 DEF Aged
<1>6. \A d \in 1..n : d \in X \/ d \in Y
  OBVIOUS
<1>7. ASSUME NEW d \in X, NEW e \in X, place[d] < place[e]
      PROVE  Aged(X, place, n)[d] # Aged(X, place, n)[e]
  <2>1. \A k \in X : place[k] \in Int
    BY DEF Places
  <2>2. \A k \in X : place[k] > place[e] => place[k] > place[d]
    BY <1>7, <2>1
  <2>3. e \in After(d) /\ e \notin After(e)
    <3>1. place[d] \in Int /\ place[e] \in Int
      BY <2>1
    <3>2. place[e] > place[d] /\ ~(place[e] > place[e])
      BY <1>7, <3>1
    <3> QED BY <3>2
  <2>4. After(e) \in SUBSET After(d)
    BY <2>2
  <2> HIDE DEF After
  <2> QED BY <1>3, <1>4, <2>3, <2>4, FS_Subset
<1>8. ASSUME NEW d \in X, NEW e \in Y
      PROVE  Aged(X, place, n)[d] # Aged(X, place, n)[e]
  <2>1. After(d) \in SUBSET X /\ d \in X /\ d \notin After(d)
    <3>1. place[d] \in Int
      BY DEF Places
    <3> QED BY <3>1
  <2> HIDE DEF After, Before, Y
  <2>2. Cardinality(After(d)) < Cardinality(X)
    BY <1>2, <1>3, <2>1, FS_Subset
  <2> QED BY <1>2, <1>3, <1>4, <1>5, <2>2
<1>9. ASSUME NEW d \in Y, NEW e \in Y, age[d] < age[e]
      PROVE  Aged(X, place, n)[d] # Aged(X, place, n)[e]
  <2>1. \A k \in Y : age[k] \in Int
    BY <1>1
  <2>2. \A k \in Y : age[k] < age[d] => age[k] < age[e]
    BY <1>9, <2>1
  <2>3. d \in Before(e) /\ d \notin Before(d)
    BY <1>9, <2>1
  <2>4. Before(d) \in SUBSET Before(e)
    BY <2>2
  <2> HIDE DEF Before, Y
  <2>5. Cardinality(Before(d)) # Cardinality(Before(e))
    BY <1>3, <2>3, <2>4, FS_Subset
  <2>6. /\ Aged(X, place, n)[d] = Cardinality(X) + Cardinality(Before(d))
        /\ Aged(X, place, n)[e] = Cardinality(X) + Cardinality(Before(e))
    BY <1>5
  <2>7. /\ Cardinality(X) \in Nat
        /\ Cardinality(Before(d)) \in Nat /\ Cardinality(Before(e)) \in Nat
    BY <1>2, <1>3
  <2> QED BY <2>5, <2>6, <2>7
<1>10. Aged(X, place, n) \in [1..n -> Nat]
  <2>1. \A d \in 1..n : Aged(X, place, n)[d] \in Nat
    <3> HIDE DEF After, Before, Y
    <3> QED BY <1>2, <1>3, <1>4, <1>5, <1>6
  <2> QED BY <2>1 DEF Aged
<1>11. ASSUME NEW d \in 1..n, NEW e \in 1..n, d # e
       PROVE  Aged(X, place, n)[d] # Aged(X, place, n)[e]
  <2>1. CASE d \in X /\ e \in X
    <3>1. place[d] # place[e] /\ place[d] \in Nat /\ place[e] \in Nat
      BY <1>11, <2>1 DEF Places
    <3> QED BY <1>7, <2>1, <3>1
  <2>2. CASE (d \in X /\ e \in Y) \/ (d \in Y /\ e \in X)
    <3> HIDE DEF Y
    <3> QED BY <1>8, <2>2
  <2>3. CASE d \in Y /\ e \in Y
    <3>1. age[d] # age[e] /\ age[d] \in Nat /\ age[e] \in Nat
      BY <1>1, <1>11, <2>3 DEF AgeOrders
    <3> HIDE DEF Y
    <3> QED BY <1>9, <2>3, <3>1
  <2> HIDE DEF Y
  <2> QED BY <1>6, <2>1, <2>2, <2>3
<1> QED BY <1>10, <1>11

\* A request ends, or has nothing to do with it; the tables only grow.
LEMMA ReadsKept ==
  ASSUME TInv, pc \in [Workers -> {"idle", "planning", "drafting"}],
         read \in [Workers -> ReadRow],
         UNCHANGED workers \/ \E w \in Workers : Close(w),
         DOMAIN plans \subseteq DOMAIN plans',
         DOMAIN snapshots \subseteq DOMAIN snapshots'
  PROVE  ReadsStand'
<1>1. CASE UNCHANGED workers
  BY <1>1 DEF TInv, ReadsStand, workers
<1>2. ASSUME NEW w \in Workers, Close(w)
      PROVE  ReadsStand'
  <2>1. pc' = [pc EXCEPT ![w] = "idle"] /\ read' = [read EXCEPT ![w] = NoRead]
    BY <1>2 DEF Close
  <2> SUFFICES ASSUME NEW v \in Workers
               PROVE  /\ read'[v].plans \subseteq DOMAIN plans'
                      /\ pc'[v] # "idle" => read'[v].snap \in DOMAIN snapshots'
    BY DEF ReadsStand
  <2>2. CASE v = w
    <3>1. read'[v] = NoRead /\ pc'[v] = "idle"
      BY <2>1, <2>2
    <3>2. NoRead.plans = {}
      BY DEF NoRead
    <3> QED BY <3>1, <3>2
  <2>3. CASE v # w
    <3>1. read'[v] = read[v] /\ pc'[v] = pc[v]
      BY <2>1, <2>3
    <3> QED BY <3>1 DEF TInv, ReadsStand
  <2> QED BY <2>2, <2>3
<1> QED BY <1>1, <1>2

\* The prerequisites and the tax rule.
LEMMA SetupChange ==
  ASSUME IInv, TInv,
         \/ \E c \in Setup : Configure(c) \/ Deactivate(c)
         \/ ActivateRule \/ DeactivateRule
  PROVE  TInv'
<1>1. UNCHANGED <<snapshots, rows, saves, saved, plans, drafts, age>> /\ UNCHANGED workers
  BY DEF Configure, Deactivate, ActivateRule, DeactivateRule, tables
<1>2. SetupTyped'
  BY DEF Configure, Deactivate, ActivateRule, DeactivateRule, TInv, SetupTyped, Setup
<1>3. RowsTyped' /\ DraftsFit' /\ AgeOrders'
  BY <1>1 DEF TInv, RowsTyped, DraftsFit, AgeOrders
<1>4. ReadsStand'
  BY <1>1 DEF TInv, ReadsStand, workers
<1> QED BY <1>2, <1>3, <1>4 DEF TInv

LEMMA SnapshotChange ==
  ASSUME IInv, TInv, AddSnapshot \/ \E s \in DOMAIN snapshots : ResolveContext(s)
  PROVE  TInv'
<1>1. /\ UNCHANGED <<setup, rule, rows, saves, saved, plans, drafts, age>>
      /\ UNCHANGED workers
  BY DEF AddSnapshot, ResolveContext
<1>2. DOMAIN snapshots \subseteq DOMAIN snapshots'
  <2>1. snapshots \in Seq(Snapshot)
    BY DEF IInv, SnapshotsInv
  <2>2. CASE AddSnapshot
    <3>1. PICK s \in Snapshot : snapshots' = Append(snapshots, s)
      BY <2>2 DEF AddSnapshot, CreateSnapshot
    <3>2. Len(snapshots') = Len(snapshots) + 1 /\ snapshots' \in Seq(Snapshot)
      BY <2>1, <3>1, AppendProperties
    <3> QED BY <2>1, <3>2, LenProperties
  <2>3. CASE \E s \in DOMAIN snapshots : ResolveContext(s)
    BY <2>3 DEF ResolveContext
  <2> QED BY <2>2, <2>3
<1>3. SetupTyped' /\ RowsTyped' /\ DraftsFit' /\ AgeOrders'
  BY <1>1 DEF TInv, SetupTyped, RowsTyped, DraftsFit, AgeOrders
<1>4. ReadsStand'
  BY <1>1, <1>2 DEF TInv, ReadsStand, workers
<1> QED BY <1>3, <1>4 DEF TInv

\* The save of a snapshot is the last of all saves: none of the others is later.
LEMMA ClassifyChange ==
  ASSUME IInv, TInv, NEW s \in 1..Len(snapshots), NEW I \in SUBSET Items, Classify(s, I)
  PROVE  TInv'
<1>1. /\ UNCHANGED <<setup, rule, snapshots, plans, drafts, age>>
      /\ UNCHANGED workers
  BY DEF Classify
<1>2. s \in 1..MaxSnapshots
  BY LenProperties DEF IInv, SnapshotsInv
<1>3. rows' \subseteq Row
  <2>1. ASSUME NEW i \in I
        PROVE  [snap |-> s, item |-> i, ruled |-> rule = "active"] \in Row
    BY <1>2 DEF Row
  <2> QED BY <2>1 DEF Classify, TInv, RowsTyped
<1>4. saved' \in [1..MaxSnapshots -> 0..saves']
  <2>1. saves \in Nat /\ saves' = saves + 1 /\ saved' = [saved EXCEPT ![s] = saves + 1]
    BY DEF Classify, IInv, SnapshotsInv
  <2>2. 0..saves \subseteq 0..saves' /\ saves + 1 \in 0..saves'
    BY <2>1
  <2>3. saved \in [1..MaxSnapshots -> 0..saves]
    BY DEF TInv, RowsTyped
  <2> QED BY <2>1, <2>2, <2>3
<1>5. RowsTyped'
  BY <1>3, <1>4 DEF RowsTyped
<1>6. SetupTyped' /\ DraftsFit' /\ AgeOrders'
  BY <1>1 DEF TInv, SetupTyped, DraftsFit, AgeOrders
<1>7. ReadsStand'
  BY <1>1 DEF TInv, ReadsStand, workers
<1> QED BY <1>5, <1>6, <1>7 DEF TInv

LEMMA OpenChange ==
  ASSUME IInv, TInv, NEW w \in Workers, NEW s \in DOMAIN snapshots,
         ReadPlan(w, s) \/ ReadChildren(w, s)
  PROVE  TInv'
<1>1. UNCHANGED <<setup, rule, snapshots, rows, saves, saved, plans, drafts, age>>
  BY DEF ReadPlan, ReadChildren, tables
<1>2. PICK x : /\ read' = [read EXCEPT ![w] = x]
               /\ x.plans \subseteq DOMAIN plans /\ x.snap = s
  <2>1. CASE ReadPlan(w, s)
    <3> DEFINE x == [NoRead EXCEPT !.snap = s, !.plans = AllPlanned, !.at = saves]
    <3>1. x.plans \subseteq DOMAIN plans /\ x.snap = s
      BY DEF NoRead, AllPlanned
    <3> QED BY <2>1, <3>1 DEF ReadPlan
  <2>2. CASE ReadChildren(w, s)
    <3>1. PICK p \in ActivePlan(s) :
            read' = [read EXCEPT ![w] = [snap |-> s, plans |-> {p},
                                         missing |-> Missing(p), at |-> saves]]
      BY <2>2 DEF ReadChildren
    <3> DEFINE x == [snap |-> s, plans |-> {p}, missing |-> Missing(p), at |-> saves]
    <3>2. x.plans \subseteq DOMAIN plans /\ x.snap = s
      BY DEF ActivePlan, PlannedOf
    <3> QED BY <3>1, <3>2
  <2> QED BY <2>1, <2>2
<1>3. \A v \in Workers : /\ v # w => read'[v] = read[v] /\ pc'[v] = pc[v]
                         /\ v = w => read'[v] = x
  BY <1>2 DEF ReadPlan, ReadChildren, IInv, ReadInv
<1>4. ReadsStand'
  BY <1>1, <1>2, <1>3 DEF TInv, ReadsStand
<1>5. SetupTyped' /\ RowsTyped' /\ DraftsFit' /\ AgeOrders'
  BY <1>1 DEF TInv, SetupTyped, RowsTyped, DraftsFit, AgeOrders
<1> QED BY <1>4, <1>5 DEF TInv

LEMMA PlanChange ==
  ASSUME IInv, TInv, NEW s, NEW P, NEW t, WritePlan(s, P, t),
         UNCHANGED workers \/ \E w \in Workers : Close(w)
  PROVE  TInv'
<1>1. UNCHANGED <<setup, rule, snapshots, rows, saves, saved, drafts, age>>
  BY DEF WritePlan
<1>2. DOMAIN plans \subseteq DOMAIN plans'
  <2> DEFINE old == Superseded(P)
             new == [snap |-> s, version |-> NextPlan(s), at |-> t,
                     status |-> "planned", documents |-> ExportersOf(s)]
             S == {old[p] : p \in DOMAIN plans} \cup {new}
  <2>1. DOMAIN plans = 1..Len(plans) /\ Len(plans) \in Nat
    BY LenProperties DEF IInv, PlansInv
  <2>2. DOMAIN old = DOMAIN plans /\ old \in [DOMAIN plans -> S]
    BY DEF Superseded
  <2>3. plans' = Append(old, new) /\ new \in S
    BY DEF WritePlan
  <2> HIDE DEF old, new, S
  <2>4. old \in Seq(S) /\ Len(old) = Len(plans)
    BY <2>1, <2>2
  <2>5. plans' \in Seq(S) /\ Len(plans') = Len(plans) + 1
    BY <2>3, <2>4, AppendProperties
  <2> QED BY <2>1, <2>5, LenProperties
<1>3. SetupTyped' /\ RowsTyped' /\ DraftsFit' /\ AgeOrders'
  BY <1>1 DEF TInv, SetupTyped, RowsTyped, DraftsFit, AgeOrders
<1>4. ReadsStand'
  BY <1>1, <1>2, ReadsKept DEF IInv, ReadInv
<1> QED BY <1>3, <1>4 DEF TInv

LEMMA AbortChange ==
  ASSUME IInv, TInv, NEW w \in Workers, Abort(w)
  PROVE  TInv'
<1>1. /\ UNCHANGED <<setup, rule, snapshots, rows, saves, saved, plans, drafts, age>>
      /\ Close(w)
  BY DEF Abort, tables
<1>2. SetupTyped' /\ RowsTyped' /\ DraftsFit' /\ AgeOrders'
  BY <1>1 DEF TInv, SetupTyped, RowsTyped, DraftsFit, AgeOrders
<1>3. ReadsStand'
  BY <1>1, ReadsKept DEF IInv, ReadInv
<1> QED BY <1>2, <1>3 DEF TInv

\* The rows of the drafts, and the order in which they were updated.
LEMMA DraftsChange ==
  ASSUME IInv, TInv, UNCHANGED <<rule, snapshots, rows, saves, saved, plans>>,
         setup' \subseteq setup, UNCHANGED workers \/ \E w \in Workers : Close(w),
         DraftsFit', AgeOrders'
  PROVE  TInv'
<1>1. SetupTyped' /\ RowsTyped'
  BY DEF TInv, SetupTyped, RowsTyped
<1>2. ReadsStand'
  BY ReadsKept DEF IInv, ReadInv
<1> QED BY <1>1, <1>2 DEF TInv

\* A sequence gives its last number, and nothing else of the prerequisites goes.
LEMMA ReserveKeeps ==
  ASSUME NEW X, NEW Y, Reserve(X, Y)
  PROVE  setup' \subseteq setup
BY DEF Reserve

\* Some drafts were updated, or added behind the others.
LEMMA AgedChange ==
  ASSUME IInv, TInv, NEW n \in Nat, Len(drafts) <= n, DOMAIN drafts' = 1..n,
         NEW X \in SUBSET (1..n), Len(drafts)+1..n \subseteq X,
         NEW place, Places(place, X), age' = Aged(X, place, n)
  PROVE  AgeOrders'
<1>1. Len(drafts) \in Nat /\ DOMAIN drafts = 1..Len(drafts) /\ AgeOrders
  BY DraftsTyped DEF TInv
<1>2. /\ Aged(X, place, n) \in [1..n -> Nat]
      /\ \A d, e \in 1..n : Aged(X, place, n)[d] = Aged(X, place, n)[e] => d = e
  BY <1>1, AgedOrders
<1> DEFINE a == Aged(X, place, n)
<1>3. a \in [1..n -> Nat] /\ \A d, e \in 1..n : a[d] = a[e] => d = e
  BY <1>2
<1>4. age' = a
  OBVIOUS
<1> HIDE DEF a
<1> QED BY <1>3, <1>4 DEF AgeOrders

LEMMA ReplacedFits ==
  ASSUME IInv, TInv, NEW d \in DOMAIN drafts, NEW row \in Draft,
         drafts' = [drafts EXCEPT ![d] = row]
  PROVE  DraftsFit' /\ DOMAIN drafts' = 1..Len(drafts)
<1>1. DOMAIN drafts' = DOMAIN drafts
  OBVIOUS
<1>2. \A e \in DOMAIN drafts : drafts'[e] = IF e = d THEN row ELSE drafts[e]
  OBVIOUS
<1>3. \A e \in DOMAIN drafts' : drafts'[e] \in Draft
  BY <1>1, <1>2 DEF TInv, DraftsFit
<1> QED BY <1>1, <1>3, DraftsTyped DEF DraftsFit

LEMMA UpdateChange ==
  ASSUME IInv, TInv, NEW d \in DOMAIN drafts, NEW row \in Draft, Update(d, row),
         setup' \subseteq setup
  PROVE  TInv'
<1>1. DraftsFit' /\ DOMAIN drafts' = 1..Len(drafts)
  BY ReplacedFits DEF Update
<1>2. Len(drafts) \in Nat /\ d \in 1..Len(drafts)
  BY DraftsTyped
<1>3. Len(drafts)+1..Len(drafts) = {}
  BY <1>2
<1>4. age' = Aged({d}, Numbered({d}), Len(drafts))
  BY DEF Update
<1>5. Places(Numbered({d}), {d})
  BY <1>2 DEF Numbered, Places
<1>6. {d} \in SUBSET (1..Len(drafts)) /\ Len(drafts) <= Len(drafts)
  BY <1>2
<1>7. AgeOrders'
  <2> DEFINE X == {d}
             place == Numbered({d})
  <2> HIDE DEF X, place
  <2> QED BY <1>1, <1>2, <1>3, <1>4, <1>5, <1>6, AgedChange DEF X, place
<1> QED BY <1>1, <1>7, DraftsChange DEF Update

LEMMA StaleFits ==
  ASSUME NEW d, drafts[d] \in Draft
  PROVE  Stale(d) \in Draft
BY DEF Stale, Draft

LEMMA GeneratedFits ==
  ASSUME NEW r \in Draft
  PROVE  Generated(r) \in Draft
<1> DEFINE fits == r.grade \in {"fit", "blocked"}
<1>1. fits \in BOOLEAN
  OBVIOUS
<1>2. Generated(r) = [r EXCEPT !.key = TRUE, !.xml = "unknown", !.stale = FALSE, !.fits = fits]
  BY DEF Generated, Draft
<1> HIDE DEF fits
<1> QED BY <1>1, <1>2 DEF Draft

LEMMA ValidatedFits ==
  ASSUME NEW r \in Draft
  PROVE  Validated(r) \in Draft
BY DEF Validated, Draft

LEMMA BatchedFits ==
  ASSUME NEW r \in Draft, NEW numbered
  PROVE  Batched(r, numbered) \in Draft
<1>1. [r EXCEPT !.stale = r.stale \/ (r.key /\ r.xml # "none")] \in Draft
  BY DEF Draft
<1> QED BY <1>1, GeneratedFits, ValidatedFits DEF Batched

\* The requests about one draft.
LEMMA DraftChange ==
  ASSUME IInv, TInv, NEW d,
         \/ \E g \in Grades : Edit(d, g)
         \/ RemoveDraft(d) \/ GenerateKey(d) \/ GenerateXml(d) \/ ValidateXml(d) \/ SignXml(d)
  PROVE  TInv'
<1>1. d \in DOMAIN drafts
  BY DEF Edit, RemoveDraft, GenerateKey, CanKey, GenerateXml, CanXml, Editable,
         ValidateXml, CanValidate, SignXml, CanSign, Active
<1>2. drafts[d] \in Draft /\ Stale(d) \in Draft
  BY <1>1, StaleFits DEF TInv, DraftsFit
<1>3. ASSUME NEW g \in Grades, Edit(d, g) PROVE TInv'
  <2>1. [Stale(d) EXCEPT !.grade = g] \in Draft
    BY <1>2 DEF Draft
  <2> QED BY <1>1, <1>3, <2>1, UpdateChange DEF Edit
<1>4. CASE RemoveDraft(d)
  <2>1. [drafts[d] EXCEPT !.removed = TRUE] \in Draft
    BY <1>2 DEF Draft
  <2> QED BY <1>1, <1>4, <2>1, UpdateChange DEF RemoveDraft
<1>5. CASE GenerateKey(d)
  <2>1. [Stale(d) EXCEPT !.key = TRUE] \in Draft
    BY <1>2 DEF Draft
  <2> QED BY <1>1, <1>5, <2>1, ReserveKeeps, UpdateChange DEF GenerateKey
<1>6. CASE GenerateXml(d)
  BY <1>1, <1>2, <1>6, GeneratedFits, ReserveKeeps, UpdateChange DEF GenerateXml
<1>7. CASE ValidateXml(d)
  <2>1. Validated(drafts[d]) \in Draft
    BY <1>2, ValidatedFits
  <2>2. /\ drafts' = [drafts EXCEPT ![d] = Validated(drafts[d])] /\ UNCHANGED age
        /\ UNCHANGED <<setup, rule, snapshots, rows, saves, saved, plans>>
        /\ UNCHANGED workers
    BY <1>7 DEF ValidateXml
  <2>3. DraftsFit' /\ DOMAIN drafts' = DOMAIN drafts
    BY <1>1, <2>1, <2>2, ReplacedFits, DraftsTyped
  <2>4. AgeOrders'
    BY <2>2, <2>3 DEF TInv, AgeOrders
  <2> QED BY <2>2, <2>3, <2>4, DraftsChange
<1>8. CASE SignXml(d)
  <2>1. [drafts[d] EXCEPT !.xml = "signed"] \in Draft
    BY <1>2 DEF Draft
  <2> QED BY <1>1, <1>8, <2>1, UpdateChange DEF SignXml
<1> QED BY <1>3, <1>4, <1>5, <1>6, <1>7, <1>8

\* A plan has one child for each of its documents.
LEMMA OneChild ==
  ASSUME IInv, NEW p, NEW d \in Children(p), NEW e \in Children(p),
         drafts[d].exporter = drafts[e].exporter
  PROVE  d = e
<1>1. PICK x : d \in ChildOf(p, x)
  BY DEF Children
<1>2. PICK y : e \in ChildOf(p, y)
  BY DEF Children
<1>3. d \in DOMAIN drafts /\ drafts[d].exporter = x /\ e \in DOMAIN drafts /\ drafts[e].exporter = y
  BY <1>1, <1>2 DEF ChildOf
<1>4. d \in ChildOf(p, x) /\ e \in ChildOf(p, x)
  BY <1>1, <1>2, <1>3
<1>5. d <= e /\ e <= d
  BY <1>4 DEF ChildOf
<1> QED BY <1>3, <1>5, DraftsTyped

LEMMA BatchChange ==
  ASSUME IInv, TInv, NEW s, GenerateChildXmls(s)
  PROVE  TInv'
<1>p. PICK p \in ActivePlan(s) : \E Y \in SUBSET Asking(Children(p)) :
        LET numbered == [d \in DOMAIN drafts |-> drafts[d].key \/ d \in Y]
        IN /\ Reserve(Asking(Children(p)), Y)
           /\ drafts' = [d \in DOMAIN drafts |->
                           IF d \in Children(p) THEN Batched(drafts[d], numbered[d])
                                                ELSE drafts[d]]
           /\ age' = Aged({d \in Children(p) : Touched(drafts[d], numbered[d])},
                          [d \in DOMAIN drafts |-> drafts[d].exporter], Len(drafts))
           /\ UNCHANGED <<rule, snapshots, rows, saves, saved, plans, workers>>
  BY Zenon DEF GenerateChildXmls
<1>1. PICK Y \in SUBSET Asking(Children(p)) :
        LET numbered == [d \in DOMAIN drafts |-> drafts[d].key \/ d \in Y]
        IN /\ Reserve(Asking(Children(p)), Y)
           /\ drafts' = [d \in DOMAIN drafts |->
                           IF d \in Children(p) THEN Batched(drafts[d], numbered[d])
                                                ELSE drafts[d]]
           /\ age' = Aged({d \in Children(p) : Touched(drafts[d], numbered[d])},
                          [d \in DOMAIN drafts |-> drafts[d].exporter], Len(drafts))
           /\ UNCHANGED <<rule, snapshots, rows, saves, saved, plans, workers>>
  BY <1>p
<1> DEFINE numbered == [d \in DOMAIN drafts |-> drafts[d].key \/ d \in Y]
<1>2. Len(drafts) \in Nat /\ DOMAIN drafts = 1..Len(drafts) /\ DOMAIN drafts' = 1..Len(drafts)
  BY <1>1, DraftsTyped
<1>3. DraftsFit'
  <2> SUFFICES ASSUME NEW d \in DOMAIN drafts' PROVE drafts'[d] \in Draft
    BY DEF DraftsFit
  <2>1. drafts[d] \in Draft /\ d \in DOMAIN drafts
    BY <1>2 DEF TInv, DraftsFit
  <2>2. drafts'[d] \in {Batched(drafts[d], numbered[d]), drafts[d]}
    BY <1>1, <2>1
  <2> HIDE DEF numbered
  <2> QED BY <2>1, <2>2, BatchedFits
<1> DEFINE X == {d \in Children(p) : Touched(drafts[d], numbered[d])}
           place == [d \in DOMAIN drafts |-> drafts[d].exporter]
<1>4. X \in SUBSET (1..Len(drafts)) /\ Len(drafts)+1..Len(drafts) \subseteq X
  <2>1. Children(p) \subseteq DOMAIN drafts
    BY DEF Children, ChildOf
  <2> QED BY <1>2, <2>1
<1>5. AgeOrders'
  <2>1. age' = Aged(X, place, Len(drafts))
    BY <1>1
  <2>2. Len(drafts) <= Len(drafts)
    BY <1>2
  <2>3. \A d \in X : place[d] \in Nat
    <3> SUFFICES ASSUME NEW d \in X PROVE place[d] \in Nat
      OBVIOUS
    <3>1. drafts[d] \in Draft /\ d \in DOMAIN drafts
      BY <1>2, <1>4 DEF TInv, DraftsFit
    <3> QED BY <3>1 DEF Draft, Exporters
  <2>4. \A d, e \in X : place[d] = place[e] => d = e
    <3> SUFFICES ASSUME NEW d \in X, NEW e \in X, drafts[d].exporter = drafts[e].exporter
                 PROVE  d = e
      BY <1>2, <1>4
    <3> QED BY OneChild
  <2> HIDE DEF X, place
  <2>5. Places(place, X)
    BY <2>3, <2>4 DEF Places
  <2> QED BY <1>2, <1>4, <2>1, <2>2, <2>5, AgedChange
<1> QED BY <1>1, <1>3, <1>5, ReserveKeeps, DraftsChange

LEMMA RowsAreSeq ==
  ASSUME NEW S, NEW n \in Nat, NEW s \in [1..n -> S]
  PROVE  s \in Seq(S) /\ Len(s) = n
OBVIOUS

\* New drafts, and nothing changes in the others.
LEMMA AddedChange ==
  ASSUME IInv, TInv, NEW k \in Nat, NEW new \in [1..k -> Draft], drafts' = drafts \o new,
         age' = Aged(Len(drafts)+1..Len(drafts)+k,
                     Numbered(Len(drafts)+1..Len(drafts)+k), Len(drafts) + k)
  PROVE  DraftsFit' /\ AgeOrders'
<1> DEFINE m == Len(drafts)
           X == m+1..m+k
<1>1. m \in Nat /\ DOMAIN drafts = 1..m
  BY DraftsTyped
<1>2. drafts \in Seq(Draft)
  <2>1. drafts \in [1..m -> Draft]
    <3>1. drafts \in [1..m -> ToSet(drafts)]
      BY DraftsTyped, LenProperties
    <3>2. \A d \in 1..m : drafts[d] \in Draft
      BY <1>1 DEF TInv, DraftsFit
    <3> HIDE DEF m
    <3> QED BY <3>1, <3>2
  <2> HIDE DEF m, X
  <2> QED BY <1>1, <2>1, RowsAreSeq
<1>3. new \in Seq(Draft) /\ Len(new) = k
  OBVIOUS
<1>4. drafts' \in Seq(Draft) /\ Len(drafts') = m + k
  <2> HIDE DEF m
  <2> QED BY <1>2, <1>3, ConcatProperties DEF m
<1>5. DOMAIN drafts' = 1..m+k /\ \A d \in DOMAIN drafts' : drafts'[d] \in Draft
  <2> HIDE DEF m
  <2> QED BY <1>4, LenProperties, ElementOfSeq
<1>6. DraftsFit'
  BY <1>5 DEF DraftsFit
<1>7. AgeOrders'
  <2>1. m + k \in Nat /\ m <= m + k /\ X \in SUBSET (1..m+k) /\ m+1..m+k \subseteq X
    <3> HIDE DEF m
    <3> QED BY <1>1
  <2>2. age' = Aged(X, Numbered(X), m + k)
    OBVIOUS
  <2>3. /\ \A d \in X : Numbered(X)[d] = d
        /\ X \in SUBSET Nat
    <3> HIDE DEF m
    <3> QED BY <1>1 DEF Numbered
  <2> HIDE DEF X
  <2>4. Places(Numbered(X), X)
    BY <2>3 DEF Places
  <2> QED BY <1>5, <2>1, <2>2, <2>4, AgedChange
<1> QED BY <1>6, <1>7

\* The children of a plan, in the order of their exporters.
LEMMA ChildrenChange ==
  ASSUME IInv, TInv, NEW p \in DOMAIN plans, NEW X \in SUBSET Exporters, IsFiniteSet(X),
         NEW g \in Grades, NEW t \in Nat, WriteChildren(p, X, g, t),
         UNCHANGED workers \/ \E w \in Workers : Close(w)
  PROVE  TInv'
<1> DEFINE k == Cardinality(X)
           new == [i \in 1..k |-> Fresh(plans[p].snap, p, InOrder(X)[i], g, t)]
<1>1. k \in Nat
  BY FS_CardinalityType
<1>2. plans[p].snap \in 1..MaxSnapshots /\ p \in 0..MaxPlans
  <2>1. plans[p] \in Plan
    BY DocumentsOfPlan
  <2>2. p \in 1..Len(plans) /\ Len(plans) \in Nat /\ Len(plans) <= MaxPlans /\ MaxPlans \in Nat
    BY LenProperties DEF IInv, PlansInv
  <2> QED BY <2>1, <2>2 DEF Plan
<1>3. \A i \in 1..k : InOrder(X)[i] \in Exporters
  <2> TAKE i \in 1..k
  <2>1. X \in SUBSET Nat
    BY DEF Exporters
  <2>2. InOrder(X)[i] = CHOOSE x \in X : Cardinality({y \in X : y < x}) = i - 1
    BY DEF InOrder
  <2> QED BY <2>1, <2>2, KthElement
<1>4. \A i \in 1..k : new[i] \in Draft
  <2> TAKE i \in 1..k
  <2>1. InOrder(X)[i] \in Exporters
    BY <1>3
  <2> HIDE DEF k
  <2> QED BY <1>2, <2>1 DEF Fresh, Draft
<1>5. new \in [1..k -> Draft]
  <2> HIDE DEF k
  <2> QED BY <1>4
<1>6. /\ drafts' = drafts \o new
      /\ age' = Aged(Len(drafts)+1..Len(drafts)+k,
                     Numbered(Len(drafts)+1..Len(drafts)+k), Len(drafts) + k)
      /\ UNCHANGED <<setup, rule, snapshots, rows, saves, saved, plans>>
  BY DEF WriteChildren
<1> HIDE DEF k, new
<1>7. DraftsFit' /\ AgeOrders'
  BY <1>1, <1>5, <1>6, AddedChange
<1> QED BY <1>6, <1>7, DraftsChange

LEMMA CommitChildrenChange ==
  ASSUME IInv, TInv, NEW w \in Workers, CommitChildren(w)
  PROVE  TInv'
<1>1. PICK p \in read[w].plans, t \in read[w].at..saves, g \in Grades :
        WriteChildren(p, read[w].missing, g, t)
  BY DEF CommitChildren
<1>2. t \in Nat /\ IsFiniteSet(read[w].missing) /\ read[w].missing \in SUBSET Exporters
  BY <1>1 DEF IInv, ReadInv, ReadRow, SnapshotsInv
<1>3. p \in DOMAIN plans
  BY DEF TInv, ReadsStand
<1> QED BY <1>1, <1>2, <1>3, ChildrenChange DEF CommitChildren

LEMMA CreateChange ==
  ASSUME IInv, TInv, NEW s \in 1..Len(snapshots), NEW g \in Grades, CreateDraft(s, g)
  PROVE  TInv'
<1>1. PICK x \in ExportersOf(s) : drafts' = Append(drafts, Fresh(s, 0, x, g, saves))
  BY DEF CreateDraft
<1> DEFINE row == Fresh(s, 0, x, g, saves)
           new == [i \in 1..1 |-> row]
<1>2. x \in Exporters /\ s \in 1..MaxSnapshots /\ saves \in Nat /\ 0 \in 0..MaxPlans
  <2>1. snapshots[s] \in Snapshot
    BY ElementOfSeq DEF IInv, SnapshotsInv
  <2>2. s \in 1..MaxSnapshots /\ saves \in Nat
    BY LenProperties DEF IInv, SnapshotsInv
  <2> QED BY <2>1, <2>2 DEF Snapshot, ExportersOf, Exporters
<1>3. row \in Draft
  BY <1>2 DEF Fresh, Draft
<1>4. drafts' = drafts \o <<row>>
  <2> HIDE DEF row
  <2> QED BY <1>1, DraftsTyped, AppendIsConcat DEF row
<1> HIDE DEF row
<1>5. new = <<row>> /\ new \in [1..1 -> Draft]
  BY <1>3
<1>6. age' = Aged(Len(drafts)+1..Len(drafts)+1,
                  Numbered(Len(drafts)+1..Len(drafts)+1), Len(drafts) + 1)
  <2>1. Len(drafts) \in Nat
    BY DraftsTyped
  <2>2. Len(drafts)+1..Len(drafts)+1 = {Len(drafts) + 1}
    BY <2>1
  <2> QED BY <2>2 DEF CreateDraft
<1> HIDE DEF new
<1>7. DraftsFit' /\ AgeOrders'
  BY <1>4, <1>5, <1>6, AddedChange
<1> QED BY <1>7, DraftsChange DEF CreateDraft

LEMMA RequestChange ==
  ASSUME IInv, TInv, Request
  PROVE  TInv'
<1>1. DOMAIN snapshots = 1..Len(snapshots)
  BY LenProperties DEF IInv, SnapshotsInv
<1>2. CASE \/ \E c \in Setup : Configure(c) \/ Deactivate(c)
           \/ ActivateRule \/ DeactivateRule
  BY <1>2, SetupChange
<1>3. CASE AddSnapshot \/ \E s \in DOMAIN snapshots : ResolveContext(s)
  BY <1>3, SnapshotChange
<1>4. CASE \E s \in DOMAIN snapshots : \E I \in (SUBSET Items) \ {{}} : Classify(s, I)
  BY <1>1, <1>4, ClassifyChange
<1>5. CASE \E s \in DOMAIN snapshots : \E w \in Workers : ReadPlan(w, s) \/ ReadChildren(w, s)
  BY <1>5, OpenChange
<1>6. CASE \E s \in DOMAIN snapshots : \E g \in Grades : CreateDraft(s, g)
  BY <1>1, <1>6, CreateChange
<1>7. CASE \E s \in DOMAIN snapshots : GenerateChildXmls(s)
  BY <1>7, BatchChange
<1>8. CASE \E d \in DOMAIN drafts :
             \/ \E g \in Grades : Edit(d, g)
             \/ RemoveDraft(d) \/ GenerateKey(d) \/ GenerateXml(d) \/ ValidateXml(d) \/ SignXml(d)
  BY <1>8, DraftChange
<1> QED BY <1>2, <1>3, <1>4, <1>5, <1>6, <1>7, <1>8 DEF Request

LEMMA FollowChange ==
  ASSUME IInv, TInv, Follow
  PROVE  TInv'
<1> DEFINE a == next_action
<1>1. \A d : Corrected(d) => TInv'
  BY DraftChange DEF Corrected, Grades
<1>2. CASE \/ SaveProfile \/ Configure("number") \/ Configure("connection")
           \/ Configure("certificate") \/ ActivateRule
  BY <1>2, SetupChange DEF SaveProfile, Setup
<1>3. CASE Fetch
  BY <1>3, SnapshotChange DEF Fetch
<1>4. CASE /\ a \in {"resolve_context", "classify_items", "create_document_plan", "create_draft"}
           /\ Newest = 0
  BY <1>4, LadderStart
<1>5. Newest # 0 => Newest \in DOMAIN snapshots
  BY NewestSnapshot, LenProperties DEF IInv, SnapshotsInv
<1>6. CASE Newest # 0 /\ ResolveContext(Newest)
  BY <1>5, <1>6, SnapshotChange
<1>7. CASE Newest # 0 /\ Classify(Newest, Items)
  BY <1>7, NewestSnapshot, ClassifyChange
<1>8. CASE WritePlan(Newest, AllPlanned, saves) /\ UNCHANGED workers
  BY <1>8, PlanChange
<1>9. CASE (\E p \in Multi : WriteChildren(p, Missing(p), "fit", saves)) /\ UNCHANGED workers
  <2>1. PICK p \in Multi : WriteChildren(p, Missing(p), "fit", saves)
    BY <1>9
  <2>2. p \in DOMAIN plans
    BY DEF Multi, LatestPlan, ActivePlan, PlannedOf
  <2>3. IsFiniteSet(Missing(p)) /\ Missing(p) \in SUBSET Exporters
    BY <2>2, DocumentsOfPlan, FS_Subset DEF Missing, Plan
  <2>4. saves \in Nat /\ "fit" \in Grades
    BY DEF IInv, SnapshotsInv, Grades
  <2> QED BY <1>9, <2>1, <2>2, <2>3, <2>4, ChildrenChange
<1>10. CASE \E d : Corrected(d) \/ GenerateKey(d) \/ GenerateXml(d) \/ ValidateXml(d) \/ SignXml(d)
  BY <1>1, <1>10, DraftChange
<1>11. CASE GenerateChildXmls(Newest)
  BY <1>11, BatchChange
<1>12. CASE Newest # 0 /\ CreateDraft(Newest, "fit")
  BY <1>12, NewestSnapshot, CreateChange DEF Grades
<1> HIDE DEF a
<1> QED BY <1>2, <1>3, <1>4, <1>6, <1>7, <1>8, <1>9, <1>10, <1>11, <1>12 DEF Follow, a

LEMMA RequestsCounted ==
  ASSUME requests \in 0..MaxRequests, [Next]_vars
  PROVE  requests' \in 0..MaxRequests
<1>1. CASE Request
  BY <1>1 DEF Request
<1>2. CASE UNCHANGED requests
  BY <1>2
<1> QED BY <1>1, <1>2 DEF Next, Follow, Finish, vars

LEMMA TypesInductive ==
  ASSUME IInv, TInv, [Next]_vars
  PROVE  TInv'
<1>1. CASE Follow
  BY <1>1, FollowChange
<1>2. CASE Request
  BY <1>2, RequestChange
<1>3. ASSUME NEW w \in Workers, Finish(w)
      PROVE  TInv'
  <2>1. CASE CommitPlan(w)
    BY <2>1, PlanChange DEF CommitPlan
  <2> QED BY <1>3, <2>1, CommitChildrenChange, AbortChange DEF Finish
<1>4. CASE UNCHANGED vars
  <2>1. /\ UNCHANGED <<setup, rule, snapshots, rows, saves, saved, plans, drafts, age>>
        /\ UNCHANGED workers
    BY <1>4 DEF vars, tables
  <2> QED BY <2>1, DraftsChange DEF TInv, DraftsFit, AgeOrders
<1> QED BY <1>1, <1>2, <1>3, <1>4 DEF Next

LEMMA TypesAtFirst ==
  ASSUME Init
  PROVE  TInv /\ requests \in 0..MaxRequests
<1>1. SetupTyped
  BY DEF Init, SetupTyped
<1>2. RowsTyped
  BY DEF Init, RowsTyped
<1>3. DOMAIN drafts = {} /\ DOMAIN plans = {} /\ age = <<>>
  BY DEF Init
<1>4. DraftsFit
  BY <1>3 DEF DraftsFit
<1>5. AgeOrders
  BY <1>3 DEF AgeOrders
<1>6. ReadsStand
  BY DEF Init, ReadsStand, NoRead
<1>7. requests \in 0..MaxRequests
  BY DEF Init
<1> QED BY <1>1, <1>2, <1>4, <1>5, <1>6, <1>7 DEF TInv

\* Whatever requests overlap: every row keeps its type, what an open request
\* read stays in the tables until it writes, a snapshot is never classified after
\* the last save, and no two drafts were updated at the same time, so that the
\* ladder's latest draft is one draft.
THEOREM TypesCorrect == Spec => []TypeOK
<1> DEFINE Counted == requests \in 0..MaxRequests
<1>1. Init => TInv /\ Counted
  BY TypesAtFirst
<1>2. IInv /\ TInv /\ Counted /\ [Next]_vars => (TInv /\ Counted)'
  BY TypesInductive, RequestsCounted
<1>3. IInv /\ TInv /\ Counted => TypeOK
  <2> SUFFICES ASSUME IInv, TInv, Counted PROVE TypeOK
    OBVIOUS
  <2>1. setup \subseteq Setup /\ rule \in {"absent", "active", "inactive"}
    BY DEF TInv, SetupTyped
  <2>2. /\ snapshots \in Seq(Snapshot) /\ rows \subseteq Row /\ saves \in Nat
        /\ saved \in [1..MaxSnapshots -> 0..saves] /\ plans \in Seq(Plan)
    BY DEF TInv, RowsTyped, IInv, SnapshotsInv, PlansInv
  <2>3. drafts \in Seq(Draft)
    <3>1. /\ drafts \in [1..Len(drafts) -> ToSet(drafts)] /\ Len(drafts) \in Nat
          /\ DOMAIN drafts = 1..Len(drafts)
      BY DraftsTyped, LenProperties
    <3>2. drafts \in [1..Len(drafts) -> Draft]
      BY <3>1 DEF TInv, DraftsFit
    <3> QED BY <3>1, <3>2, RowsAreSeq
  <2>4. /\ age \in [DOMAIN drafts -> Nat]
        /\ \A d, e \in DOMAIN drafts : age[d] = age[e] => d = e
    BY DEF TInv, AgeOrders
  <2>5. /\ pc \in [Workers -> {"idle", "planning", "drafting"}]
        /\ \A w \in Workers : /\ read[w].plans \subseteq DOMAIN plans
                              /\ pc[w] # "idle" => read[w].snap \in DOMAIN snapshots
    BY DEF TInv, ReadsStand, IInv, ReadInv
  <2> QED BY <2>1, <2>2, <2>3, <2>4, <2>5 DEF TypeOK
<1> HIDE DEF Counted
<1> QED BY <1>1, <1>2, <1>3, Invariant, PTL DEF Spec

-----------------------------------------------------------------------------
(* What follows                                                            *)

\* create_document_plan in any number of requests that overlap, for any number
\* of snapshots: whenever a snapshot has a plan to work with, it is the last one
\* made for it.
THEOREM NewestPlanPrevails == Spec => []NewestPlanIsActive
<1>1. IInv => NewestPlanIsActive
  <2> SUFFICES ASSUME IInv, NEW p \in DOMAIN plans, plans[p].status = "planned"
               PROVE  \E q \in ActivePlan(plans[p].snap) :
                        \A r \in DOMAIN plans : plans[r].snap = plans[p].snap =>
                                                plans[r].version <= plans[q].version
    BY DEF NewestPlanIsActive
  <2>1. Ordered(plans) /\ DOMAIN plans = 1..Len(plans) /\ Len(plans) \in Nat
    BY LenProperties DEF IInv, PlansInv
  <2>2. PICK q \in DOMAIN plans :
          /\ plans[q].snap = plans[p].snap /\ plans[q].status = "planned"
          /\ \A r \in DOMAIN plans : plans[r].snap = plans[p].snap => r <= q
    BY <2>1 DEF Ordered
  <2>3. ASSUME NEW r \in DOMAIN plans, plans[r].snap = plans[p].snap
        PROVE  plans[r].version <= plans[q].version
    <3>1. plans[r].version \in Int /\ plans[q].version \in Int
      BY DocumentsOfPlan DEF Plan
    <3>2. CASE r = q
      BY <3>1, <3>2
    <3>3. CASE r # q
      <4>1. r < q
        BY <2>1, <2>2, <2>3, <3>3
      <4>2. plans[r].snap = plans[q].snap
        BY <2>2, <2>3
      <4>3. plans[r].version < plans[q].version
        BY <2>1, <4>1, <4>2 DEF Ordered
      <4> QED BY <3>1, <4>3
    <3> QED BY <3>2, <3>3
  <2>4. q \in ActivePlan(plans[p].snap)
    BY <2>2, <2>3 DEF ActivePlan, PlannedOf
  <2> QED BY <2>3, <2>4
<1> QED BY <1>1, Invariant, PTL

-----------------------------------------------------------------------------
(* The ladder: what each step it names says of the rows                    *)

ChildSteps == {"create_child_drafts", "correct_child_drafts", "generate_child_xmls",
               "validate_child_xmls", "sign_child_xmls"}

DraftSteps == {"correct_draft", "generate_access_key", "generate_xml", "validate_xml",
               "sign_xml"}

Configured == {"configure_number_sequence", "configure_certificate", "completed"}

\* No two drafts were updated at the same time.
LEMMA OneLatestDraft ==
  ASSUME TypeOK, NEW d \in LatestDraft, NEW e \in LatestDraft
  PROVE  d = e
<1>1. /\ d \in DOMAIN drafts /\ ~drafts[d].removed
      /\ e \in DOMAIN drafts /\ ~drafts[e].removed
  BY DEF LatestDraft
<1>2. age[d] <= age[e] /\ age[e] <= age[d]
  BY <1>1 DEF LatestDraft
<1>3. age[d] \in Nat /\ age[e] \in Nat
  BY <1>1 DEF TypeOK
<1>4. age[d] = age[e]
  BY <1>2, <1>3
<1> QED BY <1>1, <1>4 DEF TypeOK

ChosenStep == CHOOSE a \in {DraftAction(drafts[d]) : d \in LatestDraft} : TRUE

LEMMA ChosenStepIs ==
  ASSUME TypeOK, NEW d \in LatestDraft
  PROVE  ChosenStep = DraftAction(drafts[d])
<1>1. {DraftAction(drafts[e]) : e \in LatestDraft} = {DraftAction(drafts[d])}
  BY OneLatestDraft
<1> QED BY <1>1 DEF ChosenStep

LEMMA StepNames ==
  /\ ChildAction \in ChildSteps \cup Configured
  /\ \A d : DraftAction(d) \in DraftSteps \cup Configured
<1>1. ChildAction \in ChildSteps \cup Configured
  BY DEF ChildAction, ChildSteps, Configured
<1>2. ASSUME NEW d PROVE DraftAction(d) \in DraftSteps \cup Configured
  BY DEF DraftAction, DraftSteps, Configured
<1> QED BY <1>1, <1>2

\* The ladder beyond the classification, branch by branch.
LEMMA LadderTop ==
  ASSUME next_action \in ChildSteps \cup DraftSteps \cup {"create_document_plan", "create_draft"}
  PROVE  /\ "profile" \in setup /\ Newest # 0 /\ ~ClassificationRequired
         /\ IF PlanRequired THEN next_action = "create_document_plan"
            ELSE IF Multi # {} THEN next_action = ChildAction
            ELSE IF LatestDraft = {} \/ DraftOutdated THEN next_action = "create_draft"
            ELSE next_action = ChosenStep
BY DEF next_action, ChosenStep, ChildSteps, DraftSteps

LEMMA PlanAdvice ==
  ASSUME TypeOK, next_action = "create_document_plan"
  PROVE  PlanRequired
<1>1. CASE Multi # {}
  BY <1>1, LadderTop, StepNames DEF ChildSteps, Configured
<1>2. CASE Multi = {} /\ ~(LatestDraft = {} \/ DraftOutdated)
  <2>1. PICK d \in LatestDraft : TRUE
    BY <1>2
  <2>2. ChosenStep # "create_document_plan"
    BY ChosenStepIs, StepNames DEF DraftSteps, Configured
  <2> QED BY <1>2, <2>2, LadderTop
<1> QED BY <1>1, <1>2, LadderTop

LEMMA ChildAdvice ==
  ASSUME TypeOK, next_action \in ChildSteps
  PROVE  /\ "profile" \in setup /\ Newest # 0 /\ ~ClassificationRequired
         /\ Multi # {} /\ ChildAction = next_action
<1>1. next_action \notin {"create_document_plan", "create_draft"}
  BY DEF ChildSteps
<1>2. LatestDraft # {} => ChosenStep \notin ChildSteps
  <2> SUFFICES ASSUME NEW d \in LatestDraft PROVE ChosenStep \notin ChildSteps
    OBVIOUS
  <2> QED BY ChosenStepIs, StepNames DEF ChildSteps, DraftSteps, Configured
<1> QED BY <1>1, <1>2, LadderTop

LEMMA DraftAdvice ==
  ASSUME TypeOK, next_action \in DraftSteps, NEW d \in LatestDraft
  PROVE  DraftAction(drafts[d]) = next_action
<1>1. next_action \notin {"create_document_plan", "create_draft"}
  BY DEF DraftSteps
<1>2. next_action # ChildAction
  BY StepNames DEF ChildSteps, DraftSteps, Configured
<1> QED BY <1>1, <1>2, LadderTop, ChosenStepIs

LEMMA CreateAdvice ==
  ASSUME TypeOK, next_action = "create_draft"
  PROVE  /\ "profile" \in setup /\ Newest # 0 /\ ~ClassificationRequired /\ ~PlanRequired
         /\ Multi = {} /\ (LatestDraft = {} \/ DraftOutdated)
<1>1. next_action # ChildAction
  BY StepNames DEF ChildSteps, Configured
<1>2. LatestDraft # {} => ChosenStep # "create_draft"
  <2> SUFFICES ASSUME NEW d \in LatestDraft PROVE ChosenStep # "create_draft"
    OBVIOUS
  <2> QED BY ChosenStepIs, StepNames DEF DraftSteps, Configured
<1> QED BY <1>1, <1>2, LadderTop

-----------------------------------------------------------------------------
(* The ladder: what it names is accepted                                   *)

\* A snapshot somebody classified is ready, once the ladder is past it.
LEMMA PastClassification ==
  ASSUME ~ClassificationRequired, LatestDraft = {} \/ Seen(Newest, rows)
  PROVE  Ready(Newest)
<1>1. CASE Items = {}
  BY <1>1 DEF Ready
<1>2. CASE Items # {}
  BY <1>2 DEF ClassificationRequired, HasRows, Seen
<1> QED BY <1>1, <1>2

LEMMA MultiPlans ==
  ASSUME IInv, NEW p \in Multi
  PROVE  p \in ActivePlan(Newest) /\ p \in DOMAIN plans /\ Seen(Newest, rows)
<1>1. p \in ActivePlan(Newest) /\ p \in DOMAIN plans /\ plans[p].snap = Newest
  BY DEF Multi, LatestPlan, ActivePlan, PlannedOf
<1>2. GoodPlan(plans[p], snapshots, rows)
  BY <1>1 DEF IInv, PlansInv
<1> QED BY <1>1, <1>2 DEF GoodPlan

LEMMA ChildrenAreActive ==
  ASSUME IInv, NEW d \in MultiChildren
  PROVE  Active(d) /\ GoodDraft(drafts[d])
<1>1. d \in DOMAIN drafts /\ ~drafts[d].removed
  BY DEF MultiChildren, Children, ChildOf
<1> QED BY <1>1, DraftsTyped DEF Active

LEMMA ChildDraftsAccepted ==
  ASSUME IInv, TypeOK, next_action = "create_child_drafts"
  PROVE  CanGenerate(Newest)
<1>1. /\ "profile" \in setup /\ ~ClassificationRequired /\ ChildAction = "create_child_drafts"
  BY ChildAdvice DEF ChildSteps
<1>2. PICK p \in Multi : Missing(p) # {}
  BY <1>1 DEF ChildAction
<1>3. Ready(Newest)
  BY <1>1, MultiPlans, PastClassification
<1> QED BY <1>1, <1>3, MultiPlans DEF CanGenerate

LEMMA DraftAccepted ==
  ASSUME IInv, TypeOK, next_action = "create_draft"
  PROVE  CanDraft(Newest)
<1>1. /\ "profile" \in setup /\ Newest # 0 /\ ~ClassificationRequired /\ ~PlanRequired
      /\ Multi = {} /\ (LatestDraft = {} \/ DraftOutdated)
  BY CreateAdvice
<1>2. Newest \in 1..MaxSnapshots
  BY <1>1, NewestSnapshot
<1>3. LatestDraft = {} \/ Seen(Newest, rows)
  <2> SUFFICES ASSUME NEW d \in LatestDraft, saved[Newest] > drafts[d].at
               PROVE  Seen(Newest, rows)
    BY <1>1 DEF DraftOutdated
  <2>1. d \in DOMAIN drafts
    BY DEF LatestDraft
  <2>2. drafts[d].at \in Nat
    BY <2>1, DraftsTyped DEF GoodDraft
  <2>3. saved[Newest] \in Nat
    BY <1>2 DEF IInv, SnapshotsInv
  <2>4. saved[Newest] > 0
    BY <2>2, <2>3
  <2> QED BY <1>2, <2>4 DEF IInv, SnapshotsInv
<1>4. Ready(Newest)
  BY <1>1, <1>3, PastClassification
<1>5. PICK p \in LatestPlan : TRUE
  BY <1>1, <1>4 DEF PlanRequired
<1>6. p \in DOMAIN plans /\ plans[p].snap = Newest
  BY <1>1 DEF LatestPlan, ActivePlan, PlannedOf
<1>7. /\ plans[p].documents = ExportersOf(Newest)
      /\ plans[p].documents # {} /\ IsFiniteSet(plans[p].documents)
  BY <1>6, DocumentsOfPlan
<1>8. ~(Cardinality(plans[p].documents) > 1)
  BY <1>1 DEF Multi
<1>9. Cardinality(plans[p].documents) \in Nat /\ Cardinality(plans[p].documents) # 0
  BY <1>7, FS_CardinalityType, FS_EmptySet
<1>10. Cardinality(ExportersOf(Newest)) = 1
  BY <1>7, <1>8, <1>9
<1> QED BY <1>1, <1>4, <1>10 DEF CanDraft

LEMMA CorrectionAccepted ==
  ASSUME IInv, TypeOK, next_action = "correct_child_drafts"
  PROVE  \E d \in MultiChildren : drafts[d].xml # "signed" /\ drafts[d].grade = "invalid"
<1>1. ChildAction = "correct_child_drafts"
  BY ChildAdvice DEF ChildSteps
<1>2. PICK d \in MultiChildren : drafts[d].grade = "invalid"
  BY <1>1 DEF ChildAction
<1>3. drafts[d].xml # "signed"
  BY <1>2, ChildrenAreActive DEF GoodDraft
<1> QED BY <1>2, <1>3

LEMMA XmlsAccepted ==
  ASSUME IInv, TypeOK, next_action = "generate_child_xmls", NEW d \in MultiChildren
  PROVE  CanXml(d) \/ drafts[d].xml = "signed" \/ (~drafts[d].key /\ "number" \notin setup)
<1>1. ChildAction = "generate_child_xmls"
  BY ChildAdvice DEF ChildSteps
<1>2. drafts[d].grade # "invalid"
  BY <1>1 DEF ChildAction
<1> QED BY <1>2, ChildrenAreActive DEF CanXml, Editable

LEMMA SignaturesAccepted ==
  ASSUME IInv, TypeOK, next_action = "sign_child_xmls", NEW d \in MultiChildren
  PROVE  CanSign(d) \/ drafts[d].xml = "signed" \/ drafts[d].stale \/ drafts[d].grade = "blocked"
<1>1. ChildAction = "sign_child_xmls"
  BY ChildAdvice DEF ChildSteps
<1>2. "certificate" \in setup /\ drafts[d].xml \notin {"none", "unknown", "invalid"}
  BY <1>1 DEF ChildAction
<1>3. Active(d) /\ drafts[d].xml \in {"valid", "signed"}
  BY <1>2, ChildrenAreActive DEF GoodDraft
<1> QED BY <1>2, <1>3 DEF CanSign

LEMMA DraftStepAccepted ==
  ASSUME IInv, TypeOK, NEW d \in LatestDraft
  PROVE  /\ next_action = "correct_draft" => Editable(d)
         /\ next_action = "generate_access_key" => CanKey(d) \/ "number" \notin setup
         /\ next_action = "generate_xml" => CanXml(d)
         /\ next_action = "validate_xml" => CanValidate(d)
         /\ next_action = "sign_xml" => CanSign(d) \/ drafts[d].grade = "blocked"
<1>1. Active(d) /\ GoodDraft(drafts[d])
  BY DraftsTyped DEF LatestDraft, Active
<1>2. next_action \in DraftSteps => DraftAction(drafts[d]) = next_action
  BY DraftAdvice
<1>3. next_action = "correct_draft" => Editable(d)
  BY <1>1, <1>2 DEF DraftSteps, DraftAction, Editable, GoodDraft
<1>4. next_action = "generate_access_key" => CanKey(d) \/ "number" \notin setup
  BY <1>1, <1>2 DEF DraftSteps, DraftAction, CanKey, Editable, GoodDraft
<1>5. next_action = "generate_xml" => CanXml(d)
  BY <1>1, <1>2 DEF DraftSteps, DraftAction, CanXml, Editable, GoodDraft
<1>6. next_action = "validate_xml" => CanValidate(d)
  BY <1>1, <1>2 DEF DraftSteps, DraftAction, CanValidate, GoodDraft
<1>7. next_action = "sign_xml" => CanSign(d) \/ drafts[d].grade = "blocked"
  BY <1>1, <1>2 DEF DraftSteps, DraftAction, CanSign, GoodDraft
<1> QED BY <1>3, <1>4, <1>5, <1>6, <1>7

\* get_nfe_workflow_state names no step that the service would refuse, but for
\* the keys that no number is left for and the two exceptions at the signature,
\* whatever other requests did before.
THEOREM LadderIsAccepted == Spec => []AdviceIsAccepted
<1>1. IInv /\ TypeOK => AdviceIsAccepted
  <2> SUFFICES ASSUME IInv, TypeOK PROVE AdviceIsAccepted
    OBVIOUS
  <2>1. next_action = "create_document_plan" => CanPlan(Newest)
    BY PlanAdvice DEF PlanRequired, CanPlan
  <2> QED BY <2>1, ChildDraftsAccepted, DraftAccepted, CorrectionAccepted, XmlsAccepted,
             SignaturesAccepted, DraftStepAccepted DEF AdviceIsAccepted
<1> QED BY <1>1, Invariant, TypesCorrect, PTL
=============================================================================
