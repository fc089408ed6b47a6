--------------------------- MODULE NfeDraftProofs ---------------------------
(***************************************************************************)
(* The NF-e draft is safe for any number of workers, certificates and      *)
(* instants: whatever requests overlap, at most one version is signed, and *)
(* what is signed is the latest version, approved by the XSD.  The proof   *)
(* has two layers: TypeInv bounds every value by the clock, and IInv says  *)
(* what an open request may rely on while others commit: the version it    *)
(* loaded is still there, and the row lock keeps other versions out.  A    *)
(* third layer, OrderlyInv, adds that no request writes over the change of *)
(* another: what is signed is then the draft as it stands, under its own   *)
(* key, for good.                                                          *)
(***************************************************************************)
EXTENDS NfeDraft, OrderLemmas, FiniteSetTheorems, SequenceTheorems, TLAPS

USE ClockAssumption, NoneAssumption

-----------------------------------------------------------------------------
(* The inductive invariant                                                 *)

\* The writes of a request: at most one value per row.
Plans == [draft : Optional(Draft), items : Optional(Items), xml : Optional(Xml),
          process : Optional(Processes), number : Optional(Instant)]

Issuance == [version : Instant, cert : Certs, key : Key, number : Instant,
             status : {"xsd_validated", "signed"}]

RowsInv ==
  /\ draft \in Draft /\ itemRows \in Items /\ process \in Processes
  /\ xmls \in SUBSET Xml
  /\ issuance \in SUBSET Issuance
  /\ attempts \in Seq({"succeeded", "failed"})
  /\ sequence \in Instant
  /\ activeCert \in Certs \cup {NoCert}

SessionInv ==
  /\ lock \in Workers \cup {Nobody} /\ seqLock \in Workers \cup {Nobody}
  /\ pc \in [Workers -> {"idle", "loaded", "staged", "signing"}]
  /\ kind \in [Workers -> Kinds \cup {"none"}]
  /\ seen \in [Workers -> Draft]
  /\ target \in [Workers -> Xml \cup {NoXml}]
  /\ cert \in [Workers -> Certs \cup {NoCert}]
  /\ plan \in [Workers -> Plans]

\* The requests that may still stamp an instant fit under the clock's bound.
Unstamped == {w \in Workers : pc[w] \in {"loaded", "signing"}}
RoomInv == clock \in Instant /\ clock + Cardinality(Unstamped) <= MaxClock

\* Numbers and versions are handed out at most once per instant.
BoundInv ==
  /\ sequence <= clock
  /\ \A x \in xmls : x.version <= clock
  /\ \A w \in Workers :
       /\ \A x \in plan[w].xml : x.version <= clock
       /\ \A n \in plan[w].number : n <= clock
       /\ target[w] \in Xml => target[w].version <= clock

\* A request that validates or signs has loaded a version, and signs with a
\* certificate.
LoadedInv == \A w \in Workers :
  /\ pc[w] # "idle" /\ kind[w] \in {"xsd", "sign"} => target[w] \in Xml
  /\ pc[w] = "signing" => target[w] \in Xml /\ cert[w] \in Certs

TypeInv == RowsInv /\ SessionInv /\ RoomInv /\ BoundInv /\ LoadedInv

\* The unique constraint of nfe_xml_versions.
UniqueInv == \A x, y \in xmls : Same(x, y) => x = y

\* A verdict on a version is what the XSD says of its content.
VerdictInv == \A x \in xmls : x.xsd # "unknown" => x.xsd = Validated(x).xsd

\* What is still in the table of a version that a request loaded: all of it, but
\* for a verdict that came later.
StillThere(x, t) ==
  /\ Same(x, t)
  /\ x.key = t.key /\ x.id = t.id /\ x.body = t.body /\ x.fits = t.fits /\ x.at = t.at
  /\ t.xsd # "unknown" => x.xsd = t.xsd

TargetInv(w) ==
  pc[w] # "idle" /\ kind[w] \in {"xsd", "sign"} =>
    \E x \in xmls : StillThere(x, target[w])

\* A version about to be committed is later than all others, and stays so
\* because its request holds the row lock; a verdict is about a loaded version.
PlanInv(w) ==
  pc[w] = "staged" =>
    /\ kind[w] = "xml" =>
         /\ lock = w
         /\ \A x \in plan[w].xml :
              /\ x.type = "unsigned" /\ x.xsd = "unknown"
              /\ \A u \in OfType("unsigned") : u.version < x.version
    /\ kind[w] = "xsd" => plan[w].xml = {Validated(target[w])}
    /\ kind[w] \notin {"xml", "xsd"} => plan[w].xml = {}

\* A version that is being signed was approved, is the latest unsigned one and
\* stays so under the row lock; nothing is signed yet, and what was attempted
\* before was attempted with the same version and certificate.
SigningInv(w) ==
  pc[w] = "signing" =>
    /\ kind[w] = "sign" /\ lock = w
    /\ target[w].type = "unsigned" /\ target[w].xsd = "valid"
    /\ \A u \in OfType("unsigned") : u.version <= target[w].version
    /\ OfType("signed") = {}
    /\ \A i \in issuance : i.version = target[w].version /\ i.cert = cert[w]

RequestInv(w) == TargetInv(w) /\ PlanInv(w) /\ SigningInv(w)

\* SignatureLedger, with the issuance as a set of at most one row.
LedgerInv ==
  /\ \A i, j \in issuance : i = j
  /\ issuance = {} <=> attempts = <<>>
  /\ OfType("signed") # {} <=> \E i \in issuance : i.status = "signed"
  /\ OfType("signed") # {} <=> /\ attempts # <<>>
                               /\ attempts[Len(attempts)] = "succeeded"
  /\ \A n \in 1..Len(attempts) - 1 : attempts[n] = "failed"

TableInv == UniqueInv /\ VerdictInv /\ LedgerInv /\ ApprovedBeforeSigned

IInv == TypeInv /\ TableInv /\ \A w \in Workers : RequestInv(w)

-----------------------------------------------------------------------------
(* Lemmas on the operators                                                 *)

LEMMA ValueType ==
  ASSUME NEW S, NEW option \in Optional(S), NEW default \in S
  PROVE  Value(option, default) \in S
BY DEF Value, Optional

LEMMA OptionalType ==
  ASSUME NEW S
  PROVE  /\ {} \in Optional(S)
         /\ \A x \in S : {x} \in Optional(S)
         /\ \A o \in Optional(S) : \A x : o \ {x} \in Optional(S)
         /\ \A o \in Optional(S) : \A x \in o : o = {x} /\ x \in S
BY DEF Optional

LEMMA FreshType == \A g \in Grades : FreshDraft(g) \in Draft /\ FreshDraft(g).payload.items \in Items
BY DEF FreshDraft, Draft, DraftStatus, Payload, Items, Grades, Key, NoKey, Instant

\* The UPDATE writes each column from the loaded row or from the request.
LEMMA FlushType ==
  ASSUME NEW row \in Draft, NEW loaded \in Draft, NEW new \in Draft
  PROVE  Flush(row, loaded, new) \in Draft
BY DEF Flush, Draft

LEMMA RefreshedType ==
  ASSUME NEW d \in Draft, NEW items \in Items, Now \in Instant
  PROVE  Refreshed(d, items) \in Draft
BY DEF Refreshed, Draft, Payload, Verdict, DraftStatus

LEMMA TouchedType ==
  ASSUME NEW d \in Draft, itemRows \in Items
  PROVE  Touched(d) \in Draft
BY DEF Touched, Draft, Payload

LEMMA KeyedType ==
  ASSUME NEW d \in Draft, NumberFor(d) \in Instant, Now \in Instant
  PROVE  Keyed(d) \in Draft
<1>1. Now - (Now % Second) \in Instant
  BY DEF Instant, Now
<1> QED BY <1>1 DEF Keyed, Draft, Payload, DraftStatus, Key

LEMMA NoPlanType == NoPlan \in Plans
BY OptionalType DEF NoPlan, Plans

LEMMA UnsignedType ==
  ASSUME NEW v \in Instant, NEW k \in Key, NEW p \in Payload, NEW f \in BOOLEAN,
         NEW t \in Instant
  PROVE  Unsigned(v, k, p, f, t) \in Xml
BY DEF Unsigned, Xml

LEMMA ValidatedType ==
  ASSUME NEW x \in Xml
  PROVE  Validated(x) \in Xml /\ Validated(x).version = x.version
BY DEF Validated, Xml

-----------------------------------------------------------------------------
(* Types                                                                   *)

\* What a request has planned is at most one value of the row's type.
LEMMA PlanMembers ==
  ASSUME SessionInv, NEW v \in Workers
  PROVE  /\ \A d \in plan[v].draft : plan[v].draft = {d} /\ d \in Draft
         /\ \A i \in plan[v].items : plan[v].items = {i} /\ i \in Items
         /\ \A x \in plan[v].xml : plan[v].xml = {x} /\ x \in Xml /\ x.version \in Int
         /\ \A n \in plan[v].number : plan[v].number = {n} /\ n \in Int
<1>1. plan[v] \in Plans
  BY DEF SessionInv
<1>2. \A x \in Xml : x.version \in Int
  BY DEF Xml, Instant
<1>3. \A n \in Instant : n \in Int
  BY DEF Instant
<1> QED BY <1>1, <1>2, <1>3 DEF Plans, Optional

LEMMA UnstampedFinite ==
  IsFiniteSet(Unstamped) /\ Cardinality(Unstamped) \in Nat
<1>1. Unstamped \in SUBSET Workers
  BY DEF Unstamped
<1> QED BY <1>1, FS_Subset, FS_CardinalityType, WorkersAssumption

\* A request that no longer waits to stamp makes room for the instant it took.
LEMMA RoomStep ==
  ASSUME RoomInv, NEW w \in Workers, Unstamped' \subseteq Unstamped \ {w},
         clock' = clock \/ (w \in Unstamped /\ clock' = Now)
  PROVE  RoomInv'
<1>1. /\ IsFiniteSet(Unstamped \ {w})
      /\ Cardinality(Unstamped \ {w}) =
           IF w \in Unstamped THEN Cardinality(Unstamped) - 1 ELSE Cardinality(Unstamped)
  BY UnstampedFinite, FS_RemoveElement
<1>2. Cardinality(Unstamped') <= Cardinality(Unstamped \ {w}) /\ Cardinality(Unstamped') \in Nat
  BY <1>1, FS_Subset, FS_CardinalityType
<1> QED BY <1>1, <1>2, UnstampedFinite DEF RoomInv, Now, Instant

\* A request that waits to stamp still may.
LEMMA NowType ==
  ASSUME RoomInv, NEW w \in Unstamped
  PROVE  Now \in Instant /\ Now > clock
<1>1. Cardinality(Unstamped) # 0
  BY UnstampedFinite, FS_EmptySet
<1> QED BY <1>1, UnstampedFinite DEF RoomInv, Now, Instant

\* The end of a request keeps every invariant on types, whatever it commits.
LEMMA CloseTypes ==
  ASSUME TypeInv, NEW w \in Workers, Close(w),
         clock' = clock \/ (w \in Unstamped /\ clock' = Now),
         RowsInv', sequence' <= clock', \A x \in xmls' : x.version <= clock'
  PROVE  TypeInv'
<1> USE DEF TypeInv
<1>1. SessionInv'
  BY FreshType, NoPlanType DEF SessionInv, Close, Grades
<1>2. RoomInv'
  <2>1. Unstamped' \subseteq Unstamped \ {w}
    BY DEF Unstamped, Close, SessionInv
  <2> QED BY <2>1, RoomStep
<1>3. BoundInv'
  <2>1. clock' >= clock /\ clock' \in Int /\ clock \in Int
    BY DEF RoomInv, Instant, Now
  <2>2. \A v \in Workers : v # w => plan'[v] = plan[v] /\ target'[v] = target[v]
    BY DEF Close, SessionInv
  <2>3. plan'[w] = NoPlan /\ target'[w] = NoXml
    BY DEF Close, SessionInv
  <2>4. NoXml \notin Xml
    BY DEF NoXml, Xml
  <2>5. \A v \in Workers :
          /\ \A x \in plan'[v].xml : x.version <= clock'
          /\ \A n \in plan'[v].number : n <= clock'
    <3> TAKE v \in Workers
    <3>1. CASE v = w
      BY <3>1, <2>3 DEF NoPlan
    <3>2. CASE v # w
      BY <3>2, <2>1, <2>2, PlanMembers DEF BoundInv
    <3> QED BY <3>1, <3>2
  <2>6. \A v \in Workers : target'[v] \in Xml => target'[v].version <= clock'
    <3> TAKE v \in Workers
    <3>1. target[v] \in Xml => target[v].version \in Int
      BY DEF Xml, Instant
    <3> QED BY <3>1, <2>1, <2>2, <2>3, <2>4 DEF BoundInv
  <2> QED BY <2>5, <2>6 DEF BoundInv
<1>4. LoadedInv'
  BY DEF LoadedInv, Close, SessionInv
<1> QED BY <1>1, <1>2, <1>3, <1>4

\* A request that stages well-typed writes within the clock keeps them too.
LEMMA StageTypes ==
  ASSUME TypeInv, NEW w \in Workers, NEW k, NEW changes \in Plans,
         Stage(w, k, changes),
         clock' = clock \/ clock' = Now,
         lock' \in Workers \cup {Nobody}, seqLock' \in Workers \cup {Nobody},
         \A x \in changes.xml : x.version <= clock',
         \A n \in changes.number : n <= clock'
  PROVE  TypeInv'
<1> USE DEF TypeInv
<1> DEFINE new == [changes EXCEPT !.process = @ \ {process}]
<1>1. new \in Plans /\ new.xml = changes.xml /\ new.number = changes.number
  BY OptionalType DEF Plans
<1>2. plan' = [plan EXCEPT ![w] = new]
  BY DEF Stage
<1> HIDE DEF new
<1>3. SessionInv'
  <2>1. plan' \in [Workers -> Plans]
    BY <1>1, <1>2 DEF SessionInv
  <2> QED BY <2>1 DEF SessionInv, Stage
<1>4. RowsInv'
  BY DEF RowsInv, Stage, committed
<1>5. RoomInv'
  <2>1. Unstamped' \subseteq Unstamped \ {w} /\ w \in Unstamped
    BY DEF Unstamped, Stage, SessionInv
  <2> QED BY <2>1, RoomStep
<1>6. BoundInv'
  <2>1. clock' >= clock /\ clock' \in Int /\ clock \in Int /\ sequence \in Int
    BY DEF RoomInv, RowsInv, Instant, Now
  <2>2. sequence' <= clock' /\ \A x \in xmls' : x.version <= clock'
    <3>1. \A x \in xmls : x.version \in Int
      BY DEF RowsInv, Xml, Instant
    <3> QED BY <3>1, <2>1 DEF BoundInv, Stage, committed
  <2>3. \A v \in Workers :
          /\ \A x \in plan'[v].xml : x.version <= clock'
          /\ \A n \in plan'[v].number : n <= clock'
    <3> TAKE v \in Workers
    <3>1. CASE v = w
      BY <3>1, <1>1, <1>2 DEF SessionInv
    <3>2. CASE v # w
      <4>1. plan'[v] = plan[v]
        BY <3>2, <1>2 DEF SessionInv
      <4> QED BY <4>1, <2>1, PlanMembers DEF BoundInv
    <3> QED BY <3>1, <3>2
  <2>4. \A v \in Workers : target'[v] \in Xml => target'[v].version <= clock'
    <3> TAKE v \in Workers
    <3>1. target[v] \in Xml => target[v].version \in Int
      BY DEF Xml, Instant
    <3> QED BY <3>1, <2>1 DEF BoundInv, Stage
  <2> QED BY <2>2, <2>3, <2>4 DEF BoundInv
<1>7. LoadedInv'
  BY DEF LoadedInv, Stage, SessionInv
<1> QED BY <1>3, <1>4, <1>5, <1>6, <1>7

\* A number that is reserved now is at most the instant of its reservation.
LEMMA NumberType ==
  ASSUME TypeInv, NEW w \in Unstamped, NEW d \in Draft
  PROVE  /\ NumberFor(d) \in Instant
         /\ Reserved(d) \in Optional(Instant)
         /\ \A n \in Reserved(d) : n <= Now
<1>1. /\ Now \in Instant /\ clock \in Instant /\ sequence \in Instant
      /\ sequence <= clock /\ d.number \in Instant
  BY NowType DEF TypeInv, RoomInv, RowsInv, BoundInv, Draft
<1>2. NumberFor(d) \in Instant /\ (d.number = 0 => NumberFor(d) <= Now)
  BY <1>1 DEF NumberFor, Instant, Now
<1> QED BY <1>2, OptionalType DEF Reserved

\* A new version is numbered after all unsigned ones.
LEMMA NextVersionType ==
  ASSUME TypeInv
  PROVE  /\ NextVersion \in 1..Now
         /\ \A u \in OfType("unsigned") : u.version < NextVersion
<1> DEFINE S == {0} \cup {x.version : x \in OfType("unsigned")}
<1>1. clock \in Nat
  BY DEF TypeInv, RoomInv, Instant
<1>2. S \in SUBSET (0..clock) /\ S # {}
  <2>1. \A x \in xmls : x.version \in 0..clock
    BY DEF TypeInv, RowsInv, RoomInv, BoundInv, Xml, Instant
  <2> QED BY <2>1, <1>1 DEF OfType
<1>3. Max(S) \in S /\ \A s \in S : Max(S) >= s
  BY <1>1, <1>2, BoundedMax
<1>4. \A u \in OfType("unsigned") : u.version \in S
  OBVIOUS
<1>5. NextVersion = 1 + Max(S)
  BY DEF NextVersion
<1>6. \A s \in S : s \in Int /\ s <= clock
  BY <1>1, <1>2
<1>7. 0 \in S
  OBVIOUS
<1> HIDE DEF S
<1>8. Max(S) \in Int /\ 0 <= Max(S) /\ Max(S) <= clock
  BY <1>1, <1>3, <1>6, <1>7
<1>9. \A u \in OfType("unsigned") : u.version \in Int /\ u.version <= Max(S)
  BY <1>3, <1>4, <1>6
<1> QED BY <1>1, <1>5, <1>8, <1>9 DEF Now

LEMMA UnstampedType ==
  ASSUME TypeInv, NEW w \in Workers, pc[w] = "loaded" \/ pc[w] = "signing"
  PROVE  /\ w \in Unstamped
         /\ Now \in Instant /\ Now > clock /\ clock \in Instant
         /\ seen[w] \in Draft /\ draft \in Draft /\ itemRows \in Items
BY NowType DEF Unstamped, TypeInv, SessionInv, RowsInv, RoomInv

\* The requests that edit the draft or remove it stage no version and no number.
LEMMA EditTypes ==
  ASSUME TypeInv, NEW w \in Workers, NEW k, NEW changes \in Plans,
         Stage(w, k, changes), Stamp, UNCHANGED locks,
         changes.xml = {}, changes.number = {}
  PROVE  TypeInv'
<1>1. lock' \in Workers \cup {Nobody} /\ seqLock' \in Workers \cup {Nobody}
  BY DEF TypeInv, SessionInv, locks
<1> QED BY <1>1, StageTypes DEF Stamp

LEMMA StageMetadataTypes ==
  ASSUME TypeInv, NEW w \in Workers, StageMetadata(w)
  PROVE  TypeInv'
<1>1. PICK rows \in {{}} \cup {{[rev |-> Now, grade |-> g]} : g \in Grades} :
        LET items == Value(rows, itemRows) IN
        Stage(w, "metadata",
              [NoPlan EXCEPT
                 !.draft = {[Refreshed(seen[w], items) EXCEPT !.payload.meta = Now]},
                 !.items = rows,
                 !.process = {IF Valid(items) THEN "draft_ready"
                              ELSE "draft_validation_failed"}])
  BY DEF StageMetadata
<1> DEFINE items == Value(rows, itemRows)
           new == [Refreshed(seen[w], items) EXCEPT !.payload.meta = Now]
           status == IF Valid(items) THEN "draft_ready" ELSE "draft_validation_failed"
           changes == [NoPlan EXCEPT !.draft = {new}, !.items = rows, !.process = {status}]
<1>2. Stage(w, "metadata", changes)
  BY <1>1
<1>3. pc[w] = "loaded"
  BY <1>2 DEF Stage
<1>4. rows \in Optional(Items)
  BY <1>1, <1>3, UnstampedType DEF Items, Optional
<1>5. items \in Items
  BY <1>3, <1>4, UnstampedType, ValueType
<1>6. new \in Draft
  <2>1. Refreshed(seen[w], items) \in Draft
    BY <1>3, <1>5, UnstampedType, RefreshedType
  <2> QED BY <2>1, <1>3, UnstampedType DEF Draft, Payload
<1>7. status \in Processes
  BY DEF Processes
<1> HIDE DEF items, new, status
<1>8. changes \in Plans /\ changes.xml = {} /\ changes.number = {}
  BY <1>4, <1>6, <1>7, OptionalType DEF NoPlan, Plans
<1> HIDE DEF changes
<1> QED BY <1>2, <1>8, EditTypes DEF StageMetadata

LEMMA StageItemTypes ==
  ASSUME TypeInv, NEW w \in Workers, StageItem(w)
  PROVE  TypeInv'
<1>1. PICK g \in Grades :
        LET items == [rev |-> Now, grade |-> g] IN
        Stage(w, "item", [NoPlan EXCEPT !.draft = {Refreshed(seen[w], items)},
                                        !.items = {items}])
  BY DEF StageItem
<1> DEFINE items == [rev |-> Now, grade |-> g]
           changes == [NoPlan EXCEPT !.draft = {Refreshed(seen[w], items)}, !.items = {items}]
<1>2. Stage(w, "item", changes)
  BY <1>1
<1>3. pc[w] = "loaded"
  BY <1>2 DEF Stage
<1>4. items \in Items
  BY <1>3, UnstampedType DEF Items
<1>5. Refreshed(seen[w], items) \in Draft
  BY <1>3, <1>4, UnstampedType, RefreshedType
<1> HIDE DEF items
<1>6. changes \in Plans /\ changes.xml = {} /\ changes.number = {}
  <2>1. {Refreshed(seen[w], items)} \in Optional(Draft) /\ {items} \in Optional(Items)
    BY <1>4, <1>5, OptionalType
  <2> QED BY <2>1, NoPlanType DEF NoPlan, Plans
<1> HIDE DEF changes
<1> QED BY <1>2, <1>6, EditTypes DEF StageItem

LEMMA StageValidateTypes ==
  ASSUME TypeInv, NEW w \in Workers, StageValidate(w)
  PROVE  TypeInv'
<1> DEFINE changes == [NoPlan EXCEPT !.draft = {Refreshed(seen[w], itemRows)}]
<1>1. Stage(w, "validate", changes)
  BY DEF StageValidate
<1>2. Refreshed(seen[w], itemRows) \in Draft
  BY <1>1, UnstampedType, RefreshedType DEF Stage
<1>3. changes \in Plans /\ changes.xml = {} /\ changes.number = {}
  BY <1>2, OptionalType DEF NoPlan, Plans
<1> HIDE DEF changes
<1> QED BY <1>1, <1>3, EditTypes DEF StageValidate

LEMMA StageRemoveTypes ==
  ASSUME TypeInv, NEW w \in Workers, StageRemove(w)
  PROVE  TypeInv'
<1> DEFINE mode == RemovalMode(seen[w])
           new == [seen[w] EXCEPT !.removed = mode, !.updated = Now,
                                  !.payload.disposed = mode = "archived"]
           changes == [NoPlan EXCEPT !.draft = {new}]
<1>1. Stage(w, "remove", changes)
  BY DEF StageRemove
<1>2. new \in Draft
  <2>1. mode \in {"archived", "deleted"}
    BY DEF RemovalMode
  <2>2. seen[w] \in Draft /\ Now \in Instant
    BY <1>1, UnstampedType DEF Stage
  <2> HIDE DEF mode
  <2> QED BY <2>1, <2>2 DEF Draft, Payload
<1> HIDE DEF new
<1>3. changes \in Plans /\ changes.xml = {} /\ changes.number = {}
  BY <1>2, OptionalType DEF NoPlan, Plans
<1> HIDE DEF changes
<1> QED BY <1>1, <1>3, EditTypes DEF StageRemove

LEMMA StageKeyTypes ==
  ASSUME TypeInv, NEW w \in Workers, StageKey(w)
  PROVE  TypeInv'
<1> DEFINE changes == [NoPlan EXCEPT !.draft = {Keyed(seen[w])}, !.number = Reserved(seen[w])]
<1>1. Stage(w, "key", changes)
  BY DEF StageKey
<1>2. pc[w] = "loaded"
  BY <1>1 DEF Stage
<1>3. Keyed(seen[w]) \in Draft
  BY <1>2, UnstampedType, NumberType, KeyedType
<1>4. Reserved(seen[w]) \in Optional(Instant) /\ \A n \in Reserved(seen[w]) : n <= Now
  BY <1>2, UnstampedType, NumberType
<1>5. changes \in Plans /\ changes.xml = {} /\ changes.number = Reserved(seen[w])
  <2>1. {Keyed(seen[w])} \in Optional(Draft)
    BY <1>3, OptionalType
  <2> QED BY <2>1, <1>4, NoPlanType DEF NoPlan, Plans
<1>6. lock' \in Workers \cup {Nobody} /\ seqLock' \in Workers \cup {Nobody}
  BY DEF StageKey, Reservation, TypeInv, SessionInv
<1>7. clock' = Now
  BY DEF StageKey, Stamp
<1> HIDE DEF changes
<1> QED BY <1>1, <1>4, <1>5, <1>6, <1>7, StageTypes

LEMMA ReadItemsTypes ==
  ASSUME TypeInv, NEW w \in Workers, ReadItems(w)
  PROVE  TypeInv'
<1> USE DEF TypeInv
<1>1. /\ UNCHANGED <<committed, activeCert, locks, pc, kind, seen, target, cert, clock>>
      /\ plan' = [plan EXCEPT ![w].items = {itemRows}]
  BY DEF ReadItems
<1>2. /\ plan' \in [Workers -> Plans]
      /\ \A v \in Workers : plan'[v].xml = plan[v].xml /\ plan'[v].number = plan[v].number
  <2> DEFINE new == [plan[w] EXCEPT !.items = {itemRows}]
  <2>1. {itemRows} \in Optional(Items)
    BY OptionalType DEF RowsInv
  <2>2. new \in Plans /\ new.xml = plan[w].xml /\ new.number = plan[w].number
    <3>1. plan[w] \in Plans
      BY DEF SessionInv
    <3> QED BY <2>1, <3>1 DEF Plans
  <2>3. plan' = [plan EXCEPT ![w] = new]
    BY <1>1, Zenon DEF SessionInv
  <2> HIDE DEF new
  <2> QED BY <2>2, <2>3 DEF SessionInv
<1>3. SessionInv'
  BY <1>1, <1>2 DEF SessionInv, locks
<1>4. RowsInv'
  BY <1>1 DEF RowsInv, committed
<1>5. RoomInv'
  <2>1. Unstamped' = Unstamped
    BY <1>1 DEF Unstamped
  <2> QED BY <2>1, <1>1 DEF RoomInv
<1>6. BoundInv'
  BY <1>1, <1>2 DEF BoundInv, committed
<1>7. LoadedInv'
  BY <1>1 DEF LoadedInv
<1> QED BY <1>3, <1>4, <1>5, <1>6, <1>7

LEMMA StageXmlTypes ==
  ASSUME TypeInv, NEW w \in Workers, StageXml(w)
  PROVE  TypeInv'
<1> DEFINE d == seen[w]
           built(items) == [Refreshed(WithKey(d), items) EXCEPT !.status = "xml_generated"]
           version(items, fits) ==
             Unsigned(NextVersion, built(items).key, built(items).payload, fits, Now)
           number == IF d.key = NoKey THEN Reserved(d) ELSE {}
           changes(items, fits) ==
             [NoPlan EXCEPT !.draft = {built(items)}, !.xml = {version(items, fits)},
                            !.process = {"xml_generated"}, !.number = number]
<1>1. PICK items \in XmlItems(w), fits \in BOOLEAN : Stage(w, "xml", changes(items, fits))
  BY DEF StageXml
<1>2. /\ pc[w] = "loaded"
      /\ clock' = Now
      /\ lock' \in Workers \cup {Nobody} /\ seqLock' \in Workers \cup {Nobody}
  BY DEF StageXml, Stage, Stamp, RowLock, Reservation, TypeInv, SessionInv
<1>3. items \in Items
  BY <1>1, <1>2, UnstampedType, PlanMembers DEF XmlItems, TypeInv
<1>4. WithKey(d) \in Draft
  BY <1>2, UnstampedType, NumberType, KeyedType DEF WithKey
<1>5. built(items) \in Draft
  <2>1. Refreshed(WithKey(d), items) \in Draft
    BY <1>2, <1>3, <1>4, UnstampedType, RefreshedType
  <2> QED BY <2>1 DEF Draft, DraftStatus
<1>6. version(items, fits) \in Xml /\ version(items, fits).version <= Now
  <2>1. NextVersion \in Instant /\ NextVersion <= Now /\ Now \in Instant
    BY <1>2, UnstampedType, NextVersionType DEF Instant, Now
  <2>2. built(items).key \in Key /\ built(items).payload \in Payload
    BY <1>5 DEF Draft
  <2>3. version(items, fits) \in Xml
    BY <2>1, <2>2, UnsignedType
  <2> QED BY <2>1, <2>3 DEF Unsigned
<1>7. number \in Optional(Instant) /\ \A n \in number : n <= Now
  BY <1>2, UnstampedType, NumberType, OptionalType
<1> HIDE DEF built, version, number
<1>8. /\ changes(items, fits) \in Plans
      /\ changes(items, fits).xml = {version(items, fits)}
      /\ changes(items, fits).number = number
  <2>1. /\ {built(items)} \in Optional(Draft)
        /\ {version(items, fits)} \in Optional(Xml)
        /\ {"xml_generated"} \in Optional(Processes)
    BY <1>5, <1>6, OptionalType DEF Processes
  <2> QED BY <2>1, <1>7, NoPlanType DEF NoPlan, Plans
<1> HIDE DEF changes
<1> QED BY <1>1, <1>2, <1>6, <1>7, <1>8, StageTypes

LEMMA StageXsdTypes ==
  ASSUME TypeInv, NEW w \in Workers, StageXsd(w)
  PROVE  TypeInv'
<1> DEFINE x == target[w]
           process1 == IF Latest(x) THEN {ProcessAfter(x)} ELSE {}
           changes == [NoPlan EXCEPT !.xml = {Validated(x)}, !.process = process1]
<1>1. Stage(w, "xsd", changes) /\ UNCHANGED <<locks, clock>>
  BY DEF StageXsd
<1>2. pc[w] = "loaded" /\ kind[w] = "xsd"
  BY <1>1 DEF Stage
<1>3. x \in Xml /\ x.version <= clock
  BY <1>2 DEF TypeInv, LoadedInv, BoundInv
<1>4. Validated(x) \in Xml /\ Validated(x).version <= clock
  BY <1>3, ValidatedType
<1>5. process1 \in Optional(Processes)
  <2>1. ProcessAfter(x) \in Processes
    BY DEF ProcessAfter, Processes
  <2> QED BY <2>1, OptionalType
<1> HIDE DEF process1
<1>6. changes \in Plans /\ changes.xml = {Validated(x)} /\ changes.number = {}
  <2>1. {Validated(x)} \in Optional(Xml)
    BY <1>4, OptionalType
  <2> QED BY <2>1, <1>5, NoPlanType DEF NoPlan, Plans
<1>7. lock' \in Workers \cup {Nobody} /\ seqLock' \in Workers \cup {Nobody}
  BY <1>1 DEF TypeInv, SessionInv, locks
<1> HIDE DEF changes, x
<1> QED BY <1>1, <1>4, <1>6, <1>7, StageTypes

LEMMA LoadTypes ==
  ASSUME TypeInv, NEW w \in Workers, NEW k \in Kinds, Load(w, k)
  PROVE  TypeInv'
<1> USE DEF TypeInv
<1>1. /\ UNCHANGED <<committed, activeCert, locks, plan, clock>>
      /\ pc' = [pc EXCEPT ![w] = "loaded"] /\ kind' = [kind EXCEPT ![w] = k]
      /\ seen' = [seen EXCEPT ![w] = draft]
      /\ \/ k \in {"xsd", "sign"} /\ \E x \in xmls : target' = [target EXCEPT ![w] = x]
         \/ k \notin {"xsd", "sign"} /\ target' = target
      /\ \/ \E c \in Certs \cup {NoCert} : cert' = [cert EXCEPT ![w] = c]
         \/ cert' = cert
  BY DEF Load
<1>2. target' \in [Workers -> Xml \cup {NoXml}]
  BY <1>1 DEF SessionInv, RowsInv
<1>3. SessionInv'
  <2>1. cert' \in [Workers -> Certs \cup {NoCert}]
    BY <1>1 DEF SessionInv
  <2> QED BY <1>1, <1>2, <2>1 DEF SessionInv, RowsInv, locks
<1>4. RowsInv'
  BY <1>1 DEF RowsInv, committed
<1>5. RoomInv'
  <2> DEFINE open == {v \in Workers : pc[v] # "idle"}
  <2>1. IsFiniteSet(open) /\ Cardinality(open) \in Nat
    <3>1. open \in SUBSET Workers
      OBVIOUS
    <3> QED BY <3>1, FS_Subset, FS_CardinalityType, WorkersAssumption
  <2>2. w \notin open /\ clock + Cardinality(open) < MaxClock
    BY DEF Load, Room
  <2>3. Unstamped' \subseteq open \cup {w}
    BY <1>1 DEF Unstamped, SessionInv
  <2> HIDE DEF open
  <2>4. IsFiniteSet(open \cup {w}) /\ Cardinality(open \cup {w}) = Cardinality(open) + 1
    BY <2>1, <2>2, FS_AddElement
  <2>5. Cardinality(Unstamped') <= Cardinality(open) + 1 /\ Cardinality(Unstamped') \in Nat
    BY <2>3, <2>4, FS_Subset, FS_CardinalityType
  <2> QED BY <1>1, <2>1, <2>2, <2>5 DEF RoomInv, Instant
<1>6. BoundInv'
  <2>1. \A v \in Workers : target'[v] \in Xml => target'[v].version <= clock
    BY <1>1 DEF BoundInv, SessionInv
  <2> QED BY <1>1, <2>1 DEF BoundInv, committed
<1>7. LoadedInv'
  <2>1. \A v \in Workers : v # w => pc'[v] = pc[v] /\ kind'[v] = kind[v] /\ target'[v] = target[v]
    BY <1>1 DEF SessionInv
  <2>2. k \in {"xsd", "sign"} => target'[w] \in Xml
    BY <1>1 DEF SessionInv, RowsInv
  <2> QED BY <1>1, <2>1, <2>2 DEF LoadedInv, SessionInv
<1> QED BY <1>3, <1>4, <1>5, <1>6, <1>7

LEMMA CommitTypes ==
  ASSUME TypeInv, NEW w \in Workers, Commit(w)
  PROVE  TypeInv'
<1> USE DEF TypeInv
<1>1. /\ Close(w)
      /\ draft' = (IF plan[w].draft = {} THEN draft
                   ELSE Flush(draft, seen[w], Value(plan[w].draft, draft)))
      /\ itemRows' = Value(plan[w].items, itemRows)
      /\ xmls' = {x \in xmls : \A y \in plan[w].xml : ~Same(x, y)} \cup plan[w].xml
      /\ process' = Value(plan[w].process, process)
      /\ sequence' = Value(plan[w].number, sequence)
      /\ UNCHANGED <<issuance, attempts, activeCert, clock>>
  BY DEF Commit
<1>2. plan[w] \in Plans /\ seen[w] \in Draft
  BY DEF SessionInv
<1>3. draft' \in Draft
  <2>1. Value(plan[w].draft, draft) \in Draft
    BY <1>2, ValueType DEF Plans, RowsInv
  <2> QED BY <1>1, <1>2, <2>1, FlushType DEF RowsInv
<1>4. itemRows' \in Items
  BY <1>1, <1>2, ValueType DEF Plans, RowsInv
<1>5. process' \in Processes
  BY <1>1, <1>2, ValueType DEF Plans, RowsInv
<1>6. sequence' \in Instant /\ sequence' <= clock
  <2>1. sequence' \in Instant
    BY <1>1, <1>2, ValueType DEF Plans, RowsInv
  <2>2. sequence' = sequence \/ sequence' \in plan[w].number
    BY <1>1 DEF Value
  <2> QED BY <2>1, <2>2 DEF BoundInv
<1>7. xmls' \in SUBSET Xml /\ \A x \in xmls' : x.version <= clock
  BY <1>1, PlanMembers DEF RowsInv, BoundInv
<1>8. RowsInv'
  BY <1>1, <1>3, <1>4, <1>5, <1>6, <1>7 DEF RowsInv
<1> QED BY <1>1, <1>6, <1>7, <1>8, CloseTypes

\* The requests to sign that end without an attempt leave the draft touched.
LEMMA TouchedTypes ==
  ASSUME TypeInv, NEW w \in Workers, Close(w),
         draft' = Flush(draft, seen[w], Touched(seen[w])),
         UNCHANGED <<itemRows, xmls, issuance, attempts, process, sequence, activeCert, clock>>
  PROVE  TypeInv'
<1> USE DEF TypeInv
<1>1. draft' \in Draft
  BY TouchedType, FlushType DEF RowsInv, SessionInv
<1>2. RowsInv'
  BY <1>1 DEF RowsInv
<1> QED BY <1>2, CloseTypes DEF BoundInv

LEMMA SignStartTypes ==
  ASSUME TypeInv, NEW w \in Workers, SignStart(w)
  PROVE  TypeInv'
<1> USE DEF TypeInv
<1>1. /\ UNCHANGED <<committed, activeCert, seqLock, kind, seen, target, plan, clock>>
      /\ pc[w] = "loaded" /\ kind[w] = "sign"
      /\ pc' = [pc EXCEPT ![w] = "signing"]
      /\ cert' = [cert EXCEPT ![w] = activeCert]
      /\ lock' = w /\ activeCert # NoCert
  BY DEF SignStart, Signing, Locked, HasCert
<1>2. SessionInv'
  BY <1>1 DEF SessionInv, RowsInv
<1>3. RowsInv'
  BY <1>1 DEF RowsInv, committed
<1>4. RoomInv'
  <2>1. Unstamped' = Unstamped
    BY <1>1 DEF Unstamped, SessionInv
  <2> QED BY <2>1, <1>1 DEF RoomInv
<1>5. BoundInv'
  BY <1>1 DEF BoundInv, committed
<1>6. LoadedInv'
  BY <1>1 DEF LoadedInv, SessionInv, RowsInv
<1> QED BY <1>2, <1>3, <1>4, <1>5, <1>6

\* What an attempt leaves of the issuance is a row of it.
LEMMA IssuedType ==
  ASSUME TypeInv, NEW w \in Workers, pc[w] = "signing",
         NEW status \in {"xsd_validated", "signed"}
  PROVE  Issued(w, status) \in SUBSET Issuance
<1>1. target[w].version \in Instant /\ cert[w] \in Certs
  BY DEF TypeInv, LoadedInv, Xml
<1>2. seen[w].key \in Key /\ seen[w].number \in Instant
  BY UnstampedType DEF Draft
<1>3. issuance \in SUBSET Issuance
  BY DEF TypeInv, RowsInv
<1>4. \A i \in issuance : [i EXCEPT !.status = status, !.cert = cert[w]] \in Issuance
  BY <1>1, <1>3 DEF Issuance
<1>5. [version |-> target[w].version, cert |-> cert[w], key |-> seen[w].key,
       number |-> seen[w].number, status |-> status] \in Issuance
  BY <1>1, <1>2 DEF Issuance
<1> QED BY <1>4, <1>5 DEF Issued

LEMMA SignSucceedsTypes ==
  ASSUME TypeInv, NEW w \in Workers, SignSucceeds(w)
  PROVE  TypeInv'
<1> USE DEF TypeInv
<1> DEFINE signed == [target[w] EXCEPT !.type = "signed", !.key = seen[w].key, !.at = Now]
           new == [Touched(seen[w]) EXCEPT !.status = "signed", !.updated = Now]
<1>1. /\ pc[w] = "signing" /\ Close(w) /\ clock' = Now
      /\ xmls' = xmls \cup {signed}
      /\ issuance' = Issued(w, "signed")
      /\ attempts' = Append(attempts, "succeeded")
      /\ draft' = Flush(draft, seen[w], new)
      /\ process' = "xml_signed"
      /\ UNCHANGED <<itemRows, sequence, activeCert>>
  BY DEF SignSucceeds, Stamp
<1>2. /\ w \in Unstamped
      /\ Now \in Instant /\ Now > clock /\ clock \in Int /\ Now \in Int
      /\ seen[w] \in Draft
  BY <1>1, UnstampedType DEF RoomInv, Instant
<1>3. target[w] \in Xml /\ target[w].version <= clock /\ target[w].version \in Int
  BY <1>1 DEF LoadedInv, BoundInv, Xml, Instant
<1>4. signed \in Xml /\ signed.version <= Now
  <2>1. seen[w].key \in Key
    BY <1>2 DEF Draft
  <2>2. target[w].version <= Now
    BY <1>2, <1>3
  <2> QED BY <2>1, <2>2, <1>2, <1>3 DEF Xml
<1>5. new \in Draft
  <2>1. Touched(seen[w]) \in Draft
    BY <1>2, TouchedType DEF RowsInv
  <2> QED BY <2>1, <1>2 DEF Draft, DraftStatus
<1> HIDE DEF signed, new
<1>6. RowsInv'
  <2>1. draft' \in Draft
    BY <1>1, <1>2, <1>5, FlushType DEF RowsInv
  <2>2. xmls' \in SUBSET Xml
    BY <1>1, <1>4 DEF RowsInv
  <2>3. issuance' \in SUBSET Issuance
    BY <1>1, IssuedType
  <2>4. attempts' \in Seq({"succeeded", "failed"})
    BY <1>1, AppendProperties DEF RowsInv
  <2> QED BY <1>1, <2>1, <2>2, <2>3, <2>4 DEF RowsInv, Processes
<1>7. sequence' <= clock' /\ \A x \in xmls' : x.version <= clock'
  <2>1. \A x \in xmls : x.version <= clock /\ x.version \in Int
    BY DEF BoundInv, RowsInv, Xml, Instant
  <2>2. sequence <= clock /\ sequence \in Int
    BY DEF BoundInv, RowsInv, Instant
  <2> QED BY <1>1, <1>2, <1>4, <2>1, <2>2
<1> QED BY <1>1, <1>2, <1>6, <1>7, CloseTypes

LEMMA SignFailsTypes ==
  ASSUME TypeInv, NEW w \in Workers, SignFails(w)
  PROVE  TypeInv'
<1> USE DEF TypeInv
<1>1. /\ pc[w] = "signing" /\ Close(w) /\ clock' = Now
      /\ issuance' = IF issuance = {} THEN Issued(w, "xsd_validated") ELSE issuance
      /\ attempts' = Append(attempts, "failed")
      /\ draft' = Flush(draft, seen[w], Touched(seen[w]))
      /\ UNCHANGED <<itemRows, xmls, process, sequence, activeCert>>
  BY DEF SignFails, Stamp
<1>2. w \in Unstamped /\ Now > clock /\ clock \in Int /\ Now \in Int
  BY <1>1, UnstampedType DEF RoomInv, Instant
<1>3. RowsInv'
  <2>1. draft' \in Draft
    BY <1>1, TouchedType, FlushType DEF RowsInv, SessionInv
  <2>2. issuance' \in SUBSET Issuance
    BY <1>1, IssuedType DEF RowsInv
  <2>3. attempts' \in Seq({"succeeded", "failed"})
    BY <1>1, AppendProperties DEF RowsInv
  <2> QED BY <1>1, <2>1, <2>2, <2>3 DEF RowsInv
<1>4. sequence' <= clock' /\ \A x \in xmls' : x.version <= clock'
  <2>1. \A x \in xmls : x.version <= clock /\ x.version \in Int
    BY DEF BoundInv, RowsInv, Xml, Instant
  <2>2. sequence <= clock /\ sequence \in Int
    BY DEF BoundInv, RowsInv, Instant
  <2> QED BY <1>1, <1>2, <2>1, <2>2
<1> QED BY <1>1, <1>2, <1>3, <1>4, CloseTypes

\* A rollback.
LEMMA RollbackTypes ==
  ASSUME TypeInv, NEW w \in Workers, Close(w), UNCHANGED <<committed, activeCert, clock>>
  PROVE  TypeInv'
<1>1. RowsInv'
  BY DEF TypeInv, RowsInv, committed
<1> QED BY <1>1, CloseTypes DEF TypeInv, BoundInv, committed

LEMMA TypeInit == Init => TypeInv
<1> SUFFICES ASSUME Init PROVE TypeInv
  OBVIOUS
<1>1. PICK g \in Grades : draft = FreshDraft(g) /\ itemRows = draft.payload.items
  BY DEF Init
<1>2. RowsInv
  BY <1>1, FreshType DEF Init, RowsInv, Processes, Instant
<1>3. SessionInv
  BY FreshType, NoPlanType DEF Init, SessionInv, Grades
<1>4. RoomInv
  <2>1. Unstamped = {}
    BY DEF Init, Unstamped
  <2> QED BY <2>1, FS_EmptySet DEF Init, RoomInv, Instant
<1>5. BoundInv /\ LoadedInv
  BY DEF Init, BoundInv, LoadedInv, NoPlan, NoXml, Xml
<1> QED BY <1>2, <1>3, <1>4, <1>5 DEF TypeInv

LEMMA TypeStep == TypeInv /\ [Next]_vars => TypeInv'
<1> SUFFICES ASSUME TypeInv, [Next]_vars PROVE TypeInv'
  OBVIOUS
<1>1. CASE UNCHANGED vars
  <2>1. Unstamped' = Unstamped
    BY <1>1 DEF Unstamped, vars, local
  <2> QED BY <1>1, <2>1 DEF TypeInv, RowsInv, SessionInv, RoomInv, BoundInv,
                            LoadedInv, vars, committed, locks, local
<1>2. ASSUME NEW w \in Workers, NEW k \in Kinds, Load(w, k) PROVE TypeInv'
  BY <1>2, LoadTypes
<1>3. ASSUME NEW w \in Workers, Service(w) PROVE TypeInv'
  <2>1. CASE StageMetadata(w)    BY <2>1, StageMetadataTypes
  <2>2. CASE StageItem(w)        BY <2>2, StageItemTypes
  <2>3. CASE StageValidate(w)    BY <2>3, StageValidateTypes
  <2>4. CASE StageRemove(w)      BY <2>4, StageRemoveTypes
  <2>5. CASE StageKey(w)         BY <2>5, StageKeyTypes
  <2>6. CASE ReadItems(w)        BY <2>6, ReadItemsTypes
  <2>7. CASE StageXml(w)         BY <2>7, StageXmlTypes
  <2>8. CASE StageXsd(w)         BY <2>8, StageXsdTypes
  <2>9. CASE SignReplay(w)       BY <2>9, TouchedTypes DEF SignReplay
  <2>10. CASE SignWithoutCert(w) BY <2>10, TouchedTypes DEF SignWithoutCert
  <2>11. CASE SignStart(w)       BY <2>11, SignStartTypes
  <2>12. CASE SignSucceeds(w)    BY <2>12, SignSucceedsTypes
  <2>13. CASE SignFails(w)       BY <2>13, SignFailsTypes
  <2>14. CASE Refuse(w)          BY <2>14, RollbackTypes DEF Refuse
  <2>15. CASE Commit(w)          BY <2>15, CommitTypes
  <2> QED BY <1>3, <2>1, <2>2, <2>3, <2>4, <2>5, <2>6, <2>7, <2>8, <2>9, <2>10,
             <2>11, <2>12, <2>13, <2>14, <2>15 DEF Service
<1>4. ASSUME NEW w \in Workers, Abort(w) PROVE TypeInv'
  BY <1>4, RollbackTypes DEF Abort
<1>5. ASSUME NEW c \in Certs \cup {NoCert}, SwitchCertificate(c) PROVE TypeInv'
  <2>1. Unstamped' = Unstamped
    BY <1>5 DEF Unstamped, SwitchCertificate, local
  <2> QED BY <1>5, <2>1 DEF SwitchCertificate, TypeInv, RowsInv, SessionInv, RoomInv,
                            BoundInv, LoadedInv, committed, locks, local
<1> QED BY <1>1, <1>2, <1>3, <1>4, <1>5 DEF Next

LEMMA TypeInvariant == Spec => []TypeInv
BY TypeInit, TypeStep, PTL DEF Spec

\* Every row and every session variable holds a value of its type: no overlap of
\* requests, failure or rollback of nfe_drafts leaves a column out of its range.
THEOREM TypeCorrect == Spec => []TypeOK
<1>1. TypeInv => TypeOK
  <2> SUFFICES ASSUME TypeInv PROVE TypeOK
    OBVIOUS
  <2>1. \A w \in Workers :
          /\ plan[w].draft = {} \/ \E d \in plan[w].draft : plan[w].draft = {d} /\ d \in Draft
          /\ plan[w].items \in Optional(Items)
          /\ plan[w].xml = {} \/ \E x \in plan[w].xml : plan[w].xml = {x} /\ x \in Xml
          /\ plan[w].process \in Optional(Processes)
          /\ plan[w].number \in Optional(Instant)
    <3> TAKE w \in Workers
    <3>1. plan[w] \in Plans
      BY DEF TypeInv, SessionInv
    <3> QED BY <3>1, PlanMembers DEF TypeInv, Plans
  <2> QED BY <2>1 DEF TypeInv, TypeOK, RowsInv, SessionInv, RoomInv, Issuance
<1> QED BY <1>1, TypeInvariant, PTL

-----------------------------------------------------------------------------
(* One signature                                                           *)

\* The other requests keep what they loaded and planned, and their lock.
Others(w) == \A v \in Workers \ {w} :
  /\ pc'[v] = pc[v] /\ kind'[v] = kind[v] /\ target'[v] = target[v]
  /\ cert'[v] = cert[v] /\ plan'[v] = plan[v]
  /\ lock = v => lock' = v

\* A step that leaves the tables alone only has to answer for its own request.
LEMMA QuietStep ==
  ASSUME IInv, TypeInv', NEW w \in Workers, UNCHANGED <<xmls, issuance, attempts>>,
         Others(w), RequestInv(w)'
  PROVE  IInv'
<1>1. TableInv'
  BY DEF IInv, TableInv, UniqueInv, VerdictInv, LedgerInv, ApprovedBeforeSigned, OfType, Same
<1>2. ASSUME NEW v \in Workers, v # w PROVE RequestInv(v)'
  <2>1. RequestInv(v)
    BY DEF IInv
  <2>2. /\ pc'[v] = pc[v] /\ kind'[v] = kind[v] /\ target'[v] = target[v]
        /\ cert'[v] = cert[v] /\ plan'[v] = plan[v]
        /\ lock = v => lock' = v
    BY <1>2 DEF Others
  <2> QED BY <2>1, <2>2 DEF RequestInv, TargetInv, PlanInv, SigningInv, OfType
<1> QED BY <1>1, <1>2 DEF IInv

LEMMA CloseOthers ==
  ASSUME TypeInv, NEW w \in Workers, Close(w)
  PROVE  Others(w) /\ RequestInv(w)'
BY DEF TypeInv, SessionInv, Close, Others, RequestInv, TargetInv, PlanInv, SigningInv

\* A request that ends without a word on versions or attempts.
LEMMA CloseStep ==
  ASSUME IInv, TypeInv', NEW w \in Workers, Close(w), UNCHANGED <<xmls, issuance, attempts>>
  PROVE  IInv'
BY CloseOthers, QuietStep DEF IInv

LEMMA StageOthers ==
  ASSUME TypeInv, NEW w \in Workers, NEW k, NEW changes, DOMAIN changes = DOMAIN NoPlan,
         Stage(w, k, changes), lock' = lock \/ lock = Nobody
  PROVE  /\ Others(w)
         /\ pc'[w] = "staged" /\ kind'[w] = k /\ kind[w] = k /\ pc[w] = "loaded"
         /\ target' = target /\ plan'[w].xml = changes.xml
         /\ UNCHANGED <<xmls, issuance, attempts>>
<1>1. plan'[w].xml = changes.xml
  BY DEF TypeInv, SessionInv, NoPlan, Stage
<1> QED BY <1>1 DEF TypeInv, SessionInv, Others, Stage, committed

\* An edit, a removal or a key stages no version.
LEMMA EditStep ==
  ASSUME IInv, TypeInv', NEW w \in Workers, NEW k, k \notin {"xml", "xsd", "sign"},
         NEW changes, DOMAIN changes = DOMAIN NoPlan, changes.xml = {},
         Stage(w, k, changes), lock' = lock
  PROVE  IInv'
<1>1. /\ Others(w) /\ UNCHANGED <<xmls, issuance, attempts>>
      /\ pc'[w] = "staged" /\ kind'[w] = k /\ plan'[w].xml = {}
  BY StageOthers DEF IInv
<1>2. RequestInv(w)'
  BY <1>1 DEF RequestInv, TargetInv, PlanInv, SigningInv
<1> QED BY <1>1, <1>2, QuietStep

LEMMA EditSteps ==
  ASSUME IInv, TypeInv', NEW w \in Workers,
         StageMetadata(w) \/ StageItem(w) \/ StageValidate(w) \/ StageRemove(w) \/ StageKey(w)
  PROVE  IInv'
<1>1. CASE StageMetadata(w)
  <2>1. PICK rows, new, status :
          Stage(w, "metadata", [NoPlan EXCEPT !.draft = {new}, !.items = rows, !.process = {status}])
    BY <1>1 DEF StageMetadata
  <2> DEFINE changes == [NoPlan EXCEPT !.draft = {new}, !.items = rows, !.process = {status}]
  <2>2. DOMAIN changes = DOMAIN NoPlan /\ changes.xml = {}
    BY DEF NoPlan
  <2>3. Stage(w, "metadata", changes) /\ lock' = lock
    BY <1>1, <2>1 DEF StageMetadata, locks
  <2> HIDE DEF changes
  <2> QED BY <2>2, <2>3, EditStep
<1>2. CASE StageItem(w)
  <2>1. PICK new, items :
          Stage(w, "item", [NoPlan EXCEPT !.draft = {new}, !.items = {items}])
    BY <1>2 DEF StageItem
  <2> DEFINE changes == [NoPlan EXCEPT !.draft = {new}, !.items = {items}]
  <2>2. DOMAIN changes = DOMAIN NoPlan /\ changes.xml = {}
    BY DEF NoPlan
  <2>3. Stage(w, "item", changes) /\ lock' = lock
    BY <1>2, <2>1 DEF StageItem, locks
  <2> HIDE DEF changes
  <2> QED BY <2>2, <2>3, EditStep
<1>3. CASE StageValidate(w)
  <2> DEFINE changes == [NoPlan EXCEPT !.draft = {Refreshed(seen[w], itemRows)}]
  <2>2. DOMAIN changes = DOMAIN NoPlan /\ changes.xml = {}
    BY DEF NoPlan
  <2>3. Stage(w, "validate", changes) /\ lock' = lock
    BY <1>3 DEF StageValidate, locks
  <2> HIDE DEF changes
  <2> QED BY <2>2, <2>3, EditStep
<1>4. CASE StageRemove(w)
  <2>1. PICK new : Stage(w, "remove", [NoPlan EXCEPT !.draft = {new}])
    BY <1>4 DEF StageRemove
  <2> DEFINE changes == [NoPlan EXCEPT !.draft = {new}]
  <2>2. DOMAIN changes = DOMAIN NoPlan /\ changes.xml = {}
    BY DEF NoPlan
  <2>3. Stage(w, "remove", changes) /\ lock' = lock
    BY <1>4, <2>1 DEF StageRemove, locks
  <2> HIDE DEF changes
  <2> QED BY <2>2, <2>3, EditStep
<1>5. CASE StageKey(w)
  <2> DEFINE changes == [NoPlan EXCEPT !.draft = {Keyed(seen[w])}, !.number = Reserved(seen[w])]
  <2>2. DOMAIN changes = DOMAIN NoPlan /\ changes.xml = {}
    BY DEF NoPlan
  <2>3. Stage(w, "key", changes) /\ lock' = lock
    BY <1>5 DEF StageKey
  <2> HIDE DEF changes
  <2> QED BY <2>2, <2>3, EditStep
<1> QED BY <1>1, <1>2, <1>3, <1>4, <1>5

LEMMA LoadStep ==
  ASSUME IInv, TypeInv', NEW w \in Workers, NEW k \in Kinds, Load(w, k)
  PROVE  IInv'
<1>1. TypeInv /\ SessionInv
  BY DEF IInv, TypeInv
<1>2. UNCHANGED <<xmls, issuance, attempts>> /\ Others(w)
  BY <1>1 DEF Load, Others, SessionInv, committed, locks
<1>3. pc'[w] = "loaded" /\ kind'[w] = k
  BY <1>1 DEF Load, SessionInv
<1>4. k \in {"xsd", "sign"} => target'[w] \in xmls
  BY <1>1 DEF Load, SessionInv
<1>5. TargetInv(w)'
  BY <1>2, <1>3, <1>4 DEF TargetInv, StillThere, Same
<1>6. RequestInv(w)'
  BY <1>3, <1>5 DEF RequestInv, PlanInv, SigningInv
<1> QED BY <1>2, <1>6, QuietStep

LEMMA ReadItemsStep ==
  ASSUME IInv, TypeInv', NEW w \in Workers, ReadItems(w)
  PROVE  IInv'
<1>1. TypeInv /\ SessionInv
  BY DEF IInv, TypeInv
<1>2. /\ UNCHANGED <<xmls, issuance, attempts>> /\ Others(w)
      /\ pc'[w] = "loaded" /\ kind'[w] = "xml"
  BY <1>1 DEF ReadItems, Others, SessionInv, committed, locks
<1>3. RequestInv(w)'
  BY <1>2 DEF RequestInv, TargetInv, PlanInv, SigningInv
<1> QED BY <1>2, <1>3, QuietStep

LEMMA StageXmlStep ==
  ASSUME IInv, TypeInv', NEW w \in Workers, StageXml(w)
  PROVE  IInv'
<1>1. PICK new, k, p, f, t, n :
        Stage(w, "xml", [NoPlan EXCEPT !.draft = {new},
                                       !.xml = {Unsigned(NextVersion, k, p, f, t)},
                                       !.process = {"xml_generated"}, !.number = n])
  BY DEF StageXml
<1> DEFINE x == Unsigned(NextVersion, k, p, f, t)
           changes == [NoPlan EXCEPT !.draft = {new}, !.xml = {x},
                                     !.process = {"xml_generated"}, !.number = n]
<1>2. DOMAIN changes = DOMAIN NoPlan /\ changes.xml = {x}
  BY DEF NoPlan
<1>3. x.type = "unsigned" /\ x.xsd = "unknown" /\ x.version = NextVersion
  BY DEF Unsigned
<1>4. Stage(w, "xml", changes)
  BY <1>1
<1>5. lock = Nobody /\ lock' = w
  BY DEF StageXml, RowLock
<1> HIDE DEF x, changes
<1>6. /\ Others(w) /\ UNCHANGED <<xmls, issuance, attempts>>
      /\ pc'[w] = "staged" /\ kind'[w] = "xml" /\ plan'[w].xml = {x}
  BY <1>2, <1>4, <1>5, StageOthers DEF IInv
<1>7. \A u \in OfType("unsigned") : u.version < x.version
  BY <1>3, NextVersionType DEF IInv
<1>8. RequestInv(w)'
  BY <1>3, <1>5, <1>6, <1>7 DEF RequestInv, TargetInv, PlanInv, SigningInv, OfType
<1> QED BY <1>6, <1>8, QuietStep

LEMMA StageXsdStep ==
  ASSUME IInv, TypeInv', NEW w \in Workers, StageXsd(w)
  PROVE  IInv'
<1>1. PICK status :
        Stage(w, "xsd", [NoPlan EXCEPT !.xml = {Validated(target[w])}, !.process = status])
  BY DEF StageXsd
<1> DEFINE changes == [NoPlan EXCEPT !.xml = {Validated(target[w])}, !.process = status]
<1>2. DOMAIN changes = DOMAIN NoPlan /\ changes.xml = {Validated(target[w])}
  BY DEF NoPlan
<1>3. Stage(w, "xsd", changes) /\ lock' = lock
  BY <1>1 DEF StageXsd, locks
<1> HIDE DEF changes
<1>4. /\ Others(w) /\ UNCHANGED <<xmls, issuance, attempts>>
      /\ pc'[w] = "staged" /\ kind'[w] = "xsd" /\ plan'[w].xml = {Validated(target[w])}
      /\ pc[w] = "loaded" /\ kind[w] = "xsd" /\ target' = target
  BY <1>2, <1>3, StageOthers DEF IInv
<1>5. TargetInv(w)'
  BY <1>4 DEF IInv, RequestInv, TargetInv
<1>6. RequestInv(w)'
  BY <1>4, <1>5 DEF RequestInv, PlanInv, SigningInv, Validated
<1> QED BY <1>4, <1>6, QuietStep

\* The lock on the draft row lets a signature start only when no request holds a
\* version, and the issuance keeps it from starting for a second version.
LEMMA SignStartStep ==
  ASSUME IInv, TypeInv', NEW w \in Workers, SignStart(w)
  PROVE  IInv'
<1>1. TypeInv /\ SessionInv
  BY DEF IInv, TypeInv
<1>2. /\ pc[w] = "loaded" /\ kind[w] = "sign" /\ lock = Nobody
      /\ Signable(target[w]) /\ SignedAs(target[w]) = {} /\ Bound(w)
      /\ lock' = w
      /\ pc' = [pc EXCEPT ![w] = "signing"] /\ cert' = [cert EXCEPT ![w] = activeCert]
      /\ UNCHANGED <<committed, activeCert, seqLock, kind, seen, target, plan, clock>>
  BY DEF SignStart, Signing, Locked
<1>3. UNCHANGED <<xmls, issuance, attempts>> /\ Others(w)
  BY <1>1, <1>2 DEF Others, SessionInv, committed
<1>4. pc'[w] = "signing" /\ kind'[w] = "sign" /\ cert'[w] = activeCert /\ target' = target
  BY <1>1, <1>2 DEF SessionInv
<1>5. OfType("signed") = {}
  <2> SUFFICES ASSUME NEW s \in OfType("signed") PROVE FALSE
    OBVIOUS
  <2>1. PICK i \in issuance : i.version = s.version
    BY DEF IInv, TableInv, ApprovedBeforeSigned
  <2>2. s \in SignedAs(target[w])
    BY <1>2, <2>1 DEF Bound, SignedAs
  <2> QED BY <1>2, <2>2
<1>6. SigningInv(w)'
  BY <1>2, <1>3, <1>4, <1>5 DEF SigningInv, Signable, Latest, Bound, OfType
<1>7. TargetInv(w)'
  BY <1>2, <1>3, <1>4 DEF IInv, RequestInv, TargetInv
<1>8. RequestInv(w)'
  BY <1>4, <1>6, <1>7 DEF RequestInv, PlanInv
<1> QED BY <1>3, <1>8, QuietStep

\* The certificate registry and the clock are not looked at.
LEMMA SwitchStep ==
  ASSUME IInv, TypeInv',
         UNCHANGED <<xmls, issuance, attempts, pc, kind, target, cert, plan, lock>>
  PROVE  IInv'
BY DEF IInv, TableInv, UniqueInv, VerdictInv, LedgerInv, ApprovedBeforeSigned, RequestInv,
       TargetInv, PlanInv, SigningInv, OfType, Same

\* The commit of a new version.
LEMMA CommitXmlStep ==
  ASSUME IInv, TypeInv', NEW w \in Workers, Commit(w), kind[w] = "xml", plan[w].xml # {}
  PROVE  IInv'
<1>1. PICK x \in plan[w].xml : plan[w].xml = {x} /\ x \in Xml
  BY PlanMembers DEF IInv, TypeInv
<1>2. /\ pc[w] = "staged" /\ Close(w)
      /\ xmls' = {y \in xmls : ~Same(y, x)} \cup {x}
      /\ UNCHANGED <<issuance, attempts>>
  BY <1>1 DEF Commit
<1>3. /\ lock = w /\ x.type = "unsigned" /\ x.xsd = "unknown"
      /\ \A u \in OfType("unsigned") : u.version < x.version
  BY <1>1, <1>2 DEF IInv, RequestInv, PlanInv
<1>4. x.version \in Int /\ \A y \in xmls : y.version \in Int
  BY <1>1 DEF IInv, TypeInv, RowsInv, Xml, Instant
<1>5. \A y \in xmls : ~Same(y, x)
  BY <1>3, <1>4 DEF Same, OfType
<1>6. xmls' = xmls \cup {x}
  BY <1>2, <1>5
<1>7. OfType("signed")' = OfType("signed") /\ OfType("unsigned")' = OfType("unsigned") \cup {x}
  BY <1>3, <1>6 DEF OfType
<1>8. Others(w) /\ RequestInv(w)'
  BY <1>2, CloseOthers DEF IInv
<1>9. TableInv'
  <2>1. UniqueInv'
    BY <1>5, <1>6 DEF IInv, TableInv, UniqueInv, Same
  <2>2. VerdictInv'
    BY <1>3, <1>6 DEF IInv, TableInv, VerdictInv, Validated
  <2>3. LedgerInv'
    BY <1>2, <1>7 DEF IInv, TableInv, LedgerInv
  <2>4. ApprovedBeforeSigned'
    BY <1>2, <1>7 DEF IInv, TableInv, ApprovedBeforeSigned
  <2> QED BY <2>1, <2>2, <2>3, <2>4 DEF TableInv
<1>10. ASSUME NEW v \in Workers, v # w PROVE RequestInv(v)'
  <2>1. RequestInv(v) /\ lock # v
    BY <1>3, <1>10 DEF IInv
  <2>2. /\ pc'[v] = pc[v] /\ kind'[v] = kind[v] /\ target'[v] = target[v]
        /\ cert'[v] = cert[v] /\ plan'[v] = plan[v]
    BY <1>8, <1>10 DEF Others
  <2>3. TargetInv(v)'
    BY <2>1, <2>2, <1>6 DEF RequestInv, TargetInv
  <2>4. PlanInv(v)' /\ SigningInv(v)'
    BY <2>1, <2>2 DEF RequestInv, PlanInv, SigningInv
  <2> QED BY <2>3, <2>4 DEF RequestInv
<1> QED BY <1>8, <1>9, <1>10 DEF IInv

\* The commit of a verdict on a version that was loaded earlier.
LEMMA CommitXsdStep ==
  ASSUME IInv, TypeInv', NEW w \in Workers, Commit(w), kind[w] = "xsd"
  PROVE  IInv'
<1> DEFINE t == target[w]
           y == Validated(t)
<1>1. /\ pc[w] = "staged" /\ Close(w)
      /\ xmls' = {z \in xmls : ~Same(z, y)} \cup {y}
      /\ UNCHANGED <<issuance, attempts>>
  <2>1. pc[w] = "staged" /\ plan[w].xml = {y}
    BY DEF Commit, IInv, RequestInv, PlanInv
  <2> HIDE DEF y
  <2> QED BY <2>1 DEF Commit
<1>2. t \in Xml
  BY <1>1 DEF IInv, TypeInv, LoadedInv
<1>3. PICK x \in xmls : StillThere(x, t)
  BY <1>1 DEF IInv, RequestInv, TargetInv
\* The row that is replaced is the version that was loaded, with a verdict.
<1>4. /\ Same(x, y) /\ x.key = y.key /\ x.id = y.id /\ x.body = y.body
      /\ x.fits = y.fits /\ x.at = y.at
      /\ y.xsd = IF y.fits THEN "valid" ELSE "invalid"
  BY <1>2, <1>3 DEF Validated, Xml, StillThere, Same
<1> HIDE DEF y, t
<1>5. \A z \in xmls : Same(z, y) => z = x
  BY <1>4 DEF IInv, TableInv, UniqueInv, Same
<1>6. \A z \in xmls : z # x => z \in xmls'
  BY <1>1, <1>5
<1>7. \A z \in xmls' : z = y \/ (z \in xmls /\ ~Same(z, y))
  BY <1>1
<1>8. y \in xmls' /\ x \in xmls
  BY <1>1
<1>9. x.xsd # "unknown" => x.xsd = y.xsd
  BY <1>4 DEF IInv, TableInv, VerdictInv, Validated
<1>10. Others(w) /\ RequestInv(w)'
  BY <1>1, CloseOthers DEF IInv
<1>11. OfType("signed")' = {} <=> OfType("signed") = {}
  BY <1>4, <1>6, <1>7, <1>8 DEF OfType, Same
<1>12. TableInv'
  <2>1. UniqueInv'
    BY <1>7 DEF IInv, TableInv, UniqueInv, Same
  <2>2. VerdictInv'
    BY <1>4, <1>7 DEF IInv, TableInv, VerdictInv, Validated
  <2>3. LedgerInv'
    BY <1>1, <1>11 DEF IInv, TableInv, LedgerInv
  <2>4. ApprovedBeforeSigned'
    <3> SUFFICES ASSUME NEW s \in OfType("signed")'
                 PROVE  /\ \E u \in OfType("unsigned")' :
                             /\ u.version = s.version /\ u.body = s.body
                             /\ u.id = s.id /\ u.xsd = "valid"
                        /\ \E i \in issuance' : i.version = s.version
      BY DEF ApprovedBeforeSigned
    <3>1. PICK r \in OfType("signed") : r.version = s.version /\ r.body = s.body /\ r.id = s.id
      BY <1>4, <1>7, <1>8 DEF OfType, Same
    <3>2. PICK u \in OfType("unsigned") : /\ u.version = r.version /\ u.body = r.body
                                          /\ u.id = r.id /\ u.xsd = "valid"
      BY DEF IInv, TableInv, ApprovedBeforeSigned
    <3>3. \E i \in issuance' : i.version = s.version
      BY <1>1, <3>1 DEF IInv, TableInv, ApprovedBeforeSigned
    <3>4. CASE u = x
      BY <3>1, <3>2, <3>3, <3>4, <1>4, <1>8, <1>9 DEF OfType, Same
    <3>5. CASE u # x
      BY <3>1, <3>2, <3>3, <3>5, <1>6 DEF OfType
    <3> QED BY <3>4, <3>5
  <2> QED BY <2>1, <2>2, <2>3, <2>4 DEF TableInv
<1>13. ASSUME NEW v \in Workers, v # w PROVE RequestInv(v)'
  <2>1. RequestInv(v)
    BY DEF IInv
  <2>2. /\ pc'[v] = pc[v] /\ kind'[v] = kind[v] /\ target'[v] = target[v]
        /\ cert'[v] = cert[v] /\ plan'[v] = plan[v]
        /\ lock = v => lock' = v
    BY <1>10, <1>13 DEF Others
  <2>3. TargetInv(v)'
    <3> SUFFICES ASSUME pc[v] # "idle", kind[v] \in {"xsd", "sign"}
                 PROVE  \E z \in xmls' : StillThere(z, target[v])
      BY <2>2 DEF TargetInv
    <3>1. PICK z \in xmls : StillThere(z, target[v])
      BY <2>1 DEF RequestInv, TargetInv
    <3>2. CASE z = x
      BY <3>1, <3>2, <1>4, <1>8, <1>9 DEF StillThere, Same
    <3>3. CASE z # x
      BY <3>1, <3>3, <1>6
    <3> QED BY <3>2, <3>3
  <2>4. \A u \in OfType("unsigned")' : \E z \in OfType("unsigned") : z.version = u.version
    BY <1>4, <1>7, <1>8 DEF OfType, Same
  <2>5. PlanInv(v)'
    BY <2>1, <2>2, <2>4 DEF RequestInv, PlanInv
  <2>6. SigningInv(v)'
    BY <2>1, <2>2, <2>4, <1>1, <1>11 DEF RequestInv, SigningInv
  <2> QED BY <2>3, <2>5, <2>6 DEF RequestInv
<1> QED BY <1>10, <1>12, <1>13 DEF IInv

LEMMA CommitStep ==
  ASSUME IInv, TypeInv', NEW w \in Workers, Commit(w)
  PROVE  IInv'
<1>1. CASE kind[w] = "xsd"
  BY <1>1, CommitXsdStep
<1>2. CASE kind[w] = "xml" /\ plan[w].xml # {}
  BY <1>2, CommitXmlStep
<1>3. CASE plan[w].xml = {}
  <2>1. xmls' = xmls
    BY <1>3 DEF Commit
  <2> QED BY <2>1, CloseStep DEF Commit
<1>4. kind[w] \notin {"xml", "xsd"} => plan[w].xml = {}
  BY DEF Commit, IInv, RequestInv, PlanInv
<1> QED BY <1>1, <1>2, <1>3, <1>4

\* The signature of the version that was loaded, which nobody could replace.
LEMMA SignSucceedsStep ==
  ASSUME IInv, TypeInv', NEW w \in Workers, SignSucceeds(w)
  PROVE  IInv'
<1> DEFINE t == target[w]
           s == [t EXCEPT !.type = "signed", !.key = seen[w].key, !.at = Now]
<1>1. /\ pc[w] = "signing" /\ Close(w)
      /\ xmls' = xmls \cup {s}
      /\ issuance' = Issued(w, "signed")
      /\ attempts' = Append(attempts, "succeeded")
  BY DEF SignSucceeds
<1>2. t \in Xml /\ cert[w] \in Certs /\ issuance \in SUBSET Issuance
      /\ attempts \in Seq({"succeeded", "failed"})
  BY <1>1 DEF IInv, TypeInv, LoadedInv, RowsInv
<1>3. /\ kind[w] = "sign" /\ lock = w
      /\ t.type = "unsigned" /\ t.xsd = "valid"
      /\ OfType("signed") = {}
      /\ \A i \in issuance : i.version = t.version /\ i.cert = cert[w]
  BY <1>1 DEF IInv, RequestInv, SigningInv
<1>4. PICK x \in xmls : StillThere(x, t)
  BY <1>1, <1>3 DEF IInv, RequestInv, TargetInv
<1>5. /\ s.type = "signed" /\ s.version = t.version /\ s.id = t.id /\ s.body = t.body
      /\ s.fits = t.fits /\ s.xsd = "valid"
  BY <1>2, <1>3 DEF Xml
<1>6. x.type = "unsigned" /\ x.version = s.version /\ x.id = s.id /\ x.body = s.body
      /\ x.xsd = "valid" /\ x.fits = s.fits
  BY <1>3, <1>4, <1>5 DEF StillThere, Same
<1>7. s.fits
  BY <1>6 DEF IInv, TableInv, VerdictInv, Validated
<1> HIDE DEF s, t
<1>8. \A y \in xmls : y.type = "unsigned"
  BY <1>2, <1>3 DEF OfType, IInv, TypeInv, RowsInv, Xml
<1>9. OfType("signed")' = {s} /\ OfType("unsigned")' = OfType("unsigned")
  BY <1>1, <1>3, <1>5 DEF OfType
<1>10. /\ \A i \in issuance' : i.version = s.version /\ i.status = "signed"
       /\ issuance' # {} /\ \A i, j \in issuance' : i = j
  <2>1. CASE issuance = {}
    BY <2>1, <1>1, <1>5 DEF Issued, t
  <2>2. CASE issuance # {}
    <3>1. issuance' = {[i EXCEPT !.status = "signed", !.cert = cert[w]] : i \in issuance}
      BY <2>2, <1>1 DEF Issued
    <3>2. \A i \in issuance : LET j == [i EXCEPT !.status = "signed", !.cert = cert[w]] IN
            j.version = s.version /\ j.status = "signed"
      BY <1>2, <1>3, <1>5 DEF Issuance
    <3>3. \A i, j \in issuance : i = j
      BY DEF IInv, TableInv, LedgerInv
    <3> QED BY <2>2, <3>1, <3>2, <3>3
  <2> QED BY <2>1, <2>2
<1>11. Others(w) /\ RequestInv(w)'
  BY <1>1, CloseOthers DEF IInv
<1>12. TableInv'
  <2>1. UniqueInv'
    BY <1>1, <1>5, <1>8 DEF IInv, TableInv, UniqueInv, Same
  <2>2. VerdictInv'
    BY <1>1, <1>5, <1>7 DEF IInv, TableInv, VerdictInv, Validated
  <2>3. LedgerInv'
    <3>1. /\ attempts' # <<>> /\ Len(attempts') = Len(attempts) + 1
          /\ attempts'[Len(attempts')] = "succeeded"
          /\ \A n \in 1..Len(attempts) : attempts'[n] = attempts[n]
          /\ Len(attempts) \in Nat
      BY <1>1, <1>2, AppendProperties
    <3>2. \A n \in 1..Len(attempts) : attempts[n] = "failed"
      <4> TAKE n \in 1..Len(attempts)
      <4>1. attempts[n] \in {"succeeded", "failed"}
        BY <1>2, ElementOfSeq
      <4>2. CASE n = Len(attempts)
        <5>1. attempts # <<>>
          BY <4>2, EmptySeq, <1>2
        <5> QED BY <4>1, <4>2, <5>1, <1>3 DEF IInv, TableInv, LedgerInv
      <4>3. CASE n # Len(attempts)
        <5>1. n \in 1..Len(attempts) - 1
          BY <4>3, <3>1
        <5> QED BY <5>1 DEF IInv, TableInv, LedgerInv
      <4> QED BY <4>2, <4>3
    <3>3. \A n \in 1..Len(attempts') - 1 : attempts'[n] = "failed"
      BY <3>1, <3>2
    <3>4. OfType("signed")' # {} /\ \E i \in issuance' : i.status = "signed"
      BY <1>9, <1>10
    <3>5. issuance' # {} /\ \A i, j \in issuance' : i = j
      BY <1>10
    <3> QED BY <3>1, <3>3, <3>4, <3>5 DEF LedgerInv
  <2>4. ApprovedBeforeSigned'
    BY <1>4, <1>6, <1>9, <1>10 DEF ApprovedBeforeSigned, OfType
  <2> QED BY <2>1, <2>2, <2>3, <2>4 DEF TableInv
<1>13. ASSUME NEW v \in Workers, v # w PROVE RequestInv(v)'
  <2>1. RequestInv(v) /\ lock # v
    BY <1>3, <1>13 DEF IInv
  <2>2. /\ pc'[v] = pc[v] /\ kind'[v] = kind[v] /\ target'[v] = target[v]
        /\ cert'[v] = cert[v] /\ plan'[v] = plan[v]
    BY <1>11, <1>13 DEF Others
  <2>3. TargetInv(v)'
    BY <2>1, <2>2, <1>1 DEF RequestInv, TargetInv
  <2>4. PlanInv(v)' /\ SigningInv(v)'
    BY <2>1, <2>2 DEF RequestInv, PlanInv, SigningInv
  <2> QED BY <2>3, <2>4 DEF RequestInv
<1> QED BY <1>11, <1>12, <1>13 DEF IInv

\* A failed attempt keeps its issuance, bound to the version it was made for.
LEMMA SignFailsStep ==
  ASSUME IInv, TypeInv', NEW w \in Workers, SignFails(w)
  PROVE  IInv'
<1>1. /\ pc[w] = "signing" /\ Close(w) /\ UNCHANGED xmls
      /\ issuance' = IF issuance = {} THEN Issued(w, "xsd_validated") ELSE issuance
      /\ attempts' = Append(attempts, "failed")
  BY DEF SignFails
<1>2. /\ lock = w /\ OfType("signed") = {}
  BY <1>1 DEF IInv, RequestInv, SigningInv
<1>3. attempts \in Seq({"succeeded", "failed"})
  BY DEF IInv, TypeInv, RowsInv
<1>4. OfType("signed")' = {}
  BY <1>1, <1>2 DEF OfType
<1>5. Others(w) /\ RequestInv(w)'
  BY <1>1, CloseOthers DEF IInv
<1>6. /\ issuance' # {} /\ \A i, j \in issuance' : i = j
      /\ \A i \in issuance' : i.status # "signed"
  <2>1. CASE issuance = {}
    BY <2>1, <1>1 DEF Issued
  <2>2. CASE issuance # {}
    BY <2>2, <1>1, <1>2 DEF IInv, TableInv, LedgerInv
  <2> QED BY <2>1, <2>2
<1>7. LedgerInv'
  <2>1. /\ attempts' # <<>> /\ Len(attempts') = Len(attempts) + 1
        /\ attempts'[Len(attempts')] = "failed"
        /\ \A n \in 1..Len(attempts) : attempts'[n] = attempts[n]
        /\ Len(attempts) \in Nat
    BY <1>1, <1>3, AppendProperties
  <2>2. \A n \in 1..Len(attempts) : attempts[n] = "failed"
    <3> TAKE n \in 1..Len(attempts)
    <3>1. attempts[n] \in {"succeeded", "failed"}
      BY <1>3, ElementOfSeq
    <3>2. CASE n = Len(attempts)
      <4>1. attempts # <<>>
        BY <3>2, EmptySeq, <1>3
      <4> QED BY <3>1, <3>2, <4>1, <1>2 DEF IInv, TableInv, LedgerInv
    <3>3. CASE n # Len(attempts)
      <4>1. n \in 1..Len(attempts) - 1
        BY <3>3, <2>1
      <4> QED BY <4>1 DEF IInv, TableInv, LedgerInv
    <3> QED BY <3>2, <3>3
  <2> QED BY <2>1, <2>2, <1>4, <1>6 DEF LedgerInv
<1>8. TableInv'
  BY <1>1, <1>4, <1>7 DEF IInv, TableInv, UniqueInv, VerdictInv, ApprovedBeforeSigned, Same
<1>9. ASSUME NEW v \in Workers, v # w PROVE RequestInv(v)'
  <2>1. RequestInv(v) /\ lock # v
    BY <1>2, <1>9 DEF IInv
  <2>2. /\ pc'[v] = pc[v] /\ kind'[v] = kind[v] /\ target'[v] = target[v]
        /\ cert'[v] = cert[v] /\ plan'[v] = plan[v]
    BY <1>5, <1>9 DEF Others
  <2> QED BY <2>1, <2>2, <1>1 DEF RequestInv, TargetInv, PlanInv, SigningInv, OfType
<1> QED BY <1>5, <1>8, <1>9 DEF IInv

LEMMA SafetyInit == Init => IInv
<1> SUFFICES ASSUME Init PROVE IInv
  OBVIOUS
<1>1. /\ xmls = {} /\ issuance = {} /\ attempts = <<>>
      /\ \A w \in Workers : pc[w] = "idle"
  BY DEF Init
<1>2. OfType("signed") = {} /\ Len(attempts) = 0
  BY <1>1 DEF OfType
<1>3. TableInv
  BY <1>1, <1>2 DEF TableInv, UniqueInv, VerdictInv, LedgerInv, ApprovedBeforeSigned
<1>4. \A w \in Workers : RequestInv(w)
  BY <1>1 DEF RequestInv, TargetInv, PlanInv, SigningInv
<1> QED BY <1>3, <1>4, TypeInit DEF IInv

LEMMA SafetyStep == IInv /\ [Next]_vars => IInv'
<1> SUFFICES ASSUME IInv, [Next]_vars PROVE IInv'
  OBVIOUS
<1>t. TypeInv'
  BY TypeStep DEF IInv
<1>1. CASE UNCHANGED vars
  BY <1>1, <1>t, SwitchStep DEF vars, committed, locks, local
<1>2. ASSUME NEW w \in Workers, NEW k \in Kinds, Load(w, k) PROVE IInv'
  BY <1>2, <1>t, LoadStep
<1>3. ASSUME NEW w \in Workers, Service(w) PROVE IInv'
  <2>1. CASE StageMetadata(w) \/ StageItem(w) \/ StageValidate(w) \/ StageRemove(w) \/ StageKey(w)
    BY <2>1, <1>t, EditSteps
  <2>2. CASE ReadItems(w)        BY <2>2, <1>t, ReadItemsStep
  <2>3. CASE StageXml(w)         BY <2>3, <1>t, StageXmlStep
  <2>4. CASE StageXsd(w)         BY <2>4, <1>t, StageXsdStep
  <2>5. CASE SignReplay(w)       BY <2>5, <1>t, CloseStep DEF SignReplay
  <2>6. CASE SignWithoutCert(w)  BY <2>6, <1>t, CloseStep DEF SignWithoutCert
  <2>7. CASE SignStart(w)        BY <2>7, <1>t, SignStartStep
  <2>8. CASE SignSucceeds(w)     BY <2>8, <1>t, SignSucceedsStep
  <2>9. CASE SignFails(w)        BY <2>9, <1>t, SignFailsStep
  <2>10. CASE Refuse(w)          BY <2>10, <1>t, CloseStep DEF Refuse, committed
  <2>11. CASE Commit(w)          BY <2>11, <1>t, CommitStep
  <2> QED BY <1>3, <2>1, <2>2, <2>3, <2>4, <2>5, <2>6, <2>7, <2>8, <2>9, <2>10,
             <2>11 DEF Service
<1>4. ASSUME NEW w \in Workers, Abort(w) PROVE IInv'
  BY <1>4, <1>t, CloseStep DEF Abort, committed
<1>5. ASSUME NEW c \in Certs \cup {NoCert}, SwitchCertificate(c) PROVE IInv'
  BY <1>5, <1>t, SwitchStep DEF SwitchCertificate, committed, locks, local
<1> QED BY <1>1, <1>2, <1>3, <1>4, <1>5 DEF Next

LEMMA Invariant == Spec => []IInv
BY SafetyInit, SafetyStep, PTL DEF Spec

\* At most one version of a draft is ever signed, whatever requests overlap: the
\* lock of sign_xml_version on the draft row and the issuance see to it.
THEOREM AtMostOneSignature == Spec => []OneSignature
<1>1. IInv => OneSignature
  <2> SUFFICES ASSUME IInv PROVE OneSignature
    OBVIOUS
  <2>1. \A r, s \in OfType("signed") : r = s
    <3> SUFFICES ASSUME NEW r \in OfType("signed"), NEW s \in OfType("signed") PROVE r = s
      OBVIOUS
    <3>1. PICK i \in issuance : i.version = r.version
      BY DEF IInv, TableInv, ApprovedBeforeSigned
    <3>2. PICK j \in issuance : j.version = s.version
      BY DEF IInv, TableInv, ApprovedBeforeSigned
    <3>3. i = j
      BY DEF IInv, TableInv, LedgerInv
    <3> QED BY <3>1, <3>2, <3>3 DEF IInv, TableInv, UniqueInv, OfType, Same
  <2>2. OfType("signed") = {} \/ \E s : OfType("signed") = {s}
    BY <2>1
  <2>3. Cardinality(OfType("signed")) = 0 \/ Cardinality(OfType("signed")) = 1
    BY <2>2, FS_EmptySet, FS_Singleton
  <2> QED BY <2>3 DEF OneSignature
<1> QED BY <1>1, Invariant, PTL

\* The signed version, the issuance and the attempts tell one story at every
\* commit of sign_xml_version, failed ones included.
THEOREM LedgerCorrect == Spec => []SignatureLedger
<1>1. IInv => SignatureLedger
  <2> SUFFICES ASSUME IInv PROVE SignatureLedger
    OBVIOUS
  <2>1. issuance = {} \/ \E i : issuance = {i}
    <3>1. \A i, j \in issuance : i = j
      BY DEF IInv, TableInv, LedgerInv
    <3> QED BY <3>1
  <2>2. Cardinality(issuance) = 0 \/ Cardinality(issuance) = 1
    BY <2>1, FS_EmptySet, FS_Singleton
  <2>3. Cardinality(issuance) <= 1
    BY <2>2
  <2> QED BY <2>3 DEF SignatureLedger, IInv, TableInv, LedgerInv
<1> QED BY <1>1, Invariant, PTL

\* What is signed has the content of an unsigned version that the XSD approved,
\* the one that the issuance was created for.
THEOREM ApprovalComesFirst == Spec => []ApprovedBeforeSigned
<1>1. IInv => ApprovedBeforeSigned
  BY DEF IInv, TableInv
<1> QED BY <1>1, Invariant, PTL

\* uq_nfe_xml_version never fires: the row lock keeps the number of a version that
\* is about to be committed or signed free.
THEOREM NoVersionClash == Spec => []VersionsNeverClash
<1>1. IInv => VersionsNeverClash
  <2> SUFFICES ASSUME IInv, NEW w \in Workers
               PROVE  /\ pc[w] = "staged" /\ kind[w] = "xml" =>
                           \A x \in plan[w].xml, y \in xmls : ~Same(x, y)
                      /\ pc[w] = "signing" => SignedAs(target[w]) = {}
    BY DEF VersionsNeverClash
  <2>1. ASSUME pc[w] = "staged", kind[w] = "xml", NEW x \in plan[w].xml, NEW y \in xmls
        PROVE  ~Same(x, y)
    <3>1. x.type = "unsigned" /\ \A u \in OfType("unsigned") : u.version < x.version
      BY <2>1 DEF IInv, RequestInv, PlanInv
    <3>2. x.version \in Int /\ y.version \in Int
      BY PlanMembers DEF IInv, TypeInv, RowsInv, Xml, Instant
    <3> QED BY <3>1, <3>2 DEF Same, OfType
  <2>2. pc[w] = "signing" => SignedAs(target[w]) = {}
    BY DEF IInv, RequestInv, SigningInv, SignedAs
  <2> QED BY <2>1, <2>2
<1> QED BY <1>1, Invariant, PTL

\* The steps that touch the versions or the issuance, and what the rest leave.
LEMMA WritingSteps ==
  ASSUME [Next]_vars
  PROVE  \/ UNCHANGED <<xmls, issuance>>
         \/ \E w \in Workers : Commit(w) \/ SignSucceeds(w) \/ SignFails(w)
<1>1. CASE UNCHANGED vars
  BY <1>1 DEF vars, committed
<1>2. ASSUME NEW w \in Workers, NEW k \in Kinds, Load(w, k) PROVE UNCHANGED <<xmls, issuance>>
  BY <1>2 DEF Load, committed
<1>3. ASSUME NEW w \in Workers, Service(w)
      PROVE  \/ UNCHANGED <<xmls, issuance>>
             \/ Commit(w) \/ SignSucceeds(w) \/ SignFails(w)
  <2>1. ASSUME NEW k, NEW changes, Stage(w, k, changes) PROVE UNCHANGED <<xmls, issuance>>
    BY <2>1 DEF Stage, committed
  <2>2. CASE StageMetadata(w) BY <2>2, <2>1 DEF StageMetadata
  <2>3. CASE StageItem(w)     BY <2>3, <2>1 DEF StageItem
  <2>4. CASE StageValidate(w) BY <2>4, <2>1 DEF StageValidate
  <2>5. CASE StageRemove(w)   BY <2>5, <2>1 DEF StageRemove
  <2>6. CASE StageKey(w)      BY <2>6, <2>1 DEF StageKey
  <2>7. CASE StageXml(w)      BY <2>7, <2>1 DEF StageXml
  <2>8. CASE StageXsd(w)      BY <2>8, <2>1 DEF StageXsd
  <2>9. CASE ReadItems(w) \/ SignReplay(w) \/ SignWithoutCert(w) \/ SignStart(w) \/ Refuse(w)
    BY <2>9 DEF ReadItems, SignReplay, SignWithoutCert, SignStart, Refuse, committed
  <2> QED BY <1>3, <2>2, <2>3, <2>4, <2>5, <2>6, <2>7, <2>8, <2>9 DEF Service
<1>4. ASSUME NEW w \in Workers, Abort(w) PROVE UNCHANGED <<xmls, issuance>>
  BY <1>4 DEF Abort, committed
<1>5. ASSUME NEW c \in Certs \cup {NoCert}, SwitchCertificate(c)
      PROVE  UNCHANGED <<xmls, issuance>>
  BY <1>5 DEF SwitchCertificate, committed
<1> QED BY <1>1, <1>2, <1>3, <1>4, <1>5 DEF Next

\* No later version is committed between the check of sign_xml_version and the
\* signature: the row lock is held throughout.
THEOREM LatestIsSigned == Spec => SignsLatestVersion
<1> DEFINE Step == \A s \in xmls' \ xmls : s.type = "signed" /\ SignedAs(s) = {}
                     => \A u \in OfType("unsigned") : u.version <= s.version
<1>1. IInv /\ [Next]_vars => Step
  <2> SUFFICES ASSUME IInv, [Next]_vars, NEW s \in xmls' \ xmls,
                      s.type = "signed", SignedAs(s) = {}
               PROVE  \A u \in OfType("unsigned") : u.version <= s.version
    OBVIOUS
  <2>1. CASE UNCHANGED <<xmls, issuance>>
    BY <2>1
  <2>2. ASSUME NEW w \in Workers, Commit(w) PROVE FALSE
    <3>1. s \in plan[w].xml /\ pc[w] = "staged"
      BY <2>2 DEF Commit
    <3>2. CASE kind[w] = "xsd"
      <4>1. s = Validated(target[w]) /\ target[w] \in Xml
        BY <3>1, <3>2 DEF IInv, TypeInv, LoadedInv, RequestInv, PlanInv
      <4>2. PICK x \in xmls : StillThere(x, target[w])
        BY <3>1, <3>2 DEF IInv, RequestInv, TargetInv
      <4>3. x \in SignedAs(s)
        BY <4>1, <4>2 DEF Validated, Xml, StillThere, Same, SignedAs, OfType
      <4> QED BY <4>3
    <3>3. CASE kind[w] # "xsd"
      BY <3>1, <3>3 DEF IInv, RequestInv, PlanInv
    <3> QED BY <3>2, <3>3
  <2>3. ASSUME NEW w \in Workers, SignSucceeds(w)
        PROVE  \A u \in OfType("unsigned") : u.version <= s.version
    <3>1. pc[w] = "signing" /\ s = [target[w] EXCEPT !.type = "signed", !.key = seen[w].key,
                                                     !.at = Now]
      BY <2>3 DEF SignSucceeds
    <3>2. s.version = target[w].version
      BY <3>1 DEF IInv, TypeInv, LoadedInv, Xml
    <3> QED BY <3>1, <3>2 DEF IInv, RequestInv, SigningInv
  <2>4. ASSUME NEW w \in Workers, SignFails(w) PROVE FALSE
    BY <2>4 DEF SignFails
  <2> QED BY <2>1, <2>2, <2>3, <2>4, WritingSteps
<1>2. Spec => [][Step]_vars
  BY <1>1, Invariant, PTL DEF Spec
<1> QED BY <1>2 DEF SignsLatestVersion

\* No later request changes the version, certificate, key or number of an
\* issuance, or takes its signature back.
THEOREM IssuanceNeverRebound == Spec => IssuanceStaysBound
<1> DEFINE Step == \A i \in issuance : \E j \in issuance' :
                     /\ [j EXCEPT !.status = i.status] = i
                     /\ i.status = "signed" => j.status = "signed"
<1>1. IInv /\ [Next]_vars => Step
  <2> SUFFICES ASSUME IInv, [Next]_vars, NEW i \in issuance
               PROVE  \E j \in issuance' : /\ [j EXCEPT !.status = i.status] = i
                                           /\ i.status = "signed" => j.status = "signed"
    OBVIOUS
  <2>1. i \in Issuance
    BY DEF IInv, TypeInv, RowsInv
  <2>2. CASE i \in issuance'
    <3>1. [i EXCEPT !.status = i.status] = i
      BY <2>1 DEF Issuance
    <3> QED BY <2>2, <3>1
  <2>3. ASSUME NEW w \in Workers, SignSucceeds(w)
        PROVE  \E j \in issuance' : /\ [j EXCEPT !.status = i.status] = i
                                    /\ i.status = "signed" => j.status = "signed"
    <3> DEFINE j == [i EXCEPT !.status = "signed", !.cert = cert[w]]
    <3>1. pc[w] = "signing" /\ j \in issuance'
      BY <2>3 DEF SignSucceeds, Issued
    <3>2. i.cert = cert[w]
      BY <3>1 DEF IInv, RequestInv, SigningInv
    <3>3. [j EXCEPT !.status = i.status] = i /\ j.status = "signed"
      BY <2>1, <3>2 DEF Issuance
    <3> QED BY <3>1, <3>3
  <2>4. ASSUME NEW w \in Workers, Commit(w) \/ SignFails(w) PROVE i \in issuance'
    BY <2>4 DEF Commit, SignFails
  <2> QED BY <2>2, <2>3, <2>4, WritingSteps
<1>2. Spec => [][Step]_vars
  BY <1>1, Invariant, PTL DEF Spec
<1> QED BY <1>2 DEF IssuanceStaysBound

-----------------------------------------------------------------------------
(* What holds as long as no request writes over another one's change.      *)
(* Every write to the draft is then later than all that was stamped on it  *)
(* before, so a request that was overtaken never finds its draft again,    *)
(* and one that was not writes what it planned.  A version that is not     *)
(* older than its draft has its content.                                   *)

\* The instant of the last write to a draft: a new key shows it, everything
\* else is stamped with it.
Last(d) == IF d.key.nonce < d.updated THEN d.updated ELSE d.key.nonce

\* The key, the number and the document section of a draft agree.
KeyAgrees(d) == d.key = d.payload.doc /\ (d.key # NoKey => d.key.number = d.number)

\* Version x has the content of draft d.
Fits(x, d) == /\ x.id = d.key
              /\ x.body.meta = d.payload.meta /\ x.body.items = d.payload.items

CurrentInv ==
  /\ KeyAgrees(draft) /\ Last(draft) <= clock
  /\ draft.payload.items = itemRows
  /\ \A x \in xmls : /\ x.id = x.body.doc /\ x.id # NoKey /\ x.at <= clock
                     /\ draft.updated <= x.at => Fits(x, draft)

\* An issuance holds the key and the number of the version it is bound to.
IssuedInv ==
  \A i \in issuance : \E u \in OfType("unsigned") :
    u.version = i.version /\ i.key = u.id /\ i.number = u.id.number

FinalInv ==
  /\ draft.status = "signed" <=> OfType("signed") # {}
  /\ \A s \in OfType("signed") :
       /\ Fits(s, draft) /\ s.id = s.key
       /\ \A i \in issuance : i.key = s.id /\ i.number = s.id.number

\* What a request is about to commit to the draft is younger than every version.
StagedInv(w) ==
  /\ plan[w].draft = {} => plan[w].items = {}
  /\ \A d \in plan[w].draft :
       /\ draft.status # "signed" /\ d.status # "signed"
       /\ KeyAgrees(d) /\ Last(draft) < Last(d) /\ Last(d) <= clock
       /\ d.payload.items = Value(plan[w].items, itemRows)
       /\ \A x \in xmls : x.at < d.updated
  /\ kind[w] = "xml" =>
       /\ plan[w].draft # {}
       /\ \A x \in plan[w].xml, d \in plan[w].draft :
            /\ x.id = x.body.doc /\ x.id # NoKey /\ x.at = d.updated /\ Fits(x, d)

\* A request knows the draft as it is, or one that is older for good.
SeenInv(w) ==
  /\ pc[w] = "idle" => plan[w].items = {}
  /\ pc[w] = "staged" /\ kind[w] = "xsd" => plan[w].draft = {} /\ plan[w].items = {}
  /\ pc[w] # "idle" => seen[w] = draft \/ Last(seen[w]) < Last(draft)
  /\ seen[w] = draft =>
       /\ pc[w] = "loaded" => plan[w].items \subseteq {itemRows}
       /\ pc[w] = "staged" => StagedInv(w)
       /\ pc[w] = "signing" => draft.updated <= target[w].at

OrderlyInv == CurrentInv /\ IssuedInv /\ FinalInv /\ \A w \in Workers : SeenInv(w)

\* Planned from the committed row, the UPDATE leaves what was planned.
LEMMA FlushAll ==
  ASSUME NEW row \in Draft, NEW new \in Draft
  PROVE  Flush(row, row, new) = new
<1>1. DOMAIN row = DOMAIN new
  BY DEF Draft
<1>2. Flush(row, row, new) = [c \in DOMAIN row |-> new[c]]
  BY DEF Flush
<1>3. new = [c \in DOMAIN new |-> new[c]]
  BY DEF Draft
<1> QED BY <1>1, <1>2, <1>3

\* What the rows and the sessions are made of.
LEMMA OrderlyTypes ==
  ASSUME IInv, NEW w \in Workers
  PROVE  /\ draft \in Draft /\ itemRows \in Items /\ clock \in Nat
         /\ draft.updated \in Nat /\ draft.number \in Nat
         /\ Last(draft) \in Nat /\ draft.updated <= Last(draft)
         /\ seen[w] \in Draft /\ Last(seen[w]) \in Nat
         /\ \A x \in xmls : x \in Xml /\ x.at \in Nat /\ x.version \in Nat
         /\ DOMAIN pc = Workers /\ DOMAIN kind = Workers /\ DOMAIN seen = Workers
         /\ DOMAIN target = Workers /\ DOMAIN plan = Workers
         /\ plan[w] \in Plans
<1>1. /\ draft \in Draft /\ itemRows \in Items /\ clock \in Nat /\ seen[w] \in Draft
      /\ \A x \in xmls : x \in Xml
      /\ DOMAIN pc = Workers /\ DOMAIN kind = Workers /\ DOMAIN seen = Workers
      /\ DOMAIN target = Workers /\ DOMAIN plan = Workers /\ plan[w] \in Plans
  BY DEF IInv, TypeInv, RowsInv, SessionInv, RoomInv, Instant
<1>2. \A x \in xmls : x.at \in Nat /\ x.version \in Nat
  BY <1>1 DEF Xml, Instant
<1>3. ASSUME NEW d \in Draft
      PROVE  /\ d.updated \in Nat /\ d.number \in Nat /\ Last(d) \in Nat
             /\ d.updated <= Last(d)
  BY DEF Draft, Key, Instant, Last
<1> QED BY <1>1, <1>2, <1>3

\* The other requests keep what they loaded and planned.
Still(w) == \A v \in Workers \ {w} :
  /\ pc'[v] = pc[v] /\ kind'[v] = kind[v] /\ seen'[v] = seen[v]
  /\ target'[v] = target[v] /\ plan'[v] = plan[v]

\* While draft and item rows stay, the other requests know of them what they knew.
LEMMA OthersKeep ==
  ASSUME IInv, OrderlyInv, NEW w \in Workers, Still(w), UNCHANGED <<draft, itemRows>>,
         clock' = clock \/ clock' = Now, \A x \in xmls' : \E y \in xmls : x.at = y.at,
         CurrentInv', IssuedInv', FinalInv', SeenInv(w)'
  PROVE  OrderlyInv'
<1>1. ASSUME NEW v \in Workers, v # w PROVE SeenInv(v)'
  <2>1. /\ pc'[v] = pc[v] /\ kind'[v] = kind[v] /\ seen'[v] = seen[v]
        /\ target'[v] = target[v] /\ plan'[v] = plan[v] /\ draft' = draft
        /\ itemRows' = itemRows
    BY <1>1 DEF Still
  <2>2. SeenInv(v)
    BY DEF OrderlyInv
  <2>3. StagedInv(v) => StagedInv(v)'
    <3> SUFFICES ASSUME StagedInv(v) PROVE StagedInv(v)'
      OBVIOUS
    <3>1. \A d \in plan[v].draft : /\ Last(d) <= clock => Last(d) <= clock'
                                  /\ \A x \in xmls' : x.at < d.updated
      <4>1. \A d \in plan[v].draft : d \in Draft /\ Last(d) \in Int
        BY PlanMembers DEF IInv, TypeInv, Draft, Key, Instant, Last
      <4>2. clock \in Nat
        BY OrderlyTypes
      <4> QED BY <4>1, <4>2 DEF StagedInv, Now
    <3> QED BY <2>1, <3>1 DEF StagedInv, KeyAgrees, Fits
  <2> QED BY <2>1, <2>2, <2>3 DEF SeenInv
<1> QED BY <1>1 DEF OrderlyInv

\* A write to the draft overtakes every other request.
LEMMA OthersLeft ==
  ASSUME IInv, OrderlyInv, NEW w \in Workers, Still(w), draft' \in Draft,
         Last(draft) < Last(draft'), CurrentInv', IssuedInv', FinalInv', SeenInv(w)'
  PROVE  OrderlyInv'
<1>1. ASSUME NEW v \in Workers, v # w PROVE SeenInv(v)'
  <2>1. /\ pc'[v] = pc[v] /\ kind'[v] = kind[v] /\ seen'[v] = seen[v]
        /\ plan'[v] = plan[v]
    BY <1>1 DEF Still
  <2>2. SeenInv(v)
    BY DEF OrderlyInv
  <2>3. pc[v] # "idle" => Last(seen[v]) < Last(draft')
    <3>1. Last(draft') \in Int
      BY DEF Draft, Key, Instant, Last
    <3> QED BY <2>2, <3>1, OrderlyTypes DEF SeenInv
  <2>4. pc[v] # "idle" => seen[v] # draft'
    <3>1. Last(draft') \in Int
      BY DEF Draft, Key, Instant, Last
    <3> QED BY <2>3, <3>1
  <2> QED BY <2>1, <2>2, <2>3, <2>4 DEF SeenInv
<1> QED BY <1>1 DEF OrderlyInv

\* A request leaves the draft as it found it when it writes the items that are there.
LEMMA TouchedSame ==
  ASSUME IInv, CurrentInv, NEW w \in Workers, seen[w] = draft
  PROVE  Flush(draft, seen[w], Touched(seen[w])) = draft
<1>1. draft \in Draft /\ itemRows \in Items
  BY OrderlyTypes
<1>2. Touched(draft) = draft
  BY <1>1 DEF Touched, CurrentInv, Draft, Payload
<1> QED BY <1>1, <1>2, FlushAll

\* The end of a request leaves nothing open.
LEMMA OrderlyClose ==
  ASSUME IInv, NEW w \in Workers, Close(w)
  PROVE  SeenInv(w)' /\ Still(w)
<1>1. pc'[w] = "idle" /\ plan'[w] = NoPlan
  BY OrderlyTypes DEF Close
<1>2. SeenInv(w)'
  BY <1>1 DEF SeenInv, NoPlan
<1>3. Still(w)
  BY OrderlyTypes DEF Close, Still
<1> QED BY <1>2, <1>3

\* Nothing committed changes; the clock may go on.
LEMMA OrderlyRows ==
  ASSUME IInv, OrderlyInv, NEW w \in Workers,
         UNCHANGED <<draft, itemRows, xmls, issuance>>, clock' = clock \/ clock' = Now
  PROVE  CurrentInv' /\ IssuedInv' /\ FinalInv'
<1>1. CurrentInv'
  BY OrderlyTypes DEF OrderlyInv, CurrentInv, KeyAgrees, Fits, Now, Last
<1>2. IssuedInv'
  BY DEF OrderlyInv, IssuedInv, OfType
<1>3. FinalInv'
  BY DEF OrderlyInv, FinalInv, OfType, Fits
<1> QED BY <1>1, <1>2, <1>3

\* A request that leaves the rows alone answers for itself.
LEMMA OrderlyQuiet ==
  ASSUME IInv, OrderlyInv, NEW w \in Workers, Still(w),
         UNCHANGED <<draft, itemRows, xmls, issuance>>, clock' = clock \/ clock' = Now,
         SeenInv(w)'
  PROVE  OrderlyInv'
BY OrderlyRows, OthersKeep

LEMMA OrderlyStage ==
  ASSUME IInv, OrderlyInv, NEW w \in Workers, NEW k, NEW changes,
         Stage(w, k, changes), clock' = clock \/ clock' = Now,
         k = "xsd" => plan'[w].draft = {} /\ plan'[w].items = {},
         seen[w] = draft => StagedInv(w)'
  PROVE  OrderlyInv'
<1>1. /\ UNCHANGED <<draft, itemRows, xmls, issuance, kind, seen, target>>
      /\ pc[w] = "loaded" /\ pc' = [pc EXCEPT ![w] = "staged"] /\ kind[w] = k
      /\ plan' = [plan EXCEPT ![w] = [changes EXCEPT !.process = @ \ {process}]]
  BY DEF Stage, committed
<1>2. pc'[w] = "staged"
  BY <1>1, OrderlyTypes
<1>3. Still(w)
  BY <1>1, OrderlyTypes DEF Still
<1>4. SeenInv(w)'
  BY <1>1, <1>2 DEF OrderlyInv, SeenInv
<1> QED BY <1>1, <1>3, <1>4, OrderlyQuiet

\* What an overtaken request plans is never committed.
LEMMA OrderlyStale ==
  ASSUME IInv, OrderlyInv, NEW w \in Workers, seen[w] # draft,
         \/ StageMetadata(w) \/ StageItem(w) \/ StageValidate(w) \/ StageRemove(w)
         \/ StageKey(w) \/ StageXml(w)
  PROVE  OrderlyInv'
<1>1. ASSUME NEW k, NEW changes, Stage(w, k, changes), Stamp, k # "xsd" PROVE OrderlyInv'
  BY <1>1, OrderlyStage DEF Stamp
<1>2. CASE StageMetadata(w) BY <1>2, <1>1 DEF StageMetadata
<1>3. CASE StageItem(w)     BY <1>3, <1>1 DEF StageItem
<1>4. CASE StageValidate(w) BY <1>4, <1>1 DEF StageValidate
<1>5. CASE StageRemove(w)   BY <1>5, <1>1 DEF StageRemove
<1>6. CASE StageKey(w)      BY <1>6, <1>1 DEF StageKey
<1>7. CASE StageXml(w)      BY <1>7, <1>1 DEF StageXml
<1> QED BY <1>2, <1>3, <1>4, <1>5, <1>6, <1>7

\* Of a draft that was written, the key was there before, or is the last stamp.
LEMMA LastIsNow ==
  ASSUME IInv, OrderlyInv, NEW d, Now \in Instant,
         \/ d.updated = Now /\ (d.key = draft.key \/ d.key.nonce = Now)
         \/ d.updated \in Instant /\ d.updated <= Now /\ d.key.nonce = Now
  PROVE  Last(d) = Now /\ Last(draft) < Last(d)
<1>1. draft.key.nonce \in Int /\ draft.updated \in Int /\ clock \in Int
  BY DEF IInv, TypeInv, RowsInv, RoomInv, Draft, Key, Instant
<1>2. draft.key.nonce <= clock /\ Last(draft) <= clock /\ Last(draft) \in Int
  BY <1>1 DEF OrderlyInv, CurrentInv, Last
<1> QED BY <1>1, <1>2 DEF Last, Now, Instant

\* A request that edits, keys or removes the draft stages a draft that agrees with
\* itself and with the item rows, younger than every version.
LEMMA OrderlyEdit ==
  ASSUME IInv, OrderlyInv, NEW w \in Workers, NEW k, NEW changes \in Plans,
         Stage(w, k, changes), Stamp, k \notin {"xml", "xsd"},
         NEW d, changes.draft = {d},
         draft.status # "signed", d.status # "signed", KeyAgrees(d),
         Last(d) = Now, Last(draft) < Last(d), \A x \in xmls : x.at < d.updated,
         d.payload.items = Value(changes.items, itemRows)
  PROVE  OrderlyInv'
<1>1. /\ UNCHANGED <<draft, itemRows, xmls, kind>> /\ kind[w] = k /\ clock' = Now
      /\ plan' = [plan EXCEPT ![w] = [changes EXCEPT !.process = @ \ {process}]]
  BY DEF Stage, committed, Stamp
<1>2. plan'[w].draft = {d} /\ plan'[w].items = changes.items
  BY <1>1, OrderlyTypes DEF Plans
<1>3. Last(d) <= clock'
  BY <1>1, OrderlyTypes DEF Now
<1>4. StagedInv(w)'
  BY <1>1, <1>2, <1>3 DEF StagedInv
<1> QED BY <1>1, <1>4, OrderlyStage

\* No version is stamped with an instant to come.
LEMMA OlderThanNow == ASSUME IInv, OrderlyInv PROVE \A x \in xmls : x.at < Now
<1>1. \A x \in xmls : x.at \in Int /\ clock \in Int
  BY DEF IInv, TypeInv, RowsInv, RoomInv, Xml, Instant
<1> QED BY <1>1 DEF OrderlyInv, CurrentInv, Now

\* What a request that was not overtaken loaded is what is committed.
LEMMA OrderlyLoaded ==
  ASSUME IInv, OrderlyInv, NEW w \in Workers, seen[w] = draft, pc[w] \in {"loaded", "signing"}
  PROVE  /\ draft \in Draft /\ itemRows \in Items
         /\ KeyAgrees(draft) /\ draft.payload.items = itemRows
         /\ Now \in Instant /\ Now > 0
<1>1. Now \in Instant /\ Now > 0
  BY UnstampedType DEF IInv, Instant
<1> QED BY <1>1, OrderlyTypes DEF OrderlyInv, CurrentInv

\* The draft after a refresh, as these proofs need it.
LEMMA OrderlyRefreshed ==
  ASSUME NEW d \in Draft, KeyAgrees(d), NEW items \in Items, Now \in Instant
  PROVE  /\ Refreshed(d, items) \in Draft /\ KeyAgrees(Refreshed(d, items))
         /\ Refreshed(d, items).status # "signed"
         /\ Refreshed(d, items).updated = Now
         /\ Refreshed(d, items).payload.items = items
         /\ Refreshed(d, items).key = d.key
<1>1. Refreshed(d, items) \in Draft
  BY RefreshedType
<1>2. /\ Refreshed(d, items).status = Verdict(items)
      /\ Refreshed(d, items).updated = Now
      /\ Refreshed(d, items).payload.items = items
      /\ Refreshed(d, items).payload.doc = d.payload.doc
      /\ Refreshed(d, items).key = d.key
      /\ Refreshed(d, items).number = d.number
  BY DEF Refreshed, Draft, Payload
<1> QED BY <1>1, <1>2 DEF Verdict, KeyAgrees

LEMMA OrderlyMetadata ==
  ASSUME IInv, OrderlyInv, NEW w \in Workers, seen[w] = draft, StageMetadata(w)
  PROVE  OrderlyInv'
<1>1. PICK rows \in {{}} \cup {{[rev |-> Now, grade |-> g]} : g \in Grades} :
        LET items == Value(rows, itemRows) IN
        Stage(w, "metadata",
              [NoPlan EXCEPT
                 !.draft = {[Refreshed(seen[w], items) EXCEPT !.payload.meta = Now]},
                 !.items = rows,
                 !.process = {IF Valid(items) THEN "draft_ready"
                              ELSE "draft_validation_failed"}])
  BY DEF StageMetadata
<1> DEFINE items == Value(rows, itemRows)
           new == [Refreshed(seen[w], items) EXCEPT !.payload.meta = Now]
           status == IF Valid(items) THEN "draft_ready" ELSE "draft_validation_failed"
           changes == [NoPlan EXCEPT !.draft = {new}, !.items = rows, !.process = {status}]
<1>2. Stage(w, "metadata", changes)
  BY <1>1
<1>3. pc[w] = "loaded" /\ Editable(seen[w]) /\ Stamp
  BY <1>2 DEF Stage, StageMetadata
<1>4. /\ draft \in Draft /\ KeyAgrees(draft) /\ Now \in Instant
      /\ itemRows \in Items /\ draft.status # "signed"
  BY <1>3, OrderlyLoaded DEF Editable
<1>5. rows \in Optional(Items)
  BY <1>1, <1>4 DEF Items, Optional
<1>6. items \in Items
  BY <1>4, <1>5, ValueType
<1>7. /\ new \in Draft /\ new.status # "signed" /\ new.updated = Now
      /\ new.payload.items = items /\ KeyAgrees(new) /\ new.key = draft.key
  <2> HIDE DEF items
  <2> DEFINE r == Refreshed(draft, items)
  <2>1. /\ r \in Draft /\ KeyAgrees(r) /\ r.status # "signed" /\ r.updated = Now
        /\ r.payload.items = items /\ r.key = draft.key
    BY <1>4, <1>6, OrderlyRefreshed
  <2> HIDE DEF r
  <2>2. new = [r EXCEPT !.payload.meta = Now]
    BY <1>4 DEF r
  <2>3. new \in Draft /\ new.status = r.status /\ new.updated = r.updated
    BY <2>1, <2>2, <1>4 DEF Draft, Payload
  <2>4. /\ new.payload.items = r.payload.items /\ new.payload.doc = r.payload.doc
        /\ new.key = r.key /\ new.number = r.number
    BY <2>1, <2>2 DEF Draft, Payload
  <2> QED BY <2>1, <2>3, <2>4 DEF KeyAgrees
<1>8. status \in Processes
  BY DEF Processes
<1> HIDE DEF new, status
<1>9. changes \in Plans /\ changes.draft = {new} /\ changes.items = rows
  BY <1>5, <1>7, <1>8, OptionalType DEF NoPlan, Plans
<1> HIDE DEF changes
<1>10. Last(new) = Now /\ Last(draft) < Last(new) /\ \A x \in xmls : x.at < new.updated
  BY <1>4, <1>7, LastIsNow, OlderThanNow
<1> QED BY <1>2, <1>3, <1>4, <1>7, <1>9, <1>10, OrderlyEdit

LEMMA OrderlyItem ==
  ASSUME IInv, OrderlyInv, NEW w \in Workers, seen[w] = draft, StageItem(w)
  PROVE  OrderlyInv'
<1>1. PICK g \in Grades :
        LET items == [rev |-> Now, grade |-> g] IN
        Stage(w, "item", [NoPlan EXCEPT !.draft = {Refreshed(seen[w], items)},
                                        !.items = {items}])
  BY DEF StageItem
<1> DEFINE items == [rev |-> Now, grade |-> g]
           new == Refreshed(seen[w], items)
           changes == [NoPlan EXCEPT !.draft = {new}, !.items = {items}]
<1>2. Stage(w, "item", changes)
  BY <1>1
<1>3. pc[w] = "loaded" /\ Editable(seen[w]) /\ Stamp
  BY <1>2 DEF Stage, StageItem
<1>4. /\ draft \in Draft /\ KeyAgrees(draft) /\ Now \in Instant
      /\ draft.status # "signed"
  BY <1>3, OrderlyLoaded DEF Editable
<1>5. items \in Items
  BY <1>4 DEF Items
<1> HIDE DEF items
<1>6. /\ new \in Draft /\ new.status # "signed" /\ new.updated = Now
      /\ new.payload.items = items /\ KeyAgrees(new) /\ new.key = draft.key
  BY <1>4, <1>5, OrderlyRefreshed
<1>7. Value({items}, itemRows) = items
  BY DEF Value
<1> HIDE DEF new
<1>8. changes \in Plans /\ changes.draft = {new} /\ changes.items = {items}
  <2>1. {new} \in Optional(Draft) /\ {items} \in Optional(Items)
    BY <1>5, <1>6, OptionalType
  <2> QED BY <2>1, NoPlanType DEF NoPlan, Plans
<1> HIDE DEF changes
<1>9. Last(new) = Now /\ Last(draft) < Last(new) /\ \A x \in xmls : x.at < new.updated
  BY <1>4, <1>6, LastIsNow, OlderThanNow
<1>10. new.payload.items = Value(changes.items, itemRows)
  BY <1>6, <1>7, <1>8
<1>11. changes \in Plans /\ changes.draft = {new}
  BY <1>8
<1>12. new.status # "signed" /\ KeyAgrees(new)
  BY <1>6
<1> QED BY <1>2, <1>3, <1>4, <1>9, <1>10, <1>11, <1>12, OrderlyEdit

LEMMA OrderlyValidate ==
  ASSUME IInv, OrderlyInv, NEW w \in Workers, seen[w] = draft, StageValidate(w)
  PROVE  OrderlyInv'
<1> DEFINE new == Refreshed(seen[w], itemRows)
           changes == [NoPlan EXCEPT !.draft = {new}]
<1>1. Stage(w, "validate", changes)
  BY DEF StageValidate
<1>2. pc[w] = "loaded" /\ Editable(seen[w]) /\ Stamp
  BY <1>1 DEF Stage, StageValidate
<1>3. /\ draft \in Draft /\ KeyAgrees(draft) /\ Now \in Instant
      /\ itemRows \in Items /\ draft.status # "signed"
  BY <1>2, OrderlyLoaded DEF Editable
<1>4. /\ new \in Draft /\ new.status # "signed" /\ new.updated = Now
      /\ new.payload.items = itemRows /\ KeyAgrees(new) /\ new.key = draft.key
  BY <1>3, OrderlyRefreshed
<1> HIDE DEF new
<1>5. changes \in Plans /\ changes.draft = {new} /\ changes.items = {}
  BY <1>4, OptionalType DEF NoPlan, Plans
<1>6. Value({}, itemRows) = itemRows
  BY DEF Value
<1> HIDE DEF changes
<1>7. Last(new) = Now /\ Last(draft) < Last(new) /\ \A x \in xmls : x.at < new.updated
  BY <1>3, <1>4, LastIsNow, OlderThanNow
<1> QED BY <1>1, <1>2, <1>3, <1>4, <1>5, <1>6, <1>7, OrderlyEdit

LEMMA OrderlyRemove ==
  ASSUME IInv, OrderlyInv, NEW w \in Workers, seen[w] = draft, StageRemove(w)
  PROVE  OrderlyInv'
<1> DEFINE mode == RemovalMode(seen[w])
           new == [seen[w] EXCEPT !.removed = mode, !.updated = Now,
                                  !.payload.disposed = mode = "archived"]
           changes == [NoPlan EXCEPT !.draft = {new}]
<1>1. Stage(w, "remove", changes)
  BY DEF StageRemove
<1>2. pc[w] = "loaded" /\ Removable(seen[w]) /\ Stamp
  BY <1>1 DEF Stage, StageRemove
<1>3. /\ draft \in Draft /\ KeyAgrees(draft) /\ Now \in Instant
      /\ draft.payload.items = itemRows /\ draft.status # "signed"
  BY <1>2, OrderlyLoaded DEF Removable
<1>4. /\ new \in Draft /\ new.status # "signed" /\ new.updated = Now
      /\ new.payload.items = itemRows /\ KeyAgrees(new) /\ new.key = draft.key
  <2>1. mode \in {"archived", "deleted"}
    BY DEF RemovalMode
  <2> HIDE DEF mode
  <2>2. new \in Draft /\ new.status = draft.status /\ new.updated = Now
    BY <2>1, <1>3 DEF Draft, Payload
  <2>3. /\ new.payload.items = itemRows /\ new.payload.doc = draft.payload.doc
        /\ new.key = draft.key /\ new.number = draft.number
    BY <1>3 DEF Draft, Payload
  <2> QED BY <2>2, <2>3, <1>3 DEF KeyAgrees
<1> HIDE DEF new
<1>5. changes \in Plans /\ changes.draft = {new} /\ changes.items = {}
  BY <1>4, OptionalType DEF NoPlan, Plans
<1>6. Value({}, itemRows) = itemRows
  BY DEF Value
<1> HIDE DEF changes
<1>7. Last(new) = Now /\ Last(draft) < Last(new) /\ \A x \in xmls : x.at < new.updated
  BY <1>3, <1>4, LastIsNow, OlderThanNow
<1> QED BY <1>1, <1>2, <1>3, <1>4, <1>5, <1>6, <1>7, OrderlyEdit

\* A new key: it shows its instant, updated_at only the second.
LEMMA OrderlyKeyed ==
  ASSUME NEW d \in Draft, NumberFor(d) \in Instant, Now \in Instant, Now > 0
  PROVE  /\ Keyed(d) \in Draft /\ KeyAgrees(Keyed(d)) /\ Keyed(d).key # NoKey
         /\ Keyed(d).status = "ready_for_xml" /\ Keyed(d).key.nonce = Now
         /\ Keyed(d).updated = Now - (Now % Second) /\ Keyed(d).updated <= Now
         /\ Keyed(d).payload.items = d.payload.items
<1>1. Keyed(d) \in Draft
  BY KeyedType
<1> DEFINE k == [number |-> NumberFor(d), nonce |-> Now]
<1>2. Now - (Now % Second) <= Now
  BY DEF Instant
<1>3. k # NoKey /\ k.number = NumberFor(d) /\ k.nonce = Now
  BY DEF NoKey
<1>4. /\ Keyed(d).key = k /\ Keyed(d).number = NumberFor(d)
      /\ Keyed(d).status = "ready_for_xml" /\ Keyed(d).updated = Now - (Now % Second)
  BY DEF Keyed, Draft
<1>5. Keyed(d).payload.doc = k /\ Keyed(d).payload.items = d.payload.items
  BY DEF Keyed, Draft, Payload
<1> HIDE DEF k
<1> QED BY <1>1, <1>2, <1>3, <1>4, <1>5 DEF KeyAgrees

\* A key drawn in a later second than every version leaves the draft younger.
LEMMA OrderlyKey ==
  ASSUME IInv, OrderlyInv, NEW w \in Workers, seen[w] = draft, StageKey(w),
         InLaterSecond
  PROVE  OrderlyInv'
<1> DEFINE new == Keyed(seen[w])
           changes == [NoPlan EXCEPT !.draft = {new}, !.number = Reserved(seen[w])]
<1>1. Stage(w, "key", changes)
  BY DEF StageKey
<1>2. pc[w] = "loaded" /\ MayHaveKey(seen[w]) /\ Stamp
  BY <1>1 DEF Stage, StageKey
<1>3. /\ draft \in Draft /\ Now \in Instant /\ Now > 0
      /\ draft.payload.items = itemRows /\ draft.status # "signed"
  BY <1>2, OrderlyLoaded DEF MayHaveKey
<1>4. NumberFor(draft) \in Instant /\ Reserved(draft) \in Optional(Instant)
  BY <1>2, <1>3, UnstampedType, NumberType DEF IInv
<1>5. /\ new \in Draft /\ new.status # "signed" /\ new.key.nonce = Now
      /\ new.updated = Now - (Now % Second) /\ new.updated <= Now
      /\ new.payload.items = itemRows /\ KeyAgrees(new)
  BY <1>3, <1>4, OrderlyKeyed
<1>6. \A x \in xmls : x.at < new.updated
  BY <1>5 DEF InLaterSecond
<1> HIDE DEF new
<1>7. changes \in Plans /\ changes.draft = {new} /\ changes.items = {}
  <2>1. {new} \in Optional(Draft)
    BY <1>5, OptionalType
  <2> QED BY <2>1, <1>3, <1>4, NoPlanType DEF NoPlan, Plans
<1>8. Value({}, itemRows) = itemRows
  BY DEF Value
<1> HIDE DEF changes
<1>9. Last(new) = Now /\ Last(draft) < Last(new)
  <2>1. new.updated \in Instant
    BY <1>5 DEF Draft
  <2> QED BY <1>3, <1>5, <2>1, LastIsNow
<1> QED BY <1>1, <1>2, <1>3, <1>5, <1>7, <1>8, <1>9, <1>6, OrderlyEdit

LEMMA OrderlyXml ==
  ASSUME IInv, OrderlyInv, NEW w \in Workers, seen[w] = draft, StageXml(w)
  PROVE  OrderlyInv'
<1>1. PICK items \in XmlItems(w) :
        LET d == seen[w]
            built == [Refreshed(WithKey(d), items) EXCEPT !.status = "xml_generated"]
        IN
        /\ XmlReady(d, items)
        /\ Stamp
        /\ RowLock(w)
        /\ IF d.key = NoKey THEN Reservation(w, d) ELSE seqLock' = seqLock
        /\ \E fits \in BOOLEAN :
             Stage(w, "xml",
                   [NoPlan EXCEPT
                      !.draft = {built},
                      !.xml = {Unsigned(NextVersion, built.key, built.payload, fits, Now)},
                      !.process = {"xml_generated"},
                      !.number = IF d.key = NoKey THEN Reserved(d) ELSE {}])
  BY DEF StageXml
<1> DEFINE r == Refreshed(WithKey(seen[w]), items)
           built == [r EXCEPT !.status = "xml_generated"]
           numbers == IF seen[w].key = NoKey THEN Reserved(seen[w]) ELSE {}
<1>2. XmlReady(seen[w], items) /\ Stamp
  BY <1>1
<1>3. PICK fits \in BOOLEAN :
        Stage(w, "xml",
              [NoPlan EXCEPT
                 !.draft = {built},
                 !.xml = {Unsigned(NextVersion, built.key, built.payload, fits, Now)},
                 !.process = {"xml_generated"},
                 !.number = numbers])
  BY <1>1
<1> DEFINE x == Unsigned(NextVersion, built.key, built.payload, fits, Now)
           changes == [NoPlan EXCEPT !.draft = {built}, !.xml = {x},
                                     !.process = {"xml_generated"}, !.number = numbers]
<1>4. Stage(w, "xml", changes)
  BY <1>3
<1>5. pc[w] = "loaded"
  BY <1>4 DEF Stage
<1>6. /\ draft \in Draft /\ Now \in Instant /\ Now > 0
      /\ itemRows \in Items /\ KeyAgrees(draft) /\ draft.status # "signed"
  BY <1>2, <1>5, OrderlyLoaded DEF XmlReady, Editable
<1>7. items = itemRows
  BY <1>1, <1>5 DEF XmlItems, OrderlyInv, SeenInv
<1>8. /\ WithKey(draft) \in Draft /\ KeyAgrees(WithKey(draft)) /\ WithKey(draft).key # NoKey
      /\ WithKey(draft).key = draft.key \/ WithKey(draft).key.nonce = Now
  <2>1. NumberFor(draft) \in Instant
    BY <1>5, <1>6, UnstampedType, NumberType DEF IInv
  <2> QED BY <2>1, <1>6, OrderlyKeyed DEF WithKey
<1>9. /\ r \in Draft /\ KeyAgrees(r) /\ r.updated = Now /\ r.payload.items = itemRows
      /\ r.key # NoKey /\ (r.key = draft.key \/ r.key.nonce = Now)
  BY <1>6, <1>7, <1>8, OrderlyRefreshed
<1> HIDE DEF r
<1>10. /\ built.status = "xml_generated" /\ built.updated = Now
       /\ built.payload = r.payload /\ built.key = r.key /\ built.number = r.number
       /\ DOMAIN built = DOMAIN r
  BY <1>9 DEF Draft
<1>11. KeyAgrees(built) /\ built.payload.items = itemRows
  BY <1>9, <1>10 DEF KeyAgrees
<1> HIDE DEF built
<1>12. /\ x.id = built.key /\ x.body = built.payload /\ x.at = Now
  BY DEF Unsigned
<1> HIDE DEF x, numbers
<1>13. /\ changes.draft = {built} /\ changes.items = {} /\ changes.xml = {x}
       /\ DOMAIN changes = {"draft", "items", "xml", "process", "number"}
  BY DEF NoPlan
<1> HIDE DEF changes
<1>14. /\ UNCHANGED <<draft, itemRows, xmls, kind>> /\ kind[w] = "xml" /\ clock' = Now
       /\ plan' = [plan EXCEPT ![w] = [changes EXCEPT !.process = @ \ {process}]]
  BY <1>2, <1>4 DEF Stage, committed, Stamp
<1>15. plan'[w].draft = {built} /\ plan'[w].items = {} /\ plan'[w].xml = {x}
  BY <1>13, <1>14, OrderlyTypes
<1>16. /\ \A y \in xmls : y.at < Now
       /\ Last(built) = Now /\ Last(draft) < Last(built)
  BY <1>6, <1>9, <1>10, OlderThanNow, LastIsNow
<1>17. StagedInv(w)'
  <2>1. Value({}, itemRows) = itemRows
    BY DEF Value
  <2>2. /\ x.id = x.body.doc /\ x.id # NoKey /\ x.at = built.updated /\ Fits(x, built)
    BY <1>9, <1>10, <1>11, <1>12 DEF KeyAgrees, Fits
  <2>3. Last(built) <= clock'
    BY <1>14, <1>16, <1>6 DEF Instant
  <2> QED BY <1>6, <1>10, <1>11, <1>14, <1>15, <1>16, <2>1, <2>2, <2>3 DEF StagedInv
<1> QED BY <1>4, <1>14, <1>17, OrderlyStage

LEMMA OrderlyXsd ==
  ASSUME IInv, OrderlyInv, NEW w \in Workers, StageXsd(w)
  PROVE  OrderlyInv'
<1> DEFINE changes == [NoPlan EXCEPT !.xml = {Validated(target[w])},
                                     !.process = IF Latest(target[w])
                                                 THEN {ProcessAfter(target[w])} ELSE {}]
<1>1. Stage(w, "xsd", changes) /\ clock' = clock
  BY DEF StageXsd
<1>2. changes.draft = {} /\ changes.items = {}
      /\ DOMAIN changes = {"draft", "items", "xml", "process", "number"}
  BY DEF NoPlan
<1> HIDE DEF changes
<1>3. /\ kind[w] = "xsd" /\ kind' = kind
      /\ plan' = [plan EXCEPT ![w] = [changes EXCEPT !.process = @ \ {process}]]
  BY <1>1 DEF Stage
<1>4. plan'[w].draft = {} /\ plan'[w].items = {}
  BY <1>2, <1>3, OrderlyTypes
<1>5. StagedInv(w)'
  BY <1>3, <1>4 DEF StagedInv
<1> QED BY <1>1, <1>4, <1>5, OrderlyStage

\* A verdict changes no version but for the verdict.
LEMMA OrderlyVerdict ==
  ASSUME IInv, OrderlyInv, NEW w \in Workers, Commit(w), kind[w] = "xsd"
  PROVE  /\ draft' = draft /\ itemRows' = itemRows
         /\ \A x \in xmls' : \E y \in xmls :
              Same(x, y) /\ x.key = y.key /\ x.id = y.id /\ x.body = y.body /\ x.at = y.at
         /\ \A y \in xmls : \E x \in xmls' :
              Same(x, y) /\ x.key = y.key /\ x.id = y.id /\ x.body = y.body /\ x.at = y.at
<1>1. /\ pc[w] = "staged" /\ target[w] \in Xml
      /\ plan[w].draft = {} /\ plan[w].items = {} /\ plan[w].xml = {Validated(target[w])}
  <2>1. pc[w] = "staged" /\ SeenInv(w) /\ PlanInv(w) /\ LoadedInv
    BY DEF Commit, OrderlyInv, IInv, RequestInv, TypeInv
  <2> QED BY <2>1 DEF SeenInv, PlanInv, LoadedInv
<1>2. PICK z \in xmls : StillThere(z, target[w])
  BY <1>1 DEF IInv, RequestInv, TargetInv
<1> DEFINE v == Validated(target[w])
<1>3. Same(v, z) /\ v.key = z.key /\ v.id = z.id /\ v.body = z.body /\ v.at = z.at
  BY <1>1, <1>2 DEF Validated, Xml, Same, StillThere
<1>4. draft' = draft /\ itemRows' = itemRows
  BY <1>1 DEF Commit, Value
<1>5. xmls' = {x \in xmls : ~Same(x, v)} \cup {v}
  BY <1>1 DEF Commit
<1>6. \A y \in xmls : Same(y, v) => y = z
  BY <1>2, <1>3 DEF IInv, TableInv, UniqueInv, Same
<1> HIDE DEF v
<1> QED BY <1>2, <1>3, <1>4, <1>5, <1>6 DEF Same

LEMMA OrderlyCommitXsd ==
  ASSUME IInv, OrderlyInv, NEW w \in Workers, Commit(w), kind[w] = "xsd"
  PROVE  OrderlyInv'
<1>1. UNCHANGED <<draft, itemRows, issuance, clock>> /\ Close(w)
  BY OrderlyVerdict DEF Commit
<1>2. CurrentInv'
  BY <1>1, OrderlyVerdict DEF OrderlyInv, CurrentInv, Fits, KeyAgrees
<1>3. IssuedInv'
  BY <1>1, OrderlyVerdict DEF OrderlyInv, IssuedInv, OfType, Same
<1>4. FinalInv'
  BY <1>1, OrderlyVerdict DEF OrderlyInv, FinalInv, OfType, Same, Fits
<1>5. \A x \in xmls' : \E y \in xmls : x.at = y.at
  BY OrderlyVerdict
<1>6. SeenInv(w)' /\ Still(w)
  BY <1>1, OrderlyClose
<1> QED BY <1>1, <1>2, <1>3, <1>4, <1>5, <1>6, OthersKeep

\* What another commit leaves of the draft and its versions.
LEMMA OrderlyWritten ==
  ASSUME IInv, OrderlyInv, NEW w \in Workers, seen[w] = draft, Commit(w), kind[w] # "xsd"
  PROVE  \/ UNCHANGED <<draft, itemRows, xmls>>
         \/ /\ plan[w].draft = {draft'} /\ draft' \in Draft
            /\ itemRows' = Value(plan[w].items, itemRows)
            /\ xmls' = xmls \cup plan[w].xml
            /\ kind[w] # "xml" => plan[w].xml = {}
            /\ \A x \in plan[w].xml : x.type = "unsigned"
<1>1. /\ pc[w] = "staged" /\ draft \in Draft /\ plan[w] \in Plans
      /\ StagedInv(w) /\ PlanInv(w)
  BY OrderlyTypes DEF Commit, OrderlyInv, SeenInv, IInv, RequestInv
<1>2. /\ \A x \in plan[w].xml, y \in xmls : ~Same(x, y)
      /\ \A x \in plan[w].xml : x.type = "unsigned"
  <2>1. CASE kind[w] = "xml"
    <3>1. \A x \in plan[w].xml :
            x.type = "unsigned" /\ \A u \in OfType("unsigned") : u.version < x.version
      BY <1>1, <2>1 DEF PlanInv
    <3>2. \A x \in plan[w].xml, y \in xmls : x.version \in Int /\ y.version \in Int
      BY PlanMembers, OrderlyTypes DEF IInv, TypeInv
    <3> QED BY <3>1, <3>2 DEF Same, OfType
  <2>2. CASE kind[w] # "xml"
    BY <1>1, <2>2 DEF PlanInv
  <2> QED BY <2>1, <2>2
<1>3. xmls' = xmls \cup plan[w].xml
  BY <1>2 DEF Commit, Same
<1>4. CASE plan[w].draft = {}
  <2>1. plan[w].items = {} /\ plan[w].xml = {}
    BY <1>1, <1>4 DEF StagedInv, PlanInv
  <2> QED BY <2>1, <1>3, <1>4 DEF Commit, Value
<1>5. CASE plan[w].draft # {}
  <2>1. PICK d \in Draft : plan[w].draft = {d}
    BY <1>1, <1>5 DEF Plans, Optional
  <2>2. Value(plan[w].draft, draft) = d
    BY <2>1 DEF Value
  <2>3. draft' = d
    BY <1>1, <1>5, <2>2, FlushAll DEF Commit
  <2>4. kind[w] # "xml" => plan[w].xml = {}
    BY <1>1 DEF PlanInv
  <2> QED BY <1>2, <1>3, <2>1, <2>3, <2>4 DEF Commit
<1> QED BY <1>4, <1>5

\* A request that was not overtaken found the draft as it is, or changes nothing.
LEMMA OrderlyEnd ==
  ASSUME NEW w \in Workers, NotOvertaken(w)
  PROVE  seen[w] = draft \/ UNCHANGED <<draft, itemRows, xmls, issuance, attempts>>
<1>1. committed' = committed => UNCHANGED <<draft, itemRows, xmls, issuance, attempts>>
  BY DEF committed
<1> QED BY <1>1 DEF NotOvertaken

\* What was planned from the draft as it is becomes the draft.
LEMMA OrderlyCommitted ==
  ASSUME IInv, OrderlyInv, NEW w \in Workers, seen[w] = draft, Commit(w), kind[w] # "xsd",
         plan[w].draft = {draft'}, draft' \in Draft,
         itemRows' = Value(plan[w].items, itemRows), xmls' = xmls \cup plan[w].xml,
         kind[w] # "xml" => plan[w].xml = {}, \A x \in plan[w].xml : x.type = "unsigned"
  PROVE  OrderlyInv'
<1>1. UNCHANGED <<issuance, clock>> /\ Close(w) /\ pc[w] = "staged"
  BY DEF Commit
<1>2. StagedInv(w)
  BY <1>1 DEF OrderlyInv, SeenInv
<1>3. /\ draft.status # "signed" /\ draft'.status # "signed"
      /\ KeyAgrees(draft') /\ Last(draft) < Last(draft') /\ Last(draft') <= clock
      /\ draft'.payload.items = itemRows'
      /\ \A x \in xmls : x.at < draft'.updated
  BY <1>2 DEF StagedInv
<1>4. \A x \in plan[w].xml :
        x.id = x.body.doc /\ x.id # NoKey /\ x.at = draft'.updated /\ Fits(x, draft')
  BY <1>2 DEF StagedInv
<1>5. /\ \A x \in xmls : x.at \in Int
      /\ draft'.updated \in Int /\ Last(draft') \in Int /\ clock \in Int
      /\ draft'.updated <= Last(draft')
  BY OrderlyTypes DEF Draft, Key, Instant, Last
<1>6. clock' = clock
  BY <1>1
<1>7. CurrentInv'
  <2>1. ASSUME NEW x \in xmls
        PROVE  /\ x.id = x.body.doc /\ x.id # NoKey /\ x.at <= clock'
               /\ ~(draft'.updated <= x.at)
    BY <1>3, <1>5, <1>6 DEF OrderlyInv, CurrentInv
  <2>2. ASSUME NEW x \in plan[w].xml
        PROVE  /\ x.id = x.body.doc /\ x.id # NoKey /\ x.at <= clock' /\ Fits(x, draft')
    BY <1>3, <1>4, <1>5, <1>6
  <2>3. ASSUME NEW x \in xmls'
        PROVE  /\ x.id = x.body.doc /\ x.id # NoKey /\ x.at <= clock'
               /\ draft'.updated <= x.at => Fits(x, draft')
    <3>1. x \in xmls \/ x \in plan[w].xml
      OBVIOUS
    <3> QED BY <2>1, <2>2, <3>1
  <2>4. (KeyAgrees(draft) /\ Last(draft) <= clock)'
    BY <1>3, <1>6 DEF KeyAgrees, Last
  <2>5. (draft.payload.items = itemRows)'
    BY <1>3
  <2> QED BY <2>3, <2>4, <2>5 DEF CurrentInv, Fits
<1>8. IssuedInv'
  BY <1>1 DEF OrderlyInv, IssuedInv, OfType
<1>9. FinalInv'
  <2>1. OfType("signed") = {}
    BY <1>3 DEF OrderlyInv, FinalInv
  <2>2. OfType("signed")' = {}
    BY <2>1 DEF OfType
  <2> QED BY <1>3, <2>2 DEF FinalInv
<1>10. SeenInv(w)' /\ Still(w)
  BY <1>1, OrderlyClose
<1> QED BY <1>3, <1>7, <1>8, <1>9, <1>10, OthersLeft

LEMMA OrderlyCommit ==
  ASSUME IInv, OrderlyInv, NEW w \in Workers, Commit(w), kind[w] = "xsd" \/ NotOvertaken(w)
  PROVE  OrderlyInv'
<1>1. /\ UNCHANGED <<issuance, clock>> /\ Close(w) /\ pc[w] = "staged"
      /\ SeenInv(w)' /\ Still(w)
  BY OrderlyClose DEF Commit
<1>2. CASE kind[w] = "xsd"
  BY <1>2, OrderlyCommitXsd
<1>3. CASE UNCHANGED <<draft, itemRows, xmls>>
  BY <1>1, <1>3, OrderlyQuiet
<1>4. CASE seen[w] = draft /\ kind[w] # "xsd"
  BY <1>3, <1>4, OrderlyWritten, OrderlyCommitted
<1> QED BY <1>1, <1>2, <1>3, <1>4, OrderlyEnd

LEMMA OrderlyLoad ==
  ASSUME IInv, OrderlyInv, NEW w \in Workers, NEW k \in Kinds, Load(w, k)
  PROVE  OrderlyInv'
<1>1. /\ UNCHANGED <<draft, itemRows, xmls, issuance, plan, clock>> /\ pc[w] = "idle"
      /\ pc' = [pc EXCEPT ![w] = "loaded"] /\ kind' = [kind EXCEPT ![w] = k]
      /\ seen' = [seen EXCEPT ![w] = draft]
      /\ target' = target \/ \E x \in xmls : target' = [target EXCEPT ![w] = x]
  BY DEF Load, committed
<1>2. pc'[w] = "loaded" /\ seen'[w] = draft /\ plan'[w].items = {}
  BY <1>1, OrderlyTypes DEF OrderlyInv, SeenInv
<1>3. SeenInv(w)'
  BY <1>1, <1>2 DEF SeenInv
<1>4. Still(w)
  BY <1>1, OrderlyTypes DEF Still
<1> QED BY <1>1, <1>3, <1>4, OrderlyQuiet

LEMMA OrderlyReadItems ==
  ASSUME IInv, OrderlyInv, NEW w \in Workers, ReadItems(w)
  PROVE  OrderlyInv'
<1>1. /\ UNCHANGED <<draft, itemRows, xmls, issuance, pc, kind, seen, target, clock>>
      /\ pc[w] = "loaded" /\ plan' = [plan EXCEPT ![w].items = {itemRows}]
  BY DEF ReadItems, committed
<1>2. plan'[w].items = {itemRows}
  BY <1>1, OrderlyTypes DEF Plans
<1>3. SeenInv(w)'
  BY <1>1, <1>2 DEF OrderlyInv, SeenInv
<1>4. Still(w)
  BY <1>1, OrderlyTypes DEF Still
<1> QED BY <1>1, <1>3, <1>4, OrderlyQuiet

\* A signature that is replayed, or finds no certificate, leaves the rows alone; so
\* do a refusal and a crash.
LEMMA OrderlyNothing ==
  ASSUME IInv, OrderlyInv, NEW w \in Workers, Close(w),
         UNCHANGED <<itemRows, xmls, issuance, clock>>,
         \/ draft' = draft
         \/ NotOvertaken(w) /\ draft' = Flush(draft, seen[w], Touched(seen[w]))
  PROVE  draft' = draft /\ OrderlyInv'
<1>1. draft' = draft
  BY OrderlyEnd, TouchedSame DEF OrderlyInv
<1> QED BY <1>1, OrderlyQuiet, OrderlyClose

LEMMA OrderlySignStart ==
  ASSUME IInv, OrderlyInv, NEW w \in Workers, SignStart(w)
  PROVE  OrderlyInv'
<1>1. /\ UNCHANGED <<draft, itemRows, xmls, issuance, kind, seen, target, plan, clock>>
      /\ pc' = [pc EXCEPT ![w] = "signing"] /\ pc[w] = "loaded"
      /\ seen[w].updated <= target[w].at
  BY DEF SignStart, Signing, Locked, UpToDate, committed
<1>2. pc'[w] = "signing"
  BY <1>1, OrderlyTypes
<1>3. SeenInv(w)'
  BY <1>1, <1>2 DEF OrderlyInv, SeenInv
<1>4. Still(w)
  BY <1>1, OrderlyTypes DEF Still
<1> QED BY <1>1, <1>3, <1>4, OrderlyQuiet

\* A version that is being signed has the content and the key of the draft.
LEMMA OrderlySigning ==
  ASSUME IInv, OrderlyInv, NEW w \in Workers, seen[w] = draft, pc[w] = "signing"
  PROVE  /\ target[w] \in xmls /\ target[w] \in Xml
         /\ target[w].type = "unsigned" /\ Fits(target[w], draft)
         /\ target[w].id = target[w].body.doc /\ target[w].id # NoKey
         /\ target[w].id = draft.key /\ draft.key.number = draft.number
         /\ OfType("signed") = {} /\ draft.status # "signed"
         /\ \A i \in issuance : /\ i.version = target[w].version
                                /\ i.key = target[w].id /\ i.number = target[w].id.number
<1>1. /\ kind[w] = "sign" /\ target[w].type = "unsigned" /\ target[w].xsd = "valid"
      /\ OfType("signed") = {}
      /\ \A i \in issuance : i.version = target[w].version
  BY DEF IInv, RequestInv, SigningInv
<1>2. target[w] \in xmls /\ target[w] \in Xml
  <2>1. target[w] \in Xml
    BY <1>1 DEF IInv, TypeInv, LoadedInv
  <2>2. PICK x \in xmls : StillThere(x, target[w])
    BY <1>1 DEF IInv, RequestInv, TargetInv
  <2>3. x \in Xml
    BY OrderlyTypes
  <2>4. x = target[w]
    BY <1>1, <2>1, <2>2, <2>3 DEF StillThere, Same, Xml
  <2> QED BY <2>1, <2>4
<1>3. /\ Fits(target[w], draft) /\ target[w].id = target[w].body.doc /\ target[w].id # NoKey
      /\ KeyAgrees(draft)
  <2>1. draft.updated <= target[w].at
    BY DEF OrderlyInv, SeenInv
  <2> QED BY <1>2, <2>1 DEF OrderlyInv, CurrentInv
<1>4. \A i \in issuance : i.key = target[w].id /\ i.number = target[w].id.number
  <2> TAKE i \in issuance
  <2>1. PICK u \in OfType("unsigned") :
          u.version = i.version /\ i.key = u.id /\ i.number = u.id.number
    BY DEF OrderlyInv, IssuedInv
  <2>2. u = target[w]
    BY <1>1, <1>2, <2>1 DEF IInv, TableInv, UniqueInv, Same, OfType
  <2> QED BY <2>1, <2>2
<1>5. draft.status # "signed"
  BY <1>1 DEF OrderlyInv, FinalInv
<1> QED BY <1>1, <1>2, <1>3, <1>4, <1>5 DEF Fits, KeyAgrees

\* The issuance of an attempt holds the key and the number of the version.
LEMMA OrderlyIssued ==
  ASSUME IInv, OrderlyInv, NEW w \in Workers, seen[w] = draft, pc[w] = "signing",
         NEW status, NEW i \in Issued(w, status)
  PROVE  /\ i.version = target[w].version
         /\ i.key = target[w].id /\ i.number = target[w].id.number
<1>1. CASE issuance = {}
  BY <1>1, OrderlySigning DEF Issued
<1>2. CASE issuance # {}
  <2>1. PICK j \in issuance : i = [j EXCEPT !.status = status, !.cert = cert[w]]
    BY <1>2 DEF Issued
  <2>2. j \in Issuance
    BY DEF IInv, TypeInv, RowsInv
  <2>3. i.version = j.version /\ i.key = j.key /\ i.number = j.number
    BY <2>1, <2>2 DEF Issuance
  <2> QED BY <2>3, OrderlySigning
<1> QED BY <1>1, <1>2

\* An attempt that ends leaves its outcome, so it found the draft as it is.
LEMMA OrderlyAttempt ==
  ASSUME IInv, NEW w \in Workers, SignSucceeds(w) \/ SignFails(w), NotOvertaken(w)
  PROVE  seen[w] = draft /\ pc[w] = "signing" /\ Close(w) /\ clock' = Now
<1>1. pc[w] = "signing" /\ Close(w) /\ clock' = Now
  BY DEF SignSucceeds, SignFails, Stamp
<1>2. attempts' # attempts
  <2>1. attempts \in Seq({"succeeded", "failed"})
    BY DEF IInv, TypeInv, RowsInv
  <2>2. PICK o \in {"succeeded", "failed"} : attempts' = Append(attempts, o)
    BY DEF SignSucceeds, SignFails
  <2>3. Len(attempts') = Len(attempts) + 1 /\ Len(attempts) \in Nat
    BY <2>1, <2>2
  <2> QED BY <2>3
<1> QED BY <1>1, <1>2, OrderlyEnd

LEMMA OrderlySignSucceeds ==
  ASSUME IInv, OrderlyInv, NEW w \in Workers, SignSucceeds(w), NotOvertaken(w)
  PROVE  OrderlyInv'
<1> DEFINE s == [target[w] EXCEPT !.type = "signed", !.key = seen[w].key, !.at = Now]
           new == [Touched(seen[w]) EXCEPT !.status = "signed", !.updated = Now]
<1>1. /\ pc[w] = "signing" /\ Close(w) /\ clock' = Now /\ itemRows' = itemRows
      /\ xmls' = xmls \cup {s} /\ issuance' = Issued(w, "signed")
      /\ draft' = Flush(draft, seen[w], new) /\ seen[w] = draft
  BY OrderlyAttempt DEF SignSucceeds
<1>2. /\ draft \in Draft /\ itemRows \in Items
      /\ KeyAgrees(draft) /\ draft.payload.items = itemRows /\ Now \in Instant
  BY <1>1, OrderlyLoaded
<1>3. /\ target[w] \in xmls /\ target[w] \in Xml /\ target[w].type = "unsigned"
      /\ Fits(target[w], draft) /\ target[w].id = draft.key
      /\ target[w].id = target[w].body.doc /\ target[w].id # NoKey
      /\ OfType("signed") = {}
  BY <1>1, OrderlySigning
<1>4. /\ draft' = new /\ new \in Draft /\ new.status = "signed" /\ new.updated = Now
      /\ new.payload = draft.payload /\ new.key = draft.key /\ new.number = draft.number
  <2>1. Touched(draft) = draft
    BY <1>2 DEF Touched, Draft, Payload
  <2>2. new = [draft EXCEPT !.status = "signed", !.updated = Now]
    BY <1>1, <2>1
  <2>3. new \in Draft
    BY <1>2, <2>2 DEF Draft, DraftStatus
  <2>4. Flush(draft, draft, new) = new
    BY <1>2, <2>3, FlushAll
  <2> QED BY <1>1, <1>2, <2>2, <2>3, <2>4 DEF Draft
<1>5. /\ s.type = "signed" /\ s.key = draft.key /\ s.at = Now /\ s.id = target[w].id
      /\ s.body = target[w].body /\ s.version = target[w].version
  BY <1>1, <1>3 DEF Xml
<1> HIDE DEF s, new
<1>6. Fits(s, draft')
  BY <1>3, <1>4, <1>5 DEF Fits
<1>7. CurrentInv'
  <2>1. \A x \in xmls : x.at \in Nat /\ x.at <= clock
    BY OrderlyTypes DEF OrderlyInv, CurrentInv
  <2>2. \A x \in xmls : x.at <= Now /\ ~(Now <= x.at)
    BY <2>1, OrderlyTypes DEF Now
  <2>3. \A x \in xmls : x.id = x.body.doc /\ x.id # NoKey
    BY DEF OrderlyInv, CurrentInv
  <2>4. KeyAgrees(draft')
    BY <1>2, <1>4 DEF KeyAgrees
  <2>5. Now <= Now /\ Last(draft') <= Now
    BY <1>2, <1>4, LastIsNow DEF Instant
  <2> QED BY <1>1, <1>2, <1>3, <1>4, <1>5, <1>6, <2>2, <2>3, <2>4, <2>5 DEF CurrentInv, Last
<1>8. \A i \in issuance' : /\ i.version = target[w].version
                           /\ i.key = target[w].id /\ i.number = target[w].id.number
  BY <1>1, OrderlyIssued
<1>9. IssuedInv'
  <2>1. target[w] \in OfType("unsigned")'
    BY <1>1, <1>3 DEF OfType
  <2> QED BY <1>8, <2>1 DEF IssuedInv
<1>10. FinalInv'
  <2>1. OfType("signed")' = {s}
    BY <1>1, <1>3, <1>5 DEF OfType
  <2> QED BY <1>3, <1>4, <1>5, <1>6, <1>8, <2>1 DEF FinalInv
<1>11. Last(draft) < Last(draft')
  BY <1>2, <1>4, LastIsNow
<1>12. SeenInv(w)' /\ Still(w)
  BY <1>1, OrderlyClose
<1> QED BY <1>4, <1>7, <1>9, <1>10, <1>11, <1>12, OthersLeft

LEMMA OrderlySignFails ==
  ASSUME IInv, OrderlyInv, NEW w \in Workers, SignFails(w), NotOvertaken(w)
  PROVE  draft' = draft /\ OrderlyInv'
<1>1. /\ seen[w] = draft /\ pc[w] = "signing" /\ Close(w) /\ clock' = Now
      /\ UNCHANGED <<itemRows, xmls>>
      /\ issuance' = IF issuance = {} THEN Issued(w, "xsd_validated") ELSE issuance
      /\ draft' = Flush(draft, seen[w], Touched(seen[w]))
  BY OrderlyAttempt DEF SignFails
<1>2. draft' = draft
  BY <1>1, TouchedSame DEF OrderlyInv
<1>3. CurrentInv'
  BY <1>1, <1>2, OrderlyTypes DEF OrderlyInv, CurrentInv, KeyAgrees, Fits, Now, Last
<1>4. IssuedInv'
  <2>1. \A i \in issuance' : /\ i.version = target[w].version
                             /\ i.key = target[w].id /\ i.number = target[w].id.number
    BY <1>1, OrderlyIssued, OrderlySigning
  <2>2. target[w] \in OfType("unsigned")'
    BY <1>1, OrderlySigning DEF OfType
  <2> QED BY <2>1, <2>2 DEF IssuedInv
<1>5. FinalInv'
  <2>1. OfType("signed")' = {} /\ draft'.status # "signed"
    BY <1>1, <1>2, OrderlySigning DEF OfType
  <2> QED BY <2>1 DEF FinalInv
<1>6. SeenInv(w)' /\ Still(w) /\ \A x \in xmls' : \E y \in xmls : x.at = y.at
  BY <1>1, OrderlyClose
<1> QED BY <1>1, <1>2, <1>3, <1>4, <1>5, <1>6, OthersKeep

\* Only a commit and a signature change the draft or its versions.
LEMMA OrderlyKept ==
  ASSUME IInv, OrderlyInv, [OrderlyNext]_vars
  PROVE  \/ UNCHANGED <<draft, xmls>>
         \/ \E w \in Workers : \/ Commit(w) /\ (kind[w] = "xsd" \/ NotOvertaken(w))
                               \/ SignSucceeds(w) /\ NotOvertaken(w)
<1>1. CASE UNCHANGED vars
  BY <1>1 DEF vars, committed
<1>2. ASSUME NEW w \in Workers, NEW k \in Kinds, Load(w, k) PROVE UNCHANGED <<draft, xmls>>
  BY <1>2 DEF Load, committed
<1>3. ASSUME NEW w \in Workers, Orderly(w)
      PROVE  \/ UNCHANGED <<draft, xmls>>
             \/ Commit(w) /\ (kind[w] = "xsd" \/ NotOvertaken(w))
             \/ SignSucceeds(w) /\ NotOvertaken(w)
  <2>1. ASSUME NEW k, NEW changes, Stage(w, k, changes) PROVE UNCHANGED <<draft, xmls>>
    BY <2>1 DEF Stage, committed
  <2>2. CASE StageMetadata(w) BY <2>2, <2>1 DEF StageMetadata
  <2>3. CASE StageItem(w)     BY <2>3, <2>1 DEF StageItem
  <2>4. CASE StageValidate(w) BY <2>4, <2>1 DEF StageValidate
  <2>5. CASE StageRemove(w)   BY <2>5, <2>1 DEF StageRemove
  <2>6. CASE StageKey(w)      BY <2>6, <2>1 DEF StageKey
  <2>7. CASE StageXml(w)      BY <2>7, <2>1 DEF StageXml
  <2>8. CASE StageXsd(w)      BY <2>8, <2>1 DEF StageXsd
  <2>9. CASE ReadItems(w) \/ SignStart(w) \/ Refuse(w)
    BY <2>9 DEF ReadItems, SignStart, Refuse, committed
  <2>10. CASE (SignReplay(w) \/ SignWithoutCert(w)) /\ NotOvertaken(w)
    BY <2>10, OrderlyNothing DEF SignReplay, SignWithoutCert
  <2>11. CASE SignFails(w) /\ NotOvertaken(w)
    BY <2>11, OrderlySignFails DEF SignFails
  <2> QED BY <1>3, <2>2, <2>3, <2>4, <2>5, <2>6, <2>7, <2>8, <2>9, <2>10, <2>11 DEF Orderly
<1>4. ASSUME NEW w \in Workers, Abort(w) PROVE UNCHANGED <<draft, xmls>>
  BY <1>4 DEF Abort, committed
<1>5. ASSUME NEW c \in Certs \cup {NoCert}, SwitchCertificate(c)
      PROVE  UNCHANGED <<draft, xmls>>
  BY <1>5 DEF SwitchCertificate, committed
<1> QED BY <1>1, <1>2, <1>3, <1>4, <1>5 DEF OrderlyNext

LEMMA OrderlyInit == Init => OrderlyInv
<1> SUFFICES ASSUME Init PROVE OrderlyInv
  OBVIOUS
<1>1. PICK g \in Grades : draft = FreshDraft(g) /\ itemRows = draft.payload.items
  BY DEF Init
<1>2. /\ xmls = {} /\ issuance = {} /\ clock = 0
      /\ \A w \in Workers : pc[w] = "idle" /\ plan[w] = NoPlan
  BY DEF Init
<1>3. CurrentInv
  BY <1>1, <1>2 DEF CurrentInv, KeyAgrees, FreshDraft, Last, NoKey
<1>4. IssuedInv
  BY <1>2 DEF IssuedInv
<1>5. FinalInv
  BY <1>1, <1>2 DEF FinalInv, FreshDraft, OfType
<1>6. \A w \in Workers : SeenInv(w)
  BY <1>2 DEF SeenInv, NoPlan
<1> QED BY <1>3, <1>4, <1>5, <1>6 DEF OrderlyInv

LEMMA OrderlyStep == IInv /\ OrderlyInv /\ [OrderlyNext]_vars => OrderlyInv'
<1> SUFFICES ASSUME IInv, OrderlyInv, [OrderlyNext]_vars PROVE OrderlyInv'
  OBVIOUS
<1>1. ASSUME UNCHANGED <<committed, local, clock>> PROVE OrderlyInv'
  <2>1. UNCHANGED <<draft, itemRows, xmls, issuance, pc, kind, seen, target, plan, clock>>
    BY <1>1 DEF committed, local
  <2>2. CurrentInv' /\ IssuedInv' /\ FinalInv'
    BY <2>1 DEF OrderlyInv, CurrentInv, IssuedInv, FinalInv, KeyAgrees, Fits, Last, OfType
  <2>3. \A w \in Workers : SeenInv(w)'
    BY <2>1 DEF OrderlyInv, SeenInv, StagedInv, KeyAgrees, Fits, Last
  <2> QED BY <2>2, <2>3 DEF OrderlyInv
<1>2. ASSUME NEW w \in Workers, NEW k \in Kinds, Load(w, k) PROVE OrderlyInv'
  BY <1>2, OrderlyLoad
<1>3. ASSUME NEW w \in Workers, Orderly(w) PROVE OrderlyInv'
  <2>1. CASE StageMetadata(w)
    BY <2>1, OrderlyMetadata, OrderlyStale
  <2>2. CASE StageItem(w)
    BY <2>2, OrderlyItem, OrderlyStale
  <2>3. CASE StageValidate(w)
    BY <2>3, OrderlyValidate, OrderlyStale
  <2>4. CASE StageRemove(w)
    BY <2>4, OrderlyRemove, OrderlyStale
  <2>5. CASE StageKey(w) /\ InLaterSecond
    BY <2>5, OrderlyKey, OrderlyStale
  <2>6. CASE StageXml(w)
    BY <2>6, OrderlyXml, OrderlyStale
  <2>7. CASE ReadItems(w)
    BY <2>7, OrderlyReadItems
  <2>8. CASE StageXsd(w)
    BY <2>8, OrderlyXsd
  <2>9. CASE (SignReplay(w) \/ SignWithoutCert(w)) /\ NotOvertaken(w)
    BY <2>9, OrderlyNothing DEF SignReplay, SignWithoutCert
  <2>10. CASE SignStart(w)
    BY <2>10, OrderlySignStart
  <2>11. CASE SignSucceeds(w) /\ NotOvertaken(w)
    BY <2>11, OrderlySignSucceeds
  <2>12. CASE SignFails(w) /\ NotOvertaken(w)
    BY <2>12, OrderlySignFails
  <2>13. CASE Refuse(w)
    BY <2>13, OrderlyNothing DEF Refuse, committed
  <2>14. CASE Commit(w) /\ (kind[w] = "xsd" \/ NotOvertaken(w))
    BY <2>14, OrderlyCommit
  <2> QED BY <1>3, <2>1, <2>2, <2>3, <2>4, <2>5, <2>6, <2>7, <2>8, <2>9, <2>10, <2>11,
             <2>12, <2>13, <2>14 DEF Orderly
<1>4. ASSUME NEW w \in Workers, Abort(w) PROVE OrderlyInv'
  BY <1>4, OrderlyNothing DEF Abort, committed
<1>5. ASSUME NEW c \in Certs \cup {NoCert}, SwitchCertificate(c) PROVE OrderlyInv'
  BY <1>1, <1>5 DEF SwitchCertificate
<1> QED BY <1>1, <1>2, <1>3, <1>4, <1>5 DEF OrderlyNext, vars

\* The steps of OrderlySpec are steps of Spec.
LEMMA OrderlyIsNext == OrderlyNext => Next
BY DEF OrderlyNext, Orderly, Next, Service

LEMMA OrderlyInvariant == OrderlySpec => [](IInv /\ OrderlyInv)
<1>1. Init => IInv /\ OrderlyInv
  BY SafetyInit, OrderlyInit
<1>2. (IInv /\ OrderlyInv) /\ [OrderlyNext]_vars => (IInv /\ OrderlyInv)'
  BY SafetyStep, OrderlyStep, OrderlyIsNext
<1> QED BY <1>1, <1>2, PTL DEF OrderlySpec

\* For any number of overlapping requests: as long as none writes over a change made
\* after it loaded the draft, what was signed is the draft as it stands, because
\* sign_xml_version compares the age of the version with that of the draft.
THEOREM WhatIsSignedIsCurrent == OrderlySpec => []SignedIsCurrent
<1>1. OrderlyInv => SignedIsCurrent
  BY DEF OrderlyInv, FinalInv, CurrentInv, Fits, SignedIsCurrent
<1> QED BY <1>1, OrderlyInvariant, PTL

\* Under the same condition the signed XML is filed under the key that it carries, in
\* the version, the issuance and the draft.
THEOREM WhatIsSignedCarriesKey == OrderlySpec => []SignedCarriesKey
<1>1. OrderlyInv => SignedCarriesKey
  BY DEF OrderlyInv, FinalInv, Fits, SignedCarriesKey
<1> QED BY <1>1, OrderlyInvariant, PTL

\* Under the same condition every new key reaches the columns, the document section
\* and each XML built from it.
THEOREM KeysAgree == OrderlySpec => []KeyIsConsistent
<1>1. OrderlyInv => KeyIsConsistent
  BY DEF OrderlyInv, CurrentInv, KeyAgrees, KeyIsConsistent
<1> QED BY <1>1, OrderlyInvariant, PTL

\* Under the same condition no request changes a signed draft or gives it another
\* version: _assert_draft_editable sees the signature.
THEOREM SignatureIsFinal == OrderlySpec => SignedIsFinal
<1> DEFINE Step == draft.status = "signed" =>
                     draft' = draft /\ Versions(xmls') = Versions(xmls)
<1>1. IInv /\ OrderlyInv /\ [OrderlyNext]_vars => Step
  <2> SUFFICES ASSUME IInv, OrderlyInv, [OrderlyNext]_vars, draft.status = "signed"
               PROVE  draft' = draft /\ Versions(xmls') = Versions(xmls)
    OBVIOUS
  <2>1. ASSUME NEW w \in Workers, Commit(w), kind[w] = "xsd"
        PROVE  draft' = draft /\ Versions(xmls') = Versions(xmls)
    <3>1. /\ \A x \in xmls' : \E y \in xmls : Same(x, y)
          /\ \A y \in xmls : \E x \in xmls' : Same(x, y)
      BY <2>1, OrderlyVerdict
    <3>2. Versions(xmls') \subseteq Versions(xmls)
      <4> SUFFICES ASSUME NEW x \in xmls'
                   PROVE  \E y \in xmls : <<x.type, x.version>> = <<y.type, y.version>>
        BY DEF Versions
      <4> QED BY <3>1 DEF Same
    <3>3. Versions(xmls) \subseteq Versions(xmls')
      <4> SUFFICES ASSUME NEW y \in xmls
                   PROVE  \E x \in xmls' : <<y.type, y.version>> = <<x.type, x.version>>
        BY DEF Versions
      <4> QED BY <3>1 DEF Same
    <3> QED BY <2>1, <3>2, <3>3, OrderlyVerdict
  <2>2. ASSUME NEW w \in Workers, Commit(w), kind[w] # "xsd", NotOvertaken(w)
        PROVE  draft' = draft /\ Versions(xmls') = Versions(xmls)
    <3>1. CASE seen[w] = draft
      <4>1. plan[w].draft = {}
        BY <2>2, <3>1 DEF Commit, OrderlyInv, SeenInv, StagedInv
      <4> QED BY <2>2, <3>1, <4>1, OrderlyWritten DEF Versions
    <3> QED BY <2>2, <3>1, OrderlyEnd
  <2>3. ASSUME NEW w \in Workers, SignSucceeds(w), NotOvertaken(w) PROVE FALSE
    BY <2>3, OrderlyAttempt, OrderlySigning
  <2> QED BY <2>1, <2>2, <2>3, OrderlyKept
<1>2. OrderlySpec => [][Step]_vars
  BY <1>1, OrderlyInvariant, PTL DEF OrderlySpec
<1> QED BY <1>2 DEF SignedIsFinal
=============================================================================
