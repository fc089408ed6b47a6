---------------------------- MODULE ImportProcess ----------------------------
(***************************************************************************)
(* One import process from its first DUIMP to its signed NF-es: the        *)
(* snapshots of the DUIMP, the classification of their items, the plans    *)
(* that split a snapshot into one NF-e per exporter, the drafts (children  *)
(* of a plan, or one for the whole DUIMP), and the ladder with which       *)
(* get_nfe_workflow_state tells the operator what to do next.              *)
(*                                                                         *)
(* A plan, and the drafts of a plan, are made from rows that the request   *)
(* reads without a lock: each takes two steps here, and other requests     *)
(* commit in between.  The other requests are one step: what two of them   *)
(* do to one draft is the subject of NfeDraft.                             *)
(***************************************************************************)
EXTENDS Integers, Sequences, SequencesExt

CONSTANTS Workers,       \* plan and draft requests that may be open at once
          Items,         \* items of a DUIMP
          Duimps,        \* for each DUIMP that may come, the keys of its exporters
          MaxSnapshots, MaxPlans, MaxDrafts,    \* bounds on the rows
          MaxRequests    \* bound: requests that the ladder does not ask for

ASSUME ProcessAssumption ==
  /\ \A E \in Duimps : E # {} /\ E \subseteq Nat /\ IsFiniteSet(E)
  /\ {MaxSnapshots, MaxPlans, MaxDrafts, MaxRequests} \subseteq Nat

VARIABLES
  setup,      \* what the importer has: see Setup
  rule,       \* the tax rule that fits the items: "absent", "active", "inactive"
  snapshots,  \* duimp_snapshots, in the order of created_at
  rows,       \* nfe_item_classifications
  saves,      \* how many times classifications were saved
  saved,      \* the last of those saves for each snapshot, 0 when there is none
  plans,      \* nfe_document_plans with their documents
  drafts,     \* nfe_drafts, in the order of created_at
  age,        \* for each draft, how many were updated after it
  pc,         \* where the request of each worker is
  read,       \* what it read
  requests    \* how many more requests may come unasked

tables  == <<snapshots, rows, saves, saved, plans, drafts, age>>
workers == <<pc, read>>
vars    == <<setup, rule, tables, workers, requests>>

-----------------------------------------------------------------------------
(* Rows                                                                    *)

\* A fiscal profile, a connection to Portal Unico with credentials, an active
\* certificate.  "sequence": the ladder finds a number sequence of the series of
\* the drafts, whatever its status, the zeros that pad it and the numbers it has
\* left.  "number": reserve_next_number finds one too, active, written like the
\* series of the drafts, and below its maximum.
Setup == {"profile", "sequence", "number", "connection", "certificate"}

Exporters == UNION Duimps    \* numbered in the order that sorted() gives the keys

Snapshot == [exporters : Duimps, complete : BOOLEAN]

\* `ruled': a tax rule matched, and gave the row its CFOP.
Row == [snap : 1..MaxSnapshots, item : Items, ruled : BOOLEAN]

\* `at' stands for created_at: the saves of classifications before it.
Plan == [snap : 1..MaxSnapshots, version : 1..MaxPlans, at : Nat,
         status : {"planned", "superseded"}, documents : SUBSET Exporters]

\* What is wrong with the data of a draft: nothing, a tax treatment that waits
\* for a confirmation (_authorization_metadata), something only the XSD finds,
\* or something validate_nfe_payload reports.
Grades == {"fit", "blocked", "unfit", "invalid"}

\* `fits' is the grade of the content of the latest XML, `stale' says that the
\* draft was updated after it; the plan of a draft that has none is 0.
Draft == [snap : 1..MaxSnapshots, plan : 0..MaxPlans, exporter : Exporters,
          grade : Grades, key : BOOLEAN, fits : BOOLEAN, stale : BOOLEAN,
          xml : {"none", "unknown", "valid", "invalid", "signed"},
          at : Nat, removed : BOOLEAN]

NoRead == [snap |-> 0, plans |-> {}, missing |-> {}, at |-> 0]

Init ==
  /\ setup = {} /\ rule = "absent"
  /\ snapshots = <<>> /\ rows = {} /\ saves = 0
  /\ saved = [s \in 1..MaxSnapshots |-> 0]
  /\ plans = <<>> /\ drafts = <<>> /\ age = <<>>
  /\ pc = [w \in Workers |-> "idle"]
  /\ read = [w \in Workers |-> NoRead]
  /\ requests = MaxRequests

Newest == Len(snapshots)

ExportersOf(s) == snapshots[s].exporters

\* document_plan_query filtered on snapshot and status.
PlannedOf(s) == {p \in DOMAIN plans : plans[p].snap = s /\ plans[p].status = "planned"}

\* The plan that requests on a snapshot work with: the highest version.
ActivePlan(s) ==
  {p \in PlannedOf(s) : \A q \in PlannedOf(s) : plans[q].version <= plans[p].version}

\* _latest_active_document_draft: a set of at most one draft.
ChildOf(p, x) ==
  LET own == {d \in DOMAIN drafts : /\ drafts[d].plan = p /\ drafts[d].exporter = x
                                    /\ ~drafts[d].removed}
  IN {d \in own : \A e \in own : e <= d}

Children(p) == UNION {ChildOf(p, x) : x \in plans[p].documents}

Missing(p) == {x \in plans[p].documents : ChildOf(p, x) = {}}

-----------------------------------------------------------------------------
(* DUIMP snapshots and the context of the NF-e                             *)

\* A prerequisite is stored, the importer's profile in particular.  A sequence
\* may be stored inactive, padded or used up; one with a number is listed too.
Configure(c) ==
  /\ setup' = setup \cup IF c = "number" THEN {"sequence", "number"} ELSE {c}
  /\ UNCHANGED <<rule, tables, workers>>

SaveProfile == Configure("profile")

\* A connection or a certificate is deactivated, or the sequence is: its row
\* stays listed.  Drafts of other processes may take its last number as well.
Deactivate(c) ==
  /\ c \in setup \cap {"number", "connection", "certificate"}
  /\ setup' = setup \ {c}
  /\ UNCHANGED <<rule, tables, workers>>

\* create_import_tax_rule, update_import_tax_rule
ActivateRule == rule' = "active" /\ UNCHANGED <<setup, tables, workers>>

\* deactivate_import_tax_rule: the classifications that use it keep it.
DeactivateRule ==
  /\ rule = "active"
  /\ rule' = "inactive"
  /\ UNCHANGED <<setup, tables, workers>>

CreateSnapshot(s) == snapshots' = Append(snapshots, s)

\* fetch_duimp_for_process once the gateway answered, and
\* create_manual_duimp_snapshot.  A failed fetch is rolled back by its route:
\* it leaves nothing behind, not even DUIMP_FETCH_FAILED.
AddSnapshot ==
  /\ Newest < MaxSnapshots
  /\ \E s \in Snapshot : CreateSnapshot(s)
  /\ UNCHANGED <<setup, rule, rows, saves, saved, plans, drafts, age, workers>>

Fetch == "connection" \in setup /\ AddSnapshot

\* get_nfe_context with persist: the normalized payload is rewritten.
ResolveContext(s) ==
  /\ ~snapshots[s].complete
  /\ snapshots' = [snapshots EXCEPT ![s].complete = TRUE]
  /\ UNCHANGED <<setup, rule, rows, saves, saved, plans, drafts, age, workers>>

-----------------------------------------------------------------------------
(* Classification of the items                                             *)

\* A row with a purpose, an active rule and a CFOP: status "classified".
Classified(s, i) == rule = "active" /\ [snap |-> s, item |-> i, ruled |-> TRUE] \in rows

\* ready_for_draft
Ready(s) == \A i \in Items : Classified(s, i)

HasRows(s) == \E r \in rows : r.snap = s

\* save_item_classifications: each item gets the active rule that matches it,
\* or none.
Classify(s, I) ==
  /\ "profile" \in setup
  /\ rows' = {r \in rows : r.snap # s \/ r.item \notin I} \cup
             {[snap |-> s, item |-> i, ruled |-> rule = "active"] : i \in I}
  /\ saves' = saves + 1
  /\ saved' = [saved EXCEPT ![s] = saves + 1]
  /\ UNCHANGED <<setup, rule, snapshots, plans, drafts, age, workers>>

-----------------------------------------------------------------------------
(* Document plans                                                          *)

CanPlan(s) == Ready(s)

\* Planted bug: the version of the latest plan is used again.
LatestVersionOf(s) == Max({0} \cup {plans[p].version : p \in {q \in DOMAIN plans : plans[q].snap = s}})

NextPlan(s) == 1 + Max({0} \cup {plans[p].version : p \in {q \in DOMAIN plans : plans[q].snap = s}})

\* Planted bug: only the latest of the planned plans is superseded.
SupersededLatest(P) ==
  [p \in DOMAIN plans |->
     IF p \in P /\ \A q \in P : q <= p
     THEN [plans[p] EXCEPT !.status = "superseded"] ELSE plans[p]]

\* Every plan of the process that was found planned, whatever its snapshot.
Superseded(P) ==
  [p \in DOMAIN plans |->
     IF p \in P THEN [plans[p] EXCEPT !.status = "superseded"] ELSE plans[p]]

\* create_document_plan with the plans P it found planned: the version follows
\* the latest one of the snapshot when the row is written.  (Two requests that
\* pick the same version violate the unique constraint, and one of them aborts.)
WritePlan(s, P, t) ==
  /\ Len(plans) < MaxPlans
  /\ plans' = Append(Superseded(P),
                     [snap |-> s, version |-> NextPlan(s), at |-> t,
                      status |-> "planned", documents |-> ExportersOf(s)])
  /\ UNCHANGED <<setup, rule, snapshots, rows, saves, saved, drafts, age>>

AllPlanned == {p \in DOMAIN plans : plans[p].status = "planned"}

\* The request reads the classifications and the planned plans ...
ReadPlan(w, s) ==
  /\ pc[w] = "idle" /\ CanPlan(s)
  /\ pc' = [pc EXCEPT ![w] = "planning"]
  /\ read' = [read EXCEPT ![w] = [NoRead EXCEPT !.snap = s, !.plans = AllPlanned,
                                                !.at = saves]]
  /\ UNCHANGED <<setup, rule, tables>>

Close(w) == /\ pc' = [pc EXCEPT ![w] = "idle"]
            /\ read' = [read EXCEPT ![w] = NoRead]

\* ... and writes later; created_at is taken in between.
CommitPlan(w) ==
  /\ pc[w] = "planning"
  /\ \E t \in read[w].at..saves : WritePlan(read[w].snap, read[w].plans, t)
  /\ Close(w)

-----------------------------------------------------------------------------
(* Drafts                                                                  *)

Fresh(s, p, x, g, t) ==
  [snap |-> s, plan |-> p, exporter |-> x, grade |-> g, key |-> FALSE,
   xml |-> "none", fits |-> FALSE, stale |-> FALSE, at |-> t, removed |-> FALSE]

\* updated_at of the drafts 1..n once those in X are updated, new ones among them,
\* in the order of `place'; the others keep theirs.
Aged(X, place, n) ==
  [d \in 1..n |->
     IF d \in X THEN Cardinality({e \in X : place[e] > place[d]})
     ELSE Cardinality(X) + Cardinality({e \in DOMAIN age \ X : age[e] < age[d]})]

\* One after the other, as their rows are numbered.
Numbered(X) == [d \in X |-> d]

InOrder(X) ==
  [k \in 1..Cardinality(X) |-> CHOOSE x \in X : Cardinality({y \in X : y < x}) = k - 1]

\* create_nfe_draft_from_duimp for each document of plan p in X, one after the
\* other, with data of grade g.  (An edit gives one of them another grade.)
WriteChildren(p, X, g, t) ==
  LET n == Len(drafts) + Cardinality(X)
      new == [k \in 1..Cardinality(X) |->
                Fresh(plans[p].snap, p, InOrder(X)[k], g, t)]
  IN /\ n <= MaxDrafts
     /\ drafts' = drafts \o new
     /\ age' = Aged(Len(drafts)+1..n, Numbered(Len(drafts)+1..n), n)
     /\ UNCHANGED <<setup, rule, snapshots, rows, saves, saved, plans>>

\* generate_child_drafts: a document with an active draft keeps it; the others
\* need the profile of the importer and the classification of all items.
CanGenerate(s) ==
  \E p \in ActivePlan(s) : Missing(p) # {} => "profile" \in setup /\ Ready(s)

ReadChildren(w, s) ==
  /\ pc[w] = "idle" /\ CanGenerate(s)
  /\ pc' = [pc EXCEPT ![w] = "drafting"]
  /\ \E p \in ActivePlan(s) :
       read' = [read EXCEPT ![w] = [snap |-> s, plans |-> {p},
                                    missing |-> Missing(p), at |-> saves]]
  /\ UNCHANGED <<setup, rule, tables>>

CommitChildren(w) ==
  /\ pc[w] = "drafting"
  /\ \E p \in read[w].plans, t \in read[w].at..saves, g \in Grades :
       WriteChildren(p, read[w].missing, g, t)
  /\ Close(w)

\* A plan or draft request that fails is rolled back.
Abort(w) == /\ pc[w] # "idle"
            /\ Close(w)
            /\ UNCHANGED <<setup, rule, tables>>

\* create_nfe_draft_from_duimp without plan: one exporter only.  Items without
\* any classification are left to the tax configuration of the request.
CanDraft(s) == /\ "profile" \in setup
               /\ Cardinality(ExportersOf(s)) = 1
               /\ HasRows(s) => Ready(s)

CreateDraft(s, g) ==
  /\ CanDraft(s)
  /\ Len(drafts) < MaxDrafts
  /\ \E x \in ExportersOf(s) :
       drafts' = Append(drafts, Fresh(s, 0, x, g, saves))
  /\ age' = Aged({Len(drafts) + 1}, Numbered({Len(drafts) + 1}), Len(drafts) + 1)
  /\ UNCHANGED <<setup, rule, snapshots, rows, saves, saved, plans, workers>>

Active(d) == d \in DOMAIN drafts /\ ~drafts[d].removed

Editable(d) == Active(d) /\ drafts[d].xml # "signed"

Update(d, row) ==
  /\ drafts' = [drafts EXCEPT ![d] = row]
  /\ age' = Aged({d}, Numbered({d}), Len(drafts))
  /\ UNCHANGED <<rule, snapshots, rows, saves, saved, plans, workers>>

\* The latest XML is older than the draft from now on.
Stale(d) == [drafts[d] EXCEPT !.stale = @ \/ drafts[d].xml # "none"]

\* update_draft_metadata, update_draft_item, adjust_draft_item_tax
Edit(d, g) == /\ Editable(d) /\ Update(d, [Stale(d) EXCEPT !.grade = g])
              /\ UNCHANGED setup

\* soft_delete_draft
RemoveDraft(d) == /\ Editable(d) /\ Update(d, [drafts[d] EXCEPT !.removed = TRUE])
                  /\ UNCHANGED setup

\* reserve_next_number for the drafts of X, of which those of Y get a number: any
\* number may be the last one, and the drafts that get none are refused.
Reserve(X, Y) ==
  /\ Y # {} => "number" \in setup
  /\ setup' \in {setup, setup \ {"number"}}
  /\ Y = {} => setup' = setup
  /\ Y # X => "number" \notin setup'

\* generate_access_key_for_draft of a draft that has no number yet.
CanKey(d) == /\ Editable(d) /\ drafts[d].grade # "invalid"
             /\ "number" \in setup

GenerateKey(d) == /\ CanKey(d) /\ ~drafts[d].key
                  /\ Update(d, [Stale(d) EXCEPT !.key = TRUE])
                  /\ Reserve({d}, {d})

-----------------------------------------------------------------------------
(* XML and signature                                                       *)

\* generate_unsigned_xml takes a key when the draft has none.
CanXml(d) == /\ Editable(d) /\ drafts[d].grade # "invalid"
             /\ drafts[d].key \/ "number" \in setup

Generated(d) == [d EXCEPT !.key = TRUE, !.xml = "unknown", !.stale = FALSE,
                          !.fits = d.grade \in {"fit", "blocked"}]

\* The drafts of X that have no number.
Unnumbered(X) == {d \in X : ~drafts[d].key}

GenerateXml(d) == /\ CanXml(d) /\ Update(d, Generated(drafts[d]))
                  /\ Reserve(Unnumbered({d}), Unnumbered({d}))

\* validate_xml_version of the latest version; the draft is not updated.
Validated(d) == [d EXCEPT !.xml = IF d.fits THEN "valid" ELSE "invalid"]

CanValidate(d) == Active(d) /\ drafts[d].xml \in {"unknown", "valid", "invalid"}

ValidateXml(d) ==
  /\ CanValidate(d)
  /\ drafts' = [drafts EXCEPT ![d] = Validated(@)]
  /\ UNCHANGED <<setup, rule, snapshots, rows, saves, saved, plans, age, workers>>

\* sign_xml_version, when the certificate and the vault do their part.
CanSign(d) == /\ Active(d) /\ drafts[d].xml = "valid" /\ ~drafts[d].stale
              /\ drafts[d].grade # "blocked"
              /\ "certificate" \in setup

SignXml(d) == /\ CanSign(d) /\ Update(d, [drafts[d] EXCEPT !.xml = "signed"])
              /\ UNCHANGED setup

\* xml_is_current
Current(d) == d.xml # "none" /\ ~d.stale

\* One child of the batch, which has a number or gets one when `numbered': signed,
\* validated again, generated and validated, or refused - by then validate_draft
\* may have updated it.
Batched(d, numbered) ==
  IF d.xml = "signed" THEN d
  ELSE IF Current(d) THEN Validated(d)
  ELSE IF d.grade = "invalid" THEN [d EXCEPT !.stale = @ \/ (d.key /\ d.xml # "none")]
  ELSE IF numbered THEN Validated(Generated(d))
  ELSE d

\* A child that was generated, or refused by a validation of its draft.
Touched(d, numbered) == /\ d.xml # "signed" /\ ~Current(d)
                        /\ numbered \/ d.grade = "invalid"

\* The children of X that ask for a number: an invalid one is refused before.
Asking(X) == {d \in Unnumbered(X) : drafts[d].grade # "invalid"}

\* generate_and_validate_child_xmls: the children in the order of their documents,
\* those of Y with a number from the sequence, as far as it goes; what one of them
\* lacks does not stop the others.
GenerateChildXmls(s) ==
  \E p \in ActivePlan(s) : \E Y \in SUBSET Asking(Children(p)) :
    LET numbered == [d \in DOMAIN drafts |-> drafts[d].key \/ d \in Y]
    IN /\ \A d \in Y, e \in Asking(Children(p)) :
             drafts[e].exporter < drafts[d].exporter => e \in Y
       /\ Reserve(Asking(Children(p)), Y)
       /\ drafts' = [d \in DOMAIN drafts |->
                       IF d \in Children(p) THEN Batched(drafts[d], numbered[d])
                                            ELSE drafts[d]]
       /\ age' = Aged({d \in Children(p) : Touched(drafts[d], numbered[d])},
                      [d \in DOMAIN drafts |-> drafts[d].exporter], Len(drafts))
       /\ UNCHANGED <<rule, snapshots, rows, saves, saved, plans, workers>>

-----------------------------------------------------------------------------
(* get_nfe_workflow_state                                                  *)

\* The draft updated last, as a set.
LatestDraft ==
  {d \in DOMAIN drafts :
     /\ ~drafts[d].removed
     /\ \A e \in DOMAIN drafts : drafts[e].removed \/ age[d] <= age[e]}

LatestPlan == IF Newest = 0 THEN {} ELSE ActivePlan(Newest)

\* classification_newer_than_draft, classification_newer_than_plan
DraftOutdated == \E d \in LatestDraft : saved[Newest] > drafts[d].at
PlanOutdated  == \E p \in LatestPlan  : saved[Newest] > plans[p].at

\* Planted bug: a classification is required only before the first draft.
ClassificationRequiredOnce == LatestDraft = {} /\ ~Ready(Newest)

ClassificationRequired == (LatestDraft = {} \/ HasRows(Newest)) /\ ~Ready(Newest)

\* Planted bug: the plan is not compared with the classification.
PlanRequiredByDraft ==
  /\ Ready(Newest)
  /\ LatestDraft = {} \/ DraftOutdated

PlanRequired == /\ Ready(Newest)
                /\ LatestPlan = {} \/ PlanOutdated
                /\ LatestDraft = {} \/ DraftOutdated

\* is_multi_document_plan: the children of the plan, with nothing in it otherwise.
Multi == {p \in LatestPlan : Cardinality(plans[p].documents) > 1}

MultiChildren == UNION {Children(p) : p \in Multi}

\* The steps for a plan of several documents.
ChildAction ==
  IF \E p \in Multi : Missing(p) # {} THEN "create_child_drafts"
  ELSE IF \E d \in MultiChildren : drafts[d].grade = "invalid" THEN "correct_child_drafts"
  ELSE IF "sequence" \notin setup THEN "configure_number_sequence"
  ELSE IF \E d \in MultiChildren : drafts[d].xml = "none" THEN "generate_child_xmls"
  ELSE IF \E d \in MultiChildren : drafts[d].xml \in {"unknown", "invalid"} THEN "validate_child_xmls"
  ELSE IF \E d \in MultiChildren : drafts[d].xml # "signed"
       THEN IF "certificate" \in setup THEN "sign_child_xmls" ELSE "configure_certificate"
  ELSE "completed"

\* The steps for one draft.
DraftAction(d) ==
  IF "sequence" \notin setup THEN "configure_number_sequence"
  ELSE IF d.grade = "invalid" THEN "correct_draft"
  ELSE IF ~d.key THEN "generate_access_key"
  ELSE IF d.xml = "none" \/ (d.stale /\ d.xml # "signed") THEN "generate_xml"
  ELSE IF d.xml \in {"unknown", "invalid"} THEN "validate_xml"
  ELSE IF d.xml # "signed"
       THEN IF "certificate" \in setup THEN "sign_xml" ELSE "configure_certificate"
  ELSE "completed"

next_action ==
  IF "profile" \notin setup THEN "configure_fiscal_profile"
  ELSE IF Newest = 0
       THEN IF "sequence" \notin setup THEN "configure_number_sequence"
            ELSE IF "connection" \notin setup THEN "configure_provider_connection"
            ELSE "fetch_duimp"
  ELSE IF ~snapshots[Newest].complete THEN "resolve_context"
  ELSE IF ClassificationRequired THEN "classify_items"
  ELSE IF PlanRequired THEN "create_document_plan"
  ELSE IF Multi # {} THEN ChildAction
  ELSE IF LatestDraft = {} \/ DraftOutdated THEN "create_draft"
  ELSE CHOOSE a \in {DraftAction(drafts[d]) : d \in LatestDraft} : TRUE

-----------------------------------------------------------------------------
(* The operator and everybody else                                         *)

Corrected(d) == Edit(d, "fit")

\* The operator does what the ladder says, with data that will do.  A sequence
\* that gives no number is configured, as the refusal of the key asks.  An XML the
\* XSD rejects is corrected in its draft; a child whose XML the signature calls
\* outdated is generated again, as the message asks, and a treatment the signature
\* refuses is adjusted.
Follow == \E advice \in {next_action} :
  /\ \/ /\ advice = "configure_fiscal_profile" /\ SaveProfile
     \/ /\ advice = "configure_number_sequence" /\ Configure("number")
     \/ /\ advice \in {"generate_access_key", "generate_child_xmls"}
        /\ "number" \notin setup /\ Configure("number")
     \/ /\ advice = "configure_provider_connection" /\ Configure("connection")
     \/ /\ advice = "configure_certificate" /\ Configure("certificate")
     \/ /\ advice = "fetch_duimp" /\ Fetch
     \/ /\ advice = "resolve_context" /\ ResolveContext(Newest)
     \/ /\ advice = "classify_items"
        /\ IF rule = "active" THEN Classify(Newest, Items) ELSE ActivateRule
     \/ /\ advice = "create_document_plan" /\ CanPlan(Newest)
        /\ WritePlan(Newest, AllPlanned, saves) /\ UNCHANGED workers
     \/ /\ advice = "create_child_drafts" /\ CanGenerate(Newest)
        /\ \E p \in Multi : WriteChildren(p, Missing(p), "fit", saves)
        /\ UNCHANGED workers
     \/ /\ advice = "correct_child_drafts"
        /\ \E d \in MultiChildren : drafts[d].grade = "invalid" /\ Corrected(d)
     \/ /\ advice \in {"generate_child_xmls", "validate_child_xmls"}
        /\ GenerateChildXmls(Newest)
     \/ /\ advice = "validate_child_xmls"
        /\ \E d \in MultiChildren : drafts[d].xml = "invalid" /\ ~drafts[d].stale /\ Corrected(d)
     \/ /\ advice = "sign_child_xmls"
        /\ \E d \in MultiChildren : drafts[d].xml = "valid" /\ SignXml(d)
     \/ /\ advice = "sign_child_xmls"
        /\ \E d \in MultiChildren : /\ drafts[d].xml = "valid" /\ drafts[d].stale
                                    /\ drafts[d].grade # "invalid" /\ GenerateXml(d)
     \/ /\ advice = "sign_child_xmls"
        /\ \E d \in MultiChildren : drafts[d].grade = "blocked" /\ Corrected(d)
     \/ /\ advice = "create_draft" /\ CreateDraft(Newest, "fit")
     \/ \E d \in LatestDraft :
          \/ advice = "correct_draft" /\ Corrected(d)
          \/ advice = "generate_access_key" /\ GenerateKey(d)
          \/ advice = "generate_xml" /\ GenerateXml(d)
          \/ advice = "validate_xml" /\ drafts[d].xml = "unknown" /\ ValidateXml(d)
          \/ advice = "validate_xml" /\ drafts[d].xml = "invalid" /\ Corrected(d)
          \/ advice = "sign_xml" /\ drafts[d].grade # "blocked" /\ SignXml(d)
          \/ advice = "sign_xml" /\ drafts[d].grade = "blocked" /\ Corrected(d)
  /\ UNCHANGED requests

\* Any other request that changes something, in any state.
Request ==
  /\ requests > 0
  /\ requests' = requests - 1
  /\ \/ \E c \in Setup : Configure(c) \/ Deactivate(c)
     \/ ActivateRule \/ DeactivateRule
     \/ AddSnapshot
     \/ \E s \in DOMAIN snapshots :
          \/ ResolveContext(s)
          \/ \E I \in (SUBSET Items) \ {{}} : Classify(s, I)
          \/ \E w \in Workers : ReadPlan(w, s) \/ ReadChildren(w, s)
          \/ \E g \in Grades : CreateDraft(s, g)
          \/ GenerateChildXmls(s)
     \/ \E d \in DOMAIN drafts :
          \/ \E g \in Grades : Edit(d, g)
          \/ RemoveDraft(d) \/ GenerateKey(d) \/ GenerateXml(d) \/ ValidateXml(d) \/ SignXml(d)
  /\ <<setup, rule, tables, workers>>' # <<setup, rule, tables, workers>>

Finish(w) == /\ CommitPlan(w) \/ CommitChildren(w) \/ Abort(w)
             /\ UNCHANGED requests

Next == Follow \/ Request \/ \E w \in Workers : Finish(w)

\* Work goes on while there is any: the operator follows the ladder or sends
\* another request, and a request that was started ends (gunicorn's timeout).
Fairness == WF_vars(Next)

Spec == Init /\ [][Next]_vars /\ Fairness

-----------------------------------------------------------------------------
(* Properties                                                              *)

\* Every row holds a value of its type, and `age' orders the drafts.
TypeOK ==
  /\ setup \subseteq Setup /\ rule \in {"absent", "active", "inactive"}
  /\ snapshots \in Seq(Snapshot) /\ rows \subseteq Row
  /\ saves \in Nat /\ saved \in [1..MaxSnapshots -> 0..saves]
  /\ plans \in Seq(Plan) /\ drafts \in Seq(Draft)
  /\ age \in [DOMAIN drafts -> Nat]
  /\ \A d, e \in DOMAIN drafts : age[d] = age[e] => d = e
  /\ pc \in [Workers -> {"idle", "planning", "drafting"}]
  /\ \A w \in Workers : /\ read[w].plans \subseteq DOMAIN plans
                        /\ pc[w] # "idle" => read[w].snap \in DOMAIN snapshots
  /\ requests \in 0..MaxRequests

\* Two plan requests that overlap may leave two plans of one snapshot planned,
\* but an older plan never outlives a newer one: whenever a snapshot has a plan
\* to work with, it is the last one made for it, so children are never drawn
\* from items and costs that a later plan replaced.
NewestPlanIsActive ==
  \A p \in DOMAIN plans :
    plans[p].status = "planned" =>
      \E q \in ActivePlan(plans[p].snap) :
        \A r \in DOMAIN plans : plans[r].snap = plans[p].snap =>
                                plans[r].version <= plans[q].version

\* What get_nfe_workflow_state names as the next action is accepted by the
\* service method behind it.  Three exceptions: the key, or the XML of a child that
\* has no key, is refused when the sequence that the ladder lists gives no number;
\* and the signature is refused when a child was edited after its XML was approved
\* or when a tax treatment waits for a confirmation.
AdviceIsAccepted == \A advice \in {next_action} :
  /\ advice = "create_document_plan" => CanPlan(Newest)
  /\ advice = "create_child_drafts" => CanGenerate(Newest)
  /\ advice = "create_draft" => CanDraft(Newest)
  /\ advice = "correct_child_drafts" =>
       \E d \in MultiChildren : drafts[d].xml # "signed" /\ drafts[d].grade = "invalid"
  /\ advice = "generate_child_xmls" =>
       \A d \in MultiChildren : \/ CanXml(d) \/ drafts[d].xml = "signed"
                                \/ ~drafts[d].key /\ "number" \notin setup
  /\ advice = "sign_child_xmls" =>
       \A d \in MultiChildren :
         CanSign(d) \/ drafts[d].xml = "signed" \/ drafts[d].stale \/ drafts[d].grade = "blocked"
  /\ \A d \in LatestDraft :
       /\ advice = "correct_draft" => Editable(d)
       /\ advice = "generate_access_key" => CanKey(d) \/ "number" \notin setup
       /\ advice = "generate_xml" => CanXml(d)
       /\ advice = "validate_xml" => CanValidate(d)
       /\ advice = "sign_xml" => CanSign(d) \/ drafts[d].grade = "blocked"

\* An operator who keeps following the ladder, and at the three exceptions above
\* what the refusal says, finishes the process: the ladder never turns in a
\* circle and names no other step that changes nothing, whatever other requests
\* did before they stopped.
Completion == <>[](next_action = "completed")
=============================================================================
