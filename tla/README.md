# Triagem Aduaneira API: TLA+ models and proofs

The repository is a Flask API on PostgreSQL for a customs broker. Its core turns a
DUIMP (the Brazilian import declaration) into signed NF-e XML: it fetches the
DUIMP, classifies its items, plans the documents, drafts each NF-e, gives it a
number and an access key, generates the XML, checks it against the XSD and signs
it with the importer's A1 certificate. Around that core it keeps "scopes" (the
service agreements of a client), an audit trail, and users.

This directory models the parts in which requests that run at the same time, that
fail half-way or that come in an unusual order decide whether the result is
correct. Each module names the service methods it translates; `PROJECT.json` maps
every definition to its source lines.

## 1. How the program runs

*Processes.* `src/Dockerfile` starts gunicorn with six synchronous workers and
`--timeout 600`. A worker serves one request at a time; gunicorn kills a worker that
exceeds the timeout. There is no background job, queue or scheduler: everything
that changes state is an HTTP request (or a command line loader).

*Transactions.* A request is one database transaction at PostgreSQL's default
isolation, READ COMMITTED. The route commits at the end, or rolls back when the
service raises. Four facts of this combination matter to every model:

1. A query sees what is committed when the query runs. Two queries of a request may
   see two states.
2. SQLAlchemy's identity map keeps an object as it was first loaded. Selecting
   its row again, also `with_for_update()` (no call says `populate_existing`), waits
   for the lock and checks that the row still matches, but does not refresh the
   attributes.
3. A flush writes the columns that differ from what was loaded, and no others.
   A JSON document (`fiscal_payload`) is one column.
4. A row that was updated or selected FOR UPDATE stays locked until the transaction
   ends. A rollback, or the death of the worker, releases the lock and undoes
   all its writes. What the request did outside of the database (secrets in the
   vault) is not undone.

So a request is modelled as a few atomic steps: it loads rows (`seen`), decides and
plans its writes, and commits. `Abort` may end it at any point. Where a request
locks a row, the lock is a variable that holds its worker's name.

## 2. Inventory

The state named here is the tables and columns a component owns. Paths are relative
to `src/app/`. "Hard" is what is difficult to test.

| Component | State and operations | Interacts with | Hard; what makes it correct |
|---|---|---|---|
| NF-e number sequence (`services/nfe_number_service.py`) | `nfe_number_sequences`: current, last, initial, max, status. Reserve; upsert by an administrator | called inside the transaction that generates an access key | Concurrent reservations, regressions by the administrator, the creation race, rollback. No number twice; the row accounts for every number in use |
| NF-e draft, XML versions, signature (`services/import_process.py` 3250-4313) | `nfe_drafts`, `nfe_draft_items`, `nfe_xml_versions`, `nfe_issuances`, `nfe_issuance_attempts`. Edit metadata and items, validate, remove, generate key, generate XML, validate XML, sign | sequence, certificate registry, builder, signer, XSD validator, process status | Unlocked loads, retries of failed signatures, failures that commit. One signature; what is signed is what was approved and what the draft says; the records of a signature agree |
| Access key (`services/nfe_access_key_service.py`) | none: 43 digits, check digit modulo 11, random cNF | draft | Key, number and payload agree |
| Certificate registry and vault (`services/fiscal_certificate_registry.py`, `fiscal_certificate.py`) | `fiscal_certificates`; secrets in GCP Secret Manager. Register, upload, validate, activate, deactivate, find the active one | signature | Vault and database are not one transaction; validation is unlocked. At most one active; rows refer to complete secrets |
| Import process and DUIMP fetch (`import_process.py` 459-603, 1509-1603) | `import_processes`, `duimp_snapshots`, `external_api_request_logs`. Create, update, fetch, manual snapshot | Portal Único client | A failed fetch records itself and is rolled back |
| Workflow ladder (796-1118) | none: `next_action` derived from rows | all of the above | The action it proposes is one the service accepts |
| Tax rules (1207-1506) | `client_import_tax_rules`. Create, update, match, score, conflicts | classification, drafts | Two administrators create rules that are ambiguous together |
| Item classification (1929-2191) | `nfe_item_classifications` | tax rules, plan | Rules that change after a classification |
| Document plan and children (2236-2916) | `nfe_document_plans`, `nfe_planned_documents` and their items. Plan, draft the children, generate and validate their XML in a batch | drafts, sequence | Versions and superseding under concurrency; one child fails, the others commit; cost allocation adds up to the cent |
| Tax calculator, NF-e context (`import_tax_calculator.py`, `nfe_context.py`) | none | drafts | Decimal arithmetic |
| Portal Único client (`integrations/portal_unico/`) | session token, caches of one request | fetch | Paging, expired sessions |
| Provider connections (1122) | `external_provider_connections` | fetch | NULL in a unique constraint |
| XML builder, signer, XSD validator | none | draft | Pure functions; only their outcome matters to the protocol |
| Issuance state machine (`nfe_issuance_state.py`) | none: a table of transitions | (only `request_hash` is called) | The table is closed and its terminal states are final |
| Scopes (`scope_processor.py`, `scope_lifecycle.py`) | `scopes`, `scope_versions`, `scope_assignments`. Create, edit, publish, deactivate, reactivate, reassign in bulk | audit, clients | One scope per client; a version per publication; an inactive scope never changes |
| Audit and reversal (`audit_service.py`) | `audit_events`, `audit_event_changes` | scopes | Reversal against later changes and against another reversal |
| Authentication (`auth.py`, `routes/auth_routes.py`) | `refresh_tokens`, `users.ativo`. Login, refresh, logout | users | One use per token; revocation in a commit of its own |
| Users and tags (`user_tags.py`) | `users`, `user_tags`, `user_tag_assignments` | all | Last administrator, deactivation |
| Prepostos, clients, profiles, carriers, dashboards, organizations, reference tables, command line tools | their tables | - | CRUD, reports, loaders |

`PROJECT.json` says for each of these which modules model it and what they leave out,
and lists the hazards, each at the line where it bites, with the properties that are
about it.

## 3. The modules

| Module | What it is |
|---|---|
| `FiscalNumbering` | Abstract specification: a commit numbers a set of drafts with distinct numbers, each above all that were ever spent |
| `NumberSequence` | `NfeNumberSequenceService` under concurrent transactions, and the number column of the drafts |
| `NumberSequenceProofs` | Its inductive invariant, safety theorems and the refinement of `FiscalNumbering` |
| `NfeDraft` | One NF-e draft and everything that hangs on it, under concurrent requests |
| `NfeDraftProofs` | Types, one signature, its ledger and its approval for any requests; what is signed is current, keyed and final as long as no request writes over the change of another |
| `FiscalCertificates` | The certificates of one client and environment, and the vault |
| `FiscalCertificatesProofs` | Type correctness, at most one active, uploads that are unique and complete, replacement |
| `ImportProcess` | One import process from the DUIMP to the signed NF-es: snapshots, classification, plans, drafts, batch of XMLs, and the ladder that tells the operator what comes next |
| `ImportProcessProofs` | Types, the last plan is the one in use, the ladder names steps that are accepted |
| `TaxRules` | The import tax rules of a client: the choice of a rule, the diagnostics, and the check that keeps rules apart, under concurrent administrators |
| `TaxRulesProofs` | Type correctness, every conflict is shown, conflicts come from races |
| `NfeItems` | The values of the items of the drafts of one DUIMP: division of the costs, ICMS, manual ICMS, recalculation |
| `NfeItemsProofs` | Sums, divisions and rounding; types, costs to the cent and once, a tax inside its base, a manual ICMS that stays |
| `Scopes` | Scopes with their versions, assignments, lifecycle, bulk operations, audit events and the reversal of an event |
| `ScopesProofs` | Types and every safety property of `Scopes` but the one the code breaks |
| `OrderLemmas` | A set of naturals with a bound has a maximum, and each element a place among the others: for version and number choices, sorting and division |
| `MC*` | The modules TLC runs: each extends its specification with symmetry sets and the values of its constants |

The operators whose comment begins with "Planted bug" or "The mistake of" belong to no
specification. Each is a definition of the module with one plausible mistake; substituted for the
definition that stands next to it, it makes TLC report the property that the
entry in `PROJECT.json` "mutants" names. They show that the properties are about the
code and not about the shape of the model.

### NumberSequence

`row` is the committed row, `image[w]` the row as the transaction of worker `w` would
write it, `holder` the row lock, `number[d]` the column of draft `d`.

| Action | Code |
|---|---|
| `BeginReserve` | the route loads a draft without a number |
| `Reserve`, `RefuseReserve` | `reserve_next_number`: lock, active, below the maximum |
| `ReserveNext` | further drafts in the same transaction (the batch over child documents) |
| `CommitReserve` | the commit of the route |
| `BeginUpsert`, `Update`, `Create`, `RefuseUpsert` | `create_or_update_nfe_number_sequence` with its regression guard |
| `CommitUpdate`, `CommitCreate` | commit, or `IntegrityError` of the second creator |
| `Abort` | rollback or death of the worker |

### NfeDraft

An instant of `clock` is a call of `utcnow()`, and `Second` is the number of instants
within one second: `generate_access_key_for_draft` cuts `updated_at` to the second.
A payload is abstracted to what the properties tell apart: the key copied into its
`document` section, the revision of the sections that the operator edits (`meta`), the
item rows copied into it (`items`, a revision and a grade that says what validation and
`ensure_authorization_ready` make of them) and the mark of an archived number.

`Load` is the route's query (404 for a removed draft). `Stage*` is the service
method: it decides on what was loaded (`seen`), queries other rows, and plans the
writes. `Commit` flushes them. `StageXml` locks the draft row, since the flush in
`validate_draft` precedes the choice of the version number; the other edits take the
row at their commit. Signing has three outcomes after `Load`: refused, replayed
(`SignReplay`), or started (`SignStart`), which keeps draft and version locked until
`SignSucceeds` or `SignFails`; a failed signature commits its attempt. The
registry appears as one variable, `activeCert`, which an administrator may change at
any moment (`FiscalCertificates` justifies that it is at most one certificate).

`ReadItems` is a step of its own because a generation that needs no key reads the item
rows before it waits for the draft row. The rows of all items of a draft are one revision.

Locks are taken in the order sequence row, draft row, version row, process row; the model
takes sequence and draft in the one step of `StageKey` or `StageXml`. The exception are
the item rows: an edit of the additional costs writes the draft before its items, an
edit of an item the item before the draft, so that the two may wait for each other.
PostgreSQL then ends one with an error. That is an `Abort`, and the model has no lock for
item rows.

### FiscalCertificates

`lock` is the row of the client, which `upload` and `activate` select FOR UPDATE;
`rowLock` the rows of certificates. `seen` and `next` are the row as it was loaded and
as it will be written. The calls to the vault lie between the two steps of each request.
`StoreSecret` happens once per secret, `StoreFails` at any point of it, with a
compensation that may itself fail.

### ImportProcess

`snapshots`, `rows` (classifications), `plans` and `drafts` are the tables of one
process; `saves` and the fields `at` stand for the timestamps that the ladder
compares; `age` is the order of `updated_at`, as the number of drafts that were updated after
each. `setup` is what the importer has and `rule` the state of the one tax
rule that fits the items. `setup` holds the profile, the connection, the certificate, and two
flags for the number sequence, because the code has two tests for it: the ladder looks for any
row of the series, whatever its status, padded with zeros or not (`"sequence"`), while
`reserve_next_number` wants an active row of exactly the draft's series below its maximum (`"number"`).
`Reserve` is that service: the number it gives may be the last one, and in a batch the drafts after it
get none. `Configure("number")` is the administrator who repairs the sequence.

| Action | Code |
|---|---|
| `AddSnapshot`, `Fetch`, `ResolveContext` | `fetch_duimp_for_process` once the gateway answered, `create_manual_duimp_snapshot`, `get_nfe_context` |
| `Classify` | `save_item_classifications` |
| `ReadPlan`, `CommitPlan` | `create_document_plan`: reads without a lock, writes later |
| `ReadChildren`, `CommitChildren` | `generate_child_drafts` |
| `CreateDraft`, `Edit`, `RemoveDraft` | the draft of a DUIMP with one exporter, the editor, the soft deletion |
| `GenerateKey`, `GenerateXml`, `ValidateXml`, `SignXml` | the same requests as in `NfeDraft`, here in one step each and seen from outside |
| `GenerateChildXmls` | `generate_and_validate_child_xmls`, each child with its own outcome |
| `next_action` | `get_nfe_workflow_state`, every branch of the ladder |

`Follow` is an operator who does what `next_action` says; `Request` is any other
request in any state, of which there are `MaxRequests`.

### TaxRules

`rule` is the table, `req[w]` what the request of worker `w` holds. A rule is its scope
(issuer's state and purpose), modality, regime, NCM or prefix, priority, period and
flag. `Matches`, `Score` and `Ambiguous` are `_tax_rule_mismatch_reasons`, the score and
`_tax_rules_are_ambiguous`; `Best` is what `match_import_tax_rule` is left with and
`Reported` what the diagnostics show. A creation is `CheckNew` and `InsertNew`, an update
`Load`, `Flush` (which takes the row lock and checks the merged rule against the others) and
`CommitUpdate`, which writes only the fields that differ from what was loaded. `late` and
`raced` are history: which requests had another one commit during them, and which rules
such a request wrote last.

### NfeItems

Money is in cents. `plan` is the persisted division of the costs, `costs[x]` the
additional costs of the draft of exporter `x`, `row[i]` the row of item `i` (product
value, other charges, its shares, ICMS, manual adjustment), `fresh` the exporters whose
payload still holds customs values and weights, which the rows do not have and the first
refresh of the payload loses. `Split` is `allocate` (residue to the largest fractions),
`PlanSplit` is `_allocate_shared_cost_to_items` (residue to the largest item), `Icms` the
"por dentro" calculation for each CST, `Redivided` is `_recalculate_draft_rows`. `Config`
holds what the schema of a rule and `calculate` let through, `HalfUp` rounds as ROUND_HALF_UP
does, away from zero: an edit may put the charges of an item below the shares they hold,
and the next division makes charges, and with them an ICMS, that are negative. The
row keeps of the payload what the code reads back: the shares of `cost_allocation`, which a
division takes out of the charges, and the `afrmm_value` that is totalled. The
actions are the creation of a plan and of drafts with or without it, the edits of an item
(`UpdateItem`, `ReplacePayload`, `AdjustIcms`, `ReapplyRule`), of the costs
(`UpdateCosts`), of a rule (`ChangeRule`), and every other operation that ends in
`_refresh_draft_payload_from_items` (`Refresh`). `ReplacePayload` stores what the caller sends, as
`update_draft_item` does: a payload without shares, one with the shares of an earlier division (a
client that sends back what it once read), or one with nothing but an `afrmm_value`. THC and the remaining costs are
divided exactly as the Siscomex fee and are left out.

### Scopes

`scopes[i]` is the row, `links[i]` its assignments and services, `versions` the published
versions, `events` the audit trail with the states before and after, `lock` the row
locks. A write on one scope selects it FOR UPDATE with `populate_existing`, so its plan
and its lock are one step (`PlanOne`) and its commit another. A bulk operation has a
step before: `Snapshots` takes the "before" states without a lock. The object that the
route's loop variable keeps alive still has its old attributes when the bulk update locks
the rows (`Attributes`, `kept`). `Reverse` undoes an event when every scope it
touched still is as the event left it. A draft may name no responsible, no client or
neither, as the default draft of the schema does: `Applied` then empties the column of the
responsible, and leaves the client as it was. `Legacy` starts with a row from before the
relational tables, which `Sync` completes.

## 4. The runs

Sizes are distinct states. No run uses a state constraint; the bounds are guards
or sets named in the modules.

| Run | Instance | Shows |
|---|---|---|
| `number` | 2 workers, 2 drafts, maximum 2; 148 thousand | All properties of the numbering, the refinement of `FiscalNumbering`, and, under fairness, that every request ends |
| `draft_concurrent` | 2 workers, 2 certificates, 2 instants per second, 4 instants; 1 million | What holds of a draft whatever requests overlap: one signature, the ledger of its records, approval before signature, versions that never clash or change |
| `draft_orderly` | 2 workers, 1 certificate, 2 instants per second, 4 instants, every request, under `OrderlySpec`; 1.6 million | What holds of overlapping requests as long as none writes over a change it did not load, and no key is drawn within the second of an XML: finality, currency, consistent keys |
| `draft_final` | 2 workers, the smallest instance that shows it | Finality, which an overlapping request violates (section 6) |
| `cert_safety` | 2 administrators, 3 certificates, 2 fingerprints; 1 million | One active certificate, an upload stored completely and once, no silent replacement |
| `cert_flag` | 2 administrators, 1 certificate | An active row whose status says otherwise (section 6) |
| `process` | 1 worker besides the operator, 2 items, 2 snapshots of one or two exporters, 4 plans, 6 drafts, 2 unasked requests; 207 thousand | The ladder names steps the service accepts, or one of three refusals and ends at `completed`; the newest plan of a snapshot is the one in use |
| `tax_rules` | 2 requests at a time, 4 in all, 3 rules out of 5 candidates, 6 patches; 179 thousand | Every conflict a dated DUIMP meets is in the diagnostics; ambiguous rules come from overlapping requests only |
| `items` | 3 items, 1 or 2 exporters, 2 rules with CST 00, 20, 51 (deferred, or with a rate, a reduced base and `per_item`) or 40, 3 edits, a payload sent without shares or with stale ones; 1.9 million | Costs add up to the cent and count once, a manual ICMS stays, a calculated one is inside its base |
| `items_documented` | the same with 2 edits | The division the guide describes does not survive a refresh of the payload (section 6) |
| `scopes` | 2 workers, 2 scopes, 2 users, 1 client, version 3, 3 events, drafts with a responsible and a client, with a client only or with neither, a legacy row published or archived; 1.4 million | One scope per client, versions without a gap, inactive scopes untouched, reversals that spare later changes |
| `scopes_history` | 2 workers, 1 scope, 4 events | A bulk update whose event tells a state before it that was not (section 6) |

*Why the bounds suffice.* Two workers give every interleaving of two requests; a third
would only add contenders for a lock that one of them holds already. In `number`, two
drafts and a maximum of 2 reach the boundary of the series, batches of two
reservations, a reservation that the second finds refused, and upserts that move every
limit; all 24 combinations of an upsert are tried. In `NfeDraft` every request stamps
at most one instant, so `MaxClock` counts the requests that write: the shortest way to
a signature takes two instants (generate with its key, sign), validation takes none, so
four instants leave two for edits, regenerations, failed attempts or a second signature
at any point of it. `metadata` and `validate` are left out of
`draft_concurrent` because they write the same columns as `item`; `draft_orderly`
has them, and one certificate, on which none of its properties depends. Two certificates make a change of the active one between two attempts
possible. In `FiscalCertificates` three ids allow a certificate to be replaced while a
third is being uploaded, and two fingerprints allow both a duplicate and a distinct one.
In `process` two snapshots and four plans let a plan of one snapshot supersede that of
the other and two plan requests overlap (the operator is the second); two unasked
requests at any two points of a way of some twelve steps are enough to take back what
the ladder had obtained: a removed draft, an edit after the XML, a rule that is switched
off, a new snapshot, a sequence that is deactivated or runs out. In `items` the values leave cents over in every division, one
item lacks a weight in one DUIMP, and three edits allow a change of the costs after an
edit of an item and a manual adjustment, or two changes of the costs; the only charges an
edit gives are none, which leaves those of the item's own below zero; a payload that an
edit sends may hold shares that no division of this instance gives. In `tax_rules` three
rules allow a conflict between the new one and either of the others, four requests a
conflict made, found and repaired. In `scopes` three events are a change, another
change or its absence, and a reversal; two scopes suffice for one client and for a bulk
operation on several rows. Symmetry is over workers, certificates, fingerprints, scopes
and users, which the modules only compare for equality; the runs that check liveness use
none.

*Deadlock.* TLC's check is on for `number` and for the `draft_*` runs. It is off in `cert_*`,
where the certificate ids can run out on failed uploads, in `tax_rules`, `items` and
`scopes*`, where the bounds on requests, edits and events end every behaviour, and in
`process`, which stops when the process is completed and no request is left. Even where
it is on it says little, because a request may abort at any time; that requests do not
wait for ever is what `RequestsEnd` says, and that the operator does not is `Completion`.

*Fairness.* `number` assumes strong fairness of `Progress(w)` for each worker. A request
that has begun is executed by a live worker without further input, and PostgreSQL grants a
row lock to its waiters in the order in which they came, so a step that is possible again
and again is taken. The arrival of requests and `Abort` are not fair. `RequestsEnd` needs
it strong: the row is locked and released by others in between.

`process` assumes `WF_vars(Next)`: something happens as long as anything can. That is the
operator who keeps following the ladder, and gunicorn's timeout, which ends every open
request. The unasked requests are bounded, so that from some point on only
the operator is left; `Completion` then says that the ladder leads to `completed` from wherever
they left the process. It would be false with a ladder that turns in a circle, or that names
a step that changes nothing.

## 5. The proofs

TLAPS checks the following for any set of workers and drafts, any maximum, any set of
certificates and fingerprints, any rules, patches and goods, any items, exporters and
values, any scopes, users and clients, and whatever the bounds on clocks, plans, events and requests.
Assumed are only the named assumptions that the modules declare: maxima and bounds are naturals;
the "nobody" and "none" values are not workers, certificates, fingerprints, clients or users
(`NobodyAssumption`, `NoneAssumption` and their like); rules, patches, items, costs and adjustments
have the fields of their kind (`RuleData`, `Data`); the workers of gunicorn are finitely many
(`WorkersAssumption`: a request that waits has room under the clock's bound only then), and so
are the exporters of a DUIMP (`ProcessAssumption`: the plan has a document for each).

Every invariant was first checked by TLC on the instance of its run, as the whole conjunction
`IInv`. Each step lemma has one lemma per action.

*`NumberSequenceProofs`.* `DistinctNumbers` is not inductive: it says nothing of the
numbers that wait to be committed. `IInv` adds to it and to `TypeOK`:

- `LockInv`: who is between a locked read and the commit holds the row, and nobody else;
- `RowInv`: the row lies within its limits, and a row that was never inserted has spent
  nothing;
- `NumberInv`: no draft's number is above `row.current`;
- `ImageInv`: the image of a lock holder lies at or above the row and within its limits;
- `PendingInv`, `WantedInv`: the numbers that wait are above the row, at most the image's
  current, and distinct; a request begins with one draft.

Theorems: `TypeCorrect`, `NumbersAreDistinct`, `RowAccountsForNumbers`, the action properties
`NeverReissuedHolds` and `NumbersAreSpent`, and `Refinement`: the initial state and each step of
`NumberSequence` is one of `FiscalNumbering` with `high <- row.current`, or a stutter. A
commit of a reservation is a step with the set of pending drafts as `fresh`; an upsert one
with none.

*`NfeDraftProofs`.* Three layers.

- `TypeInv` is `TypeOK` with the bounds it rests on: a request that has yet to stamp an
  instant has room for it (`RoomInv`, on the number of such requests), and no number or version
  is above the clock (`BoundInv`).
- `IInv` adds what an open request may rely on while others commit. `TargetInv`: the version it
  loaded is still in the table with the same content, though perhaps with a verdict. `PlanInv`: a version that
  waits for its commit is later than all others, because its request holds the row lock.
  `SigningInv`: a version that is being signed is approved, unsigned and the latest, for
  the same reason, and nothing is signed yet. `TableInv` has the unique constraint, what a verdict
  means, and `SignatureLedger` in a form without cardinalities.
- `OrderlyInv` is about the behaviours of `OrderlySpec`: any number of requests overlap, on a
  clock with any number of instants to a second, but a request that commits a change finds the draft as it
  loaded it (`NotOvertaken`), and a key is drawn in a later second than every XML there is (`InLaterSecond`). Requests that were
  overtaken are part of these behaviours: they plan, wait and end without a change. Each
  write is later than every stamp on the draft (`Last`), so an overtaken request never finds its draft
  again (`SeenInv`); what is planned from the draft as it is leaves it younger than every version
  (`StagedInv`), so a version that is not older than its draft has its content (`CurrentInv`), which is all that
  `sign_xml_version` compares.

From the second layer: `AtMostOneSignature`, `LedgerCorrect`, `ApprovalComesFirst`, `NoVersionClash`
and the action properties `LatestIsSigned` and `IssuanceNeverRebound`, whatever requests overlap.
From the third, as theorems of `OrderlySpec`: `WhatIsSignedIsCurrent`, `WhatIsSignedCarriesKey`, `KeysAgree` and
`SignatureIsFinal`. Of `Spec` they are false (section 6), and the code guarantees neither of the two conditions: the theorems say
that a write over a change the request did not see, or a key and an XML within one second, is needed to break
them, and that no other overlap, crash, retry or order of requests does.

*`FiscalCertificatesProofs`.* "At most one active" rests on who may turn a row active:
only the holder of the client's lock. `IInv` adds to `TypeOK` that the phases that
lock the client hold it (`ClientInv`), that a request in progress works on a certificate
(`CertInv`), and that a request about to activate a row has locked every other active row
(`SwapInv`), all of which it disables in the same commit. The lemmas about `Flush` add
that a request without the client's lock turns no row active. `UploadsInv` adds, for
`UploadedOnce`, what an upload has stored so far and that the fingerprint it is about to write
is in no row: the client's lock keeps other uploads out between the check and the commit.
Theorems: `TypeCorrect`, `OneIsActive`, `UploadsOnce`, and the action property `ReplacementDisables`.

*`ScopesProofs`.* `IInv` relates each open request to the rows it loaded: what a bulk request
loaded without a lock may be behind its row, but a version that is still the last one is
still what is published (`StaleInv`); a write that publishes takes the next version, or
one that is taken with the same content (`PublicationInv`), and every other write leaves the version alone
(`EditInv`); two open requests write different scopes, because each holds the lock of what
it writes (`ApartInv`). `EventsInv` keeps of each reversible event that its changes begin with
rows that existed, one per scope. Theorems: `RowsTyped`, `VersionsDense`, `OnePerClient` (by the unique
constraint at the commit), `ResponsibleInStep` (of drafts that name a responsible or none: a scope with a client or any relational
row has the assignment of its responsible, and no other), `ReversalIsSafe`, and the action property
`ArchivedFrozen`.

*`TaxRulesProofs`.* `IInv` adds to `TypeOK`:

- `Punctual`: a request during which nobody else committed a rule knows the rules as they
  are: the row it loaded is the committed one, and the conflicts it looked for are still
  absent;
- `RacesOnly`: `ConflictsComeFromRaces` in the form that a commit preserves.

`Invariance` proves it inductive, with one lemma per action. `ConflictsAreShown` needs
no more than the types: two rules that no other beats have one score, patterns that begin
one NCM begin one another, and periods that share a day overlap, so the pair is ambiguous.
A DUIMP without items' NCMs and one with several are among the cases. The theorem is about
dated DUIMPs; section 6 says what happens without a date. `RacesAreTheCause` says that
the check before a write is sufficient unless requests overlap.

*`ImportProcessProofs`.* A plan request supersedes the plans it read, and may commit after others
did. `NewestPlanIsActive` is inductive with two facts: the versions of a snapshot grow with the order in which
its plans were committed, and if any of them is planned its last one is (`Ordered`); and whatever is planned but
was not read by an open plan request was committed after all that the request read (`Later`), so what
it supersedes is a prefix. `AdviceIsAccepted` does not follow from what the ladder looks at alone:
it needs what the rows keep of the requests that wrote them. A plan has the exporters
of its snapshot, and somebody classified that snapshot (`GoodPlan`); an XML was made under the
grade its draft still has, unless it is outdated (`GoodDraft`). A draft of one exporter gets its XML only
after its key, so `generate_xml` needs no number; the key itself, and the XML of a child without one, do, and
that the ladder's test does not find the number is one of the exceptions the property declares.

`TypeOK` is inductive together with `IInv`. What it needs of the requests is `ReadsStand`: the plans that an
open request read are still in the table when it writes, so that its children get a plan and a
snapshot that exist. What it says of `age`, that no two drafts have the same, is what makes the
ladder's latest draft one draft (`OneLatestDraft`); `AgedOrders` shows it for any set of
drafts updated together, in any order of their documents, and `KthElement` that sorted
exporters are exporters. Theorems: `NewestPlanPrevails`, `TypesCorrect`, `LadderIsAccepted`.

*`NfeItemsProofs`.* Three layers.

- *Sums.* `SumOver` is the community modules' fold, a CHOOSE of the function that solves its recursion. `SubsetInduction`
  is induction over the subsets of a finite set in first order (the set of the subsets for which a claim
  holds takes the place of an operator parameter); with it come that a solution exists and is unique
  (`AddsExists`, `AddsAgree`), and that a sum may take any element first (`SumRemove`), is additive and monotone, and counts
  (`SumCounts`).
- *Arithmetic.* `SplitAddsUp`: the shares rounded down leave a residue that is less than the number of
  items (`WholeLeaves`), `Before` ranks the items without gaps or ties (`RankIsBijection`), so as many items as the
  residue has cents get one more (`RankCounts`). `PlanSplitAddsUp` for the division of a plan. `Near` says
  that a rounded quotient is within half of the exact one; two or three such
  roundings make `InsideWhole`, `InsideReduced`, `InsideDeferred`, and from them
  `IcmsInside`: an ICMS calculated on the gross value of any amount, by any rule of
  `Config`, is inside its base.
- *States.* `DraftInv` is inductive: every row is sound for itself (`RowOK`: types, its charges are
  its own and its shares, its ICMS is inside its base), the rows of a document pay its
  costs (`PaidInv`) unless one of them holds a payload that was sent since the last division (`sent`), those of a plan its total (`PlanInv`). The properties speak of drafts and
  items that an edit left alone; `RowOK` carries these exceptions through edits and divisions.

Theorems: `TypesCorrect`, `SharesAddUp`, `ChargesCountOnce`, `TaxIsInside`, and `ManualStays`:
`ManualIsKept` is inductive together with the fact that the row remembers the adjustment that was ordered
(`OrderInv`) and that rows have their fields and belong to a draft (`RowInv`): a division of
the costs, which rewrites every row of a draft, then takes the branch of the manual adjustment.

The proof of `TaxIsInside` failed at first for CST 51, with a reason: a rule may give it a rate and
a reduced base, and then the tax is not inside (section 6). `IcmsIsInside` leaves these rules
out by name, and the run of `items` has one.

*Only model-checked.* `RequestsEnd` and `Completion`: liveness under fairness is out of the prover's
reach, as are facts about ENABLED. The properties of the runs that expect a violation
are false of the code, and so have no proof but that `SignedIsFinal` has one under `OrderlySpec`.

## 6. Where code and documents disagree

| Run | What happens |
|---|---|
| `draft_final` | An edit loads the draft before a signature and commits after it. `_assert_draft_editable` looks at the loaded status, so the signed draft goes back to `ready_for_xml`. `docs/NFE_XML_SIGNATURE.md` says that a signed draft can be neither edited nor regenerated. |
| `cert_flag` | A validation that loaded the row before an activation commits its status after it: the row is active by its flag, disabled or invalid by its status, and `active_for` does not find it. The upload test asserts the two together. |
| `items_documented` | The first refresh of a draft's payload leaves out customs values and weights, so a later change of the costs divides AFRMM and the other costs by product value. `docs/NFE_IMPORT_TESTING.md` says that AFRMM goes by net weight and the others by customs value. |
| `scopes_history` | A bulk update loads the scopes without a lock, and the lock that follows does not refresh the object it kept. A change in between is overwritten, and the event tells a state before it that is not the one before. `docs/AUDIT_HISTORY.md` says that every event keeps the states before and after. |

The models show other behaviours that no document or test contradicts, and that
are therefore not findings.

*Drafts.* `SignedIsCurrent` and `SignedCarriesKey` are checked and proved under `OrderlySpec`,
and both can fail otherwise: `sign_xml_version` compares
the XML's `generated_at` with an `updated_at` that the FOR UPDATE does not refresh, so an
edit in between goes unnoticed and the XML from before the edit is signed; and
a key regenerated in the second in which the XML was generated has an `updated_at` cut to
that second, which is not after `generated_at`, so the XML with the old key is signed and
filed under the new one. A removal with a stale load archives a draft that is signed
meanwhile, or deletes one that took a number; a validation of the unsigned version of a
signed draft moves the process from `xml_signed` back to `xml_validated`; a failed attempt
binds the issuance to the first version and certificate, so that a regenerated version
cannot be signed any more; two key requests on one draft spend two numbers, of which one
stays; overlapping edits lose sections of `fiscal_payload`.

*Process.* The ladder names the signature for a child that was edited after its XML was
approved, and for a tax treatment that waits for a confirmation; the service refuses both.
It names the access key, or the XML of children that have none, when the importer has a sequence that is
inactive, used up or written with other zeros than the series of the drafts: such a row is a sequence for
the ladder, so it never names `configure_number_sequence`, and `reserve_next_number` refuses it every time.
`AdviceIsAccepted` states these three exceptions, and `Follow` does what the refusal asks
for; without the administrator's repair the process would stand at that step for ever. Two requests that generate the children of one plan at the same time leave two drafts
of one document, of which the later one counts. Two plan requests that overlap may leave
two plans `planned`; `NewestPlanIsActive` says that the older one is never the one in use.

*Items.* An edit that replaces the import payload of an item stores what was sent, and leaves the
charges that the old shares are part of. A payload without shares makes the draft irreconcilable until the
next division, which counts the old shares twice; one that was read before a change of the costs brings the
old shares back, and the totals are those of the earlier costs until the next division. With AFRMM
as the only cost, a payload that keeps nothing but `afrmm_value` passes the reconciliation, which looks
at the totals and not at the charges. `CostsAddUp` excepts drafts with such a payload until their next division,
`CostsCountedOnce` items that ever had one. A payload with negative amounts is not modelled. A base
divided over several items of CST 51 closes for the document; recalculating one item
alone breaks that total. For CST 51 with a rate and a reduced base `calculate` grosses the value up with
the rate reduced by both reduction and deferment, writes that base unreduced, and takes the tax of it
with the rate that only the deferment lowers: base less tax is then less than what the item costs.
`docs/NFE_IMPORT_TESTING.md` says of the ICMS only that it is calculated "por dentro"; CST 20, which reduces the
base itself, is.

*Rules.* With an unknown registration date a DUIMP matches rules of every period, so it may
meet a conflict between rules of disjoint periods, which the diagnostics do not show.

*Scopes.* One event may be reversed twice when the scope came back in between to the state the event left.
A draft that no longer names a client leaves the scope with the client it had.

## 7. What is not modelled

- The content of payloads, XML, certificates and DUIMPs: only the outcomes of
  validation, building, signing and parsing, as choices.
- The process from both sides at once: `NfeDraft` knows one draft under concurrency,
  `ImportProcess` all of them with one request at a time on a draft, `NfeItems` their
  values, `NumberSequence` their numbers. The status column of the process is a
  variable of `NfeDraft` as far as a draft's requests write it; its deletion, the log of
  external requests and the document rows' own status are in none.
- Fiscal numbers across series (`"1"` and `"001"` are two sequences and one number
  space), the check digit of the access key, the table of issuance states (the application
  calls only `request_hash`).
- Of the calculator: II, IPI, PIS, COFINS and IBS/CBS, which enter `NfeItems` as the sum
  `due`, and the reconciliation of tax totals. The normalizer and the context of the NF-e
  map data.
- Portal Único's client: paging and sessions end in a snapshot or an error, and an
  error is rolled back by its route.
- Of the scopes: visibility and eligibility of users, templates, exports, and the
  events of users and tags.
- Refresh tokens: their rotation is a query and a flag, and its races are listed among the
  hazards.
- `apply_loaded_metadata` of a signature onto the certificate's row.
- Expiry of certificates by time: it is computed when a certificate is shown or loaded,
  and a vault that refuses an expired certificate is `StoreFails`, `Invalid` or
  `SignFails`.
- Multi-tenancy: a model is about the rows of one organization, as the queries are.
- Authorization and input schemas, beyond what they let through.
- CRUD, dashboards and loaders, which have no protocol.

## 8. Plan

Done: the models of numbering, drafts, certificates, the process with plans and ladder, rules,
items and scopes; the proofs of every invariant and action property that their runs check, and of
the refinement of `FiscalNumbering`. What is left:

1. Abstract specifications: a signed document as a write-once register, which `NfeDraft`
   implements under `OrderlySpec`, and a document with versions of which the last one is in use, for
   plans and for scopes; each with its refinement proved from the invariants there are.
2. Proofs: that a step of the ladder changes what the ladder looks at, the safety half of `Completion`.

## 9. Running

    tlc -workers 2 -config NumberSequence.cfg MCNumberSequence
    tlc -workers 2 -config NfeDraft_concurrent.cfg MCNfeDraft
    tlc -workers 2 -config NfeDraft_orderly.cfg MCNfeDraft
    tlc -workers 2 -config ImportProcess.cfg MCImportProcess
    tlc -workers 2 -config TaxRules.cfg MCTaxRules
    tlc -workers 2 -config NfeItems.cfg MCNfeItems
    tlc -workers 2 -config Scopes.cfg MCScopes
    for M in NumberSequence FiscalCertificates TaxRules NfeItems NfeDraft Scopes ImportProcess; do
        tlapm ${M}Proofs.tla
    done

Each run takes less than three minutes on two cores; a proof module from half a minute to
three minutes.
