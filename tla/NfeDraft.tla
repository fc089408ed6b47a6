------------------------------ MODULE NfeDraft ------------------------------
(***************************************************************************)
(* One NF-e draft from its creation to its signature, under concurrent     *)
(* requests: the row of nfe_drafts with its item rows, its versions in     *)
(* nfe_xml_versions, the signature attempts in nfe_issuances and           *)
(* nfe_issuance_attempts, and the status of its import process.            *)
(*                                                                         *)
(* A request runs in one transaction (READ COMMITTED).  Its route loads    *)
(* the draft WITHOUT a lock, and SQLAlchemy's identity map keeps those     *)
(* attributes for the rest of the request, even when the row is selected   *)
(* again FOR UPDATE.  At the commit only the columns that differ from what *)
(* was loaded are written, and the write waits for the row lock of another *)
(* transaction.  So a request has up to three steps: it loads the draft    *)
(* (`seen'), runs the service method, which queries other rows and plans   *)
(* its writes (`plan'), and commits.                                       *)
(***************************************************************************)
EXTENDS Integers, Sequences, FiniteSetsExt

CONSTANTS Workers,     \* request transactions that may be open at once
          Certs,       \* A1 certificates of the importer
          NoCert,      \* no certificate: none active, or none asked for
          Nobody,      \* the lock holder when a row is not locked
          Kinds,       \* the requests that are sent to this draft
          Second,      \* how many instants the clock has within one second
          MaxClock     \* bound: instants at which something is stamped

ASSUME ClockAssumption == Second \in Nat \ {0} /\ MaxClock \in Nat
\* gunicorn runs a fixed number of workers.
ASSUME WorkersAssumption == IsFiniteSet(Workers)
ASSUME NoneAssumption == NoCert \notin Certs /\ Nobody \notin Workers

VARIABLES
  \* committed rows
  draft,       \* the row of nfe_drafts
  itemRows,    \* the rows of nfe_draft_items, as a revision
  xmls,        \* the rows of nfe_xml_versions, signed and unsigned
  issuance,    \* the row of nfe_issuances of the draft, as a set
  attempts,    \* the outcome of each row of nfe_issuance_attempts, in order
  process,     \* import_processes.status
  sequence,    \* nfe_number_sequences.current_number
  activeCert,  \* the certificate that FiscalCertificateRegistry holds active
  \* row locks
  lock,        \* the transaction that locks the draft row
  seqLock,     \* the transaction that locks the sequence row
  \* the requests
  pc,          \* where the request of each worker is
  kind,        \* which service method it calls
  seen,        \* the draft as its session loaded it
  target,      \* the XML version it loaded (validate-xsd and sign)
  cert,        \* the certificate_id it asks for, then the one it signs with
  plan,        \* the writes it has not committed yet
  clock        \* the last instant stamped on a row

committed == <<draft, itemRows, xmls, issuance, attempts, process, sequence>>
local     == <<pc, kind, seen, target, cert, plan>>
locks     == <<lock, seqLock>>
vars      == <<committed, activeCert, locks, local, clock>>

-----------------------------------------------------------------------------
(* Rows                                                                    *)

Instant == 0..MaxClock

\* An access key: the NF-e number and the random cNF, by the instant that drew it.
Key   == [number : Instant, nonce : Instant]
NoKey == [number |-> 0, nonce |-> 0]

\* What validate_nfe_payload and _authorization_metadata say of the items:
\* valid and authorizable, valid for diagnosis only, or not valid.
Grades == {"fit", "diagnostic", "invalid"}
Items  == [rev : Instant, grade : Grades]

\* fiscal_payload: the key data copied into "document", the sections that the
\* operator edits, the items copied from their rows, the archival mark.
Payload == [doc : Key, meta : Instant, items : Items, disposed : BOOLEAN]

DraftStatus == {"ready_for_xml", "validation_failed", "xml_generated", "signed"}

Draft == [status : DraftStatus, number : Instant, key : Key, payload : Payload,
          updated : Instant, removed : {"no", "deleted", "archived"}]

\* An XML version: `id' and `body' are its content, the Id attribute of infNFe
\* and everything else; `fits' says whether the content satisfies the XSD.
Xml == [type : {"unsigned", "signed"}, version : Instant, key : Key, id : Key,
        body : Payload, fits : BOOLEAN, at : Instant,
        xsd : {"unknown", "valid", "invalid"}]

Unsigned(v, k, p, f, t) ==
  [type |-> "unsigned", version |-> v, key |-> k, id |-> k, body |-> p,
   fits |-> f, at |-> t, xsd |-> "unknown"]

OfType(t) == {x \in xmls : x.type = t}

Same(x, y) == x.type = y.type /\ x.version = y.version

Latest(x) == x \in xmls /\ \A y \in OfType(x.type) : y.version <= x.version

NoXml == [type |-> "none"]

Processes == {"draft_ready", "draft_validation_failed", "xml_generated",
              "xml_validated", "xml_validation_failed", "xml_signed"}

-----------------------------------------------------------------------------
(* Sessions                                                                *)

\* Nothing to write: an optional value is a set of at most one element.
NoPlan == [draft |-> {}, items |-> {}, xml |-> {}, process |-> {}, number |-> {}]

\* SQLAlchemy's UPDATE: a column is written when it differs from what was loaded.
Flush(row, loaded, new) ==
  [c \in DOMAIN row |-> IF new[c] = loaded[c] THEN row[c] ELSE new[c]]

Value(option, default) == IF option = {} THEN default
                          ELSE CHOOSE x \in option : TRUE

FreshDraft(g) ==
  [status |-> IF g = "invalid" THEN "validation_failed" ELSE "ready_for_xml",
   number |-> 0, key |-> NoKey,
   payload |-> [doc |-> NoKey, meta |-> 0, items |-> [rev |-> 0, grade |-> g],
                disposed |-> FALSE],
   updated |-> 0, removed |-> "no"]

Init ==
  /\ \E g \in Grades :
       /\ draft = FreshDraft(g)
       /\ itemRows = draft.payload.items
       /\ process = IF g = "invalid" THEN "draft_validation_failed"
                    ELSE "draft_ready"
  /\ xmls = {} /\ issuance = {} /\ attempts = <<>> /\ sequence = 0
  /\ activeCert \in Certs \cup {NoCert}
  /\ lock = Nobody /\ seqLock = Nobody /\ clock = 0
  /\ pc = [w \in Workers |-> "idle"]
  /\ kind = [w \in Workers |-> "none"]
  /\ seen = [w \in Workers |-> FreshDraft("fit")]
  /\ target = [w \in Workers |-> NoXml]
  /\ cert = [w \in Workers |-> NoCert]
  /\ plan = [w \in Workers |-> NoPlan]

Now == clock + 1

\* The database session ends with the request, and so do its locks.
Close(w) ==
  /\ pc' = [pc EXCEPT ![w] = "idle"]
  /\ kind' = [kind EXCEPT ![w] = "none"]
  /\ seen' = [seen EXCEPT ![w] = FreshDraft("fit")]
  /\ target' = [target EXCEPT ![w] = NoXml]
  /\ cert' = [cert EXCEPT ![w] = NoCert]
  /\ plan' = [plan EXCEPT ![w] = NoPlan]
  /\ lock' = IF lock = w THEN Nobody ELSE lock
  /\ seqLock' = IF seqLock = w THEN Nobody ELSE seqLock

\* Bound: a request stamps at most one instant.
Room == clock + Cardinality({w \in Workers : pc[w] # "idle"}) < MaxClock

\* The route loads the draft (404 once it is removed) and the XML version.
Load(w, k) ==
  /\ pc[w] = "idle" /\ draft.removed = "no" /\ Room
  /\ IF k \in {"xsd", "sign"}
     THEN \E x \in xmls : target' = [target EXCEPT ![w] = x]
     ELSE target' = target
  /\ IF k = "sign"
     THEN \E c \in Certs \cup {NoCert} : cert' = [cert EXCEPT ![w] = c]
     ELSE cert' = cert
  /\ pc' = [pc EXCEPT ![w] = "loaded"]
  /\ kind' = [kind EXCEPT ![w] = k]
  /\ seen' = [seen EXCEPT ![w] = draft]
  /\ UNCHANGED <<committed, activeCert, locks, plan, clock>>

\* Planted bug: only a removed draft is protected from changes.
EditableWhenSigned(d) == d.removed = "no"

\* _assert_draft_editable, on the draft that was loaded.
Editable(d) == d.removed = "no" /\ d.status # "signed"

\* validate_nfe_payload and the draft status that follows from it.
Valid(items) == items.grade # "invalid"
Verdict(items) == IF Valid(items) THEN "ready_for_xml" ELSE "validation_failed"

\* The process is loaded here: a status that it has already is not written.
Stage(w, k, changes) ==
  /\ pc[w] = "loaded" /\ kind[w] = k
  /\ pc' = [pc EXCEPT ![w] = "staged"]
  /\ plan' = [plan EXCEPT ![w] = [changes EXCEPT !.process = @ \ {process}]]
  /\ UNCHANGED <<committed, activeCert, kind, seen, target, cert>>

\* utcnow(): no two instants are the same.
Stamp == clock' = Now

-----------------------------------------------------------------------------
(* Editing                                                                 *)

\* _refresh_draft_payload_from_items and the validation that follows it.  The
\* rows of all items are one revision: of two edits that overlap the last wins.
Refreshed(d, items) ==
  [d EXCEPT !.payload.items = items, !.status = Verdict(items), !.updated = Now]

\* update_draft_metadata: a section of the payload changes, and the item rows
\* too when the additional costs or the item defaults do.
StageMetadata(w) ==
  /\ Editable(seen[w])
  /\ Stamp
  /\ \E rows \in {{}} \cup {{[rev |-> Now, grade |-> g]} : g \in Grades} :
       LET items == Value(rows, itemRows) IN
       Stage(w, "metadata",
             [NoPlan EXCEPT
                !.draft = {[Refreshed(seen[w], items) EXCEPT !.payload.meta = Now]},
                !.items = rows,
                !.process = {IF Valid(items) THEN "draft_ready"
                             ELSE "draft_validation_failed"}])
  /\ UNCHANGED locks

\* update_draft_item and adjust_draft_item_tax: the item rows change.
StageItem(w) ==
  /\ Editable(seen[w])
  /\ Stamp
  /\ \E g \in Grades :
       LET items == [rev |-> Now, grade |-> g] IN
       Stage(w, "item", [NoPlan EXCEPT !.draft = {Refreshed(seen[w], items)},
                                       !.items = {items}])
  /\ UNCHANGED locks

\* validate_draft
StageValidate(w) ==
  /\ Editable(seen[w])
  /\ Stamp
  /\ Stage(w, "validate", [NoPlan EXCEPT !.draft = {Refreshed(seen[w], itemRows)}])
  /\ UNCHANGED locks

\* soft_delete_draft: what has a number, a key or an XML is archived, with its
\* number marked for review; anything else counts as deleted.
RemovalMode(d) == IF d.number # 0 \/ d.key # NoKey \/ xmls # {}
                  THEN "archived" ELSE "deleted"

Removable(d) == OfType("signed") = {} /\ d.status # "signed"

StageRemove(w) ==
  /\ Removable(seen[w])
  /\ Stamp
  /\ Stage(w, "remove",
       [NoPlan EXCEPT !.draft =
          {[seen[w] EXCEPT !.removed = RemovalMode(seen[w]), !.updated = Now,
              !.payload.disposed = RemovalMode(seen[w]) = "archived"]}])
  /\ UNCHANGED locks

-----------------------------------------------------------------------------
(* Access key and XML                                                      *)

\* generate_access_key_for_draft looks at the payload as it is stored.
MayHaveKey(d) ==
  /\ d.status \in {"ready_for_xml", "xml_generated", "validation_failed"}
  /\ Valid(d.payload.items)

\* The draft keeps the number it was loaded with, or takes the next one.
NumberFor(d) == IF d.number = 0 THEN sequence + 1 ELSE d.number

\* Planted bug: the regenerated key is not copied into the payload.
KeyedWithoutDocument(d) ==
  LET k == [number |-> NumberFor(d), nonce |-> Now] IN
  [d EXCEPT !.number = k.number, !.key = k, !.status = "ready_for_xml",
            !.updated = Now]

\* Planted bug: the regenerated key does not touch updated_at.
KeyedUnstamped(d) ==
  LET k == [number |-> NumberFor(d), nonce |-> Now] IN
  [d EXCEPT !.number = k.number, !.key = k, !.payload.doc = k,
            !.status = "ready_for_xml"]

\* A new random cNF every time.  updated_at loses its fraction of a second
\* (replace(microsecond=0)), here and nowhere else.
Keyed(d) ==
  LET k == [number |-> NumberFor(d), nonce |-> Now] IN
  [d EXCEPT !.number = k.number, !.key = k, !.payload.doc = k,
            !.status = "ready_for_xml", !.updated = Now - (Now % Second)]

\* The reservation locks the sequence row until the end of the transaction.
Reservation(w, d) ==
  IF d.number = 0 THEN seqLock = Nobody /\ seqLock' = w ELSE seqLock' = seqLock

Reserved(d) == IF d.number = 0 THEN {NumberFor(d)} ELSE {}

StageKey(w) ==
  /\ MayHaveKey(seen[w])
  /\ Stamp
  /\ Reservation(w, seen[w])
  /\ Stage(w, "key", [NoPlan EXCEPT !.draft = {Keyed(seen[w])},
                                    !.number = Reserved(seen[w])])
  /\ UNCHANGED lock

\* generate_unsigned_xml: a key if there is none, which locks the draft row;
\* then validate_draft reads the item rows and flushes, which locks the draft row
\* at the latest, and only then is the latest version looked up.
ReadItems(w) ==
  /\ pc[w] = "loaded" /\ kind[w] = "xml"
  /\ seen[w].key # NoKey /\ plan[w].items = {}
  /\ plan' = [plan EXCEPT ![w].items = {itemRows}]
  /\ UNCHANGED <<committed, activeCert, locks, pc, kind, seen, target, cert, clock>>

\* The item rows that the XML is built from, once they were read.
XmlItems(w) == IF seen[w].key = NoKey THEN {itemRows} ELSE plan[w].items

XmlReady(d, items) == /\ Editable(d) /\ Valid(items)
                      /\ d.key = NoKey => MayHaveKey(d)

WithKey(d) == IF d.key = NoKey THEN Keyed(d) ELSE d

\* Planted bug: validate_draft does not flush before the version is looked up.
NoRowLock(w) == lock' = lock

\* The UPDATE of the flush waits for the row and keeps it locked.
RowLock(w) == lock = Nobody /\ lock' = w

NextVersion == 1 + Max({0} \cup {x.version : x \in OfType("unsigned")})

StageXml(w) == \E items \in XmlItems(w) :
  LET d == seen[w]
      built == [Refreshed(WithKey(d), items) EXCEPT !.status = "xml_generated"]
  IN
  /\ XmlReady(d, items)
  /\ Stamp
  /\ RowLock(w)
  /\ IF d.key = NoKey THEN Reservation(w, d) ELSE seqLock' = seqLock
  /\ \E fits \in BOOLEAN :
       Stage(w, "xml",
             [NoPlan EXCEPT
                !.draft = {built},
                !.xml = {Unsigned(NextVersion, built.key, built.payload, fits, Now)},
                !.process = {"xml_generated"},
                !.number = IF d.key = NoKey THEN Reserved(d) ELSE {}])

\* validate_xml_version: the verdict of the XSD on the content it loaded.  If it
\* is new, the flush before the query of the latest version writes it.  The
\* process follows when no later version of the same type exists.
Validated(x) == [x EXCEPT !.xsd = IF x.fits THEN "valid" ELSE "invalid"]

NewVerdict(x) == Validated(x) # x

\* Another request holds the version: it signs it (FOR UPDATE), or it has
\* written a new verdict.
XmlLocked(w) ==
  \E v \in Workers \ {w} :
    /\ \/ pc[v] = "signing"
       \/ pc[v] = "staged" /\ kind[v] = "xsd" /\ NewVerdict(target[v])
    /\ Same(target[v], target[w])

ProcessAfter(x) == IF ~x.fits THEN "xml_validation_failed"
                   ELSE IF x.type = "signed" THEN "xml_signed" ELSE "xml_validated"

StageXsd(w) ==
  /\ pc[w] = "loaded" /\ kind[w] = "xsd"
  /\ NewVerdict(target[w]) => ~XmlLocked(w)
  /\ Stage(w, "xsd",
       [NoPlan EXCEPT !.xml = {Validated(target[w])},
                      !.process = IF Latest(target[w])
                                  THEN {ProcessAfter(target[w])} ELSE {}])
  /\ UNCHANGED <<locks, clock>>

-----------------------------------------------------------------------------
(* The commit of every request but sign                                    *)

\* The write of the draft waits for nobody.
Writable(w) == plan[w].draft # {} => lock \in {Nobody, w}

Commit(w) ==
  /\ pc[w] = "staged"
  /\ Writable(w)
  /\ draft' = IF plan[w].draft = {} THEN draft
              ELSE Flush(draft, seen[w], Value(plan[w].draft, draft))
  /\ itemRows' = Value(plan[w].items, itemRows)
  /\ xmls' = {x \in xmls : \A y \in plan[w].xml : ~Same(x, y)} \cup plan[w].xml
  /\ process' = Value(plan[w].process, process)
  /\ sequence' = Value(plan[w].number, sequence)
  /\ Close(w)
  /\ UNCHANGED <<issuance, attempts, activeCert, clock>>

-----------------------------------------------------------------------------
(* sign_xml_version                                                        *)

\* Planted bug: draft and version are selected without FOR UPDATE.
FoundUnlocked(w) == /\ pc[w] = "loaded" /\ kind[w] = "sign"
                    /\ draft.removed = "no"

\* The draft is selected FOR UPDATE (not found once it is removed), and so is
\* the version; their attributes stay those that the route loaded.
Locked(w) == /\ pc[w] = "loaded" /\ kind[w] = "sign"
             /\ lock = Nobody /\ draft.removed = "no"
             /\ ~XmlLocked(w)

\* Planted bug: the XSD verdict is not looked at.
SignableUnchecked(x) == /\ x.type = "unsigned" /\ Latest(x)
                        /\ itemRows.grade # "diagnostic"

\* Planted bug: any approved version may be signed.
SignableAnyVersion(x) == /\ x.type = "unsigned" /\ x.xsd = "valid"
                         /\ itemRows.grade # "diagnostic"

\* An unsigned version, approved by the XSD, with no later one; and item rows
\* whose tax treatment is confirmed (ensure_authorization_ready).
Signable(x) == /\ x.type = "unsigned" /\ x.xsd = "valid" /\ Latest(x)
               /\ itemRows.grade # "diagnostic"

SignedAs(x) == {y \in OfType("signed") : y.version = x.version}

\* ensure_authorization_ready leaves the refreshed items in the payload.
Touched(d) == [d EXCEPT !.payload.items = itemRows]

\* The version is signed already: the same signature is returned.
Replayable(w) ==
  /\ SignedAs(target[w]) # {}
  /\ \E i \in issuance : i.status = "signed" /\ cert[w] \in {NoCert, i.cert}

SignReplay(w) ==
  /\ Locked(w) /\ Signable(target[w]) /\ Replayable(w)
  /\ draft' = Flush(draft, seen[w], Touched(seen[w]))
  /\ Close(w)
  /\ UNCHANGED <<itemRows, xmls, issuance, attempts, process, sequence,
                 activeCert, clock>>

\* Planted bug: the age of the XML does not matter.
AnyAge(d, x) == TRUE

\* "O XML esta desatualizado em relacao ao rascunho."
UpToDate(d, x) == d.updated <= x.at

Signing(w) == /\ Locked(w) /\ Signable(target[w])
              /\ SignedAs(target[w]) = {}
              /\ UpToDate(seen[w], target[w])

\* active_for: the certificate asked for, or the only one, must be active.
HasCert(w) == activeCert # NoCert /\ cert[w] \in {NoCert, activeCert}

\* FiscalCertificateError: the route commits what was done so far.
SignWithoutCert(w) ==
  /\ Signing(w) /\ ~HasCert(w)
  /\ draft' = Flush(draft, seen[w], Touched(seen[w]))
  /\ Close(w)
  /\ UNCHANGED <<itemRows, xmls, issuance, attempts, process, sequence,
                 activeCert, clock>>

\* Planted bug: the certificate is not part of the identity of the signature.
BoundToVersion(w) == \A i \in issuance : i.version = target[w].version

\* _issuance_for_signature: an issuance is bound to one version and certificate.
Bound(w) == \A i \in issuance : i.version = target[w].version /\ i.cert = activeCert

\* Planted bug: the certificate that signs is the one that was asked for.
SignStartAsAsked(w) ==
  /\ Signing(w) /\ HasCert(w) /\ Bound(w)
  /\ lock' = w
  /\ pc' = [pc EXCEPT ![w] = "signing"]
  /\ UNCHANGED <<committed, activeCert, seqLock, kind, seen, target, cert, plan, clock>>

\* The signature attempt starts; the draft and the version stay locked while
\* the vault, the signer and the XSD validator work.
SignStart(w) ==
  /\ Signing(w) /\ HasCert(w) /\ Bound(w)
  /\ lock' = w
  /\ pc' = [pc EXCEPT ![w] = "signing"]
  /\ cert' = [cert EXCEPT ![w] = activeCert]
  /\ UNCHANGED <<committed, activeCert, seqLock, kind, seen, target, plan, clock>>

\* Planted bug: the status of an existing issuance is not updated.
IssuedOnce(w, status) ==
  IF issuance = {}
  THEN {[version |-> target[w].version, cert |-> cert[w], key |-> seen[w].key,
         number |-> seen[w].number, status |-> status]}
  ELSE issuance

\* The issuance is created with the data of the draft as it was loaded.
Issued(w, status) ==
  IF issuance = {}
  THEN {[version |-> target[w].version, cert |-> cert[w], key |-> seen[w].key,
         number |-> seen[w].number, status |-> status]}
  ELSE {[i EXCEPT !.status = status, !.cert = cert[w]] : i \in issuance}

SignSucceeds(w) ==
  /\ pc[w] = "signing"
  /\ Stamp
  /\ xmls' = xmls \cup {[target[w] EXCEPT !.type = "signed", !.key = seen[w].key,
                                          !.at = Now]}
  /\ issuance' = Issued(w, "signed")
  /\ attempts' = Append(attempts, "succeeded")
  /\ draft' = Flush(draft, seen[w], [Touched(seen[w]) EXCEPT !.status = "signed",
                                                             !.updated = Now])
  /\ process' = "xml_signed"
  /\ Close(w)
  /\ UNCHANGED <<itemRows, sequence, activeCert>>

\* The vault, the signer or the validator of the signed XML fails: the route
\* commits the failed attempt, and with it the issuance.
SignFails(w) ==
  /\ pc[w] = "signing"
  /\ Stamp
  /\ issuance' = IF issuance = {} THEN Issued(w, "xsd_validated") ELSE issuance
  /\ attempts' = Append(attempts, "failed")
  /\ draft' = Flush(draft, seen[w], Touched(seen[w]))
  /\ Close(w)
  /\ UNCHANGED <<itemRows, xmls, process, sequence, activeCert>>

-----------------------------------------------------------------------------
(* Refusals, crashes and the registry                                      *)

\* The guard of the service method fails: ValueError, rollback.
Refused(w) ==
  CASE kind[w] \in {"metadata", "item", "validate"} -> ~Editable(seen[w])
    [] kind[w] = "remove" -> ~Removable(seen[w])
    [] kind[w] = "key"    -> ~MayHaveKey(seen[w])
    [] kind[w] = "xml"    -> \E items \in XmlItems(w) : ~XmlReady(seen[w], items)
    [] kind[w] = "sign"   -> \/ draft.removed # "no"
                             \/ Locked(w) /\ ~Signable(target[w])
                             \/ Locked(w) /\ SignedAs(target[w]) # {} /\ ~Replayable(w)
                             \/ Locked(w) /\ SignedAs(target[w]) = {}
                                          /\ ~UpToDate(seen[w], target[w])
                             \/ Signing(w) /\ HasCert(w) /\ ~Bound(w)
    [] OTHER -> FALSE

Refuse(w) ==
  /\ pc[w] = "loaded" /\ Refused(w)
  /\ Close(w)
  /\ UNCHANGED <<committed, activeCert, clock>>

\* Any other error, or gunicorn killing the worker: rollback.
Abort(w) ==
  /\ pc[w] # "idle"
  /\ Close(w)
  /\ UNCHANGED <<committed, activeCert, clock>>

\* An administrator activates or deactivates a certificate of the importer.
SwitchCertificate(c) ==
  /\ activeCert' = c
  /\ UNCHANGED <<committed, locks, local, clock>>

Service(w) == \/ StageMetadata(w) \/ StageItem(w) \/ StageValidate(w)
              \/ StageRemove(w) \/ StageKey(w) \/ ReadItems(w) \/ StageXml(w) \/ StageXsd(w)
              \/ SignReplay(w) \/ SignWithoutCert(w) \/ SignStart(w)
              \/ SignSucceeds(w) \/ SignFails(w)
              \/ Refuse(w) \/ Commit(w)

Next == \/ \E w \in Workers : (\E k \in Kinds : Load(w, k)) \/ Service(w) \/ Abort(w)
        \/ \E c \in Certs \cup {NoCert} : SwitchCertificate(c)

Spec == Init /\ [][Next]_vars

-----------------------------------------------------------------------------
(* Properties that hold whatever requests run at the same time             *)

Optional(S) == {{}} \cup {{x} : x \in S}

\* Every row and every session variable holds a value of its type.
TypeOK ==
  /\ draft \in Draft /\ itemRows \in Items /\ process \in Processes
  /\ xmls \in SUBSET Xml
  /\ issuance \in SUBSET [version : Instant, cert : Certs, key : Key,
                          number : Instant, status : {"xsd_validated", "signed"}]
  /\ attempts \in Seq({"succeeded", "failed"})
  /\ sequence \in Instant /\ clock \in Instant
  /\ activeCert \in Certs \cup {NoCert}
  /\ lock \in Workers \cup {Nobody} /\ seqLock \in Workers \cup {Nobody}
  /\ pc \in [Workers -> {"idle", "loaded", "staged", "signing"}]
  /\ kind \in [Workers -> Kinds \cup {"none"}]
  /\ seen \in [Workers -> Draft]
  /\ target \in [Workers -> Xml \cup {NoXml}]
  /\ cert \in [Workers -> Certs \cup {NoCert}]
  /\ \A w \in Workers :
       /\ plan[w].draft = {} \/ \E d \in plan[w].draft : plan[w].draft = {d} /\ d \in Draft
       /\ plan[w].items \in Optional(Items)
       /\ plan[w].xml = {} \/ \E x \in plan[w].xml : plan[w].xml = {x} /\ x \in Xml
       /\ plan[w].process \in Optional(Processes)
       /\ plan[w].number \in Optional(Instant)

\* Two requests never leave two signed versions of a draft, not even of
\* different XML versions ("O bloqueio de linha impede que duas requisicoes
\* concorrentes criem duas versoes assinadas").
OneSignature == Cardinality(OfType("signed")) <= 1

\* The three records of a signature tell one story: there is a signed version
\* iff the issuance is signed iff the last attempt succeeded, and nothing is
\* attempted after a success; a failed attempt is kept with its issuance.
SignatureLedger ==
  LET signed == OfType("signed") # {} IN
  /\ Cardinality(issuance) <= 1
  /\ (issuance = {}) <=> (attempts = <<>>)
  /\ signed <=> \E i \in issuance : i.status = "signed"
  /\ signed <=> attempts # <<>> /\ attempts[Len(attempts)] = "succeeded"
  /\ \A n \in 1..Len(attempts) - 1 : attempts[n] = "failed"

\* What is signed is an unsigned version of the same number and content that
\* the XSD approved, and the version its issuance was created for.
ApprovedBeforeSigned ==
  \A s \in OfType("signed") :
    /\ \E u \in OfType("unsigned") :
         u.version = s.version /\ u.body = s.body /\ u.id = s.id /\ u.xsd = "valid"
    /\ \E i \in issuance : i.version = s.version

\* A version is signed only while it is the latest unsigned one: no later
\* version is committed between the check and the signature.
SignsLatestVersion ==
  [][\A s \in xmls' \ xmls : s.type = "signed" /\ SignedAs(s) = {}
       => \A u \in OfType("unsigned") : u.version <= s.version]_vars

\* The first attempt binds the issuance to a version, a certificate, a key and
\* a number, and no later request changes them or takes a signature back.
IssuanceStaysBound ==
  [][\A i \in issuance : \E j \in issuance' :
       /\ [j EXCEPT !.status = i.status] = i
       /\ i.status = "signed" => j.status = "signed"]_vars

\* The unique constraint uq_nfe_xml_version never fires, so neither generating
\* nor signing fails on it: the number of an unsigned version that waits to be
\* committed, or of a version that is being signed, is still free.
VersionsNeverClash ==
  \A w \in Workers :
    /\ pc[w] = "staged" /\ kind[w] = "xml" =>
         \A x \in plan[w].xml, y \in xmls : ~Same(x, y)
    /\ pc[w] = "signing" => SignedAs(target[w]) = {}

-----------------------------------------------------------------------------
(* Properties that hold as long as no request overtakes another: two       *)
(* requests that both loaded the draft, or a key and an XML of the same    *)
(* second, can violate each of them                                        *)

\* A request that commits a change finds the draft as it loaded it: nothing was
\* written to it in between.
NotOvertaken(w) == committed' # committed => seen[w] = draft

\* The second that a key is stamped with begins after every XML.
InLaterSecond == \A x \in xmls : x.at < Now - (Now % Second)

\* The code guarantees neither; whatever else overlaps is left free.  A verdict of
\* the XSD writes nothing that an edit writes.
Orderly(w) == \/ StageMetadata(w) \/ StageItem(w) \/ StageValidate(w) \/ StageRemove(w)
              \/ StageKey(w) /\ InLaterSecond
              \/ ReadItems(w) \/ StageXml(w) \/ StageXsd(w)
              \/ SignReplay(w) /\ NotOvertaken(w)
              \/ SignWithoutCert(w) /\ NotOvertaken(w)
              \/ SignStart(w)
              \/ SignSucceeds(w) /\ NotOvertaken(w)
              \/ SignFails(w) /\ NotOvertaken(w)
              \/ Refuse(w)
              \/ Commit(w) /\ (kind[w] = "xsd" \/ NotOvertaken(w))

OrderlyNext ==
  \/ \E w \in Workers : (\E k \in Kinds : Load(w, k)) \/ Orderly(w) \/ Abort(w)
  \/ \E c \in Certs \cup {NoCert} : SwitchCertificate(c)

OrderlySpec == Init /\ [][OrderlyNext]_vars

Versions(X) == {<<x.type, x.version>> : x \in X}

\* A signature is final: afterwards nothing changes the draft, and no version
\* is generated or signed again (docs/NFE_XML_SIGNATURE.md, "Imutabilidade").
SignedIsFinal ==
  [][draft.status = "signed" =>
       draft' = draft /\ Versions(xmls') = Versions(xmls)]_vars

\* What was signed is the draft as it stands: the sections the operator edited
\* and the item rows ("O XML esta desatualizado em relacao ao rascunho").
SignedIsCurrent ==
  draft.status = "signed" =>
    \A s \in OfType("signed") :
      s.body.meta = draft.payload.meta /\ s.body.items = itemRows

\* The key inside the signed XML is the key that the version, the issuance and
\* the draft are filed under.
SignedCarriesKey ==
  \A s \in OfType("signed") :
    /\ s.id = s.key /\ s.id = draft.key
    /\ \A i \in issuance : i.key = s.id /\ i.number = s.id.number

\* The key, the number column and the document section from which the XML is
\* built agree, in the draft and in every version built from it.
KeyIsConsistent ==
  /\ draft.key = draft.payload.doc
  /\ draft.key # NoKey => draft.key.number = draft.number
  /\ \A x \in xmls : x.id = x.body.doc

=============================================================================
