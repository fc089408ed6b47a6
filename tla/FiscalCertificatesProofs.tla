---------------------- MODULE FiscalCertificatesProofs ----------------------
(***************************************************************************)
(* At most one A1 certificate is active, for any number of administrators  *)
(* and certificates.  The flag is only ever set by a transaction that      *)
(* holds the client and has locked every other active row, and that it     *)
(* disables in the same commit: this is what the inductive invariant says  *)
(* of the states between the lock and the commit.                          *)
(***************************************************************************)
EXTENDS FiscalCertificates, TLAPS

USE NoneAssumption

Phases == {"idle", "validating", "deactivating", "activating", "activated",
           "uploading", "uploaded"}

\* upload and activate hold the row of the client from their first step on.
ClientInv == \A w \in Workers :
  pc[w] \in {"activating", "activated", "uploading", "uploaded"} => lock = w

\* A request in progress works on one certificate.
CertInv == \A w \in Workers : pc[w] # "idle" => cert[w] \in Certs

\* Every active row but its own is locked by a transaction that will activate.
SwapInv == \A w \in Workers :
  (pc[w] = "activated" \/ (pc[w] = "uploaded" /\ next[w].active)) =>
    \A d \in Certs : d # cert[w] /\ rows[d].active => rowLock[d] = w

IInv == TypeOK /\ ClientInv /\ CertInv /\ SwapInv /\ AtMostOneActive

-----------------------------------------------------------------------------
(* Lemmas on rows                                                          *)

LEMMA NoRowType == NoRow \in Row /\ NoRow.active = FALSE
  BY DEF NoRow, Row, Status

\* A flushed row has, column by column, the new value or the committed one.
LEMMA FlushType ==
  ASSUME NEW r \in Row, NEW s \in Row, NEW n \in Row
  PROVE  /\ Flush(r, s, n) \in Row
         /\ Flush(r, s, n).active = (IF n.active = s.active THEN r.active ELSE n.active)
         /\ Flush(r, s, n).source = (IF n.source = s.source THEN r.source ELSE n.source)
  BY DEF Flush, Row

\* A write that does not set the flag leaves it reset where it is reset.
LEMMA FlushResets ==
  ASSUME NEW r \in Row, NEW s \in Row, NEW n \in Row,
         n.active = FALSE \/ n.active = s.active
  PROVE  Flush(r, s, n) \in Row /\ (Flush(r, s, n).active => r.active)
<1>1. CASE n.active = s.active
  BY <1>1, FlushType
<1>2. CASE n.active # s.active
  BY <1>2, FlushType
<1> QED
  BY <1>1, <1>2

LEMMA DisabledType ==
  ASSUME NEW r \in Row
  PROVE  /\ Disabled(r) \in Row /\ Disabled(r).active = FALSE
         /\ Disabled(r).status = "disabled" /\ Disabled(r).source = r.source
  BY DEF Disabled, Row, Status

LEMMA ValidationType ==
  ASSUME NEW r \in Row, NEW p \in Prints
  PROVE  /\ Invalid(r) \in Row /\ Invalid(r).active = FALSE
         /\ Invalid(r).source = r.source
         /\ Validated(r, p) \in Row /\ Validated(r, p).active = r.active
         /\ Validated(r, p).source = r.source
  BY DEF Invalid, Validated, Row, Status

-----------------------------------------------------------------------------
(* The initial states and the steps                                        *)

LEMMA InitInv == Init => IInv
<1> SUFFICES ASSUME Init PROVE IInv
  OBVIOUS
<1>1. TypeOK
  BY NoRowType DEF Init, TypeOK
<1>2. ClientInv /\ CertInv /\ SwapInv
  BY DEF Init, ClientInv, CertInv, SwapInv
<1>3. AtMostOneActive
  BY NoRowType DEF Init, AtMostOneActive
<1> QED
  BY <1>1, <1>2, <1>3 DEF IInv

\* The end of a request frees its worker and what it locked, nothing else.
LEMMA CloseType ==
  ASSUME TypeOK, NEW w \in Workers, Close(w)
  PROVE  /\ pc' \in [Workers -> Phases] /\ pc'[w] = "idle"
         /\ cert' \in [Workers -> Certs \cup {NoCert}]
         /\ seen' \in [Workers -> Row] /\ next' \in [Workers -> Row]
         /\ lock' \in Workers \cup {Nobody}
         /\ rowLock' \in [Certs -> Workers \cup {Nobody}]
         /\ \A v \in Workers \ {w} :
              /\ pc'[v] = pc[v] /\ cert'[v] = cert[v] /\ next'[v] = next[v]
              /\ lock = v => lock' = v
              /\ \A c \in Certs : rowLock[c] = v => rowLock'[c] = v
  BY NoRowType DEF Close, TypeOK, Phases

\* A request that ends without activating a row keeps the invariant.
LEMMA CloseInv ==
  ASSUME IInv, NEW w \in Workers, Close(w),
         rows' \in [Certs -> Row],
         secrets' \in [Certs -> SUBSET {"pfx", "password"}],
         \A c \in Certs : rows'[c].active => rows[c].active
  PROVE  IInv'
<1>0. TypeOK /\ ClientInv /\ CertInv /\ SwapInv /\ AtMostOneActive
  BY DEF IInv
<1>1. TypeOK'
  BY <1>0, CloseType DEF TypeOK, Phases
<1>2. ClientInv'
  BY <1>0, CloseType DEF ClientInv
<1>3. CertInv'
  BY <1>0, CloseType DEF CertInv
<1>4. SwapInv'
  BY <1>0, CloseType DEF SwapInv
<1>5. AtMostOneActive'
  BY <1>0 DEF AtMostOneActive
<1> QED
  BY <1>1, <1>2, <1>3, <1>4, <1>5 DEF IInv

\* A request that begins works on a certificate, and has locked no row yet.
LEMMA BeginInv ==
  ASSUME IInv, NEW w \in Workers, NEW c \in Certs, NEW phase \in Phases,
         Begin(w, c, phase), next' \in [Workers -> Row],
         \A v \in Workers \ {w} : next'[v] = next[v],
         \/ phase \in {"validating", "deactivating"} /\ lock' = lock
         \/ phase \in {"activating", "uploading"} /\ ClientLock(w)
  PROVE  IInv'
<1>0. TypeOK /\ ClientInv /\ CertInv /\ SwapInv /\ AtMostOneActive
  BY DEF IInv
<1>1. /\ pc[w] = "idle" /\ pc' = [pc EXCEPT ![w] = phase]
      /\ cert' = [cert EXCEPT ![w] = c] /\ seen' = [seen EXCEPT ![w] = rows[c]]
      /\ UNCHANGED <<rows, secrets, rowLock>>
  BY DEF Begin
<1>2. TypeOK'
  BY <1>0, <1>1 DEF TypeOK, Phases, ClientLock
<1>3. ClientInv'
  BY <1>0, <1>1 DEF ClientInv, TypeOK, ClientLock
<1>4. CertInv'
  BY <1>0, <1>1 DEF CertInv, TypeOK
<1>5. SwapInv'
  BY <1>0, <1>1 DEF SwapInv, TypeOK
<1>6. AtMostOneActive'
  BY <1>0, <1>1 DEF AtMostOneActive
<1> QED
  BY <1>2, <1>3, <1>4, <1>5, <1>6 DEF IInv

\* A new row is not active.
LEMMA RegisterInv == ASSUME IInv, NEW c \in Certs, Register(c) PROVE IInv'
<1>0. TypeOK /\ ClientInv /\ CertInv /\ SwapInv /\ AtMostOneActive
  BY DEF IInv
<1> DEFINE fresh == [NoRow EXCEPT !.source = "register"]
<1>1. fresh \in Row /\ fresh.active = FALSE
  BY DEF NoRow, Row, Status
<1>2. /\ rows' = [rows EXCEPT ![c] = fresh]
      /\ UNCHANGED <<secrets, lock, rowLock, local>>
  BY DEF Register
<1> HIDE DEF fresh
<1>3. TypeOK'
  BY <1>0, <1>1, <1>2 DEF TypeOK, local
<1>4. ClientInv' /\ CertInv'
  BY <1>0, <1>2 DEF ClientInv, CertInv, local
<1>5. SwapInv'
  BY <1>0, <1>1, <1>2 DEF SwapInv, TypeOK, local
<1>6. AtMostOneActive'
  BY <1>0, <1>1, <1>2 DEF AtMostOneActive, TypeOK
<1> QED
  BY <1>3, <1>4, <1>5, <1>6 DEF IInv
\* Neither validate nor deactivate sets the flag of a row that has it reset.
LEMMA ValidateInv == ASSUME IInv, NEW w \in Workers, Validate(w) PROVE IInv'
<1>0. TypeOK /\ cert[w] \in Certs /\ seen[w] \in Row
  BY DEF IInv, TypeOK, CertInv, Validate
<1>1. PICK new \in {Invalid(seen[w])}
                   \cup {Validated(seen[w], p) : p \in Loaded(seen[w])} :
        rows' = [rows EXCEPT ![cert[w]] = Flush(@, seen[w], new)]
  BY DEF Validate
<1>2. Loaded(seen[w]) \subseteq Prints \cup {NoPrint}
  BY <1>0 DEF Loaded, Row
<1>3. new \in Row /\ (new.active = FALSE \/ new.active = seen[w].active)
  <2>1. CASE new = Invalid(seen[w])
    BY <2>1, <1>0 DEF Invalid, Row, Status
  <2>2. CASE \E p \in Loaded(seen[w]) : new = Validated(seen[w], p)
    BY <2>2, <1>0, <1>2 DEF Validated, Row, Status
  <2> QED
    BY <1>1, <2>1, <2>2
<1>4. /\ Flush(rows[cert[w]], seen[w], new) \in Row
      /\ Flush(rows[cert[w]], seen[w], new).active => rows[cert[w]].active
  <2>1. rows[cert[w]] \in Row
    BY <1>0 DEF TypeOK
  <2> QED
    BY <2>1, <1>0, <1>3, FlushResets
<1>5. /\ rows' \in [Certs -> Row]
      /\ \A c \in Certs : rows'[c].active => rows[c].active
  BY <1>0, <1>1, <1>4 DEF TypeOK
<1> QED
  BY <1>0, <1>5, CloseInv DEF Validate, TypeOK

LEMMA DeactivateInv == ASSUME IInv, NEW w \in Workers, Deactivate(w) PROVE IInv'
<1>0. TypeOK /\ cert[w] \in Certs /\ seen[w] \in Row
  BY DEF IInv, TypeOK, CertInv, Deactivate
<1>1. rows' = [rows EXCEPT ![cert[w]] = Flush(@, seen[w], Disabled(seen[w]))]
  BY DEF Deactivate
<1>2. /\ Flush(rows[cert[w]], seen[w], Disabled(seen[w])) \in Row
      /\ Flush(rows[cert[w]], seen[w], Disabled(seen[w])).active
           => rows[cert[w]].active
  <2>1. rows[cert[w]] \in Row
    BY <1>0 DEF TypeOK
  <2> QED
    BY <2>1, <1>0, FlushResets, DisabledType
<1>3. /\ rows' \in [Certs -> Row]
      /\ \A c \in Certs : rows'[c].active => rows[c].active
  BY <1>0, <1>1, <1>2 DEF TypeOK
<1> QED
  BY <1>0, <1>3, CloseInv DEF Deactivate, TypeOK

\* activate has locked every other active row before it waits to commit.
LEMMA ActivateInv == ASSUME IInv, NEW w \in Workers, Activate(w) PROVE IInv'
<1>0. TypeOK /\ ClientInv /\ CertInv /\ SwapInv /\ AtMostOneActive
      /\ cert[w] \in Certs /\ seen[w] \in Row
  BY DEF IInv, TypeOK, CertInv, Activate
<1>1. PICK p \in Loaded(seen[w]) :
        next' = [next EXCEPT ![w] = [seen[w] EXCEPT !.print = p, !.active = TRUE,
                                                    !.status = "active"]]
  BY DEF Activate
<1>2. [seen[w] EXCEPT !.print = p, !.active = TRUE, !.status = "active"] \in Row
  BY <1>0 DEF Loaded, Row, Status
<1>3. /\ pc[w] = "activating" /\ pc' = [pc EXCEPT ![w] = "activated"]
      /\ LockRows(w, {cert[w]} \cup OtherActive(cert[w]))
      /\ UNCHANGED <<rows, secrets, lock, cert, seen>>
  BY DEF Activate
<1>4. TypeOK'
  BY <1>0, <1>1, <1>2, <1>3 DEF TypeOK, LockRows
<1>5. ClientInv' /\ CertInv' /\ AtMostOneActive'
  BY <1>0, <1>3 DEF ClientInv, CertInv, AtMostOneActive, TypeOK
<1>6. SwapInv'
  <2> SUFFICES ASSUME NEW v \in Workers,
                      pc'[v] = "activated" \/ (pc'[v] = "uploaded" /\ next'[v].active),
                      NEW d \in Certs, d # cert'[v], rows'[d].active
               PROVE  rowLock'[d] = v
    BY DEF SwapInv
  <2>1. v = w
    BY <1>0, <1>3 DEF ClientInv, TypeOK
  <2>2. d \in OtherActive(cert[w])
    BY <2>1, <1>3 DEF OtherActive
  <2> QED
    BY <2>1, <2>2, <1>3 DEF LockRows
<1> QED
  BY <1>4, <1>5, <1>6 DEF IInv
\* The commit of a request that activates a row: the rows that it locked are
\* disabled, so the new row is the only active one.
LEMMA SwapInvStep ==
  ASSUME IInv, NEW w \in Workers, Close(w), cert[w] \in Certs,
         UNCHANGED secrets, NEW r \in Row,
         rows' = [c \in Certs |-> IF c = cert[w] THEN r
                                  ELSE IF rowLock[c] = w THEN Disabled(rows[c])
                                  ELSE rows[c]],
         lock = w,
         r.active => \A d \in Certs : d # cert[w] /\ rows[d].active => rowLock[d] = w
  PROVE  IInv'
<1>0. TypeOK /\ ClientInv /\ CertInv /\ SwapInv /\ AtMostOneActive
  BY DEF IInv
<1>1. \A c \in Certs : rows'[c] \in Row
                       /\ (rows'[c].active => rows[c].active \/ (c = cert[w] /\ r.active))
  BY <1>0, DisabledType DEF TypeOK
<1>2. rows' \in [Certs -> Row]
  BY <1>1
<1>3. TypeOK'
  BY <1>0, <1>2, CloseType DEF TypeOK, Phases
<1>4. ClientInv'
  BY <1>0, CloseType DEF ClientInv
<1>5. CertInv'
  BY <1>0, CloseType DEF CertInv
<1>6. SwapInv'
  <2> SUFFICES ASSUME NEW v \in Workers,
                      pc'[v] = "activated" \/ pc'[v] = "uploaded"
               PROVE  FALSE
    BY DEF SwapInv
  <2>1. v # w /\ pc'[v] = pc[v]
    BY <1>0, CloseType
  <2> QED
    BY <2>1, <1>0 DEF ClientInv
<1>7. AtMostOneActive'
  <2>1. CASE r.active
    <3>1. \A d \in Certs : d # cert[w] => ~rows'[d].active
      BY <2>1, <1>0, DisabledType DEF TypeOK
    <3> QED
      BY <3>1 DEF AtMostOneActive
  <2>2. CASE ~r.active
    BY <2>2, <1>0, <1>1 DEF AtMostOneActive
  <2> QED
    BY <2>1, <2>2
<1> QED
  BY <1>3, <1>4, <1>5, <1>6, <1>7 DEF IInv

LEMMA CommitActivateInv ==
  ASSUME IInv, NEW w \in Workers, CommitActivate(w) PROVE IInv'
<1>0. TypeOK /\ ClientInv /\ SwapInv /\ cert[w] \in Certs /\ pc[w] = "activated"
  BY DEF IInv, CertInv, CommitActivate
<1>1. Flush(rows[cert[w]], seen[w], next[w]) \in Row
  BY <1>0, FlushType DEF TypeOK
<1>2. lock = w
      /\ \A d \in Certs : d # cert[w] /\ rows[d].active => rowLock[d] = w
  BY <1>0 DEF ClientInv, SwapInv
<1>3. rows' = [c \in Certs |->
                 IF c = cert[w] THEN Flush(rows[cert[w]], seen[w], next[w])
                 ELSE IF rowLock[c] = w THEN Disabled(rows[c]) ELSE rows[c]]
  BY DEF CommitActivate
<1> QED
  BY <1>0, <1>1, <1>2, <1>3, SwapInvStep DEF CommitActivate

LEMMA CommitUploadInv ==
  ASSUME IInv, NEW w \in Workers, CommitUpload(w) PROVE IInv'
<1>0. TypeOK /\ ClientInv /\ SwapInv /\ cert[w] \in Certs /\ pc[w] = "uploaded"
      /\ next[w] \in Row
  BY DEF IInv, CertInv, CommitUpload, TypeOK
<1>1. /\ lock = w
      /\ next[w].active =>
           \A d \in Certs : d # cert[w] /\ rows[d].active => rowLock[d] = w
  BY <1>0 DEF ClientInv, SwapInv
<1> QED
  BY <1>0, <1>1, SwapInvStep DEF CommitUpload

\* upload has locked the other active rows too, when it is to activate.
LEMMA UploadInv == ASSUME IInv, NEW w \in Workers, Upload(w) PROVE IInv'
<1>0. TypeOK /\ ClientInv /\ CertInv /\ SwapInv /\ AtMostOneActive
  BY DEF IInv
<1>1. /\ pc[w] = "uploading" /\ pc' = [pc EXCEPT ![w] = "uploaded"]
      /\ LockRows(w, IF next[w].active THEN OtherActive(cert[w]) ELSE {})
      /\ UNCHANGED <<rows, secrets, lock, cert, seen, next>>
  BY DEF Upload
<1>2. TypeOK'
  BY <1>0, <1>1 DEF TypeOK, LockRows
<1>3. ClientInv' /\ CertInv' /\ AtMostOneActive'
  BY <1>0, <1>1 DEF ClientInv, CertInv, AtMostOneActive, TypeOK
<1>4. SwapInv'
  <2> SUFFICES ASSUME NEW v \in Workers,
                      pc'[v] = "activated" \/ (pc'[v] = "uploaded" /\ next'[v].active),
                      NEW d \in Certs, d # cert'[v], rows'[d].active
               PROVE  rowLock'[d] = v
    BY DEF SwapInv
  <2>1. v = w /\ next[w].active
    BY <1>0, <1>1 DEF ClientInv, TypeOK
  <2>2. d \in OtherActive(cert[w])
    BY <2>1, <1>1 DEF OtherActive
  <2> QED
    BY <2>1, <2>2, <1>1 DEF LockRows
<1> QED
  BY <1>2, <1>3, <1>4 DEF IInv

\* Storing secrets touches no row, and neither does giving up.
LEMMA StoreInv ==
  ASSUME IInv, NEW w \in Workers, StoreSecret(w) \/ StoreFails(w) \/ Abort(w)
  PROVE  IInv'
<1>0. TypeOK /\ ClientInv /\ CertInv /\ SwapInv /\ AtMostOneActive
  BY DEF IInv
<1>1. CASE StoreSecret(w)
  <2>1. secrets' \in [Certs -> SUBSET {"pfx", "password"}]
        /\ UNCHANGED <<rows, lock, rowLock, local>>
    BY <1>1, <1>0 DEF StoreSecret, TypeOK
  <2> QED
    BY <2>1, <1>0 DEF IInv, TypeOK, ClientInv, CertInv, SwapInv, AtMostOneActive, local
<1>2. CASE StoreFails(w)
  <2>1. secrets' \in [Certs -> SUBSET {"pfx", "password"}]
    <3>1. PICK left \in SUBSET secrets[cert[w]] :
            secrets' = [secrets EXCEPT ![cert[w]] = left]
      BY <1>2 DEF StoreFails
    <3>2. cert[w] \in Certs
      BY <1>0, <1>2 DEF CertInv, StoreFails
    <3> QED
      BY <3>1, <3>2, <1>0 DEF TypeOK
  <2> QED
    BY <2>1, <1>2, <1>0, CloseInv DEF StoreFails, TypeOK
<1>3. CASE Abort(w)
  BY <1>3, <1>0, CloseInv DEF Abort, TypeOK
<1> QED
  BY <1>1, <1>2, <1>3
-----------------------------------------------------------------------------
(* The theorems                                                            *)

LEMMA StepInv == IInv /\ [Next]_vars => IInv'
<1> SUFFICES ASSUME IInv, [Next]_vars PROVE IInv'
  OBVIOUS
<1>1. ASSUME NEW c \in Certs, Register(c) PROVE IInv'
  BY <1>1, RegisterInv
<1>2. ASSUME NEW c \in Certs, NEW w \in Workers, Request(w, c) PROVE IInv'
  <2>1. next \in [Workers -> Row]
    BY DEF IInv, TypeOK
  <2>2. CASE BeginValidate(w, c)
    BY <2>1, <2>2, BeginInv DEF BeginValidate, Phases
  <2>3. CASE BeginDeactivate(w, c)
    BY <2>1, <2>3, BeginInv DEF BeginDeactivate, Phases
  <2>4. CASE BeginActivate(w, c)
    BY <2>1, <2>4, BeginInv DEF BeginActivate, Phases
  <2>5. ASSUME NEW p \in Prints, NEW a \in BOOLEAN, BeginUpload(w, c, p, a)
        PROVE  IInv'
    <3> DEFINE r == [source |-> "upload",
                     status |-> IF a THEN "active" ELSE "disabled",
                     active |-> a, print |-> p]
    <3>1. r \in Row
      BY DEF Row, Status
    <3>2. /\ next' = [next EXCEPT ![w] = r]
          /\ Begin(w, c, "uploading") /\ ClientLock(w)
      BY <2>5 DEF BeginUpload
    <3> HIDE DEF r
    <3>3. next' \in [Workers -> Row] /\ \A v \in Workers \ {w} : next'[v] = next[v]
      BY <2>1, <3>1, <3>2
    <3> QED
      BY <3>2, <3>3, BeginInv DEF Phases
  <2> QED
    BY <1>2, <2>2, <2>3, <2>4, <2>5 DEF Request
<1>3. ASSUME NEW w \in Workers, Progress(w) \/ Abort(w) PROVE IInv'
  BY <1>3, ValidateInv, DeactivateInv, ActivateInv, CommitActivateInv,
     StoreInv, UploadInv, CommitUploadInv DEF Progress
<1>4. CASE UNCHANGED vars
  BY <1>4 DEF vars, local, IInv, TypeOK, ClientInv, CertInv, SwapInv, AtMostOneActive
<1> QED
  BY <1>1, <1>2, <1>3, <1>4 DEF Next

\* The strengthening is an invariant of the registry.
THEOREM Invariance == Spec => []IInv
  BY InitInv, StepInv, PTL DEF Spec

\* Type correctness of the registry.
THEOREM TypeCorrect == Spec => []TypeOK
  BY Invariance, PTL DEF IInv

\* At most one certificate of a client and environment is active, for any
\* number of administrators, certificates and interleavings with the vault.
THEOREM OneIsActive == Spec => []AtMostOneActive
  BY Invariance, PTL DEF IInv

-----------------------------------------------------------------------------
(* Uploads                                                                 *)

\* A request on a certificate that exists has seen where it comes from, and for an
\* uploaded one the fingerprint, which never change.
SeenInv(w) ==
  pc[w] \in {"validating", "deactivating", "activating", "activated"} =>
    /\ Present(cert[w]) /\ seen[w].source = rows[cert[w]].source
    /\ seen[w].source = "upload" => seen[w].print = rows[cert[w]].print
    /\ pc[w] = "activated" =>
         /\ next[w].source = seen[w].source
         /\ seen[w].source = "upload" => next[w].print = seen[w].print

\* An upload works on an id that nobody else knows; under the lock of the client
\* no other upload takes its fingerprint.
StagedInv(w) ==
  pc[w] \in {"uploading", "uploaded"} =>
    /\ ~Present(cert[w]) /\ next[w].source = "upload"
    /\ \A d \in Certs : rows[d].source = "upload" => rows[d].print # next[w].print
    /\ \A v \in Workers : v # w => cert[v] # cert[w]
    /\ pc[w] = "uploaded" => secrets[cert[w]] = {"pfx", "password"}

UploadsInv == UploadedOnce /\ \A w \in Workers : SeenInv(w) /\ StagedInv(w)

\* The source of a row stays, and so does the fingerprint of an uploaded one.
Kept(c) == /\ rows'[c].source = rows[c].source
           /\ rows[c].source = "upload" => rows'[c].print = rows[c].print

\* A step of one request that uploads no row.
LEMMA KeptStep ==
  ASSUME IInv, UploadsInv, NEW w \in Workers,
         \A c \in Certs : Kept(c),
         \A v \in Workers : v # w => /\ pc'[v] = pc[v] /\ cert'[v] = cert[v]
                                     /\ seen'[v] = seen[v] /\ next'[v] = next[v],
         \A c \in Certs : secrets'[c] = secrets[c] \/ (pc[w] = "uploading" /\ c = cert[w]),
         \A v \in Workers : v # w /\ pc[v] \in {"uploading", "uploaded"} => cert'[w] # cert[v],
         SeenInv(w)', StagedInv(w)'
  PROVE  UploadsInv'
<1>1. ASSUME NEW v \in Workers, v # w PROVE SeenInv(v)' /\ StagedInv(v)'
  <2>1. SeenInv(v) /\ StagedInv(v) /\ (pc[v] # "idle" => cert[v] \in Certs)
    BY DEF UploadsInv, IInv, CertInv
  <2>2. SeenInv(v)'
    BY <1>1, <2>1 DEF SeenInv, Present, Kept
  <2>3. ASSUME pc[v] \in {"uploading", "uploaded"}
        PROVE  \A u \in Workers : u # v => cert'[u] # cert'[v]
    BY <1>1, <2>1, <2>3 DEF StagedInv
  <2>4. pc[v] = "uploaded" => secrets'[cert[v]] = secrets[cert[v]]
    BY <1>1, <2>1 DEF StagedInv
  <2>5. StagedInv(v)'
    BY <1>1, <2>1, <2>3, <2>4 DEF StagedInv, Present, Kept
  <2> QED BY <2>2, <2>5
<1>2. UploadedOnce'
  <2>1. \A c \in Certs : rows[c].source = "upload" => secrets'[c] = secrets[c]
    BY DEF UploadsInv, StagedInv, Present
  <2> QED BY <2>1 DEF UploadsInv, UploadedOnce, Kept
<1> QED BY <1>1, <1>2 DEF UploadsInv

\* A request that ends, having written no new source.
LEMMA CloseKept ==
  ASSUME IInv, UploadsInv, NEW w \in Workers, Close(w),
         \A c \in Certs : Kept(c),
         \A c \in Certs : secrets'[c] = secrets[c] \/ (pc[w] = "uploading" /\ c = cert[w])
  PROVE  UploadsInv'
<1>1. /\ pc'[w] = "idle" /\ cert'[w] = NoCert
      /\ \A v \in Workers : v # w => /\ pc'[v] = pc[v] /\ cert'[v] = cert[v]
                                     /\ seen'[v] = seen[v] /\ next'[v] = next[v]
  BY DEF Close, IInv, TypeOK
<1>2. SeenInv(w)' /\ StagedInv(w)'
  BY <1>1 DEF SeenInv, StagedInv
<1>3. \A v \in Workers : v # w /\ pc[v] \in {"uploading", "uploaded"} => cert'[w] # cert[v]
  BY <1>1 DEF IInv, CertInv
<1> QED BY <1>1, <1>2, <1>3, KeptStep

\* The flush of a row that keeps source and fingerprint as they were loaded.
LEMMA FlushKeeps ==
  ASSUME NEW r \in Row, NEW s \in Row, NEW n \in Row,
         s.source = r.source, n.source = s.source,
         s.source = "upload" => n.print = s.print
  PROVE  LET f == Flush(r, s, n) IN
         f.source = r.source /\ (r.source = "upload" => f.print = r.print)
BY DEF Flush, Row

\* What a row is and what was seen of it, when a request closes on an existing row.
LEMMA CloseWrite ==
  ASSUME IInv, UploadsInv, NEW w \in Workers, Close(w), NEW n \in Row,
         pc[w] \in {"validating", "deactivating", "activating", "activated"},
         n.source = seen[w].source, seen[w].source = "upload" => n.print = seen[w].print,
         \A c \in Certs : c # cert[w] => Kept(c),
         rows'[cert[w]] = Flush(rows[cert[w]], seen[w], n), UNCHANGED secrets
  PROVE  UploadsInv'
<1>1. /\ cert[w] \in Certs /\ rows[cert[w]] \in Row /\ seen[w] \in Row
  BY DEF IInv, TypeOK, CertInv
<1>2. seen[w].source = rows[cert[w]].source
  BY DEF UploadsInv, SeenInv
<1>3. Kept(cert[w])
  BY <1>1, <1>2, FlushKeeps DEF Kept
<1> QED BY <1>3, CloseKept

LEMMA UploadsInit == Init => UploadsInv
BY DEF Init, UploadsInv, UploadedOnce, SeenInv, StagedInv, NoRow

LEMMA UploadsStep == IInv /\ UploadsInv /\ [Next]_vars => UploadsInv'
<1> SUFFICES ASSUME IInv, UploadsInv, [Next]_vars PROVE UploadsInv'
  OBVIOUS
<1>1. TypeOK /\ ClientInv /\ CertInv
  BY DEF IInv
<1>2. ASSUME NEW c \in Certs, Register(c) PROVE UploadsInv'
  <2>1. /\ ~Present(c) /\ \A v \in Workers : cert[v] # c
        /\ UNCHANGED <<secrets, pc, cert, seen, next>>
    BY <1>2 DEF Register, local
  <2> DEFINE fresh == [NoRow EXCEPT !.source = "register"]
  <2>2. fresh.source = "register" /\ rows' = [rows EXCEPT ![c] = fresh]
    BY <1>2 DEF Register, NoRow
  <2> HIDE DEF fresh
  <2>3. rows'[c].source = "register" /\ \A d \in Certs : d # c => rows'[d] = rows[d]
    BY <1>1, <2>2 DEF TypeOK
  <2>4. UploadedOnce'
    BY <2>1, <2>3 DEF UploadsInv, UploadedOnce
  <2>5. ASSUME NEW v \in Workers PROVE SeenInv(v)' /\ StagedInv(v)'
    <3>1. SeenInv(v) /\ StagedInv(v) /\ (pc[v] # "idle" => cert[v] \in Certs) /\ cert[v] # c
      BY <1>1, <2>1 DEF UploadsInv, CertInv
    <3>2. SeenInv(v)'
      BY <2>1, <2>3, <3>1 DEF SeenInv, Present
    <3>3. StagedInv(v)'
      BY <2>1, <2>3, <3>1 DEF StagedInv, Present
    <3> QED BY <3>2, <3>3
  <2> QED BY <2>4, <2>5 DEF UploadsInv
<1>3. ASSUME NEW w \in Workers, NEW c \in Certs, NEW phase, Begin(w, c, phase),
             phase \in {"validating", "deactivating", "activating"}, Present(c),
             \A v \in Workers : v # w => next'[v] = next[v]
      PROVE  UploadsInv'
  <2>1. /\ pc'[w] = phase /\ cert'[w] = c /\ seen'[w] = rows[c]
        /\ \A v \in Workers : v # w => /\ pc'[v] = pc[v] /\ cert'[v] = cert[v]
                                       /\ seen'[v] = seen[v]
        /\ UNCHANGED <<rows, secrets>>
    BY <1>1, <1>3 DEF Begin, TypeOK
  <2>2. \A d \in Certs : Kept(d)
    BY <2>1 DEF Kept
  <2>3. SeenInv(w)' /\ StagedInv(w)'
    BY <1>3, <2>1 DEF SeenInv, StagedInv, Present
  <2>4. \A v \in Workers : v # w /\ pc[v] \in {"uploading", "uploaded"} => cert'[w] # cert[v]
    BY <1>3, <2>1 DEF UploadsInv, StagedInv
  <2> QED BY <1>3, <2>1, <2>2, <2>3, <2>4, KeptStep
<1>4. ASSUME NEW w \in Workers, NEW c \in Certs, NEW p \in Prints, NEW a \in BOOLEAN,
             BeginUpload(w, c, p, a)
      PROVE  UploadsInv'
  <2> DEFINE r == [source |-> "upload", status |-> IF a THEN "active" ELSE "disabled",
                   active |-> a, print |-> p]
  <2>1. r.source = "upload" /\ r.print = p /\ next' = [next EXCEPT ![w] = r]
    BY <1>4 DEF BeginUpload
  <2> HIDE DEF r
  <2>2. /\ pc'[w] = "uploading" /\ cert'[w] = c /\ next'[w] = r
        /\ \A v \in Workers : v # w => /\ pc'[v] = pc[v] /\ cert'[v] = cert[v]
                                       /\ seen'[v] = seen[v] /\ next'[v] = next[v]
        /\ UNCHANGED <<rows, secrets>>
    BY <1>1, <1>4, <2>1 DEF BeginUpload, Begin, TypeOK
  <2>3. /\ ~Present(c) /\ \A v \in Workers : cert[v] # c
        /\ \A d \in Certs : rows[d].print # p
    BY <1>4 DEF BeginUpload
  <2>4. \A d \in Certs : Kept(d)
    BY <2>2 DEF Kept
  <2>5. SeenInv(w)' /\ StagedInv(w)'
    BY <2>1, <2>2, <2>3 DEF SeenInv, StagedInv, Present
  <2> QED BY <2>2, <2>3, <2>4, <2>5, KeptStep
<1>5. ASSUME NEW w \in Workers, NEW c \in Certs, Request(w, c) PROVE UploadsInv'
  BY <1>1, <1>3, <1>4, <1>5 DEF Request, BeginValidate, BeginDeactivate, BeginActivate, TypeOK
<1>6. ASSUME NEW w \in Workers, Validate(w) PROVE UploadsInv'
  <2>1. /\ cert[w] \in Certs /\ seen[w] \in Row /\ pc[w] = "validating" /\ Close(w)
        /\ secrets' = secrets
    BY <1>1, <1>6 DEF Validate, CertInv, TypeOK
  <2>2. PICK new \in {Invalid(seen[w])} \cup {Validated(seen[w], p) : p \in Loaded(seen[w])} :
          rows' = [rows EXCEPT ![cert[w]] = Flush(@, seen[w], new)]
    BY <1>6 DEF Validate
  <2>3. /\ new \in Row /\ new.source = seen[w].source
        /\ seen[w].source = "upload" => new.print = seen[w].print
    <3>1. CASE new = Invalid(seen[w])
      BY <2>1, <3>1 DEF Invalid, Row, Status
    <3>2. ASSUME NEW p \in Loaded(seen[w]), new = Validated(seen[w], p)
          PROVE  /\ new \in Row /\ new.source = seen[w].source
                 /\ seen[w].source = "upload" => new.print = seen[w].print
      <4>1. p \in Prints \cup {NoPrint} /\ (seen[w].source = "upload" => p = seen[w].print)
        BY <2>1 DEF Loaded, Row
      <4> QED BY <2>1, <3>2, <4>1 DEF Validated, Row, Status
    <3> QED BY <2>2, <3>1, <3>2
  <2>4. /\ rows'[cert[w]] = Flush(rows[cert[w]], seen[w], new)
        /\ \A c \in Certs : c # cert[w] => Kept(c)
    BY <1>1, <2>1, <2>2 DEF TypeOK, Kept
  <2> QED BY <2>1, <2>3, <2>4, CloseWrite
<1>7. ASSUME NEW w \in Workers, Deactivate(w) PROVE UploadsInv'
  <2>1. /\ cert[w] \in Certs /\ seen[w] \in Row /\ pc[w] = "deactivating" /\ Close(w)
        /\ secrets' = secrets
        /\ rows' = [rows EXCEPT ![cert[w]] = Flush(@, seen[w], Disabled(seen[w]))]
    BY <1>1, <1>7 DEF Deactivate, CertInv, TypeOK
  <2>2. /\ Disabled(seen[w]) \in Row /\ Disabled(seen[w]).source = seen[w].source
        /\ Disabled(seen[w]).print = seen[w].print
    BY <2>1, DisabledType DEF Disabled, Row
  <2>3. /\ rows'[cert[w]] = Flush(rows[cert[w]], seen[w], Disabled(seen[w]))
        /\ \A c \in Certs : c # cert[w] => Kept(c)
    BY <1>1, <2>1 DEF TypeOK, Kept
  <2> QED BY <2>1, <2>2, <2>3, CloseWrite
<1>8. ASSUME NEW w \in Workers, Activate(w) PROVE UploadsInv'
  <2>1. PICK p \in Loaded(seen[w]) :
          next' = [next EXCEPT ![w] = [seen[w] EXCEPT !.print = p, !.active = TRUE,
                                                      !.status = "active"]]
    BY <1>8 DEF Activate
  <2> DEFINE n == [seen[w] EXCEPT !.print = p, !.active = TRUE, !.status = "active"]
  <2>2. seen[w] \in Row /\ pc[w] = "activating"
    BY <1>1, <1>8 DEF TypeOK, Activate
  <2>3. /\ n.source = seen[w].source
        /\ seen[w].source = "upload" => n.print = seen[w].print
    BY <2>1, <2>2 DEF Loaded, Row
  <2>4. next' = [next EXCEPT ![w] = n]
    BY <2>1
  <2> HIDE DEF n
  <2>5. /\ pc'[w] = "activated" /\ next'[w] = n
        /\ \A v \in Workers : v # w => pc'[v] = pc[v] /\ next'[v] = next[v]
        /\ UNCHANGED <<rows, secrets, cert, seen>>
    BY <1>1, <1>8, <2>4 DEF Activate, TypeOK
  <2>6. SeenInv(w)' /\ StagedInv(w)'
    BY <2>2, <2>3, <2>5 DEF UploadsInv, SeenInv, StagedInv, Present
  <2>7. \A c \in Certs : Kept(c)
    BY <2>5 DEF Kept
  <2>8. \A v \in Workers : v # w /\ pc[v] \in {"uploading", "uploaded"} => cert'[w] # cert[v]
    BY <2>5 DEF UploadsInv, StagedInv
  <2> QED BY <2>5, <2>6, <2>7, <2>8, KeptStep
<1>9. ASSUME NEW w \in Workers, CommitActivate(w) PROVE UploadsInv'
  <2>1. /\ cert[w] \in Certs /\ next[w] \in Row /\ pc[w] = "activated" /\ Close(w)
        /\ secrets' = secrets /\ rows \in [Certs -> Row]
        /\ rows' = [c \in Certs |->
             IF c = cert[w] THEN Flush(rows[c], seen[w], next[w])
             ELSE IF rowLock[c] = w THEN Disabled(rows[c]) ELSE rows[c]]
    BY <1>1, <1>9 DEF CommitActivate, CertInv, TypeOK
  <2>2. \A c \in Certs : c # cert[w] => Kept(c)
    BY <2>1 DEF Kept, Disabled, Row
  <2>3. /\ next[w].source = seen[w].source
        /\ seen[w].source = "upload" => next[w].print = seen[w].print
    BY <2>1 DEF UploadsInv, SeenInv
  <2> QED BY <2>1, <2>2, <2>3, CloseWrite
<1>10. ASSUME NEW w \in Workers, StoreSecret(w) PROVE UploadsInv'
  <2>1. /\ pc[w] = "uploading" /\ cert[w] \in Certs
        /\ UNCHANGED <<rows, pc, cert, seen, next>>
    BY <1>1, <1>10 DEF StoreSecret, CertInv, local
  <2>2. \A c \in Certs : c # cert[w] => secrets'[c] = secrets[c]
    BY <1>1, <1>10 DEF StoreSecret, TypeOK
  <2>3. SeenInv(w)' /\ StagedInv(w)'
    BY <2>1 DEF UploadsInv, SeenInv, StagedInv, Present
  <2>4. \A v \in Workers : v # w /\ pc[v] \in {"uploading", "uploaded"} => cert'[w] # cert[v]
    BY <2>1 DEF UploadsInv, StagedInv
  <2>5. \A c \in Certs : Kept(c)
    BY <2>1 DEF Kept
  <2> QED BY <2>1, <2>2, <2>3, <2>4, <2>5, KeptStep
<1>11. ASSUME NEW w \in Workers, StoreFails(w) PROVE UploadsInv'
  <2>1. pc[w] = "uploading" /\ Close(w) /\ rows' = rows
        /\ \A c \in Certs : c # cert[w] => secrets'[c] = secrets[c]
    BY <1>1, <1>11 DEF StoreFails, TypeOK
  <2> QED BY <2>1, CloseKept DEF Kept
<1>12. ASSUME NEW w \in Workers, Abort(w) PROVE UploadsInv'
  BY <1>12, CloseKept DEF Abort, Kept
<1>13. ASSUME NEW w \in Workers, Upload(w) PROVE UploadsInv'
  <2>1. /\ pc[w] = "uploading" /\ pc'[w] = "uploaded" /\ Confirmed(cert[w])
        /\ \A v \in Workers : v # w => pc'[v] = pc[v]
        /\ UNCHANGED <<rows, secrets, cert, seen, next>>
    BY <1>1, <1>13 DEF Upload, TypeOK
  <2>2. SeenInv(w)' /\ StagedInv(w)'
    BY <2>1 DEF UploadsInv, SeenInv, StagedInv, Present, Confirmed
  <2>3. \A v \in Workers : v # w /\ pc[v] \in {"uploading", "uploaded"} => cert'[w] # cert[v]
    BY <2>1 DEF UploadsInv, StagedInv
  <2>4. \A c \in Certs : Kept(c)
    BY <2>1 DEF Kept
  <2> QED BY <2>1, <2>2, <2>3, <2>4, KeptStep
<1>14. ASSUME NEW w \in Workers, CommitUpload(w) PROVE UploadsInv'
  <2>1. /\ cert[w] \in Certs /\ next[w] \in Row /\ pc[w] = "uploaded" /\ Close(w)
        /\ secrets' = secrets /\ rows \in [Certs -> Row] /\ lock = w
        /\ rows' = [c \in Certs |->
             IF c = cert[w] THEN next[w]
             ELSE IF rowLock[c] = w THEN Disabled(rows[c]) ELSE rows[c]]
    BY <1>1, <1>14 DEF CommitUpload, CertInv, ClientInv, TypeOK
  <2>2. /\ next[w].source = "upload" /\ secrets[cert[w]] = {"pfx", "password"}
        /\ ~Present(cert[w]) /\ StagedInv(w)
        /\ \A d \in Certs : rows[d].source = "upload" => rows[d].print # next[w].print
    BY <2>1 DEF UploadsInv, StagedInv
  <2>3. \A c \in Certs : c # cert[w] => Kept(c)
    BY <2>1 DEF Kept, Disabled, Row
  <2>4. rows'[cert[w]] = next[w]
    BY <2>1
  <2>5. UploadedOnce'
    <3>1. \A c \in Certs : rows'[c].source = "upload" /\ c # cert[w]
            => /\ rows[c].source = "upload" /\ rows'[c].print = rows[c].print
               /\ rows[c].print # next[w].print /\ secrets[c] = {"pfx", "password"}
      BY <2>2, <2>3 DEF UploadsInv, UploadedOnce, Kept
    <3>2. \A c, d \in Certs : c # cert[w] /\ d # cert[w] /\ rows'[c].source = "upload"
            /\ rows'[d].source = "upload" /\ rows'[c].print = rows'[d].print => c = d
      BY <3>1 DEF UploadsInv, UploadedOnce
    <3> SUFFICES ASSUME NEW c \in Certs, NEW d \in Certs, rows'[c].source = "upload"
                 PROVE  /\ secrets'[c] = {"pfx", "password"}
                        /\ rows'[d].source = "upload" /\ rows'[c].print = rows'[d].print
                             => c = d
      BY DEF UploadedOnce
    <3>3. secrets'[c] = {"pfx", "password"}
      BY <2>1, <2>2, <3>1
    <3>4. ASSUME rows'[d].source = "upload", rows'[c].print = rows'[d].print PROVE c = d
      BY <2>4, <3>1, <3>2, <3>4
    <3> QED BY <3>3, <3>4
  <2>6. /\ pc'[w] = "idle" /\ cert'[w] = NoCert
        /\ \A v \in Workers : v # w => /\ pc'[v] = pc[v] /\ cert'[v] = cert[v]
                                       /\ seen'[v] = seen[v] /\ next'[v] = next[v]
    BY <1>1, <2>1 DEF Close, TypeOK
  <2>7. SeenInv(w)' /\ StagedInv(w)'
    BY <2>6 DEF SeenInv, StagedInv
  <2>8. ASSUME NEW v \in Workers, v # w PROVE SeenInv(v)' /\ StagedInv(v)'
    <3>1. /\ SeenInv(v) /\ cert[v] # cert[w] /\ (pc[v] # "idle" => cert[v] \in Certs)
          /\ pc[v] \notin {"uploading", "uploaded"}
      BY <1>1, <2>1, <2>2, <2>8 DEF UploadsInv, StagedInv, CertInv, ClientInv
    <3> QED BY <2>3, <2>6, <2>8, <3>1 DEF SeenInv, StagedInv, Present, Kept
  <2> QED BY <2>5, <2>7, <2>8 DEF UploadsInv
<1>15. CASE UNCHANGED vars
  BY <1>15 DEF vars, local, UploadsInv, UploadedOnce, SeenInv, StagedInv, Present
<1> QED BY <1>2, <1>5, <1>6, <1>7, <1>8, <1>9, <1>10, <1>11, <1>12, <1>13, <1>14, <1>15
     DEF Next, Progress

\* A certificate is uploaded once, and its row finds both secrets in the vault,
\* however uploads, failures of the vault and validations interleave.
THEOREM UploadsOnce == Spec => []UploadedOnce
<1>1. UploadsInv => UploadedOnce
  BY DEF UploadsInv
<1> QED BY <1>1, UploadsInit, UploadsStep, Invariance, PTL DEF Spec

\* Whoever takes the place of the active certificate disables it in that commit.
THEOREM ReplacementDisables == Spec => ReplacedIsDisabled
<1> DEFINE Step == \A c, d \in Certs :
             c # d /\ rows[c].active /\ ~rows[d].active /\ rows'[d].active
               => rows'[c].status = "disabled" /\ ~rows'[c].active
                  /\ rows'[c].source = rows[c].source
<1>1. IInv /\ [Next]_vars => Step
  <2> SUFFICES ASSUME IInv, [Next]_vars, NEW c \in Certs, NEW d \in Certs,
                      c # d, rows[c].active, ~rows[d].active, rows'[d].active
               PROVE  /\ rows'[c].status = "disabled" /\ ~rows'[c].active
                      /\ rows'[c].source = rows[c].source
    OBVIOUS
  <2>1. TypeOK /\ CertInv /\ SwapInv /\ rows \in [Certs -> Row]
    BY DEF IInv, TypeOK
  <2>2. ASSUME NEW e \in Certs, Register(e) PROVE FALSE
    <3> DEFINE fresh == [NoRow EXCEPT !.source = "register"]
    <3>1. fresh.active = FALSE /\ rows' = [rows EXCEPT ![e] = fresh]
      BY <2>2 DEF Register, NoRow
    <3> HIDE DEF fresh
    <3> QED BY <2>1, <3>1
  <2>3. ASSUME NEW w \in Workers, Validate(w) PROVE FALSE
    <3>1. cert[w] \in Certs /\ seen[w] \in Row /\ rows[cert[w]] \in Row
      BY <2>1, <2>3 DEF Validate, CertInv, TypeOK
    <3>2. PICK new \in {Invalid(seen[w])} \cup {Validated(seen[w], p) : p \in Loaded(seen[w])} :
            rows' = [rows EXCEPT ![cert[w]] = Flush(@, seen[w], new)]
      BY <2>3 DEF Validate
    <3>3. new \in Row /\ (new.active = FALSE \/ new.active = seen[w].active)
      <4>1. CASE new = Invalid(seen[w])
        BY <3>1, <4>1 DEF Invalid, Row, Status
      <4>2. ASSUME NEW p \in Loaded(seen[w]), new = Validated(seen[w], p)
            PROVE  new \in Row /\ new.active = seen[w].active
        BY <3>1, <4>2 DEF Validated, Loaded, Row, Status
      <4> QED BY <3>2, <4>1, <4>2
    <3>4. Flush(rows[cert[w]], seen[w], new).active => rows[cert[w]].active
      BY <3>1, <3>3, FlushResets
    <3> QED BY <2>1, <3>1, <3>2, <3>4
  <2>4. ASSUME NEW w \in Workers, Deactivate(w) PROVE FALSE
    <3>1. /\ cert[w] \in Certs /\ seen[w] \in Row /\ rows[cert[w]] \in Row
          /\ rows' = [rows EXCEPT ![cert[w]] = Flush(@, seen[w], Disabled(seen[w]))]
      BY <2>1, <2>4 DEF Deactivate, CertInv, TypeOK
    <3>2. Flush(rows[cert[w]], seen[w], Disabled(seen[w])).active => rows[cert[w]].active
      BY <3>1, FlushResets, DisabledType
    <3> QED BY <2>1, <3>1, <3>2
  <2>5. ASSUME NEW w \in Workers, NEW r,
               \A e \in Certs : rows'[e] = IF e = cert[w] THEN r
                                          ELSE IF rowLock[e] = w THEN Disabled(rows[e])
                                          ELSE rows[e],
               r.active => \A e \in Certs : e # cert[w] /\ rows[e].active => rowLock[e] = w
        PROVE  /\ rows'[c].status = "disabled" /\ ~rows'[c].active
               /\ rows'[c].source = rows[c].source
    <3>1. \A e \in Certs : e # cert[w] /\ rows'[e].active => rows[e].active
      BY <2>1, <2>5, DisabledType
    <3>2. d = cert[w] /\ rows'[d] = r
      BY <2>5, <3>1
    <3>3. rows'[c] = Disabled(rows[c]) /\ rows[c] \in Row
      BY <2>1, <2>5, <3>2
    <3>4. Disabled(rows[c]).active = FALSE
      BY <3>3, DisabledType
    <3> QED BY <3>3, <3>4, DisabledType
  <2>6. ASSUME NEW w \in Workers, CommitActivate(w)
        PROVE  /\ rows'[c].status = "disabled" /\ ~rows'[c].active
               /\ rows'[c].source = rows[c].source
    BY <2>1, <2>5, <2>6 DEF CommitActivate, SwapInv
  <2>7. ASSUME NEW w \in Workers, CommitUpload(w)
        PROVE  /\ rows'[c].status = "disabled" /\ ~rows'[c].active
               /\ rows'[c].source = rows[c].source
    BY <2>1, <2>5, <2>7 DEF CommitUpload, SwapInv
  <2>8. rows' # rows
    OBVIOUS
  <2>9. ASSUME NEW w \in Workers, NEW e \in Certs, Request(w, e) PROVE FALSE
    BY <2>8, <2>9 DEF Request, BeginValidate, BeginDeactivate, BeginActivate, BeginUpload, Begin
  <2>10. ASSUME NEW w \in Workers,
                \/ Activate(w) \/ StoreSecret(w) \/ StoreFails(w) \/ Upload(w) \/ Abort(w)
         PROVE  FALSE
    BY <2>8, <2>10 DEF Activate, StoreSecret, StoreFails, Upload, Abort
  <2> QED BY <2>2, <2>3, <2>4, <2>6, <2>7, <2>8, <2>9, <2>10 DEF Next, Progress, vars
<1>2. Spec => [][Step]_vars
  BY <1>1, Invariance, PTL DEF Spec
<1> QED BY <1>2, PTL DEF ReplacedIsDisabled
=============================================================================
