-------------------------- MODULE FiscalCertificates --------------------------
(***************************************************************************)
(* The A1 certificates of one client and environment: the rows of          *)
(* fiscal_certificates that FiscalCertificateRegistry keeps, and the       *)
(* secrets that an upload stores in the vault before its row exists.       *)
(*                                                                         *)
(* upload and activate lock the row of the client; validate and deactivate *)
(* lock nothing before their writes are flushed.  All but deactivate and   *)
(* register call the vault between reading a row and writing it.  A write  *)
(* changes the columns that differ from what the session loaded.           *)
(***************************************************************************)
EXTENDS Integers, FiniteSets

CONSTANTS Workers,   \* request transactions that may be open at once
          Certs,     \* bound: ids (uuid4) of certificates ever created
          Prints,    \* SHA-256 fingerprints of A1 certificates of the client
          NoPrint,   \* the fingerprint column is NULL
          NoCert,    \* no certificate
          Nobody     \* the lock holder when a row is not locked

ASSUME NoneAssumption ==
  NoPrint \notin Prints /\ NoCert \notin Certs /\ Nobody \notin Workers

VARIABLES rows,     \* the committed rows of fiscal_certificates
          secrets,  \* the secrets in the vault that uploads created
          lock,     \* the transaction that locks the row of the client
          rowLock,  \* the transaction that locks the row of a certificate
          pc,       \* where the request of each worker is
          cert,     \* the certificate it works on
          seen,     \* the row of that certificate as its session loaded it
          next      \* the row that it is going to write

local == <<pc, cert, seen, next>>
vars  == <<rows, secrets, lock, rowLock, local>>

\* The statuses that the registry writes: EXPIRED is only computed for display,
\* REVOKED is never set.
Status == {"pending_validation", "active", "disabled", "invalid"}

\* source: the row references secrets of an upload, or secrets that the
\* administrator named (register).
Row == [source : {"none", "upload", "register"}, status : Status,
        active : BOOLEAN, print : Prints \cup {NoPrint}]

NoRow == [source |-> "none", status |-> "pending_validation", active |-> FALSE,
          print |-> NoPrint]

Present(c) == rows[c].source # "none"

Init ==
  /\ rows = [c \in Certs |-> NoRow]
  /\ secrets = [c \in Certs |-> {}]
  /\ lock = Nobody /\ rowLock = [c \in Certs |-> Nobody]
  /\ pc = [w \in Workers |-> "idle"]
  /\ cert = [w \in Workers |-> NoCert]
  /\ seen = [w \in Workers |-> NoRow]
  /\ next = [w \in Workers |-> NoRow]

\* SQLAlchemy's UPDATE: a column is written when it differs from what was loaded.
Flush(row, loaded, new) ==
  [f \in DOMAIN row |-> IF new[f] = loaded[f] THEN row[f] ELSE new[f]]

\* Planted bug: the flag is reset, the status is not.
DisabledByFlag(row) == [row EXCEPT !.active = FALSE]

Disabled(row) == [row EXCEPT !.active = FALSE, !.status = "disabled"]

\* The database session ends with the request, and so do its locks.
Close(w) ==
  /\ pc' = [pc EXCEPT ![w] = "idle"]
  /\ cert' = [cert EXCEPT ![w] = NoCert]
  /\ seen' = [seen EXCEPT ![w] = NoRow]
  /\ next' = [next EXCEPT ![w] = NoRow]
  /\ lock' = IF lock = w THEN Nobody ELSE lock
  /\ rowLock' = [c \in Certs |-> IF rowLock[c] = w THEN Nobody ELSE rowLock[c]]

\* The request reads the row of c, if it exists, without a lock on it.
Begin(w, c, phase) ==
  /\ pc[w] = "idle"
  /\ pc' = [pc EXCEPT ![w] = phase]
  /\ cert' = [cert EXCEPT ![w] = c]
  /\ seen' = [seen EXCEPT ![w] = rows[c]]
  /\ UNCHANGED <<rows, secrets, rowLock>>

\* Planted bug: the client is read without FOR UPDATE.
NoClientLock(w) == lock' = lock

\* Client.query ... with_for_update()
ClientLock(w) == lock = Nobody /\ lock' = w

\* What the vault and the inspector make of the references of a row: the
\* fingerprint of the certificate, which for a registered reference may be any.
Loaded(row) == IF row.source = "upload" THEN {row.print} ELSE Prints

-----------------------------------------------------------------------------
(* register, validate, deactivate                                          *)

\* One INSERT, with references that no other row of the organization has.
Register(c) ==
  /\ ~Present(c) /\ secrets[c] = {} /\ \A w \in Workers : cert[w] # c
  /\ rows' = [rows EXCEPT ![c] = [NoRow EXCEPT !.source = "register"]]
  /\ UNCHANGED <<secrets, lock, rowLock, local>>

BeginValidate(w, c) ==
  /\ Present(c)
  /\ Begin(w, c, "validating")
  /\ UNCHANGED <<lock, next>>

\* Planted bug: validate stores the status that is computed for display.
Expired(row) == [row EXCEPT !.status = "expired", !.active = FALSE]

Invalid(row) == [row EXCEPT !.status = "invalid", !.active = FALSE]

\* Status and flag as validate leaves them when the certificate is good.
Validated(row, p) ==
  [row EXCEPT !.print = p,
              !.status = IF row.active THEN "active" ELSE "disabled"]

\* The vault answers: the metadata and the status, or the error, are committed.
Validate(w) ==
  /\ pc[w] = "validating"
  /\ rowLock[cert[w]] = Nobody
  /\ \E new \in {Invalid(seen[w])} \cup {Validated(seen[w], p) : p \in Loaded(seen[w])} :
       rows' = [rows EXCEPT ![cert[w]] = Flush(@, seen[w], new)]
  /\ Close(w)
  /\ UNCHANGED secrets

BeginDeactivate(w, c) ==
  /\ Present(c)
  /\ Begin(w, c, "deactivating")
  /\ UNCHANGED <<lock, next>>

Deactivate(w) ==
  /\ pc[w] = "deactivating"
  /\ rowLock[cert[w]] = Nobody
  /\ rows' = [rows EXCEPT ![cert[w]] = Flush(@, seen[w], Disabled(seen[w]))]
  /\ Close(w)
  /\ UNCHANGED secrets

-----------------------------------------------------------------------------
(* activate                                                                *)

BeginActivate(w, c) ==
  /\ Present(c)
  /\ ClientLock(w)
  /\ Begin(w, c, "activating")
  /\ UNCHANGED next

\* Planted bug: only rows whose status is active are disabled.
OthersByStatus(c) == {d \in Certs \ {c} : rows[d].status = "active"}

\* The rows that _disable_other_active selects FOR UPDATE.
OtherActive(c) == {d \in Certs \ {c} : rows[d].active}

\* The row itself and the ones to disable are locked until the commit.
LockRows(w, S) ==
  /\ \A d \in S : rowLock[d] = Nobody
  /\ rowLock' = [d \in Certs |-> IF d \in S THEN w ELSE rowLock[d]]

\* The vault answers: the metadata is flushed and the other rows are locked.
Activate(w) ==
  /\ pc[w] = "activating"
  /\ \E p \in Loaded(seen[w]) :
       next' = [next EXCEPT ![w] = [seen[w] EXCEPT !.print = p, !.active = TRUE,
                                                   !.status = "active"]]
  /\ LockRows(w, {cert[w]} \cup OtherActive(cert[w]))
  /\ pc' = [pc EXCEPT ![w] = "activated"]
  /\ UNCHANGED <<rows, secrets, lock, cert, seen>>

\* The route commits: one row is active, the locked others are disabled.
CommitActivate(w) ==
  /\ pc[w] = "activated"
  /\ rows' = [c \in Certs |->
       IF c = cert[w] THEN Flush(rows[c], seen[w], next[w])
       ELSE IF rowLock[c] = w THEN Disabled(rows[c])
       ELSE rows[c]]
  /\ Close(w)
  /\ UNCHANGED secrets

-----------------------------------------------------------------------------
(* upload                                                                  *)

\* A new id, a certificate that the inspector accepts and that no row of the
\* client has yet; the client stays locked while the vault stores it.
BeginUpload(w, c, p, activate) ==
  /\ ~Present(c) /\ secrets[c] = {} /\ \A v \in Workers : cert[v] # c
  /\ \A d \in Certs : rows[d].print # p
  /\ ClientLock(w)
  /\ Begin(w, c, "uploading")
  /\ next' = [next EXCEPT ![w] =
       [source |-> "upload", status |-> IF activate THEN "active" ELSE "disabled",
        active |-> activate, print |-> p]]

\* GcpSecretManagerCertificateVault.store: the file, then the password.
StoreSecret(w) ==
  /\ pc[w] = "uploading"
  /\ \/ secrets[cert[w]] = {} /\ secrets' = [secrets EXCEPT ![cert[w]] = {"pfx"}]
     \/ secrets[cert[w]] = {"pfx"}
        /\ secrets' = [secrets EXCEPT ![cert[w]] = {"pfx", "password"}]
  /\ UNCHANGED <<rows, lock, rowLock, local>>

\* Something fails on the way: the secrets created so far are deleted, as far
\* as the deletions succeed, and the request is refused.
StoreFails(w) ==
  /\ pc[w] = "uploading"
  /\ \E left \in SUBSET secrets[cert[w]] :
       secrets' = [secrets EXCEPT ![cert[w]] = left]
  /\ Close(w)
  /\ UNCHANGED rows

\* Both secrets were read back as they were written.
Confirmed(c) == secrets[c] = {"pfx", "password"}

Upload(w) ==
  /\ pc[w] = "uploading"
  /\ Confirmed(cert[w])
  /\ LockRows(w, IF next[w].active THEN OtherActive(cert[w]) ELSE {})
  /\ pc' = [pc EXCEPT ![w] = "uploaded"]
  /\ UNCHANGED <<rows, secrets, lock, cert, seen, next>>

CommitUpload(w) ==
  /\ pc[w] = "uploaded"
  /\ rows' = [c \in Certs |->
       IF c = cert[w] THEN next[w]
       ELSE IF rowLock[c] = w THEN Disabled(rows[c])
       ELSE rows[c]]
  /\ Close(w)
  /\ UNCHANGED secrets

-----------------------------------------------------------------------------
\* The vault or the inspector refuses (activate), the commit fails or gunicorn
\* kills the worker: rollback.  The vault is not part of the transaction.
Abort(w) ==
  /\ pc[w] # "idle"
  /\ Close(w)
  /\ UNCHANGED <<rows, secrets>>

Progress(w) == \/ Validate(w) \/ Deactivate(w)
               \/ Activate(w) \/ CommitActivate(w)
               \/ StoreSecret(w) \/ StoreFails(w) \/ Upload(w) \/ CommitUpload(w)

Request(w, c) == \/ BeginValidate(w, c) \/ BeginDeactivate(w, c)
                 \/ BeginActivate(w, c)
                 \/ \E p \in Prints, a \in BOOLEAN : BeginUpload(w, c, p, a)

Next == \/ \E c \in Certs : Register(c) \/ \E w \in Workers : Request(w, c)
        \/ \E w \in Workers : Progress(w) \/ Abort(w)

Spec == Init /\ [][Next]_vars

-----------------------------------------------------------------------------
(* Properties                                                              *)

\* Every variable holds a value of its column or of the code's variable; the
\* status of a row is one of the four that the registry writes.
TypeOK ==
  /\ rows \in [Certs -> Row]
  /\ secrets \in [Certs -> SUBSET {"pfx", "password"}]
  /\ lock \in Workers \cup {Nobody}
  /\ rowLock \in [Certs -> Workers \cup {Nobody}]
  /\ pc \in [Workers -> {"idle", "validating", "deactivating", "activating",
                         "activated", "uploading", "uploaded"}]
  /\ cert \in [Workers -> Certs \cup {NoCert}]
  /\ seen \in [Workers -> Row]
  /\ next \in [Workers -> Row]

\* No two certificates of a client and environment are active, whatever
\* administrators do at the same time: active_for never has to refuse a
\* signature because there is more than one (docs/NFE_IMPORT_TESTING.md,
\* "Somente um certificado pode permanecer ativo").
AtMostOneActive ==
  \A c, d \in Certs : rows[c].active /\ rows[d].active => c = d

\* One A1 certificate is uploaded once per client, even by two requests at the
\* same time ("Este certificado A1 ja esta cadastrado para o cliente"), and its
\* row always finds both of its secrets in the vault, however the calls fail.
UploadedOnce ==
  \A c, d \in Certs :
    rows[c].source = "upload" =>
      /\ secrets[c] = {"pfx", "password"}
      /\ rows[d].source = "upload" /\ rows[c].print = rows[d].print => c = d

\* A certificate never takes the place of another one silently: the one that
\* was active before turns disabled in the same commit, and stays listed.
ReplacedIsDisabled ==
  [][\A c, d \in Certs :
       c # d /\ rows[c].active /\ ~rows[d].active /\ rows'[d].active
         => rows'[c].status = "disabled" /\ ~rows'[c].active
            /\ rows'[c].source = rows[c].source]_vars

\* The certificate that is shown as active is one that active_for finds
\* (test_fiscal_certificate_upload_api.py asserts flag and status together).
ActiveCanSign == \A c \in Certs : rows[c].active <=> rows[c].status = "active"
=============================================================================
