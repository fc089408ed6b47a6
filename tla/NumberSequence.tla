--------------------------- MODULE NumberSequence ---------------------------
(***************************************************************************)
(* The numbering of the NF-e drafts of one importer, environment, model    *)
(* and series: the row of nfe_number_sequences that                        *)
(* NfeNumberSequenceService reads and writes under SELECT ... FOR UPDATE,  *)
(* and the number column of the drafts that draw from it.                  *)
(*                                                                         *)
(* Every request runs in a gunicorn worker, in one database transaction    *)
(* at PostgreSQL's default isolation (READ COMMITTED): it works on the row *)
(* it locked (`image'), the lock is kept until the commit, and a rollback, *)
(* or the death of the worker, throws the image away.                      *)
(***************************************************************************)
EXTENDS Integers

CONSTANTS Workers,     \* request transactions that may be open at once
          Drafts,      \* NF-e drafts of this importer, environment and series
          MaxNumber,   \* largest number of an NF-e (999999999 in the code)
          Nobody       \* the lock holder when the row is not locked

ASSUME NumberAssumption == MaxNumber \in Nat \ {0}
ASSUME NobodyAssumption == Nobody \notin Workers

VARIABLES row,      \* the committed row of nfe_number_sequences
          holder,   \* the worker whose transaction locks that row
          number,   \* committed nfe_drafts.number; 0 stands for NULL
          pc,       \* where the transaction of each worker is
          wanted,   \* the draft that the request of a worker is to number, as a set
          request,  \* the arguments of the upsert of a worker
          image,    \* the uncommitted row of a worker
          pending   \* the uncommitted draft numbers of a worker

vars == <<row, holder, number, pc, wanted, request, image, pending>>

Number  == 0..MaxNumber
Omitted == -1          \* current_number=None: keep the progress of the row

SequenceRow == [present : BOOLEAN, current : Number, last : Number,
                initial : 1..MaxNumber, max : 1..MaxNumber, active : BOOLEAN]

\* What UpsertNfeNumberSequenceSchema lets through.
Request == [current : Number \cup {Omitted}, initial : 1..MaxNumber,
            max : 1..MaxNumber, active : BOOLEAN]

NoRow      == [present |-> FALSE, current |-> 0, last |-> 0,
               initial |-> 1, max |-> MaxNumber, active |-> TRUE]
NoRequest  == [current |-> Omitted, initial |-> 1, max |-> MaxNumber,
               active |-> TRUE]
NoNumbers  == [d \in Drafts |-> 0]

Init == /\ row = NoRow
        /\ holder = Nobody
        /\ number = NoNumbers
        /\ pc = [w \in Workers |-> "idle"]
        /\ wanted = [w \in Workers |-> {}]
        /\ request = [w \in Workers |-> NoRequest]
        /\ image = [w \in Workers |-> NoRow]
        /\ pending = [w \in Workers |-> NoNumbers]

\* The session ends with the request: nothing of it outlives the transaction.
Close(w) == /\ pc' = [pc EXCEPT ![w] = "idle"]
            /\ wanted' = [wanted EXCEPT ![w] = {}]
            /\ request' = [request EXCEPT ![w] = NoRequest]
            /\ image' = [image EXCEPT ![w] = NoRow]
            /\ pending' = [pending EXCEPT ![w] = NoNumbers]

AtLeast(a, b) == IF a >= b THEN a ELSE b

-----------------------------------------------------------------------------
(* reserve_next_number, called by generate_access_key_for_draft            *)

\* The request loads a draft whose number is NULL. The draft is not locked:
\* another worker may number it before this one does.
BeginReserve(w, d) ==
  /\ pc[w] = "idle"
  /\ number[d] = 0
  /\ pc' = [pc EXCEPT ![w] = "reserving"]
  /\ wanted' = [wanted EXCEPT ![w] = {d}]
  /\ UNCHANGED <<row, holder, number, request, image, pending>>

\* A reservation never starts below the first number of the series.
FromInitial(r) == AtLeast(r.current, r.initial - 1)

NextNumber(r) == FromInitial(r) + 1

\* Planted bug: the row is read without FOR UPDATE.
ReserveUnlocked(w) ==
  /\ pc[w] = "reserving"
  /\ row.present /\ row.active
  /\ NextNumber(row) <= row.max
  /\ image' = [image EXCEPT ![w] = [row EXCEPT !.current = NextNumber(row),
                                               !.last = NextNumber(row)]]
  /\ pending' = [pending EXCEPT ![w] = [d \in Drafts |->
                   IF d \in wanted[w] THEN NextNumber(row) ELSE 0]]
  /\ pc' = [pc EXCEPT ![w] = "reserved"]
  /\ UNCHANGED <<row, holder, number, wanted, request>>

\* Planted bug: the maximum is compared before the number is incremented.
ReserveOffByOne(w) ==
  /\ pc[w] = "reserving"
  /\ holder = Nobody
  /\ row.present /\ row.active
  /\ FromInitial(row) <= row.max
  /\ holder' = w
  /\ image' = [image EXCEPT ![w] = [row EXCEPT !.current = NextNumber(row),
                                               !.last = NextNumber(row)]]
  /\ pending' = [pending EXCEPT ![w] = [d \in Drafts |->
                   IF d \in wanted[w] THEN NextNumber(row) ELSE 0]]
  /\ pc' = [pc EXCEPT ![w] = "reserved"]
  /\ UNCHANGED <<row, number, wanted, request>>

\* SELECT ... FOR UPDATE of the active row, then the next number.
Reserve(w) ==
  /\ pc[w] = "reserving"
  /\ holder = Nobody
  /\ row.present /\ row.active
  /\ NextNumber(row) <= row.max
  /\ holder' = w
  /\ image' = [image EXCEPT ![w] = [row EXCEPT !.current = NextNumber(row),
                                               !.last = NextNumber(row)]]
  /\ pending' = [pending EXCEPT ![w] = [d \in Drafts |->
                   IF d \in wanted[w] THEN NextNumber(row) ELSE 0]]
  /\ pc' = [pc EXCEPT ![w] = "reserved"]
  /\ UNCHANGED <<row, number, wanted, request>>

\* The batch generation of child XMLs numbers several drafts in the same
\* transaction: the row is already locked, the image is the row it sees.
ReserveNext(w, d) ==
  /\ pc[w] = "reserved"
  /\ number[d] = 0 /\ pending[w][d] = 0
  /\ NextNumber(image[w]) <= image[w].max
  /\ image' = [image EXCEPT ![w].current = NextNumber(image[w]),
                            ![w].last = NextNumber(image[w])]
  /\ pending' = [pending EXCEPT ![w][d] = NextNumber(image[w])]
  /\ UNCHANGED <<row, holder, number, pc, wanted, request>>

\* No active row, or the maximum is reached: ValueError and rollback.
RefuseReserve(w) ==
  /\ pc[w] = "reserving"
  /\ \/ ~row.present \/ ~row.active
     \/ holder = Nobody /\ NextNumber(row) > row.max
  /\ Close(w)
  /\ UNCHANGED <<row, holder, number>>

\* The route commits: the row and the draft numbers become visible together.
CommitReserve(w) ==
  /\ pc[w] = "reserved"
  /\ row' = image[w]
  /\ number' = [d \in Drafts |-> IF pending[w][d] = 0 THEN number[d]
                                 ELSE pending[w][d]]
  /\ holder' = Nobody
  /\ Close(w)

-----------------------------------------------------------------------------
(* create_or_update_nfe_number_sequence, called by the PUT route           *)

BeginUpsert(w, q) ==
  /\ pc[w] = "idle"
  /\ q.max >= q.initial
  /\ pc' = [pc EXCEPT ![w] = "upserting"]
  /\ request' = [request EXCEPT ![w] = q]
  /\ UNCHANGED <<row, holder, number, wanted, image, pending>>

\* Planted bug: only the last reservation protects the sequence.
MinimumFromLast(r, q) == AtLeast(r.last, q.initial - 1)

\* The smallest current_number that repeats no number.
MinimumSafe(r, q) == AtLeast(AtLeast(r.current, r.last), q.initial - 1)

Requested(r, q) == IF q.current = Omitted THEN MinimumSafe(r, q)
                   ELSE q.current

\* Planted bug: the maximum is not compared with the current number.
AcceptedAboveMax(r, q) == Requested(r, q) >= MinimumSafe(r, q)

Accepted(r, q) == Requested(r, q) >= MinimumSafe(r, q) /\ Requested(r, q) <= q.max

Upserted(r, q) == [present |-> TRUE, current |-> Requested(r, q),
                   last |-> r.last, initial |-> q.initial, max |-> q.max,
                   active |-> q.active]

\* The row exists: it is locked, checked against regression and rewritten.
Update(w) ==
  /\ pc[w] = "upserting"
  /\ row.present /\ holder = Nobody
  /\ Accepted(row, request[w])
  /\ holder' = w
  /\ image' = [image EXCEPT ![w] = Upserted(row, request[w])]
  /\ pc' = [pc EXCEPT ![w] = "updated"]
  /\ UNCHANGED <<row, number, wanted, request, pending>>

\* There is no row to lock: a new one is built, inserted at the commit.
Create(w) ==
  /\ pc[w] = "upserting"
  /\ ~row.present
  /\ Accepted(NoRow, request[w])
  /\ image' = [image EXCEPT ![w] = Upserted(NoRow, request[w])]
  /\ pc' = [pc EXCEPT ![w] = "created"]
  /\ UNCHANGED <<row, holder, number, wanted, request, pending>>

\* NfeSequenceRegressionError (409) or a current number above the maximum.
RefuseUpsert(w) ==
  /\ pc[w] = "upserting"
  /\ ~row.present \/ holder = Nobody
  /\ ~Accepted(row, request[w])
  /\ Close(w)
  /\ UNCHANGED <<row, holder, number>>

CommitUpdate(w) ==
  /\ pc[w] = "updated"
  /\ row' = image[w]
  /\ holder' = Nobody
  /\ Close(w)
  /\ UNCHANGED number

\* The INSERT hits uq_nfe_number_sequence when another worker was faster:
\* IntegrityError, nothing is written.
CommitCreate(w) ==
  /\ pc[w] = "created"
  /\ row' = IF row.present THEN row ELSE image[w]
  /\ Close(w)
  /\ UNCHANGED <<holder, number>>

-----------------------------------------------------------------------------
\* Planted bug: the sequence commits on its own, the request does not.
AbortKeepsRow(w) ==
  /\ pc[w] # "idle"
  /\ row' = IF pc[w] = "reserved" THEN image[w] ELSE row
  /\ holder' = IF holder = w THEN Nobody ELSE holder
  /\ Close(w)
  /\ UNCHANGED number

\* Planted bug: the transaction of a dead request stays open.
AbortKeepsLock(w) ==
  /\ pc[w] # "idle"
  /\ Close(w)
  /\ UNCHANGED <<row, holder, number>>

\* A later error of the request rolls back, or gunicorn kills the worker:
\* the lock goes and nothing of the transaction remains.
Abort(w) ==
  /\ pc[w] # "idle"
  /\ holder' = IF holder = w THEN Nobody ELSE holder
  /\ Close(w)
  /\ UNCHANGED <<row, number>>

Progress(w) == \/ Reserve(w) \/ RefuseReserve(w) \/ CommitReserve(w)
               \/ Update(w) \/ Create(w) \/ RefuseUpsert(w)
               \/ CommitUpdate(w) \/ CommitCreate(w)

Step(w) == \/ \E d \in Drafts : BeginReserve(w, d) \/ ReserveNext(w, d)
           \/ \E q \in Request : BeginUpsert(w, q)
           \/ Progress(w)
           \/ Abort(w)

Next == \E w \in Workers : Step(w)

Spec == Init /\ [][Next]_vars

\* A live worker carries its request on, and PostgreSQL serves the waiters of
\* a row lock in order, so a request that can repeatedly proceed does.
FairSpec == Spec /\ \A w \in Workers : SF_vars(Progress(w))

-----------------------------------------------------------------------------
(* Properties                                                              *)

Phases == {"idle", "reserving", "reserved", "upserting", "updated", "created"}

\* Every variable holds a value of its column or of the code's variable.
TypeOK == /\ row \in SequenceRow
          /\ holder \in Workers \cup {Nobody}
          /\ number \in [Drafts -> Number]
          /\ pc \in [Workers -> Phases]
          /\ wanted \in [Workers -> SUBSET Drafts]
          /\ request \in [Workers -> Request]
          /\ image \in [Workers -> SequenceRow]
          /\ pending \in [Workers -> [Drafts -> Number]]

\* No two drafts of a series carry the same NF-e number, whatever requests
\* ran at the same time: the row lock of reserve_next_number does what its
\* docstring says ("evitando duplicidade em chamadas simultaneas").
DistinctNumbers ==
  \A d, e \in Drafts : number[d] # 0 /\ number[d] = number[e] => d = e

\* The row accounts for every number in use: none lies above current_number,
\* which stays between the series' first number and its maximum, also when
\* upserts that move initial_number or max_number race the reservations.
RowCoversNumbers ==
  /\ \A d \in Drafts : number[d] <= row.current
  /\ row.last <= row.current
  /\ row.present => row.initial - 1 <= row.current /\ row.current <= row.max

\* A committed change never takes the sequence back, and a draft's number
\* changes only to one that no draft ever had: numbers are not handed out
\* twice, even after the draft that had one was numbered again.
NeverReissued ==
  [][/\ row.present => row'.present
     /\ row'.current >= row.current
     /\ \A d \in Drafts : number'[d] # number[d] => number'[d] > row.current]_vars

\* A number is spent by an upsert or by a draft, never by a request that was
\* refused, rolled back or killed: current_number moves by reservations only
\* to the number of a draft of that same commit.
RollbackReturnsNumber ==
  [][\A w \in Workers :
       pc[w] = "reserved" /\ pc'[w] = "idle" /\ row' # row
         => \E d \in Drafts : number'[d] = row'.current]_vars

\* Every request of a live worker ends, whoever else wants the row lock.
RequestsEnd == \A w \in Workers : pc[w] # "idle" ~> pc[w] = "idle"

\* The row lock numbers drafts as FiscalNumbering promises.
Abstract == INSTANCE FiscalNumbering WITH high <- row.current
Implements == Abstract!Spec
=============================================================================
