------------------------ MODULE NumberSequenceProofs ------------------------
(***************************************************************************)
(* The numbering of NF-e drafts is safe for any number of workers, drafts  *)
(* and numbers.  The inductive invariant says who may hold the row lock    *)
(* and what the uncommitted image of a worker may contain; uniqueness of   *)
(* the numbers follows because a commit only adds numbers above the row.   *)
(***************************************************************************)
EXTENDS NumberSequence, TLAPS

USE NumberAssumption, NobodyAssumption

Locking(w) == pc[w] \in {"reserved", "updated"}

\* The transaction that read the row FOR UPDATE, and no other, holds its lock.
LockInv == \A w \in Workers : Locking(w) <=> holder = w

\* A row that was never inserted has handed out nothing.
RowInv == /\ ~row.present => row = NoRow
          /\ row.last <= row.current
          /\ row.present => row.initial - 1 <= row.current /\ row.current <= row.max

NumberInv == /\ \A d \in Drafts : number[d] <= row.current
             /\ DistinctNumbers

\* What is about to be committed keeps the row invariant and moves forward.
ImageInv(w) ==
  /\ pc[w] \in {"reserved", "updated", "created"} =>
       /\ image[w].present
       /\ image[w].last <= image[w].current
       /\ image[w].initial - 1 <= image[w].current
       /\ image[w].current <= image[w].max
  /\ Locking(w) => row.present /\ row.current <= image[w].current

\* The numbers about to be committed are above the row and distinct.
PendingInv(w) ==
  pc[w] = "reserved" =>
    \A d \in Drafts : pending[w][d] # 0 =>
      /\ row.current < pending[w][d]
      /\ pending[w][d] <= image[w].current
      /\ \A e \in Drafts : pending[w][e] = pending[w][d] => e = d

\* A request of the key route numbers one draft.
WantedInv(w) == \A d, e \in wanted[w] : d = e

IInv == /\ TypeOK
        /\ LockInv
        /\ RowInv
        /\ NumberInv
        /\ \A w \in Workers : ImageInv(w) /\ PendingInv(w) /\ WantedInv(w)

-----------------------------------------------------------------------------
(* Lemmas on the arithmetic of the service                                 *)

\* The next number is a number of the sequence, above the current one and not
\* below the first one of the series.
LEMMA NextNumberBounds ==
  ASSUME NEW r \in SequenceRow, NextNumber(r) <= r.max
  PROVE  /\ NextNumber(r) \in 1..MaxNumber
         /\ NextNumber(r) > r.current
         /\ NextNumber(r) >= r.initial
  BY DEF NextNumber, FromInitial, AtLeast, SequenceRow, Number

\* An accepted upsert neither regresses nor leaves the range it declares.
LEMMA UpsertedBounds ==
  ASSUME NEW r \in SequenceRow, NEW q \in Request, Accepted(r, q)
  PROVE  /\ Upserted(r, q) \in SequenceRow
         /\ Upserted(r, q).present
         /\ Upserted(r, q).current >= r.current
         /\ Upserted(r, q).last <= Upserted(r, q).current
         /\ Upserted(r, q).initial - 1 <= Upserted(r, q).current
         /\ Upserted(r, q).current <= Upserted(r, q).max
<1>1. MinimumSafe(r, q) \in Nat
      /\ MinimumSafe(r, q) >= r.current
      /\ MinimumSafe(r, q) >= r.last
      /\ MinimumSafe(r, q) >= q.initial - 1
  BY DEF MinimumSafe, AtLeast, SequenceRow, Request, Number
<1>2. Requested(r, q) \in Int
  BY <1>1 DEF Requested, Request, Omitted, Number
<1>3. Requested(r, q) >= MinimumSafe(r, q) /\ Requested(r, q) <= q.max
  BY DEF Accepted
<1> QED
  BY <1>1, <1>2, <1>3 DEF Upserted, SequenceRow, Request, Number

LEMMA NoRowType == NoRow \in SequenceRow /\ NoRequest \in Request
                   /\ NoNumbers \in [Drafts -> Number]
  BY DEF NoRow, NoRequest, NoNumbers, SequenceRow, Request, Number, Omitted

\* Recording a reservation rewrites the two counters of the row.
LEMMA AdvanceType ==
  ASSUME NEW r \in SequenceRow, NEW n \in Number
  PROVE  [r EXCEPT !.current = n, !.last = n] \in SequenceRow
  BY DEF SequenceRow

\* The initial state: an empty table and idle workers.
LEMMA InitInv == Init => IInv
<1> SUFFICES ASSUME Init PROVE IInv
  OBVIOUS
<1>1. TypeOK
  BY NoRowType DEF Init, TypeOK, Phases
<1>2. LockInv
  BY DEF Init, LockInv, Locking
<1>3. RowInv
  BY DEF Init, RowInv, NoRow
<1>4. NumberInv
  BY DEF Init, NumberInv, DistinctNumbers, NoNumbers, NoRow
<1>5. \A w \in Workers : ImageInv(w) /\ PendingInv(w) /\ WantedInv(w)
  BY DEF Init, ImageInv, PendingInv, WantedInv, Locking
<1> QED
  BY <1>1, <1>2, <1>3, <1>4, <1>5 DEF IInv

-----------------------------------------------------------------------------
(* Steps                                                                   *)

\* Ending a request, with whatever it leaves in the row, puts the variables of
\* its worker back to the values of an idle worker.
LEMMA CloseType ==
  ASSUME TypeOK, NEW w \in Workers, Close(w)
  PROVE  /\ pc' \in [Workers -> Phases]
         /\ wanted' \in [Workers -> SUBSET Drafts]
         /\ request' \in [Workers -> Request]
         /\ image' \in [Workers -> SequenceRow]
         /\ pending' \in [Workers -> [Drafts -> Number]]
         /\ pc'[w] = "idle" /\ wanted'[w] = {}
         /\ \A v \in Workers \ {w} :
              /\ pc'[v] = pc[v] /\ wanted'[v] = wanted[v]
              /\ image'[v] = image[v] /\ pending'[v] = pending[v]
  BY NoRowType DEF TypeOK, Close, Phases

\* A request that ends without writing the row keeps the invariant, and so
\* does one that is thrown away while it holds the lock.
LEMMA CloseInv ==
  ASSUME IInv, NEW w \in Workers, Close(w), UNCHANGED <<row, number>>,
         holder' = IF holder = w THEN Nobody ELSE holder
  PROVE  IInv'
<1>0. TypeOK /\ LockInv /\ RowInv /\ NumberInv
  BY DEF IInv
<1>1. TypeOK'
  BY <1>0, CloseType DEF TypeOK
<1>2. LockInv'
  BY <1>0, CloseType DEF LockInv, Locking, TypeOK
<1>3. RowInv' /\ NumberInv'
  BY <1>0 DEF RowInv, NumberInv, DistinctNumbers, NoRow
<1>4. ASSUME NEW v \in Workers PROVE (ImageInv(v) /\ PendingInv(v) /\ WantedInv(v))'
  <2>1. CASE v = w
    BY <1>0, <2>1, CloseType DEF ImageInv, PendingInv, WantedInv, Locking
  <2>2. CASE v # w
    <3>1. ImageInv(v) /\ PendingInv(v) /\ WantedInv(v)
      BY DEF IInv
    <3> QED
      BY <1>0, <2>2, <3>1, CloseType DEF ImageInv, PendingInv, WantedInv, Locking
  <2> QED
    BY <2>1, <2>2
<1> QED
  BY <1>1, <1>2, <1>3, <1>4 DEF IInv

\* The two requests that open a transaction only change their own phase.
LEMMA BeginInv ==
  ASSUME IInv, NEW w \in Workers,
         \/ \E d \in Drafts : BeginReserve(w, d)
         \/ \E q \in Request : BeginUpsert(w, q)
  PROVE  IInv'
<1>0. TypeOK /\ LockInv /\ RowInv /\ NumberInv
  BY DEF IInv
<1> DEFINE Opened ==
      /\ UNCHANGED <<row, holder, number, image, pending>>
      /\ pc' \in [Workers -> Phases]
      /\ wanted' \in [Workers -> SUBSET Drafts]
      /\ request' \in [Workers -> Request]
      /\ ~Locking(w)
      /\ pc'[w] \in {"reserving", "upserting"}
      /\ \A v \in Workers \ {w} : pc'[v] = pc[v] /\ wanted'[v] = wanted[v]
      /\ wanted'[w] = wanted[w] \/ \E d \in Drafts : wanted'[w] = {d}
<1>1. Opened
  <2>1. ASSUME NEW d \in Drafts, BeginReserve(w, d) PROVE Opened
    BY <1>0, <2>1 DEF BeginReserve, TypeOK, Phases, Locking
  <2>2. ASSUME NEW q \in Request, BeginUpsert(w, q) PROVE Opened
    BY <1>0, <2>2 DEF BeginUpsert, TypeOK, Phases, Locking
  <2> QED
    BY <2>1, <2>2
<1>2. TypeOK'
  BY <1>0, <1>1 DEF TypeOK
<1>3. LockInv'
  BY <1>0, <1>1 DEF LockInv, Locking
<1>4. RowInv' /\ NumberInv'
  BY <1>0, <1>1 DEF RowInv, NumberInv, DistinctNumbers, NoRow
<1>5. ASSUME NEW v \in Workers PROVE (ImageInv(v) /\ PendingInv(v) /\ WantedInv(v))'
  <2>0. ImageInv(v) /\ PendingInv(v) /\ WantedInv(v)
    BY DEF IInv
  <2>1. CASE v = w
    <3>1. ImageInv(v)' /\ PendingInv(v)'
      BY <1>1, <2>1 DEF ImageInv, PendingInv, Locking
    <3>2. WantedInv(v)'
      BY <1>1, <2>0, <2>1 DEF WantedInv
    <3> QED
      BY <3>1, <3>2
  <2>2. CASE v # w
    BY <1>1, <2>0, <2>2 DEF ImageInv, PendingInv, WantedInv, Locking
  <2> QED
    BY <2>1, <2>2
<1> QED
  BY <1>2, <1>3, <1>4, <1>5 DEF IInv

\* Taking the lock and the next number.
LEMMA ReserveInv ==
  ASSUME IInv, NEW w \in Workers, Reserve(w)
  PROVE  IInv'
<1>0. TypeOK /\ LockInv /\ RowInv /\ NumberInv /\ WantedInv(w)
  BY DEF IInv
<1>n. /\ NextNumber(row) \in 1..MaxNumber
      /\ NextNumber(row) > row.current
      /\ NextNumber(row) >= row.initial
      /\ NextNumber(row) <= row.max
  BY <1>0, NextNumberBounds DEF Reserve, TypeOK
<1>1. TypeOK'
  <2>1. image' \in [Workers -> SequenceRow]
    <3>1. NextNumber(row) \in Number
      BY <1>n, NumberAssumption DEF Number
    <3>2. [row EXCEPT !.current = NextNumber(row), !.last = NextNumber(row)]
            \in SequenceRow
      BY <1>0, <3>1, AdvanceType DEF TypeOK
    <3> QED
      BY <1>0, <3>2 DEF Reserve, TypeOK
  <2>2. pending' \in [Workers -> [Drafts -> Number]]
    BY <1>0, <1>n DEF Reserve, TypeOK, Number
  <2> QED
    BY <1>0, <2>1, <2>2 DEF Reserve, TypeOK, Phases
<1>2. LockInv'
  BY <1>0 DEF LockInv, Locking, Reserve, TypeOK
<1>3. RowInv' /\ NumberInv'
  BY <1>0 DEF RowInv, NumberInv, DistinctNumbers, NoRow, Reserve
<1>4. ASSUME NEW v \in Workers PROVE (ImageInv(v) /\ PendingInv(v) /\ WantedInv(v))'
  <2>0. ImageInv(v) /\ PendingInv(v) /\ WantedInv(v)
    BY DEF IInv
  <2>1. CASE v = w
    <3>1. /\ pc'[w] = "reserved"
          /\ image'[w] = [row EXCEPT !.current = NextNumber(row),
                                     !.last = NextNumber(row)]
          /\ pending'[w] = [d \in Drafts |->
                              IF d \in wanted[w] THEN NextNumber(row) ELSE 0]
          /\ UNCHANGED <<row, wanted>>
      BY <1>0 DEF Reserve, TypeOK
    <3>2. ImageInv(w)'
      BY <1>0, <1>n, <3>1 DEF ImageInv, Locking, Reserve, TypeOK, SequenceRow, Number
    <3>3. PendingInv(w)'
      BY <1>0, <1>n, <3>1 DEF PendingInv, WantedInv, TypeOK, SequenceRow, Number
    <3> QED
      BY <1>0, <2>1, <3>1, <3>2, <3>3 DEF WantedInv
  <2>2. CASE v # w
    BY <1>0, <2>0, <2>2 DEF ImageInv, PendingInv, WantedInv, Locking, Reserve, TypeOK
  <2> QED
    BY <2>1, <2>2
<1> QED
  BY <1>1, <1>2, <1>3, <1>4 DEF IInv

\* One more number in a transaction that already has the lock.
LEMMA ReserveNextInv ==
  ASSUME IInv, NEW w \in Workers, NEW d \in Drafts, ReserveNext(w, d)
  PROVE  IInv'
<1>0. TypeOK /\ LockInv /\ RowInv /\ NumberInv /\ ImageInv(w) /\ PendingInv(w)
  BY DEF IInv
<1> DEFINE n == NextNumber(image[w])
<1>n. /\ n \in 1..MaxNumber
      /\ n > image[w].current
      /\ n >= image[w].initial
      /\ n <= image[w].max
  BY <1>0, NextNumberBounds DEF ReserveNext, TypeOK
<1>a. /\ pc[w] = "reserved" /\ pending[w][d] = 0
      /\ UNCHANGED <<row, holder, number, pc, wanted, request>>
      /\ image' = [image EXCEPT ![w] = [image[w] EXCEPT !.current = n, !.last = n]]
      /\ pending' = [pending EXCEPT ![w] = [pending[w] EXCEPT ![d] = n]]
  BY <1>0 DEF ReserveNext, TypeOK
<1> HIDE DEF n
<1>1. TypeOK'
  <2>1. image' \in [Workers -> SequenceRow]
    <3>1. n \in Number /\ image[w] \in SequenceRow
      BY <1>0, <1>n DEF TypeOK, Number
    <3>2. [image[w] EXCEPT !.current = n, !.last = n] \in SequenceRow
      BY <3>1, AdvanceType
    <3> QED
      BY <1>0, <1>a, <3>2 DEF TypeOK
  <2>2. pending' \in [Workers -> [Drafts -> Number]]
    BY <1>0, <1>a, <1>n DEF TypeOK, Number
  <2> QED
    BY <1>0, <1>a, <2>1, <2>2 DEF TypeOK
<1>2. LockInv' /\ RowInv' /\ NumberInv'
  BY <1>0, <1>a DEF LockInv, Locking, RowInv, NumberInv, DistinctNumbers, NoRow
<1>4. ASSUME NEW v \in Workers PROVE (ImageInv(v) /\ PendingInv(v) /\ WantedInv(v))'
  <2>0. ImageInv(v) /\ PendingInv(v) /\ WantedInv(v)
    BY DEF IInv
  <2>1. CASE v = w
    <3>1. ImageInv(w)'
      BY <1>0, <1>a, <1>n DEF ImageInv, Locking, TypeOK, SequenceRow, Number
    <3>2. PendingInv(w)'
      <4>1. image'[w].current = n /\ image[w].current < n
            /\ pending'[w] = [pending[w] EXCEPT ![d] = n]
            /\ row' = row /\ row.current <= image[w].current
            /\ image[w].current \in Nat /\ row.current \in Nat /\ n \in Nat
            /\ pending[w] \in [Drafts -> Nat]
        BY <1>0, <1>a, <1>n DEF ImageInv, Locking, TypeOK, SequenceRow, Number
      <4>2. \A e \in Drafts : pending[w][e] # 0 =>
              /\ row.current < pending[w][e]
              /\ pending[w][e] <= image[w].current
              /\ \A f \in Drafts : pending[w][f] = pending[w][e] => f = e
        BY <1>0, <1>a DEF PendingInv
      <4>3. \A e \in Drafts : pending'[w][e] # 0 =>
              /\ row.current < pending'[w][e]
              /\ pending'[w][e] <= n
              /\ \A f \in Drafts : pending'[w][f] = pending'[w][e] => f = e
        BY <4>1, <4>2
      <4> QED
        BY <4>1, <4>3 DEF PendingInv
    <3> QED
      BY <1>a, <2>0, <2>1, <3>1, <3>2 DEF WantedInv
  <2>2. CASE v # w
    BY <1>0, <1>a, <2>0, <2>2 DEF ImageInv, PendingInv, WantedInv, Locking, TypeOK
  <2> QED
    BY <2>1, <2>2
<1> QED
  BY <1>1, <1>2, <1>4 DEF IInv

\* Committing the reservations: the new numbers lie above every older one.
LEMMA CommitReserveInv ==
  ASSUME IInv, NEW w \in Workers, CommitReserve(w)
  PROVE  IInv'
<1>0. TypeOK /\ LockInv /\ RowInv /\ NumberInv /\ ImageInv(w) /\ PendingInv(w)
  BY DEF IInv
<1>a. /\ pc[w] = "reserved" /\ Locking(w)
      /\ row' = image[w] /\ holder' = Nobody /\ Close(w)
      /\ number' = [d \in Drafts |-> IF pending[w][d] = 0 THEN number[d]
                                     ELSE pending[w][d]]
  BY DEF CommitReserve, Locking
<1>1. TypeOK'
  BY <1>0, <1>a, CloseType DEF TypeOK
<1>2. LockInv'
  BY <1>0, <1>a, CloseType DEF LockInv, Locking, TypeOK
<1>3. RowInv'
  BY <1>0, <1>a DEF RowInv, ImageInv
<1>4. NumberInv'
  <2>1. \A d \in Drafts : number[d] <= row.current /\ number[d] \in Nat
    BY <1>0 DEF NumberInv, TypeOK, Number
  <2>2. \A d \in Drafts : pending[w][d] # 0 =>
          row.current < pending[w][d] /\ pending[w][d] <= image[w].current
    BY <1>0, <1>a DEF PendingInv
  <2>3. row.current <= image[w].current /\ row.current \in Nat
        /\ image[w].current \in Nat /\ \A d \in Drafts : pending[w][d] \in Nat
    BY <1>0, <1>a DEF ImageInv, TypeOK, SequenceRow, Number
  <2>4. \A d \in Drafts : number'[d] <= row'.current
    BY <1>a, <2>1, <2>2, <2>3
  <2>5. \A d, e \in Drafts : pending[w][d] # 0 /\ pending[w][e] = pending[w][d] => e = d
    BY <1>0, <1>a DEF PendingInv
  <2>6. \A d, e \in Drafts : number[d] # 0 /\ number[d] = number[e] => d = e
    BY <1>0 DEF NumberInv, DistinctNumbers
  <2>7. ASSUME NEW d \in Drafts, NEW e \in Drafts,
               number'[d] # 0, number'[d] = number'[e]
        PROVE  d = e
    BY <1>a, <2>1, <2>2, <2>3, <2>5, <2>6, <2>7
  <2> QED
    BY <2>4, <2>7 DEF NumberInv, DistinctNumbers
<1>5. ASSUME NEW v \in Workers PROVE (ImageInv(v) /\ PendingInv(v) /\ WantedInv(v))'
  <2>1. CASE v = w
    BY <1>0, <2>1, <1>a, CloseType DEF ImageInv, PendingInv, WantedInv, Locking
  <2>2. CASE v # w
    <3>1. ImageInv(v) /\ PendingInv(v) /\ WantedInv(v) /\ ~Locking(v)
      BY <1>0, <1>a, <2>2 DEF IInv, LockInv
    <3> QED
      BY <1>a, <2>2, <3>1, CloseType, <1>0 DEF ImageInv, PendingInv, WantedInv, Locking
  <2> QED
    BY <2>1, <2>2
<1> QED
  BY <1>1, <1>2, <1>3, <1>4, <1>5 DEF IInv

\* Locking the row and checking an upsert against it.
LEMMA UpdateInv ==
  ASSUME IInv, NEW w \in Workers, Update(w)
  PROVE  IInv'
<1>0. TypeOK /\ LockInv /\ RowInv /\ NumberInv
  BY DEF IInv
<1>a. /\ row.present /\ holder = Nobody /\ holder' = w
      /\ image' = [image EXCEPT ![w] = Upserted(row, request[w])]
      /\ pc' = [pc EXCEPT ![w] = "updated"]
      /\ UNCHANGED <<row, number, wanted, request, pending>>
  BY DEF Update
<1>u. /\ Upserted(row, request[w]) \in SequenceRow
      /\ Upserted(row, request[w]).present
      /\ Upserted(row, request[w]).current >= row.current
      /\ Upserted(row, request[w]).last <= Upserted(row, request[w]).current
      /\ Upserted(row, request[w]).initial - 1 <= Upserted(row, request[w]).current
      /\ Upserted(row, request[w]).current <= Upserted(row, request[w]).max
  BY <1>0, UpsertedBounds DEF Update, TypeOK
<1>1. TypeOK'
  BY <1>0, <1>a, <1>u DEF TypeOK, Phases
<1>2. LockInv'
  BY <1>0, <1>a DEF LockInv, Locking, TypeOK
<1>3. RowInv' /\ NumberInv'
  BY <1>0, <1>a DEF RowInv, NumberInv, DistinctNumbers, NoRow
<1>4. ASSUME NEW v \in Workers PROVE (ImageInv(v) /\ PendingInv(v) /\ WantedInv(v))'
  <2>0. ImageInv(v) /\ PendingInv(v) /\ WantedInv(v)
    BY DEF IInv
  <2>1. CASE v = w
    BY <1>0, <1>a, <1>u, <2>0, <2>1
    DEF ImageInv, PendingInv, WantedInv, Locking, TypeOK, SequenceRow, Number
  <2>2. CASE v # w
    BY <1>0, <1>a, <2>0, <2>2 DEF ImageInv, PendingInv, WantedInv, Locking, TypeOK
  <2> QED
    BY <2>1, <2>2
<1> QED
  BY <1>1, <1>2, <1>3, <1>4 DEF IInv

\* Building the first row; nothing is locked.
LEMMA CreateInv ==
  ASSUME IInv, NEW w \in Workers, Create(w)
  PROVE  IInv'
<1>0. TypeOK /\ LockInv /\ RowInv /\ NumberInv
  BY DEF IInv
<1>a. /\ image' = [image EXCEPT ![w] = Upserted(NoRow, request[w])]
      /\ pc[w] = "upserting" /\ pc' = [pc EXCEPT ![w] = "created"]
      /\ UNCHANGED <<row, holder, number, wanted, request, pending>>
  BY DEF Create
<1>u. /\ Upserted(NoRow, request[w]) \in SequenceRow
      /\ Upserted(NoRow, request[w]).present
      /\ Upserted(NoRow, request[w]).last <= Upserted(NoRow, request[w]).current
      /\ Upserted(NoRow, request[w]).initial - 1 <= Upserted(NoRow, request[w]).current
      /\ Upserted(NoRow, request[w]).current <= Upserted(NoRow, request[w]).max
  BY <1>0, UpsertedBounds, NoRowType DEF Create, TypeOK
<1>1. TypeOK'
  BY <1>0, <1>a, <1>u DEF TypeOK, Phases
<1>2. LockInv'
  BY <1>0, <1>a DEF LockInv, Locking, TypeOK
<1>3. RowInv' /\ NumberInv'
  BY <1>0, <1>a DEF RowInv, NumberInv, DistinctNumbers, NoRow
<1>4. ASSUME NEW v \in Workers PROVE (ImageInv(v) /\ PendingInv(v) /\ WantedInv(v))'
  <2>0. ImageInv(v) /\ PendingInv(v) /\ WantedInv(v)
    BY DEF IInv
  <2>1. CASE v = w
    BY <1>0, <1>a, <1>u, <2>0, <2>1
    DEF ImageInv, PendingInv, WantedInv, Locking, TypeOK
  <2>2. CASE v # w
    BY <1>0, <1>a, <2>0, <2>2 DEF ImageInv, PendingInv, WantedInv, Locking, TypeOK
  <2> QED
    BY <2>1, <2>2
<1> QED
  BY <1>1, <1>2, <1>3, <1>4 DEF IInv

\* Committing an upsert: the row moves forward, the numbers stay.
LEMMA CommitUpdateInv ==
  ASSUME IInv, NEW w \in Workers, CommitUpdate(w)
  PROVE  IInv'
<1>0. TypeOK /\ LockInv /\ RowInv /\ NumberInv /\ ImageInv(w)
  BY DEF IInv
<1>a. /\ pc[w] = "updated" /\ Locking(w)
      /\ row' = image[w] /\ holder' = Nobody /\ Close(w) /\ number' = number
  BY DEF CommitUpdate, Locking
<1>1. TypeOK'
  BY <1>0, <1>a, CloseType DEF TypeOK
<1>2. LockInv'
  BY <1>0, <1>a, CloseType DEF LockInv, Locking, TypeOK
<1>3. RowInv'
  BY <1>0, <1>a DEF RowInv, ImageInv
<1>4. NumberInv'
  <2>1. row.current <= image[w].current /\ row.current \in Nat
        /\ image[w].current \in Nat /\ \A d \in Drafts : number[d] \in Nat
    BY <1>0, <1>a DEF ImageInv, TypeOK, SequenceRow, Number
  <2> QED
    BY <1>0, <1>a, <2>1 DEF NumberInv, DistinctNumbers
<1>5. ASSUME NEW v \in Workers PROVE (ImageInv(v) /\ PendingInv(v) /\ WantedInv(v))'
  <2>1. CASE v = w
    BY <1>0, <2>1, <1>a, CloseType DEF ImageInv, PendingInv, WantedInv, Locking
  <2>2. CASE v # w
    <3>1. ImageInv(v) /\ PendingInv(v) /\ WantedInv(v) /\ ~Locking(v)
      BY <1>0, <1>a, <2>2 DEF IInv, LockInv
    <3> QED
      BY <1>a, <2>2, <3>1, CloseType, <1>0 DEF ImageInv, PendingInv, WantedInv, Locking
  <2> QED
    BY <2>1, <2>2
<1> QED
  BY <1>1, <1>2, <1>3, <1>4, <1>5 DEF IInv

\* The first row appears; a second insert finds it there and is lost.
LEMMA CommitCreateInv ==
  ASSUME IInv, NEW w \in Workers, CommitCreate(w)
  PROVE  IInv'
<1>0. TypeOK /\ LockInv /\ RowInv /\ NumberInv /\ ImageInv(w)
  BY DEF IInv
<1>a. /\ pc[w] = "created" /\ holder # w /\ Close(w)
      /\ UNCHANGED <<holder, number>>
  BY <1>0 DEF CommitCreate, LockInv, Locking
<1>1. CASE row.present
  BY <1>a, <1>1, CloseInv DEF CommitCreate
<1>2. CASE ~row.present
  <2>a. row' = image[w] /\ row = NoRow
    BY <1>0, <1>2 DEF CommitCreate, RowInv
  <2>b. \A v \in Workers : ~Locking(v)
    BY <1>2 DEF IInv, ImageInv
  <2>1. TypeOK'
    BY <1>0, <1>a, <2>a, CloseType DEF TypeOK
  <2>2. LockInv'
    BY <1>0, <1>a, CloseType DEF LockInv, Locking, TypeOK
  <2>3. RowInv'
    BY <1>0, <1>a, <2>a DEF RowInv, ImageInv
  <2>4. NumberInv'
    <3>1. image[w].current \in Nat /\ \A d \in Drafts : number[d] \in Nat
      BY <1>0 DEF TypeOK, SequenceRow, Number
    <3>2. \A d \in Drafts : number[d] <= 0
      BY <1>0, <2>a DEF NumberInv, NoRow
    <3> QED
      BY <1>0, <1>a, <2>a, <3>1, <3>2 DEF NumberInv, DistinctNumbers
  <2>5. ASSUME NEW v \in Workers PROVE (ImageInv(v) /\ PendingInv(v) /\ WantedInv(v))'
    <3>1. ImageInv(v) /\ PendingInv(v) /\ WantedInv(v)
      BY DEF IInv
    <3>2. CASE v = w
      BY <1>0, <1>a, <3>2, CloseType DEF ImageInv, PendingInv, WantedInv, Locking
    <3>3. CASE v # w
      BY <1>0, <1>a, <2>b, <3>1, <3>3, CloseType
      DEF ImageInv, PendingInv, WantedInv, Locking
    <3> QED
      BY <3>2, <3>3
  <2> QED
    BY <2>1, <2>2, <2>3, <2>4, <2>5 DEF IInv
<1> QED
  BY <1>1, <1>2

\* Every step of every worker keeps the invariant.
LEMMA StepInv == IInv /\ [Next]_vars => IInv'
<1> SUFFICES ASSUME IInv, [Next]_vars PROVE IInv'
  OBVIOUS
<1>1. ASSUME NEW w \in Workers, Step(w) PROVE IInv'
  <2>1. CASE \E d \in Drafts : BeginReserve(w, d)
    BY <2>1, BeginInv
  <2>2. CASE \E d \in Drafts : ReserveNext(w, d)
    BY <2>2, ReserveNextInv
  <2>3. CASE \E q \in Request : BeginUpsert(w, q)
    BY <2>3, BeginInv
  <2>4. CASE Reserve(w)
    BY <2>4, ReserveInv
  <2>5. CASE CommitReserve(w)
    BY <2>5, CommitReserveInv
  <2>6. CASE Update(w)
    BY <2>6, UpdateInv
  <2>7. CASE Create(w)
    BY <2>7, CreateInv
  <2>8. CASE CommitUpdate(w)
    BY <2>8, CommitUpdateInv
  <2>9. CASE CommitCreate(w)
    BY <2>9, CommitCreateInv
  <2>10. CASE RefuseReserve(w) \/ RefuseUpsert(w)
    <3>1. holder # w
      BY <2>10 DEF IInv, LockInv, Locking, RefuseReserve, RefuseUpsert
    <3> QED
      BY <2>10, <3>1, CloseInv DEF RefuseReserve, RefuseUpsert
  <2>11. CASE Abort(w)
    BY <2>11, CloseInv DEF Abort
  <2> QED
    BY <1>1, <2>1, <2>2, <2>3, <2>4, <2>5, <2>6, <2>7, <2>8, <2>9, <2>10, <2>11
    DEF Step, Progress
<1>2. CASE UNCHANGED vars
  BY <1>2 DEF vars, IInv, TypeOK, LockInv, Locking, RowInv, NumberInv,
             DistinctNumbers, ImageInv, PendingInv, WantedInv
<1> QED
  BY <1>1, <1>2 DEF Next

-----------------------------------------------------------------------------
(* Theorems                                                                *)

\* The invariant holds in every reachable state, for any number of workers.
THEOREM Invariance == Spec => []IInv
  BY InitInv, StepInv, PTL DEF Spec

\* Columns and program variables keep their types.
THEOREM TypeCorrect == Spec => []TypeOK
<1>1. IInv => TypeOK
  BY DEF IInv
<1> QED
  BY <1>1, Invariance, PTL

\* No two drafts of one series ever carry the same number.
THEOREM NumbersAreDistinct == Spec => []DistinctNumbers
<1>1. IInv => DistinctNumbers
  BY DEF IInv, NumberInv
<1> QED
  BY <1>1, Invariance, PTL

\* Every number in use is accounted for by the row, within its limits.
THEOREM RowAccountsForNumbers == Spec => []RowCoversNumbers
<1>1. IInv => RowCoversNumbers
  BY DEF IInv, NumberInv, RowInv, RowCoversNumbers
<1> QED
  BY <1>1, Invariance, PTL

\* What a step may do to the committed tables: move the row forward and give
\* drafts numbers between the old and the new current_number.
Forward == /\ row.present => row'.present
           /\ row'.current >= row.current
           /\ \A d \in Drafts : number'[d] # number[d] =>
                number'[d] > row.current /\ number'[d] <= row'.current

LEMMA StepForward ==
  ASSUME IInv, [Next]_vars
  PROVE  Forward
<1>0. TypeOK /\ LockInv /\ RowInv /\ NumberInv
  BY DEF IInv
<1>t. row.current \in Nat
  BY <1>0 DEF TypeOK, SequenceRow, Number
<1>1. CASE UNCHANGED <<row, number>>
  BY <1>1, <1>t DEF Forward
<1>2. ASSUME NEW w \in Workers, CommitReserve(w) PROVE Forward
  <2>1. ImageInv(w) /\ PendingInv(w) /\ pc[w] = "reserved" /\ Locking(w)
    BY <1>2 DEF IInv, CommitReserve, Locking
  <2>2. /\ row' = image[w]
        /\ number' = [d \in Drafts |-> IF pending[w][d] = 0 THEN number[d]
                                       ELSE pending[w][d]]
    BY <1>2 DEF CommitReserve
  <2> QED
    BY <2>1, <2>2 DEF ImageInv, PendingInv, Forward
<1>3. ASSUME NEW w \in Workers, CommitUpdate(w) PROVE Forward
  <2>1. ImageInv(w) /\ Locking(w) /\ pc[w] = "updated"
    BY <1>3 DEF IInv, CommitUpdate, Locking
  <2>2. row' = image[w] /\ number' = number
    BY <1>3 DEF CommitUpdate
  <2> QED
    BY <2>1, <2>2 DEF ImageInv, Forward
<1>4. ASSUME NEW w \in Workers, CommitCreate(w), ~row.present PROVE Forward
  <2>1. row' = image[w] /\ number' = number /\ row.current = 0
    BY <1>0, <1>4 DEF CommitCreate, RowInv, NoRow
  <2>2. image[w].current \in Nat
    BY <1>0, <1>4 DEF TypeOK, SequenceRow, Number
  <2> QED
    BY <1>4, <2>1, <2>2 DEF Forward
<1>5. ASSUME NEW w \in Workers, Step(w) PROVE Forward
  BY <1>1, <1>2, <1>3, <1>4, <1>5
  DEF Step, Progress, BeginReserve, BeginUpsert, Reserve, ReserveNext,
      RefuseReserve, Update, Create, RefuseUpsert, CommitCreate, Abort
<1> QED
  BY <1>1, <1>5 DEF Next, vars

\* The sequence never regresses and never hands a number out again.
THEOREM NeverReissuedHolds == Spec => NeverReissued
<1>1. IInv /\ [Next]_vars =>
        [/\ row.present => row'.present
         /\ row'.current >= row.current
         /\ \A d \in Drafts : number'[d] # number[d] => number'[d] > row.current]_vars
  BY StepForward DEF Forward
<1> QED
  BY <1>1, Invariance, PTL DEF Spec, NeverReissued

\* The row lock implements the numbering that FiscalNumbering specifies.
THEOREM Refinement == Spec => Implements
<1>1. Init => Abstract!Init
  BY DEF Init, Abstract!Init, NoNumbers, NoRow
<1>2. IInv /\ IInv' /\ [Next]_vars => [Abstract!Assign]_(Abstract!vars)
  <2> SUFFICES ASSUME IInv, IInv', [Next]_vars PROVE Abstract!Assign
    OBVIOUS
  <2>0. Forward
    BY StepForward
  <2>1. TypeOK /\ TypeOK' /\ NumberInv'
    BY DEF IInv
  <2> DEFINE fresh == {d \in Drafts : number'[d] # number[d]}
             top == row'.current
  <2>2. fresh \in SUBSET Drafts /\ top \in row.current..MaxNumber
        /\ row.current \in Nat /\ \A d \in Drafts : number'[d] \in Nat
    BY <2>0, <2>1 DEF Forward, TypeOK, SequenceRow, Number
  <2>3. number' \in [Drafts -> 0..MaxNumber]
    BY <2>1 DEF TypeOK, Number
  <2>4. \A d \in Drafts \ fresh : number'[d] = number[d]
    OBVIOUS
  <2>5. \A d \in fresh : number'[d] > row.current /\ number'[d] <= top
    BY <2>0 DEF Forward
  <2>6. \A d, e \in fresh : number'[d] = number'[e] => d = e
    BY <2>1, <2>2, <2>5 DEF NumberInv, DistinctNumbers
  <2> QED
    BY <2>2, <2>3, <2>4, <2>5, <2>6 DEF Abstract!Assign
<1> QED
  BY <1>1, <1>2, Invariance, PTL DEF Spec, Implements, Abstract!Spec

-----------------------------------------------------------------------------
(* A reservation moves the row only with the drafts that got its numbers   *)

\* A request that reserves has a draft to number, and the last number that it
\* reserved is the one of some draft.
HeldInv == \A w \in Workers :
  /\ pc[w] = "reserving" => wanted[w] # {}
  /\ pc[w] = "reserved" =>
       \E d \in Drafts : pending[w][d] = image[w].current /\ pending[w][d] # 0

LEMMA HeldStep == IInv /\ HeldInv /\ [Next]_vars => HeldInv'
<1> SUFFICES ASSUME IInv, HeldInv, [Next]_vars PROVE HeldInv'
  OBVIOUS
<1>1. TypeOK
  BY DEF IInv
<1>2. ASSUME NEW w \in Workers, Close(w) PROVE HeldInv'
  BY <1>1, <1>2, CloseType DEF HeldInv
<1>3. ASSUME NEW w \in Workers, NEW d \in Drafts, BeginReserve(w, d) PROVE HeldInv'
  BY <1>1, <1>3 DEF BeginReserve, HeldInv, TypeOK
<1>4. ASSUME NEW w \in Workers, NEW q \in Request, BeginUpsert(w, q) PROVE HeldInv'
  BY <1>1, <1>4 DEF BeginUpsert, HeldInv, TypeOK
<1>5. ASSUME NEW w \in Workers, Reserve(w) PROVE HeldInv'
  <2> DEFINE n == NextNumber(row)
             r == [row EXCEPT !.current = n, !.last = n]
             p == [d \in Drafts |-> IF d \in wanted[w] THEN n ELSE 0]
  <2>1. row \in SequenceRow /\ n \in 1..MaxNumber
    BY <1>1, <1>5, NextNumberBounds DEF Reserve, TypeOK
  <2>2. r.current = n
    BY <2>1 DEF SequenceRow
  <2>3. PICK d \in Drafts : d \in wanted[w]
    BY <1>1, <1>5 DEF HeldInv, Reserve, TypeOK
  <2>4. p[d] = n
    BY <2>3
  <2>5. image' = [image EXCEPT ![w] = r] /\ pending' = [pending EXCEPT ![w] = p]
    BY <1>5 DEF Reserve
  <2>6. wanted' = wanted /\ pc' = [pc EXCEPT ![w] = "reserved"]
    BY <1>5 DEF Reserve
  <2> HIDE DEF n, r, p
  <2>7. pending'[w][d] = image'[w].current /\ pending'[w][d] # 0
    BY <1>1, <2>1, <2>2, <2>4, <2>5 DEF TypeOK
  <2> QED BY <1>1, <2>5, <2>6, <2>7 DEF HeldInv, TypeOK
<1>6. ASSUME NEW w \in Workers, NEW d \in Drafts, ReserveNext(w, d) PROVE HeldInv'
  <2> DEFINE n == NextNumber(image[w])
             r == [image[w] EXCEPT !.current = n, !.last = n]
             p == [pending[w] EXCEPT ![d] = n]
  <2>1. /\ image[w] \in SequenceRow /\ pending[w] \in [Drafts -> Number]
        /\ n \in 1..MaxNumber
    BY <1>1, <1>6, NextNumberBounds DEF ReserveNext, TypeOK
  <2>2. r.current = n /\ p[d] = n
    BY <2>1 DEF SequenceRow
  <2>3. /\ image' = [image EXCEPT ![w] = r] /\ pending' = [pending EXCEPT ![w] = p]
        /\ UNCHANGED <<pc, wanted>>
    BY <1>1, <1>6 DEF ReserveNext, TypeOK
  <2> HIDE DEF n, r, p
  <2>4. pending'[w][d] = image'[w].current /\ pending'[w][d] # 0
    BY <1>1, <2>1, <2>2, <2>3 DEF TypeOK
  <2> QED BY <1>1, <2>3, <2>4 DEF HeldInv, TypeOK
<1>7. ASSUME NEW w \in Workers, Update(w) \/ Create(w) PROVE HeldInv'
  BY <1>1, <1>7 DEF Update, Create, HeldInv, TypeOK
<1>8. CASE UNCHANGED vars
  BY <1>8 DEF vars, HeldInv
<1> QED
  BY <1>2, <1>3, <1>4, <1>5, <1>6, <1>7, <1>8
  DEF Next, Step, Progress, RefuseReserve, CommitReserve, RefuseUpsert, CommitUpdate,
      CommitCreate, Abort

\* A request that reserved a number and ends has spent it on a draft, or has left
\* the row of the sequence as it was.
THEOREM NumbersAreSpent == Spec => RollbackReturnsNumber
<1> DEFINE Spent == \A w \in Workers :
             pc[w] = "reserved" /\ pc'[w] = "idle" /\ row' # row
               => \E d \in Drafts : number'[d] = row'.current
<1>1. IInv /\ HeldInv /\ [Next]_vars => Spent
  <2> SUFFICES ASSUME IInv, HeldInv, [Next]_vars, NEW w \in Workers,
                      pc[w] = "reserved", pc'[w] = "idle", row' # row
               PROVE  \E d \in Drafts : number'[d] = row'.current
    OBVIOUS
  <2>1. TypeOK
    BY DEF IInv
  <2>2. PICK v \in Workers : Step(v)
    BY DEF Next, vars
  <2>3. CASE v = w
    <3>1. CommitReserve(w)
      BY <2>2, <2>3
      DEF Step, Progress, BeginReserve, BeginUpsert, Reserve, ReserveNext, RefuseReserve,
          Update, Create, RefuseUpsert, CommitUpdate, CommitCreate, Abort
    <3>2. PICK d \in Drafts : pending[w][d] = image[w].current /\ pending[w][d] # 0
      BY DEF HeldInv
    <3> QED BY <3>1, <3>2 DEF CommitReserve
  <2>4. CASE v # w
    <3>1. pc'[w] = pc[w]
      BY <2>1, <2>2, <2>4
      DEF TypeOK, Step, Progress, BeginReserve, BeginUpsert, Reserve, ReserveNext,
          RefuseReserve, CommitReserve, Update, Create, RefuseUpsert, CommitUpdate,
          CommitCreate, Abort, Close
    <3> QED BY <3>1
  <2> QED BY <2>3, <2>4
<1>2. Init => HeldInv
  BY DEF Init, HeldInv
<1>3. Spec => [][Spent]_vars
  BY <1>1, <1>2, HeldStep, Invariance, PTL DEF Spec
<1> QED BY <1>3, PTL DEF RollbackReturnsNumber
=============================================================================
