---------------------------- MODULE TaxRulesProofs ----------------------------
(***************************************************************************)
(* Proofs about TaxRules, for any rules, requests and goods: the types,    *)
(* that an administrator can see every conflict a DUIMP meets, and that    *)
(* ambiguous rules come from overlapping requests only.                    *)
(***************************************************************************)
EXTENDS TaxRules, TLAPS

---------------------------------------------------------------------------
(* Lemmas about rules *)

\* A row of the table is not the absence of a row.
LEMMA RuleIsThere == ASSUME NEW r \in Rule PROVE r # None
BY DEF Rule, None

\* Setting some fields of a rule gives a rule.
LEMMA PatchedIsRule ==
  ASSUME NEW r \in Rule, NEW p, PartOfRule(p)
  PROVE  Patched(r, p) \in Rule
BY DEF Rule, Fields, PartOfRule, Patched, Date, Digits

\* The fields that differ are enough.
LEMMA ChangesSuffice ==
  ASSUME NEW r \in Rule, NEW q, q.row = r, PartOfRule(q.patch)
  PROVE  Patched(r, Changes(q)) = Patched(r, q.patch) /\ PartOfRule(Changes(q))
BY DEF Patched, Changes, PartOfRule

\* A rule that is switched off is off.
LEMMA SwitchedOff ==
  ASSUME NEW r \in Rule PROVE ~Patched(r, [active |-> FALSE]).active
BY DEF Rule, Patched

\* Ambiguity has no direction.
LEMMA AmbiguityIsMutual ==
  ASSUME NEW r, NEW s, Ambiguous(r, s) PROVE Ambiguous(s, r)
BY DEF Ambiguous, Overlap

\* Two rules of which neither beats the other have one score.
LEMMA NoWinnerIsTie ==
  ASSUME NEW r \in Rule, NEW s \in Rule, ~Beats(r, s), ~Beats(s, r)
  PROVE  Score(r) = Score(s)
<1>1. /\ r.priority \in Nat /\ s.priority \in Nat
      /\ Len(r.pattern) \in Nat /\ Len(s.pattern) \in Nat
  BY DEF Rule, Digits
<1>2. \A k \in 1..4 : Score(r)[k] \in Nat /\ Score(s)[k] \in Nat
  BY <1>1 DEF Score
<1>3. ASSUME NEW k \in 1..4, \A j \in 1..(k - 1) : Score(r)[j] = Score(s)[j]
      PROVE  Score(r)[k] = Score(s)[k]
  BY <1>2, <1>3 DEF Beats
<1>4. Score(r)[1] = Score(s)[1]
  BY <1>3
<1>5. Score(r)[2] = Score(s)[2]
  BY <1>3, <1>4
<1>6. Score(r)[3] = Score(s)[3]
  BY <1>3, <1>4, <1>5
<1>7. Score(r)[4] = Score(s)[4]
  BY <1>3, <1>4, <1>5, <1>6
<1>8. QED
  BY <1>4, <1>5, <1>6, <1>7 DEF Score

\* Of two patterns that one code starts with, one starts with the other.
LEMMA PrefixesNest ==
  ASSUME NEW n \in Digits, NEW p \in Digits, NEW q \in Digits,
         StartsWith(n, p), StartsWith(n, q)
  PROVE  StartsWith(p, q) \/ StartsWith(q, p)
<1>1. Len(p) \in Nat /\ Len(q) \in Nat
  BY DEF Digits
<1>2. CASE Len(p) <= Len(q)
  BY <1>1, <1>2 DEF StartsWith
<1>3. CASE Len(q) <= Len(p)
  BY <1>1, <1>3 DEF StartsWith
<1>4. QED
  BY <1>1, <1>2, <1>3

\* Two rules that fit the same goods on a known day and tie are ambiguous: the
\* check of the administrators misses no pair that a DUIMP can find.
LEMMA TiesAreAmbiguous ==
  ASSUME NEW in \in Input, in.date # NoDate, NEW r \in Rule, NEW s \in Rule,
         Matches(r, in), Matches(s, in), Score(r) = Score(s)
  PROVE  Ambiguous(r, s)
<1>1. /\ r.scope = s.scope
      /\ Overlap(r.modality, s.modality)
      /\ Overlap(r.regime, s.regime)
  BY DEF Matches, Overlap
<1>2. \/ r.pattern = <<>> \/ s.pattern = <<>>
      \/ StartsWith(r.pattern, s.pattern) \/ StartsWith(s.pattern, r.pattern)
  <2>1. SUFFICES ASSUME r.pattern # <<>>, s.pattern # <<>>
                 PROVE  \/ StartsWith(r.pattern, s.pattern)
                        \/ StartsWith(s.pattern, r.pattern)
    OBVIOUS
  <2>2. PICK n \in in.ncms : StartsWith(n, r.pattern) /\ StartsWith(n, s.pattern)
    BY <2>1 DEF Matches
  <2>3. n \in Digits /\ r.pattern \in Digits /\ s.pattern \in Digits
    BY <2>2 DEF Input, Rule
  <2>4. QED
    BY <2>2, <2>3, PrefixesNest
<1>3. ~Apart(r, s) /\ ~Apart(s, r)
  <2>1. /\ in.date \in Date /\ r.from \in Date /\ r.until \in Date
        /\ s.from \in Date /\ s.until \in Date
    BY DEF Input, Rule
  <2>2. QED
    BY <2>1 DEF Matches, Apart, Date, NoDate
<1>4. QED
  BY <1>1, <1>2, <1>3 DEF Ambiguous

---------------------------------------------------------------------------
(* The invariant.  A request during which nobody else committed knows the  *)
(* rules as they are (Punctual); what it commits then conflicts with none. *)

\* A row that nobody else may contradict.
Safe(r, others) ==
  /\ r.active => Valid(r)
  /\ Conflicts(r, others) = {}

Punctual ==
  \A w \in Workers \ late :
    /\ req[w].step = "new" => Safe(req[w].row, Ids)
    /\ req[w].step = "loaded" => req[w].row = rule[req[w].id]
    /\ req[w].step = "flushed" =>
         Safe(Patched(rule[req[w].id], req[w].change), Ids \ {req[w].id})

\* ConflictsComeFromRaces, of the rules themselves.
RacesOnly ==
  /\ \A i, j \in Active :
       i # j /\ Ambiguous(rule[i], rule[j]) => i \in raced \/ j \in raced
  /\ \A i \in Active : Valid(rule[i]) \/ i \in raced

IInv == TypeOK /\ Punctual /\ RacesOnly

---------------------------------------------------------------------------
LEMMA InitInv == Init => IInv
<1>1. SUFFICES ASSUME Init PROVE IInv
  OBVIOUS
<1>2. Active = {}
  BY <1>1 DEF Init, Active
<1>3. TypeOK
  BY <1>1, RuleData DEF Init, TypeOK, WellFormed, Idle
<1>4. Punctual
  BY <1>1 DEF Init, Punctual, Idle
<1>5. QED
  BY <1>2, <1>3, <1>4 DEF IInv, RacesOnly

\* A request that begins reads the rules as they are.
LEMMA StartInv ==
  ASSUME IInv, NEW w \in Workers, NEW q, Start(w, q), WellFormed(q),
         q.step \in {"new", "loaded"},
         q.step = "new" => Safe(q.row, Ids),
         q.step = "loaded" => q.row = rule[q.id]
  PROVE  IInv'
<1>1. /\ rule' = rule /\ raced' = raced /\ late' = late \ {w}
      /\ requests' = requests + 1 /\ requests < MaxRequests
      /\ req' = [req EXCEPT ![w] = q] /\ DOMAIN req = Workers
  BY DEF Start, IInv, TypeOK
<1>2. /\ req'[w] = q
      /\ \A v \in Workers \ {w} : req'[v] = req[v]
  BY <1>1
<1>3. TypeOK'
  <2>1. \A v \in Workers : WellFormed(req[v])'
    BY <1>1, <1>2 DEF IInv, TypeOK, WellFormed
  <2>2. QED
    BY <1>1, <1>2, <2>1, RuleData DEF IInv, TypeOK
<1>4. Punctual'
  BY <1>1, <1>2 DEF IInv, Punctual, Safe, Conflicts, Active
<1>5. RacesOnly'
  BY <1>1 DEF IInv, RacesOnly, Active
<1>6. QED
  BY <1>3, <1>4, <1>5 DEF IInv

\* A request that ends with a row of its own: safe when it was punctual.
LEMMA CloseInv ==
  ASSUME IInv, NEW w \in Workers, NEW i \in Ids, NEW r \in Rule, Close(w, i, r),
         req[w] # Idle, w \notin late => Safe(r, Ids \ {i})
  PROVE  IInv'
<1>1. /\ rule' = [rule EXCEPT ![i] = r] /\ DOMAIN rule = Ids
      /\ req' = [req EXCEPT ![w] = Idle] /\ DOMAIN req = Workers
      /\ late' = (late \cup {v \in Workers : req[v] # Idle}) \ {w}
      /\ raced' = IF w \in late THEN raced \cup {i} ELSE raced \ {i}
      /\ requests' = requests
  BY DEF Close, IInv, TypeOK
<1>2. /\ rule'[i] = r /\ r # None
      /\ \A j \in Ids \ {i} : rule'[j] = rule[j]
      /\ req'[w] = Idle
      /\ \A v \in Workers \ {w} : req'[v] = req[v]
  BY <1>1, RuleIsThere
<1>3. TypeOK'
  <2>1. rule' \in [Ids -> Rule \cup {None}]
    BY <1>1 DEF IInv, TypeOK
  <2>2. \A v \in Workers : WellFormed(req[v])'
    BY <1>2 DEF IInv, TypeOK, WellFormed
  <2>3. \A u, v \in Workers :
          (u # v /\ req'[u].step = "flushed" /\ req'[v].step = "flushed") =>
            req'[u].id # req'[v].id
    BY <1>2 DEF IInv, TypeOK, Idle
  <2>4. QED
    BY <1>1, <2>1, <2>2, <2>3 DEF IInv, TypeOK
<1>4. Punctual'
  <2>1. \A v \in Workers \ late' : req'[v] = Idle
    BY <1>1, <1>2
  <2>2. QED
    BY <2>1 DEF Punctual, Idle
<1>5. RacesOnly'
  <2>1. \A j \in Active' : j # i => j \in Active /\ rule'[j] = rule[j]
    BY <1>2 DEF Active
  <2>2. \A j \in Ids : j # i /\ j \in raced => j \in raced'
    BY <1>1
  <2>3. ASSUME NEW j \in Active', NEW k \in Active', j # k,
               Ambiguous(rule'[j], rule'[k])
        PROVE  j \in raced' \/ k \in raced'
    <3>1. CASE j # i /\ k # i
      BY <2>1, <2>2, <2>3, <3>1 DEF IInv, RacesOnly, Active
    <3>2. CASE w \in late /\ (j = i \/ k = i)
      BY <1>1, <3>2
    <3>3. ASSUME w \notin late, NEW m \in Active', m # i, i \in Active',
                 Ambiguous(r, rule'[m])
          PROVE  FALSE
      <4>1. m \in (Ids \ {i}) \cap Active /\ rule'[m] = rule[m]
        BY <2>1, <3>3 DEF Active
      <4>2. r.active
        BY <1>2, <3>3 DEF Active
      <4>3. QED
        BY <3>3, <4>1, <4>2 DEF Safe, Conflicts
    <3>4. CASE w \notin late /\ j = i
      BY <1>2, <2>3, <3>3, <3>4
    <3>5. CASE w \notin late /\ k = i
      BY <1>2, <2>3, <3>3, <3>5, AmbiguityIsMutual
    <3>6. QED
      BY <3>1, <3>2, <3>4, <3>5
  <2>4. ASSUME NEW j \in Active' PROVE Valid(rule'[j]) \/ j \in raced'
    <3>1. CASE j # i
      BY <2>1, <2>2, <3>1 DEF IInv, RacesOnly, Active
    <3>2. CASE j = i
      BY <1>1, <1>2, <3>2 DEF Safe, Active
    <3>3. QED
      BY <3>1, <3>2
  <2>5. QED
    BY <2>3, <2>4 DEF RacesOnly
<1>6. QED
  BY <1>3, <1>4, <1>5 DEF IInv

---------------------------------------------------------------------------
(* One lemma per action *)

LEMMA CheckNewInv == ASSUME IInv, NEW w \in Workers, CheckNew(w) PROVE IInv'
<1>1. PICK r \in Candidates :
        /\ Valid(r) /\ Conflicts(r, Ids) = {}
        /\ Start(w, [step |-> "new", row |-> r])
  BY DEF CheckNew
<1>2. WellFormed([step |-> "new", row |-> r])
  BY RuleData DEF WellFormed
<1>3. QED
  BY <1>1, <1>2, StartInv DEF Safe

LEMMA InsertNewInv == ASSUME IInv, NEW w \in Workers, InsertNew(w) PROVE IInv'
<1>1. PICK i \in Ids : Close(w, i, req[w].row)
  BY DEF InsertNew
<1>2. req[w].step = "new" /\ req[w] # Idle
  BY DEF InsertNew, Idle
<1>3. req[w].row \in Rule
  BY <1>2 DEF IInv, TypeOK, WellFormed
<1>4. w \notin late => Safe(req[w].row, Ids \ {i})
  BY <1>2 DEF IInv, Punctual, Safe, Conflicts
<1>5. QED
  BY <1>1, <1>2, <1>3, <1>4, CloseInv

LEMMA LoadInv == ASSUME IInv, NEW w \in Workers, Load(w) PROVE IInv'
<1>1. PICK i \in Ids, p \in Patches :
        /\ rule[i] # None
        /\ Start(w, [step |-> "loaded", id |-> i, patch |-> p, row |-> rule[i]])
  BY DEF Load
<1>2. WellFormed([step |-> "loaded", id |-> i, patch |-> p, row |-> rule[i]])
  BY <1>1 DEF IInv, TypeOK, WellFormed
<1>3. QED
  BY <1>1, <1>2, StartInv

LEMMA FlushInv == ASSUME IInv, NEW w \in Workers, Flush(w) PROVE IInv'
<1> DEFINE q == req[w]
           f == [step |-> "flushed", id |-> q.id, change |-> Changes(q)]
           merged == Patched(q.row, q.patch)
<1>1. /\ q.step = "loaded" /\ RowLock(q.id)
      /\ q.patch = [active |-> FALSE] \/ Valid(merged)
      /\ Conflicts(merged, Ids \ {q.id}) = {}
      /\ req' = [req EXCEPT ![w] = f] /\ DOMAIN req = Workers
      /\ UNCHANGED <<rule, requests, late, raced>>
  BY DEF Flush, IInv, TypeOK
<1>2. q.id \in Ids /\ q.patch \in Patches /\ q.row \in Rule /\ rule[q.id] # None
  BY <1>1 DEF IInv, TypeOK, WellFormed, Idle
<1>3. PartOfRule(q.patch)
  BY <1>2, RuleData
<1>4. req'[w] = f /\ \A v \in Workers \ {w} : req'[v] = req[v]
  BY <1>1
<1>5. PartOfRule(Changes(q))
  BY <1>2, <1>3, ChangesSuffice
<1>6. TypeOK'
  <2>1. \A v \in Workers : WellFormed(req[v])'
    BY <1>1, <1>2, <1>4, <1>5 DEF IInv, TypeOK, WellFormed
  <2>2. \A u, v \in Workers :
          (u # v /\ req'[u].step = "flushed" /\ req'[v].step = "flushed") =>
            req'[u].id # req'[v].id
    BY <1>1, <1>4 DEF IInv, TypeOK, RowLock
  <2>3. QED
    BY <1>1, <2>1, <2>2 DEF IInv, TypeOK
<1>7. Punctual'
  <2>1. ASSUME w \notin late
        PROVE  Safe(Patched(rule[q.id], f.change), Ids \ {q.id})
    <3>1. Patched(rule[q.id], f.change) = merged
      BY <1>1, <1>2, <1>3, <2>1, ChangesSuffice DEF IInv, Punctual
    <3>2. merged.active => Valid(merged)
      BY <1>1, <1>2, SwitchedOff
    <3>3. QED
      BY <1>1, <3>1, <3>2 DEF Safe
  <2>2. QED
    BY <1>1, <1>4, <2>1 DEF IInv, Punctual, Safe, Conflicts, Active
<1>8. RacesOnly'
  BY <1>1 DEF IInv, RacesOnly, Active
<1>9. QED
  BY <1>6, <1>7, <1>8 DEF IInv

LEMMA CommitUpdateInv == ASSUME IInv, NEW w \in Workers, CommitUpdate(w) PROVE IInv'
<1> DEFINE i == req[w].id
           r == Patched(rule[i], req[w].change)
<1>1. req[w].step = "flushed" /\ req[w] # Idle /\ Close(w, i, r)
  BY DEF CommitUpdate, Idle
<1>2. i \in Ids /\ rule[i] # None /\ PartOfRule(req[w].change)
  BY <1>1 DEF IInv, TypeOK, WellFormed
<1>3. rule[i] \in Rule
  BY <1>2 DEF IInv, TypeOK
<1>4. r \in Rule
  BY <1>2, <1>3, PatchedIsRule
<1>5. w \notin late => Safe(r, Ids \ {i})
  BY <1>1 DEF IInv, Punctual
<1>6. QED
  BY <1>1, <1>2, <1>4, <1>5, CloseInv

LEMMA AbortInv == ASSUME IInv, NEW w \in Workers, Abort(w) PROVE IInv'
<1>1. /\ req' = [req EXCEPT ![w] = Idle] /\ DOMAIN req = Workers
      /\ UNCHANGED <<rule, requests, late, raced>>
  BY DEF Abort, IInv, TypeOK
<1>2. req'[w] = Idle /\ \A v \in Workers \ {w} : req'[v] = req[v]
  BY <1>1
<1>3. TypeOK'
  <2>1. \A v \in Workers : WellFormed(req[v])'
    BY <1>1, <1>2 DEF IInv, TypeOK, WellFormed
  <2>2. QED
    BY <1>1, <1>2, <2>1 DEF IInv, TypeOK, Idle
<1>4. Punctual'
  BY <1>1, <1>2 DEF IInv, Punctual, Safe, Conflicts, Active, Idle
<1>5. RacesOnly'
  BY <1>1 DEF IInv, RacesOnly, Active
<1>6. QED
  BY <1>3, <1>4, <1>5 DEF IInv

LEMMA StutterInv == ASSUME IInv, UNCHANGED vars PROVE IInv'
BY DEF IInv, TypeOK, WellFormed, Punctual, RacesOnly, Safe, Conflicts, Active, vars

LEMMA StepInv == IInv /\ [Next]_vars => IInv'
<1>1. SUFFICES ASSUME IInv, [Next]_vars PROVE IInv'
  OBVIOUS
<1>2. CASE UNCHANGED vars
  BY <1>1, <1>2, StutterInv
<1>3. CASE Next
  BY <1>1, <1>3, CheckNewInv, InsertNewInv, LoadInv, FlushInv, CommitUpdateInv,
     AbortInv DEF Next
<1>4. QED
  BY <1>1, <1>2, <1>3

---------------------------------------------------------------------------
THEOREM Invariance == Spec => []IInv
BY InitInv, StepInv, PTL DEF Spec

\* Every rule and every request has its type, however many requests overlap, and
\* no rule has two uncommitted updates.
THEOREM TypeCorrect == Spec => []TypeOK
<1>1. IInv => TypeOK
  BY DEF IInv
<1>2. QED
  BY <1>1, Invariance, PTL

\* Whatever rules there are and however they came about, a dated DUIMP that finds
\* two best rules finds a pair that the diagnostics show.
THEOREM ConflictsAreShown == Spec => []ConflictIsReported
<1>1. ASSUME TypeOK PROVE ConflictIsReported
  <2>1. SUFFICES ASSUME NEW in \in Inputs, in.date # NoDate,
                        NEW i \in Best(in), NEW j \in Best(in), i # j
                 PROVE  <<i, j>> \in Reported
    BY DEF ConflictIsReported
  <2>2. /\ i \in Active /\ j \in Active
        /\ Matches(rule[i], in) /\ Matches(rule[j], in)
        /\ ~Beats(rule[i], rule[j]) /\ ~Beats(rule[j], rule[i])
    BY <2>1 DEF Best
  <2>3. rule[i] \in Rule /\ rule[j] \in Rule
    BY <1>1, <2>2 DEF TypeOK, Active
  <2>4. in \in Input
    BY <2>1, RuleData
  <2>5. Score(rule[i]) = Score(rule[j])
    BY <2>2, <2>3, NoWinnerIsTie
  <2>6. Ambiguous(rule[i], rule[j])
    BY <2>1, <2>2, <2>3, <2>4, <2>5, TiesAreAmbiguous
  <2>7. QED
    BY <2>1, <2>2, <2>6 DEF Reported
<1>2. QED
  BY <1>1, TypeCorrect, PTL

\* As long as requests do not overlap, no two active rules are ambiguous and no
\* active rule has an inverted period: only a last writer that another commit
\* overtook can leave one.
THEOREM RacesAreTheCause == Spec => []ConflictsComeFromRaces
<1>1. IInv => ConflictsComeFromRaces
  BY DEF IInv, RacesOnly, ConflictsComeFromRaces, Reported
<1>2. QED
  BY <1>1, Invariance, PTL

=============================================================================
