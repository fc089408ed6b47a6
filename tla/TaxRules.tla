------------------------------ MODULE TaxRules ------------------------------
(***************************************************************************)
(* The import tax rules of one client: how a rule is chosen for the goods  *)
(* of a DUIMP, and how the requests of administrators create, change and   *)
(* deactivate rules while a check keeps two active rules from claiming the *)
(* same goods with the same score.  Code: ImportNfeService in              *)
(* import_process.py and nfe_automation_routes.py.                         *)
(*                                                                         *)
(* The check reads what other transactions committed before it (READ       *)
(* COMMITTED) and an update checks the row as it was loaded, with the      *)
(* fields of its payload on top, but writes only the fields that differ.   *)
(***************************************************************************)
EXTENDS Integers, Sequences

CONSTANTS
    Ids,          \* the rules there is room for
    Workers,      \* the requests that run at the same time
    Candidates,   \* the rules an administrator may create
    Patches,      \* the partial rules an update may carry
    Inputs,       \* the goods a rule is asked for, see Input
    MaxRequests   \* bound: the requests ever made

None == [none |-> TRUE]
Idle == [step |-> "idle"]
Every == "every"  \* a rule for every modality, every regime
NoDate == -1      \* a rule without a limit, a DUIMP without a date

Digits == Seq(0..9)
Date == {NoDate} \cup Nat

\* scope stands for the issuer's state and the purpose of the import; pattern for
\* the NCM the rule is for, or the digits it starts with.
Rule ==
    [scope : STRING, modality : STRING, regime : STRING, pattern : Digits,
     priority : Nat, from : Date, until : Date, active : BOOLEAN]
Fields ==
    [scope |-> STRING, modality |-> STRING, regime |-> STRING, pattern |-> Digits,
     priority |-> Nat, from |-> Date, until |-> Date, active |-> BOOLEAN]
Input ==
    [scope : STRING, modality : STRING \ {Every}, regime : STRING \ {Every},
     ncms : SUBSET Digits, date : Date]

\* What an update may carry: some of the fields of a rule.
PartOfRule(p) ==
    DOMAIN p \subseteq DOMAIN Fields /\ \A f \in DOMAIN p : p[f] \in Fields[f]

ASSUME RuleData ==
    /\ Ids \subseteq Nat /\ MaxRequests \in Nat
    /\ Candidates \subseteq Rule
    /\ Inputs \subseteq Input
    /\ \A p \in Patches : PartOfRule(p)

VARIABLES
    rule,      \* the committed row of each rule, or None
    req,       \* what each request holds
    requests,  \* the requests made so far
    late,      \* ghost: requests another one committed a rule during
    raced      \* ghost: rules whose last write came from such a request

vars == <<rule, req, requests, late, raced>>

---------------------------------------------------------------------------
(* The choice of a rule *)

StartsWith(n, p) == Len(p) <= Len(n) /\ \A k \in 1..Len(p) : n[k] = p[k]

\* _tax_rule_mismatch_reasons finds none.  A date that is not known excludes no
\* rule.
Matches(r, in) ==
    /\ r.scope = in.scope
    /\ r.regime \in {Every, in.regime}
    /\ r.modality \in {Every, in.modality}
    /\ in.date # NoDate =>
         /\ r.from = NoDate \/ r.from <= in.date
         /\ r.until = NoDate \/ in.date <= r.until
    /\ r.pattern = <<>> \/ (in.ncms # {} /\ \A n \in in.ncms : StartsWith(n, r.pattern))

Score(r) ==
    <<r.priority, Len(r.pattern),
      IF r.modality = Every THEN 0 ELSE 1, IF r.regime = Every THEN 0 ELSE 1>>

Beats(r, s) ==
    \E k \in 1..4 : /\ Score(r)[k] > Score(s)[k]
                    /\ \A j \in 1..(k - 1) : Score(r)[j] = Score(s)[j]

Overlap(a, b) == a = Every \/ b = Every \/ a = b

\* The mistake of taking the last day of a period for the first after it.
ApartInclusive(r, s) == r.until # NoDate /\ s.from # NoDate /\ r.until <= s.from

\* One period ends before the other begins.
Apart(r, s) == r.until # NoDate /\ s.from # NoDate /\ r.until < s.from

\* _tax_rules_are_ambiguous
Ambiguous(r, s) ==
    /\ Score(r) = Score(s)
    /\ r.scope = s.scope
    /\ Overlap(r.modality, s.modality)
    /\ Overlap(r.regime, s.regime)
    /\ \/ r.pattern = <<>> \/ s.pattern = <<>>
       \/ StartsWith(r.pattern, s.pattern) \/ StartsWith(s.pattern, r.pattern)
    /\ ~Apart(r, s) /\ ~Apart(s, r)

Active == {i \in Ids : rule[i] # None /\ rule[i].active}

\* match_import_tax_rule: the matching rules no other one beats.  More than one
\* of them is the conflict it raises.
Best(in) ==
    LET matching == {i \in Active : Matches(rule[i], in)}
    IN  {i \in matching : \A j \in matching : ~Beats(rule[j], rule[i])}

\* import_tax_rule_diagnostics: the pairs an administrator is shown.
Reported == {pair \in Active \X Active :
               pair[1] # pair[2] /\ Ambiguous(rule[pair[1]], rule[pair[2]])}

---------------------------------------------------------------------------
(* The requests *)

\* A rule with the fields of a payload set.
Patched(r, p) == [f \in DOMAIN r |-> IF f \in DOMAIN p THEN p[f] ELSE r[f]]

Valid(r) == r.from = NoDate \/ r.until = NoDate \/ r.from <= r.until

\* The mistake of checking a rule only when it is created.
ConflictsOfNew(r, others) ==
    IF others # Ids THEN {} ELSE {i \in others \cap Active : Ambiguous(r, rule[i])}

\* _find_import_tax_rule_conflicts: nothing conflicts with an inactive rule.
Conflicts(r, others) ==
    {i \in others \cap Active : r.active /\ Ambiguous(r, rule[i])}

\* The mistake of an update that does not keep its row locked.
NoRowLock(i) == TRUE

\* An update keeps its row locked from its flush to its commit.
RowLock(i) == \A w \in Workers : req[w].step = "flushed" => req[w].id # i

Init ==
    /\ rule = [i \in Ids |-> None]
    /\ req = [w \in Workers |-> Idle]
    /\ requests = 0
    /\ late = {} /\ raced = {}

Start(w, r) ==
    /\ req[w] = Idle
    /\ requests < MaxRequests
    /\ requests' = requests + 1
    /\ req' = [req EXCEPT ![w] = r]
    /\ late' = late \ {w}
    /\ UNCHANGED <<rule, raced>>

Close(w, i, row) ==
    /\ rule' = [rule EXCEPT ![i] = row]
    /\ req' = [req EXCEPT ![w] = Idle]
    /\ late' = (late \cup {v \in Workers : req[v] # Idle}) \ {w}
    /\ raced' = IF w \in late THEN raced \cup {i} ELSE raced \ {i}
    /\ UNCHANGED requests

\* create_import_tax_rule, up to its insert.
CheckNew(w) ==
    \E r \in Candidates :
      /\ Valid(r)
      /\ Conflicts(r, Ids) = {}
      /\ Start(w, [step |-> "new", row |-> r])

InsertNew(w) ==
    /\ req[w].step = "new"
    /\ \E i \in Ids : /\ rule[i] = None
                      /\ \A j \in Ids : rule[j] = None => i <= j
                      /\ Close(w, i, req[w].row)

\* get_import_tax_rule, for an update or a deactivation.
Load(w) ==
    \E i \in Ids, p \in Patches :
      /\ rule[i] # None
      /\ Start(w, [step |-> "loaded", id |-> i, patch |-> p, row |-> rule[i]])

\* The fields of a request that differ from the row it loaded.
Changes(q) ==
    [f \in {g \in DOMAIN q.patch : q.patch[g] # q.row[g]} |-> q.patch[f]]

\* update_import_tax_rule: the flush takes the lock of the row, the check reads
\* the other rules.  deactivate_import_tax_rule validates nothing.
Flush(w) ==
    LET q == req[w]
        merged == Patched(q.row, q.patch)
    IN  /\ q.step = "loaded"
        /\ RowLock(q.id)
        /\ q.patch = [active |-> FALSE] \/ Valid(merged)
        /\ Conflicts(merged, Ids \ {q.id}) = {}
        /\ req' = [req EXCEPT ![w] = [step |-> "flushed", id |-> q.id,
                                      change |-> Changes(q)]]
        /\ UNCHANGED <<rule, requests, late, raced>>

CommitUpdate(w) ==
    /\ req[w].step = "flushed"
    /\ Close(w, req[w].id, Patched(rule[req[w].id], req[w].change))

\* A conflict, an invalid period or any other error: the route rolls back.
Abort(w) ==
    /\ req[w] # Idle
    /\ req' = [req EXCEPT ![w] = Idle]
    /\ UNCHANGED <<rule, requests, late, raced>>

Next ==
    \E w \in Workers :
      CheckNew(w) \/ InsertNew(w) \/ Load(w) \/ Flush(w) \/ CommitUpdate(w) \/ Abort(w)

Spec == Init /\ [][Next]_vars

---------------------------------------------------------------------------
(* Properties *)

\* What a request may hold; the rule it updates exists.
WellFormed(q) ==
    \/ q = Idle
    \/ q \in [step : {"new"}, row : Rule]
    \/ /\ q \in [step : {"loaded"}, id : Ids, patch : Patches, row : Rule]
       /\ rule[q.id] # None
    \/ /\ q = [step |-> "flushed", id |-> q.id, change |-> q.change]
       /\ q.id \in Ids /\ rule[q.id] # None /\ PartOfRule(q.change)

\* Type correctness, and that a rule has one uncommitted update at most.
TypeOK ==
    /\ rule \in [Ids -> Rule \cup {None}]
    /\ DOMAIN req = Workers
    /\ \A w \in Workers : WellFormed(req[w])
    /\ \A v, w \in Workers :
         (v # w /\ req[v].step = "flushed" /\ req[w].step = "flushed") =>
           req[v].id # req[w].id
    /\ requests \in 0..MaxRequests
    /\ late \subseteq Workers /\ raced \subseteq Ids

\* A DUIMP with a known date that finds two best rules finds a pair the
\* diagnostics name: the operator who is refused a draft can see which rules to
\* correct.
ConflictIsReported ==
    \A in \in Inputs :
      in.date # NoDate =>
        \A i, j \in Best(in) : i = j \/ <<i, j>> \in Reported

\* Two active rules that are ambiguous, and an active rule whose period ends before
\* it begins, come from requests that overlapped: the last writer of one of the rules was
\* still running when another request committed.
ConflictsComeFromRaces ==
    /\ \A pair \in Reported : pair[1] \in raced \/ pair[2] \in raced
    /\ \A i \in Active : Valid(rule[i]) \/ i \in raced

=============================================================================
