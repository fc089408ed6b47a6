------------------------------ MODULE NfeItems ------------------------------
(***************************************************************************)
(* The items of the NF-e drafts of one DUIMP: the shared costs of the      *)
(* import, divided over the items by a document plan, by the first         *)
(* calculation of a draft and again by every change of the costs, and the  *)
(* ICMS of an item, "por dentro" (calculated on a base that holds the tax  *)
(* itself).  Code: ImportTaxCalculator and the draft editor of             *)
(* ImportNfeService.                                                       *)
(*                                                                         *)
(* Money is in cents, a rate is a whole percentage.  due stands for what   *)
(* the DUIMP adds to the product in the base of the ICMS: freight,         *)
(* insurance, II, IPI, PIS and COFINS, less the discount.  THC and the     *)
(* remaining costs are divided exactly as siscomex_fee.                    *)
(***************************************************************************)
EXTENDS Integers, FiniteSets, FiniteSetsExt

CONSTANTS
    Items,        \* the numbers of the items of the DUIMP
    Exporters,    \* the foreign exporters, each with a document of its own
    Rules,        \* the tax rules of the client
    Duimps,       \* the contents of a DUIMP, see Item
    Assignments,  \* the rules an operator may give the items
    Configs,      \* the configurations a rule may have, see Config
    CostChoices,  \* the costs a plan, a draft or an edit may be asked for
    Products,     \* the values an edit may give a product
    Others,       \* the values an edit may give the other charges
    Payloads,     \* the import payloads a caller may send for an item
    Adjustments,  \* the ICMS an operator may set by hand
    MaxEdits      \* bound: the edits that follow the creation of the drafts

Costs == {"afrmm", "siscomex_fee"}
None == [none |-> TRUE]

\* What the application reads in the import payload of an item: the shares
\* (cost_allocation), which a division takes out of the charges, and apart from
\* them the AFRMM that is totalled (afrmm_value).
Payload == [shares : [Costs -> Nat], afrmm : Nat]

\* What a payload does not hold is read as zero (and, in the mistake, as nothing
\* at all).
NoPayloadAtAll == [shares |-> None, afrmm |-> 0]
NoPayload == [shares |-> [c \in Costs |-> 0], afrmm |-> 0]

NonTaxed == {"40", "41", "50"}

\* What a rule may configure, as its schema and calculate accept it.  A rate of
\* zero is none given, and what a CST does not read is zero.  perItem is what
\* icms_base_allocation says of CST 51.
Config ==
    {c \in [cst : {"00", "20", "51", "90"} \cup NonTaxed, rate : 0..99,
            reduction : 0..100, deferment : 0..100, perItem : BOOLEAN] :
       /\ c.cst \in NonTaxed => c.rate = 0
       /\ c.cst = "20" => c.rate > 0 /\ c.reduction \in 1..99
       /\ c.cst = "51" => /\ c.reduction = 0 \/ c.deferment = 0
                          /\ c.reduction + c.deferment > 0
                          /\ c.rate = 0 => 100 \in {c.reduction, c.deferment}
       /\ c.cst \in {"00", "90"} => c.rate > 0
       /\ c.cst \notin {"20", "51"} => c.reduction = 0
       /\ c.cst # "51" => c.deferment = 0 /\ ~c.perItem}
Item ==
    [exporter : Exporters, product : Nat \ {0}, customs : Nat \ {0},
     weight : Nat, other : Nat, due : Nat]

ASSUME Data ==
    /\ IsFiniteSet(Items) /\ Items \subseteq Nat /\ Items # {}
    /\ Duimps \subseteq [Items -> Item]
    /\ Assignments \subseteq [Items -> Rules]
    /\ Configs \subseteq Config
    /\ CostChoices \subseteq [Costs -> Nat]
    /\ Products \subseteq Nat \ {0} /\ Others \subseteq Nat
    /\ Payloads \subseteq Payload
    /\ Adjustments \subseteq [cst : {"00", "20", "51", "90"} \cup NonTaxed,
                              base : Nat, rate : 0..99, reduction : 0..99,
                              deferment : 0..100]
    /\ MaxEdits \in Nat

VARIABLES
    duimp,     \* the normalized items of the DUIMP snapshot
    ruleOf,    \* the tax rule of each classified item
    config,    \* the configuration of each rule, now
    plan,      \* the persisted division of the costs, or None
    costs,     \* the additional costs of the draft of each exporter, or None
    row,       \* the row of each item in its draft, or None
    fresh,     \* exporters whose draft's payload still holds the weights
    edits,     \* the edits so far
    edited,    \* ghost: items edited since their taxes were calculated
    replaced,  \* ghost: items whose import payload an edit replaced
    sent,      \* ghost: those replaced since the costs were divided last
    own,       \* ghost: the other charges of an item, its shares apart
    ordered    \* ghost: the manual ICMS in force for an item, or None

ghosts == <<edited, replaced, sent, own, ordered>>
vars == <<duimp, ruleOf, config, plan, costs, row, fresh, edits, ghosts>>

---------------------------------------------------------------------------
(* Arithmetic of the calculator *)

\* ROUND_HALF_UP of a quotient: the half goes away from zero.
HalfUp(n, d) == IF n >= 0 THEN (2 * n + d) \div (2 * d)
                ELSE -((d - 2 * n) \div (2 * d))

SumOver(S, f) == MapThenSumSet(LAMBDA i : f[i], S)

\* What the items of S pay of one cost.
Paid(shares, k, S) == SumOver(S, [i \in S |-> shares[i][k]])

\* The mistake of losing the cents the whole shares leave.
SplitFloor(total, w, S) ==
    IF total = 0 THEN [i \in S |-> 0]
    ELSE [i \in S |-> (total * w[i]) \div SumOver(S, w)]

\* allocate: whole cents, the residue to the largest fractions, ties to the
\* first items.
Split(total, w, S) ==
    LET all == SumOver(S, w)
        Floor == [i \in S |-> (total * w[i]) \div all]
        Fraction == [i \in S |-> (total * w[i]) % all]
        residue == total - SumOver(S, Floor)
        Before(i) == {j \in S : \/ Fraction[j] > Fraction[i]
                                \/ Fraction[j] = Fraction[i] /\ j < i}
    IN  IF total = 0 THEN [i \in S |-> 0]
        ELSE [i \in S |-> Floor[i]
                          + (IF Cardinality(Before(i)) < residue THEN 1 ELSE 0)]

\* _allocate_shared_cost_to_items: the residue goes to the largest item.
PlanSplit(total, w, S) ==
    LET Floor == [i \in S |-> (total * w[i]) \div SumOver(S, w)]
        largest == CHOOSE i \in S :
            \A j \in S : w[i] > w[j] \/ (w[i] = w[j] /\ i <= j)
        residue == total - SumOver(S, Floor)
    IN  [i \in S |-> Floor[i] + (IF i = largest THEN residue ELSE 0)]

\* The mistake of charging the rate on the value without the tax.
GrossOutside(numerator, cfg) == numerator

\* The base that holds its own tax, for the part of the rate that is charged.
Gross(numerator, cfg) ==
    HalfUp(numerator * 1000000,
           1000000 - cfg.rate * (100 - cfg.reduction) * (100 - cfg.deferment))

\* The ICMS of one item of a calculation.  gross is its own Gross, but for the
\* first calculation of a document with CST 51.
Icms(gross, cfg) ==
    LET base == CASE cfg.cst \in NonTaxed -> 0
                  [] cfg.cst = "20" -> HalfUp(gross * (100 - cfg.reduction), 100)
                  [] OTHER -> gross
        operation == HalfUp(base * cfg.rate, 100)
        deferred == HalfUp(operation * cfg.deferment, 100)
    IN  [cst |-> cfg.cst, rate |-> cfg.rate, reduction |-> cfg.reduction,
         before |-> gross, base |-> base, value |-> operation - deferred]

\* _manual_icms_values
ManualIcms(adj) ==
    LET base == IF adj.cst \in NonTaxed THEN 0 ELSE adj.base
        operation == IF adj.cst \in NonTaxed THEN 0
                     ELSE HalfUp(base * adj.rate, 100)
    IN  [cst |-> adj.cst, rate |-> adj.rate, reduction |-> adj.reduction,
         before |-> IF adj.cst = "20" THEN HalfUp(base * 100, 100 - adj.reduction)
                    ELSE base,
         base |-> base,
         value |-> operation - HalfUp(operation * adj.deferment, 100)]

---------------------------------------------------------------------------
(* The documents *)

ItemsOf(x) == {i \in Items : duimp[i].exporter = x}
Suppliers == {duimp[i].exporter : i \in Items}
Drafted == {i \in Items : row[i] # None}
Customs == [i \in Items |-> duimp[i].customs]
Weights == [i \in Items |-> duimp[i].weight]

\* The division of one cost by the first calculation of a draft without a plan.
FirstShare(k, total, S) ==
    Split(total, IF k = "afrmm" /\ Cardinality(S) > 1 THEN Weights ELSE Customs, S)

\* calculate refuses to divide AFRMM over items without a net weight.
Calculable(c) ==
    \/ c["afrmm"] = 0 \/ Cardinality(Items) = 1
    \/ \A i \in Items : duimp[i].weight > 0

\* The first ICMS of the items of a document: with one rule they are calculated
\* together, and CST 51 then divides a single base by customs value, unless the
\* rule says per_item.
FirstIcms(x, num) ==
    LET S == ItemsOf(x)
        Cfg(i) == config[ruleOf[i]]
        together == \A i, j \in S :
          ruleOf[i] = ruleOf[j] /\ Cfg(i).cst = "51" /\ ~Cfg(i).perItem
        total(i) == Gross(SumOver(S, num), Cfg(i))
    IN  [i \in S |->
           Icms(IF together THEN Split(total(i), Customs, S)[i]
                ELSE Gross(num[i], Cfg(i)), Cfg(i))]

\* The rows of a new draft.
FirstRow(x, i, shares) ==
    LET S == ItemsOf(x)
        other == [j \in S |-> duimp[j].other + SumOver(Costs, shares[j])]
        icms == FirstIcms(x, [j \in S |-> duimp[j].product + duimp[j].due + other[j]])
    IN  [product |-> duimp[i].product, other |-> other[i], shares |-> shares[i],
         afrmm |-> shares[i]["afrmm"], icms |-> icms[i], manual |-> None]

\* create_nfe_draft_from_duimp: the payload, its items and their rows.
NewDraft(x, c, shares) ==
    LET S == ItemsOf(x)
    IN  /\ costs' = [costs EXCEPT ![x] = c]
        /\ row' = [i \in Items |-> IF i \in S THEN FirstRow(x, i, shares) ELSE row[i]]
        /\ fresh' = fresh \cup {x}
        /\ own' = [i \in Items |-> IF i \in S THEN duimp[i].other ELSE own[i]]
        /\ UNCHANGED <<duimp, ruleOf, config, plan, edits, edited, replaced, sent, ordered>>

\* calculate_totals: what the payload of a draft totals of one cost.
Charged(i) == [row[i].shares EXCEPT !["afrmm"] = row[i].afrmm]
Total(x, k) == Paid([i \in ItemsOf(x) |-> Charged(i)], k, ItemsOf(x))

\* reconcile: the costs of a draft close, with no tolerance.
Balanced(x) == \A k \in Costs : Total(x, k) = costs[x][k]

---------------------------------------------------------------------------
Init ==
    /\ duimp \in Duimps
    /\ ruleOf \in Assignments
    /\ config \in [Rules -> Configs]
    /\ plan = None
    /\ costs = [x \in Exporters |-> None]
    /\ row = [i \in Items |-> None]
    /\ fresh = {}
    /\ edits = 0
    /\ edited = {} /\ replaced = {} /\ sent = {}
    /\ own = [i \in Items |-> 0]
    /\ ordered = [i \in Items |-> None]

\* The document plan of the snapshot.
CreatePlan ==
    /\ plan = None
    /\ Drafted = {}
    /\ \E c \in CostChoices :
         plan' = [total |-> c,
                  shares |-> [i \in Items |->
                                [k \in Costs |-> PlanSplit(c[k], Customs, Items)[i]]]]
    /\ UNCHANGED <<duimp, ruleOf, config, costs, row, fresh, edits, ghosts>>

\* The draft of a planned document, with the costs and shares the plan persisted.
GenerateChild(x) ==
    /\ plan # None
    /\ x \in Suppliers /\ costs[x] = None
    /\ LET shares == [i \in ItemsOf(x) |-> plan.shares[i]]
       IN  NewDraft(x, [k \in Costs |-> Paid(shares, k, ItemsOf(x))], shares)

\* The draft of a DUIMP of a single exporter, without a plan.
CreateDraft(x) ==
    /\ plan = None
    /\ Suppliers = {x} /\ costs[x] = None
    /\ \E c \in CostChoices :
         /\ Calculable(c)
         /\ NewDraft(x, c, [i \in Items |->
                              [k \in Costs |-> FirstShare(k, c[k], Items)[i]]])

---------------------------------------------------------------------------
(* The draft editor.  Each of its operations ends with                     *)
(* _refresh_draft_payload_from_items, which leaves the weights out.        *)

\* _item_to_payload: a row holds neither the customs value nor the weight.
Unweighted(x) == fresh' = fresh \ {x}

Write(i, r) ==
    /\ row' = [row EXCEPT ![i] = r]
    /\ Unweighted(duimp[i].exporter)
    /\ edits' = edits + 1

Editable(i) == i \in Drafted /\ edits < MaxEdits

\* update_draft_item: the values change, shares and taxes stay.
UpdateItem(i) ==
    /\ Editable(i)
    /\ \E p \in Products \cup {row[i].product}, o \in Others \cup {row[i].other} :
         /\ Write(i, [row[i] EXCEPT !.product = p, !.other = o])
         /\ own' = [own EXCEPT ![i] = o - SumOver(Costs, row[i].shares)]
    /\ edited' = edited \cup {i}
    /\ UNCHANGED <<duimp, ruleOf, config, plan, costs, replaced, sent, ordered>>

\* update_draft_item with an import payload of the caller's, stored as it comes:
\* without shares, with those of an earlier division, or with the AFRMM alone.
\* The shares of the old one go with it, the other charges still hold them.
ReplacePayload(i) ==
    /\ Editable(i)
    /\ \E p \in Payloads \cup {NoPayload} :
         Write(i, [row[i] EXCEPT !.shares = p.shares, !.afrmm = p.afrmm])
    /\ replaced' = replaced \cup {i}
    /\ sent' = sent \cup {i}
    /\ UNCHANGED <<duimp, ruleOf, config, plan, costs, edited, own, ordered>>

\* adjust_draft_item_tax, by hand.
AdjustIcms(i) ==
    /\ Editable(i)
    /\ \E a \in Adjustments :
         /\ a.cst = "20" => a.reduction > 0
         /\ a.cst \notin NonTaxed => a.rate > 0
         /\ Write(i, [row[i] EXCEPT !.icms = ManualIcms(a), !.manual = a])
         /\ ordered' = [ordered EXCEPT ![i] = a]
    /\ UNCHANGED <<duimp, ruleOf, config, plan, costs, edited, replaced, sent, own>>

\* The ICMS of a row on its own, with the rule as it is now.
RowIcms(i, other) ==
    LET cfg == config[ruleOf[i]]
    IN  Icms(Gross(row[i].product + duimp[i].due + other, cfg), cfg)

\* adjust_draft_item_tax, back to the rule.
ReapplyRule(i) ==
    /\ Editable(i)
    /\ Write(i, [row[i] EXCEPT !.icms = RowIcms(i, row[i].other), !.manual = None])
    /\ ordered' = [ordered EXCEPT ![i] = None]
    /\ edited' = edited \ {i}
    /\ UNCHANGED <<duimp, ruleOf, config, plan, costs, replaced, sent, own>>

\* The mistake of taking the charges of a row for its own.
WholeOther(i) == row[i].other

\* What the charges of a row are without the costs that were divided.
OwnOther(i) == row[i].other - SumOver(Costs, row[i].shares)

\* The mistake of calculating over what was set by hand.
RecalculatedByRule(i, shares) ==
    LET other == OwnOther(i) + SumOver(Costs, shares)
    IN  [row[i] EXCEPT !.other = other, !.shares = shares, !.afrmm = shares["afrmm"],
                       !.icms = RowIcms(i, other)]

\* A row after a division of the costs.
Recalculated(i, shares) ==
    LET other == OwnOther(i) + SumOver(Costs, shares)
    IN  [row[i] EXCEPT
           !.other = other,
           !.shares = shares,
           !.afrmm = shares["afrmm"],
           !.icms = IF row[i].manual # None THEN ManualIcms(row[i].manual)
                    ELSE RowIcms(i, other)]

\* A division of the costs c over the items of a draft, by what its payload still
\* says of weights and customs values.
Division(x, c) ==
    LET S == ItemsOf(x)
        customs == [i \in S |-> IF x \in fresh THEN duimp[i].customs
                                ELSE row[i].product]
        weights == IF x \in fresh /\ \A i \in S : duimp[i].weight > 0
                   THEN Weights ELSE customs
    IN  [k \in Costs |-> Split(c[k], IF k = "afrmm" THEN weights ELSE customs, S)]

\* _recalculate_draft_rows: the rows after the costs c are divided over them.
Redivided(x, c) ==
    [i \in Items |->
       IF i \in ItemsOf(x)
       THEN Recalculated(i, [k \in Costs |-> Division(x, c)[k][i]])
       ELSE row[i]]

\* update_draft_metadata with additional costs.
UpdateCosts(x) ==
    /\ ItemsOf(x) # {} /\ ItemsOf(x) \subseteq Drafted /\ edits < MaxEdits
    /\ \E c \in CostChoices :
         /\ costs' = [costs EXCEPT ![x] = c]
         /\ row' = Redivided(x, c)
    /\ Unweighted(x)
    /\ edits' = edits + 1
    /\ edited' = edited \ ItemsOf(x)
    /\ sent' = sent \ ItemsOf(x)
    /\ UNCHANGED <<duimp, ruleOf, config, plan, replaced, own, ordered>>

\* Any other operation that refreshes the payload: a validation, another edit of
\* the draft's data, a signature.
Refresh(x) ==
    /\ x \in fresh
    /\ Unweighted(x)
    /\ UNCHANGED <<duimp, ruleOf, config, plan, costs, row, edits, ghosts>>

\* update_import_tax_rule: drafts keep what was calculated.
ChangeRule(r) ==
    /\ edits < MaxEdits
    /\ \E c \in Configs \ {config[r]} : config' = [config EXCEPT ![r] = c]
    /\ edits' = edits + 1
    /\ UNCHANGED <<duimp, ruleOf, plan, costs, row, fresh, ghosts>>

Next ==
    \/ CreatePlan
    \/ \E x \in Exporters :
         GenerateChild(x) \/ CreateDraft(x) \/ UpdateCosts(x) \/ Refresh(x)
    \/ \E i \in Items :
         UpdateItem(i) \/ ReplacePayload(i) \/ AdjustIcms(i) \/ ReapplyRule(i)
    \/ \E r \in Rules : ChangeRule(r)

Spec == Init /\ [][Next]_vars

---------------------------------------------------------------------------
(* Properties *)

\* Type correctness: a row exists exactly where its document has costs.  Nothing
\* keeps the other charges of a row, or with them its ICMS, from being negative:
\* an edit may put them below the shares they hold.
TypeOK ==
    /\ duimp \in Duimps /\ ruleOf \in Assignments /\ config \in [Rules -> Configs]
    /\ plan = None \/ (plan.total \in [Costs -> Nat]
                       /\ plan.shares \in [Items -> [Costs -> Nat]])
    /\ \A x \in Exporters : costs[x] = None \/ costs[x] \in [Costs -> Nat]
    /\ \A i \in Items :
         IF costs[duimp[i].exporter] = None THEN row[i] = None
         ELSE /\ row[i].product \in Nat \ {0} /\ row[i].other \in Int
              /\ row[i].shares \in [Costs -> Nat] /\ row[i].afrmm \in Nat
              /\ row[i].icms.base \in Int /\ row[i].icms.value \in Int
    /\ fresh \subseteq {x \in Exporters : costs[x] # None}
    /\ edits \in 0..MaxEdits

\* What was divided adds up: the shares of a plan are its costs to the cent, and
\* so are the totals of a draft, through every edit and recalculation, and again
\* after each division whatever was stored before.  Between an edit that replaced
\* the import payload of an item and the next division they need not: the payload
\* is the caller's, and may hold no shares, or those of an earlier total.
CostsAddUp ==
    /\ plan # None =>
         \A k \in Costs : Paid(plan.shares, k, Items) = plan.total[k]
    /\ \A x \in Suppliers :
         \/ costs[x] = None
         \/ ItemsOf(x) \cap sent # {}
         \/ Balanced(x)

\* However often the costs are divided again, the other charges of an item hold
\* its current shares once and its own charges once.  An import payload replaced
\* by an edit is the exception: the next division counts the old shares twice.
CostsCountedOnce ==
    \A i \in Drafted \ replaced :
      row[i].other = own[i] + SumOver(Costs, row[i].shares)

\* An ICMS set by hand stays, through every edit, recalculation and change of the
\* rules, until the operator goes back to the rule.
ManualIsKept ==
    \A i \in Items : ordered[i] # None => row[i].icms = ManualIcms(ordered[i])

\* A calculated ICMS is inside its base: the base less the tax is the value of the
\* goods, the taxes of the DUIMP and the charges the item has now, unless an edit
\* of the item came after the calculation.  It is exact where the whole base is
\* taxed, and within a cent where it is reduced or the tax is deferred (a base
\* divided over several items of CST 51 closes for the document, not the item).
\* CST 51 with a rate and a reduction is left out: its base is grossed up with the
\* reduced rate, and the tax taken of it with the whole one.
IcmsIsInside ==
    \A i \in Drafted \ edited :
      LET icms == row[i].icms
          numerator == row[i].product + duimp[i].due + row[i].other
      IN  row[i].manual = None =>
            CASE icms.cst \in {"00", "90"} -> icms.base - icms.value = numerator
              [] icms.cst = "20" -> icms.before - icms.value - numerator \in -1..1
              [] icms.cst = "51" ->
                   (/\ Cardinality(ItemsOf(duimp[i].exporter)) = 1
                    /\ 0 \in {icms.rate, icms.reduction}) =>
                     icms.base - icms.value - numerator \in -1..1
              [] OTHER -> icms.base = 0 /\ icms.value = 0

\* What docs/NFE_IMPORT_TESTING.md says of a draft: AFRMM is divided by net
\* weight and the other costs by customs value.  Not so once the payload was
\* refreshed, which leaves both out.
SharesAsDocumented ==
    \A x \in Suppliers :
      (/\ plan = None /\ costs[x] # None
       /\ \A i \in Items : duimp[i].weight > 0) =>
        \A i \in ItemsOf(x) \ replaced : \A k \in Costs :
          row[i].shares[k] = FirstShare(k, costs[x][k], ItemsOf(x))[i]

=============================================================================
