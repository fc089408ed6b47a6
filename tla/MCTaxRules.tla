----------------------------- MODULE MCTaxRules -----------------------------
(* Small instances of TaxRules: rules that differ in one or two fields.     *)
EXTENDS TaxRules, TLC
CONSTANTS w1, w2
MCWorkers == {w1, w2}
Sym == {[w \in MCWorkers |-> w], (w1 :> w2 @@ w2 :> w1)}

Default ==
    [scope |-> "s", modality |-> Every, regime |-> Every, pattern |-> <<>>,
     priority |-> 0, from |-> NoDate, until |-> NoDate, active |-> TRUE]
MCCandidates ==
    {Default,
     [Default EXCEPT !.modality = "direct", !.active = FALSE],
     [Default EXCEPT !.pattern = <<8, 4>>, !.until = 2],
     [Default EXCEPT !.pattern = <<8, 4>>, !.from = 2],
     [Default EXCEPT !.pattern = <<9, 0>>, !.regime = "3"]}
MCPatches ==
    {[active |-> FALSE], [active |-> TRUE], [from |-> 2], [until |-> 1],
     [modality |-> Every, regime |-> Every], [pattern |-> <<8, 4>>]}
MCInputs ==
    [scope : {"s"}, modality : {"direct", "by_order"}, regime : {"1", "3"},
     ncms : {{}, {<<8, 4, 7>>}, {<<8, 4, 7>>, <<9, 0, 1>>}}, date : {NoDate, 1, 2}]
=============================================================================
