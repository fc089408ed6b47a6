----------------------------- MODULE MCNfeItems -----------------------------
(* Small instances of NfeItems: values chosen so that cents are left over.  *)
EXTENDS NfeItems
CONSTANTS e1, e2, r1, r2

It(x, value, weight, due) ==
    [exporter |-> x, product |-> value, customs |-> value + due, weight |-> weight,
     other |-> due % 3, due |-> due]

MCDuimps == {<<It(e1, 100, 3, 7), It(e1, 200, 1, 0), It(e2, 100, 2, 11)>>,
             <<It(e1, 100, 3, 7), It(e1, 200, 0, 0), It(e1, 101, 2, 11)>>,
             <<It(e1, 100, 3, 50), It(e1, 200, 1, 0), It(e1, 101, 2, 11)>>}
MCAssignments == {<<r1, r1, r2>>}
Cfg(c, r, red, def) ==
    [cst |-> c, rate |-> r, reduction |-> red, deferment |-> def,
     perItem |-> c = "51" /\ red > 0]
MCConfigs == {Cfg("00", 18, 0, 0), Cfg("20", 18, 33, 0), Cfg("51", 12, 0, 50),
              Cfg("51", 12, 40, 0), Cfg("40", 0, 0, 0)}
Pay(a, s) == [c \in Costs |-> IF c = "afrmm" THEN a ELSE s]
MCCostChoices == {Pay(0, 7), Pay(10, 5)}
\* A share of an earlier division, and an AFRMM that is in no share.
MCPayloads == {[shares |-> Pay(0, 3), afrmm |-> 4]}
MCAdjustments ==
    {[cst |-> "20", base |-> 99, rate |-> 12, reduction |-> 40, deferment |-> 30]}
=============================================================================
