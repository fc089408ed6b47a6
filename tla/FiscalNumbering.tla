--------------------------- MODULE FiscalNumbering ---------------------------
(***************************************************************************)
(* What the numbering of one (importer, environment, model, series)        *)
(* promises: a number handed to an NF-e draft was never handed out before, *)
(* not even to a draft whose number was replaced since.                    *)
(* `high' is the highest number that is spent, `number' the column         *)
(* nfe_drafts.number (0 stands for NULL).                                  *)
(***************************************************************************)
EXTENDS Naturals

CONSTANTS Drafts,      \* the NF-e drafts that draw numbers from the sequence
          MaxNumber    \* the largest number an NF-e may carry (999999999)

VARIABLES number, high

vars == <<number, high>>

Init == /\ number = [d \in Drafts |-> 0]
        /\ high = 0

\* One committed request numbers a set of drafts with distinct fresh numbers.
Assign ==
  \E fresh \in SUBSET Drafts, top \in high..MaxNumber :
    /\ high' = top
    /\ number' \in [Drafts -> 0..MaxNumber]
    /\ \A d \in Drafts \ fresh : number'[d] = number[d]
    /\ \A d \in fresh : number'[d] > high /\ number'[d] <= top
    /\ \A d, e \in fresh : number'[d] = number'[e] => d = e

Spec == Init /\ [][Assign]_vars
=============================================================================
