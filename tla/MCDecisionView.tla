--------------------------- MODULE MCDecisionView ---------------------------
(* Decisions that put two entries, and delete one.                         *)
EXTENDS DecisionView, TLC

CONSTANTS k1, k2, a

TwoKeys == {k1, k2}
SomeBlocks == {k1 :> a @@ k2 :> a, k1 :> None}
=============================================================================
