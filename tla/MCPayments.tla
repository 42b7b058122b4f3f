---------------------------- MODULE MCPayments -----------------------------
(***************************************************************************)
(* Instances of Payments for TLC: one variant, one or two warehouses.      *)
(***************************************************************************)
EXTENDS Payments, TLC

CONSTANTS w1, w2

FirstBeforeSecond == [w \in Warehouses |-> IF w = w1 THEN 1 ELSE 2]
NoBuffer == [v \in Variants |-> [w \in Warehouses |-> 0]]
OneEach == [v \in Variants |-> [w \in Warehouses |-> 1]]
TwoEach == [v \in Variants |-> [w \in Warehouses |-> 2]]
OneUnit == {[v \in Variants |-> 1]}
Shrink == {-1}

OrderSymmetry == Permutations(Orders)
=============================================================================
