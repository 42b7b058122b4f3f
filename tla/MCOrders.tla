----------------------------- MODULE MCOrders ------------------------------
(***************************************************************************)
(* Instances of Orders for TLC: small warehouses, rows, baskets and the    *)
(* bounds.  Variants and orders are model values, orders are symmetric.    *)
(***************************************************************************)
EXTENDS Orders, TLC

CONSTANTS v1, v2, near, far

\* The two warehouses have different priorities.
PriorityByDistance == [w \in Warehouses |-> IF w = near THEN 1 ELSE 2]

\* One unit of v1 at the near warehouse is kept back as a safety buffer.
SmallBuffer ==
  [v \in Variants |-> [w \in Warehouses |-> IF v = v1 /\ w = near THEN 1 ELSE 0]]

\* Scarce stock: v1 in both warehouses, v2 in one.
ScarceStock ==
  [v \in Variants |-> [w \in Warehouses |->
     IF v = v1 THEN IF w = near THEN 3 ELSE 1 ELSE IF w = far THEN 2 ELSE 0]]

\* A single item that may need both warehouses, and a basket of two variants.
TwoBaskets ==
  {[v \in Variants |-> IF v = v1 THEN 2 ELSE 0],
   [v \in Variants |-> 1]}

\* Adjustments hit one row, the one with the buffer; the others keep what they have.
OneRowAdjusted ==
  [v \in Variants |-> [w \in Warehouses |-> IF v = v1 /\ w = near THEN 2 ELSE 0]]

RestockAndShrink == {1, -2}

OrderSymmetry == Permutations(Orders)
=============================================================================
