------------------------------- MODULE Units -------------------------------
(***************************************************************************)
(* Adding up quantities.  The Python code adds stock rows and order lines  *)
(* with sum() and running "remaining" counters.  Here the total of a       *)
(* function f into the naturals is the number of units it stands for: one  *)
(* unit <<x, i>> for each x in its domain and each i in 1..f[x].  Counting *)
(* units instead of folding keeps the operator within reach of the         *)
(* cardinality theorems of the proof library (see UnitsProofs).            *)
(***************************************************************************)
EXTENDS Integers, FiniteSets

UnitsOf(f) == UNION {{x} \X (1..f[x]) : x \in DOMAIN f}

Total(f) == Cardinality(UnitsOf(f))

Least(a, b) == IF a <= b THEN a ELSE b

AtLeastZero(n) == IF n < 0 THEN 0 ELSE n
=============================================================================
