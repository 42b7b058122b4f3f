---------------------------- MODULE UnitsProofs ----------------------------
(***************************************************************************)
(* What Total returns: a natural number, additive, monotone, and equal to  *)
(* n on a function that is n at one point and 0 elsewhere.                 *)
(***************************************************************************)
EXTENDS Units, FiniteSetTheorems, TLAPS

\* The members of UnitsOf(f), without the UNION: stated for the sum()s of
\* apps/inventory/services.py that Total stands for.
LEMMA UnitsMember ==
  ASSUME NEW S, NEW f \in [S -> Nat]
  PROVE  \A u : u \in UnitsOf(f) <=>
                \E x \in S : \E i \in 1..f[x] : u = <<x, i>>
<1>1. DOMAIN f = S
  OBVIOUS
<1>2. ASSUME NEW u, u \in UnitsOf(f)
      PROVE  \E x \in S : \E i \in 1..f[x] : u = <<x, i>>
  <2>1. PICK x \in S : u \in {x} \X (1..f[x])
    BY <1>1, <1>2 DEF UnitsOf
  <2>2. u = <<x, u[2]>> /\ u[2] \in 1..f[x]
    BY <2>1
  <2> QED
    BY <2>2
<1>3. ASSUME NEW x \in S, NEW i \in 1..f[x]
      PROVE  <<x, i>> \in UnitsOf(f)
  <2>1. <<x, i>> \in {x} \X (1..f[x])
    OBVIOUS
  <2> QED
    BY <1>1, <2>1 DEF UnitsOf
<1> QED
  BY <1>2, <1>3

\* A finite number of rows holding natural quantities has a finite number of
\* units, so its total is a natural number (sum(...) of services.py:24-26).
LEMMA TotalType ==
  ASSUME NEW S, IsFiniteSet(S), NEW f \in [S -> Nat]
  PROVE  IsFiniteSet(UnitsOf(f)) /\ Total(f) \in Nat
<1> DEFINE Block(x) == {x} \X (1..f[x])
           Blocks   == {Block(x) : x \in S}
           g        == [x \in S |-> Block(x)]
<1>1. g \in Surjection(S, Blocks)
  BY DEF Surjection
<1>2. IsFiniteSet(Blocks)
  BY <1>1, FS_Surjection
<1>3. \A x \in S : IsFiniteSet(Block(x))
  <2> TAKE x \in S
  <2>1. IsFiniteSet({x})
    BY FS_Singleton
  <2>2. IsFiniteSet(1..f[x])
    BY FS_Interval
  <2> QED
    BY <2>1, <2>2, FS_Product
<1>4. \A B \in Blocks : IsFiniteSet(B)
  BY <1>3
<1>5. UnitsOf(f) = UNION Blocks
  BY DEF UnitsOf
<1>6. IsFiniteSet(UnitsOf(f))
  BY <1>2, <1>4, <1>5, FS_UNION
<1> QED
  BY <1>6, FS_CardinalityType DEF Total

\* Pointwise addition adds the totals: a transaction that moves take[w] units
\* on each row moves Total(take) units in all (the loops over stock rows in
\* reserve_stock, release_reservation and commit_sale).
LEMMA TotalPlus ==
  ASSUME NEW S, IsFiniteSet(S), NEW f \in [S -> Nat], NEW g \in [S -> Nat],
         NEW h \in [S -> Nat], \A x \in S : h[x] = f[x] + g[x]
  PROVE  Total(h) = Total(f) + Total(g)
<1> DEFINE Above == UnitsOf(h) \ UnitsOf(f)
           lift  == [u \in UnitsOf(g) |-> <<u[1], f[u[1]] + u[2]>>]
<1>1. UnitsOf(f) \subseteq UnitsOf(h)
  <2> SUFFICES ASSUME NEW x \in S, NEW i \in 1..f[x]
               PROVE  <<x, i>> \in UnitsOf(h)
    BY UnitsMember
  <2>1. i \in 1..h[x]
    BY Z3
  <2> QED
    BY <2>1, UnitsMember
<1>2. \A x \in S : \A i \in Nat : <<x, i>> \in Above <=> i \in (f[x] + 1)..h[x]
  <2> TAKE x \in S
  <2> TAKE i \in Nat
  <2>1. <<x, i>> \in UnitsOf(h) <=> i \in 1..h[x]
    BY UnitsMember
  <2>2. <<x, i>> \in UnitsOf(f) <=> i \in 1..f[x]
    BY UnitsMember
  <2> QED
    BY <2>1, <2>2
<1>3. lift \in [UnitsOf(g) -> Above]
  <2> SUFFICES ASSUME NEW x \in S, NEW i \in 1..g[x]
               PROVE  <<x, f[x] + i>> \in Above
    BY UnitsMember
  <2>1. f[x] + i \in (f[x] + 1)..h[x] /\ f[x] + i \in Nat
    OBVIOUS
  <2> QED
    BY <2>1, <1>2
<1>4. \A u, w \in UnitsOf(g) : lift[u] = lift[w] => u = w
  <2> SUFFICES ASSUME NEW u \in UnitsOf(g), NEW w \in UnitsOf(g), lift[u] = lift[w]
               PROVE  u = w
    OBVIOUS
  <2>1. PICK x \in S : \E i \in 1..g[x] : u = <<x, i>>
    BY UnitsMember
  <2>2. PICK i \in 1..g[x] : u = <<x, i>>
    BY <2>1
  <2>3. PICK y \in S : \E j \in 1..g[y] : w = <<y, j>>
    BY UnitsMember
  <2>4. PICK j \in 1..g[y] : w = <<y, j>>
    BY <2>3
  <2>5. <<x, f[x] + i>> = <<y, f[y] + j>>
    BY <2>2, <2>4
  <2>6. x = y /\ f[x] + i = f[x] + j
    BY <2>5
  <2> QED
    BY <2>2, <2>4, <2>6
<1>5. \A a \in Above : \E u \in UnitsOf(g) : lift[u] = a
  <2> SUFFICES ASSUME NEW a \in Above
               PROVE  \E u \in UnitsOf(g) : lift[u] = a
    OBVIOUS
  <2>1. PICK x \in S : \E i \in 1..h[x] : a = <<x, i>>
    BY UnitsMember
  <2>2. PICK i \in 1..h[x] : a = <<x, i>>
    BY <2>1
  <2>3. i \in (f[x] + 1)..h[x]
    BY <2>2, <1>2
  <2>4. i - f[x] \in 1..g[x]
    BY <2>3
  <2>5. <<x, i - f[x]>> \in UnitsOf(g)
    BY <2>4, UnitsMember
  <2>6. lift[<<x, i - f[x]>>] = <<x, f[x] + (i - f[x])>>
    BY <2>5
  <2>7. f[x] + (i - f[x]) = i
    OBVIOUS
  <2> QED
    BY <2>2, <2>5, <2>6, <2>7
<1>6. lift \in Bijection(UnitsOf(g), Above)
  BY <1>3, <1>4, <1>5 DEF Bijection, Injection, IsInjective, Surjection
<1>7. IsFiniteSet(UnitsOf(g)) /\ IsFiniteSet(UnitsOf(h)) /\ IsFiniteSet(UnitsOf(f))
  BY TotalType
<1>8. Cardinality(Above) = Total(g)
  <2> HIDE DEF lift, Above
  <2> QED
    BY <1>6, <1>7, FS_Bijection DEF Total, ExistsBijection
<1>9. Cardinality(Above) = Total(h) - Total(f)
  <2>1. UnitsOf(h) \cap UnitsOf(f) = UnitsOf(f)
    BY <1>1
  <2>2. Cardinality(Above)
        = Cardinality(UnitsOf(h)) - Cardinality(UnitsOf(h) \cap UnitsOf(f))
    BY <1>7, FS_Difference
  <2> QED
    BY <2>1, <2>2 DEF Total
<1> QED
  BY <1>8, <1>9, TotalType DEF Total

\* More on each row is more in all.
LEMMA TotalMonotone ==
  ASSUME NEW S, IsFiniteSet(S), NEW f \in [S -> Nat], NEW g \in [S -> Nat],
         \A x \in S : f[x] <= g[x]
  PROVE  Total(f) <= Total(g)
<1> DEFINE rest == [x \in S |-> g[x] - f[x]]
<1>1. rest \in [S -> Nat]
  OBVIOUS
<1>2. Total(g) = Total(f) + Total(rest)
  <2>1. \A x \in S : g[x] = f[x] + rest[x]
    OBVIOUS
  <2> HIDE DEF rest
  <2> QED
    BY <1>1, <2>1, TotalPlus
<1>3. Total(f) \in Nat /\ Total(rest) \in Nat
  BY <1>1, TotalType
<1> HIDE DEF rest
<1> QED
  BY <1>2, <1>3

\* A quantity held at a single place totals to that quantity, an absent one to
\* zero: how one order enters and leaves the sum over all orders.
LEMMA TotalSingle ==
  ASSUME NEW S, IsFiniteSet(S), NEW s \in S, NEW n \in Nat
  PROVE  Total([x \in S |-> IF x = s THEN n ELSE 0]) = n
<1> DEFINE f == [x \in S |-> IF x = s THEN n ELSE 0]
<1>1. f \in [S -> Nat]
  OBVIOUS
<1>2. \A u : u \in UnitsOf(f) <=> u \in {s} \X (1..n)
  <2>1. \A u : u \in UnitsOf(f) <=> \E x \in S : \E i \in 1..f[x] : u = <<x, i>>
    <3> HIDE DEF f
    <3> QED
      BY <1>1, UnitsMember
  <2>2. \A x \in S : \A i \in 1..f[x] : x = s
    OBVIOUS
  <2>3. f[s] = n
    OBVIOUS
  <2> HIDE DEF f
  <2>4. \A u : u \in UnitsOf(f) <=> \E i \in 1..n : u = <<s, i>>
    BY <2>1, <2>2, <2>3
  <2> QED
    BY <2>4
<1>3. UnitsOf(f) = {s} \X (1..n)
  BY <1>2
<1>4. Cardinality({s} \X (1..n)) = n
  <2>1. IsFiniteSet({s}) /\ Cardinality({s}) = 1
    BY FS_Singleton
  <2>2. IsFiniteSet(1..n) /\ Cardinality(1..n) = n
    BY FS_Interval
  <2>3. Cardinality({s} \X (1..n)) = Cardinality({s}) * Cardinality(1..n)
    <3> HIDE DEF f
    <3> QED
      BY <2>1, <2>2, FS_Product
  <2> QED
    BY <2>1, <2>2, <2>3
<1> QED
  BY <1>3, <1>4 DEF Total

\* Adding n units at one place adds n to the total.
LEMMA TotalPlusSingle ==
  ASSUME NEW S, IsFiniteSet(S), NEW f \in [S -> Nat], NEW g \in [S -> Nat],
         NEW s \in S, NEW n \in Nat,
         f[s] = g[s] + n, \A x \in S \ {s} : f[x] = g[x]
  PROVE  Total(f) = Total(g) + n
<1> DEFINE one == [x \in S |-> IF x = s THEN n ELSE 0]
<1>1. one \in [S -> Nat]
  OBVIOUS
<1>2. \A x \in S : f[x] = g[x] + one[x]
  OBVIOUS
<1>3. Total(one) = n
  BY TotalSingle
<1> HIDE DEF one
<1>4. Total(f) = Total(g) + Total(one)
  BY <1>1, <1>2, TotalPlus
<1> QED
  BY <1>3, <1>4

\* Rows that hold nothing add up to nothing.
LEMMA TotalOfNothing ==
  ASSUME NEW S, NEW f, IsFiniteSet(S), f \in [S -> Nat], \A x \in S : f[x] = 0
  PROVE  Total(f) = 0
<1>1. \A x \in S : f[x] = f[x] + f[x]
  OBVIOUS
<1>2. PICK n \in Nat : n = Total(f)
  BY TotalType
<1>3. n + n <= n
  BY <1>1, <1>2, TotalPlus
<1> QED
  BY <1>2, <1>3

\* Of a sum of naturals that is zero, every term is.
LEMMA NothingOfNothing ==
  ASSUME NEW S, NEW f, IsFiniteSet(S), f \in [S -> Nat], Total(f) = 0
  PROVE  \A x \in S : f[x] = 0
<1> SUFFICES ASSUME NEW x \in S
             PROVE  f[x] = 0
  OBVIOUS
<1>1. PICK k \in Nat : k = f[x]
  OBVIOUS
<1> DEFINE one == [y \in S |-> IF y = x THEN k ELSE 0]
<1>2. one \in [S -> Nat] /\ \A y \in S : one[y] <= f[y]
  BY <1>1
<1>3. Total(one) = k
  BY <1>1, TotalSingle
<1> HIDE DEF one
<1>4. Total(one) <= Total(f)
  BY <1>2, TotalMonotone
<1> QED
  BY <1>1, <1>3, <1>4
=============================================================================
