-------------------------- MODULE InventoryProofs --------------------------
(***************************************************************************)
(* What the service functions of apps/inventory do to a row and to the     *)
(* total of a variant, and the invariants of the stock component on its    *)
(* own.  The lemmas on the four functions are what the proofs about orders *)
(* use; nothing there looks inside a loop over stock rows again.           *)
(***************************************************************************)
EXTENDS Inventory, UnitsProofs

Basket == [Variants -> 0..MaxQuantity]

\* The units a loop takes: what Greedy promises, without its order.
LEMMA GreedyTake ==
  ASSUME NEW limit, NEW rank, NEW q \in Nat, NEW take \in Greedy(limit, rank, q)
  PROVE  /\ take \in [Warehouses -> Nat]
         /\ Total(take) = q
         /\ \A w \in Warehouses : take[w] <= limit[w]
BY DEF Greedy

\* reserve_stock keeps the rows natural and adds the basket to the totals.
LEMMA ReserveEffect ==
  ASSUME InventoryTypeOK, NEW b \in Basket, ReserveStock(b)
  PROVE  /\ InventoryTypeOK'
         /\ on_hand' = on_hand
         /\ \A v \in Variants : Total(reserved'[v]) = Total(reserved[v]) + b[v]
<1>1. PICK take \in Takes :
        /\ \A v \in Variants : take[v] \in Greedy(Reservable(v), Priority, b[v])
        /\ reserved' = Added(reserved, take)
        /\ moved' = [moved EXCEPT !["reservation"] = Taken(@, take)]
        /\ UNCHANGED <<on_hand, active>>
  BY DEF ReserveStock
<1>2. \A v \in Variants : take[v] \in [Warehouses -> Nat] /\ Total(take[v]) = b[v]
  BY <1>1, GreedyTake DEF Basket
<1>3. reserved' \in Rows
  BY <1>1, <1>2 DEF Added, Rows, InventoryTypeOK
<1>4. moved' \in [Reasons -> [Variants -> [Warehouses -> Int]]]
  <2>1. Taken(moved["reservation"], take) \in [Variants -> [Warehouses -> Int]]
    BY <1>2 DEF Taken, InventoryTypeOK, Reasons
  <2> QED
    BY <1>1, <2>1 DEF InventoryTypeOK
<1>5. \A v \in Variants : Total(reserved'[v]) = Total(reserved[v]) + b[v]
  <2> TAKE v \in Variants
  <2>1. /\ reserved[v] \in [Warehouses -> Nat]
        /\ reserved'[v] \in [Warehouses -> Nat]
    BY <1>3 DEF InventoryTypeOK, Rows
  <2>2. \A w \in Warehouses : reserved'[v][w] = reserved[v][w] + take[v][w]
    BY <1>1 DEF Added
  <2> QED
    BY <1>2, <2>1, <2>2, TotalPlus, FiniteAssumption
<1> QED
  BY <1>1, <1>3, <1>4, <1>5 DEF InventoryTypeOK

\* release_reservation gives back the basket, or all there is if that is less.
LEMMA ReleaseEffect ==
  ASSUME InventoryTypeOK, NEW b \in Basket, ReleaseReservation(b)
  PROVE  /\ InventoryTypeOK'
         /\ on_hand' = on_hand
         /\ \A v \in Variants :
              Total(reserved[v]) = Total(reserved'[v]) + Least(b[v], Total(reserved[v]))
<1> DEFINE q(v) == Least(b[v], Total(reserved[v]))
<1>1. PICK take \in Takes :
        /\ \A v \in Variants : take[v] \in Greedy(reserved[v], MostReservedFirst(v), q(v))
        /\ reserved' = Taken(reserved, take)
        /\ moved' = [moved EXCEPT !["reservation_release"] = Added(@, take)]
        /\ UNCHANGED <<on_hand, active>>
  BY DEF ReleaseReservation
<1>2. \A v \in Variants : Total(reserved[v]) \in Nat
  BY TotalType, FiniteAssumption DEF InventoryTypeOK, Rows
<1>3. \A v \in Variants : q(v) \in Nat
  BY <1>2 DEF Least, Basket
<1>4. \A v \in Variants :
        /\ take[v] \in [Warehouses -> Nat]
        /\ Total(take[v]) = q(v)
        /\ \A w \in Warehouses : take[v][w] <= reserved[v][w]
  <2> HIDE DEF q
  <2> QED
    BY <1>1, <1>3, GreedyTake
<1>5. reserved' \in Rows
  BY <1>1, <1>4 DEF Taken, Rows, InventoryTypeOK
<1>6. moved' \in [Reasons -> [Variants -> [Warehouses -> Int]]]
  <2>1. Added(moved["reservation_release"], take) \in [Variants -> [Warehouses -> Int]]
    BY <1>4 DEF Added, InventoryTypeOK, Reasons
  <2> QED
    BY <1>1, <2>1 DEF InventoryTypeOK
<1>7. \A v \in Variants : Total(reserved[v]) = Total(reserved'[v]) + q(v)
  <2> TAKE v \in Variants
  <2>1. /\ reserved[v] \in [Warehouses -> Nat]
        /\ reserved'[v] \in [Warehouses -> Nat]
    BY <1>5 DEF InventoryTypeOK, Rows
  <2>2. \A w \in Warehouses : reserved'[v][w] = reserved[v][w] - take[v][w]
    BY <1>1 DEF Taken
  <2>3. \A w \in Warehouses : reserved[v][w] = reserved'[v][w] + take[v][w]
    BY <1>4, <2>1, <2>2
  <2>4. Total(reserved[v]) = Total(reserved'[v]) + Total(take[v])
    BY <1>4, <2>1, <2>3, TotalPlus, FiniteAssumption
  <2> QED
    BY <1>4, <2>4
<1> QED
  BY <1>1, <1>5, <1>6, <1>7 DEF InventoryTypeOK

\* commit_sale takes the basket both from the reservations and from the shelf.
LEMMA CommitEffect ==
  ASSUME InventoryTypeOK, NEW b \in Basket, CommitSale(b)
  PROVE  /\ InventoryTypeOK'
         /\ \A v \in Variants : Total(reserved[v]) = Total(reserved'[v]) + b[v]
         /\ \A v \in Variants : Total(on_hand[v]) = Total(on_hand'[v]) + b[v]
<1>1. PICK take \in Takes :
        /\ \A v \in Variants : take[v] \in Greedy(Committable(v), MostReservedFirst(v), b[v])
        /\ reserved' = Taken(reserved, take)
        /\ on_hand' = Taken(on_hand, take)
        /\ moved' = [moved EXCEPT !["sale"] = Taken(@, take)]
        /\ UNCHANGED active
  BY DEF CommitSale
<1>2. \A v \in Variants :
        /\ take[v] \in [Warehouses -> Nat]
        /\ Total(take[v]) = b[v]
        /\ \A w \in Warehouses : take[v][w] <= Committable(v)[w]
  BY <1>1, GreedyTake DEF Basket
<1>3. \A v \in Variants, w \in Warehouses :
        take[v][w] <= reserved[v][w] /\ take[v][w] <= on_hand[v][w]
  BY <1>2 DEF Committable, Least, InventoryTypeOK, Rows
<1>4. reserved' \in Rows /\ on_hand' \in Rows
  BY <1>1, <1>2, <1>3 DEF Taken, Rows, InventoryTypeOK
<1>5. moved' \in [Reasons -> [Variants -> [Warehouses -> Int]]]
  <2>1. Taken(moved["sale"], take) \in [Variants -> [Warehouses -> Int]]
    BY <1>2 DEF Taken, InventoryTypeOK, Reasons
  <2> QED
    BY <1>1, <2>1 DEF InventoryTypeOK
<1>6. ASSUME NEW v \in Variants, NEW before \in Rows, NEW after \in Rows,
             after = Taken(before, take),
             \A w \in Warehouses : take[v][w] <= before[v][w]
      PROVE  Total(before[v]) = Total(after[v]) + b[v]
  <2>1. before[v] \in [Warehouses -> Nat] /\ after[v] \in [Warehouses -> Nat]
    BY DEF Rows
  <2>2. \A w \in Warehouses : after[v][w] = before[v][w] - take[v][w]
    BY <1>6 DEF Taken
  <2>3. \A w \in Warehouses : before[v][w] = after[v][w] + take[v][w]
    BY <1>2, <2>1, <2>2
  <2>4. Total(before[v]) = Total(after[v]) + Total(take[v])
    BY <1>2, <2>1, <2>3, TotalPlus, FiniteAssumption
  <2> QED
    BY <1>2, <2>4
<1>7. reserved \in Rows /\ on_hand \in Rows
  BY DEF InventoryTypeOK
<1> QED
  BY <1>1, <1>3, <1>4, <1>5, <1>6, <1>7 DEF InventoryTypeOK

\* Staff changes of a row or of a warehouse keep the rows natural: adjust_stock
\* clamps at zero.  The reservations are not touched.
LEMMA StaffEffect ==
  ASSUME InventoryTypeOK,
         \/ \E v \in Variants, w \in Warehouses, delta \in Deltas : AdjustStock(v, w, delta)
         \/ \E w \in Switchable : ToggleWarehouse(w)
  PROVE  InventoryTypeOK' /\ reserved' = reserved
<1>1. ASSUME NEW v \in Variants, NEW w \in Warehouses, NEW delta \in Deltas,
             AdjustStock(v, w, delta)
      PROVE  InventoryTypeOK' /\ reserved' = reserved
  <2>1. delta \in Int
    BY StaffAssumption
  <2>2. /\ on_hand' = [on_hand EXCEPT ![v][w] = AtLeastZero(@ + delta)]
        /\ moved' = [moved EXCEPT !["adjustment"][v][w] = @ + delta]
        /\ UNCHANGED <<reserved, active>>
    BY <1>1 DEF AdjustStock
  <2>3. on_hand' \in Rows
    BY <2>1, <2>2 DEF AtLeastZero, Rows, InventoryTypeOK
  <2>4. moved' \in [Reasons -> [Variants -> [Warehouses -> Int]]]
    <3>1. [moved["adjustment"] EXCEPT ![v][w] = @ + delta] \in [Variants -> [Warehouses -> Int]]
      BY <2>1 DEF InventoryTypeOK, Reasons
    <3> QED
      BY <2>2, <3>1 DEF InventoryTypeOK
  <2> QED
    BY <2>2, <2>3, <2>4 DEF InventoryTypeOK
<1>2. ASSUME NEW w \in Switchable, ToggleWarehouse(w)
      PROVE  InventoryTypeOK' /\ reserved' = reserved
  BY <1>2 DEF ToggleWarehouse, InventoryTypeOK
<1> QED
  BY <1>1, <1>2

\* Whatever calls come in, every row keeps natural on_hand and reserved
\* quantities (reserve_stock, release_reservation, commit_sale, adjust_stock).
THEOREM InventoryTypeCorrect == InventorySpec => []InventoryTypeOK
<1>1. InventoryInit => InventoryTypeOK
  BY RowsAssumption DEF InventoryInit, InventoryTypeOK, Rows
<1>2. InventoryTypeOK /\ [InventoryNext]_stock => InventoryTypeOK'
  <2> SUFFICES ASSUME InventoryTypeOK, [InventoryNext]_stock
               PROVE  InventoryTypeOK'
    OBVIOUS
  <2>1. ASSUME NEW b \in Baskets, ReserveStock(b) \/ ReleaseReservation(b) \/ CommitSale(b)
        PROVE  InventoryTypeOK'
    BY <2>1, BasketsAssumption, ReserveEffect, ReleaseEffect, CommitEffect DEF Basket
  <2>2. ASSUME \/ \E v \in Variants, w \in Warehouses, delta \in Deltas :
                    AdjustStock(v, w, delta)
               \/ \E w \in Switchable : ToggleWarehouse(w)
        PROVE  InventoryTypeOK'
    BY <2>2, StaffEffect
  <2>3. CASE UNCHANGED stock
    BY <2>3 DEF stock, InventoryTypeOK
  <2> QED
    BY <2>1, <2>2, <2>3 DEF InventoryNext
<1> QED
  BY <1>1, <1>2, PTL DEF InventorySpec

\* The movement trail explains the reservations of every row, in every state a
\* caller of the stock functions can reach.
THEOREM TrailCorrect == InventorySpec => []ReservedMatchesTrail
<1>1. InventoryInit => ReservedMatchesTrail
  BY DEF InventoryInit, ReservedMatchesTrail, Reasons
<1>2. InventoryTypeOK /\ ReservedMatchesTrail /\ [InventoryNext]_stock => ReservedMatchesTrail'
  <2> SUFFICES ASSUME InventoryTypeOK, ReservedMatchesTrail, [InventoryNext]_stock,
                      NEW v \in Variants, NEW w \in Warehouses
               PROVE  reserved'[v][w] =
                        moved'["sale"][v][w] - moved'["reservation"][v][w]
                          - moved'["reservation_release"][v][w]
    BY DEF ReservedMatchesTrail
  <2>1. /\ reserved[v][w] \in Int
        /\ moved["sale"][v][w] \in Int
        /\ moved["reservation"][v][w] \in Int
        /\ moved["reservation_release"][v][w] \in Int
        /\ reserved[v][w] = moved["sale"][v][w] - moved["reservation"][v][w]
                              - moved["reservation_release"][v][w]
    BY DEF InventoryTypeOK, Rows, Reasons, ReservedMatchesTrail
  <2>2. \A take \in Takes : take[v][w] \in Int
    BY BasketsAssumption DEF Takes
  <2>3. ASSUME NEW b \in Baskets, ReserveStock(b)
        PROVE  reserved'[v][w] = moved'["sale"][v][w] - moved'["reservation"][v][w]
                                   - moved'["reservation_release"][v][w]
    BY <2>1, <2>2, <2>3 DEF ReserveStock, Added, Taken, InventoryTypeOK, Reasons
  <2>4. ASSUME NEW b \in Baskets, ReleaseReservation(b)
        PROVE  reserved'[v][w] = moved'["sale"][v][w] - moved'["reservation"][v][w]
                                   - moved'["reservation_release"][v][w]
    BY <2>1, <2>2, <2>4 DEF ReleaseReservation, Added, Taken, InventoryTypeOK, Reasons
  <2>5. ASSUME NEW b \in Baskets, CommitSale(b)
        PROVE  reserved'[v][w] = moved'["sale"][v][w] - moved'["reservation"][v][w]
                                   - moved'["reservation_release"][v][w]
    BY <2>1, <2>2, <2>5 DEF CommitSale, Taken, InventoryTypeOK, Reasons
  <2>6. ASSUME NEW x \in Variants, NEW y \in Warehouses, NEW delta \in Deltas,
               AdjustStock(x, y, delta)
        PROVE  reserved'[v][w] = moved'["sale"][v][w] - moved'["reservation"][v][w]
                                   - moved'["reservation_release"][v][w]
    BY <2>1, <2>6 DEF AdjustStock, InventoryTypeOK, Reasons
  <2>7. ASSUME NEW y \in Switchable, ToggleWarehouse(y)
        PROVE  reserved'[v][w] = moved'["sale"][v][w] - moved'["reservation"][v][w]
                                   - moved'["reservation_release"][v][w]
    BY <2>1, <2>7 DEF ToggleWarehouse
  <2>8. CASE UNCHANGED stock
    BY <2>1, <2>8 DEF stock
  <2> QED
    BY <2>3, <2>4, <2>5, <2>6, <2>7, <2>8 DEF InventoryNext
<1> QED
  BY <1>1, <1>2, InventoryTypeCorrect, PTL DEF InventorySpec

\* The contract counts units the way the component does.
LEMMA SameUnits ==
  /\ \A f : StockKept!Total(f) = Total(f)
  /\ \A m, n : StockKept!Least(m, n) = Least(m, n)
  /\ \A n : StockKept!AtLeastZero(n) = AtLeastZero(n)
<1>1. ASSUME NEW f PROVE StockKept!Total(f) = Total(f)
  <2>1. StockKept!UnitsOf(f) = UnitsOf(f)
    BY Zenon DEF StockKept!UnitsOf, UnitsOf
  <2> QED
    BY <2>1, Zenon DEF StockKept!Total, Total, StockKept!Cardinality, Cardinality
<1>2. \A m, n : StockKept!Least(m, n) = Least(m, n)
  BY DEF StockKept!Least, Least
<1>3. \A n : StockKept!AtLeastZero(n) = AtLeastZero(n)
  BY DEF StockKept!AtLeastZero, AtLeastZero
<1> QED
  BY <1>1, <1>2, <1>3

\* Every call of the stock component is one step of its contract: it takes the
\* whole basket, from rows that have it, or it changes nothing (reserve_stock,
\* release_reservation and commit_sale, each in one transaction).
THEOREM ImplementsStockContract == InventorySpec => KeepsStockContract
<1>1. InventoryInit => StockKept!Init
  BY DEF InventoryInit, StockKept!Init
<1>2. InventoryTypeOK /\ [InventoryNext]_stock => [StockKept!Next]_<<on_hand, reserved, active>>
  <2> SUFFICES ASSUME InventoryTypeOK, [InventoryNext]_stock
               PROVE  StockKept!Next \/ UNCHANGED <<on_hand, reserved, active>>
    OBVIOUS
  <2>1. ASSUME NEW b \in Baskets, ReserveStock(b)
        PROVE  StockKept!Reserve(b)
    <3>1. PICK take \in Takes :
            /\ \A v \in Variants : take[v] \in Greedy(Reservable(v), Priority, b[v])
            /\ reserved' = Added(reserved, take)
            /\ UNCHANGED <<on_hand, active>>
      BY <2>1 DEF ReserveStock
    <3>2. \A v \in Variants :
            /\ take[v] \in [Warehouses -> Nat]
            /\ Total(take[v]) = b[v]
            /\ \A w \in Warehouses : take[v][w] <= Reservable(v)[w]
      BY <3>1, GreedyTake, BasketsAssumption
    <3>3. StockKept!Between(reserved, reserved') = take
      <4>1. \A v \in Variants, w \in Warehouses : reserved'[v][w] - reserved[v][w] = take[v][w]
        BY <3>1, <3>2 DEF Added, InventoryTypeOK, Rows
      <4>2. take = [v \in Variants |-> [w \in Warehouses |-> take[v][w]]]
        BY <3>2 DEF Takes
      <4> QED
        BY <4>1, <4>2 DEF StockKept!Between
    <3>4. take \in [Variants -> [Warehouses -> Nat]]
      BY <3>2 DEF Takes
    <3> QED
      BY <3>1, <3>2, <3>3, <3>4, SameUnits
        DEF StockKept!Reserve, StockKept!Takes, Reservable, Available
  <2>2. ASSUME NEW b \in Baskets, ReleaseReservation(b)
        PROVE  StockKept!GiveBack(b)
    <3> DEFINE q(v) == Least(b[v], Total(reserved[v]))
    <3>1. PICK take \in Takes :
            /\ \A v \in Variants : take[v] \in Greedy(reserved[v], MostReservedFirst(v), q(v))
            /\ reserved' = Taken(reserved, take)
            /\ UNCHANGED <<on_hand, active>>
      BY <2>2 DEF ReleaseReservation
    <3>2. \A v \in Variants : q(v) \in Nat /\ q(v) <= b[v]
      <4>1. \A v \in Variants : Total(reserved[v]) \in Nat
        BY TotalType, FiniteAssumption DEF InventoryTypeOK, Rows
      <4> QED
        BY <4>1, BasketsAssumption DEF Least
    <3>3. \A v \in Variants :
            /\ take[v] \in [Warehouses -> Nat]
            /\ Total(take[v]) <= b[v]
            /\ \A w \in Warehouses : take[v][w] <= reserved[v][w]
      <4> HIDE DEF q
      <4>1. \A v \in Variants :
              /\ take[v] \in [Warehouses -> Nat]
              /\ Total(take[v]) = q(v)
              /\ \A w \in Warehouses : take[v][w] <= reserved[v][w]
        BY <3>1, <3>2, GreedyTake
      <4> QED
        BY <3>2, <4>1
    <3>4. StockKept!Between(reserved', reserved) = take
      <4>1. \A v \in Variants, w \in Warehouses : reserved[v][w] - reserved'[v][w] = take[v][w]
        BY <3>1, <3>3 DEF Taken, InventoryTypeOK, Rows
      <4>2. take = [v \in Variants |-> [w \in Warehouses |-> take[v][w]]]
        BY <3>3 DEF Takes
      <4> QED
        BY <4>1, <4>2 DEF StockKept!Between
    <3>5. \A v \in Variants, w \in Warehouses : reserved'[v][w] \in 0..reserved[v][w]
      BY <3>1, <3>3 DEF Taken, InventoryTypeOK, Rows
    <3> QED
      BY <3>1, <3>3, <3>4, <3>5, SameUnits DEF StockKept!GiveBack
  <2>3. ASSUME NEW b \in Baskets, CommitSale(b)
        PROVE  StockKept!Sell(b)
    <3>1. PICK take \in Takes :
            /\ \A v \in Variants : take[v] \in Greedy(Committable(v), MostReservedFirst(v), b[v])
            /\ reserved' = Taken(reserved, take)
            /\ on_hand' = Taken(on_hand, take)
            /\ UNCHANGED active
      BY <2>3 DEF CommitSale
    <3>2. \A v \in Variants :
            /\ take[v] \in [Warehouses -> Nat]
            /\ Total(take[v]) = b[v]
            /\ \A w \in Warehouses : take[v][w] <= Committable(v)[w]
      BY <3>1, GreedyTake, BasketsAssumption
    <3>3. ASSUME NEW rows \in Rows
          PROVE  StockKept!Between(Taken(rows, take), rows) = take
      <4>1. \A v \in Variants, w \in Warehouses :
              rows[v][w] - Taken(rows, take)[v][w] = take[v][w]
        BY <3>2 DEF Taken, Rows
      <4>2. take = [v \in Variants |-> [w \in Warehouses |-> take[v][w]]]
        BY <3>2 DEF Takes
      <4> QED
        BY <4>1, <4>2 DEF StockKept!Between
    <3>4. /\ StockKept!Between(reserved', reserved) = take
          /\ StockKept!Between(on_hand', on_hand) = take
      BY <3>1, <3>3 DEF InventoryTypeOK
    <3>5. take \in [Variants -> [Warehouses -> Nat]]
      BY <3>2 DEF Takes
    <3> QED
      BY <3>1, <3>2, <3>4, <3>5, SameUnits DEF StockKept!Sell, StockKept!Takes, Committable
  <2>4. ASSUME NEW v \in Variants, NEW w \in Warehouses, NEW delta \in Deltas,
               AdjustStock(v, w, delta)
        PROVE  StockKept!Manage
    BY <2>4 DEF AdjustStock, StockKept!Manage
  <2>5. ASSUME NEW w \in Switchable, ToggleWarehouse(w)
        PROVE  StockKept!Manage
    BY <2>5 DEF ToggleWarehouse, StockKept!Manage
  <2>6. CASE UNCHANGED stock
    BY <2>6 DEF stock
  <2> QED
    BY <2>1, <2>2, <2>3, <2>4, <2>5, <2>6 DEF InventoryNext, StockKept!Next
<1> QED
  BY <1>1, <1>2, InventoryTypeCorrect, PTL
    DEF InventorySpec, KeepsStockContract, StockKept!Spec, StockKept!stock
=============================================================================
