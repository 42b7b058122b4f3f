----------------------------- MODULE Inventory -----------------------------
(***************************************************************************)
(* apps/inventory: stock rows (one per variant and warehouse), the service *)
(* functions that change them, and the movement trail they write.          *)
(*                                                                         *)
(* Each service function runs in one database transaction that holds FOR   *)
(* UPDATE locks on the rows of the variant until it commits, so it is one  *)
(* action.  Callers pass a basket b, the quantity of every variant of one  *)
(* order (0 for a variant that is not in it): the callers in apps/orders   *)
(* loop over the items of an order inside one enclosing transaction, and   *)
(* the rows of different variants are disjoint.  A call that raises rolls  *)
(* its transaction back, which is a step that changes nothing.             *)
(***************************************************************************)
EXTENDS Units

CONSTANTS
  Variants,      \* product variants
  Warehouses,    \* warehouses
  Priority,      \* Warehouse.priority: lower is used first
  SafetyBuffer,  \* Stock.safety_buffer of each row
  OpeningStock,  \* on_hand of each row before the first modelled step
  MaxQuantity,   \* the largest quantity of one variant in one order
  Baskets,       \* the baskets customers order
  Switchable,    \* the warehouses staff switch on and off
  Deltas,        \* the deltas staff pass to adjust_stock
  MaxOnHand,     \* bound: no adjustment takes a row above it
  MaxAdjusted    \* bound on the sum of the deltas passed for each row

Rows == [Variants -> [Warehouses -> Nat]]

ASSUME FiniteAssumption == IsFiniteSet(Variants) /\ IsFiniteSet(Warehouses)
ASSUME RowsAssumption ==
  /\ Priority \in [Warehouses -> Nat]
  /\ SafetyBuffer \in [Variants -> [Warehouses -> Nat]]
  /\ OpeningStock \in [Variants -> [Warehouses -> Nat]]
ASSUME BasketsAssumption ==
  /\ MaxQuantity \in Nat
  /\ Baskets \subseteq [Variants -> 0..MaxQuantity]
  /\ \A b \in Baskets : \E v \in Variants : b[v] > 0
ASSUME StaffAssumption ==
  /\ Switchable \subseteq Warehouses
  /\ Deltas \subseteq Int
  /\ MaxOnHand \in Nat
  /\ MaxAdjusted \in [Variants -> [Warehouses -> Nat]]

VARIABLES
  on_hand,   \* Stock.on_hand: units physically in the warehouse
  reserved,  \* Stock.reserved: units promised to orders
  active,    \* Warehouse.is_active
  moved      \* StockMovement: the sum of the quantities of a row's movements, by reason

stock == <<on_hand, reserved, active, moved>>

\* The members of StockMovement.Reason that the code writes.
Reasons == {"reservation", "reservation_release", "sale", "adjustment"}

InventoryTypeOK ==
  /\ on_hand \in Rows
  /\ reserved \in Rows
  /\ active \in [Warehouses -> BOOLEAN]
  /\ moved \in [Reasons -> [Variants -> [Warehouses -> Int]]]

InventoryInit ==
  /\ on_hand = OpeningStock
  /\ reserved = [v \in Variants |-> [w \in Warehouses |-> 0]]
  /\ active = [w \in Warehouses |-> TRUE]
  /\ moved = [r \in Reasons |-> [v \in Variants |-> [w \in Warehouses |-> 0]]]

---------------------------------------------------------------------------
(* The loops over stock rows                                               *)

\* The takes a loop over the rows of one variant can make: it walks the rows
\* in the order of their rank (rows of equal rank come in any order), takes
\* from each as much as its limit and what remains of quantity q allow, and
\* stops when q units are taken.  So a row is left below its limit only when
\* everything ranked before it is exhausted, and at most one row is cut short.
Greedy(limit, rank, q) ==
  {take \in [Warehouses -> 0..q] :
     /\ Total(take) = q
     /\ \A w \in Warehouses : take[w] <= limit[w]
     /\ \A w1, w2 \in Warehouses :
          take[w2] > 0 /\ take[w1] < limit[w1] =>
            /\ rank[w2] <= rank[w1]
            /\ w1 = w2 \/ take[w1] = 0 \/ take[w2] = limit[w2]}

Takes == [Variants -> [Warehouses -> 0..MaxQuantity]]

Added(rows, take) ==
  [v \in Variants |-> [w \in Warehouses |-> rows[v][w] + take[v][w]]]

Taken(rows, take) ==
  [v \in Variants |-> [w \in Warehouses |-> rows[v][w] - take[v][w]]]

\* Stock.available
Available(v, w) == AtLeastZero(on_hand[v][w] - reserved[v][w] - SafetyBuffer[v][w])

\* What reserve_stock can take of each row: nothing of an inactive warehouse.
Reservable(v) == [w \in Warehouses |-> IF active[w] THEN Available(v, w) ELSE 0]

\* What commit_sale can take of each row.
Committable(v) == [w \in Warehouses |-> Least(reserved[v][w], on_hand[v][w])]

\* release_reservation and commit_sale walk the rows by -reserved.
MostReservedFirst(v) == [w \in Warehouses |-> 0 - reserved[v][w]]

---------------------------------------------------------------------------
(* The service functions                                                   *)

AvailableAnywhere(v) == [w \in Warehouses |-> Available(v, w)]

IgnoringActive(b) ==
  \E take \in Takes :
    /\ \A v \in Variants : take[v] \in Greedy(AvailableAnywhere(v), Priority, b[v])
    /\ reserved' = Added(reserved, take)
    /\ moved' = [moved EXCEPT !["reservation"] = Taken(@, take)]
    /\ UNCHANGED <<on_hand, active>>

\* reserve_stock: enabled when the active warehouses can cover the basket; a
\* shortfall raises OutOfStockError and rolls everything back.
ReserveStock(b) ==
  \E take \in Takes :
    /\ \A v \in Variants : take[v] \in Greedy(Reservable(v), Priority, b[v])
    /\ reserved' = Added(reserved, take)
    /\ moved' = [moved EXCEPT !["reservation"] = Taken(@, take)]
    /\ UNCHANGED <<on_hand, active>>

ReleaseUnrecorded(b) ==
  \E take \in Takes :
    /\ \A v \in Variants :
         take[v] \in Greedy(reserved[v], MostReservedFirst(v), Least(b[v], Total(reserved[v])))
    /\ reserved' = Taken(reserved, take)
    /\ UNCHANGED <<on_hand, active, moved>>

\* release_reservation: gives back as much as is reserved, and says nothing
\* when that is less than was asked for.
ReleaseReservation(b) ==
  \E take \in Takes :
    /\ \A v \in Variants :
         take[v] \in Greedy(reserved[v], MostReservedFirst(v), Least(b[v], Total(reserved[v])))
    /\ reserved' = Taken(reserved, take)
    /\ moved' = [moved EXCEPT !["reservation_release"] = Added(@, take)]
    /\ UNCHANGED <<on_hand, active>>

\* Whether commit_sale of the whole basket would succeed.
CanCommit(b) == \A v \in Variants : b[v] <= Total(Committable(v))

SellWithoutReservation(b) ==
  \E take \in Takes :
    /\ \A v \in Variants : take[v] \in Greedy(Committable(v), MostReservedFirst(v), b[v])
    /\ on_hand' = Taken(on_hand, take)
    /\ moved' = [moved EXCEPT !["sale"] = Taken(@, take)]
    /\ UNCHANGED <<reserved, active>>

\* commit_sale: turns reservations into sales; a shortfall raises.
CommitSale(b) ==
  \E take \in Takes :
    /\ \A v \in Variants : take[v] \in Greedy(Committable(v), MostReservedFirst(v), b[v])
    /\ reserved' = Taken(reserved, take)
    /\ on_hand' = Taken(on_hand, take)
    /\ moved' = [moved EXCEPT !["sale"] = Taken(@, take)]
    /\ UNCHANGED active

AdjustUnclamped(v, w, delta) ==
  /\ on_hand[v][w] + delta <= MaxOnHand
  /\ moved["adjustment"][v][w] + delta \in (0 - MaxAdjusted[v][w])..MaxAdjusted[v][w]
  /\ on_hand' = [on_hand EXCEPT ![v][w] = @ + delta]
  /\ moved' = [moved EXCEPT !["adjustment"][v][w] = @ + delta]
  /\ UNCHANGED <<reserved, active>>

\* adjust_stock: the new on_hand is clamped at zero, the movement records the
\* delta as it was passed.  A row that does not exist yet is a row of zeros.
AdjustStock(v, w, delta) ==
  /\ on_hand[v][w] + delta <= MaxOnHand
  /\ moved["adjustment"][v][w] + delta \in (0 - MaxAdjusted[v][w])..MaxAdjusted[v][w]
  /\ on_hand' = [on_hand EXCEPT ![v][w] = AtLeastZero(@ + delta)]
  /\ moved' = [moved EXCEPT !["adjustment"][v][w] = @ + delta]
  /\ UNCHANGED <<reserved, active>>

\* Staff switch a warehouse on or off through WarehouseViewSet.
ToggleWarehouse(w) ==
  /\ active' = [active EXCEPT ![w] = ~@]
  /\ UNCHANGED <<on_hand, reserved, moved>>

\* The stock component on its own: its functions called in any order, with any
\* basket.
InventoryNext ==
  \/ \E b \in Baskets : ReserveStock(b) \/ ReleaseReservation(b) \/ CommitSale(b)
  \/ \E v \in Variants, w \in Warehouses, delta \in Deltas : AdjustStock(v, w, delta)
  \/ \E w \in Switchable : ToggleWarehouse(w)

InventorySpec == InventoryInit /\ [][InventoryNext]_stock

---------------------------------------------------------------------------
(* Properties                                                              *)

\* The movements of a row explain what is reserved on it: reservations minus
\* releases minus sales (StockMovement is the audit trail of models.py).  No
\* order of reservations, shortened releases and sales loses a unit.
ReservedMatchesTrail ==
  \A v \in Variants, w \in Warehouses :
    reserved[v][w] =
      moved["sale"][v][w] - moved["reservation"][v][w] - moved["reservation_release"][v][w]

\* "Audit trail of every stock change": the movements of a row explain its
\* on_hand.  adjust_stock clamps at zero and records the full delta.
OnHandMatchesTrail ==
  \A v \in Variants, w \in Warehouses :
    on_hand[v][w] = OpeningStock[v][w] + moved["sale"][v][w] + moved["adjustment"][v][w]

\* The stock keeps the contract its callers rely on: in one step a call takes the
\* whole basket, from rows that have it, or nothing (the service functions run in
\* one transaction and roll back on OutOfStockError).
StockKept == INSTANCE StockContract

KeepsStockContract == StockKept!Spec
=============================================================================
