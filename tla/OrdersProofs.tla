--------------------------- MODULE OrdersProofs ----------------------------
(***************************************************************************)
(* Proofs about Orders for any number of orders, variants and warehouses:  *)
(* type correctness, that stock is charged to an order exactly once, that  *)
(* no reservation outlives its order, that reservations are exact until a  *)
(* paid order is cancelled, that the order component is a client of the    *)
(* stock component, and that it keeps the contract of OrderContract.       *)
(***************************************************************************)
EXTENDS Orders, InventoryProofs

\* The strengthening the invariants need: what the stamps of an order tell about its
\* status, and that a placed order holds a basket.  The first part is all that charging
\* once relies on, the second that a paid order shows it.
OrdersPlaced ==
  \A o \in Orders :
    /\ status[o] \in {NoStatus, "pending"} => stamped[o] = {}
    /\ IF status[o] = NoStatus THEN items[o] = NoItems ELSE items[o] \in Baskets

PaidIsStamped ==
  \A o \in Orders :
    status[o] \in {"paid", "packed", "shipped", "delivered", "refunded"} =>
      "paid" \in stamped[o]

History == OrdersPlaced /\ PaidIsStamped

Charges == OrdersTypeOK /\ OrdersPlaced /\ StockChargedOnce

Charged == OrdersTypeOK /\ History /\ StockChargedOnce

---------------------------------------------------------------------------
(* One lemma per operation: it keeps Charges and Charged.                  *)

\* An order's items are a basket in the sense of the stock lemmas.
LEMMA ItemsAreBasket ==
  ASSUME OrdersTypeOK, NEW o \in Orders
  PROVE  items[o] \in Basket
BY DEF OrdersTypeOK, Basket

\* Where ALLOWED_TRANSITIONS leads from: a paid order was pending, a cancelled
\* one had not been shipped, a refunded one had been paid.
LEMMA TransitionTable ==
  ASSUME OrdersTypeOK, NEW o \in Orders, NEW new \in Status, CanTransition(o, new)
  PROVE  /\ new = "paid" => status[o] = "pending"
         /\ new = "cancelled" => status[o] \in {"pending", "paid", "packed"}
         /\ new \in {"refunded", "packed", "shipped", "delivered"} =>
              status[o] \in {"paid", "packed", "shipped", "delivered"}
         /\ new # "pending"
<1>1. status[o] \in Status /\ new \in AllowedTransitions[status[o]]
  BY DEF CanTransition, OrdersTypeOK
<1>2. /\ AllowedTransitions["pending"] = {"paid", "cancelled"}
      /\ AllowedTransitions["paid"] = {"packed", "cancelled", "refunded"}
      /\ AllowedTransitions["packed"] = {"shipped", "cancelled", "refunded"}
      /\ AllowedTransitions["shipped"] = {"delivered", "refunded"}
      /\ AllowedTransitions["delivered"] = {"refunded"}
      /\ AllowedTransitions["cancelled"] = {}
      /\ AllowedTransitions["refunded"] = {}
  BY DEF AllowedTransitions
<1> QED
  BY <1>1, <1>2 DEF Status

\* create_order_from_cart.
LEMMA CreateKeepsCharges ==
  ASSUME Charges, NEW o \in Orders, NEW b \in Baskets, CreateOrder(o, b)
  PROVE  Charges'
<1>1. /\ status[o] = NoStatus
      /\ ReserveStock(b)
      /\ status' = [status EXCEPT ![o] = "pending"]
      /\ items' = [items EXCEPT ![o] = b]
      /\ sold' = sold /\ stamped' = stamped
  BY DEF CreateOrder
<1>2. b \in Basket
  BY BasketsAssumption DEF Basket
<1>3. InventoryTypeOK'
  BY <1>1, <1>2, ReserveEffect DEF Charges, OrdersTypeOK
<1>4. OrdersTypeOK'
  BY <1>1, <1>2, <1>3 DEF Charges, OrdersTypeOK, Status, Basket
<1>5. OrdersPlaced'
  BY <1>1 DEF Charges, OrdersPlaced, OrdersTypeOK, NoStatus
<1>6. StockChargedOnce'
  BY <1>1 DEF Charges, StockChargedOnce, OrdersPlaced, OrdersTypeOK
<1> QED
  BY <1>4, <1>5, <1>6 DEF Charges

LEMMA CreateKeepsCharged ==
  ASSUME Charged, NEW o \in Orders, NEW b \in Baskets, CreateOrder(o, b)
  PROVE  Charged'
<1>1. Charges'
  BY CreateKeepsCharges DEF Charged, Charges, History
<1>2. PaidIsStamped'
  BY DEF CreateOrder, Charged, OrdersTypeOK, History, PaidIsStamped, NoStatus
<1> QED
  BY <1>1, <1>2 DEF Charged, Charges, History

\* transition_status to PAID: the units that leave the shelf are the items.
LEMMA PaySells ==
  ASSUME Charges, NEW o \in Orders, PayOrder(o)
  PROVE  /\ status[o] = "pending"
         /\ sold' = [sold EXCEPT ![o] = items[o]]
<1>1. /\ CanTransition(o, "paid")
      /\ CommitSale(items[o])
      /\ sold' = [sold EXCEPT ![o] =
                    [v \in Variants |-> @[v] + (Total(on_hand[v]) - Total(on_hand'[v]))]]
  BY DEF PayOrder
<1>2. status[o] = "pending"
  BY <1>1, TransitionTable DEF Charges, Status
<1>3. /\ InventoryTypeOK'
      /\ \A v \in Variants : Total(on_hand[v]) = Total(on_hand'[v]) + items[o][v]
  BY <1>1, ItemsAreBasket, CommitEffect DEF Charges, OrdersTypeOK
<1>4. \A v \in Variants : Total(on_hand'[v]) \in Nat
  BY <1>3, TotalType, FiniteAssumption DEF InventoryTypeOK, Rows
<1>5. \A v \in Variants : items[o][v] \in Nat
  BY BasketsAssumption DEF Charges, OrdersTypeOK
<1>6. \A v \in Variants : Total(on_hand[v]) - Total(on_hand'[v]) = items[o][v]
  BY <1>3, <1>4, <1>5
<1>7. \A v \in Variants : sold[o][v] = 0
  BY <1>2 DEF Charges, StockChargedOnce, OrdersPlaced
<1>8. [v \in Variants |-> sold[o][v] + (Total(on_hand[v]) - Total(on_hand'[v]))] = items[o]
  BY <1>5, <1>6, <1>7 DEF Charges, OrdersTypeOK
<1> QED
  BY <1>1, <1>2, <1>8 DEF Charges, OrdersTypeOK

LEMMA PayKeepsCharges ==
  ASSUME Charges, NEW o \in Orders, PayOrder(o)
  PROVE  Charges'
<1>1. /\ CommitSale(items[o])
      /\ status' = [status EXCEPT ![o] = "paid"]
      /\ stamped' = [stamped EXCEPT ![o] = @ \cup {"paid"}]
      /\ items' = items
  BY DEF PayOrder
<1>2. status[o] = "pending" /\ sold' = [sold EXCEPT ![o] = items[o]]
  BY PaySells
<1>3. InventoryTypeOK'
  BY <1>1, ItemsAreBasket, CommitEffect DEF Charges, OrdersTypeOK
<1>4. items[o] \in [Variants -> Nat]
  BY BasketsAssumption DEF Charges, OrdersTypeOK
<1>5. OrdersTypeOK'
  BY <1>1, <1>2, <1>3, <1>4 DEF Charges, OrdersTypeOK, Status
<1>6. OrdersPlaced'
  BY <1>1, <1>2 DEF Charges, OrdersPlaced, OrdersTypeOK, NoStatus
<1>7. StockChargedOnce'
  BY <1>1, <1>2 DEF Charges, StockChargedOnce, OrdersTypeOK
<1> QED
  BY <1>5, <1>6, <1>7 DEF Charges

LEMMA PayKeepsCharged ==
  ASSUME Charged, NEW o \in Orders, PayOrder(o)
  PROVE  Charged'
<1>1. Charges'
  BY PayKeepsCharges DEF Charged, Charges, History
<1>2. PaidIsStamped'
  BY DEF PayOrder, Charged, OrdersTypeOK, History, PaidIsStamped, NoStatus
<1> QED
  BY <1>1, <1>2 DEF Charged, Charges, History

\* transition_status to CANCELLED, from PENDING, PAID or PACKED.
LEMMA CancelKeepsCharges ==
  ASSUME Charges, NEW o \in Orders, CancelOrder(o)
  PROVE  Charges'
<1>1. /\ CanTransition(o, "cancelled")
      /\ ReleaseReservation(items[o])
      /\ status' = [status EXCEPT ![o] = "cancelled"]
      /\ stamped' = [stamped EXCEPT ![o] = @ \cup {"cancelled"}]
      /\ items' = items /\ sold' = sold
  BY DEF CancelOrder
<1>2. status[o] # NoStatus
  BY <1>1 DEF CanTransition
<1>3. InventoryTypeOK'
  BY <1>1, ItemsAreBasket, ReleaseEffect DEF Charges, OrdersTypeOK
<1>4. OrdersTypeOK'
  BY <1>1, <1>3 DEF Charges, OrdersTypeOK, Status
<1>5. OrdersPlaced'
  BY <1>1, <1>2 DEF Charges, OrdersPlaced, OrdersTypeOK, NoStatus
<1>6. StockChargedOnce'
  BY <1>1 DEF Charges, StockChargedOnce, OrdersTypeOK
<1> QED
  BY <1>4, <1>5, <1>6 DEF Charges

LEMMA CancelKeepsCharged ==
  ASSUME Charged, NEW o \in Orders, CancelOrder(o)
  PROVE  Charged'
<1>1. Charges'
  BY CancelKeepsCharges DEF Charged, Charges, History
<1>2. PaidIsStamped'
  BY DEF CancelOrder, Charged, OrdersTypeOK, History, PaidIsStamped, NoStatus
<1> QED
  BY <1>1, <1>2 DEF Charged, Charges, History

\* transition_status to REFUNDED.
LEMMA RefundKeepsCharges ==
  ASSUME Charges, NEW o \in Orders, RefundOrder(o)
  PROVE  Charges'
<1>1. /\ CanTransition(o, "refunded")
      /\ status' = [status EXCEPT ![o] = "refunded"]
      /\ stamped' = [stamped EXCEPT ![o] = @ \cup {"refunded"}]
      /\ UNCHANGED <<on_hand, reserved, active, moved, items, sold>>
  BY DEF RefundOrder
<1>2. status[o] \in {"paid", "packed", "shipped", "delivered"}
  BY <1>1, TransitionTable DEF Charges, Status
<1>3. OrdersTypeOK'
  BY <1>1 DEF Charges, OrdersTypeOK, InventoryTypeOK, Status
<1>4. OrdersPlaced'
  BY <1>1, <1>2 DEF Charges, OrdersPlaced, OrdersTypeOK, NoStatus
<1>5. StockChargedOnce'
  BY <1>1 DEF Charges, StockChargedOnce, OrdersTypeOK
<1> QED
  BY <1>3, <1>4, <1>5 DEF Charges

LEMMA RefundKeepsCharged ==
  ASSUME Charged, NEW o \in Orders, RefundOrder(o)
  PROVE  Charged'
<1>1. Charges'
  BY RefundKeepsCharges DEF Charged, Charges, History
<1>2. status[o] \in {"paid", "packed", "shipped", "delivered"}
  BY TransitionTable DEF RefundOrder, Charged, Status
<1>3. PaidIsStamped'
  BY <1>2 DEF RefundOrder, Charged, OrdersTypeOK, History, PaidIsStamped
<1> QED
  BY <1>1, <1>3 DEF Charged, Charges, History

\* The admin's edits of Order.status along the fulfilment chain.
LEMMA FulfilKeepsCharged ==
  ASSUME Charged, NEW o \in Orders, NEW new \in Status, FulfilOrder(o, new)
  PROVE  Charged'
<1>1. /\ CanTransition(o, new)
      /\ new \in {"packed", "shipped", "delivered"}
      /\ status' = [status EXCEPT ![o] = new]
      /\ UNCHANGED <<on_hand, reserved, active, moved, items, sold, stamped>>
  BY DEF FulfilOrder
<1>2. status[o] \in {"paid", "packed", "shipped", "delivered"}
  BY <1>1, TransitionTable DEF Charged
<1>3. OrdersTypeOK'
  BY <1>1 DEF Charged, OrdersTypeOK, InventoryTypeOK, Status
<1>4. History'
  BY <1>1, <1>2 DEF Charged, History, OrdersPlaced, PaidIsStamped, OrdersTypeOK, NoStatus
<1>5. StockChargedOnce'
  BY <1>1 DEF Charged, StockChargedOnce
<1> QED
  BY <1>3, <1>4, <1>5 DEF Charged

\* adjust_stock and the warehouse switch.
LEMMA StaffKeepsCharged ==
  ASSUME Charged, StaffStock
  PROVE  Charged'
<1>1. InventoryTypeOK' /\ UNCHANGED orderVars
  BY StaffEffect DEF StaffStock, Charged, OrdersTypeOK
<1> QED
  BY <1>1 DEF Charged, OrdersTypeOK, History, OrdersPlaced, PaidIsStamped, StockChargedOnce, orderVars

---------------------------------------------------------------------------
(* Charged is an invariant.                                                *)

LEMMA OrdersStartCharged ==
  ASSUME OrdersInit
  PROVE  Charged
<1>1. InventoryTypeOK
  BY RowsAssumption DEF OrdersInit, InventoryInit, InventoryTypeOK, Rows
<1>2. NoItems \in [Variants -> 0..MaxQuantity] /\ NoItems \in [Variants -> Nat]
  BY BasketsAssumption DEF NoItems
<1>3. OrdersTypeOK
  BY <1>1, <1>2 DEF OrdersInit, OrdersTypeOK
<1>4. History /\ StockChargedOnce
  BY DEF OrdersInit, History, OrdersPlaced, PaidIsStamped, StockChargedOnce, NoStatus, NoItems
<1> QED
  BY <1>3, <1>4 DEF Charged

\* The inductive invariant behind the charging theorems (transition_status).
THEOREM ChargedInvariant == OrdersSpec => []Charged
<1>1. OrdersInit => Charged
  BY OrdersStartCharged
<1>2. Charged /\ [OrdersNext]_vars => Charged'
  <2> SUFFICES ASSUME Charged, [OrdersNext]_vars PROVE Charged'
    OBVIOUS
  <2>1. ASSUME NEW o \in Orders, NEW b \in Baskets, CreateOrder(o, b) PROVE Charged'
    BY <2>1, CreateKeepsCharged
  <2>2. ASSUME NEW o \in Orders, PayOrder(o) PROVE Charged'
    BY <2>2, PayKeepsCharged
  <2>3. ASSUME NEW o \in Orders, CancelByUser(o) PROVE Charged'
    BY <2>3, CancelKeepsCharged DEF CancelByUser
  <2>4. ASSUME NEW o \in Orders, RefundOrder(o) PROVE Charged'
    BY <2>4, RefundKeepsCharged
  <2>5. ASSUME NEW o \in Orders, NEW new \in Status, FulfilOrder(o, new) PROVE Charged'
    BY <2>5, FulfilKeepsCharged
  <2>6. CASE StaffStock
    BY <2>6, StaffKeepsCharged
  <2>7. CASE UNCHANGED vars
    BY <2>7 DEF vars, Charged, OrdersTypeOK, InventoryTypeOK, History, OrdersPlaced, PaidIsStamped, StockChargedOnce
  <2> QED
    BY <2>1, <2>2, <2>3, <2>4, <2>5, <2>6, <2>7 DEF OrdersNext
<1> QED
  BY <1>1, <1>2, PTL DEF OrdersSpec

\* Every column keeps the values its type allows; no row goes below zero.
THEOREM OrdersTypeCorrect == OrdersSpec => []OrdersTypeOK
<1>1. Charged => OrdersTypeOK
  BY DEF Charged
<1> QED
  BY <1>1, ChargedInvariant, PTL

\* Stock is charged to an order exactly once, when it is paid.
THEOREM ChargedOnce == OrdersSpec => []StockChargedOnce
<1>1. Charged => StockChargedOnce
  BY DEF Charged
<1> QED
  BY <1>1, ChargedInvariant, PTL

---------------------------------------------------------------------------
(* Reservations against pending orders.                                    *)

Pending(v) == [o \in Orders |-> IF status[o] = "pending" THEN items[o][v] ELSE 0]

\* The sum over pending orders is a natural number, at least what each of them
\* asks for.
LEMMA PendingTotals ==
  ASSUME OrdersTypeOK, NEW v \in Variants
  PROVE  /\ Pending(v) \in [Orders -> Nat]
         /\ PendingUnits(v) = Total(Pending(v))
         /\ PendingUnits(v) \in Nat
         /\ \A o \in Orders : status[o] = "pending" => items[o][v] <= PendingUnits(v)
<1>1. \A o \in Orders : items[o][v] \in Nat
  BY BasketsAssumption DEF OrdersTypeOK
<1>2. Pending(v) \in [Orders -> Nat]
  BY <1>1 DEF Pending
<1>3. PendingUnits(v) = Total(Pending(v))
  BY DEF PendingUnits, Pending
<1>4. Total(Pending(v)) \in Nat
  BY <1>2, TotalType, OrdersAssumption
<1>5. ASSUME NEW o \in Orders, status[o] = "pending"
      PROVE  items[o][v] <= Total(Pending(v))
  <2> DEFINE one == [x \in Orders |-> IF x = o THEN items[o][v] ELSE 0]
  <2>1. one \in [Orders -> Nat] /\ \A x \in Orders : one[x] <= Pending(v)[x]
    BY <1>1, <1>2, <1>5 DEF Pending
  <2>2. Total(one) = items[o][v]
    BY <1>1, TotalSingle, OrdersAssumption
  <2> HIDE DEF one
  <2>3. Total(one) <= Total(Pending(v))
    BY <1>2, <2>1, TotalMonotone, OrdersAssumption
  <2> QED
    BY <2>2, <2>3
<1> QED
  BY <1>2, <1>3, <1>4, <1>5

\* The same sum after a step.
LEMMA PendingTypeNext ==
  ASSUME OrdersTypeOK', NEW v \in Variants
  PROVE  /\ Pending(v)' \in [Orders -> Nat]
         /\ PendingUnits(v)' = Total(Pending(v)')
         /\ PendingUnits(v)' \in Nat
<1>1. \A x \in Orders : items'[x][v] \in Nat
  BY BasketsAssumption DEF OrdersTypeOK
<1>2. Pending(v)' \in [Orders -> Nat]
  BY <1>1 DEF Pending
<1>3. PendingUnits(v)' = Total(Pending(v)')
  BY DEF PendingUnits, Pending
<1>4. Total(Pending(v)') \in Nat
  BY <1>2, TotalType, OrdersAssumption
<1> QED
  BY <1>2, <1>3, <1>4

\* How the sum changes when one order changes: it grows by the items of an
\* order that becomes pending, and shrinks by those of one that stops being so.
LEMMA PendingChange ==
  ASSUME OrdersTypeOK, OrdersTypeOK', NEW o \in Orders, NEW v \in Variants,
         \A x \in Orders \ {o} : status'[x] = status[x] /\ items'[x] = items[x]
  PROVE  /\ status[o] # "pending" /\ status'[o] = "pending" =>
              PendingUnits(v)' = PendingUnits(v) + items'[o][v]
         /\ status[o] = "pending" /\ status'[o] # "pending" =>
              PendingUnits(v) = PendingUnits(v)' + items[o][v]
         /\ status[o] # "pending" /\ status'[o] # "pending" =>
              PendingUnits(v)' = PendingUnits(v)
<1>1. /\ Pending(v) \in [Orders -> Nat]
      /\ PendingUnits(v) = Total(Pending(v))
  BY PendingTotals
<1>2. /\ Pending(v)' \in [Orders -> Nat]
      /\ PendingUnits(v)' = Total(Pending(v)')
  BY PendingTypeNext
<1>3. items[o][v] \in Nat /\ items'[o][v] \in Nat
  BY BasketsAssumption DEF OrdersTypeOK
<1>7. IsFiniteSet(Orders)
  BY OrdersAssumption
<1>4. ASSUME status[o] # "pending", status'[o] = "pending"
      PROVE  PendingUnits(v)' = PendingUnits(v) + items'[o][v]
  <2>1. /\ Pending(v)'[o] = Pending(v)[o] + items'[o][v]
        /\ \A x \in Orders \ {o} : Pending(v)'[x] = Pending(v)[x]
    BY <1>1, <1>2, <1>3, <1>4 DEF Pending
  <2>2. Total(Pending(v)') = Total(Pending(v)) + items'[o][v]
    BY <1>1, <1>2, <1>3, <1>7, <2>1, TotalPlusSingle
  <2> QED
    BY <1>1, <1>2, <2>2
<1>5. ASSUME status[o] = "pending", status'[o] # "pending"
      PROVE  PendingUnits(v) = PendingUnits(v)' + items[o][v]
  <2>1. /\ Pending(v)[o] = Pending(v)'[o] + items[o][v]
        /\ \A x \in Orders \ {o} : Pending(v)[x] = Pending(v)'[x]
    BY <1>1, <1>2, <1>3, <1>5 DEF Pending
  <2>2. Total(Pending(v)) = Total(Pending(v)') + items[o][v]
    BY <1>1, <1>2, <1>3, <1>7, <2>1, TotalPlusSingle
  <2> QED
    BY <1>1, <1>2, <2>2
<1>6. ASSUME status[o] # "pending", status'[o] # "pending"
      PROVE  PendingUnits(v)' = PendingUnits(v)
  <2>1. Pending(v)' = Pending(v)
    BY <1>6 DEF Pending
  <2> QED
    BY <1>1, <1>2, <2>1
<1> QED
  BY <1>4, <1>5, <1>6

\* What is reserved and what pending orders wait for are naturals in a state of
\* the right type.
LEMMA TotalsAreNatural ==
  ASSUME OrdersTypeOK, NEW v \in Variants
  PROVE  Total(reserved[v]) \in Nat /\ PendingUnits(v) \in Nat
BY PendingTotals, TotalType, FiniteAssumption DEF OrdersTypeOK, InventoryTypeOK, Rows

Backed == NoLeakedReservation /\ ExactUntilLateCancel

\* create_order_from_cart reserves what the new order waits for.
LEMMA CreateKeepsBacked ==
  ASSUME Charged, Charged', Backed, NEW o \in Orders, NEW b \in Baskets, CreateOrder(o, b)
  PROVE  Backed'
<1>1. /\ status[o] = NoStatus
      /\ ReserveStock(b)
      /\ status' = [status EXCEPT ![o] = "pending"]
      /\ items' = [items EXCEPT ![o] = b]
      /\ stamped' = stamped
  BY DEF CreateOrder
<1>2. b \in Basket
  BY BasketsAssumption DEF Basket
<1>3. \A v \in Variants : Total(reserved'[v]) = Total(reserved[v]) + b[v]
  BY <1>1, <1>2, ReserveEffect DEF Charged, OrdersTypeOK
<1>4. \A v \in Variants : PendingUnits(v)' = PendingUnits(v) + b[v]
  <2> TAKE v \in Variants
  <2>1. /\ status[o] # "pending" /\ status'[o] = "pending" /\ items'[o] = b
        /\ \A x \in Orders \ {o} : status'[x] = status[x] /\ items'[x] = items[x]
    BY <1>1 DEF Charged, OrdersTypeOK, NoStatus
  <2> QED
    BY <2>1, PendingChange DEF Charged
<1>5. \A v \in Variants : Total(reserved[v]) \in Nat /\ PendingUnits(v) \in Nat /\ b[v] \in Nat
  BY <1>2, TotalsAreNatural, BasketsAssumption DEF Charged, Basket
<1>6. NoLeakedReservation'
  BY <1>3, <1>4, <1>5 DEF Backed, NoLeakedReservation
<1>7. ExactUntilLateCancel'
  BY <1>1, <1>3, <1>4 DEF Backed, ExactUntilLateCancel, CancelledLate
<1> QED
  BY <1>6, <1>7 DEF Backed

\* transition_status to PAID spends the reservation and the order's wait.
LEMMA PayKeepsBacked ==
  ASSUME Charged, Charged', Backed, NEW o \in Orders, PayOrder(o)
  PROVE  Backed'
<1>1. /\ CommitSale(items[o])
      /\ status' = [status EXCEPT ![o] = "paid"]
      /\ stamped' = [stamped EXCEPT ![o] = @ \cup {"paid"}]
      /\ items' = items
  BY DEF PayOrder
<1>2. status[o] = "pending"
  BY PaySells DEF Charged, Charges, History
<1>3. \A v \in Variants : Total(reserved[v]) = Total(reserved'[v]) + items[o][v]
  BY <1>1, ItemsAreBasket, CommitEffect DEF Charged, OrdersTypeOK
<1>4. \A v \in Variants : PendingUnits(v) = PendingUnits(v)' + items[o][v]
  <2> TAKE v \in Variants
  <2>1. /\ status'[o] # "pending"
        /\ \A x \in Orders \ {o} : status'[x] = status[x] /\ items'[x] = items[x]
    BY <1>1 DEF Charged, OrdersTypeOK
  <2> QED
    BY <1>2, <2>1, PendingChange DEF Charged
<1>5. \A v \in Variants : /\ Total(reserved'[v]) \in Nat /\ PendingUnits(v)' \in Nat
                          /\ items[o][v] \in Nat
  <2>1. \A v \in Variants : Total(reserved'[v]) \in Nat
    BY TotalType, FiniteAssumption DEF Charged, OrdersTypeOK, InventoryTypeOK, Rows
  <2>2. \A v \in Variants : PendingUnits(v)' \in Nat
    BY PendingTypeNext DEF Charged
  <2> QED
    BY <2>1, <2>2, BasketsAssumption DEF Charged, OrdersTypeOK
<1>6. NoLeakedReservation'
  BY <1>3, <1>4, <1>5 DEF Backed, NoLeakedReservation
<1>7. \A x \in Orders : CancelledLate(x) => CancelledLate(x)'
  BY <1>1 DEF CancelledLate, Charged, OrdersTypeOK
<1>8. ExactUntilLateCancel'
  BY <1>3, <1>4, <1>5, <1>7 DEF Backed, ExactUntilLateCancel
<1> QED
  BY <1>6, <1>8 DEF Backed

\* transition_status to CANCELLED.  From PENDING it gives back what the order
\* waited for, or all that is left; from PAID or PACKED it takes reservations
\* of other orders, which exactness does not survive and the bound does.
LEMMA CancelKeepsBacked ==
  ASSUME Charged, Charged', Backed, NEW o \in Orders, CancelOrder(o)
  PROVE  Backed'
<1>1. /\ CanTransition(o, "cancelled")
      /\ ReleaseReservation(items[o])
      /\ status' = [status EXCEPT ![o] = "cancelled"]
      /\ stamped' = [stamped EXCEPT ![o] = @ \cup {"cancelled"}]
      /\ items' = items
  BY DEF CancelOrder
<1>2. status[o] \in {"pending", "paid", "packed"}
  BY <1>1, TransitionTable DEF Charged, Status
<1>3. \A v \in Variants :
        Total(reserved[v]) = Total(reserved'[v]) + Least(items[o][v], Total(reserved[v]))
  BY <1>1, ItemsAreBasket, ReleaseEffect DEF Charged, OrdersTypeOK
<1>4. /\ status'[o] # "pending"
      /\ \A x \in Orders \ {o} : status'[x] = status[x] /\ items'[x] = items[x]
  BY <1>1 DEF Charged, OrdersTypeOK
<1>5. \A v \in Variants :
        /\ Total(reserved[v]) \in Nat /\ Total(reserved'[v]) \in Nat
        /\ PendingUnits(v) \in Nat /\ PendingUnits(v)' \in Nat
        /\ items[o][v] \in Nat
  <2>1. \A v \in Variants : Total(reserved'[v]) \in Nat
    BY TotalType, FiniteAssumption DEF Charged, OrdersTypeOK, InventoryTypeOK, Rows
  <2>2. \A v \in Variants : PendingUnits(v)' \in Nat
    BY PendingTypeNext DEF Charged
  <2> QED
    BY <2>1, <2>2, TotalsAreNatural, BasketsAssumption DEF Charged, OrdersTypeOK
<1>6. \A x \in Orders : CancelledLate(x) => CancelledLate(x)'
  BY <1>1 DEF CancelledLate, Charged, OrdersTypeOK
<1>7. CASE status[o] = "pending"
  <2>1. \A v \in Variants : PendingUnits(v) = PendingUnits(v)' + items[o][v]
    BY <1>4, <1>7, PendingChange DEF Charged
  <2>2. NoLeakedReservation'
    BY <1>3, <1>5, <2>1 DEF Backed, NoLeakedReservation, Least
  <2>3. ExactUntilLateCancel'
    <3> SUFFICES ASSUME \A x \in Orders : ~CancelledLate(x)', NEW v \in Variants
                 PROVE  Total(reserved'[v]) = PendingUnits(v)'
      BY DEF ExactUntilLateCancel
    <3>1. Total(reserved[v]) = PendingUnits(v)
      BY <1>6 DEF Backed, ExactUntilLateCancel
    <3> QED
      BY <1>3, <1>5, <2>1, <3>1 DEF Least
  <2> QED
    BY <2>2, <2>3 DEF Backed
<1>8. CASE status[o] \in {"paid", "packed"}
  <2>1. \A v \in Variants : PendingUnits(v)' = PendingUnits(v)
    BY <1>4, <1>8, PendingChange DEF Charged
  <2>2. NoLeakedReservation'
    BY <1>3, <1>5, <2>1 DEF Backed, NoLeakedReservation, Least
  <2>3. CancelledLate(o)'
    BY <1>1, <1>8 DEF CancelledLate, Charged, History, OrdersPlaced, PaidIsStamped, OrdersTypeOK
  <2> QED
    BY <2>2, <2>3 DEF Backed, ExactUntilLateCancel
<1> QED
  BY <1>2, <1>7, <1>8

\* A step that touches neither reservations, items nor a pending order: a
\* refund, a step along the fulfilment chain.
LEMMA PaidOrderKeepsBacked ==
  ASSUME Charged, Charged', Backed, NEW o \in Orders, NEW new \in Status,
         status[o] # "pending", new # "pending",
         status' = [status EXCEPT ![o] = new],
         UNCHANGED <<reserved, items>>,
         \A x \in Orders : CancelledLate(x) => CancelledLate(x)'
  PROVE  Backed'
<1>1. \A v \in Variants : PendingUnits(v)' = PendingUnits(v)
  <2> TAKE v \in Variants
  <2>1. /\ status'[o] # "pending"
        /\ \A x \in Orders \ {o} : status'[x] = status[x] /\ items'[x] = items[x]
    BY DEF Charged, OrdersTypeOK
  <2> QED
    BY <2>1, PendingChange DEF Charged
<1>2. NoLeakedReservation'
  BY <1>1 DEF Backed, NoLeakedReservation
<1>3. ExactUntilLateCancel'
  BY <1>1 DEF Backed, ExactUntilLateCancel
<1> QED
  BY <1>2, <1>3 DEF Backed

LEMMA StaffKeepsBacked ==
  ASSUME Charged, Backed, StaffStock
  PROVE  Backed'
<1>1. reserved' = reserved /\ UNCHANGED orderVars
  BY StaffEffect DEF StaffStock, Charged, OrdersTypeOK
<1>2. \A v \in Variants : PendingUnits(v)' = PendingUnits(v)
  BY <1>1 DEF orderVars, PendingUnits
<1> QED
  BY <1>1, <1>2 DEF Backed, NoLeakedReservation, ExactUntilLateCancel, CancelledLate, orderVars

\* A refund, and a step along the fulfilment chain.
LEMMA RefundKeepsBacked ==
  ASSUME Charged, Charged', Backed, NEW o \in Orders, RefundOrder(o)
  PROVE  Backed'
<1>1. status[o] # "pending"
  BY TransitionTable DEF RefundOrder, Charged, Status
<1>2. \A x \in Orders : CancelledLate(x) => CancelledLate(x)'
  BY DEF RefundOrder, CancelledLate, Charged, OrdersTypeOK
<1> QED
  BY <1>1, <1>2, PaidOrderKeepsBacked DEF RefundOrder, Status

LEMMA FulfilKeepsBacked ==
  ASSUME Charged, Charged', Backed, NEW o \in Orders, NEW new \in Status, FulfilOrder(o, new)
  PROVE  Backed'
<1>1. status[o] # "pending"
  BY TransitionTable DEF FulfilOrder, Charged
<1>2. \A x \in Orders : CancelledLate(x) => CancelledLate(x)'
  BY DEF FulfilOrder, CancelledLate
<1> QED
  BY <1>1, <1>2, PaidOrderKeepsBacked DEF FulfilOrder, Status

LEMMA OrdersStartBacked ==
  ASSUME OrdersInit
  PROVE  Backed
<1> SUFFICES ASSUME NEW v \in Variants
             PROVE  Total(reserved[v]) = 0 /\ PendingUnits(v) = 0
  BY DEF Backed, NoLeakedReservation, ExactUntilLateCancel
<1>1. \A S : UnitsOf([x \in S |-> 0]) = {}
  BY DEF UnitsOf
<1>2. \A S : Total([x \in S |-> 0]) = 0
  BY <1>1, FS_EmptySet DEF Total
<1>3. reserved[v] = [w \in Warehouses |-> 0]
  BY DEF OrdersInit, InventoryInit
<1>4. PendingUnits(v) = Total([x \in Orders |-> 0])
  BY DEF PendingUnits, OrdersInit, NoStatus
<1> QED
  BY <1>2, <1>3, <1>4

\* The inductive invariant behind the theorems about reservations.
THEOREM BackedInvariant == OrdersSpec => []Backed
<1>1. OrdersInit => Backed
  BY OrdersStartBacked
<1>2. Charged /\ Charged' /\ Backed /\ [OrdersNext]_vars => Backed'
  <2> SUFFICES ASSUME Charged, Charged', Backed, [OrdersNext]_vars PROVE Backed'
    OBVIOUS
  <2>1. ASSUME NEW o \in Orders, NEW b \in Baskets, CreateOrder(o, b) PROVE Backed'
    BY <2>1, CreateKeepsBacked
  <2>2. ASSUME NEW o \in Orders, PayOrder(o) PROVE Backed'
    BY <2>2, PayKeepsBacked
  <2>3. ASSUME NEW o \in Orders, CancelByUser(o) PROVE Backed'
    BY <2>3, CancelKeepsBacked DEF CancelByUser
  <2>4. ASSUME NEW o \in Orders, RefundOrder(o) PROVE Backed'
    BY <2>4, RefundKeepsBacked
  <2>5. ASSUME NEW o \in Orders, NEW new \in Status, FulfilOrder(o, new) PROVE Backed'
    BY <2>5, FulfilKeepsBacked
  <2>6. CASE StaffStock
    BY <2>6, StaffKeepsBacked
  <2>7. CASE UNCHANGED vars
    BY <2>7 DEF vars, Backed, NoLeakedReservation, ExactUntilLateCancel, PendingUnits,
               CancelledLate
  <2> QED
    BY <2>1, <2>2, <2>3, <2>4, <2>5, <2>6, <2>7 DEF OrdersNext
<1> QED
  BY <1>1, <1>2, ChargedInvariant, PTL DEF OrdersSpec

\* No more is reserved of a variant than pending orders ask for, whatever
\* buyers, staff and payments do.
THEOREM NoLeak == OrdersSpec => []NoLeakedReservation
<1>1. Backed => NoLeakedReservation
  BY DEF Backed
<1> QED
  BY <1>1, BackedInvariant, PTL

\* Reservations are exact until somebody cancels a paid order: that is the only
\* call that breaks the match between apps/inventory and apps/orders.
THEOREM ExactReservations == OrdersSpec => []ExactUntilLateCancel
<1>1. Backed => ExactUntilLateCancel
  BY DEF Backed
<1> QED
  BY <1>1, BackedInvariant, PTL

---------------------------------------------------------------------------
(* When every pending order can still be paid.                             *)

\* Each row holds on hand at least what is reserved on it.
Covered == \A v \in Variants, w \in Warehouses : reserved[v][w] <= on_hand[v][w]

\* reserve_stock takes only what is available, so no row is promised twice.
LEMMA ReserveKeepsCovered ==
  ASSUME InventoryTypeOK, Covered, NEW b \in Basket, ReserveStock(b)
  PROVE  Covered'
<1>1. PICK take \in Takes :
        /\ \A v \in Variants : take[v] \in Greedy(Reservable(v), Priority, b[v])
        /\ reserved' = Added(reserved, take)
        /\ on_hand' = on_hand
  BY DEF ReserveStock
<1>2. \A v \in Variants, w \in Warehouses :
        take[v][w] \in Nat /\ take[v][w] <= Reservable(v)[w]
  BY <1>1, GreedyTake DEF Basket
<1>3. ASSUME NEW v \in Variants, NEW w \in Warehouses
      PROVE  reserved[v][w] + take[v][w] <= on_hand[v][w]
  <2>1. /\ on_hand[v][w] \in Nat /\ reserved[v][w] \in Nat /\ SafetyBuffer[v][w] \in Nat
        /\ reserved[v][w] <= on_hand[v][w]
    BY RowsAssumption DEF InventoryTypeOK, Rows, Covered
  <2>2. take[v][w] \in Nat /\ take[v][w] <= Reservable(v)[w]
    BY <1>2
  <2>3. \/ Reservable(v)[w] = 0
        \/ Reservable(v)[w] = AtLeastZero(on_hand[v][w] - reserved[v][w] - SafetyBuffer[v][w])
    BY DEF Reservable, Available
  <2> QED
    BY <2>1, <2>2, <2>3 DEF AtLeastZero
<1> QED
  BY <1>1, <1>3 DEF Added, Covered

\* release_reservation only takes reservations away.
LEMMA ReleaseKeepsCovered ==
  ASSUME InventoryTypeOK, Covered, NEW b \in Basket, ReleaseReservation(b)
  PROVE  Covered'
<1>1. PICK take \in Takes :
        /\ \A v \in Variants :
             take[v] \in Greedy(reserved[v], MostReservedFirst(v), Least(b[v], Total(reserved[v])))
        /\ reserved' = Taken(reserved, take)
        /\ on_hand' = on_hand
  BY DEF ReleaseReservation
<1>2. \A v \in Variants, w \in Warehouses : take[v][w] \in Nat
  BY <1>1, BasketsAssumption DEF Takes
<1>3. \A v \in Variants, w \in Warehouses : reserved'[v][w] = reserved[v][w] - take[v][w]
  BY <1>1 DEF Taken
<1> QED
  BY <1>1, <1>2, <1>3 DEF Covered, InventoryTypeOK, Rows

\* commit_sale takes the same units from both columns.
LEMMA CommitKeepsCovered ==
  ASSUME InventoryTypeOK, Covered, NEW b \in Basket, CommitSale(b)
  PROVE  Covered'
<1>1. PICK take \in Takes :
        reserved' = Taken(reserved, take) /\ on_hand' = Taken(on_hand, take)
  BY DEF CommitSale
<1>2. \A v \in Variants, w \in Warehouses : take[v][w] \in Nat
  BY <1>1, BasketsAssumption DEF Takes
<1>3. \A v \in Variants, w \in Warehouses :
        /\ reserved'[v][w] = reserved[v][w] - take[v][w]
        /\ on_hand'[v][w] = on_hand[v][w] - take[v][w]
  BY <1>1 DEF Taken
<1> QED
  BY <1>2, <1>3 DEF Covered, InventoryTypeOK, Rows

\* adjust_stock, when staff only ever add.
LEMMA RestockKeepsCovered ==
  ASSUME InventoryTypeOK, Covered, Deltas \subseteq Nat, StaffStock
  PROVE  Covered'
<1>1. ASSUME NEW v \in Variants, NEW w \in Warehouses, NEW delta \in Deltas,
             AdjustStock(v, w, delta)
      PROVE  Covered'
  <2>1. /\ on_hand' = [on_hand EXCEPT ![v][w] = AtLeastZero(@ + delta)]
        /\ reserved' = reserved
    BY <1>1 DEF AdjustStock
  <2>2. on_hand[v][w] \in Nat /\ delta \in Nat
    BY DEF InventoryTypeOK, Rows
  <2>3. AtLeastZero(on_hand[v][w] + delta) = on_hand[v][w] + delta
    BY <2>2 DEF AtLeastZero
  <2>4. \A x \in Variants, y \in Warehouses : on_hand'[x][y] >= on_hand[x][y]
    BY <2>1, <2>2, <2>3 DEF InventoryTypeOK, Rows
  <2>5. \A x \in Variants, y \in Warehouses : on_hand'[x][y] \in Nat
    BY <2>1, <2>2, <2>3 DEF InventoryTypeOK, Rows
  <2> QED
    BY <2>1, <2>4, <2>5 DEF Covered, InventoryTypeOK, Rows
<1>2. ASSUME NEW w \in Switchable, ToggleWarehouse(w)
      PROVE  Covered'
  BY <1>2 DEF ToggleWarehouse, Covered
<1> QED
  BY <1>1, <1>2 DEF StaffStock

\* If no paid order is cancelled and staff only add stock, then every pending
\* order can be paid, in any order of payment: commit_sale never raises.
THEOREM PendingOrdersCanBePaid ==
  ASSUME LateCancels = {}, Deltas \subseteq Nat
  PROVE  OrdersSpec => []EveryPendingOrderCanBePaid
<1> DEFINE Orderly == Covered /\ \A o \in Orders : ~CancelledLate(o)
<1>1. OrdersInit => Orderly
  BY RowsAssumption DEF OrdersInit, InventoryInit, Covered, CancelledLate
<1>2. Charged /\ Orderly /\ [OrdersNext]_vars => Orderly'
  <2> SUFFICES ASSUME Charged, Orderly, [OrdersNext]_vars PROVE Orderly'
    OBVIOUS
  <2>t. InventoryTypeOK
    BY DEF Charged, OrdersTypeOK
  <2>1. ASSUME NEW o \in Orders, NEW b \in Baskets, CreateOrder(o, b) PROVE Orderly'
    <3>1. b \in Basket
      BY BasketsAssumption DEF Basket
    <3> QED
      BY <2>t, <2>1, <3>1, ReserveKeepsCovered DEF CreateOrder, CancelledLate
  <2>2. ASSUME NEW o \in Orders, PayOrder(o) PROVE Orderly'
    <3>1. Covered'
      BY <2>t, <2>2, ItemsAreBasket, CommitKeepsCovered DEF PayOrder, Charged
    <3>2. stamped[o] = {}
      BY <2>2, PaySells DEF Charged, Charges, History, OrdersPlaced, PaidIsStamped
    <3>3. stamped' = [stamped EXCEPT ![o] = @ \cup {"paid"}]
      BY <2>2 DEF PayOrder
    <3> QED
      BY <3>1, <3>2, <3>3 DEF CancelledLate, Charged, OrdersTypeOK
  <2>3. ASSUME NEW o \in Orders, CancelByUser(o) PROVE Orderly'
    <3>1. Covered'
      BY <2>t, <2>3, ItemsAreBasket, ReleaseKeepsCovered DEF CancelByUser, CancelOrder, Charged
    <3>2. stamped[o] = {}
      BY <2>3 DEF CancelByUser, Charged, History, OrdersPlaced, PaidIsStamped
    <3>3. stamped' = [stamped EXCEPT ![o] = @ \cup {"cancelled"}]
      BY <2>3 DEF CancelByUser, CancelOrder
    <3> QED
      BY <3>1, <3>2, <3>3 DEF CancelledLate, Charged, OrdersTypeOK
  <2>4. ASSUME NEW o \in Orders, RefundOrder(o) PROVE Orderly'
    BY <2>4 DEF RefundOrder, Covered, CancelledLate, Charged, OrdersTypeOK
  <2>5. ASSUME NEW o \in Orders, NEW new \in Status, FulfilOrder(o, new) PROVE Orderly'
    BY <2>5 DEF FulfilOrder, Covered, CancelledLate
  <2>6. CASE StaffStock
    BY <2>t, <2>6, RestockKeepsCovered DEF StaffStock, orderVars, CancelledLate
  <2>7. CASE UNCHANGED vars
    BY <2>7 DEF vars, Covered, CancelledLate
  <2> QED
    BY <2>1, <2>2, <2>3, <2>4, <2>5, <2>6, <2>7 DEF OrdersNext
<1>3. Charged /\ Backed /\ Orderly => EveryPendingOrderCanBePaid
  <2> SUFFICES ASSUME Charged, Backed, Orderly, NEW v \in Variants
               PROVE  PendingUnits(v) <= Total(Committable(v))
    BY DEF EveryPendingOrderCanBePaid
  <2>1. Total(reserved[v]) = PendingUnits(v)
    BY DEF Backed, ExactUntilLateCancel
  <2>2. Committable(v) = reserved[v]
    BY DEF Committable, Least, Covered, Charged, OrdersTypeOK, InventoryTypeOK, Rows
  <2>3. PendingUnits(v) \in Nat
    BY TotalsAreNatural DEF Charged
  <2> QED
    BY <2>1, <2>2, <2>3
<1> QED
  BY <1>1, <1>2, <1>3, ChargedInvariant, BackedInvariant, PTL DEF OrdersSpec

---------------------------------------------------------------------------
(* Orders are a client of the stock component.                             *)

\* Every step of the orders is a call of one stock function or leaves the rows
\* alone, so what is proved of Inventory on its own holds here.
THEOREM OrdersUseInventory == OrdersSpec => InventorySpec
<1>1. OrdersInit => InventoryInit
  BY DEF OrdersInit
<1>2. Charged /\ [OrdersNext]_vars => [InventoryNext]_stock
  <2> SUFFICES ASSUME Charged, [OrdersNext]_vars PROVE [InventoryNext]_stock
    OBVIOUS
  <2>1. ASSUME NEW o \in Orders, NEW b \in Baskets, CreateOrder(o, b) PROVE InventoryNext
    BY <2>1 DEF CreateOrder, InventoryNext
  <2>2. ASSUME NEW o \in Orders, status[o] # NoStatus PROVE items[o] \in Baskets
    BY <2>2 DEF Charged, History, OrdersPlaced, PaidIsStamped
  <2>3. ASSUME NEW o \in Orders, PayOrder(o) PROVE InventoryNext
    BY <2>2, <2>3 DEF PayOrder, CanTransition, InventoryNext
  <2>4. ASSUME NEW o \in Orders, CancelByUser(o) PROVE InventoryNext
    BY <2>2, <2>4 DEF CancelByUser, CancelOrder, CanTransition, InventoryNext
  <2>5. ASSUME NEW o \in Orders, RefundOrder(o) PROVE UNCHANGED stock
    BY <2>5 DEF RefundOrder, stock
  <2>6. ASSUME NEW o \in Orders, NEW new \in Status, FulfilOrder(o, new) PROVE UNCHANGED stock
    BY <2>6 DEF FulfilOrder, stock
  <2>7. CASE StaffStock
    BY <2>7 DEF StaffStock, InventoryNext
  <2>8. CASE UNCHANGED vars
    BY <2>8 DEF vars, stock
  <2> QED
    BY <2>1, <2>3, <2>4, <2>5, <2>6, <2>7, <2>8 DEF OrdersNext
<1> QED
  BY <1>1, <1>2, ChargedInvariant, PTL DEF OrdersSpec, InventorySpec

\* So the movement trail explains every reservation in the composed system.
THEOREM OrdersTrailCorrect == OrdersSpec => []ReservedMatchesTrail
BY OrdersUseInventory, TrailCorrect, PTL

\* Checkout, payment and cancellation of whole orders keep the contract of the
\* stock: each takes all it needs at once, or nothing (create_order_from_cart and
\* transition_status call the service functions inside one transaction).
THEOREM OrdersKeepStockContract == OrdersSpec => KeepsStockContract
BY OrdersUseInventory, ImplementsStockContract

---------------------------------------------------------------------------
(* Orders implement OrderContract.                                         *)

\* The refinement mapping on an order that has not been paid, and on one that
\* has: nothing is sold of the one, all of the other.
LEMMA GoodsOfOrder ==
  ASSUME Charged, NEW o \in Orders
  PROVE  /\ status[o] \in {NoStatus, "pending"} => Goods[o] = "nothing"
         /\ "paid" \in stamped[o] => sold[o] = items[o] /\ Goods[o] = "everything"
<1>1. sold[o] \in [Variants -> Nat] /\ items[o] \in [Variants -> 0..MaxQuantity]
  BY DEF Charged, OrdersTypeOK
<1>2. ASSUME status[o] \in {NoStatus, "pending"} PROVE Goods[o] = "nothing"
  <2>1. \A v \in Variants : sold[o][v] = 0
    BY <1>2 DEF Charged, StockChargedOnce, History, OrdersPlaced, PaidIsStamped
  <2>2. sold[o] = NoItems
    BY <1>1, <2>1 DEF NoItems
  <2> QED
    BY <2>2 DEF Goods
<1>3. ASSUME "paid" \in stamped[o] PROVE sold[o] = items[o] /\ Goods[o] = "everything"
  <2>1. \A v \in Variants : sold[o][v] = items[o][v]
    BY <1>3 DEF Charged, StockChargedOnce
  <2>2. sold[o] = items[o]
    BY <1>1, <2>1
  <2>3. items[o] \in Baskets
    BY <1>3 DEF Charged, History, OrdersPlaced, PaidIsStamped
  <2>4. items[o] # NoItems
    BY <2>3, BasketsAssumption DEF NoItems
  <2> QED
    BY <2>2, <2>4 DEF Goods
<1> QED
  BY <1>2, <1>3

\* The stage of every status.
LEMMA StageTable ==
  /\ StageOf[NoStatus] = "unplaced"
  /\ StageOf["pending"] = "open"
  /\ \A st \in {"paid", "packed", "shipped", "delivered"} : StageOf[st] = "settled"
  /\ \A st \in {"cancelled", "refunded"} : StageOf[st] = "closed"
BY DEF StageOf, NoStatus

\* A new status moves the order's stage and no other.
LEMMA StageMoves ==
  ASSUME OrdersTypeOK, NEW o \in Orders, NEW new \in Status,
         status' = [status EXCEPT ![o] = new]
  PROVE  Stage' = [Stage EXCEPT ![o] = StageOf[new]]
BY DEF OrdersTypeOK, Stage

\* While sold and the items of placed orders stay, so do the goods taken.
LEMMA GoodsStay ==
  ASSUME sold' = sold, items' = items
  PROVE  Goods' = Goods
BY DEF Goods

\* create_order_from_cart places the order.
LEMMA CreatePlaces ==
  ASSUME Charged, Charged', NEW o \in Orders, NEW b \in Baskets, CreateOrder(o, b)
  PROVE  Contract!Place(o)
<1>1. /\ status[o] = NoStatus
      /\ status' = [status EXCEPT ![o] = "pending"]
      /\ items' = [items EXCEPT ![o] = b]
      /\ sold' = sold /\ stamped' = stamped
  BY DEF CreateOrder
<1>2. Stage' = [Stage EXCEPT ![o] = "open"]
  BY <1>1, StageMoves, StageTable DEF Charged, Status
<1>3. Stage[o] = "unplaced"
  BY <1>1, StageTable DEF Stage
<1>4. \A x \in Orders \ {o} : items'[x] = items[x]
  BY <1>1 DEF Charged, OrdersTypeOK
<1>5. sold[o] = NoItems
  <2>1. \A v \in Variants : sold[o][v] = 0
    BY <1>1 DEF Charged, StockChargedOnce, History, OrdersPlaced, PaidIsStamped
  <2> QED
    BY <2>1 DEF Charged, OrdersTypeOK, NoItems
<1>6. Goods' = Goods
  BY <1>1, <1>4, <1>5 DEF Goods, NoItems
<1> QED
  BY <1>2, <1>3, <1>6 DEF Contract!Place

\* transition_status to PAID settles it.
LEMMA PaySettles ==
  ASSUME Charged, Charged', NEW o \in Orders, PayOrder(o)
  PROVE  Contract!Settle(o)
<1>1. /\ status' = [status EXCEPT ![o] = "paid"]
      /\ stamped' = [stamped EXCEPT ![o] = @ \cup {"paid"}]
      /\ items' = items
  BY DEF PayOrder
<1>2. status[o] = "pending" /\ sold' = [sold EXCEPT ![o] = items[o]]
  BY PaySells DEF Charged, Charges, History
<1>3. Stage[o] = "open" /\ Stage' = [Stage EXCEPT ![o] = "settled"]
  BY <1>1, <1>2, StageMoves, StageTable DEF Charged, Status, Stage
<1>4. items[o] # NoItems
  BY <1>2, BasketsAssumption DEF Charged, History, OrdersPlaced, PaidIsStamped, NoItems, NoStatus
<1>5. Goods' = [Goods EXCEPT ![o] = "everything"]
  BY <1>1, <1>2, <1>4 DEF Goods, Charged, OrdersTypeOK, NoItems
<1> QED
  BY <1>3, <1>5 DEF Contract!Settle

\* transition_status to CANCELLED or REFUNDED closes it.
LEMMA ClosingCloses ==
  ASSUME Charged, NEW o \in Orders, NEW new \in {"cancelled", "refunded"},
         CanTransition(o, new), status' = [status EXCEPT ![o] = new],
         sold' = sold, items' = items
  PROVE  Contract!Close(o)
<1>1. new \in Status
  BY DEF Status
<1>2. status[o] \in {"pending", "paid", "packed", "shipped", "delivered"}
  BY <1>1, TransitionTable DEF Charged
<1>3. Stage[o] \in {"open", "settled"}
  BY <1>2, StageTable DEF Stage
<1>4. Stage' = [Stage EXCEPT ![o] = "closed"]
  BY <1>1, StageMoves, StageTable DEF Charged
<1> QED
  BY <1>3, <1>4, GoodsStay DEF Contract!Close

\* The order component implements its contract, whatever the stock does.
THEOREM OrdersKeepContract == OrdersSpec => KeepsContract
<1>1. OrdersInit => Contract!Init
  BY StageTable DEF OrdersInit, Contract!Init, Stage, Goods
<1>2. Charged /\ Charged' /\ [OrdersNext]_vars => [Contract!Next]_<<Stage, Goods>>
  <2> SUFFICES ASSUME Charged, Charged', [OrdersNext]_vars
               PROVE  [Contract!Next]_<<Stage, Goods>>
    OBVIOUS
  <2>1. ASSUME NEW o \in Orders, NEW b \in Baskets, CreateOrder(o, b)
        PROVE  Contract!Next
    BY <2>1, CreatePlaces DEF Contract!Next
  <2>2. ASSUME NEW o \in Orders, PayOrder(o) PROVE Contract!Next
    BY <2>2, PaySettles DEF Contract!Next
  <2>3. ASSUME NEW o \in Orders, CancelByUser(o) PROVE Contract!Next
    BY <2>3, ClosingCloses DEF CancelByUser, CancelOrder, Contract!Next
  <2>4. ASSUME NEW o \in Orders, RefundOrder(o) PROVE Contract!Next
    BY <2>4, ClosingCloses DEF RefundOrder, Contract!Next
  <2>5. ASSUME NEW o \in Orders, NEW new \in Status, FulfilOrder(o, new)
        PROVE  UNCHANGED <<Stage, Goods>>
    <3>1. /\ status' = [status EXCEPT ![o] = new]
          /\ new \in {"packed", "shipped", "delivered"}
          /\ sold' = sold /\ items' = items
      BY <2>5 DEF FulfilOrder
    <3>2. status[o] \in {"paid", "packed", "shipped", "delivered"}
      BY <2>5, TransitionTable DEF FulfilOrder, Charged
    <3>3. \A x \in Orders \ {o} : status'[x] = status[x]
      BY <3>1 DEF Charged, OrdersTypeOK
    <3>4. StageOf[status[o]] = "settled" /\ StageOf[status'[o]] = "settled"
      BY <3>1, <3>2, StageTable DEF Charged, OrdersTypeOK
    <3>5. \A x \in Orders : StageOf[status'[x]] = StageOf[status[x]]
      BY <3>3, <3>4
    <3>6. Stage' = Stage
      BY <3>5 DEF Stage
    <3> QED
      BY <3>1, <3>6, GoodsStay
  <2>6. ASSUME StaffStock \/ UNCHANGED vars PROVE UNCHANGED <<Stage, Goods>>
    BY <2>6 DEF StaffStock, orderVars, vars, Stage, Goods
  <2> QED
    BY <2>1, <2>2, <2>3, <2>4, <2>5, <2>6 DEF OrdersNext
<1> QED
  BY <1>1, <1>2, ChargedInvariant, PTL DEF OrdersSpec, KeepsContract, Contract!Spec
=============================================================================
