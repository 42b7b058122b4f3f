------------------------------ MODULE Orders -------------------------------
(***************************************************************************)
(* apps/orders over apps/inventory: checkout, the status transitions and   *)
(* the stock they move.                                                    *)
(*                                                                         *)
(* create_order_from_cart and transition_status are each one database      *)
(* transaction; transition_status holds the lock of the order row from its *)
(* first query, so two transitions of one order never overlap.  A call     *)
(* that raises CheckoutError or OutOfStockError leaves everything as it    *)
(* was, which is a stuttering step.  What is in the cart, the coupon and   *)
(* the price are not part of this module: an order's basket is any member  *)
(* of Baskets.                                                             *)
(***************************************************************************)
EXTENDS Inventory

CONSTANTS
  Orders,      \* orders, taken from the start to bound their number
  LateCancels  \* the statuses after PENDING in which orders get cancelled

VARIABLES
  status,   \* Order.status, "none" before the order exists
  items,    \* OrderItem.quantity by variant, 0 when the order has no such item
  sold,     \* SALE movements whose reference is the order, summed by variant
  stamped   \* which of paid_at, cancelled_at and refunded_at are set

orderVars == <<status, items, sold, stamped>>
vars == <<on_hand, reserved, active, moved, status, items, sold, stamped>>

Status == {"pending", "paid", "packed", "shipped", "delivered", "cancelled", "refunded"}
NoStatus == "none"

ASSUME OrdersAssumption ==
  /\ IsFiniteSet(Orders)
  /\ LateCancels \subseteq {"paid", "packed"}

\* Order.ALLOWED_TRANSITIONS
AllowedTransitions ==
  [pending   |-> {"paid", "cancelled"},
   paid      |-> {"packed", "cancelled", "refunded"},
   packed    |-> {"shipped", "cancelled", "refunded"},
   shipped   |-> {"delivered", "refunded"},
   delivered |-> {"refunded"},
   cancelled |-> {},
   refunded  |-> {}]

NoItems == [v \in Variants |-> 0]

OrdersTypeOK ==
  /\ InventoryTypeOK
  /\ status \in [Orders -> Status \cup {NoStatus}]
  /\ items \in [Orders -> [Variants -> 0..MaxQuantity]]
  /\ sold \in [Orders -> [Variants -> Nat]]
  /\ stamped \in [Orders -> SUBSET {"paid", "cancelled", "refunded"}]

OrdersInit ==
  /\ InventoryInit
  /\ status = [o \in Orders |-> NoStatus]
  /\ items = [o \in Orders |-> NoItems]
  /\ sold = [o \in Orders |-> NoItems]
  /\ stamped = [o \in Orders |-> {}]

---------------------------------------------------------------------------
(* Operations                                                              *)

\* create_order_from_cart: the order row, a reservation for every item, the
\* items.  Enabled when the whole basket can be reserved.
CreateOrder(o, b) ==
  /\ status[o] = NoStatus
  /\ ReserveStock(b)
  /\ status' = [status EXCEPT ![o] = "pending"]
  /\ items' = [items EXCEPT ![o] = b]
  /\ UNCHANGED <<sold, stamped>>

AnyTransition(o, new) == status[o] # NoStatus

\* Order.can_transition_to
CanTransition(o, new) == status[o] # NoStatus /\ new \in AllowedTransitions[status[o]]

\* transition_status with new = PAID.  The SALE movements written for the
\* order are the units that leave the rows in this step.
PayOrder(o) ==
  /\ CanTransition(o, "paid")
  /\ CommitSale(items[o])
  /\ status' = [status EXCEPT ![o] = "paid"]
  /\ stamped' = [stamped EXCEPT ![o] = @ \cup {"paid"}]
  /\ sold' = [sold EXCEPT ![o] =
                [v \in Variants |-> @[v] + (Total(on_hand[v]) - Total(on_hand'[v]))]]
  /\ UNCHANGED items

CancelKeepingReservation(o) ==
  /\ CanTransition(o, "cancelled")
  /\ status' = [status EXCEPT ![o] = "cancelled"]
  /\ stamped' = [stamped EXCEPT ![o] = @ \cup {"cancelled"}]
  /\ UNCHANGED <<on_hand, reserved, active, moved, items, sold>>

\* transition_status with new = CANCELLED: releases the basket whatever the
\* order's status was, and puts nothing back on the shelf.
CancelOrder(o) ==
  /\ CanTransition(o, "cancelled")
  /\ ReleaseReservation(items[o])
  /\ status' = [status EXCEPT ![o] = "cancelled"]
  /\ stamped' = [stamped EXCEPT ![o] = @ \cup {"cancelled"}]
  /\ UNCHANGED <<items, sold>>

\* transition_status with new = REFUNDED: the stock is not touched.
RefundOrder(o) ==
  /\ CanTransition(o, "refunded")
  /\ status' = [status EXCEPT ![o] = "refunded"]
  /\ stamped' = [stamped EXCEPT ![o] = @ \cup {"refunded"}]
  /\ UNCHANGED <<on_hand, reserved, active, moved, items, sold>>

\* OrderViewSet.cancel, by the buyer or by staff.
CancelByUser(o) ==
  /\ status[o] \in {"pending"} \cup LateCancels
  /\ CancelOrder(o)

\* Staff move a paid order along by editing Order.status in the admin (there
\* is no endpoint for it).  Here the form is filled in and saved at once, with
\* the next status of a parcel; what happens while it stays open, and the other
\* statuses the form lets them pick, are the subject of module AdminForms.
FulfilOrder(o, new) ==
  /\ CanTransition(o, new)
  /\ new \in {"packed", "shipped", "delivered"}
  /\ status' = [status EXCEPT ![o] = new]
  /\ UNCHANGED <<on_hand, reserved, active, moved, items, sold, stamped>>

\* Staff change the stock or a warehouse.
StaffStock ==
  /\ \/ \E v \in Variants, w \in Warehouses, delta \in Deltas : AdjustStock(v, w, delta)
     \/ \E w \in Switchable : ToggleWarehouse(w)
  /\ UNCHANGED orderVars

OrdersNext ==
  \/ \E o \in Orders, b \in Baskets : CreateOrder(o, b)
  \/ \E o \in Orders : PayOrder(o) \/ CancelByUser(o) \/ RefundOrder(o)
  \/ \E o \in Orders, new \in Status : FulfilOrder(o, new)
  \/ StaffStock

OrdersSpec == OrdersInit /\ [][OrdersNext]_vars

---------------------------------------------------------------------------
(* Properties                                                              *)

\* Stock is charged to an order exactly once: the SALE movements of an order
\* add up to its items from the moment it has been paid, whatever happens to
\* it later, and to nothing before (transition_status and commit_sale, called
\* again by every repeated capture).
StockChargedOnce ==
  \A o \in Orders, v \in Variants :
    sold[o][v] = IF "paid" \in stamped[o] THEN items[o][v] ELSE 0

\* The units of a variant that pending orders wait for.
PendingUnits(v) ==
  Total([o \in Orders |-> IF status[o] = "pending" THEN items[o][v] ELSE 0])

\* No reservation outlives its order: no more is reserved of a variant than
\* pending orders ask for (create_order_from_cart, release_reservation and
\* commit_sale keep in step).
NoLeakedReservation ==
  \A v \in Variants : Total(reserved[v]) <= PendingUnits(v)

\* An order cancelled after it was paid, whose reservation was spent already.
CancelledLate(o) == {"paid", "cancelled"} \subseteq stamped[o]

\* Until someone cancels a paid order, reservations and pending orders match to
\* the unit, in whatever order checkouts, payments, cancellations, refunds and
\* corrections of the stock come (create_order_from_cart and transition_status).
\* What the admin's forms can do to it is the subject of module AdminForms.
ExactUntilLateCancel ==
  (\A o \in Orders : ~CancelledLate(o)) =>
    \A v \in Variants : Total(reserved[v]) = PendingUnits(v)

\* "Stock.reserved holds units committed to active checkouts/carts": every
\* unit a pending order waits for is reserved, and nothing else is
\* (inventory/models.py:5).
ReservedBacksPendingOrders ==
  \A v \in Variants : Total(reserved[v]) = PendingUnits(v)

\* Whatever the order of payments, all pending orders can still be paid: the
\* rows hold, reserved and on hand, what commit_sale will want to take.
EveryPendingOrderCanBePaid ==
  \A v \in Variants : PendingUnits(v) <= Total(Committable(v))

\* Where a status stands in the life of an order, and how much of its items
\* an order has taken from the stock.
StageOf ==
  [none |-> "unplaced", pending |-> "open", paid |-> "settled", packed |-> "settled",
   shipped |-> "settled", delivered |-> "settled", cancelled |-> "closed",
   refunded |-> "closed"]

Stage == [o \in Orders |-> StageOf[status[o]]]

Goods ==
  [o \in Orders |->
     IF sold[o] = NoItems THEN "nothing"
     ELSE IF sold[o] = items[o] THEN "everything" ELSE "some"]

\* The order component keeps its contract: settled at most once, closed for
\* good, the goods taken all together exactly when it is settled
\* (transition_status, all branches).
Contract == INSTANCE OrderContract WITH stage <- Stage, taken <- Goods

KeepsContract == Contract!Spec
=============================================================================
