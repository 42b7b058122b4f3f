---------------------------- MODULE ReplicaReads ----------------------------
(***************************************************************************)
(* Checkout and payment over a primary database and a replica that lags    *)
(* (PrimaryReplicaRouter in apps/core/db_router.py).  The router sends     *)
(* each plain read to either of the two by chance; writes, reads that lock *)
(* and get_or_create go to the primary.  The replica applies the commits   *)
(* of the primary in their order.                                          *)
(*                                                                         *)
(* create_order_from_cart reads the items of the cart three times (is      *)
(* there one, their sum, the loop that writes the order's items), and      *)
(* transition_status reads the order's items to charge them.  What is      *)
(* reserved and sold is the subject of other modules: here a cart is a set *)
(* of lines, and only who reads which version matters.                     *)
(***************************************************************************)
EXTENDS Naturals, Sequences

CONSTANTS
  Lines,    \* cart lines, each put in the cart once
  Tickets   \* checkouts of the cart, each with the order it places

VARIABLES
  log,      \* what the primary has committed, version by version
  seen,     \* the version the replica shows
  checkout, \* how far each checkout is
  billed,   \* the lines in each order's subtotal
  picked,   \* the lines in each order's loop
  charged,  \* the lines charged when an order was paid, Unpaid before
  fresh     \* the checkouts and payments whose reads showed the latest version

replicaVars == <<log, seen, checkout, billed, picked, charged, fresh>>

\* What is no set of lines.
Unpaid == {"unpaid"}
Nowhere == {"nowhere"}

ASSUME LinesAssumption == Lines \cap (Unpaid \cup Nowhere) = {}

\* PrimaryReplicaRouter.db_for_read
Databases == {"default", "read_replica"}

Latest == log[Len(log)]

Shown(db) == IF db = "default" THEN Latest ELSE log[seen]

CaughtUp(db) == db = "default" \/ seen = Len(log)

ReplicaTypeOK ==
  /\ \A i \in DOMAIN log :
       /\ log[i].cart \subseteq Lines
       /\ log[i].orders \in [Tickets -> (SUBSET Lines) \cup {Nowhere}]
  /\ seen \in DOMAIN log
  /\ checkout \in [Tickets -> {"waiting", "checked", "billed", "picked", "placed"}]
  /\ billed \in [Tickets -> SUBSET Lines] /\ picked \in [Tickets -> SUBSET Lines]
  /\ charged \in [Tickets -> (SUBSET Lines) \cup {Unpaid}]
  /\ fresh \subseteq {"checkout", "payment"} \X Tickets

ReplicaInit ==
  /\ log = <<[cart |-> {}, orders |-> [t \in Tickets |-> Nowhere]]>>
  /\ seen = 1
  /\ checkout = [t \in Tickets |-> "waiting"]
  /\ billed = [t \in Tickets |-> {}]
  /\ picked = [t \in Tickets |-> {}]
  /\ charged = [t \in Tickets |-> Unpaid]
  /\ fresh = {}

---------------------------------------------------------------------------

\* The buyer puts a line in the cart (add_item), while no checkout is running:
\* what happens otherwise is the subject of module Carts.
PutInCart(l) ==
  /\ \A i \in DOMAIN log : l \notin log[i].cart
  /\ \A t \in Tickets : checkout[t] \in {"waiting", "placed"}
  /\ log' = Append(log, [Latest EXCEPT !.cart = @ \cup {l}])
  /\ UNCHANGED <<seen, checkout, billed, picked, charged, fresh>>

\* The replica applies the next commit.
Replicate ==
  /\ seen < Len(log)
  /\ seen' = seen + 1
  /\ UNCHANGED <<log, checkout, billed, picked, charged, fresh>>

Reach(t, stage) == checkout' = [checkout EXCEPT ![t] = stage]

StillFresh(what, t, db) == IF CaughtUp(db) THEN fresh ELSE fresh \ {<<what, t>>}

\* cart.items.exists(); one checkout at a time.  An empty cart is refused.
CheckCart(t, db) ==
  /\ \A other \in Tickets : checkout[other] \in {"waiting", "placed"}
  /\ checkout[t] = "waiting"
  /\ Shown(db).cart # {}
  /\ Reach(t, "checked")
  /\ fresh' = IF CaughtUp(db) THEN fresh \cup {<<"checkout", t>>} ELSE fresh
  /\ UNCHANGED <<log, seen, billed, picked, charged>>

\* cart.subtotal()
BillCart(t, db) ==
  /\ checkout[t] = "checked"
  /\ Reach(t, "billed")
  /\ billed' = [billed EXCEPT ![t] = Shown(db).cart]
  /\ fresh' = StillFresh("checkout", t, db)
  /\ UNCHANGED <<log, seen, picked, charged>>

\* for item in cart.items.select_related(...)
PickLines(t, db) ==
  /\ checkout[t] = "billed"
  /\ Reach(t, "picked")
  /\ picked' = [picked EXCEPT ![t] = Shown(db).cart]
  /\ fresh' = StillFresh("checkout", t, db)
  /\ UNCHANGED <<log, seen, billed, charged>>

Placed(t, lines) == [cart |-> {}, orders |-> [Latest.orders EXCEPT ![t] = lines]]

PlaceLineByLine(t) ==
  /\ checkout[t] = "picked"
  /\ Reach(t, "placed")
  /\ \E l \in Lines :
       log' = log \o <<Placed(t, picked[t] \cap {l}), Placed(t, picked[t])>>
  /\ UNCHANGED <<seen, billed, picked, charged, fresh>>

\* The transaction commits: the order, its items, and the cart emptied.
Place(t) ==
  /\ checkout[t] = "picked"
  /\ Reach(t, "placed")
  /\ log' = Append(log, Placed(t, picked[t]))
  /\ UNCHANGED <<seen, billed, picked, charged, fresh>>

\* transition_status to PAID: the order is read with its lock, hence from the
\* primary, its items from either database.
Charge(t, db) ==
  /\ Latest.orders[t] # Nowhere
  /\ charged[t] = Unpaid
  /\ charged' = [charged EXCEPT ![t] = IF Shown(db).orders[t] = Nowhere THEN {}
                                       ELSE Shown(db).orders[t]]
  /\ fresh' = IF CaughtUp(db) THEN fresh \cup {<<"payment", t>>} ELSE fresh
  /\ UNCHANGED <<log, seen, checkout, billed, picked>>

ReplicaNext ==
  \/ \E l \in Lines : PutInCart(l)
  \/ Replicate
  \/ \E t \in Tickets :
       \/ \E db \in Databases :
            CheckCart(t, db) \/ BillCart(t, db) \/ PickLines(t, db) \/ Charge(t, db)
       \/ Place(t)

ReplicaSpec == ReplicaInit /\ [][ReplicaNext]_replicaVars

---------------------------------------------------------------------------
(* Property                                                                *)

\* Orders are whole as far as their reads were fresh.  A paid order was charged
\* all its items or none of them, and all of them if the payment read a caught-up
\* database.  An order whose checkout read caught-up databases has the price of
\* its items, and no line that an order before it has, even when that one was
\* made of stale reads (order and items commit together, the cart is emptied on
\* the primary).
WholeWhereReadsAreFresh ==
  \A t \in Tickets :
    LET ordered == Latest.orders[t] IN
    /\ charged[t] # Unpaid =>
         /\ charged[t] \in {{}, ordered}
         /\ <<"payment", t>> \in fresh => charged[t] = ordered
    /\ ordered # Nowhere /\ <<"checkout", t>> \in fresh =>
         /\ billed[t] = ordered /\ ordered # {}
         /\ \A i \in DOMAIN log, earlier \in Tickets :
              log[i].orders[t] = Nowhere /\ log[i].orders[earlier] # Nowhere =>
                ordered \cap log[i].orders[earlier] = {}
=============================================================================
