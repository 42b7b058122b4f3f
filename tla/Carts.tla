------------------------------- MODULE Carts -------------------------------
(***************************************************************************)
(* apps/cart with the checkout of apps/orders and apps/coupons, statement  *)
(* by statement: web workers serve requests of the owners of carts, and    *)
(* READ COMMITTED lets what other transactions commit show between two     *)
(* statements of one.                                                      *)
(*                                                                         *)
(* What holds a row lock from its first statement to its commit is split   *)
(* at the lock: LockLine and then the write, TakeCoupon and then the end   *)
(* of the checkout.  What a transaction writes shows only when it commits, *)
(* so a checkout writes everything in its last step; the stock rows that   *)
(* it locks there are in Inventory, here a reservation succeeds or not.    *)
(* exists() and subtotal() are one step: the value of the first is not     *)
(* used again.  A request that ends without a commit is Answer.            *)
(***************************************************************************)
EXTENDS Units

CONSTANTS
  Workers,       \* web workers: each serves one request at a time
  Owners,        \* users (guest carts are found by session key in the same way)
  Variants,      \* product variants
  MaxAvailable,  \* the most that get_available ever returns
  MaxUses,       \* Coupon.max_uses of the one coupon, 0 for no limit
  Nobody         \* not a worker, an owner or a variant

VARIABLES
  carts,        \* how many Cart rows each owner has
  quantity,     \* CartItem.quantity by owner, cart and variant, 0 without such a row
  gone,         \* the variants whose row in a cart is soft-deleted
  locked,       \* the worker holding the lock of each row (or of its unique key)
  request,      \* what each worker is doing
  wanted,       \* units put into carts minus units the owner took out again
  ordered,      \* units in orders
  rejected,     \* whether an add failed with an IntegrityError
  crossed,      \* the owners one of whose requests changed a cart while another
                \* of theirs was checking it out
  used,         \* Coupon.used_count
  holder,       \* the worker holding the lock of the coupon's row
  redeemed,     \* how many committed orders carry the coupon
  form,         \* the used_count a staff edit in progress has read
  overwritten   \* whether a staff edit saved another used_count than the current one

cartVars == <<carts, quantity, gone, locked, wanted, ordered, rejected, crossed>>
couponVars == <<used, holder, redeemed, form, overwritten>>
cartsVars == <<carts, quantity, gone, locked, request, wanted, ordered, rejected, crossed,
               used, holder, redeemed, form, overwritten>>

ASSUME CartsAssumption ==
  /\ IsFiniteSet(Workers)
  /\ Nobody \notin Workers \cup Owners \cup Variants
  /\ MaxAvailable \in Nat
  /\ MaxUses \in Nat

\* No more carts can come of one owner than requests that create one at once.
CartIds == 1..Cardinality(Workers)

NoItems == [v \in Variants |-> 0]
NoCoupon == -1
NoForm == -1

\* A request: the cart it is about, the line it has locked with the quantity
\* it read, the used_count it read, and in a checkout what was in the cart
\* when the subtotal was computed and when the order items were written.
Idle == [pc |-> "idle", owner |-> Nobody, cart |-> 0, variant |-> Nobody,
         seen |-> 0, uses |-> NoCoupon, quoted |-> NoItems, items |-> NoItems]

Contents == [Variants -> 0..MaxAvailable]

Requests ==
  [pc : {"idle", "creating", "ready", "line", "coupon", "reading", "reserving"},
   owner : Owners \cup {Nobody}, cart : {0} \cup CartIds, variant : Variants \cup {Nobody},
   seen : 0..MaxAvailable, uses : Nat \cup {NoCoupon}, quoted : Contents, items : Contents]

CartsTypeOK ==
  /\ carts \in [Owners -> 0..Cardinality(Workers)]
  /\ quantity \in [Owners -> [CartIds -> Contents]]
  /\ gone \in [Owners -> [CartIds -> SUBSET Variants]]
  /\ locked \in [Owners -> [CartIds -> [Variants -> Workers \cup {Nobody}]]]
  /\ request \in [Workers -> Requests]
  /\ wanted \in [Owners -> [Variants -> Int]]
  /\ ordered \in [Owners -> [Variants -> Nat]]
  /\ rejected \in BOOLEAN
  /\ crossed \subseteq Owners
  /\ used \in Nat
  /\ holder \in Workers \cup {Nobody}
  /\ redeemed \in Nat
  /\ form \in Nat \cup {NoForm}
  /\ overwritten \in BOOLEAN

CartsInit ==
  /\ carts = [u \in Owners |-> 0]
  /\ quantity = [u \in Owners |-> [c \in CartIds |-> NoItems]]
  /\ gone = [u \in Owners |-> [c \in CartIds |-> {}]]
  /\ locked = [u \in Owners |-> [c \in CartIds |-> [v \in Variants |-> Nobody]]]
  /\ request = [w \in Workers |-> Idle]
  /\ wanted = [u \in Owners |-> NoItems]
  /\ ordered = [u \in Owners |-> NoItems]
  /\ rejected = FALSE
  /\ crossed = {}
  /\ used = 0
  /\ holder = Nobody
  /\ redeemed = 0
  /\ form = NoForm
  /\ overwritten = FALSE

---------------------------------------------------------------------------
(* Requests                                                                *)

At(w, pc) == request[w].pc = pc

\* The rows of the cart that request w is about.
InCart(w) == quantity[request[w].owner][request[w].cart]
Deleted(w) == gone[request[w].owner][request[w].cart]
Locks(w) == locked[request[w].owner][request[w].cart]

CheckingOut == {"coupon", "reading", "reserving"}

\* Whether another request of the same owner is checking out the same cart.
BesideCheckout(w) ==
  \E x \in Workers \ {w} :
    /\ request[x].pc \in CheckingOut
    /\ request[x].owner = request[w].owner /\ request[x].cart = request[w].cart

\* Keeps the history of crossed, in a step that commits.
NoteCrossing(w) ==
  crossed' = IF quantity' # quantity /\ BesideCheckout(w)
             THEN crossed \cup {request[w].owner} ELSE crossed

\* get_or_create_cart: the SELECT.  With two carts it raises
\* MultipleObjectsReturned and the request ends having changed nothing.
Resolve(w, u) ==
  /\ At(w, "idle")
  /\ carts[u] <= 1
  /\ request' = [request EXCEPT ![w] =
       [Idle EXCEPT !.owner = u, !.cart = carts[u],
                    !.pc = IF carts[u] = 0 THEN "creating" ELSE "ready"]]
  /\ UNCHANGED <<cartVars, couponVars>>

\* get_or_create_cart: the INSERT.  No constraint keeps it from adding a
\* second cart, so it never falls back to reading the first.
Insert(w) ==
  /\ At(w, "creating")
  /\ LET u == request[w].owner IN
       /\ carts' = [carts EXCEPT ![u] = @ + 1]
       /\ request' = [request EXCEPT ![w].pc = "ready", ![w].cart = carts[u] + 1]
  /\ UNCHANGED <<quantity, gone, locked, wanted, ordered, rejected, crossed, couponVars>>

\* The request ends without a write: GET, a validation error, an item that is
\* not there, an empty cart at checkout.
Answer(w) ==
  /\ At(w, "ready")
  /\ request' = [request EXCEPT ![w] = Idle]
  /\ UNCHANGED <<cartVars, couponVars>>

---------------------------------------------------------------------------
(* Items                                                                   *)

LockLineUnlocked(w, v) ==
  /\ At(w, "ready")
  /\ v \notin Deleted(w)
  /\ locked' = [locked EXCEPT ![request[w].owner][request[w].cart][v] = w]
  /\ request' = [request EXCEPT ![w].pc = "line", ![w].variant = v, ![w].seen = InCart(w)[v]]
  /\ UNCHANGED <<carts, quantity, gone, wanted, ordered, rejected, crossed, couponVars>>

\* The SELECT ... FOR UPDATE of add_item and update_item, and the INSERT with
\* quantity 0 of add_item, which holds the unique key until it commits.
LockLine(w, v) ==
  /\ At(w, "ready")
  /\ v \notin Deleted(w)
  /\ Locks(w)[v] = Nobody
  /\ locked' = [locked EXCEPT ![request[w].owner][request[w].cart][v] = w]
  /\ request' = [request EXCEPT ![w].pc = "line", ![w].variant = v, ![w].seen = InCart(w)[v]]
  /\ UNCHANGED <<carts, quantity, gone, wanted, ordered, rejected, crossed, couponVars>>

\* add_item of a variant whose row is soft-deleted: the manager hides the row,
\* the INSERT hits unique_together, the second get finds nothing.
RejectAdd(w, v) ==
  /\ At(w, "ready")
  /\ v \in Deleted(w)
  /\ Locks(w)[v] = Nobody
  /\ rejected' = TRUE
  /\ request' = [request EXCEPT ![w] = Idle]
  /\ UNCHANGED <<carts, quantity, gone, locked, wanted, ordered, crossed, couponVars>>

\* The commit of a request that holds the lock of a line, with new units in it.
Save(w, new) ==
  LET r == request[w] IN
    /\ quantity' = [quantity EXCEPT ![r.owner][r.cart][r.variant] = new]
    /\ wanted' = [wanted EXCEPT ![r.owner][r.variant] = @ + new - r.seen]
    /\ locked' = [locked EXCEPT ![r.owner][r.cart][r.variant] = Nobody]
    /\ request' = [request EXCEPT ![w] = Idle]
    /\ NoteCrossing(w)
    /\ UNCHANGED <<carts, ordered, rejected, couponVars>>

AddUnchecked(w, q) ==
  /\ At(w, "line")
  /\ Save(w, request[w].seen + q)
  /\ UNCHANGED gone

\* add_item, at most as much as get_available says
AddItem(w, q) ==
  /\ At(w, "line")
  /\ request[w].seen + q <= MaxAvailable
  /\ Save(w, request[w].seen + q)
  /\ UNCHANGED gone

\* update_item of a row that exists
UpdateItem(w, q) ==
  /\ At(w, "line")
  /\ request[w].seen > 0
  /\ Save(w, q)
  /\ gone' = IF q > 0 THEN gone
             ELSE [gone EXCEPT ![request[w].owner][request[w].cart] =
                                  @ \cup {request[w].variant}]

\* OutOfStockError, or update_item of a row that does not exist: rolled back.
LineRefused(w) ==
  /\ At(w, "line")
  /\ Save(w, request[w].seen)
  /\ UNCHANGED gone

\* remove_item of an item of the owner's u cart c
Remove(w, u, c, v) ==
  /\ At(w, "ready")
  /\ quantity[u][c][v] > 0
  /\ locked[u][c][v] = Nobody
  /\ quantity' = [quantity EXCEPT ![u][c][v] = 0]
  /\ gone' = [gone EXCEPT ![u][c] = @ \cup {v}]
  /\ wanted' = [wanted EXCEPT ![u][v] = @ - quantity[u][c][v]]
  /\ NoteCrossing(w)
  /\ request' = [request EXCEPT ![w] = Idle]
  /\ UNCHANGED <<carts, locked, ordered, rejected, couponVars>>

\* remove_item: UPDATE ... SET deleted_at WHERE id AND cart
RemoveItem(w, v) == Remove(w, request[w].owner, request[w].cart, v)

\* cart.items.all().delete(): soft-deletes the rows that are there, and waits
\* for whoever has locked one of them.
EmptyCart(w) ==
  LET u == request[w].owner
      c == request[w].cart
      rows == {v \in Variants : quantity[u][c][v] > 0} IN
    /\ \A v \in rows : locked[u][c][v] = Nobody
    /\ quantity' = [quantity EXCEPT ![u][c] = NoItems]
    /\ gone' = [gone EXCEPT ![u][c] = @ \cup rows]

ClearCart(w) ==
  /\ At(w, "ready")
  /\ EmptyCart(w)
  /\ wanted' = [wanted EXCEPT ![request[w].owner] =
                  [v \in Variants |-> @[v] - InCart(w)[v]]]
  /\ NoteCrossing(w)
  /\ request' = [request EXCEPT ![w] = Idle]
  /\ UNCHANGED <<carts, locked, ordered, rejected, couponVars>>

---------------------------------------------------------------------------
(* Checkout: create_order_from_cart                                        *)

\* The cart is not empty, and its subtotal is computed; with a coupon or not.
BeginCheckout(w, next) ==
  /\ At(w, "ready")
  /\ InCart(w) # NoItems
  /\ request' = [request EXCEPT ![w].pc = next, ![w].quoted = InCart(w)]
  /\ UNCHANGED <<cartVars, couponVars>>

\* Coupon.is_valid_now, as far as the count decides it
ValidNow == MaxUses = 0 \/ used < MaxUses

TakeCouponUnlocked(w) ==
  /\ At(w, "coupon")
  /\ ValidNow
  /\ holder' = w
  /\ request' = [request EXCEPT ![w].pc = "reading", ![w].uses = used]
  /\ UNCHANGED <<cartVars, used, redeemed, form, overwritten>>

\* The coupon's row is locked, and valid.
TakeCoupon(w) ==
  /\ At(w, "coupon")
  /\ holder = Nobody
  /\ ValidNow
  /\ holder' = w
  /\ request' = [request EXCEPT ![w].pc = "reading", ![w].uses = used]
  /\ UNCHANGED <<cartVars, used, redeemed, form, overwritten>>

ReadItemsOfOwner(w) ==
  /\ At(w, "reading")
  /\ \E c \in CartIds : request' =
       [request EXCEPT ![w].pc = "reserving", ![w].items = quantity[request[w].owner][c]]
  /\ UNCHANGED <<cartVars, couponVars>>

\* The loop's query over the items of the cart.
ReadItems(w) ==
  /\ At(w, "reading")
  /\ request' = [request EXCEPT ![w].pc = "reserving", ![w].items = InCart(w)]
  /\ UNCHANGED <<cartVars, couponVars>>

Released(w) == IF holder = w THEN Nobody ELSE holder

\* Everything is reserved: the coupon is counted, the cart is emptied, and
\* the transaction commits.
Finish(w) ==
  /\ At(w, "reserving")
  /\ ordered' = [ordered EXCEPT ![request[w].owner] =
                   [v \in Variants |-> @[v] + request[w].items[v]]]
  /\ IF request[w].uses = NoCoupon
       THEN UNCHANGED <<used, redeemed>>
       ELSE used' = request[w].uses + 1 /\ redeemed' = redeemed + 1
  /\ EmptyCart(w)
  /\ NoteCrossing(w)
  /\ holder' = Released(w)
  /\ request' = [request EXCEPT ![w] = Idle]
  /\ UNCHANGED <<carts, locked, wanted, rejected, form, overwritten>>

\* CheckoutError, OutOfStockError, a deadlock victim, a worker that dies.
Rollback(w) ==
  /\ request[w].pc \in CheckingOut
  /\ holder' = Released(w)
  /\ request' = [request EXCEPT ![w] = Idle]
  /\ UNCHANGED <<cartVars, used, redeemed, form, overwritten>>

---------------------------------------------------------------------------
(* Staff: CouponViewSet.update and the admin form read the coupon without  *)
(* a lock and write back every column of it, used_count included.          *)

StaffOpen ==
  /\ form = NoForm
  /\ form' = used
  /\ UNCHANGED <<cartVars, request, used, holder, redeemed, overwritten>>

StaffSave ==
  /\ form # NoForm
  /\ holder = Nobody
  /\ used' = form
  /\ overwritten' = (overwritten \/ form # used)
  /\ form' = NoForm
  /\ UNCHANGED <<cartVars, request, holder, redeemed>>

---------------------------------------------------------------------------

Work(w) ==
  \/ \E u \in Owners : Resolve(w, u)
  \/ Insert(w)
  \/ Answer(w)
  \/ \E v \in Variants : LockLine(w, v) \/ RejectAdd(w, v) \/ RemoveItem(w, v)
  \/ \E q \in 1..MaxAvailable : AddItem(w, q)
  \/ \E q \in 0..MaxAvailable : UpdateItem(w, q)
  \/ LineRefused(w)
  \/ ClearCart(w)
  \/ \E next \in {"coupon", "reading"} : BeginCheckout(w, next)
  \/ TakeCoupon(w)
  \/ ReadItems(w)
  \/ Finish(w)
  \/ Rollback(w)

CartsNext ==
  \/ \E w \in Workers : Work(w)
  \/ StaffOpen
  \/ StaffSave

CartsSpec == CartsInit /\ [][CartsNext]_cartsVars

---------------------------------------------------------------------------
(* Properties                                                              *)

\* The coupon is used no more often than max_uses allows, whatever checkouts
\* run at once, as long as no staff edit has written back an old used_count:
\* is_valid_now is asked, and used_count counted, under one row lock.
CouponWithinLimit == MaxUses > 0 /\ ~overwritten => redeemed <= MaxUses

\* Every unit an owner puts into the cart, and does not take out again, is in
\* the cart or in one order: no add is lost to a concurrent one, no item
\* disappears at a checkout that did not order it, none is ordered twice.  Only a
\* change of the cart between the first and the last statement of a checkout,
\* a second checkout included, can upset this: nothing locks the cart
\* (add_item, update_item, create_order_from_cart).
UnitsAreOrderedOnce ==
  \A u \in Owners \ crossed, v \in Variants :
    wanted[u][v] = Total([c \in CartIds |-> quantity[u][c][v]]) + ordered[u][v]

\* An order's items are what its subtotal was computed from, though the sum and
\* the items come from two queries, unless another request of the owner has
\* changed the cart during a checkout (create_order_from_cart).
QuotedIsOrdered ==
  \A w \in Workers : At(w, "reserving") /\ request[w].owner \notin crossed =>
    request[w].items = request[w].quoted

\* apps/cart/views.py: "A single 'me' cart per user/session."
SingleCart == \A u \in Owners : carts[u] <= 1

\* apps/cart/views.py: "POST /cart/items/ -> add item": posting an item adds it
\* or is refused for want of stock, it does not fail on a unique constraint.
AddItemAdds == ~rejected
=============================================================================
