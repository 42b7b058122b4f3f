---------------------------- MODULE CartsProofs ----------------------------
(***************************************************************************)
(* The safety properties of Carts for any number of workers, owners and    *)
(* variants.  A step writes one request; Fits says what a request knows at *)
(* each of its stages, Creators why there is an id for each cart.          *)
(***************************************************************************)
EXTENDS Carts, UnitsProofs

Fits(r) ==
  /\ r \in Requests
  /\ r.pc # "idle" => r.owner \in Owners
  /\ r.pc \notin {"idle", "creating"} => r.cart \in CartIds
  /\ r.pc = "line" => r.variant \in Variants

Creators(u) == {w \in Workers : request[w].pc = "creating" /\ request[w].owner = u}

Stages == \A w \in Workers : Fits(request[w])
RoomForCarts == \A u \in Owners : carts[u] + Cardinality(Creators(u)) <= Cardinality(Workers)

Typed == CartsTypeOK /\ Stages /\ RoomForCarts

LEMMA WorkerCount == Cardinality(Workers) \in Nat
BY CartsAssumption, FS_CardinalityType

LEMMA CreatorCount ==
  ASSUME NEW u
  PROVE  Cardinality(Creators(u)) \in Nat /\ Cardinality(Creators(u)) <= Cardinality(Workers)
<1>1. Creators(u) \subseteq Workers
  BY DEF Creators
<1> QED
  BY <1>1, CartsAssumption, FS_Subset, FS_CardinalityType

LEMMA IdleFits == Fits(Idle)
<1>1. NoItems \in Contents
  BY CartsAssumption DEF NoItems, Contents
<1> QED
  BY <1>1, CartsAssumption DEF Fits, Idle, Requests, NoCoupon

LEMMA InitTyped == CartsInit => Typed
<1> SUFFICES ASSUME CartsInit
             PROVE  Typed
  OBVIOUS
<1>1. NoItems \in Contents /\ NoItems \in [Variants -> Int] /\ NoItems \in [Variants -> Nat]
  BY CartsAssumption DEF NoItems, Contents
<1>2. request \in [Workers -> Requests] /\ Stages
  BY IdleFits DEF CartsInit, Stages, Fits
<1>3. carts \in [Owners -> 0..Cardinality(Workers)] /\ RoomForCarts
  <2>1. \A u \in Owners : carts[u] = 0
    BY DEF CartsInit
  <2> QED
    BY <2>1, WorkerCount, CreatorCount DEF CartsInit, RoomForCarts
<1>4. CartsTypeOK
  BY <1>1, <1>2, <1>3 DEF CartsInit, CartsTypeOK, NoForm
<1> QED
  BY <1>2, <1>3, <1>4 DEF Typed

---------------------------------------------------------------------------
(* Requests                                                                *)

LEMMA RequestFits ==
  ASSUME Typed, NEW w \in Workers, Work(w)
  PROVE  /\ Fits(request'[w])
         /\ request' = [request EXCEPT ![w] = request'[w]]
<1> DEFINE r == request[w]
           Written(e) == Fits(e) /\ request' = [request EXCEPT ![w] = e]
<1> SUFFICES \E e : Written(e)
  BY DEF Typed, CartsTypeOK
<1>1. r \in Requests /\ Fits(r)
  BY DEF Typed, CartsTypeOK, Stages
<1>2. \A u \in Owners : carts[u] \in 0..Cardinality(Workers)
  BY DEF Typed, CartsTypeOK
<1>3. \A u \in Owners, c \in CartIds :
        /\ quantity[u][c] \in Contents
        /\ \A v \in Variants : quantity[u][c][v] \in 0..MaxAvailable
  BY DEF Typed, CartsTypeOK, Contents
<1>4. \A n \in Nat : n >= 1 /\ n <= Cardinality(Workers) => n \in CartIds
  BY WorkerCount DEF CartIds
<1>5. CASE request' = [request EXCEPT ![w] = Idle]
  BY <1>5, IdleFits
<1>6. ASSUME NEW u \in Owners, Resolve(w, u)
      PROVE  \E e : Written(e)
  <2> DEFINE e == [Idle EXCEPT !.owner = u, !.cart = carts[u],
                               !.pc = IF carts[u] = 0 THEN "creating" ELSE "ready"]
  <2>1. carts[u] = 0 \/ carts[u] \in CartIds
    BY <1>2, <1>4, WorkerCount
  <2>2. Fits(e)
    BY <2>1, IdleFits DEF Fits, Idle, Requests
  <2> QED
    BY <1>6, <2>2 DEF Resolve
<1>7. CASE Insert(w)
  <2> DEFINE u == r.owner
             e == [r EXCEPT !.pc = "ready", !.cart = carts[u] + 1]
  <2>1. u \in Owners
    BY <1>1, <1>7 DEF Insert, At, Fits
  <2>2. carts[u] + 1 \in CartIds
    <3>1. w \in Creators(u)
      BY <1>7 DEF Insert, At, Creators
    <3>2. Cardinality(Creators(u)) # 0
      BY <3>1, CartsAssumption, FS_Subset, FS_EmptySet DEF Creators
    <3> QED
      BY <1>2, <1>4, <2>1, <3>2, CreatorCount, WorkerCount DEF Typed, RoomForCarts
  <2>3. Fits(e)
    BY <1>1, <2>1, <2>2 DEF Fits, Requests
  <2>4. request' = [request EXCEPT ![w] = e]
    BY <1>7 DEF Insert
  <2> QED
    BY <2>3, <2>4
<1>8. ASSUME NEW v \in Variants, LockLine(w, v)
      PROVE  \E e : Written(e)
  <2> DEFINE e == [r EXCEPT !.pc = "line", !.variant = v, !.seen = InCart(w)[v]]
  <2>1. InCart(w)[v] \in 0..MaxAvailable
    BY <1>1, <1>3, <1>8 DEF LockLine, At, Fits, InCart
  <2>2. Fits(e)
    BY <1>1, <1>8, <2>1 DEF LockLine, At, Fits, Requests
  <2>3. request' = [request EXCEPT ![w] = e]
    BY <1>8 DEF LockLine
  <2> QED
    BY <2>2, <2>3
<1>9. ASSUME NEW next \in {"coupon", "reading"}, BeginCheckout(w, next)
      PROVE  \E e : Written(e)
  <2> DEFINE e == [r EXCEPT !.pc = next, !.quoted = InCart(w)]
  <2>0. r.owner \in Owners /\ r.cart \in CartIds
    BY <1>1, <1>9 DEF BeginCheckout, At, Fits
  <2>1. InCart(w) \in Contents
    BY <1>3, <2>0 DEF InCart
  <2>2. Fits(e)
    BY <1>1, <1>9, <2>1 DEF BeginCheckout, At, Fits, Requests
  <2>3. request' = [request EXCEPT ![w] = e]
    BY <1>9 DEF BeginCheckout
  <2> QED
    BY <2>2, <2>3
<1>10. CASE TakeCoupon(w)
  <2> DEFINE e == [r EXCEPT !.pc = "reading", !.uses = used]
  <2>1. Fits(e)
    BY <1>1, <1>10 DEF TakeCoupon, At, Fits, Requests, Typed, CartsTypeOK
  <2>2. request' = [request EXCEPT ![w] = e]
    BY <1>10 DEF TakeCoupon
  <2> QED
    BY <2>1, <2>2
<1>11. CASE ReadItems(w)
  <2> DEFINE e == [r EXCEPT !.pc = "reserving", !.items = InCart(w)]
  <2>0. r.owner \in Owners /\ r.cart \in CartIds
    BY <1>1, <1>11 DEF ReadItems, At, Fits
  <2>1. InCart(w) \in Contents
    BY <1>3, <2>0 DEF InCart
  <2>2. Fits(e)
    BY <1>1, <1>11, <2>1 DEF ReadItems, At, Fits, Requests
  <2>3. request' = [request EXCEPT ![w] = e]
    BY <1>11 DEF ReadItems
  <2> QED
    BY <2>2, <2>3
<1> QED
  BY <1>5, <1>6, <1>7, <1>8, <1>9, <1>10, <1>11
     DEF Work, Answer, RejectAdd, RemoveItem, Remove, AddItem, UpdateItem, LineRefused, Save,
         ClearCart, Finish, Rollback

LEMMA CreatorsChange ==
  ASSUME Typed, NEW w \in Workers, Work(w), NEW u \in Owners
  PROVE  carts'[u] + Cardinality(Creators(u)') <= Cardinality(Workers)
<1> DEFINE C == Creators(u)
           D == Creators(u)'
<1>1. /\ carts[u] \in Nat /\ Cardinality(C) \in Nat /\ Cardinality(Workers) \in Nat
      /\ carts[u] + Cardinality(C) <= Cardinality(Workers)
      /\ carts \in [Owners -> 0..Cardinality(Workers)]
  BY CreatorCount, WorkerCount DEF Typed, CartsTypeOK, RoomForCarts
<1>2. request \in [Workers -> Requests] /\ Fits(request[w])
  BY DEF Typed, CartsTypeOK, Stages
<1>3. \A x \in Workers \ {w} : request'[x] = request[x]
  BY RequestFits, <1>2
<1>4. IsFiniteSet(C) /\ IsFiniteSet(D)
  BY CartsAssumption, FS_Subset DEF Creators
<1>5. CASE Resolve(w, u)
  <2>1. D \subseteq Workers /\ UNCHANGED carts
    BY <1>5 DEF Creators, Resolve, cartVars
  <2>2. Cardinality(D) \in Nat /\ Cardinality(D) <= Cardinality(Workers)
    BY <2>1, CartsAssumption, FS_Subset, FS_CardinalityType
  <2>3. CASE carts[u] = 0
    BY <1>1, <2>1, <2>2, <2>3
  <2>4. CASE carts[u] # 0
    <3>1. request'[w].pc = "ready" /\ request[w].pc = "idle"
      BY <1>2, <1>5, <2>4 DEF Resolve, At, Idle
    <3>2. D = C
      BY <1>3, <3>1 DEF Creators
    <3> QED
      BY <1>1, <2>1, <3>2
  <2> QED
    BY <2>3, <2>4
<1>6. ASSUME NEW v \in Owners \ {u}, Resolve(w, v)
      PROVE  C = D /\ carts' = carts
  <2>1. request[w].pc = "idle" /\ request'[w].owner = v /\ carts' = carts
    BY <1>2, <1>6 DEF Resolve, At, Idle, cartVars
  <2> QED
    BY <1>3, <2>1 DEF Creators
<1>7. CASE Insert(w)
  <2>1. request[w].pc = "creating" /\ request'[w].pc = "ready" /\ request[w].owner \in Owners
    BY <1>2, <1>7 DEF Insert, At, Fits, Requests
  <2>2. CASE request[w].owner = u
    <3>1. D = C \ {w} /\ w \in C
      BY <1>3, <2>1, <2>2 DEF Creators
    <3>2. Cardinality(D) = Cardinality(C) - 1
      BY <1>4, <3>1, FS_RemoveElement
    <3>3. carts'[u] = carts[u] + 1
      BY <1>1, <1>7, <2>2 DEF Insert
    <3> QED
      BY <1>1, <3>2, <3>3
  <2>3. CASE request[w].owner # u
    <3>1. D = C
      BY <1>3, <2>1, <2>3 DEF Creators
    <3>2. carts'[u] = carts[u]
      BY <1>1, <1>7, <2>1, <2>3 DEF Insert
    <3> QED
      BY <1>1, <3>1, <3>2
  <2> QED
    BY <2>2, <2>3
<1>8. ASSUME request[w].pc \notin {"idle", "creating"}
      PROVE  C = D /\ carts' = carts
  <2>1. carts' = carts
    BY <1>8 DEF Work, Resolve, Insert, Answer, LockLine, RejectAdd, RemoveItem, Remove, AddItem,
                UpdateItem, LineRefused, Save, ClearCart, BeginCheckout, TakeCoupon, ReadItems,
                Finish, Rollback, cartVars, At
  <2>2. request'[w].pc # "creating"
    <3>1. CASE request' = [request EXCEPT ![w] = Idle]
      BY <1>2, <3>1 DEF Idle
    <3>2. ASSUME NEW v \in Variants, LockLine(w, v)
          PROVE  request'[w].pc # "creating"
      BY <1>2, <3>2 DEF LockLine, Requests
    <3>3. ASSUME NEW next \in {"coupon", "reading"}, BeginCheckout(w, next)
          PROVE  request'[w].pc # "creating"
      BY <1>2, <3>3 DEF BeginCheckout, Requests
    <3>4. CASE TakeCoupon(w)
      BY <1>2, <3>4 DEF TakeCoupon, Requests
    <3>5. CASE ReadItems(w)
      BY <1>2, <3>5 DEF ReadItems, Requests
    <3> QED
      BY <1>8, <3>1, <3>2, <3>3, <3>4, <3>5
         DEF Work, Resolve, Insert, Answer, RejectAdd, RemoveItem, Remove, AddItem, UpdateItem,
             LineRefused, Save, ClearCart, Finish, Rollback, At
  <2> QED
    BY <1>3, <1>8, <2>1, <2>2 DEF Creators
<1>9. CASE request[w].pc = "idle"
  <2>1. \E v \in Owners : Resolve(w, v)
    BY <1>9 DEF Work, Resolve, Insert, Answer, LockLine, RejectAdd, RemoveItem, Remove, AddItem,
                UpdateItem, LineRefused, Save, ClearCart, BeginCheckout, TakeCoupon, ReadItems,
                Finish, Rollback, At, CheckingOut
  <2> QED
    BY <1>1, <1>5, <1>6, <2>1
<1>10. CASE request[w].pc = "creating"
  <2>1. Insert(w)
    BY <1>10 DEF Work, Resolve, Insert, Answer, LockLine, RejectAdd, RemoveItem, Remove, AddItem,
                UpdateItem, LineRefused, Save, ClearCart, BeginCheckout, TakeCoupon, ReadItems,
                Finish, Rollback, At, CheckingOut
  <2> QED
    BY <1>7, <2>1
<1> QED
  BY <1>1, <1>8, <1>9, <1>10

---------------------------------------------------------------------------
(* Carts                                                                   *)

LEMMA Update2 ==
  ASSUME NEW A, NEW B, NEW D, NEW f \in [A -> [B -> D]], NEW a \in A, NEW b \in B, NEW d \in D
  PROVE  /\ [f EXCEPT ![a][b] = d] \in [A -> [B -> D]]
         /\ \A x \in A, y \in B :
              [f EXCEPT ![a][b] = d][x][y] = IF x = a /\ y = b THEN d ELSE f[x][y]
OBVIOUS

Quantities == [Owners -> [CartIds -> Contents]]

\* What a step makes of carts: the line v of cart c holds n units now, or the
\* cart holds nothing any more.
LineIs(o, c, v, n) ==
  /\ quantity' \in Quantities
  /\ \A p \in Owners, d \in CartIds, x \in Variants :
       quantity'[p][d][x] = IF p = o /\ d = c /\ x = v THEN n ELSE quantity[p][d][x]

CartIsEmpty(o, c) ==
  /\ quantity' \in Quantities
  /\ \A p \in Owners, d \in CartIds, x \in Variants :
       quantity'[p][d][x] = IF p = o /\ d = c THEN 0 ELSE quantity[p][d][x]

LEMMA LineWritten ==
  ASSUME quantity \in Quantities,
         NEW o \in Owners, NEW c \in CartIds, NEW v \in Variants, NEW n \in 0..MaxAvailable,
         quantity' = [quantity EXCEPT ![o][c][v] = n]
  PROVE  LineIs(o, c, v, n)
<1>1. quantity \in [Owners -> [CartIds -> [Variants -> 0..MaxAvailable]]]
  BY DEF Quantities, Contents
<1>2. quantity' \in [Owners -> [CartIds -> [Variants -> 0..MaxAvailable]]]
  BY <1>1
<1>3. \A p \in Owners, d \in CartIds, x \in Variants :
        quantity'[p][d][x] = IF p = o /\ d = c /\ x = v THEN n ELSE quantity[p][d][x]
  BY <1>1
<1> QED
  BY <1>2, <1>3 DEF LineIs, Quantities, Contents

LEMMA SaveEffect ==
  ASSUME Typed, NEW w \in Workers, At(w, "line"), NEW n \in 0..MaxAvailable, Save(w, n)
  PROVE  /\ request[w].owner \in Owners
         /\ request[w].cart \in CartIds
         /\ request[w].variant \in Variants
         /\ request[w].seen \in 0..MaxAvailable
         /\ LineIs(request[w].owner, request[w].cart, request[w].variant, n)
<1>1. /\ request[w].owner \in Owners
      /\ request[w].cart \in CartIds
      /\ request[w].variant \in Variants
      /\ request[w].seen \in 0..MaxAvailable
  BY DEF Typed, Stages, Fits, Requests, At
<1>2. quantity \in Quantities
  BY DEF Typed, CartsTypeOK, Quantities
<1> QED
  BY <1>1, <1>2, LineWritten DEF Save

LEMMA RemoveEffect ==
  ASSUME Typed, NEW w \in Workers, NEW v \in Variants, RemoveItem(w, v)
  PROVE  /\ request[w].owner \in Owners
         /\ request[w].cart \in CartIds
         /\ LineIs(request[w].owner, request[w].cart, v, 0)
<1>1. request[w].owner \in Owners /\ request[w].cart \in CartIds
  BY DEF Typed, Stages, Fits, RemoveItem, Remove, At
<1>2. quantity \in Quantities /\ 0 \in 0..MaxAvailable
  BY CartsAssumption DEF Typed, CartsTypeOK, Quantities
<1> QED
  BY <1>1, <1>2, LineWritten DEF RemoveItem, Remove

LEMMA EmptyEffect ==
  ASSUME Typed, NEW w \in Workers, request[w].pc \notin {"idle", "creating"}, EmptyCart(w)
  PROVE  /\ request[w].owner \in Owners
         /\ request[w].cart \in CartIds
         /\ CartIsEmpty(request[w].owner, request[w].cart)
         /\ gone' \in [Owners -> [CartIds -> SUBSET Variants]]
<1> DEFINE o == request[w].owner
           c == request[w].cart
           rows == {v \in Variants : quantity[o][c][v] > 0}
<1>1. o \in Owners /\ c \in CartIds
  BY DEF Typed, Stages, Fits
<1>2. quantity \in Quantities /\ gone \in [Owners -> [CartIds -> SUBSET Variants]]
  BY DEF Typed, CartsTypeOK, Quantities
<1>3. /\ quantity' = [quantity EXCEPT ![o][c] = NoItems]
      /\ gone' = [gone EXCEPT ![o][c] = gone[o][c] \cup rows]
  BY DEF EmptyCart
<1>4. NoItems \in Contents /\ \A v \in Variants : NoItems[v] = 0
  BY CartsAssumption DEF NoItems, Contents
<1>5. gone[o][c] \cup rows \in SUBSET Variants
  BY <1>1, <1>2
<1> HIDE DEF o, c, rows
<1>6. quantity' \in Quantities
  BY <1>1, <1>2, <1>3, <1>4, Update2 DEF Quantities
<1>7. \A p \in Owners, d \in CartIds, x \in Variants :
        quantity'[p][d][x] = IF p = o /\ d = c THEN 0 ELSE quantity[p][d][x]
  <2>1. \A p \in Owners, d \in CartIds :
          quantity'[p][d] = IF p = o /\ d = c THEN NoItems ELSE quantity[p][d]
    BY <1>1, <1>2, <1>3, <1>4, Update2 DEF Quantities
  <2> QED
    BY <1>4, <2>1
<1>8. gone' \in [Owners -> [CartIds -> SUBSET Variants]]
  BY <1>1, <1>2, <1>3, <1>5, Update2
<1> QED
  BY <1>1, <1>6, <1>7, <1>8 DEF CartIsEmpty, o, c

---------------------------------------------------------------------------
(* Types                                                                   *)

CartsTyped ==
  /\ carts \in [Owners -> Nat]
  /\ quantity \in Quantities
  /\ gone \in [Owners -> [CartIds -> SUBSET Variants]]
  /\ locked \in [Owners -> [CartIds -> [Variants -> Workers \cup {Nobody}]]]
  /\ wanted \in [Owners -> [Variants -> Int]]
  /\ ordered \in [Owners -> [Variants -> Nat]]
  /\ rejected \in BOOLEAN

CouponTyped ==
  /\ used \in Nat
  /\ holder \in Workers \cup {Nobody}
  /\ redeemed \in Nat
  /\ form \in Nat \cup {NoForm}
  /\ overwritten \in BOOLEAN

LEMMA TypedParts == Typed => CartsTyped /\ CouponTyped
<1>1. \A n \in 0..Cardinality(Workers) : n \in Nat
  BY WorkerCount
<1> QED
  BY <1>1 DEF Typed, CartsTypeOK, CartsTyped, CouponTyped, Quantities

LEMMA LineTyped ==
  ASSUME Typed, NEW w \in Workers, At(w, "line"), NEW n \in 0..MaxAvailable, Save(w, n),
         gone' \in [Owners -> [CartIds -> SUBSET Variants]]
  PROVE  CartsTyped' /\ CouponTyped'
<1> USE TypedParts DEF CartsTyped, CouponTyped
<1>1. /\ request[w].owner \in Owners
      /\ request[w].cart \in CartIds
      /\ request[w].variant \in Variants
      /\ request[w].seen \in Int /\ n \in Int
      /\ quantity' \in Quantities
  BY SaveEffect DEF LineIs
<1> DEFINE o == request[w].owner
           c == request[w].cart
           v == request[w].variant
           m == request[w].seen
<1>2. /\ locked' = [locked EXCEPT ![o][c][v] = Nobody]
      /\ wanted' = [wanted EXCEPT ![o][v] = @ + n - m]
      /\ UNCHANGED <<carts, ordered, rejected, couponVars>>
  BY DEF Save
<1>3. o \in Owners /\ c \in CartIds /\ v \in Variants /\ m \in Int
  BY <1>1
<1> HIDE DEF o, c, v, m
<1>4. locked' \in [Owners -> [CartIds -> [Variants -> Workers \cup {Nobody}]]]
  BY <1>2, <1>3
<1>5. wanted' \in [Owners -> [Variants -> Int]]
  <2>1. wanted[o][v] + n - m \in Int
    BY <1>1, <1>3
  <2> QED
    BY <1>2, <1>3, <2>1
<1> QED
  BY <1>1, <1>2, <1>4, <1>5 DEF couponVars

LEMMA WorkTyped ==
  ASSUME Typed, NEW w \in Workers, Work(w)
  PROVE  CartsTyped' /\ CouponTyped'
<1> DEFINE o == request[w].owner
           c == request[w].cart
<1> USE TypedParts DEF CartsTyped, CouponTyped
<1>1. ASSUME request[w].pc \notin {"idle", "creating"}
      PROVE  o \in Owners /\ c \in CartIds
  BY <1>1 DEF Typed, Stages, Fits
<1>2. CASE UNCHANGED <<cartVars, couponVars>>
  BY <1>2 DEF cartVars, couponVars
<1>3. CASE Insert(w)
  <2>1. o \in Owners
    BY <1>3 DEF Insert, At, Typed, Stages, Fits
  <2>2. carts' = [carts EXCEPT ![o] = @ + 1]
    BY <1>3 DEF Insert
  <2>3. carts' \in [Owners -> Nat]
    BY <2>1, <2>2
  <2> QED
    BY <1>3, <2>3 DEF Insert, couponVars
<1>4. ASSUME NEW v \in Variants, LockLine(w, v)
      PROVE  CartsTyped' /\ CouponTyped'
  <2>1. o \in Owners /\ c \in CartIds
    BY <1>1, <1>4 DEF LockLine, At
  <2>2. locked' = [locked EXCEPT ![o][c][v] = w]
    BY <1>4 DEF LockLine
  <2> HIDE DEF o, c
  <2>3. locked' \in [Owners -> [CartIds -> [Variants -> Workers \cup {Nobody}]]]
    BY <2>1, <2>2
  <2> QED
    BY <1>4, <2>3 DEF LockLine, couponVars
<1>5. ASSUME NEW v \in Variants, RejectAdd(w, v)
      PROVE  CartsTyped' /\ CouponTyped'
  BY <1>5 DEF RejectAdd, couponVars
<1>6. ASSUME NEW v \in Variants, RemoveItem(w, v)
      PROVE  CartsTyped' /\ CouponTyped'
  <2>1. o \in Owners /\ c \in CartIds
    BY <1>1, <1>6 DEF RemoveItem, Remove, At
  <2>2. /\ gone' = [gone EXCEPT ![o][c] = @ \cup {v}]
        /\ wanted' = [wanted EXCEPT ![o][v] = @ - quantity[o][c][v]]
        /\ UNCHANGED <<carts, locked, ordered, rejected, couponVars>>
    BY <1>6 DEF RemoveItem, Remove
  <2>3. quantity' \in Quantities
    BY <1>6, RemoveEffect DEF LineIs
  <2> HIDE DEF o, c
  <2>4. gone' \in [Owners -> [CartIds -> SUBSET Variants]]
    BY <2>1, <2>2
  <2>5. quantity[o][c][v] \in Int /\ wanted[o][v] - quantity[o][c][v] \in Int
    BY <2>1 DEF Quantities, Contents
  <2>6. wanted' \in [Owners -> [Variants -> Int]]
    BY <2>1, <2>2, <2>5
  <2> QED
    BY <2>2, <2>3, <2>4, <2>6 DEF couponVars
<1>7. ASSUME NEW q \in 0..MaxAvailable, AddItem(w, q) \/ UpdateItem(w, q) \/ LineRefused(w)
      PROVE  CartsTyped' /\ CouponTyped'
  <2>1. At(w, "line") /\ o \in Owners /\ c \in CartIds
    BY <1>1, <1>7 DEF AddItem, UpdateItem, LineRefused, At
  <2>2. request[w].variant \in Variants /\ request[w].seen \in 0..MaxAvailable
    BY <2>1 DEF At, Typed, Stages, Fits, Requests
  <2>3. gone' \in [Owners -> [CartIds -> SUBSET Variants]]
    <3>1. CASE UNCHANGED gone
      BY <3>1
    <3>2. CASE gone' = [gone EXCEPT ![o][c] = @ \cup {request[w].variant}]
      <4> HIDE DEF o, c
      <4> QED
        BY <2>1, <2>2, <3>2
    <3> QED
      BY <1>7, <3>1, <3>2 DEF AddItem, UpdateItem, LineRefused
  <2>4. \E n \in 0..MaxAvailable : Save(w, n)
    <3>1. CASE AddItem(w, q)
      <4>1. request[w].seen + q \in 0..MaxAvailable
        BY <2>2, <3>1, CartsAssumption DEF AddItem
      <4> QED
        BY <3>1, <4>1 DEF AddItem
    <3> QED
      BY <1>7, <2>2, <3>1 DEF UpdateItem, LineRefused
  <2> QED
    BY <2>1, <2>3, <2>4, LineTyped
<1>8. CASE ClearCart(w)
  <2>1. o \in Owners /\ c \in CartIds /\ request[w].pc \notin {"idle", "creating"}
    BY <1>1, <1>8 DEF ClearCart, At
  <2>2. /\ wanted' = [wanted EXCEPT ![o] = [v \in Variants |-> @[v] - quantity[o][c][v]]]
        /\ UNCHANGED <<carts, locked, ordered, rejected, couponVars>>
    BY <1>8 DEF ClearCart, InCart
  <2>3. quantity' \in Quantities /\ gone' \in [Owners -> [CartIds -> SUBSET Variants]]
    BY <1>8, <2>1, EmptyEffect DEF ClearCart, CartIsEmpty
  <2> HIDE DEF o, c
  <2>4. [v \in Variants |-> wanted[o][v] - quantity[o][c][v]] \in [Variants -> Int]
    BY <2>1 DEF Quantities, Contents
  <2>5. wanted' \in [Owners -> [Variants -> Int]]
    BY <2>1, <2>2, <2>4
  <2> QED
    BY <2>2, <2>3, <2>5 DEF couponVars
<1>9. CASE TakeCoupon(w) \/ Rollback(w)
  BY <1>9 DEF TakeCoupon, Rollback, Released, cartVars
<1>10. CASE Finish(w)
  <2>1. o \in Owners /\ c \in CartIds /\ request[w].pc \notin {"idle", "creating"}
    BY <1>1, <1>10 DEF Finish, At
  <2>2. request[w].items \in Contents /\ request[w].uses \in Nat \cup {NoCoupon}
    BY DEF Typed, Stages, Fits, Requests
  <2>3. /\ ordered' = [ordered EXCEPT ![o] = [v \in Variants |-> @[v] + request[w].items[v]]]
        /\ UNCHANGED <<carts, locked, wanted, rejected, form, overwritten>>
        /\ holder' = Released(w)
        /\ EmptyCart(w)
    BY <1>10 DEF Finish
  <2>4. used' \in Nat /\ redeemed' \in Nat
    BY <1>10, <2>2 DEF Finish
  <2>5. quantity' \in Quantities /\ gone' \in [Owners -> [CartIds -> SUBSET Variants]]
    BY <2>1, <2>3, EmptyEffect DEF CartIsEmpty
  <2>6. [v \in Variants |-> ordered[o][v] + request[w].items[v]] \in [Variants -> Nat]
    <3> HIDE DEF o
    <3> QED
      BY <2>1, <2>2 DEF Contents
  <2>7. ordered' \in [Owners -> [Variants -> Nat]]
    <3> HIDE DEF o
    <3> QED
      BY <2>1, <2>3, <2>6
  <2> QED
    BY <2>3, <2>4, <2>5, <2>7 DEF Released
<1>11. ASSUME \/ \E q \in 1..MaxAvailable : AddItem(w, q)
              \/ \E q \in 0..MaxAvailable : UpdateItem(w, q)
              \/ LineRefused(w)
       PROVE  CartsTyped' /\ CouponTyped'
  <2>1. 0 \in 0..MaxAvailable /\ 1..MaxAvailable \subseteq 0..MaxAvailable
    BY CartsAssumption
  <2> QED
    BY <1>7, <1>11, <2>1
<1> QED
  BY <1>2, <1>3, <1>4, <1>5, <1>6, <1>8, <1>9, <1>10, <1>11
     DEF Work, Resolve, Answer, BeginCheckout, ReadItems

\* The history of crossed only grows, by owners.
LEMMA CrossedGrows ==
  ASSUME Typed, NEW w \in Workers, Work(w)
  PROVE  crossed \subseteq crossed' /\ crossed' \subseteq Owners
<1>1. crossed \subseteq Owners /\ Fits(request[w])
  BY DEF Typed, CartsTypeOK, Stages
<1>2. CASE UNCHANGED crossed
  BY <1>1, <1>2
<1>3. CASE NoteCrossing(w) /\ request[w].pc \notin {"idle", "creating"}
  BY <1>1, <1>3 DEF NoteCrossing, Fits
<1> QED
  BY <1>2, <1>3
     DEF Work, Resolve, Insert, Answer, LockLine, RejectAdd, RemoveItem, Remove, AddItem,
         UpdateItem, LineRefused, Save, ClearCart, BeginCheckout, TakeCoupon, ReadItems,
         Finish, Rollback, cartVars, At

LEMMA StepTyped == Typed /\ [CartsNext]_cartsVars => Typed'
<1> SUFFICES ASSUME Typed, [CartsNext]_cartsVars
             PROVE  Typed'
  OBVIOUS
<1>1. request \in [Workers -> Requests] /\ carts \in [Owners -> 0..Cardinality(Workers)]
  BY DEF Typed, CartsTypeOK
<1>2. ASSUME NEW w \in Workers, Work(w)
      PROVE  Typed'
  <2>1. /\ Fits(request'[w])
        /\ \A x \in Workers \ {w} : request'[x] = request[x]
        /\ request' \in [Workers -> Requests]
    BY <1>1, <1>2, RequestFits DEF Fits
  <2>2. Stages'
    BY <2>1 DEF Stages, Typed, Fits, Requests, Contents
  <2>3. RoomForCarts'
    BY <1>2, CreatorsChange DEF RoomForCarts
  <2>4. CartsTyped' /\ CouponTyped'
    BY <1>2, WorkTyped
  <2>5. carts' \in [Owners -> 0..Cardinality(Workers)]
    <3> SUFFICES ASSUME NEW u \in Owners
                 PROVE  carts'[u] \in 0..Cardinality(Workers)
      BY <2>4 DEF CartsTyped
    <3>1. Creators(u)' \subseteq Workers
      BY DEF Creators
    <3>2. Cardinality(Creators(u)') \in Nat
      BY <3>1, CartsAssumption, FS_Subset, FS_CardinalityType
    <3>3. carts'[u] \in Nat
      BY <2>4 DEF CartsTyped
    <3>4. carts'[u] + Cardinality(Creators(u)') <= Cardinality(Workers)
      BY <1>2, CreatorsChange
    <3> QED
      BY <3>2, <3>3, <3>4, WorkerCount
  <2> QED
    BY <1>2, <2>1, <2>2, <2>3, <2>4, <2>5, CrossedGrows
       DEF Typed, CartsTypeOK, CartsTyped, CouponTyped, Quantities
<1>3. CASE StaffOpen \/ StaffSave
  <2>1. UNCHANGED <<cartVars, request>> /\ CouponTyped'
    BY <1>3, TypedParts DEF StaffOpen, StaffSave, CouponTyped
  <2> QED
    BY <2>1 DEF Typed, CartsTypeOK, Stages, RoomForCarts, Creators, cartVars, CouponTyped
<1>4. CASE UNCHANGED cartsVars
  BY <1>4 DEF Typed, CartsTypeOK, Stages, RoomForCarts, Creators, cartsVars
<1> QED
  BY <1>2, <1>3, <1>4 DEF CartsNext

LEMMA AlwaysTyped == CartsSpec => []Typed
BY InitTyped, StepTyped, PTL DEF CartsSpec

\* However many requests create carts at once, the variables keep their types:
\* among other things no line exceeds what get_available ever returned.
THEOREM CartsTypeCorrect == CartsSpec => []CartsTypeOK
<1>1. Typed => CartsTypeOK
  BY DEF Typed
<1> QED
  BY AlwaysTyped, <1>1, PTL

---------------------------------------------------------------------------
(* The coupon                                                              *)

HolderKnows == \A w \in Workers : holder = w <=> request[w].uses # NoCoupon
CountedUnderLock ==
  \A w \in Workers : request[w].uses # NoCoupon =>
    /\ request[w].uses = used
    /\ ValidNow
    /\ request[w].pc \in {"reading", "reserving"}
CountIsTrue == ~overwritten => used = redeemed

Coupon == HolderKnows /\ CountedUnderLock /\ CountIsTrue /\ CouponWithinLimit

LEMMA InitCoupon == CartsInit => Coupon
BY CartsAssumption
   DEF CartsInit, Coupon, HolderKnows, CountedUnderLock, CountIsTrue, CouponWithinLimit, Idle

\* The steps of a request that has no coupon
LEMMA WithoutCoupon ==
  ASSUME Typed, Coupon, NEW w \in Workers, Work(w), ~TakeCoupon(w), ~ReadItems(w),
         ~Finish(w), ~Rollback(w)
  PROVE  /\ request[w].uses = NoCoupon
         /\ request'[w].uses = NoCoupon
         /\ UNCHANGED couponVars
<1>1. request \in [Workers -> Requests]
  BY DEF Typed, CartsTypeOK
<1>2. request[w].pc \notin {"reading", "reserving"} /\ UNCHANGED couponVars
  BY DEF Work, Resolve, Insert, Answer, LockLine, RejectAdd, RemoveItem, Remove, AddItem,
         UpdateItem, LineRefused, Save, ClearCart, BeginCheckout, At
<1>3. request[w].uses = NoCoupon
  BY <1>2 DEF Coupon, CountedUnderLock
<1>4. request'[w].uses = NoCoupon
  <2>1. CASE request' = [request EXCEPT ![w] = Idle]
    BY <1>1, <2>1 DEF Idle
  <2>2. ASSUME NEW u \in Owners, Resolve(w, u)
        PROVE  request'[w].uses = NoCoupon
    BY <1>1, <2>2 DEF Resolve, Idle
  <2>3. CASE Insert(w)
    BY <1>1, <1>3, <2>3 DEF Insert, Requests
  <2>4. ASSUME NEW v \in Variants, LockLine(w, v)
        PROVE  request'[w].uses = NoCoupon
    BY <1>1, <1>3, <2>4 DEF LockLine, Requests
  <2>5. ASSUME NEW next \in {"coupon", "reading"}, BeginCheckout(w, next)
        PROVE  request'[w].uses = NoCoupon
    BY <1>1, <1>3, <2>5 DEF BeginCheckout, Requests
  <2> QED
    BY <2>1, <2>2, <2>3, <2>4, <2>5
       DEF Work, Answer, RejectAdd, RemoveItem, Remove, AddItem, UpdateItem, LineRefused, Save,
           ClearCart
<1> QED
  BY <1>2, <1>3, <1>4

LEMMA StepCoupon == Typed /\ Coupon /\ [CartsNext]_cartsVars => Coupon'
<1> SUFFICES ASSUME Typed, Coupon, [CartsNext]_cartsVars
             PROVE  Coupon'
  OBVIOUS
<1> USE DEF Coupon
<1>1. /\ request \in [Workers -> Requests]
      /\ used \in Nat /\ redeemed \in Nat /\ overwritten \in BOOLEAN
      /\ MaxUses \in Nat
      /\ Nobody \notin Workers
  BY CartsAssumption DEF Typed, CartsTypeOK
<1>2. ASSUME NEW w \in Workers, Work(w)
      PROVE  Coupon'
  <2>1. \A x \in Workers \ {w} : request'[x] = request[x]
    BY <1>1, <1>2, RequestFits
  <2>2. CASE TakeCoupon(w)
    <3>1. /\ holder = Nobody /\ holder' = w /\ ValidNow /\ used \in Nat
          /\ UNCHANGED <<used, redeemed, overwritten>>
          /\ request'[w].uses = used /\ request'[w].pc = "reading"
      BY <1>1, <2>2 DEF TakeCoupon, Requests
    <3>2. request'[w].uses # NoCoupon /\ \A x \in Workers \ {w} : request'[x].uses = NoCoupon
      BY <1>1, <2>1, <3>1 DEF HolderKnows, NoCoupon
    <3> QED
      BY <2>1, <3>1, <3>2
         DEF HolderKnows, CountedUnderLock, ValidNow, CountIsTrue, CouponWithinLimit
  <2>3. CASE ReadItems(w)
    <3>1. /\ UNCHANGED couponVars
          /\ request'[w].uses = request[w].uses /\ request'[w].pc = "reserving"
      BY <1>1, <2>3 DEF ReadItems, Requests
    <3> QED
      BY <2>1, <3>1
         DEF couponVars, HolderKnows, CountedUnderLock, ValidNow, CountIsTrue, CouponWithinLimit
  <2>4. CASE Rollback(w)
    <3>1. /\ UNCHANGED <<used, redeemed, overwritten>>
          /\ holder' = Released(w)
          /\ request'[w].uses = NoCoupon
      BY <1>1, <2>4 DEF Rollback, Idle
    <3> QED
      BY <1>1, <2>1, <3>1
         DEF Released, HolderKnows, CountedUnderLock, ValidNow, CountIsTrue, CouponWithinLimit
  <2>5. CASE Finish(w)
    <3>1. /\ UNCHANGED overwritten
          /\ holder' = Released(w)
          /\ request'[w].uses = NoCoupon
      BY <1>1, <2>5 DEF Finish, Idle
    <3>2. CASE request[w].uses = NoCoupon
      <4>1. UNCHANGED <<used, redeemed>>
        BY <2>5, <3>2 DEF Finish
      <4> QED
        BY <1>1, <2>1, <3>1, <3>2, <4>1
           DEF Released, HolderKnows, CountedUnderLock, ValidNow, CountIsTrue, CouponWithinLimit
    <3>3. CASE request[w].uses # NoCoupon
      <4>1. used' = used + 1 /\ redeemed' = redeemed + 1 /\ ValidNow /\ holder = w
        BY <2>5, <3>3 DEF Finish, CountedUnderLock, HolderKnows
      <4>2. \A x \in Workers : request'[x].uses = NoCoupon
        BY <2>1, <3>1, <4>1 DEF HolderKnows
      <4>3. CountIsTrue' /\ CouponWithinLimit'
        BY <1>1, <3>1, <4>1 DEF CountIsTrue, CouponWithinLimit, ValidNow
      <4> QED
        BY <1>1, <3>1, <4>1, <4>2, <4>3 DEF Released, HolderKnows, CountedUnderLock
    <3> QED
      BY <3>2, <3>3
  <2>6. CASE ~TakeCoupon(w) /\ ~ReadItems(w) /\ ~Finish(w) /\ ~Rollback(w)
    BY <1>2, <2>1, <2>6, WithoutCoupon
       DEF couponVars, HolderKnows, CountedUnderLock, ValidNow, CountIsTrue, CouponWithinLimit
  <2> QED
    BY <2>2, <2>3, <2>4, <2>5, <2>6
<1>3. CASE StaffOpen
  BY <1>3
     DEF StaffOpen, HolderKnows, CountedUnderLock, ValidNow, CountIsTrue, CouponWithinLimit
<1>4. CASE StaffSave
  <2>1. \A w \in Workers : request[w].uses = NoCoupon
    BY <1>1, <1>4 DEF StaffSave, HolderKnows
  <2>2. CountIsTrue' /\ CouponWithinLimit'
    BY <1>4 DEF StaffSave, CountIsTrue, CouponWithinLimit
  <2> QED
    BY <1>4, <2>1, <2>2 DEF StaffSave, HolderKnows, CountedUnderLock
<1>5. CASE UNCHANGED cartsVars
  BY <1>5
     DEF cartsVars, HolderKnows, CountedUnderLock, ValidNow, CountIsTrue, CouponWithinLimit
<1> QED
  BY <1>2, <1>3, <1>4, <1>5 DEF CartsNext

\* is_valid_now is asked and used_count counted under one lock of the coupon's
\* row: whatever checkouts run at once, max_uses holds unless a staff edit
\* brings back an old count.
THEOREM CouponLimit == CartsSpec => []CouponWithinLimit
<1>1. Coupon => CouponWithinLimit
  BY DEF Coupon
<1> QED
  BY AlwaysTyped, InitCoupon, StepCoupon, <1>1, PTL DEF CartsSpec

---------------------------------------------------------------------------
(* No unit is lost, none is ordered twice                                  *)

LEMMA TotalChange ==
  ASSUME NEW S, IsFiniteSet(S), NEW f \in [S -> Nat], NEW g \in [S -> Nat], NEW s \in S,
         \A x \in S \ {s} : g[x] = f[x]
  PROVE  /\ Total(f) \in Nat /\ Total(g) \in Nat
         /\ Total(g) = Total(f) + g[s] - f[s]
<1>1. Total(f) \in Nat /\ Total(g) \in Nat
  BY TotalType
<1>2. CASE f[s] <= g[s]
  <2>1. g[s] - f[s] \in Nat /\ g[s] = f[s] + (g[s] - f[s])
    BY <1>2
  <2>2. Total(g) = Total(f) + (g[s] - f[s])
    BY <2>1, TotalPlusSingle
  <2> QED
    BY <1>1, <2>2
<1>3. CASE g[s] < f[s]
  <2>1. f[s] - g[s] \in Nat /\ f[s] = g[s] + (f[s] - g[s])
    BY <1>3
  <2>2. Total(f) = Total(g) + (f[s] - g[s])
    BY <2>1, TotalPlusSingle
  <2> QED
    BY <1>1, <2>2
<1> QED
  BY <1>1, <1>2, <1>3

\* What the owner's carts hold of a variant
Held(q, u, v) == [c \in CartIds |-> q[u][c][v]]

LEMMA HeldType ==
  ASSUME NEW q \in Quantities, NEW u \in Owners, NEW v \in Variants
  PROVE  /\ Held(q, u, v) \in [CartIds -> Nat]
         /\ IsFiniteSet(CartIds)
<1>1. IsFiniteSet(CartIds)
  BY WorkerCount, FS_Interval DEF CartIds
<1>2. \A c \in CartIds : q[u][c][v] \in Nat
  BY CartsAssumption DEF Quantities, Contents
<1> QED
  BY <1>1, <1>2 DEF Held

LEMMA HeldChange ==
  ASSUME quantity \in Quantities, quantity' \in Quantities,
         NEW u \in Owners, NEW v \in Variants, NEW c \in CartIds,
         \A d \in CartIds \ {c} : quantity'[u][d][v] = quantity[u][d][v]
  PROVE  Total(Held(quantity', u, v)) =
           Total(Held(quantity, u, v)) + quantity'[u][c][v] - quantity[u][c][v]
<1> DEFINE f == Held(quantity, u, v)
           g == Held(quantity', u, v)
<1>1. f \in [CartIds -> Nat] /\ g \in [CartIds -> Nat] /\ IsFiniteSet(CartIds)
  BY HeldType
<1>2. \A d \in CartIds : f[d] = quantity[u][d][v] /\ g[d] = quantity'[u][d][v]
  BY DEF Held
<1> HIDE DEF f, g
<1>3. \A d \in CartIds \ {c} : g[d] = f[d]
  BY <1>2
<1>4. Total(g) = Total(f) + g[c] - f[c]
  BY <1>1, <1>3, TotalChange
<1> QED
  BY <1>2, <1>4 DEF f, g

\* A request that has locked a line has read it and is the only one to write it.
HoldsLine(w) ==
  At(w, "line") => /\ Locks(w)[request[w].variant] = w
                   /\ request[w].seen = InCart(w)[request[w].variant]

\* A checkout has read what is in the cart, as long as no other request of its
\* owner has changed a cart that was being checked out.
SawTheCart(w) ==
  request[w].owner \notin crossed =>
    /\ request[w].pc \in CheckingOut => request[w].quoted = InCart(w)
    /\ At(w, "reserving") => request[w].items = InCart(w)

Balanced ==
  /\ \A w \in Workers : HoldsLine(w) /\ SawTheCart(w)
  /\ UnitsAreOrderedOnce

LEMMA InitBalanced == CartsInit => Balanced
<1> SUFFICES ASSUME CartsInit
             PROVE  Balanced
  OBVIOUS
<1>1. \A w \in Workers : HoldsLine(w) /\ SawTheCart(w)
  BY DEF CartsInit, HoldsLine, SawTheCart, CheckingOut, At, Idle
<1>2. UnitsAreOrderedOnce
  <2> SUFFICES ASSUME NEW u \in Owners, NEW v \in Variants
               PROVE  wanted[u][v] = Total([c \in CartIds |-> quantity[u][c][v]]) + ordered[u][v]
    BY DEF UnitsAreOrderedOnce
  <2>1. [c \in CartIds |-> quantity[u][c][v]] = [c \in CartIds |-> 0]
    BY DEF CartsInit, NoItems
  <2>2. \A c \in CartIds : [d \in CartIds |-> 0][c] = 0
    OBVIOUS
  <2>3. UnitsOf([c \in CartIds |-> 0]) = {}
    BY <2>2 DEF UnitsOf
  <2>4. Total([c \in CartIds |-> 0]) = 0
    BY <2>3, FS_EmptySet DEF Total
  <2> QED
    BY <2>1, <2>4 DEF CartsInit, NoItems
<1> QED
  BY <1>1, <1>2 DEF Balanced

\* A step of one request that changes one line, by as much as it reports.
LEMMA LineBalance ==
  ASSUME Typed, Balanced, NEW o \in Owners, NEW c \in CartIds, NEW v \in Variants,
         NEW n \in 0..MaxAvailable, LineIs(o, c, v, n), UNCHANGED ordered,
         crossed \subseteq crossed',
         wanted' = [wanted EXCEPT ![o][v] = @ + n - quantity[o][c][v]]
  PROVE  UnitsAreOrderedOnce'
<1> SUFFICES ASSUME NEW p \in Owners \ crossed', NEW x \in Variants
             PROVE  wanted'[p][x] = Total(Held(quantity', p, x)) + ordered[p][x]
  BY DEF UnitsAreOrderedOnce, Held
<1>1. /\ quantity \in Quantities /\ quantity' \in Quantities
      /\ wanted \in [Owners -> [Variants -> Int]]
      /\ ordered[p][x] \in Nat
  BY TypedParts DEF CartsTyped, LineIs
<1>2. wanted[p][x] = Total(Held(quantity, p, x)) + ordered[p][x]
  BY DEF Balanced, UnitsAreOrderedOnce, Held
<1>3. Total(Held(quantity, p, x)) \in Nat
  BY <1>1, HeldType, TotalType
<1>4. CASE p = o /\ x = v
  <2>1. Total(Held(quantity', p, x)) =
          Total(Held(quantity, p, x)) + quantity'[p][c][x] - quantity[p][c][x]
    BY <1>1, <1>4, HeldChange DEF LineIs
  <2>2. quantity'[p][c][x] = n /\ quantity[p][c][x] \in Int
    BY <1>1, <1>4 DEF LineIs, Quantities, Contents
  <2>3. wanted'[p][x] = wanted[p][x] + n - quantity[p][c][x]
    BY <1>1, <1>4
  <2> QED
    BY <1>1, <1>2, <1>3, <2>1, <2>2, <2>3
<1>5. CASE ~(p = o /\ x = v)
  <2>1. wanted'[p][x] = wanted[p][x]
    BY <1>1, <1>5
  <2>2. Held(quantity', p, x) = Held(quantity, p, x)
    BY <1>5 DEF LineIs, Held
  <2> QED
    BY <1>2, <2>1, <2>2
<1> QED
  BY <1>4, <1>5

\* A step of one request that empties a cart.
LEMMA EmptyBalance ==
  ASSUME Typed, Balanced, NEW o \in Owners, NEW c \in CartIds, CartIsEmpty(o, c),
         crossed \subseteq crossed',
         \A p \in Owners \ crossed', v \in Variants :
           wanted'[p][v] - ordered'[p][v] =
             wanted[p][v] - ordered[p][v] - (IF p = o THEN quantity[o][c][v] ELSE 0),
         wanted' \in [Owners -> [Variants -> Int]],
         ordered' \in [Owners -> [Variants -> Nat]]
  PROVE  UnitsAreOrderedOnce'
<1> SUFFICES ASSUME NEW p \in Owners \ crossed', NEW x \in Variants
             PROVE  wanted'[p][x] = Total(Held(quantity', p, x)) + ordered'[p][x]
  BY DEF UnitsAreOrderedOnce, Held
<1>1. /\ quantity \in Quantities /\ quantity' \in Quantities
      /\ ordered[p][x] \in Int /\ ordered'[p][x] \in Int
      /\ wanted[p][x] \in Int /\ wanted'[p][x] \in Int
  BY TypedParts DEF CartsTyped, CartIsEmpty
<1>2. wanted[p][x] = Total(Held(quantity, p, x)) + ordered[p][x]
  BY DEF Balanced, UnitsAreOrderedOnce, Held
<1>3. Total(Held(quantity, p, x)) \in Nat
  BY <1>1, HeldType, TotalType
<1>4. CASE p = o
  <2>1. Total(Held(quantity', p, x)) =
          Total(Held(quantity, p, x)) + quantity'[p][c][x] - quantity[p][c][x]
    BY <1>1, <1>4, HeldChange DEF CartIsEmpty
  <2>2. quantity'[p][c][x] = 0 /\ quantity[p][c][x] \in Int
    BY <1>1, <1>4 DEF CartIsEmpty, Quantities, Contents
  <2> QED
    BY <1>1, <1>2, <1>3, <1>4, <2>1, <2>2
<1>5. CASE p # o
  <2>1. Held(quantity', p, x) = Held(quantity, p, x)
    BY <1>5 DEF CartIsEmpty, Held
  <2> QED
    BY <1>1, <1>2, <1>3, <1>5, <2>1
<1> QED
  BY <1>4, <1>5

\* What a step of w leaves to the others: carts that they check out, if no
\* crossing is noted, and the lines that they have locked.
LeavesOthers(w) ==
  /\ crossed \subseteq crossed'
  /\ \A x \in Workers \ {w} :
       request[x].pc \in CheckingOut /\ request[x].owner \notin crossed' =>
         quantity'[request[x].owner][request[x].cart] = InCart(x)
  /\ \A x \in Workers \ {w} : At(x, "line") =>
       LET o == request[x].owner
           c == request[x].cart
           v == request[x].variant IN
         locked'[o][c][v] = locked[o][c][v] /\ quantity'[o][c][v] = quantity[o][c][v]

\* A step that changes one cart and notes whether it crosses a checkout leaves
\* the carts of other checkouts alone.
LEMMA CheckoutsKeepTheirCarts ==
  ASSUME Typed, NEW w \in Workers, NoteCrossing(w),
         \A p \in Owners, d \in CartIds :
           p # request[w].owner \/ d # request[w].cart => quantity'[p][d] = quantity[p][d],
         NEW x \in Workers \ {w}, request[x].pc \in CheckingOut,
         request[x].owner \notin crossed'
  PROVE  quantity'[request[x].owner][request[x].cart] = InCart(x)
<1>1. request[x].owner \in Owners /\ request[x].cart \in CartIds
  BY DEF Typed, Stages, Fits, CheckingOut
<1>2. CASE request[x].owner = request[w].owner /\ request[x].cart = request[w].cart
  <2>1. BesideCheckout(w)
    BY <1>2 DEF BesideCheckout
  <2>2. quantity' = quantity
    BY <1>2, <2>1 DEF NoteCrossing
  <2> QED
    BY <2>2 DEF InCart
<1>3. CASE request[x].owner # request[w].owner \/ request[x].cart # request[w].cart
  BY <1>1, <1>3 DEF InCart
<1> QED
  BY <1>2, <1>3

LEMMA OthersKeep ==
  ASSUME Typed, Balanced, NEW w \in Workers, Work(w), LeavesOthers(w),
         NEW x \in Workers \ {w}
  PROVE  HoldsLine(x)' /\ SawTheCart(x)'
<1>1. request'[x] = request[x]
  BY RequestFits DEF Typed, CartsTypeOK
<1>2. HoldsLine(x) /\ SawTheCart(x)
  BY DEF Balanced
<1>3. HoldsLine(x)'
  BY <1>1, <1>2 DEF HoldsLine, LeavesOthers, At, Locks, InCart
<1>4. CASE request[x].pc \in CheckingOut
  <2>1. crossed \subseteq crossed'
    BY DEF LeavesOthers
  <2>2. request[x].owner \notin crossed' => InCart(x)' = InCart(x)
    BY <1>1, <1>4 DEF LeavesOthers, InCart
  <2> QED
    BY <1>1, <1>2, <1>3, <2>1, <2>2 DEF SawTheCart, At
<1>5. CASE request[x].pc \notin CheckingOut
  BY <1>1, <1>3, <1>5 DEF SawTheCart, At, CheckingOut
<1> QED
  BY <1>4, <1>5

LEMMA OwnKeeps ==
  ASSUME Typed, Balanced, NEW w \in Workers, Work(w)
  PROVE  HoldsLine(w)' /\ SawTheCart(w)'
<1>1. /\ request \in [Workers -> Requests] /\ Fits(request[w])
      /\ HoldsLine(w) /\ SawTheCart(w)
      /\ locked \in [Owners -> [CartIds -> [Variants -> Workers \cup {Nobody}]]]
  BY TypedParts DEF Typed, CartsTypeOK, Stages, Balanced, CartsTyped
<1>2. CASE request'[w].pc \in {"idle", "creating", "ready"}
  BY <1>2 DEF HoldsLine, SawTheCart, At, CheckingOut
<1>3. ASSUME NEW v \in Variants, LockLine(w, v)
      PROVE  HoldsLine(w)' /\ SawTheCart(w)'
  <2> DEFINE o == request[w].owner
             c == request[w].cart
  <2>1. o \in Owners /\ c \in CartIds
    BY <1>1, <1>3 DEF LockLine, At, Fits
  <2>2. request'[w] = [request[w] EXCEPT !.pc = "line", !.variant = v, !.seen = quantity[o][c][v]]
    BY <1>1, <1>3 DEF LockLine, InCart
  <2>3. /\ request'[w].pc = "line" /\ request'[w].owner = o /\ request'[w].cart = c
        /\ request'[w].variant = v /\ request'[w].seen = quantity[o][c][v]
    BY <1>1, <2>2 DEF Requests
  <2>4. locked' = [locked EXCEPT ![o][c][v] = w] /\ quantity' = quantity
    BY <1>3 DEF LockLine
  <2> HIDE DEF o, c
  <2>5. locked'[o][c][v] = w
    BY <1>1, <2>1, <2>4
  <2> QED
    BY <2>3, <2>4, <2>5 DEF HoldsLine, SawTheCart, At, CheckingOut, Locks, InCart
<1>4. ASSUME NEW next \in {"coupon", "reading"}, BeginCheckout(w, next)
      PROVE  HoldsLine(w)' /\ SawTheCart(w)'
  <2>1. /\ request'[w].pc = next /\ request'[w].quoted = InCart(w)
        /\ request'[w].owner = request[w].owner /\ request'[w].cart = request[w].cart
        /\ quantity' = quantity
    BY <1>1, <1>4 DEF BeginCheckout, Requests, cartVars
  <2> QED
    BY <2>1 DEF HoldsLine, SawTheCart, At, InCart
<1>5. CASE TakeCoupon(w)
  <2>1. /\ request'[w].pc = "reading" /\ request'[w].quoted = request[w].quoted
        /\ request'[w].owner = request[w].owner /\ request'[w].cart = request[w].cart
        /\ quantity' = quantity /\ crossed' = crossed /\ request[w].pc = "coupon"
    BY <1>1, <1>5 DEF TakeCoupon, Requests, cartVars, At
  <2> QED
    BY <1>1, <2>1 DEF HoldsLine, SawTheCart, At, InCart, CheckingOut
<1>6. CASE ReadItems(w)
  <2>1. /\ request'[w].pc = "reserving" /\ request'[w].quoted = request[w].quoted
        /\ request'[w].items = InCart(w)
        /\ request'[w].owner = request[w].owner /\ request'[w].cart = request[w].cart
        /\ quantity' = quantity /\ crossed' = crossed /\ request[w].pc = "reading"
    BY <1>1, <1>6 DEF ReadItems, Requests, cartVars, At
  <2> QED
    BY <1>1, <2>1 DEF HoldsLine, SawTheCart, At, InCart, CheckingOut
<1>7. CASE request' = [request EXCEPT ![w] = Idle]
  BY <1>1, <1>2, <1>7 DEF Idle
<1>8. ASSUME NEW u \in Owners, Resolve(w, u)
      PROVE  request'[w].pc \in {"creating", "ready"}
  BY <1>1, <1>8 DEF Resolve, Idle
<1>9. CASE Insert(w)
  BY <1>1, <1>2, <1>9 DEF Insert, Requests
<1> QED
  BY <1>2, <1>3, <1>4, <1>5, <1>6, <1>7, <1>8, <1>9
     DEF Work, Answer, RejectAdd, RemoveItem, Remove, AddItem, UpdateItem, LineRefused, Save,
         ClearCart, Finish, Rollback

\* A line that another request has locked is not the one of w, and not one that
\* w could change without the lock.
LEMMA LockedLine ==
  ASSUME Typed, Balanced, NEW x \in Workers, At(x, "line")
  PROVE  /\ request[x].owner \in Owners /\ request[x].cart \in CartIds
         /\ request[x].variant \in Variants
         /\ locked[request[x].owner][request[x].cart][request[x].variant] = x
         /\ x # Nobody
BY CartsAssumption DEF Typed, Stages, Fits, At, Balanced, HoldsLine, Locks

LEMMA QuietStep ==
  ASSUME Typed, Balanced, NEW w \in Workers,
         UNCHANGED <<quantity, wanted, ordered, crossed>>,
         \/ UNCHANGED locked
         \/ \E v \in Variants : LockLine(w, v)
  PROVE  LeavesOthers(w) /\ UnitsAreOrderedOnce'
<1>1. UnitsAreOrderedOnce'
  BY DEF Balanced, UnitsAreOrderedOnce
<1>2. CASE UNCHANGED locked
  BY <1>1, <1>2 DEF LeavesOthers, InCart
<1>3. ASSUME NEW v \in Variants, LockLine(w, v)
      PROVE  LeavesOthers(w)
  <2> DEFINE o == request[w].owner
             c == request[w].cart
  <2>1. /\ o \in Owners /\ c \in CartIds /\ locked[o][c][v] = Nobody
        /\ locked' = [locked EXCEPT ![o][c][v] = w]
    BY <1>3 DEF LockLine, At, Typed, Stages, Fits, Locks
  <2>2. locked \in [Owners -> [CartIds -> [Variants -> Workers \cup {Nobody}]]]
    BY TypedParts DEF CartsTyped
  <2> HIDE DEF o, c
  <2>3. \A p \in Owners, d \in CartIds, x \in Variants :
          locked[p][d][x] # Nobody => locked'[p][d][x] = locked[p][d][x]
    BY <2>1, <2>2
  <2> QED
    BY <2>3, LockedLine DEF LeavesOthers, InCart
<1> QED
  BY <1>1, <1>2, <1>3

LEMMA SaveStep ==
  ASSUME Typed, Balanced, NEW w \in Workers, Work(w), At(w, "line"),
         NEW n \in 0..MaxAvailable, Save(w, n)
  PROVE  LeavesOthers(w) /\ UnitsAreOrderedOnce'
<1> DEFINE o == request[w].owner
           c == request[w].cart
           v == request[w].variant
<1>1. /\ o \in Owners /\ c \in CartIds /\ v \in Variants
      /\ LineIs(o, c, v, n)
  BY SaveEffect
<1>2. /\ locked[o][c][v] = w
      /\ request[w].seen = quantity[o][c][v]
  BY DEF Balanced, HoldsLine, Locks, InCart
<1>3. /\ locked' = [locked EXCEPT ![o][c][v] = Nobody]
      /\ wanted' = [wanted EXCEPT ![o][v] = @ + n - quantity[o][c][v]]
      /\ UNCHANGED ordered /\ crossed \subseteq crossed' /\ NoteCrossing(w)
  BY <1>2, CrossedGrows DEF Save
<1>4. /\ locked \in [Owners -> [CartIds -> [Variants -> Workers \cup {Nobody}]]]
      /\ quantity \in Quantities
  BY TypedParts DEF CartsTyped
<1>5. UnitsAreOrderedOnce'
  <2> HIDE DEF o, c, v
  <2> QED
    BY <1>1, <1>3, LineBalance
<1>6. \A p \in Owners, d \in CartIds, x \in Variants : locked[p][d][x] # w =>
        locked'[p][d][x] = locked[p][d][x] /\ quantity'[p][d][x] = quantity[p][d][x]
  <2> HIDE DEF o, c, v
  <2> QED
    BY <1>1, <1>2, <1>3, <1>4 DEF LineIs
<1>7. \A p \in Owners, d \in CartIds :
        p # o \/ d # c => quantity'[p][d] = quantity[p][d]
  <2> HIDE DEF o, c, v
  <2> QED
    BY <1>1, <1>4 DEF LineIs, Quantities, Contents
<1>8. ASSUME NEW x \in Workers \ {w}, request[x].pc \in CheckingOut,
             request[x].owner \notin crossed'
      PROVE  quantity'[request[x].owner][request[x].cart] = InCart(x)
  BY <1>3, <1>7, <1>8, CheckoutsKeepTheirCarts
<1>9. ASSUME NEW x \in Workers \ {w}, At(x, "line")
      PROVE  LET p == request[x].owner
                 d == request[x].cart
                 z == request[x].variant IN
               locked'[p][d][z] = locked[p][d][z] /\ quantity'[p][d][z] = quantity[p][d][z]
  BY <1>6, <1>9, LockedLine
<1>10. crossed \subseteq crossed'
  BY <1>3
<1> HIDE DEF o, c, v
<1> QED
  BY <1>5, <1>8, <1>9, <1>10 DEF LeavesOthers

LEMMA RemoveStep ==
  ASSUME Typed, Balanced, NEW w \in Workers, NEW v \in Variants, RemoveItem(w, v)
  PROVE  LeavesOthers(w) /\ UnitsAreOrderedOnce'
<1> DEFINE o == request[w].owner
           c == request[w].cart
<1>1. o \in Owners /\ c \in CartIds /\ LineIs(o, c, v, 0)
  BY RemoveEffect
<1>2. /\ locked[o][c][v] = Nobody
      /\ wanted' = [wanted EXCEPT ![o][v] = @ - quantity[o][c][v]]
      /\ UNCHANGED <<ordered, locked>>
      /\ NoteCrossing(w) /\ crossed \subseteq crossed'
  <2>1. Work(w)
    BY DEF Work
  <2> QED
    BY <2>1, CrossedGrows DEF RemoveItem, Remove
<1>3. /\ wanted \in [Owners -> [Variants -> Int]]
      /\ quantity \in Quantities
  BY TypedParts DEF CartsTyped
<1> HIDE DEF o, c
<1>4. wanted' = [wanted EXCEPT ![o][v] = @ + 0 - quantity[o][c][v]]
  <2>1. wanted[o][v] \in Int /\ quantity[o][c][v] \in Int
    BY <1>1, <1>3 DEF Quantities, Contents
  <2>2. wanted[o][v] - quantity[o][c][v] = wanted[o][v] + 0 - quantity[o][c][v]
    BY <2>1
  <2> QED
    BY <1>2, <2>2
<1>5. UnitsAreOrderedOnce'
  <2> DEFINE n == 0
  <2>1. n \in 0..MaxAvailable /\ UNCHANGED ordered
    BY <1>2, CartsAssumption
  <2>2. LineIs(o, c, v, n) /\ wanted' = [wanted EXCEPT ![o][v] = @ + n - quantity[o][c][v]]
    BY <1>1, <1>4
  <2> HIDE DEF n
  <2> QED
    BY <1>1, <1>2, <2>1, <2>2, LineBalance
<1>6. \A p \in Owners, d \in CartIds, x \in Variants : locked[p][d][x] # Nobody =>
        quantity'[p][d][x] = quantity[p][d][x]
  BY <1>1, <1>2 DEF LineIs
<1>7. \A p \in Owners, d \in CartIds :
        p # o \/ d # c => quantity'[p][d] = quantity[p][d]
  BY <1>1, <1>3 DEF LineIs, Quantities, Contents
<1>8. ASSUME NEW x \in Workers \ {w}, request[x].pc \in CheckingOut,
             request[x].owner \notin crossed'
      PROVE  quantity'[request[x].owner][request[x].cart] = InCart(x)
  BY <1>2, <1>7, <1>8, CheckoutsKeepTheirCarts DEF o, c
<1> QED
  BY <1>2, <1>5, <1>6, <1>8, LockedLine DEF LeavesOthers, o

LEMMA EmptyStep ==
  ASSUME Typed, Balanced, NEW w \in Workers, Work(w),
         request[w].pc \in {"ready", "reserving"}, EmptyCart(w), NoteCrossing(w),
         UNCHANGED locked
  PROVE  LeavesOthers(w)
<1> DEFINE o == request[w].owner
           c == request[w].cart
<1>1. o \in Owners /\ c \in CartIds /\ CartIsEmpty(o, c)
  BY EmptyEffect
<1>2. \A v \in Variants : quantity[o][c][v] > 0 => locked[o][c][v] = Nobody
  BY DEF EmptyCart
<1>3. quantity \in Quantities
  BY TypedParts DEF CartsTyped
<1> HIDE DEF o, c
<1>4. \A p \in Owners, d \in CartIds, x \in Variants : locked[p][d][x] # Nobody =>
        quantity'[p][d][x] = quantity[p][d][x]
  <2>1. \A v \in Variants : quantity[o][c][v] \in Nat
    BY <1>1, <1>3, CartsAssumption DEF Quantities, Contents
  <2>2. \A v \in Variants : locked[o][c][v] # Nobody => quantity[o][c][v] = 0
    BY <1>2, <2>1
  <2> QED
    BY <1>1, <2>2 DEF CartIsEmpty
<1>5. \A p \in Owners, d \in CartIds :
        p # o \/ d # c => quantity'[p][d] = quantity[p][d]
  BY <1>1, <1>3 DEF CartIsEmpty, Quantities, Contents
<1>6. ASSUME NEW x \in Workers \ {w}, request[x].pc \in CheckingOut,
             request[x].owner \notin crossed'
      PROVE  quantity'[request[x].owner][request[x].cart] = InCart(x)
  BY <1>5, <1>6, CheckoutsKeepTheirCarts DEF o, c
<1> QED
  BY <1>4, <1>6, LockedLine, CrossedGrows DEF LeavesOthers, o

LEMMA ClearStep ==
  ASSUME Typed, Balanced, NEW w \in Workers, ClearCart(w)
  PROVE  LeavesOthers(w) /\ UnitsAreOrderedOnce'
<1> DEFINE o == request[w].owner
           c == request[w].cart
<1>1. /\ request[w].pc = "ready" /\ EmptyCart(w) /\ UNCHANGED <<locked, ordered>>
      /\ Work(w) /\ NoteCrossing(w)
  BY DEF ClearCart, At, Work
<1>2. o \in Owners /\ c \in CartIds /\ CartIsEmpty(o, c)
  BY <1>1, EmptyEffect
<1>3. wanted' = [wanted EXCEPT ![o] = [v \in Variants |-> @[v] - quantity[o][c][v]]]
  BY DEF ClearCart, InCart
<1>4. /\ wanted \in [Owners -> [Variants -> Int]] /\ quantity \in Quantities
      /\ ordered \in [Owners -> [Variants -> Nat]]
  BY TypedParts DEF CartsTyped
<1> HIDE DEF o, c
<1>5. \A p \in Owners, v \in Variants :
        wanted'[p][v] = wanted[p][v] - (IF p = o THEN quantity[o][c][v] ELSE 0)
  <2> SUFFICES ASSUME NEW p \in Owners, NEW v \in Variants
               PROVE  wanted'[p][v] = wanted[p][v] - (IF p = o THEN quantity[o][c][v] ELSE 0)
    OBVIOUS
  <2>1. CASE p = o
    BY <1>2, <1>3, <1>4, <2>1
  <2>2. CASE p # o
    <3>1. wanted'[p][v] = wanted[p][v] /\ wanted[p][v] \in Int
      BY <1>2, <1>3, <1>4, <2>2
    <3> QED
      BY <2>2, <3>1
  <2> QED
    BY <2>1, <2>2
<1>6. wanted' \in [Owners -> [Variants -> Int]] /\ ordered' \in [Owners -> [Variants -> Nat]]
  <2>1. Work(w)
    BY DEF Work
  <2> QED
    BY <2>1, WorkTyped DEF CartsTyped
<1>7. UnitsAreOrderedOnce'
  <2>1. \A p \in Owners, v \in Variants :
          wanted'[p][v] - ordered'[p][v] =
            wanted[p][v] - ordered[p][v] - (IF p = o THEN quantity[o][c][v] ELSE 0)
    <3>1. \A p \in Owners, v \in Variants : /\ wanted[p][v] \in Int /\ ordered[p][v] \in Int
                                            /\ quantity[o][c][v] \in Int
                                            /\ ordered'[p][v] = ordered[p][v]
      BY <1>1, <1>2, <1>4 DEF Quantities, Contents
    <3> QED
      BY <1>5, <3>1
  <2> QED
    BY <1>1, <1>2, <1>6, <2>1, EmptyBalance, CrossedGrows
<1> QED
  BY <1>1, <1>7, EmptyStep

LEMMA FinishStep ==
  ASSUME Typed, Balanced, NEW w \in Workers, Finish(w)
  PROVE  LeavesOthers(w) /\ UnitsAreOrderedOnce'
<1> DEFINE o == request[w].owner
           c == request[w].cart
           items == request[w].items
<1>1. /\ request[w].pc = "reserving" /\ EmptyCart(w) /\ UNCHANGED <<locked, wanted>>
      /\ Work(w) /\ NoteCrossing(w)
  BY DEF Finish, At, Work
<1>2. o \in Owners /\ c \in CartIds /\ CartIsEmpty(o, c)
  BY <1>1, EmptyEffect
<1>3. /\ ordered' = [ordered EXCEPT ![o] = [v \in Variants |-> @[v] + items[v]]]
      /\ o \notin crossed => items = quantity[o][c]
  BY <1>1 DEF Finish, Balanced, SawTheCart, At, InCart
<1>4. /\ wanted \in [Owners -> [Variants -> Int]] /\ quantity \in Quantities
      /\ ordered \in [Owners -> [Variants -> Nat]]
  BY TypedParts DEF CartsTyped
<1> HIDE DEF o, c, items
<1>5. \A p \in Owners \ crossed, v \in Variants :
        ordered'[p][v] = ordered[p][v] + (IF p = o THEN quantity[o][c][v] ELSE 0)
  <2> SUFFICES ASSUME NEW p \in Owners \ crossed, NEW v \in Variants
               PROVE  ordered'[p][v] = ordered[p][v] + (IF p = o THEN quantity[o][c][v] ELSE 0)
    OBVIOUS
  <2>1. CASE p = o
    BY <1>2, <1>3, <1>4, <2>1
  <2>2. CASE p # o
    <3>1. ordered'[p][v] = ordered[p][v] /\ ordered[p][v] \in Nat
      BY <1>2, <1>3, <1>4, <2>2
    <3> QED
      BY <2>2, <3>1
  <2> QED
    BY <2>1, <2>2
<1>6. wanted' \in [Owners -> [Variants -> Int]] /\ ordered' \in [Owners -> [Variants -> Nat]]
  <2>1. Work(w)
    BY DEF Work
  <2> QED
    BY <2>1, WorkTyped DEF CartsTyped
<1>7. UnitsAreOrderedOnce'
  <2>0. crossed \subseteq crossed'
    BY <1>1, CrossedGrows
  <2>1. \A p \in Owners \ crossed', v \in Variants :
          wanted'[p][v] - ordered'[p][v] =
            wanted[p][v] - ordered[p][v] - (IF p = o THEN quantity[o][c][v] ELSE 0)
    <3>1. \A p \in Owners, v \in Variants : /\ wanted[p][v] \in Int /\ ordered[p][v] \in Int
                                            /\ quantity[o][c][v] \in Int
                                            /\ wanted'[p][v] = wanted[p][v]
      BY <1>1, <1>2, <1>4 DEF Quantities, Contents
    <3> QED
      BY <1>5, <2>0, <3>1
  <2> QED
    BY <1>2, <1>6, <2>0, <2>1, EmptyBalance
<1> QED
  BY <1>1, <1>7, EmptyStep

LEMMA StepBalanced == Typed /\ Balanced /\ [CartsNext]_cartsVars => Balanced'
<1> SUFFICES ASSUME Typed, Balanced, [CartsNext]_cartsVars
             PROVE  Balanced'
  OBVIOUS
<1>1. ASSUME NEW w \in Workers, Work(w)
      PROVE  Balanced'
  <2>1. LeavesOthers(w) /\ UnitsAreOrderedOnce'
    <3>1. ASSUME NEW q \in 0..MaxAvailable, AddItem(w, q) \/ UpdateItem(w, q) \/ LineRefused(w)
          PROVE  LeavesOthers(w) /\ UnitsAreOrderedOnce'
      <4>1. At(w, "line")
        BY <3>1 DEF AddItem, UpdateItem, LineRefused
      <4>2. request[w].seen \in 0..MaxAvailable
        BY DEF Typed, Stages, Fits, Requests
      <4>3. \E n \in 0..MaxAvailable : Save(w, n)
        <5>1. CASE AddItem(w, q)
          <6>1. request[w].seen + q \in 0..MaxAvailable
            BY <4>2, <5>1, CartsAssumption DEF AddItem
          <6> QED
            BY <5>1, <6>1 DEF AddItem
        <5> QED
          BY <3>1, <4>2, <5>1 DEF UpdateItem, LineRefused
      <4> QED
        BY <1>1, <4>1, <4>3, SaveStep
    <3>2. ASSUME \/ \E q \in 1..MaxAvailable : AddItem(w, q)
                 \/ \E q \in 0..MaxAvailable : UpdateItem(w, q)
                 \/ LineRefused(w)
          PROVE  LeavesOthers(w) /\ UnitsAreOrderedOnce'
      <4>1. 0 \in 0..MaxAvailable /\ 1..MaxAvailable \subseteq 0..MaxAvailable
        BY CartsAssumption
      <4> QED
        BY <3>1, <3>2, <4>1
    <3>3. CASE UNCHANGED <<quantity, wanted, ordered, locked, crossed>>
      BY <3>3, QuietStep
    <3>4. ASSUME NEW v \in Variants, LockLine(w, v)
          PROVE  LeavesOthers(w) /\ UnitsAreOrderedOnce'
      BY <3>4, QuietStep DEF LockLine
    <3> QED
      BY <1>1, <3>2, <3>3, <3>4, RemoveStep, ClearStep, FinishStep
         DEF Work, Resolve, Insert, Answer, RejectAdd, BeginCheckout, TakeCoupon, ReadItems,
             Rollback, cartVars
  <2> QED
    BY <1>1, <2>1, OthersKeep, OwnKeeps DEF Balanced
<1>2. CASE UNCHANGED <<cartVars, request>>
  BY <1>2
     DEF cartVars, Balanced, HoldsLine, SawTheCart, UnitsAreOrderedOnce, At, Locks, InCart
<1> QED
  BY <1>1, <1>2 DEF CartsNext, StaffOpen, StaffSave, cartsVars, cartVars

\* However the requests of an owner overlap, no unit is lost and none is ordered
\* twice, unless a request changed the cart while another was checking it out
\* (add_item, update_item, remove_item, clear, create_order_from_cart).
THEOREM OrderedOnce == CartsSpec => []UnitsAreOrderedOnce
<1>1. Typed /\ Balanced /\ [CartsNext]_cartsVars => Balanced'
  BY StepBalanced
<1>2. Balanced => UnitsAreOrderedOnce
  BY DEF Balanced
<1> QED
  BY AlwaysTyped, InitBalanced, <1>1, <1>2, PTL DEF CartsSpec

\* With the same exception an order's items are the ones its subtotal was
\* computed from, by another query (create_order_from_cart).
THEOREM QuotedOrdered == CartsSpec => []QuotedIsOrdered
<1>1. Typed /\ Balanced /\ [CartsNext]_cartsVars => Balanced'
  BY StepBalanced
<1>2. Balanced => QuotedIsOrdered
  BY DEF Balanced, SawTheCart, QuotedIsOrdered, At, CheckingOut
<1> QED
  BY AlwaysTyped, InitBalanced, <1>1, <1>2, PTL DEF CartsSpec
=============================================================================
