--------------------------- MODULE ServicesProofs ---------------------------
(***************************************************************************)
(* Theorems about the services around the core, each with the invariant    *)
(* that carries it:                                                        *)
(*   Pricing        a bill is blank or the Bill of some subtotal, coupon   *)
(*                  and method, so that what remains is arithmetic;        *)
(*   Addresses      what the requests that ran alone so far know of their  *)
(*                  address;                                               *)
(*   Accounts       what a visit has inserted so far, and for whom;        *)
(*   Notifications  until the first message there is none, and a mail has  *)
(*                  one message or one task at a time up to a mishap;      *)
(*   OrderStream    what a client hears goes forward, up to the status     *)
(*                  that is said last;                                     *)
(*   CatalogCache   every part of an answer was right when its statement   *)
(*                  ran, which the time to live bounds;                    *)
(*   CatalogPages   rows not seen yet are older than the cursor;           *)
(*   ReplicaReads   orders never go from the log, and what a request read  *)
(*                  was there when it read it;                             *)
(*   Analytics      every query made so far is right but for what moved.   *)
(* The last section puts them together: a behaviour of MCServices is one   *)
(* of each component, and the two that share the stock keep out of each    *)
(* other's way.                                                            *)
(***************************************************************************)
EXTENDS MCServices, CloseUpsProofs

---------------------------------------------------------------------------
(* Pricing: totals for every subtotal and every coupon.                    *)

\* Rounding to the nearest cent is off by half a cent at most.
LEMMA QuantizedIsNearest ==
  ASSUME NEW n \in Nat
  PROVE  /\ Quantized(n, Whole) \in Nat
         /\ 2 * Whole * Quantized(n, Whole) <= 2 * n + Whole
         /\ 2 * Whole * Quantized(n, Whole) >= 2 * n - Whole
<1> DEFINE q == n \div Whole
           r == n % Whole
<1>1. q \in Nat /\ r \in 0..(Whole - 1) /\ n = Whole * q + r
  BY DEF Whole
<1>2. CASE 2 * r > Whole \/ (2 * r = Whole /\ q % 2 = 1)
  <2>1. Quantized(n, Whole) = q + 1 /\ 2 * r >= Whole
    BY <1>2 DEF Quantized, Whole
  <2> QED
    BY <1>1, <2>1 DEF Whole
<1>3. CASE ~(2 * r > Whole \/ (2 * r = Whole /\ q % 2 = 1))
  <2>1. q % 2 \in {0, 1}
    BY <1>1
  <2>2. Quantized(n, Whole) = q
    BY <1>3 DEF Quantized
  <2>3. 2 * r <= Whole
    BY <1>1, <1>3 DEF Whole
  <2> QED
    BY <1>1, <2>2, <2>3 DEF Whole
<1> QED
  BY <1>2, <1>3

\* A percentage up to 100 takes no more than there is.
LEMMA ShareWithinSubtotal ==
  ASSUME NEW s \in Nat, NEW v \in Nat, v <= Whole
  PROVE  Quantized(s * v, Whole) <= s
<1>1. s * v \in Nat /\ s * v <= s * Whole
  BY DEF Whole
<1>2. /\ Quantized(s * v, Whole) \in Nat
      /\ 2 * Whole * Quantized(s * v, Whole) <= 2 * (s * v) + Whole
  BY <1>1, QuantizedIsNearest
<1> QED
  BY <1>1, <1>2 DEF Whole

\* calculate_discount of any coupon, and when it stays within the subtotal.
LEMMA DiscountType ==
  ASSUME NEW s \in Nat, NEW c \in Coupon
  PROVE  /\ Discount(c, s) \in Nat
         /\ Discount(c, s) <= s
            \/ /\ c.kind = "percent" /\ c.value > Whole
               /\ c.max_discount = 0 \/ c.max_discount > s
<1> DEFINE share == Quantized(s * c.value, Whole)
<1>1. /\ c.kind \in Kinds
      /\ c.value \in Nat /\ c.min_subtotal \in Nat /\ c.max_discount \in Nat
  BY DEF Coupon
<1>2. s * c.value \in Nat
  BY <1>1
<1>3. share \in Nat
  BY <1>2, QuantizedIsNearest
<1>4. c.value <= Whole => share <= s
  BY <1>1, ShareWithinSubtotal
<1>5. c.value <= Whole \/ c.value > Whole
  BY <1>1 DEF Whole
<1>6. CASE s < c.min_subtotal
  <2>1. Discount(c, s) = 0
    BY <1>6 DEF Discount
  <2> QED
    BY <2>1
<1>7. CASE ~(s < c.min_subtotal) /\ c.kind = "percent" /\ c.max_discount = 0
  <2>1. Discount(c, s) = share
    BY <1>7 DEF Discount
  <2> HIDE DEF share
  <2> QED
    BY <1>3, <1>4, <1>5, <1>7, <2>1
<1>8. CASE ~(s < c.min_subtotal) /\ c.kind = "percent" /\ c.max_discount # 0
  <2>1. Discount(c, s) = Least(share, c.max_discount)
    BY <1>8 DEF Discount
  <2> HIDE DEF share
  <2> QED
    BY <1>1, <1>3, <1>4, <1>5, <1>8, <2>1 DEF Least
<1>9. CASE ~(s < c.min_subtotal) /\ c.kind = "fixed"
  <2>1. Discount(c, s) = Least(c.value, s)
    BY <1>9 DEF Discount
  <2> QED
    BY <1>1, <2>1 DEF Least
<1>10. CASE ~(s < c.min_subtotal) /\ c.kind = "free_shipping"
  <2>1. Discount(c, s) = 0
    BY <1>10 DEF Discount
  <2> QED
    BY <2>1
<1> QED
  BY <1>1, <1>6, <1>7, <1>8, <1>9, <1>10 DEF Kinds

\* What the bill of an order is, for every input.
BillOfAnOrder ==
  \/ bill = NoBill
  \/ \E s \in Nat, c \in Coupon, m \in Methods : bill = Bill(s, c, m)

\* A bill is blank or the Bill of an order.
LEMMA BillInvariant == PricingSpec => []BillOfAnOrder
<1>1. PricingInit => BillOfAnOrder
  BY DEF PricingInit, BillOfAnOrder
<1>2. NoCoupon \in Coupon
  BY DEF NoCoupon, Coupon, Kinds
<1>3. BillOfAnOrder /\ [PricingNext]_bill => BillOfAnOrder'
  BY <1>2, PricingAssumption DEF BillOfAnOrder, PricingNext, Checkout
<1> QED
  BY <1>1, <1>3, PTL DEF PricingSpec

\* What a Bill is made of.
LEMMA BillType ==
  ASSUME NEW s \in Nat, NEW c \in Coupon, NEW m \in Methods
  PROVE  /\ Rate(m) \in Nat
         /\ Shipping(m, s - Discount(c, s)) \in {0, Rate(m)}
         /\ Bill(s, c, m).discount = Discount(c, s)
         /\ Bill(s, c, m).shipping = Shipping(m, s - Discount(c, s))
         /\ Bill(s, c, m).grand = s - Discount(c, s) + Shipping(m, s - Discount(c, s))
         /\ Bill(s, c, m).subtotal = s /\ Bill(s, c, m).coupon = c /\ Bill(s, c, m).method = m
<1>1. Rate(m) \in Nat
  BY DEF Rate, Methods
<1>2. Shipping(m, s - Discount(c, s)) \in {0, Rate(m)}
  BY DEF Shipping
<1> QED
  BY <1>1, <1>2 DEF Bill

\* The totals of an order are amounts: everything but the grand total is natural
\* (the amounts create_order_from_cart writes).
THEOREM PricingTypeCorrect == PricingSpec => []PricingTypeOK
<1>1. BillOfAnOrder => PricingTypeOK
  <2>1. CASE bill = NoBill
    BY <2>1 DEF NoBill, NoCoupon, PricingTypeOK, Coupon, Kinds, Methods
  <2>2. ASSUME NEW s \in Nat, NEW c \in Coupon, NEW m \in Methods, bill = Bill(s, c, m)
        PROVE  PricingTypeOK
    <3>1. Discount(c, s) \in Nat
      BY DiscountType
    <3>2. Shipping(m, s - Discount(c, s)) \in Nat
      BY BillType
    <3>3. s - Discount(c, s) + Shipping(m, s - Discount(c, s)) \in Int
      BY <3>1, <3>2
    <3> QED
      BY <2>2, <3>1, <3>2, <3>3 DEF Bill, PricingTypeOK
  <2> QED
    BY <2>1, <2>2 DEF BillOfAnOrder
<1> QED
  BY <1>1, BillInvariant, PTL

\* No coupon with a percentage up to 100 makes the shop pay (calculate_discount),
\* whatever its kind, minimum and cap, and whatever is in the cart.
THEOREM NegativeTotalsExplained == PricingSpec => []NegativeTotalsHaveOneCause
<1>1. BillOfAnOrder => NegativeTotalsHaveOneCause
  <2>1. CASE bill = NoBill
    BY <2>1 DEF NoBill, NegativeTotalsHaveOneCause
  <2>2. ASSUME NEW s \in Nat, NEW c \in Coupon, NEW m \in Methods, bill = Bill(s, c, m)
        PROVE  NegativeTotalsHaveOneCause
    <3>1. /\ Discount(c, s) \in Nat
          /\ Discount(c, s) <= s
             \/ /\ c.kind = "percent" /\ c.value > Whole
                /\ c.max_discount = 0 \/ c.max_discount > s
      BY DiscountType
    <3>2. /\ bill.grand = s - Discount(c, s) + bill.shipping
          /\ bill.shipping \in Nat
          /\ bill.coupon = c /\ bill.subtotal = s
      BY <2>2, BillType
    <3>3. bill.grand < bill.shipping => ~(Discount(c, s) <= s)
      BY <3>1, <3>2
    <3> QED
      BY <3>1, <3>2, <3>3 DEF NegativeTotalsHaveOneCause
  <2> QED
    BY <2>1, <2>2 DEF BillOfAnOrder
<1> QED
  BY <1>1, BillInvariant, PTL

\* The only way a coupon makes an order dearer: it falls below the amount from
\* which shipping is free, by less than the shipping (_calculate_shipping).
THEOREM DearerExplained == PricingSpec => []DearerOnlyAroundFreeShipping
<1>1. BillOfAnOrder => DearerOnlyAroundFreeShipping
  <2>1. ASSUME NEW s \in Nat, NEW c \in Coupon, NEW m \in Methods,
               bill.grand = s - Discount(c, s) + Shipping(m, s - Discount(c, s)),
               bill.subtotal = s, bill.method = m
        PROVE  DearerOnlyAroundFreeShipping
    <3> DEFINE d == Discount(c, s)
    <3>1. NoCoupon \in Coupon
      BY DEF NoCoupon, Coupon, Kinds
    <3>2. Discount(NoCoupon, s) = 0
      BY DEF Discount, NoCoupon, Least
    <3>3. Bill(s, NoCoupon, m).grand = s + Shipping(m, s)
      BY <3>1, <3>2, BillType
    <3>4. d \in Nat
      BY DiscountType
    <3>5. Rate(m) \in Nat
      BY BillType
    <3> HIDE DEF d
    <3> QED
      BY <2>1, <3>3, <3>4, <3>5 DEF DearerOnlyAroundFreeShipping, Shipping, FreeFrom, d
  <2>2. CASE bill = NoBill
    <3>1. NoCoupon \in Coupon /\ "pickup" \in Methods
      BY DEF NoCoupon, Coupon, Kinds, Methods
    <3>2. /\ Discount(NoCoupon, 0) = 0 /\ Shipping("pickup", 0) = 0
      BY DEF Discount, NoCoupon, Least, Shipping, FreeFrom, Rate
    <3>3. /\ bill.grand = 0 - Discount(NoCoupon, 0) + Shipping("pickup", 0 - Discount(NoCoupon, 0))
          /\ bill.subtotal = 0 /\ bill.method = "pickup"
      BY <2>2, <3>2 DEF NoBill
    <3> QED
      BY <2>1, <3>1, <3>3
  <2>3. ASSUME NEW s \in Nat, NEW c \in Coupon, NEW m \in Methods, bill = Bill(s, c, m)
        PROVE  DearerOnlyAroundFreeShipping
    BY <2>1, <2>3, BillType
  <2> QED
    BY <2>2, <2>3 DEF BillOfAnOrder
<1> QED
  BY <1>1, BillInvariant, PTL

\* A percentage discount is the exact share to the nearest cent, or the cap when
\* that is less (calculate_discount).
THEOREM ShareCorrect == PricingSpec => []ShareIsNearest
<1>1. BillOfAnOrder => ShareIsNearest
  <2>1. CASE bill = NoBill
    BY <2>1 DEF NoBill, NoCoupon, ShareIsNearest
  <2>2. ASSUME NEW s \in Nat, NEW c \in Coupon, NEW m \in Methods, bill = Bill(s, c, m),
               c.kind = "percent", s >= c.min_subtotal
        PROVE  \/ /\ Discount(c, s) = c.max_discount
                  /\ 2 * Whole * Discount(c, s) <= 2 * (s * c.value) + Whole
               \/ /\ 2 * Whole * Discount(c, s) <= 2 * (s * c.value) + Whole
                  /\ 2 * Whole * Discount(c, s) >= 2 * (s * c.value) - Whole
    <3> DEFINE share == Quantized(s * c.value, Whole)
    <3>1. /\ c.value \in Nat /\ c.min_subtotal \in Nat /\ c.max_discount \in Nat
      BY DEF Coupon
    <3>2. s * c.value \in Nat
      BY <3>1
    <3>3. /\ share \in Nat
          /\ 2 * Whole * share <= 2 * (s * c.value) + Whole
          /\ 2 * Whole * share >= 2 * (s * c.value) - Whole
      BY <3>2, QuantizedIsNearest
    <3>4. Discount(c, s) = share \/ (Discount(c, s) = c.max_discount /\ c.max_discount <= share)
      BY <2>2, <3>1, <3>3 DEF Discount, Least
    <3> HIDE DEF share
    <3> QED
      BY <3>1, <3>2, <3>3, <3>4 DEF Whole
  <2>3. ASSUME NEW s \in Nat, NEW c \in Coupon, NEW m \in Methods, bill = Bill(s, c, m)
        PROVE  ShareIsNearest
    <3>1. bill.coupon = c /\ bill.subtotal = s /\ bill.discount = Discount(c, s)
      BY <2>3, BillType
    <3>2. CASE c.kind = "percent" /\ s >= c.min_subtotal
      <4>1. \/ /\ bill.discount = c.max_discount
               /\ 2 * Whole * bill.discount <= 2 * (s * c.value) + Whole
            \/ /\ 2 * Whole * bill.discount <= 2 * (s * c.value) + Whole
               /\ 2 * Whole * bill.discount >= 2 * (s * c.value) - Whole
        BY <2>2, <2>3, <3>1, <3>2
      <4> QED
        BY <3>1, <4>1, Zenon DEF ShareIsNearest
    <3>3. CASE ~(c.kind = "percent" /\ s >= c.min_subtotal)
      BY <3>1, <3>3, Zenon DEF ShareIsNearest
    <3> QED
      BY <3>2, <3>3
  <2> QED
    BY <2>1, <2>3 DEF BillOfAnOrder
<1> QED
  BY <1>1, BillInvariant, PTL

---------------------------------------------------------------------------
(* Addresses: the default that was chosen last.                            *)

\* What a request that has run alone so far knows about its address: the row
\* it inserted, the row it looked up, and that it has cleared the kind.
Known(r) ==
  /\ r.does = "clear_others" => r.address \in Defaults(r.kind)
  /\ r.does \in {"clear_kind", "set_default"} =>
       entry[r.address].life = "alive" /\ entry[r.address].kind = r.kind
  /\ r.does = "set_default" => Defaults(r.kind) = {}

AddressBook ==
  /\ AddressesTypeOK
  /\ chosen # NoChoice => Underway = {} /\ Defaults(chosen.kind) = {chosen.address}
  /\ \A d \in Underway : ~overlapped[d] => Underway = {d} /\ Known(doing[d])

\* A request that arrives while nobody else has one is alone; otherwise all are
\* marked as overlapped.
LEMMA ArrivalMarksOverlap ==
  ASSUME AddressBook, NEW d \in Devices, Arrive(d),
         doing' = doing \/ \E step \in Steps : doing' = [doing EXCEPT ![d] = step]
  PROVE  /\ overlapped' \in [Devices -> BOOLEAN]
         /\ chosen' = NoChoice
         /\ \A e \in Underway' : ~overlapped'[e] => e = d /\ Underway' = {d}
<1>1. /\ doing[d] = NoRequest
      /\ overlapped' = [other \in Devices |->
           IF other = d THEN Underway # {} ELSE overlapped[other] \/ other \in Underway]
      /\ chosen' = NoChoice
  BY DEF Arrive
<1>2. doing \in [Devices -> Steps \cup {NoRequest}] /\ overlapped \in [Devices -> BOOLEAN]
  BY DEF AddressBook, AddressesTypeOK
<1>3. \A e \in Devices \ {d} : doing'[e] = doing[e]
  BY <1>2
<1>4. \A e \in Devices : overlapped'[e] \in BOOLEAN
  BY <1>1, <1>2
<1>5. overlapped' \in [Devices -> BOOLEAN]
  BY <1>1, <1>4
<1>6. ASSUME NEW e \in Underway', ~overlapped'[e] PROVE e = d /\ Underway' = {d}
  <2>1. e = d
    BY <1>1, <1>3, <1>6 DEF Underway
  <2>2. Underway = {}
    BY <1>1, <1>6, <2>1
  <2> QED
    BY <1>3, <1>6, <2>1, <2>2 DEF Underway
<1> QED
  BY <1>1, <1>5, <1>6

\* A request that ends leaves only requests that overlapped.
LEMMA EndLeavesOverlapped ==
  ASSUME AddressBook, NEW d \in Underway, doing' = [doing EXCEPT ![d] = NoRequest],
         UNCHANGED overlapped
  PROVE  /\ doing' \in [Devices -> Steps \cup {NoRequest}]
         /\ chosen = NoChoice
         /\ \A e \in Underway' : overlapped'[e]
         /\ ~overlapped[d] => Underway' = {}
<1>1. doing \in [Devices -> Steps \cup {NoRequest}] /\ d \in Devices
  BY DEF AddressBook, AddressesTypeOK, Underway
<1>2. Underway' = Underway \ {d}
  BY <1>1 DEF Underway
<1>3. doing' \in [Devices -> Steps \cup {NoRequest}]
  BY <1>1
<1> QED
  BY <1>2, <1>3 DEF AddressBook

\* The UPDATE takes is_default from the addresses it names, and nothing else.
LEMMA ClearedRows ==
  ASSUME AddressesTypeOK, NEW as \in SUBSET Addresses, NEW kind \in AddressKinds,
         entry' = Cleared(as, kind)
  PROVE  /\ entry' \in [Addresses -> [life : {"absent", "alive", "deleted"}, kind : AddressKinds,
                                      is_default : BOOLEAN]]
         /\ \A a \in Addresses : entry'[a].life = entry[a].life /\ entry'[a].kind = entry[a].kind
         /\ Defaults(kind)' = Defaults(kind) \ as
<1> DEFINE Row == [life : {"absent", "alive", "deleted"}, kind : AddressKinds,
                   is_default : BOOLEAN]
<1>1. entry \in [Addresses -> Row]
  BY DEF AddressesTypeOK
<1>2. ASSUME NEW a \in Addresses
      PROVE  /\ entry'[a] \in Row
             /\ entry'[a].life = entry[a].life /\ entry'[a].kind = entry[a].kind
             /\ entry'[a].is_default = (entry[a].is_default /\ a \notin as \cap Defaults(kind))
  <2>1. entry'[a] = IF a \in as \cap Defaults(kind)
                    THEN [entry[a] EXCEPT !.is_default = FALSE] ELSE entry[a]
    BY DEF Cleared
  <2>2. entry[a] \in Row
    BY <1>1
  <2> QED
    BY <2>1, <2>2
<1>3. entry' \in [Addresses -> Row]
  BY <1>2 DEF Cleared
<1>4. Defaults(kind)' = Defaults(kind) \ as
  BY <1>2 DEF Defaults
<1> QED
  BY <1>2, <1>3, <1>4

\* The steps of a request.
LEMMA WholeRequests ==
  ASSUME AddressBook, NEW d \in Devices, NEW a \in Addresses, NEW kind \in AddressKinds,
         NEW is_default \in BOOLEAN,
         Create(d, a, kind, is_default) \/ Update(d, a, kind, is_default)
           \/ MakeDefault(d, a) \/ Destroy(d, a)
  PROVE  AddressBook'
<1>1. AddressesTypeOK
  BY DEF AddressBook
<1>2. entry[a] \in [life : {"absent", "alive", "deleted"}, kind : AddressKinds,
                    is_default : BOOLEAN]
  BY <1>1 DEF AddressesTypeOK
<1>3. Arrive(d)
  BY DEF Create, Update, MakeDefault, Destroy
<1>4. doing[d] = NoRequest /\ doing \in [Devices -> Steps \cup {NoRequest}]
  BY <1>1, <1>3 DEF Arrive, AddressesTypeOK
<1> DEFINE Asks(step) == doing' = [doing EXCEPT ![d] = step]
<1>5. ASSUME NEW step \in Steps, Asks(step),
             entry' \in [Addresses -> [life : {"absent", "alive", "deleted"},
                                       kind : AddressKinds, is_default : BOOLEAN]],
             Known(step)'
      PROVE  AddressBook'
  <2>1. /\ overlapped' \in [Devices -> BOOLEAN]
        /\ chosen' = NoChoice
        /\ \A e \in Underway' : ~overlapped'[e] => e = d /\ Underway' = {d}
    BY <1>3, <1>5, ArrivalMarksOverlap
  <2>2. doing'[d] = step /\ doing' \in [Devices -> Steps \cup {NoRequest}]
    BY <1>4, <1>5
  <2> QED
    BY <1>5, <2>1, <2>2 DEF AddressBook, AddressesTypeOK
<1>6. ASSUME doing' = doing,
             entry' \in [Addresses -> [life : {"absent", "alive", "deleted"},
                                       kind : AddressKinds, is_default : BOOLEAN]]
      PROVE  AddressBook'
  <2>1. /\ overlapped' \in [Devices -> BOOLEAN]
        /\ chosen' = NoChoice
        /\ \A e \in Underway' : ~overlapped'[e] => e = d /\ Underway' = {d}
    BY <1>3, <1>6, ArrivalMarksOverlap
  <2>2. d \notin Underway'
    BY <1>4, <1>6 DEF Underway
  <2> QED
    BY <1>4, <1>6, <2>1, <2>2 DEF AddressBook, AddressesTypeOK
<1>7. CASE Create(d, a, kind, is_default)
  <2>1. entry' = [entry EXCEPT ![a] = [life |-> "alive", kind |-> kind, is_default |-> is_default]]
    BY <1>7 DEF Create
  <2>2. entry' \in [Addresses -> [life : {"absent", "alive", "deleted"},
                                  kind : AddressKinds, is_default : BOOLEAN]]
    BY <1>1, <2>1 DEF AddressesTypeOK
  <2>3. CASE is_default
    <3> DEFINE step == [does |-> "clear_others", address |-> a, kind |-> kind]
    <3>1. Asks(step)
      BY <1>7, <2>3 DEF Create
    <3>2. step \in Steps
      BY DEF Steps
    <3>3. a \in Defaults(kind)'
      BY <1>1, <2>1, <2>3 DEF Defaults, AddressesTypeOK
    <3>4. Known(step)'
      BY <3>3 DEF Known
    <3> QED
      BY <1>5, <2>2, <3>1, <3>2, <3>4
  <2>4. CASE ~is_default
    BY <1>6, <1>7, <2>2, <2>4 DEF Create
  <2> QED
    BY <2>3, <2>4
<1>8. CASE Update(d, a, kind, is_default)
  <2> DEFINE step == [does |-> "save", address |-> a, kind |-> kind, is_default |-> is_default]
  <2>1. Asks(step) /\ entry' = entry
    BY <1>8 DEF Update
  <2>2. step \in Steps
    BY DEF Steps
  <2>3. Known(step)'
    BY DEF Known
  <2> QED
    BY <1>1, <1>5, <2>1, <2>2, <2>3 DEF AddressesTypeOK
<1>9. CASE MakeDefault(d, a)
  <2> DEFINE step == [does |-> "clear_kind", address |-> a, kind |-> entry[a].kind]
  <2>1. Asks(step) /\ entry' = entry /\ entry[a].life = "alive"
    BY <1>9 DEF MakeDefault
  <2>2. step \in Steps
    BY <1>2 DEF Steps
  <2>3. Known(step)'
    BY <2>1 DEF Known
  <2> QED
    BY <1>1, <1>5, <2>1, <2>2, <2>3 DEF AddressesTypeOK
<1>10. CASE Destroy(d, a)
  <2>1. entry' = [entry EXCEPT ![a].life = "deleted"] /\ doing' = doing
    BY <1>10 DEF Destroy
  <2>2. entry' \in [Addresses -> [life : {"absent", "alive", "deleted"},
                                  kind : AddressKinds, is_default : BOOLEAN]]
    BY <1>1, <1>2, <2>1 DEF AddressesTypeOK
  <2> QED
    BY <1>6, <2>1, <2>2
<1> QED
  BY <1>7, <1>8, <1>9, <1>10

\* The statement that ends a request, when it chooses a default or does not.
LEMMA LastStatements ==
  ASSUME AddressBook, NEW d \in Devices,
         ClearOthers(d) \/ SetDefault(d) \/ Save(d) \/ Abandon(d)
  PROVE  AddressBook'
<1>1. AddressesTypeOK
  BY DEF AddressBook
<1>2. /\ d \in Underway
      /\ doing' = [doing EXCEPT ![d] = NoRequest]
      /\ UNCHANGED overlapped
  BY DEF ClearOthers, SetDefault, Save, Abandon, Continue, Underway, NoRequest
<1>3. /\ doing' \in [Devices -> Steps \cup {NoRequest}]
      /\ chosen = NoChoice
      /\ \A e \in Underway' : overlapped'[e]
      /\ ~overlapped[d] => Underway' = {}
  BY <1>2, EndLeavesOverlapped
<1>4. PICK r \in Steps : r = doing[d]
  BY <1>1, <1>2 DEF AddressesTypeOK, Underway
<1>5. PICK a \in Addresses, kind \in AddressKinds : a = r.address /\ kind = r.kind
  BY <1>4 DEF Steps
<1> DEFINE Row == [life : {"absent", "alive", "deleted"}, kind : AddressKinds,
                   is_default : BOOLEAN]
<1>6. entry \in [Addresses -> Row]
  BY <1>1 DEF AddressesTypeOK
<1>7. overlapped' \in [Devices -> BOOLEAN]
  BY <1>1, <1>2 DEF AddressesTypeOK
<1>8. ASSUME entry' \in [Addresses -> Row], chosen' = NoChoice PROVE AddressBook'
  BY <1>3, <1>7, <1>8 DEF AddressBook, AddressesTypeOK
<1>9. ASSUME entry' \in [Addresses -> Row], Chosen(d, a, kind),
             ~overlapped[d] => Defaults(kind)' = {a}
      PROVE  AddressBook'
  <2>1. CASE ~overlapped[d]
    <3>1. chosen' = [kind |-> kind, address |-> a]
      BY <1>9, <2>1 DEF Chosen
    <3>2. (Defaults(chosen.kind) = {chosen.address})'
      BY <1>9, <2>1, <3>1
    <3>3. chosen' \in [kind : AddressKinds, address : Addresses]
      BY <3>1
    <3> QED
      BY <1>3, <1>7, <1>9, <2>1, <3>2, <3>3 DEF AddressBook, AddressesTypeOK
  <2>2. CASE overlapped[d]
    BY <1>8, <1>9, <2>2 DEF Chosen
  <2> QED
    BY <2>1, <2>2
<1>10. CASE ClearOthers(d)
  <2>1. /\ r.does = "clear_others"
        /\ entry' = Cleared(Addresses \ {a}, kind)
        /\ Chosen(d, a, kind)
    BY <1>4, <1>5, <1>10 DEF ClearOthers
  <2>2. /\ entry' \in [Addresses -> Row]
        /\ Defaults(kind)' = Defaults(kind) \ (Addresses \ {a})
    BY <1>1, <2>1, ClearedRows
  <2>3. ~overlapped[d] => a \in Defaults(kind)
    BY <1>2, <1>4, <1>5, <2>1 DEF AddressBook, Known
  <2>4. ~overlapped[d] => Defaults(kind)' = {a}
    BY <2>2, <2>3 DEF Defaults
  <2> QED
    BY <1>9, <2>1, <2>2, <2>4
<1>11. CASE SetDefault(d)
  <2>1. /\ r.does = "set_default"
        /\ entry' = [entry EXCEPT ![a].is_default = TRUE]
        /\ Chosen(d, a, kind)
    BY <1>4, <1>5, <1>11 DEF SetDefault
  <2>2. entry' \in [Addresses -> Row]
    BY <1>6, <2>1
  <2>3. ~overlapped[d] =>
          /\ entry[a].life = "alive" /\ entry[a].kind = kind
          /\ Defaults(kind) = {}
    BY <1>2, <1>4, <1>5, <2>1 DEF AddressBook, Known
  <2>4. ~overlapped[d] => Defaults(kind)' = {a}
    BY <1>6, <2>1, <2>3 DEF Defaults
  <2> QED
    BY <1>9, <2>1, <2>2, <2>4
<1>12. CASE Save(d)
  <2>1. /\ r.does = "save"
        /\ entry' = [entry EXCEPT ![a] =
                       [life |-> "alive", kind |-> kind, is_default |-> r.is_default]]
        /\ chosen' = chosen
    BY <1>4, <1>5, <1>12 DEF Save
  <2>2. r.is_default \in BOOLEAN
    BY <1>4, <2>1 DEF Steps
  <2>3. entry' \in [Addresses -> Row]
    BY <1>6, <2>1, <2>2
  <2> QED
    BY <1>3, <1>8, <2>1, <2>3
<1>13. CASE Abandon(d)
  BY <1>3, <1>6, <1>8, <1>13 DEF Abandon
<1> QED
  BY <1>10, <1>11, <1>12, <1>13

\* make_default between its two statements.
LEMMA FirstStatement ==
  ASSUME AddressBook, NEW d \in Devices, ClearKind(d)
  PROVE  AddressBook'
<1>1. AddressesTypeOK
  BY DEF AddressBook
<1>2. PICK r : r = doing[d]
  OBVIOUS
<1>3. PICK step : step = [r EXCEPT !.does = "set_default"]
  OBVIOUS
<1>4. /\ r.does = "clear_kind"
      /\ entry' = Cleared(Addresses, r.kind)
      /\ doing' = [doing EXCEPT ![d] = step]
      /\ UNCHANGED <<overlapped, chosen>>
  BY <1>2, <1>3 DEF ClearKind, Continue
<1>5. doing \in [Devices -> Steps \cup {NoRequest}] /\ d \in Underway
  BY <1>1, <1>2, <1>4 DEF AddressesTypeOK, Underway, NoRequest
<1>6. r \in [does : {"clear_others", "clear_kind", "set_default"}, address : Addresses,
             kind : AddressKinds]
  BY <1>2, <1>4, <1>5 DEF Steps, Underway
<1>7. /\ step \in Steps /\ step # NoRequest
      /\ step.does = "set_default" /\ step.address = r.address /\ step.kind = r.kind
  BY <1>3, <1>6 DEF Steps, NoRequest
<1>8. doing' \in [Devices -> Steps \cup {NoRequest}] /\ doing'[d] = step
  BY <1>4, <1>5, <1>7
<1>9. Underway' = Underway
  BY <1>4, <1>5, <1>7, <1>8 DEF Underway
<1>10. /\ entry' \in [Addresses -> [life : {"absent", "alive", "deleted"}, kind : AddressKinds,
                                    is_default : BOOLEAN]]
       /\ \A a \in Addresses : entry'[a].life = entry[a].life /\ entry'[a].kind = entry[a].kind
       /\ Defaults(r.kind)' = Defaults(r.kind) \ Addresses
  BY <1>1, <1>4, <1>6, ClearedRows
<1>11. Defaults(r.kind)' = {}
  BY <1>10 DEF Defaults
<1>12. chosen' = NoChoice
  BY <1>4, <1>5 DEF AddressBook
<1>13. ASSUME NEW e \in Underway', ~overlapped'[e] PROVE Underway' = {e} /\ (Known(doing[e]))'
  <2>1. e = d /\ Underway' = {d}
    BY <1>4, <1>5, <1>9, <1>13 DEF AddressBook
  <2>2. Known(r)
    BY <1>2, <1>4, <1>5, <1>13, <2>1 DEF AddressBook
  <2>3. entry[r.address].life = "alive" /\ entry[r.address].kind = r.kind
    BY <1>4, <2>2 DEF Known
  <2>4. Known(step)'
    BY <1>6, <1>7, <1>10, <1>11, <2>3 DEF Known
  <2> QED
    BY <1>8, <2>1, <2>4
<1>14. AddressesTypeOK'
  BY <1>1, <1>4, <1>8, <1>10 DEF AddressesTypeOK
<1> QED
  BY <1>12, <1>13, <1>14 DEF AddressBook

\* The requests of all devices keep the book, statement by statement.
LEMMA AddressBookInvariant == AddressesSpec => []AddressBook
<1>1. AddressesInit => AddressBook
  BY DEF AddressesInit, AddressBook, AddressesTypeOK, AddressKinds, NoRow, Underway
<1>2. AddressBook /\ [AddressesNext]_addressVars => AddressBook'
  <2> SUFFICES ASSUME AddressBook, [AddressesNext]_addressVars PROVE AddressBook'
    OBVIOUS
  <2>1. ASSUME NEW d \in Devices, NEW a \in Addresses, NEW kind \in AddressKinds,
               NEW is_default \in BOOLEAN,
               Create(d, a, kind, is_default) \/ Update(d, a, kind, is_default)
        PROVE  AddressBook'
    BY <2>1, WholeRequests
  <2>2. ASSUME NEW d \in Devices, NEW a \in Addresses, MakeDefault(d, a) \/ Destroy(d, a)
        PROVE  AddressBook'
    BY <2>2, WholeRequests DEF AddressKinds
  <2>3. ASSUME NEW d \in Devices, ClearOthers(d) \/ SetDefault(d) \/ Save(d) \/ Abandon(d)
        PROVE  AddressBook'
    BY <2>3, LastStatements
  <2>4. ASSUME NEW d \in Devices, ClearKind(d) PROVE AddressBook'
    BY <2>4, FirstStatement
  <2>5. CASE UNCHANGED addressVars
    BY <2>5 DEF addressVars, AddressBook, AddressesTypeOK, Underway, Known, Defaults
  <2> QED
    BY <2>1, <2>2, <2>3, <2>4, <2>5 DEF AddressesNext
<1> QED
  BY <1>1, <1>2, PTL DEF AddressesSpec

\* The default that was chosen by a request on its own stands until the next one.
THEOREM ChoiceStands == AddressesSpec => []LastChoiceStands
<1>1. AddressBook => LastChoiceStands
  BY DEF AddressBook, LastChoiceStands
<1> QED
  BY <1>1, AddressBookInvariant, PTL

---------------------------------------------------------------------------
(* Accounts: one whole account each.                                       *)

\* The visits whose account has been inserted and whose worker is alive.
Inserted == {v \in Visitors : visit[v].stage \in {"inserted", "signalled", "welcome", "roleless"}}

AccountOf(v) == Stored(visit[v].email)

Register ==
  /\ AccountsTypeOK
  /\ \A v \in Inserted : AccountOf(v) \in accounts
  /\ \A v \in Inserted : visit[v].stage # "inserted" => AccountOf(v) \in wishlists
  /\ \A v \in Inserted : visit[v].stage = "welcome" => AccountOf(v) \in customers
  /\ \A v, other \in Inserted : v # other => AccountOf(v) # AccountOf(other)

\* A visit that goes on keeps its address.
LEMMA VisitGoesOn ==
  ASSUME AccountsTypeOK, NEW v \in Visitors, NEW stage \in Stages, Go(v, stage)
  PROVE  /\ visit' \in [Visitors -> [stage : Stages, email : Emails]]
         /\ visit'[v].stage = stage /\ visit'[v].email = visit[v].email
         /\ \A other \in Visitors \ {v} : visit'[other] = visit[other]
         /\ AccountOf(v) \in Emails
<1>1. visit[v] \in [stage : Stages, email : Emails]
  BY DEF AccountsTypeOK
<1>2. visit' = [visit EXCEPT ![v] = [visit[v] EXCEPT !.stage = stage]]
  BY DEF Go, AccountsTypeOK
<1>3. [visit[v] EXCEPT !.stage = stage] \in [stage : Stages, email : Emails]
  BY <1>1
<1>4. AccountOf(v) \in Emails
  BY <1>1, NormalizedAssumption DEF AccountOf, Stored
<1> QED
  BY <1>1, <1>2, <1>3, <1>4 DEF AccountsTypeOK

\* The serializer's check, and a worker that dies.
LEMMA CheckKeepsRegister ==
  ASSUME Register, NEW v \in Visitors, Check(v) \/ Perish(v)
  PROVE  Register'
<1>1. PICK stage \in {"refused", "checked", "dead"} :
        /\ Go(v, stage)
        /\ UNCHANGED <<accounts, wishlists, customers, seeded>>
  BY DEF Check, Perish
<1>2. /\ visit' \in [Visitors -> [stage : Stages, email : Emails]]
      /\ visit'[v].stage = stage
      /\ \A other \in Visitors \ {v} : visit'[other] = visit[other]
  BY <1>1, VisitGoesOn DEF Register, Stages
<1>3. Inserted' = Inserted \ {v}
  BY <1>2 DEF Inserted
<1>4. \A other \in Inserted' : visit'[other] = visit[other]
  BY <1>2, <1>3 DEF Inserted
<1> QED
  BY <1>1, <1>2, <1>3, <1>4 DEF Register, AccountsTypeOK, AccountOf

\* create_user.
LEMMA InsertKeepsRegister ==
  ASSUME Register, NEW v \in Visitors, Insert(v)
  PROVE  Register'
<1> DEFINE e == AccountOf(v)
<1>1. PICK stage \in {"refused", "inserted"} :
        /\ Go(v, stage)
        /\ stage = "inserted" => e \notin accounts
        /\ accounts' = accounts \cup {e}
        /\ UNCHANGED <<wishlists, customers, seeded>>
  BY DEF Insert, AccountOf
<1>2. /\ visit' \in [Visitors -> [stage : Stages, email : Emails]]
      /\ visit'[v].stage = stage /\ visit'[v].email = visit[v].email
      /\ \A other \in Visitors \ {v} : visit'[other] = visit[other]
      /\ e \in Emails
  BY <1>1, VisitGoesOn DEF Register, Stages
<1>3. Inserted' \ {v} = Inserted \ {v} /\ v \notin Inserted
  BY <1>2 DEF Inserted, Insert
<1>4. AccountsTypeOK'
  BY <1>1, <1>2 DEF Register, AccountsTypeOK
<1>5. \A x \in Inserted' : AccountOf(x)' \in accounts'
  BY <1>1, <1>2, <1>3 DEF Register, AccountOf, Inserted
<1>6. \A x, y \in Inserted' : x # y => AccountOf(x)' # AccountOf(y)'
  BY <1>1, <1>2, <1>3 DEF Register, AccountOf, Inserted
<1>7. \A x \in Inserted' : visit'[x].stage # "inserted" => x \in Inserted /\ visit'[x] = visit[x]
  BY <1>1, <1>2, <1>3 DEF Inserted
<1> QED
  BY <1>1, <1>4, <1>5, <1>6, <1>7 DEF Register, AccountOf

\* create_wishlist, and the role with the answer.
LEMMA WelcomeKeepsRegister ==
  ASSUME Register, NEW v \in Visitors, Signal(v) \/ AddRole(v)
  PROVE  Register'
<1> DEFINE e == AccountOf(v)
<1>1. v \in Inserted
  BY DEF Signal, AddRole, Inserted
<1>2. PICK stage \in {"signalled", "welcome", "roleless"} :
        /\ Go(v, stage)
        /\ accounts' = accounts /\ seeded' = seeded
        /\ e \in wishlists' /\ wishlists' \in {wishlists, wishlists \cup {e}}
        /\ stage = "welcome" => e \in customers'
        /\ customers' \in {customers, customers \cup {e}}
  BY <1>1 DEF Signal, AddRole, AccountOf, Register
<1>3. /\ visit' \in [Visitors -> [stage : Stages, email : Emails]]
      /\ visit'[v].stage = stage /\ visit'[v].email = visit[v].email
      /\ \A other \in Visitors \ {v} : visit'[other] = visit[other]
  BY <1>2, VisitGoesOn DEF Register, Stages
<1>4. Inserted' = Inserted
  BY <1>1, <1>2, <1>3 DEF Inserted
<1>5. \A x \in Inserted' : AccountOf(x)' = AccountOf(x) /\ (x # v => visit'[x] = visit[x])
  BY <1>3, <1>4 DEF AccountOf, Inserted
<1>6. AccountsTypeOK'
  BY <1>1, <1>2, <1>3 DEF Register, AccountsTypeOK
<1> QED
  BY <1>2, <1>3, <1>4, <1>5, <1>6 DEF Register

\* Whatever visits run at once, the register is what they have inserted so far.
LEMMA RegisterInvariant == AccountsSpec => []Register
<1>1. AccountsInit => Register
  BY DEF AccountsInit, Register, AccountsTypeOK, Inserted, Stages
<1>2. Register /\ [AccountsNext]_accountVars => Register'
  <2> SUFFICES ASSUME Register, [AccountsNext]_accountVars PROVE Register'
    OBVIOUS
  <2>1. CASE SeedRoles
    BY <2>1 DEF SeedRoles, Register, AccountsTypeOK, Inserted, AccountOf
  <2>2. CASE UNCHANGED accountVars
    BY <2>2 DEF accountVars, Register, AccountsTypeOK, Inserted, AccountOf
  <2> QED
    BY <2>1, <2>2, CheckKeepsRegister, InsertKeepsRegister, WelcomeKeepsRegister DEF AccountsNext
<1> QED
  BY <1>1, <1>2, PTL DEF AccountsSpec

\* Whoever is told "created" has a whole account and shares it with nobody, for
\* any number of visitors and any spelling of their addresses.
THEOREM WholeAccounts == AccountsSpec => []OneWholeAccountEach
<1>1. Register => OneWholeAccountEach
  BY DEF Register, OneWholeAccountEach, Inserted, AccountOf, Stored
<1> QED
  BY <1>1, RegisterInvariant, PTL

---------------------------------------------------------------------------
(* Notifications: how often a mail goes out, and that it is not forgotten. *)

\* Until the first message is published none waits and no worker is busy.
MailInBounds ==
  /\ MailTypeOK
  /\ notifier = "idle" <=> row = "none"
  /\ notifier # "done" =>
       (\A r \in 0..MaxRetries : broker[r] = 0) /\ \A w \in Workers : ~Busy(w)

\* The invariant holds of the service.
THEOREM MailBounds == MailSpec => []MailInBounds
<1>0. MaxRetries \in Nat /\ MaxMails \in Nat /\ MaxMessages \in Nat \ {0} /\ 0 \in 0..MaxRetries
  BY NotificationsAssumption
<1> DEFINE Doing == {"free", "send", "fail", "sent", "error", "retry", "end"}
           Attempt == [stage : Doing, retries : 0..MaxRetries]
           Count == 0..MaxMessages
<1>1. MailInit => MailInBounds
  <2>1. Free \in Attempt
    BY <1>0 DEF Free
  <2>2. [r \in 0..MaxRetries |-> 0] \in [0..MaxRetries -> Count]
    BY <1>0
  <2> SUFFICES ASSUME MailInit
               PROVE  MailInBounds
    OBVIOUS
  <2>3. broker \in [0..MaxRetries -> Count] /\ task \in [Workers -> Attempt]
    BY <2>1, <2>2 DEF MailInit
  <2>4. \A w \in Workers : ~Busy(w)
    BY DEF MailInit, Busy, Free
  <2>5. mails \in 0..MaxMails /\ \A r \in 0..MaxRetries : broker[r] = 0
    BY <1>0 DEF MailInit
  <2>6. addressed \in BOOLEAN /\ mishap \in BOOLEAN /\ given \in BOOLEAN
    BY DEF MailInit
  <2>7. notifier = "idle" /\ row = "none"
    BY DEF MailInit
  <2> QED
    BY <2>3, <2>4, <2>5, <2>6, <2>7 DEF MailInBounds, MailTypeOK
<1>2. MailInBounds /\ [MailNext]_mailVars => MailInBounds'
  <2> SUFFICES ASSUME MailInBounds, [MailNext]_mailVars
               PROVE  MailInBounds'
    OBVIOUS
  <2>1. /\ broker \in [0..MaxRetries -> Count] /\ task \in [Workers -> Attempt]
        /\ mails \in 0..MaxMails
    BY DEF MailInBounds, MailTypeOK
  <2>2. Free \in Attempt
    BY <1>0 DEF Free
  <2>3. ASSUME NEW w \in Workers, NEW stage \in Doing, Goto(w, stage)
        PROVE  task' \in [Workers -> Attempt]
    <3>1. task[w] \in Attempt
      BY <2>1
    <3>2. [task[w] EXCEPT !.stage = stage] \in Attempt
      BY <3>1
    <3>3. task' = [task EXCEPT ![w] = [task[w] EXCEPT !.stage = stage]]
      BY <2>1, <2>3 DEF Goto
    <3> QED
      BY <2>1, <3>2, <3>3
  <2>bounds. MailTypeOK /\ (notifier = "idle" <=> row = "none")
         /\ (notifier # "done" =>
               (\A r \in 0..MaxRetries : broker[r] = 0) /\ \A w \in Workers : ~Busy(w))
    BY DEF MailInBounds
  <2>4. CASE Notify
    <3>1. /\ notifier = "idle" /\ notifier' = "created" /\ row' = "pending"
          /\ UNCHANGED <<addressed, broker, task, mails, mishap, given>>
      BY <2>4 DEF Notify
    <3>2. \A w \in Workers : Busy(w)' <=> Busy(w)
      BY <3>1 DEF Busy
    <3> QED
      BY <2>bounds, <3>1, <3>2 DEF MailInBounds, MailTypeOK
  <2>publish. CASE Publish
    <3>1. /\ notifier = "created" /\ notifier' = "done" /\ given' \in {given, TRUE}
          /\ broker' = broker \/ broker' = [broker EXCEPT ![0] = broker[0] + 1]
          /\ UNCHANGED <<row, addressed, task, mails, mishap>>
      BY <2>publish DEF Publish
    <3>2. broker[0] = 0
      BY <1>0, <2>bounds, <3>1
    <3>3. broker' \in [0..MaxRetries -> Count]
      BY <1>0, <2>1, <3>1, <3>2
    <3>4. given' \in BOOLEAN
      BY <2>bounds, <3>1 DEF MailTypeOK
    <3> QED
      BY <2>bounds, <3>1, <3>3, <3>4 DEF MailInBounds, MailTypeOK
  <2>5. ASSUME NEW w \in Workers, NEW r \in 0..MaxRetries, Start(w, r)
        PROVE  MailInBounds'
    <3> DEFINE n == [stage |-> CASE row = "sent" -> "end"
                                 [] row # "sent" /\ addressed -> "send"
                                 [] OTHER -> "fail",
                     retries |-> r]
    <3>1. /\ broker' = [broker EXCEPT ![r] = broker[r] - 1] /\ broker[r] > 0 /\ row' = row
          /\ task' = [task EXCEPT ![w] = n]
      BY <2>5 DEF Start, Waiting
    <3>2. broker' \in [0..MaxRetries -> Count]
      BY <1>0, <2>1, <3>1
    <3>3. n \in Attempt
      OBVIOUS
    <3>4. task' \in [Workers -> Attempt]
      BY <2>1, <3>1, <3>3
    <3>5. notifier = "done" /\ notifier' = "done"
      BY <1>0, <2>5, <2>bounds, <3>1 DEF Start
    <3> QED
      BY <2>5, <3>1, <3>2, <3>4, <3>5 DEF Start, MailInBounds, MailTypeOK
  <2>6. ASSUME NEW w \in Workers, Busy(w)
        PROVE  notifier = "done" /\ row # "none"
    BY <2>6, <2>bounds
  <2>7. ASSUME NEW w \in Workers, Fail(w) \/ SendMail(w) \/ SaveSent(w) \/ SaveFailed(w)
        PROVE  MailInBounds'
    <3>1. task' \in [Workers -> Attempt]
      BY <2>3, <2>7 DEF Fail, SendMail, SaveSent, SaveFailed
    <3>2. notifier' = "done" /\ row' # "none"
      BY <2>6, <2>7 DEF Fail, SendMail, SaveSent, SaveFailed, Busy
    <3>3. broker' = broker /\ addressed' = addressed
      BY <2>7 DEF Fail, SendMail, SaveSent, SaveFailed
    <3>4. mails' \in 0..MaxMails
      BY <1>0, <2>1, <2>7 DEF Fail, SendMail, SaveSent, SaveFailed
    <3>5. row' \in {"none", "pending", "sent", "failed", "read"}
      BY <2>7 DEF Fail, SendMail, SaveSent, SaveFailed, MailInBounds, MailTypeOK
    <3>6. mishap' = mishap \/ mishap' = TRUE
      BY <2>7 DEF Fail, SendMail, SaveSent, SaveFailed
    <3>7. given' = given \/ given' = TRUE
      BY <2>7 DEF Fail, SendMail, SaveSent, SaveFailed
    <3>8. mishap' \in BOOLEAN /\ given' \in BOOLEAN
      BY <3>6, <3>7 DEF MailInBounds, MailTypeOK
    <3> QED
      BY <2>1, <3>1, <3>2, <3>3, <3>4, <3>5, <3>8 DEF MailInBounds, MailTypeOK
  <2>8. ASSUME NEW w \in Workers, Retry(w)
        PROVE  MailInBounds'
    <3>1. task' \in [Workers -> Attempt]
      BY <2>3, <2>8 DEF Retry
    <3>2. notifier' = "done" /\ row # "none" /\ row' = row
      BY <2>6, <2>8 DEF Retry, Busy
    <3>3. broker' \in [0..MaxRetries -> Count]
      <4>1. task[w].retries \in 0..MaxRetries
        BY <2>1
      <4> DEFINE n == task[w].retries
      <4>2. CASE n < MaxRetries /\ broker[n + 1] < MaxMessages
                 /\ broker' = [broker EXCEPT ![n + 1] = broker[n + 1] + 1]
        <5>1. n + 1 \in 0..MaxRetries
          BY <1>0, <4>1, <4>2
        <5>2. broker[n + 1] + 1 \in Count
          BY <1>0, <2>1, <4>2, <5>1
        <5> QED
          BY <2>1, <4>2, <5>2
      <4>3. CASE broker' = broker
        BY <2>1, <4>3
      <4> QED
        BY <2>8, <4>2, <4>3 DEF Retry
    <3>4. given' = given \/ given' = TRUE
      BY <2>8 DEF Retry
    <3>5. addressed' = addressed /\ mails' = mails /\ mishap' = mishap
      BY <2>8 DEF Retry
    <3>6. given' \in BOOLEAN
      BY <3>4 DEF MailInBounds, MailTypeOK
    <3> QED
      BY <3>1, <3>2, <3>3, <3>5, <3>6 DEF MailInBounds, MailTypeOK
  <2>9. ASSUME NEW w \in Workers, Acknowledge(w)
        PROVE  MailInBounds'
    <3>1. task' \in [Workers -> Attempt]
      BY <2>1, <2>2, <2>9 DEF Acknowledge
    <3>2. notifier = "done" /\ row # "none"
      BY <2>6, <2>9 DEF Acknowledge, Busy
    <3> QED
      BY <2>9, <3>1, <3>2 DEF Acknowledge, MailInBounds, MailTypeOK
  <2>10. ASSUME NEW w \in Workers, Crash(w)
         PROVE  MailInBounds'
    <3>1. task' \in [Workers -> Attempt]
      BY <2>1, <2>2, <2>10 DEF Crash
    <3>2. notifier' = "done" /\ row # "none" /\ row' = row
      BY <2>6, <2>10 DEF Crash
    <3>3. broker' \in [0..MaxRetries -> Count]
      <4>1. task[w].retries \in 0..MaxRetries
        BY <2>1
      <4> QED
        BY <1>0, <2>1, <2>10, <4>1 DEF Crash
    <3>4. mishap' \in BOOLEAN
      BY <2>10 DEF Crash
    <3>5. addressed' = addressed /\ mails' = mails /\ given' = given
      BY <2>10 DEF Crash
    <3> QED
      BY <3>1, <3>2, <3>3, <3>4, <3>5 DEF MailInBounds, MailTypeOK
  <2>11. CASE MarkRead
    <3>1. mishap' \in BOOLEAN
      BY <2>11 DEF MarkRead
    <3> QED
      BY <2>11, <2>bounds, <3>1 DEF MarkRead, MailInBounds, MailTypeOK, Busy
  <2>12. CASE UNCHANGED mailVars
    BY <2>12 DEF mailVars, MailInBounds, MailTypeOK, Busy
  <2> QED
    BY <2>4, <2>5, <2>7, <2>8, <2>9, <2>10, <2>11, <2>12, <2>publish DEF MailNext
<1> QED
  BY <1>1, <1>2, PTL DEF MailSpec

\* Mails, messages and retries stay in their bounds (send_email_notification, self.retry).
THEOREM MailTypeCorrect == MailSpec => []MailTypeOK
<1>1. MailInBounds => MailTypeOK
  BY DEF MailInBounds
<1> QED
  BY <1>1, MailBounds, PTL

\* The workers whose task may still send the mail or try again.
Live(w) == task[w].stage \in {"send", "fail", "sent", "error", "retry"}

MailTypes ==
  /\ row \in {"none", "pending", "sent", "failed", "read"}
  /\ broker \in [0..MaxRetries -> Nat]
  /\ task \in [Workers ->
       [stage : {"free", "send", "fail", "sent", "error", "retry", "end"},
        retries : 0..MaxRetries]]
  /\ mails \in Nat /\ mishap \in BOOLEAN

\* There is one message or one live task at most: a message is taken by one
\* worker, and a retry is a new message for the old one.
OneAttempt ==
  /\ \A r \in 0..MaxRetries : broker[r] <= 1
  /\ \A q, r \in Waiting : q = r
  /\ \A w \in Workers : Live(w) => Waiting = {}
  /\ \A v, w \in Workers : Live(v) /\ Live(w) => v = w

\* Before the mail, between the mail and the row's SENT, and after that.
Unsent == mails = 0 /\ row # "sent" /\ OneAttempt /\ \A w \in Workers : task[w].stage # "sent"
Telling == mails = 1 /\ row # "sent" /\ OneAttempt /\ \E w \in Workers : task[w].stage = "sent"
Told == mails = 1 /\ row = "sent" /\ \A w \in Workers : ~Live(w)

SentOnce == MailTypes /\ (mishap \/ Unsent \/ Telling \/ Told)

\* A task sent on to a stage.
LEMMA TaskGoes ==
  ASSUME MailTypes, NEW w \in Workers,
         NEW stage \in {"free", "send", "fail", "sent", "error", "retry", "end"},
         NEW retries \in 0..MaxRetries,
         task' = [task EXCEPT ![w] = [stage |-> stage, retries |-> retries]]
  PROVE  /\ task' \in [Workers ->
              [stage : {"free", "send", "fail", "sent", "error", "retry", "end"},
               retries : 0..MaxRetries]]
         /\ task'[w] = [stage |-> stage, retries |-> retries]
         /\ \A other \in Workers \ {w} : task'[other] = task[other]
BY DEF MailTypes

\* Goto leaves the number of retries alone.
LEMMA TaskGoesOn ==
  ASSUME MailTypes, NEW w \in Workers,
         NEW stage \in {"free", "send", "fail", "sent", "error", "retry", "end"}, Goto(w, stage)
  PROVE  /\ task' \in [Workers ->
              [stage : {"free", "send", "fail", "sent", "error", "retry", "end"},
               retries : 0..MaxRetries]]
         /\ task'[w] = [stage |-> stage, retries |-> task[w].retries]
         /\ \A other \in Workers \ {w} : task'[other] = task[other]
<1>1. task[w] \in [stage : {"free", "send", "fail", "sent", "error", "retry", "end"},
                   retries : 0..MaxRetries]
  BY DEF MailTypes
<1>2. task' = [task EXCEPT ![w] = [task[w] EXCEPT !.stage = stage]]
  BY DEF Goto, MailTypes
<1>3. [task[w] EXCEPT !.stage = stage] = [stage |-> stage, retries |-> task[w].retries]
  BY <1>1
<1>4. task' = [task EXCEPT ![w] = [stage |-> stage, retries |-> task[w].retries]]
  BY <1>2, <1>3
<1>5. task[w].retries \in 0..MaxRetries
  BY <1>1
<1> QED
  BY <1>4, <1>5, TaskGoes

\* A live task is the only one, and no message waits.
LEMMA LiveIsAlone ==
  ASSUME SentOnce, ~mishap, NEW w \in Workers, Live(w)
  PROVE  /\ Unsent \/ Telling
         /\ Waiting = {}
         /\ \A other \in Workers \ {w} : ~Live(other)
         /\ Unsent <=> task[w].stage # "sent"
<1>1. Unsent \/ Telling
  BY DEF SentOnce, Told
<1>2. OneAttempt
  BY <1>1 DEF Unsent, Telling
<1>3. Waiting = {} /\ \A other \in Workers \ {w} : ~Live(other)
  BY <1>2 DEF OneAttempt
<1>4. Unsent <=> task[w].stage # "sent"
  BY <1>1, <1>3 DEF Unsent, Telling, Live
<1> QED
  BY <1>1, <1>3, <1>4

\* No token left: OneAttempt holds of what remains.
LEMMA NothingLeft ==
  ASSUME MailTypes, Waiting = {}, \A w \in Workers : ~Live(w)
  PROVE  OneAttempt
BY DEF MailTypes, OneAttempt, Waiting

\* A message added to an empty queue is the one attempt.
LEMMA OneMessage ==
  ASSUME MailTypes, Waiting = {}, NEW r \in 0..MaxRetries,
         broker' = [broker EXCEPT ![r] = @ + 1],
         MailTypes', \A w \in Workers : ~Live(w)'
  PROVE  OneAttempt'
<1>1. \A q \in 0..MaxRetries : broker[q] = 0
  BY DEF Waiting, MailTypes
<1>2. \A q \in 0..MaxRetries : broker'[q] = IF q = r THEN 1 ELSE 0
  BY <1>1 DEF MailTypes
<1>3. Waiting' = {r}
  BY <1>2 DEF Waiting, MailTypes
<1> QED
  BY <1>2, <1>3 DEF OneAttempt

\* The row is created before its first message: there is no attempt yet.
LEMMA NotifyKeepsSentOnce ==
  ASSUME SentOnce, MailInBounds, Notify
  PROVE  SentOnce'
<1>1. /\ notifier = "idle" /\ row' = "pending"
      /\ UNCHANGED <<broker, task, mails, mishap>>
  BY DEF Notify
<1>2. row = "none" /\ \A w \in Workers : task[w].stage = "free"
  BY <1>1 DEF MailInBounds, Busy
<1>3. MailTypes'
  BY <1>1 DEF SentOnce, MailTypes
<1>4. OneAttempt => OneAttempt'
  BY <1>1 DEF OneAttempt, Waiting, Live
<1>5. ~Telling /\ ~Told
  BY <1>2 DEF Telling, Told
<1> QED
  BY <1>1, <1>3, <1>4, <1>5 DEF SentOnce, Unsent

\* The first message is the one attempt.
LEMMA PublishKeepsSentOnce ==
  ASSUME SentOnce, MailInBounds, Publish
  PROVE  SentOnce'
<1>1. /\ notifier = "created"
      /\ broker' = broker \/ broker' = [broker EXCEPT ![0] = @ + 1]
      /\ UNCHANGED <<row, task, mails, mishap>>
  BY DEF Publish
<1>2. Waiting = {} /\ \A w \in Workers : task[w].stage = "free"
  <2>1. \A r \in 0..MaxRetries : broker[r] = 0
    BY <1>1 DEF MailInBounds
  <2>2. Waiting = {}
    BY <2>1 DEF Waiting, SentOnce, MailTypes
  <2> QED
    BY <1>1, <2>2 DEF MailInBounds, Busy
<1>3. 0 \in 0..MaxRetries
  BY NotificationsAssumption
<1>4. MailTypes'
  BY <1>1, <1>3 DEF SentOnce, MailTypes
<1>5. \A w \in Workers : ~Live(w)'
  BY <1>1, <1>2 DEF Live
<1>6. OneAttempt'
  <2>1. CASE broker' = broker
    <3>1. Waiting' = {}
      BY <1>2, <2>1 DEF Waiting
    <3> QED
      BY <1>4, <1>5, <3>1 DEF OneAttempt, Waiting, MailTypes
  <2>2. CASE broker' = [broker EXCEPT ![0] = @ + 1]
    BY <1>2, <1>3, <1>4, <1>5, <2>2, OneMessage DEF SentOnce
  <2> QED
    BY <1>1, <2>1, <2>2
<1>7. ~Telling
  BY <1>2 DEF Telling
<1> QED
  BY <1>1, <1>4, <1>5, <1>6, <1>7 DEF SentOnce, Unsent, Told

\* A delivery that starts reads the row that its mail depends on.
LEMMA StartKeepsSentOnce ==
  ASSUME SentOnce, NEW w \in Workers, NEW r \in 0..MaxRetries, Start(w, r)
  PROVE  SentOnce'
<1>1. PICK stage \in {"send", "fail", "end"} :
        /\ task' = [task EXCEPT ![w] = [stage |-> stage, retries |-> r]]
        /\ row = "sent" <=> stage = "end"
        /\ r \in Waiting /\ broker' = [broker EXCEPT ![r] = @ - 1]
        /\ UNCHANGED <<row, mails, mishap>>
  BY DEF Start
<1>2. /\ task' \in [Workers ->
           [stage : {"free", "send", "fail", "sent", "error", "retry", "end"},
            retries : 0..MaxRetries]]
      /\ task'[w] = [stage |-> stage, retries |-> r]
      /\ \A other \in Workers \ {w} : task'[other] = task[other]
  BY <1>1, TaskGoes DEF SentOnce
<1>3. broker[r] > 0 /\ broker \in [0..MaxRetries -> Nat]
  BY <1>1 DEF Waiting, SentOnce, MailTypes
<1>4. MailTypes'
  BY <1>1, <1>2, <1>3 DEF SentOnce, MailTypes
<1>5. CASE mishap
  BY <1>1, <1>4, <1>5 DEF SentOnce
<1>6. CASE ~mishap /\ Unsent
  <2>1. \A q \in 0..MaxRetries : q # r => broker[q] = 0
    BY <1>1, <1>3, <1>6 DEF Unsent, OneAttempt, Waiting
  <2>2. broker[r] = 1
    BY <1>3, <1>6 DEF Unsent, OneAttempt
  <2>3. Waiting' = {}
    BY <1>1, <1>3, <2>1, <2>2 DEF Waiting
  <2>4. \A v \in Workers : ~Live(v)
    BY <1>1, <1>6 DEF Unsent, OneAttempt
  <2>5. \A v \in Workers \ {w} : ~Live(v)'
    BY <1>2, <2>4 DEF Live
  <2>7. OneAttempt'
    BY <1>1, <1>4, <2>3, <2>5 DEF OneAttempt, Waiting, MailTypes
  <2>8. \A v \in Workers : task'[v].stage # "sent"
    BY <1>2, <1>6 DEF Unsent
  <2> QED
    BY <1>1, <1>4, <1>6, <2>7, <2>8 DEF SentOnce, Unsent
<1>7. CASE ~mishap /\ Told
  <2>1. \A v \in Workers : ~Live(v)'
    BY <1>1, <1>2, <1>7 DEF Told, Live
  <2> QED
    BY <1>1, <1>4, <1>7, <2>1 DEF SentOnce, Told
<1>8. CASE ~mishap /\ Telling
  BY <1>1, <1>8, LiveIsAlone DEF Telling, Live
<1> QED
  BY <1>5, <1>6, <1>7, <1>8 DEF SentOnce

\* The steps of a task that is live.
LEMMA TaskKeepsSentOnce ==
  ASSUME SentOnce, NEW w \in Workers,
         Fail(w) \/ SendMail(w) \/ SaveSent(w) \/ SaveFailed(w) \/ Retry(w)
  PROVE  SentOnce'
<1>1. Live(w)
  BY DEF Fail, SendMail, SaveSent, SaveFailed, Retry, Live
<1>2. PICK stage \in {"sent", "error", "retry", "end"} :
        /\ Goto(w, stage)
        /\ mishap' \in {mishap, TRUE}
        /\ row' \in {row, "failed", "sent"}
        /\ mails' \in {mails, mails + 1}
        /\ ~mishap' =>
             \/ /\ task[w].stage = "sent" /\ stage = "end" /\ row' = "sent" /\ mails' = mails
             \/ /\ task[w].stage = "send" /\ stage = "sent" /\ row' = row /\ mails' = mails + 1
             \/ /\ task[w].stage # "sent" /\ stage # "sent" /\ row' \in {row, "failed"}
                /\ mails' = mails
        /\ \/ broker' = broker
           \/ /\ stage = "end" /\ row' = row
              /\ \E r \in 0..MaxRetries : broker' = [broker EXCEPT ![r] = @ + 1]
  <2>1. CASE Fail(w)
    BY <2>1 DEF Fail
  <2>2. CASE SendMail(w)
    BY <2>2 DEF SendMail
  <2>3. CASE SaveSent(w)
    BY <2>3 DEF SaveSent
  <2>4. CASE SaveFailed(w)
    BY <2>4 DEF SaveFailed
  <2>5. CASE Retry(w)
    <3>1. task[w].retries \in 0..MaxRetries
      BY DEF SentOnce, MailTypes
    <3>2. task[w].retries < MaxRetries => task[w].retries + 1 \in 0..MaxRetries
      BY <3>1, NotificationsAssumption
    <3> QED
      BY <2>5, <3>2 DEF Retry
  <2> QED
    BY <2>1, <2>2, <2>3, <2>4, <2>5
<1>3. /\ task' \in [Workers ->
           [stage : {"free", "send", "fail", "sent", "error", "retry", "end"},
            retries : 0..MaxRetries]]
      /\ task'[w].stage = stage
      /\ \A other \in Workers \ {w} : task'[other] = task[other]
  <2>1. MailTypes /\ Goto(w, stage)
    BY <1>2 DEF SentOnce
  <2>2. stage \in {"free", "send", "fail", "sent", "error", "retry", "end"}
    BY <1>2
  <2>3. /\ task' \in [Workers ->
             [stage : {"free", "send", "fail", "sent", "error", "retry", "end"},
              retries : 0..MaxRetries]]
        /\ task'[w] = [stage |-> stage, retries |-> task[w].retries]
        /\ \A other \in Workers \ {w} : task'[other] = task[other]
    BY <2>1, <2>2, TaskGoesOn, Zenon
  <2> QED
    BY <2>3
<1>4. broker' \in [0..MaxRetries -> Nat]
  BY <1>2 DEF SentOnce, MailTypes
<1>5. MailTypes'
  <2>1. row' \in {"none", "pending", "sent", "failed", "read"} /\ mails' \in Nat
    BY <1>2 DEF SentOnce, MailTypes
  <2>2. mishap' \in BOOLEAN
    BY <1>2, Zenon DEF SentOnce, MailTypes
  <2> QED
    BY <1>3, <1>4, <2>1, <2>2 DEF MailTypes
<1>6. CASE mishap'
  BY <1>5, <1>6 DEF SentOnce
<1>7. CASE ~mishap'
  <2>0. ~mishap
    BY <1>2, <1>7, Zenon
  <2>1. /\ Waiting = {}
        /\ \A other \in Workers \ {w} : ~Live(other)
        /\ Unsent <=> task[w].stage # "sent"
        /\ Unsent \/ Telling
    BY <1>1, <2>0, LiveIsAlone
  <2>2. \A other \in Workers \ {w} : ~Live(other)'
    BY <1>3, <2>1 DEF Live
  <2>3. OneAttempt'
    <3>1. CASE broker' = broker
      <4>1. Waiting' = {}
        BY <2>1, <3>1 DEF Waiting
      <4> QED
        BY <1>5, <2>2, <4>1 DEF OneAttempt, Waiting, MailTypes
    <3>2. ASSUME NEW r \in 0..MaxRetries, broker' = [broker EXCEPT ![r] = @ + 1],
                 stage = "end", row' = row
          PROVE  OneAttempt'
      <4>1. \A other \in Workers : ~Live(other)'
        BY <1>3, <2>2, <3>2 DEF Live
      <4> QED
        BY <1>5, <2>1, <3>2, <4>1, OneMessage DEF SentOnce
    <3> QED
      BY <1>2, <3>1, <3>2
  <2>4. CASE task[w].stage = "sent"
    <3>1. stage = "end" /\ row' = "sent" /\ mails' = 1
      BY <1>2, <1>7, <2>1, <2>4 DEF Telling
    <3>2. \A other \in Workers : ~Live(other)'
      BY <1>3, <2>2, <3>1 DEF Live
    <3> QED
      BY <1>5, <3>1, <3>2 DEF SentOnce, Told
  <2>5. CASE task[w].stage = "send" /\ stage = "sent"
    <3>1. row' = row /\ mails' = 1 /\ row # "sent"
      BY <1>2, <1>7, <2>1, <2>5 DEF Unsent
    <3> QED
      BY <1>3, <1>5, <2>3, <2>5, <3>1 DEF SentOnce, Telling
  <2>6. CASE task[w].stage # "sent" /\ stage # "sent"
    <3>1. row' # "sent" /\ mails' = 0
      BY <1>2, <1>7, <2>1, <2>6 DEF Unsent
    <3>2. \A other \in Workers : task'[other].stage # "sent"
      BY <1>3, <2>2, <2>6 DEF Live
    <3> QED
      BY <1>5, <2>3, <3>1, <3>2 DEF SentOnce, Unsent
  <2> QED
    BY <1>2, <1>7, <2>4, <2>5, <2>6
<1> QED
  BY <1>6, <1>7

\* A delivery that ends has written the row, or leaves a mishap behind.
LEMMA EndKeepsSentOnce ==
  ASSUME SentOnce, NEW w \in Workers, Acknowledge(w) \/ Crash(w)
  PROVE  SentOnce'
<1>0. mishap \in BOOLEAN
  BY DEF SentOnce, MailTypes
<1>1. /\ task' = [task EXCEPT ![w] = [stage |-> "free", retries |-> 0]]
      /\ UNCHANGED <<row, mails>>
      /\ mishap' \in BOOLEAN /\ (mishap => mishap')
      /\ task[w].stage # "free"
      /\ ~mishap' => task[w].stage # "sent"
      /\ \/ broker' = broker /\ task[w].stage = "end"
         \/ /\ broker' = [broker EXCEPT ![task[w].retries] = @ + 1]
            /\ ~mishap' => (task[w].stage = "end" => row = "sent")
  <2>1. CASE Acknowledge(w)
    BY <1>0, <2>1 DEF Acknowledge, Free
  <2>2. CASE Crash(w)
    <3>1. mishap' = (mishap \/ task[w].stage = "sent" \/ (task[w].stage = "end" /\ row # "sent"))
      BY <2>2 DEF Crash
    <3>2. mishap' \in BOOLEAN /\ (mishap => mishap')
      BY <1>0, <3>1
    <3>3. /\ ~mishap' => task[w].stage # "sent"
          /\ ~mishap' => (task[w].stage = "end" => row = "sent")
      BY <1>0, <3>1
    <3> QED
      BY <2>2, <3>2, <3>3 DEF Crash, Free, Busy
  <2> QED
    BY <2>1, <2>2
<1>2. /\ task' \in [Workers ->
           [stage : {"free", "send", "fail", "sent", "error", "retry", "end"},
            retries : 0..MaxRetries]]
      /\ task'[w].stage = "free"
      /\ \A other \in Workers \ {w} : task'[other] = task[other]
  <2>1. MailTypes /\ 0 \in 0..MaxRetries
    BY NotificationsAssumption DEF SentOnce
  <2> QED
    BY <1>1, <2>1, TaskGoes
<1>3. task[w].retries \in 0..MaxRetries
  BY DEF SentOnce, MailTypes
<1>4. MailTypes'
  BY <1>1, <1>2, <1>3 DEF SentOnce, MailTypes
<1>5. CASE mishap'
  BY <1>4, <1>5 DEF SentOnce
<1>6. CASE ~mishap' /\ Live(w)
  <2>1. /\ Waiting = {} /\ Unsent
        /\ \A other \in Workers \ {w} : ~Live(other)
    BY <1>1, <1>6, LiveIsAlone
  <2>2. \A other \in Workers : ~Live(other)'
    BY <1>2, <2>1 DEF Live
  <2>3. OneAttempt'
    BY <1>1, <1>3, <1>4, <1>6, <2>1, <2>2, OneMessage DEF SentOnce, Live
  <2> QED
    BY <1>1, <1>4, <2>1, <2>2, <2>3 DEF SentOnce, Unsent, Live
<1>7. CASE ~mishap' /\ ~Live(w)
  <2>1. task[w].stage = "end"
    BY <1>1, <1>7 DEF SentOnce, MailTypes, Live
  <2>2. \A other \in Workers : Live(other)' <=> Live(other)
    BY <1>2, <1>7 DEF Live
  <2>3. CASE Told
    BY <1>1, <1>4, <2>2, <2>3 DEF SentOnce, Told
  <2>4. CASE Unsent \/ Telling
    <3>1. broker' = broker
      BY <1>1, <1>7, <2>1, <2>4 DEF Unsent, Telling
    <3>2. OneAttempt'
      BY <1>1, <2>2, <2>4, <3>1 DEF Unsent, Telling, OneAttempt, Waiting
    <3>3. \A other \in Workers : task'[other].stage = "sent" <=> task[other].stage = "sent"
      BY <1>2, <2>1
    <3> QED
      BY <1>1, <1>4, <2>4, <3>2, <3>3 DEF SentOnce, Unsent, Telling
  <2> QED
    BY <1>1, <1>7, <2>3, <2>4 DEF SentOnce
<1> QED
  BY <1>5, <1>6, <1>7

\* mark_read changes only what mark_read and the task write.
LEMMA MarkReadKeepsSentOnce ==
  ASSUME SentOnce, MarkRead
  PROVE  SentOnce'
<1>1. /\ row # "none" /\ row' = "read"
      /\ mishap' = (mishap \/ row = "sent")
      /\ UNCHANGED <<broker, task, mails>>
  BY DEF MarkRead
<1>2. MailTypes'
  BY <1>1 DEF SentOnce, MailTypes
<1>3. \A w \in Workers : Live(w)' <=> Live(w)
  BY <1>1 DEF Live
<1>4. OneAttempt => OneAttempt'
  BY <1>1, <1>3 DEF OneAttempt, Waiting
<1> QED
  BY <1>1, <1>2, <1>4 DEF SentOnce, Unsent, Telling, Told

\* The invariant holds of the service.
THEOREM SentOnceInvariant == MailSpec => []SentOnce
<1>1. MailInit => SentOnce
  <2> SUFFICES ASSUME MailInit PROVE SentOnce
    OBVIOUS
  <2>0. mishap \in BOOLEAN
    BY Zenon DEF MailInit
  <2>1. MailTypes
    BY <2>0, NotificationsAssumption DEF MailInit, MailTypes, Free
  <2>3. Waiting = {} /\ \A w \in Workers : task[w].stage = "free"
    BY DEF MailInit, Waiting, Free
  <2>2. OneAttempt
    BY <2>1, <2>3, NothingLeft DEF Live
  <2> QED
    BY <2>1, <2>2, <2>3 DEF MailInit, SentOnce, Unsent
<1>2. SentOnce /\ MailInBounds /\ [MailNext]_mailVars => SentOnce'
  <2> SUFFICES ASSUME SentOnce, MailInBounds, [MailNext]_mailVars PROVE SentOnce'
    OBVIOUS
  <2>1. CASE UNCHANGED mailVars
    BY <2>1 DEF mailVars, SentOnce, MailTypes, Unsent, Telling, Told, OneAttempt, Waiting, Live
  <2> QED
    BY <2>1, NotifyKeepsSentOnce, PublishKeepsSentOnce, StartKeepsSentOnce, TaskKeepsSentOnce, EndKeepsSentOnce,
       MarkReadKeepsSentOnce DEF MailNext
<1> QED
  BY <1>1, <1>2, MailBounds, PTL DEF MailSpec

\* The mail goes out once, unless the row could not be told or lost what it was
\* told, for any number of workers, retries and crashes.
THEOREM TwiceIsExplained == MailSpec => []TwiceOnlyAfterMishap
<1>1. SentOnce => TwiceOnlyAfterMishap
  BY DEF SentOnce, Unsent, Telling, Told, TwiceOnlyAfterMishap
<1> QED
  BY <1>1, SentOnceInvariant, PTL

\* Somebody still tries.
Tried == Waiting # {} \/ \E w \in Workers : Live(w)

\* A mail that is not out has not been reported, and somebody tries it.
NotForgotten ==
  /\ row = "sent" => mails > 0
  /\ \A w \in Workers : task[w].stage = "sent" => mails > 0
  /\ \A w \in Workers : task[w].stage = "fail" => ~addressed
  /\ row # "none" /\ addressed /\ mails = 0 /\ ~given => notifier = "created" \/ Tried

\* A message that is handed to a worker, and one that is written.
LEMMA StartKeepsTrying ==
  ASSUME MailTypes, NotForgotten, NEW w \in Workers, NEW r \in 0..MaxRetries, Start(w, r)
  PROVE  NotForgotten'
<1>1. PICK stage \in {"send", "fail", "end"} :
        /\ task' = [task EXCEPT ![w] = [stage |-> stage, retries |-> r]]
        /\ stage = "end" => row = "sent"
        /\ stage = "fail" => ~addressed
        /\ UNCHANGED <<notifier, row, addressed, mails, given>>
  BY DEF Start
<1>2. /\ task'[w] = [stage |-> stage, retries |-> r]
      /\ \A other \in Workers \ {w} : task'[other] = task[other]
  BY <1>1, TaskGoes
<1>3. task'[w].stage = stage
  BY <1>2
<1>4. row # "none" /\ addressed /\ mails = 0 /\ ~given => Live(w)'
  BY <1>1, <1>3 DEF NotForgotten, Live
<1> QED
  BY <1>1, <1>2, <1>3, <1>4 DEF NotForgotten, Tried

\* A step of a task leaves something to try, has sent the mail or gives up.
LEMMA TaskKeepsTrying ==
  ASSUME MailTypes, NotForgotten, NEW w \in Workers,
         Fail(w) \/ SendMail(w) \/ SaveSent(w) \/ SaveFailed(w) \/ Retry(w)
  PROVE  NotForgotten'
<1>1. PICK stage \in {"sent", "error", "retry", "end"} :
        /\ Goto(w, stage)
        /\ addressed' = addressed /\ (row' = "sent" => mails' > 0)
        /\ mails' \in Nat /\ mails' >= mails /\ (stage = "sent" => mails' > 0) /\ (given => given')
        /\ stage = "end" => ~addressed \/ mails' > 0 \/ given' \/ Waiting' # {}
        /\ broker' = broker \/ stage = "end"
  <2>1. CASE Fail(w)
    BY <2>1 DEF Fail, NotForgotten, MailTypes
  <2>2. CASE SendMail(w)
    BY <2>2 DEF SendMail, NotForgotten, MailTypes
  <2>3. CASE SaveSent(w)
    BY <2>3 DEF SaveSent, NotForgotten, MailTypes
  <2>4. CASE SaveFailed(w)
    BY <2>4 DEF SaveFailed, NotForgotten, MailTypes
  <2>5. CASE Retry(w)
    <3>1. Goto(w, "end") /\ UNCHANGED <<row, addressed, mails>>
      BY <2>5 DEF Retry
    <3>2. (given => given') /\ (given' \/ Waiting' # {})
      <4>1. task[w].retries \in 0..MaxRetries /\ broker \in [0..MaxRetries -> Nat]
        BY DEF MailTypes
      <4>2. CASE given' = TRUE
        BY <4>2
      <4>3. CASE /\ task[w].retries < MaxRetries
                 /\ broker' = [broker EXCEPT ![task[w].retries + 1] = @ + 1]
                 /\ UNCHANGED given
        <5>1. task[w].retries + 1 \in 0..MaxRetries
          BY <4>1, <4>3, NotificationsAssumption
        <5>2. broker'[task[w].retries + 1] > 0 /\ DOMAIN broker' = 0..MaxRetries
          BY <4>1, <4>3, <5>1
        <5> QED
          BY <4>3, <5>1, <5>2 DEF Waiting
      <4> QED
        BY <2>5, <4>2, <4>3 DEF Retry
    <3> QED
      BY <3>1, <3>2 DEF NotForgotten, MailTypes
  <2> QED
    BY <2>1, <2>2, <2>3, <2>4, <2>5
<1>2. /\ task'[w] = [stage |-> stage, retries |-> task[w].retries]
      /\ \A other \in Workers \ {w} : task'[other] = task[other]
  <2>1. stage \in {"free", "send", "fail", "sent", "error", "retry", "end"} /\ Goto(w, stage)
    BY <1>1
  <2> QED
    BY <2>1, TaskGoesOn, Zenon
<1>3. task'[w].stage = stage
  BY <1>2
<1>4. ASSUME NEW v \in Workers, task'[v].stage = "sent" PROVE mails' > 0
  <2>1. CASE v = w
    BY <1>1, <1>3, <1>4, <2>1
  <2>2. CASE v # w
    <3>1. task[v].stage = "sent"
      BY <1>2, <1>4, <2>2
    <3>2. mails > 0 /\ mails \in Nat
      BY <3>1 DEF NotForgotten, MailTypes
    <3> QED
      BY <1>1, <3>2
  <2> QED
    BY <2>1, <2>2
<1>5. \A v \in Workers : task'[v].stage = "fail" => ~addressed'
  BY <1>1, <1>2, <1>3 DEF NotForgotten
<1>6. stage # "end" => Live(w)'
  BY <1>3 DEF Live
<1>7. addressed' /\ mails' = 0 /\ ~given' => Tried'
  BY <1>1, <1>6 DEF Tried
<1> QED
  BY <1>1, <1>4, <1>5, <1>7 DEF NotForgotten

\* A task that is over was not the one to try; one that is lost comes back.
LEMMA EndKeepsTrying ==
  ASSUME MailTypes, NotForgotten, NEW w \in Workers, Acknowledge(w) \/ Crash(w)
  PROVE  NotForgotten'
<1>1. /\ task' = [task EXCEPT ![w] = [stage |-> "free", retries |-> 0]]
      /\ UNCHANGED <<notifier, row, addressed, mails, given>>
      /\ \/ broker' = broker /\ task[w].stage = "end"
         \/ broker' = [broker EXCEPT ![task[w].retries] = @ + 1]
  BY DEF Acknowledge, Crash, Free
<1>2. /\ task'[w].stage = "free"
      /\ \A other \in Workers \ {w} : task'[other] = task[other]
  <2>1. 0 \in 0..MaxRetries
    BY NotificationsAssumption
  <2> QED
    BY <1>1, <2>1, TaskGoes
<1>3. Tried => Tried'
  <2>1. CASE broker' = broker /\ task[w].stage = "end"
    BY <1>2, <2>1 DEF Tried, Waiting, Live
  <2>2. CASE broker' = [broker EXCEPT ![task[w].retries] = @ + 1]
    <3>1. task[w].retries \in 0..MaxRetries /\ broker \in [0..MaxRetries -> Nat]
      BY DEF MailTypes
    <3>2. task[w].retries \in DOMAIN broker' /\ broker'[task[w].retries] > 0
      BY <2>2, <3>1
    <3> QED
      BY <3>2 DEF Tried, Waiting
  <2> QED
    BY <1>1, <2>1, <2>2
<1> QED
  BY <1>1, <1>2, <1>3 DEF NotForgotten

\* A mail that never went out is still to be tried, whatever workers die and
\* messages come back.
THEOREM NeverForgotten == MailSpec => []MailIsNotForgotten
<1>1. MailInit => NotForgotten
  BY DEF MailInit, NotForgotten, Free
<1>2. MailTypes /\ NotForgotten /\ [MailNext]_mailVars => NotForgotten'
  <2> SUFFICES ASSUME MailTypes, NotForgotten, [MailNext]_mailVars PROVE NotForgotten'
    OBVIOUS
  <2>1. CASE Notify
    BY <2>1 DEF Notify, NotForgotten
  <2>4. CASE Publish
    <3>1. /\ UNCHANGED <<row, addressed, task, mails>>
          /\ (given => given')
          /\ given' \/ broker' = [broker EXCEPT ![0] = @ + 1]
      BY <2>4 DEF Publish
    <3>2. broker' = [broker EXCEPT ![0] = @ + 1] => Tried'
      <4>1. broker' = [broker EXCEPT ![0] = @ + 1] => 0 \in DOMAIN broker' /\ broker'[0] > 0
        BY NotificationsAssumption DEF MailTypes
      <4> QED
        BY <4>1 DEF Tried, Waiting
    <3> QED
      BY <3>1, <3>2 DEF NotForgotten
  <2>2. CASE MarkRead
    BY <2>2 DEF MarkRead, NotForgotten, Tried, Waiting, Live
  <2>3. CASE UNCHANGED mailVars
    BY <2>3 DEF mailVars, NotForgotten, Tried, Waiting, Live
  <2> QED
    BY <2>1, <2>2, <2>3, <2>4, StartKeepsTrying, TaskKeepsTrying, EndKeepsTrying DEF MailNext
<1>3. NotForgotten => MailIsNotForgotten
  BY DEF NotForgotten, Tried, Live, Busy, MailIsNotForgotten
<1>4. SentOnce => MailTypes
  BY DEF SentOnce
<1> QED
  BY <1>1, <1>2, <1>3, <1>4, SentOnceInvariant, PTL DEF MailSpec

---------------------------------------------------------------------------
(* OrderStream: what clients are told.                                     *)

\* What ALLOWED_TRANSITIONS allows is onward, and so is what is onward from there.
LEMMA OnwardSteps ==
  ASSUME NEW s \in Statuses
  PROVE  /\ Allowed[s] \subseteq Onward(s) /\ Onward(s) \subseteq Statuses /\ s \in Onward(s)
         /\ \A t \in Onward(s) : Onward(t) \subseteq Onward(s)
<1>1. \A t \in Statuses : Allowed[t] \subseteq Statuses
  BY DEF Statuses, Allowed
<1> DEFINE Closed == {S \in SUBSET Statuses : \A t \in S : Allowed[t] \subseteq S}
<1>2. \A x \in Statuses :
        Later[x] = {t \in Statuses : \A S \in Closed : Allowed[x] \subseteq S => t \in S}
  BY DEF Later
<1>3. Allowed[s] \subseteq Later[s] /\ Later[s] \subseteq Statuses
  BY <1>1, <1>2
<1>4. ASSUME NEW t \in Later[s] PROVE Later[t] \subseteq Later[s]
  <2>1. t \in Statuses
    BY <1>2, <1>4
  <2>2. ASSUME NEW u \in Later[t], NEW S \in Closed, Allowed[s] \subseteq S PROVE u \in S
    <3>1. t \in S
      BY <1>2, <1>4, <2>2
    <3>2. Allowed[t] \subseteq S
      BY <2>2, <3>1
    <3> QED
      BY <1>2, <2>1, <2>2, <3>2
  <2>3. Later[t] \subseteq Statuses
    BY <1>2, <2>1
  <2> QED
    BY <1>2, <2>2, <2>3
<1> QED
  BY <1>3, <1>4 DEF Onward

\* What a client was told (t) and will be told (q) goes forward, up to a status.
Ascending(t, q) ==
  /\ \A i, j \in 1..Len(q) : i < j => q[j] \in Onward(q[i])
  /\ t # "nothing" => \A j \in 1..Len(q) : q[j] \in Onward(t)

UpTo(t, q, f) ==
  /\ \A i \in 1..Len(q) : f \in Onward(q[i])
  /\ t # "nothing" => f \in Onward(t)

EndsAt(t, q, f) == (IF q = <<>> THEN t ELSE q[Len(q)]) \in {"nothing", f}

\* A status that is onward is onward from all that was said before.
LEMMA NextIsOnward ==
  ASSUME NEW t \in Statuses \cup {"nothing"}, NEW q \in Seq(Statuses), NEW f \in Statuses,
         NEW m \in Onward(f), UpTo(t, q, f)
  PROVE  UpTo(t, q, m)
<1>1. \A x \in Statuses : f \in Onward(x) => m \in Onward(x)
  BY OnwardSteps
<1>2. \A i \in 1..Len(q) : q[i] \in Statuses
  BY ElementOfSeq
<1> QED
  BY <1>1, <1>2 DEF UpTo

\* So it may be said next.
LEMMA SayNext ==
  ASSUME NEW t, NEW q, NEW f, NEW m, NEW new,
         t \in Statuses \cup {"nothing"}, q \in Seq(Statuses), f \in Statuses,
         m \in Onward(f), UpTo(t, q, f), Ascending(t, q), new = Append(q, m)
  PROVE  UpTo(t, new, m) /\ Ascending(t, new)
<1>1. m \in Statuses /\ m \in Onward(m)
  BY OnwardSteps
<1>2. /\ Len(new) = Len(q) + 1
      /\ \A i \in 1..Len(q) : new[i] = q[i]
      /\ new[Len(q) + 1] = m
  <2>1. Append(q, m) = new
    OBVIOUS
  <2> QED
    BY <1>1, <2>1, AppendProperties
<1>3. Len(q) \in Nat
  BY LenProperties
<1>4. UpTo(t, q, m)
  BY NextIsOnward
<1>5. \A i \in 1..Len(new) : i \in 1..Len(q) \/ i = Len(q) + 1
  BY <1>2, <1>3
<1>6. UpTo(t, new, m)
  BY <1>1, <1>2, <1>4, <1>5 DEF UpTo
<1>7. \A i, j \in 1..Len(new) : i < j => i \in 1..Len(q) /\ (j \in 1..Len(q) \/ j = Len(q) + 1)
  BY <1>2, <1>3
<1>8. Ascending(t, new)
  BY <1>2, <1>4, <1>5, <1>7 DEF Ascending, UpTo
<1> QED
  BY <1>6, <1>8

\* What is said is the last that is heard.
LEMMA SaidLast ==
  ASSUME NEW t, NEW q, NEW m, NEW new,
         q \in Seq(Statuses), m \in Statuses, new = Append(q, m)
  PROVE  new \in Seq(Statuses) /\ EndsAt(t, new, m)
<1>1. Append(q, m) = new
  OBVIOUS
<1>2. /\ new \in Seq(Statuses) /\ new # <<>>
      /\ Len(new) = Len(q) + 1 /\ new[Len(q) + 1] = m
  BY <1>1, AppendProperties
<1> QED
  BY <1>2 DEF EndsAt

\* Fetching the first message, or dropping it, keeps the rest ...
LEMMA FetchFirst ==
  ASSUME NEW t, NEW q, NEW f, NEW first, NEW rest,
         t \in Statuses \cup {"nothing"}, q \in Seq(Statuses), f \in Statuses, q # <<>>,
         Ascending(t, q), UpTo(t, q, f), first = Head(q), rest = Tail(q)
  PROVE  /\ Ascending(first, rest) /\ Ascending(t, rest)
         /\ UpTo(first, rest, f) /\ UpTo(t, rest, f)
<1>1. /\ rest \in Seq(Statuses) /\ Len(rest) = Len(q) - 1
      /\ \A i \in 1..Len(rest) : rest[i] = q[i + 1]
  BY HeadTailProperties, Zenon
<1>2. Len(q) \in Nat \ {0}
  BY EmptySeq, LenProperties
<1>3. first = q[1] /\ first \in Statuses
  BY <1>2, ElementOfSeq
<1>4. \A i \in 1..Len(rest) : i + 1 \in 1..Len(q) /\ 1 < i + 1
  BY <1>1, <1>2
<1>5. 1 \in 1..Len(q)
  BY <1>2
<1>6. Ascending(first, rest) /\ Ascending(t, rest)
  <2>1. \A i, j \in 1..Len(rest) : i < j => rest[j] \in Onward(rest[i])
    BY <1>1, <1>2, <1>4 DEF Ascending
  <2>2. \A j \in 1..Len(rest) : rest[j] \in Onward(first)
    BY <1>1, <1>3, <1>4, <1>5 DEF Ascending
  <2>3. t # "nothing" => \A j \in 1..Len(rest) : rest[j] \in Onward(t)
    BY <1>1, <1>4 DEF Ascending
  <2> QED
    BY <2>1, <2>2, <2>3 DEF Ascending
<1>7. UpTo(first, rest, f) /\ UpTo(t, rest, f)
  BY <1>1, <1>3, <1>4, <1>5 DEF UpTo
<1> QED
  BY <1>6, <1>7

\* ... and the last of it.
LEMMA FetchLast ==
  ASSUME NEW t, NEW q, NEW f, NEW first, NEW rest,
         q \in Seq(Statuses), q # <<>>, first = Head(q), rest = Tail(q), EndsAt(t, q, f)
  PROVE  EndsAt(first, rest, f)
<1>1. /\ rest \in Seq(Statuses) /\ Len(rest) = Len(q) - 1
      /\ \A i \in 1..Len(rest) : rest[i] = q[i + 1]
  BY HeadTailProperties, Zenon
<1>2. Len(q) \in Nat \ {0}
  BY EmptySeq, LenProperties
<1>3. first = q[1]
  BY <1>2, ElementOfSeq
<1>4. CASE Len(q) = 1
  <2>1. rest = <<>>
    BY <1>1, <1>4, EmptySeq
  <2> QED
    BY <1>3, <1>4, <2>1 DEF EndsAt
<1>5. CASE Len(q) # 1
  <2>1. Len(rest) \in 1..Len(rest) /\ Len(rest) # 0 /\ Len(rest) + 1 = Len(q)
    BY <1>1, <1>2, <1>5
  <2>2. rest # <<>>
    BY <2>1, EmptySeq
  <2> QED
    BY <1>1, <2>1, <2>2 DEF EndsAt
<1> QED
  BY <1>4, <1>5

---------------------------------------------------------------------------

\* Whether a write is open whose event was sent, and the status that events
\* and queries should agree on: the one it writes, or else the committed one.
Open == holder \in Writers /\ writing[holder].stage = "written"

Said == IF Open THEN writing[holder].to ELSE saved

\* Clients outside the groups hear nothing, and what a transaction has read or
\* checked is the committed status, which its lock keeps as it is; a webhook that
\* was heard has told it.
WritesAllowed ==
  /\ \A s \in Sockets \ group : queue[s] = <<>> /\ told[s] = "nothing"
  /\ \A w \in Writers :
       /\ writing[w].stage = "heard" => writing[w].to = saved /\ ~silent
       /\ writing[w].stage \in {"checked", "written"} => writing[w].to \in Allowed[saved]

\* What a client hears goes forward, and not past the status that is said.
HearsForward(s) == Ascending(told[s], queue[s]) /\ UpTo(told[s], queue[s], Said)

\* The last a client hears is what is said, if it has heard anything.
HearsLast(s) == (silent /\ ~Open) \/ EndsAt(told[s], queue[s], Said)

\* The invariant: all of this, until an event is sent for nothing or too late;
\* a status that is forced upsets only the order of what is heard.
StreamKept ==
  /\ StreamTypeOK
  /\ WritesAllowed
  /\ upsets = {} => \A s \in Sockets : HearsForward(s)
  /\ upsets \subseteq {"forced"} => \A s \in group \ lost : HearsLast(s)

\* A transaction that has read the order holds its lock and is the only one.
LEMMA OneWrites ==
  ASSUME StreamKept, NEW w \in Writers, writing[w].stage # "quiet"
  PROVE  /\ holder = w /\ \A v \in Writers \ {w} : writing[v] = Quiet
         /\ writing[w].to \in Onward(saved) /\ writing[w].to \in Statuses
<1>1. \A v \in Writers : writing[v] # Quiet => holder = v
  BY DEF StreamKept, StreamTypeOK
<1>2. writing[w] # Quiet
  BY DEF Quiet
<1>3. saved \in Statuses /\ (writing[w].to = saved \/ writing[w].to \in Allowed[saved])
  BY DEF StreamKept, StreamTypeOK, WritesAllowed
<1>4. writing[w].to \in Onward(saved) /\ writing[w].to \in Statuses
  BY <1>3, OnwardSteps
<1> QED
  BY <1>1, <1>2, <1>4

\* group_send: whom it reaches has the message in the queue, and the others have
\* lost it.
LEMMA Sending ==
  ASSUME StreamKept, NEW m \in Statuses,
         \E members \in {{}, group \cap Followers, group} : Send(members, m)
  PROVE  /\ queue' \in [Sockets -> Seq(Statuses)]
         /\ lost \subseteq lost' /\ lost' \subseteq group
         /\ \A s \in Sockets : queue'[s] = queue[s] \/ queue'[s] = Append(queue[s], m)
         /\ \A s \in Sockets \ group : queue'[s] = queue[s]
         /\ \A s \in group \ lost' : s \notin lost /\ queue'[s] = Append(queue[s], m)
<1>1. PICK members \in {{}, group \cap Followers, group} : Send(members, m)
  OBVIOUS
<1>2. /\ group \subseteq Sockets /\ lost \subseteq group
      /\ \A s \in Sockets : queue[s] \in Seq(Statuses)
  BY DEF StreamKept, StreamTypeOK
<1>3. \A s \in Sockets : Append(queue[s], m) \in Seq(Statuses)
  BY <1>2, AppendProperties
<1> QED
  BY <1>1, <1>2, <1>3 DEF Send

\* Who hears what is onward from what was said hears it go forward ...
LEMMA HeardForward ==
  ASSUME StreamKept, NEW s \in Sockets, NEW f, NEW m, f \in Statuses, m \in Onward(f),
         UpTo(told[s], queue[s], f), Ascending(told[s], queue[s]),
         queue'[s] = queue[s] \/ queue'[s] = Append(queue[s], m)
  PROVE  UpTo(told[s], queue'[s], m) /\ Ascending(told[s], queue'[s])
<1> SUFFICES ASSUME NEW t, NEW q, NEW new, t = told[s], q = queue[s], new = queue'[s],
                    t \in Statuses \cup {"nothing"}, q \in Seq(Statuses),
                    UpTo(t, q, f), Ascending(t, q), new = q \/ new = Append(q, m)
             PROVE  UpTo(t, new, m) /\ Ascending(t, new)
  BY DEF StreamKept, StreamTypeOK
<1>1. CASE new = q
  BY <1>1, NextIsOnward
<1>2. CASE new = Append(q, m)
  BY <1>2, SayNext
<1> QED
  BY <1>1, <1>2

\* ... and hears it last.
LEMMA HeardLast ==
  ASSUME StreamKept, NEW s \in Sockets, NEW m, m \in Statuses, queue'[s] = Append(queue[s], m)
  PROVE  EndsAt(told[s], queue'[s], m)
<1>1. queue[s] \in Seq(Statuses)
  BY DEF StreamKept, StreamTypeOK
<1> SUFFICES ASSUME NEW t, NEW q, NEW new, t = told[s], q = queue[s], new = queue'[s],
                    q \in Seq(Statuses), new = Append(q, m)
             PROVE  EndsAt(t, new, m)
  BY <1>1
<1> QED
  BY SaidLast

\* Begin and Proceed say nothing: the status was allowed under the lock.
LEMMA BeginKeepsStream ==
  ASSUME StreamKept, NEW w \in Writers, NEW to \in Written, Begin(w, to) \/ Proceed(w, to)
  PROVE  StreamKept'
<1>1. /\ to \in Allowed[saved] /\ to \in Statuses
      /\ writing' = [writing EXCEPT ![w] = [stage |-> "checked", to |-> to]]
      /\ holder' = w /\ \A v \in Writers \ {w} : writing[v] = Quiet
      /\ writing[w].stage # "written"
      /\ UNCHANGED <<saved, group, queue, told, lost, note, upsets, silent>>
  <2>1. saved \in Statuses /\ \A v \in Writers : writing[v] # Quiet => holder = v
    BY DEF StreamKept, StreamTypeOK
  <2>2. to \in Allowed[saved] /\ to \in Statuses
    BY <2>1, OnwardSteps DEF Begin, Proceed
  <2>3. CASE Begin(w, to)
    BY <2>1, <2>2, <2>3, StreamAssumption DEF Begin, Quiet
  <2>4. CASE Proceed(w, to)
    BY <2>2, <2>4, OneWrites DEF Proceed
  <2> QED
    BY <2>3, <2>4
<1>2. StreamTypeOK'
  BY <1>1 DEF StreamKept, StreamTypeOK
<1>3. WritesAllowed'
  <2>1. \A v \in Writers : writing'[v] = IF v = w THEN [stage |-> "checked", to |-> to] ELSE Quiet
    BY <1>1 DEF StreamKept, StreamTypeOK
  <2> QED
    BY <1>1, <2>1 DEF StreamKept, WritesAllowed, Quiet
<1>4. ~Open /\ ~Open' /\ Said' = Said
  BY <1>1 DEF StreamKept, StreamTypeOK, Open, Said, Quiet
<1>5. \A s \in Sockets : HearsForward(s) => HearsForward(s)'
  BY <1>1, <1>4 DEF HearsForward
<1>6. \A s \in Sockets : HearsLast(s) => HearsLast(s)'
  BY <1>1, <1>4 DEF HearsLast
<1> QED
  BY <1>1, <1>2, <1>3, <1>5, <1>6 DEF StreamKept, StreamTypeOK

\* Commit makes what was said the committed status.
LEMMA CommitKeepsStream ==
  ASSUME StreamKept, NEW w \in Writers, Commit(w)
  PROVE  StreamKept'
<1>1. /\ holder = w /\ \A v \in Writers \ {w} : writing[v] = Quiet
      /\ writing[w].to \in Statuses
  BY OneWrites DEF Commit
<1>2. StreamTypeOK'
  BY <1>1, StreamAssumption DEF StreamKept, StreamTypeOK, Commit, Quiet
<1>3. \A v \in Writers : writing'[v].stage = "quiet"
  BY <1>1 DEF StreamKept, StreamTypeOK, Commit, Quiet
<1>4. WritesAllowed'
  BY <1>3 DEF StreamKept, WritesAllowed, Commit
<1>5. ~Open' /\ Said' = Said /\ (writing[w].stage = "written" <=> Open)
  <2>1. writing[w].stage = "heard" => writing[w].to = saved
    BY DEF StreamKept, WritesAllowed
  <2> QED
    BY <1>1, <1>3, <2>1, StreamAssumption DEF Commit, Open, Said
<1>6. \A s \in Sockets : HearsForward(s) => HearsForward(s)'
  BY <1>5 DEF Commit, HearsForward
<1>7. ASSUME NEW s \in Sockets, HearsLast(s) PROVE HearsLast(s)'
  <2>1. ~silent \/ Open
    BY <1>1, <1>5 DEF StreamKept, WritesAllowed, Commit
  <2> QED
    BY <1>5, <1>7, <2>1 DEF Commit, HearsLast
<1> QED
  BY <1>2, <1>4, <1>6, <1>7 DEF StreamKept, StreamTypeOK, Commit

\* RollBack before the event leaves nothing; after it, the exception begins.
LEMMA RollBackKeepsStream ==
  ASSUME StreamKept, NEW w \in Writers, RollBack(w)
  PROVE  StreamKept'
<1>1. /\ holder = w /\ \A v \in Writers \ {w} : writing[v] = Quiet
  BY OneWrites DEF RollBack
<1>2. /\ upsets \subseteq upsets' /\ upsets' \subseteq upsets \cup {"undone"}
      /\ writing[w].stage = "written" => "undone" \in upsets'
  BY DEF RollBack
<1>3. StreamTypeOK'
  BY <1>1, <1>2, StreamAssumption DEF StreamKept, StreamTypeOK, RollBack, Quiet
<1>4. \A v \in Writers : writing'[v].stage = "quiet"
  BY <1>1 DEF StreamKept, StreamTypeOK, RollBack, Quiet
<1>5. WritesAllowed'
  BY <1>4 DEF StreamKept, WritesAllowed, RollBack
<1>6. upsets' \subseteq {"forced"} => ~Open /\ ~Open' /\ Said' = Said
  BY <1>1, <1>2, <1>4 DEF RollBack, Open, Said
<1>7. upsets' = {} => \A s \in Sockets : HearsForward(s)'
  BY <1>2, <1>6 DEF StreamKept, RollBack, HearsForward
<1>8. upsets' \subseteq {"forced"} => \A s \in group \ lost : HearsLast(s)'
  BY <1>2, <1>6 DEF StreamKept, RollBack, HearsLast
<1> QED
  BY <1>3, <1>5, <1>7, <1>8 DEF StreamKept, RollBack

\* SetByHand tells nobody; what it sets is onward from all that was told, or the
\* status is forced.
LEMMA SetByHandKeepsStream ==
  ASSUME StreamKept, NEW new \in Statuses, SetByHand(new)
  PROVE  StreamKept'
<1>1. /\ saved \in Statuses /\ silent \in BOOLEAN
      /\ \A s \in Sockets : /\ told[s] \in Statuses \cup {"nothing"}
                            /\ queue[s] \in Seq(Statuses)
  BY DEF StreamKept, StreamTypeOK
<1>2. /\ upsets \subseteq upsets' /\ upsets' \subseteq upsets \cup {"forced"}
      /\ upsets' = {} => new \in Onward(saved)
      /\ silent' \in BOOLEAN /\ (~silent' => ~silent /\ new = saved)
  BY <1>1 DEF SetByHand
<1>3. StreamTypeOK'
  BY <1>2 DEF StreamKept, StreamTypeOK, SetByHand
<1>4. \A v \in Writers : writing[v].stage = "quiet"
  BY OneWrites, StreamAssumption DEF SetByHand
<1>5. WritesAllowed'
  BY <1>4 DEF StreamKept, WritesAllowed, SetByHand
<1>6. ~Open /\ ~Open' /\ Said = saved /\ Said' = new
  BY <1>4, StreamAssumption DEF SetByHand, Open, Said
<1>7. ASSUME upsets' = {}, NEW s \in Sockets PROVE HearsForward(s)'
  <2>1. upsets = {} /\ new \in Onward(saved)
    BY <1>2, <1>7
  <2>2. UpTo(told[s], queue[s], saved) /\ Ascending(told[s], queue[s])
    BY <1>6, <2>1 DEF StreamKept, HearsForward
  <2>3. UpTo(told[s], queue[s], new)
    BY <1>1, <2>1, <2>2, NextIsOnward
  <2> QED
    BY <1>6, <2>2, <2>3 DEF SetByHand, HearsForward
<1>8. upsets' \subseteq {"forced"} => \A s \in group \ lost : HearsLast(s)'
  BY <1>2, <1>6 DEF StreamKept, SetByHand, HearsLast
<1> QED
  BY <1>3, <1>5, <1>7, <1>8 DEF StreamKept, SetByHand

\* Hear and Write: the lock is held, so that what is sent is what Said becomes,
\* and onward from what it was.
LEMMA SayKeepsStream ==
  ASSUME StreamKept, NEW w \in Writers, Hear(w) \/ Write(w)
  PROVE  StreamKept'
<1> DEFINE m == IF writing[w].stage = "checked" THEN writing[w].to ELSE saved
<1>1. /\ saved \in Statuses /\ group \subseteq Sockets
      /\ \A v \in Writers : writing[v] # Quiet => holder = v
  BY DEF StreamKept, StreamTypeOK
<1>2. /\ holder' = w /\ \A v \in Writers \ {w} : writing[v] = Quiet
      /\ m \in Onward(saved) /\ m \in Statuses /\ ~Open
  <2>1. CASE Hear(w)
    <3>1. writing[w].stage = "quiet" /\ \A v \in Writers : writing[v] = Quiet
      BY <1>1, <2>1, StreamAssumption DEF Hear, Quiet
    <3>2. saved \in Onward(saved)
      BY <1>1, OnwardSteps
    <3> QED
      BY <1>1, <2>1, <3>1, <3>2, StreamAssumption DEF Hear, Open
  <2>2. CASE Write(w)
    BY <2>2, OneWrites DEF Write, Open
  <2> QED
    BY <2>1, <2>2
<1>3. \E members \in {{}, group \cap Followers, group} : Send(members, m)
  BY DEF Hear, Write, Quiet
<1>4. /\ queue' \in [Sockets -> Seq(Statuses)]
      /\ lost \subseteq lost' /\ lost' \subseteq group
      /\ \A s \in Sockets : queue'[s] = queue[s] \/ queue'[s] = Append(queue[s], m)
      /\ \A s \in Sockets \ group : queue'[s] = queue[s]
      /\ \A s \in group \ lost' : s \notin lost /\ queue'[s] = Append(queue[s], m)
  <2> HIDE DEF m
  <2> QED
    BY <1>2, <1>3, Sending
<1>5. PICK stage \in {"heard", "written"} :
        /\ writing' = [writing EXCEPT ![w] = [stage |-> stage, to |-> m]]
        /\ stage = "heard" => m = saved /\ silent' = FALSE
        /\ stage = "written" => m \in Allowed[saved] /\ silent' = silent
        /\ UNCHANGED <<saved, group, told, note, upsets>>
  <2>1. CASE Hear(w)
    BY <2>1 DEF Hear, Quiet
  <2>2. CASE Write(w)
    <3>1. writing[w] \in [stage : {"quiet", "heard", "checked", "written"},
                          to : Statuses \cup {"nothing"}]
      BY DEF StreamKept, StreamTypeOK
    <3>2. writing' = [writing EXCEPT ![w] = [writing[w] EXCEPT !.stage = "written"]]
      BY <2>2 DEF Write, StreamKept, StreamTypeOK
    <3>3. [writing[w] EXCEPT !.stage = "written"] = [stage |-> "written", to |-> m]
      BY <2>2, <3>1 DEF Write
    <3>4. m \in Allowed[saved]
      BY <2>2 DEF Write, StreamKept, WritesAllowed
    <3> QED
      BY <2>2, <3>2, <3>3, <3>4 DEF Write
  <2> QED
    BY <2>1, <2>2
<1> HIDE DEF m
<1>6. StreamTypeOK'
  BY <1>2, <1>4, <1>5 DEF StreamKept, StreamTypeOK
<1>7. \A v \in Writers : writing'[v] = IF v = w THEN [stage |-> stage, to |-> m] ELSE Quiet
  BY <1>2, <1>5 DEF StreamKept, StreamTypeOK
<1>8. WritesAllowed'
  <2>1. \A s \in Sockets \ group : queue'[s] = <<>> /\ told'[s] = "nothing"
    BY <1>4, <1>5 DEF StreamKept, WritesAllowed
  <2> QED
    BY <1>5, <1>7, <2>1 DEF WritesAllowed, Quiet
<1>9. Said = saved /\ Said' = m
  BY <1>2, <1>5, <1>7 DEF Open, Said
<1>10. upsets' = {} => \A s \in Sockets : HearsForward(s)'
  <2> SUFFICES ASSUME upsets = {}, NEW s \in Sockets PROVE HearsForward(s)'
    BY <1>5
  <2>1. UpTo(told[s], queue[s], saved) /\ Ascending(told[s], queue[s])
    BY <1>9 DEF StreamKept, HearsForward
  <2>2. UpTo(told[s], queue'[s], m) /\ Ascending(told[s], queue'[s])
    BY <1>1, <1>2, <1>4, <2>1, HeardForward
  <2> QED
    BY <1>5, <1>9, <2>2 DEF HearsForward
<1>11. \A s \in group' \ lost' : HearsLast(s)'
  <2> SUFFICES ASSUME NEW s \in group \ lost' PROVE HearsLast(s)'
    BY <1>5
  <2>1. EndsAt(told[s], queue'[s], m)
    BY <1>1, <1>2, <1>4, HeardLast
  <2> QED
    BY <1>5, <1>9, <2>1 DEF HearsLast
<1> QED
  BY <1>6, <1>8, <1>10, <1>11 DEF StreamKept

\* An event added by hand says what is said anyway, or is outdated.
LEMMA AddEventKeepsStream ==
  ASSUME StreamKept, AddEvent
  PROVE  StreamKept'
<1>1. note \in Statuses /\ group \subseteq Sockets
  BY DEF StreamKept, StreamTypeOK, AddEvent
<1>2. /\ queue' \in [Sockets -> Seq(Statuses)]
      /\ lost \subseteq lost' /\ lost' \subseteq group
      /\ \A s \in Sockets : queue'[s] = queue[s] \/ queue'[s] = Append(queue[s], note)
      /\ \A s \in Sockets \ group : queue'[s] = queue[s]
      /\ \A s \in group \ lost' : s \notin lost /\ queue'[s] = Append(queue[s], note)
  BY <1>1, Sending DEF AddEvent
<1>3. /\ upsets \subseteq upsets' /\ upsets' \subseteq upsets \cup {"outdated"}
      /\ "outdated" \notin upsets' =>
           note = saved /\ \A w \in Writers : writing[w].stage # "written"
      /\ UNCHANGED <<saved, writing, holder, group, told, silent>> /\ note' = "nothing"
  BY DEF AddEvent
<1>4. StreamTypeOK'
  BY <1>2, <1>3 DEF StreamKept, StreamTypeOK
<1>5. WritesAllowed'
  BY <1>2, <1>3 DEF StreamKept, WritesAllowed
<1>6. "outdated" \notin upsets' => ~Open /\ Said = note
  BY <1>3 DEF Open, Said
<1>7. Open' = Open /\ Said' = Said
  BY <1>3 DEF Open, Said
<1>8. upsets' = {} => \A s \in Sockets : HearsForward(s)'
  <2> SUFFICES ASSUME upsets' = {}, NEW s \in Sockets PROVE HearsForward(s)'
    OBVIOUS
  <2>1. upsets = {} /\ Said = note
    BY <1>3, <1>6
  <2>2. UpTo(told[s], queue[s], note) /\ Ascending(told[s], queue[s])
    BY <2>1 DEF StreamKept, HearsForward
  <2>3. note \in Onward(note)
    BY <1>1, OnwardSteps
  <2>4. UpTo(told[s], queue'[s], note) /\ Ascending(told[s], queue'[s])
    BY <1>1, <1>2, <2>2, <2>3, HeardForward
  <2> QED
    BY <1>3, <1>7, <2>1, <2>4 DEF HearsForward
<1>9. upsets' \subseteq {"forced"} => \A s \in group' \ lost' : HearsLast(s)'
  <2> SUFFICES ASSUME upsets' \subseteq {"forced"}, NEW s \in group \ lost' PROVE HearsLast(s)'
    BY <1>3
  <2>1. EndsAt(told[s], queue'[s], note)
    BY <1>1, <1>2, HeardLast
  <2>2. Said = note
    BY <1>6
  <2> QED
    BY <1>3, <1>7, <2>1, <2>2 DEF HearsLast
<1> QED
  BY <1>4, <1>5, <1>8, <1>9 DEF StreamKept

\* Reading the order for such an event tells nobody.
LEMMA ReadForEventKeepsStream ==
  ASSUME StreamKept, ReadForEvent
  PROVE  StreamKept'
<1>1. StreamTypeOK' /\ WritesAllowed' /\ Open' = Open /\ Said' = Said
  BY DEF ReadForEvent, StreamKept, StreamTypeOK, WritesAllowed, Open, Said
<1>2. \A s \in Sockets : /\ HearsForward(s) => HearsForward(s)'
                         /\ HearsLast(s) => HearsLast(s)'
  BY <1>1 DEF ReadForEvent, HearsForward, HearsLast
<1> QED
  BY <1>1, <1>2 DEF ReadForEvent, StreamKept, StreamTypeOK

\* Follow and Subscribe: a client that joins has heard nothing.
LEMMA JoinKeepsStream ==
  ASSUME StreamKept, NEW s \in Sockets, Join(s)
  PROVE  StreamKept'
<1>1. StreamTypeOK'
  BY DEF StreamKept, StreamTypeOK, Join
<1>2. WritesAllowed'
  BY DEF StreamKept, WritesAllowed, Join
<1>3. Open' = Open /\ Said' = Said
  BY DEF Join, Open, Said
<1>4. \A r \in Sockets : HearsForward(r) => HearsForward(r)'
  BY <1>3 DEF Join, HearsForward
<1>5. \A r \in Sockets : HearsLast(r) => HearsLast(r)'
  BY <1>3 DEF Join, HearsLast
<1>6. HearsLast(s)'
  BY DEF StreamKept, WritesAllowed, Join, HearsLast, EndsAt
<1> QED
  BY <1>1, <1>2, <1>4, <1>5, <1>6 DEF StreamKept, StreamTypeOK, Join

\* What Tell and Expire leave of a client's queue.
LEMMA FetchKeepsStream ==
  ASSUME StreamKept, NEW s \in Sockets, Tell(s) \/ Expire(s)
  PROVE  StreamKept'
<1> DEFINE first == Head(queue[s])
           rest == Tail(queue[s])
<1>1. /\ told[s] \in Statuses \cup {"nothing"} /\ queue[s] \in Seq(Statuses)
      /\ queue[s] # <<>> /\ s \in group
  BY DEF StreamKept, StreamTypeOK, WritesAllowed, Tell, Expire
<1>2. /\ Open' = Open /\ Said' = Said /\ Said \in Statuses
      /\ upsets' = upsets /\ silent' = silent /\ group' = group
  <2>1. Open => writing[holder].to \in Statuses
    BY OneWrites DEF Open
  <2>2. saved \in Statuses
    BY DEF StreamKept, StreamTypeOK
  <2> QED
    BY <2>1, <2>2 DEF Tell, Expire, Open, Said
<1>3. first \in Statuses /\ rest \in Seq(Statuses)
  BY <1>1, HeadTailProperties
<1>4. /\ queue' = [queue EXCEPT ![s] = rest]
      /\ \A r \in Sockets \ {s} : told'[r] = told[r] /\ queue'[r] = queue[r]
      /\ told'[s] \in {told[s], first} /\ queue'[s] = rest
      /\ lost \subseteq lost' /\ (s \notin lost' => told'[s] = first)
      /\ told' \in [Sockets -> Statuses \cup {"nothing"}]
  <2>1. /\ told \in [Sockets -> Statuses \cup {"nothing"}]
        /\ queue \in [Sockets -> Seq(Statuses)]
    BY DEF StreamKept, StreamTypeOK
  <2>2. CASE Tell(s)
    BY <1>3, <2>1, <2>2 DEF Tell
  <2>3. CASE Expire(s)
    BY <1>3, <2>1, <2>3 DEF Expire
  <2> QED
    BY <2>2, <2>3
<1>5. StreamTypeOK'
  BY <1>1, <1>3, <1>4 DEF StreamKept, StreamTypeOK, Tell, Expire
<1>6. WritesAllowed'
  <2>1. \A r \in Sockets \ group : queue'[r] = <<>> /\ told'[r] = "nothing"
    BY <1>1, <1>4 DEF StreamKept, WritesAllowed
  <2> QED
    BY <2>1 DEF StreamKept, WritesAllowed, Tell, Expire
<1>7. \A r \in Sockets \ {s} : /\ HearsForward(r) => HearsForward(r)'
                               /\ HearsLast(r) => HearsLast(r)'
  BY <1>2, <1>4 DEF HearsForward, HearsLast
<1>8. HearsForward(s) => HearsForward(s)'
  <2> SUFFICES ASSUME UpTo(told[s], queue[s], Said), Ascending(told[s], queue[s])
               PROVE  /\ Ascending(first, rest) /\ Ascending(told[s], rest)
                      /\ UpTo(first, rest, Said) /\ UpTo(told[s], rest, Said)
    BY <1>2, <1>4 DEF HearsForward
  <2> SUFFICES ASSUME NEW t, NEW q, NEW f, NEW a, NEW r,
                      t = told[s], q = queue[s], f = Said, a = first, r = rest
               PROVE  Ascending(a, r) /\ Ascending(t, r) /\ UpTo(a, r, f) /\ UpTo(t, r, f)
    OBVIOUS
  <2>1. /\ t \in Statuses \cup {"nothing"} /\ q \in Seq(Statuses) /\ q # <<>>
        /\ f \in Statuses /\ Ascending(t, q) /\ UpTo(t, q, f)
        /\ a = Head(q) /\ r = Tail(q)
    BY <1>1, <1>2
  <2> QED
    BY <2>1, FetchFirst
<1>9. s \notin lost' /\ HearsLast(s) => HearsLast(s)'
  <2> SUFFICES ASSUME EndsAt(told[s], queue[s], Said) PROVE EndsAt(first, rest, Said)
    BY <1>2, <1>4 DEF HearsLast
  <2> SUFFICES ASSUME NEW t, NEW q, NEW f, NEW a, NEW r,
                      t = told[s], q = queue[s], f = Said, a = first, r = rest
               PROVE  EndsAt(a, r, f)
    OBVIOUS
  <2>1. q \in Seq(Statuses) /\ q # <<>> /\ a = Head(q) /\ r = Tail(q) /\ EndsAt(t, q, f)
    BY <1>1
  <2> QED
    BY <2>1, FetchLast
<1> QED
  <2>1. upsets' = {} => \A r \in Sockets : HearsForward(r)'
    BY <1>2, <1>7, <1>8 DEF StreamKept
  <2>2. upsets' \subseteq {"forced"} => \A r \in group' \ lost' : HearsLast(r)'
    BY <1>2, <1>4, <1>7, <1>9 DEF StreamKept, StreamTypeOK
  <2> QED
    BY <1>5, <1>6, <2>1, <2>2 DEF StreamKept

\* Disconnect forgets what the client was told.
LEMMA DisconnectKeepsStream ==
  ASSUME StreamKept, NEW s \in Sockets, Disconnect(s)
  PROVE  StreamKept'
<1>1. <<>> \in Seq(Statuses)
  BY EmptySeq
<1>2. StreamTypeOK'
  BY <1>1 DEF StreamKept, StreamTypeOK, Disconnect
<1>3. /\ told'[s] = "nothing" /\ queue'[s] = <<>>
      /\ \A r \in Sockets \ {s} : told'[r] = told[r] /\ queue'[r] = queue[r]
      /\ group' = group \ {s} /\ lost' = lost \ {s}
  BY DEF StreamKept, StreamTypeOK, Disconnect
<1>4. WritesAllowed'
  BY <1>3 DEF StreamKept, WritesAllowed, Disconnect
<1>5. Open' = Open /\ Said' = Said
  BY DEF Disconnect, Open, Said
<1>6. \A r \in Sockets \ {s} : /\ HearsForward(r) => HearsForward(r)'
                               /\ HearsLast(r) => HearsLast(r)'
  BY <1>3, <1>5 DEF HearsForward, HearsLast, Disconnect
<1>7. HearsForward(s)'
  <2>1. 1..Len(queue'[s]) = {}
    BY <1>3, EmptySeq
  <2> QED
    BY <1>3, <2>1 DEF HearsForward, Ascending, UpTo
<1>8. upsets' = {} => \A r \in Sockets : HearsForward(r)'
  BY <1>6, <1>7 DEF StreamKept, Disconnect
<1>9. upsets' \subseteq {"forced"} => \A r \in group' \ lost' : HearsLast(r)'
  <2>1. group' \ lost' \subseteq (group \ lost) \ {s} /\ group \subseteq Sockets
    BY <1>3 DEF StreamKept, StreamTypeOK
  <2> QED
    BY <1>6, <2>1 DEF StreamKept, Disconnect
<1> QED
  BY <1>2, <1>4, <1>8, <1>9 DEF StreamKept

\* The invariant holds of the service.
THEOREM StreamInvariant == StreamSpec => []StreamKept
<1>1. ASSUME StreamInit PROVE StreamKept
  <2>1. /\ <<>> \in Seq(Statuses) /\ Len(<<>>) = 0 /\ "none" \in Statuses
    BY EmptySeq DEF Statuses, Allowed
  <2>2. StreamTypeOK
    BY <1>1, <2>1 DEF StreamInit, StreamTypeOK, Quiet
  <2>3. WritesAllowed
    BY <1>1 DEF StreamInit, WritesAllowed, Quiet
  <2>4. \A s \in Sockets : told[s] = "nothing" /\ queue[s] = <<>>
    BY <1>1 DEF StreamInit
  <2>5. 1..Len(<<>>) = {}
    BY <2>1
  <2>6. \A s \in Sockets : HearsForward(s)
    BY <2>4, <2>5 DEF HearsForward, Ascending, UpTo
  <2> QED
    BY <1>1, <2>2, <2>3, <2>6 DEF StreamInit, StreamKept
<1>2. ASSUME StreamKept, [StreamNext]_streamVars PROVE StreamKept'
  <2>1. ASSUME NEW w \in Writers, NEW to \in Written, Begin(w, to) \/ Proceed(w, to)
        PROVE  StreamKept'
    BY <1>2, <2>1, BeginKeepsStream
  <2>2. ASSUME NEW w \in Writers, Hear(w) \/ Write(w) \/ Commit(w) \/ RollBack(w)
        PROVE  StreamKept'
    BY <1>2, <2>2, SayKeepsStream, CommitKeepsStream, RollBackKeepsStream
  <2>3. ASSUME NEW new \in Statuses, SetByHand(new) PROVE StreamKept'
    BY <1>2, <2>3, SetByHandKeepsStream
  <2>8. CASE ReadForEvent \/ AddEvent
    BY <1>2, <2>8, ReadForEventKeepsStream, AddEventKeepsStream
  <2>4. ASSUME NEW s \in Sockets, Follow(s) \/ Subscribe(s) PROVE StreamKept'
    BY <1>2, <2>4, JoinKeepsStream DEF Follow, Subscribe
  <2>5. ASSUME NEW s \in Sockets, Tell(s) \/ Expire(s) PROVE StreamKept'
    BY <1>2, <2>5, FetchKeepsStream
  <2>6. ASSUME NEW s \in Sockets, Disconnect(s) PROVE StreamKept'
    BY <1>2, <2>6, DisconnectKeepsStream
  <2>7. CASE UNCHANGED streamVars
    <3>1. StreamTypeOK' /\ WritesAllowed' /\ Open' = Open /\ Said' = Said
      BY <1>2, <2>7 DEF streamVars, StreamKept, StreamTypeOK, WritesAllowed, Open, Said
    <3>2. \A s \in Sockets : /\ HearsForward(s) => HearsForward(s)'
                             /\ HearsLast(s) => HearsLast(s)'
      BY <2>7, <3>1 DEF streamVars, HearsForward, HearsLast
    <3> QED
      BY <1>2, <2>7, <3>1, <3>2 DEF streamVars, StreamKept, StreamTypeOK
  <2> QED
    BY <1>2, <2>1, <2>2, <2>3, <2>4, <2>5, <2>6, <2>7, <2>8 DEF StreamNext
<1> QED
  BY <1>1, <1>2, PTL DEF StreamSpec

\* A stream is what was told, if anything, and then the queue.
LEMMA StreamIsToldThenQueue ==
  ASSUME StreamKept, NEW s \in Sockets
  PROVE  /\ told[s] = "nothing" => Stream(s) = queue[s]
         /\ told[s] # "nothing" =>
              /\ DOMAIN Stream(s) = 1..(Len(queue[s]) + 1)
              /\ Len(Stream(s)) = Len(queue[s]) + 1
              /\ Stream(s)[1] = told[s]
              /\ \A i \in 1..Len(queue[s]) : Stream(s)[i + 1] = queue[s][i]
<1>1. told[s] \in Statuses \cup {"nothing"} /\ queue[s] \in Seq(Statuses)
  BY DEF StreamKept, StreamTypeOK
<1>2. CASE told[s] # "nothing"
  <2>1. Stream(s) = <<told[s]>> \o queue[s]
    BY <1>2 DEF Stream
  <2>2. Len(queue[s]) \in Nat
    BY <1>1, LenProperties
  <2>3. /\ <<told[s]>> \in Seq(Statuses) /\ Len(<<told[s]>>) = 1 /\ <<told[s]>>[1] = told[s]
    BY <1>1, <1>2
  <2>4. /\ Len(Stream(s)) = Len(queue[s]) + 1
        /\ DOMAIN Stream(s) = 1..(Len(queue[s]) + 1)
        /\ \A i \in 1..(Len(queue[s]) + 1) :
             Stream(s)[i] = IF i <= 1 THEN <<told[s]>>[i] ELSE queue[s][i - 1]
    BY <1>1, <2>1, <2>2, <2>3, ConcatProperties, LenProperties
  <2> QED
    BY <2>2, <2>3, <2>4, <1>2
<1> QED
  BY <1>2 DEF Stream

\* StreamGoesForward: no client sees an order go back, for any number of
\* transactions and clients, until one is undone after its event, staff force the
\* status, or they add an event with an outdated one.
THEOREM StreamForward == StreamSpec => []StreamGoesForward
<1>1. ASSUME StreamKept PROVE StreamGoesForward
  <2> SUFFICES ASSUME upsets = {}, NEW s \in Sockets,
                      NEW i \in DOMAIN Stream(s), NEW j \in DOMAIN Stream(s), i < j
               PROVE  Stream(s)[j] \in Onward(Stream(s)[i])
    BY DEF StreamGoesForward
  <2>1. Ascending(told[s], queue[s])
    BY <1>1 DEF StreamKept, HearsForward
  <2>2. /\ queue[s] \in Seq(Statuses) /\ Len(queue[s]) \in Nat
        /\ DOMAIN queue[s] = 1..Len(queue[s])
    BY <1>1, LenProperties DEF StreamKept, StreamTypeOK
  <2>3. CASE told[s] = "nothing"
    BY <1>1, <2>1, <2>2, <2>3, StreamIsToldThenQueue DEF Ascending
  <2>4. CASE told[s] # "nothing"
    <3>1. i \in 1..(Len(queue[s]) + 1) /\ j \in 1..(Len(queue[s]) + 1)
      BY <1>1, <2>4, StreamIsToldThenQueue
    <3>2. j - 1 \in 1..Len(queue[s]) /\ (i = 1 \/ (i - 1 \in 1..Len(queue[s]) /\ i - 1 < j - 1))
      BY <2>2, <3>1
    <3>3. /\ Stream(s)[j] = queue[s][j - 1]
          /\ i = 1 => Stream(s)[i] = told[s]
          /\ i # 1 => Stream(s)[i] = queue[s][i - 1]
      <4>1. (j - 1) + 1 = j /\ (i - 1) + 1 = i
        BY <3>1
      <4> QED
        BY <1>1, <2>4, <3>2, <4>1, StreamIsToldThenQueue
    <3> QED
      BY <2>1, <2>4, <3>2, <3>3 DEF Ascending
  <2> QED
    BY <2>3, <2>4
<1> QED
  BY <1>1, StreamInvariant, PTL

\* LastWordIsTrue: a client that has lost nothing ends up with the committed
\* status, also after staff forced it, unless the admin form set it last.
THEOREM LastWord == StreamSpec => []LastWordIsTrue
<1>1. ASSUME StreamKept PROVE LastWordIsTrue
  <2> SUFFICES ASSUME upsets \subseteq {"forced"}, ~silent,
                      \A w \in Writers : writing[w].stage # "written",
                      NEW s \in group \ lost, Stream(s) # <<>>
               PROVE  Stream(s)[Len(Stream(s))] = saved
    BY DEF LastWordIsTrue
  <2>1. s \in Sockets
    BY <1>1 DEF StreamKept, StreamTypeOK
  <2>2. /\ queue[s] \in Seq(Statuses) /\ Len(queue[s]) \in Nat
        /\ "nothing" \notin Statuses /\ (queue[s] = <<>> <=> Len(queue[s]) = 0)
        /\ \A i \in 1..Len(queue[s]) : queue[s][i] \in Statuses
    BY <1>1, <2>1, LenProperties, EmptySeq, ElementOfSeq
    DEF StreamKept, StreamTypeOK, Statuses, Allowed
  <2>3. EndsAt(told[s], queue[s], saved)
    BY <1>1 DEF StreamKept, HearsLast, Open, Said
  <2>4. CASE told[s] = "nothing"
    <3>1. Stream(s) = queue[s] /\ queue[s] # <<>>
      BY <1>1, <2>1, <2>4, StreamIsToldThenQueue
    <3>2. Len(queue[s]) \in 1..Len(queue[s])
      BY <2>2, <3>1
    <3> QED
      BY <2>2, <2>3, <3>1, <3>2 DEF EndsAt
  <2>5. CASE told[s] # "nothing"
    <3>1. /\ Len(Stream(s)) = Len(queue[s]) + 1
          /\ Stream(s)[1] = told[s]
          /\ \A i \in 1..Len(queue[s]) : Stream(s)[i + 1] = queue[s][i]
      BY <1>1, <2>1, <2>5, StreamIsToldThenQueue
    <3>2. CASE queue[s] = <<>>
      BY <2>2, <2>3, <2>5, <3>1, <3>2 DEF EndsAt
    <3>3. CASE queue[s] # <<>>
      <4>1. Len(queue[s]) \in 1..Len(queue[s])
        BY <2>2, <3>3
      <4> QED
        BY <2>2, <2>3, <3>1, <3>3, <4>1 DEF EndsAt
    <3> QED
      BY <3>2, <3>3
  <2> QED
    BY <2>4, <2>5
<1> QED
  BY <1>1, StreamInvariant, PTL

---------------------------------------------------------------------------
(* CatalogCache: how old an answer can be.                                 *)

\* A part of an answer read since the given time: of a version there was, not
\* edited away before.
ReadSince(t, part, time) ==
  /\ part.version <= Len(replaced[t])
  /\ part.version < Len(replaced[t]) => time <= replaced[t][part.version + 1]

\* What a request has read was right when it began or later; an entry was made of
\* such a request at most a time to live before it expires.
CacheCurrent ==
  /\ CacheTypeOK
  /\ \A t \in Tables :
       /\ Len(replaced[t]) <= MaxEdits
       /\ \A j \in 1..Len(replaced[t]) : replaced[t][j] <= clock
  /\ \A r \in Requests : request[r] # Idle =>
       /\ request[r].key \in Keys
       /\ request[r].since <= clock /\ clock <= request[r].since + Longest
       /\ Len(request[r].read) <= Len(Statements[request[r].key])
       /\ \A i \in 1..Len(request[r].read) :
            ReadSince(Statements[request[r].key][i], request[r].read[i], request[r].since)
  /\ \A k \in Keys :
       /\ Len(cache[k].answer) <= Len(Statements[k])
       /\ \A i \in 1..Len(cache[k].answer) :
            /\ clock < cache[k].expires /\ cache[k].expires <= clock + Ttl[k]
            /\ ReadSince(Statements[k][i], cache[k].answer[i],
                         cache[k].expires - (Ttl[k] + Longest))

\* What is in a sequence.
LEMMA MemberOfSeq ==
  ASSUME NEW S, NEW s, NEW j, s \in Seq(S), j \in 1..Len(s)
  PROVE  s[j] \in S
OBVIOUS

\* Every endpoint's statements read tables.
LEMMA StatementTables ==
  ASSUME NEW k, k \in Keys
  PROVE  /\ Len(Statements[k]) \in Nat
         /\ DOMAIN Statements[k] = 1..Len(Statements[k])
         /\ \A i \in 1..Len(Statements[k]) : Statements[k][i] \in Tables
<1>1. k \in {"categories", "brands", "product"}
  BY CatalogAssumption
<1>2. Statements[k] \in {CategoryStatements, BrandStatements, ProductStatements}
  BY <1>1 DEF Statements
<1>3. Len(Statements[k]) \in Nat /\ DOMAIN Statements[k] = 1..Len(Statements[k])
  BY <1>2 DEF CategoryStatements, BrandStatements, ProductStatements
<1>4. ASSUME NEW i, i \in 1..Len(Statements[k]) PROVE Statements[k][i] \in Tables
  <2>1. Statements[k][i] \in {Statements[k][j] : j \in DOMAIN Statements[k]}
    BY <1>3, <1>4
  <2> QED
    BY <2>1, Zenon DEF Tables
<1> QED
  BY <1>3, <1>4

\* An edit is later than everything read before it.
LEMMA EditIsLater ==
  ASSUME NEW t, NEW u, NEW part, NEW time,
         CacheCurrent, t \in Tables, u \in Tables, EditCatalog(t),
         part \in Results, time \in Int, time <= clock, ReadSince(u, part, time)
  PROVE  ReadSince(u, part, time)'
<1>1. /\ replaced \in [Tables -> Seq(0..MaxTime)] /\ clock \in 0..MaxTime
      /\ replaced' = [replaced EXCEPT ![t] = Append(@, clock)]
  BY DEF CacheCurrent, CacheTypeOK, EditCatalog
<1>2. CASE u # t
  BY <1>1, <1>2 DEF ReadSince
<1>3. CASE u = t
  <2> DEFINE s == replaced[u]
  <2>1. s \in Seq(0..MaxTime) /\ replaced'[u] = Append(s, clock)
    BY <1>1, <1>3
  <2>2. /\ Len(Append(s, clock)) = Len(s) + 1
        /\ Append(s, clock)[Len(s) + 1] = clock
        /\ \A j \in 1..Len(s) : Append(s, clock)[j] = s[j]
    BY <1>1, <2>1
  <2>3. part.version \in Nat /\ Len(s) \in Nat
    BY <2>1 DEF Results
  <2>4. part.version <= Len(s) /\ (part.version < Len(s) => time <= s[part.version + 1])
    BY DEF ReadSince
  <2>5. part.version < Len(s) => part.version + 1 \in 1..Len(s)
    BY <2>3
  <2> HIDE DEF s
  <2> QED
    BY <1>1, <2>1, <2>2, <2>3, <2>4, <2>5 DEF ReadSince
<1> QED
  BY <1>2, <1>3

\* An edit takes nothing from what was read: it was current until now.
LEMMA EditKeepsCurrent ==
  ASSUME NEW t, CacheCurrent, t \in Tables, EditCatalog(t)
  PROVE  CacheCurrent'
<1>1. /\ Len(replaced[t]) < MaxEdits
      /\ replaced' = [replaced EXCEPT ![t] = Append(@, clock)]
      /\ selected' \in {selected \cup {t}, selected \ ({t} \cap Decisive)}
      /\ UNCHANGED <<clock, cache, request>>
  BY DEF EditCatalog
<1>2. /\ replaced \in [Tables -> Seq(0..MaxTime)] /\ clock \in 0..MaxTime
      /\ MaxEdits \in Nat /\ MaxTime \in Nat
  BY CatalogAssumption DEF CacheCurrent, CacheTypeOK
<1>3. replaced[t] \in Seq(0..MaxTime) /\ Append(replaced[t], clock) \in Seq(0..MaxTime)
  BY <1>2
<1>4. CacheTypeOK'
  BY <1>1, <1>2, <1>3 DEF CacheCurrent, CacheTypeOK
<1>5. ASSUME NEW u \in Tables
      PROVE  /\ Len(replaced'[u]) <= MaxEdits
             /\ \A j \in 1..Len(replaced'[u]) : replaced'[u][j] <= clock
  <2>1. Len(replaced[u]) <= MaxEdits /\ \A j \in 1..Len(replaced[u]) : replaced[u][j] <= clock
    BY DEF CacheCurrent
  <2>2. CASE u # t
    BY <1>1, <1>2, <2>1, <2>2
  <2>3. CASE u = t
    <3>1. replaced'[u] = Append(replaced[u], clock) /\ replaced[u] \in Seq(0..MaxTime)
      BY <1>1, <1>2, <2>3
    <3>2. /\ Len(replaced'[u]) = Len(replaced[u]) + 1 /\ Len(replaced[u]) \in Nat
          /\ \A j \in 1..Len(replaced[u]) : replaced'[u][j] = replaced[u][j]
          /\ replaced'[u][Len(replaced[u]) + 1] = clock
      BY <1>2, <3>1
    <3>3. Len(replaced'[u]) <= MaxEdits
      BY <1>1, <1>2, <2>3, <3>2
    <3>4. ASSUME NEW j \in 1..Len(replaced'[u]) PROVE replaced'[u][j] <= clock
      <4>1. j \in 1..Len(replaced[u]) \/ j = Len(replaced[u]) + 1
        BY <3>2
      <4> QED
        BY <1>2, <2>1, <3>2, <4>1
    <3> QED
      BY <3>3, <3>4
  <2> QED
    BY <2>2, <2>3
<1>6. ASSUME NEW r \in Requests, request[r] # Idle
      PROVE  \A i \in 1..Len(request[r].read) :
               ReadSince(Statements[request[r].key][i], request[r].read[i], request[r].since)'
  <2>1. /\ request[r].key \in Keys /\ request[r].since \in Nat /\ request[r].since <= clock
        /\ request[r].read \in Seq(Results)
        /\ Len(request[r].read) <= Len(Statements[request[r].key])
    BY <1>6 DEF CacheCurrent, CacheTypeOK
  <2> SUFFICES ASSUME NEW i \in 1..Len(request[r].read)
               PROVE  ReadSince(Statements[request[r].key][i], request[r].read[i], request[r].since)'
    OBVIOUS
  <2>2. ReadSince(Statements[request[r].key][i], request[r].read[i], request[r].since)
    BY <1>6 DEF CacheCurrent
  <2>3. i \in 1..Len(Statements[request[r].key]) /\ request[r].read[i] \in Results
    BY <2>1, StatementTables
  <2>4. Statements[request[r].key][i] \in Tables
    BY <2>1, <2>3, StatementTables
  <2>5. ASSUME NEW u, NEW part, NEW time, u = Statements[request[r].key][i],
               part = request[r].read[i], time = request[r].since
        PROVE  ReadSince(u, part, time)'
    <3>1. u \in Tables /\ part \in Results /\ time \in Int /\ time <= clock
          /\ ReadSince(u, part, time)
      BY <2>1, <2>2, <2>3, <2>4, <2>5
    <3> QED
      BY <3>1, EditIsLater
  <2> QED
    BY <1>1, <2>5
<1>7. ASSUME NEW k \in Keys, NEW i \in 1..Len(cache[k].answer)
      PROVE  ReadSince(Statements[k][i], cache[k].answer[i],
                       cache[k].expires - (Ttl[k] + Longest))'
  <2>1. /\ cache[k].answer \in Seq(Results) /\ cache[k].expires \in Nat
        /\ Len(cache[k].answer) <= Len(Statements[k])
        /\ cache[k].expires <= clock + Ttl[k]
        /\ ReadSince(Statements[k][i], cache[k].answer[i], cache[k].expires - (Ttl[k] + Longest))
    BY DEF CacheCurrent, CacheTypeOK
  <2>2. Ttl[k] \in Nat /\ Longest \in Nat
    BY CatalogAssumption
  <2>3. cache[k].answer[i] \in Results /\ i \in 1..Len(Statements[k])
    BY <2>1, StatementTables
  <2>4. Statements[k][i] \in Tables
    BY <2>3, StatementTables
  <2>5. ASSUME NEW u, NEW part, NEW time, u = Statements[k][i], part = cache[k].answer[i],
               time = cache[k].expires - (Ttl[k] + Longest)
        PROVE  ReadSince(u, part, time)'
    <3>1. u \in Tables /\ part \in Results /\ ReadSince(u, part, time)
      BY <2>1, <2>3, <2>4, <2>5
    <3>2. time \in Int /\ time <= clock
      BY <1>2, <2>1, <2>2, <2>5
    <3> QED
      BY <3>1, <3>2, EditIsLater
  <2> QED
    BY <1>1, <2>5
<1> QED
  BY <1>1, <1>4, <1>5, <1>6, <1>7 DEF CacheCurrent

\* Time passes for running requests up to Longest, for stored answers up to their expiry.
LEMMA TickKeepsCurrent ==
  ASSUME CacheCurrent, Tick
  PROVE  CacheCurrent'
<1>1. /\ clock < MaxTime /\ clock' = clock + 1
      /\ \A r \in Requests : request[r] # Idle => clock < request[r].since + Longest
      /\ cache' = [k \in Keys |-> IF cache[k].expires <= clock + 1 THEN Nothing ELSE cache[k]]
      /\ UNCHANGED <<replaced, selected, request>>
  BY DEF Tick
<1>2. clock \in 0..MaxTime /\ MaxTime \in Nat /\ Longest \in Nat
  BY CatalogAssumption DEF CacheCurrent, CacheTypeOK
<1>3. Nothing \in [answer : Seq(Results), expires : Nat] /\ Len(Nothing.answer) = 0
  BY DEF Nothing
<1>4. CacheTypeOK'
  BY <1>1, <1>2, <1>3 DEF CacheCurrent, CacheTypeOK
<1>5. \A t \in Tables : \A j \in 1..Len(replaced[t]) : replaced[t][j] <= clock'
  <2> SUFFICES ASSUME NEW t \in Tables, NEW j \in 1..Len(replaced[t])
               PROVE  replaced[t][j] <= clock'
    OBVIOUS
  <2>1. replaced[t] \in Seq(0..MaxTime) /\ replaced[t][j] <= clock
    BY DEF CacheCurrent, CacheTypeOK
  <2>2. replaced[t][j] \in 0..MaxTime
    BY <2>1, MemberOfSeq
  <2> QED
    BY <1>1, <1>2, <2>1, <2>2
<1>6. \A r \in Requests : request[r] # Idle =>
        request[r].since <= clock' /\ clock' <= request[r].since + Longest
  <2> SUFFICES ASSUME NEW r \in Requests, request[r] # Idle
               PROVE  request[r].since <= clock' /\ clock' <= request[r].since + Longest
    OBVIOUS
  <2>1. request[r].since \in Nat /\ request[r].since <= clock
    BY DEF CacheCurrent, CacheTypeOK
  <2> QED
    BY <1>1, <1>2, <2>1
<1>7. ASSUME NEW k \in Keys
      PROVE  /\ Len(cache'[k].answer) <= Len(Statements[k])
             /\ \A i \in 1..Len(cache'[k].answer) :
                  /\ clock' < cache'[k].expires /\ cache'[k].expires <= clock' + Ttl[k]
                  /\ ReadSince(Statements[k][i], cache'[k].answer[i],
                               cache'[k].expires - (Ttl[k] + Longest))
  <2>1. CASE cache[k].expires <= clock + 1
    BY <1>1, <1>3, <2>1, StatementTables
  <2>2. CASE ~(cache[k].expires <= clock + 1)
    <3>1. cache'[k] = cache[k] /\ cache[k].expires \in Nat /\ Ttl[k] \in Nat
      BY <1>1, <2>2, CatalogAssumption DEF CacheCurrent, CacheTypeOK
    <3> QED
      BY <1>1, <1>2, <2>2, <3>1 DEF CacheCurrent
  <2> QED
    BY <2>1, <2>2
<1> QED
  BY <1>1, <1>4, <1>5, <1>6, <1>7 DEF CacheCurrent, ReadSince

\* A request begins, or makes its next statement.
LEMMA ReadingKeepsCurrent ==
  ASSUME NEW r, CacheCurrent, r \in Requests, (\E k \in Keys : Miss(r, k)) \/ Select(r)
  PROVE  CacheCurrent'
<1>1. UNCHANGED <<clock, replaced, selected, cache>>
  BY DEF Miss, Select
<1>2. clock \in Nat /\ MaxEdits \in Nat /\ Longest \in Nat
  BY CatalogAssumption DEF CacheCurrent, CacheTypeOK
<1>3. /\ request \in [Requests -> [key : Keys \cup {NoKey}, read : Seq(Results), since : Nat]]
      /\ request' = [request EXCEPT ![r] = request'[r]]
      /\ \A s \in Requests \ {r} : request'[s] = request[s]
  BY DEF Miss, Select, CacheCurrent, CacheTypeOK
<1>4. /\ request'[r] \in [key : Keys \cup {NoKey}, read : Seq(Results), since : Nat]
      /\ request'[r] # Idle =>
           /\ request'[r].key \in Keys
           /\ request'[r].since <= clock /\ clock <= request'[r].since + Longest
           /\ Len(request'[r].read) <= Len(Statements[request'[r].key])
           /\ \A i \in 1..Len(request'[r].read) :
                ReadSince(Statements[request'[r].key][i], request'[r].read[i], request'[r].since)
  <2>1. ASSUME NEW k \in Keys, Miss(r, k)
        PROVE  <1>4!1 /\ <1>4!2
    <3>1. request'[r] = [key |-> k, read |-> <<>>, since |-> clock]
      BY <1>3, <2>1 DEF Miss
    <3>2. Len(<<>>) = 0 /\ <<>> \in Seq(Results)
      OBVIOUS
    <3> QED
      BY <1>2, <3>1, <3>2, StatementTables
  <2>2. ASSUME Select(r)
        PROVE  <1>4!1 /\ <1>4!2
    <3> DEFINE now == request[r]
               n == Len(now.read)
               result == Result(Statements[now.key][n + 1])
    <3>1. now # Idle /\ n # Len(Statements[now.key])
      BY <2>2 DEF Select, Complete
    <3>2. /\ now.key \in Keys /\ now.read \in Seq(Results) /\ now.since \in Nat
          /\ now.since <= clock /\ clock <= now.since + Longest
          /\ n <= Len(Statements[now.key]) /\ n \in Nat
          /\ \A i \in 1..n : ReadSince(Statements[now.key][i], now.read[i], now.since)
      BY <1>3, <3>1 DEF CacheCurrent
    <3>3. \/ request'[r] = Idle
          \/ request'[r] = [now EXCEPT !.read = Append(@, result)]
      <4>1. request' = [request EXCEPT ![r] =
              IF now.key = "product" /\ now.read = <<>> /\ result.empty
              THEN Idle ELSE [now EXCEPT !.read = Append(@, result)]]
        BY <2>2 DEF Select
      <4> HIDE DEF now, result
      <4> QED
        BY <1>3, <4>1
    <3>4. Len(Statements[now.key]) \in Nat /\ n + 1 \in 1..Len(Statements[now.key])
      BY <3>1, <3>2, StatementTables
    <3>5. PICK t \in Tables : t = Statements[now.key][n + 1]
      BY <3>2, <3>4, StatementTables
    <3>6. /\ result = [version |-> Len(replaced[t]), empty |-> t \notin selected]
          /\ Len(replaced[t]) \in 0..MaxEdits
      BY <1>2, <3>5 DEF Result, CacheCurrent, CacheTypeOK
    <3>7. result \in Results
      BY <3>6 DEF Results
    <3>8. ReadSince(t, result, now.since)
      BY <3>6 DEF ReadSince
    <3>9. CASE request'[r] = Idle
      BY <3>9 DEF Idle
    <3>10. CASE request'[r] = [now EXCEPT !.read = Append(@, result)]
      <4>1. now \in [key : Keys \cup {NoKey}, read : Seq(Results), since : Nat]
        BY <1>3
      <4> HIDE DEF now, result
      <4>2. Append(now.read, result) \in Seq(Results)
        BY <3>2, <3>7
      <4>3. /\ request'[r].key = now.key /\ request'[r].since = now.since
            /\ request'[r].read = Append(now.read, result)
            /\ request'[r] \in [key : Keys \cup {NoKey}, read : Seq(Results), since : Nat]
        BY <3>10, <4>1, <4>2
      <4>4. /\ Len(Append(now.read, result)) = n + 1
            /\ Append(now.read, result)[n + 1] = result
            /\ \A i \in 1..n : Append(now.read, result)[i] = now.read[i]
        BY <3>2, <3>7
      <4>5. ASSUME NEW i \in 1..(n + 1)
            PROVE  ReadSince(Statements[now.key][i], Append(now.read, result)[i], now.since)
        <5>1. CASE i = n + 1
          BY <3>5, <3>8, <4>4, <5>1
        <5>2. CASE i # n + 1
          <6>1. i \in 1..n
            BY <3>2, <5>2
          <6> QED
            BY <3>2, <4>4, <6>1
        <5> QED
          BY <5>1, <5>2
      <4> QED
        BY <3>2, <3>4, <4>3, <4>4, <4>5
    <3> QED
      BY <3>3, <3>9, <3>10
  <2> QED
    BY <2>1, <2>2
<1>5. CacheTypeOK'
  BY <1>1, <1>3, <1>4 DEF CacheCurrent, CacheTypeOK
<1>6. ASSUME NEW s \in Requests, request'[s] # Idle
      PROVE  /\ request'[s].key \in Keys
             /\ request'[s].since <= clock /\ clock <= request'[s].since + Longest
             /\ Len(request'[s].read) <= Len(Statements[request'[s].key])
             /\ \A i \in 1..Len(request'[s].read) :
                  ReadSince(Statements[request'[s].key][i], request'[s].read[i], request'[s].since)
  <2>1. CASE s = r
    BY <1>4, <1>6, <2>1
  <2>2. CASE s # r
    BY <1>3, <1>6, <2>2 DEF CacheCurrent
  <2> QED
    BY <2>1, <2>2
<1> QED
  BY <1>1, <1>5, <1>6 DEF CacheCurrent, ReadSince

\* A request ends and may leave its answer in Redis.
LEMMA StoreKeepsCurrent ==
  ASSUME NEW r, CacheCurrent, r \in Requests, Store(r)
  PROVE  CacheCurrent'
<1> DEFINE now == request[r]
<1>1. /\ now # Idle /\ Len(now.read) = Len(Statements[now.key])
      /\ request' = [request EXCEPT ![r] = Idle]
      /\ UNCHANGED <<clock, replaced, selected>>
      /\ \/ cache' = [cache EXCEPT ![now.key] =
                        [answer |-> now.read, expires |-> clock + Ttl[now.key]]]
         \/ UNCHANGED cache
  BY DEF Store, Complete
<1>2. /\ now.key \in Keys /\ now.read \in Seq(Results) /\ now.since \in Nat
      /\ now.since <= clock /\ clock <= now.since + Longest
      /\ \A i \in 1..Len(now.read) : ReadSince(Statements[now.key][i], now.read[i], now.since)
  BY <1>1 DEF CacheCurrent, CacheTypeOK
<1>3. clock \in Nat /\ Longest \in Nat /\ Ttl[now.key] \in Nat \ {0} /\ clock \in 0..MaxTime
  <2>1. clock \in 0..MaxTime
    BY DEF CacheCurrent, CacheTypeOK
  <2>2. Ttl \in [Keys -> Nat \ {0}] /\ Longest \in Nat /\ MaxTime \in Nat
    BY CatalogAssumption
  <2>3. now.key \in Keys
    BY <1>2
  <2> HIDE DEF now
  <2> QED
    BY <2>1, <2>2, <2>3
<1>4. Idle \in [key : Keys \cup {NoKey}, read : Seq(Results), since : Nat]
  BY DEF Idle
<1>5. request' \in [Requests -> [key : Keys \cup {NoKey}, read : Seq(Results), since : Nat]]
  BY <1>1, <1>4 DEF CacheCurrent, CacheTypeOK
<1>6. \A s \in Requests : request'[s] # Idle => request'[s] = request[s]
  BY <1>1 DEF CacheCurrent, CacheTypeOK
<1>7. CASE UNCHANGED cache
  BY <1>1, <1>5, <1>6, <1>7 DEF CacheCurrent, CacheTypeOK, ReadSince
<1>8. CASE cache' = [cache EXCEPT ![now.key] =
                       [answer |-> now.read, expires |-> clock + Ttl[now.key]]]
  <2>1. [answer |-> now.read, expires |-> clock + Ttl[now.key]]
          \in [answer : Seq(Results), expires : Nat]
    BY <1>2, <1>3
  <2>2. CacheTypeOK'
    BY <1>1, <1>5, <1>8, <2>1 DEF CacheCurrent, CacheTypeOK
  <2>3. /\ cache'[now.key].answer = now.read
        /\ cache'[now.key].expires = clock + Ttl[now.key]
        /\ \A k \in Keys \ {now.key} : cache'[k] = cache[k]
    BY <1>2, <1>8 DEF CacheCurrent, CacheTypeOK
  <2>4. /\ clock < clock + Ttl[now.key]
        /\ (clock + Ttl[now.key]) - (Ttl[now.key] + Longest) <= now.since
        /\ (clock + Ttl[now.key]) - (Ttl[now.key] + Longest) \in Int
    BY <1>2, <1>3
  <2>5. ASSUME NEW i \in 1..Len(now.read)
        PROVE  ReadSince(Statements[now.key][i], now.read[i],
                         (clock + Ttl[now.key]) - (Ttl[now.key] + Longest))
    <3>1. ReadSince(Statements[now.key][i], now.read[i], now.since)
      BY <1>2
    <3>2. i \in 1..Len(Statements[now.key]) /\ now.read[i].version \in Nat
      <4>1. now.read[i] \in Results
        BY <1>2, MemberOfSeq
      <4>2. now.read[i].version \in 0..MaxEdits
        BY <4>1 DEF Results
      <4> QED
        BY <1>1, <4>2
    <3>3. PICK t \in Tables : t = Statements[now.key][i]
      BY <1>2, <3>2, StatementTables
    <3>4. replaced[t] \in Seq(0..MaxTime)
      BY DEF CacheCurrent, CacheTypeOK
    <3>5. now.read[i].version < Len(replaced[t]) =>
            replaced[t][now.read[i].version + 1] \in 0..MaxTime
      <4>1. now.read[i].version < Len(replaced[t]) =>
              now.read[i].version + 1 \in 1..Len(replaced[t])
        BY <3>2, <3>4
      <4> QED
        BY <3>4, <4>1, MemberOfSeq
    <3>6. MaxTime \in Nat
      BY CatalogAssumption
    <3> HIDE DEF now
    <3> QED
      BY <1>2, <2>4, <3>1, <3>3, <3>5, <3>6 DEF ReadSince
  <2>6. ASSUME NEW k \in Keys
        PROVE  /\ Len(cache'[k].answer) <= Len(Statements[k])
               /\ \A i \in 1..Len(cache'[k].answer) :
                    /\ clock < cache'[k].expires /\ cache'[k].expires <= clock + Ttl[k]
                    /\ ReadSince(Statements[k][i], cache'[k].answer[i],
                                 cache'[k].expires - (Ttl[k] + Longest))
    <3>1. CASE k = now.key
      <4>1. Len(now.read) <= Len(Statements[now.key])
        BY <1>1, <1>2, StatementTables
      <4>2. clock + Ttl[now.key] <= clock + Ttl[now.key]
        BY <1>3
      <4>3. /\ cache'[k].answer = now.read /\ cache'[k].expires = clock + Ttl[now.key]
        BY <2>3, <3>1
      <4>4. ASSUME NEW i \in 1..Len(now.read)
            PROVE  ReadSince(Statements[k][i], cache'[k].answer[i],
                             cache'[k].expires - (Ttl[k] + Longest))
        <5>1. cache'[k].answer[i] = now.read[i]
          BY <4>3
        <5>2. cache'[k].expires = clock + Ttl[k]
          BY <3>1, <4>3
        <5>3. ReadSince(Statements[k][i], now.read[i], (clock + Ttl[k]) - (Ttl[k] + Longest))
          BY <2>5, <3>1
        <5> QED
          BY <5>1, <5>2, <5>3
      <4> HIDE DEF now
      <4> QED
        BY <3>1, <2>4, <4>1, <4>2, <4>3, <4>4
    <3>2. CASE k # now.key
      BY <3>2, <2>3 DEF CacheCurrent
    <3> QED
      BY <3>1, <3>2
  <2> QED
    BY <1>1, <1>6, <2>2, <2>6 DEF CacheCurrent, ReadSince
<1> QED
  BY <1>1, <1>7, <1>8

\* However requests and edits overlap, what is read and what is stored is no older
\* than its clock says (_cache_get, _cache_set, product_detail).
THEOREM CacheInvariant == CacheSpec => []CacheCurrent
<1>1. CacheInit => CacheCurrent
  <2> SUFFICES ASSUME CacheInit PROVE CacheCurrent
    OBVIOUS
  <2>1. /\ clock = 0 /\ 0 \in 0..MaxTime /\ MaxEdits \in Nat
        /\ replaced = [t \in Tables |-> <<>>] /\ selected = Tables
        /\ cache = [k \in Keys |-> Nothing] /\ request = [r \in Requests |-> Idle]
    BY CatalogAssumption DEF CacheInit
  <2>2. /\ Idle \in [key : Keys \cup {NoKey}, read : Seq(Results), since : Nat]
        /\ Nothing \in [answer : Seq(Results), expires : Nat]
        /\ Len(Nothing.answer) = 0 /\ Len(<<>>) = 0 /\ <<>> \in Seq(0..MaxTime)
    BY DEF Idle, Nothing
  <2>3. CacheTypeOK
    BY <2>1, <2>2 DEF CacheTypeOK
  <2>4. \A k \in Keys : Len(Statements[k]) \in Nat
    BY StatementTables
  <2>5. \A t \in Tables : Len(replaced[t]) = 0
    BY <2>1, <2>2
  <2>6. \A k \in Keys : Len(cache[k].answer) = 0
    BY <2>1, <2>2
  <2>7. \A r \in Requests : request[r] = Idle
    BY <2>1
  <2> QED
    BY <2>1, <2>3, <2>4, <2>5, <2>6, <2>7 DEF CacheCurrent
<1>2. CacheCurrent /\ [CacheNext]_cacheVars => CacheCurrent'
  <2> SUFFICES ASSUME CacheCurrent, [CacheNext]_cacheVars PROVE CacheCurrent'
    OBVIOUS
  <2>1. CASE UNCHANGED cacheVars
    BY <2>1 DEF cacheVars, CacheCurrent, CacheTypeOK, ReadSince
  <2>2. CASE CacheNext
    BY <2>2, EditKeepsCurrent, TickKeepsCurrent, ReadingKeepsCurrent, StoreKeepsCurrent DEF CacheNext
  <2> QED
    BY <2>1, <2>2
<1> QED
  BY <1>1, <1>2, PTL DEF CacheSpec

\* For any endpoints, requests, edits and times to live: an answer from Redis is
\* older than the database by no more than the time to live and the longest
\* request (_cache_set of fastapi_app/api/v1/catalog.py).
THEOREM AnswersRecent == CacheSpec => []AnswersAreRecent
<1>1. CacheCurrent => AnswersAreRecent
  <2> SUFFICES ASSUME CacheCurrent, NEW k \in Keys, NEW i \in DOMAIN cache[k].answer
               PROVE  RightWithin(k, cache[k].answer, i, Ttl[k] + Longest)
    BY DEF AnswersAreRecent
  <2>1. /\ cache[k].answer \in Seq(Results) /\ cache[k].expires \in Nat
        /\ Ttl[k] \in Nat /\ Longest \in Nat /\ MaxTime \in Nat
        /\ clock \in Nat
    BY CatalogAssumption DEF CacheCurrent, CacheTypeOK
  <2>2. /\ i \in 1..Len(cache[k].answer) /\ cache[k].answer[i].version \in Nat
        /\ i \in 1..Len(Statements[k])
    <3>1. i \in 1..Len(cache[k].answer)
      BY <2>1
    <3>2. cache[k].answer[i] \in Results
      BY <2>1, <3>1, MemberOfSeq
    <3>3. cache[k].answer[i].version \in 0..MaxEdits
      BY <3>2 DEF Results
    <3>4. Len(cache[k].answer) <= Len(Statements[k]) /\ Len(Statements[k]) \in Nat
      BY StatementTables DEF CacheCurrent
    <3> QED
      BY <2>1, <3>1, <3>3, <3>4
  <2>3. PICK t \in Tables : t = Statements[k][i]
    BY <2>2, StatementTables
  <2>4. clock < cache[k].expires
        /\ ReadSince(t, cache[k].answer[i], cache[k].expires - (Ttl[k] + Longest))
    BY <2>2, <2>3 DEF CacheCurrent
  <2>5. replaced[t] \in Seq(0..MaxTime)
    BY DEF CacheCurrent, CacheTypeOK
  <2>6. cache[k].answer[i].version < Len(replaced[t]) =>
          replaced[t][cache[k].answer[i].version + 1] \in 0..MaxTime
    <3>1. cache[k].answer[i].version < Len(replaced[t]) =>
            cache[k].answer[i].version + 1 \in 1..Len(replaced[t])
      BY <2>2, <2>5
    <3> QED
      BY <2>5, <3>1, MemberOfSeq
  <2>7. ASSUME NEW now \in Int, NEW end \in Int, NEW age \in Int, NEW edit \in Int,
               now < end, end - age <= edit
        PROVE  now <= edit + age
    BY <2>7
  <2>8. ASSUME cache[k].answer[i].version < Len(replaced[t])
        PROVE  clock <= replaced[t][cache[k].answer[i].version + 1] + (Ttl[k] + Longest)
    <3>1. cache[k].expires - (Ttl[k] + Longest) <= replaced[t][cache[k].answer[i].version + 1]
      BY <2>4, <2>8 DEF ReadSince
    <3>2. replaced[t][cache[k].answer[i].version + 1] \in Int
      BY <2>1, <2>6, <2>8
    <3>3. /\ clock \in Int /\ cache[k].expires \in Int /\ Ttl[k] + Longest \in Int
      BY <2>1
    <3> QED
      BY <2>4, <2>7, <3>1, <3>2, <3>3
  <2> QED
    BY <2>3, <2>8 DEF RightWithin
<1> QED
  BY <1>1, CacheInvariant, PTL

---------------------------------------------------------------------------
(* CatalogPages: what a walk from page to page sees.                       *)

\* ORDER BY of list_products orders strictly, and leaves no two products equal.
LEMMA BeforeOrders ==
  ASSUME NEW sort, NEW p, NEW q, NEW r,
         sort \in Sorts, p \in Products, q \in Products, r \in Products
  PROVE  /\ ~Before(sort, p, p)
         /\ Before(sort, p, q) /\ Before(sort, q, r) => Before(sort, p, r)
         /\ p # q => Before(sort, p, q) \/ Before(sort, q, p)
<1>1. /\ Created[p] \in Nat /\ Created[q] \in Nat /\ Created[r] \in Nat
      /\ p # q => Created[p] # Created[q]
  BY PagesAssumption
<1>2. CASE sort = "newest"
  BY <1>1, <1>2 DEF Before
<1>3. CASE sort # "newest"
  <2>1. Rank[sort] \in [Products -> Nat]
    BY <1>3, PagesAssumption
  <2>2. Rank[sort][p] \in Nat /\ Rank[sort][q] \in Nat /\ Rank[sort][r] \in Nat
    BY <2>1
  <2> QED
    BY <1>1, <1>3, <2>2 DEF Before
<1> QED
  BY <1>2, <1>3

\* How many of some products come before p.
Ahead(sort, rows, p) == Cardinality({q \in rows : Before(sort, q, p)})

\* Products that come first have fewer before them, and every place is taken.
LEMMA Places ==
  ASSUME NEW sort, NEW rows, sort \in Sorts, rows \subseteq Products
  PROVE  /\ IsFiniteSet(rows) /\ Cardinality(rows) \in Nat
         /\ \A p \in rows : Ahead(sort, rows, p) \in 0..(Cardinality(rows) - 1)
         /\ \A p, q \in rows : Before(sort, p, q) => Ahead(sort, rows, p) < Ahead(sort, rows, q)
         /\ \A i \in 1..Cardinality(rows) : \E p \in rows : Ahead(sort, rows, p) = i - 1
<1> DEFINE n == Cardinality(rows)
           before(p) == {q \in rows : Before(sort, q, p)}
<1>1. IsFiniteSet(rows) /\ n \in Nat
  BY PagesAssumption, FS_Subset, FS_CardinalityType
<1>2. ASSUME NEW p \in rows
      PROVE  IsFiniteSet(before(p)) /\ Cardinality(before(p)) \in Nat
  <2>1. before(p) \in SUBSET rows
    OBVIOUS
  <2> HIDE DEF before
  <2> QED
    BY <1>1, <2>1, FS_Subset, FS_CardinalityType
<1>3. \A p, q, r \in rows :
        /\ ~Before(sort, p, p)
        /\ Before(sort, p, q) /\ Before(sort, q, r) => Before(sort, p, r)
        /\ p # q => Before(sort, p, q) \/ Before(sort, q, p)
  BY BeforeOrders
<1>4. ASSUME NEW p \in rows, NEW q \in rows, Before(sort, p, q)
      PROVE  Cardinality(before(p)) < Cardinality(before(q))
  <2>1. before(p) \in SUBSET before(q) /\ p \in before(q) /\ p \notin before(p)
    BY <1>3, <1>4
  <2> HIDE DEF before
  <2> QED
    BY <1>2, <2>1, FS_Subset
<1>5. ASSUME NEW p \in rows PROVE Cardinality(before(p)) < n
  <2>1. before(p) \in SUBSET rows /\ p \notin before(p)
    BY <1>3
  <2> HIDE DEF before
  <2> QED
    BY <1>1, <1>2, <2>1, FS_Subset
<1> DEFINE place == [p \in rows |-> Cardinality(before(p))]
           places == 0..(n - 1)
<1>6. place \in [rows -> places]
  <2> SUFFICES ASSUME NEW p \in rows PROVE Cardinality(before(p)) \in 0..(n - 1)
    OBVIOUS
  <2> HIDE DEF before
  <2> QED
    BY <1>1, <1>2, <1>5
<1>7. ASSUME NEW p \in rows, NEW q \in rows, place[p] = place[q]
      PROVE  p = q
  <2> SUFFICES ASSUME p # q PROVE FALSE
    OBVIOUS
  <2>1. Before(sort, p, q) \/ Before(sort, q, p)
    BY <1>3
  <2> HIDE DEF before
  <2> QED
    BY <1>2, <1>4, <1>7, <2>1
<1>8. place \in Injection(rows, places)
  <2> HIDE DEF place
  <2> QED
    BY <1>6, <1>7 DEF Injection, IsInjective
<1>9. IsFiniteSet(places) /\ Cardinality(places) = n
  BY <1>1, FS_Interval
<1>10. place \in Surjection(rows, places)
  <2> HIDE DEF place, places
  <2> QED
    BY <1>1, <1>8, <1>9, FS_Injection
<1>11. ASSUME NEW i \in 1..n PROVE \E p \in rows : Cardinality(before(p)) = i - 1
  <2>1. i - 1 \in places
    BY <1>1
  <2>2. PICK p \in rows : place[p] = i - 1
    BY <1>10, <2>1 DEF Surjection
  <2> QED
    BY <2>2
<1>12. \A p \in rows : Ahead(sort, rows, p) = Cardinality(before(p))
  BY DEF Ahead
<1> HIDE DEF before, n
<1> QED
  BY <1>1, <1>2, <1>4, <1>5, <1>11, <1>12 DEF n

\* In the order of the query, p comes right after those before it.
LEMMA RowsInOrder ==
  ASSUME NEW sort, NEW rows, sort \in Sorts, rows \subseteq Products
  PROVE  /\ InOrder(sort, rows) \in Seq(rows)
         /\ Len(InOrder(sort, rows)) = Cardinality(rows)
         /\ Cardinality(rows) \in Nat
         /\ \A i \in 1..Cardinality(rows) : Ahead(sort, rows, InOrder(sort, rows)[i]) = i - 1
         /\ \A p \in rows :
              /\ Ahead(sort, rows, p) + 1 \in 1..Cardinality(rows)
              /\ InOrder(sort, rows)[Ahead(sort, rows, p) + 1] = p
<1> DEFINE s == InOrder(sort, rows)
           n == Cardinality(rows)
           c(i) == CHOOSE p \in rows : Ahead(sort, rows, p) = i - 1
<1>1. n \in Nat
  BY Places
<1>2. s = [i \in 1..n |-> c(i)]
  BY DEF InOrder, Ahead
<1>3. ASSUME NEW i \in 1..n
      PROVE  s[i] \in rows /\ Ahead(sort, rows, s[i]) = i - 1
  <2>1. s[i] = CHOOSE p \in rows : Ahead(sort, rows, p) = i - 1
    <3> HIDE DEF s, c
    <3>1. s[i] = c(i)
      BY <1>2
    <3> QED
      BY <3>1 DEF c
  <2>2. \E p \in rows : Ahead(sort, rows, p) = i - 1
    BY Places
  <2> HIDE DEF s
  <2> QED
    BY <2>1, <2>2
<1> HIDE DEF s, c
<1>4. DOMAIN s = 1..n
  BY <1>2
<1>5. s \in Seq(rows) /\ Len(s) = n
  <2>1. s \in [1..n -> rows]
    BY <1>2, <1>3
  <2> HIDE DEF n
  <2>2. s \in Seq(rows)
    BY <1>1, <2>1, SeqDef
  <2>3. DOMAIN s = 1..Len(s) /\ Len(s) \in Nat
    BY <2>2, LenProperties
  <2> QED
    BY <1>1, <1>4, <2>2, <2>3
<1>6. ASSUME NEW p \in rows
      PROVE  Ahead(sort, rows, p) + 1 \in 1..n /\ s[Ahead(sort, rows, p) + 1] = p
  <2>1. Ahead(sort, rows, p) \in 0..(n - 1)
    BY Places
  <2>2. Ahead(sort, rows, p) + 1 \in 1..n
    BY <1>1, <2>1
  <2>3. PICK q \in rows : q = s[Ahead(sort, rows, p) + 1]
    BY <1>3, <2>2
  <2>4. Ahead(sort, rows, q) = Ahead(sort, rows, p)
    BY <1>3, <2>1, <2>2, <2>3
  <2>5. q = p
    <3> SUFFICES ASSUME q # p PROVE FALSE
      OBVIOUS
    <3>1. Before(sort, p, q) \/ Before(sort, q, p)
      BY BeforeOrders
    <3>2. Ahead(sort, rows, p) < Ahead(sort, rows, q) \/ Ahead(sort, rows, q) < Ahead(sort, rows, p)
      BY <3>1, Places
    <3> QED
      BY <2>1, <2>4, <3>2
  <2> QED
    BY <2>2, <2>3, <2>5
<1> QED
  BY <1>1, <1>3, <1>5, <1>6 DEF s

\* A page holds all the products there are, or those it lacks come after its last.
LEMMA WholePage ==
  ASSUME NEW sort, NEW cursor, NEW rows, NEW page,
         sort \in Sorts, listed \subseteq Products,
         rows = RowsAfter(sort, cursor),
         page = IF Len(rows) > PageSize THEN SubSeq(rows, 1, PageSize) ELSE rows
  PROVE  /\ page \in Seq(Products)
         /\ Len(rows) > PageSize => Last(page) \in Products
         /\ \A p \in Older(cursor) :
              Contains(page, p) \/ (Len(rows) > PageSize /\ Before(sort, Last(page), p))
<1> DEFINE more == Len(rows) > PageSize
<1> DEFINE R == Older(cursor)
           all == InOrder(sort, R)
           n == Cardinality(R)
<1>1. R \subseteq Products
  BY DEF Older
<1>2. /\ all \in Seq(R) /\ Len(all) = n /\ n \in Nat
      /\ \A i \in 1..n : Ahead(sort, R, all[i]) = i - 1
      /\ \A p \in R : Ahead(sort, R, p) + 1 \in 1..n /\ all[Ahead(sort, R, p) + 1] = p
  <2> HIDE DEF R
  <2> QED
    BY <1>1, RowsInOrder
<1>3. \A i \in 1..n : all[i] \in R
  <2> HIDE DEF all, n, R
  <2> QED
    BY <1>2, MemberOfSeq
<1>4. PageSize \in Nat \ {0}
  BY PagesAssumption
<1> DEFINE l == IF n < PageSize + 1 THEN n ELSE PageSize + 1
<1>5. rows = SubSeq(all, 1, l)
  BY <1>2 DEF RowsAfter
<1>6. l \in Nat /\ l <= n /\ (l > PageSize <=> n > PageSize) /\ (n <= PageSize => l = n)
      /\ (n > PageSize => l = PageSize + 1)
  <2> HIDE DEF n
  <2> QED
    BY <1>2, <1>4
<1> HIDE DEF l
<1>7. rows \in Seq(R) /\ Len(rows) = l /\ \A i \in 1..l : rows[i] = all[i]
  <2> HIDE DEF all, n, R
  <2>1. l \in Int /\ \A i \in 1..l : all[i] \in R
    BY <1>2, <1>3, <1>6
  <2>2. /\ SubSeq(all, 1, l) \in Seq(R)
        /\ Len(SubSeq(all, 1, l)) = IF 1 <= l THEN l - 1 + 1 ELSE 0
        /\ \A i \in 1..(l - 1 + 1) : SubSeq(all, 1, l)[i] = all[1 + i - 1]
    BY <2>1, SubSeqProperties
  <2>3. \A i \in 1..l : 1 + i - 1 = i
    BY <1>6
  <2>4. l = 0 \/ 1 <= l
    BY <1>6
  <2>5. Len(SubSeq(all, 1, l)) = l
    BY <1>6, <2>2, <2>4
  <2>6. \A i \in 1..l : SubSeq(all, 1, l)[i] = all[i]
    BY <1>6, <2>2, <2>3
  <2> QED
    BY <1>5, <2>2, <2>5, <2>6
<1>8. more <=> n > PageSize
  BY <1>6, <1>7
<1>9. ASSUME n > PageSize
      PROVE  /\ page \in Seq(R) /\ Len(page) = PageSize
             /\ \A i \in 1..PageSize : page[i] = all[i]
  <2> HIDE DEF all, n, R
  <2>1. PageSize \in Int /\ \A i \in 1..PageSize : rows[i] \in R /\ i \in 1..l
    BY <1>3, <1>4, <1>6, <1>7, <1>9
  <2>2. /\ SubSeq(rows, 1, PageSize) \in Seq(R)
        /\ Len(SubSeq(rows, 1, PageSize)) = IF 1 <= PageSize THEN PageSize - 1 + 1 ELSE 0
        /\ \A i \in 1..(PageSize - 1 + 1) : SubSeq(rows, 1, PageSize)[i] = rows[1 + i - 1]
    BY <2>1, SubSeqProperties
  <2>3. page = SubSeq(rows, 1, PageSize)
    BY <1>8, <1>9
  <2>4. \A i \in 1..PageSize : 1 + i - 1 = i
    BY <1>4
  <2> QED
    BY <1>4, <1>7, <2>1, <2>2, <2>3, <2>4
<1>10. ASSUME ~(n > PageSize) PROVE page = rows
  BY <1>8, <1>10
<1>11. page \in Seq(R)
  BY <1>7, <1>9, <1>10
<1>12. page \in Seq(Products)
  <2> HIDE DEF R
  <2> QED
    BY <1>1, <1>11, SeqMonotonic
<1>13. more => /\ Last(page) = all[PageSize] /\ all[PageSize] \in R
               /\ Ahead(sort, R, all[PageSize]) = PageSize - 1
  <2> HIDE DEF all, n, R
  <2> SUFFICES ASSUME n > PageSize
               PROVE  Last(page) = all[PageSize] /\ all[PageSize] \in R
                      /\ Ahead(sort, R, all[PageSize]) = PageSize - 1
    BY <1>8
  <2>1. PageSize \in 1..PageSize /\ PageSize \in 1..n
    BY <1>2, <1>4
  <2> QED
    BY <1>2, <1>3, <1>9, <2>1 DEF Last
<1>14. ASSUME NEW p \in R
       PROVE  Contains(page, p) \/ (more /\ Before(sort, Last(page), p))
  <2> DEFINE i == Ahead(sort, R, p) + 1
  <2>1. i \in 1..n /\ all[i] = p
    BY <1>2
  <2>2. CASE ~(n > PageSize)
    <3> HIDE DEF all, n, R, i
    <3>1. page[i] = p /\ i \in 1..Len(page)
      <4>1. l = n /\ page = rows
        BY <1>2, <1>4, <1>6, <1>10, <2>2
      <4> QED
        BY <1>7, <2>1, <4>1
    <3> QED
      BY <3>1 DEF Contains
  <2>3. CASE n > PageSize /\ i <= PageSize
    <3> HIDE DEF all, n, R, i
    <3>1. page[i] = p /\ i \in 1..Len(page)
      <4>1. i \in 1..PageSize
        BY <1>4, <2>1, <2>3
      <4>2. Len(page) = PageSize /\ \A k \in 1..PageSize : page[k] = all[k]
        BY <1>9, <2>3
      <4> QED
        BY <2>1, <4>1, <4>2
    <3> QED
      BY <3>1 DEF Contains
  <2>4. CASE n > PageSize /\ ~(i <= PageSize)
    <3> DEFINE q == Last(page)
    <3>1. q \in R /\ Ahead(sort, R, q) = PageSize - 1 /\ q \in Products /\ p \in Products
      BY <1>1, <1>8, <1>13, <2>4
    <3>2. Ahead(sort, R, q) < Ahead(sort, R, p) /\ p # q
      <4> HIDE DEF all, n, R, q
      <4>1. Ahead(sort, R, p) \in Int
        <5>1. Ahead(sort, R, p) \in 0..(Cardinality(R) - 1)
          BY <1>1, Places
        <5> QED
          BY <5>1
      <4> QED
        BY <1>4, <2>4, <3>1, <4>1
    <3>3. Before(sort, q, p)
      <4> HIDE DEF all, n, R, q
      <4>1. Before(sort, p, q) => Ahead(sort, R, p) < Ahead(sort, R, q)
        BY <1>1, <3>1, Places
      <4>2. Ahead(sort, R, p) \in 0..(Cardinality(R) - 1) /\ Cardinality(R) \in Nat
        BY <1>1, Places
      <4> QED
        BY <1>4, <3>1, <3>2, <4>1, <4>2, BeforeOrders
    <3> QED
      BY <1>8, <2>4, <3>3
  <2>5. i <= PageSize \/ ~(i <= PageSize)
    OBVIOUS
  <2> QED
    BY <2>2, <2>3, <2>4, <2>5
<1> QED
  BY <1>1, <1>12, <1>13, <1>14

\* A walk through the newest products has seen what was listed all along, or will
\* come to it.
WalkOK ==
  /\ listed \subseteq Products
  /\ walk \in [sort : Sorts \cup {NoSort}, cursor : Nat, seen : Seq(Products), over : BOOLEAN]
  /\ walk = NoWalk \/ walk.sort \in Sorts
  /\ steady \subseteq listed
  /\ walk.sort = "newest" =>
       \A p \in steady :
         \/ Contains(walk.seen, p)
         \/ ~walk.over /\ (walk.cursor = NoCursor \/ Created[p] < walk.cursor)

\* Whatever is listed and delisted meanwhile, the walk has seen or will see what
\* stayed (list_products).
THEOREM WalkInvariant == PagesSpec => []WalkOK
<1> DEFINE Walks == [sort : Sorts \cup {NoSort}, cursor : Nat, seen : Seq(Products), over : BOOLEAN]
<1>1. NoWalk \in Walks
  <2>1. <<>> \in Seq(Products)
    OBVIOUS
  <2> QED
    BY <2>1 DEF NoWalk, NoCursor
<1>2. PagesInit => WalkOK
  BY <1>1 DEF PagesInit, WalkOK
<1>3. WalkOK /\ [PagesNext]_pageVars => WalkOK'
  <2> SUFFICES ASSUME WalkOK, [PagesNext]_pageVars PROVE WalkOK'
    OBVIOUS
  <2>1. ASSUME NEW p \in Products, Relist(p) PROVE WalkOK'
    BY <2>1 DEF Relist, WalkOK
  <2>2. ASSUME NEW sort \in Sorts, StartWalk(sort) PROVE WalkOK'
    <3>1. /\ walk' = [NoWalk EXCEPT !.sort = sort]
          /\ steady' = listed /\ listed' = listed
      BY <2>2 DEF StartWalk
    <3>2. walk' \in Walks /\ walk'.sort = sort /\ walk'.cursor = NoCursor /\ walk'.over = FALSE
      BY <1>1, <3>1 DEF NoWalk
    <3> QED
      BY <3>1, <3>2, Zenon DEF WalkOK
  <2>3. ASSUME EndWalk PROVE WalkOK'
    <3>1. walk' = NoWalk /\ steady' = {} /\ listed' = listed
      BY <2>3 DEF EndWalk
    <3> QED
      BY <1>1, <3>1 DEF WalkOK
  <2>4. ASSUME NextPage PROVE WalkOK'
    <3> DEFINE rows == RowsAfter(walk.sort, walk.cursor)
               hasMore == Len(rows) > PageSize
               page == IF hasMore THEN SubSeq(rows, 1, PageSize) ELSE rows
    <3>1. /\ ~walk.over /\ UNCHANGED <<listed, steady>>
          /\ walk' = [walk EXCEPT !.seen = @ \o page, !.over = ~hasMore,
                                  !.cursor = IF hasMore THEN Created[Last(page)] ELSE @]
      BY <2>4 DEF NextPage
    <3>2. walk \in Walks /\ walk.sort \in Sorts
      BY <2>4 DEF NextPage, WalkOK
    <3>3. /\ page \in Seq(Products)
          /\ hasMore => Last(page) \in Products
          /\ \A p \in Older(walk.cursor) :
               Contains(page, p) \/ (hasMore /\ Before(walk.sort, Last(page), p))
      <4>1. ASSUME NEW sort, NEW cursor, NEW rs, NEW pg,
                   sort \in Sorts, rs = RowsAfter(sort, cursor),
                   pg = IF Len(rs) > PageSize THEN SubSeq(rs, 1, PageSize) ELSE rs
            PROVE  /\ pg \in Seq(Products)
                   /\ Len(rs) > PageSize => Last(pg) \in Products
                   /\ \A p \in Older(cursor) :
                        Contains(pg, p) \/ (Len(rs) > PageSize /\ Before(sort, Last(pg), p))
        <5>1. listed \subseteq Products
          BY DEF WalkOK
        <5> QED
          BY <4>1, <5>1, WholePage
      <4> QED
        BY <3>2, <4>1
    <3> HIDE DEF rows, page, hasMore
    <3> DEFINE next == IF hasMore THEN Created[Last(page)] ELSE walk.cursor
    <3>4. next \in Nat
      BY <3>2, <3>3, PagesAssumption
    <3>5. walk.seen \o page \in Seq(Products)
      BY <3>2, <3>3, ConcatProperties
    <3>6. /\ walk'.sort = walk.sort /\ walk'.seen = walk.seen \o page
          /\ walk'.over = ~hasMore /\ walk'.cursor = next
      BY <3>1, <3>2
    <3>7. hasMore \in BOOLEAN
      BY DEF hasMore
    <3>8. walk' \in Walks
      <4>1. (walk.seen \o page) \in Seq(Products) /\ (~hasMore) \in BOOLEAN
        BY <3>5, <3>7
      <4>2. walk' = [walk EXCEPT !.seen = walk.seen \o page, !.over = ~hasMore, !.cursor = next]
        BY <3>1
      <4> HIDE DEF next
      <4> QED
        BY <3>2, <3>4, <4>1, <4>2
    <3>9. ASSUME NEW p \in steady, walk.sort = "newest"
          PROVE  \/ Contains(walk'.seen, p)
                 \/ ~walk'.over /\ (walk'.cursor = NoCursor \/ Created[p] < walk'.cursor)
      <4>1. CASE Contains(walk.seen, p)
        <5>1. PICK i \in 1..Len(walk.seen) : walk.seen[i] = p
          BY <4>1 DEF Contains
        <5>2. (walk.seen \o page)[i] = p /\ i \in 1..Len(walk.seen \o page)
          BY <3>2, <3>3, <5>1, ConcatProperties
        <5> QED
          BY <3>6, <5>2 DEF Contains
      <4>2. CASE ~Contains(walk.seen, p)
        <5>1. p \in Older(walk.cursor) /\ p \in Products
          BY <3>9, <4>2 DEF WalkOK, Older
        <5>2. CASE Contains(page, p)
          <6>1. PICK i \in 1..Len(page) : page[i] = p
            BY <5>2 DEF Contains
          <6>2. Len(walk.seen) \in Nat /\ Len(page) \in Nat
            BY <3>2, <3>3
          <6>3. /\ Len(walk.seen) + i \in 1..(Len(walk.seen) + Len(page))
                /\ ~(Len(walk.seen) + i <= Len(walk.seen))
                /\ Len(walk.seen) + i - Len(walk.seen) = i
            BY <6>2
          <6>4. /\ Len(walk.seen \o page) = Len(walk.seen) + Len(page)
                /\ (walk.seen \o page)[Len(walk.seen) + i] = page[i]
            BY <3>2, <3>3, <6>3, ConcatProperties
          <6> QED
            BY <3>6, <6>1, <6>3, <6>4 DEF Contains
        <5>3. CASE ~Contains(page, p)
          <6>1. hasMore /\ Before(walk.sort, Last(page), p)
            BY <3>3, <5>1, <5>3
          <6>2. Created[Last(page)] > Created[p] /\ next = Created[Last(page)]
            BY <3>9, <6>1 DEF Before
          <6> QED
            BY <3>3, <3>6, <5>1, <6>1, <6>2, PagesAssumption
        <5> QED
          BY <5>2, <5>3
      <4> QED
        BY <4>1, <4>2
    <3>10. listed' \subseteq Products /\ steady' \subseteq listed' /\ steady' = steady
      BY <3>1 DEF WalkOK
    <3> HIDE DEF next
    <3> QED
      BY <3>2, <3>6, <3>8, <3>9, <3>10 DEF WalkOK
  <2>5. CASE UNCHANGED pageVars
    BY <2>5 DEF pageVars, WalkOK
  <2> QED
    BY <2>1, <2>2, <2>3, <2>4, <2>5 DEF PagesNext
<1> QED
  BY <1>2, <1>3, PTL DEF PagesSpec

\* For any products, page size and edits meanwhile: who walks the newest products
\* to the end has seen every one that was listed all along (LIMIT page_size + 1 and
\* next_cursor of list_products).
THEOREM NothingMissed == PagesSpec => []WalkMissesNothing
<1>1. WalkOK => WalkMissesNothing
  BY DEF WalkOK, WalkMissesNothing
<1> QED
  BY <1>1, WalkInvariant, PTL

---------------------------------------------------------------------------
(* ReplicaReads: what a checkout reads of its own cart.                    *)

Versions == [cart : SUBSET Lines, orders : [Tickets -> (SUBSET Lines) \cup {Nowhere}]]

CheckoutStages == {"waiting", "checked", "billed", "picked", "placed"}

\* A placed order has the lines its loop read, and never others; those were once in
\* the cart and are not in it any more.
OrdersStay ==
  \A t \in Tickets :
    /\ checkout[t] = "placed" <=> Latest.orders[t] # Nowhere
    /\ Latest.orders[t] # Nowhere =>
         Latest.orders[t] = picked[t] /\ Latest.cart \cap picked[t] = {}
    /\ \A i \in 1..Len(log) : log[i].orders[t] \in {Nowhere, Latest.orders[t]}
    /\ \A l \in picked[t] : \E i \in 1..Len(log) : l \in log[i].cart

\* One checkout at a time; a fresh one has read what the cart still holds.
CheckoutsRead ==
  /\ \A t, u \in Tickets :
       checkout[t] \notin {"waiting", "placed"} /\ checkout[u] \notin {"waiting", "placed"} => t = u
  /\ \A t \in Tickets : <<"checkout", t>> \in fresh =>
       /\ checkout[t] # "waiting"
       /\ checkout[t] \in {"checked", "billed", "picked"} => Latest.cart # {}
       /\ checkout[t] \in {"billed", "picked"} => billed[t] = Latest.cart
       /\ checkout[t] = "picked" => picked[t] = Latest.cart
       /\ checkout[t] = "placed" =>
            /\ billed[t] = picked[t] /\ picked[t] # {}
            /\ \A i \in 1..Len(log), earlier \in Tickets :
                 log[i].orders[t] = Nowhere /\ log[i].orders[earlier] # Nowhere =>
                   picked[t] \cap log[i].orders[earlier] = {}

\* A payment charges what was ordered or nothing, and nothing only if it read an
\* old version.
PaymentsRead ==
  \A t \in Tickets :
    /\ <<"payment", t>> \in fresh => charged[t] # Unpaid
    /\ charged[t] # Unpaid =>
         /\ Latest.orders[t] # Nowhere
         /\ charged[t] \in {{}, Latest.orders[t]}
         /\ <<"payment", t>> \in fresh => charged[t] = Latest.orders[t]

ReplicaTyped ==
  /\ log \in Seq(Versions) /\ seen \in 1..Len(log)
  /\ checkout \in [Tickets -> CheckoutStages]
  /\ billed \in [Tickets -> SUBSET Lines] /\ picked \in [Tickets -> SUBSET Lines]
  /\ charged \in [Tickets -> (SUBSET Lines) \cup {Unpaid}]
  /\ fresh \subseteq {"checkout", "payment"} \X Tickets

ReplicaOK == ReplicaTyped /\ OrdersStay /\ CheckoutsRead /\ PaymentsRead

\* What is no set of lines, and what the log holds.
LEMMA ReplicaFacts ==
  ASSUME ReplicaTyped
  PROVE  /\ \A s \in SUBSET Lines : s # Nowhere /\ s # Unpaid
         /\ Len(log) \in Nat /\ Len(log) \in 1..Len(log) /\ DOMAIN log = 1..Len(log)
         /\ \A i \in 1..Len(log) : log[i] \in Versions
         /\ Latest \in Versions
<1>1. ASSUME NEW s \in SUBSET Lines PROVE s # Nowhere /\ s # Unpaid
  BY LinesAssumption DEF Nowhere, Unpaid
<1>2. Len(log) \in Nat /\ DOMAIN log = 1..Len(log) /\ Len(log) \in 1..Len(log)
  BY DEF ReplicaTyped
<1>3. \A i \in 1..Len(log) : log[i] \in Versions
  <2>1. log \in Seq(Versions)
    BY DEF ReplicaTyped
  <2> QED
    BY <2>1, ElementOfSeq
<1> QED
  BY <1>1, <1>2, <1>3 DEF Latest

\* A read shows a version there was, and the latest where the database is caught up.
LEMMA ShownVersion ==
  ASSUME ReplicaTyped, NEW db, db \in Databases
  PROVE  /\ \E i \in 1..Len(log) : Shown(db) = log[i]
         /\ CaughtUp(db) => Shown(db) = Latest
BY ReplicaFacts DEF ReplicaTyped, Shown, CaughtUp, Latest, Databases

\* A commit leaves the versions before it as they are.
LEMMA NewVersion ==
  ASSUME ReplicaTyped, NEW new, new \in Versions, log' = Append(log, new)
  PROVE  /\ log' \in Seq(Versions) /\ Len(log') = Len(log) + 1
         /\ Latest' = new /\ log'[Len(log) + 1] = new
         /\ \A i \in 1..Len(log) : log'[i] = log[i]
<1>1. log \in Seq(Versions)
  BY DEF ReplicaTyped
<1>2. /\ Append(log, new) \in Seq(Versions) /\ Len(Append(log, new)) = Len(log) + 1
      /\ \A i \in 1..Len(log) : Append(log, new)[i] = log[i]
      /\ Append(log, new)[Len(log) + 1] = new
  BY <1>1, AppendProperties
<1>3. Latest' = log'[Len(log')]
  BY DEF Latest
<1> QED
  BY <1>2, <1>3

\* A line is put into the cart before the checkout has begun.
LEMMA PutKeepsReplica ==
  ASSUME ReplicaOK, NEW l, l \in Lines, PutInCart(l)
  PROVE  ReplicaOK'
<1> DEFINE new == [Latest EXCEPT !.cart = @ \cup {l}]
<1>1. /\ \A i \in 1..Len(log) : l \notin log[i].cart
      /\ \A t \in Tickets : checkout[t] \in {"waiting", "placed"}
      /\ log' = Append(log, new)
      /\ UNCHANGED <<seen, checkout, billed, picked, charged, fresh>>
  BY ReplicaFacts DEF PutInCart, ReplicaOK
<1>2. /\ Latest \in Versions /\ Len(log) \in Nat /\ Len(log) \in 1..Len(log)
      /\ \A i \in 1..Len(log) : log[i] \in Versions
  BY ReplicaFacts DEF ReplicaOK
<1>3. new \in Versions /\ new.orders = Latest.orders /\ new.cart = Latest.cart \cup {l}
  BY <1>2 DEF Versions
<1> HIDE DEF new
<1>4. /\ log' \in Seq(Versions) /\ Len(log') = Len(log) + 1
      /\ Latest' = new /\ log'[Len(log) + 1] = new
      /\ \A i \in 1..Len(log) : log'[i] = log[i]
  BY <1>1, <1>3, NewVersion DEF ReplicaOK
<1>5. 1..Len(log') = 1..Len(log) \cup {Len(log) + 1}
  BY <1>2, <1>4
<1>6. ReplicaTyped'
  BY <1>1, <1>4, <1>5 DEF ReplicaOK, ReplicaTyped
<1>7. OrdersStay'
  <2> SUFFICES ASSUME NEW t \in Tickets
               PROVE  /\ checkout'[t] = "placed" <=> Latest'.orders[t] # Nowhere
                      /\ Latest'.orders[t] # Nowhere =>
                           Latest'.orders[t] = picked'[t] /\ Latest'.cart \cap picked'[t] = {}
                      /\ \A i \in 1..Len(log') : log'[i].orders[t] \in {Nowhere, Latest'.orders[t]}
                      /\ \A m \in picked'[t] : \E i \in 1..Len(log') : m \in log'[i].cart
    BY Zenon DEF OrdersStay
  <2>1. l \notin picked[t]
    BY <1>1 DEF ReplicaOK, OrdersStay
  <2>2. /\ checkout[t] = "placed" <=> Latest.orders[t] # Nowhere
        /\ Latest.orders[t] # Nowhere =>
             Latest.orders[t] = picked[t] /\ Latest.cart \cap picked[t] = {}
        /\ \A i \in 1..Len(log) : log[i].orders[t] \in {Nowhere, Latest.orders[t]}
        /\ \A m \in picked[t] : \E i \in 1..Len(log) : m \in log[i].cart
    BY DEF ReplicaOK, OrdersStay
  <2>3. \A i \in 1..Len(log') : log'[i].orders[t] \in {Nowhere, Latest'.orders[t]}
    BY <1>3, <1>4, <1>5, <2>2
  <2>4. \A m \in picked'[t] : \E i \in 1..Len(log') : m \in log'[i].cart
    BY <1>1, <1>4, <1>5, <2>2
  <2> QED
    BY <1>1, <1>3, <1>4, <2>1, <2>2, <2>3, <2>4
<1>8. CheckoutsRead'
  <2>1. ASSUME NEW t \in Tickets, <<"checkout", t>> \in fresh
        PROVE  /\ checkout[t] = "placed"
               /\ billed[t] = picked[t] /\ picked[t] # {}
               /\ \A i \in 1..Len(log), earlier \in Tickets :
                    log[i].orders[t] = Nowhere /\ log[i].orders[earlier] # Nowhere =>
                      picked[t] \cap log[i].orders[earlier] = {}
    BY <1>1, <2>1 DEF ReplicaOK, CheckoutsRead
  <2>2. ASSUME NEW t \in Tickets, <<"checkout", t>> \in fresh
        PROVE  log'[Len(log) + 1].orders[t] # Nowhere
    BY <1>3, <1>4, <2>1, <2>2 DEF ReplicaOK, OrdersStay
  <2> QED
    BY <1>1, <1>4, <1>5, <2>1, <2>2 DEF ReplicaOK, CheckoutsRead
<1>9. PaymentsRead'
  BY <1>1, <1>3, <1>4 DEF ReplicaOK, PaymentsRead
<1> QED
  BY <1>6, <1>7, <1>8, <1>9 DEF ReplicaOK

\* The three reads of a checkout.
LEMMA ReadKeepsReplica ==
  ASSUME ReplicaOK, NEW t, NEW db, t \in Tickets, db \in Databases,
         CheckCart(t, db) \/ BillCart(t, db) \/ PickLines(t, db)
  PROVE  ReplicaOK'
<1>1. log' = log /\ seen' = seen /\ charged' = charged /\ Latest' = Latest
  BY DEF CheckCart, BillCart, PickLines, Latest
<1>2. /\ Latest \in Versions /\ Len(log) \in Nat /\ Len(log) \in 1..Len(log)
      /\ \A i \in 1..Len(log) : log[i] \in Versions
  BY ReplicaFacts DEF ReplicaOK
<1>3. PICK i \in 1..Len(log) : Shown(db) = log[i]
  BY ShownVersion DEF ReplicaOK
<1>4. CaughtUp(db) => Shown(db) = Latest
  BY ShownVersion DEF ReplicaOK
<1>5. Shown(db).cart \in SUBSET Lines
  BY <1>2, <1>3 DEF Versions
<1>6. ReplicaTyped
  BY DEF ReplicaOK
<1>7. Latest.orders[t] = Nowhere
  BY DEF ReplicaOK, OrdersStay, CheckCart, BillCart, PickLines
<1>8. CASE CheckCart(t, db)
  <2>1. /\ \A u \in Tickets : checkout[u] \in {"waiting", "placed"}
        /\ checkout[t] = "waiting" /\ Shown(db).cart # {}
        /\ checkout' = [checkout EXCEPT ![t] = "checked"]
        /\ fresh' = IF CaughtUp(db) THEN fresh \cup {<<"checkout", t>>} ELSE fresh
        /\ billed' = billed /\ picked' = picked
    BY <1>8 DEF CheckCart, Reach
  <2>2. ReplicaTyped'
    BY <1>1, <1>6, <2>1 DEF ReplicaTyped, CheckoutStages
  <2>3. checkout'[t] = "checked" /\ \A u \in Tickets \ {t} : checkout'[u] = checkout[u]
    BY <1>6, <2>1 DEF ReplicaTyped
  <2>4. OrdersStay'
    BY <1>1, <1>7, <2>1, <2>3 DEF ReplicaOK, OrdersStay
  <2>5. \A u \in Tickets \ {t} : <<"checkout", u>> \in fresh' => <<"checkout", u>> \in fresh
    BY <2>1
  <2>6. CheckoutsRead'
    <3>1. <<"checkout", t>> \in fresh' => Latest.cart # {}
      <4>1. <<"checkout", t>> \notin fresh
        BY <2>1 DEF ReplicaOK, CheckoutsRead
      <4> QED
        BY <1>4, <2>1, <4>1
    <3> QED
      BY <1>1, <2>1, <2>3, <2>5, <3>1 DEF ReplicaOK, CheckoutsRead
  <2>7. \A u \in Tickets : <<"payment", u>> \in fresh' => <<"payment", u>> \in fresh
    BY <2>1
  <2>8. PaymentsRead'
    BY <1>1, <2>7 DEF ReplicaOK, PaymentsRead
  <2> QED
    BY <2>2, <2>4, <2>6, <2>8 DEF ReplicaOK
<1>9. CASE BillCart(t, db)
  <2>1. /\ checkout[t] = "checked"
        /\ checkout' = [checkout EXCEPT ![t] = "billed"]
        /\ billed' = [billed EXCEPT ![t] = Shown(db).cart]
        /\ fresh' = IF CaughtUp(db) THEN fresh ELSE fresh \ {<<"checkout", t>>}
        /\ picked' = picked
    BY <1>9 DEF BillCart, Reach, StillFresh
  <2>2. ReplicaTyped'
    BY <1>1, <1>5, <1>6, <2>1 DEF ReplicaTyped, CheckoutStages
  <2>3. /\ checkout'[t] = "billed" /\ \A u \in Tickets \ {t} : checkout'[u] = checkout[u]
        /\ billed'[t] = Shown(db).cart /\ \A u \in Tickets \ {t} : billed'[u] = billed[u]
    BY <1>6, <2>1 DEF ReplicaTyped
  <2>4. OrdersStay'
    BY <1>1, <1>7, <2>1, <2>3 DEF ReplicaOK, OrdersStay
  <2>5. fresh' \subseteq fresh /\ (<<"checkout", t>> \in fresh' => CaughtUp(db))
    BY <2>1
  <2>6. CheckoutsRead'
    BY <1>1, <1>4, <2>1, <2>3, <2>5 DEF ReplicaOK, CheckoutsRead
  <2>7. PaymentsRead'
    BY <1>1, <2>5 DEF ReplicaOK, PaymentsRead
  <2> QED
    BY <2>2, <2>4, <2>6, <2>7 DEF ReplicaOK
<1>10. CASE PickLines(t, db)
  <2>1. /\ checkout[t] = "billed"
        /\ checkout' = [checkout EXCEPT ![t] = "picked"]
        /\ picked' = [picked EXCEPT ![t] = Shown(db).cart]
        /\ fresh' = IF CaughtUp(db) THEN fresh ELSE fresh \ {<<"checkout", t>>}
        /\ billed' = billed
    BY <1>10 DEF PickLines, Reach, StillFresh
  <2>2. ReplicaTyped'
    BY <1>1, <1>5, <1>6, <2>1 DEF ReplicaTyped, CheckoutStages
  <2>3. /\ checkout'[t] = "picked" /\ \A u \in Tickets \ {t} : checkout'[u] = checkout[u]
        /\ picked'[t] = Shown(db).cart /\ \A u \in Tickets \ {t} : picked'[u] = picked[u]
    BY <1>6, <2>1 DEF ReplicaTyped
  <2>4. OrdersStay'
    <3>1. \A l \in picked'[t] : l \in log[i].cart
      BY <1>3, <2>3
    <3> QED
      BY <1>1, <1>7, <2>1, <2>3, <3>1 DEF ReplicaOK, OrdersStay
  <2>5. fresh' \subseteq fresh /\ (<<"checkout", t>> \in fresh' => CaughtUp(db))
    BY <2>1
  <2>6. CheckoutsRead'
    BY <1>1, <1>4, <2>1, <2>3, <2>5 DEF ReplicaOK, CheckoutsRead
  <2>7. PaymentsRead'
    BY <1>1, <2>5 DEF ReplicaOK, PaymentsRead
  <2> QED
    BY <2>2, <2>4, <2>6, <2>7 DEF ReplicaOK
<1> QED
  BY <1>8, <1>9, <1>10

\* The order, its items and the emptied cart are one commit.
LEMMA PlaceKeepsReplica ==
  ASSUME ReplicaOK, NEW t, t \in Tickets, Place(t)
  PROVE  ReplicaOK'
<1> DEFINE new == Placed(t, picked[t])
<1>1. /\ checkout[t] = "picked"
      /\ checkout' = [checkout EXCEPT ![t] = "placed"]
      /\ log' = Append(log, new)
      /\ UNCHANGED <<seen, billed, picked, charged, fresh>>
  BY DEF Place, Reach
<1>2. /\ Latest \in Versions /\ Len(log) \in Nat /\ Len(log) \in 1..Len(log)
      /\ \A i \in 1..Len(log) : log[i] \in Versions
      /\ \A s \in SUBSET Lines : s # Nowhere /\ s # Unpaid
  BY ReplicaFacts DEF ReplicaOK
<1>3. picked[t] \in SUBSET Lines /\ checkout \in [Tickets -> CheckoutStages]
  BY DEF ReplicaOK, ReplicaTyped
<1>4. /\ new \in Versions /\ new.cart = {} /\ new.orders[t] = picked[t]
      /\ \A u \in Tickets \ {t} : new.orders[u] = Latest.orders[u]
  <2>1. [Latest.orders EXCEPT ![t] = picked[t]] \in [Tickets -> (SUBSET Lines) \cup {Nowhere}]
    BY <1>2, <1>3 DEF Versions
  <2>2. new = [cart |-> {}, orders |-> [Latest.orders EXCEPT ![t] = picked[t]]]
    BY DEF Placed
  <2> HIDE DEF new
  <2> QED
    BY <1>2, <2>1, <2>2 DEF Versions
<1> HIDE DEF new
<1>5. /\ log' \in Seq(Versions) /\ Len(log') = Len(log) + 1
      /\ Latest' = new /\ log'[Len(log) + 1] = new
      /\ \A i \in 1..Len(log) : log'[i] = log[i]
  BY <1>1, <1>4, NewVersion DEF ReplicaOK
<1>6. 1..Len(log') = 1..Len(log) \cup {Len(log) + 1}
  BY <1>2, <1>5
<1>7. checkout'[t] = "placed" /\ \A u \in Tickets \ {t} : checkout'[u] = checkout[u]
  BY <1>1, <1>3
<1>8. ReplicaTyped'
  BY <1>1, <1>5, <1>6 DEF ReplicaOK, ReplicaTyped, CheckoutStages
<1>9. Latest.orders[t] = Nowhere /\ picked[t] # Nowhere
  BY <1>1, <1>2, <1>3 DEF ReplicaOK, OrdersStay
<1>10. ASSUME NEW u \in Tickets
       PROVE  \A i \in 1..Len(log) : log[i].orders[u] \in {Nowhere, Latest.orders[u]}
  BY DEF ReplicaOK, OrdersStay
<1>11. OrdersStay'
  <2>1. ASSUME NEW u \in Tickets
        PROVE  /\ checkout'[u] = "placed" <=> Latest'.orders[u] # Nowhere
               /\ Latest'.orders[u] # Nowhere =>
                    Latest'.orders[u] = picked[u] /\ Latest'.cart \cap picked[u] = {}
    <3>1. CASE u = t
      BY <1>4, <1>5, <1>7, <1>9, <3>1
    <3>2. CASE u # t
      BY <1>4, <1>5, <1>7, <3>2 DEF ReplicaOK, OrdersStay
    <3> QED
      BY <3>1, <3>2
  <2>2. ASSUME NEW u \in Tickets
        PROVE  \A i \in 1..Len(log') : log'[i].orders[u] \in {Nowhere, Latest'.orders[u]}
    BY <1>4, <1>5, <1>6, <1>9, <1>10
  <2>3. ASSUME NEW u \in Tickets
        PROVE  \A l \in picked[u] : \E i \in 1..Len(log') : l \in log'[i].cart
    BY <1>5, <1>6 DEF ReplicaOK, OrdersStay
  <2> QED
    BY <1>1, <2>1, <2>2, <2>3 DEF OrdersStay
<1>12. CheckoutsRead'
  <2>1. ASSUME NEW u \in Tickets, u # t
        PROVE  checkout[u] \in {"waiting", "placed"}
    BY <1>1, <2>1 DEF ReplicaOK, CheckoutsRead
  <2>2. ASSUME NEW u \in Tickets, <<"checkout", u>> \in fresh
        PROVE  /\ checkout'[u] = "placed" /\ billed[u] = picked[u] /\ picked[u] # {}
               /\ \A i \in 1..Len(log), earlier \in Tickets :
                    log[i].orders[u] = Nowhere /\ log[i].orders[earlier] # Nowhere =>
                      picked[u] \cap log[i].orders[earlier] = {}
               /\ log'[Len(log) + 1].orders[u] # Nowhere
    <3>1. CASE u = t
      <4>1. billed[t] = Latest.cart /\ picked[t] = Latest.cart /\ Latest.cart # {}
        BY <1>1, <2>2, <3>1 DEF ReplicaOK, CheckoutsRead
      <4>2. ASSUME NEW i \in 1..Len(log), NEW earlier \in Tickets, log[i].orders[earlier] # Nowhere
            PROVE  Latest.cart \cap log[i].orders[earlier] = {}
        <5>1. log[i].orders[earlier] = Latest.orders[earlier] /\ Latest.orders[earlier] # Nowhere
          BY <1>10, <4>2
        <5> QED
          BY <5>1 DEF ReplicaOK, OrdersStay
      <4> QED
        BY <1>4, <1>5, <1>7, <1>9, <3>1, <4>1, <4>2
    <3>2. CASE u # t
      <4>1. checkout[u] = "placed"
        BY <2>1, <2>2, <3>2 DEF ReplicaOK, CheckoutsRead
      <4>2. Latest.orders[u] # Nowhere
        BY <4>1 DEF ReplicaOK, OrdersStay
      <4> QED
        BY <1>4, <1>5, <1>7, <2>2, <3>2, <4>1, <4>2 DEF ReplicaOK, CheckoutsRead
    <3> QED
      BY <3>1, <3>2
  <2>3. \A u \in Tickets : checkout'[u] \in {"waiting", "placed"}
    BY <1>7, <2>1
  <2>4. ASSUME NEW u \in Tickets, <<"checkout", u>> \in fresh'
        PROVE  /\ checkout'[u] = "placed"
               /\ billed'[u] = picked'[u] /\ picked'[u] # {}
               /\ \A i \in 1..Len(log'), earlier \in Tickets :
                    log'[i].orders[u] = Nowhere /\ log'[i].orders[earlier] # Nowhere =>
                      picked'[u] \cap log'[i].orders[earlier] = {}
    BY <1>1, <1>5, <1>6, <2>2, <2>4
  <2> QED
    BY <2>3, <2>4 DEF CheckoutsRead
<1>13. PaymentsRead'
  <2>1. charged[t] = Unpaid
    BY <1>9 DEF ReplicaOK, PaymentsRead
  <2> QED
    BY <1>1, <1>4, <1>5, <2>1 DEF ReplicaOK, PaymentsRead
<1> QED
  BY <1>8, <1>11, <1>12, <1>13 DEF ReplicaOK

\* A payment reads the items from either database.
LEMMA ChargeKeepsReplica ==
  ASSUME ReplicaOK, NEW t, NEW db, t \in Tickets, db \in Databases, Charge(t, db)
  PROVE  ReplicaOK'
<1> DEFINE lines == IF Shown(db).orders[t] = Nowhere THEN {} ELSE Shown(db).orders[t]
<1>1. /\ Latest.orders[t] # Nowhere
      /\ charged' = [charged EXCEPT ![t] = lines]
      /\ fresh' = IF CaughtUp(db) THEN fresh \cup {<<"payment", t>>} ELSE fresh
      /\ charged[t] = Unpaid
      /\ UNCHANGED <<log, seen, checkout, billed, picked>>
  BY DEF Charge
<1>2. PICK i \in 1..Len(log) : Shown(db) = log[i]
  BY ShownVersion DEF ReplicaOK
<1>3. Shown(db).orders[t] \in {Nowhere, Latest.orders[t]}
  BY <1>2 DEF ReplicaOK, OrdersStay
<1>4. Latest \in Versions /\ Latest' = Latest
  BY <1>1, ReplicaFacts DEF ReplicaOK, Latest
<1>5. lines \in SUBSET Lines /\ lines \in {{}, Latest.orders[t]}
  BY <1>1, <1>3, <1>4 DEF Versions
<1>6. CaughtUp(db) => lines = Latest.orders[t]
  BY <1>1, ShownVersion DEF ReplicaOK
<1> HIDE DEF lines
<1>7. ReplicaTyped'
  BY <1>1, <1>5 DEF ReplicaOK, ReplicaTyped
<1>8. OrdersStay'
  BY <1>1, <1>4 DEF ReplicaOK, OrdersStay
<1>9. \A u \in Tickets : <<"checkout", u>> \in fresh' => <<"checkout", u>> \in fresh
  BY <1>1
<1>10. CheckoutsRead'
  BY <1>1, <1>4, <1>9 DEF ReplicaOK, CheckoutsRead
<1>11. charged'[t] = lines /\ \A u \in Tickets \ {t} : charged'[u] = charged[u]
  BY <1>1 DEF ReplicaOK, ReplicaTyped
<1>12. \A u \in Tickets \ {t} : <<"payment", u>> \in fresh' => <<"payment", u>> \in fresh
  BY <1>1
<1>13. PaymentsRead'
  <2>1. ASSUME NEW u \in Tickets
        PROVE  /\ <<"payment", u>> \in fresh' => charged'[u] # Unpaid
               /\ charged'[u] # Unpaid =>
                    /\ Latest.orders[u] # Nowhere
                    /\ charged'[u] \in {{}, Latest.orders[u]}
                    /\ <<"payment", u>> \in fresh' => charged'[u] = Latest.orders[u]
    <3>1. CASE u # t
      BY <1>11, <1>12, <3>1 DEF ReplicaOK, PaymentsRead
    <3>2. lines # Unpaid
      BY <1>5, ReplicaFacts DEF ReplicaOK
    <3>3. CASE u = t /\ CaughtUp(db)
      BY <1>1, <1>5, <1>6, <1>11, <3>2, <3>3
    <3>4. CASE u = t /\ ~CaughtUp(db)
      <4>1. <<"payment", t>> \notin fresh'
        BY <1>1, <3>4 DEF ReplicaOK, PaymentsRead
      <4> QED
        BY <1>1, <1>5, <1>11, <3>2, <3>4, <4>1
    <3> QED
      BY <3>1, <3>3, <3>4
  <2> QED
    BY <1>4, <2>1 DEF PaymentsRead
<1> QED
  BY <1>7, <1>8, <1>10, <1>13 DEF ReplicaOK

\* Orders stay what the loop of their checkout read, whichever database each read
\* went to (PrimaryReplicaRouter, create_order_from_cart, transition_status).
THEOREM ReplicaInvariant == ReplicaSpec => []ReplicaOK
<1>1. ReplicaInit => ReplicaOK
  <2> SUFFICES ASSUME ReplicaInit PROVE ReplicaOK
    OBVIOUS
  <2> DEFINE first == [cart |-> {}, orders |-> [t \in Tickets |-> Nowhere]]
  <2>1. log = <<first>> /\ first \in Versions /\ seen = 1
    BY DEF ReplicaInit, Versions
  <2>2. first.cart = {} /\ \A t \in Tickets : first.orders[t] = Nowhere
    OBVIOUS
  <2> HIDE DEF first
  <2>3. log \in Seq(Versions) /\ Len(log) = 1 /\ log[1] = first
    BY <2>1
  <2>4. Latest = first /\ 1..Len(log) = {1}
    BY <2>3 DEF Latest
  <2>5. ReplicaTyped
    BY <2>1, <2>3 DEF ReplicaInit, ReplicaTyped, CheckoutStages
  <2>6. OrdersStay
    BY <2>2, <2>3, <2>4 DEF ReplicaInit, OrdersStay
  <2> QED
    BY <2>2, <2>4, <2>5, <2>6 DEF ReplicaInit, ReplicaOK, CheckoutsRead, PaymentsRead
<1>2. ReplicaOK /\ [ReplicaNext]_replicaVars => ReplicaOK'
  <2> SUFFICES ASSUME ReplicaOK, [ReplicaNext]_replicaVars PROVE ReplicaOK'
    OBVIOUS
  <2>1. CASE Replicate
    <3>1. seen < Len(log) /\ seen' = seen + 1
          /\ UNCHANGED <<log, checkout, billed, picked, charged, fresh>>
      BY <2>1 DEF Replicate
    <3>2. seen' \in 1..Len(log)
      BY <3>1, ReplicaFacts DEF ReplicaOK, ReplicaTyped
    <3> QED
      BY <3>1, <3>2 DEF ReplicaOK, ReplicaTyped, OrdersStay, CheckoutsRead, PaymentsRead, Latest
  <2>2. CASE UNCHANGED replicaVars
    BY <2>2 DEF replicaVars, ReplicaOK, ReplicaTyped, OrdersStay, CheckoutsRead, PaymentsRead, Latest
  <2> QED
    BY <2>1, <2>2, PutKeepsReplica, ReadKeepsReplica, PlaceKeepsReplica, ChargeKeepsReplica
      DEF ReplicaNext
<1> QED
  BY <1>1, <1>2, PTL DEF ReplicaSpec

\* For any lines and checkouts, and however far the replica is behind: orders are
\* whole, priced and charged right, as far as the reads of their checkout and
\* payment were fresh (PrimaryReplicaRouter.db_for_read).
THEOREM WholeWhereFresh == ReplicaSpec => []WholeWhereReadsAreFresh
<1>1. ReplicaOK => WholeWhereReadsAreFresh
  <2> SUFFICES ASSUME ReplicaOK, NEW t \in Tickets
               PROVE  LET ordered == Latest.orders[t] IN
                      /\ charged[t] # Unpaid =>
                           /\ charged[t] \in {{}, ordered}
                           /\ <<"payment", t>> \in fresh => charged[t] = ordered
                      /\ ordered # Nowhere /\ <<"checkout", t>> \in fresh =>
                           /\ billed[t] = ordered /\ ordered # {}
                           /\ \A i \in DOMAIN log, earlier \in Tickets :
                                log[i].orders[t] = Nowhere /\ log[i].orders[earlier] # Nowhere =>
                                  ordered \cap log[i].orders[earlier] = {}
    BY DEF WholeWhereReadsAreFresh
  <2>1. DOMAIN log = 1..Len(log)
    BY ReplicaFacts DEF ReplicaOK
  <2>2. Latest.orders[t] # Nowhere => checkout[t] = "placed" /\ Latest.orders[t] = picked[t]
    BY DEF ReplicaOK, OrdersStay
  <2> QED
    BY <2>1, <2>2 DEF ReplicaOK, CheckoutsRead, PaymentsRead
<1> QED
  BY <1>1, ReplicaInvariant, PTL

---------------------------------------------------------------------------
(* Analytics: what reports are wrong about.                                *)

PurchaseRows ==
  [status : {"none", "pending", "paid", "packed", "cancelled"},
   created : Days \cup {Never}, paid_on : Days \cup {Never}]

Answers == [Figures -> SUBSET Purchases]

ReportRows ==
  [kind : {"rollup", "dashboard"}, day : Days, began : Days, moved : SUBSET Purchases,
   todo : Seq(Figures), figures : Answers]

Snapshots == [began : Days, figures : Answers]

\* The figures that rollup and dashboard both ask for.
SharedFigures == {"revenue", "average", "orders", "paid", "cancelled"}

StillToAsk(rest, f) == \E i \in 1..Len(rest) : rest[i] = f

\* What was paid before the count and is not in it, is not PAID any more.
NotPaidSince(d, began, counted) ==
  \A s \in Purchases :
    purchase[s].created = d /\ purchase[s].paid_on \in 1..(began - 1) /\ s \notin counted =>
      purchase[s].status # "paid"

PurchasesMoveOn ==
  \A s \in Purchases :
    /\ purchase[s].status = "none" <=> purchase[s].created = Never
    /\ purchase[s].status \in {"none", "pending"} => purchase[s].paid_on = Never
    /\ purchase[s].created <= today

\* Each figure that was asked for is right but for what moved since; a rollup of a
\* day that is over has its orders, and its revenue at least what is still PAID.
ReportRight(now) ==
  /\ now.began <= today /\ now.day <= now.began
  /\ now.kind = "dashboard" => now.day = now.began
  /\ now.kind = "rollup" \/ today = now.began =>
       \A f \in SharedFigures : ~StillToAsk(now.todo, f) =>
         now.figures[f] \ now.moved = MadeOf(now.kind, f, now.day) \ now.moved
  /\ now.kind = "rollup" /\ now.day < now.began =>
       /\ ~StillToAsk(now.todo, "orders") => now.figures["orders"] = CreatedOn(now.day)
       /\ ~StillToAsk(now.todo, "revenue") =>
            NotPaidSince(now.day, now.began, now.figures["revenue"])

SnapshotRight(d, snapshot) ==
  /\ snapshot.began <= today
  /\ snapshot.began > d =>
       /\ snapshot.figures["orders"] = CreatedOn(d)
       /\ NotPaidSince(d, snapshot.began, snapshot.figures["revenue"])

AnalyticsTyped ==
  /\ purchase \in [Purchases -> PurchaseRows]
  /\ today \in Days
  /\ report \in [Reporters -> {NoReport} \cup ReportRows]
  /\ daily \in [Days -> {NoSnapshot} \cup Snapshots]

\* All there is to know of reports and snapshots.
CountedOK ==
  /\ AnalyticsTyped
  /\ PurchasesMoveOn
  /\ \A r \in Reporters, now \in ReportRows : report[r] = now => ReportRight(now)
  /\ \A d \in Days, snapshot \in Snapshots : daily[d] = snapshot => SnapshotRight(d, snapshot)

\* What is no report and no snapshot.
LEMMA NoReportFacts ==
  /\ NoReport \notin ReportRows
  /\ NoSnapshot \notin Snapshots
  /\ Days \subseteq Nat \ {0} /\ Never = 0 /\ LastDay \in Nat
<1>1. \A now \in ReportRows : now.kind # "none"
  BY DEF ReportRows
<1>2. NoReport.kind = "none"
  BY DEF NoReport
<1>3. LastDay \in Nat
  BY AnalyticsAssumption
<1>4. \A d \in Days : d \in Nat /\ d # 0
  BY <1>3 DEF Days
<1>5. \A snapshot \in Snapshots : snapshot.began # 0
  BY <1>4 DEF Snapshots
<1>6. NoSnapshot.began = 0
  BY DEF NoSnapshot, Never
<1> QED
  BY <1>1, <1>2, <1>3, <1>4, <1>5, <1>6 DEF Never

\* What the figures are made of changes only about what moves.
LEMMA MadeOfOthers ==
  ASSUME NEW s, NEW changed, NEW kind, NEW f, NEW d,
         AnalyticsTyped, s \in Purchases, purchase' = [purchase EXCEPT ![s] = changed],
         f \in SharedFigures
  PROVE  /\ MadeOf(kind, f, d)' \subseteq MadeOf(kind, f, d) \cup {s}
         /\ MadeOf(kind, f, d) \subseteq MadeOf(kind, f, d)' \cup {s}
<1>1. \A u \in Purchases : u # s => purchase'[u] = purchase[u]
  BY DEF AnalyticsTyped
<1>2. CreatedOn(d)' \ {s} = CreatedOn(d) \ {s}
  BY <1>1 DEF CreatedOn
<1>3. \A named : WithStatus(named)' \ {s} = WithStatus(named) \ {s}
  BY <1>1 DEF WithStatus
<1>4. PaidOn(d)' \ {s} = PaidOn(d) \ {s}
  BY <1>1 DEF PaidOn, WithStatus
<1>5. CASE f = "orders"
  BY <1>2, <1>5 DEF MadeOf
<1>6. CASE f = "paid"
  BY <1>2, <1>3, <1>6 DEF MadeOf
<1>7. CASE f = "cancelled"
  BY <1>2, <1>3, <1>7 DEF MadeOf
<1>8. CASE f = "revenue"
  BY <1>2, <1>3, <1>4, <1>8 DEF MadeOf
<1>9. CASE f = "average"
  BY <1>2, <1>3, <1>9 DEF MadeOf
<1> QED
  BY <1>5, <1>6, <1>7, <1>8, <1>9 DEF SharedFigures

\* What may happen to an order: it is placed today, paid today, or moves on.
MovesOn(s, changed) ==
  \/ /\ purchase[s].status = "none" /\ changed.status = "pending"
     /\ changed.created = today /\ changed.paid_on = Never
  \/ /\ purchase[s].status = "pending" /\ changed.status = "paid"
     /\ changed.created = purchase[s].created /\ changed.paid_on = today
  \/ /\ purchase[s].status # "none" /\ changed.status \in {"packed", "cancelled"}
     /\ changed.created = purchase[s].created /\ changed.paid_on = purchase[s].paid_on

\* The past of a day does not change; what is paid now is paid today.
LEMMA MoveKeepsPast ==
  ASSUME NEW s, NEW changed, NEW d, NEW began, NEW counted,
         AnalyticsTyped, PurchasesMoveOn, s \in Purchases, changed \in PurchaseRows,
         MovesOn(s, changed), purchase' = [purchase EXCEPT ![s] = changed],
         d \in Days, began \in Days, began <= today, d < began
  PROVE  /\ CreatedOn(d)' = CreatedOn(d)
         /\ NotPaidSince(d, began, counted) => NotPaidSince(d, began, counted)'
<1>1. /\ purchase'[s] = changed
      /\ \A u \in Purchases : u # s => purchase'[u] = purchase[u]
      /\ purchase[s] \in PurchaseRows
  BY DEF AnalyticsTyped
<1>2. d \in Nat /\ d # 0 /\ began \in Nat /\ today \in Nat
  BY NoReportFacts DEF AnalyticsTyped
<1>3. purchase[s].created = d <=> changed.created = d
  BY <1>1, <1>2 DEF MovesOn, PurchasesMoveOn, Never
<1>4. CreatedOn(d)' = CreatedOn(d)
  BY <1>1, <1>3 DEF CreatedOn
<1>5. ASSUME NotPaidSince(d, began, counted), NEW u \in Purchases,
             purchase'[u].created = d, purchase'[u].paid_on \in 1..(began - 1), u \notin counted
      PROVE  purchase'[u].status # "paid"
  <2>1. CASE u # s
    BY <1>1, <1>5, <2>1 DEF NotPaidSince
  <2>2. CASE u = s
    <3>1. changed.paid_on # today
      BY <1>1, <1>2, <1>5, <2>2
    <3> QED
      BY <1>1, <2>2, <3>1 DEF MovesOn
  <2> QED
    BY <2>1, <2>2
<1> QED
  BY <1>4, <1>5 DEF NotPaidSince

\* An order moves while reports are made.
LEMMA MoveKeepsCounts ==
  ASSUME NEW s, NEW changed, CountedOK, s \in Purchases, changed \in PurchaseRows,
         MovesOn(s, changed), Move(s, changed)
  PROVE  CountedOK'
<1>1. /\ purchase' = [purchase EXCEPT ![s] = changed]
      /\ report' = [r \in Reporters |->
                      IF report[r] = NoReport THEN NoReport
                      ELSE [report[r] EXCEPT !.moved = @ \cup {s}]]
      /\ today' = today /\ daily' = daily
  BY DEF Move
<1>2. AnalyticsTyped /\ PurchasesMoveOn
  BY DEF CountedOK
<1>3. \A now \in ReportRows :
        /\ [now EXCEPT !.moved = @ \cup {s}] \in ReportRows
        /\ [now EXCEPT !.moved = @ \cup {s}].moved = now.moved \cup {s}
        /\ [now EXCEPT !.moved = @ \cup {s}].kind = now.kind
        /\ [now EXCEPT !.moved = @ \cup {s}].day = now.day
        /\ [now EXCEPT !.moved = @ \cup {s}].began = now.began
        /\ [now EXCEPT !.moved = @ \cup {s}].todo = now.todo
        /\ [now EXCEPT !.moved = @ \cup {s}].figures = now.figures
  BY DEF ReportRows
<1>4. \A r \in Reporters : report[r] = NoReport \/ report[r] \in ReportRows
  BY <1>2 DEF AnalyticsTyped
<1>5. AnalyticsTyped'
  <2>1. report' \in [Reporters -> {NoReport} \cup ReportRows]
    BY <1>1, <1>3, <1>4
  <2>2. purchase' \in [Purchases -> PurchaseRows]
    BY <1>1, <1>2 DEF AnalyticsTyped
  <2> QED
    BY <1>1, <1>2, <2>1, <2>2 DEF AnalyticsTyped
<1>6. PurchasesMoveOn'
  <2>1. today \in Nat /\ today # 0 /\ purchase[s] \in PurchaseRows
    BY <1>2, NoReportFacts DEF AnalyticsTyped
  <2>2. purchase'[s] = changed /\ \A u \in Purchases : u # s => purchase'[u] = purchase[u]
    BY <1>1, <1>2 DEF AnalyticsTyped
  <2>3. /\ changed.status = "none" <=> changed.created = Never
        /\ changed.status \in {"none", "pending"} => changed.paid_on = Never
        /\ changed.created <= today
    BY <1>2, <2>1 DEF MovesOn, PurchasesMoveOn, Never
  <2> QED
    BY <1>1, <1>2, <2>2, <2>3 DEF PurchasesMoveOn
<1>7. ASSUME NEW r \in Reporters, NEW new \in ReportRows, report'[r] = new
      PROVE  ReportRight(new)'
  <2>1. report[r] \in ReportRows /\ report'[r] = [report[r] EXCEPT !.moved = @ \cup {s}]
    BY <1>1, <1>4, <1>7, NoReportFacts
  <2>2. PICK now \in ReportRows : now = report[r]
    BY <2>1
  <2>3. new = [now EXCEPT !.moved = @ \cup {s}]
    BY <1>7, <2>1, <2>2
  <2>4. /\ new.moved = now.moved \cup {s} /\ new.kind = now.kind /\ new.day = now.day
        /\ new.began = now.began /\ new.todo = now.todo /\ new.figures = now.figures
    BY <1>3, <2>3
  <2>5. ReportRight(now)
    BY <2>2 DEF CountedOK
  <2>6. now.day \in Days /\ now.began \in Days
    BY DEF ReportRows
  <2>7. ReportRight(new)'
    <3>1. new.began <= today' /\ new.day <= new.began /\ (new.kind = "dashboard" => new.day = new.began)
      BY <1>1, <2>4, <2>5 DEF ReportRight
    <3>2. ASSUME new.kind = "rollup" \/ today' = new.began, NEW f \in SharedFigures,
                 ~StillToAsk(new.todo, f)
          PROVE  new.figures[f] \ new.moved = MadeOf(new.kind, f, new.day)' \ new.moved
      <4>1. now.figures[f] \ now.moved = MadeOf(now.kind, f, now.day) \ now.moved
        BY <1>1, <2>4, <2>5, <3>2 DEF ReportRight
      <4>2. /\ MadeOf(now.kind, f, now.day)' \subseteq MadeOf(now.kind, f, now.day) \cup {s}
            /\ MadeOf(now.kind, f, now.day) \subseteq MadeOf(now.kind, f, now.day)' \cup {s}
        <5>1. ASSUME NEW kind, NEW g, NEW d, g \in SharedFigures
              PROVE  /\ MadeOf(kind, g, d)' \subseteq MadeOf(kind, g, d) \cup {s}
                     /\ MadeOf(kind, g, d) \subseteq MadeOf(kind, g, d)' \cup {s}
          BY <1>1, <1>2, <5>1, MadeOfOthers
        <5> QED
          BY <5>1
      <4> QED
        BY <2>4, <4>1, <4>2
    <3>3. ASSUME new.kind = "rollup", new.day < new.began
          PROVE  /\ ~StillToAsk(new.todo, "orders") => new.figures["orders"] = CreatedOn(new.day)'
                 /\ ~StillToAsk(new.todo, "revenue") =>
                      NotPaidSince(new.day, new.began, new.figures["revenue"])'
      <4>1. /\ ~StillToAsk(now.todo, "orders") => now.figures["orders"] = CreatedOn(now.day)
            /\ ~StillToAsk(now.todo, "revenue") =>
                 NotPaidSince(now.day, now.began, now.figures["revenue"])
            /\ now.began <= today /\ now.day < now.began
        BY <2>4, <2>5, <3>3 DEF ReportRight
      <4>2. ASSUME NEW d, NEW began, NEW counted, d \in Days, began \in Days, began <= today, d < began
            PROVE  /\ CreatedOn(d)' = CreatedOn(d)
                   /\ NotPaidSince(d, began, counted) => NotPaidSince(d, began, counted)'
        BY <1>1, <1>2, <4>2, MoveKeepsPast
      <4> QED
        BY <2>4, <2>6, <4>1, <4>2
    <3> QED
      BY <3>1, <3>2, <3>3 DEF ReportRight
  <2> QED
    BY <2>7
<1>8. ASSUME NEW d \in Days, NEW snapshot \in Snapshots, daily'[d] = snapshot
      PROVE  SnapshotRight(d, snapshot)'
  <2>2. SnapshotRight(d, snapshot) /\ snapshot.began \in Days
    BY <1>1, <1>8 DEF CountedOK, Snapshots
  <2>3. ASSUME NEW began, NEW counted, began \in Days, began <= today, d < began
        PROVE  /\ CreatedOn(d)' = CreatedOn(d)
               /\ NotPaidSince(d, began, counted) => NotPaidSince(d, began, counted)'
    BY <1>1, <1>2, <2>3, MoveKeepsPast
  <2>4. d \in Nat /\ snapshot.began \in Nat
    BY <2>2, NoReportFacts
  <2>5. SnapshotRight(d, snapshot)'
    BY <1>1, <2>2, <2>3, <2>4 DEF SnapshotRight
  <2> QED
    BY <2>5
<1> QED
  BY <1>5, <1>6, <1>7, <1>8 DEF CountedOK

\* The orders' own steps.
LEMMA OrderMovesKeepCounts ==
  ASSUME NEW s \in Purchases, CountedOK,
         \/ PlacePurchase(s) \/ PayPurchase(s)
         \/ \E new \in {"packed", "cancelled"} : MoveOn(s, new)
  PROVE  CountedOK'
<1>1. /\ purchase[s] \in PurchaseRows /\ today \in Days
      /\ purchase[s].status = "none" => purchase[s].created = Never
      /\ purchase[s].status \in {"none", "pending"} => purchase[s].paid_on = Never
  BY DEF CountedOK, AnalyticsTyped, PurchasesMoveOn
<1>2. CASE PlacePurchase(s)
  <2> DEFINE changed == [status |-> "pending", created |-> today, paid_on |-> Never]
  <2>1. changed \in PurchaseRows
    BY <1>1 DEF PurchaseRows
  <2>2. MovesOn(s, changed)
    BY <1>2 DEF PlacePurchase, MovesOn
  <2>3. Move(s, changed)
    BY <1>2 DEF PlacePurchase
  <2> HIDE DEF changed
  <2> QED
    BY <2>1, <2>2, <2>3, MoveKeepsCounts
<1>3. CASE PayPurchase(s)
  <2> DEFINE changed == [purchase[s] EXCEPT !.status = "paid", !.paid_on = today]
  <2>1. changed \in PurchaseRows
    BY <1>1 DEF PurchaseRows
  <2>2. MovesOn(s, changed)
    BY <1>1, <1>3 DEF PayPurchase, MovesOn, PurchaseRows
  <2>3. Move(s, changed)
    BY <1>3 DEF PayPurchase
  <2> HIDE DEF changed
  <2> QED
    BY <2>1, <2>2, <2>3, MoveKeepsCounts
<1>4. ASSUME NEW new \in {"packed", "cancelled"}, MoveOn(s, new)
      PROVE  CountedOK'
  <2> DEFINE changed == [purchase[s] EXCEPT !.status = new]
  <2>1. changed \in PurchaseRows
    BY <1>1 DEF PurchaseRows
  <2>2. MovesOn(s, changed)
    BY <1>1, <1>4 DEF MoveOn, MovesOn, PurchaseRows
  <2>3. Move(s, changed)
    BY <1>4 DEF MoveOn
  <2> HIDE DEF changed
  <2> QED
    BY <2>1, <2>2, <2>3, MoveKeepsCounts
<1> QED
  BY <1>2, <1>3, <1>4

\* A day ends: the dashboard's figures are of a day that is over.
LEMMA MidnightKeepsCounts ==
  ASSUME CountedOK, Midnight
  PROVE  CountedOK'
<1>1. /\ today < LastDay /\ today' = today + 1
      /\ purchase' = purchase /\ report' = report /\ daily' = daily
  BY DEF Midnight
<1>2. AnalyticsTyped /\ PurchasesMoveOn
  BY DEF CountedOK
<1>3. today \in Nat /\ today # 0 /\ LastDay \in Nat
  BY <1>2, NoReportFacts DEF AnalyticsTyped
<1>4. today' \in Days /\ today < today'
  BY <1>1, <1>3 DEF Days
<1>5. AnalyticsTyped'
  BY <1>1, <1>2, <1>4 DEF AnalyticsTyped
<1>6. PurchasesMoveOn'
  <2>0. \A d \in Days \cup {Never} : d \in Nat
    BY NoReportFacts
  <2>1. \A s \in Purchases : purchase[s].created \in Nat
    <3>1. \A changed \in PurchaseRows : changed.created \in Days \cup {Never}
      BY DEF PurchaseRows
    <3>2. \A s \in Purchases : purchase[s] \in PurchaseRows
      BY <1>2 DEF AnalyticsTyped
    <3> QED
      BY <2>0, <3>1, <3>2
  <2> QED
    BY <1>1, <1>2, <1>3, <2>1 DEF PurchasesMoveOn
<1>7. \A kind, f, d : MadeOf(kind, f, d)' = MadeOf(kind, f, d)
  BY <1>1 DEF MadeOf, CreatedOn, WithStatus, PaidOn
<1>8. \A d : CreatedOn(d)' = CreatedOn(d)
  BY <1>1 DEF CreatedOn
<1>9. \A d, began, counted :
        NotPaidSince(d, began, counted) => NotPaidSince(d, began, counted)'
  BY <1>1 DEF NotPaidSince
<1>10. ASSUME NEW r \in Reporters, NEW now \in ReportRows, report'[r] = now
       PROVE  ReportRight(now)'
  <2>1. ReportRight(now) /\ now.began \in Nat /\ now.day \in Nat
    BY <1>1, <1>10, NoReportFacts DEF CountedOK, ReportRows
  <2>2. now.began <= today' /\ now.began # today'
    BY <1>3, <1>4, <1>1, <2>1 DEF ReportRight
  <2> QED
    BY <2>1, <2>2, <1>7, <1>8, <1>9 DEF ReportRight
<1>11. ASSUME NEW d \in Days, NEW snapshot \in Snapshots, daily'[d] = snapshot
       PROVE  SnapshotRight(d, snapshot)'
  <2>1. SnapshotRight(d, snapshot) /\ snapshot.began \in Nat
    BY <1>1, <1>11, NoReportFacts DEF CountedOK, Snapshots
  <2>2. snapshot.began <= today'
    BY <1>1, <1>3, <2>1 DEF SnapshotRight
  <2> QED
    BY <2>1, <2>2, <1>8, <1>9 DEF SnapshotRight
<1> QED
  BY <1>5, <1>6, <1>10, <1>11 DEF CountedOK

\* A report begins with every query still to make.
LEMMA StartKeepsCounts ==
  ASSUME NEW r \in Reporters, NEW kind \in {"rollup", "dashboard"}, NEW d \in Days,
         CountedOK, StartReport(r, kind, d)
  PROVE  CountedOK'
<1> DEFINE new == [kind |-> kind, day |-> d, began |-> today, moved |-> {},
                   todo |-> IF kind = "rollup" THEN RollupQueries ELSE DashboardQueries,
                   figures |-> [f \in Figures |-> {}]]
<1>1. /\ d <= today /\ (kind = "dashboard" => d = today)
      /\ report' = [report EXCEPT ![r] = new]
      /\ purchase' = purchase /\ today' = today /\ daily' = daily
  BY DEF StartReport
<1>2. AnalyticsTyped /\ PurchasesMoveOn
  BY DEF CountedOK
<1>3. RollupQueries \in Seq(Figures) /\ DashboardQueries \in Seq(Figures)
  BY DEF RollupQueries, DashboardQueries, Figures
<1>4. [f \in Figures |-> {}] \in Answers
  BY DEF Answers
<1>5. new \in ReportRows
  BY <1>2, <1>3, <1>4 DEF ReportRows, AnalyticsTyped
<1>6. \A f \in SharedFigures : StillToAsk(RollupQueries, f) /\ StillToAsk(DashboardQueries, f)
  <2>1. /\ \A i \in 1..5 : i \in 1..Len(RollupQueries)
        /\ RollupQueries[1] = "revenue" /\ RollupQueries[2] = "average"
        /\ RollupQueries[3] = "orders" /\ RollupQueries[4] = "paid"
        /\ RollupQueries[5] = "cancelled"
    BY DEF RollupQueries
  <2>2. /\ \A i \in 1..5 : i \in 1..Len(DashboardQueries)
        /\ DashboardQueries[1] = "revenue" /\ DashboardQueries[2] = "orders"
        /\ DashboardQueries[3] = "paid" /\ DashboardQueries[4] = "cancelled"
        /\ DashboardQueries[5] = "average"
    BY DEF DashboardQueries
  <2>3. \A f \in SharedFigures : StillToAsk(RollupQueries, f)
    BY <2>1 DEF StillToAsk, SharedFigures
  <2>4. \A f \in SharedFigures : StillToAsk(DashboardQueries, f)
    BY <2>2 DEF StillToAsk, SharedFigures
  <2> QED
    BY <2>3, <2>4
<1>7. /\ new.began = today /\ new.day = d /\ new.kind = kind
      /\ new.todo = IF kind = "rollup" THEN RollupQueries ELSE DashboardQueries
  OBVIOUS
<1> HIDE DEF new
<1>8. ReportRight(new)
  <2>1. \A f \in SharedFigures : StillToAsk(new.todo, f)
    BY <1>6, <1>7
  <2>2. new.began <= today
    BY <1>2, <1>7, NoReportFacts DEF AnalyticsTyped
  <2> QED
    BY <1>1, <1>7, <2>1, <2>2 DEF ReportRight, SharedFigures
<1>9. AnalyticsTyped'
  BY <1>1, <1>2, <1>5 DEF AnalyticsTyped
<1>10. PurchasesMoveOn'
  BY <1>1, <1>2 DEF PurchasesMoveOn
<1>11. \A now : ReportRight(now) => ReportRight(now)'
  BY <1>1 DEF ReportRight, MadeOf, CreatedOn, WithStatus, PaidOn, NotPaidSince
<1>12. \A u \in Reporters, now \in ReportRows : report'[u] = now => ReportRight(now)
  BY <1>1, <1>2, <1>8 DEF CountedOK, AnalyticsTyped
<1>13. \A e \in Days, snapshot \in Snapshots : daily'[e] = snapshot => SnapshotRight(e, snapshot)'
  BY <1>1 DEF CountedOK, SnapshotRight, CreatedOn, NotPaidSince
<1> QED
  BY <1>9, <1>10, <1>11, <1>12, <1>13 DEF CountedOK

\* What a figure is made of, is orders.
LEMMA MadeOfPurchases ==
  ASSUME NEW kind, NEW f \in Figures, NEW d
  PROVE  MadeOf(kind, f, d) \in SUBSET Purchases
<1>1. /\ CreatedOn(d) \subseteq Purchases /\ PaidOn(d) \subseteq Purchases
      /\ WithStatus("paid") \subseteq Purchases
  BY DEF CreatedOn, PaidOn, WithStatus
<1>2. MadeOf(kind, f, d) \subseteq Purchases
  BY <1>1 DEF MadeOf, Figures
<1> QED
  BY <1>2

\* One query more: its figure is as the orders are now.
LEMMA AskKeepsCounts ==
  ASSUME NEW r \in Reporters, CountedOK, Ask(r)
  PROVE  CountedOK'
<1> DEFINE now == report[r]
           asked == Head(now.todo)
           answer == MadeOf(now.kind, asked, DayOf(r))
           new == [now EXCEPT !.todo = Tail(now.todo),
                              !.figures = [now.figures EXCEPT ![asked] = answer]]
<1>1. /\ now # NoReport /\ now.todo # <<>>
      /\ report' = [report EXCEPT ![r] = new]
      /\ purchase' = purchase /\ today' = today /\ daily' = daily
  BY DEF Ask
<1>2. AnalyticsTyped /\ PurchasesMoveOn
  BY DEF CountedOK
<1>3. now \in ReportRows
  BY <1>1, <1>2 DEF AnalyticsTyped
<1>4. /\ now.todo \in Seq(Figures) /\ now.figures \in Answers
      /\ now.day \in Days /\ now.began \in Days /\ now.kind \in {"rollup", "dashboard"}
  BY <1>3 DEF ReportRows
<1>5. /\ asked \in Figures /\ Tail(now.todo) \in Seq(Figures)
      /\ asked = now.todo[1] /\ Len(now.todo) \in Nat /\ Len(now.todo) # 0
      /\ Len(Tail(now.todo)) = Len(now.todo) - 1
      /\ \A i \in 1..Len(Tail(now.todo)) : Tail(now.todo)[i] = now.todo[i + 1]
  <2>1. now.todo \in Seq(Figures) /\ now.todo # <<>>
    BY <1>1, <1>4
  <2> HIDE DEF now
  <2> QED
    BY <2>1, HeadTailProperties
<1>6. answer \in SUBSET Purchases
  <2>1. asked \in Figures
    BY <1>5
  <2> HIDE DEF asked, now
  <2> QED
    BY <2>1, MadeOfPurchases
<1>7. ReportRight(now)
  BY <1>3 DEF CountedOK
<1>8. /\ new \in ReportRows /\ new.kind = now.kind /\ new.day = now.day
      /\ new.began = now.began /\ new.moved = now.moved
      /\ new.todo = Tail(now.todo)
      /\ new.figures[asked] = answer
      /\ \A f \in Figures : f # asked => new.figures[f] = now.figures[f]
  <2>1. now \in ReportRows /\ asked \in Figures /\ answer \in SUBSET Purchases
        /\ Tail(now.todo) \in Seq(Figures)
    BY <1>3, <1>5, <1>6
  <2>2. /\ [now.figures EXCEPT ![asked] = answer] \in Answers
        /\ [now.figures EXCEPT ![asked] = answer][asked] = answer
        /\ \A f \in Figures : f # asked =>
             [now.figures EXCEPT ![asked] = answer][f] = now.figures[f]
    <3>1. now.figures \in Answers
      BY <1>4
    <3> HIDE DEF now, asked, answer
    <3> QED
      BY <2>1, <3>1 DEF Answers
  <2> HIDE DEF now, asked, answer
  <2>3. /\ new \in ReportRows /\ new.kind = now.kind /\ new.day = now.day
        /\ new.began = now.began /\ new.moved = now.moved
        /\ new.todo = Tail(now.todo)
        /\ new.figures = [now.figures EXCEPT ![asked] = answer]
    BY <2>1, <2>2 DEF ReportRows
  <2> QED
    BY <2>2, <2>3
<1>9. \A f \in Figures : ~StillToAsk(Tail(now.todo), f) => f = asked \/ ~StillToAsk(now.todo, f)
  <2>1. ASSUME NEW f \in Figures, f # asked, NEW i \in 1..Len(now.todo), now.todo[i] = f
        PROVE  i - 1 \in 1..Len(Tail(now.todo)) /\ Tail(now.todo)[i - 1] = f
    <3>1. i # 1 /\ i \in Nat
      BY <1>5, <2>1
    <3>2. i - 1 \in 1..Len(Tail(now.todo)) /\ (i - 1) + 1 = i
      BY <1>5, <3>1
    <3> QED
      BY <1>5, <2>1, <3>2
  <2> QED
    BY <2>1 DEF StillToAsk
<1>10. now.kind = "rollup" \/ today = now.began => answer = MadeOf(now.kind, asked, now.day)
  BY <1>4, <1>7 DEF ReportRight, DayOf
<1>11. now.kind = "rollup" => answer = MadeOf(now.kind, asked, now.day)
  BY <1>4 DEF DayOf
<1>12. AnalyticsTyped'
  <2>1. new \in ReportRows
    BY <1>8
  <2> HIDE DEF new
  <2> QED
    BY <1>1, <1>2, <2>1 DEF AnalyticsTyped
<1>13. PurchasesMoveOn'
  BY <1>1, <1>2 DEF PurchasesMoveOn
<1>14. \A one : ReportRight(one) => ReportRight(one)'
  BY <1>1 DEF ReportRight, MadeOf, CreatedOn, WithStatus, PaidOn, NotPaidSince
<1> HIDE DEF new, answer, asked, now
<1>15. ReportRight(new)
  <2>1. new.began <= today /\ new.day <= new.began /\ (new.kind = "dashboard" => new.day = new.began)
    BY <1>7, <1>8 DEF ReportRight
  <2>2. ASSUME new.kind = "rollup" \/ today = new.began, NEW f \in SharedFigures,
               ~StillToAsk(new.todo, f)
        PROVE  new.figures[f] \ new.moved = MadeOf(new.kind, f, new.day) \ new.moved
    <3>1. f \in Figures
      BY DEF SharedFigures, Figures
    <3>2. CASE f = asked
      BY <1>8, <1>10, <2>2, <3>2
    <3>3. CASE f # asked
      BY <1>7, <1>8, <1>9, <2>2, <3>1, <3>3 DEF ReportRight
    <3> QED
      BY <3>2, <3>3
  <2>3. ASSUME new.kind = "rollup", new.day < new.began
        PROVE  /\ ~StillToAsk(new.todo, "orders") => new.figures["orders"] = CreatedOn(new.day)
               /\ ~StillToAsk(new.todo, "revenue") =>
                    NotPaidSince(new.day, new.began, new.figures["revenue"])
    <3>1. /\ ~StillToAsk(now.todo, "orders") => now.figures["orders"] = CreatedOn(now.day)
          /\ ~StillToAsk(now.todo, "revenue") =>
               NotPaidSince(now.day, now.began, now.figures["revenue"])
      BY <1>7, <1>8, <2>3 DEF ReportRight
    <3>2. /\ asked = "orders" => answer = CreatedOn(now.day)
          /\ asked = "revenue" => answer = CreatedOn(now.day) \cap WithStatus("paid")
      BY <1>8, <1>11, <2>3 DEF MadeOf
    <3>3. "orders" \in Figures /\ "revenue" \in Figures
      BY DEF Figures
    <3>4. ~StillToAsk(new.todo, "orders") => new.figures["orders"] = CreatedOn(new.day)
      BY <1>8, <1>9, <3>1, <3>2, <3>3
    <3>5. asked = "revenue" => NotPaidSince(now.day, now.began, answer)
      BY <3>2 DEF NotPaidSince, CreatedOn, WithStatus
    <3>6. ~StillToAsk(new.todo, "revenue") =>
            NotPaidSince(new.day, new.began, new.figures["revenue"])
      BY <1>8, <1>9, <3>1, <3>3, <3>5
    <3> QED
      BY <3>4, <3>6
  <2> QED
    BY <2>1, <2>2, <2>3 DEF ReportRight
<1>16. \A u \in Reporters, one \in ReportRows : report'[u] = one => ReportRight(one)
  BY <1>1, <1>2, <1>15 DEF CountedOK, AnalyticsTyped
<1>17. \A e \in Days, snapshot \in Snapshots : daily'[e] = snapshot => SnapshotRight(e, snapshot)'
  BY <1>1 DEF CountedOK, SnapshotRight, CreatedOn, NotPaidSince
<1> QED
  BY <1>12, <1>13, <1>14, <1>16, <1>17 DEF CountedOK

\* A report that has made its queries is delivered; a rollup's becomes the day's snapshot.
LEMMA DeliverKeepsCounts ==
  ASSUME NEW r \in Reporters, CountedOK, Deliver(r)
  PROVE  CountedOK'
<1> DEFINE now == report[r]
           new == [began |-> now.began, figures |-> now.figures]
<1>1. /\ now # NoReport /\ now.todo = <<>>
      /\ daily' = IF now.kind = "rollup" THEN [daily EXCEPT ![now.day] = new] ELSE daily
      /\ report' = [report EXCEPT ![r] = NoReport]
      /\ purchase' = purchase /\ today' = today
  BY DEF Deliver
<1>2. AnalyticsTyped /\ PurchasesMoveOn
  BY DEF CountedOK
<1>3. now \in ReportRows
  BY <1>1, <1>2 DEF AnalyticsTyped
<1>4. ReportRight(now)
  BY <1>3 DEF CountedOK
<1>5. /\ now.day \in Days /\ now.began \in Days /\ now.figures \in Answers
      /\ new \in Snapshots
  BY <1>3 DEF ReportRows, Snapshots
<1>6. new.began = now.began /\ new.figures = now.figures
  OBVIOUS
<1>7. \A f : ~StillToAsk(now.todo, f)
  BY <1>1 DEF StillToAsk
<1> HIDE DEF new, now
<1>8. now.kind = "rollup" => SnapshotRight(now.day, new)
  <2>1. now.day \in Nat /\ now.began \in Nat
    BY <1>5, NoReportFacts
  <2> QED
    BY <1>4, <1>6, <1>7, <2>1 DEF ReportRight, SnapshotRight
<1>9. AnalyticsTyped'
  BY <1>1, <1>2, <1>5 DEF AnalyticsTyped
<1>10. PurchasesMoveOn'
  BY <1>1, <1>2 DEF PurchasesMoveOn
<1>11. /\ \A one : ReportRight(one) => ReportRight(one)'
       /\ \A d, one : SnapshotRight(d, one) => SnapshotRight(d, one)'
  BY <1>1 DEF ReportRight, SnapshotRight, MadeOf, CreatedOn, WithStatus, PaidOn, NotPaidSince
<1>12. \A u \in Reporters, one \in ReportRows : report'[u] = one => ReportRight(one)
  BY <1>1, <1>2, NoReportFacts DEF CountedOK, AnalyticsTyped
<1>13. \A d \in Days, one \in Snapshots : daily'[d] = one => SnapshotRight(d, one)
  BY <1>1, <1>2, <1>5, <1>8 DEF CountedOK, AnalyticsTyped
<1> QED
  BY <1>9, <1>10, <1>11, <1>12, <1>13 DEF CountedOK

\* The counting invariant, of any number of orders, reporters and days: every query
\* made is right but for the orders that moved since, and snapshots stay true
\* (rollup_daily_sales, DashboardView).
THEOREM CountedInvariant == AnalyticsSpec => []CountedOK
<1>1. AnalyticsInit => CountedOK
  <2> SUFFICES ASSUME AnalyticsInit
               PROVE  CountedOK
    OBVIOUS
  <2>1. 1 \in Days
    BY AnalyticsAssumption DEF Days
  <2>2. /\ purchase = [s \in Purchases |-> [status |-> "none", created |-> Never, paid_on |-> Never]]
        /\ today = 1 /\ report = [r \in Reporters |-> NoReport]
        /\ daily = [d \in Days |-> NoSnapshot]
    BY DEF AnalyticsInit
  <2>3. AnalyticsTyped
    BY <2>1, <2>2 DEF AnalyticsTyped, PurchaseRows
  <2>4. PurchasesMoveOn
    <3>1. \A s \in Purchases :
            purchase[s].status = "none" /\ purchase[s].created = Never /\ purchase[s].paid_on = Never
      BY <2>2
    <3>2. Never <= today
      BY <2>2 DEF Never
    <3> QED
      BY <3>1, <3>2 DEF PurchasesMoveOn
  <2> QED
    BY <2>2, <2>3, <2>4, NoReportFacts DEF CountedOK
<1>2. CountedOK /\ [AnalyticsNext]_analyticsVars => CountedOK'
  <2> SUFFICES ASSUME CountedOK, [AnalyticsNext]_analyticsVars
               PROVE  CountedOK'
    OBVIOUS
  <2>1. CASE UNCHANGED analyticsVars
    <3>1. /\ purchase' = purchase /\ today' = today /\ report' = report /\ daily' = daily
      BY <2>1 DEF analyticsVars
    <3>2. \A one : ReportRight(one) => ReportRight(one)'
      <4>1. \A kind, f, d : MadeOf(kind, f, d)' = MadeOf(kind, f, d)
        BY <3>1 DEF MadeOf, CreatedOn, WithStatus, PaidOn
      <4>2. \A d : CreatedOn(d)' = CreatedOn(d)
        BY <3>1 DEF CreatedOn
      <4>3. \A d, began, counted :
              NotPaidSince(d, began, counted) => NotPaidSince(d, began, counted)'
        BY <3>1 DEF NotPaidSince
      <4> QED
        BY <3>1, <4>1, <4>2, <4>3 DEF ReportRight
    <3>4. \A d, one : SnapshotRight(d, one) => SnapshotRight(d, one)'
      BY <3>1 DEF SnapshotRight, CreatedOn, NotPaidSince
    <3>3. AnalyticsTyped' /\ PurchasesMoveOn'
      BY <3>1 DEF CountedOK, AnalyticsTyped, PurchasesMoveOn
    <3> QED
      BY <3>1, <3>2, <3>3, <3>4 DEF CountedOK
  <2>2. CASE AnalyticsNext
    BY <2>2, OrderMovesKeepCounts, MidnightKeepsCounts, StartKeepsCounts, AskKeepsCounts,
       DeliverKeepsCounts DEF AnalyticsNext
  <2> QED
    BY <2>1, <2>2
<1> QED
  BY <1>1, <1>2, PTL DEF AnalyticsSpec

\* ReportRows and snapshots are wrong about the orders that moved while they were made,
\* and about nothing else (rollup_daily_sales, DashboardView).
THEOREM FiguresRight == AnalyticsSpec => []FiguresErrOnlyByWhatMoved
<1>1. CountedOK => FiguresErrOnlyByWhatMoved
  <2> SUFFICES ASSUME CountedOK
               PROVE  FiguresErrOnlyByWhatMoved
    OBVIOUS
  <2>0. AnalyticsTyped
    BY DEF CountedOK
  <2>1. ASSUME NEW r \in Reporters
        PROVE  ErrsOnlyByWhatMoved(r)
    <3>1. SUFFICES ASSUME report[r] # NoReport, report[r].todo = <<>>,
                          report[r].kind = "rollup" \/ today = report[r].began,
                          NEW f \in {RollupQueries[i] : i \in DOMAIN RollupQueries}
                   PROVE  report[r].figures[f] \ report[r].moved
                            = MadeOf(report[r].kind, f, report[r].day) \ report[r].moved
      BY DEF ErrsOnlyByWhatMoved
    <3>2. PICK now \in ReportRows : now = report[r]
      BY <2>0, <3>1 DEF AnalyticsTyped
    <3>3. ReportRight(now)
      BY <3>2 DEF CountedOK
    <3>4. f \in SharedFigures
      <4>1. DOMAIN RollupQueries = 1..5
        BY DEF RollupQueries
      <4>2. /\ RollupQueries[1] = "revenue" /\ RollupQueries[2] = "average"
            /\ RollupQueries[3] = "orders" /\ RollupQueries[4] = "paid"
            /\ RollupQueries[5] = "cancelled"
        BY DEF RollupQueries
      <4>3. \A i \in 1..5 : i = 1 \/ i = 2 \/ i = 3 \/ i = 4 \/ i = 5
        OBVIOUS
      <4> QED
        BY <3>1, <4>1, <4>2, <4>3 DEF SharedFigures
    <3>5. ~StillToAsk(now.todo, f)
      BY <3>1, <3>2 DEF StillToAsk
    <3> QED
      BY <3>1, <3>2, <3>3, <3>4, <3>5 DEF ReportRight
  <2>2. ASSUME NEW d \in Days
        PROVE  MissesOnlyWhatMovedOn(d)
    <3>1. CASE daily[d] = NoSnapshot
      BY <3>1, NoReportFacts DEF MissesOnlyWhatMovedOn, NoSnapshot
    <3>2. CASE daily[d] \in Snapshots
      <4>1. PICK one \in Snapshots : one = daily[d]
        BY <3>2
      <4>2. SnapshotRight(d, one)
        BY <4>1 DEF CountedOK
      <4> QED
        BY <4>1, <4>2 DEF MissesOnlyWhatMovedOn, SnapshotRight, NotPaidSince, CreatedOn
    <3> QED
      BY <2>0, <3>1, <3>2 DEF AnalyticsTyped
  <2> QED
    BY <2>1, <2>2 DEF FiguresErrOnlyByWhatMoved
<1> QED
  BY <1>1, CountedInvariant, PTL

---------------------------------------------------------------------------
(* The composition: a behaviour of MCServices is one of each component, so *)
(* that what was proved of a component holds there.                        *)

\* A step of the services is a step of each component or leaves it alone.
LEMMA ServiceSteps ==
  ASSUME [ServicesNext]_serviceVars
  PROVE  /\ [CacheNext]_cacheVars /\ [PagesNext]_pageVars /\ [StreamNext]_streamVars
         /\ [MailNext]_mailVars /\ [AddressesNext]_addressVars /\ [AccountsNext]_accountVars
         /\ [PricingNext]_bill /\ [ReplicaNext]_replicaVars /\ [AnalyticsNext]_analyticsVars
<1>1. CASE UNCHANGED serviceVars
  BY <1>1 DEF serviceVars, webVars, userVars, otherVars
<1>2. CASE ServicesNext
  <2>1. [CacheNext]_cacheVars /\ [PagesNext]_pageVars
    BY <1>2 DEF ServicesNext, webVars
  <2>2. [StreamNext]_streamVars /\ [MailNext]_mailVars
    BY <1>2 DEF ServicesNext, webVars, StreamStep
  <2>3. [AddressesNext]_addressVars /\ [AccountsNext]_accountVars
    BY <1>2 DEF ServicesNext, userVars
  <2>4. [PricingNext]_bill /\ [ReplicaNext]_replicaVars /\ [AnalyticsNext]_analyticsVars
    BY <1>2 DEF ServicesNext, otherVars
  <2> QED
    BY <2>1, <2>2, <2>3, <2>4
<1> QED
  BY <1>1, <1>2

\* Behaviours of the services are behaviours of the web's components.
LEMMA ServicesUseComponents ==
  ServicesSpec => /\ CacheSpec /\ PagesSpec /\ StreamSpec /\ MailSpec
                  /\ AddressesSpec /\ AccountsSpec
                  /\ PricingSpec /\ ReplicaSpec /\ AnalyticsSpec
<1>1. ServicesInit => /\ CacheInit /\ PagesInit /\ StreamInit /\ MailInit
                      /\ AddressesInit /\ AccountsInit
                      /\ PricingInit /\ ReplicaInit /\ AnalyticsInit
  BY DEF ServicesInit
<1>2. [ServicesNext]_serviceVars =>
        /\ [CacheNext]_cacheVars /\ [PagesNext]_pageVars /\ [StreamNext]_streamVars
        /\ [MailNext]_mailVars /\ [AddressesNext]_addressVars /\ [AccountsNext]_accountVars
        /\ [PricingNext]_bill /\ [ReplicaNext]_replicaVars /\ [AnalyticsNext]_analyticsVars
  BY ServiceSteps
<1> QED
  BY <1>1, <1>2, PTL DEF ServicesSpec, CacheSpec, PagesSpec, StreamSpec, MailSpec, AddressesSpec,
     AccountsSpec, PricingSpec, ReplicaSpec, AnalyticsSpec

NobodyCalls == \A c \in Customers : job[c] = "none" /\ waits[c] = <<>>

\* The shop under its close-ups: what the forms and the locks rely on while it is they
\* that move, and what is true whoever moves.
ShopKept ==
  /\ AdminTypeOK /\ ChargedForms
  /\ service = "forms" => BackedForms
  /\ service = "locks" => LocksOK
  /\ service # "locks" => LocksTypeOK /\ NobodyCalls

\* What lapses has a name.
LEMMA LapsesTyped ==
  ASSUME lapses \subseteq Lapses, AdminNext
  PROVE  lapses' \subseteq Lapses
<1>1. ASSUME NEW s \in Staff, SaveOrder(s) PROVE lapses' \subseteq Lapses
  BY <1>1 DEF SaveOrder, OrderLapses
<1>2. ASSUME NEW s \in Staff, SaveStock(s) PROVE lapses' \subseteq Lapses
  BY <1>2 DEF SaveStock, SaveRow, Lapses
<1> QED
  BY <1>1, <1>2 DEF AdminNext, ServeOrders, formVars, OpenOrder, OpenStock, PostOrder

\* However stale the form of an order and whatever items it deletes, saving it writes an
\* order.
LEMMA StaleSaveTyped ==
  ASSUME AdminTypeOK, NEW s \in Staff, SaveOrder(s)
  PROVE  OrdersTypeOK' /\ desk' \in [Staff -> {NoForm} \cup OrderForms \cup StockForms]
<1> DEFINE f == desk[s]
<1>1. /\ f.form = "order_post"
      /\ status' = [status EXCEPT ![f.order] = f.new]
      /\ stamped' = [stamped EXCEPT ![f.order] = f.stamps]
      /\ desk' = [desk EXCEPT ![s] = NoForm]
      /\ UNCHANGED <<stock, sold>>
  BY DEF SaveOrder
<1>2. PICK deleted \in SUBSET {v \in Variants : items[f.order][v] # 0} :
        items' = [items EXCEPT ![f.order] =
                    [v \in Variants |-> IF v \in deleted THEN 0 ELSE items[f.order][v]]]
  BY DEF SaveOrder
<1>3. f \in {NoForm} \cup OrderForms \cup StockForms
  BY DEF AdminTypeOK
<1>4. /\ f.order \in Orders /\ f.new \in Status
      /\ f.stamps \in SUBSET {"paid", "cancelled", "refunded"}
  BY <1>1, <1>3 DEF OrderForms, StockForms, NoForm
<1>5. status' \in [Orders -> Status \cup {NoStatus}]
  BY <1>1, <1>4 DEF AdminTypeOK, OrdersTypeOK
<1>6. stamped' \in [Orders -> SUBSET {"paid", "cancelled", "refunded"}]
  BY <1>1, <1>4 DEF AdminTypeOK, OrdersTypeOK
<1>7. items[f.order] \in [Variants -> 0..MaxQuantity]
  BY <1>4 DEF AdminTypeOK, OrdersTypeOK
<1>8. [v \in Variants |-> IF v \in deleted THEN 0 ELSE items[f.order][v]]
        \in [Variants -> 0..MaxQuantity]
  BY <1>7, BasketsAssumption
<1>9. items' \in [Orders -> [Variants -> 0..MaxQuantity]]
  BY <1>2, <1>4, <1>8 DEF AdminTypeOK, OrdersTypeOK
<1>10. InventoryTypeOK' /\ UNCHANGED sold
  BY <1>1 DEF AdminTypeOK, OrdersTypeOK, InventoryTypeOK, stock
<1>11. OrdersTypeOK'
  BY <1>5, <1>6, <1>9, <1>10 DEF AdminTypeOK, OrdersTypeOK
<1> QED
  BY <1>1, <1>11 DEF AdminTypeOK

\* A step of buyers, gateways and staff, while orders are intact.
LEMMA FormsKeepTypes ==
  ASSUME AdminTypeOK, ChargedForms, FormsStep
  PROVE  AdminTypeOK'
<1>1. Charges /\ FormsOK /\ AdminNext /\ OrdersIntact
  BY DEF FormsStep, ChargedForms, OrdersIntact
<1>2. lapses' \subseteq Lapses
  BY <1>1, LapsesTyped DEF AdminTypeOK
<1>3. CASE OrdersIntact'
  <2>1. Charges' /\ FormsOK'
    BY <1>1, <1>3, StepKeepsCharges
  <2> QED
    BY <1>2, <2>1 DEF AdminTypeOK, Charges, FormsOK
<1>4. CASE ~OrdersIntact'
  <2>1. lapses' \cap {"stale order", "reopened", "emptied"}
          # lapses \cap {"stale order", "reopened", "emptied"}
    BY <1>1, <1>4 DEF OrdersIntact
  <2>2. ~ServeOrders
    BY <2>1 DEF ServeOrders, formVars
  <2>3. ASSUME NEW s \in Staff
        PROVE  /\ \A o \in Orders : ~OpenOrder(s, o)
               /\ \A v \in Variants, w \in Warehouses : ~OpenStock(s, v, w)
               /\ ~PostOrder(s) /\ ~SaveStock(s)
    BY <2>1 DEF OpenOrder, OpenStock, PostOrder, SaveStock, SaveRow
  <2>4. PICK s \in Staff : SaveOrder(s)
    BY <1>1, <2>2, <2>3 DEF AdminNext
  <2> QED
    BY <1>2, <2>4, StaleSaveTyped DEF AdminTypeOK
<1> QED
  BY <1>3, <1>4

\* Whoever moves, and whoever shares the stock with whom.
LEMMA StepKeepsShop ==
  ASSUME ShopKept, [ServicesNext]_serviceVars
  PROVE  ShopKept'
<1>1. CASE UNCHANGED shopVars /\ UNCHANGED service
  <2>1. UNCHANGED adminVars /\ UNCHANGED lockVars
    BY <1>1 DEF shopVars, vars, formVars, adminVars, lockVars, stock
  <2>2. AdminTypeOK'
    BY <2>1 DEF ShopKept, adminVars, vars, AdminTypeOK, OrdersTypeOK, InventoryTypeOK
  <2>3. ChargedForms' /\ (service' = "forms" => BackedForms')
    BY <1>1, <2>1, FormsStepKeepsCharged, FormsStepKeepsBacked DEF ShopKept
  <2>4. service' = "locks" => LocksOK'
    BY <1>1, <2>1, StepKeepsLocks DEF ShopKept
  <2>5. service' # "locks" => LocksTypeOK' /\ NobodyCalls'
    BY <1>1, <2>1 DEF ShopKept, lockVars, stock, calls, LocksTypeOK, InventoryTypeOK,
       NobodyCalls
  <2> QED
    BY <2>2, <2>3, <2>4, <2>5 DEF ShopKept
<1>2. CASE service = "forms" /\ FormsStep /\ UNCHANGED <<life, calls, service>>
  <2>1. AdminTypeOK /\ ChargedForms /\ BackedForms /\ LocksTypeOK /\ NobodyCalls
    BY <1>2 DEF ShopKept
  <2>2. AdminTypeOK'
    BY <1>2, <2>1, FormsKeepTypes
  <2>3. ChargedForms' /\ BackedForms'
    BY <1>2, <2>1, FormsStepKeepsCharged, FormsStepKeepsBacked DEF FormsStep
  <2>4. LocksTypeOK' /\ NobodyCalls'
    BY <1>2, <2>1, <2>2 DEF AdminTypeOK, OrdersTypeOK, LocksTypeOK, calls, NobodyCalls
  <2> QED
    BY <1>2, <2>2, <2>3, <2>4 DEF ShopKept
<1>3. CASE service = "locks" /\ LocksStep /\ UNCHANGED <<orderVars, formVars, service>>
  <2>1. LocksOK'
    BY <1>3, StepKeepsLocks DEF ShopKept, LocksStep
  <2>2. AdminTypeOK'
    BY <1>3, <2>1 DEF ShopKept, LocksOK, LocksTyped, AdminTypeOK, OrdersTypeOK, orderVars,
       formVars
  <2>3. ChargedForms'
    <3>1. InventoryTypeOK' /\ UNCHANGED <<orderVars, formVars>>
      BY <1>3, <2>1 DEF LocksOK, LocksTyped
    <3>2. Charges => Charges'
      BY <3>1 DEF Charges, OrdersTypeOK, OrdersPlaced, StockChargedOnce, orderVars
    <3>3. PaidIsStamped => PaidIsStamped'
      BY <3>1 DEF PaidIsStamped, orderVars
    <3>4. FormsOK => FormsOK'
      BY <3>1 DEF FormsOK, formVars
    <3> QED
      BY <3>1, <3>2, <3>3, <3>4 DEF ShopKept, ChargedForms, OrdersIntact, formVars
  <2> QED
    BY <1>3, <2>1, <2>2, <2>3 DEF ShopKept
<1> QED
  BY <1>1, <1>2, <1>3 DEF ServicesNext, serviceVars

\* Among the services, the shop is kept.
LEMMA ShopInvariant == ServicesSpec => []ShopKept
<1>1. ServicesInit => ShopKept
  <2> SUFFICES ASSUME ServicesInit
               PROVE  ShopKept
    OBVIOUS
  <2>1. Charged /\ Backed /\ lapses = {} /\ desk = [s \in Staff |-> NoForm]
    BY OrdersStartCharged, OrdersStartBacked DEF ServicesInit, AdminInit
  <2>2. AdminTypeOK /\ FormsOK
    BY <2>1 DEF AdminTypeOK, FormsOK, Charged, NoForm
  <2>3. LocksOK
    BY LocksStart DEF ServicesInit
  <2>4. LocksTypeOK
    BY <2>3, LocksTypedType DEF LocksOK
  <2>5. NobodyCalls
    BY DEF ServicesInit, LocksInit, NobodyCalls
  <2> QED
    BY <2>1, <2>2, <2>3, <2>4, <2>5 DEF ShopKept, ChargedForms, BackedForms, Charged, Charges,
       History
<1>2. ShopKept /\ [ServicesNext]_serviceVars => ShopKept'
  BY StepKeepsShop
<1> QED
  BY <1>1, <1>2, PTL DEF ServicesSpec

\* Types of all components at once: those that share the stock leave each other's alone.
THEOREM ServicesTypeCorrect == ServicesSpec => []ServicesTypeOK
<1>1. CacheCurrent => CacheTypeOK
  BY DEF CacheCurrent
<1>2. WalkOK => PagesTypeOK
  BY DEF WalkOK, PagesTypeOK
<1>3. StreamKept => StreamTypeOK
  BY DEF StreamKept
<1>4. AddressBook => AddressesTypeOK
  BY DEF AddressBook
<1>5. Register => AccountsTypeOK
  BY DEF Register
<1>6. ReplicaOK => ReplicaTypeOK
  <2> SUFFICES ASSUME ReplicaOK
               PROVE  ReplicaTypeOK
    OBVIOUS
  <2>1. ReplicaTyped
    BY DEF ReplicaOK
  <2>2. DOMAIN log = 1..Len(log) /\ \A i \in 1..Len(log) : log[i] \in Versions
    BY <2>1, ReplicaFacts
  <2> QED
    BY <2>1, <2>2 DEF ReplicaTyped, ReplicaTypeOK, Versions, CheckoutStages
<1>7. CountedOK => AnalyticsTypeOK
  <2> SUFFICES ASSUME AnalyticsTyped
               PROVE  AnalyticsTypeOK
    BY DEF CountedOK
  <2>1. \A r \in Reporters : report[r] # NoReport => report[r] \in ReportRows
    BY DEF AnalyticsTyped
  <2>2. \A d \in Days : daily[d] = NoSnapshot \/ daily[d] \in Snapshots
    BY DEF AnalyticsTyped
  <2>3. \A d \in Days : daily[d].began \in Days \cup {Never}
    BY <2>2 DEF NoSnapshot, Snapshots
  <2> QED
    BY <2>1, <2>3 DEF AnalyticsTyped, AnalyticsTypeOK, PurchaseRows, ReportRows, Answers
<1>8. ShopKept => AdminTypeOK /\ LocksTypeOK
  BY LocksTypedType DEF ShopKept, LocksOK
<1>9. /\ CacheTypeOK /\ PagesTypeOK /\ StreamTypeOK /\ MailTypeOK
      /\ AddressesTypeOK /\ AccountsTypeOK /\ PricingTypeOK
      /\ ReplicaTypeOK /\ AnalyticsTypeOK /\ AdminTypeOK /\ LocksTypeOK
      => ServicesTypeOK
  BY DEF ServicesTypeOK
<1> QED
  BY <1>1, <1>2, <1>3, <1>4, <1>5, <1>6, <1>7, <1>8, <1>9, ServicesUseComponents, CacheInvariant,
     WalkInvariant, StreamInvariant, MailTypeCorrect, AddressBookInvariant, RegisterInvariant,
     PricingTypeCorrect, ReplicaInvariant, CountedInvariant, ShopInvariant, PTL

\* Among the services too, forms that undo nothing unseen lose no reservation
\* (SaveOrder and SaveStock among checkouts and transitions).
THEOREM FormsLoseNone == ServicesSpec => []FormsLoseNoReservation
<1>1. ShopKept => FormsLoseNoReservation
  BY DEF ShopKept, FormsLoseNoReservation, BackedForms, Backed, ExactUntilStaleForm
<1> QED
  BY <1>1, ShopInvariant, PTL

\* Among the services too, the stock functions keep the contract of the stock lock by
\* lock (reserve_stock, release_reservation, commit_sale under READ COMMITTED).
THEOREM LocksKeepContract == ServicesSpec => LocksKeepStockContract
<1>1. ServicesInit => StockKept!Init
  BY DEF ServicesInit, LocksInit, InventoryInit, StockKept!Init
<1>2. ShopKept /\ [ServicesNext]_serviceVars => [service = "locks" => StockKept!Next]_stock
  <2> SUFFICES ASSUME ShopKept, [ServicesNext]_serviceVars, service = "locks"
               PROVE  StockKept!Next \/ UNCHANGED stock
    OBVIOUS
  <2>1. CASE UNCHANGED shopVars
    BY <2>1 DEF shopVars, vars, stock
  <2>2. CASE LocksStep
    BY <2>2, StepKeepsContract DEF ShopKept, LocksStep
  <2> QED
    BY <2>1, <2>2 DEF ServicesNext, serviceVars
<1> QED
  BY <1>1, <1>2, ShopInvariant, PTL DEF ServicesSpec, LocksKeepStockContract

\* What every component promises holds among the services, for every value of the
\* constants: each moves by its own operations, and those that move the same stock do not
\* disturb what the other says of it.
THEOREM ServicesKeepPromises ==
  ServicesSpec => []( /\ AnswersAreRecent /\ WalkMissesNothing
                      /\ StreamGoesForward /\ LastWordIsTrue
                      /\ TwiceOnlyAfterMishap /\ MailIsNotForgotten
                      /\ LastChoiceStands /\ OneWholeAccountEach
                      /\ NegativeTotalsHaveOneCause
                      /\ WholeWhereReadsAreFresh /\ FiguresErrOnlyByWhatMoved
                      /\ ChargedOnceUntilReopened /\ UndisturbedRowsSuffice )
<1>1. ShopKept => ChargedOnceUntilReopened
  BY ChargedFormsSay DEF ShopKept
<1>2. ShopKept => UndisturbedRowsSuffice
  <2>1. ASSUME LocksOK
        PROVE  UndisturbedRowsSuffice
    BY <2>1, UndisturbedSuffice DEF UndisturbedRowsSuffice
  <2>2. ASSUME NobodyCalls
        PROVE  UndisturbedRowsSuffice
    BY <2>2 DEF NobodyCalls, UndisturbedRowsSuffice
  <2> QED
    BY <2>1, <2>2 DEF ShopKept
<1> QED
  BY <1>1, <1>2, ServicesUseComponents, ShopInvariant, AnswersRecent, NothingMissed,
     StreamForward, LastWord, TwiceIsExplained, NeverForgotten, ChoiceStands, WholeAccounts,
     NegativeTotalsExplained, WholeWhereFresh, FiguresRight, PTL

\* So does the order in which checkouts of one item lock, if no two warehouses have the
\* same priority (the ORDER BY of reserve_stock).
THEOREM ServicesDoNotDeadlock ==
  ASSUME PrioritiesDiffer
  PROVE  ServicesSpec => []SingleItemCheckoutsDoNotDeadlock
<1> DEFINE Ranked == service = "locks" => \A c \in Customers : LocksRise(c)
<1>1. ServicesInit => Ranked
  BY DEF ServicesInit, LocksInit, LocksRise
<1>2. ShopKept /\ Ranked /\ [ServicesNext]_serviceVars => Ranked'
  <2> SUFFICES ASSUME ShopKept, Ranked, [ServicesNext]_serviceVars, service' = "locks"
               PROVE  \A c \in Customers : LocksRise(c)'
    OBVIOUS
  <2>1. service = "locks"
    BY DEF ServicesNext, serviceVars
  <2>2. [LocksNext]_lockVars
    <3>1. CASE UNCHANGED shopVars
      BY <3>1 DEF shopVars, vars, lockVars, stock
    <3>2. CASE LocksStep
      BY <3>2 DEF LocksStep
    <3> QED
      BY <2>1, <3>1, <3>2 DEF ServicesNext, serviceVars
  <2> QED
    BY <2>1, <2>2, StepKeepsRise DEF ShopKept
<1>3. ShopKept /\ Ranked => SingleItemCheckoutsDoNotDeadlock
  <2>1. ASSUME NobodyCalls
        PROVE  SingleItemCheckoutsDoNotDeadlock
    <3>1. \A S \in SUBSET Customers : ~WaitCycle(S)
      BY <2>1 DEF NobodyCalls, WaitCycle, WaitsFor
    <3> QED
      BY <3>1 DEF SingleItemCheckoutsDoNotDeadlock
  <2> QED
    BY <2>1, NoCycle DEF ShopKept
<1> QED
  BY <1>1, <1>2, <1>3, ShopInvariant, PTL DEF ServicesSpec
=============================================================================
