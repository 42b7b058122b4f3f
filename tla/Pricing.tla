------------------------------ MODULE Pricing ------------------------------
(***************************************************************************)
(* What an order costs: Coupon.calculate_discount (apps/coupons/models.py) *)
(* and the totals of create_order_from_cart (apps/orders/services.py).     *)
(* Amounts are whole cents; the value of a percentage coupon has two       *)
(* decimals, so it counts hundredths of a percent, 10000 for everything.   *)
(* The till is one action: checkout reads coupon and cart and writes the   *)
(* order's five totals in one transaction.                                 *)
(***************************************************************************)
EXTENDS Units

CONSTANTS
  Coupons,    \* the coupons staff have set up
  Subtotals   \* what carts add up to: unit prices times quantities are exact

Methods == {"standard", "express", "pickup"}
Kinds == {"percent", "fixed", "free_shipping"}

\* A max_discount of zero is no cap, like none at all ("if self.max_discount").
Coupon == [kind : Kinds, value : Nat, min_subtotal : Nat, max_discount : Nat]

NoCoupon == [kind |-> "fixed", value |-> 0, min_subtotal |-> 0, max_discount |-> 0]

ASSUME PricingAssumption == Coupons \subseteq Coupon /\ Subtotals \subseteq Nat

VARIABLE bill  \* the totals of the order, with what they were made from

NoBill == [subtotal |-> 0, coupon |-> NoCoupon, method |-> "pickup",
           discount |-> 0, shipping |-> 0, grand |-> 0]

PricingTypeOK ==
  bill \in [subtotal : Nat, coupon : Coupon, method : Methods,
            discount : Nat, shipping : Nat, grand : Int]

---------------------------------------------------------------------------

Whole == 10000

\* Decimal.quantize: to the nearest cent, half a cent to the even one.
Quantized(n, d) ==
  LET q == n \div d
      r == n % d
  IN  IF 2 * r > d \/ (2 * r = d /\ q % 2 = 1) THEN q + 1 ELSE q

FixedInFull(c, subtotal) ==
  IF subtotal < c.min_subtotal THEN 0
  ELSE IF c.kind = "percent" THEN Quantized(subtotal * c.value, Whole) ELSE c.value

\* Coupon.calculate_discount
Discount(c, subtotal) ==
  LET share == Quantized(subtotal * c.value, Whole) IN
  IF subtotal < c.min_subtotal THEN 0
  ELSE CASE c.kind = "percent" /\ c.max_discount = 0 -> share
         [] c.kind = "percent" /\ c.max_discount # 0 -> Least(share, c.max_discount)
         [] c.kind = "fixed"                         -> Least(c.value, subtotal)
         [] c.kind = "free_shipping"                 -> 0

Rate(method) ==
  CASE method = "standard" -> 999
    [] method = "express"  -> 1999
    [] method = "pickup"   -> 0

FreeFrom == 20000

\* _calculate_shipping, of what is left after the discount
Shipping(method, amount) == IF amount >= FreeFrom THEN 0 ELSE Rate(method)

\* The totals of an order; the tax is zero (_calculate_tax).
Bill(subtotal, c, method) ==
  LET left == subtotal - Discount(c, subtotal) IN
  [subtotal |-> subtotal, coupon |-> c, method |-> method,
   discount |-> Discount(c, subtotal),
   shipping |-> Shipping(method, left),
   grand    |-> left + Shipping(method, left)]

PricingInit == bill = NoBill

Checkout(subtotal, c, method) == bill' = Bill(subtotal, c, method)

\* Orders share nothing of their prices: a behaviour prices one.
PricingNext ==
  /\ bill = NoBill
  /\ \E subtotal \in Subtotals, c \in Coupons \cup {NoCoupon}, method \in Methods :
       Checkout(subtotal, c, method)

PricingSpec == PricingInit /\ [][PricingNext]_bill

---------------------------------------------------------------------------
(* Properties                                                              *)

\* No order pays the customer, with one exception: a percentage above 100, which
\* the help text of Coupon.value rules out and no validator does, whose cap, if
\* it has one, is above the subtotal.
NegativeTotalsHaveOneCause ==
  bill.grand < bill.shipping =>
    LET c == bill.coupon IN
    /\ c.kind = "percent" /\ c.value > Whole
    /\ c.max_discount = 0 \/ c.max_discount > bill.subtotal

\* A coupon can make an order dearer, and only in one way: it takes the order
\* below the amount from which shipping is free, by less than the shipping.
DearerOnlyAroundFreeShipping ==
  LET without == Bill(bill.subtotal, NoCoupon, bill.method) IN
  bill.grand > without.grand =>
    /\ bill.subtotal >= FreeFrom
    /\ bill.subtotal < FreeFrom + Rate(bill.method)
    /\ bill.grand - without.grand <= Rate(bill.method)

\* A percentage is the exact share to the nearest cent, unless it is capped.
ShareIsNearest ==
  LET c == bill.coupon
      exact == bill.subtotal * c.value
  IN
  c.kind = "percent" /\ bill.subtotal >= c.min_subtotal =>
    \/ bill.discount = c.max_discount /\ 2 * Whole * bill.discount <= 2 * exact + Whole
    \/ /\ 2 * Whole * bill.discount <= 2 * exact + Whole
       /\ 2 * Whole * bill.discount >= 2 * exact - Whole
=============================================================================
