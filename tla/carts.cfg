\* Two owners with several requests at a time share a coupon that can be used once; staff edit it.
SPECIFICATION MCCartsSpec
CONSTANTS
  Workers = {w1, w2, w3}
  Owners = {anna, bela}
  Variants = {v1}
  MaxAvailable = 2
  MaxUses = 1
  Nobody = Nobody
SYMMETRY Symmetry
INVARIANTS
  CartsTypeOK
  CouponWithinLimit
  UnitsAreOrderedOnce
  QuotedIsOrdered
