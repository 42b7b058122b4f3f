\* The claim of payments/models.py:3 about Payment.
SPECIFICATION PaymentsSpec
CONSTANTS
  w1 = w1
  w2 = w2
  Variants = {v1}
  Warehouses = {w1}
  Priority <- FirstBeforeSecond
  SafetyBuffer <- NoBuffer
  OpeningStock <- TwoEach
  MaxQuantity = 1
  Baskets <- OneUnit
  Switchable = {}
  Deltas <- Shrink
  MaxOnHand = 2
  MaxAdjusted <- OneEach
  Orders = {o1, o2}
  LateCancels = {"paid", "packed"}
  Providers = {"stripe"}
  MaxPayments = 2
  MaxInflight = 2
  Deadlocks = FALSE
INVARIANTS
  PaymentTellsItsCharge
CHECK_DEADLOCK FALSE
