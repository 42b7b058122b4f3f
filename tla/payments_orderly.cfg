\* Nobody cancels a paid order, stock only grows, no deadlock: what the shop
\* guarantees then, with gateways that retry their webhooks.
SPECIFICATION FairPaymentsSpec
CONSTANTS
  w1 = w1
  w2 = w2
  Variants = {v1}
  Warehouses = {w1}
  Priority <- FirstBeforeSecond
  SafetyBuffer <- NoBuffer
  OpeningStock <- TwoEach
  MaxQuantity = 1
  Baskets <- OneUnit
  Switchable = {}
  Deltas = {}
  MaxOnHand = 2
  MaxAdjusted <- TwoEach
  Orders = {o1, o2}
  LateCancels = {}
  Providers = {"payme", "manual"}
  MaxPayments = 2
  MaxInflight = 2
  Deadlocks = FALSE
INVARIANTS
  EveryPendingOrderCanBePaid
  PaidIsNotCancelled
PROPERTIES
  CaptureIsNoticed
CHECK_DEADLOCK FALSE
