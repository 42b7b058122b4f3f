\* The claim of inventory/models.py:5 about Stock.reserved.
SPECIFICATION OrdersSpec
CONSTANTS
  v1 = v1
  v2 = v2
  near = near
  far = far
  Variants = {v1, v2}
  Warehouses = {near, far}
  Priority <- PriorityByDistance
  SafetyBuffer <- SmallBuffer
  OpeningStock <- ScarceStock
  MaxQuantity = 2
  Baskets <- TwoBaskets
  Switchable = {near, far}
  Deltas <- RestockAndShrink
  MaxOnHand = 4
  MaxAdjusted <- OneRowAdjusted
  Orders = {o1, o2, o3}
  LateCancels = {"paid", "packed"}
INVARIANTS
  ReservedBacksPendingOrders
