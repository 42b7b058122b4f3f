CONSTANTS
  Requests = {one, two}
  Keys = {"brands", "product"}
  Ttl <- OneTick
  Encodable = {"brands", "product"}
  Longest = 1
  MaxTime = 3
  MaxEdits = 1
  p1 = p1
  p2 = p2
  p3 = p3
  p4 = p4
  Products = {p1, p2, p3, p4}
  Created <- Ages
  Sorts = {"newest", "popular"}
  Rank <- Sales
  PageSize = 2
  Writers = {one, two}
  Sockets = {"follower", "buyer"}
  Followers = {"follower"}
  MaxQueue = 2
  Workers = {one, two}
  MaxRetries = 2
  MaxMails = 2
  MaxMessages = 2
  anna = anna
  Anna = Anna
  boris = boris
  Emails = {anna, Anna, boris}
  Normalized <- LowerCase
  Visitors = {v1, v2, v3}
  Addresses = {a1, a2}
  Devices = {one, two}
  Coupons <- CouponsOfAllKinds
  Subtotals <- Amounts
  Lines = {left, right}
  Tickets = {t1, t2}
  Purchases = {one, two}
  Reporters = {q1}
  LastDay = 2
  mug = mug
  hat = hat
  near = near
  far = far
  Variants = {mug, hat}
  Warehouses = {near, far}
  Priority <- NearFirst
  SafetyBuffer <- NoneEach
  OpeningStock <- OneEach
  MaxQuantity = 1
  Baskets <- MugOrBoth
  Switchable = {far}
  Deltas = {}
  MaxOnHand = 1
  MaxAdjusted <- NoneEach
  Orders = {one, two}
  LateCancels = {}
  Staff = {left, right}
  Shelves <- MugShelf
  Counts = {1}
  both = both
  Customers = {both, left, right}
  Wanted <- OneWantsBoth
SPECIFICATION ServicesSpec
SYMMETRY Symmetry
INVARIANTS
  ServicesTypeOK
  AnswersAreRecent
  WalkMissesNothing
  StreamGoesForward
  LastWordIsTrue
  TwiceOnlyAfterMishap
  MailIsNotForgotten
  LastChoiceStands
  OneWholeAccountEach
  NegativeTotalsHaveOneCause
  WholeWhereReadsAreFresh
  FiguresErrOnlyByWhatMoved
  ChargedOnceUntilReopened
  FormsLoseNoReservation
  SingleItemCheckoutsDoNotDeadlock
  UndisturbedRowsSuffice
PROPERTIES
  LocksKeepStockContract
CHECK_DEADLOCK FALSE
