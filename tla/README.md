# NovaCommerce in TLA+

TLA+ models, model-checking runs and machine-checked proofs for the commerce
back end in `src/`: a Django project (`src/django_app`) that owns the data and
a FastAPI service (`src/fastapi_app`) for high-volume reads, websockets and
webhook intake.  Paths below are relative to `src/`; `apps/` stands for
`django_app/apps/`.

The core of the system is the chain *stock - orders - payments*: a checkout
reserves stock, a payment webhook turns the reservation into a sale, a
cancellation gives it back.  That chain comes first here; around it are the carts
and coupons that feed it, the websocket manager, close-ups of the chain where one
step of the models is many in the database (locks, stale replicas, open
admin forms), and the smaller services.  What is left out is listed with the reason.

## 1. Inventory of the system

| Part | State | Operations | Hard behaviours | What makes it correct |
|---|---|---|---|---|
| **inventory** `apps/inventory` | `Stock.on_hand`, `Stock.reserved`, `safety_buffer` per (variant, warehouse); `Warehouse.is_active`, `priority`; `StockMovement` rows | `reserve_stock`, `release_reservation`, `commit_sale`, `adjust_stock`; warehouse CRUD; admin forms | concurrent callers on the same rows under `SELECT ... FOR UPDATE`, rows walked in different orders (deadlocks), a release or sale cut short, adjustments below what is reserved | no unit promised twice, none lost; the movements explain the rows |
| **orders** `apps/orders` | `Order.status`, time stamps, `OrderItem`, `OrderEvent` | `create_order_from_cart`, `transition_status`, cancel endpoint, admin form | repeated and conflicting transitions, a transition failing half-way, cancellation of a paid order, stale admin forms, events broadcast before commit | one legal life per order; stock is charged to it exactly once; reservations end with the order |
| **payments** `apps/payments` | `Payment` rows, `Order.payment_provider/payment_reference` | `create_payment`, `handle_webhook` (five providers), `expire_pending_payments` | webhooks late, duplicated, reordered, lost, unmatched; several attempts per order; errors swallowed after a rollback to a savepoint | no order paid without money, no captured money unnoticed, payment and order agree |
| **cart** `apps/cart` | `Cart`, `CartItem` | get or create, add, update, remove, clear, merge (no caller) | two first requests, soft deletion under a unique constraint, two checkouts of one cart, stale availability | one cart per user; an item is ordered once |
| **coupons, pricing** `apps/coupons`, `apps/orders/services.py:43-77` | `Coupon.used_count` | `is_valid_now`, `calculate_discount`, totals | concurrent use at `max_uses`, lost updates by edits, totals at the edges | no coupon used more often than allowed, no negative total |
| **core** `apps/core` | `deleted_at`; replica choice | soft deletion, `PrimaryReplicaRouter` | stale reads | read your own writes |
| **users** `apps/users` | accounts with their wishlist and role, `Address.is_default` | registration, the address book | statements outside a transaction, two registrations of one address in different spellings, workers that die in between | one whole account each; the default chosen last is the default |
| **notifications** `apps/notifications` | `Notification.status` | `send_order_paid_email`, mail task, `mark_read` | the row committed before its message is published, late acknowledgement, retries, two writers of one row | a message is not lost; sent once |
| **realtime (Django Channels)** `apps/realtime`, `apps/orders/signals.py` | channel groups | connect, disconnect, `broadcast_order_event` | events sent before commit, a status set in the admin without an event, events added without a lock | a client ends up with the order's status |
| **realtime (FastAPI)** `fastapi_app/realtime/manager.py` | `_channels`, `_pubsub_tasks` | connect, disconnect, broadcast, `_consume` | every `await` is an interleaving point, cancelled and crashed tasks | a connected socket gets the channel's messages; no task leaks |
| **webhook intake (FastAPI)** `fastapi_app/api/v1/webhooks.py` | Redis list | `receive` | queue failure answered with 202, no consumer | an accepted webhook is handled |
| **catalog, search** `fastapi_app/api/v1`, `apps/catalog` | tables, Redis cache | cached reads, cursor pages, admin edits | stale cache, refill after an edit, pages while products come and go | staleness bounded by the time to live; a walk misses nothing |
| **analytics** `apps/analytics` | `DailySalesSnapshot` | rollup, dashboard queries | orders that move between the queries of a report, or on before the rollup | figures are wrong about nothing but what moved |
| **admin forms** `apps/orders/admin.py`, `apps/inventory/admin.py` | none of their own | open, save, delete items | a form saved over a change it had not seen, a status set by hand that no service would set | only a stale save, an order reopened or emptied by hand can charge an order twice or wrongly; a status set by hand never charges |
| **audit, reviews, shipping, settings** | logs, reviews, models only, configuration | - | - | - |

How they interact: views call service functions; service functions call each
other inside one `transaction.atomic` (checkout calls `reserve_stock`,
`transition_status` calls `commit_sale` or `release_reservation`,
`handle_webhook` calls `transition_status` in a savepoint).  All shared state is
in the database; concurrency is between transactions (web workers, Celery
workers, gateways' webhooks) and, in FastAPI, between coroutines at `await`.
Order events leave through Channels groups, live counters through Redis pub/sub.

The hazards, each at its line and with the properties that watch it, are the
`hazards` of `PROJECT.json`.

## 2. Modules

```
Units            adding up quantities
  Inventory      stock rows and the four service functions      -- implements --> StockContract
    StockLocks   reserve, sell and release lock by lock          -- implements --> StockContract
    Orders       checkout and status transitions over Inventory  -- implements --> OrderContract
      Payments   charge attempts, gateways and webhooks over Orders
      AdminForms forms of orders and stock rows that stay open while Orders moves
  Carts          carts, items, the coupon's count and the cart side of checkout
  Pricing        discount, shipping, totals
ReplicaReads     the reads of checkout and payment when a replica lags
ConnectionManager     websockets, channels and consumer tasks of FastAPI
CatalogCache, CatalogPages, OrderStream, Notifications,
Addresses, Accounts, Analytics                             services that share no state

UnitsProofs <- InventoryProofs <- OrdersProofs <- PaymentsProofs
                                               <- CloseUpsProofs (AdminForms, StockLocks) <- ServicesProofs
CartsProofs, ConnectionManagerProofs
ServicesProofs   Pricing, Addresses, Accounts, Notifications, OrderStream, CatalogCache,
                 CatalogPages, ReplicaReads, Analytics, and their composition MCServices

MCOrders, MCPayments, MCCarts, MCConnectionManager         instances for TLC
MCServices                                                 services and close-ups in one instance
```

* **Units** - `Total(f)` is the sum of a function into the naturals, as the
  number of its units, so that the cardinality theorems apply (section 5).
* **Inventory** (`apps/inventory/services.py`).  One action per service function,
  because each runs in one transaction that holds the `FOR UPDATE` locks of the
  variant's rows until it commits.  The state is the columns of `Stock`
  (`on_hand`, `reserved`), `Warehouse.is_active` (`active`) and, for every row
  and reason, the sum of the movements written (`moved`).  The `for stock in rows`
  loops are one definition, `Greedy(limit, rank, q)`: the set of takes that walk the
  rows by rank, take all that limit and need allow, and stop.  Rows of equal rank come
  in any order, as the `ORDER BY` leaves them.  A call that raises changes
  nothing, so its guard is that the loop can take the full quantity.
* **Orders** (`apps/orders/services.py`, `views.py`, `admin.py`).  `CreateOrder` is
  `create_order_from_cart`; `PayOrder`, `CancelOrder`, `RefundOrder` are the branches
  of `transition_status` with all side effects; `CancelByUser` the endpoint;
  `FulfilOrder` the admin's edit that takes a parcel along, the only way the code has to
  reach PACKED, SHIPPED and DELIVERED (that the form takes any status is the subject of AdminForms).  `sold` is what the SALE movements with the
  order's id add up to; `stamped` is which of `paid_at`, `cancelled_at`,
  `refunded_at` are set.  `LateCancels` names the statuses in which the environment cancels orders
  that were paid.
* **OrderContract** - what the order component promises without stock rows, statuses
  or payments: an order is placed, settled at most once, closed for good, and its
  goods are taken all together exactly when it is settled.  `Orders` implements it
  under the mapping `Stage`, `Goods`.
* **StockContract** - what the stock functions promise their callers, with no loop, lock or
  trail: a call reserves, gives back or sells what was asked at once or not at all,
  from units that are free, reserved or on the shelf, in warehouses of its choice.  It is
  checked of Inventory under Orders (`KeepsStockContract`) and of StockLocks
  (`LocksKeepStockContract`), and proved of all three.
* **StockLocks** (the same functions).  `SelectRows` is the snapshot of a `SELECT ... FOR UPDATE`
  under READ COMMITTED: rows and order are chosen, then locked one by one (`Lock`),
  a row that no longer qualifies is skipped when its lock is granted, and the loop runs
  over what was `found` (`Walk`).  Writes show at the commit (`CommitCall`); the
  database ends a cycle of waiting transactions with a `Victim`.  `disturbed` says that others
  changed rows of the statement between its snapshot and its locks.
* **AdminForms** (`apps/orders/admin.py`, `apps/inventory/admin.py`).  A form keeps
  what it showed; a save writes every column, the read-only ones with what the POST
  has just read.  The form of an order takes any status and deletes the items ticked for it; that of a stock row takes a
  counted `on_hand` and, if staff type it, a number of reserved units.  `lapses` names what was saved that an order or a
  row need not survive as it was (`Lapses`): a stale form of either, an order reopened, set by hand to a status whose stock
  call was not made, or emptied, and a number of reserved units typed in.
* **Pricing** (`apps/coupons/models.py`, `apps/orders/services.py`).  `Discount` is
  `calculate_discount`, with percentages rounded to the nearest cent, half to even, as `quantize` does;
  `Shipping` and `Bill` are the totals.  Amounts are whole cents.
* **ReplicaReads** (`apps/core/db_router.py`).  `log` are the versions the primary has committed,
  `seen` the one the replica shows.  Every plain read of checkout and payment picks a
  database; `fresh` says whose reads were all caught up.
* **Payments** (`apps/payments`).  `CreatePayment` and `ExpirePendingPayments` are the
  functions of those names; `Deliver(m)` is `WebhookView.post` with `handle_webhook`:
  matching, the branch on `new_status`, the swallowed failure of a capture, and the
  final UPDATE of every attempt.  `StripeCharge`, `PayPalCharge`, `ClickCharge`,
  `PaymeCharge`, `ManualCharge` are the `create_charge` functions: how they end, what
  becomes the order's payment reference, and by which name the gateway's webhooks
  will find the order.  `StripeStatus`, `PayPalStatus`, `ClickStatus`,
  `PaymeStatus` are the `parse_webhook` functions.  The gateways are not in the
  repository: `charges`, `inflight`, `GatewayStep` and `GatewayMoves` model them by
  the events the providers' parsers know, and are marked external.  A webhook stays
  in `inflight` until the gateway drops it, so it may be delivered late, twice, after others, or never.
* **Carts** (`apps/cart`, `apps/coupons`, and the cart side of `create_order_from_cart`).
  Here a transaction is not one step: nothing locks a cart, so every worker's request goes
  through its statements one by one (`request[w].pc`), and under READ COMMITTED each
  statement sees what was committed before it.  What is written shows at the commit,
  which is the last step of a request.  `gone` are soft-deleted rows, which the default manager
  hides and the unique constraint does not; `locked` and `holder` are row locks.  Staff
  edits of the coupon read all columns (`StaffOpen`) and write them back (`StaffSave`).
  An owner's requests overlap freely.  `wanted`, `ordered`, `redeemed`, `rejected`, `crossed` and `overwritten` are history
  variables: `crossed` are the owners of whom one request changed a cart while another was checking it out (`NoteCrossing`).  The stock
  rows are left to Orders: in Carts a reservation succeeds (`Finish`) or fails (`Rollback`).
* **ConnectionManager** (`fastapi_app/realtime/manager.py`, `api/v1/realtime.py`).  One action for
  what a coroutine does from one `await` to the next; a consumer task is named after the websocket whose
  `connect` created it.  `since`, `from`, `published` and `received` say which messages a client
  was due.
* **CatalogCache** (`fastapi_app/api/v1/catalog.py`).  A request looks into Redis (`Hit`, `Miss`),
  executes its statements one by one (`Select`) and stores its answer (`Store`).  A table's contents
  are told apart by the number of edits; `replaced` keeps when each version went out of
  date.  Redis may fail at any look, which the code takes for a miss, so `Miss` needs no guard.
  `Encodable` are the endpoints whose answers `orjson` can encode; the others are never cached.
* **CatalogPages** (the same file, `list_products`).  `RowsAfter` is the query: `Older` its WHERE, `Before`
  and `InOrder` its ORDER BY, and the LIMIT one above the page.  `steady` are the products listed all
  along since the walk began.
* **OrderStream** (`apps/orders/signals.py`, `apps/realtime/consumers.py`).  One order.  A
  transaction is split where it can be seen from outside: it locks and checks
  (`Begin`), writes and sends the event (`Write`), and only then commits or rolls back.  A webhook locks the order and sends
  an event of its own (`Hear`) before the transition is checked (`Proceed`), if there is one.  In the admin, staff set any status without an
  event (`SetByHand`) and add events that carry a status read without a lock (`ReadForEvent`, `AddEvent`).
  The channel layer keeps a bounded queue per socket.  `lost`, `upsets` and `silent` name what
  can leave a client with another status: a message dropped; an event of a transaction that was undone, a status forced off its
  path, an event added with an outdated status; a status set without an event.
* **Notifications** (`apps/notifications`).  One notification, its Celery messages, the workers and the
  mail server.  `send_order_paid_email` commits the row (`Notify`) and then publishes the message (`Publish`); the broker may refuse
  it, or the worker die in between, and so with the new message of a `Retry`.  `Crash` gives the message back to the broker, as
  `CELERY_TASK_ACKS_LATE` and `CELERY_TASK_REJECT_ON_WORKER_LOST` say.  `mishap` and `given`
  name what can repeat a mail and what can end the attempts: a message that was not published is one of the latter.
* **Addresses** (`apps/users/views.py`, `models.py`).  The requests of one user's devices, statement by
  statement: `Create` then `ClearOthers`, `MakeDefault` then `ClearKind` and `SetDefault`, `Update` then
  `Save`.  A worker may die between two of them (`Abandon`).  `chosen` is the last choice of
  a default by a request that ran alone.
* **Accounts** (`apps/users/serializers.py`, `models.py`, `signals.py`).  Registration in its three commits:
  account, wishlist (the signal), role.  `Normalized` is `normalize_email`.
* **Analytics** (`apps/analytics`).  A report is a list of queries made one by one (`Ask`) while orders move; a
  figure is the set of orders it counts.  `moved` are the orders that moved since the report began.
* **MCServices** joins everything from StockLocks on that shares no state, so that the state
  spaces add up and do not multiply: a behaviour is a behaviour of one service, chosen in the initial
  state by `service`.  The thirteen are two endpoints with cache keys of their own (`lists`,
  `details`: `Concerns`), `pages`, `stream`, `mail`, `addresses`, `accounts`, `till` (Pricing), `replica`,
  `rollup` and `dashboard` (Analytics: `Reports`), `forms` (AdminForms) and `locks` (StockLocks).  Forms and locks both
  move the stock and promise different things of it, so `FormsLoseNoReservation` and
  `LocksKeepStockContract` say which service they are about.  `StreamStep` and `FormsStep` keep those two small (section 3).

A mutant (a definition changed the way a plausible bug would change it) stands
just before the definition it changes: `IgnoringActive`, `ReleaseUnrecorded`,
`SellWithoutReservation`, `AdjustUnclamped`, `AnyTransition`,
`CancelKeepingReservation`, `PrepareIsCapture`, `MatchedByReference`,
`MarkVerbatim`, `CancelUnlessRefused`, `RefundSwallowingErrors`, `SaveForgettingReserved`; in StockLocks
`AnyOrder`, `QualifiesFromTwo`, `GrantUnchecked`; in Carts `AddUnchecked`,
`TakeCouponUnlocked`, `LockLineUnlocked`, `ReadItemsOfOwner`; in ConnectionManager
`ConnectAlwaysStarting`, `DisconnectWithoutCancel`, `DropAll`, `FailureEndsFanOut`,
`FailureHangs`; in the services `StoreForGood`, `PageOnly`, `BeginUnlocked`,
`WriteOldStatus`, `StartUnlessGone`, `CrashAcknowledged`, `NotCleared`, `Unnormalized`, `FixedInFull`,
`PlaceLineByLine`, `DayAfresh`.  None is part of
a specification; each shows that the properties notice the bug.

## 3. Runs

| Run | Question | Result |
|---|---|---|
| `orders_full` | 3 orders, 2 baskets (2 units of one variant; 1 of each of two), 2 warehouses with priorities and a safety buffer; every transition, cancellation after payment, switching warehouses, adjustments of +1 and -2 on one row | holds: types, `ReservedMatchesTrail`, `StockChargedOnce`, `NoLeakedReservation`, `ExactUntilLateCancel`, and two refinements, `KeepsContract` and `KeepsStockContract` |
| `payments_full` | 2 orders, 2 attempts with Stripe, PayPal, Click or manual, 2 webhooks underway; late cancellation, stock shrinking below reservations, deadlock victims | holds: types, `PaidOnlyIfAnnounced`, `RefundedTogether` |
| `payments_orderly` | Payme and manual attempts while no paid order is cancelled, stock does not shrink and no transaction is a deadlock victim; gateways retry | holds: `EveryPendingOrderCanBePaid`, `PaidIsNotCancelled`, and the liveness property `CaptureIsNoticed` |
| `carts` | 3 workers, 2 owners whose requests overlap freely (two checkouts of one cart, adds and removals beside a checkout), 1 variant, at most 2 units available, a coupon for 1 use that staff edit | holds: types, `CouponWithinLimit`, `UnitsAreOrderedOnce`, `QuotedIsOrdered` |
| `manager` | 3 websockets on one channel, 2 messages, sends that fail, consumers that crash | holds: types, `OneConsumer`, `ClientsAndConsumers`, `ReceivedInOrder`, `NothingIsMissed`, and the liveness property `InboxIsDrained` |
| `services` | cache: 2 requests, a time to live of 1, 1 edit per table; pages: 4 products, pages of 2, two sorts; stream: 2 transactions, one socket of either kind at a time, queues of 2, a status forced by hand, events added; mail: 2 workers, 2 retries, 2 mails, 2 messages | holds: `AnswersAreRecent`, `WalkMissesNothing`, `StreamGoesForward`, `LastWordIsTrue`, `TwiceOnlyAfterMishap`, `MailIsNotForgotten` |
| | addresses: 2 addresses of either kind, 2 devices; accounts: 3 visitors, 3 spellings of 2 addresses; till: 10 subtotals around the limits, 108 coupons | `LastChoiceStands`, `OneWholeAccountEach`, `NegativeTotalsHaveOneCause` |
| | replica: 2 cart lines, 2 checkouts; rollup and dashboard: 2 orders, 2 days, one reporter | `WholeWhereReadsAreFresh`, `FiguresErrOnlyByWhatMoved` |
| | forms: 2 orders of a mug, 2 members of staff who set statuses, delete items and recount a shelf; locks: 3 orders of one or two items, 2 warehouses of which one may close | `ChargedOnceUntilReopened`, `FormsLoseNoReservation`, `SingleItemCheckoutsDoNotDeadlock`, `UndisturbedRowsSuffice`, `LocksKeepStockContract` (refinement), and the types of all |
| `reserved_doc` | is `Stock.reserved` what active checkouts hold (`apps/inventory/models.py:5`)? | no: cancelling a paid order releases other orders' reservations |
| `trail_doc` | do the movements explain every stock change (`apps/inventory/models.py:66`)? | no: an adjustment below zero is clamped, its movement is not |
| `attempt_doc` | does a payment tell about its own charge (`apps/payments/models.py:3`)? | no: one webhook sets all attempts of the order with the provider |
| `cart_single_doc` | is there a single cart per user (`apps/cart/views.py:21`)? | no: two first requests both insert one, and every later request fails |
| `cart_add_doc` | can an item be posted to the cart (`apps/cart/views.py:25`)? | no: once it was removed or ordered, its soft-deleted row makes the insert fail |
| `fanout_doc` | does the manager fan messages out to the clients of a channel (`fastapi_app/realtime/manager.py:4`)? | no: a crashed consumer stays registered, and whoever joins afterwards gets nothing |

**Why these bounds.** Two warehouses are the fewest with an order between rows;
with 3 + 1 units of one variant (one of them in the buffer) and 2 of the other,
a basket of two needs one row, both rows, or does not fit.  Three orders let one
order be paid and cancelled while a second waits and a third is created from what it
gave back.  In the payment runs two attempts are what it takes to confuse
attempts, two webhooks underway what it takes to reorder them, and a webhook can be
delivered any number of times.  `MaxOnHand`, `MaxAdjusted`, `MaxPayments` and
`MaxInflight` only bound the state space; they are guards of `AdjustStock`,
`CreatePayment` and `GatewayStep` and block nothing else.  Orders are model values
and symmetric in the safety runs; the run with liveness uses no symmetry.
`CHECK_DEADLOCK FALSE` is set in the payment runs, where the instance does come to
rest: all orders and attempts used up and every webhook dropped; in `manager`, where all
websockets may have left; and in `services`, where the clock, the edits, the order or the
mails come to their end.

In `carts` three workers let one owner's add overlap with the same owner's
removal or checkout while a checkout of the other owner competes for the coupon.  One variant is enough: lines of a cart share
nothing but the request that orders or clears them.  An owner who has `crossed` sends nothing more, and the instance rests after a
refused add, which changed nothing, or an edit that overwrote the coupon's count (`CartsStep`).  In `manager` three
sockets let one client start a consumer, a second join it, and a third find
what they left behind; channels share nothing, so there is one.  In `services` four products
in pages of two give a page in the middle of a walk and a product that leaves or
arrives before, in and after it; a second request, transaction or worker is what it takes to interleave, and
a third visitor to meet two accounts of one address.  Three customers make the shortest wait
cycles, and one customer who wants both items is enough for a checkout that takes locks in two statements;
two warehouses of different priority give rows an order.  Every row opens with one unit, so that
two orders compete for it.  Sockets share nothing but the order, so the stream has one at a
time; staff force its status off its path once, after which only transactions move it; and it rests when an event was undone or outdated.
In the form service staff pick of PENDING, PAID, PACKED and CANCELLED or leave what is shown, which are the statuses that differ for the
stock; after the first lapse they open no further form, but save those open; and the service stops when an order was saved by a
stale form, reopened or emptied.  Where they stop, none of their properties says anything from there on.  Rollups are followed until the first day has its snapshot.  `MaxTime`,
`MaxEdits`, `MaxPublished`, `MaxMails`, `MaxMessages`, `LastDay` and the sizes of the sets only bound the state space;
`MaxQueue` and `MaxRetries` are limits of the system itself.  Services that never run together share model values
(`one`, `two`, `left`, `right`), which keeps the permutations few.

**Environments.**  `LateCancels`, `Deltas`, `Switchable` and `Deadlocks` say what staff,
buyers and the database do.  The `full` runs allow everything; `payments_orderly` shows
what holds as long as nobody does the things that `reserved_doc` and the swallowed errors show to be harmful.
`carts` assumes nothing of its owners.  One who sends two requests at a time can order a
cart twice, lose an item added during a checkout, or get an order whose items are not those of its subtotal, since nothing locks the cart:
`UnitsAreOrderedOnce` and `QuotedIsOrdered` except the owners in `crossed`, and say that a change of the same cart beside its checkout
is the only way there: not an overlap of adds, updates and removals, nor anything other owners do.  `CouponWithinLimit` excuses edits by staff
that wrote an old `used_count` back (`overwritten`).  `StreamGoesForward`, `LastWordIsTrue`, `MailIsNotForgotten`, `ChargedOnceUntilReopened`, `FormsLoseNoReservation` and
`UndisturbedRowsSuffice` name in the same way what they do not promise (`upsets`, `given`, `lapses`, `disturbed`): an event of a
transaction that was rolled back or added with an old status, a status forced off its path, a message nobody published, a form saved over a change
it had not seen, an order reopened or emptied, rows that others changed while a statement waited for its locks.
A status set by hand is not excused by `ChargedOnceUntilReopened`: confirming a payment by setting PAID, as
`apps/payments/providers/manual.py:17` has it, or cancelling by setting CANCELLED, makes no stock call, so the order is not charged and its
reservation stays; what the property denies is that any unit is charged twice, or without the stamp `paid_at`.
`FormsLoseNoReservation`, which is about the leak, does excuse it.
Each of these does happen in the runs.

**Fairness.**  `FairPaymentsSpec` assumes that a webhook underway is delivered eventually
(weak fairness of `Deliver` for each one): gateways repeat a webhook until it is
answered with a 2xx status, which is all the code counts on.  Nothing is assumed of buyers, staff,
the gateways' own work, or housekeeping.  `FairManagerSpec` assumes that the event loop resumes every
coroutine that can run and that the endpoint's `finally` runs; not that clients
leave, that messages come, or that a send succeeds.

## 4. What is taken for granted

* In Inventory, Orders and Payments a database transaction is one step.  Row locks make this right for
  everything that depends on locked rows; what they leave open is modelled where it bites: StockLocks takes
  the locks one by one and still keeps StockContract, and a deadlock victim rolls back, which
  `Deadlocks` lets happen to `handle_webhook`.
* Warehouses have different priorities in the `services` run.  Of equal ones the `ORDER BY` leaves the order open, and
  two checkouts of one item could wait for each other.
* Webhooks are genuine: signatures are not modelled.  Gateways announce a capture only for a
  charge that the buyer approved.
* Celery beat calls `expire_pending_payments` at any time (the repository has no schedule).
* An order's items do not change after checkout, except that the admin's inline form can delete them, which AdminForms models and
  the other modules leave out.  (Its other columns are read-only, and an added empty item or event is not saved.)
* Outside ReplicaReads, reads go to the primary.  There, the replica applies commits in their order; writes, locking reads and
  `get_or_create` go to the primary, as Django routes them.
* In Orders, and with it in Payments, staff use the order form to take parcels along (packed, shipped, delivered) and
  for nothing else.  The form takes any status: AdminForms and OrderStream let it, and say what remains true then.
  Warehouses are edited in Inventory.  Staff who add or delete whole orders, stock rows or movements are left out.
* A coupon's numbers are natural.  Nothing validates that a percentage is at most 100, and a `max_discount` of 0
  counts as no cap; both are in Pricing.  A free-shipping coupon changes no total, and `per_user_limit` is never read.
* The figures of a report are sets of orders: sums and averages are functions of them.  The dashboard's window of 30 days
  holds all orders of the model.
* An address of kind "both" meets no query of the other two kinds, so it would be a third kind like them.
* `get_available` may return any number up to `MaxAvailable`, since checkouts of others change it
  between two reads.
* In FastAPI, coroutines interleave at `await` and nowhere else; a cancelled task
  takes no further step of its own.
* `merge_anonymous_into_user`, `manager.broadcast` and `send_order_paid_email` have no caller in
  the repository.  The first two are left out; the third is the only source of
  mails and may be called for any order.
* Whether `orjson` can encode an answer depends on the database driver (`Decimal` and `UUID` values cannot be
  encoded): `Encodable` is a constant, and what it leaves out is never cached.
* No two products have the same `created_at`.  A cursor the driver does not accept fails the request, which ends the walk.
* One order's stream and one notification say it all: orders and notifications share nothing there.
* `send_order_paid_email` is acknowledged late itself: when its worker dies after the row was committed, the broker hands it out
  again and a second row is made, which is another notification; the first stays PENDING for ever, and counts as `given`.  Two rows
  for one order may so send two mails, which `TwiceOnlyAfterMishap`, a statement about one row, does not deny.
* `mishap` is set by every death after `send_mail` and every `mark_read` of a sent row, which is more often than a second mail follows.
* A websocket send ends or raises: `InboxIsDrained` says nothing of a client that stalls for ever.
* In CatalogCache reads see what was committed, though `catalog.py` says they hit the replica: its lag adds to the age of an answer.
  `Longest`, the time a request may take, is an assumption; no setting bounds it.
* Two pending orders of Payments share one warehouse with stock for both; `EveryPendingOrderCanBePaid` is shown there under webhooks, and under
  scarce stock and two warehouses by its proof for every instance.
* Quantities are unbounded naturals; the 32-bit columns are far from their limits.

## 5. Proofs

TLAPS checks, for every number of orders, variants, warehouses and every opening
stock, priority, buffer, basket and adjustment (assumptions: the sets of rows, of orders and of
products are finite, quantities are natural numbers, every basket asks for something):

| Theorem | Statement |
|---|---|
| `InventoryTypeCorrect` | `InventorySpec => []InventoryTypeOK`: no row goes below zero |
| `TrailCorrect`, `OrdersTrailCorrect` | the movements explain the reservations, for stock on its own and under the orders |
| `OrdersTypeCorrect` | `OrdersSpec => []OrdersTypeOK` |
| `ChargedOnce` | `OrdersSpec => []StockChargedOnce` |
| `NoLeak` | `OrdersSpec => []NoLeakedReservation` |
| `ExactReservations` | `OrdersSpec => []ExactUntilLateCancel` |
| `PendingOrdersCanBePaid` | with `LateCancels = {}` and `Deltas \subseteq Nat`, `OrdersSpec => []EveryPendingOrderCanBePaid` |
| `OrdersUseInventory` | `OrdersSpec => InventorySpec` |
| `ImplementsStockContract`, `OrdersKeepStockContract` | Inventory on its own, and under the orders, implements StockContract |
| `OrdersKeepContract` | `OrdersSpec => Contract!Spec`: the refinement of OrderContract |
| `PaymentsUseOrders` | `PaymentsSpec => OrdersSpec`: webhooks move orders only as the status machine allows |
| `WebhooksChargeOnce`, `WebhooksLeakNothing`, `CapturesFindTheirStock` | so `StockChargedOnce`, `NoLeakedReservation` and, with `LateCancels = {}` and `Deltas \subseteq Nat`, `EveryPendingOrderCanBePaid` hold under any delivery of webhooks (`WebhooksKeepContract`: the refinement, too) |
| `PaymentsTypeCorrect` | `PaymentsSpec => []PaymentsTypeOK` |
| `PaidIfAnnounced`, `RefundsTogether` | `PaymentsSpec` implies `[]PaidOnlyIfAnnounced` and `[]RefundedTogether` |
| `PaidStaysPaid` | with `LateCancels = {}`, `PaymentsSpec => []PaidIsNotCancelled` |
| `FormsChargeOnce`, `FormsKeepReservations` | `AdminSpec` implies `[]ChargedOnceUntilReopened` and `[]ExactUntilStaleForm` (`FormsLoseNoReservation` in the runs) |
| `CartsTypeCorrect` | `CartsSpec => []CartsTypeOK`; with it, workers never make more carts than `CartIds` has |
| `CouponLimit` | `CartsSpec => []CouponWithinLimit`, for any number of workers, owners and any `MaxUses` |
| `OrderedOnce`, `QuotedOrdered` | `CartsSpec` implies `[]UnitsAreOrderedOnce` and `[]QuotedIsOrdered`, for owners who send any number of requests at a time |
| `ManagerTypeCorrect` | `ManagerSpec => []ManagerTypeOK` |
| `OneConsumerPerChannel`, `NobodyStranded` | `ManagerSpec` implies `[]OneConsumer` and `[]ClientsAndConsumers` |
| `InOrder`, `NoneMissed` | `ManagerSpec` implies `[]ReceivedInOrder` and `[]NothingIsMissed` |
| `PricingTypeCorrect`, `ShareCorrect`, `NegativeTotalsExplained`, `DearerExplained` | for every subtotal, coupon and shipping method: whole cents; a percentage is the exact share to the nearest cent, or its cap; a negative amount needs a percentage above 100 without a cap below the subtotal; a coupon makes an order dearer only by losing it free shipping |
| `ChoiceStands` | `AddressesSpec => []LastChoiceStands` |
| `WholeAccounts` | `AccountsSpec => []OneWholeAccountEach` |
| `TwiceIsExplained`, `NeverForgotten` | `MailSpec` implies `[]TwiceOnlyAfterMishap` and `[]MailIsNotForgotten` |
| `MailTypeCorrect` | `MailSpec => []MailTypeOK`: mails, messages and retries stay in their bounds |
| `StreamForward`, `LastWord` | `StreamSpec` implies `[]StreamGoesForward` and `[]LastWordIsTrue` |
| `AnswersRecent` | `CacheSpec => []AnswersAreRecent`, for any number of requests, keys, tables and statements |
| `NothingMissed` | `PagesSpec => []WalkMissesNothing`, for any finite set of products and any page size |
| `WholeWhereFresh` | `ReplicaSpec => []WholeWhereReadsAreFresh`, for any number of checkouts and lines |
| `FiguresRight` | `AnalyticsSpec => []FiguresErrOnlyByWhatMoved`, for any number of orders, days and reporters |
| `LocksTypeCorrect`, `RowsSuffice` | `LocksSpec` implies `[]LocksTypeOK` and `[]UndisturbedRowsSuffice` |
| `LocksImplementContract` | `LocksSpec => KeepsStockContract`: the stock functions lock by lock implement StockContract |
| `CheckoutsDoNotDeadlock`, `ServicesDoNotDeadlock` | if no two warehouses have the same priority, `LocksSpec` and `ServicesSpec` imply `[]SingleItemCheckoutsDoNotDeadlock` |
| `ServicesTypeCorrect` | `ServicesSpec => []ServicesTypeOK`: the types of all components at once |
| `FormsLoseNone`, `LocksKeepContract` | `ServicesSpec` implies `[]FormsLoseNoReservation` and `LocksKeepStockContract` |
| `ServicesKeepPromises` | `ServicesSpec` implies the other invariants of the run `services` |

The argument.  `UnitsProofs` shows that `Total` is a natural number, additive and monotone, by
bijections between sets of units; a recursive sum would be out of the provers' reach.
`InventoryProofs` says once what each service function does to the types and totals
(`ReserveEffect`, `ReleaseEffect`, `CommitEffect`, `StaffEffect`); from there on no
proof looks into a loop over rows.  In `OrdersProofs` the inductive invariant is `Charged`,
the types, `StockChargedOnce` and `History`.  `History` is needed because the status
alone forgets the past: it says that an order which is not placed or is pending carries no stamp and that a placed order holds a
basket (`OrdersPlaced`), and that a status reached through PAID carries `paid_at` (`PaidIsStamped`).  Without `PaidIsStamped`,
which a status set by hand breaks, the rest (`Charges`) is still inductive.  From it a PAID order that is cancelled is known to be a late
cancellation, and an order is known to be paid at most once.  `Backed` (both statements about
reservations) is inductive on top of it: the sum over pending orders changes by the items of
exactly the order that enters or leaves PENDING (`PendingChange`), and the reservations
by the same amount, except that a release may be cut short, which keeps the inequality, and a
late cancellation, which makes the equality's premise false.  `PendingOrdersCanBePaid` adds that each row
covers what is reserved on it (`Covered`).

`CartsProofs` has three inductive invariants, one on top of the other.  `Typed` adds to the types what
the stage of a request says of its fields (`Stages`, `Fits`) and that an owner's carts and the
requests about to insert one are together no more than the workers (`RoomForCarts`).  `Coupon`
says that the `used_count` a checkout has read is still the current one while it holds the
row lock (`HolderKnows`, `CountedUnderLock`), so that `used` and `redeemed` agree until
an edit overwrites the count (`CountIsTrue`).  `Balanced` adds to `UnitsAreOrderedOnce` that the
quantity read under a line's lock is still there (`HoldsLine`), and that a checkout has
seen what is in the cart now unless its owner has `crossed` (`SawTheCart`): whatever changes a cart beside a checkout of it, from a
removal to a second checkout, says so in the step that commits it; sums over carts are handled by one lemma on changing a single cart.

`ConnectionManagerProofs` uses `Safe`: the types and `Wiring`, which relates members,
registered tasks and task states (a registered task belongs to a channel with members, a live task
is registered); then `Order` and `Kept`, which say of every consumer where in the
stream of messages its inbox, the message it is sending and each client's last message are.

`PaymentsProofs` rests on `PaymentsUseOrders`: every branch of `handle_webhook`, swallowed errors and
deadlock victims included, is a step of Orders or leaves the order and the stock alone
(`StepOfOrders`), so that the theorems about orders carry over by temporal logic alone.  For the
properties that are about money, the invariant `Attempts` adds to the types that a webhook underway is one that
the attempt's provider sends (`SentByProvider`), and that one the code takes for a capture is about a
charge already announced (`CapturesAreAnnounced`): the tables of the providers' parsers and of the gateways' moves are
compared in it once (`GatewayTable`).

`CloseUpsProofs` shows of AdminForms that a save of an order that is still as the form showed it, and is neither reopened nor emptied,
changes its status and nothing else (`FreshOrderSave`).  `Charges` does not depend on which status that is, so it is kept while orders
are intact (`OrdersIntact`), `PaidIsStamped` while none was set by hand either (`ChargedForms`), and `Backed` until
anything lapsed (`BackedForms`).

Of StockLocks it shows `LocksOK`, which relates what a call has taken to what it has locked.  No lock is held twice
(`LocksApart`).  The rows a statement waits for are rows of its item, each once, and a checkout gets a warehouse only after the
stock row before it (`WaitsInOrder`); the rows it has `found` are locked and, in a checkout, active (`FoundRight`).  What was
taken for an item adds up to its quantity and comes from rows that are locked, which still hold it (`TakenRight`): whoever
wanted to change such a row would need its lock.  So the commit takes from the rows as they are then what the call computed from
the rows as they were, and is one step of StockContract; every other step leaves the stock alone.  For
`UndisturbedRowsSuffice` it takes three more parts: rows hold what is reserved on them (`Covered`), the units reserved are
enough for all orders that wait (`DueReserved`), and a statement that nobody disturbed has found, or still waits for, every row
with units reserved (`MissesNone`).  What the loop takes from a list of rows is a recursive function, and `WalkExists` to
`WalkTakes` say of it, by descent to a least counterexample, that it takes from each row no more than its limit and leaves
something to take only if it took every limit.

That a wait cycle needs a checkout of two items, or a sale or release, rests on a rank: a checkout of one item
locks by rising priority, a stock row before its warehouse (`LocksRise`), so the member of the cycle that waits for the
highest lock would wait for one that holds it and itself waits for a higher one.  The theorem needs a hypothesis that the code
does not give, `PrioritiesDiffer`: `Warehouse.priority` is not unique, and among equal ones the `ORDER BY` leaves the
order open, so that two checkouts could lock the same two rows in opposite orders.

`ServicesProofs` has one invariant for each service.  Of Addresses: what a request that ran alone so far knows of its row
(`Known`), so that its last statement leaves the default it says.  Of Accounts (`Register`): whatever a visit has
inserted is there, and two visits never inserted one address.  Of Notifications: without a mishap a mail that went out is
recorded by its row or by the one worker that sent it (`SentOnce`), and a mail that is
not out has not been reported, and the task that wrote the row has yet to publish its message, or a worker or a message in the queue will
try it (`NotForgotten`); before the message is published there are none (`MailInBounds`).  Of OrderStream (`StreamKept`): at most one
transaction has read the order, and it holds the row's lock; without upsets, what a client was told and will be told goes forward,
and not past the status that is said now (`Said`: the one being written, or else the committed one); and a client that lost nothing
hears that one last, which a status set by hand upsets only until the next event.

Of CatalogCache (`CacheCurrent`): whatever a request has read was right at some time since it began, and an entry was made of
such a request at most a time to live before it expires; the two intervals add up to the bound.  Of CatalogPages (`WalkOK`): a
product that was listed all along has been seen or is older than the cursor; that a page loses none in between is shown
of the query, whose rows are counted by those before them (`Places`, `RowsInOrder`, `WholePage`).  Of ReplicaReads (`ReplicaOK`):
orders never leave the log nor change there, an order and the removal of its lines from the cart are one version, and a checkout
whose reads were fresh has read the cart that is still there.  Of Analytics (`CountedOK`): each figure asked for so far is right
but for the orders that moved since the report began, and a snapshot of a day that was over has its orders, and lacks of
its revenue only what is not PAID any more.

Together the services are one specification, and `ServicesUseComponents` shows that a behaviour of it is a behaviour of each of the nine
components that share nothing, so that their theorems hold there by temporal logic alone.  Forms and locks move the same
stock; `ShopKept` says what each relies on while the other's turn leaves it alone.  `FormsKeepTypes` covers the last step of
the form service, the save that undoes, reopens or empties an order: it breaks the promises, and not the types.

Only model-checked: liveness (`CaptureIsNoticed`, `InboxIsDrained`), which like ENABLED is out of the prover's reach.  Every
other property that holds in a run is proved for every value of the constants, under the hypotheses named above.

## 6. What is left

Worth adding next, in this order:

1. A proof that Payments keeps `StockContract` with stock functions that run lock by lock, which would join StockLocks to the
   chain *stock - orders - payments*; today the chain runs over Inventory, and both implement the contract.
2. The cart over a lagging replica, and stock rows that staff add or delete in the admin.

Not modelled, and why:

* **FastAPI webhook queue**: one `rpush`, answered with 202 even when it fails, onto a list that nothing in the
  repository drains.  There is no state of the program behind it; the hazard is listed without a property.
* **reviews**: create, read and list; its unique constraint meets soft deletion as that of the cart does, which Carts models.
* **shipping**: models that no service or view uses.
* **audit**: one insert after the response, errors swallowed; nothing reads it back.
* **settings, middleware, deployment**: configuration.  What it decides is an assumption of the models
  (late acknowledgement, READ COMMITTED, the router).
* **`merge_anonymous_into_user`, `manager.broadcast`**: no caller.
* **search, autocomplete, `top_products`, `abandoned_carts`, `low_stock_alerts`**: single queries that keep nothing.
* **login, logout, tokens**: library code.  Profiles are one update; creating and deleting coupons changes no order.
