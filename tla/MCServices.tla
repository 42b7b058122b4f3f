---------------------------- MODULE MCServices -----------------------------
(***************************************************************************)
(* The services around the shop's core, and close-ups of the core, which   *)
(* share no state here: a behaviour is one of the service chosen at its    *)
(* start, so that the state spaces add up and do not multiply.             *)
(***************************************************************************)
EXTENDS CatalogCache, CatalogPages, OrderStream, Notifications, Addresses, Accounts,
        Pricing, ReplicaReads, Analytics, AdminForms, StockLocks, TLC

CONSTANTS p1, p2, p3, p4, anna, Anna, boris, near, far, mug, hat, both

VARIABLE service  \* the service that moves

shopVars == <<vars, formVars, life, calls>>
userVars == <<addressVars, accountVars>>
otherVars == <<bill, replicaVars, analyticsVars>>
webVars == <<cacheVars, pageVars, streamVars, mailVars>>
serviceVars == <<webVars, userVars, otherVars, shopVars, service>>

---------------------------------------------------------------------------
(* Constants of the instance                                               *)

OneTick == [k \in Keys |-> 1]

Ages == [p \in Products |-> CASE p = p1 -> 1 [] p = p2 -> 2 [] p = p3 -> 3 [] p = p4 -> 4]
Sales == [popular |-> [p \in Products |-> IF p \in {p1, p3} THEN 2 ELSE 1]]

LowerCase == [e \in Emails |-> IF e = Anna THEN anna ELSE e]

\* Around a cent, and around the amount from which shipping is free.
Amounts == {0, 1, 5, 50, 1999, 19999, 20000, 20001, 21000, 30000}

\* Small and whole shares, a half cent, more than everything; capped or not.
CouponsOfAllKinds ==
  [kind : Kinds, value : {0, 1, 1050, 5000, 10000, 15000}, min_subtotal : {0, 20000},
   max_discount : {0, 1, 2500}]

NearFirst == [w \in Warehouses |-> IF w = near THEN 1 ELSE 2]
OneEach == [v \in Variants |-> [w \in Warehouses |-> 1]]
NoneEach == [v \in Variants |-> [w \in Warehouses |-> 0]]
OneMug == [v \in Variants |-> IF v = mug THEN 1 ELSE 0]
MugAndHat == [v \in Variants |-> 1]
MugOrBoth == {OneMug, MugAndHat}
MugShelf == {<<mug, near>>}
OneWantsBoth == [c \in Customers |-> IF c = both THEN MugAndHat ELSE OneMug]

\* Sets that no service uses together are the same two values, so that
\* there are few permutations to try.
Symmetry == Permutations(Requests) \cup Permutations(Staff)

---------------------------------------------------------------------------

\* Cache keys share nothing either: lists and details are looked at one by one.
Concerns(k) ==
  /\ \A r \in Requests : request'[r].key \in {k, NoKey}
  /\ \A t \in Tables : replaced'[t] # replaced[t] => \E i \in DOMAIN Statements[k] : t = Statements[k][i]

\* Dashboards, and rollups of the first day until there is a snapshot, are looked
\* at one by one.
Reports(kind) ==
  \A r \in Reporters : report'[r] # NoReport =>
    report'[r].kind = kind /\ (kind = "rollup" => report'[r].day = 1 /\ daily[1] = NoSnapshot)

\* Sockets share nothing but the order: each is looked at alone.  Staff force the
\* status once, and the stream rests when an event was undone or outdated, after
\* which no property says anything.
StreamStep ==
  /\ StreamNext
  /\ Cardinality(group') <= 1
  /\ upsets \subseteq {"forced"}
  /\ "forced" \in upsets => saved' = saved \/ holder # Nobody

\* Orders of one mug.  Staff pick of the statuses that differ for the stock, open no
\* form after the first lapse (those open they still save), and rest when the form of an
\* order has undone a change, reopened it or deleted items of it, after which no
\* property says anything.
FormsStep ==
  /\ AdminNext
  /\ \A o \in Orders : items'[o] \in {NoItems, OneMug}
  /\ \A s \in Staff : desk'[s].form = "order" =>
       desk'[s].new \in {desk'[s].shown, "pending", "paid", "packed", "cancelled"}
  /\ lapses # {} => \A s \in Staff : desk[s] = NoForm => desk'[s] = NoForm
  /\ lapses \cap {"stale order", "reopened", "emptied"} = {}

\* Warehouses close while calls run, and stay closed.
LocksStep == LocksNext /\ \A w \in Warehouses : active'[w] => active[w]

Services ==
  {"lists", "details", "pages", "stream", "mail", "addresses", "accounts", "till",
   "replica", "rollup", "dashboard", "forms", "locks"}

ServicesInit ==
  /\ CacheInit /\ PagesInit /\ StreamInit /\ MailInit /\ AddressesInit /\ AccountsInit
  /\ PricingInit /\ ReplicaInit /\ AnalyticsInit /\ AdminInit /\ LocksInit
  /\ service \in Services
  /\ service # "pages" => listed = Products
  /\ service # "mail" => addressed
  /\ service # "accounts" => \A v \in Visitors : visit[v].email = anna

ServicesNext ==
  /\ \/ /\ \/ service = "lists" /\ CacheNext /\ Concerns("brands")
           \/ service = "details" /\ CacheNext /\ Concerns("product")
        /\ UNCHANGED <<pageVars, streamVars, mailVars, userVars, otherVars, shopVars>>
     \/ /\ service = "pages" /\ PagesNext
        /\ UNCHANGED <<cacheVars, streamVars, mailVars, userVars, otherVars, shopVars>>
     \/ /\ service = "stream" /\ StreamStep
        /\ UNCHANGED <<cacheVars, pageVars, mailVars, userVars, otherVars, shopVars>>
     \/ /\ service = "mail" /\ MailNext
        /\ UNCHANGED <<cacheVars, pageVars, streamVars, userVars, otherVars, shopVars>>
     \/ /\ service = "addresses" /\ AddressesNext
        /\ UNCHANGED <<webVars, accountVars, otherVars, shopVars>>
     \/ /\ service = "accounts" /\ AccountsNext
        /\ UNCHANGED <<webVars, addressVars, otherVars, shopVars>>
     \/ /\ service = "till" /\ PricingNext
        /\ UNCHANGED <<webVars, userVars, replicaVars, analyticsVars, shopVars>>
     \/ /\ service = "replica" /\ ReplicaNext
        /\ UNCHANGED <<webVars, userVars, bill, analyticsVars, shopVars>>
     \/ /\ service \in {"rollup", "dashboard"} /\ AnalyticsNext /\ Reports(service)
        /\ UNCHANGED <<webVars, userVars, bill, replicaVars, shopVars>>
     \/ /\ service = "forms" /\ FormsStep
        /\ UNCHANGED <<webVars, userVars, otherVars, life, calls>>
     \/ /\ service = "locks" /\ LocksStep
        /\ UNCHANGED <<webVars, userVars, otherVars, orderVars, formVars>>
  /\ UNCHANGED service

ServicesSpec == ServicesInit /\ [][ServicesNext]_serviceVars

\* All components keep to their types.
ServicesTypeOK ==
  /\ CacheTypeOK /\ PagesTypeOK /\ StreamTypeOK /\ MailTypeOK
  /\ AddressesTypeOK /\ AccountsTypeOK /\ PricingTypeOK
  /\ ReplicaTypeOK /\ AnalyticsTypeOK /\ AdminTypeOK /\ LocksTypeOK

\* Services that move the same stock, each with its own orders or none, promise
\* different things of it.

\* Forms that undo nothing unseen lose no reservation (ExactUntilStaleForm of
\* AdminForms: SaveOrder and SaveStock among checkouts and transitions).
FormsLoseNoReservation == service = "forms" => ExactUntilStaleForm

\* Lock by lock, the stock functions keep the contract of the stock; the admin's
\* form of a stock row is another service, and does not (reserve_stock,
\* release_reservation, commit_sale).
LocksKeepStockContract ==
  StockKept!Init /\ [][service = "locks" => StockKept!Next]_stock
=============================================================================
