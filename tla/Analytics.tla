----------------------------- MODULE Analytics ------------------------------
(***************************************************************************)
(* Figures about orders that move while they are counted: the nightly      *)
(* rollup_daily_sales (apps/analytics/tasks.py) and the staff dashboard    *)
(* (apps/analytics/views.py and services.py).  Each figure is a query of   *)
(* its own and no transaction spans them, so every query may see other     *)
(* orders than the one before it.  A figure is modelled by the set of the  *)
(* orders it counts, adds up or averages.                                  *)
(***************************************************************************)
EXTENDS Naturals, Sequences

CONSTANTS
  Purchases,      \* orders
  Reporters,  \* Celery workers and staff at the dashboard
  LastDay     \* bounds the days

ASSUME AnalyticsAssumption == LastDay \in Nat \ {0}

VARIABLES
  purchase,     \* status, created_at and paid_at of each order, in days
  today,
  report,   \* the queries each reporter has made, and those still to make
  daily     \* DailySalesSnapshot of each day

analyticsVars == <<purchase, today, report, daily>>

Days == 1..LastDay
Never == 0

RollupQueries == <<"revenue", "average", "orders", "paid", "cancelled">>
DashboardQueries == <<"revenue", "orders", "paid", "cancelled", "average", "series">>
Figures == {"revenue", "average", "orders", "paid", "cancelled", "series"}

NoReport == [kind |-> "none"]
NoSnapshot == [began |-> Never]

AnalyticsTypeOK ==
  /\ purchase \in [Purchases -> [status : {"none", "pending", "paid", "packed", "cancelled"},
                         created : Days \cup {Never}, paid_on : Days \cup {Never}]]
  /\ today \in Days
  /\ \A r \in Reporters : report[r] # NoReport =>
       /\ report[r].kind \in {"rollup", "dashboard"} /\ report[r].day \in Days
       /\ report[r].began \in Days /\ report[r].moved \subseteq Purchases
       /\ report[r].figures \in [Figures -> SUBSET Purchases]
  /\ \A d \in Days : daily[d].began \in Days \cup {Never}

AnalyticsInit ==
  /\ purchase = [s \in Purchases |-> [status |-> "none", created |-> Never, paid_on |-> Never]]
  /\ today = 1
  /\ report = [r \in Reporters |-> NoReport]
  /\ daily = [d \in Days |-> NoSnapshot]

---------------------------------------------------------------------------
(* Orders move                                                             *)

Move(s, row) ==
  /\ purchase' = [purchase EXCEPT ![s] = row]
  /\ report' = [r \in Reporters |->
                  IF report[r] = NoReport THEN NoReport
                  ELSE [report[r] EXCEPT !.moved = @ \cup {s}]]
  /\ UNCHANGED <<today, daily>>

PlacePurchase(s) ==
  /\ purchase[s].status = "none"
  /\ Move(s, [status |-> "pending", created |-> today, paid_on |-> Never])

PayPurchase(s) ==
  /\ purchase[s].status = "pending"
  /\ Move(s, [purchase[s] EXCEPT !.status = "paid", !.paid_on = today])

\* Later transitions: the order is not PAID any more, its paid_at stays.  No
\* query tells the statuses after PACKED, or a refund, from PACKED.
MoveOn(s, new) ==
  /\ \/ purchase[s].status = "pending" /\ new = "cancelled"
     \/ purchase[s].status = "paid" /\ new = "packed"
     \/ purchase[s].status \in {"paid", "packed"} /\ new = "cancelled"
  /\ Move(s, [purchase[s] EXCEPT !.status = new])

Midnight ==
  /\ today < LastDay
  /\ today' = today + 1
  /\ UNCHANGED <<purchase, report, daily>>

---------------------------------------------------------------------------
(* Queries                                                                 *)

CreatedOn(d) == {s \in Purchases : purchase[s].created = d}
WithStatus(status) == {s \in Purchases : purchase[s].status = status}
PaidOn(d) == {s \in WithStatus("paid") : purchase[s].paid_on = d}

\* The orders a figure is made of.  The rollup takes its revenue from the orders
\* created that day, revenue_today and revenue_timeseries from those paid that
\* day; average_order_value looks at the last 30 days, here all of them.
MadeOf(kind, figure, d) ==
  CASE figure = "orders"    -> CreatedOn(d)
    [] figure = "paid"      -> CreatedOn(d) \cap WithStatus("paid")
    [] figure = "cancelled" -> CreatedOn(d) \cap WithStatus("cancelled")
    [] figure = "revenue"   -> IF kind = "rollup" THEN CreatedOn(d) \cap WithStatus("paid")
                               ELSE PaidOn(d)
    [] figure = "average"   -> IF kind = "rollup" THEN CreatedOn(d) \cap WithStatus("paid")
                               ELSE WithStatus("paid")
    [] figure = "series"    -> PaidOn(d)

\* The rollup fixes its day at the start: yesterday, unless it is called with a
\* day, which may be any.
StartReport(r, kind, d) ==
  /\ report[r] = NoReport
  /\ d <= today /\ (kind = "dashboard" => d = today)
  /\ report' = [report EXCEPT ![r] =
       [kind |-> kind, day |-> d, began |-> today, moved |-> {},
        todo |-> IF kind = "rollup" THEN RollupQueries ELSE DashboardQueries,
        figures |-> [f \in Figures |-> {}]]]
  /\ UNCHANGED <<purchase, today, daily>>

DayAfresh(r) == today

\* Every function behind the dashboard looks at the clock itself.
DayOf(r) == IF report[r].kind = "rollup" THEN report[r].day ELSE today

Ask(r) ==
  LET now == report[r] IN
  /\ now # NoReport /\ now.todo # <<>>
  /\ LET asked == Head(now.todo)
         answer == MadeOf(now.kind, asked, DayOf(r))
     IN  report' = [report EXCEPT ![r] =
           [now EXCEPT !.todo = Tail(now.todo), !.figures = [now.figures EXCEPT ![asked] = answer]]]
  /\ UNCHANGED <<purchase, today, daily>>

\* update_or_create of the day's snapshot, or the dashboard's answer.
Deliver(r) ==
  LET now == report[r] IN
  /\ now # NoReport /\ now.todo = <<>>
  /\ daily' = IF now.kind = "rollup"
              THEN [daily EXCEPT ![now.day] = [began |-> now.began, figures |-> now.figures]]
              ELSE daily
  /\ report' = [report EXCEPT ![r] = NoReport]
  /\ UNCHANGED <<purchase, today>>

AnalyticsNext ==
  \/ \E s \in Purchases :
       PlacePurchase(s) \/ PayPurchase(s) \/ \E new \in {"packed", "cancelled"} : MoveOn(s, new)
  \/ Midnight
  \/ \E r \in Reporters :
       \/ \E kind \in {"rollup", "dashboard"}, d \in Days : StartReport(r, kind, d)
       \/ Ask(r) \/ Deliver(r)

AnalyticsSpec == AnalyticsInit /\ [][AnalyticsNext]_analyticsVars

---------------------------------------------------------------------------
(* Property                                                                *)

\* The figures of a report disagree with each other, and with the orders as they
\* are, only about orders that moved since it began, and on the dashboard about
\* the day when midnight came in between.
ErrsOnlyByWhatMoved(r) ==
  LET now == report[r] IN
  now # NoReport /\ now.todo = <<>> /\ (now.kind = "rollup" \/ today = now.began) =>
    \A f \in {RollupQueries[i] : i \in DOMAIN RollupQueries} :
      now.figures[f] \ now.moved = MadeOf(now.kind, f, now.day) \ now.moved

\* A snapshot made after its day counts every order of the day, and its revenue
\* lacks an order that was paid before only if that order moved on from PAID:
\* what is packed before the rollup runs is not in the day's revenue.
MissesOnlyWhatMovedOn(d) ==
  LET snapshot == daily[d] IN
  snapshot.began > d =>
    /\ snapshot.figures["orders"] = CreatedOn(d)
    /\ \A s \in CreatedOn(d) :
         purchase[s].paid_on \in 1..(snapshot.began - 1) /\ s \notin snapshot.figures["revenue"] =>
           purchase[s].status # "paid"

\* Reports and snapshots taken query by query while orders move are wrong about
\* the orders that moved and about nothing else (rollup_daily_sales, DashboardView).
FiguresErrOnlyByWhatMoved ==
  /\ \A r \in Reporters : ErrsOnlyByWhatMoved(r)
  /\ \A d \in Days : MissesOnlyWhatMovedOn(d)
=============================================================================
