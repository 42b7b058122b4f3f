----------------------------- MODULE AdminForms -----------------------------
(***************************************************************************)
(* Staff at work in the Django admin while buyers and gateways go on:      *)
(* OrderAdmin (apps/orders/admin.py) and StockAdmin (apps/inventory/       *)
(* admin.py) over the components of module Orders.  A form shows a row,    *)
(* stays open for as long as its reader likes, and is saved as a whole:    *)
(* every column is written, those nobody touched with the value they were  *)
(* shown with.  Neither the page nor the save locks the row.               *)
(*                                                                         *)
(* The columns in readonly_fields are not on the form: they are written    *)
(* with the values the POST read just before it saved.                     *)
(***************************************************************************)
EXTENDS Orders

CONSTANTS
  Staff,     \* members of staff, one open form each
  Shelves,   \* the stock rows they recount: pairs of variant and warehouse
  Counts     \* the numbers they come back with

ASSUME AdminAssumption == Shelves \subseteq Variants \X Warehouses /\ Counts \subseteq Nat

VARIABLES
  desk,   \* the form each member of staff has open
  lapses  \* what was saved that an order or a stock row need not survive as it was

formVars == <<desk, lapses>>
adminVars == <<vars, desk, lapses>>

\* A save that undid a change it had not seen, of an order ("stale order") or of a
\* stock row ("stale stock"); an order set back to PENDING by hand ("reopened"), or
\* otherwise to a status whose stock call was not made ("set by hand"); items deleted
\* from an order ("emptied"); a number of reserved units typed in ("reserved").
Lapses ==
  {"stale order", "stale stock", "reopened", "set by hand", "emptied", "reserved"}

NoForm == [form |-> "none"]

OrderForms ==
  [form : {"order"}, order : Orders, shown : Status, new : Status]
    \cup [form : {"order_post"}, order : Orders, shown : Status, new : Status,
          stamps : SUBSET {"paid", "cancelled", "refunded"}]

StockForms ==
  [form : {"stock"}, variant : Variants, warehouse : Warehouses,
   on_hand : Nat, reserved : Nat]

AdminTypeOK ==
  /\ OrdersTypeOK
  /\ desk \in [Staff -> {NoForm} \cup OrderForms \cup StockForms]
  /\ lapses \subseteq Lapses

AdminInit ==
  /\ OrdersInit
  /\ desk = [s \in Staff |-> NoForm]
  /\ lapses = {}

---------------------------------------------------------------------------

\* The statuses of an order that was paid: moving it among them by hand skips no
\* call of the stock.
PaidFor == {"paid", "packed", "shipped", "delivered"}

\* Staff open an order and pick any status, or leave it and edit something else.
OpenOrder(s, o) ==
  /\ desk[s] = NoForm
  /\ status[o] # NoStatus
  /\ \E new \in Status :
       desk' = [desk EXCEPT ![s] =
                  [form |-> "order", order |-> o, shown |-> status[o], new |-> new]]
  /\ UNCHANGED <<vars, lapses>>

\* The POST reads the row it is about to write.
PostOrder(s) ==
  LET f == desk[s] IN
  /\ f.form = "order"
  /\ desk' = [desk EXCEPT ![s] =
                [form |-> "order_post", order |-> f.order, shown |-> f.shown,
                 new |-> f.new, stamps |-> stamped[f.order]]]
  /\ UNCHANGED <<vars, lapses>>

\* What is lapsed by saving form f of an order and deleting items from it.
OrderLapses(f, deleted) ==
  {l \in Lapses :
     \/ /\ l = "stale order"
        /\ <<status[f.order], stamped[f.order]>> # <<f.shown, f.stamps>>
     \/ l = "reopened" /\ f.new = "pending" /\ f.shown # "pending"
     \/ l = "set by hand" /\ f.new # f.shown /\ ~({f.shown, f.new} \subseteq PaidFor)
     \/ l = "emptied" /\ deleted # {}}

\* save_model: all columns of the order, none of the services; save_formset: the items
\* ticked for deletion.
SaveOrder(s) ==
  LET f == desk[s] IN
  /\ f.form = "order_post"
  /\ status' = [status EXCEPT ![f.order] = f.new]
  /\ stamped' = [stamped EXCEPT ![f.order] = f.stamps]
  /\ \E deleted \in SUBSET {v \in Variants : items[f.order][v] # 0} :
       /\ items' = [items EXCEPT ![f.order] =
                      [v \in Variants |-> IF v \in deleted THEN 0 ELSE items[f.order][v]]]
       /\ lapses' = lapses \cup OrderLapses(f, deleted)
  /\ desk' = [desk EXCEPT ![s] = NoForm]
  /\ UNCHANGED <<stock, sold>>

OpenStock(s, v, w) ==
  /\ <<v, w>> \in Shelves
  /\ desk[s] = NoForm
  /\ desk' = [desk EXCEPT ![s] =
                [form |-> "stock", variant |-> v, warehouse |-> w,
                 on_hand |-> on_hand[v][w], reserved |-> reserved[v][w]]]
  /\ UNCHANGED <<vars, lapses>>

\* save_model of a stock row: every column, with the number of reserved units the
\* form holds; edited is the lapse of typing it in.  No movement is written.
SaveRow(s, promised, edited) ==
  LET f == desk[s]
      fresh == /\ on_hand[f.variant][f.warehouse] = f.on_hand
               /\ reserved[f.variant][f.warehouse] = f.reserved
  IN
  /\ f.form = "stock"
  /\ \E n \in {f.on_hand} \cup Counts :
       on_hand' = [on_hand EXCEPT ![f.variant][f.warehouse] = n]
  /\ reserved' = [reserved EXCEPT ![f.variant][f.warehouse] = promised]
  /\ lapses' = lapses \cup edited \cup (IF fresh THEN {} ELSE {"stale stock"})
  /\ desk' = [desk EXCEPT ![s] = NoForm]
  /\ UNCHANGED <<active, moved, orderVars>>

SaveForgettingReserved(s) == SaveRow(s, 0, {})

\* Staff type the number they counted, or leave it; what is reserved they leave alone,
\* or type in as well.
SaveStock(s) ==
  \/ SaveRow(s, desk[s].reserved, {})
  \/ \E m \in Counts : SaveRow(s, m, {"reserved"})

\* Buyers and gateways, who use the services.
ServeOrders ==
  /\ \/ \E o \in Orders, b \in Baskets : CreateOrder(o, b)
     \/ \E o \in Orders : PayOrder(o) \/ CancelByUser(o) \/ RefundOrder(o)
  /\ UNCHANGED formVars

AdminNext ==
  \/ ServeOrders
  \/ \E s \in Staff :
       \/ \E o \in Orders : OpenOrder(s, o)
       \/ \E v \in Variants, w \in Warehouses : OpenStock(s, v, w)
       \/ PostOrder(s) \/ SaveOrder(s) \/ SaveStock(s)

AdminSpec == AdminInit /\ [][AdminNext]_adminVars

---------------------------------------------------------------------------
(* Properties                                                              *)

\* Whatever staff save, of whatever age, an order is charged its items once: only a
\* stale form of it, reopening it or deleting its items can change that, and a status
\* set by hand, PAID to confirm a payment or CANCELLED, never does.  What it may do is
\* show an order settled that was not charged (readonly_fields, transition_status,
\* commit_sale; "admin confirms via the dashboard", payments/providers/manual.py:17).
ChargedOnceUntilReopened ==
  lapses \cap {"stale order", "reopened", "emptied"} = {} =>
    /\ StockChargedOnce
    /\ "set by hand" \notin lapses =>
         \A o \in Orders : Stage[o] = "settled" => "paid" \in stamped[o]

\* Recounting shelves and moving paid orders along by hand loses no reservation, as
\* long as nothing was saved over a change that came after the form was opened,
\* whatever the number of forms open at a time (OrderAdmin, StockAdmin).
ExactUntilStaleForm == lapses = {} => ExactUntilLateCancel
=============================================================================
