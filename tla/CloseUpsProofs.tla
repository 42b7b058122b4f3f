--------------------------- MODULE CloseUpsProofs ---------------------------
(***************************************************************************)
(* Proofs about the two close-ups of the core.                             *)
(*                                                                         *)
(* AdminForms, for any number of staff, orders and rows: as long as no     *)
(* form of an order was saved over a change it had not seen, reopened it   *)
(* or emptied it, orders are charged once, whatever status is set by hand; *)
(* as long as nothing lapsed at all, reservations are exact.  The          *)
(* operations of module Orders keep what OrdersProofs shows they keep;     *)
(* what is new is that a fresh save of an order changes its status only,   *)
(* and that a fresh save of a stock row leaves what is reserved as it is.  *)
(*                                                                         *)
(* StockLocks, for any number of orders, variants and warehouses, lock by  *)
(* lock.  What a call takes comes from rows it has locked and keeps locked *)
(* until it commits (LocksOK), so that nobody else can have taken it       *)
(* meanwhile and the whole call is one step of StockContract.  A statement *)
(* that nobody disturbed has all the rows of its item that have units      *)
(* reserved, and these are enough for all the orders that wait.  Checkouts *)
(* of one item lock by rising rank, so the one in a wait cycle that waits  *)
(* for the highest lock waits for nobody in it.                            *)
(***************************************************************************)
EXTENDS AdminForms, StockLocks, OrdersProofs, SequenceTheorems, WellFoundedInduction

\* What an open form was made of: rows that exist, and a status.
FormsOK ==
  /\ desk \in [Staff -> {NoForm} \cup OrderForms \cup StockForms]
  /\ \A s \in Staff :
    /\ desk[s].form \in {"order", "order_post"} =>
         desk[s].order \in Orders /\ desk[s].shown \in Status /\ desk[s].new \in Status
    /\ desk[s].form = "stock" =>
         /\ desk[s].variant \in Variants /\ desk[s].warehouse \in Warehouses
         /\ desk[s].on_hand \in Nat /\ desk[s].reserved \in Nat

\* No order was saved over a change the form had not seen, reopened or emptied.
OrdersIntact == lapses \cap {"stale order", "reopened", "emptied"} = {}

\* The invariant behind the first theorem: while orders are intact they are charged
\* once, and while none was set by hand either, those that show it were paid.
ChargedForms ==
  /\ OrdersIntact => Charges /\ FormsOK
  /\ OrdersIntact /\ "set by hand" \notin lapses => PaidIsStamped

\* And behind the second: until anything lapsed.
BackedForms == lapses = {} => Backed

---------------------------------------------------------------------------
(* Fresh saves                                                             *)

\* Saved over a row that is as the form showed it, without reopening or emptying it,
\* an order changes its status and nothing else.
LEMMA FreshOrderSave ==
  ASSUME Charges, FormsOK, NEW s \in Staff, SaveOrder(s), OrdersIntact'
  PROVE  \E o \in Orders, new \in Status :
           /\ status' = [status EXCEPT ![o] = new]
           /\ UNCHANGED <<stock, items, sold, stamped>>
           /\ status[o] \in Status
           /\ new = "pending" => status[o] = "pending"
           /\ "set by hand" \notin lapses' =>
                new = status[o] \/ {status[o], new} \subseteq PaidFor
<1> DEFINE f == desk[s]
<1>1. PICK deleted \in SUBSET {v \in Variants : items[f.order][v] # 0} :
        /\ items' = [items EXCEPT ![f.order] =
                       [v \in Variants |-> IF v \in deleted THEN 0 ELSE items[f.order][v]]]
        /\ lapses' = lapses \cup OrderLapses(f, deleted)
  BY DEF SaveOrder
<1>2. /\ f.form = "order_post"
      /\ status' = [status EXCEPT ![f.order] = f.new]
      /\ stamped' = [stamped EXCEPT ![f.order] = f.stamps]
      /\ UNCHANGED <<stock, sold>>
  BY DEF SaveOrder
<1>3. f.order \in Orders /\ f.shown \in Status /\ f.new \in Status
  BY <1>2 DEF FormsOK
<1> DEFINE L == OrderLapses(f, deleted)
<1>4. "stale order" \notin L /\ "reopened" \notin L /\ "emptied" \notin L
  BY <1>1 DEF OrdersIntact
<1>5. <<status[f.order], stamped[f.order]>> = <<f.shown, f.stamps>>
  BY <1>4 DEF OrderLapses, Lapses
<1>6. f.new = "pending" => f.shown = "pending"
  BY <1>4 DEF OrderLapses, Lapses
<1>7. deleted = {}
  BY <1>4 DEF OrderLapses, Lapses
<1>8. "set by hand" \notin lapses' => f.new = f.shown \/ {f.shown, f.new} \subseteq PaidFor
  BY <1>1 DEF OrderLapses, Lapses
<1>9. stamped' = stamped
  BY <1>2, <1>3, <1>5 DEF Charges, OrdersTypeOK
<1>10. items' = items
  BY <1>1, <1>3, <1>7 DEF Charges, OrdersTypeOK
<1>11. status[f.order] = f.shown
  BY <1>5
<1>12. UNCHANGED <<stock, items, sold, stamped>>
  BY <1>2, <1>9, <1>10
<1>13. /\ status' = [status EXCEPT ![f.order] = f.new]
       /\ UNCHANGED <<stock, items, sold, stamped>>
       /\ status[f.order] \in Status
       /\ f.new = "pending" => status[f.order] = "pending"
       /\ "set by hand" \notin lapses' =>
            f.new = status[f.order] \/ {status[f.order], f.new} \subseteq PaidFor
  BY <1>2, <1>3, <1>6, <1>8, <1>11, <1>12
<1> HIDE DEF f
<1> QED
  BY <1>3, <1>13

\* Such a save leaves orders charged once, whatever the status.
LEMMA OrderSaveKeepsCharges ==
  ASSUME Charges, FormsOK, NEW s \in Staff, SaveOrder(s), OrdersIntact'
  PROVE  Charges'
<1>1. PICK o \in Orders, new \in Status :
        /\ status' = [status EXCEPT ![o] = new]
        /\ UNCHANGED <<stock, items, sold, stamped>>
        /\ status[o] \in Status
        /\ new = "pending" => status[o] = "pending"
  BY FreshOrderSave
<1>2. OrdersTypeOK'
  BY <1>1 DEF Charges, OrdersTypeOK, InventoryTypeOK, stock
<1>3. OrdersPlaced'
  BY <1>1 DEF Charges, OrdersPlaced, OrdersTypeOK, Status, NoStatus
<1>4. StockChargedOnce'
  BY <1>1 DEF Charges, StockChargedOnce
<1> QED
  BY <1>2, <1>3, <1>4 DEF Charges

\* And, unless it set the status by hand, paid orders stamped.
LEMMA OrderSaveKeepsStamps ==
  ASSUME Charges, PaidIsStamped, FormsOK, NEW s \in Staff, SaveOrder(s), OrdersIntact',
         "set by hand" \notin lapses'
  PROVE  PaidIsStamped'
<1>1. PICK o \in Orders, new \in Status :
        /\ status' = [status EXCEPT ![o] = new]
        /\ UNCHANGED <<stock, items, sold, stamped>>
        /\ new = status[o] \/ {status[o], new} \subseteq PaidFor
  BY FreshOrderSave
<1> QED
  BY <1>1 DEF Charges, OrdersTypeOK, PaidIsStamped, PaidFor

\* And reservations exact.
LEMMA OrderSaveKeepsBacked ==
  ASSUME Charged, Charged', Backed, FormsOK, NEW s \in Staff, SaveOrder(s), lapses' = {}
  PROVE  Backed'
<1>1. Charges /\ OrdersIntact'
  BY DEF Charged, Charges, History, OrdersIntact
<1>2. PICK o \in Orders, new \in Status :
        /\ status' = [status EXCEPT ![o] = new]
        /\ UNCHANGED <<stock, items, sold, stamped>>
        /\ new = status[o] \/ {status[o], new} \subseteq PaidFor
  BY <1>1, FreshOrderSave
<1>3. CASE new = status[o]
  <2>1. status' = status
    BY <1>2, <1>3 DEF Charged, OrdersTypeOK
  <2> QED
    BY <1>2, <2>1 DEF Backed, NoLeakedReservation, ExactUntilLateCancel, PendingUnits,
       CancelledLate, stock
<1>4. CASE {status[o], new} \subseteq PaidFor
  <2>1. status[o] # "pending" /\ new # "pending"
    BY <1>4 DEF PaidFor
  <2>2. UNCHANGED <<reserved, items>> /\ \A x \in Orders : CancelledLate(x) => CancelledLate(x)'
    BY <1>2 DEF stock, CancelledLate
  <2> QED
    BY <1>2, <2>1, <2>2, PaidOrderKeepsBacked
<1> QED
  BY <1>2, <1>3, <1>4

\* Any save of a stock row leaves orders alone and rows natural.
LEMMA StockSaveKeepsCharges ==
  ASSUME Charges, FormsOK, NEW s \in Staff, SaveStock(s)
  PROVE  Charges' /\ UNCHANGED orderVars
<1> DEFINE f == desk[s]
<1>1. PICK promised \in {f.reserved} \cup Counts, edited \in {{}, {"reserved"}} :
        SaveRow(s, promised, edited)
  BY DEF SaveStock
<1>2. PICK n \in {f.on_hand} \cup Counts :
        on_hand' = [on_hand EXCEPT ![f.variant][f.warehouse] = n]
  BY <1>1 DEF SaveRow
<1>3. /\ f.form = "stock"
      /\ reserved' = [reserved EXCEPT ![f.variant][f.warehouse] = promised]
      /\ UNCHANGED <<active, moved, orderVars>>
  BY <1>1 DEF SaveRow
<1>4. /\ f.variant \in Variants /\ f.warehouse \in Warehouses
      /\ n \in Nat /\ promised \in Nat
  BY <1>3, AdminAssumption DEF FormsOK
<1>5. on_hand' \in Rows
  BY <1>2, <1>4 DEF Charges, OrdersTypeOK, InventoryTypeOK, Rows
<1>6. reserved' \in Rows
  BY <1>3, <1>4 DEF Charges, OrdersTypeOK, InventoryTypeOK, Rows
<1>7. OrdersTypeOK'
  BY <1>3, <1>5, <1>6 DEF Charges, OrdersTypeOK, InventoryTypeOK, orderVars
<1> QED
  BY <1>3, <1>7 DEF Charges, OrdersPlaced, StockChargedOnce, orderVars

\* Saved over a row that is as the form showed it, nothing reserved is lost.
LEMMA FreshStockSaveKeepsBacked ==
  ASSUME Charged, FormsOK, Backed, NEW s \in Staff, SaveStock(s), lapses' = {}
  PROVE  Backed'
<1> DEFINE f == desk[s]
<1>1. SaveRow(s, f.reserved, {})
  BY DEF SaveStock, SaveRow
<1>2. /\ f.form = "stock"
      /\ reserved' = [reserved EXCEPT ![f.variant][f.warehouse] = f.reserved]
      /\ UNCHANGED orderVars
  BY <1>1 DEF SaveRow
<1>3. reserved[f.variant][f.warehouse] = f.reserved
  BY <1>1 DEF SaveRow
<1>4. f.variant \in Variants /\ f.warehouse \in Warehouses
  BY <1>2 DEF FormsOK
<1>5. reserved' = reserved
  BY <1>2, <1>3, <1>4 DEF Charged, OrdersTypeOK, InventoryTypeOK, Rows
<1>6. \A v \in Variants : PendingUnits(v)' = PendingUnits(v)
  BY <1>2 DEF orderVars, PendingUnits
<1> QED
  BY <1>2, <1>5, <1>6 DEF Backed, NoLeakedReservation, ExactUntilLateCancel, CancelledLate,
       orderVars

---------------------------------------------------------------------------
(* Charged while orders are intact                                         *)

\* Forms are opened, posted and closed with what FormsOK asks of them.
LEMMA DeskKeepsForms ==
  ASSUME Charges, FormsOK, NEW s \in Staff,
         \/ \E o \in Orders : OpenOrder(s, o)
         \/ \E v \in Variants, w \in Warehouses : OpenStock(s, v, w)
         \/ PostOrder(s)
  PROVE  Charges' /\ FormsOK' /\ UNCHANGED <<vars, lapses>>
<1>1. UNCHANGED <<vars, lapses>>
  BY DEF OpenOrder, OpenStock, PostOrder
<1>2. Charges'
  BY <1>1 DEF vars, Charges, OrdersTypeOK, InventoryTypeOK, OrdersPlaced, StockChargedOnce
<1>3. ASSUME NEW o \in Orders, OpenOrder(s, o)
      PROVE  FormsOK'
  <2>1. status[o] \in Status
    BY <1>3 DEF OpenOrder, Charges, OrdersTypeOK
  <2>2. PICK new \in Status :
          desk' = [desk EXCEPT ![s] =
                     [form |-> "order", order |-> o, shown |-> status[o], new |-> new]]
    BY <1>3 DEF OpenOrder
  <2>3. [form |-> "order", order |-> o, shown |-> status[o], new |-> new] \in OrderForms
    BY <2>1 DEF OrderForms
  <2> QED
    BY <2>1, <2>2, <2>3 DEF FormsOK
<1>4. ASSUME NEW v \in Variants, NEW w \in Warehouses, OpenStock(s, v, w)
      PROVE  FormsOK'
  <2> DEFINE f == [form |-> "stock", variant |-> v, warehouse |-> w,
                   on_hand |-> on_hand[v][w], reserved |-> reserved[v][w]]
  <2>1. desk' = [desk EXCEPT ![s] = f]
    BY <1>4 DEF OpenStock
  <2>2. on_hand[v][w] \in Nat /\ reserved[v][w] \in Nat
    BY DEF Charges, OrdersTypeOK, InventoryTypeOK, Rows
  <2>3. f \in StockForms
    BY <2>2 DEF StockForms
  <2> QED
    BY <2>1, <2>2, <2>3 DEF FormsOK
<1>5. ASSUME PostOrder(s)
      PROVE  FormsOK'
  <2> DEFINE f == desk[s]
             g == [form |-> "order_post", order |-> f.order, shown |-> f.shown,
                   new |-> f.new, stamps |-> stamped[f.order]]
  <2>1. f.form = "order" /\ desk' = [desk EXCEPT ![s] = g]
    BY <1>5 DEF PostOrder
  <2>2. f.order \in Orders /\ f.shown \in Status /\ f.new \in Status
    BY <2>1 DEF FormsOK
  <2>3. stamped[f.order] \in SUBSET {"paid", "cancelled", "refunded"}
    BY <2>2 DEF Charges, OrdersTypeOK
  <2>4. g \in OrderForms
    BY <2>2, <2>3 DEF OrderForms
  <2>5. /\ g.form = "order_post" /\ g.order = f.order /\ g.shown = f.shown /\ g.new = f.new
    OBVIOUS
  <2> HIDE DEF g
  <2>6. desk' \in [Staff -> {NoForm} \cup OrderForms \cup StockForms]
    BY <2>1, <2>4 DEF FormsOK
  <2>7. desk'[s] = g /\ \A t \in Staff \ {s} : desk'[t] = desk[t]
    BY <2>1 DEF FormsOK
  <2> QED
    BY <2>2, <2>5, <2>6, <2>7 DEF FormsOK
<1> QED
  BY <1>1, <1>2, <1>3, <1>4, <1>5

\* Closing a form.
LEMMA ClosedForm ==
  ASSUME FormsOK, NEW s \in Staff, desk' = [desk EXCEPT ![s] = NoForm]
  PROVE  FormsOK'
BY DEF FormsOK, NoForm

\* What buyers and gateways do keeps orders charged once.
LEMMA ServiceKeepsCharges ==
  ASSUME Charges, ServeOrders
  PROVE  Charges'
<1>1. ASSUME NEW o \in Orders, NEW b \in Baskets, CreateOrder(o, b) PROVE Charges'
  BY <1>1, CreateKeepsCharges
<1>2. ASSUME NEW o \in Orders, PayOrder(o) PROVE Charges'
  BY <1>2, PayKeepsCharges
<1>3. ASSUME NEW o \in Orders, CancelByUser(o) PROVE Charges'
  BY <1>3, CancelKeepsCharges DEF CancelByUser
<1>4. ASSUME NEW o \in Orders, RefundOrder(o) PROVE Charges'
  BY <1>4, RefundKeepsCharges
<1> QED
  BY <1>1, <1>2, <1>3, <1>4 DEF ServeOrders

\* And Charged, if nothing was set by hand.
LEMMA ServiceKeepsCharged ==
  ASSUME Charged, ServeOrders
  PROVE  Charged'
<1>1. ASSUME NEW o \in Orders, NEW b \in Baskets, CreateOrder(o, b) PROVE Charged'
  BY <1>1, CreateKeepsCharged
<1>2. ASSUME NEW o \in Orders, PayOrder(o) PROVE Charged'
  BY <1>2, PayKeepsCharged
<1>3. ASSUME NEW o \in Orders, CancelByUser(o) PROVE Charged'
  BY <1>3, CancelKeepsCharged DEF CancelByUser
<1>4. ASSUME NEW o \in Orders, RefundOrder(o) PROVE Charged'
  BY <1>4, RefundKeepsCharged
<1> QED
  BY <1>1, <1>2, <1>3, <1>4 DEF ServeOrders

\* A step after which orders are intact keeps them charged once.
LEMMA StepKeepsCharges ==
  ASSUME Charges, FormsOK, AdminNext, OrdersIntact'
  PROVE  Charges' /\ FormsOK'
<1>1. CASE ServeOrders
  <2>1. FormsOK'
    BY <1>1 DEF ServeOrders, formVars, FormsOK
  <2> QED
    BY <1>1, <2>1, ServiceKeepsCharges
<1>2. ASSUME NEW s \in Staff,
             \/ \E o \in Orders : OpenOrder(s, o)
             \/ \E v \in Variants, w \in Warehouses : OpenStock(s, v, w)
             \/ PostOrder(s)
      PROVE  Charges' /\ FormsOK'
  BY <1>2, DeskKeepsForms
<1>3. ASSUME NEW s \in Staff, SaveOrder(s) PROVE Charges' /\ FormsOK'
  <2>1. desk' = [desk EXCEPT ![s] = NoForm]
    BY <1>3 DEF SaveOrder
  <2> QED
    BY <1>3, <2>1, OrderSaveKeepsCharges, ClosedForm
<1>4. ASSUME NEW s \in Staff, SaveStock(s) PROVE Charges' /\ FormsOK'
  <2>1. desk' = [desk EXCEPT ![s] = NoForm]
    BY <1>4 DEF SaveStock, SaveRow
  <2> QED
    BY <1>4, <2>1, StockSaveKeepsCharges, ClosedForm
<1> QED
  BY <1>1, <1>2, <1>3, <1>4 DEF AdminNext

\* And, if none was set by hand either, stamped.
LEMMA StepKeepsStamps ==
  ASSUME Charges, PaidIsStamped, FormsOK, AdminNext, OrdersIntact', "set by hand" \notin lapses'
  PROVE  PaidIsStamped'
<1>1. CASE ServeOrders
  BY <1>1, ServiceKeepsCharged DEF Charged, Charges, History
<1>2. ASSUME NEW s \in Staff,
             \/ \E o \in Orders : OpenOrder(s, o)
             \/ \E v \in Variants, w \in Warehouses : OpenStock(s, v, w)
             \/ PostOrder(s)
      PROVE  PaidIsStamped'
  BY <1>2, DeskKeepsForms DEF vars, PaidIsStamped
<1>3. ASSUME NEW s \in Staff, SaveOrder(s) PROVE PaidIsStamped'
  BY <1>3, OrderSaveKeepsStamps
<1>4. ASSUME NEW s \in Staff, SaveStock(s) PROVE PaidIsStamped'
  BY <1>4, StockSaveKeepsCharges DEF orderVars, PaidIsStamped
<1> QED
  BY <1>1, <1>2, <1>3, <1>4 DEF AdminNext

\* What lapsed stays so.
LEMMA LapsesGrow ==
  ASSUME [AdminNext]_adminVars
  PROVE  lapses \subseteq lapses'
<1>1. ASSUME NEW s \in Staff, SaveOrder(s) PROVE lapses \subseteq lapses'
  BY <1>1 DEF SaveOrder
<1>2. ASSUME NEW s \in Staff, SaveStock(s) PROVE lapses \subseteq lapses'
  BY <1>2 DEF SaveStock, SaveRow
<1> QED
  BY <1>1, <1>2 DEF AdminNext, adminVars, ServeOrders, formVars, OpenOrder, OpenStock, PostOrder

\* So every step keeps what ChargedForms says.
LEMMA FormsStepKeepsCharged ==
  ASSUME ChargedForms, [AdminNext]_adminVars
  PROVE  ChargedForms'
<1> SUFFICES ASSUME OrdersIntact'
             PROVE  /\ Charges' /\ FormsOK'
                    /\ "set by hand" \notin lapses' => PaidIsStamped'
  BY DEF ChargedForms
<1>1. Charges /\ FormsOK
  BY LapsesGrow DEF ChargedForms, OrdersIntact
<1>2. "set by hand" \notin lapses' => PaidIsStamped
  BY LapsesGrow DEF ChargedForms, OrdersIntact
<1>3. CASE AdminNext
  BY <1>1, <1>2, <1>3, StepKeepsCharges, StepKeepsStamps
<1>4. CASE UNCHANGED adminVars
  <2>1. Charges' /\ FormsOK'
    BY <1>1, <1>4 DEF adminVars, vars, Charges, OrdersTypeOK, InventoryTypeOK, OrdersPlaced,
       StockChargedOnce, FormsOK
  <2> QED
    BY <1>2, <1>4, <2>1 DEF adminVars, vars, PaidIsStamped
<1> QED
  BY <1>3, <1>4

\* While orders are intact they stay charged, and the forms well made.
THEOREM ChargedFormsInvariant == AdminSpec => []ChargedForms
<1>1. AdminInit => ChargedForms
  <2> SUFFICES ASSUME AdminInit PROVE Charged /\ FormsOK
    BY DEF ChargedForms, Charged, Charges, History
  <2>1. Charged
    BY OrdersStartCharged DEF AdminInit
  <2> QED
    BY <2>1 DEF AdminInit, FormsOK, NoForm
<1>2. ChargedForms /\ [AdminNext]_adminVars => ChargedForms'
  BY FormsStepKeepsCharged
<1> QED
  BY <1>1, <1>2, PTL DEF AdminSpec

\* That is charged once, and settled only if charged or set so by hand.
LEMMA ChargedFormsSay == ChargedForms => ChargedOnceUntilReopened
<1>1. ASSUME Charges, PaidIsStamped, NEW o \in Orders, Stage[o] = "settled"
      PROVE  "paid" \in stamped[o]
  <2>1. status[o] \in Status \cup {NoStatus}
    BY <1>1 DEF Charges, OrdersTypeOK
  <2>2. status[o] \in {"paid", "packed", "shipped", "delivered"}
    BY <1>1, <2>1, StageTable DEF Stage, Status, NoStatus
  <2> QED
    BY <1>1, <2>2 DEF PaidIsStamped
<1> QED
  BY <1>1 DEF ChargedForms, OrdersIntact, Charges, ChargedOnceUntilReopened

\* Whatever statuses staff set by hand, whatever forms are open at a time, and however
\* stale those of stock rows are: until an order is saved over a change its form had not
\* seen, reopened or emptied, orders are charged once; and until one is set by hand, none
\* that shows itself settled was not charged.
THEOREM FormsChargeOnce == AdminSpec => []ChargedOnceUntilReopened
BY ChargedFormsSay, ChargedFormsInvariant, PTL

---------------------------------------------------------------------------
(* Reservations until anything lapses                                      *)

\* A step after which nothing has lapsed yet keeps reservations exact.
LEMMA StepKeepsBacked ==
  ASSUME Charged, Charged', FormsOK, Backed, AdminNext, lapses' = {}
  PROVE  Backed'
<1>1. ASSUME NEW o \in Orders, NEW b \in Baskets, CreateOrder(o, b) PROVE Backed'
  BY <1>1, CreateKeepsBacked
<1>2. ASSUME NEW o \in Orders, PayOrder(o) PROVE Backed'
  BY <1>2, PayKeepsBacked
<1>3. ASSUME NEW o \in Orders, CancelByUser(o) PROVE Backed'
  BY <1>3, CancelKeepsBacked DEF CancelByUser
<1>4. ASSUME NEW o \in Orders, RefundOrder(o) PROVE Backed'
  BY <1>4, RefundKeepsBacked
<1>5. ASSUME UNCHANGED vars PROVE Backed'
  BY <1>5 DEF vars, Backed, NoLeakedReservation, ExactUntilLateCancel, PendingUnits,
     CancelledLate
<1>6. CASE ServeOrders
  BY <1>1, <1>2, <1>3, <1>4, <1>6 DEF ServeOrders
<1>7. ASSUME NEW s \in Staff, SaveOrder(s) PROVE Backed'
  BY <1>7, OrderSaveKeepsBacked
<1>8. ASSUME NEW s \in Staff, SaveStock(s) PROVE Backed'
  BY <1>8, FreshStockSaveKeepsBacked
<1>9. ASSUME NEW s \in Staff,
             \/ \E o \in Orders : OpenOrder(s, o)
             \/ \E v \in Variants, w \in Warehouses : OpenStock(s, v, w)
             \/ PostOrder(s)
      PROVE  Backed'
  BY <1>5, <1>9 DEF OpenOrder, OpenStock, PostOrder
<1> QED
  BY <1>6, <1>7, <1>8, <1>9 DEF AdminNext

\* So does every step, or something has lapsed.
LEMMA FormsStepKeepsBacked ==
  ASSUME ChargedForms, BackedForms, [AdminNext]_adminVars
  PROVE  BackedForms'
<1> SUFFICES ASSUME lapses' = {}
             PROVE  Backed'
  BY DEF BackedForms
<1>1. lapses = {} /\ ChargedForms'
  BY LapsesGrow, FormsStepKeepsCharged
<1>2. Charged /\ FormsOK /\ Backed /\ Charged'
  BY <1>1 DEF ChargedForms, BackedForms, OrdersIntact, Charged, Charges, History
<1>3. CASE AdminNext
  BY <1>1, <1>2, <1>3, StepKeepsBacked
<1>4. CASE UNCHANGED adminVars
  BY <1>2, <1>4 DEF adminVars, vars, Backed, NoLeakedReservation, ExactUntilLateCancel,
     PendingUnits, CancelledLate
<1> QED
  BY <1>3, <1>4

\* Recounting, and moving paid orders along by hand, loses no reservation, for any number
\* of staff, as long as every form was still true when it was saved.
THEOREM FormsKeepReservations == AdminSpec => []ExactUntilStaleForm
<1>1. AdminInit => BackedForms
  BY OrdersStartBacked DEF AdminInit, BackedForms
<1>2. ChargedForms /\ BackedForms /\ [AdminNext]_adminVars => BackedForms'
  BY FormsStepKeepsBacked
<1>3. BackedForms => ExactUntilStaleForm
  BY DEF BackedForms, Backed, ExactUntilStaleForm
<1> QED
  BY <1>1, <1>2, <1>3, ChargedFormsInvariant, PTL DEF AdminSpec

---------------------------------------------------------------------------
(* StockLocks: the loop over the rows found                                *)

\* A set of naturals that is not empty has a least member.
LEMMA LeastOf ==
  ASSUME NEW T, T \subseteq Nat, T # {}
  PROVE  \E m \in T : \A k \in T : m <= k
<1> DEFINE Below == OpToRel(<, Nat)
<1>1. IsWellFoundedOn(Below, Nat)
  BY NatLessThanWellFounded
<1>2. \A m, k \in Nat : k < m => <<k, m>> \in Below
  BY DEF OpToRel
<1> HIDE DEF Below
<1>3. PICK m \in T : \A k \in T : ~(<<k, m>> \in Below)
  BY <1>1, WFMin
<1>4. \A k \in T : ~(k < m)
  BY <1>2, <1>3
<1>5. \A k \in T : k \in Nat /\ m \in Nat
  BY <1>3
<1> QED
  BY <1>3, <1>4, <1>5

\* What remains of q units after each of n rows with the given limits.
Walked(g, limit, q, n) ==
  g = [i \in 0..n |-> IF i = 0 THEN q ELSE g[i - 1] - Least(limit[i], g[i - 1])]

\* There is such a count.
LEMMA WalkExists ==
  ASSUME NEW n \in Nat, NEW q \in Nat, NEW limit
  PROVE  \E g : Walked(g, limit, q, n)
<1> DEFINE Bad == {k \in 0..n : ~\E g : Walked(g, limit, q, k)}
<1>1. SUFFICES ASSUME Bad # {}
               PROVE  FALSE
  <2>1. n \in 0..n
    OBVIOUS
  <2> QED
    BY <2>1
<1>2. PICK m \in Bad : \A k \in Bad : m <= k
  <2>1. Bad \subseteq Nat
    OBVIOUS
  <2> HIDE DEF Bad
  <2> QED
    BY <1>1, <2>1, LeastOf
<1>3. m \in 0..n /\ m \in Nat
  BY <1>2
<1>4. m # 0
  <2> DEFINE g == [i \in 0..0 |-> q]
  <2>1. g = [i \in 0..0 |-> IF i = 0 THEN q ELSE g[i - 1] - Least(limit[i], g[i - 1])]
    OBVIOUS
  <2>2. Walked(g, limit, q, 0)
    BY <2>1 DEF Walked
  <2> QED
    BY <1>2, <2>2
<1>5. m - 1 \in 0..n /\ ~(m <= m - 1)
  BY <1>3, <1>4
<1>6. m - 1 \notin Bad
  BY <1>2, <1>5
<1>7. PICK h : Walked(h, limit, q, m - 1)
  BY <1>5, <1>6
<1> DEFINE g == [i \in 0..m |-> IF i = m THEN h[m - 1] - Least(limit[m], h[m - 1]) ELSE h[i]]
<1>8. h = [i \in 0..(m - 1) |-> IF i = 0 THEN q ELSE h[i - 1] - Least(limit[i], h[i - 1])]
  BY <1>7 DEF Walked
<1>9. \A i \in 0..m : g[i] = IF i = 0 THEN q ELSE g[i - 1] - Least(limit[i], g[i - 1])
  <2> TAKE i \in 0..m
  <2>1. CASE i = m
    <3>1. m - 1 \in 0..m /\ m - 1 # m
      BY <1>3, <1>4
    <3>2. g[m - 1] = h[m - 1] /\ g[m] = h[m - 1] - Least(limit[m], h[m - 1])
      BY <1>3, <3>1
    <3> QED
      BY <1>4, <2>1, <3>2
  <2>2. CASE i # m
    <3>1. i \in 0..(m - 1) /\ (i # 0 => i - 1 \in 0..m /\ i - 1 # m)
      BY <1>3, <2>2
    <3>2. g[i] = h[i] /\ (i # 0 => g[i - 1] = h[i - 1])
      BY <2>2, <3>1
    <3>3. h[i] = IF i = 0 THEN q ELSE h[i - 1] - Least(limit[i], h[i - 1])
      BY <1>8, <3>1
    <3> QED
      BY <3>2, <3>3
  <2> QED
    BY <2>1, <2>2
<1>10. g = [i \in 0..m |-> IF i = 0 THEN q ELSE g[i - 1] - Least(limit[i], g[i - 1])]
  BY <1>9
<1>11. Walked(g, limit, q, m)
  BY <1>10 DEF Walked
<1> QED
  BY <1>2, <1>11

\* The same, with the limits natural numbers.
WalkOver(g, limit, q, n) ==
  n \in Nat /\ q \in Nat /\ limit \in [1..n -> Nat] /\ Walked(g, limit, q, n)

\* It goes down from q, by no more than the limit of each row.
GoesDown(g, limit, q, n) ==
  /\ g[0] = q
  /\ \A i \in 0..n : g[i] \in 0..q
  /\ \A i \in 1..n : g[i] = g[i - 1] - Least(limit[i], g[i - 1])

\* It does, whatever the limits.
LEMMA WalkFacts ==
  ASSUME NEW n, NEW q, NEW limit, NEW g, WalkOver(g, limit, q, n)
  PROVE  GoesDown(g, limit, q, n)
<1>0. n \in Nat /\ q \in Nat /\ limit \in [1..n -> Nat] /\ Walked(g, limit, q, n)
  BY DEF WalkOver
<1>1. g = [i \in 0..n |-> IF i = 0 THEN q ELSE g[i - 1] - Least(limit[i], g[i - 1])]
  BY <1>0 DEF Walked
<1>2. g[0] = q
  BY <1>0, <1>1
<1>3. \A i \in 1..n : g[i] = g[i - 1] - Least(limit[i], g[i - 1])
  BY <1>0, <1>1
<1> DEFINE Bad == {i \in 0..n : g[i] \notin 0..q}
<1>4. SUFFICES ASSUME Bad # {}
               PROVE  FALSE
  BY <1>2, <1>3 DEF GoesDown
<1>5. PICK m \in Bad : \A k \in Bad : m <= k
  <2>1. Bad \subseteq Nat
    OBVIOUS
  <2> HIDE DEF Bad
  <2> QED
    BY <1>4, <2>1, LeastOf
<1>6. m # 0 /\ m \in 1..n
  BY <1>0, <1>2, <1>5
<1>7. m - 1 \in 0..n /\ ~(m <= m - 1)
  BY <1>0, <1>6
<1>8. g[m - 1] \in 0..q
  BY <1>5, <1>7
<1>9. limit[m] \in Nat /\ g[m] = g[m - 1] - Least(limit[m], g[m - 1])
  BY <1>0, <1>3, <1>6
<1>10. g[m] \in 0..q
  BY <1>0, <1>8, <1>9 DEF Least
<1> QED
  BY <1>5, <1>10

\* What remains at the end, remained after every row.
LEMMA WalkGoesDown ==
  ASSUME NEW n, NEW q, NEW limit, NEW g, WalkOver(g, limit, q, n)
  PROVE  \A i \in 0..n : g[n] <= g[i]
<1>0. n \in Nat /\ q \in Nat /\ limit \in [1..n -> Nat]
  BY DEF WalkOver
<1>1. /\ g[0] = q /\ \A i \in 0..n : g[i] \in 0..q
      /\ \A i \in 1..n : g[i] = g[i - 1] - Least(limit[i], g[i - 1])
  BY WalkFacts DEF GoesDown
<1> DEFINE Bad == {k \in 0..n : ~(g[n] <= g[n - k])}
<1>2. Bad = {}
  <2> SUFFICES ASSUME Bad # {}
               PROVE  FALSE
    OBVIOUS
  <2>1. PICK m \in Bad : \A k \in Bad : m <= k
    <3>1. Bad \subseteq Nat
      BY <1>0
    <3> HIDE DEF Bad
    <3> QED
      BY <3>1, LeastOf
  <2>2. m # 0 /\ m \in 1..n
    <3>1. n - 0 = n /\ g[n] \in 0..q
      BY <1>0, <1>1
    <3> QED
      BY <1>0, <2>1, <3>1
  <2>3. m - 1 \in 0..n /\ ~(m <= m - 1) /\ n - m \in 0..n
        /\ n - m + 1 \in 1..n /\ n - (m - 1) = n - m + 1 /\ (n - m + 1) - 1 = n - m
    BY <1>0, <2>2
  <2>4. g[n] <= g[n - m + 1]
    BY <2>1, <2>3
  <2>5. /\ g[n - m + 1] = g[n - m] - Least(limit[n - m + 1], g[n - m])
        /\ limit[n - m + 1] \in Nat /\ g[n - m] \in 0..q /\ g[n] \in 0..q
    BY <1>0, <1>1, <2>3
  <2>6. g[n] <= g[n - m]
    BY <2>4, <2>5 DEF Least
  <2> QED
    BY <2>1, <2>6
<1>3. ASSUME NEW i \in 0..n
      PROVE  g[n] <= g[i]
  <2>1. n - i \in 0..n /\ n - (n - i) = i
    BY <1>0
  <2>2. n - i \notin Bad
    BY <1>2
  <2> QED
    BY <2>1, <2>2
<1> QED
  BY <1>3

\* No entry of the first n comes twice.
Distinct(s, n) == \A i, k \in 1..n : i < k => s[i] # s[k]

\* One row has d units more, the others as many.
OneRowMore(more, less, w, d) ==
  /\ more \in [Warehouses -> Nat] /\ less \in [Warehouses -> Nat] /\ w \in Warehouses /\ d \in Nat
  /\ more[w] = less[w] + d
  /\ \A x \in Warehouses \ {w} : more[x] = less[x]

\* Then there are d units more in all.
LEMMA RowsPlusOne ==
  ASSUME NEW more, NEW less, NEW w, NEW d, OneRowMore(more, less, w, d)
  PROVE  Total(more) = Total(less) + d
<1>1. IsFiniteSet(Warehouses)
  BY FiniteAssumption
<1> QED
  BY <1>1, TotalPlusSingle DEF OneRowMore

\* What the loop takes of each row, when it finds each row once.
TakenByWalk(g, rows, n) ==
  [w \in Warehouses |->
     IF \E i \in 1..n : rows[i] = w
     THEN LET i == CHOOSE i \in 1..n : rows[i] = w IN g[i - 1] - g[i]
     ELSE 0]

WalkTook(took, g, limit, q, n, rows) ==
  /\ \A i \in 1..n : took[rows[i]] = Least(limit[i], g[i - 1])
  /\ \A w \in Warehouses : (\A i \in 1..n : rows[i] # w) => took[w] = 0
  /\ took \in [Warehouses -> 0..q]
  /\ Total(took) = q - g[n]

\* The loop takes of each row what it may and what remains, in all what does not remain.
LEMMA WalkTakes ==
  ASSUME NEW n, NEW q, NEW limit, NEW g, NEW rows,
         WalkOver(g, limit, q, n), rows \in [1..n -> Warehouses], Distinct(rows, n)
  PROVE  WalkTook(TakenByWalk(g, rows, n), g, limit, q, n, rows)
<1>0. n \in Nat /\ q \in Nat /\ limit \in [1..n -> Nat]
  BY DEF WalkOver
<1>1. /\ g[0] = q /\ \A i \in 0..n : g[i] \in 0..q
      /\ \A i \in 1..n : g[i] = g[i - 1] - Least(limit[i], g[i - 1])
  BY WalkFacts DEF GoesDown
<1>2. \A i \in 1..n : /\ g[i - 1] \in 0..q /\ g[i] \in 0..q /\ limit[i] \in Nat
                      /\ Least(limit[i], g[i - 1]) \in 0..q
                      /\ g[i - 1] - g[i] = Least(limit[i], g[i - 1])
  <2> TAKE i \in 1..n
  <2>1. i - 1 \in 0..n /\ i \in 0..n
    BY <1>0
  <2>2. g[i - 1] \in 0..q /\ g[i] \in 0..q /\ limit[i] \in Nat
    BY <1>0, <1>1, <2>1
  <2>3. Least(limit[i], g[i - 1]) \in 0..q
    BY <1>0, <2>2 DEF Least
  <2>4. g[i] = g[i - 1] - Least(limit[i], g[i - 1])
    BY <1>0, <1>1
  <2> QED
    BY <1>0, <2>2, <2>3, <2>4
<1>3. \A i, k \in 1..n : rows[i] = rows[k] => i = k
  <2> TAKE i, k \in 1..n
  <2>1. i < k \/ k < i \/ i = k
    BY <1>0
  <2> QED
    BY <1>0, <2>1 DEF Distinct
<1> DEFINE part(k) == TakenByWalk(g, rows, k)
<1>4. ASSUME NEW k \in 0..n
      PROVE  /\ \A i \in 1..k : part(k)[rows[i]] = g[i - 1] - g[i]
             /\ \A w \in Warehouses : (\A i \in 1..k : rows[i] # w) => part(k)[w] = 0
  <2>0. 1..k \subseteq 1..n
    BY <1>0, <1>4
  <2>1. ASSUME NEW i \in 1..k
        PROVE  part(k)[rows[i]] = g[i - 1] - g[i]
    <3>1. rows[i] \in Warehouses /\ i \in 1..n
      BY <1>0, <2>0
    <3>2. (CHOOSE j \in 1..k : rows[j] = rows[i]) = i
      BY <1>0, <1>3, <2>0
    <3> QED
      BY <1>0, <3>1, <3>2 DEF TakenByWalk
  <2>2. \A w \in Warehouses : (\A i \in 1..k : rows[i] # w) => part(k)[w] = 0
    BY DEF TakenByWalk
  <2> QED
    BY <1>0, <2>1, <2>2
<1>5. ASSUME NEW k \in 0..n
      PROVE  part(k) \in [Warehouses -> 0..q]
  <2>1. 1..k \subseteq 1..n
    BY <1>0, <1>5
  <2>2. ASSUME NEW w \in Warehouses
        PROVE  part(k)[w] \in 0..q
    <3>1. CASE \E i \in 1..k : rows[i] = w
      BY <1>0, <1>2, <1>4, <2>1, <3>1
    <3>2. CASE \A i \in 1..k : rows[i] # w
      <4>1. part(k)[w] = 0
        BY <1>0, <1>4, <3>2
      <4> QED
        BY <1>0, <4>1
    <3> QED
      BY <1>0, <3>1, <3>2
  <2>3. part(k) = [w \in Warehouses |-> part(k)[w]]
    BY DEF TakenByWalk
  <2> HIDE DEF part
  <2> QED
    BY <1>0, <2>2, <2>3
<1> HIDE DEF part
<1>6. \A k \in 0..n : Total(part(k)) = q - g[k]
  <2> DEFINE Bad == {k \in 0..n : Total(part(k)) # q - g[k]}
  <2>1. SUFFICES ASSUME Bad # {}
                 PROVE  FALSE
    BY <1>0
  <2>2. PICK m \in Bad : \A k \in Bad : m <= k
    <3>1. Bad \subseteq Nat
      BY <1>0
    <3> HIDE DEF Bad
    <3> QED
      BY <1>0, <2>1, <3>1, LeastOf
  <2>3. m # 0
    <3>1. \A w \in Warehouses : part(0)[w] = 0
      BY <1>0, <1>4
    <3>2. part(0) \in [Warehouses -> Nat]
      <4>1. part(0) \in [Warehouses -> 0..q]
        BY <1>0, <1>5
      <4> QED
        BY <1>0, <4>1
    <3>5. Total(part(0)) = 0
      <4> HIDE DEF Bad
      <4> QED
        BY <1>0, <3>1, <3>2, FiniteAssumption, TotalOfNothing
    <3> QED
      BY <1>0, <1>1, <2>2, <3>5
  <2>4. m \in 1..n /\ m - 1 \in 0..n /\ ~(m <= m - 1) /\ m \in 0..n
    BY <1>0, <2>2, <2>3
  <2>5. Total(part(m - 1)) = q - g[m - 1]
    BY <1>0, <2>2, <2>4
  <2>6. /\ part(m) \in [Warehouses -> Nat] /\ part(m - 1) \in [Warehouses -> Nat]
    <3>1. part(m) \in [Warehouses -> 0..q] /\ part(m - 1) \in [Warehouses -> 0..q]
      BY <1>0, <1>5, <2>4
    <3> QED
      BY <1>0, <3>1
  <2>7. rows[m] \in Warehouses /\ m \in 1..m /\ \A i \in 1..(m - 1) : i \in 1..m /\ i \in 1..n /\ i < m
    BY <1>0, <2>4
  <2>8. part(m - 1)[rows[m]] = 0
    <3>1. \A i \in 1..(m - 1) : rows[i] # rows[m]
      BY <1>0, <1>3, <2>4, <2>7
    <3> HIDE DEF Bad
    <3> QED
      BY <1>0, <1>4, <2>4, <2>7, <3>1
  <2>9. part(m)[rows[m]] = g[m - 1] - g[m]
    BY <1>0, <1>4, <2>4, <2>7
  <2>10. \A w \in Warehouses \ {rows[m]} : part(m)[w] = part(m - 1)[w]
    <3> TAKE w \in Warehouses \ {rows[m]}
    <3>1. CASE \E i \in 1..(m - 1) : rows[i] = w
      BY <1>0, <1>4, <2>4, <2>7, <3>1
    <3>2. CASE ~\E i \in 1..(m - 1) : rows[i] = w
      <4>1. \A i \in 1..m : i = m \/ i \in 1..(m - 1)
        BY <1>0, <2>4
      <4>2. \A i \in 1..m : rows[i] # w
        BY <1>0, <3>2, <4>1
      <4>3. part(m)[w] = 0
        BY <1>0, <1>4, <2>4, <4>2
      <4>4. part(m - 1)[w] = 0
        <5>1. \A i \in 1..(m - 1) : rows[i] # w
          BY <1>0, <3>2
        <5> QED
          BY <1>0, <1>4, <2>4, <5>1
      <4> QED
        BY <1>0, <4>3, <4>4
    <3> QED
      BY <1>0, <3>1, <3>2
  <2>11. g[m - 1] - g[m] \in Nat /\ g[m] \in 0..q /\ g[m - 1] \in 0..q
    BY <1>0, <1>2, <2>4
  <2>12. part(m)[rows[m]] = part(m - 1)[rows[m]] + (g[m - 1] - g[m])
    BY <1>0, <2>8, <2>9, <2>11
  <2>13. Total(part(m)) = Total(part(m - 1)) + (g[m - 1] - g[m])
    <3>1. OneRowMore(part(m), part(m - 1), rows[m], g[m - 1] - g[m])
      BY <1>0, <2>6, <2>7, <2>10, <2>11, <2>12 DEF OneRowMore
    <3> QED
      BY <1>0, <3>1, RowsPlusOne
  <2>14. Total(part(m)) = q - g[m]
    BY <1>0, <2>5, <2>11, <2>13
  <2> QED
    BY <1>0, <2>2, <2>14
<1>7. n \in 0..n
  BY <1>0
<1> QED
  BY <1>0, <1>2, <1>4, <1>5, <1>6, <1>7 DEF part, WalkTook

---------------------------------------------------------------------------
(* Calls and what they have locked                                         *)

\* The items of an order.
Items(c) == {v \in Variants : Wanted[c][v] > 0}

\* The lock that decides whether the row of a warehouse is returned.
Deciding(j, v, w) == IF j = "checkout" THEN WarehouseRow(w) ELSE StockRow(v, w)

Awaited(c, lock) == \E k \in 1..Len(waits[c]) : waits[c][k] = lock
Returned(c, w) == \E i \in 1..Len(found[c]) : found[c][i] = w

LocksTyped ==
  /\ InventoryTypeOK
  /\ life \in [Customers -> {"unplaced", "pending", "paid", "cancelled"}]
  /\ job \in [Customers -> {"none", "checkout", "pay", "cancel"}]
  /\ todo \in [Customers -> SUBSET Variants]
  /\ line \in [Customers -> Variants \cup {NoLine}]
  /\ waits \in [Customers -> Seq(Locks)]
  /\ found \in [Customers -> Seq(Warehouses)]
  /\ holds \in [Customers -> SUBSET Locks]
  /\ taken \in [Customers -> Takes]
  /\ disturbed \in [Customers -> BOOLEAN]

\* A call is about an order it applies to, and one of its items at a time.
CallFits(c) ==
  /\ job[c] = "none" => todo[c] = {} /\ line[c] = NoLine /\ holds[c] = {}
  /\ line[c] = NoLine => waits[c] = <<>> /\ found[c] = <<>>
  /\ job[c] = "checkout" => life[c] = "unplaced"
  /\ job[c] \in {"pay", "cancel"} => life[c] = "pending"
  /\ todo[c] \subseteq Items(c) /\ line[c] \in Items(c) \cup {NoLine} /\ line[c] \notin todo[c]

\* No lock is held twice.
LocksApart ==
  \A c, other \in Customers : \A lock \in holds[c] : c # other => lock \notin holds[other]

\* A statement waits for each of its locks once, for a stock row before its warehouse.
WaitsInOrder(c) ==
  /\ Distinct(waits[c], Len(waits[c]))
  /\ \A i \in 1..Len(waits[c]) : \E w \in Warehouses :
       \/ waits[c][i] = StockRow(line[c], w)
       \/ job[c] = "checkout" /\ waits[c][i] = WarehouseRow(w)
  /\ \A i \in 1..Len(waits[c]), w \in Warehouses :
       waits[c][i] = WarehouseRow(w) =>
         \/ StockRow(line[c], w) \in holds[c]
         \/ i > 1 /\ waits[c][i - 1] = StockRow(line[c], w)

\* The rows returned are locked, each once; those of a checkout are active.
FoundRight(c) ==
  /\ Distinct(found[c], Len(found[c]))
  /\ \A i \in 1..Len(found[c]) :
       /\ StockRow(line[c], found[c][i]) \in holds[c]
       /\ job[c] = "checkout" => WarehouseRow(found[c][i]) \in holds[c] /\ active[found[c][i]]
       /\ ~Awaited(c, Deciding(job[c], line[c], found[c][i]))

\* What a call took for an item it is done with: the quantity of the item, from
\* rows it has locked, which still hold it.
TookOf(c, v) ==
  /\ Total(taken[c][v]) <= Wanted[c][v]
  /\ job[c] # "cancel" => Total(taken[c][v]) = Wanted[c][v]
  /\ \A w \in Warehouses : taken[c][v][w] > 0 =>
       /\ StockRow(v, w) \in holds[c] /\ taken[c][v][w] <= RowLimit(job[c], v, w)
       /\ job[c] = "checkout" => WarehouseRow(w) \in holds[c] /\ active[w]

Done(c, v) == job[c] # "none" /\ v \notin todo[c] /\ v # line[c]

TakenRight(c) ==
  \A v \in Variants : IF Done(c, v) THEN TookOf(c, v) ELSE \A w \in Warehouses : taken[c][v][w] = 0

\* The units reserved are enough for the orders that wait.
DueUnits(v) == [c \in Customers |-> IF life[c] = "pending" THEN Wanted[c][v] ELSE 0]

DueReserved == \A v \in Variants : Total(DueUnits(v)) <= Total(reserved[v])

\* A statement that was not disturbed has found, or waits for, every row of its item
\* that has units reserved.
MissesNone(c) ==
  job[c] \in {"pay", "cancel"} /\ line[c] # NoLine /\ ~disturbed[c] =>
    \A w \in Warehouses :
      reserved[line[c]][w] > 0 => Returned(c, w) \/ Awaited(c, StockRow(line[c], w))

\* The invariant behind all theorems about StockLocks.
LocksOK ==
  /\ LocksTyped
  /\ LocksApart /\ Covered /\ DueReserved
  /\ \A c \in Customers :
       CallFits(c) /\ WaitsInOrder(c) /\ FoundRight(c) /\ TakenRight(c) /\ MissesNone(c)

\* The limits of the loop are natural numbers.
LEMMA RowLimitType ==
  ASSUME NEW j, NEW v, NEW w, InventoryTypeOK, j \in {"checkout", "pay", "cancel"},
         v \in Variants, w \in Warehouses
  PROVE  /\ RowLimit(j, v, w) \in Nat
         /\ reserved[v][w] \in Nat /\ on_hand[v][w] \in Nat /\ SafetyBuffer[v][w] \in Nat
<1>1. reserved[v][w] \in Nat /\ on_hand[v][w] \in Nat /\ SafetyBuffer[v][w] \in Nat
  BY RowsAssumption DEF InventoryTypeOK, Rows
<1>2. Available(v, w) \in Nat
  BY <1>1 DEF Available, AtLeastZero
<1>3. Committable(v)[w] \in Nat
  BY <1>1 DEF Committable, Least
<1> QED
  BY <1>1, <1>2, <1>3 DEF RowLimit

\* "remaining" of a statement that has its rows.
LEMMA RemainingIsWalked ==
  ASSUME LocksTyped, NEW c \in Customers, line[c] # NoLine, job[c] # "none"
  PROVE  LET n == Len(found[c])
             limit == [i \in 1..n |-> RowLimit(job[c], line[c], found[c][i])]
         IN  /\ Wanted[c][line[c]] \in 0..MaxQuantity
             /\ found[c] \in [1..n -> Warehouses]
             /\ WalkOver(Remaining(c), limit, Wanted[c][line[c]], n)
<1> DEFINE n == Len(found[c])
           q == Wanted[c][line[c]]
           limit == [i \in 1..n |-> RowLimit(job[c], line[c], found[c][i])]
<1>1. found[c] \in Seq(Warehouses) /\ line[c] \in Variants /\ job[c] \in {"checkout", "pay", "cancel"}
  BY DEF LocksTyped
<1>2. n \in Nat /\ found[c] \in [1..n -> Warehouses]
  BY <1>1, LenProperties
<1>3. q \in 0..MaxQuantity /\ MaxQuantity \in Nat
  BY <1>1, WantedAssumption, BasketsAssumption
<1>4. limit \in [1..n -> Nat]
  BY <1>1, <1>2, RowLimitType DEF LocksTyped
<1>5. PICK g : Walked(g, limit, q, n)
  <2>1. q \in Nat
    BY <1>3
  <2> HIDE DEF n, q, limit
  <2> QED
    BY <1>2, <2>1, WalkExists
<1>6. \A h : h = [i \in 0..n |-> IF i = 0 THEN q
                   ELSE h[i - 1] - Least(RowLimit(job[c], line[c], found[c][i]), h[i - 1])]
             <=> Walked(h, limit, q, n)
  <2> TAKE h
  <2>1. \A i \in 0..n : i # 0 => limit[i] = RowLimit(job[c], line[c], found[c][i])
    BY <1>2
  <2>2. [i \in 0..n |-> IF i = 0 THEN q ELSE h[i - 1] - Least(limit[i], h[i - 1])]
          = [i \in 0..n |-> IF i = 0 THEN q
               ELSE h[i - 1] - Least(RowLimit(job[c], line[c], found[c][i]), h[i - 1])]
    BY <2>1
  <2> HIDE DEF n, q, limit
  <2> QED
    BY <2>2 DEF Walked
<1>7. Remaining(c) = CHOOSE h : h = [i \in 0..n |-> IF i = 0 THEN q
                   ELSE h[i - 1] - Least(RowLimit(job[c], line[c], found[c][i]), h[i - 1])]
  BY DEF Remaining
<1>8. Walked(Remaining(c), limit, q, n)
  <2> HIDE DEF n, q, limit
  <2> QED
    BY <1>5, <1>6, <1>7
<1> QED
  BY <1>2, <1>3, <1>4, <1>8 DEF WalkOver

\* The units of one order that waits are among those reserved.
LEMMA DueOfOne ==
  ASSUME LocksOK, NEW c \in Customers, NEW v \in Variants, life[c] = "pending"
  PROVE  Wanted[c][v] <= Total(reserved[v])
<1> DEFINE q == Wanted[c][v]
           one == [x \in Customers |-> IF x = c THEN q ELSE 0]
<1>1. IsFiniteSet(Customers) /\ \A x \in Customers : Wanted[x][v] \in Nat
  BY WantedAssumption, BasketsAssumption
<1>2. DueUnits(v) \in [Customers -> Nat] /\ one \in [Customers -> Nat]
  BY <1>1 DEF DueUnits
<1>3. \A x \in Customers : one[x] <= DueUnits(v)[x]
  BY <1>1 DEF DueUnits
<1>4. q \in Nat
  BY <1>1
<1>5. Total(one) = q
  BY <1>1, <1>4, TotalSingle
<1>6. Total(one) <= Total(DueUnits(v))
  <2> HIDE DEF one
  <2> QED
    BY <1>1, <1>2, <1>3, TotalMonotone
<1>7. Total(DueUnits(v)) \in Nat
  BY <1>1, <1>2, TotalType
<1>8. Total(reserved[v]) \in Nat
  BY FiniteAssumption, TotalType DEF LocksOK, LocksTyped, InventoryTypeOK, Rows
<1>9. Total(DueUnits(v)) <= Total(reserved[v])
  BY DEF LocksOK, DueReserved
<1> HIDE DEF one, q
<1>10. q <= Total(reserved[v])
  BY <1>4, <1>5, <1>6, <1>7, <1>8, <1>9
<1> QED
  BY <1>10 DEF q

\* Rows found by a statement that was not disturbed hold what its order reserved.
LEMMA UndisturbedSuffice ==
  ASSUME LocksOK, NEW c \in Customers, job[c] \in {"pay", "cancel"}, line[c] # NoLine,
         waits[c] = <<>>, ~disturbed[c]
  PROVE  Remaining(c)[Len(found[c])] = 0
<1> DEFINE n == Len(found[c])
           v == line[c]
           q == Wanted[c][v]
           limit == [i \in 1..n |-> RowLimit(job[c], v, found[c][i])]
           g == Remaining(c)
           took == TakenByWalk(g, found[c], n)
<1>1. LocksTyped /\ job[c] # "none" /\ v \in Variants
  BY DEF LocksOK, LocksTyped
<1>2. /\ q \in 0..MaxQuantity /\ found[c] \in [1..n -> Warehouses] /\ WalkOver(g, limit, q, n)
  BY <1>1, RemainingIsWalked
<1>3. n \in Nat /\ q \in Nat /\ limit \in [1..n -> Nat]
  BY <1>2 DEF WalkOver
<1>4. Distinct(found[c], n)
  BY DEF LocksOK, FoundRight
<1>5. \A i \in 1..n : limit[i] = reserved[v][found[c][i]]
  <2> TAKE i \in 1..n
  <2>1. found[c][i] \in Warehouses
    BY <1>2
  <2>2. /\ reserved[v][found[c][i]] \in Nat /\ on_hand[v][found[c][i]] \in Nat
        /\ reserved[v][found[c][i]] <= on_hand[v][found[c][i]]
    BY <1>1, <2>1 DEF LocksOK, LocksTyped, InventoryTypeOK, Rows, Covered
  <2>3. Committable(v)[found[c][i]] = reserved[v][found[c][i]]
    BY <2>1, <2>2 DEF Committable, Least
  <2> QED
    BY <2>3 DEF RowLimit
<1>6. \A w \in Warehouses : (\A i \in 1..n : found[c][i] # w) => reserved[v][w] = 0
  <2> TAKE w \in Warehouses
  <2>1. ~Awaited(c, StockRow(v, w))
    BY DEF Awaited
  <2>2. reserved[v][w] \in Nat
    BY <1>1 DEF LocksTyped, InventoryTypeOK, Rows
  <2>3. reserved[v][w] > 0 => Returned(c, w)
    BY <2>1 DEF LocksOK, MissesNone
  <2> QED
    BY <2>2, <2>3 DEF Returned
<1>7. q <= Total(reserved[v])
  <2>1. life[c] = "pending"
    BY DEF LocksOK, CallFits
  <2> QED
    BY <1>1, <2>1, DueOfOne
<1>8. reserved[v] \in [Warehouses -> Nat]
  BY <1>1 DEF LocksTyped, InventoryTypeOK, Rows
<1> HIDE DEF n, v, q, limit, g
<1>9. /\ \A i \in 1..n : took[found[c][i]] = Least(limit[i], g[i - 1])
      /\ \A w \in Warehouses : (\A i \in 1..n : found[c][i] # w) => took[w] = 0
      /\ took \in [Warehouses -> 0..q]
      /\ Total(took) = q - g[n]
  BY <1>2, <1>4, WalkTakes DEF WalkTook
<1>10. /\ \A i \in 0..n : g[i] \in 0..q
       /\ \A i \in 1..n : g[i] = g[i - 1] - Least(limit[i], g[i - 1])
       /\ \A i \in 0..n : g[n] <= g[i]
  BY <1>2, WalkFacts, WalkGoesDown DEF GoesDown
<1> HIDE DEF took
<1>11. SUFFICES ASSUME g[n] # 0
                PROVE  FALSE
  BY DEF g, n
<1>12. g[n] \in Nat /\ g[n] > 0
  BY <1>3, <1>10, <1>11
<1>13. \A w \in Warehouses : reserved[v][w] <= took[w]
  <2> TAKE w \in Warehouses
  <2>1. CASE \A i \in 1..n : found[c][i] # w
    BY <1>6, <1>9, <2>1
  <2>2. ASSUME NEW i \in 1..n, found[c][i] = w
        PROVE  reserved[v][w] <= took[w]
    <3>1. i - 1 \in 0..n /\ i \in 0..n
      BY <1>3
    <3>2. g[i] > 0 /\ g[i] \in 0..q /\ g[i - 1] \in 0..q /\ limit[i] \in Nat
      BY <1>3, <1>10, <1>12, <3>1
    <3>3. g[i] = g[i - 1] - Least(limit[i], g[i - 1])
      BY <1>10
    <3>4. Least(limit[i], g[i - 1]) = limit[i]
      BY <3>2, <3>3 DEF Least
    <3>5. took[w] = limit[i] /\ reserved[v][w] = limit[i]
      BY <1>5, <1>9, <2>2, <3>4
    <3> QED
      BY <3>2, <3>5
  <2> QED
    BY <2>1, <2>2
<1>14. took \in [Warehouses -> Nat]
  BY <1>9
<1>15. Total(reserved[v]) <= Total(took)
  BY <1>8, <1>13, <1>14, FiniteAssumption, TotalMonotone
<1>16. Total(reserved[v]) \in Nat
  BY <1>8, FiniteAssumption, TotalType
<1>17. Total(took) = q - g[n]
  BY <1>9
<1> QED
  BY <1>3, <1>7, <1>12, <1>15, <1>16, <1>17

\* Locks say what they lock.
LEMMA LockFacts ==
  /\ \A v, w : StockRow(v, w)[1] = "stock" /\ StockRow(v, w)[Len(StockRow(v, w))] = w
  /\ \A w : WarehouseRow(w)[1] = "warehouse" /\ WarehouseRow(w)[Len(WarehouseRow(w))] = w
  /\ \A v1, w1, v2, w2 : StockRow(v1, w1) = StockRow(v2, w2) => v1 = v2 /\ w1 = w2
  /\ \A w1, w2 : WarehouseRow(w1) = WarehouseRow(w2) => w1 = w2
  /\ \A v, w1, w2 : StockRow(v, w1) # WarehouseRow(w2)
  /\ \A v \in Variants, w \in Warehouses : StockRow(v, w) \in Locks
  /\ \A w \in Warehouses : WarehouseRow(w) \in Locks
<1>1. \A v, w : StockRow(v, w)[1] = "stock" /\ StockRow(v, w)[Len(StockRow(v, w))] = w
  BY DEF StockRow
<1>2. \A w : WarehouseRow(w)[1] = "warehouse" /\ WarehouseRow(w)[Len(WarehouseRow(w))] = w
  BY DEF WarehouseRow
<1>3. \A v1, w1, v2, w2 : StockRow(v1, w1) = StockRow(v2, w2) => v1 = v2 /\ w1 = w2
  BY DEF StockRow
<1>4. \A w1, w2 : WarehouseRow(w1) = WarehouseRow(w2) => w1 = w2
  BY DEF WarehouseRow
<1>5. \A v, w1, w2 : StockRow(v, w1) # WarehouseRow(w2)
  BY <1>1, <1>2
<1>6. /\ \A v \in Variants, w \in Warehouses : StockRow(v, w) \in Locks
      /\ \A w \in Warehouses : WarehouseRow(w) \in Locks
  BY DEF Locks
<1> QED
  BY <1>1, <1>2, <1>3, <1>4, <1>5, <1>6

\* What the invariant says of one customer.
CallOK(c) == CallFits(c) /\ WaitsInOrder(c) /\ FoundRight(c) /\ TakenRight(c) /\ MissesNone(c)

\* A call that a step has nothing to do with.
SameCall(c) ==
  /\ life'[c] = life[c] /\ job'[c] = job[c] /\ todo'[c] = todo[c] /\ line'[c] = line[c]
  /\ waits'[c] = waits[c] /\ found'[c] = found[c] /\ holds'[c] = holds[c]
  /\ taken'[c] = taken[c] /\ disturbed'[c] = disturbed[c]

\* It stays as it was, if the stock does.
LEMMA CallStays ==
  ASSUME NEW c \in Customers, CallOK(c), SameCall(c), UNCHANGED stock
  PROVE  CallOK(c)'
<1>1. on_hand' = on_hand /\ reserved' = reserved /\ active' = active
  BY DEF stock
<1>2. \A lock : Awaited(c, lock)' <=> Awaited(c, lock)
  BY DEF Awaited, SameCall
<1>3. \A w : Returned(c, w)' <=> Returned(c, w)
  BY DEF Returned, SameCall
<1>4. \A j, v, w : RowLimit(j, v, w)' = RowLimit(j, v, w)
  BY <1>1 DEF RowLimit, Available, Committable
<1>5. \A v : Done(c, v)' <=> Done(c, v)
  BY DEF Done, SameCall
<1>6. CallFits(c)'
  BY DEF CallOK, CallFits, SameCall
<1>7. WaitsInOrder(c)'
  BY DEF CallOK, WaitsInOrder, SameCall
<1>8. FoundRight(c)'
  BY <1>1, <1>2 DEF CallOK, FoundRight, SameCall
<1>9. \A v \in Variants : TookOf(c, v) => TookOf(c, v)'
  BY <1>1, <1>4 DEF TookOf, SameCall
<1>10. TakenRight(c)'
  BY <1>5, <1>9 DEF CallOK, TakenRight, SameCall
<1>11. MissesNone(c)'
  BY <1>1, <1>2, <1>3 DEF CallOK, MissesNone, SameCall
<1> QED
  BY <1>6, <1>7, <1>8, <1>10, <1>11 DEF CallOK

---------------------------------------------------------------------------
(* The steps of a call                                                     *)

\* A call starts: nothing is taken, of no item.
LEMMA CallKeepsLocks ==
  ASSUME LocksOK, NEW c \in Customers, NEW j \in {"checkout", "pay", "cancel"}, Call(c, j)
  PROVE  LocksOK'
<1>1. /\ job[c] = "none" /\ life[c] = IF j = "checkout" THEN "unplaced" ELSE "pending"
      /\ job' = [job EXCEPT ![c] = j] /\ todo' = [todo EXCEPT ![c] = Items(c)]
      /\ UNCHANGED stock /\ life' = life /\ line' = line /\ waits' = waits /\ found' = found
      /\ holds' = holds /\ taken' = taken /\ disturbed' = disturbed
  BY DEF Call, Items
<1>2. LocksTyped /\ LocksApart /\ Covered /\ DueReserved /\ \A x \in Customers : CallOK(x)
  BY DEF LocksOK, CallOK
<1>3. on_hand' = on_hand /\ reserved' = reserved /\ active' = active /\ moved' = moved
  BY <1>1 DEF stock
<1>4. LocksTyped'
  BY <1>1, <1>2, <1>3 DEF LocksTyped, InventoryTypeOK, Items
<1>5. LocksApart' /\ Covered'
  BY <1>1, <1>2, <1>3 DEF LocksApart, Covered
<1>6. DueReserved'
  <2>1. \A v : DueUnits(v)' = DueUnits(v)
    BY <1>1 DEF DueUnits
  <2> QED
    BY <1>2, <1>3, <2>1 DEF DueReserved
<1>7. ASSUME NEW x \in Customers, x # c
      PROVE  CallOK(x)'
  <2>1. SameCall(x)
    BY <1>1, <1>2, <1>7 DEF SameCall, LocksTyped
  <2> QED
    BY <1>1, <1>2, <2>1, CallStays
<1>8. /\ job'[c] = j /\ todo'[c] = Items(c) /\ line[c] = NoLine /\ waits[c] = <<>> /\ found[c] = <<>>
      /\ holds[c] = {}
  BY <1>1, <1>2 DEF LocksTyped, CallOK, CallFits
<1>9. CallFits(c)'
  <2>1. NoLine \notin Items(c)
    BY WantedAssumption DEF Items
  <2> QED
    BY <1>1, <1>8, <2>1 DEF CallFits, Items
<1>10. WaitsInOrder(c)' /\ FoundRight(c)' /\ MissesNone(c)'
  BY <1>1, <1>8 DEF WaitsInOrder, FoundRight, MissesNone, Distinct
<1>11. TakenRight(c)'
  <2> SUFFICES ASSUME NEW v \in Variants
               PROVE  IF Done(c, v)' THEN TookOf(c, v)' ELSE \A w \in Warehouses : taken[c][v][w] = 0
    BY <1>1 DEF TakenRight
  <2>1. \A w \in Warehouses : taken[c][v][w] = 0
    BY <1>1, <1>2 DEF CallOK, TakenRight, Done
  <2>2. taken[c][v] \in [Warehouses -> Nat]
    BY <1>2, BasketsAssumption DEF LocksTyped, Takes
  <2>3. Total(taken[c][v]) = 0
    BY <2>1, <2>2, FiniteAssumption, TotalOfNothing
  <2>4. Done(c, v)' => Wanted[c][v] = 0
    <3>1. Wanted[c][v] \in Nat
      BY WantedAssumption, BasketsAssumption
    <3> QED
      BY <1>8, <3>1 DEF Done, Items
  <2>5. Done(c, v)' => TookOf(c, v)'
    BY <1>1, <2>1, <2>3, <2>4 DEF TookOf
  <2> QED
    BY <2>1, <2>5
<1> QED
  BY <1>4, <1>5, <1>6, <1>7, <1>9, <1>10, <1>11 DEF LocksOK, CallOK

\* A list by rank names every warehouse of its set once.
ListsAll(s, ws, n) ==
  /\ n \in Nat /\ s \in [1..n -> ws] /\ s \in Seq(Warehouses) /\ Len(s) = n
  /\ Distinct(s, n)
  /\ \A w \in ws : \E i \in 1..n : s[i] = w

\* The sequences that ByRank allows do (order_by in the SELECT ... FOR UPDATE).
LEMMA ByRankLists ==
  ASSUME NEW ws, NEW rank, NEW s, ws \subseteq Warehouses, s \in ByRank(ws, rank)
  PROVE  ListsAll(s, ws, Cardinality(ws))
<1> DEFINE n == Cardinality(ws)
<1>1. IsFiniteSet(ws) /\ n \in Nat
  BY FiniteAssumption, FS_Subset, FS_CardinalityType
<1>2. s \in [1..n -> ws] /\ \A i, k \in 1..n : i < k => s[i] # s[k]
  BY DEF ByRank
<1>3. IsFiniteSet(1..n) /\ Cardinality(1..n) = n
  <2>1. 1 \in Int /\ n \in Int
    BY <1>1
  <2>2. Cardinality(1..n) = IF 1 > n THEN 0 ELSE n - 1 + 1
    BY <2>1, FS_Interval
  <2>3. CASE n = 0
    BY <1>1, <2>1, <2>2, <2>3, FS_Interval
  <2>4. CASE n # 0
    BY <1>1, <2>1, <2>2, <2>4, FS_Interval
  <2> QED
    BY <2>3, <2>4
<1> HIDE DEF n
<1>4. \A i, k \in 1..n : s[i] = s[k] => i = k
  <2> TAKE i, k \in 1..n
  <2>1. i < k \/ k < i \/ i = k
    BY <1>1
  <2> QED
    BY <1>2, <2>1
<1>5. s \in Injection(1..n, ws)
  BY <1>2, <1>4 DEF Injection, IsInjective
<1>6. s \in Surjection(1..n, ws)
  BY <1>1, <1>3, <1>5, FS_Injection DEF n
<1>7. \A w \in ws : \E i \in 1..n : s[i] = w
  BY <1>6 DEF Surjection
<1>8. s \in Seq(Warehouses)
  <2>1. s \in [1..n -> Warehouses]
    BY <1>2
  <2> QED
    BY <1>1, <2>1, SeqDef
<1>9. Len(s) = n
  <2>1. DOMAIN s = 1..n
    BY <1>2
  <2>2. Len(s) \in Nat /\ DOMAIN s = 1..Len(s)
    BY <1>8, LenProperties
  <2> QED
    BY <1>1, <2>1, <2>2
<1> QED
  BY <1>1, <1>2, <1>7, <1>8, <1>9 DEF ListsAll, Distinct, n

\* The locks of a statement.
LocksListed(locks, j, v, ws) ==
  /\ locks \in Seq(Locks)
  /\ Distinct(locks, Len(locks))
  /\ \A i \in 1..Len(locks) : \E w \in ws :
       \/ locks[i] = StockRow(v, w)
       \/ j = "checkout" /\ locks[i] = WarehouseRow(w)
  /\ \A i \in 1..Len(locks), w \in Warehouses :
       locks[i] = WarehouseRow(w) => i > 1 /\ locks[i - 1] = StockRow(v, w)
  /\ j # "checkout" => \A w \in ws : \E i \in 1..Len(locks) : locks[i] = StockRow(v, w)

\* A function on 1..m is a sequence of m entries.
LEMMA SequenceOf ==
  ASSUME NEW m, NEW S, NEW s, m \in Nat, s \in [1..m -> S]
  PROVE  s \in Seq(S) /\ Len(s) = m
<1>1. s \in Seq(S)
  BY SeqDef
<1>2. DOMAIN s = 1..m /\ Len(s) \in Nat /\ DOMAIN s = 1..Len(s)
  BY <1>1, LenProperties
<1> QED
  BY <1>1, <1>2

\* A statement locks what it lists: a checkout the joined rows, the others stock rows.
LEMMA LocksOfLists ==
  ASSUME NEW j, NEW v \in Variants, NEW ws, NEW s, NEW n,
         ws \subseteq Warehouses, ListsAll(s, ws, n)
  PROVE  LocksListed(LocksOf(j, v, s), j, v, ws)
<1>1. /\ n \in Nat /\ s \in [1..n -> ws] /\ Len(s) = n
      /\ \A i, k \in 1..n : i < k => s[i] # s[k]
      /\ \A w \in ws : \E i \in 1..n : s[i] = w
  BY DEF ListsAll, Distinct
<1>2. CASE j # "checkout"
  <2> DEFINE locks == [i \in 1..n |-> StockRow(v, s[i])]
  <2>1. LocksOf(j, v, s) = locks
    BY <1>1, <1>2 DEF LocksOf
  <2>2. locks \in [1..n -> Locks]
    BY <1>1, LockFacts
  <2>3. locks \in Seq(Locks) /\ Len(locks) = n
    <3> HIDE DEF locks
    <3> QED
      BY <1>1, <2>2, SequenceOf
  <2>4. \A i \in 1..n : locks[i] = StockRow(v, s[i]) /\ s[i] \in ws
    BY <1>1
  <2> HIDE DEF locks
  <2>5. Distinct(locks, n)
    BY <1>1, <2>4, LockFacts DEF Distinct
  <2>6. \A i \in 1..n, w \in Warehouses : locks[i] # WarehouseRow(w)
    BY <2>4, LockFacts
  <2>7. \A w \in ws : \E i \in 1..n : locks[i] = StockRow(v, w)
    BY <1>1, <2>4
  <2> QED
    BY <2>1, <2>3, <2>4, <2>5, <2>6, <2>7 DEF LocksListed
<1>3. CASE j = "checkout"
  <2> DEFINE locks == [i \in 1..(2 * n) |->
                IF i % 2 = 1 THEN StockRow(v, s[(i + 1) \div 2]) ELSE WarehouseRow(s[i \div 2])]
             m == 2 * n
  <2>1. LocksOf(j, v, s) = locks
    BY <1>1, <1>3 DEF LocksOf
  <2>2. \A i \in 1..m : /\ i % 2 = 1 => (i + 1) \div 2 \in 1..n
                        /\ i % 2 # 1 => i \div 2 \in 1..n
    BY <1>1
  <2>3. \A i \in 1..m : /\ i % 2 = 1 => locks[i] = StockRow(v, s[(i + 1) \div 2])
                        /\ i % 2 # 1 => locks[i] = WarehouseRow(s[i \div 2])
    OBVIOUS
  <2>4. \A i \in 1..m : locks[i] \in Locks
    <3> TAKE i \in 1..m
    <3>1. CASE i % 2 = 1
      <4>1. s[(i + 1) \div 2] \in Warehouses
        BY <1>1, <2>2, <3>1
      <4> QED
        BY <2>3, <3>1, <4>1, LockFacts
    <3>2. CASE i % 2 # 1
      <4>1. s[i \div 2] \in Warehouses
        BY <1>1, <2>2, <3>2
      <4> QED
        BY <2>3, <3>2, <4>1, LockFacts
    <3> QED
      BY <3>1, <3>2
  <2>5. locks \in Seq(Locks) /\ Len(locks) = m
    <3>1. locks \in [1..m -> Locks] /\ m \in Nat
      BY <1>1, <2>4
    <3> HIDE DEF locks, m
    <3> QED
      BY <3>1, SequenceOf
  <2> HIDE DEF locks
  <2>6. Distinct(locks, m)
    <3> SUFFICES ASSUME NEW i \in 1..m, NEW k \in 1..m, i < k
                 PROVE  locks[i] # locks[k]
      BY DEF Distinct
    <3>0. \A w1, w2 : StockRow(v, w1) # WarehouseRow(w2)
      BY LockFacts
    <3>1. CASE i % 2 = 1 /\ k % 2 # 1
      BY <2>3, <3>0, <3>1
    <3>2. CASE i % 2 # 1 /\ k % 2 = 1
      BY <2>3, <3>0, <3>2
    <3>3. CASE i % 2 = 1 /\ k % 2 = 1
      <4>1. (i + 1) \div 2 < (k + 1) \div 2
        BY <1>1, <3>3
      <4>2. s[(i + 1) \div 2] # s[(k + 1) \div 2]
        BY <1>1, <2>2, <3>3, <4>1
      <4> QED
        BY <2>3, <3>3, <4>2, LockFacts
    <3>4. CASE i % 2 # 1 /\ k % 2 # 1
      <4>1. i \div 2 < k \div 2
        BY <1>1, <3>4
      <4>2. s[i \div 2] # s[k \div 2]
        BY <1>1, <2>2, <3>4, <4>1
      <4> QED
        BY <2>3, <3>4, <4>2, LockFacts
    <3> QED
      BY <3>1, <3>2, <3>3, <3>4
  <2>7. \A i \in 1..m : \E w \in ws : locks[i] = StockRow(v, w) \/ locks[i] = WarehouseRow(w)
    <3> TAKE i \in 1..m
    <3>1. CASE i % 2 = 1
      <4>1. s[(i + 1) \div 2] \in ws
        BY <1>1, <2>2, <3>1
      <4> QED
        BY <2>3, <3>1, <4>1
    <3>2. CASE i % 2 # 1
      <4>1. s[i \div 2] \in ws
        BY <1>1, <2>2, <3>2
      <4> QED
        BY <2>3, <3>2, <4>1
    <3> QED
      BY <3>1, <3>2
  <2>8. ASSUME NEW i \in 1..m, NEW w \in Warehouses, locks[i] = WarehouseRow(w)
        PROVE  i > 1 /\ locks[i - 1] = StockRow(v, w)
    <3>1. i % 2 # 1
      BY <2>3, <2>8, LockFacts
    <3>2. s[i \div 2] = w
      BY <2>3, <2>8, <3>1, LockFacts
    <3>3. i > 1 /\ i - 1 \in 1..m /\ (i - 1) % 2 = 1 /\ ((i - 1) + 1) \div 2 = i \div 2
      BY <1>1, <3>1
    <3> QED
      BY <2>3, <3>2, <3>3
  <2> QED
    BY <1>3, <2>1, <2>5, <2>6, <2>7, <2>8 DEF LocksListed
<1> QED
  BY <1>2, <1>3

\* A statement chooses its rows: of an item whose order has its units reserved, it
\* misses none.
LEMMA SelectKeepsLocks ==
  ASSUME LocksOK, NEW c \in Customers, NEW v \in Variants, SelectRows(c, v)
  PROVE  LocksOK'
<1>1. PICK s \in ByRank({w \in Warehouses : Qualifies(job[c], v, w)}, RowRank(job[c], v)) :
        waits' = [waits EXCEPT ![c] = LocksOf(job[c], v, s)]
  BY DEF SelectRows
<1> DEFINE ws == {w \in Warehouses : Qualifies(job[c], v, w)}
           locks == LocksOf(job[c], v, s)
<1>2. /\ line[c] = NoLine /\ v \in todo[c] /\ line' = [line EXCEPT ![c] = v]
      /\ todo' = [todo EXCEPT ![c] = todo[c] \ {v}]
      /\ disturbed' = [disturbed EXCEPT ![c] = FALSE]
      /\ UNCHANGED stock /\ life' = life /\ job' = job /\ found' = found /\ holds' = holds
      /\ taken' = taken
  BY DEF SelectRows
<1>3. LocksTyped /\ LocksApart /\ Covered /\ DueReserved /\ \A x \in Customers : CallOK(x)
  BY DEF LocksOK, CallOK
<1>4. on_hand' = on_hand /\ reserved' = reserved /\ active' = active /\ moved' = moved
  BY <1>2 DEF stock
<1>5. LocksListed(locks, job[c], v, ws)
  <2>1. ListsAll(s, ws, Cardinality(ws))
    BY <1>1, ByRankLists
  <2> QED
    BY <2>1, LocksOfLists
<1>6. waits' = [waits EXCEPT ![c] = locks] /\ locks \in Seq(Locks)
  BY <1>1, <1>5 DEF LocksListed
<1>7. ws \subseteq Warehouses /\ \A w \in Warehouses : Qualifies(job[c], v, w) => w \in ws
  OBVIOUS
<1> HIDE DEF locks, ws
<1>8. LocksTyped'
  BY <1>2, <1>3, <1>4, <1>6 DEF LocksTyped, InventoryTypeOK
<1>9. LocksApart' /\ Covered'
  BY <1>2, <1>3, <1>4 DEF LocksApart, Covered
<1>10. DueReserved'
  <2>1. \A u : DueUnits(u)' = DueUnits(u)
    BY <1>2 DEF DueUnits
  <2> QED
    BY <1>3, <1>4, <2>1 DEF DueReserved
<1>11. ASSUME NEW x \in Customers, x # c
       PROVE  CallOK(x)'
  <2>1. SameCall(x)
    BY <1>2, <1>3, <1>6, <1>11 DEF SameCall, LocksTyped
  <2> QED
    BY <1>2, <1>3, <2>1, CallStays
<1>12. /\ line'[c] = v /\ todo'[c] = todo[c] \ {v} /\ waits'[c] = locks /\ found'[c] = <<>>
       /\ disturbed'[c] = FALSE /\ job[c] # "none" /\ v \in Items(c) /\ v # NoLine
  <2>1. v # NoLine
    BY WantedAssumption
  <2> QED
    BY <1>2, <1>3, <1>6, <2>1 DEF LocksTyped, CallOK, CallFits
<1>13. CallFits(c)'
  BY <1>2, <1>3, <1>12 DEF CallOK, CallFits, Items
<1>14. WaitsInOrder(c)'
  BY <1>2, <1>5, <1>7, <1>12 DEF WaitsInOrder, LocksListed
<1>15. FoundRight(c)'
  BY <1>12 DEF FoundRight, Distinct
<1>16. TakenRight(c)'
  <2>1. \A u \in Variants : Done(c, u)' <=> Done(c, u)
    BY <1>2, <1>12, WantedAssumption DEF Done
  <2>2. \A j, u, w : RowLimit(j, u, w)' = RowLimit(j, u, w)
    BY <1>4 DEF RowLimit, Available, Committable
  <2>3. \A u \in Variants : TookOf(c, u) => TookOf(c, u)'
    BY <1>2, <1>4, <2>2 DEF TookOf
  <2> QED
    BY <1>2, <1>3, <2>1, <2>3 DEF CallOK, TakenRight
<1>17. MissesNone(c)'
  <2> SUFFICES ASSUME job[c] \in {"pay", "cancel"}, NEW w \in Warehouses, reserved[v][w] > 0
               PROVE  Awaited(c, StockRow(v, w))'
    BY <1>2, <1>4, <1>12 DEF MissesNone
  <2>1. w \in ws
    BY <1>7 DEF Qualifies
  <2> QED
    BY <1>5, <1>12, <2>1 DEF LocksListed, Awaited
<1> QED
  BY <1>8, <1>9, <1>10, <1>11, <1>13, <1>14, <1>15, <1>16, <1>17 DEF LocksOK, CallOK

\* A lock is granted: the row is returned if it still qualifies.
LEMMA LockKeepsLocks ==
  ASSUME LocksOK, NEW c \in Customers, Lock(c)
  PROVE  LocksOK'
<1>0. PICK all, v, j, old : all = waits[c] /\ v = line[c] /\ j = job[c] /\ old = found[c]
  OBVIOUS
<1> DEFINE lock == Head(all)
           rest == Tail(all)
           w == lock[Len(lock)]
           last == j # "checkout" \/ lock[1] = "warehouse"
           add == last /\ Qualifies(j, v, w)
<1>1. /\ all # <<>> /\ Unlocked(lock, c)
      /\ holds' = [holds EXCEPT ![c] = holds[c] \cup {lock}]
      /\ waits' = [waits EXCEPT ![c] = rest]
      /\ found' = IF add THEN [found EXCEPT ![c] = Append(old, w)] ELSE found
      /\ UNCHANGED stock /\ life' = life /\ job' = job /\ todo' = todo /\ line' = line
      /\ taken' = taken /\ disturbed' = disturbed
  BY <1>0 DEF Lock, Grant
<1>2. LocksTyped /\ LocksApart /\ Covered /\ DueReserved /\ \A x \in Customers : CallOK(x)
  BY DEF LocksOK, CallOK
<1>3. on_hand' = on_hand /\ reserved' = reserved /\ active' = active /\ moved' = moved
  BY <1>1 DEF stock
<1>4. all \in Seq(Locks) /\ old \in Seq(Warehouses)
  BY <1>0, <1>2 DEF LocksTyped
<1>5. /\ lock \in Locks /\ rest \in Seq(Locks) /\ lock = all[1] /\ Len(all) \in Nat /\ Len(all) # 0
      /\ Len(rest) = Len(all) - 1
      /\ \A i \in 1..Len(rest) : rest[i] = all[i + 1]
  BY <1>1, <1>4, HeadTailProperties
<1>6. 1 \in 1..Len(all) /\ \A i \in 1..Len(rest) : i \in Nat /\ i + 1 \in 1..Len(all)
  BY <1>5
<1>7. CallFits(c) /\ WaitsInOrder(c) /\ FoundRight(c) /\ TakenRight(c) /\ MissesNone(c)
  BY <1>2 DEF CallOK
<1>8. v \in Items(c) /\ v \in Variants /\ v # NoLine /\ j \in {"checkout", "pay", "cancel"}
  BY <1>0, <1>1, <1>2, <1>7, WantedAssumption DEF CallFits, Items, LocksTyped
<1>9. /\ \A i, k \in 1..Len(all) : i < k => all[i] # all[k]
      /\ \A i \in 1..Len(all) : \E u \in Warehouses :
           all[i] = StockRow(v, u) \/ (j = "checkout" /\ all[i] = WarehouseRow(u))
      /\ \A i \in 1..Len(all), u \in Warehouses :
           all[i] = WarehouseRow(u) =>
             StockRow(v, u) \in holds[c] \/ (i > 1 /\ all[i - 1] = StockRow(v, u))
  BY <1>0, <1>7 DEF WaitsInOrder, Distinct
<1> HIDE DEF lock, rest
<1>10. PICK w0 \in Warehouses : lock = StockRow(v, w0) \/ (j = "checkout" /\ lock = WarehouseRow(w0))
  BY <1>5, <1>6, <1>9
<1>11. /\ w = w0
       /\ lock[1] = "stock" \/ lock[1] = "warehouse"
       /\ lock[1] = "stock" <=> lock = StockRow(v, w0)
       /\ lock[1] = "warehouse" <=> lock = WarehouseRow(w0)
  BY <1>10, LockFacts
<1>12. last => lock = Deciding(j, v, w0)
  BY <1>8, <1>10, <1>11 DEF Deciding
<1>13. j # "checkout" => last /\ lock = StockRow(v, w0)
  BY <1>10
<1> HIDE DEF w, last
<1> PICK new : new = IF add THEN Append(old, w) ELSE old
  OBVIOUS
<1>27. (add => new = Append(old, w)) /\ (~add => new = old)
  OBVIOUS
<1>14. new \in Seq(Warehouses) /\ found' = [found EXCEPT ![c] = new]
  BY <1>0, <1>1, <1>2, <1>4, <1>11, <1>27, AppendProperties DEF LocksTyped
<1>15. LocksTyped'
  <2>1. InventoryTypeOK'
    BY <1>2, <1>3 DEF LocksTyped, InventoryTypeOK
  <2>2. waits' \in [Customers -> Seq(Locks)] /\ found' \in [Customers -> Seq(Warehouses)]
    BY <1>1, <1>2, <1>5, <1>14 DEF LocksTyped
  <2>3. holds' \in [Customers -> SUBSET Locks]
    BY <1>1, <1>2, <1>5 DEF LocksTyped
  <2> QED
    BY <1>1, <1>2, <2>1, <2>2, <2>3 DEF LocksTyped
<1>16. /\ waits'[c] = rest /\ holds'[c] = holds[c] \cup {lock} /\ found'[c] = new
       /\ line'[c] = v /\ job'[c] = j /\ disturbed'[c] = disturbed[c]
  BY <1>0, <1>1, <1>2, <1>14 DEF LocksTyped
<1>17. LocksApart'
  <2>1. \A other \in Customers : other # c => lock \notin holds[other]
    BY <1>1 DEF Unlocked
  <2>2. \A other \in Customers : other # c => holds'[other] = holds[other]
    BY <1>1, <1>2 DEF LocksTyped
  <2> QED
    BY <1>2, <1>16, <2>1, <2>2 DEF LocksApart
<1>18. Covered' /\ DueReserved'
  <2>1. \A u : DueUnits(u)' = DueUnits(u)
    BY <1>1 DEF DueUnits
  <2> QED
    BY <1>2, <1>3, <2>1 DEF DueReserved, Covered
<1>19. ASSUME NEW x \in Customers, x # c
       PROVE  CallOK(x)'
  <2>1. SameCall(x)
    BY <1>1, <1>2, <1>14, <1>19 DEF SameCall, LocksTyped
  <2> QED
    BY <1>1, <1>2, <2>1, CallStays
<1>20. ASSUME NEW one, NEW i \in 1..Len(rest), rest[i] = one
       PROVE  i + 1 \in 1..Len(all) /\ all[i + 1] = one /\ one # lock
  <2>1. 1 < i + 1 /\ i + 1 \in 1..Len(all) /\ all[i + 1] = one
    BY <1>5, <1>6, <1>20
  <2> QED
    BY <1>5, <1>6, <1>9, <2>1
<1>21. \A one : Awaited(c, one)' => Awaited(c, one) /\ one # lock
  BY <1>0, <1>16, <1>20 DEF Awaited
<1>22. CallFits(c)'
  <2>1. job[c] # "none" /\ line[c] # NoLine
    BY <1>0, <1>8
  <2> QED
    BY <1>1, <1>7, <2>1 DEF CallFits, Items
<1>23. WaitsInOrder(c)'
  <2>1. Distinct(rest, Len(rest))
    <3> SUFFICES ASSUME NEW i \in 1..Len(rest), NEW k \in 1..Len(rest), i < k
                 PROVE  rest[i] # rest[k]
      BY DEF Distinct
    <3>1. i + 1 \in 1..Len(all) /\ k + 1 \in 1..Len(all) /\ i + 1 < k + 1
      BY <1>6
    <3>2. all[i + 1] # all[k + 1]
      BY <1>9, <3>1
    <3>3. rest[i] = all[i + 1] /\ rest[k] = all[k + 1]
      BY <1>5
    <3> QED
      BY <3>2, <3>3
  <2>2. ASSUME NEW i \in 1..Len(rest)
        PROVE  \E u \in Warehouses :
                 rest[i] = StockRow(v, u) \/ (j = "checkout" /\ rest[i] = WarehouseRow(u))
    <3>1. i + 1 \in 1..Len(all) /\ rest[i] = all[i + 1]
      BY <1>5, <1>6
    <3> QED
      BY <1>9, <3>1
  <2>3. ASSUME NEW i \in 1..Len(rest), NEW u \in Warehouses, rest[i] = WarehouseRow(u)
        PROVE  StockRow(v, u) \in holds'[c] \/ (i > 1 /\ rest[i - 1] = StockRow(v, u))
    <3>1. all[i + 1] = WarehouseRow(u) /\ i + 1 \in 1..Len(all) /\ (i + 1) - 1 = i
      BY <1>5, <1>6, <2>3
    <3>2. StockRow(v, u) \in holds[c] \/ all[i] = StockRow(v, u)
      BY <1>9, <3>1
    <3>3. CASE i = 1
      BY <1>5, <1>16, <3>2, <3>3
    <3>4. CASE i # 1
      <4>1. i > 1 /\ i - 1 \in 1..Len(rest) /\ (i - 1) + 1 = i
        BY <1>5, <3>4
      <4>2. rest[i - 1] = all[i]
        BY <1>5, <4>1
      <4> QED
        BY <1>16, <3>2, <4>1, <4>2
    <3> QED
      BY <3>3, <3>4
  <2> QED
    BY <1>16, <2>1, <2>2, <2>3 DEF WaitsInOrder
<1>24. FoundRight(c)'
  <2> DEFINE m == Len(old)
  <2>0. m \in Nat
    BY <1>4, LenProperties
  <2>1. /\ \A i, k \in 1..m : i < k => old[i] # old[k]
        /\ \A i \in 1..m :
             /\ StockRow(v, old[i]) \in holds[c]
             /\ j = "checkout" => WarehouseRow(old[i]) \in holds[c] /\ active[old[i]]
             /\ ~Awaited(c, Deciding(j, v, old[i]))
    BY <1>0, <1>7 DEF FoundRight, Distinct
  <2>2. \A i \in 1..m :
          /\ StockRow(v, old[i]) \in holds'[c]
          /\ j = "checkout" => WarehouseRow(old[i]) \in holds'[c] /\ active'[old[i]]
          /\ ~Awaited(c, Deciding(j, v, old[i]))'
    BY <1>3, <1>16, <1>21, <2>1
  <2>3. /\ Distinct(new, Len(new))
        /\ \A i \in 1..Len(new) :
             /\ StockRow(v, new[i]) \in holds'[c]
             /\ j = "checkout" => WarehouseRow(new[i]) \in holds'[c] /\ active'[new[i]]
             /\ ~Awaited(c, Deciding(j, v, new[i]))'
    <3>1. CASE ~add
      <4>1. new = old
        BY <1>27, <3>1
      <4> QED
        BY <2>1, <2>2, <4>1 DEF Distinct
    <3>2. CASE add
      <4>1. /\ Len(new) = m + 1
            /\ \A i \in 1..m : new[i] = old[i]
            /\ new[m + 1] = w0
        BY <1>4, <1>11, <1>27, <3>2, AppendProperties
      <4>2. lock = Deciding(j, v, w0) /\ Awaited(c, lock)
        BY <1>0, <1>5, <1>6, <1>12, <3>2 DEF Awaited
      <4>3. \A i \in 1..m : old[i] # w0
        BY <2>1, <4>2
      <4>4. Distinct(new, m + 1)
        <5> SUFFICES ASSUME NEW i \in 1..(m + 1), NEW k \in 1..(m + 1), i < k
                     PROVE  new[i] # new[k]
          BY DEF Distinct
        <5>1. i \in 1..m /\ (k \in 1..m \/ k = m + 1)
          BY <2>0
        <5> QED
          BY <2>1, <4>1, <4>3, <5>1
      <4>5. StockRow(v, w0) \in holds'[c]
        <5>1. CASE lock = StockRow(v, w0)
          BY <1>16, <5>1
        <5>2. CASE lock = WarehouseRow(w0)
          <6>1. StockRow(v, w0) \in holds[c]
            <7>1. all[1] = WarehouseRow(w0) /\ 1 \in 1..Len(all) /\ ~(1 > 1)
              BY <1>5, <1>6, <5>2
            <7> QED
              BY <1>9, <7>1
          <6> QED
            BY <1>16, <6>1
        <5> QED
          BY <1>10, <5>1, <5>2
      <4>6. j = "checkout" => WarehouseRow(w0) \in holds'[c] /\ active'[w0]
        BY <1>3, <1>11, <1>16, <3>2, <4>2 DEF Deciding, Qualifies
      <4>7. ~Awaited(c, Deciding(j, v, w0))'
        BY <1>21, <4>2
      <4>8. \A i \in 1..(m + 1) : i \in 1..m \/ i = m + 1
        BY <2>0
      <4>9. ASSUME NEW i \in 1..(m + 1)
            PROVE  /\ StockRow(v, new[i]) \in holds'[c]
                   /\ j = "checkout" => WarehouseRow(new[i]) \in holds'[c] /\ active'[new[i]]
                   /\ ~Awaited(c, Deciding(j, v, new[i]))'
        <5>1. PICK u : u = new[i]
          OBVIOUS
        <5>2. /\ StockRow(v, u) \in holds'[c]
              /\ j = "checkout" => WarehouseRow(u) \in holds'[c] /\ active'[u]
              /\ ~Awaited(c, Deciding(j, v, u))'
          <6>1. CASE i \in 1..m
            BY <2>2, <4>1, <5>1, <6>1
          <6>2. CASE i = m + 1
            <7>1. u = w0
              BY <4>1, <5>1, <6>2
            <7> QED
              BY <4>5, <4>6, <4>7, <7>1
          <6> QED
            BY <4>8, <6>1, <6>2
        <5> QED
          BY <5>1, <5>2
      <4> QED
        BY <4>1, <4>4, <4>9
    <3> QED
      BY <3>1, <3>2
  <2> QED
    BY <1>16, <2>3 DEF FoundRight
<1>25. TakenRight(c)'
  <2>1. \A u \in Variants : Done(c, u)' <=> Done(c, u)
    BY <1>1 DEF Done
  <2>2. \A k, u, x : RowLimit(k, u, x)' = RowLimit(k, u, x)
    BY <1>3 DEF RowLimit, Available, Committable
  <2>3. \A u \in Variants : TookOf(c, u) => TookOf(c, u)'
    BY <1>1, <1>3, <1>16, <2>2 DEF TookOf
  <2> QED
    BY <1>1, <1>7, <2>1, <2>3 DEF TakenRight
<1>26. MissesNone(c)'
  <2> SUFFICES ASSUME j \in {"pay", "cancel"}, ~disturbed[c], NEW u \in Warehouses, reserved[v][u] > 0
               PROVE  Returned(c, u)' \/ Awaited(c, StockRow(v, u))'
    BY <1>1, <1>3, <1>16 DEF MissesNone, StockRow
  <2>0. Len(old) \in Nat
    BY <1>4, LenProperties
  <2>1. Returned(c, u) \/ Awaited(c, StockRow(v, u))
    BY <1>0, <1>7, <1>8 DEF MissesNone
  <2>2. CASE Returned(c, u)
    <3>1. PICK i \in 1..Len(old) : old[i] = u
      BY <1>0, <2>2 DEF Returned
    <3>2. i \in 1..Len(new) /\ new[i] = u
      BY <1>4, <1>11, <1>27, <2>0, <3>1, AppendProperties
    <3> QED
      BY <1>16, <3>2 DEF Returned
  <2>3. CASE Awaited(c, StockRow(v, u))
    <3>1. PICK k \in 1..Len(all) : all[k] = StockRow(v, u)
      BY <1>0, <2>3 DEF Awaited
    <3>2. CASE k = 1
      <4>1. lock = StockRow(v, u) /\ u = w0
        BY <1>5, <1>13, <3>1, <3>2, LockFacts
      <4>2. add
        BY <1>11, <1>13, <4>1 DEF Qualifies
      <4>3. new = Append(old, u)
        BY <1>11, <1>27, <4>1, <4>2
      <4>4. Len(new) = Len(old) + 1 /\ new[Len(old) + 1] = u
        BY <1>4, <2>0, <4>3, AppendProperties
      <4> QED
        BY <1>16, <2>0, <4>4 DEF Returned
    <3>3. CASE k # 1
      <4>1. k - 1 \in 1..Len(rest) /\ (k - 1) + 1 = k
        BY <1>5, <3>3
      <4>2. rest[k - 1] = StockRow(v, u)
        BY <1>5, <3>1, <4>1
      <4> QED
        BY <1>16, <4>1, <4>2 DEF Awaited
    <3> QED
      BY <3>2, <3>3
  <2> QED
    BY <2>1, <2>2, <2>3
<1> QED
  BY <1>15, <1>17, <1>18, <1>19, <1>22, <1>23, <1>24, <1>25, <1>26 DEF LocksOK, CallOK

\* A transaction that ended keeps nothing.
LEMMA EndedCall ==
  ASSUME LocksTyped, NEW c \in Customers, End(c)
  PROVE  CallOK(c)'
<1>1. /\ job'[c] = "none" /\ todo'[c] = {} /\ line'[c] = NoLine /\ waits'[c] = <<>>
      /\ found'[c] = <<>> /\ holds'[c] = {} /\ taken'[c] = NothingTaken
  BY DEF End, LocksTyped
<1>2. CallFits(c)'
  BY <1>1 DEF CallFits
<1>3. WaitsInOrder(c)' /\ FoundRight(c)' /\ MissesNone(c)'
  BY <1>1 DEF WaitsInOrder, FoundRight, MissesNone, Distinct
<1>4. \A u : ~Done(c, u)'
  BY <1>1 DEF Done
<1>5. TakenRight(c)'
  BY <1>1, <1>4 DEF TakenRight, NothingTaken
<1> QED
  BY <1>2, <1>3, <1>5 DEF CallOK

\* What the end of a transaction leaves is of the right type, and no lock is held twice.
LEMMA EndKeepsApart ==
  ASSUME LocksTyped, LocksApart, NEW c \in Customers, End(c)
  PROVE  /\ LocksApart'
         /\ job' \in [Customers -> {"none", "checkout", "pay", "cancel"}]
         /\ todo' \in [Customers -> SUBSET Variants]
         /\ line' \in [Customers -> Variants \cup {NoLine}]
         /\ waits' \in [Customers -> Seq(Locks)]
         /\ found' \in [Customers -> Seq(Warehouses)]
         /\ holds' \in [Customers -> SUBSET Locks]
         /\ taken' \in [Customers -> Takes]
         /\ \A x \in Customers : x # c =>
              /\ job'[x] = job[x] /\ todo'[x] = todo[x] /\ line'[x] = line[x]
              /\ waits'[x] = waits[x] /\ found'[x] = found[x] /\ holds'[x] = holds[x]
              /\ taken'[x] = taken[x]
<1>1. NothingTaken \in Takes
  BY BasketsAssumption DEF NothingTaken, Takes
<1>2. <<>> \in Seq(Locks) /\ <<>> \in Seq(Warehouses)
  OBVIOUS
<1>3. taken' \in [Customers -> Takes]
  BY <1>1 DEF End, LocksTyped
<1>4. /\ job' \in [Customers -> {"none", "checkout", "pay", "cancel"}]
      /\ todo' \in [Customers -> SUBSET Variants]
      /\ line' \in [Customers -> Variants \cup {NoLine}]
      /\ holds' \in [Customers -> SUBSET Locks]
  BY DEF End, LocksTyped
<1>5. waits' \in [Customers -> Seq(Locks)] /\ found' \in [Customers -> Seq(Warehouses)]
  BY <1>2 DEF End, LocksTyped
<1>6. \A x \in Customers : x # c =>
        /\ job'[x] = job[x] /\ todo'[x] = todo[x] /\ line'[x] = line[x]
        /\ waits'[x] = waits[x] /\ found'[x] = found[x] /\ holds'[x] = holds[x]
        /\ taken'[x] = taken[x]
  BY DEF End, LocksTyped
<1>7. holds'[c] = {}
  BY DEF End, LocksTyped
<1>8. LocksApart'
  BY <1>6, <1>7 DEF LocksApart
<1> QED
  BY <1>3, <1>4, <1>5, <1>6, <1>8

\* A call rolls back: its locks go, nothing else happened.
LEMMA RollbackKeepsLocks ==
  ASSUME LocksOK, NEW c \in Customers, Rollback(c)
  PROVE  LocksOK'
<1>1. End(c) /\ UNCHANGED stock /\ life' = life /\ disturbed' = disturbed
  BY DEF Rollback
<1>2. LocksTyped /\ LocksApart /\ Covered /\ DueReserved /\ \A x \in Customers : CallOK(x)
  BY DEF LocksOK, CallOK
<1>3. on_hand' = on_hand /\ reserved' = reserved /\ active' = active /\ moved' = moved
  BY <1>1 DEF stock
<1>4. InventoryTypeOK' /\ Covered'
  BY <1>2, <1>3 DEF LocksTyped, InventoryTypeOK, Covered
<1>5. DueReserved'
  <2>1. \A v : DueUnits(v)' = DueUnits(v)
    BY <1>1 DEF DueUnits
  <2> QED
    BY <1>2, <1>3, <2>1 DEF DueReserved
<1>6. LocksTyped' /\ LocksApart'
  <2>1. life' \in [Customers -> {"unplaced", "pending", "paid", "cancelled"}]
        /\ disturbed' \in [Customers -> BOOLEAN]
    BY <1>1, <1>2 DEF LocksTyped
  <2> QED
    BY <1>1, <1>2, <1>4, <2>1, EndKeepsApart DEF LocksTyped
<1>7. ASSUME NEW x \in Customers, x # c
      PROVE  CallOK(x)'
  <2>1. SameCall(x)
    BY <1>1, <1>2, <1>7, EndKeepsApart DEF SameCall
  <2> QED
    BY <1>1, <1>2, <2>1, CallStays
<1>8. CallOK(c)'
  BY <1>1, <1>2, EndedCall
<1> QED
  BY <1>4, <1>5, <1>6, <1>7, <1>8 DEF LocksOK, CallOK

\* The loop has taken the item's units from the rows found, or rolls back.
LEMMA WalkKeepsLocks ==
  ASSUME LocksOK, NEW c \in Customers, Walk(c)
  PROVE  LocksOK'
<1>0. PICK v, j, rows, g, q, old :
        v = line[c] /\ j = job[c] /\ rows = found[c] /\ g = Remaining(c) /\ q = Wanted[c][v]
        /\ old = taken[c]
  OBVIOUS
<1> DEFINE n == Len(rows)
           took == TakenByWalk(g, rows, n)
           limit == [i \in 1..n |-> RowLimit(j, v, rows[i])]
           new == [old EXCEPT ![v] = took]
<1>1. SUFFICES ASSUME g[n] = 0 \/ j = "cancel", v # NoLine, waits[c] = <<>>,
                      taken' = [taken EXCEPT ![c] = new],
                      line' = [line EXCEPT ![c] = NoLine], found' = [found EXCEPT ![c] = <<>>],
                      UNCHANGED <<stock, life, job, todo, waits, holds, disturbed>>
               PROVE  LocksOK'
  <2>1. CASE Rollback(c)
    BY <2>1, RollbackKeepsLocks
  <2>2. CASE ~Rollback(c)
    <3>1. [taken EXCEPT ![c][v] = took] = [taken EXCEPT ![c] = [taken[c] EXCEPT ![v] = took]]
      OBVIOUS
    <3>2. /\ g[n] = 0 \/ j = "cancel"
          /\ v # NoLine /\ waits[c] = <<>>
          /\ taken' = [taken EXCEPT ![c][v] = took]
          /\ line' = [line EXCEPT ![c] = NoLine] /\ found' = [found EXCEPT ![c] = <<>>]
          /\ UNCHANGED <<stock, life, job, todo, waits, holds, disturbed>>
      BY <1>0, <2>2 DEF Walk, TakenByWalk
    <3> HIDE DEF took
    <3> QED
      BY <1>0, <1>1, <3>1, <3>2
  <2> QED
    BY <2>1, <2>2
<1>2. LocksTyped /\ LocksApart /\ Covered /\ DueReserved /\ \A x \in Customers : CallOK(x)
  BY DEF LocksOK, CallOK
<1>3. on_hand' = on_hand /\ reserved' = reserved /\ active' = active /\ moved' = moved
  BY <1>1 DEF stock
<1>4. CallFits(c) /\ FoundRight(c) /\ TakenRight(c)
  BY <1>2 DEF CallOK
<1>5. v \in Variants /\ v \notin todo[c] /\ j \in {"checkout", "pay", "cancel"}
  BY <1>0, <1>1, <1>2, <1>4 DEF CallFits, LocksTyped
<1>6. /\ q \in 0..MaxQuantity /\ rows \in [1..n -> Warehouses] /\ WalkOver(g, limit, q, n)
  <2>1. line[c] # NoLine /\ job[c] # "none"
    BY <1>0, <1>1, <1>5
  <2> QED
    BY <1>0, <1>2, <2>1, RemainingIsWalked
<1>7. n \in Nat /\ q \in Nat
  BY <1>6 DEF WalkOver
<1>8. Distinct(rows, n)
  BY <1>0, <1>4 DEF FoundRight
<1>9. \A i \in 1..n : limit[i] = RowLimit(j, v, rows[i]) /\ rows[i] \in Warehouses
  BY <1>6
<1> HIDE DEF n, limit
<1>10. /\ \A i \in 1..n : took[rows[i]] = Least(limit[i], g[i - 1])
       /\ \A w \in Warehouses : (\A i \in 1..n : rows[i] # w) => took[w] = 0
       /\ took \in [Warehouses -> 0..q]
       /\ Total(took) = q - g[n]
  <2>1. rows \in [1..n -> Warehouses] /\ WalkOver(g, limit, q, n)
    BY <1>6
  <2>2. WalkTook(TakenByWalk(g, rows, n), g, limit, q, n, rows)
    BY <1>8, <2>1, WalkTakes
  <2>3. WalkTook(took, g, limit, q, n, rows)
    BY <2>2
  <2> HIDE DEF took
  <2> QED
    BY <2>3 DEF WalkTook
<1>11. \A i \in 0..n : g[i] \in 0..q
  BY <1>6, WalkFacts DEF GoesDown
<1> HIDE DEF took
<1>12. \A i \in 1..n : limit[i] \in Nat /\ g[i - 1] \in Nat
  <2> TAKE i \in 1..n
  <2>1. i - 1 \in 0..n
    BY <1>7
  <2>2. limit[i] \in Nat
    BY <1>6 DEF WalkOver
  <2> QED
    BY <1>7, <1>11, <2>1, <2>2
<1>13. took \in [Warehouses -> 0..MaxQuantity]
  BY <1>6, <1>10, BasketsAssumption
<1>14. new \in Takes /\ new[v] = took /\ \A u \in Variants : u # v => new[u] = old[u]
  BY <1>0, <1>2, <1>5, <1>13 DEF LocksTyped, Takes
<1> HIDE DEF new
<1>15. LocksTyped'
  <2>1. InventoryTypeOK'
    BY <1>2, <1>3 DEF LocksTyped, InventoryTypeOK
  <2>2. taken' \in [Customers -> Takes] /\ line' \in [Customers -> Variants \cup {NoLine}]
    BY <1>1, <1>2, <1>14 DEF LocksTyped
  <2>3. found' \in [Customers -> Seq(Warehouses)]
    <3>1. <<>> \in Seq(Warehouses)
      OBVIOUS
    <3> QED
      BY <1>1, <1>2, <3>1 DEF LocksTyped
  <2> QED
    BY <1>1, <1>2, <2>1, <2>2, <2>3 DEF LocksTyped
<1>16. LocksApart' /\ Covered'
  BY <1>1, <1>2, <1>3 DEF LocksApart, Covered
<1>17. DueReserved'
  <2>1. \A u : DueUnits(u)' = DueUnits(u)
    BY <1>1 DEF DueUnits
  <2> QED
    BY <1>2, <1>3, <2>1 DEF DueReserved
<1>18. ASSUME NEW x \in Customers, x # c
       PROVE  CallOK(x)'
  <2>1. SameCall(x)
    BY <1>1, <1>2, <1>18 DEF SameCall, LocksTyped
  <2>2. UNCHANGED stock
    BY <1>1
  <2> QED
    BY <1>2, <2>1, <2>2, CallStays
<1>19. /\ line'[c] = NoLine /\ found'[c] = <<>> /\ taken'[c] = new /\ job'[c] = j
       /\ todo'[c] = todo[c] /\ waits'[c] = <<>> /\ holds'[c] = holds[c] /\ life'[c] = life[c]
  BY <1>0, <1>1, <1>2 DEF LocksTyped
<1>20. CallFits(c)'
  BY <1>0, <1>4, <1>5, <1>19, WantedAssumption DEF CallFits, Items
<1>21. WaitsInOrder(c)' /\ FoundRight(c)' /\ MissesNone(c)'
  BY <1>19 DEF WaitsInOrder, FoundRight, MissesNone, Distinct
<1>22. \A i, u, w : RowLimit(i, u, w)' = RowLimit(i, u, w)
  BY <1>3 DEF RowLimit, Available, Committable
<1>23. TookOf(c, v)'
  <2>1. Total(took) <= q /\ (j # "cancel" => Total(took) = q)
    <3>1. g[n] \in 0..q
      BY <1>7, <1>11
    <3>2. j # "cancel" => g[n] = 0
      BY <1>1
    <3> QED
      BY <1>7, <1>10, <3>1, <3>2
  <2>2. ASSUME NEW w \in Warehouses, took[w] > 0
        PROVE  /\ StockRow(v, w) \in holds[c] /\ took[w] <= RowLimit(j, v, w)
               /\ j = "checkout" => WarehouseRow(w) \in holds[c] /\ active[w]
    <3>1. PICK i \in 1..n : rows[i] = w
      BY <1>10, <2>2
    <3>2. took[w] = Least(limit[i], g[i - 1]) /\ limit[i] = RowLimit(j, v, w)
      BY <1>9, <1>10, <3>1
    <3>3. took[w] <= RowLimit(j, v, w)
      BY <1>12, <3>2 DEF Least
    <3>4. i \in 1..Len(found[c]) /\ found[c][i] = w
      BY <1>0, <3>1 DEF n
    <3>5. /\ StockRow(v, w) \in holds[c]
          /\ j = "checkout" => WarehouseRow(w) \in holds[c] /\ active[w]
      BY <1>0, <1>4, <3>4 DEF FoundRight
    <3> QED
      BY <3>3, <3>5
  <2> QED
    BY <1>0, <1>3, <1>14, <1>19, <1>22, <2>1, <2>2 DEF TookOf
<1>24. TakenRight(c)'
  <2> SUFFICES ASSUME NEW u \in Variants
               PROVE  IF Done(c, u)' THEN TookOf(c, u)' ELSE \A w \in Warehouses : new[u][w] = 0
    BY <1>19 DEF TakenRight
  <2>1. CASE u = v
    <3>1. Done(c, u)'
      BY <1>1, <1>5, <1>19, <2>1 DEF Done
    <3> QED
      BY <1>23, <2>1, <3>1
  <2>2. CASE u # v
    <3>1. Done(c, u)' <=> Done(c, u)
      BY <1>0, <1>19, <2>2, WantedAssumption DEF Done
    <3>2. taken'[c][u] = taken[c][u]
      BY <1>0, <1>14, <1>19, <2>2
    <3>3. TookOf(c, u) => TookOf(c, u)'
      BY <1>0, <1>3, <1>19, <1>22, <3>2 DEF TookOf
    <3>4. IF Done(c, u) THEN TookOf(c, u) ELSE \A w \in Warehouses : taken[c][u][w] = 0
      BY <1>4 DEF TakenRight
    <3> QED
      BY <1>19, <3>1, <3>2, <3>3, <3>4
  <2> QED
    BY <2>1, <2>2
<1> QED
  BY <1>15, <1>16, <1>17, <1>18, <1>20, <1>21, <1>24 DEF LocksOK, CallOK

---------------------------------------------------------------------------
(* Commits                                                                 *)

\* What a call is about to commit: the quantities of its order, from rows it has locked.
CommitTakes(take, c) ==
  /\ take \in [Variants -> [Warehouses -> 0..MaxQuantity]]
  /\ take \in [Variants -> [Warehouses -> Nat]]
  /\ \A v \in Variants : TookOf(c, v) /\ Wanted[c][v] \in Nat /\ Total(take[v]) \in Nat
  /\ \A v \in Variants, w \in Warehouses :
       /\ take[v][w] <= RowLimit(job[c], v, w)
       /\ take[v][w] > 0 => StockRow(v, w) \in holds[c]
       /\ take[v][w] <= reserved[v][w] \/ job[c] = "checkout"
       /\ take[v][w] <= on_hand[v][w] \/ job[c] # "pay"
       /\ reserved[v][w] + take[v][w] <= on_hand[v][w] \/ job[c] # "checkout"

\* That is what a call that may commit has taken.
LEMMA CommitFacts ==
  ASSUME LocksOK, NEW c \in Customers, CommitCall(c)
  PROVE  CommitTakes(taken[c], c)
<1> DEFINE take == taken[c]
<1>1. /\ LocksTyped /\ Covered /\ TakenRight(c)
      /\ job[c] # "none" /\ job[c] \in {"checkout", "pay", "cancel"}
  BY DEF LocksOK, CommitCall, LocksTyped
<1>2. take \in [Variants -> [Warehouses -> 0..MaxQuantity]]
  BY <1>1 DEF LocksTyped, Takes
<1>3. take \in [Variants -> [Warehouses -> Nat]]
  BY <1>2, BasketsAssumption
<1>4. \A v \in Variants : TookOf(c, v)
  <2>1. \A v \in Variants : Done(c, v)
    BY WantedAssumption DEF CommitCall, Done
  <2> QED
    BY <1>1, <2>1 DEF TakenRight
<1>5. \A v \in Variants : Wanted[c][v] \in Nat /\ Total(take[v]) \in Nat
  <2> TAKE v \in Variants
  <2>1. Wanted[c][v] \in Nat
    BY WantedAssumption, BasketsAssumption
  <2>2. take[v] \in [Warehouses -> Nat]
    BY <1>3
  <2> QED
    BY <2>1, <2>2, FiniteAssumption, TotalType
<1>6. ASSUME NEW v \in Variants, NEW w \in Warehouses
      PROVE  /\ take[v][w] <= RowLimit(job[c], v, w)
             /\ take[v][w] > 0 => StockRow(v, w) \in holds[c]
             /\ take[v][w] <= reserved[v][w] \/ job[c] = "checkout"
             /\ take[v][w] <= on_hand[v][w] \/ job[c] # "pay"
             /\ reserved[v][w] + take[v][w] <= on_hand[v][w] \/ job[c] # "checkout"
  <2>1. take[v][w] \in Nat
    BY <1>3
  <2>2. /\ RowLimit(job[c], v, w) \in Nat
        /\ reserved[v][w] \in Nat /\ on_hand[v][w] \in Nat /\ SafetyBuffer[v][w] \in Nat
    BY <1>1, RowLimitType DEF LocksTyped
  <2>3. take[v][w] > 0 => StockRow(v, w) \in holds[c] /\ take[v][w] <= RowLimit(job[c], v, w)
    BY <1>4 DEF TookOf
  <2>4. take[v][w] <= RowLimit(job[c], v, w)
    BY <2>1, <2>2, <2>3
  <2>5. reserved[v][w] <= on_hand[v][w]
    BY <1>1 DEF Covered
  <2> HIDE DEF take
  <2>6. CASE job[c] = "checkout"
    <3>1. RowLimit(job[c], v, w) = Available(v, w)
      BY <2>6 DEF RowLimit
    <3>2. reserved[v][w] + Available(v, w) <= on_hand[v][w]
      BY <2>2, <2>5 DEF Available, AtLeastZero
    <3>3. Available(v, w) \in Nat
      BY <2>2 DEF Available, AtLeastZero
    <3> QED
      BY <2>1, <2>2, <2>3, <2>4, <2>6, <3>1, <3>2, <3>3
  <2>7. CASE job[c] = "pay"
    <3>1. RowLimit(job[c], v, w) = Least(reserved[v][w], on_hand[v][w])
      BY <2>7 DEF RowLimit, Committable
    <3> QED
      BY <2>1, <2>2, <2>3, <2>4, <2>7, <3>1 DEF Least
  <2>8. CASE job[c] = "cancel"
    <3>1. RowLimit(job[c], v, w) = reserved[v][w]
      BY <2>8 DEF RowLimit
    <3> QED
      BY <2>1, <2>2, <2>3, <2>4, <2>8, <3>1
  <2> QED
    BY <1>1, <2>6, <2>7, <2>8
<1> QED
  BY <1>2, <1>3, <1>4, <1>5, <1>6 DEF CommitTakes

\* The rows another call counts on stay as they are: their locks are not held by two, and
\* a statement that has not been disturbed is about an item of which nothing changed.
LEMMA CommitLeavesOthers ==
  ASSUME LocksOK, NEW c \in Customers, CommitCall(c), NEW x \in Customers, x # c
  PROVE  CallOK(x)'
<1> DEFINE take == taken[c]
<1>1. CommitTakes(take, c)
  BY CommitFacts
<1>2. LocksTyped /\ LocksApart /\ CallOK(x)
  BY DEF LocksOK, CallOK
<1>3. /\ job'[x] = job[x] /\ todo'[x] = todo[x] /\ line'[x] = line[x]
      /\ waits'[x] = waits[x] /\ found'[x] = found[x] /\ holds'[x] = holds[x]
      /\ taken'[x] = taken[x]
  BY <1>2, EndKeepsApart DEF CommitCall
<1>4. life'[x] = life[x] /\ active' = active
  BY <1>2 DEF CommitCall, LocksTyped
<1>5. \A v \in Variants, w \in Warehouses : take[v][w] = 0 =>
        reserved'[v][w] = reserved[v][w] /\ on_hand'[v][w] = on_hand[v][w]
  <2> SUFFICES ASSUME NEW v \in Variants, NEW w \in Warehouses, take[v][w] = 0
               PROVE  reserved'[v][w] = reserved[v][w] /\ on_hand'[v][w] = on_hand[v][w]
    OBVIOUS
  <2>1. reserved[v][w] \in Nat /\ on_hand[v][w] \in Nat
    BY <1>2 DEF LocksTyped, InventoryTypeOK, Rows
  <2>2. /\ reserved' = Added(reserved, take) \/ reserved' = Taken(reserved, take)
        /\ on_hand' = on_hand \/ on_hand' = Taken(on_hand, take)
    BY DEF CommitCall
  <2> HIDE DEF take
  <2> QED
    BY <2>1, <2>2 DEF Added, Taken
<1>6. \A v \in Variants, w \in Warehouses :
        take[v][w] \in Nat /\ (take[v][w] > 0 => StockRow(v, w) \in holds[c])
  BY <1>1 DEF CommitTakes
<1> HIDE DEF take
<1>7. \A v \in Variants, w \in Warehouses : StockRow(v, w) \in holds[x] =>
        reserved'[v][w] = reserved[v][w] /\ on_hand'[v][w] = on_hand[v][w]
  <2> SUFFICES ASSUME NEW v \in Variants, NEW w \in Warehouses, StockRow(v, w) \in holds[x]
               PROVE  take[v][w] = 0
    BY <1>5
  <2>1. StockRow(v, w) \notin holds[c]
    BY <1>2 DEF LocksApart
  <2> QED
    BY <1>6, <2>1
<1>8. \A lock : Awaited(x, lock)' <=> Awaited(x, lock)
  BY <1>3 DEF Awaited
<1>9. \A w : Returned(x, w)' <=> Returned(x, w)
  BY <1>3 DEF Returned
<1>10. \A v : Done(x, v)' <=> Done(x, v)
  BY <1>3 DEF Done
<1>11. CallFits(x)' /\ WaitsInOrder(x)'
  BY <1>2, <1>3, <1>4 DEF CallOK, CallFits, WaitsInOrder
<1>12. FoundRight(x)'
  BY <1>2, <1>3, <1>4, <1>8 DEF CallOK, FoundRight
<1>13. ASSUME NEW v \in Variants, TookOf(x, v)
       PROVE  TookOf(x, v)'
  <2>1. \A w \in Warehouses : StockRow(v, w) \in holds[x] =>
          RowLimit(job[x], v, w)' = RowLimit(job[x], v, w)
    BY <1>3, <1>7 DEF RowLimit, Available, Committable
  <2> QED
    BY <1>3, <1>4, <1>13, <2>1 DEF TookOf
<1>14. TakenRight(x)'
  BY <1>2, <1>3, <1>10, <1>13 DEF CallOK, TakenRight
<1>15. MissesNone(x)'
  <2> SUFFICES ASSUME job[x] \in {"pay", "cancel"}, line[x] # NoLine, ~disturbed'[x],
                      NEW w \in Warehouses, reserved'[line[x]][w] > 0
               PROVE  Returned(x, w) \/ Awaited(x, StockRow(line[x], w))
    BY <1>3, <1>8, <1>9 DEF MissesNone
  <2>1. line[x] \in Variants
    BY <1>2 DEF LocksTyped
  <2>2. ~disturbed[x] /\ ~(Wanted[c][line[x]] > 0)
    BY DEF CommitCall, Disturb
  <2>3. Total(take[line[x]]) = 0
    <3>1. /\ Total(take[line[x]]) <= Wanted[c][line[x]]
          /\ Total(take[line[x]]) \in Nat /\ Wanted[c][line[x]] \in Nat
      BY <1>1, <2>1 DEF CommitTakes, TookOf, take
    <3> QED
      BY <2>2, <3>1
  <2>4. take[line[x]] \in [Warehouses -> Nat]
    BY <1>1, <2>1 DEF CommitTakes
  <2>5. take[line[x]][w] = 0
    BY <2>3, <2>4, FiniteAssumption, NothingOfNothing
  <2>6. reserved[line[x]][w] > 0
    BY <1>5, <2>1, <2>5
  <2> QED
    BY <1>2, <2>2, <2>6 DEF CallOK, MissesNone
<1> QED
  BY <1>11, <1>12, <1>14, <1>15 DEF CallOK

\* The rows after a commit.
LEMMA CommitRows ==
  ASSUME LocksOK, NEW c \in Customers, CommitCall(c)
  PROVE  /\ InventoryTypeOK' /\ Covered'
         /\ \A v \in Variants :
              /\ job[c] = "checkout" => Total(reserved'[v]) = Total(reserved[v]) + Total(taken[c][v])
              /\ job[c] # "checkout" => Total(reserved[v]) = Total(reserved'[v]) + Total(taken[c][v])
<1>1. PICK take : take = taken[c]
  OBVIOUS
<1>2. CommitTakes(take, c)
  BY <1>1, CommitFacts
<1>3. InventoryTypeOK /\ Covered /\ job[c] \in {"checkout", "pay", "cancel"}
  BY DEF LocksOK, LocksTyped, CommitCall
<1>4. \A v \in Variants, w \in Warehouses :
        /\ take[v][w] \in Nat /\ reserved[v][w] \in Nat /\ on_hand[v][w] \in Nat
        /\ reserved[v][w] <= on_hand[v][w]
        /\ take[v][w] <= reserved[v][w] \/ job[c] = "checkout"
        /\ take[v][w] <= on_hand[v][w] \/ job[c] # "pay"
        /\ reserved[v][w] + take[v][w] <= on_hand[v][w] \/ job[c] # "checkout"
  BY <1>2, <1>3 DEF CommitTakes, Covered, InventoryTypeOK, Rows
<1>5. ASSUME NEW rows \in [Variants -> [Warehouses -> Int]]
      PROVE  /\ Added(rows, take) \in [Variants -> [Warehouses -> Int]]
             /\ Taken(rows, take) \in [Variants -> [Warehouses -> Int]]
  BY <1>4 DEF Added, Taken
<1>6. \A r \in Reasons : moved[r] \in [Variants -> [Warehouses -> Int]]
  BY <1>3 DEF InventoryTypeOK
<1>7. ASSUME NEW v \in Variants, NEW more \in Rows, NEW less \in Rows,
             \A w \in Warehouses : more[v][w] = less[v][w] + take[v][w]
      PROVE  Total(more[v]) = Total(less[v]) + Total(take[v])
  <2>1. /\ more[v] \in [Warehouses -> Nat] /\ less[v] \in [Warehouses -> Nat]
        /\ take[v] \in [Warehouses -> Nat]
    BY <1>2 DEF Rows, CommitTakes
  <2> QED
    BY <1>7, <2>1, FiniteAssumption, TotalPlus
<1>8. CASE job[c] = "checkout"
  <2>1. /\ reserved' = Added(reserved, take)
        /\ moved' = [moved EXCEPT !["reservation"] = Taken(moved["reservation"], take)]
        /\ on_hand' = on_hand /\ active' = active
    BY <1>1, <1>8 DEF CommitCall
  <2>2. reserved' \in Rows
    BY <1>4, <2>1 DEF Added, Rows
  <2>3. moved' \in [Reasons -> [Variants -> [Warehouses -> Int]]]
    <3>1. Taken(moved["reservation"], take) \in [Variants -> [Warehouses -> Int]]
      BY <1>5, <1>6 DEF Reasons
    <3> QED
      BY <1>3, <2>1, <3>1 DEF InventoryTypeOK
  <2>4. InventoryTypeOK' /\ Covered'
    BY <1>3, <1>4, <1>8, <2>1, <2>2, <2>3 DEF InventoryTypeOK, Covered, Added
  <2>5. \A v \in Variants : Total(reserved'[v]) = Total(reserved[v]) + Total(take[v])
    <3> TAKE v \in Variants
    <3>1. \A w \in Warehouses : reserved'[v][w] = reserved[v][w] + take[v][w]
      BY <2>1 DEF Added
    <3> QED
      BY <1>3, <1>7, <2>2, <3>1 DEF InventoryTypeOK
  <2> QED
    BY <1>1, <1>8, <2>4, <2>5
<1>9. CASE job[c] # "checkout"
  <2>1. /\ reserved' = Taken(reserved, take) /\ active' = active
        /\ \/ /\ job[c] = "pay" /\ on_hand' = Taken(on_hand, take)
              /\ moved' = [moved EXCEPT !["sale"] = Taken(moved["sale"], take)]
           \/ /\ on_hand' = on_hand
              /\ moved' = [moved EXCEPT !["reservation_release"] =
                             Added(moved["reservation_release"], take)]
    <3>1. CASE job[c] = "pay"
      BY <1>1, <3>1 DEF CommitCall
    <3>2. CASE job[c] = "cancel"
      BY <1>1, <3>2 DEF CommitCall
    <3> QED
      BY <1>3, <1>9, <3>1, <3>2
  <2>2. reserved' \in Rows
    BY <1>4, <1>9, <2>1 DEF Taken, Rows
  <2>3. on_hand' \in Rows
    <3>1. CASE job[c] = "pay" /\ on_hand' = Taken(on_hand, take)
      <4>1. \A v \in Variants, w \in Warehouses : on_hand[v][w] - take[v][w] \in Nat
        BY <1>4, <3>1
      <4> QED
        BY <3>1, <4>1 DEF Taken, Rows
    <3>2. CASE on_hand' = on_hand
      BY <1>3, <3>2 DEF InventoryTypeOK
    <3> QED
      BY <2>1, <3>1, <3>2
  <2>4. moved' \in [Reasons -> [Variants -> [Warehouses -> Int]]]
    <3>1. Taken(moved["sale"], take) \in [Variants -> [Warehouses -> Int]]
      BY <1>5, <1>6 DEF Reasons
    <3>2. Added(moved["reservation_release"], take) \in [Variants -> [Warehouses -> Int]]
      BY <1>5, <1>6 DEF Reasons
    <3> QED
      BY <1>3, <2>1, <3>1, <3>2 DEF InventoryTypeOK
  <2>5. Covered'
    <3> SUFFICES ASSUME NEW v \in Variants, NEW w \in Warehouses
                 PROVE  reserved'[v][w] <= on_hand'[v][w]
      BY DEF Covered
    <3>1. reserved'[v][w] = reserved[v][w] - take[v][w]
      BY <2>1 DEF Taken
    <3>2. on_hand'[v][w] = on_hand[v][w] \/ on_hand'[v][w] = on_hand[v][w] - take[v][w]
      BY <2>1 DEF Taken
    <3> QED
      BY <1>4, <3>1, <3>2
  <2>6. \A v \in Variants : Total(reserved[v]) = Total(reserved'[v]) + Total(take[v])
    <3> TAKE v \in Variants
    <3>1. \A w \in Warehouses : reserved[v][w] = reserved'[v][w] + take[v][w]
      BY <1>4, <2>1 DEF Taken
    <3> QED
      BY <1>3, <1>7, <2>2, <3>1 DEF InventoryTypeOK
  <2> QED
    BY <1>1, <1>3, <1>9, <2>1, <2>2, <2>3, <2>4, <2>5, <2>6 DEF InventoryTypeOK
<1> QED
  BY <1>8, <1>9

\* The units due and the units reserved change together.
LEMMA CommitKeepsDue ==
  ASSUME LocksOK, NEW c \in Customers, CommitCall(c)
  PROVE  DueReserved'
<1>1. /\ LocksTyped /\ DueReserved /\ CallFits(c) /\ job[c] \in {"checkout", "pay", "cancel"}
  BY DEF LocksOK, LocksTyped, CommitCall
<1>2. life' = [life EXCEPT ![c] = IF job[c] = "checkout" THEN "pending"
                                  ELSE IF job[c] = "pay" THEN "paid" ELSE "cancelled"]
  BY <1>1 DEF CommitCall
<1>3. life \in [Customers -> {"unplaced", "pending", "paid", "cancelled"}]
  BY <1>1 DEF LocksTyped
<1>4. \A x \in Customers : x # c => life'[x] = life[x]
  BY <1>2, <1>3
<1>5. /\ job[c] = "checkout" => life[c] # "pending" /\ life'[c] = "pending"
      /\ job[c] # "checkout" => life[c] = "pending" /\ life'[c] # "pending"
  BY <1>1, <1>2, <1>3 DEF CallFits
<1> SUFFICES ASSUME NEW v \in Variants
             PROVE  Total(DueUnits(v)') <= Total(reserved'[v])
  BY DEF DueReserved
<1>6. PICK before, after, q, t, r0, r1 :
        /\ before = DueUnits(v) /\ after = DueUnits(v)' /\ q = Wanted[c][v]
        /\ t = Total(taken[c][v]) /\ r0 = Total(reserved[v]) /\ r1 = Total(reserved'[v])
  OBVIOUS
<1>7. \A x \in Customers : Wanted[x][v] \in Nat
  BY WantedAssumption, BasketsAssumption
<1>8. before \in [Customers -> Nat] /\ after \in [Customers -> Nat]
  BY <1>6, <1>7 DEF DueUnits
<1>9. \A x \in Customers \ {c} : before[x] = after[x]
  BY <1>4, <1>6 DEF DueUnits
<1>10. /\ job[c] = "checkout" => before[c] = 0 /\ after[c] = q
       /\ job[c] # "checkout" => before[c] = q /\ after[c] = 0
  BY <1>5, <1>6 DEF DueUnits
<1>11. q \in Nat /\ t \in Nat /\ t <= q /\ (job[c] # "cancel" => t = q)
  BY <1>6, CommitFacts DEF CommitTakes, TookOf
<1>12. r0 \in Nat /\ r1 \in Nat
  <2>1. reserved[v] \in [Warehouses -> Nat]
    BY <1>1 DEF LocksTyped, InventoryTypeOK, Rows
  <2>2. reserved'[v] \in [Warehouses -> Nat]
    BY CommitRows DEF InventoryTypeOK, Rows
  <2> QED
    BY <1>6, <2>1, <2>2, FiniteAssumption, TotalType
<1>13. /\ job[c] = "checkout" => r1 = r0 + t
       /\ job[c] # "checkout" => r0 = r1 + t
  BY <1>6, CommitRows
<1>14. IsFiniteSet(Customers)
  BY WantedAssumption
<1>15. PICK b, a : b = Total(before) /\ a = Total(after) /\ b \in Nat /\ a \in Nat
  BY <1>8, <1>14, TotalType
<1>16. b <= r0
  BY <1>1, <1>6, <1>15 DEF DueReserved
<1>17. CASE job[c] = "checkout"
  <2>1. after[c] = before[c] + q
    BY <1>10, <1>11, <1>17
  <2>2. Total(after) = Total(before) + q
    BY <1>8, <1>9, <1>11, <1>14, <2>1, TotalPlusSingle
  <2>3. a = b + q
    BY <1>15, <2>2
  <2> QED
    BY <1>6, <1>11, <1>12, <1>13, <1>15, <1>16, <1>17, <2>3
<1>18. CASE job[c] # "checkout"
  <2>1. before[c] = after[c] + q
    BY <1>10, <1>11, <1>18
  <2>2. Total(before) = Total(after) + q
    BY <1>8, <1>9, <1>11, <1>14, <2>1, TotalPlusSingle
  <2>3. b = a + q
    BY <1>15, <2>2
  <2> QED
    BY <1>6, <1>11, <1>12, <1>13, <1>15, <1>16, <1>18, <2>3
<1> QED
  BY <1>17, <1>18

\* A call commits.
LEMMA CommitKeepsLocks ==
  ASSUME LocksOK, NEW c \in Customers, CommitCall(c)
  PROVE  LocksOK'
<1>1. LocksTyped /\ LocksApart /\ End(c)
  BY DEF LocksOK, CommitCall
<1>2. InventoryTypeOK' /\ Covered' /\ DueReserved'
  BY CommitRows, CommitKeepsDue
<1>3. life' \in [Customers -> {"unplaced", "pending", "paid", "cancelled"}]
  BY <1>1 DEF CommitCall, LocksTyped
<1>4. disturbed' \in [Customers -> BOOLEAN]
  BY DEF CommitCall, Disturb
<1>5. LocksTyped' /\ LocksApart'
  BY <1>1, <1>2, <1>3, <1>4, EndKeepsApart DEF LocksTyped
<1>6. \A x \in Customers : CallOK(x)'
  <2> TAKE x \in Customers
  <2>1. CASE x = c
    BY <1>1, <2>1, EndedCall
  <2>2. CASE x # c
    BY <2>2, CommitLeavesOthers
  <2> QED
    BY <2>1, <2>2
<1> QED
  BY <1>2, <1>5, <1>6 DEF LocksOK, CallOK

\* Staff switch a warehouse whose row nobody has locked.
LEMMA SwitchKeepsLocks ==
  ASSUME LocksOK, NEW w \in Switchable, Switch(w)
  PROVE  LocksOK'
<1>1. /\ \A c \in Customers : WarehouseRow(w) \notin holds[c]
      /\ active' = [active EXCEPT ![w] = ~active[w]]
      /\ on_hand' = on_hand /\ reserved' = reserved /\ moved' = moved
      /\ UNCHANGED <<life, calls>>
  BY DEF Switch, ToggleWarehouse
<1>2. LocksTyped /\ LocksApart /\ Covered /\ DueReserved /\ \A x \in Customers : CallOK(x)
  BY DEF LocksOK, CallOK
<1>3. /\ life' = life /\ job' = job /\ todo' = todo /\ line' = line /\ waits' = waits
      /\ found' = found /\ holds' = holds /\ taken' = taken /\ disturbed' = disturbed
  BY <1>1 DEF calls
<1>4. active' \in [Warehouses -> BOOLEAN] /\ \A u \in Warehouses : u # w => active'[u] = active[u]
  BY <1>1, <1>2 DEF LocksTyped, InventoryTypeOK
<1>5. LocksTyped' /\ LocksApart' /\ Covered'
  BY <1>1, <1>2, <1>3, <1>4 DEF LocksTyped, LocksApart, Covered, InventoryTypeOK
<1>6. DueReserved'
  <2>1. \A v : DueUnits(v)' = DueUnits(v)
    BY <1>3 DEF DueUnits
  <2> QED
    BY <1>1, <1>2, <2>1 DEF DueReserved
<1>7. ASSUME NEW x \in Customers
      PROVE  CallOK(x)'
  <2>1. /\ \A lock : Awaited(x, lock)' <=> Awaited(x, lock)
        /\ \A u : Returned(x, u)' <=> Returned(x, u)
        /\ \A v : Done(x, v)' <=> Done(x, v)
        /\ \A j, v, u : RowLimit(j, v, u)' = RowLimit(j, v, u)
    <3>1. \A lock : Awaited(x, lock)' <=> Awaited(x, lock)
      BY <1>3 DEF Awaited
    <3>2. \A u : Returned(x, u)' <=> Returned(x, u)
      BY <1>3 DEF Returned
    <3>3. \A v : Done(x, v)' <=> Done(x, v)
      BY <1>3 DEF Done
    <3>4. \A j, v, u : RowLimit(j, v, u)' = RowLimit(j, v, u)
      BY <1>1 DEF RowLimit, Available, Committable
    <3> QED
      BY <3>1, <3>2, <3>3, <3>4
  <2>2. CallFits(x)' /\ WaitsInOrder(x)' /\ MissesNone(x)'
    BY <1>1, <1>2, <1>3, <2>1 DEF CallOK, CallFits, WaitsInOrder, MissesNone
  <2>3. \A u \in Warehouses : WarehouseRow(u) \in holds[x] => active'[u] = active[u]
    BY <1>1, <1>4
  <2>4. FoundRight(x)'
    <3>1. found[x] \in Seq(Warehouses)
      BY <1>2 DEF LocksTyped
    <3>2. \A i \in 1..Len(found[x]) : found[x][i] \in Warehouses
      BY <3>1, ElementOfSeq
    <3> QED
      BY <1>2, <1>3, <2>1, <2>3, <3>2 DEF CallOK, FoundRight
  <2>5. \A v \in Variants : TookOf(x, v) => TookOf(x, v)'
    BY <1>3, <2>1, <2>3 DEF TookOf
  <2>6. TakenRight(x)'
    BY <1>2, <1>3, <2>1, <2>5 DEF CallOK, TakenRight
  <2> QED
    BY <2>2, <2>4, <2>6 DEF CallOK
<1> QED
  BY <1>5, <1>6, <1>7 DEF LocksOK, CallOK

\* No call has started and nothing is reserved.
LEMMA LocksStart ==
  ASSUME LocksInit
  PROVE  LocksOK
<1>1. InventoryTypeOK
  BY RowsAssumption DEF LocksInit, InventoryInit, InventoryTypeOK, Rows
<1>2. LocksTyped
  <2>1. NothingTaken \in Takes
    BY BasketsAssumption DEF NothingTaken, Takes
  <2>2. <<>> \in Seq(Locks) /\ <<>> \in Seq(Warehouses)
    OBVIOUS
  <2> QED
    BY <1>1, <2>1, <2>2 DEF LocksTyped, LocksInit
<1>3. LocksApart
  BY DEF LocksApart, LocksInit
<1>4. Covered
  BY RowsAssumption DEF Covered, LocksInit, InventoryInit
<1>5. DueReserved
  <2> SUFFICES ASSUME NEW v \in Variants
               PROVE  Total(DueUnits(v)) <= Total(reserved[v])
    BY DEF DueReserved
  <2>1. DueUnits(v) = [x \in Customers |-> 0] /\ reserved[v] = [w \in Warehouses |-> 0]
    BY DEF DueUnits, LocksInit, InventoryInit
  <2>2. Total([x \in Customers |-> 0]) = 0 /\ Total([w \in Warehouses |-> 0]) = 0
    BY FiniteAssumption, WantedAssumption, TotalOfNothing
  <2> QED
    BY <2>1, <2>2
<1>6. ASSUME NEW c \in Customers
      PROVE  CallOK(c)
  <2>1. /\ job[c] = "none" /\ todo[c] = {} /\ line[c] = NoLine /\ waits[c] = <<>>
        /\ found[c] = <<>> /\ holds[c] = {} /\ taken[c] = NothingTaken
    BY DEF LocksInit
  <2>2. CallFits(c)
    BY <2>1 DEF CallFits
  <2>3. WaitsInOrder(c) /\ FoundRight(c) /\ MissesNone(c)
    BY <2>1 DEF WaitsInOrder, FoundRight, MissesNone, Distinct
  <2>4. TakenRight(c)
    BY <2>1 DEF TakenRight, NothingTaken, Done
  <2> QED
    BY <2>2, <2>3, <2>4 DEF CallOK
<1> QED
  BY <1>2, <1>3, <1>4, <1>5, <1>6 DEF LocksOK, CallOK

\* One step of any of the calls, of staff or of the database.
LEMMA StepKeepsLocks ==
  ASSUME LocksOK, [LocksNext]_lockVars
  PROVE  LocksOK'
<1>1. ASSUME NEW c \in Customers, NEW j \in {"checkout", "pay", "cancel"}, Call(c, j)
      PROVE  LocksOK'
  BY <1>1, CallKeepsLocks
<1>2. ASSUME NEW c \in Customers, NEW v \in Variants, SelectRows(c, v)
      PROVE  LocksOK'
  BY <1>2, SelectKeepsLocks
<1>3. ASSUME NEW c \in Customers, Lock(c)
      PROVE  LocksOK'
  BY <1>3, LockKeepsLocks
<1>4. ASSUME NEW c \in Customers, Walk(c)
      PROVE  LocksOK'
  BY <1>4, WalkKeepsLocks
<1>5. ASSUME NEW c \in Customers, CommitCall(c)
      PROVE  LocksOK'
  BY <1>5, CommitKeepsLocks
<1>6. ASSUME NEW c \in Customers, Victim(c)
      PROVE  LocksOK'
  BY <1>6, RollbackKeepsLocks DEF Victim
<1>7. ASSUME NEW w \in Switchable, Switch(w)
      PROVE  LocksOK'
  BY <1>7, SwitchKeepsLocks
<1>8. CASE UNCHANGED lockVars
  <2>1. UNCHANGED <<stock, life, calls>>
    BY <1>8 DEF lockVars
  <2>2. /\ life' = life /\ job' = job /\ todo' = todo /\ line' = line /\ waits' = waits
        /\ found' = found /\ holds' = holds /\ taken' = taken /\ disturbed' = disturbed
    BY <2>1 DEF calls
  <2>3. on_hand' = on_hand /\ reserved' = reserved /\ active' = active /\ moved' = moved
    BY <2>1 DEF stock
  <2>4. LocksTyped' /\ LocksApart' /\ Covered'
    BY <2>2, <2>3 DEF LocksOK, LocksTyped, LocksApart, Covered, InventoryTypeOK
  <2>5. DueReserved'
    <3>1. \A v : DueUnits(v)' = DueUnits(v)
      BY <2>2 DEF DueUnits
    <3> QED
      BY <2>3, <3>1 DEF LocksOK, DueReserved
  <2>6. \A x \in Customers : CallOK(x)'
    <3> TAKE x \in Customers
    <3>1. SameCall(x)
      BY <2>2 DEF SameCall
    <3>2. UNCHANGED stock /\ CallOK(x)
      BY <2>1 DEF LocksOK, CallOK
    <3> QED
      BY <3>1, <3>2, CallStays
  <2> QED
    BY <2>4, <2>5, <2>6 DEF LocksOK, CallOK
<1> QED
  BY <1>1, <1>2, <1>3, <1>4, <1>5, <1>6, <1>7, <1>8 DEF LocksNext

\* However calls of different orders interleave, lock by lock.
THEOREM LocksInvariant == LocksSpec => []LocksOK
<1>1. LocksInit => LocksOK
  BY LocksStart
<1>2. LocksOK /\ [LocksNext]_lockVars => LocksOK'
  BY StepKeepsLocks
<1> QED
  BY <1>1, <1>2, PTL DEF LocksSpec

\* Its type invariant.
LEMMA LocksTypedType ==
  ASSUME LocksTyped
  PROVE  LocksTypeOK
<1>1. \A c \in Customers : waits[c] \in Seq(Locks) /\ found[c] \in Seq(Warehouses)
  BY DEF LocksTyped
<1>2. ASSUME NEW c \in Customers
      PROVE  /\ \A i \in DOMAIN waits[c] : waits[c][i] \in Locks
             /\ \A i \in DOMAIN found[c] : found[c][i] \in Warehouses
  <2>1. DOMAIN waits[c] = 1..Len(waits[c]) /\ DOMAIN found[c] = 1..Len(found[c])
    BY <1>1, LenProperties
  <2> QED
    BY <1>1, <2>1, ElementOfSeq
<1> QED
  BY <1>2 DEF LocksTyped, LocksTypeOK

\* Lock by lock, stock rows stay natural and every call keeps to its types (the three
\* stock functions under READ COMMITTED).
THEOREM LocksTypeCorrect == LocksSpec => []LocksTypeOK
<1>1. LocksOK => LocksTypeOK
  BY LocksTypedType DEF LocksOK
<1> QED
  BY <1>1, LocksInvariant, PTL

\* Whatever was reserved, sold and given back meanwhile: unless a change to the item's
\* rows was committed since the statement chose them, they hold the item's quantity.
THEOREM RowsSuffice == LocksSpec => []UndisturbedRowsSuffice
<1>1. LocksOK => UndisturbedRowsSuffice
  BY UndisturbedSuffice DEF UndisturbedRowsSuffice
<1> QED
  BY <1>1, LocksInvariant, PTL

---------------------------------------------------------------------------
(* Wait cycles                                                             *)

\* The order in which a checkout locks: by priority, a stock row before its warehouse.
LockRank(lock) ==
  2 * Priority[lock[Len(lock)]] + (IF lock[1] = "warehouse" THEN 1 ELSE 0)

OneItem(c) == \A v1, v2 \in Items(c) : v1 = v2

Rising(locks) ==
  \A i, k \in 1..Len(locks) : i < k => LockRank(locks[i]) < LockRank(locks[k])

\* A checkout of one item locks in that order.
LocksRise(c) ==
  job[c] = "checkout" /\ OneItem(c) =>
    /\ Rising(waits[c])
    /\ todo[c] # {} => holds[c] = {}
    /\ \A lock \in holds[c], k \in 1..Len(waits[c]) : LockRank(lock) < LockRank(waits[c][k])

PrioritiesDiffer == \A w1, w2 \in Warehouses : Priority[w1] = Priority[w2] => w1 = w2

\* The ranks of a row's two locks.
LEMMA RankFacts ==
  /\ \A v \in Variants, w \in Warehouses : LockRank(StockRow(v, w)) = 2 * Priority[w]
  /\ \A w \in Warehouses : LockRank(WarehouseRow(w)) = 2 * Priority[w] + 1
  /\ \A lock \in Locks : LockRank(lock) \in Nat
<1>1. ASSUME NEW v \in Variants, NEW w \in Warehouses
      PROVE  LockRank(StockRow(v, w)) = 2 * Priority[w]
  <2>1. StockRow(v, w)[1] = "stock" /\ StockRow(v, w)[Len(StockRow(v, w))] = w
    BY LockFacts
  <2>2. Priority[w] \in Nat
    BY RowsAssumption
  <2> QED
    BY <2>1, <2>2 DEF LockRank
<1>2. ASSUME NEW w \in Warehouses
      PROVE  LockRank(WarehouseRow(w)) = 2 * Priority[w] + 1
  <2>1. WarehouseRow(w)[1] = "warehouse" /\ WarehouseRow(w)[Len(WarehouseRow(w))] = w
    BY LockFacts
  <2>2. Priority[w] \in Nat
    BY RowsAssumption
  <2> QED
    BY <2>1, <2>2 DEF LockRank
<1>3. \A lock \in Locks : LockRank(lock) \in Nat
  <2> TAKE lock \in Locks
  <2>1. \/ \E v \in Variants, w \in Warehouses : lock = StockRow(v, w)
        \/ \E w \in Warehouses : lock = WarehouseRow(w)
    BY DEF Locks
  <2>2. \A w \in Warehouses : 2 * Priority[w] \in Nat /\ 2 * Priority[w] + 1 \in Nat
    BY RowsAssumption
  <2> QED
    BY <1>1, <1>2, <2>1, <2>2
<1> QED
  BY <1>1, <1>2, <1>3

\* The rows a checkout selects, in the order it selects them.
LEMMA CheckoutRises ==
  ASSUME PrioritiesDiffer, NEW v \in Variants, NEW ws, NEW s, ws \subseteq Warehouses,
         s \in ByRank(ws, Priority)
  PROVE  Rising(LocksOf("checkout", v, s))
<1> DEFINE n == Cardinality(ws)
           locks == [i \in 1..(2 * n) |->
              IF i % 2 = 1 THEN StockRow(v, s[(i + 1) \div 2]) ELSE WarehouseRow(s[i \div 2])]
<1>1. n \in Nat /\ s \in [1..n -> ws] /\ Len(s) = n
  BY ByRankLists DEF ListsAll
<1>2. \A i, k \in 1..n : i < k => s[i] # s[k] /\ Priority[s[i]] <= Priority[s[k]]
  BY DEF ByRank
<1>3. LocksOf("checkout", v, s) = locks
  BY <1>1 DEF LocksOf
<1>4. Len(locks) = 2 * n
  <2>1. /\ LocksListed(LocksOf("checkout", v, s), "checkout", v, ws)
    BY ByRankLists, LocksOfLists
  <2>2. locks \in Seq(Locks)
    BY <1>3, <2>1 DEF LocksListed
  <2>3. DOMAIN locks = 1..(2 * n) /\ Len(locks) \in Nat /\ DOMAIN locks = 1..Len(locks)
    BY <2>2, LenProperties
  <2> QED
    BY <1>1, <2>3
<1>5. \A i \in 1..(2 * n) :
        /\ (i + 1) \div 2 \in 1..n
        /\ i % 2 = 1 => locks[i] = StockRow(v, s[(i + 1) \div 2])
        /\ i % 2 # 1 => locks[i] = WarehouseRow(s[(i + 1) \div 2])
  <2> TAKE i \in 1..(2 * n)
  <2>1. (i + 1) \div 2 \in 1..n
    BY <1>1
  <2>2. i % 2 # 1 => i \div 2 = (i + 1) \div 2
    BY <1>1
  <2> QED
    BY <2>1, <2>2
<1> HIDE DEF n, locks
<1> SUFFICES ASSUME NEW i \in 1..(2 * n), NEW k \in 1..(2 * n), i < k
             PROVE  LockRank(locks[i]) < LockRank(locks[k])
  BY <1>3, <1>4 DEF Rising
<1>6. PICK a, b : a = s[(i + 1) \div 2] /\ b = s[(k + 1) \div 2]
  OBVIOUS
<1>7. a \in Warehouses /\ b \in Warehouses
  BY <1>1, <1>5, <1>6
<1>8. Priority[a] \in Nat /\ Priority[b] \in Nat
  BY <1>7, RowsAssumption
<1>9. /\ LockRank(locks[i]) = 2 * Priority[a] + (IF i % 2 = 1 THEN 0 ELSE 1)
      /\ LockRank(locks[k]) = 2 * Priority[b] + (IF k % 2 = 1 THEN 0 ELSE 1)
  <2>1. LockRank(locks[i]) = 2 * Priority[a] + (IF i % 2 = 1 THEN 0 ELSE 1)
    BY <1>5, <1>6, <1>7, <1>8, RankFacts
  <2>2. LockRank(locks[k]) = 2 * Priority[b] + (IF k % 2 = 1 THEN 0 ELSE 1)
    BY <1>5, <1>6, <1>7, <1>8, RankFacts
  <2> QED
    BY <2>1, <2>2
<1>10. CASE (i + 1) \div 2 = (k + 1) \div 2
  <2>1. i % 2 = 1 /\ k % 2 # 1
    BY <1>1, <1>10
  <2>2. a = b
    BY <1>6, <1>10
  <2> QED
    BY <1>8, <1>9, <2>1, <2>2
<1>11. CASE (i + 1) \div 2 # (k + 1) \div 2
  <2>1. (i + 1) \div 2 < (k + 1) \div 2
    BY <1>1, <1>11
  <2>2. a # b /\ Priority[a] <= Priority[b]
    BY <1>2, <1>5, <1>6, <2>1
  <2>3. Priority[a] # Priority[b]
    BY <1>7, <2>2 DEF PrioritiesDiffer
  <2> QED
    BY <1>8, <1>9, <2>2, <2>3
<1> QED
  BY <1>10, <1>11

\* A step leaves the other calls' locks as they are.
LEMMA RiseStays ==
  ASSUME NEW c \in Customers, LocksRise(c),
         job'[c] = job[c], todo'[c] = todo[c], waits'[c] = waits[c], holds'[c] = holds[c]
  PROVE  LocksRise(c)'
BY DEF LocksRise, OneItem, Items

\* A checkout of one item keeps to the order, whatever the others do.
LEMMA StepKeepsRise ==
  ASSUME PrioritiesDiffer, LocksOK, \A c \in Customers : LocksRise(c), [LocksNext]_lockVars
  PROVE  \A c \in Customers : LocksRise(c)'
<1>1. LocksTyped /\ \A c \in Customers : CallFits(c)
  BY DEF LocksOK
<1>2. ASSUME NEW c \in Customers, NEW x \in Customers, x # c,
             \/ \E j \in {"checkout", "pay", "cancel"} : Call(c, j)
             \/ \E v \in Variants : SelectRows(c, v)
             \/ Lock(c) \/ Walk(c) \/ CommitCall(c) \/ Victim(c)
      PROVE  LocksRise(x)'
  <2>1. job'[x] = job[x] /\ todo'[x] = todo[x] /\ waits'[x] = waits[x] /\ holds'[x] = holds[x]
    <3>1. CASE \E j \in {"checkout", "pay", "cancel"} : Call(c, j)
      BY <1>1, <1>2, <3>1 DEF Call, LocksTyped
    <3>2. CASE \E v \in Variants : SelectRows(c, v)
      BY <1>1, <1>2, <3>2 DEF SelectRows, LocksTyped
    <3>3. CASE Lock(c)
      BY <1>1, <1>2, <3>3 DEF Lock, Grant, LocksTyped
    <3>4. ASSUME End(c)
          PROVE  job'[x] = job[x] /\ todo'[x] = todo[x] /\ waits'[x] = waits[x] /\ holds'[x] = holds[x]
      BY <1>1, <1>2, <3>4 DEF End, LocksTyped
    <3>5. CASE Walk(c)
      BY <1>1, <1>2, <3>4, <3>5 DEF Walk, Rollback, LocksTyped
    <3>6. CASE CommitCall(c) \/ Victim(c)
      BY <3>4, <3>6 DEF CommitCall, Victim, Rollback
    <3> QED
      BY <1>2, <3>1, <3>2, <3>3, <3>5, <3>6
  <2> QED
    BY <2>1, RiseStays
<1>3. ASSUME NEW c \in Customers, End(c)
      PROVE  LocksRise(c)'
  BY <1>1, <1>3 DEF End, LocksTyped, LocksRise
<1>4. ASSUME NEW c \in Customers, NEW j \in {"checkout", "pay", "cancel"}, Call(c, j)
      PROVE  LocksRise(c)'
  <2>1. waits'[c] = <<>> /\ holds'[c] = {}
    BY <1>1, <1>4 DEF Call, CallFits
  <2> QED
    BY <2>1 DEF LocksRise, Rising
<1>5. ASSUME NEW c \in Customers, NEW v \in Variants, SelectRows(c, v)
      PROVE  LocksRise(c)'
  <2> SUFFICES ASSUME job[c] = "checkout", OneItem(c)
               PROVE  Rising(waits'[c]) /\ todo'[c] = {} /\ holds'[c] = {}
    BY <1>5 DEF SelectRows, LocksRise, OneItem, Items
  <2>1. v \in todo[c] /\ todo'[c] = todo[c] \ {v} /\ holds' = holds
    BY <1>1, <1>5 DEF SelectRows, LocksTyped
  <2>2. todo'[c] = {}
    BY <1>1, <2>1 DEF CallFits, OneItem
  <2>3. holds'[c] = {}
    BY <2>1 DEF LocksRise
  <2>4. PICK s \in ByRank({w \in Warehouses : Qualifies(job[c], v, w)}, RowRank(job[c], v)) :
          waits' = [waits EXCEPT ![c] = LocksOf(job[c], v, s)]
    BY <1>5 DEF SelectRows
  <2>5. waits'[c] = LocksOf("checkout", v, s)
    BY <1>1, <2>4 DEF LocksTyped
  <2>6. RowRank(job[c], v) = Priority
    BY DEF RowRank
  <2>7. Rising(LocksOf("checkout", v, s))
    BY <2>4, <2>6, CheckoutRises
  <2> QED
    BY <2>2, <2>3, <2>5, <2>7
<1>6. ASSUME NEW c \in Customers, Lock(c)
      PROVE  LocksRise(c)'
  <2>0. PICK all : all = waits[c]
    OBVIOUS
  <2>1. /\ all # <<>> /\ all \in Seq(Locks)
        /\ holds'[c] = holds[c] \cup {Head(all)} /\ waits'[c] = Tail(all)
        /\ job' = job /\ todo' = todo
    BY <1>1, <1>6, <2>0 DEF Lock, Grant, LocksTyped
  <2>2. /\ Head(all) = all[1] /\ Len(all) \in Nat /\ Len(all) # 0 /\ Len(Tail(all)) = Len(all) - 1
        /\ \A i \in 1..Len(Tail(all)) : Tail(all)[i] = all[i + 1]
    BY <2>1, HeadTailProperties
  <2> SUFFICES ASSUME job[c] = "checkout", OneItem(c)
               PROVE  /\ Rising(Tail(all)) /\ todo[c] = {}
                      /\ \A lock \in holds[c] \cup {Head(all)}, k \in 1..Len(Tail(all)) :
                           LockRank(lock) < LockRank(Tail(all)[k])
    BY <2>1 DEF LocksRise, OneItem, Items
  <2>3. todo[c] = {}
    <3>1. line[c] # NoLine
      BY <1>1, <2>0, <2>1 DEF CallFits
    <3> QED
      BY <1>1, <3>1 DEF CallFits, OneItem
  <2>4. /\ \A i, k \in 1..Len(all) : i < k => LockRank(all[i]) < LockRank(all[k])
        /\ \A lock \in holds[c], k \in 1..Len(all) : LockRank(lock) < LockRank(all[k])
    BY <2>0 DEF LocksRise, Rising
  <2>5. ASSUME NEW i \in 1..Len(Tail(all))
        PROVE  i + 1 \in 1..Len(all) /\ 1 \in 1..Len(all) /\ 1 < i + 1 /\ Tail(all)[i] = all[i + 1]
    BY <2>2
  <2>6. Rising(Tail(all))
    <3> SUFFICES ASSUME NEW i \in 1..Len(Tail(all)), NEW k \in 1..Len(Tail(all)), i < k
                 PROVE  LockRank(Tail(all)[i]) < LockRank(Tail(all)[k])
      BY DEF Rising
    <3>1. i + 1 < k + 1 /\ i + 1 \in 1..Len(all) /\ k + 1 \in 1..Len(all)
      BY <2>5
    <3>2. LockRank(all[i + 1]) < LockRank(all[k + 1])
      BY <2>4, <3>1
    <3> QED
      BY <2>5, <3>2
  <2>7. ASSUME NEW lock \in holds[c] \cup {Head(all)}, NEW k \in 1..Len(Tail(all))
        PROVE  LockRank(lock) < LockRank(Tail(all)[k])
    <3>1. CASE lock \in holds[c]
      BY <2>4, <2>5, <3>1
    <3>2. CASE lock = all[1]
      <4>1. LockRank(all[1]) < LockRank(all[k + 1])
        BY <2>4, <2>5
      <4> QED
        BY <2>5, <3>2, <4>1
    <3> QED
      BY <2>2, <3>1, <3>2
  <2> QED
    BY <2>3, <2>6, <2>7
<1>7. ASSUME NEW c \in Customers, Walk(c)
      PROVE  LocksRise(c)'
  <2>1. CASE Rollback(c)
    BY <1>3, <2>1 DEF Rollback
  <2>2. CASE ~Rollback(c)
    <3>1. UNCHANGED <<job, todo, waits, holds>>
      BY <1>7, <2>2 DEF Walk
    <3> QED
      BY <3>1, RiseStays
  <2> QED
    BY <2>1, <2>2
<1>8. ASSUME UNCHANGED calls, NEW x \in Customers
      PROVE  LocksRise(x)'
  <2>1. job' = job /\ todo' = todo /\ waits' = waits /\ holds' = holds
    BY <1>8 DEF calls
  <2> QED
    BY <2>1, RiseStays
<1>9. ASSUME NEW c \in Customers, NEW x \in Customers,
             \/ \E j \in {"checkout", "pay", "cancel"} : Call(c, j)
             \/ \E v \in Variants : SelectRows(c, v)
             \/ Lock(c) \/ Walk(c) \/ CommitCall(c) \/ Victim(c)
      PROVE  LocksRise(x)'
  <2>1. CASE x # c
    BY <1>2, <1>9, <2>1
  <2>2. CASE x = c
    <3>1. ASSUME CommitCall(c) \/ Victim(c)
          PROVE  LocksRise(c)'
      BY <1>3, <3>1 DEF CommitCall, Victim, Rollback
    <3> QED
      BY <1>4, <1>5, <1>6, <1>7, <1>9, <2>2, <3>1
  <2> QED
    BY <2>1, <2>2
<1>10. CASE UNCHANGED lockVars
  BY <1>8, <1>10 DEF lockVars
<1>11. ASSUME NEW w \in Switchable, Switch(w), NEW x \in Customers
       PROVE  LocksRise(x)'
  BY <1>8, <1>11 DEF Switch
<1> QED
  BY <1>9, <1>10, <1>11 DEF LocksNext

\* Of a finite set that is not empty, some member has no member of higher rank.
LEMMA SomeHighest ==
  ASSUME NEW S, IsFiniteSet(S), S # {}, NEW rank \in [S -> Nat]
  PROVE  \E x \in S : \A y \in S : rank[y] <= rank[x]
<1> DEFINE Above(x) == {y \in S : rank[y] > rank[x]}
           T == {Cardinality(Above(x)) : x \in S}
<1>1. \A x \in S : IsFiniteSet(Above(x)) /\ Cardinality(Above(x)) \in Nat
  <2> TAKE x \in S
  <2>1. Above(x) \subseteq S
    OBVIOUS
  <2> HIDE DEF Above
  <2>2. IsFiniteSet(Above(x))
    BY <2>1, FS_Subset
  <2> QED
    BY <2>2, FS_CardinalityType
<1> HIDE DEF Above
<1>2. T \subseteq Nat /\ T # {}
  BY <1>1
<1>3. PICK m \in T : \A k \in T : m <= k
  <2> HIDE DEF T
  <2> QED
    BY <1>2, LeastOf
<1>4. PICK x \in S : m = Cardinality(Above(x))
  BY <1>3
<1>5. ASSUME NEW y \in S, ~(rank[y] <= rank[x])
      PROVE  FALSE
  <2>1. rank[y] \in Nat /\ rank[x] \in Nat /\ rank[y] > rank[x]
    BY <1>5
  <2>2. y \in Above(x) /\ y \notin Above(y)
    BY <2>1 DEF Above
  <2>3. Above(y) \subseteq Above(x)
    <3> SUFFICES ASSUME NEW z \in S, rank[z] > rank[y]
                 PROVE  rank[z] > rank[x]
      BY DEF Above
    <3>1. rank[z] \in Nat
      OBVIOUS
    <3> QED
      BY <2>1, <3>1
  <2>4. Cardinality(Above(y)) <= Cardinality(Above(x)) /\ Cardinality(Above(y)) # Cardinality(Above(x))
    BY <1>1, <2>2, <2>3, FS_Subset
  <2>5. Cardinality(Above(x)) <= Cardinality(Above(y))
    BY <1>3, <1>4
  <2> QED
    BY <1>1, <2>4, <2>5
<1> QED
  BY <1>5

\* Somebody in a wait cycle does not keep to the order.
LEMMA NoCycle ==
  ASSUME LocksOK, \A c \in Customers : LocksRise(c)
  PROVE  SingleItemCheckoutsDoNotDeadlock
<1>1. SUFFICES ASSUME NEW S \in SUBSET Customers, WaitCycle(S),
                      \A c \in S : job[c] = "checkout" /\
                        ~(Cardinality({v \in Variants : Wanted[c][v] > 0}) > 1)
               PROVE  FALSE
  BY DEF SingleItemCheckoutsDoNotDeadlock
<1>2. ASSUME NEW c \in S
      PROVE  OneItem(c)
  <2>1. Items(c) = {v \in Variants : Wanted[c][v] > 0}
    BY DEF Items
  <2>2. IsFiniteSet(Items(c)) /\ Cardinality(Items(c)) \in Nat
    BY <2>1, FiniteAssumption, FS_Subset, FS_CardinalityType
  <2>3. ~(Cardinality(Items(c)) > 1)
    BY <1>1, <2>1
  <2> SUFFICES ASSUME NEW v1 \in Items(c), NEW v2 \in Items(c), v1 # v2
               PROVE  FALSE
    BY DEF OneItem
  <2>4. {v1} \subseteq Items(c) /\ {v1} # Items(c) /\ Cardinality({v1}) = 1
    BY FS_Singleton
  <2>5. Cardinality({v1}) <= Cardinality(Items(c)) /\ Cardinality({v1}) # Cardinality(Items(c))
    BY <2>2, <2>4, FS_Subset
  <2> QED
    BY <2>2, <2>3, <2>4, <2>5
<1>3. \A c \in S : waits[c] \in Seq(Locks) /\ holds[c] \subseteq Locks
  BY DEF LocksOK, LocksTyped
<1>4. ASSUME NEW c \in S
      PROVE  /\ waits[c] # <<>> /\ 1 \in 1..Len(waits[c])
             /\ Head(waits[c]) = waits[c][1] /\ Head(waits[c]) \in Locks
  <2>1. waits[c] # <<>>
    BY <1>1 DEF WaitCycle, WaitsFor
  <2> QED
    BY <1>3, <2>1, HeadTailProperties
<1> DEFINE rank == [c \in S |-> LockRank(Head(waits[c]))]
<1>5. rank \in [S -> Nat]
  BY <1>4, RankFacts
<1>6. S # {} /\ IsFiniteSet(S)
  BY <1>1, WantedAssumption, FS_Subset DEF WaitCycle
<1>7. PICK c \in S : \A x \in S : rank[x] <= rank[c]
  <2> HIDE DEF rank
  <2> QED
    BY <1>5, <1>6, SomeHighest
<1>8. PICK other \in S : Head(waits[c]) \in holds[other]
  BY <1>1 DEF WaitCycle, WaitsFor
<1>9. LockRank(Head(waits[c])) < LockRank(waits[other][1])
  <2>1. LocksRise(other) /\ job[other] = "checkout" /\ OneItem(other)
    BY <1>1, <1>2
  <2>2. 1 \in 1..Len(waits[other])
    BY <1>4
  <2> QED
    BY <1>8, <2>1, <2>2 DEF LocksRise
<1>10. rank[c] < rank[other] /\ rank[c] \in Nat /\ rank[other] \in Nat
  BY <1>4, <1>5, <1>9
<1> QED
  BY <1>7, <1>10

\* If no two warehouses have the same priority, checkouts of one item each never wait
\* for each other in a circle (the ORDER BY of reserve_stock).
THEOREM CheckoutsDoNotDeadlock ==
  ASSUME PrioritiesDiffer
  PROVE  LocksSpec => []SingleItemCheckoutsDoNotDeadlock
<1> DEFINE Ranked == \A c \in Customers : LocksRise(c)
<1>1. LocksInit => Ranked
  BY DEF LocksInit, LocksRise
<1>2. LocksOK /\ Ranked /\ [LocksNext]_lockVars => Ranked'
  BY StepKeepsRise
<1>3. LocksOK /\ Ranked => SingleItemCheckoutsDoNotDeadlock
  BY NoCycle
<1> QED
  BY <1>1, <1>2, <1>3, LocksInvariant, PTL DEF LocksSpec

---------------------------------------------------------------------------
(* The contract of the stock                                               *)

\* A commit is one call of the contract, for the whole order.
LEMMA CommitKeepsContract ==
  ASSUME LocksOK, NEW c \in Customers, CommitCall(c)
  PROVE  StockKept!Next
<1>1. PICK take, b : take = taken[c] /\ b = Wanted[c]
  OBVIOUS
<1>2. CommitTakes(take, c) /\ b \in Baskets
  BY <1>1, CommitFacts, WantedAssumption
<1>3. InventoryTypeOK /\ job[c] \in {"checkout", "pay", "cancel"}
  BY DEF LocksOK, LocksTyped, CommitCall
<1>4. \A v \in Variants, w \in Warehouses :
        take[v][w] \in Nat /\ reserved[v][w] \in Nat /\ on_hand[v][w] \in Nat
  BY <1>2, <1>3 DEF CommitTakes, InventoryTypeOK, Rows
<1>5. /\ take \in [Variants -> [Warehouses -> Nat]]
      /\ \A v \in Variants : /\ Total(take[v]) <= b[v]
                             /\ job[c] # "cancel" => Total(take[v]) = b[v]
      /\ \A v \in Variants, w \in Warehouses :
           /\ take[v][w] <= RowLimit(job[c], v, w)
           /\ take[v][w] > 0 => (job[c] = "checkout" => active[w])
           /\ take[v][w] <= reserved[v][w] \/ job[c] = "checkout"
  BY <1>1, <1>2 DEF CommitTakes, TookOf
<1>6. take = [v \in Variants |-> [w \in Warehouses |-> take[v][w]]]
  BY <1>5
<1>7. ASSUME NEW less, NEW more,
             \A v \in Variants, w \in Warehouses : more[v][w] - less[v][w] = take[v][w]
      PROVE  StockKept!Between(less, more) = take
  BY <1>6, <1>7 DEF StockKept!Between
<1>8. CASE job[c] = "checkout"
  <2>1. reserved' = Added(reserved, take) /\ on_hand' = on_hand /\ active' = active
    BY <1>1, <1>8 DEF CommitCall
  <2>2. StockKept!Between(reserved, reserved') = take
    <3>1. \A v \in Variants, w \in Warehouses : reserved'[v][w] - reserved[v][w] = take[v][w]
      BY <1>4, <2>1 DEF Added
    <3> QED
      BY <1>7, <3>1
  <2>3. \A v \in Variants, w \in Warehouses :
          take[v][w] <= IF active[w] THEN Available(v, w) ELSE 0
    <3> TAKE v \in Variants, w \in Warehouses
    <3>1. take[v][w] \in Nat /\ take[v][w] <= Available(v, w) /\ (take[v][w] > 0 => active[w])
      BY <1>4, <1>5, <1>8 DEF RowLimit
    <3> QED
      BY <3>1
  <2>4. StockKept!Reserve(b)
    BY <1>5, <1>8, <2>1, <2>2, <2>3, SameUnits DEF StockKept!Reserve, StockKept!Takes, Available
  <2> QED
    BY <1>2, <2>4 DEF StockKept!Next
<1>9. CASE job[c] = "pay"
  <2>1. reserved' = Taken(reserved, take) /\ on_hand' = Taken(on_hand, take) /\ active' = active
    BY <1>1, <1>9 DEF CommitCall
  <2>2. StockKept!Between(reserved', reserved) = take
    <3>1. \A v \in Variants, w \in Warehouses : reserved[v][w] - reserved'[v][w] = take[v][w]
      BY <1>4, <2>1 DEF Taken
    <3> QED
      BY <1>7, <3>1
  <2>3. StockKept!Between(on_hand', on_hand) = take
    <3>1. \A v \in Variants, w \in Warehouses : on_hand[v][w] - on_hand'[v][w] = take[v][w]
      BY <1>4, <2>1 DEF Taken
    <3> QED
      BY <1>7, <3>1
  <2>4. \A v \in Variants, w \in Warehouses : take[v][w] <= Least(reserved[v][w], on_hand[v][w])
    BY <1>5, <1>9 DEF RowLimit, Committable
  <2>5. StockKept!Sell(b)
    BY <1>5, <1>9, <2>1, <2>2, <2>3, <2>4, SameUnits DEF StockKept!Sell, StockKept!Takes
  <2> QED
    BY <1>2, <2>5 DEF StockKept!Next
<1>10. CASE job[c] = "cancel"
  <2>1. reserved' = Taken(reserved, take) /\ on_hand' = on_hand /\ active' = active
    BY <1>1, <1>10 DEF CommitCall
  <2>2. StockKept!Between(reserved', reserved) = take
    <3>1. \A v \in Variants, w \in Warehouses : reserved[v][w] - reserved'[v][w] = take[v][w]
      BY <1>4, <2>1 DEF Taken
    <3> QED
      BY <1>7, <3>1
  <2>3. \A v \in Variants, w \in Warehouses : reserved'[v][w] \in 0..reserved[v][w]
    <3> TAKE v \in Variants, w \in Warehouses
    <3>1. reserved'[v][w] = reserved[v][w] - take[v][w] /\ take[v][w] <= reserved[v][w]
      BY <1>5, <1>10, <2>1 DEF Taken
    <3> QED
      BY <1>4, <3>1
  <2>4. StockKept!GiveBack(b)
    BY <1>5, <2>1, <2>2, <2>3, SameUnits DEF StockKept!GiveBack
  <2> QED
    BY <1>2, <2>4 DEF StockKept!Next
<1> QED
  BY <1>3, <1>8, <1>9, <1>10

\* Every other step leaves the stock alone, or is the staff's.
LEMMA StepKeepsContract ==
  ASSUME LocksOK, [LocksNext]_lockVars
  PROVE  StockKept!Next \/ UNCHANGED stock
<1>1. ASSUME NEW c \in Customers, CommitCall(c)
      PROVE  StockKept!Next
  BY <1>1, CommitKeepsContract
<1>2. ASSUME NEW c \in Customers,
             \/ \E j \in {"checkout", "pay", "cancel"} : Call(c, j)
             \/ \E v \in Variants : SelectRows(c, v)
             \/ Lock(c) \/ Walk(c) \/ Victim(c)
      PROVE  UNCHANGED stock
  BY <1>2 DEF Call, SelectRows, Lock, Grant, Walk, Victim, Rollback
<1>3. ASSUME NEW w \in Switchable, Switch(w)
      PROVE  StockKept!Next
  BY <1>3 DEF Switch, ToggleWarehouse, StockKept!Manage, StockKept!Next
<1>4. CASE UNCHANGED lockVars
  BY <1>4 DEF lockVars
<1> QED
  BY <1>1, <1>2, <1>3, <1>4 DEF LocksNext

\* Lock by lock, a call takes the whole order at its commit, from rows that have it, or
\* nothing (reserve_stock, commit_sale, release_reservation under READ COMMITTED).
THEOREM LocksImplementContract == LocksSpec => KeepsStockContract
<1>1. LocksInit => StockKept!Init
  BY DEF LocksInit, InventoryInit, StockKept!Init
<1>2. LocksOK /\ [LocksNext]_lockVars => [StockKept!Next]_<<on_hand, reserved, active>>
  BY StepKeepsContract DEF stock
<1> QED
  BY <1>1, <1>2, LocksInvariant, PTL DEF LocksSpec, KeepsStockContract, StockKept!Spec, StockKept!stock
=============================================================================
