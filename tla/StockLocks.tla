----------------------------- MODULE StockLocks -----------------------------
(***************************************************************************)
(* The same stock functions lock by lock.  Checkouts, payments and         *)
(* cancellations of different orders run at once under READ COMMITTED: a   *)
(* statement SELECT ... FOR UPDATE finds its rows and their order in a     *)
(* snapshot, then locks them one after the other, waiting for whoever      *)
(* holds one; a row that no longer qualifies when its lock is granted is   *)
(* left out (and stays locked), one that came to qualify meanwhile is not  *)
(* seen.  Locks are kept until the transaction commits or rolls back, and  *)
(* others see its writes only then.                                        *)
(*                                                                         *)
(* reserve_stock joins the warehouse, so it locks stock row and warehouse; *)
(* the other two lock stock rows only.  adjust_stock, which locks a single *)
(* row and waits for nothing else, is left to module Inventory.            *)
(***************************************************************************)
EXTENDS Inventory, Sequences

CONSTANTS
  Customers,  \* orders, one per customer
  Wanted      \* the basket of each order

NoLine == "none"

ASSUME WantedAssumption ==
  /\ Wanted \in [Customers -> Baskets]
  /\ IsFiniteSet(Customers)
  /\ NoLine \notin Variants

VARIABLES
  life,       \* what the database says of the order
  job,        \* the service call the order is in: a checkout, payment or cancellation
  todo,       \* the variants whose stock function the call has still to run
  line,       \* the variant whose rows are being locked, NoLine between two statements
  waits,      \* the locks the statement has still to get, in order
  found,      \* the warehouses whose rows are locked and qualify, in order
  holds,      \* the locks of the transaction
  taken,      \* what it took so far, not committed
  disturbed   \* others committed changes to the line's rows since its snapshot

calls == <<job, todo, line, waits, found, holds, taken, disturbed>>
lockVars == <<stock, life, calls>>

NothingTaken == [v \in Variants |-> [w \in Warehouses |-> 0]]
StockRow(v, w) == <<"stock", v, w>>
WarehouseRow(w) == <<"warehouse", w>>
Locks == {StockRow(v, w) : v \in Variants, w \in Warehouses} \cup {WarehouseRow(w) : w \in Warehouses}

LocksTypeOK ==
  /\ InventoryTypeOK
  /\ life \in [Customers -> {"unplaced", "pending", "paid", "cancelled"}]
  /\ job \in [Customers -> {"none", "checkout", "pay", "cancel"}]
  /\ todo \in [Customers -> SUBSET Variants]
  /\ line \in [Customers -> Variants \cup {NoLine}]
  /\ \A c \in Customers :
       /\ \A i \in DOMAIN waits[c] : waits[c][i] \in Locks
       /\ \A i \in DOMAIN found[c] : found[c][i] \in Warehouses
  /\ holds \in [Customers -> SUBSET Locks]
  /\ taken \in [Customers -> Takes]
  /\ disturbed \in [Customers -> BOOLEAN]

LocksInit ==
  /\ InventoryInit
  /\ life = [c \in Customers |-> "unplaced"]
  /\ job = [c \in Customers |-> "none"]
  /\ todo = [c \in Customers |-> {}]
  /\ line = [c \in Customers |-> NoLine]
  /\ waits = [c \in Customers |-> <<>>]
  /\ found = [c \in Customers |-> <<>>]
  /\ holds = [c \in Customers |-> {}]
  /\ taken = [c \in Customers |-> NothingTaken]
  /\ disturbed = [c \in Customers |-> FALSE]

---------------------------------------------------------------------------
(* Locks                                                                   *)

Unlocked(lock, c) == \A other \in Customers \ {c} : lock \notin holds[other]

\* c waits for a lock that other holds.
WaitsFor(c, other) == waits[c] # <<>> /\ c # other /\ Head(waits[c]) \in holds[other]

\* A set of transactions each of which waits for another of them.
WaitCycle(S) == S # {} /\ \A c \in S : \E other \in S : WaitsFor(c, other)

---------------------------------------------------------------------------
(* One statement: its snapshot, its locks, its loop                        *)

\* The sequences that list a set of warehouses by rank, ties in any order.
ByRank(ws, rank) ==
  {s \in [1..Cardinality(ws) -> ws] :
     \A i, j \in DOMAIN s : i < j => s[i] # s[j] /\ rank[s[i]] <= rank[s[j]]}

QualifiesFromTwo(j, v, w) == IF j = "checkout" THEN active[w] ELSE reserved[v][w] > 1
AnyOrder(j, v) == [w \in Warehouses |-> 0]

\* Which warehouses' rows the statement selects, and in which order.
Qualifies(j, v, w) == IF j = "checkout" THEN active[w] ELSE reserved[v][w] > 0

RowRank(j, v) == IF j = "checkout" THEN Priority ELSE MostReservedFirst(v)

\* The locks for the warehouses of sequence s: a checkout's rows are joined rows.
LocksOf(j, v, s) ==
  IF j = "checkout"
  THEN [i \in 1..(2 * Len(s)) |->
          IF i % 2 = 1 THEN StockRow(v, s[(i + 1) \div 2]) ELSE WarehouseRow(s[i \div 2])]
  ELSE [i \in 1..Len(s) |-> StockRow(v, s[i])]

\* The call starts: a checkout of a cart, or a transition of a pending order,
\* whose row it locks first, so that an order is in one call at a time.
Call(c, j) ==
  /\ job[c] = "none"
  /\ life[c] = IF j = "checkout" THEN "unplaced" ELSE "pending"
  /\ job' = [job EXCEPT ![c] = j]
  /\ todo' = [todo EXCEPT ![c] = {v \in Variants : Wanted[c][v] > 0}]
  /\ UNCHANGED <<stock, life, line, waits, found, holds, taken, disturbed>>

\* The statement's snapshot, for the next item (items come in no fixed order).
SelectRows(c, v) ==
  /\ line[c] = NoLine /\ v \in todo[c]
  /\ line' = [line EXCEPT ![c] = v]
  /\ todo' = [todo EXCEPT ![c] = @ \ {v}]
  /\ \E s \in ByRank({w \in Warehouses : Qualifies(job[c], v, w)}, RowRank(job[c], v)) :
       waits' = [waits EXCEPT ![c] = LocksOf(job[c], v, s)]
  /\ disturbed' = [disturbed EXCEPT ![c] = FALSE]
  /\ UNCHANGED <<stock, life, job, found, holds, taken>>

\* Grant the next lock.  The last lock of a row decides, on the row as it is
\* now, whether the statement returns it.
Grant(c) ==
  LET lock == Head(waits[c])
      w == lock[Len(lock)]
      last == job[c] # "checkout" \/ lock[1] = "warehouse"
  IN
  /\ holds' = [holds EXCEPT ![c] = @ \cup {lock}]
  /\ waits' = [waits EXCEPT ![c] = Tail(@)]
  /\ found' = IF last /\ Qualifies(job[c], line[c], w)
              THEN [found EXCEPT ![c] = Append(@, w)] ELSE found
  /\ UNCHANGED <<stock, life, job, todo, line, taken, disturbed>>

GrantUnchecked(c) == waits[c] # <<>> /\ Grant(c)

Lock(c) == waits[c] # <<>> /\ Unlocked(Head(waits[c]), c) /\ Grant(c)

\* What the loop of the call may take of one row.
RowLimit(j, v, w) ==
  CASE j = "checkout" -> Available(v, w)
    [] j = "pay"      -> Committable(v)[w]
    [] j = "cancel"   -> reserved[v][w]

\* "remaining" after the first i rows found.
Remaining(c) ==
  LET rest[i \in 0..Len(found[c])] ==
        IF i = 0 THEN Wanted[c][line[c]]
        ELSE rest[i - 1] - Least(RowLimit(job[c], line[c], found[c][i]), rest[i - 1])
  IN rest

\* The transaction ends: its locks go, the call returns.
End(c) ==
  /\ job' = [job EXCEPT ![c] = "none"]
  /\ todo' = [todo EXCEPT ![c] = {}]
  /\ line' = [line EXCEPT ![c] = NoLine]
  /\ waits' = [waits EXCEPT ![c] = <<>>]
  /\ found' = [found EXCEPT ![c] = <<>>]
  /\ holds' = [holds EXCEPT ![c] = {}]
  /\ taken' = [taken EXCEPT ![c] = NothingTaken]

Rollback(c) == End(c) /\ UNCHANGED <<stock, life, disturbed>>

\* The loop over the rows found.  A checkout or a payment that comes out short
\* raises OutOfStockError; a cancellation gives back what it can.
Walk(c) ==
  LET n == Len(found[c])
      took == [w \in Warehouses |->
                 IF \E i \in 1..n : found[c][i] = w
                 THEN LET i == CHOOSE i \in 1..n : found[c][i] = w
                      IN Remaining(c)[i - 1] - Remaining(c)[i]
                 ELSE 0]
  IN
  /\ line[c] # NoLine /\ waits[c] = <<>>
  /\ \/ /\ Remaining(c)[n] = 0 \/ job[c] = "cancel"
        /\ taken' = [taken EXCEPT ![c][line[c]] = took]
        /\ line' = [line EXCEPT ![c] = NoLine]
        /\ found' = [found EXCEPT ![c] = <<>>]
        /\ UNCHANGED <<stock, life, job, todo, waits, holds, disturbed>>
     \/ Remaining(c)[n] > 0 /\ job[c] # "cancel" /\ Rollback(c)

\* The statements that have chosen their rows before c's changes to them.
Disturb(c) ==
  disturbed' = [other \in Customers |->
                  \/ disturbed[other]
                  \/ other # c /\ line[other] # NoLine /\ Wanted[c][line[other]] > 0]

\* All items are done: the changes of the call become visible.
CommitCall(c) ==
  /\ job[c] # "none" /\ line[c] = NoLine /\ todo[c] = {}
  /\ \/ /\ job[c] = "checkout"
        /\ reserved' = Added(reserved, taken[c])
        /\ moved' = [moved EXCEPT !["reservation"] = Taken(@, taken[c])]
        /\ life' = [life EXCEPT ![c] = "pending"]
        /\ UNCHANGED <<on_hand, active>>
     \/ /\ job[c] = "pay"
        /\ reserved' = Taken(reserved, taken[c])
        /\ on_hand' = Taken(on_hand, taken[c])
        /\ moved' = [moved EXCEPT !["sale"] = Taken(@, taken[c])]
        /\ life' = [life EXCEPT ![c] = "paid"]
        /\ UNCHANGED active
     \/ /\ job[c] = "cancel"
        /\ reserved' = Taken(reserved, taken[c])
        /\ moved' = [moved EXCEPT !["reservation_release"] = Added(@, taken[c])]
        /\ life' = [life EXCEPT ![c] = "cancelled"]
        /\ UNCHANGED <<on_hand, active>>
  /\ Disturb(c)
  /\ End(c)

\* The database breaks a wait cycle by rolling one of its transactions back.
Victim(c) == (\E S \in SUBSET Customers : c \in S /\ WaitCycle(S)) /\ Rollback(c)

\* Staff switch a warehouse, an UPDATE that waits for the row's lock.
Switch(w) ==
  /\ \A c \in Customers : WarehouseRow(w) \notin holds[c]
  /\ ToggleWarehouse(w)
  /\ UNCHANGED <<life, calls>>

LocksNext ==
  \/ \E c \in Customers :
       \/ \E j \in {"checkout", "pay", "cancel"} : Call(c, j)
       \/ \E v \in Variants : SelectRows(c, v)
       \/ Lock(c) \/ Walk(c) \/ CommitCall(c) \/ Victim(c)
  \/ \E w \in Switchable : Switch(w)

LocksSpec == LocksInit /\ [][LocksNext]_lockVars

---------------------------------------------------------------------------
(* Properties                                                              *)

\* Two checkouts of a single item never wait for each other, whatever they
\* buy: a wait cycle has a payment, a cancellation or a checkout of several
\* items in it (the ORDER BY of reserve_stock).
SingleItemCheckoutsDoNotDeadlock ==
  \A S \in SUBSET Customers :
    WaitCycle(S) =>
      \E c \in S :
        \/ job[c] # "checkout"
        \/ Cardinality({v \in Variants : Wanted[c][v] > 0}) > 1

\* Rows chosen before and read after the wait: unless somebody committed
\* changes to them in between, the rows a payment or a cancellation has locked
\* hold the whole quantity of its item.  So only such a meeting makes a sale
\* of reserved goods fail or a cancellation give back too little.
UndisturbedRowsSuffice ==
  \A c \in Customers :
    job[c] \in {"pay", "cancel"} /\ line[c] # NoLine /\ waits[c] = <<>> /\ ~disturbed[c] =>
      Remaining(c)[Len(found[c])] = 0
=============================================================================
