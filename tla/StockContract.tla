--------------------------- MODULE StockContract ---------------------------
(***************************************************************************)
(* What the stock component promises its callers, with no loop, no lock    *)
(* and no trail: a call for a whole order happens at once or not at all.   *)
(* It reserves exactly what was asked, of units that are free in an active *)
(* warehouse; it sells exactly what was asked, of units that are reserved  *)
(* and on the shelf; it gives back no more than was asked.  In which       *)
(* warehouse is left open (docstrings of apps/inventory/services.py).      *)
(***************************************************************************)
EXTENDS Units

CONSTANTS Variants, Warehouses, SafetyBuffer, Baskets

VARIABLES on_hand, reserved, active

stock == <<on_hand, reserved, active>>

\* How many units of each row lie between two states of the rows.
Between(less, more) == [v \in Variants |-> [w \in Warehouses |-> more[v][w] - less[v][w]]]

\* A take of exactly the basket b, no more of a row than its limit.
Takes(take, b, limit) ==
  /\ take \in [Variants -> [Warehouses -> Nat]]
  /\ \A v \in Variants : Total(take[v]) = b[v]
  /\ \A v \in Variants, w \in Warehouses : take[v][w] <= limit[v][w]

Reserve(b) ==
  LET unpromised == [v \in Variants |-> [w \in Warehouses |->
        IF active[w] THEN AtLeastZero(on_hand[v][w] - reserved[v][w] - SafetyBuffer[v][w]) ELSE 0]]
  IN
  /\ UNCHANGED <<on_hand, active>>
  /\ Takes(Between(reserved, reserved'), b, unpromised)

GiveBack(b) ==
  LET back == Between(reserved', reserved) IN
  /\ UNCHANGED <<on_hand, active>>
  /\ \A v \in Variants, w \in Warehouses : reserved'[v][w] \in 0..reserved[v][w]
  /\ \A v \in Variants : Total(back[v]) <= b[v]

Sell(b) ==
  LET onTheShelf == [v \in Variants |-> [w \in Warehouses |-> Least(reserved[v][w], on_hand[v][w])]] IN
  /\ UNCHANGED active
  /\ Takes(Between(reserved', reserved), b, onTheShelf)
  /\ Between(on_hand', on_hand) = Between(reserved', reserved)

\* Staff count the shelves and open or close warehouses as they like.
Manage ==
  /\ on_hand' = on_hand \/ active' = active
  /\ UNCHANGED reserved

Next ==
  \/ \E b \in Baskets : Reserve(b) \/ GiveBack(b) \/ Sell(b)
  \/ Manage

\* Every row starts with nothing reserved.
Init == reserved = [v \in Variants |-> [w \in Warehouses |-> 0]]

Spec == Init /\ [][Next]_stock
=============================================================================
