--------------------------- MODULE OrderContract ---------------------------
(***************************************************************************)
(* What the order component promises, with no stock rows, no payments and  *)
(* no status table.  An order is placed, is settled at most once, and is   *)
(* closed for good; goods leave the stock for it all at once, exactly when *)
(* it is settled, and never again (diagram and table in                    *)
(* apps/orders/models.py:1-47, side effects of transition_status).         *)
(***************************************************************************)
CONSTANT Orders

VARIABLES
  stage,  \* where the order is in its life
  taken   \* how much of the order has left the stock

Stages == {"unplaced", "open", "settled", "closed"}
Amounts == {"nothing", "everything", "some"}

ContractTypeOK ==
  /\ stage \in [Orders -> Stages]
  /\ taken \in [Orders -> Amounts]

Init ==
  /\ stage = [o \in Orders |-> "unplaced"]
  /\ taken = [o \in Orders |-> "nothing"]

Place(o) ==
  /\ stage[o] = "unplaced"
  /\ stage' = [stage EXCEPT ![o] = "open"]
  /\ UNCHANGED taken

Settle(o) ==
  /\ stage[o] = "open"
  /\ stage' = [stage EXCEPT ![o] = "settled"]
  /\ taken' = [taken EXCEPT ![o] = "everything"]

Close(o) ==
  /\ stage[o] \in {"open", "settled"}
  /\ stage' = [stage EXCEPT ![o] = "closed"]
  /\ UNCHANGED taken

Next == \E o \in Orders : Place(o) \/ Settle(o) \/ Close(o)

Spec == Init /\ [][Next]_<<stage, taken>>
=============================================================================
