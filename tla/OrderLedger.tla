------------------------------ MODULE OrderLedger ------------------------------
(***************************************************************************)
(* What the order path promises an account: a ledger.  An order is opened  *)
(* once, within the limit, trades no more than its quantity and is closed  *)
(* once; every trade moves its quantity from the open orders to the        *)
(* position and every close gives back what is left.  Nothing else moves   *)
(* either number.                                                          *)
(***************************************************************************)
EXTENDS Integers

CONSTANTS
  Orders,  \* the orders of the account
  Book,    \* the side, quantity and price each of them is created with
  Limit    \* the position the account may reach with everything open traded

VARIABLES
  stage,   \* "Idle", "Open" or "Closed"
  traded,  \* the quantity of each order that has traded
  open,    \* the quantity open on each side
  net      \* the position

ledger == <<stage, traded, open, net>>

Init ==
  /\ stage = [o \in Orders |-> "Idle"]
  /\ traded = [o \in Orders |-> 0]
  /\ open = [side \in {"Buy", "Sell"} |-> 0]
  /\ net = 0

Signed(o, q) == IF Book[o].side = "Buy" THEN q ELSE -q

\* The position if everything open on that side trades, in that direction.
Worst(side, quantity, position) ==
  IF side = "Buy" THEN position + quantity ELSE quantity - position

Open(o) ==
  LET side == Book[o].side IN
  /\ stage[o] = "Idle"
  /\ Worst(side, open[side] + Book[o].qty, net) <= Limit
  /\ stage' = [stage EXCEPT ![o] = "Open"]
  /\ open' = [open EXCEPT ![side] = @ + Book[o].qty]
  /\ UNCHANGED <<traded, net>>

Refuse(o) ==
  /\ stage[o] = "Idle"
  /\ stage' = [stage EXCEPT ![o] = "Closed"]
  /\ UNCHANGED <<traded, open, net>>

Trade(o) ==
  /\ stage[o] = "Open"
  /\ \E q \in 1 .. (Book[o].qty - traded[o]) :
       /\ traded' = [traded EXCEPT ![o] = @ + q]
       /\ open' = [open EXCEPT ![Book[o].side] = @ - q]
       /\ net' = net + Signed(o, q)
  /\ stage' = [stage EXCEPT ![o] =
                 IF traded'[o] = Book[o].qty THEN "Closed" ELSE "Open"]

Close(o) ==
  /\ stage[o] = "Open"
  /\ stage' = [stage EXCEPT ![o] = "Closed"]
  /\ open' = [open EXCEPT ![Book[o].side] = @ - (Book[o].qty - traded[o])]
  /\ UNCHANGED <<traded, net>>

Next == \E o \in Orders : Open(o) \/ Refuse(o) \/ Trade(o) \/ Close(o)

Spec == Init /\ [][Next]_ledger
================================================================================
