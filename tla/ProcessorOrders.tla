---------------------------- MODULE ProcessorOrders ----------------------------
(***************************************************************************)
(* tw::channel_or::ProcessorOrders, the order state machine every request  *)
(* and every exchange response of the order routing chain passes through.  *)
(*                                                                         *)
(* A handler of ProcessorOrders reads and writes one order, its place in   *)
(* the table of open orders and the counters of the order's account and    *)
(* instrument, so each handler is an operator from an order to an order.   *)
(* The two last fields are this order's share of the shared counters:      *)
(* booked is what the handlers have added so far to _bids (_asks for a     *)
(* sell) on behalf of the order, filled what they have added to _pos (or   *)
(* taken off it, for a sell).                                              *)
(*                                                                         *)
(* The operators named <handler>_<slip> are the handlers with a slip a     *)
(* programmer could make.  Nothing uses them: they show which property of  *)
(* the order flow notices which slip.                                      *)
(***************************************************************************)
EXTENDS Integers

CONSTANTS
  Prices,               \* valid prices, in ticks
  InvalidPrice,         \* tw::price::Ticks::INVALID_VALUE()
  MAX_MOD_COUNTER,      \* modify requests an order may have in flight
  MAX_MOD_REJ_COUNTER,  \* modify rejects in a row before modifies are refused
  MAX_CXL_REJ_COUNTER   \* cancel rejects before cancels are refused

ASSUME PricesAssumption == InvalidPrice \notin Prices

ASSUME CountersAssumption ==
  /\ MAX_MOD_COUNTER \in Nat
  /\ MAX_MOD_REJ_COUNTER \in Nat
  /\ MAX_CXL_REJ_COUNTER \in Nat

Sides == {"Buy", "Sell"}

\* eOrderState.
States ==
  {"Unknown", "Pending", "Working", "Modifying", "Cancelling",
   "Cancelled", "Rejected", "Filled"}

Order ==
  [state         : States,
   side          : Sides,
   qty           : Int,
   cumQty        : Int,
   price         : Prices \cup {InvalidPrice},
   newPrice      : Prices \cup {InvalidPrice},
   cancelOnAck   : BOOLEAN,
   modCounter    : Int,
   modRejCounter : Nat,
   cxlRejCounter : Nat,
   inTable       : BOOLEAN,
   booked        : Int,
   filled        : Int]

\* createOrder: a cleared order of the pool to which the strategy has given a
\* side, a quantity and a price.
createOrder(side, qty, price) ==
  [state |-> "Unknown", side |-> side, qty |-> qty, cumQty |-> 0,
   price |-> price, newPrice |-> InvalidPrice, cancelOnAck |-> FALSE,
   modCounter |-> 0, modRejCounter |-> 0, cxlRejCounter |-> 0,
   inTable |-> FALSE, booked |-> 0, filled |-> 0]

\* isOrderLive.
isOrderLive(r) == r.state \notin {"Unknown", "Rejected", "Cancelled", "Filled"}

\* What a handler that may refuse hands back: the verdict and the order.
Verdict(ok, r) == [ok |-> ok, order |-> r]

--------------------------------------------------------------------------------
(***************************************************************************)
(* The table and the counters                                              *)
(***************************************************************************)

\* _table.add and changeOpenOrdersCounts(order, 1).
add(r) == [r EXCEPT !.inTable = TRUE, !.booked = @ + (r.qty - r.cumQty)]

\* remove: the counters first, whether or not the table knows the order.
remove(r) == [r EXCEPT !.inTable = FALSE, !.booked = @ - (r.qty - r.cumQty)]

\* changePosCounts for a normal fill (sign 1) and a busted one (sign -1).
changePosCounts(r, sign, q) ==
  [r EXCEPT !.booked = @ - sign * q, !.filled = @ + sign * q]

--------------------------------------------------------------------------------
(***************************************************************************)
(* Inbound handlers                                                        *)
(***************************************************************************)

onNewAck(r) ==
  IF r.state = "Pending" THEN [r EXCEPT !.state = "Working"] ELSE r

onNewRej(r) ==
  IF r.state \in {"Pending", "Unknown"}
    THEN remove([r EXCEPT !.state = "Rejected"])
    ELSE r

onModAck_Decrements(r) == [r EXCEPT !.modRejCounter = @ - 1]

onModAck(r) == [r EXCEPT !.modRejCounter = 0]

onModRej(r) == [r EXCEPT !.modRejCounter = @ + 1]

\* doOnModPost: an order that is no longer kModifying keeps its counter and its
\* prices.
doOnModPost(r, updatePrice) ==
  IF r.state = "Modifying"
    THEN [r EXCEPT
            !.modCounter = @ - 1,
            !.state = IF r.modCounter = 1 THEN "Working" ELSE @,
            !.price = IF updatePrice THEN r.newPrice ELSE @,
            !.newPrice = InvalidPrice]
    ELSE r

onModAckPost(r) == doOnModPost(r, TRUE)

\* onModRejPost, for a reject that ProcessorOrders itself issued and for the
\* others.
onModRejPost(r, own) ==
  IF own THEN [r EXCEPT !.newPrice = InvalidPrice] ELSE doOnModPost(r, FALSE)

onCxlAck_NotRemoved(r) == [r EXCEPT !.state = "Cancelled"]

onCxlAck(r) == remove([r EXCEPT !.state = "Cancelled"])

onCxlRej_StateKept(r) == [r EXCEPT !.cxlRejCounter = @ + 1]

onCxlRej_StateUnchecked(r) ==
  [r EXCEPT !.cxlRejCounter = @ + 1, !.state = "Working"]

onCxlRej(r) ==
  [r EXCEPT !.cxlRejCounter = @ + 1,
            !.state = IF @ = "Cancelling" THEN "Working" ELSE @]

onFill_RemovedFirst(r, q) ==
  LET done == IF r.qty <= r.cumQty + q
                THEN remove([r EXCEPT !.state = "Filled"])
                ELSE r
  IN  IF r.state = "Filled" THEN r
                            ELSE changePosCounts([done EXCEPT !.cumQty = @ + q], 1, q)

\* onFill, eFillType::kNormal.
onFill(r, q) ==
  LET cum == [r EXCEPT !.cumQty = @ + q]
      done == IF cum.qty <= cum.cumQty
                THEN remove([cum EXCEPT !.state = "Filled"])
                ELSE cum
  IN  IF r.state = "Filled" THEN r ELSE changePosCounts(done, 1, q)

\* onFill, eFillType::kBusted: a filled order works again, outside the table.
onBust(r, q) ==
  changePosCounts([r EXCEPT !.cumQty = @ - q,
                            !.state = IF @ = "Filled" THEN "Working" ELSE @],
                  -1, q)

--------------------------------------------------------------------------------
(***************************************************************************)
(* Outbound handlers                                                       *)
(***************************************************************************)

\* sendNew. Order ids are unique, so _table.add never finds a duplicate.
sendNew(r) ==
  LET pending == [r EXCEPT !.state = "Pending"] IN
  CASE r.state # "Unknown" -> Verdict(FALSE, r)
    [] r.state = "Unknown" /\ (r.qty <= 0 \/ r.price = InvalidPrice) ->
         Verdict(FALSE, onNewRej(pending))
    [] OTHER -> Verdict(TRUE, add(pending))

\* sendMod, the strategy having put the price it wants in _newPrice.
sendMod(r) ==
  LET modifying == [r EXCEPT !.state = "Modifying"] IN
  CASE \/ r.newPrice \in {InvalidPrice, r.price}
       \/ MAX_MOD_REJ_COUNTER < r.modRejCounter
       \/ r.state \notin {"Working", "Modifying"} -> Verdict(FALSE, r)
    [] OTHER ->
         IF MAX_MOD_COUNTER < r.modCounter + 1
           THEN Verdict(FALSE, modifying)
           ELSE Verdict(TRUE, [modifying EXCEPT !.modCounter = @ + 1])

sendCxl_WorkingForgotten(r) ==
  CASE MAX_CXL_REJ_COUNTER < r.cxlRejCounter -> Verdict(FALSE, r)
    [] MAX_CXL_REJ_COUNTER >= r.cxlRejCounter /\ r.state = "Modifying" ->
         Verdict(TRUE, [r EXCEPT !.state = "Cancelling"])
    [] OTHER -> Verdict(TRUE, [r EXCEPT !.cancelOnAck = TRUE])

sendCxl(r) ==
  CASE MAX_CXL_REJ_COUNTER < r.cxlRejCounter -> Verdict(FALSE, r)
    [] MAX_CXL_REJ_COUNTER >= r.cxlRejCounter
       /\ r.state \in {"Working", "Modifying"} ->
         Verdict(TRUE, [r EXCEPT !.state = "Cancelling"])
    [] OTHER -> Verdict(TRUE, [r EXCEPT !.cancelOnAck = TRUE])

================================================================================
