------------------------------- MODULE OrderFlow -------------------------------
(***************************************************************************)
(* The path of an order through the trading process: the strategy calls    *)
(* StrategyContainer, the request passes the outbound processor chain      *)
(* (Messaging, Orders, Throttle, WTP, Risk, PnL, channel) and leaves on a  *)
(* FIX session; the exchange answers; the session thread looks the order   *)
(* up in the channel's table and hands the answer to StrategyContainer.    *)
(*                                                                         *)
(* Every StrategyContainer entry point holds one lock, so each is one      *)
(* step here.  Three things happen outside that lock and are steps of      *)
(* their own: the exchange, the channel's own table (under the channel's   *)
(* lock, before the container is entered) and the first line of            *)
(* StrategyContainer::sendCxl.                                             *)
(*                                                                         *)
(* One account and one instrument.  Requests and responses of one order    *)
(* are delivered in order; those of different orders in any order, which   *)
(* covers one session and several.  The exchange is external: it is        *)
(* modelled by the responses ChannelOrOnix is written to receive.          *)
(***************************************************************************)
EXTENDS ProcessorOrders, Sequences, FiniteSets, FiniteSetsExt

CONSTANTS
  Orders,     \* the orders the strategies create
  Book,       \* the side, quantity and price each of them is created with
  MaxPos,     \* AccountRiskParams::_maxPos of the instrument
  MaxIds,     \* bound: clOrdIds one order may use
  MaxDowns,   \* bound: times the session goes down
  MaxBreaks,  \* bound: trades the exchange busts
  Reentrant,  \* a strategy may cancel from inside its onNewAck callback
  Unlocked    \* a thread may call sendCxl without holding the container's lock

ASSUME OrdersFinite == IsFiniteSet(Orders)

ASSUME FlowAssumption ==
  /\ Book \in [Orders -> [side : Sides, qty : Nat,
                        price : Prices \cup {InvalidPrice}]]
  /\ MaxPos \in Nat
  /\ MaxIds \in Nat
  /\ MaxDowns \in Nat
  /\ MaxBreaks \in Nat
  /\ Reentrant \in BOOLEAN
  /\ Unlocked \in BOOLEAN

VARIABLES
  ord,      \* the orders, as ProcessorOrders sees them
  bids,     \* AccountInstrOpenOrdersPos::_bids
  asks,     \* AccountInstrOpenOrdersPos::_asks
  pos,      \* AccountInstrOpenOrdersPos::_pos
  up,       \* the FIX session is ACTIVE
  downs,    \* times it went down
  breaks,   \* trades busted so far
  nextId,   \* the clOrdId IdFactory gives next, numbered per order
  origId,   \* Order::_origClOrderId
  chan,     \* the clOrdIds in the channel's own order table
  req,      \* requests sent and not yet handled by the exchange
  resp,     \* responses sent and not yet handled by the container
  picked,   \* the session thread has looked up the first response
  ex,       \* the exchange's view of the order
  cxlWait,  \* a thread has read the order's state and waits for the lock
  lost,     \* history: orders with a new or a modify lost with the session
  crossed,  \* history: orders for which a cancel overtook a modify
  late      \* history: orders to which a bust was booked after they had ended

counters == <<bids, asks, pos>>
session == <<up, downs, breaks>>
wire == <<nextId, origId, chan, req>>
history == <<lost, crossed, late>>
vars == <<ord, counters, session, wire, resp, picked, ex, cxlWait, history>>

--------------------------------------------------------------------------------

\* The clOrdId a message does not carry; IdFactory starts above it.
NoId == 0

\* What the rest of the chain does with a request that ProcessorOrders lets
\* through: nothing, or Throttle, WTP or PnL refuses it, or the session throws
\* while sending.
Outcomes == {"Pass", "Refuse", "Throw"}

Request ==
  [type : {"New", "Mod", "Cxl"}, id : Nat, orig : Nat,
   price : Prices \cup {InvalidPrice}]

RespTypes ==
  {"NewAck", "NewRej", "ModAck", "ModRej", "CxlAck", "CxlRej", "PartFill",
   "Fill", "TradeBreak"}

\* cum is the report's CumQty, which no handler reads.
Response ==
  [type : RespTypes, id : Nat, orig : Nat, price : Prices \cup {InvalidPrice},
   qty : Nat, cum : Nat]

Answer(type, m) ==
  [type |-> type, id |-> m.id, orig |-> m.orig, price |-> m.price, qty |-> 0,
   cum |-> 0]

Report(type, o, q, cum) ==
  [type |-> type, id |-> ex[o].id, orig |-> NoId, price |-> ex[o].price,
   qty |-> q, cum |-> cum]

Init ==
  /\ ord = [o \in Orders |-> createOrder(Book[o].side, Book[o].qty, Book[o].price)]
  /\ bids = 0 /\ asks = 0 /\ pos = 0
  /\ up = TRUE /\ downs = 0 /\ breaks = 0
  /\ nextId = [o \in Orders |-> NoId + 1]
  /\ origId = [o \in Orders |-> NoId]
  /\ chan = [o \in Orders |-> {}]
  /\ req = [o \in Orders |-> <<>>]
  /\ resp = [o \in Orders |-> <<>>]
  /\ picked = [o \in Orders |-> FALSE]
  /\ ex = [o \in Orders |->
             [status |-> "None", cum |-> 0, id |-> NoId, price |-> Book[o].price]]
  /\ cxlWait = {} /\ lost = {} /\ crossed = {} /\ late = {}

--------------------------------------------------------------------------------
(***************************************************************************)
(* ProcessorOrders and ProcessorRisk                                       *)
(***************************************************************************)

Sign(o) == IF Book[o].side = "Buy" THEN 1 ELSE -1

\* The counters once a handler has turned order o into r.
BidsWith(o, r) ==
  IF Book[o].side = "Buy" THEN bids + (r.booked - ord[o].booked) ELSE bids

AsksWith(o, r) ==
  IF Book[o].side = "Sell" THEN asks + (r.booked - ord[o].booked) ELSE asks

PosWith(o, r) == pos + Sign(o) * (r.filled - ord[o].filled)

Store(o, r) ==
  /\ ord' = [ord EXCEPT ![o] = r]
  /\ bids' = BidsWith(o, r)
  /\ asks' = AsksWith(o, r)
  /\ pos' = PosWith(o, r)

RiskAllows_OneMore(o, r) ==
  IF Book[o].side = "Buy"
    THEN PosWith(o, r) + BidsWith(o, r) <= MaxPos + 1
    ELSE AsksWith(o, r) - PosWith(o, r) <= MaxPos + 1

\* ProcessorRisk::sendNew, on the counters that ProcessorOrders::sendNew has
\* already moved.  The account and the instrument are configured and enabled;
\* the clip size is one more reason for the chain to refuse.
RiskAllows(o, r) ==
  IF Book[o].side = "Buy"
    THEN PosWith(o, r) + BidsWith(o, r) <= MaxPos
    ELSE AsksWith(o, r) - PosWith(o, r) <= MaxPos

--------------------------------------------------------------------------------
(***************************************************************************)
(* Outbound: StrategyContainer and the chain                               *)
(***************************************************************************)

\* addOrder, under the clOrdId the translator has just drawn.
AddOrder(o) ==
  /\ nextId' = [nextId EXCEPT ![o] = @ + 1]
  /\ chan' = [chan EXCEPT ![o] = @ \cup {nextId[o]}]

\* The request of that type, under that clOrdId, for the clOrdId last confirmed.
Send(o, type, orig, price) ==
  req' = [req EXCEPT ![o] =
            Append(@, [type |-> type, id |-> nextId[o], orig |-> orig,
                       price |-> price])]

\* StrategyContainer::sendNew.  Orders is ahead of the processors that refuse,
\* so a refusal is undone by onNewRej.  The channel draws a clOrdId before it
\* looks at the session.
SendNew(o) ==
  LET v == sendNew(ord[o]) IN
  /\ ord[o].state = "Unknown"
  /\ \/ /\ ~v.ok
        /\ Store(o, v.order)
        /\ UNCHANGED wire
     \/ /\ v.ok
        /\ Store(o, onNewRej(v.order))
        /\ UNCHANGED wire
     \/ /\ v.ok /\ RiskAllows(o, v.order) /\ ~up
        /\ Store(o, onNewRej(v.order))
        /\ nextId' = [nextId EXCEPT ![o] = @ + 1]
        /\ origId' = [origId EXCEPT ![o] = nextId[o]]
        /\ UNCHANGED <<chan, req>>
     \/ /\ v.ok /\ RiskAllows(o, v.order) /\ up
        /\ AddOrder(o)
        /\ origId' = [origId EXCEPT ![o] = nextId[o]]
        /\ \/ Store(o, v.order) /\ Send(o, "New", NoId, v.order.price)
           \/ Store(o, onNewRej(v.order)) /\ UNCHANGED req
  /\ UNCHANGED <<session, resp, picked, ex, cxlWait, history>>

\* StrategyContainer::sendMod with p in _newPrice.  A refusal by Orders itself
\* and one by a later processor end in different halves of onModRejPost.
SendMod(o, p) ==
  LET v == sendMod([ord[o] EXCEPT !.newPrice = p]) IN
  /\ ord[o].state # "Unknown"
  /\ ord[o].modRejCounter <= MAX_MOD_REJ_COUNTER + 1  \* bound
  /\ nextId[o] <= MaxIds                              \* bound
  /\ UNCHANGED origId
  /\ \/ /\ ~v.ok
        /\ Store(o, onModRejPost(onModRej(v.order), TRUE))
        /\ UNCHANGED <<nextId, chan, req>>
     \/ /\ v.ok
        /\ Store(o, onModRejPost(onModRej(v.order), FALSE))
        /\ \/ UNCHANGED <<nextId, chan>>
           \/ up /\ AddOrder(o)
        /\ UNCHANGED req
     \/ /\ v.ok /\ up
        /\ Store(o, v.order)
        /\ AddOrder(o)
        /\ Send(o, "Mod", origId[o], p)
  /\ UNCHANGED <<session, resp, picked, ex, cxlWait, history>>

\* What sendCxl leaves behind: the order, whether the channel drew a clOrdId
\* and whether a cancel went out.
CxlResult(r, adds, sends) == [order |-> r, adds |-> adds, sends |-> sends]

\* The chain under the lock: Orders, the processors that may refuse, and
\* ChannelOrOnix::sendCxl, which keeps the cancel back while _cancelOnAck.
CxlChain(r, outcome) ==
  LET v == sendCxl(r)
      refused == onCxlRej(v.order)
  IN  CASE ~v.ok -> CxlResult(r, FALSE, FALSE)
        [] v.ok /\ (outcome = "Refuse" \/ ~up) -> CxlResult(refused, FALSE, FALSE)
        [] v.ok /\ outcome # "Refuse" /\ up /\ v.order.cancelOnAck ->
             CxlResult(v.order, FALSE, FALSE)
        [] OTHER -> IF outcome = "Throw" THEN CxlResult(refused, TRUE, FALSE)
                                         ELSE CxlResult(v.order, TRUE, TRUE)

checkCancelOnAck_NotSent(r, outcome) ==
  CxlResult([r EXCEPT !.cancelOnAck = FALSE], FALSE, FALSE)

\* StrategyContainer::checkCancelOnAck; its sendCxl returns at once for an
\* order that is already being cancelled.
checkCancelOnAck(r, outcome) ==
  LET cleared == [r EXCEPT !.cancelOnAck = FALSE] IN
  CASE ~r.cancelOnAck -> CxlResult(r, FALSE, FALSE)
    [] r.cancelOnAck /\ r.state = "Cancelling" -> CxlResult(cleared, FALSE, FALSE)
    [] OTHER -> CxlChain(cleared, outcome)

\* What a cancel result puts on the wire.
Emit(o, c, orig) ==
  /\ IF c.adds THEN AddOrder(o) ELSE UNCHANGED <<nextId, chan>>
  /\ IF c.sends THEN Send(o, "Cxl", orig, c.order.price) ELSE UNCHANGED req

\* A cancel that reaches Orders while a modify is in flight.
Crosses(o, before, after) ==
  crossed' = IF before.state = "Modifying" /\ before # after
               THEN crossed \cup {o} ELSE crossed

\* What StrategyContainer::sendCxl does once it has the lock.
CxlLocked(o) ==
  /\ \E outcome \in Outcomes :
       LET c == CxlChain(ord[o], outcome) IN
       /\ Store(o, c.order)
       /\ Emit(o, c, origId[o])
       /\ Crosses(o, ord[o], c.order)
  /\ UNCHANGED <<session, origId, resp, picked, ex, lost, late>>

\* StrategyContainer::sendCxl reads the order's state ahead of the lock.
MayCxl(o) ==
  /\ ord[o].state \notin {"Unknown", "Cancelling"}
  /\ nextId[o] <= MaxIds                              \* bound

\* A caller that holds the lock already: a strategy in a callback or a timer, a
\* batch cancel.
SendCxl(o) == MayCxl(o) /\ CxlLocked(o) /\ UNCHANGED cxlWait

\* A caller that does not: the state may change before it gets the lock.
ReadCxlState(o) ==
  /\ Unlocked /\ MayCxl(o)
  /\ o \notin cxlWait
  /\ cxlWait' = cxlWait \cup {o}
  /\ UNCHANGED <<ord, counters, session, wire, resp, picked, ex, history>>

SendCxlUnlocked(o) ==
  o \in cxlWait /\ CxlLocked(o) /\ cxlWait' = cxlWait \ {o}

--------------------------------------------------------------------------------
(***************************************************************************)
(* Inbound: ChannelOrOnix, then StrategyContainer::onOrderResp             *)
(***************************************************************************)

\* The clOrdIds processOrderResp takes out of the channel's table.
Forgotten(o, m) ==
  CASE m.type \in {"NewRej", "ModRej", "CxlRej"} ->
         IF m.id # m.orig THEN {m.id} ELSE {}
    [] m.type = "ModAck" ->
         (IF m.id # m.orig THEN {m.orig} ELSE {}) \cup
         (IF m.id # origId[o] THEN {origId[o]} ELSE {})
    [] m.type \in {"CxlAck", "Fill"} -> {m.id, m.orig}
    [] OTHER -> {}

\* onInboundApplicationMsg: getOrder and processOrderResp.  A response for an
\* order the table no longer holds becomes an alert.
Receive(o) ==
  LET m == Head(resp[o]) IN
  /\ up /\ resp[o] # <<>> /\ ~picked[o]
  /\ IF {m.id, m.orig} \cap chan[o] # {}
       THEN /\ picked' = [picked EXCEPT ![o] = TRUE]
            /\ UNCHANGED resp
       ELSE /\ resp' = [resp EXCEPT ![o] = Tail(@)]
            /\ UNCHANGED picked
  /\ chan' = [chan EXCEPT ![o] = @ \ Forgotten(o, m)]
  /\ UNCHANGED <<ord, counters, session, nextId, origId, req, ex, cxlWait,
                 history>>

\* onOrderResp takes the looked-up response of this type off the session thread.
Take(o, type) ==
  /\ picked[o]
  /\ Head(resp[o]).type = type
  /\ resp' = [resp EXCEPT ![o] = Tail(@)]
  /\ picked' = [picked EXCEPT ![o] = FALSE]
  /\ UNCHANGED <<session, ex, cxlWait, lost>>

OnNewAck(o) ==
  /\ Take(o, "NewAck")
  /\ \E outcome \in Outcomes :
       LET c == checkCancelOnAck(onNewAck(ord[o]), outcome) IN
       Store(o, c.order) /\ Emit(o, c, origId[o])
  /\ UNCHANGED <<origId, crossed, late>>

\* The same with a client whose onNewAck callback cancels the order: the lock is
\* recursive, and the flag is still up when the chain runs.
OnNewAckReentrant(o) ==
  LET inner == CxlChain(onNewAck(ord[o]), "Pass")
      outer == checkCancelOnAck(inner.order, "Pass")
  IN  /\ Reentrant
      /\ Take(o, "NewAck")
      /\ Store(o, outer.order)
      /\ Emit(o, CxlResult(outer.order, inner.adds \/ outer.adds,
                           inner.sends \/ outer.sends), origId[o])
      /\ UNCHANGED <<origId, crossed, late>>

OnNewRej(o) ==
  /\ Take(o, "NewRej")
  /\ Store(o, onNewRej(ord[o]))
  /\ UNCHANGED <<wire, crossed, late>>

\* translateModAck puts the acknowledged price and clOrdId into the order first.
OnModAck(o) ==
  LET m == Head(resp[o])
      r == onModAckPost(onModAck([ord[o] EXCEPT !.newPrice = m.price]))
  IN  /\ Take(o, "ModAck")
      /\ \E outcome \in Outcomes :
           LET c == checkCancelOnAck(r, outcome) IN
           Store(o, c.order) /\ Emit(o, c, m.id) /\ Crosses(o, r, c.order)
      /\ origId' = [origId EXCEPT ![o] = m.id]
      /\ UNCHANGED late

OnModRej(o) ==
  LET r == onModRejPost(onModRej(ord[o]), FALSE) IN
  /\ Take(o, "ModRej")
  /\ \E outcome \in Outcomes :
       LET c == checkCancelOnAck(r, outcome) IN
       Store(o, c.order) /\ Emit(o, c, origId[o]) /\ Crosses(o, r, c.order)
  /\ UNCHANGED <<origId, late>>

OnCxlAck(o) ==
  /\ Take(o, "CxlAck")
  /\ Store(o, onCxlAck(ord[o]))
  /\ UNCHANGED <<wire, crossed, late>>

OnCxlRej(o) ==
  /\ Take(o, "CxlRej")
  /\ Store(o, onCxlRej(ord[o]))
  /\ UNCHANGED <<wire, crossed, late>>

OnFill(o) ==
  /\ Take(o, "Fill") \/ Take(o, "PartFill")
  /\ Store(o, onFill(ord[o], Head(resp[o]).qty))
  /\ UNCHANGED <<wire, crossed, late>>

OnBust(o) ==
  /\ Take(o, "TradeBreak")
  /\ Store(o, onBust(ord[o], Head(resp[o]).qty))
  /\ late' = IF ord[o].inTable THEN late ELSE late \cup {o}
  /\ UNCHANGED <<wire, crossed>>

--------------------------------------------------------------------------------
(***************************************************************************)
(* The exchange and the session                                            *)
(***************************************************************************)

Handle(o, type) ==
  /\ up /\ req[o] # <<>>
  /\ Head(req[o]).type = type
  /\ req' = [req EXCEPT ![o] = Tail(@)]
  /\ UNCHANGED <<ord, counters, session, nextId, origId, chan, picked, cxlWait,
                 history>>

Reply(o, m) == resp' = [resp EXCEPT ![o] = Append(@, m)]

ExNew(o) ==
  LET m == Head(req[o]) IN
  /\ Handle(o, "New")
  /\ \/ /\ ex' = [ex EXCEPT ![o].status = "Open", ![o].id = m.id]
        /\ Reply(o, Answer("NewAck", m))
     \/ /\ ex' = [ex EXCEPT ![o].status = "Closed"]
        /\ Reply(o, Answer("NewRej", m))

ExMod(o) ==
  LET m == Head(req[o]) IN
  /\ Handle(o, "Mod")
  /\ \/ /\ ex[o].status = "Open"
        /\ ex' = [ex EXCEPT ![o].id = m.id, ![o].price = m.price]
        /\ Reply(o, Answer("ModAck", m))
     \/ UNCHANGED ex /\ Reply(o, Answer("ModRej", m))

ExCxl(o) ==
  LET m == Head(req[o]) IN
  /\ Handle(o, "Cxl")
  /\ \/ /\ ex[o].status = "Open"
        /\ ex' = [ex EXCEPT ![o].status = "Closed"]
        /\ Reply(o, Answer("CxlAck", m))
     \/ UNCHANGED ex /\ Reply(o, Answer("CxlRej", m))

\* Fills and cancels the exchange decides on: trades, and the end of an
\* immediate-or-cancel order or of the day.
ExFill(o) ==
  /\ ex[o].status = "Open"
  /\ \E q \in 1 .. (Book[o].qty - ex[o].cum) :
       LET done == ex[o].cum + q = Book[o].qty IN
       /\ ex' = [ex EXCEPT ![o].cum = @ + q,
                           ![o].status = IF done THEN "Closed" ELSE @]
       /\ Reply(o, Report(IF done THEN "Fill" ELSE "PartFill", o, q, ex[o].cum + q))
  /\ UNCHANGED <<ord, counters, session, wire, picked, cxlWait, history>>

ExExpire(o) ==
  /\ ex[o].status = "Open"
  /\ ex' = [ex EXCEPT ![o].status = "Closed"]
  /\ Reply(o, Report("CxlAck", o, 0, ex[o].cum))
  /\ UNCHANGED <<ord, counters, session, wire, picked, cxlWait, history>>

\* A bust takes back a trade; onBust gives the quantity back to the order, so the
\* exchange is taken to do the same with an order that is still open.
ExBreak(o) ==
  /\ breaks < MaxBreaks
  /\ breaks' = breaks + 1
  /\ \E q \in 1 .. ex[o].cum :
       /\ ex' = [ex EXCEPT ![o].cum = @ - q]
       /\ Reply(o, Report("TradeBreak", o, q, ex[o].cum - q))
  /\ UNCHANGED <<ord, counters, up, downs, wire, picked, cxlWait, history>>

SessionDown ==
  /\ up /\ downs < MaxDowns
  /\ up' = FALSE /\ downs' = downs + 1
  /\ UNCHANGED <<breaks, ord, counters, wire, resp, picked, ex, cxlWait, history>>

\* Translator::shouldSend: only cancels are sent again after a gap.
LoseRequest(o) ==
  /\ ~up /\ req[o] # <<>>
  /\ Head(req[o]).type # "Cxl"
  /\ req' = [req EXCEPT ![o] = Tail(@)]
  /\ lost' = lost \cup {o}
  /\ UNCHANGED <<ord, counters, session, nextId, origId, chan, resp, picked, ex,
                 cxlWait, crossed, late>>

SessionUp ==
  /\ ~up
  /\ up' = TRUE
  /\ UNCHANGED <<ord, counters, downs, breaks, wire, resp, picked, ex, cxlWait,
                 history>>

--------------------------------------------------------------------------------

Strategy(o) ==
  \/ SendNew(o)
  \/ \E p \in Prices : SendMod(o, p)
  \/ SendCxl(o) \/ ReadCxlState(o) \/ SendCxlUnlocked(o)

Inbound(o) ==
  \/ OnNewAck(o) \/ OnNewAckReentrant(o) \/ OnNewRej(o)
  \/ OnModAck(o) \/ OnModRej(o)
  \/ OnCxlAck(o) \/ OnCxlRej(o)
  \/ OnFill(o) \/ OnBust(o)

Exchange(o) ==
  \/ ExNew(o) \/ ExMod(o) \/ ExCxl(o)
  \/ ExFill(o) \/ ExExpire(o) \/ ExBreak(o)

Next ==
  \/ \E o \in Orders :
       Strategy(o) \/ Receive(o) \/ Inbound(o) \/ Exchange(o) \/ LoseRequest(o)
  \/ SessionDown \/ SessionUp

Spec == Init /\ [][Next]_vars

--------------------------------------------------------------------------------
(***************************************************************************)
(* Properties                                                              *)
(***************************************************************************)

Exchanges ==
  [status : {"None", "Open", "Closed"}, cum : Nat, id : Nat,
   price : Prices \cup {InvalidPrice}]

\* Every variable keeps its type.
TypeOK ==
  /\ ord \in [Orders -> Order]
  /\ bids \in Int /\ asks \in Int /\ pos \in Int
  /\ up \in BOOLEAN /\ downs \in 0 .. MaxDowns /\ breaks \in 0 .. MaxBreaks
  /\ nextId \in [Orders -> Nat \ {NoId}]
  /\ origId \in [Orders -> Nat]
  /\ chan \in [Orders -> SUBSET Nat]
  /\ req \in [Orders -> Seq(Request)]
  /\ resp \in [Orders -> Seq(Response)]
  /\ picked \in [Orders -> BOOLEAN]
  /\ ex \in [Orders -> Exchanges]
  /\ cxlWait \subseteq Orders /\ lost \subseteq Orders /\ crossed \subseteq Orders
  /\ late \subseteq Orders

OfSide(side) == {o \in Orders : Book[o].side = side}

Filled(side) == SumFunctionOnSet([o \in Orders |-> ex[o].cum], OfSide(side))

\* What each order has left in _bids or _asks is exactly the quantity it still
\* has open while it is in the table, and nothing once it has left: the
\* additions of sendNew and the subtractions of remove and changePosCounts
\* cancel out whichever of them run, in whichever order.  Left out are the two
\* cases CountersOpen is refuted by.
BookedExact ==
  \A o \in Orders : Book[o].price \in Prices /\ o \notin late =>
    ord[o].booked = IF ord[o].inTable THEN ord[o].qty - ord[o].cumQty ELSE 0

\* _bids and _asks are what InstrOpenOrdersPos says they are, the open quantity
\* of the orders in the table.
CountersOpen ==
  LET open == [o \in Orders |->
                 IF ord[o].inTable THEN ord[o].qty - ord[o].cumQty ELSE 0]
  IN /\ bids = SumFunctionOnSet(open, OfSide("Buy"))
     /\ asks = SumFunctionOnSet(open, OfSide("Sell"))

\* _pos is the net of what the exchange has traded, busts taken back, once every
\* report has been handled: no fill is dropped and none is counted twice.
PosExact ==
  (\A o \in Orders : resp[o] = <<>>) => pos = Filled("Buy") - Filled("Sell")

\* A bust reaches an order that has ended only if a cancel overtook a modify of
\* it: nothing else leaves its clOrdId behind in the channel's table.
LateOnlyIfCrossed == late \subseteq crossed

\* The table of open orders, which batch cancels, order lists and the stuck
\* order timer go by, holds exactly the orders isOrderLive accepts.
TableHoldsLive == \A o \in Orders : ord[o].inTable <=> isOrderLive(ord[o])

Sent(o, types) == \E i \in DOMAIN req[o] : req[o][i].type \in types

Answered(o, types) == \E i \in DOMAIN resp[o] : resp[o][i].type \in types

\* Quantity the exchange may still fill, requests on the wire included.
MayFill(o) ==
  IF ex[o].status = "Open" \/ Sent(o, {"New"}) THEN Book[o].qty - ex[o].cum ELSE 0

Exposed(side) ==
  SumFunctionOnSet([o \in Orders |-> MayFill(o)], OfSide(side))

\* ProcessorRisk's limit holds at the exchange, not only in the process: even if
\* everything that is open or on the wire trades, and nothing on the other side
\* does, the account's position stays within MaxPos.
ExposureWithinMaxPos ==
  /\ Filled("Buy") + Exposed("Buy") - Filled("Sell") <= MaxPos
  /\ Filled("Sell") + Exposed("Sell") - Filled("Buy") <= MaxPos

\* The same limit as the process sees it, on the counters ProcessorRisk reads.
CountersWithinMaxPos ==
  (\A o \in Orders : Book[o].price \in Prices) =>
    pos + bids <= MaxPos /\ asks - pos <= MaxPos

\* Every response finds its order in the channel's table, whatever cancels and
\* modifies are in flight and whichever clOrdId the exchange answers to: no
\* fill or acknowledgement is turned into an untracked alert.  A bust may come
\* after the channel has let go of the order.
NeverUntracked ==
  \A o \in Orders : resp[o] # <<>> /\ ~picked[o] /\ Head(resp[o]).type # "TradeBreak" =>
    {Head(resp[o]).id, Head(resp[o]).orig} \cap chan[o] # {}

\* An order is Pending only while its new or the answer to it is on the way,
\* and Cancelling only while a cancel or an answer that ends it is: no order
\* waits for an answer nobody owes.
AnswerOwed ==
  \A o \in Orders :
    /\ ord[o].state = "Pending" /\ o \notin lost =>
         Sent(o, {"New"}) \/ Answered(o, {"NewAck", "NewRej"})
    /\ ord[o].state = "Cancelling" =>
         Sent(o, {"Cxl"}) \/ Answered(o, {"CxlAck", "CxlRej", "Fill"})

\* ChannelOrOnix::sendCxl delays a cancel "until ack", so an order whose cancel
\* is being delayed, and that is not being cancelled already, has a new or a
\* modify without an answer.
DelayedUntilAck ==
  \A o \in Orders :
    ord[o].state \in {"Pending", "Working", "Modifying"} /\ ord[o].cancelOnAck
    /\ o \notin lost =>
      \/ Sent(o, {"New", "Mod"})
      \/ Answered(o, {"NewAck", "NewRej", "ModAck", "ModRej"})

\* The flag of a live order comes down only in a step that puts the delayed
\* cancel on the wire or sees it refused: _cancelOnAck really cancels on the ack.
AckServesDelayed ==
  [][\A o \in Orders :
       ord[o].cancelOnAck /\ ~ord'[o].cancelOnAck /\ isOrderLive(ord'[o]) =>
         \/ Len(req'[o]) > Len(req[o])
         \/ ord'[o].cxlRejCounter > ord[o].cxlRejCounter
         \/ ord[o].cxlRejCounter > MAX_CXL_REJ_COUNTER]_vars

\* Modify requests not yet acknowledged or rejected.
ModsInFlight(o) ==
  Cardinality({i \in DOMAIN req[o] : req[o][i].type = "Mod"}) +
  Cardinality({i \in DOMAIN resp[o] : resp[o][i].type \in {"ModAck", "ModRej"}})

\* _modCounter of a live order counts its modify requests without an answer, as
\* OrderWire documents it, unless a cancel has overtaken one of them (doOnModPost
\* then leaves the counter where it is); such an order is Modifying exactly while a
\* modify is unanswered, and once it is Working its price is the exchange's.
ModsSettle ==
  \A o \in Orders : isOrderLive(ord[o]) /\ o \notin lost \cup crossed =>
    /\ ord[o].modCounter = ModsInFlight(o)
    /\ ord[o].state = "Modifying" <=> ModsInFlight(o) > 0
    /\ ord[o].state = "Working" => ord[o].price = ex[o].price

TerminalKept ==
  \A o \in Orders : ord[o].state \in {"Rejected", "Cancelled", "Filled"} =>
    ord'[o].state = ord[o].state

\* An order that is Rejected, Cancelled or Filled stays so: no late answer and
\* no late request brings it back.
TerminalStable == [][TerminalKept]_vars

(***************************************************************************)
(* The inductive invariant behind BookedExact, TableHoldsLive,             *)
(* TerminalStable and AccountKept.  It follows one order r, its requests   *)
(* q, its responses s and the exchange's view e, b being what the order    *)
(* was created with.                                                       *)
(***************************************************************************)

Fills == {"PartFill", "Fill"}

\* Responses that take quantity off the order, and those that end it.
Closing == Fills \cup {"CxlAck"}

Ending == {"NewRej", "CxlAck", "Fill"}

\* The process's own books.
BooksSound(r, b) ==
  /\ r.qty = b.qty
  /\ r.inTable <=> isOrderLive(r)
  /\ r.state = "Unknown" => r.cumQty = 0 /\ r.price = b.price
  /\ b.price \in Prices =>
       r.booked = IF r.inTable THEN r.qty - r.cumQty ELSE 0

\* Nothing is in flight for an order not yet sent, and nothing but the new for
\* one the exchange has not seen.
NewSound(r, q, s, e) ==
  /\ r.state = "Unknown" => q = <<>> /\ s = <<>> /\ e.status = "None"
  /\ \A i \in DOMAIN q : q[i].type = "New" =>
       Len(q) = 1 /\ s = <<>> /\ e.status = "None" /\ r.state = "Pending"

\* What is open at the exchange is in the table, and stays there until the
\* response that ends it has been handled; none that needs it there follows.
EndSound(r, s, e) ==
  /\ e.status = "Open" => r.inTable
  /\ \A i \in DOMAIN s : s[i].type \in Ending => e.status = "Closed"
  /\ \A i \in DOMAIN s : s[i].type \in Closing => r.inTable
  /\ \A i, j \in DOMAIN s :
       i < j /\ s[i].type \in Ending => s[j].type \notin Closing

\* The fills on the way never add up to more than the exchange has traded, so
\* only the report of the last one can complete the order.
CumSound(r, s, e, b) ==
  /\ r.cumQty <= e.cum /\ e.cum <= b.qty
  /\ \A i \in DOMAIN s : s[i].type \in Fills =>
       r.cumQty + s[i].qty <= s[i].cum /\ s[i].cum <= e.cum
  /\ \A i \in DOMAIN s : s[i].type = "PartFill" => s[i].cum < b.qty
  /\ \A i, j \in DOMAIN s :
       i < j /\ s[i].type \in Fills /\ s[j].type \in Fills =>
         s[i].cum + s[j].qty <= s[j].cum

Sound(r, q, s, e, b) ==
  /\ BooksSound(r, b)
  /\ NewSound(r, q, s, e)
  /\ EndSound(r, s, e)
  /\ CumSound(r, s, e, b)
  /\ \A i \in DOMAIN s : s[i].type # "TradeBreak"

(***************************************************************************)
(* The part of the invariant that traces messages: n is the clOrdId drawn  *)
(* next, g the one last confirmed, c the channel's table and p whether the *)
(* first response has been looked up.                                      *)
(***************************************************************************)

Acks == {"NewAck", "ModAck"}

NewAnswers == {"NewAck", "NewRej"}

\* What the exchange says unasked, under the clOrdId it knows the order by.
Reported(m) == m.type \in Fills \/ (m.type = "CxlAck" /\ m.orig = NoId)

\* Requests, and the answers to them, are in flight in the order in which their
\* clOrdIds were drawn, all of them after the one last confirmed.
IdsRise(r, q, s, n, g) ==
  /\ isOrderLive(r) => g # NoId
  /\ g < n
  /\ \A i \in DOMAIN q :
       /\ q[i].id < n
       /\ IF q[i].type = "New" THEN q[i].id = g /\ q[i].orig = NoId
            ELSE g < q[i].id /\ q[i].orig <= g /\ q[i].orig # NoId
  /\ \A i, j \in DOMAIN q : i < j => q[i].id < q[j].id
  /\ \A i \in DOMAIN s : ~Reported(s[i]) =>
       /\ s[i].id < n
       /\ IF s[i].type \in NewAnswers THEN i = 1 /\ s[i].id = g /\ s[i].orig = NoId
            ELSE g < s[i].id /\ s[i].orig <= g
       /\ \A j \in DOMAIN s : i < j /\ ~Reported(s[j]) => s[i].id < s[j].id
       /\ \A j \in DOMAIN q : s[i].id < q[j].id

\* A report carries the clOrdId of the last ack ahead of it, or the one the process
\* has confirmed already; the next report will, too.
IdsKnown(s, e, g) ==
  /\ \A i \in DOMAIN s : Reported(s[i]) =>
       /\ s[i].orig = NoId
       /\ (\A j \in DOMAIN s : j < i => s[j].type \notin Acks) => s[i].id = g
       /\ \A k \in DOMAIN s :
            /\ k < i /\ s[k].type \in Acks
            /\ \A j \in DOMAIN s : k < j /\ j < i => s[j].type \notin Acks
            => s[i].id = s[k].id
  /\ e.status = "Open" =>
       /\ (\A j \in DOMAIN s : s[j].type \notin Acks) => e.id = g
       /\ \A k \in DOMAIN s :
            /\ s[k].type \in Acks
            /\ \A j \in DOMAIN s : k < j => s[j].type \notin Acks
            => e.id = s[k].id

\* The channel's table holds the clOrdId of every request and every answer in
\* flight, and the one last confirmed while a report may still come.
IdsHeld(q, s, e, g, c, p) ==
  /\ \A i \in DOMAIN q : q[i].id \in c
  /\ \A i \in DOMAIN s :
       ~Reported(s[i]) /\ (p /\ i = 1 => s[i].type = "ModAck") => s[i].id \in c
  /\ \/ e.status = "Open"
     \/ \E i \in DOMAIN s : s[i].type \in Closing /\ (p => i # 1)
     => (p /\ s[1].type = "ModAck") \/ g \in c

\* The reports of fills follow each other without a gap, from what the process has
\* booked to what the exchange has traded.
FillsChain(r, s, e) ==
  /\ r.filled = r.cumQty
  /\ \A i \in DOMAIN s : s[i].type \in Fills =>
       /\ 1 <= s[i].qty
       /\ (\A j \in DOMAIN s : j < i => s[j].type \notin Fills) =>
            s[i].cum = r.filled + s[i].qty
       /\ (\A j \in DOMAIN s : i < j => s[j].type \notin Fills) => s[i].cum = e.cum
       /\ \A k \in DOMAIN s :
            /\ i < k /\ s[k].type \in Fills
            /\ \A j \in DOMAIN s : i < j /\ j < k => s[j].type \notin Fills
            => s[k].cum = s[i].cum + s[k].qty
  /\ (\A j \in DOMAIN s : s[j].type \notin Fills) => r.filled = e.cum

Traced(r, q, s, e, n, g, c, p) ==
  /\ IdsRise(r, q, s, n, g)
  /\ IdsKnown(s, e, g)
  /\ IdsHeld(q, s, e, g, c, p)
  /\ FillsChain(r, s, e)

\* Until a trade is busted, every order agrees with what is in flight for it: each
\* response that takes quantity off an order finds it in the table, the one that
\* ends it is the last such response, every response carries a clOrdId the channel
\* still holds when it comes to it, and the fills on the way are exactly what the
\* exchange has traded and the process has not booked.
FlowSound ==
  breaks = 0 =>
    \A o \in Orders :
      /\ Sound(ord[o], req[o], resp[o], ex[o], Book[o])
      /\ Traced(ord[o], req[o], resp[o], ex[o], nextId[o], origId[o], chan[o],
                picked[o])

(***************************************************************************)
(* Fairness: the session thread reads its socket and gets the container's  *)
(* lock, a thread inside sendCxl gets it too, and the exchange answers     *)
(* what it is sent, and the session scheduler brings a session up again.   *)
(* Nothing forces a fill, an expiry or a strategy.                         *)
(***************************************************************************)
FairSpec ==
  /\ Spec
  /\ \A o \in Orders :
       /\ WF_vars(Receive(o))
       /\ WF_vars(Inbound(o))
       /\ WF_vars(SendCxlUnlocked(o))
       /\ WF_vars(ExNew(o) \/ ExMod(o) \/ ExCxl(o))
  /\ WF_vars(SessionUp)

\* A cancel kept back until the ack is taken up: the order dies or the flag is
\* down again and the cancel has been through the chain.
CancelOnAckServed ==
  \A o \in Orders :
    ord[o].state = "Pending" /\ ord[o].cancelOnAck
      ~> \/ o \in lost
         \/ ord[o].state # "Pending" /\ (ord[o].cancelOnAck => ~isOrderLive(ord[o]))

\* An order that is being cancelled does not stay so.
CancelSettles ==
  \A o \in Orders : ord[o].state = "Cancelling" ~> ord[o].state # "Cancelling"

\* Cancels are served: one kept back is taken up, and no order stays Cancelling.
CancelsServed == CancelOnAckServed /\ CancelSettles

--------------------------------------------------------------------------------
\* What an order is owed, together: no request hangs without an answer to come, a
\* delayed cancel has an ack to wait for, modifies settle on the exchange's price, and
\* every answer finds the order it is about.
RequestsSettle ==
  AnswerOwed /\ DelayedUntilAck /\ ModsSettle /\ NeverUntracked /\ LateOnlyIfCrossed

\* What the account is owed, together: counters and position are exact, and neither
\* they nor what the exchange could still trade exceed the limit ProcessorRisk checks.
AccountKept ==
  CountersOpen /\ PosExact /\ CountersWithinMaxPos /\ ExposureWithinMaxPos
================================================================================
