--------------------------- MODULE OrderBooksProofs ----------------------------
(***************************************************************************)
(* Proofs about OrderFlow, for every set of orders and every limit: every  *)
(* handler keeps an order an order, and the books of ProcessorOrders stay  *)
(* exact - until a trade is busted, the table holds the live orders, the   *)
(* counters hold their open quantity and no order comes back from the      *)
(* dead.                                                                   *)
(*                                                                         *)
(* The argument about the books follows one order at a time: Sound relates *)
(* the order to what is in flight for it, most handlers are quiet (they    *)
(* touch nothing that Sound speaks of), and the remaining ones are the     *)
(* responses that end an order or take quantity off it.                    *)
(***************************************************************************)
EXTENDS OrderFlow, TLAPS

--------------------------------------------------------------------------------
(***************************************************************************)
(* The handlers keep an order an order                                     *)
(***************************************************************************)

\* The fields the handlers compute with.
LEMMA OrderFields ==
  ASSUME NEW r \in Order
  PROVE  /\ r.state \in States /\ r.side \in Sides
         /\ r.qty \in Int /\ r.cumQty \in Int
         /\ r.price \in Prices \cup {InvalidPrice}
         /\ r.newPrice \in Prices \cup {InvalidPrice}
         /\ r.cancelOnAck \in BOOLEAN /\ r.inTable \in BOOLEAN
         /\ r.modCounter \in Int /\ r.modRejCounter \in Nat
         /\ r.cxlRejCounter \in Nat
         /\ r.booked \in Int /\ r.filled \in Int
BY DEF Order

\* An order with another state is an order.
LEMMA StateType ==
  ASSUME NEW r \in Order, NEW s \in States
  PROVE  [r EXCEPT !.state = s] \in Order
BY DEF Order

\* The table and counter updates keep an order an order.
LEMMA CountsType ==
  ASSUME NEW r \in Order
  PROVE  add(r) \in Order /\ remove(r) \in Order
<1>1. add(r) \in Order
  <2>1. r.booked + (r.qty - r.cumQty) \in Int
    BY OrderFields
  <2> QED BY <2>1 DEF Order, add
<1>2. remove(r) \in Order
  <2>1. r.booked - (r.qty - r.cumQty) \in Int
    BY OrderFields
  <2> QED BY <2>1 DEF Order, remove
<1> QED BY <1>1, <1>2

\* So does the position update.
LEMMA PosCountsType ==
  ASSUME NEW r \in Order, NEW sign \in Int, NEW q \in Int
  PROVE  changePosCounts(r, sign, q) \in Order
<1>1. sign * q \in Int
  OBVIOUS
<1>2. r.booked - sign * q \in Int /\ r.filled + sign * q \in Int
  BY <1>1, OrderFields
<1> QED BY <1>2 DEF Order, changePosCounts

\* The inbound handlers keep an order an order.
LEMMA InboundType ==
  ASSUME NEW r \in Order
  PROVE  /\ onNewAck(r) \in Order
         /\ onNewRej(r) \in Order
         /\ onModAck(r) \in Order
         /\ onModRej(r) \in Order
         /\ onModAckPost(r) \in Order
         /\ onModRejPost(r, TRUE) \in Order
         /\ onModRejPost(r, FALSE) \in Order
         /\ onCxlAck(r) \in Order
         /\ onCxlRej(r) \in Order
<1>1. onNewAck(r) \in Order
  BY DEF Order, States, onNewAck
<1>2. onNewRej(r) \in Order
  <2>1. [r EXCEPT !.state = "Rejected"] \in Order
    BY DEF Order, States
  <2> QED BY <2>1, CountsType DEF onNewRej
<1>3. onModAck(r) \in Order /\ onModRej(r) \in Order
  BY DEF Order, onModAck, onModRej
<1>4. ASSUME NEW f \in BOOLEAN
      PROVE  doOnModPost(r, f) \in Order
  <2> DEFINE st == IF r.modCounter = 1 THEN "Working" ELSE r.state
             pr == IF f THEN r.newPrice ELSE r.price
  <2>1. /\ r.modCounter - 1 \in Int
        /\ st \in States
        /\ pr \in Prices \cup {InvalidPrice}
    BY OrderFields DEF States
  <2>2. [r EXCEPT !.modCounter = @ - 1, !.state = st, !.price = pr,
                  !.newPrice = InvalidPrice] \in Order
    BY <2>1 DEF Order
  <2> QED BY <2>2 DEF doOnModPost
<1>5. onModAckPost(r) \in Order
  BY <1>4 DEF onModAckPost
<1>6. onModRejPost(r, TRUE) \in Order /\ onModRejPost(r, FALSE) \in Order
  <2>1. doOnModPost(r, FALSE) \in Order
    BY <1>4
  <2>2. [r EXCEPT !.newPrice = InvalidPrice] \in Order
    BY DEF Order
  <2> QED BY <2>1, <2>2 DEF onModRejPost
<1>7. onCxlAck(r) \in Order
  <2>1. [r EXCEPT !.state = "Cancelled"] \in Order
    BY DEF Order, States
  <2> QED BY <2>1, CountsType DEF onCxlAck
<1>8. onCxlRej(r) \in Order
  <2> DEFINE st == IF r.state = "Cancelling" THEN "Working" ELSE r.state
  <2>1. st \in States /\ r.cxlRejCounter + 1 \in Nat
    BY OrderFields DEF States
  <2> QED BY <2>1 DEF Order, onCxlRej
<1> QED BY <1>1, <1>2, <1>3, <1>5, <1>6, <1>7, <1>8

\* Fills and busts keep an order an order.
LEMMA FillType ==
  ASSUME NEW r \in Order, NEW q \in Nat
  PROVE  onFill(r, q) \in Order /\ onBust(r, q) \in Order
<1>1. onFill(r, q) \in Order
  <2> DEFINE cum == [r EXCEPT !.cumQty = @ + q]
             done == IF cum.qty <= cum.cumQty
                       THEN remove([cum EXCEPT !.state = "Filled"])
                       ELSE cum
  <2>1. cum \in Order
    BY DEF Order
  <2>2. [cum EXCEPT !.state = "Filled"] \in Order
    BY <2>1 DEF Order, States
  <2>3. done \in Order
    BY <2>1, <2>2, CountsType
  <2>4. changePosCounts(done, 1, q) \in Order
    <3> HIDE DEF done
    <3> QED BY <2>3, PosCountsType
  <2> QED BY <2>4 DEF onFill
<1>2. onBust(r, q) \in Order
  <2> DEFINE s == [r EXCEPT !.cumQty = @ - q,
                            !.state = IF @ = "Filled" THEN "Working" ELSE @]
  <2>1. s \in Order
    <3> DEFINE st == IF r.state = "Filled" THEN "Working" ELSE r.state
    <3>1. st \in States /\ r.cumQty - q \in Int
      BY OrderFields DEF States
    <3> QED BY <3>1 DEF Order
  <2>2. changePosCounts(s, -1, q) \in Order
    <3> HIDE DEF s
    <3> QED BY <2>1, PosCountsType
  <2> QED BY <2>2 DEF onBust
<1> QED BY <1>1, <1>2

\* So do the outbound ones, whatever they decide.
LEMMA OutboundType ==
  ASSUME NEW r \in Order
  PROVE  /\ sendNew(r).order \in Order /\ sendNew(r).ok \in BOOLEAN
         /\ sendMod(r).order \in Order /\ sendMod(r).ok \in BOOLEAN
         /\ sendCxl(r).order \in Order /\ sendCxl(r).ok \in BOOLEAN
<1>1. sendNew(r).order \in Order /\ sendNew(r).ok \in BOOLEAN
  <2> DEFINE pending == [r EXCEPT !.state = "Pending"]
  <2>1. pending \in Order
    BY DEF Order, States
  <2>2. onNewRej(pending) \in Order /\ add(pending) \in Order
    <3> HIDE DEF pending
    <3> QED BY <2>1, InboundType, CountsType
  <2> QED BY <2>2 DEF sendNew, Verdict
<1>2. sendMod(r).order \in Order /\ sendMod(r).ok \in BOOLEAN
  <2> DEFINE modifying == [r EXCEPT !.state = "Modifying"]
  <2>1. modifying \in Order /\ [modifying EXCEPT !.modCounter = @ + 1] \in Order
    <3>1. r.modCounter + 1 \in Int
      BY OrderFields
    <3>2. "Modifying" \in States
      BY DEF States
    <3> QED BY <3>1, <3>2 DEF Order
  <2> QED BY <2>1 DEF sendMod, Verdict
<1>3. sendCxl(r).order \in Order /\ sendCxl(r).ok \in BOOLEAN
  <2>1. /\ [r EXCEPT !.state = "Cancelling"] \in Order
        /\ [r EXCEPT !.cancelOnAck = TRUE] \in Order
    BY DEF Order, States
  <2> QED BY <2>1 DEF sendCxl, Verdict
<1> QED BY <1>1, <1>2, <1>3

\* What the cancel chain hands back, with or without the ack's flag.
LEMMA ChainType ==
  ASSUME NEW r \in Order, NEW outcome \in Outcomes
  PROVE  /\ CxlChain(r, outcome).order \in Order
         /\ checkCancelOnAck(r, outcome).order \in Order
<1>1. ASSUME NEW x \in Order
      PROVE  CxlChain(x, outcome).order \in Order
  <2>1. sendCxl(x).order \in Order
    BY OutboundType
  <2>2. onCxlRej(sendCxl(x).order) \in Order
    BY <2>1, InboundType
  <2> QED BY <2>1, <2>2 DEF CxlChain, CxlResult
<1>2. [r EXCEPT !.cancelOnAck = FALSE] \in Order
  BY DEF Order
<1>3. CxlChain([r EXCEPT !.cancelOnAck = FALSE], outcome).order \in Order
  BY <1>1, <1>2
<1> QED BY <1>1, <1>2, <1>3 DEF checkCancelOnAck, CxlResult

--------------------------------------------------------------------------------
(***************************************************************************)
(* Type correctness                                                        *)
(***************************************************************************)

\* What a request or a response is put together from has the right type.
LEMMA MessageType ==
  ASSUME TypeOK, NEW o \in Orders
  PROVE  /\ req[o] # <<>> =>
              Head(req[o]) \in Request /\ Tail(req[o]) \in Seq(Request)
         /\ resp[o] # <<>> =>
              Head(resp[o]) \in Response /\ Tail(resp[o]) \in Seq(Response)
<1>1. req[o] \in Seq(Request) /\ resp[o] \in Seq(Response)
  BY DEF TypeOK
<1> QED BY <1>1

\* Storing an order keeps the table and the counters typed.
LEMMA StoreType ==
  ASSUME TypeOK, NEW o \in Orders, NEW r \in Order, Store(o, r)
  PROVE  /\ ord' \in [Orders -> Order]
         /\ bids' \in Int /\ asks' \in Int /\ pos' \in Int
<1>1. ord[o] \in Order
  BY DEF TypeOK
<1>2. /\ r.booked - ord[o].booked \in Int
      /\ r.filled - ord[o].filled \in Int
  BY <1>1, OrderFields
<1>3. Sign(o) * (r.filled - ord[o].filled) \in Int
  BY <1>2 DEF Sign
<1>4. pos' \in Int
  BY <1>3 DEF TypeOK, Store, PosWith
<1>5. bids' \in Int /\ asks' \in Int
  BY <1>2 DEF TypeOK, Store, BidsWith, AsksWith
<1>6. ord' \in [Orders -> Order]
  BY DEF TypeOK, Store
<1> QED BY <1>4, <1>5, <1>6

\* So does sending a request.
LEMMA SendType ==
  ASSUME TypeOK, NEW o \in Orders, NEW type \in {"New", "Mod", "Cxl"},
         NEW orig \in Nat, NEW price \in Prices \cup {InvalidPrice},
         Send(o, type, orig, price)
  PROVE  req' \in [Orders -> Seq(Request)]
<1> DEFINE m == [type |-> type, id |-> nextId[o], orig |-> orig, price |-> price]
<1>1. m \in Request
  BY DEF TypeOK, Request, NoId
<1>2. Append(req[o], m) \in Seq(Request)
  <2> HIDE DEF m
  <2> QED BY <1>1 DEF TypeOK
<1> QED BY <1>2 DEF TypeOK, Send

\* And entering an order into the channel's table.
LEMMA AddOrderType ==
  ASSUME TypeOK, NEW o \in Orders, AddOrder(o)
  PROVE  nextId' \in [Orders -> Nat \ {NoId}] /\ chan' \in [Orders -> SUBSET Nat]
BY DEF TypeOK, AddOrder, NoId

\* And what a cancel leaves behind.
LEMMA EmitType ==
  ASSUME TypeOK, NEW o \in Orders, NEW c, c.order \in Order, NEW orig \in Nat,
         Emit(o, c, orig)
  PROVE  /\ nextId' \in [Orders -> Nat \ {NoId}]
         /\ chan' \in [Orders -> SUBSET Nat]
         /\ req' \in [Orders -> Seq(Request)]
<1>1. c.order.price \in Prices \cup {InvalidPrice}
  BY OrderFields
<1>2. nextId' \in [Orders -> Nat \ {NoId}] /\ chan' \in [Orders -> SUBSET Nat]
  BY AddOrderType DEF Emit, TypeOK
<1>3. req' \in [Orders -> Seq(Request)]
  BY <1>1, SendType DEF Emit, TypeOK
<1> QED BY <1>2, <1>3

\* And a reply of the exchange.
LEMMA ReplyType ==
  ASSUME TypeOK, NEW o \in Orders, NEW m \in Response, Reply(o, m)
  PROVE  resp' \in [Orders -> Seq(Response)]
<1>1. Append(resp[o], m) \in Seq(Response)
  BY DEF TypeOK
<1> QED BY <1>1 DEF TypeOK, Reply

\* The strategy's requests.
LEMMA StrategyType ==
  ASSUME TypeOK, NEW o \in Orders, Strategy(o)
  PROVE  TypeOK'
<1>1. ord[o] \in Order
  BY DEF TypeOK
<1>2. CASE SendNew(o)
  <2> DEFINE v == sendNew(ord[o])
  <2>1. v.order \in Order /\ onNewRej(v.order) \in Order
    BY <1>1, OutboundType, InboundType
  <2>2. v.order.price \in Prices \cup {InvalidPrice}
    BY <2>1, OrderFields
  <2> HIDE DEF v
  <2>3. PICK r \in Order : Store(o, r)
    BY <1>2, <2>1 DEF SendNew, v
  <2>4. ord' \in [Orders -> Order] /\ bids' \in Int /\ asks' \in Int /\ pos' \in Int
    BY <2>3, StoreType
  <2>5. \/ UNCHANGED <<nextId, chan>>
        \/ AddOrder(o)
        \/ nextId' = [nextId EXCEPT ![o] = @ + 1] /\ UNCHANGED chan
    BY <1>2 DEF SendNew, wire
  <2>6. nextId' \in [Orders -> Nat \ {NoId}] /\ chan' \in [Orders -> SUBSET Nat]
    BY <2>5, AddOrderType, SMTT(40) DEF TypeOK, NoId
  <2>7. UNCHANGED req \/ Send(o, "New", NoId, v.order.price)
    BY <1>2 DEF SendNew, wire, v
  <2>8. req' \in [Orders -> Seq(Request)]
    BY <2>2, <2>7, SendType DEF TypeOK, NoId
  <2>9. origId' \in [Orders -> Nat]
    BY <1>2 DEF SendNew, TypeOK, wire, NoId
  <2> QED BY <1>2, <2>4, <2>6, <2>8, <2>9 DEF TypeOK, SendNew, session, history
<1>3. ASSUME NEW p \in Prices, SendMod(o, p)
      PROVE  TypeOK'
  <2> DEFINE x == [ord[o] EXCEPT !.newPrice = p]
             v == sendMod(x)
  <2>1. x \in Order
    BY <1>1 DEF Order
  <2>2. v.order \in Order
    <3> HIDE DEF x
    <3> QED BY <2>1, OutboundType
  <2> HIDE DEF v
  <2>3. /\ onModRejPost(onModRej(v.order), TRUE) \in Order
        /\ onModRejPost(onModRej(v.order), FALSE) \in Order
    BY <2>2, InboundType
  <2>4. PICK r \in Order : Store(o, r)
    BY <1>3, <2>2, <2>3 DEF SendMod, v
  <2>5. ord' \in [Orders -> Order] /\ bids' \in Int /\ asks' \in Int /\ pos' \in Int
    BY <2>4, StoreType
  <2>6. UNCHANGED <<nextId, chan>> \/ AddOrder(o)
    BY <1>3 DEF SendMod
  <2>7. nextId' \in [Orders -> Nat \ {NoId}] /\ chan' \in [Orders -> SUBSET Nat]
    BY <2>6, AddOrderType DEF TypeOK
  <2>8. UNCHANGED req \/ Send(o, "Mod", origId[o], p)
    BY <1>3 DEF SendMod
  <2>9. req' \in [Orders -> Seq(Request)]
    BY <2>8, SendType DEF TypeOK
  <2> QED BY <1>3, <2>5, <2>7, <2>9 DEF TypeOK, SendMod, session, history
<1>4. ASSUME CxlLocked(o), cxlWait' \subseteq Orders
      PROVE  TypeOK'
  <2>1. PICK outcome \in Outcomes :
          /\ Store(o, CxlChain(ord[o], outcome).order)
          /\ Emit(o, CxlChain(ord[o], outcome), origId[o])
          /\ Crosses(o, ord[o], CxlChain(ord[o], outcome).order)
    BY <1>4 DEF CxlLocked
  <2>2. CxlChain(ord[o], outcome).order \in Order
    BY <1>1, ChainType
  <2>3. ord' \in [Orders -> Order] /\ bids' \in Int /\ asks' \in Int /\ pos' \in Int
    BY <2>1, <2>2, StoreType
  <2>4. /\ nextId' \in [Orders -> Nat \ {NoId}]
        /\ chan' \in [Orders -> SUBSET Nat]
        /\ req' \in [Orders -> Seq(Request)]
    BY <2>1, <2>2, EmitType DEF TypeOK
  <2>5. crossed' \subseteq Orders
    BY <2>1 DEF Crosses, TypeOK
  <2> QED BY <1>4, <2>3, <2>4, <2>5 DEF TypeOK, CxlLocked, session
<1>5. CASE SendCxl(o)
  BY <1>4, <1>5 DEF SendCxl, TypeOK
<1>6. CASE ReadCxlState(o)
  BY <1>6 DEF ReadCxlState, TypeOK, counters, session, wire, history
<1>7. CASE SendCxlUnlocked(o)
  BY <1>4, <1>7 DEF SendCxlUnlocked, TypeOK
<1> QED BY <1>2, <1>3, <1>5, <1>6, <1>7 DEF Strategy

\* Taking a response leaves a typed queue.
LEMMA TakeType ==
  ASSUME TypeOK, NEW o \in Orders, NEW type, Take(o, type), resp[o] # <<>>
  PROVE  resp' \in [Orders -> Seq(Response)] /\ picked' \in [Orders -> BOOLEAN]
BY MessageType DEF TypeOK, Take

\* The session thread has looked up only responses that are there.
PickedThere == \A o \in Orders : picked[o] => resp[o] # <<>>

\* Handling an inbound response.
LEMMA InboundStepType ==
  ASSUME TypeOK, PickedThere, NEW o \in Orders, Inbound(o)
  PROVE  TypeOK'
<1>1. ord[o] \in Order
  BY DEF TypeOK
<1>2. picked[o]
  BY DEF Inbound, OnNewAck, OnNewAckReentrant, OnNewRej, OnModAck, OnModRej,
         OnCxlAck, OnCxlRej, OnFill, OnBust, Take
<1>3. resp[o] # <<>> /\ Head(resp[o]) \in Response
  BY <1>2, MessageType DEF PickedThere
<1> DEFINE m == Head(resp[o])
<1>4. m.price \in Prices \cup {InvalidPrice} /\ m.qty \in Nat /\ m.id \in Nat
  BY <1>3 DEF Response
<1> HIDE DEF m
<1>5. ASSUME NEW type, Take(o, type),
             NEW r \in Order, NEW outcome \in Outcomes, NEW orig \in Nat,
             Store(o, checkCancelOnAck(r, outcome).order),
             Emit(o, checkCancelOnAck(r, outcome), orig),
             origId' \in [Orders -> Nat], crossed' \subseteq Orders,
             UNCHANGED late
      PROVE  TypeOK'
  <2>1. checkCancelOnAck(r, outcome).order \in Order
    BY ChainType
  <2>2. ord' \in [Orders -> Order] /\ bids' \in Int /\ asks' \in Int /\ pos' \in Int
    BY <1>5, <2>1, StoreType
  <2>3. /\ nextId' \in [Orders -> Nat \ {NoId}]
        /\ chan' \in [Orders -> SUBSET Nat]
        /\ req' \in [Orders -> Seq(Request)]
    BY <1>5, <2>1, EmitType
  <2>4. resp' \in [Orders -> Seq(Response)] /\ picked' \in [Orders -> BOOLEAN]
    BY <1>3, <1>5, TakeType
  <2> QED BY <1>5, <2>2, <2>3, <2>4 DEF TypeOK, Take, session
<1>6. ASSUME NEW type, Take(o, type), NEW r \in Order, Store(o, r),
             late' \subseteq Orders, UNCHANGED <<wire, crossed>>
      PROVE  TypeOK'
  <2>1. ord' \in [Orders -> Order] /\ bids' \in Int /\ asks' \in Int /\ pos' \in Int
    BY <1>6, StoreType
  <2>2. resp' \in [Orders -> Seq(Response)] /\ picked' \in [Orders -> BOOLEAN]
    BY <1>3, <1>6, TakeType
  <2> QED BY <1>6, <2>1, <2>2 DEF TypeOK, Take, session, wire
<1>7. CASE OnNewAck(o)
  <2>1. onNewAck(ord[o]) \in Order
    BY <1>1, InboundType
  <2>2. PICK outcome \in Outcomes :
          /\ Store(o, checkCancelOnAck(onNewAck(ord[o]), outcome).order)
          /\ Emit(o, checkCancelOnAck(onNewAck(ord[o]), outcome), origId[o])
    BY <1>7 DEF OnNewAck
  <2>3. Take(o, "NewAck") /\ UNCHANGED <<origId, crossed, late>>
    BY <1>7 DEF OnNewAck
  <2>4. /\ origId[o] \in Nat
        /\ origId' \in [Orders -> Nat] /\ crossed' \subseteq Orders
    BY <2>3 DEF TypeOK
  <2> QED BY <1>5, <2>1, <2>2, <2>3, <2>4
<1>8. CASE OnNewAckReentrant(o)
  <2> DEFINE inner == CxlChain(onNewAck(ord[o]), "Pass")
             outer == checkCancelOnAck(inner.order, "Pass")
             c == CxlResult(outer.order, inner.adds \/ outer.adds,
                            inner.sends \/ outer.sends)
  <2>1. "Pass" \in Outcomes
    BY DEF Outcomes
  <2>2. inner.order \in Order
    BY <1>1, <2>1, InboundType, ChainType
  <2>3. outer.order \in Order
    <3> HIDE DEF inner
    <3> QED BY <2>1, <2>2, ChainType
  <2>4. c.order \in Order
    BY <2>3 DEF CxlResult
  <2>5. /\ Take(o, "NewAck") /\ UNCHANGED <<origId, crossed, late>>
        /\ Store(o, outer.order) /\ Emit(o, c, origId[o])
    BY <1>8 DEF OnNewAckReentrant
  <2> HIDE DEF outer, c
  <2>6. ord' \in [Orders -> Order] /\ bids' \in Int /\ asks' \in Int /\ pos' \in Int
    BY <2>3, <2>5, StoreType
  <2>7. /\ nextId' \in [Orders -> Nat \ {NoId}]
        /\ chan' \in [Orders -> SUBSET Nat]
        /\ req' \in [Orders -> Seq(Request)]
    BY <2>4, <2>5, EmitType DEF TypeOK
  <2>8. resp' \in [Orders -> Seq(Response)] /\ picked' \in [Orders -> BOOLEAN]
    BY <1>3, <2>5, TakeType
  <2> QED BY <2>5, <2>6, <2>7, <2>8 DEF TypeOK, Take, session
<1>9. CASE OnModAck(o)
  <2> DEFINE x == [ord[o] EXCEPT !.newPrice = m.price]
             r == onModAckPost(onModAck(x))
  <2>1. x \in Order
    BY <1>1, <1>4 DEF Order
  <2>2. r \in Order
    <3> HIDE DEF x
    <3> QED BY <2>1, InboundType
  <2>3. PICK outcome \in Outcomes :
          /\ Store(o, checkCancelOnAck(r, outcome).order)
          /\ Emit(o, checkCancelOnAck(r, outcome), m.id)
          /\ Crosses(o, r, checkCancelOnAck(r, outcome).order)
    BY <1>9 DEF OnModAck, m
  <2>4. Take(o, "ModAck") /\ origId' = [origId EXCEPT ![o] = m.id] /\ UNCHANGED late
    BY <1>9 DEF OnModAck, m
  <2>5. origId' \in [Orders -> Nat]
    BY <1>4, <2>4 DEF TypeOK
  <2>6. crossed' \subseteq Orders
    BY <2>3 DEF TypeOK, Crosses
  <2> HIDE DEF r
  <2> QED BY <1>4, <1>5, <2>2, <2>3, <2>4, <2>5, <2>6
<1>10. CASE OnModRej(o)
  <2> DEFINE r == onModRejPost(onModRej(ord[o]), FALSE)
  <2>1. r \in Order
    BY <1>1, InboundType
  <2>2. PICK outcome \in Outcomes :
          /\ Store(o, checkCancelOnAck(r, outcome).order)
          /\ Emit(o, checkCancelOnAck(r, outcome), origId[o])
          /\ Crosses(o, r, checkCancelOnAck(r, outcome).order)
    BY <1>10 DEF OnModRej
  <2>3. Take(o, "ModRej") /\ UNCHANGED <<origId, late>>
    BY <1>10 DEF OnModRej
  <2>4. /\ origId[o] \in Nat /\ origId' \in [Orders -> Nat]
        /\ crossed' \subseteq Orders
    BY <2>2, <2>3 DEF TypeOK, Crosses
  <2> HIDE DEF r
  <2> QED BY <1>5, <2>1, <2>2, <2>3, <2>4
<1>11. CASE OnNewRej(o) \/ OnCxlAck(o) \/ OnCxlRej(o)
  <2>1. PICK r \in Order : Store(o, r)
    BY <1>1, <1>11, InboundType DEF OnNewRej, OnCxlAck, OnCxlRej
  <2>2. (\E type : Take(o, type)) /\ UNCHANGED <<wire, crossed, late>>
    BY <1>11 DEF OnNewRej, OnCxlAck, OnCxlRej
  <2> QED BY <1>6, <2>1, <2>2 DEF TypeOK
<1>12. CASE OnFill(o) \/ OnBust(o)
  <2>1. onFill(ord[o], m.qty) \in Order /\ onBust(ord[o], m.qty) \in Order
    BY <1>1, <1>4, FillType
  <2>2. PICK r \in Order : Store(o, r)
    BY <1>12, <2>1 DEF OnFill, OnBust, m
  <2>3. (\E type : Take(o, type)) /\ UNCHANGED <<wire, crossed>>
    BY <1>12 DEF OnFill, OnBust
  <2>4. late' \subseteq Orders
    BY <1>12 DEF OnFill, OnBust, TypeOK
  <2> QED BY <1>6, <2>2, <2>3, <2>4
<1> QED BY <1>7, <1>8, <1>9, <1>10, <1>11, <1>12 DEF Inbound

\* The exchange's steps.
LEMMA ExchangeType ==
  ASSUME TypeOK, NEW o \in Orders, Exchange(o)
  PROVE  TypeOK'
<1> USE FlowAssumption
<1>1. /\ ex[o] \in Exchanges /\ ex[o].id \in Nat /\ ex[o].cum \in Nat
      /\ ex[o].price \in Prices \cup {InvalidPrice}
      /\ Book[o].qty \in Nat
  BY DEF TypeOK, Exchanges
<1>2. ASSUME NEW type \in RespTypes, NEW x \in Request
      PROVE  Answer(type, x) \in Response
  BY DEF Answer, Response, Request
<1>3. ASSUME NEW type \in RespTypes, NEW q \in Nat, NEW cum \in Nat
      PROVE  Report(type, o, q, cum) \in Response
  BY <1>1 DEF Report, Response, NoId
<1> DEFINE m == Head(req[o])
<1>4. CASE ExNew(o) \/ ExMod(o) \/ ExCxl(o)
  <2>1. /\ req[o] # <<>> /\ req' = [req EXCEPT ![o] = Tail(@)]
        /\ UNCHANGED <<ord, counters, session, nextId, origId, chan, picked,
                       cxlWait, history>>
    BY <1>4 DEF ExNew, ExMod, ExCxl, Handle
  <2>2. m \in Request /\ req' \in [Orders -> Seq(Request)]
    BY <2>1, MessageType DEF TypeOK
  <2>3. m.id \in Nat /\ m.price \in Prices \cup {InvalidPrice}
    BY <2>2 DEF Request
  <2>4. PICK type \in RespTypes : Reply(o, Answer(type, m))
    BY <1>4 DEF ExNew, ExMod, ExCxl, RespTypes
  <2>5. resp' \in [Orders -> Seq(Response)]
    BY <1>2, <2>2, <2>4, ReplyType
  <2>6. ex' \in [Orders -> Exchanges]
    <3> HIDE DEF m
    <3>1. \/ UNCHANGED ex
          \/ ex' = [ex EXCEPT ![o].status = "Open", ![o].id = m.id]
          \/ ex' = [ex EXCEPT ![o].status = "Closed"]
          \/ ex' = [ex EXCEPT ![o].id = m.id, ![o].price = m.price]
      BY <1>4 DEF ExNew, ExMod, ExCxl, m
    <3> DEFINE opened == [ex[o] EXCEPT !.status = "Open", !.id = m.id]
               closed == [ex[o] EXCEPT !.status = "Closed"]
               modified == [ex[o] EXCEPT !.id = m.id, !.price = m.price]
    <3>2. opened \in Exchanges /\ closed \in Exchanges /\ modified \in Exchanges
      BY <1>1, <2>3 DEF Exchanges
    <3>3. \/ UNCHANGED ex
          \/ ex' = [ex EXCEPT ![o] = opened]
          \/ ex' = [ex EXCEPT ![o] = closed]
          \/ ex' = [ex EXCEPT ![o] = modified]
      BY <3>1
    <3> HIDE DEF opened, closed, modified
    <3> QED BY <3>2, <3>3 DEF TypeOK
  <2> QED BY <2>1, <2>2, <2>5, <2>6 DEF TypeOK, counters, session, history
<1>5. CASE ExFill(o)
  <2>1. PICK q \in 1 .. (Book[o].qty - ex[o].cum) :
          /\ \E st \in {"Closed", ex[o].status} :
               ex' = [ex EXCEPT ![o].cum = @ + q, ![o].status = st]
          /\ \E type \in {"Fill", "PartFill"} :
               Reply(o, Report(type, o, q, ex[o].cum + q))
    BY <1>5 DEF ExFill
  <2>2. q \in Nat /\ ex[o].cum + q \in Nat
    BY <1>1, <2>1
  <2>3. resp' \in [Orders -> Seq(Response)]
    BY <1>3, <2>1, <2>2, ReplyType DEF RespTypes
  <2>4. ex' \in [Orders -> Exchanges]
    <3>1. PICK st \in {"Closed", ex[o].status} :
            ex' = [ex EXCEPT ![o].cum = @ + q, ![o].status = st]
      BY <2>1
    <3> DEFINE e == [ex[o] EXCEPT !.cum = @ + q, !.status = st]
    <3>2. st \in {"None", "Open", "Closed"}
      BY <1>1, <3>1 DEF Exchanges
    <3>3. e \in Exchanges
      BY <1>1, <2>2, <3>2 DEF Exchanges
    <3>4. ex' = [ex EXCEPT ![o] = e]
      BY <3>1
    <3> HIDE DEF e
    <3> QED BY <3>3, <3>4 DEF TypeOK
  <2> QED BY <1>5, <2>3, <2>4 DEF ExFill, TypeOK, counters, session, wire, history
<1>6. CASE ExExpire(o)
  <2>1. Report("CxlAck", o, 0, ex[o].cum) \in Response
    BY <1>1, <1>3 DEF RespTypes
  <2>2. resp' \in [Orders -> Seq(Response)]
    BY <1>6, <2>1, ReplyType DEF ExExpire
  <2>3. ex' \in [Orders -> Exchanges]
    BY <1>6 DEF ExExpire, TypeOK, Exchanges
  <2> QED BY <1>6, <2>2, <2>3 DEF ExExpire, TypeOK, counters, session, wire, history
<1>7. CASE ExBreak(o)
  <2>1. PICK q \in 1 .. ex[o].cum :
          /\ ex' = [ex EXCEPT ![o].cum = @ - q]
          /\ Reply(o, Report("TradeBreak", o, q, ex[o].cum - q))
    BY <1>7 DEF ExBreak
  <2>2. q \in Nat /\ ex[o].cum - q \in Nat
    BY <1>1, <2>1
  <2>3. Report("TradeBreak", o, q, ex[o].cum - q) \in Response
    BY <1>3, <2>2 DEF RespTypes
  <2>4. resp' \in [Orders -> Seq(Response)]
    BY <2>1, <2>3, ReplyType
  <2>5. ex' \in [Orders -> Exchanges]
    BY <2>1, <2>2, ZenonT(40) DEF TypeOK, Exchanges
  <2>6. breaks' \in 0 .. MaxBreaks
    BY <1>7, SMTT(40) DEF ExBreak, TypeOK
  <2> QED BY <1>7, <2>4, <2>5, <2>6 DEF ExBreak, TypeOK, counters, wire, history
<1> QED BY <1>4, <1>5, <1>6, <1>7 DEF Exchange

\* The initial state.
LEMMA InitType == Init => TypeOK /\ PickedThere
<1> SUFFICES ASSUME Init PROVE TypeOK /\ PickedThere
  OBVIOUS
<1> USE FlowAssumption
<1>1. ASSUME NEW o \in Orders
      PROVE  createOrder(Book[o].side, Book[o].qty, Book[o].price) \in Order
  <2>1. /\ Book[o].side \in Sides /\ Book[o].qty \in Int
        /\ Book[o].price \in Prices \cup {InvalidPrice}
    OBVIOUS
  <2> QED BY <2>1 DEF createOrder, Order, States
<1>2. ord \in [Orders -> Order]
  BY <1>1 DEF Init
<1>3. ex \in [Orders -> Exchanges]
  BY DEF Init, Exchanges, NoId
<1>4. req \in [Orders -> Seq(Request)] /\ resp \in [Orders -> Seq(Response)]
  BY DEF Init
<1>5. /\ nextId \in [Orders -> Nat \ {NoId}] /\ origId \in [Orders -> Nat]
      /\ chan \in [Orders -> SUBSET Nat] /\ picked \in [Orders -> BOOLEAN]
  BY DEF Init, NoId
<1>6. PickedThere
  BY DEF Init, PickedThere
<1> QED BY <1>2, <1>3, <1>4, <1>5, <1>6 DEF Init, TypeOK

\* Every step keeps the types.
LEMMA NextType ==
  ASSUME TypeOK, PickedThere, [Next]_vars
  PROVE  TypeOK'
<1>1. ASSUME NEW o \in Orders, Receive(o)
      PROVE  TypeOK'
  <2>1. resp[o] # <<>>
    BY <1>1 DEF Receive
  <2>2. resp' \in [Orders -> Seq(Response)] /\ picked' \in [Orders -> BOOLEAN]
    BY <1>1, <2>1, MessageType DEF Receive, TypeOK
  <2>3. chan' \in [Orders -> SUBSET Nat]
    BY <1>1 DEF Receive, TypeOK
  <2> QED BY <1>1, <2>2, <2>3 DEF Receive, TypeOK, counters, session, history
<1>2. ASSUME NEW o \in Orders, LoseRequest(o)
      PROVE  TypeOK'
  <2>1. req' \in [Orders -> Seq(Request)]
    BY <1>2, MessageType DEF LoseRequest, TypeOK
  <2> QED BY <1>2, <2>1 DEF LoseRequest, TypeOK, counters, session
<1>3. CASE SessionDown \/ SessionUp
  <2>1. up' \in BOOLEAN
    BY <1>3 DEF SessionDown, SessionUp
  <2>3. downs' \in 0 .. MaxDowns
    <3>1. downs \in 0 .. MaxDowns /\ MaxDowns \in Nat
      BY FlowAssumption DEF TypeOK
    <3>2. downs' = downs \/ (downs < MaxDowns /\ downs' = downs + 1)
      BY <1>3 DEF SessionDown, SessionUp
    <3> QED BY <3>1, <3>2
  <2>2. UNCHANGED <<breaks, ord, counters, wire, resp, picked, ex, cxlWait, history>>
    BY <1>3 DEF SessionDown, SessionUp
  <2> QED BY <2>1, <2>2, <2>3 DEF TypeOK, counters, wire, history
<1>4. CASE UNCHANGED vars
  BY <1>4 DEF vars, TypeOK, counters, session, wire, history
<1> QED BY <1>1, <1>2, <1>3, <1>4, StrategyType, InboundStepType, ExchangeType
        DEF Next

\* A response the session thread has looked up stays where it is until the
\* container takes it.
LEMMA NextPicked ==
  ASSUME TypeOK, PickedThere, [Next]_vars
  PROVE  PickedThere'
<1> SUFFICES ASSUME NEW x \in Orders, picked'[x] PROVE resp'[x] # <<>>
  BY DEF PickedThere
<1>1. ASSUME NEW o \in Orders, Strategy(o)
      PROVE  resp'[x] # <<>>
  <2>1. UNCHANGED <<resp, picked>>
    BY <1>1 DEF Strategy, SendNew, SendMod, SendCxl, ReadCxlState,
                SendCxlUnlocked, CxlLocked
  <2> QED BY <2>1 DEF PickedThere
<1>2. ASSUME NEW o \in Orders, Receive(o)
      PROVE  resp'[x] # <<>>
  BY <1>2 DEF Receive, PickedThere, TypeOK
<1>3. ASSUME NEW o \in Orders, Inbound(o)
      PROVE  resp'[x] # <<>>
  <2>1. /\ resp' = [resp EXCEPT ![o] = Tail(@)]
        /\ picked' = [picked EXCEPT ![o] = FALSE]
    BY <1>3 DEF Inbound, OnNewAck, OnNewAckReentrant, OnNewRej, OnModAck,
                OnModRej, OnCxlAck, OnCxlRej, OnFill, OnBust, Take
  <2> QED BY <2>1 DEF PickedThere, TypeOK
<1>4. ASSUME NEW o \in Orders, Exchange(o)
      PROVE  resp'[x] # <<>>
  <2>1. UNCHANGED picked /\ \E m : Reply(o, m)
    BY <1>4 DEF Exchange, ExNew, ExMod, ExCxl, ExFill, ExExpire, ExBreak, Handle
  <2>2. ASSUME NEW m
        PROVE  Append(resp[o], m) # <<>>
    <3>1. resp[o] \in Seq(Response \cup {m})
      BY DEF TypeOK
    <3> QED BY <3>1
  <2> QED BY <2>1, <2>2 DEF Reply, PickedThere, TypeOK
<1>5. ASSUME NEW o \in Orders, LoseRequest(o)
      PROVE  resp'[x] # <<>>
  BY <1>5 DEF LoseRequest, PickedThere
<1>6. CASE SessionDown \/ SessionUp \/ UNCHANGED vars
  BY <1>6 DEF SessionDown, SessionUp, vars, PickedThere
<1> QED BY <1>1, <1>2, <1>3, <1>4, <1>5, <1>6 DEF Next

\* Every variable keeps its type: the requests and responses in flight, the
\* orders in every state, the counters of the account and the history, for any
\* number of orders and any limits.
THEOREM TypeCorrect == Spec => []TypeOK
<1>1. Init => TypeOK /\ PickedThere
  BY InitType
<1>2. TypeOK /\ PickedThere /\ [Next]_vars => (TypeOK /\ PickedThere)'
  BY NextType, NextPicked
<1> QED BY <1>1, <1>2, PTL DEF Spec

--------------------------------------------------------------------------------
(***************************************************************************)
(* What leaves the books alone                                             *)
(***************************************************************************)

Dead == {"Rejected", "Cancelled", "Filled"}

\* A handler that leaves the table, the counters and the quantities alone, and
\* takes an order neither out of Pending nor out of a final state.
Quiet(r, t) ==
  /\ t.qty = r.qty /\ t.cumQty = r.cumQty
  /\ t.inTable = r.inTable /\ t.booked = r.booked /\ t.filled = r.filled
  /\ isOrderLive(t) <=> isOrderLive(r)
  /\ t.state = "Unknown" <=> r.state = "Unknown"
  /\ r.state = "Unknown" => t.price = r.price
  /\ r.state = "Pending" => t.state = "Pending"
  /\ r.state \in Dead => t.state = r.state

--------------------------------------------------------------------------------
(***************************************************************************)
(* The quiet handlers                                                      *)
(***************************************************************************)

\* Two quiet handlers in a row are quiet.
LEMMA QuietTrans ==
  ASSUME NEW r \in Order, NEW s \in Order, NEW t \in Order,
         Quiet(r, s), Quiet(s, t)
  PROVE  Quiet(r, t)
BY DEF Quiet, Dead

\* What the modify handlers and the cancel handlers do to an order.
LEMMA QuietHandlers ==
  ASSUME NEW r \in Order
  PROVE  /\ Quiet(r, onModAck(r)) /\ Quiet(r, onModRej(r))
         /\ Quiet(r, onModAckPost(r))
         /\ Quiet(r, onModRejPost(r, TRUE)) /\ Quiet(r, onModRejPost(r, FALSE))
         /\ Quiet(r, onCxlRej(r))
         /\ Quiet(r, sendMod(r).order)
         /\ Quiet(r, sendCxl(r).order)
<1> USE DEF Quiet, isOrderLive, Dead
<1>1. r.state \in States
  BY OrderFields
<1>2. Quiet(r, onModAck(r)) /\ Quiet(r, onModRej(r))
  BY <1>1 DEF Order, onModAck, onModRej
<1>3. ASSUME NEW f \in BOOLEAN
      PROVE  Quiet(r, doOnModPost(r, f))
  BY <1>1 DEF Order, doOnModPost
<1>4. Quiet(r, onModAckPost(r))
  BY <1>3 DEF onModAckPost
<1>5. Quiet(r, onModRejPost(r, TRUE)) /\ Quiet(r, onModRejPost(r, FALSE))
  BY <1>1, <1>3 DEF Order, onModRejPost
<1>6. Quiet(r, onCxlRej(r))
  BY <1>1 DEF Order, onCxlRej
<1>7. Quiet(r, sendMod(r).order)
  BY <1>1 DEF Order, sendMod, Verdict
<1>8. Quiet(r, sendCxl(r).order)
  BY <1>1 DEF Order, sendCxl, Verdict
<1> QED BY <1>2, <1>4, <1>5, <1>6, <1>7, <1>8

\* The cancel chain is quiet, and a cancel leaves it only for an order it has
\* turned to Cancelling.
LEMMA QuietChain ==
  ASSUME NEW r \in Order, NEW outcome \in Outcomes
  PROVE  /\ Quiet(r, CxlChain(r, outcome).order)
         /\ CxlChain(r, outcome).sends =>
              /\ CxlChain(r, outcome).order.state = "Cancelling"
              /\ ~CxlChain(r, outcome).order.cancelOnAck
<1> DEFINE v == sendCxl(r)
           refused == onCxlRej(v.order)
<1>1. v.order \in Order /\ refused \in Order
  BY OutboundType, InboundType
<1>2. Quiet(r, v.order)
  BY QuietHandlers
<1>3. Quiet(v.order, refused)
  <2> HIDE DEF v
  <2> QED BY <1>1, QuietHandlers
<1>4. Quiet(r, refused)
  <2> HIDE DEF v, refused
  <2> QED BY <1>1, <1>2, <1>3, QuietTrans
<1>5. Quiet(r, r)
  BY DEF Quiet
<1>6. Quiet(r, CxlChain(r, outcome).order)
  <2> HIDE DEF refused
  <2> QED BY <1>2, <1>4, <1>5 DEF CxlChain, CxlResult, refused
<1>7. ~v.order.cancelOnAck => v.order.state = "Cancelling" \/ ~v.ok
  BY DEF sendCxl, Verdict, Order
<1>8. CxlChain(r, outcome).sends =>
        /\ CxlChain(r, outcome).order.state = "Cancelling"
        /\ ~CxlChain(r, outcome).order.cancelOnAck
  <2> HIDE DEF refused
  <2> QED BY <1>1, <1>7 DEF CxlChain, CxlResult, Order
<1> QED BY <1>6, <1>8

\* The same for the cancel that an ack releases.
LEMMA QuietCheck ==
  ASSUME NEW r \in Order, NEW outcome \in Outcomes
  PROVE  /\ Quiet(r, checkCancelOnAck(r, outcome).order)
         /\ checkCancelOnAck(r, outcome).sends =>
              checkCancelOnAck(r, outcome).order.state = "Cancelling"
         /\ ~r.cancelOnAck => checkCancelOnAck(r, outcome) =
                                CxlResult(r, FALSE, FALSE)
<1> DEFINE cleared == [r EXCEPT !.cancelOnAck = FALSE]
           c == CxlChain(cleared, outcome)
<1>1. cleared \in Order
  BY DEF Order
<1>2. Quiet(r, cleared)
  BY OrderFields DEF Quiet, isOrderLive, Order
<1>3. /\ c.order \in Order /\ Quiet(cleared, c.order)
      /\ c.sends => c.order.state = "Cancelling"
  <2> HIDE DEF cleared
  <2> QED BY <1>1, ChainType, QuietChain
<1>4. Quiet(r, c.order)
  <2> HIDE DEF cleared, c
  <2> QED BY <1>1, <1>2, <1>3, QuietTrans
<1>5. Quiet(r, r)
  BY DEF Quiet
<1>6. \/ checkCancelOnAck(r, outcome) = CxlResult(r, FALSE, FALSE)
      \/ checkCancelOnAck(r, outcome) = CxlResult(cleared, FALSE, FALSE)
      \/ checkCancelOnAck(r, outcome) = c
  BY DEF checkCancelOnAck
<1>7. ~r.cancelOnAck => checkCancelOnAck(r, outcome) = CxlResult(r, FALSE, FALSE)
  BY DEF checkCancelOnAck
<1> HIDE DEF cleared, c
<1> QED BY <1>2, <1>3, <1>4, <1>5, <1>6, <1>7 DEF CxlResult

--------------------------------------------------------------------------------
(***************************************************************************)
(* Sound orders stay sound                                                 *)
(***************************************************************************)

\* A quiet handler keeps an order sound.
LEMMA SoundQuiet ==
  ASSUME NEW r \in Order, NEW t \in Order, NEW q, NEW s, NEW e, NEW b,
         Sound(r, q, s, e, b), Quiet(r, t)
  PROVE  Sound(t, q, s, e, b)
<1>1. BooksSound(t, b)
  BY DEF Sound, BooksSound, Quiet
<1>2. NewSound(t, q, s, e)
  BY DEF Sound, NewSound, Quiet
<1>3. EndSound(t, s, e)
  BY DEF Sound, EndSound, Quiet
<1>4. CumSound(t, s, e, b)
  BY DEF Sound, CumSound, Quiet
<1> QED BY <1>1, <1>2, <1>3, <1>4 DEF Sound

\* An order that has been sent stays sound when a modify or a cancel follows.
LEMMA SoundSend ==
  ASSUME NEW r \in Order, NEW q \in Seq(Request), NEW s, NEW e, NEW b,
         NEW m \in Request, m.type # "New",
         Sound(r, q, s, e, b), r.state \notin {"Unknown", "Pending"}
  PROVE  Sound(r, Append(q, m), s, e, b)
<1>1. \A i \in DOMAIN q : q[i].type # "New"
  BY DEF Sound, NewSound
<1>2. \A i \in DOMAIN Append(q, m) : Append(q, m)[i].type # "New"
  BY <1>1
<1>3. NewSound(r, Append(q, m), s, e)
  BY <1>2 DEF NewSound
<1> QED BY <1>3 DEF Sound

\* Taking a request off the queue keeps an order sound.
LEMMA SoundHandled ==
  ASSUME NEW r \in Order, NEW q \in Seq(Request), q # <<>>, NEW s, NEW e, NEW b,
         Sound(r, q, s, e, b)
  PROVE  /\ Sound(r, Tail(q), s, e, b)
         /\ \A i \in DOMAIN Tail(q) : Tail(q)[i].type # "New"
         /\ r.state # "Unknown"
<1>1. \A i \in DOMAIN Tail(q) : i + 1 \in DOMAIN q /\ Tail(q)[i] = q[i + 1]
  OBVIOUS
<1>2. r.state # "Unknown"
  BY DEF Sound, NewSound
<1>3. ASSUME NEW i \in DOMAIN Tail(q), Tail(q)[i].type = "New"
      PROVE  FALSE
  <2>1. Len(q) = 1
    BY <1>1, <1>3 DEF Sound, NewSound
  <2>2. i \in 1 .. Len(q) - 1
    BY <1>3
  <2> QED BY <2>1, <2>2
<1>4. NewSound(r, Tail(q), s, e)
  BY <1>2, <1>3 DEF NewSound
<1> QED BY <1>2, <1>3, <1>4 DEF Sound

\* Taking a response off the queue keeps an order sound.
LEMMA SoundTaken ==
  ASSUME NEW r \in Order, NEW q, NEW s \in Seq(Response), s # <<>>, NEW e, NEW b,
         Sound(r, q, s, e, b)
  PROVE  /\ Sound(r, q, Tail(s), e, b)
         /\ \A i \in DOMAIN q : q[i].type # "New"
         /\ r.state # "Unknown"
<1>1. \A i \in DOMAIN Tail(s) : i + 1 \in DOMAIN s /\ Tail(s)[i] = s[i + 1]
  OBVIOUS
<1>2. r.state # "Unknown" /\ \A i \in DOMAIN q : q[i].type # "New"
  BY DEF Sound, NewSound
<1>3. NewSound(r, q, Tail(s), e)
  BY <1>2 DEF NewSound
<1>4. EndSound(r, Tail(s), e)
  <2>1. \A i, j \in DOMAIN Tail(s) :
          i < j /\ Tail(s)[i].type \in Ending => Tail(s)[j].type \notin Closing
    <3>1. \A i, j \in DOMAIN Tail(s) : i < j => i + 1 < j + 1
      OBVIOUS
    <3> QED BY <1>1, <3>1 DEF Sound, EndSound
  <2> QED BY <1>1, <2>1 DEF Sound, EndSound
<1>5. CumSound(r, Tail(s), e, b)
  <2>1. \A i, j \in DOMAIN Tail(s) :
          i < j /\ Tail(s)[i].type \in Fills /\ Tail(s)[j].type \in Fills =>
            Tail(s)[i].cum + Tail(s)[j].qty <= Tail(s)[j].cum
    <3>1. \A i, j \in DOMAIN Tail(s) : i < j => i + 1 < j + 1
      OBVIOUS
    <3> QED BY <1>1, <3>1 DEF Sound, CumSound
  <2> QED BY <1>1, <2>1 DEF Sound, CumSound
<1> QED BY <1>1, <1>2, <1>3, <1>4, <1>5 DEF Sound

\* A reply that takes nothing off the order keeps it sound, the exchange's view
\* changing at most in its clOrdId and price.
LEMMA SoundAnswered ==
  ASSUME NEW r \in Order, NEW q, NEW s \in Seq(Response), NEW e \in Exchanges,
         NEW f \in Exchanges, NEW b, NEW m \in Response,
         f.status = e.status, f.cum = e.cum,
         m.type \notin Closing \cup Ending \cup {"TradeBreak"},
         \A i \in DOMAIN q : q[i].type # "New",
         r.state # "Unknown",
         Sound(r, q, s, e, b)
  PROVE  Sound(r, q, Append(s, m), f, b)
<1> DEFINE a == Append(s, m)
<1>1. \A i \in DOMAIN a : a[i] = m \/ (i \in DOMAIN s /\ a[i] = s[i])
  OBVIOUS
<1>2. m.type \notin Fills
  BY DEF Closing
<1> HIDE DEF a
<1>3. NewSound(r, q, a, f)
  BY DEF NewSound
<1>4. EndSound(r, a, f)
  BY <1>1 DEF Sound, EndSound
<1>5. CumSound(r, a, f, b)
  BY <1>1, <1>2 DEF Sound, CumSound, Fills
<1>6. \A i \in DOMAIN a : a[i].type # "TradeBreak"
  BY <1>1 DEF Sound
<1> QED BY <1>3, <1>4, <1>5, <1>6 DEF Sound, a

\* The exchange ends an open order: by a cancel, an expiry or its last fill.
LEMMA SoundClosed ==
  ASSUME NEW r \in Order, NEW q, NEW s \in Seq(Response), NEW e \in Exchanges,
         NEW f \in Exchanges, NEW b \in [side : Sides, qty : Nat,
                                         price : Prices \cup {InvalidPrice}],
         NEW m \in Response,
         e.status = "Open", f.cum <= b.qty,
         \/ /\ m.type = "CxlAck" /\ f.status = "Closed" /\ f.cum = e.cum
         \/ /\ m.type = "Fill" /\ f.status = "Closed"
            /\ f.cum = e.cum + m.qty /\ m.cum = f.cum
         \/ /\ m.type = "PartFill" /\ f.status = "Open"
            /\ f.cum = e.cum + m.qty /\ m.cum = f.cum /\ f.cum < b.qty,
         Sound(r, q, s, e, b)
  PROVE  Sound(r, q, Append(s, m), f, b)
<1> DEFINE a == Append(s, m)
<1>1. /\ \A i \in DOMAIN a : \/ i = Len(s) + 1 /\ a[i] = m
                             \/ i \in DOMAIN s /\ i < Len(s) + 1 /\ a[i] = s[i]
      /\ DOMAIN a = 1 .. Len(s) + 1
  OBVIOUS
<1>2. /\ r.cumQty \in Int /\ e.cum \in Nat /\ f.cum \in Nat /\ b.qty \in Nat
      /\ m.qty \in Nat /\ m.cum \in Nat
      /\ \A i \in DOMAIN s : s[i].qty \in Nat /\ s[i].cum \in Nat
  <2>1. r.cumQty \in Int
    BY OrderFields
  <2>2. e.cum \in Nat /\ f.cum \in Nat
    BY DEF Exchanges
  <2>3. \A x \in Response : x.qty \in Nat /\ x.cum \in Nat
    BY DEF Response
  <2>4. \A i \in DOMAIN s : s[i] \in Response
    OBVIOUS
  <2> QED BY <2>1, <2>2, <2>3, <2>4
<1>3. r.inTable /\ r.state # "Unknown"
  BY DEF Sound, EndSound, NewSound
<1>4. \A i \in DOMAIN s : s[i].type \notin Ending
  BY DEF Sound, EndSound
<1> HIDE DEF a
<1>5. NewSound(r, q, a, f)
  BY <1>3 DEF Sound, NewSound
<1>6. EndSound(r, a, f)
  <2>1. \A i \in DOMAIN a : a[i].type \in Ending => f.status = "Closed"
    BY <1>1, <1>4 DEF Ending
  <2>2. \A i, j \in DOMAIN a :
          i < j /\ a[i].type \in Ending => a[j].type \notin Closing
    BY <1>1, <1>4
  <2> QED BY <1>3, <2>1, <2>2 DEF EndSound
<1>7. CumSound(r, a, f, b)
  <2>1. r.cumQty <= e.cum /\ e.cum <= f.cum
    BY <1>2 DEF Sound, CumSound
  <2>2. \A i \in DOMAIN a : a[i].type \in Fills =>
          r.cumQty + a[i].qty <= a[i].cum /\ a[i].cum <= f.cum
    <3> SUFFICES ASSUME NEW i \in DOMAIN a, a[i].type \in Fills
                 PROVE  r.cumQty + a[i].qty <= a[i].cum /\ a[i].cum <= f.cum
      OBVIOUS
    <3>1. CASE i \in DOMAIN s /\ a[i] = s[i]
      <4>1. r.cumQty + s[i].qty <= s[i].cum /\ s[i].cum <= e.cum
        BY <3>1 DEF Sound, CumSound
      <4> QED BY <1>2, <2>1, <3>1, <4>1
    <3>2. CASE a[i] = m
      <4>1. m.cum = f.cum /\ f.cum = e.cum + m.qty
        BY <3>2 DEF Fills
      <4> QED BY <1>2, <2>1, <3>2, <4>1
    <3> QED BY <1>1, <3>1, <3>2
  <2>3. \A i \in DOMAIN a : a[i].type = "PartFill" => a[i].cum < b.qty
    BY <1>1 DEF Sound, CumSound
  <2>4. ASSUME NEW i \in DOMAIN a, NEW j \in DOMAIN a, i < j,
               a[i].type \in Fills, a[j].type \in Fills
        PROVE  a[i].cum + a[j].qty <= a[j].cum
    <3>1. i \in DOMAIN s /\ a[i] = s[i]
      BY <1>1, <2>4
    <3>2. s[i].cum <= e.cum
      BY <2>4, <3>1 DEF Sound, CumSound
    <3>3. CASE j \in DOMAIN s /\ a[j] = s[j]
      BY <2>4, <3>1, <3>3 DEF Sound, CumSound
    <3>4. CASE a[j] = m
      BY <1>2, <2>4, <3>1, <3>2, <3>4 DEF Fills
    <3> QED BY <1>1, <3>3, <3>4
  <2> QED BY <1>2, <2>1, <2>2, <2>3, <2>4 DEF CumSound
<1>8. \A i \in DOMAIN a : a[i].type # "TradeBreak"
  BY <1>1 DEF Sound
<1> QED BY <1>5, <1>6, <1>7, <1>8 DEF Sound, a

\* The new's ack makes a pending order work.
LEMMA SoundNewAck ==
  ASSUME NEW r \in Order, NEW q, NEW s \in Seq(Response), s # <<>>, NEW e, NEW b,
         Sound(r, q, s, e, b)
  PROVE  /\ Sound(onNewAck(r), q, Tail(s), e, b)
         /\ r.state \in Dead => onNewAck(r).state = r.state
         /\ onNewAck(r).state \notin {"Unknown", "Pending"}
<1> DEFINE t == onNewAck(r)
<1>1. /\ Sound(r, q, Tail(s), e, b)
      /\ \A i \in DOMAIN q : q[i].type # "New"
      /\ r.state # "Unknown"
  BY SoundTaken
<1>2. /\ t.qty = r.qty /\ t.cumQty = r.cumQty
      /\ t.inTable = r.inTable /\ t.booked = r.booked
      /\ t.state = IF r.state = "Pending" THEN "Working" ELSE r.state
  BY DEF onNewAck, Order
<1>3. isOrderLive(t) <=> isOrderLive(r)
  BY <1>2 DEF isOrderLive
<1> HIDE DEF t
<1>4. BooksSound(t, b)
  BY <1>1, <1>2, <1>3 DEF Sound, BooksSound
<1>5. NewSound(t, q, Tail(s), e)
  BY <1>1, <1>2 DEF NewSound
<1>6. EndSound(t, Tail(s), e)
  BY <1>1, <1>2 DEF Sound, EndSound
<1>7. CumSound(t, Tail(s), e, b)
  BY <1>1, <1>2 DEF Sound, CumSound
<1>8. Sound(t, q, Tail(s), e, b)
  BY <1>1, <1>4, <1>5, <1>6, <1>7 DEF Sound
<1> QED BY <1>1, <1>2, <1>8 DEF t, Dead

\* An order leaves the table by the response that ends it: none of those that
\* follow needs it there.
LEMMA SoundEnded ==
  ASSUME NEW r \in Order, NEW t \in Order, NEW q, NEW s \in Seq(Response),
         s # <<>>, NEW e, NEW b,
         Sound(r, q, s, e, b), Head(s).type \in Ending,
         r.inTable, t.qty = r.qty, ~t.inTable, t.state \in Dead,
         t.booked = 0 \/ b.price \notin Prices,
         t.cumQty <= e.cum,
         \A i \in DOMAIN Tail(s) : Tail(s)[i].type \in Fills =>
           t.cumQty + Tail(s)[i].qty <= Tail(s)[i].cum
  PROVE  Sound(t, q, Tail(s), e, b)
<1>1. /\ Sound(r, q, Tail(s), e, b)
      /\ \A i \in DOMAIN q : q[i].type # "New"
  BY SoundTaken
<1>2. e.status = "Closed"
  <2>1. 1 \in DOMAIN s /\ Head(s) = s[1]
    OBVIOUS
  <2> QED BY <2>1 DEF Sound, EndSound
<1>3. \A i \in DOMAIN Tail(s) : Tail(s)[i].type \notin Closing
  <2>1. \A i \in DOMAIN Tail(s) :
          i + 1 \in DOMAIN s /\ Tail(s)[i] = s[i + 1] /\ 1 < i + 1
    OBVIOUS
  <2>2. 1 \in DOMAIN s /\ Head(s) = s[1]
    OBVIOUS
  <2> QED BY <2>1, <2>2 DEF Sound, EndSound
<1>4. BooksSound(t, b)
  BY DEF Sound, BooksSound, isOrderLive, Dead
<1>5. NewSound(t, q, Tail(s), e)
  BY <1>1 DEF NewSound, Dead
<1>6. EndSound(t, Tail(s), e)
  BY <1>1, <1>2, <1>3 DEF Sound, EndSound
<1>7. CumSound(t, Tail(s), e, b)
  BY <1>1 DEF Sound, CumSound
<1> QED BY <1>1, <1>4, <1>5, <1>6, <1>7 DEF Sound

\* The new's reject.
LEMMA SoundNewRej ==
  ASSUME NEW r \in Order, NEW q, NEW s \in Seq(Response), s # <<>>, NEW e, NEW b,
         Sound(r, q, s, e, b), Head(s).type = "NewRej"
  PROVE  /\ Sound(onNewRej(r), q, Tail(s), e, b)
         /\ r.state \in Dead => onNewRej(r).state = r.state
<1>1. Sound(r, q, Tail(s), e, b) /\ r.state # "Unknown"
  BY SoundTaken
<1>2. CASE r.state # "Pending"
  BY <1>1, <1>2 DEF onNewRej
<1>3. CASE r.state = "Pending"
  <2> DEFINE t == onNewRej(r)
  <2>1. t \in Order
    BY InboundType
  <2>2. r.inTable
    BY <1>3 DEF Sound, BooksSound, isOrderLive
  <2>3. /\ t.qty = r.qty /\ t.cumQty = r.cumQty /\ ~t.inTable
        /\ t.state = "Rejected" /\ t.booked = r.booked - (r.qty - r.cumQty)
    BY <1>3 DEF onNewRej, remove, Order
  <2>4. t.booked = 0 \/ b.price \notin Prices
    BY <2>2, <2>3, OrderFields DEF Sound, BooksSound
  <2>5. /\ t.cumQty <= e.cum
        /\ \A i \in DOMAIN Tail(s) : Tail(s)[i].type \in Fills =>
             t.cumQty + Tail(s)[i].qty <= Tail(s)[i].cum
    BY <1>1, <2>3 DEF Sound, CumSound
  <2> HIDE DEF t
  <2>6. Sound(t, q, Tail(s), e, b)
    BY <2>1, <2>2, <2>3, <2>4, <2>5, SoundEnded DEF Ending, Dead
  <2> QED BY <1>3, <2>6 DEF t, Dead
<1> QED BY <1>2, <1>3

\* The cancel's ack, asked for or not.
LEMMA SoundCxlAck ==
  ASSUME NEW r \in Order, NEW q, NEW s \in Seq(Response), s # <<>>, NEW e, NEW b,
         Sound(r, q, s, e, b), Head(s).type = "CxlAck"
  PROVE  /\ Sound(onCxlAck(r), q, Tail(s), e, b)
         /\ r.state \notin Dead
<1>1. Sound(r, q, Tail(s), e, b)
  BY SoundTaken
<1> DEFINE t == onCxlAck(r)
<1>2. t \in Order
  BY InboundType
<1>3. r.inTable
  <2>1. 1 \in DOMAIN s /\ Head(s) = s[1]
    OBVIOUS
  <2> QED BY <2>1 DEF Sound, EndSound, Closing
<1>4. /\ t.qty = r.qty /\ t.cumQty = r.cumQty /\ ~t.inTable
      /\ t.state = "Cancelled" /\ t.booked = r.booked - (r.qty - r.cumQty)
  BY DEF onCxlAck, remove, Order
<1>5. t.booked = 0 \/ b.price \notin Prices
  BY <1>3, <1>4, OrderFields DEF Sound, BooksSound
<1>6. /\ t.cumQty <= e.cum
      /\ \A i \in DOMAIN Tail(s) : Tail(s)[i].type \in Fills =>
           t.cumQty + Tail(s)[i].qty <= Tail(s)[i].cum
  BY <1>1, <1>4 DEF Sound, CumSound
<1>7. r.state \notin Dead
  BY <1>3 DEF Sound, BooksSound, isOrderLive, Dead
<1> HIDE DEF t
<1>8. Sound(t, q, Tail(s), e, b)
  BY <1>2, <1>3, <1>4, <1>5, <1>6, SoundEnded DEF Ending, Dead
<1> QED BY <1>7, <1>8 DEF t

\* A fill: the order keeps working, or this was its last one.
LEMMA SoundFill ==
  ASSUME NEW r \in Order, NEW q, NEW s \in Seq(Response), s # <<>>,
         NEW e \in Exchanges, NEW b \in [side : Sides, qty : Nat,
                                         price : Prices \cup {InvalidPrice}],
         Sound(r, q, s, e, b), Head(s).type \in Fills
  PROVE  /\ Sound(onFill(r, Head(s).qty), q, Tail(s), e, b)
         /\ r.state \notin Dead
<1> DEFINE m == Head(s)
           t == onFill(r, m.qty)
<1>1. /\ Sound(r, q, Tail(s), e, b)
      /\ \A i \in DOMAIN q : q[i].type # "New"
      /\ r.state # "Unknown"
  BY SoundTaken
<1>2. /\ 1 \in DOMAIN s /\ m = s[1] /\ m \in Response
      /\ \A i \in DOMAIN Tail(s) :
           i + 1 \in DOMAIN s /\ Tail(s)[i] = s[i + 1] /\ 1 < i + 1
  OBVIOUS
<1>3. m.qty \in Nat /\ m.cum \in Nat /\ \A x \in Response : x.qty \in Nat /\ x.cum \in Nat
  BY <1>2 DEF Response
<1> HIDE DEF m
<1>4. \A i \in DOMAIN Tail(s) : Tail(s)[i].qty \in Nat /\ Tail(s)[i].cum \in Nat
  <2>1. \A i \in DOMAIN s : s[i] \in Response
    OBVIOUS
  <2> QED BY <1>2, <1>3, <2>1
<1>5. r.inTable
  BY <1>2 DEF Sound, EndSound, Closing, m
<1>6. r.state \notin Dead
  BY <1>5 DEF Sound, BooksSound, isOrderLive, Dead
<1>7. /\ r.qty = b.qty /\ r.qty \in Int /\ r.cumQty \in Int /\ r.booked \in Int
      /\ e.cum \in Nat
  BY OrderFields DEF Sound, BooksSound, Exchanges
<1>8. /\ r.cumQty + m.qty <= m.cum /\ m.cum <= e.cum
      /\ m.type = "PartFill" => m.cum < b.qty
  BY <1>2 DEF Sound, CumSound, m
<1>9. /\ r.cumQty + m.qty <= e.cum
      /\ \A i \in DOMAIN Tail(s) : Tail(s)[i].type \in Fills =>
           r.cumQty + m.qty + Tail(s)[i].qty <= Tail(s)[i].cum
  <2>1. r.cumQty + m.qty <= e.cum
    BY <1>3, <1>7, <1>8
  <2>2. ASSUME NEW i \in DOMAIN Tail(s), Tail(s)[i].type \in Fills
        PROVE  r.cumQty + m.qty + Tail(s)[i].qty <= Tail(s)[i].cum
    <3> DEFINE x == Tail(s)[i]
    <3>1. m.cum + x.qty <= x.cum
      BY <1>2, <2>2 DEF Sound, CumSound, m
    <3>2. x.qty \in Nat /\ x.cum \in Nat
      BY <1>4
    <3> HIDE DEF x
    <3>3. r.cumQty + m.qty + x.qty <= x.cum
      BY <1>3, <1>7, <1>8, <3>1, <3>2, SMTT(40)
    <3> QED BY <3>3 DEF x
  <2> QED BY <2>1, <2>2
<1>10. t \in Order
  BY <1>3, FillType
<1>11. CASE r.qty <= r.cumQty + m.qty
  <2>1. m.type = "Fill"
    BY <1>3, <1>7, <1>8, <1>11 DEF Fills, m
  <2>2. /\ t.qty = r.qty /\ t.cumQty = r.cumQty + m.qty /\ ~t.inTable
        /\ t.state = "Filled"
        /\ t.booked = r.booked - (r.qty - (r.cumQty + m.qty)) - 1 * m.qty
    BY <1>6, <1>11 DEF onFill, changePosCounts, remove, Order, Dead
  <2>3. t.booked = 0 \/ b.price \notin Prices
    BY <1>3, <1>5, <1>7, <2>2 DEF Sound, BooksSound
  <2> HIDE DEF t
  <2>4. Sound(t, q, Tail(s), e, b)
    BY <1>5, <1>9, <1>10, <2>1, <2>2, <2>3, SoundEnded DEF Ending, Dead, m
  <2> QED BY <1>6, <2>4 DEF t, m
<1>12. CASE ~(r.qty <= r.cumQty + m.qty)
  <2>1. /\ t.qty = r.qty /\ t.cumQty = r.cumQty + m.qty /\ t.inTable = r.inTable
        /\ t.state = r.state /\ t.booked = r.booked - 1 * m.qty
    BY <1>6, <1>12 DEF onFill, changePosCounts, Order, Dead
  <2>2. isOrderLive(t) <=> isOrderLive(r)
    BY <2>1 DEF isOrderLive
  <2> HIDE DEF t
  <2>3. BooksSound(t, b)
    BY <1>1, <1>3, <1>5, <1>7, <2>1, <2>2 DEF Sound, BooksSound
  <2>4. NewSound(t, q, Tail(s), e)
    BY <1>1, <2>1 DEF NewSound
  <2>5. EndSound(t, Tail(s), e)
    BY <1>1, <2>1 DEF Sound, EndSound
  <2>6. CumSound(t, Tail(s), e, b)
    BY <1>1, <1>9, <2>1 DEF Sound, CumSound
  <2>7. Sound(t, q, Tail(s), e, b)
    BY <1>1, <2>3, <2>4, <2>5, <2>6 DEF Sound
  <2> QED BY <1>6, <2>7 DEF t, m
<1> QED BY <1>11, <1>12

\* A new request: refused at once, refused further down the chain, or sent.
LEMMA SoundSendNew ==
  ASSUME NEW r \in Order, NEW q \in Seq(Request), NEW s, NEW e \in Exchanges,
         NEW b \in [side : Sides, qty : Nat, price : Prices \cup {InvalidPrice}],
         NEW m \in Request, r.state = "Unknown", Sound(r, q, s, e, b)
  PROVE  /\ ~sendNew(r).ok => Sound(sendNew(r).order, q, s, e, b)
         /\ sendNew(r).ok => Sound(onNewRej(sendNew(r).order), q, s, e, b)
         /\ sendNew(r).ok => Sound(sendNew(r).order, Append(q, m), s, e, b)
<1> DEFINE pending == [r EXCEPT !.state = "Pending"]
           v == sendNew(r)
<1>1. /\ q = <<>> /\ s = <<>> /\ e.status = "None"
      /\ r.qty = b.qty /\ r.cumQty = 0 /\ r.price = b.price /\ ~r.inTable
      /\ b.price \in Prices => r.booked = 0
  BY DEF Sound, NewSound, BooksSound, isOrderLive
<1>2. r.qty \in Int /\ r.cumQty \in Int /\ r.booked \in Int /\ b.qty \in Nat
  BY OrderFields
<1>3. 0 <= e.cum /\ e.cum <= b.qty
  BY DEF Exchanges, Sound, CumSound
<1>4. ASSUME NEW t \in Order, t.state \in {"Pending", "Rejected"},
             t.inTable <=> t.state = "Pending",
             t.qty = r.qty, t.cumQty = r.cumQty,
             b.price \in Prices =>
               t.booked = IF t.inTable THEN t.qty - t.cumQty ELSE 0
      PROVE  Sound(t, q, s, e, b)
  <2>1. BooksSound(t, b)
    <3>1. t.inTable <=> isOrderLive(t)
      BY <1>4 DEF isOrderLive
    <3>2. t.state # "Unknown"
      BY <1>4
    <3> QED BY <1>1, <1>4, <3>1, <3>2 DEF BooksSound
  <2>2. NewSound(t, q, s, e)
    BY <1>1, <1>4 DEF NewSound
  <2>3. EndSound(t, s, e)
    BY <1>1 DEF EndSound
  <2>4. CumSound(t, s, e, b)
    BY <1>1, <1>3, <1>4 DEF CumSound
  <2> QED BY <1>1, <2>1, <2>2, <2>3, <2>4 DEF Sound
<1>5. pending \in Order
  BY StateType DEF States
<1>6. CASE ~v.ok
  <2> DEFINE t == onNewRej(pending)
  <2>1. v.order = t /\ (r.qty <= 0 \/ r.price = InvalidPrice)
    BY <1>6 DEF sendNew, Verdict
  <2>2. t \in Order
    <3> HIDE DEF pending
    <3> QED BY <1>5, InboundType
  <2>3. /\ t.state = "Rejected" /\ ~t.inTable /\ t.qty = r.qty
        /\ t.cumQty = r.cumQty /\ t.booked = r.booked - (r.qty - r.cumQty)
    BY DEF onNewRej, remove, Order
  <2>4. b.price \in Prices => t.booked = 0
    BY <1>1, <1>2, <2>1, <2>3, PricesAssumption
  <2> HIDE DEF t
  <2>5. Sound(t, q, s, e, b)
    BY <1>4, <2>2, <2>3, <2>4
  <2> QED BY <1>6, <2>1, <2>5
<1>7. CASE v.ok
  <2>1. v.order = add(pending)
    BY <1>7 DEF sendNew, Verdict
  <2> DEFINE u == add(pending)
             t == onNewRej(u)
  <2>2. u \in Order
    <3> HIDE DEF pending
    <3> QED BY <1>5, CountsType
  <2>3. /\ u.state = "Pending" /\ u.inTable /\ u.qty = r.qty
        /\ u.cumQty = r.cumQty /\ u.booked = r.booked + (r.qty - r.cumQty)
    BY DEF add, Order
  <2> HIDE DEF u
  <2>4. t \in Order
    BY <2>2, InboundType
  <2>5. /\ t.state = "Rejected" /\ ~t.inTable /\ t.qty = r.qty
        /\ t.cumQty = r.cumQty
        /\ t.booked = r.booked + (r.qty - r.cumQty) - (r.qty - r.cumQty)
    BY <2>2, <2>3, SMTT(40) DEF onNewRej, remove, Order
  <2> HIDE DEF t
  <2>6. Sound(u, q, s, e, b) /\ Sound(t, q, s, e, b)
    <3>1. /\ b.price \in Prices => u.booked = u.qty - u.cumQty
          /\ b.price \in Prices => t.booked = 0
      BY <1>1, <1>2, <2>3, <2>5
    <3>2. Sound(u, q, s, e, b)
      BY <1>4, <2>2, <2>3, <3>1
    <3>3. Sound(t, q, s, e, b)
      BY <1>4, <2>4, <2>5, <3>1
    <3> QED BY <3>2, <3>3
  <2>7. NewSound(u, Append(q, m), s, e)
    <3>1. Len(Append(q, m)) = 1
      BY <1>1
    <3> QED BY <1>1, <2>3, <3>1 DEF NewSound
  <2>8. Sound(u, Append(q, m), s, e, b)
    BY <2>6, <2>7 DEF Sound
  <2> QED BY <1>7, <2>1, <2>6, <2>8 DEF u, t
<1> QED BY <1>6, <1>7

\* The exchange takes a new request, or refuses it.
LEMMA SoundOpened ==
  ASSUME NEW r \in Order, NEW q \in Seq(Request), q # <<>>, Head(q).type = "New",
         NEW s, NEW e, NEW f, NEW b, NEW m \in Response, f.cum = e.cum,
         \/ m.type = "NewAck" /\ f.status = "Open"
         \/ m.type = "NewRej" /\ f.status = "Closed",
         Sound(r, q, s, e, b)
  PROVE  Sound(r, Tail(q), Append(s, m), f, b)
<1>1. 1 \in DOMAIN q /\ Head(q) = q[1]
  OBVIOUS
<1>2. Len(q) = 1 /\ s = <<>> /\ r.state = "Pending"
  BY <1>1 DEF Sound, NewSound
<1>3. \A i \in DOMAIN Tail(q) : Tail(q)[i].type # "New"
  BY SoundHandled
<1>4. Append(s, m) = <<m>>
  BY <1>2
<1>5. r.inTable
  BY <1>2 DEF Sound, BooksSound, isOrderLive
<1> DEFINE a == <<m>>
<1>6. DOMAIN a = {1} /\ a[1] = m
  OBVIOUS
<1> HIDE DEF a
<1>7. NewSound(r, Tail(q), a, f)
  BY <1>2, <1>3 DEF NewSound
<1>8. EndSound(r, a, f)
  BY <1>5, <1>6 DEF EndSound, Ending
<1>9. CumSound(r, a, f, b)
  BY <1>6 DEF Sound, CumSound, Fills
<1>10. \A i \in DOMAIN a : a[i].type # "TradeBreak"
  BY <1>6
<1> QED BY <1>4, <1>7, <1>8, <1>9, <1>10 DEF Sound, a

--------------------------------------------------------------------------------
(***************************************************************************)
(* Every step keeps every order sound                                      *)
(***************************************************************************)

AllSound == \A o \in Orders : Sound(ord[o], req[o], resp[o], ex[o], Book[o])

\* The orders a step does not name.
Aside(o) ==
  \A x \in Orders \ {o} :
    /\ ord'[x] = ord[x] /\ req'[x] = req[x]
    /\ resp'[x] = resp[x] /\ ex'[x] = ex[x]

\* A step of one order is judged by that order alone.
LEMMA OneOrder ==
  ASSUME AllSound, NEW o \in Orders, Aside(o),
         Sound(ord'[o], req'[o], resp'[o], ex'[o], Book[o]),
         ord[o].state \in Dead => ord'[o].state = ord[o].state
  PROVE  AllSound' /\ TerminalKept
BY DEF AllSound, Aside, TerminalKept, Dead

\* What a cancel puts on the wire keeps the order sound.
LEMMA SoundEmit ==
  ASSUME TypeOK, NEW o \in Orders, NEW c, NEW orig \in Nat, NEW s, NEW e, NEW b,
         c.order \in Order, c.sends => c.order.state = "Cancelling",
         Emit(o, c, orig), Sound(c.order, req[o], s, e, b)
  PROVE  /\ Sound(c.order, req'[o], s, e, b)
         /\ \A x \in Orders \ {o} : req'[x] = req[x]
<1> DEFINE m == [type |-> "Cxl", id |-> nextId[o], orig |-> orig,
                 price |-> c.order.price]
<1>1. req[o] \in Seq(Request) /\ req \in [Orders -> Seq(Request)]
  BY DEF TypeOK
<1>2. CASE ~c.sends
  <2>1. req' = req
    BY <1>2 DEF Emit
  <2> QED BY <2>1
<1>3. CASE c.sends
  <2>1. m \in Request
    BY OrderFields DEF TypeOK, Request, NoId
  <2>2. req' = [req EXCEPT ![o] = Append(req[o], m)]
    BY <1>3 DEF Emit, Send
  <2>3. m.type # "New"
    OBVIOUS
  <2> HIDE DEF m
  <2>4. Sound(c.order, Append(req[o], m), s, e, b)
    BY <1>1, <1>3, <2>1, <2>3, SoundSend
  <2> QED BY <1>1, <2>2, <2>4
<1> QED BY <1>2, <1>3

\* The strategy's steps.
LEMMA StrategySound ==
  ASSUME TypeOK, AllSound, NEW o \in Orders, Strategy(o)
  PROVE  AllSound' /\ TerminalKept
<1>1. /\ ord[o] \in Order /\ ord \in [Orders -> Order]
      /\ req[o] \in Seq(Request) /\ req \in [Orders -> Seq(Request)]
      /\ ex[o] \in Exchanges
      /\ Book[o] \in [side : Sides, qty : Nat, price : Prices \cup {InvalidPrice}]
  BY FlowAssumption DEF TypeOK
<1>2. Sound(ord[o], req[o], resp[o], ex[o], Book[o])
  BY DEF AllSound
<1>3. CASE SendNew(o)
  <2> DEFINE v == sendNew(ord[o])
             m == [type |-> "New", id |-> nextId[o], orig |-> NoId,
                   price |-> v.order.price]
  <2>1. v.order \in Order
    BY <1>1, OutboundType
  <2>2. m \in Request
    BY <2>1, OrderFields DEF TypeOK, Request, NoId
  <2>3. ord[o].state = "Unknown" /\ UNCHANGED <<resp, ex>>
    BY <1>3 DEF SendNew
  <2> HIDE DEF m
  <2>4. /\ ~v.ok => Sound(v.order, req[o], resp[o], ex[o], Book[o])
        /\ v.ok => Sound(onNewRej(v.order), req[o], resp[o], ex[o], Book[o])
        /\ v.ok => Sound(v.order, Append(req[o], m), resp[o], ex[o], Book[o])
    BY <1>1, <1>2, <2>2, <2>3, SoundSendNew
  <2>5. \/ ~v.ok /\ ord' = [ord EXCEPT ![o] = v.order] /\ req' = req
        \/ v.ok /\ ord' = [ord EXCEPT ![o] = onNewRej(v.order)] /\ req' = req
        \/ /\ v.ok /\ ord' = [ord EXCEPT ![o] = v.order]
           /\ req' = [req EXCEPT ![o] = Append(req[o], m)]
    BY <1>3 DEF SendNew, Store, Send, wire, m
  <2> HIDE DEF v
  <2>6. Sound(ord'[o], req'[o], resp'[o], ex'[o], Book[o]) /\ Aside(o)
    BY <1>1, <2>3, <2>4, <2>5 DEF Aside
  <2> QED BY <2>3, <2>6, OneOrder DEF Dead
<1>4. ASSUME NEW p \in Prices, SendMod(o, p)
      PROVE  AllSound' /\ TerminalKept
  <2> DEFINE x == [ord[o] EXCEPT !.newPrice = p]
             v == sendMod(x)
             m == [type |-> "Mod", id |-> nextId[o], orig |-> origId[o],
                   price |-> p]
  <2>1. x \in Order /\ Quiet(ord[o], x)
    BY <1>1 DEF Order, Quiet, isOrderLive
  <2>2. v.order \in Order /\ Quiet(x, v.order)
    <3> HIDE DEF x
    <3> QED BY <2>1, OutboundType, QuietHandlers
  <2>3. v.ok => v.order.state = "Modifying"
    BY <1>1 DEF sendMod, Verdict, Order
  <2> HIDE DEF x, v
  <2>4. Quiet(ord[o], v.order)
    BY <1>1, <2>1, <2>2, QuietTrans
  <2> DEFINE w == onModRej(v.order)
  <2>5. w \in Order /\ Quiet(v.order, w)
    BY <2>2, InboundType, QuietHandlers
  <2> HIDE DEF w
  <2>6. Quiet(ord[o], w)
    BY <1>1, <2>2, <2>4, <2>5, QuietTrans
  <2>7. /\ onModRejPost(w, TRUE) \in Order /\ Quiet(w, onModRejPost(w, TRUE))
        /\ onModRejPost(w, FALSE) \in Order /\ Quiet(w, onModRejPost(w, FALSE))
    BY <2>5, InboundType, QuietHandlers
  <2>8. /\ Quiet(ord[o], onModRejPost(w, TRUE))
        /\ Quiet(ord[o], onModRejPost(w, FALSE))
    BY <1>1, <2>5, <2>6, <2>7, QuietTrans
  <2>9. m \in Request /\ m.type # "New"
    BY DEF TypeOK, Request, NoId
  <2> HIDE DEF m
  <2>10. \/ ord' = [ord EXCEPT ![o] = onModRejPost(w, TRUE)] /\ req' = req
         \/ ord' = [ord EXCEPT ![o] = onModRejPost(w, FALSE)] /\ req' = req
         \/ /\ v.ok /\ ord' = [ord EXCEPT ![o] = v.order]
            /\ req' = [req EXCEPT ![o] = Append(req[o], m)]
    BY <1>4 DEF SendMod, Store, Send, v, w, x, m
  <2>11. UNCHANGED <<resp, ex>>
    BY <1>4 DEF SendMod
  <2>12. /\ Sound(onModRejPost(w, TRUE), req[o], resp[o], ex[o], Book[o])
         /\ Sound(onModRejPost(w, FALSE), req[o], resp[o], ex[o], Book[o])
         /\ Sound(v.order, req[o], resp[o], ex[o], Book[o])
    BY <1>1, <1>2, <2>2, <2>4, <2>7, <2>8, SoundQuiet
  <2>13. v.ok => Sound(v.order, Append(req[o], m), resp[o], ex[o], Book[o])
    BY <1>1, <2>2, <2>3, <2>9, <2>12, SoundSend
  <2>14. Sound(ord'[o], req'[o], resp'[o], ex'[o], Book[o]) /\ Aside(o)
    BY <1>1, <2>10, <2>11, <2>12, <2>13 DEF Aside
  <2>15. ord[o].state \in Dead => ord'[o].state = ord[o].state
    BY <1>1, <2>4, <2>8, <2>10 DEF Quiet
  <2> QED BY <2>14, <2>15, OneOrder
<1>5. ASSUME CxlLocked(o)
      PROVE  AllSound' /\ TerminalKept
  <2>1. PICK outcome \in Outcomes :
          /\ Store(o, CxlChain(ord[o], outcome).order)
          /\ Emit(o, CxlChain(ord[o], outcome), origId[o])
    BY <1>5 DEF CxlLocked
  <2> DEFINE c == CxlChain(ord[o], outcome)
  <2>2. /\ c.order \in Order /\ Quiet(ord[o], c.order)
        /\ c.sends => c.order.state = "Cancelling"
    BY <1>1, ChainType, QuietChain
  <2> HIDE DEF c
  <2>3. Sound(c.order, req[o], resp[o], ex[o], Book[o])
    BY <1>1, <1>2, <2>2, SoundQuiet
  <2>4. origId[o] \in Nat
    BY DEF TypeOK
  <2>5. /\ Sound(c.order, req'[o], resp[o], ex[o], Book[o])
        /\ \A x \in Orders \ {o} : req'[x] = req[x]
    BY <2>1, <2>2, <2>3, <2>4, SoundEmit DEF c
  <2>6. ord' = [ord EXCEPT ![o] = c.order] /\ UNCHANGED <<resp, ex>>
    BY <1>5, <2>1 DEF CxlLocked, Store, c
  <2>7. Sound(ord'[o], req'[o], resp'[o], ex'[o], Book[o]) /\ Aside(o)
    BY <1>1, <2>5, <2>6 DEF Aside
  <2>8. ord[o].state \in Dead => ord'[o].state = ord[o].state
    BY <1>1, <2>2, <2>6 DEF Quiet
  <2> QED BY <2>7, <2>8, OneOrder
<1>6. CASE ReadCxlState(o)
  BY <1>2, <1>6, OneOrder DEF ReadCxlState, wire, Aside
<1> QED BY <1>3, <1>4, <1>5, <1>6 DEF Strategy, SendCxl, SendCxlUnlocked

\* The session thread's steps inside the container.
LEMMA InboundSound ==
  ASSUME TypeOK, PickedThere, AllSound, NEW o \in Orders, Inbound(o)
  PROVE  AllSound' /\ TerminalKept
<1> DEFINE m == Head(resp[o])
           b == Book[o]
           s == Tail(resp[o])
<1>1. /\ ord[o] \in Order /\ ord \in [Orders -> Order]
      /\ req[o] \in Seq(Request) /\ req \in [Orders -> Seq(Request)]
      /\ resp[o] \in Seq(Response) /\ resp \in [Orders -> Seq(Response)]
      /\ ex[o] \in Exchanges /\ origId[o] \in Nat
      /\ b \in [side : Sides, qty : Nat, price : Prices \cup {InvalidPrice}]
  BY FlowAssumption DEF TypeOK
<1>2. Sound(ord[o], req[o], resp[o], ex[o], b)
  BY DEF AllSound
<1>3. \E type : Take(o, type)
  BY DEF Inbound, OnNewAck, OnNewAckReentrant, OnNewRej, OnModAck, OnModRej,
         OnCxlAck, OnCxlRej, OnFill, OnBust
<1>4. /\ resp[o] # <<>>
      /\ resp' = [resp EXCEPT ![o] = s] /\ UNCHANGED ex
  BY <1>3 DEF Take, PickedThere
<1>5. m \in Response /\ m.price \in Prices \cup {InvalidPrice} /\ m.id \in Nat
  <2>1. m \in Response
    BY <1>1, <1>4
  <2> QED BY <2>1 DEF Response
<1>6. /\ Sound(ord[o], req[o], s, ex[o], b)
      /\ ord[o].state # "Unknown"
  BY <1>1, <1>2, <1>4, SoundTaken
<1> HIDE DEF m, b, s
<1>7. ASSUME NEW c, c.order \in Order, c.sends => c.order.state = "Cancelling",
             Sound(c.order, req[o], s, ex[o], b),
             ord[o].state \in Dead => c.order.state = ord[o].state,
             ord' = [ord EXCEPT ![o] = c.order], NEW orig \in Nat, Emit(o, c, orig)
      PROVE  AllSound' /\ TerminalKept
  <2>1. /\ Sound(c.order, req'[o], s, ex[o], b)
        /\ \A x \in Orders \ {o} : req'[x] = req[x]
    BY <1>7, SoundEmit
  <2>2. Sound(ord'[o], req'[o], resp'[o], ex'[o], Book[o]) /\ Aside(o)
    BY <1>1, <1>4, <1>7, <2>1 DEF Aside, b
  <2>3. ord[o].state \in Dead => ord'[o].state = ord[o].state
    BY <1>1, <1>7
  <2> QED BY <2>2, <2>3, OneOrder
<1>8. ASSUME NEW t \in Order, Sound(t, req[o], s, ex[o], b),
             ord[o].state \in Dead => t.state = ord[o].state,
             Store(o, t), UNCHANGED wire
      PROVE  AllSound' /\ TerminalKept
  <2>1. ord' = [ord EXCEPT ![o] = t] /\ UNCHANGED req
    BY <1>8 DEF Store, wire
  <2>2. Sound(ord'[o], req'[o], resp'[o], ex'[o], Book[o]) /\ Aside(o)
    BY <1>1, <1>4, <1>8, <2>1 DEF Aside, b
  <2>3. ord[o].state \in Dead => ord'[o].state = ord[o].state
    BY <1>1, <1>8, <2>1
  <2> QED BY <2>2, <2>3, OneOrder
<1>9. ASSUME NEW r \in Order, Sound(r, req[o], s, ex[o], b),
             ord[o].state \in Dead => r.state = ord[o].state,
             NEW outcome \in Outcomes, NEW orig \in Nat,
             Store(o, checkCancelOnAck(r, outcome).order),
             Emit(o, checkCancelOnAck(r, outcome), orig)
      PROVE  AllSound' /\ TerminalKept
  <2> DEFINE c == checkCancelOnAck(r, outcome)
  <2>1. /\ c.order \in Order /\ Quiet(r, c.order)
        /\ c.sends => c.order.state = "Cancelling"
    BY ChainType, QuietCheck
  <2>2. ord' = [ord EXCEPT ![o] = c.order] /\ Emit(o, c, orig)
    BY <1>9 DEF Store
  <2> HIDE DEF c
  <2>3. Sound(c.order, req[o], s, ex[o], b)
    BY <1>9, <2>1, SoundQuiet
  <2>4. ord[o].state \in Dead => c.order.state = ord[o].state
    BY <1>9, <2>1 DEF Quiet
  <2> QED BY <1>7, <2>1, <2>2, <2>3, <2>4
<1>10. CASE OnNewAck(o)
  <2> DEFINE r == onNewAck(ord[o])
  <2>1. PICK outcome \in Outcomes :
          /\ Store(o, checkCancelOnAck(r, outcome).order)
          /\ Emit(o, checkCancelOnAck(r, outcome), origId[o])
    BY <1>10 DEF OnNewAck
  <2>2. r \in Order
    BY <1>1, InboundType
  <2>3. /\ Sound(r, req[o], s, ex[o], b)
        /\ ord[o].state \in Dead => r.state = ord[o].state
    BY <1>1, <1>2, <1>4, SoundNewAck DEF s
  <2> HIDE DEF r
  <2> QED BY <1>1, <1>9, <2>1, <2>2, <2>3
<1>11. CASE OnNewAckReentrant(o)
  <2> DEFINE r == onNewAck(ord[o])
             inner == CxlChain(r, "Pass")
             outer == checkCancelOnAck(inner.order, "Pass")
             c == CxlResult(outer.order, inner.adds \/ outer.adds,
                            inner.sends \/ outer.sends)
  <2>1. ord' = [ord EXCEPT ![o] = outer.order] /\ Emit(o, c, origId[o])
    BY <1>11 DEF OnNewAckReentrant, Store
  <2>2. r \in Order
    BY <1>1, InboundType
  <2>3. /\ Sound(r, req[o], s, ex[o], b)
        /\ ord[o].state \in Dead => r.state = ord[o].state
    BY <1>1, <1>2, <1>4, SoundNewAck DEF s
  <2>4. "Pass" \in Outcomes
    BY DEF Outcomes
  <2> HIDE DEF r
  <2>5. /\ inner.order \in Order /\ Quiet(r, inner.order)
        /\ inner.sends => inner.order.state = "Cancelling" /\ ~inner.order.cancelOnAck
    BY <2>2, <2>4, ChainType, QuietChain
  <2> HIDE DEF inner
  <2>6. /\ outer.order \in Order /\ Quiet(inner.order, outer.order)
        /\ outer.sends => outer.order.state = "Cancelling"
        /\ ~inner.order.cancelOnAck => outer.order = inner.order
    BY <2>4, <2>5, ChainType, QuietCheck DEF CxlResult
  <2> HIDE DEF outer
  <2>7. Quiet(r, outer.order)
    BY <2>2, <2>5, <2>6, QuietTrans
  <2>8. c.order = outer.order /\ (c.sends => c.order.state = "Cancelling")
    BY <2>5, <2>6 DEF CxlResult
  <2> HIDE DEF c
  <2>9. Sound(outer.order, req[o], s, ex[o], b)
    BY <2>2, <2>3, <2>6, <2>7, SoundQuiet
  <2>10. ord[o].state \in Dead => outer.order.state = ord[o].state
    BY <2>3, <2>7 DEF Quiet
  <2> QED BY <1>1, <1>7, <2>1, <2>6, <2>8, <2>9, <2>10
<1>12. CASE OnModAck(o)
  <2> DEFINE x == [ord[o] EXCEPT !.newPrice = m.price]
             y == onModAck(x)
             r == onModAckPost(y)
  <2>1. PICK outcome \in Outcomes :
          /\ Store(o, checkCancelOnAck(r, outcome).order)
          /\ Emit(o, checkCancelOnAck(r, outcome), m.id)
    BY <1>12 DEF OnModAck, m
  <2>2. x \in Order /\ Quiet(ord[o], x)
    BY <1>1, <1>5 DEF Order, Quiet, isOrderLive
  <2> HIDE DEF x
  <2>3. y \in Order /\ Quiet(x, y)
    BY <2>2, InboundType, QuietHandlers
  <2> HIDE DEF y
  <2>4. r \in Order /\ Quiet(y, r)
    BY <2>3, InboundType, QuietHandlers
  <2> HIDE DEF r
  <2>5. Quiet(ord[o], r)
    BY <1>1, <2>2, <2>3, <2>4, QuietTrans
  <2>6. Sound(r, req[o], s, ex[o], b)
    BY <1>1, <1>6, <2>4, <2>5, SoundQuiet
  <2> QED BY <1>5, <1>9, <2>1, <2>4, <2>5, <2>6 DEF Quiet
<1>13. CASE OnModRej(o)
  <2> DEFINE y == onModRej(ord[o])
             r == onModRejPost(y, FALSE)
  <2>1. PICK outcome \in Outcomes :
          /\ Store(o, checkCancelOnAck(r, outcome).order)
          /\ Emit(o, checkCancelOnAck(r, outcome), origId[o])
    BY <1>13 DEF OnModRej
  <2>2. y \in Order /\ Quiet(ord[o], y)
    BY <1>1, InboundType, QuietHandlers
  <2> HIDE DEF y
  <2>3. r \in Order /\ Quiet(y, r)
    BY <2>2, InboundType, QuietHandlers
  <2> HIDE DEF r
  <2>4. Quiet(ord[o], r)
    BY <1>1, <2>2, <2>3, QuietTrans
  <2>5. Sound(r, req[o], s, ex[o], b)
    BY <1>1, <1>6, <2>3, <2>4, SoundQuiet
  <2> QED BY <1>1, <1>9, <2>1, <2>3, <2>4, <2>5 DEF Quiet
<1>14. CASE OnNewRej(o)
  <2>1. Store(o, onNewRej(ord[o])) /\ UNCHANGED wire /\ Head(resp[o]).type = "NewRej"
    BY <1>14 DEF OnNewRej, Take
  <2>2. /\ onNewRej(ord[o]) \in Order
        /\ Sound(onNewRej(ord[o]), req[o], s, ex[o], b)
        /\ ord[o].state \in Dead => onNewRej(ord[o]).state = ord[o].state
    BY <1>1, <1>2, <1>4, <2>1, InboundType, SoundNewRej DEF s
  <2> QED BY <1>8, <2>1, <2>2
<1>15. CASE OnCxlAck(o)
  <2>1. Store(o, onCxlAck(ord[o])) /\ UNCHANGED wire /\ Head(resp[o]).type = "CxlAck"
    BY <1>15 DEF OnCxlAck, Take
  <2>2. /\ onCxlAck(ord[o]) \in Order
        /\ Sound(onCxlAck(ord[o]), req[o], s, ex[o], b)
        /\ ord[o].state \notin Dead
    BY <1>1, <1>2, <1>4, <2>1, InboundType, SoundCxlAck DEF s
  <2> QED BY <1>8, <2>1, <2>2
<1>16. CASE OnCxlRej(o)
  <2>1. Store(o, onCxlRej(ord[o])) /\ UNCHANGED wire
    BY <1>16 DEF OnCxlRej
  <2>2. onCxlRej(ord[o]) \in Order /\ Quiet(ord[o], onCxlRej(ord[o]))
    BY <1>1, InboundType, QuietHandlers
  <2>3. Sound(onCxlRej(ord[o]), req[o], s, ex[o], b)
    BY <1>1, <1>6, <2>2, SoundQuiet
  <2> QED BY <1>8, <2>1, <2>2, <2>3 DEF Quiet
<1>17. CASE OnFill(o)
  <2> DEFINE t == onFill(ord[o], m.qty)
  <2>1. Store(o, t) /\ UNCHANGED wire /\ m.type \in Fills
    BY <1>17 DEF OnFill, Take, Fills, m
  <2>2. t \in Order
    BY <1>1, <1>5, FillType DEF Response
  <2>3. Sound(t, req[o], s, ex[o], b) /\ ord[o].state \notin Dead
    BY <1>1, <1>2, <1>4, <2>1, SoundFill DEF s, m
  <2> HIDE DEF t
  <2> QED BY <1>8, <2>1, <2>2, <2>3
<1>18. CASE OnBust(o)
  <2>1. m.type = "TradeBreak"
    BY <1>18 DEF OnBust, Take, m
  <2>2. 1 \in DOMAIN resp[o] /\ m = resp[o][1]
    BY <1>1, <1>4 DEF m
  <2> QED BY <1>2, <2>1, <2>2 DEF Sound
<1> QED BY <1>10, <1>11, <1>12, <1>13, <1>14, <1>15, <1>16, <1>17, <1>18
        DEF Inbound

\* The exchange's steps, until it busts a trade.
LEMMA ExchangeSound ==
  ASSUME TypeOK, TypeOK', AllSound, NEW o \in Orders, Exchange(o)
  PROVE  (AllSound' \/ ExBreak(o)) /\ TerminalKept
<1> DEFINE q == req[o]
           s == resp[o]
           e == ex[o]
           b == Book[o]
<1>1. /\ ord[o] \in Order /\ q \in Seq(Request) /\ s \in Seq(Response)
      /\ req \in [Orders -> Seq(Request)] /\ resp \in [Orders -> Seq(Response)]
      /\ e \in Exchanges /\ ex \in [Orders -> Exchanges]
      /\ b \in [side : Sides, qty : Nat, price : Prices \cup {InvalidPrice}]
      /\ ex'[o] \in Exchanges
  BY FlowAssumption DEF TypeOK
<1>2. Sound(ord[o], q, s, e, b)
  BY DEF AllSound
<1>3. UNCHANGED ord
  BY DEF Exchange, ExNew, ExMod, ExCxl, ExFill, ExExpire, ExBreak, Handle
<1>4. TerminalKept
  BY <1>3 DEF TerminalKept
<1>5. ASSUME NEW type \in RespTypes, NEW x \in Request
      PROVE  Answer(type, x) \in Response /\ Answer(type, x).type = type
  BY DEF Answer, Response, Request
<1>6. ASSUME NEW type \in RespTypes, NEW n \in Nat, NEW cum \in Nat
      PROVE  /\ Report(type, o, n, cum) \in Response
             /\ Report(type, o, n, cum).type = type
             /\ Report(type, o, n, cum).qty = n
             /\ Report(type, o, n, cum).cum = cum
  BY <1>1 DEF Report, Response, NoId, Exchanges
<1>7. ASSUME NEW m \in Response, Reply(o, m),
             req' = [req EXCEPT ![o] = req'[o]],
             ex' = [ex EXCEPT ![o] = ex'[o]],
             Sound(ord[o], req'[o], Append(s, m), ex'[o], b)
      PROVE  AllSound'
  <2>1. resp' = [resp EXCEPT ![o] = Append(s, m)]
    BY <1>7 DEF Reply
  <2>2. resp'[o] = Append(s, m)
    BY <1>1, <2>1
  <2>3. Sound(ord'[o], req'[o], resp'[o], ex'[o], Book[o])
    BY <1>3, <1>7, <2>2
  <2>4. \A x \in Orders \ {o} :
          req'[x] = req[x] /\ resp'[x] = resp[x] /\ ex'[x] = ex[x]
    BY <1>1, <1>7, <2>1
  <2>5. Aside(o)
    BY <1>3, <2>4 DEF Aside
  <2> QED BY <1>3, <2>3, <2>5, OneOrder
<1> DEFINE m == Head(q)
<1>8. ASSUME NEW type, Handle(o, type)
      PROVE  /\ q # <<>> /\ m \in Request /\ m.type = type
             /\ m.id \in Nat /\ m.price \in Prices \cup {InvalidPrice}
             /\ req' = [req EXCEPT ![o] = Tail(q)] /\ req'[o] = Tail(q)
             /\ Sound(ord[o], Tail(q), s, e, b)
             /\ \A i \in DOMAIN Tail(q) : Tail(q)[i].type # "New"
             /\ ord[o].state # "Unknown"
  <2>1. q # <<>> /\ m.type = type /\ req' = [req EXCEPT ![o] = Tail(q)]
    BY <1>8 DEF Handle
  <2>2. m \in Request
    BY <1>1, <2>1
  <2>3. m.id \in Nat /\ m.price \in Prices \cup {InvalidPrice}
    BY <2>2 DEF Request
  <2>4. req'[o] = Tail(q)
    BY <1>1, <2>1
  <2>5. /\ Sound(ord[o], Tail(q), s, e, b)
        /\ \A i \in DOMAIN Tail(q) : Tail(q)[i].type # "New"
        /\ ord[o].state # "Unknown"
    BY <1>1, <1>2, <2>1, SoundHandled
  <2> QED BY <2>1, <2>2, <2>3, <2>4, <2>5
<1> HIDE DEF m
<1>9. CASE ExNew(o)
  <2>1. Handle(o, "New")
    BY <1>9 DEF ExNew
  <2>2. req' = [req EXCEPT ![o] = req'[o]] /\ req'[o] = Tail(q)
    BY <1>8, <2>1
  <2>3. ASSUME NEW a \in Response, ex'[o].cum = e.cum,
               \/ a.type = "NewAck" /\ ex'[o].status = "Open"
               \/ a.type = "NewRej" /\ ex'[o].status = "Closed"
        PROVE  Sound(ord[o], Tail(q), Append(s, a), ex'[o], b)
    <3>1. q # <<>> /\ Head(q).type = "New"
      BY <1>8, <2>1 DEF m
    <3> DEFINE f == ex'[o]
    <3> HIDE DEF f, q, s, e, b
    <3>2. Sound(ord[o], Tail(q), Append(s, a), f, b)
      BY <1>1, <1>2, <2>3, <3>1, SoundOpened DEF f
    <3> QED BY <3>2 DEF f
  <2>4. CASE /\ ex' = [ex EXCEPT ![o].status = "Open", ![o].id = m.id]
             /\ Reply(o, Answer("NewAck", m))
    <3>1. /\ Answer("NewAck", m) \in Response
          /\ Answer("NewAck", m).type = "NewAck"
      BY <1>5, <1>8, <2>1 DEF RespTypes
    <3>2. /\ ex'[o].status = "Open" /\ ex'[o].cum = e.cum
          /\ ex' = [ex EXCEPT ![o] = ex'[o]]
      BY <1>1, <2>4 DEF Exchanges
    <3>3. Sound(ord[o], Tail(q), Append(s, Answer("NewAck", m)), ex'[o], b)
      BY <2>3, <3>1, <3>2
    <3> QED BY <1>4, <1>7, <2>2, <2>4, <3>1, <3>2, <3>3
  <2>5. CASE /\ ex' = [ex EXCEPT ![o].status = "Closed"]
             /\ Reply(o, Answer("NewRej", m))
    <3>1. /\ Answer("NewRej", m) \in Response
          /\ Answer("NewRej", m).type = "NewRej"
      BY <1>5, <1>8, <2>1 DEF RespTypes
    <3>2. /\ ex'[o].status = "Closed" /\ ex'[o].cum = e.cum
          /\ ex' = [ex EXCEPT ![o] = ex'[o]]
      BY <1>1, <2>5 DEF Exchanges
    <3>3. Sound(ord[o], Tail(q), Append(s, Answer("NewRej", m)), ex'[o], b)
      BY <2>3, <3>1, <3>2
    <3> QED BY <1>4, <1>7, <2>2, <2>5, <3>1, <3>2, <3>3
  <2> QED BY <1>9, <2>4, <2>5 DEF ExNew, m
<1>10. CASE ExMod(o)
  <2>1. Handle(o, "Mod")
    BY <1>10 DEF ExMod
  <2>2. req' = [req EXCEPT ![o] = req'[o]] /\ req'[o] = Tail(q)
    BY <1>8, <2>1
  <2>3. ASSUME NEW a \in Response, a.type \in {"ModAck", "ModRej"},
               ex'[o].cum = e.cum, ex'[o].status = e.status
        PROVE  Sound(ord[o], Tail(q), Append(s, a), ex'[o], b)
    <3>1. a.type \notin Closing \cup Ending \cup {"TradeBreak"}
      BY <2>3 DEF Closing, Fills, Ending
    <3>2. /\ Sound(ord[o], Tail(q), s, e, b) /\ ord[o].state # "Unknown"
          /\ \A i \in DOMAIN Tail(q) : Tail(q)[i].type # "New"
      BY <1>8, <2>1
    <3>3. Tail(q) \in Seq(Request)
      BY <1>1, <1>8, <2>1
    <3> DEFINE f == ex'[o]
               k == Tail(q)
    <3> HIDE DEF f, k, q, s, e, b
    <3>4. Sound(ord[o], k, Append(s, a), f, b)
      BY <1>1, <2>3, <3>1, <3>2, <3>3, SoundAnswered DEF f, k
    <3> QED BY <3>4 DEF f, k
  <2>4. CASE /\ ex' = [ex EXCEPT ![o].id = m.id, ![o].price = m.price]
             /\ Reply(o, Answer("ModAck", m))
    <3>1. /\ Answer("ModAck", m) \in Response
          /\ Answer("ModAck", m).type = "ModAck"
      BY <1>5, <1>8, <2>1 DEF RespTypes
    <3>3. /\ ex'[o].status = e.status /\ ex'[o].cum = e.cum
          /\ ex' = [ex EXCEPT ![o] = ex'[o]]
      BY <1>1, <2>4 DEF Exchanges
    <3>4. Sound(ord[o], Tail(q), Append(s, Answer("ModAck", m)), ex'[o], b)
      BY <2>3, <3>1, <3>3
    <3> QED BY <1>4, <1>7, <2>2, <2>4, <3>1, <3>3, <3>4
  <2>5. CASE UNCHANGED ex /\ Reply(o, Answer("ModRej", m))
    <3>1. /\ Answer("ModRej", m) \in Response
          /\ Answer("ModRej", m).type = "ModRej"
      BY <1>5, <1>8, <2>1 DEF RespTypes
    <3>3. ex'[o] = e /\ ex' = [ex EXCEPT ![o] = ex'[o]]
      BY <1>1, <2>5
    <3>4. Sound(ord[o], Tail(q), Append(s, Answer("ModRej", m)), ex'[o], b)
      BY <2>3, <3>1, <3>3
    <3> QED BY <1>4, <1>7, <2>2, <2>5, <3>1, <3>3, <3>4
  <2> QED BY <1>10, <2>4, <2>5 DEF ExMod, m
<1>11. CASE ExCxl(o)
  <2>1. Handle(o, "Cxl")
    BY <1>11 DEF ExCxl
  <2>2. req' = [req EXCEPT ![o] = req'[o]] /\ req'[o] = Tail(q)
    BY <1>8, <2>1
  <2>3. CASE /\ e.status = "Open" /\ ex' = [ex EXCEPT ![o].status = "Closed"]
             /\ Reply(o, Answer("CxlAck", m))
    <3>1. /\ Answer("CxlAck", m) \in Response
          /\ Answer("CxlAck", m).type = "CxlAck"
      BY <1>5, <1>8, <2>1 DEF RespTypes
    <3>2. /\ ex'[o].status = "Closed" /\ ex'[o].cum = e.cum
          /\ ex' = [ex EXCEPT ![o] = ex'[o]]
      BY <1>1, <2>3 DEF Exchanges
    <3>3. ex'[o].cum <= b.qty
      BY <1>2, <3>2 DEF Sound, CumSound
    <3>4. Sound(ord[o], Tail(q), Append(s, Answer("CxlAck", m)), ex'[o], b)
      BY <1>1, <1>8, <2>1, <2>3, <3>1, <3>2, <3>3, SoundClosed, ZenonT(40)
    <3> QED BY <1>4, <1>7, <2>2, <2>3, <3>1, <3>2, <3>4
  <2>4. CASE UNCHANGED ex /\ Reply(o, Answer("CxlRej", m))
    <3>1. /\ Answer("CxlRej", m) \in Response
          /\ Answer("CxlRej", m).type = "CxlRej"
      BY <1>5, <1>8, <2>1 DEF RespTypes
    <3>2. "CxlRej" \notin Closing \cup Ending \cup {"TradeBreak"}
      BY DEF Closing, Fills, Ending
    <3>3. ex'[o] = e /\ ex' = [ex EXCEPT ![o] = ex'[o]]
      BY <1>1, <2>4
    <3>4. Sound(ord[o], Tail(q), Append(s, Answer("CxlRej", m)), ex'[o], b)
      BY <1>1, <1>8, <2>1, <3>1, <3>2, <3>3, SoundAnswered, ZenonT(40)
    <3> QED BY <1>4, <1>7, <2>2, <2>4, <3>1, <3>3, <3>4
  <2> QED BY <1>11, <2>3, <2>4 DEF ExCxl, m
<1>12. CASE ExFill(o)
  <2>1. PICK n \in 1 .. (b.qty - e.cum) :
          /\ ex' = [ex EXCEPT ![o].cum = @ + n,
                              ![o].status = IF e.cum + n = b.qty THEN "Closed" ELSE @]
          /\ Reply(o, Report(IF e.cum + n = b.qty THEN "Fill" ELSE "PartFill",
                             o, n, e.cum + n))
    BY <1>12 DEF ExFill
  <2>2. e.status = "Open" /\ UNCHANGED req
    BY <1>12 DEF ExFill, wire
  <2>3. /\ e.cum \in Nat /\ b.qty \in Nat
        /\ n \in Nat /\ e.cum + n \in Nat /\ e.cum + n <= b.qty
    <3>1. e.cum \in Nat /\ b.qty \in Nat
      BY <1>1 DEF Exchanges
    <3> QED BY <2>1, <3>1
  <2>4. /\ ex'[o].cum = e.cum + n /\ ex' = [ex EXCEPT ![o] = ex'[o]]
        /\ ex'[o].status = IF e.cum + n = b.qty THEN "Closed" ELSE e.status
    BY <1>1, <2>1 DEF Exchanges
  <2> DEFINE a == Report(IF e.cum + n = b.qty THEN "Fill" ELSE "PartFill",
                         o, n, e.cum + n)
  <2>5. /\ a \in Response /\ a.qty = n /\ a.cum = e.cum + n
        /\ a.type = IF e.cum + n = b.qty THEN "Fill" ELSE "PartFill"
    <3> DEFINE type == IF e.cum + n = b.qty THEN "Fill" ELSE "PartFill"
    <3>1. type \in RespTypes
      BY DEF RespTypes
    <3> HIDE DEF type
    <3>2. /\ Report(type, o, n, e.cum + n) \in Response
          /\ Report(type, o, n, e.cum + n).type = type
          /\ Report(type, o, n, e.cum + n).qty = n
          /\ Report(type, o, n, e.cum + n).cum = e.cum + n
      BY <1>6, <2>3, <3>1
    <3> QED BY <3>2 DEF type
  <2> HIDE DEF a
  <2>6. \/ /\ a.type = "Fill" /\ ex'[o].status = "Closed"
           /\ ex'[o].cum = e.cum + a.qty /\ a.cum = ex'[o].cum
        \/ /\ a.type = "PartFill" /\ ex'[o].status = "Open"
           /\ ex'[o].cum = e.cum + a.qty /\ a.cum = ex'[o].cum
           /\ ex'[o].cum < b.qty
    BY <2>2, <2>3, <2>4, <2>5
  <2>7. Sound(ord[o], q, Append(s, a), ex'[o], b)
    BY <1>1, <1>2, <2>2, <2>3, <2>4, <2>5, <2>6, SoundClosed, ZenonT(40)
  <2>8. req' = [req EXCEPT ![o] = req'[o]] /\ req'[o] = q
    BY <1>1, <2>2
  <2> QED BY <1>4, <1>7, <2>1, <2>4, <2>5, <2>7, <2>8 DEF a
<1>13. CASE ExExpire(o)
  <2> DEFINE a == Report("CxlAck", o, 0, e.cum)
  <2>1. /\ e.status = "Open" /\ ex' = [ex EXCEPT ![o].status = "Closed"]
        /\ Reply(o, a) /\ UNCHANGED req
    BY <1>13 DEF ExExpire, wire
  <2>2. a \in Response /\ a.type = "CxlAck"
    <3>1. "CxlAck" \in RespTypes
      BY DEF RespTypes
    <3>2. e.cum \in Nat
      BY <1>1 DEF Exchanges
    <3> QED BY <1>6, <3>1, <3>2
  <2> HIDE DEF a
  <2>3. /\ ex'[o].status = "Closed" /\ ex'[o].cum = e.cum
        /\ ex' = [ex EXCEPT ![o] = ex'[o]]
    BY <1>1, <2>1 DEF Exchanges
  <2>4. ex'[o].cum <= b.qty
    BY <1>2, <2>3 DEF Sound, CumSound
  <2>5. Sound(ord[o], q, Append(s, a), ex'[o], b)
    BY <1>1, <1>2, <2>1, <2>2, <2>3, <2>4, SoundClosed
  <2>6. req' = [req EXCEPT ![o] = req'[o]] /\ req'[o] = q
    BY <1>1, <2>1
  <2> QED BY <1>4, <1>7, <2>1, <2>2, <2>3, <2>5, <2>6
<1> QED BY <1>4, <1>9, <1>10, <1>11, <1>12, <1>13 DEF Exchange

\* What happens outside the container: the channel looks a response up or lets
\* go of it, a session that is down loses a request.
LEMMA SessionSound ==
  ASSUME TypeOK, AllSound, NEW o \in Orders, Receive(o) \/ LoseRequest(o)
  PROVE  AllSound' /\ TerminalKept
<1>1. /\ ord[o] \in Order /\ req[o] \in Seq(Request) /\ resp[o] \in Seq(Response)
      /\ req \in [Orders -> Seq(Request)] /\ resp \in [Orders -> Seq(Response)]
      /\ ex[o] \in Exchanges
  BY DEF TypeOK
<1>2. Sound(ord[o], req[o], resp[o], ex[o], Book[o])
  BY DEF AllSound
<1>3. UNCHANGED <<ord, ex>>
  BY DEF Receive, LoseRequest
<1>4. TerminalKept
  BY <1>3 DEF TerminalKept
<1>5. CASE UNCHANGED <<req, resp>>
  BY <1>3, <1>4, <1>5 DEF AllSound
<1>6. CASE /\ resp[o] # <<>> /\ resp' = [resp EXCEPT ![o] = Tail(resp[o])]
           /\ UNCHANGED req
  <2>1. Sound(ord[o], req[o], Tail(resp[o]), ex[o], Book[o])
    BY <1>1, <1>2, <1>6, SoundTaken
  <2>2. Aside(o) /\ resp'[o] = Tail(resp[o])
    BY <1>1, <1>3, <1>6 DEF Aside
  <2> QED BY <1>3, <1>4, <1>6, <2>1, <2>2, OneOrder
<1>7. CASE /\ req[o] # <<>> /\ req' = [req EXCEPT ![o] = Tail(req[o])]
           /\ UNCHANGED resp
  <2>1. Sound(ord[o], Tail(req[o]), resp[o], ex[o], Book[o])
    BY <1>1, <1>2, <1>7, SoundHandled
  <2>2. Aside(o) /\ req'[o] = Tail(req[o])
    BY <1>1, <1>3, <1>7 DEF Aside
  <2> QED BY <1>3, <1>4, <1>7, <2>1, <2>2, OneOrder
<1>8. \/ UNCHANGED <<req, resp>>
      \/ /\ resp[o] # <<>> /\ resp' = [resp EXCEPT ![o] = Tail(resp[o])]
         /\ UNCHANGED req
      \/ /\ req[o] # <<>> /\ req' = [req EXCEPT ![o] = Tail(req[o])]
         /\ UNCHANGED resp
  <2>1. CASE Receive(o)
    BY <2>1 DEF Receive
  <2>2. CASE LoseRequest(o)
    BY <2>2 DEF LoseRequest
  <2> QED BY <2>1, <2>2
<1> QED BY <1>4, <1>5, <1>6, <1>7, <1>8

\* No step takes a bust back.
LEMMA BreaksKept ==
  ASSUME TypeOK, [Next]_vars
  PROVE  breaks' = breaks \/ (breaks' # 0 /\ \E o \in Orders : ExBreak(o))
<1>1. ASSUME NEW o \in Orders, Strategy(o)
      PROVE  breaks' = breaks
  BY <1>1 DEF Strategy, SendNew, SendMod, SendCxl, ReadCxlState, SendCxlUnlocked,
              CxlLocked, session
<1>2. ASSUME NEW o \in Orders, Receive(o) \/ LoseRequest(o)
      PROVE  breaks' = breaks
  BY <1>2 DEF Receive, LoseRequest, session
<1>3. ASSUME NEW o \in Orders, Inbound(o)
      PROVE  breaks' = breaks
  BY <1>3 DEF Inbound, OnNewAck, OnNewAckReentrant, OnNewRej, OnModAck,
              OnModRej, OnCxlAck, OnCxlRej, OnFill, OnBust, Take, session
<1>4. ASSUME NEW o \in Orders, Exchange(o), ~ExBreak(o)
      PROVE  breaks' = breaks
  BY <1>4 DEF Exchange, ExNew, ExMod, ExCxl, ExFill, ExExpire, Handle, session
<1>5. ASSUME NEW o \in Orders, ExBreak(o)
      PROVE  breaks' # 0
  BY <1>5 DEF ExBreak, TypeOK
<1>6. CASE SessionDown \/ SessionUp \/ UNCHANGED vars
  BY <1>6 DEF SessionDown, SessionUp, vars, session
<1> QED BY <1>1, <1>2, <1>3, <1>4, <1>5, <1>6 DEF Next

\* Until a trade is busted, every step keeps every order sound and the ended
\* ones ended.
LEMMA NextSound ==
  ASSUME TypeOK, TypeOK', PickedThere, breaks = 0, AllSound, [Next]_vars
  PROVE  (breaks' = 0 => AllSound') /\ TerminalKept
<1>1. ASSUME NEW o \in Orders, Strategy(o)
      PROVE  AllSound' /\ TerminalKept
  BY <1>1, StrategySound
<1>2. ASSUME NEW o \in Orders, Receive(o) \/ LoseRequest(o)
      PROVE  AllSound' /\ TerminalKept
  BY <1>2, SessionSound
<1>3. ASSUME NEW o \in Orders, Inbound(o)
      PROVE  AllSound' /\ TerminalKept
  BY <1>3, InboundSound
<1>4. ASSUME NEW o \in Orders, Exchange(o)
      PROVE  (breaks' = 0 => AllSound') /\ TerminalKept
  <2>1. ExBreak(o) => breaks' # 0
    BY DEF ExBreak, TypeOK
  <2> QED BY <1>4, <2>1, ExchangeSound
<1>5. CASE SessionDown \/ SessionUp \/ UNCHANGED vars
  <2>1. UNCHANGED <<ord, req, resp, ex>>
    BY <1>5 DEF SessionDown, SessionUp, vars, wire
  <2> QED BY <2>1 DEF AllSound, TerminalKept
<1> QED BY <1>1, <1>2, <1>3, <1>4, <1>5 DEF Next

\* A process that has just started is sound.
LEMMA InitSound ==
  ASSUME Init
  PROVE  AllSound
<1> SUFFICES ASSUME NEW o \in Orders
             PROVE  Sound(ord[o], req[o], resp[o], ex[o], Book[o])
  BY DEF AllSound
<1> DEFINE r == ord[o]
           e == ex[o]
           b == Book[o]
<1>1. r = createOrder(b.side, b.qty, b.price) /\ req[o] = <<>> /\ resp[o] = <<>>
  BY DEF Init
<1>2. e = [status |-> "None", cum |-> 0, id |-> NoId, price |-> b.price]
  BY DEF Init
<1>3. b.qty \in Nat
  BY FlowAssumption
<1>4. /\ r.state = "Unknown" /\ r.qty = b.qty /\ r.cumQty = 0 /\ r.booked = 0
      /\ r.price = b.price /\ ~r.inTable
  BY <1>1 DEF createOrder
<1>5. e.status = "None" /\ e.cum = 0
  BY <1>2
<1>6. DOMAIN resp[o] = {} /\ DOMAIN req[o] = {}
  BY <1>1
<1> HIDE DEF r, e, b
<1>7. BooksSound(r, b)
  BY <1>4 DEF BooksSound, isOrderLive
<1>8. NewSound(r, req[o], resp[o], e)
  BY <1>1, <1>5, <1>6 DEF NewSound
<1>9. EndSound(r, resp[o], e)
  BY <1>5, <1>6 DEF EndSound
<1>10. CumSound(r, resp[o], e, b)
  BY <1>3, <1>4, <1>5, <1>6 DEF CumSound
<1> QED BY <1>6, <1>7, <1>8, <1>9, <1>10 DEF Sound, r, e, b

--------------------------------------------------------------------------------
(***************************************************************************)
(* The theorems                                                            *)
(***************************************************************************)

\* Until a trade is busted, every order is sound.
BooksHold == breaks = 0 => AllSound

\* The conjunction that is inductive.
FlowInv == TypeOK /\ PickedThere /\ BooksHold

\* It is one, and a step from it brings no ended order back.
LEMMA FlowStep ==
  ASSUME FlowInv, [Next]_vars
  PROVE  FlowInv' /\ (breaks = 0 => TerminalKept)
<1>1. TypeOK' /\ PickedThere'
  BY NextType, NextPicked DEF FlowInv
<1>2. breaks' = 0 => breaks = 0
  BY BreaksKept DEF FlowInv
<1>3. breaks = 0 => (breaks' = 0 => AllSound') /\ TerminalKept
  BY <1>1, NextSound DEF FlowInv, BooksHold
<1>4. BooksHold'
  BY <1>2, <1>3 DEF BooksHold
<1> QED BY <1>1, <1>3, <1>4 DEF FlowInv

\* It holds of every reachable state.
LEMMA FlowInvariant == Spec => []FlowInv
<1>1. Init => FlowInv
  BY InitType, InitSound DEF FlowInv, BooksHold
<1>2. FlowInv /\ [Next]_vars => FlowInv'
  BY FlowStep
<1> QED BY <1>1, <1>2, PTL DEF Spec

\* Until the exchange busts a trade, what an order has left in _bids or _asks is
\* its open quantity while it is in the table and nothing afterwards, whichever
\* of onNewRej, onCxlAck and onFill take it out and in whichever order.
THEOREM BooksExact == Spec => [](breaks = 0 => BookedExact)
<1>1. FlowInv => (breaks = 0 => BookedExact)
  BY DEF FlowInv, BooksHold, AllSound, Sound, BooksSound, BookedExact
<1> QED BY <1>1, FlowInvariant, PTL

\* Until the exchange busts a trade, the table of open orders holds exactly the
\* live orders: no cancel on exit or on disconnect misses one.
THEOREM TableExact == Spec => [](breaks = 0 => TableHoldsLive)
<1>1. FlowInv => (breaks = 0 => TableHoldsLive)
  BY DEF FlowInv, BooksHold, AllSound, Sound, BooksSound, TableHoldsLive
<1> QED BY <1>1, FlowInvariant, PTL

\* Until the exchange busts a trade, an order that is Rejected, Cancelled or
\* Filled stays so.
THEOREM EndedStayEnded == Spec => [][breaks = 0 => TerminalKept]_vars
<1>1. FlowInv /\ [Next]_vars => [breaks = 0 => TerminalKept]_vars
  BY FlowStep
<1> QED BY <1>1, FlowInvariant, PTL DEF Spec

\* Where the exchange busts no trade, what ends an order ends it for good, as
\* TerminalStable says.
THEOREM EndedForGood == Spec /\ [](breaks = 0) => TerminalStable
<1>1. [breaks = 0 => TerminalKept]_vars /\ breaks = 0 => [TerminalKept]_vars
  OBVIOUS
<1> QED BY <1>1, EndedStayEnded, PTL DEF TerminalStable
================================================================================
