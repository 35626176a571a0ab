------------------------------ MODULE ExchangeSim ------------------------------
(***************************************************************************)
(* The exchange simulator: a Matcher per instrument keeps two books whose  *)
(* levels queue the orders of the simulator's clients together with "sim"  *)
(* orders that stand for the quantity the price feed shows, and            *)
(* MatcherManagerCME turns FIX requests into calls of the matcher and the  *)
(* matcher's events into reports and into pictures of the book for the     *)
(* connections that subscribed to them.                                    *)
(*                                                                         *)
(* Every Matcher entry point runs under the matcher's (recursive) lock and *)
(* is one step.  One instrument and so one matcher; the loops that walk a  *)
(* level or a book are folds.  The certification market maker is a client  *)
(* whose requests are decided by the last quote.  The pictures of the book *)
(* are left to MessageBus.                                                 *)
(***************************************************************************)
EXTENDS Integers, Sequences, FiniteSets, SequencesExt

CONSTANTS
  Orders,        \* the orders of the simulator's clients
  Cert,          \* those that belong to the certification market maker
  Prices,        \* the limit prices clients modify their orders to
  Requests,      \* the new orders clients send: side, price, qty and ioc
  Quotes,        \* the quotes the feed delivers
  PercentFront,  \* SimulatorMatcherParams::_percentCancelFront
  Limits,        \* the *_ack_seq_count and *_rej_seq_count parameters
  MaxReqs,       \* bound: modify and cancel requests
  MaxQuotes      \* bound: quotes delivered

Sides == {"Buy", "Sell"}
Kinds == {"New", "Mod", "Cxl"}

ASSUME SimAssumption ==
  /\ Cert \subseteq Orders
  /\ Prices \subseteq Nat \ {0}
  /\ Requests \subseteq [side : Sides, price : Nat \ {0}, qty : Nat \ {0},
                         ioc : BOOLEAN]
  /\ PercentFront \in 0..100
  /\ Limits \in [Kinds -> [ack : Int, rej : Int]]
  /\ MaxReqs \in Nat /\ MaxQuotes \in Nat

VARIABLES
  mx,       \* the matcher: its books, its _ordersMap and the orders themselves
  rep,      \* the reports sent for each order
  cnt,      \* the counters of _matcherParams
  market,   \* the market maker's last quote (_markets)
  reqs,     \* modify and cancel requests so far
  quotes    \* quotes so far

vars == <<mx, rep, cnt, market, reqs, quotes>>

--------------------------------------------------------------------------------
(***************************************************************************)
(* Levels and books                                                        *)
(***************************************************************************)

\* The id of an order created by createSimOrder.
Sim == "Sim"

simOrder(q) == [id |-> Sim, open |-> q]

\* std::greater on the bids, std::less on the asks.
Better(side, p, q) == IF side = "Buy" THEN p > q ELSE p < q

\* std::less_equal on the bids, std::greater_equal on the asks: an order or a
\* trade at p takes what rests at q.
Reaches(side, p, q) == ~ Better(side, p, q)

OpenOf(entries) == FoldLeft(LAMBDA n, e : n + e.open, 0, entries)

IsSim(e) == e.id = Sim

getOpenSimQty(level) == OpenOf(SelectSeq(level.orders, IsSim))

Lesser(a, b) == IF a < b THEN a ELSE b

NoneTaken(q) == [left |-> q, kept |-> <<>>, fills |-> <<>>]

\* processMatch on one entry: it trades what is left, and stays if that is
\* less than it has open.
processMatch(a, e, price) ==
  LET n == Lesser(e.open, a.left)
  IN [left |-> a.left - n,
      kept |-> IF n = e.open THEN a.kept
               ELSE Append(a.kept, [e EXCEPT !.open = @ - n]),
      fills |-> IF n = 0 THEN a.fills
                ELSE Append(a.fills, [id |-> e.id, qty |-> n, price |-> price])]

processMatches_LastFirst(entries, q, price) ==
  LET t == FoldLeft(LAMBDA a, e : processMatch(a, e, price), NoneTaken(q),
                    Reverse(entries))
  IN [t EXCEPT !.kept = Reverse(@)]

\* processMatches: the entries trade in the order of the queue.
processMatches(entries, q, price) ==
  FoldLeft(LAMBDA a, e : processMatch(a, e, price), NoneTaken(q), entries)

\* The walk of processTrade, processCross and checkMatches: best level first,
\* as far as price p reaches; a level with nothing left is erased.
Walk(book, side, p, q) ==
  FoldLeft(LAMBDA a, l :
             IF ~ Reaches(side, p, l.price)
               THEN [a EXCEPT !.kept = Append(@, l)]
               ELSE LET t == processMatches(l.orders, a.left, l.price)
                    IN [left |-> t.left,
                        kept |-> IF t.kept = <<>> THEN a.kept
                                 ELSE Append(a.kept, [l EXCEPT !.orders = t.kept]),
                        fills |-> a.fills \o t.fills],
           NoneTaken(q), book)

\* Where a level of price p is, or belongs, in a book.
Position(book, side, p) ==
  Cardinality({i \in DOMAIN book : Better(side, book[i].price, p)}) + 1

AtLevel(book, side, p) ==
  LET i == Position(book, side, p)
  IN i <= Len(book) /\ book[i].price = p

\* processNew, and the insertion of processLevel.
Insert(book, side, p, e) ==
  LET i == Position(book, side, p)
  IN IF AtLevel(book, side, p)
       THEN [book EXCEPT ![i].orders = Append(@, e)]
       ELSE InsertAt(book, i, [price |-> p, orders |-> <<e>>])

\* One sweep of updateLevelOrders: it cancels q of the sim orders' quantity.
cancelSim(entries, q) ==
  FoldLeft(LAMBDA a, e : IF IsSim(e) THEN processMatch(a, e, 0)
                         ELSE [a EXCEPT !.kept = Append(@, e)],
           NoneTaken(q), entries).kept

\* deltaQtyFront and deltaQtyBack: how a decrease is split.
deltaQtyFront(delta) == (delta * PercentFront) \div 100

deltaQtyBack_Rounded(delta) == (delta * (100 - PercentFront)) \div 100

deltaQtyBack(delta) == delta - deltaQtyFront(delta)

\* updateLevelOrders: the level's sim orders are brought to the size of the
\* quote; a decrease is taken from the front and from the back of the queue.
updateLevelOrders(level, size) ==
  LET es == level.orders
      sim == getOpenSimQty(level)
  IN CASE size = sim -> level
       [] size > sim ->
            [level EXCEPT !.orders =
               IF es # <<>> /\ IsSim(Last(es))
                 THEN [es EXCEPT ![Len(es)].open = @ + (size - sim)]
                 ELSE Append(es, simOrder(size - sim))]
       [] size < sim ->
            [level EXCEPT !.orders =
               Reverse(cancelSim(Reverse(cancelSim(es, deltaQtyFront(sim - size))),
                                 deltaQtyBack(sim - size)))]

processLevel(book, side, l) ==
  LET i == Position(book, side, l.price)
  IN CASE l.size <= 0 -> book
       [] l.size > 0 /\ AtLevel(book, side, l.price) ->
            [book EXCEPT ![i] = updateLevelOrders(book[i], l.size)]
       [] OTHER -> Insert(book, side, l.price, simOrder(l.size))

--------------------------------------------------------------------------------
(***************************************************************************)
(* Matcher                                                                 *)
(***************************************************************************)

\* A client order that is not in use.
NoOrder ==
  [st |-> "Idle", side |-> "Buy", price |-> 0, qty |-> 0, cum |-> 0, ioc |-> FALSE,
   listed |-> TRUE]

Other(side) == IF side = "Buy" THEN "Sell" ELSE "Buy"

\* MatcherManagerCME::onFill, called before the fill is added to _cumQty.
onFill(r, f) ==
  [type |-> IF r.qty - r.cum - f.qty > 0 THEN "PartFill" ELSE "Fill",
   qty |-> f.qty, price |-> f.price]

\* Sim orders trade in silence; what they have open is kept in the queue.
generateFill(m, f) ==
  IF f.id = Sim THEN m
  ELSE [m EXCEPT !.rep[f.id] = Append(@, onFill(m.ord[f.id], f)),
                 !.ord[f.id].cum = @ + f.qty]

generateFills(m, fills) == FoldLeft(generateFill, m, fills)

\* eraseOrder: the orders that left a queue also leave _ordersMap.
eraseOrders(m) ==
  [m EXCEPT !.map = {o \in @ : m.ord[o].cum < m.ord[o].qty}]

\* The orders of one book trade q with a price p from outside it.
Trade(m, side, p, q) ==
  LET w == Walk(m.book[side], side, p, q)
  IN eraseOrders(generateFills([m EXCEPT !.book[side] = w.kept], w.fills))

processTrade(m, side, t) == Trade(m, side, t.price, t.size)

\* processCross: everything the other side's best price reaches is filled.
processCross(m, side, l) ==
  IF l.size <= 0 THEN m
  ELSE Trade(m, side, l.price,
             FoldLeft(LAMBDA n, v : n + OpenOf(v.orders), 0, m.book[side]))

\* The quote fails the sanity checks of onQuote.
Refused(q) ==
  \/ ~ q.good
  \/ \E s \in Sides : q.book[s] # <<>> /\ q.book[s][1].price <= 0

\* Matcher::onQuote: trades, then crosses of the best level, then the levels.
onQuote(m, q) ==
  LET trades == FoldLeft(LAMBDA a, t : processTrade(processTrade(a, "Buy", t), "Sell", t),
                         m, q.trade)
      crossed(a, side) ==
        LET l == q.book[Other(side)]
        IN IF l # <<>> /\ l[1].updPrice THEN processCross(a, side, l[1]) ELSE a
      level(a, side, i) ==
        IF i <= Len(q.book[side]) /\ q.book[side][i].price > 0
          THEN [a EXCEPT !.book[side] = processLevel(@, side, q.book[side][i])]
          ELSE a
  IN FoldLeft(LAMBDA a, i : level(level(a, "Buy", i), "Sell", i),
              crossed(crossed(trades, "Buy"), "Sell"), <<1, 2>>)

checkMatches_MapKept(m, o) ==
  LET r == m.ord[o]
      w == Walk(m.book[Other(r.side)], Other(r.side), r.price, r.qty - r.cum)
      resting == generateFills([m EXCEPT !.book[Other(r.side)] = w.kept], w.fills)
      own == [i \in DOMAIN w.fills |-> [w.fills[i] EXCEPT !.id = o]]
  IN generateFills(resting, own)

\* checkMatches: the order trades with the other book, and gets one fill for
\* each entry it meets.
checkMatches(m, o) ==
  LET r == m.ord[o]
      w == Walk(m.book[Other(r.side)], Other(r.side), r.price, r.qty - r.cum)
      resting == generateFills([m EXCEPT !.book[Other(r.side)] = w.kept], w.fills)
      own == [i \in DOMAIN w.fills |-> [w.fills[i] EXCEPT !.id = o]]
  IN generateFills(eraseOrders(resting), own)

Report(m, o, type) ==
  [m EXCEPT !.rep[o] = Append(@, [type |-> type, qty |-> 0, price |-> m.ord[o].price])]

\* processNewOrderAtLevel; an IOC order is cancelled through sendCxl whatever
\* it traded, with a report of its own (onCxlAck with _internalCxl).
processNewOrderAtLevel(m, o) ==
  LET a == checkMatches(m, o)
      r == a.ord[o]
  IN CASE r.ioc -> Report(a, o, "CxlAck")
       [] ~ r.ioc /\ r.cum < r.qty ->
            [a EXCEPT !.book[r.side] = Insert(@, r.side, r.price,
                                              [id |-> o, open |-> r.qty - r.cum]),
                      !.map = @ \cup {o}]
       [] OTHER -> a

\* eraseOrder(book, order): from its queue, its level if that is now empty,
\* and _ordersMap.
eraseOrder(m, o) ==
  LET side == m.ord[o].side
      out(l) == [l EXCEPT !.orders = SelectSeq(@, LAMBDA e : e.id # o)]
      book == [i \in DOMAIN m.book[side] |-> out(m.book[side][i])]
  IN [m EXCEPT !.book[side] = SelectSeq(book, LAMBDA l : l.orders # <<>>),
               !.map = @ \ {o}]

sendNew(m, o) == processNewOrderAtLevel(m, o)

sendMod(m, o, p) ==
  LET a == eraseOrder(m, o)
  IN processNewOrderAtLevel([a EXCEPT !.ord[o].price = p], o)

sendCxl(m, o) == eraseOrder(m, o)

--------------------------------------------------------------------------------
(***************************************************************************)
(* MatcherManagerCME                                                       *)
(***************************************************************************)

\* The checks of the *_seq counters: what is left of the counts, and whether
\* the request is refused on purpose.
Exceeded(c) == c.ack > -1 /\ c.rej > -1 /\ c.acks > c.ack

Gate(c) ==
  [refuse |-> Exceeded(c) /\ c.rejs < c.rej,
   cnt |-> IF Exceeded(c) /\ c.rejs >= c.rej THEN [c EXCEPT !.ack = 0, !.rej = 0]
           ELSE c]

\* sendAck counts an ack.  sendRej counts a reject of a new order, but an ack
\* for a modify or a cancel it rejects.  (With _rej_as_bussiness_rej, which is off by
\* default, a session-level reject goes out and nothing is counted: left out.)
CountAck(c) == [c EXCEPT !.acks = @ + 1]
CountRej(k, c) == IF k = "New" THEN [c EXCEPT !.rejs = @ + 1] ELSE CountAck(c)

Refuses(m, k) == Gate(m.cnt[k]).refuse

Checked(m, k) == [m EXCEPT !.cnt[k] = Gate(@).cnt]

sendAck(m, k, o) == [Report(m, o, k \o "Ack") EXCEPT !.cnt[k] = CountAck(@)]

sendRej(m, k, o) == [Report(m, o, k \o "Rej") EXCEPT !.cnt[k] = CountRej(k, @)]

\* onInboundApplicationMsg, 'D': an order for a symbol nobody knows or of a
\* type that is not supported, or one the counters refuse, is rejected; any
\* other is acknowledged and handed to the matcher.
NewMsg(m, o, r, listed, limit) ==
  LET sent == [st |-> "Sent", side |-> r.side, price |-> r.price, qty |-> r.qty,
               cum |-> 0, ioc |-> r.ioc, listed |-> listed]
      a == [m EXCEPT !.ord[o] = sent]
  IN IF ~ listed \/ ~ limit \/ Refuses(m, "New")
       THEN sendRej(a, "New", o)
       ELSE sendNew(sendAck(Checked(a, "New"), "New", o), o)

\* 'G' and 'F': also rejected when the order is not in _ordersMap (any more).
ModMsg(m, o, p) ==
  IF Refuses(m, "Mod") \/ o \notin m.map
    THEN sendRej(Checked(m, "Mod"), "Mod", o)
    ELSE sendMod(sendAck(Checked(m, "Mod"), "Mod", o), o, p)

CxlMsg(m, o) ==
  IF Refuses(m, "Cxl") \/ o \notin m.map
    THEN sendRej(Checked(m, "Cxl"), "Cxl", o)
    ELSE sendCxl(sendAck(Checked(m, "Cxl"), "Cxl", o), o)

\* ... and for a symbol nobody knows at once, before the counters are looked at.
Listed(m, k, o, msg) == IF m.ord[o].listed THEN msg ELSE sendRej(m, k, o)

--------------------------------------------------------------------------------
(***************************************************************************)
(* Actions                                                                 *)
(***************************************************************************)

\* The matcher, the reports and the counters as the operators above see them.
State == [book |-> mx.book, map |-> mx.map, ord |-> mx.ord, rep |-> rep, cnt |-> cnt]

Store(m) ==
  /\ mx' = [book |-> m.book, map |-> m.map, ord |-> m.ord]
  /\ rep' = m.rep
  /\ cnt' = m.cnt

ClientNew(o, r, listed, limit) ==
  /\ mx.ord[o].st = "Idle"
  /\ Store(NewMsg(State, o, r, listed, limit))
  /\ UNCHANGED <<market, reqs, quotes>>

\* A client modifies or cancels an order it has sent, which by then may have
\* been filled, cancelled or rejected.
ClientMod(o, p) ==
  /\ mx.ord[o].st = "Sent"
  /\ p # mx.ord[o].price
  /\ reqs < MaxReqs
  /\ reqs' = reqs + 1
  /\ Store(Listed(State, "Mod", o, ModMsg(State, o, p)))
  /\ UNCHANGED <<market, quotes>>

ClientCxl(o) ==
  /\ mx.ord[o].st = "Sent"
  /\ reqs < MaxReqs
  /\ reqs' = reqs + 1
  /\ Store(Listed(State, "Cxl", o, CxlMsg(State, o)))
  /\ UNCHANGED <<market, quotes>>

Quote(q) ==
  /\ quotes < MaxQuotes
  /\ quotes' = quotes + 1
  /\ market' = IF q.good THEN [s \in Sides |-> IF q.book[s] = <<>> THEN market[s]
                                               ELSE <<q.book[s][1]>>]
               ELSE market
  /\ IF Refused(q)
       THEN UNCHANGED <<mx, rep, cnt>>
       ELSE Store(onQuote(State, q))
  /\ UNCHANGED reqs

--------------------------------------------------------------------------------
(***************************************************************************)
(* The certification market maker                                          *)
(***************************************************************************)

needToCancel(o) == market[mx.ord[o].side][1].price # mx.ord[o].price

\* ExchangeSimCmeCert::onTimeout with its open orders in the order of the
\* table: what it cancels, and the sides it sends a new order on.
CertCancels(open) ==
  CASE Len(open) = 1 -> {o \in {open[1]} : needToCancel(o)}
    [] Len(open) = 2 -> {open[1] : i \in {i \in 1..2 : needToCancel(open[i])}}
    [] OTHER -> ToSet(open)

CertNews(open) ==
  CASE Len(open) = 0 -> Sides
    [] Len(open) = 1 -> {Other(mx.ord[open[1]].side)}
    [] OTHER -> {}

onTimeout(open) ==
  /\ ToSet(open) = mx.map \cap Cert
  /\ Len(open) = Cardinality(mx.map \cap Cert)
  /\ \A s \in Sides : market[s] # <<>>
  /\ \E name \in [CertNews(open) -> {o \in Cert : mx.ord[o].st = "Idle"}] :
       /\ Cardinality(Range(name)) = Cardinality(CertNews(open))
       /\ CertCancels(open) \cup Range(name) # {}
       /\ LET gone == FoldLeft(CxlMsg, State, SetToSeq(CertCancels(open)))
              sent == FoldLeft(LAMBDA m, s :
                                 IF s \in CertNews(open)
                                   THEN NewMsg(m, name[s],
                                               [side |-> s, price |-> market[s][1].price,
                                                qty |-> market[s][1].size, ioc |-> FALSE],
                                               TRUE, TRUE)
                                   ELSE m,
                               gone, <<"Buy", "Sell">>)
          IN Store(sent)
  /\ UNCHANGED <<market, reqs, quotes>>

--------------------------------------------------------------------------------

Init ==
  /\ mx = [book |-> [s \in Sides |-> <<>>], map |-> {},
           ord |-> [o \in Orders |-> NoOrder]]
  /\ rep = [o \in Orders |-> <<>>]
  /\ cnt = [k \in Kinds |-> [ack |-> Limits[k].ack, rej |-> Limits[k].rej,
                             acks |-> 0, rejs |-> 0]]
  /\ market = [s \in Sides |-> <<>>]
  /\ reqs = 0 /\ quotes = 0

Next ==
  \/ \E o \in Orders \ Cert, r \in Requests, listed, limit \in BOOLEAN :
       ClientNew(o, r, listed, limit)
  \/ \E o \in Orders \ Cert, p \in Prices : ClientMod(o, p)
  \/ \E o \in Orders : ClientCxl(o)
  \/ \E q \in Quotes : Quote(q)
  \/ \E open \in SetToSeqs(mx.map \cap Cert) : onTimeout(open)

Spec == Init /\ [][Next]_vars

--------------------------------------------------------------------------------
(***************************************************************************)
(* Properties                                                              *)
(***************************************************************************)

Entries(s) == FlattenSeq([i \in DOMAIN mx.book[s] |-> mx.book[s][i].orders])

Resting(s) == {e.id : e \in ToSet(Entries(s))} \ {Sim}

\* The books and _ordersMap tell the same story: levels are strictly ordered
\* and never empty, every entry has something open, a client order rests once,
\* at its own price and for exactly what it has not traded, and the map that
\* modifies and cancels are looked up in holds the resting orders and no other.
BooksKept ==
  /\ \A s \in Sides :
       LET b == mx.book[s]
       IN /\ \A i, j \in DOMAIN b : i < j => Better(s, b[i].price, b[j].price)
          /\ \A i \in DOMAIN b : b[i].orders # <<>>
          /\ \A i \in DOMAIN b : \A e \in ToSet(b[i].orders) :
               /\ e.open > 0
               /\ e.id # Sim =>
                    /\ mx.ord[e.id].side = s
                    /\ mx.ord[e.id].price = b[i].price
                    /\ mx.ord[e.id].qty - mx.ord[e.id].cum = e.open
          /\ \A o \in Orders : Cardinality({i \in DOMAIN Entries(s) : Entries(s)[i].id = o}) <= 1
  /\ mx.map = Resting("Buy") \cup Resting("Sell")

Types(o) == {r.type : r \in ToSet(rep[o])}

\* A client can rebuild its order from the reports alone: the fills it got add
\* up to what the matcher thinks it traded and never to more than it asked
\* for, the fill that completes it and no other says so, and it was told that
\* its order ended if and only if the order no longer rests, and once: an IOC
\* order alone is cancelled after the fill that completed it.
ReportsExact ==
  \A o \in Orders :
    LET r == mx.ord[o]
        fills == SelectSeq(rep[o], LAMBDA x : x.type \in {"PartFill", "Fill"})
        ends == SelectSeq(rep[o], LAMBDA x : x.type \in {"NewRej", "Fill", "CxlAck"})
    IN /\ r.cum <= r.qty
       /\ FoldLeft(LAMBDA n, x : n + x.qty, 0, fills) = r.cum
       /\ \A i \in DOMAIN fills :
            fills[i].type = "Fill" <=> (i = Len(fills) /\ r.cum = r.qty)
       /\ o \in mx.map <=> "NewAck" \in Types(o) /\ ends = <<>>
       /\ Len(ends) > 1 => r.ioc /\ [i \in DOMAIN ends |-> ends[i].type] = <<"Fill", "CxlAck">>

\* o is ahead of p in the queue of their side.
Ahead(o, p) ==
  \E s \in Sides : \E i, j \in DOMAIN Entries(s) :
    i < j /\ Entries(s)[i].id = o /\ Entries(s)[j].id = p

\* The matcher takes orders first come, first served: when a resting order
\* trades, nobody who was ahead of it still rests at the price it had.
FirstInQueue ==
  [][\A o, p \in mx.map :
       Ahead(o, p) /\ mx'.ord[p].cum > mx.ord[p].cum /\ mx'.ord[p].price = mx.ord[p].price
         => o \notin mx'.map \/ mx'.ord[o].price # mx.ord[o].price]_vars

SimAt(b, s, p) ==
  IF AtLevel(b[s], s, p) THEN getOpenSimQty(b[s][Position(b[s], s, p)]) ELSE 0

\* After a quote, the quantity the simulator offers at each price the quote
\* shows is the quantity of the quote, however trades, crosses and orders of
\* clients have left the level.
QuoteShown ==
  [][\A q \in Quotes :
       Quote(q) /\ ~ Refused(q) =>
         \A s \in Sides : \A i \in DOMAIN q.book[s] :
           q.book[s][i].size > 0 /\ q.book[s][i].price > 0 =>
             SimAt(mx'.book, s, q.book[s][i].price) = q.book[s][i].size]_vars

\* The matcher's books and the reports its clients got say the same.
MatcherExact == BooksKept /\ ReportsExact
================================================================================
