------------------------------- MODULE Positions -------------------------------
(***************************************************************************)
(* A position from its first order to its exit.  Orders pass the loss      *)
(* limits and fill, the fills go to the profit and loss, quotes move and   *)
(* trigger the stop of the position, the two timers of the stop cycle      *)
(* fire, and a triggered stop or a profit taken sends the exit.            *)
(*                                                                         *)
(* The strategy Own has the stop, in the instrument Instr; other orders   *)
(* only move the profit and loss and the limits.                           *)
(***************************************************************************)
EXTENDS Stops, Pnl

CONSTANTS
  Configs,     \* a sequence of a stop processor, its parameters, its market and bounds
  Own, Instr

VARIABLES
  conf,        \* which of them this is, and what it says
  bars,        \* the bars, the last one open
  info,        \* the position: empty, or its side, price, bar and stop
  own,         \* what the stop processor keeps
  trig,        \* what the stop trigger keeps, with its last answer
  seen,        \* the last trades of this position, with the stop each one met
  last,        \* the last quotes, newest first, at most two
  orders,      \* orders that were let through and have not filled
  ledger,      \* the profit and loss
  cash,        \* what the fills of each entry of the ledger paid or received
  clock,       \* the time of the day and when each timer of the cycle is due; which (TRUE
               \* for the lower) were registered at this time, and which may be called early
  fired,       \* how often the timers have fired, and which fired last
  volume,      \* what the volume tracker keeps
  left         \* how many quotes, quotes without a position, orders and closed bars are left

vars == <<conf, bars, info, own, trig, seen, last, orders, ledger, cash, clock, fired, volume, left>>

NoTrigger == [price |-> Inv, qty |-> 0, on |-> FALSE]

\* What a processor keeps when a position is opened.
Fresh(proc, p) ==
  CASE proc = "CramStop" -> cramStopClear(p)
    [] proc \in {"RatioCram", "RiskDefense"} -> [ice |-> Inv, top |-> NoTally]
    [] proc = "Iceberg" -> NoIce
    [] OTHER -> <<>>

\* registerCycleTimeout: both timers, when the cycle is used at all.
registerCycleTimeout(now, p) ==
  IF p.cycle = 0 THEN [now |-> now, lower |-> 0, upper |-> 0, armed |-> {}, early |-> {}]
  ELSE LET t == calcCycleTimeouts(now, p)
       IN [now |-> now, lower |-> now + t.lower, upper |-> now + t.upper,
           armed |-> BOOLEAN, early |-> BOOLEAN]

Init ==
  \E c \in DOMAIN Configs : \E now \in Configs[c].starts : \E x \in Configs[c].rebuilt :
    LET C == Configs[c] IN
    /\ conf = [id |-> c, proc |-> C.proc, p |-> C.p, account |-> C.account, strategy |-> C.strategy]
    /\ bars = <<NewBar>>
    /\ info = <<>>
    /\ own = Fresh(C.proc, C.p)
    /\ trig = NoTrigger
    /\ seen = <<>>
    /\ last = <<>>
    /\ orders = <<>>
    /\ ledger = rebuildPos(NoLedger, Own, Instr, x.pos, x.avg)
    /\ cash = [s \in Strategies |-> [i \in Instruments |->
                 IF s = Own /\ i = Instr THEN -x.pos * x.avg ELSE 0]]
    /\ clock = registerCycleTimeout(now, C.p)
    /\ fired = [count |-> 0, lower |-> FALSE]
    /\ volume = [infos |-> <<>>, buys |-> 0, sells |-> 0, total |-> 0]
    /\ left = C.left

\* Wbo: the touch weighted with its sizes, in 1/Unit ticks.
tvOf(q) ==
  <<(Unit * (q.bid + q.ask)) \div 2 - Unit \div 2 + (Unit * q.bids[1].s) \div (q.bids[1].s + q.asks[1].s)>>

--------------------------------------------------------------------------------
(***************************************************************************)
(* Orders and fills                                                        *)
(***************************************************************************)

\* sendNew of ProcessorPnL for an order at a price, the quote being the last one.
Send(s, i, side, qty, price) ==
  LET r == sendNew(ledger, s, i, side,
                   IF i = Instr /\ last # <<>> THEN tvOf(last[1]) ELSE <<>>, conf.account, conf.strategy)
  IN /\ left.orders > 0
     /\ left' = [left EXCEPT !.orders = @ - 1]
     /\ ledger' = r.ledger
     /\ orders' = IF ~r.accepted THEN orders
                  ELSE Append(orders, [s |-> s, i |-> i, side |-> side, qty |-> qty, price |-> price,
                                       over |-> r.over])
     /\ UNCHANGED <<conf, bars, info, own, trig, seen, last, cash, clock, fired, volume>>

\* The strategy opens a position at the price the active price processor gives.
Enter(side) ==
  LET x == calcPrice(last[1], Tail(last), side, conf.p)
  IN /\ conf.proc # "None" /\ info = <<>> /\ orders = <<>> /\ last # <<>>
     /\ x.price # Inv
     /\ Send(Own, Instr, side, 1, x.price)

\* It leaves it when the stop is triggered.
Leave ==
  /\ info # <<>> /\ trig.on /\ orders = <<>>
  /\ Send(Own, Instr, IF info[1].side = "Buy" THEN "Sell" ELSE "Buy", 1, Exit(info[1].side, last[1]))

\* Any order of any strategy, where only the profit and loss is looked at.
Other(s, i, side, qty, price) ==
  /\ conf.proc = "None"
  /\ Send(s, i, side, qty, price)

\* A fill of an order: into the profit and loss, and the position opens or closes.
Fill(k) ==
  LET o == orders[k]
      signed == IF o.side = "Buy" THEN o.qty ELSE -o.qty
      opened == [side |-> o.side, price |-> o.price, bar |-> Len(bars),
                 stop |-> IF conf.p.stopTicks = 0 THEN Inv ELSE Behind(o.side, o.price, conf.p.stopTicks)]
  IN /\ k \in DOMAIN orders
     /\ orders' = RemoveAt(orders, k)
     /\ ledger' = onFill(ledger, o.s, o.i, o.side, o.qty, o.price * Unit, conf.p.fee)
     /\ cash' = [cash EXCEPT ![o.s][o.i] = @ - signed * o.price * Unit]
     /\ IF conf.proc = "None" THEN UNCHANGED <<info, own, trig, seen>>
        ELSE /\ info' = IF info = <<>> THEN <<opened>> ELSE <<>>
             /\ own' = Fresh(conf.proc, conf.p)
             /\ trig' = NoTrigger
             /\ seen' = <<>>
     /\ UNCHANGED <<conf, bars, last, clock, fired, volume, left>>

--------------------------------------------------------------------------------
(***************************************************************************)
(* Quotes                                                                  *)
(***************************************************************************)

\* The stop and what the processor keeps after a quote.
Moved(pos, q, bs, s) ==
  LET p == conf.p
      Only(i) == [i |-> i, s |-> s]
  IN CASE conf.proc = "BarsTrailing" ->
            IF isNumOfTicksInFavor(pos, q, p) /\ Len(bs) > 1 THEN Only(barsTrailing(pos, bs, p)) ELSE Only(pos)
       [] conf.proc = "DefenseBars" -> IF Len(bs) > 1 THEN Only(defenseBars(pos, bs, p)) ELSE Only(pos)
       [] conf.proc = "CramBar" -> Only(cramBarStop(pos, bs, p))
       [] conf.proc = "InitialEdge" -> Only(initialEdge(pos, q, p))
       [] conf.proc = "Trailing" -> Only(trailing(pos, q, p))
       [] conf.proc = "RatioCram" -> ratioCram(pos, q, s, Inv, p)
       [] conf.proc = "RiskDefense" -> riskDefense(pos, q, s, p)
       [] conf.proc = "CramStop" -> cramStopWithBars(pos, q, bs, s, p)
       [] conf.proc = "Iceberg" ->
            LET t == icebergOnQuote(q, s, p) IN [i |-> icebergStop(pos, t, p), s |-> resetIceberg(t)]
       [] OTHER -> Only(pos)

\* The last trades, as many as the trigger may have to count; forgotten when it fires.
Recalled(q, stop, on) ==
  LET all == Append(seen, [price |-> q.price, size |-> q.size, stop |-> stop])
  IN  IF ~q.trade THEN seen
      ELSE IF on THEN <<Last(all)>>
      ELSE IF Len(all) > conf.p.minQty THEN Tail(all) ELSE all

\* A quote: into the bar if it is a trade, to the processor, to the trigger.
Quote(q) ==
  LET bs == IF q.trade THEN [bars EXCEPT ![Len(bars)] = onQuoteBar(q, @)] ELSE bars
      moved == Moved(info[1], q, bs, own)
      t == stopTrigger(moved.i, q, trig, conf.p)
  IN /\ IF info = <<>> THEN left.flat > 0 ELSE left.quotes > 0 /\ ~trig.on
     /\ left' = IF info = <<>> THEN [left EXCEPT !.flat = @ - 1] ELSE [left EXCEPT !.quotes = @ - 1]
     /\ bars' = bs
     /\ last' = <<q>> \o (IF last = <<>> THEN <<>> ELSE <<last[1]>>)
     /\ volume' = IF conf.proc # "Volume" THEN volume
                  ELSE [trackVolume(q, volume) EXCEPT !.total = @ + IF q.trade THEN q.size ELSE 0]
     /\ IF info = <<>> THEN UNCHANGED <<info, own, trig, seen>>
        ELSE /\ info' = <<moved.i>>
             /\ own' = moved.s
             /\ trig' = t
             /\ seen' = Recalled(q, moved.i.stop, trig.on)
     /\ ledger' = IF conf.proc = "None" THEN updatePnLForTv(ledger, Instr, tvOf(q)) ELSE ledger
     /\ UNCHANGED <<conf, orders, cash, clock, fired>>

\* The bar closes.
CloseBar ==
  /\ left.bars > 0
  /\ left' = [left EXCEPT !.bars = @ - 1]
  /\ bars' = Append([bars EXCEPT ![Len(bars)].formed = TRUE], NewBar)
  /\ UNCHANGED <<conf, info, own, trig, seen, last, orders, ledger, cash, clock, fired, volume>>

--------------------------------------------------------------------------------
(***************************************************************************)
(* The cycle                                                               *)
(***************************************************************************)

\* Time goes on: past a timer that is due too, by conf.p.late at most, since the timer
\* server looks at its table from time to time and waits for the container's lock.
Tick ==
  /\ conf.p.cycle > 0 /\ clock.now < conf.p.endOfDay
  /\ clock.now < Min({clock.lower, clock.upper}) + conf.p.late
  /\ clock' = [clock EXCEPT !.now = @ + 1, !.armed = {}, !.early = {}]
  /\ UNCHANGED <<conf, bars, info, own, trig, seen, last, orders, ledger, cash, fired, volume, left>>

\* onTimeout and processCycleTimer: the client is told, which slides the stop or takes
\* the profit of the bound, and the timer is registered again, from the time it is now.
\* A timer is called when it is due or later, and at once if registerCycleTimeout ran
\* between a pass's time stamp and its copy of the table (timer_server.cpp:13).
CycleTimer(isLower) ==
  LET t == calcCycleTimeouts(clock.now, conf.p)
      OrCycle(timeout) == IF timeout = 0 THEN conf.p.cycle ELSE timeout
      slid == slide(info[1], Ahead(info[1].side, info[1].stop, calcStopSlide(fired.count + 1, isLower, conf.p)))
      profit == takeProfit(info[1], last[1], isLower, conf.p)
  IN /\ conf.p.cycle > 0
     /\ clock.now >= (IF isLower THEN clock.lower ELSE clock.upper) \/ isLower \in clock.early
     /\ fired' = [count |-> fired.count + 1, lower |-> isLower]
     /\ clock' = [clock EXCEPT !.lower = IF isLower THEN clock.now + OrCycle(t.lower) ELSE @,
                               !.upper = IF isLower THEN @ ELSE clock.now + OrCycle(t.upper),
                               !.armed = @ \cup {isLower}, !.early = @ \ {isLower}]
     /\ IF info = <<>> THEN UNCHANGED <<info, trig>>
        ELSE /\ info' = <<slid>>
             /\ trig' = [trig EXCEPT !.on = @ \/ profit # Inv]
     /\ UNCHANGED <<conf, bars, own, seen, last, orders, ledger, cash, volume, left>>

--------------------------------------------------------------------------------
Next ==
  \/ \E q \in Configs[conf.id].quotes : Quote(q)
  \/ \E side \in {"Buy", "Sell"} : Enter(side)
  \/ Leave
  \/ \E x \in Configs[conf.id].others : Other(x.s, x.i, x.side, x.qty, x.price)
  \/ \E k \in DOMAIN orders : Fill(k)
  \/ CloseBar
  \/ Tick
  \/ \E isLower \in BOOLEAN : CycleTimer(isLower)

Spec == Init /\ [][Next]_vars

--------------------------------------------------------------------------------
(***************************************************************************)
(* Properties                                                              *)
(***************************************************************************)

\* No processor ever moves the stop of a position away from the market or takes it
\* away, whatever quotes, bars and timers come in which order.  The exception: a Sell that
\* was filled in a bar without trades loses its stop to CramSignalProcessor::calcStop,
\* which takes that bar's invalid high for a better one, until the bar has a trade.
StopNeverLoosens ==
  [][LET Lost == /\ conf.proc = "CramBar" /\ info[1].side = "Sell"
                 /\ bars'[info[1].bar].n = 0 /\ info'[1].stop = Inv
     IN info # <<>> /\ info' # <<>> /\ info[1].stop # Inv =>
          \/ info'[1].stop # Inv /\ ~Worse(info[1].side, info'[1].stop, info[1].stop)
          \/ Lost]_vars

\* The stop is triggered by a trade beyond it, or by trades in a row at it that met
\* this very stop and together reach the quantity; and by nothing less.
TriggeredExact ==
  info # <<>> /\ seen # <<>> /\ conf.p.cycle = 0 =>
    LET now == Last(seen)
        At(k) == seen[k].price = now.stop /\ seen[k].stop = now.stop
        run == {k \in DOMAIN seen : \A j \in k..Len(seen) : At(j)}
        Enough == MapThenSumSet(LAMBDA k : seen[k].size, run) >= conf.p.minQty
    IN  trig.on => IF now.price = now.stop THEN Enough ELSE Worse(info[1].side, now.price, now.stop)

\* Both timers of the cycle stay on their bounds, however late or early they are called:
\* each is due when the clock is at its bound of the cycle and, from registration on, in
\* the future, never now, which would call it for ever, nor more than a cycle away.
CyclesAligned ==
  conf.p.cycle > 0 =>
    /\ clock.lower % conf.p.cycle = conf.p.lower
    /\ clock.upper % conf.p.cycle = conf.p.upper % conf.p.cycle
    /\ \A isLower \in clock.armed :
         LET due == IF isLower THEN clock.lower ELSE clock.upper
         IN  clock.now < due /\ due <= clock.now + conf.p.cycle

\* Realised and unrealised profit together are what the fills paid and received and
\* what the position is worth, through averaging, partial closes and reversals; the
\* totals of strategies and account are the sums of their entries.
PnLExact ==
  LET Sum(f) == MapThenSumSet(LAMBDA s : ledger.strat[s][f], Strategies)
      Of(s, f) == MapThenSumSet(LAMBDA i : ledger.inst[s][i][f], Instruments)
  IN /\ \A s \in Strategies, i \in Instruments :
          LET c == ledger.inst[s][i] IN c.real + c.unreal = cash[s][i] + c.pos * c.tv
     /\ \A f \in {"pos", "real", "unreal", "fees"} :
          ledger.acct[f] = Sum(f) /\ \A s \in Strategies : ledger.strat[s][f] = Of(s, f)

\* The tracker loses no volume: every trade is a buy or a sell, and every buy is kept at
\* the ask it traded at, however the touch moved in between.
VolumeKept ==
  LET Sum(f) == MapThenSumSet(LAMBDA k : volume.infos[k][f], DOMAIN volume.infos)
  IN  volume.buys + volume.sells = volume.total /\ Sum("askVol") = volume.buys

\* "If any of limits exceeded, allow only orders toward 'close' of the position": an
\* order let through with a limit exceeded is against the position its strategy or the
\* account has at that moment.
TowardClose ==
  [][\A k \in DOMAIN orders' :
       Len(orders') > Len(orders) /\ k = Len(orders') /\ orders'[k].over =>
         LET o == orders'[k]
             Against(pos) == IF o.side = "Buy" THEN pos < 0 ELSE pos > 0
         IN  Against(accountPos(ledger', o.i)) \/ Against(ledger'.inst[o.s][o.i].pos)]_vars

\* What is measured for a position is exact: the trades at its stop, the times of its
\* cycle, the volume around it.
TrackersExact == TriggeredExact /\ CyclesAligned /\ VolumeKept

\* Risk only ever comes down: stops move toward the market, and with a limit exceeded
\* orders only toward the close.
RiskComesDown == StopNeverLoosens /\ TowardClose
================================================================================
