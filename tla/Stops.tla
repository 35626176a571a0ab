--------------------------------- MODULE Stops ---------------------------------
(***************************************************************************)
(* The stop of a position: the processors that move it, the one that       *)
(* triggers it, the timers of the cyclic stop, the price an order that     *)
(* wants to trade is given, and the volume tracker.                        *)
(*                                                                         *)
(* A position (info) has a side, the price it was filled at, the number of *)
(* bars there were then and a stop.  A processor that keeps something from *)
(* call to call returns it (s) with the position (i).  Buy and Sell are    *)
(* written once where the code's two branches mirror each other.           *)
(***************************************************************************)
EXTENDS BarSignals

\* x moved by k ticks to the profit of a side, and to its loss.
Ahead(side, x, k) == IF side = "Buy" THEN Plus(x, k) ELSE Minus(x, k)

Behind(side, x, k) == IF side = "Buy" THEN Minus(x, k) ELSE Plus(x, k)

\* x is worse than y for the side.
Worse(side, x, y) == IF side = "Buy" THEN x < y ELSE x > y

\* The price the position could be closed at.
Exit(side, q) == IF side = "Buy" THEN q.bid ELSE q.ask

slide_Always(info, stop) == IF stop = Inv THEN info ELSE [info EXCEPT !.stop = stop]

\* A stop is moved to a price that is better than the one it has.
slide(info, stop) ==
  IF stop = Inv \/ (info.stop # Inv /\ ~Worse(info.side, info.stop, stop)) THEN info
  ELSE [info EXCEPT !.stop = stop]

--------------------------------------------------------------------------------
(***************************************************************************)
(* Stops behind bars                                                       *)
(***************************************************************************)

\* isNumOfTicksInFavor
isNumOfTicksInFavor(info, q, p) ==
  p.startTicks >= 0 => ~Worse(info.side, Exit(info.side, q), Ahead(info.side, info.price, p.startTicks))

\* isStopSlideRecalculatedBehindFirstBar
behindFirstBar(bar, info) ==
  /\ DirOf(bar) # (IF info.side = "Buy" THEN "Down" ELSE "Up")
  /\ ~Worse(info.side, bar.close, info.price)

\* BarsTrailingStopProcessor: behind a closed bar that is better than the one
\* before it or, where that is asked for, than every one since the fill.
barsTrailing(info, bs, p) ==
  LET n == Len(bs)
      bar == bs[n - 1]
      first == n - 1 = info.bar
      transition == bar.open = bar.close /\ ~first
      extreme == IF info.side = "Buy" THEN bar.low ELSE bar.high
      Beats(k) == Worse(info.side, bs[k].close, bar.close)
      Better == IF first THEN behindFirstBar(bar, info)
                ELSE IF p.betterBar THEN \A k \in info.bar..(n - 2) : bs[k].n > 0 => Beats(k)
                ELSE bs[n - 2].n > 0 /\ Beats(n - 2)
  IN IF p.barsToStart < 0 \/ info.bar + p.barsToStart > n - 1 THEN info
     ELSE IF ~bar.formed \/ bar.n = 0 THEN info
     ELSE CASE transition /\ p.mode = "Off" -> info
            [] transition /\ p.mode = "Close" -> slide(info, Behind(info.side, bar.close, p.offset))
            [] ~transition /\ ~Better -> info
            [] OTHER -> slide(info, Behind(info.side, extreme, p.offset))

\* DefenseBarsTrailingStopProcessor: once, in a given bar after the fill, if the bar
\* before went against the position.  (The lowest price since the fill forgets what
\* came before a bar without trades.)
defenseBars(info, bs, p) ==
  LET n == Len(bs)
      bar == bs[n - 1]
      Further(acc, b) == LET x == IF info.side = "Buy" THEN b.low ELSE b.high
                         IN  IF acc = Inv \/ Worse(info.side, x, acc) THEN x ELSE acc
      worst == FoldLeft(Further, Inv, SubSeq(bs, info.bar, n - 2))
  IN IF \/ p.dbBars < 0 \/ info.bar + p.dbBars # n - 1 \/ ~bar.formed \/ bar.n = 0
        \/ DirOf(bar) # (IF info.side = "Buy" THEN "Down" ELSE "Up")
     THEN info
     ELSE IF p.dbMode = "CurrentBar" THEN slide(info, Behind(info.side, bar.close, p.offset))
     ELSE slide(info, Behind(info.side, worst, p.offset))

\* CramSignalProcessor::calcStop: behind the bar of the fill, but not too far away.  It
\* asks whether there is a stop, not whether the bar has an edge: while the bar has no
\* trades its edge is invalid, the least integer, which only a Sell takes for better.
cramBarStop(info, bs, p) ==
  LET bar == bs[info.bar]
      edge == IF info.side = "Buy" THEN bar.low ELSE bar.high
      cap == Behind(info.side, info.price, p.initialTicks)
      stop == IF cap # Inv /\ Worse(info.side, edge, cap) THEN cap ELSE edge
  IN  IF info.bar \notin DOMAIN bs \/ (info.stop # Inv /\ ~Worse(info.side, info.stop, stop)) THEN info
      ELSE [info EXCEPT !.stop = stop]

--------------------------------------------------------------------------------
(***************************************************************************)
(* Stops behind the quotes                                                 *)
(***************************************************************************)

\* InitialEdgeDefenseStopProcessor: two profits, two stops.
initialEdge(info, q, p) ==
  LET Reached(k) == ~Worse(info.side, Exit(info.side, q), Ahead(info.side, info.price, k))
      last == Behind(info.side, info.price, p.payup2)
  IN IF info.stop # Inv /\ ~Worse(info.side, info.stop, last) THEN info
     ELSE IF ~Reached(p.profit1) THEN info
     ELSE slide(info, IF Reached(p.profit2) THEN last
                      ELSE Behind(info.side, info.price, p.payup1))

\* TrailingStopProcessor.  It does not ask whether there is a stop: an unset one is
\* the least integer, which a Buy improves on and a Sell does not.
trailing(info, q, p) ==
  LET stop == Behind(info.side, Exit(info.side, q), p.trail)
  IN IF \/ p.begin < 1
        \/ Worse(info.side, Exit(info.side, q), Ahead(info.side, info.price, p.begin))
        \/ ~Worse(info.side, info.stop, stop)
     THEN info ELSE [info EXCEPT !.stop = stop]

NoTally == [bid |-> Inv, ask |-> Inv, bidVol |-> 0, askVol |-> 0]

\* The volume traded at the touch since it last changed.
tallied(top, q) ==
  LET t == IF top.bid = q.bid /\ top.ask = q.ask THEN top
           ELSE [NoTally EXCEPT !.bid = q.bid, !.ask = q.ask]
  IN IF ~q.trade THEN t
     ELSE IF q.price <= t.bid THEN [t EXCEPT !.bidVol = @ + q.size]
     ELSE IF q.price >= t.ask THEN [t EXCEPT !.askVol = @ + q.size]
     ELSE t

Outweighs(vol, other, min, ratio) == vol >= min /\ ~Below(vol, OrOne(other), ratio)

\* RatioCramProcessor: behind the touch, when trades for the position outweigh the
\* others; nothing is counted while an iceberg stands at the touch.
ratioCram(info, q, s, iceberg, p) ==
  LET ice == IF iceberg # Inv THEN iceberg ELSE s.ice
      blocked == ice # Inv /\ ice \in {q.bid, q.ask}
      top == tallied(s.top, IF blocked THEN [q EXCEPT !.trade = FALSE] ELSE q)
      t == [s EXCEPT !.ice = ice, !.top = top]
      buy == info.side = "Buy"
      Enough == Outweighs(IF buy THEN top.askVol ELSE top.bidVol,
                          IF buy THEN top.bidVol ELSE top.askVol, p.volFor, p.ratioFor)
      InFavor == ~Worse(info.side, Exit(info.side, q), Ahead(info.side, info.price, p.rcTicks))
  IN [s |-> t,
      i |-> IF q.trade /\ ~blocked /\ InFavor /\ Enough
            THEN slide(info, Behind(info.side, Exit(info.side, q), p.forStop)) ELSE info]

\* RatioCramRiskDefenseProcessor: the same for trades against a losing position.
riskDefense(info, q, s, p) ==
  LET top == tallied(s.top, q)
      buy == info.side = "Buy"
      Enough == Outweighs(IF buy THEN top.bidVol ELSE top.askVol,
                          IF buy THEN top.askVol ELSE top.bidVol, p.volAgainst, p.ratioAgainst)
      Losing == ~Worse(info.side, Behind(info.side, info.price, p.rcTicks), Exit(info.side, q))
  IN [s |-> [s EXCEPT !.top = top],
      i |-> IF q.trade /\ Losing /\ Enough
            THEN slide(info, Behind(info.side, Exit(info.side, q), p.againstStop)) ELSE info]

--------------------------------------------------------------------------------
(***************************************************************************)
(* CramStopProcessor                                                       *)
(***************************************************************************)

\* clear
cramStopClear(p) == [set |-> p.initialOff, top |-> NoTally]

\* The first stop: the touch has moved far enough, is firm or is hit hard enough.
initialCramStop(info, q, s, p) ==
  LET buy == info.side = "Buy"
      touch == Exit(info.side, q)
      firm == IF buy THEN q.bids[1].s ELSE q.asks[1].s
      eval == Ahead(info.side, info.price, p.eval)
      top == IF (IF buy THEN s.top.bid ELSE s.top.ask) = touch THEN s.top
             ELSE [NoTally EXCEPT !.bid = q.bid, !.ask = q.ask]
      Popped == ~Worse(info.side, touch, Ahead(info.side, info.price, p.pop))
      for == Worse(info.side, touch, q.price)
      hit == IF for = buy THEN [top EXCEPT !.askVol = @ + q.size]
                          ELSE [top EXCEPT !.bidVol = @ + q.size]
      Firm == p.initialFirm > 0 /\ Worse(info.side, eval, touch)
      Hit == Outweighs(IF buy THEN hit.askVol ELSE hit.bidVol,
                       IF buy THEN hit.bidVol ELSE hit.askVol, p.initialVol, p.initialRatio)
  IN IF Worse(info.side, touch, eval) THEN [s EXCEPT !.top = NoTally]
     ELSE IF ~q.trade THEN [s EXCEPT !.top = top, !.set = Popped]
     ELSE IF ~for /\ q.price # touch THEN [s EXCEPT !.top = NoTally]
     ELSE IF p.initialFirm > firm THEN [s EXCEPT !.top = hit]
     ELSE [s EXCEPT !.top = hit, !.set = Firm \/ Hit]

\* The later stops: behind the first level of the book that is firm, or that
\* outweighs the level behind it.
firmLevel(info, q, p) ==
  LET levels == IF info.side = "Buy" THEN q.bids ELSE q.asks
      Next1(k) == IF Distance(levels[k].p, levels[k + 1].p) = 1 THEN levels[k + 1].s ELSE 1
      firm == {k \in DOMAIN levels :
                 /\ levels[k].s > p.firmQty
                 /\ p.slideRatio[1] # 0 => /\ k + 1 \in DOMAIN levels
                                           /\ Above(levels[k].s, Next1(k), p.slideRatio)}
  IN  IF firm = {} THEN Inv ELSE Behind(info.side, levels[Min(firm)].p, p.firmOffset)

\* isStopSlideTriggered
cramStop(info, q, s, p) ==
  LET t == initialCramStop(info, q, s, p)
  IN IF p.slideRatio[1] = 0 /\ p.firmQty = 0 THEN [i |-> info, s |-> s]
     ELSE IF s.set THEN [i |-> slide(info, firmLevel(info, q, p)), s |-> s]
     ELSE [i |-> IF t.set THEN slide(info, Behind(info.side, info.price, p.initialOffset)) ELSE info,
           s |-> t]

\* isStopSlideWithBarsTriggered: only in a bar that has gone far enough with the
\* position.  (A displacement that is too small is refused whatever the ATR says.)
cramStopWithBars(info, q, bs, s, p) ==
  LET n == Len(bs)
      bar == bs[n]
      prev == bs[n - 1]
      best == IF info.side = "Buy" THEN bar.high ELSE bar.low
      With == bar.n > 0 /\ DirOf(bar) = (IF info.side = "Buy" THEN "Up" ELSE "Down")
      Far == IF n = info.bar THEN ~Worse(info.side, best, Ahead(info.side, info.price, p.pop))
             ELSE prev.n > 0 /\ ~Worse(info.side, best, Ahead(info.side, prev.close, p.minDisp))
  IN IF p.minDisp = 0 \/ ~s.set \/ (n >= info.bar /\ With /\ Far)
     THEN cramStop(info, q, s, p) ELSE [i |-> info, s |-> s]

--------------------------------------------------------------------------------
(***************************************************************************)
(* IcebergDetector.  infos: what is known of each price; ice: the iceberg  *)
(* the last quote showed; after: whether the last event was a trade.       *)
(***************************************************************************)

NoIce == [infos |-> <<>>, ice |-> <<>>, after |-> FALSE, traded |-> Inv]

\* getInfo and processUpdate
processUpdate(infos, level, side) ==
  LET was == IF level.p \in DOMAIN infos THEN infos[level.p] ELSE [max |-> 0, vol |-> 0, side |-> "Unknown"]
      kept == IF was.side = side THEN was ELSE [max |-> 0, vol |-> 0, side |-> side]
  IN  [x \in DOMAIN infos \cup {level.p} |->
         IF x = level.p THEN [kept EXCEPT !.max = Max({@, level.s})] ELSE infos[x]]

processTrade(infos, q) ==
  LET was == IF q.price \in DOMAIN infos THEN infos[q.price] ELSE [max |-> 0, vol |-> 0, side |-> "Unknown"]
  IN  [x \in DOMAIN infos \cup {q.price} |->
         IF x = q.price THEN [was EXCEPT !.vol = @ + q.size] ELSE infos[x]]

\* detectIceberg: more has traded at the touch than the shown size went down by.
detectIceberg(infos, q, traded, p) ==
  LET shown == IF q.bid = traded THEN q.bids[1].s ELSE q.asks[1].s
      info == infos[traded]
      gone == IF shown = info.max THEN 1 ELSE info.max - shown
  IN IF /\ traded \in {q.bid, q.ask} /\ info.max >= p.minMax
        /\ info.vol >= p.minVolume /\ ~Below(info.vol, gone, p.ratio)
     THEN <<[price |-> traded, side |-> info.side]>> ELSE <<>>

\* checkAndResetInfos: what is away from the market, or on the other side of it now.
checkAndResetInfos(infos, q, p) ==
  [x \in DOMAIN infos |->
     IF x < q.bid - p.away THEN [infos[x] EXCEPT !.max = 0, !.vol = 0]
     ELSE IF x <= q.bid /\ infos[x].side # "Buy" THEN [max |-> 0, vol |-> 0, side |-> "Buy"]
     ELSE IF x > q.ask + p.away THEN [infos[x] EXCEPT !.max = 0, !.vol = 0]
     ELSE IF x >= q.ask /\ infos[x].side # "Sell" THEN [max |-> 0, vol |-> 0, side |-> "Sell"]
     ELSE infos[x]]

\* onQuote, for a quote that updates every level.
icebergOnQuote(q, s, p) ==
  LET book == FoldLeft(LAMBDA acc, k : processUpdate(processUpdate(acc, q.bids[k], "Buy"), q.asks[k], "Sell"),
                       s.infos, [k \in DOMAIN q.bids |-> k])
  IN IF q.trade THEN [infos |-> processTrade(book, q), ice |-> <<>>, after |-> TRUE, traded |-> q.price]
     ELSE [s EXCEPT !.infos = checkAndResetInfos(book, q, p), !.after = FALSE,
                    !.ice = IF s.after THEN detectIceberg(book, q, s.traded, p) ELSE <<>>]

\* isStopSlideTriggered
icebergStop(info, s, p) ==
  IF s.ice = <<>> THEN info
  ELSE slide(info, Behind(info.side, s.ice[1].price,
                          IF s.ice[1].side = info.side THEN p.forTicks ELSE p.againstTicks))

\* resetIceberg, which the owner calls once it has used it.
resetIceberg(s) ==
  IF s.ice = <<>> THEN s
  ELSE [s EXCEPT !.ice = <<>>, !.infos[s.ice[1].price] = [@ EXCEPT !.max = 0, !.vol = 0]]

--------------------------------------------------------------------------------
(***************************************************************************)
(* Triggering the stop                                                     *)
(***************************************************************************)

stopTrigger_CountKept(info, q, t, p) ==
  LET at == t.qty + q.size
  IN IF p.minQty < 1 \/ ~q.trade THEN [t EXCEPT !.on = FALSE]
     ELSE IF q.price = info.stop
     THEN [price |-> info.stop, qty |-> IF at < p.minQty THEN at ELSE 0, on |-> at >= p.minQty]
     ELSE [price |-> info.stop, qty |-> t.qty, on |-> Worse(info.side, q.price, info.stop)]

\* stopTriggerProcessor::isStopTriggered: a trade beyond the stop, or enough of them
\* in a row at it.
stopTrigger(info, q, t, p) ==
  LET counted == IF info.stop = t.price THEN t.qty ELSE 0
      at == counted + q.size
  IN IF p.minQty < 1 \/ ~q.trade THEN [t EXCEPT !.on = FALSE]
     ELSE IF q.price = info.stop
     THEN [price |-> info.stop, qty |-> IF at < p.minQty THEN at ELSE 0, on |-> at >= p.minQty]
     ELSE [price |-> info.stop, qty |-> 0, on |-> Worse(info.side, q.price, info.stop)]

--------------------------------------------------------------------------------
(***************************************************************************)
(* TimerBasedStopProcessor: a cycle of the clock with two bounds           *)
(***************************************************************************)

calcCycleTimeouts_DueNow(now, p) ==
  LET m == now % p.cycle
  IN  IF m > p.upper THEN [lower |-> (p.cycle - m) + p.lower, upper |-> (p.cycle - m) + p.upper]
      ELSE [lower |-> IF m < p.lower THEN p.lower - m ELSE (p.cycle - m) + p.lower, upper |-> p.upper - m]

\* calcCycleTimeouts, at the time "now" of the day.
calcCycleTimeouts(now, p) ==
  LET m == now % p.cycle
      upper == p.upper - m
  IN CASE m > p.upper -> [lower |-> (p.cycle - m) + p.lower, upper |-> (p.cycle - m) + p.upper]
       [] m < p.lower -> [lower |-> p.lower - m, upper |-> upper]
       [] OTHER -> [lower |-> upper + (p.cycle - p.upper) + p.lower,
                    upper |-> IF upper = 0 THEN p.cycle ELSE upper]

\* calcStopSlide
calcStopSlide(count, isLower, p) ==
  IF (IF p.anchor THEN isLower ELSE count % 2 = 1) THEN p.slideLower ELSE p.slideUpper

\* isTakeProfitTriggered: the price to leave at, if the profit of the bound is there.
takeProfit(info, q, isLower, p) ==
  LET ticks == IF isLower THEN p.profitLower ELSE p.profitUpper
  IN IF ticks < 1 \/ Worse(info.side, Exit(info.side, q), Ahead(info.side, info.price, ticks))
     THEN Inv ELSE Behind(info.side, Exit(info.side, q), p.profitPayup)

--------------------------------------------------------------------------------
(***************************************************************************)
(* ActivePriceProcessor: join the passive side or pay to trade now         *)
(***************************************************************************)

\* No price when it is not enabled or the passive side has no level.  (avgParticipantQty
\* only changes how the size of a level is counted and is left out.)
calcPrice(q, last, side, p) ==
  LET buy == side = "Buy"
      passive == IF buy THEN q.bids[1] ELSE q.asks[1]
      active == IF buy THEN q.asks[1] ELSE q.bids[1]
      prev == IF last = <<>> THEN <<>> ELSE <<IF buy THEN last[1].asks[1] ELSE last[1].bids[1]>>
      cross == Ahead(side, passive.p, 1)
      lean == IF p.smallQty > 0 /\ passive.s < p.smallQty THEN p.leanSmall ELSE p.leanQty
      Ignored(limit) == limit >= 1 /\ limit <= active.s
      Heavy == passive.s * p.leanRatio[1] > active.s * p.leanRatio[2]
      Fell == /\ prev # <<>> /\ prev[1].p = cross /\ p.leanDelta[1] > 0
              /\ prev[1].s * (p.leanDelta[2] - p.leanDelta[1]) > active.s * p.leanDelta[2]
      Cross == \/ cross # active.p
               \/ p.paranoid > 0 /\ passive.s > p.paranoid
               \/ active.s < lean
               \/ Heavy /\ ~Ignored(p.ignoreRatio)
               \/ Fell /\ ~Ignored(p.ignoreDelta)
  IN IF p.leanQty < 1 \/ passive.p = Inv THEN [price |-> Inv, active |-> FALSE]
     ELSE [price |-> IF Cross THEN cross ELSE passive.p, active |-> Cross]

--------------------------------------------------------------------------------
(***************************************************************************)
(* PriceVolTracker: the volume at the touch, newest first, and the trades  *)
(***************************************************************************)

\* check and add
trackLevel(infos, q) ==
  LET top == infos[1]
      fresh == [bid |-> q.bid, ask |-> q.ask, bidVol |-> 0, askVol |-> 0]
  IN IF infos = <<>> THEN <<fresh>>
     ELSE IF top.bid = q.bid /\ top.ask = q.ask THEN infos
     ELSE IF q.bid = top.bid /\ top.ask = Inv THEN [infos EXCEPT ![1].ask = q.ask]
     ELSE IF q.ask = top.ask /\ top.bid = Inv THEN [infos EXCEPT ![1].bid = q.bid]
     ELSE <<fresh>> \o infos

\* Which side a trade is tracked on; one inside the spread without an aggressor is
\* counted as a sell in the trades and at no price.
trackSide(top, q) ==
  CASE q.side \in {"Buy", "Sell"} -> q.side
    [] q.side = "None" /\ q.price <= top.bid -> "Sell"
    [] q.side = "None" /\ q.price > top.bid /\ q.price >= top.ask -> "Buy"
    [] OTHER -> "Unknown"

trackTrade(infos, q) ==
  LET top == infos[1]
      side == trackSide(top, q)
  IN CASE side = "Buy" ->
            IF q.price = top.ask THEN [infos EXCEPT ![1].askVol = @ + q.size]
            ELSE <<[NoTally EXCEPT !.ask = q.price, !.askVol = q.size]>> \o infos
       [] side = "Sell" ->
            IF q.price = top.bid THEN [infos EXCEPT ![1].bidVol = @ + q.size]
            ELSE <<[NoTally EXCEPT !.bid = q.price, !.bidVol = q.size]>> \o infos
       [] OTHER -> infos

\* onQuote
trackVolume(q, s) ==
  LET infos == trackLevel(s.infos, q)
      buy == trackSide(infos[1], q) = "Buy"
  IN IF ~q.trade THEN [s EXCEPT !.infos = infos]
     ELSE [s EXCEPT !.infos = trackTrade(infos, q),
                    !.buys = @ + IF buy THEN q.size ELSE 0,
                    !.sells = @ + IF buy THEN 0 ELSE q.size]

================================================================================
