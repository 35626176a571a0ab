---------------------------- MODULE BreakoutSignals ----------------------------
(***************************************************************************)
(* Signals that wait for the price to leave a range or to go on after a    *)
(* strong bar: ORBreakoutSignalProcessor and                               *)
(* ContinuationTradeSignalProcessor.  The conventions are those of         *)
(* BarSignals; the time of a bar is its number.                            *)
(***************************************************************************)
EXTENDS BarSignals

--------------------------------------------------------------------------------
(***************************************************************************)
(* ORBreakoutSignalProcessor.  With minInside = 0 the range is the bar     *)
(* that opens at the configured time, otherwise any run of bars that close *)
(* inside it.                                                              *)
(***************************************************************************)

orInit ==
  [on |-> FALSE, side |-> "Unknown", lastProc |-> 0, open |-> 0, hi |-> Inv, lo |-> Inv,
   from |-> 0, inside |-> 0, tries |-> 0, price |-> Inv, lastSide |-> "Unknown",
   lastExit |-> 0, lastSig |-> 0, volIn |-> 0, volFor |-> 0, volAgainst |-> 0]

\* clearRuntime; the number of a bar is given when a position was closed in it.
orClear(s, exit, p) ==
  LET t == [Off(s) EXCEPT !.from = 0, !.inside = 0, !.price = Inv,
                          !.lastExit = IF exit > 0 THEN exit ELSE @]
  IN IF p.minInside = 0 THEN t
     ELSE [t EXCEPT !.tries = 0, !.open = 0, !.hi = Inv, !.lo = Inv,
                    !.volIn = 0, !.volFor = 0, !.volAgainst = 0]

\* Which side the price x is beyond the range on, by at least "by" ticks.
beyond(x, s, by) ==
  IF Minus(x, s.hi) >= by THEN "Buy" ELSE IF Minus(s.lo, x) >= by THEN "Sell" ELSE "Unknown"

\* A break of an open range: early at the price itself, later only at a close.
orOpenBreak(q, bs, s, p) ==
  LET n == Len(bs)
      close == bs[n - 1].close
      Broken(side, price) ==
        IF side = "Unknown" THEN s
        ELSE IF s.lastExit >= n /\ s.lastSide = side THEN Off(s)
        ELSE [Signal(s, side) EXCEPT !.price = price, !.lastSide = side, !.tries = @ + 1]
      AtEdge(side) == Broken(side, IF side = "Buy" THEN s.hi ELSE s.lo)
  IN IF n - s.from < p.insideLimit THEN AtEdge(beyond(q.price, s, p.initiate))
     ELSE Broken(beyond(close, s, p.initiate), close)

orOpenRange(q, bs, s, p) ==
  LET n == Len(bs)
      prev == bs[n - 1]
      opened == [s EXCEPT !.open = n - 1, !.from = n - 1, !.hi = prev.high, !.lo = prev.low]
      Within(t) ==
        IF \/ n - t.open > p.maxBars \/ t.tries >= p.maxTries
           \/ t.from = 0 /\ ~(prev.close < t.hi /\ prev.close > t.lo)
        THEN t
        ELSE orOpenBreak(q, bs, IF t.from = 0 THEN [t EXCEPT !.from = n - 1] ELSE t, p)
  IN IF s.open # 0 THEN Within(s)
     ELSE IF n - 1 = p.openTime THEN Within(opened) ELSE s

\* checkRange: a range that is too wide is forgotten.
tooWide(range, p) == p.maxRange > 0 /\ range > p.maxRange

\* checkAndAssignFirstBarOfRange
orFirstBar(prev, k, s, p) ==
  LET t == orClear(s, 0, p)
  IN IF tooWide(rangeOf(prev), p) THEN t
     ELSE [t EXCEPT !.open = k, !.hi = prev.high, !.lo = prev.low, !.volIn = prev.volume]

\* The range after the last bar: begun, begun again by a bar that closed outside,
\* or widened by one that closed inside.
orRange(bs, s, p) ==
  LET k == Len(bs) - 1
      prev == bs[k]
      wider == [s EXCEPT !.hi = Max({@, prev.high}),
                         !.lo = IF prev.low < @ THEN prev.low ELSE @]
  IN IF s.open = 0 THEN orFirstBar(prev, k, s, p)
     ELSE IF Len(bs) = s.lastProc THEN s
     ELSE IF prev.close > s.hi \/ prev.close < s.lo THEN orFirstBar(prev, k, s, p)
     ELSE IF tooWide(wider.hi - wider.lo, p) THEN orClear(wider, 0, p)
     ELSE [wider EXCEPT !.inside = @ + 1, !.volIn = @ + prev.volume]

\* The volume outside the range, for and against the side that left it.
orVolume(q, s) ==
  LET v == updateTrade(NoVol, q)
      side == IF s.side # "Unknown" THEN s.side ELSE beyond(q.price, s, 1)
      Returned == IF side = "Buy" THEN q.price < s.hi ELSE q.price > s.lo
  IN IF side = "Unknown" THEN s
     ELSE IF Returned THEN [s EXCEPT !.side = "Unknown", !.volFor = 0, !.volAgainst = 0]
     ELSE IF side = "Buy"
     THEN [s EXCEPT !.side = side, !.volAgainst = @ + v.bid,
                    !.volFor = @ + IF q.price > s.hi THEN v.ask ELSE 0]
     ELSE [s EXCEPT !.side = side, !.volAgainst = @ + v.ask,
                    !.volFor = @ + IF q.price < s.lo THEN v.bid ELSE 0]

\* A break of the range that volume outside it supports, where that is required.
orGenericBreak(q, bs, s, p) ==
  LET close == bs[Len(bs) - 1].close
      Thin == p.minVolOut > 0 /\ (\/ s.side = "Unknown"
                                  \/ p.minVolOut > s.volFor + s.volAgainst
                                  \/ Below(s.volFor, OrOne(s.volAgainst), p.volRatio))
      Edge(side) == IF side = "Buy" THEN s.hi ELSE s.lo
      Broken(side) == IF side = "Unknown" THEN s
                      ELSE [Signal(s, side) EXCEPT !.price = IF p.reqClose THEN close ELSE Edge(side),
                                                   !.tries = @ + 1]
  IN IF Thin THEN s ELSE Broken(beyond(IF p.reqClose THEN close ELSE q.price, s, p.initiate))

orGenericRange(q, bs, s, p) ==
  LET n == Len(bs)
      Waiting(t) == t.open = 0 \/ t.inside < p.minInside \/ (p.minVol > 0 /\ t.volIn < p.minVol)
      Closed(t) == n - (t.open + p.minInside) > p.maxBars \/ t.tries >= p.maxTries
      Ranged(t) ==
        IF Waiting(t) THEN t
        ELSE IF Closed(t) THEN (IF n = s.lastProc THEN t ELSE orClear(t, 0, p))
        ELSE orGenericBreak(q, bs, IF p.minVolOut = 0 THEN t ELSE orVolume(q, t), p)
  IN IF n - 1 < p.openTime \/ n - 1 > p.closeTime THEN s ELSE Ranged(orRange(bs, s, p))

\* isSignalTriggered: a signal stays on until it is cleared; a trade marks the bar
\* as processed, whatever came of it.
orBreakout(q, bs, s, p) ==
  LET n == Len(bs)
      Marked(t) == [t EXCEPT !.lastProc = n, !.lastSig = IF t.on THEN n ELSE @]
  IN IF ~q.trade THEN s
     ELSE IF s.on \/ n < (IF p.minInside = 0 THEN 2 ELSE 3) THEN [s EXCEPT !.lastProc = n]
     ELSE Marked(IF p.minInside = 0 THEN orOpenRange(q, bs, s, p) ELSE orGenericRange(q, bs, s, p))

\* monitorSignal: given up after too many bars or when the price ran away.
orMonitor(bs, active, s, p) ==
  LET late == Len(bs) - (s.open + p.minInside) > p.maxBars
      Ran == active # Inv /\ \/ s.side = "Buy" /\ active > s.price + p.initiateLimit
                             \/ s.side = "Sell" /\ active < s.price - p.initiateLimit
  IN IF s.on /\ (late \/ Ran) THEN orClear(s, 0, p) ELSE s

\* isBarsToExitExceeded
orExitExceeded(bs, s, p) == p.barsToExit > 0 /\ Len(bs) - s.lastSig > s.inside + 1

\* calcInitialStopPrice: behind the range, if that is tighter.
orInitialStop(info, s, p) ==
  LET stop == IF info.side = "Buy" THEN Minus(s.lo, p.stopBehind) ELSE Plus(s.hi, p.stopBehind)
      Looser == info.stop # Inv /\ IF info.side = "Buy" THEN stop <= info.stop ELSE stop >= info.stop
  IN IF ~s.on \/ p.stopBehind < 0 \/ Looser \/ stop = Inv THEN info ELSE [info EXCEPT !.stop = stop]

\* isInitialStopSlideRecalculated: behind the signal bar once it has formed.
orSlideStop(info, bs, s, p) ==
  LET bar == bs[s.lastSig]
      stop == IF info.side = "Buy" THEN Minus(bar.low, p.slide) ELSE Plus(bar.high, p.slide)
      Looser == info.stop # Inv /\ IF info.side = "Buy" THEN stop <= info.stop ELSE stop >= info.stop
  IN IF p.minInside > 0 \/ ~s.on \/ s.lastSig \notin DOMAIN bs THEN info
     ELSE IF ~bar.formed \/ Looser \/ stop = Inv THEN info ELSE [info EXCEPT !.stop = stop]

--------------------------------------------------------------------------------
(***************************************************************************)
(* ContinuationTradeSignalProcessor                                        *)
(***************************************************************************)

ctInit ==
  [on |-> FALSE, side |-> "Unknown", state |-> "Unknown", payup |-> Inv, flowback |-> Inv,
   stop |-> Inv, lastSig |-> 0, lastProc |-> 0, flowed |-> FALSE]

ctState(s, state) == [s EXCEPT !.state = state, !.flowed = FALSE]

ctClear(s) == [ctState(Off(s), "Unknown") EXCEPT !.payup = Inv, !.flowback = Inv, !.stop = Inv]

\* The swing: the bar goes its way and makes its extreme, where that is required.
ctSwing(i, bar, swing, p) ==
  IF swing.dir = "Unknown" THEN ~p.inSwing /\ ~p.atSwing
  ELSE (p.inSwing => DirOf(bar) = swing.dir) /\ (p.atSwing => extremeAt(swing) = i)

\* The trend: the bar goes its way, or the swing has broken it far enough.
ctTrend(i, bar, swing, trend, p) ==
  LET size == trend.high - trend.low
      FarEnough == IF trend.dir = "Down"
                   THEN (swing.high - trend.low) * p.breakTrend[2] >= p.breakTrend[1] * size
                   ELSE (trend.high - swing.low) * p.breakTrend[2] >= p.breakTrend[1] * size
  IN p.inTrend => /\ trend.dir # "Unknown"
                  /\ IF p.trendExtreme THEN DirOf(bar) = trend.dir /\ extremeAt(trend) = i
                     ELSE DirOf(bar) = trend.dir \/ FarEnough

continuation(bs, swing, trend, bias, s, p) ==
  LET i == Len(bs) - 1
      bar == bs[i]
      down == DirOf(bar) = "Down"
      t == [ctClear(s) EXCEPT !.lastProc = i]
      disp == IF down THEN bar.high - bar.close ELSE bar.close - bar.low
      Strong == /\ DirOf(bar) # "Unknown"
                /\ rangeOf(bar) >= p.minDisp
                /\ p.minVol > 0 => bar.volume >= p.minVol
                /\ p.minDispAtr[1] > 0 =>
                     ~Below(rangeOf(bar) * OrOne(bar.atr[2]), bar.atr[1], p.minDispAtr)
                /\ ~Below(bar.atr[1], OrOne(bar.atr[2]), p.atrRequired)
                /\ disp # 0 /\ ~Below(disp, rangeOf(bar), p.bodyToBar)
      Biased == bias \in {"Neutral", IF down THEN "Short" ELSE "Long"}
      Flat == bar.close = IF down THEN bar.low ELSE bar.high
      flowback == IF down THEN bar.close + p.maxFlowback ELSE bar.close - p.maxFlowback
      stop == IF p.stopTicks > 0
              THEN IF down THEN bar.high + p.stopTicks ELSE bar.low - p.stopTicks
              ELSE IF down THEN flowback + p.flowbackStop ELSE flowback - p.flowbackStop
  IN IF i = s.lastSig THEN [s EXCEPT !.on = TRUE]
     ELSE IF i = s.lastProc THEN [s EXCEPT !.on = FALSE]
     ELSE IF \/ Len(bs) < 3 \/ ~Strong \/ ~ctSwing(i, bar, swing, p)
             \/ ~ctTrend(i, bar, swing, trend, p) \/ ~Biased \/ (p.flatClose /\ ~Flat)
     THEN t
     ELSE [Signal(t, IF down THEN "Sell" ELSE "Buy") EXCEPT
             !.payup = IF down THEN bar.close - p.maxPayup ELSE bar.close + p.maxPayup,
             !.flowback = flowback, !.stop = stop, !.lastSig = i, !.state = "Signaled"]

\* The volume traded in a bar at the prices lo..hi, at the ask and at the bid.
volAsk(bar, lo, hi) ==
  MapThenSumSet(LAMBDA x : bar.trades[x].ask, {x \in DOMAIN bar.trades : lo <= x /\ x <= hi})

volBid(bar, lo, hi) ==
  MapThenSumSet(LAMBDA x : bar.trades[x].bid, {x \in DOMAIN bar.trades : lo <= x /\ x <= hi})

\* Beyond the close of the signal bar all volume counts, at it only one side.
upVolume(close, cur, limit, p) ==
  volAsk(cur, close + 1, limit) + volBid(cur, close + 1, limit)
  + IF p.ignoreClose \/ close > limit THEN 0 ELSE volAsk(cur, close, close)

downVolume(close, cur, limit, p) ==
  volAsk(cur, limit, close - 1) + volBid(cur, limit, close - 1)
  + IF p.ignoreClose \/ close < limit THEN 0 ELSE volBid(cur, close, close)

\* monitorSignal while Signaled: cancelled when the price leaves the band, validated
\* by a gap or by the volume for it, which after a flowback is counted at the touch.
ctSignaled(q, bs, active, s, p) ==
  LET bar == bs[s.lastSig]
      cur == Last(bs)
      sell == s.side = "Sell"
      atr == (2 * bar.atr[1] + OrOne(bar.atr[2])) \div (2 * OrOne(bar.atr[2]))
      limit == IF ~p.flowback THEN s.flowback
               ELSE IF sell THEN Min({bar.close + atr, bar.high}) ELSE Max({bar.close - atr, bar.low})
      touch == IF sell THEN Max({q.price, q.bid})
               ELSE IF Inv \in {q.price, q.ask} THEN Max({q.price, q.ask}) ELSE Min({q.price, q.ask})
      FlowedOut == touch # Inv /\ IF sell THEN touch > limit ELSE touch < limit
      RanAway == IF sell THEN active < s.payup ELSE active > s.payup
      gap == IF ~p.onGap \/ s.lastSig + 1 # Len(bs) THEN 0
             ELSE IF sell THEN Minus(bar.close, cur.open) ELSE Minus(cur.open, bar.close)
      flowed == \/ s.flowed
                \/ p.flowback /\ IF sell THEN q.ask # Inv /\ q.ask > s.flowback
                                 ELSE q.bid # Inv /\ q.bid < s.flowback
      t == [s EXCEPT !.flowed = flowed]
      volFor == CASE sell /\ flowed -> IF q.bid = Inv THEN 0 ELSE volBid(cur, q.bid, q.bid)
                  [] sell /\ ~flowed -> downVolume(bar.close, cur, s.payup, p)
                  [] ~sell /\ flowed -> IF q.ask = Inv THEN 0 ELSE volAsk(cur, q.ask, q.ask)
                  [] OTHER -> upVolume(bar.close, cur, s.payup, p)
      against == CASE sell /\ flowed -> IF q.bid = Inv THEN 0 ELSE volAsk(cur, q.bid + 1, cur.high)
                   [] sell /\ ~flowed -> upVolume(bar.close, cur, s.flowback, p)
                   [] ~sell /\ flowed -> IF Inv \in {q.ask, cur.low} THEN 0 ELSE volBid(cur, cur.low, q.ask - 1)
                   [] OTHER -> downVolume(bar.close, cur, s.flowback, p)
  IN IF FlowedOut \/ RanAway THEN ctState(s, "Cancelled")
     ELSE IF gap > 0 THEN ctState(s, "Validated")
     ELSE IF volFor < p.minFor \/ Below(volFor, OrOne(against), p.ratioFor) THEN t
     ELSE ctState(t, "Validated")

\* monitorSignal: a signal lives in the bar after its own only.
ctMonitor(q, bs, active, s, p) ==
  LET RanAway == IF s.side = "Sell" THEN active < s.payup ELSE active > s.payup
  IN IF s.lastSig \notin DOMAIN bs \/ s.lastSig < Len(bs) - 1 THEN ctState(s, "Cancelled")
     ELSE IF active = Inv THEN s
     ELSE CASE s.state = "Signaled" -> ctSignaled(q, bs, active, s, p)
            [] s.state = "Validated" /\ s.payup # Inv /\ RanAway -> ctState(s, "Cancelled")
            [] OTHER -> s

\* isConfirmContinuationBarFailed: the bar that should confirm did not close beyond
\* the signal bar.
ctConfirmFailed(bs, s, p) ==
  LET k == s.lastSig + p.confirm
      signal == bs[s.lastSig]
  IN /\ p.confirm > 0 /\ k < Len(bs) - 1 /\ s.lastSig - 1 \in DOMAIN bs
     /\ ~(IF s.side = "Buy" THEN bs[k + 1].close > signal.high ELSE bs[k + 1].close < signal.low)

================================================================================
