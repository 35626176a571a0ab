--------------------------- MODULE TransitionSignal ---------------------------
(***************************************************************************)
(* TransitionSignalProcessor: a bar that closes where it opened (the tBar) *)
(* and then a move away from it, read in one of four ways: volume beyond   *)
(* its close, volume beyond the fulcrum found in its range, a later close, *)
(* or a cram at its edge.  The conventions are those of BarSignals; q.late *)
(* says that tTimeToSignal has passed since the tBar was located.          *)
(***************************************************************************)
EXTENDS BarSignals

NoTop == [bid |-> Inv, ask |-> Inv, bidVol |-> 0, askVol |-> 0]

tInit ==
  [on |-> FALSE, side |-> "Unknown", twice |-> FALSE, buyOk |-> TRUE, sellOk |-> TRUE,
   cramDone |-> FALSE, top |-> NoTop, fLocated |-> FALSE, fHigh |-> Inv, fLow |-> Inv,
   located |-> FALSE, close |-> Inv, index |-> 0, high |-> Inv, low |-> Inv,
   above |-> 0, below |-> 0, disp |-> 0, upT |-> FALSE, downT |-> FALSE,
   timedOut |-> 0, fTimedOut |-> 0, prevIndex |-> 0, prevSide |-> "Unknown",
   stop |-> Inv, limit |-> Inv]

\* clear: the stop and limit prices, the T flags and the displacement stay.
tClear(s) ==
  [Off(s) EXCEPT !.twice = FALSE, !.buyOk = TRUE, !.sellOk = TRUE, !.cramDone = FALSE,
                 !.top = NoTop, !.fLocated = FALSE, !.located = FALSE, !.close = Inv,
                 !.index = 0, !.high = Inv, !.low = Inv, !.above = 0, !.below = 0]

withStop_LimitAbove(s, side, hi, lo, p) ==
  IF side = "Buy"
  THEN [Signal(s, side) EXCEPT !.stop = Minus(lo, p.stopTicks), !.limit = Plus(hi, p.readMax)]
  ELSE [Signal(s, side) EXCEPT !.stop = Plus(hi, p.stopTicks), !.limit = Plus(hi, p.readMax)]

\* The stop behind the range lo..hi, and how far beyond it an order may go.
withStop(s, side, hi, lo, p) ==
  IF side = "Buy"
  THEN [Signal(s, side) EXCEPT !.stop = Minus(lo, p.stopTicks), !.limit = Plus(hi, p.readMax)]
  ELSE [Signal(s, side) EXCEPT !.stop = Plus(hi, p.stopTicks), !.limit = Minus(lo, p.readMax)]

Allowed_SellAnyway(s, side) == IF side = "Buy" THEN s.buyOk /\ ~s.downT ELSE s.sellOk

\* Whether the tBar lets a side be taken at all.
Allowed(s, side) == IF side = "Buy" THEN s.buyOk /\ ~s.downT ELSE s.sellOk /\ ~s.upT

--------------------------------------------------------------------------------
(***************************************************************************)
(* The fulcrum                                                             *)
(***************************************************************************)

\* _fMap: the volume at a price in the bars from..to.
levelVol(bs, from, to, x) ==
  MapThenSumSet(LAMBDA k : IF x \in DOMAIN bs[k].trades
                           THEN bs[k].trades[x].bid + bs[k].trades[x].ask ELSE 0,
                from..to)

\* The level that first took the most volume; which of several, hashing decides
\* (p.tie).
fulcrumLevel(bs, s, p) ==
  LET levels == s.low..s.high
      Vol(k, x) == levelVol(bs, s.index, k, x)
      Most(k) == Max({Vol(k, x) : x \in levels})
      First(most) == Min({k \in s.index..Len(bs) : Most(k) = most})
      Chosen(best) == IF p.tie = "Low" THEN Min(best) ELSE Max(best)
      Level(most, k) == [vol |-> most, price |-> Chosen({x \in levels : Vol(k, x) = most})]
      Found(most) == Level(most, First(most))
  IN  Found(Most(Len(bs)))

\* The fulcrum is a level with much more volume than its neighbours, or with
\* neighbours that weigh about the same and are taken in.
locateFulcrum(price, vol, hi, lo, s, p) ==
  LET Within(v) == ~Below(v, vol, p.fLower) /\ ~Above(v, vol, p.fHigher)
      Balanced == ~Above(Max({hi, lo}), Min({hi, lo}), p.fRatio)
      Located(wing) == [s EXCEPT !.fLocated = TRUE, !.fLow = price - wing, !.fHigh = price + wing]
  IN IF 0 \in {vol, hi, lo} THEN s
     ELSE IF Below(hi, vol, p.fLower) /\ Below(lo, vol, p.fLower) THEN Located(0)
     ELSE IF Within(lo) /\ Within(hi) /\ Balanced THEN Located(1)
     ELSE s

identifyFulcrum(bs, s, p) ==
  LET n == Len(bs)
      closed == bs[n - 1]
      TimedOut == \/ n - 1 > s.index + p.fBars
                  \/ closed.close > s.high \/ closed.close < s.low
      VolAt(x) == levelVol(bs, s.index, n, x)
      At(f) == IF f.vol < p.fMinVol THEN s
               ELSE locateFulcrum(f.price, VolAt(f.price), VolAt(f.price + 1), VolAt(f.price - 1), s, p)
  IN IF TimedOut THEN tClear([s EXCEPT !.fTimedOut = s.index]) ELSE At(fulcrumLevel(bs, s, p))

\* The wings move out to the furthest level that traded; the tally there restarts.
extendWings(bs, s, p) ==
  LET Heavy(x) == levelVol(bs, s.index, Len(bs), x) >= p.breakVol
      lower == {x \in s.low..(s.fLow - 1) : Heavy(x)}
      higher == {x \in (s.fHigh + 1)..s.high : Heavy(x)}
      t == IF lower = {} THEN s ELSE [s EXCEPT !.fLow = Min(lower), !.below = 0]
  IN  IF higher = {} THEN t ELSE [t EXCEPT !.fHigh = Max(higher), !.above = 0]

--------------------------------------------------------------------------------
(***************************************************************************)
(* The ways to a side                                                      *)
(***************************************************************************)

\* isReadCompleted: enough volume of aggressors beyond hi or lo, and enough of it
\* against the other side's; a trade too far beyond takes the side away.
read(q, s, hi, lo, p) ==
  LET up == q.price > hi
      agrees == \/ q.side = (IF up THEN "Buy" ELSE "Sell")
                \/ q.side = "None" /\ q.price = (IF up THEN q.ask ELSE q.bid)
      more == IF agrees THEN q.size ELSE 0
      t == IF up THEN [s EXCEPT !.above = @ + more] ELSE [s EXCEPT !.below = @ + more]
      this == IF up THEN t.above ELSE t.below
      other == IF up THEN t.below ELSE t.above
  IN IF q.price >= hi + p.readMax THEN [s EXCEPT !.buyOk = FALSE]
     ELSE IF q.price <= lo - p.readMax THEN [s EXCEPT !.sellOk = FALSE]
     ELSE IF lo <= q.price /\ q.price <= hi THEN s
     ELSE IF this > p.readMin /\ Above(this \div OrOne(other), 1, p.readRatio)
     THEN withStop(t, IF up THEN "Buy" ELSE "Sell", hi, lo, p)
     ELSE t

\* The read is only asked for the side of hi..lo the trade is on.
readAt(q, s, hi, lo, p) ==
  IF \/ q.price > hi /\ Allowed(s, "Buy")
     \/ q.price < lo /\ Allowed(s, "Sell")
  THEN read(q, s, hi, lo, p) ELSE s

\* isInitialCramCompleted: the touch stands beyond the level and is firm, or is hit
\* by volume that outweighs the other side's.
initialCram(side, level, q, s, p) ==
  LET buy == side = "Buy"
      touch == IF buy THEN q.bid ELSE q.ask
      firmer == IF buy THEN q.bids[1].s ELSE q.asks[1].s
      Short == IF buy THEN touch < Plus(level, p.cramEval) ELSE touch > Minus(level, p.cramEval)
      Past == IF buy THEN touch > Plus(level, p.cramEval) ELSE touch < Minus(level, p.cramEval)
      Far == IF buy THEN touch > Plus(level, p.cramMax) ELSE touch < Minus(level, p.cramMax)
      kept == IF buy THEN s.top.bid ELSE s.top.ask
      top == IF kept = touch THEN s.top ELSE [NoTop EXCEPT !.bid = q.bid, !.ask = q.ask]
      done == s.cramDone \/ (p.cramFirm > 0 /\ p.cramFirm <= firmer /\ Past)
      Away == IF buy THEN q.price > touch ELSE q.price < touch
      \* Trades beyond the touch count for the side, trades at it against.
      hit == IF Away = buy THEN [top EXCEPT !.askVol = @ + q.size]
                           ELSE [top EXCEPT !.bidVol = @ + q.size]
      good == IF buy THEN hit.askVol ELSE hit.bidVol
      bad == IF buy THEN hit.bidVol ELSE hit.askVol
      t == [s EXCEPT !.top = top, !.cramDone = done]
  IN IF Short THEN s
     ELSE IF Far THEN tClear(s)
     ELSE IF q.price = Inv THEN t
     ELSE IF ~Away /\ q.price # touch THEN [t EXCEPT !.top = NoTop]
     ELSE IF ~done /\ (good < p.cramVol \/ Below(good, OrOne(bad), p.cramRatio))
     THEN [t EXCEPT !.top = hit]
     ELSE withStop([t EXCEPT !.top = hit, !.cramDone = TRUE], side, s.high, s.low, p)

\* A tBar that is small enough: the first close outside it decides.
closeOutside(bs, s, p) ==
  LET i == Len(bs) - 1
      up == bs[i].close > s.high
      side == IF up THEN "Buy" ELSE "Sell"
  IN IF i > s.index /\ (up \/ bs[i].close < s.low) /\ Allowed(s, side)
     THEN withStop(s, side, s.high, s.low, p) ELSE s

\* A tBar that is large: the direction of the first bar that closes inside it.
closeInside(bs, q, s, p) ==
  LET i == Len(bs) - 1
      bar == bs[i]
      side == IF bar.close > bar.open THEN "Buy" ELSE "Sell"
  IN IF q.bid > Plus(s.high, p.outside) \/ q.ask < Minus(s.low, p.outside) THEN tClear(s)
     ELSE IF i <= s.index THEN s
     ELSE IF bar.close < s.low \/ bar.close > s.high THEN tClear(s)
     ELSE IF bar.close # bar.open /\ Allowed(s, side) THEN withStop(s, side, s.high, s.low, p)
     ELSE s

--------------------------------------------------------------------------------
(***************************************************************************)
(* isSignalTriggered                                                       *)
(***************************************************************************)

\* The sides the patterns leave to a tBar.
filterSides(bar, swing, trend, s) ==
  LET NewExtreme == bar.high > swing.high \/ bar.low < swing.low
      Against(dir) == IF dir = "Up" THEN "Down" ELSE "Up"
      Follow(dir) == /\ trend.dir = dir
                     /\ swing.dir = Against(dir) \/ (swing.dir = dir /\ ~NewExtreme)
  IN  [s EXCEPT !.sellOk = @ /\ ~Follow("Up"), !.buyOk = @ /\ ~Follow("Down")]

\* A bar that closes where it opened is taken as the tBar, if it qualifies.
locate(bs, swings, trends, s, p) ==
  LET i == Len(bs) - 1
      bar == bs[i]
      t == IF p.filter THEN filterSides(bar, Last(swings), Last(trends), s) ELSE s
  IN IF \/ bar.close # bar.open
        \/ rangeOf(bar) < p.minRange \/ rangeOf(bar) > p.maxRange
        \/ Below(bar.atr[1], OrOne(bar.atr[2]), p.atrRequired)
        \/ i \in {s.timedOut, s.fTimedOut}
     THEN s
     ELSE [t EXCEPT !.disp = rangeOf(bar), !.located = TRUE, !.close = bar.close, !.index = i,
                    !.high = bar.high, !.low = bar.low, !.cramDone = FALSE, !.top = NoTop,
                    !.upT = bar.high = bar.close, !.downT = bar.low = bar.close]

\* A second such bar widens the first one, if it follows one, and never serves itself.
widen(bs, s) ==
  LET i == Len(bs) - 1
      bar == bs[i]
      later == bar.close = bar.open /\ i > s.index
      wider == [s EXCEPT !.high = Max({@, bar.high}), !.low = Min({@, bar.low})]
      t == IF later /\ bs[i - 1].close = bs[i - 1].open THEN wider ELSE s
  IN  IF later THEN [t EXCEPT !.timedOut = i] ELSE t

\* The fulcrum is sought in every trade until it is found, and then read.
fulcrum(bs, q, s, p) ==
  LET Read(t) == readAt(q, t, t.fHigh, t.fLow, p)
      Found(t) == IF t.fLocated THEN Read(extendWings(bs, t, p)) ELSE t
  IN  IF ~q.trade THEN s
      ELSE Found(IF ~s.fLocated /\ p.fMinVol > 0 THEN identifyFulcrum(bs, s, p) ELSE s)

readClose(q, s, p) ==
  IF p.fMinVol = 0 /\ q.trade THEN readAt(q, s, s.close, s.close, p) ELSE s

byClose(bs, q, s, p) ==
  IF ~p.closeTrades \/ s.on THEN s
  ELSE IF s.disp <= p.largeDisp THEN closeOutside(bs, s, p) ELSE closeInside(bs, q, s, p)

byCram(q, s, p) ==
  IF ~p.cramMode \/ s.on \/ s.disp > p.largeDisp THEN s
  ELSE IF q.bid >= s.high
  THEN IF s.upT /\ Allowed(s, "Buy") THEN initialCram("Buy", s.high, q, s, p) ELSE s
  ELSE IF q.ask <= s.low /\ s.downT /\ Allowed(s, "Sell")
  THEN initialCram("Sell", s.low, q, s, p) ELSE s

fired_SameSideAgain(s) ==
  IF ~s.on THEN s
  ELSE [Signal(tClear(s), s.side) EXCEPT !.prevIndex = s.index, !.prevSide = s.side]

\* A side is fired once off a tBar, and the tBar is then given up.
fired(s) ==
  IF ~s.on THEN s
  ELSE IF s.prevIndex = s.index /\ s.prevSide = s.side THEN [Off(s) EXCEPT !.twice = TRUE]
  ELSE [Signal(tClear(s), s.side) EXCEPT !.prevIndex = s.index, !.prevSide = s.side]

transition(bs, swings, trends, q, s, p) ==
  LET i == Len(bs) - 1
      Tried(t) == fired(byCram(q, byClose(bs, q, readClose(q, fulcrum(bs, q, t, p), p), p), p))
      Located(t) == IF q.late THEN tClear([t EXCEPT !.timedOut = t.index])
                    ELSE IF i > t.index + p.maxBars THEN tClear(t) ELSE Tried(t)
  IN IF i < 2 \/ bs[i].close = Inv \/ (p.filter /\ <<>> \in {swings, trends}) THEN Off(s)
     ELSE IF ~s.located THEN locate(bs, swings, trends, Off(s), p)
     ELSE Located(widen(bs, Off(s)))

================================================================================
