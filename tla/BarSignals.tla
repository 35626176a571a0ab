------------------------------- MODULE BarSignals -------------------------------
(***************************************************************************)
(* Signals read off the bars: the soldier, wick, cram, piercing/engulfing  *)
(* and hook reversal processors, the Keltner band, the ATR pricing and the *)
(* market activity processor.                                              *)
(*                                                                         *)
(* A processor is a function of the bars, of what it keeps from call to    *)
(* call (s) and of its parameters (p); it returns what it keeps, with the  *)
(* answer of the call in s.on and s.side.  A ratio parameter is a pair of  *)
(* a numerator and a denominator, and so are the double values compared    *)
(* with it.  The bar that is looked at is the last one but the open one.   *)
(***************************************************************************)
EXTENDS BarPatterns

\* TypeWrap arithmetic: an unset operand makes the result unset.
Plus(a, b) == IF Inv \in {a, b} THEN Inv ELSE a + b

Minus(a, b) == IF Inv \in {a, b} THEN Inv ELSE a - b

rangeOf(b) == Minus(b.high, b.low)

\* a / b against the ratio r, for b >= 0.
Below(a, b, r) == a * r[2] < r[1] * b

Above(a, b, r) == a * r[2] > r[1] * b

OrOne(x) == IF x > 0 THEN x ELSE 1

Distance(a, b) == IF a > b THEN a - b ELSE b - a

Off(s) == [s EXCEPT !.on = FALSE, !.side = "Unknown"]

Signal(s, side) == [s EXCEPT !.on = TRUE, !.side = side]

--------------------------------------------------------------------------------
(***************************************************************************)
(* SoldierSignalProcessor: three bars that march the same way              *)
(***************************************************************************)

soldier(bs, s, p) ==
  LET n == Len(bs)
      b1 == bs[n - 3]  b2 == bs[n - 2]  b3 == bs[n - 1]
      Body(b) == b.close - b.open
      up == Body(b3) > 0
      wick == IF up THEN b3.high - b3.close ELSE b3.close - b3.low
      total == b3.close - b1.open
      Flawed == Above(wick, OrOne(rangeOf(b3) - wick), p.rejWick)
      UpTrend == Body(b2) > 0 /\ Body(b1) > 0 /\ total >= p.minTotal
      DownTrend == Body(b2) < 0 /\ Body(b1) < 0 /\ total <= -p.minTotal
      UpCloses == /\ b2.close >= b1.close + p.better /\ b3.close >= b2.close + p.better
                  /\ ~(p.rejSmaller /\ Body(b3) < Body(b2) /\ Body(b3) < Body(b1))
      DownCloses == /\ b2.close <= b1.close - p.better /\ b3.close <= b2.close - p.better
                    /\ ~(p.rejSmaller /\ Body(b3) > Body(b2) /\ Body(b3) > Body(b1))
      UpLevel == IF total > p.cutoff THEN b3.open + p.payup ELSE 0
      DownLevel == IF total < -p.cutoff THEN b3.open - p.payup ELSE 0
  IN IF \/ n < 4 \/ Inv \in {b1.close, b2.close, b3.close}
        \/ Flawed \/ Body(b3) = 0 \/ ~(IF up THEN UpTrend ELSE DownTrend)
     THEN Off(s)
     ELSE LET t == [s EXCEPT !.level = IF up THEN UpLevel ELSE DownLevel]
          IN  IF ~(IF up THEN UpCloses ELSE DownCloses) THEN Off(t)
              ELSE Signal(t, IF up THEN "Buy" ELSE "Sell")

--------------------------------------------------------------------------------
(***************************************************************************)
(* WickSignalProcessor: a bar rejected at the extreme of a swing           *)
(***************************************************************************)

wick(bs, swing, s, p) ==
  LET n == Len(bs)
      i == n - 1
      bar == bs[i]
      dir == DirOf(bar)
      size == swing.high - swing.low
      lower == (IF bar.open > bar.close THEN bar.close ELSE bar.open) - bar.low
      upper == bar.high - (IF bar.open > bar.close THEN bar.open ELSE bar.close)
      Long(w) == ~Below(w, OrOne(IF p.useBody THEN Distance(bar.open, bar.close)
                                 ELSE rangeOf(bar) - w), p.wickToBody)
      Inside == {k \in swing.first..(i - 1) : k \in DOMAIN bs}
      AtLow == /\ ~(p.barDir = "Same" /\ dir = "Up") /\ ~(p.barDir = "Opposite" /\ dir = "Down")
               /\ swing.loAt = i /\ Long(lower)
               /\ p.outside => \A k \in Inside : bar.low + lower <= bs[k].close
      AtHigh == /\ ~(p.barDir = "Same" /\ dir = "Down") /\ ~(p.barDir = "Opposite" /\ dir = "Up")
                /\ swing.hiAt = i /\ Long(upper)
                /\ p.outside => \A k \in Inside : bar.high - upper >= bs[k].close
  IN IF \/ n < 3 \/ swing.first = swing.last \/ size < p.minPattern
        \/ rangeOf(bar) < p.minBar \/ Above(rangeOf(bar), size, p.barToSwing)
     THEN Off(s)
     ELSE CASE swing.dir = "Down" /\ AtLow -> Signal(s, "Buy")
            [] swing.dir = "Up" /\ AtHigh -> Signal(s, "Sell")
            [] OTHER -> Off(s)

\* isSignalValid: whether a signal still holds in the bar after it, and whether the
\* price has come back over the close of its bar.
wickValid(bs, active, side, p) ==
  LET n == Len(bs)
      now == bs[n]
      signal == bs[n - 1]
      Away == IF side = "Buy" THEN now.low < signal.close - p.maxAway
                              ELSE now.high > signal.close + p.maxAway
      Back == IF side = "Buy" THEN active > signal.close ELSE active < signal.close
  IN CASE ~p.validate -> [valid |-> TRUE, place |-> TRUE]
       [] p.validate /\ active = Inv -> [valid |-> TRUE, place |-> FALSE]
       [] OTHER ->
            IF n < 2 \/ side = "Unknown" THEN [valid |-> FALSE, place |-> FALSE]
            ELSE IF now.close = Inv THEN [valid |-> TRUE, place |-> FALSE]
            ELSE [valid |-> signal.close # Inv /\ ~Away,
                  place |-> signal.close # Inv /\ ~Away /\ Back]

--------------------------------------------------------------------------------
(***************************************************************************)
(* CramSignalProcessor: a firm level in a long bar that is traded through  *)
(***************************************************************************)

\* The first level of the book, from the top, that is firm, better than the one
\* kept, and not deeper in the bar than a share of its range.
cramLevel(bar, levels, up, s, p) ==
  LET Better(x) == s.cram = Inv \/ (IF up THEN x > s.cram ELSE x < s.cram)
      Deep(x) == Above(IF up THEN bar.high - x ELSE x - bar.low, rangeOf(bar), p.depth)
      firm == {k \in DOMAIN levels : levels[k].s > p.firmQty /\ Better(levels[k].p)
                                     /\ ~Deep(levels[k].p)}
  IN  IF firm = {} THEN s.cram ELSE levels[Min(firm)].p

cram(bs, q, s, p) ==
  LET i == Len(bs)
      bar == bs[i]
      fresh == IF s.bar = i THEN s ELSE [s EXCEPT !.bar = i, !.cram = Inv]
      up == DirOf(bar) = "Up"
      t == [fresh EXCEPT !.cram = cramLevel(bar, IF up THEN q.bids ELSE q.asks, up, fresh, p)]
      Through == IF up THEN q.price < t.cram ELSE q.price > t.cram
  IN IF rangeOf(bar) < p.minBar \/ s.last = i THEN Off(s)
     ELSE IF DirOf(bar) = "Unknown" THEN Off(fresh)
     ELSE IF t.cram = Inv \/ q.price = Inv \/ ~Through THEN Off(t)
     ELSE Signal([t EXCEPT !.last = i], IF up THEN "Sell" ELSE "Buy")

--------------------------------------------------------------------------------
(***************************************************************************)
(* KeltnerBandProcessor: the trade bias after breaks of the band           *)
(***************************************************************************)

\* The average close and the bounds, all over one denominator; empty when there
\* are too few bars or the bar has no close.
keltnerBand(bs, p) ==
  LET size == Len(bs) - 1
      closed == SubSeq(bs, 1, size)
      used == {k \in (size - p.periods + 1)..size : closed[k].close # Inv}
      sum == MapThenSumSet(LAMBDA k : closed[k].close, used)
      count == Cardinality(used)
      atr == calculateAtr(closed, p.atrPeriods)
      band == p.mult[1] * atr[1] * count
      mid == sum * p.mult[2] * atr[2]
  IN IF size < p.periods \/ closed[size].close = Inv THEN <<>>
     ELSE <<[upper |-> mid + band, lower |-> mid - band,
             den |-> count * p.mult[2] * atr[2], atr |-> atr]>>

checkIsSameBreak(info, s) ==
  \/ info.bias = "Long" /\ s.pos = "High" /\ info.price > Last(s.infos).price
  \/ info.bias = "Short" /\ s.pos = "Low" /\ info.price < Last(s.infos).price

\* The extreme an old break must be overcome by, once three breaks are known.
oldBreak(info, s) ==
  LET a == s.infos[1]  c == s.infos[3]
  IN IF Last(s.infos).bias # info.bias THEN s.infos[2]
     ELSE IF info.bias = "Long" THEN (IF a.price > c.price THEN a ELSE c)
     ELSE (IF a.price < c.price THEN a ELSE c)

checkStateChangeForPattern(bar, old) ==
  \/ old.bias = "Long" /\ old.price < bar.close
  \/ old.bias = "Short" /\ old.price > bar.close

\* Where the bar is: through the band in the direction it closed, or in between.
bandPosition(bar, band) ==
  IF bar.high * band.den > band.upper /\ DirOf(bar) # "Down" THEN "High"
  ELSE IF bar.low * band.den < band.lower /\ DirOf(bar) # "Up" THEN "Low"
  ELSE "Middle"

\* The breaks known after one more, info: the same one further on, or another.
bandBreak(bar, info, pos, s) ==
  LET same == s.infos # <<>> /\ Last(s.infos).bias = info.bias
      extended == [s EXCEPT !.infos[Len(s.infos)].price = info.price]
      Moved(infos, bias) == [s EXCEPT !.infos = infos, !.bias = bias, !.on = TRUE, !.pos = pos]
  IN IF same /\ checkIsSameBreak(info, s)
     THEN IF Len(s.infos) = 1 THEN [extended EXCEPT !.bias = info.bias] ELSE extended
     ELSE CASE Len(s.infos) = 0 -> Moved(<<info>>, info.bias)
            [] Len(s.infos) = 1 -> IF same THEN [s EXCEPT !.bias = info.bias]
                                   ELSE Moved(Append(s.infos, info), info.bias)
            [] Len(s.infos) = 2 -> IF same THEN Moved(<<info>>, s.bias)
                                   ELSE Moved(Append(s.infos, info), "NoTrades")
            [] OTHER -> IF checkStateChangeForPattern(bar, oldBreak(info, s))
                        THEN Moved(<<info>>, info.bias) ELSE s

keltner(bs, s, p) ==
  LET i == Len(bs) - 1
      Placed(t, pos) ==
        CASE pos = "High" -> bandBreak(bs[i], [bias |-> "Long", price |-> bs[i].high], pos, t)
          [] pos = "Low" -> bandBreak(bs[i], [bias |-> "Short", price |-> bs[i].low], pos, t)
          [] OTHER -> [t EXCEPT !.pos = pos]
      Banded(t, band) ==
        IF band = <<>> THEN t
        ELSE Placed([t EXCEPT !.band = band], bandPosition(bs[i], band[1]))
  IN IF i < 1 \/ s.last = i THEN Off(s)
     ELSE Banded([Off(s) EXCEPT !.last = i], keltnerBand(bs, p))

--------------------------------------------------------------------------------
(***************************************************************************)
(* ATRPricingProcessor                                                     *)
(***************************************************************************)

\* The offsets, cut to whole ticks; refused when an exit is configured and rounds
\* to nothing.
exitOffset(atr, p) == (p.exit[1] * atr[1]) \div (p.exit[2] * OrOne(atr[2]))

entryOffset(atr, p) == (p.entry[1] * atr[1]) \div (p.entry[2] * OrOne(atr[2]))

calcPriceOffsets(atr, p) == ~(exitOffset(atr, p) = 0 /\ p.exit[1] # 0)

getEnterOrderPrice(price, s, p) ==
  IF p.entry[1] = 0 THEN price
  ELSE IF s.side = "Buy" THEN Minus(price, s.entryOffset) ELSE Plus(price, s.entryOffset)

\* Whether an entry order at "price" moves, and where to, when the market is at
\* newPrice.
shouldModifyEnterOrder(price, newPrice, s, p) ==
  LET to == getEnterOrderPrice(newPrice, s, p)
  IN IF p.entry[1] = 0 THEN <<newPrice>>
     ELSE IF ~p.dynamic \/ (s.side = "Buy" /\ to <= price) \/ (s.side = "Sell" /\ to >= price)
     THEN <<>> ELSE <<to>>

shouldModifyExitOrder(price, newPrice, side, s, p) ==
  LET to == IF side = "Buy" THEN Minus(newPrice, s.exitOffset) ELSE Plus(newPrice, s.exitOffset)
  IN IF \/ p.exit[1] = 0 \/ ~p.dynamic
        \/ (side = "Buy" /\ to <= price) \/ (side = "Sell" /\ to >= price)
     THEN <<>> ELSE <<to>>

--------------------------------------------------------------------------------
(***************************************************************************)
(* The reversals.  clearState makes the bar count as not processed: either *)
(* it is tried again at once as a first bar, or at the next quote.         *)
(***************************************************************************)

\* The checks a first bar passes for both of them.
FirstBar(bar, i, swing, trend, p) ==
  /\ isHLOCValid(bar) /\ swing.dir # "Unknown"
  /\ DirOf(bar) = swing.dir
  /\ rangeOf(bar) >= p.firstMin
  /\ ~(p.style = "InTrend" /\ swing.dir = trend.dir)
  /\ extremeAt(swing) = i

priced(t, side, band, p, i) ==
  LET atr == IF band = <<>> THEN <<0, 0>> ELSE band[1].atr
  IN IF ~calcPriceOffsets(atr, p)
     THEN [t EXCEPT !.on = FALSE, !.side = side, !.exitOffset = 0, !.last = i - 1, !.state = "Unknown"]
     ELSE [Signal(t, side) EXCEPT !.exitOffset = exitOffset(atr, p),
             !.entryOffset = entryOffset(atr, p), !.state = "Unknown"]

\* A retracement by a share of the first bar, counted from its extreme.  A bar
\* without trades, its close the least integer, has retraced a rise but not a fall.
Retraced(first, bar, up, share) ==
  IF up THEN bar.close = Inv \/ (first.high - bar.close) * share[2] >= share[1] * rangeOf(first)
        ELSE bar.close # Inv /\ (bar.close - first.low) * share[2] >= share[1] * rangeOf(first)

piercing(bs, swings, trends, band, s, p) ==
  LET i == Len(bs) - 1
      bar == bs[i]
      first == bs[i - 1]
      swing == Last(swings)
      up == DirOf(first) = "Up"
      t == [s EXCEPT !.on = FALSE, !.last = i]
      Full == p.firstBody[1] > 0 => ~Below(Distance(bar.close, bar.open), rangeOf(bar), p.firstBody)
      asFirst == IF FirstBar(bar, i, swing, Last(trends), p) /\ Full
                 THEN [t EXCEPT !.trigger = i, !.state = "First"]
                 ELSE [t EXCEPT !.state = "Unknown"]
      OpensBeyond == IF up THEN bar.open > first.high ELSE bar.open < first.low
      Second == /\ DirOf(first) # DirOf(bar)
                /\ p.lowerOpen => OpensBeyond
                /\ Retraced(first, bar, up, p.retrace)
  IN IF Len(bs) < 2 \/ swings = <<>> \/ trends = <<>> \/ s.last = i THEN [s EXCEPT !.on = FALSE]
     ELSE IF s.state = "Unknown" \/ ~Second THEN asFirst
     ELSE priced(t, IF up THEN "Sell" ELSE "Buy", band, p, i)

hook(bs, swings, trends, band, s, p) ==
  LET i == Len(bs) - 1
      bar == bs[i]
      swing == Last(swings)
      t == [s EXCEPT !.on = FALSE, !.last = i]
      cleared == [t EXCEPT !.last = i - 1, !.state = "Unknown"]
      Body(b) == IF swing.dir = "Up" THEN b.close - b.open ELSE b.open - b.close
      OutOfBand == IF band = <<>> THEN (IF swing.dir = "Up" THEN bar.high > 0 ELSE bar.low < 0)
                   ELSE IF swing.dir = "Up" THEN bar.high * band[1].den > band[1].upper
                   ELSE bar.low * band[1].den < band[1].lower
      First == /\ FirstBar(bar, i, swing, Last(trends), p)
               /\ p.style = "KeltnerBand" => OutOfBand
               /\ ~Below(Body(bar), rangeOf(bar), p.firstBody)
      asFirst == IF First THEN [t EXCEPT !.trigger = i, !.swing = swing.index, !.state = "First"]
                 ELSE [t EXCEPT !.state = "Unknown"]
      Extreme == extremeAt(swing) = i \/ (isHLOCValid(bar) /\ bar.open = bar.close)
      Second == /\ ~Above(Body(bar), rangeOf(bar), p.secondBody)
                /\ Distance(bs[i - 1].close, bs[i - 1].open) >= Distance(bar.close, bar.open)
      first == bs[i - 2]
      up == DirOf(first) = "Up"
      Third == /\ DirOf(first) # DirOf(bar)
               /\ Retraced(first, bar, up, p.retrace)
               /\ IF up THEN bar.high <= bs[i - 1].high ELSE bar.low >= bs[i - 1].low
  IN IF Len(bs) < 2 \/ swings = <<>> \/ trends = <<>> \/ s.last = i THEN [s EXCEPT !.on = FALSE]
     ELSE CASE s.state = "Unknown" -> asFirst
            [] s.state = "First" ->
                 IF swing.index # s.swing \/ ~Extreme THEN cleared
                 ELSE IF Second THEN [t EXCEPT !.state = "Second"] ELSE asFirst
            [] OTHER ->
                 IF Third THEN priced(t, IF up THEN "Sell" ELSE "Buy", band, p, i) ELSE asFirst

\* turnSignalOff: a signal is given up some bars after its first bar, "extra" being
\* the bars of the pattern after it.
turnSignalOff(bs, s, extra, p) == Len(bs) - (s.trigger + extra) > p.barsToWork

--------------------------------------------------------------------------------
(***************************************************************************)
(* MarketActivityProcessor: on with a long, volatile or heavy bar, off     *)
(* when the volume of the last bars falls against what came before.        *)
(***************************************************************************)

cumVol(bs, count, offset) ==
  MapThenSumSet(LAMBDA k : bs[k].volume,
                {k \in DOMAIN bs : k \in (Len(bs) - offset - count + 1)..(Len(bs) - offset)})

activity(bs, s, p) ==
  LET n == Len(bs)
      bar == bs[n - 1]
      t == [s EXCEPT !.last = n - 1]
      Starts == \/ rangeOf(bar) # Inv /\ rangeOf(bar) >= p.minDisp /\ bar.volume >= p.minVol
                \/ ~Below(bar.atr[1], OrOne(bar.atr[2]), p.atrRequired)
                \/ bar.volume >= p.volToEnter
      before == n - 1 - (s.from + p.interval)
      exitVol == cumVol(bs, p.interval, 1) \div p.interval
      onVol == cumVol(bs, before, 1 + p.interval) \div before
  IN IF n - 1 = s.last THEN s
     ELSE IF n < 3 THEN t
     ELSE IF ~s.active THEN IF Starts THEN [t EXCEPT !.active = TRUE, !.from = n - 2] ELSE t
     ELSE IF s.from + p.interval > n - 2 THEN t
     ELSE IF Below(exitVol, onVol, p.mult) THEN [t EXCEPT !.active = FALSE] ELSE t

================================================================================
