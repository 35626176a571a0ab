------------------------------ MODULE BarPatterns ------------------------------
(***************************************************************************)
(* Bars and the patterns in them: the functions of BarsManager and of its  *)
(* BarPatterns classes that work on the bars they are given.               *)
(*                                                                         *)
(* A ticks value that was never set is the least integer, as in the code,  *)
(* so that comparisons with it give what they give there.  _range and _dir *)
(* follow from the other fields of a bar and are not kept.                 *)
(***************************************************************************)
EXTENDS Integers, Sequences, FiniteSets, SequencesExt, FiniteSetsExt

\* An unset Ticks: std::numeric_limits<int32_t>::min().
Inv == (-(2^30)) * 2

--------------------------------------------------------------------------------
(***************************************************************************)
(* Bars                                                                    *)
(***************************************************************************)

NoVol == [bid |-> 0, ask |-> 0]

\* Bar(), as createNewBar leaves it.
NewBar == [n |-> 0, high |-> Inv, low |-> Inv, open |-> Inv, close |-> Inv,
           volume |-> 0, vol |-> NoVol, trades |-> <<>>,
           atr |-> <<0, 0>>, formed |-> FALSE]

isHLOCValid(x) == Inv \notin {x.high, x.low, x.open, x.close}

\* Which side a trade is counted on.
updateTrade(vol, q) ==
  CASE q.side = "Buy"  -> [vol EXCEPT !.ask = @ + q.size]
    [] q.side = "Sell" -> [vol EXCEPT !.bid = @ + q.size]
    [] OTHER -> IF q.price <= q.bid THEN [vol EXCEPT !.bid = @ + q.size]
                ELSE IF q.price >= q.ask THEN [vol EXCEPT !.ask = @ + q.size]
                ELSE vol

updateTradesMaps(map, q) ==
  [p \in DOMAIN map \cup {q.price} |->
     LET was == IF p \in DOMAIN map THEN map[p] ELSE NoVol
     IN  IF p = q.price THEN updateTrade(was, q) ELSE was]

Traded(q) == q.ok /\ q.trade

\* The free onQuote: a normal trade of a good quote goes into the bar.
onQuoteBar(q, b) ==
  [b EXCEPT !.n = @ + 1,
            !.open = IF b.n = 0 THEN q.price ELSE @,
            !.high = IF b.n = 0 \/ q.price > @ THEN q.price ELSE @,
            !.low = IF b.n = 0 \/ q.price < @ THEN q.price ELSE @,
            !.close = q.price,
            !.volume = @ + q.size,
            !.vol = updateTrade(@, q),
            !.trades = updateTradesMaps(@, q)]

\* A true range: it reaches to the close of the bar before, if that has one.
TrueRange(bs, i) ==
  IF i = 1 \/ ~isHLOCValid(bs[i - 1]) THEN bs[i].high - bs[i].low
  ELSE Max({bs[i].high, bs[i - 1].close}) - Min({bs[i].low, bs[i - 1].close})

\* The average true range as a sum and a count; no-trade bars take a period.
calculateAtr(bs, periods) ==
  LET used == {i \in 1..Len(bs) : i > Len(bs) - periods /\ isHLOCValid(bs[i])}
  IN  <<MapThenSumSet(LAMBDA i : TrueRange(bs, i), used), Cardinality(used)>>

withAtr(bs, periods) ==
  IF periods = 0 THEN bs ELSE [bs EXCEPT ![Len(bs)].atr = calculateAtr(bs, periods)]

--------------------------------------------------------------------------------
(***************************************************************************)
(* Patterns.  A list of patterns is a sequence; HLOC is a bar or a pattern.*)
(***************************************************************************)

getPatternDir(x) ==
  IF x.open < x.close THEN "Up" ELSE IF x.open > x.close THEN "Down" ELSE "Unknown"

\* A pattern keeps the _dir it was added with; a bar's follows its prices.
DirOf(x) == IF "dir" \in DOMAIN x THEN x.dir ELSE getPatternDir(x)

addPattern(ps, type, x, index) ==
  IF ~isHLOCValid(x) THEN ps
  ELSE Append(ps,
         [type |-> type, dir |-> getPatternDir(x),
          high |-> x.high, low |-> x.low, open |-> x.open, close |-> x.close,
          volume |-> x.volume, first |-> index, last |-> index,
          hiAt |-> index, loAt |-> index, index |-> Len(ps) + 1,
          dirty |-> TRUE, hitches |-> 0, swingLast |-> 0,
          trend |-> <<>>, counter |-> <<>>])

updatePattern(p, x, index) ==
  IF ~isHLOCValid(x) THEN p
  ELSE [p EXCEPT
    !.dirty = TRUE,
    !.volume = @ + x.volume,
    !.high = Max({@, x.high}),
    !.hiAt = IF p.high < x.high \/ (p.high = x.high /\ index < @) THEN index ELSE @,
    !.low = Min({@, x.low}),
    !.loAt = IF p.low > x.low \/ (p.low = x.low /\ index < @) THEN index ELSE @,
    !.last = Max({@, index}),
    !.close = IF index > p.last THEN x.close ELSE @,
    !.first = Min({@, index}),
    !.open = IF index < p.first THEN x.open ELSE @]

updateLast(ps, x, index) == [ps EXCEPT ![Len(ps)] = updatePattern(@, x, index)]

isExtremeBroken(p, x) ==
  \/ DirOf(p) = "Up" /\ x.low < p.low
  \/ DirOf(p) = "Down" /\ x.high > p.high

\* The bar numbers from, from - 1, ..., to.
Down(from, to) == [k \in 1..(from - to + 1) |-> from - k + 1]

\* BarPatternsSimple: swings, and the bars that do not go on with the last one.
processSimple(bs, ps) ==
  LET bar == Last(bs)
      index == Len(bs)
      dir == getPatternDir(bar)
      swings == {k \in DOMAIN ps : ps[k].type = "Swing"}
      k == Max(swings)
      swing == ps[k]
      Further == IF dir = "Up" THEN bar.high > swing.high /\ bar.low > swing.low
                               ELSE bar.high < swing.high /\ bar.low < swing.low
      Reverses == IF dir = "Down" THEN bar.close < bs[swing.last].low
                                  ELSE bar.close > bs[swing.last].high
  IN CASE bar.close = bar.open -> addPattern(ps, "Transitional", bar, index)
       [] bar.close # bar.open /\ swings = {} -> addPattern(ps, "Swing", bar, index)
       [] OTHER ->
            IF dir = swing.dir
            THEN IF ~Further THEN addPattern(ps, "Hitch", bar, index)
                 ELSE IF k = Len(ps) THEN updateLast(ps, bar, index)
                 ELSE addPattern(ps, "Swing", bar, index)
            ELSE addPattern(ps, IF Reverses THEN "Swing" ELSE "Hitch", bar, index)

\* The first swing of level 1 or trend of level 2 takes in everything before it,
\* unless something before it went further.
firstSwing(simple, type, index) ==
  LET swing == Last(simple)
      before == Reverse(Front(simple))
      Add(ps, x) == IF ps = <<>> THEN addPattern(ps, "Unknown", x, x.last)
                                 ELSE updateLast(ps, x, x.last)
      all == FoldLeft(Add, <<>>, before)
      Beyond == \/ swing.dir = "Up" /\ Last(all).high > swing.high
                \/ swing.dir = "Down" /\ Last(all).low < swing.low
  IN IF Len(simple) = 1 THEN addPattern(<<>>, type, swing, index)
     ELSE IF Beyond THEN <<>>
     ELSE <<[updatePattern(Last(all), swing, swing.last)
              EXCEPT !.dir = swing.dir, !.type = type]>>

\* The extreme of a pattern in its own direction.
extremeAt(p) == IF p.dir = "Up" THEN p.hiAt ELSE p.loAt

\* BarPatternsSwingLevel1::processSwing.  _simpleSwingLastBarIndex is read
\* through a reference that addPattern may have left dangling: "stale".
swingLevel1(bs, simple, ps, stale) ==
  LET index == Len(bs)
      swing == Last(simple)
      last == Last(ps)
      added == addPattern(ps, "Swing", swing, index)
      Take(qs, i) == updateLast(qs, bs[i], i)
      Inside(cur, bar) == \/ cur.dir = "Up" /\ bar.low > cur.low
                          \/ cur.dir = "Down" /\ bar.high < cur.high
      TakeOutside(a, i) ==
        IF a.done \/ Inside(Last(a.ps), bs[i]) THEN [a EXCEPT !.done = TRUE]
        ELSE [a EXCEPT !.ps = Take(@, i)]
  IN CASE ps = <<>> -> firstSwing(simple, "Swing", index)
       [] ps # <<>> /\ last.hitches > 0 ->
            FoldLeft(Take, added, Down(index - 1, stale + 1))
       [] ps # <<>> /\ last.hitches = 0 /\ last.last # index - 1 ->
            FoldLeft(TakeOutside, [ps |-> added, done |-> FALSE],
                     Down(index - 1, last.last + 2)).ps
       [] OTHER ->
            IF swing.dir = last.dir THEN updateLast(ps, Last(bs), index)
            ELSE IF extremeAt(last) >= index \/ extremeAt(last) < 1 THEN added
            ELSE FoldLeft(Take, added, Down(last.last, extremeAt(last)))

hitchLevel1(bs, simple, ps, hitchMax) ==
  LET x == Last(simple)
      last == Last(ps)
      counted == IF hitchMax < 0 THEN ps
                 ELSE [ps EXCEPT ![Len(ps)].swingLast = last.last,
                                 ![Len(ps)].hitches = @ + 1]
  IN IF ps = <<>> \/ (hitchMax >= 0 /\ last.hitches # 0) THEN ps
     ELSE IF isExtremeBroken(last, x) \/ x.last > last.last + 1 THEN counted
     ELSE updateLast(counted, x, Len(bs))

processLevel1(bs, simple, ps, junk, hitchMax) ==
  LET hitchLast == IF ps = <<>> THEN 0 ELSE Last(ps).swingLast
  IN  IF simple = <<>> THEN ps
      ELSE IF Last(simple).type = "Swing"
      THEN swingLevel1(bs, simple, ps, IF junk = Inv THEN hitchLast ELSE junk)
      ELSE hitchLevel1(bs, simple, ps, hitchMax)

\* BarPatternsSwingLevel2: trends, broken only when their extreme is.
doProcessSwing_FromFirst(bs, simple, ps) ==
  LET last == Last(ps)
      added == addPattern(ps, "Trend", Last(bs), Len(bs))
      Take(qs, i) == updateLast(qs, bs[i], i)
  IN IF ps = <<>> THEN firstSwing(simple, "Trend", Len(bs))
     ELSE IF Last(simple).dir = last.dir \/ ~isExtremeBroken(last, Last(bs))
     THEN updateLast(ps, Last(bs), Len(bs))
     ELSE FoldLeft(Take, added, Down(last.last, last.first))

doProcessSwing(bs, simple, ps) ==
  LET index == Len(bs)
      bar == Last(bs)
      last == Last(ps)
      added == addPattern(ps, "Trend", bar, index)
      Take(qs, i) == IF isExtremeBroken(last, bs[i]) THEN qs ELSE updateLast(qs, bs[i], i)
  IN IF ps = <<>> THEN firstSwing(simple, "Trend", index)
     ELSE IF Last(simple).dir = last.dir \/ ~isExtremeBroken(last, bar)
     THEN updateLast(ps, bar, index)
     ELSE IF extremeAt(last) >= index \/ extremeAt(last) < 1 THEN added
     ELSE FoldLeft(Take, added, Down(last.last, extremeAt(last)))

processTrendSwingIndex(p, swing) ==
  LET Push(s) == IF s # <<>> /\ Last(s) = swing.index THEN s ELSE Append(s, swing.index)
  IN  IF swing.dir = p.dir THEN [p EXCEPT !.trend = Push(@)]
                           ELSE [p EXCEPT !.counter = Push(@)]

swingLevel2(bs, simple, level1, ps) ==
  LET Inside(last) == SelectSeq(level1, LAMBDA s : s.first >= last.first)
      Listed(last) ==
        IF last.trend = <<>> /\ last.counter = <<>>
        THEN FoldLeft(processTrendSwingIndex, last, Inside(last))
        ELSE processTrendSwingIndex(last, Last(level1))
      List(qs) == IF qs = <<>> \/ level1 = <<>> THEN qs
                  ELSE [qs EXCEPT ![Len(qs)] = Listed(@)]
  IN  List(doProcessSwing(bs, simple, ps))

processLevel2(bs, simple, level1, ps) ==
  IF simple = <<>> THEN ps
  ELSE IF Last(simple).type = "Swing" THEN swingLevel2(bs, simple, level1, ps)
  ELSE IF ps = <<>> \/ isExtremeBroken(Last(ps), Last(simple)) THEN ps
  ELSE updateLast(ps, Last(simple), Len(bs))

\* The three levels, one after the other, over the lists of one instrument.
runLevels(bs, lists, junk, hitchMax) ==
  LET Level2(s, l1) == [Simple |-> s, Swing1 |-> l1,
                        Swing2 |-> processLevel2(bs, s, l1, lists.Swing2)]
      Level1(s) == Level2(s, processLevel1(bs, s, lists.Swing1, junk, hitchMax))
  IN  Level1(processSimple(bs, lists.Simple))

NoPatterns == [Simple |-> <<>>, Swing1 |-> <<>>, Swing2 |-> <<>>]

================================================================================
