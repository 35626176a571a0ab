------------------------------- MODULE MCSignals -------------------------------
(* Instances of Signals for TLC: every processor with its own market. *)
EXTENDS Signals

\* A trade in a book one tick wide, and a quote without a trade.
T(x, side, firm) ==
  [price |-> x, size |-> 2, side |-> side, trade |-> TRUE, late |-> FALSE,
   bid |-> IF side = "Sell" THEN x ELSE x - 1, ask |-> IF side = "Sell" THEN x + 1 ELSE x,
   bids |-> <<[p |-> IF side = "Sell" THEN x ELSE x - 1, s |-> firm]>>,
   asks |-> <<[p |-> IF side = "Sell" THEN x + 1 ELSE x, s |-> firm]>>]

Touch(b, firm) ==
  [T(b, "Sell", firm) EXCEPT !.price = Inv, !.side = "None", !.trade = FALSE, !.size = 0]

Late == [T(0, "Sell", 0) EXCEPT !.late = TRUE]

\* A closed bar that traded at the given prices, each from both sides.
B(xs) ==
  [FoldLeft(LAMBDA b, x : onQuoteBar(T(x, "Buy", 0), onQuoteBar(T(x, "Sell", 0), b)), NewBar, xs)
   EXCEPT !.formed = TRUE, !.atr = <<3, 1>>]

Up == B(<<-1, 1>>)
Dn == B(<<1, -1>>)
Doji == B(<<0, 2, -2, 0>>)
TopT == B(<<1, -1, 1>>)
BotT == B(<<-1, 1, -1>>)
Balanced == B(<<0, 1, -1, 1, -1, 0>>)
HamUp == B(<<1, 3, 2>>)
HamDn == B(<<-1, -3, -2>>)
UpBig == B(<<-2, 2>>)
DnBig == B(<<2, -2>>)
Gap == NewBar

Buys(X) == {T(x, "Buy", 3) : x \in X}
Sells(X) == {T(x, "Sell", 3) : x \in X}
Both(X) == Buys(X) \cup Sells(X)

C(proc, p, hist, quotes, perBar, maxBars) ==
  [proc |-> proc, p |-> p, hist |-> hist, quotes |-> quotes, perBar |-> perBar, maxBars |-> maxBars]

\* Closed bars that go up or down, level off or are empty.
Hists(n) == [1..n -> {Up, Dn, UpBig, DnBig, Gap}]

SoldierP == [rejWick |-> <<1, 1>>, minTotal |-> 1, better |-> 0, rejSmaller |-> TRUE,
             cutoff |-> 1, payup |-> 1, atrPeriods |-> 2]
WickP == [minPattern |-> 1, minBar |-> 1, barToSwing |-> <<1, 1>>, barDir |-> "Any",
          useBody |-> FALSE, wickToBody |-> <<1, 2>>, outside |-> TRUE,
          validate |-> TRUE, maxAway |-> 1, atrPeriods |-> 2]
CramP == [minBar |-> 1, firmQty |-> 2, depth |-> <<1, 2>>, atrPeriods |-> 2]
KeltnerP == [periods |-> 2, atrPeriods |-> 2, mult |-> <<1, 2>>]
ReversalP == [firstMin |-> 1, style |-> "Any", firstBody |-> <<1, 2>>, secondBody |-> <<1, 1>>,
              lowerOpen |-> FALSE, retrace |-> <<1, 2>>, entry |-> <<1, 2>>, exit |-> <<1, 2>>,
              dynamic |-> TRUE, barsToWork |-> 2, periods |-> 2, atrPeriods |-> 2, mult |-> <<1, 2>>]
ActivityP == [minDisp |-> 3, minVol |-> 4, atrRequired |-> <<9, 1>>, volToEnter |-> 8,
              interval |-> 1, mult |-> <<1, 1>>, atrPeriods |-> 2]
OpenP == [openTime |-> 2, closeTime |-> 9, minInside |-> 0, maxBars |-> 3, maxTries |-> 2,
          insideLimit |-> 2, initiate |-> 1, initiateLimit |-> 1, maxRange |-> 0, minVol |-> 0,
          minVolOut |-> 0, volRatio |-> <<1, 1>>, reqClose |-> FALSE, barsToExit |-> 1,
          stopBehind |-> 1, slide |-> 1, atrPeriods |-> 2]
RangeP == [OpenP EXCEPT !.minInside = 1, !.maxRange = 4, !.minVol = 4, !.minVolOut = 2]
ContP == [minDisp |-> 1, minVol |-> 1, minDispAtr |-> <<1, 2>>,
          atrRequired |-> <<1, 1>>, bodyToBar |-> <<1, 2>>,
          inSwing |-> TRUE, atSwing |-> TRUE, inTrend |-> FALSE, trendExtreme |-> FALSE,
          breakTrend |-> <<1, 2>>, flatClose |-> TRUE, maxPayup |-> 2, maxFlowback |-> 2,
          stopTicks |-> 0, flowbackStop |-> 1, flowback |-> TRUE, onGap |-> TRUE, minFor |-> 2,
          ratioFor |-> <<1, 1>>, ignoreClose |-> FALSE, confirm |-> 1, bias |-> "Neutral",
          atrPeriods |-> 2]
TransP == [filter |-> FALSE, minRange |-> 1, maxRange |-> 9, atrRequired |-> <<1, 1>>,
           stopTicks |-> 1, readMax |-> 3, readMin |-> 1, readRatio |-> <<1, 2>>, maxBars |-> 2,
           fMinVol |-> 0, fBars |-> 1, fLower |-> <<1, 4>>, fHigher |-> <<1, 1>>,
           fRatio |-> <<2, 1>>, breakVol |-> 6, closeTrades |-> FALSE, cramMode |-> FALSE,
           largeDisp |-> 4, outside |-> 3, cramEval |-> 0, cramMax |-> 2, cramFirm |-> 4,
           cramVol |-> 2, cramRatio |-> <<1, 1>>, tie |-> "Low", atrPeriods |-> 2]
FulcrumP == [TransP EXCEPT !.fMinVol = 4]

BarConfigs ==
  <<C("Soldier", SoldierP, Hists(3), Buys({0}), 1, 4),
   C("Wick", WickP, [1..3 -> {Up, Dn, HamUp, HamDn, Gap}], Both({-3, 3}), 2, 5),
   C("Cram", CramP, {<<>>}, Both({-1, 0, 2}), 3, 2),
   C("Keltner", KeltnerP, {<<>>}, Buys({-3, 0, 3}), 2, 5),
   C("Piercing", ReversalP, Hists(2), Buys({-2, 0, 2}), 2, 5),
   C("Hook", [ReversalP EXCEPT !.style = "KeltnerBand", !.mult = <<1, 8>>],
     {<<Up, B(<<0, 3>>)>>, <<Dn, B(<<0, -3>>)>>}, Buys({-3, -2, 2, 3}), 2, 5),
   C("Activity", ActivityP, Hists(2), Buys({-2, 2}), 2, 5),
   C("ORBreakout", OpenP, Hists(1), Both({-2, 2}), 2, 4),
   C("ORBreakout", RangeP, [1..2 -> {Up, Dn, UpBig}], Both({-2, 2}), 2, 5),
   C("Continuation", ContP, Hists(2), Both({-3, -1, 0, 1}) \cup {Touch(0, 1)}, 2, 4),
   C("Continuation", [ContP EXCEPT !.inTrend = TRUE, !.flowback = FALSE, !.stopTicks = 1],
     Hists(3), Both({-2, 1}), 2, 5)>>

TransitionConfigs ==
  <<C("Transition", TransP, {<<Up, Doji>>, <<Up, TopT>>, <<Dn, BotT>>, <<Doji, Doji>>},
     Both({-1, 2}) \cup {Late}, 3, 4),
   C("Transition", [TransP EXCEPT !.filter = TRUE, !.closeTrades = TRUE, !.readMax = 5, !.readMin = 9],
     {<<h, Doji>> : h \in {Up, Dn, UpBig, DnBig}}, Both({-3, 3}), 2, 4),
   C("Transition", [TransP EXCEPT !.closeTrades = TRUE, !.largeDisp = 1],
     {<<Up, Doji>>}, Both({-3, 0, 1}), 2, 4),
   C("Transition", [TransP EXCEPT !.cramMode = TRUE, !.readMin = 9], {<<Up, TopT>>, <<Up, BotT>>},
     Both({-2, 1, 2}) \cup {Touch(x, 4) : x \in {-3, 2}}, 3, 4),
   C("Transition", FulcrumP, {<<Up, Balanced>>}, Both({-1, 0, 2}), 3, 4)>>

MCConfigs == BarConfigs \o TransitionConfigs
================================================================================
