------------------------------ MODULE MCPositions ------------------------------
(* Instances of Positions for TLC: every stop processor with its own market, *)
(* the cycle, and the profit and loss of two strategies in two instruments.  *)
EXTENDS Positions

\* A trade in a book one tick wide, with the sizes of the levels; a quote without one.
T(x, side, size, bs, as) ==
  LET b == IF side = "Sell" THEN x ELSE x - 1
  IN [price |-> x, size |-> size, side |-> side, trade |-> TRUE, late |-> FALSE,
      bid |-> b, ask |-> b + 1,
      bids |-> <<[p |-> b, s |-> bs], [p |-> b - 1, s |-> 2]>>,
      asks |-> <<[p |-> b + 1, s |-> as], [p |-> b + 2, s |-> 2]>>]

Book(b, bs, as) == [T(b, "Sell", 0, bs, as) EXCEPT !.price = Inv, !.side = "None", !.trade = FALSE]

Trades(X, size) == {T(x, side, size, 2, 2) : x \in X, side \in {"Buy", "Sell"}}

Far == 1000 * Unit
Loose == [realized |-> Far, unrealized |-> Far, total |-> Far,
          realizedDrawdown |-> Far, unrealizedDrawdown |-> Far]

P0 == [stopTicks |-> 2, fee |-> 0, minQty |-> 2, cycle |-> 0, endOfDay |-> 0,
       smallQty |-> 0, leanSmall |-> 0, leanQty |-> 1, ignoreRatio |-> 0, leanRatio |-> <<1, 3>>,
       leanDelta |-> <<1, 2>>, paranoid |-> 0, ignoreDelta |-> 0]

BarsP == P0 @@ [startTicks |-> 0, barsToStart |-> 0, mode |-> "Close", betterBar |-> TRUE, offset |-> 1]
DefenseP == P0 @@ [dbBars |-> 1, dbMode |-> "CurrentBar", offset |-> 1]
CramBarP == P0 @@ [initialTicks |-> 1]
EdgeP == P0 @@ [profit1 |-> 0, profit2 |-> 2, payup1 |-> 1, payup2 |-> -1]
TrailP == P0 @@ [begin |-> 1, trail |-> 1]
RatioP == P0 @@ [rcTicks |-> 0, volFor |-> 2, ratioFor |-> <<1, 1>>, forStop |-> 1]
RiskP == P0 @@ [rcTicks |-> 0, volAgainst |-> 2, ratioAgainst |-> <<1, 1>>, againstStop |-> 1]
CramStopP == P0 @@ [initialOff |-> FALSE, eval |-> 0, pop |-> 2, initialFirm |-> 1, initialVol |-> 2,
                    initialRatio |-> <<1, 1>>, initialOffset |-> 1, firmQty |-> 1,
                    firmOffset |-> 0, slideRatio |-> <<0, 1>>, minDisp |-> 1]
IceP == P0 @@ [minMax |-> 2, minVolume |-> 2, ratio |-> <<1, 1>>, away |-> 2,
               forTicks |-> 1, againstTicks |-> 0]
CycleP == [P0 EXCEPT !.cycle = 4, !.endOfDay = 12]
          @@ [lower |-> 1, upper |-> 3, late |-> 2, anchor |-> TRUE, slideLower |-> 1, slideUpper |-> 0,
              profitLower |-> 1, profitUpper |-> 2, profitPayup |-> 1]

C(proc, p, quotes, nq, nb) ==
  [proc |-> proc, p |-> p, quotes |-> quotes, others |-> {}, starts |-> {0},
   rebuilt |-> {[pos |-> 0, avg |-> 0]}, account |-> Loose, strategy |-> Loose,
   left |-> [quotes |-> nq - 1, flat |-> 1, orders |-> 2, bars |-> nb]]

\* The stop processors and trackers.
StopConfigs ==
  <<C("BarsTrailing", BarsP, Trades({-2, 0, 2}, 2), 4, 2),
    C("BarsTrailing", [BarsP EXCEPT !.betterBar = FALSE, !.mode = "Off"], Trades({-1, 1}, 1), 4, 3),
    C("DefenseBars", DefenseP, Trades({-1, 1}, 1), 4, 2),
    C("DefenseBars", [DefenseP EXCEPT !.dbMode = "FillBar"], Trades({-1, 1}, 1), 4, 2),
    C("CramBar", CramBarP, Trades({-1, 0, 1}, 1) \cup {Book(0, 2, 2)}, 5, 1),
    C("InitialEdge", EdgeP, Trades({-2, 0, 2}, 1) \cup {Book(1, 1, 3)}, 5, 0),
    C("Trailing", [TrailP EXCEPT !.stopTicks = 0], Trades({-1, 1, 3}, 1) \cup {Book(2, 3, 1)}, 5, 0),
    C("RatioCram", RatioP, Trades({-1, 1}, 2) \cup {Book(0, 2, 2)}, 5, 0),
    C("RiskDefense", RiskP, Trades({-1, 1}, 2) \cup {Book(0, 2, 2)}, 5, 0),
    C("CramStop", CramStopP, Trades({-1, 1, 2}, 1), 5, 1),
    C("CramStop", [CramStopP EXCEPT !.slideRatio = <<1, 2>>, !.initialFirm = 3],
      {T(x, side, 1, 3, 3) : x \in {0, 1, 2}, side \in {"Buy", "Sell"}}, 5, 1),
    C("Iceberg", IceP, Trades({0, 1}, 2) \cup {Book(0, 2, 2), Book(0, 1, 2)}, 5, 0),
    [C("Cycle", CycleP, Trades({-1, 1}, 1), 2, 0) EXCEPT !.starts = {0, 1, 2, 3}],
    C("Volume", P0, {[T(x, "Buy", 1, 2, 2) EXCEPT !.side = "None", !.bid = 0, !.ask = 2] : x \in 0..2}
                    \cup Trades({0, 2}, 1) \cup {[T(3, "Buy", 1, 2, 2) EXCEPT !.bid = 0, !.ask = 2]}, 4, 0)>>

\* Two strategies through the loss limits.
PnlConfigs ==
  <<[C("None", P0, {Book(-4, 1, 1), Book(4, 1, 1)}, 2, 0) EXCEPT
       !.p.fee = 1, !.left.orders = 3,
       !.rebuilt = {[pos |-> x, avg |-> 0] : x \in {0, 1}},
       !.account = [Loose EXCEPT !.total = 2 * Unit, !.realizedDrawdown = 3 * Unit],
       !.strategy = [Loose EXCEPT !.unrealized = Unit],
       !.others = {[s |-> s, i |-> Instr, side |-> x, qty |-> n, price |-> y] :
                     s \in {Own}, x \in {"Buy", "Sell"}, n \in {1, 2}, y \in {-3, 3}}
                  \cup {[s |-> "b", i |-> Instr, side |-> x, qty |-> 1, price |-> 3] : x \in {"Buy", "Sell"}}
                  \cup {[s |-> Own, i |-> "j", side |-> "Buy", qty |-> 1, price |-> 0]}]>>

MCConfigs == StopConfigs \o PnlConfigs
================================================================================
