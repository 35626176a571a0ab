--------------------------------- MODULE MCBars ---------------------------------
(* Instances of Bars for TLC. *)
EXTENDS Bars

Q(p, side) == [price |-> p, size |-> 1, side |-> side, bid |-> 2, ask |-> 3,
               ok |-> TRUE, trade |-> TRUE]

\* Trades at the bid and at the ask, and one whose aggressor decides.
MCQuotes == {Q(1, "Buy"), Q(2, "None"), Q(3, "None")}

Conf(hitchMax, restore, save, nb, nt) ==
  [hitchMax |-> hitchMax, atrPeriods |-> 2, restore |-> restore,
   outputToDb |-> save, processPatterns |-> TRUE, maxBars |-> nb, maxTrades |-> nt]

MCConfigs ==
  {Conf(-1, "None", FALSE, 4, 2),    \* patterns over four bars
   Conf(0, "None", FALSE, 3, 2),     \* with hitches counted
   Conf(-1, "None", TRUE, 2, 2),     \* with the storage
   Conf(-1, "File", FALSE, 1, 3),    \* restored, the last bar open
   Conf(-1, "Db", FALSE, 1, 3)}      \* restored, the last bar formed

\* Four bars, up, down, up, and one left open with a single trade.
MCSwings == [k \in 1..7 |->
  [t |-> 60 * ((k - 1) \div 2) + k, q |-> Q(<<1, 2, 3, 1, 2, 3, 2>>[k], "None")]]

MCLogs == {MCSwings}

\* The value that was there, or one below or above every bar index.
MCJunk == {Inv, 0, 9}
================================================================================
