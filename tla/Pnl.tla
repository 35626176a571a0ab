---------------------------------- MODULE Pnl ----------------------------------
(***************************************************************************)
(* Profit and loss (PnL, PnLComposite, ProcessorPnL): what each strategy   *)
(* has made in each instrument, the totals of each strategy and of the     *)
(* account, and the loss limits new orders are held to.                    *)
(*                                                                         *)
(* A ledger has inst[s][i], strat[s] and acct.  An instrument's entry      *)
(* observes nothing; the strategy observes it and the account the          *)
(* strategy: a change is taken out of the totals before and put back after *)
(* it.  Prices and money are whole numbers of 1/Unit ticks, Unit being a   *)
(* multiple of every divisor an average price meets in the runs; a tick is *)
(* worth one.                                                              *)
(***************************************************************************)
EXTENDS Integers, FiniteSets, FiniteSetsExt

CONSTANTS Strategies, Instruments, Unit

Totals == [pos |-> 0, real |-> 0, unreal |-> 0, maxReal |-> 0, maxUnreal |-> 0,
           ddReal |-> 0, ddUnreal |-> 0, fees |-> 0]

\* clear: an entry without a fill, an average price or a theoretical value.
NoPnL == [pos |-> 0, real |-> 0, unreal |-> 0, maxReal |-> 0, maxUnreal |-> 0,
          ddReal |-> 0, ddUnreal |-> 0, fees |-> 0, avg |-> 0, tv |-> 0, isTVSet |-> FALSE]

NoLedger == [inst |-> [s \in Strategies |-> [i \in Instruments |-> NoPnL]],
             strat |-> [s \in Strategies |-> Totals], acct |-> Totals]

Abs(x) == IF x < 0 THEN -x ELSE x

--------------------------------------------------------------------------------
(***************************************************************************)
(* IPnL: the high-water marks and the drawdowns from them                  *)
(***************************************************************************)

\* updateRealizedPnL
markRealized(c) ==
  IF c.real > c.maxReal THEN [c EXCEPT !.maxReal = c.real, !.ddReal = 0]
  ELSE [c EXCEPT !.ddReal = c.maxReal - c.real]

\* updateUnrealizedPnL, for a position that counts as open or not.
markUnrealized(c, open) ==
  IF ~open THEN [c EXCEPT !.unreal = 0, !.maxUnreal = 0, !.ddUnreal = 0]
  ELSE IF c.unreal > c.maxUnreal THEN [c EXCEPT !.maxUnreal = c.unreal, !.ddUnreal = 0]
  ELSE [c EXCEPT !.ddUnreal = c.maxUnreal - c.unreal]

--------------------------------------------------------------------------------
(***************************************************************************)
(* PnL: one strategy in one instrument                                     *)
(***************************************************************************)

\* updateUnrealizedPnL and calculatePnL
revalued(c) == markUnrealized([c EXCEPT !.unreal = (c.tv - c.avg) * c.pos], c.pos # 0)

\* setTv
setTv(c, tv) == revalued([c EXCEPT !.tv = tv, !.isTVSet = TRUE])

\* onTv: nothing until the instrument has been quoted.
onTv(c, tv) == IF tv = <<>> THEN c ELSE setTv(c, tv[1])

\* updateRealizedPnL: the part of a fill that closes a position.  What is left of it
\* opens one on the other side at the price of the fill.
realized_NotCapped(c, qty, price, position) ==
  LET sign == IF c.pos > 0 THEN 1 ELSE -1
  IN  markRealized([c EXCEPT !.real = @ + (price - c.avg) * sign * qty,
                             !.avg = IF sign * position > 0 THEN c.avg
                                     ELSE IF position # 0 THEN price ELSE 0])

realized(c, qty, price, position) ==
  LET sign == IF c.pos > 0 THEN 1 ELSE -1
      closed == Min({sign * c.pos, qty})
  IN  markRealized([c EXCEPT !.real = @ + (price - c.avg) * sign * closed,
                             !.avg = IF sign * position > 0 THEN c.avg
                                     ELSE IF position # 0 THEN price ELSE 0])

\* updateFees: a rebuilt position pays none.
updateFees(c, qty, fee) == [c EXCEPT !.fees = @ + fee * qty]

\* updatePnL
updatePnL(c, side, qty, price, fee) ==
  LET position == IF side = "Buy" THEN c.pos + qty ELSE c.pos - qty
      closing == (c.pos > 0 /\ side = "Sell") \/ (c.pos < 0 /\ side = "Buy")
      averaged == [c EXCEPT !.avg = (c.avg * Abs(c.pos) + qty * price) \div Abs(position)]
      traded == IF closing THEN realized(c, qty, price, position) ELSE averaged
  IN  updateFees(revalued([traded EXCEPT !.pos = position]), qty, fee)

\* processFill: the first price an instrument is seen at is its value until it is
\* quoted.
processFill(c, side, qty, price, fee) ==
  updatePnL(IF c.isTVSet THEN c ELSE setTv(c, price), side, qty, price, fee)

--------------------------------------------------------------------------------
(***************************************************************************)
(* PnLComposite: the totals                                                *)
(***************************************************************************)

\* preProcess and postProcess, the composite being flat when it and all under it are.
observed(c, was, now, flat) ==
  LET sum == [c EXCEPT !.pos = @ - was.pos + now.pos, !.real = @ - was.real + now.real,
                       !.unreal = @ - was.unreal + now.unreal, !.fees = @ - was.fees + now.fees]
  IN  markUnrealized(markRealized(sum), ~flat)

\* isFlat
isFlat(L, s) == L.strat[s].pos = 0 /\ \A i \in Instruments : L.inst[s][i].pos = 0

\* What becomes of the ledger when an entry does.
Posted(L, s, i, now) ==
  LET was == L.inst[s][i]
      M == [L EXCEPT !.inst[s][i] = now]
      stratFlat == L.strat[s].pos - was.pos + now.pos = 0 /\ \A j \in Instruments : M.inst[s][j].pos = 0
      N == [M EXCEPT !.strat[s] = observed(@, was, now, stratFlat)]
      acctFlat == L.acct.pos - was.pos + now.pos = 0 /\ \A t \in Strategies : isFlat(N, t)
  IN  [N EXCEPT !.acct = observed(@, was, now, acctFlat)]

--------------------------------------------------------------------------------
(***************************************************************************)
(* ProcessorPnL                                                            *)
(***************************************************************************)

\* onFill, and recordFill when fills are read back.
onFill(L, s, i, side, qty, price, fee) ==
  Posted(L, s, i, processFill(L.inst[s][i], side, qty, price, fee))

\* rebuildPos: yesterday's position as a fill at its average price.
rebuildPos(L, s, i, pos, avg) ==
  IF pos = 0 THEN L
  ELSE onFill(L, s, i, IF pos > 0 THEN "Buy" ELSE "Sell", Abs(pos), avg, 0)

\* updatePnLForTvForStratInstrument: an instrument that was quoted, for every
\* strategy that has been in it.
updatePnLForTv(L, i, tv) ==
  LET in == {s \in Strategies : L.inst[s][i].isTVSet}
      Revalue(s, M) == Posted(M, s, i, onTv(M.inst[s][i], tv))
  IN  FoldSet(Revalue, L, in)

\* isToReject: with a limit exceeded only an order against the position is let
\* through, whatever its size.
isToReject(pos, side) == pos = 0 \/ (pos > 0 /\ side = "Buy") \/ (pos < 0 /\ side = "Sell")

\* The account's position in an instrument, which ProcessorOrders keeps: the sum of its
\* strategies' positions, moved by the same fills.
accountPos(L, i) == MapThenSumSet(LAMBDA s : L.inst[s][i].pos, Strategies)

\* isAccountTotalLossReached and the other account limits, any of them: the first one
\* exceeded decides alone.
overAccount(L, lim) ==
  LET c == L.acct
  IN \/ -c.real + c.fees > lim.realized
     \/ -c.unreal + c.fees > lim.unrealized
     \/ -(c.real + c.unreal) + c.fees > lim.total
     \/ c.ddReal + c.fees > lim.realizedDrawdown
     \/ c.ddUnreal + c.fees > lim.unrealizedDrawdown

overStrategy(L, s, lim) ==
  LET c == L.strat[s]
  IN \/ -c.real + c.fees > lim.realized
     \/ -c.unreal + c.fees > lim.unrealized
     \/ c.ddReal + c.fees > lim.realizedDrawdown
     \/ c.ddUnreal + c.fees > lim.unrealizedDrawdown

\* sendNew: the entry of the order is revalued, the others are as they were.  With an
\* account limit exceeded the account's position decides and the strategy's limits
\* are not looked at.
sendNew(L, s, i, side, tv, account, strategy) ==
  LET M == Posted(L, s, i, onTv(L.inst[s][i], tv))
      over == overAccount(M, account)
  IN [ledger |-> M,
      over |-> over \/ overStrategy(M, s, strategy),
      accepted |-> IF over THEN ~isToReject(accountPos(M, i), side)
                   ELSE overStrategy(M, s, strategy) => ~isToReject(M.inst[s][i].pos, side)]

================================================================================
