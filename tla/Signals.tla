-------------------------------- MODULE Signals --------------------------------
(***************************************************************************)
(* A signal processor in a market: quotes build the open bar and call the  *)
(* processor, a timer closes the bar, and the owner of the processor       *)
(* follows up a signal it was given.                                       *)
(*                                                                         *)
(* Every processor handles its Buy and its Sell in branches written out    *)
(* twice.  A twin of the processor is therefore fed with the same market   *)
(* upside down (prices negated, bids and asks, buyers and sellers          *)
(* exchanged), and its answers are compared with those of the processor.   *)
(***************************************************************************)
EXTENDS TransitionSignal, BreakoutSignals

\* A sequence of a processor, its parameters, the market it is in and the bounds.
CONSTANT Configs

VARIABLES
  conf,    \* which of them this is, and what it says
  bars,    \* the bars, the last one open
  pats,    \* the patterns of the bars that have closed
  own,     \* what the processor keeps, with its last answer
  twin,    \* the same for the twin
  log,     \* the signals the processor has fired: bar and side
  asked    \* quotes since the open bar began

vars == <<conf, bars, pats, own, twin, log, asked>>

--------------------------------------------------------------------------------
(***************************************************************************)
(* The market upside down                                                  *)
(***************************************************************************)

Neg(x) == IF x = Inv THEN Inv ELSE -x

Opposite(x) ==
  CASE x = "Buy" -> "Sell" [] x = "Sell" -> "Buy"
    [] x = "Up" -> "Down" [] x = "Down" -> "Up"
    [] x = "Long" -> "Short" [] x = "Short" -> "Long"
    [] x = "Low" -> "High" [] x = "High" -> "Low"
    [] OTHER -> x

FlipHLOC(x) == [x EXCEPT !.high = Neg(x.low), !.low = Neg(x.high),
                         !.open = Neg(@), !.close = Neg(@)]

FlipVol(v) == [bid |-> v.ask, ask |-> v.bid]

FlipBar(b) == [FlipHLOC(b) EXCEPT !.vol = FlipVol(@),
                 !.trades = [x \in {-y : y \in DOMAIN b.trades} |-> FlipVol(b.trades[-x])]]

FlipPattern(x) == [FlipHLOC(x) EXCEPT !.dir = Opposite(@), !.hiAt = x.loAt, !.loAt = x.hiAt]

FlipSeq(Op(_), xs) == [k \in DOMAIN xs |-> Op(xs[k])]

FlipLevels(ls) == [k \in DOMAIN ls |-> [ls[k] EXCEPT !.p = Neg(@)]]

FlipQuote(q) ==
  [q EXCEPT !.price = Neg(@), !.side = Opposite(@), !.bid = Neg(q.ask), !.ask = Neg(q.bid),
            !.bids = FlipLevels(q.asks), !.asks = FlipLevels(q.bids)]

FlipParams(p) ==
  [f \in DOMAIN p |-> IF f \in {"tie", "bias"} THEN Opposite(p[f]) ELSE p[f]]

--------------------------------------------------------------------------------
(***************************************************************************)
(* The calls                                                               *)
(***************************************************************************)

Quiet == [on |-> FALSE, side |-> "Unknown"]

Reversal == [on |-> FALSE, side |-> "Unknown", state |-> "Unknown", trigger |-> 0, last |-> 0,
             swing |-> 0, exitOffset |-> 0, entryOffset |-> 0, band |-> <<>>,
             order |-> Inv, exit |-> Inv]

Fresh(proc) ==
  CASE proc = "Soldier" -> [on |-> FALSE, side |-> "Unknown", level |-> 0]
    [] proc = "Wick" -> Quiet
    [] proc = "Cram" -> [on |-> FALSE, side |-> "Unknown", bar |-> 0, cram |-> Inv, last |-> 0]
    [] proc = "Keltner" -> [on |-> FALSE, side |-> "Unknown", infos |-> <<>>, bias |-> "Unknown",
                            pos |-> "Unknown", last |-> 0, band |-> <<>>]
    [] proc \in {"Piercing", "Hook"} -> Reversal
    [] proc = "Activity" -> [on |-> FALSE, side |-> "Unknown", active |-> FALSE, from |-> 0, last |-> 0]
    [] proc = "ORBreakout" -> orInit
    [] proc = "Continuation" -> ctInit
    [] OTHER -> tInit

\* The band the reversals are given: the last one the Keltner processor computed.
banded(bs, s, p) ==
  LET With(b) == IF b = <<>> THEN s ELSE [s EXCEPT !.band = b] IN With(keltnerBand(bs, p))

\* The call a quote makes, on the bars bs with the swings sw and the trends tr.
Answer(bs, sw, tr, q, s, p) ==
  LET swing == Last(sw)
      Reversing(t) == IF conf.proc = "Hook" THEN hook(bs, sw, tr, t.band, t, p)
                                            ELSE piercing(bs, sw, tr, t.band, t, p)
  IN CASE conf.proc = "Soldier" -> soldier(bs, s, p)
       [] conf.proc = "Wick" -> IF sw = <<>> THEN s ELSE wick(bs, swing, s, p)
       [] conf.proc = "Cram" -> cram(bs, q, s, p)
       [] conf.proc = "Keltner" -> keltner(bs, s, p)
       [] conf.proc \in {"Piercing", "Hook"} -> Reversing(banded(bs, s, p))
       [] conf.proc = "Activity" -> activity(bs, s, p)
       [] conf.proc = "ORBreakout" -> orBreakout(q, bs, s, p)
       [] conf.proc = "Continuation" ->
            IF <<>> \in {sw, tr} THEN s ELSE continuation(bs, swing, Last(tr), p.bias, s, p)
       [] OTHER -> transition(bs, sw, tr, q, s, p)

\* What the owner of a reversal does with its orders when the price moves.
worked(bs, q, s, p) ==
  LET entry == shouldModifyEnterOrder(s.order, q.price, s, p)
      exit == shouldModifyExitOrder(s.exit, q.price, s.side, s, p)
      extra == IF conf.proc = "Hook" THEN 2 ELSE 1
  IN IF q.price = Inv THEN s
     ELSE IF s.order = Inv
     THEN [s EXCEPT !.order = getEnterOrderPrice(q.price, s, p), !.exit = q.price]
     ELSE IF turnSignalOff(bs, s, extra, p) THEN [s EXCEPT !.order = Inv, !.exit = Inv, !.on = FALSE]
     ELSE [s EXCEPT !.order = IF entry = <<>> THEN @ ELSE entry[1],
                    !.exit = IF exit = <<>> THEN @ ELSE exit[1]]

\* What the owner asks about a signal it was given.
FollowUp(bs, q, s, p) ==
  CASE conf.proc = "Wick" ->
         IF wickValid(bs, q.price, s.side, p).valid THEN s ELSE Off(s)
    [] conf.proc = "ORBreakout" ->
         IF orExitExceeded(bs, s, p) THEN orClear(s, Len(bs), p) ELSE orMonitor(bs, q.price, s, p)
    [] conf.proc = "Continuation" ->
         IF ctConfirmFailed(bs, s, p) THEN ctClear(s) ELSE ctMonitor(q, bs, q.price, s, p)
    [] conf.proc \in {"Piercing", "Hook"} -> worked(bs, q, s, p)
    [] OTHER -> s

--------------------------------------------------------------------------------
(***************************************************************************)
(* Behaviours                                                              *)
(***************************************************************************)

\* A bar made of trades has closed.
Formed(bs) == [withAtr(bs, conf.p.atrPeriods) EXCEPT ![Len(bs)].formed = TRUE]

\* The bars the processor finds when it is started: restored, their patterns found.
Restored(hist) ==
  FoldLeft(LAMBDA acc, b :
             LET bs == Append(acc.bars, b)
             IN  [bars |-> bs, pats |-> runLevels(bs, acc.pats, Inv, -1)],
           [bars |-> <<>>, pats |-> NoPatterns], hist)

Init ==
  \E c \in DOMAIN Configs : \E h \in Configs[c].hist :
    /\ conf = [id |-> c, proc |-> Configs[c].proc, p |-> Configs[c].p,
               perBar |-> Configs[c].perBar, maxBars |-> Configs[c].maxBars]
    /\ bars = Append(Restored(h).bars, NewBar)
    /\ pats = Restored(h).pats
    /\ own = Fresh(Configs[c].proc)
    /\ twin = Fresh(Configs[c].proc)
    /\ log = <<>>
    /\ asked = 0

SignalBar == IF conf.proc = "Transition" THEN own'.prevIndex ELSE Len(bars)

\* A quote: into the open bar if it is a trade, then to the processor.
Quote(q) ==
  LET bs == IF q.trade THEN [bars EXCEPT ![Len(bars)] = onQuoteBar(q, @)] ELSE bars
  IN /\ asked < conf.perBar
     /\ asked' = asked + 1
     /\ bars' = bs
     /\ own' = Answer(bs, pats.Swing1, pats.Swing2, q, own, conf.p)
     /\ twin' = Answer(FlipSeq(FlipBar, bs), FlipSeq(FlipPattern, pats.Swing1),
                       FlipSeq(FlipPattern, pats.Swing2), FlipQuote(q), twin, FlipParams(conf.p))
     /\ log' = IF own'.on THEN Append(log, [bar |-> SignalBar, side |-> own'.side]) ELSE log
     /\ UNCHANGED <<conf, pats>>

\* A quote on which the owner follows up the signal it has.
Follow(q) ==
  /\ own.on
  /\ conf.proc \in {"Wick", "ORBreakout", "Continuation", "Piercing", "Hook"}
  /\ asked < conf.perBar
  /\ asked' = asked + 1
  /\ own' = FollowUp(bars, q, own, conf.p)
  /\ twin' = FollowUp(FlipSeq(FlipBar, bars), FlipQuote(q), twin, FlipParams(conf.p))
  /\ UNCHANGED <<conf, bars, pats, log>>

\* The timer closes the bar.
Timeout ==
  LET bs == Formed(bars)
  IN /\ Len(bars) < conf.maxBars
     /\ bars' = Append(bs, NewBar)
     /\ pats' = runLevels(bs, pats, Inv, -1)
     /\ asked' = 0
     /\ UNCHANGED <<conf, own, twin, log>>

Next == (\E q \in Configs[conf.id].quotes : Quote(q) \/ Follow(q)) \/ Timeout

Spec == Init /\ [][Next]_vars

--------------------------------------------------------------------------------
(***************************************************************************)
(* Properties                                                              *)
(***************************************************************************)

FlipAnswer(s) ==
  [f \in DOMAIN s |->
     CASE f \in {"side", "bias", "pos", "prevSide", "lastSide"} -> Opposite(s[f])
       [] f \in {"stop", "limit", "payup", "flowback", "order", "exit", "cram", "price"} -> Neg(s[f])
       [] OTHER -> s[f]]

Told == {"on", "side", "bias", "pos", "prevSide", "lastSide", "stop", "limit", "payup",
         "flowback", "order", "exit", "cram", "price", "state", "active", "timedOut"}

\* In a market turned upside down every processor gives the opposite answer, with
\* the same prices negated: its Buy and Sell branches mirror each other.  (A bar
\* without trades, whose prices are the least integer, breaks this for the reversals
\* and the wick, which compare with its close.)
MirrorSymmetric ==
  \/ conf.proc \in {"Piercing", "Hook", "Wick"}
     /\ \E k \in 1..(Len(bars) - 1) : ~isHLOCValid(bars[k])
  \/ \A f \in Told \cap DOMAIN own : own[f] = FlipAnswer(twin)[f]

\* A processor that marks the bar it signalled in does not signal it again: the cram
\* and the reversals once in a bar, the transition never twice running for one side
\* of one tBar, however often the quotes repeat.
NotTwice ==
  conf.proc \in {"Cram", "Piercing", "Hook", "Transition"} =>
    \A k \in 1..(Len(log) - 1) : log[k] # log[k + 1]

\* The prices a signal is handed out with: a stop and a limit, the stop on the
\* losing side of the limit, a flowback on the losing side of the payup, a breakout
\* price not inside the range it broke.
SignalSound ==
  /\ own.on /\ conf.proc = "Transition" =>
       /\ Inv \notin {own.stop, own.limit}
       /\ own.side = "Buy" => own.stop < own.limit
       /\ own.side = "Sell" => own.stop > own.limit
  /\ own.on /\ conf.proc = "Continuation" /\ own.state = "Signaled" =>
       /\ own.side = "Buy" => own.stop < own.payup /\ own.flowback <= own.payup
       /\ own.side = "Sell" => own.stop > own.payup /\ own.flowback >= own.payup
  /\ own.on /\ conf.proc = "ORBreakout" =>
       /\ own.hi >= own.lo
       /\ own.side = "Buy" => own.price >= own.hi
       /\ own.side = "Sell" => own.price <= own.lo

\* The breaks of the band that are kept alternate and are at most three; the bias is
\* the last one's, or no trades once there are three.
KeltnerAlternates ==
  conf.proc = "Keltner" =>
    /\ Len(own.infos) <= 3
    /\ \A k \in 1..(Len(own.infos) - 1) : own.infos[k].bias # own.infos[k + 1].bias
    /\ own.infos # <<>> =>
         own.bias = IF Len(own.infos) = 3 THEN "NoTrades" ELSE Last(own.infos).bias

\* What a processor answers can be traded on: sound prices, and a bias that follows
\* the breaks of the band.
AnswersSound == SignalSound /\ KeltnerAlternates
================================================================================
