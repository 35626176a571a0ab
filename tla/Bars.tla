---------------------------------- MODULE Bars ----------------------------------
(***************************************************************************)
(* BarsManager: it builds bars of a fixed length from the trades of the    *)
(* instruments it is subscribed to, recognises patterns in them on three   *)
(* levels, restores earlier bars when it starts and hands what it formed   *)
(* to BarsStorage, whose thread writes it to the database.                 *)
(*                                                                         *)
(* onQuote and onTimeout run under the strategy container's lock and are   *)
(* one step each; the storage thread is a process of its own.  One         *)
(* instrument: the maps are by instrument and no operation on one touches  *)
(* another's entry.                                                        *)
(***************************************************************************)
EXTENDS BarPatterns

CONSTANTS
  Configs,       \* the settings and constructor parameters tried
  Lookbacks,     \* the lookbackMinutes clients subscribe with
  Quotes,        \* the quotes the feed delivers
  Logs,          \* the recorded quotes bars are restored from
  Junk,          \* what a read through a dangling reference may give
  BarLength,     \* _barLength, in seconds
  MaxCache,      \* _bars_storage_max_batch_cache_size
  Batch,         \* _bars_storage_batch_cache_size
  MaxQueue       \* _bars_storage_max_queue_size_db

VARIABLES
  conf,      \* the settings of this process
  phase,     \* "init", "live", or "stopped" once the storage has stopped
  bars,      \* _instrumentsBars
  trades,    \* _instrumentTrades
  look,      \* how far back the bars are restored
  pats,      \* the static patterns of each level
  dyn,       \* the dynamic patterns of each level; empty before first use
  pipe,      \* _threadPipeDb
  cache,     \* _itemsCache
  db,        \* the tables Bars and BarsPatterns, by key
  writer,    \* the storage thread: it reads the pipe, or sleeps for a second
  tape,      \* history: the trades that went into each bar
  seam,      \* history: the last restored bar, and its trades when it was restored
  handed     \* history: what was last handed over for each key

storageVars == <<pipe, cache, db, writer>>

vars == <<conf, phase, bars, trades, look, pats, dyn, storageVars, tape, seam, handed>>

Levels == <<"Simple", "Swing1", "Swing2">>

ASSUME BarsAssumption ==
  /\ \A q \in Quotes : q.price \in Nat /\ q.size \in Nat
  /\ \A c \in Configs : c.restore \in {"None", "Db", "File"}
  /\ BarLength \in Nat \ {0}

--------------------------------------------------------------------------------
dynamicLists_KeptFromLastQuote == IF dyn = <<>> THEN NoPatterns ELSE dyn[1]

\* getInstrumentPattern for the dynamic lists: a copy of the static ones,
\* except the first time, when the list is new and empty.
dynamicLists == IF dyn = <<>> THEN NoPatterns ELSE pats

Processed(bs) == Last(bs).n > 0 /\ conf.processPatterns

--------------------------------------------------------------------------------
(***************************************************************************)
(* Hand-over to the storage                                                *)
(***************************************************************************)

\* doPersist: dropped, with an alert, when the queue is over its limit.
persist(pp, items) ==
  FoldLeft(LAMBDA q, x : IF Len(q) > MaxQueue THEN q ELSE Append(q, x), pp, items)

barItem(bs, k) == [key |-> <<"Bar", k>>, val |-> bs[k]]

Clean(p) == [p EXCEPT !.dirty = FALSE]

\* The dirty patterns at the end of a list, the last one first.
dirtyAt(ps) == {k \in DOMAIN ps : \A j \in k..Len(ps) : ps[j].dirty}

patternItems(level, ps) ==
  [k \in 1..Cardinality(dirtyAt(ps)) |->
     LET at == Len(ps) - k + 1 IN [key |-> <<level, at>>, val |-> Clean(ps[at])]]

cleaned(ps) == [k \in DOMAIN ps |-> IF k \in dirtyAt(ps) THEN Clean(ps[k]) ELSE ps[k]]

allItems(lists) ==
  FlattenSeq([l \in DOMAIN Levels |-> patternItems(Levels[l], lists[Levels[l]])])

cleanedLists(lists) == [l \in DOMAIN lists |-> cleaned(lists[l])]

\* The rows of the tables after the items were saved with REPLACE.
latest(h, items) ==
  FoldLeft(LAMBDA f, x : [k \in DOMAIN f \cup {x.key} |->
                            IF k = x.key THEN x.val ELSE f[k]], h, items)

--------------------------------------------------------------------------------
(***************************************************************************)
(* Restoring                                                               *)
(***************************************************************************)

\* Seconds from midnight, in bars.
interval(t) == (t % 86400) \div BarLength

\* The value of an operator applied to the last element of a sequence.
OnLast(s, Op(_)) == [s EXCEPT ![Len(s)] = Op(@)]

processHistoricalQuote(bs, e) ==
  LET next == bs # <<>> /\ interval(e.t) > interval(Last(bs).t)
      done == IF next THEN OnLast(withAtr(bs, conf.atrPeriods), LAMBDA b : [b EXCEPT !.formed = TRUE]) ELSE bs
      more == IF bs = <<>> \/ next THEN Append(done, NewBar @@ [t |-> e.t]) ELSE done
  IN  IF Traded(e.q) THEN OnLast(more, LAMBDA b : onQuoteBar(e.q, b)) ELSE more

Untimed(b) == [f \in DOMAIN b \ {"t"} |-> b[f]]

\* The bars of a log, cut down to the ones that are looked back on, and one more.
readBarsFromFile(log) ==
  LET all == FoldLeft(processHistoricalQuote, <<>>, log)
      drop == IF look > 0 /\ look < Len(all)
              THEN Len(all) - look - 1 ELSE 0
  IN  [k \in 1..(Len(all) - drop) |-> Untimed(all[k + drop])]

\* The rows a recorder stored: every one a bar it had formed.  The table has no
\* column for the trades by price, so they come back empty.
readBarsFromDb(log) ==
  LET all == FoldLeft(processHistoricalQuote, <<>>, log)
  IN  IF look = 0 THEN <<>>
      ELSE [k \in DOMAIN all |-> [Untimed(all[k]) EXCEPT !.formed = TRUE, !.trades = <<>>]]

restoreBars(log) ==
  CASE conf.restore = "File" -> readBarsFromFile(log)
    [] conf.restore = "Db"   -> readBarsFromDb(log)
    [] OTHER                 -> <<>>

\* The trades each restored bar was made of, for the history variable.
tapeOf(log) ==
  LET from == {e.t : e \in Range(log)}
      ivals == SetToSortSeq({interval(t) : t \in from}, <)
      all == [k \in DOMAIN ivals |->
                LET part == SelectSeq(log, LAMBDA e : interval(e.t) = ivals[k] /\ Traded(e.q))
                IN  [j \in DOMAIN part |-> part[j].q]]
      kept == Len(restoreBars(log))
  IN  SubSeq(all, Len(all) - kept + 1, Len(all))

--------------------------------------------------------------------------------
(***************************************************************************)
(* The manager                                                             *)
(***************************************************************************)

\* Before anybody subscribed.
Init ==
  /\ conf \in Configs
  /\ phase = "init"
  /\ bars = <<>> /\ trades = <<>>
  /\ look = 0
  /\ pats = NoPatterns /\ dyn = <<>>
  /\ pipe = <<>> /\ cache = <<>> /\ db = <<>> /\ writer = "read"
  /\ tape = <<>> /\ handed = <<>>
  /\ seam = [bar |-> 0, trades |-> 0]

\* The first subscription opens the first bar; a later one changes how far back
\* bars are restored, to less only when it asks for nothing.
subscribe(lookback) ==
  /\ phase = "init"
  /\ IF bars = <<>>
     THEN bars' = <<NewBar>> /\ tape' = << <<>> >> /\ look' = lookback
     ELSE /\ look' = IF look > lookback /\ lookback # 0 THEN look ELSE lookback
          /\ UNCHANGED <<bars, tape>>
  /\ UNCHANGED <<conf, phase, trades, pats, dyn, storageVars, seam, handed>>

\* Every historical bar takes the place of the open one and is looked at for
\* patterns; the last one stays open for the quotes to come.
restored(old, junk) ==
  LET Step(a, k) ==
        LET bs == [a.bs EXCEPT ![Len(a.bs)] = old[k]]
            lists == IF Processed(bs) THEN runLevels(bs, a.lists, junk, conf.hitchMax) ELSE a.lists
            with == IF Last(bs).n > 0 THEN withAtr(bs, conf.atrPeriods) ELSE bs
        IN  [bs |-> IF k < Len(old) THEN Append(with, NewBar) ELSE with, lists |-> lists]
  IN  FoldLeft(Step, [bs |-> bars, lists |-> pats], [k \in DOMAIN old |-> k])

\* What outputToDb and outputToDbOnStart do with the bars ks.
output(ks, bs, lists) ==
  LET items == [k \in DOMAIN ks |-> barItem(bs, ks[k])]
               \o (IF conf.processPatterns THEN allItems(lists) ELSE <<>>)
      taken == persist(pipe, items)
  IN  IF ~conf.outputToDb THEN pats' = lists /\ UNCHANGED <<pipe, handed>>
      ELSE /\ pats' = IF conf.processPatterns THEN cleanedLists(lists) ELSE lists
           /\ pipe' = taken
           /\ handed' = latest(handed, SubSeq(taken, Len(pipe) + 1, Len(taken)))

start(log, junk) ==
  LET old == restoreBars(log)
      r == restored(old, junk)
  IN /\ phase = "init"
     /\ bars # <<>>
     /\ phase' = "live"
     /\ bars' = r.bs
     /\ tape' = IF old = <<>> THEN tape ELSE tapeOf(log)
     /\ seam' = [bar |-> Len(old), trades |-> IF old = <<>> THEN 0 ELSE Last(old).n]
     /\ output([k \in DOMAIN r.bs |-> k], r.bs, r.lists)
     /\ UNCHANGED <<conf, look, trades, dyn, cache, db, writer>>

\* A trade goes into the open bar, formed or not, and the dynamic patterns are
\* what the bar would give if it ended here.
onQuote(q, junk) ==
  LET with == withAtr(OnLast(bars, LAMBDA b : onQuoteBar(q, b)), conf.atrPeriods)
  IN /\ phase = "live"
     /\ Len(bars) - seam.bar <= conf.maxBars /\ Last(bars).n < conf.maxTrades
     /\ Traded(q)
     /\ bars' = with
     /\ trades' = updateTradesMaps(trades, q)
     /\ dyn' = IF Processed(with) THEN <<runLevels(with, dynamicLists, junk, conf.hitchMax)>> ELSE dyn
     /\ tape' = OnLast(tape, LAMBDA s : Append(s, q))
     /\ UNCHANGED <<conf, phase, look, pats, storageVars, seam, handed>>

\* At the end of a bar length: the open bar, unless it was restored as formed, is
\* formed, looked at for patterns and handed to the storage; the next is opened.
onTimeout(junk) ==
  LET bs == OnLast(bars, LAMBDA b : [b EXCEPT !.formed = TRUE])
      with == IF Last(bs).n > 0 THEN withAtr(bs, conf.atrPeriods) ELSE bs
      lists == IF Processed(bs) THEN runLevels(with, pats, junk, conf.hitchMax) ELSE pats
  IN /\ phase = "live"
     /\ Len(bars) - seam.bar <= conf.maxBars
     /\ IF Last(bars).formed
        THEN bars' = Append(bars, NewBar) /\ UNCHANGED <<pats, pipe, handed>>
        ELSE bars' = Append(with, NewBar) /\ output(<<Len(with)>>, with, lists)
     /\ tape' = Append(tape, <<>>)
     /\ UNCHANGED <<conf, phase, look, trades, dyn, cache, db, writer, seam>>

--------------------------------------------------------------------------------
(***************************************************************************)
(* BarsStorage                                                             *)
(***************************************************************************)

\* One batch of the cache goes to the tables: all bars, then all patterns.
flushed(rows, batch) ==
  latest(latest(rows, SelectSeq(batch, LAMBDA x : x.key[1] = "Bar")),
         SelectSeq(batch, LAMBDA x : x.key[1] # "Bar"))

\* flushToDb: batch after batch until one fails; n of them succeed.
flushToDb(c, rows, n) ==
  LET size(k) == IF k * Batch < Len(c) THEN k * Batch ELSE Len(c)
      done == size(n)
      Batches == [k \in 1..n |-> SubSeq(c, size(k - 1) + 1, size(k))]
  IN  [cache |-> SubSeq(c, done + 1, Len(c)), db |-> FoldLeft(flushed, rows, Batches)]

batches(c) == (Len(c) + Batch - 1) \div Batch

managerVars == <<conf, phase, bars, trades, look, pats, dyn, tape, seam, handed>>

persistToDb_Dropped ==
  /\ phase = "live" /\ writer = "read"
  /\ pipe # <<>>
  /\ pipe' = Tail(pipe)
  /\ IF Len(cache) > MaxCache THEN UNCHANGED <<cache, db>>
     ELSE \E n \in 0..batches(Append(cache, Head(pipe))) :
            LET r == flushToDb(Append(cache, Head(pipe)), db, n)
            IN  cache' = r.cache /\ db' = r.db
  /\ UNCHANGED <<managerVars, writer>>

\* The storage thread takes the first item of the pipe; with a full cache it
\* leaves it there, and does not try to flush.
persistToDb ==
  LET item == Head(pipe)
      c == Append(cache, item)
  IN /\ phase = "live" /\ writer = "read"
     /\ pipe # <<>>
     /\ Len(cache) <= MaxCache
     /\ pipe' = Tail(pipe)
     /\ IF Len(c) < Batch THEN cache' = c /\ UNCHANGED db
        ELSE \E n \in 0..batches(c) :
               LET r == flushToDb(c, db, n) IN cache' = r.cache /\ db' = r.db
     /\ UNCHANGED <<managerVars, writer>>

\* Once the pipe is empty the thread, which is there when bars are to be saved,
\* sleeps for a second, in which more may come,
sleepSecond ==
  /\ phase = "live" /\ writer = "read"
  /\ conf.outputToDb
  /\ pipe = <<>>
  /\ writer' = "sleep"
  /\ UNCHANGED <<managerVars, pipe, cache, db>>

\* and then flushes what it has.
flushEverySecond ==
  /\ phase = "live" /\ writer = "sleep"
  /\ \E n \in 0..batches(cache) :
       LET r == flushToDb(cache, db, n) IN cache' = r.cache /\ db' = r.db
  /\ writer' = "read"
  /\ UNCHANGED <<managerVars, pipe>>

\* stop: the cache goes back to the front of the pipe, item by item, and then
\* everything is written one by one until a write fails.
flushDbCache(n) ==
  LET queue == Reverse(cache) \o pipe IN latest(db, SubSeq(queue, 1, n))

stop ==
  /\ phase = "live"
  /\ conf.outputToDb
  /\ phase' = "stopped"
  /\ \E n \in 0..(Len(cache) + Len(pipe)) : db' = flushDbCache(n)
  /\ pipe' = <<>> /\ cache' = <<>>
  /\ UNCHANGED <<conf, bars, trades, look, pats, dyn, writer, tape, seam, handed>>

--------------------------------------------------------------------------------
(***************************************************************************)
(* What the other components ask about the last bars                       *)
(***************************************************************************)

backBars(count) == {k \in DOMAIN bars : k > Len(bars) - count}

\* From the last bar back; an unset value met on the way is replaced by the next.
getBackBarsHigh(count) ==
  FoldLeft(LAMBDA y, k : IF y = Inv THEN bars[k].high ELSE Max({y, bars[k].high}),
           Inv, Down(Len(bars), Max({1, Len(bars) - count + 1})))

getBackBarsLow(count) ==
  FoldLeft(LAMBDA y, k : IF y = Inv THEN bars[k].low ELSE Min({y, bars[k].low}),
           Inv, Down(Len(bars), Max({1, Len(bars) - count + 1})))

getBackBarsCumVol(count, offset) ==
  MapThenSumSet(LAMBDA k : bars[k].volume,
                {k \in DOMAIN bars : k \in (Len(bars) - offset - count + 1)..(Len(bars) - offset)})

\* The average range, to the nearest tick, of "count" bars, traded or not.
getBackBarsHighLowRangeAvg(count, offset) ==
  LET at == {k \in DOMAIN bars : k \in (Len(bars) - offset - count + 1)..(Len(bars) - offset)}
      sum == MapThenSumSet(LAMBDA k : IF bars[k].n > 0 THEN bars[k].high - bars[k].low ELSE 0, at)
  IN  IF at = {} THEN 0 ELSE (2 * sum + Cardinality(at)) \div (2 * Cardinality(at))

Next ==
  \/ \E l \in Lookbacks : subscribe(l)
  \/ \E log \in Logs, junk \in Junk : start(log, junk)
  \/ \E q \in Quotes, junk \in Junk : onQuote(q, junk)
  \/ \E junk \in Junk : onTimeout(junk)
  \/ persistToDb
  \/ sleepSecond
  \/ flushEverySecond
  \/ stop

Spec == Init /\ [][Next]_vars

--------------------------------------------------------------------------------
(***************************************************************************)
(* Properties                                                              *)
(***************************************************************************)

Prices(ts) == {ts[j].price : j \in DOMAIN ts}

SumOver(S, f(_)) == MapThenSumSet(f, S)

\* The extremes and the volume of the last bars are those of the bars with trades
\* among them; the low is, as long as none of them is without trades.
BackBars ==
  \A count \in 1..Len(bars) :
    LET back == backBars(count)
        traded == {k \in back : bars[k].n > 0}
    IN /\ traded # {} => getBackBarsHigh(count) = Max({bars[k].high : k \in traded})
       /\ (traded = back) => getBackBarsLow(count) = Min({bars[k].low : k \in back})
       /\ getBackBarsCumVol(count, 0) = SumOver(back, LAMBDA k : bars[k].volume)
       /\ getBackBarsHighLowRangeAvg(count, 0) <= SumOver(traded, LAMBDA k : bars[k].high - bars[k].low)

\* The trades of a bar that its volumes by price can hold: the database keeps none.
pricedTrades(k) ==
  CASE conf.restore # "Db" \/ k > seam.bar -> tape[k]
    [] conf.restore = "Db" /\ k = seam.bar  -> SubSeq(tape[k], seam.trades + 1, Len(tape[k]))
    [] OTHER                               -> <<>>

\* A bar is what the trades delivered while it was the open one make it: extremes,
\* first and last price and volume, also for a bar that was restored from a file or
\* the database and then went on with live quotes; and the volumes by price, which a
\* bar from the database has only of the live quotes.  What the other components are
\* told about the last bars agrees with them.
BarsExact ==
  /\ BackBars
  /\ Len(tape) = Len(bars)
  /\ \A k \in DOMAIN bars :
       LET b == bars[k]  ts == tape[k]
           bids == SumOver(DOMAIN b.trades, LAMBDA p : b.trades[p].bid)
           asks == SumOver(DOMAIN b.trades, LAMBDA p : b.trades[p].ask)
       IN
       /\ b.n = Len(ts)
       /\ b.n = 0 => ~isHLOCValid(b)
       /\ b.n > 0 => /\ b.high = Max(Prices(ts)) /\ b.low = Min(Prices(ts))
                     /\ b.open = Head(ts).price /\ b.close = Last(ts).price
       /\ b.volume = SumOver(DOMAIN ts, LAMBDA j : ts[j].size)
       /\ DOMAIN b.trades = Prices(pricedTrades(k))
       /\ bids <= b.vol.bid /\ asks <= b.vol.ask
       /\ pricedTrades(k) = ts => bids = b.vol.bid /\ asks = b.vol.ask
       /\ b.vol.bid + b.vol.ask <= b.volume

\* A list of simple patterns cuts the bars "seen" into consecutive pieces, each with
\* the extremes, ends and volume of its piece: no bar is looked at twice and none is
\* left out.  Not so at the seam, the last bar that was restored.  One from a file is
\* still open and looked at when it is restored and again when it ends; one from the
\* database counts as formed, so what live quotes add to it is never looked at, but
\* in the patterns of the open bar it is looked at twice.
Partition(ps, seen) ==
  LET of(p) == {k \in seen : k \in p.first..p.last}
      exact == {j \in DOMAIN ps : seam.bar \notin ps[j].first..ps[j].last}
  IN /\ \A j \in 1..(Len(ps) - 1) :
          \/ ps[j].last < ps[j + 1].first
          \/ ps[j].last = ps[j + 1].first /\ ps[j].last = seam.bar
     /\ \A k \in seen \ {seam.bar} : \E j \in DOMAIN ps : k \in of(ps[j])
     /\ \A j \in exact :
          LET p == ps[j] IN
          /\ {p.first, p.last} \subseteq seen
          /\ p.high = Max({bars[k].high : k \in of(p)}) /\ bars[p.hiAt].high = p.high
          /\ p.low = Min({bars[k].low : k \in of(p)}) /\ bars[p.loAt].low = p.low
          /\ p.open = bars[p.first].open /\ p.close = bars[p.last].close
          /\ p.volume = SumOver(of(p), LAMBDA k : bars[k].volume)

traded == {k \in DOMAIN bars : bars[k].n > 0}

\* The patterns that last cut the bars that are formed.
SimplePartition ==
  conf.processPatterns => Partition(pats.Simple, {k \in traded : bars[k].formed})

\* How many trades came since the start.
liveTrades == SumOver(seam.bar..Len(bars) \ {0}, LAMBDA k : Len(tape[k])) - seam.trades

\* The patterns shown while a bar is open, from a copy of the lasting lists, cut all
\* bars with trades and the open one with them, each once, and still do when the bar
\* has ended.  The list of the first live quote after a restore is empty before it:
\* until the next quote the restored bars are not in it.
ShownPartition ==
  (phase = "live" /\ dyn # <<>>) =>
    IF liveTrades = 1 /\ seam.bar > 0
    THEN Len(dyn[1].Simple) = 1
    ELSE Partition(dyn[1].Simple, traded)

\* Trends follow each other in turn, a trend reaches back no further than the
\* extreme of the one it broke, and the swings it lists are level 1 swings of its own
\* direction, or of the other, each once and in their order.
TrendsChain ==
  LET ts == pats.Swing2
      Indexed(s, p, same) ==
        /\ \A j \in DOMAIN s : /\ s[j] \in DOMAIN pats.Swing1
                                /\ (pats.Swing1[s[j]].dir = p.dir) = same
        /\ \A j \in 1..(Len(s) - 1) : s[j] < s[j + 1]
  IN /\ \A j \in 1..(Len(ts) - 1) : /\ ts[j].dir # ts[j + 1].dir
                                     /\ ts[j + 1].first >= extremeAt(ts[j])
     /\ \A j \in DOMAIN ts : /\ Indexed(ts[j].trend, ts[j], TRUE)
                              /\ Indexed(ts[j].counter, ts[j], FALSE)

\* Until the storage stops, the rows, the cache and the pipe together hold the
\* latest version of everything that was handed over, whatever failed on the way.
SavedLatest ==
  phase = "live" =>
    LET rows == latest(latest(db, cache), pipe)
    IN  DOMAIN rows = DOMAIN handed /\ \A k \in DOMAIN handed : rows[k] = handed[k]

\* Bars are exact, and so are the patterns that are cut out of them.
BarsAndPatterns == BarsExact /\ SimplePartition /\ TrendsChain
================================================================================
