------------------------------ MODULE PriceFeed ------------------------------
(***************************************************************************)
(* Market data from the exchange to the strategies: the channel            *)
(* (channel_pf/channel.h), its two implementations ChannelPfOnix and       *)
(* ChannelPfHistorical, and QuoteStoreManager, which hands quotes over     *)
(* either in the feed's thread or through a map to a thread of its own.    *)
(*                                                                         *)
(* Every channel has its own thread, which runs one callback at a time.  A *)
(* callback changes the quote and names in out[ch], as they are at the     *)
(* call, the quotes it passes to QuoteStoreManager::onQuote; the thread    *)
(* passes them on one by one before its next callback.  A call from the    *)
(* feed is a record of Calls: what the exchange's message says.            *)
(***************************************************************************)
EXTENDS Publisher, FiniteSets, FiniteSetsExt, Functions

CONSTANTS
    Instruments, Channels, Clients,
    PublisherClient,    \* the client that is the publisher
    ChannelOf,      \* Instrument::_var1
    Calls,          \* the callbacks the feed can make
    Confs           \* settings, with a bound on calls of the feed and on subscriptions

ASSUME FeedAssumption ==
    /\ ChannelOf \in [Instruments -> Channels]
    /\ PublisherClient \in Clients
    /\ IsFiniteSet(Instruments)
    /\ \A m \in Calls :
          CASE m.kind = "book" -> /\ m.i \in Instruments
                                  /\ \A c \in Cells \cap DOMAIN m.book : m.book[c] \in [price : Int, size : Nat]
            [] m.kind = "trade" -> /\ m.i \in Instruments /\ m.price \in Int /\ m.size \in Nat
                                   /\ m.side \in {"Buy", "Sell", "Unknown"}
            [] m.kind = "stats" -> m.i \in Instruments /\ m.field \in OHL /\ m.price \in Int
            [] m.kind = "security" -> m.i \in Instruments /\ m.status \in Statuses \cup {""}
            [] m.kind = "reset" -> m.i \in Instruments
            [] m.kind \in {"channel", "warning"} -> m.ch \in Channels /\ m.status \in Statuses
    /\ \A f \in Confs : /\ f.impl \in {"Onix", "Nanex", "AMR"}
                        /\ {f.multithreaded, f.coalesce, f.normalTradesOnly} \subseteq BOOLEAN
                        /\ f.publisher \in {"off", "Realtime", "Record"}
                        /\ f.calls \in Nat /\ f.subs \in Nat

VARIABLES
    conf,           \* the settings
    phase,          \* the channel is "idle", "active", "stopped" or "failed"
    subs,           \* the clients of every quote
    counts,         \* Channel::_subscriptionsCount
    handlers,       \* channels with a handler
    filters,        \* instruments the handlers' filters let through
    copied,         \* instruments with a client when the local store was copied
    quotes,         \* the store the feed's threads work on
    updated,        \* THandlerInfo::second, the quotes changed by a channel's message
    out,            \* quotes a channel's thread is about to pass to onQuote
    owed,           \* channels whose thread has yet to push its token
    changed,        \* _changedQuotes
    seq,            \* _intSeqNum in the local store
    pipe,           \* tokens in _threadPipe
    reader,         \* where threadMain is
    taken,          \* the quotes threadMain has taken
    main,           \* in the main store: the quote copied last, _intSeqNum and _intGaps
    seen, known,    \* what clients saw in the last quote, and learn from its flags
    pub,            \* the publisher
    server,         \* the quotes of the server whose recording an AMR feed replays
    hist            \* history: calls, subscriptions, the exchange's books, volumes

feedVars == <<quotes, updated, out>>
threadVars == <<owed, changed, seq, pipe, reader, taken, main>>
subVars == <<subs, counts, handlers, filters>>
clientVars == <<seen, known, pub>>
vars == <<conf, phase, subVars, copied, feedVars, threadVars, clientVars, server, hist>>

Prices == {c.price : c \in {d \in Calls : d.kind = "trade"}}
Sides == {"Buy", "Sell", "Unknown"}
Nothing == [x \in {} |-> 0]
Added(volume, p, size) == [volume EXCEPT ![p] = @ + size]

Init ==
    /\ conf \in Confs
    /\ phase = "idle"
    /\ subs = [i \in Instruments |-> <<>>]
    /\ counts = Nothing /\ handlers = {} /\ filters = {} /\ copied = {}
    /\ quotes = [i \in Instruments |-> NewQuote(i)]
    /\ updated = [ch \in Channels |-> {}]
    /\ out = [ch \in Channels |-> <<>>]
    /\ owed = {} /\ changed = Nothing /\ seq = [i \in Instruments |-> 0]
    /\ pipe = 0 /\ reader = "none" /\ taken = Nothing
    /\ main = [i \in Instruments |-> [quote |-> NewQuote(i), seq |-> 0, gaps |-> 0]]
    /\ pub = PublisherInit(conf.publisher)
    /\ server = [i \in Instruments |-> NewQuote(i)]
    /\ seen = [i \in Instruments |-> NewQuote(i)]
    /\ known = [i \in Instruments |-> Unknown]
    /\ hist = [calls |-> 0, subs |-> 0, books |-> [i \in Instruments |-> Nothing],
               wire |-> [i \in Instruments |-> [p \in Prices \X Sides |-> 0]],
               told |-> [i \in Instruments |-> [p \in Prices \X Sides |-> 0]],
               repeated |-> {}, covered |-> {}, refused |-> {}]

-----------------------------------------------------------------------------
(***************************************************************************)
(* Channel: subscriptions, which may change only while it is not active.   *)
(***************************************************************************)
CanSubscribe(c) ==
    /\ phase = "idle" /\ conf.subs > hist.subs
    /\ c = PublisherClient => pub.mode # "off"
    /\ hist' = [hist EXCEPT !.subs = @ + 1]

(* A handler for the instrument's channel, and its filter.                 *)
addHandler(ch) == handlers' = handlers \cup {ch}
implSubscribe(i) ==
    IF conf.impl = "Onix" THEN addHandler(ChannelOf[i]) /\ filters' = filters \cup {i}
    ELSE UNCHANGED <<handlers, filters>>

subscribe(i, c) ==
    /\ CanSubscribe(c)
    /\ canAdd(subs[i], c)
    /\ \/ /\ subs' = [subs EXCEPT ![i] = add(@, c)]
          /\ IF i \in DOMAIN counts
             THEN counts' = [counts EXCEPT ![i] = @ + 1] /\ UNCHANGED <<handlers, filters>>
             ELSE /\ counts' = [j \in DOMAIN counts \cup {i} |-> IF j = i THEN 1 ELSE counts[j]]
                  /\ implSubscribe(i)
       \/ \* the handler cannot be made: the client is taken out again
          /\ i \notin DOMAIN counts
          /\ UNCHANGED subVars
    /\ UNCHANGED <<conf, phase, server, copied, feedVars, threadVars, clientVars>>

(* QuoteStore::subscribeFront, as the bars manager calls it: the channel   *)
(* does not count it.                                                      *)
subscribeFront(i, c) ==
    /\ CanSubscribe(c)
    /\ canAdd(subs[i], c)
    /\ subs' = [subs EXCEPT ![i] = addFront(@, c)]
    /\ UNCHANGED <<conf, phase, server, counts, handlers, filters, copied, feedVars, threadVars, clientVars>>

unsubscribe(i, c) ==
    /\ CanSubscribe(c)
    /\ ~canAdd(subs[i], c)
    /\ subs' = [subs EXCEPT ![i] = rem(@, c)]
    /\ counts' = IF i \notin DOMAIN counts THEN counts
                 ELSE IF counts[i] = 1 THEN [j \in DOMAIN counts \ {i} |-> counts[j]]
                 ELSE [counts EXCEPT ![i] = @ - 1]
    /\ UNCHANGED <<conf, phase, server, handlers, filters, copied, feedVars, threadVars, clientVars>>

StoreCopy == {i \in Instruments : subs[i] # <<>>}

(* QuoteStoreManager::start copies the main store for the feed's threads.  *)
managerStart ==
    IF conf.multithreaded THEN copied' = StoreCopy /\ reader' = "reading"
    ELSE UNCHANGED <<copied, reader>>

(* Only ChannelPfOnix starts the manager, and it gives up without handlers *)
(* (the process then ends).                                                *)
implStart ==
    /\ phase' = IF conf.impl = "Onix" /\ handlers = {} THEN "failed" ELSE "active"
    /\ IF conf.impl = "Onix" THEN managerStart ELSE UNCHANGED <<copied, reader>>

start ==
    /\ phase = "idle"
    /\ implStart
    /\ UNCHANGED <<conf, server, subVars, feedVars, owed, changed, seq, pipe, taken, main, clientVars, hist>>

(* The handlers are stopped first, which waits for their callbacks; the    *)
(* manager's thread ends at its next look at _isDone.                      *)
stop ==
    /\ phase = "active"
    /\ \A ch \in Channels : out[ch] = <<>>
    /\ owed = {}
    /\ phase' = "stopped"
    /\ handlers' = {} /\ updated' = [ch \in Channels |-> {}]
    /\ UNCHANGED <<conf, server, subs, counts, filters, copied, quotes, out, threadVars, clientVars, hist>>

-----------------------------------------------------------------------------
(***************************************************************************)
(* ChannelPfOnix.  A callback gives the new quote and what it passes on.   *)
(***************************************************************************)
(* isSubscribed() in the store the feed works on.                          *)
Subscribed(i) == IF conf.multithreaded THEN i \in copied ELSE subs[i] # <<>>

updateSubscribers(q, slow) ==
    IF ~isChanged(q) THEN [quote |-> q, out |-> <<>>]
    ELSE [quote |-> clearRuntime(q),
          out   |-> <<IF slow THEN [q EXCEPT !.status = "ExchangeSlow"] ELSE q>>]

(* The end of a callback: the quote waits for the end of its message, or   *)
(* its subscribers are told at once.                                       *)
Finish(i, q, slow) ==
    LET r == updateSubscribers(q, slow)
        ch == ChannelOf[i]
    IN  IF conf.coalesce
        THEN /\ quotes' = [quotes EXCEPT ![i] = q]
             /\ updated' = [updated EXCEPT ![ch] = @ \cup {i}]
             /\ UNCHANGED out
        ELSE /\ quotes' = [quotes EXCEPT ![i] = r.quote]
             /\ out' = [out EXCEPT ![ch] = r.out]
             /\ UNCHANGED updated

(* A removed level (size 0) leaves the quote's level as it was.            *)
BookUpdate(q, b) ==
    LET cells  == {c \in Cells \cap DOMAIN b : b[c].size > 0}
        prices == {c \in cells : b[c].price # q.book[c].price}
        sizes  == {c \in cells : b[c].size # q.book[c].size}
        check(r, c) == IF c \in prices THEN checkGappedQuote(r, b[c].price, q.book[c].price) ELSE r
    IN  setSizes(setPrices(check(check(q, <<1, "bid">>), <<1, "ask">>), b, prices), b, sizes)

onDirectBookUpdated(m) ==
    /\ Finish(m.i, BookUpdate(quotes[m.i], m.book), m.slow)
    /\ hist' = [hist EXCEPT !.calls = @ + 1, !.books[m.i] = m.book]

Accepted(m) ==
    /\ m.size >= 1
    /\ m.condition # "Unknown" => ~conf.normalTradesOnly

(* A bug: a pending trade at another price is overwritten.                 *)
TradeUpdate_Overwrites(q, m) ==
    LET r == checkGappedTrade([q EXCEPT !.trade.condition = m.condition, !.trade.side = m.side,
                                        !.trade.tick = m.tick], m.price)
    IN  IF isTrade(q) /\ m.price = q.trade.price
        THEN [quote |-> [r EXCEPT !.trade.size = @ + m.size], out |-> <<>>]
        ELSE [quote |-> setTrade(r, m.price, m.size), out |-> <<>>]

(* The attributes of the new trade are in the quote before a trade that is *)
(* still pending is passed on: only its tick direction is put back.        *)
TradeUpdate(q, m) ==
    LET old == q.trade.tick
        r   == checkGappedTrade([q EXCEPT !.trade.condition = m.condition, !.trade.side = m.side,
                                          !.trade.tick = m.tick], m.price)
        flushed == updateSubscribers([r EXCEPT !.trade.tick = old], m.slow)
    IN  IF ~isTrade(q) THEN [quote |-> setTrade(r, m.price, m.size), out |-> <<>>]
        ELSE IF m.price = q.trade.price
        THEN [quote |-> [r EXCEPT !.trade.tick = old, !.trade.size = @ + m.size], out |-> <<>>]
        ELSE [quote |-> setTrade([flushed.quote EXCEPT !.trade.tick = m.tick], m.price, m.size),
              out |-> flushed.out]

onTrade(m) ==
    LET q == quotes[m.i]
        ch == ChannelOf[m.i]
        r == TradeUpdate(q, m)
    IN  IF ~Accepted(m)
        THEN UNCHANGED feedVars /\ hist' = [hist EXCEPT !.calls = @ + 1]
        ELSE /\ IF conf.coalesce
                THEN /\ quotes' = [quotes EXCEPT ![m.i] = r.quote]
                     /\ out' = [out EXCEPT ![ch] = r.out]
                     /\ updated' = [updated EXCEPT ![ch] = IF isTrade(q) THEN @ ELSE @ \cup {m.i}]
                ELSE Finish(m.i, r.quote, m.slow)
             /\ hist' = [hist EXCEPT !.calls = @ + 1, !.wire[m.i] = Added(@, <<m.price, m.side>>, m.size)]

(* An event that means nothing to the channel leaves the status alone; the *)
(* subscribers are told only if a field changed too.                       *)
onSecurityStatus(m) ==
    LET q == IF m.status = "" THEN quotes[m.i] ELSE [quotes[m.i] EXCEPT !.status = m.status]
    IN  /\ IF isError(q) THEN Finish(m.i, q, m.slow)
           ELSE UNCHANGED feedVars
        /\ hist' = [hist EXCEPT !.calls = @ + 1]

onStatistics(m) ==
    /\ Finish(m.i, setOHL(quotes[m.i], m.field, m.price), m.slow)
    /\ hist' = [hist EXCEPT !.calls = @ + 1]

(* QuoteChannelFunctor for quotes is of a channel: each is passed on at    *)
(* once with its flags, which stay set.                                    *)
SetStatus(is, status, ch) ==
    /\ quotes' = [i \in Instruments |-> IF i \in is THEN [quotes[i] EXCEPT !.status = status] ELSE quotes[i]]
    /\ \E order \in SetToSeqs(is) :
          out' = [out EXCEPT ![ch] = [k \in DOMAIN order |-> quotes'[order[k]]]]
    /\ hist' = [hist EXCEPT !.calls = @ + 1, !.repeated = @ \cup {i \in is : isTrade(quotes[i])}]
    /\ UNCHANGED updated

onStatisticsReset(m) == SetStatus({m.i}, "HLOReset", ChannelOf[m.i])

SetChannelStatus(ch, status) ==
    SetStatus({i \in Instruments : Subscribed(i) /\ ChannelOf[i] = ch}, status, ch)

(* onError, onHandlerStateChange, onProcessingSuspended, onReplayError,    *)
(* onReplayFinished.                                                       *)
onChannelEvent(m) == SetChannelStatus(m.ch, m.status)

(* Only a silent network and a failed listener matter.                     *)
onWarning(m) ==
    IF m.status \in {"StaleQuote", "ConnectionHandlerError"} THEN SetChannelStatus(m.ch, m.status)
    ELSE UNCHANGED feedVars /\ hist' = [hist EXCEPT !.calls = @ + 1]

OnixCallback(m) ==
    \/ m.kind = "book" /\ onDirectBookUpdated(m)
    \/ m.kind = "trade" /\ onTrade(m)
    \/ m.kind = "security" /\ onSecurityStatus(m)
    \/ m.kind = "stats" /\ onStatistics(m)
    \/ m.kind = "reset" /\ onStatisticsReset(m)

(* A channel's thread runs a callback when the one before has returned.    *)
Free(ch) == phase = "active" /\ out[ch] = <<>> /\ ch \notin owed

onixCalls ==
    /\ conf.impl = "Onix" /\ hist.calls < conf.calls
    /\ \E m \in Calls :
          \/ /\ m.kind \notin {"channel", "warning"} /\ Free(ChannelOf[m.i])
             /\ ChannelOf[m.i] \in handlers /\ m.i \in filters /\ Subscribed(m.i)
             /\ OnixCallback(m)
          \/ /\ m.kind \in {"channel", "warning"} /\ Free(m.ch) /\ m.ch \in handlers
             /\ IF m.kind = "channel" THEN onChannelEvent(m) ELSE onWarning(m)
    /\ UNCHANGED <<conf, phase, server, subVars, copied, threadVars, clientVars>>

(* The updated quotes are passed on in the order of a set of pointers, but *)
(* for those in which no field changed.                                    *)
onProcessingEnd(ch) ==
    /\ conf.impl = "Onix" /\ Free(ch) /\ ch \in handlers
    /\ updated[ch] # {}
    /\ LET r(i) == updateSubscribers(quotes[i], FALSE)
       IN  /\ quotes' = [i \in Instruments |-> IF i \in updated[ch] THEN r(i).quote ELSE quotes[i]]
           /\ \E order \in SetToSeqs({i \in updated[ch] : r(i).out # <<>>}) :
                 out' = [out EXCEPT ![ch] = [k \in DOMAIN order |-> Head(r(order[k]).out)]]
    /\ updated' = [updated EXCEPT ![ch] = {}]
    /\ UNCHANGED <<conf, phase, server, subVars, copied, threadVars, clientVars, hist>>

-----------------------------------------------------------------------------
(***************************************************************************)
(* ChannelPfHistorical: lines of text from a Nanex server, quotes copied   *)
(* whole from an AMR server.                                               *)
(***************************************************************************)
(* A line has only the top of the book, and says so when it is empty.      *)
onConnectionData(m) ==
    LET q == clearRuntime(quotes[m.i])
        top == [c \in {<<1, s>> : s \in {"bid", "ask"}} |->
                  IF c \in DOMAIN m.book THEN m.book[c] ELSE [price |-> 0, size |-> 0]]
        prices == {c \in DOMAIN top : top[c].price # q.book[c].price}
        sizes == {c \in DOMAIN top : top[c].size # q.book[c].size}
    IN  CASE m.kind = "book" -> setPrices(setSizes(q, top, sizes), top, prices)
          [] m.kind = "trade" -> setTrade(q, m.price, m.size)

(* A publisher that recorded quotes of ChannelPfOnix, one by one, replays  *)
(* them: what it would not record is not sent.                             *)
replay(m) ==
    LET q == clearRuntime(server[m.i])
    IN  CASE m.kind = "book" -> BookUpdate(q, m.book)
          [] m.kind = "trade" -> setTrade([q EXCEPT !.trade.condition = m.condition, !.trade.side = m.side,
                                                    !.trade.tick = m.tick], m.price, m.size)

(* The quote on the wire is copied whole.                                  *)
process(wire) == wire

HistoricalQuote(m) ==
    CASE conf.impl = "Nanex" -> onConnectionData(m)
      [] conf.impl = "AMR" -> process(replay(m))

historicalCalls ==
    /\ conf.impl # "Onix" /\ hist.calls < conf.calls
    /\ \E m \in {d \in Calls : d.kind \in {"book", "trade"}} :
          /\ Free(ChannelOf[m.i]) /\ subs[m.i] # <<>>
          /\ m.kind = "trade" => m.size > 0
          /\ server' = [server EXCEPT ![m.i] = IF conf.impl = "AMR" THEN replay(m) ELSE @]
          /\ IF conf.impl = "AMR" /\ ~Publishable(replay(m))
             THEN UNCHANGED <<quotes, out>> /\ hist' = [hist EXCEPT !.calls = @ + 1]
             ELSE LET q == HistoricalQuote(m)
                      side == IF conf.impl = "Nanex" THEN "Unknown" ELSE m.side
                  IN  /\ quotes' = [quotes EXCEPT ![m.i] = q]
                      /\ out' = [out EXCEPT ![ChannelOf[m.i]] = IF isChanged(q) THEN <<q>> ELSE <<>>]
                      /\ hist' = [hist EXCEPT !.calls = @ + 1,
                                    !.books[m.i] = IF conf.impl = "AMR" THEN q.book
                                                   ELSE IF m.kind = "book" THEN m.book ELSE @,
                                    !.wire[m.i] = IF m.kind = "book" THEN @
                                                  ELSE Added(@, <<m.price, side>>, m.size)]
    /\ UNCHANGED <<conf, phase, subVars, copied, updated, threadVars, clientVars>>

-----------------------------------------------------------------------------
(***************************************************************************)
(* QuoteStoreManager.                                                      *)
(***************************************************************************)
(* StrategyContainer::onQuote and notifySubscribers, under the container's *)
(* lock: every client of the quote is called.                              *)
notifySubscribers(q) ==
    LET sold == <<q.trade.price, q.trade.side>>
    IN  /\ seen' = [seen EXCEPT ![q.id] = q]
        /\ known' = [known EXCEPT ![q.id] = Followed(@, q)]
        /\ pub' = IF PublisherClient \in ToSet(subs[q.id]) THEN onQuote(pub, q) ELSE pub
        /\ hist' = [hist EXCEPT !.told[q.id] = IF isTrade(q) THEN Added(@, sold, q.trade.size) ELSE @,
                                !.covered = @ \ {q.id},
                                !.refused = IF Publishable(q) THEN @ \ {q.id}
                                            ELSE IF isLevelUpdate0(q) THEN @ \cup {q.id} ELSE @]

(* onQuote in the feed's thread.                                           *)
onQuoteDirect(ch) ==
    /\ out[ch] # <<>> /\ reader = "none"
    /\ notifySubscribers(Head(out[ch]))
    /\ out' = [out EXCEPT ![ch] = Tail(@)]
    /\ UNCHANGED <<conf, phase, server, subVars, copied, quotes, updated, threadVars>>

(* onQuote when multithreaded: the quote takes the place of one that has   *)
(* not been taken yet.  The token is pushed after the unlock.  covers      *)
(* records a bare status in the place of a quote with changes.             *)
onQuoteThreaded(ch) ==
    /\ out[ch] # <<>> /\ reader # "none" /\ ch \notin owed
    /\ LET q == Head(out[ch])
           n == seq[q.id] + 1
           covers == /\ q.id \in DOMAIN changed /\ ~isChanged(q)
                     /\ isChanged(changed[q.id].quote) \/ changed[q.id].covers
       IN  /\ seq' = [seq EXCEPT ![q.id] = n]
           /\ changed' = [i \in DOMAIN changed \cup {q.id} |->
                            IF i = q.id THEN [quote |-> q, seq |-> n, covers |-> covers] ELSE changed[i]]
    /\ out' = [out EXCEPT ![ch] = Tail(@)]
    /\ owed' = owed \cup {ch}
    /\ UNCHANGED <<conf, phase, server, subVars, copied, quotes, updated, pipe, reader, taken, main, clientVars, hist>>

push(ch) ==
    /\ ch \in owed
    /\ owed' = owed \ {ch}
    /\ pipe' = pipe + 1
    /\ UNCHANGED <<conf, phase, server, subVars, copied, feedVars, changed, seq, reader, taken, main, clientVars, hist>>

(* threadMain: read a token or return from read() because of stop().       *)
readToken ==
    /\ reader = "reading"
    /\ pipe > 0 \/ phase = "stopped"
    /\ pipe' = IF pipe > 0 THEN pipe - 1 ELSE 0
    /\ reader' = "clearing"
    /\ UNCHANGED <<conf, phase, server, subVars, copied, feedVars, owed, changed, seq, taken, main, clientVars, hist>>

clearPipe ==
    /\ reader = "clearing"
    /\ pipe' = 0
    /\ reader' = "taking"
    /\ UNCHANGED <<conf, phase, server, subVars, copied, feedVars, owed, changed, seq, taken, main, clientVars, hist>>

(* The loop's next look at _isDone.                                        *)
Again == IF phase = "stopped" THEN "done" ELSE "reading"

takeQuotes ==
    /\ reader = "taking"
    /\ taken' = changed
    /\ changed' = Nothing
    /\ reader' = IF changed = Nothing THEN Again ELSE "copying"
    /\ UNCHANGED <<conf, phase, server, subVars, copied, feedVars, owed, seq, pipe, main, clientVars, hist>>

(* A bug: the pipe is cleared after the quotes were taken.                 *)
copyQuote_ClearsPipe(i) ==
    /\ reader = "copying" /\ i \in DOMAIN taken
    /\ main' = [main EXCEPT ![i] = [quote |-> taken[i].quote, seq |-> taken[i].seq,
                                    gaps |-> @.gaps + taken[i].seq - @.seq - 1]]
    /\ IF isChanged(taken[i].quote) THEN notifySubscribers(taken[i].quote)
       ELSE UNCHANGED <<clientVars, hist>>
    /\ taken' = [j \in DOMAIN taken \ {i} |-> taken[j]]
    /\ reader' = IF DOMAIN taken = {i} THEN Again ELSE "copying"
    /\ pipe' = 0
    /\ UNCHANGED <<conf, phase, server, subVars, copied, feedVars, owed, changed, seq>>

(* copyQuote, and the clients are told if anything is flagged.             *)
copyQuote(i) ==
    /\ reader = "copying" /\ i \in DOMAIN taken
    /\ main' = [main EXCEPT ![i] = [quote |-> taken[i].quote, seq |-> taken[i].seq,
                                    gaps |-> @.gaps + taken[i].seq - @.seq - 1]]
    /\ IF isChanged(taken[i].quote) THEN notifySubscribers(taken[i].quote)
       ELSE /\ hist' = [hist EXCEPT !.covered = IF taken[i].covers THEN @ \cup {i} ELSE @]
            /\ UNCHANGED clientVars
    /\ taken' = [j \in DOMAIN taken \ {i} |-> taken[j]]
    /\ reader' = IF DOMAIN taken = {i} THEN Again ELSE "copying"
    /\ UNCHANGED <<conf, phase, server, subVars, copied, feedVars, owed, changed, seq, pipe>>

-----------------------------------------------------------------------------
(***************************************************************************)
(* The publisher's connections and its recording thread; each callback     *)
(* holds the container's lock.                                             *)
(***************************************************************************)
PublisherUp == pub.mode # "off" /\ phase = "active"
StoreQuote(i) == IF reader = "none" THEN quotes[i] ELSE main[i].quote

publisherSteps ==
    /\ \/ /\ PublisherUp /\ pub.mode = "Realtime"
          /\ \E c \in Connections :
                \/ \E i \in Instruments : i \notin pub.subs[c] /\ pub' = onSub(pub, c, StoreQuote(i))
                \/ \E i \in pub.subs[c] : pub' = onUnsub(pub, c, i)
                \/ pub.subs[c] # {} /\ pub' = onConnectionDown(pub, c)
       \/ pub.queue # <<>> /\ ~pub.done /\ pub' = recordNext(pub)
       \/ \* the container stops its strategies once the channel has stopped
          /\ phase = "stopped" /\ reader \in {"none", "done"}
          /\ \/ pub.open /\ pub' = clear(pub)
             \/ ~pub.open /\ ~pub.done /\ pub.mode = "Record" /\ pub' = terminateThreadRecord(pub)
    /\ UNCHANGED <<conf, phase, server, subVars, copied, feedVars, threadVars, seen, known, hist>>

Next ==
    \/ \E i \in Instruments, c \in Clients :
          subscribe(i, c) \/ subscribeFront(i, c) \/ unsubscribe(i, c)
    \/ start \/ stop
    \/ onixCalls \/ historicalCalls
    \/ \E ch \in Channels : onProcessingEnd(ch) \/ onQuoteDirect(ch) \/ onQuoteThreaded(ch) \/ push(ch)
    \/ readToken \/ clearPipe \/ takeQuotes
    \/ \E i \in Instruments : copyQuote(i)
    \/ publisherSteps

Spec == Init /\ [][Next]_vars

-----------------------------------------------------------------------------
(* Quotes of i that were passed on and have not been shown yet.            *)
Passed(i) ==
    {<<"out", k>> : k \in {j \in DOMAIN out[ChannelOf[i]] : out[ChannelOf[i]][j].id = i}}
    \cup (IF i \in DOMAIN changed THEN {<<"changed", 0>>} ELSE {})
    \cup (IF i \in DOMAIN taken THEN {<<"taken", 0>>} ELSE {})

PassedQuote(i, w) ==
    IF w[1] = "out" THEN out[ChannelOf[i]][w[2]]
    ELSE IF w[1] = "changed" THEN changed[i].quote ELSE taken[i].quote

TradeSizeAt(q, p, side) ==
    IF isTrade(q) /\ q.trade.price = p /\ side \in {q.trade.side, "Any"} THEN q.trade.size ELSE 0

Volume(f, p, side) ==
    IF side = "Any" THEN f[<<p, "Buy">>] + f[<<p, "Sell">>] + f[<<p, "Unknown">>] ELSE f[<<p, side>>]

(* Every trade the exchange sent and the settings let through is told to   *)
(* the clients once, at its price: what they were told, what waits for the *)
(* end of a message and what is on its way add up to the volume traded,    *)
(* and to the volume of each aggressor when trades are not coalesced.  Two *)
(* things break it, and nothing else does: a status passed on while a      *)
(* coalesced trade is pending tells that trade again, and a quote replaced *)
(* in _changedQuotes before the thread took it, which is counted as a gap. *)
TradesTold ==
    \A i \in Instruments : \A p \in Prices : \A side \in (IF conf.coalesce THEN {"Any"} ELSE Sides) :
        LET onWay == SumFunctionOnSet([w \in Passed(i) |-> TradeSizeAt(PassedQuote(i, w), p, side)], Passed(i))
            pending == IF conf.impl = "Onix" THEN TradeSizeAt(quotes[i], p, side) ELSE 0
            sum == Volume(hist.told[i], p, side) + onWay + pending
        IN  /\ i \notin hist.repeated /\ seq[i] = main[i].seq + Cardinality({w \in Passed(i) : w[1] # "out"})
                   /\ main[i].gaps = 0
               => sum = Volume(hist.wire[i], p, side)
            /\ i \notin hist.repeated => sum <= Volume(hist.wire[i], p, side)

(* Nothing of i waits anywhere between the exchange and the clients.       *)
Settled(i) == Passed(i) = {} /\ i \notin updated[ChannelOf[i]] /\ phase = "active"

(* When nothing is on its way, the book that clients see in the last quote *)
(* is the exchange's at every level that has an order, and at the top of a *)
(* Nanex book whether it has or not; and a client that copies only what    *)
(* quotes flag as changed knows that same book and session prices, unless  *)
(* a quote was replaced before it was shown.  The one exception to the     *)
(* first is a quote with changes that a bare status replaced in            *)
(* _changedQuotes: it is not shown before the next change.                 *)
BookShown ==
    \A i \in Instruments :
        /\ Settled(i) /\ i \notin hist.covered =>
              \A c \in Cells \cap DOMAIN hist.books[i] :
                  CASE conf.impl # "Nanex" -> hist.books[i][c].size > 0 => seen[i].book[c] = hist.books[i][c]
                    [] conf.impl = "Nanex" -> c[1] = 1 => seen[i].book[c] = hist.books[i][c]
        /\ main[i].gaps = 0 /\ conf.impl # "AMR" => known[i] = [book |-> seen[i].book, ohl |-> seen[i].ohl]

(* A connection of the publisher sees the market its clients see: when     *)
(* nothing is on its way and no quote was replaced, the top of the book in *)
(* the last message sent to it is the top in the last quote shown, unless  *)
(* the publisher refused a change of it for its status or its trade.       *)
PublishedCurrent ==
    \A c \in Connections : \A q \in pub.sent[c] :
        q.id \in pub.subs[c] /\ PublisherClient \in ToSet(subs[q.id]) /\ Settled(q.id)
            /\ q.id \notin hist.refused \cup hist.covered /\ main[q.id].gaps = 0
        => \A s \in {"bid", "ask"} : q.book[<<1, s>>] = seen[q.id].book[<<1, s>>]

(* No wake-up is lost between onQuote's unlock and its push, and none to   *)
(* the pipe's clear(): while the thread waits for a token nothing is left  *)
(* in _changedQuotes that nobody will push a token for, and every quote    *)
(* passed on is either shown, still on its way or counted as a gap.        *)
NoLostWakeup ==
    reader = "reading" /\ pipe = 0 /\ owed = {} /\ phase = "active" =>
        /\ changed = Nothing
        /\ \A i \in Instruments : main[i].seq = seq[i]
=============================================================================
