--------------------------- MODULE PriceFeedProofs ---------------------------
(***************************************************************************)
(* Proofs about the price feed, for any instruments, channels, clients,    *)
(* callbacks and settings and any bound on the callbacks.                  *)
(***************************************************************************)
EXTENDS PriceFeed, FiniteSetTheorems, TLAPS

-----------------------------------------------------------------------------
(***************************************************************************)
(* Wake-ups                                                                *)
(***************************************************************************)

Readers == {"none", "reading", "clearing", "taking", "copying", "done"}

WakeTypes ==
    /\ pipe \in Nat /\ reader \in Readers
    /\ seq \in [Instruments -> Nat]
    /\ DOMAIN main = Instruments
    /\ changed = [i \in DOMAIN changed |-> changed[i]]
    /\ taken = [i \in DOMAIN taken |-> taken[i]]

(* The thread has a copy only while it works through it, and works only    *)
(* after the start.                                                        *)
ReaderSound ==
    /\ reader # "copying" => DOMAIN taken = {}
    /\ phase = "idle" => reader = "none"
    /\ reader = "none" => DOMAIN changed = {}

(* Whoever put a quote into _changedQuotes has a token for it: in the      *)
(* pipe, in hand, or taken by the thread, which has not looked yet.        *)
TokenForChanged ==
    DOMAIN changed # {} => pipe > 0 \/ owed # {} \/ reader \in {"clearing", "taking"}

(* The number of the last quote passed on is that of the last one not yet  *)
(* taken, else of the one taken, else of the one copied.                   *)
NumbersMeet ==
    \A i \in Instruments :
        IF i \in DOMAIN changed THEN changed[i].seq = seq[i]
        ELSE IF i \in DOMAIN taken THEN taken[i].seq = seq[i]
        ELSE main[i].seq = seq[i]

WakeInv == WakeTypes /\ ReaderSound /\ TokenForChanged /\ NumbersMeet

LEMMA InitWake == Init => WakeInv
<1>1. DOMAIN Nothing = {} /\ Nothing = [i \in DOMAIN Nothing |-> Nothing[i]]
  BY DEF Nothing
<1>2. ASSUME Init PROVE WakeTypes
  BY <1>1, <1>2 DEF Init, WakeTypes, Readers
<1> QED BY <1>1, <1>2 DEF Init, WakeInv, ReaderSound, TokenForChanged, NumbersMeet

(* A feed's thread passes a quote on: the token comes after it, but its    *)
(* thread owes it from here on.                                            *)
LEMMA ThreadedWakes ==
    ASSUME WakeInv, NEW ch \in Channels, onQuoteThreaded(ch)
    PROVE  WakeInv'
<1> USE DEF WakeInv, onQuoteThreaded
<1> DEFINE q == Head(out[ch])  n == seq[q.id] + 1
<1>1. PICK v : changed' = [i \in DOMAIN changed \cup {q.id} |-> IF i = q.id THEN [quote |-> q, seq |-> n, covers |-> v] ELSE changed[i]]
  OBVIOUS
<1>2. /\ DOMAIN changed' = DOMAIN changed \cup {q.id}
      /\ \A i \in DOMAIN changed : i # q.id => changed'[i] = changed[i]
      /\ changed'[q.id].seq = n
      /\ changed' = [i \in DOMAIN changed' |-> changed'[i]]
  <2> HIDE DEF WakeInv, onQuoteThreaded, q, n
  <2> QED BY <1>1
<1>3. seq' = [seq EXCEPT ![q.id] = n]
  OBVIOUS
<1> HIDE DEF n, q
<1>4. WakeTypes'
  <2>1. seq' \in [Instruments -> Nat]
    <3>1. q.id \in Instruments => n \in Nat
      BY DEF WakeTypes, n
    <3>2. q.id \notin Instruments => seq' = seq
      BY <1>3 DEF WakeTypes
    <3> QED BY <1>3, <3>1, <3>2 DEF WakeTypes
  <2> QED BY <1>2, <2>1, ZenonT(40) DEF WakeTypes
<1>5. ReaderSound'
  BY DEF ReaderSound
<1>6. TokenForChanged'
  BY DEF TokenForChanged
<1>7. NumbersMeet'
  BY <1>2, <1>3, ZenonT(40) DEF NumbersMeet, WakeTypes
<1> QED BY <1>4, <1>5, <1>6, <1>7

(* The thread copies one of the quotes it took.                            *)
LEMMA CopyWakes ==
    ASSUME WakeInv, NEW i \in Instruments, copyQuote(i)
    PROVE  WakeInv'
<1> USE DEF WakeInv, copyQuote
<1>1. /\ DOMAIN taken' = DOMAIN taken \ {i}
      /\ \A j \in DOMAIN taken \ {i} : taken'[j] = taken[j]
      /\ taken' = [j \in DOMAIN taken' |-> taken'[j]]
  OBVIOUS
<1>2. /\ DOMAIN main' = Instruments /\ main'[i].seq = taken[i].seq
      /\ \A j \in Instruments \ {i} : main'[j] = main[j]
  BY DEF WakeTypes
<1>3. reader' \in {"reading", "copying", "done"} /\ (reader' # "copying" => DOMAIN taken = {i})
  BY DEF Again
<1>4. WakeTypes'
  BY <1>1, <1>2, <1>3 DEF WakeTypes, Readers
<1>5. ReaderSound'
  BY <1>1, <1>3 DEF ReaderSound
<1>6. TokenForChanged'
  BY DEF TokenForChanged
<1>7. NumbersMeet'
  BY <1>1, <1>2 DEF NumbersMeet
<1> QED BY <1>4, <1>5, <1>6, <1>7

(* Every other step leaves the map and its thread alone, or is one of the  *)
(* thread's.                                                               *)
LEMMA NextWakes == WakeInv /\ [Next]_vars => WakeInv'
<1> SUFFICES ASSUME WakeInv, [Next]_vars PROVE WakeInv'
  OBVIOUS
<1> USE DEF WakeInv
<1>1. ASSUME UNCHANGED <<phase, threadVars>> PROVE WakeInv'
  BY <1>1 DEF threadVars, WakeTypes, ReaderSound, TokenForChanged, NumbersMeet
<1>2. CASE UNCHANGED vars
  BY <1>1, <1>2 DEF vars
<1>3. ASSUME NEW i \in Instruments, NEW c \in Clients,
             subscribe(i, c) \/ subscribeFront(i, c) \/ unsubscribe(i, c)
      PROVE  WakeInv'
  BY <1>1, <1>3 DEF subscribe, subscribeFront, unsubscribe
<1>4. CASE start
  BY <1>4 DEF start, implStart, managerStart, threadVars, WakeTypes, ReaderSound, TokenForChanged,
              NumbersMeet, Readers
<1>5. CASE stop
  BY <1>5 DEF stop, threadVars, WakeTypes, ReaderSound, TokenForChanged, NumbersMeet
<1>6. CASE onixCalls \/ historicalCalls
  BY <1>1, <1>6 DEF onixCalls, historicalCalls
<1>7. ASSUME NEW ch \in Channels, onProcessingEnd(ch) \/ onQuoteDirect(ch) PROVE WakeInv'
  BY <1>1, <1>7 DEF onProcessingEnd, onQuoteDirect
<1>8. ASSUME NEW ch \in Channels, push(ch) PROVE WakeInv'
  BY <1>8 DEF push, WakeTypes, ReaderSound, TokenForChanged, NumbersMeet
<1>9. CASE readToken
  BY <1>9 DEF readToken, WakeTypes, ReaderSound, TokenForChanged, NumbersMeet, Readers
<1>10. CASE clearPipe
  BY <1>10 DEF clearPipe, WakeTypes, ReaderSound, TokenForChanged, NumbersMeet, Readers
<1>11. CASE takeQuotes
  <2>1. DOMAIN Nothing = {} /\ Nothing = [i \in DOMAIN Nothing |-> Nothing[i]]
    BY DEF Nothing
  <2>2. reader' \in {"reading", "copying", "done"} /\ (reader' # "copying" => changed = Nothing)
    BY <1>11 DEF takeQuotes, Again
  <2> QED BY <1>11, <2>1, <2>2
          DEF takeQuotes, WakeTypes, ReaderSound, TokenForChanged, NumbersMeet, Readers
<1>12. CASE publisherSteps
  BY <1>1, <1>12 DEF publisherSteps
<1> QED BY <1>2, <1>3, <1>4, <1>5, <1>6, <1>7, <1>8, <1>9, <1>10, <1>11, <1>12, ThreadedWakes, CopyWakes DEF Next

LEMMA WakeInvariant == Spec => []WakeInv
<1> QED BY InitWake, NextWakes, PTL DEF Spec

(* No wake-up is lost, whatever the channels' threads, the pipe and the    *)
(* manager's thread do: NoLostWakeup holds in every state.                 *)
THEOREM WakeUpsKept == Spec => []NoLostWakeup
<1>1. WakeInv => NoLostWakeup
  <2>1. \A f : f = [i \in DOMAIN f |-> f[i]] /\ DOMAIN f = {} => f = Nothing
    BY DEF Nothing
  <2>2. WakeInv /\ DOMAIN changed = {} => changed = Nothing
    BY <2>1 DEF WakeInv, WakeTypes
  <2>3. ASSUME WakeInv, reader = "reading", pipe = 0, owed = {}
        PROVE  DOMAIN changed = {} /\ DOMAIN taken = {}
    <3>1. ~(pipe > 0) /\ reader \notin {"clearing", "taking"} /\ reader # "copying"
      BY <2>3
    <3> QED BY <2>3, <3>1, Zenon DEF WakeInv, ReaderSound, TokenForChanged
  <2> QED BY <2>2, <2>3 DEF WakeInv, NumbersMeet, NoLostWakeup
<1> QED BY <1>1, WakeInvariant, PTL
-----------------------------------------------------------------------------
(***************************************************************************)
(* Quotes                                                                  *)
(***************************************************************************)

TradeCalls == {m \in Calls : m.kind = "trade"}
Bits == ({"price", "size"} \X Cells) \cup (({"trade"} \cup OHL) \X {NoCell})
Level == [price : Int, size : Int]
Conditions == {"Unknown"} \cup {m.condition : m \in TradeCalls}
Ticks == {"Unknown"} \cup {m.tick : m \in TradeCalls}
Trade == [price : Prices \cup {Inv}, size : Nat, condition : Conditions, side : Sides, tick : Ticks]
Quote ==
    {q \in [id : Instruments, status : Statuses, flags : SUBSET Bits, trade : Trade,
            book : [Cells -> Level], ohl : [OHL -> Int]] :
        isTrade(q) => q.trade.price \in Prices}

(* The market a quote shows.                                               *)
View(q) == [book |-> q.book, ohl |-> q.ohl]

(* The same quote but for its status.                                      *)
Alike(q, r) == r.id = q.id /\ r.flags = q.flags /\ r.trade = q.trade /\ r.book = q.book /\ r.ohl = q.ohl

(* b flags every field in which it differs from a.                         *)
Follows(a, b) ==
    /\ \A c \in Cells : /\ <<"price", c>> \notin b.flags => a.book[c].price = b.book[c].price
                        /\ <<"size", c>> \notin b.flags => a.book[c].size = b.book[c].size
    /\ \A f \in OHL : ohlBits(f) \notin b.flags => a.ohl[f] = b.ohl[f]

(* u is q with changes, all of them flagged.                               *)
Grows(q, u) == u \in Quote /\ u.id = q.id /\ q.flags \subseteq u.flags /\ Follows(q, u)

LEMMA QuoteFields ==
    ASSUME NEW q \in Quote
    PROVE  /\ q.id \in Instruments /\ q.status \in Statuses /\ q.flags \in SUBSET Bits
           /\ q.trade \in Trade /\ q.book \in [Cells -> Level] /\ q.ohl \in [OHL -> Int]
           /\ isTrade(q) => q.trade.price \in Prices
BY DEF Quote

LEMMA BitsDiffer ==
    /\ \A c \in Cells : /\ <<"price", c>> # tradeBits /\ <<"size", c>> # tradeBits
                        /\ <<"price", c>> \in Bits /\ <<"size", c>> \in Bits
    /\ \A f \in OHL : ohlBits(f) # tradeBits /\ ohlBits(f) \in Bits
    /\ \A f \in OHL, c \in Cells : ohlBits(f) # <<"price", c>> /\ ohlBits(f) # <<"size", c>>
    /\ tradeBits \in Bits
BY DEF tradeBits, ohlBits, Bits, OHL, NoCell

LEMMA SetStatusQuote ==
    ASSUME NEW q \in Quote, NEW v \in Statuses
    PROVE  [q EXCEPT !.status = v] \in Quote /\ Alike(q, [q EXCEPT !.status = v])
BY DEF Quote, Alike, isTrade

LEMMA SetPricesQuote ==
    ASSUME NEW q \in Quote, NEW b, NEW cells \in SUBSET Cells, \A c \in cells : b[c].price \in Int
    PROVE  LET r == setPrices(q, b, cells)
           IN  /\ r \in Quote /\ r.id = q.id /\ r.status = q.status /\ r.trade = q.trade /\ r.ohl = q.ohl
               /\ r.flags = q.flags \cup priceBits(cells) /\ (isTrade(r) <=> isTrade(q))
               /\ \A c \in Cells : /\ r.book[c].size = q.book[c].size
                                   /\ r.book[c].price = IF c \in cells THEN b[c].price ELSE q.book[c].price
<1> DEFINE bk == [c \in Cells |-> IF c \in cells THEN [q.book[c] EXCEPT !.price = b[c].price] ELSE q.book[c]]
           fl == q.flags \cup priceBits(cells)
           r == setPrices(q, b, cells)
<1>1. r = [q EXCEPT !.book = bk, !.flags = fl]
  BY DEF setPrices, Quote
<1>2. bk \in [Cells -> Level]
  BY DEF Quote, Level
<1>3. fl \in SUBSET Bits /\ (tradeBits \in fl <=> tradeBits \in q.flags)
  BY DEF Quote, Bits, priceBits, tradeBits
<1>4. \A c \in Cells : /\ bk[c].size = q.book[c].size
                      /\ bk[c].price = IF c \in cells THEN b[c].price ELSE q.book[c].price
  BY DEF Quote, Level
<1> HIDE DEF bk, fl
<1>5. /\ r.id = q.id /\ r.status = q.status /\ r.trade = q.trade /\ r.ohl = q.ohl
      /\ r.flags = fl /\ r.book = bk
  BY <1>1 DEF Quote
<1>6. r \in Quote
  BY <1>1, <1>2, <1>3, <1>5 DEF Quote, isTrade
<1> QED BY <1>3, <1>4, <1>5, <1>6 DEF fl, isTrade

LEMMA SetSizesQuote ==
    ASSUME NEW q \in Quote, NEW b, NEW cells \in SUBSET Cells, \A c \in cells : b[c].size \in Int
    PROVE  LET r == setSizes(q, b, cells)
           IN  /\ r \in Quote /\ r.id = q.id /\ r.status = q.status /\ r.trade = q.trade /\ r.ohl = q.ohl
               /\ r.flags = q.flags \cup sizeBits(cells) /\ (isTrade(r) <=> isTrade(q))
               /\ \A c \in Cells : /\ r.book[c].price = q.book[c].price
                                   /\ r.book[c].size = IF c \in cells THEN b[c].size ELSE q.book[c].size
<1> DEFINE bk == [c \in Cells |-> IF c \in cells THEN [q.book[c] EXCEPT !.size = b[c].size] ELSE q.book[c]]
           fl == q.flags \cup sizeBits(cells)
           r == setSizes(q, b, cells)
<1>1. r = [q EXCEPT !.book = bk, !.flags = fl]
  BY DEF setSizes, Quote
<1>2. bk \in [Cells -> Level]
  BY DEF Quote, Level
<1>3. fl \in SUBSET Bits /\ (tradeBits \in fl <=> tradeBits \in q.flags)
  BY DEF Quote, Bits, sizeBits, tradeBits
<1>4. \A c \in Cells : /\ bk[c].price = q.book[c].price
                      /\ bk[c].size = IF c \in cells THEN b[c].size ELSE q.book[c].size
  BY DEF Quote, Level
<1> HIDE DEF bk, fl
<1>5. /\ r.id = q.id /\ r.status = q.status /\ r.trade = q.trade /\ r.ohl = q.ohl
      /\ r.flags = fl /\ r.book = bk
  BY <1>1 DEF Quote
<1>6. r \in Quote
  BY <1>1, <1>2, <1>3, <1>5 DEF Quote, isTrade
<1> QED BY <1>3, <1>4, <1>5, <1>6 DEF fl, isTrade

LEMMA SetTradeQuote ==
    ASSUME NEW q \in Quote, NEW p \in Prices, NEW n \in Nat
    PROVE  LET r == setTrade(q, p, n)
           IN  /\ r \in Quote /\ r.id = q.id /\ r.status = q.status /\ r.book = q.book /\ r.ohl = q.ohl
               /\ r.flags = q.flags \cup {tradeBits} /\ r.trade.price = p /\ r.trade.size = n
               /\ r.trade.side = q.trade.side
<1> DEFINE r == setTrade(q, p, n)  t == [q.trade EXCEPT !.price = p, !.size = n]
<1>1. r = [q EXCEPT !.trade = t, !.flags = q.flags \cup {tradeBits}]
  BY DEF setTrade, Quote, Trade
<1>2. t \in Trade /\ t.price = p /\ t.size = n /\ t.side = q.trade.side
  BY DEF Quote, Trade
<1> HIDE DEF t
<1>3. /\ r.id = q.id /\ r.status = q.status /\ r.book = q.book /\ r.ohl = q.ohl /\ r.trade = t
      /\ r.flags = q.flags \cup {tradeBits}
  BY <1>1 DEF Quote
<1>4. r \in Quote
  BY <1>1, <1>2, <1>3, BitsDiffer DEF Quote, isTrade
<1> QED BY <1>2, <1>3, <1>4

LEMMA SetOHLQuote ==
    ASSUME NEW q \in Quote, NEW f \in OHL, NEW p \in Int
    PROVE  LET r == setOHL(q, f, p)
           IN  /\ Grows(q, r) /\ r.book = q.book /\ r.trade = q.trade /\ (isTrade(r) <=> isTrade(q))
               /\ r.flags = q.flags \cup {ohlBits(f)}
<1> DEFINE r == setOHL(q, f, p)  o == [q.ohl EXCEPT ![f] = p]
<1>1. r = [q EXCEPT !.ohl = o, !.flags = q.flags \cup {ohlBits(f)}]
  BY DEF setOHL, Quote
<1>2. o \in [OHL -> Int] /\ \A g \in OHL : g # f => o[g] = q.ohl[g]
  BY DEF Quote
<1> HIDE DEF o
<1>3. /\ r.id = q.id /\ r.status = q.status /\ r.book = q.book /\ r.trade = q.trade /\ r.ohl = o
      /\ r.flags = q.flags \cup {ohlBits(f)}
  BY <1>1 DEF Quote
<1>4. r \in Quote /\ (isTrade(r) <=> isTrade(q))
  BY <1>1, <1>2, <1>3, BitsDiffer DEF Quote, isTrade
<1> QED BY <1>2, <1>3, <1>4 DEF Grows, Follows

LEMMA ClearQuote ==
    ASSUME NEW q \in Quote
    PROVE  LET r == clearRuntime(q)
           IN  /\ r \in Quote /\ r.id = q.id /\ r.flags = {} /\ r.trade = q.trade /\ r.book = q.book /\ r.ohl = q.ohl
               /\ r.status = "Success"
BY DEF clearRuntime, Quote, isTrade, Statuses
(* A quote that follows another and flags nothing shows the same market.   *)
LEMMA FollowsBare ==
    ASSUME NEW a \in Quote, NEW b \in Quote, b.flags = {}, Follows(a, b)
    PROVE  View(a) = View(b)
<1>1. ASSUME NEW c \in Cells PROVE a.book[c] = b.book[c]
  BY <1>1 DEF Follows, Quote, Level
<1>2. a.book = b.book
  BY <1>1 DEF Quote
<1>3. a.ohl = b.ohl
  BY DEF Follows, Quote
<1> QED BY <1>2, <1>3 DEF View

LEMMA FollowsView ==
    ASSUME NEW a, NEW b, NEW q, View(a) = View(b)
    PROVE  /\ a.book = b.book /\ a.ohl = b.ohl
           /\ Follows(a, q) <=> Follows(b, q)
           /\ Follows(a, b)
<1>1. a.book = b.book /\ a.ohl = b.ohl
  BY DEF View
<1> QED BY <1>1 DEF Follows

LEMMA FollowsGrows ==
    ASSUME NEW a, NEW q, NEW u, Follows(a, q), Grows(q, u)
    PROVE  Follows(a, u)
BY DEF Follows, Grows

LEMMA AlikeGrows ==
    ASSUME NEW q \in Quote, NEW r \in Quote, Alike(q, r)
    PROVE  Grows(q, r) /\ View(r) = View(q) /\ (isTrade(r) <=> isTrade(q)) /\ (isChanged(r) <=> isChanged(q))
BY DEF Alike, Grows, View, Follows, isTrade, isChanged

LEMMA CheckQuote ==
    ASSUME NEW q \in Quote, NEW new, NEW old
    PROVE  /\ checkGappedQuote(q, new, old) \in Quote /\ Alike(q, checkGappedQuote(q, new, old))
           /\ checkGappedTrade(q, new) \in Quote /\ Alike(q, checkGappedTrade(q, new))
<1>1. "PriceGap" \in Statuses /\ Alike(q, q)
  BY DEF Statuses, Alike
<1> QED BY <1>1, SetStatusQuote DEF checkGappedQuote, checkGappedTrade

LEMMA BookUpdateQuote ==
    ASSUME NEW q \in Quote, NEW b, \A c \in Cells \cap DOMAIN b : b[c] \in [price : Int, size : Nat]
    PROVE  LET u == BookUpdate(q, b)
           IN  /\ Grows(q, u) /\ u.trade = q.trade /\ (isTrade(u) <=> isTrade(q))
               /\ \A c \in Cells \cap DOMAIN b : b[c].size > 0 => u.book[c] = b[c]
<1> DEFINE cells  == {c \in Cells \cap DOMAIN b : b[c].size > 0}
           prices == {c \in cells : b[c].price # q.book[c].price}
           sizes  == {c \in cells : b[c].size # q.book[c].size}
           check(r, c) == IF c \in prices THEN checkGappedQuote(r, b[c].price, q.book[c].price) ELSE r
           q1 == check(q, <<1, "bid">>)
           q2 == check(q1, <<1, "ask">>)
           q3 == setPrices(q2, b, prices)
           u == setSizes(q3, b, sizes)
<1>1. BookUpdate(q, b) = u
  BY DEF BookUpdate
<1>2. q1 \in Quote /\ Alike(q, q1)
  BY CheckQuote DEF Alike
<1> HIDE DEF q1
<1>3. q2 \in Quote /\ Alike(q, q2)
  <2>1. q2 \in Quote /\ Alike(q1, q2)
    BY <1>2, CheckQuote DEF Alike
  <2> QED BY <1>2, <2>1 DEF Alike
<1> HIDE DEF q2
<1>4. prices \in SUBSET Cells /\ sizes \in SUBSET Cells /\ \A c \in cells : b[c].price \in Int /\ b[c].size \in Int
  OBVIOUS
<1>5. /\ q3 \in Quote /\ q3.id = q.id /\ q3.trade = q.trade /\ q3.ohl = q.ohl
      /\ q3.flags = q.flags \cup priceBits(prices) /\ (isTrade(q3) <=> isTrade(q))
      /\ \A c \in Cells : /\ q3.book[c].size = q.book[c].size
                          /\ q3.book[c].price = IF c \in prices THEN b[c].price ELSE q.book[c].price
  <2>1. isTrade(q2) <=> isTrade(q)
    BY <1>3 DEF Alike, isTrade
  <2> QED BY <1>3, <1>4, <2>1, SetPricesQuote DEF Alike
<1> HIDE DEF q3, prices, sizes, cells
<1>6. /\ u \in Quote /\ u.id = q.id /\ u.trade = q.trade /\ u.ohl = q.ohl
      /\ u.flags = q.flags \cup priceBits(prices) \cup sizeBits(sizes) /\ (isTrade(u) <=> isTrade(q))
      /\ \A c \in Cells : /\ u.book[c].price = IF c \in prices THEN b[c].price ELSE q.book[c].price
                          /\ u.book[c].size = IF c \in sizes THEN b[c].size ELSE q.book[c].size
  <2>1. sizes \in SUBSET Cells /\ \A c \in sizes : b[c].size \in Int
    BY <1>4 DEF sizes
  <2> QED BY <1>5, <2>1, SetSizesQuote
<1> HIDE DEF u
<1>7. Follows(q, u)
  <2>1. ASSUME NEW c \in Cells
        PROVE  /\ <<"price", c>> \notin u.flags => q.book[c].price = u.book[c].price
               /\ <<"size", c>> \notin u.flags => q.book[c].size = u.book[c].size
    <3>1. c \in prices => <<"price", c>> \in u.flags
      BY <1>6 DEF priceBits
    <3>2. c \in sizes => <<"size", c>> \in u.flags
      BY <1>6 DEF sizeBits
    <3> QED BY <1>6, <3>1, <3>2
  <2> QED BY <1>6, <2>1 DEF Follows
<1>8. ASSUME NEW c \in Cells \cap DOMAIN b, b[c].size > 0 PROVE u.book[c] = b[c]
  <2>1. c \in cells
    BY <1>8 DEF cells
  <2>2. u.book[c].price = b[c].price
    BY <1>6, <2>1 DEF prices
  <2>3. u.book[c].size = b[c].size
    BY <1>6, <2>1 DEF sizes
  <2>4. u.book[c] \in Level
    BY <1>6 DEF Quote
  <2> QED BY <2>2, <2>3, <2>4 DEF Level
<1> QED BY <1>1, <1>6, <1>7, <1>8 DEF Grows

LEMMA UpdateSubscribersQuote ==
    ASSUME NEW q \in Quote, NEW slow
    PROVE  LET r == updateSubscribers(q, slow)
           IN  /\ ~isChanged(q) => r.quote = q /\ r.out = <<>>
               /\ isChanged(q) => /\ r.quote = clearRuntime(q)
                                  /\ \E x \in Quote : Alike(q, x) /\ r.out = <<x>>
<1>1. "ExchangeSlow" \in Statuses /\ Alike(q, q)
  BY DEF Statuses, Alike
<1> DEFINE x == IF slow THEN [q EXCEPT !.status = "ExchangeSlow"] ELSE q
<1>2. x \in Quote /\ Alike(q, x)
  BY <1>1, SetStatusQuote
<1> HIDE DEF x
<1>3. updateSubscribers(q, slow) =
        IF ~isChanged(q) THEN [quote |-> q, out |-> <<>>] ELSE [quote |-> clearRuntime(q), out |-> <<x>>]
  BY DEF updateSubscribers, x
<1> QED BY <1>2, <1>3
(* What the attributes of a trade may be set to.                           *)
LEMMA TradeCallTypes ==
    ASSUME NEW m \in Calls, m.kind = "trade"
    PROVE  /\ m.i \in Instruments /\ m.price \in Prices /\ m.price \in Int /\ m.size \in Nat /\ m.side \in Sides
           /\ m.condition \in Conditions /\ m.tick \in Ticks
<1>1. m.i \in Instruments /\ m.price \in Int /\ m.size \in Nat /\ m.side \in {"Buy", "Sell", "Unknown"}
  BY FeedAssumption
<1>2. m \in TradeCalls /\ m.price \in Prices
  BY DEF TradeCalls, Prices
<1> QED BY <1>1, <1>2 DEF Sides, Conditions, Ticks

(* A quote with another trade, and with other attributes of its trade.     *)
WithTrade(q, v) == [q EXCEPT !.trade = v]
WithAttributes(q, m) == [q EXCEPT !.trade.condition = m.condition, !.trade.side = m.side, !.trade.tick = m.tick]
WithTick(q, k) == [q EXCEPT !.trade.tick = k]
WithTickSize(q, k, n) == [q EXCEPT !.trade.tick = k, !.trade.size = @ + n]

LEMMA TradeQuote ==
    ASSUME NEW q \in Quote, NEW v \in Trade, v.price = q.trade.price
    PROVE  LET r == WithTrade(q, v)
           IN  r \in Quote /\ r.id = q.id /\ r.flags = q.flags /\ r.book = q.book /\ r.ohl = q.ohl /\ r.trade = v
BY DEF Quote, isTrade, WithTrade

LEMMA AttributesQuote ==
    ASSUME NEW q \in Quote, NEW m \in Calls, m.kind = "trade"
    PROVE  LET r == WithAttributes(q, m)
           IN  /\ r \in Quote /\ r.id = q.id /\ r.flags = q.flags /\ r.book = q.book /\ r.ohl = q.ohl
               /\ r.trade.price = q.trade.price /\ r.trade.size = q.trade.size /\ r.trade.side = m.side
<1> DEFINE t == [q.trade EXCEPT !.condition = m.condition, !.side = m.side, !.tick = m.tick]
<1>1. q.trade \in Trade
  BY DEF Quote
<1>2. t \in Trade /\ t.price = q.trade.price /\ t.size = q.trade.size /\ t.side = m.side
  BY <1>1, TradeCallTypes DEF Trade
<1>3. WithAttributes(q, m) = WithTrade(q, t)
  BY <1>1 DEF Quote, Trade, WithTrade, WithAttributes
<1> HIDE DEF t
<1> QED BY <1>2, <1>3, TradeQuote

LEMMA TickQuote ==
    ASSUME NEW q \in Quote, NEW k \in Ticks
    PROVE  LET r == WithTick(q, k)
           IN  /\ r \in Quote /\ r.id = q.id /\ r.flags = q.flags /\ r.book = q.book /\ r.ohl = q.ohl
               /\ r.trade.price = q.trade.price /\ r.trade.size = q.trade.size
<1> DEFINE t == [q.trade EXCEPT !.tick = k]
<1>1. q.trade \in Trade
  BY DEF Quote
<1>2. t \in Trade /\ t.price = q.trade.price /\ t.size = q.trade.size
  BY <1>1 DEF Trade
<1>3. WithTick(q, k) = WithTrade(q, t)
  BY <1>1 DEF Quote, Trade, WithTrade, WithTick
<1> HIDE DEF t
<1> QED BY <1>2, <1>3, TradeQuote

LEMMA TickSizeQuote ==
    ASSUME NEW q \in Quote, NEW k \in Ticks, NEW n \in Nat
    PROVE  LET r == WithTickSize(q, k, n)
           IN  /\ r \in Quote /\ r.id = q.id /\ r.flags = q.flags /\ r.book = q.book /\ r.ohl = q.ohl
               /\ r.trade.price = q.trade.price /\ r.trade.size = q.trade.size + n
<1> DEFINE z == q.trade.size + n
           t == [q.trade EXCEPT !.tick = k, !.size = z]
<1>1. q.trade \in Trade
  BY DEF Quote
<1>2. z \in Nat
  BY <1>1 DEF Trade
<1>3. WithTickSize(q, k, n) = WithTrade(q, t)
  BY <1>1 DEF Quote, Trade, WithTrade, WithTickSize
<1> HIDE DEF z
<1>4. t \in Trade /\ t.price = q.trade.price /\ t.size = z
  BY <1>1, <1>2 DEF Trade
<1> HIDE DEF t
<1>5. z = q.trade.size + n
  BY DEF z
<1> QED BY <1>3, <1>4, <1>5, TradeQuote

(* onTrade: the new trade is pending; if another one was, it is passed on  *)
(* or takes the new size.                                                  *)
LEMMA TradeUpdateQuote ==
    ASSUME NEW q \in Quote, NEW m \in Calls, m.kind = "trade"
    PROVE  LET r == TradeUpdate(q, m)  u == r.quote
           IN  /\ u \in Quote /\ u.id = q.id /\ u.book = q.book /\ u.ohl = q.ohl /\ isTrade(u)
               /\ u.trade.price = m.price
               /\ ~isTrade(q) => /\ u.flags = q.flags \cup {tradeBits} /\ r.out = <<>>
                                 /\ u.trade.size = m.size /\ u.trade.side = m.side
               /\ isTrade(q) /\ m.price = q.trade.price =>
                     u.flags = q.flags /\ r.out = <<>> /\ u.trade.size = q.trade.size + m.size
               /\ isTrade(q) /\ m.price # q.trade.price =>
                     /\ u.flags = {tradeBits} /\ u.trade.size = m.size
                     /\ \E x \in Quote : /\ r.out = <<x>> /\ x.id = q.id /\ x.flags = q.flags /\ View(x) = View(q)
                                         /\ x.trade.price = q.trade.price /\ x.trade.size = q.trade.size
<1> DEFINE q1 == WithAttributes(q, m)
           r == checkGappedTrade(q1, m.price)
           old == q.trade.tick
           q2 == WithTick(r, old)
           flushed == updateSubscribers(q2, m.slow)
<1>1. /\ m.price \in Prices /\ m.size \in Nat
  BY TradeCallTypes
<1>2. /\ q1 \in Quote /\ q1.id = q.id /\ q1.flags = q.flags /\ q1.book = q.book /\ q1.ohl = q.ohl
      /\ q1.trade.price = q.trade.price /\ q1.trade.size = q.trade.size /\ q1.trade.side = m.side
  BY AttributesQuote
<1> HIDE DEF q1
<1>3. /\ r \in Quote /\ r.id = q.id /\ r.flags = q.flags /\ r.book = q.book /\ r.ohl = q.ohl
      /\ r.trade.price = q.trade.price /\ r.trade.size = q.trade.size /\ r.trade.side = m.side
  BY <1>2, CheckQuote DEF Alike
<1> HIDE DEF r
<1>4. old \in Ticks /\ m.tick \in Ticks
  BY TradeCallTypes DEF Quote, Trade
<1>6. CASE ~isTrade(q)
  <2>1. TradeUpdate(q, m) = [quote |-> setTrade(r, m.price, m.size), out |-> <<>>]
    BY <1>6 DEF TradeUpdate, r, q1, WithAttributes
  <2> QED BY <1>1, <1>3, <1>6, <2>1, SetTradeQuote DEF isTrade
<1>7. CASE isTrade(q) /\ m.price = q.trade.price
  <2> DEFINE u == WithTickSize(r, old, m.size)
  <2>1. TradeUpdate(q, m) = [quote |-> u, out |-> <<>>]
    BY <1>7 DEF TradeUpdate, r, q1, WithAttributes, WithTickSize
  <2> HIDE DEF old
  <2>3. /\ u \in Quote /\ u.id = q.id /\ u.flags = q.flags /\ u.book = q.book /\ u.ohl = q.ohl
        /\ u.trade.price = q.trade.price /\ u.trade.size = q.trade.size + m.size
    BY <1>1, <1>3, <1>4, TickSizeQuote, SMTT(40)
  <2> QED BY <1>7, <2>1, <2>3 DEF isTrade
<1>8. CASE isTrade(q) /\ m.price # q.trade.price
  <2>1. TradeUpdate(q, m) = [quote |-> setTrade(WithTick(flushed.quote, m.tick), m.price, m.size),
                             out |-> flushed.out]
    BY <1>8 DEF TradeUpdate, r, q1, WithAttributes, WithTick
  <2> HIDE DEF old
  <2>2. /\ q2 \in Quote /\ q2.id = q.id /\ q2.flags = q.flags /\ q2.book = q.book /\ q2.ohl = q.ohl
        /\ q2.trade.price = q.trade.price /\ q2.trade.size = q.trade.size
    BY <1>3, <1>4, TickQuote
  <2> HIDE DEF q2
  <2>3. isChanged(q2)
    BY <1>8, <2>2 DEF isChanged, isTrade
  <2>4. /\ flushed.quote = clearRuntime(q2)
        /\ \E x \in Quote : Alike(q2, x) /\ flushed.out = <<x>>
    BY <2>2, <2>3, UpdateSubscribersQuote
  <2> HIDE DEF flushed
  <2> DEFINE w == WithTick(flushed.quote, m.tick)
  <2>5. /\ w \in Quote /\ w.id = q.id /\ w.flags = {} /\ w.book = q.book /\ w.ohl = q.ohl
    <3>1. /\ flushed.quote \in Quote /\ flushed.quote.id = q.id /\ flushed.quote.flags = {}
          /\ flushed.quote.book = q.book /\ flushed.quote.ohl = q.ohl
      BY <2>2, <2>4, ClearQuote
    <3> QED BY <1>4, <3>1, TickQuote
  <2> HIDE DEF w
  <2>6. LET u == setTrade(w, m.price, m.size)
        IN  /\ u \in Quote /\ u.id = q.id /\ u.book = q.book /\ u.ohl = q.ohl /\ u.flags = {tradeBits}
            /\ u.trade.price = m.price /\ u.trade.size = m.size
    BY <1>1, <2>5, SetTradeQuote
  <2>7. \E x \in Quote : /\ flushed.out = <<x>> /\ x.id = q.id /\ x.flags = q.flags /\ View(x) = View(q)
                         /\ x.trade.price = q.trade.price /\ x.trade.size = q.trade.size
    BY <2>2, <2>4 DEF Alike, View
  <2> QED BY <1>8, <2>1, <2>6, <2>7 DEF isTrade, w
<1> QED BY <1>6, <1>7, <1>8

-----------------------------------------------------------------------------
(***************************************************************************)
(* What the feed's threads do to an instrument                             *)
(***************************************************************************)

Books == {Nothing} \cup {m.book : m \in {d \in Calls : d.kind = "book"}} \cup [Cells -> Level]
Volumes == [Prices \X Sides -> Nat]
Views == [book : [Cells -> Level], ohl : [OHL -> Int]]

Store == {f \in [Instruments -> Quote] : \A i \in Instruments : f[i].id = i}

FeedTypes ==
    /\ conf \in Confs
    /\ quotes \in Store /\ server \in Store
    /\ updated \in [Channels -> SUBSET Instruments]
    /\ out \in [Channels -> Seq(Quote)]

HistTypes ==
    hist \in [calls : Nat, subs : Nat, books : [Instruments -> Books],
              wire : [Instruments -> Volumes], told : [Instruments -> Volumes],
              repeated : SUBSET Instruments, covered : SUBSET Instruments, refused : SUBSET Instruments]

(* The quotes of i that its channel's thread is about to pass on.          *)
WaitsIn(s, i) == {x \in ToSet(s) : x.id = i}
Waits(i) == WaitsIn(out[ChannelOf[i]], i)

(* A thread passes a quote on at most once at a time, as it is now, and no *)
(* quote of another channel.                                               *)
IdsOnce(s) == \A k, l \in DOMAIN s : s[k].id = s[l].id => k = l
OutSound ==
    /\ \A ch \in Channels : IdsOnce(out[ch]) /\ \A k \in DOMAIN out[ch] : ChannelOf[out[ch][k].id] = ch
    /\ \A i \in Instruments : \A x \in Waits(i) : View(x) = View(quotes[i])

(* The quote with the changes nobody was told of yet: only ChannelPfOnix   *)
(* keeps any from one callback to the next.                                *)
Pending(i) == IF conf.impl = "Onix" THEN quotes[i] ELSE clearRuntime(quotes[i])
PendingKnown ==
    /\ \A ch \in Channels : \A i \in updated[ch] : conf.coalesce /\ ChannelOf[i] = ch
    /\ phase \in {"idle", "active"} => \A i \in Instruments : isChanged(Pending(i)) => i \in updated[ChannelOf[i]]

(* The quote's book is the exchange's, wherever that has an order.         *)
BookMatches(b, w) ==
    \A c \in Cells \cap DOMAIN w :
        CASE conf.impl # "Nanex" -> w[c].size > 0 => b[c] = w[c]
          [] conf.impl = "Nanex" -> c[1] = 1 => b[c] = w[c]
BooksMatch == \A i \in Instruments : BookMatches(quotes[i].book, hist.books[i])

FeedSound == FeedTypes /\ OutSound /\ PendingKnown

(* What a callback makes of the quote u of i: u waits for the end of its   *)
(* message, or is passed on and cleared.                                   *)
Becomes(i, u) ==
    \/ Waits(i)' = {} /\ quotes'[i] = u
    \/ /\ isChanged(u) /\ quotes'[i] = clearRuntime(u)
       /\ \E x \in Quote : Waits(i)' = {x} /\ Alike(u, x)

(* A callback leaves an instrument alone, or its quote becomes u: its      *)
(* changes are all flagged, and u waits or is passed on.                   *)
Rests(i) ==
    quotes'[i] = quotes[i] /\ Waits(i)' = Waits(i) /\ hist'.books[i] = hist.books[i]
Moves(i) ==
    /\ Waits(i) = {}
    /\ \E u \in Quote :
          /\ View(quotes'[i]) = View(u)
          /\ conf.impl # "AMR" => Grows(Pending(i), u)
          /\ \/ Waits(i)' = {} /\ Pending(i)'.flags = u.flags /\ conf.impl # "AMR"
             \/ \E x \in Quote : /\ Waits(i)' = {x} /\ x.flags = u.flags /\ View(x) = View(u)
                                 /\ conf.impl = "AMR" => Publishable(x)
    /\ \/ hist'.books[i] = hist.books[i] /\ quotes'[i].book = quotes[i].book
       \/ BookMatches(quotes'[i].book, hist'.books[i])
FeedSteps == \A i \in Instruments : Rests(i) \/ Moves(i)

LEMMA StoreQuotes ==
    ASSUME NEW f \in Store, NEW i \in Instruments
    PROVE  f[i] \in Quote /\ f[i].id = i
BY DEF Store

LEMMA StoreSet ==
    ASSUME NEW f \in Store, NEW i \in Instruments, NEW q \in Quote, q.id = i, NEW g, g = [f EXCEPT ![i] = q]
    PROVE  g \in Store /\ g[i] = q /\ \A j \in Instruments \ {i} : g[j] = f[j]
BY DEF Store

LEMMA PendingQuote ==
    ASSUME FeedTypes, NEW i \in Instruments
    PROVE  /\ Pending(i) \in Quote /\ Pending(i).id = i /\ View(Pending(i)) = View(quotes[i])
           /\ conf.impl = "Onix" => Pending(i) = quotes[i]
           /\ conf.impl # "Onix" => Pending(i).flags = {}
<1>1. quotes[i] \in Quote /\ quotes[i].id = i
  BY StoreQuotes DEF FeedTypes
<1> QED BY <1>1, ClearQuote DEF Pending, View

LEMMA WaitsOfOne ==
    ASSUME NEW s, NEW i
    PROVE  /\ s = <<>> => WaitsIn(s, i) = {} /\ IdsOnce(s)
           /\ \A x : s = <<x>> => (x.id = i => WaitsIn(s, i) = {x}) /\ (x.id # i => WaitsIn(s, i) = {}) /\ IdsOnce(s)
BY DEF WaitsIn, ToSet, IdsOnce

(* s passes on at most one quote, of i, which shows what v does.           *)
AtMostOne(s, i, v) == s = <<>> \/ \E x \in Quote : s = <<x>> /\ x.id = i /\ View(x) = View(v)

(* A callback that changes the quote of one instrument and passes on one   *)
(* quote of it or none, and what follows.                                  *)
Changes(i, v, s) ==
    /\ out[ChannelOf[i]] = <<>> /\ v \in Quote /\ v.id = i /\ AtMostOne(s, i, v)
    /\ quotes' = [quotes EXCEPT ![i] = v] /\ out' = [out EXCEPT ![ChannelOf[i]] = s]
Changed(i, v, s) ==
    /\ quotes' \in Store /\ out' \in [Channels -> Seq(Quote)] /\ OutSound'
    /\ quotes'[i] = v /\ \A j \in Instruments \ {i} : quotes'[j] = quotes[j] /\ Waits(j)' = Waits(j)
    /\ Waits(i) = {}
    /\ s = <<>> => Waits(i)' = {}
    /\ \A x : s = <<x>> => Waits(i)' = {x}
LEMMA OneStep ==
    ASSUME FeedTypes, OutSound, NEW i \in Instruments, NEW v, NEW s, Changes(i, v, s)
    PROVE  Changed(i, v, s)
<1> USE DEF Changes
<1> DEFINE ch == ChannelOf[i]
<1>0. s = <<>> \/ \E x \in Quote : s = <<x>> /\ x.id = i /\ View(x) = View(v)
  BY DEF AtMostOne
<1>1. /\ quotes' \in Store /\ quotes'[i] = v
      /\ \A j \in Instruments \ {i} : quotes'[j] = quotes[j]
  <2>1. quotes \in Store
    BY DEF FeedTypes
  <2> QED BY <2>1 DEF Store
<1>2. /\ out \in [Channels -> Seq(Quote)] /\ ch \in Channels /\ \A j \in Instruments : ChannelOf[j] \in Channels
  BY FeedAssumption DEF FeedTypes
<1>3. s \in Seq(Quote) /\ \A x : s = <<x>> => x.id = i
  <2>1. \A x \in Quote : <<x>> \in Seq(Quote)
    OBVIOUS
  <2>2. \A x, y : <<x>> = <<y>> => x = y
    OBVIOUS
  <2>3. \A x : <<x>> # <<>>
    OBVIOUS
  <2>4. CASE s = <<>>
    BY <2>3, <2>4
  <2>5. ASSUME NEW x \in Quote, s = <<x>>, x.id = i PROVE s \in Seq(Quote) /\ \A y : s = <<y>> => y.id = i
    BY <2>1, <2>2, <2>5
  <2> QED BY <1>0, <2>4, <2>5
<1>4. /\ out' \in [Channels -> Seq(Quote)] /\ out'[ch] = s
      /\ \A c \in Channels \ {ch} : out'[c] = out[c]
  BY <1>2, <1>3
<1>5. /\ Waits(i) = {}
      /\ s = <<>> => Waits(i)' = {}
      /\ \A x : s = <<x>> => Waits(i)' = {x}
  BY <1>0, <1>2, <1>3, <1>4, WaitsOfOne DEF Waits
<1>6. ASSUME NEW j \in Instruments, j # i PROVE Waits(j)' = Waits(j)
  <2>1. CASE ChannelOf[j] = ch
    <3>1. Waits(j) = {}
      BY <2>1, WaitsOfOne DEF Waits
    <3>2. WaitsIn(s, j) = {}
      BY <1>0, <1>6, WaitsOfOne
    <3> QED BY <1>4, <2>1, <3>1, <3>2 DEF Waits
  <2>2. CASE ChannelOf[j] # ch
    BY <1>2, <1>4, <2>2 DEF Waits
  <2> QED BY <2>1, <2>2
<1>7. ASSUME NEW c \in Channels
      PROVE  (IdsOnce(out[c]) /\ \A k \in DOMAIN out[c] : ChannelOf[out[c][k].id] = c)'
  <2>1. CASE c = ch
    <3>1. IdsOnce(s)
      BY <1>0, WaitsOfOne
    <3>2. \A k \in DOMAIN s : s[k].id = i
      BY <1>0
    <3> QED BY <1>4, <2>1, <3>1, <3>2
  <2>2. CASE c # ch
    BY <1>4, <2>2 DEF OutSound
  <2> QED BY <2>1, <2>2
<1>8. ASSUME NEW j \in Instruments, NEW x \in Waits(j)' PROVE View(x) = View(quotes'[j])
  BY <1>0, <1>1, <1>5, <1>6, <1>8 DEF OutSound
<1>9. OutSound'
  BY <1>7, <1>8 DEF OutSound
<1> QED BY <1>1, <1>4, <1>5, <1>6, <1>9 DEF Changed

(* The orders of a set go through all of it.                               *)
LEMMA OrdersCover ==
    ASSUME NEW S, IsFiniteSet(S), NEW order \in SetToSeqs(S)
    PROVE  /\ Cardinality(S) \in Nat /\ order \in [1..Cardinality(S) -> S] /\ DOMAIN order = 1..Cardinality(S)
           /\ \A k, l \in DOMAIN order : order[k] = order[l] => k = l
           /\ \A x \in S : \E k \in DOMAIN order : order[k] = x
<1> DEFINE n == Cardinality(S)
<1>1. n \in Nat
  BY FS_CardinalityType
<1>2. /\ order \in [1..n -> S] /\ DOMAIN order = 1..n
      /\ \A k, l \in 1..n : order[k] = order[l] => k = l
  BY DEF SetToSeqs
<1>3. Cardinality(1..n) = n
  BY <1>1, FS_Interval
<1> HIDE DEF n
<1>4. order \in Injection(1..n, S)
  BY <1>2 DEF Injection, IsInjective
<1>5. order \in Surjection(1..n, S)
  BY <1>3, <1>4, FS_Injection DEF n
<1>6. \A x \in S : \E k \in 1..n : order[k] = x
  BY <1>5 DEF Surjection
<1> QED BY <1>1, <1>2, <1>6 DEF n

(* Quotes F of instruments S of channel ch, as they will be.               *)
NewQuotes(ch, S, F) ==
    /\ S \in SUBSET Instruments /\ F \in [S -> Quote]
    /\ \A j \in S : ChannelOf[j] = ch /\ F[j].id = j /\ View(F[j]) = View(quotes'[j])
    /\ quotes' \in Store
    /\ \A j \in Instruments : ChannelOf[j] # ch => quotes'[j] = quotes[j]

Along(order, F) == [k \in DOMAIN order |-> F[order[k]]]

(* A callback that passes on one quote of each instrument of S.            *)
LEMMA ManyStep ==
    ASSUME FeedTypes, OutSound, NEW ch \in Channels, out[ch] = <<>>, NEW S, NEW F, NewQuotes(ch, S, F),
           NEW order \in SetToSeqs(S), out' = [out EXCEPT ![ch] = Along(order, F)]
    PROVE  /\ out' \in [Channels -> Seq(Quote)] /\ OutSound'
           /\ \A j \in Instruments : ChannelOf[j] = ch => Waits(j) = {}
           /\ \A j \in S : Waits(j)' = {F[j]}
           /\ \A j \in Instruments \ S : Waits(j)' = Waits(j)
<1>0. /\ S \in SUBSET Instruments /\ F \in [S -> Quote]
      /\ \A j \in S : ChannelOf[j] = ch /\ F[j].id = j /\ View(F[j]) = View(quotes'[j])
      /\ quotes' \in Store
      /\ \A j \in Instruments : ChannelOf[j] # ch => quotes'[j] = quotes[j]
  BY DEF NewQuotes
<1> DEFINE s == Along(order, F)
<1>1. /\ Cardinality(S) \in Nat /\ order \in [1..Cardinality(S) -> S] /\ DOMAIN order = 1..Cardinality(S)
      /\ \A k, l \in DOMAIN order : order[k] = order[l] => k = l
      /\ \A x \in S : \E k \in DOMAIN order : order[k] = x
  <2>1. IsFiniteSet(S)
    BY <1>0, FeedAssumption, FS_Subset
  <2> QED BY <2>1, OrdersCover
<1>2. s \in Seq(Quote) /\ DOMAIN s = DOMAIN order /\ \A k \in DOMAIN s : s[k] = F[order[k]] /\ order[k] \in S
  <2>1. F \in [S -> Quote] /\ \A k \in DOMAIN order : order[k] \in S
    BY <1>0, <1>1
  <2>2. DOMAIN s = DOMAIN order /\ \A k \in DOMAIN s : s[k] = F[order[k]]
    BY DEF Along
  <2>3. s = [k \in 1..Cardinality(S) |-> F[order[k]]]
    BY <1>1 DEF Along
  <2> QED BY <1>1, <2>1, <2>2, <2>3
<1> HIDE DEF s
<1>3. IdsOnce(s)
  BY <1>0, <1>1, <1>2 DEF IdsOnce
<1>4. /\ \A j \in S : WaitsIn(s, j) = {F[j]}
      /\ \A j \in Instruments \ S : WaitsIn(s, j) = {}
  <2>1. ASSUME NEW j \in S PROVE WaitsIn(s, j) = {F[j]}
    <3>1. PICK k \in DOMAIN order : order[k] = j
      BY <1>1
    <3>2. F[j] \in WaitsIn(s, j)
      BY <1>0, <1>2, <3>1 DEF WaitsIn, ToSet
    <3>3. ASSUME NEW x \in WaitsIn(s, j) PROVE x = F[j]
      BY <1>0, <1>2, <3>3 DEF WaitsIn, ToSet
    <3> QED BY <3>2, <3>3
  <2>2. ASSUME NEW j \in Instruments \ S, NEW x \in WaitsIn(s, j) PROVE FALSE
    BY <1>0, <1>2, <2>2 DEF WaitsIn, ToSet
  <2> QED BY <2>1, <2>2
<1>5. /\ out' \in [Channels -> Seq(Quote)] /\ out'[ch] = s
      /\ \A c \in Channels \ {ch} : out'[c] = out[c]
  <2>1. out' = [out EXCEPT ![ch] = s]
    BY DEF s
  <2> QED BY <1>2, <2>1 DEF FeedTypes
<1>6. \A j \in Instruments : ChannelOf[j] \in Channels
  BY FeedAssumption
<1>7. \A j \in Instruments : ChannelOf[j] = ch => Waits(j) = {} /\ Waits(j)' = WaitsIn(s, j)
  BY <1>5, WaitsOfOne DEF Waits
<1>8. \A j \in Instruments : ChannelOf[j] # ch => Waits(j)' = Waits(j)
  BY <1>5, <1>6 DEF Waits
<1>9. ASSUME NEW c \in Channels
      PROVE  (IdsOnce(out[c]) /\ \A k \in DOMAIN out[c] : ChannelOf[out[c][k].id] = c)'
  <2>1. \A k \in DOMAIN s : ChannelOf[s[k].id] = ch
    BY <1>0, <1>2
  <2> QED BY <1>3, <1>5, <2>1 DEF OutSound
<1>10. ASSUME NEW j \in Instruments, NEW x \in Waits(j)' PROVE View(x) = View(quotes'[j])
  <2>1. CASE ChannelOf[j] # ch
    BY <1>0, <1>8, <1>10, <2>1 DEF OutSound
  <2>2. CASE ChannelOf[j] = ch
    BY <1>0, <1>4, <1>7, <1>10, <2>2
  <2> QED BY <2>1, <2>2
<1>11. OutSound'
  BY <1>9, <1>10 DEF OutSound
<1> QED BY <1>0, <1>4, <1>5, <1>7, <1>8, <1>11

(* The end of a callback for instrument i.                                 *)
LEMMA FinishMoves ==
    ASSUME FeedSound, UNCHANGED <<conf, phase, server>>, conf.impl = "Onix",
           NEW i \in Instruments, out[ChannelOf[i]] = <<>>,
           NEW u \in Quote, u.id = i, NEW slow, Finish(i, u, slow)
    PROVE  /\ FeedSound' /\ Waits(i) = {} /\ Becomes(i, u)
           /\ \A j \in Instruments \ {i} : quotes'[j] = quotes[j] /\ Waits(j)' = Waits(j)
<1> DEFINE ch == ChannelOf[i]  r == updateSubscribers(u, slow)
<1>1. /\ ch \in Channels /\ FeedTypes /\ OutSound
      /\ \A j \in Instruments : ChannelOf[j] \in Channels
  BY FeedAssumption DEF FeedSound
<1>2. CASE conf.coalesce
  <2>1. /\ quotes' = [quotes EXCEPT ![i] = u] /\ updated' = [updated EXCEPT ![ch] = @ \cup {i}]
        /\ out' = [out EXCEPT ![ch] = <<>>]
    <3>1. quotes' = [quotes EXCEPT ![i] = u] /\ updated' = [updated EXCEPT ![ch] = @ \cup {i}] /\ out' = out
      BY <1>2 DEF Finish
    <3> QED BY <1>1, <3>1 DEF FeedTypes
  <2>2. /\ quotes' \in Store /\ out' \in [Channels -> Seq(Quote)] /\ OutSound'
        /\ quotes'[i] = u /\ Waits(i) = {} /\ Waits(i)' = {}
        /\ \A j \in Instruments \ {i} : quotes'[j] = quotes[j] /\ Waits(j)' = Waits(j)
    <3>1. Changes(i, u, <<>>)
      BY <2>1 DEF AtMostOne, Changes
    <3>2. Changed(i, u, <<>>)
      BY <1>1, <3>1, OneStep
    <3> QED BY <3>2 DEF Changed
  <2>3. updated' \in [Channels -> SUBSET Instruments]
    BY <1>1, <2>1 DEF FeedTypes
  <2>4. PendingKnown'
    BY <1>1, <1>2, <2>1, <2>2 DEF FeedSound, FeedTypes, PendingKnown, Pending
  <2> QED BY <1>1, <2>2, <2>3, <2>4 DEF FeedSound, FeedTypes, Becomes
<1>3. CASE ~conf.coalesce
  <2>1. /\ quotes' = [quotes EXCEPT ![i] = r.quote] /\ updated' = updated
        /\ out' = [out EXCEPT ![ch] = r.out]
    BY <1>3 DEF Finish
  <2>2. /\ ~isChanged(u) => r.quote = u /\ r.out = <<>>
        /\ isChanged(u) => /\ r.quote = clearRuntime(u)
                           /\ \E x \in Quote : Alike(u, x) /\ r.out = <<x>>
    BY UpdateSubscribersQuote
  <2>3. /\ clearRuntime(u) \in Quote /\ clearRuntime(u).id = i /\ View(clearRuntime(u)) = View(u)
        /\ ~isChanged(clearRuntime(u))
    BY ClearQuote DEF View, isChanged
  <2> HIDE DEF r
  <2>4. r.out = <<>> \/ \E x \in Quote : r.out = <<x>> /\ x.id = i /\ View(x) = View(r.quote)
    BY <2>2, <2>3 DEF Alike, View
  <2>5. r.quote \in Quote /\ r.quote.id = i /\ ~isChanged(r.quote)
    BY <2>2, <2>3
  <2>6. /\ quotes' \in Store /\ out' \in [Channels -> Seq(Quote)] /\ OutSound'
        /\ quotes'[i] = r.quote /\ Waits(i) = {} /\ (r.out = <<>> => Waits(i)' = {})
        /\ \A x : r.out = <<x>> => Waits(i)' = {x}
        /\ \A j \in Instruments \ {i} : quotes'[j] = quotes[j] /\ Waits(j)' = Waits(j)
    <3> DEFINE v == r.quote  s == r.out
    <3>1. Changes(i, v, s)
      BY <2>1, <2>4, <2>5 DEF AtMostOne, Changes
    <3> HIDE DEF v, s
    <3>2. Changed(i, v, s)
      BY <1>1, <3>1, OneStep
    <3> QED BY <3>2 DEF v, s, Changed
  <2>7. PendingKnown'
    BY <1>1, <2>1, <2>5, <2>6 DEF FeedSound, PendingKnown, Pending
  <2>8. Becomes(i, u)
    BY <2>2, <2>6 DEF Becomes
  <2> QED BY <1>1, <2>1, <2>6, <2>7, <2>8 DEF FeedSound, FeedTypes
<1> QED BY <1>2, <1>3

(* What becomes of a quote that grew is a move.                            *)
LEMMA BecomesMoves ==
    ASSUME FeedTypes, FeedTypes', UNCHANGED conf, conf.impl = "Onix", NEW i \in Instruments, Waits(i) = {},
           NEW u, Grows(quotes[i], u), Becomes(i, u),
           \/ hist'.books[i] = hist.books[i] /\ u.book = quotes[i].book
           \/ BookMatches(u.book, hist'.books[i])
    PROVE  Moves(i)
<1>1. u \in Quote
  BY DEF Grows
<1>2. Pending(i) = quotes[i] /\ Pending(i)' = quotes'[i]
  BY DEF Pending
<1>3. View(clearRuntime(u)) = View(u)
  BY <1>1, ClearQuote DEF View
<1>4. View(quotes'[i]) = View(u) /\ quotes'[i].book = u.book
  BY <1>3 DEF Becomes, View
<1>5. \/ Waits(i)' = {} /\ Pending(i)'.flags = u.flags /\ conf.impl # "AMR"
      \/ \E x \in Quote : /\ Waits(i)' = {x} /\ x.flags = u.flags /\ View(x) = View(u)
                          /\ conf.impl = "AMR" => Publishable(x)
  BY <1>1, <1>2 DEF Becomes, Alike, View
<1> QED BY <1>1, <1>2, <1>4, <1>5 DEF Moves

(* A callback that ends with Finish is a move of its instrument alone.     *)
LEMMA FinishSteps ==
    ASSUME FeedSound, UNCHANGED <<conf, phase, server>>, conf.impl = "Onix",
           NEW i \in Instruments, out[ChannelOf[i]] = <<>>,
           NEW u, Grows(quotes[i], u), NEW slow, Finish(i, u, slow),
           \A j \in Instruments \ {i} : hist'.books[j] = hist.books[j],
           \/ hist'.books[i] = hist.books[i] /\ u.book = quotes[i].book
           \/ BookMatches(u.book, hist'.books[i])
    PROVE  FeedSound' /\ FeedSteps
<1>1. u \in Quote /\ u.id = i
  BY StoreQuotes DEF Grows, FeedSound, FeedTypes
<1>2. /\ FeedSound' /\ Waits(i) = {} /\ Becomes(i, u)
      /\ \A j \in Instruments \ {i} : quotes'[j] = quotes[j] /\ Waits(j)' = Waits(j)
  BY <1>1, FinishMoves
<1>3. Moves(i)
  BY <1>2, BecomesMoves DEF FeedSound
<1> QED BY <1>2, <1>3 DEF FeedSteps, Rests

LEMMA BookCalls ==
    ASSUME FeedSound, HistTypes, UNCHANGED <<conf, phase, server>>, conf.impl = "Onix",
           NEW m \in Calls, m.kind = "book", out[ChannelOf[m.i]] = <<>>, onDirectBookUpdated(m)
    PROVE  FeedSound' /\ FeedSteps
<1> DEFINE i == m.i  q == quotes[i]  u == BookUpdate(q, m.book)
<1>1. i \in Instruments /\ \A c \in Cells \cap DOMAIN m.book : m.book[c] \in [price : Int, size : Nat]
  BY FeedAssumption
<1>2. q \in Quote
  BY <1>1, StoreQuotes DEF FeedSound, FeedTypes
<1>3. Grows(q, u) /\ \A c \in Cells \cap DOMAIN m.book : m.book[c].size > 0 => u.book[c] = m.book[c]
  BY <1>1, <1>2, BookUpdateQuote
<1>4. Finish(i, u, m.slow) /\ hist'.books[i] = m.book /\ \A j \in Instruments \ {i} : hist'.books[j] = hist.books[j]
  BY <1>1 DEF onDirectBookUpdated, HistTypes
<1> HIDE DEF u
<1>5. BookMatches(u.book, hist'.books[i])
  BY <1>3, <1>4 DEF BookMatches
<1> HIDE DEF q, i
<1> QED BY <1>1, <1>3, <1>4, <1>5, FinishSteps DEF q, i

LEMMA StatisticsCalls ==
    ASSUME FeedSound, HistTypes, UNCHANGED <<conf, phase, server>>, conf.impl = "Onix",
           NEW m \in Calls, m.kind = "stats", out[ChannelOf[m.i]] = <<>>, onStatistics(m)
    PROVE  FeedSound' /\ FeedSteps
<1> DEFINE i == m.i  q == quotes[i]  u == setOHL(q, m.field, m.price)
<1>1. i \in Instruments /\ m.field \in OHL /\ m.price \in Int
  BY FeedAssumption
<1>2. q \in Quote
  BY <1>1, StoreQuotes DEF FeedSound, FeedTypes
<1>3. Grows(q, u) /\ u.book = q.book
  BY <1>1, <1>2, SetOHLQuote
<1>4. Finish(i, u, m.slow) /\ hist'.books = hist.books
  BY <1>1 DEF onStatistics, HistTypes
<1> HIDE DEF u, q, i
<1> QED BY <1>1, <1>3, <1>4, FinishSteps DEF q, i

LEMMA SecurityCalls ==
    ASSUME FeedSound, HistTypes, UNCHANGED <<conf, phase, server>>, conf.impl = "Onix",
           NEW m \in Calls, m.kind = "security", out[ChannelOf[m.i]] = <<>>, onSecurityStatus(m)
    PROVE  FeedSound' /\ FeedSteps
<1> DEFINE i == m.i  q == quotes[i]
           u == IF m.status = "" THEN quotes[m.i] ELSE [quotes[m.i] EXCEPT !.status = m.status]
<1>1. i \in Instruments /\ m.status \in Statuses \cup {""}
  BY FeedAssumption
<1>2. q \in Quote
  BY <1>1, StoreQuotes DEF FeedSound, FeedTypes
<1>3. u \in Quote /\ Alike(q, u)
  <2>1. CASE m.status = ""
    BY <1>2, <2>1 DEF Alike
  <2>2. CASE m.status # ""
    BY <1>1, <1>2, <2>2, SetStatusQuote
  <2> QED BY <2>1, <2>2
<1>4. Grows(q, u) /\ u.book = q.book
  BY <1>2, <1>3, AlikeGrows DEF Alike
<1>5. /\ IF isError(u) THEN Finish(i, u, m.slow) ELSE UNCHANGED feedVars
      /\ hist'.books = hist.books
  BY <1>1 DEF onSecurityStatus, HistTypes
<1> HIDE DEF u, q, i
<1>6. CASE isError(u)
  BY <1>1, <1>4, <1>5, <1>6, FinishSteps DEF q, i
<1>7. CASE ~isError(u)
  BY <1>5, <1>7 DEF feedVars, FeedSound, FeedTypes, OutSound, PendingKnown, Pending, FeedSteps, Rests, Waits
<1> QED BY <1>6, <1>7

LEMMA NothingMoves ==
    ASSUME FeedSound, UNCHANGED <<conf, phase, server>>, UNCHANGED feedVars, hist'.books = hist.books
    PROVE  FeedSound' /\ FeedSteps
BY DEF feedVars, FeedSound, FeedTypes, OutSound, PendingKnown, Pending, FeedSteps, Rests, Waits

(* A trade joins what is pending; one pending at another price is passed   *)
(* on before it.                                                           *)
LEMMA TradeCallMoves ==
    ASSUME FeedSound, HistTypes, UNCHANGED <<conf, phase, server>>, conf.impl = "Onix", phase = "active",
           NEW m \in Calls, m.kind = "trade", out[ChannelOf[m.i]] = <<>>, onTrade(m)
    PROVE  FeedSound' /\ FeedSteps
<1> DEFINE i == m.i  q == quotes[i]  r == TradeUpdate(q, m)  u == r.quote  ch == ChannelOf[i]
<1>1. i \in Instruments /\ m.size \in Nat /\ m.price \in Prices /\ m.side \in Sides /\ ch \in Channels
  BY TradeCallTypes, FeedAssumption
<1>2. q \in Quote /\ q.id = i /\ FeedTypes /\ OutSound /\ PendingKnown
  BY <1>1, StoreQuotes DEF FeedSound, FeedTypes
<1>3. /\ u \in Quote /\ u.id = q.id /\ u.book = q.book /\ u.ohl = q.ohl /\ isTrade(u)
      /\ ~isTrade(q) => u.flags = q.flags \cup {tradeBits} /\ r.out = <<>>
      /\ isTrade(q) /\ m.price = q.trade.price => u.flags = q.flags /\ r.out = <<>>
      /\ isTrade(q) /\ m.price # q.trade.price =>
            /\ u.flags = {tradeBits}
            /\ \E x \in Quote : r.out = <<x>> /\ x.id = q.id /\ x.flags = q.flags /\ View(x) = View(q)
  BY <1>2, TradeUpdateQuote
<1>4. hist'.books = hist.books
  BY <1>1 DEF onTrade, HistTypes
<1>5. CASE ~Accepted(m)
  BY <1>4, <1>5, NothingMoves DEF onTrade
<1>6. CASE Accepted(m) /\ ~conf.coalesce
  <2>1. Finish(i, u, m.slow)
    BY <1>6 DEF onTrade
  <2>2. ~isTrade(q)
    BY <1>1, <1>2, <1>6 DEF PendingKnown, Pending, isTrade, isChanged
  <2> HIDE DEF r, q, i
  <2>3. Grows(q, u)
    BY <1>3, <2>2 DEF Grows, Follows
  <2> HIDE DEF u
  <2> QED BY <1>1, <1>3, <1>4, <2>1, <2>3, FinishSteps DEF q, i
<1>7. CASE Accepted(m) /\ conf.coalesce
  <2> DEFINE s == r.out
  <2>1. /\ quotes' = [quotes EXCEPT ![i] = u] /\ out' = [out EXCEPT ![ch] = s]
        /\ updated' = [updated EXCEPT ![ch] = IF isTrade(q) THEN @ ELSE @ \cup {i}]
    BY <1>7 DEF onTrade
  <2>2. isTrade(q) => i \in updated[ch]
    BY <1>1, <1>2 DEF PendingKnown, Pending, isTrade, isChanged
  <2>3. /\ i \in updated'[ch] /\ updated' \in [Channels -> SUBSET Instruments]
        /\ \A j \in Instruments : j \in updated[ChannelOf[j]] => j \in updated'[ChannelOf[j]]
        /\ \A c \in Channels : \A j \in updated'[c] : j \in updated[c] \/ (j = i /\ c = ch)
    BY <1>1, <1>2, <2>1, <2>2, FeedAssumption DEF FeedTypes
  <2>4. AtMostOne(s, i, u)
    BY <1>2, <1>3 DEF AtMostOne, View
  <2>9. out[ChannelOf[i]] = <<>> /\ u.id = i
    BY <1>2, <1>3
  <2> HIDE DEF r, u, s, q
  <2>5. /\ quotes' \in Store /\ out' \in [Channels -> Seq(Quote)] /\ OutSound'
        /\ quotes'[i] = u /\ Waits(i) = {} /\ (s = <<>> => Waits(i)' = {})
        /\ \A x : s = <<x>> => Waits(i)' = {x}
        /\ \A j \in Instruments \ {i} : quotes'[j] = quotes[j] /\ Waits(j)' = Waits(j)
    <3>1. Changes(i, u, s)
      BY <1>3, <2>1, <2>4, <2>9 DEF Changes
    <3>2. Changed(i, u, s)
      BY <1>1, <1>2, <3>1, OneStep
    <3> QED BY <3>2 DEF Changed
  <2>6. PendingKnown'
    BY <1>1, <1>2, <1>7, <2>3, <2>5 DEF PendingKnown, Pending
  <2>7. FeedSound'
    BY <1>2, <2>3, <2>5, <2>6 DEF FeedSound, FeedTypes
  <2>8. Moves(i)
    <3>1. View(u) = View(q) /\ Pending(i) = q /\ Pending(i)' = u
      BY <1>3, <2>5 DEF View, Pending, q
    <3>2. Grows(q, q) /\ Alike(q, q)
      BY <1>2 DEF Grows, Follows, Alike
    <3>3. CASE isTrade(q) /\ m.price # q.trade.price
      <4>1. PICK x \in Quote : s = <<x>> /\ x.flags = q.flags /\ View(x) = View(q)
        BY <1>3, <3>3 DEF s
      <4> QED BY <1>1, <1>2, <1>3, <1>4, <2>5, <3>1, <3>2, <4>1 DEF Moves, q
    <3>4. CASE ~(isTrade(q) /\ m.price # q.trade.price)
      <4>1. s = <<>> /\ q.flags \subseteq u.flags
        BY <1>3, <3>4 DEF s
      <4>2. Grows(q, u)
        BY <1>3, <4>1 DEF Grows, Follows
      <4> QED BY <1>1, <1>3, <1>4, <2>5, <3>1, <4>1, <4>2 DEF Moves, q
    <3> QED BY <3>3, <3>4
  <2> QED BY <1>1, <1>4, <2>5, <2>7, <2>8 DEF FeedSteps, Rests
<1> QED BY <1>5, <1>6, <1>7

(* A status is passed on with the changes that are pending, which stay.    *)
LEMMA StatusMoves ==
    ASSUME FeedSound, HistTypes, UNCHANGED <<conf, phase, server>>, conf.impl = "Onix",
           NEW ch \in Channels, out[ch] = <<>>, NEW is \in SUBSET Instruments, \A j \in is : ChannelOf[j] = ch,
           NEW status \in Statuses, SetStatus(is, status, ch)
    PROVE  FeedSound' /\ FeedSteps
<1>1. FeedTypes /\ OutSound /\ PendingKnown /\ quotes \in Store
  BY DEF FeedSound, FeedTypes
<1>2. ASSUME NEW j \in Instruments
      PROVE  /\ quotes'[j] \in Quote /\ Alike(quotes[j], quotes'[j]) /\ quotes'[j].id = j
             /\ j \notin is => quotes'[j] = quotes[j]
  <2>1. quotes[j] \in Quote /\ quotes[j].id = j
    BY <1>1, StoreQuotes
  <2>2. quotes'[j] = IF j \in is THEN [quotes[j] EXCEPT !.status = status] ELSE quotes[j]
    BY DEF SetStatus
  <2>3. CASE j \in is
    BY <2>1, <2>2, <2>3, SetStatusQuote DEF Alike
  <2>4. CASE j \notin is
    BY <2>1, <2>2, <2>4 DEF Alike
  <2> QED BY <2>3, <2>4
<1>3. quotes' \in Store
  <2>1. quotes' = [j \in Instruments |-> quotes'[j]]
    BY DEF SetStatus
  <2> QED BY <1>2, <2>1 DEF Store
<1>4. PICK order \in SetToSeqs(is) : out' = [out EXCEPT ![ch] = [k \in DOMAIN order |-> quotes'[order[k]]]]
  BY DEF SetStatus
<1> DEFINE F == [j \in is |-> quotes'[j]]
<1>5. F \in [is -> Quote] /\ \A j \in is : F[j] = quotes'[j] /\ F[j].id = j /\ View(F[j]) = View(quotes'[j])
  BY <1>2
<1>6. out' = [out EXCEPT ![ch] = Along(order, F)]
  <2>1. \A k \in DOMAIN order : order[k] \in is
    BY DEF SetToSeqs
  <2>2. [k \in DOMAIN order |-> quotes'[order[k]]] = Along(order, F)
    BY <2>1 DEF Along
  <2> QED BY <1>4, <2>2
<1> HIDE DEF F
<1>7. \A j \in Instruments : ChannelOf[j] # ch => quotes'[j] = quotes[j]
  BY <1>2
<1>8. /\ out' \in [Channels -> Seq(Quote)] /\ OutSound'
      /\ \A j \in Instruments : ChannelOf[j] = ch => Waits(j) = {}
      /\ \A j \in is : Waits(j)' = {F[j]}
      /\ \A j \in Instruments \ is : Waits(j)' = Waits(j)
  <2>1. NewQuotes(ch, is, F)
    BY <1>3, <1>5, <1>7 DEF NewQuotes
  <2> QED BY <1>1, <1>6, <2>1, ManyStep
<1>9. updated' = updated /\ hist'.books = hist.books
  BY DEF SetStatus, HistTypes
<1>10. PendingKnown'
  BY <1>1, <1>2, <1>9 DEF PendingKnown, Pending, Alike, isChanged
<1>11. FeedSound'
  BY <1>1, <1>3, <1>8, <1>9, <1>10 DEF FeedSound, FeedTypes
<1>12. ASSUME NEW j \in is PROVE Moves(j)
  <2>1. /\ quotes[j] \in Quote /\ quotes'[j] \in Quote /\ Waits(j) = {} /\ Waits(j)' = {quotes'[j]}
        /\ Alike(quotes[j], quotes'[j]) /\ Pending(j) = quotes[j]
    BY <1>1, <1>2, <1>5, <1>8, StoreQuotes DEF Pending
  <2>2. Grows(quotes[j], quotes'[j]) /\ View(quotes'[j]) = View(quotes[j]) /\ quotes'[j].book = quotes[j].book
    BY <2>1, AlikeGrows DEF View
  <2> QED BY <1>9, <2>1, <2>2 DEF Moves
<1> QED BY <1>2, <1>8, <1>9, <1>11, <1>12 DEF FeedSteps, Rests

LEMMA OnixMoves ==
    ASSUME FeedSound, HistTypes, onixCalls
    PROVE  FeedSound' /\ FeedSteps
<1>1. UNCHANGED <<conf, phase, server>> /\ conf.impl = "Onix"
  BY DEF onixCalls
<1>2. ASSUME NEW m \in Calls, Free(ChannelOf[m.i]), OnixCallback(m) PROVE FeedSound' /\ FeedSteps
  <2>1. phase = "active" /\ out[ChannelOf[m.i]] = <<>>
    BY <1>2 DEF Free
  <2>2. CASE m.kind = "reset" /\ onStatisticsReset(m)
    <3>1. m.i \in Instruments /\ ChannelOf[m.i] \in Channels /\ "HLOReset" \in Statuses
      BY <2>2, FeedAssumption DEF Statuses
    <3> QED BY <1>1, <2>1, <2>2, <3>1, StatusMoves DEF onStatisticsReset
  <2> QED BY <1>1, <1>2, <2>1, <2>2, BookCalls, StatisticsCalls, SecurityCalls, TradeCallMoves DEF OnixCallback
<1>3. ASSUME NEW m \in Calls, m.kind \in {"channel", "warning"}, Free(m.ch),
             IF m.kind = "channel" THEN onChannelEvent(m) ELSE onWarning(m)
      PROVE  FeedSound' /\ FeedSteps
  <2>1. m.ch \in Channels /\ m.status \in Statuses /\ out[m.ch] = <<>>
    BY <1>3, FeedAssumption DEF Free
  <2>2. CASE SetChannelStatus(m.ch, m.status)
    <3> DEFINE is == {i \in Instruments : Subscribed(i) /\ ChannelOf[i] = m.ch}
    <3>1. SetStatus(is, m.status, m.ch) /\ is \in SUBSET Instruments /\ \A j \in is : ChannelOf[j] = m.ch
      BY <2>2 DEF SetChannelStatus
    <3> HIDE DEF is
    <3> QED BY <1>1, <2>1, <3>1, StatusMoves
  <2>3. CASE UNCHANGED feedVars /\ hist' = [hist EXCEPT !.calls = @ + 1]
    <3>1. hist'.books = hist.books
      BY <2>3 DEF HistTypes
    <3> QED BY <1>1, <2>3, <3>1, NothingMoves
  <2> QED BY <1>3, <2>2, <2>3 DEF onChannelEvent, onWarning
<1> QED BY <1>2, <1>3 DEF onixCalls

(* The end of a message passes on what is pending.                         *)
LEMMA EndMoves ==
    ASSUME FeedSound, NEW ch \in Channels, onProcessingEnd(ch)
    PROVE  FeedSound' /\ FeedSteps
<1> DEFINE r(j) == updateSubscribers(quotes[j], FALSE)
           S == {j \in updated[ch] : r(j).out # <<>>}
           F == [j \in S |-> Head(r(j).out)]
<1>1. /\ FeedTypes /\ OutSound /\ PendingKnown /\ quotes \in Store /\ updated[ch] \in SUBSET Instruments
      /\ conf.impl = "Onix" /\ UNCHANGED <<conf, phase, server, hist>> /\ out[ch] = <<>> /\ phase = "active"
      /\ updated' = [updated EXCEPT ![ch] = {}]
  BY DEF FeedSound, FeedTypes, onProcessingEnd, Free
<1>2. ASSUME NEW j \in updated[ch]
      PROVE  /\ quotes[j] \in Quote /\ quotes[j].id = j /\ ChannelOf[j] = ch /\ j \in Instruments
             /\ ~isChanged(quotes[j]) => r(j).quote = quotes[j] /\ r(j).out = <<>>
             /\ isChanged(quotes[j]) => /\ r(j).quote = clearRuntime(quotes[j])
                                        /\ \E x \in Quote : Alike(quotes[j], x) /\ r(j).out = <<x>>
  <2>1. quotes[j] \in Quote /\ quotes[j].id = j /\ ChannelOf[j] = ch /\ j \in Instruments
    BY <1>1, StoreQuotes DEF PendingKnown
  <2> QED BY <2>1, UpdateSubscribersQuote
<1>3. /\ quotes' = [j \in Instruments |-> IF j \in updated[ch] THEN r(j).quote ELSE quotes[j]]
      /\ \E order \in SetToSeqs(S) : out' = [out EXCEPT ![ch] = [k \in DOMAIN order |-> Head(r(order[k]).out)]]
  BY DEF onProcessingEnd
<1> HIDE DEF r
<1>4. ASSUME NEW j \in Instruments
      PROVE  /\ quotes'[j] \in Quote /\ quotes'[j].id = j /\ View(quotes'[j]) = View(quotes[j])
             /\ j \notin updated[ch] \/ ~isChanged(quotes[j]) => quotes'[j] = quotes[j]
             /\ j \in updated[ch] /\ isChanged(quotes[j]) => quotes'[j] = clearRuntime(quotes[j]) /\ ~isChanged(quotes'[j])
  <2>1. quotes[j] \in Quote /\ quotes[j].id = j
    BY <1>1, StoreQuotes
  <2>2. /\ clearRuntime(quotes[j]) \in Quote /\ clearRuntime(quotes[j]).id = j
        /\ View(clearRuntime(quotes[j])) = View(quotes[j]) /\ ~isChanged(clearRuntime(quotes[j]))
    BY <2>1, ClearQuote DEF View, isChanged
  <2>3. quotes'[j] = IF j \in updated[ch] THEN r(j).quote ELSE quotes[j]
    BY <1>3
  <2> QED BY <1>2, <2>1, <2>2, <2>3
<1>5. ASSUME NEW j \in S
      PROVE  isChanged(quotes[j]) /\ F[j] \in Quote /\ Alike(quotes[j], F[j])
  <2>1. j \in updated[ch] /\ isChanged(quotes[j])
    BY <1>2
  <2>2. PICK x \in Quote : Alike(quotes[j], x) /\ r(j).out = <<x>>
    BY <1>2, <2>1
  <2> QED BY <2>1, <2>2
<1>6. PICK order \in SetToSeqs(S) : out' = [out EXCEPT ![ch] = Along(order, F)]
  <2>1. PICK order \in SetToSeqs(S) : out' = [out EXCEPT ![ch] = [k \in DOMAIN order |-> Head(r(order[k]).out)]]
    BY <1>3
  <2>2. \A k \in DOMAIN order : order[k] \in S
    BY DEF SetToSeqs
  <2>3. [k \in DOMAIN order |-> Head(r(order[k]).out)] = Along(order, F)
    BY <2>2 DEF Along
  <2> QED BY <2>1, <2>3
<1>7. \A j \in updated[ch] : isChanged(quotes[j]) => j \in S
  BY <1>2
<1>8. F \in [S -> Quote] /\ S \in SUBSET updated[ch]
  BY <1>5
<1> HIDE DEF F, S
<1>9. quotes' \in Store
  <2>1. quotes' = [j \in Instruments |-> quotes'[j]]
    BY <1>3
  <2> QED BY <1>4, <2>1 DEF Store
<1>10. NewQuotes(ch, S, F)
  <2>1. ASSUME NEW j \in S PROVE ChannelOf[j] = ch /\ F[j].id = j /\ View(F[j]) = View(quotes'[j])
    BY <1>2, <1>4, <1>5, <1>8 DEF Alike, View
  <2>2. ASSUME NEW j \in Instruments, ChannelOf[j] # ch PROVE quotes'[j] = quotes[j]
    BY <1>2, <1>4, <2>2
  <2> QED BY <1>1, <1>8, <1>9, <2>1, <2>2 DEF NewQuotes
<1>11. /\ out' \in [Channels -> Seq(Quote)] /\ OutSound'
       /\ \A j \in Instruments : ChannelOf[j] = ch => Waits(j) = {}
       /\ \A j \in S : Waits(j)' = {F[j]}
       /\ \A j \in Instruments \ S : Waits(j)' = Waits(j)
  BY <1>1, <1>6, <1>10, ManyStep
<1>12. updated' \in [Channels -> SUBSET Instruments] /\ updated'[ch] = {} /\ \A c \in Channels \ {ch} : updated'[c] = updated[c]
  BY <1>1 DEF FeedTypes
<1>13. PendingKnown'
  <2>1. ASSUME NEW j \in Instruments, isChanged(quotes'[j]) PROVE j \in updated'[ChannelOf[j]]
    <3>1. quotes'[j] = quotes[j] /\ j \notin updated[ch]
      BY <1>4, <2>1
    <3>2. j \in updated[ChannelOf[j]] /\ ChannelOf[j] \in Channels
      BY <1>1, <2>1, <3>1, FeedAssumption DEF PendingKnown, Pending
    <3> QED BY <1>12, <3>1, <3>2
  <2> QED BY <1>1, <1>12, <2>1 DEF PendingKnown, Pending
<1>14. FeedSound'
  BY <1>1, <1>9, <1>11, <1>12, <1>13 DEF FeedSound, FeedTypes
<1>15. ASSUME NEW j \in S PROVE Moves(j)
  <2>1. /\ j \in Instruments /\ quotes[j] \in Quote /\ F[j] \in Quote /\ Waits(j) = {} /\ Waits(j)' = {F[j]}
        /\ View(quotes'[j]) = View(quotes[j]) /\ Pending(j) = quotes[j] /\ Alike(quotes[j], F[j])
    BY <1>1, <1>2, <1>4, <1>5, <1>8, <1>11 DEF Pending
  <2>2. Grows(quotes[j], quotes[j]) /\ F[j].flags = quotes[j].flags /\ View(F[j]) = View(quotes[j])
    BY <2>1 DEF Grows, Follows, Alike, View
  <2> QED BY <1>1, <2>1, <2>2 DEF Moves, View
<1>16. ASSUME NEW j \in Instruments \ S PROVE Rests(j)
  BY <1>1, <1>4, <1>7, <1>11 DEF Rests
<1> QED BY <1>14, <1>15, <1>16 DEF FeedSteps

(* A line of a Nanex server: the top of the book is the line's.            *)
LEMMA ConnectionDataQuote ==
    ASSUME FeedTypes, conf.impl = "Nanex", NEW m \in Calls, m.kind \in {"book", "trade"}
    PROVE  LET u == onConnectionData(m)
           IN  /\ Grows(Pending(m.i), u)
               /\ m.kind = "book" => BookMatches(u.book, m.book) /\ u.trade = quotes[m.i].trade /\ ~isTrade(u)
               /\ m.kind = "trade" => /\ u.book = quotes[m.i].book /\ isTrade(u) /\ u.trade.price = m.price
                                      /\ u.trade.size = m.size /\ u.trade.side = quotes[m.i].trade.side
<1> DEFINE i == m.i  q == clearRuntime(quotes[i])
           top == [c \in {<<1, s>> : s \in {"bid", "ask"}} |->
                     IF c \in DOMAIN m.book THEN m.book[c] ELSE [price |-> 0, size |-> 0]]
           prices == {c \in DOMAIN top : top[c].price # q.book[c].price}
           sizes == {c \in DOMAIN top : top[c].size # q.book[c].size}
           q1 == setSizes(q, top, sizes)
           u == onConnectionData(m)
<1>1. i \in Instruments
  BY FeedAssumption
<1>2. /\ quotes[i] \in Quote /\ q \in Quote /\ q.flags = {} /\ q.book = quotes[i].book /\ q.trade = quotes[i].trade
      /\ q.ohl = quotes[i].ohl
  BY <1>1, StoreQuotes, ClearQuote DEF FeedTypes
<1>3. Pending(i) = q
  BY DEF Pending
<1>4. CASE m.kind = "book"
  <2>1. u = setPrices(q1, top, prices)
    BY <1>4 DEF onConnectionData
  <2>2. \A c \in Cells \cap DOMAIN m.book : m.book[c] \in [price : Int, size : Nat]
    BY <1>4, FeedAssumption
  <2>3. {<<1, s>> : s \in {"bid", "ask"}} \subseteq Cells
    BY QuoteAssumption DEF Cells
  <2>4. /\ DOMAIN top \subseteq Cells /\ \A c \in DOMAIN top : top[c] \in [price : Int, size : Nat]
        /\ \A c \in Cells \cap DOMAIN m.book : c[1] = 1 => c \in DOMAIN top /\ top[c] = m.book[c]
    <3>1. \A c \in Cells : c[1] = 1 => c \in {<<1, s>> : s \in {"bid", "ask"}}
      BY DEF Cells
    <3> QED BY <2>2, <2>3, <3>1
  <2> HIDE DEF top, q
  <2>5. /\ q1 \in Quote /\ q1.id = q.id /\ q1.trade = q.trade /\ q1.ohl = q.ohl
        /\ q1.flags = q.flags \cup sizeBits(sizes) /\ (isTrade(q1) <=> isTrade(q))
        /\ \A c \in Cells : /\ q1.book[c].price = q.book[c].price
                            /\ q1.book[c].size = IF c \in sizes THEN top[c].size ELSE q.book[c].size
    <3>1. sizes \in SUBSET Cells /\ \A c \in sizes : top[c].size \in Int
      BY <2>4
    <3>2. q \in Quote
      BY <1>2
    <3> HIDE DEF sizes
    <3> QED BY <3>1, <3>2, SetSizesQuote
  <2>6. prices \in SUBSET Cells /\ \A c \in prices : top[c].price \in Int
    BY <2>4
  <2>7. /\ \A c \in DOMAIN top : c \notin prices => top[c].price = q.book[c].price
        /\ \A c \in DOMAIN top : c \notin sizes => top[c].size = q.book[c].size
    OBVIOUS
  <2> HIDE DEF prices, sizes, q1
  <2>8. /\ u \in Quote /\ u.id = q.id /\ u.trade = q.trade /\ u.ohl = q.ohl
        /\ u.flags = q1.flags \cup priceBits(prices) /\ (isTrade(u) <=> isTrade(q))
        /\ \A c \in Cells : /\ u.book[c].size = q1.book[c].size
                            /\ u.book[c].price = IF c \in prices THEN top[c].price ELSE q1.book[c].price
    BY <2>1, <2>5, <2>6, SetPricesQuote
  <2> HIDE DEF u
  <2>9. Follows(q, u)
    <3>1. ASSUME NEW c \in Cells
          PROVE  /\ <<"price", c>> \notin u.flags => q.book[c].price = u.book[c].price
                 /\ <<"size", c>> \notin u.flags => q.book[c].size = u.book[c].size
      <4>1. c \in prices => <<"price", c>> \in u.flags
        BY <2>8 DEF priceBits
      <4>2. c \in sizes => <<"size", c>> \in u.flags
        BY <2>5, <2>8 DEF sizeBits
      <4> QED BY <2>5, <2>8, <4>1, <4>2
    <3> QED BY <2>8, <3>1 DEF Follows
  <2>10. ASSUME NEW c \in Cells \cap DOMAIN m.book, c[1] = 1 PROVE u.book[c] = m.book[c]
    <3>1. c \in DOMAIN top /\ top[c] = m.book[c] /\ m.book[c] \in [price : Int, size : Nat]
      BY <2>2, <2>4, <2>10
    <3>2. u.book[c].price = m.book[c].price /\ u.book[c].size = m.book[c].size
      BY <2>5, <2>7, <2>8, <3>1
    <3>3. u.book[c] \in Level
      BY <2>8 DEF Quote
    <3> QED BY <3>1, <3>2, <3>3 DEF Level
  <2>11. BookMatches(u.book, m.book)
    BY <2>10 DEF BookMatches
  <2>12. ~isTrade(u) /\ Grows(q, u)
    BY <1>2, <2>5, <2>8, <2>9 DEF isTrade, Grows
  <2> QED BY <1>2, <1>3, <1>4, <2>8, <2>11, <2>12 DEF u
<1>5. CASE m.kind = "trade"
  <2>1. u = setTrade(q, m.price, m.size)
    BY <1>5 DEF onConnectionData
  <2>2. m.price \in Prices /\ m.size \in Nat
    BY <1>5, TradeCallTypes
  <2> HIDE DEF q
  <2>3. /\ u \in Quote /\ u.id = q.id /\ u.book = q.book /\ u.ohl = q.ohl
        /\ u.flags = q.flags \cup {tradeBits} /\ u.trade.price = m.price /\ u.trade.size = m.size
        /\ u.trade.side = q.trade.side
    BY <1>2, <2>1, <2>2, SetTradeQuote
  <2> HIDE DEF u
  <2>4. Grows(q, u) /\ isTrade(u)
    BY <1>2, <2>3 DEF Grows, Follows, isTrade
  <2> QED BY <1>2, <1>3, <1>5, <2>3, <2>4 DEF u
<1> QED BY <1>4, <1>5

(* A quote of an AMR server.                                               *)
LEMMA ReplayQuote ==
    ASSUME FeedTypes, NEW m \in Calls, m.kind \in {"book", "trade"}
    PROVE  LET u == replay(m)
           IN  /\ u \in Quote /\ u.id = m.i /\ (isTrade(u) <=> m.kind = "trade")
               /\ m.kind = "trade" => u.trade.price = m.price /\ u.trade.size = m.size /\ u.trade.side = m.side
<1> DEFINE i == m.i  q == clearRuntime(server[i])  u == replay(m)
<1>1. i \in Instruments
  BY FeedAssumption
<1>2. q \in Quote /\ q.id = i /\ ~isTrade(q)
  BY <1>1, StoreQuotes, ClearQuote DEF FeedTypes, isTrade
<1>3. CASE m.kind = "book"
  <2>1. u = BookUpdate(q, m.book)
    BY <1>3 DEF replay
  <2>2. \A c \in Cells \cap DOMAIN m.book : m.book[c] \in [price : Int, size : Nat]
    BY <1>3, FeedAssumption
  <2> HIDE DEF q
  <2> QED BY <1>2, <1>3, <2>1, <2>2, BookUpdateQuote DEF Grows
<1>4. CASE m.kind = "trade"
  <2> DEFINE w == WithAttributes(q, m)
  <2>1. u = setTrade(w, m.price, m.size)
    BY <1>4 DEF replay, WithAttributes
  <2> HIDE DEF q
  <2>2. w \in Quote /\ w.id = i /\ w.trade.side = m.side
    BY <1>2, <1>4, AttributesQuote
  <2>3. m.price \in Prices /\ m.size \in Nat
    BY <1>4, TradeCallTypes
  <2> HIDE DEF w
  <2> QED BY <1>4, <2>1, <2>2, <2>3, SetTradeQuote DEF isTrade
<1> QED BY <1>3, <1>4

LEMMA HistoricalMoves ==
    ASSUME FeedSound, HistTypes, historicalCalls
    PROVE  FeedSound' /\ FeedSteps
<1>1. PICK m \in Calls :
        /\ m.kind \in {"book", "trade"} /\ Free(ChannelOf[m.i])
        /\ server' = [server EXCEPT ![m.i] = IF conf.impl = "AMR" THEN replay(m) ELSE @]
        /\ IF conf.impl = "AMR" /\ ~Publishable(replay(m))
           THEN UNCHANGED <<quotes, out>> /\ hist' = [hist EXCEPT !.calls = @ + 1]
           ELSE LET q == HistoricalQuote(m)
                    side == IF conf.impl = "Nanex" THEN "Unknown" ELSE m.side
                IN  /\ quotes' = [quotes EXCEPT ![m.i] = q]
                    /\ out' = [out EXCEPT ![ChannelOf[m.i]] = IF isChanged(q) THEN <<q>> ELSE <<>>]
                    /\ hist' = [hist EXCEPT !.calls = @ + 1,
                                  !.books[m.i] = IF conf.impl = "AMR" THEN q.book
                                                 ELSE IF m.kind = "book" THEN m.book ELSE @,
                                  !.wire[m.i] = IF m.kind = "book" THEN @
                                                ELSE Added(@, <<m.price, side>>, m.size)]
  BY DEF historicalCalls
<1> DEFINE i == m.i  ch == ChannelOf[i]
<1>2. /\ UNCHANGED <<conf, phase, updated>> /\ conf.impl \in {"Nanex", "AMR"}
      /\ FeedTypes /\ OutSound /\ PendingKnown /\ quotes \in Store /\ server \in Store
  BY FeedAssumption DEF historicalCalls, FeedSound, FeedTypes
<1>3. i \in Instruments /\ ch \in Channels /\ out[ch] = <<>> /\ phase = "active"
  BY <1>1, FeedAssumption DEF Free
<1>4. server' \in Store
  <2>1. replay(m) \in Quote /\ replay(m).id = i
    BY <1>1, <1>2, ReplayQuote
  <2> HIDE DEF i
  <2>2. server' = [server EXCEPT ![i] = IF conf.impl = "AMR" THEN replay(m) ELSE server[i]]
    BY <1>1 DEF i
  <2> QED BY <1>2, <1>3, <2>1, <2>2 DEF Store
<1>5. ASSUME \A j \in Instruments : quotes'[j] \in Quote, quotes' \in Store, out' \in [Channels -> Seq(Quote)], OutSound'
      PROVE  FeedSound'
  <2>1. \A j \in Instruments : Pending(j)' = clearRuntime(quotes'[j])
    BY <1>2 DEF Pending
  <2>2. PendingKnown'
    BY <1>2, <1>5, <2>1, ClearQuote DEF PendingKnown, isChanged
  <2> QED BY <1>2, <1>4, <1>5, <2>2 DEF FeedSound, FeedTypes
<1>6. CASE conf.impl = "AMR" /\ ~Publishable(replay(m))
  <2>1. quotes' = quotes /\ out' = out /\ hist'.books = hist.books
    BY <1>1, <1>6 DEF HistTypes
  <2>2. OutSound' /\ \A j \in Instruments : Waits(j)' = Waits(j)
    BY <1>2, <2>1 DEF OutSound, Waits
  <2>3. FeedSound'
    BY <1>2, <1>5, <2>1, <2>2, StoreQuotes DEF FeedTypes
  <2> QED BY <2>1, <2>2, <2>3 DEF FeedSteps, Rests
<1>7. CASE ~(conf.impl = "AMR" /\ ~Publishable(replay(m)))
  <2> DEFINE u == HistoricalQuote(m)  s == IF isChanged(u) THEN <<u>> ELSE <<>>
  <2>1. /\ quotes' = [quotes EXCEPT ![i] = u] /\ out' = [out EXCEPT ![ch] = s]
        /\ \A j \in Instruments \ {i} : hist'.books[j] = hist.books[j]
        /\ hist'.books[i] = IF conf.impl = "AMR" THEN u.book ELSE IF m.kind = "book" THEN m.book ELSE hist.books[i]
    <3> DEFINE side == IF conf.impl = "Nanex" THEN "Unknown" ELSE m.side
    <3>1. /\ quotes' = [quotes EXCEPT ![i] = u] /\ out' = [out EXCEPT ![ch] = s]
          /\ hist' = [hist EXCEPT !.calls = @ + 1,
                        !.books[i] = IF conf.impl = "AMR" THEN u.book ELSE IF m.kind = "book" THEN m.book ELSE @,
                        !.wire[i] = IF m.kind = "book" THEN @ ELSE Added(@, <<m.price, side>>, m.size)]
      BY <1>1, <1>7
    <3> HIDE DEF u, side, s
    <3> QED BY <1>3, <3>1 DEF HistTypes
  <2>2. /\ u \in Quote /\ u.id = i
        /\ conf.impl = "Nanex" => /\ u = onConnectionData(m) /\ Grows(Pending(i), u)
                                  /\ m.kind = "book" => BookMatches(u.book, m.book)
                                  /\ m.kind = "trade" => u.book = quotes[i].book
        /\ conf.impl = "AMR" => u = replay(m) /\ Publishable(u)
    <3>1. CASE conf.impl = "Nanex"
      <4>1. u = onConnectionData(m)
        BY <3>1 DEF HistoricalQuote
      <4>2. Pending(i).id = i
        BY <1>2, <1>3, PendingQuote
      <4>3. /\ Grows(Pending(i), u) /\ (m.kind = "book" => BookMatches(u.book, m.book))
            /\ m.kind = "trade" => u.book = quotes[i].book
        BY <1>1, <1>2, <3>1, <4>1, ConnectionDataQuote
      <4> QED BY <3>1, <4>1, <4>2, <4>3 DEF Grows
    <3>2. CASE conf.impl = "AMR"
      BY <1>1, <1>2, <1>7, <3>2, ReplayQuote DEF HistoricalQuote, process
    <3> QED BY <1>2, <3>1, <3>2
  <2>3. AtMostOne(s, i, u)
    BY <2>2 DEF AtMostOne
  <2> HIDE DEF u
  <2>4. /\ quotes' \in Store /\ out' \in [Channels -> Seq(Quote)] /\ OutSound'
        /\ quotes'[i] = u /\ Waits(i) = {}
        /\ \A j \in Instruments \ {i} : quotes'[j] = quotes[j] /\ Waits(j)' = Waits(j)
        /\ isChanged(u) => Waits(i)' = {u}
        /\ ~isChanged(u) => Waits(i)' = {}
    <3> HIDE DEF s
    <3>1. Changes(i, u, s)
      BY <1>3, <2>1, <2>2, <2>3 DEF Changes
    <3>2. Changed(i, u, s)
      BY <1>2, <1>3, <3>1, OneStep
    <3> QED BY <3>2 DEF Changed, s
  <2>5. FeedSound'
    BY <1>5, <2>4, StoreQuotes
  <2>6. Moves(i)
    <3>1. \/ hist'.books[i] = hist.books[i] /\ quotes'[i].book = quotes[i].book
          \/ BookMatches(quotes'[i].book, hist'.books[i])
      <4>1. m.kind \in {"book", "trade"} /\ conf.impl \in {"Nanex", "AMR"}
        BY <1>1, <1>2
      <4>2. CASE conf.impl = "AMR"
        <5>1. BookMatches(u.book, u.book)
          BY <4>2 DEF BookMatches
        <5> QED BY <2>1, <2>4, <4>2, <5>1
      <4>3. CASE conf.impl = "Nanex"
        BY <2>1, <2>2, <2>4, <4>1, <4>3
      <4> QED BY <4>1, <4>2, <4>3
    <3>2. CASE conf.impl = "AMR"
      <4>1. isChanged(u)
        BY <2>2, <3>2 DEF Publishable, isChanged, isNormalTrade, isTrade, isLevelUpdate0
      <4> QED BY <2>2, <2>4, <3>1, <3>2, <4>1 DEF Moves
    <3>3. CASE conf.impl = "Nanex"
      <4>1. Pending(i)' = clearRuntime(u) /\ clearRuntime(u).flags = {}
        BY <1>2, <2>2, <2>4, <3>3, ClearQuote DEF Pending
      <4>2. \/ Waits(i)' = {} /\ Pending(i)'.flags = u.flags
            \/ Waits(i)' = {u}
        BY <2>4, <4>1 DEF isChanged
      <4> QED BY <2>2, <2>4, <3>1, <3>3, <4>2 DEF Moves
    <3> QED BY <1>2, <3>2, <3>3
  <2> QED BY <2>1, <2>4, <2>5, <2>6 DEF FeedSteps, Rests
<1> QED BY <1>6, <1>7

-----------------------------------------------------------------------------
(***************************************************************************)
(* From the feed to the clients                                            *)
(***************************************************************************)

(* The quote at the head is passed on and no longer waits.                 *)
LEMMA HeadGone ==
    ASSUME FeedTypes, OutSound, NEW ch \in Channels, out[ch] # <<>>, UNCHANGED quotes,
           out' = [out EXCEPT ![ch] = Tail(@)]
    PROVE  LET x == Head(out[ch])
           IN  /\ x \in Quote /\ x.id \in Instruments /\ View(x) = View(quotes[x.id])
               /\ Waits(x.id) = {x} /\ WaitsIn(out'[ChannelOf[x.id]], x.id) = {}
               /\ \A j \in Instruments \ {x.id} : Waits(j)' = Waits(j)
               /\ out' \in [Channels -> Seq(Quote)] /\ OutSound'
<1> DEFINE s == out[ch]  x == Head(s)  t == Tail(s)
<1>1. s \in Seq(Quote) /\ s # <<>> /\ IdsOnce(s) /\ \A k \in DOMAIN s : ChannelOf[s[k].id] = ch
  BY DEF FeedTypes, OutSound
<1>2. /\ out' \in [Channels -> Seq(Quote)] /\ out'[ch] = t
      /\ \A c \in Channels \ {ch} : out'[c] = out[c]
  BY <1>1 DEF FeedTypes
<1> HIDE DEF s
<1>3. /\ x \in Quote /\ x = s[1] /\ 1 \in DOMAIN s
      /\ t \in Seq(Quote)
      /\ \A k \in DOMAIN t : k + 1 \in DOMAIN s /\ k + 1 # 1 /\ t[k] = s[k + 1]
      /\ \A k \in DOMAIN s : k = 1 \/ (k - 1 \in DOMAIN t /\ t[k - 1] = s[k])
      /\ \A k, l \in DOMAIN t : k + 1 = l + 1 => k = l
  BY <1>1
<1> HIDE DEF x, t
<1>4. x.id \in Instruments /\ ChannelOf[x.id] = ch
  BY <1>1, <1>3, QuoteFields
<1>5. WaitsIn(s, x.id) = {x} /\ WaitsIn(t, x.id) = {}
  <2>1. ASSUME NEW k \in DOMAIN s, s[k].id = x.id PROVE k = 1
    BY <1>1, <1>3, <2>1 DEF IdsOnce
  <2>2. WaitsIn(s, x.id) = {x}
    BY <1>3, <2>1 DEF WaitsIn, ToSet
  <2>3. ASSUME NEW k \in DOMAIN t, t[k].id = x.id PROVE FALSE
    BY <1>3, <2>1, <2>3
  <2> QED BY <2>2, <2>3 DEF WaitsIn, ToSet
<1>6. ASSUME NEW j, j # x.id PROVE WaitsIn(t, j) = WaitsIn(s, j)
  <2>1. ASSUME NEW y \in WaitsIn(s, j) PROVE y \in WaitsIn(t, j)
    <3>1. PICK k \in DOMAIN s : s[k] = y /\ y.id = j
      BY <2>1 DEF WaitsIn, ToSet
    <3>2. k # 1
      BY <1>3, <1>6, <3>1
    <3> QED BY <1>3, <3>1, <3>2 DEF WaitsIn, ToSet
  <2>2. ASSUME NEW y \in WaitsIn(t, j) PROVE y \in WaitsIn(s, j)
    BY <1>3, <2>2 DEF WaitsIn, ToSet
  <2> QED BY <2>1, <2>2
<1>7. IdsOnce(t) /\ \A k \in DOMAIN t : ChannelOf[t[k].id] = ch
  <2>1. ASSUME NEW k \in DOMAIN t, NEW l \in DOMAIN t, t[k].id = t[l].id PROVE k = l
    BY <1>1, <1>3, <2>1, SMTT(40) DEF IdsOnce
  <2>2. \A k \in DOMAIN t : ChannelOf[t[k].id] = ch
    BY <1>1, <1>3
  <2> QED BY <2>1, <2>2 DEF IdsOnce
<1>8. \A j \in Instruments : ChannelOf[j] \in Channels
  BY FeedAssumption
<1>9. ASSUME NEW j \in Instruments, j # x.id PROVE Waits(j)' = Waits(j)
  BY <1>2, <1>6, <1>8, <1>9 DEF Waits, s
<1>10. Waits(x.id) = {x} /\ WaitsIn(out'[ChannelOf[x.id]], x.id) = {}
  BY <1>2, <1>4, <1>5 DEF Waits, s
<1>11. View(x) = View(quotes[x.id])
  BY <1>4, <1>10 DEF OutSound
<1>12. OutSound'
  <2>1. ASSUME NEW c \in Channels
        PROVE  (IdsOnce(out[c]) /\ \A k \in DOMAIN out[c] : ChannelOf[out[c][k].id] = c)'
    BY <1>2, <1>7, <2>1 DEF OutSound
  <2>2. ASSUME NEW j \in Instruments, NEW y \in Waits(j)' PROVE View(y) = View(quotes[j])
    <3>1. CASE j = x.id
      BY <1>10, <2>2, <3>1 DEF Waits
    <3>2. CASE j # x.id
      BY <1>9, <2>2, <3>2 DEF OutSound
    <3> QED BY <3>1, <3>2
  <2> QED BY <2>1, <2>2 DEF OutSound
<1> QED BY <1>2, <1>3, <1>4, <1>9, <1>10, <1>11, <1>12 DEF x, s

EntriesSound(f) ==
    \A i \in DOMAIN f : /\ i \in Instruments /\ f[i].quote \in Quote /\ f[i].quote.id = i
                        /\ f[i].seq \in Nat /\ f[i].covers \in BOOLEAN

PassTypes ==
    /\ EntriesSound(changed) /\ EntriesSound(taken)
    /\ main \in [Instruments -> [quote : Quote, seq : Nat, gaps : Int]]
    /\ seen \in Store /\ known \in [Instruments -> Views]
    /\ conf.impl # "Onix" => reader = "none"

(* Once the thread has worked through what it took, and then what is in    *)
(* the map, clients have seen book b, or a bare status covers it.          *)
Shown0(i, b) == i \in hist.covered \/ seen[i].book = b
Shown1(i, b) ==
    IF i \notin DOMAIN taken THEN Shown0(i, b)
    ELSE IF isChanged(taken[i].quote) THEN taken[i].quote.book = b ELSE taken[i].covers \/ Shown0(i, b)
Shown2(i, b) ==
    IF i \notin DOMAIN changed THEN Shown1(i, b)
    ELSE IF isChanged(changed[i].quote) THEN changed[i].quote.book = b ELSE changed[i].covers \/ Shown1(i, b)
ShownAt(i) ==
    ~isChanged(Pending(i)) /\ (\A x \in Waits(i) : ~isChanged(x)) => Shown2(i, quotes[i].book)

(* The quote before the one in the map, its number, and the last one       *)
(* passed on.                                                              *)
Quote1(i) == IF i \in DOMAIN taken THEN taken[i].quote ELSE seen[i]
Number1(i) == IF i \in DOMAIN taken THEN taken[i].seq ELSE main[i].seq
Quote2(i) == IF i \in DOMAIN changed THEN changed[i].quote ELSE Quote1(i)

NumbersAt(i) ==
    /\ main[i].gaps >= 0
    /\ i \in DOMAIN taken => main[i].seq < taken[i].seq
    /\ i \in DOMAIN changed => Number1(i) < changed[i].seq

(* No quote was replaced, up to the one taken and up to the one in the map.*)
Unbroken1(i) == main[i].gaps = 0 /\ (i \in DOMAIN taken => taken[i].seq = main[i].seq + 1)
Unbroken2(i) == Unbroken1(i) /\ (i \in DOMAIN changed => changed[i].seq = Number1(i) + 1)

(* Then each quote flags all that changed since the one before it.         *)
FollowAt(i) ==
    conf.impl # "AMR" =>
        /\ main[i].gaps = 0 => known[i] = View(seen[i])
        /\ Unbroken1(i) /\ i \in DOMAIN taken => Follows(seen[i], taken[i].quote)
        /\ Unbroken2(i) /\ i \in DOMAIN changed => Follows(Quote1(i), changed[i].quote)
        /\ Unbroken2(i) => \A x \in Waits(i) : Follows(Quote2(i), x)
        /\ Unbroken2(i) /\ Waits(i) = {} => Follows(Quote2(i), Pending(i))

BookAt(i) == BookMatches(quotes[i].book, hist.books[i])
PassedAt(i) == BookAt(i) /\ ShownAt(i) /\ NumbersAt(i) /\ FollowAt(i)

PassInv == WakeInv /\ FeedSound /\ HistTypes /\ PassTypes /\ \A i \in Instruments : PassedAt(i)

(* Nothing of i moved.                                                     *)
SameEntry(f, g, i) == (i \in DOMAIN g <=> i \in DOMAIN f) /\ (i \in DOMAIN f => g[i] = f[i])
SamePassed(i) ==
    /\ SameEntry(changed, changed', i) /\ SameEntry(taken, taken', i)
    /\ main'[i] = main[i] /\ seen'[i] = seen[i] /\ known'[i] = known[i]
    /\ i \in hist'.covered <=> i \in hist.covered
Untouched(i) ==
    /\ quotes'[i] = quotes[i] /\ Waits(i)' = Waits(i) /\ hist'.books[i] = hist.books[i] /\ SamePassed(i)

LEMMA UntouchedPassed ==
    ASSUME NEW i \in Instruments, PassedAt(i), Untouched(i), UNCHANGED conf
    PROVE  PassedAt(i)'
<1> USE DEF Untouched, SamePassed, SameEntry, PassedAt
<1>1. BookAt(i)'
  BY DEF BookAt, BookMatches
<1>2. Pending(i)' = Pending(i)
  BY DEF Pending
<1>3. ShownAt(i)'
  BY <1>2 DEF ShownAt, Shown0, Shown1, Shown2
<1>4. /\ Number1(i)' = Number1(i) /\ Quote1(i)' = Quote1(i) /\ Quote2(i)' = Quote2(i)
      /\ Unbroken1(i)' <=> Unbroken1(i)
  BY DEF Number1, Quote1, Quote2, Unbroken1
<1>5. Unbroken2(i)' <=> Unbroken2(i)
  BY <1>4 DEF Unbroken2
<1>6. NumbersAt(i)'
  BY <1>4 DEF NumbersAt
<1>7. FollowAt(i)'
  BY <1>2, <1>4, <1>5 DEF FollowAt
<1> QED BY <1>1, <1>3, <1>6, <1>7

(* A callback of the feed.                                                 *)
LEMMA MovesPassed ==
    ASSUME FeedTypes, FeedTypes', PassTypes, NEW i \in Instruments, PassedAt(i), UNCHANGED conf, SamePassed(i), Moves(i)
    PROVE  PassedAt(i)'
<1>1. PICK u \in Quote :
        /\ View(quotes'[i]) = View(u)
        /\ conf.impl # "AMR" => Grows(Pending(i), u)
        /\ \/ Waits(i)' = {} /\ Pending(i)'.flags = u.flags /\ conf.impl # "AMR"
           \/ \E x \in Quote : /\ Waits(i)' = {x} /\ x.flags = u.flags /\ View(x) = View(u)
                               /\ conf.impl = "AMR" => Publishable(x)
  BY DEF Moves
<1>2. Waits(i) = {}
  BY DEF Moves
<1>3. /\ Number1(i)' = Number1(i) /\ Quote1(i)' = Quote1(i) /\ Quote2(i)' = Quote2(i)
      /\ Unbroken1(i)' <=> Unbroken1(i)
  BY DEF SamePassed, SameEntry, Number1, Quote1, Quote2, Unbroken1
<1>4. Unbroken2(i)' <=> Unbroken2(i)
  BY <1>3 DEF SamePassed, SameEntry, Unbroken2
<1>5. BookAt(i)'
  BY DEF Moves, BookAt, BookMatches, PassedAt
<1>6. NumbersAt(i)'
  BY <1>3 DEF SamePassed, SameEntry, NumbersAt, PassedAt
<1>7. /\ Pending(i) \in Quote /\ View(Pending(i)) = View(quotes[i])
      /\ Pending(i)' \in Quote /\ View(Pending(i)') = View(quotes'[i])
  <2>1. (Pending(i) \in Quote /\ View(Pending(i)) = View(quotes[i]))'
    BY PendingQuote, PTL
  <2> QED BY <2>1, PendingQuote
<1>8. ShownAt(i)'
  <2> SUFFICES ASSUME ~isChanged(Pending(i)'), \A x \in Waits(i)' : ~isChanged(x)
               PROVE  Shown2(i, quotes[i].book)'
    BY DEF ShownAt
  <2>1. u.flags = {} /\ conf.impl # "AMR"
    <3>1. ASSUME NEW x \in Quote, Waits(i)' = {x}, x.flags = u.flags, conf.impl = "AMR" => Publishable(x)
          PROVE  u.flags = {} /\ conf.impl # "AMR"
      <4>1. Publishable(x) => isChanged(x)
        BY DEF Publishable, isNormalTrade, isTrade, isLevelUpdate0, isChanged
      <4> QED BY <3>1, <4>1 DEF isChanged
    <3> QED BY <1>1, <3>1 DEF isChanged
  <2>2. Pending(i).flags = {} /\ View(Pending(i)) = View(u)
    <3>1. Pending(i).flags = {} /\ Follows(Pending(i), u)
      BY <1>1, <2>1 DEF Grows
    <3> QED BY <1>7, <2>1, <3>1, FollowsBare
  <2>3. quotes'[i].book = quotes[i].book
    BY <1>1, <1>7, <2>2 DEF View
  <2>4. Shown2(i, quotes[i].book)
    BY <1>2, <2>2 DEF PassedAt, ShownAt, isChanged
  <2> QED BY <2>3, <2>4 DEF SamePassed, SameEntry, Shown0, Shown1, Shown2
<1>9. FollowAt(i)'
  <2> SUFFICES ASSUME conf.impl # "AMR" PROVE FollowAt(i)'
    BY DEF FollowAt
  <2>1. Unbroken2(i) => Follows(Quote2(i), u)
    <3>1. Unbroken2(i) => Follows(Quote2(i), Pending(i))
      BY <1>2 DEF PassedAt, FollowAt
    <3> QED BY <1>1, <3>1, FollowsGrows
  <2>2. ASSUME NEW y, y.flags = u.flags, View(y) = View(u), Unbroken2(i) PROVE Follows(Quote2(i), y)
    BY <2>1, <2>2 DEF Follows, View
  <2>3. Unbroken2(i) => \A x \in Waits(i)' : Follows(Quote2(i), x)
    BY <1>1, <2>2
  <2>4. Unbroken2(i) /\ Waits(i)' = {} => Follows(Quote2(i), Pending(i)')
    BY <1>1, <1>7, <2>2
  <2> QED BY <1>3, <1>4, <2>3, <2>4 DEF FollowAt, SamePassed, SameEntry, PassedAt
<1> QED BY <1>5, <1>6, <1>8, <1>9 DEF PassedAt

(* A client that follows the flags knows what the quote shows.             *)
LEMMA FollowedView ==
    ASSUME NEW a \in Quote, NEW k, NEW x \in Quote
    PROVE  /\ k \in Views => Followed(k, x) \in Views
           /\ k = View(a) /\ Follows(a, x) => Followed(k, x) = View(x)
<1> DEFINE b == [c \in Cells |->
                   [price |-> IF <<"price", c>> \in x.flags THEN x.book[c].price ELSE k.book[c].price,
                    size  |-> IF <<"size", c>> \in x.flags THEN x.book[c].size ELSE k.book[c].size]]
           o == [f \in OHL |-> IF ohlBits(f) \in x.flags THEN x.ohl[f] ELSE k.ohl[f]]
<1>1. Followed(k, x) = [book |-> b, ohl |-> o]
  BY DEF Followed
<1>2. x.book \in [Cells -> Level] /\ x.ohl \in [OHL -> Int]
  BY QuoteFields
<1>3. ASSUME k \in Views PROVE b \in [Cells -> Level] /\ o \in [OHL -> Int]
  BY <1>2, <1>3 DEF Views, Level
<1>4. ASSUME k = View(a), Follows(a, x) PROVE b = x.book /\ o = x.ohl
  <2>1. k.book = a.book /\ k.ohl = a.ohl
    BY <1>4 DEF View
  <2>2. ASSUME NEW c \in Cells PROVE b[c] = x.book[c]
    <3>1. b[c] = [price |-> x.book[c].price, size |-> x.book[c].size]
      BY <1>4, <2>1 DEF Follows
    <3> QED BY <1>2, <3>1 DEF Level
  <2>3. ASSUME NEW f \in OHL PROVE o[f] = x.ohl[f]
    BY <1>4, <2>1 DEF Follows
  <2> QED BY <1>2, <2>2, <2>3
<1> HIDE DEF b, o
<1> QED BY <1>1, <1>3, <1>4 DEF Views, View

LEMMA AddedVolumes ==
    ASSUME NEW v \in Volumes, NEW k \in Prices \X Sides, NEW n \in Nat
    PROVE  /\ Added(v, k, n) \in Volumes /\ Added(v, k, n)[k] = v[k] + n
           /\ \A l \in Prices \X Sides : l # k => Added(v, k, n)[l] = v[l]
BY DEF Added, Volumes

(* What the clients are told changes.                                      *)
LEMMA NotifyTells ==
    ASSUME HistTypes, PassTypes, NEW x \in Quote, notifySubscribers(x)
    PROVE  /\ HistTypes' /\ hist'.books = hist.books /\ hist'.covered = hist.covered \ {x.id}
           /\ seen' \in Store /\ known' \in [Instruments -> Views]
           /\ seen'[x.id] = x /\ known'[x.id] = Followed(known[x.id], x)
           /\ \A j \in Instruments \ {x.id} : seen'[j] = seen[j] /\ known'[j] = known[j]
<1> DEFINE i == x.id  sold == <<x.trade.price, x.trade.side>>
           told == IF isTrade(x) THEN Added(hist.told[i], sold, x.trade.size) ELSE hist.told[i]
           refused == IF Publishable(x) THEN hist.refused \ {i}
                      ELSE IF isLevelUpdate0(x) THEN hist.refused \cup {i} ELSE hist.refused
<1>1. i \in Instruments /\ x.trade \in Trade /\ (isTrade(x) => x.trade.price \in Prices)
  BY QuoteFields
<1>2. isTrade(x) => sold \in Prices \X Sides /\ x.trade.size \in Nat
  BY <1>1 DEF Trade
<1>3. told \in Volumes
  <2>1. hist.told[i] \in Volumes
    BY <1>1 DEF HistTypes
  <2> HIDE DEF sold
  <2> QED BY <1>2, <2>1, AddedVolumes
<1>4. refused \in SUBSET Instruments
  BY <1>1 DEF HistTypes
<1>5. hist' = [hist EXCEPT !.told[i] = told, !.covered = hist.covered \ {i}, !.refused = refused]
  BY DEF notifySubscribers
<1> HIDE DEF told, refused
<1>6. HistTypes' /\ hist'.books = hist.books /\ hist'.covered = hist.covered \ {i}
  BY <1>1, <1>3, <1>4, <1>5 DEF HistTypes
<1>7. /\ seen' \in Store /\ seen'[i] = x /\ \A j \in Instruments \ {i} : seen'[j] = seen[j]
  BY <1>1 DEF notifySubscribers, PassTypes, Store
<1>8. /\ known' \in [Instruments -> Views] /\ known'[i] = Followed(known[i], x)
      /\ \A j \in Instruments \ {i} : known'[j] = known[j]
  <2>1. Followed(known[i], x) \in Views
    BY <1>1, FollowedView DEF PassTypes
  <2>2. known' = [known EXCEPT ![i] = Followed(known[i], x)]
    BY DEF notifySubscribers
  <2> QED BY <1>1, <2>1, <2>2 DEF PassTypes
<1> QED BY <1>6, <1>7, <1>8

PassedNow == FeedSound /\ HistTypes /\ PassTypes /\ \A i \in Instruments : PassedAt(i)

(* onQuote in the feed's thread: the clients see the quote at the head.    *)
LEMMA DirectPassed ==
    ASSUME PassInv, NEW ch \in Channels, onQuoteDirect(ch)
    PROVE  PassedNow'
<1>1. /\ FeedTypes /\ OutSound /\ PendingKnown /\ HistTypes /\ PassTypes /\ WakeInv
      /\ out[ch] # <<>> /\ reader = "none" /\ notifySubscribers(Head(out[ch]))
      /\ out' = [out EXCEPT ![ch] = Tail(@)]
      /\ UNCHANGED <<conf, phase, server, quotes, updated, changed, taken, main, reader>>
  BY DEF PassInv, FeedSound, onQuoteDirect, threadVars
<1>2. DOMAIN changed = {} /\ DOMAIN taken = {}
  BY <1>1 DEF WakeInv, ReaderSound
<1>3. PICK x, i : x = Head(out[ch]) /\ i = x.id
  OBVIOUS
<1>4. /\ x \in Quote /\ i \in Instruments /\ View(x) = View(quotes[i])
      /\ Waits(i) = {x} /\ Waits(i)' = {}
      /\ \A j \in Instruments \ {i} : Waits(j)' = Waits(j)
      /\ out' \in [Channels -> Seq(Quote)] /\ OutSound'
  BY <1>1, <1>3, HeadGone DEF Waits
<1>5. /\ HistTypes' /\ hist'.books = hist.books /\ hist'.covered = hist.covered \ {i}
      /\ seen' \in Store /\ known' \in [Instruments -> Views]
      /\ seen'[i] = x /\ known'[i] = Followed(known[i], x)
      /\ \A j \in Instruments \ {i} : seen'[j] = seen[j] /\ known'[j] = known[j]
  BY <1>1, <1>3, <1>4, NotifyTells
<1>6. \A j \in Instruments : Pending(j)' = Pending(j)
  BY <1>1 DEF Pending
<1>7. FeedSound'
  <2>1. PendingKnown'
    BY <1>1, <1>6 DEF PendingKnown
  <2> QED BY <1>1, <1>4, <2>1 DEF FeedSound, FeedTypes
<1>8. PassTypes'
  BY <1>1, <1>5 DEF PassTypes, EntriesSound
<1>9. ASSUME NEW j \in Instruments, j # i PROVE PassedAt(j)'
  <2>1. Untouched(j)
    BY <1>1, <1>4, <1>5, <1>9 DEF Untouched, SamePassed, SameEntry
  <2> QED BY <1>1, <2>1, UntouchedPassed DEF PassInv
<1>10. PassedAt(i)'
  <2>1. PassedAt(i)
    BY <1>4 DEF PassInv
  <2>2. BookAt(i)'
    BY <1>1, <1>5, <2>1 DEF PassedAt, BookAt, BookMatches
  <2>3. ShownAt(i)'
    <3>1. x.book = quotes[i].book
      BY <1>4 DEF View
    <3> QED BY <1>1, <1>2, <1>5, <3>1 DEF ShownAt, Shown0, Shown1, Shown2
  <2>4. NumbersAt(i)'
    BY <1>1, <1>2, <2>1 DEF PassedAt, NumbersAt
  <2>5. FollowAt(i)'
    <3> SUFFICES ASSUME conf.impl # "AMR" PROVE FollowAt(i)'
      BY <1>1 DEF FollowAt
    <3>1. /\ Unbroken1(i) <=> main[i].gaps = 0
          /\ Unbroken2(i) <=> main[i].gaps = 0
          /\ Unbroken2(i)' <=> main[i].gaps = 0
      BY <1>1, <1>2 DEF Unbroken1, Unbroken2
    <3>2. Quote2(i) = seen[i] /\ Quote2(i)' = x
      BY <1>1, <1>2, <1>5 DEF Quote1, Quote2
    <3>3. ASSUME main[i].gaps = 0 PROVE known'[i] = View(x) /\ Follows(x, Pending(i)')
      <4>1. known[i] = View(seen[i]) /\ Follows(seen[i], x)
        BY <1>4, <2>1, <3>1, <3>2, <3>3 DEF PassedAt, FollowAt
      <4>2. seen[i] \in Quote
        BY <1>1, <1>4, StoreQuotes DEF PassTypes
      <4>3. View(Pending(i)') = View(x)
        BY <1>1, <1>4, <1>6, PendingQuote
      <4>4. Follows(x, Pending(i)')
        BY <4>3, FollowsView
      <4> QED BY <1>4, <1>5, <4>1, <4>2, <4>4, FollowedView
    <3> QED BY <1>1, <1>2, <1>4, <1>5, <3>1, <3>2, <3>3 DEF FollowAt
  <2> QED BY <2>2, <2>3, <2>4, <2>5 DEF PassedAt
<1> QED BY <1>5, <1>7, <1>8, <1>9, <1>10 DEF PassedNow

(* onQuote when multithreaded: the quote goes into the map.                *)
LEMMA ThreadedPassed ==
    ASSUME PassInv, NEW ch \in Channels, onQuoteThreaded(ch)
    PROVE  PassedNow'
<1>1. /\ FeedTypes /\ OutSound /\ PendingKnown /\ HistTypes /\ PassTypes /\ WakeInv
      /\ out[ch] # <<>>
      /\ out' = [out EXCEPT ![ch] = Tail(@)]
      /\ UNCHANGED <<conf, phase, server, quotes, updated, taken, main, reader, seen, known, hist>>
  BY DEF PassInv, FeedSound, onQuoteThreaded, clientVars
<1>2. PICK x, i : x = Head(out[ch]) /\ i = x.id
  OBVIOUS
<1>3. /\ x \in Quote /\ i \in Instruments /\ View(x) = View(quotes[i]) /\ x.id = i
      /\ Waits(i) = {x} /\ Waits(i)' = {}
      /\ \A j \in Instruments \ {i} : Waits(j)' = Waits(j)
      /\ out' \in [Channels -> Seq(Quote)] /\ OutSound'
  BY <1>1, <1>2, HeadGone DEF Waits
<1> DEFINE n == seq[i] + 1
           v == i \in DOMAIN changed /\ ~isChanged(x) /\ (isChanged(changed[i].quote) \/ changed[i].covers)
<1>4. changed' = [j \in DOMAIN changed \cup {i} |-> IF j = i THEN [quote |-> x, seq |-> n, covers |-> v] ELSE changed[j]]
  BY <1>2 DEF onQuoteThreaded
<1>5. n \in Nat /\ n > seq[i]
  BY <1>1, <1>3 DEF WakeInv, WakeTypes
<1>6. v \in BOOLEAN
  <2>1. i \in DOMAIN changed => changed[i].covers \in BOOLEAN
    BY <1>1 DEF PassTypes, EntriesSound
  <2> QED BY <2>1, Zenon
<1> HIDE DEF v, n
<1>7. /\ DOMAIN changed' = DOMAIN changed \cup {i}
      /\ changed'[i].quote = x /\ changed'[i].seq = n /\ changed'[i].covers = v
      /\ \A j \in DOMAIN changed : j # i => changed'[j] = changed[j]
  BY <1>4
<1>8. \A j \in Instruments : Pending(j)' = Pending(j)
  BY <1>1 DEF Pending
<1>9. FeedSound'
  <2>1. PendingKnown'
    BY <1>1, <1>8 DEF PendingKnown
  <2> QED BY <1>1, <1>3, <2>1 DEF FeedSound, FeedTypes
<1>10. PassTypes' /\ HistTypes'
  <2>1. EntriesSound(changed')
    BY <1>1, <1>3, <1>5, <1>6, <1>7 DEF PassTypes, EntriesSound
  <2> QED BY <1>1, <2>1 DEF PassTypes, EntriesSound, HistTypes
<1>11. ASSUME NEW j \in Instruments, j # i PROVE PassedAt(j)'
  <2>1. Untouched(j)
    BY <1>1, <1>3, <1>7, <1>11 DEF Untouched, SamePassed, SameEntry
  <2> QED BY <1>1, <2>1, UntouchedPassed DEF PassInv
<1>12. PassedAt(i)'
  <2>1. PassedAt(i)
    BY <1>3 DEF PassInv
  <2>2. BookAt(i)'
    BY <1>1, <2>1 DEF PassedAt, BookAt, BookMatches
  <2>3. ShownAt(i)'
    <3> SUFFICES ASSUME ~isChanged(Pending(i)') PROVE Shown2(i, quotes[i].book)'
      BY DEF ShownAt
    <3>1. x.book = quotes[i].book
      BY <1>3 DEF View
    <3>2. \A b : Shown1(i, b)' <=> Shown1(i, b)
      BY <1>1 DEF Shown0, Shown1
    <3>3. CASE isChanged(x)
      BY <1>1, <1>7, <3>1, <3>3 DEF Shown2
    <3>4. CASE ~isChanged(x)
      <4>1. Shown2(i, quotes[i].book)
        BY <1>3, <1>8, <2>1, <3>4 DEF PassedAt, ShownAt
      <4>2. ~v => Shown1(i, quotes[i].book)
        BY <3>4, <4>1 DEF Shown2, v
      <4> QED BY <1>1, <1>7, <3>2, <3>4, <4>2 DEF Shown2
    <3> QED BY <3>3, <3>4
  <2>4. /\ Number1(i)' = Number1(i) /\ Quote1(i)' = Quote1(i) /\ (Unbroken1(i)' <=> Unbroken1(i))
        /\ Number1(i) <= seq[i] /\ (i \notin DOMAIN changed => Number1(i) = seq[i])
        /\ (i \in DOMAIN changed => Number1(i) < seq[i]) /\ Number1(i) \in Nat
    <3>1. /\ Number1(i)' = Number1(i) /\ Quote1(i)' = Quote1(i) /\ (Unbroken1(i)' <=> Unbroken1(i))
      BY <1>1 DEF Number1, Quote1, Unbroken1
    <3>2. seq[i] \in Nat /\ Number1(i) \in Nat
      BY <1>1, <1>3 DEF WakeInv, WakeTypes, PassTypes, EntriesSound, Number1
    <3>3. i \notin DOMAIN changed => Number1(i) = seq[i]
      BY <1>1, <1>3 DEF WakeInv, NumbersMeet, Number1
    <3>4. i \in DOMAIN changed => Number1(i) < seq[i]
      BY <1>1, <1>3, <2>1 DEF WakeInv, NumbersMeet, PassedAt, NumbersAt
    <3> QED BY <3>1, <3>2, <3>3, <3>4
  <2>5. NumbersAt(i)'
    BY <1>1, <1>3, <1>5, <1>7, <2>1, <2>4 DEF PassedAt, NumbersAt, WakeInv, WakeTypes
  <2>6. FollowAt(i)'
    <3> SUFFICES ASSUME conf.impl # "AMR" PROVE FollowAt(i)'
      BY <1>1 DEF FollowAt
    <3>1. Unbroken2(i)' => i \notin DOMAIN changed /\ Unbroken2(i)
      <4>1. seq[i] \in Nat /\ n = seq[i] + 1
        BY <1>1, <1>3 DEF WakeInv, WakeTypes, n
      <4> QED BY <1>1, <1>7, <2>4, <4>1 DEF Unbroken2
    <3>2. Quote2(i)' = x
      BY <1>7 DEF Quote2
    <3>3. Unbroken2(i)' => Follows(Quote1(i), x)
      BY <1>3, <2>1, <3>1 DEF PassedAt, FollowAt, Quote2
    <3>4. Follows(x, Pending(i)')
      <4>1. View(Pending(i)') = View(x)
        BY <1>1, <1>3, <1>8, PendingQuote
      <4> QED BY <4>1, FollowsView
    <3> QED BY <1>1, <1>3, <1>7, <2>1, <2>4, <3>2, <3>3, <3>4 DEF PassedAt, FollowAt
  <2> QED BY <2>2, <2>3, <2>5, <2>6 DEF PassedAt
<1> QED BY <1>9, <1>10, <1>11, <1>12 DEF PassedNow

(* The thread takes the map.                                               *)
LEMMA TakePassed ==
    ASSUME PassInv, takeQuotes
    PROVE  PassedNow'
<1>1. /\ FeedSound /\ HistTypes /\ PassTypes /\ WakeInv /\ reader = "taking"
      /\ taken' = changed /\ changed' = Nothing
      /\ UNCHANGED <<conf, phase, server, quotes, updated, out, main, seen, known, hist>>
  BY DEF PassInv, takeQuotes, clientVars, feedVars
<1>2. DOMAIN taken = {} /\ DOMAIN Nothing = {}
  BY <1>1 DEF WakeInv, ReaderSound, Nothing
<1>3. \A j \in Instruments : Pending(j)' = Pending(j) /\ Waits(j)' = Waits(j)
  BY <1>1 DEF Pending, Waits
<1>4. FeedSound' /\ HistTypes'
  BY <1>1, <1>3 DEF FeedSound, FeedTypes, OutSound, PendingKnown, HistTypes
<1>5. PassTypes'
  <2>1. conf.impl = "Onix"
    BY <1>1 DEF PassTypes
  <2> QED BY <1>1, <1>2, <2>1 DEF PassTypes, EntriesSound
<1>6. ASSUME NEW i \in Instruments PROVE PassedAt(i)'
  <2>1. PassedAt(i)
    BY DEF PassInv
  <2>2. BookAt(i)'
    BY <1>1, <2>1 DEF PassedAt, BookAt, BookMatches
  <2>3. ShownAt(i)'
    <3>1. \A b : Shown2(i, b)' <=> Shown2(i, b)
      BY <1>1, <1>2 DEF Shown0, Shown1, Shown2
    <3> QED BY <1>1, <1>3, <2>1, <3>1 DEF PassedAt, ShownAt
  <2>4. /\ Number1(i) = main[i].seq /\ Quote1(i) = seen[i]
        /\ Quote2(i)' = Quote2(i) /\ (Unbroken1(i)' <=> Unbroken2(i)) /\ (Unbroken2(i)' <=> Unbroken2(i))
    BY <1>1, <1>2 DEF Number1, Quote1, Quote2, Unbroken1, Unbroken2
  <2>5. NumbersAt(i)'
    BY <1>1, <1>2, <2>1, <2>4 DEF PassedAt, NumbersAt
  <2>6. FollowAt(i)'
    BY <1>1, <1>2, <1>3, <2>1, <2>4 DEF PassedAt, FollowAt
  <2> QED BY <2>2, <2>3, <2>5, <2>6 DEF PassedAt
<1> QED BY <1>4, <1>5, <1>6 DEF PassedNow

(* The thread copies a quote, and tells the clients if it has changes.     *)
LEMMA CopyPassed ==
    ASSUME PassInv, NEW i \in Instruments, copyQuote(i)
    PROVE  PassedNow'
<1> DEFINE e == taken[i]  x == e.quote
<1>1. /\ FeedSound /\ HistTypes /\ PassTypes /\ WakeInv /\ reader = "copying" /\ i \in DOMAIN taken
      /\ main' = [main EXCEPT ![i] = [quote |-> x, seq |-> e.seq, gaps |-> @.gaps + e.seq - @.seq - 1]]
      /\ taken' = [j \in DOMAIN taken \ {i} |-> taken[j]]
      /\ UNCHANGED <<conf, phase, server, quotes, updated, out, changed>>
  BY DEF PassInv, copyQuote, feedVars
<1>2. x \in Quote /\ x.id = i /\ e.seq \in Nat /\ e.covers \in BOOLEAN /\ conf.impl = "Onix"
  BY <1>1 DEF PassTypes, EntriesSound
<1>3. /\ DOMAIN taken' = DOMAIN taken \ {i} /\ \A j \in DOMAIN taken \ {i} : taken'[j] = taken[j]
  BY <1>1
<1>4. /\ main' \in [Instruments -> [quote : Quote, seq : Nat, gaps : Int]]
      /\ main'[i].gaps = main[i].gaps + e.seq - main[i].seq - 1 /\ main'[i].seq = e.seq
      /\ \A j \in Instruments \ {i} : main'[j] = main[j]
  BY <1>1, <1>2 DEF PassTypes
<1>5. PassedAt(i) /\ \A j \in Instruments : PassedAt(j)
  BY DEF PassInv
<1> HIDE DEF x, e
<1>6. /\ HistTypes' /\ hist'.books = hist.books
      /\ seen' \in Store /\ known' \in [Instruments -> Views]
      /\ \A j \in Instruments \ {i} : /\ seen'[j] = seen[j] /\ known'[j] = known[j]
                                      /\ j \in hist'.covered <=> j \in hist.covered
      /\ isChanged(x) => seen'[i] = x /\ known'[i] = Followed(known[i], x)
      /\ ~isChanged(x) => /\ seen'[i] = seen[i] /\ known'[i] = known[i]
                          /\ i \in hist'.covered <=> e.covers \/ i \in hist.covered
  <2>1. CASE isChanged(x)
    <3>1. notifySubscribers(x)
      BY <2>1 DEF copyQuote, x, e
    <3> QED BY <1>1, <1>2, <2>1, <3>1, NotifyTells
  <2>2. CASE ~isChanged(x)
    <3>1. /\ hist' = [hist EXCEPT !.covered = IF e.covers THEN @ \cup {i} ELSE @]
          /\ seen' = seen /\ known' = known
      BY <2>2 DEF copyQuote, x, e, clientVars
    <3> QED BY <1>1, <2>2, <3>1 DEF HistTypes, PassTypes
  <2> QED BY <2>1, <2>2
<1>7. \A j \in Instruments : Pending(j)' = Pending(j) /\ Waits(j)' = Waits(j)
  BY <1>1 DEF Pending, Waits
<1>8. FeedSound'
  BY <1>1, <1>7 DEF FeedSound, FeedTypes, OutSound, PendingKnown
<1>9. PassTypes'
  <2>1. EntriesSound(taken')
    BY <1>1, <1>3 DEF PassTypes, EntriesSound
  <2> QED BY <1>1, <1>2, <1>4, <1>6, <2>1 DEF PassTypes
<1>10. ASSUME NEW j \in Instruments, j # i PROVE PassedAt(j)'
  <2>1. Untouched(j)
    <3>1. SameEntry(changed, changed', j) /\ SameEntry(taken, taken', j)
      BY <1>1, <1>3, <1>10 DEF SameEntry
    <3>2. /\ main'[j] = main[j] /\ seen'[j] = seen[j] /\ known'[j] = known[j]
          /\ j \in hist'.covered <=> j \in hist.covered
      <4>1. j \in Instruments \ {i}
        BY <1>10
      <4>2. main'[j] = main[j]
        BY <1>4, <4>1
      <4>3. seen'[j] = seen[j] /\ known'[j] = known[j] /\ (j \in hist'.covered <=> j \in hist.covered)
        BY <1>6, <4>1, Zenon
      <4> QED BY <4>2, <4>3
    <3>3. quotes'[j] = quotes[j] /\ Waits(j)' = Waits(j) /\ hist'.books[j] = hist.books[j]
      BY <1>1, <1>6, <1>7
    <3> QED BY <3>1, <3>2, <3>3 DEF Untouched, SamePassed
  <2> QED BY <1>1, <1>5, <2>1, UntouchedPassed
<1>11. PassedAt(i)'
  <2>1. BookAt(i)'
    BY <1>1, <1>5, <1>6 DEF PassedAt, BookAt, BookMatches
  <2>2. ASSUME NEW b, Shown1(i, b) PROVE Shown1(i, b)'
    BY <1>1, <1>3, <1>6, <2>2 DEF Shown0, Shown1, x, e
  <2>3. ShownAt(i)'
    BY <1>1, <1>5, <1>7, <2>2 DEF PassedAt, ShownAt, Shown2
  <2>4. /\ main[i].gaps \in Int /\ main[i].gaps >= 0 /\ main[i].seq \in Nat /\ main[i].seq < e.seq
    BY <1>1, <1>5 DEF PassTypes, PassedAt, NumbersAt, e
  <2>5. /\ Number1(i) = e.seq /\ Number1(i)' = e.seq /\ Quote1(i) = x
        /\ main'[i].gaps >= 0 /\ (main'[i].gaps = 0 <=> Unbroken1(i))
    <3>1. /\ Number1(i) = e.seq /\ Number1(i)' = e.seq /\ Quote1(i) = x
      BY <1>1, <1>3, <1>4 DEF Number1, Quote1, x, e
    <3>2. Unbroken1(i) <=> main[i].gaps = 0 /\ e.seq = main[i].seq + 1
      BY <1>1 DEF Unbroken1, e
    <3>3. \A g, h, s, n \in Int : g >= 0 /\ s < n /\ h = g + n - s - 1 => h >= 0 /\ (h = 0 <=> g = 0 /\ n = s + 1)
      OBVIOUS
    <3>4. main'[i].gaps \in Int /\ main[i].seq \in Int /\ e.seq \in Int /\ main[i].gaps \in Int
      BY <1>2, <1>4, <2>4
    <3>5. main'[i].gaps >= 0 /\ (main'[i].gaps = 0 <=> main[i].gaps = 0 /\ e.seq = main[i].seq + 1)
      <4>1. main'[i].gaps = main[i].gaps + e.seq - main[i].seq - 1 /\ main[i].gaps >= 0 /\ main[i].seq < e.seq
        BY <1>4, <2>4
      <4> QED BY <3>3, <3>4, <4>1, ZenonT(40)
    <3> QED BY <3>1, <3>2, <3>5
  <2>6. NumbersAt(i)'
    BY <1>1, <1>3, <1>5, <2>5 DEF PassedAt, NumbersAt
  <2>7. FollowAt(i)'
    <3>1. (Unbroken1(i)' <=> Unbroken1(i)) /\ (Unbroken2(i)' <=> Unbroken2(i))
      BY <1>1, <1>3, <2>5 DEF Unbroken1, Unbroken2
    <3>2. Unbroken1(i) => main[i].gaps = 0
      BY DEF Unbroken1
    <3>3. Unbroken1(i) => Follows(seen[i], x) /\ known[i] = View(seen[i])
      BY <1>1, <1>2, <1>5, <3>2 DEF PassedAt, FollowAt, x, e
    <3>4. seen[i] \in Quote
      BY <1>1, StoreQuotes DEF PassTypes
    <3>5. Unbroken1(i) => known'[i] = View(seen'[i]) /\ View(seen'[i]) = View(x)
      <4>1. CASE isChanged(x)
        BY <1>2, <1>6, <3>3, <3>4, <4>1, FollowedView
      <4>2. CASE ~isChanged(x)
        BY <1>2, <1>6, <3>3, <3>4, <4>2, FollowsBare DEF isChanged
      <4> QED BY <4>1, <4>2
    <3>6. Quote1(i)' = seen'[i]
      BY <1>3 DEF Quote1
    <3>7. Unbroken1(i) => \A q : Follows(Quote1(i), q) => Follows(Quote1(i)', q)
      BY <2>5, <3>5, <3>6, FollowsView
    <3>8. Unbroken1(i) => \A q : Follows(Quote2(i), q) => Follows(Quote2(i)', q)
      BY <1>1, <3>7 DEF Quote2
    <3>9. Unbroken2(i) => Unbroken1(i)
      BY DEF Unbroken2
    <3>10. main'[i].gaps = 0 => known'[i] = View(seen'[i])
      BY <2>5, <3>5
    <3> QED BY <1>1, <1>3, <1>5, <1>7, <3>1, <3>7, <3>8, <3>9, <3>10 DEF PassedAt, FollowAt
  <2> QED BY <2>1, <2>3, <2>6, <2>7 DEF PassedAt
<1> QED BY <1>6, <1>8, <1>9, <1>10, <1>11 DEF PassedNow

(* The history of what the feed called.                                    *)
HistKept(books, wire, repeated) ==
    /\ hist' = [calls |-> hist.calls + 1, subs |-> hist.subs, books |-> books, wire |-> wire, told |-> hist.told,
                repeated |-> repeated, covered |-> hist.covered, refused |-> hist.refused]
    /\ books \in [Instruments -> Books] /\ wire \in [Instruments -> Volumes] /\ repeated \in SUBSET Instruments

LEMMA HistKeeps ==
    ASSUME HistTypes, NEW books, NEW wire, NEW repeated, HistKept(books, wire, repeated)
    PROVE  /\ HistTypes' /\ hist'.told = hist.told /\ hist'.covered = hist.covered /\ hist'.refused = hist.refused
           /\ hist'.books = books /\ hist'.wire = wire /\ hist'.repeated = repeated
<1>1. /\ hist'.calls = hist.calls + 1 /\ hist'.subs = hist.subs /\ hist'.books = books /\ hist'.wire = wire
      /\ hist'.told = hist.told /\ hist'.repeated = repeated /\ hist'.covered = hist.covered
      /\ hist'.refused = hist.refused
  BY DEF HistKept
<1>2. hist.calls + 1 \in Nat
  BY DEF HistTypes
<1>3. HistTypes'
  BY <1>2 DEF HistTypes, HistKept
<1> QED BY <1>1, <1>3

LEMMA OnixHist ==
    ASSUME FeedSound, HistTypes, onixCalls
    PROVE  /\ HistTypes' /\ hist'.told = hist.told /\ hist'.covered = hist.covered /\ hist'.refused = hist.refused
           /\ hist.repeated \subseteq hist'.repeated
<1> DEFINE Keeps == /\ HistTypes' /\ hist'.told = hist.told /\ hist'.covered = hist.covered
                    /\ hist'.refused = hist.refused /\ hist.repeated \subseteq hist'.repeated
<1>1. ASSUME hist' = [hist EXCEPT !.calls = @ + 1] PROVE Keeps
  BY <1>1 DEF HistTypes
<1>2. ASSUME NEW is \in SUBSET Instruments, NEW v, NEW ch, SetStatus(is, v, ch) PROVE Keeps
  <2> DEFINE r == hist.repeated \cup {i \in is : isTrade(quotes[i])}
  <2>1. hist' = [hist EXCEPT !.calls = @ + 1, !.repeated = r]
    BY <1>2 DEF SetStatus
  <2>2. r \in SUBSET Instruments /\ hist.repeated \subseteq r
    BY DEF HistTypes
  <2> HIDE DEF r
  <2>3. HistKept(hist.books, hist.wire, r)
    BY <2>1, <2>2 DEF HistTypes, HistKept
  <2> QED BY <2>2, <2>3, HistKeeps
<1>3. ASSUME NEW m \in Calls, m.kind = "book", onDirectBookUpdated(m) PROVE Keeps
  <2>1. m.i \in Instruments /\ m.book \in Books
    BY <1>3, FeedAssumption DEF Books
  <2>2. hist' = [hist EXCEPT !.calls = @ + 1, !.books[m.i] = m.book]
    BY <1>3 DEF onDirectBookUpdated
  <2> DEFINE b == [hist.books EXCEPT ![m.i] = m.book]
  <2>3. b \in [Instruments -> Books]
    BY <2>1 DEF HistTypes
  <2>4. hist' = [hist EXCEPT !.calls = @ + 1, !.books = b]
    BY <2>2
  <2> HIDE DEF b
  <2>5. HistKept(b, hist.wire, hist.repeated)
    BY <2>3, <2>4 DEF HistTypes, HistKept
  <2> QED BY <2>5, HistKeeps
<1>4. ASSUME NEW m \in Calls, m.kind = "trade", onTrade(m) PROVE Keeps
  <2>1. m.i \in Instruments /\ <<m.price, m.side>> \in Prices \X Sides /\ m.size \in Nat
    BY <1>4, TradeCallTypes
  <2> DEFINE w == Added(hist.wire[m.i], <<m.price, m.side>>, m.size)
  <2>2. w \in Volumes
    BY <2>1, AddedVolumes DEF HistTypes
  <2>3. \/ hist' = [hist EXCEPT !.calls = @ + 1]
        \/ hist' = [hist EXCEPT !.calls = @ + 1, !.wire[m.i] = w]
    BY <1>4 DEF onTrade
  <2> HIDE DEF w
  <2>4. CASE hist' = [hist EXCEPT !.calls = @ + 1, !.wire[m.i] = w]
    <3> DEFINE f == [hist.wire EXCEPT ![m.i] = w]
    <3>1. f \in [Instruments -> Volumes]
      BY <2>1, <2>2 DEF HistTypes
    <3>2. hist' = [hist EXCEPT !.calls = @ + 1, !.wire = f]
      BY <2>4
    <3> HIDE DEF f
    <3>3. HistKept(hist.books, f, hist.repeated)
      BY <3>1, <3>2 DEF HistTypes, HistKept
    <3> QED BY <3>3, HistKeeps
  <2> QED BY <1>1, <2>3, <2>4
<1>5. ASSUME NEW m \in Calls, OnixCallback(m) PROVE Keeps
  <2>1. m.kind = "reset" => {m.i} \in SUBSET Instruments
    BY FeedAssumption
  <2>2. CASE m.kind = "reset" /\ onStatisticsReset(m)
    BY <1>2, <2>1, <2>2 DEF onStatisticsReset
  <2>3. CASE onSecurityStatus(m) \/ onStatistics(m)
    BY <1>1, <2>3 DEF onSecurityStatus, onStatistics
  <2> HIDE DEF Keeps
  <2> QED BY <1>3, <1>4, <1>5, <2>2, <2>3 DEF OnixCallback
<1>6. ASSUME NEW m \in Calls, onChannelEvent(m) \/ onWarning(m) PROVE Keeps
  <2>1. CASE SetChannelStatus(m.ch, m.status)
    <3> DEFINE is == {i \in Instruments : Subscribed(i) /\ ChannelOf[i] = m.ch}
    <3>1. SetStatus(is, m.status, m.ch) /\ is \in SUBSET Instruments
      BY <2>1 DEF SetChannelStatus
    <3> HIDE DEF is
    <3> QED BY <1>2, <3>1
  <2> HIDE DEF Keeps
  <2> QED BY <1>1, <1>6, <2>1 DEF onChannelEvent, onWarning
<1> HIDE DEF Keeps
<1>7. Keeps
  BY <1>5, <1>6 DEF onixCalls
<1> QED BY <1>7 DEF Keeps

LEMMA HistoricalHist ==
    ASSUME FeedSound, HistTypes, historicalCalls
    PROVE  /\ HistTypes' /\ hist'.told = hist.told /\ hist'.covered = hist.covered /\ hist'.refused = hist.refused
           /\ hist'.repeated = hist.repeated
<1>1. PICK m \in Calls :
        /\ m.kind \in {"book", "trade"}
        /\ IF conf.impl = "AMR" /\ ~Publishable(replay(m))
           THEN hist' = [hist EXCEPT !.calls = @ + 1]
           ELSE LET q == HistoricalQuote(m)
                    side == IF conf.impl = "Nanex" THEN "Unknown" ELSE m.side
                IN  hist' = [hist EXCEPT !.calls = @ + 1,
                               !.books[m.i] = IF conf.impl = "AMR" THEN q.book
                                              ELSE IF m.kind = "book" THEN m.book ELSE @,
                               !.wire[m.i] = IF m.kind = "book" THEN @
                                             ELSE Added(@, <<m.price, side>>, m.size)]
  BY DEF historicalCalls
<1> DEFINE i == m.i  q == HistoricalQuote(m)
           side == IF conf.impl = "Nanex" THEN "Unknown" ELSE m.side
           b == IF conf.impl = "AMR" THEN q.book ELSE IF m.kind = "book" THEN m.book ELSE hist.books[i]
           w == IF m.kind = "book" THEN hist.wire[i] ELSE Added(hist.wire[i], <<m.price, side>>, m.size)
<1>2. i \in Instruments /\ hist.books[i] \in Books /\ hist.wire[i] \in Volumes
  BY <1>1, FeedAssumption DEF HistTypes
<1>3. b \in Books
  <2>1. CASE conf.impl = "AMR"
    <3>1. q = replay(m)
      BY <2>1 DEF HistoricalQuote, process
    <3>2. q \in Quote
      BY <1>1, <3>1, ReplayQuote DEF FeedSound
    <3> HIDE DEF q
    <3> QED BY <2>1, <3>2, QuoteFields DEF Books
  <2>2. CASE conf.impl # "AMR"
    BY <1>1, <1>2, <2>2 DEF Books
  <2> QED BY <2>1, <2>2
<1>4. w \in Volumes
  <2>1. CASE m.kind = "book"
    BY <1>2, <2>1
  <2>2. CASE m.kind = "trade"
    <3>1. <<m.price, side>> \in Prices \X Sides /\ m.size \in Nat
      BY <2>2, TradeCallTypes DEF Sides
    <3> HIDE DEF side
    <3> QED BY <1>2, <2>2, <3>1, AddedVolumes
  <2> QED BY <1>1, <2>1, <2>2
<1>5. \/ hist' = [hist EXCEPT !.calls = @ + 1]
      \/ hist' = [hist EXCEPT !.calls = @ + 1, !.books[i] = b, !.wire[i] = w]
  BY <1>1
<1> HIDE DEF b, w
<1>6. CASE hist' = [hist EXCEPT !.calls = @ + 1, !.books[i] = b, !.wire[i] = w]
  <2> DEFINE f == [hist.books EXCEPT ![i] = b]  g == [hist.wire EXCEPT ![i] = w]
  <2>1. f \in [Instruments -> Books] /\ g \in [Instruments -> Volumes]
    BY <1>2, <1>3, <1>4 DEF HistTypes
  <2>2. hist' = [hist EXCEPT !.calls = @ + 1, !.books = f, !.wire = g]
    BY <1>6
  <2> HIDE DEF f, g
  <2>3. HistKept(f, g, hist.repeated)
    BY <2>1, <2>2 DEF HistTypes, HistKept
  <2> QED BY <2>3, HistKeeps
<1>7. CASE hist' = [hist EXCEPT !.calls = @ + 1]
  BY <1>7 DEF HistTypes
<1> QED BY <1>5, <1>6, <1>7

(* A step that leaves the quotes alone.                                    *)
LEMMA QuietPassed ==
    ASSUME PassInv, UNCHANGED <<conf, quotes, server, out, changed, taken, main, seen, known>>,
           HistTypes', hist'.books = hist.books, hist'.covered = hist.covered,
           updated' \in [Channels -> SUBSET Instruments], PendingKnown', conf.impl # "Onix" => reader' = "none"
    PROVE  PassedNow'
<1>1. FeedTypes /\ OutSound /\ PassTypes
  BY DEF PassInv, FeedSound
<1>2. \A i \in Instruments : Waits(i)' = Waits(i)
  BY DEF Waits
<1>3. FeedSound'
  BY <1>1, <1>2 DEF FeedSound, FeedTypes, OutSound
<1>4. PassTypes'
  BY <1>1 DEF PassTypes, EntriesSound
<1>5. ASSUME NEW i \in Instruments PROVE PassedAt(i)'
  <2>1. Untouched(i) /\ PassedAt(i)
    BY <1>2 DEF Untouched, SamePassed, SameEntry, PassInv
  <2> QED BY <2>1, UntouchedPassed
<1> QED BY <1>3, <1>4, <1>5 DEF PassedNow

(* The feed's callbacks.                                                   *)
LEMMA FeedPassed ==
    ASSUME PassInv, onixCalls \/ historicalCalls \/ \E ch \in Channels : onProcessingEnd(ch)
    PROVE  PassedNow'
<1>1. FeedSound /\ HistTypes /\ PassTypes /\ FeedTypes
  BY DEF PassInv, FeedSound
<1>2. UNCHANGED <<conf, changed, taken, main, reader, seen, known>>
  BY DEF onixCalls, historicalCalls, onProcessingEnd, threadVars, clientVars
<1>3. FeedSound' /\ FeedSteps
  BY <1>1, OnixMoves, HistoricalMoves, EndMoves
<1>4. HistTypes' /\ hist'.covered = hist.covered
  <2>1. ASSUME NEW ch \in Channels, onProcessingEnd(ch) PROVE hist' = hist
    BY <2>1 DEF onProcessingEnd
  <2> QED BY <1>1, <2>1, OnixHist, HistoricalHist DEF HistTypes
<1>5. PassTypes'
  BY <1>1, <1>2 DEF PassTypes, EntriesSound
<1>6. ASSUME NEW i \in Instruments PROVE PassedAt(i)'
  <2>1. PassedAt(i) /\ SamePassed(i)
    BY <1>2, <1>4 DEF PassInv, SamePassed, SameEntry
  <2>2. CASE Rests(i)
    BY <1>2, <2>1, <2>2, UntouchedPassed DEF Rests, Untouched
  <2>3. CASE Moves(i)
    <3>1. FeedTypes'
      BY <1>3 DEF FeedSound
    <3> QED BY <1>1, <1>2, <2>1, <2>3, <3>1, MovesPassed
  <2> QED BY <1>3, <2>2, <2>3 DEF FeedSteps
<1> QED BY <1>3, <1>4, <1>5, <1>6 DEF PassedNow

LEMMA NextPassed == PassInv /\ [Next]_vars => PassInv'
<1> SUFFICES ASSUME PassInv, [Next]_vars PROVE PassInv'
  OBVIOUS
<1>1. WakeInv'
  BY NextWakes DEF PassInv
<1>2. PassedNow'
  <2>1. /\ FeedTypes /\ HistTypes /\ PendingKnown /\ PassTypes
        /\ updated \in [Channels -> SUBSET Instruments] /\ (conf.impl # "Onix" => reader = "none")
    BY DEF PassInv, FeedSound, FeedTypes, PassTypes
  <2>2. ASSUME UNCHANGED <<conf, phase, server, feedVars, changed, taken, main, seen, known>>,
               hist' = hist \/ hist' = [hist EXCEPT !.subs = @ + 1],
               conf.impl # "Onix" => reader' = "none"
        PROVE  PassedNow'
    <3>1. HistTypes' /\ hist'.books = hist.books /\ hist'.covered = hist.covered
      BY <2>1, <2>2 DEF HistTypes
    <3>2. PendingKnown'
      BY <2>1, <2>2 DEF PendingKnown, Pending, feedVars
    <3>3. updated' \in [Channels -> SUBSET Instruments]
      BY <2>1, <2>2 DEF feedVars
    <3> QED BY <2>2, <3>1, <3>2, <3>3, QuietPassed DEF feedVars
  <2>3. CASE UNCHANGED vars
    BY <2>1, <2>2, <2>3 DEF vars, threadVars, clientVars
  <2>4. ASSUME NEW i \in Instruments, NEW c \in Clients,
               subscribe(i, c) \/ subscribeFront(i, c) \/ unsubscribe(i, c)
        PROVE  PassedNow'
    BY <2>1, <2>2, <2>4 DEF subscribe, subscribeFront, unsubscribe, CanSubscribe, threadVars, clientVars
  <2>5. CASE start
    <3>1. /\ phase = "idle" /\ UNCHANGED <<conf, server, feedVars, changed, taken, main, seen, known, hist>>
          /\ conf.impl # "Onix" => reader' = "none"
      BY <2>1, <2>5 DEF start, implStart, clientVars
    <3>2. PendingKnown'
      BY <2>1, <3>1 DEF PendingKnown, Pending, feedVars
    <3>3. HistTypes' /\ updated' \in [Channels -> SUBSET Instruments]
      BY <2>1, <3>1 DEF HistTypes, feedVars
    <3> QED BY <3>1, <3>2, <3>3, QuietPassed DEF feedVars
  <2>6. CASE stop
    <3>1. /\ phase' = "stopped" /\ updated' = [ch \in Channels |-> {}]
          /\ UNCHANGED <<conf, server, quotes, out, changed, taken, main, reader, seen, known, hist>>
      BY <2>6 DEF stop, threadVars, clientVars
    <3>2. PendingKnown'
      BY <3>1 DEF PendingKnown
    <3>3. HistTypes' /\ updated' \in [Channels -> SUBSET Instruments]
      BY <2>1, <3>1 DEF HistTypes
    <3> QED BY <2>1, <3>1, <3>2, <3>3, QuietPassed
  <2>7. ASSUME NEW ch \in Channels, push(ch) PROVE PassedNow'
    BY <2>1, <2>2, <2>7 DEF push, clientVars
  <2>8. CASE readToken \/ clearPipe
    BY <2>1, <2>2, <2>8 DEF readToken, clearPipe, clientVars
  <2>9. CASE publisherSteps
    BY <2>1, <2>2, <2>9 DEF publisherSteps, threadVars
  <2> QED BY <2>3, <2>4, <2>5, <2>6, <2>7, <2>8, <2>9, FeedPassed, DirectPassed, ThreadedPassed, TakePassed, CopyPassed
          DEF Next
<1> QED BY <1>1, <1>2 DEF PassInv, PassedNow

LEMMA NewQuoteIs ==
    ASSUME NEW i \in Instruments
    PROVE  /\ NewQuote(i) \in Quote /\ NewQuote(i).id = i /\ ~isChanged(NewQuote(i))
           /\ View(NewQuote(i)) = Unknown /\ Unknown \in Views
<1>1. Inv \in Int
  BY DEF Inv
<1>2. NoTrade \in Trade
  BY DEF NoTrade, Trade, Conditions, Ticks, Sides
<1>3. [c \in Cells |-> [price |-> Inv, size |-> 0]] \in [Cells -> Level]
  BY <1>1 DEF Level
<1>4. [f \in OHL |-> Inv] \in [OHL -> Int]
  BY <1>1
<1>5. "Success" \in Statuses /\ {} \in SUBSET Bits /\ tradeBits \notin {}
  BY DEF Statuses
<1>6. NewQuote(i) \in Quote
  BY <1>2, <1>3, <1>4, <1>5 DEF NewQuote, Quote, isTrade
<1> QED BY <1>3, <1>4, <1>6 DEF NewQuote, isChanged, View, Unknown, Views

LEMMA InitPassed == Init => PassInv
<1> SUFFICES ASSUME Init PROVE PassInv
  OBVIOUS
<1>1. DOMAIN Nothing = {} /\ Nothing \in Books
  BY DEF Nothing, Books
<1>2. \A i \in Instruments : /\ quotes[i] = NewQuote(i) /\ seen[i] = NewQuote(i) /\ known[i] = Unknown
                             /\ out[ChannelOf[i]] = <<>> /\ hist.books[i] = Nothing /\ main[i].gaps = 0
  BY FeedAssumption DEF Init
<1>3. HistTypes
  <2>1. [p \in Prices \X Sides |-> 0] \in Volumes
    BY DEF Volumes
  <2> QED BY <1>1, <2>1 DEF Init, HistTypes
<1>4. FeedTypes
  <2>1. [i \in Instruments |-> NewQuote(i)] \in Store
    BY NewQuoteIs DEF Store
  <2> QED BY <2>1 DEF Init, FeedTypes
<1>5. PassTypes
  <2>1. [i \in Instruments |-> NewQuote(i)] \in Store /\ [i \in Instruments |-> Unknown] \in [Instruments -> Views]
    BY NewQuoteIs DEF Store
  <2>2. main \in [Instruments -> [quote : Quote, seq : Nat, gaps : Int]]
    BY NewQuoteIs DEF Init
  <2> QED BY <1>1, <2>1, <2>2 DEF Init, PassTypes, EntriesSound
<1>6. ASSUME NEW i \in Instruments
      PROVE  /\ Waits(i) = {} /\ ~isChanged(Pending(i)) /\ View(Pending(i)) = View(quotes[i])
             /\ View(quotes[i]) = Unknown
  <2>1. Waits(i) = {}
    BY <1>2, WaitsOfOne DEF Waits
  <2> QED BY <1>2, <1>4, <2>1, PendingQuote, NewQuoteIs DEF isChanged
<1>7. FeedSound
  <2>1. OutSound
    <3>1. ASSUME NEW ch \in Channels
          PROVE  IdsOnce(out[ch]) /\ \A k \in DOMAIN out[ch] : ChannelOf[out[ch][k].id] = ch
      <4>1. out[ch] = <<>>
        BY DEF Init
      <4> QED BY <4>1 DEF IdsOnce
    <3> QED BY <1>6, <3>1 DEF OutSound
  <2>2. PendingKnown
    BY <1>6 DEF Init, PendingKnown
  <2> QED BY <1>4, <2>1, <2>2 DEF FeedSound
<1>8. ASSUME NEW i \in Instruments PROVE PassedAt(i)
  <2>1. BookAt(i)
    BY <1>1, <1>2 DEF BookAt, BookMatches
  <2>2. DOMAIN changed = {} /\ DOMAIN taken = {}
    BY <1>1 DEF Init
  <2>3. ShownAt(i)
    BY <1>2, <2>2 DEF ShownAt, Shown0, Shown1, Shown2
  <2>4. NumbersAt(i)
    BY <1>2, <2>2 DEF NumbersAt
  <2>5. FollowAt(i)
    <3>1. Quote2(i) = seen[i]
      BY <2>2 DEF Quote1, Quote2
    <3>2. View(seen[i]) = View(Pending(i))
      BY <1>2, <1>6
    <3>3. Follows(Quote2(i), Pending(i))
      BY <3>1, <3>2, FollowsView
    <3> QED BY <1>2, <1>6, <2>2, <3>3 DEF FollowAt
  <2> QED BY <2>1, <2>3, <2>4, <2>5 DEF PassedAt
<1> QED BY <1>3, <1>5, <1>7, <1>8, InitWake DEF PassInv

LEMMA PassInvariant == Spec => []PassInv
<1> QED BY InitPassed, NextPassed, PTL DEF Spec

(* What clients see: BookShown holds in every state, whatever the feed     *)
(* sends, whichever implementation it is of and wherever a status covers a *)
(* quote with changes.                                                     *)
THEOREM MarketShown == Spec => []BookShown
<1>1. ASSUME PassInv PROVE BookShown
  <2>1. ASSUME NEW i \in Instruments, Settled(i), i \notin hist.covered PROVE seen[i].book = quotes[i].book
    <3>1. Waits(i) = {}
      <4>1. \A k \in DOMAIN out[ChannelOf[i]] : out[ChannelOf[i]][k].id # i
        BY <2>1 DEF Settled, Passed
      <4> QED BY <4>1 DEF Waits, WaitsIn, ToSet
    <3>2. i \notin DOMAIN changed /\ i \notin DOMAIN taken
      BY <2>1 DEF Settled, Passed
    <3>3. ~isChanged(Pending(i))
      BY <1>1, <2>1 DEF Settled, PassInv, FeedSound, PendingKnown
    <3>4. Shown2(i, quotes[i].book)
      BY <1>1, <3>1, <3>3 DEF PassInv, PassedAt, ShownAt
    <3> QED BY <2>1, <3>2, <3>4 DEF Shown0, Shown1, Shown2
  <2>2. ASSUME NEW i \in Instruments PROVE BookMatches(quotes[i].book, hist.books[i])
    BY <1>1 DEF PassInv, PassedAt, BookAt
  <2>3. ASSUME NEW i \in Instruments, main[i].gaps = 0, conf.impl # "AMR"
        PROVE  known[i] = [book |-> seen[i].book, ohl |-> seen[i].ohl]
    BY <1>1, <2>3 DEF PassInv, PassedAt, FollowAt, View
  <2>4. ASSUME NEW i \in Instruments, Settled(i) /\ i \notin hist.covered
        PROVE  BookMatches(seen[i].book, hist.books[i])
    BY <2>1, <2>2, <2>4
  <2> QED BY <2>3, <2>4 DEF BookShown, BookMatches, View
<1> QED BY <1>1, PassInvariant, PTL

-----------------------------------------------------------------------------
(***************************************************************************)
(* The publisher                                                           *)
(***************************************************************************)

Publishers ==
    [mode : {"off", "Realtime", "Record"}, subs : [Connections -> SUBSET Instruments],
     sent : [Connections -> SUBSET Quote], queue : Seq(Quote), file : Seq(Quote),
     open : BOOLEAN, done : BOOLEAN]

SameTop(q, r) == \A s \in {"bid", "ask"} : q.book[<<1, s>>] = r.book[<<1, s>>]

(* A change of the top that the clients have not been told of is kept in   *)
(* the quote or about to be passed on; only the feed's own thread lets a   *)
(* connection that subscribes see it before them.                          *)
LevelWaits(i) ==
    \/ conf.impl = "AMR" /\ Waits(i) # {}
    \/ reader = "none" /\ \E x \in Waits(i) : isLevelUpdate0(x)
    \/ reader = "none" /\ conf.impl = "Onix" /\ isLevelUpdate0(quotes[i])

(* What a connection was sent last is what the clients were shown.         *)
Watched(i) ==
    PublisherClient \in ToSet(subs[i]) /\ i \notin hist.refused /\ main[i].gaps = 0
SentAt(i) ==
    \A c \in Connections : \A q \in pub.sent[c] :
        q.id = i /\ i \in pub.subs[c] /\ Watched(i) => SameTop(q, seen[i]) \/ LevelWaits(i)

(* Nothing is sent before the start, or by a publisher that records.  The  *)
(* main store, from which a connection that subscribes is served, has the  *)
(* quote the clients have.                                                 *)
ServesSent ==
    /\ phase = "idle" => \A ch \in Channels : out[ch] = <<>>
    /\ phase = "idle" \/ pub.mode # "Realtime" => \A c \in Connections : pub.sent[c] = {}
    /\ pub.mode # "Realtime" => \A c \in Connections : pub.subs[c] = {}
StoreAt(i) ==
    /\ main[i].quote.id = i
    /\ (reader # "none" \/ phase = "idle") /\ main[i].gaps = 0 => View(main[i].quote) = View(seen[i])
    /\ reader = "none" => i \notin hist.covered
    /\ conf.impl = "AMR" => \A x \in Waits(i) : Publishable(x)

SentSound ==
    /\ pub \in Publishers /\ ServesSent
    /\ \A i \in Instruments : StoreAt(i) /\ SentAt(i)

SentInv == PassInv /\ SentSound

LEMMA TopCells == \A s \in {"bid", "ask"} : <<1, s>> \in Cells
BY QuoteAssumption DEF Cells

(* A quote that follows another and does not flag the top has its top.     *)
LEMMA TopFollows ==
    ASSUME NEW a \in Quote, NEW b \in Quote, Follows(a, b), ~isLevelUpdate0(b)
    PROVE  SameTop(a, b)
<1> SUFFICES ASSUME NEW s \in {"bid", "ask"} PROVE a.book[<<1, s>>] = b.book[<<1, s>>]
  BY DEF SameTop
<1>1. <<1, s>> \in Cells
  BY TopCells
<1>2. <<"price", <<1, s>>>> \notin b.flags /\ <<"size", <<1, s>>>> \notin b.flags
  BY DEF isLevelUpdate0
<1>3. /\ a.book[<<1, s>>].price = b.book[<<1, s>>].price
      /\ a.book[<<1, s>>].size = b.book[<<1, s>>].size
  BY <1>1, <1>2 DEF Follows
<1>4. a.book[<<1, s>>] \in Level /\ b.book[<<1, s>>] \in Level
  BY <1>1, QuoteFields
<1> QED BY <1>3, <1>4 DEF Level

LEMMA TopViews ==
    ASSUME NEW a, NEW b, View(a) = View(b)
    PROVE  SameTop(a, b) /\ \A q : SameTop(q, a) <=> SameTop(q, b)
BY DEF View, SameTop

(* The quote in the feed's store, where connections are served from it.    *)
LEMMA StoreTop ==
    ASSUME SentInv, NEW i \in Instruments, reader = "none", main[i].gaps = 0
    PROVE  SameTop(quotes[i], seen[i]) \/ LevelWaits(i)
<1>1. /\ FeedTypes /\ OutSound /\ PassTypes /\ PassedAt(i) /\ WakeInv /\ StoreAt(i)
      /\ quotes[i] \in Quote /\ seen[i] \in Quote
  BY StoreQuotes DEF SentInv, SentSound, PassInv, FeedSound, FeedTypes, PassTypes
<1>2. DOMAIN changed = {} /\ DOMAIN taken = {}
  BY <1>1 DEF WakeInv, ReaderSound
<1>3. /\ Pending(i) \in Quote /\ View(Pending(i)) = View(quotes[i])
      /\ conf.impl = "Onix" => Pending(i) = quotes[i]
      /\ conf.impl # "Onix" => Pending(i).flags = {}
  BY <1>1, PendingQuote
<1>4. CASE conf.impl = "AMR"
  <2> SUFFICES ASSUME Waits(i) = {} PROVE SameTop(quotes[i], seen[i])
    BY <1>4 DEF LevelWaits
  <2>1. Shown2(i, quotes[i].book)
    BY <1>1, <1>3, <1>4 DEF PassedAt, ShownAt, isChanged
  <2>2. seen[i].book = quotes[i].book
    BY <1>1, <1>2, <2>1 DEF Shown0, Shown1, Shown2, StoreAt
  <2> QED BY <2>2 DEF SameTop
<1>5. CASE conf.impl # "AMR" /\ Waits(i) = {}
  <2>1. Follows(seen[i], Pending(i))
    BY <1>1, <1>2, <1>5 DEF PassedAt, FollowAt, Unbroken1, Unbroken2, Quote1, Quote2
  <2>2. isLevelUpdate0(Pending(i)) => conf.impl = "Onix" /\ isLevelUpdate0(quotes[i])
    BY <1>3 DEF isLevelUpdate0
  <2>3. ~isLevelUpdate0(Pending(i)) => SameTop(seen[i], Pending(i))
    BY <1>1, <1>3, <2>1, TopFollows
  <2> QED BY <1>3, <2>2, <2>3 DEF LevelWaits, SameTop, View
<1>6. CASE conf.impl # "AMR" /\ Waits(i) # {}
  <2>1. PICK x : x \in Waits(i)
    BY <1>6
  <2>2. x \in Quote
    <3>1. out[ChannelOf[i]] \in Seq(Quote)
      BY <1>1, FeedAssumption DEF FeedTypes
    <3> QED BY <2>1, <3>1 DEF Waits, WaitsIn, ToSet
  <2>3. Follows(seen[i], x) /\ View(x) = View(quotes[i])
    BY <1>1, <1>2, <1>6, <2>1 DEF PassedAt, FollowAt, Unbroken1, Unbroken2, Quote1, Quote2, OutSound
  <2>4. isLevelUpdate0(x) => LevelWaits(i)
    BY <2>1 DEF LevelWaits
  <2>5. ~isLevelUpdate0(x) => SameTop(seen[i], x)
    BY <1>1, <2>2, <2>3, TopFollows
  <2> QED BY <2>3, <2>4, <2>5 DEF SameTop, View
<1> QED BY <1>4, <1>5, <1>6

(* A message is sent to some connections.                                  *)
LEMMA SendSends ==
    ASSUME NEW p \in Publishers, NEW cs \in SUBSET Connections, NEW q \in Quote
    PROVE  LET r == Send(p, cs, q)
           IN  /\ r \in Publishers /\ r.mode = p.mode /\ r.subs = p.subs
               /\ \A c \in Connections : \A x :
                     x \in r.sent[c] <=> IF c \in cs THEN x = q \/ (x \in p.sent[c] /\ x.id # q.id) ELSE x \in p.sent[c]
<1> DEFINE s == [c \in Connections |-> IF c \in cs THEN {x \in p.sent[c] : x.id # q.id} \cup {q} ELSE p.sent[c]]
           r == Send(p, cs, q)
<1>1. r = [p EXCEPT !.sent = s]
  BY DEF Send, Publishers
<1>2. s \in [Connections -> SUBSET Quote]
  BY DEF Publishers
<1>3. \A c \in Connections : \A x :
         x \in s[c] <=> IF c \in cs THEN x = q \/ (x \in p.sent[c] /\ x.id # q.id) ELSE x \in p.sent[c]
  OBVIOUS
<1> HIDE DEF s, r
<1>4. r \in Publishers /\ r.mode = p.mode /\ r.subs = p.subs /\ r.sent = s
  BY <1>1, <1>2 DEF Publishers
<1> QED BY <1>3, <1>4 DEF r

(* What telling the clients of x sends.                                    *)
LEMMA NotifySends ==
    ASSUME HistTypes, pub \in Publishers, ServesSent, NEW x \in Quote, notifySubscribers(x)
    PROVE  /\ pub' \in Publishers /\ pub'.mode = pub.mode /\ pub'.subs = pub.subs
           /\ pub.mode # "Realtime" => \A c \in Connections : pub'.sent[c] = {}
           /\ \A c \in Connections : \A q \in pub'.sent[c] : q.id # x.id => q \in pub.sent[c]
           /\ \A i \in Instruments \ {x.id} : i \in hist'.refused <=> i \in hist.refused
           /\ PublisherClient \in ToSet(subs[x.id]) /\ x.id \notin hist'.refused =>
                 \A c \in Connections : \A q \in pub'.sent[c] :
                    q.id = x.id /\ x.id \in pub.subs[c] =>
                       \/ q = x
                       \/ q \in pub.sent[c] /\ x.id \notin hist.refused /\ ~Publishable(x) /\ ~isLevelUpdate0(x)
<1> DEFINE i == x.id
           cs == {c \in Connections : i \in pub.subs[c]}
           refused == IF Publishable(x) THEN hist.refused \ {i}
                      ELSE IF isLevelUpdate0(x) THEN hist.refused \cup {i} ELSE hist.refused
<1>1. hist'.refused = refused
  BY DEF notifySubscribers, HistTypes
<1>2. \A j \in Instruments \ {i} : j \in hist'.refused <=> j \in hist.refused
  BY <1>1
<1>3. pub' = IF PublisherClient \in ToSet(subs[i]) THEN onQuote(pub, x) ELSE pub
  BY DEF notifySubscribers
<1>4. CASE PublisherClient \notin ToSet(subs[i])
  BY <1>2, <1>3, <1>4 DEF ServesSent
<1>5. CASE PublisherClient \in ToSet(subs[i]) /\ ~Publishable(x)
  <2>1. pub' = pub
    BY <1>3, <1>5 DEF onQuote
  <2>2. i \notin hist'.refused => ~isLevelUpdate0(x) /\ i \notin hist.refused
    BY <1>1, <1>5
  <2> QED BY <1>2, <1>5, <2>1, <2>2 DEF ServesSent
<1>6. CASE PublisherClient \in ToSet(subs[i]) /\ Publishable(x) /\ pub.mode = "Record"
  <2>1. pub' = [pub EXCEPT !.queue = Append(@, x)]
    BY <1>3, <1>6 DEF onQuote
  <2>2. pub' \in Publishers /\ pub'.mode = pub.mode /\ pub'.subs = pub.subs /\ pub'.sent = pub.sent
    <3>1. Append(pub.queue, x) \in Seq(Quote)
      BY DEF Publishers
    <3>2. PICK z \in Seq(Quote) : pub' = [pub EXCEPT !.queue = z]
      BY <2>1, <3>1
    <3> QED BY <3>2 DEF Publishers
  <2>3. \A c \in Connections : pub'.sent[c] = {}
    BY <1>6, <2>2 DEF ServesSent
  <2> QED BY <1>2, <2>2, <2>3
<1>7. CASE PublisherClient \in ToSet(subs[i]) /\ Publishable(x) /\ pub.mode # "Record"
  <2>1. pub' = Send(pub, cs, x)
    BY <1>3, <1>7 DEF onQuote
  <2>2. cs \in SUBSET Connections /\ \A c \in Connections : c \in cs <=> i \in pub.subs[c]
    OBVIOUS
  <2> HIDE DEF cs
  <2>3. /\ pub' \in Publishers /\ pub'.mode = pub.mode /\ pub'.subs = pub.subs
        /\ \A c \in Connections : \A q :
              q \in pub'.sent[c] <=> IF c \in cs THEN q = x \/ (q \in pub.sent[c] /\ q.id # i) ELSE q \in pub.sent[c]
    BY <2>1, <2>2, SendSends
  <2>4. pub.mode # "Realtime" => \A c \in Connections : pub'.sent[c] = {}
    BY <2>2, <2>3 DEF ServesSent
  <2>5. ASSUME NEW c \in Connections, NEW q \in pub'.sent[c]
        PROVE  /\ q.id # i => q \in pub.sent[c]
               /\ q.id = i /\ i \in pub.subs[c] => q = x
    BY <2>2, <2>3, <2>5
  <2> QED BY <1>2, <2>3, <2>4, <2>5
<1> QED BY <1>4, <1>5, <1>6, <1>7

(* A step that shows nobody anything and lets no change of the top pass.   *)
LEMMA QuietSent ==
    ASSUME NEW i \in Instruments, SentAt(i), UNCHANGED pub, seen'[i] = seen[i],
           Watched(i)' => Watched(i), Watched(i)' /\ LevelWaits(i) => LevelWaits(i)'
    PROVE  SentAt(i)'
<1> SUFFICES ASSUME NEW c \in Connections, NEW q \in pub.sent[c], q.id = i, i \in pub.subs[c], Watched(i)'
             PROVE  SameTop(q, seen'[i]) \/ LevelWaits(i)'
  BY DEF SentAt, SameTop
<1>1. SameTop(q, seen[i]) \/ LevelWaits(i)
  BY DEF SentAt
<1> QED BY <1>1

(* The feed's callbacks: a change of the top stays flagged.                *)
LEMMA FeedSent ==
    ASSUME SentInv, onixCalls \/ historicalCalls \/ \E ch \in Channels : onProcessingEnd(ch)
    PROVE  SentSound'
<1>1. FeedSound /\ HistTypes /\ FeedTypes /\ pub \in Publishers /\ ServesSent /\ PassTypes
  BY DEF SentInv, SentSound, PassInv, FeedSound
<1>2. UNCHANGED <<conf, main, reader, seen, pub, subs, phase>>
  BY DEF onixCalls, historicalCalls, onProcessingEnd, threadVars, clientVars, subVars
<1>3. FeedSound' /\ FeedSteps
  BY <1>1, OnixMoves, HistoricalMoves, EndMoves
<1>4. hist'.covered = hist.covered /\ hist'.refused = hist.refused
  <2>1. ASSUME NEW ch \in Channels, onProcessingEnd(ch) PROVE hist' = hist
    BY <2>1 DEF onProcessingEnd
  <2> QED BY <1>1, <2>1, OnixHist, HistoricalHist
<1>5. phase = "active"
  BY DEF onixCalls, historicalCalls, onProcessingEnd, Free
<1>6. ServesSent'
  BY <1>1, <1>2, <1>5 DEF ServesSent
<1>7. ASSUME NEW i \in Instruments PROVE StoreAt(i)' /\ SentAt(i)'
  <2>1. StoreAt(i) /\ SentAt(i)
    BY DEF SentInv, SentSound
  <2>2. Watched(i)' <=> Watched(i)
    BY <1>2, <1>4 DEF Watched
  <2>3. CASE Rests(i)
    <3>1. StoreAt(i)'
      BY <1>2, <1>4, <2>1, <2>3 DEF StoreAt, Rests
    <3>2. LevelWaits(i)' <=> LevelWaits(i)
      BY <1>2, <2>3 DEF LevelWaits, Rests
    <3> QED BY <1>2, <2>1, <2>2, <3>1, <3>2, QuietSent
  <2>4. CASE Moves(i)
    <3>1. PICK u \in Quote :
            /\ conf.impl # "AMR" => Grows(Pending(i), u)
            /\ \/ Waits(i)' = {} /\ Pending(i)'.flags = u.flags /\ conf.impl # "AMR"
               \/ \E x \in Quote : /\ Waits(i)' = {x} /\ x.flags = u.flags
                                   /\ conf.impl = "AMR" => Publishable(x)
      BY <2>4 DEF Moves
    <3>2. Waits(i) = {}
      BY <2>4 DEF Moves
    <3>3. StoreAt(i)'
      BY <1>2, <1>4, <2>1, <3>1 DEF StoreAt
    <3>4. ASSUME LevelWaits(i) PROVE LevelWaits(i)'
      <4>1. reader = "none" /\ conf.impl = "Onix" /\ isLevelUpdate0(quotes[i])
        BY <3>2, <3>4 DEF LevelWaits
      <4>2. isLevelUpdate0(u)
        BY <3>1, <4>1 DEF Grows, Pending, isLevelUpdate0
      <4>3. CASE Waits(i)' = {} /\ Pending(i)'.flags = u.flags
        BY <1>2, <4>1, <4>2, <4>3 DEF LevelWaits, Pending, isLevelUpdate0
      <4>4. ASSUME NEW x \in Quote, Waits(i)' = {x}, x.flags = u.flags PROVE LevelWaits(i)'
        BY <1>2, <4>1, <4>2, <4>4 DEF LevelWaits, isLevelUpdate0
      <4> QED BY <3>1, <4>3, <4>4
    <3> QED BY <1>2, <2>1, <2>2, <3>3, <3>4, QuietSent
  <2> QED BY <1>3, <2>3, <2>4 DEF FeedSteps
<1> QED BY <1>1, <1>2, <1>6, <1>7 DEF SentSound

(* onQuote in the feed's thread.                                           *)
LEMMA DirectSent ==
    ASSUME SentInv, NEW ch \in Channels, onQuoteDirect(ch)
    PROVE  SentSound'
<1>1. /\ FeedTypes /\ OutSound /\ HistTypes /\ PassTypes /\ WakeInv /\ pub \in Publishers /\ ServesSent
      /\ out[ch] # <<>> /\ reader = "none" /\ notifySubscribers(Head(out[ch]))
      /\ out' = [out EXCEPT ![ch] = Tail(@)]
      /\ UNCHANGED <<conf, phase, quotes, main, reader, subs, changed, taken>>
  BY DEF SentInv, SentSound, PassInv, FeedSound, onQuoteDirect, threadVars, subVars
<1>2. PICK x, i : x = Head(out[ch]) /\ i = x.id
  OBVIOUS
<1>3. /\ x \in Quote /\ i \in Instruments /\ View(x) = View(quotes[i])
      /\ Waits(i) = {x} /\ Waits(i)' = {}
      /\ \A j \in Instruments \ {i} : Waits(j)' = Waits(j)
  BY <1>1, <1>2, HeadGone DEF Waits
<1>4. /\ hist'.covered = hist.covered \ {i} /\ seen'[i] = x
      /\ \A j \in Instruments \ {i} : seen'[j] = seen[j]
  BY <1>1, <1>2, <1>3, NotifyTells
<1>5. /\ pub' \in Publishers /\ pub'.mode = pub.mode /\ pub'.subs = pub.subs
      /\ pub.mode # "Realtime" => \A c \in Connections : pub'.sent[c] = {}
      /\ \A c \in Connections : \A q \in pub'.sent[c] : q.id # i => q \in pub.sent[c]
      /\ \A j \in Instruments \ {i} : j \in hist'.refused <=> j \in hist.refused
      /\ PublisherClient \in ToSet(subs[i]) /\ i \notin hist'.refused =>
            \A c \in Connections : \A q \in pub'.sent[c] :
               q.id = i /\ i \in pub.subs[c] =>
                  \/ q = x
                  \/ q \in pub.sent[c] /\ i \notin hist.refused /\ ~Publishable(x) /\ ~isLevelUpdate0(x)
  BY <1>1, <1>2, <1>3, NotifySends
<1>6. phase # "idle"
  BY <1>1 DEF ServesSent
<1>7. ServesSent'
  BY <1>1, <1>5, <1>6 DEF ServesSent
<1>8. ASSUME NEW j \in Instruments PROVE StoreAt(j)'
  <2>1. StoreAt(j)
    BY DEF SentInv, SentSound
  <2> QED BY <1>1, <1>3, <1>4, <1>6, <2>1 DEF StoreAt
<1>9. ASSUME NEW j \in Instruments, j # i PROVE SentAt(j)'
  <2> SUFFICES ASSUME NEW c \in Connections, NEW q \in pub'.sent[c], q.id = j, j \in pub.subs[c], Watched(j)'
               PROVE  SameTop(q, seen'[j]) \/ LevelWaits(j)'
    BY <1>5 DEF SentAt, SameTop
  <2>1. q \in pub.sent[c] /\ Watched(j)
    BY <1>1, <1>5, <1>9 DEF Watched
  <2>2. SameTop(q, seen[j]) \/ LevelWaits(j)
    BY <2>1 DEF SentInv, SentSound, SentAt
  <2>3. seen'[j] = seen[j] /\ (LevelWaits(j)' <=> LevelWaits(j))
    BY <1>1, <1>3, <1>4, <1>9 DEF LevelWaits
  <2> QED BY <2>2, <2>3
<1>10. SentAt(i)'
  <2> SUFFICES ASSUME NEW c \in Connections, NEW q \in pub'.sent[c], q.id = i, i \in pub.subs[c], Watched(i)'
               PROVE  SameTop(q, seen'[i]) \/ LevelWaits(i)'
    BY <1>5 DEF SentAt, SameTop
  <2>1. main[i].gaps = 0 /\ PublisherClient \in ToSet(subs[i]) /\ i \notin hist'.refused
    BY <1>1 DEF Watched
  <2>2. CASE q = x
    BY <1>4, <2>2 DEF SameTop
  <2>3. CASE q \in pub.sent[c] /\ i \notin hist.refused /\ ~Publishable(x) /\ ~isLevelUpdate0(x)
    <3>1. SameTop(q, seen[i]) \/ LevelWaits(i)
      BY <1>3, <2>1, <2>3 DEF SentInv, SentSound, SentAt, Watched
    <3>2. conf.impl # "AMR"
      BY <1>3, <2>3 DEF SentInv, SentSound, StoreAt
    <3>3. SameTop(seen[i], x)
      <4>1. DOMAIN changed = {} /\ DOMAIN taken = {}
        BY <1>1 DEF WakeInv, ReaderSound
      <4>2. Follows(seen[i], x)
        BY <1>3, <2>1, <3>2, <4>1
        DEF SentInv, PassInv, PassedAt, FollowAt, Unbroken1, Unbroken2, Quote1, Quote2
      <4>3. seen[i] \in Quote
        BY <1>1, <1>3, StoreQuotes DEF PassTypes
      <4> QED BY <1>3, <2>3, <4>2, <4>3, TopFollows
    <3>4. LevelWaits(i) => LevelWaits(i)'
      BY <1>1, <1>3, <2>3, <3>2 DEF LevelWaits
    <3> QED BY <1>4, <3>1, <3>3, <3>4 DEF SameTop
  <2> QED BY <1>5, <2>1, <2>2, <2>3
<1> QED BY <1>5, <1>7, <1>8, <1>9, <1>10 DEF SentSound

(* A step that shows nobody anything, out of sight of who subscribes.      *)
LEMMA RestSent ==
    ASSUME SentInv, UNCHANGED <<conf, pub, main, seen, subs>>,
           hist'.refused = hist.refused, hist'.covered = hist.covered,
           phase' = "idle" <=> phase = "idle", reader' = "none" <=> reader = "none",
           phase = "idle" => UNCHANGED out, reader = "none" => UNCHANGED <<quotes, out>>
    PROVE  SentSound'
<1>1. /\ pub \in Publishers /\ ServesSent /\ (conf.impl # "Onix" => reader = "none")
      /\ \A i \in Instruments : StoreAt(i) /\ SentAt(i)
  BY DEF SentInv, SentSound, PassInv, PassTypes
<1>2. ServesSent'
  BY <1>1 DEF ServesSent
<1>3. ASSUME NEW i \in Instruments PROVE StoreAt(i)' /\ SentAt(i)'
  <2>1. reader = "none" => Waits(i)' = Waits(i)
    BY DEF Waits
  <2>2. StoreAt(i)'
    BY <1>1, <2>1 DEF StoreAt
  <2>3. LevelWaits(i) => LevelWaits(i)'
    BY <1>1, <2>1 DEF LevelWaits
  <2>4. Watched(i)' <=> Watched(i)
    BY DEF Watched
  <2> QED BY <1>1, <2>2, <2>3, <2>4, QuietSent
<1> QED BY <1>1, <1>2, <1>3 DEF SentSound

(* Who subscribes to the channel, and its start, before anything is sent.  *)
LEMMA IdleSent ==
    ASSUME SentInv, phase = "idle", UNCHANGED <<conf, pub, main, seen, out>>,
           hist'.covered = hist.covered
    PROVE  SentSound'
<1>1. /\ pub \in Publishers /\ ServesSent
      /\ \A c \in Connections : pub.sent[c] = {}
  BY DEF SentInv, SentSound, ServesSent
<1>2. ServesSent'
  BY <1>1 DEF ServesSent
<1>3. ASSUME NEW i \in Instruments PROVE StoreAt(i)' /\ SentAt(i)'
  <2>1. Waits(i)' = Waits(i) /\ reader = "none"
    BY DEF Waits, SentInv, PassInv, WakeInv, ReaderSound
  <2>2. StoreAt(i)'
    BY <2>1 DEF StoreAt, SentInv, SentSound
  <2> QED BY <1>1, <2>2 DEF SentAt
<1> QED BY <1>1, <1>2, <1>3 DEF SentSound

(* onQuote when multithreaded: nobody is shown anything yet.               *)
LEMMA ThreadedSent ==
    ASSUME SentInv, NEW ch \in Channels, onQuoteThreaded(ch)
    PROVE  SentSound'
<1>1. /\ FeedTypes /\ out[ch] # <<>> /\ reader # "none" /\ ServesSent
      /\ UNCHANGED <<conf, phase, reader, main, seen, pub, subs, hist>>
  BY DEF SentInv, SentSound, PassInv, FeedSound, onQuoteThreaded, clientVars, subVars
<1>2. phase # "idle"
  BY <1>1 DEF ServesSent
<1> QED BY <1>1, <1>2, RestSent

(* The thread copies a quote to the main store, and tells the clients.     *)
LEMMA CopySent ==
    ASSUME SentInv, NEW i \in Instruments, copyQuote(i)
    PROVE  SentSound'
<1> DEFINE e == taken[i]  x == e.quote
<1>1. /\ HistTypes /\ PassTypes /\ pub \in Publishers /\ ServesSent /\ reader = "copying" /\ reader' # "none"
      /\ i \in DOMAIN taken /\ PassedAt(i)
      /\ main' = [main EXCEPT ![i] = [quote |-> x, seq |-> e.seq, gaps |-> @.gaps + e.seq - @.seq - 1]]
      /\ UNCHANGED <<conf, phase, subs, out>>
  BY DEF SentInv, SentSound, PassInv, copyQuote, Again, subVars, feedVars
<1>2. x \in Quote /\ x.id = i /\ e.seq \in Nat /\ conf.impl = "Onix" /\ seen[i] \in Quote
  BY <1>1, StoreQuotes DEF PassTypes, EntriesSound
<1>3. /\ main'[i].quote = x /\ main'[i].gaps = main[i].gaps + e.seq - main[i].seq - 1
      /\ \A j \in Instruments \ {i} : main'[j] = main[j]
      /\ main[i].seq \in Nat /\ main[i].gaps \in Int
  BY <1>1, <1>2 DEF PassTypes
<1> HIDE DEF x, e
<1>4. main'[i].gaps = 0 => main[i].gaps = 0 /\ Follows(seen[i], x)
  <2>1. main[i].gaps >= 0 /\ main[i].seq < e.seq
    BY <1>1 DEF PassedAt, NumbersAt, e
  <2>2. main'[i].gaps = 0 => main[i].gaps = 0 /\ e.seq = main[i].seq + 1
    BY <1>2, <1>3, <2>1
  <2> QED BY <1>1, <1>2, <2>2 DEF PassedAt, FollowAt, Unbroken1, e, x
<1>5. \A j \in Instruments : StoreAt(j) /\ SentAt(j) /\ ~LevelWaits(j)
  BY <1>1, <1>2 DEF SentInv, SentSound, LevelWaits
<1>6. CASE ~isChanged(x)
  <2>1. /\ UNCHANGED <<seen, known, pub>>
        /\ hist'.refused = hist.refused
    BY <1>1, <1>6 DEF copyQuote, x, e, clientVars, HistTypes
  <2>2. ServesSent'
    BY <1>1, <2>1 DEF ServesSent
  <2>3. main'[i].gaps = 0 => View(seen[i]) = View(x)
    BY <1>2, <1>4, <1>6, FollowsBare DEF isChanged
  <2>4. ASSUME NEW j \in Instruments PROVE StoreAt(j)' /\ SentAt(j)'
    <3>1. StoreAt(j)'
      BY <1>1, <1>2, <1>3, <1>5, <2>1, <2>3 DEF StoreAt
    <3>2. Watched(j)' => Watched(j)
      BY <1>1, <1>3, <1>4, <2>1 DEF Watched
    <3> QED BY <1>5, <2>1, <3>1, <3>2, QuietSent
  <2> QED BY <1>1, <2>1, <2>2, <2>4 DEF SentSound
<1>7. CASE isChanged(x)
  <2>1. notifySubscribers(x)
    BY <1>7 DEF copyQuote, x, e
  <2>2. seen'[i] = x /\ \A j \in Instruments \ {i} : seen'[j] = seen[j]
    BY <1>1, <1>2, <2>1, NotifyTells
  <2>3. /\ pub' \in Publishers /\ pub'.mode = pub.mode /\ pub'.subs = pub.subs
        /\ pub.mode # "Realtime" => \A c \in Connections : pub'.sent[c] = {}
        /\ \A c \in Connections : \A q \in pub'.sent[c] : q.id # i => q \in pub.sent[c]
        /\ \A j \in Instruments \ {i} : j \in hist'.refused <=> j \in hist.refused
        /\ PublisherClient \in ToSet(subs[i]) /\ i \notin hist'.refused =>
              \A c \in Connections : \A q \in pub'.sent[c] :
                 q.id = i /\ i \in pub.subs[c] =>
                    \/ q = x
                    \/ q \in pub.sent[c] /\ i \notin hist.refused /\ ~Publishable(x) /\ ~isLevelUpdate0(x)
    BY <1>1, <1>2, <2>1, NotifySends
  <2>4. phase # "idle"
    BY <1>1 DEF SentInv, PassInv, WakeInv, ReaderSound
  <2>5. ServesSent'
    BY <1>1, <2>3, <2>4 DEF ServesSent
  <2>6. ASSUME NEW j \in Instruments PROVE StoreAt(j)'
    BY <1>1, <1>2, <1>3, <1>5, <2>2, <2>4 DEF StoreAt
  <2>7. ASSUME NEW j \in Instruments, j # i PROVE SentAt(j)'
    <3> SUFFICES ASSUME NEW c \in Connections, NEW q \in pub'.sent[c], q.id = j, j \in pub.subs[c], Watched(j)'
                 PROVE  SameTop(q, seen'[j])
      BY <2>3 DEF SentAt, SameTop
    <3>1. q \in pub.sent[c] /\ Watched(j)
      BY <1>1, <1>3, <2>3, <2>7 DEF Watched
    <3> QED BY <1>5, <2>2, <2>7, <3>1 DEF SentAt
  <2>8. SentAt(i)'
    <3> SUFFICES ASSUME NEW c \in Connections, NEW q \in pub'.sent[c], q.id = i, i \in pub.subs[c], Watched(i)'
                 PROVE  SameTop(q, seen'[i])
      BY <2>3 DEF SentAt, SameTop
    <3>1. main'[i].gaps = 0 /\ PublisherClient \in ToSet(subs[i]) /\ i \notin hist'.refused
      BY <1>1 DEF Watched
    <3>2. CASE q = x
      BY <2>2, <3>2 DEF SameTop
    <3>3. CASE q \in pub.sent[c] /\ i \notin hist.refused /\ ~Publishable(x) /\ ~isLevelUpdate0(x)
      <4>1. Watched(i)
        BY <1>4, <3>1, <3>3 DEF Watched
      <4>2. SameTop(q, seen[i])
        BY <1>5, <3>3, <4>1 DEF SentAt
      <4>3. SameTop(seen[i], x)
        BY <1>2, <1>4, <3>1, <3>3, TopFollows
      <4> QED BY <2>2, <4>2, <4>3 DEF SameTop
    <3> QED BY <2>3, <3>1, <3>2, <3>3
  <2> QED BY <2>3, <2>5, <2>6, <2>7, <2>8 DEF SentSound
<1> QED BY <1>6, <1>7

(* A step of the publisher: what is sent is what the clients were shown.   *)
LEMMA PublisherKeeps ==
    ASSUME SentInv, UNCHANGED <<conf, phase, subs, quotes, out, reader, main, seen, hist>>,
           pub' \in Publishers, pub'.mode = pub.mode,
           \/ \A c \in Connections : pub'.sent[c] = {}
           \/ pub.mode = "Realtime" /\ phase # "idle",
           pub.mode # "Realtime" => \A c \in Connections : pub'.subs[c] = {},
           \A c \in Connections : \A q \in pub'.sent[c] :
              q.id \in pub'.subs[c] =>
                 \/ q \in pub.sent[c] /\ q.id \in pub.subs[c]
                 \/ Watched(q.id) => SameTop(q, seen[q.id]) \/ LevelWaits(q.id)
    PROVE  SentSound'
<1>1. ServesSent'
  BY DEF SentInv, SentSound, ServesSent
<1>2. ASSUME NEW i \in Instruments PROVE StoreAt(i)' /\ SentAt(i)'
  <2>1. StoreAt(i) /\ SentAt(i)
    BY DEF SentInv, SentSound
  <2>2. Waits(i)' = Waits(i)
    BY DEF Waits
  <2>3. StoreAt(i)'
    BY <2>1, <2>2 DEF StoreAt
  <2>4. (LevelWaits(i)' <=> LevelWaits(i)) /\ (Watched(i)' <=> Watched(i))
    BY <2>2 DEF LevelWaits, Watched
  <2>5. ASSUME NEW c \in Connections, NEW q \in pub'.sent[c], q.id = i, i \in pub'.subs[c], Watched(i)
        PROVE  SameTop(q, seen[i]) \/ LevelWaits(i)
    BY <2>1, <2>5 DEF SentAt
  <2>6. SentAt(i)'
    BY <2>4, <2>5 DEF SentAt, SameTop
  <2> QED BY <2>3, <2>6
<1> QED BY <1>1, <1>2 DEF SentSound

(* A connection subscribes and is answered from the store.                 *)
LEMMA SubSent ==
    ASSUME SentInv, UNCHANGED <<conf, phase, subs, quotes, out, reader, main, seen, hist>>,
           PublisherUp, pub.mode = "Realtime", NEW c \in Connections, NEW i \in Instruments,
           pub' = onSub(pub, c, StoreQuote(i))
    PROVE  SentSound'
<1> DEFINE answer == StoreQuote(i)  s == [pub.subs EXCEPT ![c] = @ \cup {i}]  asked == [pub EXCEPT !.subs = s]
<1>1. /\ pub \in Publishers /\ FeedTypes /\ PassTypes /\ StoreAt(i) /\ phase # "idle"
  BY DEF SentInv, SentSound, PassInv, FeedSound, PublisherUp
<1>2. answer \in Quote /\ answer.id = i
  <2>1. quotes[i] \in Quote /\ quotes[i].id = i
    BY <1>1, StoreQuotes DEF FeedTypes
  <2>2. main[i].quote \in Quote /\ main[i].quote.id = i
    BY <1>1 DEF PassTypes, StoreAt
  <2> QED BY <2>1, <2>2 DEF StoreQuote
<1>3. Watched(i) => SameTop(answer, seen[i]) \/ LevelWaits(i)
  <2> SUFFICES ASSUME main[i].gaps = 0 PROVE SameTop(answer, seen[i]) \/ LevelWaits(i)
    BY DEF Watched
  <2>1. CASE reader = "none"
    BY <2>1, StoreTop DEF StoreQuote
  <2>2. CASE reader # "none"
    <3>1. answer = main[i].quote /\ View(answer) = View(seen[i])
      BY <1>1, <2>2 DEF StoreQuote, StoreAt
    <3> QED BY <3>1, TopViews
  <2> QED BY <2>1, <2>2
<1>4. pub' = Send(asked, {c}, answer)
  BY <1>2 DEF onSub
<1> HIDE DEF answer
<1>5. s \in [Connections -> SUBSET Instruments] /\ s[c] = pub.subs[c] \cup {i}
      /\ \A d \in Connections \ {c} : s[d] = pub.subs[d]
  BY <1>1 DEF Publishers
<1> HIDE DEF s
<1>6. asked \in Publishers /\ asked.mode = pub.mode /\ asked.subs = s /\ asked.sent = pub.sent
  BY <1>1, <1>5 DEF Publishers
<1> HIDE DEF asked
<1>7. /\ pub' \in Publishers /\ pub'.mode = pub.mode /\ pub'.subs = s
      /\ \A d \in Connections : \A r :
            r \in pub'.sent[d] => r = answer \/ (r \in pub.sent[d] /\ (d = c => r.id # i))
  BY <1>2, <1>4, <1>6, SendSends
<1>8. ASSUME NEW d \in Connections, NEW r \in pub'.sent[d], r.id \in pub'.subs[d]
      PROVE  \/ r \in pub.sent[d] /\ r.id \in pub.subs[d]
             \/ Watched(r.id) => SameTop(r, seen[r.id]) \/ LevelWaits(r.id)
  <2>1. CASE r = answer
    BY <1>2, <1>3, <2>1
  <2>2. CASE r # answer
    <3>1. r \in pub.sent[d] /\ (d = c => r.id # i)
      BY <1>7, <1>8, <2>2
    <3> QED BY <1>5, <1>7, <1>8, <3>1
  <2> QED BY <2>1, <2>2
<1> QED BY <1>1, <1>7, <1>8, PublisherKeeps

LEMMA PublisherSent ==
    ASSUME SentInv, publisherSteps
    PROVE  SentSound'
<1>1. UNCHANGED <<conf, phase, subs, quotes, out, reader, main, seen, hist>>
  BY DEF publisherSteps, subVars, feedVars, threadVars
<1>2. pub \in Publishers /\ ServesSent
  BY DEF SentInv, SentSound
<1>3. ASSUME pub' \in Publishers, pub'.mode = pub.mode,
             \A c \in Connections : pub'.sent[c] \subseteq pub.sent[c] /\ pub'.subs[c] \subseteq pub.subs[c]
      PROVE  SentSound'
  <2>1. \/ \A c \in Connections : pub'.sent[c] = {}
        \/ pub.mode = "Realtime" /\ phase # "idle"
    BY <1>2, <1>3 DEF ServesSent
  <2>2. pub.mode # "Realtime" => \A c \in Connections : pub'.subs[c] = {}
    BY <1>2, <1>3 DEF ServesSent
  <2>3. \A c \in Connections : \A q \in pub'.sent[c] :
           q.id \in pub'.subs[c] => q \in pub.sent[c] /\ q.id \in pub.subs[c]
    BY <1>3
  <2> QED BY <1>1, <1>3, <2>1, <2>2, <2>3, PublisherKeeps
<1>4. ASSUME PublisherUp, pub.mode = "Realtime", NEW c \in Connections, NEW i \in Instruments,
             pub' = onSub(pub, c, StoreQuote(i))
      PROVE  SentSound'
  BY <1>1, <1>4, SubSent
<1>5. ASSUME NEW c \in Connections, NEW i \in pub.subs[c], pub' = onUnsub(pub, c, i)
      PROVE  SentSound'
  <2>1. pub' = [pub EXCEPT !.subs = [pub.subs EXCEPT ![c] = @ \ {i}]]
    BY <1>2, <1>5 DEF onUnsub, Publishers
  <2> QED BY <1>2, <1>3, <2>1 DEF Publishers
<1>6. ASSUME NEW c \in Connections, pub' = onConnectionDown(pub, c) PROVE SentSound'
  <2>1. pub' = [pub EXCEPT !.subs = [pub.subs EXCEPT ![c] = {}], !.sent = [pub.sent EXCEPT ![c] = {}]]
    BY <1>2, <1>6 DEF onConnectionDown, Publishers
  <2> QED BY <1>2, <1>3, <2>1 DEF Publishers
<1>7. ASSUME pub.queue # <<>>, pub' = recordNext(pub) PROVE SentSound'
  <2>1. pub.queue \in Seq(Quote) /\ pub.file \in Seq(Quote)
    BY <1>2 DEF Publishers
  <2>2. Tail(pub.queue) \in Seq(Quote) /\ Head(pub.queue) \in Quote
    BY <1>7, <2>1
  <2>3. Append(pub.file, Head(pub.queue)) \in Seq(Quote)
    BY <2>1, <2>2
  <2>4. PICK t \in Seq(Quote), f \in Seq(Quote) : pub' = [pub EXCEPT !.queue = t, !.file = f]
    BY <1>7, <2>1, <2>2, <2>3 DEF recordNext
  <2> QED BY <1>2, <1>3, <2>4 DEF Publishers
<1>8. ASSUME pub' = clear(pub) PROVE SentSound'
  <2>1. [c \in Connections |-> {}] \in [Connections -> SUBSET Instruments]
    OBVIOUS
  <2>2. pub' \in Publishers /\ pub'.mode = pub.mode /\ pub'.sent = pub.sent
        /\ \A c \in Connections : pub'.subs[c] = {}
    BY <1>2, <1>8, <2>1 DEF clear, Publishers
  <2> QED BY <1>3, <2>2
<1>9. ASSUME pub' = terminateThreadRecord(pub) PROVE SentSound'
  BY <1>2, <1>3, <1>9 DEF terminateThreadRecord, Publishers
<1> QED BY <1>4, <1>5, <1>6, <1>7, <1>8, <1>9 DEF publisherSteps

LEMMA NextSent == SentInv /\ [Next]_vars => SentInv'
<1> SUFFICES ASSUME SentInv, [Next]_vars PROVE SentInv'
  OBVIOUS
<1>1. PassInv'
  BY NextPassed DEF SentInv
<1>2. SentSound'
  <2>1. HistTypes /\ WakeInv
    BY DEF SentInv, PassInv
  <2>2. CASE UNCHANGED vars
    BY <2>2, RestSent DEF vars, subVars, threadVars, clientVars, feedVars
  <2>3. ASSUME NEW i \in Instruments, NEW c \in Clients,
               subscribe(i, c) \/ subscribeFront(i, c) \/ unsubscribe(i, c)
        PROVE  SentSound'
    <3>1. /\ phase = "idle" /\ hist' = [hist EXCEPT !.subs = @ + 1]
          /\ UNCHANGED <<conf, pub, main, seen, out>>
      BY <2>3 DEF subscribe, subscribeFront, unsubscribe, CanSubscribe, feedVars, threadVars, clientVars
    <3> QED BY <2>1, <3>1, IdleSent DEF HistTypes
  <2>4. CASE start
    BY <2>4, IdleSent DEF start, feedVars, clientVars
  <2>5. CASE stop
    <3>1. phase = "active" /\ phase' = "stopped"
          /\ UNCHANGED <<conf, pub, main, seen, subs, quotes, out, reader, hist>>
      BY <2>5 DEF stop, threadVars, clientVars
    <3> QED BY <3>1, RestSent
  <2>6. ASSUME NEW ch \in Channels, push(ch) PROVE SentSound'
    BY <2>6, RestSent DEF push, subVars, feedVars, clientVars
  <2>7. CASE readToken \/ clearPipe \/ takeQuotes
    <3>1. /\ reader # "none" /\ reader' # "none"
          /\ UNCHANGED <<conf, phase, pub, main, seen, subs, quotes, out, hist>>
      BY <2>7 DEF readToken, clearPipe, takeQuotes, Again, subVars, feedVars, clientVars
    <3> QED BY <3>1, RestSent
  <2> QED BY <2>2, <2>3, <2>4, <2>5, <2>6, <2>7, FeedSent, DirectSent, ThreadedSent, CopySent, PublisherSent
          DEF Next
<1> QED BY <1>1, <1>2 DEF SentInv

LEMMA InitSent == Init => SentInv
<1> SUFFICES ASSUME Init PROVE SentInv
  OBVIOUS
<1>1. PassInv
  BY InitPassed
<1>2. pub \in Publishers /\ (\A c \in Connections : pub.subs[c] = {} /\ pub.sent[c] = {})
  <2>1. conf.publisher \in {"off", "Realtime", "Record"} /\ pub = PublisherInit(conf.publisher)
    BY FeedAssumption DEF Init
  <2>2. <<>> \in Seq(Quote) /\ [c \in Connections |-> {}] \in [Connections -> SUBSET Instruments]
        /\ [c \in Connections |-> {}] \in [Connections -> SUBSET Quote]
    OBVIOUS
  <2> QED BY <2>1, <2>2 DEF PublisherInit, Publishers
<1>3. ServesSent
  BY <1>2 DEF Init, ServesSent
<1>4. ASSUME NEW i \in Instruments PROVE StoreAt(i) /\ SentAt(i)
  <2>1. out[ChannelOf[i]] = <<>>
    BY FeedAssumption DEF Init
  <2>2. Waits(i) = {}
    BY <2>1, WaitsOfOne DEF Waits
  <2>3. main[i].quote = NewQuote(i) /\ seen[i] = NewQuote(i) /\ hist.covered = {}
    BY DEF Init
  <2>4. StoreAt(i)
    BY <2>2, <2>3, NewQuoteIs DEF StoreAt
  <2> QED BY <1>2, <2>4 DEF SentAt
<1> QED BY <1>1, <1>2, <1>3, <1>4 DEF SentInv, SentSound

(* The publisher: PublishedCurrent holds in every state.                   *)
THEOREM PublishedSame == Spec => []PublishedCurrent
<1>1. ASSUME SentInv PROVE PublishedCurrent
  <2> SUFFICES ASSUME NEW c \in Connections, NEW q \in pub.sent[c],
                      q.id \in pub.subs[c], PublisherClient \in ToSet(subs[q.id]), Settled(q.id),
                      q.id \notin hist.refused \cup hist.covered, main[q.id].gaps = 0
               PROVE  SameTop(q, seen[q.id])
    BY DEF PublishedCurrent, SameTop
  <2> DEFINE i == q.id
  <2>1. pub \in Publishers /\ PassInv
    BY <1>1 DEF SentInv, SentSound
  <2>2. i \in Instruments
    <3>1. q \in Quote
      BY <2>1 DEF Publishers
    <3> QED BY <3>1, QuoteFields
  <2>3. Waits(i) = {}
    <3>1. \A k \in DOMAIN out[ChannelOf[i]] : out[ChannelOf[i]][k].id # i
      BY DEF Settled, Passed
    <3> QED BY <3>1 DEF Waits, WaitsIn, ToSet
  <2>4. ~isChanged(Pending(i))
    BY <2>1, <2>2, <2>3 DEF Settled, PassInv, FeedSound, PendingKnown
  <2>5. ~LevelWaits(i)
    BY <2>3, <2>4 DEF LevelWaits, Pending, isChanged, isLevelUpdate0
  <2> QED BY <1>1, <2>2, <2>5 DEF SentInv, SentSound, SentAt, Watched
<1> QED BY <1>1, InitSent, NextSent, PTL DEF Spec
=============================================================================
