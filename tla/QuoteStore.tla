----------------------------- MODULE QuoteStore -----------------------------
(***************************************************************************)
(* Quotes and who listens to them (price/quote.h, quote_store.h,           *)
(* client_container.h).  A quote holds the book, the last trade, the       *)
(* session's open, high and low, a status, and one flag for every field    *)
(* that changed since subscribers were last told.                          *)
(*                                                                         *)
(* A cell <<k, side>> is one side of level k of the book.  _flag is the    *)
(* set of its bits, each a pair of a field's name and its cell.  Numbers   *)
(* of orders, time stamps and the counters of updateStats are left out,    *)
(* and _updateAction, which is set just where _condition is.               *)
(***************************************************************************)
EXTENDS Integers, Sequences, SequencesExt

CONSTANTS
    SIZE,           \* levels of a quote's book
    MaxGap          \* MAX_GAP_FROM_PREVIOUS, in percent

ASSUME QuoteAssumption == SIZE \in Nat \ {0} /\ MaxGap \in Nat

Inv == -2147483647 - 1      \* a Ticks that was never set

Cells == (1..SIZE) \X {"bid", "ask"}
NoCell == <<0, "">>
OHL == {"open", "high", "low"}

tradeBits == <<"trade", NoCell>>
priceBits(cells) == {"price"} \X cells
sizeBits(cells) == {"size"} \X cells
ohlBits(f) == <<f, NoCell>>

Statuses ==
    {"Success", "ExchangeDown", "ExchangeUp", "ExchangeSlow", "StaleQuote", "DropRate",
     "TradingHaltedOrStopped", "TradingPause", "TradingResumeOrOpen", "TradingSessionEnd",
     "HLOReset", "DataRecoveryStart", "DataRecoveryFinish", "ReplayError", "ReplayFinished",
     "ConnectionHandlerError", "PriceGap"}

NoTrade == [price |-> Inv, size |-> 0, condition |-> "Unknown", side |-> "Unknown", tick |-> "Unknown"]

(* QuoteStore::getQuote makes the quote of an instrument.                  *)
NewQuote(i) == [id |-> i, status |-> "Success", flags |-> {}, trade |-> NoTrade,
                book |-> [c \in Cells |-> [price |-> Inv, size |-> 0]],
                ohl |-> [f \in OHL |-> Inv]]

clearRuntime(q) == [q EXCEPT !.flags = {}, !.status = "Success"]

isChanged(q) == q.flags # {}
isTrade(q) == tradeBits \in q.flags
isError(q) == q.status # "Success"

setPrices(q, b, cells) ==
    [q EXCEPT !.book = [c \in Cells |-> IF c \in cells THEN [@[c] EXCEPT !.price = b[c].price] ELSE @[c]],
              !.flags = @ \cup priceBits(cells)]

(* A bug: the new size is not flagged.                                     *)
setSizes_Unflagged(q, b, cells) ==
    [q EXCEPT !.book = [c \in Cells |-> IF c \in cells THEN [@[c] EXCEPT !.size = b[c].size] ELSE @[c]]]

setSizes(q, b, cells) ==
    [q EXCEPT !.book = [c \in Cells |-> IF c \in cells THEN [@[c] EXCEPT !.size = b[c].size] ELSE @[c]],
              !.flags = @ \cup sizeBits(cells)]

setTrade(q, price, size) ==
    [q EXCEPT !.trade.price = price, !.trade.size = size, !.flags = @ \cup {tradeBits}]

setOHL(q, f, price) == [q EXCEPT !.ohl[f] = price, !.flags = @ \cup {ohlBits(f)}]

(* TypeWrap::isGapped: more than MaxGap percent away from old.             *)
isGapped(new, old) ==
    /\ new # Inv /\ old # Inv
    /\ LET delta == IF new > old THEN new - old ELSE old - new
       IN  old >= 0 /\ delta * 100 > MaxGap * old

checkGappedQuote(q, new, old) ==
    IF isGapped(new, old) \/ isGapped(new, q.trade.price) THEN [q EXCEPT !.status = "PriceGap"] ELSE q

checkGappedTrade(q, price) ==
    IF \E s \in {"bid", "ask"} : isGapped(price, q.book[<<1, s>>].price)
    THEN [q EXCEPT !.status = "PriceGap"] ELSE q

(***************************************************************************)
(* ClientContainerMultiple: the clients of one quote, called in order.     *)
(***************************************************************************)
canAdd(clients, c) == c \notin ToSet(clients)
add(clients, c) == Append(clients, c)
addFront(clients, c) == <<c>> \o clients
rem(clients, c) == SelectSeq(clients, LAMBDA d : d # c)

(* What a client knows that copies only the flagged fields of each quote.  *)
Unknown == [book |-> [c \in Cells |-> [price |-> Inv, size |-> 0]], ohl |-> [f \in OHL |-> Inv]]
Followed(known, q) ==
    [book |-> [c \in Cells |->
                 [price |-> IF <<"price", c>> \in q.flags THEN q.book[c].price ELSE known.book[c].price,
                  size  |-> IF <<"size", c>> \in q.flags THEN q.book[c].size ELSE known.book[c].size]],
     ohl  |-> [f \in OHL |-> IF ohlBits(f) \in q.flags THEN q.ohl[f] ELSE known.ohl[f]]]
=============================================================================
