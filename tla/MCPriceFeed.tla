---------------------------- MODULE MCPriceFeed ----------------------------
(***************************************************************************)
(* Two instruments of one channel; books of one and two levels, one of     *)
(* them with a side that empties; trades at two prices from both sides, an *)
(* opening trade and a trade of size 0.                                    *)
(***************************************************************************)
EXTENDS PriceFeed, TLC

MCInstruments == {"i", "j"}
MCChannelOf == [i \in MCInstruments |-> "ch"]

Cell(p, s) == [price |-> p, size |-> s]
Book(b1, a1, b2) == (<<1, "bid">> :> b1) @@ (<<1, "ask">> :> a1) @@ (<<2, "bid">> :> b2)
TopBook(b1, a1) == (<<1, "bid">> :> b1) @@ (<<1, "ask">> :> a1)

BookCall(i, b) == [kind |-> "book", i |-> i, book |-> b, slow |-> FALSE]
TradeCall(i, p, n, cond, side, tick) ==
    [kind |-> "trade", i |-> i, price |-> p, size |-> n, condition |-> cond, side |-> side,
     tick |-> tick, slow |-> (tick = "Minus")]

MCCalls ==
    {BookCall("i", Book(Cell(100, 1), Cell(101, 2), Cell(99, 1))),
     BookCall("i", Book(Cell(101, 1), Cell(120, 2), Cell(99, 2))),
     BookCall("i", TopBook(Cell(101, 2), Cell(0, 0))),
     BookCall("j", TopBook(Cell(0, 1), Cell(1, 1))),
     TradeCall("i", 100, 1, "Unknown", "Buy", "Plus"),
     TradeCall("i", 101, 2, "Unknown", "Sell", "Minus"),
     TradeCall("i", 101, 3, "Opening", "Buy", "Plus"),
     TradeCall("i", 101, 0, "Unknown", "Buy", "Plus"),
     [kind |-> "stats", i |-> "i", field |-> "high", price |-> 101, slow |-> FALSE],
     [kind |-> "security", i |-> "i", status |-> "TradingHaltedOrStopped", slow |-> FALSE],
     [kind |-> "reset", i |-> "i"],
     [kind |-> "channel", ch |-> "ch", status |-> "ExchangeDown"],
     [kind |-> "warning", ch |-> "ch", status |-> "DropRate"]}

Conf(impl, mt, coalesce, normal, publisher, calls, n) ==
    [impl |-> impl, publisher |-> publisher, multithreaded |-> mt, coalesce |-> coalesce, normalTradesOnly |-> normal,
     calls |-> calls, subs |-> n]

MCConfs ==
    {Conf("Onix", FALSE, FALSE, FALSE, "off", 3, 2), Conf("Onix", FALSE, TRUE, FALSE, "off", 4, 1),
     Conf("Onix", TRUE, FALSE, FALSE, "off", 3, 1), Conf("Onix", TRUE, TRUE, TRUE, "off", 3, 1),
     Conf("Nanex", FALSE, FALSE, FALSE, "off", 3, 1), Conf("AMR", FALSE, FALSE, FALSE, "Realtime", 3, 1),
     Conf("Onix", TRUE, FALSE, TRUE, "Realtime", 2, 1), Conf("Onix", FALSE, TRUE, TRUE, "Realtime", 3, 1),
     Conf("Onix", FALSE, FALSE, FALSE, "Record", 3, 1)}
=============================================================================
