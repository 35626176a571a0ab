----------------------------- MODULE MCExchangeSim -----------------------------
(***************************************************************************)
(* The simulator with one buy and one sell level of the feed around the    *)
(* clients' prices.  The quotes move the best prices, shrink and grow a    *)
(* level, cross the book, trade through it, and one is refused.            *)
(***************************************************************************)
EXTENDS ExchangeSim

\* The orders of one client are interchangeable.
Interchangeable == Permutations(Cert) \cup Permutations(Orders \ Cert)

L(p, s) == <<[price |-> p, size |-> s, updPrice |-> TRUE]>>
SizeOnly(p, s) == <<[price |-> p, size |-> s, updPrice |-> FALSE]>>

MCQuote(good, trade, bid, ask) ==
  [good |-> good, trade |-> trade,
   book |-> [s \in Sides |-> IF s = "Buy" THEN bid ELSE ask]]

MCQuotes ==
  {MCQuote(TRUE, <<>>, L(1, 3), L(2, 2)),
   MCQuote(TRUE, <<>>, SizeOnly(1, 1) , <<>>),
   MCQuote(TRUE, <<>>, <<>>, SizeOnly(2, 3)),
   MCQuote(TRUE, <<>>, L(2, 1) \o L(1, 2), <<>>),
   MCQuote(TRUE, <<[price |-> 1, size |-> 2]>>, <<>>, <<>>),
   MCQuote(TRUE, <<[price |-> 2, size |-> 1]>>, <<>>, <<>>),
   MCQuote(TRUE, <<>>, L(0, 1), <<>>),
   MCQuote(FALSE, <<>>, <<>>, <<>>)}

MCRequests ==
  {[side |-> "Buy", price |-> 1, qty |-> 2, ioc |-> FALSE],
   [side |-> "Buy", price |-> 2, qty |-> 1, ioc |-> FALSE],
   [side |-> "Sell", price |-> 2, qty |-> 2, ioc |-> FALSE],
   [side |-> "Sell", price |-> 1, qty |-> 3, ioc |-> TRUE]}

MCLimits == [k \in Kinds |-> CASE k = "New" -> [ack |-> 1, rej |-> 1]
                               [] k = "Mod" -> [ack |-> 0, rej |-> 1]
                               [] k = "Cxl" -> [ack |-> -1, rej |-> -1]]

================================================================================
