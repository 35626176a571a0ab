------------------------------ MODULE MCOrderFlow ------------------------------
(***************************************************************************)
(* Instances of OrderFlow.  Two orders are enough for every property: the  *)
(* handlers of different orders meet only in the account's counters.       *)
(***************************************************************************)
EXTENDS OrderFlowLedger, TLC

CONSTANTS o1, o2

Entry(side, qty, price) == [side |-> side, qty |-> qty, price |-> price]

MCPrices == {1, 2}

\* A buy and a sell that cannot both be refused nor both be filled unchecked.
MCTwoSides == o1 :> Entry("Buy", 2, 1) @@ o2 :> Entry("Sell", 1, 2)

\* One order, for deep sequences of modifies and cancels.
MCOneBuy == o1 :> Entry("Buy", 2, 1)
================================================================================
