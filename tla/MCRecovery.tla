------------------------------ MODULE MCRecovery -------------------------------
(***************************************************************************)
(* One order, for every place at which a run of the process can end.       *)
(***************************************************************************)
EXTENDS Recovery

CONSTANTS o1

MCPrices == {1, 2}

MCOneBuy == o1 :> [side |-> "Buy", qty |-> 2, price |-> 1]
================================================================================
