---------------------------- MODULE OrderFlowLedger ----------------------------
(***************************************************************************)
(* The order path implements the ledger: an order is open while it is in   *)
(* ProcessorOrders' table, and the ledger's two numbers are the counters   *)
(* of AccountInstrOpenOrdersPos, which every order of the account shares.  *)
(***************************************************************************)
EXTENDS OrderFlow

StageOf(r) ==
  CASE r.state = "Unknown" -> "Idle"
    [] r.state # "Unknown" /\ r.inTable -> "Open"
    [] OTHER -> "Closed"

Ledger ==
  INSTANCE OrderLedger
    WITH Limit <- MaxPos,
         stage <- [o \in Orders |-> StageOf(ord[o])],
         traded <- [o \in Orders |-> ord[o].cumQty],
         open <- [side \in Sides |-> IF side = "Buy" THEN bids ELSE asks],
         net <- pos

\* Whatever threads, callbacks and messages do, the account sees a ledger: the
\* risk check that admits an order and the counters it reads, the fills that find
\* the order in whatever state a cancel or a modify has put it, and the one step
\* that takes it out of the table are a step of the ledger each, or none.
ImplementsLedger == Ledger!Spec
================================================================================
