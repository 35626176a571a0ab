----------------------------- MODULE MCTimerServer -----------------------------
(***************************************************************************)
(* Instances of TimerServer: a client of a single call, a repeating one,   *)
(* and a third with another period, registered by one thread and from      *)
(* callbacks.                                                              *)
(***************************************************************************)
EXTENDS TimerServer

CONSTANTS c1, c2, c3

MCPeriod == [c \in Clients |-> IF c = c3 THEN 2 ELSE 1]
MCOnce == {c1}
================================================================================
