------------------------------ MODULE MCBridge ------------------------------
(* Orders of two clients: one each, on a route of their own and on one that *)
(* they share, and a single order changed twice.                            *)
EXTENDS Bridge

CONSTANTS c1, c2

MCRoutes == 1..2
MCOrders == 1..2
MCClientOf == <<c1, c2>>
MCConfigs == {[routes |-> 2, reqs |-> <<1, 0>>],
              [routes |-> 1, reqs |-> <<1, 0>>],
              [routes |-> 1, reqs |-> <<2>>]}
=============================================================================
