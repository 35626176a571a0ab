----------------------------- MODULE MCOrderStorage ----------------------------
(***************************************************************************)
(* Instances of OrderStorage: batches of two items and pipes short enough  *)
(* to fill, so that each way into the file and out of it is taken.         *)
(***************************************************************************)
EXTENDS OrderStorage
================================================================================
