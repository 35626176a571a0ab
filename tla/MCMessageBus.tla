---------------------------- MODULE MCMessageBus ----------------------------
(* The message bus with two peers that share one descriptor, one after the *)
(* other, or hold one each; queues of at most two messages.                *)
EXTENDS MessageBus
=============================================================================
