--------------------------- MODULE MCMessageQueue ---------------------------
(* Two threads that put two messages each, both kinds of taker.            *)
EXTENDS MessageQueue
=============================================================================
