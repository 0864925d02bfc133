---------------------------- MODULE MCEventStream ----------------------------
(* Bounds for model checking EventStream: one journal of at most MaxRows    *)
(* rows, so that a page boundary, a prune and a queue overflow all happen   *)
(* while a handler is between two awaits.                                   *)
EXTENDS EventStream
=============================================================================
