---------------------------- MODULE MCEventBridge ----------------------------
(* Bounds for EventBridge: the third record is a quarantine record, the     *)
(* overlap and the interval are shorter than the journal, and the           *)
(* subscription holds one record, so that publishing has to wait.           *)
EXTENDS EventBridge

MCGaps == {3}
=============================================================================
