----------------------------- MODULE MCThreadTurns -----------------------------
(* Small instances of ThreadTurns for TLC.                                  *)
EXTENDS ThreadTurns
=============================================================================
