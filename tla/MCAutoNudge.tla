------------------------------ MODULE MCAutoNudge ------------------------------
(* Small instances of AutoNudge for TLC.                                    *)
EXTENDS AutoNudge
=============================================================================
