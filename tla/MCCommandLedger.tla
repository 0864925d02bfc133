--------------------------- MODULE MCCommandLedger ---------------------------
\* The command ledger for three requests of one command and two daemons.
EXTENDS CommandLedger

CONSTANTS r1, r2, r3, c1, d1, d2

MCRequests == {r1, r2, r3}
MCCommands == {c1}
MCDaemons  == {d1, d2}
=============================================================================
