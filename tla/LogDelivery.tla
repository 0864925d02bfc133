----------------------------- MODULE LogDelivery -----------------------------
(***************************************************************************)
(* What the event journal promises a reader, whatever the reader's timing: *)
(* from the position it asks for, it gets the entries of an append-only    *)
(* log in order, and it passes over an entry only when that entry has been *)
(* trimmed.                                                                *)
(***************************************************************************)
EXTENDS Integers

CONSTANT Readers

VARIABLES
  length,    \* entries appended
  floor,     \* entries up to here are trimmed
  start,     \* position a reader asked to continue from
  position,  \* last entry a reader was given
  got,       \* entries given to a reader since it opened
  open       \* whether a reader is open

vars == <<length, floor, start, position, got, open>>
readerVars == <<start, position, got, open>>

Init ==
  /\ length \in Nat
  /\ floor = 0
  /\ start = [r \in Readers |-> 0]
  /\ position = [r \in Readers |-> 0]
  /\ got = [r \in Readers |-> {}]
  /\ open = [r \in Readers |-> FALSE]

AppendEntry ==
  /\ length' = length + 1
  /\ UNCHANGED <<floor, readerVars>>

Trim ==
  /\ floor' \in floor + 1 .. length
  /\ UNCHANGED <<length, readerVars>>

\* A closed reader continues from whatever position it asks for.
OpenAnywhere(r) ==
  /\ ~open[r]
  /\ open' = [open EXCEPT ![r] = TRUE]
  /\ position'[r] \in Nat
  /\ position' = [position EXCEPT ![r] = position'[r]]
  /\ start' = [start EXCEPT ![r] = position'[r]]
  /\ got' = [got EXCEPT ![r] = {}]
  /\ UNCHANGED <<length, floor>>

\* The next entry, or a later one when all between are trimmed.
Deliver(r, c) ==
  /\ open[r]
  /\ position[r] < c
  /\ \A d \in position[r] + 1 .. c - 1 : d <= floor
  /\ position' = [position EXCEPT ![r] = c]
  /\ got' = [got EXCEPT ![r] = @ \cup {c}]
  /\ UNCHANGED <<length, floor, start, open>>

\* Readers may be dropped at any time, several at once.
Close ==
  /\ \A r \in Readers : open'[r] => open[r]
  /\ DOMAIN open' = Readers
  /\ UNCHANGED <<length, floor, start, position, got>>

Next ==
  \/ AppendEntry
  \/ Trim
  \/ \E r \in Readers :
       \/ OpenAnywhere(r)
       \/ \E c \in 1 .. length : Deliver(r, c)
  \/ Close

Spec == Init /\ [][Next]_vars
=============================================================================
