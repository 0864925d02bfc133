----------------------------- MODULE TurnProjection -----------------------------
(***************************************************************************)
(* The two projections of a thread's turns.  Every domain event is applied *)
(* twice: to the command read model in memory (orchestration/projector.ts) *)
(* and to the tables of the database (Layers/ProjectionPipeline.ts), from  *)
(* which Layers/ProjectionSnapshotQuery.ts answers.  Each is written as a  *)
(* function of the projection and the event.                               *)
(*                                                                         *)
(* Times are numbers of a logical clock: the timestamps the events carry.  *)
(***************************************************************************)
EXTENDS Naturals

CONSTANT Turns        \* ids of the provider's turns

ASSUME TurnsAssumption == Turns \subseteq Nat \ {0}

NoTurn == 0
NoTime == 0

TurnStates == {"none", "running", "completed", "interrupted", "error"}
Terminal == {"completed", "interrupted", "error"}        \* isTerminalTurnState
SessionStatuses == {"starting", "running", "ready", "interrupted", "error"}
CheckpointStatuses == {"none", "missing", "ready", "error"}
Closing == {"ready", "error", "interrupted"}             \* "stopped" is not modelled

Later(a, b) == IF a > b THEN a ELSE b                    \* maxIso

\* The domain events of a turn's life.
StartRequested(at) == [type |-> "start-requested", at |-> at]
InterruptRequested(turn, at) == [type |-> "interrupt-requested", turn |-> turn, at |-> at]
SessionSet(status, turn, at) ==
  [type |-> "session-set", status |-> status, turn |-> turn, at |-> at,
   recovers |-> FALSE]
\* terminalTurnRecovery "live-provider-continuation": work of a turn that is over
\* goes on, which reopens it.
Recovery(turn, at) == [SessionSet("running", turn, at) EXCEPT !.recovers = TRUE]
DiffCompleted(turn, number, status, at) ==
  [type |-> "diff-completed", turn |-> turn, number |-> number, status |-> status,
   at |-> at]

\* The state a closing session leaves its turn in.
ClosedState(status) ==
  CASE status = "error" -> "error"
    [] status = "ready" -> "completed"
    [] OTHER -> "interrupted"

TerminalStatus_Verbatim(state) == state

\* terminalSessionStatusForTurnState
TerminalStatus(state) == IF state = "completed" THEN "ready" ELSE state

-----------------------------------------------------------------------------
(* The read model in memory: one session and one latest turn.              *)

Memory == [status : SessionStatuses, active : Turns \cup {NoTurn}, at : Nat,
           latest : Turns \cup {NoTurn}, state : TurnStates, done : Nat,
           checkpoint : [Turns -> CheckpointStatuses],
           number : [Turns -> Nat]]         \* checkpointTurnCount

NewMemory ==
  [status |-> "ready", active |-> NoTurn, at |-> NoTime,
   latest |-> NoTurn, state |-> "none", done |-> NoTime,
   checkpoint |-> [t \in Turns |-> "none"], number |-> [t \in Turns |-> 0]]

\* The session's turn, or the latest turn if it still runs.
MemoryActive(m) ==
  IF m.active # NoTurn THEN m.active
  ELSE IF m.state = "running" THEN m.latest ELSE NoTurn

MemoryStart(m, e) ==
  [m EXCEPT !.status = "starting", !.active = NoTurn, !.at = e.at]

MemorySet_AnyTurn(m, e) ==
  IF e.status = "running"
  THEN [m EXCEPT !.status = e.status, !.active = e.turn, !.at = e.at,
                 !.latest = e.turn, !.state = "running", !.done = NoTime]
  ELSE [m EXCEPT !.status = e.status, !.active = e.turn, !.at = e.at]

\* A running session of a turn that is known to be over, unless it recovers it.
StaleForMemory(m, e) ==
  /\ ~e.recovers
  /\ e.status = "running" /\ e.turn # NoTurn
  /\ m.latest # NoTurn /\ m.state \in Terminal /\ m.done # NoTime
  /\ e.turn = m.latest \/ m.done >= e.at

MemorySet(m, e) ==
  LET existing == MemoryActive(m)
      s == [m EXCEPT !.status = e.status, !.active = e.turn, !.at = e.at]
  IN CASE e.status = "starting" /\ e.at < m.at -> m
       [] StaleForMemory(m, e) -> m
       [] ~StaleForMemory(m, e) /\ e.status = "running" /\ e.turn # NoTurn ->
            [s EXCEPT !.latest = e.turn, !.state = "running", !.done = NoTime]
       [] e.turn = NoTurn /\ existing # NoTurn /\ e.status \in Closing ->
            [s EXCEPT !.latest = existing,
                      !.state = IF @ \in {"error", "interrupted"} THEN @
                                ELSE ClosedState(e.status),
                      !.done = IF m.latest = existing /\ @ # NoTime THEN @ ELSE e.at]
       [] OTHER -> s

MemoryInterrupt(m, e) ==
  LET turn == IF e.turn # NoTurn THEN e.turn ELSE MemoryActive(m)
      closes == /\ e.turn = NoTurn \/ m.active \in {NoTurn, e.turn}
                /\ m.status \in {"starting", "running"} \/ m.active # NoTurn
      s == IF closes
           THEN [m EXCEPT !.status = "interrupted", !.active = NoTurn, !.at = e.at]
           ELSE m
  IN IF turn # NoTurn /\ m.latest \in {NoTurn, turn}
     THEN [s EXCEPT !.latest = turn, !.state = "interrupted",
                    !.done = IF m.latest = turn /\ @ # NoTime THEN @ ELSE e.at]
     ELSE s

\* A placeholder never replaces a checkpoint that was captured.
MemoryDiff(m, e) ==
  LET c == [m EXCEPT !.checkpoint[e.turn] = e.status, !.number[e.turn] = e.number]
      preserves == e.status = "missing" \/ (m.active = e.turn /\ m.at > e.at)
  IN CASE e.status = "missing" /\ m.checkpoint[e.turn] \in {"ready", "error"} -> m
       [] ~preserves /\ m.latest \in {NoTurn, e.turn} ->
            [c EXCEPT !.latest = e.turn,
                      !.state = IF e.status = "error" THEN "error" ELSE "completed",
                      !.done = e.at]
       [] OTHER -> c

MemoryAfter(m, e) ==
  CASE e.type = "start-requested" -> MemoryStart(m, e)
    [] e.type = "interrupt-requested" -> MemoryInterrupt(m, e)
    [] e.type = "session-set" -> MemorySet(m, e)
    [] e.type = "diff-completed" -> MemoryDiff(m, e)

-----------------------------------------------------------------------------
(* The tables: the session's row, a row for each turn, the start that is   *)
(* pending and the thread's pointer to its latest turn.  For one event the *)
(* projector of the sessions runs first, then that of the turns, then that *)
(* of the threads.                                                         *)

Tables == [status : SessionStatuses, active : Turns \cup {NoTurn}, at : Nat,
           latest : Turns \cup {NoTurn},
           state : [Turns -> TurnStates],
           asked : [Turns -> Nat],          \* requestedAt
           done : [Turns -> Nat],           \* completedAt
           checkpoint : [Turns -> CheckpointStatuses],
           number : [Turns -> Nat],         \* checkpointTurnCount
           pending : Nat]                   \* requestedAt of the pending start

NewTables ==
  [status |-> "ready", active |-> NoTurn, at |-> NoTime, latest |-> NoTurn,
   state |-> [t \in Turns |-> "none"], asked |-> [t \in Turns |-> NoTime],
   done |-> [t \in Turns |-> NoTime], checkpoint |-> [t \in Turns |-> "none"],
   number |-> [t \in Turns |-> 0],
   pending |-> NoTime]

Row(d, t) == IF t = NoTurn THEN "none" ELSE d.state[t]

SetSession(d, status, turn, at) ==
  [d EXCEPT !.status = status, !.active = turn, !.at = Later(@, at)]

Promotes_Always(d, current, turn, at) == TRUE

\* shouldPromoteLatestTurn: the candidate was not asked for before the current.
Promotes(d, current, turn, at) ==
  \/ Row(d, current) = "none"
  \/ current = turn
  \/ d.asked[current] <= IF Row(d, turn) # "none" THEN d.asked[turn] ELSE at

\* Point the thread at its latest turn.
Pointed(d, turn, at) ==
  IF Promotes(d, d.latest, turn, at) THEN [d EXCEPT !.latest = turn] ELSE d

\* Give a row its final state; what it knows of its times stays.
Ended(d, turn, state, at) ==
  [d EXCEPT !.state[turn] = state,
            !.asked[turn] = IF d.state[turn] = "none" THEN at ELSE @,
            !.done[turn] = IF @ = NoTime THEN at ELSE @]

TablesStart(d, e) ==
  [SetSession(d, "starting", NoTurn, e.at) EXCEPT !.pending = e.at]

TablesInterrupt(d, e) ==
  LET turn == IF e.turn # NoTurn THEN e.turn ELSE d.active
      closes == /\ turn # NoTurn
                /\ d.active # NoTurn \/ d.status \in {"starting", "running"}
                /\ d.active \in {NoTurn, turn}
      s == IF closes THEN SetSession(d, "interrupted", NoTurn, e.at) ELSE d
  IN IF e.turn = NoTurn THEN s ELSE Ended(s, e.turn, "interrupted", e.at)

\* The session that a running session-set leaves behind: that of the turn, or
\* that of the row which shows that it is over, unless it recovers the turn.
SessionWhileRunning(d, e) ==
  CASE ~e.recovers /\ Row(d, e.turn) \in Terminal ->
         SetSession(d, TerminalStatus(d.state[e.turn]), NoTurn,
                    Later(e.at, d.done[e.turn]))
    [] ~e.recovers /\ Row(d, e.turn) \notin Terminal
         /\ Row(d, d.latest) \in Terminal
         /\ ~Promotes(d, d.latest, e.turn, e.at) ->
         SetSession(d, TerminalStatus(d.state[d.latest]), NoTurn,
                    Later(e.at, d.done[d.latest]))
    [] OTHER ->
         LET retired == /\ d.active \notin {NoTurn, e.turn}
                        /\ Row(d, d.active) = "running"
                        /\ Promotes(d, d.active, e.turn, e.at)
             r == IF retired THEN Ended(d, d.active, "interrupted", e.at) ELSE d
         IN SetSession(r, "running", e.turn, e.at)

RowWhileRunning_Reopens(d, e) ==
  [d EXCEPT !.state[e.turn] = "running",
            !.asked[e.turn] = IF d.state[e.turn] # "none" THEN @
                              ELSE IF d.pending # NoTime THEN d.pending ELSE e.at,
            !.done[e.turn] = NoTime,
            !.pending = NoTime]

\* The turn's row: an ended turn is not reopened by a late session, only by one
\* that recovers it.
RowWhileRunning(d, e) ==
  IF ~e.recovers /\ Row(d, e.turn) \in Terminal
  THEN d ELSE RowWhileRunning_Reopens(d, e)

\* A session without a turn closes the turn it had.
SessionWithoutTurn(d, e) ==
  LET closed == IF Row(d, d.active) \in {"error", "interrupted"}
                THEN d.state[d.active] ELSE ClosedState(e.status)
      c == IF d.active # NoTurn THEN Ended(d, d.active, closed, e.at) ELSE d
  IN [SetSession(c, e.status, NoTurn, e.at) EXCEPT !.pending = NoTime]

TablesSet(d, e) ==
  CASE e.status = "running" /\ e.turn # NoTurn ->
         Pointed(RowWhileRunning(SessionWhileRunning(d, e), e), e.turn, e.at)
    [] e.turn = NoTurn /\ e.status \in Closing -> SessionWithoutTurn(d, e)
    [] e.status = "starting" /\ e.at < d.at -> d
    [] OTHER -> SetSession(d, e.status, e.turn, e.at)

\* hasNewerActiveSessionEvidence
NewerEvidence(d, e) == d.active = e.turn /\ d.at > e.at

\* clearCheckpointTurnConflict: another turn with the same number loses its
\* checkpoint.
WithoutConflict(d, e) ==
  LET conflicts(t) == t # e.turn /\ d.number[t] = e.number
  IN [d EXCEPT
        !.checkpoint = [t \in Turns |-> IF conflicts(t) THEN "none" ELSE @[t]],
        !.number = [t \in Turns |-> IF conflicts(t) THEN 0 ELSE @[t]]]

TablesDiff(d, e) ==
  LET real == e.status # "missing"
      s == IF real /\ d.active = e.turn /\ ~NewerEvidence(d, e)
           THEN SetSession(d, IF e.status = "ready" THEN "ready" ELSE "error",
                           NoTurn, e.at)
           ELSE d
      new == Row(d, e.turn) = "none"
      ends == real /\ (new \/ ~NewerEvidence(s, e))
      r == [WithoutConflict(s, e) EXCEPT
                     !.checkpoint[e.turn] = e.status,
                     !.number[e.turn] = e.number,
                     !.asked[e.turn] = IF new THEN e.at ELSE @,
                     !.state[e.turn] = IF ends THEN (IF e.status = "error"
                                                     THEN "error" ELSE "completed")
                                       ELSE IF new THEN "running" ELSE @,
                     !.done[e.turn] = IF ends THEN Later(@, e.at) ELSE @]
  IN IF real /\ d.latest = NoTurn THEN [r EXCEPT !.latest = e.turn] ELSE r

TablesAfter(d, e) ==
  CASE e.type = "start-requested" -> TablesStart(d, e)
    [] e.type = "interrupt-requested" -> TablesInterrupt(d, e)
    [] e.type = "session-set" -> TablesSet(d, e)
    [] e.type = "diff-completed" -> TablesDiff(d, e)

-----------------------------------------------------------------------------
(* What a query answers: the session is reconciled with the latest turn    *)
(* (reconcileSessionWithLatestTurn).                                       *)

ReadSession(d) ==
  LET row == Row(d, d.latest)
      as(status, turn) == [status |-> status, active |-> turn]
  IN CASE d.active = NoTurn -> as(d.status, NoTurn)
       [] d.active # NoTurn /\ d.latest # d.active ->
            IF d.status # "running" THEN as(d.status, NoTurn)
            ELSE IF row \in Terminal /\ d.done[d.latest] >= d.at
                 THEN as(TerminalStatus(row), NoTurn)
                 ELSE as(d.status, d.active)
       [] d.active # NoTurn /\ d.latest = d.active ->
            IF row \in Terminal THEN as(TerminalStatus(row), NoTurn)
            ELSE IF row = "running" THEN as("running", d.active)
            ELSE as(d.status, d.active)
=============================================================================
