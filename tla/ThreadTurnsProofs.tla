---------------------------- MODULE ThreadTurnsProofs ----------------------------
(***************************************************************************)
(* Proofs about ThreadTurns.                                               *)
(***************************************************************************)
EXTENDS ThreadTurns, WellFoundedInduction, TLAPS

-----------------------------------------------------------------------------
(* Types.                                                                  *)

\* Every event carries a time the clock has given.
Instants == Nat \ {0}

StartIntents == [kind : {"start"}, request : Requests, at : Instants]
InterruptIntents == [kind : {"interrupt"}, turn : Turns \cup {NoTurn}]

EndOutcomes == {"completed", "failed", "interrupted"}
EndedEvents == [kind : {"ended"}, turn : Turns, outcome : EndOutcomes, at : Instants]
ProviderEvents ==
  [kind : {"started", "diff", "reopened"}, turn : Turns, at : Instants]
    \cup EndedEvents

Readings ==
  [kind : {"event"}, event : ProviderEvents, active : Turns \cup {NoTurn},
   owned : BOOLEAN, tracked : BOOLEAN, number : Nat]

Placeholders ==
  [kind : {"placeholder"}, turn : Turns, number : Nat, at : Instants]

TakenStatuses == {"missing", "ready", "error"}
Captures ==
  [kind : {"capture"}, turn : Turns, number : Nat, status : TakenStatuses,
   at : Instants]

\* The domain events that the actors write, but for the one that reopens a turn.
StartEvents == {StartRequested(at) : at \in Instants}
InterruptEvents ==
  {InterruptRequested(x[1], x[2]) : x \in (Turns \cup {NoTurn}) \X Instants}
RunningEvents == {SessionSet("running", x[1], x[2]) : x \in Turns \X Instants}
ClosingEvents == {SessionSet(x[1], NoTurn, x[2]) : x \in Closing \X Instants}
DiffEvents ==
  {DiffCompleted(x[1], x[2], x[3], x[4]) :
     x \in Turns \X Nat \X TakenStatuses \X Instants}
DomainEvents ==
  StartEvents \cup InterruptEvents \cup RunningEvents \cup ClosingEvents
    \cup DiffEvents

\* Some number bounds the checkpoints' numbers, so that there is a last one.
Bounded(d) == \E n \in Nat : \A t \in Turns : d.number[t] <= n

ProjectionsTyped == mem \in Memory /\ db \in Tables /\ Bounded(db)
CountersTyped ==
  clock \in Nat /\ asked \in 0..MaxRequests /\ upsets \in 0..MaxUpsets
IntentsTyped == intents \in Seq(StartIntents \cup InterruptIntents)
CallRecords ==
  [step : {"none", "send", "resend", "steer", "steered", "answered", "marking",
           "failed"},
   turn : Turns \cup {NoTurn}, at : Nat, mark : Nat]
CallTyped(c) ==
  /\ c \in CallRecords
  /\ c.step # "none" => c.at \in Instants /\ c.mark \in Instants
  /\ c.step \in {"steer", "steered", "answered", "marking"} => c.turn \in Turns
CallsTyped ==
  calls \in [Requests -> CallRecords] /\ \A r \in Requests : CallTyped(calls[r])
ProviderTyped ==
  turns \in Turns \cup {NoTurn} /\ running \in 0..turns
    /\ stopping \in BOOLEAN /\ diffed \in BOOLEAN
EndedTyped ==
  /\ ended \in [Turns -> Endings \cup {"none"}]
  /\ \A t \in Turns : ended[t] # "none" => t <= turns
  /\ reopened \in {"none", "last", "earlier"}
ReportedTyped ==
  /\ reported \in Seq(ProviderEvents)
  /\ \A i \in 1..Len(reported) : reported[i].turn <= turns
IngestingTyped ==
  ingesting # Nothing => ingesting \in Readings /\ ingesting.event.turn <= turns
ReceiptsTyped == receipts \subseteq 1..turns
CapturesTyped ==
  /\ captures \in Seq(EndedEvents \cup Placeholders)
  /\ capturing # Nothing => capturing \in Captures
OverlapTyped == overlap \in {"none", "start", "call"}

TypeInv ==
  /\ ProjectionsTyped /\ CountersTyped /\ IntentsTyped /\ CallsTyped
  /\ ProviderTyped /\ EndedTyped /\ ReportedTyped /\ IngestingTyped
  /\ ReceiptsTyped /\ CapturesTyped /\ OverlapTyped

-----------------------------------------------------------------------------
(* Numbers and the last checkpoint's.                                      *)

LEMMA SmallestNumber ==
  ASSUME NEW T, T \subseteq Nat, T # {}
  PROVE  \E x \in T : \A y \in T : x <= y
<1> DEFINE R == OpToRel(<, Nat)
<1>1. IsWellFoundedOn(R, Nat)
  BY NatLessThanWellFounded
<1>2. \A x, y \in Nat : y < x => <<y, x>> \in R
  BY DEF OpToRel
<1>3. PICK x \in T : \A y \in T : ~(<<y, x>> \in R)
  <2> HIDE DEF R
  <2> QED BY <1>1, WFMin
<1>4. \A y \in T : ~(y < x)
  BY <1>2, <1>3
<1> QED BY <1>4

LEMMA LargestNumber ==
  ASSUME NEW T, T \subseteq Nat, T # {}, NEW b \in Nat, \A x \in T : x <= b
  PROVE  \E x \in T : \A y \in T : y <= x
<1> DEFINE U == {b - x : x \in T}
<1>1. U \subseteq Nat
  <2>1. ASSUME NEW x \in T PROVE b - x \in Nat
    OBVIOUS
  <2> QED BY <2>1
<1>2. U # {}
  OBVIOUS
<1>3. PICK u \in U : \A v \in U : u <= v
  <2> HIDE DEF U
  <2> QED BY <1>1, <1>2, SmallestNumber
<1>4. PICK x \in T : u = b - x
  OBVIOUS
<1>5. ASSUME NEW y \in T PROVE u <= b - y
  BY <1>3
<1>6. ASSUME NEW y \in T PROVE y <= x
  BY <1>4, <1>5
<1> QED BY <1>6

\* maxCheckpointTurnCount is defined whenever there is a turn.
LEMMA LastNumberTyped ==
  ASSUME db \in Tables, Bounded(db), Turns # {}
  PROVE  LastNumber \in Nat /\ \A t \in Turns : db.number[t] <= LastNumber
<1> DEFINE T == {db.number[t] : t \in Turns}
<1>1. db.number \in [Turns -> Nat]
  BY DEF Tables
<1>2. T \subseteq Nat /\ T # {}
  BY <1>1
<1>3. PICK b \in Nat : \A x \in T : x <= b
  BY DEF Bounded
<1>4. PICK x \in T : \A y \in T : y <= x
  <2> HIDE DEF T
  <2> QED BY <1>2, <1>3, LargestNumber
<1>5. \E n \in T : \A t \in Turns : db.number[t] <= n
  BY <1>4
<1>6. LastNumber \in T /\ \A t \in Turns : db.number[t] <= LastNumber
  BY <1>5 DEF LastNumber
<1> QED BY <1>2, <1>6

-----------------------------------------------------------------------------
(* What one event does to the types.                                       *)

LEMMA RecordTypes ==
  /\ \A at \in Instants : StartRequested(at).at = at
  /\ NoTurn = 0 /\ NoTime = 0 /\ NoTurn \notin Turns /\ Turns \subseteq Nat
BY TurnsAssumption DEF NoTurn, NoTime, StartRequested

\* The session of the memory is replaced as a whole.
LEMMA MemorySessionTyped ==
  ASSUME NEW m \in Memory, NEW status \in SessionStatuses,
         NEW active \in Turns \cup {NoTurn}, NEW at \in Nat
  PROVE  [m EXCEPT !.status = status, !.active = active, !.at = at] \in Memory
BY DEF Memory

\* So is its latest turn.
LEMMA MemoryTurnTyped ==
  ASSUME NEW m \in Memory, NEW latest \in Turns \cup {NoTurn},
         NEW state \in TurnStates, NEW done \in Nat
  PROVE  [m EXCEPT !.latest = latest, !.state = state, !.done = done] \in Memory
BY DEF Memory

LEMMA MemoryStartTyped ==
  ASSUME NEW m \in Memory, NEW e \in StartEvents
  PROVE  MemoryAfter(m, e) \in Memory
<1>1. PICK at \in Instants : e = StartRequested(at)
  BY DEF StartEvents
<1>2. MemoryAfter(m, e) =
        [m EXCEPT !.status = "starting", !.active = NoTurn, !.at = at]
  BY <1>1 DEF MemoryAfter, StartRequested, MemoryStart
<1>3. [m EXCEPT !.status = "starting", !.active = NoTurn, !.at = at] \in Memory
  BY MemorySessionTyped DEF Instants, SessionStatuses
<1> QED BY <1>2, <1>3

LEMMA MemoryActiveTyped ==
  ASSUME NEW m \in Memory
  PROVE  MemoryActive(m) \in Turns \cup {NoTurn}
BY DEF Memory, MemoryActive

LEMMA MemoryInterruptTyped ==
  ASSUME NEW m \in Memory, NEW e \in InterruptEvents
  PROVE  MemoryAfter(m, e) \in Memory
<1>1. PICK turn \in Turns \cup {NoTurn}, at \in Instants :
        e = InterruptRequested(turn, at)
  BY DEF InterruptEvents
<1>2. MemoryAfter(m, e) = MemoryInterrupt(m, e)
  BY <1>1 DEF MemoryAfter, InterruptRequested
<1> DEFINE named == IF turn # NoTurn THEN turn ELSE MemoryActive(m)
           closes == /\ turn = NoTurn \/ m.active \in {NoTurn, turn}
                     /\ m.status \in {"starting", "running"} \/ m.active # NoTurn
           s == IF closes
                THEN [m EXCEPT !.status = "interrupted", !.active = NoTurn, !.at = at]
                ELSE m
           done == IF m.latest = named /\ m.done # NoTime THEN m.done ELSE at
           i == [s EXCEPT !.latest = named, !.state = "interrupted", !.done = done]
<1>3. s \in Memory /\ s.done = m.done
  <2>1. CASE closes
    BY <2>1, MemorySessionTyped DEF Instants, SessionStatuses, Memory
  <2>2. CASE ~closes
    BY <2>2
  <2> QED BY <2>1, <2>2
<1>4. named \in Turns \cup {NoTurn} /\ done \in Nat
  BY MemoryActiveTyped DEF Memory, Instants
<1>5. i \in Memory
  <2> HIDE DEF s, named, done
  <2> QED BY <1>3, <1>4, MemoryTurnTyped DEF TurnStates
<1>6. MemoryInterrupt(m, e) \in {s, i}
  BY <1>1, <1>3 DEF MemoryInterrupt, InterruptRequested
<1> QED BY <1>2, <1>3, <1>5, <1>6

LEMMA MemoryRunningTyped ==
  ASSUME NEW m \in Memory, NEW e \in RunningEvents
  PROVE  MemoryAfter(m, e) \in Memory
<1>1. PICK turn \in Turns, at \in Instants : e = SessionSet("running", turn, at)
  BY DEF RunningEvents
<1>2. MemoryAfter(m, e) = MemorySet(m, e)
  BY <1>1 DEF MemoryAfter, SessionSet
<1>3. turn # NoTurn
  BY RecordTypes
<1> DEFINE s == [m EXCEPT !.status = "running", !.active = turn, !.at = at]
           r == [s EXCEPT !.latest = turn, !.state = "running", !.done = NoTime]
<1>4. s \in Memory
  BY MemorySessionTyped DEF Instants, SessionStatuses
<1>5. r \in Memory
  <2> HIDE DEF s
  <2> QED BY <1>4, MemoryTurnTyped DEF TurnStates, NoTime
<1>6. MemorySet(m, e) \in {m, r}
  BY <1>1, <1>3 DEF MemorySet, SessionSet
<1> QED BY <1>2, <1>5, <1>6

LEMMA MemoryClosingTyped ==
  ASSUME NEW m \in Memory, NEW e \in ClosingEvents
  PROVE  MemoryAfter(m, e) \in Memory
<1>1. PICK status \in Closing, at \in Instants : e = SessionSet(status, NoTurn, at)
  BY DEF ClosingEvents
<1>2. MemoryAfter(m, e) = MemorySet(m, e)
  BY <1>1 DEF MemoryAfter, SessionSet
<1>3. ~StaleForMemory(m, e)
  BY <1>1 DEF StaleForMemory, SessionSet, NoTurn
<1> DEFINE existing == MemoryActive(m)
           s == [m EXCEPT !.status = status, !.active = NoTurn, !.at = at]
           state == IF m.state \in {"error", "interrupted"} THEN m.state
                    ELSE ClosedState(status)
           done == IF m.latest = existing /\ m.done # NoTime THEN m.done ELSE at
           c == [s EXCEPT !.latest = existing, !.state = state, !.done = done]
<1>4. s \in Memory /\ s.state = m.state /\ s.done = m.done
  <2>1. s \in Memory
    BY MemorySessionTyped DEF Instants, SessionStatuses, Closing
  <2> QED BY <2>1 DEF Memory
<1>5. state \in TurnStates /\ done \in Nat
  BY DEF Memory, Instants, TurnStates, ClosedState
<1>6. c \in Memory
  <2> HIDE DEF s, state, done, existing
  <2> QED BY <1>4, <1>5, MemoryActiveTyped, MemoryTurnTyped DEF existing
<1>7. status # "running" /\ status # "starting"
  BY DEF Closing
<1>8. MemorySet(m, e) \in {s, c}
  BY <1>1, <1>3, <1>4, <1>7 DEF MemorySet, SessionSet
<1> QED BY <1>2, <1>4, <1>6, <1>8

LEMMA MemoryDiffTyped ==
  ASSUME NEW m \in Memory, NEW e \in DiffEvents
  PROVE  MemoryAfter(m, e) \in Memory
<1>1. PICK turn \in Turns, number \in Nat, status \in TakenStatuses, at \in Instants :
        e = DiffCompleted(turn, number, status, at)
  BY DEF DiffEvents
<1>2. MemoryAfter(m, e) = MemoryDiff(m, e)
  BY <1>1 DEF MemoryAfter, DiffCompleted
<1> DEFINE c == [m EXCEPT !.checkpoint[turn] = status, !.number[turn] = number]
<1>3. c \in Memory
  BY DEF Memory, CheckpointStatuses, TakenStatuses
<1>4. [c EXCEPT !.latest = turn,
                !.state = IF status = "error" THEN "error" ELSE "completed",
                !.done = at] \in Memory
  <2> HIDE DEF c
  <2> QED BY <1>3 DEF Memory, TurnStates, Instants
<1> QED BY <1>1, <1>2, <1>3, <1>4 DEF MemoryDiff, DiffCompleted

LEMMA MemoryTyped ==
  ASSUME NEW m \in Memory, NEW e \in DomainEvents
  PROVE  MemoryAfter(m, e) \in Memory
BY MemoryStartTyped, MemoryInterruptTyped, MemoryRunningTyped, MemoryClosingTyped,
   MemoryDiffTyped DEF DomainEvents

\* The tables differ from others only in their session ...
SameRows(n, d) ==
  /\ n.latest = d.latest /\ n.state = d.state /\ n.asked = d.asked
  /\ n.done = d.done /\ n.checkpoint = d.checkpoint /\ n.number = d.number
  /\ n.pending = d.pending

\* ... or only in a turn's row.
SameSession(n, d) ==
  /\ n.status = d.status /\ n.active = d.active /\ n.at = d.at
  /\ n.latest = d.latest /\ n.checkpoint = d.checkpoint /\ n.number = d.number
  /\ n.pending = d.pending

LEMMA SetSessionEffect ==
  ASSUME NEW d \in Tables, NEW status \in SessionStatuses,
         NEW turn \in Turns \cup {NoTurn}, NEW at \in Nat
  PROVE  /\ SetSession(d, status, turn, at) \in Tables
         /\ SetSession(d, status, turn, at).status = status
         /\ SetSession(d, status, turn, at).active = turn
         /\ SetSession(d, status, turn, at).at = Later(d.at, at)
         /\ SameRows(SetSession(d, status, turn, at), d)
BY DEF Tables, SetSession, Later, SameRows

LEMMA EndedEffect ==
  ASSUME NEW d \in Tables, NEW turn \in Turns, NEW state \in TurnStates, NEW at \in Nat
  PROVE  /\ Ended(d, turn, state, at) \in Tables
         /\ SameSession(Ended(d, turn, state, at), d)
         /\ \A u \in Turns : Ended(d, turn, state, at).state[u] =
              IF u = turn THEN state ELSE d.state[u]
         /\ \A u \in Turns : Ended(d, turn, state, at).asked[u] =
              IF u = turn /\ d.state[turn] = "none" THEN at ELSE d.asked[u]
BY DEF Tables, Ended, NoTime, SameSession

LEMMA PointedEffect ==
  ASSUME NEW d \in Tables, NEW turn \in Turns, NEW at \in Nat
  PROVE  /\ Pointed(d, turn, at) \in Tables
         /\ Pointed(d, turn, at).status = d.status
         /\ Pointed(d, turn, at).active = d.active
         /\ Pointed(d, turn, at).at = d.at
         /\ Pointed(d, turn, at).latest =
              IF Promotes(d, d.latest, turn, at) THEN turn ELSE d.latest
         /\ Pointed(d, turn, at).state = d.state
         /\ Pointed(d, turn, at).asked = d.asked
         /\ Pointed(d, turn, at).done = d.done
         /\ Pointed(d, turn, at).checkpoint = d.checkpoint
         /\ Pointed(d, turn, at).number = d.number
         /\ Pointed(d, turn, at).pending = d.pending
<1>1. CASE Promotes(d, d.latest, turn, at)
  BY <1>1 DEF Tables, Pointed
<1>2. CASE ~Promotes(d, d.latest, turn, at)
  BY <1>2 DEF Tables, Pointed
<1> QED BY <1>1, <1>2

LEMMA TerminalStatusTyped ==
  ASSUME NEW state \in Terminal
  PROVE  TerminalStatus(state) \in Closing
BY DEF Terminal, TerminalStatus, Closing

LEMMA ClosingStatuses ==
  /\ Closing \subseteq SessionStatuses
  /\ "starting" \notin Closing /\ "running" \notin Closing
  /\ Terminal \subseteq TurnStates /\ "none" \notin Terminal /\ "running" \notin Terminal
BY DEF Closing, SessionStatuses, Terminal, TurnStates

LEMMA ClosedStateTyped ==
  ASSUME NEW status \in Closing
  PROVE  ClosedState(status) \in Terminal
BY DEF Closing, ClosedState, Terminal

LEMMA RowTyped ==
  ASSUME NEW d \in Tables, NEW t \in Turns \cup {NoTurn}
  PROVE  /\ Row(d, t) \in TurnStates
         /\ t \in Turns => t # NoTurn /\ Row(d, t) = d.state[t]
         /\ Row(d, t) # "none" => t \in Turns
BY RecordTypes DEF Tables, Row, TurnStates

\* The rows that are over stay over.
OverKept(n, d) ==
  \A t \in Turns : d.state[t] \in Terminal => n.state[t] \in Terminal

\* A running session of turn t is refused: the turn, or a later one, is over.
Refused(d, t, at) ==
  \/ Row(d, t) \in Terminal
  \/ Row(d, d.latest) \in Terminal /\ ~Promotes(d, d.latest, t, at)

SessionTaken(n, d, t, at) ==
  /\ Refused(d, t, at) => n.active = NoTurn /\ n.status \in Closing
  /\ ~Refused(d, t, at) => n.active = t /\ n.status = "running"

\* The other rows stay, but for one that ran and was retired.
OthersKept(n, d, t) ==
  \A u \in Turns : u # t =>
    /\ n.asked[u] = d.asked[u]
    /\ n.state[u] = d.state[u] \/ (d.state[u] = "running" /\ n.state[u] = "interrupted")

SessionRetired(d, e) ==
  IF d.active \notin {NoTurn, e.turn} /\ Row(d, d.active) = "running"
       /\ Promotes(d, d.active, e.turn, e.at)
  THEN Ended(d, d.active, "interrupted", e.at) ELSE d

LEMMA SessionRetiredEffect ==
  ASSUME NEW d \in Tables, NEW t \in Turns, NEW at \in Instants,
         NEW e, e.turn = t, e.at = at,
         NEW s, s = SessionRetired(d, e)
  PROVE  /\ s \in Tables /\ SameSession(s, d) /\ OthersKept(s, d, t)
         /\ s.state[t] = d.state[t] /\ s.asked[t] = d.asked[t]
<1>1. e.turn = t /\ e.at = at /\ at \in Nat
  BY DEF Instants
<1>2. CASE d.active \notin {NoTurn, t} /\ Row(d, d.active) = "running"
             /\ Promotes(d, d.active, t, at)
  <2>1. d.active \in Turns /\ d.active # t /\ d.state[d.active] = "running"
    BY <1>2, RowTyped DEF Tables
  <2>2. s = Ended(d, d.active, "interrupted", at)
    BY <1>1, <1>2 DEF SessionRetired
  <2>3. "interrupted" \in TurnStates
    BY DEF TurnStates
  <2>4. /\ s \in Tables /\ SameSession(s, d)
        /\ \A u \in Turns : s.state[u] =
             IF u = d.active THEN "interrupted" ELSE d.state[u]
        /\ \A u \in Turns : s.asked[u] =
             IF u = d.active /\ d.state[d.active] = "none" THEN at ELSE d.asked[u]
    BY <1>1, <2>1, <2>2, <2>3, EndedEffect
  <2> QED BY <2>1, <2>4 DEF OthersKept
<1>3. CASE ~(d.active \notin {NoTurn, t} /\ Row(d, d.active) = "running"
              /\ Promotes(d, d.active, t, at))
  <2>1. s = d
    BY <1>1, <1>3 DEF SessionRetired
  <2> QED BY <2>1 DEF OthersKept, SameSession
<1> QED BY <1>2, <1>3

LEMMA SessionWhileRunningEffect ==
  ASSUME NEW d \in Tables, NEW t \in Turns, NEW at \in Instants,
         NEW w, w = SessionWhileRunning(d, SessionSet("running", t, at))
  PROVE  /\ w \in Tables /\ SessionTaken(w, d, t, at) /\ OthersKept(w, d, t)
         /\ w.state[t] = d.state[t] /\ w.asked[t] = d.asked[t]
         /\ w.latest = d.latest /\ w.pending = d.pending
         /\ w.checkpoint = d.checkpoint /\ w.number = d.number
<1> DEFINE e == SessionSet("running", t, at)
<1>1. e.turn = t /\ e.at = at /\ at \in Nat /\ ~e.recovers
  BY DEF SessionSet, Instants
<1>2. CASE Row(d, t) \in Terminal
  <2>1. d.state[t] \in Terminal /\ Later(at, d.done[t]) \in Nat
    BY <1>2, RowTyped, <1>1 DEF Tables, Later
  <2>2. TerminalStatus(d.state[t]) \in Closing
    BY <2>1, TerminalStatusTyped
  <2>3. w = SetSession(d, TerminalStatus(d.state[t]), NoTurn, Later(at, d.done[t]))
    BY <1>1, <1>2 DEF SessionWhileRunning
  <2>4. /\ w \in Tables /\ w.active = NoTurn /\ w.status = TerminalStatus(d.state[t])
        /\ SameRows(w, d)
    <3>1. TerminalStatus(d.state[t]) \in SessionStatuses
      BY <2>2, ClosingStatuses
    <3>2. NoTurn \in Turns \cup {NoTurn}
      OBVIOUS
    <3> HIDE DEF e
    <3> QED BY <2>1, <2>3, <3>1, <3>2, SetSessionEffect
  <2> QED BY <1>2, <2>2, <2>4 DEF SessionTaken, Refused, OthersKept, SameRows
<1>3. CASE Row(d, t) \notin Terminal /\ Row(d, d.latest) \in Terminal
             /\ ~Promotes(d, d.latest, t, at)
  <2>1. d.latest \in Turns /\ d.state[d.latest] \in Terminal
    BY <1>3, RowTyped, ClosingStatuses DEF Tables
  <2>2. Later(at, d.done[d.latest]) \in Nat
    BY <1>1, <2>1 DEF Tables, Later
  <2>3. TerminalStatus(d.state[d.latest]) \in Closing
    BY <2>1, TerminalStatusTyped
  <2>4. w = SetSession(d, TerminalStatus(d.state[d.latest]), NoTurn,
                       Later(at, d.done[d.latest]))
    BY <1>1, <1>3 DEF SessionWhileRunning
  <2>5. /\ w \in Tables /\ w.active = NoTurn
        /\ w.status = TerminalStatus(d.state[d.latest]) /\ SameRows(w, d)
    <3>1. TerminalStatus(d.state[d.latest]) \in SessionStatuses
      BY <2>3, ClosingStatuses
    <3>2. NoTurn \in Turns \cup {NoTurn}
      OBVIOUS
    <3> DEFINE over == TerminalStatus(d.state[d.latest])
               when == Later(at, d.done[d.latest])
    <3>3. over \in SessionStatuses /\ when \in Nat /\ w = SetSession(d, over, NoTurn, when)
      BY <2>2, <2>4, <3>1
    <3> HIDE DEF e, over, when
    <3>4. w \in Tables /\ w.active = NoTurn /\ w.status = over /\ SameRows(w, d)
      BY <3>2, <3>3, SetSessionEffect
    <3> QED BY <3>4 DEF over
  <2> QED BY <1>3, <2>3, <2>5 DEF SessionTaken, Refused, OthersKept, SameRows
<1>4. CASE ~Refused(d, t, at)
  <2>1. w = SetSession(SessionRetired(d, e), "running", t, at)
    BY <1>1, <1>4 DEF SessionWhileRunning, SessionRetired, Refused
  <2> DEFINE s == SessionRetired(d, e)
  <2>2. /\ s \in Tables /\ SameSession(s, d) /\ OthersKept(s, d, t)
        /\ s.state[t] = d.state[t] /\ s.asked[t] = d.asked[t]
    BY <1>1, SessionRetiredEffect
  <2> HIDE DEF s
  <2>3. /\ w \in Tables /\ w.active = t /\ w.status = "running" /\ SameRows(w, s)
    <3> HIDE DEF e
    <3>1. "running" \in SessionStatuses /\ t \in Turns \cup {NoTurn}
      BY DEF SessionStatuses
    <3>2. w = SetSession(s, "running", t, at)
      BY <2>1 DEF s
    <3> QED BY <1>1, <2>2, <3>1, <3>2, SetSessionEffect
  <2> HIDE DEF e
  <2> QED BY <1>4, <2>2, <2>3 DEF SessionTaken, OthersKept, SameRows, SameSession
<1> QED BY <1>2, <1>3, <1>4 DEF Refused

\* What a running session of turn t makes of the rows.
RowTaken(n, d, t, at) ==
  /\ OthersKept(n, d, t)
  /\ n.state[t] = IF d.state[t] \in Terminal THEN d.state[t] ELSE "running"
  /\ n.asked[t] = IF d.state[t] # "none" THEN d.asked[t]
                  ELSE IF d.pending # NoTime THEN d.pending ELSE at
  /\ n.pending = IF d.state[t] \in Terminal THEN d.pending ELSE NoTime
  /\ n.checkpoint = d.checkpoint /\ n.number = d.number

LatestTaken(n, d, t) ==
  n.latest = IF \/ Row(d, d.latest) = "none"
                \/ d.latest = t
                \/ n.asked[d.latest] <= n.asked[t] THEN t ELSE d.latest

\* The row of turn t runs again; the time it was asked for stays.
LEMMA RowReopened ==
  ASSUME NEW w \in Tables, NEW t \in Turns, NEW at \in Instants,
         NEW e, e.turn = t, e.at = at, NEW r, r = RowWhileRunning_Reopens(w, e)
  PROVE  /\ r \in Tables /\ r.latest = w.latest
         /\ r.status = w.status /\ r.active = w.active
         /\ \A u \in Turns : u # t => r.state[u] = w.state[u] /\ r.asked[u] = w.asked[u]
         /\ r.state[t] = "running"
         /\ r.asked[t] = IF w.state[t] # "none" THEN w.asked[t]
                         ELSE IF w.pending # NoTime THEN w.pending ELSE at
         /\ r.pending = NoTime
         /\ r.checkpoint = w.checkpoint /\ r.number = w.number
<1>1. /\ w.state \in [Turns -> TurnStates] /\ w.asked \in [Turns -> Nat]
      /\ w.done \in [Turns -> Nat] /\ w.pending \in Nat /\ at \in Nat
  BY DEF Tables, Instants
<1>2. "running" \in TurnStates /\ NoTime \in Nat
  BY DEF TurnStates, NoTime
<1> DEFINE ask == IF w.state[t] # "none" THEN w.asked[t]
                  ELSE IF w.pending # NoTime THEN w.pending ELSE at
<1>3. ask \in Nat
  BY <1>1
<1>4. r = [w EXCEPT !.state[t] = "running", !.asked[t] = ask,
                    !.done[t] = NoTime, !.pending = NoTime]
  BY DEF RowWhileRunning_Reopens, Tables
<1> HIDE DEF ask
<1>5. r \in Tables
  <2>1. /\ [w.state EXCEPT ![t] = "running"] \in [Turns -> TurnStates]
        /\ [w.asked EXCEPT ![t] = ask] \in [Turns -> Nat]
        /\ [w.done EXCEPT ![t] = NoTime] \in [Turns -> Nat]
    BY <1>1, <1>2, <1>3
  <2>2. r = [w EXCEPT !.state = [w.state EXCEPT ![t] = "running"],
                      !.asked = [w.asked EXCEPT ![t] = ask],
                      !.done = [w.done EXCEPT ![t] = NoTime], !.pending = NoTime]
    BY <1>4 DEF Tables
  <2> QED BY <1>2, <2>1, <2>2 DEF Tables
<1>6. /\ r.latest = w.latest /\ r.status = w.status /\ r.active = w.active
      /\ \A u \in Turns : u # t => r.state[u] = w.state[u] /\ r.asked[u] = w.asked[u]
      /\ r.state[t] = "running" /\ r.asked[t] = ask
      /\ r.pending = NoTime
      /\ r.checkpoint = w.checkpoint /\ r.number = w.number
  BY <1>1, <1>4 DEF Tables
<1> QED BY <1>5, <1>6 DEF ask

LEMMA RunningOnTables ==
  ASSUME NEW d \in Tables, NEW t \in Turns, NEW at \in Instants,
         NEW n, n = TablesAfter(d, SessionSet("running", t, at))
  PROVE  /\ n \in Tables /\ SessionTaken(n, d, t, at)
         /\ RowTaken(n, d, t, at) /\ LatestTaken(n, d, t)
<1> DEFINE e == SessionSet("running", t, at)
           w == SessionWhileRunning(d, e)
           r == RowWhileRunning(w, e)
<1>1. /\ e.turn = t /\ e.at = at /\ at \in Nat /\ e.status = "running" /\ t # NoTurn
      /\ ~e.recovers
  BY RecordTypes DEF SessionSet, Instants
<1>2. n = Pointed(r, t, at)
  BY <1>1 DEF TablesAfter, TablesSet, SessionSet
<1>3. /\ w \in Tables /\ SessionTaken(w, d, t, at) /\ OthersKept(w, d, t)
      /\ w.state[t] = d.state[t] /\ w.asked[t] = d.asked[t]
      /\ w.latest = d.latest /\ w.pending = d.pending
      /\ w.checkpoint = d.checkpoint /\ w.number = d.number
  BY SessionWhileRunningEffect
<1>4. /\ r \in Tables /\ r.latest = d.latest
      /\ r.status = w.status /\ r.active = w.active /\ RowTaken(r, d, t, at)
  <2> HIDE DEF w, e
  <2>1. Row(w, t) = d.state[t]
    BY <1>3, RowTyped
  <2>2. CASE d.state[t] \in Terminal
    <3>1. r = w
      BY <1>1, <2>1, <2>2 DEF RowWhileRunning
    <3> HIDE DEF r
    <3> QED BY <1>3, <2>2, <3>1, ClosingStatuses DEF RowTaken
  <2>3. CASE d.state[t] \notin Terminal
    <3>1. r = RowWhileRunning_Reopens(w, e)
      BY <1>1, <2>1, <2>3 DEF RowWhileRunning
    <3>2. /\ r \in Tables /\ r.latest = w.latest
          /\ r.status = w.status /\ r.active = w.active
          /\ \A u \in Turns : u # t => r.state[u] = w.state[u] /\ r.asked[u] = w.asked[u]
          /\ r.state[t] = "running"
          /\ r.asked[t] = IF w.state[t] # "none" THEN w.asked[t]
                          ELSE IF w.pending # NoTime THEN w.pending ELSE at
          /\ r.pending = NoTime
          /\ r.checkpoint = w.checkpoint /\ r.number = w.number
      BY <1>1, <1>3, <3>1, RowReopened
    <3> HIDE DEF r
    <3> QED BY <1>3, <2>3, <3>2 DEF RowTaken, OthersKept
  <2> QED BY <2>2, <2>3
<1>5. /\ n \in Tables /\ n.status = r.status /\ n.active = r.active
      /\ n.latest = IF Promotes(r, r.latest, t, at) THEN t ELSE r.latest
      /\ n.state = r.state /\ n.asked = r.asked /\ n.pending = r.pending
      /\ n.checkpoint = r.checkpoint /\ n.number = r.number
  <2> HIDE DEF r
  <2> QED BY <1>1, <1>2, <1>4, PointedEffect
<1> HIDE DEF r, w, e
<1>6. SessionTaken(n, d, t, at) /\ RowTaken(n, d, t, at)
  BY <1>3, <1>4, <1>5 DEF SessionTaken, RowTaken, OthersKept
<1>7. Row(r, t) # "none" /\ Row(r, t) = r.state[t]
  BY <1>4, RowTyped, ClosingStatuses DEF RowTaken
<1>8. d.latest # t => (Row(r, d.latest) = "none" <=> Row(d, d.latest) = "none")
  BY <1>4 DEF RowTaken, OthersKept, Row, Tables
<1>9. LatestTaken(n, d, t)
  BY <1>4, <1>5, <1>7, <1>8 DEF LatestTaken, Promotes
<1> QED BY <1>5, <1>6, <1>9

\* A session that recovers turn t is never refused: the turn's row runs again, and
\* no other row does.
LEMMA RecoveryOnTables ==
  ASSUME NEW d \in Tables, NEW t \in Turns, NEW at \in Instants,
         NEW n, n = TablesAfter(d, Recovery(t, at))
  PROVE  /\ n \in Tables /\ n.active = t /\ n.status = "running"
         /\ OthersKept(n, d, t) /\ n.state[t] = "running"
         /\ n.asked[t] = IF d.state[t] # "none" THEN d.asked[t]
                         ELSE IF d.pending # NoTime THEN d.pending ELSE at
         /\ n.checkpoint = d.checkpoint /\ n.number = d.number
         /\ LatestTaken(n, d, t)
<1> DEFINE e == Recovery(t, at)
           s == SessionRetired(d, e)
           w == SetSession(s, "running", t, at)
           r == RowWhileRunning_Reopens(w, e)
<1>1. /\ e.turn = t /\ e.at = at /\ at \in Nat /\ e.status = "running" /\ t # NoTurn
      /\ e.recovers /\ e.type = "session-set"
  BY RecordTypes DEF Recovery, SessionSet, Instants
<1>2. n = Pointed(r, t, at)
  <2>1. SessionWhileRunning(d, e) = w
    BY <1>1 DEF SessionWhileRunning, SessionRetired
  <2>2. RowWhileRunning(w, e) = r
    BY <1>1 DEF RowWhileRunning
  <2> HIDE DEF w, r, e
  <2>3. n = Pointed(RowWhileRunning(SessionWhileRunning(d, e), e), t, at)
    BY <1>1 DEF TablesAfter, TablesSet, e
  <2> QED BY <2>1, <2>2, <2>3
<1> HIDE DEF e
<1>3. /\ s \in Tables /\ SameSession(s, d) /\ OthersKept(s, d, t)
      /\ s.state[t] = d.state[t] /\ s.asked[t] = d.asked[t]
  BY <1>1, SessionRetiredEffect
<1> HIDE DEF s
<1>4. /\ w \in Tables /\ w.active = t /\ w.status = "running" /\ SameRows(w, s)
  <2>1. "running" \in SessionStatuses /\ t \in Turns \cup {NoTurn}
    BY DEF SessionStatuses
  <2> QED BY <1>1, <1>3, <2>1, SetSessionEffect
<1> HIDE DEF w
<1>5. /\ r \in Tables /\ r.latest = w.latest
      /\ r.status = w.status /\ r.active = w.active
      /\ \A u \in Turns : u # t => r.state[u] = w.state[u] /\ r.asked[u] = w.asked[u]
      /\ r.state[t] = "running"
      /\ r.asked[t] = IF w.state[t] # "none" THEN w.asked[t]
                      ELSE IF w.pending # NoTime THEN w.pending ELSE at
      /\ r.checkpoint = w.checkpoint /\ r.number = w.number
  BY <1>1, <1>4, RowReopened
<1> HIDE DEF r
<1>6. /\ n \in Tables /\ n.status = r.status /\ n.active = r.active
      /\ n.latest = IF Promotes(r, r.latest, t, at) THEN t ELSE r.latest
      /\ n.state = r.state /\ n.asked = r.asked
      /\ n.checkpoint = r.checkpoint /\ n.number = r.number
  BY <1>1, <1>2, <1>5, PointedEffect
<1>7. /\ OthersKept(r, d, t) /\ r.latest = d.latest
      /\ r.asked[t] = IF d.state[t] # "none" THEN d.asked[t]
                      ELSE IF d.pending # NoTime THEN d.pending ELSE at
      /\ r.checkpoint = d.checkpoint /\ r.number = d.number
  BY <1>3, <1>4, <1>5 DEF OthersKept, SameRows, SameSession
<1>8. Row(r, t) = "running"
  BY <1>5, RowTyped
<1>9. d.latest # t => (Row(r, d.latest) = "none" <=> Row(d, d.latest) = "none")
  BY <1>7 DEF OthersKept, Row, Tables
<1>10. LatestTaken(n, d, t)
  BY <1>6, <1>7, <1>8, <1>9 DEF LatestTaken, Promotes
<1> QED BY <1>4, <1>5, <1>6, <1>7, <1>10 DEF OthersKept

\* The start of a turn: the rows stay, the start is pending.
LEMMA StartOnTables ==
  ASSUME NEW d \in Tables, NEW at \in Instants,
         NEW n, n = TablesAfter(d, StartRequested(at))
  PROVE  /\ n \in Tables /\ n.status = "starting" /\ n.active = NoTurn
         /\ n.latest = d.latest /\ n.state = d.state /\ n.asked = d.asked
         /\ n.checkpoint = d.checkpoint /\ n.number = d.number
         /\ n.pending = at
<1> DEFINE s == SetSession(d, "starting", NoTurn, at)
<1>1. n = [s EXCEPT !.pending = at]
  BY DEF TablesAfter, StartRequested, TablesStart
<1>2. /\ s \in Tables /\ SameRows(s, d) /\ s.status = "starting" /\ s.active = NoTurn
  BY SetSessionEffect DEF SessionStatuses, Instants
<1> HIDE DEF s
<1>3. /\ n \in Tables /\ n.pending = at /\ n.status = s.status /\ n.active = s.active
      /\ n.latest = s.latest /\ n.state = s.state /\ n.asked = s.asked
      /\ n.checkpoint = s.checkpoint /\ n.number = s.number
  BY <1>1, <1>2 DEF Tables, Instants
<1> QED BY <1>2, <1>3 DEF SameRows

\* The interrupt of a turn closes the session, unless that runs another turn.
InterruptCloses(d, turn) ==
  LET t == IF turn # NoTurn THEN turn ELSE d.active
  IN /\ t # NoTurn
     /\ d.active # NoTurn \/ d.status \in {"starting", "running"}
     /\ d.active \in {NoTurn, t}

LEMMA InterruptOnTables ==
  ASSUME NEW d \in Tables, NEW turn \in Turns \cup {NoTurn}, NEW at \in Instants,
         NEW n, n = TablesAfter(d, InterruptRequested(turn, at))
  PROVE  /\ n \in Tables
         /\ n.status = IF InterruptCloses(d, turn) THEN "interrupted" ELSE d.status
         /\ n.active = IF InterruptCloses(d, turn) THEN NoTurn ELSE d.active
         /\ n.latest = d.latest /\ n.pending = d.pending
         /\ n.checkpoint = d.checkpoint /\ n.number = d.number
         /\ \A u \in Turns :
              n.state[u] = IF u = turn THEN "interrupted" ELSE d.state[u]
         /\ \A u \in Turns :
              n.asked[u] = IF u = turn /\ d.state[u] = "none" THEN at ELSE d.asked[u]
<1> DEFINE e == InterruptRequested(turn, at)
           c == SetSession(d, "interrupted", NoTurn, at)
           s == IF InterruptCloses(d, turn) THEN c ELSE d
<1>1. /\ c \in Tables /\ SameRows(c, d) /\ c.status = "interrupted" /\ c.active = NoTurn
  <2>1. "interrupted" \in SessionStatuses /\ NoTurn \in Turns \cup {NoTurn} /\ at \in Nat
    BY DEF SessionStatuses, Instants
  <2> QED BY <2>1, SetSessionEffect
<1>2. /\ s \in Tables /\ SameRows(s, d)
      /\ s.status = IF InterruptCloses(d, turn) THEN "interrupted" ELSE d.status
      /\ s.active = IF InterruptCloses(d, turn) THEN NoTurn ELSE d.active
  <2> HIDE DEF c
  <2> QED BY <1>1 DEF SameRows
<1>3. n = IF turn = NoTurn THEN s ELSE Ended(s, turn, "interrupted", at)
  BY DEF TablesAfter, InterruptRequested, TablesInterrupt, InterruptCloses
<1> HIDE DEF c, s, e
<1>4. CASE turn = NoTurn
  BY <1>2, <1>3, <1>4, RecordTypes DEF SameRows
<1>5. CASE turn # NoTurn
  <2>1. turn \in Turns /\ "interrupted" \in TurnStates /\ at \in Nat
    BY <1>5 DEF TurnStates, Instants
  <2>2. n = Ended(s, turn, "interrupted", at)
    BY <1>3, <1>5
  <2>3. /\ n \in Tables /\ SameSession(n, s)
        /\ \A u \in Turns : n.state[u] = IF u = turn THEN "interrupted" ELSE s.state[u]
        /\ \A u \in Turns : n.asked[u] =
             IF u = turn /\ s.state[turn] = "none" THEN at ELSE s.asked[u]
    BY <1>2, <2>1, <2>2, EndedEffect
  <2>4. \A u \in Turns : n.asked[u] =
          IF u = turn /\ d.state[u] = "none" THEN at ELSE d.asked[u]
    BY <1>2, <2>3 DEF SameRows
  <2>5. \A u \in Turns : n.state[u] = IF u = turn THEN "interrupted" ELSE d.state[u]
    BY <1>2, <2>3 DEF SameRows
  <2> QED BY <1>2, <2>3, <2>4, <2>5 DEF SameRows, SameSession
<1> QED BY <1>4, <1>5

\* What an interrupt does to one row.
LEMMA InterruptOnRow ==
  ASSUME NEW d \in Tables, NEW turn \in Turns \cup {NoTurn}, NEW at \in Instants,
         NEW u \in Turns
  PROVE  /\ TablesAfter(d, InterruptRequested(turn, at)).state[u] =
              IF u = turn THEN "interrupted" ELSE d.state[u]
         /\ TablesAfter(d, InterruptRequested(turn, at)).asked[u] =
              IF u = turn /\ d.state[u] = "none" THEN at ELSE d.asked[u]
<1>1. TablesAfter(d, InterruptRequested(turn, at)).state[u] =
        IF u = turn THEN "interrupted" ELSE d.state[u]
  BY InterruptOnTables
<1>2. TablesAfter(d, InterruptRequested(turn, at)).asked[u] =
        IF u = turn /\ d.state[u] = "none" THEN at ELSE d.asked[u]
  BY InterruptOnTables
<1> QED BY <1>1, <1>2

\* A session without a turn closes the turn that the session had.
LEMMA ClosingOnTables ==
  ASSUME NEW d \in Tables, NEW status \in Closing, NEW at \in Instants,
         NEW n, n = TablesAfter(d, SessionSet(status, NoTurn, at))
  PROVE  /\ n \in Tables /\ n.status = status /\ n.active = NoTurn
         /\ n.latest = d.latest /\ n.pending = NoTime
         /\ n.checkpoint = d.checkpoint /\ n.number = d.number
         /\ \A u \in Turns : n.state[u] =
              IF u # d.active \/ d.state[u] \in {"error", "interrupted"}
              THEN d.state[u] ELSE ClosedState(status)
         /\ \A u \in Turns : n.asked[u] =
              IF u = d.active /\ d.state[u] = "none" THEN at ELSE d.asked[u]
<1> DEFINE e == SessionSet(status, NoTurn, at)
           closed == IF Row(d, d.active) \in {"error", "interrupted"}
                     THEN d.state[d.active] ELSE ClosedState(status)
           c == IF d.active # NoTurn THEN Ended(d, d.active, closed, at) ELSE d
           s == SetSession(c, status, NoTurn, at)
<1>1. e.turn = NoTurn /\ e.at = at /\ e.status = status /\ e.type = "session-set"
  BY DEF SessionSet
<1>2. status # "running" /\ status # "starting" /\ at \in Nat /\ NoTime \in Nat
  BY ClosingStatuses DEF Instants, NoTime
<1>3. n = [s EXCEPT !.pending = NoTime]
  <2> HIDE DEF e
  <2>1. TablesAfter(d, e) = TablesSet(d, e)
    BY <1>1 DEF TablesAfter
  <2>2. TablesSet(d, e) = SessionWithoutTurn(d, e)
    BY <1>1, <1>2 DEF TablesSet
  <2>3. SessionWithoutTurn(d, e) = [s EXCEPT !.pending = NoTime]
    BY <1>1 DEF SessionWithoutTurn
  <2> QED BY <2>1, <2>2, <2>3 DEF e
<1>4. /\ c \in Tables /\ SameSession(c, d)
      /\ \A u \in Turns : c.state[u] =
           IF u # d.active \/ d.state[u] \in {"error", "interrupted"}
           THEN d.state[u] ELSE ClosedState(status)
      /\ \A u \in Turns : c.asked[u] =
           IF u = d.active /\ d.state[u] = "none" THEN at ELSE d.asked[u]
  <2>1. CASE d.active = NoTurn
    <3>1. c = d
      BY <2>1
    <3>2. \A u \in Turns : u # d.active
      BY <2>1, RecordTypes
    <3> HIDE DEF c
    <3> QED BY <3>1, <3>2 DEF SameSession
  <2>2. CASE d.active # NoTurn
    <3>1. c = Ended(d, d.active, closed, at) /\ d.active \in Turns
      BY <2>2 DEF Tables
    <3>2. closed = IF d.state[d.active] \in {"error", "interrupted"}
                   THEN d.state[d.active] ELSE ClosedState(status)
      BY <3>1, RowTyped
    <3>3. closed \in TurnStates
      BY <3>1, <3>2, ClosedStateTyped, ClosingStatuses DEF Tables
    <3> HIDE DEF c, closed
    <3>4. /\ c \in Tables /\ SameSession(c, d)
          /\ \A u \in Turns : c.state[u] = IF u = d.active THEN closed ELSE d.state[u]
          /\ \A u \in Turns : c.asked[u] =
               IF u = d.active /\ d.state[d.active] = "none" THEN at ELSE d.asked[u]
      BY <1>2, <3>1, <3>3, EndedEffect
    <3> QED BY <3>2, <3>4
  <2> QED BY <2>1, <2>2
<1> HIDE DEF c
<1>5. /\ s \in Tables /\ SameRows(s, c) /\ s.status = status /\ s.active = NoTurn
  <2>1. status \in SessionStatuses /\ NoTurn \in Turns \cup {NoTurn}
    BY ClosingStatuses
  <2> QED BY <1>2, <1>4, <2>1, SetSessionEffect
<1> HIDE DEF s, e
<1>6. /\ n \in Tables /\ n.pending = NoTime /\ n.status = s.status /\ n.active = s.active
      /\ n.latest = s.latest /\ n.state = s.state /\ n.asked = s.asked
      /\ n.checkpoint = s.checkpoint /\ n.number = s.number
  BY <1>2, <1>3, <1>5 DEF Tables
<1> QED BY <1>4, <1>5, <1>6 DEF SameRows, SameSession

\* What a checkpoint makes of its turn's row.
CheckpointState(d, turn, status, ends) ==
  IF ends THEN (IF status = "error" THEN "error" ELSE "completed")
  ELSE IF d.state[turn] = "none" THEN "running" ELSE d.state[turn]

LEMMA DiffOnTables ==
  ASSUME NEW d \in Tables, NEW turn \in Turns, NEW number \in Nat,
         NEW status \in TakenStatuses, NEW at \in Instants,
         NEW n, n = TablesAfter(d, DiffCompleted(turn, number, status, at))
  PROVE  /\ n \in Tables
         /\ \/ n.status = d.status /\ n.active = d.active
            \/ /\ status # "missing" /\ d.active = turn /\ n.active = NoTurn
               /\ n.status \in Closing
         /\ n.latest = IF status # "missing" /\ d.latest = NoTurn THEN turn
                       ELSE d.latest
         /\ n.pending = d.pending
         /\ \A u \in Turns : n.number[u] = IF u = turn THEN number
                                           ELSE IF d.number[u] = number THEN 0
                                           ELSE d.number[u]
         /\ \A u \in Turns : u # turn => n.state[u] = d.state[u]
         /\ \E ends \in BOOLEAN : /\ n.state[turn] = CheckpointState(d, turn, status, ends)
                                  /\ ends => status # "missing"
                                  /\ status # "missing" /\ d.state[turn] = "none" => ends
         /\ \A u \in Turns : n.asked[u] =
              IF u = turn /\ d.state[u] = "none" THEN at ELSE d.asked[u]
<1> DEFINE e == DiffCompleted(turn, number, status, at)
           real == status # "missing"
           over == IF status = "ready" THEN "ready" ELSE "error"
           s == IF real /\ d.active = turn /\ ~NewerEvidence(d, e)
                THEN SetSession(d, over, NoTurn, at) ELSE d
           new == Row(d, turn) = "none"
           ends == real /\ (new \/ ~NewerEvidence(s, e))
           w == WithoutConflict(s, e)
           r == [w EXCEPT !.checkpoint[turn] = status,
                          !.number[turn] = number,
                          !.asked[turn] = IF new THEN at ELSE @,
                          !.state[turn] = IF ends THEN (IF status = "error"
                                                        THEN "error" ELSE "completed")
                                          ELSE IF new THEN "running" ELSE @,
                          !.done[turn] = IF ends THEN Later(@, at) ELSE @]
<1>1. /\ e.turn = turn /\ e.number = number /\ e.status = status /\ e.at = at
      /\ e.type = "diff-completed" /\ at \in Nat
  BY DEF DiffCompleted, Instants
<1>2. n = IF real /\ d.latest = NoTurn THEN [r EXCEPT !.latest = turn] ELSE r
  <2> HIDE DEF e
  <2>1. TablesAfter(d, e) = TablesDiff(d, e)
    BY <1>1 DEF TablesAfter
  <2>2. TablesDiff(d, e) = IF real /\ d.latest = NoTurn THEN [r EXCEPT !.latest = turn] ELSE r
    BY <1>1 DEF TablesDiff
  <2> QED BY <2>1, <2>2 DEF e
<1>3. /\ s \in Tables /\ SameRows(s, d)
      /\ \/ s.status = d.status /\ s.active = d.active
         \/ real /\ d.active = turn /\ s.active = NoTurn /\ s.status \in Closing
  <2>1. CASE real /\ d.active = turn /\ ~NewerEvidence(d, e)
    <3>1. s = SetSession(d, over, NoTurn, at)
      BY <2>1
    <3>2. over \in Closing /\ over \in SessionStatuses /\ NoTurn \in Turns \cup {NoTurn}
      BY DEF Closing, SessionStatuses
    <3> HIDE DEF s, e, over
    <3>3. /\ s \in Tables /\ SameRows(s, d) /\ s.status = over /\ s.active = NoTurn
      <4>1. at \in Nat
        BY <1>1
      <4>2. /\ SetSession(d, over, NoTurn, at) \in Tables
            /\ SetSession(d, over, NoTurn, at).status = over
            /\ SetSession(d, over, NoTurn, at).active = NoTurn
            /\ SameRows(SetSession(d, over, NoTurn, at), d)
        BY <4>1, <3>2, SetSessionEffect
      <4> QED BY <3>1, <4>2
    <3> QED BY <2>1, <3>2, <3>3
  <2>2. CASE ~(real /\ d.active = turn /\ ~NewerEvidence(d, e))
    <3>1. s = d
      BY <2>2
    <3> QED BY <3>1 DEF SameRows
  <2> QED BY <2>1, <2>2
<1> HIDE DEF s, e
<1>4. /\ w \in Tables
      /\ w.status = s.status /\ w.active = s.active /\ w.latest = s.latest
      /\ w.pending = s.pending /\ w.state = s.state /\ w.asked = s.asked
      /\ \A u \in Turns : w.number[u] = IF u # turn /\ s.number[u] = number THEN 0
                                        ELSE s.number[u]
  BY <1>1, <1>3 DEF WithoutConflict, Tables, CheckpointStatuses
<1> DEFINE asked_ == IF new THEN at ELSE w.asked[turn]
           state_ == IF ends THEN (IF status = "error" THEN "error" ELSE "completed")
                     ELSE IF new THEN "running" ELSE w.state[turn]
           done_ == IF ends THEN Later(w.done[turn], at) ELSE w.done[turn]
<1>5. asked_ \in Nat /\ state_ \in TurnStates /\ done_ \in Nat
  BY <1>1, <1>4 DEF Tables, TurnStates, Later
<1>6. ends \in BOOLEAN /\ (ends => real) /\ (real /\ d.state[turn] = "none" => ends)
  BY RowTyped
<1>7. r = [w EXCEPT !.checkpoint[turn] = status, !.number[turn] = number,
                    !.asked[turn] = asked_, !.state[turn] = state_, !.done[turn] = done_]
  BY <1>4 DEF Tables
<1>8. state_ = CheckpointState(d, turn, status, ends)
  BY <1>3, <1>4, RowTyped DEF CheckpointState, SameRows
<1>9. asked_ = IF d.state[turn] = "none" THEN at ELSE d.asked[turn]
  BY <1>3, <1>4, RowTyped DEF SameRows
<1> HIDE DEF asked_, state_, done_, w, r, ends, new
<1>10. /\ r \in Tables
       /\ r.status = w.status /\ r.active = w.active /\ r.latest = w.latest
       /\ r.pending = w.pending
       /\ \A u \in Turns : r.number[u] = IF u = turn THEN number ELSE w.number[u]
       /\ \A u \in Turns : r.state[u] = IF u = turn THEN state_ ELSE w.state[u]
       /\ \A u \in Turns : r.asked[u] = IF u = turn THEN asked_ ELSE w.asked[u]
  <2>1. status \in CheckpointStatuses
    BY DEF TakenStatuses, CheckpointStatuses
  <2>2. /\ w.state \in [Turns -> TurnStates] /\ w.asked \in [Turns -> Nat]
        /\ w.number \in [Turns -> Nat]
    BY <1>4 DEF Tables
  <2>3. r \in Tables
    BY <1>4, <1>5, <1>7, <2>1 DEF Tables
  <2>4. /\ r.number = [w.number EXCEPT ![turn] = number]
        /\ r.state = [w.state EXCEPT ![turn] = state_]
        /\ r.asked = [w.asked EXCEPT ![turn] = asked_]
        /\ r.status = w.status /\ r.active = w.active /\ r.latest = w.latest
        /\ r.pending = w.pending
    BY <1>4, <1>7 DEF Tables
  <2> QED BY <2>2, <2>3, <2>4
<1>11. /\ n \in Tables /\ n.latest = IF real /\ d.latest = NoTurn THEN turn ELSE r.latest
       /\ n.status = r.status /\ n.active = r.active /\ n.pending = r.pending
       /\ n.number = r.number /\ n.state = r.state /\ n.asked = r.asked
  BY <1>2, <1>10 DEF Tables
<1>12. \A u \in Turns : n.number[u] = IF u = turn THEN number
                                      ELSE IF d.number[u] = number THEN 0 ELSE d.number[u]
  <2>1. s.number = d.number
    BY <1>3 DEF SameRows
  <2>2. TAKE u \in Turns
  <2>3. CASE u = turn
    BY <1>10, <1>11, <2>3
  <2>4. CASE u # turn
    <3>1. n.number[u] = w.number[u]
      BY <1>10, <1>11, <2>4
    <3>2. w.number[u] = IF s.number[u] = number THEN 0 ELSE s.number[u]
      BY <1>4, <2>4
    <3> QED BY <2>1, <2>4, <3>1, <3>2
  <2> QED BY <2>3, <2>4
<1>13. \A u \in Turns : u # turn => n.state[u] = d.state[u]
  BY <1>3, <1>4, <1>10, <1>11 DEF SameRows
<1>14. n.state[turn] = CheckpointState(d, turn, status, ends)
  BY <1>8, <1>10, <1>11
<1>15. \A u \in Turns : n.asked[u] =
              IF u = turn /\ d.state[u] = "none" THEN at ELSE d.asked[u]
  <2>1. w.asked = d.asked
    BY <1>3, <1>4 DEF SameRows
  <2> QED BY <1>9, <1>10, <1>11, <2>1
<1> QED BY <1>3, <1>4, <1>6, <1>10, <1>11, <1>12, <1>13, <1>14, <1>15 DEF SameRows

\* One event keeps the tables' types, and no row that is over runs again.
LEMMA TablesTyped ==
  ASSUME NEW d \in Tables, NEW e \in DomainEvents, NEW n, n = TablesAfter(d, e)
  PROVE  n \in Tables /\ OverKept(n, d) /\ (Bounded(d) => Bounded(n))
<1>1. CASE e \in StartEvents
  <2>1. PICK at \in Instants : e = StartRequested(at)
    BY <1>1 DEF StartEvents
  <2>2. n \in Tables /\ n.state = d.state /\ n.number = d.number
    BY <2>1, StartOnTables
  <2> QED BY <2>2 DEF OverKept, Bounded
<1>2. CASE e \in InterruptEvents
  <2>1. PICK turn \in Turns \cup {NoTurn}, at \in Instants :
          e = InterruptRequested(turn, at)
    BY <1>2 DEF InterruptEvents
  <2>2. /\ n \in Tables /\ n.number = d.number
        /\ \A u \in Turns : n.state[u] = IF u = turn THEN "interrupted" ELSE d.state[u]
    BY <2>1, InterruptOnTables
  <2> QED BY <2>2 DEF OverKept, Bounded, Terminal
<1>3. CASE e \in RunningEvents
  <2>1. PICK t \in Turns, at \in Instants : e = SessionSet("running", t, at)
    BY <1>3 DEF RunningEvents
  <2>2. n \in Tables /\ RowTaken(n, d, t, at)
    BY <2>1, RunningOnTables
  <2> QED BY <2>2, ClosingStatuses DEF OverKept, Bounded, RowTaken, OthersKept
<1>4. CASE e \in ClosingEvents
  <2>1. PICK status \in Closing, at \in Instants : e = SessionSet(status, NoTurn, at)
    BY <1>4 DEF ClosingEvents
  <2>2. /\ n \in Tables /\ n.number = d.number
        /\ \A u \in Turns : n.state[u] =
              IF u # d.active \/ d.state[u] \in {"error", "interrupted"}
              THEN d.state[u] ELSE ClosedState(status)
    BY <2>1, ClosingOnTables
  <2>3. ClosedState(status) \in Terminal
    BY ClosedStateTyped
  <2> QED BY <2>2, <2>3 DEF OverKept, Bounded
<1>5. CASE e \in DiffEvents
  <2>1. PICK turn \in Turns, number \in Nat, status \in TakenStatuses, at \in Instants :
          e = DiffCompleted(turn, number, status, at)
    BY <1>5 DEF DiffEvents
  <2>2. /\ n \in Tables
        /\ \A u \in Turns : n.number[u] = IF u = turn THEN number
                                          ELSE IF d.number[u] = number THEN 0
                                          ELSE d.number[u]
        /\ \A u \in Turns : u # turn => n.state[u] = d.state[u]
        /\ \E ends \in BOOLEAN : /\ n.state[turn] = CheckpointState(d, turn, status, ends)
                                 /\ ends => status # "missing"
                                 /\ status # "missing" /\ d.state[turn] = "none" => ends
    BY <2>1, DiffOnTables
  <2>3. OverKept(n, d)
    <3>1. d.state[turn] \in Terminal => n.state[turn] \in Terminal
      BY <2>2, ClosingStatuses DEF CheckpointState, Terminal
    <3> QED BY <2>2, <3>1 DEF OverKept
  <2>4. ASSUME Bounded(d) PROVE Bounded(n)
    <3>1. PICK b \in Nat : \A u \in Turns : d.number[u] <= b
      BY <2>4 DEF Bounded
    <3>2. \A u \in Turns : d.number[u] \in Nat
      BY DEF Tables
    <3>3. PICK c \in Nat : b <= c /\ number <= c
      <4>1. b <= b + number /\ number <= b + number /\ b + number \in Nat
        OBVIOUS
      <4> QED BY <4>1
    <3>4. ASSUME NEW u \in Turns PROVE n.number[u] <= c
      <4>1. n.number[u] \in {number, 0, d.number[u]}
        BY <2>2
      <4>2. d.number[u] <= c
        BY <3>1, <3>2, <3>3
      <4> QED BY <3>3, <4>1, <4>2
    <3> QED BY <3>4 DEF Bounded
  <2> QED BY <2>2, <2>3, <2>4
<1> QED BY <1>1, <1>2, <1>3, <1>4, <1>5 DEF DomainEvents

-----------------------------------------------------------------------------
(* What one event does to the thread in memory.                            *)

LEMMA StartOnMemory ==
  ASSUME NEW m \in Memory, NEW at \in Instants,
         NEW n, n = MemoryAfter(m, StartRequested(at))
  PROVE  /\ n.status = "starting" /\ n.active = NoTurn
         /\ n.latest = m.latest /\ n.state = m.state /\ n.done = m.done
<1>1. n = [m EXCEPT !.status = "starting", !.active = NoTurn, !.at = at]
  BY DEF MemoryAfter, StartRequested, MemoryStart
<1> QED BY <1>1 DEF Memory

\* A running session that the memory ignores.
MemoryIgnores(m, t, at) ==
  /\ m.latest # NoTurn /\ m.state \in Terminal /\ m.done # NoTime
  /\ t = m.latest \/ m.done >= at

LEMMA RunningOnMemory ==
  ASSUME NEW m \in Memory, NEW t \in Turns, NEW at \in Instants,
         NEW n, n = MemoryAfter(m, SessionSet("running", t, at))
  PROVE  /\ MemoryIgnores(m, t, at) => n = m
         /\ ~MemoryIgnores(m, t, at) =>
              /\ n.status = "running" /\ n.active = t
              /\ n.latest = t /\ n.state = "running" /\ n.done = NoTime
<1> DEFINE e == SessionSet("running", t, at)
<1>1. /\ e.status = "running" /\ e.turn = t /\ e.at = at /\ e.type = "session-set"
      /\ t # NoTurn /\ ~e.recovers
  BY RecordTypes DEF SessionSet
<1> HIDE DEF e
<1>2. n = MemorySet(m, e)
  BY <1>1 DEF MemoryAfter, e
<1>3. StaleForMemory(m, e) <=> MemoryIgnores(m, t, at)
  BY <1>1 DEF StaleForMemory, MemoryIgnores
<1>4. CASE MemoryIgnores(m, t, at)
  BY <1>1, <1>2, <1>3, <1>4 DEF MemorySet
<1>5. CASE ~MemoryIgnores(m, t, at)
  <2> DEFINE s == [m EXCEPT !.status = "running", !.active = t, !.at = at]
  <2>1. n = [s EXCEPT !.latest = t, !.state = "running", !.done = NoTime]
    BY <1>1, <1>2, <1>3, <1>5 DEF MemorySet
  <2>2. s.status = "running" /\ s.active = t
    BY DEF Memory
  <2>3. s \in Memory
    BY MemorySessionTyped DEF Instants, SessionStatuses
  <2> HIDE DEF s
  <2> QED BY <1>5, <2>1, <2>2, <2>3 DEF Memory
<1> QED BY <1>4, <1>5

\* A session that recovers turn t is never ignored.
LEMMA RecoveryOnMemory ==
  ASSUME NEW m \in Memory, NEW t \in Turns, NEW at \in Instants,
         NEW n, n = MemoryAfter(m, Recovery(t, at))
  PROVE  /\ n \in Memory /\ n.status = "running" /\ n.active = t
         /\ n.latest = t /\ n.state = "running" /\ n.done = NoTime
         /\ n.checkpoint = m.checkpoint /\ n.number = m.number
<1> DEFINE e == Recovery(t, at)
           s == [m EXCEPT !.status = "running", !.active = t, !.at = at]
<1>1. /\ e.status = "running" /\ e.turn = t /\ e.at = at /\ e.type = "session-set"
      /\ t # NoTurn /\ e.recovers
  BY RecordTypes DEF Recovery, SessionSet
<1> HIDE DEF e
<1>2. n = MemorySet(m, e) /\ ~StaleForMemory(m, e)
  BY <1>1 DEF MemoryAfter, StaleForMemory, e
<1>3. n = [s EXCEPT !.latest = t, !.state = "running", !.done = NoTime]
  BY <1>1, <1>2 DEF MemorySet
<1>4. /\ s.status = "running" /\ s.active = t
      /\ s.checkpoint = m.checkpoint /\ s.number = m.number
  BY DEF Memory
<1>5. s \in Memory
  BY MemorySessionTyped DEF Instants, SessionStatuses
<1> HIDE DEF s
<1>6. n \in Memory
  <2>1. "running" \in TurnStates /\ NoTime \in Nat /\ t \in Turns \cup {NoTurn}
    BY DEF TurnStates, NoTime
  <2>2. [s EXCEPT !.latest = t, !.state = "running", !.done = NoTime] \in Memory
    BY <1>5, <2>1, MemoryTurnTyped
  <2> QED BY <1>3, <2>2
<1> QED BY <1>3, <1>4, <1>5, <1>6 DEF Memory

\* A session without a turn closes the turn that the memory has as active.
LEMMA ClosingOnMemory ==
  ASSUME NEW m \in Memory, NEW status \in Closing, NEW at \in Instants,
         NEW n, n = MemoryAfter(m, SessionSet(status, NoTurn, at))
  PROVE  /\ n.status = status /\ n.active = NoTurn
         /\ MemoryActive(m) = NoTurn =>
              n.latest = m.latest /\ n.state = m.state /\ n.done = m.done
         /\ MemoryActive(m) # NoTurn =>
              /\ n.latest = MemoryActive(m)
              /\ n.state = IF m.state \in {"error", "interrupted"} THEN m.state
                           ELSE ClosedState(status)
              /\ n.done = IF m.latest = MemoryActive(m) /\ m.done # NoTime THEN m.done
                          ELSE at
<1> DEFINE e == SessionSet(status, NoTurn, at)
<1>1. /\ e.status = status /\ e.turn = NoTurn /\ e.at = at /\ e.type = "session-set"
      /\ status # "running" /\ status # "starting"
  BY ClosingStatuses DEF SessionSet
<1> HIDE DEF e
<1>2. n = MemorySet(m, e)
  BY <1>1 DEF MemoryAfter, e
<1>3. ~StaleForMemory(m, e)
  BY <1>1 DEF StaleForMemory
<1> DEFINE existing == MemoryActive(m)
           s == [m EXCEPT !.status = status, !.active = NoTurn, !.at = at]
           state == IF m.state \in {"error", "interrupted"} THEN m.state
                    ELSE ClosedState(status)
           done == IF m.latest = existing /\ m.done # NoTime THEN m.done ELSE at
<1>4. /\ s \in Memory /\ s.state = m.state /\ s.done = m.done /\ s.latest = m.latest
      /\ s.status = status /\ s.active = NoTurn
  <2>1. s \in Memory
    BY MemorySessionTyped, ClosingStatuses DEF Instants
  <2> QED BY <2>1 DEF Memory
<1>5. CASE existing = NoTurn
  <2>1. n = s
    BY <1>1, <1>2, <1>3, <1>5 DEF MemorySet
  <2> HIDE DEF s
  <2> QED BY <1>4, <1>5, <2>1
<1>6. CASE existing # NoTurn
  <2>1. n = [s EXCEPT !.latest = existing, !.state = state, !.done = done]
    BY <1>1, <1>2, <1>3, <1>4, <1>6 DEF MemorySet
  <2>2. /\ n.latest = existing /\ n.state = state /\ n.done = done
        /\ n.status = s.status /\ n.active = s.active
    <3> HIDE DEF s, existing, state, done
    <3> QED BY <1>4, <2>1 DEF Memory
  <2> QED BY <1>4, <1>6, <2>2
<1> QED BY <1>5, <1>6

\* The interrupt of a turn closes the session in memory, unless that runs another.
InterruptEnds(m, turn) ==
  /\ turn = NoTurn \/ m.active \in {NoTurn, turn}
  /\ m.status \in {"starting", "running"} \/ m.active # NoTurn

InterruptedTurn(m, turn) == IF turn # NoTurn THEN turn ELSE MemoryActive(m)

\* It ends that turn, unless another is the latest.
InterruptNamesLatest(m, turn) ==
  InterruptedTurn(m, turn) # NoTurn /\ m.latest \in {NoTurn, InterruptedTurn(m, turn)}

LEMMA InterruptOnMemory ==
  ASSUME NEW m \in Memory, NEW turn \in Turns \cup {NoTurn}, NEW at \in Instants,
         NEW n, n = MemoryAfter(m, InterruptRequested(turn, at))
  PROVE  /\ InterruptEnds(m, turn) => n.status = "interrupted" /\ n.active = NoTurn
         /\ ~InterruptEnds(m, turn) => n.status = m.status /\ n.active = m.active
         /\ InterruptNamesLatest(m, turn) =>
              /\ n.latest = InterruptedTurn(m, turn) /\ n.state = "interrupted"
              /\ n.done = IF m.latest = InterruptedTurn(m, turn) /\ m.done # NoTime
                          THEN m.done ELSE at
         /\ ~InterruptNamesLatest(m, turn) =>
              n.latest = m.latest /\ n.state = m.state /\ n.done = m.done
<1> DEFINE closes == InterruptEnds(m, turn)
           named == InterruptedTurn(m, turn)
<1> DEFINE e == InterruptRequested(turn, at)
           s == IF closes
                THEN [m EXCEPT !.status = "interrupted", !.active = NoTurn, !.at = at]
                ELSE m
           done == IF m.latest = named /\ m.done # NoTime THEN m.done ELSE at
<1>1. e.turn = turn /\ e.at = at /\ e.type = "interrupt-requested"
  BY DEF InterruptRequested
<1> HIDE DEF e
<1>2. n = MemoryInterrupt(m, e)
  BY <1>1 DEF MemoryAfter, e
<1>3. /\ s \in Memory /\ s.latest = m.latest /\ s.state = m.state /\ s.done = m.done
      /\ closes => s.status = "interrupted" /\ s.active = NoTurn
      /\ ~closes => s.status = m.status /\ s.active = m.active
  <2>1. CASE closes
    <3>1. s = [m EXCEPT !.status = "interrupted", !.active = NoTurn, !.at = at]
      BY <2>1
    <3>2. s \in Memory
      BY <3>1, MemorySessionTyped DEF Instants, SessionStatuses
    <3> HIDE DEF s
    <3> QED BY <2>1, <3>1, <3>2 DEF Memory
  <2>2. CASE ~closes
    BY <2>2
  <2> QED BY <2>1, <2>2
<1>4. n = IF named # NoTurn /\ m.latest \in {NoTurn, named}
          THEN [s EXCEPT !.latest = named, !.state = "interrupted", !.done = done]
          ELSE s
  BY <1>1, <1>2, <1>3 DEF MemoryInterrupt, InterruptEnds, InterruptedTurn
<1> HIDE DEF s, done
<1>5. CASE named # NoTurn /\ m.latest \in {NoTurn, named}
  <2>1. n = [s EXCEPT !.latest = named, !.state = "interrupted", !.done = done]
    BY <1>4, <1>5
  <2>2. /\ n.latest = named /\ n.state = "interrupted" /\ n.done = done
        /\ n.status = s.status /\ n.active = s.active
    BY <1>3, <2>1 DEF Memory
  <2> QED BY <1>3, <1>5, <2>2 DEF done, InterruptNamesLatest
<1>6. CASE ~(named # NoTurn /\ m.latest \in {NoTurn, named})
  BY <1>3, <1>4, <1>6 DEF InterruptNamesLatest
<1> QED BY <1>5, <1>6

LEMMA DiffOnMemory ==
  ASSUME NEW m \in Memory, NEW turn \in Turns, NEW number \in Nat,
         NEW status \in TakenStatuses, NEW at \in Instants,
         NEW n, n = MemoryAfter(m, DiffCompleted(turn, number, status, at))
  PROVE  /\ n.status = m.status /\ n.active = m.active
         /\ \/ n.latest = m.latest /\ n.state = m.state /\ n.done = m.done
            \/ /\ status # "missing" /\ m.latest \in {NoTurn, turn}
               /\ n.latest = turn /\ n.state \in Terminal /\ n.done = at
<1> DEFINE e == DiffCompleted(turn, number, status, at)
           c == [m EXCEPT !.checkpoint[turn] = status, !.number[turn] = number]
           final == IF status = "error" THEN "error" ELSE "completed"
           r == [c EXCEPT !.latest = turn, !.state = final, !.done = at]
<1>1. /\ e.turn = turn /\ e.number = number /\ e.status = status /\ e.at = at
      /\ e.type = "diff-completed"
  BY DEF DiffCompleted
<1> HIDE DEF e
<1>2. n = MemoryDiff(m, e)
  BY <1>1 DEF MemoryAfter, e
<1>3. /\ c \in Memory /\ c.status = m.status /\ c.active = m.active
      /\ c.latest = m.latest /\ c.state = m.state /\ c.done = m.done
  BY DEF Memory, CheckpointStatuses, TakenStatuses
<1>4. \/ n = m \/ n = c
      \/ n = r /\ status # "missing" /\ m.latest \in {NoTurn, turn}
  BY <1>1, <1>2 DEF MemoryDiff
<1>5. final \in Terminal
  BY DEF Terminal
<1> HIDE DEF c, final
<1>6. r.status = c.status /\ r.active = c.active /\ r.latest = turn /\ r.state = final
        /\ r.done = at
  BY <1>3 DEF Memory
<1> HIDE DEF r
<1> QED BY <1>3, <1>4, <1>5, <1>6

-----------------------------------------------------------------------------
(* Type correctness.                                                       *)

LEMMA EventKinds ==
  /\ \A at \in Instants : StartRequested(at) \in DomainEvents
  /\ \A turn \in Turns \cup {NoTurn}, at \in Instants :
       InterruptRequested(turn, at) \in DomainEvents
  /\ \A t \in Turns, at \in Instants : SessionSet("running", t, at) \in DomainEvents
  /\ \A status \in Closing, at \in Instants :
       SessionSet(status, NoTurn, at) \in DomainEvents
  /\ \A turn \in Turns, number \in Nat, status \in TakenStatuses, at \in Instants :
       DiffCompleted(turn, number, status, at) \in DomainEvents
<1>1. \A at \in Instants : StartRequested(at) \in StartEvents
  BY DEF StartEvents
<1>2. ASSUME NEW turn \in Turns \cup {NoTurn}, NEW at \in Instants
      PROVE  InterruptRequested(turn, at) \in InterruptEvents
  <2>1. <<turn, at>> \in (Turns \cup {NoTurn}) \X Instants
    OBVIOUS
  <2> QED BY <2>1 DEF InterruptEvents
<1>3. ASSUME NEW t \in Turns, NEW at \in Instants
      PROVE  SessionSet("running", t, at) \in RunningEvents
  <2>1. <<t, at>> \in Turns \X Instants
    OBVIOUS
  <2> QED BY <2>1 DEF RunningEvents
<1>4. ASSUME NEW status \in Closing, NEW at \in Instants
      PROVE  SessionSet(status, NoTurn, at) \in ClosingEvents
  <2>1. <<status, at>> \in Closing \X Instants
    OBVIOUS
  <2> QED BY <2>1 DEF ClosingEvents
<1>5. ASSUME NEW turn \in Turns, NEW number \in Nat, NEW status \in TakenStatuses,
             NEW at \in Instants
      PROVE  DiffCompleted(turn, number, status, at) \in DiffEvents
  <2>1. <<turn, number, status, at>> \in Turns \X Nat \X TakenStatuses \X Instants
    OBVIOUS
  <2> QED BY <2>1 DEF DiffEvents
<1> QED BY <1>1, <1>2, <1>3, <1>4, <1>5 DEF DomainEvents

LEMMA ProjectedTyped ==
  ASSUME ProjectionsTyped, NEW e \in DomainEvents, Project(e)
  PROVE  ProjectionsTyped'
<1>1. mem' \in Memory
  BY MemoryTyped DEF ProjectionsTyped, Project
<1>2. db \in Tables /\ Bounded(db) /\ db' = TablesAfter(db, e)
  BY DEF ProjectionsTyped, Project
<1>3. db' \in Tables /\ Bounded(db')
  BY <1>2, TablesTyped
<1> QED BY <1>1, <1>3 DEF ProjectionsTyped, Bounded

LEMMA RecoveredTyped ==
  ASSUME ProjectionsTyped, NEW t \in Turns, NEW at \in Instants,
         Project(Recovery(t, at))
  PROVE  ProjectionsTyped'
<1>1. mem' \in Memory
  BY RecoveryOnMemory DEF ProjectionsTyped, Project
<1>2. db' \in Tables /\ db'.number = db.number
  BY RecoveryOnTables DEF ProjectionsTyped, Project
<1> QED BY <1>1, <1>2 DEF ProjectionsTyped, Bounded

LEMMA ReadSessionTyped ==
  ASSUME NEW d \in Tables
  PROVE  ReadSession(d).active \in {NoTurn, d.active}
<1>1. CASE d.active = NoTurn
  BY <1>1 DEF ReadSession
<1>2. CASE d.active # NoTurn /\ d.latest # d.active
  BY <1>2 DEF ReadSession
<1>3. CASE d.active # NoTurn /\ d.latest = d.active
  BY <1>3 DEF ReadSession
<1> QED BY <1>1, <1>2, <1>3

LEMMA Untouched ==
  ASSUME TypeInv
  PROVE  /\ UNCHANGED <<mem, db>> => ProjectionsTyped'
         /\ UNCHANGED <<clock, asked, upsets>> => CountersTyped'
         /\ UNCHANGED <<asked, upsets>> /\ clock' = Now => CountersTyped'
         /\ UNCHANGED intents => IntentsTyped'
         /\ UNCHANGED calls => CallsTyped'
         /\ UNCHANGED provider => ProviderTyped'
         /\ UNCHANGED <<turns, running, stopping>> /\ diffed' \in BOOLEAN => ProviderTyped'
         /\ UNCHANGED <<turns, ended, reopened>> => EndedTyped'
         /\ UNCHANGED provider => EndedTyped'
         /\ UNCHANGED <<turns, reported>> => ReportedTyped'
         /\ UNCHANGED <<turns, ingesting>> => IngestingTyped'
         /\ UNCHANGED <<turns, receipts>> => ReceiptsTyped'
         /\ UNCHANGED <<captures, capturing>> => CapturesTyped'
         /\ UNCHANGED overlap => OverlapTyped'
<1>1. UNCHANGED <<mem, db>> => ProjectionsTyped'
  BY DEF TypeInv, ProjectionsTyped, Bounded
<1>2. /\ UNCHANGED <<clock, asked, upsets>> => CountersTyped'
      /\ UNCHANGED <<asked, upsets>> /\ clock' = Now => CountersTyped'
  BY DEF TypeInv, CountersTyped, Now
<1>3. /\ UNCHANGED intents => IntentsTyped'
      /\ UNCHANGED calls => CallsTyped'
  BY DEF TypeInv, IntentsTyped, CallsTyped
<1>4. /\ UNCHANGED provider => ProviderTyped'
      /\ UNCHANGED <<turns, running, stopping>> /\ diffed' \in BOOLEAN => ProviderTyped'
  BY DEF TypeInv, ProviderTyped, provider
<1>5. /\ UNCHANGED <<turns, reported>> => ReportedTyped'
      /\ UNCHANGED <<turns, ended, reopened>> => EndedTyped'
      /\ UNCHANGED provider => EndedTyped'
  BY DEF TypeInv, ReportedTyped, EndedTyped, provider
<1>6. UNCHANGED <<turns, ingesting>> => IngestingTyped'
  BY DEF TypeInv, IngestingTyped
<1>7. UNCHANGED <<turns, receipts>> => ReceiptsTyped'
  BY DEF TypeInv, ReceiptsTyped
<1>8. UNCHANGED <<captures, capturing>> => CapturesTyped'
  BY DEF TypeInv, CapturesTyped
<1>9. UNCHANGED overlap => OverlapTyped'
  BY DEF TypeInv, OverlapTyped
<1> QED BY <1>1, <1>2, <1>3, <1>4, <1>5, <1>6, <1>7, <1>8, <1>9

LEMMA CallChanged ==
  ASSUME CallsTyped, NEW r \in Requests, NEW c, CallTyped(c),
         calls' = [calls EXCEPT ![r] = c]
  PROVE  CallsTyped'
BY DEF CallsTyped, CallTyped

LEMMA CallRemoved ==
  ASSUME CallsTyped, NEW r \in Requests, calls' = [calls EXCEPT ![r] = NoCall]
  PROVE  CallsTyped'
<1>1. CallTyped(NoCall)
  BY DEF CallTyped, CallRecords, NoCall, NoTurn, NoTime
<1> QED BY <1>1, CallChanged

\* A call goes on: its step, its turn and its mark change.
LEMMA CallGoesOn ==
  ASSUME CallsTyped, NEW r \in Requests, calls[r].step # "none",
         NEW step \in {"resend", "steered", "answered", "marking", "failed"},
         NEW turn \in Turns \cup {NoTurn}, NEW mark \in Instants,
         step \in {"resend", "failed"} \/ turn \in Turns,
         calls' = [calls EXCEPT ![r].step = step, ![r].turn = turn, ![r].mark = mark]
  PROVE  CallsTyped'
<1> DEFINE c == [calls[r] EXCEPT !.step = step, !.turn = turn, !.mark = mark]
<1>1. calls[r] \in CallRecords /\ calls[r].at \in Instants
  BY DEF CallsTyped, CallTyped
<1>2. CallTyped(c)
  BY <1>1 DEF CallTyped, CallRecords, Instants
<1>3. calls' = [calls EXCEPT ![r] = c]
  BY DEF CallsTyped
<1> HIDE DEF c
<1> QED BY <1>2, <1>3, CallChanged

\* The same without a change of the turn or the mark.
LEMMA CallSteps ==
  ASSUME CallsTyped, NEW r \in Requests, calls[r].step # "none",
         NEW step \in {"resend", "steered", "answered", "marking", "failed"},
         step = "failed" \/ calls[r].turn \in Turns,
         calls' = [calls EXCEPT ![r].step = step]
  PROVE  CallsTyped'
<1> DEFINE c == [calls[r] EXCEPT !.step = step]
<1>1. CallTyped(calls[r])
  BY DEF CallsTyped
<1>2. CallTyped(c)
  BY <1>1 DEF CallTyped, CallRecords
<1>3. calls' = [calls EXCEPT ![r] = c]
  BY DEF CallsTyped
<1> HIDE DEF c
<1> QED BY <1>2, <1>3, CallChanged

LEMMA CallAnswered ==
  ASSUME CallsTyped, NEW r \in Requests, calls[r].step # "none",
         NEW turn \in Turns,
         calls' = [calls EXCEPT ![r].step = "answered", ![r].turn = turn]
  PROVE  CallsTyped'
<1> DEFINE mark == calls[r].mark
<1>1. calls \in [Requests -> CallRecords] /\ mark \in Instants
  BY DEF CallsTyped, CallTyped, CallRecords
<1>2. calls' = [calls EXCEPT ![r].step = "answered", ![r].turn = turn, ![r].mark = mark]
  BY <1>1 DEF CallRecords
<1> HIDE DEF mark
<1> QED BY <1>1, <1>2, CallGoesOn

LEMMA Clocked ==
  ASSUME TypeInv
  PROVE  Now \in Instants /\ clock \in Nat
BY DEF TypeInv, CountersTyped, Now, Instants

LEMMA StartTurnTyped ==
  ASSUME TypeInv, StartTurn
  PROVE  TypeInv'
<1> USE DEF StartTurn
<1>1. ProjectionsTyped'
  BY EventKinds, ProjectedTyped, Clocked DEF TypeInv
<1>2. asked + 1 \in Requests /\ CountersTyped'
  BY ThreadAssumption, Clocked DEF TypeInv, CountersTyped, Requests, Instants
<1>3. IntentsTyped'
  <2>1. [kind |-> "start", request |-> asked + 1, at |-> Now] \in StartIntents
    BY <1>2, Clocked DEF StartIntents
  <2> QED BY <2>1 DEF TypeInv, IntentsTyped
<1>4. OverlapTyped'
  BY DEF TypeInv, OverlapTyped
<1> QED BY <1>1, <1>2, <1>3, <1>4, Untouched
        DEF TypeInv, provider, ingestion, checkpoints

LEMMA InterruptTyped ==
  ASSUME TypeInv, NEW named \in Turns \cup {NoTurn}, Interrupt(named)
  PROVE  TypeInv'
<1> USE DEF Interrupt
<1> DEFINE turn == IF named # NoTurn THEN named ELSE MemoryActive(mem)
<1>1. turn \in Turns \cup {NoTurn}
  BY MemoryActiveTyped DEF TypeInv, ProjectionsTyped
<1>2. ProjectionsTyped'
  BY <1>1, EventKinds, ProjectedTyped, Clocked DEF TypeInv
<1>3. CountersTyped'
  BY ThreadAssumption, Clocked DEF TypeInv, CountersTyped, Instants
<1>4. IntentsTyped'
  <2>1. [kind |-> "interrupt", turn |-> turn] \in InterruptIntents
    BY <1>1 DEF InterruptIntents
  <2> QED BY <2>1 DEF TypeInv, IntentsTyped
<1> QED BY <1>2, <1>3, <1>4, Untouched DEF TypeInv, provider, ingestion, checkpoints

LEMMA ReactStartTyped ==
  ASSUME TypeInv, ReactStart
  PROVE  TypeInv'
<1> USE DEF ReactStart
<1>1. Head(intents) \in StartIntents /\ IntentsTyped'
  BY DEF TypeInv, IntentsTyped, StartIntents, InterruptIntents
<1> DEFINE r == Head(intents).request
           at == Head(intents).at
<1>2. r \in Requests /\ at \in Instants
  BY <1>1 DEF StartIntents
<1>3. running \in Turns \cup {NoTurn}
  BY ThreadAssumption DEF TypeInv, ProviderTyped, NoTurn
<1>4. CallsTyped'
  <2> HIDE DEF r, at
  <2>1. CASE running # NoTurn
    <3>1. calls' = [calls EXCEPT ![r] =
                      [step |-> "steer", turn |-> running, at |-> at, mark |-> at]]
      BY <2>1 DEF r, at
    <3> DEFINE c == [step |-> "steer", turn |-> running, at |-> at, mark |-> at]
    <3>2. CallTyped(c)
      BY <1>2, <1>3, <2>1 DEF CallTyped, CallRecords, Instants
    <3> HIDE DEF c
    <3> QED BY <1>2, <3>1, <3>2, CallChanged DEF TypeInv, c
  <2>2. CASE running = NoTurn
    <3>1. calls' = [calls EXCEPT ![r] =
                      [step |-> "send", turn |-> NoTurn, at |-> at, mark |-> at]]
      BY <2>2 DEF r, at
    <3> DEFINE c == [step |-> "send", turn |-> NoTurn, at |-> at, mark |-> at]
    <3>2. CallTyped(c)
      BY <1>2 DEF CallTyped, CallRecords, Instants
    <3> HIDE DEF c
    <3> QED BY <1>2, <3>1, <3>2, CallChanged DEF TypeInv, c
  <2> QED BY <2>1, <2>2
<1> QED BY <1>1, <1>4, Untouched DEF TypeInv, provider, ingestion, checkpoints

LEMMA ReactInterruptTyped ==
  ASSUME TypeInv, ReactInterrupt
  PROVE  TypeInv'
<1> USE DEF ReactInterrupt
<1>1. IntentsTyped'
  BY DEF TypeInv, IntentsTyped
<1>2. ProviderTyped'
  BY DEF TypeInv, ProviderTyped
<1> QED BY <1>1, <1>2, Untouched DEF TypeInv, ingestion, checkpoints

LEMMA SendTurnTyped ==
  ASSUME TypeInv, NEW r \in Requests, SendTurn(r)
  PROVE  TypeInv'
<1> USE DEF SendTurn
<1>1. /\ turns \in Nat /\ turns + 1 \in Turns /\ turns' = turns + 1
      /\ calls[r].step # "none"
  BY RecordTypes DEF TypeInv, ProviderTyped
<1>2. CallsTyped'
  <2>1. calls' = [calls EXCEPT ![r].step = "answered", ![r].turn = turns + 1]
    OBVIOUS
  <2> HIDE DEF SendTurn
  <2> QED BY <1>1, <2>1, CallAnswered DEF TypeInv
<1>3. ProviderTyped'
  <2>1. turns' \in Nat /\ running' = turns' /\ stopping' = FALSE /\ diffed' = FALSE
    BY <1>1
  <2> HIDE DEF SendTurn
  <2>2. running' \in 0..turns' /\ turns' \in Turns \cup {NoTurn}
    BY <1>1, <2>1
  <2> QED BY <2>1, <2>2 DEF ProviderTyped
<1>4. ReportedTyped'
  <2> DEFINE e == [kind |-> "started", turn |-> turns + 1, at |-> Now]
  <2>1. e \in ProviderEvents /\ e.turn = turns + 1
    BY <1>1, Clocked DEF ProviderEvents
  <2>2. reported' = Append(reported, e) /\ reported \in Seq(ProviderEvents)
    BY DEF TypeInv, ReportedTyped
  <2> HIDE DEF e
  <2>3. reported' \in Seq(ProviderEvents) /\ Len(reported') = Len(reported) + 1
    BY <2>1, <2>2
  <2>4. ASSUME NEW i \in 1..Len(reported') PROVE reported'[i].turn <= turns'
    <3>1. CASE i = Len(reported) + 1
      BY <1>1, <2>1, <2>2, <3>1
    <3>2. CASE i # Len(reported) + 1
      <4>1. i \in 1..Len(reported) /\ reported'[i] = reported[i]
        BY <2>2, <2>3, <3>2
      <4>2. reported[i] \in ProviderEvents
        BY <2>2, <4>1
      <4>3. reported[i].turn \in Nat
        BY <4>2, RecordTypes DEF ProviderEvents, EndedEvents
      <4>4. reported[i].turn <= turns
        BY <4>1 DEF TypeInv, ReportedTyped
      <4> QED BY <1>1, <4>1, <4>3, <4>4
    <3> QED BY <3>1, <3>2
  <2> QED BY <2>3, <2>4 DEF ReportedTyped
<1>5. IngestingTyped' /\ ReceiptsTyped'
  <2>1. ASSUME ingesting # Nothing PROVE ingesting.event.turn <= turns'
    <3>1. ingesting.event.turn \in Nat
      BY <2>1, RecordTypes
      DEF TypeInv, IngestingTyped, Readings, ProviderEvents, EndedEvents
    <3> QED BY <1>1, <2>1, <3>1 DEF TypeInv, IngestingTyped
  <2> QED BY <1>1, <2>1 DEF TypeInv, IngestingTyped, ReceiptsTyped
<1>6. EndedTyped'
  <2>1. \A t \in Turns : t \in Nat
    BY TurnsAssumption
  <2> QED BY <1>1, <2>1 DEF TypeInv, EndedTyped
<1> QED BY <1>2, <1>3, <1>4, <1>5, <1>6, Untouched DEF TypeInv, checkpoints

\* The provider runs a turn, or none.
LEMMA RunningTurn ==
  ASSUME TypeInv
  PROVE  running \in Turns \cup {NoTurn} /\ turns \in Nat
BY ThreadAssumption, RecordTypes DEF TypeInv, ProviderTyped, NoTurn

LEMMA SendSteersTyped ==
  ASSUME TypeInv, NEW r \in Requests, SendSteers(r)
  PROVE  TypeInv'
<1>1. running \in Turns /\ calls[r].step # "none"
  BY RunningTurn DEF SendSteers
<1>2. CallsTyped'
  <2>1. calls' = [calls EXCEPT ![r].step = "answered", ![r].turn = running]
    BY DEF SendSteers
  <2> QED BY <1>1, <2>1, CallAnswered DEF TypeInv
<1> QED BY <1>2, Untouched DEF SendSteers, TypeInv, provider, ingestion, checkpoints

LEMMA SteerTurnTyped ==
  ASSUME TypeInv, NEW r \in Requests, SteerTurn(r)
  PROVE  TypeInv'
<1>1. CallsTyped'
  <2>1. calls[r].step = "steer" /\ calls' = [calls EXCEPT ![r].step = "steered"]
    BY DEF SteerTurn
  <2>2. calls[r].turn \in Turns
    BY <2>1 DEF TypeInv, CallsTyped, CallTyped
  <2> QED BY <2>1, <2>2, CallSteps DEF TypeInv
<1> QED BY <1>1, Untouched DEF SteerTurn, TypeInv, provider, ingestion, checkpoints

LEMMA CallFailsTyped ==
  ASSUME TypeInv, NEW r \in Requests, CallFails(r)
  PROVE  TypeInv'
<1>1. CallsTyped'
  <2>1. calls[r].step # "none" /\ calls' = [calls EXCEPT ![r].step = "failed"]
    BY DEF CallFails
  <2> QED BY <2>1, CallSteps DEF TypeInv
<1> QED BY <1>1, Untouched DEF CallFails, TypeInv, provider, ingestion, checkpoints

LEMMA SteerBecomesSendTyped ==
  ASSUME TypeInv, NEW r \in Requests, SteerBecomesSend(r)
  PROVE  TypeInv'
<1>1. CallsTyped'
  <2>1. /\ calls[r].step # "none" /\ NoTurn \in Turns \cup {NoTurn}
        /\ calls' = [calls EXCEPT ![r].step = "resend", ![r].turn = NoTurn,
                                  ![r].mark = Now]
    BY DEF SteerBecomesSend
  <2> QED BY <2>1, Clocked, CallGoesOn DEF TypeInv
<1>2. ProjectionsTyped'
  BY EventKinds, ProjectedTyped, Clocked DEF TypeInv, SteerBecomesSend, Closing
<1> QED BY <1>1, <1>2, Untouched
        DEF SteerBecomesSend, TypeInv, provider, ingestion, checkpoints

LEMMA StartFailedTyped ==
  ASSUME TypeInv, NEW r \in Requests, StartFailed(r)
  PROVE  TypeInv'
<1>1. CallsTyped'
  BY CallRemoved DEF TypeInv, StartFailed
<1>2. ProjectionsTyped'
  <2>1. calls[r].at \in Instants
    BY DEF StartFailed, TypeInv, CallsTyped, CallTyped
  <2> QED BY <2>1, EventKinds, ProjectedTyped DEF TypeInv, StartFailed, Closing
<1> QED BY <1>1, <1>2, Untouched
        DEF StartFailed, TypeInv, provider, ingestion, checkpoints

LEMMA MarkSteeredTyped ==
  ASSUME TypeInv, NEW r \in Requests, MarkSteered(r)
  PROVE  TypeInv'
<1>1. CallsTyped'
  BY CallRemoved DEF TypeInv, MarkSteered
<1>2. ProjectionsTyped'
  <2>1. calls[r].turn \in Turns
    BY DEF MarkSteered, TypeInv, CallsTyped, CallTyped
  <2> QED BY <2>1, EventKinds, ProjectedTyped, Clocked DEF TypeInv, MarkSteered
<1> QED BY <1>1, <1>2, Untouched
        DEF MarkSteered, TypeInv, provider, ingestion, checkpoints

LEMMA MarkReadsTyped ==
  ASSUME TypeInv, NEW r \in Requests, MarkReads(r)
  PROVE  TypeInv'
<1>1. CallsTyped'
  <2>1. calls[r].step = "answered" /\ calls[r].turn \in Turns
    BY DEF MarkReads, TypeInv, CallsTyped, CallTyped
  <2>2. CASE calls' = [calls EXCEPT ![r] = NoCall]
    BY <2>2, CallRemoved DEF TypeInv
  <2>3. CASE calls' = [calls EXCEPT ![r].step = "marking"]
    BY <2>1, <2>3, CallSteps DEF TypeInv
  <2> QED BY <2>2, <2>3 DEF MarkReads
<1> QED BY <1>1, Untouched DEF MarkReads, TypeInv, provider, ingestion, checkpoints

LEMMA MarkWritesTyped ==
  ASSUME TypeInv, NEW r \in Requests, MarkWrites(r)
  PROVE  TypeInv'
<1>1. CallsTyped'
  BY CallRemoved DEF TypeInv, MarkWrites
<1>2. ProjectionsTyped'
  <2>1. calls[r].turn \in Turns /\ calls[r].mark \in Instants
    BY DEF MarkWrites, TypeInv, CallsTyped, CallTyped
  <2> QED BY <2>1, EventKinds, ProjectedTyped DEF TypeInv, MarkWrites
<1> QED BY <1>1, <1>2, Untouched
        DEF MarkWrites, TypeInv, provider, ingestion, checkpoints

\* The provider reports on a turn that it has started.
LEMMA ReportTyped ==
  ASSUME TypeInv, NEW e \in ProviderEvents, e.turn <= turns,
         reported' = Append(reported, e), turns' = turns
  PROVE  ReportedTyped'
<1>1. reported \in Seq(ProviderEvents)
  BY DEF TypeInv, ReportedTyped
<1>2. reported' \in Seq(ProviderEvents) /\ Len(reported') = Len(reported) + 1
  BY <1>1
<1>3. ASSUME NEW i \in 1..Len(reported') PROVE reported'[i].turn <= turns'
  <2>1. CASE i = Len(reported) + 1
    BY <1>1, <2>1
  <2>2. CASE i # Len(reported) + 1
    <3>1. i \in 1..Len(reported) /\ reported'[i] = reported[i]
      BY <1>1, <1>2, <2>2
    <3> QED BY <3>1 DEF TypeInv, ReportedTyped
  <2> QED BY <2>1, <2>2
<1> QED BY <1>2, <1>3 DEF ReportedTyped

LEMMA ProviderDiffTyped ==
  ASSUME TypeInv, ProviderDiff
  PROVE  TypeInv'
<1> DEFINE e == [kind |-> "diff", turn |-> running, at |-> Now]
<1>1. e \in ProviderEvents /\ e.turn <= turns
  BY RunningTurn, Clocked DEF ProviderDiff, ProviderEvents, TypeInv, ProviderTyped
<1>2. reported' = Append(reported, e) /\ turns' = turns
  BY DEF ProviderDiff
<1> HIDE DEF e
<1>3. ReportedTyped'
  BY <1>1, <1>2, ReportTyped
<1> QED BY <1>3, Untouched DEF ProviderDiff, TypeInv, reactor, checkpoints

LEMMA ProviderEndsTyped ==
  ASSUME TypeInv, NEW o \in Endings, ProviderEnds(o)
  PROVE  TypeInv'
<1> DEFINE e == [kind |-> "ended", turn |-> running, outcome |-> o, at |-> Now]
<1>1. running \in Turns /\ running <= turns
  BY RunningTurn DEF ProviderEnds, TypeInv, ProviderTyped
<1>2. o \in EndOutcomes
  BY ThreadAssumption DEF Endings, EndOutcomes
<1>3. e \in EndedEvents /\ e.turn <= turns
  BY <1>1, <1>2, Clocked DEF EndedEvents
<1>4. /\ reported' = Append(reported, e) /\ turns' = turns
      /\ captures' = Append(captures, e)
  BY DEF ProviderEnds
<1> HIDE DEF e
<1>5. ReportedTyped'
  BY <1>3, <1>4, ReportTyped DEF ProviderEvents
<1>6. CapturesTyped'
  BY <1>3, <1>4 DEF ProviderEnds, TypeInv, CapturesTyped
<1>7. ProviderTyped'
  <2>1. /\ turns' = turns /\ running' = 0 /\ stopping' \in BOOLEAN /\ diffed' = diffed
    BY DEF ProviderEnds, NoTurn
  <2>2. 0 \in 0..turns
    BY RunningTurn
  <2> QED BY <2>1, <2>2 DEF TypeInv, ProviderTyped
<1>8. EndedTyped'
  <2>1. ended \in [Turns -> Endings \cup {"none"}]
    BY DEF TypeInv, EndedTyped
  <2>2. /\ ended' \in [Turns -> Endings \cup {"none"}]
        /\ \A t \in Turns : t # running => ended'[t] = ended[t]
    BY <1>1, <2>1 DEF ProviderEnds
  <2>3. \A t \in Turns : ended'[t] # "none" => t <= turns'
    BY <1>1, <1>4, <2>2 DEF TypeInv, EndedTyped
  <2> QED BY <2>2, <2>3 DEF ProviderEnds, TypeInv, EndedTyped
<1> QED BY <1>5, <1>6, <1>7, <1>8, Untouched DEF ProviderEnds, TypeInv, reactor

LEMMA ProviderReopensTyped ==
  ASSUME TypeInv, NEW t \in Turns, ProviderReopens(t)
  PROVE  TypeInv'
<1> DEFINE e == [kind |-> "reopened", turn |-> t, at |-> Now]
<1>1. t <= turns /\ turns \in Nat /\ t \in Nat
  BY RunningTurn, TurnsAssumption DEF ProviderReopens, TypeInv, EndedTyped
<1>2. e \in ProviderEvents /\ e.turn <= turns
  BY <1>1, Clocked DEF ProviderEvents
<1>3. /\ reported' = Append(reported, e) /\ turns' = turns /\ running' = t
      /\ stopping' = FALSE /\ diffed' = FALSE /\ ended' = ended
      /\ reopened' \in {reopened, "last", "earlier"}
  BY DEF ProviderReopens
<1> HIDE DEF e
<1>4. ReportedTyped'
  BY <1>2, <1>3, ReportTyped
<1>5. ProviderTyped'
  <2>1. t \in 0..turns
    BY <1>1
  <2> QED BY <1>3, <2>1 DEF TypeInv, ProviderTyped
<1>6. EndedTyped'
  BY <1>3 DEF TypeInv, EndedTyped
<1>7. CountersTyped'
  BY ThreadAssumption, Clocked DEF ProviderReopens, TypeInv, CountersTyped, Instants
<1> QED BY <1>3, <1>4, <1>5, <1>6, <1>7, Untouched
        DEF ProviderReopens, TypeInv, reactor, checkpoints

LEMMA IngestReadsTyped ==
  ASSUME TypeInv, IngestReads
  PROVE  TypeInv'
<1> DEFINE e == Head(reported)
           active == ReadSession(db).active
           owned == running = e.turn
           tracked == db.checkpoint[e.turn] # "none"
           number == LastNumber + 1
           i == [kind |-> "event", event |-> e, active |-> active, owned |-> owned,
                 tracked |-> tracked, number |-> number]
<1>1. reported \in Seq(ProviderEvents) /\ reported # <<>>
  BY DEF TypeInv, ReportedTyped, IngestReads
<1>2. e \in ProviderEvents /\ e = reported[1] /\ 1 \in 1..Len(reported)
  BY <1>1
<1>3. e.turn \in Turns /\ e.turn <= turns
  <2>1. e.turn <= turns
    BY <1>2 DEF TypeInv, ReportedTyped
  <2> QED BY <1>2, <2>1 DEF ProviderEvents, EndedEvents
<1>4. number \in Nat
  BY <1>3, LastNumberTyped DEF TypeInv, ProjectionsTyped
<1>5. active \in Turns \cup {NoTurn}
  BY ReadSessionTyped DEF TypeInv, ProjectionsTyped, Tables
<1>6. ingesting' = i /\ reported' = Tail(reported)
  BY DEF IngestReads
<1>7. owned \in BOOLEAN /\ tracked \in BOOLEAN
  OBVIOUS
<1> HIDE DEF e, active, owned, tracked, number
<1>8. i \in Readings /\ i.event = e
  BY <1>2, <1>4, <1>5, <1>7 DEF Readings
<1>9. IngestingTyped'
  BY <1>3, <1>6, <1>8 DEF IngestReads, provider, IngestingTyped
<1>10. ReportedTyped'
  <2>1. turns' = turns
    BY DEF IngestReads, provider
  <2>2. /\ Tail(reported) \in Seq(ProviderEvents) /\ Len(Tail(reported)) = Len(reported) - 1
        /\ \A j \in 1..Len(Tail(reported)) :
             j + 1 \in 1..Len(reported) /\ Tail(reported)[j] = reported[j + 1]
    BY <1>1
  <2>3. ASSUME NEW j \in 1..Len(Tail(reported)) PROVE Tail(reported)[j].turn <= turns
    BY <2>2 DEF TypeInv, ReportedTyped
  <2> QED BY <1>6, <2>1, <2>2, <2>3 DEF ReportedTyped
<1> QED BY <1>9, <1>10, Untouched DEF IngestReads, TypeInv, reactor, provider, checkpoints

\* What the ingestion holds.
LEMMA IngestedEvent ==
  ASSUME TypeInv, ingesting # Nothing
  PROVE  /\ ingesting \in Readings /\ ingesting.event \in ProviderEvents
         /\ ingesting.event.turn \in Turns /\ ingesting.event.at \in Instants
         /\ ingesting.event.turn \in 1..turns /\ ingesting.number \in Nat
<1>1. ingesting \in Readings /\ ingesting.event.turn <= turns /\ turns \in Nat
  BY RunningTurn DEF TypeInv, IngestingTyped
<1>2. ingesting.event \in ProviderEvents /\ ingesting.number \in Nat
  BY <1>1 DEF Readings
<1>3. ingesting.event.turn \in Turns /\ ingesting.event.at \in Instants
  BY <1>2 DEF ProviderEvents, EndedEvents
<1>4. ingesting.event.turn \in 1..turns
  <2>1. \A t \in Turns : t <= turns => t \in 1..turns
    BY <1>1, TurnsAssumption
  <2> QED BY <1>1, <1>3, <2>1
<1> QED BY <1>1, <1>2, <1>3, <1>4

LEMMA SessionAfterTyped ==
  ASSUME NEW outcome
  PROVE  SessionAfter(outcome) \in Closing
BY DEF SessionAfter, Closing

LEMMA IngestLifecycleTyped ==
  ASSUME TypeInv, IngestLifecycle
  PROVE  TypeInv'
<1>1. ProjectionsTyped'
  <2>1. CASE UNCHANGED <<mem, db>>
    BY <2>1, Untouched
  <2>2. CASE Project(SessionSet("running", ingesting.event.turn, ingesting.event.at))
    BY <2>2, IngestedEvent, EventKinds, ProjectedTyped DEF IngestLifecycle, TypeInv
  <2>3. CASE Project(SessionSet(SessionAfter(ingesting.event.outcome), NoTurn,
                                ingesting.event.at))
    <3>1. SessionAfter(ingesting.event.outcome) \in Closing
      BY SessionAfterTyped
    <3> QED BY <2>3, <3>1, IngestedEvent, EventKinds, ProjectedTyped
            DEF IngestLifecycle, TypeInv
  <2> QED BY <2>1, <2>2, <2>3 DEF IngestLifecycle
<1>2. ReceiptsTyped'
  BY IngestedEvent DEF IngestLifecycle, TypeInv, ReceiptsTyped, provider
<1>3. IngestingTyped'
  BY DEF IngestLifecycle, IngestingTyped
<1> QED BY <1>1, <1>2, <1>3, Untouched
        DEF IngestLifecycle, TypeInv, reactor, provider, checkpoints

LEMMA IngestReopenedTyped ==
  ASSUME TypeInv, IngestReopened
  PROVE  TypeInv'
<1>1. ingesting.event.turn \in Turns /\ ingesting.event.at \in Instants
  BY IngestedEvent DEF IngestReopened
<1>2. ProjectionsTyped'
  BY <1>1, RecoveredTyped, Untouched DEF IngestReopened, TypeInv
<1>3. IngestingTyped'
  BY DEF IngestReopened, IngestingTyped
<1> QED BY <1>2, <1>3, Untouched
        DEF IngestReopened, TypeInv, reactor, provider, checkpoints

LEMMA IngestDiffTyped ==
  ASSUME TypeInv, IngestDiff
  PROVE  TypeInv'
<1> DEFINE e == ingesting.event
           p == [kind |-> "placeholder", turn |-> e.turn, number |-> ingesting.number,
                 at |-> e.at]
<1>1. ingesting # Nothing /\ ingesting' = Nothing /\ UNCHANGED capturing
      /\ \/ UNCHANGED <<mem, db, captures>>
         \/ /\ Project(DiffCompleted(e.turn, ingesting.number, "missing", e.at))
            /\ captures' = Append(captures, p)
  BY DEF IngestDiff
<1>2. e.turn \in Turns /\ e.at \in Instants /\ ingesting.number \in Nat
  BY <1>1, IngestedEvent
<1>3. p \in Placeholders
  BY <1>2 DEF Placeholders
<1>4. DiffCompleted(e.turn, ingesting.number, "missing", e.at) \in DomainEvents
  BY <1>2, EventKinds DEF TakenStatuses
<1> HIDE DEF p
<1>5. ProjectionsTyped'
  BY <1>1, <1>4, ProjectedTyped, Untouched DEF TypeInv
<1>6. CapturesTyped'
  BY <1>1, <1>3 DEF TypeInv, CapturesTyped
<1>7. IngestingTyped'
  BY <1>1 DEF IngestingTyped
<1> QED BY <1>5, <1>6, <1>7, Untouched DEF IngestDiff, TypeInv, reactor, provider

\* What is at the head of the captures.
LEMMA CaptureHead ==
  ASSUME TypeInv, captures # <<>>
  PROVE  /\ Tail(captures) \in Seq(EndedEvents \cup Placeholders)
         /\ Head(captures).kind = "ended" => Head(captures) \in EndedEvents
         /\ Head(captures).kind = "placeholder" => Head(captures) \in Placeholders
<1>1. captures \in Seq(EndedEvents \cup Placeholders)
  BY DEF TypeInv, CapturesTyped
<1>2. Head(captures) \in EndedEvents \cup Placeholders
  BY <1>1
<1> QED BY <1>1, <1>2 DEF EndedEvents, Placeholders

LEMMA CaptureCompletionTyped ==
  ASSUME TypeInv, CaptureCompletion
  PROVE  TypeInv'
<1> DEFINE e == Head(captures)
<1>1. e \in EndedEvents /\ captures' \in Seq(EndedEvents \cup Placeholders)
  BY CaptureHead DEF CaptureCompletion
<1>2. e.turn \in Turns /\ e.at \in Instants
  BY <1>1 DEF EndedEvents
<1>3. CaptureNumber(e.turn) \in Nat
  BY <1>2, LastNumberTyped DEF CaptureNumber, TypeInv, ProjectionsTyped, Tables
<1>4. CheckpointStatus(e.outcome) \in TakenStatuses
  BY DEF CheckpointStatus, TakenStatuses
<1>5. capturing' \in {Nothing, Capture(e.turn, CaptureNumber(e.turn),
                                       CheckpointStatus(e.outcome), e.at)}
  BY DEF CaptureCompletion
<1>6. CapturesTyped'
  <2> DEFINE number == CaptureNumber(e.turn)
             status == CheckpointStatus(e.outcome)
  <2>1. number \in Nat /\ status \in TakenStatuses
        /\ capturing' \in {Nothing, Capture(e.turn, number, status, e.at)}
    BY <1>3, <1>4, <1>5
  <2> HIDE DEF e, number, status
  <2>2. Capture(e.turn, number, status, e.at) \in Captures
    BY <1>2, <2>1 DEF Capture, Captures
  <2> QED BY <1>1, <2>1, <2>2 DEF CapturesTyped
<1> QED BY <1>6, Untouched DEF CaptureCompletion, TypeInv, reactor, provider, ingestion

LEMMA CaptureGivenUpTyped ==
  ASSUME TypeInv, CaptureGivenUp
  PROVE  TypeInv'
<1>1. CapturesTyped'
  BY CaptureHead DEF CaptureGivenUp, TypeInv, CapturesTyped
<1> QED BY <1>1, Untouched DEF CaptureGivenUp, TypeInv, reactor, provider, ingestion

LEMMA CapturePlaceholderTyped ==
  ASSUME TypeInv, CapturePlaceholder
  PROVE  TypeInv'
<1> DEFINE e == Head(captures)
<1>1. e \in Placeholders /\ captures' \in Seq(EndedEvents \cup Placeholders)
  BY CaptureHead DEF CapturePlaceholder
<1>2. capturing' \in {Nothing, Capture(e.turn, e.number, "ready", e.at)}
  BY DEF CapturePlaceholder
<1>3. CapturesTyped'
  <2> HIDE DEF e
  <2>1. Capture(e.turn, e.number, "ready", e.at) \in Captures
    BY <1>1 DEF Capture, Captures, Placeholders, TakenStatuses
  <2> QED BY <1>1, <1>2, <2>1 DEF CapturesTyped
<1> QED BY <1>3, Untouched DEF CapturePlaceholder, TypeInv, reactor, provider, ingestion

LEMMA CaptureWritesTyped ==
  ASSUME TypeInv, CaptureWrites
  PROVE  TypeInv'
<1> DEFINE p == [kind |-> "placeholder", turn |-> capturing.turn,
                 number |-> capturing.number, at |-> capturing.at]
<1>1. capturing \in Captures
  BY DEF CaptureWrites, TypeInv, CapturesTyped
<1>2. p \in Placeholders
  BY <1>1 DEF Captures, Placeholders
<1>3. DiffCompleted(capturing.turn, capturing.number, capturing.status, capturing.at)
        \in DomainEvents
  BY <1>1, EventKinds DEF Captures
<1>4. captures' \in {captures, Append(captures, p)} /\ capturing' = Nothing
  BY DEF CaptureWrites
<1> HIDE DEF p
<1>5. CapturesTyped'
  BY <1>2, <1>4 DEF TypeInv, CapturesTyped
<1>6. ProjectionsTyped'
  BY <1>3, ProjectedTyped DEF CaptureWrites, TypeInv
<1> QED BY <1>5, <1>6, Untouched DEF CaptureWrites, TypeInv, reactor, provider, ingestion

LEMMA CaptureFailsTyped ==
  ASSUME TypeInv, CaptureFails
  PROVE  TypeInv'
<1>1. CapturesTyped'
  BY DEF CaptureFails, TypeInv, CapturesTyped
<1> QED BY <1>1, Untouched DEF CaptureFails, TypeInv, reactor, provider, ingestion

LEMMA InitTyped ==
  ASSUME Init
  PROVE  TypeInv
<1> USE DEF Init
<1>1. ProjectionsTyped
  <2>1. mem \in Memory
    BY DEF NewMemory, Memory, SessionStatuses, TurnStates, CheckpointStatuses, NoTime
  <2>2. db \in Tables /\ \A t \in Turns : db.number[t] <= 0
    BY DEF NewTables, Tables, SessionStatuses, TurnStates, CheckpointStatuses, NoTime
  <2> QED BY <2>1, <2>2 DEF ProjectionsTyped, Bounded
<1>2. CountersTyped /\ IntentsTyped /\ OverlapTyped
  BY ThreadAssumption DEF CountersTyped, IntentsTyped, OverlapTyped, NoTime
<1>3. CallsTyped
  <2>1. CallTyped(NoCall)
    BY DEF CallTyped, CallRecords, NoCall, NoTurn, NoTime
  <2> QED BY <2>1 DEF CallsTyped, CallTyped
<1>4. ProviderTyped
  <2>1. turns = 0 /\ running = 0 /\ stopping = FALSE /\ diffed = FALSE /\ NoTurn = 0
    BY DEF NoTurn
  <2> HIDE DEF Init
  <2>2. turns \in Turns \cup {NoTurn} /\ running \in 0..turns
    BY <2>1
  <2>3. stopping \in BOOLEAN /\ diffed \in BOOLEAN
    BY <2>1
  <2> QED BY <2>2, <2>3 DEF ProviderTyped
<1>5. ReportedTyped /\ IngestingTyped /\ ReceiptsTyped /\ CapturesTyped
  BY DEF ReportedTyped, IngestingTyped, ReceiptsTyped, CapturesTyped
<1>6. EndedTyped
  BY DEF EndedTyped
<1> QED BY <1>1, <1>2, <1>3, <1>4, <1>5, <1>6 DEF TypeInv

LEMMA StepTyped ==
  ASSUME TypeInv, [Next]_vars
  PROVE  TypeInv'
<1>1. CASE OperatorStep
  BY <1>1, StartTurnTyped, InterruptTyped DEF OperatorStep
<1>2. CASE ReactorStep
  BY <1>2, ReactStartTyped, ReactInterruptTyped DEF ReactorStep
<1>3. CASE \E r \in Requests : CallStep(r)
  BY <1>3, SendTurnTyped, SendSteersTyped, CallFailsTyped, SteerTurnTyped,
     SteerBecomesSendTyped, StartFailedTyped, MarkSteeredTyped, MarkReadsTyped,
     MarkWritesTyped DEF CallStep
<1>4. CASE ProviderStep
  BY <1>4, ProviderDiffTyped, ProviderEndsTyped, ProviderReopensTyped DEF ProviderStep
<1>5. CASE IngestionStep
  BY <1>5, IngestReadsTyped, IngestLifecycleTyped, IngestReopenedTyped, IngestDiffTyped
     DEF IngestionStep
<1>6. CASE CheckpointStep
  BY <1>6, CaptureCompletionTyped, CaptureGivenUpTyped, CapturePlaceholderTyped,
     CaptureWritesTyped, CaptureFailsTyped DEF CheckpointStep
<1>7. CASE UNCHANGED vars
  BY <1>7, Untouched DEF TypeInv, vars, reactor, provider, ingestion, checkpoints
<1> QED BY <1>1, <1>2, <1>3, <1>4, <1>5, <1>6, <1>7 DEF Next

(***************************************************************************)
(* The thread, its calls, its events and its captures always have their    *)
(* types: no event writes a turn, a state or a number that is not one, and *)
(* every call that has an answer names the turn that answered.             *)
(***************************************************************************)
THEOREM TypesHold == Spec => []TypeOK
<1>1. TypeInv => TypeOK
  BY DEF TypeInv, ProjectionsTyped, CountersTyped, CallsTyped, CallRecords,
         ProviderTyped, EndedTyped, ReceiptsTyped, OverlapTyped, TypeOK
<1>2. Spec => []TypeInv
  BY InitTyped, StepTyped, PTL DEF Spec
<1> QED BY <1>1, <1>2, PTL

-----------------------------------------------------------------------------
(* A turn that is over does not run again.                                 *)

\* The ingestion projects the session that recovers a turn.
RecoveryTaken(t) ==
  Recovers(t) /\ \E at \in Instants : Project(Recovery(t, at))

LEMMA RecoveryIngested ==
  ASSUME TypeInv, IngestReopened
  PROVE  UNCHANGED <<mem, db>> \/ \E t \in Turns : RecoveryTaken(t)
<1>1. ingesting.event.turn \in Turns /\ ingesting.event.at \in Instants
  BY IngestedEvent DEF IngestReopened
<1> QED BY <1>1 DEF IngestReopened, RecoveryTaken, Recovers

\* A step projects one event, or leaves both projections alone.
LEMMA StepProjects ==
  ASSUME TypeInv, [Next]_vars
  PROVE  \/ UNCHANGED <<mem, db>>
         \/ \E e \in DomainEvents : Project(e)
         \/ \E t \in Turns : RecoveryTaken(t)
<1>1. CASE OperatorStep
  <2>1. CASE StartTurn
    BY <2>1, Clocked, EventKinds DEF StartTurn
  <2>2. CASE \E t \in Turns \cup {NoTurn} : Interrupt(t)
    <3>1. PICK named \in Turns \cup {NoTurn} : Interrupt(named)
      BY <2>2
    <3> DEFINE turn == IF named # NoTurn THEN named ELSE MemoryActive(mem)
    <3>2. Project(InterruptRequested(turn, Now))
      BY <3>1 DEF Interrupt
    <3>3. turn \in Turns \cup {NoTurn}
      BY MemoryActiveTyped DEF TypeInv, ProjectionsTyped
    <3> QED BY <3>2, <3>3, Clocked, EventKinds
  <2> QED BY <1>1, <2>1, <2>2 DEF OperatorStep
<1>2. CASE ReactorStep
  BY <1>2 DEF ReactorStep, ReactStart, ReactInterrupt
<1>3. CASE \E r \in Requests : CallStep(r)
  <2>1. PICK r \in Requests : CallStep(r)
    BY <1>3
  <2>2. CallTyped(calls[r])
    BY DEF TypeInv, CallsTyped
  <2>3. CASE SteerBecomesSend(r)
    BY <2>3, Clocked, EventKinds DEF SteerBecomesSend, Closing
  <2>4. CASE StartFailed(r)
    BY <2>2, <2>4, EventKinds DEF StartFailed, CallTyped, Closing
  <2>5. CASE MarkSteered(r)
    BY <2>2, <2>5, Clocked, EventKinds DEF MarkSteered, CallTyped
  <2>6. CASE MarkWrites(r)
    BY <2>2, <2>6, EventKinds DEF MarkWrites, CallTyped
  <2>7. CASE SendTurn(r) \/ SendSteers(r) \/ CallFails(r) \/ SteerTurn(r) \/ MarkReads(r)
    BY <2>7 DEF SendTurn, SendSteers, CallFails, SteerTurn, MarkReads
  <2> QED BY <2>1, <2>3, <2>4, <2>5, <2>6, <2>7 DEF CallStep
<1>4. CASE ProviderStep
  BY <1>4 DEF ProviderStep, ProviderDiff, ProviderEnds, ProviderReopens
<1>5. CASE IngestionStep
  <2>1. CASE IngestReads
    BY <2>1 DEF IngestReads
  <2>4. CASE IngestReopened
    BY <2>4, RecoveryIngested
  <2>2. CASE IngestLifecycle
    <3>1. ingesting.event.turn \in Turns /\ ingesting.event.at \in Instants
      BY <2>2, IngestedEvent DEF IngestLifecycle
    <3>2. SessionAfter(ingesting.event.outcome) \in Closing
      BY SessionAfterTyped
    <3> QED BY <2>2, <3>1, <3>2, EventKinds DEF IngestLifecycle
  <2>3. CASE IngestDiff
    <3>1. /\ ingesting.event.turn \in Turns /\ ingesting.event.at \in Instants
          /\ ingesting.number \in Nat
      BY <2>3, IngestedEvent DEF IngestDiff
    <3> QED BY <2>3, <3>1, EventKinds DEF IngestDiff, TakenStatuses
  <2> QED BY <1>5, <2>1, <2>2, <2>3, <2>4 DEF IngestionStep
<1>6. CASE CheckpointStep
  <2>1. CASE CaptureWrites
    <3>1. capturing \in Captures
      BY <2>1 DEF CaptureWrites, TypeInv, CapturesTyped
    <3> QED BY <2>1, <3>1, EventKinds DEF CaptureWrites, Captures
  <2>2. CASE CaptureCompletion \/ CaptureGivenUp \/ CapturePlaceholder \/ CaptureFails
    BY <2>2 DEF CaptureCompletion, CaptureGivenUp, CapturePlaceholder, CaptureFails
  <2> QED BY <1>6, <2>1, <2>2 DEF CheckpointStep
<1>7. CASE UNCHANGED vars
  BY <1>7 DEF vars
<1> QED BY <1>1, <1>2, <1>3, <1>4, <1>5, <1>6, <1>7 DEF Next

\* Memory knows when its latest turn was over.
EndKnown(m) == m.state \in Terminal => m.done # NoTime

LEMMA MemoryKeeps ==
  ASSUME NEW m \in Memory, EndKnown(m), NEW e \in DomainEvents,
         NEW n, n = MemoryAfter(m, e)
  PROVE  /\ EndKnown(n)
         /\ m.state \in Terminal /\ n.latest = m.latest => n.state \in Terminal
<1>0. \A at \in Instants : at # NoTime
  BY DEF Instants, NoTime
<1>1. CASE e \in StartEvents
  <2>1. PICK at \in Instants : e = StartRequested(at)
    BY <1>1 DEF StartEvents
  <2>2. n.state = m.state /\ n.done = m.done
    BY <2>1, StartOnMemory
  <2> QED BY <2>2 DEF EndKnown
<1>2. CASE e \in InterruptEvents
  <2>1. PICK turn \in Turns \cup {NoTurn}, at \in Instants :
          e = InterruptRequested(turn, at)
    BY <1>2 DEF InterruptEvents
  <2>2. \/ n.state = m.state /\ n.done = m.done
        \/ n.state = "interrupted" /\ n.done \in {m.done, at}
             /\ (n.done = m.done => m.done # NoTime \/ m.done = at)
    BY <2>1, InterruptOnMemory
  <2> QED BY <1>0, <2>2 DEF EndKnown, Terminal
<1>3. CASE e \in RunningEvents
  <2>1. PICK t \in Turns, at \in Instants : e = SessionSet("running", t, at)
    BY <1>3 DEF RunningEvents
  <2>2. \/ n = m
        \/ /\ ~MemoryIgnores(m, t, at)
           /\ n.latest = t /\ n.state = "running" /\ t # NoTurn
    BY <2>1, RunningOnMemory, RecordTypes
  <2> QED BY <2>2, ClosingStatuses DEF EndKnown, MemoryIgnores
<1>4. CASE e \in ClosingEvents
  <2>1. PICK status \in Closing, at \in Instants : e = SessionSet(status, NoTurn, at)
    BY <1>4 DEF ClosingEvents
  <2>2. \/ n.state = m.state /\ n.done = m.done
        \/ /\ n.state = IF m.state \in {"error", "interrupted"} THEN m.state
                        ELSE ClosedState(status)
           /\ \/ n.done = m.done /\ m.done # NoTime
              \/ n.done = at
    BY <2>1, ClosingOnMemory
  <2>3. ClosedState(status) \in Terminal
    BY ClosedStateTyped
  <2> QED BY <1>0, <2>2, <2>3 DEF EndKnown
<1>5. CASE e \in DiffEvents
  <2>1. PICK turn \in Turns, number \in Nat, status \in TakenStatuses, at \in Instants :
          e = DiffCompleted(turn, number, status, at)
    BY <1>5 DEF DiffEvents
  <2>2. \/ n.state = m.state /\ n.done = m.done
        \/ n.state \in Terminal /\ n.done = at
    BY <2>1, DiffOnMemory
  <2> QED BY <1>0, <2>2 DEF EndKnown
<1> QED BY <1>1, <1>2, <1>3, <1>4, <1>5 DEF DomainEvents

(***************************************************************************)
(* A turn that is over does not run again, in the rows of the database as  *)
(* in memory while it is the latest, whichever of a mark, a start, an end, *)
(* an interrupt and a checkpoint is written late, and however often, also  *)
(* when turns are reopened: the only step that makes an ended turn run is  *)
(* the one with which the ingestion takes the event that reopens that turn *)
(* (Recovers), and it makes no other ended turn run.                       *)
(***************************************************************************)
THEOREM EndedTurnsStayEnded == Spec => TurnsStayEnded
<1> DEFINE Stays ==
             /\ \A t \in Turns :
                  db.state[t] \in Terminal => db.state'[t] \in Terminal \/ Recovers(t)
             /\ mem.state \in Terminal /\ mem.latest' = mem.latest =>
                  mem.state' \in Terminal \/ Recovers(mem.latest)
           Inv == TypeInv /\ EndKnown(mem)
<1>1. Init => Inv
  <2>1. Init => mem.state = "none"
    BY DEF Init, NewMemory
  <2> QED BY <2>1, InitTyped, ClosingStatuses DEF EndKnown
<1>2. ASSUME Inv, [Next]_vars
      PROVE  EndKnown(mem)' /\ Stays
  <2>0. mem \in Memory /\ db \in Tables /\ EndKnown(mem)
    BY <1>2 DEF TypeInv, ProjectionsTyped
  <2>1. CASE UNCHANGED <<mem, db>>
    BY <1>2, <2>1 DEF EndKnown
  <2>2. CASE \E e \in DomainEvents : Project(e)
    <3>1. PICK e \in DomainEvents : Project(e)
      BY <2>2
    <3>3. mem' = MemoryAfter(mem, e) /\ db' = TablesAfter(db, e)
      BY <3>1 DEF Project
    <3>4. /\ EndKnown(mem')
          /\ mem.state \in Terminal /\ mem'.latest = mem.latest => mem'.state \in Terminal
      BY <2>0, <3>3, MemoryKeeps
    <3>5. OverKept(db', db)
      BY <2>0, <3>3, TablesTyped
    <3> QED BY <3>4, <3>5 DEF OverKept, EndKnown
  <2>3. CASE \E t \in Turns : RecoveryTaken(t)
    <3>1. PICK t \in Turns : RecoveryTaken(t)
      BY <2>3
    <3>2. PICK at \in Instants : Project(Recovery(t, at))
      BY <3>1 DEF RecoveryTaken
    <3>3. mem' = MemoryAfter(mem, Recovery(t, at)) /\ db' = TablesAfter(db, Recovery(t, at))
      BY <3>2 DEF Project
    <3>4. mem'.latest = t /\ mem'.state = "running"
      BY <2>0, <3>3, RecoveryOnMemory
    <3>5. OthersKept(db', db, t)
      BY <2>0, <3>3, RecoveryOnTables
    <3>6. ASSUME NEW u \in Turns, db.state[u] \in Terminal
          PROVE  db'.state[u] \in Terminal \/ u = t
      BY <3>5, <3>6, ClosingStatuses DEF OthersKept
    <3> QED BY <3>1, <3>4, <3>6, ClosingStatuses DEF RecoveryTaken, EndKnown
  <2> QED BY <1>2, <2>1, <2>2, <2>3, StepProjects
<1>3. Inv /\ [Next]_vars => Inv'
  BY <1>2, StepTyped
<1>4. Inv /\ [Next]_vars => [Stays]_vars
  BY <1>2
<1> HIDE DEF Inv, Stays
<1>5. Spec => [][Stays]_vars
  BY <1>1, <1>3, <1>4, PTL DEF Spec
<1> QED BY <1>5 DEF Stays, TurnsStayEnded

-----------------------------------------------------------------------------
(* The steps of a provider that goes on with no turn after its end.  What  *)
(* follows is about these, up to the first turn that is reopened: from     *)
(* then on the events of one turn may come in any number of rounds, and    *)
(* those of an earlier turn after those of a later one.                    *)

SteadyProvider == ProviderDiff \/ \E o \in Endings : ProviderEnds(o)
SteadyIngestion == IngestReads \/ IngestLifecycle \/ IngestDiff

SteadyNext ==
  \/ OperatorStep
  \/ ReactorStep
  \/ \E r \in Requests : CallStep(r)
  \/ SteadyProvider
  \/ SteadyIngestion
  \/ CheckpointStep

LEMMA SteadyIsNext ==
  ASSUME [SteadyNext]_vars
  PROVE  [Next]_vars
BY DEF SteadyNext, SteadyProvider, SteadyIngestion, Next, ProviderStep, IngestionStep

-----------------------------------------------------------------------------
(* The events of the provider, in their order.                             *)

\* A turn's start comes first, then its diff, then its end.
Rank(e) == IF e.kind = "started" THEN 1 ELSE IF e.kind = "diff" THEN 2 ELSE 3

Earlier(e, f) ==
  /\ e.turn < f.turn \/ (e.turn = f.turn /\ Rank(e) < Rank(f))
  /\ e.at < f.at

\* The events that are ahead of the ingestion, with the one in its hands.
Ahead ==
  {reported[i] : i \in 1..Len(reported)}
    \cup (IF ingesting = Nothing THEN {} ELSE {ingesting.event})

\* The completions, placeholders and captures of CheckpointReactor.
Items ==
  {captures[i] : i \in 1..Len(captures)}
    \cup (IF capturing = Nothing THEN {} ELSE {capturing})

Ordered ==
  /\ \A i, j \in 1..Len(reported) : i < j => Earlier(reported[i], reported[j])
  /\ ingesting # Nothing =>
       \A i \in 1..Len(reported) : Earlier(ingesting.event, reported[i])

Told ==
  \A e \in Ahead : e.turn <= turns /\ e.at <= clock /\ e.kind # "reopened"

\* The provider runs the last turn, whose end is not reported.
ProviderRuns ==
  /\ running \in {NoTurn, turns}
  /\ running # NoTurn => /\ running \notin receipts
                         /\ \A e \in Ahead : e.turn = running => e.kind # "ended"
  /\ running # NoTurn /\ ~diffed => \A e \in Ahead : e.turn = running => e.kind # "diff"

ReceiptsPast == \A t \in receipts : \A e \in Ahead : t < e.turn

\* Every turn ends, or its end is known or reported.
EndsKnown ==
  \A t \in 1..turns :
    t \in receipts \/ running = t \/ \E e \in Ahead : e.turn = t /\ e.kind = "ended"

\* The start of turn t, and that of every turn before, was ingested.
Seen(t) == \A e \in Ahead : e.kind = "started" => t < e.turn

ItemsPast ==
  \A c \in Items :
    /\ c.turn <= turns /\ c.at <= clock
    /\ c.kind # "ended" => Seen(c.turn)
    /\ \A e \in Ahead : e.kind = "started" /\ c.turn < e.turn => c.at < e.at

QueueInv ==
  Ordered /\ Told /\ ProviderRuns /\ ReceiptsPast /\ EndsKnown /\ ItemsPast

LEMMA AheadTyped ==
  ASSUME TypeInv
  PROVE  /\ Ahead \subseteq ProviderEvents
         /\ \A e \in Ahead : /\ e.turn \in Turns /\ e.turn \in Nat
                             /\ e.at \in Instants /\ e.at \in Nat
<1>1. Ahead \subseteq ProviderEvents
  <2>1. reported \in Seq(ProviderEvents)
    BY DEF TypeInv, ReportedTyped
  <2>2. ASSUME NEW i \in 1..Len(reported) PROVE reported[i] \in ProviderEvents
    BY <2>1
  <2> QED BY <2>2, IngestedEvent DEF Ahead
<1>2. \A e \in ProviderEvents : e.turn \in Turns /\ e.at \in Instants
  BY DEF ProviderEvents, EndedEvents
<1> QED BY <1>1, <1>2, RecordTypes DEF Instants

LEMMA ItemsTyped ==
  ASSUME TypeInv
  PROVE  /\ Items \subseteq EndedEvents \cup Placeholders \cup Captures
         /\ \A c \in Items : /\ c.turn \in Turns /\ c.turn \in Nat
                             /\ c.at \in Instants /\ c.at \in Nat
<1>1. Items \subseteq EndedEvents \cup Placeholders \cup Captures
  <2>1. captures \in Seq(EndedEvents \cup Placeholders)
    BY DEF TypeInv, CapturesTyped
  <2>2. ASSUME NEW i \in 1..Len(captures) PROVE captures[i] \in EndedEvents \cup Placeholders
    BY <2>1
  <2>3. capturing # Nothing => capturing \in Captures
    BY DEF TypeInv, CapturesTyped
  <2> QED BY <2>2, <2>3 DEF Items
<1>2. \A c \in EndedEvents \cup Placeholders \cup Captures :
        c.turn \in Turns /\ c.at \in Instants
  BY DEF EndedEvents, Placeholders, Captures
<1> QED BY <1>1, <1>2, RecordTypes DEF Instants

\* The provider reports an event.
LEMMA AheadAppend ==
  ASSUME TypeInv, NEW e \in ProviderEvents,
         reported' = Append(reported, e), ingesting' = ingesting
  PROVE  Ahead' = Ahead \cup {e}
<1>1. reported \in Seq(ProviderEvents)
  BY DEF TypeInv, ReportedTyped
<1>2. /\ Len(reported') = Len(reported) + 1 /\ Len(reported) \in Nat
      /\ reported'[Len(reported) + 1] = e
      /\ \A i \in 1..Len(reported) : reported'[i] = reported[i]
  BY <1>1
<1>3. {reported'[i] : i \in 1..Len(reported')} =
        {reported[i] : i \in 1..Len(reported)} \cup {e}
  <2>1. ASSUME NEW i \in 1..Len(reported')
        PROVE  i = Len(reported) + 1 \/ i \in 1..Len(reported)
    BY <1>2
  <2>2. ASSUME NEW i \in 1..Len(reported)
        PROVE  i \in 1..Len(reported')
    BY <1>2
  <2>3. Len(reported) + 1 \in 1..Len(reported')
    BY <1>2
  <2> QED BY <1>2, <2>1, <2>2, <2>3
<1> QED BY <1>3 DEF Ahead

\* The ingestion takes an event in its hands ...
LEMMA AheadRead ==
  ASSUME TypeInv, IngestReads
  PROVE  Ahead' = Ahead
<1>1. /\ reported \in Seq(ProviderEvents) /\ reported # <<>> /\ ingesting = Nothing
      /\ ingesting' # Nothing /\ ingesting'.event = Head(reported)
      /\ reported' = Tail(reported)
  BY DEF IngestReads, Nothing, TypeInv, ReportedTyped
<1>2. /\ Len(reported) \in Nat /\ Len(reported) >= 1 /\ Head(reported) = reported[1]
      /\ Len(reported') = Len(reported) - 1
      /\ \A i \in 1..Len(reported') : reported'[i] = reported[i + 1]
  BY <1>1
<1>3. ASSUME NEW i \in 1..Len(reported), i # 1
      PROVE  \E j \in 1..Len(reported') : reported'[j] = reported[i]
  <2>1. i - 1 \in 1..Len(reported') /\ (i - 1) + 1 = i
    BY <1>2, <1>3
  <2> QED BY <1>2, <2>1
<1>4. ASSUME NEW j \in 1..Len(reported')
      PROVE  \E i \in 1..Len(reported) : reported'[j] = reported[i]
  <2>1. j + 1 \in 1..Len(reported)
    BY <1>2
  <2> QED BY <1>2, <2>1
<1>5. 1 \in 1..Len(reported)
  BY <1>2
<1> QED BY <1>1, <1>2, <1>3, <1>4, <1>5 DEF Ahead

\* ... and is done with it.
LEMMA AheadDone ==
  ASSUME TypeInv, Ordered, ingesting # Nothing, ingesting' = Nothing,
         reported' = reported
  PROVE  /\ Ahead' \subseteq Ahead /\ Ahead = Ahead' \cup {ingesting.event}
         /\ \A f \in Ahead' : Earlier(ingesting.event, f)
BY DEF Ahead, Ordered

LEMMA AheadSame ==
  ASSUME reported' = reported, ingesting' = ingesting
  PROVE  Ahead' = Ahead
BY DEF Ahead

LEMMA OrderedAppend ==
  ASSUME TypeInv, Ordered, NEW e \in ProviderEvents,
         reported' = Append(reported, e), ingesting' = ingesting,
         \A f \in Ahead : Earlier(f, e)
  PROVE  Ordered'
<1>1. reported \in Seq(ProviderEvents)
  BY DEF TypeInv, ReportedTyped
<1>2. /\ Len(reported') = Len(reported) + 1 /\ Len(reported) \in Nat
      /\ reported'[Len(reported) + 1] = e
      /\ \A i \in 1..Len(reported) : reported'[i] = reported[i]
  BY <1>1
<1>3. /\ \A i \in 1..Len(reported) : Earlier(reported[i], e)
      /\ ingesting # Nothing => Earlier(ingesting.event, e)
  BY DEF Ahead
<1>4. ASSUME NEW i \in 1..Len(reported'), NEW j \in 1..Len(reported'), i < j
      PROVE  Earlier(reported'[i], reported'[j])
  <2>1. i \in 1..Len(reported) /\ reported'[i] = reported[i]
    BY <1>2, <1>4
  <2>2. CASE j = Len(reported) + 1
    BY <1>2, <1>3, <2>1, <2>2
  <2>3. CASE j # Len(reported) + 1
    <3>1. j \in 1..Len(reported) /\ reported'[j] = reported[j]
      BY <1>2, <2>3
    <3> QED BY <1>4, <2>1, <3>1 DEF Ordered
  <2> QED BY <2>2, <2>3
<1>5. ASSUME ingesting' # Nothing, NEW i \in 1..Len(reported')
      PROVE  Earlier(ingesting'.event, reported'[i])
  <2>1. CASE i = Len(reported) + 1
    BY <1>2, <1>3, <1>5, <2>1
  <2>2. CASE i # Len(reported) + 1
    <3>1. i \in 1..Len(reported) /\ reported'[i] = reported[i]
      BY <1>2, <2>2
    <3> QED BY <1>5, <3>1 DEF Ordered
  <2> QED BY <2>1, <2>2
<1> QED BY <1>4, <1>5 DEF Ordered

LEMMA OrderedRead ==
  ASSUME TypeInv, Ordered, IngestReads
  PROVE  Ordered'
<1>1. /\ reported \in Seq(ProviderEvents) /\ reported # <<>>
      /\ ingesting'.event = Head(reported)
      /\ reported' = Tail(reported)
  BY DEF IngestReads, TypeInv, ReportedTyped
<1>2. /\ Len(reported) \in Nat /\ Len(reported) >= 1 /\ Head(reported) = reported[1]
      /\ Len(reported') = Len(reported) - 1
      /\ \A i \in 1..Len(reported') : reported'[i] = reported[i + 1]
  BY <1>1
<1>3. ASSUME NEW i \in 1..Len(reported')
      PROVE  1 \in 1..Len(reported) /\ i + 1 \in 1..Len(reported) /\ 1 < i + 1
  BY <1>2
<1>4. ASSUME NEW i \in 1..Len(reported'), NEW j \in 1..Len(reported'), i < j
      PROVE  Earlier(reported'[i], reported'[j])
  <2>1. i + 1 < j + 1
    BY <1>4
  <2> QED BY <1>2, <1>3, <2>1 DEF Ordered
<1>5. ASSUME NEW i \in 1..Len(reported') PROVE Earlier(ingesting'.event, reported'[i])
  BY <1>1, <1>2, <1>3 DEF Ordered
<1> QED BY <1>4, <1>5 DEF Ordered

LEMMA ItemsAppend ==
  ASSUME TypeInv, NEW c \in EndedEvents \cup Placeholders,
         captures' = Append(captures, c)
  PROVE  {captures'[i] : i \in 1..Len(captures')} =
           {captures[i] : i \in 1..Len(captures)} \cup {c}
<1>1. captures \in Seq(EndedEvents \cup Placeholders)
  BY DEF TypeInv, CapturesTyped
<1>2. /\ Len(captures') = Len(captures) + 1 /\ Len(captures) \in Nat
      /\ captures'[Len(captures) + 1] = c
      /\ \A i \in 1..Len(captures) : captures'[i] = captures[i]
  BY <1>1
<1>3. ASSUME NEW i \in 1..Len(captures')
      PROVE  i = Len(captures) + 1 \/ i \in 1..Len(captures)
  BY <1>2
<1>4. ASSUME NEW i \in 1..Len(captures)
      PROVE  i \in 1..Len(captures')
  BY <1>2
<1>5. Len(captures) + 1 \in 1..Len(captures')
  BY <1>2
<1> QED BY <1>2, <1>3, <1>4, <1>5

LEMMA ItemsTaken ==
  ASSUME TypeInv, capturing = Nothing, captures # <<>>, captures' = Tail(captures)
  PROVE  /\ Head(captures) \in Items
         /\ Items' \subseteq Items \cup (IF capturing' = Nothing THEN {} ELSE {capturing'})
<1>1. captures \in Seq(EndedEvents \cup Placeholders)
  BY DEF TypeInv, CapturesTyped
<1>2. /\ Len(captures) \in Nat /\ Len(captures) >= 1 /\ Head(captures) = captures[1]
      /\ Len(captures') = Len(captures) - 1
      /\ \A i \in 1..Len(captures') : captures'[i] = captures[i + 1]
  BY <1>1
<1>3. ASSUME NEW j \in 1..Len(captures')
      PROVE  \E i \in 1..Len(captures) : captures'[j] = captures[i]
  <2>1. j + 1 \in 1..Len(captures)
    BY <1>2
  <2> QED BY <1>2, <2>1
<1>4. 1 \in 1..Len(captures)
  BY <1>2
<1> QED BY <1>2, <1>3, <1>4 DEF Items

\* A step that leaves the queues and the provider's turns alone
QueuesKept ==
  /\ UNCHANGED <<turns, running, diffed, reported, ingesting, receipts, captures,
                 capturing>>
  /\ clock' \in Nat /\ clock <= clock'

LEMMA QueueSame ==
  ASSUME TypeInv, QueueInv, QueuesKept
  PROVE  QueueInv'
<1>1. Ahead' = Ahead /\ Items' = Items
  BY DEF QueuesKept, Ahead, Items
<1>2. \A e \in Ahead : e.at <= clock => e.at <= clock'
  BY AheadTyped, Clocked DEF QueuesKept
<1>3. \A c \in Items : c.at <= clock => c.at <= clock'
  BY ItemsTyped, Clocked DEF QueuesKept
<1>4. Told' /\ ItemsPast'
  BY <1>1, <1>2, <1>3 DEF QueueInv, Told, ItemsPast, Seen, QueuesKept
<1>5. Ordered'
  BY DEF QueueInv, Ordered, QueuesKept
<1>6. ProviderRuns' /\ ReceiptsPast' /\ EndsKnown'
  BY <1>1 DEF QueueInv, ProviderRuns, ReceiptsPast, EndsKnown, QueuesKept
<1> QED BY <1>4, <1>5, <1>6 DEF QueueInv

\* The provider starts a turn.
LEMMA SendTurnQueues ==
  ASSUME TypeInv, QueueInv, NEW r \in Requests, SendTurn(r)
  PROVE  QueueInv'
<1> DEFINE e == [kind |-> "started", turn |-> turns + 1, at |-> Now]
<1>1. /\ running = NoTurn /\ turns + 1 \in Turns /\ turns' = turns + 1
      /\ running' = turns + 1 /\ diffed' = FALSE /\ clock' = Now
      /\ reported' = Append(reported, e)
      /\ UNCHANGED <<ingesting, receipts, captures, capturing>>
  BY DEF SendTurn, checkpoints
<1>2. /\ turns \in Nat /\ clock \in Nat /\ Now = clock + 1 /\ Now \in Instants
      /\ receipts \subseteq 1..turns /\ NoTurn = 0
  BY RunningTurn, Clocked DEF Now, TypeInv, ReceiptsTyped, NoTurn
<1>3. e.turn = turns + 1 /\ e.at = clock + 1 /\ e.kind = "started" /\ Rank(e) = 1
      /\ e \in ProviderEvents
  BY <1>1, <1>2 DEF ProviderEvents, Rank
<1> HIDE DEF e
<1>4. /\ Ahead' = Ahead \cup {e} /\ Items' = Items
      /\ \A f \in Ahead : f.turn <= turns /\ f.at <= clock /\ f.turn \in Nat /\ f.at \in Nat
      /\ \A c \in Items : c.turn <= turns /\ c.at <= clock /\ c.turn \in Nat /\ c.at \in Nat
  BY <1>1, <1>3, AheadAppend, AheadTyped, ItemsTyped DEF QueueInv, Told, ItemsPast, Items
<1>5. Ordered'
  <2>1. \A f \in Ahead : Earlier(f, e)
    BY <1>2, <1>3, <1>4 DEF Earlier
  <2> QED BY <1>1, <1>3, <2>1, OrderedAppend DEF QueueInv
<1>6. Told'
  BY <1>1, <1>2, <1>3, <1>4 DEF QueueInv, Told
<1>7. ProviderRuns'
  <2>1. turns + 1 \notin receipts
    BY <1>2
  <2>2. \A f \in Ahead' : f.turn = turns + 1 => f.kind = "started"
    BY <1>2, <1>3, <1>4
  <2> QED BY <1>1, <2>1, <2>2 DEF ProviderRuns
<1>8. ReceiptsPast'
  <2>1. \A t \in receipts : t < e.turn
    BY <1>2, <1>3
  <2> QED BY <1>1, <1>4, <2>1 DEF QueueInv, ReceiptsPast
<1>9. EndsKnown'
  <2>1. ASSUME NEW t \in 1..turns'
        PROVE  \/ t \in receipts' \/ running' = t
               \/ \E f \in Ahead' : f.turn = t /\ f.kind = "ended"
    <3>1. CASE t = turns + 1
      BY <1>1, <3>1
    <3>2. CASE t # turns + 1
      <4>1. t \in 1..turns /\ t # running
        BY <1>1, <1>2, <3>2
      <4> QED BY <1>1, <1>4, <4>1 DEF QueueInv, EndsKnown
    <3> QED BY <3>1, <3>2
  <2> QED BY <2>1 DEF EndsKnown
<1>10. ItemsPast'
  <2>1. ASSUME NEW c \in Items
        PROVE  /\ c.turn <= turns' /\ c.at <= clock'
               /\ c.kind # "ended" => \A f \in Ahead' : f.kind = "started" => c.turn < f.turn
               /\ \A f \in Ahead' : f.kind = "started" /\ c.turn < f.turn => c.at < f.at
    <3>1. c.turn <= turns' /\ c.at <= clock' /\ c.turn < e.turn /\ c.at < e.at
      BY <1>1, <1>2, <1>3, <1>4
    <3> QED BY <1>4, <3>1 DEF QueueInv, ItemsPast, Seen
  <2> QED BY <1>4, <2>1 DEF ItemsPast, Seen
<1> QED BY <1>5, <1>6, <1>7, <1>8, <1>9, <1>10 DEF QueueInv

\* It reports a diff of the turn that it runs.
LEMMA ProviderDiffQueues ==
  ASSUME TypeInv, QueueInv, ProviderDiff
  PROVE  QueueInv'
<1> DEFINE e == [kind |-> "diff", turn |-> running, at |-> Now]
<1>1. /\ running # NoTurn /\ ~diffed /\ diffed' = TRUE /\ clock' = Now
      /\ reported' = Append(reported, e)
      /\ UNCHANGED <<turns, running, ingesting, receipts, captures, capturing>>
  BY DEF ProviderDiff, checkpoints
<1>2. /\ turns \in Nat /\ clock \in Nat /\ Now = clock + 1 /\ Now \in Instants
      /\ running = turns /\ running \in Turns
  BY <1>1, RunningTurn, Clocked DEF Now, QueueInv, ProviderRuns
<1>3. e.turn = turns /\ e.at = clock + 1 /\ e.kind = "diff" /\ Rank(e) = 2
      /\ e \in ProviderEvents
  BY <1>2 DEF ProviderEvents, Rank
<1> HIDE DEF e
<1>4. /\ Ahead' = Ahead \cup {e} /\ Items' = Items
      /\ \A f \in Ahead : f.turn <= turns /\ f.at <= clock /\ f.turn \in Nat /\ f.at \in Nat
      /\ \A c \in Items : c.turn <= turns /\ c.at <= clock /\ c.turn \in Nat /\ c.at \in Nat
  BY <1>1, <1>3, AheadAppend, AheadTyped, ItemsTyped DEF QueueInv, Told, ItemsPast, Items
<1>5. Ordered'
  <2>1. ASSUME NEW f \in Ahead PROVE Earlier(f, e)
    <3>1. f.turn = turns => f.kind = "started"
      BY <1>1, <1>2, AheadTyped
      DEF QueueInv, Told, ProviderRuns, ProviderEvents, EndedEvents
    <3>2. f.turn = turns => Rank(f) = 1
      BY <3>1 DEF Rank
    <3> QED BY <1>2, <1>3, <1>4, <3>2 DEF Earlier
  <2> QED BY <1>1, <1>3, <2>1, OrderedAppend DEF QueueInv
<1>6. Told'
  BY <1>1, <1>2, <1>3, <1>4 DEF QueueInv, Told
<1>7. ProviderRuns'
  BY <1>1, <1>3, <1>4 DEF QueueInv, ProviderRuns
<1>8. ReceiptsPast'
  <2>1. \A t \in receipts : t < e.turn
    BY <1>1, <1>2, <1>3 DEF TypeInv, ReceiptsTyped, QueueInv, ProviderRuns
  <2> QED BY <1>1, <1>4, <2>1 DEF QueueInv, ReceiptsPast
<1>9. EndsKnown'
  BY <1>1, <1>4 DEF QueueInv, EndsKnown
<1>10. ItemsPast'
  <2>1. ASSUME NEW c \in Items
        PROVE  /\ c.turn <= turns' /\ c.at <= clock'
               /\ c.kind # "ended" => \A f \in Ahead' : f.kind = "started" => c.turn < f.turn
               /\ \A f \in Ahead' : f.kind = "started" /\ c.turn < f.turn => c.at < f.at
    <3>1. c.turn <= turns' /\ c.at <= clock'
      BY <1>1, <1>2, <1>4
    <3> QED BY <1>3, <1>4, <3>1 DEF QueueInv, ItemsPast, Seen
  <2> QED BY <1>4, <2>1 DEF ItemsPast, Seen
<1> QED BY <1>5, <1>6, <1>7, <1>8, <1>9, <1>10 DEF QueueInv

\* It reports that the turn is over, to the ingestion and to the checkpoints.
LEMMA ProviderEndsQueues ==
  ASSUME TypeInv, QueueInv, NEW o \in Endings, ProviderEnds(o)
  PROVE  QueueInv'
<1> DEFINE e == [kind |-> "ended", turn |-> running, outcome |-> o, at |-> Now]
<1>1. /\ running # NoTurn /\ clock' = Now /\ running' = NoTurn
      /\ reported' = Append(reported, e) /\ captures' = Append(captures, e)
      /\ UNCHANGED <<turns, diffed, ingesting, receipts, capturing>>
  BY DEF ProviderEnds
<1>2. /\ turns \in Nat /\ clock \in Nat /\ Now = clock + 1 /\ Now \in Instants
      /\ running = turns /\ running \in Turns /\ o \in EndOutcomes
  BY <1>1, RunningTurn, Clocked, ThreadAssumption
  DEF Now, QueueInv, ProviderRuns, EndOutcomes, Endings
<1>3. e.turn = turns /\ e.at = clock + 1 /\ e.kind = "ended" /\ Rank(e) = 3
      /\ e \in EndedEvents /\ e \in ProviderEvents
  BY <1>2 DEF EndedEvents, ProviderEvents, Rank
<1> HIDE DEF e
<1>4. /\ Ahead' = Ahead \cup {e} /\ Items' = Items \cup {e}
      /\ \A f \in Ahead : f.turn <= turns /\ f.at <= clock /\ f.turn \in Nat /\ f.at \in Nat
      /\ \A c \in Items : c.turn <= turns /\ c.at <= clock /\ c.turn \in Nat /\ c.at \in Nat
  <2>1. Ahead' = Ahead \cup {e}
    BY <1>1, <1>3, AheadAppend
  <2>2. Items' = Items \cup {e}
    BY <1>1, <1>3, ItemsAppend DEF Items
  <2> QED BY <2>1, <2>2, AheadTyped, ItemsTyped DEF QueueInv, Told, ItemsPast
<1>5. Ordered'
  <2>1. ASSUME NEW f \in Ahead PROVE Earlier(f, e)
    <3>1. f.turn = turns => f.kind # "ended"
      BY <1>1, <1>2 DEF QueueInv, ProviderRuns
    <3>2. f.turn = turns => Rank(f) \in {1, 2}
      BY <3>1, AheadTyped DEF QueueInv, Told, Rank, ProviderEvents, EndedEvents
    <3> QED BY <1>2, <1>3, <1>4, <3>2 DEF Earlier
  <2> QED BY <1>1, <1>3, <2>1, OrderedAppend DEF QueueInv
<1>6. Told'
  BY <1>1, <1>2, <1>3, <1>4 DEF QueueInv, Told
<1>7. ProviderRuns'
  BY <1>1 DEF ProviderRuns
<1>8. ReceiptsPast'
  <2>1. \A t \in receipts : t < e.turn
    BY <1>1, <1>2, <1>3 DEF TypeInv, ReceiptsTyped, QueueInv, ProviderRuns
  <2> QED BY <1>1, <1>4, <2>1 DEF QueueInv, ReceiptsPast
<1>9. EndsKnown'
  BY <1>1, <1>2, <1>3, <1>4 DEF QueueInv, EndsKnown
<1>10. ItemsPast'
  <2>1. ASSUME NEW c \in Items
        PROVE  /\ c.turn <= turns' /\ c.at <= clock'
               /\ c.kind # "ended" => \A f \in Ahead' : f.kind = "started" => c.turn < f.turn
               /\ \A f \in Ahead' : f.kind = "started" /\ c.turn < f.turn => c.at < f.at
    <3>1. c.turn <= turns' /\ c.at <= clock'
      BY <1>1, <1>2, <1>4
    <3> QED BY <1>3, <1>4, <3>1 DEF QueueInv, ItemsPast, Seen
  <2>2. /\ e.turn <= turns' /\ e.at <= clock'
        /\ \A f \in Ahead' : f.kind = "started" => ~(e.turn < f.turn)
    BY <1>1, <1>2, <1>3, <1>4
  <2> QED BY <1>3, <1>4, <2>1, <2>2 DEF ItemsPast, Seen
<1> QED BY <1>5, <1>6, <1>7, <1>8, <1>9, <1>10 DEF QueueInv

LEMMA IngestReadsQueues ==
  ASSUME TypeInv, QueueInv, IngestReads
  PROVE  QueueInv'
<1>1. UNCHANGED <<clock, turns, running, diffed, receipts, captures, capturing>>
  BY DEF IngestReads, provider, checkpoints
<1>2. Ahead' = Ahead /\ Items' = Items
  BY <1>1, AheadRead DEF Items
<1>3. Ordered'
  BY OrderedRead DEF QueueInv
<1>4. Told' /\ ProviderRuns' /\ ReceiptsPast' /\ EndsKnown' /\ ItemsPast'
  BY <1>1, <1>2
  DEF QueueInv, Told, ProviderRuns, ReceiptsPast, EndsKnown, ItemsPast, Seen
<1> QED BY <1>3, <1>4 DEF QueueInv

\* The ingestion is done with an event: the ones that are left come later.
LEMMA DoneQueues ==
  ASSUME TypeInv, QueueInv, ingesting # Nothing, ingesting' = Nothing,
         UNCHANGED <<reported, clock, turns, running, diffed>>
  PROVE  /\ Ordered' /\ Told'
         /\ Ahead' \subseteq Ahead /\ Ahead = Ahead' \cup {ingesting.event}
         /\ \A f \in Ahead' : Earlier(ingesting.event, f)
         /\ ingesting.event \in Ahead
<1>1. /\ Ahead' \subseteq Ahead /\ Ahead = Ahead' \cup {ingesting.event}
      /\ \A f \in Ahead' : Earlier(ingesting.event, f)
  BY AheadDone DEF QueueInv
<1>2. Told'
  BY <1>1 DEF QueueInv, Told
<1>3. Ordered'
  BY DEF QueueInv, Ordered
<1> QED BY <1>1, <1>2, <1>3

LEMMA IngestLifecycleQueues ==
  ASSUME TypeInv, QueueInv, IngestLifecycle
  PROVE  QueueInv'
<1> DEFINE e == ingesting.event
<1>1. /\ ingesting # Nothing /\ ingesting' = Nothing /\ e.kind \in {"started", "ended"}
      /\ receipts' = IF e.kind = "ended" THEN receipts \cup {e.turn} ELSE receipts
      /\ UNCHANGED <<reported, clock, turns, running, diffed, captures, capturing>>
  BY DEF IngestLifecycle, provider, checkpoints
<1>2. /\ Ordered' /\ Told' /\ Ahead' \subseteq Ahead /\ Ahead = Ahead' \cup {e}
      /\ \A f \in Ahead' : Earlier(e, f)
      /\ e \in Ahead /\ Items' = Items
  BY <1>1, DoneQueues DEF Items
<1>3. \A f \in Ahead : f.turn \in Nat /\ f.at \in Nat
  BY AheadTyped
<1> HIDE DEF e
<1>4. e.kind = "ended" => \A f \in Ahead' : e.turn < f.turn
  <2>1. ASSUME e.kind = "ended", NEW f \in Ahead'
        PROVE  e.turn < f.turn
    <3>1. Rank(e) = 3 /\ Rank(f) \in {1, 2, 3}
      BY <2>1 DEF Rank
    <3> QED BY <1>2, <3>1 DEF Earlier
  <2> QED BY <2>1
<1>5. ProviderRuns'
  <2>1. running # NoTurn => ~(e.kind = "ended" /\ e.turn = running)
    BY <1>2 DEF QueueInv, ProviderRuns
  <2> QED BY <1>1, <1>2, <2>1 DEF QueueInv, ProviderRuns
<1>6. ReceiptsPast'
  BY <1>1, <1>2, <1>4 DEF QueueInv, ReceiptsPast
<1>7. EndsKnown'
  BY <1>1, <1>2 DEF QueueInv, EndsKnown
<1>8. ItemsPast'
  BY <1>1, <1>2 DEF QueueInv, ItemsPast, Seen
<1> QED BY <1>2, <1>5, <1>6, <1>7, <1>8 DEF QueueInv

LEMMA IngestDiffQueues ==
  ASSUME TypeInv, QueueInv, IngestDiff
  PROVE  QueueInv'
<1> DEFINE e == ingesting.event
           p == [kind |-> "placeholder", turn |-> e.turn, number |-> ingesting.number,
                 at |-> e.at]
<1>1. /\ ingesting # Nothing /\ ingesting' = Nothing /\ e.kind = "diff"
      /\ captures' \in {captures, Append(captures, p)}
      /\ UNCHANGED <<reported, clock, turns, running, diffed, receipts, capturing>>
  BY DEF IngestDiff, provider
<1>2. /\ Ordered' /\ Told' /\ Ahead' \subseteq Ahead /\ Ahead = Ahead' \cup {e}
      /\ \A f \in Ahead' : Earlier(e, f)
      /\ e \in Ahead
  BY <1>1, DoneQueues
<1>3. /\ \A f \in Ahead : f.turn \in Nat /\ f.at \in Nat
      /\ p \in Placeholders
  BY <1>1, AheadTyped, IngestedEvent DEF Placeholders
<1>4. p.turn = e.turn /\ p.at = e.at
  OBVIOUS
<1> HIDE DEF e, p
<1>5. Items' \subseteq Items \cup {p}
  <2>1. CASE captures' = captures
    BY <1>1, <2>1 DEF Items
  <2>2. CASE captures' = Append(captures, p)
    BY <1>1, <1>3, <2>2, ItemsAppend DEF Items
  <2> QED BY <1>1, <2>1, <2>2
<1>6. ProviderRuns'
  BY <1>1, <1>2 DEF QueueInv, ProviderRuns
<1>7. ReceiptsPast'
  BY <1>1, <1>2 DEF QueueInv, ReceiptsPast
<1>8. EndsKnown'
  BY <1>1, <1>2 DEF QueueInv, EndsKnown
<1>9. ItemsPast'
  <2>1. ASSUME NEW f \in Ahead', f.kind = "started"
        PROVE  e.turn < f.turn /\ e.at < f.at
    <3>1. Rank(e) = 2 /\ Rank(f) = 1
      BY <1>1, <2>1 DEF Rank
    <3> QED BY <1>2, <3>1 DEF Earlier
  <2>2. /\ p.turn <= turns' /\ p.at <= clock'
        /\ \A f \in Ahead' : f.kind = "started" => p.turn < f.turn /\ p.at < f.at
    BY <1>1, <1>2, <1>4, <2>1 DEF QueueInv, Told
  <2>3. ASSUME NEW c \in Items
        PROVE  /\ c.turn <= turns' /\ c.at <= clock'
               /\ c.kind # "ended" => \A f \in Ahead' : f.kind = "started" => c.turn < f.turn
               /\ \A f \in Ahead' : f.kind = "started" /\ c.turn < f.turn => c.at < f.at
    BY <1>1, <1>2 DEF QueueInv, ItemsPast, Seen
  <2> QED BY <1>5, <2>2, <2>3 DEF ItemsPast, Seen
<1> QED BY <1>2, <1>6, <1>7, <1>8, <1>9 DEF QueueInv

\* A step of CheckpointReactor: what it holds is of a turn that it held, and
\* of one whose start was ingested.
LEMMA CheckpointQueues ==
  ASSUME TypeInv, QueueInv,
         UNCHANGED <<clock, turns, running, diffed, reported, ingesting, receipts>>,
         \A c \in Items' : c \in Items \/ /\ c.kind # "ended" /\ Seen(c.turn)
                                          /\ \E o \in Items : c.turn = o.turn /\ c.at = o.at
  PROVE  QueueInv'
<1>1. Ahead' = Ahead
  BY AheadSame
<1>2. Ordered' /\ Told' /\ ProviderRuns' /\ ReceiptsPast' /\ EndsKnown'
  BY <1>1 DEF QueueInv, Ordered, Told, ProviderRuns, ReceiptsPast, EndsKnown
<1>3. ItemsPast'
  <2>1. ASSUME NEW c \in Items'
        PROVE  /\ c.turn <= turns' /\ c.at <= clock'
               /\ c.kind # "ended" => Seen(c.turn)
               /\ \A f \in Ahead' : f.kind = "started" /\ c.turn < f.turn => c.at < f.at
    BY <1>1 DEF QueueInv, ItemsPast
  <2> QED BY <1>1, <2>1 DEF ItemsPast, Seen
<1> QED BY <1>2, <1>3 DEF QueueInv

LEMMA CaptureCompletionQueues ==
  ASSUME TypeInv, QueueInv, CaptureCompletion
  PROVE  QueueInv'
<1> DEFINE e == Head(captures)
           number == CaptureNumber(e.turn)
           status == CheckpointStatus(e.outcome)
<1>1. /\ capturing = Nothing /\ captures # <<>> /\ captures' = Tail(captures)
      /\ e.turn \in receipts
      /\ capturing' \in {Nothing, Capture(e.turn, number, status, e.at)}
      /\ UNCHANGED <<clock, turns, running, diffed, reported, ingesting, receipts>>
  BY DEF CaptureCompletion, provider, ingestion
<1>2. /\ e \in Items
      /\ Items' \subseteq Items \cup (IF capturing' = Nothing THEN {} ELSE {capturing'})
  BY <1>1, ItemsTaken
<1>3. Seen(e.turn)
  BY <1>1 DEF QueueInv, ReceiptsPast, Seen
<1> HIDE DEF e, number, status
<1>4. ASSUME NEW c \in Items', c \notin Items
      PROVE  c.kind # "ended" /\ c.turn = e.turn /\ c.at = e.at
  <2>1. c = Capture(e.turn, number, status, e.at)
    BY <1>1, <1>2, <1>4
  <2> QED BY <2>1 DEF Capture
<1> QED BY <1>1, <1>2, <1>3, <1>4, CheckpointQueues

LEMMA CapturePlaceholderQueues ==
  ASSUME TypeInv, QueueInv, CapturePlaceholder
  PROVE  QueueInv'
<1> DEFINE e == Head(captures)
<1>1. /\ capturing = Nothing /\ captures # <<>> /\ captures' = Tail(captures)
      /\ e.kind = "placeholder"
      /\ capturing' \in {Nothing, Capture(e.turn, e.number, "ready", e.at)}
      /\ UNCHANGED <<clock, turns, running, diffed, reported, ingesting, receipts>>
  BY DEF CapturePlaceholder, provider, ingestion
<1>2. /\ e \in Items
      /\ Items' \subseteq Items \cup (IF capturing' = Nothing THEN {} ELSE {capturing'})
  BY <1>1, ItemsTaken
<1> HIDE DEF e
<1>3. Seen(e.turn)
  BY <1>1, <1>2 DEF QueueInv, ItemsPast
<1>4. ASSUME NEW c \in Items', c \notin Items
      PROVE  c.kind # "ended" /\ c.turn = e.turn /\ c.at = e.at
  <2>1. c = Capture(e.turn, e.number, "ready", e.at)
    BY <1>1, <1>2, <1>4
  <2> QED BY <2>1 DEF Capture
<1> QED BY <1>1, <1>2, <1>3, <1>4, CheckpointQueues

LEMMA CaptureGivenUpQueues ==
  ASSUME TypeInv, QueueInv, CaptureGivenUp
  PROVE  QueueInv'
<1>1. /\ capturing = Nothing /\ captures # <<>> /\ captures' = Tail(captures)
      /\ capturing' = Nothing
      /\ UNCHANGED <<clock, turns, running, diffed, reported, ingesting, receipts>>
  BY DEF CaptureGivenUp, provider, ingestion
<1>2. Items' \subseteq Items
  BY <1>1, ItemsTaken
<1> QED BY <1>1, <1>2, CheckpointQueues

LEMMA CaptureWritesQueues ==
  ASSUME TypeInv, QueueInv, CaptureWrites
  PROVE  QueueInv'
<1> DEFINE p == [kind |-> "placeholder", turn |-> capturing.turn,
                 number |-> capturing.number, at |-> capturing.at]
<1>1. /\ capturing # Nothing /\ capturing' = Nothing
      /\ captures' \in {captures, Append(captures, p)}
      /\ UNCHANGED <<clock, turns, running, diffed, reported, ingesting, receipts>>
  BY DEF CaptureWrites, provider, ingestion
<1>2. capturing \in Captures
  BY <1>1 DEF TypeInv, CapturesTyped
<1>3. /\ p \in Placeholders /\ p.kind = "placeholder" /\ p.turn = capturing.turn
      /\ p.at = capturing.at /\ capturing \in Items /\ capturing.kind = "capture"
  BY <1>1, <1>2 DEF Captures, Placeholders, Items
<1> HIDE DEF p
<1>4. Items' \subseteq Items \cup {p}
  <2>1. CASE captures' = captures
    BY <1>1, <2>1 DEF Items
  <2>2. CASE captures' = Append(captures, p)
    BY <1>1, <1>3, <2>2, ItemsAppend DEF Items
  <2> QED BY <1>1, <2>1, <2>2
<1>5. Seen(capturing.turn)
  BY <1>3 DEF QueueInv, ItemsPast
<1> QED BY <1>1, <1>3, <1>4, <1>5, CheckpointQueues

LEMMA CaptureFailsQueues ==
  ASSUME TypeInv, QueueInv, CaptureFails
  PROVE  QueueInv'
<1>1. /\ capturing' = Nothing /\ captures' = captures
      /\ UNCHANGED <<clock, turns, running, diffed, reported, ingesting, receipts>>
  BY DEF CaptureFails, provider, ingestion
<1>2. Items' \subseteq Items
  BY <1>1 DEF Items
<1> QED BY <1>1, <1>2, CheckpointQueues

LEMMA InitQueues ==
  ASSUME Init
  PROVE  QueueInv
<1>1. Ahead = {} /\ Items = {} /\ reported = <<>> /\ ingesting = Nothing
      /\ turns = 0 /\ running = NoTurn /\ receipts = {}
  BY DEF Init, Ahead, Items
<1> QED BY <1>1 DEF QueueInv, Ordered, Told, ProviderRuns, ReceiptsPast, EndsKnown, ItemsPast

LEMMA StepQueues ==
  ASSUME TypeInv, QueueInv, [SteadyNext]_vars
  PROVE  QueueInv'
<1>1. CASE OperatorStep
  <2>1. QueuesKept
    <3>1. /\ clock' = Now
          /\ UNCHANGED <<provider, ingestion, checkpoints>>
      BY <1>1 DEF OperatorStep, StartTurn, Interrupt
    <3> QED BY <3>1, Clocked DEF QueuesKept, provider, ingestion, checkpoints, Now
  <2> QED BY <2>1, QueueSame
<1>2. CASE ReactorStep
  <2>1. QueuesKept
    BY <1>2, Clocked
    DEF ReactorStep, ReactStart, ReactInterrupt, QueuesKept, provider, ingestion, checkpoints
  <2> QED BY <2>1, QueueSame
<1>3. CASE \E r \in Requests : CallStep(r)
  <2>1. PICK r \in Requests : CallStep(r)
    BY <1>3
  <2>2. CASE SendTurn(r)
    BY <2>2, SendTurnQueues
  <2>3. CASE SendSteers(r) \/ CallFails(r) \/ SteerTurn(r) \/ SteerBecomesSend(r)
               \/ StartFailed(r) \/ MarkSteered(r) \/ MarkReads(r) \/ MarkWrites(r)
    <3>1. QueuesKept
      BY <2>3, Clocked
      DEF SendSteers, CallFails, SteerTurn, SteerBecomesSend, StartFailed, MarkSteered,
          MarkReads, MarkWrites, QueuesKept, provider, ingestion, checkpoints, Now
    <3> QED BY <3>1, QueueSame
  <2> QED BY <2>1, <2>2, <2>3 DEF CallStep
<1>4. CASE SteadyProvider
  BY <1>4, ProviderDiffQueues, ProviderEndsQueues DEF SteadyProvider
<1>5. CASE SteadyIngestion
  BY <1>5, IngestReadsQueues, IngestLifecycleQueues, IngestDiffQueues DEF SteadyIngestion
<1>6. CASE CheckpointStep
  BY <1>6, CaptureCompletionQueues, CaptureGivenUpQueues, CapturePlaceholderQueues,
     CaptureWritesQueues, CaptureFailsQueues DEF CheckpointStep
<1>7. CASE UNCHANGED vars
  <2>1. QueuesKept
    BY <1>7, Clocked DEF vars, reactor, provider, ingestion, checkpoints, QueuesKept
  <2> QED BY <2>1, QueueSame
<1> QED BY <1>1, <1>2, <1>3, <1>4, <1>5, <1>6, <1>7 DEF SteadyNext

\* As long as no turn was reopened, no step is about a turn that is reopened.
LEMMA SteadyStep ==
  ASSUME TypeInv, reopened = "none" => QueueInv, [Next]_vars, reopened' = "none"
  PROVE  reopened = "none" /\ [SteadyNext]_vars
<1>1. CASE \E t \in Turns : ProviderReopens(t)
  <2>1. reopened' # "none"
    BY <1>1 DEF ProviderReopens
  <2> QED BY <2>1
<1>2. CASE \A t \in Turns : ~ProviderReopens(t)
  <2>1. reopened' = reopened
    BY <1>2 DEF Next, OperatorStep, StartTurn, Interrupt, ReactorStep, ReactStart,
       ReactInterrupt, CallStep, SendTurn, SendSteers, CallFails, SteerTurn,
       SteerBecomesSend, StartFailed, MarkSteered, MarkReads, MarkWrites,
       ProviderStep, ProviderDiff, ProviderEnds, IngestionStep, IngestReads,
       IngestLifecycle, IngestReopened, IngestDiff, CheckpointStep,
       CaptureCompletion, CaptureGivenUp, CapturePlaceholder, CaptureWrites,
       CaptureFails, vars, provider
  <2>2. ~IngestReopened
    <3>1. ASSUME IngestReopened PROVE FALSE
      <4>1. ingesting.event \in Ahead /\ ingesting.event.kind = "reopened"
        BY <3>1 DEF IngestReopened, Ahead
      <4> QED BY <2>1, <4>1 DEF QueueInv, Told
    <3> QED BY <3>1
  <2> QED BY <1>2, <2>1, <2>2
          DEF Next, ProviderStep, IngestionStep, SteadyNext, SteadyProvider,
              SteadyIngestion
<1> QED BY <1>1, <1>2

-----------------------------------------------------------------------------
(* The rows, and the times they carry.                                     *)

\* A turn that a projection names has a row.
Rowed(d, t) == t = NoTurn \/ d.state[t] # "none"

RowsInv ==
  /\ \A t \in Turns : db.state[t] # "none" => t <= turns
  /\ Rowed(db, db.active) /\ Rowed(db, db.latest)
  /\ Rowed(db, mem.active) /\ Rowed(db, mem.latest)

\* The intents of ProviderCommandReactor.
Intents == {intents[i] : i \in 1..Len(intents)}

\* A call names no turn that the provider has not started; times have been.
CallsInv ==
  /\ \A r \in Requests :
       calls[r].turn <= turns /\ calls[r].at <= clock /\ calls[r].mark <= clock
  /\ \A x \in Intents : x.kind = "start" => x.at <= clock

ClockInv ==
  /\ \A t \in Turns : db.asked[t] <= clock
  /\ db.pending <= clock
  /\ mem.done <= clock

LEMMA MemoryActiveRowed ==
  ASSUME RowsInv
  PROVE  Rowed(db, MemoryActive(mem))
BY DEF RowsInv, MemoryActive, Rowed

LEMMA RowsOfStart ==
  ASSUME TypeInv, RowsInv, NEW at \in Instants, Project(StartRequested(at)),
         turns' = turns
  PROVE  /\ RowsInv' /\ db'.asked = db.asked /\ db'.pending = at
         /\ mem'.done = mem.done
<1>1. mem \in Memory /\ db \in Tables
  BY DEF TypeInv, ProjectionsTyped
<1>2. /\ mem'.latest = mem.latest /\ mem'.active = NoTurn /\ mem'.done = mem.done
      /\ db'.latest = db.latest /\ db'.state = db.state /\ db'.active = NoTurn
      /\ db'.asked = db.asked /\ db'.pending = at
  BY <1>1, StartOnMemory, StartOnTables DEF Project
<1> QED BY <1>2 DEF RowsInv, Rowed

LEMMA RowsOfInterrupt ==
  ASSUME TypeInv, RowsInv, NEW turn \in Turns \cup {NoTurn}, NEW at \in Instants,
         Rowed(db, turn), Project(InterruptRequested(turn, at)), turns' = turns
  PROVE  /\ RowsInv' /\ \A u \in Turns : db'.asked[u] = db.asked[u]
         /\ db'.pending = db.pending
         /\ mem'.done \in {mem.done, at}
         /\ \A u \in Turns : db'.state[u] = "none" <=> db.state[u] = "none"
<1>1. mem \in Memory /\ db \in Tables
  BY DEF TypeInv, ProjectionsTyped
<1>2. /\ mem'.active \in {NoTurn, mem.active}
      /\ mem'.latest \in {mem.latest, InterruptedTurn(mem, turn)}
      /\ mem'.done \in {mem.done, at}
  BY <1>1, InterruptOnMemory DEF Project
<1>3. /\ db'.active \in {NoTurn, db.active} /\ db'.latest = db.latest
      /\ db'.pending = db.pending
      /\ \A u \in Turns : db'.state[u] = IF u = turn THEN "interrupted" ELSE db.state[u]
      /\ \A u \in Turns : db'.asked[u] =
           IF u = turn /\ db.state[u] = "none" THEN at ELSE db.asked[u]
  <2>1. db \in Tables /\ db' = TablesAfter(db, InterruptRequested(turn, at))
    BY <1>1 DEF Project
  <2>2. /\ db'.active \in {NoTurn, db.active} /\ db'.latest = db.latest
        /\ db'.pending = db.pending
    BY <2>1, InterruptOnTables
  <2>3. \A u \in Turns :
          db'.state[u] = IF u = turn THEN "interrupted" ELSE db.state[u]
    BY <2>1, InterruptOnRow
  <2>4. \A u \in Turns : db'.asked[u] =
          IF u = turn /\ db.state[u] = "none" THEN at ELSE db.asked[u]
    BY <2>1, InterruptOnRow
  <2> QED BY <2>2, <2>3, <2>4
<1>4. InterruptedTurn(mem, turn) \in Turns \cup {NoTurn}
        /\ Rowed(db, InterruptedTurn(mem, turn))
  BY <1>1, MemoryActiveRowed, MemoryActiveTyped DEF InterruptedTurn
<1>5. \A u \in Turns : /\ db.state[u] # "none" <=> db'.state[u] # "none"
                       /\ db'.asked[u] = db.asked[u]
  BY <1>3, RecordTypes DEF Rowed
<1>6. \A u \in Turns \cup {NoTurn} : Rowed(db, u) => Rowed(db', u)
  BY <1>5 DEF Rowed
<1>7. /\ db.active \in Turns \cup {NoTurn} /\ db.latest \in Turns \cup {NoTurn}
      /\ mem.active \in Turns \cup {NoTurn} /\ mem.latest \in Turns \cup {NoTurn}
  BY <1>1 DEF Memory, Tables
<1>8. Rowed(db', NoTurn)
  BY DEF Rowed
<1>9. RowsInv'
  <2>1. \A u \in Turns : db'.state[u] # "none" => u <= turns'
    BY <1>5 DEF RowsInv
  <2>2. Rowed(db', db'.active) /\ Rowed(db', db'.latest)
    BY <1>3, <1>6, <1>7, <1>8 DEF RowsInv
  <2>3. Rowed(db', mem'.active) /\ Rowed(db', mem'.latest)
    BY <1>2, <1>4, <1>6, <1>7, <1>8 DEF RowsInv
  <2> QED BY <2>1, <2>2, <2>3 DEF RowsInv, Rowed
<1> QED BY <1>2, <1>3, <1>5, <1>9

LEMMA RowsOfRunning ==
  ASSUME TypeInv, RowsInv, NEW t \in Turns, NEW at \in Instants, t <= turns,
         Project(SessionSet("running", t, at)), turns' = turns
  PROVE  /\ RowsInv'
         /\ \A u \in Turns : u # t => db'.asked[u] = db.asked[u]
         /\ db'.asked[t] = IF db.state[t] # "none" THEN db.asked[t]
                           ELSE IF db.pending # NoTime THEN db.pending ELSE at
         /\ db'.pending \in {db.pending, NoTime}
         /\ mem'.done \in {mem.done, NoTime}
         /\ db'.state[t] # "none"
         /\ \A u \in Turns : u # t => (db'.state[u] = "none" <=> db.state[u] = "none")
<1>1. mem \in Memory /\ db \in Tables
  BY DEF TypeInv, ProjectionsTyped
<1>2. \/ mem' = mem
      \/ mem'.active = t /\ mem'.latest = t /\ mem'.done = NoTime
  BY <1>1, RunningOnMemory DEF Project
<1>3. /\ SessionTaken(db', db, t, at) /\ RowTaken(db', db, t, at)
      /\ LatestTaken(db', db, t)
  BY <1>1, RunningOnTables DEF Project
<1>4. /\ db'.active \in {NoTurn, t} /\ db'.latest \in {t, db.latest}
      /\ db'.pending \in {db.pending, NoTime}
  BY <1>3 DEF SessionTaken, RowTaken, LatestTaken
<1>5. \A u \in Turns : u # t => /\ db'.asked[u] = db.asked[u]
                                /\ db'.state[u] = "none" <=> db.state[u] = "none"
  BY <1>3 DEF RowTaken, OthersKept
<1>6. db'.state[t] # "none"
  BY <1>3, ClosingStatuses DEF RowTaken
<1>7. /\ db.latest \in Turns \cup {NoTurn}
      /\ mem.active \in Turns \cup {NoTurn} /\ mem.latest \in Turns \cup {NoTurn}
  BY <1>1 DEF Memory, Tables
<1>8. /\ \A u \in Turns \cup {NoTurn} : Rowed(db, u) => Rowed(db', u)
      /\ Rowed(db', t) /\ Rowed(db', NoTurn)
  BY <1>5, <1>6 DEF Rowed
<1>9. RowsInv'
  <2>1. \A u \in Turns : db'.state[u] # "none" => u <= turns'
    BY <1>5 DEF RowsInv
  <2>2. Rowed(db', db'.active) /\ Rowed(db', db'.latest)
    BY <1>4, <1>7, <1>8 DEF RowsInv
  <2>3. Rowed(db', mem'.active) /\ Rowed(db', mem'.latest)
    BY <1>2, <1>7, <1>8 DEF RowsInv
  <2> QED BY <2>1, <2>2, <2>3 DEF RowsInv, Rowed
<1> QED BY <1>2, <1>3, <1>4, <1>5, <1>6, <1>9 DEF RowTaken

LEMMA RowsOfClosing ==
  ASSUME TypeInv, RowsInv, NEW status \in Closing, NEW at \in Instants,
         Project(SessionSet(status, NoTurn, at)), turns' = turns
  PROVE  /\ RowsInv' /\ \A u \in Turns : db'.asked[u] = db.asked[u]
         /\ db'.pending = NoTime
         /\ mem'.done \in {mem.done, at}
         /\ \A u \in Turns : db'.state[u] = "none" <=> db.state[u] = "none"
<1>1. mem \in Memory /\ db \in Tables
  BY DEF TypeInv, ProjectionsTyped
<1>2. /\ mem'.active = NoTurn /\ mem'.done \in {mem.done, at}
      /\ mem'.latest \in {mem.latest, MemoryActive(mem)}
  BY <1>1, ClosingOnMemory DEF Project
<1>3. /\ db'.active = NoTurn /\ db'.latest = db.latest /\ db'.pending = NoTime
      /\ \A u \in Turns : db'.state[u] =
           IF u # db.active \/ db.state[u] \in {"error", "interrupted"}
           THEN db.state[u] ELSE ClosedState(status)
      /\ \A u \in Turns : db'.asked[u] =
           IF u = db.active /\ db.state[u] = "none" THEN at ELSE db.asked[u]
  BY <1>1, ClosingOnTables DEF Project
<1>4. ClosedState(status) # "none"
  BY ClosedStateTyped, ClosingStatuses
<1>5. \A u \in Turns : /\ db.state[u] # "none" <=> db'.state[u] # "none"
                       /\ db'.asked[u] = db.asked[u]
  BY <1>3, <1>4, RecordTypes DEF RowsInv, Rowed
<1>6. /\ \A u \in Turns \cup {NoTurn} : Rowed(db, u) => Rowed(db', u)
      /\ Rowed(db', NoTurn)
  BY <1>5 DEF Rowed
<1>7. /\ db.latest \in Turns \cup {NoTurn} /\ mem.latest \in Turns \cup {NoTurn}
      /\ MemoryActive(mem) \in Turns \cup {NoTurn}
  BY <1>1, MemoryActiveTyped DEF Memory, Tables
<1>8. RowsInv'
  <2>1. \A u \in Turns : db'.state[u] # "none" => u <= turns'
    BY <1>5 DEF RowsInv
  <2>2. Rowed(db', db'.active) /\ Rowed(db', db'.latest)
    BY <1>3, <1>6, <1>7 DEF RowsInv
  <2>3. Rowed(db', mem'.active) /\ Rowed(db', mem'.latest)
    BY <1>2, <1>6, <1>7, MemoryActiveRowed DEF RowsInv
  <2> QED BY <2>1, <2>2, <2>3 DEF RowsInv, Rowed
<1> QED BY <1>2, <1>3, <1>5, <1>8

LEMMA RowsOfDiff ==
  ASSUME TypeInv, RowsInv, NEW turn \in Turns, NEW number \in Nat,
         NEW status \in TakenStatuses, NEW at \in Instants, turn <= turns,
         Project(DiffCompleted(turn, number, status, at)), turns' = turns
  PROVE  /\ RowsInv'
         /\ \A u \in Turns : db'.asked[u] =
              IF u = turn /\ db.state[u] = "none" THEN at ELSE db.asked[u]
         /\ db'.pending = db.pending
         /\ mem'.done \in {mem.done, at}
         /\ \A u \in Turns : u # turn => db'.state[u] = db.state[u]
         /\ db'.latest \in {db.latest, turn} /\ (db.latest # NoTurn => db'.latest = db.latest)
         /\ db'.state[turn] # "none"
<1>1. mem \in Memory /\ db \in Tables
  BY DEF TypeInv, ProjectionsTyped
<1>2. mem'.active = mem.active /\ mem'.latest \in {mem.latest, turn}
        /\ mem'.done \in {mem.done, at}
  BY <1>1, DiffOnMemory DEF Project
<1>3. /\ db'.active \in {NoTurn, db.active}
      /\ db'.latest \in {db.latest, turn} /\ (db.latest # NoTurn => db'.latest = db.latest)
      /\ db'.pending = db.pending
      /\ \A u \in Turns : u # turn => db'.state[u] = db.state[u]
      /\ \E ends \in BOOLEAN : db'.state[turn] = CheckpointState(db, turn, status, ends)
      /\ \A u \in Turns : db'.asked[u] =
           IF u = turn /\ db.state[u] = "none" THEN at ELSE db.asked[u]
  BY <1>1, DiffOnTables DEF Project
<1>4. db'.state[turn] # "none"
  BY <1>3 DEF CheckpointState
<1>5. /\ \A u \in Turns \cup {NoTurn} : Rowed(db, u) => Rowed(db', u)
      /\ Rowed(db', NoTurn) /\ Rowed(db', turn)
  BY <1>3, <1>4 DEF Rowed
<1>6. /\ db.latest \in Turns \cup {NoTurn} /\ db.active \in Turns \cup {NoTurn}
      /\ mem.latest \in Turns \cup {NoTurn} /\ mem.active \in Turns \cup {NoTurn}
  BY <1>1 DEF Memory, Tables
<1>7. RowsInv'
  <2>1. \A u \in Turns : db'.state[u] # "none" => u <= turns'
    BY <1>3 DEF RowsInv
  <2>2. Rowed(db', db'.active) /\ Rowed(db', db'.latest)
    BY <1>3, <1>5, <1>6 DEF RowsInv
  <2>3. Rowed(db', mem'.active) /\ Rowed(db', mem'.latest)
    BY <1>2, <1>5, <1>6 DEF RowsInv
  <2> QED BY <2>1, <2>2, <2>3 DEF RowsInv, Rowed
<1> QED BY <1>2, <1>3, <1>4, <1>7

LEMMA IntentsAppend ==
  ASSUME TypeInv, NEW x \in StartIntents \cup InterruptIntents,
         intents' = Append(intents, x)
  PROVE  Intents' = Intents \cup {x}
<1>1. intents \in Seq(StartIntents \cup InterruptIntents)
  BY DEF TypeInv, IntentsTyped
<1>2. /\ Len(intents') = Len(intents) + 1 /\ Len(intents) \in Nat
      /\ intents'[Len(intents) + 1] = x
      /\ \A i \in 1..Len(intents) : intents'[i] = intents[i]
  BY <1>1
<1>3. ASSUME NEW i \in 1..Len(intents')
      PROVE  i = Len(intents) + 1 \/ i \in 1..Len(intents)
  BY <1>2
<1>4. ASSUME NEW i \in 1..Len(intents)
      PROVE  i \in 1..Len(intents')
  BY <1>2
<1>5. Len(intents) + 1 \in 1..Len(intents')
  BY <1>2
<1> QED BY <1>2, <1>3, <1>4, <1>5 DEF Intents

LEMMA IntentsTail ==
  ASSUME TypeInv, intents # <<>>, intents' = Tail(intents)
  PROVE  /\ Intents' \subseteq Intents /\ Head(intents) \in Intents
         /\ Head(intents) = intents[1] /\ 1 \in 1..Len(intents)
         /\ \A i \in 1..Len(intents') :
              i + 1 \in 1..Len(intents) /\ i + 1 # 1 /\ intents'[i] = intents[i + 1]
<1>1. intents \in Seq(StartIntents \cup InterruptIntents)
  BY DEF TypeInv, IntentsTyped
<1>2. /\ Len(intents) \in Nat /\ Len(intents) >= 1 /\ Head(intents) = intents[1]
      /\ Len(intents') = Len(intents) - 1
      /\ \A i \in 1..Len(intents') : intents'[i] = intents[i + 1]
  BY <1>1
<1>3. \A i \in 1..Len(intents') : i + 1 \in 1..Len(intents) /\ i + 1 # 1
  BY <1>2
<1>4. 1 \in 1..Len(intents)
  BY <1>2
<1> QED BY <1>2, <1>3, <1>4 DEF Intents

LEMMA CallTypes ==
  ASSUME TypeInv, NEW r \in Requests
  PROVE  /\ calls[r] \in CallRecords /\ CallTyped(calls[r])
         /\ calls[r].turn \in Turns \cup {NoTurn} /\ calls[r].turn \in Nat
         /\ calls[r].at \in Nat /\ calls[r].mark \in Nat
         /\ calls[r].step # "none" => calls[r].at \in Instants /\ calls[r].mark \in Instants
         /\ calls[r].step \in {"steer", "steered", "answered", "marking"} =>
              calls[r].turn \in Turns
<1>1. CallTyped(calls[r])
  BY DEF TypeInv, CallsTyped
<1>2. calls[r] \in CallRecords
  BY <1>1 DEF CallTyped
<1>3. /\ calls[r].turn \in Turns \cup {NoTurn} /\ calls[r].at \in Nat
      /\ calls[r].mark \in Nat
  BY <1>2 DEF CallRecords
<1>4. calls[r].turn \in Nat
  <2>1. \A t \in Turns \cup {NoTurn} : t \in Nat
    BY RecordTypes
  <2> QED BY <1>3, <2>1
<1> QED BY <1>1, <1>2, <1>3, <1>4 DEF CallTyped

LEMMA IntentTypes ==
  ASSUME TypeInv
  PROVE  \A x \in Intents : x.kind = "start" => x \in StartIntents /\ x.at \in Nat
<1>1. intents \in Seq(StartIntents \cup InterruptIntents)
  BY DEF TypeInv, IntentsTyped
<1>2. ASSUME NEW i \in 1..Len(intents) PROVE intents[i] \in StartIntents \cup InterruptIntents
  BY <1>1
<1> QED BY <1>2 DEF Intents, StartIntents, InterruptIntents, Instants

LEMMA ProjectionTypes ==
  ASSUME TypeInv
  PROVE  /\ mem \in Memory /\ db \in Tables /\ clock \in Nat /\ turns \in Nat
         /\ \A t \in Turns : db.asked[t] \in Nat
         /\ db.pending \in Nat /\ mem.done \in Nat
BY RunningTurn DEF TypeInv, ProjectionsTyped, CountersTyped, Memory, Tables

\* The clock and the provider's turns only go up.
Forward == turns' \in Nat /\ clock' \in Nat /\ turns <= turns' /\ clock <= clock'

\* The calls after a step: each as before, gone, or of turns and times known.
CallsFollow ==
  /\ \A r \in Requests :
       \/ calls'[r] = calls[r] \/ calls'[r] = NoCall
       \/ calls'[r].turn <= turns' /\ calls'[r].at <= clock' /\ calls'[r].mark <= clock'
  /\ \A x \in Intents' : x \in Intents \/ (x.kind = "start" => x.at <= clock')

LEMMA CallsFollowed ==
  ASSUME TypeInv, CallsInv, Forward, CallsFollow
  PROVE  CallsInv'
<1>1. ASSUME NEW r \in Requests
      PROVE  calls'[r].turn <= turns' /\ calls'[r].at <= clock' /\ calls'[r].mark <= clock'
  <2>1. CASE calls'[r] = calls[r]
    BY <2>1, CallTypes, ProjectionTypes DEF CallsInv, Forward
  <2>2. CASE calls'[r] = NoCall
    BY <2>2 DEF NoCall, NoTurn, NoTime, Forward
  <2> QED BY <2>1, <2>2 DEF CallsFollow
<1>2. ASSUME NEW x \in Intents', x.kind = "start"
      PROVE  x.at <= clock'
  <2>1. CASE x \in Intents
    BY <1>2, <2>1, IntentTypes, ProjectionTypes DEF CallsInv, Forward
  <2>2. CASE x \notin Intents
    BY <1>2, <2>2 DEF CallsFollow
  <2> QED BY <2>1, <2>2
<1> QED BY <1>1, <1>2 DEF CallsInv

LEMMA StepForward ==
  ASSUME TypeInv, [SteadyNext]_vars
  PROVE  Forward
<1>1. clock \in Nat /\ turns \in Nat /\ Now = clock + 1
  BY ProjectionTypes DEF Now
<1>2. turns' \in {turns, turns + 1} /\ clock' \in {clock, Now}
  <2>1. CASE OperatorStep
    BY <2>1 DEF OperatorStep, StartTurn, Interrupt, provider
  <2>2. CASE ReactorStep
    BY <2>2 DEF ReactorStep, ReactStart, ReactInterrupt, provider
  <2>3. CASE \E r \in Requests : CallStep(r)
    BY <2>3 DEF CallStep, SendTurn, SendSteers, CallFails, SteerTurn, SteerBecomesSend,
                StartFailed, MarkSteered, MarkReads, MarkWrites, provider
  <2>4. CASE SteadyProvider
    BY <2>4 DEF SteadyProvider, ProviderDiff, ProviderEnds
  <2>5. CASE SteadyIngestion
    BY <2>5 DEF SteadyIngestion, IngestReads, IngestLifecycle, IngestDiff, provider
  <2>6. CASE CheckpointStep
    BY <2>6 DEF CheckpointStep, CaptureCompletion, CaptureGivenUp, CapturePlaceholder,
                CaptureWrites, CaptureFails, provider
  <2>7. CASE UNCHANGED vars
    BY <2>7 DEF vars, provider
  <2> QED BY <2>1, <2>2, <2>3, <2>4, <2>5, <2>6, <2>7 DEF SteadyNext
<1> QED BY <1>1, <1>2 DEF Forward

\* A call that a step changes, the others staying as they are.
LEMMA OneCallChanged ==
  ASSUME TypeInv, NEW r \in Requests, NEW c, calls' = [calls EXCEPT ![r] = c]
  PROVE  calls'[r] = c /\ \A s \in Requests : s # r => calls'[s] = calls[s]
BY DEF TypeInv, CallsTyped

LEMMA CallStepEdited ==
  ASSUME TypeInv, NEW r \in Requests, NEW step,
         calls' = [calls EXCEPT ![r].step = step]
  PROVE  /\ calls'[r].step = step /\ calls'[r].turn = calls[r].turn
         /\ calls'[r].at = calls[r].at /\ calls'[r].mark = calls[r].mark
         /\ \A s \in Requests : s # r => calls'[s] = calls[s]
BY DEF TypeInv, CallsTyped, CallRecords

LEMMA CallTurnEdited ==
  ASSUME TypeInv, NEW r \in Requests, NEW turn,
         calls' = [calls EXCEPT ![r].step = "answered", ![r].turn = turn]
  PROVE  /\ calls'[r].step = "answered" /\ calls'[r].turn = turn
         /\ calls'[r].at = calls[r].at /\ calls'[r].mark = calls[r].mark
         /\ \A s \in Requests : s # r => calls'[s] = calls[s]
BY DEF TypeInv, CallsTyped, CallRecords

LEMMA CallMarkEdited ==
  ASSUME TypeInv, NEW r \in Requests,
         calls' = [calls EXCEPT ![r].step = "resend", ![r].turn = NoTurn, ![r].mark = Now]
  PROVE  /\ calls'[r].step = "resend" /\ calls'[r].turn = NoTurn
         /\ calls'[r].at = calls[r].at /\ calls'[r].mark = Now
         /\ \A s \in Requests : s # r => calls'[s] = calls[s]
BY DEF TypeInv, CallsTyped, CallRecords

\* The projections after a step: the same, or with times that have been.
RowsFollow ==
  \/ UNCHANGED <<mem, db>>
  \/ /\ RowsInv'
     /\ \A t \in Turns : db'.asked[t] <= clock'
     /\ db'.pending <= clock' /\ mem'.done <= clock'

LEMMA RowsFollowed ==
  ASSUME TypeInv, RowsInv, ClockInv, Forward, RowsFollow
  PROVE  RowsInv' /\ ClockInv'
<1>1. CASE UNCHANGED <<mem, db>>
  <2>1. RowsInv'
    <3>1. \A t \in Turns : t \in Nat
      BY RecordTypes
    <3>2. \A t \in Turns : t <= turns => t <= turns'
      BY <3>1, ProjectionTypes DEF Forward
    <3> QED BY <1>1, <3>2 DEF RowsInv, Rowed
  <2>2. ClockInv'
    BY <1>1, ProjectionTypes DEF ClockInv, Forward
  <2> QED BY <2>1, <2>2
<1>2. CASE ~UNCHANGED <<mem, db>>
  BY <1>2 DEF RowsFollow, ClockInv
<1> QED BY <1>1, <1>2

KnownInv == QueueInv /\ CallsInv /\ RowsInv /\ ClockInv

\* A session without a turn is projected.
LEMMA ClosingRows ==
  ASSUME TypeInv, RowsInv, ClockInv, NEW status \in Closing, NEW at \in Instants,
         Project(SessionSet(status, NoTurn, at)), turns' = turns, Forward,
         at <= clock'
  PROVE  RowsFollow
<1>1. /\ RowsInv' /\ \A u \in Turns : db'.asked[u] = db.asked[u]
      /\ db'.pending = NoTime /\ mem'.done \in {mem.done, at}
  BY RowsOfClosing
<1>2. NoTime <= clock'
  BY DEF Forward, NoTime
<1> QED BY <1>1, <1>2, ProjectionTypes DEF RowsFollow, ClockInv, Forward

\* A running session of a turn is projected.
LEMMA RunningRows ==
  ASSUME TypeInv, RowsInv, ClockInv, NEW t \in Turns, NEW at \in Instants, t <= turns,
         Project(SessionSet("running", t, at)), turns' = turns, Forward,
         at <= clock'
  PROVE  RowsFollow
<1>1. /\ RowsInv'
      /\ \A u \in Turns : u # t => db'.asked[u] = db.asked[u]
      /\ db'.asked[t] = IF db.state[t] # "none" THEN db.asked[t]
                        ELSE IF db.pending # NoTime THEN db.pending ELSE at
      /\ db'.pending \in {db.pending, NoTime}
      /\ mem'.done \in {mem.done, NoTime}
  BY RowsOfRunning
<1>2. NoTime <= clock' /\ NoTime \in Nat
  BY DEF Forward, NoTime
<1>3. \A u \in Turns : db'.asked[u] \in {db.asked[u], db.pending, at}
  BY <1>1
<1>4. \A u \in Turns : db'.asked[u] <= clock'
  BY <1>3, ProjectionTypes DEF ClockInv, Forward, Instants
<1> QED BY <1>1, <1>2, <1>4, ProjectionTypes DEF RowsFollow, ClockInv, Forward

\* A checkpoint is projected.
LEMMA DiffRows ==
  ASSUME TypeInv, RowsInv, ClockInv, NEW turn \in Turns, NEW number \in Nat,
         NEW status \in TakenStatuses, NEW at \in Instants, turn <= turns,
         Project(DiffCompleted(turn, number, status, at)), turns' = turns, Forward,
         at <= clock'
  PROVE  RowsFollow
<1>1. /\ RowsInv'
      /\ \A u \in Turns : db'.asked[u] =
           IF u = turn /\ db.state[u] = "none" THEN at ELSE db.asked[u]
      /\ db'.pending = db.pending /\ mem'.done \in {mem.done, at}
  BY RowsOfDiff
<1>2. \A u \in Turns : db'.asked[u] \in {db.asked[u], at}
  BY <1>1
<1> QED BY <1>1, <1>2, ProjectionTypes DEF RowsFollow, ClockInv, Forward, Instants

LEMMA StartTurnKnown ==
  ASSUME TypeInv, KnownInv, Forward, StartTurn
  PROVE  CallsFollow /\ RowsFollow
<1> DEFINE x == [kind |-> "start", request |-> asked + 1, at |-> Now]
<1>1. /\ Project(StartRequested(Now)) /\ turns' = turns /\ calls' = calls /\ clock' = Now
      /\ intents' = Append(intents, x) /\ asked < MaxRequests
  BY DEF StartTurn, provider
<1>2. /\ RowsInv' /\ db'.asked = db.asked /\ db'.pending = Now /\ mem'.done = mem.done
  BY <1>1, Clocked, RowsOfStart DEF KnownInv
<1>3. x \in StartIntents
  BY <1>1, ThreadAssumption, Clocked DEF StartIntents, Requests, TypeInv, CountersTyped
<1>4. x.at = Now
  OBVIOUS
<1> HIDE DEF x
<1>5. Intents' = Intents \cup {x}
  BY <1>1, <1>3, IntentsAppend
<1>6. Now <= clock' /\ clock <= clock'
  BY <1>1, Clocked DEF Forward, Instants
<1>7. RowsFollow
  BY <1>1, <1>2, <1>6, ProjectionTypes DEF RowsFollow, KnownInv, ClockInv, Forward
<1> QED BY <1>1, <1>4, <1>5, <1>6, <1>7 DEF CallsFollow

LEMMA InterruptKnown ==
  ASSUME TypeInv, KnownInv, Forward, NEW named \in Turns \cup {NoTurn}, Interrupt(named)
  PROVE  CallsFollow /\ RowsFollow
<1> DEFINE turn == IF named # NoTurn THEN named ELSE MemoryActive(mem)
           x == [kind |-> "interrupt", turn |-> turn]
<1>1. /\ Project(InterruptRequested(turn, Now)) /\ turns' = turns /\ calls' = calls
      /\ clock' = Now /\ intents' = Append(intents, x)
      /\ named # NoTurn => db.state[named] # "none"
  BY DEF Interrupt, provider
<1>2. turn \in Turns \cup {NoTurn} /\ Rowed(db, turn)
  BY <1>1, MemoryActiveRowed, MemoryActiveTyped, ProjectionTypes DEF Rowed, KnownInv
<1>3. /\ RowsInv' /\ \A u \in Turns : db'.asked[u] = db.asked[u]
      /\ db'.pending = db.pending /\ mem'.done \in {mem.done, Now}
  <2> HIDE DEF turn
  <2> QED BY <1>1, <1>2, Clocked, RowsOfInterrupt DEF KnownInv
<1>4. x \in InterruptIntents /\ x.kind = "interrupt"
  BY <1>2 DEF InterruptIntents
<1> HIDE DEF x
<1>5. Intents' = Intents \cup {x}
  BY <1>1, <1>4, IntentsAppend
<1>6. Now <= clock' /\ clock <= clock'
  BY <1>1, Clocked DEF Forward, Instants
<1>7. RowsFollow
  BY <1>1, <1>3, <1>6, ProjectionTypes, Clocked
  DEF RowsFollow, KnownInv, ClockInv, Forward, Instants
<1> QED BY <1>1, <1>4, <1>5, <1>7 DEF CallsFollow

LEMMA ReactorKnown ==
  ASSUME TypeInv, KnownInv, Forward, ReactorStep
  PROVE  CallsFollow /\ RowsFollow
<1>1. UNCHANGED <<mem, db>> /\ intents # <<>> /\ intents' = Tail(intents)
  BY DEF ReactorStep, ReactStart, ReactInterrupt
<1>2. Intents' \subseteq Intents /\ Head(intents) \in Intents
  BY <1>1, IntentsTail
<1>3. CASE ReactStart
  <2> DEFINE x == Head(intents)
             c == IF running # NoTurn
                  THEN [step |-> "steer", turn |-> running, at |-> x.at, mark |-> x.at]
                  ELSE [step |-> "send", turn |-> NoTurn, at |-> x.at, mark |-> x.at]
  <2>1. calls' = [calls EXCEPT ![x.request] = c] /\ x.kind = "start"
          /\ turns' = turns /\ clock' = clock
    BY <1>3 DEF ReactStart, provider
  <2>2. x.at \in Nat /\ x.at <= clock /\ x.request \in Requests
    BY <1>2, <2>1, IntentTypes DEF KnownInv, CallsInv, StartIntents
  <2>3. c.turn <= turns /\ c.at = x.at /\ c.mark = x.at
    BY RunningTurn DEF TypeInv, ProviderTyped, NoTurn
  <2> HIDE DEF x, c
  <2>4. calls'[x.request] = c /\ \A s \in Requests : s # x.request => calls'[s] = calls[s]
    BY <2>1, <2>2, OneCallChanged
  <2>5. \A s \in Requests :
          \/ calls'[s] = calls[s]
          \/ calls'[s].turn <= turns' /\ calls'[s].at <= clock' /\ calls'[s].mark <= clock'
    BY <2>1, <2>2, <2>3, <2>4
  <2> QED BY <1>1, <1>2, <2>5 DEF CallsFollow, RowsFollow
<1>4. CASE ReactInterrupt
  BY <1>1, <1>2, <1>4 DEF ReactInterrupt, CallsFollow, RowsFollow
<1> QED BY <1>3, <1>4 DEF ReactorStep

LEMMA CallStepKnown ==
  ASSUME TypeInv, KnownInv, Forward, NEW r \in Requests, CallStep(r)
  PROVE  CallsFollow /\ RowsFollow
<1> DEFINE c == calls[r]
<1>1. /\ c.turn \in Nat /\ c.at \in Nat /\ c.mark \in Nat
      /\ c.turn <= turns /\ c.at <= clock /\ c.mark <= clock
      /\ c.step # "none" => c.at \in Instants /\ c.mark \in Instants
      /\ c.step \in {"steer", "steered", "answered", "marking"} => c.turn \in Turns
  BY CallTypes DEF KnownInv, CallsInv
<1>2. /\ running \in Nat /\ running <= turns /\ turns \in Nat /\ clock \in Nat
      /\ Now = clock + 1 /\ Now \in Instants /\ NoTurn = 0
  BY RunningTurn, Clocked DEF TypeInv, ProviderTyped, Now, NoTurn
<1>3. /\ intents' = intents
      /\ turns' \in Nat /\ clock' \in Nat /\ turns <= turns' /\ clock <= clock'
  BY DEF CallStep, SendTurn, SendSteers, CallFails, SteerTurn, SteerBecomesSend,
         StartFailed, MarkSteered, MarkReads, MarkWrites, Forward
<1>4. Intents' = Intents
  BY <1>3 DEF Intents
<1> HIDE DEF c
<1>5. ASSUME \A s \in Requests : s # r => calls'[s] = calls[s],
             \/ calls'[r] = NoCall
             \/ /\ calls'[r].turn \in {c.turn, running, turns', NoTurn}
                /\ calls'[r].at = c.at /\ calls'[r].mark \in {c.mark, clock'}
      PROVE  CallsFollow
  <2>1. \A s \in Requests :
          \/ calls'[s] = calls[s] \/ calls'[s] = NoCall
          \/ calls'[s].turn <= turns' /\ calls'[s].at <= clock' /\ calls'[s].mark <= clock'
    BY <1>1, <1>2, <1>3, <1>5
  <2> QED BY <1>4, <2>1 DEF CallsFollow
<1>6. ASSUME calls' = [calls EXCEPT ![r] = NoCall]
      PROVE  CallsFollow
  BY <1>5, <1>6, OneCallChanged
<1>7. CASE SendTurn(r)
  <2>1. /\ calls' = [calls EXCEPT ![r].step = "answered", ![r].turn = turns + 1]
        /\ turns' = turns + 1 /\ UNCHANGED <<mem, db>>
    BY <1>7 DEF SendTurn
  <2>2. /\ calls'[r].turn \in {running, turns'}
        /\ calls'[r].at = c.at /\ calls'[r].mark = c.mark
        /\ \A s \in Requests : s # r => calls'[s] = calls[s]
    <3> HIDE DEF c
    <3>1. /\ calls'[r].turn = turns + 1 /\ calls'[r].at = calls[r].at
          /\ calls'[r].mark = calls[r].mark
          /\ \A s \in Requests : s # r => calls'[s] = calls[s]
      BY <2>1, CallTurnEdited
    <3> QED BY <2>1, <3>1 DEF c
  <2>3. CallsFollow
    BY <1>5, <2>2
  <2> QED BY <2>1, <2>3 DEF RowsFollow
<1>8. CASE SendSteers(r)
  <2>1. /\ calls' = [calls EXCEPT ![r].step = "answered", ![r].turn = running]
        /\ UNCHANGED <<mem, db>>
    BY <1>8 DEF SendSteers
  <2>2. /\ calls'[r].turn \in {running, turns'}
        /\ calls'[r].at = c.at /\ calls'[r].mark = c.mark
        /\ \A s \in Requests : s # r => calls'[s] = calls[s]
    <3> HIDE DEF c
    <3>1. /\ calls'[r].turn = running /\ calls'[r].at = calls[r].at
          /\ calls'[r].mark = calls[r].mark
          /\ \A s \in Requests : s # r => calls'[s] = calls[s]
      BY <2>1, CallTurnEdited
    <3> QED BY <2>1, <3>1 DEF c
  <2>3. CallsFollow
    BY <1>5, <2>2
  <2> QED BY <2>1, <2>3 DEF RowsFollow
<1>9. CASE CallFails(r)
  <2>1. calls' = [calls EXCEPT ![r].step = "failed"] /\ UNCHANGED <<mem, db>>
    BY <1>9 DEF CallFails
  <2> QED BY <1>5, <2>1, CallStepEdited DEF RowsFollow, c
<1>10. CASE SteerTurn(r)
  <2>1. calls' = [calls EXCEPT ![r].step = "steered"] /\ UNCHANGED <<mem, db>>
    BY <1>10 DEF SteerTurn
  <2> QED BY <1>5, <2>1, CallStepEdited DEF RowsFollow, c
<1>11. CASE SteerBecomesSend(r)
  <2>1. /\ calls' = [calls EXCEPT ![r].step = "resend", ![r].turn = NoTurn,
                                  ![r].mark = Now]
        /\ Project(SessionSet("ready", NoTurn, Now)) /\ turns' = turns /\ clock' = Now
    BY <1>11 DEF SteerBecomesSend, provider
  <2>2. RowsFollow
    BY <1>2, <1>3, <2>1, ClosingRows DEF Closing, KnownInv
  <2> QED BY <1>5, <2>1, <2>2, CallMarkEdited DEF c
<1>12. CASE StartFailed(r)
  <2>1. /\ calls' = [calls EXCEPT ![r] = NoCall] /\ c.step = "failed"
        /\ Project(SessionSet("ready", NoTurn, c.at)) /\ turns' = turns /\ clock' = clock
    BY <1>12 DEF StartFailed, provider, c
  <2>2. RowsFollow
    BY <1>1, <1>2, <2>1, ClosingRows DEF Closing, KnownInv
  <2> QED BY <1>6, <2>1, <2>2
<1>13. CASE MarkSteered(r)
  <2>1. /\ calls' = [calls EXCEPT ![r] = NoCall] /\ c.step = "steered"
        /\ Project(SessionSet("running", c.turn, Now)) /\ turns' = turns /\ clock' = Now
    BY <1>13 DEF MarkSteered, provider, c
  <2>2. RowsFollow
    BY <1>1, <1>2, <1>3, <2>1, RunningRows DEF KnownInv
  <2> QED BY <1>6, <2>1, <2>2
<1>14. CASE MarkReads(r)
  <2>1. /\ UNCHANGED <<mem, db>>
        /\ \/ calls' = [calls EXCEPT ![r] = NoCall]
           \/ calls' = [calls EXCEPT ![r].step = "marking"]
    BY <1>14 DEF MarkReads
  <2> QED BY <1>5, <1>6, <2>1, CallStepEdited DEF RowsFollow, c
<1>15. CASE MarkWrites(r)
  <2>1. /\ calls' = [calls EXCEPT ![r] = NoCall] /\ c.step = "marking"
        /\ Project(SessionSet("running", c.turn, c.mark)) /\ turns' = turns
        /\ clock' = clock
    BY <1>15 DEF MarkWrites, provider, c
  <2>2. RowsFollow
    BY <1>1, <1>2, <1>3, <2>1, RunningRows DEF KnownInv
  <2> QED BY <1>6, <2>1, <2>2
<1> QED BY <1>7, <1>8, <1>9, <1>10, <1>11, <1>12, <1>13, <1>14, <1>15 DEF CallStep

\* The other actors leave the calls and the intents alone.
LEMMA CallsAlone ==
  ASSUME UNCHANGED reactor
  PROVE  CallsFollow
BY DEF CallsFollow, reactor, Intents

LEMMA IngestionKnown ==
  ASSUME TypeInv, KnownInv, Forward, SteadyIngestion
  PROVE  CallsFollow /\ RowsFollow
<1> DEFINE e == ingesting.event
<1>1. UNCHANGED reactor /\ turns' = turns /\ clock' = clock
  BY DEF SteadyIngestion, IngestReads, IngestLifecycle, IngestDiff, provider
<1>2. CASE UNCHANGED <<mem, db>>
  BY <1>1, <1>2, CallsAlone DEF RowsFollow
<1>3. ASSUME ingesting # Nothing
      PROVE  /\ e.turn \in Turns /\ e.at \in Instants /\ ingesting.number \in Nat
             /\ e.turn <= turns /\ e.at <= clock'
  <2>1. e \in Ahead
    BY <1>3 DEF Ahead
  <2> QED BY <1>1, <1>3, <2>1, IngestedEvent DEF KnownInv, QueueInv, Told
<1> HIDE DEF e
<1>4. CASE IngestLifecycle /\ Project(SessionSet("running", e.turn, e.at))
  BY <1>1, <1>3, <1>4, CallsAlone, RunningRows DEF IngestLifecycle, KnownInv
<1>5. CASE IngestLifecycle /\ Project(SessionSet(SessionAfter(e.outcome), NoTurn, e.at))
  <2>1. SessionAfter(e.outcome) \in Closing
    BY SessionAfterTyped
  <2> QED BY <1>1, <1>3, <1>5, <2>1, CallsAlone, ClosingRows DEF IngestLifecycle, KnownInv
<1>6. CASE IngestDiff /\ Project(DiffCompleted(e.turn, ingesting.number, "missing", e.at))
  <2>1. "missing" \in TakenStatuses
    BY DEF TakenStatuses
  <2> QED BY <1>1, <1>3, <1>6, <2>1, CallsAlone, DiffRows DEF IngestDiff, KnownInv
<1> QED BY <1>2, <1>4, <1>5, <1>6 DEF SteadyIngestion, IngestReads, IngestLifecycle, IngestDiff, e

LEMMA CheckpointKnown ==
  ASSUME TypeInv, KnownInv, Forward, CheckpointStep
  PROVE  CallsFollow /\ RowsFollow
<1>1. UNCHANGED reactor /\ turns' = turns /\ clock' = clock
  BY DEF CheckpointStep, CaptureCompletion, CaptureGivenUp, CapturePlaceholder,
         CaptureWrites, CaptureFails, provider
<1>2. CASE CaptureWrites
  <2>1. capturing \in Captures /\ capturing \in Items
    BY <1>2 DEF CaptureWrites, TypeInv, CapturesTyped, Items
  <2>2. /\ capturing.turn \in Turns /\ capturing.number \in Nat
        /\ capturing.status \in TakenStatuses /\ capturing.at \in Instants
        /\ capturing.turn <= turns /\ capturing.at <= clock
    BY <2>1 DEF Captures, KnownInv, QueueInv, ItemsPast
  <2>3. Project(DiffCompleted(capturing.turn, capturing.number, capturing.status,
                              capturing.at))
    BY <1>2 DEF CaptureWrites
  <2>4. RowsFollow
    BY <1>1, <2>2, <2>3, DiffRows DEF KnownInv
  <2> QED BY <1>1, <2>4, CallsAlone
<1>3. CASE ~CaptureWrites
  <2>1. UNCHANGED <<mem, db>>
    BY <1>3 DEF CheckpointStep, CaptureCompletion, CaptureGivenUp, CapturePlaceholder,
                CaptureFails
  <2> QED BY <1>1, <2>1, CallsAlone DEF RowsFollow
<1> QED BY <1>2, <1>3

LEMMA InitKnown ==
  ASSUME Init
  PROVE  KnownInv
<1>1. QueueInv
  BY InitQueues
<1>2. CallsInv
  <2>1. Intents = {} /\ \A r \in Requests : calls[r] = NoCall
    BY DEF Init, Intents
  <2>2. turns = 0 /\ clock = 0
    BY DEF Init, NoTime
  <2> QED BY <2>1, <2>2 DEF CallsInv, NoCall, NoTurn, NoTime
<1>3. RowsInv
  <2>1. /\ \A t \in Turns : db.state[t] = "none"
        /\ db.active = NoTurn /\ db.latest = NoTurn /\ mem.active = NoTurn
        /\ mem.latest = NoTurn
    BY DEF Init, NewTables, NewMemory
  <2> QED BY <2>1 DEF RowsInv, Rowed
<1>4. ClockInv
  <2>1. /\ \A t \in Turns : db.asked[t] = 0
        /\ db.pending = 0 /\ mem.done = 0 /\ clock = 0
    BY DEF Init, NewTables, NewMemory, NoTime
  <2> QED BY <2>1 DEF ClockInv
<1> QED BY <1>1, <1>2, <1>3, <1>4 DEF KnownInv

LEMMA StepKnown ==
  ASSUME TypeInv, KnownInv, [SteadyNext]_vars
  PROVE  KnownInv' /\ Forward
<1>1. Forward
  BY StepForward
<1>2. QueueInv'
  BY StepQueues DEF KnownInv
<1>3. CallsFollow /\ RowsFollow
  <2>1. CASE OperatorStep
    BY <1>1, <2>1, StartTurnKnown, InterruptKnown DEF OperatorStep
  <2>2. CASE ReactorStep
    BY <1>1, <2>2, ReactorKnown
  <2>3. CASE \E r \in Requests : CallStep(r)
    BY <1>1, <2>3, CallStepKnown
  <2>4. CASE SteadyProvider
    <3>1. UNCHANGED <<mem, db>> /\ UNCHANGED reactor
      BY <2>4 DEF SteadyProvider, ProviderDiff, ProviderEnds
    <3> QED BY <3>1, CallsAlone DEF RowsFollow
  <2>5. CASE SteadyIngestion
    BY <1>1, <2>5, IngestionKnown
  <2>6. CASE CheckpointStep
    BY <1>1, <2>6, CheckpointKnown
  <2>7. CASE UNCHANGED vars
    BY <2>7, CallsAlone DEF vars, RowsFollow
  <2> QED BY <2>1, <2>2, <2>3, <2>4, <2>5, <2>6, <2>7 DEF SteadyNext
<1>4. CallsInv'
  BY <1>1, <1>3, CallsFollowed DEF KnownInv
<1>5. RowsInv' /\ ClockInv'
  BY <1>1, <1>3, RowsFollowed DEF KnownInv
<1> QED BY <1>1, <1>2, <1>4, <1>5 DEF KnownInv

-----------------------------------------------------------------------------
(* The thread's latest turn.                                               *)

Begins(i) == intents[i].kind = "start"

\* One turn is asked for at a time: a call ends before the next request.
Solo ==
  /\ \A r, s \in Requests : calls[r] # NoCall /\ calls[s] # NoCall => r = s
  /\ \A i \in 1..Len(intents) : Begins(i) => \A r \in Requests : calls[r] = NoCall
  /\ \A i, j \in 1..Len(intents) : Begins(i) /\ Begins(j) => i = j

\* It was answered with the last turn that the provider has started.
CallTurn ==
  \A r \in Requests :
    /\ calls[r].step \in {"steer", "steered", "answered", "marking"} =>
         calls[r].turn = turns /\ turns # NoTurn
    /\ calls[r].step \in {"send", "resend"} => calls[r].turn = NoTurn
    /\ calls[r].step = "none" => calls[r] = NoCall

\* What is written for a request of time at comes after turn t's row.
AskedLater(t, at) ==
  at > db.asked[t] /\ (db.pending = NoTime \/ db.pending > db.asked[t])

\* A turn whose start is still ahead, but which has a row from its mark, was
\* asked for before every turn after it.
LateRows(e) ==
  \A u \in Turns : u > e.turn /\ db.state[u] # "none" => db.asked[u] > db.asked[e.turn]
LateIntents(e) ==
  \A x \in Intents : x.kind = "start" => AskedLater(e.turn, x.at)
LateCalls(e) ==
  \A r \in Requests :
    calls[r].step \notin {"none", "failed"} /\ calls[r].turn # e.turn =>
      AskedLater(e.turn, calls[r].mark)
LateFor(e) == LateRows(e) /\ LateIntents(e) /\ LateCalls(e)
LateStart ==
  \A e \in Ahead : e.kind = "started" /\ db.state[e.turn] # "none" => LateFor(e)

OneAtATime == Solo /\ CallTurn /\ LateStart

LateInv == overlap # "call" => OneAtATime

\* A step keeps the rows with the times they were asked for ...
RowsStay ==
  \A u \in Turns : db.state[u] # "none" =>
    db'.state[u] # "none" /\ db'.asked[u] = db.asked[u]

\* ... and gives the turns after t rows that were asked for later.
NewRowsLater(t) ==
  \A u \in Turns : db.state[u] = "none" /\ db'.state[u] # "none" /\ u > t =>
    db'.asked[u] > db.asked[t]

Follows(t, at) ==
  at > db.asked[t] /\ (db'.pending = NoTime \/ db'.pending > db.asked[t])

LEMMA LateCarried ==
  ASSUME TypeInv, NEW e \in Ahead, db.state[e.turn] # "none", LateRows(e),
         RowsStay, NewRowsLater(e.turn),
         \A x \in Intents' : x.kind = "start" => Follows(e.turn, x.at),
         \A r \in Requests :
           calls'[r].step \notin {"none", "failed"} /\ calls'[r].turn # e.turn =>
             Follows(e.turn, calls'[r].mark)
  PROVE  LateFor(e)'
<1>1. e.turn \in Turns
  BY AheadTyped
<1>2. db'.asked[e.turn] = db.asked[e.turn]
  BY <1>1 DEF RowsStay
<1>3. ASSUME NEW u \in Turns, u > e.turn, db'.state[u] # "none"
      PROVE  db'.asked[u] > db'.asked[e.turn]
  <2>1. CASE db.state[u] # "none"
    BY <1>2, <1>3, <2>1 DEF RowsStay, LateRows
  <2>2. CASE db.state[u] = "none"
    BY <1>2, <1>3, <2>2 DEF NewRowsLater
  <2> QED BY <2>1, <2>2
<1>4. LateIntents(e)'
  BY <1>2 DEF LateIntents, Follows, AskedLater
<1>5. LateCalls(e)'
  BY <1>2 DEF LateCalls, Follows, AskedLater
<1> QED BY <1>3, <1>4, <1>5 DEF LateFor, LateRows

\* The same when neither requests nor calls change.
LEMMA LateUntouched ==
  ASSUME TypeInv, NEW e \in Ahead, db.state[e.turn] # "none", LateFor(e),
         RowsStay, NewRowsLater(e.turn), UNCHANGED reactor,
         db'.pending \in {NoTime, db.pending}
  PROVE  LateFor(e)'
<1>1. Intents' = Intents /\ calls' = calls
  BY DEF reactor, Intents
<1>2. \A at \in Nat : AskedLater(e.turn, at) => Follows(e.turn, at)
  BY DEF AskedLater, Follows
<1>3. \A x \in Intents' : x.kind = "start" => Follows(e.turn, x.at)
  BY <1>1, <1>2, IntentTypes DEF LateFor, LateIntents
<1>4. \A r \in Requests :
        calls'[r].step \notin {"none", "failed"} /\ calls'[r].turn # e.turn =>
          Follows(e.turn, calls'[r].mark)
  BY <1>1, <1>2, CallTypes DEF LateFor, LateCalls
<1> QED BY <1>3, <1>4, LateCarried DEF LateFor

LEMMA SoloSame ==
  ASSUME UNCHANGED reactor, UNCHANGED turns, Solo, CallTurn
  PROVE  Solo' /\ CallTurn'
BY DEF reactor, Solo, CallTurn, Begins

\* An event is projected, or none: the rows it gives are of turns whose start
\* is not ahead, and neither requests nor calls change.
LEMMA LateProjected ==
  ASSUME TypeInv, OneAtATime, UNCHANGED reactor, UNCHANGED turns,
         RowsStay, db'.pending \in {NoTime, db.pending},
         \A e \in Ahead' : e.kind = "started" =>
           /\ e \in Ahead /\ NewRowsLater(e.turn)
           /\ db'.state[e.turn] # "none" => db.state[e.turn] # "none"
  PROVE  OneAtATime'
<1>1. ASSUME NEW e \in Ahead', e.kind = "started", db'.state[e.turn] # "none"
      PROVE  LateFor(e)'
  <2>1. e \in Ahead /\ db.state[e.turn] # "none" /\ NewRowsLater(e.turn)
    BY <1>1
  <2> QED BY <1>1, <2>1, LateUntouched DEF OneAtATime, LateStart
<1>2. Solo' /\ CallTurn'
  BY SoloSame DEF OneAtATime
<1> QED BY <1>1, <1>2 DEF OneAtATime, LateStart

LEMMA LateQuiet ==
  ASSUME TypeInv, OneAtATime, UNCHANGED <<db, turns>>, UNCHANGED reactor,
         \A e \in Ahead' : e.kind = "started" => e \in Ahead
  PROVE  OneAtATime'
<1>1. RowsStay /\ \A t \in Turns : NewRowsLater(t)
  BY DEF RowsStay, NewRowsLater
<1> QED BY <1>1, AheadTyped, LateProjected

LEMMA ProviderLate ==
  ASSUME TypeInv, OneAtATime, SteadyProvider
  PROVE  OneAtATime'
<1>1. UNCHANGED <<db, turns>> /\ UNCHANGED reactor /\ ingesting' = ingesting
  BY DEF SteadyProvider, ProviderDiff, ProviderEnds
<1>2. PICK e : /\ e \in ProviderEvents /\ e.kind # "started"
               /\ reported' = Append(reported, e)
  <2>1. CASE ProviderDiff
    <3> DEFINE e == [kind |-> "diff", turn |-> running, at |-> Now]
    <3>1. e \in ProviderEvents /\ e.kind # "started"
      BY <2>1, RunningTurn, Clocked DEF ProviderDiff, ProviderEvents
    <3> QED BY <2>1, <3>1 DEF ProviderDiff
  <2>2. CASE \E o \in Endings : ProviderEnds(o)
    <3>1. PICK o \in Endings : ProviderEnds(o)
      BY <2>2
    <3> DEFINE e == [kind |-> "ended", turn |-> running, outcome |-> o, at |-> Now]
    <3>2. e \in EndedEvents /\ e.kind # "started"
      BY <3>1, RunningTurn, Clocked, ThreadAssumption
      DEF ProviderEnds, EndedEvents, EndOutcomes, Endings
    <3> QED BY <3>1, <3>2 DEF ProviderEnds, ProviderEvents
  <2> QED BY <2>1, <2>2 DEF SteadyProvider
<1>3. Ahead' = Ahead \cup {e}
  BY <1>1, <1>2, AheadAppend
<1> QED BY <1>1, <1>2, <1>3, LateQuiet

LEMMA IngestionLate ==
  ASSUME TypeInv, KnownInv, OneAtATime, SteadyIngestion
  PROVE  OneAtATime'
<1> DEFINE e == ingesting.event
<1>1. UNCHANGED reactor /\ UNCHANGED turns
  BY DEF SteadyIngestion, IngestReads, IngestLifecycle, IngestDiff, provider
<1>2. CASE IngestReads
  <2>1. Ahead' = Ahead /\ UNCHANGED db
    BY <1>2, AheadRead DEF IngestReads
  <2> QED BY <1>1, <2>1, LateQuiet
<1>3. CASE IngestLifecycle \/ IngestDiff
  <2>1. /\ ingesting # Nothing /\ ingesting' = Nothing
        /\ UNCHANGED <<reported, clock, turns, running, diffed>>
    BY <1>3 DEF IngestLifecycle, IngestDiff, provider
  <2>2. /\ Ahead' \subseteq Ahead /\ \A f \in Ahead' : Earlier(e, f)
        /\ e \in Ahead /\ e.turn <= turns
    BY <2>1, DoneQueues DEF KnownInv, QueueInv, Told
  <2>3. /\ e.turn \in Turns /\ e.at \in Instants /\ ingesting.number \in Nat
        /\ e.turn \in Nat /\ \A f \in Ahead' : f.turn \in Nat /\ f.turn \in Turns
    BY <2>1, <2>2, IngestedEvent, AheadTyped
  <2> HIDE DEF e
  <2>4. \A f \in Ahead' : f.kind = "started" => e.turn < f.turn
    <3>1. ASSUME NEW f \in Ahead', f.kind = "started"
          PROVE  e.turn < f.turn
      <4>1. Rank(f) = 1 /\ Rank(e) \in {1, 2, 3}
        BY <3>1 DEF Rank
      <4>2. ~(Rank(e) < Rank(f))
        BY <4>1
      <4> QED BY <2>2, <4>2 DEF Earlier
    <3> QED BY <3>1
  <2>5. CASE UNCHANGED db
    BY <1>1, <2>2, <2>5, LateQuiet
  <2>6. CASE Project(SessionSet("running", e.turn, e.at))
    <3>1. /\ \A u \in Turns : u # e.turn => db'.asked[u] = db.asked[u]
          /\ db.state[e.turn] # "none" => db'.asked[e.turn] = db.asked[e.turn]
          /\ db'.pending \in {db.pending, NoTime}
          /\ db'.state[e.turn] # "none"
          /\ \A u \in Turns : u # e.turn => (db'.state[u] = "none" <=> db.state[u] = "none")
      BY <2>1, <2>2, <2>3, <2>6, RowsOfRunning DEF KnownInv
    <3>2. RowsStay
      BY <3>1 DEF RowsStay
    <3>3. ASSUME NEW f \in Ahead', f.kind = "started"
          PROVE  /\ NewRowsLater(f.turn)
                 /\ db'.state[f.turn] # "none" => db.state[f.turn] # "none"
      BY <2>3, <2>4, <3>1, <3>3 DEF NewRowsLater
    <3> QED BY <1>1, <2>2, <3>1, <3>2, <3>3, LateProjected
  <2>7. CASE Project(SessionSet(SessionAfter(e.outcome), NoTurn, e.at))
    <3>1. SessionAfter(e.outcome) \in Closing
      BY SessionAfterTyped
    <3>2. /\ \A u \in Turns : db'.asked[u] = db.asked[u]
          /\ db'.pending = NoTime
          /\ \A u \in Turns : db'.state[u] = "none" <=> db.state[u] = "none"
      BY <2>1, <2>3, <2>7, <3>1, RowsOfClosing DEF KnownInv
    <3>3. RowsStay
      BY <3>2 DEF RowsStay
    <3>4. ASSUME NEW f \in Ahead', f.kind = "started"
          PROVE  /\ NewRowsLater(f.turn)
                 /\ db'.state[f.turn] # "none" => db.state[f.turn] # "none"
      BY <2>3, <3>2 DEF NewRowsLater
    <3> QED BY <1>1, <2>2, <3>2, <3>3, <3>4, LateProjected
  <2>8. CASE Project(DiffCompleted(e.turn, ingesting.number, "missing", e.at))
    <3>1. "missing" \in TakenStatuses
      BY DEF TakenStatuses
    <3>2. /\ \A u \in Turns : db'.asked[u] =
               IF u = e.turn /\ db.state[u] = "none" THEN e.at ELSE db.asked[u]
          /\ db'.pending = db.pending
          /\ \A u \in Turns : u # e.turn => db'.state[u] = db.state[u]
          /\ db'.state[e.turn] # "none"
      BY <2>1, <2>2, <2>3, <2>8, <3>1, RowsOfDiff DEF KnownInv
    <3>4. RowsStay
      BY <3>2 DEF RowsStay
    <3>5. ASSUME NEW f \in Ahead', f.kind = "started"
          PROVE  /\ NewRowsLater(f.turn)
                 /\ db'.state[f.turn] # "none" => db.state[f.turn] # "none"
      BY <2>3, <2>4, <3>2, <3>5 DEF NewRowsLater
    <3> QED BY <1>1, <2>2, <3>2, <3>4, <3>5, LateProjected
  <2> QED BY <1>3, <2>5, <2>6, <2>7, <2>8 DEF IngestLifecycle, IngestDiff, e
<1> QED BY <1>2, <1>3 DEF SteadyIngestion


LEMMA CheckpointLate ==
  ASSUME TypeInv, KnownInv, OneAtATime, CheckpointStep
  PROVE  OneAtATime'
<1>1. UNCHANGED reactor /\ UNCHANGED turns /\ UNCHANGED <<reported, ingesting>>
  BY DEF CheckpointStep, CaptureCompletion, CaptureGivenUp, CapturePlaceholder,
         CaptureWrites, CaptureFails, provider, ingestion
<1>2. Ahead' = Ahead
  BY <1>1, AheadSame
<1>3. CASE CaptureWrites
  <2> DEFINE t == capturing.turn
  <2>1. capturing \in Captures /\ capturing \in Items
    BY <1>3 DEF CaptureWrites, TypeInv, CapturesTyped, Items
  <2>2. /\ t \in Turns /\ capturing.number \in Nat
        /\ capturing.status \in TakenStatuses /\ capturing.at \in Instants
        /\ t <= turns /\ Seen(t)
    BY <2>1 DEF Captures, KnownInv, QueueInv, ItemsPast
  <2>3. Project(DiffCompleted(t, capturing.number, capturing.status, capturing.at))
    BY <1>3 DEF CaptureWrites
  <2>4. t \in Nat /\ \A f \in Ahead : f.turn \in Nat /\ f.turn \in Turns
    BY <2>2, RecordTypes, AheadTyped
  <2> HIDE DEF t
  <2>5. \A f \in Ahead : f.kind = "started" => t < f.turn
    BY <2>2 DEF Seen
  <2>6. /\ \A u \in Turns : db'.asked[u] =
             IF u = t /\ db.state[u] = "none" THEN capturing.at ELSE db.asked[u]
        /\ db'.pending = db.pending
        /\ \A u \in Turns : u # t => db'.state[u] = db.state[u]
        /\ db'.state[t] # "none"
    BY <1>1, <2>2, <2>3, RowsOfDiff DEF KnownInv
  <2>7. RowsStay
    BY <2>6 DEF RowsStay
  <2>8. ASSUME NEW f \in Ahead', f.kind = "started"
        PROVE  /\ f \in Ahead /\ NewRowsLater(f.turn)
               /\ db'.state[f.turn] # "none" => db.state[f.turn] # "none"
    BY <1>2, <2>4, <2>5, <2>6, <2>8 DEF NewRowsLater
  <2> QED BY <1>1, <2>6, <2>7, <2>8, LateProjected
<1>4. CASE ~CaptureWrites
  <2>1. UNCHANGED db
    BY <1>4 DEF CheckpointStep, CaptureCompletion, CaptureGivenUp, CapturePlaceholder,
                CaptureFails
  <2> QED BY <1>1, <1>2, <2>1, LateQuiet
<1> QED BY <1>3, <1>4

\* A call that is on its way is the only one, and no other turn is asked for.
LEMMA OnlyCall ==
  ASSUME Solo, NEW r \in Requests, calls[r] # NoCall
  PROVE  /\ \A s \in Requests : s # r => calls[s] = NoCall
         /\ \A i \in 1..Len(intents) : ~Begins(i)
         /\ \A x \in Intents : x.kind # "start"
<1>1. \A i \in 1..Len(intents) : ~Begins(i)
  BY DEF Solo
<1> QED BY <1>1 DEF Solo, Begins, Intents

\* A step of the only call.
LEMMA SoloCall ==
  ASSUME Solo, CallTurn, NEW r \in Requests, calls[r] # NoCall, UNCHANGED intents,
         \A s \in Requests : s # r => calls'[s] = calls[s],
         /\ calls'[r].step \in {"steer", "steered", "answered", "marking"} =>
              calls'[r].turn = turns' /\ turns' # NoTurn
         /\ calls'[r].step \in {"send", "resend"} => calls'[r].turn = NoTurn
         /\ calls'[r].step = "none" => calls'[r] = NoCall
  PROVE  Solo' /\ CallTurn'
<1>1. \A s \in Requests : s # r => calls'[s] = NoCall
  BY OnlyCall
<1>2. \A i \in 1..Len(intents') : ~Begins(i)'
  BY OnlyCall DEF Begins
<1>3. Solo'
  BY <1>1, <1>2 DEF Solo
<1>4. CallTurn'
  <2>1. NoCall.step = "none"
    BY DEF NoCall
  <2> QED BY <1>1, <2>1 DEF CallTurn
<1> QED BY <1>3, <1>4

\* A step that projects nothing: a call goes on, or takes up an intent.
CallAdvances(r) ==
  \/ calls'[r].step \in {"none", "failed"}
  \/ /\ calls[r].step \notin {"none", "failed"} /\ calls'[r].mark = calls[r].mark
     /\ calls[r].turn \in {NoTurn, calls'[r].turn}
  \/ \E x \in Intents : x.kind = "start" /\ calls'[r].mark = x.at

LEMMA LateUnprojected ==
  ASSUME TypeInv, OneAtATime, UNCHANGED db,
         \A e \in Ahead' : e.kind = "started" /\ db.state[e.turn] # "none" => e \in Ahead,
         \A x \in Intents' : x.kind = "start" => x \in Intents,
         \A r \in Requests : CallAdvances(r),
         Solo', CallTurn'
  PROVE  OneAtATime'
<1>1. RowsStay /\ \A t \in Turns : NewRowsLater(t)
  BY DEF RowsStay, NewRowsLater
<1>2. ASSUME NEW e \in Ahead', e.kind = "started", db'.state[e.turn] # "none"
      PROVE  LateFor(e)'
  <2>1. e \in Ahead /\ db.state[e.turn] # "none"
    BY <1>2
  <2>2. LateFor(e) /\ e.turn \in Turns /\ e.turn # NoTurn
    BY <1>2, <2>1, AheadTyped, RecordTypes DEF OneAtATime, LateStart
  <2>3. \A at \in Nat : AskedLater(e.turn, at) => Follows(e.turn, at)
    BY DEF AskedLater, Follows
  <2>4. \A x \in Intents : x.kind = "start" => Follows(e.turn, x.at)
    BY <2>2, <2>3, IntentTypes DEF LateFor, LateIntents
  <2>5. ASSUME NEW r \in Requests, calls'[r].step \notin {"none", "failed"},
               calls'[r].turn # e.turn
        PROVE  Follows(e.turn, calls'[r].mark)
    <3>1. CASE \E x \in Intents : x.kind = "start" /\ calls'[r].mark = x.at
      BY <2>4, <3>1
    <3>2. CASE /\ calls[r].step \notin {"none", "failed"} /\ calls'[r].mark = calls[r].mark
               /\ calls[r].turn \in {NoTurn, calls'[r].turn}
      <4>1. calls[r].turn # e.turn /\ calls[r].mark \in Nat
        BY <2>2, <2>5, <3>2, CallTypes
      <4> QED BY <2>2, <2>3, <3>2, <4>1 DEF LateFor, LateCalls
    <3> QED BY <2>5, <3>1, <3>2 DEF CallAdvances
  <2> QED BY <1>1, <2>1, <2>2, <2>4, <2>5, LateCarried DEF LateFor
<1> QED BY <1>2 DEF OneAtATime, LateStart

\* A call that stays as it is goes on.
LEMMA CallSame ==
  ASSUME NEW r \in Requests, calls'[r] = calls[r]
  PROVE  CallAdvances(r)
BY DEF CallAdvances

LEMMA ReactorLate ==
  ASSUME TypeInv, KnownInv, OneAtATime, ReactorStep
  PROVE  OneAtATime'
<1>1. UNCHANGED db /\ UNCHANGED turns /\ UNCHANGED <<reported, ingesting>>
        /\ intents # <<>> /\ intents' = Tail(intents)
  BY DEF ReactorStep, ReactStart, ReactInterrupt, provider, ingestion
<1>2. Ahead' = Ahead
  BY <1>1, AheadSame
<1>3. /\ Intents' \subseteq Intents /\ Head(intents) \in Intents
      /\ Head(intents) = intents[1] /\ 1 \in 1..Len(intents)
      /\ \A i \in 1..Len(intents') :
           i + 1 \in 1..Len(intents) /\ i + 1 # 1 /\ intents'[i] = intents[i + 1]
  BY <1>1, IntentsTail
<1>4. \A i \in 1..Len(intents') : Begins(i)' <=> Begins(i + 1)
  BY <1>3 DEF Begins
<1>5. CASE ReactStart
  <2> DEFINE x == Head(intents)
             c == IF running # NoTurn
                  THEN [step |-> "steer", turn |-> running, at |-> x.at, mark |-> x.at]
                  ELSE [step |-> "send", turn |-> NoTurn, at |-> x.at, mark |-> x.at]
  <2>1. calls' = [calls EXCEPT ![x.request] = c] /\ x.kind = "start" /\ x = intents[1]
    BY <1>3, <1>5 DEF ReactStart
  <2>2. x.request \in Requests /\ x \in Intents
    BY <1>3, <2>1, IntentTypes DEF StartIntents
  <2>3. /\ c.mark = x.at
        /\ c.step \in {"steer", "send"}
        /\ c.step = "steer" => c.turn = turns /\ turns # NoTurn
        /\ c.step = "send" => c.turn = NoTurn
    BY DEF KnownInv, QueueInv, ProviderRuns
  <2> HIDE DEF c
  <2>4. calls'[x.request] = c /\ \A s \in Requests : s # x.request => calls'[s] = calls[s]
    BY <2>1, <2>2, OneCallChanged
  <2>5. Begins(1)
    BY <2>1 DEF Begins
  <2>6. /\ \A s \in Requests : calls[s] = NoCall
        /\ \A i \in 1..Len(intents) : i # 1 => ~Begins(i)
    BY <1>3, <2>5 DEF OneAtATime, Solo
  <2>7. \A i \in 1..Len(intents') : ~Begins(i)'
    BY <1>3, <1>4, <2>6
  <2>8. \A s \in Requests : s # x.request => calls'[s] = NoCall
    BY <2>4, <2>6
  <2>9. Solo'
    BY <2>7, <2>8 DEF Solo
  <2>10. CallTurn'
    <3>1. NoCall.step = "none"
      BY DEF NoCall
    <3> QED BY <1>1, <2>3, <2>4, <2>8, <3>1 DEF CallTurn
  <2>11. \A s \in Requests : CallAdvances(s)
    BY <2>1, <2>2, <2>3, <2>4, CallSame DEF CallAdvances
  <2> QED BY <1>1, <1>2, <1>3, <2>9, <2>10, <2>11, LateUnprojected
<1>6. CASE ReactInterrupt
  <2>1. calls' = calls
    BY <1>6 DEF ReactInterrupt
  <2>2. Solo'
    <3>1. ASSUME NEW i \in 1..Len(intents'), NEW j \in 1..Len(intents'),
                 Begins(i)', Begins(j)'
          PROVE  i = j
      <4>1. i + 1 = j + 1
        BY <1>3, <1>4, <3>1 DEF OneAtATime, Solo
      <4> QED BY <4>1
    <3>2. ASSUME NEW i \in 1..Len(intents'), Begins(i)'
          PROVE  \A s \in Requests : calls[s] = NoCall
      BY <1>3, <1>4, <3>2 DEF OneAtATime, Solo
    <3> QED BY <2>1, <3>1, <3>2 DEF OneAtATime, Solo
  <2>3. CallTurn'
    BY <1>1, <2>1 DEF OneAtATime, CallTurn
  <2> QED BY <1>1, <1>2, <1>3, <2>1, <2>2, <2>3, CallSame, LateUnprojected
<1> QED BY <1>5, <1>6 DEF ReactorStep

\* A call that projects nothing.
LEMMA QuietCallLate ==
  ASSUME TypeInv, KnownInv, OneAtATime, NEW r \in Requests,
         \/ SendTurn(r) \/ SendSteers(r) \/ CallFails(r) \/ SteerTurn(r) \/ MarkReads(r)
  PROVE  OneAtATime'
<1> DEFINE c == calls[r]
<1>1. /\ UNCHANGED db /\ UNCHANGED intents /\ UNCHANGED ingesting
      /\ c.step \in {"send", "resend", "steer", "answered"}
  BY DEF SendTurn, SendSteers, CallFails, SteerTurn, MarkReads, ingestion
<1>2. c # NoCall /\ Intents' = Intents
  BY <1>1 DEF NoCall, Intents
<1>3. /\ c.step \in {"steer", "steered", "answered", "marking"} =>
           c.turn = turns /\ turns # NoTurn
      /\ c.step \in {"send", "resend"} => c.turn = NoTurn
  BY DEF OneAtATime, CallTurn
<1>4. NoCall.step = "none" /\ turns \in Nat
  BY ProjectionTypes DEF NoCall
<1> HIDE DEF c
<1>5. ASSUME \A s \in Requests : s # r => calls'[s] = calls[s],
             \A e \in Ahead' : e.kind = "started" /\ db.state[e.turn] # "none" => e \in Ahead,
             \/ calls'[r] = NoCall \/ calls'[r].step = "failed"
             \/ /\ calls'[r].step \in {"steered", "answered", "marking"}
                /\ calls'[r].turn = turns' /\ turns' # NoTurn
                /\ calls'[r].mark = c.mark /\ c.turn \in {NoTurn, calls'[r].turn}
      PROVE  OneAtATime'
  <2>1. \A s \in Requests : CallAdvances(s)
    BY <1>1, <1>4, <1>5, CallSame DEF CallAdvances, c
  <2>2. Solo' /\ CallTurn'
    BY <1>1, <1>2, <1>4, <1>5, SoloCall DEF OneAtATime, c
  <2> QED BY <1>1, <1>2, <1>5, <2>1, <2>2, LateUnprojected
<1>6. CASE SendTurn(r)
  <2> DEFINE e == [kind |-> "started", turn |-> turns + 1, at |-> Now]
  <2>1. /\ calls' = [calls EXCEPT ![r].step = "answered", ![r].turn = turns + 1]
        /\ turns' = turns + 1 /\ reported' = Append(reported, e)
        /\ turns + 1 \in Turns /\ c.step \in {"send", "resend"}
    BY <1>6 DEF SendTurn, c
  <2>2. e \in ProviderEvents /\ e.turn = turns + 1
    BY <2>1, Clocked DEF ProviderEvents
  <2> HIDE DEF e
  <2>3. Ahead' = Ahead \cup {e}
    BY <1>1, <2>1, <2>2, AheadAppend
  <2>4. db.state[turns + 1] = "none"
    BY <1>4, <2>1 DEF KnownInv, RowsInv
  <2>5. /\ calls'[r].step = "answered" /\ calls'[r].turn = turns + 1
        /\ calls'[r].mark = calls[r].mark
        /\ \A s \in Requests : s # r => calls'[s] = calls[s]
    BY <2>1, CallTurnEdited
  <2>6. turns + 1 # NoTurn
    BY <1>4 DEF NoTurn
  <2> QED BY <1>3, <1>5, <2>1, <2>2, <2>3, <2>4, <2>5, <2>6 DEF c
<1>7. CASE SendSteers(r)
  <2>1. /\ calls' = [calls EXCEPT ![r].step = "answered", ![r].turn = running]
        /\ turns' = turns /\ reported' = reported /\ running # NoTurn
        /\ c.step \in {"send", "resend"}
    BY <1>7 DEF SendSteers, provider, ingestion, c
  <2>2. Ahead' = Ahead
    BY <1>1, <2>1, AheadSame
  <2>3. running = turns
    BY <2>1 DEF KnownInv, QueueInv, ProviderRuns
  <2>4. /\ calls'[r].step = "answered" /\ calls'[r].turn = running
        /\ calls'[r].mark = calls[r].mark
        /\ \A s \in Requests : s # r => calls'[s] = calls[s]
    BY <2>1, CallTurnEdited
  <2> QED BY <1>3, <1>5, <2>1, <2>2, <2>3, <2>4 DEF c
<1>8. CASE CallFails(r)
  <2>1. calls' = [calls EXCEPT ![r].step = "failed"] /\ reported' = reported
    BY <1>8 DEF CallFails, ingestion
  <2>2. Ahead' = Ahead
    BY <1>1, <2>1, AheadSame
  <2> QED BY <1>5, <2>1, <2>2, CallStepEdited
<1>9. CASE SteerTurn(r)
  <2>1. /\ calls' = [calls EXCEPT ![r].step = "steered"] /\ reported' = reported
        /\ turns' = turns /\ c.step = "steer"
    BY <1>9 DEF SteerTurn, ingestion, provider, c
  <2>2. Ahead' = Ahead
    BY <1>1, <2>1, AheadSame
  <2>3. /\ calls'[r].step = "steered" /\ calls'[r].turn = calls[r].turn
        /\ calls'[r].mark = calls[r].mark
        /\ \A s \in Requests : s # r => calls'[s] = calls[s]
    BY <2>1, CallStepEdited
  <2> QED BY <1>3, <1>5, <2>1, <2>2, <2>3 DEF c
<1>10. CASE MarkReads(r)
  <2>1. /\ \/ calls' = [calls EXCEPT ![r] = NoCall]
           \/ calls' = [calls EXCEPT ![r].step = "marking"]
        /\ reported' = reported /\ turns' = turns /\ c.step = "answered"
    BY <1>10 DEF MarkReads, ingestion, provider, c
  <2>2. Ahead' = Ahead
    BY <1>1, <2>1, AheadSame
  <2>3. CASE calls' = [calls EXCEPT ![r] = NoCall]
    <3>1. calls'[r] = NoCall /\ \A s \in Requests : s # r => calls'[s] = calls[s]
      BY <2>3, OneCallChanged
    <3> QED BY <1>5, <2>2, <3>1
  <2>4. CASE calls' = [calls EXCEPT ![r].step = "marking"]
    <3>1. /\ calls'[r].step = "marking" /\ calls'[r].turn = calls[r].turn
          /\ calls'[r].mark = calls[r].mark
          /\ \A s \in Requests : s # r => calls'[s] = calls[s]
      BY <2>4, CallStepEdited
    <3> QED BY <1>3, <1>5, <2>1, <2>2, <3>1 DEF c
  <2> QED BY <2>1, <2>3, <2>4
<1> QED BY <1>6, <1>7, <1>8, <1>9, <1>10

\* A call makes the session ready: it is over, or is sent again from now on.
LEMMA ReadyCallLate ==
  ASSUME TypeInv, KnownInv, OneAtATime, NEW r \in Requests,
         SteerBecomesSend(r) \/ StartFailed(r)
  PROVE  OneAtATime'
<1> DEFINE c == calls[r]
<1>1. /\ UNCHANGED intents /\ UNCHANGED <<reported, ingesting>> /\ turns' = turns
      /\ c.step \in {"steer", "failed"}
  BY DEF SteerBecomesSend, StartFailed, ingestion, provider
<1>2. /\ c # NoCall /\ Ahead' = Ahead
      /\ \A x \in Intents' : x.kind # "start"
  BY <1>1, AheadSame, OnlyCall DEF NoCall, Intents, OneAtATime
<1>3. NoCall.step = "none" /\ Now \in Instants /\ clock \in Nat /\ Now = clock + 1
  BY Clocked DEF NoCall, Now
<1>4. PICK at \in Instants : Project(SessionSet("ready", NoTurn, at))
  BY <1>1, <1>3, CallTypes DEF SteerBecomesSend, StartFailed
<1>5. /\ \A u \in Turns : db'.asked[u] = db.asked[u]
      /\ db'.pending = NoTime
      /\ \A u \in Turns : db'.state[u] = "none" <=> db.state[u] = "none"
  BY <1>1, <1>4, RowsOfClosing DEF KnownInv, Closing
<1>6. /\ \A s \in Requests : s # r => calls'[s] = calls[s]
      /\ \/ calls'[r] = NoCall
         \/ calls'[r].step = "resend" /\ calls'[r].turn = NoTurn /\ calls'[r].mark = Now
  <2>1. CASE SteerBecomesSend(r)
    <3>1. calls' = [calls EXCEPT ![r].step = "resend", ![r].turn = NoTurn, ![r].mark = Now]
      BY <2>1 DEF SteerBecomesSend
    <3>2. /\ calls'[r].step = "resend" /\ calls'[r].turn = NoTurn /\ calls'[r].mark = Now
          /\ \A s \in Requests : s # r => calls'[s] = calls[s]
      BY <3>1, CallMarkEdited
    <3> QED BY <3>2
  <2>2. CASE StartFailed(r)
    <3>1. calls' = [calls EXCEPT ![r] = NoCall]
      BY <2>2 DEF StartFailed
    <3> QED BY <3>1, OneCallChanged
  <2> QED BY <2>1, <2>2
<1> HIDE DEF c
<1>7. Solo' /\ CallTurn'
  BY <1>1, <1>2, <1>3, <1>6, SoloCall DEF OneAtATime, c
<1>8. \A s \in Requests : s # r => calls'[s] = NoCall
  BY <1>2, <1>6, OnlyCall DEF OneAtATime, c
<1>9. RowsStay /\ \A t \in Turns : NewRowsLater(t)
  BY <1>5 DEF RowsStay, NewRowsLater
<1>10. ASSUME NEW e \in Ahead', e.kind = "started", db'.state[e.turn] # "none"
       PROVE  LateFor(e)'
  <2>1. e \in Ahead /\ e.turn \in Turns /\ db.state[e.turn] # "none"
    BY <1>2, <1>5, <1>10, AheadTyped
  <2>2. LateRows(e)
    BY <1>10, <2>1 DEF OneAtATime, LateStart, LateFor
  <2>3. Follows(e.turn, Now)
    BY <1>3, <1>5, <2>1, ProjectionTypes DEF Follows, KnownInv, ClockInv
  <2>4. \A s \in Requests :
          calls'[s].step \notin {"none", "failed"} => calls'[s].mark = Now
    BY <1>3, <1>6, <1>8
  <2> QED BY <1>2, <1>9, <2>1, <2>2, <2>3, <2>4, LateCarried
<1> QED BY <1>7, <1>10 DEF OneAtATime, LateStart

\* A call marks its turn, the last one, as running, and is over.
LEMMA MarkLate ==
  ASSUME TypeInv, KnownInv, OneAtATime, NEW r \in Requests,
         MarkSteered(r) \/ MarkWrites(r)
  PROVE  OneAtATime'
<1> DEFINE c == calls[r]
           t == c.turn
<1>1. /\ UNCHANGED intents /\ UNCHANGED <<reported, ingesting>> /\ turns' = turns
      /\ c.step \in {"steered", "marking"} /\ calls' = [calls EXCEPT ![r] = NoCall]
  BY DEF MarkSteered, MarkWrites, ingestion, provider
<1>2. /\ c # NoCall /\ Ahead' = Ahead
      /\ \A x \in Intents' : x.kind # "start"
  BY <1>1, AheadSame, OnlyCall DEF NoCall, Intents, OneAtATime
<1>3. NoCall.step = "none" /\ Now \in Instants /\ clock \in Nat /\ Now = clock + 1
  BY Clocked DEF NoCall, Now
<1>4. t \in Turns /\ t = turns /\ turns \in Nat /\ c.mark \in Instants
  BY <1>1, CallTypes, ProjectionTypes DEF OneAtATime, CallTurn
<1>5. PICK at \in {Now, c.mark} : Project(SessionSet("running", t, at))
  BY DEF MarkSteered, MarkWrites
<1>6. /\ calls'[r] = NoCall /\ \A s \in Requests : s # r => calls'[s] = calls[s]
  BY <1>1, OneCallChanged
<1>7. \A s \in Requests : calls'[s] = NoCall
  BY <1>2, <1>6, OnlyCall DEF OneAtATime
<1> HIDE DEF c, t
<1>8. /\ \A u \in Turns : u # t => db'.asked[u] = db.asked[u]
      /\ db'.asked[t] = IF db.state[t] # "none" THEN db.asked[t]
                        ELSE IF db.pending # NoTime THEN db.pending ELSE at
      /\ db'.state[t] # "none"
      /\ \A u \in Turns : u # t => (db'.state[u] = "none" <=> db.state[u] = "none")
  <2>1. at \in Instants /\ t <= turns
    BY <1>3, <1>4, <1>5
  <2> QED BY <1>1, <1>4, <1>5, <2>1, RowsOfRunning DEF KnownInv
<1>9. Solo' /\ CallTurn'
  BY <1>1, <1>2, <1>3, <1>6, SoloCall DEF OneAtATime, c
<1>10. RowsInv'
  BY <1>1, <1>3, <1>4, <1>5, RowsOfRunning DEF KnownInv
<1>11. ASSUME NEW e \in Ahead', e.kind = "started", db'.state[e.turn] # "none"
       PROVE  LateFor(e)'
  <2>1. /\ e \in Ahead /\ e.turn \in Turns /\ e.turn \in Nat /\ e.turn <= turns
        /\ \A u \in Turns : u \in Nat
    BY <1>2, <1>11, AheadTyped, RecordTypes DEF KnownInv, QueueInv, Told
  <2>2. LateIntents(e)' /\ LateCalls(e)'
    BY <1>2, <1>3, <1>7 DEF LateIntents, LateCalls
  <2>3. CASE e.turn = t
    <3>1. ASSUME NEW u \in Turns, u > t PROVE db'.state[u] = "none"
      <4>1. ~(u <= turns')
        BY <1>1, <1>4, <2>1, <3>1
      <4> QED BY <1>10, <4>1 DEF RowsInv
    <3> QED BY <2>2, <2>3, <3>1 DEF LateFor, LateRows
  <2>4. CASE e.turn # t
    <3>1. db.state[e.turn] # "none"
      BY <1>8, <1>11, <2>1, <2>4
    <3>2. LateRows(e) /\ LateCalls(e)
      BY <1>11, <2>1, <3>1 DEF OneAtATime, LateStart, LateFor
    <3>3. AskedLater(e.turn, c.mark)
      BY <1>1, <2>4, <3>2 DEF LateCalls, c, t
    <3>4. at > db.asked[e.turn] /\ (db.pending = NoTime \/ db.pending > db.asked[e.turn])
      BY <1>3, <1>5, <2>1, <3>3, ProjectionTypes DEF AskedLater, KnownInv, ClockInv
    <3>5. RowsStay /\ NewRowsLater(e.turn)
      BY <1>4, <1>8, <3>4 DEF RowsStay, NewRowsLater
    <3> QED BY <1>2, <1>3, <1>7, <2>1, <3>1, <3>2, <3>5, LateCarried
  <2> QED BY <2>3, <2>4
<1> QED BY <1>9, <1>11 DEF OneAtATime, LateStart

LEMMA StartTurnLate ==
  ASSUME TypeInv, KnownInv, OneAtATime, StartTurn, ~Calling
  PROVE  OneAtATime'
<1> DEFINE x == [kind |-> "start", request |-> asked + 1, at |-> Now]
<1>1. /\ Project(StartRequested(Now)) /\ calls' = calls /\ turns' = turns
      /\ intents' = Append(intents, x) /\ asked < MaxRequests
      /\ UNCHANGED <<reported, ingesting>>
  BY DEF StartTurn, provider, ingestion
<1>2. x \in StartIntents /\ x.at = Now
  BY <1>1, ThreadAssumption, Clocked DEF StartIntents, Requests, TypeInv, CountersTyped
<1> HIDE DEF x
<1>3. Intents' = Intents \cup {x} /\ Ahead' = Ahead
  BY <1>1, <1>2, IntentsAppend, AheadSame
<1>4. /\ intents \in Seq(StartIntents \cup InterruptIntents) /\ DOMAIN intents = 1..Len(intents)
      /\ Len(intents) \in Nat
  BY DEF TypeInv, IntentsTyped
<1>5. /\ \A r \in Requests : calls[r] = NoCall
      /\ \A i \in 1..Len(intents) : intents[i].kind # "start"
  BY <1>4 DEF Calling
<1>6. ASSUME NEW i \in 1..Len(intents'), Begins(i)'
      PROVE  i = Len(intents) + 1
  <2>1. Len(intents') = Len(intents) + 1
          /\ \A j \in 1..Len(intents) : intents'[j] = intents[j]
    BY <1>1, <1>4
  <2> QED BY <1>4, <1>5, <1>6, <2>1 DEF Begins
<1>7. NoCall.step = "none" /\ Now \in Instants /\ clock \in Nat /\ Now = clock + 1
  BY Clocked DEF NoCall, Now
<1>8. Solo' /\ CallTurn'
  BY <1>1, <1>5, <1>6, <1>7 DEF Solo, CallTurn
<1>9. /\ db'.asked = db.asked /\ db'.pending = Now
      /\ db'.state = db.state
  BY <1>1, <1>7, ProjectionTypes, StartOnTables DEF Project
<1>10. RowsStay /\ \A t \in Turns : NewRowsLater(t)
  BY <1>9 DEF RowsStay, NewRowsLater
<1>11. ASSUME NEW e \in Ahead', e.kind = "started", db'.state[e.turn] # "none"
       PROVE  LateFor(e)'
  <2>1. e \in Ahead /\ e.turn \in Turns /\ db.state[e.turn] # "none"
    BY <1>3, <1>9, <1>11, AheadTyped
  <2>2. LateRows(e)
    BY <1>11, <2>1 DEF OneAtATime, LateStart, LateFor
  <2>3. Follows(e.turn, Now)
    BY <1>7, <1>9, <2>1, ProjectionTypes DEF Follows, KnownInv, ClockInv
  <2>4. \A y \in Intents' : y.kind = "start" => y = x
    BY <1>3, <1>5 DEF Intents
  <2> QED BY <1>1, <1>2, <1>5, <1>7, <1>10, <2>1, <2>2, <2>3, <2>4, LateCarried
<1> QED BY <1>8, <1>11 DEF OneAtATime, LateStart

LEMMA InterruptLate ==
  ASSUME TypeInv, KnownInv, OneAtATime, NEW named \in Turns \cup {NoTurn},
         Interrupt(named)
  PROVE  OneAtATime'
<1> DEFINE turn == IF named # NoTurn THEN named ELSE MemoryActive(mem)
           x == [kind |-> "interrupt", turn |-> turn]
<1>1. /\ Project(InterruptRequested(turn, Now)) /\ turns' = turns /\ calls' = calls
      /\ intents' = Append(intents, x) /\ UNCHANGED <<reported, ingesting>>
      /\ named # NoTurn => db.state[named] # "none"
  BY DEF Interrupt, provider, ingestion
<1>2. turn \in Turns \cup {NoTurn} /\ Rowed(db, turn)
  BY <1>1, MemoryActiveRowed, MemoryActiveTyped, ProjectionTypes DEF Rowed, KnownInv
<1>3. /\ \A u \in Turns : db'.asked[u] = db.asked[u]
      /\ db'.pending = db.pending
      /\ \A u \in Turns : db'.state[u] = "none" <=> db.state[u] = "none"
  <2> HIDE DEF turn
  <2> QED BY <1>1, <1>2, Clocked, RowsOfInterrupt DEF KnownInv
<1>4. x \in InterruptIntents /\ x.kind = "interrupt"
  BY <1>2 DEF InterruptIntents
<1> HIDE DEF x, turn
<1>5. Intents' = Intents \cup {x} /\ Ahead' = Ahead
  BY <1>1, <1>4, IntentsAppend, AheadSame
<1>6. /\ intents \in Seq(StartIntents \cup InterruptIntents) /\ Len(intents) \in Nat
  BY DEF TypeInv, IntentsTyped
<1>7. ASSUME NEW i \in 1..Len(intents'), Begins(i)'
      PROVE  i \in 1..Len(intents) /\ Begins(i)
  <2>1. /\ Len(intents') = Len(intents) + 1 /\ intents'[Len(intents) + 1] = x
        /\ \A j \in 1..Len(intents) : intents'[j] = intents[j]
    BY <1>1, <1>4, <1>6
  <2> QED BY <1>4, <1>6, <1>7, <2>1 DEF Begins
<1>8. Solo' /\ CallTurn'
  BY <1>1, <1>7 DEF OneAtATime, Solo, CallTurn
<1>9. RowsStay /\ \A t \in Turns : NewRowsLater(t)
  BY <1>3 DEF RowsStay, NewRowsLater
<1>10. ASSUME NEW e \in Ahead', e.kind = "started", db'.state[e.turn] # "none"
       PROVE  LateFor(e)'
  <2>1. e \in Ahead /\ e.turn \in Turns /\ db.state[e.turn] # "none"
    BY <1>3, <1>5, <1>10, AheadTyped
  <2>2. LateFor(e)
    BY <1>10, <2>1 DEF OneAtATime, LateStart
  <2>3. \A at \in Nat : AskedLater(e.turn, at) => Follows(e.turn, at)
    BY <1>3 DEF AskedLater, Follows
  <2>4. \A y \in Intents' : y.kind = "start" => Follows(e.turn, y.at)
    BY <1>4, <1>5, <2>2, <2>3, IntentTypes DEF LateFor, LateIntents
  <2>5. \A r \in Requests :
          calls'[r].step \notin {"none", "failed"} /\ calls'[r].turn # e.turn =>
            Follows(e.turn, calls'[r].mark)
    BY <1>1, <2>2, <2>3, CallTypes DEF LateFor, LateCalls
  <2> QED BY <1>9, <2>1, <2>2, <2>4, <2>5, LateCarried DEF LateFor
<1> QED BY <1>8, <1>10 DEF OneAtATime, LateStart

LEMMA InitLate ==
  ASSUME Init
  PROVE  LateInv
<1>1. /\ \A r \in Requests : calls[r] = NoCall
      /\ reported = <<>> /\ ingesting = Nothing /\ intents = <<>>
  BY DEF Init
<1>2. Ahead = {} /\ \A i \in 1..Len(intents) : FALSE
  BY <1>1 DEF Ahead
<1> QED BY <1>1, <1>2 DEF LateInv, OneAtATime, Solo, CallTurn, LateStart, NoCall

LEMMA StepLate ==
  ASSUME TypeInv, KnownInv, LateInv, [SteadyNext]_vars
  PROVE  LateInv' /\ (overlap' # "call" => overlap # "call")
<1>1. CASE StartTurn
  <2>1. overlap' # "call" => ~Calling /\ overlap # "call"
    BY <1>1 DEF StartTurn
  <2> QED BY <1>1, <2>1, StartTurnLate DEF LateInv
<1>2. CASE \E t \in Turns \cup {NoTurn} : Interrupt(t)
  <2>1. overlap' = overlap
    BY <1>2 DEF Interrupt
  <2> QED BY <1>2, <2>1, InterruptLate DEF LateInv
<1>3. CASE ReactorStep
  <2>1. overlap' = overlap
    BY <1>3 DEF ReactorStep, ReactStart, ReactInterrupt
  <2> QED BY <1>3, <2>1, ReactorLate DEF LateInv
<1>4. CASE \E r \in Requests : CallStep(r)
  <2>1. overlap' = overlap
    BY <1>4 DEF CallStep, SendTurn, SendSteers, CallFails, SteerTurn, SteerBecomesSend,
                StartFailed, MarkSteered, MarkReads, MarkWrites
  <2>2. OneAtATime => OneAtATime'
    BY <1>4, QuietCallLate, ReadyCallLate, MarkLate DEF CallStep
  <2> QED BY <2>1, <2>2 DEF LateInv
<1>5. CASE SteadyProvider
  <2>1. overlap' = overlap
    BY <1>5 DEF SteadyProvider, ProviderDiff, ProviderEnds
  <2> QED BY <1>5, <2>1, ProviderLate DEF LateInv
<1>6. CASE SteadyIngestion
  <2>1. overlap' = overlap
    BY <1>6 DEF SteadyIngestion, IngestReads, IngestLifecycle, IngestDiff
  <2> QED BY <1>6, <2>1, IngestionLate DEF LateInv
<1>7. CASE CheckpointStep
  <2>1. overlap' = overlap
    BY <1>7 DEF CheckpointStep, CaptureCompletion, CaptureGivenUp, CapturePlaceholder,
                CaptureWrites, CaptureFails
  <2> QED BY <1>7, <2>1, CheckpointLate DEF LateInv
<1>8. CASE UNCHANGED vars
  <2>1. overlap' = overlap /\ UNCHANGED <<db, turns>> /\ UNCHANGED reactor
          /\ reported' = reported /\ ingesting' = ingesting
    BY <1>8 DEF vars, provider, ingestion
  <2>2. Ahead' = Ahead
    BY <2>1, AheadSame
  <2> QED BY <2>1, <2>2, LateQuiet DEF LateInv
<1> QED BY <1>1, <1>2, <1>3, <1>4, <1>5, <1>6, <1>7, <1>8 DEF SteadyNext, OperatorStep

LEMMA TurnNumbers == \A t \in Turns \cup {NoTurn} : t \in Nat /\ t >= NoTurn
BY RecordTypes

\* A turn that is marked or started takes over from earlier ones only.
LEMMA RunningForward ==
  ASSUME TypeInv, KnownInv, turns' = turns, NEW t \in Turns, NEW at \in Instants,
         t <= turns, Project(SessionSet("running", t, at)),
         db.state[t] # "none" /\ db.latest # NoTurn /\ t < db.latest =>
           db.asked[db.latest] > db.asked[t]
  PROVE  Row(db, db'.latest) # "none" => db'.latest >= db.latest
<1>1. /\ \A u \in Turns : u # t => db'.asked[u] = db.asked[u]
      /\ db.state[t] # "none" => db'.asked[t] = db.asked[t]
  BY RowsOfRunning DEF KnownInv
<1>2. LatestTaken(db', db, t)
  BY ProjectionTypes, RunningOnTables DEF Project
<1>3. db.latest \in Turns \cup {NoTurn} /\ Rowed(db, db.latest)
  BY ProjectionTypes DEF Tables, KnownInv, RowsInv
<1>4. /\ t \in Nat /\ db.latest \in Nat /\ NoTurn = 0 /\ t # NoTurn
      /\ \A u \in Turns : db.asked[u] \in Nat
  BY <1>3, RecordTypes, ProjectionTypes DEF NoTurn
<1>5. CASE db'.latest = t /\ db.latest # NoTurn /\ t < db.latest /\ db.state[t] # "none"
  <2>1. db.latest \in Turns /\ db.state[db.latest] # "none" /\ db.latest # t
    BY <1>3, <1>4, <1>5 DEF Rowed
  <2>2. db'.asked[db.latest] = db.asked[db.latest] /\ db'.asked[t] = db.asked[t]
    BY <1>1, <1>5, <2>1
  <2>3. ~(db'.asked[db.latest] <= db'.asked[t])
    BY <1>4, <1>5, <2>1, <2>2
  <2>4. Row(db, db.latest) # "none"
    BY <1>5, <2>1 DEF Row
  <2> QED BY <1>2, <1>5, <2>1, <2>3, <2>4 DEF LatestTaken
<1>6. CASE db'.latest = t /\ ~(db.latest # NoTurn /\ t < db.latest /\ db.state[t] # "none")
  <2>1. Row(db, t) = db.state[t]
    BY <1>4 DEF Row
  <2> QED BY <1>4, <1>6, <2>1
<1>7. CASE db'.latest = db.latest
  BY <1>4, <1>7
<1>8. db'.latest \in {t, db.latest}
  BY <1>2 DEF LatestTaken
<1> QED BY <1>5, <1>6, <1>7, <1>8

LEMMA CallsForward ==
  ASSUME TypeInv, KnownInv, OneAtATime, NEW r \in Requests, CallStep(r)
  PROVE  Row(db, db'.latest) # "none" => db'.latest >= db.latest
<1> DEFINE c == calls[r]
<1>1. /\ Now \in Instants
      /\ c.step # "none" => c.at \in Instants /\ c.mark \in Instants
      /\ c.step \in {"steer", "steered", "answered", "marking"} =>
           c.turn \in Turns /\ c.turn = turns
  BY Clocked, CallTypes DEF OneAtATime, CallTurn
<1>2. /\ db.latest \in Nat /\ db.latest <= turns
      /\ turns \in Nat
  <2>1. db.latest \in Turns \cup {NoTurn} /\ Rowed(db, db.latest)
    BY ProjectionTypes DEF Tables, KnownInv, RowsInv
  <2> QED BY <2>1, RecordTypes, ProjectionTypes DEF NoTurn, KnownInv, RowsInv, Rowed
<1>3. CASE SendTurn(r) \/ SendSteers(r) \/ CallFails(r) \/ SteerTurn(r) \/ MarkReads(r)
  <2>1. db' = db
    BY <1>3 DEF SendTurn, SendSteers, CallFails, SteerTurn, MarkReads
  <2> QED BY <1>2, <2>1
<1>4. CASE SteerBecomesSend(r) \/ StartFailed(r)
  <2>1. PICK at \in Instants : Project(SessionSet("ready", NoTurn, at))
    BY <1>1, <1>4 DEF SteerBecomesSend, StartFailed
  <2>2. db'.latest = db.latest
    BY <2>1, ProjectionTypes, ClosingOnTables DEF Project, Closing
  <2> QED BY <1>2, <2>2
<1>5. CASE MarkSteered(r) \/ MarkWrites(r)
  <2>1. PICK at \in Instants : Project(SessionSet("running", c.turn, at))
    BY <1>1, <1>5 DEF MarkSteered, MarkWrites
  <2>2. turns' = turns /\ c.turn \in Turns /\ c.turn = turns
    BY <1>1, <1>5 DEF MarkSteered, MarkWrites, provider
  <2> HIDE DEF c
  <2>3. ~(c.turn < db.latest) /\ c.turn <= turns
    BY <1>2, <2>2
  <2> QED BY <2>1, <2>2, <2>3, RunningForward
<1> QED BY <1>3, <1>4, <1>5 DEF CallStep

LEMMA IngestionForward ==
  ASSUME TypeInv, KnownInv, OneAtATime, SteadyIngestion
  PROVE  Row(db, db'.latest) # "none" => db'.latest >= db.latest
<1> DEFINE e == ingesting.event
<1>1. db.latest \in Nat /\ db.latest \in Turns \cup {NoTurn} /\ Rowed(db, db.latest)
  <2>1. db.latest \in Turns \cup {NoTurn} /\ Rowed(db, db.latest)
    BY ProjectionTypes DEF Tables, KnownInv, RowsInv
  <2> QED BY <2>1, TurnNumbers
<1>2. CASE UNCHANGED db
  BY <1>1, <1>2
<1>3. ASSUME ingesting # Nothing
      PROVE  /\ e.turn \in Turns /\ e.at \in Instants /\ ingesting.number \in Nat
             /\ e \in Ahead /\ e.turn <= turns
  <2>1. e \in Ahead
    BY <1>3 DEF Ahead
  <2> QED BY <1>3, <2>1, IngestedEvent DEF KnownInv, QueueInv, Told
<1>4. turns' = turns
  BY DEF SteadyIngestion, IngestReads, IngestLifecycle, IngestDiff, provider
<1> HIDE DEF e
<1>5. CASE /\ ingesting # Nothing /\ e.kind = "started"
           /\ Project(SessionSet("running", e.turn, e.at))
  <2>1. ASSUME db.state[e.turn] # "none", db.latest # NoTurn, e.turn < db.latest
        PROVE  db.asked[db.latest] > db.asked[e.turn]
    <3>1. LateRows(e)
      BY <1>3, <1>5, <2>1 DEF OneAtATime, LateStart, LateFor
    <3>2. db.latest \in Turns /\ db.state[db.latest] # "none" /\ db.latest > e.turn
      BY <1>1, <1>3, <2>1, RecordTypes DEF Rowed
    <3> QED BY <3>1, <3>2 DEF LateRows
  <2> QED BY <1>3, <1>4, <1>5, <2>1, RunningForward
<1>6. CASE ingesting # Nothing /\ Project(SessionSet(SessionAfter(e.outcome), NoTurn, e.at))
  <2>1. db'.latest = db.latest
    BY <1>3, <1>6, SessionAfterTyped, ProjectionTypes, ClosingOnTables DEF Project
  <2> QED BY <1>1, <2>1
<1>7. CASE /\ ingesting # Nothing
           /\ Project(DiffCompleted(e.turn, ingesting.number, "missing", e.at))
  <2>1. /\ db'.latest \in {db.latest, e.turn}
        /\ db.latest # NoTurn => db'.latest = db.latest
    BY <1>3, <1>4, <1>7, RowsOfDiff DEF KnownInv, TakenStatuses
  <2> QED BY <1>1, <1>3, <1>7, <2>1, TurnNumbers
<1> QED BY <1>2, <1>5, <1>6, <1>7 DEF SteadyIngestion, IngestReads, IngestLifecycle, IngestDiff, e

\* The thread's latest turn moves to a later turn only, or to one without a row.
LEMMA StepLatest ==
  ASSUME TypeInv, KnownInv, OneAtATime, [SteadyNext]_vars
  PROVE  Row(db, db'.latest) # "none" => db'.latest >= db.latest
<1>1. db.latest \in Nat
  <2>1. db.latest \in Turns \cup {NoTurn}
    BY ProjectionTypes DEF Tables
  <2> QED BY <2>1, TurnNumbers
<1>2. CASE UNCHANGED db
  BY <1>1, <1>2
<1>3. CASE OperatorStep
  <2>1. CASE StartTurn
    <3>1. db'.latest = db.latest
      BY <2>1, Clocked, ProjectionTypes, StartOnTables DEF StartTurn, Project
    <3> QED BY <1>1, <3>1
  <2>2. ASSUME NEW named \in Turns \cup {NoTurn}, Interrupt(named)
        PROVE  db'.latest = db.latest
    <3> DEFINE turn == IF named # NoTurn THEN named ELSE MemoryActive(mem)
    <3>1. Project(InterruptRequested(turn, Now))
      BY <2>2 DEF Interrupt
    <3>2. turn \in Turns \cup {NoTurn}
      BY MemoryActiveTyped, ProjectionTypes
    <3> HIDE DEF turn
    <3> QED BY <3>1, <3>2, Clocked, ProjectionTypes, InterruptOnTables DEF Project
  <2> QED BY <1>1, <1>3, <2>1, <2>2 DEF OperatorStep
<1>4. CASE \E r \in Requests : CallStep(r)
  BY <1>4, CallsForward
<1>5. CASE SteadyIngestion
  BY <1>5, IngestionForward
<1>6. CASE CheckpointStep
  <2>1. CASE CaptureWrites
    <3>1. capturing \in Captures /\ capturing \in Items
      BY <2>1 DEF CaptureWrites, TypeInv, CapturesTyped, Items
    <3>2. /\ capturing.turn \in Turns /\ capturing.number \in Nat
          /\ capturing.status \in TakenStatuses /\ capturing.at \in Instants
          /\ capturing.turn <= turns
      BY <3>1 DEF Captures, KnownInv, QueueInv, ItemsPast
    <3>3. /\ Project(DiffCompleted(capturing.turn, capturing.number, capturing.status,
                                   capturing.at))
          /\ turns' = turns
      BY <2>1 DEF CaptureWrites, provider
    <3>4. /\ db'.latest \in {db.latest, capturing.turn}
          /\ db.latest # NoTurn => db'.latest = db.latest
      BY <3>2, <3>3, RowsOfDiff DEF KnownInv
    <3> QED BY <1>1, <3>2, <3>4, TurnNumbers
  <2>2. CASE ~CaptureWrites
    BY <1>2, <1>6, <2>2 DEF CheckpointStep, CaptureCompletion, CaptureGivenUp,
                            CapturePlaceholder, CaptureFails
  <2> QED BY <2>1, <2>2
<1>7. CASE ReactorStep \/ SteadyProvider \/ UNCHANGED vars
  BY <1>2, <1>7 DEF ReactorStep, ReactStart, ReactInterrupt, SteadyProvider, ProviderDiff,
                    ProviderEnds, vars
<1> QED BY <1>3, <1>4, <1>5, <1>6, <1>7 DEF SteadyNext

(***************************************************************************)
(* The thread's row never goes back to an earlier turn that has a row,     *)
(* however late sessions and checkpoints are written, as long as no turn   *)
(* was asked for while the call for an earlier one was on its way          *)
(* (shouldPromoteLatestTurn, ProjectionPipeline.ts:200): LatestForward for *)
(* every step before the first turn is reopened, if one ever is.           *)
(***************************************************************************)
THEOREM LatestGoesForward ==
  Spec => [][reopened' = "none" /\ overlap' # "call" /\ Row(db, db.latest') # "none" =>
               db.latest' >= db.latest]_vars
<1> DEFINE Inv == TypeInv /\ (reopened = "none" => KnownInv /\ LateInv)
           Stays == reopened' = "none" /\ overlap' # "call"
                      /\ Row(db, db.latest') # "none" => db.latest' >= db.latest
<1>1. Init => Inv
  BY InitTyped, InitKnown, InitLate
<1>2. Inv /\ [Next]_vars => Inv'
  BY StepTyped, SteadyStep, StepKnown, StepLate DEF KnownInv
<1>3. Inv /\ [Next]_vars => [Stays]_vars
  <2> SUFFICES ASSUME Inv, [Next]_vars, reopened' = "none", overlap' # "call"
               PROVE  Row(db, db'.latest) # "none" => db'.latest >= db.latest
    OBVIOUS
  <2>1. KnownInv /\ LateInv /\ [SteadyNext]_vars
    BY SteadyStep DEF KnownInv
  <2>2. OneAtATime
    BY <2>1, StepLate DEF LateInv
  <2> QED BY <2>1, <2>2, StepLatest
<1> HIDE DEF Inv, Stays
<1>4. Spec => [][Stays]_vars
  BY <1>1, <1>2, <1>3, PTL DEF Spec
<1> QED BY <1>4 DEF Stays

-----------------------------------------------------------------------------
(* The thread at rest.  What follows holds as long as no turn was asked    *)
(* for while anything of an earlier one was on its way: then the last turn *)
(* that the provider has started is the only one that can be written about *)
(* in a way that makes the thread busy.                                    *)

\* The starts that the ingestion has not processed.
Starts == {e \in Ahead : e.kind = "started"}

\* A turn is asked for, and the provider has not answered yet.
Asking == \E x \in Intents : x.kind = "start"
Pending ==
  \/ Asking
  \/ \E r \in Requests : calls[r].step \in {"send", "resend", "steer", "steered", "failed"}

\* Somebody will still write the thread's session: a request that is not
\* answered, or a turn whose end is not processed.
Owed ==
  \/ Asking \/ \E r \in Requests : calls[r].step \in {"send", "resend", "failed"}
  \/ turns # NoTurn /\ turns \notin receipts

\* The row of the last turn shows that it is over.
Over == Row(db, turns) \in Terminal

Busy(p) == p.status \in {"starting", "running"}

\* The session and the latest turn, in memory and in the database.
Shaped ==
  /\ mem.latest = NoTurn <=> mem.state = "none"
  /\ mem.state = "running" => mem.active = mem.latest
  /\ mem.active # NoTurn => mem.latest = mem.active
  /\ mem.active # NoTurn <=> mem.status = "running"
  /\ EndKnown(mem)
  /\ db.active # NoTurn <=> db.status = "running"

\* While a turn is asked for, no earlier one starts or is active.
Clear == Pending => Starts = {} /\ mem.active = NoTurn /\ db.active = NoTurn

\* Only the last turn starts, is active or is seen as active.
OnlyLast ==
  /\ \A e \in Starts : e.turn = turns
  /\ mem.active \in {NoTurn, turns} /\ db.active \in {NoTurn, turns}
ReadLast ==
  ingesting # Nothing /\ ingesting.event.turn = turns =>
    ingesting.active \in {NoTurn, turns}

\* It is the latest one, in the database once it has a row, in memory once
\* its start was processed.
LastIsLatest ==
  /\ Row(db, turns) # "none" => db.latest = turns
  /\ Starts = {} /\ turns # NoTurn => db.latest = turns /\ mem.latest = turns
  /\ turns > 1 => db.latest # NoTurn /\ mem.latest # NoTurn

\* A turn that memory has as the latest before that was over before it started.
MemoryBefore ==
  mem.latest \notin {NoTurn, turns} =>
    mem.state \in Terminal /\ \A e \in Starts : mem.done < e.at

\* What is written of a turn comes after the latest turn.
RipeCalls ==
  \A r \in Requests :
    calls[r].step \notin {"none", "failed"} /\ calls[r].turn # db.latest =>
      AskedLater(db.latest, calls[r].mark)
RipeIntents == \A x \in Intents : x.kind = "start" => AskedLater(db.latest, x.at)
RipeStarts == \A e \in Starts : db.latest # e.turn => AskedLater(db.latest, e.at)
Ripe == db.latest # NoTurn => RipeCalls /\ RipeIntents /\ RipeStarts

\* How memory and database agree on whether the last turn is over.
Agreed ==
  /\ Starts = {} => Over \/ db.active = turns
  /\ Starts = {} /\ db.active = turns => mem.active = turns
  /\ mem.active = turns => Over \/ db.active = turns
  /\ mem.latest = turns /\ mem.state \in Terminal => Over
Closed ==
  turns \in receipts => Over /\ mem.state \in Terminal
                          /\ mem.active = NoTurn /\ db.active = NoTurn
CapturedOver == capturing # Nothing /\ capturing.turn = turns => Over
Settling == turns # NoTurn => Agreed /\ Closed /\ CapturedOver

\* Whoever is busy will be written about.
Promise == Busy(mem) \/ Busy(db) => Owed

RestInv ==
  /\ Shaped /\ Clear /\ OnlyLast /\ ReadLast /\ LastIsLatest /\ MemoryBefore /\ Ripe
  /\ Settling /\ Promise

LEMMA InitRest ==
  ASSUME Init
  PROVE  RestInv
<1>1. /\ mem.status = "ready" /\ mem.active = NoTurn /\ mem.latest = NoTurn
      /\ mem.state = "none"
      /\ db.status = "ready" /\ db.active = NoTurn /\ db.latest = NoTurn
      /\ turns = 0 /\ ingesting = Nothing
  BY DEF Init, NewMemory, NewTables
<1>2. Starts = {} /\ ~Pending
  <2>1. Ahead = {} /\ Intents = {} /\ \A r \in Requests : calls[r] = NoCall
    BY DEF Init, Ahead, Intents
  <2> QED BY <2>1 DEF Starts, Pending, Asking, NoCall
<1>3. Shaped
  BY <1>1, ClosingStatuses DEF Shaped, EndKnown
<1>4. Clear /\ OnlyLast /\ ReadLast /\ MemoryBefore /\ Ripe
  BY <1>1, <1>2 DEF Clear, OnlyLast, ReadLast, MemoryBefore, Ripe
<1>5. LastIsLatest /\ Settling /\ Promise
  BY <1>1 DEF LastIsLatest, Settling, Promise, Busy, NoTurn, Row
<1> QED BY <1>3, <1>4, <1>5 DEF RestInv

\* What one event makes of the session and the latest turn decides the rest,
\* together with what is ahead.  First, steps that project nothing.
LEMMA CalmRest ==
  ASSUME RestInv, UNCHANGED <<mem, db>>, turns' = turns, Starts' = Starts,
         Pending' => Pending, Owed => Owed', ReadLast',
         \A x \in Intents' : x.kind = "start" => x \in Intents,
         \A r \in Requests : CallAdvances(r),
         turns \in receipts' => turns \in receipts,
         capturing' = capturing \/ (turns # NoTurn => CapturedOver')
  PROVE  RestInv'
<1>1. Shaped' /\ LastIsLatest' /\ MemoryBefore' /\ OnlyLast'
  BY DEF RestInv, Shaped, EndKnown, LastIsLatest, MemoryBefore, OnlyLast
<1>2. Clear' /\ Promise'
  BY DEF RestInv, Clear, Promise
<1>3. Ripe'
  <2> SUFFICES ASSUME db.latest # NoTurn
               PROVE  RipeCalls' /\ RipeIntents' /\ RipeStarts'
    BY DEF Ripe
  <2>1. RipeCalls /\ RipeIntents /\ RipeStarts
    BY DEF RestInv, Ripe
  <2>2. \A at : AskedLater(db.latest, at)' <=> AskedLater(db.latest, at)
    BY DEF AskedLater
  <2>3. RipeCalls'
    BY <2>1, <2>2 DEF RipeCalls, RipeIntents, CallAdvances
  <2> QED BY <2>1, <2>2, <2>3 DEF RipeIntents, RipeStarts
<1>4. Settling'
  <2>1. Over' <=> Over
    BY DEF Over
  <2>2. turns # NoTurn => Agreed' /\ Closed'
    BY <2>1 DEF RestInv, Settling, Agreed, Closed
  <2>3. turns # NoTurn => CapturedOver'
    BY <2>1 DEF RestInv, Settling, CapturedOver
  <2> QED BY <2>2, <2>3 DEF Settling
<1> QED BY <1>1, <1>2, <1>3, <1>4 DEF RestInv

LEMMA IntentsLeft ==
  ASSUME TypeInv, intents # <<>>, intents' = Tail(intents)
  PROVE  Intents = Intents' \cup {Head(intents)}
<1>1. intents \in Seq(StartIntents \cup InterruptIntents)
  BY DEF TypeInv, IntentsTyped
<1>2. /\ Len(intents) \in Nat /\ Len(intents) >= 1 /\ Head(intents) = intents[1]
      /\ Len(intents') = Len(intents) - 1
      /\ \A i \in 1..Len(intents') : intents'[i] = intents[i + 1]
  BY <1>1
<1>3. ASSUME NEW i \in 1..Len(intents), i # 1
      PROVE  \E j \in 1..Len(intents') : intents'[j] = intents[i]
  <2>1. i - 1 \in 1..Len(intents') /\ (i - 1) + 1 = i
    BY <1>2, <1>3
  <2> QED BY <1>2, <2>1
<1>4. Intents' \subseteq Intents /\ Head(intents) \in Intents
  BY IntentsTail
<1> QED BY <1>2, <1>3, <1>4 DEF Intents

LEMMA ReactorRest ==
  ASSUME TypeInv, KnownInv, OneAtATime, RestInv, ReactorStep
  PROVE  RestInv'
<1>1. /\ UNCHANGED <<mem, db>> /\ UNCHANGED <<turns, reported, ingesting, receipts, capturing>>
      /\ intents # <<>> /\ intents' = Tail(intents)
  BY DEF ReactorStep, ReactStart, ReactInterrupt, provider, ingestion, checkpoints
<1>2. Ahead' = Ahead /\ Starts' = Starts /\ ReadLast'
  BY <1>1, AheadSame DEF Starts, RestInv, ReadLast
<1>3. Intents = Intents' \cup {Head(intents)}
  BY <1>1, IntentsLeft
<1>4. CASE ReactStart
  <2> DEFINE x == Head(intents)
             c == IF running # NoTurn
                  THEN [step |-> "steer", turn |-> running, at |-> x.at, mark |-> x.at]
                  ELSE [step |-> "send", turn |-> NoTurn, at |-> x.at, mark |-> x.at]
  <2>1. calls' = [calls EXCEPT ![x.request] = c] /\ x.kind = "start"
    BY <1>4 DEF ReactStart
  <2>2. x.request \in Requests /\ x \in Intents
    BY <1>3, <2>1, IntentTypes DEF StartIntents
  <2>3. /\ c.mark = x.at
        /\ c.step = "send" \/ (turns # NoTurn /\ turns \notin receipts)
    BY DEF KnownInv, QueueInv, ProviderRuns
  <2> HIDE DEF c, x
  <2>4. calls'[x.request] = c /\ \A s \in Requests : s # x.request => calls'[s] = calls[s]
    BY <2>1, <2>2, OneCallChanged
  <2>5. \A s \in Requests : CallAdvances(s)
    BY <2>1, <2>2, <2>3, <2>4, CallSame DEF CallAdvances
  <2>6. Pending /\ Owed'
    BY <1>1, <2>1, <2>2, <2>3, <2>4 DEF Pending, Asking, Owed
  <2> QED BY <1>1, <1>2, <1>3, <2>5, <2>6, CalmRest
<1>5. CASE ReactInterrupt
  <2>1. calls' = calls /\ Head(intents).kind # "start"
    BY <1>5 DEF ReactInterrupt
  <2>2. Asking' <=> Asking
    BY <1>3, <2>1 DEF Asking
  <2>3. (Pending' => Pending) /\ (Owed => Owed')
    BY <1>1, <2>1, <2>2 DEF Pending, Owed
  <2> QED BY <1>1, <1>2, <1>3, <2>1, <2>3, CallSame, CalmRest
<1> QED BY <1>4, <1>5 DEF ReactorStep

\* The call that is on its way, of which the provider has not heard yet.
LEMMA CalmCallRest ==
  ASSUME TypeInv, KnownInv, OneAtATime, RestInv, NEW r \in Requests,
         SendSteers(r) \/ CallFails(r) \/ SteerTurn(r) \/ MarkReads(r)
  PROVE  RestInv'
<1> DEFINE c == calls[r]
<1>1. /\ UNCHANGED <<mem, db>> /\ UNCHANGED <<turns, reported, ingesting, receipts, capturing>>
      /\ UNCHANGED <<intents, running>>
  BY DEF SendSteers, CallFails, SteerTurn, MarkReads, provider, ingestion, checkpoints
<1>2. Ahead' = Ahead /\ Starts' = Starts /\ ReadLast' /\ Intents' = Intents
  BY <1>1, AheadSame DEF Starts, RestInv, ReadLast, Intents
<1>3. Asking' = Asking
  BY <1>2 DEF Asking
<1>4. /\ c.step \in {"steer", "steered", "answered", "marking"} =>
           c.turn = turns /\ turns # NoTurn
      /\ c.step \in {"send", "resend"} => c.turn = NoTurn
  BY DEF OneAtATime, CallTurn
<1> HIDE DEF c
<1>5. ASSUME \A s \in Requests : s # r => calls'[s] = calls[s],
             CallAdvances(r),
             c.step \in {"send", "resend"} =>
               calls'[r].step = "failed" \/ (turns # NoTurn /\ turns \notin receipts),
             c.step # "failed",
             calls'[r].step \in {"send", "resend", "steer", "steered", "failed"} =>
               c.step \in {"send", "resend", "steer", "steered", "failed"}
      PROVE  RestInv'
  <2>1. \A s \in Requests : CallAdvances(s)
    BY <1>5, CallSame
  <2>2. Pending' => Pending
    BY <1>3, <1>5 DEF Pending, c
  <2>3. Owed => Owed'
    BY <1>1, <1>3, <1>5 DEF Owed, c
  <2> QED BY <1>1, <1>2, <2>1, <2>2, <2>3, CalmRest
<1>6. CASE SendSteers(r)
  <2>1. /\ calls' = [calls EXCEPT ![r].step = "answered", ![r].turn = running]
        /\ running # NoTurn /\ c.step \in {"send", "resend"}
    BY <1>6 DEF SendSteers, c
  <2>2. turns # NoTurn /\ turns \notin receipts /\ running = turns
    BY <2>1 DEF KnownInv, QueueInv, ProviderRuns
  <2>3. /\ calls'[r].step = "answered" /\ calls'[r].turn = running
        /\ calls'[r].mark = calls[r].mark
        /\ \A s \in Requests : s # r => calls'[s] = calls[s]
    BY <2>1, CallTurnEdited
  <2>4. CallAdvances(r)
    BY <1>4, <2>1, <2>3 DEF CallAdvances, c
  <2> QED BY <1>5, <2>1, <2>2, <2>3, <2>4
<1>7. CASE CallFails(r)
  <2>1. calls' = [calls EXCEPT ![r].step = "failed"] /\ c.step \in {"send", "resend", "steer"}
    BY <1>7 DEF CallFails, c
  <2>2. /\ calls'[r].step = "failed"
        /\ \A s \in Requests : s # r => calls'[s] = calls[s]
    BY <2>1, CallStepEdited
  <2>3. CallAdvances(r)
    BY <2>2 DEF CallAdvances
  <2> QED BY <1>5, <2>1, <2>2, <2>3
<1>8. CASE SteerTurn(r)
  <2>1. calls' = [calls EXCEPT ![r].step = "steered"] /\ c.step = "steer"
    BY <1>8 DEF SteerTurn, c
  <2>2. /\ calls'[r].step = "steered" /\ calls'[r].turn = calls[r].turn
        /\ calls'[r].mark = calls[r].mark
        /\ \A s \in Requests : s # r => calls'[s] = calls[s]
    BY <2>1, CallStepEdited
  <2>3. CallAdvances(r)
    BY <2>1, <2>2 DEF CallAdvances, c
  <2> QED BY <1>5, <2>1, <2>2, <2>3
<1>9. CASE MarkReads(r)
  <2>1. c.step = "answered"
    BY <1>9 DEF MarkReads, c
  <2>2. ReadSession(db).active \in {NoTurn, turns}
    BY ReadSessionTyped, ProjectionTypes DEF RestInv, OnlyLast
  <2>3. calls' = [calls EXCEPT ![r].step = "marking"]
    BY <1>4, <1>9, <2>1, <2>2 DEF MarkReads, c
  <2>4. /\ calls'[r].step = "marking" /\ calls'[r].turn = calls[r].turn
        /\ calls'[r].mark = calls[r].mark
        /\ \A s \in Requests : s # r => calls'[s] = calls[s]
    BY <2>3, CallStepEdited
  <2>5. CallAdvances(r)
    BY <2>1, <2>4 DEF CallAdvances, c
  <2> QED BY <1>5, <2>1, <2>4, <2>5
<1> QED BY <1>6, <1>7, <1>8, <1>9

\* The provider starts a turn: until that is ingested, nothing is written
\* about it, and everything that was written is older.
LEMMA SendTurnRest ==
  ASSUME TypeInv, KnownInv, OneAtATime, RestInv, NEW r \in Requests, SendTurn(r)
  PROVE  RestInv'
<1> DEFINE e == [kind |-> "started", turn |-> turns + 1, at |-> Now]
           c == calls[r]
<1>1. /\ UNCHANGED <<mem, db>> /\ UNCHANGED <<intents, ingesting, receipts, capturing>>
      /\ turns' = turns + 1 /\ turns + 1 \in Turns /\ reported' = Append(reported, e)
      /\ c.step \in {"send", "resend"} /\ running = NoTurn
      /\ calls' = [calls EXCEPT ![r].step = "answered", ![r].turn = turns + 1]
  BY DEF SendTurn, checkpoints
<1>2. /\ e \in ProviderEvents /\ e.turn = turns + 1 /\ e.at = Now /\ e.kind = "started"
      /\ Now \in Nat /\ Now > clock /\ turns \in Nat /\ turns + 1 # NoTurn /\ NoTurn = 0
  BY <1>1, Clocked, ProjectionTypes, RecordTypes DEF ProviderEvents, Now, Instants
<1>3. /\ calls'[r].step = "answered" /\ calls'[r].turn = turns + 1
      /\ calls'[r].mark = c.mark
      /\ \A s \in Requests : s # r => calls'[s] = calls[s]
  BY <1>1, CallTurnEdited
<1>4. /\ c # NoCall /\ c.turn = NoTurn
      /\ \A s \in Requests : s # r => calls[s] = NoCall
      /\ \A x \in Intents : x.kind # "start"
  BY <1>1, OnlyCall DEF OneAtATime, CallTurn, NoCall
<1>5. Starts = {} /\ mem.active = NoTurn /\ db.active = NoTurn
  BY <1>1 DEF RestInv, Clear, Pending, c
<1> HIDE DEF e, c
<1>6. Ahead' = Ahead \cup {e} /\ Intents' = Intents
  BY <1>1, <1>2, AheadAppend DEF Intents
<1>7. Starts' = {e}
  BY <1>2, <1>5, <1>6 DEF Starts
<1>8. ~Pending'
  BY <1>3, <1>4, <1>6 DEF Pending, Asking, NoCall
<1>9. /\ mem.latest \in Turns \cup {NoTurn} /\ db.latest \in Turns \cup {NoTurn}
      /\ mem.latest \in Nat /\ db.latest \in Nat
      /\ mem.state \in TurnStates
  BY ProjectionTypes, TurnNumbers DEF Memory, Tables
<1>10. /\ mem.latest <= turns /\ db.latest <= turns /\ Row(db, turns + 1) = "none"
  BY <1>1, <1>2, <1>9 DEF KnownInv, RowsInv, Rowed, Row
<1>11. Shaped' /\ Clear' /\ OnlyLast' /\ Promise'
  <2>1. turns + 1 \notin receipts
    BY <1>2 DEF TypeInv, ReceiptsTyped
  <2>2. Shaped'
    BY <1>1 DEF RestInv, Shaped, EndKnown
  <2>3. Owed'
    BY <1>1, <1>2, <2>1 DEF Owed
  <2> QED BY <1>1, <1>2, <1>5, <1>7, <1>8, <2>2, <2>3 DEF Clear, OnlyLast, Promise
<1>12. ReadLast'
  <2>1. ingesting # Nothing => ingesting.event.turn # turns + 1
    BY <1>2, IngestedEvent
  <2> QED BY <1>1, <2>1 DEF ReadLast
<1>13. LastIsLatest'
  <2>1. turns + 1 > 1 => db.latest # NoTurn /\ mem.latest # NoTurn
    BY <1>2, <1>5 DEF RestInv, LastIsLatest
  <2> QED BY <1>1, <1>7, <1>10, <2>1 DEF LastIsLatest
<1>14. MemoryBefore'
  <2>1. mem.latest # NoTurn => mem.state \in Terminal
    BY <1>5, <1>9 DEF RestInv, Shaped, TurnStates, Terminal
  <2>2. mem.done < e.at
    BY <1>2, ProjectionTypes DEF KnownInv, ClockInv
  <2> QED BY <1>1, <1>7, <2>1, <2>2 DEF MemoryBefore
<1>15. Ripe'
  <2> SUFFICES ASSUME db.latest # NoTurn
               PROVE  (RipeCalls /\ RipeIntents /\ RipeStarts)'
    BY <1>1 DEF Ripe
  <2>1. AskedLater(db.latest, c.mark)
    BY <1>1, <1>4 DEF RestInv, Ripe, RipeCalls, c
  <2>2. AskedLater(db.latest, Now)
    <3>1. db.asked[db.latest] <= clock /\ db.asked[db.latest] \in Nat
      BY <1>9, ProjectionTypes DEF KnownInv, ClockInv
    <3> QED BY <1>2, <2>1, <3>1, ProjectionTypes DEF AskedLater
  <2>3. \A at : AskedLater(db.latest, at)' <=> AskedLater(db.latest, at)
    BY <1>1 DEF AskedLater
  <2>4. RipeCalls'
    <3>1. \A s \in Requests : s # r => calls'[s].step = "none"
      BY <1>3, <1>4 DEF NoCall
    <3>2. /\ calls'[r].mark > db'.asked[db'.latest]
          /\ db'.pending = NoTime \/ db'.pending > db'.asked[db'.latest]
      BY <1>1, <1>3, <2>1 DEF AskedLater
    <3> QED BY <3>1, <3>2 DEF RipeCalls, AskedLater
  <2> QED BY <1>1, <1>2, <1>4, <1>6, <1>7, <2>2, <2>3, <2>4 DEF RipeIntents, RipeStarts
<1>16. Settling'
  <2>1. Agreed'
    BY <1>1, <1>2, <1>5, <1>7, <1>9, <1>10 DEF Agreed
  <2>2. Closed'
    BY <1>1, <1>2 DEF Closed, TypeInv, ReceiptsTyped
  <2>3. CapturedOver'
    <3>1. capturing # Nothing => capturing.turn # turns + 1
      <4>1. capturing # Nothing => capturing \in Items
        BY DEF Items
      <4> QED BY <1>2, <4>1, ItemsTyped DEF KnownInv, QueueInv, ItemsPast
    <3> QED BY <1>1, <3>1 DEF CapturedOver
  <2> QED BY <2>1, <2>2, <2>3 DEF Settling
<1> QED BY <1>11, <1>12, <1>13, <1>14, <1>15, <1>16 DEF RestInv

\* Steps that only add to what is ahead.
LEMMA ProviderRest ==
  ASSUME TypeInv, KnownInv, RestInv, SteadyProvider
  PROVE  RestInv'
<1>1. /\ UNCHANGED <<mem, db>> /\ UNCHANGED <<turns, ingesting, receipts, capturing>>
      /\ UNCHANGED <<intents, calls>>
  BY DEF SteadyProvider, ProviderDiff, ProviderEnds, reactor, checkpoints
<1>2. running \in Turns \/ running = NoTurn
  BY RunningTurn
<1>3. \E e \in ProviderEvents : reported' = Append(reported, e) /\ e.kind # "started"
  <2>1. CASE ProviderDiff
    <3> DEFINE e == [kind |-> "diff", turn |-> running, at |-> Now]
    <3>1. reported' = Append(reported, e) /\ running # NoTurn
      BY <2>1 DEF ProviderDiff
    <3>2. e \in ProviderEvents
      BY <1>2, <3>1, Clocked DEF ProviderEvents
    <3> QED BY <3>1, <3>2
  <2>2. CASE \E o \in Endings : ProviderEnds(o)
    <3>1. PICK o \in Endings : ProviderEnds(o)
      BY <2>2
    <3> DEFINE e == [kind |-> "ended", turn |-> running, outcome |-> o, at |-> Now]
    <3>2. reported' = Append(reported, e) /\ running # NoTurn
      BY <3>1 DEF ProviderEnds
    <3>3. e \in ProviderEvents
      BY <1>2, <3>2, Clocked, ThreadAssumption DEF ProviderEvents, EndedEvents, EndOutcomes, Endings
    <3> QED BY <3>2, <3>3
  <2> QED BY <2>1, <2>2 DEF SteadyProvider
<1>4. PICK e \in ProviderEvents : reported' = Append(reported, e) /\ e.kind # "started"
  BY <1>3
<1>5. Ahead' = Ahead \cup {e}
  BY <1>1, <1>4, AheadAppend
<1>6. Starts' = Starts
  BY <1>4, <1>5 DEF Starts
<1>7. (Pending' => Pending) /\ (Owed => Owed') /\ Intents' = Intents
  BY <1>1 DEF Pending, Owed, Asking, Intents
<1>8. ReadLast'
  BY <1>1 DEF RestInv, ReadLast
<1> QED BY <1>1, <1>6, <1>7, <1>8, CallSame, CalmRest


\* Ingestion and checkpoints that project nothing: neither requests nor calls
\* change.
LEMMA QuietRest ==
  ASSUME RestInv, UNCHANGED <<mem, db>>, UNCHANGED reactor, turns' = turns,
         Starts' = Starts, ReadLast', turns \in receipts' <=> turns \in receipts,
         capturing' = capturing \/ (turns # NoTurn => CapturedOver')
  PROVE  RestInv'
<1>1. calls' = calls /\ Intents' = Intents
  BY DEF reactor, Intents
<1>2. (Pending' => Pending) /\ (Owed => Owed')
  BY <1>1 DEF Pending, Owed, Asking
<1> QED BY <1>1, <1>2, CallSame, CalmRest

\* The event that is done was no start.
LEMMA StartsLeft ==
  ASSUME TypeInv, Ordered, ingesting # Nothing, ingesting' = Nothing,
         reported' = reported, ingesting.event \notin Starts
  PROVE  Starts' = Starts
BY AheadDone DEF Starts

LEMMA ReadsRest ==
  ASSUME TypeInv, RestInv, IngestReads
  PROVE  RestInv'
<1>1. /\ UNCHANGED <<mem, db>> /\ UNCHANGED reactor /\ turns' = turns
      /\ receipts' = receipts /\ capturing' = capturing
      /\ ingesting'.active = ReadSession(db).active
  BY DEF IngestReads, provider, checkpoints
<1>2. Starts' = Starts
  BY AheadRead DEF Starts
<1>3. ReadLast'
  <2>1. ReadSession(db).active \in {NoTurn, turns}
    BY ReadSessionTyped, ProjectionTypes DEF RestInv, OnlyLast
  <2> QED BY <1>1, <2>1 DEF ReadLast
<1> QED BY <1>1, <1>2, <1>3, QuietRest

\* Content only: no event of the last turn is.
LEMMA IgnoredRest ==
  ASSUME TypeInv, KnownInv, RestInv, IngestLifecycle, ~AppliesLifecycle(ingesting)
  PROVE  RestInv'
<1> DEFINE e == ingesting.event
<1>1. /\ UNCHANGED <<mem, db>> /\ UNCHANGED reactor /\ turns' = turns
      /\ capturing' = capturing /\ ingesting # Nothing /\ ingesting' = Nothing
      /\ reported' = reported /\ receipts' \in {receipts, receipts \cup {e.turn}}
  BY DEF IngestLifecycle, provider, checkpoints
<1>2. e.turn # turns
  BY <1>1 DEF AppliesLifecycle, RestInv, ReadLast
<1> HIDE DEF e
<1>3. e \notin Starts
  BY <1>2 DEF RestInv, OnlyLast
<1>4. Starts' = Starts
  BY <1>1, <1>3, StartsLeft DEF KnownInv, QueueInv, e
<1>5. ReadLast' /\ (turns \in receipts' <=> turns \in receipts)
  BY <1>1, <1>2 DEF ReadLast
<1> QED BY <1>1, <1>4, <1>5, QuietRest

LEMMA TrackedRest ==
  ASSUME TypeInv, KnownInv, RestInv, IngestDiff, ingesting.tracked
  PROVE  RestInv'
<1>1. /\ UNCHANGED <<mem, db>> /\ UNCHANGED reactor /\ turns' = turns
      /\ capturing' = capturing /\ ingesting # Nothing /\ ingesting' = Nothing
      /\ reported' = reported /\ receipts' = receipts
      /\ ingesting.event.kind = "diff"
  BY DEF IngestDiff, provider
<1>2. Starts' = Starts
  BY <1>1, StartsLeft DEF KnownInv, QueueInv, Starts
<1>3. ReadLast'
  BY <1>1 DEF ReadLast
<1> QED BY <1>1, <1>2, <1>3, QuietRest

\* A capture of the last turn is taken up when that is over.
LEMMA CapturesRest ==
  ASSUME TypeInv, KnownInv, RestInv, CheckpointStep, ~CaptureWrites
  PROVE  RestInv'
<1>1. /\ UNCHANGED <<mem, db>> /\ UNCHANGED reactor /\ turns' = turns
      /\ reported' = reported /\ ingesting' = ingesting /\ receipts' = receipts
  BY DEF CheckpointStep, CaptureCompletion, CaptureGivenUp, CapturePlaceholder,
         CaptureFails, provider, ingestion
<1>2. Starts' = Starts /\ ReadLast'
  BY <1>1, AheadSame DEF Starts, RestInv, ReadLast
<1>3. ASSUME turns # NoTurn PROVE capturing' = capturing \/ CapturedOver'
  <2>1. Over' <=> Over
    BY <1>1 DEF Over
  <2>2. CASE CaptureGivenUp \/ CaptureFails
    BY <2>2 DEF CaptureGivenUp, CaptureFails, CapturedOver
  <2>3. CASE CaptureCompletion
    <3>1. /\ Head(captures).turn \in receipts
          /\ capturing' # Nothing => capturing'.turn = Head(captures).turn
      BY <2>3 DEF CaptureCompletion, Capture
    <3>2. turns \in receipts => Over
      BY <1>3 DEF RestInv, Settling, Closed
    <3> QED BY <1>1, <2>1, <3>1, <3>2 DEF CapturedOver
  <2>4. CASE CapturePlaceholder
    <3> DEFINE e == Head(captures)
    <3>1. /\ e.kind = "placeholder" /\ capturing = Nothing /\ captures # <<>>
          /\ capturing' # Nothing =>
               /\ capturing'.turn = e.turn
               /\ ReadSession(db).active # e.turn
               /\ ~(db.latest = e.turn /\ db.state[e.turn] = "running")
      BY <2>4 DEF CapturePlaceholder, Capture
    <3> HIDE DEF e
    <3>2. ASSUME capturing' # Nothing, e.turn = turns PROVE Over
      <4>1. e \in Items
        BY <3>1, CaptureHead DEF Items, e
      <4>2. Seen(turns)
        BY <3>1, <3>2, <4>1 DEF KnownInv, QueueInv, ItemsPast
      <4>3. \A x \in Starts : FALSE
        <5>1. \A x \in Starts : x.turn = turns /\ turns < x.turn
          BY <4>2 DEF Seen, Starts, RestInv, OnlyLast
        <5> QED BY <5>1, ProjectionTypes
      <4>4. Starts = {}
        BY <4>3
      <4>5. db.latest = turns /\ (Over \/ db.active = turns)
        BY <1>3, <4>4 DEF RestInv, LastIsLatest, Settling, Agreed
      <4>6. ASSUME ~Over PROVE FALSE
        <5>1. db.active = turns /\ Row(db, turns) \notin Terminal
                /\ Row(db, turns) # "running"
          BY <1>3, <3>1, <3>2, <4>5, <4>6 DEF Over, Row
        <5>2. ReadSession(db).active = turns
          BY <1>3, <4>5, <5>1 DEF ReadSession
        <5> QED BY <3>1, <3>2, <5>2
      <4> QED BY <4>6
    <3> QED BY <1>1, <2>1, <3>1, <3>2 DEF CapturedOver
  <2> QED BY <2>2, <2>3, <2>4 DEF CheckpointStep
<1> QED BY <1>1, <1>2, <1>3, QuietRest

\* What a turn's rows say of the last turn stays when those rows do.
LEMMA LatestTyped ==
  ASSUME TypeInv, KnownInv
  PROVE  /\ mem.latest \in Turns \cup {NoTurn} /\ mem.active \in Turns \cup {NoTurn}
         /\ db.latest \in Turns \cup {NoTurn} /\ db.active \in Turns \cup {NoTurn}
         /\ turns \in Turns \cup {NoTurn} /\ NoTurn \notin Turns
         /\ mem.state \in TurnStates
         /\ db.latest # NoTurn => db.latest \in Turns /\ db.state[db.latest] # "none"
         /\ db.active # NoTurn => db.active \in Turns /\ db.state[db.active] # "none"
BY ProjectionTypes, RecordTypes
   DEF Memory, Tables, KnownInv, RowsInv, Rowed, TypeInv, ProviderTyped

\* In memory only the active turn runs.
LEMMA ActiveRuns ==
  ASSUME TypeInv, KnownInv, RestInv
  PROVE  /\ MemoryActive(mem) = mem.active
         /\ mem.active = NoTurn => mem.state \in Terminal \/ mem.latest = NoTurn
BY LatestTyped DEF MemoryActive, RestInv, Shaped, TurnStates, Terminal

\* A turn is asked for when nothing of an earlier one is on its way.
LEMMA StartTurnRest ==
  ASSUME TypeInv, KnownInv, RestInv, StartTurn, ~Calling, ~Starting
  PROVE  RestInv'
<1> DEFINE x == [kind |-> "start", request |-> asked + 1, at |-> Now]
<1>1. /\ Project(StartRequested(Now)) /\ calls' = calls /\ turns' = turns
      /\ intents' = Append(intents, x) /\ asked < MaxRequests
      /\ UNCHANGED <<reported, ingesting, receipts, capturing>> /\ ~Unsettled
  BY DEF StartTurn, provider, ingestion, checkpoints
<1>2. x \in StartIntents /\ x.at = Now /\ x.kind = "start"
  BY <1>1, ThreadAssumption, Clocked DEF StartIntents, Requests, TypeInv, CountersTyped
<1> HIDE DEF x
<1>3. Intents' = Intents \cup {x} /\ Ahead' = Ahead /\ Starts' = Starts
  BY <1>1, <1>2, IntentsAppend, AheadSame DEF Starts
<1>4. Starts = {}
  <2>1. DOMAIN reported = 1..Len(reported)
    BY DEF TypeInv, ReportedTyped
  <2> QED BY <2>1 DEF Starting, Starts, Ahead
<1>5. /\ \A r \in Requests : calls[r] = NoCall
      /\ \A y \in Intents : y.kind # "start"
  <2>1. DOMAIN intents = 1..Len(intents)
    BY DEF TypeInv, IntentsTyped
  <2> QED BY <2>1 DEF Calling, Intents
<1>6. /\ mem'.status = "starting" /\ mem'.active = NoTurn
      /\ mem'.latest = mem.latest /\ mem'.state = mem.state /\ mem'.done = mem.done
      /\ db'.status = "starting" /\ db'.active = NoTurn /\ db'.latest = db.latest
      /\ db'.state = db.state /\ db'.asked = db.asked /\ db'.pending = Now
  BY <1>1, Clocked, ProjectionTypes, StartOnMemory, StartOnTables DEF Project
<1>7. mem.active = NoTurn /\ mem.state # "running"
  BY <1>1, ActiveRuns, LatestTyped DEF Unsettled, RestInv, Shaped, Terminal
<1>8. Shaped'
  BY <1>6, <1>7 DEF RestInv, Shaped, EndKnown
<1>9. Clear' /\ OnlyLast' /\ ReadLast' /\ LastIsLatest' /\ MemoryBefore'
  <2>1. (Row(db, turns))' = Row(db, turns)
    BY <1>1, <1>6 DEF Row
  <2> QED BY <1>1, <1>3, <1>4, <1>6, <2>1
          DEF RestInv, Clear, OnlyLast, ReadLast, LastIsLatest, MemoryBefore
<1>10. Ripe'
  <2> SUFFICES ASSUME db.latest # NoTurn
               PROVE  (RipeCalls /\ RipeIntents /\ RipeStarts)'
    BY <1>6 DEF Ripe
  <2>1. Now > db'.asked[db'.latest]
    BY <1>6, LatestTyped, ProjectionTypes DEF KnownInv, ClockInv, Now
  <2>2. RipeCalls'
    BY <1>1, <1>5 DEF RipeCalls, NoCall
  <2>3. RipeIntents'
    BY <1>2, <1>3, <1>5, <1>6, <2>1 DEF RipeIntents, AskedLater
  <2> QED BY <1>3, <1>4, <2>2, <2>3 DEF RipeStarts
<1>11. Settling'
  <2> SUFFICES ASSUME turns # NoTurn PROVE (Agreed /\ Closed /\ CapturedOver)'
    BY <1>1 DEF Settling
  <2>1. Over' <=> Over
    BY <1>1, <1>6 DEF Over, Row
  <2>2. Over
    BY <1>4, <1>7 DEF RestInv, Settling, Agreed
  <2> QED BY <1>1, <1>6, <2>1, <2>2 DEF RestInv, Settling, Agreed, Closed, CapturedOver
<1>12. Promise'
  BY <1>2, <1>3 DEF Promise, Owed, Asking
<1> QED BY <1>8, <1>9, <1>10, <1>11, <1>12 DEF RestInv

LEMMA InterruptRest ==
  ASSUME TypeInv, KnownInv, RestInv, NEW named \in Turns \cup {NoTurn}, Interrupt(named)
  PROVE  RestInv'
<1> DEFINE turn == IF named # NoTurn THEN named ELSE MemoryActive(mem)
           x == [kind |-> "interrupt", turn |-> turn]
<1>1. /\ Project(InterruptRequested(turn, Now)) /\ turns' = turns /\ calls' = calls
      /\ intents' = Append(intents, x)
      /\ UNCHANGED <<reported, ingesting, receipts, capturing>>
      /\ named # NoTurn => db.state[named] # "none"
  BY DEF Interrupt, provider, ingestion, checkpoints
<1>2. turn \in Turns \cup {NoTurn} /\ Rowed(db, turn)
  BY <1>1, MemoryActiveRowed, MemoryActiveTyped, ProjectionTypes DEF Rowed, KnownInv
<1>3. x \in InterruptIntents /\ x.kind # "start"
  BY <1>2 DEF InterruptIntents
<1>4. turn = NoTurn => mem.active = NoTurn
  BY ActiveRuns, LatestTyped
<1>5. InterruptedTurn(mem, turn) = turn
  BY DEF InterruptedTurn
<1> HIDE DEF x, turn
<1>6. Intents' = Intents \cup {x} /\ Starts' = Starts
  BY <1>1, <1>3, IntentsAppend, AheadSame DEF Starts
<1>7. (Asking' <=> Asking) /\ (Pending' <=> Pending) /\ (Owed' <=> Owed)
  <2>1. Asking' <=> Asking
    BY <1>3, <1>6 DEF Asking
  <2> QED BY <1>1, <2>1 DEF Pending, Owed
<1> DEFINE ends == InterruptEnds(mem, turn)
           closes == InterruptCloses(db, turn)
           names == turn # NoTurn /\ mem.latest \in {NoTurn, turn}
<1>8. /\ ends => mem'.status = "interrupted" /\ mem'.active = NoTurn
      /\ ~ends => mem'.status = mem.status /\ mem'.active = mem.active
      /\ names => /\ mem'.latest = turn /\ mem'.state = "interrupted"
                  /\ mem'.done = IF mem.latest = turn /\ mem.done # NoTime THEN mem.done
                                 ELSE Now
      /\ ~names => /\ mem'.latest = mem.latest /\ mem'.state = mem.state
                   /\ mem'.done = mem.done
  BY <1>1, <1>2, <1>5, Clocked, ProjectionTypes, InterruptOnMemory
  DEF Project, InterruptNamesLatest
<1>9. /\ db'.status = IF closes THEN "interrupted" ELSE db.status
      /\ db'.active = IF closes THEN NoTurn ELSE db.active
      /\ db'.latest = db.latest /\ db'.pending = db.pending
  BY <1>1, <1>2, Clocked, ProjectionTypes, InterruptOnTables DEF Project
<1>10. /\ \A u \in Turns : db'.asked[u] = db.asked[u]
       /\ \A u \in Turns : db'.state[u] = IF u = turn THEN "interrupted" ELSE db.state[u]
  BY <1>1, <1>2, Clocked, ProjectionTypes, InterruptOnTables, RowsOfInterrupt
  DEF Project, KnownInv
<1>11. Row(db', turns) = IF turns # NoTurn /\ turns = turn THEN "interrupted"
                         ELSE Row(db, turns)
  BY <1>10, LatestTyped DEF Row
<1>12. /\ ends <=> /\ turn = NoTurn \/ mem.active \in {NoTurn, turn}
                   /\ mem.status \in {"starting", "running"} \/ mem.active # NoTurn
       /\ closes /\ turn # NoTurn => db.active \in {NoTurn, turn}
       /\ turn # NoTurn /\ db.active = turn => closes
       /\ closes /\ turn = NoTurn => db.active # NoTurn
  BY DEF InterruptEnds, InterruptCloses
<1> HIDE DEF ends, closes, names
<1>13. turn \in Nat /\ turns \in Nat /\ turn <= turns /\ NoTurn = 0
       /\ (turn # NoTurn => turn > 0)
  BY <1>2, ProjectionTypes, TurnNumbers DEF KnownInv, RowsInv, Rowed, NoTurn
<1>14. names => turn # NoTurn /\ mem.latest \in {NoTurn, turn}
  BY DEF names
<1>15. turn # NoTurn /\ mem.latest = turn => names
  BY DEF names
<1>16. Shaped'
  <2>1. "interrupted" \in Terminal /\ Now # NoTime
    BY Clocked, RecordTypes DEF Terminal, Instants, NoTime
  <2>2. EndKnown(mem')
    BY <1>8, <2>1 DEF RestInv, Shaped, EndKnown
  <2>3. mem'.latest = NoTurn <=> mem'.state = "none"
    BY <1>8, <1>14 DEF RestInv, Shaped
  <2>4. mem'.state = "running" => mem'.active = mem'.latest
    BY <1>4, <1>8, <1>12, <1>15 DEF RestInv, Shaped
  <2>5. mem'.active # NoTurn => mem'.latest = mem'.active
    BY <1>8, <1>12, <1>14 DEF RestInv, Shaped
  <2>6. /\ mem'.active # NoTurn <=> mem'.status = "running"
        /\ db'.active # NoTurn <=> db'.status = "running"
    BY <1>8, <1>9 DEF RestInv, Shaped
  <2> QED BY <2>2, <2>3, <2>4, <2>5, <2>6 DEF Shaped
<1>17. Clear' /\ OnlyLast' /\ ReadLast'
  BY <1>1, <1>6, <1>7, <1>8, <1>9 DEF RestInv, Clear, OnlyLast, ReadLast
<1>18. mem.latest # NoTurn => mem'.latest = mem.latest
  BY <1>8, <1>14
<1>19. LastIsLatest'
  <2>1. Row(db', turns) # "none" => Row(db, turns) # "none"
    BY <1>2, <1>11 DEF Rowed, Row
  <2>2. mem'.latest = NoTurn => mem.latest = NoTurn
    BY <1>18
  <2> QED BY <1>1, <1>6, <1>9, <1>18, <2>1, <2>2 DEF RestInv, LastIsLatest
<1>20. MemoryBefore'
  <2> SUFFICES ASSUME mem'.latest \notin {NoTurn, turns}
               PROVE  mem'.state \in Terminal /\ \A e \in Starts : mem'.done < e.at
    BY <1>1, <1>6 DEF MemoryBefore
  <2>1. CASE ~names
    BY <1>8, <2>1 DEF RestInv, MemoryBefore
  <2>2. CASE names
    <3>1. turn # turns /\ turns > 1
      BY <1>8, <1>13, <1>14, <2>2
    <3>2. mem.latest = turn
      BY <1>14, <2>2, <3>1 DEF RestInv, LastIsLatest
    <3>3. mem.state \in Terminal /\ \A e \in Starts : mem.done < e.at
      BY <1>14, <2>2, <3>1, <3>2 DEF RestInv, MemoryBefore
    <3>4. mem'.done = mem.done /\ mem'.state = "interrupted"
      BY <1>8, <2>2, <3>2, <3>3 DEF RestInv, Shaped, EndKnown
    <3> QED BY <3>3, <3>4 DEF Terminal
  <2> QED BY <2>1, <2>2
<1>21. Ripe'
  <2> SUFFICES ASSUME db.latest # NoTurn
               PROVE  (RipeCalls /\ RipeIntents /\ RipeStarts)'
    BY <1>9 DEF Ripe
  <2>1. RipeCalls /\ RipeIntents /\ RipeStarts
    BY DEF RestInv, Ripe
  <2>2. db'.asked[db'.latest] = db.asked[db.latest] /\ db'.pending = db.pending
        /\ db'.latest = db.latest
    BY <1>9, <1>10, LatestTyped
  <2>3. RipeCalls'
    BY <1>1, <2>1, <2>2 DEF RipeCalls, AskedLater
  <2>4. RipeIntents'
    BY <1>3, <1>6, <2>1, <2>2 DEF RipeIntents, AskedLater
  <2> QED BY <1>6, <2>1, <2>2, <2>3, <2>4 DEF RipeStarts, AskedLater
<1>22. Settling'
  <2> SUFFICES ASSUME turns # NoTurn PROVE (Agreed /\ Closed /\ CapturedOver)'
    BY <1>1 DEF Settling
  <2>1. (Over => Over') /\ (turn = turns => Over')
    BY <1>1, <1>11 DEF Over, Terminal
  <2>2. mem'.state \in Terminal \/ mem'.state = mem.state
    BY <1>8 DEF Terminal
  <2>3. Agreed /\ Closed /\ CapturedOver
    BY DEF RestInv, Settling
  <2>4. Starts = {} => Over' \/ db'.active = turns
    BY <1>4, <1>9, <1>12, <2>1, <2>3 DEF Agreed
  <2>5. Starts = {} /\ db'.active = turns => mem'.active = turns
    BY <1>4, <1>8, <1>9, <1>12, <2>3 DEF Agreed
  <2>6. mem'.active = turns => Over' \/ db'.active = turns
    BY <1>4, <1>8, <1>9, <1>12, <2>1, <2>3 DEF Agreed
  <2>7. mem'.latest = turns /\ mem'.state \in Terminal => Over'
    BY <1>8, <2>1, <2>3 DEF Agreed
  <2>8. Agreed'
    BY <1>1, <1>6, <2>4, <2>5, <2>6, <2>7 DEF Agreed
  <2>9. Closed'
    BY <1>1, <1>8, <1>9, <2>1, <2>2, <2>3 DEF Closed
  <2> QED BY <1>1, <2>1, <2>3, <2>8, <2>9 DEF CapturedOver
<1>23. Promise'
  BY <1>7, <1>8, <1>9 DEF RestInv, Promise, Busy
<1> QED BY <1>16, <1>17, <1>19, <1>20, <1>21, <1>22, <1>23 DEF RestInv

\* A session without a turn is projected: the turn that was active is over.
LEMMA ClosingRest ==
  ASSUME TypeInv, KnownInv, RestInv, NEW status \in Closing, NEW at \in Instants,
         Project(SessionSet(status, NoTurn, at)), turns' = turns, Starts' = Starts,
         Pending' => Pending,
         \A x \in Intents' : x.kind = "start" => x \in Intents,
         \A r \in Requests : \/ calls'[r].step \in {"none", "failed"}
                             \/ calls'[r] = calls[r] \/ calls'[r].mark = Now,
         turns \in receipts' => turns \in receipts \/ Starts = {},
         ingesting' \in {ingesting, Nothing}, capturing' = capturing
  PROVE  RestInv'
<1>1. /\ mem'.status = status /\ mem'.active = NoTurn
      /\ mem.active = NoTurn => /\ mem'.latest = mem.latest /\ mem'.state = mem.state
                                /\ mem'.done = mem.done
      /\ mem.active # NoTurn =>
           /\ mem'.latest = mem.active
           /\ mem'.state = IF mem.state \in {"error", "interrupted"} THEN mem.state
                           ELSE ClosedState(status)
           /\ mem'.done = IF mem.latest = mem.active /\ mem.done # NoTime THEN mem.done
                          ELSE at
  BY ClosingOnMemory, ActiveRuns, ProjectionTypes DEF Project
<1>2. /\ db'.status = status /\ db'.active = NoTurn /\ db'.latest = db.latest
      /\ db'.pending = NoTime
      /\ \A u \in Turns : db'.state[u] =
           IF u # db.active \/ db.state[u] \in {"error", "interrupted"}
           THEN db.state[u] ELSE ClosedState(status)
      /\ \A u \in Turns : db'.asked[u] =
           IF u = db.active /\ db.state[u] = "none" THEN at ELSE db.asked[u]
  BY ProjectionTypes, ClosingOnTables DEF Project
<1>3. ClosedState(status) \in Terminal /\ status \notin {"starting", "running"}
  BY ClosedStateTyped, ClosingStatuses
<1>4. /\ mem'.latest = mem.latest
      /\ mem.active = NoTurn \/ mem'.state \in Terminal
      /\ IF mem.active = NoTurn THEN mem'.done = mem.done ELSE mem'.done # NoTime
  BY <1>1, <1>3 DEF RestInv, Shaped, Terminal, Instants, NoTime
<1>5. \A u \in Turns : db'.asked[u] = db.asked[u]
  BY <1>2, LatestTyped
<1>6. /\ Row(db', turns) # "none" => Row(db, turns) # "none"
      /\ Row(db, turns) \in Terminal => Row(db', turns) \in Terminal
      /\ turns # NoTurn /\ db.active = turns => Row(db', turns) \in Terminal
  BY <1>2, <1>3, LatestTyped DEF Row, Terminal
<1>7. mem'.state = "none" => mem.state = "none"
  BY <1>1, <1>3, <1>4 DEF Terminal
<1>8. mem'.latest = NoTurn => mem'.state = "none"
  BY <1>1, <1>4 DEF RestInv, Shaped
<1>9. mem'.state # "running"
  BY <1>1, <1>4, ActiveRuns, LatestTyped DEF RestInv, Shaped, Terminal
<1>10. Shaped'
  <2>1. EndKnown(mem')
    BY <1>1, <1>4 DEF RestInv, Shaped, EndKnown
  <2> QED BY <1>1, <1>2, <1>3, <1>4, <1>7, <1>8, <1>9, <2>1 DEF RestInv, Shaped
<1>11. Clear' /\ OnlyLast' /\ ReadLast'
  BY <1>1, <1>2 DEF RestInv, Clear, OnlyLast, ReadLast
<1>12. LastIsLatest'
  BY <1>2, <1>4, <1>6 DEF RestInv, LastIsLatest
<1>13. MemoryBefore'
  <2>1. mem.latest \notin {NoTurn, turns} => mem.active = NoTurn
    BY DEF RestInv, Shaped, OnlyLast
  <2> QED BY <1>1, <1>4, <2>1 DEF RestInv, MemoryBefore
<1>14. Ripe'
  <2> SUFFICES ASSUME db.latest # NoTurn
               PROVE  (RipeCalls /\ RipeIntents /\ RipeStarts)'
    BY <1>2 DEF Ripe
  <2>1. RipeCalls /\ RipeIntents /\ RipeStarts
    BY DEF RestInv, Ripe
  <2>2. /\ db'.latest = db.latest /\ db'.pending = NoTime
        /\ db'.asked[db'.latest] = db.asked[db.latest]
        /\ Now > db.asked[db.latest]
    BY <1>2, <1>5, LatestTyped, ProjectionTypes DEF KnownInv, ClockInv, Now
  <2>3. RipeCalls'
    BY <2>1, <2>2 DEF RipeCalls, AskedLater
  <2>4. RipeIntents'
    BY <2>1, <2>2 DEF RipeIntents, AskedLater
  <2> QED BY <2>1, <2>2, <2>3, <2>4 DEF RipeStarts, AskedLater
<1>15. Settling'
  <2> SUFFICES ASSUME turns # NoTurn PROVE (Agreed /\ Closed /\ CapturedOver)'
    BY DEF Settling
  <2>1. Over \/ db.active = turns => Over'
    BY <1>6 DEF Over
  <2>2. Agreed /\ Closed /\ CapturedOver
    BY DEF RestInv, Settling
  <2>3. Agreed'
    BY <1>1, <1>2, <1>4, <2>1, <2>2 DEF Agreed
  <2>4. Closed'
    <3>1. CASE turns \in receipts
      BY <1>1, <1>2, <2>1, <2>2, <3>1 DEF Closed
    <3>2. CASE Starts = {}
      <4>1. mem.latest = turns
        BY <3>2 DEF RestInv, LastIsLatest
      <4>2. mem'.state \in Terminal
        BY <1>1, <1>4, <4>1, ActiveRuns
      <4> QED BY <1>1, <1>2, <2>1, <2>2, <3>2, <4>2 DEF Agreed, Closed
    <3> QED BY <3>1, <3>2 DEF Closed
  <2> QED BY <2>1, <2>2, <2>3, <2>4 DEF CapturedOver
<1>16. Promise'
  BY <1>1, <1>2, <1>3 DEF Promise, Busy
<1> QED BY <1>10, <1>11, <1>12, <1>13, <1>14, <1>15, <1>16 DEF RestInv

\* A running session of the last turn is projected: it is refused if that is over.
LEMMA RunningRest ==
  ASSUME TypeInv, KnownInv, OneAtATime, RestInv, NEW at \in Instants,
         turns \in Turns, Project(SessionSet("running", turns, at)), turns' = turns,
         ~Pending', Starts' \subseteq Starts,
         \A r \in Requests : calls'[r].step = "none" \/ calls'[r] = calls[r],
         turns \in receipts' <=> turns \in receipts, turns \in receipts => ~Owed,
         ingesting' \in {ingesting, Nothing}, capturing' = capturing,
         db.latest \notin {NoTurn, turns} => AskedLater(db.latest, at),
         MemoryIgnores(mem, turns, at) => mem.latest = turns \/ Starts' # {}
  PROVE  RestInv'
<1> DEFINE ignored == MemoryIgnores(mem, turns, at)
<1>1. /\ ignored => mem' = mem
      /\ ~ignored => /\ mem'.status = "running" /\ mem'.active = turns
                     /\ mem'.latest = turns /\ mem'.state = "running"
  BY RunningOnMemory, ProjectionTypes DEF Project
<1>2. /\ ignored => mem.latest # NoTurn /\ mem.state \in Terminal
      /\ mem.latest = turns /\ mem.state \in Terminal => ignored
      /\ ignored => mem.latest = turns \/ Starts' # {}
  BY LatestTyped DEF MemoryIgnores, RestInv, Shaped, EndKnown
<1> HIDE DEF ignored
<1>3. /\ SessionTaken(db', db, turns, at) /\ RowTaken(db', db, turns, at)
      /\ LatestTaken(db', db, turns)
  BY RunningOnTables, ProjectionTypes DEF Project
<1>4. /\ db.latest \in Turns \cup {NoTurn} /\ turns # NoTurn /\ NoTurn \notin Turns
      /\ Row(db, turns) = db.state[turns] /\ Row(db', turns) = db'.state[turns]
      /\ db.asked[turns] \in Nat /\ at \in Nat /\ db.pending \in Nat
      /\ \A u \in Turns : db.asked[u] \in Nat
  BY LatestTyped, ProjectionTypes DEF Row, Instants
<1>5. db.latest = turns \/ Row(db, turns) = "none"
  BY DEF RestInv, LastIsLatest
<1>6. Refused(db, turns, at) <=> Over
  <2>1. Row(db, db.latest) \in Terminal => Promotes(db, db.latest, turns, at)
    <3>1. CASE db.latest = turns
      BY <3>1 DEF Promotes
    <3>2. CASE db.latest = NoTurn
      BY <3>2 DEF Promotes, Row
    <3>3. CASE db.latest \notin {NoTurn, turns}
      BY <1>4, <1>5, <3>3 DEF Promotes, AskedLater
    <3> QED BY <3>1, <3>2, <3>3
  <2> QED BY <2>1 DEF Refused, Over
<1>7. /\ Over => db'.active = NoTurn /\ db'.status \in Closing
      /\ ~Over => db'.active = turns /\ db'.status = "running"
  BY <1>3, <1>6 DEF SessionTaken
<1>8. Over => Over'
  BY <1>3, <1>4 DEF RowTaken, Over
<1>9. db'.latest = turns
  <2>1. CASE db.latest \in {NoTurn, turns}
    BY <1>3, <2>1 DEF LatestTaken, Row
  <2>2. CASE db.latest \notin {NoTurn, turns}
    <3>1. db'.asked[db.latest] = db.asked[db.latest]
      BY <1>3, <1>4, <2>2 DEF RowTaken, OthersKept
    <3>2. db'.asked[turns] = IF db.pending # NoTime THEN db.pending ELSE at
      BY <1>3, <1>4, <1>5, <2>2 DEF RowTaken
    <3>3. db'.asked[db.latest] <= db'.asked[turns]
      BY <1>4, <2>2, <3>1, <3>2 DEF AskedLater
    <3> QED BY <1>3, <3>3 DEF LatestTaken
  <2> QED BY <2>1, <2>2
<1>10. ~ignored => mem'.latest # NoTurn /\ mem'.state \notin Terminal /\ mem'.state # "none"
  BY <1>1, <1>4 DEF Terminal
<1>11. Shaped'
  <2>1. CASE ignored
    BY <1>1, <1>4, <1>7, <2>1, ClosingStatuses DEF RestInv, Shaped, EndKnown
  <2>2. CASE ~ignored
    BY <1>1, <1>4, <1>7, <1>10, <2>2, ClosingStatuses DEF Shaped, EndKnown
  <2> QED BY <2>1, <2>2
<1>12. Clear' /\ OnlyLast' /\ ReadLast'
  BY <1>1, <1>7 DEF RestInv, Clear, OnlyLast, ReadLast
<1>13. Starts' = {} => mem'.latest = turns
  BY <1>1, <1>2
<1>14. LastIsLatest'
  <2>1. mem'.latest # NoTurn
    BY <1>1, <1>2, <1>10
  <2> QED BY <1>4, <1>9, <1>13, <2>1 DEF LastIsLatest
<1>15. MemoryBefore'
  BY <1>1 DEF RestInv, MemoryBefore
<1>16. Ripe'
  <2>1. RipeCalls'
    <3> SUFFICES ASSUME NEW r \in Requests, calls'[r].step \notin {"none", "failed"},
                        calls'[r].turn # turns
                 PROVE  FALSE
      BY <1>9 DEF RipeCalls
    <3>1. calls'[r] = calls[r]
      OBVIOUS
    <3>2. calls[r].step \in {"answered", "marking"}
      BY <3>1, CallTypes DEF Pending, CallRecords
    <3> QED BY <3>1, <3>2 DEF OneAtATime, CallTurn
  <2>2. RipeIntents'
    BY DEF RipeIntents, Pending, Asking
  <2>3. RipeStarts'
    BY <1>9 DEF RipeStarts, RestInv, OnlyLast
  <2> QED BY <2>1, <2>2, <2>3 DEF Ripe
<1>17. Settling'
  <2>1. Agreed /\ Closed /\ CapturedOver
    BY <1>4 DEF RestInv, Settling
  <2>2. ignored /\ mem.latest = turns => Over
    BY <1>2, <2>1 DEF Agreed
  <2>3. Agreed'
    <3>1. Over' \/ db'.active = turns
      BY <1>7, <1>8
    <3>2. Starts' = {} /\ db'.active = turns => mem'.active = turns
      BY <1>1, <1>2, <1>4, <1>7, <2>2
    <3>3. mem'.latest = turns /\ mem'.state \in Terminal => Over'
      BY <1>1, <1>8, <1>10, <2>2
    <3> QED BY <3>1, <3>2, <3>3 DEF Agreed
  <2>4. Closed'
    <3>1. ASSUME turns \in receipts
          PROVE  Over /\ ignored /\ mem.active = NoTurn /\ mem.state \in Terminal
      <4>1. \A e \in Starts : FALSE
        <5>1. \A e \in Starts : e.turn = turns /\ turns < e.turn
          BY <3>1 DEF RestInv, OnlyLast, Starts, KnownInv, QueueInv, ReceiptsPast
        <5> QED BY <5>1, ProjectionTypes
      <4>2. mem.latest = turns
        BY <1>4, <4>1 DEF RestInv, LastIsLatest
      <4> QED BY <1>2, <2>1, <3>1, <4>2 DEF Closed
    <3> QED BY <1>1, <1>7, <1>8, <3>1 DEF Closed
  <2> QED BY <1>8, <2>1, <2>3, <2>4 DEF Settling, CapturedOver
<1>18. Promise'
  <2>1. CASE turns \in receipts
    <3>1. Over /\ mem.state \in Terminal
      BY <1>4, <2>1 DEF RestInv, Settling, Closed
    <3>2. ~Busy(mem) /\ ~Busy(db')
      BY <1>7, <2>1, <3>1, ClosingStatuses DEF RestInv, Promise, Busy
    <3>3. \A e \in Starts : FALSE
      <4>1. \A e \in Starts : e.turn = turns /\ turns < e.turn
        BY <2>1 DEF RestInv, OnlyLast, Starts, KnownInv, QueueInv, ReceiptsPast
      <4> QED BY <4>1, ProjectionTypes
    <3>4. mem' = mem
      BY <1>1, <1>2, <1>4, <3>1, <3>3 DEF RestInv, LastIsLatest
    <3> QED BY <3>2, <3>4 DEF Promise
  <2>2. CASE turns \notin receipts
    BY <1>4, <2>2 DEF Promise, Owed
  <2> QED BY <2>1, <2>2
<1> QED BY <1>11, <1>12, <1>14, <1>15, <1>16, <1>17, <1>18 DEF RestInv

\* A checkpoint is projected: it closes the last turn only when that is over.
LEMMA DiffRest ==
  ASSUME TypeInv, KnownInv, RestInv, NEW turn \in Turns, NEW number \in Nat,
         NEW status \in TakenStatuses, NEW at \in Instants, turn <= turns,
         Project(DiffCompleted(turn, number, status, at)),
         turn = turns => Starts = {} /\ (status # "missing" => Over),
         status # "missing" /\ turn # turns => \A e \in Starts : at < e.at,
         UNCHANGED reactor, turns' = turns, Starts' = Starts, receipts' = receipts,
         ingesting' \in {ingesting, Nothing}, capturing' \in {capturing, Nothing}
  PROVE  RestInv'
<1>1. /\ mem'.status = mem.status /\ mem'.active = mem.active
      /\ \/ mem'.latest = mem.latest /\ mem'.state = mem.state /\ mem'.done = mem.done
         \/ /\ status # "missing" /\ mem.latest \in {NoTurn, turn}
            /\ mem'.latest = turn /\ mem'.state \in Terminal /\ mem'.done = at
  BY DiffOnMemory, ProjectionTypes DEF Project
<1>2. /\ \/ db'.status = db.status /\ db'.active = db.active
         \/ /\ status # "missing" /\ db.active = turn /\ db'.active = NoTurn
            /\ db'.status \in Closing
      /\ db'.latest = IF status # "missing" /\ db.latest = NoTurn THEN turn ELSE db.latest
      /\ db'.pending = db.pending
      /\ \A u \in Turns : u # turn => db'.state[u] = db.state[u]
      /\ \A u \in Turns : db'.asked[u] =
           IF u = turn /\ db.state[u] = "none" THEN at ELSE db.asked[u]
  BY DiffOnTables, ProjectionTypes DEF Project
<1>3. \E ends \in BOOLEAN : /\ db'.state[turn] = CheckpointState(db, turn, status, ends)
                            /\ ends => status # "missing"
  BY DiffOnTables, ProjectionTypes DEF Project
<1>4. /\ turn \in Nat /\ turns \in Nat /\ turns # NoTurn /\ turn # NoTurn
      /\ turn # turns => turns > 1
  BY TurnNumbers, ProjectionTypes, LatestTyped DEF NoTurn
<1>5. db.latest # NoTurn /\ mem.latest # NoTurn
  BY <1>4 DEF RestInv, LastIsLatest
<1>6. db'.latest = db.latest /\ mem'.latest = mem.latest
  BY <1>1, <1>2, <1>5
<1>7. turn = turns => db.latest = turns /\ mem.latest = turns /\ db.state[turn] # "none"
  BY <1>4, <1>5, LatestTyped DEF RestInv, LastIsLatest
<1>8. db'.asked[db'.latest] = db.asked[db.latest]
  BY <1>2, <1>5, <1>6, LatestTyped
<1>9. Agreed /\ Closed /\ CapturedOver
  BY <1>4 DEF RestInv, Settling
<1>10. Over => Over'
  <2>1. CASE turn = turns
    <3>1. Row(db, turns) = db.state[turns] /\ Row(db', turns) = db'.state[turns]
      BY <1>4 DEF Row
    <3>2. db.state[turns] \in Terminal => db'.state[turns] \in Terminal
      BY <1>3, <1>7, <2>1 DEF CheckpointState, Terminal
    <3> QED BY <3>1, <3>2 DEF Over
  <2>2. CASE turn # turns
    BY <1>2, <1>4, <2>2, LatestTyped DEF Over, Row
  <2> QED BY <2>1, <2>2
<1>11. Row(db', turns) # "none" => db.latest = turns
  BY <1>2, <1>4, <1>7, LatestTyped DEF Row, RestInv, LastIsLatest
<1>12. /\ mem.latest \notin {NoTurn, turns} => mem.active = NoTurn /\ mem.state \in Terminal
       /\ mem'.state = mem.state \/ mem'.state \in Terminal
  BY <1>1 DEF RestInv, Shaped, OnlyLast, MemoryBefore
<1>13. Shaped'
  <2>1. EndKnown(mem')
    BY <1>1 DEF RestInv, Shaped, EndKnown, Instants, NoTime
  <2>2. mem'.state # "none"
    BY <1>5, <1>12, ClosingStatuses DEF RestInv, Shaped
  <2>3. mem'.state = "running" => mem.state = "running"
    BY <1>12, ClosingStatuses
  <2>4. db'.active # NoTurn <=> db'.status = "running"
    BY <1>2, ClosingStatuses DEF RestInv, Shaped
  <2> QED BY <1>1, <1>5, <1>6, <2>1, <2>2, <2>3, <2>4 DEF RestInv, Shaped
<1>14. calls' = calls /\ Intents' = Intents /\ (Asking' <=> Asking)
  <2>1. calls' = calls /\ Intents' = Intents
    BY DEF reactor, Intents
  <2> QED BY <2>1 DEF Asking
<1>15. (Pending' <=> Pending) /\ (Owed' <=> Owed)
  BY <1>14 DEF Pending, Owed
<1>16. Clear' /\ OnlyLast' /\ ReadLast'
  BY <1>1, <1>2, <1>15 DEF RestInv, Clear, OnlyLast, ReadLast
<1>17. LastIsLatest'
  BY <1>5, <1>6, <1>11 DEF RestInv, LastIsLatest
<1>18. MemoryBefore'
  BY <1>1, <1>5, <1>6, <1>7, <1>12 DEF RestInv, MemoryBefore
<1>19. Ripe'
  <2>1. RipeCalls /\ RipeIntents /\ RipeStarts
    BY <1>5 DEF RestInv, Ripe
  <2>2. RipeCalls'
    BY <1>2, <1>6, <1>8, <1>14, <2>1 DEF RipeCalls, AskedLater
  <2>3. RipeIntents'
    BY <1>2, <1>6, <1>8, <1>14, <2>1 DEF RipeIntents, AskedLater
  <2>4. RipeStarts'
    BY <1>2, <1>6, <1>8, <2>1 DEF RipeStarts, AskedLater
  <2> QED BY <2>2, <2>3, <2>4 DEF Ripe
<1>20. Settling'
  <2>1. db'.active = turns \/ Over => db.active = turns \/ Over'
    BY <1>2, <1>4, <1>10
  <2>2. db.active = turns => db'.active = turns \/ Over'
    BY <1>2, <1>10
  <2>3. Agreed'
    <3>1. Starts = {} => Over' \/ db'.active = turns
      BY <1>9, <1>10, <2>2 DEF Agreed
    <3>2. Starts = {} /\ db'.active = turns => mem'.active = turns
      BY <1>1, <1>2, <1>4, <1>9 DEF Agreed
    <3>3. mem'.active = turns => Over' \/ db'.active = turns
      BY <1>1, <1>9, <1>10, <2>2 DEF Agreed
    <3>4. mem'.latest = turns /\ mem'.state \in Terminal => Over'
      BY <1>1, <1>9, <1>10 DEF Agreed
    <3> QED BY <3>1, <3>2, <3>3, <3>4 DEF Agreed
  <2>4. Closed'
    BY <1>1, <1>2, <1>9, <1>10, <1>12 DEF Closed
  <2> QED BY <1>9, <1>10, <2>3, <2>4 DEF Settling, CapturedOver
<1>21. Promise'
  BY <1>1, <1>2, <1>15, ClosingStatuses DEF RestInv, Promise, Busy
<1> QED BY <1>13, <1>16, <1>17, <1>18, <1>19, <1>20, <1>21 DEF RestInv

-----------------------------------------------------------------------------

LEMMA FailedRest ==
  ASSUME TypeInv, KnownInv, RestInv, NEW r \in Requests,
         StartFailed(r) \/ SteerBecomesSend(r)
  PROVE  RestInv'
<1>1. /\ UNCHANGED intents /\ UNCHANGED <<reported, ingesting>> /\ turns' = turns
      /\ receipts' = receipts /\ capturing' = capturing
      /\ calls[r].step \in {"failed", "steer"}
  BY DEF StartFailed, SteerBecomesSend, ingestion, provider, checkpoints
<1>2. Starts' = Starts /\ Intents' = Intents /\ (Asking' <=> Asking)
  <2>1. Starts' = Starts /\ Intents' = Intents
    BY <1>1, AheadSame DEF Starts, Intents
  <2> QED BY <2>1 DEF Asking
<1>3. Pending
  BY <1>1 DEF Pending
<1>4. PICK at \in Instants : Project(SessionSet("ready", NoTurn, at))
  BY <1>1, Clocked, CallTypes DEF StartFailed, SteerBecomesSend
<1>5. /\ calls'[r].step = "none" \/ calls'[r].mark = Now
      /\ \A s \in Requests : s # r => calls'[s] = calls[s]
  <2>1. CASE StartFailed(r)
    <3>1. calls' = [calls EXCEPT ![r] = NoCall] /\ NoCall.step = "none"
      BY <2>1 DEF StartFailed, NoCall
    <3>2. calls'[r] = NoCall /\ \A s \in Requests : s # r => calls'[s] = calls[s]
      BY <3>1, OneCallChanged
    <3> QED BY <3>1, <3>2
  <2>2. CASE SteerBecomesSend(r)
    <3>1. calls' = [calls EXCEPT ![r].step = "resend", ![r].turn = NoTurn,
                                 ![r].mark = Now]
      BY <2>2 DEF SteerBecomesSend
    <3>2. /\ calls'[r].step = "resend" /\ calls'[r].turn = NoTurn /\ calls'[r].mark = Now
          /\ \A s \in Requests : s # r => calls'[s] = calls[s]
      BY <3>1, CallMarkEdited
    <3> QED BY <3>2
  <2> QED BY <2>1, <2>2
<1>6. "ready" \in Closing
  BY DEF Closing
<1>7. \A s \in Requests : \/ calls'[s].step \in {"none", "failed"}
                          \/ calls'[s] = calls[s] \/ calls'[s].mark = Now
  BY <1>5
<1> QED BY <1>1, <1>2, <1>3, <1>4, <1>6, <1>7, ClosingRest

LEMMA MarkRest ==
  ASSUME TypeInv, KnownInv, OneAtATime, RestInv, NEW r \in Requests,
         MarkSteered(r) \/ MarkWrites(r)
  PROVE  RestInv'
<1> DEFINE c == calls[r]
<1>1. /\ UNCHANGED intents /\ UNCHANGED <<reported, ingesting>> /\ turns' = turns
      /\ receipts' = receipts /\ capturing' = capturing
      /\ c.step \in {"steered", "marking"} /\ calls' = [calls EXCEPT ![r] = NoCall]
  BY DEF MarkSteered, MarkWrites, ingestion, provider, checkpoints
<1>2. /\ \A s \in Requests : s # r => calls[s] = NoCall
      /\ \A x \in Intents : x.kind # "start"
  BY <1>1, OnlyCall DEF NoCall, OneAtATime
<1>3. /\ \A s \in Requests : calls'[s].step = "none"
      /\ NoCall.step = "none"
  <2>1. NoCall.step = "none"
    BY DEF NoCall
  <2>2. calls'[r] = NoCall /\ \A s \in Requests : s # r => calls'[s] = calls[s]
    BY <1>1, OneCallChanged
  <2> QED BY <1>2, <2>1, <2>2
<1>4. c.turn = turns /\ c.turn \in Turns /\ c.mark \in Instants
  BY <1>1, CallTypes DEF OneAtATime, CallTurn
<1>5. PICK at \in {Now, c.mark} : Project(SessionSet("running", turns, at))
  BY <1>4 DEF MarkSteered, MarkWrites
<1>6. at \in Instants
  BY <1>4, <1>5, Clocked
<1>7. Starts' = Starts /\ ~Pending'
  <2>1. Intents' = Intents
    BY <1>1 DEF Intents
  <2> QED BY <1>1, <1>2, <1>3, <2>1, AheadSame DEF Starts, Pending, Asking
<1>8. turns \in receipts => ~Owed
  <2>1. \A s \in Requests : calls[s].step \notin {"send", "resend", "failed"}
    BY <1>1, <1>2, <1>3
  <2> QED BY <1>2, <2>1 DEF Owed, Asking
<1>9. db.latest \notin {NoTurn, turns} => AskedLater(db.latest, at)
  <2> SUFFICES ASSUME db.latest \notin {NoTurn, turns}
               PROVE  AskedLater(db.latest, at)
    OBVIOUS
  <2>1. AskedLater(db.latest, c.mark)
    BY <1>1, <1>4 DEF RestInv, Ripe, RipeCalls
  <2>2. Now > db.asked[db.latest]
    BY LatestTyped, ProjectionTypes DEF KnownInv, ClockInv, Now
  <2> QED BY <1>5, <2>1, <2>2 DEF AskedLater
<1>10. mem.latest = turns \/ Starts' # {}
  BY <1>4, <1>7, LatestTyped DEF RestInv, LastIsLatest
<1> HIDE DEF c
<1> QED BY <1>1, <1>3, <1>4, <1>5, <1>6, <1>7, <1>8, <1>9, <1>10, RunningRest

\* The ingestion applies the start or the end of a turn.
LEMMA AppliedRest ==
  ASSUME TypeInv, KnownInv, OneAtATime, RestInv, IngestLifecycle,
         AppliesLifecycle(ingesting)
  PROVE  RestInv'
<1> DEFINE e == ingesting.event
<1>1. /\ UNCHANGED reactor /\ turns' = turns /\ capturing' = capturing
      /\ ingesting # Nothing /\ ingesting' = Nothing /\ reported' = reported
      /\ e.kind \in {"started", "ended"}
      /\ e.kind = "started" => Project(SessionSet("running", e.turn, e.at))
                               /\ receipts' = receipts
      /\ e.kind = "ended" => Project(SessionSet(SessionAfter(e.outcome), NoTurn, e.at))
                             /\ receipts' = receipts \cup {e.turn}
  BY DEF IngestLifecycle, provider, checkpoints
<1>2. /\ e.turn \in Turns /\ e.at \in Instants /\ e \in Ahead
      /\ Ahead' \subseteq Ahead /\ Ahead = Ahead' \cup {e}
      /\ \A f \in Ahead' : Earlier(e, f)
  BY <1>1, IngestedEvent, AheadDone DEF KnownInv, QueueInv
<1>3. calls' = calls /\ Intents' = Intents
  BY <1>1 DEF reactor, Intents
<1>4. Pending' <=> Pending
  BY <1>3 DEF Pending, Asking
<1> DEFINE outcome == e.outcome
<1> HIDE DEF e, outcome
<1>5. CASE e.kind = "started"
  <2>1. e \in Starts
    BY <1>2, <1>5 DEF Starts
  <2>2. e.turn = turns /\ ~Pending
    BY <2>1 DEF RestInv, OnlyLast, Clear
  <2>3. Starts' \subseteq Starts
    BY <1>2 DEF Starts
  <2>4. turns \notin receipts
    <3>1. turns \in receipts => turns < e.turn
      BY <1>2 DEF KnownInv, QueueInv, ReceiptsPast
    <3> QED BY <2>2, <3>1, ProjectionTypes
  <2>5. db.latest \notin {NoTurn, turns} => AskedLater(db.latest, e.at)
    BY <2>1, <2>2 DEF RestInv, Ripe, RipeStarts
  <2>6. MemoryIgnores(mem, turns, e.at) => mem.latest = turns
    <3>1. mem.latest \notin {NoTurn, turns} => mem.done < e.at
      BY <2>1 DEF RestInv, MemoryBefore
    <3> QED BY <1>2, <3>1, ProjectionTypes DEF MemoryIgnores, Instants
  <2> QED BY <1>1, <1>2, <1>3, <1>4, <1>5, <2>2, <2>3, <2>4, <2>5, <2>6, RunningRest
<1>6. CASE e.kind = "ended"
  <2>1. Starts' = Starts
    BY <1>2, <1>6 DEF Starts
  <2>2. turns \in receipts' => turns \in receipts \/ Starts = {}
    <3>1. ASSUME e.turn = turns, NEW f \in Starts PROVE FALSE
      <4>1. f \in Ahead' /\ f.kind = "started" /\ f.turn = turns
        BY <2>1 DEF Starts, RestInv, OnlyLast
      <4>2. Rank(e) = 3 /\ Rank(f) = 1
        BY <1>6, <4>1 DEF Rank
      <4> QED BY <1>2, <3>1, <4>1, <4>2, ProjectionTypes DEF Earlier
    <3> QED BY <1>1, <1>6, <3>1
  <2>3. SessionAfter(e.outcome) \in Closing
    BY SessionAfterTyped
  <2> QED BY <1>1, <1>2, <1>3, <1>4, <1>6, <2>1, <2>2, <2>3, ClosingRest
<1> QED BY <1>1, <1>5, <1>6

\* It writes a placeholder.
LEMMA PlaceholderRest ==
  ASSUME TypeInv, KnownInv, RestInv, IngestDiff, ~ingesting.tracked
  PROVE  RestInv'
<1> DEFINE e == ingesting.event
           number == ingesting.number
<1>1. /\ UNCHANGED reactor /\ turns' = turns /\ receipts' = receipts
      /\ capturing' = capturing
      /\ ingesting # Nothing /\ ingesting' = Nothing /\ reported' = reported
      /\ e.kind = "diff" /\ Project(DiffCompleted(e.turn, number, "missing", e.at))
  BY DEF IngestDiff, provider
<1>2. /\ e.turn \in Turns /\ e.at \in Instants /\ e \in Ahead /\ e.turn <= turns
      /\ number \in Nat
      /\ Ahead' \subseteq Ahead /\ Ahead = Ahead' \cup {e}
      /\ \A f \in Ahead' : Earlier(e, f)
  BY <1>1, IngestedEvent, AheadDone DEF KnownInv, QueueInv, Told
<1> HIDE DEF e, number
<1>3. Starts' = Starts
  BY <1>1, <1>2 DEF Starts
<1>4. e.turn = turns => Starts = {}
  <2>1. ASSUME e.turn = turns, NEW f \in Starts PROVE FALSE
    <3>1. f \in Ahead' /\ f.kind = "started" /\ f.turn = turns
      BY <1>3 DEF Starts, RestInv, OnlyLast
    <3>2. Rank(e) = 2 /\ Rank(f) = 1
      BY <1>1, <3>1 DEF Rank
    <3> QED BY <1>2, <2>1, <3>1, <3>2, ProjectionTypes DEF Earlier
  <2> QED BY <2>1
<1>5. "missing" \in TakenStatuses
  BY DEF TakenStatuses
<1> QED BY <1>1, <1>2, <1>3, <1>4, <1>5, DiffRest

LEMMA CaptureRest ==
  ASSUME TypeInv, KnownInv, RestInv, CaptureWrites
  PROVE  RestInv'
<1> DEFINE c == capturing
<1>1. /\ UNCHANGED reactor /\ turns' = turns /\ receipts' = receipts
      /\ c # Nothing /\ capturing' = Nothing
      /\ reported' = reported /\ ingesting' = ingesting
      /\ Project(DiffCompleted(c.turn, c.number, c.status, c.at))
  BY DEF CaptureWrites, provider, ingestion
<1>2. c \in Captures /\ c \in Items
  BY <1>1 DEF TypeInv, CapturesTyped, Items
<1>3. /\ c.turn \in Turns /\ c.number \in Nat /\ c.status \in TakenStatuses
      /\ c.at \in Instants /\ c.turn <= turns /\ Seen(c.turn)
      /\ \A e \in Ahead : e.kind = "started" /\ c.turn < e.turn => c.at < e.at
  BY <1>2 DEF Captures, KnownInv, QueueInv, ItemsPast
<1>4. Starts' = Starts
  BY <1>1, AheadSame DEF Starts
<1>5. \A e \in Starts : e.turn = turns /\ c.turn < e.turn /\ c.at < e.at
  BY <1>3 DEF Starts, Seen, RestInv, OnlyLast
<1>6. c.turn = turns => Starts = {} /\ Over
  <2>1. c.turn = turns => \A e \in Starts : FALSE
    BY <1>5, ProjectionTypes
  <2>2. c.turn = turns => Over
    BY <1>1, <1>3, LatestTyped DEF RestInv, Settling, CapturedOver
  <2> QED BY <2>1, <2>2
<1> HIDE DEF c
<1> QED BY <1>1, <1>3, <1>4, <1>5, <1>6, DiffRest

LEMMA StepRest ==
  ASSUME TypeInv, KnownInv, LateInv, overlap = "none" => RestInv, [SteadyNext]_vars,
         overlap' = "none"
  PROVE  RestInv'
<1>1. CASE StartTurn
  <2>1. overlap = "none" /\ ~Calling /\ ~Starting
    BY <1>1 DEF StartTurn
  <2> QED BY <1>1, <2>1, StartTurnRest
<1>2. CASE ~StartTurn
  <2>1. overlap' = overlap
    <3>1. OperatorStep \/ ReactorStep \/ SteadyProvider => overlap' = overlap
      BY <1>2 DEF OperatorStep, Interrupt, ReactorStep, ReactStart, ReactInterrupt,
                  SteadyProvider, ProviderDiff, ProviderEnds
    <3>2. (\E r \in Requests : CallStep(r)) => overlap' = overlap
      BY DEF CallStep, SendTurn, SendSteers, CallFails, SteerTurn, SteerBecomesSend,
             StartFailed, MarkSteered, MarkReads, MarkWrites
    <3>3. SteadyIngestion \/ CheckpointStep => overlap' = overlap
      BY DEF SteadyIngestion, IngestReads, IngestLifecycle, IngestDiff, CheckpointStep,
             CaptureCompletion, CaptureGivenUp, CapturePlaceholder, CaptureWrites,
             CaptureFails
    <3>4. UNCHANGED vars => overlap' = overlap
      BY DEF vars
    <3> QED BY <3>1, <3>2, <3>3, <3>4 DEF SteadyNext
  <2>2. RestInv /\ OneAtATime
    BY <2>1 DEF LateInv
  <2>3. CASE OperatorStep
    BY <1>2, <2>2, <2>3, InterruptRest DEF OperatorStep
  <2>4. CASE ReactorStep
    BY <2>2, <2>4, ReactorRest
  <2>5. CASE \E r \in Requests : CallStep(r)
    BY <2>2, <2>5, SendTurnRest, CalmCallRest, FailedRest, MarkRest DEF CallStep
  <2>6. CASE SteadyProvider
    BY <2>2, <2>6, ProviderRest
  <2>7. CASE SteadyIngestion
    BY <2>2, <2>7, ReadsRest, IgnoredRest, AppliedRest, TrackedRest, PlaceholderRest
       DEF SteadyIngestion
  <2>8. CASE CheckpointStep
    BY <2>2, <2>8, CapturesRest, CaptureRest
  <2>9. CASE UNCHANGED vars
    <3>1. /\ UNCHANGED <<mem, db, turns, receipts, capturing>> /\ UNCHANGED reactor
          /\ reported' = reported /\ ingesting' = ingesting
      BY <2>9 DEF vars, provider, ingestion, checkpoints
    <3>2. Starts' = Starts /\ ReadLast'
      BY <2>2, <3>1, AheadSame DEF Starts, RestInv, ReadLast
    <3> QED BY <2>2, <3>1, <3>2, QuietRest
  <2> QED BY <2>3, <2>4, <2>5, <2>6, <2>7, <2>8, <2>9 DEF SteadyNext
<1> QED BY <1>1, <1>2

\* At rest every turn's end is processed, and no request waits for an answer.
LEMMA RestSettles ==
  ASSUME TypeInv, KnownInv, RestInv, AtRest
  PROVE  /\ mem.status \notin {"starting", "running"} /\ mem.active = NoTurn
         /\ mem.state # "running"
         /\ db.status \notin {"starting", "running"} /\ db.active = NoTurn
<1>1. Ahead = {} /\ Intents = {} /\ running = NoTurn
  BY DEF AtRest, Ahead, Intents
<1>2. \A r \in Requests : calls[r].step = "none"
  BY DEF AtRest, NoCall
<1>3. turns # NoTurn => turns \in receipts
  <2>1. turns # NoTurn => turns \in 1..turns
    BY ProjectionTypes DEF NoTurn
  <2> QED BY <1>1, <2>1 DEF KnownInv, QueueInv, EndsKnown
<1>4. ~Owed
  BY <1>1, <1>2, <1>3 DEF Owed, Asking
<1>5. ~Busy(mem) /\ ~Busy(db)
  BY <1>4 DEF RestInv, Promise
<1>6. mem.active = NoTurn /\ db.active = NoTurn
  BY <1>5 DEF RestInv, Shaped, Busy
<1>7. mem.state # "running"
  BY <1>6 DEF RestInv, Shaped
<1> QED BY <1>5, <1>6, <1>7 DEF Busy

(***************************************************************************)
(* No thread is left busy when nothing is on its way any more, whatever    *)
(* late starts, marks, ends and checkpoints were written in between, as    *)
(* long as no turn was asked for before an earlier one was seen to start   *)
(* (ProviderRuntimeIngestion.ts, shouldApplyThreadLifecycle): every state  *)
(* before the first turn is reopened has SettledAtRest.  (That it also     *)
(* holds when the last turn is reopened is model-checked only.)            *)
(***************************************************************************)
THEOREM NobodyLeftBusy == Spec => [](reopened = "none" => SettledAtRest)
<1> DEFINE Inv == TypeInv /\ (reopened = "none" =>
                     KnownInv /\ LateInv /\ (overlap = "none" => RestInv))
<1>1. Init => Inv
  BY InitTyped, InitKnown, InitLate, InitRest
<1>2. Inv /\ [Next]_vars => Inv'
  BY StepTyped, SteadyStep, StepKnown, StepLate, StepRest DEF KnownInv
<1>3. Inv => (reopened = "none" => SettledAtRest)
  BY RestSettles DEF SettledAtRest
<1> HIDE DEF Inv
<1> QED BY <1>1, <1>2, <1>3, PTL DEF Spec

-----------------------------------------------------------------------------
(* The checkpoints in memory and database.                                 *)

\* What one checkpoint does to those of the tables.
LEMMA DiffOnTableCheckpoints ==
  ASSUME NEW d \in Tables, NEW turn \in Turns, NEW number \in Nat,
         NEW status \in TakenStatuses, NEW at \in Instants,
         NEW n, n = TablesAfter(d, DiffCompleted(turn, number, status, at))
  PROVE  \A u \in Turns : n.checkpoint[u] =
           IF u = turn THEN status
           ELSE IF d.number[u] = number THEN "none" ELSE d.checkpoint[u]
<1> DEFINE e == DiffCompleted(turn, number, status, at)
           real == status # "missing"
           over == IF status = "ready" THEN "ready" ELSE "error"
           s == IF real /\ d.active = turn /\ ~NewerEvidence(d, e)
                THEN SetSession(d, over, NoTurn, at) ELSE d
           w == WithoutConflict(s, e)
<1>1. /\ e.turn = turn /\ e.number = number /\ e.status = status /\ e.at = at
      /\ e.type = "diff-completed" /\ at \in Nat
  BY DEF DiffCompleted, Instants
<1> HIDE DEF e
<1>2. n = TablesDiff(d, e)
  BY <1>1 DEF TablesAfter, e
<1>3. s \in Tables /\ SameRows(s, d)
  <2>1. over \in SessionStatuses /\ NoTurn \in Turns \cup {NoTurn}
    BY DEF SessionStatuses
  <2>2. SetSession(d, over, NoTurn, at) \in Tables /\ SameRows(SetSession(d, over, NoTurn, at), d)
    BY <1>1, <2>1, SetSessionEffect
  <2> HIDE DEF over
  <2> QED BY <2>2 DEF SameRows
<1>4. w \in Tables /\ \A u \in Turns :
        w.checkpoint[u] = IF u # turn /\ s.number[u] = number THEN "none" ELSE s.checkpoint[u]
  <2> HIDE DEF s
  <2> QED BY <1>1, <1>3 DEF WithoutConflict, Tables, CheckpointStatuses
<1>5. n.checkpoint = [w.checkpoint EXCEPT ![turn] = status]
  <2> DEFINE new == Row(d, turn) = "none"
             ends == real /\ (new \/ ~NewerEvidence(s, e))
             asked_ == IF new THEN at ELSE w.asked[turn]
             state_ == IF ends THEN (IF status = "error" THEN "error" ELSE "completed")
                       ELSE IF new THEN "running" ELSE w.state[turn]
             done_ == IF ends THEN Later(w.done[turn], at) ELSE w.done[turn]
             r == [w EXCEPT !.checkpoint[turn] = status, !.number[turn] = number,
                            !.asked[turn] = IF new THEN at ELSE @,
                            !.state[turn] = IF ends THEN (IF status = "error"
                                                          THEN "error" ELSE "completed")
                                            ELSE IF new THEN "running" ELSE @,
                            !.done[turn] = IF ends THEN Later(@, at) ELSE @]
  <2>1. n = IF real /\ d.latest = NoTurn THEN [r EXCEPT !.latest = turn] ELSE r
    BY <1>1, <1>2 DEF TablesDiff
  <2>2. r = [w EXCEPT !.checkpoint[turn] = status, !.number[turn] = number,
                      !.asked[turn] = asked_, !.state[turn] = state_, !.done[turn] = done_]
    BY <1>4 DEF Tables
  <2> HIDE DEF asked_, state_, done_, w, r
  <2>3. r.checkpoint = [w.checkpoint EXCEPT ![turn] = status]
    BY <1>4, <2>2 DEF Tables
  <2>4. [r EXCEPT !.latest = turn].checkpoint = r.checkpoint
    <3>1. r = [w EXCEPT !.checkpoint = r.checkpoint, !.number = r.number,
                        !.asked = r.asked, !.state = r.state, !.done = r.done]
      BY <1>4, <2>2 DEF Tables
    <3> QED BY <1>4, <3>1 DEF Tables
  <2> QED BY <2>1, <2>3, <2>4
<1>6. w.checkpoint \in [Turns -> CheckpointStatuses]
  BY <1>4 DEF Tables
<1> HIDE DEF s, w
<1> QED BY <1>3, <1>4, <1>5, <1>6 DEF SameRows

\* ... and what it does to those of the memory.
LEMMA DiffOnMemoryCheckpoints ==
  ASSUME NEW m \in Memory, NEW turn \in Turns, NEW number \in Nat,
         NEW status \in TakenStatuses, NEW at \in Instants,
         NEW n, n = MemoryAfter(m, DiffCompleted(turn, number, status, at))
  PROVE  IF status = "missing" /\ m.checkpoint[turn] \in {"ready", "error"}
         THEN n = m
         ELSE \A u \in Turns :
                /\ n.checkpoint[u] = IF u = turn THEN status ELSE m.checkpoint[u]
                /\ n.number[u] = IF u = turn THEN number ELSE m.number[u]
<1> DEFINE e == DiffCompleted(turn, number, status, at)
           c == [m EXCEPT !.checkpoint[turn] = status, !.number[turn] = number]
           final == IF status = "error" THEN "error" ELSE "completed"
           r == [c EXCEPT !.latest = turn, !.state = final, !.done = at]
<1>1. /\ e.turn = turn /\ e.number = number /\ e.status = status /\ e.at = at
      /\ e.type = "diff-completed"
  BY DEF DiffCompleted
<1> HIDE DEF e
<1>2. n = MemoryDiff(m, e)
  BY <1>1 DEF MemoryAfter, e
<1>3. CASE status = "missing" /\ m.checkpoint[turn] \in {"ready", "error"}
  BY <1>1, <1>2, <1>3 DEF MemoryDiff
<1>4. CASE ~(status = "missing" /\ m.checkpoint[turn] \in {"ready", "error"})
  <2>1. n \in {c, r}
    BY <1>1, <1>2, <1>4 DEF MemoryDiff
  <2>2. c \in Memory
    BY DEF Memory, CheckpointStatuses, TakenStatuses
  <2>3. /\ c.checkpoint = [m.checkpoint EXCEPT ![turn] = status]
        /\ c.number = [m.number EXCEPT ![turn] = number]
    BY DEF Memory
  <2>4. r.checkpoint = c.checkpoint /\ r.number = c.number
    <3> HIDE DEF c, final
    <3> QED BY <2>2 DEF Memory
  <2>5. m.checkpoint \in [Turns -> CheckpointStatuses] /\ m.number \in [Turns -> Nat]
    BY DEF Memory
  <2> HIDE DEF c, r
  <2> QED BY <1>4, <2>1, <2>3, <2>4, <2>5
<1> QED BY <1>3, <1>4

\* Any other event leaves the checkpoints alone.
LEMMA OtherOnTableCheckpoints ==
  ASSUME NEW d \in Tables, NEW e \in DomainEvents \ DiffEvents,
         NEW n, n = TablesAfter(d, e)
  PROVE  n.checkpoint = d.checkpoint /\ n.number = d.number
<1>1. CASE e \in StartEvents
  BY <1>1, StartOnTables DEF StartEvents
<1>2. CASE e \in InterruptEvents
  <2>1. PICK turn \in Turns \cup {NoTurn}, at \in Instants :
          e = InterruptRequested(turn, at)
    BY <1>2 DEF InterruptEvents
  <2> QED BY <2>1, InterruptOnTables
<1>3. CASE e \in RunningEvents
  <2>1. PICK t \in Turns, at \in Instants : e = SessionSet("running", t, at)
    BY <1>3 DEF RunningEvents
  <2> QED BY <2>1, RunningOnTables DEF RowTaken
<1>4. CASE e \in ClosingEvents
  <2>1. PICK status \in Closing, at \in Instants : e = SessionSet(status, NoTurn, at)
    BY <1>4 DEF ClosingEvents
  <2> QED BY <2>1, ClosingOnTables
<1> QED BY <1>1, <1>2, <1>3, <1>4 DEF DomainEvents

LEMMA OtherOnMemoryCheckpoints ==
  ASSUME NEW m \in Memory, NEW e \in DomainEvents \ DiffEvents,
         NEW n, n = MemoryAfter(m, e)
  PROVE  n.checkpoint = m.checkpoint /\ n.number = m.number
<1>1. \A status, active, at, latest, state, done :
        LET s == [m EXCEPT !.status = status, !.active = active, !.at = at]
            r == [s EXCEPT !.latest = latest, !.state = state, !.done = done]
            i == [m EXCEPT !.latest = latest, !.state = state, !.done = done]
        IN /\ s.checkpoint = m.checkpoint /\ s.number = m.number
           /\ r.checkpoint = m.checkpoint /\ r.number = m.number
           /\ i.checkpoint = m.checkpoint /\ i.number = m.number
  BY DEF Memory
<1>2. CASE e \in StartEvents
  <2>1. PICK at \in Instants : e = StartRequested(at)
    BY <1>2 DEF StartEvents
  <2>2. n = [m EXCEPT !.status = "starting", !.active = NoTurn, !.at = at]
    BY <2>1 DEF MemoryAfter, StartRequested, MemoryStart
  <2> QED BY <1>1, <2>2
<1>3. CASE e \in InterruptEvents
  <2>1. e.type = "interrupt-requested"
    BY <1>3 DEF InterruptEvents, InterruptRequested
  <2>2. n = MemoryInterrupt(m, e)
    BY <2>1 DEF MemoryAfter
  <2> QED BY <1>1, <2>2 DEF MemoryInterrupt
<1>4. CASE e \in RunningEvents \cup ClosingEvents
  <2>1. e.type = "session-set"
    BY <1>4 DEF RunningEvents, ClosingEvents, SessionSet
  <2>2. n = MemorySet(m, e)
    BY <2>1 DEF MemoryAfter
  <2> QED BY <1>1, <2>2 DEF MemorySet
<1> QED BY <1>2, <1>3, <1>4 DEF DomainEvents

\* No diff of the turn was ingested.
Undiffed(t) ==
  \/ t > turns
  \/ t = running /\ ~diffed
  \/ \E e \in Ahead : e.kind = "diff" /\ e.turn = t

\* The turn has no checkpoint, and none is on its way.
Fresh(t) ==
  /\ db.checkpoint[t] = "none" /\ mem.checkpoint[t] = "none"
  /\ \A c \in Items : c.kind # "ended" => c.turn # t

FreshInv == \A t \in Turns : Undiffed(t) => Fresh(t)

\* No checkpoint has the number 0, which stands for none.
Numbered ==
  /\ ingesting # Nothing => ingesting.number # 0
  /\ \A c \in Items : c.kind # "ended" => c.number # 0
  /\ \A t \in Turns : db.checkpoint[t] # "none" => db.number[t] # 0

\* A capture that yields a placeholder is of a turn that was not captured.
NotOver ==
  capturing # Nothing /\ capturing.status = "missing" => ~Captured(capturing.turn)

CheckInv == FreshInv /\ Numbered /\ NotOver

LEMMA UndiffedBefore ==
  ASSUME TypeInv, KnownInv, [SteadyNext]_vars, NEW t \in Turns, Undiffed(t)'
  PROVE  Undiffed(t)
<1>1. turns \in Nat /\ t \in Nat /\ t # NoTurn
  BY RecordTypes, ProjectionTypes
<1>2. CASE UNCHANGED <<turns, running, diffed, reported, ingesting>>
  BY <1>2, AheadSame DEF Undiffed
<1>3. ASSUME NEW r \in Requests, SendTurn(r)
      PROVE  Undiffed(t)
  <2> DEFINE e == [kind |-> "started", turn |-> turns + 1, at |-> Now]
  <2>1. /\ turns' = turns + 1 /\ running' = turns + 1 /\ turns + 1 \in Turns
        /\ reported' = Append(reported, e) /\ ingesting' = ingesting
    BY <1>3 DEF SendTurn
  <2>2. e \in ProviderEvents /\ e.kind = "started"
    BY <2>1, Clocked DEF ProviderEvents
  <2> HIDE DEF e
  <2>3. Ahead' = Ahead \cup {e}
    BY <2>1, <2>2, AheadAppend
  <2> QED BY <1>1, <2>1, <2>2, <2>3 DEF Undiffed
<1>4. CASE ProviderDiff
  <2> DEFINE e == [kind |-> "diff", turn |-> running, at |-> Now]
  <2>1. /\ turns' = turns /\ running' = running /\ ~diffed /\ diffed' = TRUE
        /\ reported' = Append(reported, e) /\ ingesting' = ingesting /\ running # NoTurn
    BY <1>4 DEF ProviderDiff
  <2>2. e \in ProviderEvents /\ e.turn = running
    BY <2>1, Clocked, RunningTurn DEF ProviderEvents
  <2> HIDE DEF e
  <2>3. Ahead' = Ahead \cup {e}
    BY <2>1, <2>2, AheadAppend
  <2> QED BY <2>1, <2>2, <2>3 DEF Undiffed
<1>5. ASSUME NEW o \in Endings, ProviderEnds(o)
      PROVE  Undiffed(t)
  <2> DEFINE e == [kind |-> "ended", turn |-> running, outcome |-> o, at |-> Now]
  <2>1. /\ turns' = turns /\ running' = NoTurn /\ running # NoTurn
        /\ reported' = Append(reported, e) /\ ingesting' = ingesting
    BY <1>5 DEF ProviderEnds
  <2>2. e \in ProviderEvents /\ e.kind = "ended"
    BY <2>1, Clocked, RunningTurn, ThreadAssumption
    DEF ProviderEvents, EndedEvents, EndOutcomes, Endings
  <2> HIDE DEF e
  <2>3. Ahead' = Ahead \cup {e}
    BY <2>1, <2>2, AheadAppend
  <2> QED BY <1>1, <2>1, <2>2, <2>3 DEF Undiffed
<1>6. CASE SteadyIngestion
  <2>1. turns' = turns /\ running' = running /\ diffed' = diffed
    BY <1>6 DEF SteadyIngestion, IngestReads, IngestLifecycle, IngestDiff, provider
  <2>2. Ahead' \subseteq Ahead
    <3>1. CASE IngestReads
      BY <3>1, AheadRead
    <3>2. CASE IngestLifecycle \/ IngestDiff
      BY <3>2, AheadDone DEF IngestLifecycle, IngestDiff, KnownInv, QueueInv
    <3> QED BY <1>6, <3>1, <3>2 DEF SteadyIngestion
  <2> QED BY <2>1, <2>2 DEF Undiffed
<1>7. CASE OperatorStep \/ ReactorStep \/ CheckpointStep \/ UNCHANGED vars
  BY <1>2, <1>7
  DEF OperatorStep, StartTurn, Interrupt, ReactorStep, ReactStart, ReactInterrupt,
      CheckpointStep, CaptureCompletion, CaptureGivenUp, CapturePlaceholder, CaptureWrites,
      CaptureFails, vars, provider, ingestion
<1>8. ASSUME NEW r \in Requests, CallStep(r), ~SendTurn(r)
      PROVE  Undiffed(t)
  BY <1>2, <1>8
  DEF CallStep, SendSteers, CallFails, SteerTurn, SteerBecomesSend, StartFailed,
      MarkSteered, MarkReads, MarkWrites, provider, ingestion
<1> QED BY <1>3, <1>4, <1>5, <1>6, <1>7, <1>8 DEF SteadyNext, SteadyProvider

\* What a step has to do to keep the invariant.
LEMMA CheckKept ==
  ASSUME TypeInv, KnownInv, CheckInv, [SteadyNext]_vars,
         \A c \in Items' : \/ c \in Items \/ c.kind = "ended"
                           \/ c.number # 0 /\ ~Undiffed(c.turn)',
         ingesting' # Nothing => ingesting'.number # 0,
         \A t \in Turns : Undiffed(t)' /\ db.checkpoint[t] = "none"
                            /\ mem.checkpoint[t] = "none"
           => db'.checkpoint[t] = "none" /\ mem'.checkpoint[t] = "none",
         \A t \in Turns : db'.checkpoint[t] # "none" => db'.number[t] # 0,
         NotOver'
  PROVE  CheckInv'
<1>1. FreshInv'
  <2>1. ASSUME NEW t \in Turns, Undiffed(t)'
        PROVE  Fresh(t)'
    <3>1. Fresh(t)
      BY <2>1, UndiffedBefore DEF CheckInv, FreshInv
    <3>2. ASSUME NEW c \in Items', c.kind # "ended"
          PROVE  c.turn # t
      BY <2>1, <3>1, <3>2 DEF Fresh
    <3> QED BY <2>1, <3>1, <3>2 DEF Fresh
  <2> QED BY <2>1 DEF FreshInv
<1>2. Numbered'
  BY DEF CheckInv, Numbered
<1> QED BY <1>1, <1>2 DEF CheckInv

\* Memory and database have the same checkpoint of the turn.
SameCheckpoint(t) ==
  db.checkpoint[t] = mem.checkpoint[t] /\ db.number[t] = mem.number[t]

\* The turn's number is given to another turn, whose checkpoint replaces it.
NumberTaken(t) ==
  /\ mem.number[t] # 0 /\ mem'.number[t] = mem.number[t]
  /\ \E u \in Turns \ {t} :
       db'.number[u] = mem.number[t] /\ (SameCheckpoint(u) => SameCheckpoint(u)')

SameKept == \A t \in Turns : SameCheckpoint(t) => SameCheckpoint(t)' \/ NumberTaken(t)

\* A checkpoint is projected, of a turn that no diff will come for.
LEMMA CheckWritten ==
  ASSUME TypeInv, KnownInv, CheckInv, [SteadyNext]_vars,
         NEW turn \in Turns, NEW number \in Nat \ {0}, NEW status \in TakenStatuses,
         NEW at \in Instants, Project(DiffCompleted(turn, number, status, at)),
         ~Undiffed(turn)',
         status = "missing" => db.checkpoint[turn] \notin {"ready", "error"},
         \A c \in Items' : \/ c \in Items \/ c.kind = "ended"
                           \/ c.number = number /\ c.turn = turn,
         ingesting' \in {ingesting, Nothing},
         \/ capturing' = Nothing
         \/ capturing' = capturing /\ status = "missing"
  PROVE  CheckInv' /\ SameKept
<1>1. mem \in Memory /\ db \in Tables
  BY ProjectionTypes
<1>2. /\ \A u \in Turns : db'.checkpoint[u] =
           IF u = turn THEN status
           ELSE IF db.number[u] = number THEN "none" ELSE db.checkpoint[u]
      /\ \A u \in Turns : db'.number[u] =
           IF u = turn THEN number ELSE IF db.number[u] = number THEN 0 ELSE db.number[u]
  BY <1>1, DiffOnTables, DiffOnTableCheckpoints DEF Project
<1>3. IF status = "missing" /\ mem.checkpoint[turn] \in {"ready", "error"}
      THEN mem' = mem
      ELSE \A u \in Turns :
             /\ mem'.checkpoint[u] = IF u = turn THEN status ELSE mem.checkpoint[u]
             /\ mem'.number[u] = IF u = turn THEN number ELSE mem.number[u]
  BY <1>1, DiffOnMemoryCheckpoints DEF Project
<1>4. CheckInv'
  <2>1. \A c \in Items' : \/ c \in Items \/ c.kind = "ended"
                          \/ c.number # 0 /\ ~Undiffed(c.turn)'
    OBVIOUS
  <2>2. ingesting' # Nothing => ingesting'.number # 0
    BY DEF CheckInv, Numbered
  <2>3. ASSUME NEW t \in Turns, Undiffed(t)', db.checkpoint[t] = "none",
               mem.checkpoint[t] = "none"
        PROVE  db'.checkpoint[t] = "none" /\ mem'.checkpoint[t] = "none"
    <3>1. t # turn
      BY <2>3
    <3> QED BY <1>2, <1>3, <2>3, <3>1
  <2>4. \A t \in Turns : db'.checkpoint[t] # "none" => db'.number[t] # 0
    BY <1>2 DEF CheckInv, Numbered
  <2>5. NotOver'
    <3>1. ASSUME capturing' # Nothing, capturing'.status = "missing"
          PROVE  ~Captured(capturing.turn)'
      <4>1. capturing' = capturing /\ status = "missing" /\ ~Captured(capturing.turn)
        BY <3>1 DEF CheckInv, NotOver
      <4>2. capturing.turn \in Turns
        BY <3>1, <4>1 DEF TypeInv, CapturesTyped, Captures
      <4> QED BY <1>2, <4>1, <4>2 DEF Captured
    <3> QED BY <3>1 DEF NotOver
  <2> QED BY <2>1, <2>2, <2>3, <2>4, <2>5, CheckKept
<1>5. SameCheckpoint(turn) => /\ SameCheckpoint(turn)'
                              /\ \A t \in Turns \ {turn} : mem'.number[t] = mem.number[t]
  BY <1>2, <1>3 DEF SameCheckpoint
<1>6. \A t \in Turns \ {turn} : /\ mem'.number[t] = mem.number[t]
                                /\ mem'.checkpoint[t] = mem.checkpoint[t]
  BY <1>3
<1>7. ASSUME NEW t \in Turns, SameCheckpoint(t), ~SameCheckpoint(t)'
      PROVE  NumberTaken(t)
  <2>1. t # turn
    BY <1>5, <1>7
  <2>2. db.number[t] = number
    BY <1>2, <1>6, <1>7, <2>1 DEF SameCheckpoint
  <2>3. db'.number[turn] = mem.number[t] /\ mem.number[t] # 0
    BY <1>2, <1>7, <2>2 DEF SameCheckpoint
  <2> QED BY <1>5, <1>6, <2>1, <2>3 DEF NumberTaken
<1> QED BY <1>4, <1>7 DEF SameKept

\* The checkpoints stay.
LEMMA CheckQuiet ==
  ASSUME TypeInv, KnownInv, CheckInv, [SteadyNext]_vars,
         db'.checkpoint = db.checkpoint, db'.number = db.number,
         mem'.checkpoint = mem.checkpoint, mem'.number = mem.number,
         \A c \in Items' : \/ c \in Items \/ c.kind = "ended"
                           \/ c.number # 0 /\ ~Undiffed(c.turn)',
         ingesting' # Nothing => ingesting'.number # 0,
         capturing' \in {capturing, Nothing} \/ NotOver'
  PROVE  CheckInv' /\ SameKept
<1>1. NotOver'
  BY DEF CheckInv, NotOver, Captured
<1>2. \A t \in Turns : db'.checkpoint[t] # "none" => db'.number[t] # 0
  BY DEF CheckInv, Numbered
<1>3. CheckInv'
  BY <1>1, <1>2, CheckKept
<1>4. SameKept
  BY DEF SameKept, SameCheckpoint
<1> QED BY <1>3, <1>4

\* A diff is ingested: a placeholder, unless the turn has a checkpoint.
LEMMA IngestDiffChecks ==
  ASSUME TypeInv, KnownInv, CheckInv, [SteadyNext]_vars, IngestDiff
  PROVE  CheckInv' /\ SameKept
<1> DEFINE e == ingesting.event
           p == [kind |-> "placeholder", turn |-> e.turn, number |-> ingesting.number,
                 at |-> e.at]
<1>1. /\ ingesting # Nothing /\ ingesting' = Nothing /\ e.kind = "diff"
      /\ reported' = reported /\ UNCHANGED <<turns, running, diffed, capturing>>
  BY DEF IngestDiff, provider
<1>2. /\ e \in Ahead /\ Ahead' \subseteq Ahead /\ \A f \in Ahead' : Earlier(e, f)
      /\ e.turn \in Turns /\ e.turn \in Nat /\ e.at \in Instants /\ ingesting.number \in Nat
  BY <1>1, AheadDone, IngestedEvent, RecordTypes DEF Ahead, KnownInv, QueueInv
<1>3. Fresh(e.turn)
  BY <1>1, <1>2 DEF CheckInv, FreshInv, Undiffed
<1>4. PICK turn \in Turns : turn = e.turn
  BY <1>2
<1>5. ~Undiffed(turn)'
  <2>1. turn <= turns /\ turns \in Nat
    BY <1>2, <1>4, ProjectionTypes DEF KnownInv, QueueInv, Told
  <2>2. ~(turn = running /\ ~diffed)
    BY <1>1, <1>2, <1>4, RecordTypes DEF KnownInv, QueueInv, ProviderRuns
  <2>3. ASSUME NEW f \in Ahead', f.kind = "diff"
        PROVE  f.turn # turn
    <3>1. Rank(e) = 2 /\ Rank(f) = 2
      BY <1>1, <2>3 DEF Rank
    <3> QED BY <1>2, <1>4, <3>1 DEF Earlier
  <2>4. turn \in Nat
    BY <1>2, <1>4
  <2> QED BY <1>1, <2>1, <2>2, <2>3, <2>4 DEF Undiffed
<1>6. ingesting.number # 0 /\ "missing" \in TakenStatuses
  BY <1>1 DEF CheckInv, Numbered, TakenStatuses
<1>7. p \in Placeholders /\ p.turn = turn /\ p.number = ingesting.number
  BY <1>2, <1>4 DEF Placeholders
<1> HIDE DEF e, p
<1>8. CASE UNCHANGED <<mem, db, captures>>
  <2>1. Items' = Items
    BY <1>1, <1>8 DEF Items
  <2> QED BY <1>1, <1>8, <2>1, CheckQuiet
<1>9. CASE /\ Project(DiffCompleted(turn, ingesting.number, "missing", e.at))
           /\ captures' = Append(captures, p)
  <2>1. Items' \subseteq Items \cup {p}
    BY <1>1, <1>7, <1>9, ItemsAppend DEF Items
  <2>2. db.checkpoint[turn] \notin {"ready", "error"}
    BY <1>3, <1>4 DEF Fresh
  <2>3. PICK number \in Nat \ {0}, at \in Instants : number = ingesting.number /\ at = e.at
    BY <1>2, <1>6
  <2>4. Project(DiffCompleted(turn, number, "missing", at))
    BY <1>9, <2>3
  <2>5. \A c \in Items' : \/ c \in Items \/ c.kind = "ended"
                          \/ c.number = number /\ c.turn = turn
    BY <1>7, <2>1, <2>3
  <2> QED BY <1>1, <1>5, <1>6, <2>2, <2>4, <2>5, CheckWritten
<1> QED BY <1>4, <1>8, <1>9 DEF IngestDiff, e, p

\* CheckpointReactor takes the completion of a turn, or its placeholder, ...
LEMMA TakenChecks ==
  ASSUME TypeInv, KnownInv, CheckInv, [SteadyNext]_vars, CaptureCompletion \/ CapturePlaceholder
  PROVE  CheckInv' /\ SameKept
<1> DEFINE e == Head(captures)
<1>1. /\ capturing = Nothing /\ captures # <<>> /\ captures' = Tail(captures)
      /\ UNCHANGED <<mem, db, turns, running, diffed, reported, ingesting>>
  BY DEF CaptureCompletion, CapturePlaceholder, provider, ingestion
<1>2. /\ e \in Items
      /\ Items' \subseteq Items \cup (IF capturing' = Nothing THEN {} ELSE {capturing'})
  BY <1>1, ItemsTaken
<1>3. e.turn \in Turns /\ e.turn \in Nat
  BY <1>2, ItemsTyped
<1>4. PICK turn \in Turns : turn = e.turn
  BY <1>3
<1>5. ingesting' # Nothing => ingesting'.number # 0
  BY <1>1 DEF CheckInv, Numbered
<1>6. CASE capturing' = Nothing
  BY <1>1, <1>2, <1>5, <1>6, CheckQuiet
<1>7. CASE CaptureCompletion /\ capturing' # Nothing
  <2>1. /\ e.turn \in receipts /\ ~Captured(e.turn)
        /\ capturing' = Capture(e.turn, CaptureNumber(e.turn), CheckpointStatus(e.outcome), e.at)
    BY <1>7 DEF CaptureCompletion
  <2>2. ~Undiffed(turn)
    <3>1. turn <= turns /\ turns \in Nat
      <4>1. turn \in 1..turns /\ turns \in Nat
        BY <1>4, <2>1, ProjectionTypes DEF TypeInv, ReceiptsTyped
      <4> QED BY <4>1
    <3>2. turn # running
      BY <1>3, <1>4, <2>1, RecordTypes DEF KnownInv, QueueInv, ProviderRuns
    <3>3. \A f \in Ahead : f.turn # turn
      BY <1>3, <1>4, <2>1 DEF KnownInv, QueueInv, ReceiptsPast
    <3> QED BY <1>3, <1>4, <3>1, <3>2, <3>3 DEF Undiffed
  <2>3. CaptureNumber(e.turn) # 0
    <3>1. db \in Tables /\ Bounded(db)
      BY DEF TypeInv, ProjectionsTyped
    <3>2. LastNumber + 1 # 0
      BY <1>3, <3>1, LastNumberTyped
    <3>3. db.checkpoint[e.turn] = "missing" => db.number[e.turn] # 0
      BY <1>3 DEF CheckInv, Numbered
    <3> QED BY <3>2, <3>3 DEF CaptureNumber
  <2> HIDE DEF e
  <2>4. /\ capturing'.turn = turn /\ capturing'.number # 0
    BY <1>4, <2>1, <2>3 DEF Capture
  <2>5. NotOver' /\ ~Undiffed(turn)'
    BY <1>1, <1>4, <2>1, <2>2, <2>4, UndiffedBefore DEF NotOver, Captured
  <2> QED BY <1>1, <1>2, <1>5, <1>7, <2>4, <2>5, CheckQuiet
<1>8. CASE CapturePlaceholder /\ capturing' # Nothing
  <2>1. e.kind = "placeholder" /\ capturing' = Capture(e.turn, e.number, "ready", e.at)
    BY <1>8 DEF CapturePlaceholder
  <2>2. ~Undiffed(turn) /\ e.number # 0
    BY <1>2, <1>4, <2>1 DEF CheckInv, FreshInv, Fresh, Numbered
  <2> HIDE DEF e
  <2>3. capturing'.turn = turn /\ capturing'.number # 0 /\ capturing'.status = "ready"
    BY <1>4, <2>1, <2>2 DEF Capture
  <2>4. NotOver' /\ ~Undiffed(turn)'
    BY <2>2, <2>3, UndiffedBefore DEF NotOver
  <2> QED BY <1>1, <1>2, <1>5, <1>8, <2>3, <2>4, CheckQuiet
<1> QED BY <1>6, <1>7, <1>8

\* ... and writes the checkpoint.
LEMMA CaptureWritesChecks ==
  ASSUME TypeInv, KnownInv, CheckInv, [SteadyNext]_vars, CaptureWrites
  PROVE  CheckInv' /\ SameKept
<1> DEFINE p == [kind |-> "placeholder", turn |-> capturing.turn,
                 number |-> capturing.number, at |-> capturing.at]
<1>1. /\ capturing # Nothing /\ capturing' = Nothing /\ ingesting' = ingesting
      /\ captures' \in {captures, Append(captures, p)}
      /\ Project(DiffCompleted(capturing.turn, capturing.number, capturing.status,
                               capturing.at))
  BY DEF CaptureWrites, ingestion
<1>2. capturing \in Captures /\ capturing \in Items
  BY <1>1 DEF TypeInv, CapturesTyped, Items
<1>3. /\ capturing.turn \in Turns /\ capturing.number \in Nat /\ capturing.kind = "capture"
      /\ capturing.status \in TakenStatuses /\ capturing.at \in Instants
  BY <1>2 DEF Captures
<1>4. PICK turn \in Turns, number \in Nat, status \in TakenStatuses, at \in Instants :
        /\ turn = capturing.turn /\ number = capturing.number
        /\ status = capturing.status /\ at = capturing.at
  BY <1>3
<1>5. number # 0 /\ ~Undiffed(turn)'
  BY <1>2, <1>3, <1>4, UndiffedBefore DEF CheckInv, FreshInv, Fresh, Numbered
<1>6. status = "missing" => db.checkpoint[turn] \notin {"ready", "error"}
  BY <1>1, <1>4 DEF CheckInv, NotOver, Captured
<1>7. p \in Placeholders /\ p.turn = turn /\ p.number = number
  BY <1>3, <1>4 DEF Placeholders
<1> HIDE DEF p
<1>8. Items' \subseteq Items \cup {p}
  <2>1. CASE captures' = captures
    BY <1>1, <2>1 DEF Items
  <2>2. CASE captures' = Append(captures, p)
    BY <1>1, <1>7, <2>2, ItemsAppend DEF Items
  <2> QED BY <1>1, <2>1, <2>2
<1>9. Project(DiffCompleted(turn, number, status, at))
  BY <1>1, <1>4
<1>10. \A c \in Items' : \/ c \in Items \/ c.kind = "ended"
                         \/ c.number = number /\ c.turn = turn
  BY <1>7, <1>8
<1>11. number \in Nat \ {0}
  BY <1>5
<1> QED BY <1>1, <1>5, <1>6, <1>9, <1>10, <1>11, CheckWritten

LEMMA InitChecks ==
  ASSUME Init
  PROVE  CheckInv /\ \A t \in Turns : SameCheckpoint(t)
<1>1. /\ Ahead = {} /\ Items = {} /\ ingesting = Nothing /\ capturing = Nothing
      /\ \A t \in Turns : /\ db.checkpoint[t] = "none" /\ mem.checkpoint[t] = "none"
                          /\ db.number[t] = 0 /\ mem.number[t] = 0
  BY DEF Init, Ahead, Items, NewTables, NewMemory
<1>2. FreshInv /\ Numbered /\ NotOver
  BY <1>1 DEF FreshInv, Fresh, Numbered, NotOver
<1> QED BY <1>1, <1>2 DEF CheckInv, SameCheckpoint

\* A step that is neither the ingestion of a diff nor the write of a capture
\* projects no checkpoint.
LEMMA OthersProjected ==
  ASSUME TypeInv, [Next]_vars, ~IngestDiff, ~CaptureWrites
  PROVE  \/ UNCHANGED <<mem, db>>
         \/ \E e \in DomainEvents \ DiffEvents : Project(e)
         \/ \E t \in Turns : RecoveryTaken(t)
<1> DEFINE Others == DomainEvents \ DiffEvents
<1>1. /\ \A at \in Instants : StartRequested(at) \in Others
      /\ \A turn \in Turns \cup {NoTurn}, at \in Instants :
           InterruptRequested(turn, at) \in Others
      /\ \A t \in Turns, at \in Instants : SessionSet("running", t, at) \in Others
      /\ \A status \in Closing, at \in Instants : SessionSet(status, NoTurn, at) \in Others
  <2>1. \A e \in DiffEvents : e.type = "diff-completed"
    BY DEF DiffEvents, DiffCompleted
  <2>2. /\ \A at : StartRequested(at).type # "diff-completed"
        /\ \A turn, at : InterruptRequested(turn, at).type # "diff-completed"
        /\ \A status, turn, at : SessionSet(status, turn, at).type # "diff-completed"
    BY DEF StartRequested, InterruptRequested, SessionSet
  <2> QED BY <2>1, <2>2, EventKinds
<1>2. SUFFICES ASSUME ~IngestReopened
               PROVE  UNCHANGED <<mem, db>> \/ \E e \in Others : Project(e)
  BY RecoveryIngested
<1> HIDE DEF Others
<1>3. CASE StartTurn
  BY <1>1, <1>3, Clocked DEF StartTurn
<1>4. CASE \E t \in Turns \cup {NoTurn} : Interrupt(t)
  <2>1. PICK named \in Turns \cup {NoTurn} : Interrupt(named)
    BY <1>4
  <2> DEFINE turn == IF named # NoTurn THEN named ELSE MemoryActive(mem)
  <2>2. Project(InterruptRequested(turn, Now))
    BY <2>1 DEF Interrupt
  <2>3. turn \in Turns \cup {NoTurn}
    BY MemoryActiveTyped DEF TypeInv, ProjectionsTyped
  <2> QED BY <1>1, <2>2, <2>3, Clocked
<1>5. ASSUME NEW r \in Requests, CallStep(r)
      PROVE  UNCHANGED <<mem, db>> \/ \E e \in Others : Project(e)
  <2>1. CallTyped(calls[r])
    BY DEF TypeInv, CallsTyped
  <2>2. CASE SteerBecomesSend(r)
    BY <1>1, <2>2, Clocked DEF SteerBecomesSend, Closing
  <2>3. CASE StartFailed(r)
    BY <1>1, <2>1, <2>3 DEF StartFailed, CallTyped, Closing
  <2>4. CASE MarkSteered(r)
    BY <1>1, <2>1, <2>4, Clocked DEF MarkSteered, CallTyped
  <2>5. CASE MarkWrites(r)
    BY <1>1, <2>1, <2>5 DEF MarkWrites, CallTyped
  <2>6. CASE SendTurn(r) \/ SendSteers(r) \/ CallFails(r) \/ SteerTurn(r) \/ MarkReads(r)
    BY <2>6 DEF SendTurn, SendSteers, CallFails, SteerTurn, MarkReads
  <2> QED BY <1>5, <2>2, <2>3, <2>4, <2>5, <2>6 DEF CallStep
<1>6. CASE IngestLifecycle
  <2>1. ingesting.event.turn \in Turns /\ ingesting.event.at \in Instants
    BY <1>6, IngestedEvent DEF IngestLifecycle
  <2>2. SessionAfter(ingesting.event.outcome) \in Closing
    BY SessionAfterTyped
  <2> QED BY <1>1, <1>6, <2>1, <2>2 DEF IngestLifecycle
<1>7. CASE ReactorStep \/ ProviderStep \/ IngestReads \/ UNCHANGED vars
  BY <1>7 DEF ReactorStep, ReactStart, ReactInterrupt, ProviderStep, ProviderDiff,
              ProviderEnds, ProviderReopens, IngestReads, vars
<1>8. CASE CaptureCompletion \/ CaptureGivenUp \/ CapturePlaceholder \/ CaptureFails
  BY <1>8 DEF CaptureCompletion, CaptureGivenUp, CapturePlaceholder, CaptureFails
<1> QED BY <1>2, <1>3, <1>4, <1>5, <1>6, <1>7, <1>8
        DEF Next, OperatorStep, IngestionStep, CheckpointStep

\* Only ingestion and capture write checkpoints.
LEMMA StepWrites ==
  ASSUME TypeInv, [Next]_vars, ~IngestDiff, ~CaptureWrites
  PROVE  /\ db'.checkpoint = db.checkpoint /\ db'.number = db.number
         /\ mem'.checkpoint = mem.checkpoint /\ mem'.number = mem.number
<1>1. mem \in Memory /\ db \in Tables
  BY ProjectionTypes
<1>2. ASSUME NEW e \in DomainEvents \ DiffEvents, Project(e)
      PROVE  /\ db'.checkpoint = db.checkpoint /\ db'.number = db.number
             /\ mem'.checkpoint = mem.checkpoint /\ mem'.number = mem.number
  BY <1>1, <1>2, OtherOnTableCheckpoints, OtherOnMemoryCheckpoints DEF Project
<1>3. ASSUME NEW t \in Turns, RecoveryTaken(t)
      PROVE  /\ db'.checkpoint = db.checkpoint /\ db'.number = db.number
             /\ mem'.checkpoint = mem.checkpoint /\ mem'.number = mem.number
  BY <1>1, <1>3, RecoveryOnTables, RecoveryOnMemory DEF RecoveryTaken, Project
<1> QED BY <1>2, <1>3, OthersProjected

\* A step that writes or takes no checkpoint queues none.
LEMMA StepItems ==
  ASSUME TypeInv, [SteadyNext]_vars, ~IngestDiff, ~CaptureWrites, ~CaptureCompletion,
         ~CapturePlaceholder
  PROVE  \A c \in Items' : c \in Items \/ c.kind = "ended"
<1>1. CASE ProviderDiff
  BY <1>1 DEF ProviderDiff, checkpoints, Items
<1>2. ASSUME NEW o \in Endings, ProviderEnds(o)
      PROVE  \A c \in Items' : c \in Items \/ c.kind = "ended"
  <2> DEFINE e == [kind |-> "ended", turn |-> running, outcome |-> o, at |-> Now]
  <2>1. /\ captures' = Append(captures, e) /\ capturing' = capturing
        /\ running # NoTurn
    BY <1>2 DEF ProviderEnds
  <2>2. e \in EndedEvents /\ e.kind = "ended"
    BY <2>1, Clocked, RunningTurn, ThreadAssumption DEF EndedEvents, EndOutcomes, Endings
  <2> HIDE DEF e
  <2> QED BY <2>1, <2>2, ItemsAppend DEF Items
<1>3. CASE CaptureGivenUp
  <2>1. /\ capturing = Nothing /\ captures # <<>> /\ captures' = Tail(captures)
        /\ capturing' = Nothing
    BY <1>3 DEF CaptureGivenUp
  <2> QED BY <2>1, ItemsTaken
<1>4. CASE CaptureFails
  BY <1>4 DEF CaptureFails, Items
<1>5. CASE UNCHANGED checkpoints
  BY <1>5 DEF checkpoints, Items
<1>6. \A r \in Requests : CallStep(r) => UNCHANGED checkpoints
  BY DEF CallStep, SendTurn, SendSteers, CallFails, SteerTurn, SteerBecomesSend,
         StartFailed, MarkSteered, MarkReads, MarkWrites
<1>7. OperatorStep \/ ReactorStep \/ IngestReads \/ IngestLifecycle \/ UNCHANGED vars
        => UNCHANGED checkpoints
  BY DEF OperatorStep, StartTurn, Interrupt, ReactorStep, ReactStart, ReactInterrupt,
         IngestReads, IngestLifecycle, vars
<1> QED BY <1>1, <1>2, <1>3, <1>4, <1>5, <1>6, <1>7
        DEF SteadyNext, SteadyProvider, SteadyIngestion, CheckpointStep

LEMMA StepChecks ==
  ASSUME TypeInv, KnownInv, CheckInv, [SteadyNext]_vars
  PROVE  CheckInv' /\ SameKept
<1>1. CASE IngestDiff
  BY <1>1, IngestDiffChecks
<1>2. CASE CaptureWrites
  BY <1>2, CaptureWritesChecks
<1>3. CASE CaptureCompletion \/ CapturePlaceholder
  BY <1>3, TakenChecks
<1>4. CASE ~IngestDiff /\ ~CaptureWrites /\ ~CaptureCompletion /\ ~CapturePlaceholder
  <2>1. \A c \in Items' : c \in Items \/ c.kind = "ended"
    BY <1>4, StepItems
  <2>2. capturing' \in {capturing, Nothing}
    BY <1>4 DEF SteadyNext, OperatorStep, StartTurn, Interrupt, ReactorStep, ReactStart,
         ReactInterrupt, CallStep, SendTurn, SendSteers, CallFails, SteerTurn,
         SteerBecomesSend, StartFailed, MarkSteered, MarkReads, MarkWrites, SteadyProvider,
         ProviderDiff, ProviderEnds, SteadyIngestion, IngestReads, IngestLifecycle,
         CheckpointStep, CaptureGivenUp, CaptureFails, vars, checkpoints
  <2>3. ingesting' # Nothing => ingesting'.number # 0
    <3>1. CASE IngestReads
      <4>1. ingesting'.number = LastNumber + 1 /\ reported # <<>>
        BY <3>1 DEF IngestReads
      <4>2. Turns # {}
        <5>1. reported \in Seq(ProviderEvents) /\ reported # <<>>
          BY <4>1 DEF TypeInv, ReportedTyped
        <5>2. Head(reported) \in ProviderEvents
          BY <5>1
        <5> QED BY <5>2 DEF ProviderEvents, EndedEvents
      <4>3. LastNumber \in Nat
        BY <4>2, LastNumberTyped DEF TypeInv, ProjectionsTyped
      <4> QED BY <4>1, <4>3
    <3>2. CASE ~IngestReads
      <4>1. ingesting' \in {ingesting, Nothing}
        BY <1>4, <3>2
        DEF SteadyNext, OperatorStep, StartTurn, Interrupt, ReactorStep, ReactStart,
            ReactInterrupt, CallStep, SendTurn, SendSteers, CallFails, SteerTurn,
            SteerBecomesSend, StartFailed, MarkSteered, MarkReads, MarkWrites, SteadyProvider,
            ProviderDiff, ProviderEnds, SteadyIngestion, IngestLifecycle,
            CheckpointStep, CaptureGivenUp, CaptureFails, vars, ingestion
      <4> QED BY <4>1 DEF CheckInv, Numbered
    <3> QED BY <3>1, <3>2
  <2> QED BY <1>4, <2>1, <2>2, <2>3, SteadyIsNext, StepWrites, CheckQuiet
<1> QED BY <1>1, <1>2, <1>3, <1>4

(***************************************************************************)
(* Memory and database part over a turn's checkpoint only in a step that   *)
(* gives its number to another turn: no placeholder that was read or       *)
(* captured late takes the place of a captured checkpoint in one of them   *)
(* (projector.ts keeps the captured one in memory, the tables take what    *)
(* comes last).  This is said of every step before the first turn is       *)
(* reopened: a second diff of a turn that goes on may part them too.       *)
(***************************************************************************)
THEOREM PartedByNumber ==
  Spec => [][\A t \in Turns :
               reopened' = "none" /\ SameCheckpoint(t) /\ ~SameCheckpoint(t)' =>
                 /\ mem.number[t] # 0
                 /\ \E u \in Turns \ {t} : db'.number[u] = mem.number[t]]_vars
<1> DEFINE Inv == TypeInv /\ (reopened = "none" => KnownInv /\ CheckInv)
           Parted == \A t \in Turns :
                       reopened' = "none" /\ SameCheckpoint(t) /\ ~SameCheckpoint(t)' =>
                         /\ mem.number[t] # 0
                         /\ \E u \in Turns \ {t} : db'.number[u] = mem.number[t]
<1>1. Init => Inv
  BY InitTyped, InitKnown, InitChecks
<1>2. Inv /\ [Next]_vars => Inv'
  BY StepTyped, SteadyStep, StepKnown, StepChecks DEF KnownInv
<1>3. Inv /\ [Next]_vars => [Parted]_vars
  BY SteadyStep, StepChecks DEF KnownInv, SameKept, NumberTaken
<1> HIDE DEF Inv, Parted
<1>4. Spec => [][Parted]_vars
  BY <1>1, <1>2, <1>3, PTL DEF Spec
<1> QED BY <1>4 DEF Parted

-----------------------------------------------------------------------------
(* What exactly breaks CapturedStays and InterruptedStays: each run shows  *)
(* one way to violate the property, the theorems say that there is no      *)
(* other.                                                                  *)

\* CheckpointReactor decided to capture the turn, and it still is not captured.
NotRecaptured == capturing # Nothing => ~Captured(capturing.turn)

\* A captured checkpoint leaves the tables when another turn takes its number.
CapturedLost(t) ==
  /\ db'.checkpoint[t] = "none" /\ db.number[t] # 0
  /\ \E u \in Turns \ {t} : db'.number[u] = db.number[t]

LostByNumber ==
  \A t \in Turns : Captured(t) /\ db'.checkpoint[t] # db.checkpoint[t] => CapturedLost(t)

\* In the tables no two turns have the same number.
NumberedApart ==
  \A t, u \in Turns : t # u /\ db.number[t] # 0 => db.number[t] # db.number[u]

\* Whoever is given a number, no other turn keeps it in the tables.
LEMMA WrittenApart ==
  ASSUME TypeInv, NumberedApart,
         NEW turn \in Turns, NEW number \in Nat, NEW status \in TakenStatuses,
         NEW at \in Instants, Project(DiffCompleted(turn, number, status, at))
  PROVE  NumberedApart'
<1>1. db \in Tables
  BY ProjectionTypes
<1>2. \A u \in Turns : db'.number[u] =
        IF u = turn THEN number ELSE IF db.number[u] = number THEN 0 ELSE db.number[u]
  BY <1>1, DiffOnTables DEF Project
<1> QED BY <1>2 DEF NumberedApart

\* A turn that is not captured is given a checkpoint.
LEMMA OneWritten ==
  ASSUME TypeInv, CheckInv, NumberedApart,
         NEW turn \in Turns, NEW number \in Nat, NEW status \in TakenStatuses,
         NEW at \in Instants, Project(DiffCompleted(turn, number, status, at)),
         ~Captured(turn)
  PROVE  /\ LostByNumber /\ NumberedApart'
         /\ status = "missing" => \A t \in Turns : Captured(t)' => Captured(t)
<1>0. db \in Tables
  BY ProjectionTypes
<1>1. /\ \A u \in Turns : db'.checkpoint[u] =
           IF u = turn THEN status
           ELSE IF db.number[u] = number THEN "none" ELSE db.checkpoint[u]
      /\ \A u \in Turns : db'.number[u] =
           IF u = turn THEN number ELSE IF db.number[u] = number THEN 0 ELSE db.number[u]
  BY <1>0, DiffOnTables, DiffOnTableCheckpoints DEF Project
<1>2. \A t \in Turns : db.checkpoint[t] # "none" => db.number[t] # 0
  BY DEF CheckInv, Numbered
<1>3. LostByNumber
  <2> SUFFICES ASSUME NEW t \in Turns, Captured(t), db'.checkpoint[t] # db.checkpoint[t]
               PROVE  CapturedLost(t)
    BY DEF LostByNumber
  <2>1. t # turn /\ db.number[t] # 0
    BY <1>2 DEF Captured
  <2>2. db.number[t] = number /\ db'.checkpoint[t] = "none"
    BY <1>1, <2>1
  <2>3. db'.number[turn] = db.number[t]
    BY <1>1, <2>2
  <2> QED BY <2>1, <2>2, <2>3 DEF CapturedLost
<1>4. NumberedApart'
  BY WrittenApart
<1>5. ASSUME status = "missing", NEW t \in Turns, Captured(t)'
      PROVE  Captured(t)
  BY <1>1, <1>5 DEF Captured
<1> QED BY <1>3, <1>4, <1>5

LEMMA CapturedStep ==
  ASSUME TypeInv, KnownInv, CheckInv, NotRecaptured, NumberedApart, [SteadyNext]_vars
  PROVE  NotRecaptured' /\ NumberedApart' /\ LostByNumber
<1>1. CASE IngestDiff
  <2>1. /\ ingesting # Nothing /\ capturing' = capturing
        /\ \/ UNCHANGED db
           \/ Project(DiffCompleted(ingesting.event.turn, ingesting.number, "missing",
                                    ingesting.event.at))
    BY <1>1 DEF IngestDiff
  <2>2. PICK turn \in Turns, number \in Nat, at \in Instants :
          turn = ingesting.event.turn /\ number = ingesting.number
            /\ at = ingesting.event.at
    BY <2>1, IngestedEvent
  <2>3. CASE UNCHANGED db
    BY <2>1, <2>3 DEF NotRecaptured, NumberedApart, LostByNumber, Captured
  <2>4. CASE Project(DiffCompleted(turn, number, "missing", at))
    <3>1. ~Captured(turn)
      <4>1. ingesting.event \in Ahead /\ ingesting.event.kind = "diff"
        BY <1>1 DEF Ahead, IngestDiff
      <4>2. Fresh(turn)
        BY <2>2, <4>1 DEF CheckInv, FreshInv, Undiffed
      <4> QED BY <4>2 DEF Fresh, Captured
    <3>2. /\ LostByNumber /\ NumberedApart'
          /\ \A t \in Turns : Captured(t)' => Captured(t)
      BY <2>4, <3>1, OneWritten DEF TakenStatuses
    <3>3. capturing # Nothing => capturing.turn \in Turns
      BY DEF TypeInv, CapturesTyped, Captures
    <3> QED BY <2>1, <3>2, <3>3 DEF NotRecaptured
  <2> QED BY <2>1, <2>2, <2>3, <2>4
<1>2. CASE CaptureWrites
  <2>1. /\ capturing # Nothing /\ capturing' = Nothing
        /\ Project(DiffCompleted(capturing.turn, capturing.number, capturing.status,
                                 capturing.at))
    BY <1>2 DEF CaptureWrites
  <2>2. capturing \in Captures
    BY <2>1 DEF TypeInv, CapturesTyped
  <2>3. PICK turn \in Turns, number \in Nat, status \in TakenStatuses, at \in Instants :
          /\ turn = capturing.turn /\ number = capturing.number
          /\ status = capturing.status /\ at = capturing.at
    BY <2>2 DEF Captures
  <2>4. ~Captured(turn) /\ Project(DiffCompleted(turn, number, status, at))
    BY <2>1, <2>3 DEF NotRecaptured
  <2>5. LostByNumber /\ NumberedApart'
    BY <2>4, OneWritten
  <2> QED BY <2>1, <2>5 DEF NotRecaptured
<1>3. CASE ~IngestDiff /\ ~CaptureWrites
  <2>1. db'.checkpoint = db.checkpoint /\ db'.number = db.number
    BY <1>3, SteadyIsNext, StepWrites
  <2>2. capturing' \in {capturing, Nothing} \/ (capturing' # Nothing => ~Captured(capturing'.turn))
    <3>1. CASE CaptureCompletion
      BY <3>1 DEF CaptureCompletion, Capture
    <3>2. CASE CapturePlaceholder
      BY <3>2 DEF CapturePlaceholder, Capture
    <3>3. CASE ~CaptureCompletion /\ ~CapturePlaceholder
      BY <1>3, <3>3
      DEF SteadyNext, OperatorStep, StartTurn, Interrupt, ReactorStep, ReactStart,
          ReactInterrupt, CallStep, SendTurn, SendSteers, CallFails, SteerTurn,
          SteerBecomesSend, StartFailed, MarkSteered, MarkReads, MarkWrites, SteadyProvider,
          ProviderDiff, ProviderEnds, SteadyIngestion, IngestReads, IngestLifecycle,
          CheckpointStep, CaptureGivenUp, CaptureFails, vars, checkpoints
    <3> QED BY <3>1, <3>2, <3>3
  <2> QED BY <2>1, <2>2 DEF NotRecaptured, NumberedApart, LostByNumber, Captured
<1> QED BY <1>1, <1>2, <1>3

\* Up to the first turn that is reopened.
CapturedInv ==
  TypeInv /\ (reopened = "none" => KnownInv /\ CheckInv /\ NotRecaptured /\ NumberedApart)

LEMMA CapturedHolds == Spec => []CapturedInv
<1>1. Init => CapturedInv
  <2> SUFFICES ASSUME Init PROVE CapturedInv
    OBVIOUS
  <2>1. NotRecaptured /\ NumberedApart
    BY DEF Init, NotRecaptured, NumberedApart, NewTables
  <2> QED BY <2>1, InitTyped, InitKnown, InitChecks DEF CapturedInv
<1>2. CapturedInv /\ [Next]_vars => CapturedInv'
  BY StepTyped, SteadyStep, StepKnown, StepChecks, CapturedStep DEF CapturedInv, KnownInv
<1> QED BY <1>1, <1>2, PTL DEF Spec

(***************************************************************************)
(* In the tables no two turns have the same checkpoint number              *)
(* (clearCheckpointTurnConflict in Layers/ProjectionPipeline.ts), although *)
(* ingestion and capture may have chosen it for both: of the two           *)
(* checkpoints one is gone.  (In memory both stay.)  Turns that are        *)
(* reopened make no difference.                                            *)
(***************************************************************************)
THEOREM TablesNumberedApart ==
  Spec => [](\A t, u \in Turns : t # u /\ db.number[t] # 0 => db.number[t] # db.number[u])
<1> DEFINE Inv == TypeInv /\ NumberedApart
<1>1. Init => Inv
  <2>1. Init => NumberedApart
    BY DEF Init, NumberedApart, NewTables
  <2> QED BY <2>1, InitTyped
<1>2. ASSUME Inv, [Next]_vars PROVE NumberedApart'
  <2>1. CASE UNCHANGED db
    BY <1>2, <2>1 DEF NumberedApart
  <2>2. CASE IngestDiff
    <3>1. ingesting # Nothing
      BY <2>2 DEF IngestDiff
    <3>2. PICK turn \in Turns, number \in Nat, at \in Instants :
            turn = ingesting.event.turn /\ number = ingesting.number
              /\ at = ingesting.event.at
      BY <1>2, <3>1, IngestedEvent
    <3>3. UNCHANGED db \/ Project(DiffCompleted(turn, number, "missing", at))
      BY <2>2, <3>2 DEF IngestDiff
    <3> QED BY <1>2, <2>1, <3>3, WrittenApart DEF TakenStatuses
  <2>3. CASE CaptureWrites
    <3>1. capturing \in Captures
      BY <1>2, <2>3 DEF CaptureWrites, TypeInv, CapturesTyped
    <3>2. PICK turn \in Turns, number \in Nat, status \in TakenStatuses, at \in Instants :
            /\ turn = capturing.turn /\ number = capturing.number
            /\ status = capturing.status /\ at = capturing.at
      BY <3>1 DEF Captures
    <3>3. Project(DiffCompleted(turn, number, status, at))
      BY <2>3, <3>2 DEF CaptureWrites
    <3> QED BY <1>2, <3>3, WrittenApart
  <2>4. CASE ~IngestDiff /\ ~CaptureWrites
    <3>1. db'.number = db.number
      BY <1>2, <2>4, StepWrites
    <3> QED BY <1>2, <3>1 DEF NumberedApart
  <2> QED BY <2>2, <2>3, <2>4
<1>3. Inv /\ [Next]_vars => Inv'
  BY <1>2, StepTyped
<1>4. Inv => \A t, u \in Turns : t # u /\ db.number[t] # 0 => db.number[t] # db.number[u]
  BY DEF NumberedApart
<1> HIDE DEF Inv
<1> QED BY <1>1, <1>3, <1>4, PTL DEF Spec

(***************************************************************************)
(* One cause of a violated CapturedStays: before the first turn is         *)
(* reopened a captured checkpoint changes in the database only by being    *)
(* cleared, in a step that gives its number to another turn.  No           *)
(* placeholder of the turn itself and no second capture takes its place,   *)
(* whenever they were read.  (The other cause is a turn that is reopened:  *)
(* its second diff may be read before the first capture is written.)       *)
(***************************************************************************)
THEOREM CapturedLostByNumber ==
  Spec => [][\A t \in Turns :
               reopened' = "none" /\ Captured(t) /\ db'.checkpoint[t] # db.checkpoint[t] =>
                 /\ db'.checkpoint[t] = "none" /\ db.number[t] # 0
                 /\ \E u \in Turns \ {t} : db'.number[u] = db.number[t]]_vars
<1> DEFINE Lost ==
      \A t \in Turns :
        reopened' = "none" /\ Captured(t) /\ db'.checkpoint[t] # db.checkpoint[t] =>
          /\ db'.checkpoint[t] = "none" /\ db.number[t] # 0
          /\ \E u \in Turns \ {t} : db'.number[u] = db.number[t]
<1>1. CapturedInv /\ [Next]_vars => [Lost]_vars
  BY SteadyStep, CapturedStep DEF CapturedInv, KnownInv, LostByNumber, CapturedLost
<1> HIDE DEF Lost
<1>2. Spec => [][Lost]_vars
  BY <1>1, CapturedHolds, PTL DEF Spec
<1> QED BY <1>2 DEF Lost

\* Only a checkpoint turns an interrupted row into a completed one.
LEMMA OtherKeepsInterrupted ==
  ASSUME NEW d \in Tables, NEW e \in DomainEvents \ DiffEvents,
         NEW n, n = TablesAfter(d, e), NEW t \in Turns, d.state[t] = "interrupted"
  PROVE  n.state[t] = "interrupted"
<1>1. CASE e \in StartEvents
  BY <1>1, StartOnTables DEF StartEvents
<1>2. CASE e \in InterruptEvents
  <2>1. PICK turn \in Turns \cup {NoTurn}, at \in Instants :
          e = InterruptRequested(turn, at)
    BY <1>2 DEF InterruptEvents
  <2> QED BY <2>1, InterruptOnTables
<1>3. CASE e \in RunningEvents
  <2>1. PICK u \in Turns, at \in Instants : e = SessionSet("running", u, at)
    BY <1>3 DEF RunningEvents
  <2>2. RowTaken(n, d, u, at)
    BY <2>1, RunningOnTables
  <2> QED BY <2>2 DEF RowTaken, OthersKept, Terminal
<1>4. CASE e \in ClosingEvents
  <2>1. PICK status \in Closing, at \in Instants : e = SessionSet(status, NoTurn, at)
    BY <1>4 DEF ClosingEvents
  <2> QED BY <2>1, ClosingOnTables
<1> QED BY <1>1, <1>2, <1>3, <1>4 DEF DomainEvents

(***************************************************************************)
(* The cause of a violated InterruptedStays: only CheckpointReactor's      *)
(* capture of that very turn with status "ready" makes a completed turn of *)
(* an interrupted one; no session, start, end or placeholder does.         *)
(***************************************************************************)
THEOREM CompletedByCapture ==
  Spec => [][\A t \in Turns : db.state[t] = "interrupted" /\ db'.state[t] = "completed" =>
               CaptureWrites /\ capturing.turn = t /\ capturing.status = "ready"]_vars
<1> DEFINE Cause(t) == CaptureWrites /\ capturing.turn = t /\ capturing.status = "ready"
           Overtaken == \A t \in Turns :
             db.state[t] = "interrupted" /\ db'.state[t] = "completed" => Cause(t)
<1>1. ASSUME TypeInv, [Next]_vars, NEW t \in Turns,
             db.state[t] = "interrupted", db'.state[t] = "completed"
      PROVE  Cause(t)
  <2>0. db \in Tables
    BY <1>1, ProjectionTypes
  <2>1. CASE ~IngestDiff /\ ~CaptureWrites
    <3>1. db'.state[t] # "completed"
      <4>1. CASE UNCHANGED <<mem, db>>
        BY <1>1, <4>1
      <4>2. ASSUME NEW e \in DomainEvents \ DiffEvents, Project(e)
            PROVE  db'.state[t] # "completed"
        BY <1>1, <2>0, <4>2, OtherKeepsInterrupted DEF Project
      <4>3. ASSUME NEW u \in Turns, RecoveryTaken(u)
            PROVE  db'.state[t] # "completed"
        <5>1. PICK at \in Instants : db' = TablesAfter(db, Recovery(u, at))
          BY <4>3 DEF RecoveryTaken, Project
        <5>2. OthersKept(db', db, u) /\ db'.state[u] = "running"
          BY <2>0, <5>1, RecoveryOnTables
        <5> QED BY <1>1, <5>2 DEF OthersKept
      <4> QED BY <1>1, <2>1, <4>1, <4>2, <4>3, OthersProjected
    <3> QED BY <1>1, <3>1
  <2>2. ASSUME NEW turn \in Turns, NEW number \in Nat, NEW status \in TakenStatuses,
               NEW at \in Instants, Project(DiffCompleted(turn, number, status, at))
        PROVE  turn = t /\ status = "ready"
    <3>1. /\ t # turn => db'.state[t] = db.state[t]
          /\ \E ends \in BOOLEAN : /\ db'.state[turn] = CheckpointState(db, turn, status, ends)
                                   /\ ends => status # "missing"
      BY <2>0, <2>2, DiffOnTables DEF Project
    <3>2. turn = t
      BY <1>1, <3>1
    <3> QED BY <1>1, <3>1, <3>2 DEF CheckpointState, TakenStatuses
  <2>3. CASE IngestDiff
    <3>1. ingesting # Nothing
      BY <2>3 DEF IngestDiff
    <3>2. PICK turn \in Turns, number \in Nat, at \in Instants :
            turn = ingesting.event.turn /\ number = ingesting.number
              /\ at = ingesting.event.at
      BY <1>1, <3>1, IngestedEvent
    <3>3. UNCHANGED db \/ Project(DiffCompleted(turn, number, "missing", at))
      BY <2>3, <3>2 DEF IngestDiff
    <3>4. ~ Project(DiffCompleted(turn, number, "missing", at))
      BY <2>2 DEF TakenStatuses
    <3> QED BY <1>1, <3>3, <3>4
  <2>4. CASE CaptureWrites
    <3>1. capturing \in Captures
      BY <1>1, <2>4 DEF CaptureWrites, TypeInv, CapturesTyped
    <3>2. PICK turn \in Turns, number \in Nat, status \in TakenStatuses, at \in Instants :
            /\ turn = capturing.turn /\ number = capturing.number
            /\ status = capturing.status /\ at = capturing.at
      BY <3>1 DEF Captures
    <3>3. Project(DiffCompleted(turn, number, status, at))
      BY <2>4, <3>2 DEF CaptureWrites
    <3> QED BY <2>2, <2>4, <3>2, <3>3
  <2> QED BY <2>1, <2>3, <2>4
<1>2. TypeInv /\ [Next]_vars => [Overtaken]_vars
  <2> HIDE DEF Cause
  <2> QED BY <1>1
<1>3. Spec => []TypeInv
  BY InitTyped, StepTyped, PTL DEF Spec
<1> HIDE DEF Overtaken
<1>4. Spec => [][Overtaken]_vars
  BY <1>2, <1>3, PTL DEF Spec
<1> QED BY <1>4 DEF Overtaken
-----------------------------------------------------------------------------
(***************************************************************************)
(* CheckpointsAgree is not inductive: the numbers may be distinct again    *)
(* after two turns had the same one.  The invariant needs the numbers that *)
(* each turn was ever given: p[t] by ingestion, for the placeholder of     *)
(* turn t, and q[t] by the capture of its completion when that number is   *)
(* another one; 0 is none.                                                 *)
(***************************************************************************)
Taken == {"ready", "error"}

Given(p, q, n) == \E t \in Turns : n \in {p[t], q[t]}

\* Memory kept, or took back, the first of the two numbers of turn t.
Behind(p, q, t) == p[t] # 0 /\ q[t] # 0 /\ mem.number[t] = p[t]
Masked(p, q, n) == \E z \in Turns : Behind(p, q, z) /\ q[z] = n

\* The capture of v was given the number n, and so was no placeholder of a turn
\* up to v.
Beaten(p, q, n) == \E v \in Turns : q[v] = n /\ \A w \in Turns : p[w] = n => v < w

\* The placeholder's number of turn w was lost, or was given once more.
Contested(p, q, w) ==
  \/ db.number[w] # p[w]
  \/ q[w] # 0
  \/ \E x \in Turns : (x # w /\ p[x] = p[w]) \/ q[x] = p[w]

NumbersOf(p, q, t) ==
  /\ q[t] # 0 => q[t] # p[t]
  /\ db.number[t] \in {0, p[t], q[t]} /\ mem.number[t] \in {0, p[t], q[t]}
  /\ db.number[t] = 0 <=> db.checkpoint[t] = "none"
  /\ mem.number[t] = 0 <=> mem.checkpoint[t] = "none"
  /\ p[t] # 0 \/ q[t] # 0 => mem.number[t] # 0
  /\ db.number[t] # 0 =>
       mem.number[t] = db.number[t] \/ (Behind(p, q, t) /\ db.number[t] = q[t])
  /\ db.number[t] = p[t] /\ p[t] # 0 /\ q[t] # 0 => db.checkpoint[t] \in Taken

\* Where memory and database differ, the number is masked; no number is lost
\* unless it is; who contests a placeholder's number has beaten it.
Differ(p, q) ==
  \A t \in Turns : db.number[t] = mem.number[t] /\ db.checkpoint[t] # mem.checkpoint[t]
    => Masked(p, q, db.number[t])
Kept(p, q) ==
  \A t \in Turns : \A n \in {p[t], q[t]} \ {0} :
    (\E z \in Turns : db.number[z] = n) \/ Masked(p, q, n)
Won(p, q) ==
  \A w \in Turns : p[w] # 0 /\ Contested(p, q, w) => Beaten(p, q, p[w])

NumbersInv(p, q) ==
  /\ p \in [Turns -> Nat] /\ q \in [Turns -> Nat]
  /\ \A t \in Turns : NumbersOf(p, q, t)
  /\ Differ(p, q) /\ Kept(p, q) /\ Won(p, q)

\* The turn has not ended, or CheckpointReactor has not processed its end.
Ending(t) ==
  t > turns \/ t = running \/ \E c \in Items : c.kind = "ended" /\ c.turn = t

PlacedItems(p, q) ==
  \A c \in Items : c.kind = "placeholder" => c.number \in {p[c.turn], q[c.turn]}
EndedFirst(p, q) ==
  \A t \in Turns :
    /\ q[t] # 0 => t \in receipts /\ ~Ending(t)
    /\ Ending(t) /\ db.checkpoint[t] = "missing" => mem.checkpoint[t] = "missing"
IngestingNumber(p, q) ==
  ingesting # Nothing /\ Given(p, q, ingesting.number) => Beaten(p, q, ingesting.number)

\* The capture repeats a number of its turn, or is the first after its end.
Again(p, q, x, n) == n \in {p[x], q[x]}
First(p, q, x, n) ==
  /\ q[x] = 0 /\ db.number[x] = 0 /\ x \in receipts /\ ~Ending(x)
  /\ p[x] # 0 => Beaten(p, q, p[x])
  /\ \A w \in Turns : p[w] = n => Beaten(p, q, n) \/ x < w
Missed(p, q, x, n) ==
  /\ q[x] = 0 /\ ~Ending(x)
  /\ mem.checkpoint[x] \in Taken => n # p[x] \/ Masked(p, q, n)
CapturingNumber(p, q) ==
  capturing # Nothing =>
    /\ Again(p, q, capturing.turn, capturing.number)
         \/ First(p, q, capturing.turn, capturing.number)
    /\ capturing.status = "missing" => Missed(p, q, capturing.turn, capturing.number)

HandlersInv(p, q) ==
  PlacedItems(p, q) /\ EndedFirst(p, q) /\ IngestingNumber(p, q) /\ CapturingNumber(p, q)

\* The end of a turn is in the queue once.
EndedOnce ==
  /\ \A i, j \in 1..Len(captures) :
       captures[i].kind = "ended" /\ captures[j].kind = "ended" /\ i # j
         => captures[i].turn # captures[j].turn
  /\ \A c \in Items : c.kind = "ended" => c.turn # running

GivenInv ==
  \E p \in [Turns -> Nat], q \in [Turns -> Nat] : NumbersInv(p, q) /\ HandlersInv(p, q)

-----------------------------------------------------------------------------
\* What the projections of a checkpoint do to the numbers.
Written(x, n, s) ==
  /\ \A u \in Turns :
       /\ db'.number[u] = IF u = x THEN n ELSE IF db.number[u] = n THEN 0 ELSE db.number[u]
       /\ db'.checkpoint[u] = IF u = x THEN s
                              ELSE IF db.number[u] = n THEN "none" ELSE db.checkpoint[u]
       /\ u # x => mem'.number[u] = mem.number[u] /\ mem'.checkpoint[u] = mem.checkpoint[u]
  /\ IF s = "missing" /\ mem.checkpoint[x] \in Taken
     THEN mem'.number[x] = mem.number[x] /\ mem'.checkpoint[x] = mem.checkpoint[x]
     ELSE mem'.number[x] = n /\ mem'.checkpoint[x] = s

LEMMA ProjectWrites ==
  ASSUME TypeInv, NEW x \in Turns, NEW n \in Nat, NEW s \in TakenStatuses,
         NEW at \in Instants, Project(DiffCompleted(x, n, s, at))
  PROVE  Written(x, n, s)
<1>1. /\ mem \in Memory /\ db \in Tables
      /\ mem' = MemoryAfter(mem, DiffCompleted(x, n, s, at))
      /\ db' = TablesAfter(db, DiffCompleted(x, n, s, at))
  BY ProjectionTypes DEF Project
<1>2. /\ \A u \in Turns : db'.checkpoint[u] =
           IF u = x THEN s ELSE IF db.number[u] = n THEN "none" ELSE db.checkpoint[u]
      /\ \A u \in Turns : db'.number[u] =
           IF u = x THEN n ELSE IF db.number[u] = n THEN 0 ELSE db.number[u]
  <2>1. \A u \in Turns : db'.checkpoint[u] =
          IF u = x THEN s ELSE IF db.number[u] = n THEN "none" ELSE db.checkpoint[u]
    BY <1>1, DiffOnTableCheckpoints
  <2>2. \A u \in Turns : db'.number[u] =
          IF u = x THEN n ELSE IF db.number[u] = n THEN 0 ELSE db.number[u]
    BY <1>1, DiffOnTables
  <2> QED BY <2>1, <2>2
<1>3. /\ mem \in Memory
      /\ mem' = MemoryAfter(mem, DiffCompleted(x, n, s, at))
  BY <1>1
<1>4. CASE s = "missing" /\ mem.checkpoint[x] \in {"ready", "error"}
  <2>1. mem' = mem
    BY <1>3, <1>4, DiffOnMemoryCheckpoints, SMTT(30)
  <2> QED BY <1>2, <2>1, <1>4 DEF Written, Taken
<1>5. CASE ~(s = "missing" /\ mem.checkpoint[x] \in {"ready", "error"})
  <2>1. \A u \in Turns :
             /\ mem'.checkpoint[u] = IF u = x THEN s ELSE mem.checkpoint[u]
             /\ mem'.number[u] = IF u = x THEN n ELSE mem.number[u]
    BY <1>3, <1>5, DiffOnMemoryCheckpoints, SMTT(30)
  <2> QED BY <1>2, <1>5, <2>1 DEF Written, Taken
<1> QED BY <1>4, <1>5

\* The other turns: their rows stay, but for one that had the number.
LEMMA OthersNumbers ==
  ASSUME NEW p, NEW q, NEW p1, NEW q1, NEW x \in Turns, NEW n, NEW s, Written(x, n, s),
         NEW t \in Turns \ {x}, p1[t] = p[t], q1[t] = q[t], NumbersOf(p, q, t)
  PROVE  /\ NumbersOf(p1, q1, t)'
         /\ Behind(p1, q1, t)' <=> Behind(p, q, t)
<1>1. Behind(p1, q1, t)' <=> Behind(p, q, t)
  BY DEF Behind, Written
<1> QED BY <1>1 DEF NumbersOf, Written

\* Where the number of a turn was masked, it still is.
LEMMA WrittenDiffer ==
  ASSUME NEW p, NEW q, NEW p1, NEW q1, NEW x \in Turns, NEW n \in Nat \ {0}, NEW s,
         Written(x, n, s), Differ(p, q), \A t \in Turns : NumbersOf(p1, q1, t)',
         \A m : m # n /\ Masked(p, q, m) => Masked(p1, q1, m)',
         db'.number[x] = mem'.number[x] /\ db'.checkpoint[x] # mem'.checkpoint[x]
           => Masked(p1, q1, n)'
  PROVE  Differ(p1, q1)'
<1> SUFFICES ASSUME NEW t \in Turns, db'.number[t] = mem'.number[t],
                    db'.checkpoint[t] # mem'.checkpoint[t],
                    NEW m, m = db'.number[t]
             PROVE  Masked(p1, q1, m)'
  BY DEF Differ, Masked
<1>1. CASE t = x
  BY <1>1 DEF Written
<1>2. CASE t # x /\ db.number[t] = n
  <2>1. db'.number[t] = 0 /\ db'.checkpoint[t] = "none"
    BY <1>2 DEF Written
  <2>2. mem'.number[t] = 0 <=> mem'.checkpoint[t] = "none"
    BY DEF NumbersOf
  <2> QED BY <2>1, <2>2
<1>3. CASE t # x /\ db.number[t] # n
  <2>1. /\ db'.number[t] = db.number[t] /\ mem'.number[t] = mem.number[t]
        /\ db'.checkpoint[t] = db.checkpoint[t] /\ mem'.checkpoint[t] = mem.checkpoint[t]
    BY <1>3 DEF Written
  <2>2. Masked(p, q, m)
    BY <2>1 DEF Differ
  <2> QED BY <1>3, <2>1, <2>2
<1> QED BY <1>1, <1>2, <1>3

\* A capture repeats a number of its turn.
LEMMA AgainNumbers ==
  ASSUME NEW p, NEW q, NumbersInv(p, q), NEW x \in Turns, NEW n \in Nat \ {0},
         NEW s \in TakenStatuses, Written(x, n, s), Again(p, q, x, n),
         db.checkpoint[x] \notin Taken, s = "missing" => Missed(p, q, x, n)
  PROVE  NumbersInv(p, q)'
<1>1. NumbersOf(p, q, x)
  BY DEF NumbersInv
<1>2. /\ db'.number[x] = n /\ db'.checkpoint[x] = s /\ mem'.number[x] = n
      /\ mem'.checkpoint[x] # s => s = "missing" /\ mem.checkpoint[x] \in Taken
                                     /\ mem'.checkpoint[x] = mem.checkpoint[x]
      /\ s # "none" /\ (s # "missing" => s \in Taken)
  BY <1>1 DEF Written, NumbersOf, Again, Missed, Taken, TakenStatuses
<1>3. NumbersOf(p, q, x)'
  BY <1>1, <1>2 DEF NumbersOf, Again, Missed, Taken
<1>4. ASSUME NEW t \in Turns PROVE NumbersOf(p, q, t)'
  BY <1>3, OthersNumbers DEF NumbersInv
<1>5. Behind(p, q, x)' <=> p[x] # 0 /\ q[x] # 0 /\ n = p[x]
  BY <1>2 DEF Behind
<1>6. ASSUME NEW m, m # n, Masked(p, q, m)
      PROVE  Masked(p, q, m)'
  <2>1. PICK z \in Turns : Behind(p, q, z) /\ q[z] = m
    BY <1>6 DEF Masked
  <2>2. CASE z = x
    <3>1. n = p[x]
      BY <1>6, <2>1, <2>2 DEF Again
    <3> QED BY <1>5, <2>1, <2>2, <3>1 DEF Behind, Masked
  <2>3. CASE z # x
    <3>1. Behind(p, q, z)'
      BY <2>1, <2>3 DEF Behind, Written
    <3> QED BY <2>1, <3>1 DEF Masked
  <2> QED BY <2>2, <2>3
<1>7. Differ(p, q)'
  <2>1. ASSUME mem'.checkpoint[x] # s PROVE Masked(p, q, n)'
    <3>1. q[x] = 0 /\ n = p[x] /\ Masked(p, q, n)
      BY <1>2, <2>1 DEF Missed, Again
    <3>2. PICK z \in Turns : Behind(p, q, z) /\ q[z] = n
      BY <3>1 DEF Masked
    <3>3. z # x /\ Behind(p, q, z)'
      BY <3>1, <3>2 DEF Behind, Written
    <3> QED BY <3>2, <3>3 DEF Masked
  <2> QED BY <1>2, <1>4, <1>6, <2>1, WrittenDiffer DEF NumbersInv
<1>8. Kept(p, q)'
  <2> SUFFICES ASSUME NEW t \in Turns, NEW m \in {p[t], q[t]} \ {0}
               PROVE  (\E z \in Turns : db'.number[z] = m) \/ Masked(p, q, m)'
    BY DEF Kept
  <2>1. CASE m = n
    BY <1>2, <2>1
  <2>2. CASE m # n /\ Masked(p, q, m)
    BY <1>6, <2>2
  <2>3. ASSUME m # n, NEW z \in Turns \ {x}, db.number[z] = m
        PROVE  \E y \in Turns : db'.number[y] = m
    BY <2>3 DEF Written
  <2>4. CASE m # n /\ db.number[x] = m
    <3>1. m = q[x] /\ n = p[x]
      BY <1>1, <2>4 DEF NumbersOf, Again
    <3> QED BY <1>5, <3>1 DEF Masked
  <2> QED BY <2>1, <2>2, <2>3, <2>4 DEF NumbersInv, Kept
<1>9. Won(p, q)'
  <2> SUFFICES ASSUME NEW w \in Turns, p[w] # 0, Contested(p, q, w)'
               PROVE  Beaten(p, q, p[w])
    BY DEF Won, Beaten
  <2>1. CASE Contested(p, q, w)
    BY <2>1 DEF NumbersInv, Won
  <2>2. ASSUME ~Contested(p, q, w) PROVE FALSE
    <3>1. db.number[w] = p[w] /\ q[w] = 0 /\ db'.number[w] # p[w]
      BY <2>2 DEF Contested
    <3>2. w # x
      BY <1>2, <3>1 DEF Again
    <3>3. p[w] = n
      BY <3>1, <3>2 DEF Written
    <3> QED BY <2>2, <3>2, <3>3 DEF Contested, Again
  <2> QED BY <2>1, <2>2
<1> QED BY <1>4, <1>7, <1>8, <1>9 DEF NumbersInv

\* The first capture after a turn's end has a number of its own.
LEMMA FirstNumbers ==
  ASSUME NEW p, NEW q, NumbersInv(p, q), NEW x \in Turns, NEW n \in Nat \ {0},
         NEW s \in TakenStatuses, Written(x, n, s), ~Again(p, q, x, n), First(p, q, x, n),
         NEW q1, q1 = [q EXCEPT ![x] = n]
  PROVE  /\ NumbersInv(p, q1)'
         /\ Given(p, q1, n) => Beaten(p, q1, n)
         /\ \A m : m # 0 /\ m # n /\ Given(p, q1, m) => Given(p, q, m)
         /\ \A m : m # 0 /\ Beaten(p, q, m) => Beaten(p, q1, m)
<1>0. /\ p \in [Turns -> Nat] /\ q1 \in [Turns -> Nat] /\ q1[x] = n
      /\ \A t \in Turns : t # x => q1[t] = q[t]
  BY DEF NumbersInv
<1>1. /\ NumbersOf(p, q, x) /\ q[x] = 0 /\ db.number[x] = 0 /\ n # p[x]
  BY DEF NumbersInv, First, Again
<1>2. /\ db'.number[x] = n /\ db'.checkpoint[x] = s /\ s # "none"
      /\ \/ mem'.number[x] = n /\ mem'.checkpoint[x] = s
         \/ /\ mem'.number[x] = mem.number[x] /\ mem'.checkpoint[x] = mem.checkpoint[x]
            /\ mem.checkpoint[x] # "none" /\ mem.number[x] = p[x] /\ p[x] # 0
  BY <1>1 DEF Written, NumbersOf, Taken, TakenStatuses
<1>3. NumbersOf(p, q1, x)'
  BY <1>0, <1>1, <1>2 DEF NumbersOf, Behind
<1>4. ASSUME NEW t \in Turns PROVE NumbersOf(p, q1, t)'
  <2>1. CASE t = x
    BY <1>3, <2>1
  <2>2. CASE t # x
    <3>1. NumbersOf(p, q, t) /\ q1[t] = q[t]
      BY <1>0, <2>2 DEF NumbersInv
    <3> QED BY <2>2, <3>1, OthersNumbers
  <2> QED BY <2>1, <2>2
<1>5. ASSUME NEW m, Masked(p, q, m)
      PROVE  Masked(p, q1, m)'
  <2>1. PICK z \in Turns : Behind(p, q, z) /\ q[z] = m
    BY <1>5 DEF Masked
  <2>2. z # x
    BY <1>1, <2>1 DEF Behind
  <2>3. Behind(p, q1, z)' /\ q1[z] = m
    BY <1>0, <2>1, <2>2 DEF Behind, Written
  <2> QED BY <2>3 DEF Masked
<1>6. ASSUME NEW m, m # 0, Beaten(p, q, m)
      PROVE  Beaten(p, q1, m)
  <2>1. PICK v \in Turns : q[v] = m /\ \A w \in Turns : p[w] = m => v < w
    BY <1>6 DEF Beaten
  <2>2. q1[v] = m
    BY <1>0, <1>1, <1>6, <2>1
  <2> QED BY <2>1, <2>2 DEF Beaten
<1>7. Beaten(p, q1, n)
  <2>1. CASE Beaten(p, q, n)
    BY <1>6, <2>1
  <2>2. CASE ~Beaten(p, q, n)
    BY <1>0, <2>2 DEF First, Beaten
  <2> QED BY <2>1, <2>2
<1>8. Differ(p, q1)'
  <2>1. db'.number[x] = mem'.number[x] => db'.checkpoint[x] = mem'.checkpoint[x]
    BY <1>1, <1>2
  <2> QED BY <1>4, <1>5, <2>1, WrittenDiffer DEF NumbersInv
<1>9. Kept(p, q1)'
  <2> SUFFICES ASSUME NEW t \in Turns, NEW m \in {p[t], q1[t]} \ {0}
               PROVE  (\E z \in Turns : db'.number[z] = m) \/ Masked(p, q1, m)'
    BY DEF Kept
  <2>1. CASE m = n
    BY <1>2, <2>1
  <2>2. CASE m # n
    <3>1. m \in {p[t], q[t]} \ {0}
      BY <1>0, <2>2
    <3>2. ASSUME NEW z \in Turns, db.number[z] = m
          PROVE  db'.number[z] = m
      BY <1>1, <2>2, <3>1, <3>2 DEF Written
    <3> QED BY <1>5, <3>1, <3>2 DEF NumbersInv, Kept
  <2> QED BY <2>1, <2>2
<1>10. Won(p, q1)'
  <2> SUFFICES ASSUME NEW w \in Turns, p[w] # 0, Contested(p, q1, w)'
               PROVE  Beaten(p, q1, p[w])
    BY DEF Won, Beaten
  <2>1. CASE w = x
    BY <1>6, <2>1 DEF First
  <2>2. CASE Contested(p, q, w)
    BY <1>6, <2>2 DEF NumbersInv, Won
  <2>3. ASSUME w # x, ~Contested(p, q, w) PROVE p[w] = n
    <3>1. /\ db.number[w] = p[w] /\ q1[w] = 0
          /\ \A y \in Turns : (y # w => p[y] # p[w]) /\ q[y] # p[w]
      BY <1>0, <2>3 DEF Contested
    <3>2. db'.number[w] # p[w] \/ \E y \in Turns : q1[y] = p[w]
      BY <3>1 DEF Contested
    <3>3. CASE db'.number[w] # p[w]
      BY <2>3, <3>1, <3>3 DEF Written
    <3>4. ASSUME NEW y \in Turns, q1[y] = p[w] PROVE p[w] = n
      BY <1>0, <3>1, <3>4
    <3> QED BY <3>2, <3>3, <3>4
  <2> QED BY <1>7, <2>1, <2>2, <2>3
<1>11. NumbersInv(p, q1)'
  BY <1>0, <1>4, <1>8, <1>9, <1>10 DEF NumbersInv
<1>12. ASSUME NEW m, m # 0, m # n, Given(p, q1, m) PROVE Given(p, q, m)
  BY <1>0, <1>12 DEF Given
<1> QED BY <1>6, <1>7, <1>11, <1>12

\* A placeholder is written, of a turn that has no checkpoint.
LEMMA PlacedNumbers ==
  ASSUME NEW p, NEW q, NumbersInv(p, q), NEW x \in Turns, NEW n \in Nat \ {0},
         Written(x, n, "missing"), mem.checkpoint[x] = "none", db.checkpoint[x] = "none",
         Given(p, q, n) => Beaten(p, q, n), \A t \in Turns : q[t] # 0 => t < x,
         NEW p1, p1 = [p EXCEPT ![x] = n]
  PROVE  /\ NumbersInv(p1, q)'
         /\ p[x] = 0 /\ q[x] = 0
         /\ \A m : m # 0 /\ Beaten(p, q, m) => Beaten(p1, q, m)
         /\ \A m : Masked(p, q, m) => Masked(p1, q, m)'
<1>0. /\ p1 \in [Turns -> Nat] /\ q \in [Turns -> Nat] /\ p1[x] = n
      /\ \A t \in Turns : t # x => p1[t] = p[t]
  BY DEF NumbersInv
<1>1. /\ NumbersOf(p, q, x) /\ q[x] = 0 /\ p[x] = 0 /\ db.number[x] = 0
  BY DEF NumbersInv, NumbersOf
<1>2. /\ db'.number[x] = n /\ db'.checkpoint[x] = "missing"
      /\ mem'.number[x] = n /\ mem'.checkpoint[x] = "missing"
  BY <1>1 DEF Written, Taken
<1>3. NumbersOf(p1, q, x)'
  BY <1>0, <1>1, <1>2 DEF NumbersOf, Behind
<1>4. ASSUME NEW t \in Turns PROVE NumbersOf(p1, q, t)'
  <2>1. CASE t = x
    BY <1>3, <2>1
  <2>2. CASE t # x
    <3>1. NumbersOf(p, q, t) /\ p1[t] = p[t]
      BY <1>0, <2>2 DEF NumbersInv
    <3> QED BY <2>2, <3>1, OthersNumbers
  <2> QED BY <2>1, <2>2
<1>5. ASSUME NEW m, Masked(p, q, m)
      PROVE  Masked(p1, q, m)'
  <2>1. PICK z \in Turns : Behind(p, q, z) /\ q[z] = m
    BY <1>5 DEF Masked
  <2>2. z # x
    BY <1>1, <2>1 DEF Behind
  <2>3. Behind(p1, q, z)'
    BY <1>0, <2>1, <2>2 DEF Behind, Written
  <2> QED BY <2>1, <2>3 DEF Masked
<1>6. ASSUME NEW m, m # 0, Beaten(p, q, m)
      PROVE  Beaten(p1, q, m)
  <2>1. PICK v \in Turns : q[v] = m /\ \A w \in Turns : p[w] = m => v < w
    BY <1>6 DEF Beaten
  <2>2. v < x
    BY <1>6, <2>1
  <2>3. \A w \in Turns : p1[w] = m => v < w
    BY <1>0, <2>1, <2>2
  <2> QED BY <2>1, <2>3 DEF Beaten
<1>7. Differ(p1, q)'
  BY <1>2, <1>4, <1>5, WrittenDiffer DEF NumbersInv
<1>8. Kept(p1, q)'
  <2> SUFFICES ASSUME NEW t \in Turns, NEW m \in {p1[t], q[t]} \ {0}
               PROVE  (\E z \in Turns : db'.number[z] = m) \/ Masked(p1, q, m)'
    BY DEF Kept
  <2>1. CASE m = n
    BY <1>2, <2>1
  <2>2. CASE m # n
    <3>1. m \in {p[t], q[t]} \ {0}
      BY <1>0, <2>2
    <3>2. ASSUME NEW z \in Turns, db.number[z] = m
          PROVE  db'.number[z] = m
      BY <1>1, <2>2, <3>1, <3>2 DEF Written
    <3> QED BY <1>5, <3>1, <3>2 DEF NumbersInv, Kept
  <2> QED BY <2>1, <2>2
<1>9. Won(p1, q)'
  <2> SUFFICES ASSUME NEW w \in Turns, p1[w] # 0, Contested(p1, q, w)'
               PROVE  Beaten(p1, q, p1[w])
    BY DEF Won, Beaten
  <2>1. CASE w = x
    <3>1. \E y \in Turns : (y # x /\ p1[y] = n) \/ q[y] = n
      BY <1>0, <1>1, <1>2, <2>1 DEF Contested
    <3>2. Given(p, q, n)
      BY <1>0, <3>1 DEF Given
    <3> QED BY <1>0, <1>6, <2>1, <3>2
  <2>2. CASE w # x /\ Contested(p, q, w)
    <3>1. p1[w] = p[w]
      BY <1>0, <2>2
    <3> QED BY <1>6, <2>2, <3>1 DEF NumbersInv, Won
  <2>3. ASSUME w # x, ~Contested(p, q, w) PROVE Beaten(p1, q, p1[w])
    <3>1. /\ p1[w] = p[w] /\ db.number[w] = p[w] /\ q[w] = 0
          /\ \A y \in Turns : (y # w => p[y] # p[w]) /\ q[y] # p[w]
      BY <1>0, <2>3 DEF Contested
    <3>2. db'.number[w] # p[w] \/ \E y \in Turns : y # w /\ p1[y] = p[w]
      BY <3>1 DEF Contested
    <3>3. ASSUME db'.number[w] # p[w] PROVE p[w] = n
      BY <2>3, <3>1, <3>3 DEF Written
    <3>4. ASSUME NEW y \in Turns, y # w, p1[y] = p[w] PROVE p[w] = n
      BY <1>0, <3>1, <3>4
    <3>5. p[w] = n
      BY <3>2, <3>3, <3>4
    <3>6. Given(p, q, n)
      BY <3>5 DEF Given
    <3> QED BY <1>6, <3>1, <3>5, <3>6
  <2> QED BY <2>1, <2>2, <2>3
<1>10. NumbersInv(p1, q)'
  BY <1>0, <1>4, <1>7, <1>8, <1>9 DEF NumbersInv
<1> QED BY <1>1, <1>5, <1>6, <1>10

\* With distinct numbers nothing is masked: the first of the turns with a number
\* that is would have been beaten by one before it.
LEMMA DistinctAgree ==
  ASSUME TypeInv, NEW p, NEW q, NumbersInv(p, q), DistinctNumbers
  PROVE  db.checkpoint = mem.checkpoint
<1>1. ASSUME NEW z \in Turns, Behind(p, q, z)
      PROVE  FALSE
  <2> DEFINE B == {t \in Turns : Behind(p, q, t)}
  <2>1. B \subseteq Nat /\ B # {}
    BY <1>1, RecordTypes
  <2>2. PICK w \in B : \A y \in B : w <= y
    <3> HIDE DEF B
    <3> QED BY <2>1, SmallestNumber
  <2>3. Behind(p, q, w) /\ Contested(p, q, w) /\ p[w] # 0
    BY <2>2 DEF Behind, Contested
  <2>4. Beaten(p, q, p[w])
    BY <2>2, <2>3 DEF NumbersInv, Won
  <2>5. PICK v \in Turns : q[v] = p[w] /\ v < w
    BY <2>2, <2>4 DEF Beaten
  <2>6. v \notin B
    BY <2>1, <2>2, <2>5, RecordTypes
  <2>7. mem.number[v] = q[v]
    BY <2>3, <2>5, <2>6 DEF NumbersInv, NumbersOf, Behind
  <2>8. v # w
    BY <2>2, <2>6
  <2> QED BY <2>2, <2>3, <2>5, <2>7, <2>8 DEF DistinctNumbers, Behind
<1>2. \A n : ~Masked(p, q, n)
  BY <1>1 DEF Masked
<1>3. ASSUME NEW t \in Turns
      PROVE  db.checkpoint[t] = mem.checkpoint[t]
  <2>1. NumbersOf(p, q, t)
    BY DEF NumbersInv
  <2>2. CASE mem.number[t] = 0
    BY <1>1, <2>1, <2>2 DEF NumbersOf
  <2>3. CASE mem.number[t] # 0
    <3>1. mem.number[t] \in {p[t], q[t]} \ {0}
      BY <2>1, <2>3 DEF NumbersOf
    <3>2. PICK z \in Turns : db.number[z] = mem.number[t]
      BY <1>2, <3>1 DEF NumbersInv, Kept
    <3>3. mem.number[z] = db.number[z]
      BY <1>1, <2>3, <3>2 DEF NumbersInv, NumbersOf
    <3>4. z = t
      BY <2>3, <3>2, <3>3 DEF DistinctNumbers
    <3> QED BY <1>2, <3>2, <3>4 DEF NumbersInv, Differ
  <2> QED BY <2>2, <2>3
<1>4. /\ db.checkpoint \in [Turns -> CheckpointStatuses]
      /\ mem.checkpoint \in [Turns -> CheckpointStatuses]
  BY ProjectionTypes DEF Memory, Tables
<1> QED BY <1>3, <1>4

-----------------------------------------------------------------------------
\* A placeholder in the queue.
LEMMA EndsAppend ==
  ASSUME TypeInv, EndedOnce, NEW c \in Placeholders, captures' = Append(captures, c),
         capturing' \in {capturing, Nothing}, running' = running, turns' = turns
  PROVE  EndedOnce' /\ \A t \in Turns : Ending(t)' => Ending(t)
<1>1. captures \in Seq(EndedEvents \cup Placeholders) /\ c.kind = "placeholder"
  BY DEF TypeInv, CapturesTyped, Placeholders
<1>2. PICK n \in Nat : n = Len(captures)
  BY <1>1
<1>3. /\ Len(captures') = n + 1 /\ captures'[n + 1] = c
      /\ \A i \in 1..n : captures'[i] = captures[i]
  BY <1>1, <1>2
<1>4. ASSUME NEW i \in 1..Len(captures'), captures'[i].kind = "ended"
      PROVE  i \in 1..n /\ captures'[i] = captures[i]
  BY <1>1, <1>3, <1>4
<1>5. \A d \in Items' : d.kind = "ended" => d \in Items
  BY <1>2, <1>4 DEF Items
<1> QED BY <1>2, <1>4, <1>5 DEF EndedOnce, Ending

\* The head of the queue is taken.
LEMMA EndsTaken ==
  ASSUME TypeInv, EndedOnce, capturing = Nothing, captures # <<>>,
         captures' = Tail(captures),
         capturing' # Nothing => capturing'.kind = "capture",
         running' = running, turns' = turns
  PROVE  /\ EndedOnce' /\ \A t \in Turns : Ending(t)' => Ending(t)
         /\ \A x \in Turns : x = Head(captures).turn /\ Head(captures).kind = "ended" =>
              Ending(x) /\ (Ending(x)' => x > turns \/ x = running)
<1>1. captures \in Seq(EndedEvents \cup Placeholders)
  BY DEF TypeInv, CapturesTyped
<1>2. PICK n \in Nat : n = Len(captures) /\ n >= 1
  BY <1>1
<1>3. /\ Len(captures') = n - 1 /\ Head(captures) = captures[1]
      /\ \A i \in 1..(n - 1) : captures'[i] = captures[i + 1]
  BY <1>1, <1>2
<1>4. ASSUME NEW i \in 1..Len(captures')
      PROVE  i + 1 \in 2..n /\ captures'[i] = captures[i + 1]
  BY <1>2, <1>3
<1>5. \A d \in Items' : d.kind = "ended" =>
        \E i \in 2..n : d = captures[i]
  BY <1>4 DEF Items
<1>6. \A i \in 2..n : i \in 1..n /\ i # 1
  OBVIOUS
<1>7. \A d \in Items' : d.kind = "ended" => d \in Items
  BY <1>2, <1>5, <1>6 DEF Items
<1>8. EndedOnce'
  <2>1. ASSUME NEW i \in 1..Len(captures'), NEW j \in 1..Len(captures'), i # j,
               captures'[i].kind = "ended", captures'[j].kind = "ended"
        PROVE  captures'[i].turn # captures'[j].turn
    <3>1. i + 1 # j + 1
      BY <1>2, <1>3, <2>1
    <3> QED BY <1>2, <1>4, <1>6, <2>1, <3>1 DEF EndedOnce
  <2> QED BY <1>7, <2>1 DEF EndedOnce
<1>9. Head(captures).kind = "ended" =>
        \A d \in Items' : d.kind = "ended" => d.turn # Head(captures).turn
  BY <1>2, <1>3, <1>5, <1>6 DEF EndedOnce
<1>10. Head(captures) \in Items
  BY <1>2, <1>3, <1>6 DEF Items
<1>11. \A t \in Turns : Ending(t)' => Ending(t)
  BY <1>7 DEF Ending
<1>12. ASSUME NEW x \in Turns, x = Head(captures).turn, Head(captures).kind = "ended"
       PROVE  Ending(x) /\ (Ending(x)' => x > turns \/ x = running)
  BY <1>9, <1>10, <1>12 DEF Ending
<1> QED BY <1>8, <1>11, <1>12

LEMMA EndsKept ==
  ASSUME TypeInv, KnownInv, EndedOnce, [SteadyNext]_vars
  PROVE  EndedOnce' /\ \A t \in Turns : Ending(t)' => Ending(t)
<1>0. /\ \A c \in Items : c.turn <= turns /\ c.turn \in Nat /\ c.turn # NoTurn
      /\ \A t \in Turns : t \in Nat
      /\ turns \in Nat
  BY ItemsTyped, RecordTypes, ProjectionTypes DEF KnownInv, QueueInv, ItemsPast
<1>1. CASE UNCHANGED <<captures, capturing, turns, running>>
  BY <1>1 DEF EndedOnce, Ending, Items
<1>2. ASSUME NEW r \in Requests, SendTurn(r)
      PROVE  EndedOnce' /\ \A t \in Turns : Ending(t)' => Ending(t)
  <2>1. /\ turns' = turns + 1 /\ running' = turns + 1
        /\ captures' = captures /\ capturing' = capturing
    BY <1>2 DEF SendTurn, checkpoints
  <2>2. Items' = Items
    BY <2>1 DEF Items
  <2>3. \A c \in Items : c.turn # turns + 1
    BY <1>0
  <2>4. \A t \in Turns : t > turns + 1 \/ t = turns + 1 => t > turns
    BY <1>0
  <2> QED BY <2>1, <2>2, <2>3, <2>4 DEF EndedOnce, Ending
<1>3. ASSUME NEW o \in Endings, ProviderEnds(o)
      PROVE  EndedOnce' /\ \A t \in Turns : Ending(t)' => Ending(t)
  <2> DEFINE e == [kind |-> "ended", turn |-> running, outcome |-> o, at |-> Now]
  <2>1. /\ captures' = Append(captures, e) /\ capturing' = capturing
        /\ running # NoTurn /\ running' = NoTurn /\ turns' = turns
    BY <1>3 DEF ProviderEnds
  <2>2. e \in EndedEvents /\ e.turn = running
    BY <2>1, Clocked, RunningTurn, ThreadAssumption DEF EndedEvents, EndOutcomes, Endings
  <2> HIDE DEF e
  <2>3. Items' = Items \cup {e}
    BY <2>1, <2>2, ItemsAppend DEF Items
  <2>4. captures \in Seq(EndedEvents \cup Placeholders)
    BY DEF TypeInv, CapturesTyped
  <2>5. PICK n \in Nat : n = Len(captures)
    BY <2>4
  <2>6. /\ Len(captures') = n + 1 /\ captures'[n + 1] = e
        /\ \A i \in 1..n : captures'[i] = captures[i]
    BY <2>1, <2>4, <2>5
  <2>7. \A i \in 1..n : captures[i] \in Items
    BY <2>5 DEF Items
  <2>8. \A i \in 1..Len(captures') : i \in 1..n \/ i = n + 1
    BY <2>6
  <2>9. ASSUME NEW i \in 1..Len(captures'), NEW j \in 1..Len(captures'), i # j,
               captures'[i].kind = "ended", captures'[j].kind = "ended"
        PROVE  captures'[i].turn # captures'[j].turn
    <3>1. CASE i \in 1..n /\ j \in 1..n
      BY <2>5, <2>6, <2>9, <3>1 DEF EndedOnce
    <3>2. ASSUME NEW k \in 1..n, captures[k].kind = "ended"
          PROVE  captures[k].turn # e.turn
      BY <2>2, <2>7, <3>2 DEF EndedOnce
    <3> QED BY <2>6, <2>8, <2>9, <3>1, <3>2
  <2>10. \A c \in Items' : c.kind = "ended" => c.turn # running'
    BY <1>0, <2>1, <2>2, <2>3
  <2>11. EndedOnce'
    BY <2>9, <2>10 DEF EndedOnce
  <2>12. \A t \in Turns : t # NoTurn
    BY RecordTypes
  <2> QED BY <2>1, <2>2, <2>3, <2>11, <2>12 DEF Ending
<1>4. CASE IngestDiff
  <2> DEFINE c == [kind |-> "placeholder", turn |-> ingesting.event.turn,
                   number |-> ingesting.number, at |-> ingesting.event.at]
  <2>1. /\ captures' \in {captures, Append(captures, c)} /\ ingesting # Nothing
        /\ UNCHANGED <<capturing, turns, running>>
    BY <1>4 DEF IngestDiff, provider
  <2>2. c \in Placeholders
    BY <2>1, IngestedEvent DEF Placeholders
  <2> HIDE DEF c
  <2> QED BY <1>1, <2>1, <2>2, EndsAppend
<1>5. CASE CaptureWrites
  <2> DEFINE c == [kind |-> "placeholder", turn |-> capturing.turn,
                   number |-> capturing.number, at |-> capturing.at]
  <2>1. /\ captures' \in {captures, Append(captures, c)} /\ capturing # Nothing
        /\ capturing' = Nothing /\ UNCHANGED <<turns, running>>
    BY <1>5 DEF CaptureWrites, provider
  <2>2. c \in Placeholders
    BY <2>1 DEF TypeInv, CapturesTyped, Captures, Placeholders
  <2> HIDE DEF c
  <2>3. captures' = captures => Items' \subseteq Items
    BY <2>1 DEF Items
  <2>4. CASE captures' = captures
    BY <2>1, <2>3, <2>4 DEF EndedOnce, Ending
  <2> QED BY <2>1, <2>2, <2>4, EndsAppend
<1>6. CASE CaptureFails
  <2>1. Items' \subseteq Items /\ UNCHANGED <<captures, turns, running>>
    BY <1>6 DEF CaptureFails, Items, provider
  <2> QED BY <2>1 DEF EndedOnce, Ending
<1>7. CASE CaptureCompletion \/ CaptureGivenUp \/ CapturePlaceholder
  BY <1>7, EndsTaken
  DEF CaptureCompletion, CaptureGivenUp, CapturePlaceholder, Capture, provider
<1>8. \A r \in Requests : CallStep(r) /\ ~SendTurn(r) =>
        UNCHANGED <<captures, capturing, turns, running>>
  BY DEF CallStep, SendSteers, CallFails, SteerTurn, SteerBecomesSend, StartFailed,
         MarkSteered, MarkReads, MarkWrites, provider, checkpoints
<1>9. OperatorStep \/ ReactorStep \/ ProviderDiff \/ IngestReads \/ IngestLifecycle
        \/ UNCHANGED vars => UNCHANGED <<captures, capturing, turns, running>>
  BY DEF OperatorStep, StartTurn, Interrupt, ReactorStep, ReactStart, ReactInterrupt,
         ProviderDiff, IngestReads, IngestLifecycle, vars, provider, checkpoints
<1> QED BY <1>1, <1>2, <1>3, <1>4, <1>5, <1>6, <1>7, <1>8, <1>9
        DEF SteadyNext, SteadyProvider, SteadyIngestion, CheckpointStep

-----------------------------------------------------------------------------
\* The next number is above those of the tables, and may have been given before.
LEMMA NextNumber ==
  ASSUME TypeInv, Turns # {}, NEW p, NEW q, NumbersInv(p, q), NEW n, n = LastNumber + 1
  PROVE  /\ n \in Nat \ {0} /\ \A t \in Turns : db.number[t] # n
         /\ \A w \in Turns : p[w] = n => Beaten(p, q, n)
         /\ Given(p, q, n) => Beaten(p, q, n) /\ Masked(p, q, n)
<1>1. n \in Nat \ {0} /\ \A t \in Turns : db.number[t] # n
  <2>1. LastNumber \in Nat /\ \A t \in Turns : db.number[t] <= LastNumber
    BY LastNumberTyped DEF TypeInv, ProjectionsTyped
  <2> QED BY <2>1
<1>2. ASSUME NEW w \in Turns, p[w] = n PROVE Beaten(p, q, n)
  <2>1. Contested(p, q, w)
    BY <1>1, <1>2 DEF Contested
  <2> QED BY <1>1, <1>2, <2>1 DEF NumbersInv, Won
<1>3. Given(p, q, n) => Masked(p, q, n)
  BY <1>1 DEF Given, NumbersInv, Kept
<1>4. ASSUME Masked(p, q, n), \A w \in Turns : p[w] # n PROVE Beaten(p, q, n)
  BY <1>4 DEF Masked, Beaten
<1> QED BY <1>1, <1>2, <1>3, <1>4

\* A step that writes no checkpoint.
LEMMA QuietGiven ==
  ASSUME NEW p, NEW q, NumbersInv(p, q), HandlersInv(p, q),
         db'.checkpoint = db.checkpoint, db'.number = db.number,
         mem'.checkpoint = mem.checkpoint, mem'.number = mem.number,
         \A t \in Turns : Ending(t)' => Ending(t), receipts \subseteq receipts',
         \A c \in Items' : c.kind = "placeholder" => c \in Items,
         ingesting' \in {ingesting, Nothing} \/ IngestingNumber(p, q)',
         capturing' \in {capturing, Nothing} \/ CapturingNumber(p, q)',
         capturing # Nothing => capturing.turn \in Turns
  PROVE  NumbersInv(p, q)' /\ HandlersInv(p, q)'
<1>1. \A t \in Turns : Behind(p, q, t)' <=> Behind(p, q, t)
  BY DEF Behind
<1>2. \A n : Masked(p, q, n)' <=> Masked(p, q, n)
  BY <1>1 DEF Masked
<1>3. NumbersInv(p, q)'
  <2>1. \A t \in Turns : NumbersOf(p, q, t)'
    BY <1>1 DEF NumbersInv, NumbersOf
  <2>2. Differ(p, q)' /\ Kept(p, q)'
    BY <1>1 DEF NumbersInv, Differ, Kept, Masked
  <2>3. Won(p, q)'
    BY DEF NumbersInv, Won, Contested, Beaten
  <2> QED BY <2>1, <2>2, <2>3 DEF NumbersInv
<1>4. PlacedItems(p, q)'
  BY DEF HandlersInv, PlacedItems
<1>5. EndedFirst(p, q)'
  BY DEF HandlersInv, EndedFirst
<1>6. IngestingNumber(p, q)'
  BY DEF HandlersInv, IngestingNumber, Given, Beaten
<1>7. CapturingNumber(p, q)'
  <2>1. ASSUME capturing' = capturing, capturing # Nothing,
               NEW x \in Turns, x = capturing.turn, NEW n, n = capturing.number
        PROVE  /\ Again(p, q, x, n) \/ First(p, q, x, n)'
               /\ capturing.status = "missing" => Missed(p, q, x, n)'
    <3>1. /\ Again(p, q, x, n) \/ First(p, q, x, n)
          /\ capturing.status = "missing" => Missed(p, q, x, n)
      BY <2>1 DEF HandlersInv, CapturingNumber
    <3>2. First(p, q, x, n) => First(p, q, x, n)'
      BY DEF First, Beaten
    <3>3. Missed(p, q, x, n) => Missed(p, q, x, n)'
      BY <1>2 DEF Missed
    <3> QED BY <3>1, <3>2, <3>3
  <2> QED BY <2>1 DEF CapturingNumber, First, Missed, Again, Masked, Behind, Beaten, Ending, Items
<1> QED BY <1>3, <1>4, <1>5, <1>6, <1>7 DEF HandlersInv

\* CheckpointReactor takes the completion of a turn: the capture has the number
\* of the placeholder that the tables have, or the next one.
LEMMA CompletionGiven ==
  ASSUME TypeInv, KnownInv, CheckInv, EndedOnce, NEW p, NEW q, NumbersInv(p, q),
         HandlersInv(p, q), CaptureCompletion
  PROVE  capturing' = Nothing \/ CapturingNumber(p, q)'
<1> DEFINE e == Head(captures)
<1>1. /\ capturing = Nothing /\ captures # <<>> /\ captures' = Tail(captures)
      /\ e.kind = "ended" /\ e.turn \in receipts
      /\ capturing' # Nothing => ~Captured(e.turn) /\ capturing' =
           Capture(e.turn, CaptureNumber(e.turn), CheckpointStatus(e.outcome), e.at)
      /\ UNCHANGED <<mem, db, turns, running, receipts>>
  BY DEF CaptureCompletion, provider, ingestion
<1>2. e \in Items
  BY <1>1, ItemsTaken
<1>3. e.turn \in Turns
  BY <1>2, ItemsTyped
<1>4. SUFFICES ASSUME capturing' # Nothing, NEW x \in Turns, x = e.turn,
                      NEW n, n = CaptureNumber(e.turn)
               PROVE  CapturingNumber(p, q)'
  BY <1>3
<1> HIDE DEF e
<1>5. /\ Ending(x) /\ ~Ending(x)'
  <2>1. Ending(x) /\ (Ending(x)' => x > turns \/ x = running)
    BY <1>1, <1>4, EndsTaken DEF Capture, e
  <2>2. x \in 1..turns /\ turns \in Nat /\ x \in Nat
    BY <1>1, <1>4, ProjectionTypes, RecordTypes DEF TypeInv, ReceiptsTyped
  <2>3. x # running
    BY <1>1, <1>4, <2>2 DEF KnownInv, QueueInv, ProviderRuns, NoTurn
  <2> QED BY <2>1, <2>2, <2>3
<1>6. q[x] = 0
  BY <1>5 DEF HandlersInv, EndedFirst
<1>7. NumbersOf(p, q, x)
  BY DEF NumbersInv
<1>8. db.checkpoint[x] \notin {"ready", "error"} /\ db.checkpoint[x] \in CheckpointStatuses
  BY <1>1, <1>4, ProjectionTypes DEF Captured, Tables
<1>9. ASSUME Again(p, q, x, n) \/ First(p, q, x, n)',
             mem.checkpoint[x] \in Taken => n # p[x] \/ Masked(p, q, n)
      PROVE  CapturingNumber(p, q)'
  <2>1. capturing'.turn = x /\ capturing'.number = n
    BY <1>1, <1>4 DEF Capture
  <2>2. Masked(p, q, n) => Masked(p, q, n)'
    BY <1>1 DEF Masked, Behind
  <2>3. Missed(p, q, x, n)'
    BY <1>1, <1>5, <1>6, <1>9, <2>2 DEF Missed
  <2> QED BY <1>9, <2>1, <2>3
          DEF CapturingNumber, Again, First, Missed, Masked, Behind, Beaten, Ending, Items
<1>10. CASE db.checkpoint[x] = "missing"
  <2>1. n = db.number[x] /\ n # 0
    BY <1>4, <1>7, <1>10 DEF CaptureNumber, NumbersOf
  <2>2. n = p[x]
    BY <1>6, <1>7, <2>1 DEF NumbersOf
  <2>3. mem.checkpoint[x] = "missing"
    BY <1>5, <1>10 DEF HandlersInv, EndedFirst
  <2> QED BY <1>9, <2>2, <2>3 DEF Again, Taken
<1>11. CASE db.checkpoint[x] = "none"
  <2>1. n = LastNumber + 1 /\ db.number[x] = 0
    BY <1>4, <1>7, <1>11 DEF CaptureNumber, NumbersOf
  <2>2. /\ n \in Nat \ {0}
        /\ \A w \in Turns : p[w] = n => Beaten(p, q, n)
        /\ Given(p, q, n) => Masked(p, q, n)
    BY <2>1, NextNumber
  <2>3. CASE n = p[x]
    BY <1>9, <2>2, <2>3 DEF Again, Given
  <2>4. CASE n # p[x]
    <3>1. p[x] # 0 => Beaten(p, q, p[x])
      BY <2>1 DEF NumbersInv, Won, Contested
    <3>2. First(p, q, x, n)'
      BY <1>1, <1>4, <1>5, <1>6, <2>1, <2>2, <3>1 DEF First, Beaten
    <3> QED BY <1>9, <2>4, <3>2
  <2> QED BY <2>3, <2>4
<1> QED BY <1>8, <1>10, <1>11 DEF CheckpointStatuses

LEMMA TakenGiven ==
  ASSUME TypeInv, KnownInv, CheckInv, EndedOnce, [SteadyNext]_vars, NEW p, NEW q,
         NumbersInv(p, q), HandlersInv(p, q), CaptureCompletion \/ CapturePlaceholder
  PROVE  NumbersInv(p, q)' /\ HandlersInv(p, q)'
<1>1. /\ capturing = Nothing /\ captures # <<>> /\ captures' = Tail(captures)
      /\ capturing' # Nothing => capturing'.kind = "capture"
      /\ UNCHANGED <<mem, db, turns, running, ingesting, receipts>>
  BY DEF CaptureCompletion, CapturePlaceholder, Capture, provider, ingestion
<1>2. /\ Head(captures) \in Items
      /\ Items' \subseteq Items \cup (IF capturing' = Nothing THEN {} ELSE {capturing'})
  BY <1>1, ItemsTaken
<1>3. \A c \in Items' : c.kind = "placeholder" => c \in Items
  BY <1>1, <1>2
<1>4. \A t \in Turns : Ending(t)' => Ending(t)
  BY EndsKept
<1>5. capturing' = Nothing \/ CapturingNumber(p, q)'
  <2>1. CASE CaptureCompletion
    BY <2>1, CompletionGiven
  <2>2. CASE CapturePlaceholder /\ capturing' # Nothing
    <3> DEFINE e == Head(captures)
    <3>1. e.kind = "placeholder" /\ capturing' = Capture(e.turn, e.number, "ready", e.at)
      BY <2>2 DEF CapturePlaceholder
    <3>2. e.number \in {p[e.turn], q[e.turn]}
      BY <1>2, <3>1 DEF HandlersInv, PlacedItems
    <3> HIDE DEF e
    <3>3. /\ capturing'.status # "missing"
          /\ capturing'.number \in {p[capturing'.turn], q[capturing'.turn]}
      BY <3>1, <3>2 DEF Capture
    <3> QED BY <3>3 DEF CapturingNumber, Again
  <2> QED BY <2>1, <2>2
<1> QED BY <1>1, <1>3, <1>4, <1>5, QuietGiven

\* Ingestion reads the session.
LEMMA ReadsGiven ==
  ASSUME TypeInv, KnownInv, EndedOnce, [SteadyNext]_vars, NEW p, NEW q,
         NumbersInv(p, q), HandlersInv(p, q), IngestReads
  PROVE  NumbersInv(p, q)' /\ HandlersInv(p, q)'
<1>1. /\ ingesting'.number = LastNumber + 1 /\ reported # <<>>
      /\ UNCHANGED <<mem, db, captures, capturing, receipts>>
  BY DEF IngestReads, checkpoints
<1>2. Turns # {}
  <2>1. reported \in Seq(ProviderEvents) /\ reported # <<>>
    BY <1>1 DEF TypeInv, ReportedTyped
  <2>2. Head(reported) \in ProviderEvents
    BY <2>1
  <2> QED BY <2>2 DEF ProviderEvents, EndedEvents
<1>3. PICK n : n = LastNumber + 1
  OBVIOUS
<1>4. Given(p, q, n) => Beaten(p, q, n)
  BY <1>2, <1>3, NextNumber
<1>5. IngestingNumber(p, q)'
  BY <1>1, <1>3, <1>4 DEF IngestingNumber, Given, Beaten
<1>6. Items' = Items
  BY <1>1 DEF Items
<1>7. \A t \in Turns : Ending(t)' => Ending(t)
  BY EndsKept
<1>8. capturing # Nothing => capturing.turn \in Turns
  BY DEF TypeInv, CapturesTyped, Captures
<1> QED BY <1>1, <1>5, <1>6, <1>7, <1>8, QuietGiven

\* Ingestion writes a placeholder, unless the turn has a checkpoint.
LEMMA DiffGiven ==
  ASSUME TypeInv, KnownInv, CheckInv, EndedOnce, [SteadyNext]_vars, NEW p, NEW q,
         NumbersInv(p, q), HandlersInv(p, q), IngestDiff
  PROVE  \E p1 \in [Turns -> Nat] : NumbersInv(p1, q)' /\ HandlersInv(p1, q)'
<1> DEFINE e == ingesting.event
           c == [kind |-> "placeholder", turn |-> e.turn, number |-> ingesting.number,
                 at |-> e.at]
<1>0. p \in [Turns -> Nat] /\ q \in [Turns -> Nat]
  BY DEF NumbersInv
<1>1. /\ ingesting # Nothing /\ ingesting' = Nothing /\ e.kind = "diff" /\ e \in Ahead
      /\ UNCHANGED <<turns, running, capturing, receipts>>
  BY DEF IngestDiff, provider, Ahead
<1>2. \A t \in Turns : Ending(t)' => Ending(t)
  BY EndsKept
<1>3. CASE UNCHANGED <<mem, db, captures>>
  <2>1. Items' = Items
    BY <1>1, <1>3 DEF Items
  <2>2. capturing # Nothing => capturing.turn \in Turns
    BY DEF TypeInv, CapturesTyped, Captures
  <2> QED BY <1>0, <1>1, <1>2, <1>3, <2>1, <2>2, QuietGiven
<1>4. CASE /\ Project(DiffCompleted(e.turn, ingesting.number, "missing", e.at))
           /\ captures' = Append(captures, c)
  <2>1. PICK x \in Turns, n \in Nat \ {0}, at \in Instants :
          x = e.turn /\ n = ingesting.number /\ at = e.at
    BY <1>1, IngestedEvent DEF CheckInv, Numbered
  <2>2. Written(x, n, "missing")
    BY <1>4, <2>1, ProjectWrites DEF TakenStatuses
  <2>3. /\ db.checkpoint[x] = "none" /\ mem.checkpoint[x] = "none"
        /\ \A d \in Items : d.kind # "ended" => d.turn # x
    BY <1>1, <2>1 DEF CheckInv, FreshInv, Undiffed, Fresh
  <2>4. \A t \in receipts : t < x
    BY <1>1, <2>1 DEF KnownInv, QueueInv, ReceiptsPast
  <2>5. /\ \A t \in Turns : q[t] # 0 => t < x
        /\ Given(p, q, n) => Beaten(p, q, n)
    BY <1>1, <2>1, <2>4 DEF HandlersInv, EndedFirst, IngestingNumber
  <2> DEFINE p1 == [p EXCEPT ![x] = n]
  <2>6. /\ NumbersInv(p1, q)'
        /\ p[x] = 0 /\ q[x] = 0
        /\ \A m : m # 0 /\ Beaten(p, q, m) => Beaten(p1, q, m)
        /\ \A m : Masked(p, q, m) => Masked(p1, q, m)'
    <3> HIDE DEF p1
    <3> QED BY <2>2, <2>3, <2>5, PlacedNumbers DEF p1
  <2>7. p1 \in [Turns -> Nat] /\ p1[x] = n /\ \A t \in Turns : t # x => p1[t] = p[t]
    BY <1>0
  <2>8. c \in Placeholders /\ c.turn = x /\ c.number = n
    BY <2>1 DEF Placeholders
  <2> HIDE DEF p1, e, c
  <2>9. Items' = Items \cup {c}
    BY <1>1, <1>4, <2>8, ItemsAppend DEF Items
  <2>10. PlacedItems(p1, q)'
    BY <2>3, <2>7, <2>8, <2>9, ItemsTyped DEF HandlersInv, PlacedItems
  <2>11. EndedFirst(p1, q)'
    <3> SUFFICES ASSUME NEW t \in Turns
                 PROVE  /\ q[t] # 0 => t \in receipts' /\ ~Ending(t)'
                        /\ Ending(t)' /\ db'.checkpoint[t] = "missing"
                             => mem'.checkpoint[t] = "missing"
      BY DEF EndedFirst
    <3>1. /\ q[t] # 0 => t \in receipts /\ ~Ending(t)
          /\ Ending(t) /\ db.checkpoint[t] = "missing" => mem.checkpoint[t] = "missing"
      BY DEF HandlersInv, EndedFirst
    <3>2. db'.checkpoint[t] = "missing" =>
            mem'.checkpoint[t] = "missing" \/ (db.checkpoint[t] = "missing"
                                                 /\ mem'.checkpoint[t] = mem.checkpoint[t])
      BY <2>2, <2>3 DEF Written, Taken
    <3> QED BY <1>1, <1>2, <3>1, <3>2
  <2>12. IngestingNumber(p1, q)'
    BY <1>1 DEF IngestingNumber
  <2>13. CapturingNumber(p1, q)'
    <3> SUFFICES ASSUME capturing # Nothing, NEW y, y = capturing.turn,
                        NEW m, m = capturing.number
                 PROVE  /\ Again(p1, q, y, m) \/ First(p1, q, y, m)'
                        /\ capturing.status = "missing" => Missed(p1, q, y, m)'
      BY <1>1 DEF CapturingNumber, Again, First, Missed, Masked, Behind, Beaten, Ending, Items
    <3>1. capturing \in Items /\ capturing \in Captures
      BY DEF Items, TypeInv, CapturesTyped
    <3>2. y \in Turns /\ y # x /\ m # 0
      BY <2>3, <3>1 DEF Captures, CheckInv, Numbered
    <3>3. p1[y] = p[y]
      BY <2>7, <3>2
    <3>4. First(p, q, y, m) => First(p1, q, y, m)'
      <4> SUFFICES ASSUME First(p, q, y, m)
                   PROVE  First(p1, q, y, m)'
        OBVIOUS
      <4>1. q[y] = 0 /\ db'.number[y] = 0 /\ y \in receipts' /\ ~Ending(y)'
        BY <1>1, <1>2, <2>2, <3>2 DEF First, Written
      <4>2. p1[y] # 0 => Beaten(p1, q, p1[y])
        BY <2>6, <3>3 DEF First
      <4>3. ASSUME NEW w \in Turns, p1[w] = m PROVE Beaten(p1, q, m) \/ y < w
        <5>1. CASE w = x
          BY <2>4, <5>1 DEF First
        <5>2. CASE w # x
          BY <2>6, <2>7, <3>2, <4>3, <5>2 DEF First
        <5> QED BY <5>1, <5>2
      <4> QED BY <4>1, <4>2, <4>3 DEF First, Beaten
    <3>5. Missed(p, q, y, m) => Missed(p1, q, y, m)'
      BY <1>2, <2>2, <2>6, <3>2, <3>3 DEF Missed, Written
    <3> QED BY <3>3, <3>4, <3>5 DEF HandlersInv, CapturingNumber, Again
  <2> QED BY <2>6, <2>7, <2>10, <2>11, <2>12, <2>13 DEF HandlersInv
<1> QED BY <1>3, <1>4 DEF IngestDiff

\* The capture writes its checkpoint.
LEMMA WritesGiven ==
  ASSUME TypeInv, KnownInv, CheckInv, NotRecaptured, EndedOnce, [SteadyNext]_vars, NEW p, NEW q,
         NumbersInv(p, q), HandlersInv(p, q), CaptureWrites
  PROVE  \E q1 \in [Turns -> Nat] : NumbersInv(p, q1)' /\ HandlersInv(p, q1)'
<1> DEFINE c == [kind |-> "placeholder", turn |-> capturing.turn,
                 number |-> capturing.number, at |-> capturing.at]
<1>1. /\ capturing # Nothing /\ capturing' = Nothing
      /\ captures' \in {captures, Append(captures, c)}
      /\ Project(DiffCompleted(capturing.turn, capturing.number, capturing.status,
                               capturing.at))
      /\ UNCHANGED <<turns, running, ingesting, receipts>>
  BY DEF CaptureWrites, provider, ingestion
<1>2. capturing \in Captures /\ capturing \in Items
  BY <1>1 DEF TypeInv, CapturesTyped, Items
<1>3. PICK x \in Turns, n \in Nat \ {0}, s \in TakenStatuses, at \in Instants :
        x = capturing.turn /\ n = capturing.number /\ s = capturing.status
          /\ at = capturing.at
  BY <1>2 DEF Captures, CheckInv, Numbered
<1>4. Written(x, n, s)
  BY <1>1, <1>3, ProjectWrites
<1>5. /\ Again(p, q, x, n) \/ First(p, q, x, n)
      /\ s = "missing" => Missed(p, q, x, n)
      /\ db.checkpoint[x] \notin Taken
  BY <1>1, <1>3 DEF HandlersInv, CapturingNumber, NotRecaptured, Captured, Taken
<1>6. c \in Placeholders /\ c.turn = x /\ c.number = n
  BY <1>3 DEF Placeholders
<1> HIDE DEF c
<1>7. Items' \subseteq Items \cup {c}
  <2>1. CASE captures' = captures
    BY <1>1, <2>1 DEF Items
  <2>2. CASE captures' = Append(captures, c)
    BY <1>1, <1>6, <2>2, ItemsAppend DEF Items
  <2> QED BY <1>1, <2>1, <2>2
<1>8. \A t \in Turns : Ending(t)' => Ending(t)
  BY EndsKept
<1>9. ASSUME NEW q1 \in [Turns -> Nat], NumbersInv(p, q1)', q1[x] # 0 => q1[x] = q[x] \/
               (x \in receipts /\ ~Ending(x)),
             n \in {p[x], q1[x]},
             \A t \in Turns : t # x => q1[t] = q[t],
             q1[x] = q[x] \/ q[x] = 0,
             \A m : m # 0 /\ Given(p, q1, m) /\ (Given(p, q, m) => Beaten(p, q, m))
               => Beaten(p, q1, m)
      PROVE  HandlersInv(p, q1)'
  <2>1. PlacedItems(p, q1)'
    <3> SUFFICES ASSUME NEW d \in Items', d.kind = "placeholder"
                 PROVE  d.number \in {p[d.turn], q1[d.turn]}
      BY DEF PlacedItems
    <3>1. CASE d = c
      BY <1>6, <1>9, <3>1
    <3>2. CASE d \in Items
      <4>1. d.number \in {p[d.turn], q[d.turn]} /\ d.number # 0
        BY <3>2 DEF HandlersInv, PlacedItems, CheckInv, Numbered
      <4>2. d.turn \in Turns
        BY <3>2, ItemsTyped
      <4>3. q1[d.turn] = q[d.turn] \/ q[d.turn] = 0
        BY <1>9, <4>2
      <4> QED BY <4>1, <4>3
    <3> QED BY <1>7, <3>1, <3>2
  <2>2. EndedFirst(p, q1)'
    <3> SUFFICES ASSUME NEW t \in Turns
                 PROVE  /\ q1[t] # 0 => t \in receipts' /\ ~Ending(t)'
                        /\ Ending(t)' /\ db'.checkpoint[t] = "missing"
                             => mem'.checkpoint[t] = "missing"
      BY DEF EndedFirst
    <3>1. /\ q[t] # 0 => t \in receipts /\ ~Ending(t)
          /\ Ending(t) /\ db.checkpoint[t] = "missing" => mem.checkpoint[t] = "missing"
      BY DEF HandlersInv, EndedFirst
    <3>2. q1[t] # 0 => t \in receipts /\ ~Ending(t)
      BY <1>9, <3>1
    <3>3. CASE t = x /\ s = "missing"
      <4>1. ~Ending(t)
        BY <1>5, <3>3 DEF Missed
      <4> QED BY <1>1, <1>8, <3>2, <4>1
    <3>4. CASE t = x /\ s # "missing"
      BY <1>1, <1>4, <1>8, <3>2, <3>4 DEF Written
    <3>5. CASE t # x
      <4>1. db'.checkpoint[t] = "missing" =>
              db.checkpoint[t] = "missing" /\ mem'.checkpoint[t] = mem.checkpoint[t]
        BY <1>4, <3>5 DEF Written
      <4> QED BY <1>1, <1>8, <3>1, <3>2, <4>1
    <3> QED BY <3>3, <3>4, <3>5
  <2>3. IngestingNumber(p, q1)'
    <3>1. ASSUME ingesting # Nothing, NEW m, m = ingesting.number, Given(p, q1, m)
          PROVE  Beaten(p, q1, m)
      <4>1. m # 0 /\ (Given(p, q, m) => Beaten(p, q, m))
        BY <3>1 DEF CheckInv, Numbered, HandlersInv, IngestingNumber
      <4> QED BY <1>9, <3>1, <4>1
    <3> QED BY <1>1, <3>1 DEF IngestingNumber, Given, Beaten
  <2>4. CapturingNumber(p, q1)'
    BY <1>1 DEF CapturingNumber
  <2> QED BY <2>1, <2>2, <2>3, <2>4 DEF HandlersInv
<1>10. p \in [Turns -> Nat] /\ q \in [Turns -> Nat]
  BY DEF NumbersInv
<1>11. CASE Again(p, q, x, n)
  <2>1. NumbersInv(p, q)'
    BY <1>4, <1>5, <1>11, AgainNumbers
  <2>2. n \in {p[x], q[x]}
    BY <1>11 DEF Again
  <2>3. HandlersInv(p, q)'
    BY <1>9, <1>10, <2>1, <2>2
  <2> QED BY <1>10, <2>1, <2>3
<1>12. CASE ~Again(p, q, x, n)
  <2> DEFINE q1 == [q EXCEPT ![x] = n]
  <2>1. First(p, q, x, n)
    BY <1>5, <1>12
  <2>2. q1 \in [Turns -> Nat] /\ q1[x] = n /\ \A t \in Turns : t # x => q1[t] = q[t]
    BY <1>10
  <2>3. /\ NumbersInv(p, q1)'
        /\ Given(p, q1, n) => Beaten(p, q1, n)
        /\ \A m : m # 0 /\ m # n /\ Given(p, q1, m) => Given(p, q, m)
        /\ \A m : m # 0 /\ Beaten(p, q, m) => Beaten(p, q1, m)
    <3> HIDE DEF q1
    <3> QED BY <1>4, <1>12, <2>1, FirstNumbers DEF q1
  <2> HIDE DEF q1
  <2>4. q[x] = 0 /\ x \in receipts /\ ~Ending(x)
    BY <2>1 DEF First
  <2>5. HandlersInv(p, q1)'
    <3>1. \A m : m # 0 /\ Given(p, q1, m) /\ (Given(p, q, m) => Beaten(p, q, m))
             => Beaten(p, q1, m)
      BY <2>3
    <3> QED BY <1>9, <2>2, <2>3, <2>4, <3>1
  <2> QED BY <2>2, <2>3, <2>5
<1> QED BY <1>11, <1>12

LEMMA StepGiven ==
  ASSUME TypeInv, KnownInv, CheckInv, NotRecaptured, EndedOnce, [SteadyNext]_vars, GivenInv
  PROVE  GivenInv'
<1>1. PICK p \in [Turns -> Nat], q \in [Turns -> Nat] :
        NumbersInv(p, q) /\ HandlersInv(p, q)
  BY DEF GivenInv
<1>2. CASE IngestDiff
  BY <1>1, <1>2, DiffGiven DEF GivenInv
<1>3. CASE CaptureWrites
  BY <1>1, <1>3, WritesGiven DEF GivenInv
<1>4. CASE ~IngestDiff /\ ~CaptureWrites
  <2>1. CASE CaptureCompletion \/ CapturePlaceholder
    BY <1>1, <2>1, TakenGiven DEF GivenInv
  <2>2. CASE IngestReads
    BY <1>1, <2>2, ReadsGiven DEF GivenInv
  <2>3. CASE ~CaptureCompletion /\ ~CapturePlaceholder /\ ~IngestReads
    <3>1. \A c \in Items' : c \in Items \/ c.kind = "ended"
      BY <1>4, <2>3, StepItems
    <3>2. capturing' \in {capturing, Nothing} /\ ingesting' \in {ingesting, Nothing}
            /\ receipts \subseteq receipts'
      BY <1>4, <2>3
      DEF SteadyNext, OperatorStep, StartTurn, Interrupt, ReactorStep, ReactStart,
          ReactInterrupt, CallStep, SendTurn, SendSteers, CallFails, SteerTurn,
          SteerBecomesSend, StartFailed, MarkSteered, MarkReads, MarkWrites, SteadyProvider,
          ProviderDiff, ProviderEnds, SteadyIngestion, IngestLifecycle,
          CheckpointStep, CaptureGivenUp, CaptureFails, vars, checkpoints, ingestion
    <3>3. \A t \in Turns : Ending(t)' => Ending(t)
      BY EndsKept
    <3>4. capturing # Nothing => capturing.turn \in Turns
      BY DEF TypeInv, CapturesTyped, Captures
    <3>5. NumbersInv(p, q)' /\ HandlersInv(p, q)'
      <4>1. \A c \in Items' : c.kind = "placeholder" => c \in Items
        BY <3>1
      <4>2. /\ db'.checkpoint = db.checkpoint /\ db'.number = db.number
            /\ mem'.checkpoint = mem.checkpoint /\ mem'.number = mem.number
        BY <1>4, SteadyIsNext, StepWrites
      <4> QED BY <1>1, <3>2, <3>3, <3>4, <4>1, <4>2, QuietGiven
    <3> QED BY <1>1, <3>5 DEF GivenInv
  <2> QED BY <2>1, <2>2, <2>3
<1> QED BY <1>2, <1>3, <1>4

LEMMA InitGiven ==
  ASSUME Init
  PROVE  GivenInv /\ EndedOnce
<1> DEFINE p == [t \in Turns |-> 0]
<1>1. /\ Items = {} /\ ingesting = Nothing /\ capturing = Nothing /\ captures = <<>>
      /\ \A t \in Turns : /\ db.checkpoint[t] = "none" /\ mem.checkpoint[t] = "none"
                          /\ db.number[t] = 0 /\ mem.number[t] = 0
  BY DEF Init, Items, NewTables, NewMemory
<1>2. p \in [Turns -> Nat] /\ \A t \in Turns : p[t] = 0
  OBVIOUS
<1> HIDE DEF p
<1>3. NumbersInv(p, p)
  BY <1>1, <1>2 DEF NumbersInv, NumbersOf, Differ, Kept, Won
<1>4. HandlersInv(p, p)
  BY <1>1, <1>2
  DEF HandlersInv, PlacedItems, EndedFirst, IngestingNumber, CapturingNumber
<1>5. EndedOnce
  BY <1>1 DEF EndedOnce
<1> QED BY <1>2, <1>3, <1>4, <1>5 DEF GivenInv

(***************************************************************************)
(* Memory and database have the same checkpoint of every turn whenever     *)
(* memory's numbers are distinct, also if two turns had the same number    *)
(* before: ingestion (ProviderRuntimeIngestion.ts) and CheckpointReactor   *)
(* may both choose a number before either writes it.  (CheckpointsAgree    *)
(* says nothing after the first turn is reopened.)                         *)
(***************************************************************************)
THEOREM CheckpointsAlwaysAgree == Spec => []CheckpointsAgree
<1> DEFINE Inv == /\ CapturedInv
                  /\ reopened = "none" => EndedOnce /\ GivenInv
<1>1. Init => Inv
  <2> SUFFICES ASSUME Init PROVE Inv
    OBVIOUS
  <2>1. NotRecaptured /\ NumberedApart
    BY DEF Init, NotRecaptured, NumberedApart, NewTables
  <2> QED BY <2>1, InitTyped, InitKnown, InitChecks, InitGiven DEF CapturedInv
<1>2. Inv /\ [Next]_vars => Inv'
  BY StepTyped, SteadyStep, StepKnown, StepChecks, CapturedStep, EndsKept, StepGiven
  DEF CapturedInv, KnownInv
<1>3. Inv => CheckpointsAgree
  BY DistinctAgree DEF CapturedInv, GivenInv, CheckpointsAgree
<1> HIDE DEF Inv
<1> QED BY <1>1, <1>2, <1>3, PTL DEF Spec
=============================================================================
