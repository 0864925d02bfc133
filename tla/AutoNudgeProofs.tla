--------------------------- MODULE AutoNudgeProofs ---------------------------
(***************************************************************************)
(* Proofs about Auto Nudge, for any revision maximum, caps and number of   *)
(* turns, Stops, commands and restarts.                                    *)
(*                                                                         *)
(* The argument: a command that does not know of the last Stop carries a   *)
(* revision below the current one, or the revision has reached its maximum *)
(* and Auto Nudge is off for good (Barrier).  If a completion that was     *)
(* nudged is the latest turn's while Auto Nudge is on, the configuration   *)
(* names the turn: as the baseline of an arming or of a restart, or as the *)
(* turn dispatched last (Remembered, Familiar).                            *)
(***************************************************************************)
EXTENDS AutoNudge, TLAPS

CommandsTyped ==
  \A c \in inFlight :
    /\ c.expected \in Nat /\ c.stops \in Nat
    /\ c.kind = "configure" => c.mode \in {"off", "on"} /\ c.cap \in Nat

Types == TypeOK /\ CommandsTyped

Known == latest <= turns /\ storedLatest <= turns /\ armedDuring <= turns

\* A command that is behind a Stop cannot pass for one that is not.
Barrier ==
  \A c \in inFlight :
    /\ c.expected <= revision
    /\ c.stops <= stops
    /\ c.stops < stops =>
         c.expected < revision \/ (revision = MaxRevision /\ mode = "off")

\* What was nudged is a completion that has happened.
Nudged ==
  \A i \in DOMAIN nudges :
    /\ nudges[i][1] \in Turns /\ nudges[i][1] <= turns
    /\ nudges[i][2] \in Nat /\ nudges[i][2] <= ends[nudges[i][1]]

Remembered ==
  mode = "on" /\ LatestState = "completed" =>
    \A i \in DOMAIN nudges :
      nudges[i] = <<latest, ends[latest]>> => latest = baseline \/ latest = lastTurn

\* A latest turn that is not fresh is one the configuration names.
Familiar ==
  mode = "on" =>
    /\ LatestState = "completed" /\ ~settled => latest = baseline \/ latest = lastTurn
    /\ latest = armedDuring => latest = baseline \/ latest = lastTurn
    /\ storedBaseline = armedDuring

Counted == mode = "on" => rounds = sent /\ rounds <= maxRounds

IInv ==
  Types /\ Known /\ Barrier /\ Nudged /\ NudgedOnce /\ Remembered /\ Familiar /\ Counted

-----------------------------------------------------------------------------
(* What a step does to the variables the invariants are about.             *)

core == <<config, turns, state, latest, storedLatest, history>>

Forms(c) ==
  /\ inFlight' = inFlight \cup {c}
  /\ c.expected = revision /\ c.stops = stops
  /\ c.kind = "configure" => c.mode \in {"off", "on"} /\ c.cap \in Nat
  /\ UNCHANGED core

Revokes ==
  /\ Revoke
  /\ latest' \in Nat /\ latest' <= turns
  /\ storedLatest' \in Nat /\ storedLatest' <= turns
  /\ UNCHANGED <<turns, state, inFlight, boots, ends, nudges, sent, armedDuring>>

\* Every step is one of these, as far as the invariants can tell.
LEMMA StepCases ==
  ASSUME Types, Known, [Next]_vars
  PROVE  \/ UNCHANGED core /\ inFlight' \subseteq inFlight
         \/ \E c : Forms(c)
         \/ \E c \in inFlight : AcceptConfigure(c)
         \/ \E c \in inFlight : AcceptDispatch(c)
         \/ Revokes
         \/ TurnRuns
         \/ TurnReopens
         \/ \E outcome \in {"completed", "interrupted", "error"} : TurnSettles(outcome)
         \/ CheckpointReady
         \/ Boot
<1> USE DEF core, config, thread, history
<1>1. CASE UNCHANGED vars
  BY <1>1 DEF vars
<1>2. CASE WindowStep
  <2>1. ASSUME NEW m \in {"off", "on"}, NEW bg \in BOOLEAN, NEW cap \in Nat,
               FormConfigure(m, bg, cap)
        PROVE  \E c : Forms(c)
    <3> DEFINE c == [kind |-> "configure", expected |-> revision, mode |-> m,
                     background |-> bg, cap |-> cap, stops |-> stops]
    <3>1. Forms(c)
      BY <2>1 DEF FormConfigure, Forms
    <3> QED
      BY <3>1
  <2>2. ASSUME NEW bg \in BOOLEAN, FormDispatch(bg)
        PROVE  \E c : Forms(c)
    <3> DEFINE c == [kind |-> "dispatch", expected |-> revision, turn |-> latest,
                     background |-> bg, stops |-> stops]
    <3>1. Forms(c)
      BY <2>2 DEF FormDispatch, Forms
    <3> QED
      BY <3>1
  <2>3. ASSUME NEW c \in inFlight, Drop(c)
        PROVE  UNCHANGED core /\ inFlight' \subseteq inFlight
    BY <2>3 DEF Drop
  <2> QED
    BY <1>2, <2>1, <2>2, <2>3, NudgeAssumption DEF WindowStep
<1>3. CASE AuthorityStep
  <2>1. ASSUME Stop PROVE Revokes
    BY <2>1 DEF Stop, Revokes, Types, TypeOK, Known
  <2>2. ASSUME NEW place, Shelve(place) PROVE Revokes
    BY <2>2 DEF Shelve, Revokes, Types, TypeOK, Known
  <2>3. ASSUME NEW place, Unshelve(place)
        PROVE  UNCHANGED core /\ inFlight' \subseteq inFlight
    BY <2>3 DEF Unshelve
  <2> QED
    BY <1>3, <2>1, <2>2, <2>3 DEF AuthorityStep
<1>4. CASE ThreadStep
  <2>1. ASSUME NEW t \in 0..MaxTurns, NEW u \in 0..MaxTurns, Reverted(t, u)
        PROVE  Revokes
    <3>1. u <= t /\ t < latest /\ latest <= turns /\ latest \in Nat /\ turns \in Nat
      BY <2>1 DEF Reverted, Types, TypeOK, Known
    <3> QED
      BY <2>1, <3>1, NudgeAssumption DEF Reverted, Revokes
  <2>2. ASSUME \/ OperatorStarts \/ StartFails \/ OrphanSettles
               \/ \E h \in Holds : Held(h) \/ Released(h)
        PROVE  UNCHANGED core /\ inFlight' \subseteq inFlight
    BY <2>2 DEF OperatorStarts, StartFails, OrphanSettles, Held, Released
  <2> QED
    BY <1>4, <2>1, <2>2 DEF ThreadStep
<1> QED
  BY <1>1, <1>2, <1>3, <1>4 DEF Next

-----------------------------------------------------------------------------
\* The program starts with Auto Nudge off and no turn.
LEMMA InitEstablishes == Init => IInv
<1> SUFFICES ASSUME Init PROVE IInv
  OBVIOUS
<1>1. Types
  <2>1. nudges \in Seq(Nat \X Nat) /\ state \in [Turns -> States] /\ ends \in [Turns -> Nat]
    BY DEF Init, States
  <2>2. background \in BOOLEAN /\ settled \in BOOLEAN
    BY DEF Init
  <2> QED
    BY <2>1, <2>2, NudgeAssumption DEF Init, Types, TypeOK, CommandsTyped, States, NoTurn, NoMessage
<1>2. Known /\ Barrier /\ Nudged /\ NudgedOnce /\ Remembered /\ Familiar /\ Counted
  BY NudgeAssumption
  DEF Init, Known, Barrier, Nudged, NudgedOnce, Remembered, Familiar, Counted, NoTurn
<1> QED
  BY <1>1, <1>2 DEF IInv

\* What a dispatch tells of the turn it names.
LEMMA DispatchedTurn ==
  ASSUME Types, Known, NEW c, DispatchAccepted(c)
  PROVE  /\ latest \in Turns /\ latest <= turns /\ state[latest] = "completed"
         /\ c.turn = latest /\ latest # baseline /\ latest # lastTurn
         /\ mode = "on" /\ rounds < maxRounds
<1>1. latest # 0 /\ state[latest] = "completed"
  BY DEF DispatchAccepted, LatestState, NoTurn
<1> QED
  BY <1>1, NudgeAssumption DEF DispatchAccepted, RoundsLeft, Types, TypeOK, Known, Turns

\* A final state is a state.
LEMMA EndsTyped ==
  ASSUME Types, NEW outcome \in {"completed", "interrupted", "error"}, EndsAs(outcome)
  PROVE  state' \in [Turns -> States] /\ ends' \in [Turns -> Nat] /\ settled' \in BOOLEAN
<1>1. state' \in [Turns -> States] /\ settled' \in BOOLEAN
  BY DEF EndsAs, Types, TypeOK, States
<1>2. ends \in [Turns -> Nat]
  BY DEF Types, TypeOK
<1>3. [ends EXCEPT ![latest] = @ + 1] \in [Turns -> Nat]
  <2>1. CASE latest \in Turns
    BY <1>2, <2>1
  <2>2. CASE latest \notin Turns
    BY <1>2, <2>2
  <2> QED
    BY <2>1, <2>2
<1>4. ends' \in [Turns -> Nat]
  BY <1>2, <1>3 DEF EndsAs
<1> QED
  BY <1>1, <1>4

\* Types: an accepted command brings typed fields, the rest stays or is reset.
LEMMA TypesStep == IInv /\ [Next]_vars => Types'
<1> SUFFICES ASSUME IInv, [Next]_vars PROVE Types'
  OBVIOUS
<1> USE NudgeAssumption
<1>0. Types /\ Known /\ Nudged
  BY DEF IInv
<1>1. CommandsTyped'
  <2>1. ASSUME NEW c, Forms(c) PROVE CommandsTyped'
    BY <1>0, <2>1 DEF Forms, CommandsTyped, Types, TypeOK
  <2>2. CASE inFlight' \subseteq inFlight
    BY <1>0, <2>2 DEF CommandsTyped, Types
  <2> QED
    BY <1>0, <2>1, <2>2, StepCases
    DEF AcceptConfigure, AcceptDispatch, Revokes, TurnRuns, TurnSettles, TurnReopens, CheckpointReady, Boot
<1>2. TypeOK'
  <2> USE DEF config, thread, history
  <2>1. CASE UNCHANGED vars
    BY <1>0, <2>1 DEF vars, Types, TypeOK
  <2>2. CASE WindowStep
    BY <1>0, <2>2 DEF WindowStep, FormConfigure, FormDispatch, Drop, Types, TypeOK
  <2>3. ASSUME NEW c \in inFlight, AcceptConfigure(c) PROVE TypeOK'
    <3>1. background' \in BOOLEAN
      BY <2>3 DEF AcceptConfigure
    <3>2. revision' \in Nat /\ revision' <= MaxRevision
      BY <1>0, <2>3 DEF AcceptConfigure, ConfigureAccepted, CanAdvance, Types, TypeOK
    <3>3. baseline' \in Nat /\ storedBaseline' \in Nat
      BY <1>0, <2>3 DEF AcceptConfigure, BaselineAtArming, NoTurn, Types, TypeOK
    <3> QED
      BY <1>0, <2>3, <3>1, <3>2, <3>3
      DEF AcceptConfigure, NoTurn, NoMessage, Types, TypeOK, CommandsTyped
  <2>4. ASSUME NEW c \in inFlight, AcceptDispatch(c) PROVE TypeOK'
    <3>1. c.turn \in Nat
      BY <1>0, <2>4 DEF AcceptDispatch, DispatchAccepted, Types, TypeOK
    <3>2. NewMessage \in Nat
      BY <1>0 DEF NewMessage, Types, TypeOK
    <3>3. latest \in Turns /\ c.turn = latest
      BY <1>0, <2>4, DispatchedTurn DEF AcceptDispatch
    <3>4. <<c.turn, ends[c.turn]>> \in Nat \X Nat /\ nudges \in Seq(Nat \X Nat)
      BY <1>0, <3>1, <3>3 DEF Types, TypeOK
    <3>5. nudges' \in Seq(Nat \X Nat)
      BY <2>4, <3>4 DEF AcceptDispatch
    <3> QED
      BY <1>0, <2>4, <3>1, <3>2, <3>5 DEF AcceptDispatch, Types, TypeOK
  <2>5. ASSUME Revoke, UNCHANGED <<boots, ends, nudges, sent, armedDuring>>,
               turns' = turns, state' = state, session' = session, request' = request,
               latest' \in Nat, storedLatest' \in Nat, owner' \in Nat,
               held' \subseteq Holds, shelf' \subseteq Places, settled' \in BOOLEAN
        PROVE  TypeOK'
    <3>1. revision' \in Nat /\ revision' <= MaxRevision
      BY <1>0, <2>5 DEF Revoke, Revoked, Types, TypeOK
    <3>2. background' \in BOOLEAN
      BY <2>5 DEF Revoke
    <3> QED
      BY <1>0, <2>5, <3>1, <3>2 DEF Revoke, NoTurn, NoMessage, Types, TypeOK
  <2>6. CASE Stop
    BY <1>0, <2>5, <2>6 DEF Stop, Types, TypeOK
  <2>7. ASSUME NEW place \in Places, Shelve(place) PROVE TypeOK'
    BY <1>0, <2>5, <2>7 DEF Shelve, Types, TypeOK
  <2>8. ASSUME NEW place \in Places, Unshelve(place) PROVE TypeOK'
    BY <1>0, <2>8 DEF Unshelve, Types, TypeOK
  <2>9. ASSUME NEW t \in 0..MaxTurns, NEW u \in 0..MaxTurns, Reverted(t, u) PROVE TypeOK'
    <3>1. settled' \in BOOLEAN /\ held' \subseteq Holds /\ owner' \in Nat
      BY <1>0, <2>9 DEF Reverted, NoMessage, Types, TypeOK
    <3> QED
      BY <1>0, <2>5, <2>9, <3>1 DEF Reverted, Types, TypeOK
  <2>10. ASSUME NEW h \in Holds, Held(h) \/ Released(h) PROVE TypeOK'
    BY <1>0, <2>10 DEF Held, Released, Types, TypeOK
  <2>11. CASE OperatorStarts \/ StartFails \/ OrphanSettles
    <3>1. session' \in {"idle", "starting", "running"} /\ request' \in Nat
      <4>1. request \in Nat
        BY <1>0 DEF Types, TypeOK
      <4> QED
        BY <2>11, <4>1 DEF OperatorStarts, StartFails, OrphanSettles, NoMessage
    <3>2. UNCHANGED <<config, turns, state, latest, storedLatest, owner, held, shelf, history>>
      BY <2>11 DEF OperatorStarts, StartFails, OrphanSettles
    <3> QED
      BY <1>0, <3>1, <3>2 DEF Types, TypeOK
  <2>12. CASE TurnRuns
    <3>1. state' \in [Turns -> States] /\ turns' \in Nat /\ turns' <= MaxTurns
      BY <1>0, <2>12 DEF TurnRuns, Turns, States, Types, TypeOK
    <3> QED
      BY <1>0, <2>12, <3>1 DEF TurnRuns, Types, TypeOK
  <2>13. ASSUME NEW outcome \in {"completed", "interrupted", "error"}, TurnSettles(outcome)
         PROVE  TypeOK'
    <3>1. state' \in [Turns -> States] /\ ends' \in [Turns -> Nat] /\ settled' \in BOOLEAN
      BY <1>0, <2>13, EndsTyped DEF TurnSettles
    <3> QED
      BY <1>0, <2>13, <3>1 DEF TurnSettles, Types, TypeOK
  <2>14. CASE CheckpointReady
    <3>1. state' \in [Turns -> States] /\ ends' \in [Turns -> Nat] /\ settled' \in BOOLEAN
      BY <1>0, <2>14, EndsTyped DEF CheckpointReady
    <3> QED
      BY <1>0, <2>14, <3>1 DEF CheckpointReady, Types, TypeOK
  <2>15. CASE Boot
    <3>1. baseline' \in Nat
      BY <1>0, <2>15 DEF Boot, BaselineAfterBoot, Types, TypeOK
    <3>2. settled' \in BOOLEAN /\ held' \subseteq Holds
      BY <1>0, <2>15 DEF Boot, Types, TypeOK
    <3> QED
      BY <1>0, <2>15, <3>1, <3>2 DEF Boot, Types, TypeOK
  <2>16. CASE TurnReopens
    <3>1. state' \in [Turns -> States] /\ settled' \in BOOLEAN /\ held' \subseteq Holds
      BY <1>0, <2>16 DEF TurnReopens, States, Types, TypeOK
    <3> QED
      BY <1>0, <2>16, <3>1 DEF TurnReopens, Types, TypeOK
  <2> QED
    BY <2>1, <2>2, <2>3, <2>4, <2>6, <2>7, <2>8, <2>9, <2>10, <2>11, <2>12, <2>13, <2>14, <2>15,
       <2>16
    DEF Next, AuthorityStep, ThreadStep
<1> QED
  BY <1>1, <1>2 DEF Types

\* A Stop either leaves every command behind, or Auto Nudge at its last
\* revision; an arming leaves every command behind.
LEMMA BarrierStep == IInv /\ [Next]_vars => Barrier'
<1> SUFFICES ASSUME IInv, [Next]_vars PROVE Barrier'
  OBVIOUS
<1> USE DEF core, config, thread, history
<1>0. /\ Types /\ Known /\ Barrier
      /\ revision \in Nat /\ revision <= MaxRevision /\ MaxRevision \in Nat /\ stops \in Nat
      /\ \A c \in inFlight : c.expected \in Nat /\ c.stops \in Nat
  BY NudgeAssumption DEF IInv, Types, TypeOK, CommandsTyped
<1>1. CASE UNCHANGED core /\ inFlight' \subseteq inFlight
  BY <1>0, <1>1 DEF Barrier
<1>2. ASSUME NEW c, Forms(c) PROVE Barrier'
  BY <1>0, <1>2 DEF Forms, Barrier
<1>3. ASSUME NEW c \in inFlight, AcceptConfigure(c) PROVE Barrier'
  BY <1>0, <1>3 DEF AcceptConfigure, ConfigureAccepted, CanAdvance, Barrier
<1>4. ASSUME NEW c \in inFlight, AcceptDispatch(c) PROVE Barrier'
  BY <1>0, <1>4 DEF AcceptDispatch, Barrier
<1>5. CASE Revokes
  BY <1>0, <1>5 DEF Revokes, Revoke, Revoked, Barrier
<1>6. CASE TurnRuns
  BY <1>0, <1>6 DEF TurnRuns, Barrier
<1>7. ASSUME NEW outcome, TurnSettles(outcome) PROVE Barrier'
  BY <1>0, <1>7 DEF TurnSettles, Barrier
<1>8. CASE CheckpointReady
  BY <1>0, <1>8 DEF CheckpointReady, Barrier
<1>9. CASE Boot \/ TurnReopens
  BY <1>0, <1>9 DEF Boot, TurnReopens, Barrier
<1> QED
  BY <1>0, <1>1, <1>2, <1>3, <1>4, <1>5, <1>6, <1>7, <1>8, <1>9, StepCases

\* No turn is known before it runs.
LEMMA KnownStep == IInv /\ [Next]_vars => Known'
<1> SUFFICES ASSUME IInv, [Next]_vars PROVE Known'
  OBVIOUS
<1> USE DEF core, config, thread, history, Known
<1>0. /\ Types /\ Known
      /\ latest \in Nat /\ storedLatest \in Nat /\ armedDuring \in Nat /\ turns \in Nat
  BY DEF IInv, Types, TypeOK
<1>1. ASSUME NEW c, Forms(c) PROVE Known'
  BY <1>0, <1>1 DEF Forms
<1>2. ASSUME NEW c \in inFlight, AcceptConfigure(c) \/ AcceptDispatch(c) PROVE Known'
  BY <1>0, <1>2 DEF AcceptConfigure, AcceptDispatch
<1>3. CASE Revokes
  BY <1>0, <1>3 DEF Revokes
<1>4. ASSUME NEW outcome, TurnSettles(outcome) PROVE Known'
  BY <1>0, <1>4 DEF TurnSettles
<1>5. CASE TurnRuns \/ TurnReopens \/ CheckpointReady \/ Boot
  BY <1>0, <1>5 DEF TurnRuns, TurnReopens, CheckpointReady, Boot
<1> QED
  BY <1>0, <1>1, <1>2, <1>3, <1>4, <1>5, StepCases

\* Completions only grow in number, and only a completion that the
\* configuration does not name is nudged.
LEMMA NudgedStep == IInv /\ [Next]_vars => Nudged' /\ NudgedOnce'
<1> SUFFICES ASSUME IInv, [Next]_vars PROVE Nudged' /\ NudgedOnce'
  OBVIOUS
<1> USE DEF core, config, thread, history
<1>0. /\ Types /\ Known /\ Nudged /\ NudgedOnce /\ Remembered
      /\ turns \in Nat /\ nudges \in Seq(Nat \X Nat) /\ ends \in [Turns -> Nat] /\ latest \in Nat
  BY DEF IInv, Types, TypeOK
<1>1. ASSUME nudges' = nudges, turns' \in Nat, turns <= turns',
             ends' = ends \/ ends' = [ends EXCEPT ![latest] = @ + 1]
      PROVE  Nudged' /\ NudgedOnce'
  <2>1. ASSUME NEW t \in Turns
        PROVE  ends[t] \in Nat /\ ends'[t] \in Nat /\ ends[t] <= ends'[t]
    <3>1. ends[t] \in Nat
      BY <1>0
    <3>2. ends'[t] = ends[t] \/ ends'[t] = ends[t] + 1
      BY <1>0, <1>1
    <3> QED
      BY <3>1, <3>2
  <2> QED
    BY <1>0, <1>1, <2>1, SMTT(20) DEF Nudged, NudgedOnce
<1>2. ASSUME NEW c \in inFlight, AcceptDispatch(c) PROVE Nudged' /\ NudgedOnce'
  <2>1. /\ latest \in Turns /\ latest <= turns /\ state[latest] = "completed"
        /\ c.turn = latest /\ latest # baseline /\ latest # lastTurn /\ mode = "on"
    BY <1>0, <1>2, DispatchedTurn DEF AcceptDispatch
  <2> DEFINE nudge == <<latest, ends[latest]>>
  <2>2. nudges' = Append(nudges, nudge) /\ UNCHANGED <<turns, ends>>
    BY <1>2, <2>1 DEF AcceptDispatch
  <2>3. \A i \in DOMAIN nudges : nudges[i] # nudge
    BY <1>0, <1>2, <2>1 DEF Remembered, AcceptDispatch, DispatchAccepted
  <2>4. nudge \in Nat \X Nat /\ nudge[1] = latest /\ nudge[2] = ends[latest]
    BY <1>0, <2>1
  <2> HIDE DEF nudge
  <2>5. /\ DOMAIN nudges' = 1..(Len(nudges) + 1)
        /\ nudges'[Len(nudges) + 1] = nudge
        /\ \A i \in DOMAIN nudges : nudges'[i] = nudges[i]
        /\ DOMAIN nudges = 1..Len(nudges) /\ Len(nudges) \in Nat
    BY <1>0, <2>2, <2>4
  <2>6. \A i \in DOMAIN nudges' : i \in DOMAIN nudges \/ i = Len(nudges) + 1
    BY <2>5
  <2>7. Nudged'
    BY <1>0, <2>1, <2>2, <2>4, <2>5, <2>6 DEF Nudged
  <2>8. NudgedOnce'
    BY <1>0, <2>3, <2>5, <2>6 DEF NudgedOnce
  <2> QED
    BY <2>7, <2>8
<1>3. ASSUME NEW outcome, TurnSettles(outcome) PROVE Nudged' /\ NudgedOnce'
  BY <1>0, <1>1, <1>3 DEF TurnSettles, EndsAs
<1>4. CASE CheckpointReady
  BY <1>0, <1>1, <1>4 DEF CheckpointReady, EndsAs
<1>5. CASE TurnRuns \/ TurnReopens \/ Revokes \/ Boot
  BY <1>0, <1>1, <1>5 DEF TurnRuns, TurnReopens, Revokes, Boot
<1>6. ASSUME NEW c, Forms(c) PROVE Nudged' /\ NudgedOnce'
  BY <1>0, <1>1, <1>6 DEF Forms
<1>7. ASSUME NEW c, AcceptConfigure(c) PROVE Nudged' /\ NudgedOnce'
  BY <1>0, <1>1, <1>7 DEF AcceptConfigure
<1>8. CASE UNCHANGED core
  BY <1>0, <1>1, <1>8
<1> QED
  BY <1>0, <1>2, <1>3, <1>4, <1>5, <1>6, <1>7, <1>8, StepCases

\* What the configuration has to remember: the arming names the latest turn,
\* a dispatch names its own, a restart names a completed one, and a new turn
\* is nobody's.
LEMMA RememberedStep == IInv /\ [Next]_vars => Remembered' /\ Familiar' /\ Counted'
<1> DEFINE Memory == Remembered /\ Familiar /\ Counted
<1> SUFFICES ASSUME IInv, [Next]_vars PROVE Memory'
  OBVIOUS
<1> USE DEF core, config, thread, history
<1>0. /\ Types /\ Known /\ Nudged /\ Remembered /\ Familiar /\ Counted
      /\ turns \in Nat /\ nudges \in Seq(Nat \X Nat) /\ ends \in [Turns -> Nat] /\ state \in [Turns -> States]
      /\ latest \in Nat /\ storedLatest \in Nat /\ armedDuring \in Nat
      /\ rounds \in Nat /\ sent \in Nat /\ maxRounds \in Nat
      /\ \A c \in inFlight : c.kind = "configure" => c.cap \in Nat
  BY DEF IInv, Types, TypeOK, CommandsTyped
<1>1. ASSUME UNCHANGED core PROVE Memory'
  BY <1>0, <1>1 DEF Remembered, Familiar, Counted, LatestState
<1>2. ASSUME NEW c \in inFlight, AcceptConfigure(c) PROVE Memory'
  <2>1. c.cap \in Nat
    BY <1>0, <1>2 DEF AcceptConfigure
  <2>2. UNCHANGED <<latest, nudges>>
    BY <1>2 DEF AcceptConfigure
  <2> QED
    BY <1>0, <1>2, <2>1, <2>2
    DEF AcceptConfigure, BaselineAtArming, Remembered, Familiar, Counted
<1>3. ASSUME NEW c \in inFlight, AcceptDispatch(c) PROVE Memory'
  <2>1. c.turn = latest /\ rounds < maxRounds /\ mode = "on"
    BY <1>0, <1>3, DispatchedTurn DEF AcceptDispatch
  <2>2. lastTurn' = latest /\ UNCHANGED <<latest, baseline, storedBaseline, armedDuring>>
    BY <1>3, <2>1 DEF AcceptDispatch
  <2>3. Remembered' /\ Familiar'
    BY <1>0, <2>1, <2>2 DEF Remembered, Familiar
  <2>4. Counted'
    BY <1>0, <1>3, <2>1 DEF AcceptDispatch, Counted
  <2> QED
    BY <2>3, <2>4
<1>4. CASE Revokes
  BY <1>4 DEF Revokes, Revoke, Remembered, Familiar, Counted
<1>5. CASE TurnRuns \/ TurnReopens
  <2>1. LatestState' = "running" /\ UNCHANGED <<config, armedDuring, sent>>
    <3>1. turns < MaxTurns => turns + 1 \in Turns /\ turns + 1 # 0
      BY <1>0, NudgeAssumption DEF Turns
    <3>2. CASE TurnRuns
      BY <1>0, <3>1, <3>2 DEF TurnRuns, LatestState, NoTurn
    <3>3. CASE TurnReopens
      <4>1. latest # 0 => latest \in Turns
        BY <1>0, NudgeAssumption DEF Known, Turns, Types, TypeOK
      <4>2. latest # 0
        BY <3>3 DEF TurnReopens, LatestState, NoTurn
      <4> QED
        BY <1>0, <3>3, <4>1, <4>2 DEF TurnReopens, LatestState, NoTurn
    <3> QED
      BY <1>5, <3>2, <3>3
  <2>2. latest' = armedDuring => latest' = latest
    BY <1>0, <1>5 DEF TurnRuns, TurnReopens, Known
  <2> QED
    BY <1>0, <2>1, <2>2 DEF Remembered, Familiar, Counted
<1>6. ASSUME NEW outcome, LatestState # "completed", EndsAs(outcome),
             UNCHANGED <<config, latest, nudges, sent, armedDuring>>
      PROVE  Memory'
  <2>1. LatestState' = "completed" =>
          latest \in Turns /\ outcome = "completed" /\ ends'[latest] = ends[latest] + 1
    BY <1>0, <1>6, NudgeAssumption DEF EndsAs, LatestState, NoTurn, Turns, Known, Types, TypeOK
  <2>2. ASSUME latest \in Turns, ends'[latest] = ends[latest] + 1, NEW i \in DOMAIN nudges
        PROVE  nudges[i] # <<latest, ends'[latest]>>
    BY <1>0, <2>2 DEF Nudged
  <2>3. Remembered'
    BY <1>6, <2>1, <2>2 DEF Remembered
  <2>4. Familiar' /\ Counted'
    BY <1>0, <1>6 DEF EndsAs, Familiar, Counted
  <2> QED
    BY <2>3, <2>4
<1>7. ASSUME CheckpointReady \/ \E outcome : TurnSettles(outcome) PROVE Memory'
  BY <1>6, <1>7 DEF CheckpointReady, TurnSettles
<1>8. CASE Boot
  <2>1. /\ latest' = storedLatest /\ baseline' = BaselineAfterBoot /\ ~settled'
        /\ UNCHANGED <<mode, lastTurn, rounds, maxRounds, sent, nudges, armedDuring,
                       state, ends, storedBaseline>>
    BY <1>8 DEF Boot
  <2>2. ASSUME mode = "on", storedLatest \in Turns, state[storedLatest] = "completed"
        PROVE  latest' = baseline' \/ latest' = lastTurn'
    BY <2>1, <2>2 DEF BaselineAfterBoot
  <2>4. LatestState' = "completed" => storedLatest \in Turns /\ state[storedLatest] = "completed"
    BY <1>0, <2>1, NudgeAssumption DEF LatestState, NoTurn, Known, Turns, Types, TypeOK
  <2>3. Remembered'
    BY <2>1, <2>2, <2>4 DEF Remembered
  <2>5. ASSUME mode = "on", latest' = armedDuring'
        PROVE  latest' = baseline' \/ latest' = lastTurn'
    BY <1>0, <2>1, <2>2, <2>5 DEF BaselineAfterBoot, Familiar
  <2>6. Familiar'
    BY <1>0, <2>1, <2>2, <2>4, <2>5 DEF Familiar
  <2> QED
    BY <1>0, <2>1, <2>3, <2>6 DEF Counted
<1>9. ASSUME NEW c, Forms(c) PROVE UNCHANGED core
  BY <1>9 DEF Forms
<1> HIDE DEF Memory, core
<1> QED
  BY <1>0, <1>1, <1>2, <1>3, <1>4, <1>5, <1>6, <1>7, <1>8, <1>9, StepCases

LEMMA Inductive == Spec => []IInv
<1>1. IInv /\ [Next]_vars => IInv'
  BY TypesStep, BarrierStep, KnownStep, NudgedStep, RememberedStep DEF IInv
<1> QED
  BY InitEstablishes, <1>1, PTL DEF Spec

-----------------------------------------------------------------------------
\* The variables keep their types; the revision never passes its maximum.
THEOREM TypesHold == Spec => []TypeOK
<1>1. IInv => TypeOK
  BY DEF IInv, Types
<1> QED
  BY Inductive, <1>1, PTL

\* What a command that is accepted knew of the Stops.
LEMMA AcceptedKnew ==
  ASSUME IInv, NEW c \in inFlight, c.expected = revision, CanAdvance \/ mode = "on"
  PROVE  c.stops = stops
  BY NudgeAssumption DEF IInv, Types, TypeOK, CommandsTyped, Barrier, CanAdvance

\* StopHolds: no command formed before a Stop, archive, deletion or revert
\* arms Auto Nudge or sends a nudge after it, whatever the maximum of the
\* revision.
THEOREM StopIsABarrier == Spec => StopHolds
<1> DEFINE Knew == \/ mode' = "on" /\ revision' # revision
                   \/ nudges' # nudges
                   => \A c \in inFlight \ inFlight' : c.stops = stops
<1>1. IInv /\ [Next]_vars => Knew
  <2> SUFFICES ASSUME IInv, [Next]_vars PROVE Knew
    OBVIOUS
  <2> USE DEF core, config, history
  <2>0. Types /\ Known
    BY DEF IInv
  <2>1. ASSUME NEW c \in inFlight, AcceptConfigure(c) PROVE Knew
    BY <2>1, AcceptedKnew DEF AcceptConfigure, ConfigureAccepted
  <2>2. ASSUME NEW c \in inFlight, AcceptDispatch(c) PROVE Knew
    BY <2>2, AcceptedKnew DEF AcceptDispatch, DispatchAccepted
  <2>3. ASSUME UNCHANGED <<mode, revision, nudges>> PROVE Knew
    BY <2>3
  <2>4. CASE Revokes
    BY <2>4 DEF Revokes, Revoke
  <2>5. ASSUME NEW c, Forms(c) PROVE Knew
    BY <2>5 DEF Forms
  <2>6. ASSUME NEW outcome, TurnSettles(outcome) PROVE Knew
    BY <2>6 DEF TurnSettles
  <2>7. CASE TurnRuns \/ TurnReopens \/ CheckpointReady \/ Boot
    BY <2>7 DEF TurnRuns, TurnReopens, CheckpointReady, Boot
  <2>8. UNCHANGED core => UNCHANGED <<mode, revision, nudges>>
    OBVIOUS
  <2> HIDE DEF Knew, core
  <2> QED
    BY <2>0, <2>1, <2>2, <2>3, <2>4, <2>5, <2>6, <2>7, <2>8, StepCases
<1> QED
  BY Inductive, <1>1, PTL DEF Spec, StopHolds

\* NudgedOnce: a completion authorizes at most one nudge in the life of the
\* thread.
THEOREM NoCompletionIsNudgedTwice == Spec => []NudgedOnce
<1>1. IInv => NudgedOnce
  BY DEF IInv
<1> QED
  BY Inductive, <1>1, PTL

\* NudgesAreFresh: a nudge follows a turn that completed after the arming and
\* the last restart.
THEOREM NudgesFollowFreshTurns == Spec => NudgesAreFresh
<1> DEFINE Fresh == nudges' # nudges => settled /\ latest # armedDuring
<1>1. IInv /\ [Next]_vars => Fresh
  <2> SUFFICES ASSUME IInv, [Next]_vars PROVE Fresh
    OBVIOUS
  <2> USE DEF core, config, history
  <2>0. Types /\ Known /\ Familiar
    BY DEF IInv
  <2>1. ASSUME NEW c \in inFlight, AcceptDispatch(c) PROVE Fresh
    <3>1. DispatchAccepted(c)
      BY <2>1 DEF AcceptDispatch
    <3>2. LatestState = "completed"
      BY <3>1 DEF DispatchAccepted
    <3> QED
      BY <2>0, <3>1, <3>2, DispatchedTurn DEF Familiar
  <2>2. ASSUME NEW c \in inFlight, AcceptConfigure(c) PROVE UNCHANGED nudges
    BY <2>2 DEF AcceptConfigure
  <2>3. ASSUME NEW c, Forms(c) PROVE UNCHANGED nudges
    BY <2>3 DEF Forms
  <2>4. ASSUME NEW outcome, TurnSettles(outcome) PROVE UNCHANGED nudges
    BY <2>4 DEF TurnSettles
  <2>5. CASE TurnRuns \/ TurnReopens \/ CheckpointReady \/ Boot \/ Revokes
    BY <2>5 DEF TurnRuns, TurnReopens, CheckpointReady, Boot, Revokes
  <2>6. UNCHANGED core => UNCHANGED nudges
    OBVIOUS
  <2>7. UNCHANGED nudges => Fresh
    OBVIOUS
  <2> HIDE DEF Fresh, core
  <2> QED
    BY <2>0, <2>1, <2>2, <2>3, <2>4, <2>5, <2>6, <2>7, StepCases
<1> QED
  BY Inductive, <1>1, PTL DEF Spec, NudgesAreFresh

\* RoundsWithinCap: no more nudges between two configures than the first allowed.
THEOREM RoundsStayWithinCap == Spec => []RoundsWithinCap
<1>1. IInv => RoundsWithinCap
  BY DEF IInv, Counted, RoundsWithinCap
<1> QED
  BY Inductive, <1>1, PTL
=============================================================================
