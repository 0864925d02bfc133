------------------------------ MODULE AutoNudge ------------------------------
(***************************************************************************)
(* Auto Nudge on one thread: the authority to send an automated follow-up  *)
(* when a provider turn completes (orchestration/decider.ts, the handlers  *)
(* thread.auto-nudge.*, thread.archive, thread.delete and                  *)
(* thread.revert.complete; projector.ts; the restart baseline of           *)
(* ProjectionSnapshotQuery.ts).                                            *)
(*                                                                         *)
(* Several windows form commands from what they see and send them; a       *)
(* command arrives any time later, or never.  The engine applies one       *)
(* command at a time, so that an accepted command is one step.  Around it  *)
(* turns start, settle, are continued after their end and are reverted,    *)
(* and the server restarts.                                                *)
(***************************************************************************)
EXTENDS Naturals, Sequences, FiniteSets

CONSTANTS
  MaxRevision,   \* THREAD_AUTO_NUDGE_MAX_AUTHORITY_REVISION
  Caps,          \* the values of maxRounds a configure may carry
  MaxTurns,      \* bound: provider turns of the thread
  MaxEnds,       \* bound: completions of a turn after which it is reopened
  MaxStops,      \* bound: Stops, archives, deletions and reverts
  MaxInFlight,   \* bound: commands on their way at once
  Places,        \* where a thread may be shelved: "archived", "deleted"
  Holds,         \* what makes a nudge wait: "queued", "planned", "continued"
  MaxBoots       \* bound: restarts of the server

ASSUME NudgeAssumption ==
  /\ MaxRevision \in Nat
  /\ Caps \subseteq Nat
  /\ MaxTurns \in Nat
  /\ MaxEnds \in Nat
  /\ MaxStops \in Nat
  /\ MaxInFlight \in Nat
  /\ Places \subseteq {"archived", "deleted"}
  /\ Holds \subseteq {"queued", "planned", "continued"}
  /\ MaxBoots \in Nat

NoTurn == 0
NoMessage == 0

VARIABLES
  \* the thread's Auto Nudge configuration in the command read model
  mode,            \* "off" or "on" (which of the prompts is not modelled)
  revision,        \* authorityRevision
  background,      \* backgroundContinuation
  maxRounds,
  baseline,        \* baselineSettledTurnId
  lastTurn,        \* lastDispatchedSettledTurnId
  lastMessage,     \* lastDispatchedMessageId
  rounds,          \* roundsDispatched
  storedBaseline,  \* baselineSettledTurnId as the database has it
  \* the thread around it
  turns,           \* how many turns the provider has made; their ids are 1..turns
  state,           \* state of each turn: "running", "completed", "interrupted", "error"
  latest,          \* latestTurn of the read model
  storedLatest,    \* latest_turn_id of the database
  session,         \* "idle", "starting" or "running": the projected session
  owner,           \* message that started the latest turn, NoMessage if the operator's
  request,         \* message of the turn that is being started
  messages,        \* nudge messages in the read model, with their turn ids
  held,            \* manual follow-ups are queued; the latest turn left a plan
                   \* that awaits the operator; provider text or activity
                   \* followed the latest turn's end
  shelf,           \* where the thread is shelved
  \* the windows
  inFlight,        \* commands formed and not yet arrived
  \* history
  stops,           \* how often authority was revoked
  boots,           \* how often the server restarted
  ends,            \* how often each turn was taken for completed
  nudges,          \* the completions that authorized a nudge, in order
  sent,            \* nudges since Auto Nudge was armed
  armedDuring,     \* the latest turn when it was armed
  settled          \* the latest turn ended after the arming and the last restart

config == <<mode, revision, background, maxRounds, baseline, lastTurn,
            lastMessage, rounds, storedBaseline>>
thread == <<turns, state, latest, storedLatest, session, owner, request,
            messages, held, shelf>>
history == <<stops, boots, ends, nudges, sent, armedDuring, settled>>
vars == <<config, thread, inFlight, history>>

Turns == 1..MaxTurns
States == {"none", "running", "completed", "interrupted", "error"}

\* Commands.  "stops" is history: the revocations its window could know of.
Configure == [kind : {"configure"}, expected : 0..MaxRevision, mode : {"off", "on"},
              background : BOOLEAN, cap : Caps \cup {0}, stops : Nat]
Dispatch == [kind : {"dispatch"}, expected : 0..MaxRevision, turn : Turns,
             background : BOOLEAN, stops : Nat]
Commands == Configure \cup Dispatch

TypeOK ==
  /\ mode \in {"off", "on"}
  /\ revision \in Nat /\ revision <= MaxRevision
  /\ background \in BOOLEAN
  /\ maxRounds \in Nat
  /\ baseline \in Nat /\ lastTurn \in Nat /\ lastMessage \in Nat
  /\ rounds \in Nat /\ storedBaseline \in Nat
  /\ turns \in Nat /\ turns <= MaxTurns
  /\ state \in [Turns -> States]
  /\ latest \in Nat /\ storedLatest \in Nat
  /\ session \in {"idle", "starting", "running"}
  /\ owner \in Nat /\ request \in Nat
  /\ held \subseteq Holds /\ shelf \subseteq Places
  /\ stops \in Nat /\ boots \in Nat
  /\ ends \in [Turns -> Nat]
  /\ nudges \in Seq(Nat \X Nat)
  /\ sent \in Nat /\ armedDuring \in Nat
  /\ settled \in BOOLEAN

Init ==
  /\ mode = "off" /\ revision = 0 /\ background = FALSE /\ maxRounds = 0
  /\ baseline = NoTurn /\ lastTurn = NoTurn /\ lastMessage = NoMessage
  /\ rounds = 0 /\ storedBaseline = NoTurn
  /\ turns = 0 /\ state = [t \in Turns |-> "none"]
  /\ latest = NoTurn /\ storedLatest = NoTurn /\ session = "idle"
  /\ owner = NoMessage /\ request = NoMessage /\ messages = {}
  /\ held = {} /\ shelf = {}
  /\ inFlight = {}
  /\ stops = 0 /\ boots = 0 /\ ends = [t \in Turns |-> 0]
  /\ nudges = <<>> /\ sent = 0
  /\ armedDuring = NoTurn /\ settled = FALSE

-----------------------------------------------------------------------------
(* The windows.  A window forms a command from the shell it sees; one that *)
(* is behind sees an earlier revision or turn, which is the same as a      *)
(* command that arrives late.  What else a window asks before it sends     *)
(* (the turn completed while it looked, its ledger of nudged turns, drafts *)
(* and approvals, the device-wide suppression) is left out: windows form   *)
(* more commands here than they do in the code.                            *)

\* The other fields of an "off" mean nothing.
FormConfigure(m, bg, cap) ==
  /\ Cardinality(inFlight) < MaxInFlight
  /\ inFlight' = inFlight \cup
       {[kind |-> "configure", expected |-> revision, mode |-> m,
         background |-> bg, cap |-> cap, stops |-> stops]}
  /\ UNCHANGED <<config, thread, history>>

FormDispatch(bg) ==
  /\ Cardinality(inFlight) < MaxInFlight
  /\ mode = "on"
  /\ latest # NoTurn
  /\ inFlight' = inFlight \cup
       {[kind |-> "dispatch", expected |-> revision, turn |-> latest,
         background |-> bg, stops |-> stops]}
  /\ UNCHANGED <<config, thread, history>>

\* The command is lost, or it arrives and the decider rejects it: neither
\* leaves an event.
Drop(c) ==
  /\ inFlight' = inFlight \ {c}
  /\ UNCHANGED <<config, thread, history>>

-----------------------------------------------------------------------------
(* The decider and the projector.                                          *)

LatestState == IF latest = NoTurn THEN "none" ELSE state[latest]

\* threadHasUnsettledTurnStart
Unsettled == session \in {"starting", "running"}

\* nextAutoNudgeAuthorityRevision fails at the maximum ...
CanAdvance == revision < MaxRevision

Revoked_OnlyArmed ==
  IF mode = "on" /\ revision < MaxRevision THEN revision + 1 ELSE revision

\* ... and revokeAutoNudgeAuthorityRevision stays there; a Stop advances it
\* even when nothing is armed.
Revoked == IF revision < MaxRevision THEN revision + 1 ELSE MaxRevision

BaselineAtArming_RunningOnly ==
  IF LatestState = "running" THEN latest ELSE NoTurn

\* The turn a configure takes for the operator's own: the latest, whatever
\* its state.
BaselineAtArming == latest

ConfigureAccepted(c) ==
  /\ shelf = {}
  /\ c.expected = revision
  /\ CanAdvance

AcceptConfigure(c) ==
  /\ c.kind = "configure"
  /\ ConfigureAccepted(c)
  /\ inFlight' = inFlight \ {c}
  /\ revision' = revision + 1
  /\ mode' = c.mode
  /\ maxRounds' = c.cap
  /\ background' = (c.mode = "on" /\ c.background)
  /\ baseline' = IF c.mode = "on" THEN BaselineAtArming ELSE NoTurn
  /\ storedBaseline' = IF c.mode = "on" THEN BaselineAtArming ELSE NoTurn
  /\ lastTurn' = NoTurn
  /\ lastMessage' = NoMessage
  /\ rounds' = 0
  /\ sent' = 0
  /\ armedDuring' = latest
  /\ settled' = FALSE
  /\ UNCHANGED <<thread, stops, boots, ends, nudges>>

\* thread.auto-nudge-stopped
Revoke ==
  /\ revision' = Revoked
  /\ mode' = "off"
  /\ background' = FALSE
  /\ baseline' = NoTurn
  /\ storedBaseline' = NoTurn
  /\ lastTurn' = NoTurn
  /\ lastMessage' = NoMessage
  /\ rounds' = 0
  /\ stops' = stops + 1
  /\ UNCHANGED maxRounds

Stop ==
  /\ stops < MaxStops
  /\ Revoke
  /\ UNCHANGED <<thread, inFlight, boots, ends, nudges, sent, armedDuring, settled>>

\* thread.archive and thread.delete
Shelve(place) ==
  /\ stops < MaxStops
  /\ place = "archived" => place \notin shelf
  /\ Revoke
  /\ shelf' = shelf \cup {place}
  /\ UNCHANGED <<turns, state, latest, storedLatest, session, owner, request,
                 messages, held, inFlight, boots, ends, nudges, sent, armedDuring,
                 settled>>

\* thread.unarchive and thread.restore
Unshelve(place) ==
  /\ place \in shelf
  /\ shelf' = shelf \ {place}
  /\ UNCHANGED <<config, turns, state, latest, storedLatest, session, owner,
                 request, messages, held, inFlight, history>>

\* The turn was started by the nudge before: told by the turn id of the
\* nudge's message.
DispatchedOwnTurn(c) ==
  \E m \in messages : m.id = lastMessage /\ m.turn = c.turn

RoundsLeft_OneMore == rounds <= maxRounds

RoundsLeft == rounds < maxRounds

\* thread.auto-nudge.dispatch, in the order of its checks
DispatchAccepted(c) ==
  /\ shelf = {}
  /\ "queued" \notin held
  /\ mode = "on"
  /\ c.expected = revision
  /\ c.background => background
  /\ latest = c.turn /\ LatestState = "completed"
  /\ "planned" \notin held
  /\ "continued" \notin held
  /\ baseline # c.turn
  /\ lastTurn # c.turn
  /\ background \/ ~DispatchedOwnTurn(c)
  /\ ~Unsettled
  /\ RoundsLeft

\* The message id of the command, which its window made up.
NewMessage == Len(nudges) + 1

\* Three events: thread.auto-nudge-dispatched, the message, whose turn id is
\* null, and thread.turn-start-requested.
AcceptDispatch(c) ==
  /\ c.kind = "dispatch"
  /\ DispatchAccepted(c)
  /\ inFlight' = inFlight \ {c}
  /\ lastTurn' = c.turn
  /\ lastMessage' = NewMessage
  /\ rounds' = rounds + 1
  /\ messages' = messages \cup {[id |-> NewMessage, turn |-> NoTurn]}
  /\ session' = "starting"
  /\ request' = NewMessage
  /\ nudges' = Append(nudges, <<c.turn, ends[c.turn]>>)
  /\ sent' = sent + 1
  /\ UNCHANGED <<mode, revision, background, maxRounds, baseline, storedBaseline,
                 turns, state, latest, storedLatest, owner, held, shelf,
                 stops, boots, ends, armedDuring, settled>>

-----------------------------------------------------------------------------
(* The rest of the thread.                                                 *)

\* thread.turn.start of the operator
OperatorStarts ==
  /\ "queued" \notin held /\ ~Unsettled
  /\ turns < MaxTurns
  /\ session' = "starting"
  /\ request' = NoMessage
  /\ UNCHANGED <<config, turns, state, latest, storedLatest, owner, messages,
                 held, shelf, inFlight, history>>

\* A manual follow-up is queued; the turn leaves a plan; text or activity of
\* the turn arrives after its end.
Held(h) ==
  /\ h \notin held
  /\ h = "planned" => LatestState = "running"
  /\ h = "continued" => LatestState = "completed"
  /\ held' = held \cup {h}
  /\ UNCHANGED <<config, turns, state, latest, storedLatest, session, owner,
                 request, messages, shelf, inFlight, history>>

\* The queue drains, or the plan is implemented.
Released(h) ==
  /\ h \in held \ {"continued"}
  /\ held' = held \ {h}
  /\ UNCHANGED <<config, turns, state, latest, storedLatest, session, owner,
                 request, messages, shelf, inFlight, history>>

\* thread.session-set, running with a turn that is new: the requested one, or
\* the one that repairs the id the provider's answer gave it.
TurnRuns ==
  /\ Unsettled
  /\ turns < MaxTurns
  /\ turns' = turns + 1
  /\ state' = [state EXCEPT ![turns + 1] = "running"]
  /\ latest' = turns + 1
  /\ storedLatest' = turns + 1
  /\ session' = "running"
  /\ owner' = request
  /\ held' = held \ {"planned", "continued"}
  /\ settled' = FALSE
  /\ UNCHANGED <<config, request, messages, shelf, inFlight,
                 stops, boots, ends, nudges, sent, armedDuring>>

\* thread.session-set with terminalTurnRecovery: the provider goes on with the
\* turn that had ended.
TurnReopens ==
  /\ session # "running"
  /\ latest = storedLatest
  /\ LatestState \in {"completed", "interrupted", "error"}
  /\ ends[latest] < MaxEnds
  /\ state' = [state EXCEPT ![latest] = "running"]
  /\ session' = "running"
  /\ held' = held \ {"continued"}
  /\ settled' = FALSE
  /\ UNCHANGED <<config, turns, latest, storedLatest, owner, request, messages,
                 shelf, inFlight, stops, boots, ends, nudges, sent, armedDuring>>

\* The latest turn gets its final state.
EndsAs(outcome) ==
  /\ state' = [state EXCEPT ![latest] = outcome]
  /\ ends' = IF outcome = "completed" THEN [ends EXCEPT ![latest] = @ + 1] ELSE ends
  /\ settled' = TRUE

\* thread.session-set that closes the active turn, or the start that failed
TurnSettles(outcome) ==
  /\ session = "running" /\ LatestState = "running"
  /\ EndsAs(outcome)
  /\ session' = "idle"
  /\ UNCHANGED <<config, turns, latest, storedLatest, owner, request, messages,
                 held, shelf, inFlight, stops, boots, nudges, sent, armedDuring>>

StartFails ==
  /\ session = "starting"
  /\ session' = "idle"
  /\ UNCHANGED <<config, turns, state, latest, storedLatest, owner, request,
                 messages, held, shelf, inFlight, history>>

\* The turn of a session that a revert left behind ends.
OrphanSettles ==
  /\ session = "running" /\ LatestState # "running"
  /\ session' = "idle"
  /\ UNCHANGED <<config, turns, state, latest, storedLatest, owner, request,
                 messages, held, shelf, inFlight, history>>

\* thread.turn-diff-completed with status ready for the latest turn
CheckpointReady ==
  /\ LatestState = "interrupted"
  /\ EndsAs("completed")
  /\ UNCHANGED <<config, turns, latest, storedLatest, session, owner, request,
                 messages, held, shelf, inFlight, stops, boots, nudges, sent,
                 armedDuring>>

\* thread.revert.complete: a Stop and thread.reverted.  The database goes back
\* to turn t, or to none; the read model to the last checkpoint it still has,
\* which after a restart may be an earlier one or none.
Reverted(t, inMemory) ==
  /\ stops < MaxStops
  /\ inMemory <= t /\ t < latest
  /\ Revoke
  /\ storedLatest' = t
  /\ latest' = inMemory
  /\ held' = held \ {"planned", "continued"}
  /\ owner' = NoMessage
  /\ settled' = FALSE
  /\ UNCHANGED <<turns, state, session, request, messages, shelf,
                 inFlight, boots, ends, nudges, sent, armedDuring>>

BaselineAfterBoot_Stored == storedBaseline

\* failClosedAutoNudgeAuthorityAfterBootstrap
BaselineAfterBoot ==
  IF /\ mode = "on"
     /\ storedLatest \in Turns /\ state[storedLatest] = "completed"
     /\ lastTurn # storedLatest
  THEN storedLatest
  ELSE storedBaseline

\* The command read model is built anew, without messages and activities.
Boot ==
  /\ boots < MaxBoots
  /\ boots' = boots + 1
  /\ latest' = storedLatest
  /\ baseline' = BaselineAfterBoot
  /\ messages' = {}
  /\ held' = held \ {"continued"}
  /\ settled' = FALSE
  /\ UNCHANGED <<mode, revision, background, maxRounds, lastTurn, lastMessage,
                 rounds, storedBaseline, turns, state, storedLatest, session,
                 owner, request, shelf, inFlight,
                 stops, ends, nudges, sent, armedDuring>>

WindowStep ==
  \/ FormConfigure("off", FALSE, 0)
  \/ \E bg \in BOOLEAN, cap \in Caps : FormConfigure("on", bg, cap)
  \/ \E bg \in BOOLEAN : FormDispatch(bg)
  \/ \E c \in inFlight : Drop(c)

AuthorityStep ==
  \/ \E c \in inFlight : AcceptConfigure(c)
  \/ \E c \in inFlight : AcceptDispatch(c)
  \/ Stop
  \/ \E place \in Places : Shelve(place)
  \/ \E place \in Places : Unshelve(place)

ThreadStep ==
  \/ OperatorStarts
  \/ \E h \in Holds : Held(h)
  \/ \E h \in Holds : Released(h)
  \/ TurnRuns
  \/ TurnReopens
  \/ \E outcome \in {"completed", "interrupted", "error"} : TurnSettles(outcome)
  \/ StartFails
  \/ OrphanSettles
  \/ CheckpointReady
  \/ \E t, u \in 0..MaxTurns : Reverted(t, u)
  \/ Boot

Next == WindowStep \/ AuthorityStep \/ ThreadStep

Spec == Init /\ [][Next]_vars

-----------------------------------------------------------------------------
(* Properties.                                                             *)

\* What arms Auto Nudge and what sends a nudge was formed by a window that
\* could know of every Stop, archive, deletion and revert before it, although
\* the revision that tells them apart stops growing at its maximum.
StopHolds ==
  [][\/ mode' = "on" /\ revision' # revision
     \/ nudges' # nudges
     => \A c \in inFlight \ inFlight' : c.stops = stops]_vars

\* A completion of a turn authorizes at most one nudge in the life of the
\* thread: not again after a Stop and a new arming, after a revert to it, or
\* after a restart that has forgotten the baseline it held in memory.  A turn
\* the provider goes on with after its end may be nudged again when it
\* completes again.
NudgedOnce ==
  \A i, j \in DOMAIN nudges : nudges[i] = nudges[j] => i = j

\* A nudge follows a turn that was taken for completed after the arming and
\* after the last restart, and that was not the thread's turn when the
\* operator armed.
NudgesAreFresh ==
  [][nudges' # nudges => settled /\ latest # armedDuring]_vars

\* Between two configures no more nudges are sent than the first allowed,
\* whatever restarts in between.
RoundsWithinCap == mode = "on" => sent <= maxRounds

\* decider.ts:867-872: without background continuation the end of a turn that
\* a nudge started "must never authorize the next round".
OwnTurnNeverAuthorizes ==
  [][nudges' # nudges => background \/ owner = NoMessage]_vars
=============================================================================
