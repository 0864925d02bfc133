------------------------------ MODULE ThreadTurns ------------------------------
(***************************************************************************)
(* The life of the turns of one thread: the operator asks for turns and    *)
(* interrupts them, ProviderCommandReactor passes both to the provider,    *)
(* ProviderRuntimeIngestion and CheckpointReactor follow what the provider *)
(* reports, and all of them write the domain events that TurnProjection    *)
(* applies to memory and database at once.                                 *)
(*                                                                         *)
(* The engine applies one command at a time, so that a dispatched command  *)
(* is one step; between what an actor reads and what it writes anything    *)
(* may happen.                                                             *)
(***************************************************************************)
EXTENDS TurnProjection, Sequences

CONSTANTS
  MaxRequests,  \* bound: turns the operator asks for
  MaxUpsets,    \* bound: interrupts, and turns that go on after their end
  MayComplete,  \* bound: turns that may complete
  MayFail       \* bound: turns that may fail

ASSUME ThreadAssumption ==
  /\ \A t \in Turns : 1..t \subseteq Turns       \* numbered in their order
  /\ MaxRequests \in Nat
  /\ MaxUpsets \in Nat
  /\ MayComplete \subseteq Turns
  /\ MayFail \subseteq Turns

Requests == 1..MaxRequests

VARIABLES
  mem,        \* the thread in the command read model
  db,         \* the thread in the database
  clock,      \* the latest timestamp given
  asked,      \* how many turns were asked for
  upsets,     \* how many interrupts were asked for and turns reopened
  \* ProviderCommandReactor
  intents,    \* start and interrupt events it has not processed
  calls,      \* calls of the provider on their way, one for each request
  \* the provider
  turns,      \* how many turns it has started
  running,    \* the turn it is running
  stopping,   \* it has accepted the interrupt of that turn
  diffed,     \* it has reported a diff of that turn
  ended,      \* how each turn ended (aggregateRootCompletionsRef)
  reopened,   \* history: whether it went on with a turn after its end: "none",
              \* only with the one it had started "last", or with an "earlier" one
  \* ProviderRuntimeIngestion
  reported,   \* provider events it has not processed
  ingesting,  \* the event it has read the session for, and what it saw
  receipts,   \* turns whose completion it has processed
  \* CheckpointReactor
  captures,   \* completions and placeholders it has not processed
  capturing,  \* the capture it is making
  \* history
  overlap     \* what of an earlier turn was on its way when a turn was asked for:
              \* "none", its "start" from the provider, or even the "call" for it

reactor == <<intents, calls>>
provider == <<turns, running, stopping, diffed, ended, reopened>>
ingestion == <<reported, ingesting, receipts>>
checkpoints == <<captures, capturing>>
vars == <<mem, db, clock, asked, upsets, reactor, provider, ingestion,
          checkpoints, overlap>>

Now == clock + 1
Nothing == [kind |-> "nothing"]
Endings == {"completed", "failed", "interrupted"}
NoCall == [step |-> "none", turn |-> NoTurn, at |-> NoTime, mark |-> NoTime]

TypeOK ==
  /\ mem \in Memory
  /\ db \in Tables
  /\ clock \in Nat
  /\ asked \in 0..MaxRequests
  /\ upsets \in 0..MaxUpsets
  /\ calls \in [Requests ->
       [step : {"none", "send", "resend", "steer", "steered", "answered", "marking",
                "failed"},
        turn : Turns \cup {NoTurn},
        at : Nat,           \* when the turn was asked for
        mark : Nat]]        \* the time its running session will carry
  /\ turns \in Turns \cup {NoTurn}
  /\ running \in 0..turns
  /\ stopping \in BOOLEAN /\ diffed \in BOOLEAN
  /\ ended \in [Turns -> Endings \cup {"none"}]
  /\ reopened \in {"none", "last", "earlier"}
  /\ receipts \subseteq 1..turns
  /\ overlap \in {"none", "start", "call"}

Init ==
  /\ mem = NewMemory /\ db = NewTables /\ clock = NoTime
  /\ asked = 0 /\ upsets = 0
  /\ intents = <<>> /\ calls = [r \in Requests |-> NoCall]
  /\ turns = 0 /\ running = NoTurn /\ stopping = FALSE /\ diffed = FALSE
  /\ ended = [t \in Turns |-> "none"] /\ reopened = "none"
  /\ reported = <<>> /\ ingesting = Nothing /\ receipts = {}
  /\ captures = <<>> /\ capturing = Nothing
  /\ overlap = "none"

\* An event is applied to both projections in the command's transaction.
Project(e) ==
  /\ mem' = MemoryAfter(mem, e)
  /\ db' = TablesAfter(db, e)

-----------------------------------------------------------------------------
(* The operator.                                                           *)

\* threadHasUnsettledTurnStart
Unsettled == mem.status \in {"starting", "running"} \/ mem.active # NoTurn

\* The call for a turn is on its way: the turn has not been marked as running.
Calling ==
  \/ \E r \in Requests : calls[r] # NoCall
  \/ \E i \in DOMAIN intents : intents[i].kind = "start"

\* The provider has started a turn and the ingestion has not processed it.
Starting ==
  \/ \E i \in DOMAIN reported : reported[i].kind = "started"
  \/ ingesting # Nothing /\ ingesting.event.kind = "started"

\* thread.turn.start; one that finds the thread unsettled is rejected, or
\* becomes a steer, which is not modelled
StartTurn ==
  /\ asked < MaxRequests
  /\ ~Unsettled
  /\ clock' = Now
  /\ asked' = asked + 1
  /\ Project(StartRequested(Now))
  /\ intents' = Append(intents, [kind |-> "start", request |-> asked + 1, at |-> Now])
  /\ overlap' = IF Calling THEN "call"
                ELSE IF Starting /\ overlap = "none" THEN "start" ELSE overlap
  /\ UNCHANGED <<upsets, calls, provider, ingestion, checkpoints>>

\* thread.turn.interrupt: the window names the turn it shows as active, which
\* may be an earlier one, or none; the decider then takes the active one.
Interrupt(named) ==
  /\ upsets < MaxUpsets
  /\ named # NoTurn => db.state[named] # "none"
  /\ clock' = Now
  /\ upsets' = upsets + 1
  /\ LET turn == IF named # NoTurn THEN named ELSE MemoryActive(mem)
     IN /\ Project(InterruptRequested(turn, Now))
        /\ intents' = Append(intents, [kind |-> "interrupt", turn |-> turn])
  /\ UNCHANGED <<asked, calls, provider, ingestion, checkpoints, overlap>>

-----------------------------------------------------------------------------
(* ProviderCommandReactor.  The call of the provider is forked: the next   *)
(* event is processed while the provider has not answered.                 *)

\* processTurnStartRequested: a steer if the provider runs a turn
ReactStart ==
  /\ intents # <<>> /\ Head(intents).kind = "start"
  /\ LET r == Head(intents).request
         at == Head(intents).at
     IN calls' = [calls EXCEPT ![r] =
          IF running # NoTurn
          THEN [step |-> "steer", turn |-> running, at |-> at, mark |-> at]
          ELSE [step |-> "send", turn |-> NoTurn, at |-> at, mark |-> at]]
  /\ intents' = Tail(intents)
  /\ UNCHANGED <<mem, db, clock, asked, upsets, provider, ingestion, checkpoints,
                 overlap>>

\* processTurnInterruptRequested: the turn the provider runs, if any; an
\* interrupt of another turn fails at the provider.
ReactInterrupt ==
  /\ intents # <<>> /\ Head(intents).kind = "interrupt"
  /\ intents' = Tail(intents)
  /\ stopping' = (running # NoTurn)
  /\ UNCHANGED <<mem, db, clock, asked, upsets, calls, turns, running, diffed,
                 ended, reopened, ingestion, checkpoints, overlap>>

\* The provider starts a turn and reports it; the answer is on its way.
SendTurn(r) ==
  /\ calls[r].step \in {"send", "resend"} /\ running = NoTurn
  /\ turns + 1 \in Turns
  /\ turns' = turns + 1
  /\ running' = turns + 1
  /\ stopping' = FALSE /\ diffed' = FALSE
  /\ clock' = Now
  /\ reported' = Append(reported, [kind |-> "started", turn |-> turns + 1, at |-> Now])
  /\ calls' = [calls EXCEPT ![r].step = "answered", ![r].turn = turns + 1]
  /\ UNCHANGED <<mem, db, asked, upsets, intents, ended, reopened, ingesting,
                 receipts, checkpoints, overlap>>

\* It runs a turn: the message is routed to that turn, which answers the call.
SendSteers(r) ==
  /\ calls[r].step \in {"send", "resend"} /\ running # NoTurn
  /\ calls' = [calls EXCEPT ![r].step = "answered", ![r].turn = running]
  /\ UNCHANGED <<mem, db, clock, asked, upsets, intents, provider, ingestion,
                 checkpoints, overlap>>

\* The turn takes the message.
SteerTurn(r) ==
  /\ calls[r].step = "steer" /\ running = calls[r].turn
  /\ calls' = [calls EXCEPT ![r].step = "steered"]
  /\ UNCHANGED <<mem, db, clock, asked, upsets, intents, provider, ingestion,
                 checkpoints, overlap>>

\* The turn is over: the message is sent as the next turn, once, after the
\* session was made ready.
SteerBecomesSend(r) ==
  /\ calls[r].step = "steer" /\ running # calls[r].turn
  /\ clock' = Now
  /\ Project(SessionSet("ready", NoTurn, Now))
  /\ calls' = [calls EXCEPT ![r].step = "resend", ![r].turn = NoTurn, ![r].mark = Now]
  /\ UNCHANGED <<asked, upsets, intents, provider, ingestion, checkpoints,
                 overlap>>

\* The call fails for another reason.
CallFails(r) ==
  /\ calls[r].step \in {"send", "resend", "steer"}
  /\ calls' = [calls EXCEPT ![r].step = "failed"]
  /\ UNCHANGED <<mem, db, clock, asked, upsets, intents, provider, ingestion,
                 checkpoints, overlap>>

\* setThreadSessionErrorOnTurnStartFailure
StartFailed(r) ==
  /\ calls[r].step = "failed"
  /\ Project(SessionSet("ready", NoTurn, calls[r].at))
  /\ calls' = [calls EXCEPT ![r] = NoCall]
  /\ UNCHANGED <<clock, asked, upsets, intents, provider, ingestion, checkpoints,
                 overlap>>

\* The session of a turn that was steered
MarkSteered(r) ==
  /\ calls[r].step = "steered"
  /\ clock' = Now
  /\ Project(SessionSet("running", calls[r].turn, Now))
  /\ calls' = [calls EXCEPT ![r] = NoCall]
  /\ UNCHANGED <<asked, upsets, intents, provider, ingestion, checkpoints,
                 overlap>>

\* markThreadRunningFromSendTurnResult reads the session ...
MarkReads(r) ==
  /\ calls[r].step = "answered"
  /\ LET seen == ReadSession(db)
         other == seen.status = "running" /\ seen.active \notin {NoTurn, calls[r].turn}
     IN calls' = IF other THEN [calls EXCEPT ![r] = NoCall]
                 ELSE [calls EXCEPT ![r].step = "marking"]
  /\ UNCHANGED <<mem, db, clock, asked, upsets, intents, provider, ingestion,
                 checkpoints, overlap>>

\* ... asks the provider for its sessions and then writes, with the time of
\* the request or of its retry.
MarkWrites(r) ==
  /\ calls[r].step = "marking"
  /\ Project(SessionSet("running", calls[r].turn, calls[r].mark))
  /\ calls' = [calls EXCEPT ![r] = NoCall]
  /\ UNCHANGED <<clock, asked, upsets, intents, provider, ingestion, checkpoints,
                 overlap>>

-----------------------------------------------------------------------------
(* The provider, which is not part of the program.                         *)

ProviderDiff ==
  /\ running # NoTurn /\ ~diffed
  /\ diffed' = TRUE
  /\ clock' = Now
  /\ reported' = Append(reported, [kind |-> "diff", turn |-> running, at |-> Now])
  /\ UNCHANGED <<mem, db, asked, upsets, reactor, turns, running, stopping,
                 ended, reopened, ingesting, receipts, checkpoints, overlap>>

\* A turn whose interrupt was accepted may still end on its own.  One that was
\* reopened ends as it did before.
ProviderEnds(outcome) ==
  /\ running # NoTurn
  /\ IF ended[running] # "none" THEN outcome = ended[running]
     ELSE \/ outcome = "completed" /\ running \in MayComplete
          \/ outcome = "failed" /\ running \in MayFail
          \/ outcome = "interrupted" /\ stopping
  /\ ended' = [ended EXCEPT ![running] = outcome]
  /\ clock' = Now
  /\ LET e == [kind |-> "ended", turn |-> running, outcome |-> outcome, at |-> Now]
     IN /\ reported' = Append(reported, e)
        /\ captures' = Append(captures, e)
  /\ running' = NoTurn /\ stopping' = FALSE
  /\ UNCHANGED <<mem, db, asked, upsets, reactor, turns, diffed, reopened,
                 ingesting, receipts, capturing, overlap>>

\* recoverAggregateTurnFromLiveChildWork: no turn is active, and a subagent of
\* a turn whose end this runtime has seen goes on working.
ProviderReopens(t) ==
  /\ upsets < MaxUpsets
  /\ running = NoTurn /\ ended[t] # "none"
  /\ running' = t /\ stopping' = FALSE /\ diffed' = FALSE
  /\ upsets' = upsets + 1
  /\ reopened' = IF t # turns THEN "earlier"
                 ELSE IF reopened = "none" THEN "last" ELSE reopened
  /\ clock' = Now
  /\ reported' = Append(reported, [kind |-> "reopened", turn |-> t, at |-> Now])
  /\ UNCHANGED <<mem, db, asked, reactor, turns, ended, ingesting,
                 receipts, checkpoints, overlap>>

-----------------------------------------------------------------------------
(* ProviderRuntimeIngestion: one event at a time, in order.                *)

\* maxCheckpointTurnCount
LastNumber ==
  CHOOSE n \in {db.number[t] : t \in Turns} : \A t \in Turns : db.number[t] <= n

\* What the event's handler saw: the active turn, whether the provider runs
\* the event's turn, whether that has a checkpoint, the next one's number.
IngestReads ==
  /\ ingesting = Nothing /\ reported # <<>>
  /\ LET e == Head(reported)
     IN ingesting' = [kind |-> "event", event |-> e,
                      active |-> ReadSession(db).active,
                      owned |-> running = e.turn,
                      tracked |-> db.checkpoint[e.turn] # "none",
                      number |-> LastNumber + 1]
  /\ reported' = Tail(reported)
  /\ UNCHANGED <<mem, db, clock, asked, upsets, reactor, provider, receipts,
                 checkpoints, overlap>>

SessionAfter(outcome) ==
  CASE outcome = "failed" -> "error"
    [] outcome = "interrupted" -> "interrupted"
    [] OTHER -> "ready"

\* shouldApplyThreadLifecycle: an event of another turn than the active one is
\* content only, except the start of the turn that the provider runs.
AppliesLifecycle(i) ==
  \/ i.active \in {NoTurn, i.event.turn}
  \/ i.event.kind \in {"started", "reopened"} /\ i.owned

IngestLifecycle ==
  /\ ingesting # Nothing /\ ingesting.event.kind \in {"started", "ended"}
  /\ LET e == ingesting.event
     IN /\ IF ~AppliesLifecycle(ingesting) THEN UNCHANGED <<mem, db>>
           ELSE IF e.kind = "started" THEN Project(SessionSet("running", e.turn, e.at))
           ELSE Project(SessionSet(SessionAfter(e.outcome), NoTurn, e.at))
        /\ receipts' = IF e.kind = "ended" THEN receipts \cup {e.turn} ELSE receipts
  /\ ingesting' = Nothing
  /\ UNCHANGED <<clock, asked, upsets, reactor, provider, reported, checkpoints,
                 overlap>>

\* The turn.started of a turn that is reopened carries terminalTurnRecovery.
IngestReopened ==
  /\ ingesting # Nothing /\ ingesting.event.kind = "reopened"
  /\ IF AppliesLifecycle(ingesting)
     THEN Project(Recovery(ingesting.event.turn, ingesting.event.at))
     ELSE UNCHANGED <<mem, db>>
  /\ ingesting' = Nothing
  /\ UNCHANGED <<clock, asked, upsets, reactor, provider, reported, receipts,
                 checkpoints, overlap>>

\* turn.diff.updated: a placeholder, unless the turn has a checkpoint
IngestDiff ==
  /\ ingesting # Nothing /\ ingesting.event.kind = "diff"
  /\ LET e == ingesting.event
     IN IF ingesting.tracked THEN UNCHANGED <<mem, db, captures>>
        ELSE /\ Project(DiffCompleted(e.turn, ingesting.number, "missing", e.at))
             /\ captures' = Append(captures, [kind |-> "placeholder", turn |-> e.turn,
                                              number |-> ingesting.number, at |-> e.at])
  /\ ingesting' = Nothing
  /\ UNCHANGED <<clock, asked, upsets, reactor, provider, reported, receipts,
                 capturing, overlap>>

-----------------------------------------------------------------------------
(* CheckpointReactor: one input at a time.                                 *)

CheckpointStatus(outcome) ==
  CASE outcome = "failed" -> "error"
    [] outcome = "interrupted" -> "missing"
    [] OTHER -> "ready"

Captured_Never(turn) == FALSE

\* A captured checkpoint is never captured again.
Captured(turn) == db.checkpoint[turn] \in {"ready", "error"}

Capture(turn, number, status, at) ==
  [kind |-> "capture", turn |-> turn, number |-> number, status |-> status, at |-> at]

\* A placeholder's number is the captured checkpoint's.
CaptureNumber(turn) ==
  IF db.checkpoint[turn] = "missing" THEN db.number[turn] ELSE LastNumber + 1

\* captureCheckpointFromTurnCompletion, once ingestion has processed the
\* completion
CaptureCompletion ==
  /\ capturing = Nothing /\ captures # <<>> /\ Head(captures).kind = "ended"
  /\ LET e == Head(captures)
     IN /\ e.turn \in receipts
        /\ capturing' =
             IF ReadSession(db).active \in {NoTurn, e.turn} /\ ~Captured(e.turn)
             THEN Capture(e.turn, CaptureNumber(e.turn), CheckpointStatus(e.outcome), e.at)
             ELSE Nothing
  /\ captures' = Tail(captures)
  /\ UNCHANGED <<mem, db, clock, asked, upsets, reactor, provider, ingestion,
                 overlap>>

\* The receipt does not come in time: nothing is captured, now or later.
CaptureGivenUp ==
  /\ capturing = Nothing /\ captures # <<>> /\ Head(captures).kind = "ended"
  /\ Head(captures).turn \notin receipts
  /\ captures' = Tail(captures)
  /\ UNCHANGED <<mem, db, clock, asked, upsets, reactor, provider, ingestion,
                 capturing, overlap>>

\* captureCheckpointFromPlaceholder
CapturePlaceholder ==
  /\ capturing = Nothing /\ captures # <<>> /\ Head(captures).kind = "placeholder"
  /\ LET e == Head(captures)
         busy == \/ ReadSession(db).active = e.turn
                 \/ db.latest = e.turn /\ db.state[e.turn] = "running"
     IN capturing' = IF busy \/ Captured(e.turn) THEN Nothing
                     ELSE Capture(e.turn, e.number, "ready", e.at)
  /\ captures' = Tail(captures)
  /\ UNCHANGED <<mem, db, clock, asked, upsets, reactor, provider, ingestion,
                 overlap>>

\* The checkpoint is in git; the reactor sees its own event when it is another
\* placeholder.
CaptureWrites ==
  /\ capturing # Nothing
  /\ Project(DiffCompleted(capturing.turn, capturing.number, capturing.status,
                           capturing.at))
  /\ captures' = IF capturing.status = "missing"
                 THEN Append(captures, [kind |-> "placeholder", turn |-> capturing.turn,
                                        number |-> capturing.number,
                                        at |-> capturing.at])
                 ELSE captures
  /\ capturing' = Nothing
  /\ UNCHANGED <<clock, asked, upsets, reactor, provider, ingestion, overlap>>

\* git fails.
CaptureFails ==
  /\ capturing # Nothing
  /\ capturing' = Nothing
  /\ UNCHANGED <<mem, db, clock, asked, upsets, reactor, provider, ingestion,
                 captures, overlap>>

-----------------------------------------------------------------------------
OperatorStep == StartTurn \/ \E t \in Turns \cup {NoTurn} : Interrupt(t)

CallStep(r) ==
  \/ SendTurn(r) \/ SendSteers(r) \/ CallFails(r)
  \/ SteerTurn(r) \/ SteerBecomesSend(r)
  \/ StartFailed(r) \/ MarkSteered(r) \/ MarkReads(r) \/ MarkWrites(r)

ReactorStep == ReactStart \/ ReactInterrupt

ProviderStep ==
  \/ ProviderDiff
  \/ \E o \in Endings : ProviderEnds(o)
  \/ \E t \in Turns : ProviderReopens(t)

IngestionStep == IngestReads \/ IngestLifecycle \/ IngestReopened \/ IngestDiff

CheckpointStep ==
  CaptureCompletion \/ CaptureGivenUp \/ CapturePlaceholder \/ CaptureWrites
    \/ CaptureFails

Next ==
  \/ OperatorStep
  \/ ReactorStep
  \/ \E r \in Requests : CallStep(r)
  \/ ProviderStep
  \/ IngestionStep
  \/ CheckpointStep

Spec == Init /\ [][Next]_vars

-----------------------------------------------------------------------------
(* Properties.                                                             *)

\* Nothing is on its way and the provider is idle.
AtRest ==
  /\ intents = <<>> /\ reported = <<>> /\ captures = <<>>
  /\ ingesting = Nothing /\ capturing = Nothing
  /\ running = NoTurn /\ calls = [r \in Requests |-> NoCall]

(***************************************************************************)
(* No thread is left busy: once every handler, call and capture is done,   *)
(* the session that memory and database show neither starts nor runs a     *)
(* turn, whatever late starts, marks, ends and checkpoints were written in *)
(* between, and also if the provider went on with its last turn after its  *)
(* end - unless a turn was asked for before an earlier one was seen to     *)
(* start, or the provider went on with an earlier turn than its last.  A   *)
(* thread left busy could not be sent another turn.  (A turn's row may     *)
(* still say that the turn runs: the session does not.)                    *)
(***************************************************************************)
SettledAtRest ==
  AtRest /\ overlap = "none" /\ reopened # "earlier" =>
    /\ mem.status \notin {"starting", "running"} /\ mem.active = NoTurn
    /\ mem.state # "running"
    /\ db.status \notin {"starting", "running"} /\ db.active = NoTurn

(***************************************************************************)
(* The thread's row never goes back to an earlier turn that has a row: a   *)
(* late session or checkpoint of the turn before is not taken for the      *)
(* latest one, nor is an earlier turn that is reopened - unless a turn was *)
(* asked for while the call for an earlier one was on its way.  (A turn    *)
(* that gets its row only then takes the time of the start that is         *)
(* pending, and may be taken for the latest.)                              *)
(***************************************************************************)
LatestForward ==
  [][overlap' # "call" /\ Row(db, db.latest') # "none" => db.latest' >= db.latest]_vars

\* The ingestion takes an event with which the provider reopens turn t: "the one
\* explicit exception" of ProviderRuntimeIngestion.ts:1977.
Recovers(t) ==
  /\ ingesting # Nothing /\ ingesting' = Nothing
  /\ ingesting.event.kind = "reopened" /\ ingesting.event.turn = t

(***************************************************************************)
(* A turn that is over does not run again, in the rows as in memory while  *)
(* it is the latest: a running session that was written late, by a mark or *)
(* a start read before the end, does not reopen it.  The one exception is  *)
(* the step with which the ingestion takes the provider's own word that    *)
(* the turn goes on: what is written late after that step, of this turn or *)
(* of another, reopens nothing again.                                      *)
(***************************************************************************)
TurnsStayEnded ==
  [][/\ \A t \in Turns :
          db.state[t] \in Terminal => db.state'[t] \in Terminal \/ Recovers(t)
     /\ mem.state \in Terminal /\ mem.latest' = mem.latest =>
          mem.state' \in Terminal \/ Recovers(mem.latest)
    ]_vars

(***************************************************************************)
(* Memory and database have the same checkpoint of every turn, whoever of  *)
(* ingestion and capture writes last, unless two turns have the same       *)
(* number in memory or the provider went on with a turn after its end: no  *)
(* late placeholder takes the place of a captured one (memory refuses it,  *)
(* the database relies on who writes it), and whoever writes a number that *)
(* is given twice leaves it twice in memory.  (Of a turn that goes on, a   *)
(* second diff may be taken for one without a checkpoint just before the   *)
(* first end is captured.)                                                 *)
(***************************************************************************)
DistinctNumbers ==
  \A t, u \in Turns : t # u /\ mem.number[t] # 0 => mem.number[t] # mem.number[u]

CheckpointsAgree ==
  reopened = "none" /\ DistinctNumbers => db.checkpoint = mem.checkpoint

(***************************************************************************)
(* "A real (non-placeholder) capture from CheckpointReactor should not be  *)
(* clobbered" (ProviderRuntimeIngestion.ts:2501).                          *)
(***************************************************************************)
CapturedStays ==
  [][\A t \in Turns : Captured(t) => db.checkpoint'[t] = db.checkpoint[t]]_vars

(***************************************************************************)
(* "Only a new, exact, provider-confirmed completed turn can authorize one *)
(* automated follow-up" (docs/auto-nudge-canon.md:53): a turn that ended   *)
(* interrupted does not become a completed one.                            *)
(***************************************************************************)
InterruptedStays ==
  [][\A t \in Turns : db.state[t] = "interrupted" => db.state'[t] # "completed"]_vars
=============================================================================
