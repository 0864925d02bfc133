# A verification of the Club Code server core

TLA+ models of the parts of Club Code that carry its work from one process to
another: the durable event journal and the command ledger of the provider
daemon, the bridge that brings runtime events into the backend, the
event-sourced orchestration engine, the fan-out to renderers, the queue of
follow-up prompts, Auto Nudge, and the life of a thread's turns in both
projections. TLC checks each on a small instance, TLAPS proves the main
safety properties for every instance. `PROJECT.json` maps every definition to
the lines it stands for. Paths below are relative to `apps/server/src/` unless
they begin with `apps/` or `packages/`.

## 1. The system

Club Code is a desktop and web client for coding agents (Codex, Claude,
OpenCode). A *backend* (Node, Effect) keeps the projects and threads; *renderers*
connect over a websocket; a *provider daemon* runs the agents so that they
survive a restart of the backend, and may itself sit in front of a *supervisor*.
The desktop shell starts and restarts daemon and backend.

    renderers ──commands──▶ ws.ts ─▶ OrchestrationEngine ─▶ event store,
        ▲                                │                 projections, receipts
        │ events                         ▼                 (one SQL transaction)
    SubscriptionHub ◀── PubSub ── domain events ──▶ reactors
                                         │             ProviderCommandReactor ──RPC──▶ daemon
                                         ▲             CheckpointReactor, ...        │ CommandLedger
                            ProviderRuntimeIngestion ◀── RemoteProviderService ◀──── EventJournal

### Inventory

| part (sources) | state it keeps | operations | what is hard | what makes it correct |
|---|---|---|---|---|
| Event journal (`providerDaemon/EventJournal.ts`) | SQLite rows by cursor, listeners, `eventsSincePrune`, event-id index | publish, replay page, prune, quarantine, startup maintenance | prunes of two fibers between inserts, crash in a prune, rows another build wrote | newest rows survive, cursors are never reused |
| Event stream (`providerDaemon/ProviderDaemonServer.ts:873-1087`) | per response: boundary, cursor, live queue, wake-up | open, boundary query, replay, live writing, cleanup | publication and disconnect while the boundary query is in flight, queue overflow | no gap, no repetition, no lost wake-up, no leaked listener |
| Command ledger (`providerDaemon/CommandLedger.ts`) | a row per command id | run once, startup clean-up | retry during execution, crash between execution and store, two daemons at once | at most one execution, the answer told is the answer kept |
| Daemon bridge (`providerDaemon/RemoteProviderService.ts`, `ProviderDaemonRuntimeCursor.ts`) | event cursor, PubSub of 16 records | connect, read, publish, reconnect, RPC with timeout | half-delivered responses, back pressure, cursor before acceptance | no record is passed over unhandled |
| Runtime ingestion (`orchestration/Layers/ProviderRuntimeIngestion.ts`) | work queue, processed ids, durable cursor, session and turn state it derives | process event, mark cursor, finalize | replay after restart, failing events, late and stale turn events | cursor and events agree, a turn's state does not regress |
| Orchestration engine (`orchestration/Layers/OrchestrationEngine.ts`) | command queue, read model, event log, receipts | dispatch, decide, commit, publish, reconcile | failure after commit, crash before the answer, retry of a rejected command | log, receipts, read model and publications agree |
| Projection pipeline (`orchestration/Layers/ProjectionPipeline.ts`) | projection tables, a cursor per projector | project in the transaction, bootstrap | bootstrap bounded to one read, projectors at different cursors | snapshot at the lowest cursor, nothing projected twice |
| Thread domain (`orchestration/decider.ts`, `projector.ts`, `commandInvariants.ts`) | projects, threads, sessions, turns, follow-ups, checkpoints, Auto Nudge | about forty commands | several windows, commands formed before a Stop, replays | FIFO follow-ups, Stop is a barrier, one nudge per turn |
| Provider command reactor (`orchestration/Layers/ProviderCommandReactor.ts`) | request queue, fibers per provider call, recovery caches | start, steer, interrupt, approvals, startup repair | timeout while the daemon executes, session list stale or missing, restart | a prompt reaches the provider once and its handoff is resolved |
| Checkpoint reactor, receipt bus (`orchestration/Layers/CheckpointReactor.ts`, `RuntimeReceiptBus.ts`) | git checkpoints, bounded receipts | capture, revert, await receipt | receipts later than their wait, placeholder and real capture in either order | each turn ends with its own checkpoint |
| Subscription hub (`orchestration/Services/OrchestrationSubscriptionHub.ts`) | tail cursor, ring, queues with coalescing | poll, listen, publish, subscribe, overflow | two producers, join of replay and queue, replacing queued updates | nothing lost or doubled after the snapshot |
| Websocket transport (`ws.ts`, `websocket/`) | connections, byte budget | methods, snapshot chunks | budget released on every path | no connection starves |
| Provider service, directory, reaper (`provider/Layers/`) | sessions and their bindings | start, send, steer, stop, recover, reap | recovery of a binding against a running session | one session per thread |
| Provider adapters, registry, drivers (`provider/`) | child processes and their protocols | protocol translation, probing, updates | external programs | - |
| Provider supervisor (`providerSupervisor/`, `providerDaemon/ProviderSupervisorProcessManager.ts`) | session ownership by generation | claim, renew, release, hand over | two daemons claim one session | one owner per generation |
| Authentication (`auth/`) | pairing credentials, sessions, secrets | issue, consume, revoke, expire | one-time use, expiry while in use | a credential is used once |
| Collaboration (`collaboration/`) | signed events and heads | admit, store | concurrent admission | per-author chains |
| Startup, CLI (`serverRuntimeStartup.ts`, `cli/`) | phases, a second engine in the project CLI | start, probe | order of layers and reactors, CLI against a busy server | no event before its consumer |
| Persistence (`persistence/`) | SQLite | single statements, migrations | - | - |
| Text generation, source control, workspaces, media, lighting, diagnostics, notifications, usage | local caches | I/O | external programs | - |
| Desktop shell, web client, contracts, generated bindings (`apps/`, `packages/`) | windows, stores, schemas | - | several windows of one user | - |

Interactions worth naming: the journal and the stream handlers share an event
loop, so a handler is only interrupted at an `await`; the engine has one worker
fiber, and all commands, of renderers and of reactors, pass it; reactors hear
events over PubSubs that keep nothing for a subscriber that is not there yet;
the reactor forks a fiber per provider call, so accepting, releasing and
ingesting race; the daemon keeps executing what a caller has given up on.

## 2. Modules

| module | models | checked by | proved in |
|---|---|---|---|
| `LogDelivery` | abstract: ordered delivery of a prefix-trimmed append-only log | refined by `EventStream` | - |
| `EventJournal` | the journal, its publisher and its maintenance fiber | through `EventStream` | `EventStreamProofs` |
| `EventStream` | the stream handlers on top of the journal | `MCEventStream` | `EventStreamProofs` |
| `EventBridge` | reader, PubSub, ingestion worker, cursors, restarts | `MCEventBridge` | `EventBridgeProofs` |
| `CommandLedger` | `runOnce` and clean-up with overlapping daemons | `MCCommandLedger` | `CommandLedgerProofs` |
| `OrchestrationEngine` | queue, worker, transaction, reconciliation, bootstrap | `MCOrchestrationEngine` | `OrchestrationEngineProofs` |
| `SubscriptionHub` | producers, ring, queues, coalescing, replay | `MCSubscriptionHub` | `SubscriptionHubProofs` |
| `FollowUps` | follow-up queue, reactor, daemon calls, ingestion, startup repair | `MCFollowUps` | `FollowUpsProofs` |
| `AutoNudge` | Auto Nudge's commands, its authority and what moves its baseline | `MCAutoNudge` | `AutoNudgeProofs` |
| `TurnProjection` | what each event of a turn's life does to the read model in memory and to the tables, and the session a query answers | through `ThreadTurns` | `ThreadTurnsProofs` |
| `ThreadTurns` | operator, command reactor, provider, ingestion and checkpoint reactor around those projections | `MCThreadTurns` | `ThreadTurnsProofs` |

The pieces compose along their interfaces: `EventStream` implements
`LogDelivery` (a reader gets, from its position, every stored row in order), and
`EventBridge` takes exactly that as its stream; `CommandLedger` shows that
one command id is executed once. The backend gives each call a fresh id
(`providerDaemon/RemoteProviderService.ts:202`), so the ledger does not merge two
sends of one follow-up, and `FollowUps` counts each executed call. An
accepted dispatch is one atomic step of `FollowUps`, which is what
`OrchestrationEngine` provides while its read model is current. So is it of
`AutoNudge` and `ThreadTurns`; what `ThreadTurns` finds out about the end of a
turn (an interrupted turn may become a completed one) is a step of `AutoNudge`.

### State and actions against the code

**EventJournal / EventStream.** `rows` is the table by cursor, `pruned` the
deleted prefix. `Insert` and `Notify` are the halves of `publish` around the
listener loop; a prune is a boundary read (`AfterNotify`, `StartMaintenance`)
and then one `DELETE` per step (`PublisherPrune`, `MaintenancePrune`). A
handler's `phase` is the `await` it is at: `Open`, `QueryBoundary` (the database
evaluates), `ResumeOpen` or `ResumeCleanedUp` (the handler goes on), `ReadPage`,
`WritePage`, `WriteLive`. `Notify` calls `enqueueLive` of every handler, with
the overflow branch. `Abort` is `cleanup`, `Restart` the end of the daemon.

**EventBridge.** An event is its cursor. `Build` and `Subscribe` are the two
moments of `serverRuntimeStartup`: layers built (the read loop forks), reactors
started (the ingestion subscribes). `Read`, `ReadStale` and `Disconnect` are the
NDJSON reader, whose buffered lines are handed over even after the response
failed; `Enqueue`, `Work`, `Mark` the ingestion's stream, worker and cursor
writes; `Crash` and `Stop` the ends of the process, the second with the
finalizer.

**CommandLedger.** `step` is the database call or provider call a request waits
for. `StartDaemon` is the startup update; daemons overlap because the desktop
may start a new one while an unreaped one still serves.

**OrchestrationEngine.** An event is its position. `worker` is the await of the
worker fiber; `Commit` is the SQL transaction and the fold that follows with no
await between; `CommitReportsFailure` the case the reconciliation exists for.
`BootProjector` is `bootstrapProjector`, with its bounded read.

**SubscriptionHub.** `PollRead`/`PollClaim` and `ListenClaim` are the two
producers; `PublishNext` is `publish` up to the loop over subscribers, `Deliver`
one turn of it. `Schedulers` says whether the fiber may be suspended inside (the
Effect runtime yields after 2048 operations): the weaker properties are checked
under both schedulers, the stronger ones, whose failure needs a preemption, are
stated for the scheduler without.

**FollowUps.** One thread with a Codex-like provider that has one active turn.
The read model is `queue` and the session fields the decider reads; a task is a
fiber of the reactor with the branch of the handler it came from; `rpcs` are
calls at the daemon that were sent and not executed, also those whose caller has
timed out or died. `Ingest` is the session part of the ingestion. `Restart`
starts the repairs `RecoverStarts`, `ListSessions`, `Reconcile`, which run while
requests are already served. `EndOfTurn` and `TurnCompletes` stand for the
provider and are external.

**AutoNudge.** One thread. `sent` holds the commands that windows have formed and
the engine has not decided; a command carries the authority revision and the turn
its window saw. `AcceptConfigure`, `Stop`, `AcceptDispatch`, `Shelve`, `Unshelve` are
the decider's branches, `Drop` is a refused or lost command. `TurnRuns`,
`TurnSettles`, `TurnReopens`, `CheckpointReady`, `OrphanSettles`, `StartFails` and `Reverted` are
the events that change the latest turn; the checkpoint of an interrupted turn
makes it completed, as in the code. `Boot` is a restart: the read model is rebuilt from the
database with the baseline of `failClosedAutoNudgeAuthorityAfterBootstrap`.
A dispatch brings a fresh message id. `Holds` and `Places` say what else may hold a
nudge back.

**TurnProjection / ThreadTurns.** One thread with a live session of a Codex-like
provider in a git workspace. `TurnProjection` is two functions of projection and
event: `MemoryAfter` (`projector.ts`) and `TablesAfter` (`ProjectionPipeline.ts`, with
the projectors in their order), and `ReadSession`, the reconciliation a query makes.
In `ThreadTurns` a dispatched command is one step (`Project`), and between what an
actor reads and what it writes anything may happen: `MarkReads`/`MarkWrites` are the halves
of `markThreadRunningFromSendTurnResult`, `IngestReads`/`IngestLifecycle`/`IngestDiff` those
of the ingestion's handler, `CaptureCompletion`/`CapturePlaceholder`/`CaptureWrites` those of
the checkpoint reactor. A call is a forked fiber: `send` may start a turn
(`SendTurn`), be routed to the running one by the provider service (`SendSteers`), or
fail; `steer` is the reactor's own routing to the turn it saw, and is sent
as a new turn when that is over (`SteerBecomesSend`). Times are a logical clock; the mark of a
turn carries the time of its request, as in the code. Checkpoints have the numbers
that ingestion and reactor compute from what they read. `ProviderReopens` is the
provider going on with a turn whose end was reported
(`provider/Layers/CodexSessionRuntime.ts:4174`, live work of a subagent); `IngestReopened`
writes it as the session that carries `terminalTurnRecovery`
(`orchestration/Layers/ProviderRuntimeIngestion.ts:1863`, `Recovery` in `TurnProjection`), the one
event by which both projections let a closed turn run again. Two history variables:
`overlap` tells whether a turn was asked for while an earlier one's `start`
or even `call` was on its way, `reopened` whether the provider went on with a turn after
its end, the `last` one it had started or an `earlier` one.

## 3. Runs

State counts are distinct states; each run takes about four minutes at most with
two workers. `PROJECT.json` names, for each property of a passing run, a
plausible mistake in the code (a definition of the model exchanged for one with
a suffix, as `Surplus_OffByOne`) that makes TLC report that property.

| run | instance | shows |
|---|---|---|
| `event_stream` | 1 event id, 1 handler, `Capacity` 2, `PruneInterval` 1, `PruneBatch` 1, `PageSize` 1, `LiveLimit` 1, `LiveMultiplier` 2, `MaxRows` 4; 228 000 states | `LogDelivery` implemented: no gap, no repetition; no lost wake-up, no leaked listener, newest rows kept; every row reaches a handler that stays open |
| `event_bridge` | 4 records, the third a quarantine record, `Overlap` 2, `PersistInterval` 2, `BridgeCapacity` 1, 2 incidents; 149 000 states | no cursor passes an event nobody dealt with, events are first tried in order, each record is dealt with in the end |
| `command_ledger` | 1 command, 3 requests, 2 daemons; 114 000 states | at most one execution, told results are stored and final, every request returns |
| `engine` | 2 commands, 2 callers, 2 projectors, `Backlog` 3, `ReadLimit` 2, `MaxPerCommand` 2, `MaxLog` 5; 303 000 states | receipts match the log, answers match receipts, verdicts are final, the worker decides on the whole log and publishes it once, every dispatch is answered |
| `hub` | 1 subscriber, 2 keys, `RingMax` 2, `QueueMax` 2, `ReadLimit` 2, `MaxLog` 3, both schedulers; 455 000 states | no event twice, published events arrive, protected events are barriers and arrive, newest update survives, the poll reaches every event; excepted is what a catch-up from the store leaves out and what a preempted fiber publishes too late |
| `followups` | 2 follow-ups, `MaxSends` 2, 1 turn, 1 incident; 1 820 000 states | only the head is handed off, and what is still queued reaches the provider only from the head |
| `followups_retry` | 1 follow-up, `MaxSends` 3, 2 turns, 1 incident | delivered again only after a handoff without an answer, removed only when delivered, each handoff is somebody's to resolve but for a steer recovered before |
| `auto_nudge` | cap 1, `MaxRevision` 2, 2 turns, 2 ends of turns, 1 Stop, 1 restart, 2 commands in flight, a follow-up queued or a handoff continued, the thread archived or not; 9 340 000 states | no completion is nudged twice, the cap holds, nothing formed before a Stop has an effect after it, nudges follow turns that completed after the arming and the last restart |
| `auto_nudge_own_turn` | 1 window's chain | *violated* `OwnTurnNeverAuthorizes`: finding 1 |
| `thread_turns` | 2 turns, 2 requests, 1 interrupt or 1 turn that goes on after its end, both may complete and the first may fail; 6 820 000 states | no thread is left busy and the latest turn never goes back, each unless a turn was asked for too early; an ended turn runs again only in the step that takes the provider's word for it; memory and database agree on checkpoints |
| `thread_turns_interrupted` | 1 turn, 1 interrupt | *violated* `InterruptedStays`: finding 2 |
| `thread_turns_clobbered` | 2 turns that complete | *violated* `CapturedStays`: finding 3 |

The type invariants of the stream, the bridge, the ledger, the engine and Auto Nudge
are proved for all constants and not repeated in the runs; so are `NoGap` (part
of `DeliversLog`) and `RewindBounded` (a replay sets the durable cursor back by less than
the overlap).

Some properties are stated with the exception the code makes necessary, by a name in
the formula and in its comment (section 5 says what happens then):

| property | exception |
|---|---|
| `CursorsSkipNothing` | published before the ingestion subscribed (`missed`); an event whose processing failed counts as dealt with |
| `DecidesOnWholeLog` | the start or a reconciliation left the read model behind (`current`) |
| `HandoffIsOwned` | a follow-up whose steer was recovered before (`recovered`) |
| `PublishedArrives`, `NewestSurvives`, `ProtectedArrive` | beyond the one read of a replay from the store (`Skipped`) |
| `ProtectedArrive` | published too late by a preempted fiber (`Overtaken`) |
| `NewestSurvives`, `ProtectedBarrier` | any preemption (`preempts`) |
| `LatestForward` | a turn asked for while the call for an earlier one was on its way (`overlap`) |
| `SettledAtRest` | that, or while an earlier one's start was; an earlier turn than the last went on after its end (`reopened`) |
| `TurnsStayEnded` | the step in which the ingestion takes the event that reopens the turn (`Recovers`) |
| `CheckpointsAgree` | two turns have one number in memory; any turn went on after its end |

### Bounds, and why they are enough

* `event_stream`: a replay of four rows takes several pages of one row, with
  prunes of one row between any two; two records overflow the live queue after
  the boundary and three before it; a restart can happen anywhere. Handlers do
  not touch each other's state (the models' proofs hold for any set of them), so
  one is enough. `Capacity` 2 leaves rows to prune and rows that must stay.
* `event_bridge`: an overlap and an interval of 2 over 4 records make restarts
  replay rows, half of them applied; a subscription of one record makes the
  reader wait; two incidents combine a lost connection with a crash or with a
  failure, or two crashes.
* `command_ledger`: commands share nothing, so one is enough; three requests
  allow a race of two and a retry; two daemons can overlap, and each restarts
  any number of times.
* `engine`: `ReadLimit` 2 is below the backlog of 3 (bootstrap falls short) and
  not below what a command yields, as in the code; two callers may dispatch the
  same command or different ones.
* `hub`: a ring of two over three events is outgrown, a queue of two overflows,
  two keys tell identities apart. `ReadLimit` 2 is below the log of three, so that a
  catch-up from the store does leave events out; without the exception
  `Skipped`, or without `Overtaken`, TLC finds `ProtectedArrive` violated (section 5).
* `followups`: two follow-ups make a head and a rest; the retry run trades the
  second for longer chains of activation, turn end, recovery and activation.
  One incident is one prompt outside the queue, Stop, lost answer or restart:
  the properties that count unanswered handoffs need one, and two would only
  add independent ones.
* `auto_nudge`: the revision saturates at its maximum, so that a Stop has to be
  told from a later one without it; commands of two armings can be in flight at
  once, and turns suffice for the armed one, the nudge's own and one the
  operator starts.
* `thread_turns`: two turns make an earlier and a later one, two requests let the
  call, the mark or the end of the first come after the second was asked for; the
  interrupt may name either, and either may go on after its end. One upset is an interrupt or
  a turn that goes on: both together are in the proofs of the theorems that hold with
  reopened turns. Both turns may complete and the first may also fail (`MayFail`);
  letting both fail finds no violation either, in 11 900 000 states and more time than a
  run should take. The diff of each turn may be reported or not, each receipt may come in
  time or not, git may fail on any capture.

`CHECK_DEADLOCK FALSE` in the bridge's, the hub's, the follow-ups', Auto Nudge's and the turns'
runs: their counters are bounded, so the model may stop where the program goes on. The
journal, the ledger and the engine are checked for deadlock.

### Fairness

* `event_stream`: the event loop goes on with a publish that has begun
  (`Notify`, `PublisherPrune`) and with each handler (`HandlerStep`). Clients,
  events and failures are not owed. A client that does not read is closed by
  the queue limit or its socket, which is `Abort`.
* `event_bridge`: the desktop shell restarts a backend that has ended and its
  startup ends (`Build`, `Subscribe`); `Effect.forever` reconnects (`ReadLoop`);
  the worker's loops run. Incidents are bounded, as eventual delivery needs.
* `command_ledger`: each request's fiber runs (`Serve`), hence the provider
  answers or fails each call, which the adapters' own timeouts see to.
* `engine`: the worker loops (`Work`). Failures are excluded from it: they may
  happen, not must.
* `hub`: both producers loop. `ListenClaim` is left out of the fairness on
  purpose: `TailFollowsLog` says that the poll alone is enough.
* `FollowUps`, `AutoNudge` and `ThreadTurns` have safety properties only. Every
  step of `ThreadTurns` uses something up (a request, a report, an input), so all its
  behaviours end, and `SettledAtRest` says of each end what a liveness property
  would.

## 4. Proofs

Everything below holds for every value of the constants under the assumptions
the modules name (capacities and limits positive, `ReadLimit` at least what a
command yields). Each argument is an inductive invariant, first checked with
TLC.

* **EventStreamProofs**: `TypeCorrect`, `PruningKeepsNewest`, `StreamHasNoGap`,
  `NoLostWakeUp`, `ListenersDoNotLeak`, `StreamImplementsLogDelivery`.
  `NoGap` is not inductive: whether the next record written leaves a gap depends
  on what is in the queue and the page. `IInv` adds, per handler, that the live
  queue is an uninterrupted tail of the announced rows (`QueueIsTail`), that
  whatever is older is within the coming replay (`ReplayCovers`) or, once live,
  written or pruned (`LiveCovers`), that a page continues at the cursor
  (`PageContinues`), which flags go with which await (`HandlerShape`); and that each
  prune in progress stays below the newest rows (`PruneSafe`). The refinement adds that no handler's queue or
  page is ahead of the log (`BehindTail`).
* **EventBridgeProofs**: `TypeCorrect`, `NoCursorSkips`, `ReplayRewindsLittle`,
  `EventsTakenInOrder`, `LoopsNeverAllWait`.
  Worker queue and inbox form one line. Whatever is smaller than an event in
  it was dealt with or stands before it (`LineInOrder`); whatever is behind the
  reader, and behind each old connection, was dealt with or stands in it
  (`ReaderBehind`); whatever is behind a cursor or the event being marked was
  dealt with (`CursorsBehind`). So when the head of the line is taken up, all
  before it is settled. The rewind needs a second invariant: until a process has
  written the row once, whatever it has in hand is past the row less the overlap
  (`InHandBeyond`). The order of first tries needs a third (`OrderInv`): every connection,
  open or lost, stands where all that is new is still to come (`Position`), and an entry of
  the line is newer than all before it or was met before (`InOrder`). `LoopsNeverAllWait`
  follows from the first invariant: a stored record that was not dealt with is behind no
  cursor, so it stands in the line, or the reader has yet to come to it, or there is no
  connection and one can be made.
* **CommandLedgerProofs**: `TypeCorrect`, `CommandsRunAtMostOnce`,
  `RetriesAgree`, `ResultsAreFinal`. At most one request carries a command past
  its INSERT (`OneCarrier`), its row is then `running` or `abandoned`
  (`CarriedRow`), and a command without a row has never run (`FreshRow`,
  `NotYetRun`).
* **OrchestrationEngineProofs**: `TypesHold`, `ReceiptsAndLogAgree`,
  `VerdictsAreFinal`, `WorkerFollowsLog`, `WaitingKeepsWorkerBusy`. Three layers: types and positions
  within the log (`TInv`); a worker past the receipt lookup has no receipt, and
  receipts describe the log (`RInv`); read model and publications are exactly
  the events since the start, with what the current dispatch still owes (`MInv`). The envelope of
  a caller that waits stays in the queue until it is answered, and there is none while the
  server is down or boots (`WaitingIsQueued`).
* **SubscriptionHubProofs**: `TypesHold`, `NothingTwice`, `NothingOvertakes`, `ShownArrives`,
  `NewestKept`, `ProtectedReach`, `HubNeverStuck`. Most are about `Stream(s)`, what a
  subscription was and will be handed: a step leaves it alone, starts it with a replay, appends the carried event,
  puts it in a queued one's place, or loses the queue. A carried event is not in
  the stream yet (`Apart`) and no other fiber carries it (`Alone`); without preemption
  it is newer than the whole stream (`NoGap`); epochs grow along the queue (`Epochs`),
  so behind an entry that is replaced stands nothing protected and nothing of its
  identity; the ring has no holes (`Reaches`), so a replay misses nothing. None of it
  assumes anything of `ReadLimit`: `ShownArrives`, `NewestKept` and `ProtectedReach` hold for
  a log of any length, with what a replay from the store leaves out (`Skipped`, from the
  cursor captured at registration) as the only events that may be missing, and for
  `ProtectedReach` those of a suspended fiber (`Overtaken`), which it admits under
  preemption. For `HubNeverStuck`
  the last event claimed was passed or is the last one that a fiber has to publish
  (`ClaimsEndAtTail`), and while fibers do not preempt each other only one has any (`OneBatch`).
* **FollowUpsProofs**: `HandoffStaysAtHead`, `TypesHold`, `HeadIsDelivered`,
  `AcceptedReachedTheProvider`, `HandoffStaysOwned`, `DeliveredOnceUnlessUnanswered`. At the
  bottom, the queue hands off at most its head and stamps it (`QueueInv`). `WorkInv` follows
  each activation, told apart by its stamp: it has one request, or one task with its call, or
  a call that nobody waits for (`OneEach`), and each belongs to the head or to a follow-up
  that has left (`Named`). So only the head is delivered. A task whose call was answered
  has delivered, which is what an acceptance reports. `HandoffIsOwned` becomes inductive when
  the owner is a prompt, never a Stop (`HandoffOwned`), and the repairs of the startup
  leave the head resolved (`Resolved`). Deliveries are counted against a credit: what reached
  the provider and what calls may still deliver is at most the handoffs given up, and one
  more while the activation is alive (`Credit`).
* **AutoNudgeProofs**: `TypesHold`, `StopIsABarrier`, `NoCompletionIsNudgedTwice`,
  `NudgesFollowFreshTurns`, `RoundsStayWithinCap`. A command formed before a Stop has
  an older revision than the authority, or the revision has reached its maximum,
  where it is never armed again; the baseline is the nudged turn
  or a later one, so that its completion does not pass twice.

* **ThreadTurnsProofs**: `TypesHold`, `EndedTurnsStayEnded`, `LatestGoesForward`,
  `NobodyLeftBusy`, `PartedByNumber`, `TablesNumberedApart`, `CapturedLostByNumber`,
  `CompletedByCapture`, `CheckpointsAlwaysAgree`, for any number of turns,
  requests and interrupts. Five hold whatever the provider goes on with: `TypesHold`,
  `EndedTurnsStayEnded` (`TurnsStayEnded` with its one exception), `TablesNumberedApart`,
  `CompletedByCapture`, and `CheckpointsAlwaysAgree`, whose property says nothing after a turn went on.
  The others speak of steps and states up to the first turn that goes on after its end
  (`reopened = "none"` stands in the theorems): their invariants are preserved by the
  steps before it (`SteadyStep`), and what comes after is only model-checked by
  `LatestForward` and `SettledAtRest`. Each event has a lemma that says what it does to the memory and
  to the tables; types (`TypeInv`) and the end of a turn (`EndKnown`: what is over in memory
  has a time of its end) follow from these alone. For the latest turn four layers are needed. `QueueInv`: reports are in the order of turn and time, nothing ahead of
  the ingestion concerns a turn whose end it knows, and a capture's turn was seen to
  start. `RowsInv`, `CallsInv`, `ClockInv` (with `QueueInv`, `KnownInv`): rows, calls and
  times are of turns and moments that have been. `LateInv`, while no call was overlapped: one
  turn is asked for at a time (`Solo`), a call was answered with the last turn
  (`CallTurn`), and a turn that has a row from its mark while its start is still ahead was
  asked for before every turn after it (`LateStart`). So a late start never passes
  `shouldPromoteLatestTurn` against a later turn.

  `NobodyLeftBusy` (`SettledAtRest`) needs a promise of every moment, `RestInv`, that holds
  while `overlap` is "none": who shows a turn as starting or running will still be written
  about, because a request is not answered or the last turn's end is not processed
  (`Promise`, `Owed`). It stands on what keeps late events from making the thread busy: only
  the last turn starts or is active (`OnlyLast`, `Clear`), it is the latest one
  once it was seen (`LastIsLatest`), memory and database agree on whether it is
  over (`Agreed`, `Closed`), what is still to be written of it carries a later time than
  the latest row (`Ripe`), so that it is not refused, and a turn that memory had before was
  over before the last one started (`MemoryBefore`). At rest no promise is open.
  TLC checked `RestInv` on two turns before the proof.

  The other theorems are about checkpoints. Memory refuses a
  placeholder for a captured turn and the tables take whatever is written last, so
  they agree only because nobody writes a placeholder too late. That is
  `CheckInv`: a turn whose diff is still to be ingested has no checkpoint and none
  on its way (`FreshInv`), and a capture that yields a placeholder is of a turn
  that was not captured (`NotOver`); no checkpoint has the number 0, which
  stands for none (`Numbered`). Then the two part over a turn only in a step that
  gives its number to another turn (`PartedByNumber`).

  Two theorems give the exact cause of what the violation runs show, for every
  number of turns: as long as no turn went on after its end a captured checkpoint changes in
  the database only by being cleared, in a step that gives its number to another turn
  (`CapturedLostByNumber`), and
  an interrupted row becomes a completed one only by the capture of that turn as
  `ready` (`CompletedByCapture`).

  `CheckpointsAlwaysAgree` (`CheckpointsAgree`) asks for numbers that are distinct in
  memory now, not for numbers that always were: two turns that once had the same number may
  get others, by a placeholder that was queued before, while a third still lacks
  its checkpoint in the database. What the state says is not enough, so the invariant
  (`GivenInv`) says that numbers `p` and `q` exist for each turn: the one ingestion
  gave to its placeholder and the one its first capture chose instead. A turn is
  `Behind` when memory has the first although the second was given. The tables may
  lack a number, or memory have another checkpoint for it, only if a turn that is behind
  has it as its second (`Masked`: `Kept`, `Differ`); and a placeholder's number that
  was lost or given again was given by the capture of an earlier turn than all whose
  placeholder has it (`Beaten`, `Won`). Were some turns behind while numbers are distinct,
  the first of them would have been beaten by an earlier turn, which is not behind and so
  shows the same number in memory. Hence none is behind, and both projections agree.
  That it is inductive rests on the queues: a turn's number is chosen anew only after
  its end was ingested and taken from the capture queue, where it is once
  (`EndedFirst`, `EndedOnce`), and later turns' diffs come after it.
  TLC checked every part of the invariant, with `p` and `q` as history variables, on two
  turns and, on a model reduced to the checkpoints, on three and four.

Only model-checked are the liveness properties of the runs: the provers have neither fairness
nor `ENABLED`. For four of them the part that is a safety property is proved: as long as
something is owed, a step whose action the specification makes fair can be taken
(`WaitingKeepsWorkerBusy` for `EveryDispatchAnswered`, `LoopsNeverAllWait` for
`EveryRecordHandled`, `HubNeverStuck` for the hub), or who waits has nothing left to write
(`NoLostWakeUp` for `EveryRowReachesOpenStreams`). What is left to TLC is that those steps
lead somewhere; TLC also found the guards named in these theorems equivalent to
`ENABLED` of the actions, on the bounds of the runs. The invariants and action properties of the
passing runs are all stated by theorems, `LatestForward` and `SettledAtRest` up to the first
turn that goes on after its end.

## 5. Findings

Three runs show that the code does other than what its documents or comments
say; `PROJECT.json` quotes them.

1. **The guard against nudging the nudge's own turn never holds**
   (`orchestration/decider.ts:872`). It looks for a dispatched message with the
   completed turn's id, and user messages are written without one. Run
   `auto_nudge_own_turn`; the cap still ends the chain.
2. **An interrupted turn becomes a completed one**
   (`orchestration/Layers/CheckpointReactor.ts:587`). The placeholder of an
   interrupted turn is captured as `ready`, which both projections take for the
   completion of the turn. Run `thread_turns_interrupted`.
3. **Two turns get one checkpoint number**
   (`orchestration/Layers/ProviderRuntimeIngestion.ts:2520`). Ingestion and checkpoint
   reactor number from what they read and write later; the second to
   write takes the other's checkpoint away. Run `thread_turns_clobbered`; the
   invariant `CheckpointsAgree` holds when numbers are distinct. A turn that goes
   on after its end is another way to lose a captured checkpoint (below).

Further disagreements met while modelling, each kept out of a property's claim by
a named exception or bound rather than shown by a run of its own:

* Events published before the ingestion subscribes are lost to it
  (`providerDaemon/RemoteProviderService.ts:381`): the read loop runs from the building
  of its layer, the ingestion subscribes in `reactors.start`, and a PubSub keeps
  nothing in between. `missed` in `CursorsSkipNothing`.
* After an upgrade that adds a projector to a log longer than 1000 events the
  engine starts at an old sequence, and the first failing command publishes old
  events on the hot stream (`orchestration/Layers/OrchestrationEngine.ts:124`).
* A subscriber's catch-up is one read of at most 1000 events
  (`orchestration/Services/OrchestrationSubscriptionHub.ts:396`): what lies
  between its last event and the cursor captured at registration is never read.
  `Skipped` in the hub's properties.
* The two producers of the hub claim through one cursor and publish after it
  (`orchestration/Services/OrchestrationSubscriptionHub.ts:309`): what a fiber that was suspended in
  between publishes too late is dropped. `Overtaken` in `ProtectedArrive`.
* A second recovery of one follow-up's steer within 30 minutes resolves nothing
  (`orchestration/Layers/ProviderCommandReactor.ts:2775`), and the head stays in handoff.
  `recovered` in `HandoffIsOwned`.
* Stop does not hold the queue of follow-ups (`orchestration/decider.ts:1279`): any
  event that makes the session ready lifts it for automatic activation; the
  barrier in `ChatView.tsx` belongs to the window that pressed Stop.
* A `turn.completed` of the turn before, read while no turn was active and
  written after the next was marked running, ends the next turn
  (`orchestration/Layers/ProviderRuntimeIngestion.ts:1941`); the thread settles all the same.
* A thread can stay busy for good (`overlap` in `SettledAtRest`). Ask for a turn before the
  earlier one's start was ingested, and interrupt the earlier one while the later call is
  not marked: memory takes the later turn's start for a late one (`orchestration/projector.ts`
  compares the interrupt's time with the start's), and the mark, written after
  the end, sets it running. Three turns, three requests and two interrupts show it.
* A turn that goes on after its end (`orchestration/Layers/ProviderRuntimeIngestion.ts:1863`) can
  leave the thread busy for good when it is an earlier turn than the last: the capture of its first
  end is written after it was reopened and sets the time of its end in memory back, so that the
  last turn's late mark is no longer taken for stale and memory shows it as running.
  `reopened` in `SettledAtRest`.
* A second diff of such a turn is read before the capture of its first end is
  written, and its placeholder then takes the place of the captured checkpoint in the
  tables, which memory refuses. `reopened` in `CheckpointsAgree`.
* The thread's row can go back to an earlier turn (`overlap` in `LatestForward`), although
  "A stale provider event must not move the thread shell back to an older … turn"
  (`orchestration/Layers/ProjectionPipeline.ts:200`). A turn whose mark was skipped and whose start is
  ingested after the next turn was asked for gets its row then, takes that request's time from the pending start
  (`orchestration/Layers/ProjectionPipeline.ts:2186`), and passes for the newer one. Four turns, five requests and
  two interrupts show it; both came out of attempts to prove the properties without
  the exception, on instances beyond the runs' bounds.

## 6. What the models leave out

* **Journal and stream**: rows of other owners, compaction of bodies, the
  in-memory journal of the tests, byte limits of the queue (they act like the
  limit on records) and the socket's own back pressure inside one write.
* **Bridge**: trimming of the journal (`EventStream` has it), other subscribers of
  the PubSub, records the backend cannot decode (they end the connection before
  they are accepted, and the next connection ends at the same one), RPCs.
* **Ledger**: requests without a ledger row change no ledger state.
* **Engine**: metrics, counters, what commands decide, and a second engine on the
  same database: the project CLI opens one when the server does not answer its
  probe (`cli/project.ts:290`), and the server's read model then misses its events.
* **Hub**: byte limits (an event larger than the ring's bytes is not modelled), the
  finer steps inside one turn of the delivery loop, and the moment between the
  hub's start and its first read.
* **Follow-ups**: sessions that are stopped or in error, `session.stop`, goals,
  content events that refresh a running session, the repair of orphaned turns
  and of late steers after a turn's end, failures of the backend's own database.
  One read model stands for the in-memory projector and the SQL projection. The
  steers' mismatch of turns is retried by the code with the actual turn, so a
  steer ends in acceptance, no turn, refusal or failure. `recoverActiveCodexStartAsSteer`
  waits for a message no adapter of the repository sends. Automatic
  activation is any window's, at any time the decider allows it.

* **Auto Nudge**: the text of a nudge, the reopening of a turn after a revert, and
  which of the two projections a command reads (the decider's read model; the database's
  baseline is kept apart as `storedLatest`).
* **Turns**: other threads; a provider without live steering, or without a session; the
  steer of an unsettled start; goals; session and thread state events, message
  content events and errors of the runtime, and the session state `stopped`; provisional turn ids; reverts, pruning of refs and the
  limit of checkpoints a thread keeps; settled captures and baselines; restarts; failing dispatches
  and SQL; events with equal timestamps (the clock is strict). A turn id is the number
  of the turn in the order the provider starts them.

### Not modelled

The map covers a small share of the repository, and most of the rest holds no
behaviour these tools could say something about: a generated protocol schema of 55 000 lines;
the web client's views (`apps/web`, about a third of the code), whose state is React's and
whose commands reach the models as nondeterminism; adapters that translate the
protocols of three external programs (`provider/Layers/*Adapter.ts`,
`CodexSessionRuntime.ts`), whose control lies in those programs; process, network and
file I/O; presentation. Parts with control of their own that are left out are the
supervisor's registry, credentials, the websocket's byte budget and collaboration
(section 7). The reason for each part stands under "components" in `PROJECT.json`.

Outside the prover's reach: liveness, `ENABLED`, and induction over data in general. The one
recursive function that the proofs need (`Kept` of the hub) is argued about by its
least counterexample. No module that is proved about declares a recursive operator.

## 7. Plan

In the order of what they would add:

1. **Checkpoint reverts**: `thread.checkpoint.revert`, the git restore and
   `thread.revert.complete` on top of `ThreadTurns`, with its pruning of rows and refs.
2. **Restart in ThreadTurns**: startup repair of orphaned turns and the late steers.
3. **SupervisorBridge** (`ProviderDaemonServer.ts:1128-1296`): the daemon as a reader
   of the supervisor's journal, which has its own overlap, cursor rows once in a
   hundred events, and inserts whose failure is logged.
4. **SupervisorRegistry**: ownership of sessions by generation; one owner, no
   resurrection of a released session.
5. **ConnectionFlowControl**: the byte budget of a connection is what its frames
   in flight hold, on every path.
6. **Credentials**: one-time use and expiry of pairing credentials.
7. A second engine on one database (`cli/project.ts:290`).
