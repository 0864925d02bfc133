----------------------------- MODULE FollowUps -----------------------------
(***************************************************************************)
(* The manual follow-up queue of one thread and the handoff of its head    *)
(* to the provider.                                                        *)
(*                                                                         *)
(* Three parties share the queue.  Renderers send commands, which the      *)
(* decider accepts or rejects against the read model (a rejection changes  *)
(* nothing, so only accepted commands are actions).  The provider command  *)
(* reactor takes the start, steer and interrupt requests the decider       *)
(* emitted, one at a time, and runs each provider call in a fiber of its   *)
(* own.  The provider daemon executes the calls, at a moment of its own    *)
(* and even when the caller no longer waits, and reports turns through an  *)
(* event stream that the runtime ingestion applies to the read model.      *)
(* The backend may restart: requests, fibers and caches are lost, the read *)
(* model, the daemon and its event stream are not.                         *)
(***************************************************************************)
EXTENDS Naturals, Sequences, FiniteSets

CONSTANTS
    Items,          \* follow-up ids, each made once by a renderer
    Direct,         \* stands for a prompt that does not come from the queue
    MaxQueue,       \* MANUAL_FOLLOW_UP_MAX_ITEMS
    MaxSends,       \* bound on activations
    MaxTurns,       \* bound on provider turns
    MaxIncidents    \* bound on prompts outside the queue, operator interrupts, lost
                    \* answers and restarts, all together

ASSUME FollowUpsAssumption ==
    /\ Direct \notin Items
    /\ {MaxQueue, MaxSends, MaxIncidents} \subseteq Nat
    /\ MaxTurns \in Nat \ {0}      \* the first turn may run at the start

VARIABLES
    clock,          \* the time; it advances where a later stamp must be told
                    \* from an earlier one
    \* --- the read model of the thread
    queue,          \* manualFollowUps: [id, status, at, act]
    status,         \* session.status
    active,         \* session.activeTurnId, 0 for none
    sessAt,         \* session.updatedAt
    latest,         \* latestTurn.turnId, 0 for none
    doneAt,         \* latestTurn.completedAt, 0 while it runs
    pending,        \* a pending turn start row exists
    \* --- the provider command reactor
    requests,       \* intents waiting for the worker
    tasks,          \* provider calls and what follows them
    recovered,      \* handledStaleSteerRecoveryKeys
    phase,          \* startup repairs: "starts", "list", "decide", then "up"
    snap,           \* what reconciliation saw of the runtime session
    \* --- the provider daemon
    rpcs,           \* calls sent and not executed
    rt,             \* the runtime session's active turn, 0 for none
    rtAt,           \* its session's updatedAt while it has one
    turns,          \* turns started so far
    stream,         \* runtime events on their way to ingestion
    \* --- the environment's budget and history
    seen,           \* follow-ups ever reserved
    sends,          \* activations
    incidents,      \* prompts outside the queue, interrupts, lost answers, restarts
    delivered,      \* how often each follow-up reached the provider
    unanswered,     \* how often a handoff of it was given up without an answer
    accepted        \* follow-ups accepted because the provider said so

readModel == <<queue, status, active, sessAt, latest, doneAt, pending>>
session   == <<status, active, sessAt, latest, doneAt, pending>>
startup   == <<phase, snap>>
runtime   == <<rt, rtAt, turns, stream, delivered>>
budget    == <<seen, sends>>
vars == <<clock, readModel, requests, tasks, recovered, startup, rpcs, runtime,
          budget, incidents, unanswered, accepted>>

(***************************************************************************)
(* The read model.                                                         *)
(***************************************************************************)
now == clock + 1
Tick == clock' = now

Head1 == queue[1]
Has(i) == \E k \in DOMAIN queue : queue[k].id = i
HandedOff(act) == queue # <<>> /\ Head1.status = "handoff" /\ Head1.act = act

threadHasUnsettledTurnStart == status \in {"starting", "running"} \/ active # 0

LatestRuns == latest # 0 /\ doneAt = 0

activeTurnIdForSteer ==
    IF active # 0 THEN active
    ELSE IF status = "running" /\ LatestRuns THEN latest ELSE 0

Ordered(a, b) == IF a >= b THEN a ELSE b

\* thread.session-set, as the projector applies it
SessionSet(st, turn, at) ==
    LET open  == IF active # 0 THEN active ELSE IF LatestRuns THEN latest ELSE 0
        runs  == st = "running" /\ turn # 0
        stale == \/ st = "starting" /\ at < sessAt
                 \/ runs /\ latest # 0 /\ doneAt # 0 /\ (turn = latest \/ doneAt >= at)
        closes == turn = 0 /\ open # 0 /\ st \in {"ready", "interrupted"}
    IN IF stale THEN UNCHANGED session
       ELSE /\ status' = st /\ active' = turn /\ sessAt' = at
            /\ latest' = IF runs THEN turn ELSE IF closes THEN open ELSE latest
            /\ doneAt' = IF runs THEN 0
                         ELSE IF closes /\ ~(open = latest /\ doneAt # 0) THEN at
                         ELSE doneAt
            /\ pending' = (pending /\ ~runs /\ (turn # 0 \/ st \notin {"ready", "interrupted"}))

\* thread.turn-start-requested
StartRequested ==
    /\ status' = "starting" /\ active' = 0 /\ sessAt' = now /\ pending' = TRUE
    /\ UNCHANGED <<latest, doneAt>>

Request(kind, i) == Append(requests, [kind |-> kind, id |-> i, act |-> now])

(***************************************************************************)
(* Commands of the renderers.                                              *)
(***************************************************************************)
Reserve(i) ==
    /\ i \in Items \ seen
    /\ Len(queue) < MaxQueue
    /\ Tick
    /\ queue' = Append(queue, [id |-> i, status |-> "reserving", at |-> now, act |-> 0])
    /\ seen' = seen \cup {i}
    /\ UNCHANGED <<session, requests, tasks, recovered, startup, rpcs, runtime, sends,
                   incidents, unanswered, accepted>>

\* the payload arrives for the reservation
Enqueue(k) ==
    /\ queue[k].status = "reserving"
    /\ queue' = [queue EXCEPT ![k].status = "queued"]
    /\ UNCHANGED <<clock, session, requests, tasks, recovered, startup, rpcs, runtime,
                   budget, incidents, unanswered, accepted>>

Cancel(k) ==
    /\ queue[k].status # "handoff"
    /\ queue' = SubSeq(queue, 1, k - 1) \o SubSeq(queue, k + 1, Len(queue))
    /\ UNCHANGED <<clock, session, requests, tasks, recovered, startup, rpcs, runtime,
                   budget, incidents, unanswered, accepted>>

queuedAfterTerminalBarrier ==
    status = "interrupted" /\ doneAt # 0 /\ Head1.at > doneAt

CanActivate_Again(mode) ==
    /\ queue # <<>> /\ Head1.status # "reserving"
    /\ \/ mode = "operator"
       \/ ~threadHasUnsettledTurnStart /\ (status = "ready" \/ queuedAfterTerminalBarrier)
    /\ threadHasUnsettledTurnStart => activeTurnIdForSteer # 0

CanActivate(mode) ==
    /\ queue # <<>> /\ Head1.status = "queued"
    /\ \/ mode = "operator"
       \/ ~threadHasUnsettledTurnStart /\ (status = "ready" \/ queuedAfterTerminalBarrier)
    /\ threadHasUnsettledTurnStart => activeTurnIdForSteer # 0

Activate_FirstQueued(mode) ==
  \E k \in DOMAIN queue :
    /\ queue[k].status = "queued" /\ \A j \in 1..(k - 1) : queue[j].status # "queued"
    /\ threadHasUnsettledTurnStart => activeTurnIdForSteer # 0
    /\ sends < MaxSends
    /\ Tick
    /\ queue' = [queue EXCEPT ![k].status = "handoff", ![k].act = now]
    /\ IF threadHasUnsettledTurnStart
       THEN requests' = Request("steer", queue[k].id) /\ UNCHANGED session
       ELSE requests' = Request("start", queue[k].id) /\ StartRequested
    /\ sends' = sends + 1
    /\ UNCHANGED <<tasks, recovered, startup, rpcs, runtime, seen, incidents, unanswered,
                   accepted>>

Activate(mode) ==
    /\ CanActivate(mode)
    /\ sends < MaxSends
    /\ Tick
    /\ queue' = [queue EXCEPT ![1].status = "handoff", ![1].act = now]
    /\ IF threadHasUnsettledTurnStart
       THEN requests' = Request("steer", Head1.id) /\ UNCHANGED session
       ELSE requests' = Request("start", Head1.id) /\ StartRequested
    /\ sends' = sends + 1
    /\ UNCHANGED <<tasks, recovered, startup, rpcs, runtime, seen, incidents, unanswered,
                   accepted>>

AutoActivate == Activate("automatic-after-settlement")
OperatorActivate == Activate("operator")

\* thread.turn.start: only while the queue is empty
DirectPrompt ==
    /\ queue = <<>>
    /\ threadHasUnsettledTurnStart => activeTurnIdForSteer # 0
    /\ incidents < MaxIncidents
    /\ Tick
    /\ IF threadHasUnsettledTurnStart
       THEN requests' = Request("steer", Direct) /\ UNCHANGED session
       ELSE requests' = Request("start", Direct) /\ StartRequested
    /\ incidents' = incidents + 1
    /\ UNCHANGED <<queue, tasks, recovered, startup, rpcs, runtime, budget, unanswered,
                   accepted>>

\* thread.turn.interrupt, the operator's Stop
Interrupt ==
    LET turn == IF active # 0 THEN active ELSE IF LatestRuns THEN latest ELSE 0
    IN /\ incidents < MaxIncidents
       /\ IF threadHasUnsettledTurnStart
          THEN status' = "interrupted" /\ active' = 0 /\ sessAt' = clock
          ELSE UNCHANGED <<status, active, sessAt>>
       /\ IF turn # 0 /\ latest \in {0, turn}
          THEN latest' = turn /\ doneAt' = IF doneAt # 0 THEN doneAt ELSE clock
          ELSE UNCHANGED <<latest, doneAt>>
       /\ requests' = Append(requests, [kind |-> "interrupt", id |-> Direct, act |-> 0])
       /\ incidents' = incidents + 1
       /\ UNCHANGED <<clock, queue, pending, tasks, recovered, startup, rpcs, runtime, budget,
                      unanswered, accepted>>

(***************************************************************************)
(* The provider daemon: one turn at a time for the thread.                 *)
(***************************************************************************)
\* a turn ends; some providers then also report the session idle
EndOfTurn(outcome, quiet) ==
    /\ rt' = 0 /\ rtAt' = 0
    /\ stream' = stream \o << [type |-> outcome, turn |-> rt, at |-> clock] >>
               \o (IF quiet THEN <<>> ELSE << [type |-> "idle", turn |-> 0, at |-> clock] >>)

TurnCompletes ==
    /\ rt # 0
    /\ \E quiet \in BOOLEAN : EndOfTurn("completed", quiet)
    /\ UNCHANGED <<clock, readModel, requests, tasks, recovered, startup, rpcs, turns,
                   delivered, budget, incidents, unanswered, accepted>>

(***************************************************************************)
(* The provider command reactor.  A task is one provider call with the     *)
(* branch of the handler that made it:                                     *)
(*   "send"    a start request sent as a turn of its own                   *)
(*   "routed"  a start request steered into the turn the runtime has       *)
(*   "resend"  a routed one sent as a turn, the runtime's turn being over  *)
(*   "steer"   a steer request                                             *)
(*   "next"    a steer request sent as the next turn                       *)
(***************************************************************************)
Steers(mode) == mode \in {"routed", "steer"}

NewTask(req, mode, turn, inline) ==
    [act |-> req.act, id |-> req.id, mode |-> mode, stage |-> "call", turn |-> turn,
     markAt |-> req.act, inline |-> inline]

Call(task) == [act |-> task.act, id |-> task.id, steers |-> Steers(task.mode)]

Start(task) == tasks' = tasks \cup {task} /\ rpcs' = rpcs \cup {Call(task)}

\* the worker takes the next request when no handler runs inside it
Take == /\ requests # <<>>
        /\ \A t \in tasks : ~t.inline
        /\ requests' = Tail(requests)

\* the session list may be unavailable, and is then read as empty
SeenTurn(turn) == turn \in {rt, 0}

StartRouted(req, turn) == Start(NewTask(req, "routed", turn, FALSE))

StartSent(req) == Start(NewTask(req, "send", 0, FALSE))

HandleStart ==
    \E turn \in 0..MaxTurns :
        /\ Take /\ Head(requests).kind = "start" /\ SeenTurn(turn)
        /\ IF turn # 0 THEN StartRouted(Head(requests), turn) ELSE StartSent(Head(requests))
        /\ UNCHANGED <<clock, readModel, recovered, startup, runtime, budget, incidents,
                       unanswered, accepted>>

\* the projection is asked when the session list shows no turn
SteerTarget(seenTurn) ==
    IF seenTurn # 0 THEN seenTurn ELSE IF status = "running" THEN active ELSE 0

\* once per message: the session is set ready and the prompt sent by the worker itself
retrySteerAsNextTurn(req) ==
    LET key == <<"no-local-active-turn", req.id, 0>>
    IN IF key \in recovered
       THEN UNCHANGED <<clock, session, recovered, tasks, rpcs>>
       ELSE /\ recovered' = recovered \cup {key}
            /\ Tick
            /\ SessionSet("ready", 0, now)
            /\ Start([NewTask(req, "next", 0, TRUE) EXCEPT !.markAt = now])

HandleSteer ==
    \E seenTurn \in 0..MaxTurns :
        LET req  == Head(requests)
            turn == SteerTarget(seenTurn)
        IN /\ Take /\ req.kind = "steer" /\ SeenTurn(seenTurn)
           /\ IF turn = 0 THEN retrySteerAsNextTurn(req)
              ELSE /\ Start(NewTask(req, "steer", turn, FALSE))
                   /\ UNCHANGED <<clock, session, recovered>>
           /\ UNCHANGED <<queue, startup, runtime, budget, incidents, unanswered,
                          accepted>>

\* interruptTurn on whatever turn the runtime has
HandleInterrupt ==
    /\ Take /\ Head(requests).kind = "interrupt"
    /\ \/ UNCHANGED runtime
       \/ /\ rt # 0
          /\ \E quiet \in BOOLEAN : EndOfTurn("interrupted", quiet)
          /\ UNCHANGED <<turns, delivered>>
    /\ UNCHANGED <<clock, readModel, tasks, recovered, startup, rpcs, budget, incidents,
                   unanswered, accepted>>

\* transitionManualFollowUpHandoff: a command that does not match the handoff is rejected
Accept(act) ==
    IF HandedOff(act)
    THEN /\ queue' = Tail(queue)
         /\ sessAt' = IF status = "running" /\ active # 0 THEN Ordered(sessAt, clock) ELSE sessAt
    ELSE UNCHANGED <<queue, sessAt>>

Release_ToBack(act) ==
    queue' = IF HandedOff(act)
             THEN Append(Tail(queue), [Head1 EXCEPT !.status = "queued", !.act = 0])
             ELSE queue

Release(act) ==
    queue' = IF HandedOff(act) THEN [queue EXCEPT ![1].status = "queued", ![1].act = 0]
             ELSE queue

Answered(t, task) == tasks' = (tasks \ {t}) \cup {task}
Ends(t) == tasks' = tasks \ {t}

TaskAccepted_Refused(t) ==
    /\ t.stage \in {"ok", "refused"}
    /\ Accept(t.act)
    /\ accepted' = accepted \cup {t.id}
    /\ IF t.mode = "steer" THEN Ends(t)
       ELSE Answered(t, [t EXCEPT !.stage = IF t.mode = "routed" THEN "running" ELSE "mark"])
    /\ UNCHANGED <<clock, status, active, latest, doneAt, pending, requests, recovered,
                   startup, rpcs, runtime, budget, incidents, unanswered>>

\* the provider took the prompt
TaskAccepted(t) ==
    /\ t.stage = "ok"
    /\ Accept(t.act)
    /\ accepted' = accepted \cup {t.id}
    /\ IF t.mode = "steer" THEN Ends(t)
       ELSE Answered(t, [t EXCEPT !.stage = IF t.mode = "routed" THEN "running" ELSE "mark"])
    /\ UNCHANGED <<clock, status, active, latest, doneAt, pending, requests, recovered,
                   startup, rpcs, runtime, budget, incidents, unanswered>>

\* markThreadRunningFromSendTurnResult reads the session, then asks the daemon for sessions
MarkRead(t) ==
    /\ t.stage = "mark"
    /\ IF status = "running" /\ active \notin {0, t.turn} THEN Ends(t)
       ELSE Answered(t, [t EXCEPT !.stage = "write"])
    /\ UNCHANGED <<clock, readModel, requests, recovered, startup, rpcs, runtime, budget,
                   incidents, unanswered, accepted>>

\* and only then writes it, stamped with the time of the request
MarkWrite(t) ==
    /\ t.stage \in {"write", "running"}
    /\ SessionSet("running", t.turn, IF t.stage = "write" THEN t.markAt ELSE clock)
    /\ Ends(t)
    /\ UNCHANGED <<clock, queue, requests, recovered, startup, rpcs, runtime, budget,
                   incidents, unanswered, accepted>>

\* handleTurnStartFailure: the session is set ready, then the handoff released
StartFailed(t) ==
    /\ \/ t.mode \in {"send", "resend"} /\ t.stage \in {"refused", "failed"}
       \/ t.mode = "routed" /\ t.stage = "failed"
    /\ SessionSet("ready", 0, t.act)
    /\ Release(t.act)
    /\ Ends(t)
    /\ UNCHANGED <<clock, requests, recovered, startup, rpcs, runtime, budget, incidents,
                   unanswered, accepted>>

SteerFailed_Silent(t) ==
    /\ \/ t.mode = "routed" /\ t.stage = "refused"
       \/ t.mode \in {"steer", "next"} /\ t.stage \in {"refused", "failed"}
    /\ Ends(t)
    /\ UNCHANGED <<clock, readModel, requests, recovered, startup, rpcs, runtime, budget,
                   incidents, unanswered, accepted>>

\* the other failures only release the handoff
SteerFailed(t) ==
    /\ \/ t.mode = "routed" /\ t.stage = "refused"
       \/ t.mode \in {"steer", "next"} /\ t.stage \in {"refused", "failed"}
    /\ Release(t.act)
    /\ Ends(t)
    /\ UNCHANGED <<clock, session, requests, recovered, startup, rpcs, runtime, budget,
                   incidents, unanswered, accepted>>

\* no active turn to steer: the prompt is sent as the next turn
SteerFoundNoTurn(t) ==
    LET key == <<"no-active-turn", t.id, t.turn>>
        again(mode) == [t EXCEPT !.mode = mode, !.stage = "call", !.markAt = now]
        Resend(mode) == /\ Answered(t, again(mode))
                        /\ rpcs' = rpcs \cup {Call(again(mode))}
                        /\ Tick
                        /\ SessionSet("ready", 0, now)
    IN /\ t.stage = "noTurn"
       /\ \/ t.mode = "routed" /\ Resend("resend") /\ UNCHANGED recovered
          \/ /\ t.mode = "steer" /\ key \notin recovered
             /\ recovered' = recovered \cup {key}
             /\ Resend("next")
          \/ /\ t.mode = "steer" /\ key \in recovered
             /\ Ends(t)
             /\ UNCHANGED <<clock, session, recovered, rpcs>>
       /\ UNCHANGED <<queue, requests, startup, runtime, budget, incidents,
                      unanswered, accepted>>

(***************************************************************************)
(* Calls at the daemon.                                                    *)
(***************************************************************************)
Deliver(i) == delivered' = IF i = Direct THEN delivered ELSE [delivered EXCEPT ![i] = @ + 1]

\* what a call does: ProviderService.sendTurn steers when the runtime has a turn
Effects(r, answer) ==
    CASE answer = "ok" /\ rt = 0 ->
           /\ ~r.steers /\ turns < MaxTurns
           /\ Tick /\ turns' = turns + 1 /\ rt' = turns + 1 /\ rtAt' = now
           /\ stream' = Append(stream, [type |-> "started", turn |-> turns + 1, at |-> now])
           /\ Deliver(r.id)
      [] answer = "ok" /\ rt # 0 ->
           /\ rtAt' = clock /\ Deliver(r.id)
           /\ UNCHANGED <<clock, rt, turns, stream>>
      [] answer = "noTurn" -> rt = 0 /\ r.steers /\ UNCHANGED <<clock, runtime>>
      [] answer = "refused" -> rt # 0 /\ UNCHANGED <<clock, runtime>>
      [] answer = "failed" -> UNCHANGED <<clock, runtime>>

Waiting(r) == { t \in tasks : t.stage = "call" /\ Call(t) = r }

\* the answer reaches the task, or is lost and the task sees a failure
Execute(r) ==
    \E answer \in {"ok", "noTurn", "refused", "failed"}, heard \in BOOLEAN :
        /\ Effects(r, answer)
        /\ rpcs' = rpcs \ {r}
        /\ heard \/ (Waiting(r) # {} /\ incidents < MaxIncidents)
        /\ incidents' = IF heard THEN incidents ELSE incidents + 1
        /\ unanswered' = IF heard \/ r.id = Direct THEN unanswered
                         ELSE [unanswered EXCEPT ![r.id] = @ + 1]
        /\ tasks' = { IF t \notin Waiting(r) THEN t
                      ELSE [t EXCEPT !.stage = IF heard THEN answer ELSE "failed",
                                     !.turn = IF answer = "ok" THEN rt' ELSE @] : t \in tasks }
        /\ UNCHANGED <<readModel, requests, recovered, startup, budget, accepted>>

\* the caller's timeout: the call stays with the daemon
GiveUp(t) ==
    /\ t.stage = "call" /\ Call(t) \in rpcs
    /\ incidents < MaxIncidents
    /\ incidents' = incidents + 1
    /\ unanswered' = IF t.id = Direct THEN unanswered ELSE [unanswered EXCEPT ![t.id] = @ + 1]
    /\ Answered(t, [t EXCEPT !.stage = "failed"])
    /\ UNCHANGED <<clock, readModel, requests, recovered, startup, rpcs, runtime, budget,
                   accepted>>

(***************************************************************************)
(* Runtime ingestion: the session lifecycle part.                          *)
(***************************************************************************)
Ingest_Verbatim ==
    LET e         == Head(stream)
        conflicts == active \notin {0, e.turn}
    IN /\ stream # <<>>
       /\ stream' = Tail(stream)
       /\ CASE e.type = "started" ->
                 IF conflicts /\ rt # e.turn THEN UNCHANGED session
                 ELSE SessionSet("running", e.turn, e.at)
            [] e.type \in {"completed", "interrupted"} ->
                 IF conflicts THEN UNCHANGED session
                 ELSE SessionSet(e.type, 0, e.at)
            [] e.type = "idle" ->
                 SessionSet(IF active = 0 /\ pending THEN "starting" ELSE "ready", active, e.at)
       /\ UNCHANGED <<clock, queue, requests, tasks, recovered, startup, rpcs, rt, rtAt,
                      turns, delivered, budget, incidents, unanswered, accepted>>

Ingest ==
    LET e         == Head(stream)
        conflicts == active \notin {0, e.turn}
    IN /\ stream # <<>>
       /\ stream' = Tail(stream)
       /\ CASE e.type = "started" ->
                 IF conflicts /\ rt # e.turn THEN UNCHANGED session
                 ELSE SessionSet("running", e.turn, e.at)
            [] e.type \in {"completed", "interrupted"} ->
                 IF conflicts THEN UNCHANGED session
                 ELSE SessionSet(IF e.type = "completed" THEN "ready" ELSE e.type, 0, e.at)
            [] e.type = "idle" ->
                 SessionSet(IF active = 0 /\ pending THEN "starting" ELSE "ready", active, e.at)
       /\ UNCHANGED <<clock, queue, requests, tasks, recovered, startup, rpcs, rt, rtAt,
                      turns, delivered, budget, incidents, unanswered, accepted>>

(***************************************************************************)
(* A restart of the backend and the repairs of its startup, which run      *)
(* while commands and requests are already served.                         *)
(***************************************************************************)
Restart ==
    /\ incidents < MaxIncidents
    /\ incidents' = incidents + 1
    /\ requests' = <<>> /\ tasks' = {} /\ recovered' = {} /\ snap' = 0
    /\ phase' = "starts"
    /\ UNCHANGED <<clock, readModel, rpcs, runtime, budget, unanswered, accepted>>

\* recoverInterruptedTurnStartsOnStartup; a live owner or a missing inventory excuses it
RecoverStarts ==
    /\ phase = "starts"
    /\ phase' = "list"
    /\ \/ UNCHANGED session
       \/ /\ status = "starting" /\ active = 0 /\ rt = 0
          /\ SessionSet("ready", 0, clock)
    /\ UNCHANGED <<clock, queue, requests, tasks, recovered, snap, rpcs, runtime, budget,
                   incidents, unanswered, accepted>>

\* reconcileManualFollowUpHandoffsOnStartup lists the sessions; a daemon that
\* does not answer has none
ListSessions ==
    /\ phase = "list"
    /\ IF queue = <<>> THEN phase' = "up" /\ snap' = 0
       ELSE phase' = "decide" /\ snap' \in {0} \cup (IF rt # 0 THEN {rtAt, clock} ELSE {})
    /\ UNCHANGED <<clock, readModel, requests, tasks, recovered, rpcs, runtime, budget,
                   incidents, unanswered, accepted>>

\* and then decides on the head's handoff
Reconcile ==
    /\ phase = "decide"
    /\ phase' = "up"
    /\ IF queue = <<>> \/ Head1.status # "handoff"
       THEN UNCHANGED <<queue, sessAt, unanswered>>
       ELSE /\ IF \/ snap >= Head1.act
                  \/ status = "running" /\ active # 0 /\ sessAt >= Head1.act
               THEN Accept(Head1.act) /\ UNCHANGED unanswered
               ELSE /\ Release(Head1.act)
                    /\ unanswered' = [unanswered EXCEPT ![Head1.id] = @ + 1]
                    /\ UNCHANGED sessAt
    /\ UNCHANGED <<clock, status, active, latest, doneAt, pending, requests, tasks,
                   recovered, snap, rpcs, runtime, budget, incidents, accepted>>

\* the thread is idle, or its first turn runs
Init ==
    /\ clock = 1 /\ queue = <<>> /\ pending = FALSE /\ sessAt = 1 /\ doneAt = 0
    /\ \/ status = "ready" /\ rt = 0
       \/ status = "running" /\ rt = 1
    /\ active = rt /\ latest = rt /\ turns = rt /\ rtAt = rt
    /\ requests = <<>> /\ tasks = {} /\ recovered = {} /\ phase = "up" /\ snap = 0
    /\ rpcs = {} /\ stream = <<>>
    /\ seen = {} /\ sends = 0 /\ incidents = 0
    /\ delivered = [i \in Items |-> 0] /\ unanswered = [i \in Items |-> 0] /\ accepted = {}

Renderers ==
    \/ \E i \in Items : Reserve(i)
    \/ \E k \in DOMAIN queue : Enqueue(k) \/ Cancel(k)
    \/ AutoActivate \/ OperatorActivate \/ DirectPrompt \/ Interrupt

Reactor ==
    \/ HandleStart \/ HandleSteer \/ HandleInterrupt
    \/ \E t \in tasks : TaskAccepted(t) \/ MarkRead(t) \/ MarkWrite(t) \/ StartFailed(t)
                        \/ SteerFailed(t) \/ SteerFoundNoTurn(t) \/ GiveUp(t)

Daemon == TurnCompletes \/ \E r \in rpcs : Execute(r)

Startup == Restart \/ RecoverStarts \/ ListSessions \/ Reconcile

Next == Renderers \/ Reactor \/ Daemon \/ Ingest \/ Startup

Spec == Init /\ [][Next]_vars

(***************************************************************************)
(* Properties.                                                             *)
(***************************************************************************)
QueueItem == [id : Items, status : {"reserving", "queued", "handoff"}, at : Nat, act : Nat]
Task == [act : Nat, id : Items \cup {Direct},
         mode : {"send", "routed", "resend", "steer", "next"},
         stage : {"call", "ok", "noTurn", "refused", "failed", "mark", "write", "running"},
         turn : Nat, markAt : Nat, inline : BOOLEAN]

\* Every variable keeps its type.
TypeOK ==
    /\ clock \in Nat /\ sessAt \in Nat /\ doneAt \in Nat /\ rtAt \in Nat /\ snap \in Nat
    /\ {sends, incidents} \subseteq Nat
    /\ queue \in Seq(QueueItem) /\ seen \subseteq Items
    /\ status \in {"ready", "starting", "running", "interrupted"} /\ pending \in BOOLEAN
    /\ {active, latest, rt} \subseteq 0..turns /\ turns \in 0..MaxTurns
    /\ requests \in Seq([kind : {"start", "steer", "interrupt"}, id : Items \cup {Direct},
                         act : Nat])
    /\ tasks \subseteq Task
    /\ recovered \subseteq {"no-local-active-turn", "no-active-turn"}
                             \X (Items \cup {Direct}) \X Nat
    /\ rpcs \subseteq [act : Nat, id : Items \cup {Direct}, steers : BOOLEAN]
    /\ phase \in {"starts", "list", "decide", "up"}
    /\ stream \in Seq([type : {"started", "completed", "interrupted", "idle"}, turn : Nat,
                       at : Nat])
    /\ delivered \in [Items -> Nat] /\ unanswered \in [Items -> Nat]
    /\ accepted \subseteq Items \cup {Direct}

\* Only the head of the queue is ever handed off, whatever is cancelled,
\* released or reserved around it (decider, manual-follow-up.activate).
HandoffIsHead ==
    \A k \in DOMAIN queue :
        /\ queue[k].status = "handoff" => k = 1
        /\ (queue[k].status = "handoff") = (queue[k].act # 0)

\* A follow-up that is still queued reaches the provider only from the head
\* of the queue, also through a call that outlived its fiber or its backend.
DeliveredFromTheHead ==
    [][\A i \in Items : delivered'[i] > delivered[i] /\ Has(i) => Head1.id = i]_vars

\* The provider gets a follow-up once more than the number of handoffs of it
\* that were given up without an answer (a lost answer or timeout, or a
\* release by the startup reconciliation): no other path delivers twice.
OnceUnlessUnanswered == \A i \in Items : delivered[i] <= 1 + unanswered[i]

\* What the reactor accepts and so removes from the queue, the provider has.
AcceptedWasDelivered == \A i \in accepted \ {Direct} : delivered[i] >= 1

\* Once startup repairs are over, somebody is going to resolve the head's
\* handoff: its request or its provider call is under way.  Without one the
\* queue is stuck, since a handoff can be neither cancelled nor activated.
\* The exception is a follow-up whose steer was already recovered once under
\* the same key: the reactor ignores that request.
HandoffIsOwned ==
    (phase = "up" /\ queue # <<>> /\ Head1.status = "handoff") =>
        \/ \E k \in DOMAIN requests : requests[k].act = Head1.act
        \/ \E t \in tasks : t.act = Head1.act
        \/ \E key \in recovered : key[2] = Head1.id

=============================================================================
