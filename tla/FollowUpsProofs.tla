--------------------------- MODULE FollowUpsProofs ---------------------------
(***************************************************************************)
(* The follow-up queue, for any number of follow-ups, sends, turns and     *)
(* incidents: its head alone is handed off and delivered, the handoff      *)
(* stays somebody's to resolve, and nothing is delivered once more without *)
(* a handoff that was given up.                                            *)
(***************************************************************************)
EXTENDS FollowUps, FiniteSetTheorems, TLAPS

\* What is inductive: the queue's shape and a clock that never reads 0 once
\* it ticked, so that an activation's stamp tells a handoff from the rest.
QueueInv ==
    /\ clock \in Nat
    /\ queue \in Seq(QueueItem)
    /\ HandoffIsHead

LEMMA Joined ==
    ASSUME NEW S, NEW a \in Seq(S), NEW b \in Seq(S)
    PROVE  /\ a \o b \in Seq(S)
           /\ DOMAIN (a \o b) = 1..(Len(a) + Len(b))
           /\ \A j \in 1..(Len(a) + Len(b)) :
                 (a \o b)[j] = IF j <= Len(a) THEN a[j] ELSE b[j - Len(a)]
  OBVIOUS

\* Taking one item out of a sequence moves those behind it one place up.
LEMMA RemoveOne ==
    ASSUME NEW S, NEW s \in Seq(S), NEW k \in DOMAIN s
    PROVE  LET r == SubSeq(s, 1, k - 1) \o SubSeq(s, k + 1, Len(s))
           IN /\ r \in Seq(S)
              /\ \A j \in DOMAIN r :
                    \/ j < k /\ r[j] = s[j] /\ j \in DOMAIN s
                    \/ j >= k /\ r[j] = s[j + 1] /\ j + 1 \in DOMAIN s
<1> DEFINE a == SubSeq(s, 1, k - 1)
           b == SubSeq(s, k + 1, Len(s))
           n == Len(s)
<1>1. n \in Nat /\ DOMAIN s = 1..n /\ k \in 1..n /\ k \in Nat
  OBVIOUS
<1>2. /\ a \in Seq(S) /\ Len(a) = k - 1
      /\ \A j \in 1..(k - 1) : a[j] = s[j]
  BY <1>1
<1>3. /\ b \in Seq(S) /\ Len(b) = n - k
      /\ \A j \in 1..(n - k) : b[j] = s[k + j]
  BY <1>1
<1>4. /\ a \o b \in Seq(S)
      /\ DOMAIN (a \o b) = 1..(Len(a) + Len(b))
      /\ \A j \in 1..(Len(a) + Len(b)) :
            (a \o b)[j] = IF j <= Len(a) THEN a[j] ELSE b[j - Len(a)]
  <2> HIDE DEF a, b
  <2> QED BY <1>2, <1>3, Joined
<1> SUFFICES ASSUME NEW j \in DOMAIN (a \o b)
             PROVE  \/ j < k /\ (a \o b)[j] = s[j] /\ j \in DOMAIN s
                    \/ j >= k /\ (a \o b)[j] = s[j + 1] /\ j + 1 \in DOMAIN s
  BY <1>4
<1> HIDE DEF a, b, n
<1>5. Len(a) + Len(b) = n - 1 /\ j \in 1..(n - 1) /\ j \in Nat
  BY <1>1, <1>2, <1>3, <1>4
<1>6. CASE j < k
  <2>1. j \in 1..(k - 1) /\ j <= Len(a) /\ j \in 1..n
    BY <1>1, <1>2, <1>5, <1>6
  <2>2. (a \o b)[j] = a[j]
    BY <1>4, <1>5, <2>1
  <2> QED
    BY <1>1, <1>2, <1>6, <2>1, <2>2
<1>7. CASE j >= k
  <2>1. /\ ~(j <= Len(a)) /\ j - Len(a) \in 1..(n - k) /\ k + (j - Len(a)) = j + 1
        /\ j + 1 \in 1..n
    BY <1>1, <1>2, <1>5, <1>7
  <2>2. (a \o b)[j] = b[j - Len(a)]
    BY <1>4, <1>5, <2>1
  <2>3. b[j - Len(a)] = s[j + 1]
    BY <1>3, <2>1
  <2> QED
    BY <1>1, <1>7, <2>1, <2>2, <2>3
<1> QED
  BY <1>1, <1>5, <1>6, <1>7

\* A step that leaves the queue alone keeps its shape.
LEMMA QueueUntouched ==
    ASSUME QueueInv, queue' = queue, clock' \in {clock, now}
    PROVE  QueueInv'
  BY DEF QueueInv, HandoffIsHead, now

\* So does an acceptance, which takes the head away, and a release.
LEMMA ResolveKeeps ==
    ASSUME QueueInv, clock' = clock, NEW act, Accept(act) \/ Release(act)
    PROVE  QueueInv'
<1> USE DEF QueueInv
<1>1. CASE queue' = queue
  BY <1>1, QueueUntouched
<1>2. CASE HandedOff(act) /\ queue' = Tail(queue)
  <2>1. queue # <<>> /\ Len(queue) \in Nat \ {0}
    BY <1>2 DEF HandedOff
  <2>2. queue' \in Seq(QueueItem) /\ Len(queue') = Len(queue) - 1
    BY <1>2, <2>1
  <2>3. \A k \in DOMAIN queue' : queue'[k] = queue[k + 1] /\ k + 1 \in DOMAIN queue /\ k + 1 # 1
    BY <1>2, <2>1, <2>2
  <2> QED
    BY <2>2, <2>3 DEF HandoffIsHead
<1>3. CASE HandedOff(act) /\ queue' = [queue EXCEPT ![1].status = "queued", ![1].act = 0]
  <2>1. queue # <<>> /\ Len(queue) \in Nat \ {0} /\ 1 \in DOMAIN queue
    BY <1>3 DEF HandedOff
  <2>2. queue[1] \in QueueItem
    BY <2>1
  <2>3. [queue[1] EXCEPT !.status = "queued", !.act = 0] \in QueueItem
    BY <2>2 DEF QueueItem
  <2>4. queue' \in Seq(QueueItem) /\ DOMAIN queue' = DOMAIN queue
    BY <1>3, <2>1, <2>3
  <2>5. \A k \in DOMAIN queue : k # 1 => queue'[k] = queue[k]
    BY <1>3
  <2>6. queue'[1].status = "queued" /\ queue'[1].act = 0
    BY <1>3, <2>1, <2>2 DEF QueueItem
  <2> QED
    BY <2>4, <2>5, <2>6 DEF HandoffIsHead
<1> QED
  BY <1>1, <1>2, <1>3 DEF Accept, Release

LEMMA ReserveKeeps ==
    ASSUME QueueInv, NEW i \in Items, Reserve(i) PROVE QueueInv'
<1> DEFINE item == [id |-> i, status |-> "reserving", at |-> now, act |-> 0]
<1>1. item \in QueueItem /\ clock' \in Nat
  BY DEF QueueItem, QueueInv, Reserve, Tick, now
<1>2. item.status = "reserving" /\ item.act = 0
  OBVIOUS
<1>3. queue' = Append(queue, item) /\ queue \in Seq(QueueItem)
  BY DEF Reserve, QueueInv
<1> HIDE DEF item
<1>4. /\ queue' \in Seq(QueueItem)
      /\ \A k \in DOMAIN queue' : IF k \in DOMAIN queue THEN queue'[k] = queue[k]
                                  ELSE queue'[k] = item
  BY <1>1, <1>3
<1> QED
  BY <1>1, <1>2, <1>4 DEF QueueInv, HandoffIsHead

LEMMA EnqueueKeeps ==
    ASSUME QueueInv, NEW k \in DOMAIN queue, Enqueue(k) PROVE QueueInv'
<1>1. queue[k] \in QueueItem /\ queue[k].status = "reserving"
  BY DEF Enqueue, QueueInv
<1>2. [queue[k] EXCEPT !.status = "queued"] \in QueueItem
  BY <1>1 DEF QueueItem
<1>3. queue' \in Seq(QueueItem) /\ DOMAIN queue' = DOMAIN queue /\ clock' \in Nat
  BY <1>2 DEF Enqueue, QueueInv
<1>4. \A j \in DOMAIN queue : j # k => queue'[j] = queue[j]
  BY DEF Enqueue
<1>5. queue'[k].status = "queued" /\ queue'[k].act = queue[k].act
  BY <1>1 DEF Enqueue, QueueItem
<1> QED
  BY <1>1, <1>3, <1>4, <1>5 DEF QueueInv, HandoffIsHead

LEMMA CancelKeeps ==
    ASSUME QueueInv, NEW k \in DOMAIN queue, Cancel(k) PROVE QueueInv'
<1>1. queue \in Seq(QueueItem) /\ clock' \in Nat /\ queue[k].status # "handoff"
  BY DEF QueueInv, Cancel
<1>2. queue' = SubSeq(queue, 1, k - 1) \o SubSeq(queue, k + 1, Len(queue))
  BY DEF Cancel
<1>3. /\ queue' \in Seq(QueueItem)
      /\ \A j \in DOMAIN queue' :
            \/ j < k /\ queue'[j] = queue[j] /\ j \in DOMAIN queue
            \/ j >= k /\ queue'[j] = queue[j + 1] /\ j + 1 \in DOMAIN queue
  BY <1>1, <1>2, RemoveOne
<1>4. \A j \in DOMAIN queue :
         /\ queue[j].status = "handoff" => j = 1
         /\ (queue[j].status = "handoff") = (queue[j].act # 0)
  BY DEF QueueInv, HandoffIsHead
<1>5. k \in Nat \ {0} /\ (\A j \in DOMAIN queue' : j \in Nat \ {0})
  BY <1>1, <1>3
<1> QED
  BY <1>1, <1>3, <1>4, <1>5 DEF QueueInv, HandoffIsHead

LEMMA ActivateKeeps ==
    ASSUME QueueInv, NEW mode, Activate(mode) PROVE QueueInv'
<1>1. queue \in Seq(QueueItem) /\ queue # <<>> /\ 1 \in DOMAIN queue
  BY DEF QueueInv, Activate, CanActivate
<1>2. queue[1] \in QueueItem /\ now \in Nat /\ now # 0 /\ clock' = now
  BY <1>1 DEF QueueInv, now, Activate, Tick
<1>3. [queue[1] EXCEPT !.status = "handoff", !.act = now] \in QueueItem
  BY <1>2 DEF QueueItem
<1>4. queue' = [queue EXCEPT ![1].status = "handoff", ![1].act = now]
  BY DEF Activate
<1>5. queue' \in Seq(QueueItem) /\ DOMAIN queue' = DOMAIN queue
  BY <1>1, <1>3, <1>4
<1>6. \A k \in DOMAIN queue : k # 1 => queue'[k] = queue[k]
  BY <1>4
<1>7. queue'[1].status = "handoff" /\ queue'[1].act = now
  BY <1>1, <1>2, <1>4 DEF QueueItem
<1> QED
  BY <1>2, <1>5, <1>6, <1>7 DEF QueueInv, HandoffIsHead

\* The steps of the reactor.
LEMMA ReactorKeeps ==
    ASSUME QueueInv, Reactor PROVE QueueInv'
<1>1. CASE HandleStart \/ HandleSteer \/ HandleInterrupt
  <2>1. queue' = queue /\ clock' \in {clock, now}
    BY <1>1 DEF HandleStart, HandleSteer, retrySteerAsNextTurn, HandleInterrupt, Tick, readModel
  <2> QED BY <2>1, QueueUntouched
<1>2. ASSUME NEW t \in tasks, TaskAccepted(t) PROVE QueueInv'
  <2>1. clock' = clock /\ Accept(t.act)
    BY <1>2 DEF TaskAccepted
  <2> QED BY <2>1, ResolveKeeps
<1>3. ASSUME NEW t \in tasks, MarkRead(t) \/ MarkWrite(t) \/ GiveUp(t) PROVE QueueInv'
  <2>1. queue' = queue /\ clock' \in {clock, now}
    BY <1>3 DEF MarkRead, MarkWrite, GiveUp, readModel
  <2> QED BY <2>1, QueueUntouched
<1>4. ASSUME NEW t \in tasks, StartFailed(t) \/ SteerFailed(t) PROVE QueueInv'
  <2>1. clock' = clock /\ Release(t.act)
    BY <1>4 DEF StartFailed, SteerFailed
  <2> QED BY <2>1, ResolveKeeps
<1>5. ASSUME NEW t \in tasks, SteerFoundNoTurn(t) PROVE QueueInv'
  <2>1. queue' = queue /\ clock' \in {clock, now}
    BY <1>5 DEF SteerFoundNoTurn, Tick
  <2> QED BY <2>1, QueueUntouched
<1> QED
  BY <1>1, <1>2, <1>3, <1>4, <1>5 DEF Reactor

\* The steps of the daemon, of ingestion and of a restart.
LEMMA OthersKeep ==
    ASSUME QueueInv, Daemon \/ Ingest \/ Startup PROVE QueueInv'
<1>1. CASE TurnCompletes \/ Ingest \/ Restart \/ RecoverStarts \/ ListSessions
  <2>1. queue' = queue /\ clock' \in {clock, now}
    BY <1>1 DEF TurnCompletes, Ingest, Restart, RecoverStarts, ListSessions, readModel
  <2> QED BY <2>1, QueueUntouched
<1>2. ASSUME NEW r \in rpcs, Execute(r) PROVE QueueInv'
  <2>1. PICK answer \in {"ok", "noTurn", "refused", "failed"} : Effects(r, answer)
    BY <1>2 DEF Execute
  <2>2. clock' \in {clock, now}
    BY <2>1 DEF Effects, Tick
  <2>3. queue' = queue
    BY <1>2 DEF Execute, readModel
  <2> QED BY <2>2, <2>3, QueueUntouched
<1>3. CASE Reconcile
  <2>1. clock' = clock
    BY <1>3 DEF Reconcile
  <2>2. CASE queue' = queue
    BY <2>1, <2>2, QueueUntouched
  <2>3. CASE Accept(Head1.act) \/ Release(Head1.act)
    BY <2>1, <2>3, ResolveKeeps
  <2> QED
    BY <1>3, <2>2, <2>3 DEF Reconcile
<1> QED
  BY <1>1, <1>2, <1>3 DEF Daemon, Startup

LEMMA QueueInvInductive == Spec => []QueueInv
<1>1. Init => QueueInv
  BY DEF Init, QueueInv, HandoffIsHead
<1>2. QueueInv /\ [Next]_vars => QueueInv'
  <2> SUFFICES ASSUME QueueInv, [Next]_vars PROVE QueueInv'
    OBVIOUS
  <2>1. CASE Renderers
    <3>1. CASE AutoActivate \/ OperatorActivate
      BY <3>1, ActivateKeeps DEF AutoActivate, OperatorActivate
    <3>2. CASE DirectPrompt \/ Interrupt
      <4>1. queue' = queue /\ clock' \in {clock, now}
        BY <3>2 DEF DirectPrompt, Interrupt, Tick
      <4> QED BY <4>1, QueueUntouched
    <3> QED
      BY <2>1, <3>1, <3>2, ReserveKeeps, EnqueueKeeps, CancelKeeps DEF Renderers
  <2>2. CASE Reactor
    BY <2>2, ReactorKeeps
  <2>3. CASE Daemon \/ Ingest \/ Startup
    BY <2>3, OthersKeep
  <2>4. CASE UNCHANGED vars
    BY <2>4, QueueUntouched DEF vars, readModel
  <2> QED
    BY <2>1, <2>2, <2>3, <2>4 DEF Next
<1> QED
  BY <1>1, <1>2, PTL DEF Spec

\* Whatever renderers, reactor, daemon and restarts do, only the head of the
\* queue is handed off, and it alone bears an activation.
THEOREM HandoffStaysAtHead == Spec => []HandoffIsHead
<1>1. QueueInv => HandoffIsHead
  BY DEF QueueInv
<1> QED
  BY <1>1, QueueInvInductive, PTL
(***************************************************************************)
(* The types, as parts that an action leaves alone or not.  A task and a   *)
(* report on its way name a turn that the daemon has started.              *)
(***************************************************************************)
Statuses == {"ready", "starting", "running", "interrupted"}
Report == [type : {"started", "completed", "interrupted", "idle"}, turn : Nat, at : Nat]
Ask == [kind : {"start", "steer", "interrupt"}, id : Items \cup {Direct}, act : Nat]
RpcCall == [act : Nat, id : Items \cup {Direct}, steers : BOOLEAN]
RecoveryKey == {"no-local-active-turn", "no-active-turn"} \X (Items \cup {Direct}) \X Nat

SessionOK ==
    /\ status \in Statuses /\ pending \in BOOLEAN
    /\ active \in Nat /\ active <= turns
    /\ latest \in Nat /\ latest <= turns
    /\ sessAt \in Nat /\ doneAt \in Nat

RequestsOK == requests \in Seq(Ask)
TasksOK == tasks \subseteq Task /\ \A t \in tasks : t.turn <= turns
RpcsOK == rpcs \subseteq RpcCall
RecoveredOK == recovered \subseteq RecoveryKey
DaemonOK ==
    /\ turns \in Nat /\ turns <= MaxTurns
    /\ rt \in Nat /\ rt <= turns /\ rtAt \in Nat
    /\ stream \in Seq(Report) /\ \A k \in DOMAIN stream : stream[k].turn <= turns
CountsOK ==
    /\ sends \in Nat /\ incidents \in Nat /\ snap \in Nat
    /\ phase \in {"starts", "list", "decide", "up"} /\ seen \subseteq Items
HistoryOK ==
    /\ delivered \in [Items -> Nat] /\ unanswered \in [Items -> Nat]
    /\ accepted \subseteq Items \cup {Direct}

TypeInv ==
    /\ QueueInv /\ SessionOK /\ RequestsOK /\ TasksOK /\ RpcsOK /\ RecoveredOK
    /\ DaemonOK /\ CountsOK /\ HistoryOK

LEMMA TypeInvTypes == TypeInv => TypeOK
<1> SUFFICES ASSUME TypeInv PROVE TypeOK
  OBVIOUS
<1>1. /\ clock \in Nat /\ sessAt \in Nat /\ doneAt \in Nat /\ rtAt \in Nat /\ snap \in Nat
      /\ {sends, incidents} \subseteq Nat
      /\ queue \in Seq(QueueItem) /\ seen \subseteq Items
  BY DEF TypeInv, QueueInv, SessionOK, CountsOK, DaemonOK
<1>2. /\ status \in {"ready", "starting", "running", "interrupted"} /\ pending \in BOOLEAN
      /\ {active, latest, rt} \subseteq 0..turns /\ turns \in 0..MaxTurns
  BY FollowUpsAssumption DEF TypeInv, SessionOK, Statuses, DaemonOK
<1>3. /\ requests \in Seq([kind : {"start", "steer", "interrupt"}, id : Items \cup {Direct},
                           act : Nat])
      /\ rpcs \subseteq [act : Nat, id : Items \cup {Direct}, steers : BOOLEAN]
      /\ stream \in Seq([type : {"started", "completed", "interrupted", "idle"}, turn : Nat,
                         at : Nat])
  BY DEF TypeInv, RequestsOK, Ask, RpcsOK, RpcCall, DaemonOK, Report
<1>4. /\ tasks \subseteq Task
      /\ recovered \subseteq {"no-local-active-turn", "no-active-turn"}
                               \X (Items \cup {Direct}) \X Nat
      /\ phase \in {"starts", "list", "decide", "up"}
      /\ delivered \in [Items -> Nat] /\ unanswered \in [Items -> Nat]
      /\ accepted \subseteq Items \cup {Direct}
  BY DEF TypeInv, TasksOK, RecoveredOK, RecoveryKey, CountsOK, HistoryOK
<1> QED
  BY <1>1, <1>2, <1>3, <1>4 DEF TypeOK

\* A session that names a turn of the daemon is applied to one that does.
LEMMA SessionSetTyped ==
    ASSUME SessionOK, NEW st \in Statuses, NEW turn \in Nat, turn <= turns,
           NEW at \in Nat, SessionSet(st, turn, at), turns \in Nat, turns' = turns
    PROVE  SessionOK'
<1>1. CASE UNCHANGED session
  BY <1>1 DEF session, SessionOK
<1>2. CASE ~UNCHANGED session
  <2>1. status' = st /\ active' = turn /\ sessAt' = at
    BY <1>2 DEF SessionSet
  <2>2. latest' \in {turn, active, latest, 0}
    BY <1>2 DEF SessionSet
  <2>3. doneAt' \in {0, at, doneAt}
    BY <1>2 DEF SessionSet
  <2>4. pending' \in BOOLEAN
    BY <1>2 DEF SessionSet
  <2> QED
    BY <2>1, <2>2, <2>3, <2>4 DEF SessionOK
<1> QED
  BY <1>1, <1>2

LEMMA StartRequestedTyped ==
    ASSUME SessionOK, clock \in Nat, turns \in Nat, turns' = turns,
           StartRequested \/ UNCHANGED session
    PROVE  SessionOK'
<1>1. CASE UNCHANGED session
  BY <1>1 DEF session, SessionOK
<1>2. CASE StartRequested
  <2>1. now \in Nat
    BY DEF now
  <2> QED
    BY <1>2, <2>1 DEF StartRequested, SessionOK, Statuses
<1> QED
  BY <1>1, <1>2

LEMMA RequestsTyped ==
    ASSUME RequestsOK,
           \/ requests' \in {requests, <<>>}
           \/ requests # <<>> /\ requests' = Tail(requests)
           \/ \E x \in Ask : requests' = Append(requests, x)
    PROVE  RequestsOK'
<1>1. \A s \in Seq(Ask) : s # <<>> => Tail(s) \in Seq(Ask)
  OBVIOUS
<1>2. \A s \in Seq(Ask), x \in Ask : Append(s, x) \in Seq(Ask)
  OBVIOUS
<1>3. <<>> \in Seq(Ask)
  OBVIOUS
<1> QED
  BY <1>1, <1>2, <1>3 DEF RequestsOK

LEMMA HeadTyped ==
    ASSUME RequestsOK, requests # <<>> PROVE Head(requests) \in Ask
  BY DEF RequestsOK

\* What no renderer, handler or call of a kind touches keeps its type.
LEMMA Untouched ==
    /\ RequestsOK /\ UNCHANGED requests => RequestsOK'
    /\ TasksOK /\ UNCHANGED <<tasks, turns>> => TasksOK'
    /\ RpcsOK /\ UNCHANGED rpcs => RpcsOK'
    /\ RecoveredOK /\ UNCHANGED recovered => RecoveredOK'
    /\ DaemonOK /\ UNCHANGED <<rt, rtAt, turns, stream>> => DaemonOK'
    /\ CountsOK /\ UNCHANGED <<sends, incidents, snap, phase, seen>> => CountsOK'
    /\ HistoryOK /\ UNCHANGED <<delivered, unanswered, accepted>> => HistoryOK'
    /\ SessionOK /\ UNCHANGED <<session, turns>> => SessionOK'
  BY DEF RequestsOK, TasksOK, RpcsOK, RecoveredOK, DaemonOK, CountsOK, HistoryOK,
         SessionOK, session

LEMMA HeadItem ==
    ASSUME QueueInv, queue # <<>>
    PROVE  Head1 \in QueueItem /\ Head1.id \in Items /\ Head1.act \in Nat
<1>1. queue \in Seq(QueueItem)
  BY DEF QueueInv
<1>2. queue[1] \in QueueItem
  BY <1>1
<1> QED
  BY <1>2 DEF Head1, QueueItem

\* A request that a renderer makes.
LEMMA Requested ==
    ASSUME RequestsOK, clock \in Nat, NEW i \in Items \cup {Direct},
           requests' \in {Request("start", i), Request("steer", i)}
    PROVE  RequestsOK'
<1>1. \A kind \in {"start", "steer"} : [kind |-> kind, id |-> i, act |-> now] \in Ask
  BY DEF Ask, now
<1>2. \E kind \in {"start", "steer"} :
         requests' = Append(requests, [kind |-> kind, id |-> i, act |-> now])
  BY DEF Request
<1> QED
  BY <1>1, <1>2, RequestsTyped

LEMMA RenderersTyped ==
    ASSUME TypeInv, QueueInv', Renderers PROVE TypeInv'
<1>q. clock \in Nat /\ turns \in Nat /\ now \in Nat
  BY DEF TypeInv, QueueInv, DaemonOK, now
<1>1. ASSUME NEW i \in Items, Reserve(i) PROVE TypeInv'
  <2>1. /\ UNCHANGED <<session, requests, tasks, recovered, startup, rpcs, runtime, sends,
                       incidents, unanswered, accepted>>
        /\ seen' = seen \cup {i}
    BY <1>1 DEF Reserve
  <2>2. CountsOK'
    BY <2>1 DEF TypeInv, CountsOK, startup
  <2> QED
    BY <2>1, <2>2, Untouched DEF TypeInv, runtime
<1>2. ASSUME NEW k \in DOMAIN queue, Enqueue(k) \/ Cancel(k) PROVE TypeInv'
  <2>1. UNCHANGED <<session, requests, tasks, recovered, startup, rpcs, runtime, budget,
                    incidents, unanswered, accepted>>
    BY <1>2 DEF Enqueue, Cancel
  <2> QED
    BY <2>1, Untouched DEF TypeInv, runtime, startup, budget
<1>3. ASSUME NEW mode, Activate(mode) PROVE TypeInv'
  <2>1. queue # <<>> /\ Head1.id \in Items
    BY <1>3, HeadItem DEF Activate, CanActivate, TypeInv
  <2>2. RequestsOK'
    BY <1>3, <1>q, <2>1, Requested DEF Activate, TypeInv
  <2>3. UNCHANGED <<tasks, recovered, startup, rpcs, runtime, seen, incidents, unanswered,
                    accepted>> /\ sends' = sends + 1
    BY <1>3 DEF Activate
  <2>4. StartRequested \/ UNCHANGED session
    BY <1>3 DEF Activate
  <2>5. SessionOK'
    BY <2>3, <2>4, <1>q, StartRequestedTyped DEF TypeInv, runtime
  <2>6. CountsOK'
    BY <2>3 DEF TypeInv, CountsOK, startup
  <2> QED
    BY <2>2, <2>3, <2>5, <2>6, Untouched DEF TypeInv, runtime
<1>4. CASE DirectPrompt
  <2>2. RequestsOK'
    BY <1>4, <1>q, Requested DEF DirectPrompt, TypeInv
  <2>3. UNCHANGED <<queue, tasks, recovered, startup, rpcs, runtime, budget, unanswered,
                    accepted>> /\ incidents' = incidents + 1
    BY <1>4 DEF DirectPrompt
  <2>4. StartRequested \/ UNCHANGED session
    BY <1>4 DEF DirectPrompt
  <2>5. SessionOK'
    BY <2>3, <2>4, <1>q, StartRequestedTyped DEF TypeInv, runtime
  <2>6. CountsOK'
    BY <2>3 DEF TypeInv, CountsOK, startup, budget
  <2> QED
    BY <2>2, <2>3, <2>5, <2>6, Untouched DEF TypeInv, runtime
<1>5. CASE Interrupt
  <2>1. [kind |-> "interrupt", id |-> Direct, act |-> 0] \in Ask
    BY DEF Ask
  <2>2. requests' = Append(requests, [kind |-> "interrupt", id |-> Direct, act |-> 0])
    BY <1>5 DEF Interrupt
  <2>3. RequestsOK'
    BY <2>1, <2>2, RequestsTyped DEF TypeInv
  <2>4. UNCHANGED <<clock, queue, pending, tasks, recovered, startup, rpcs, runtime, budget,
                    unanswered, accepted>> /\ incidents' = incidents + 1
    BY <1>5 DEF Interrupt
  <2>5. PICK turn \in {active, latest, 0} :
           /\ \/ status' = "interrupted" /\ active' = 0 /\ sessAt' = clock
              \/ UNCHANGED <<status, active, sessAt>>
           /\ \/ latest' = turn /\ doneAt' \in {doneAt, clock}
              \/ UNCHANGED <<latest, doneAt>>
    BY <1>5 DEF Interrupt
  <2>6. SessionOK'
    BY <2>4, <2>5, <1>q DEF TypeInv, SessionOK, Statuses, runtime
  <2>7. CountsOK'
    BY <2>4 DEF TypeInv, CountsOK, startup, budget
  <2> QED
    BY <2>3, <2>4, <2>6, <2>7, Untouched DEF TypeInv, runtime
<1> QED
  BY <1>1, <1>2, <1>3, <1>4, <1>5 DEF Renderers, AutoActivate, OperatorActivate

LEMMA Taken ==
    ASSUME RequestsOK, Take
    PROVE  RequestsOK' /\ Head(requests) \in Ask
  BY RequestsTyped, HeadTyped DEF Take

LEMMA PlainTask ==
    ASSUME NEW req, NEW mode, NEW turn, NEW inline
    PROVE  NewTask(req, mode, turn, inline)
             = [NewTask(req, mode, turn, inline) EXCEPT !.markAt = req.act]
  BY DEF NewTask

\* A task that is started, with its call.
LEMMA Started ==
    ASSUME TasksOK, RpcsOK, turns' = turns, NEW req \in Ask, NEW turn \in Nat, turn <= turns,
           NEW inline \in BOOLEAN, NEW markAt \in Nat,
           NEW mode \in {"send", "routed", "resend", "steer", "next"},
           Start([NewTask(req, mode, turn, inline) EXCEPT !.markAt = markAt])
    PROVE  TasksOK' /\ RpcsOK'
<1> DEFINE task == [NewTask(req, mode, turn, inline) EXCEPT !.markAt = markAt]
<1>1. task \in Task /\ Call(task) \in RpcCall /\ task.turn = turn
  <2>1. Steers(mode) \in BOOLEAN
    BY DEF Steers
  <2> QED
    BY <2>1 DEF NewTask, Task, Ask, Call, RpcCall
<1>2. Start(task)
  OBVIOUS
<1> HIDE DEF task
<1> QED
  BY <1>1, <1>2 DEF TasksOK, RpcsOK, Start

LEMMA HandleStartTyped ==
    ASSUME TypeInv, QueueInv', HandleStart PROVE TypeInv'
<1> DEFINE req == Head(requests)
<1>q. clock \in Nat /\ turns \in Nat /\ rt \in Nat /\ rt <= turns
  BY DEF TypeInv, QueueInv, DaemonOK
<1>1. RequestsOK' /\ req \in Ask
  BY Taken DEF HandleStart, TypeInv
<1>2. PICK turn \in 0..MaxTurns :
         /\ SeenTurn(turn)
         /\ IF turn # 0 THEN StartRouted(req, turn) ELSE StartSent(req)
  BY DEF HandleStart
<1>3. UNCHANGED <<clock, readModel, recovered, startup, runtime, budget, incidents,
                  unanswered, accepted>>
  BY DEF HandleStart
<1>4. turn \in Nat /\ turn <= turns
  BY <1>2, <1>q DEF SeenTurn
<1> HIDE DEF req
<1>5. PICK mode \in {"send", "routed", "resend", "steer", "next"} :
         Start(NewTask(req, mode, turn, FALSE))
  BY <1>2 DEF StartRouted, StartSent
<1>p. NewTask(req, mode, turn, FALSE)
        = [NewTask(req, mode, turn, FALSE) EXCEPT !.markAt = req.act]
  BY PlainTask
<1>6. Start([NewTask(req, mode, turn, FALSE) EXCEPT !.markAt = req.act])
  BY <1>5, <1>p
<1>7. req.act \in Nat /\ turns' = turns
  BY <1>1, <1>3 DEF Ask, runtime
<1>8. TasksOK' /\ RpcsOK'
  BY <1>1, <1>4, <1>6, <1>7, Started DEF TypeInv
<1> QED
  BY <1>1, <1>3, <1>8, Untouched DEF TypeInv, readModel, session, startup, runtime, budget

LEMMA HandleSteerTyped ==
    ASSUME TypeInv, QueueInv', HandleSteer PROVE TypeInv'
<1> DEFINE req == Head(requests)
<1>q. /\ clock \in Nat /\ now \in Nat /\ turns \in Nat /\ rt \in Nat /\ rt <= turns
      /\ active \in Nat /\ active <= turns
  BY DEF TypeInv, QueueInv, DaemonOK, SessionOK, now
<1>1. RequestsOK' /\ req \in Ask
  BY Taken DEF HandleSteer, TypeInv
<1>2. PICK seenTurn \in 0..MaxTurns :
         /\ SeenTurn(seenTurn)
         /\ IF SteerTarget(seenTurn) = 0 THEN retrySteerAsNextTurn(req)
            ELSE /\ Start(NewTask(req, "steer", SteerTarget(seenTurn), FALSE))
                 /\ UNCHANGED <<clock, session, recovered>>
  BY DEF HandleSteer
<1>3. UNCHANGED <<queue, startup, runtime, budget, incidents, unanswered, accepted>>
  BY DEF HandleSteer
<1>4. SteerTarget(seenTurn) \in Nat /\ SteerTarget(seenTurn) <= turns
  BY <1>2, <1>q DEF SeenTurn, SteerTarget
<1> HIDE DEF req
<1>5. req.act \in Nat /\ turns' = turns /\ req.id \in Items \cup {Direct}
  BY <1>1, <1>3 DEF Ask, runtime
<1>6. CASE /\ Start(NewTask(req, "steer", SteerTarget(seenTurn), FALSE))
           /\ UNCHANGED <<clock, session, recovered>>
  <2>1. Start([NewTask(req, "steer", SteerTarget(seenTurn), FALSE) EXCEPT !.markAt = req.act])
    BY <1>6, PlainTask
  <2>2. TasksOK' /\ RpcsOK'
    BY <1>1, <1>4, <2>1, <1>5, Started DEF TypeInv
  <2> QED
    BY <1>1, <1>3, <1>5, <1>6, <2>2, Untouched DEF TypeInv, startup, runtime, budget
<1>7. CASE UNCHANGED <<clock, session, recovered, tasks, rpcs>>
  BY <1>1, <1>3, <1>5, <1>7, Untouched DEF TypeInv, startup, runtime, budget
<1>8. CASE /\ recovered' = recovered \cup {<<"no-local-active-turn", req.id, 0>>}
           /\ Tick
           /\ SessionSet("ready", 0, now)
           /\ Start([NewTask(req, "next", 0, TRUE) EXCEPT !.markAt = now])
  <2>0. Start([NewTask(req, "next", 0, TRUE) EXCEPT !.markAt = now]) /\ 0 <= turns
    BY <1>8, <1>q
  <2>1. TasksOK' /\ RpcsOK'
    BY <1>1, <1>5, <1>q, <2>0, Started DEF TypeInv
  <2>2. RecoveredOK'
    BY <1>5, <1>8 DEF TypeInv, RecoveredOK, RecoveryKey
  <2>3. SessionOK'
    BY <1>5, <1>8, <1>q, SessionSetTyped DEF TypeInv, Statuses
  <2> QED
    BY <1>1, <1>3, <1>5, <2>1, <2>2, <2>3, Untouched DEF TypeInv, startup, runtime, budget
<1> QED
  BY <1>2, <1>6, <1>7, <1>8 DEF retrySteerAsNextTurn

LEMMA EndOfTurnTyped ==
    ASSUME DaemonOK, clock \in Nat, NEW outcome \in {"completed", "interrupted"},
           NEW quiet \in BOOLEAN, EndOfTurn(outcome, quiet), turns' = turns
    PROVE  DaemonOK'
<1> DEFINE e == [type |-> outcome, turn |-> rt, at |-> clock]
           i == [type |-> "idle", turn |-> 0, at |-> clock]
<1>1. e \in Report /\ i \in Report /\ e.turn <= turns /\ i.turn <= turns
  BY DEF DaemonOK, Report
<1>2. stream' = Append(stream, e) \/ stream' = Append(Append(stream, e), i)
  BY DEF EndOfTurn, DaemonOK
<1>3. stream \in Seq(Report) /\ \A k \in DOMAIN stream : stream[k].turn <= turns
  BY DEF DaemonOK
<1> HIDE DEF e, i
<1>4. \A s \in Seq(Report), x \in Report :
         /\ Append(s, x) \in Seq(Report)
         /\ \A k \in DOMAIN Append(s, x) :
               Append(s, x)[k] = IF k \in DOMAIN s THEN s[k] ELSE x
  OBVIOUS
<1>5. \A s \in Seq(Report), x \in Report :
         (\A k \in DOMAIN s : s[k].turn <= turns) /\ x.turn <= turns
           => /\ Append(s, x) \in Seq(Report)
              /\ \A k \in DOMAIN Append(s, x) : Append(s, x)[k].turn <= turns
  BY <1>4
<1>6. stream' \in Seq(Report) /\ \A k \in DOMAIN stream' : stream'[k].turn <= turns
  BY <1>1, <1>2, <1>3, <1>5
<1> QED
  BY <1>6 DEF DaemonOK, EndOfTurn

LEMMA HandleInterruptTyped ==
    ASSUME TypeInv, QueueInv', HandleInterrupt PROVE TypeInv'
<1>1. RequestsOK'
  BY Taken DEF HandleInterrupt, TypeInv
<1>2. UNCHANGED <<clock, readModel, tasks, recovered, startup, rpcs, budget, incidents,
                  unanswered, accepted>> /\ UNCHANGED <<turns, delivered>>
  BY DEF HandleInterrupt, runtime
<1>3. DaemonOK'
  <2>1. CASE UNCHANGED runtime
    BY <2>1, Untouched DEF TypeInv, runtime
  <2>2. CASE \E quiet \in BOOLEAN : EndOfTurn("interrupted", quiet)
    BY <1>2, <2>2, EndOfTurnTyped DEF TypeInv, QueueInv
  <2> QED
    BY <2>1, <2>2 DEF HandleInterrupt
<1> QED
  BY <1>1, <1>2, <1>3, Untouched DEF TypeInv, readModel, session, startup, budget

\* A task that goes on in another stage, or ends.
LEMMA StageTyped ==
    ASSUME TasksOK, turns' = turns, NEW t \in tasks,
           \/ Ends(t)
           \/ \E stage \in {"failed", "mark", "write", "running"} :
                 Answered(t, [t EXCEPT !.stage = stage])
    PROVE  TasksOK'
<1>1. CASE Ends(t)
  BY <1>1 DEF Ends, TasksOK
<1>2. ASSUME NEW stage \in {"failed", "mark", "write", "running"},
             Answered(t, [t EXCEPT !.stage = stage])
      PROVE TasksOK'
  <2>1. t \in Task /\ t.turn <= turns
    BY DEF TasksOK
  <2>2. [t EXCEPT !.stage = stage] \in Task /\ [t EXCEPT !.stage = stage].turn <= turns
    BY <2>1 DEF Task
  <2> QED
    BY <1>2, <2>2 DEF Answered, TasksOK
<1> QED
  BY <1>1, <1>2

LEMMA ResolveTyped ==
    ASSUME SessionOK, clock \in Nat, NEW act, Accept(act),
           UNCHANGED <<status, active, latest, doneAt, pending, turns>>
    PROVE  SessionOK'
<1>1. sessAt' \in {sessAt, clock}
  BY DEF Accept, Ordered
<1> QED
  BY <1>1 DEF SessionOK

LEMMA TaskStepsTyped ==
    ASSUME TypeInv, QueueInv', NEW t \in tasks,
           \/ TaskAccepted(t) \/ MarkRead(t) \/ MarkWrite(t) \/ StartFailed(t)
           \/ SteerFailed(t) \/ GiveUp(t)
    PROVE  TypeInv'
<1>q. /\ clock \in Nat /\ turns \in Nat /\ t.turn \in Nat /\ t.turn <= turns
      /\ t.act \in Nat /\ t.markAt \in Nat /\ t.id \in Items \cup {Direct}
  BY DEF TypeInv, QueueInv, DaemonOK, TasksOK, Task
<1>1. CASE TaskAccepted(t)
  <2>1. UNCHANGED <<clock, status, active, latest, doneAt, pending, requests, recovered,
                    startup, rpcs, runtime, budget, incidents, unanswered>>
    BY <1>1 DEF TaskAccepted
  <2>2. TasksOK'
    BY <1>1, <2>1, StageTyped DEF TaskAccepted, TypeInv, runtime
  <2>3. SessionOK'
    BY <1>1, <2>1, <1>q, ResolveTyped DEF TaskAccepted, TypeInv, runtime
  <2>4. HistoryOK'
    BY <1>1, <2>1, <1>q DEF TaskAccepted, TypeInv, HistoryOK, runtime
  <2> QED
    BY <2>1, <2>2, <2>3, <2>4, Untouched DEF TypeInv, startup, runtime, budget
<1>2. CASE MarkRead(t)
  <2>1. UNCHANGED <<clock, readModel, requests, recovered, startup, rpcs, runtime, budget,
                    incidents, unanswered, accepted>>
    BY <1>2 DEF MarkRead
  <2>2. TasksOK'
    BY <1>2, <2>1, StageTyped DEF MarkRead, TypeInv, runtime
  <2> QED
    BY <2>1, <2>2, Untouched DEF TypeInv, readModel, session, startup, runtime, budget
<1>3. CASE MarkWrite(t)
  <2>1. UNCHANGED <<clock, queue, requests, recovered, startup, rpcs, runtime, budget,
                    incidents, unanswered, accepted>>
    BY <1>3 DEF MarkWrite
  <2>2. TasksOK'
    BY <1>3, <2>1, StageTyped DEF MarkWrite, TypeInv, runtime
  <2>3. PICK at \in Nat : SessionSet("running", t.turn, at)
    BY <1>3, <1>q DEF MarkWrite
  <2>4. SessionOK'
    BY <2>1, <2>3, <1>q, SessionSetTyped DEF TypeInv, Statuses, runtime
  <2> QED
    BY <2>1, <2>2, <2>4, Untouched DEF TypeInv, startup, runtime, budget
<1>4. CASE StartFailed(t)
  <2>1. UNCHANGED <<clock, requests, recovered, startup, rpcs, runtime, budget, incidents,
                    unanswered, accepted>>
    BY <1>4 DEF StartFailed
  <2>2. TasksOK'
    BY <1>4, <2>1, StageTyped DEF StartFailed, TypeInv, runtime
  <2>3. SessionSet("ready", 0, t.act)
    BY <1>4 DEF StartFailed
  <2>4. SessionOK'
    BY <2>1, <2>3, <1>q, SessionSetTyped DEF TypeInv, Statuses, runtime
  <2> QED
    BY <2>1, <2>2, <2>4, Untouched DEF TypeInv, startup, runtime, budget
<1>5. CASE SteerFailed(t)
  <2>1. UNCHANGED <<clock, session, requests, recovered, startup, rpcs, runtime, budget,
                    incidents, unanswered, accepted>>
    BY <1>5 DEF SteerFailed
  <2>2. TasksOK'
    BY <1>5, <2>1, StageTyped DEF SteerFailed, TypeInv, runtime
  <2> QED
    BY <2>1, <2>2, Untouched DEF TypeInv, startup, runtime, budget
<1>6. CASE GiveUp(t)
  <2>1. UNCHANGED <<clock, readModel, requests, recovered, startup, rpcs, runtime, budget,
                    accepted>> /\ incidents' = incidents + 1
    BY <1>6 DEF GiveUp
  <2>2. TasksOK'
    BY <1>6, <2>1, StageTyped DEF GiveUp, TypeInv, runtime
  <2>3. CountsOK'
    BY <2>1 DEF TypeInv, CountsOK, startup, budget
  <2>4. HistoryOK'
    <3>1. unanswered' = unanswered
             \/ (t.id \in Items /\ unanswered' = [unanswered EXCEPT ![t.id] = @ + 1])
      BY <1>6, <1>q DEF GiveUp
    <3> QED
      BY <2>1, <3>1 DEF TypeInv, HistoryOK, runtime
  <2> QED
    BY <2>1, <2>2, <2>3, <2>4, Untouched DEF TypeInv, readModel, session, runtime
<1> QED
  BY <1>1, <1>2, <1>3, <1>4, <1>5, <1>6

LEMMA SteerFoundNoTurnTyped ==
    ASSUME TypeInv, QueueInv', NEW t \in tasks, SteerFoundNoTurn(t) PROVE TypeInv'
<1> DEFINE key == <<"no-active-turn", t.id, t.turn>>
           again(mode) == [t EXCEPT !.mode = mode, !.stage = "call", !.markAt = now]
<1>q. /\ clock \in Nat /\ now \in Nat /\ turns \in Nat /\ 0 <= turns
      /\ t \in Task /\ t.turn <= turns /\ t.turn \in Nat /\ t.id \in Items \cup {Direct}
  BY DEF TypeInv, QueueInv, DaemonOK, TasksOK, Task, now
<1>1. UNCHANGED <<queue, requests, startup, runtime, budget, incidents, unanswered,
                  accepted>>
  BY DEF SteerFoundNoTurn
<1>2. CASE Ends(t) /\ UNCHANGED <<clock, session, recovered, rpcs>>
  <2>1. TasksOK'
    BY <1>1, <1>2, StageTyped DEF TypeInv, runtime
  <2> QED
    BY <1>1, <1>2, <2>1, Untouched DEF TypeInv, startup, runtime, budget
<1>3. ASSUME NEW mode \in {"resend", "next"}, Answered(t, again(mode)),
             rpcs' = rpcs \cup {Call(again(mode))}, Tick, SessionSet("ready", 0, now),
             recovered' \in {recovered, recovered \cup {key}}
      PROVE  TypeInv'
  <2>1. again(mode) \in Task /\ again(mode).turn = t.turn
    BY <1>q DEF Task
  <2>2. Call(again(mode)) \in RpcCall
    <3>1. Steers(again(mode).mode) \in BOOLEAN
      BY DEF Steers
    <3> QED
      BY <1>q, <3>1 DEF Call, RpcCall, Task
  <2>3. TasksOK' /\ RpcsOK'
    <3> HIDE DEF again
    <3> QED
      BY <1>1, <1>3, <1>q, <2>1, <2>2 DEF Answered, TasksOK, RpcsOK, TypeInv, runtime
  <2>4. RecoveredOK'
    BY <1>3, <1>q DEF TypeInv, RecoveredOK, RecoveryKey
  <2>5. SessionOK'
    BY <1>1, <1>3, <1>q, SessionSetTyped DEF TypeInv, Statuses, runtime
  <2> QED
    BY <1>1, <2>3, <2>4, <2>5, Untouched DEF TypeInv, startup, runtime, budget
<1> QED
  BY <1>2, <1>3 DEF SteerFoundNoTurn

\* What a call may do at the daemon.
LEMMA EffectsTyped ==
    ASSUME DaemonOK, HistoryOK, clock \in Nat, NEW r \in RpcCall,
           NEW answer \in {"ok", "noTurn", "refused", "failed"}, Effects(r, answer),
           UNCHANGED accepted, unanswered' \in [Items -> Nat]
    PROVE  /\ DaemonOK' /\ HistoryOK' /\ turns' >= turns
           /\ answer = "ok" => rt' \in Nat /\ rt' <= turns'
<1>n. turns \in Nat /\ now \in Nat /\ rt \in Nat /\ rt <= turns /\ turns <= MaxTurns
  BY DEF DaemonOK, now
<1>d. Deliver(r.id) => delivered' \in [Items -> Nat]
  BY DEF Deliver, HistoryOK, RpcCall
<1>1. CASE answer = "ok" /\ rt = 0
  <2> DEFINE e == [type |-> "started", turn |-> turns + 1, at |-> now]
  <2>1. /\ turns < MaxTurns /\ turns' = turns + 1 /\ rt' = turns + 1 /\ rtAt' = now
        /\ stream' = Append(stream, e) /\ Deliver(r.id)
    BY <1>1 DEF Effects
  <2>2. e \in Report /\ e.turn = turns + 1
    BY <1>n DEF Report
  <2>3. stream \in Seq(Report) /\ \A k \in DOMAIN stream : stream[k].turn <= turns
    BY DEF DaemonOK
  <2> HIDE DEF e
  <2>4. \A s \in Seq(Report), x \in Report :
           /\ Append(s, x) \in Seq(Report)
           /\ \A k \in DOMAIN Append(s, x) :
                 IF k \in DOMAIN s THEN Append(s, x)[k] = s[k] ELSE Append(s, x)[k] = x
    OBVIOUS
  <2>5. /\ stream' \in Seq(Report)
        /\ \A k \in DOMAIN stream' : (k \in DOMAIN stream /\ stream'[k] = stream[k])
                                        \/ stream'[k] = e
    BY <2>1, <2>2, <2>3, <2>4
  <2>6. \A k \in DOMAIN stream : stream[k].turn \in Nat
    <3>1. \A k \in DOMAIN stream : stream[k] \in Report
      BY <2>3
    <3> QED BY <3>1 DEF Report
  <2>7. \A k \in DOMAIN stream' : stream'[k].turn <= turns + 1
    BY <2>2, <2>3, <2>5, <2>6, <1>n
  <2>8. DaemonOK'
    BY <2>1, <2>5, <2>7, <1>n, FollowUpsAssumption DEF DaemonOK
  <2> QED
    BY <2>1, <2>8, <1>d, <1>n DEF HistoryOK
<1>2. CASE answer = "ok" /\ rt # 0
  <2>1. /\ rtAt' = clock /\ UNCHANGED <<clock, rt, turns, stream>> /\ Deliver(r.id)
    BY <1>2 DEF Effects
  <2> QED
    BY <2>1, <1>d, <1>n DEF DaemonOK, HistoryOK
<1>3. CASE answer # "ok"
  <2>1. UNCHANGED runtime
    BY <1>3 DEF Effects
  <2> QED
    BY <2>1, <1>3, <1>n DEF DaemonOK, HistoryOK, runtime
<1> QED
  BY <1>1, <1>2, <1>3

LEMMA ExecuteTyped ==
    ASSUME TypeInv, QueueInv', NEW r \in rpcs, Execute(r) PROVE TypeInv'
<1>1. PICK answer \in {"ok", "noTurn", "refused", "failed"}, heard \in BOOLEAN :
         /\ Effects(r, answer)
         /\ rpcs' = rpcs \ {r}
         /\ incidents' = IF heard THEN incidents ELSE incidents + 1
         /\ unanswered' = IF heard \/ r.id = Direct THEN unanswered
                          ELSE [unanswered EXCEPT ![r.id] = @ + 1]
         /\ tasks' = { IF t \notin Waiting(r) THEN t
                       ELSE [t EXCEPT !.stage = IF heard THEN answer ELSE "failed",
                                      !.turn = IF answer = "ok" THEN rt' ELSE @] : t \in tasks }
         /\ UNCHANGED <<readModel, requests, recovered, startup, budget, accepted>>
  BY DEF Execute
<1>2. r \in RpcCall /\ clock \in Nat /\ turns \in Nat
  BY DEF TypeInv, RpcsOK, QueueInv, DaemonOK
<1>3. unanswered' \in [Items -> Nat]
  <2>1. r.id \in Items \cup {Direct} /\ unanswered \in [Items -> Nat]
    BY <1>2 DEF RpcCall, TypeInv, HistoryOK
  <2>2. r.id \in Items => [unanswered EXCEPT ![r.id] = @ + 1] \in [Items -> Nat]
    BY <2>1
  <2> QED
    BY <1>1, <2>1, <2>2
<1>4. /\ DaemonOK' /\ HistoryOK' /\ turns' >= turns
      /\ answer = "ok" => rt' \in Nat /\ rt' <= turns'
  BY <1>1, <1>2, <1>3, EffectsTyped DEF TypeInv
<1>5. TasksOK'
  <2>1. turns' \in Nat
    BY <1>4 DEF DaemonOK
  <2>2. SUFFICES ASSUME NEW u \in tasks' PROVE u \in Task /\ u.turn <= turns'
    BY DEF TasksOK
  <2>3. PICK t \in tasks :
           u = IF t \notin Waiting(r) THEN t
               ELSE [t EXCEPT !.stage = IF heard THEN answer ELSE "failed",
                              !.turn = IF answer = "ok" THEN rt' ELSE @]
    BY <1>1
  <2>4. t \in Task /\ t.turn \in Nat /\ t.turn <= turns
    BY DEF TypeInv, TasksOK, Task
  <2>5. CASE u = t
    BY <2>1, <2>4, <2>5, <1>2, <1>4
  <2>6. ASSUME NEW stage \in {"ok", "noTurn", "refused", "failed"}, NEW turn \in Nat,
               turn <= turns', u = [t EXCEPT !.stage = stage, !.turn = turn]
        PROVE u \in Task /\ u.turn <= turns'
    BY <2>4, <2>6 DEF Task
  <2>7. CASE u # t
    <3>1. (IF answer = "ok" THEN rt' ELSE t.turn) \in Nat
            /\ (IF answer = "ok" THEN rt' ELSE t.turn) <= turns'
      BY <1>2, <1>4, <2>1, <2>4
    <3>2. (IF heard THEN answer ELSE "failed") \in {"ok", "noTurn", "refused", "failed"}
      OBVIOUS
    <3> QED
      BY <2>3, <2>6, <2>7, <3>1, <3>2
  <2> QED
    BY <2>5, <2>7
<1>6. RpcsOK'
  BY <1>1 DEF RpcsOK, TypeInv
<1>7. CountsOK'
  <2>1. incidents' = incidents \/ incidents' = incidents + 1
    BY <1>1
  <2>2. UNCHANGED <<phase, snap, seen, sends>>
    BY <1>1 DEF startup, budget
  <2> QED
    BY <2>1, <2>2 DEF TypeInv, CountsOK
<1>8. SessionOK'
  <2>1. UNCHANGED session /\ SessionOK /\ turns' \in Nat
    BY <1>1, <1>4 DEF readModel, session, TypeInv, DaemonOK
  <2> QED
    BY <2>1, <1>2, <1>4 DEF SessionOK, session
<1> QED
  BY <1>1, <1>4, <1>5, <1>6, <1>7, <1>8, Untouched DEF TypeInv

LEMMA IngestTyped ==
    ASSUME TypeInv, QueueInv', Ingest PROVE TypeInv'
<1> DEFINE e == Head(stream)
<1>1. /\ stream # <<>> /\ stream' = Tail(stream)
      /\ UNCHANGED <<clock, queue, requests, tasks, recovered, startup, rpcs, rt, rtAt,
                     turns, delivered, budget, incidents, unanswered, accepted>>
  BY DEF Ingest
<1>2. stream \in Seq(Report) /\ \A k \in DOMAIN stream : stream[k].turn <= turns
  BY DEF TypeInv, DaemonOK
<1>3. e \in Report /\ e.turn <= turns
  BY <1>1, <1>2
<1>4. DaemonOK'
  <2>1. /\ Tail(stream) \in Seq(Report)
        /\ \A k \in DOMAIN Tail(stream) : k + 1 \in DOMAIN stream
                                          /\ Tail(stream)[k] = stream[k + 1]
    BY <1>1, <1>2
  <2> QED
    BY <1>1, <1>2, <2>1 DEF TypeInv, DaemonOK
<1>5. \/ UNCHANGED session
      \/ SessionSet("running", e.turn, e.at)
      \/ \E st \in {"ready", "interrupted"} : SessionSet(st, 0, e.at)
      \/ \E st \in {"starting", "ready"} : SessionSet(st, active, e.at)
  <2>1. e.type \in {"started", "completed", "interrupted", "idle"}
    BY <1>3 DEF Report
  <2> QED
    BY <2>1 DEF Ingest
<1> HIDE DEF e
<1>6. SessionOK'
  <2>1. /\ turns \in Nat /\ turns' = turns /\ 0 <= turns /\ SessionOK
        /\ active \in Nat /\ active <= turns /\ e.turn \in Nat /\ e.at \in Nat
    BY <1>1, <1>3 DEF TypeInv, DaemonOK, SessionOK, Report
  <2>2. CASE UNCHANGED session
    BY <2>1, <2>2 DEF SessionOK, session
  <2>3. ASSUME NEW st \in Statuses, NEW turn \in Nat, turn <= turns,
               SessionSet(st, turn, e.at)
        PROVE  SessionOK'
    BY <2>1, <2>3, SessionSetTyped
  <2> QED
    BY <1>3, <1>5, <2>1, <2>2, <2>3 DEF Statuses
<1> QED
  BY <1>1, <1>4, <1>6, Untouched DEF TypeInv, startup, budget

LEMMA StartupTyped ==
    ASSUME TypeInv, QueueInv', Startup PROVE TypeInv'
<1>q. clock \in Nat /\ turns \in Nat /\ 0 <= turns /\ rtAt \in Nat
  BY DEF TypeInv, QueueInv, DaemonOK
<1>1. CASE Restart
  <2>1. /\ incidents' = incidents + 1
        /\ requests' = <<>> /\ tasks' = {} /\ recovered' = {} /\ snap' = 0 /\ phase' = "starts"
        /\ UNCHANGED <<clock, readModel, rpcs, runtime, budget, unanswered, accepted>>
    BY <1>1 DEF Restart
  <2>2. RequestsOK' /\ TasksOK' /\ RecoveredOK' /\ CountsOK'
    BY <2>1 DEF TypeInv, RequestsOK, TasksOK, RecoveredOK, CountsOK, budget
  <2> QED
    BY <2>1, <2>2, Untouched DEF TypeInv, readModel, session, runtime
<1>2. CASE RecoverStarts
  <2>1. /\ UNCHANGED <<clock, queue, requests, tasks, recovered, snap, rpcs, runtime, budget,
                       incidents, unanswered, accepted>>
        /\ phase' = "list"
        /\ UNCHANGED session \/ SessionSet("ready", 0, clock)
    BY <1>2 DEF RecoverStarts
  <2>2. SessionOK'
    <3>1. CASE UNCHANGED session
      BY <2>1, <3>1, Untouched DEF TypeInv, runtime
    <3>2. CASE SessionSet("ready", 0, clock)
      BY <2>1, <3>2, <1>q, SessionSetTyped DEF TypeInv, Statuses, runtime
    <3> QED BY <2>1, <3>1, <3>2
  <2>3. CountsOK'
    BY <2>1 DEF TypeInv, CountsOK, budget
  <2> QED
    BY <2>1, <2>2, <2>3, Untouched DEF TypeInv, runtime
<1>3. CASE ListSessions
  <2>1. UNCHANGED <<clock, readModel, requests, tasks, recovered, rpcs, runtime, budget,
                    incidents, unanswered, accepted>>
    BY <1>3 DEF ListSessions
  <2>2. snap' \in Nat /\ phase' \in {"up", "decide"}
    BY <1>3, <1>q DEF ListSessions
  <2>3. CountsOK'
    BY <2>1, <2>2 DEF TypeInv, CountsOK, budget
  <2> QED
    BY <2>1, <2>3, Untouched DEF TypeInv, readModel, session, runtime
<1>4. CASE Reconcile
  <2>1. /\ UNCHANGED <<clock, status, active, latest, doneAt, pending, requests, tasks,
                       recovered, snap, rpcs, runtime, budget, incidents, accepted>>
        /\ phase' = "up"
    BY <1>4 DEF Reconcile
  <2>2. CountsOK'
    BY <2>1 DEF TypeInv, CountsOK, budget
  <2>3. SessionOK'
    <3>1. sessAt' = sessAt \/ Accept(Head1.act)
      BY <1>4 DEF Reconcile
    <3>2. CASE sessAt' = sessAt
      BY <2>1, <3>2 DEF TypeInv, SessionOK, runtime
    <3>3. CASE Accept(Head1.act)
      BY <2>1, <3>3, <1>q, ResolveTyped DEF TypeInv, runtime
    <3> QED BY <3>1, <3>2, <3>3
  <2>4. HistoryOK'
    <3>1. \/ unanswered' = unanswered
          \/ queue # <<>> /\ unanswered' = [unanswered EXCEPT ![Head1.id] = @ + 1]
      BY <1>4 DEF Reconcile
    <3>2. queue # <<>> => Head1.id \in Items
      BY HeadItem DEF TypeInv
    <3>3. unanswered \in [Items -> Nat]
      BY DEF TypeInv, HistoryOK
    <3>4. unanswered' \in [Items -> Nat]
      BY <3>1, <3>2, <3>3
    <3> QED
      BY <2>1, <3>4 DEF TypeInv, HistoryOK, runtime
  <2> QED
    BY <2>1, <2>2, <2>3, <2>4, Untouched DEF TypeInv, runtime
<1> QED
  BY <1>1, <1>2, <1>3, <1>4 DEF Startup

LEMMA TypeInvInductive == Spec => []TypeInv
<1>1. Init => TypeInv
  <2> SUFFICES ASSUME Init PROVE TypeInv
    OBVIOUS
  <2>1. QueueInv
    BY DEF Init, QueueInv, HandoffIsHead
  <2>2. rt \in {0, 1} /\ turns = rt /\ active = rt /\ latest = rt /\ rtAt = rt
    BY DEF Init
  <2>3. SessionOK
    <3>1. /\ status \in Statuses /\ pending \in BOOLEAN
          /\ sessAt \in Nat /\ doneAt \in Nat
      BY DEF Init, Statuses
    <3> QED BY <2>2, <3>1 DEF SessionOK
  <2>4. DaemonOK
    BY <2>2, FollowUpsAssumption DEF Init, DaemonOK
  <2>5. RequestsOK /\ TasksOK /\ RpcsOK /\ RecoveredOK /\ CountsOK /\ HistoryOK
    BY DEF Init, RequestsOK, TasksOK, RpcsOK, RecoveredOK, CountsOK, HistoryOK
  <2> QED
    BY <2>1, <2>3, <2>4, <2>5 DEF TypeInv
<1>2. TypeInv /\ QueueInv' /\ [Next]_vars => TypeInv'
  <2> SUFFICES ASSUME TypeInv, QueueInv', [Next]_vars PROVE TypeInv'
    OBVIOUS
  <2>1. CASE TurnCompletes
    <3>1. UNCHANGED <<clock, readModel, requests, tasks, recovered, startup, rpcs, turns,
                      delivered, budget, incidents, unanswered, accepted>>
      BY <2>1 DEF TurnCompletes
    <3>2. DaemonOK'
      BY <2>1, <3>1, EndOfTurnTyped DEF TurnCompletes, TypeInv, QueueInv
    <3> QED
      BY <3>1, <3>2, Untouched DEF TypeInv, readModel, session, startup, budget
  <2>2. CASE Reactor
    BY <2>2, HandleStartTyped, HandleSteerTyped, HandleInterruptTyped, TaskStepsTyped,
       SteerFoundNoTurnTyped DEF Reactor
  <2>3. CASE UNCHANGED vars
    BY <2>3, Untouched DEF TypeInv, vars, readModel, session, startup, runtime, budget
  <2> QED
    BY <2>1, <2>2, <2>3, RenderersTyped, ExecuteTyped, IngestTyped, StartupTyped
    DEF Next, Daemon
<1> QED
  BY <1>1, <1>2, QueueInvInductive, PTL DEF Spec

\* Every variable of the queue, the reactor, the daemon and the startup keeps
\* its type, and no session names a turn that the daemon has not started.
THEOREM TypesHold == Spec => []TypeOK
<1> QED
  BY TypeInvTypes, TypeInvInductive, PTL

(***************************************************************************)
(* The follow-ups in the queue, and what a step does to them.              *)
(***************************************************************************)
QueueNames ==
    /\ \A k \in DOMAIN queue : queue[k].id \in seen /\ queue[k].act <= clock
    /\ \A j, k \in DOMAIN queue : queue[j].id = queue[k].id => j = k

\* Nothing comes back to the queue, the head stays at the head, and only the
\* head is handed off, with the stamp of this step if it was not before.
QueueStep ==
    /\ seen \subseteq seen' /\ clock' \in {clock, now}
    /\ \A i \in Items : Has(i)' => Has(i) \/ i \notin seen
    /\ \A i \in Items : Has(i)' /\ Has(i) /\ Head1.id = i => (Head1.id)' = i
    /\ \A a \in Nat : HandedOff(a)' =>
          queue # <<>> /\ (Head1.id)' = Head1.id /\ (HandedOff(a) \/ a = now)

LEMMA SameIds ==
    ASSUME QueueInv, QueueNames, seen' = seen, clock' \in {clock, now},
           queue' \in Seq(QueueItem), DOMAIN queue' = DOMAIN queue,
           \A k \in DOMAIN queue :
              /\ queue'[k].id = queue[k].id
              /\ \/ queue'[k].status = queue[k].status /\ queue'[k].act = queue[k].act
                 \/ queue'[k].status = "queued" /\ queue'[k].act = 0
                 \/ queue'[k].act = now /\ clock' = now
              /\ queue[k].act \in Nat
    PROVE  QueueNames' /\ QueueStep
<1>n. clock \in Nat /\ clock <= clock' /\ now \in Nat /\ 0 <= clock'
  BY DEF QueueInv, now
<1>1. QueueNames'
  BY <1>n DEF QueueNames, QueueInv
<1>2. \A i \in Items : Has(i)' => Has(i)
  BY DEF Has
<1>3. queue' # <<>> => queue # <<>> /\ 1 \in DOMAIN queue /\ 1 \in DOMAIN queue'
  BY DEF QueueInv
<1>4. \A i \in Items : Has(i)' => queue' # <<>>
  BY DEF Has
<1>5. \A i \in Items : Has(i)' /\ Head1.id = i => (Head1.id)' = i
  BY <1>3, <1>4 DEF Head1
<1>6. \A a \in Nat : HandedOff(a)' =>
          queue # <<>> /\ (Head1.id)' = Head1.id /\ (HandedOff(a) \/ a = now)
  BY <1>3 DEF HandedOff, Head1
<1> QED
  BY <1>1, <1>2, <1>5, <1>6 DEF QueueStep

LEMMA QueueKept ==
    ASSUME QueueInv, QueueNames, seen' = seen, clock' \in {clock, now}, queue' = queue
    PROVE  QueueNames' /\ QueueStep
<1>1. \A k \in DOMAIN queue : queue[k] \in QueueItem
  BY DEF QueueInv
<1>2. \A k \in DOMAIN queue : queue[k].act \in Nat
  BY <1>1 DEF QueueItem
<1> QED
  BY <1>2, SameIds DEF QueueInv

\* A sequence without its k-th item, as RemoveOne gives it.
LEMMA Removed ==
    ASSUME QueueInv, QueueNames, QueueInv', seen' = seen, clock' = clock,
           NEW k \in DOMAIN queue,
           \A j \in DOMAIN queue' :
              \/ j < k /\ queue'[j] = queue[j] /\ j \in DOMAIN queue
              \/ j >= k /\ queue'[j] = queue[j + 1] /\ j + 1 \in DOMAIN queue
    PROVE  QueueNames' /\ QueueStep
<1>n. /\ clock \in Nat /\ DOMAIN queue \subseteq Nat /\ DOMAIN queue' \subseteq Nat
      /\ queue # <<>> /\ 1 \in DOMAIN queue /\ k >= 1 /\ k \in Nat
  BY DEF QueueInv
<1>1. QueueNames'
  <2>1. \A j \in DOMAIN queue' : queue'[j].id \in seen' /\ queue'[j].act <= clock'
    BY DEF QueueNames
  <2>2. ASSUME NEW i \in DOMAIN queue', NEW j \in DOMAIN queue', queue'[i].id = queue'[j].id
        PROVE  i = j
    <3>1. i \in Nat /\ j \in Nat
      BY <1>n
    <3>2. \E a \in DOMAIN queue : queue'[i] = queue[a] /\ a = IF i < k THEN i ELSE i + 1
      BY <1>n, <3>1
    <3>3. \E b \in DOMAIN queue : queue'[j] = queue[b] /\ b = IF j < k THEN j ELSE j + 1
      BY <1>n, <3>1
    <3>4. (IF i < k THEN i ELSE i + 1) = (IF j < k THEN j ELSE j + 1)
      BY <2>2, <3>2, <3>3 DEF QueueNames
    <3> QED
      BY <1>n, <3>1, <3>4
  <2> QED
    BY <2>1, <2>2 DEF QueueNames
<1>2. \A i \in Items : Has(i)' => Has(i)
  BY DEF Has
<1>3. queue' # <<>> => 1 \in DOMAIN queue'
  BY DEF QueueInv
<1>4. queue' # <<>> =>
         \/ k > 1 /\ queue'[1] = queue[1]
         \/ k = 1 /\ queue'[1] = queue[2] /\ 2 \in DOMAIN queue
  BY <1>3, <1>n
<1>5. \A i \in Items : k = 1 /\ Head1.id = i => ~Has(i)'
  <2> SUFFICES ASSUME k = 1, NEW j \in DOMAIN queue', queue'[j].id = queue[1].id PROVE FALSE
    BY DEF Has, Head1
  <2>1. j \in Nat /\ j >= 1 /\ queue'[j] = queue[j + 1] /\ j + 1 \in DOMAIN queue
    BY <1>n DEF QueueInv
  <2>2. j + 1 = 1
    BY <1>n, <2>1 DEF QueueNames
  <2> QED
    BY <2>1, <2>2
<1>6. \A i \in Items : Has(i)' /\ Head1.id = i => (Head1.id)' = i
  <2> SUFFICES ASSUME NEW i \in Items, Has(i)', Head1.id = i PROVE (Head1.id)' = i
    OBVIOUS
  <2>1. queue' # <<>>
    BY DEF Has
  <2>2. k # 1
    BY <1>5
  <2> QED
    BY <1>4, <2>1, <2>2 DEF Head1
<1>7. \A a \in Nat : HandedOff(a)' => queue # <<>> /\ (Head1.id)' = Head1.id /\ HandedOff(a)
  <2> SUFFICES ASSUME NEW a \in Nat, HandedOff(a)'
               PROVE  queue # <<>> /\ (Head1.id)' = Head1.id /\ HandedOff(a)
    OBVIOUS
  <2>1. queue' # <<>> /\ queue'[1].status = "handoff" /\ queue'[1].act = a
    BY DEF HandedOff, Head1
  <2>2. ~(queue'[1] = queue[2] /\ 2 \in DOMAIN queue)
    BY <2>1 DEF QueueInv, HandoffIsHead
  <2> QED
    BY <1>4, <1>n, <2>1, <2>2 DEF HandedOff, Head1
<1> QED
  BY <1>1, <1>2, <1>6, <1>7 DEF QueueStep

LEMMA Resolves ==
    ASSUME QueueInv, QueueNames, QueueInv', seen' = seen, clock' = clock,
           NEW act, Accept(act) \/ Release(act)
    PROVE  QueueNames' /\ QueueStep
<1>1. CASE queue' = queue
  BY <1>1, QueueKept
<1>n. queue # <<>> => /\ 1 \in DOMAIN queue /\ queue \in Seq(QueueItem) /\ queue[1] \in QueueItem
                      /\ \A k \in DOMAIN queue : queue[k].act \in Nat
  <2>1. \A k \in DOMAIN queue : queue[k] \in QueueItem
    BY DEF QueueInv
  <2> QED
    BY <2>1 DEF QueueInv, QueueItem
<1>2. CASE queue # <<>> /\ queue' = Tail(queue)
  <2>1. \A j \in DOMAIN queue' : j >= 1 /\ queue'[j] = queue[j + 1] /\ j + 1 \in DOMAIN queue
    BY <1>2, <1>n
  <2> QED
    BY <2>1, <1>2, <1>n, Removed
<1>3. CASE queue # <<>> /\ queue' = [queue EXCEPT ![1].status = "queued", ![1].act = 0]
  <2>1. DOMAIN queue' = DOMAIN queue
    BY <1>3
  <2>2. \A k \in DOMAIN queue : k # 1 => queue'[k] = queue[k]
    BY <1>3
  <2>3. queue'[1].id = queue[1].id /\ queue'[1].status = "queued" /\ queue'[1].act = 0
    BY <1>3, <1>n DEF QueueItem
  <2> QED
    BY <2>1, <2>2, <2>3, <1>3, <1>n, SameIds DEF QueueInv
<1> QED
  BY <1>1, <1>2, <1>3 DEF Accept, Release, HandedOff

LEMMA QueueSteps ==
    ASSUME TypeInv, QueueNames, QueueInv', [Next]_vars
    PROVE  QueueNames' /\ QueueStep
<1>i. QueueInv /\ seen \subseteq Items /\ clock \in Nat /\ now \in Nat
  BY DEF TypeInv, CountsOK, QueueInv, now
<1>n. /\ queue \in Seq(QueueItem)
      /\ \A k \in DOMAIN queue : queue[k] \in QueueItem /\ queue[k].act \in Nat
                                 /\ queue[k].id \in Items
  <2>1. \A k \in DOMAIN queue : queue[k] \in QueueItem
    BY <1>i DEF QueueInv
  <2> QED
    BY <1>i, <2>1 DEF QueueInv, QueueItem
<1>1. ASSUME NEW i \in Items, Reserve(i) PROVE QueueNames' /\ QueueStep
  <2> DEFINE item == [id |-> i, status |-> "reserving", at |-> now, act |-> 0]
  <2>1. /\ i \notin seen /\ seen' = seen \cup {i} /\ clock' = now
        /\ queue' = Append(queue, item)
    BY <1>1 DEF Reserve, Tick
  <2>2. item \in QueueItem /\ item.id = i /\ item.act = 0 /\ item.status = "reserving"
    BY <1>i DEF QueueItem
  <2> HIDE DEF item
  <2>3. /\ Len(queue) \in Nat /\ DOMAIN queue = 1..Len(queue)
        /\ DOMAIN queue' = 1..(Len(queue) + 1)
        /\ \A k \in DOMAIN queue : queue'[k] = queue[k]
        /\ queue'[Len(queue) + 1] = item
    BY <2>1, <2>2, <1>n
  <2>4. \A k \in DOMAIN queue' : k \in DOMAIN queue \/ k = Len(queue) + 1
    BY <2>3
  <2>5. QueueNames'
    <3>1. \A k \in DOMAIN queue' : queue'[k].id \in seen' /\ queue'[k].act <= clock'
      BY <2>1, <2>2, <2>3, <2>4, <1>i, <1>n DEF QueueNames, now
    <3>2. ASSUME NEW j \in DOMAIN queue', NEW k \in DOMAIN queue', queue'[j].id = queue'[k].id
          PROVE  j = k
      BY <3>2, <2>1, <2>2, <2>3, <2>4 DEF QueueNames
    <3> QED
      BY <3>1, <3>2 DEF QueueNames
  <2>6. \A n \in Items : Has(n)' => Has(n) \/ n = i
    BY <2>2, <2>3, <2>4 DEF Has
  <2>7. queue # <<>> => 1 \in DOMAIN queue /\ Head1' = Head1
    BY <2>3, <1>n DEF Head1
  <2>8. \A n \in Items : Has(n) => queue # <<>>
    BY DEF Has
  <2>9. queue = <<>> => (Head1.status)' # "handoff"
    BY <2>2, <2>3 DEF Head1
  <2>10. \A a \in Nat : HandedOff(a)' =>
            queue # <<>> /\ (Head1.id)' = Head1.id /\ (HandedOff(a) \/ a = now)
    BY <2>7, <2>9 DEF HandedOff
  <2> QED
    BY <2>1, <2>5, <2>6, <2>7, <2>8, <2>10 DEF QueueStep
<1>2. ASSUME NEW k \in DOMAIN queue, Enqueue(k) PROVE QueueNames' /\ QueueStep
  <2>1. queue' = [queue EXCEPT ![k].status = "queued"] /\ queue[k].status = "reserving"
        /\ UNCHANGED <<clock, seen>>
    BY <1>2 DEF Enqueue, budget
  <2>2. DOMAIN queue' = DOMAIN queue /\ \A j \in DOMAIN queue : j # k => queue'[j] = queue[j]
    BY <2>1
  <2>3. /\ queue'[k].id = queue[k].id /\ queue'[k].act = queue[k].act
        /\ queue'[k].status = "queued"
    BY <2>1, <1>n DEF QueueItem
  <2>4. queue[k].act = 0
    BY <2>1, <1>i DEF QueueInv, HandoffIsHead
  <2> QED
    BY <2>1, <2>2, <2>3, <2>4, <1>i, <1>n, SameIds DEF QueueInv
<1>3. ASSUME NEW k \in DOMAIN queue, Cancel(k) PROVE QueueNames' /\ QueueStep
  <2>1. /\ queue' = SubSeq(queue, 1, k - 1) \o SubSeq(queue, k + 1, Len(queue))
        /\ UNCHANGED <<clock, seen>>
    BY <1>3 DEF Cancel, budget
  <2>2. \A j \in DOMAIN queue' :
           \/ j < k /\ queue'[j] = queue[j] /\ j \in DOMAIN queue
           \/ j >= k /\ queue'[j] = queue[j + 1] /\ j + 1 \in DOMAIN queue
    BY <2>1, <1>n, RemoveOne
  <2> QED
    BY <2>1, <2>2, <1>i, Removed
<1>4. ASSUME NEW mode, Activate(mode) PROVE QueueNames' /\ QueueStep
  <2>1. /\ queue' = [queue EXCEPT ![1].status = "handoff", ![1].act = now]
        /\ queue # <<>> /\ clock' = now /\ seen' = seen
    BY <1>4 DEF Activate, CanActivate, Tick
  <2>2. DOMAIN queue' = DOMAIN queue /\ \A j \in DOMAIN queue : j # 1 => queue'[j] = queue[j]
    BY <2>1
  <2>3. 1 \in DOMAIN queue /\ queue'[1].id = queue[1].id /\ queue'[1].act = now
    BY <2>1, <1>n DEF QueueItem
  <2> QED
    BY <2>1, <2>2, <2>3, <1>i, <1>n, SameIds DEF QueueInv
<1>5. CASE DirectPrompt \/ Interrupt
  <2>1. UNCHANGED <<queue, seen>> /\ clock' \in {clock, now}
    BY <1>5 DEF DirectPrompt, Interrupt, Tick, budget
  <2> QED
    BY <2>1, <1>i, QueueKept
<1>6. CASE HandleStart \/ HandleSteer \/ HandleInterrupt
  <2>1. UNCHANGED <<queue, seen>> /\ clock' \in {clock, now}
    BY <1>6 DEF HandleStart, HandleSteer, retrySteerAsNextTurn, HandleInterrupt, Tick,
                readModel, budget
  <2> QED
    BY <2>1, <1>i, QueueKept
<1>7. ASSUME NEW t \in tasks,
             MarkRead(t) \/ MarkWrite(t) \/ GiveUp(t) \/ SteerFoundNoTurn(t)
      PROVE  QueueNames' /\ QueueStep
  <2>1. UNCHANGED <<queue, seen>> /\ clock' \in {clock, now}
    BY <1>7 DEF MarkRead, MarkWrite, GiveUp, SteerFoundNoTurn, Tick, readModel, budget
  <2> QED
    BY <2>1, <1>i, QueueKept
<1>8. ASSUME NEW t \in tasks, TaskAccepted(t) \/ StartFailed(t) \/ SteerFailed(t)
      PROVE  QueueNames' /\ QueueStep
  <2>1. UNCHANGED <<clock, seen>> /\ (Accept(t.act) \/ Release(t.act))
    BY <1>8 DEF TaskAccepted, StartFailed, SteerFailed, budget
  <2> QED
    BY <2>1, <1>i, Resolves
<1>9. ASSUME NEW r \in rpcs, Execute(r) PROVE QueueNames' /\ QueueStep
  <2>1. PICK answer \in {"ok", "noTurn", "refused", "failed"} : Effects(r, answer)
    BY <1>9 DEF Execute
  <2>2. clock' \in {clock, now}
    BY <2>1 DEF Effects, Tick
  <2>3. UNCHANGED <<queue, seen>>
    BY <1>9 DEF Execute, readModel, budget
  <2> QED
    BY <2>2, <2>3, <1>i, QueueKept
<1>10. CASE TurnCompletes \/ Ingest \/ Restart \/ RecoverStarts \/ ListSessions
  <2>1. UNCHANGED <<queue, seen, clock>>
    BY <1>10 DEF TurnCompletes, Ingest, Restart, RecoverStarts, ListSessions, readModel, budget
  <2> QED
    BY <2>1, <1>i, QueueKept
<1>11. CASE Reconcile
  <2>1. UNCHANGED <<clock, seen>>
    BY <1>11 DEF Reconcile, budget
  <2>2. CASE queue' = queue
    BY <2>1, <2>2, <1>i, QueueKept
  <2>3. CASE Accept(Head1.act) \/ Release(Head1.act)
    BY <2>1, <2>3, <1>i, Resolves
  <2> QED
    BY <1>11, <2>2, <2>3 DEF Reconcile
<1>12. CASE UNCHANGED vars
  <2>1. UNCHANGED <<queue, seen, clock>>
    BY <1>12 DEF vars, readModel, budget
  <2> QED
    BY <2>1, <1>i, QueueKept
<1> QED
  BY <1>1, <1>2, <1>3, <1>4, <1>5, <1>6, <1>7, <1>8, <1>9, <1>10, <1>11, <1>12
  DEF Next, Renderers, AutoActivate, OperatorActivate, Reactor, Daemon, Startup

(***************************************************************************)
(* The work under way for an activation: its request, its task and its     *)
(* call, told apart by the stamp of the activation.                        *)
(***************************************************************************)
PromptsAt == { k \in DOMAIN requests : requests[k].kind # "interrupt" }

Work == { <<requests[k].act, requests[k].id>> : k \in PromptsAt }
          \cup { <<t.act, t.id>> : t \in tasks } \cup { <<r.act, r.id>> : r \in rpcs }

\* An activation has one request, or one task and its call, or a call that
\* nobody waits for.
OneEach ==
    /\ \A j, k \in PromptsAt : requests[j].act = requests[k].act => j = k
    /\ \A t, u \in tasks : t.act = u.act => t = u
    /\ \A r, s \in rpcs : r.act = s.act => r = s
    /\ \A k \in PromptsAt : /\ \A t \in tasks : t.act # requests[k].act
                            /\ \A r \in rpcs : r.act # requests[k].act
    /\ \A t \in tasks : t.stage = "call" => Call(t) \in rpcs
    /\ \A t \in tasks, r \in rpcs :
          t.act = r.act => r = Call(t) /\ t.stage \in {"call", "failed"}

\* Work is stamped with a time that was, and its follow-up is the head or no
\* longer in the queue.
Named ==
    /\ \A w \in Work : w[1] \in Nat /\ 1 <= w[1] /\ w[1] <= clock
    /\ \A w \in Work : w[2] \in seen \cup {Direct}
    /\ \A w \in Work : Has(w[2]) => Head1.id = w[2]
    /\ \A w \in Work : HandedOff(w[1]) => Head1.id = w[2]

Modes == {"operator", "automatic-after-settlement"}

\* A steer of the follow-up was recovered before.
Known(i) == \E key \in recovered : key[2] = i

\* What a step may do to the work, with what it does to the rest.
Asks(i) ==
    /\ clock' = now /\ requests' \in {Request("start", i), Request("steer", i)}
    /\ UNCHANGED <<tasks, rpcs>>
AsksStop ==
    /\ requests' = Append(requests, [kind |-> "interrupt", id |-> Direct, act |-> 0])
    /\ UNCHANGED <<tasks, rpcs>>
Drops ==
    /\ requests # <<>> /\ requests' = Tail(requests) /\ UNCHANGED <<tasks, rpcs>>
    /\ Head(requests).kind = "interrupt" \/ Known(Head(requests).id)
Begins(task) ==
    /\ requests # <<>> /\ requests' = Tail(requests)
    /\ Head(requests).kind # "interrupt"
    /\ task.act = Head(requests).act /\ task.id = Head(requests).id /\ task.stage = "call"
    /\ Start(task)
Leaves(t) ==
    /\ Ends(t) /\ UNCHANGED <<requests, rpcs>>
    /\ \/ t.stage = "ok" /\ Accept(t.act)
       \/ t.stage \in {"mark", "write", "running"}
       \/ t.stage \in {"refused", "failed"} /\ Release(t.act)
       \/ t.stage = "noTurn" /\ Known(t.id)
GoesOn(t, u) ==
    /\ u.act = t.act /\ u.id = t.id
    /\ \/ t.stage = "ok" /\ u.stage \in {"mark", "running"} /\ Accept(t.act)
       \/ t.stage = "mark" /\ u.stage = "write"
       \/ /\ t.stage = "call" /\ u.stage = "failed" /\ Call(u) = Call(t)
          /\ unanswered' = IF t.id = Direct THEN unanswered
                           ELSE [unanswered EXCEPT ![t.id] = @ + 1]
    /\ Answered(t, u) /\ UNCHANGED <<requests, rpcs>>
SentAgain(t, u) ==
    /\ u.act = t.act /\ u.id = t.id /\ t.stage = "noTurn" /\ u.stage = "call"
    /\ Answered(t, u) /\ rpcs' = rpcs \cup {Call(u)} /\ UNCHANGED requests
\* the task that waits for the call goes on, the others stay
After(t, r, answer, heard) ==
    IF t \notin Waiting(r) THEN t
    ELSE [t EXCEPT !.stage = IF heard THEN answer ELSE "failed",
                   !.turn = IF answer = "ok" THEN rt' ELSE @]
Executes(r, answer, heard) ==
    /\ rpcs' = rpcs \ {r} /\ UNCHANGED requests
    /\ tasks' = { After(t, r, answer, heard) : t \in tasks }
    /\ Effects(r, answer)
    /\ unanswered' = IF heard \/ r.id = Direct THEN unanswered
                     ELSE [unanswered EXCEPT ![r.id] = @ + 1]
Lost == requests' = <<>> /\ tasks' = {} /\ phase' = "starts" /\ UNCHANGED rpcs

Answers == {"ok", "noTurn", "refused", "failed"}

JobStep ==
    \/ UNCHANGED <<requests, tasks, rpcs>>
    \/ \E i \in Items, mode \in Modes :
          Asks(i) /\ queue # <<>> /\ i = Head1.id /\ Activate(mode)
    \/ Asks(Direct) /\ queue' = <<>>
    \/ AsksStop \/ Drops \/ Lost
    \/ \E task \in Task : Begins(task)
    \/ \E t \in tasks : Leaves(t) \/ \E u \in Task : GoesOn(t, u) \/ SentAgain(t, u)
    \/ \E r \in rpcs, answer \in Answers, heard \in BOOLEAN : Executes(r, answer, heard)

\* A start of a new task, whatever its mode and turn.
LEMMA NewTaskFacts ==
    ASSUME NEW req, NEW mode, NEW turn, NEW inline, NEW markAt,
           \/ Start(NewTask(req, mode, turn, inline))
           \/ Start([NewTask(req, mode, turn, inline) EXCEPT !.markAt = markAt])
    PROVE  \E task : Start(task) /\ task.act = req.act /\ task.id = req.id
                      /\ task.stage = "call"
<1> DEFINE plain == NewTask(req, mode, turn, inline)
           task == [plain EXCEPT !.markAt = markAt]
<1>1. /\ plain.act = req.act /\ plain.id = req.id /\ plain.stage = "call"
      /\ task.act = req.act /\ task.id = req.id /\ task.stage = "call"
  BY DEF NewTask
<1>2. Start(plain) \/ Start(task)
  OBVIOUS
<1> HIDE DEF plain, task
<1> QED
  BY <1>1, <1>2

\* A task in the next state has its type.
LEMMA StartedTask ==
    ASSUME TypeInv', NEW task, Start(task) PROVE task \in Task
  BY DEF Start, TypeInv, TasksOK

LEMMA ExecutesIt ==
    ASSUME NEW r \in rpcs, Execute(r)
    PROVE  \E answer \in Answers, heard \in BOOLEAN : Executes(r, answer, heard)
<1>1. PICK answer \in Answers, heard \in BOOLEAN :
         /\ rpcs' = rpcs \ {r}
         /\ tasks' = { IF t \notin Waiting(r) THEN t
                       ELSE [t EXCEPT !.stage = IF heard THEN answer ELSE "failed",
                                      !.turn = IF answer = "ok" THEN rt' ELSE @]
                       : t \in tasks }
         /\ UNCHANGED requests /\ Effects(r, answer)
         /\ unanswered' = IF heard \/ r.id = Direct THEN unanswered
                          ELSE [unanswered EXCEPT ![r.id] = @ + 1]
  BY DEF Execute, Answers
<1>2. Executes(r, answer, heard)
  BY <1>1 DEF Executes, After
<1> QED
  BY <1>2

LEMMA JobSteps ==
    ASSUME TypeInv, TypeInv', [Next]_vars PROVE JobStep
<1>1. CASE Renderers
  <2>1. ASSUME NEW i \in Items, Reserve(i) PROVE JobStep
    BY <2>1 DEF Reserve, JobStep
  <2>2. ASSUME NEW k \in DOMAIN queue, Enqueue(k) \/ Cancel(k) PROVE JobStep
    BY <2>2 DEF Enqueue, Cancel, JobStep
  <2>3. ASSUME NEW mode \in Modes, Activate(mode) PROVE JobStep
    <3>1. queue # <<>> /\ Head1.id \in Items
      BY <2>3, HeadItem DEF Activate, CanActivate, TypeInv
    <3>2. PICK i \in Items : i = Head1.id
      BY <3>1
    <3>3. Asks(i)
      BY <2>3, <3>2 DEF Activate, Asks, Tick
    <3> QED BY <2>3, <3>1, <3>2, <3>3 DEF JobStep
  <2>4. CASE DirectPrompt
    <3>1. queue' = <<>>
      BY <2>4 DEF DirectPrompt
    <3>2. Asks(Direct)
      BY <2>4 DEF DirectPrompt, Asks, Tick
    <3> QED BY <3>1, <3>2 DEF JobStep
  <2>5. CASE Interrupt
    BY <2>5 DEF Interrupt, AsksStop, JobStep
  <2> QED
    BY <1>1, <2>1, <2>2, <2>3, <2>4, <2>5 DEF Renderers, AutoActivate, OperatorActivate, Modes
<1>2. CASE HandleStart
  <2> DEFINE req == Head(requests)
  <2>1. Take /\ req.kind = "start"
    BY <1>2 DEF HandleStart
  <2>2. \E mode, turn : Start(NewTask(req, mode, turn, FALSE))
    BY <1>2 DEF HandleStart, StartRouted, StartSent
  <2> HIDE DEF req
  <2>3. PICK task : Start(task) /\ task.act = req.act /\ task.id = req.id /\ task.stage = "call"
    BY <2>2, NewTaskFacts
  <2>4. task \in Task
    BY <2>3, StartedTask
  <2>5. Begins(task)
    BY <2>1, <2>3 DEF Begins, Take, req
  <2> QED
    BY <2>4, <2>5 DEF JobStep
<1>3. CASE HandleSteer
  <2> DEFINE req == Head(requests)
  <2>1. Take /\ req.kind = "steer"
    BY <1>3 DEF HandleSteer
  <2> DEFINE key == <<"no-local-active-turn", req.id, 0>>
  <2>2. \/ UNCHANGED <<tasks, rpcs>> /\ key \in recovered
        \/ \E turn : Start(NewTask(req, "steer", turn, FALSE))
        \/ Start([NewTask(req, "next", 0, TRUE) EXCEPT !.markAt = now])
    BY <1>3 DEF HandleSteer, retrySteerAsNextTurn
  <2>3. CASE UNCHANGED <<tasks, rpcs>> /\ key \in recovered
    <3>1. key[2] = req.id
      OBVIOUS
    <3>2. Known(req.id)
      BY <2>3, <3>1 DEF Known
    <3> QED
      BY <2>1, <2>3, <3>2 DEF JobStep, Drops, Take
  <2>4. CASE ~(UNCHANGED <<tasks, rpcs>> /\ key \in recovered)
    <3>0. \E mode, turn, inline, markAt :
             \/ Start(NewTask(req, mode, turn, inline))
             \/ Start([NewTask(req, mode, turn, inline) EXCEPT !.markAt = markAt])
      BY <2>2, <2>4
    <3> HIDE DEF req
    <3>1. PICK task :
             Start(task) /\ task.act = req.act /\ task.id = req.id /\ task.stage = "call"
      BY <3>0, NewTaskFacts
    <3>2. task \in Task
      BY <3>1, StartedTask
    <3>3. Begins(task)
      BY <2>1, <3>1 DEF Begins, Take, req
    <3> QED
      BY <3>2, <3>3 DEF JobStep
  <2> QED
    BY <2>3, <2>4
<1>4. CASE HandleInterrupt
  BY <1>4 DEF HandleInterrupt, Take, Drops, JobStep
<1>5. ASSUME NEW t \in tasks, TaskAccepted(t) PROVE JobStep
  <2>1. UNCHANGED <<requests, rpcs>> /\ t.stage = "ok" /\ t \in Task
    BY <1>5 DEF TaskAccepted, TypeInv, TasksOK
  <2>a. Accept(t.act)
    BY <1>5 DEF TaskAccepted
  <2>2. CASE Ends(t)
    BY <2>1, <2>a, <2>2 DEF JobStep, Leaves
  <2>3. ASSUME NEW stage \in {"mark", "running"}, Answered(t, [t EXCEPT !.stage = stage])
        PROVE  JobStep
    <3>1. /\ [t EXCEPT !.stage = stage] \in Task
          /\ [t EXCEPT !.stage = stage].act = t.act /\ [t EXCEPT !.stage = stage].id = t.id
          /\ [t EXCEPT !.stage = stage].stage = stage
      BY <2>1 DEF Task
    <3>2. GoesOn(t, [t EXCEPT !.stage = stage])
      BY <2>1, <2>a, <2>3, <3>1 DEF GoesOn
    <3> QED BY <3>1, <3>2 DEF JobStep
  <2> QED
    BY <1>5, <2>2, <2>3 DEF TaskAccepted
<1>6. ASSUME NEW t \in tasks, MarkRead(t) PROVE JobStep
  <2>1. UNCHANGED <<requests, rpcs>> /\ t.stage = "mark" /\ t \in Task
    BY <1>6 DEF MarkRead, TypeInv, TasksOK
  <2>2. CASE Ends(t)
    BY <2>1, <2>2 DEF JobStep, Leaves
  <2>3. CASE Answered(t, [t EXCEPT !.stage = "write"])
    <3>1. /\ [t EXCEPT !.stage = "write"] \in Task
          /\ [t EXCEPT !.stage = "write"].act = t.act /\ [t EXCEPT !.stage = "write"].id = t.id
          /\ [t EXCEPT !.stage = "write"].stage = "write"
      BY <2>1 DEF Task
    <3>2. GoesOn(t, [t EXCEPT !.stage = "write"])
      BY <2>1, <2>3, <3>1 DEF GoesOn
    <3> QED BY <3>1, <3>2 DEF JobStep
  <2> QED
    BY <1>6, <2>2, <2>3 DEF MarkRead
<1>7. ASSUME NEW t \in tasks, MarkWrite(t) \/ StartFailed(t) \/ SteerFailed(t) PROVE JobStep
  <2>1. Leaves(t)
    BY <1>7 DEF MarkWrite, StartFailed, SteerFailed, Leaves
  <2> QED
    BY <2>1 DEF JobStep
<1>8. ASSUME NEW t \in tasks, GiveUp(t) PROVE JobStep
  <2>1. UNCHANGED <<requests, rpcs>> /\ t.stage = "call" /\ t \in Task
        /\ Answered(t, [t EXCEPT !.stage = "failed"])
        /\ unanswered' = IF t.id = Direct THEN unanswered
                         ELSE [unanswered EXCEPT ![t.id] = @ + 1]
    BY <1>8 DEF GiveUp, TypeInv, TasksOK
  <2>2. /\ [t EXCEPT !.stage = "failed"] \in Task
        /\ [t EXCEPT !.stage = "failed"].act = t.act /\ [t EXCEPT !.stage = "failed"].id = t.id
        /\ [t EXCEPT !.stage = "failed"].stage = "failed"
        /\ Call([t EXCEPT !.stage = "failed"]) = Call(t)
    BY <2>1 DEF Task, Call
  <2>3. GoesOn(t, [t EXCEPT !.stage = "failed"])
    BY <2>1, <2>2 DEF GoesOn
  <2> QED BY <2>2, <2>3 DEF JobStep
<1>9. ASSUME NEW t \in tasks, SteerFoundNoTurn(t) PROVE JobStep
  <2> DEFINE again(mode) == [t EXCEPT !.mode = mode, !.stage = "call", !.markAt = now]
  <2>1. t.stage = "noTurn" /\ t \in Task /\ UNCHANGED requests /\ now \in Nat
    BY <1>9 DEF SteerFoundNoTurn, TypeInv, TasksOK, QueueInv, now
  <2> DEFINE key == <<"no-active-turn", t.id, t.turn>>
  <2>2. CASE Ends(t) /\ UNCHANGED rpcs /\ key \in recovered
    <3>1. key[2] = t.id
      OBVIOUS
    <3>2. Known(t.id)
      BY <2>2, <3>1 DEF Known
    <3> QED
      BY <2>1, <2>2, <3>2 DEF JobStep, Leaves
  <2>3. ASSUME NEW mode \in {"resend", "next"}, Answered(t, again(mode)),
               rpcs' = rpcs \cup {Call(again(mode))}
        PROVE  JobStep
    <3>1. /\ again(mode) \in Task /\ again(mode).act = t.act /\ again(mode).id = t.id
          /\ again(mode).stage = "call"
      BY <2>1 DEF Task
    <3>2. SentAgain(t, again(mode))
      BY <2>1, <2>3, <3>1 DEF SentAgain
    <3> QED BY <3>1, <3>2 DEF JobStep
  <2> QED
    BY <1>9, <2>2, <2>3 DEF SteerFoundNoTurn
<1>10. ASSUME NEW r \in rpcs, Execute(r) PROVE JobStep
  BY <1>10, ExecutesIt DEF JobStep
<1>11. CASE TurnCompletes \/ Ingest \/ RecoverStarts \/ ListSessions \/ Reconcile
  BY <1>11 DEF TurnCompletes, Ingest, RecoverStarts, ListSessions, Reconcile, JobStep
<1>12. CASE Restart
  BY <1>12 DEF Restart, Lost, JobStep
<1>13. CASE UNCHANGED vars
  BY <1>13 DEF vars, JobStep
<1> QED
  BY <1>1, <1>2, <1>3, <1>4, <1>5, <1>6, <1>7, <1>8, <1>9, <1>10, <1>11, <1>12, <1>13
  DEF Next, Reactor, Daemon, Startup

\* The requests after the step, seen as those before.
LEMMA PromptsAfter ==
    ASSUME RequestsOK
    PROVE  /\ requests # <<>> /\ requests' = Tail(requests) =>
                /\ 1 \in DOMAIN requests /\ Head(requests) = requests[1]
                /\ \A k \in PromptsAt' : /\ k \in Nat /\ k + 1 # 1 /\ k + 1 \in PromptsAt
                                         /\ requests'[k] = requests[k + 1]
           /\ \A x \in Ask : requests' = Append(requests, x) =>
                \A k \in PromptsAt' :
                   \/ k \in PromptsAt /\ requests'[k] = requests[k]
                   \/ k = Len(requests) + 1 /\ requests'[k] = x /\ x.kind # "interrupt"
<1>1. requests \in Seq(Ask)
  BY DEF RequestsOK
<1>2. ASSUME requests # <<>>, requests' = Tail(requests)
      PROVE  /\ 1 \in DOMAIN requests /\ Head(requests) = requests[1]
             /\ \A k \in DOMAIN requests' : /\ k \in Nat /\ k + 1 # 1 /\ k + 1 \in DOMAIN requests
                                            /\ requests'[k] = requests[k + 1]
  BY <1>1, <1>2
<1>3. ASSUME NEW x \in Ask, requests' = Append(requests, x)
      PROVE  \A k \in DOMAIN requests' :
                \/ k \in DOMAIN requests /\ requests'[k] = requests[k]
                \/ k = Len(requests) + 1 /\ requests'[k] = x
  BY <1>1, <1>3
<1> QED
  BY <1>2, <1>3 DEF PromptsAt

LEMMA AskTyped ==
    ASSUME clock \in Nat, NEW i \in Items \cup {Direct}, NEW kind \in {"start", "steer"}
    PROVE  [kind |-> kind, id |-> i, act |-> now] \in Ask
  BY DEF Ask, now

\* The asked prompt is the last of the requests.
LEMMA AsksAfter ==
    ASSUME RequestsOK, clock \in Nat, NEW i \in Items \cup {Direct}, Asks(i)
    PROVE  \A k \in PromptsAt' :
              \/ k \in PromptsAt /\ requests'[k] = requests[k]
              \/ k = Len(requests) + 1 /\ requests'[k].act = now /\ requests'[k].id = i
<1>1. PICK kind \in {"start", "steer"} :
         requests' = Append(requests, [kind |-> kind, id |-> i, act |-> now])
  BY DEF Asks, Request
<1> DEFINE x == [kind |-> kind, id |-> i, act |-> now]
<1>2. x \in Ask /\ x.act = now /\ x.id = i /\ requests' = Append(requests, x)
  BY <1>1, AskTyped
<1> HIDE DEF x
<1> QED
  BY <1>2, PromptsAfter

LEMMA StopAfter ==
    ASSUME RequestsOK, AsksStop
    PROVE  \A k \in PromptsAt' : k \in PromptsAt /\ requests'[k] = requests[k]
<1> DEFINE x == [kind |-> "interrupt", id |-> Direct, act |-> 0]
<1>1. x \in Ask /\ x.kind = "interrupt" /\ requests' = Append(requests, x)
  BY DEF AsksStop, Ask
<1> HIDE DEF x
<1> QED
  BY <1>1, PromptsAfter

LEMMA AfterFacts ==
    ASSUME NEW t \in Task, NEW r, NEW answer \in Answers, NEW heard \in BOOLEAN
    PROVE  /\ After(t, r, answer, heard).act = t.act
           /\ After(t, r, answer, heard).id = t.id
           /\ After(t, r, answer, heard).mode = t.mode
           /\ t \notin Waiting(r) => After(t, r, answer, heard) = t
           /\ t \in Waiting(r) =>
                 After(t, r, answer, heard).stage = IF heard THEN answer ELSE "failed"
  BY DEF After, Task

\* Work only comes from a renderer's activation or prompt, with a new stamp.
LEMMA WorkSteps ==
    ASSUME TypeInv, JobStep
    PROVE  \/ Work' \subseteq Work
           \/ \E i \in Items \cup {Direct} :
                 /\ Asks(i)
                 /\ (queue # <<>> /\ i = Head1.id) \/ (i = Direct /\ queue' = <<>>)
                 /\ Work' \subseteq Work \cup {<<now, i>>}
<1> USE DEF Work
<1>i. RequestsOK /\ clock \in Nat /\ tasks \subseteq Task
  BY DEF TypeInv, QueueInv, TasksOK
<1>0. CASE UNCHANGED <<requests, tasks, rpcs>>
  BY <1>0 DEF PromptsAt
<1>1. ASSUME NEW i \in Items \cup {Direct}, Asks(i)
      PROVE  Work' \subseteq Work \cup {<<now, i>>}
  <2>1. \A k \in PromptsAt' :
              \/ k \in PromptsAt /\ requests'[k] = requests[k]
              \/ k = Len(requests) + 1 /\ requests'[k].act = now /\ requests'[k].id = i
    BY <1>1, <1>i, AsksAfter
  <2>2. UNCHANGED <<tasks, rpcs>>
    BY <1>1 DEF Asks
  <2> QED
    BY <2>1, <2>2
<1>2. CASE AsksStop
  <2>1. \A k \in PromptsAt' : k \in PromptsAt /\ requests'[k] = requests[k]
    BY <1>2, <1>i, StopAfter
  <2> QED
    BY <2>1, <1>2 DEF AsksStop
<1>3. CASE Drops
  <2>1. \A k \in PromptsAt' : k + 1 \in PromptsAt /\ requests'[k] = requests[k + 1]
    BY <1>3, <1>i, PromptsAfter DEF Drops
  <2> QED
    BY <2>1, <1>3 DEF Drops
<1>4. CASE Lost
  BY <1>4 DEF Lost, PromptsAt
<1>5. ASSUME NEW task \in Task, Begins(task) PROVE Work' \subseteq Work
  <2>1. \A k \in PromptsAt' : k + 1 \in PromptsAt /\ requests'[k] = requests[k + 1]
    BY <1>5, <1>i, PromptsAfter DEF Begins
  <2>2. 1 \in PromptsAt /\ task.act = requests[1].act /\ task.id = requests[1].id
    BY <1>5, <1>i, PromptsAfter DEF Begins, PromptsAt
  <2>3. tasks' = tasks \cup {task} /\ rpcs' = rpcs \cup {Call(task)}
    BY <1>5 DEF Begins, Start
  <2>4. Call(task).act = task.act /\ Call(task).id = task.id
    BY DEF Call
  <2> QED
    BY <2>1, <2>2, <2>3, <2>4
<1>6. ASSUME NEW t \in tasks, Leaves(t) PROVE Work' \subseteq Work
  BY <1>6 DEF Leaves, Ends, PromptsAt
<1>7. ASSUME NEW t \in tasks, NEW u \in Task, GoesOn(t, u) PROVE Work' \subseteq Work
  BY <1>7 DEF GoesOn, Answered, PromptsAt
<1>8. ASSUME NEW t \in tasks, NEW u \in Task, SentAgain(t, u) PROVE Work' \subseteq Work
  <2>1. Call(u).act = t.act /\ Call(u).id = t.id
    BY <1>8 DEF Call, SentAgain
  <2> QED
    BY <1>8, <2>1 DEF SentAgain, Answered, PromptsAt
<1>9. ASSUME NEW r \in rpcs, NEW answer \in Answers, NEW heard \in BOOLEAN,
             Executes(r, answer, heard)
      PROVE  Work' \subseteq Work
  <2>1. \A u \in tasks' : \E t \in tasks : u.act = t.act /\ u.id = t.id
    <3> SUFFICES ASSUME NEW u \in tasks' PROVE \E t \in tasks : u.act = t.act /\ u.id = t.id
      OBVIOUS
    <3>1. PICK t \in tasks : u = After(t, r, answer, heard)
      BY <1>9 DEF Executes
    <3>2. t \in Task
      BY <1>i
    <3> QED
      BY <3>1, <3>2, AfterFacts
  <2> QED
    BY <1>9, <2>1 DEF Executes, PromptsAt
<1> HIDE DEF Work
<1> QED
  BY <1>0, <1>1, <1>2, <1>3, <1>4, <1>5, <1>6, <1>7, <1>8, <1>9 DEF JobStep

LEMMA NamedKept ==
    ASSUME TypeInv, TypeInv', QueueNames, QueueNames', QueueStep, JobStep, Named
    PROVE  Named'
<1>i. /\ clock \in Nat /\ now \in Nat /\ now > clock /\ clock' \in {clock, now}
      /\ seen \subseteq Items /\ seen \subseteq seen' /\ Direct \notin Items
  BY FollowUpsAssumption DEF TypeInv, QueueInv, CountsOK, now, QueueStep
<1>d. ~Has(Direct)'
  <2>1. \A k \in DOMAIN queue' : queue'[k].id \in seen'
    BY DEF QueueNames
  <2>2. seen' \subseteq Items
    BY DEF TypeInv, CountsOK
  <2> QED
    BY <2>1, <2>2, <1>i DEF Has
<1>1. ASSUME NEW w \in Work
      PROVE  /\ w[1] \in Nat /\ 1 <= w[1] /\ w[1] <= clock' /\ w[2] \in seen' \cup {Direct}
             /\ Has(w[2])' => (Head1.id)' = w[2]
             /\ HandedOff(w[1])' => (Head1.id)' = w[2]
  <2>1. /\ w[1] \in Nat /\ 1 <= w[1] /\ w[1] <= clock /\ w[2] \in seen \cup {Direct}
        /\ Has(w[2]) => Head1.id = w[2]
        /\ HandedOff(w[1]) => Head1.id = w[2]
    BY DEF Named
  <2>2. PICK a \in Nat, i \in Items \cup {Direct} : a = w[1] /\ i = w[2]
    BY <2>1, <1>i
  <2>3. Has(i)' => (Head1.id)' = i
    BY <2>1, <2>2, <1>d, <1>i DEF QueueStep
  <2>4. HandedOff(a)' => (Head1.id)' = i
    BY <2>1, <2>2, <1>i DEF QueueStep
  <2> QED
    BY <2>1, <2>2, <2>3, <2>4, <1>i
<1>2. ASSUME NEW i \in Items \cup {Direct}, Asks(i),
             (queue # <<>> /\ i = Head1.id) \/ (i = Direct /\ queue' = <<>>)
      PROVE  /\ now <= clock' /\ 1 <= now /\ i \in seen' \cup {Direct}
             /\ Has(i)' => (Head1.id)' = i
             /\ \A a \in Nat : a = now => (HandedOff(a)' => (Head1.id)' = i)
  <2>1. clock' = now /\ 1 <= now
    BY <1>2, <1>i DEF Asks, now
  <2>2. CASE queue # <<>> /\ i = Head1.id
    <3>1. 1 \in DOMAIN queue /\ i = queue[1].id
      BY <2>2 DEF TypeInv, QueueInv, Head1
    <3>2. i \in seen /\ Has(i) /\ i \in Items
      BY <3>1, <1>i DEF QueueNames, Has
    <3> QED
      BY <2>1, <2>2, <3>2, <1>i DEF QueueStep
  <2>3. CASE i = Direct /\ queue' = <<>>
    BY <2>1, <2>3, <1>d, <1>i DEF HandedOff
  <2> QED
    BY <1>2, <2>2, <2>3
<1>3. CASE Work' \subseteq Work
  BY <1>1, <1>3 DEF Named
<1>4. ASSUME NEW i \in Items \cup {Direct}, Asks(i),
             (queue # <<>> /\ i = Head1.id) \/ (i = Direct /\ queue' = <<>>),
             Work' \subseteq Work \cup {<<now, i>>}
      PROVE  Named'
  <2>1. PICK a \in Nat : a = now
    BY <1>i
  <2>2. /\ a <= clock' /\ 1 <= a /\ i \in seen' \cup {Direct}
        /\ Has(i)' => (Head1.id)' = i
        /\ HandedOff(a)' => (Head1.id)' = i
    BY <1>2, <1>4, <2>1
  <2>3. \A w \in Work' : w \in Work \/ (w[1] = a /\ w[2] = i)
    BY <1>4, <2>1
  <2>4. \A w \in Work' : w[1] \in Nat /\ 1 <= w[1] /\ w[1] <= clock' /\ w[2] \in seen' \cup {Direct}
    BY <1>1, <2>2, <2>3
  <2>5. ASSUME NEW w \in Work' PROVE Has(w[2])' => (Head1.id)' = w[2]
    BY <1>1, <2>2, <2>3
  <2>6. ASSUME NEW w \in Work' PROVE HandedOff(w[1])' => (Head1.id)' = w[2]
    BY <1>1, <2>2, <2>3
  <2> QED
    BY <2>4, <2>5, <2>6 DEF Named
<1> QED
  BY <1>3, <1>4, WorkSteps

LEMMA OneEachKept ==
    ASSUME TypeInv, OneEach, Named, JobStep PROVE OneEach'
<1>i. RequestsOK /\ clock \in Nat /\ now \in Nat /\ now > clock /\ tasks \subseteq Task
  BY DEF TypeInv, QueueInv, TasksOK, now
\* the stamps so far are not the next one
<1>a. /\ \A k \in PromptsAt : requests[k].act # now
      /\ \A t \in tasks : t.act # now
      /\ \A r \in rpcs : r.act # now
  <2>1. \A w \in Work : w[1] # now
    BY <1>i DEF Named
  <2>2. ASSUME NEW a, NEW i, <<a, i>> \in Work PROVE a # now
    <3>1. <<a, i>>[1] = a
      OBVIOUS
    <3> QED BY <2>1, <2>2, <3>1
  <2>3. /\ \A k \in PromptsAt : <<requests[k].act, requests[k].id>> \in Work
        /\ \A t \in tasks : <<t.act, t.id>> \in Work
        /\ \A r \in rpcs : <<r.act, r.id>> \in Work
    BY DEF Work
  <2> QED
    BY <2>2, <2>3
\* requests that were dropped or asked for, tasks and calls as they were
<1>b. ASSUME UNCHANGED <<tasks, rpcs>>,
             \A k \in PromptsAt' :
                \/ k \in PromptsAt /\ requests'[k] = requests[k]
                \/ k = Len(requests) + 1 /\ requests'[k].act = now
      PROVE  OneEach'
  <2>1. ASSUME NEW j \in PromptsAt', NEW k \in PromptsAt', requests'[j].act = requests'[k].act
        PROVE  j = k
    BY <1>b, <2>1, <1>a DEF OneEach
  <2>2. \A k \in PromptsAt' : /\ \A t \in tasks' : t.act # requests'[k].act
                              /\ \A r \in rpcs' : r.act # requests'[k].act
    BY <1>b, <1>a DEF OneEach
  <2> QED
    BY <1>b, <2>1, <2>2 DEF OneEach, Call
<1>0. CASE UNCHANGED <<requests, tasks, rpcs>>
  BY <1>0, <1>b DEF PromptsAt
<1>1. ASSUME NEW i \in Items \cup {Direct}, Asks(i) PROVE OneEach'
  <2>1. \A k \in PromptsAt' :
              \/ k \in PromptsAt /\ requests'[k] = requests[k]
              \/ k = Len(requests) + 1 /\ requests'[k].act = now
    BY <1>1, <1>i, AsksAfter
  <2>2. UNCHANGED <<tasks, rpcs>>
    BY <1>1 DEF Asks
  <2> QED
    BY <2>1, <2>2, <1>b
<1>2. CASE AsksStop
  <2>1. \A k \in PromptsAt' : k \in PromptsAt /\ requests'[k] = requests[k]
    BY <1>2, <1>i, StopAfter
  <2>2. UNCHANGED <<tasks, rpcs>>
    BY <1>2 DEF AsksStop
  <2> QED
    BY <2>1, <2>2, <1>b
\* requests that moved up, the head being gone
<1>t. ASSUME requests # <<>>, requests' = Tail(requests)
      PROVE  /\ \A j, k \in PromptsAt' : requests'[j].act = requests'[k].act => j = k
             /\ \A k \in PromptsAt' : /\ \A t \in tasks : t.act # requests'[k].act
                                     /\ \A r \in rpcs : r.act # requests'[k].act
             /\ 1 \in PromptsAt => \A k \in PromptsAt' : requests'[k].act # requests[1].act
  <2>1. \A k \in PromptsAt' : /\ k \in Nat /\ k + 1 # 1 /\ k + 1 \in PromptsAt
                              /\ requests'[k] = requests[k + 1]
    BY <1>t, <1>i, PromptsAfter
  <2>2. ASSUME NEW j \in PromptsAt', NEW k \in PromptsAt', requests'[j].act = requests'[k].act
        PROVE  j = k
    <3>1. j + 1 = k + 1
      BY <2>1, <2>2 DEF OneEach
    <3> QED
      BY <2>1, <3>1
  <2>3. \A k \in PromptsAt' : /\ \A t \in tasks : t.act # requests'[k].act
                              /\ \A r \in rpcs : r.act # requests'[k].act
    BY <2>1 DEF OneEach
  <2>4. ASSUME 1 \in PromptsAt, NEW k \in PromptsAt' PROVE requests'[k].act # requests[1].act
    BY <2>1, <2>4 DEF OneEach
  <2> QED
    BY <2>2, <2>3, <2>4
<1>3. CASE Drops
  <2>1. UNCHANGED <<tasks, rpcs>> /\ requests # <<>> /\ requests' = Tail(requests)
    BY <1>3 DEF Drops
  <2> QED
    BY <2>1, <1>t DEF OneEach, Call
<1>4. CASE Lost
  <2>1. PromptsAt' = {}
    BY <1>4 DEF Lost, PromptsAt
  <2> QED
    BY <2>1, <1>4 DEF OneEach, Lost
<1>5. ASSUME NEW task \in Task, Begins(task) PROVE OneEach'
  <2>1. /\ requests # <<>> /\ requests' = Tail(requests) /\ task.stage = "call"
        /\ tasks' = tasks \cup {task} /\ rpcs' = rpcs \cup {Call(task)}
    BY <1>5 DEF Begins, Start
  <2>2. 1 \in PromptsAt /\ task.act = requests[1].act
    BY <1>5, <1>i, PromptsAfter DEF Begins, PromptsAt
  <2>3. Call(task).act = task.act
    BY DEF Call
  <2>a. \A t \in tasks : t.act # task.act
    BY <2>2 DEF OneEach
  <2>b. \A r \in rpcs : r.act # task.act
    BY <2>2 DEF OneEach
  <2>c. \A k \in PromptsAt' : requests'[k].act # task.act
    BY <2>1, <2>2, <1>t
  <2>4. /\ \A t \in tasks : t.act # task.act
        /\ \A r \in rpcs : r.act # task.act
        /\ \A k \in PromptsAt' : requests'[k].act # task.act
    BY <2>a, <2>b, <2>c
  <2>5. \A k \in PromptsAt' : /\ \A t \in tasks' : t.act # requests'[k].act
                              /\ \A r \in rpcs' : r.act # requests'[k].act
    BY <2>1, <2>3, <2>4, <1>t
  <2>6. /\ \A t, u \in tasks' : t.act = u.act => t = u
        /\ \A r, s \in rpcs' : r.act = s.act => r = s
    BY <2>1, <2>3, <2>4 DEF OneEach
  <2>7. \A t \in tasks' : t.stage = "call" => Call(t) \in rpcs'
    BY <2>1 DEF OneEach
  <2>8. \A t \in tasks', r \in rpcs' :
          t.act = r.act => r = Call(t) /\ t.stage \in {"call", "failed"}
    BY <2>1, <2>3, <2>4 DEF OneEach
  <2> QED
    BY <2>1, <2>5, <2>6, <2>7, <2>8, <1>t DEF OneEach, Call
<1>6. ASSUME NEW t \in tasks, Leaves(t) PROVE OneEach'
  <2>1. tasks' \subseteq tasks /\ UNCHANGED <<requests, rpcs>> /\ PromptsAt' = PromptsAt
    BY <1>6 DEF Leaves, Ends, PromptsAt
  <2> QED
    BY <2>1 DEF OneEach, Call
<1>7. ASSUME NEW t \in tasks, NEW u \in Task, GoesOn(t, u) PROVE OneEach'
  <2>1. /\ tasks' = (tasks \ {t}) \cup {u} /\ UNCHANGED <<requests, rpcs>>
        /\ PromptsAt' = PromptsAt /\ u.act = t.act /\ u.stage # "call"
    BY <1>7 DEF GoesOn, Answered, PromptsAt
  <2>2. \A r \in rpcs : r.act = u.act => r = Call(u) /\ u.stage = "failed"
    BY <1>7, <2>1 DEF GoesOn, OneEach
  <2>3. \A v \in tasks' : v = u \/ (v \in tasks /\ v.act # u.act)
    BY <2>1 DEF OneEach
  <2> QED
    BY <2>1, <2>2, <2>3 DEF OneEach, Call
<1>8. ASSUME NEW t \in tasks, NEW u \in Task, SentAgain(t, u) PROVE OneEach'
  <2>1. /\ tasks' = (tasks \ {t}) \cup {u} /\ rpcs' = rpcs \cup {Call(u)} /\ UNCHANGED requests
        /\ PromptsAt' = PromptsAt /\ u.act = t.act /\ u.stage = "call" /\ t.stage = "noTurn"
    BY <1>8 DEF SentAgain, Answered, PromptsAt
  <2>2. \A r \in rpcs : r.act # u.act
    BY <2>1 DEF OneEach
  <2>3. \A v \in tasks' : v = u \/ (v \in tasks /\ v.act # u.act)
    BY <2>1 DEF OneEach
  <2>4. Call(u).act = u.act
    BY DEF Call
  <2> QED
    BY <2>1, <2>2, <2>3, <2>4 DEF OneEach, Call
<1>9. ASSUME NEW r \in rpcs, NEW answer \in Answers, NEW heard \in BOOLEAN,
             Executes(r, answer, heard)
      PROVE  OneEach'
  <2>1. rpcs' = rpcs \ {r} /\ UNCHANGED requests /\ PromptsAt' = PromptsAt
    BY <1>9 DEF Executes, PromptsAt
  <2>2. \A u \in tasks' : \E t \in tasks :
           /\ u.act = t.act
           /\ u = t \/ (t.act = r.act /\ u.stage # "call")
           /\ t \in Waiting(r) => u.stage # "call"
           /\ u = After(t, r, answer, heard)
    <3> SUFFICES ASSUME NEW t \in tasks, NEW u, u = After(t, r, answer, heard)
                 PROVE  /\ u.act = t.act
                        /\ u = t \/ (t.act = r.act /\ u.stage # "call")
                        /\ t \in Waiting(r) => u.stage # "call"
      BY <1>9 DEF Executes
    <3>1. t \in Task
      BY <1>i
    <3>2. t \in Waiting(r) => t.act = r.act
      BY DEF Waiting, Call
    <3> QED
      BY <3>1, <3>2, AfterFacts DEF Answers
  <2>3. ASSUME NEW u \in tasks', NEW v \in tasks', u.act = v.act PROVE u = v
    <3>1. PICK t \in tasks : u.act = t.act /\ u = After(t, r, answer, heard)
      BY <2>2
    <3>2. PICK s \in tasks : v.act = s.act /\ v = After(s, r, answer, heard)
      BY <2>2
    <3>3. t = s
      BY <2>3, <3>1, <3>2 DEF OneEach
    <3> QED
      BY <3>1, <3>2, <3>3
  <2>4. ASSUME NEW u \in tasks', u.stage = "call" PROVE Call(u) \in rpcs'
    <3>1. PICK t \in tasks :
             /\ u = t \/ u.stage # "call"
             /\ t \in Waiting(r) => u.stage # "call"
      BY <2>2
    <3>2. u = t /\ t \notin Waiting(r)
      BY <2>4, <3>1
    <3>3. Call(u) # r /\ Call(u) \in rpcs
      BY <2>4, <3>2 DEF Waiting, OneEach
    <3> QED
      BY <2>1, <3>3
  <2>5. ASSUME NEW u \in tasks', NEW s \in rpcs', u.act = s.act
        PROVE  s = Call(u) /\ u.stage \in {"call", "failed"}
    <3>1. PICK t \in tasks : u.act = t.act /\ (u = t \/ t.act = r.act)
      BY <2>2
    <3>2. s \in rpcs /\ s.act # r.act
      BY <2>1 DEF OneEach
    <3>3. u = t
      BY <2>5, <3>1, <3>2
    <3> QED
      BY <2>5, <3>2, <3>3 DEF OneEach
  <2>6. \A k \in PromptsAt' : /\ \A u \in tasks' : u.act # requests'[k].act
                              /\ \A s \in rpcs' : s.act # requests'[k].act
    BY <2>1, <2>2 DEF OneEach
  <2> QED
    BY <2>1, <2>3, <2>4, <2>5, <2>6 DEF OneEach, Call
<1> QED
  BY <1>0, <1>1, <1>2, <1>3, <1>4, <1>5, <1>6, <1>7, <1>8, <1>9 DEF JobStep


\* Types, names of the queue and work, together inductive.
WorkInv == TypeInv /\ QueueNames /\ OneEach /\ Named

LEMMA WorkInvStep ==
    ASSUME WorkInv, TypeInv', [Next]_vars
    PROVE  WorkInv' /\ QueueStep /\ JobStep
<1>1. QueueNames' /\ QueueStep
  BY QueueSteps DEF WorkInv, TypeInv
<1>2. JobStep
  BY JobSteps DEF WorkInv
<1>3. Named' /\ OneEach'
  BY <1>1, <1>2, NamedKept, OneEachKept DEF WorkInv
<1> QED
  BY <1>1, <1>2, <1>3 DEF WorkInv

LEMMA WorkInvInit == Init /\ TypeInv => WorkInv
<1> SUFFICES ASSUME Init, TypeInv PROVE WorkInv
  OBVIOUS
<1>1. queue = <<>> /\ tasks = {} /\ rpcs = {} /\ requests = <<>>
  BY DEF Init
<1>2. PromptsAt = {} /\ Work = {}
  BY <1>1 DEF PromptsAt, Work
<1> QED
  BY <1>1, <1>2 DEF WorkInv, QueueNames, OneEach, Named

LEMMA WorkInvInductive == Spec => []WorkInv
<1>1. WorkInv /\ TypeInv' /\ [Next]_vars => WorkInv'
  BY WorkInvStep
<1> QED
  BY <1>1, WorkInvInit, TypeInvInductive, PTL DEF Spec

(***************************************************************************)
(* What reaches the provider.                                              *)
(***************************************************************************)
\* A call that is executed reaches the provider or not; nothing else does.
LEMMA Delivering ==
    ASSUME TypeInv, [Next]_vars
    PROVE  \/ UNCHANGED delivered
           \/ \E r \in rpcs : /\ Execute(r) /\ r.id \in Items
                              /\ delivered' = [delivered EXCEPT ![r.id] = @ + 1]
<1>1. ASSUME NEW r \in rpcs, Execute(r)
      PROVE  \/ UNCHANGED delivered
             \/ r.id \in Items /\ delivered' = [delivered EXCEPT ![r.id] = @ + 1]
  <2>1. PICK answer \in {"ok", "noTurn", "refused", "failed"} : Effects(r, answer)
    BY <1>1 DEF Execute
  <2>2. r.id \in Items \cup {Direct}
    BY DEF TypeInv, RpcsOK, RpcCall
  <2>3. Deliver(r.id) \/ UNCHANGED delivered
    BY <2>1 DEF Effects, runtime
  <2> QED
    BY <2>2, <2>3 DEF Deliver
<1>2. CASE Renderers
  BY <1>2 DEF Renderers, Reserve, Enqueue, Cancel, AutoActivate, OperatorActivate, Activate,
              DirectPrompt, Interrupt, runtime
<1>3. CASE HandleStart \/ HandleSteer \/ HandleInterrupt
  BY <1>3 DEF HandleStart, HandleSteer, HandleInterrupt, runtime
<1>4. ASSUME NEW t \in tasks,
             \/ TaskAccepted(t) \/ MarkRead(t) \/ MarkWrite(t) \/ StartFailed(t)
             \/ SteerFailed(t) \/ SteerFoundNoTurn(t) \/ GiveUp(t)
      PROVE  UNCHANGED delivered
  BY <1>4 DEF TaskAccepted, MarkRead, MarkWrite, StartFailed, SteerFailed, SteerFoundNoTurn,
              GiveUp, runtime
<1>5. CASE TurnCompletes \/ Ingest \/ Startup
  BY <1>5 DEF TurnCompletes, Ingest, Startup, Restart, RecoverStarts, ListSessions, Reconcile,
              runtime
<1>6. CASE UNCHANGED vars
  BY <1>6 DEF vars, runtime
<1> QED
  BY <1>1, <1>2, <1>3, <1>4, <1>5, <1>6 DEF Next, Reactor, Daemon

LEMMA CallIsWork ==
    ASSUME Named, NEW r \in rpcs PROVE Has(r.id) => Head1.id = r.id
<1>1. <<r.act, r.id>> \in Work
  BY DEF Work
<1>2. <<r.act, r.id>>[2] = r.id
  OBVIOUS
<1> QED
  BY <1>1, <1>2 DEF Named

\* A follow-up that is still queued reaches the provider only from the head
\* of the queue, for any number of follow-ups and incidents.
THEOREM HeadIsDelivered == Spec => DeliveredFromTheHead
<1>1. ASSUME WorkInv, [Next]_vars
      PROVE  [\A i \in Items : delivered'[i] > delivered[i] /\ Has(i) => Head1.id = i]_vars
  <2> SUFFICES ASSUME NEW i \in Items, delivered'[i] > delivered[i], Has(i)
               PROVE  Head1.id = i
    OBVIOUS
  <2>1. delivered[i] \in Nat
    BY <1>1 DEF WorkInv, TypeInv, HistoryOK
  <2>2. ~UNCHANGED delivered
    BY <2>1
  <2>3. PICK r \in rpcs : r.id \in Items /\ delivered' = [delivered EXCEPT ![r.id] = @ + 1]
    BY <1>1, <2>2, Delivering DEF WorkInv
  <2>4. r.id = i
    BY <2>1, <2>3
  <2> QED
    BY <1>1, <2>4, CallIsWork DEF WorkInv
<1> QED
  BY <1>1, WorkInvInductive, PTL DEF Spec, DeliveredFromTheHead

\* The history only grows.
LEMMA DeliveredGrows ==
    ASSUME TypeInv, [Next]_vars, NEW i \in Items
    PROVE  delivered[i] \in Nat /\ delivered'[i] \in Nat /\ delivered'[i] >= delivered[i]
<1>1. delivered \in [Items -> Nat]
  BY DEF TypeInv, HistoryOK
<1>2. CASE UNCHANGED delivered
  BY <1>1, <1>2
<1>3. ASSUME NEW r \in rpcs, r.id \in Items, delivered' = [delivered EXCEPT ![r.id] = @ + 1]
      PROVE  delivered'[i] \in Nat /\ delivered'[i] >= delivered[i]
  BY <1>1, <1>3
<1> QED
  BY <1>1, <1>2, <1>3, Delivering

\* What the reactor accepts is a task's prompt that the provider took.
LEMMA Accepting ==
    ASSUME [Next]_vars
    PROVE  \/ UNCHANGED accepted
           \/ \E t \in tasks : t.stage = "ok" /\ accepted' = accepted \cup {t.id}
<1>1. CASE Renderers
  BY <1>1 DEF Renderers, Reserve, Enqueue, Cancel, AutoActivate, OperatorActivate, Activate,
              DirectPrompt, Interrupt
<1>2. CASE HandleStart \/ HandleSteer \/ HandleInterrupt
  BY <1>2 DEF HandleStart, HandleSteer, HandleInterrupt
<1>3. ASSUME NEW t \in tasks,
             \/ MarkRead(t) \/ MarkWrite(t) \/ StartFailed(t) \/ SteerFailed(t)
             \/ SteerFoundNoTurn(t) \/ GiveUp(t)
      PROVE  UNCHANGED accepted
  BY <1>3 DEF MarkRead, MarkWrite, StartFailed, SteerFailed, SteerFoundNoTurn, GiveUp
<1>4. ASSUME NEW t \in tasks, TaskAccepted(t)
      PROVE  t.stage = "ok" /\ accepted' = accepted \cup {t.id}
  BY <1>4 DEF TaskAccepted
<1>5. CASE Daemon
  BY <1>5 DEF Daemon, TurnCompletes, Execute
<1>6. CASE Ingest \/ Startup
  BY <1>6 DEF Ingest, Startup, Restart, RecoverStarts, ListSessions, Reconcile
<1>7. CASE UNCHANGED vars
  BY <1>7 DEF vars
<1> QED
  BY <1>1, <1>2, <1>3, <1>4, <1>5, <1>6, <1>7 DEF Next, Reactor

\* A task the provider answered "ok" has its prompt delivered.
Took == \A t \in tasks : t.stage = "ok" /\ t.id # Direct => delivered[t.id] >= 1

LEMMA TookKept ==
    ASSUME WorkInv, TypeInv', [Next]_vars, Took PROVE Took'
<1>i. /\ TypeInv /\ tasks \subseteq Task /\ delivered \in [Items -> Nat]
      /\ JobStep /\ \A t \in Task : t.id \in Items \cup {Direct}
  BY JobSteps DEF WorkInv, TypeInv, TasksOK, HistoryOK, Task
<1>1. \A t \in tasks : t.stage = "ok" /\ t.id # Direct => delivered'[t.id] >= 1
  <2> SUFFICES ASSUME NEW t \in tasks, t.stage = "ok", t.id # Direct
               PROVE  delivered'[t.id] >= 1
    OBVIOUS
  <2>1. t.id \in Items /\ delivered[t.id] >= 1
    BY <1>i DEF Took
  <2> QED
    BY <2>1, <1>i, DeliveredGrows
<1>2. ASSUME \A u \in tasks' : u \in tasks \/ u.stage # "ok" PROVE Took'
  BY <1>1, <1>2 DEF Took
<1>3. ASSUME NEW r \in rpcs, NEW answer \in Answers, NEW heard \in BOOLEAN,
             Executes(r, answer, heard)
      PROVE  Took'
  <2> SUFFICES ASSUME NEW u \in tasks', u.stage = "ok", u.id # Direct
               PROVE  delivered'[u.id] >= 1
    BY DEF Took
  <2>1. PICK t \in tasks : u = After(t, r, answer, heard)
    BY <1>3 DEF Executes
  <2>2. t \in Task /\ r.id \in Items \cup {Direct}
    BY <1>i DEF TypeInv, RpcsOK, RpcCall
  <2>3. CASE t \notin Waiting(r)
    BY <2>1, <2>2, <2>3, <1>1, AfterFacts
  <2>4. CASE t \in Waiting(r)
    <3>1. answer = "ok" /\ u.id = t.id
      BY <2>1, <2>2, <2>4, AfterFacts
    <3>2. t.id = r.id
      BY <2>4 DEF Waiting, Call
    <3>3. Deliver(r.id)
      BY <1>3, <3>1 DEF Executes, Effects
    <3>4. r.id \in Items /\ delivered' = [delivered EXCEPT ![r.id] = @ + 1]
      BY <2>2, <3>1, <3>2, <3>3 DEF Deliver
    <3> QED
      BY <1>i, <3>1, <3>2, <3>4
  <2> QED
    BY <2>3, <2>4
<1>4. (\A u \in tasks' : u \in tasks \/ u.stage # "ok")
         \/ \E r \in rpcs, answer \in Answers, heard \in BOOLEAN : Executes(r, answer, heard)
  <2>1. ASSUME NEW t \in tasks, NEW u \in Task, GoesOn(t, u) \/ SentAgain(t, u)
        PROVE  \A v \in tasks' : v \in tasks \/ v.stage # "ok"
    BY <2>1 DEF GoesOn, SentAgain, Answered
  <2>2. ASSUME NEW t \in tasks, Leaves(t)
        PROVE  \A v \in tasks' : v \in tasks \/ v.stage # "ok"
    BY <2>2 DEF Leaves, Ends
  <2>3. ASSUME NEW task \in Task, Begins(task)
        PROVE  \A v \in tasks' : v \in tasks \/ v.stage # "ok"
    BY <2>3 DEF Begins, Start
  <2> QED
    BY <1>i, <2>1, <2>2, <2>3 DEF JobStep, Asks, AsksStop, Drops, Lost
<1> QED
  BY <1>2, <1>3, <1>4

\* What the reactor accepted the provider has, however the answer came and
\* whatever was lost or restarted.
THEOREM AcceptedReachedTheProvider == Spec => []AcceptedWasDelivered
<1> DEFINE Inv == Took /\ AcceptedWasDelivered
<1>1. Init => Inv
  BY DEF Init, Took, AcceptedWasDelivered
<1>2. WorkInv /\ TypeInv' /\ [Next]_vars /\ Inv => Inv'
  <2> SUFFICES ASSUME WorkInv, TypeInv', [Next]_vars, Took, AcceptedWasDelivered
               PROVE  Took' /\ AcceptedWasDelivered'
    OBVIOUS
  <2>1. Took'
    BY TookKept
  <2>2. TypeInv /\ accepted \subseteq Items \cup {Direct} /\ tasks \subseteq Task
        /\ \A t \in Task : t.id \in Items \cup {Direct}
    BY DEF WorkInv, TypeInv, HistoryOK, TasksOK, Task
  <2>3. \A i \in accepted' \ {Direct} : i \in Items /\ delivered[i] >= 1
    BY <2>2, Accepting DEF AcceptedWasDelivered, Took
  <2>4. \A i \in accepted' \ {Direct} : delivered'[i] >= 1
    BY <2>2, <2>3, DeliveredGrows
  <2> QED
    BY <2>1, <2>4 DEF AcceptedWasDelivered
<1>3. Inv => AcceptedWasDelivered
  OBVIOUS
<1> HIDE DEF Inv
<1>4. WorkInv => TypeInv
  BY DEF WorkInv
<1> QED
  BY <1>1, <1>2, <1>3, <1>4, WorkInvInductive, PTL DEF Spec

(***************************************************************************)
(* Who resolves the handoff.                                               *)
(***************************************************************************)
\* A handoff that is accepted or released is over.
LEMMA ResolvedAfter ==
    ASSUME QueueInv, QueueInv', NEW act \in Nat, Accept(act) \/ Release(act)
    PROVE  ~HandedOff(act)'
<1>1. CASE ~HandedOff(act)
  <2>1. queue' = queue
    BY <1>1 DEF Accept, Release
  <2> QED
    BY <1>1, <2>1 DEF HandedOff, Head1
<1>2. CASE HandedOff(act) /\ queue' = Tail(queue)
  <2>1. queue # <<>> /\ queue \in Seq(QueueItem)
    BY <1>2 DEF HandedOff, QueueInv
  <2>2. queue' # <<>> => queue'[1] = queue[2] /\ 2 \in DOMAIN queue
    BY <1>2, <2>1
  <2>3. 2 \in DOMAIN queue => queue[2].status # "handoff"
    BY DEF QueueInv, HandoffIsHead
  <2> QED
    BY <2>2, <2>3 DEF HandedOff, Head1
<1>3. CASE HandedOff(act) /\ queue' = [queue EXCEPT ![1].status = "queued", ![1].act = 0]
  <2>1. queue # <<>> /\ 1 \in DOMAIN queue /\ queue[1] \in QueueItem
    BY <1>3 DEF HandedOff, QueueInv
  <2>2. queue'[1].status = "queued"
    BY <1>3, <2>1 DEF QueueItem
  <2> QED
    BY <2>2 DEF HandedOff, Head1
<1> QED
  BY <1>1, <1>2, <1>3 DEF Accept, Release

\* A handoff is as old as the queue says, unless this step made it.
LEMMA HandedOffBefore ==
    ASSUME WorkInv, WorkInv', QueueStep, [Next]_vars, ~\E mode \in Modes : Activate(mode),
           NEW a \in Nat, HandedOff(a)'
    PROVE  HandedOff(a)
<1>i. clock \in Nat /\ now > clock /\ queue \in Seq(QueueItem)
  BY DEF WorkInv, TypeInv, QueueInv, now
<1>1. HandedOff(a) \/ a = now
  BY DEF QueueStep
<1>2. CASE queue' = queue
  BY <1>2 DEF HandedOff, Head1
<1>3. CASE clock' = clock
  <2>1. 1 \in DOMAIN queue' /\ queue'[1].act = a
    BY DEF HandedOff, Head1, WorkInv, TypeInv, QueueInv
  <2>2. a <= clock
    BY <1>3, <2>1 DEF QueueNames, WorkInv
  <2> QED
    BY <1>1, <1>i, <2>2
<1>4. ASSUME NEW i \in Items, Reserve(i) PROVE HandedOff(a)
  <2>1. queue # <<>>
    BY DEF QueueStep
  <2>2. \E x : queue' = Append(queue, x)
    BY <1>4 DEF Reserve
  <2>3. queue'[1] = queue[1]
    BY <2>1, <2>2, <1>i
  <2> QED
    BY <2>1, <2>3 DEF HandedOff, Head1
<1>5. queue' = queue \/ clock' = clock \/ \E i \in Items : Reserve(i)
  <2>1. CASE Renderers
    BY <2>1 DEF Renderers, Enqueue, Cancel, AutoActivate, OperatorActivate, Modes,
                DirectPrompt, Interrupt
  <2>2. CASE HandleStart \/ HandleSteer \/ HandleInterrupt
    BY <2>2 DEF HandleStart, HandleSteer, HandleInterrupt, readModel
  <2>3. ASSUME NEW t \in tasks,
               \/ TaskAccepted(t) \/ MarkRead(t) \/ MarkWrite(t) \/ StartFailed(t)
               \/ SteerFailed(t) \/ SteerFoundNoTurn(t) \/ GiveUp(t)
        PROVE  queue' = queue \/ clock' = clock
    BY <2>3 DEF TaskAccepted, MarkRead, MarkWrite, StartFailed, SteerFailed,
                SteerFoundNoTurn, GiveUp, readModel
  <2>4. CASE Daemon \/ Ingest \/ Startup
    BY <2>4 DEF Daemon, TurnCompletes, Execute, Ingest, Startup, Restart, RecoverStarts,
                ListSessions, Reconcile, readModel
  <2>5. CASE UNCHANGED vars
    BY <2>5 DEF vars, readModel
  <2> QED
    BY <2>1, <2>2, <2>3, <2>4, <2>5 DEF Next, Reactor
<1> QED
  BY <1>2, <1>3, <1>4, <1>5

\* A task past the acceptance works for a handoff that is over.
Resolved == \A t \in tasks : t.stage \in {"mark", "write", "running"} => ~HandedOff(t.act)

LEMMA TaskIsWork ==
    ASSUME Named, NEW t \in tasks
    PROVE  /\ t.act \in Nat /\ 1 <= t.act /\ t.act <= clock
           /\ Has(t.id) => Head1.id = t.id
           /\ HandedOff(t.act) => Head1.id = t.id
<1> DEFINE w == <<t.act, t.id>>
<1>1. w \in Work
  BY DEF Work
<1>2. w[1] = t.act /\ w[2] = t.id
  OBVIOUS
<1>3. /\ w[1] \in Nat /\ 1 <= w[1] /\ w[1] <= clock
      /\ Has(w[2]) => Head1.id = w[2]
      /\ HandedOff(w[1]) => Head1.id = w[2]
  BY <1>1 DEF Named
<1> HIDE DEF w
<1> QED
  BY <1>1, <1>2 DEF Named

LEMMA PromptIsWork ==
    ASSUME Named, NEW k \in PromptsAt
    PROVE  /\ requests[k].act \in Nat /\ 1 <= requests[k].act /\ requests[k].act <= clock
           /\ HandedOff(requests[k].act) => Head1.id = requests[k].id
<1> DEFINE w == <<requests[k].act, requests[k].id>>
<1>1. w \in Work
  BY DEF Work
<1>2. w[1] = requests[k].act /\ w[2] = requests[k].id
  OBVIOUS
<1> HIDE DEF w
<1> QED
  BY <1>1, <1>2 DEF Named

LEMMA ResolvedKept ==
    ASSUME WorkInv, TypeInv', [Next]_vars, Resolved PROVE Resolved'
<1>i. /\ Named /\ TypeInv /\ QueueInv /\ QueueInv' /\ QueueStep /\ JobStep
      /\ clock \in Nat /\ now > clock /\ tasks \subseteq Task
  BY WorkInvStep DEF WorkInv, TypeInv, QueueInv, TasksOK, now
<1> SUFFICES ASSUME NEW u \in tasks', u.stage \in {"mark", "write", "running"}
             PROVE  ~HandedOff(u.act)'
  BY DEF Resolved
<1>1. \A a \in Nat : a <= clock /\ ~HandedOff(a) => ~HandedOff(a)'
  BY <1>i DEF QueueStep
<1>2. \/ u \in tasks
      \/ \E t \in tasks : u.act = t.act /\ t.stage = "ok" /\ Accept(t.act)
      \/ \E t \in tasks : u.act = t.act /\ t.stage = "mark"
  <2>1. ASSUME NEW t \in tasks, NEW v \in Task, GoesOn(t, v) \/ SentAgain(t, v), u \notin tasks
        PROVE  /\ u.act = t.act
               /\ \/ t.stage = "ok" /\ Accept(t.act)
                  \/ t.stage = "mark"
    BY <2>1 DEF GoesOn, SentAgain, Answered
  <2>2. ASSUME NEW t \in tasks, Leaves(t) PROVE u \in tasks
    BY <2>2 DEF Leaves, Ends
  <2>3. ASSUME NEW task \in Task, Begins(task) PROVE u \in tasks
    BY <2>3 DEF Begins, Start
  <2>4. ASSUME NEW r \in rpcs, NEW answer \in Answers, NEW heard \in BOOLEAN,
               Executes(r, answer, heard)
        PROVE  u \in tasks
    <3>1. PICK t \in tasks : u = After(t, r, answer, heard)
      BY <2>4 DEF Executes
    <3>2. t \in Task
      BY <1>i
    <3>3. t \in Waiting(r) => u.stage \in Answers
      BY <3>1, <3>2, AfterFacts DEF Answers
    <3>4. t \notin Waiting(r) => u = t
      BY <3>1, <3>2, AfterFacts
    <3> QED
      BY <3>3, <3>4 DEF Answers
  <2> QED
    BY <1>i, <2>1, <2>2, <2>3, <2>4 DEF JobStep, Asks, AsksStop, Drops, Lost
<1>3. CASE u \in tasks
  <2>1. u.act \in Nat /\ u.act <= clock
    BY <1>3, <1>i, TaskIsWork
  <2>2. ~HandedOff(u.act)
    BY <1>3 DEF Resolved
  <2>3. PICK a \in Nat : a = u.act
    BY <2>1
  <2> QED
    BY <1>1, <2>1, <2>2, <2>3
<1>4. ASSUME NEW t \in tasks, u.act = t.act, (t.stage = "ok" /\ Accept(t.act)) \/ t.stage = "mark"
      PROVE  ~HandedOff(u.act)'
  <2>1. t.act \in Nat /\ t.act <= clock
    BY <1>i, TaskIsWork
  <2>2. PICK a \in Nat : a = t.act
    BY <2>1
  <2>3. CASE t.stage = "ok" /\ Accept(t.act)
    <3>1. ~HandedOff(a)'
      BY <2>2, <2>3, <1>i, ResolvedAfter
    <3> QED
      BY <3>1, <2>2, <1>4
  <2>4. CASE t.stage = "mark"
    <3>1. ~HandedOff(a)
      BY <2>2, <2>4 DEF Resolved
    <3>2. ~HandedOff(a)'
      BY <1>1, <2>1, <2>2, <3>1
    <3> QED
      BY <3>2, <2>2, <1>4
  <2> QED
    BY <1>4, <2>3, <2>4
<1> QED
  BY <1>2, <1>3, <1>4


\* Somebody works for the activation.
Owned(a) ==
    \/ \E k \in PromptsAt : requests[k].act = a
    \/ \E t \in tasks : t.act = a

LEMMA RecoveredGrows ==
    ASSUME [Next]_vars PROVE recovered \subseteq recovered' \/ Restart
<1>1. CASE Renderers
  BY <1>1 DEF Renderers, Reserve, Enqueue, Cancel, AutoActivate, OperatorActivate, Activate,
              DirectPrompt, Interrupt
<1>2. CASE HandleStart \/ HandleSteer \/ HandleInterrupt
  BY <1>2 DEF HandleStart, HandleSteer, retrySteerAsNextTurn, HandleInterrupt
<1>3. ASSUME NEW t \in tasks,
             \/ TaskAccepted(t) \/ MarkRead(t) \/ MarkWrite(t) \/ StartFailed(t)
             \/ SteerFailed(t) \/ SteerFoundNoTurn(t) \/ GiveUp(t)
      PROVE  recovered \subseteq recovered'
  BY <1>3 DEF TaskAccepted, MarkRead, MarkWrite, StartFailed, SteerFailed, SteerFoundNoTurn,
              GiveUp
<1>4. CASE Daemon \/ Ingest \/ Startup
  BY <1>4 DEF Daemon, TurnCompletes, Execute, Ingest, Startup, RecoverStarts, ListSessions,
              Reconcile
<1>5. CASE UNCHANGED vars
  BY <1>5 DEF vars
<1> QED
  BY <1>1, <1>2, <1>3, <1>4, <1>5 DEF Next, Reactor

\* The repairs of the startup end with the head's handoff resolved.
LEMMA RepairsEnd ==
    ASSUME [Next]_vars, phase # "up", phase' = "up"
    PROVE  \/ queue = <<>> /\ queue' = <<>>
           \/ queue' = queue /\ (queue = <<>> \/ Head1.status # "handoff")
           \/ queue # <<>> /\ Head1.status = "handoff" /\ Accept(Head1.act)
           \/ queue # <<>> /\ Head1.status = "handoff" /\ Release(Head1.act)
<1>1. UNCHANGED phase \/ Startup
  <2>1. CASE Renderers
    BY <2>1 DEF Renderers, Reserve, Enqueue, Cancel, AutoActivate, OperatorActivate, Activate,
                DirectPrompt, Interrupt, startup
  <2>2. CASE HandleStart \/ HandleSteer \/ HandleInterrupt
    BY <2>2 DEF HandleStart, HandleSteer, HandleInterrupt, startup
  <2>3. ASSUME NEW t \in tasks,
               \/ TaskAccepted(t) \/ MarkRead(t) \/ MarkWrite(t) \/ StartFailed(t)
               \/ SteerFailed(t) \/ SteerFoundNoTurn(t) \/ GiveUp(t)
        PROVE  UNCHANGED phase
    BY <2>3 DEF TaskAccepted, MarkRead, MarkWrite, StartFailed, SteerFailed,
                SteerFoundNoTurn, GiveUp, startup
  <2>4. CASE Daemon \/ Ingest
    BY <2>4 DEF Daemon, TurnCompletes, Execute, Ingest, startup
  <2>5. CASE UNCHANGED vars
    BY <2>5 DEF vars, startup
  <2> QED
    BY <2>1, <2>2, <2>3, <2>4, <2>5 DEF Next, Reactor
<1>2. CASE Reconcile
  BY <1>2 DEF Reconcile
<1>3. CASE ListSessions
  BY <1>3 DEF ListSessions, readModel
<1> QED
  BY <1>1, <1>2, <1>3 DEF Startup, Restart, RecoverStarts

\* An activation keeps its request or its task until it is resolved, dropped
\* as recovered before, or lost with the backend.
LEMMA OwnersStay ==
    ASSUME WorkInv, TypeInv', Resolved, JobStep, NEW a \in Nat, Owned(a), HandedOff(a),
           HandedOff(a)', phase' = "up"
    PROVE  Owned(a)' \/ Known(Head1.id)
<1>i. /\ TypeInv /\ QueueInv /\ QueueInv' /\ RequestsOK /\ tasks \subseteq Task /\ Named
      /\ requests \in Seq(Ask) /\ clock \in Nat
  BY DEF WorkInv, TypeInv, TasksOK, RequestsOK, QueueInv
<1>n. /\ \A t \in tasks : t.act = a => Head1.id = t.id
      /\ \A k \in PromptsAt : requests[k].act = a => Head1.id = requests[k].id
  BY <1>i, TaskIsWork, PromptIsWork
\* the prompt stays where it is, or moves up, or is the one that is taken
<1>k. ASSUME NEW k \in PromptsAt
      PROVE  /\ \A x \in Ask : requests' = Append(requests, x) =>
                  k \in PromptsAt' /\ requests'[k] = requests[k]
             /\ requests # <<>> /\ requests' = Tail(requests) =>
                  IF k = 1 THEN Head(requests) = requests[k]
                  ELSE k - 1 \in PromptsAt' /\ requests'[k - 1] = requests[k]
  <2>1. k \in DOMAIN requests /\ requests[k].kind # "interrupt"
    BY DEF PromptsAt
  <2>2. ASSUME NEW x \in Ask, requests' = Append(requests, x)
        PROVE  k \in DOMAIN requests' /\ requests'[k] = requests[k]
    BY <1>i, <2>1, <2>2
  <2>3. ASSUME requests # <<>>, requests' = Tail(requests)
        PROVE  IF k = 1 THEN Head(requests) = requests[k]
               ELSE k - 1 \in DOMAIN requests' /\ requests'[k - 1] = requests[k]
    BY <1>i, <2>1, <2>3
  <2> QED
    BY <2>1, <2>2, <2>3 DEF PromptsAt
<1>0. CASE UNCHANGED <<requests, tasks, rpcs>>
  BY <1>0 DEF Owned, PromptsAt
<1>1. ASSUME NEW x \in Ask, requests' = Append(requests, x), UNCHANGED tasks
      PROVE  Owned(a)'
  BY <1>1, <1>k DEF Owned
<1>2. ASSUME NEW i \in Items \cup {Direct}, Asks(i) PROVE Owned(a)'
  <2>1. PICK kind \in {"start", "steer"} :
           requests' = Append(requests, [kind |-> kind, id |-> i, act |-> now])
    BY <1>2 DEF Asks, Request
  <2>2. [kind |-> kind, id |-> i, act |-> now] \in Ask
    BY <1>i, AskTyped
  <2> QED
    BY <2>1, <2>2, <1>1, <1>2 DEF Asks
<1>3. CASE AsksStop
  <2>1. [kind |-> "interrupt", id |-> Direct, act |-> 0] \in Ask
    BY DEF Ask
  <2> QED
    BY <2>1, <1>1, <1>3 DEF AsksStop
<1>4. CASE Drops
  <2>1. /\ requests # <<>> /\ requests' = Tail(requests) /\ UNCHANGED tasks
        /\ Head(requests).kind = "interrupt" \/ Known(Head(requests).id)
    BY <1>4 DEF Drops
  <2>2. ASSUME NEW k \in PromptsAt, requests[k].act = a PROVE Owned(a)' \/ Known(Head1.id)
    <3>1. CASE k = 1
      <4>1. Head(requests) = requests[k] /\ requests[k].kind # "interrupt"
        BY <2>1, <3>1, <1>k DEF PromptsAt
      <4>2. Known(requests[k].id)
        BY <4>1, <2>1
      <4> QED
        BY <4>2, <2>2, <1>n
    <3>2. CASE k # 1
      BY <2>1, <2>2, <3>2, <1>k DEF Owned
    <3> QED
      BY <3>1, <3>2
  <2>3. ASSUME NEW t \in tasks, t.act = a PROVE Owned(a)'
    BY <2>1, <2>3 DEF Owned
  <2> QED
    BY <2>2, <2>3 DEF Owned
<1>5. CASE Lost
  BY <1>5 DEF Lost
<1>6. ASSUME NEW task \in Task, Begins(task) PROVE Owned(a)'
  <2>1. /\ requests # <<>> /\ requests' = Tail(requests) /\ tasks' = tasks \cup {task}
        /\ task.act = Head(requests).act
    BY <1>6 DEF Begins, Start
  <2>2. ASSUME NEW k \in PromptsAt, requests[k].act = a PROVE Owned(a)'
    BY <2>1, <2>2, <1>k DEF Owned
  <2>3. ASSUME NEW t \in tasks, t.act = a PROVE Owned(a)'
    BY <2>1, <2>3 DEF Owned
  <2> QED
    BY <2>2, <2>3 DEF Owned
<1>7. ASSUME NEW t \in tasks, Leaves(t) PROVE Owned(a)' \/ Known(Head1.id)
  <2>1. tasks' = tasks \ {t} /\ UNCHANGED requests
    BY <1>7 DEF Leaves, Ends
  <2>2. CASE t.act # a
    BY <2>1, <2>2 DEF Owned, PromptsAt
  <2>3. CASE t.act = a
    <3>1. ~(Accept(a) \/ Release(a))
      BY <1>i, ResolvedAfter
    <3>2. t.stage \notin {"mark", "write", "running"}
      BY <2>3 DEF Resolved
    <3>3. Known(t.id)
      BY <1>7, <2>3, <3>1, <3>2 DEF Leaves
    <3> QED
      BY <2>3, <3>3, <1>n
  <2> QED
    BY <2>2, <2>3
<1>8. ASSUME NEW t \in tasks, NEW u \in Task, GoesOn(t, u) \/ SentAgain(t, u) PROVE Owned(a)'
  <2>1. tasks' = (tasks \ {t}) \cup {u} /\ UNCHANGED requests /\ u.act = t.act
    BY <1>8 DEF GoesOn, SentAgain, Answered
  <2> QED
    BY <2>1 DEF Owned, PromptsAt
<1>9. ASSUME NEW r \in rpcs, NEW answer \in Answers, NEW heard \in BOOLEAN,
             Executes(r, answer, heard)
      PROVE  Owned(a)'
  <2>1. /\ UNCHANGED requests
        /\ \A t \in tasks : After(t, r, answer, heard) \in tasks'
        /\ \A t \in tasks : After(t, r, answer, heard).act = t.act
    BY <1>9, <1>i, AfterFacts DEF Executes
  <2> QED
    BY <2>1 DEF Owned, PromptsAt
<1> QED
  BY <1>0, <1>2, <1>3, <1>4, <1>5, <1>6, <1>7, <1>8, <1>9 DEF JobStep

\* The activation that hands the head off asks for its start or its steer.
LEMMA NewOwner ==
    ASSUME WorkInv, NEW mode \in Modes, Activate(mode), QueueStep,
           NEW a \in Nat, HandedOff(a)'
    PROVE  Owned(a)'
<1>i. queue \in Seq(QueueItem) /\ requests \in Seq(Ask)
  BY DEF WorkInv, TypeInv, QueueInv, RequestsOK
<1>1. queue # <<>> /\ queue' = [queue EXCEPT ![1].status = "handoff", ![1].act = now]
  BY DEF Activate, CanActivate
<1>2. queue[1] \in QueueItem /\ 1 \in DOMAIN queue
  BY <1>1, <1>i
<1>3. queue'[1].act = now
  BY <1>1, <1>2 DEF QueueItem
<1>4. a = now
  BY <1>3 DEF HandedOff, Head1
<1>5. PICK kind \in {"start", "steer"} :
         requests' = Append(requests, [kind |-> kind, id |-> Head1.id, act |-> now])
  BY DEF Activate, Request
<1> DEFINE x == [kind |-> kind, id |-> Head1.id, act |-> now]
<1>6. x.kind # "interrupt" /\ x.act = now /\ requests' = Append(requests, x)
  BY <1>5
<1> HIDE DEF x
<1>7. Len(requests) + 1 \in DOMAIN requests' /\ requests'[Len(requests) + 1] = x
  BY <1>6, <1>i
<1> QED
  BY <1>4, <1>6, <1>7 DEF Owned, PromptsAt

\* HandoffIsOwned with the owner a prompt, never a Stop: what is inductive.
HandoffOwned ==
    (phase = "up" /\ queue # <<>> /\ Head1.status = "handoff") =>
        Owned(Head1.act) \/ Known(Head1.id)

LEMMA OwnedKept ==
    ASSUME WorkInv, WorkInv', [Next]_vars, Resolved, HandoffOwned
    PROVE  HandoffOwned'
<1> SUFFICES ASSUME phase' = "up", queue' # <<>>, (Head1.status)' = "handoff"
             PROVE  \/ \E k \in PromptsAt' : requests'[k].act = (Head1.act)'
                    \/ \E t \in tasks' : t.act = (Head1.act)'
                    \/ \E key \in recovered' : key[2] = (Head1.id)'
  BY DEF HandoffOwned, Owned, Known
<1>i. QueueInv /\ QueueInv' /\ TypeInv' /\ QueueStep /\ JobStep
  BY WorkInvStep DEF WorkInv, TypeInv
<1>1. (Head1.act)' \in Nat
  <2>1. queue' \in Seq(QueueItem)
    BY <1>i DEF QueueInv
  <2>2. queue'[1] \in QueueItem
    BY <2>1
  <2> QED
    BY <2>2 DEF QueueItem, Head1
<1>2. PICK a \in Nat : a = (Head1.act)'
  BY <1>1
<1>3. HandedOff(a)'
  BY <1>2 DEF HandedOff
<1>4. SUFFICES Owned(a)' \/ \E key \in recovered' : key[2] = (Head1.id)'
  BY <1>2 DEF Owned
<1>5. ASSUME NEW mode \in Modes, Activate(mode) PROVE Owned(a)'
  BY <1>5, <1>3, <1>i, NewOwner
<1>6. CASE ~\E mode \in Modes : Activate(mode)
  <2>1. HandedOff(a) /\ queue # <<>> /\ Head1.status = "handoff" /\ Head1.act = a
    BY <1>3, <1>6, <1>i, HandedOffBefore DEF HandedOff
  <2>2. (Head1.id)' = Head1.id
    BY <1>3, <1>i DEF QueueStep
  <2>3. phase = "up"
    <3>1. ~(Accept(a) \/ Release(a))
      BY <1>3, <1>i, ResolvedAfter
    <3> QED
      BY <2>1, <3>1, RepairsEnd
  <2>4. recovered \subseteq recovered'
    BY RecoveredGrows DEF Restart
  <2>5. Known(Head1.id) => \E key \in recovered' : key[2] = (Head1.id)'
    BY <2>2, <2>4 DEF Known
  <2>7. Owned(a) \/ Known(Head1.id)
    BY <2>1, <2>3 DEF HandoffOwned
  <2>8. Owned(a) => Owned(a)' \/ Known(Head1.id)
    BY <2>1, <1>3, <1>i, OwnersStay
  <2> QED
    BY <2>5, <2>7, <2>8
<1> QED
  BY <1>5, <1>6

\* Once startup repairs are over, the head's handoff has a request or a task
\* that will resolve it, or its steer was recovered before: for any number of
\* follow-ups, sends, turns, lost answers and restarts.
THEOREM HandoffStaysOwned == Spec => []HandoffIsOwned
<1> DEFINE Inv == Resolved /\ HandoffOwned
<1>1. Init => Inv
  BY DEF Init, Resolved, HandoffOwned
<1>2. WorkInv /\ WorkInv' /\ [Next]_vars /\ Inv => Inv'
  <2> SUFFICES ASSUME WorkInv, WorkInv', [Next]_vars, Resolved, HandoffOwned
               PROVE  Resolved' /\ HandoffOwned'
    OBVIOUS
  <2>1. TypeInv'
    BY DEF WorkInv
  <2> QED
    BY <2>1, ResolvedKept, OwnedKept
<1>3. Inv => HandoffIsOwned
  BY DEF HandoffOwned, HandoffIsOwned, Owned, Known, PromptsAt
<1> HIDE DEF Inv
<1> QED
  BY <1>1, <1>2, <1>3, WorkInvInductive, PTL DEF Spec


(***************************************************************************)
(* How often a follow-up reaches the provider.                             *)
(***************************************************************************)
\* The activation of the follow-up may still deliver it.
Owes(i, a) ==
    \/ \E k \in PromptsAt : requests[k].act = a /\ requests[k].id = i
    \/ \E r \in rpcs : r.act = a /\ r.id = i
    \/ \E t \in tasks : t.act = a /\ t.id = i /\ t.stage = "noTurn"

Open(i) == { a \in 1..clock : Owes(i, a) }

\* The follow-up has a delivery to its credit: it is out of the queue, or
\* handed off and its task has not failed.
Trying(i) ==
    \/ i \in seen /\ ~Has(i)
    \/ /\ Has(i) /\ Head1.id = i /\ Head1.status = "handoff"
       /\ \A t \in tasks : t.act = Head1.act => t.stage \notin {"refused", "failed"}

\* What reached the provider and what may still reach it are covered by the
\* handoffs given up without an answer and the credit.
Credit ==
    \A i \in Items :
        delivered[i] + Cardinality(Open(i)) <= unanswered[i] + IF Trying(i) THEN 1 ELSE 0

LEMMA SmallSets ==
    ASSUME NEW n \in Nat, NEW S \in SUBSET (1..n)
    PROVE  IsFiniteSet(S) /\ Cardinality(S) \in Nat
<1>1. IsFiniteSet(1..n)
  BY FS_Interval
<1>2. IsFiniteSet(S)
  BY <1>1, FS_Subset
<1> QED
  BY <1>2, FS_CardinalityType

LEMMA OwesIsWork ==
    ASSUME Named, NEW i, NEW a, Owes(i, a)
    PROVE  a \in Nat /\ 1 <= a /\ a <= clock /\ i \in seen \cup {Direct}
<1> DEFINE w == <<a, i>>
<1>1. w \in Work
  BY DEF Owes, Work
<1>2. w[1] = a /\ w[2] = i
  OBVIOUS
<1> HIDE DEF w
<1> QED
  BY <1>1, <1>2 DEF Named

\* Only an activation of the follow-up adds to what may still reach it.
LEMMA OwesSteps ==
    ASSUME WorkInv, JobStep, NEW i \in Items, NEW a, Owes(i, a)'
    PROVE  \/ Owes(i, a)
           \/ a = now /\ Head1.id = i /\ queue # <<>> /\ \E mode \in Modes : Activate(mode)
<1>i. /\ RequestsOK /\ clock \in Nat /\ tasks \subseteq Task /\ i # Direct
  BY FollowUpsAssumption DEF WorkInv, TypeInv, QueueInv, TasksOK
<1>0. CASE UNCHANGED <<requests, tasks, rpcs>>
  BY <1>0 DEF Owes, PromptsAt
<1>1. ASSUME NEW j \in Items \cup {Direct}, Asks(j)
      PROVE  Owes(i, a) \/ (a = now /\ j = i)
  <2>1. \A k \in PromptsAt' :
              \/ k \in PromptsAt /\ requests'[k] = requests[k]
              \/ requests'[k].act = now /\ requests'[k].id = j
    BY <1>1, <1>i, AsksAfter
  <2>2. UNCHANGED <<tasks, rpcs>>
    BY <1>1 DEF Asks
  <2> QED
    BY <2>1, <2>2 DEF Owes
<1>2. CASE AsksStop
  <2>1. \A k \in PromptsAt' : k \in PromptsAt /\ requests'[k] = requests[k]
    BY <1>2, <1>i, StopAfter
  <2>2. UNCHANGED <<tasks, rpcs>>
    BY <1>2 DEF AsksStop
  <2> QED
    BY <2>1, <2>2 DEF Owes
<1>3. CASE Drops
  <2>1. \A k \in PromptsAt' : k + 1 \in PromptsAt /\ requests'[k] = requests[k + 1]
    BY <1>3, <1>i, PromptsAfter DEF Drops
  <2>2. UNCHANGED <<tasks, rpcs>>
    BY <1>3 DEF Drops
  <2> QED
    BY <2>1, <2>2 DEF Owes
<1>4. CASE Lost
  <2>1. PromptsAt' = {} /\ tasks' = {} /\ rpcs' = rpcs
    BY <1>4 DEF Lost, PromptsAt
  <2> QED
    BY <2>1 DEF Owes
<1>5. ASSUME NEW task \in Task, Begins(task) PROVE Owes(i, a)
  <2>1. \A k \in PromptsAt' : k + 1 \in PromptsAt /\ requests'[k] = requests[k + 1]
    BY <1>5, <1>i, PromptsAfter DEF Begins
  <2>2. 1 \in PromptsAt /\ task.act = requests[1].act /\ task.id = requests[1].id
    BY <1>5, <1>i, PromptsAfter DEF Begins, PromptsAt
  <2>3. tasks' = tasks \cup {task} /\ rpcs' = rpcs \cup {Call(task)} /\ task.stage = "call"
    BY <1>5 DEF Begins, Start
  <2>4. Call(task).act = task.act /\ Call(task).id = task.id
    BY DEF Call
  <2> QED
    BY <2>1, <2>2, <2>3, <2>4 DEF Owes
<1>6. ASSUME NEW t \in tasks, Leaves(t) PROVE Owes(i, a)
  <2>1. tasks' \subseteq tasks /\ UNCHANGED <<requests, rpcs>> /\ PromptsAt' = PromptsAt
    BY <1>6 DEF Leaves, Ends, PromptsAt
  <2> QED
    BY <2>1 DEF Owes
<1>7. ASSUME NEW t \in tasks, NEW u \in Task, GoesOn(t, u) PROVE Owes(i, a)
  <2>1. /\ tasks' = (tasks \ {t}) \cup {u} /\ UNCHANGED <<requests, rpcs>>
        /\ PromptsAt' = PromptsAt /\ u.stage # "noTurn"
    BY <1>7 DEF GoesOn, Answered, PromptsAt
  <2> QED
    BY <2>1 DEF Owes
<1>8. ASSUME NEW t \in tasks, NEW u \in Task, SentAgain(t, u) PROVE Owes(i, a)
  <2>1. /\ tasks' = (tasks \ {t}) \cup {u} /\ rpcs' = rpcs \cup {Call(u)} /\ UNCHANGED requests
        /\ PromptsAt' = PromptsAt /\ u.stage # "noTurn" /\ t.stage = "noTurn"
        /\ Call(u).act = t.act /\ Call(u).id = t.id
    BY <1>8 DEF SentAgain, Answered, PromptsAt, Call
  <2> QED
    BY <2>1 DEF Owes
<1>9. ASSUME NEW r \in rpcs, NEW answer \in Answers, NEW heard \in BOOLEAN,
             Executes(r, answer, heard)
      PROVE  Owes(i, a)
  <2>1. rpcs' = rpcs \ {r} /\ UNCHANGED requests /\ PromptsAt' = PromptsAt
    BY <1>9 DEF Executes, PromptsAt
  <2>2. ASSUME NEW u \in tasks', u.act = a, u.id = i, u.stage = "noTurn" PROVE Owes(i, a)
    <3>1. PICK t \in tasks : u = After(t, r, answer, heard)
      BY <1>9 DEF Executes
    <3>2. t \in Task
      BY <1>i
    <3>3. CASE t \in Waiting(r)
      <4>1. r.act = t.act /\ r.id = t.id
        BY <3>3 DEF Waiting, Call
      <4>2. u.act = t.act /\ u.id = t.id
        BY <3>1, <3>2, AfterFacts
      <4> QED
        BY <2>2, <4>1, <4>2 DEF Owes
    <3>4. CASE t \notin Waiting(r)
      <4>1. u = t
        BY <3>1, <3>2, <3>4, AfterFacts
      <4> QED
        BY <2>2, <4>1 DEF Owes
    <3> QED
      BY <3>3, <3>4
  <2> QED
    BY <2>1, <2>2 DEF Owes
<1> QED
  BY <1>i, <1>0, <1>1, <1>2, <1>3, <1>4, <1>5, <1>6, <1>7, <1>8, <1>9 DEF JobStep

\* A call that is executed is over, unless it found no turn to steer and its
\* task hears so.
LEMMA ExecutedIsOver ==
    ASSUME WorkInv, NEW r \in rpcs, NEW answer \in Answers, NEW heard \in BOOLEAN,
           Executes(r, answer, heard), ~(answer = "noTurn" /\ heard), NEW i
    PROVE  ~Owes(i, r.act)'
<1>i. OneEach /\ tasks \subseteq Task
  BY DEF WorkInv, TypeInv, TasksOK
<1>1. rpcs' = rpcs \ {r} /\ UNCHANGED requests /\ PromptsAt' = PromptsAt
  BY DEF Executes, PromptsAt
<1>2. \A k \in PromptsAt : requests[k].act # r.act
  BY <1>i DEF OneEach
<1>3. \A s \in rpcs' : s.act # r.act
  BY <1>i, <1>1 DEF OneEach
<1>4. ASSUME NEW u \in tasks', u.act = r.act PROVE u.stage # "noTurn"
  <2>1. PICK t \in tasks : u = After(t, r, answer, heard)
    BY DEF Executes
  <2>2. t \in Task
    BY <1>i
  <2>3. t.act = r.act
    BY <1>4, <2>1, <2>2, AfterFacts
  <2>4. t.stage \in {"call", "failed"}
    BY <2>3, <1>i DEF OneEach
  <2>5. CASE t \in Waiting(r)
    BY <2>1, <2>2, <2>5, AfterFacts
  <2>6. CASE t \notin Waiting(r)
    BY <2>1, <2>2, <2>4, <2>6, AfterFacts
  <2> QED
    BY <2>5, <2>6
<1> QED
  BY <1>1, <1>2, <1>3, <1>4 DEF Owes

LEMMA ExecutedDelivers ==
    ASSUME TypeInv, NEW r \in rpcs, NEW answer \in Answers, NEW heard \in BOOLEAN,
           Executes(r, answer, heard), NEW i \in Items
    PROVE  \/ delivered'[i] = delivered[i]
           \/ answer = "ok" /\ r.id = i /\ delivered'[i] = delivered[i] + 1
<1>1. delivered \in [Items -> Nat] /\ r.id \in Items \cup {Direct}
  BY DEF TypeInv, HistoryOK, RpcsOK, RpcCall
<1>2. UNCHANGED delivered \/ (answer = "ok" /\ Deliver(r.id))
  <2>1. Effects(r, answer)
    BY DEF Executes
  <2>2. CASE answer = "ok"
    BY <2>1, <2>2 DEF Effects
  <2>3. ASSUME NEW other \in {"noTurn", "refused", "failed"}, answer = other
        PROVE  UNCHANGED runtime
    BY <2>1, <2>3 DEF Effects
  <2> QED
    BY <2>2, <2>3 DEF runtime, Answers
<1>3. CASE UNCHANGED delivered
  BY <1>3
<1>4. CASE answer = "ok" /\ Deliver(r.id)
  <2>1. UNCHANGED delivered \/ (r.id \in Items /\ delivered' = [delivered EXCEPT ![r.id] = @ + 1])
    BY <1>1, <1>4 DEF Deliver
  <2> QED
    BY <1>1, <1>4, <2>1
<1> QED
  BY <1>2, <1>3, <1>4

LEMMA UnansweredGrows ==
    ASSUME TypeInv, [Next]_vars, NEW i \in Items
    PROVE  unanswered[i] \in Nat /\ unanswered'[i] \in {unanswered[i], unanswered[i] + 1}
<1>1. unanswered \in [Items -> Nat]
  BY DEF TypeInv, HistoryOK
<1>2. ASSUME NEW x, unanswered' = [unanswered EXCEPT ![x] = @ + 1]
      PROVE  unanswered'[i] \in {unanswered[i], unanswered[i] + 1}
  BY <1>1, <1>2
<1>3. UNCHANGED unanswered \/ \E x : unanswered' = [unanswered EXCEPT ![x] = @ + 1]
  <2>1. CASE Renderers
    BY <2>1 DEF Renderers, Reserve, Enqueue, Cancel, AutoActivate, OperatorActivate, Activate,
                DirectPrompt, Interrupt
  <2>2. CASE HandleStart \/ HandleSteer \/ HandleInterrupt
    BY <2>2 DEF HandleStart, HandleSteer, HandleInterrupt
  <2>3. ASSUME NEW t \in tasks,
               \/ TaskAccepted(t) \/ MarkRead(t) \/ MarkWrite(t) \/ StartFailed(t)
               \/ SteerFailed(t) \/ SteerFoundNoTurn(t)
        PROVE  UNCHANGED unanswered
    BY <2>3 DEF TaskAccepted, MarkRead, MarkWrite, StartFailed, SteerFailed, SteerFoundNoTurn
  <2>4. ASSUME NEW t \in tasks, GiveUp(t)
        PROVE  UNCHANGED unanswered \/ \E x : unanswered' = [unanswered EXCEPT ![x] = @ + 1]
    BY <2>4 DEF GiveUp
  <2>5. ASSUME NEW r \in rpcs, Execute(r)
        PROVE  UNCHANGED unanswered \/ \E x : unanswered' = [unanswered EXCEPT ![x] = @ + 1]
    BY <2>5 DEF Execute
  <2>6. CASE TurnCompletes \/ Ingest \/ Restart \/ RecoverStarts \/ ListSessions
    BY <2>6 DEF TurnCompletes, Ingest, Restart, RecoverStarts, ListSessions
  <2>7. CASE Reconcile
    BY <2>7 DEF Reconcile
  <2>8. CASE UNCHANGED vars
    BY <2>8 DEF vars
  <2> QED
    BY <2>1, <2>2, <2>3, <2>4, <2>5, <2>6, <2>7, <2>8 DEF Next, Reactor, Daemon, Startup
<1> QED
  BY <1>1, <1>2, <1>3

\* What takes the head's handoff away: a failure of its task, or a release
\* that nobody answered.
LEMMA HeadStays ==
    ASSUME WorkInv, WorkInv', QueueStep, [Next]_vars, NEW i \in Items, Has(i)',
           Head1.id = i, NEW a \in Nat, HandedOff(a)
    PROVE  \/ HandedOff(a)'
           \/ \E t \in tasks : t.act = a /\ t.stage \in {"refused", "failed"}
           \/ unanswered'[i] = unanswered[i] + 1
<1>i. /\ queue \in Seq(QueueItem) /\ queue # <<>> /\ 1 \in DOMAIN queue
      /\ queue[1].status = "handoff" /\ queue[1].act = a
  BY DEF WorkInv, TypeInv, QueueInv, HandedOff, Head1
<1>1. ASSUME queue' = queue PROVE HandedOff(a)'
  BY <1>1 DEF HandedOff, Head1
\* once accepted, the follow-up is out of the queue
<1>a. ASSUME NEW act, Accept(act) PROVE HandedOff(a)'
  <2>1. CASE queue' = queue
    BY <2>1, <1>1
  <2>2. CASE queue' = Tail(queue)
    <3>1. PICK k \in DOMAIN queue' : queue'[k].id = i
      BY DEF Has
    <3>2. k + 1 \in DOMAIN queue /\ k + 1 # 1 /\ queue'[k] = queue[k + 1]
      BY <2>2, <1>i, <3>1
    <3>3. queue[k + 1].id = queue[1].id
      BY <3>1, <3>2 DEF Head1
    <3> QED
      BY <1>i, <3>2, <3>3 DEF WorkInv, QueueNames
  <2> QED
    BY <1>a, <2>1, <2>2 DEF Accept
<1>2. ASSUME NEW j \in Items, Reserve(j) PROVE HandedOff(a)'
  <2>1. \E x : queue' = Append(queue, x)
    BY <1>2 DEF Reserve
  <2>2. queue'[1] = queue[1] /\ queue' # <<>>
    BY <2>1, <1>i
  <2> QED
    BY <2>2 DEF HandedOff, Head1
<1>3. ASSUME NEW k \in DOMAIN queue, Enqueue(k) PROVE HandedOff(a)'
  <2>1. k # 1 /\ queue' = [queue EXCEPT ![k].status = "queued"]
    BY <1>3, <1>i DEF Enqueue
  <2>2. queue'[1] = queue[1] /\ queue' # <<>>
    BY <2>1, <1>i
  <2> QED
    BY <2>2 DEF HandedOff, Head1
<1>4. ASSUME NEW k \in DOMAIN queue, Cancel(k) PROVE HandedOff(a)'
  <2>1. /\ k # 1 /\ k \in Nat /\ k > 1
        /\ queue' = SubSeq(queue, 1, k - 1) \o SubSeq(queue, k + 1, Len(queue))
    BY <1>4, <1>i DEF Cancel
  <2>2. queue' \in Seq(QueueItem) /\ queue' # <<>>
    BY DEF Has, WorkInv, TypeInv, QueueInv
  <2>3. 1 \in DOMAIN queue'
    BY <2>2
  <2>4. queue'[1] = queue[1]
    BY <2>1, <2>3, <1>i, RemoveOne
  <2> QED
    BY <2>2, <2>4, <1>i DEF HandedOff, Head1
<1>5. ASSUME NEW mode, Activate(mode) PROVE FALSE
  BY <1>5, <1>i DEF Activate, CanActivate, Head1
<1>6. CASE DirectPrompt \/ Interrupt \/ HandleStart \/ HandleSteer \/ HandleInterrupt
  <2>1. queue' = queue
    BY <1>6 DEF DirectPrompt, Interrupt, HandleStart, HandleSteer, HandleInterrupt, readModel
  <2> QED
    BY <2>1, <1>1
<1>7. ASSUME NEW t \in tasks, MarkRead(t) \/ MarkWrite(t) \/ SteerFoundNoTurn(t) \/ GiveUp(t)
      PROVE  HandedOff(a)'
  <2>1. queue' = queue
    BY <1>7 DEF MarkRead, MarkWrite, SteerFoundNoTurn, GiveUp, readModel
  <2> QED
    BY <2>1, <1>1
<1>8. ASSUME NEW t \in tasks, TaskAccepted(t) PROVE HandedOff(a)'
  BY <1>8, <1>a DEF TaskAccepted
<1>9. ASSUME NEW t \in tasks, StartFailed(t) \/ SteerFailed(t)
      PROVE  HandedOff(a)' \/ (t.act = a /\ t.stage \in {"refused", "failed"})
  <2>1. Release(t.act) /\ t.stage \in {"refused", "failed"}
    BY <1>9 DEF StartFailed, SteerFailed
  <2>2. CASE HandedOff(t.act)
    BY <2>1, <2>2, <1>i DEF HandedOff, Head1
  <2>3. CASE ~HandedOff(t.act)
    BY <2>1, <2>3, <1>1 DEF Release
  <2> QED
    BY <2>2, <2>3
<1>10. CASE Daemon \/ Ingest \/ Restart \/ RecoverStarts \/ ListSessions
  <2>1. queue' = queue
    BY <1>10 DEF Daemon, TurnCompletes, Execute, Ingest, Restart, RecoverStarts, ListSessions,
                 readModel
  <2> QED
    BY <2>1, <1>1
<1>11. CASE Reconcile
  <2>1. \/ queue' = queue
        \/ Accept(Head1.act)
        \/ unanswered' = [unanswered EXCEPT ![Head1.id] = @ + 1]
    BY <1>11 DEF Reconcile
  <2>2. unanswered \in [Items -> Nat]
    BY DEF WorkInv, TypeInv, HistoryOK
  <2> QED
    BY <2>1, <2>2, <1>1, <1>a
<1>12. CASE UNCHANGED vars
  <2>1. queue' = queue
    BY <1>12 DEF vars, readModel
  <2> QED
    BY <2>1, <1>1
<1> QED
  BY <1>2, <1>3, <1>4, <1>5, <1>6, <1>7, <1>8, <1>9, <1>10, <1>11, <1>12
  DEF Next, Renderers, AutoActivate, OperatorActivate, Reactor, Startup

\* A credit is lost when a handoff is given up, or its call is refused.
LEMMA TryingSteps ==
    ASSUME WorkInv, WorkInv', QueueStep, JobStep, [Next]_vars, NEW i \in Items, Trying(i)
    PROVE  \/ Trying(i)'
           \/ unanswered'[i] = unanswered[i] + 1
           \/ \E r \in rpcs, answer \in Answers, heard \in BOOLEAN :
                 /\ Executes(r, answer, heard)
                 /\ r.id = i /\ answer \in {"refused", "failed"}
<1>i. /\ Named /\ QueueInv /\ tasks \subseteq Task /\ unanswered \in [Items -> Nat]
      /\ queue \in Seq(QueueItem) /\ i # Direct
  BY FollowUpsAssumption DEF WorkInv, TypeInv, QueueInv, TasksOK, HistoryOK
<1>1. CASE i \in seen /\ ~Has(i)
  <2>1. i \in seen' /\ ~Has(i)'
    BY <1>1 DEF QueueStep
  <2> QED
    BY <2>1 DEF Trying
<1>2. CASE /\ Has(i) /\ Head1.id = i /\ Head1.status = "handoff"
           /\ \A t \in tasks : t.act = Head1.act => t.stage \notin {"refused", "failed"}
  <2>1. queue # <<>> /\ i \in seen' /\ Head1.act \in Nat
    BY <1>2, <1>i, HeadItem DEF Has, QueueStep, WorkInv, QueueNames
  <2>2. PICK a \in Nat : a = Head1.act
    BY <2>1
  <2>3. HandedOff(a) /\ \A t \in tasks : t.act = a => t.stage \notin {"refused", "failed"}
    BY <1>2, <2>1, <2>2 DEF HandedOff
  <2>4. CASE ~Has(i)'
    BY <2>1, <2>4 DEF Trying
  <2>5. CASE Has(i)' /\ ~HandedOff(a)'
    BY <1>2, <2>3, <2>5, HeadStays
  <2>6. CASE Has(i)' /\ HandedOff(a)'
    <3>1. (Head1.id)' = i /\ (Head1.act)' = a /\ (Head1.status)' = "handoff"
      BY <1>2, <2>6 DEF QueueStep, HandedOff
    <3>2. CASE \A u \in tasks' : u.act = a => u.stage \notin {"refused", "failed"}
      BY <2>6, <3>1, <3>2 DEF Trying
    <3>3. ASSUME NEW u \in tasks', u.act = a, u.stage \in {"refused", "failed"}
          PROVE  \/ unanswered'[i] = unanswered[i] + 1
                 \/ \E r \in rpcs, answer \in Answers, heard \in BOOLEAN :
                       /\ Executes(r, answer, heard)
                       /\ r.id = i /\ answer \in {"refused", "failed"}
      <4>1. u \notin tasks
        BY <2>3, <3>3
      <4>2. ASSUME NEW t \in tasks, NEW v \in Task, GoesOn(t, v) \/ SentAgain(t, v)
            PROVE  unanswered'[i] = unanswered[i] + 1
        <5>1. u = v /\ t.act = a
          BY <4>1, <4>2, <3>3 DEF GoesOn, SentAgain, Answered
        <5>2. t.id = i
          BY <5>1, <1>2, <1>i, <2>3, TaskIsWork
        <5>3. unanswered' = [unanswered EXCEPT ![t.id] = @ + 1]
          BY <4>2, <3>3, <5>1, <5>2, <1>i DEF GoesOn, SentAgain
        <5> QED
          BY <5>2, <5>3, <1>i
      <4>3. ASSUME NEW r \in rpcs, NEW answer \in Answers, NEW heard \in BOOLEAN,
                   Executes(r, answer, heard)
            PROVE  \/ unanswered'[i] = unanswered[i] + 1
                   \/ r.id = i /\ answer \in {"refused", "failed"}
        <5>1. PICK t \in tasks : u = After(t, r, answer, heard)
          BY <4>3, <3>3 DEF Executes
        <5>2. t \in Task
          BY <1>i
        <5>3. t \in Waiting(r) /\ t.act = a
          BY <4>1, <3>3, <5>1, <5>2, AfterFacts
        <5>4. t.id = i /\ r.id = i
          BY <5>3, <1>2, <1>i, <2>3, TaskIsWork DEF Waiting, Call
        <5>5. CASE heard
          <6>1. u.stage = answer
            BY <5>1, <5>2, <5>3, <5>5, AfterFacts
          <6> QED
            BY <6>1, <3>3, <5>4
        <5>6. CASE ~heard
          <6>1. unanswered' = [unanswered EXCEPT ![r.id] = @ + 1]
            BY <4>3, <5>4, <5>6, <1>i DEF Executes
          <6> QED
            BY <6>1, <5>4, <1>i
        <5> QED
          BY <5>5, <5>6
      <4>4. ASSUME NEW t \in tasks, Leaves(t) PROVE FALSE
        BY <4>1, <4>4 DEF Leaves, Ends
      <4>5. ASSUME NEW task \in Task, Begins(task) PROVE FALSE
        BY <4>1, <4>5, <3>3 DEF Begins, Start
      <4> QED
        BY <4>1, <4>2, <4>3, <4>4, <4>5 DEF JobStep, Asks, AsksStop, Drops, Lost
    <3> QED
      BY <3>2, <3>3
  <2> QED
    BY <2>4, <2>5, <2>6
<1> QED
  BY <1>1, <1>2 DEF Trying

LEMMA CreditKept ==
    ASSUME WorkInv, WorkInv', QueueStep, JobStep, [Next]_vars, Credit
    PROVE  Credit'
<1> SUFFICES ASSUME NEW i \in Items
             PROVE  delivered'[i] + Cardinality(Open(i)')
                      <= unanswered'[i] + IF Trying(i)' THEN 1 ELSE 0
  BY DEF Credit
<1>i. /\ TypeInv /\ Named /\ clock \in Nat /\ clock' \in Nat /\ now = clock + 1
  BY DEF WorkInv, TypeInv, QueueInv, now
<1> DEFINE c == Cardinality(Open(i))
           c2 == Cardinality(Open(i)')
           NoMore == delivered'[i] + c2 <= delivered[i] + c
                       /\ (Trying(i) => Trying(i)' \/ unanswered'[i] = unanswered[i] + 1)
           OneMore == delivered'[i] + c2 <= delivered[i] + c + 1 /\ ~Trying(i) /\ Trying(i)'
           OneLess == delivered'[i] + c2 + 1 <= delivered[i] + c
<1>f. IsFiniteSet(Open(i)) /\ c \in Nat /\ IsFiniteSet(Open(i)') /\ c2 \in Nat
  <2>1. Open(i) \in SUBSET (1..clock) /\ Open(i)' \in SUBSET (1..clock')
    BY DEF Open
  <2> QED
    BY <2>1, <1>i, SmallSets
<1>d. /\ delivered[i] \in Nat /\ delivered'[i] \in Nat
      /\ unanswered[i] \in Nat /\ unanswered'[i] \in Nat /\ unanswered'[i] >= unanswered[i]
  BY <1>i, DeliveredGrows, UnansweredGrows
<1> DEFINE T == IF Trying(i) THEN 1 ELSE 0
           T2 == IF Trying(i)' THEN 1 ELSE 0
<1>t. T \in {0, 1} /\ T2 \in {0, 1} /\ (Trying(i) <=> T = 1) /\ (Trying(i)' <=> T2 = 1)
  OBVIOUS
<1>c. delivered[i] + c <= unanswered[i] + T
  BY DEF Credit
<1>o. \A a : Owes(i, a) => a \in Open(i)
  BY <1>i, OwesIsWork DEF Open
<1>s. \A S \in SUBSET Open(i) : Cardinality(S) <= c
  BY <1>f, FS_Subset
<1> SUFFICES NoMore \/ OneMore \/ OneLess
  <2>1. ASSUME NoMore PROVE delivered'[i] + c2 <= unanswered'[i] + T2
    <3>1. delivered'[i] + c2 <= delivered[i] + c /\ (T = 0 \/ T2 = 1 \/ unanswered'[i] = unanswered[i] + 1)
      BY <2>1, <1>t
    <3> HIDE DEF c, c2, T, T2
    <3> QED BY <3>1, <1>f, <1>d, <1>t, <1>c
  <2>2. ASSUME OneMore PROVE delivered'[i] + c2 <= unanswered'[i] + T2
    <3>1. delivered'[i] + c2 <= delivered[i] + c + 1 /\ T = 0 /\ T2 = 1
      BY <2>2, <1>t
    <3> HIDE DEF c, c2, T, T2
    <3> QED BY <3>1, <1>f, <1>d, <1>t, <1>c
  <2>3. ASSUME OneLess PROVE delivered'[i] + c2 <= unanswered'[i] + T2
    <3>1. delivered'[i] + c2 + 1 <= delivered[i] + c
      BY <2>3
    <3> HIDE DEF c, c2, T, T2
    <3> QED BY <3>1, <1>f, <1>d, <1>t, <1>c
  <2> QED
    BY <2>1, <2>2, <2>3
\* the calls that are executed
<1>1. ASSUME NEW r \in rpcs, NEW answer \in Answers, NEW heard \in BOOLEAN,
             Executes(r, answer, heard)
      PROVE  /\ delivered'[i] = delivered[i] \/
                  (answer = "ok" /\ r.id = i /\ delivered'[i] = delivered[i] + 1)
             /\ r.id = i /\ ~(answer = "noTurn" /\ heard) => c2 + 1 <= c
  <2>1. ASSUME r.id = i, ~(answer = "noTurn" /\ heard) PROVE c2 + 1 <= c
    <3>1. r.act \in Open(i)
      BY <2>1, <1>o DEF Owes
    <3>2. Open(i)' \subseteq Open(i) \ {r.act}
      <4> SUFFICES ASSUME NEW a \in Open(i)' PROVE a \in Open(i) /\ a # r.act
        OBVIOUS
      <4>1. Owes(i, a)'
        BY DEF Open
      <4>2. a # r.act
        BY <4>1, <1>1, <2>1, ExecutedIsOver
      <4>3. rpcs' = rpcs \ {r} /\ requests' = requests
        BY <1>1 DEF Executes
      <4>4. Owes(i, a) \/ \E mode \in Modes : Activate(mode)
        BY <4>1, OwesSteps
      <4>5. ASSUME NEW mode, Activate(mode) PROVE FALSE
        <5>1. rpcs' = rpcs
          BY <4>5 DEF Activate
        <5> QED
          BY <4>3, <5>1
      <4> QED
        BY <4>2, <4>4, <4>5, <1>o
    <3>3. IsFiniteSet(Open(i) \ {r.act}) /\ Cardinality(Open(i) \ {r.act}) = c - 1
      BY <3>1, <1>f, FS_RemoveElement
    <3>4. c2 <= Cardinality(Open(i) \ {r.act})
      BY <3>2, <3>3, FS_Subset
    <3> QED
      BY <3>3, <3>4, <1>f
  <2> QED
    BY <1>1, <2>1, <1>i, ExecutedDelivers
\* no more is owed, but by an activation
<1>2. Open(i)' \subseteq Open(i) => c2 <= c
  BY <1>s
<1>3. \/ Open(i)' \subseteq Open(i)
      \/ /\ Open(i)' \subseteq Open(i) \cup {now} /\ Head1.id = i /\ queue # <<>>
         /\ \E mode \in Modes : Activate(mode)
  <2>1. \A a \in Open(i)' :
           \/ a \in Open(i)
           \/ a = now /\ Head1.id = i /\ queue # <<>> /\ \E mode \in Modes : Activate(mode)
    BY OwesSteps, <1>o DEF Open
  <2> QED
    BY <2>1
<1>4. ASSUME NEW mode \in Modes, Activate(mode), Head1.id = i, queue # <<>>,
             Open(i)' \subseteq Open(i) \cup {now}
      PROVE  OneMore
  <2>1. UNCHANGED delivered
    BY <1>4 DEF Activate, runtime
  <2>2. c2 <= c + 1
    <3>0. /\ IsFiniteSet(Open(i) \cup {now})
          /\ Cardinality(Open(i) \cup {now}) = IF now \in Open(i) THEN c ELSE c + 1
      BY <1>f, FS_AddElement
    <3>1. IsFiniteSet(Open(i) \cup {now}) /\ Cardinality(Open(i) \cup {now}) <= c + 1
      <4> HIDE DEF c
      <4> QED BY <3>0, <1>f
    <3>2. c2 <= Cardinality(Open(i) \cup {now})
      BY <3>1, <1>4, FS_Subset
    <3>3. Cardinality(Open(i) \cup {now}) \in Nat
      BY <3>1, FS_CardinalityType
    <3> QED
      BY <3>1, <3>2, <3>3, <1>f
  <2>3. queue \in Seq(QueueItem) /\ 1 \in DOMAIN queue /\ queue[1] \in QueueItem
        /\ queue[1].id = i /\ Has(i)
    BY <1>4 DEF WorkInv, TypeInv, QueueInv, Head1, Has
  <2>4. ~Trying(i)
    BY <1>4, <2>3 DEF Trying, Activate, CanActivate
  <2>5. queue' = [queue EXCEPT ![1].status = "handoff", ![1].act = now] /\ tasks' = tasks
    BY <1>4 DEF Activate
  <2>6. queue'[1].status = "handoff" /\ queue'[1].act = now /\ queue'[1].id = i
        /\ 1 \in DOMAIN queue'
    BY <2>3, <2>5 DEF QueueItem
  <2>7. \A t \in tasks : t.act # now
    BY <1>i, TaskIsWork
  <2>8. Trying(i)'
    BY <2>5, <2>6, <2>7 DEF Trying, Has, Head1
  <2> HIDE DEF c, c2
  <2> QED
    BY <2>1, <2>2, <2>4, <2>8, <1>d, <1>f
<1>5. ASSUME Open(i)' \subseteq Open(i) PROVE NoMore \/ OneLess
  <2>1. c2 <= c
    BY <1>5, <1>2
  <2>2. CASE \E r \in rpcs, answer \in Answers, heard \in BOOLEAN :
                /\ Executes(r, answer, heard)
                /\ r.id = i /\ answer \in {"refused", "failed"}
    <3>1. PICK r \in rpcs, answer \in Answers, heard \in BOOLEAN :
             /\ Executes(r, answer, heard)
             /\ r.id = i /\ answer \in {"refused", "failed"}
      BY <2>2
    <3>2. delivered'[i] = delivered[i] /\ c2 + 1 <= c
      BY <3>1, <1>1
    <3> HIDE DEF c, c2
    <3> QED
      BY <3>2, <1>d, <1>f
  <2>3. CASE ~\E r \in rpcs, answer \in Answers, heard \in BOOLEAN :
                /\ Executes(r, answer, heard)
                /\ r.id = i /\ answer \in {"refused", "failed"}
    <3>1. Trying(i) => Trying(i)' \/ unanswered'[i] = unanswered[i] + 1
      BY <2>3, TryingSteps
    <3>2. delivered'[i] + c2 <= delivered[i] + c
      <4>1. CASE UNCHANGED delivered
        <5> HIDE DEF c, c2
        <5> QED BY <4>1, <2>1, <1>d, <1>f
      <4>2. ASSUME NEW r \in rpcs, Execute(r) PROVE delivered'[i] + c2 <= delivered[i] + c
        <5>1. PICK answer \in Answers, heard \in BOOLEAN : Executes(r, answer, heard)
          BY <4>2, ExecutesIt
        <5>2. /\ delivered'[i] = delivered[i] \/
                    (answer = "ok" /\ r.id = i /\ delivered'[i] = delivered[i] + 1)
              /\ r.id = i /\ ~(answer = "noTurn" /\ heard) => c2 + 1 <= c
          BY <5>1, <1>1
        <5> HIDE DEF c, c2
        <5> QED
          BY <5>2, <2>1, <1>d, <1>f
      <4> QED
        BY <4>1, <4>2, <1>i, Delivering
    <3> QED
      BY <3>1, <3>2
  <2> QED
    BY <2>2, <2>3
<1> QED
  BY <1>3, <1>4, <1>5

\* The provider gets a follow-up at most once more than the number of its
\* handoffs that were given up without an answer: for any number of
\* follow-ups, sends, turns, lost answers and restarts.
THEOREM DeliveredOnceUnlessUnanswered == Spec => []OnceUnlessUnanswered
<1>1. Init /\ TypeInv => Credit
  <2> SUFFICES ASSUME Init, TypeInv, NEW i \in Items
               PROVE  delivered[i] + Cardinality(Open(i))
                        <= unanswered[i] + IF Trying(i) THEN 1 ELSE 0
    BY DEF Credit
  <2>1. Open(i) = {}
    BY DEF Init, Open, Owes, PromptsAt
  <2>2. Cardinality(Open(i)) = 0
    BY <2>1, FS_EmptySet
  <2>3. delivered[i] = 0 /\ unanswered[i] = 0
    BY DEF Init
  <2> QED
    BY <2>2, <2>3
<1>2. WorkInv /\ WorkInv' /\ [Next]_vars /\ Credit => Credit'
  <2> SUFFICES ASSUME WorkInv, WorkInv', [Next]_vars, Credit PROVE Credit'
    OBVIOUS
  <2>1. QueueStep /\ JobStep
    BY WorkInvStep DEF WorkInv
  <2> QED
    BY <2>1, CreditKept
<1>3. WorkInv /\ Credit => OnceUnlessUnanswered
  <2> SUFFICES ASSUME WorkInv, Credit, NEW i \in Items PROVE delivered[i] <= 1 + unanswered[i]
    BY DEF OnceUnlessUnanswered
  <2>1. Open(i) \in SUBSET (1..clock) /\ clock \in Nat
    BY DEF Open, WorkInv, TypeInv, QueueInv
  <2>2. Cardinality(Open(i)) \in Nat
    BY <2>1, SmallSets
  <2>3. delivered[i] \in Nat /\ unanswered[i] \in Nat
    BY DEF WorkInv, TypeInv, HistoryOK
  <2>4. delivered[i] + Cardinality(Open(i)) <= unanswered[i] + IF Trying(i) THEN 1 ELSE 0
    BY DEF Credit
  <2>5. CASE Trying(i)
    BY <2>2, <2>3, <2>4, <2>5
  <2>6. CASE ~Trying(i)
    BY <2>2, <2>3, <2>4, <2>6
  <2> QED
    BY <2>5, <2>6
<1>4. WorkInv => TypeInv
  BY DEF WorkInv
<1> QED
  BY <1>1, <1>2, <1>3, <1>4, WorkInvInductive, PTL DEF Spec

=============================================================================
