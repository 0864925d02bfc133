--------------------------- MODULE SubscriptionHub ---------------------------
(***************************************************************************)
(* The fan-out of orchestration events to websocket subscriptions.  Two    *)
(* fibers produce: one polls the event store, one listens to the engine's  *)
(* stream; they share the tail cursor so that each event is claimed once.  *)
(* A published event goes into a bounded ring and into the bounded queue   *)
(* of every subscriber it is routed to, where a replaceable update takes   *)
(* the place of a queued one with the same key.  A new subscriber replays  *)
(* from the ring, or from the store when the ring no longer reaches back.  *)
(*                                                                         *)
(* An event is its position in the log; its kind is all that is kept of    *)
(* its content.  The byte limits are left out: they act like the limits on *)
(* the number of events.  Both fibers run from the start.                  *)
(***************************************************************************)
EXTENDS Integers, Sequences

CONSTANTS
  Subscribers,  \* subscriptions, each opened once and all on one route
  Keys,         \* replaceable identities: a streaming message, a thread's session
  Protected,    \* kind of an event that is never replaced
  Elsewhere,    \* kind of an event of another route
  Unkeyed,      \* the key of a protected entry
  RingMax,      \* subscriptionReplayMaxEvents (2048)
  QueueMax,     \* subscriptionQueueMaxEvents (512)
  ReadLimit,    \* readEvents' default limit (1000)
  Schedulers,   \* the schedulers considered: TRUE for one that may suspend a
                \* fiber (after 2048 operations) between its cursor update and its
                \* last delivery, FALSE for one that never does
  MaxLog        \* bound of the model: events ever appended

ASSUME HubAssumption ==
  /\ {RingMax, QueueMax, ReadLimit} \subseteq Nat \ {0}
  /\ MaxLog \in Nat
  /\ Schedulers \subseteq BOOLEAN /\ Schedulers # {}
  /\ Protected \notin Keys /\ Elsewhere \notin Keys /\ Protected # Elsewhere
  /\ Unkeyed \notin Nat \X Keys

VARIABLES
  preempts,   \* the scheduler of this behaviour
  log,        \* the event store: the kind of each event
  announced,  \* events the engine has published on its stream
  heard,      \* of those, the events the listening fiber has taken
  tail,       \* tailCursorRef
  polled,     \* last event of the poll's read, 0 when it sleeps
  todo,       \* events a fiber has claimed and not begun to publish
  carried,    \* the event a fiber is delivering, 0 for none
  targets,    \* subscribers it still has to reach
  cursor,     \* last event published
  ring,       \* replayRing
  shown,      \* history: events published
  status,     \* of each subscription
  from,       \* fromSequenceExclusive
  caught,     \* capturedCursor where the store is replayed, 0 where the ring is
  replay,     \* events still to be replayed
  queue,      \* entries [at, key]
  epoch,      \* coalescingEpoch
  received    \* history: events handed to the client

store == <<preempts, log, announced>>
producers == <<heard, tail, polled, todo, carried, targets>>
hub == <<cursor, ring, shown>>
subscription == <<status, from, caught, replay, queue, epoch, received>>
vars == <<store, producers, hub, subscription>>

Fibers == {"poll", "listen"}
Kinds == Keys \cup {Protected, Elsewhere}
Entry == [at : Nat, key : (Nat \X Keys) \cup {Unkeyed}]

TypeOK ==
  /\ preempts \in Schedulers
  /\ log \in Seq(Kinds)
  /\ heard \in 0 .. announced /\ announced \in 0 .. Len(log)
  /\ tail \in 0 .. Len(log) /\ polled \in 0 .. Len(log) /\ cursor \in 0 .. tail
  /\ todo \in [Fibers -> Seq(Nat)]
  /\ carried \in [Fibers -> Nat]
  /\ targets \in [Fibers -> SUBSET Subscribers]
  /\ ring \in Seq(Nat) /\ Len(ring) <= RingMax
  /\ shown \subseteq 1 .. cursor
  /\ status \in [Subscribers -> {"new", "open", "overflowed", "failed", "closed"}]
  /\ from \in [Subscribers -> Nat]
  /\ caught \in [Subscribers -> 0 .. cursor]
  /\ replay \in [Subscribers -> Seq(Nat)]
  /\ queue \in [Subscribers -> Seq(Entry)]
  /\ \A s \in Subscribers : Len(queue[s]) <= QueueMax
  /\ epoch \in [Subscribers -> Nat]
  /\ received \in [Subscribers -> Seq(Nat)]

Init ==
  /\ preempts \in Schedulers
  /\ log = <<>> /\ announced = 0 /\ heard = 0 /\ tail = 0 /\ polled = 0
  /\ todo = [f \in Fibers |-> <<>>]
  /\ carried = [f \in Fibers |-> 0]
  /\ targets = [f \in Fibers |-> {}]
  /\ cursor = 0 /\ ring = <<>> /\ shown = {}
  /\ status = [s \in Subscribers |-> "new"]
  /\ from = [s \in Subscribers |-> 0]
  /\ caught = [s \in Subscribers |-> 0]
  /\ replay = [s \in Subscribers |-> <<>>]
  /\ queue = [s \in Subscribers |-> <<>>]
  /\ epoch = [s \in Subscribers |-> 0]
  /\ received = [s \in Subscribers |-> <<>>]

-----------------------------------------------------------------------------
Busy(f) == todo[f] # <<>> \/ targets[f] # {}

\* Nothing runs inside a fiber's batch unless the scheduler may preempt it.
MayRun(others) == preempts \/ \A f \in others : ~Busy(f)

Interval(a, b) == [i \in 1 .. b - a |-> a + i]
Routed(e) == log[e] # Elsewhere

\* The engine commits an event ...
Store(kind) ==
  /\ MayRun(Fibers)
  /\ Len(log) < MaxLog
  /\ log' = Append(log, kind)
  /\ UNCHANGED <<preempts, announced, producers, hub, subscription>>

\* ... and publishes it after.
Announce ==
  /\ MayRun(Fibers)
  /\ announced < Len(log)
  /\ announced' = announced + 1
  /\ UNCHANGED <<preempts, log, producers, hub, subscription>>

\* The poll reads past the tail cursor.
PollRead ==
  /\ MayRun(Fibers) /\ ~Busy("poll")
  /\ polled = 0 /\ tail < Len(log)
  /\ polled' = IF tail + ReadLimit < Len(log) THEN tail + ReadLimit ELSE Len(log)
  /\ UNCHANGED <<store, heard, tail, todo, carried, targets, hub, subscription>>

Fresh_SkipsOne == Interval(tail + 1, polled)

\* Of what was read, the events the listener has not claimed meanwhile.
Fresh == Interval(tail, polled)

PollClaim ==
  /\ MayRun(Fibers) /\ polled # 0
  /\ todo' = [todo EXCEPT !["poll"] = Fresh]
  /\ tail' = IF polled > tail THEN polled ELSE tail
  /\ polled' = 0
  /\ UNCHANGED <<store, heard, carried, targets, hub, subscription>>

\* The listener takes the next event of the stream and claims it if it is new.
ListenClaim ==
  /\ MayRun(Fibers) /\ ~Busy("listen")
  /\ heard < announced
  /\ heard' = heard + 1
  /\ IF heard' <= tail
     THEN UNCHANGED <<tail, todo>>
     ELSE /\ tail' = heard'
          /\ todo' = [todo EXCEPT !["listen"] = <<heard'>>]
  /\ UNCHANGED <<store, polled, carried, targets, hub, subscription>>

PushRing_Unbounded(e) == Append(ring, e)

PushRing(e) == IF Len(ring) = RingMax THEN Append(Tail(ring), e) ELSE Append(ring, e)

\* publish, up to the loop over subscribers: an event at or below the hub's
\* cursor is dropped, any other enters the ring.
PublishNext(f) ==
  /\ MayRun(Fibers \ {f})
  /\ todo[f] # <<>> /\ targets[f] = {}
  /\ todo' = [todo EXCEPT ![f] = Tail(@)]
  /\ LET e == Head(todo[f]) IN
     IF e > cursor
     THEN /\ cursor' = e
          /\ shown' = shown \cup {e}
          /\ ring' = PushRing(e)
          /\ targets' = [targets EXCEPT ![f] =
                           {s \in Subscribers : status[s] = "open" /\ Routed(e)}]
          /\ carried' = [carried EXCEPT ![f] = IF targets'[f] = {} THEN 0 ELSE e]
     ELSE UNCHANGED <<carried, targets, hub>>
  /\ UNCHANGED <<store, heard, tail, polled, subscription>>

-----------------------------------------------------------------------------
KeyOf_OneEpoch(s, e) == IF log[e] = Protected THEN Unkeyed ELSE <<0, log[e]>>

KeyOf(s, e) == IF log[e] = Protected THEN Unkeyed ELSE <<epoch[s], log[e]>>

\* A queued update with the same key takes the new event's content.
Coalesce_KeepsOld(s, i, e) == UNCHANGED queue

Coalesce(s, i, e) == queue' = [queue EXCEPT ![s][i].at = e]

\* A protected entry ends the epoch: nothing later moves ahead of it.
Enqueue(s, e) ==
  /\ queue' = [queue EXCEPT ![s] = Append(@, [at |-> e, key |-> KeyOf(s, e)])]
  /\ epoch' = [epoch EXCEPT ![s] = IF log[e] = Protected THEN @ + 1 ELSE @]
  /\ UNCHANGED status

\* The subscriber is too slow: its queue is shut down and what it held is lost.
Overflow(s) ==
  /\ status' = [status EXCEPT ![s] = "overflowed"]
  /\ queue' = [queue EXCEPT ![s] = <<>>]
  /\ UNCHANGED epoch

\* One turn of the loop over subscribers.
Deliver(f, s) ==
  /\ MayRun(Fibers \ {f})
  /\ s \in targets[f]
  /\ targets' = [targets EXCEPT ![f] = @ \ {s}]
  /\ carried' = [carried EXCEPT ![f] = IF targets'[f] = {} THEN 0 ELSE @]
  /\ LET e == carried[f]
         same == {i \in DOMAIN queue[s] : queue[s][i].key = KeyOf(s, e)}
     IN \/ status[s] # "open" /\ UNCHANGED <<status, queue, epoch>>
        \/ /\ status[s] = "open" /\ log[e] # Protected
           /\ \E i \in same : Coalesce(s, i, e)
           /\ UNCHANGED <<status, epoch>>
        \/ /\ status[s] = "open" /\ (log[e] = Protected \/ same = {})
           /\ IF Len(queue[s]) >= QueueMax THEN Overflow(s) ELSE Enqueue(s, e)
  /\ UNCHANGED <<store, heard, tail, polled, todo, hub, from, caught, replay, received>>

-----------------------------------------------------------------------------
OldestInRing == IF ring = <<>> THEN cursor + 1 ELSE Head(ring)

RingReaches_OneShort(n) == n + 2 >= OldestInRing

RingReaches(n) == n + 1 >= OldestInRing

FromStore_BeforeCursor(n) ==
  Interval(n, IF n + ReadLimit < cursor THEN n + ReadLimit ELSE cursor - 1)

\* readEvents, up to the cursor captured at registration.
FromStore(n) == Interval(n, IF n + ReadLimit < cursor THEN n + ReadLimit ELSE cursor)

\* The elements of a sequence that are in keep.
Kept(seq, keep) ==
  LET kept[i \in 0 .. Len(seq)] ==
        IF i = 0 THEN <<>>
        ELSE IF seq[i] \in keep THEN Append(kept[i - 1], seq[i]) ELSE kept[i - 1]
  IN kept[Len(seq)]

Replay_StoreThenRing(n) ==
  Kept(IF RingReaches(n) THEN ring ELSE FromStore(n) \o ring,
       {e \in n + 1 .. Len(log) : Routed(e)})

\* The routed events after n, from the ring or from the store.
Replay(n) ==
  Kept(IF RingReaches(n) THEN ring ELSE FromStore(n),
       {e \in n + 1 .. Len(log) : Routed(e)})

\* eventsFrom: the client read a snapshot at n before, and the subscriber is
\* registered and the ring copied in one go.
Subscribe(s, n) ==
  /\ MayRun(Fibers)
  /\ status[s] = "new" /\ n \in 0 .. Len(log)
  /\ status' = [status EXCEPT ![s] = "open"]
  /\ from' = [from EXCEPT ![s] = n]
  /\ caught' = [caught EXCEPT ![s] = IF RingReaches(n) THEN 0 ELSE cursor]
  /\ replay' = [replay EXCEPT ![s] = Replay(n)]
  /\ UNCHANGED <<store, producers, hub, queue, epoch, received>>

\* The client pulls: first the replay, then the queue.
Receive(s) ==
  /\ MayRun(Fibers)
  /\ \/ /\ status[s] \in {"open", "overflowed"} /\ replay[s] # <<>>
        /\ received' = [received EXCEPT ![s] = Append(@, Head(replay[s]))]
        /\ replay' = [replay EXCEPT ![s] = Tail(@)]
        /\ UNCHANGED queue
     \/ /\ status[s] = "open" /\ replay[s] = <<>> /\ queue[s] # <<>>
        /\ received' = [received EXCEPT ![s] = Append(@, Head(queue[s]).at)]
        /\ queue' = [queue EXCEPT ![s] = Tail(@)]
        /\ UNCHANGED replay
  /\ UNCHANGED <<store, producers, hub, status, from, caught, epoch>>

\* What a subscription held, its history included, is gone.
End(s, how) ==
  /\ status' = [status EXCEPT ![s] = how]
  /\ from' = [from EXCEPT ![s] = 0]
  /\ caught' = [caught EXCEPT ![s] = 0]
  /\ epoch' = [epoch EXCEPT ![s] = 0]
  /\ replay' = [replay EXCEPT ![s] = <<>>]
  /\ queue' = [queue EXCEPT ![s] = <<>>]
  /\ received' = [received EXCEPT ![s] = <<>>]
  /\ UNCHANGED <<store, producers, hub>>

\* overflowSignal, once the replay is through.
Fail(s) ==
  /\ MayRun(Fibers)
  /\ status[s] = "overflowed" /\ replay[s] = <<>>
  /\ End(s, "failed")

\* The client goes away: the subscriber is removed and its queue shut down.
Unsubscribe(s) ==
  /\ MayRun(Fibers)
  /\ status[s] \in {"open", "overflowed"}
  /\ End(s, "closed")

-----------------------------------------------------------------------------
Engine == (\E kind \in Kinds : Store(kind)) \/ Announce
Fiber(f) == PublishNext(f) \/ \E s \in Subscribers : Deliver(f, s)
Poll == PollRead \/ PollClaim \/ Fiber("poll")
Listen == ListenClaim \/ Fiber("listen")
Client(s) ==
  \/ \E n \in 0 .. MaxLog : Subscribe(s, n)
  \/ Receive(s) \/ Fail(s) \/ Unsubscribe(s)

Next == Engine \/ Poll \/ Listen \/ \E s \in Subscribers : Client(s)

Spec == Init /\ [][Next]_vars

\* Both producer fibers loop for as long as the server runs.
FairSpec == Spec /\ WF_vars(Poll) /\ WF_vars(Fiber("listen"))

-----------------------------------------------------------------------------
\* What a client has been or will be handed.
Stream(s) == received[s] \o replay[s] \o [i \in DOMAIN queue[s] |-> queue[s][i].at]
InStream(s, e) == \E i \in DOMAIN Stream(s) : Stream(s)[i] = e
OnTheWay(s, e) == \E f \in Fibers : s \in targets[f] /\ carried[f] = e

(***************************************************************************)
(* The join of replay and queue hands no event over twice, even when the   *)
(* two producers race and the ring had to be supplemented by the store.    *)
(***************************************************************************)
NoEventTwice ==
  \A s \in Subscribers : \A i, j \in DOMAIN Stream(s) :
    Stream(s)[i] = Stream(s)[j] => i = j

\* What a replay from the store leaves out: it is one read of readEvents, and
\* what lies between its last event and the captured cursor is never read.
Skipped(s) == from[s] + ReadLimit + 1 .. caught[s]

\* Dropped by publish: the other fiber was ahead while this one was suspended.
Overtaken(e) == preempts /\ e \in 1 .. cursor \ shown

(***************************************************************************)
(* An open subscription loses no event the hub published after its         *)
(* snapshot, unless an update with the same identity took its place or it  *)
(* lies beyond the one read a replay from the store makes.                 *)
(***************************************************************************)
PublishedArrives ==
  \A s \in Subscribers : \A e \in shown \ Skipped(s) :
    status[s] = "open" /\ e > from[s] /\ Routed(e) =>
      \/ InStream(s, e) \/ OnTheWay(s, e)
      \/ log[e] # Protected /\ \E d \in shown \ {e} : InStream(s, d) /\ log[d] = log[e]

(***************************************************************************)
(* Coalescing moves no update across a protected event, and none before    *)
(* an older one with the same identity, unless a fiber is preempted.       *)
(***************************************************************************)
ProtectedBarrier ==
  ~preempts => \A s \in Subscribers : \A i, j \in DOMAIN Stream(s) :
    /\ i < j
    /\ \/ Protected \in {log[Stream(s)[i]], log[Stream(s)[j]]}
       \/ log[Stream(s)[i]] = log[Stream(s)[j]]
    => Stream(s)[i] < Stream(s)[j]

(***************************************************************************)
(* The newest update of each identity is never the one coalescing drops,   *)
(* unless a fiber is preempted or the update lies beyond the one read of a *)
(* replay from the store.                                                  *)
(***************************************************************************)
NewestSurvives ==
  ~preempts => \A s \in Subscribers, k \in Keys : \A e \in from[s] + 1 .. cursor :
    /\ status[s] = "open" /\ log[e] = k /\ e \notin Skipped(s)
    /\ \A d \in e + 1 .. cursor : log[d] # k
    => InStream(s, e) \/ OnTheWay(s, e)

(***************************************************************************)
(* An open subscription gets every protected event after its snapshot that *)
(* the hub has passed, with two exceptions: one that a suspended fiber     *)
(* published too late, and one beyond the one read of a replay from the    *)
(* store.                                                                  *)
(***************************************************************************)
ProtectedArrive ==
  \A s \in Subscribers : \A e \in from[s] + 1 .. cursor :
    status[s] = "open" /\ log[e] = Protected =>
      InStream(s, e) \/ OnTheWay(s, e) \/ Overtaken(e) \/ e \in Skipped(s)

\* The hub passes every event of the log, even if the engine's stream is silent.
TailFollowsLog == \A n \in 1 .. MaxLog : n <= Len(log) ~> n <= cursor
=============================================================================
