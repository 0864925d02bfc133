---------------------------- MODULE EventBridge ----------------------------
(***************************************************************************)
(* How runtime events get from the provider daemon's journal into the      *)
(* backend's orchestration, and how the backend remembers where it is.     *)
(*                                                                         *)
(* RemoteProviderService reads the journal's stream past its event cursor, *)
(* reconnects for ever, and publishes each record to a bounded PubSub.     *)
(* ProviderRuntimeIngestion subscribes to it when the reactors start,      *)
(* which is after the reading began; it moves events to the queue of a     *)
(* single worker, which applies them and now and then writes the cursor to *)
(* the projection state.  A restarted backend reads from that row, less an *)
(* overlap.                                                                *)
(*                                                                         *)
(* An event is its cursor.  The journal delivers in order what is past the *)
(* position it is asked for (see EventStream); trimming is left out.       *)
(***************************************************************************)
EXTENDS Integers, Sequences

CONSTANTS
  Gaps,             \* cursors of quarantine records, which carry no event
  Overlap,          \* PROVIDER_DAEMON_REPLAY_OVERLAP_EVENTS (1000)
  PersistInterval,  \* PROVIDER_DAEMON_RUNTIME_CURSOR_PERSIST_INTERVAL (1000)
  BridgeCapacity,   \* records the PubSub holds (16)
  MaxEvents,        \* bound of the model: records ever stored
  MaxIncidents      \* bound of the model: lost connections, failed events or
                    \* writes, and ends of the process, all together

ASSUME BridgeAssumption ==
  /\ Gaps \subseteq Nat
  /\ Overlap \in Nat /\ PersistInterval \in Nat /\ MaxEvents \in Nat /\ MaxIncidents \in Nat
  /\ BridgeCapacity \in Nat \ {0}

VARIABLES
  stored,           \* records in the journal
  durable,          \* last_applied_sequence of the projection state, 0 without a row
  \* --- the backend process
  phase,            \* "down", "built" (reads), "started" (ingestion subscribed)
  eventCursor,      \* last record accepted from the stream
  live,             \* next record of the open connection, 0 without one
  stale,            \* what lost connections had buffered and still hand over
  inbox,            \* the ingestion's subscription
  queue,            \* the worker's queue
  marking,          \* the event applied and not yet recorded, 0 for none
  processed,        \* processedRuntimeEventIds
  processedCursor,  \* latestProcessedCursor, shown by the diagnostics
  lastPersisted, pending,
  \* --- history
  tried,            \* events this process has taken up
  applied, failed,  \* events ever applied, and ever given up after an error
  missed,           \* events published while the ingestion had no subscription
  incidents

reader == <<eventCursor, live, stale>>
cursors == <<processedCursor, lastPersisted, pending>>
outcome == <<applied, failed, missed>>
vars == <<stored, durable, phase, reader, inbox, queue, marking, processed, cursors,
          tried, outcome, incidents>>

Larger(a, b) == IF a >= b THEN a ELSE b
Incident == incidents < MaxIncidents /\ incidents' = incidents + 1

Init ==
  /\ stored = 0 /\ durable = 0 /\ phase = "down"
  /\ eventCursor = 0 /\ live = 0 /\ stale = {}
  /\ inbox = <<>> /\ queue = <<>> /\ marking = 0 /\ processed = {}
  /\ processedCursor = 0 /\ lastPersisted = 0 /\ pending = 0
  /\ tried = {} /\ applied = {} /\ failed = {} /\ missed = {} /\ incidents = 0

\* The daemon journals a record, whatever the backend is doing.
Store ==
  /\ stored < MaxEvents
  /\ stored' = stored + 1
  /\ UNCHANGED <<durable, phase, reader, inbox, queue, marking, processed, cursors, tried,
                 outcome, incidents>>

-----------------------------------------------------------------------------
\* rewindProviderDaemonCursorForReplay
Rewound(cursor) == Larger(0, cursor - Overlap)

\* The layers are built and the read loop is forked ...
Build ==
  /\ phase = "down"
  /\ phase' = "built"
  /\ eventCursor' = Rewound(durable)
  /\ UNCHANGED <<stored, durable, live, stale, inbox, queue, marking, processed, cursors,
                 tried, outcome, incidents>>

\* ... and later the startup sequence reaches the reactors.
Subscribe ==
  /\ phase = "built"
  /\ phase' = "started"
  /\ UNCHANGED <<stored, durable, reader, inbox, queue, marking, processed, cursors, tried,
                 outcome, incidents>>

Connect_Once == live = 0 /\ phase # "down" /\ eventCursor = 0 /\ live' = 1

Connect == live = 0 /\ phase # "down" /\ live' = eventCursor + 1

Reconnect ==
  /\ Connect
  /\ UNCHANGED <<stored, durable, phase, eventCursor, stale, inbox, queue, marking, processed,
                 cursors, tried, outcome, incidents>>

Accept_Dropping(n) ==
  /\ eventCursor' = Larger(eventCursor, n)
  /\ \/ (n \in Gaps \/ Len(inbox) >= BridgeCapacity) /\ UNCHANGED <<inbox, missed>>
     \/ /\ n \notin Gaps /\ phase = "built"
        /\ missed' = missed \cup {n}
        /\ UNCHANGED inbox
     \/ /\ n \notin Gaps /\ phase = "started" /\ Len(inbox) < BridgeCapacity
        /\ inbox' = Append(inbox, n)
        /\ UNCHANGED missed
  /\ UNCHANGED <<stored, durable, phase, queue, marking, processed, cursors, tried, applied,
                 failed, incidents>>

\* onRecord: the cursor advances only when the PubSub has taken the record,
\* which waits while the subscription is full and keeps nothing without one.
Accept(n) ==
  /\ eventCursor' = Larger(eventCursor, n)
  /\ \/ n \in Gaps /\ UNCHANGED <<inbox, missed>>
     \/ /\ n \notin Gaps /\ phase = "built"
        /\ missed' = missed \cup {n}
        /\ UNCHANGED inbox
     \/ /\ n \notin Gaps /\ phase = "started" /\ Len(inbox) < BridgeCapacity
        /\ inbox' = Append(inbox, n)
        /\ UNCHANGED missed
  /\ UNCHANGED <<stored, durable, phase, queue, marking, processed, cursors, tried, applied,
                 failed, incidents>>

Read ==
  /\ live # 0 /\ live <= stored
  /\ Accept(live)
  /\ live' = live + 1
  /\ UNCHANGED stale

\* The loop over a failed response's buffer does not look at the failure.
ReadStale(l) ==
  /\ Accept(l.next)
  /\ stale' = (stale \ {l}) \cup
              (IF l.next < l.last THEN {[next |-> l.next + 1, last |-> l.last]} ELSE {})
  /\ UNCHANGED live

Disconnect_AdvancesCursor ==
  \E last \in live - 1 .. stored :
    /\ live # 0 /\ Incident
    /\ live' = 0 /\ eventCursor' = Larger(eventCursor, last)
    /\ stale' = IF last < live THEN stale ELSE stale \cup {[next |-> live, last |-> last]}
    /\ UNCHANGED <<stored, durable, phase, inbox, queue, marking, processed, cursors, tried,
                   outcome>>

\* The connection is lost, with the records up to last received and not handed over.
Disconnect ==
  \E last \in live - 1 .. stored :
    /\ live # 0 /\ Incident
    /\ live' = 0
    /\ stale' = IF last < live THEN stale ELSE stale \cup {[next |-> live, last |-> last]}
    /\ UNCHANGED <<stored, durable, phase, eventCursor, inbox, queue, marking, processed,
                   cursors, tried, outcome>>

-----------------------------------------------------------------------------
\* The subscription's stream feeds the worker.
Enqueue ==
  /\ inbox # <<>>
  /\ queue' = Append(queue, Head(inbox))
  /\ inbox' = Tail(inbox)
  /\ UNCHANGED <<stored, durable, phase, reader, marking, processed, cursors, tried, outcome,
                 incidents>>

\* processRuntimeEventOnce, up to its end: an event that this process already
\* applied is skipped, and an error is logged and the event given up.
Work ==
  LET e == Head(queue) IN
  /\ marking = 0 /\ queue # <<>>
  /\ queue' = Tail(queue)
  /\ tried' = tried \cup {e}
  /\ \/ /\ e \in processed
        /\ marking' = e
        /\ UNCHANGED <<processed, outcome, incidents>>
     \/ /\ e \notin processed
        /\ marking' = e
        /\ processed' = processed \cup {e}
        /\ applied' = applied \cup {e}
        /\ UNCHANGED <<failed, missed, incidents>>
     \/ /\ e \notin processed /\ Incident
        /\ failed' = failed \cup {e}
        /\ UNCHANGED <<marking, processed, applied, missed>>
  /\ UNCHANGED <<stored, durable, phase, reader, inbox, cursors>>

Due(cursor) == cursor - lastPersisted >= PersistInterval

\* recordProviderRuntimeIngestionCursor and persistProviderDaemonCursor; an
\* error of the write is logged.
Mark ==
  LET due == Larger(pending, marking) IN
  /\ marking # 0
  /\ marking' = 0
  /\ processedCursor' = Larger(processedCursor, marking)
  /\ \/ /\ marking <= lastPersisted
        /\ UNCHANGED <<pending, lastPersisted, durable, incidents>>
     \/ /\ marking > lastPersisted /\ ~Due(due)
        /\ pending' = due
        /\ UNCHANGED <<lastPersisted, durable, incidents>>
     \/ /\ marking > lastPersisted /\ Due(due)
        /\ pending' = due /\ lastPersisted' = due /\ durable' = due
        /\ UNCHANGED incidents
     \/ /\ marking > lastPersisted /\ Due(due) /\ Incident
        /\ pending' = due
        /\ UNCHANGED <<lastPersisted, durable>>
  /\ UNCHANGED <<stored, phase, reader, inbox, queue, processed, tried, outcome>>

\* The process ends, and what it kept in memory is gone.
Gone ==
  /\ phase # "down" /\ phase' = "down" /\ Incident
  /\ eventCursor' = 0 /\ live' = 0 /\ stale' = {}
  /\ inbox' = <<>> /\ queue' = <<>> /\ marking' = 0 /\ processed' = {} /\ tried' = {}
  /\ processedCursor' = 0 /\ lastPersisted' = 0 /\ pending' = 0
  /\ UNCHANGED <<stored, outcome>>

Crash == Gone /\ UNCHANGED durable

\* The finalizer of an orderly end writes a cursor that was not due yet.
Stop == Gone /\ durable' = IF pending > lastPersisted THEN pending ELSE durable

-----------------------------------------------------------------------------
ReadLoop == Reconnect \/ Read
Next ==
  \/ Store \/ Build \/ Subscribe \/ ReadLoop \/ Disconnect
  \/ \E l \in stale : ReadStale(l)
  \/ Enqueue \/ Work \/ Mark \/ Crash \/ Stop

Spec == Init /\ [][Next]_vars

\* The desktop starts the backend again, whose startup sequence ends, and the
\* loops of a running backend run.
FairSpec ==
  /\ Spec
  /\ WF_vars(Build \/ Subscribe) /\ WF_vars(ReadLoop) /\ WF_vars(Enqueue)
  /\ WF_vars(Work \/ Mark)

-----------------------------------------------------------------------------
Handled(e) == e \in applied \/ e \in failed \/ e \in missed \/ e \in Gaps

\* Every variable keeps its type.
TypeOK ==
  /\ stored \in Nat /\ durable \in Nat /\ incidents \in Nat
  /\ eventCursor \in Nat /\ live \in Nat /\ marking \in Nat
  /\ processedCursor \in Nat /\ lastPersisted \in Nat /\ pending \in Nat
  /\ phase \in {"down", "built", "started"}
  /\ stale \subseteq [next : Nat, last : Nat]
  /\ inbox \in Seq(Nat) /\ Len(inbox) <= BridgeCapacity
  /\ queue \in Seq(Nat)
  /\ processed \subseteq Nat /\ tried \subseteq Nat
  /\ applied \subseteq Nat /\ failed \subseteq Nat /\ missed \subseteq Nat

(***************************************************************************)
(* Whatever is lost, crashes or fails in between, no cursor is written or  *)
(* shown past an event that nobody has dealt with: each event up to it was *)
(* applied, given up after an error, or published before the ingestion had *)
(* its subscription.                                                       *)
(***************************************************************************)
CursorsSkipNothing ==
  \A e \in 1 .. stored : e <= durable \/ e <= processedCursor => Handled(e)

(***************************************************************************)
(* A process takes the events up in their order, also when a lost          *)
(* connection and its successor hand over the same records; only an event  *)
(* it missed at first can come late.                                       *)
(***************************************************************************)
FirstTriesInOrder ==
  [][\A e \in tried' \ tried : e \in missed \/ \A d \in tried : d < e]_vars

\* The row may go back when a restarted process replays, by less than the overlap.
RewindBounded == [][durable' >= durable \/ durable' > durable - Overlap]_vars

\* Every record of the journal is dealt with in the end.
EveryRecordHandled == \A e \in 1 .. MaxEvents : e <= stored ~> Handled(e)

=============================================================================
