----------------------------- MODULE EventStream -----------------------------
(***************************************************************************)
(* handleProviderDaemonEventStream: one handler per open event-stream      *)
(* response, on top of the event journal.  A handler installs a listener,  *)
(* reads the journal's high-water cursor, replays the rows up to it in     *)
(* pages, and then writes the records its listener queued meanwhile.       *)
(*                                                                         *)
(* Every await of the handler separates two actions: between them the      *)
(* publisher inserts and notifies, prunes delete rows, the client aborts,  *)
(* and other handlers run.                                                 *)
(***************************************************************************)
EXTENDS EventJournal, FiniteSets

CONSTANTS
  Streams,        \* handlers; a closed one stands for the next request
  PageSize,       \* rows of one replay page
  LiveLimit,      \* records the live queue may hold once the boundary is known
  LiveMultiplier  \* how many times that it may hold before (4 in the code)

ASSUME StreamAssumption ==
  /\ PageSize \in Nat \ {0}
  /\ LiveLimit \in Nat \ {0}
  /\ LiveMultiplier \in Nat \ {0}

VARIABLES
  phase,      \* the await the handler is at
  active,     \* FALSE from cleanup on
  listening,  \* the journal holds the handler's listener
  boundary,   \* replayBoundaryCursor, NoBoundary for null
  snapshot,   \* the high-water cursor read by the boundary query
  after,      \* afterCursor of the request
  cursor,     \* last cursor written
  page,       \* cursors of the current replay page not yet written
  queue,      \* liveQueue
  sent        \* history: the cursors written to this response

streamVars == <<phase, active, listening, boundary, snapshot, after, cursor,
                page, queue, sent>>
vars == <<journalVars, streamVars>>

NoBoundary == -1

Init ==
  /\ JournalInit
  /\ phase = [s \in Streams |-> "closed"]
  /\ active = [s \in Streams |-> FALSE]
  /\ listening = [s \in Streams |-> FALSE]
  /\ boundary = [s \in Streams |-> NoBoundary]
  /\ snapshot = [s \in Streams |-> 0]
  /\ after = [s \in Streams |-> 0]
  /\ cursor = [s \in Streams |-> 0]
  /\ page = [s \in Streams |-> {}]
  /\ queue = [s \in Streams |-> <<>>]
  /\ sent = [s \in Streams |-> {}]

-----------------------------------------------------------------------------
\* A request arrives: the listener is installed synchronously, before the
\* boundary query is sent.
Open(s, from) ==
  /\ phase[s] = "closed"
  /\ phase' = [phase EXCEPT ![s] = "query"]
  /\ active' = [active EXCEPT ![s] = TRUE]
  /\ listening' = [listening EXCEPT ![s] = TRUE]
  /\ boundary' = [boundary EXCEPT ![s] = NoBoundary]
  /\ after' = [after EXCEPT ![s] = from]
  /\ cursor' = [cursor EXCEPT ![s] = from]
  /\ page' = [page EXCEPT ![s] = {}]
  /\ queue' = [queue EXCEPT ![s] = <<>>]
  /\ sent' = [sent EXCEPT ![s] = {}]
  /\ UNCHANGED <<journalVars, snapshot>>

\* The database evaluates MAX(cursor); the handler has not resumed yet.
QueryBoundary(s) ==
  /\ phase[s] = "query"
  /\ phase' = [phase EXCEPT ![s] = "resume"]
  /\ snapshot' = [snapshot EXCEPT ![s] = LastCursor]
  /\ UNCHANGED <<journalVars, active, listening, boundary, after, cursor, page,
                 queue, sent>>

\* The boundary query fails: subscribeWithReplayBoundary removes the listener
\* and the handler's catch cleans up.
FailBoundary(s) ==
  /\ phase[s] = "query"
  /\ phase' = [phase EXCEPT ![s] = "closed"]
  /\ active' = [active EXCEPT ![s] = FALSE]
  /\ listening' = [listening EXCEPT ![s] = FALSE]
  /\ UNCHANGED <<journalVars, boundary, snapshot, after, cursor, page, queue, sent>>

\* The part of the live queue above b.  The queue ascends, so the records the
\* replay covers are its first ones.
Above(q, b) == SubSeq(q, Cardinality({i \in 1 .. Len(q) : q[i] <= b}) + 1, Len(q))

\* The handler resumes with the boundary and drops what the replay will cover.
ResumeOpen(s) ==
  /\ phase[s] = "resume" /\ active[s]
  /\ phase' = [phase EXCEPT ![s] = "replay"]
  /\ boundary' = [boundary EXCEPT ![s] = snapshot[s]]
  /\ queue' = [queue EXCEPT ![s] = Above(@, snapshot[s])]
  /\ UNCHANGED <<journalVars, active, listening, snapshot, after, cursor, page, sent>>

ResumeCleanedUp_KeepsListener(s) ==
  /\ phase[s] = "resume" /\ ~active[s]
  /\ phase' = [phase EXCEPT ![s] = "closed"]
  /\ UNCHANGED <<journalVars, active, listening, boundary, snapshot, after, cursor,
                 page, queue, sent>>

\* Cleaned up while the boundary query was in flight: release the late listener.
ResumeCleanedUp(s) ==
  /\ phase[s] = "resume" /\ ~active[s]
  /\ phase' = [phase EXCEPT ![s] = "closed"]
  /\ listening' = [listening EXCEPT ![s] = FALSE]
  /\ UNCHANGED <<journalVars, active, boundary, snapshot, after, cursor, page, queue, sent>>

PageAfter_StopsShort(from, through) ==
  LET first == IF from > pruned THEN from + 1 ELSE pruned + 1 IN first .. through - 1

\* replayPageThrough: at most PageSize stored rows above the cursor and up to
\* the boundary.  An empty page ends the replay.
PageAfter(from, through) ==
  LET first == IF from > pruned THEN from + 1 ELSE pruned + 1
      last  == IF first + PageSize - 1 < through THEN first + PageSize - 1 ELSE through
  IN first .. last

ReadPage(s) ==
  LET rest == PageAfter(cursor[s], boundary[s]) IN
  /\ phase[s] = "replay"
  /\ page[s] = {}
  /\ page' = [page EXCEPT ![s] = rest]
  /\ phase' = [phase EXCEPT ![s] = IF rest = {} THEN "live" ELSE "replay"]
  /\ Quarantine(rest)
  /\ UNCHANGED <<pruned, indexBuilt, indexReady, sincePrune, publisher, maintenance,
                 pruneTo, active, listening, boundary, snapshot, after, cursor,
                 queue, sent>>

Write(s, c) ==
  /\ cursor' = [cursor EXCEPT ![s] = c]
  /\ sent' = [sent EXCEPT ![s] = @ \cup {c}]

WritePage(s) ==
  /\ phase[s] = "replay"
  /\ \E c \in page[s] :
       /\ \A d \in page[s] : c <= d
       /\ page' = [page EXCEPT ![s] = @ \ {c}]
       /\ IF c <= cursor[s] THEN UNCHANGED <<cursor, sent>> ELSE Write(s, c)
  /\ UNCHANGED <<journalVars, phase, active, listening, boundary, snapshot, after, queue>>

WriteLive_Unchecked(s) ==
  /\ phase[s] = "live"
  /\ queue[s] # <<>>
  /\ queue' = [queue EXCEPT ![s] = Tail(@)]
  /\ Write(s, Head(queue[s]))
  /\ UNCHANGED <<journalVars, phase, active, listening, boundary, snapshot, after, page>>

WriteLive_MissesWakeUp(s) == Len(queue[s]) > 1 /\ WriteLive_Unchecked(s)

WriteLive(s) ==
  /\ phase[s] = "live"
  /\ queue[s] # <<>>
  /\ queue' = [queue EXCEPT ![s] = Tail(@)]
  /\ IF Head(queue[s]) <= cursor[s]
     THEN UNCHANGED <<cursor, sent>>
     ELSE Write(s, Head(queue[s]))
  /\ UNCHANGED <<journalVars, phase, active, listening, boundary, snapshot, after, page>>

-----------------------------------------------------------------------------
Accepts_AfterBoundaryOnly(s, c) ==
  listening[s] /\ active[s] /\ boundary[s] # NoBoundary /\ c > boundary[s]

\* enqueueLive, the listener: what publishing row c does to each handler.
Accepts(s, c) == listening[s] /\ active[s] /\ ~(boundary[s] # NoBoundary /\ c <= boundary[s])

Allowance(s) == IF boundary[s] = NoBoundary THEN LiveLimit * LiveMultiplier ELSE LiveLimit

\* The queue is full.  The handler is cleaned up rather than left with a hole.
Overflows(s, c) == Accepts(s, c) /\ Len(queue[s]) >= Allowance(s)

\* Where cleanup leaves a handler.  While the boundary query is in flight there
\* is no disposer to call yet: the handler stays until it resumes.
PhaseAfterCleanup(s) == IF phase[s] \in {"query", "resume"} THEN phase[s] ELSE "closed"

Notify ==
  /\ AfterNotify
  /\ queue' = [s \in Streams |->
                 IF Accepts(s, LastCursor) /\ ~Overflows(s, LastCursor)
                 THEN Append(queue[s], LastCursor) ELSE queue[s]]
  /\ active' = [s \in Streams |-> active[s] /\ ~Overflows(s, LastCursor)]
  /\ phase' = [s \in Streams |->
                 IF Overflows(s, LastCursor) THEN PhaseAfterCleanup(s) ELSE phase[s]]
  /\ listening' = [s \in Streams |->
                 listening[s] /\ (Overflows(s, LastCursor) => PhaseAfterCleanup(s) # "closed")]
  /\ UNCHANGED <<boundary, snapshot, after, cursor, page, sent>>

\* The request is aborted or the response closes: cleanup.
Abort(s) ==
  /\ phase[s] # "closed"
  /\ active[s]
  /\ active' = [active EXCEPT ![s] = FALSE]
  /\ phase' = [phase EXCEPT ![s] = PhaseAfterCleanup(s)]
  /\ listening' = [listening EXCEPT ![s] = PhaseAfterCleanup(s) # "closed"]
  /\ UNCHANGED <<journalVars, boundary, snapshot, after, cursor, page, queue, sent>>

\* The daemon restarts: its handlers and listeners are gone.
Restart ==
  /\ RestartJournal
  /\ phase' = [s \in Streams |-> "closed"]
  /\ active' = [s \in Streams |-> FALSE]
  /\ listening' = [s \in Streams |-> FALSE]
  /\ UNCHANGED <<boundary, snapshot, after, cursor, page, queue, sent>>

-----------------------------------------------------------------------------
JournalStep ==
  \/ \E e \in EventIds : Insert(e)
  \/ PublisherPrune
  \/ StartMaintenance
  \/ MaintenancePrune
  \/ EnsureEventIdIndex
  \/ FailMaintenance

HandlerStep(s) == 
  \/ QueryBoundary(s) \/ ResumeOpen(s) \/ ResumeCleanedUp(s)
  \/ ReadPage(s) \/ WritePage(s) \/ WriteLive(s)

Next ==
  \/ JournalStep /\ UNCHANGED streamVars
  \/ Notify
  \/ \E s \in Streams :
       \/ \E from \in 0 .. MaxRows : Open(s, from)
       \/ HandlerStep(s)
       \/ FailBoundary(s)
       \/ Abort(s)
  \/ Restart

Spec == Init /\ [][Next]_vars

\* The event loop runs a publish that has begun and every handler whose await
\* has resolved; a client that stops reading closes its connection instead.
Fairness ==
  /\ WF_vars(Notify)
  /\ WF_vars(PublisherPrune /\ UNCHANGED streamVars)
  /\ \A s \in Streams : WF_vars(HandlerStep(s))

FairSpec == Spec /\ Fairness

-----------------------------------------------------------------------------
TypeOK ==
  /\ JournalTypeOK
  /\ phase \in [Streams -> {"closed", "query", "resume", "replay", "live"}]
  /\ active \in [Streams -> BOOLEAN]
  /\ listening \in [Streams -> BOOLEAN]
  /\ boundary \in [Streams -> Nat \cup {NoBoundary}]
  /\ snapshot \in [Streams -> Nat]
  /\ after \in [Streams -> Nat]
  /\ cursor \in [Streams -> Nat]
  /\ page \in [Streams -> SUBSET Nat]
  /\ queue \in [Streams -> Seq(Nat)]
  /\ sent \in [Streams -> SUBSET Nat]

(***************************************************************************)
(* A response never skips a record: each row between the requested cursor  *)
(* and the last one written was written, unless pruning deleted it.  The   *)
(* handover from replay to the live queue neither loses nor reorders.      *)
(***************************************************************************)
NoGap ==
  \A s \in Streams : \A c \in after[s] + 1 .. cursor[s] : c \in sent[s] \/ c <= pruned

(***************************************************************************)
(* No lost wake-up: a handler waiting for live records has nothing left    *)
(* to write - every row announced so far was written, or is pruned.        *)
(***************************************************************************)
Waiting(s) == phase[s] = "live" /\ queue[s] = <<>>

WaitingIsCaughtUp ==
  \A s \in Streams : Waiting(s) => \A c \in cursor[s] + 1 .. Notified : c <= pruned

(***************************************************************************)
(* Cleanup, in whatever order it meets the boundary query, leaves no       *)
(* listener behind: a closed handler is not called on publications, and an *)
(* aborted one whose query is still in flight keeps a listener only until  *)
(* that query returns.                                                     *)
(***************************************************************************)
NoLeakedListener ==
  \A s \in Streams : listening[s] => active[s] \/ phase[s] \in {"query", "resume"}

(***************************************************************************)
(* A handler that stays open eventually writes every row a publish has     *)
(* inserted above its request cursor, unless the row is pruned first.      *)
(***************************************************************************)
Owed(s, c) == active[s] /\ after[s] < c /\ c <= LastCursor
Settled(s, c) == c \in sent[s] \/ ~active[s] \/ c <= pruned

EveryRowReachesOpenStreams ==
  \A s \in Streams : \A c \in 1 .. MaxRows : Owed(s, c) ~> Settled(s, c)

\* The readers of an ordered log see what LogDelivery promises.
Promised == INSTANCE LogDelivery WITH
  Readers <- Streams, length <- LastCursor, floor <- pruned,
  start <- after, position <- cursor, got <- sent, open <- active

DeliversLog == Promised!Spec
=============================================================================
