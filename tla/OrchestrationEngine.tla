------------------------- MODULE OrchestrationEngine -------------------------
(***************************************************************************)
(* The orchestration engine: one worker takes commands off a queue, looks  *)
(* for a receipt, decides on its in-memory read model, commits the events, *)
(* their projections and the receipt in one transaction, and publishes the *)
(* events to the reactors.  After a failed dispatch it re-reads the log    *)
(* from where the dispatch started and folds in whatever it finds.         *)
(*                                                                         *)
(* An event is its position in the log.  What a command decides is left    *)
(* open: it is rejected, or yields some number of events.  The dispatch    *)
(* metrics and counters are left out.                                      *)
(***************************************************************************)
EXTENDS Integers, Sequences

CONSTANTS
  Commands,    \* command ids
  Callers,     \* fibers that dispatch; each waits for its own deferred
  Projectors,  \* projectors the snapshot sequence is the minimum of
  NoCommand,
  Backlog,     \* most events in the log when this version first starts
  ReadLimit,   \* readFromSequence's default limit (1000)
  MaxPerCommand,  \* events one command yields
  MaxLog       \* bound of the model: events ever appended

ASSUME EngineAssumption ==
  /\ Projectors # {}
  /\ NoCommand \notin Commands
  /\ Backlog \in Nat /\ MaxLog \in Nat
  /\ MaxPerCommand \in Nat \ {0}
  \* One dispatch never outruns the read that reconciles it.
  /\ ReadLimit \in Nat /\ ReadLimit >= MaxPerCommand

VARIABLES
  log,        \* orchestration_events: the command of each event
  applied,    \* last_applied_sequence of each projector
  receipts,   \* orchestration_command_receipts
  booted,     \* projectors that bootstrap has been through
  snapshot,   \* snapshotSequence of the in-memory read model
  folded,     \* events folded into the read model since the engine started
  published,  \* events published since the engine started
  base,       \* history: length of the log when the engine started
  current,    \* history: neither bootstrap nor a failed re-read left the read
              \* model behind the log
  queue,      \* commandQueue: callers
  command,    \* the command a caller dispatched last
  waiting,    \* callers whose deferred is pending
  worker,     \* the await the worker is at
  start,      \* dispatchStartSequence
  pending,    \* events still to be published for this dispatch
  rejecting,  \* the dispatch failed with an invariant error
  answers     \* history: sequences that callers got for a command

durable == <<log, applied, receipts>>
dispatching == <<worker, start, pending, rejecting>>
callerVars == <<queue, command, waiting, answers>>
vars == <<durable, booted, snapshot, folded, published, base, current,
          callerVars, dispatching>>

NoReceipt == [status |-> "none", sequence |-> 0]
Receipt == [status : {"none", "accepted", "rejected"}, sequence : Nat]
WorkerSteps == {"down", "boot", "idle", "receipt", "decide", "publish",
                "reconcile", "republish"}

TypeOK ==
  /\ log \in Seq(Commands \cup {NoCommand})
  /\ applied \in [Projectors -> Nat]
  /\ receipts \in [Commands -> Receipt]
  /\ booted \subseteq Projectors
  /\ snapshot \in Nat
  /\ folded \in Seq(Nat)
  /\ published \in Seq(Nat)
  /\ base \in Nat
  /\ current \in BOOLEAN
  /\ queue \in Seq(Callers)
  /\ command \in [Callers -> Commands]
  /\ waiting \subseteq Callers
  /\ worker \in WorkerSteps
  /\ start \in Nat
  /\ pending \in Seq(Nat)
  /\ rejecting \in BOOLEAN
  /\ answers \in [Commands -> SUBSET Nat]

\* An installation whose log an older version wrote.  A projector this version
\* adds has no projection_state row; the others are at the end of the log.
Init ==
  /\ \E n \in 0 .. Backlog, new \in SUBSET Projectors :
       /\ log = [i \in 1 .. n |-> NoCommand]
       /\ applied = [p \in Projectors |-> IF p \in new THEN 0 ELSE n]
  /\ receipts = [c \in Commands |-> NoReceipt]
  /\ booted = {}
  /\ snapshot = 0
  /\ folded = <<>>
  /\ published = <<>>
  /\ base = 0
  /\ current = FALSE
  /\ queue = <<>>
  /\ command \in [Callers -> Commands]
  /\ waiting = {}
  /\ worker = "down"
  /\ start = 0
  /\ pending = <<>>
  /\ rejecting = FALSE
  /\ answers = [c \in Commands |-> {}]

-----------------------------------------------------------------------------
LastSequence == Len(log)

\* readFromSequence(from): the next events, no more than the default limit.
LastRead(from) ==
  IF LastSequence - from > ReadLimit THEN from + ReadLimit ELSE LastSequence
ReadFrom(from) == [i \in 1 .. LastRead(from) - from |-> from + i]

BeginBoot ==
  /\ worker = "down"
  /\ worker' = "boot"
  /\ booted' = {}
  /\ UNCHANGED <<durable, snapshot, folded, published, base, current, callerVars,
                 start, pending, rejecting>>

\* bootstrapProjector: one transaction per event; a crash keeps the cursor.
BootProjector(p) ==
  /\ worker = "boot" /\ p \notin booted
  /\ applied' = [applied EXCEPT ![p] = LastRead(@)]
  /\ booted' = booted \cup {p}
  /\ UNCHANGED <<log, receipts, snapshot, folded, published, base, current,
                 callerVars, dispatching>>

\* getCommandReadModel: the rows of every projector, at the lowest cursor.
Start ==
  /\ worker = "boot" /\ booted = Projectors
  /\ worker' = "idle"
  /\ \E p \in Projectors :
       /\ \A q \in Projectors : applied[p] <= applied[q]
       /\ snapshot' = applied[p]
  /\ folded' = <<>>
  /\ published' = <<>>
  /\ base' = LastSequence
  /\ current' = (snapshot' = LastSequence)
  /\ UNCHANGED <<durable, booted, callerVars, start, pending, rejecting>>

\* dispatch: offer to the unbounded queue and await the deferred.
Dispatch(d, c) ==
  /\ worker \notin {"down", "boot"}
  /\ d \notin waiting
  /\ waiting' = waiting \cup {d}
  /\ command' = [command EXCEPT ![d] = c]
  /\ queue' = Append(queue, d)
  /\ UNCHANGED <<durable, booted, snapshot, folded, published, base, current,
                 answers, dispatching>>

-----------------------------------------------------------------------------
\* The envelope being processed stays at the head of the queue until answered.
Taken == command[Head(queue)]

Take ==
  /\ worker = "idle" /\ queue # <<>>
  /\ worker' = "receipt"
  /\ start' = snapshot
  /\ pending' = <<>>
  /\ rejecting' = FALSE
  /\ UNCHANGED <<durable, booted, snapshot, folded, published, base, current, callerVars>>

Answer(sequences) ==
  /\ worker' = "idle"
  /\ queue' = Tail(queue)
  /\ waiting' = waiting \ {Head(queue)}
  /\ answers' = [answers EXCEPT ![Taken] = @ \cup sequences]
  /\ UNCHANGED command

AnswerFromReceipt_TellsRejected ==
  /\ worker = "receipt"
  /\ receipts[Taken].status # "none"
  /\ Answer({receipts[Taken].sequence})
  /\ UNCHANGED <<durable, booted, snapshot, folded, published, base, current,
                 start, pending, rejecting>>

AnswerFromReceipt_AcceptedOnly ==
  /\ worker = "receipt"
  /\ receipts[Taken].status = "accepted"
  /\ Answer({receipts[Taken].sequence})
  /\ UNCHANGED <<durable, booted, snapshot, folded, published, base, current,
                 start, pending, rejecting>>

\* A receipt answers the dispatch: the stored sequence, or "previously rejected".
AnswerFromReceipt ==
  /\ worker = "receipt"
  /\ receipts[Taken].status # "none"
  /\ Answer(IF receipts[Taken].status = "accepted" THEN {receipts[Taken].sequence} ELSE {})
  /\ UNCHANGED <<durable, booted, snapshot, folded, published, base, current,
                 start, pending, rejecting>>

FindNoReceipt_IgnoresRejected ==
  /\ worker = "receipt"
  /\ receipts[Taken].status # "accepted"
  /\ worker' = "decide"
  /\ UNCHANGED <<durable, booted, snapshot, folded, published, base, current,
                 callerVars, start, pending, rejecting>>

FindNoReceipt ==
  /\ worker = "receipt"
  /\ receipts[Taken].status = "none"
  /\ worker' = "decide"
  /\ UNCHANGED <<durable, booted, snapshot, folded, published, base, current,
                 callerVars, start, pending, rejecting>>

\* The decider refuses the command, or a command yields no event.
Reject ==
  /\ worker = "decide"
  /\ worker' = "reconcile"
  /\ rejecting' = TRUE
  /\ UNCHANGED <<durable, booted, snapshot, folded, published, base, current,
                 callerVars, start, pending>>

\* The receipt lookup fails, or the transaction fails and is rolled back.
StorageFails ==
  /\ worker \in {"receipt", "decide"}
  /\ worker' = "reconcile"
  /\ UNCHANGED <<durable, booted, snapshot, folded, published, base, current,
                 callerVars, start, pending, rejecting>>

NewEvents(k) == [i \in 1 .. k |-> LastSequence + i]

StoreCommand_NoReceipt(k) ==
  /\ LastSequence + k <= MaxLog
  /\ log' = log \o [i \in 1 .. k |-> Taken]
  /\ applied' = [p \in Projectors |-> LastSequence + k]
  /\ UNCHANGED receipts

\* The transaction: append, project and record the receipt.
StoreCommand(k) ==
  /\ LastSequence + k <= MaxLog
  /\ log' = log \o [i \in 1 .. k |-> Taken]
  /\ applied' = [p \in Projectors |-> LastSequence + k]
  /\ receipts' = [receipts EXCEPT ![Taken] =
                    [status |-> "accepted", sequence |-> LastSequence + k]]

\* Commit, and with no other await the read model moves to the events.
Commit(k) ==
  /\ worker = "decide"
  /\ StoreCommand(k)
  /\ folded' = folded \o NewEvents(k)
  /\ snapshot' = LastSequence + k
  /\ pending' = NewEvents(k)
  /\ worker' = "publish"
  /\ UNCHANGED <<booted, published, base, current, callerVars, start, rejecting>>

\* The events persist but the dispatch sees a failure: what reconciling is for.
CommitReportsFailure(k) ==
  /\ worker = "decide"
  /\ StoreCommand(k)
  /\ worker' = "reconcile"
  /\ UNCHANGED <<booted, snapshot, folded, published, base, current, callerVars,
                 start, pending, rejecting>>

PublishNext ==
  /\ worker \in {"publish", "republish"} /\ pending # <<>>
  /\ published' = Append(published, Head(pending))
  /\ pending' = Tail(pending)
  /\ UNCHANGED <<durable, booted, snapshot, folded, base, current, callerVars,
                 worker, start, rejecting>>

AnswerCommitted ==
  /\ worker = "publish" /\ pending = <<>>
  /\ Answer({snapshot})
  /\ UNCHANGED <<durable, booted, snapshot, folded, published, base, current,
                 start, pending, rejecting>>

Reconcile_FromStart ==
  /\ worker = "reconcile"
  /\ folded' = folded \o ReadFrom(base)
  /\ snapshot' = LastRead(base)
  /\ pending' = ReadFrom(base)
  /\ worker' = "republish"
  /\ UNCHANGED <<durable, booted, published, base, current, callerVars, start, rejecting>>

Reconcile_ForgetsModel ==
  /\ worker = "reconcile"
  /\ pending' = ReadFrom(start)
  /\ worker' = "republish"
  /\ UNCHANGED <<durable, booted, snapshot, folded, published, base, current,
                 callerVars, start, rejecting>>

\* reconcileReadModelAfterDispatchFailure: fold, then publish, what was stored
\* after the dispatch began.
Reconcile ==
  /\ worker = "reconcile"
  /\ folded' = folded \o ReadFrom(start)
  /\ snapshot' = LastRead(start)
  /\ pending' = ReadFrom(start)
  /\ worker' = "republish"
  /\ UNCHANGED <<durable, booted, published, base, current, callerVars, start, rejecting>>

\* The re-read itself fails: logged, and the dispatch is answered.
ReconcileFails ==
  /\ worker = "reconcile"
  /\ worker' = "republish"
  /\ current' = (current /\ snapshot = LastSequence)
  /\ UNCHANGED <<durable, booted, snapshot, folded, published, base,
                 callerVars, start, pending, rejecting>>

\* A refusal is recorded, and a failure to record it is ignored.
AnswerFailed ==
  /\ worker = "republish" /\ pending = <<>>
  /\ Answer({})
  /\ \/ UNCHANGED receipts
     \/ /\ rejecting
        /\ receipts' = [receipts EXCEPT ![Taken] =
                          [status |-> "rejected", sequence |-> snapshot]]
  /\ UNCHANGED <<log, applied, booted, snapshot, folded, published, base, current,
                 start, pending, rejecting>>

\* The server stops at any point; everything in memory is gone.
Crash ==
  /\ worker # "down"
  /\ worker' = "down"
  /\ queue' = <<>>
  /\ waiting' = {}
  /\ pending' = <<>>
  /\ UNCHANGED <<durable, booted, snapshot, folded, published, base, current,
                 command, answers, start, rejecting>>

-----------------------------------------------------------------------------
Boot == BeginBoot \/ (\E p \in Projectors : BootProjector(p)) \/ Start

Work ==
  \/ Take \/ AnswerFromReceipt \/ FindNoReceipt
  \/ Reject
  \/ \E k \in 1 .. MaxPerCommand : Commit(k)
  \/ PublishNext \/ AnswerCommitted
  \/ Reconcile \/ AnswerFailed

Fail ==
  \/ StorageFails
  \/ \E k \in 1 .. MaxPerCommand : CommitReportsFailure(k)
  \/ ReconcileFails

Next ==
  \/ Boot
  \/ \E d \in Callers, c \in Commands : Dispatch(d, c)
  \/ Work
  \/ Fail
  \/ Crash

Spec == Init /\ [][Next]_vars

\* The worker fiber is scheduled whenever its await has resolved.  Failures
\* may happen but are not owed.
FairSpec == Spec /\ WF_vars(Work)

-----------------------------------------------------------------------------
(***************************************************************************)
(* Receipts and events agree, through failures, crashes and retries: an    *)
(* accepted command has one contiguous run of events, ending at the        *)
(* sequence its receipt answers with; any other command has none.          *)
(***************************************************************************)
EventsOf(c) == {i \in DOMAIN log : log[i] = c}

ReceiptsMatchLog ==
  \A c \in Commands :
    IF receipts[c].status = "accepted"
    THEN \E k \in 1 .. MaxPerCommand :
           EventsOf(c) = receipts[c].sequence - k + 1 .. receipts[c].sequence
    ELSE EventsOf(c) = {}

(***************************************************************************)
(* Every caller that was given a sequence for a command was given the one  *)
(* in its receipt, whichever dispatch of the command it made, and when.    *)
(***************************************************************************)
AnswersAreReceipts ==
  \A c \in Commands : \A n \in answers[c] :
    receipts[c] = [status |-> "accepted", sequence |-> n]

\* An accepted or rejected command stays so: retries cannot change the verdict.
ReceiptsAreFinal ==
  [][\A c \in Commands : receipts[c].status # "none" => receipts'[c] = receipts[c]]_vars

(***************************************************************************)
(* The worker decides on the whole log: once a dispatch is reconciled the  *)
(* read model has every event exactly once, in order, unless bootstrap or  *)
(* a failed re-read left it behind.                                        *)
(***************************************************************************)
SinceStart == [i \in 1 .. LastSequence - base |-> base + i]
Reconciled == current /\ worker \notin {"down", "boot", "reconcile"}

DecidesOnWholeLog == Reconciled => folded = SinceStart /\ snapshot = LastSequence

\* Reactors get each new event exactly once and in log order.
PublishesLogOnce == Reconciled => published \o pending = SinceStart

\* Every dispatch is answered, unless the server stops first.
EveryDispatchAnswered == \A d \in Callers : d \in waiting ~> d \notin waiting
=============================================================================
