---------------------- MODULE OrchestrationEngineProofs ----------------------
(***************************************************************************)
(* Proofs about the orchestration engine, for any commands, callers,       *)
(* projectors, backlog and read limit.                                     *)
(*                                                                         *)
(* Three inductive invariants, each resting on the one before it:          *)
(*   TInv  types, positions within the log, and a queue that holds each    *)
(*         waiting caller once, so the command the worker serves cannot    *)
(*         change under it;                                                *)
(*   RInv  what the worker knows of the receipt of that command at each    *)
(*         of its awaits, which is why the transaction runs at most once;  *)
(*   MInv  the read model is a prefix of the log and what was published    *)
(*         plus what is pending is that prefix.                            *)
(***************************************************************************)
EXTENDS OrchestrationEngine, SequenceTheorems, TLAPS

Serving == worker \in {"receipt", "decide", "publish", "reconcile", "republish"}

WithinLog ==
  /\ snapshot <= Len(log) /\ base <= Len(log) /\ start <= Len(log)
  /\ \A p \in Projectors : applied[p] <= Len(log)

QueueHoldsWaiting ==
  /\ Serving => queue # <<>>
  /\ \A i \in 1 .. Len(queue) : queue[i] \in waiting
  /\ \A i, j \in 1 .. Len(queue) : queue[i] = queue[j] => i = j

TInv == TypeOK /\ WithinLog /\ QueueHoldsWaiting

-----------------------------------------------------------------------------
\* What a bounded read returns, and where it leaves the reader.
LEMMA ReadFromType ==
  ASSUME Len(log) \in Nat, NEW from \in Nat, from <= Len(log)
  PROVE  /\ LastRead(from) \in Nat
         /\ from <= LastRead(from) /\ LastRead(from) <= Len(log)
         /\ ReadFrom(from) \in Seq(Nat)
         /\ Len(ReadFrom(from)) = LastRead(from) - from
         /\ \A i \in 1 .. LastRead(from) - from : ReadFrom(from)[i] = from + i
         /\ Len(log) - from <= ReadLimit => LastRead(from) = Len(log)
<1>1. /\ LastRead(from) \in Nat
      /\ from <= LastRead(from) /\ LastRead(from) <= Len(log)
      /\ Len(log) - from <= ReadLimit => LastRead(from) = Len(log)
  BY EngineAssumption DEF LastRead, LastSequence
<1> DEFINE n == LastRead(from) - from
<1>2. n \in Nat
  BY <1>1
<1> HIDE DEF n
<1>3. [i \in 1 .. n |-> from + i] \in Seq(Nat) /\ Len([i \in 1 .. n |-> from + i]) = n
  BY <1>2, IsASeq
<1> QED
  BY <1>1, <1>2, <1>3 DEF ReadFrom, n

\* The events of a transaction continue the log.
LEMMA NewEventsType ==
  ASSUME Len(log) \in Nat, NEW k \in Nat
  PROVE  /\ NewEvents(k) \in Seq(Nat)
         /\ Len(NewEvents(k)) = k
         /\ \A i \in 1 .. k : NewEvents(k)[i] = Len(log) + i
<1>1. [i \in 1 .. k |-> Len(log) + i] \in Seq(Nat) /\ Len([i \in 1 .. k |-> Len(log) + i]) = k
  BY IsASeq
<1> QED
  BY <1>1 DEF NewEvents, LastSequence

\* The command served is a command, and its caller waits.
LEMMA TakenWaits ==
  ASSUME TInv, Serving
  PROVE  Head(queue) \in waiting /\ Head(queue) \in Callers /\ Taken \in Commands
<1>1. queue # <<>> /\ queue \in Seq(Callers)
  BY DEF TInv, TypeOK, QueueHoldsWaiting
<1>2. Len(queue) \in Nat \ {0} /\ Head(queue) = queue[1] /\ queue[1] \in Callers
  BY <1>1
<1> QED
  BY <1>2 DEF TInv, TypeOK, QueueHoldsWaiting, Taken

\* Answering takes the head of the queue, and no other caller, off.
LEMMA AnswerKeepsTInv ==
  ASSUME TInv, Serving, NEW S \in SUBSET Nat, Answer(S),
         receipts' \in [Commands -> Receipt],
         UNCHANGED <<log, applied, booted, snapshot, folded, published, base,
                     current, start, pending, rejecting>>
  PROVE  TInv'
<1> USE DEF TInv
<1>1. queue # <<>> /\ queue \in Seq(Callers)
  BY DEF TypeOK, QueueHoldsWaiting
<1>2. /\ queue' \in Seq(Callers) /\ Len(queue') = Len(queue) - 1
      /\ \A i \in 1 .. Len(queue') : queue'[i] = queue[i + 1]
      /\ Len(queue) \in Nat \ {0} /\ Head(queue) = queue[1]
  BY <1>1, HeadTailProperties DEF Answer
<1>3. answers' \in [Commands -> SUBSET Nat]
  BY TakenWaits DEF TypeOK, Answer
<1>4. TypeOK'
  BY <1>2, <1>3 DEF TypeOK, Answer, WorkerSteps
<1>5. WithinLog'
  BY DEF WithinLog
<1>6. QueueHoldsWaiting'
  <2>1. ASSUME NEW i \in 1 .. Len(queue') PROVE queue'[i] \in waiting'
    <3>1. i + 1 \in 1 .. Len(queue) /\ 1 \in 1 .. Len(queue) /\ i + 1 # 1
      BY <1>2
    <3>2. queue[i + 1] \in waiting /\ queue[i + 1] # queue[1]
      BY <3>1 DEF QueueHoldsWaiting
    <3> QED
      BY <1>2, <3>2 DEF Answer
  <2>2. ASSUME NEW i \in 1 .. Len(queue'), NEW j \in 1 .. Len(queue'), queue'[i] = queue'[j]
        PROVE  i = j
    <3>1. i + 1 \in 1 .. Len(queue) /\ j + 1 \in 1 .. Len(queue)
      BY <1>2
    <3>2. i + 1 = j + 1
      BY <1>2, <2>2, <3>1 DEF QueueHoldsWaiting
    <3> QED
      BY <3>2
  <2>3. ~Serving'
    BY DEF Serving, Answer
  <2> QED
    BY <2>1, <2>2, <2>3 DEF QueueHoldsWaiting
<1> QED
  BY <1>4, <1>5, <1>6

\* A step that neither takes nor answers, nor dispatches, leaves the queue alone.
LEMMA SameQueue ==
  ASSUME QueueHoldsWaiting, UNCHANGED <<queue, waiting>>, Serving' => Serving
  PROVE  QueueHoldsWaiting'
  BY DEF QueueHoldsWaiting

\* The transaction appends to the log and moves every projector to its end.
LEMMA StoreKeepsPositions ==
  ASSUME TInv, Serving, NEW k \in 1 .. MaxPerCommand, StoreCommand(k)
  PROVE  /\ log' \in Seq(Commands \cup {NoCommand})
         /\ Len(log') = Len(log) + k /\ Len(log) \in Nat /\ k \in Nat \ {0}
         /\ \A i \in 1 .. Len(log) : log'[i] = log[i]
         /\ \A i \in Len(log) + 1 .. Len(log) + k : log'[i] = Taken
         /\ applied' \in [Projectors -> Nat]
         /\ \A p \in Projectors : applied'[p] = Len(log')
         /\ receipts' \in [Commands -> Receipt]
<1>1. log \in Seq(Commands \cup {NoCommand}) /\ Taken \in Commands /\ Len(log) \in Nat
  BY TakenWaits DEF TInv, TypeOK
<1>2. k \in Nat \ {0}
  BY EngineAssumption
<1> DEFINE new == [i \in 1 .. k |-> Taken]
<1>3. new \in Seq(Commands \cup {NoCommand}) /\ Len(new) = k
  BY <1>1, <1>2, IsASeq
<1>4. \A i \in 1 .. k : new[i] = Taken
  OBVIOUS
<1>5. log' = log \o new
  BY DEF StoreCommand
<1> HIDE DEF new
<1>6. /\ log' \in Seq(Commands \cup {NoCommand}) /\ Len(log') = Len(log) + k
      /\ \A i \in 1 .. Len(log) : log'[i] = log[i]
      /\ \A i \in Len(log) + 1 .. Len(log) + k : log'[i] = new[i - Len(log)]
  BY <1>1, <1>2, <1>3, <1>5, ConcatProperties
<1>7. \A i \in Len(log) + 1 .. Len(log) + k : i - Len(log) \in 1 .. k
  BY <1>1, <1>2
<1>8. \A i \in Len(log) + 1 .. Len(log) + k : log'[i] = Taken
  BY <1>4, <1>6, <1>7
<1>9. receipts' \in [Commands -> Receipt]
  BY <1>1, <1>2 DEF StoreCommand, TInv, TypeOK, Receipt, LastSequence
<1>10. applied' \in [Projectors -> Nat] /\ \A p \in Projectors : applied'[p] = Len(log')
  BY <1>1, <1>2, <1>6 DEF StoreCommand, LastSequence
<1> QED
  BY <1>1, <1>2, <1>6, <1>8, <1>9, <1>10

LEMMA InitTInv == Init => TInv
<1> SUFFICES ASSUME Init PROVE TInv
  OBVIOUS
<1>1. PICK n \in 0 .. Backlog, new \in SUBSET Projectors :
        /\ log = [i \in 1 .. n |-> NoCommand]
        /\ applied = [p \in Projectors |-> IF p \in new THEN 0 ELSE n]
  BY DEF Init
<1>2. n \in Nat
  BY EngineAssumption
<1>3. log \in Seq(Commands \cup {NoCommand}) /\ Len(log) = n
  BY <1>1, <1>2, IsASeq
<1>a. applied \in [Projectors -> Nat]
  BY <1>1, <1>2
<1>b. receipts \in [Commands -> Receipt] /\ answers \in [Commands -> SUBSET Nat]
  BY DEF Init, NoReceipt, Receipt
<1>c. folded \in Seq(Nat) /\ published \in Seq(Nat) /\ pending \in Seq(Nat) /\ queue \in Seq(Callers)
  BY EmptySeq DEF Init
<1>4. TypeOK
  BY <1>3, <1>a, <1>b, <1>c DEF Init, TypeOK, WorkerSteps
<1>5. WithinLog
  BY <1>1, <1>2, <1>3 DEF Init, WithinLog
<1>6. QueueHoldsWaiting
  BY DEF Init, QueueHoldsWaiting, Serving
<1> QED
  BY <1>4, <1>5, <1>6 DEF TInv

\* Every step keeps types, positions and the queue, one case per action.
LEMMA StepTInv == TInv /\ [Next]_vars => TInv'
<1> SUFFICES ASSUME TInv, [Next]_vars PROVE TInv'
  OBVIOUS
<1> USE DEF TInv
<1>a. Len(log) \in Nat /\ log \in Seq(Commands \cup {NoCommand})
  BY DEF TypeOK
<1>1. CASE BeginBoot
  <2>1. TypeOK' /\ WithinLog'
    BY <1>1 DEF BeginBoot, TypeOK, WithinLog, WorkerSteps, durable, callerVars
  <2> QED
    BY <1>1, <2>1, SameQueue DEF BeginBoot, callerVars, Serving
<1>2. ASSUME NEW p \in Projectors, BootProjector(p) PROVE TInv'
  <2>1. applied[p] \in Nat /\ applied[p] <= Len(log)
    BY DEF TypeOK, WithinLog
  <2>2. LastRead(applied[p]) \in Nat /\ LastRead(applied[p]) <= Len(log)
    BY <1>a, <2>1, ReadFromType
  <2>3. TypeOK' /\ WithinLog'
    BY <1>2, <2>2 DEF BootProjector, TypeOK, WithinLog, callerVars, dispatching
  <2> QED
    BY <1>2, <2>3, SameQueue DEF BootProjector, callerVars, dispatching, Serving
<1>3. CASE Start
  <2>1. PICK p \in Projectors : snapshot' = applied[p]
    BY <1>3 DEF Start
  <2>2. snapshot' \in Nat /\ snapshot' <= Len(log)
    BY <2>1 DEF TypeOK, WithinLog
  <2>3. current' \in BOOLEAN
    BY <1>3 DEF Start
  <2>4. TypeOK'
    BY <1>3, <1>a, <2>2, <2>3, EmptySeq
    DEF Start, TypeOK, WorkerSteps, durable, callerVars, LastSequence
  <2>5. WithinLog'
    BY <1>3, <1>a, <2>2 DEF Start, WithinLog, durable, LastSequence
  <2> QED
    BY <1>3, <2>4, <2>5, SameQueue DEF Start, callerVars, Serving
<1>4. ASSUME NEW d \in Callers, NEW c \in Commands, Dispatch(d, c) PROVE TInv'
  <2>1. queue \in Seq(Callers) /\ queue' = Append(queue, d)
    BY <1>4 DEF Dispatch, TypeOK
  <2>2. /\ queue' \in Seq(Callers) /\ Len(queue') = Len(queue) + 1 /\ Len(queue) \in Nat
        /\ \A i \in 1 .. Len(queue) : queue'[i] = queue[i]
        /\ queue'[Len(queue) + 1] = d
    BY <2>1, AppendProperties
  <2>3. TypeOK' /\ WithinLog'
    BY <1>4, <2>2 DEF Dispatch, TypeOK, WithinLog, durable, dispatching
  <2>4. \A i \in 1 .. Len(queue') : i \in 1 .. Len(queue) \/ i = Len(queue) + 1
    BY <2>2
  <2>5. \A i \in 1 .. Len(queue) : queue[i] \in waiting /\ queue[i] # d
    BY <1>4 DEF Dispatch, QueueHoldsWaiting
  <2>6. \A i \in 1 .. Len(queue') : queue'[i] \in waiting'
    BY <1>4, <2>2, <2>4, <2>5 DEF Dispatch
  <2>7. \A i, j \in 1 .. Len(queue') : queue'[i] = queue'[j] => i = j
    BY <2>2, <2>4, <2>5 DEF QueueHoldsWaiting
  <2>8. queue' # <<>>
    BY <2>2
  <2> QED
    BY <2>3, <2>6, <2>7, <2>8 DEF QueueHoldsWaiting
<1>5. CASE Take
  <2>1. TypeOK' /\ WithinLog'
    BY <1>5, EmptySeq DEF Take, TypeOK, WithinLog, WorkerSteps, durable, callerVars
  <2> QED
    BY <1>5, <2>1 DEF Take, QueueHoldsWaiting, callerVars
<1>6. CASE AnswerFromReceipt
  <2>1. Serving
    BY <1>6 DEF AnswerFromReceipt, Serving
  <2>2. receipts[Taken].sequence \in Nat
    BY <2>1, TakenWaits DEF TypeOK, Receipt
  <2>3. receipts' \in [Commands -> Receipt]
    BY <1>6 DEF AnswerFromReceipt, durable, TypeOK
  <2> DEFINE S == IF receipts[Taken].status = "accepted" THEN {receipts[Taken].sequence} ELSE {}
  <2>4. S \in SUBSET Nat
    BY <2>2
  <2>5. Answer(S)
    BY <1>6 DEF AnswerFromReceipt
  <2> HIDE DEF S
  <2> QED
    BY <1>6, <2>1, <2>3, <2>4, <2>5, AnswerKeepsTInv DEF AnswerFromReceipt, durable
<1>7. CASE FindNoReceipt \/ Reject \/ StorageFails
  <2>1. TypeOK' /\ WithinLog'
    BY <1>7 DEF FindNoReceipt, Reject, StorageFails, TypeOK, WithinLog, WorkerSteps,
                durable, callerVars
  <2> QED
    BY <1>7, <2>1, SameQueue DEF FindNoReceipt, Reject, StorageFails, callerVars, Serving
<1>8. ASSUME NEW k \in 1 .. MaxPerCommand, Commit(k) PROVE TInv'
  <2>1. Serving /\ StoreCommand(k)
    BY <1>8 DEF Commit, Serving
  <2>2. /\ log' \in Seq(Commands \cup {NoCommand}) /\ Len(log') = Len(log) + k
        /\ k \in Nat /\ applied' \in [Projectors -> Nat]
        /\ \A p \in Projectors : applied'[p] = Len(log')
        /\ receipts' \in [Commands -> Receipt]
    BY <2>1, StoreKeepsPositions
  <2>3. NewEvents(k) \in Seq(Nat)
    BY <1>a, <2>2, NewEventsType
  <2>4. folded' \in Seq(Nat) /\ pending' \in Seq(Nat)
    BY <1>8, <2>3, ConcatProperties DEF Commit, TypeOK
  <2>5. snapshot' = Len(log')
    BY <1>8, <2>2 DEF Commit, LastSequence
  <2>6. TypeOK'
    BY <1>8, <1>a, <2>2, <2>4, <2>5 DEF Commit, TypeOK, WorkerSteps, callerVars
  <2>7. WithinLog'
    BY <1>8, <1>a, <2>2, <2>5 DEF Commit, WithinLog, TypeOK
  <2> QED
    BY <1>8, <2>1, <2>6, <2>7, SameQueue DEF Commit, callerVars
<1>9. ASSUME NEW k \in 1 .. MaxPerCommand, CommitReportsFailure(k) PROVE TInv'
  <2>1. Serving /\ StoreCommand(k)
    BY <1>9 DEF CommitReportsFailure, Serving
  <2>2. /\ log' \in Seq(Commands \cup {NoCommand}) /\ Len(log') = Len(log) + k
        /\ k \in Nat /\ applied' \in [Projectors -> Nat]
        /\ \A p \in Projectors : applied'[p] = Len(log')
        /\ receipts' \in [Commands -> Receipt]
    BY <2>1, StoreKeepsPositions
  <2>3. TypeOK'
    BY <1>9, <2>2 DEF CommitReportsFailure, TypeOK, WorkerSteps, callerVars
  <2>4. WithinLog'
    BY <1>9, <1>a, <2>2 DEF CommitReportsFailure, WithinLog, TypeOK
  <2> QED
    BY <1>9, <2>1, <2>3, <2>4, SameQueue DEF CommitReportsFailure, callerVars
<1>10. CASE PublishNext
  <2>1. /\ pending \in Seq(Nat) /\ pending # <<>> /\ published \in Seq(Nat)
    BY <1>10 DEF PublishNext, TypeOK
  <2>2. Head(pending) \in Nat /\ Tail(pending) \in Seq(Nat)
    BY <2>1, HeadTailProperties
  <2>3. published' \in Seq(Nat) /\ pending' \in Seq(Nat)
    BY <1>10, <2>1, <2>2, AppendProperties DEF PublishNext
  <2>4. TypeOK' /\ WithinLog'
    BY <1>10, <2>3 DEF PublishNext, TypeOK, WithinLog, durable, callerVars
  <2> QED
    BY <1>10, <2>4, SameQueue DEF PublishNext, callerVars, Serving
<1>11. CASE AnswerCommitted
  <2>1. Serving /\ Answer({snapshot}) /\ {snapshot} \in SUBSET Nat
    BY <1>11 DEF AnswerCommitted, Serving, TypeOK
  <2>2. receipts' \in [Commands -> Receipt]
    BY <1>11 DEF AnswerCommitted, durable, TypeOK
  <2> QED
    BY <1>11, <2>1, <2>2, AnswerKeepsTInv DEF AnswerCommitted, durable
<1>12. CASE Reconcile
  <2>1. start \in Nat /\ start <= Len(log)
    BY DEF TypeOK, WithinLog
  <2>2. ReadFrom(start) \in Seq(Nat) /\ LastRead(start) \in Nat /\ LastRead(start) <= Len(log)
    BY <1>a, <2>1, ReadFromType
  <2>3. folded' \in Seq(Nat)
    BY <1>12, <2>2, ConcatProperties DEF Reconcile, TypeOK
  <2>4. TypeOK' /\ WithinLog'
    BY <1>12, <2>2, <2>3 DEF Reconcile, TypeOK, WithinLog, WorkerSteps, durable, callerVars
  <2> QED
    BY <1>12, <2>4, SameQueue DEF Reconcile, callerVars, Serving
<1>13. CASE ReconcileFails
  <2>1. current' \in BOOLEAN
    BY <1>13 DEF ReconcileFails
  <2>2. TypeOK' /\ WithinLog'
    BY <1>13, <2>1 DEF ReconcileFails, TypeOK, WithinLog, WorkerSteps, durable, callerVars
  <2> QED
    BY <1>13, <2>2, SameQueue DEF ReconcileFails, callerVars, Serving
<1>14. CASE AnswerFailed
  <2>1. Serving /\ Answer({}) /\ {} \in SUBSET Nat
    BY <1>14 DEF AnswerFailed, Serving
  <2>2. receipts' \in [Commands -> Receipt]
    <3>1. CASE UNCHANGED receipts
      BY <3>1 DEF TypeOK
    <3>2. CASE receipts' = [receipts EXCEPT ![Taken] = [status |-> "rejected", sequence |-> snapshot]]
      BY <3>2 DEF TypeOK, Receipt
    <3> QED
      BY <1>14, <3>1, <3>2 DEF AnswerFailed
  <2> QED
    BY <1>14, <2>1, <2>2, AnswerKeepsTInv DEF AnswerFailed
<1>15. CASE Crash
  <2>1. TypeOK' /\ WithinLog'
    BY <1>15, EmptySeq DEF Crash, TypeOK, WithinLog, WorkerSteps, durable
  <2> QED
    BY <1>15, <2>1 DEF Crash, QueueHoldsWaiting, Serving
<1>16. CASE UNCHANGED vars
  <2>1. TypeOK' /\ WithinLog'
    BY <1>16 DEF vars, durable, callerVars, dispatching, TypeOK, WithinLog
  <2> QED
    BY <1>16, <2>1, SameQueue DEF vars, callerVars, dispatching, Serving
<1> QED
  BY <1>1, <1>2, <1>3, <1>4, <1>5, <1>6, <1>7, <1>8, <1>9, <1>10, <1>11, <1>12,
     <1>13, <1>14, <1>15, <1>16 DEF Next, Boot, Work, Fail

\* Types hold, positions stay within the log, and each waiting caller is in
\* the queue once (TypeOK and what its induction needs).
THEOREM TypesHold == Spec => []TypeOK
<1>1. Spec => []TInv
  BY InitTInv, StepTInv, PTL DEF Spec
<1> QED
  BY <1>1, PTL DEF TInv

-----------------------------------------------------------------------------
\* What the worker knows of the receipt of the command it serves.
KnowsReceipt ==
  /\ worker \in {"receipt", "decide"} => ~rejecting
  /\ worker = "decide" => receipts[Taken].status = "none"
  /\ worker \in {"reconcile", "republish"} /\ rejecting => receipts[Taken].status = "none"
  /\ worker = "publish" => receipts[Taken] = [status |-> "accepted", sequence |-> snapshot]

RInv == KnowsReceipt /\ ReceiptsMatchLog /\ AnswersAreReceipts

\* The log and the receipts decide what these two say.
LEMMA SameReceipts ==
  ASSUME ReceiptsMatchLog, AnswersAreReceipts, UNCHANGED <<log, receipts, answers>>
  PROVE  ReceiptsMatchLog' /\ AnswersAreReceipts'
  BY DEF ReceiptsMatchLog, AnswersAreReceipts, EventsOf

\* A caller is answered with nothing, or with what the receipt says.
LEMMA AnswerKeepsRInv ==
  ASSUME TInv, Serving, RInv, NEW S \in SUBSET Nat, Answer(S), UNCHANGED <<log, receipts>>,
         \A n \in S : receipts[Taken] = [status |-> "accepted", sequence |-> n]
  PROVE  RInv'
<1>1. KnowsReceipt'
  BY DEF KnowsReceipt, Answer
<1>2. ReceiptsMatchLog'
  BY DEF RInv, ReceiptsMatchLog, EventsOf
<1>3. ASSUME NEW c \in Commands, NEW n \in answers'[c]
      PROVE  receipts'[c] = [status |-> "accepted", sequence |-> n]
  <2>1. n \in answers[c] \/ (c = Taken /\ n \in S)
    BY <1>3 DEF Answer, TInv, TypeOK
  <2> QED
    BY <2>1 DEF RInv, AnswersAreReceipts
<1> QED
  BY <1>1, <1>2, <1>3 DEF RInv, AnswersAreReceipts

\* A command without a receipt was never answered with a sequence.
LEMMA NoReceiptNoAnswer ==
  ASSUME AnswersAreReceipts, NEW c \in Commands, receipts[c].status = "none"
  PROVE  answers[c] = {}
<1> SUFFICES ASSUME NEW n \in answers[c] PROVE FALSE
  OBVIOUS
<1>1. receipts[c] = [status |-> "accepted", sequence |-> n]
  BY DEF AnswersAreReceipts
<1>2. receipts[c].status = "accepted"
  BY <1>1
<1> QED
  BY <1>2

\* The transaction of a command with no receipt stores its only run of events.
LEMMA StoreKeepsMatch ==
  ASSUME TInv, Serving, ReceiptsMatchLog, AnswersAreReceipts,
         NEW k \in 1 .. MaxPerCommand, StoreCommand(k),
         receipts[Taken].status = "none", UNCHANGED answers
  PROVE  ReceiptsMatchLog' /\ AnswersAreReceipts'
<1>1. /\ Len(log') = Len(log) + k /\ Len(log) \in Nat /\ k \in Nat \ {0}
      /\ \A i \in 1 .. Len(log) : log'[i] = log[i]
      /\ \A i \in Len(log) + 1 .. Len(log) + k : log'[i] = Taken
      /\ log' \in Seq(Commands \cup {NoCommand})
  BY StoreKeepsPositions
<1>2. DOMAIN log = 1 .. Len(log) /\ DOMAIN log' = 1 .. Len(log')
  BY <1>1 DEF TInv, TypeOK
<1>3. PICK t \in Commands : t = Taken
  BY TakenWaits
<1>4. EventsOf(t) = {}
  BY <1>3 DEF ReceiptsMatchLog
<1>5. receipts' = [receipts EXCEPT ![t] = [status |-> "accepted", sequence |-> Len(log) + k]]
  BY <1>3 DEF StoreCommand, LastSequence
<1>6. EventsOf(t)' = Len(log) + 1 .. Len(log) + k
  <2>1. EventsOf(t)' = {i \in 1 .. Len(log) + k : log'[i] = t}
    BY <1>1, <1>2 DEF EventsOf
  <2>2. \A i \in 1 .. Len(log) : log'[i] # t
    BY <1>1, <1>2, <1>4 DEF EventsOf
  <2> QED
    BY <1>1, <1>3, <2>1, <2>2
<1>7. ASSUME NEW c \in Commands, c # t PROVE EventsOf(c)' = EventsOf(c)
  <2>1. EventsOf(c)' = {i \in 1 .. Len(log) + k : log'[i] = c}
    BY <1>1, <1>2 DEF EventsOf
  <2>2. EventsOf(c) = {i \in 1 .. Len(log) : log[i] = c}
    BY <1>2 DEF EventsOf
  <2> QED
    BY <1>1, <1>3, <1>7, <2>1, <2>2
<1>8. ASSUME NEW c \in Commands, c # t PROVE receipts'[c] = receipts[c]
  BY <1>5, <1>8 DEF TInv, TypeOK
<1>9. receipts'[t] = [status |-> "accepted", sequence |-> Len(log) + k]
  BY <1>5 DEF TInv, TypeOK
<1>10. ReceiptsMatchLog'
  <2>1. Len(log) + 1 .. Len(log) + k = receipts'[t].sequence - k + 1 .. receipts'[t].sequence
    BY <1>1, <1>9
  <2>2. ASSUME NEW c \in Commands, c # t
        PROVE  IF receipts'[c].status = "accepted"
               THEN \E j \in 1 .. MaxPerCommand :
                      EventsOf(c)' = receipts'[c].sequence - j + 1 .. receipts'[c].sequence
               ELSE EventsOf(c)' = {}
    BY <1>7, <1>8, <2>2 DEF ReceiptsMatchLog
  <2> QED
    BY <1>6, <1>9, <2>1, <2>2 DEF ReceiptsMatchLog
<1>11. AnswersAreReceipts'
  <2>1. answers[t] = {}
    BY <1>3, NoReceiptNoAnswer
  <2> QED
    BY <1>8, <2>1 DEF AnswersAreReceipts
<1> QED
  BY <1>10, <1>11

LEMMA InitRInv == Init => RInv
<1> SUFFICES ASSUME Init PROVE RInv
  OBVIOUS
<1>1. PICK n \in 0 .. Backlog : log = [i \in 1 .. n |-> NoCommand]
  BY DEF Init
<1>2. ReceiptsMatchLog
  BY <1>1, EngineAssumption DEF Init, ReceiptsMatchLog, EventsOf, NoReceipt
<1> QED
  BY <1>2 DEF Init, RInv, KnowsReceipt, AnswersAreReceipts

LEMMA StepRInv == TInv /\ RInv /\ [Next]_vars => RInv'
<1> SUFFICES ASSUME TInv, RInv, [Next]_vars PROVE RInv'
  OBVIOUS
<1>1. CASE Boot \/ Crash
  <2>1. UNCHANGED <<log, receipts, answers>>
    BY <1>1 DEF Boot, BeginBoot, BootProjector, Start, Crash, durable, callerVars
  <2>2. worker' \in {"boot", "idle", "down"}
    BY <1>1 DEF Boot, BeginBoot, BootProjector, Start, Crash, dispatching
  <2>3. KnowsReceipt'
    BY <2>2 DEF KnowsReceipt
  <2> QED
    BY <2>1, <2>3, SameReceipts DEF RInv
<1>2. ASSUME NEW d \in Callers, NEW c \in Commands, Dispatch(d, c) PROVE RInv'
  <2>1. UNCHANGED <<log, receipts, answers, snapshot, worker, rejecting>>
    BY <1>2 DEF Dispatch, durable, dispatching
  <2>2. CASE ~Serving
    <3>1. worker' \notin {"receipt", "decide", "publish", "reconcile", "republish"}
      BY <2>1, <2>2 DEF Serving
    <3>2. KnowsReceipt'
      BY <3>1 DEF KnowsReceipt
    <3> QED
      BY <2>1, <3>2, SameReceipts DEF RInv
  <2>3. CASE Serving
    <3>1. queue # <<>> /\ queue \in Seq(Callers) /\ queue' = Append(queue, d)
      BY <1>2, <2>3 DEF Dispatch, TInv, TypeOK, QueueHoldsWaiting
    <3>2. Head(queue') = Head(queue)
      BY <3>1, HeadTailAppend
    <3>3. Head(queue) \in Callers /\ Head(queue) # d
      BY <1>2, <2>3, TakenWaits DEF Dispatch
    <3>4. command'[Head(queue)] = command[Head(queue)]
      BY <1>2, <3>3 DEF Dispatch, TInv, TypeOK
    <3>5. Taken' = Taken
      BY <3>2, <3>4 DEF Taken
    <3>6. KnowsReceipt'
      BY <2>1, <3>5 DEF KnowsReceipt, RInv
    <3> QED
      BY <2>1, <3>6, SameReceipts DEF RInv
  <2> QED
    BY <2>2, <2>3
<1>3. CASE Take \/ FindNoReceipt \/ Reject \/ StorageFails
  <2>1. UNCHANGED <<log, receipts, answers, queue, command>>
    BY <1>3 DEF Take, FindNoReceipt, Reject, StorageFails, durable, callerVars
  <2>2. Taken' = Taken
    BY <2>1 DEF Taken
  <2>3. KnowsReceipt'
    BY <1>3, <2>1, <2>2
    DEF Take, FindNoReceipt, Reject, StorageFails, KnowsReceipt, RInv
  <2> QED
    BY <2>1, <2>3, SameReceipts DEF RInv
<1>4. CASE AnswerFromReceipt
  <2>1. Serving
    BY <1>4 DEF AnswerFromReceipt, Serving
  <2>2. receipts[Taken] \in Receipt
    BY <2>1, TakenWaits DEF TInv, TypeOK
  <2> DEFINE S == IF receipts[Taken].status = "accepted" THEN {receipts[Taken].sequence} ELSE {}
  <2>3. S \in SUBSET Nat
    BY <2>2 DEF Receipt
  <2>4. \A n \in S : receipts[Taken] = [status |-> "accepted", sequence |-> n]
    BY <2>2 DEF Receipt
  <2>5. Answer(S) /\ UNCHANGED <<log, receipts>>
    BY <1>4 DEF AnswerFromReceipt, durable
  <2> HIDE DEF S
  <2> QED
    BY <2>1, <2>3, <2>4, <2>5, AnswerKeepsRInv
<1>5. ASSUME NEW k \in 1 .. MaxPerCommand, Commit(k) PROVE RInv'
  <2>1. Serving /\ StoreCommand(k) /\ UNCHANGED <<answers, queue, command>>
    BY <1>5 DEF Commit, Serving, callerVars
  <2>2. receipts[Taken].status = "none"
    BY <1>5 DEF Commit, RInv, KnowsReceipt
  <2>3. ReceiptsMatchLog' /\ AnswersAreReceipts'
    BY <2>1, <2>2, StoreKeepsMatch DEF RInv
  <2>4. Taken' = Taken /\ Taken \in Commands
    BY <2>1, TakenWaits DEF Taken
  <2>5. receipts'[Taken] = [status |-> "accepted", sequence |-> snapshot']
    BY <1>5, <2>1, <2>4 DEF Commit, StoreCommand, TInv, TypeOK
  <2>6. KnowsReceipt'
    BY <1>5, <2>4, <2>5 DEF Commit, KnowsReceipt
  <2> QED
    BY <2>3, <2>6 DEF RInv
<1>6. ASSUME NEW k \in 1 .. MaxPerCommand, CommitReportsFailure(k) PROVE RInv'
  <2>1. Serving /\ StoreCommand(k) /\ UNCHANGED <<answers, rejecting>>
    BY <1>6 DEF CommitReportsFailure, Serving, callerVars
  <2>2. receipts[Taken].status = "none" /\ ~rejecting
    BY <1>6 DEF CommitReportsFailure, RInv, KnowsReceipt
  <2>3. ReceiptsMatchLog' /\ AnswersAreReceipts'
    BY <2>1, <2>2, StoreKeepsMatch DEF RInv
  <2>4. KnowsReceipt'
    BY <1>6, <2>1, <2>2 DEF CommitReportsFailure, KnowsReceipt
  <2> QED
    BY <2>3, <2>4 DEF RInv
<1>7. CASE PublishNext \/ ReconcileFails
  <2>1. UNCHANGED <<log, receipts, answers, queue, command, snapshot, rejecting>>
    BY <1>7 DEF PublishNext, ReconcileFails, durable, callerVars
  <2>2. Taken' = Taken
    BY <2>1 DEF Taken
  <2>3. KnowsReceipt'
    BY <1>7, <2>1, <2>2 DEF PublishNext, ReconcileFails, KnowsReceipt, RInv
  <2> QED
    BY <2>1, <2>3, SameReceipts DEF RInv
<1>8. CASE AnswerCommitted
  <2>1. Serving /\ Answer({snapshot}) /\ {snapshot} \in SUBSET Nat /\ UNCHANGED <<log, receipts>>
    BY <1>8 DEF AnswerCommitted, Serving, TInv, TypeOK, durable
  <2>2. receipts[Taken] = [status |-> "accepted", sequence |-> snapshot]
    BY <1>8 DEF AnswerCommitted, RInv, KnowsReceipt
  <2> QED
    BY <2>1, <2>2, AnswerKeepsRInv
<1>9. CASE Reconcile
  <2>1. UNCHANGED <<log, receipts, answers, queue, command, rejecting>>
    BY <1>9 DEF Reconcile, durable, callerVars
  <2>2. Taken' = Taken
    BY <2>1 DEF Taken
  <2>3. KnowsReceipt'
    BY <1>9, <2>1, <2>2 DEF Reconcile, KnowsReceipt, RInv
  <2> QED
    BY <2>1, <2>3, SameReceipts DEF RInv
<1>10. CASE AnswerFailed
  <2>1. Serving /\ Answer({}) /\ UNCHANGED log
    BY <1>10 DEF AnswerFailed, Serving
  <2>2. CASE UNCHANGED receipts
    BY <2>1, <2>2, AnswerKeepsRInv
  <2>3. CASE rejecting /\ receipts' = [receipts EXCEPT ![Taken] =
                                        [status |-> "rejected", sequence |-> snapshot]]
    <3>1. PICK t \in Commands : t = Taken
      BY <2>1, TakenWaits
    <3>2. receipts[t].status = "none"
      BY <1>10, <2>3, <3>1 DEF AnswerFailed, RInv, KnowsReceipt
    <3>3. receipts'[t].status = "rejected" /\ \A c \in Commands : c # t => receipts'[c] = receipts[c]
      BY <2>3, <3>1 DEF TInv, TypeOK
    <3>4. \A c \in Commands : EventsOf(c)' = EventsOf(c)
      BY <2>1 DEF EventsOf
    <3>5. ReceiptsMatchLog'
      BY <3>2, <3>3, <3>4 DEF ReceiptsMatchLog, RInv
    <3>6. \A c \in Commands : answers'[c] = answers[c]
      BY <2>1, <3>1 DEF Answer, TInv, TypeOK
    <3>7. answers[t] = {}
      BY <3>2, NoReceiptNoAnswer DEF RInv
    <3>8. AnswersAreReceipts'
      BY <3>3, <3>6, <3>7 DEF RInv, AnswersAreReceipts
    <3>9. KnowsReceipt'
      BY <2>1 DEF Answer, KnowsReceipt
    <3> QED
      BY <3>5, <3>8, <3>9 DEF RInv
  <2> QED
    BY <1>10, <2>2, <2>3 DEF AnswerFailed
<1>11. CASE UNCHANGED vars
  <2>1. KnowsReceipt'
    BY <1>11 DEF vars, durable, callerVars, dispatching, KnowsReceipt, Taken, RInv
  <2> QED
    BY <1>11, <2>1, SameReceipts DEF vars, durable, callerVars, RInv
<1> QED
  BY <1>1, <1>2, <1>3, <1>4, <1>5, <1>6, <1>7, <1>8, <1>9, <1>10, <1>11 DEF Next, Work, Fail

\* A command has the events its receipt stands for, and each caller that was
\* given a sequence was given the one in the receipt: retries agree.
THEOREM ReceiptsAndLogAgree == Spec => []ReceiptsMatchLog /\ []AnswersAreReceipts
<1>1. Spec => [](TInv /\ RInv)
  BY InitTInv, StepTInv, InitRInv, StepRInv, PTL DEF Spec
<1> QED
  BY <1>1, PTL DEF RInv

\* A step changes a receipt only of a command that had none.
LEMMA StepFinal ==
  TInv /\ RInv /\ [Next]_vars =>
    \A c \in Commands : receipts[c].status # "none" => receipts'[c] = receipts[c]
<1> SUFFICES ASSUME TInv, RInv, [Next]_vars, NEW c \in Commands, receipts[c].status # "none"
             PROVE  receipts'[c] = receipts[c]
  OBVIOUS
<1>1. ASSUME NEW k \in 1 .. MaxPerCommand, StoreCommand(k), worker = "decide"
      PROVE  receipts'[c] = receipts[c]
  BY <1>1 DEF StoreCommand, RInv, KnowsReceipt, TInv, TypeOK
<1>2. CASE AnswerFailed
  BY <1>2 DEF AnswerFailed, RInv, KnowsReceipt, TInv, TypeOK
<1>3. CASE Boot \/ Crash \/ \E d \in Callers, b \in Commands : Dispatch(d, b)
  BY <1>3 DEF Boot, BeginBoot, BootProjector, Start, Crash, Dispatch, durable
<1>4. CASE Take \/ AnswerFromReceipt \/ FindNoReceipt \/ Reject \/ StorageFails
           \/ PublishNext \/ AnswerCommitted \/ Reconcile \/ ReconcileFails
  BY <1>4 DEF Take, AnswerFromReceipt, FindNoReceipt, Reject, StorageFails, PublishNext,
              AnswerCommitted, Reconcile, ReconcileFails, durable
<1>5. CASE \E k \in 1 .. MaxPerCommand : Commit(k) \/ CommitReportsFailure(k)
  BY <1>1, <1>5 DEF Commit, CommitReportsFailure
<1>6. CASE UNCHANGED vars
  BY <1>6 DEF vars, durable
<1> QED
  BY <1>2, <1>3, <1>4, <1>5, <1>6 DEF Next, Work, Fail

\* No retry changes a verdict: receipts, once written, stay as they are.
THEOREM VerdictsAreFinal == Spec => ReceiptsAreFinal
<1>1. Spec => [](TInv /\ RInv)
  BY InitTInv, StepTInv, InitRInv, StepRInv, PTL DEF Spec
<1> QED
  BY <1>1, StepFinal, PTL DEF Spec, ReceiptsAreFinal

-----------------------------------------------------------------------------
\* The events after base, n of them.
Run(n) == [i \in 1 .. n |-> base + i]

\* The read model is a run of the log from base; published and pending make it up.
FollowsLog ==
  /\ base <= snapshot /\ folded = Run(snapshot - base) /\ published \o pending = folded
  /\ worker # "reconcile" => snapshot = Len(log)
  /\ worker \in {"receipt", "decide", "reconcile"} => start = snapshot
  /\ worker = "reconcile" => Len(log) - start <= MaxPerCommand

NothingPending ==
  worker \in {"down", "boot", "idle", "receipt", "decide", "reconcile"} => pending = <<>>

MInv == NothingPending /\ (current /\ worker \notin {"down", "boot"} => FollowsLog)

LEMMA RunProperties ==
  ASSUME NEW n \in Nat, base \in Nat
  PROVE  Run(n) \in Seq(Nat) /\ Len(Run(n)) = n /\ \A i \in 1 .. n : Run(n)[i] = base + i
  BY IsASeq DEF Run

\* Continuing a run.
LEMMA RunContinues ==
  ASSUME base \in Nat, NEW a \in Nat, NEW c \in Nat, NEW s \in Seq(Nat), Len(s) = c,
         \A i \in 1 .. c : s[i] = base + a + i
  PROVE  Run(a) \o s = Run(a + c)
<1> DEFINE r == Run(a)
           t == Run(a + c)
<1>1. r \in Seq(Nat) /\ Len(r) = a /\ \A i \in 1 .. a : r[i] = base + i
  BY RunProperties
<1>s. a + c \in Nat
  OBVIOUS
<1>2. t \in Seq(Nat) /\ Len(t) = a + c /\ \A i \in 1 .. a + c : t[i] = base + i
  BY <1>s, RunProperties
<1> HIDE DEF r, t
<1>3. r \o s \in Seq(Nat) /\ Len(r \o s) = a + c
  BY <1>1, ConcatProperties
<1>4. ASSUME NEW i \in 1 .. a + c PROVE (r \o s)[i] = t[i]
  <2>1. CASE i <= a
    BY <1>1, <1>2, <2>1, ConcatProperties
  <2>2. CASE ~(i <= a)
    <3>1. i - a \in 1 .. c /\ (r \o s)[i] = s[i - a]
      BY <1>1, <2>2, ConcatProperties
    <3>2. s[i - a] = base + a + (i - a)
      BY <3>1
    <3> QED
      BY <1>2, <3>1, <3>2
  <2> QED
    BY <2>1, <2>2
<1>5. r \o s = t
  BY <1>2, <1>3, <1>4, SeqEqual
<1> QED
  BY <1>5 DEF r, t

\* Publishing moves an event from pending to published.
LEMMA PublishMoves ==
  ASSUME NEW p \in Seq(Nat), NEW q \in Seq(Nat), q # <<>>
  PROVE  Append(p, Head(q)) \o Tail(q) = p \o q
<1>1. Head(q) \in Nat /\ Tail(q) \in Seq(Nat) /\ <<Head(q)>> \in Seq(Nat)
  BY HeadTailProperties
<1>2. Append(p, Head(q)) = p \o <<Head(q)>>
  BY <1>1, AppendIsConcat
<1>3. <<Head(q)>> \o Tail(q) = q
  BY <1>1, ConcatSimplifications
<1> DEFINE h == <<Head(q)>>
           t == Tail(q)
<1> HIDE DEF h, t
<1>4. (p \o h) \o t = p \o (h \o t)
  BY <1>1, ConcatAssociative DEF h, t
<1> QED
  BY <1>2, <1>3, <1>4 DEF h, t

LEMMA InitMInv == Init => MInv
  BY DEF Init, MInv, NothingPending

\* An answer leaves the read model as it is.
LEMMA AnswerKeepsMInv ==
  ASSUME MInv, Serving, NEW S, Answer(S), pending = <<>>, worker # "reconcile",
         UNCHANGED <<log, snapshot, folded, published, base, current, start, pending>>
  PROVE  MInv'
<1>1. worker' = "idle" /\ worker \notin {"down", "boot"}
  BY DEF Answer, Serving
<1>2. NothingPending'
  BY DEF NothingPending
<1>3. ASSUME current PROVE FollowsLog'
  <2>1. FollowsLog
    BY <1>1, <1>3 DEF MInv
  <2> QED
    BY <1>1, <2>1 DEF FollowsLog, Run
<1> QED
  BY <1>2, <1>3 DEF MInv

\* Every step keeps the read model a run of the log.
LEMMA StepMInv == TInv /\ MInv /\ [Next]_vars => MInv'
<1> SUFFICES ASSUME TInv, MInv, [Next]_vars PROVE MInv'
  OBVIOUS
<1>a. /\ Len(log) \in Nat /\ base \in Nat /\ snapshot \in Nat /\ start \in Nat
      /\ folded \in Seq(Nat) /\ published \in Seq(Nat) /\ pending \in Seq(Nat)
  BY DEF TInv, TypeOK
<1>1. CASE BeginBoot \/ Crash \/ \E p \in Projectors : BootProjector(p)
  <2>1. worker' \in {"down", "boot"} /\ pending' = <<>>
    BY <1>1 DEF BeginBoot, Crash, BootProjector, dispatching, MInv, NothingPending
  <2> QED
    BY <2>1 DEF MInv, NothingPending
<1>2. CASE Start
  <2>1. pending' = <<>> /\ worker' = "idle" /\ published' = <<>> /\ folded' = <<>>
    BY <1>2 DEF Start, MInv, NothingPending
  <2>2. ASSUME current' PROVE FollowsLog'
    <3>1. snapshot' = Len(log') /\ base' = Len(log') /\ Len(log') \in Nat
      BY <1>2, <1>a, <2>2 DEF Start, LastSequence, durable
    <3>2. Run(snapshot - base)' = [i \in 1 .. 0 |-> base' + i]
      BY <3>1 DEF Run
    <3>3. <<>> \o <<>> = <<>> /\ [i \in 1 .. 0 |-> base' + i] = <<>>
      OBVIOUS
    <3> QED
      BY <2>1, <3>1, <3>2, <3>3 DEF FollowsLog
  <2> QED
    BY <2>1, <2>2 DEF MInv, NothingPending
<1>3. CASE Take \/ FindNoReceipt \/ Reject \/ StorageFails \/ ReconcileFails
           \/ \E d \in Callers, c \in Commands : Dispatch(d, c)
  <2>1. UNCHANGED <<log, base, snapshot, folded, published>>
    BY <1>3 DEF Take, FindNoReceipt, Reject, StorageFails, ReconcileFails, Dispatch, durable
  <2>2. pending' = pending /\ worker \notin {"down", "boot"}
    BY <1>3 DEF Take, FindNoReceipt, Reject, StorageFails, ReconcileFails, Dispatch,
                dispatching, MInv, NothingPending
  <2>3. NothingPending'
    BY <1>3, <2>2 DEF Take, FindNoReceipt, Reject, StorageFails, ReconcileFails, Dispatch,
                      dispatching, MInv, NothingPending
  <2>4. ASSUME current' PROVE FollowsLog'
    <3>1. current
      BY <1>3, <2>4 DEF Take, FindNoReceipt, Reject, StorageFails, ReconcileFails, Dispatch
    <3>2. FollowsLog
      BY <2>2, <3>1 DEF MInv
    <3>3. base' <= snapshot' /\ folded' = Run(snapshot - base) /\ published' \o pending' = folded'
      BY <2>1, <2>2, <3>2 DEF FollowsLog
    <3>4. Run(snapshot - base) = Run(snapshot - base)'
      BY <2>1 DEF Run
    <3>5. worker' # "reconcile" => snapshot' = Len(log')
      BY <1>3, <2>1, <2>4, <3>2
      DEF Take, FindNoReceipt, Reject, StorageFails, ReconcileFails, Dispatch, dispatching,
          FollowsLog, LastSequence
    <3>6. worker' \in {"receipt", "decide", "reconcile"} => start' = snapshot'
      BY <1>3, <2>1, <3>2
      DEF Take, FindNoReceipt, Reject, StorageFails, ReconcileFails, Dispatch, dispatching,
          FollowsLog
    <3>7. worker' = "reconcile" => Len(log') - start' <= MaxPerCommand
      <4>1. CASE Reject \/ StorageFails
        <5>1. start' = start /\ start = snapshot /\ snapshot = Len(log) /\ log' = log
          BY <2>1, <3>2, <4>1 DEF Reject, StorageFails, FollowsLog
        <5> QED
          BY <1>a, <5>1, EngineAssumption
      <4>2. CASE worker' = worker /\ start' = start /\ log' = log
        BY <3>2, <4>2 DEF FollowsLog
      <4>3. CASE Take \/ FindNoReceipt \/ ReconcileFails
        BY <4>3 DEF Take, FindNoReceipt, ReconcileFails
      <4> QED
        BY <1>3, <4>1, <4>2, <4>3 DEF Dispatch, dispatching, durable
    <3> QED
      BY <3>3, <3>4, <3>5, <3>6, <3>7 DEF FollowsLog
  <2> QED
    BY <2>3, <2>4 DEF MInv
<1>4. CASE AnswerFromReceipt \/ AnswerCommitted \/ AnswerFailed
  <2>1. Serving /\ pending = <<>> /\ worker # "reconcile" /\ \E S : Answer(S)
    BY <1>4 DEF AnswerFromReceipt, AnswerCommitted, AnswerFailed, Serving, MInv, NothingPending
  <2>2. UNCHANGED <<log, snapshot, folded, published, base, current, start, pending>>
    BY <1>4 DEF AnswerFromReceipt, AnswerCommitted, AnswerFailed, durable
  <2> QED
    BY <2>1, <2>2, AnswerKeepsMInv
<1>5. ASSUME NEW k \in 1 .. MaxPerCommand, Commit(k) PROVE MInv'
  <2>1. worker = "decide" /\ worker' = "publish" /\ pending = <<>> /\ StoreCommand(k) /\ Serving
    BY <1>5 DEF Commit, MInv, NothingPending, Serving
  <2>2. k \in Nat /\ Len(log') = Len(log) + k
    BY <2>1, StoreKeepsPositions
  <2>3. ASSUME current PROVE FollowsLog'
    <3>1. FollowsLog
      BY <2>1, <2>3 DEF MInv
    <3>2. snapshot = Len(log) /\ base <= snapshot /\ folded = Run(snapshot - base)
          /\ published = folded
      BY <1>a, <2>1, <3>1, ConcatEmptySeq DEF FollowsLog
    <3>3. NewEvents(k) \in Seq(Nat) /\ Len(NewEvents(k)) = k
          /\ \A i \in 1 .. k : NewEvents(k)[i] = Len(log) + i
      BY <1>a, <2>2, NewEventsType
    <3> DEFINE a == snapshot - base
    <3>4. a \in Nat /\ base + a = Len(log)
      BY <1>a, <3>2
    <3>5. \A i \in 1 .. k : NewEvents(k)[i] = base + a + i
      BY <3>3, <3>4
    <3> HIDE DEF a
    <3>6. Run(a) \o NewEvents(k) = Run(a + k)
      BY <1>a, <2>2, <3>3, <3>4, <3>5, RunContinues
    <3>c. base' = base /\ snapshot' = Len(log) + k
      BY <1>5 DEF Commit, LastSequence
    <3>7. base' = base /\ snapshot' = Len(log) + k /\ snapshot' - base' = a + k
      BY <1>a, <2>2, <3>4, <3>c DEF a
    <3>8. folded' = Run(a + k) /\ published' \o pending' = folded'
      BY <1>5, <3>2, <3>6 DEF Commit, a
    <3>9. Run(a + k) = Run(snapshot - base)'
      BY <3>7 DEF Run
    <3>10. base' <= snapshot' /\ snapshot' = Len(log')
      BY <1>a, <2>2, <3>2, <3>7
    <3> QED
      BY <2>1, <3>8, <3>9, <3>10 DEF FollowsLog
  <2> QED
    BY <1>5, <2>1, <2>3 DEF MInv, NothingPending, Commit
<1>6. ASSUME NEW k \in 1 .. MaxPerCommand, CommitReportsFailure(k) PROVE MInv'
  <2>1. worker = "decide" /\ worker' = "reconcile" /\ StoreCommand(k) /\ Serving
        /\ UNCHANGED <<snapshot, folded, published, base, current, start, pending>>
        /\ pending = <<>>
    BY <1>6 DEF CommitReportsFailure, MInv, NothingPending, Serving
  <2>2. k \in Nat /\ k <= MaxPerCommand /\ Len(log') = Len(log) + k
    BY <2>1, StoreKeepsPositions
  <2>3. ASSUME current PROVE FollowsLog'
    <3>1. FollowsLog
      BY <2>1, <2>3 DEF MInv
    <3>2. start' = Len(log) /\ start' = snapshot'
      BY <2>1, <3>1 DEF FollowsLog
    <3>3. Len(log') - start' <= MaxPerCommand
      BY <1>a, <2>2, <3>2, EngineAssumption
    <3>4. Run(snapshot - base) = Run(snapshot - base)'
      BY <2>1 DEF Run
    <3> QED
      BY <2>1, <3>1, <3>2, <3>3, <3>4 DEF FollowsLog
  <2> QED
    BY <2>1, <2>3 DEF MInv, NothingPending
<1>7. CASE PublishNext
  <2>1. /\ worker' = worker /\ worker \in {"publish", "republish"} /\ pending # <<>>
        /\ UNCHANGED <<log, snapshot, folded, base, current, start>>
        /\ published' = Append(published, Head(pending)) /\ pending' = Tail(pending)
    BY <1>7 DEF PublishNext, durable
  <2>2. published' \o pending' = published \o pending
    BY <1>a, <2>1, PublishMoves
  <2>3. ASSUME current PROVE FollowsLog'
    <3>1. FollowsLog
      BY <2>1, <2>3 DEF MInv
    <3>2. Run(snapshot - base) = Run(snapshot - base)'
      BY <2>1 DEF Run
    <3> QED
      BY <2>1, <2>2, <3>1, <3>2 DEF FollowsLog
  <2> QED
    BY <2>1, <2>3 DEF MInv, NothingPending
<1>8. CASE Reconcile
  <2>1. worker = "reconcile" /\ worker' = "republish" /\ pending = <<>>
        /\ UNCHANGED <<log, base, current, published, start>>
        /\ pending' = ReadFrom(start)
    BY <1>8 DEF Reconcile, MInv, NothingPending, durable
  <2>2. ASSUME current PROVE FollowsLog'
    <3>1. FollowsLog
      BY <2>1, <2>2 DEF MInv
    <3>2. start = snapshot /\ base <= snapshot /\ folded = Run(snapshot - base)
          /\ published = folded /\ Len(log) - start <= MaxPerCommand
      BY <1>a, <2>1, <3>1, ConcatEmptySeq DEF FollowsLog
    <3>3. start <= Len(log) /\ Len(log) - start <= ReadLimit
      BY <1>a, <3>2, EngineAssumption DEF TInv, WithinLog
    <3> DEFINE r == ReadFrom(start)
               a == snapshot - base
               c == Len(log) - start
    <3>4. /\ LastRead(start) = Len(log) /\ r \in Seq(Nat) /\ Len(r) = c
          /\ \A i \in 1 .. c : r[i] = start + i
      BY <1>a, <3>3, ReadFromType
    <3>5. a \in Nat /\ c \in Nat /\ base + a = start /\ a + c = Len(log) - base
      BY <1>a, <3>2, <3>3
    <3> HIDE DEF r, a, c
    <3>6. \A i \in 1 .. c : r[i] = base + a + i
      BY <3>4, <3>5
    <3>7. Run(a) \o r = Run(a + c)
      BY <1>a, <3>4, <3>5, <3>6, RunContinues
    <3>8. folded' = Run(a + c) /\ published' \o pending' = folded' /\ snapshot' = Len(log)
      BY <1>8, <2>1, <3>2, <3>4, <3>7 DEF Reconcile, a, r
    <3>9. Run(a + c) = Run(snapshot - base)'
      BY <2>1, <3>5, <3>8 DEF Run
    <3>10. base' <= snapshot' /\ snapshot' = Len(log')
      BY <1>a, <2>1, <3>2, <3>3, <3>8
    <3> QED
      BY <2>1, <3>8, <3>9, <3>10 DEF FollowsLog
  <2> QED
    BY <2>1, <2>2 DEF MInv, NothingPending
<1>9. CASE UNCHANGED vars
  BY <1>9 DEF vars, durable, callerVars, dispatching, MInv, NothingPending, FollowsLog, Run
<1> QED
  BY <1>1, <1>2, <1>3, <1>4, <1>5, <1>6, <1>7, <1>8, <1>9 DEF Next, Boot, Work, Fail

\* Once a dispatch is reconciled the worker decides on the whole log, and the
\* reactors have been or are being handed each new event once, in order.
THEOREM WorkerFollowsLog == Spec => []DecidesOnWholeLog /\ []PublishesLogOnce
<1>1. Spec => [](TInv /\ MInv)
  BY InitTInv, StepTInv, InitMInv, StepMInv, PTL DEF Spec
<1>2. TInv /\ MInv => DecidesOnWholeLog /\ PublishesLogOnce
  <2> SUFFICES ASSUME MInv, Reconciled
               PROVE  /\ folded = SinceStart /\ snapshot = LastSequence
                      /\ published \o pending = SinceStart
    BY DEF DecidesOnWholeLog, PublishesLogOnce
  <2>1. FollowsLog /\ worker # "reconcile"
    BY DEF MInv, Reconciled
  <2> QED
    BY <2>1 DEF FollowsLog, SinceStart, Run, LastSequence
<1> QED
  BY <1>1, <1>2, PTL
-----------------------------------------------------------------------------
\* The envelope of a caller that waits is in the queue, and there is none while
\* the server is down or boots.
WaitingIsQueued ==
  /\ \A d \in waiting : \E i \in 1 .. Len(queue) : queue[i] = d
  /\ worker \in {"down", "boot"} => waiting = {}

\* A step that leaves queue and callers alone.
LEMMA SameWaiting ==
  ASSUME WaitingIsQueued, UNCHANGED <<queue, waiting>>,
         worker' \in {"down", "boot"} => worker \in {"down", "boot"}
  PROVE  WaitingIsQueued'
  BY DEF WaitingIsQueued

\* The caller that is answered no longer waits, and every other keeps its place.
LEMMA AnswerKeepsWaiting ==
  ASSUME TInv, WaitingIsQueued, Serving, NEW S, Answer(S)
  PROVE  WaitingIsQueued'
<1>1. queue # <<>> /\ queue \in Seq(Callers)
  BY DEF TInv, TypeOK, QueueHoldsWaiting
<1>2. /\ queue' = Tail(queue) /\ waiting' = waiting \ {Head(queue)} /\ worker' = "idle"
      /\ Len(queue) \in Nat \ {0} /\ Head(queue) = queue[1]
      /\ Len(queue') = Len(queue) - 1
      /\ \A i \in 1 .. Len(queue') : queue'[i] = queue[i + 1]
  BY <1>1, HeadTailProperties DEF Answer
<1>3. ASSUME NEW d \in waiting' PROVE \E i \in 1 .. Len(queue') : queue'[i] = d
  <2>1. PICK i \in 1 .. Len(queue) : queue[i] = d
    BY <1>2, <1>3 DEF WaitingIsQueued
  <2>2. i # 1
    BY <1>2, <1>3, <2>1
  <2>3. i - 1 \in 1 .. Len(queue') /\ queue'[i - 1] = queue[i]
    BY <1>2, <2>1, <2>2
  <2> QED
    BY <2>1, <2>3
<1> QED
  BY <1>2, <1>3 DEF WaitingIsQueued

LEMMA StepWaiting == TInv /\ WaitingIsQueued /\ [Next]_vars => WaitingIsQueued'
<1> SUFFICES ASSUME TInv, WaitingIsQueued, [Next]_vars PROVE WaitingIsQueued'
  OBVIOUS
<1>1. ASSUME NEW d \in Callers, NEW c \in Commands, Dispatch(d, c)
      PROVE  WaitingIsQueued'
  <2>1. queue \in Seq(Callers) /\ queue' = Append(queue, d)
        /\ waiting' = waiting \cup {d} /\ worker' \notin {"down", "boot"}
    BY <1>1 DEF Dispatch, TInv, TypeOK, dispatching
  <2>2. /\ Len(queue') = Len(queue) + 1 /\ Len(queue) \in Nat
        /\ queue'[Len(queue) + 1] = d
        /\ \A i \in 1 .. Len(queue) : queue'[i] = queue[i]
    BY <2>1
  <2>3. ASSUME NEW e \in waiting' PROVE \E i \in 1 .. Len(queue') : queue'[i] = e
    <3>1. CASE e = d
      BY <2>2, <3>1
    <3>2. CASE e \in waiting
      <4>1. PICK i \in 1 .. Len(queue) : queue[i] = e
        BY <3>2 DEF WaitingIsQueued
      <4> QED
        BY <2>2, <4>1
    <3> QED
      BY <2>1, <2>3, <3>1, <3>2
  <2> QED
    BY <2>1, <2>3 DEF WaitingIsQueued
<1>2. CASE AnswerFromReceipt \/ AnswerCommitted \/ AnswerFailed
  <2>1. Serving /\ \E S : Answer(S)
    BY <1>2 DEF AnswerFromReceipt, AnswerCommitted, AnswerFailed, Serving
  <2> QED
    BY <2>1, AnswerKeepsWaiting
<1>3. CASE Crash
  BY <1>3 DEF Crash, WaitingIsQueued
<1>4. CASE Boot
  BY <1>4, SameWaiting
  DEF Boot, BeginBoot, BootProjector, Start, callerVars, dispatching
<1>5. CASE Take \/ FindNoReceipt \/ Reject \/ PublishNext \/ Reconcile \/ Fail
            \/ \E k \in 1 .. MaxPerCommand : Commit(k)
  BY <1>5, SameWaiting
  DEF Take, FindNoReceipt, Reject, PublishNext, Reconcile, Fail, StorageFails,
      CommitReportsFailure, ReconcileFails, Commit, callerVars
<1>6. CASE UNCHANGED vars
  BY <1>6, SameWaiting DEF vars, callerVars, dispatching
<1> QED
  BY <1>1, <1>2, <1>3, <1>4, <1>5, <1>6 DEF Next, Work

(***************************************************************************)
(* No dispatch waits while the worker has nothing to do: as long as a      *)
(* caller waits, the worker takes an envelope or is at one of its awaits,  *)
(* each of which resolves into a step of Work.  What is left of            *)
(* EveryDispatchAnswered is that the worker is scheduled.                  *)
(***************************************************************************)
THEOREM WaitingKeepsWorkerBusy ==
  Spec => [](waiting # {} => Serving \/ (worker = "idle" /\ queue # <<>>))
<1>1. Init => WaitingIsQueued
  BY DEF Init, WaitingIsQueued
<1>2. TInv /\ WaitingIsQueued =>
        (waiting # {} => Serving \/ (worker = "idle" /\ queue # <<>>))
  <2> SUFFICES ASSUME TInv, WaitingIsQueued, NEW d \in waiting
               PROVE  Serving \/ (worker = "idle" /\ queue # <<>>)
    OBVIOUS
  <2>1. worker \notin {"down", "boot"} /\ worker \in WorkerSteps
    BY DEF WaitingIsQueued, TInv, TypeOK
  <2>2. PICK i \in 1 .. Len(queue) : queue[i] = d
    BY DEF WaitingIsQueued
  <2>3. queue # <<>>
    BY <2>2
  <2> QED
    BY <2>1, <2>3 DEF WorkerSteps, Serving
<1> QED
  BY <1>1, <1>2, InitTInv, StepTInv, StepWaiting, PTL DEF Spec
=============================================================================
