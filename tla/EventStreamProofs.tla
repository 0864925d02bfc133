-------------------------- MODULE EventStreamProofs --------------------------
(***************************************************************************)
(* NoGap, WaitingIsCaughtUp, NoLeakedListener and NewestRowsSurvive for    *)
(* every capacity, page size, queue limit and set of handlers.             *)
(*                                                                         *)
(* The strengthening says where the not yet written rows of an open        *)
(* handler are.  Its live queue is exactly the last Len(queue) announced   *)
(* rows (QueueIsTail); everything older is below the boundary while the    *)
(* replay runs (ReplayCovers) and already written or pruned once it is     *)
(* over (LiveCovers); a replay page starts right after the written rows,   *)
(* up to pruned ones (PageContinues).                                      *)
(***************************************************************************)
EXTENDS EventStream, FiniteSetTheorems, SequenceTheorems, TLAPS

Older(s) == Notified - Len(queue[s])

PruneSafe ==
  /\ pruned = 0 \/ pruned <= LastCursor - Capacity
  /\ \A f \in Fibers : pruneTo[f] = 0 \/ pruneTo[f] <= LastCursor - Capacity
  /\ publisher = "notify" => LastCursor > 0

HandlerShape(s) ==
  /\ active[s] => listening[s] /\ phase[s] # "closed"
  /\ phase[s] \in {"replay", "live"} => active[s]
  /\ listening[s] => phase[s] # "closed"
  /\ phase[s] \in {"query", "resume"} => boundary[s] = NoBoundary
  /\ phase[s] \in {"replay", "live"} => boundary[s] \in Nat
  /\ phase[s] \in {"query", "resume", "live"} => page[s] = {}

QueueIsTail(s) ==
  active[s] =>
    /\ Older(s) >= 0
    /\ \A i \in 1 .. Len(queue[s]) : queue[s][i] = Older(s) + i
    /\ boundary[s] # NoBoundary => \A i \in 1 .. Len(queue[s]) : queue[s][i] > boundary[s]

ReplayCovers(s) ==
  /\ phase[s] = "resume" /\ active[s] => Older(s) <= snapshot[s]
  /\ phase[s] = "replay" => Older(s) <= boundary[s]

LiveCovers(s) ==
  phase[s] = "live" =>
    /\ \A c \in cursor[s] + 1 .. Older(s) : c <= pruned
    /\ \A c \in cursor[s] + 1 .. boundary[s] : c <= pruned

PageContinues(s) ==
  phase[s] = "replay" =>
    \A p \in page[s] : \A c \in cursor[s] + 1 .. p : c \in page[s] \/ c <= pruned

NoGapIn(s) == \A c \in after[s] + 1 .. cursor[s] : c \in sent[s] \/ c <= pruned

HandlerInv(s) ==
  /\ HandlerShape(s)
  /\ QueueIsTail(s)
  /\ ReplayCovers(s)
  /\ LiveCovers(s)
  /\ PageContinues(s)
  /\ NoGapIn(s)

IInv ==
  /\ TypeOK
  /\ PruneSafe
  /\ \A s \in Streams : HandlerInv(s)

-----------------------------------------------------------------------------
LEMMA SurplusIsNat ==
  ASSUME JournalTypeOK
  PROVE  /\ LastCursor \in Nat
         /\ Surplus \in Nat
         /\ Surplus = 0 \/ Surplus = LastCursor - Capacity
<1>1. LastCursor \in Nat
  BY DEF JournalTypeOK, LastCursor
<1>2. QED
  BY <1>1, JournalAssumption DEF Surplus

\* A delete moves the watermark up and never past the target of its prune.
LEMMA DeleteIsBounded ==
  ASSUME JournalTypeOK, NEW f \in Fibers
  PROVE  /\ AfterDelete(f) \in Nat
         /\ AfterDelete(f) >= pruned
         /\ AfterDelete(f) = pruned \/ AfterDelete(f) <= pruneTo[f]
  BY JournalAssumption DEF JournalTypeOK, AfterDelete

\* What the listener of each handler leaves behind: Notify's updates are typed.
LEMMA QuarantineKeepsRows ==
  ASSUME rows \in Seq(Row), NEW p \in SUBSET Nat, Quarantine(p)
  PROVE  rows' \in Seq(Row) /\ Len(rows') = Len(rows)
<1>1. rows \in [1 .. Len(rows) -> Row] /\ DOMAIN rows = 1 .. Len(rows) /\ Len(rows) \in Nat
  OBVIOUS
<1>2. \A c \in 1 .. Len(rows) : [rows[c] EXCEPT !.body = "gap"] \in Row
  BY <1>1 DEF Row
<1>3. rows' \in [1 .. Len(rows) -> Row]
  BY <1>1, <1>2 DEF Quarantine
<1>4. QED
  BY <1>1, <1>3

\* Writing a record keeps the types of the handler's history.
LEMMA WriteIsTyped ==
  ASSUME TypeOK, NEW s \in Streams, NEW c \in Nat, Write(s, c)
  PROVE  cursor' \in [Streams -> Nat] /\ sent' \in [Streams -> SUBSET Nat]
<1>1. sent[s] \cup {c} \in SUBSET Nat
  BY DEF TypeOK
<1>2. QED
  BY <1>1 DEF TypeOK, Write

LEMMA TypeInductive == TypeOK /\ [Next]_vars => TypeOK'
<1> SUFFICES ASSUME TypeOK, [Next]_vars PROVE TypeOK'
  OBVIOUS
<1> USE DEF TypeOK, JournalTypeOK, journalVars, streamVars, vars
<1>1. ASSUME NEW e \in EventIds, Insert(e), UNCHANGED streamVars PROVE TypeOK'
  <2>1. [id |-> e, body |-> "ok"] \in Row
    BY DEF Row
  <2>2. rows' \in Seq(Row)
    BY <1>1, <2>1 DEF Insert
  <2>3. QED
    BY <1>1, <2>2 DEF Insert
<1>2. CASE PublisherPrune /\ UNCHANGED streamVars
  BY <1>2, DeleteIsBounded DEF PublisherPrune, Fibers
<1>3. CASE StartMaintenance /\ UNCHANGED streamVars
  BY <1>3, SurplusIsNat DEF StartMaintenance
<1>4. CASE MaintenancePrune /\ UNCHANGED streamVars
  BY <1>4, DeleteIsBounded DEF MaintenancePrune, Fibers
<1>5. CASE EnsureEventIdIndex /\ UNCHANGED streamVars
  BY <1>5 DEF EnsureEventIdIndex
<1>6. CASE FailMaintenance /\ UNCHANGED streamVars
  BY <1>6 DEF FailMaintenance
<1>7. CASE Notify
  <2>1. JournalTypeOK'
    BY <1>7, SurplusIsNat DEF Notify, AfterNotify
  <2>2. LastCursor \in Nat
    BY DEF LastCursor
  <2>3. queue' \in [Streams -> Seq(Nat)]
    BY <1>7, <2>2 DEF Notify
  <2>4. \A s \in Streams :
          PhaseAfterCleanup(s) \in {"closed", "query", "resume", "replay", "live"}
    BY DEF PhaseAfterCleanup
  <2>5. phase' \in [Streams -> {"closed", "query", "resume", "replay", "live"}]
    BY <1>7, <2>4 DEF Notify
  <2>6. active' \in [Streams -> BOOLEAN] /\ listening' \in [Streams -> BOOLEAN]
    BY <1>7, Zenon DEF Notify
  <2>7. QED
    BY <1>7, <2>1, <2>3, <2>5, <2>6 DEF Notify
<1>8. ASSUME NEW s \in Streams, NEW from \in 0 .. MaxRows, Open(s, from) PROVE TypeOK'
  BY <1>8, JournalAssumption DEF Open, NoBoundary
<1>9. ASSUME NEW s \in Streams, QueryBoundary(s) PROVE TypeOK'
  BY <1>9 DEF QueryBoundary, LastCursor
<1>10. ASSUME NEW s \in Streams, ResumeOpen(s) PROVE TypeOK'
  <2>1. ASSUME NEW q \in Seq(Nat), NEW b \in Nat PROVE Above(q, b) \in Seq(Nat)
    <3> DEFINE covered == {i \in 1 .. Len(q) : q[i] <= b}
    <3>1. IsFiniteSet(1 .. Len(q)) /\ covered \subseteq 1 .. Len(q)
      BY FS_Interval
    <3>2. Cardinality(covered) \in Nat
      BY <3>1, FS_Subset, FS_CardinalityType
    <3>3. QED
      <4> DEFINE first == Cardinality(covered) + 1
      <4>1. first \in Nat \ {0} /\ Len(q) \in Int
        BY <3>2
      <4> HIDE DEF first
      <4>2. \A i \in first .. Len(q) : q[i] \in Nat
        BY <4>1
      <4>3. SubSeq(q, first, Len(q)) \in Seq(Nat)
        BY <4>1, <4>2, SubSeqProperties
      <4>4. QED
        BY <4>3 DEF Above, first
  <2>2. QED
    BY <1>10, <2>1 DEF ResumeOpen
<1>11. ASSUME NEW s \in Streams, ResumeCleanedUp(s) PROVE TypeOK'
  BY <1>11 DEF ResumeCleanedUp
<1>12. ASSUME NEW s \in Streams, ReadPage(s) PROVE TypeOK'
  <2>1. PageAfter(cursor[s], boundary[s]) \in SUBSET Nat
    BY StreamAssumption DEF PageAfter, NoBoundary
  <2>2. QED
    BY <1>12, <2>1, QuarantineKeepsRows DEF ReadPage
<1>13. ASSUME NEW s \in Streams, WritePage(s) PROVE TypeOK'
  <2>1. PICK c \in page[s] :
            /\ page' = [page EXCEPT ![s] = @ \ {c}]
            /\ IF c <= cursor[s] THEN UNCHANGED <<cursor, sent>> ELSE Write(s, c)
    BY <1>13 DEF WritePage
  <2>2. c \in Nat
    OBVIOUS
  <2>3. page' \in [Streams -> SUBSET Nat]
    BY <2>1
  <2>4. cursor' \in [Streams -> Nat] /\ sent' \in [Streams -> SUBSET Nat]
    <3>1. CASE c <= cursor[s]
      BY <2>1, <3>1
    <3>2. CASE ~(c <= cursor[s])
      BY <2>1, <2>2, <3>2, WriteIsTyped
    <3>3. QED
      BY <3>1, <3>2
  <2>5. QED
    BY <1>13, <2>3, <2>4 DEF WritePage
<1>14. ASSUME NEW s \in Streams, WriteLive(s) PROVE TypeOK'
  <2>1. Head(queue[s]) \in Nat /\ Tail(queue[s]) \in Seq(Nat)
    BY <1>14 DEF WriteLive
  <2>2. queue' \in [Streams -> Seq(Nat)]
    BY <1>14, <2>1 DEF WriteLive
  <2>3. cursor' \in [Streams -> Nat] /\ sent' \in [Streams -> SUBSET Nat]
    <3>1. CASE Head(queue[s]) <= cursor[s]
      BY <1>14, <3>1 DEF WriteLive
    <3>2. CASE ~(Head(queue[s]) <= cursor[s])
      BY <1>14, <2>1, <3>2, WriteIsTyped DEF WriteLive
    <3>3. QED
      BY <3>1, <3>2
  <2>4. QED
    BY <1>14, <2>2, <2>3 DEF WriteLive
<1>15. ASSUME NEW s \in Streams, FailBoundary(s) PROVE TypeOK'
  BY <1>15 DEF FailBoundary
<1>16. ASSUME NEW s \in Streams, Abort(s) PROVE TypeOK'
  BY <1>16 DEF Abort, PhaseAfterCleanup
<1>17. CASE Restart
  BY <1>17 DEF Restart, RestartJournal
<1>18. CASE UNCHANGED vars
  BY <1>18
<1>19. QED
  BY <1>1, <1>2, <1>3, <1>4, <1>5, <1>6, <1>7, <1>8, <1>9, <1>10, <1>11, <1>12,
     <1>13, <1>14, <1>15, <1>16, <1>17, <1>18
  DEF Next, JournalStep, HandlerStep

LEMMA TypeInitial == Init => TypeOK
<1> SUFFICES ASSUME Init PROVE TypeOK
  OBVIOUS
<1>1. \A e \in EventIds, b \in {"ok", "bad"} : [id |-> e, body |-> b] \in Row
  BY DEF Row
<1>2. rows \in Seq(Row)
  <2>1. CASE rows = <<>>
    BY <2>1
  <2>2. ASSUME NEW e \in EventIds, NEW b \in {"ok", "bad"}, rows = <<[id |-> e, body |-> b]>>
        PROVE  rows \in Seq(Row)
    <3>1. PICK r \in Row : rows = <<r>>
      BY <1>1, <2>2
    <3>2. QED
      BY <3>1
  <2>3. QED
    BY <2>1, <2>2 DEF Init, JournalInit, InheritedRows
<1>3. QED
  BY <1>2 DEF Init, JournalInit, TypeOK, JournalTypeOK, NoBoundary

(***************************************************************************)
(* The variables keep their types, for any journal size and any handlers.  *)
(***************************************************************************)
THEOREM TypeCorrect == Spec => []TypeOK
<1>1. QED
  BY TypeInitial, TypeInductive, PTL DEF Spec
-----------------------------------------------------------------------------
\* Above keeps the tail of an ascending run of cursors.
LEMMA AboveKeepsTail ==
  ASSUME NEW q \in Seq(Nat), NEW b \in Nat, NEW o \in Nat, o <= b,
         \A i \in 1 .. Len(q) : q[i] = o + i
  PROVE  \E k \in 0 .. Len(q) :
           /\ Above(q, b) \in Seq(Nat)
           /\ Len(Above(q, b)) = Len(q) - k
           /\ o + k <= b
           /\ \A i \in 1 .. Len(Above(q, b)) :
                Above(q, b)[i] = o + k + i /\ Above(q, b)[i] > b
<1> DEFINE k == IF o + Len(q) <= b THEN Len(q) ELSE b - o
<1>1. k \in 0 .. Len(q) /\ o + k <= b /\ Len(q) \in Nat
  OBVIOUS
<1>2. {i \in 1 .. Len(q) : q[i] <= b} = 1 .. k
  OBVIOUS
<1>3. \A i \in 1 .. Len(q) - k : o + k + i > b
  OBVIOUS
<1> HIDE DEF k
<1>4. Cardinality(1 .. k) = k
  BY <1>1, FS_Interval
<1>5. Above(q, b) = SubSeq(q, k + 1, Len(q))
  BY <1>2, <1>4 DEF Above
<1>6. \A i \in k + 1 .. Len(q) : q[i] \in Nat
  BY <1>1
<1>7. /\ SubSeq(q, k + 1, Len(q)) \in Seq(Nat)
      /\ Len(SubSeq(q, k + 1, Len(q))) = Len(q) - k
      /\ \A i \in 1 .. Len(q) - k : SubSeq(q, k + 1, Len(q))[i] = q[k + i]
  BY <1>1, <1>6, SubSeqProperties
<1>8. \A i \in 1 .. Len(q) - k : q[k + i] = o + k + i
  BY <1>1
<1> USE <1>1
<1> WITNESS k \in 0 .. Len(q)
<1>9. \A i \in 1 .. Len(Above(q, b)) : Above(q, b)[i] = o + k + i /\ Above(q, b)[i] > b
  BY <1>3, <1>5, <1>7, <1>8
<1>10. QED
  BY <1>1, <1>5, <1>7, <1>9

\* The facts about the journal that arithmetic needs.
LEMMA NotifiedIsNat ==
  ASSUME TypeOK, PruneSafe
  PROVE  LastCursor \in Nat /\ Notified \in Nat /\ Notified <= LastCursor
  BY DEF TypeOK, JournalTypeOK, PruneSafe, LastCursor, Notified

\* A handler is unaffected by a step that announces no row, deletes at most
\* old ones and changes none of the handler's variables.
LEMMA HandlerUntouched ==
  ASSUME TypeOK, TypeOK', NEW s \in Streams, HandlerInv(s),
         Notified' = Notified, pruned' >= pruned,
         phase'[s] = phase[s], active'[s] = active[s], listening'[s] = listening[s],
         boundary'[s] = boundary[s], snapshot'[s] = snapshot[s], after'[s] = after[s],
         cursor'[s] = cursor[s], page'[s] = page[s], queue'[s] = queue[s], sent'[s] = sent[s]
  PROVE  HandlerInv(s)'
<1> USE DEF HandlerInv, TypeOK, JournalTypeOK
<1>1. Older(s)' = Older(s)
  BY DEF Older
<1>2. HandlerShape(s)' /\ QueueIsTail(s)' /\ ReplayCovers(s)'
  BY <1>1 DEF HandlerShape, QueueIsTail, ReplayCovers
<1>3. \A c \in Nat : c <= pruned => c <= pruned'
  OBVIOUS
<1>4. LiveCovers(s)'
  BY <1>1, <1>3 DEF LiveCovers
<1>5. PageContinues(s)' /\ NoGapIn(s)'
  BY <1>3 DEF PageContinues, NoGapIn
<1>6. QED
  BY <1>2, <1>4, <1>5

\* A step that announces no row, and only prunes.
LEMMA CalmStep ==
  ASSUME IInv, TypeOK', PruneSafe', UNCHANGED streamVars,
         Notified' = Notified, pruned' >= pruned
  PROVE  IInv'
<1>1. ASSUME NEW s \in Streams PROVE HandlerInv(s)'
  BY HandlerUntouched DEF IInv, streamVars
<1>2. QED
  BY <1>1 DEF IInv

LEMMA JournalStepKeeps ==
  ASSUME IInv, TypeOK', JournalStep, UNCHANGED streamVars
  PROVE  IInv'
<1> USE DEF IInv, TypeOK, JournalTypeOK
<1>1. JournalTypeOK /\ LastCursor \in Nat
  BY SurplusIsNat
<1>2. ASSUME Notified' = Notified, PruneSafe', pruned' >= pruned PROVE IInv'
  BY <1>2, CalmStep
<1>3. ASSUME NEW e \in EventIds, Insert(e) PROVE IInv'
  <2>1. LastCursor' = LastCursor + 1
    BY <1>3 DEF Insert, LastCursor
  <2>2. Notified' = Notified /\ PruneSafe'
    BY <1>1, <1>3, <2>1, JournalAssumption DEF Insert, Notified, PruneSafe, Fibers
  <2>3. pruned' >= pruned
    BY <1>3 DEF Insert
  <2>4. QED
    BY <1>2, <2>2, <2>3
<1>4. CASE PublisherPrune
  <2>1. LastCursor' = LastCursor /\ Notified' = Notified
    BY <1>4 DEF PublisherPrune, LastCursor, Notified
  <2>2. PruneSafe' /\ pruned' >= pruned
    BY <1>1, <1>4, <2>1, DeleteIsBounded, JournalAssumption
    DEF PublisherPrune, PruneSafe, Fibers
  <2>3. QED
    BY <1>2, <2>1, <2>2
<1>5. CASE StartMaintenance
  <2>1. LastCursor' = LastCursor /\ Notified' = Notified
    BY <1>5 DEF StartMaintenance, LastCursor, Notified
  <2>2. PruneSafe' /\ pruned' >= pruned
    BY <1>1, <1>5, <2>1, SurplusIsNat DEF StartMaintenance, PruneSafe, Fibers
  <2>3. QED
    BY <1>2, <2>1, <2>2
<1>6. CASE MaintenancePrune
  <2>1. LastCursor' = LastCursor /\ Notified' = Notified
    BY <1>6 DEF MaintenancePrune, LastCursor, Notified
  <2>2. PruneSafe' /\ pruned' >= pruned
    BY <1>1, <1>6, <2>1, DeleteIsBounded, JournalAssumption
    DEF MaintenancePrune, PruneSafe, Fibers
  <2>3. QED
    BY <1>2, <2>1, <2>2
<1>7. CASE EnsureEventIdIndex \/ FailMaintenance
  <2>1. /\ LastCursor' = LastCursor /\ Notified' = Notified
        /\ PruneSafe' /\ pruned' >= pruned
    BY <1>1, <1>7
    DEF EnsureEventIdIndex, FailMaintenance, LastCursor, Notified, PruneSafe
  <2>2. QED
    BY <1>2, <2>1
<1>8. QED
  BY <1>3, <1>4, <1>5, <1>6, <1>7 DEF JournalStep

\* Announcing a row: it joins the queue of every open handler the replay of
\* which does not cover it, or the handler is cleaned up.
LEMMA NotifyKeeps ==
  ASSUME IInv, TypeOK', Notify
  PROVE  IInv'
<1>1. /\ LastCursor \in Nat /\ Notified \in Nat /\ Notified = LastCursor - 1
      /\ Notified' = LastCursor /\ pruned' = pruned
  <2>1. LastCursor \in Nat /\ Notified \in Nat
    BY NotifiedIsNat DEF IInv
  <2>2. LastCursor' = LastCursor /\ publisher = "notify" /\ publisher' # "notify"
    BY DEF Notify, AfterNotify, LastCursor
  <2>3. QED
    BY <2>1, <2>2 DEF Notify, AfterNotify, Notified
<1>2. PruneSafe'
  <2>1. Surplus = 0 \/ Surplus = LastCursor - Capacity
    BY SurplusIsNat DEF IInv, TypeOK
  <2>2. pruneTo' = pruneTo \/ pruneTo' = [pruneTo EXCEPT !["publisher"] = Surplus]
    BY DEF Notify, AfterNotify
  <2>3. \A f \in Fibers : pruneTo'[f] = pruneTo[f] \/ pruneTo'[f] = Surplus
    BY <2>2 DEF IInv, TypeOK, JournalTypeOK
  <2>4. publisher' # "notify" /\ LastCursor' = LastCursor
    BY DEF Notify, AfterNotify, LastCursor
  <2>5. QED
    BY <1>1, <2>1, <2>3, <2>4, JournalAssumption DEF IInv, PruneSafe
<1>3. ASSUME NEW s \in Streams PROVE HandlerInv(s)'
  <2>1. /\ boundary'[s] = boundary[s] /\ snapshot'[s] = snapshot[s] /\ after'[s] = after[s]
        /\ cursor'[s] = cursor[s] /\ page'[s] = page[s] /\ sent'[s] = sent[s]
    BY DEF Notify
  <2>2. CASE Overflows(s, LastCursor)
    <3>1. ~active'[s]
      BY <2>2, Zenon DEF Notify
    <3>2. phase'[s] = PhaseAfterCleanup(s)
      BY <2>2 DEF Notify
    <3>3. listening'[s] => phase'[s] # "closed"
      BY <2>2, <3>2, Zenon DEF Notify
    <3>4. phase'[s] \notin {"replay", "live"} /\ (phase'[s] # "closed" => phase'[s] = phase[s])
      BY <3>2 DEF PhaseAfterCleanup
    <3>5. QED
      BY <1>1, <2>1, <3>1, <3>3, <3>4
      DEF IInv, HandlerInv, HandlerShape, QueueIsTail, ReplayCovers, LiveCovers,
          PageContinues, NoGapIn
  <2>3. CASE ~Overflows(s, LastCursor)
    <3>1. active'[s] = active[s] /\ listening'[s] = listening[s]
      BY <2>3, Zenon DEF Notify, IInv, TypeOK
    <3>2. phase'[s] = phase[s]
      BY <2>3 DEF Notify
    <3>3. HandlerShape(s)' /\ PageContinues(s)' /\ NoGapIn(s)'
      BY <1>1, <2>1, <3>1, <3>2
      DEF IInv, HandlerInv, HandlerShape, PageContinues, NoGapIn
    <3>4. CASE ~active[s]
      <4>1. phase[s] \notin {"replay", "live"}
        BY <3>4 DEF IInv, HandlerInv, HandlerShape
      <4>2. QED
        BY <3>1, <3>2, <3>3, <3>4, <4>1
        DEF HandlerInv, QueueIsTail, ReplayCovers, LiveCovers
    <3>5. CASE active[s] /\ Accepts(s, LastCursor)
      <4>1. queue'[s] = Append(queue[s], LastCursor)
        BY <2>3, <3>5 DEF Notify
      <4>2. /\ Older(s)' = Older(s) /\ Len(queue'[s]) = Len(queue[s]) + 1
            /\ \A i \in 1 .. Len(queue'[s]) :
                 queue'[s][i] = IF i <= Len(queue[s]) THEN queue[s][i] ELSE LastCursor
        BY <1>1, <4>1 DEF IInv, TypeOK, Older
      <4>3. boundary[s] # NoBoundary => LastCursor > boundary[s]
        BY <1>1, <3>5 DEF Accepts, IInv, TypeOK, NoBoundary
      <4>4. QueueIsTail(s)'
        <5>1. Len(queue[s]) \in Nat /\ Older(s) \in Int /\ LastCursor = Older(s) + Len(queue[s]) + 1
          BY <1>1 DEF IInv, TypeOK, Older
        <5>2. /\ Older(s) >= 0
              /\ \A i \in 1 .. Len(queue[s]) : queue[s][i] = Older(s) + i
              /\ boundary[s] # NoBoundary =>
                   \A i \in 1 .. Len(queue[s]) : queue[s][i] > boundary[s]
          BY <3>5 DEF IInv, HandlerInv, QueueIsTail
        <5>3. \A i \in 1 .. Len(queue'[s]) : i <= Len(queue[s]) \/ i = Len(queue[s]) + 1
          BY <4>2, <5>1
        <5>4. \A i \in 1 .. Len(queue'[s]) : queue'[s][i] = Older(s) + i
          BY <4>2, <5>1, <5>2, <5>3
        <5>5. boundary[s] # NoBoundary =>
                \A i \in 1 .. Len(queue'[s]) : queue'[s][i] > boundary[s]
          BY <4>2, <4>3, <5>1, <5>2, <5>3
        <5>6. QED
          BY <2>1, <4>2, <5>2, <5>4, <5>5 DEF QueueIsTail
      <4>5. ReplayCovers(s)' /\ LiveCovers(s)'
        BY <1>1, <2>1, <3>1, <3>2, <4>2 DEF IInv, HandlerInv, ReplayCovers, LiveCovers
      <4>6. QED
        BY <3>3, <4>4, <4>5 DEF HandlerInv
    <3>6. CASE active[s] /\ ~Accepts(s, LastCursor)
      <4>1. boundary[s] # NoBoundary /\ LastCursor <= boundary[s]
        BY <3>6 DEF Accepts, IInv, HandlerInv, HandlerShape
      <4>2. queue[s] = <<>>
        <5>1. ASSUME Len(queue[s]) > 0 PROVE FALSE
          <6>1. Len(queue[s]) \in 1 .. Len(queue[s]) /\ Len(queue[s]) \in Nat
            BY <5>1 DEF IInv, TypeOK
          <6>2. queue[s][Len(queue[s])] = Notified /\ Notified > boundary[s]
            <7>1. /\ queue[s][Len(queue[s])] = Older(s) + Len(queue[s])
                  /\ queue[s][Len(queue[s])] > boundary[s]
              BY <3>6, <4>1, <6>1 DEF IInv, HandlerInv, QueueIsTail
            <7>2. Older(s) + Len(queue[s]) = Notified
              BY <1>1, <6>1 DEF Older
            <7>3. QED
              BY <7>1, <7>2
          <6>3. QED
            BY <1>1, <4>1, <6>2 DEF IInv, TypeOK, NoBoundary
        <5>2. QED
          BY <5>1 DEF IInv, TypeOK
      <4>3. queue'[s] = queue[s]
        BY <2>3, <3>6 DEF Notify
      <4>4. Older(s)' = LastCursor
        BY <1>1, <4>2, <4>3 DEF Older
      <4>5. QueueIsTail(s)'
        BY <1>1, <4>2, <4>3, <4>4 DEF QueueIsTail
      <4>6. phase[s] # "resume"
        BY <4>1 DEF IInv, HandlerInv, HandlerShape
      <4>7. ReplayCovers(s)' /\ LiveCovers(s)'
        BY <1>1, <2>1, <3>2, <4>1, <4>4, <4>6
        DEF IInv, HandlerInv, ReplayCovers, LiveCovers, TypeOK, NoBoundary
      <4>8. QED
        BY <3>3, <4>5, <4>7 DEF HandlerInv
    <3>7. QED
      BY <3>4, <3>5, <3>6
  <2>4. QED
    BY <2>2, <2>3
<1>4. QED
  BY <1>2, <1>3 DEF IInv
\* A step of handler s that moves no cursor of the journal: HandlerInv(s) is all
\* there is to show.
LEMMA OneHandlerStep ==
  ASSUME IInv, TypeOK', NEW s \in Streams,
         LastCursor' = LastCursor, UNCHANGED <<pruned, publisher, pruneTo>>,
         \A t \in Streams : t # s =>
           /\ phase'[t] = phase[t] /\ active'[t] = active[t] /\ listening'[t] = listening[t]
           /\ boundary'[t] = boundary[t] /\ snapshot'[t] = snapshot[t]
           /\ after'[t] = after[t] /\ cursor'[t] = cursor[t] /\ page'[t] = page[t]
           /\ queue'[t] = queue[t] /\ sent'[t] = sent[t],
         HandlerInv(s)'
  PROVE  IInv'
<1>1. PruneSafe' /\ Notified' = Notified
  BY DEF IInv, PruneSafe, Notified
<1>2. pruned' >= pruned
  BY DEF IInv, TypeOK, JournalTypeOK
<1>3. ASSUME NEW t \in Streams, t # s PROVE HandlerInv(t)'
  BY <1>1, <1>2, <1>3, HandlerUntouched DEF IInv
<1>4. QED
  BY <1>1, <1>3 DEF IInv

LEMMA BoundaryStepsKeep ==
  ASSUME IInv, TypeOK', NEW s \in Streams,
         \/ \E from \in 0 .. MaxRows : Open(s, from)
         \/ QueryBoundary(s)
         \/ FailBoundary(s)
         \/ ResumeOpen(s)
         \/ ResumeCleanedUp(s)
         \/ Abort(s)
  PROVE  IInv'
<1> USE DEF IInv, HandlerInv, TypeOK
<1>1. /\ LastCursor' = LastCursor /\ UNCHANGED <<pruned, publisher, pruneTo>>
      /\ Notified' = Notified /\ LastCursor \in Nat /\ Notified \in Nat /\ Notified <= LastCursor
  <2>1. UNCHANGED journalVars
    BY DEF Open, QueryBoundary, FailBoundary, ResumeOpen, ResumeCleanedUp, Abort
  <2>2. QED
    BY <2>1, NotifiedIsNat DEF journalVars, LastCursor, Notified
<1>2. ASSUME NEW from \in 0 .. MaxRows, Open(s, from) PROVE IInv'
  <2>1. /\ phase'[s] = "query" /\ active'[s] /\ listening'[s] /\ boundary'[s] = NoBoundary
        /\ after'[s] = from /\ cursor'[s] = from /\ page'[s] = {} /\ queue'[s] = <<>>
    BY <1>2 DEF Open
  <2>2. Older(s)' = Notified
    BY <1>1, <2>1 DEF Older
  <2>3. HandlerInv(s)'
    BY <1>1, <2>1, <2>2, JournalAssumption
    DEF HandlerShape, QueueIsTail, ReplayCovers, LiveCovers, PageContinues, NoGapIn
  <2>4. QED
    BY <1>1, <1>2, <2>3, OneHandlerStep DEF Open
<1>3. CASE QueryBoundary(s)
  <2>1. Older(s)' = Older(s) /\ Older(s) <= LastCursor
    BY <1>1, <1>3 DEF QueryBoundary, Older
  <2>2. HandlerInv(s)'
    BY <1>1, <1>3, <2>1
    DEF QueryBoundary, HandlerShape, QueueIsTail, ReplayCovers, LiveCovers, PageContinues, NoGapIn
  <2>3. QED
    BY <1>1, <1>3, <2>2, OneHandlerStep DEF QueryBoundary
<1>4. CASE FailBoundary(s)
  <2>1. HandlerInv(s)'
    BY <1>1, <1>4
    DEF FailBoundary, HandlerShape, QueueIsTail, ReplayCovers, LiveCovers, PageContinues, NoGapIn
  <2>2. QED
    BY <1>1, <1>4, <2>1, OneHandlerStep DEF FailBoundary
<1>5. CASE ResumeOpen(s)
  <2>1. /\ phase[s] = "resume" /\ active[s] /\ phase'[s] = "replay" /\ active'[s] = active[s]
        /\ listening'[s] = listening[s] /\ boundary'[s] = snapshot[s]
        /\ queue'[s] = Above(queue[s], snapshot[s])
        /\ after' = after /\ cursor' = cursor /\ page' = page /\ sent' = sent
    BY <1>5 DEF ResumeOpen
  <2>2. /\ Older(s) \in Nat /\ Older(s) <= snapshot[s] /\ snapshot[s] \in Nat
        /\ \A i \in 1 .. Len(queue[s]) : queue[s][i] = Older(s) + i
    <3>1. Older(s) \in Int
      BY <1>1 DEF Older
    <3>2. QED
      BY <2>1, <3>1 DEF QueueIsTail, ReplayCovers
  <2>3. PICK k \in 0 .. Len(queue[s]) :
          /\ Len(queue'[s]) = Len(queue[s]) - k
          /\ Older(s) + k <= snapshot[s]
          /\ \A i \in 1 .. Len(queue'[s]) :
               queue'[s][i] = Older(s) + k + i /\ queue'[s][i] > snapshot[s]
    <3>1. queue[s] \in Seq(Nat)
      OBVIOUS
    <3>2. PICK k \in 0 .. Len(queue[s]) :
            /\ Len(Above(queue[s], snapshot[s])) = Len(queue[s]) - k
            /\ Older(s) + k <= snapshot[s]
            /\ \A i \in 1 .. Len(Above(queue[s], snapshot[s])) :
                 /\ Above(queue[s], snapshot[s])[i] = Older(s) + k + i
                 /\ Above(queue[s], snapshot[s])[i] > snapshot[s]
      <4> HIDE DEF IInv, HandlerInv, TypeOK
      <4>1. PICK o \in Nat : o = Older(s)
        BY <2>2
      <4>2. PICK b \in Nat : b = snapshot[s]
        BY <2>2
      <4>3. PICK q \in Seq(Nat) : q = queue[s]
        BY <3>1
      <4>4. o <= b /\ \A i \in 1 .. Len(q) : q[i] = o + i
        BY <2>2, <4>1, <4>2, <4>3
      <4>5. \E k \in 0 .. Len(q) :
              /\ Above(q, b) \in Seq(Nat)
              /\ Len(Above(q, b)) = Len(q) - k
              /\ o + k <= b
              /\ \A i \in 1 .. Len(Above(q, b)) :
                   Above(q, b)[i] = o + k + i /\ Above(q, b)[i] > b
        BY <4>4, AboveKeepsTail
      <4> QED
        BY <4>1, <4>2, <4>3, <4>5
    <3>3. QED
      BY <2>1, <3>2
  <2>4. Older(s)' = Older(s) + k
    BY <1>1, <2>3 DEF Older
  <2>5. QueueIsTail(s)' /\ ReplayCovers(s)'
    BY <2>1, <2>2, <2>3, <2>4 DEF QueueIsTail, ReplayCovers
  <2>6. HandlerInv(s)'
    BY <1>1, <2>1, <2>2, <2>5 DEF HandlerShape, LiveCovers, PageContinues, NoGapIn
  <2>7. QED
    BY <1>1, <1>5, <2>6, OneHandlerStep DEF ResumeOpen
<1>6. CASE ResumeCleanedUp(s)
  <2>1. HandlerInv(s)'
    BY <1>1, <1>6
    DEF ResumeCleanedUp, HandlerShape, QueueIsTail, ReplayCovers, LiveCovers, PageContinues, NoGapIn
  <2>2. QED
    BY <1>1, <1>6, <2>1, OneHandlerStep DEF ResumeCleanedUp
<1>7. CASE Abort(s)
  <2>1. HandlerInv(s)'
    BY <1>1, <1>7
    DEF Abort, PhaseAfterCleanup, HandlerShape, QueueIsTail, ReplayCovers, LiveCovers,
        PageContinues, NoGapIn
  <2>2. QED
    BY <1>1, <1>7, <2>1, OneHandlerStep DEF Abort
<1>8. QED
  BY <1>2, <1>3, <1>4, <1>5, <1>6, <1>7

\* A replay page: what it leaves out above the cursor is pruned, and an empty
\* one shows that everything up to the boundary is.
LEMMA ReadPageKeeps ==
  ASSUME IInv, TypeOK', NEW s \in Streams, ReadPage(s)
  PROVE  IInv'
<1> USE DEF IInv, HandlerInv, TypeOK
<1> DEFINE rest == PageAfter(cursor[s], boundary[s])
<1>1. /\ phase[s] = "replay" /\ page'[s] = rest
      /\ phase'[s] = IF rest = {} THEN "live" ELSE "replay"
      /\ active'[s] = active[s] /\ listening'[s] = listening[s] /\ boundary'[s] = boundary[s]
      /\ after'[s] = after[s] /\ cursor'[s] = cursor[s] /\ queue'[s] = queue[s]
      /\ sent'[s] = sent[s] /\ pruned' = pruned
  BY DEF ReadPage
<1>2. LastCursor' = LastCursor /\ Notified' = Notified /\ Older(s)' = Older(s)
  <2>1. Len(rows') = Len(rows)
    <3>1. rest \in SUBSET Nat
      BY <1>1, StreamAssumption DEF PageAfter, HandlerShape, JournalTypeOK
    <3>2. QED
      BY <3>1, QuarantineKeepsRows DEF ReadPage, JournalTypeOK
  <2>2. QED
    BY <2>1 DEF ReadPage, LastCursor, Notified, Older
<1>3. boundary[s] \in Nat /\ active[s] /\ Older(s) <= boundary[s] /\ Older(s) \in Int
  <2>1. Older(s) \in Int
    BY NotifiedIsNat DEF Older
  <2>2. QED
    BY <1>1, <2>1 DEF HandlerShape, ReplayCovers
<1>4. /\ \A p \in rest : \A c \in cursor[s] + 1 .. p : c \in rest \/ c <= pruned
      /\ rest = {} => \A c \in cursor[s] + 1 .. boundary[s] : c <= pruned
  <2> DEFINE first == IF cursor[s] > pruned THEN cursor[s] + 1 ELSE pruned + 1
             last  == IF first + PageSize - 1 < boundary[s]
                      THEN first + PageSize - 1 ELSE boundary[s]
  <2>1. rest = first .. last
    BY DEF PageAfter
  <2>2. /\ first \in Nat /\ last \in Int /\ cursor[s] \in Nat /\ pruned \in Nat
        /\ cursor[s] < first /\ (\A c \in Nat : cursor[s] < c /\ c < first => c <= pruned)
    <3>1. cursor[s] \in Nat /\ pruned \in Nat /\ PageSize \in Nat
      BY StreamAssumption DEF JournalTypeOK
    <3>2. CASE cursor[s] > pruned
      BY <1>3, <3>1, <3>2
    <3>3. CASE ~(cursor[s] > pruned)
      BY <1>3, <3>1, <3>3
    <3>4. QED
      BY <3>2, <3>3
  <2>3. last >= first \/ boundary[s] < first
    BY <1>3, <2>2, StreamAssumption, SMTT(30)
  <2> HIDE DEF first, last, rest
  <2>4. ASSUME NEW p \in rest, NEW c \in cursor[s] + 1 .. p PROVE c \in rest \/ c <= pruned
    BY <2>1, <2>2
  <2>5. ASSUME rest = {}, NEW c \in cursor[s] + 1 .. boundary[s] PROVE c <= pruned
    <3>1. boundary[s] < first
      <4>1. last >= first => first \in rest
        BY <2>1, <2>2
      <4>2. QED
        BY <2>3, <2>5, <4>1
    <3>2. QED
      BY <1>3, <2>2, <2>5, <3>1
  <2>6. QED
    BY <2>4, <2>5
<1> HIDE DEF rest
<1>5. QueueIsTail(s)' /\ NoGapIn(s)'
  BY <1>1, <1>2 DEF QueueIsTail, NoGapIn
<1>6. LiveCovers(s)'
  <2>1. ASSUME rest = {} PROVE \A c \in cursor[s] + 1 .. Older(s) : c <= pruned
    BY <1>3, <1>4, <2>1
  <2>2. QED
    BY <1>1, <1>2, <1>4, <2>1 DEF LiveCovers
<1>7. ReplayCovers(s)' /\ PageContinues(s)'
  BY <1>1, <1>2, <1>3, <1>4 DEF ReplayCovers, PageContinues
<1>8. HandlerShape(s)'
  BY <1>1, <1>3 DEF HandlerShape
<1>9. QED
  BY <1>2, <1>5, <1>6, <1>7, <1>8, OneHandlerStep DEF ReadPage
LEMMA NoBoundaryIsNotNat == NoBoundary \notin Nat
  BY DEF NoBoundary

\* Writing c closes no gap and opens none: the rows between are pruned.
LEMMA WriteExtends ==
  ASSUME TypeOK, TypeOK', NEW s \in Streams, NoGapIn(s), NEW c \in Nat, c > cursor[s],
         \A d \in cursor[s] + 1 .. c - 1 : d <= pruned,
         cursor'[s] = c, sent'[s] = sent[s] \cup {c}, after'[s] = after[s], pruned' = pruned
  PROVE  NoGapIn(s)'
<1>1. cursor[s] \in Nat /\ after[s] \in Nat
  BY DEF TypeOK
<1>2. ASSUME NEW d \in after[s] + 1 .. c PROVE d \in sent[s] \cup {c} \/ d <= pruned
  <2>1. d <= cursor[s] \/ d = c \/ d \in cursor[s] + 1 .. c - 1
    BY <1>1
  <2>2. QED
    BY <1>1, <2>1 DEF NoGapIn
<1>3. QED
  BY <1>2 DEF NoGapIn

LEMMA WritePageKeeps ==
  ASSUME IInv, TypeOK', NEW s \in Streams, WritePage(s)
  PROVE  IInv'
<1> USE DEF IInv, HandlerInv, TypeOK
<1>1. /\ phase[s] = "replay" /\ phase'[s] = "replay" /\ active'[s] = active[s]
      /\ listening'[s] = listening[s] /\ boundary'[s] = boundary[s] /\ after'[s] = after[s]
      /\ queue'[s] = queue[s] /\ pruned' = pruned /\ LastCursor' = LastCursor
      /\ Notified' = Notified /\ Older(s)' = Older(s)
  BY DEF WritePage, journalVars, LastCursor, Notified, Older
<1>2. PICK c \in page[s] :
        /\ \A d \in page[s] : c <= d
        /\ page'[s] = page[s] \ {c}
        /\ IF c <= cursor[s] THEN UNCHANGED <<cursor, sent>> ELSE Write(s, c)
  BY DEF WritePage
<1>3. c \in Nat /\ cursor[s] \in Nat /\ page[s] \subseteq Nat
  OBVIOUS
<1>4. \A d \in cursor[s] + 1 .. c - 1 : d <= pruned
  <2>1. ASSUME NEW d \in cursor[s] + 1 .. c - 1 PROVE d <= pruned
    <3>1. d \in page[s] \/ d <= pruned
      BY <1>1, <1>2, <1>3 DEF PageContinues
    <3>2. QED
      BY <1>2, <1>3, <3>1
  <2>2. QED
    BY <2>1
<1>5. HandlerShape(s)' /\ QueueIsTail(s)' /\ ReplayCovers(s)' /\ LiveCovers(s)'
  BY <1>1 DEF HandlerShape, QueueIsTail, ReplayCovers, LiveCovers
<1>6. CASE c <= cursor[s]
  <2>1. cursor' = cursor /\ sent' = sent
    BY <1>2, <1>6
  <2>2. PageContinues(s)'
    BY <1>1, <1>2, <1>3, <1>6, <2>1 DEF PageContinues
  <2>3. NoGapIn(s)'
    BY <1>1, <2>1 DEF NoGapIn
  <2>4. QED
    <3>1. HandlerInv(s)'
      BY <1>5, <2>2, <2>3
    <3>2. \A t \in Streams : t # s => page'[t] = page[t]
      BY DEF WritePage
    <3>3. QED
      BY <1>1, <2>1, <3>1, <3>2, OneHandlerStep DEF WritePage, journalVars
<1>7. CASE c > cursor[s]
  <2>1. Write(s, c)
    BY <1>2, <1>3, <1>7
  <2>2. cursor'[s] = c /\ sent'[s] = sent[s] \cup {c}
    BY <2>1 DEF Write
  <2>3. PageContinues(s)'
    <3>1. ASSUME NEW p \in page'[s], NEW d \in c + 1 .. p
          PROVE  d \in page'[s] \/ d <= pruned
      <4>1. p \in page[s] /\ d \in cursor[s] + 1 .. p /\ d # c
        BY <1>2, <1>3, <1>7
      <4>2. d \in page[s] \/ d <= pruned
        BY <1>1, <4>1 DEF PageContinues
      <4>3. QED
        BY <1>2, <4>1, <4>2
    <3>2. QED
      BY <1>1, <2>2, <3>1 DEF PageContinues
  <2>4. NoGapIn(s)'
    <3> HIDE DEF IInv, HandlerInv, TypeOK
    <3>1. NoGapIn(s) /\ TypeOK
      BY DEF IInv, HandlerInv
    <3>2. QED
      BY <1>1, <1>3, <1>4, <1>7, <2>2, <3>1, WriteExtends
  <2>5. QED
    BY <1>1, <1>5, <2>1, <2>3, <2>4, OneHandlerStep DEF WritePage, Write, journalVars
<1>8. QED
  BY <1>3, <1>6, <1>7

LEMMA WriteLiveKeeps ==
  ASSUME IInv, TypeOK', NEW s \in Streams, WriteLive(s)
  PROVE  IInv'
<1> USE DEF IInv, HandlerInv, TypeOK
<1>1. /\ phase[s] = "live" /\ phase'[s] = "live" /\ active'[s] = active[s]
      /\ listening'[s] = listening[s] /\ boundary'[s] = boundary[s] /\ after'[s] = after[s]
      /\ page'[s] = page[s] /\ pruned' = pruned /\ LastCursor' = LastCursor
      /\ Notified' = Notified /\ queue[s] # <<>> /\ queue'[s] = Tail(queue[s])
  BY DEF WriteLive, journalVars, LastCursor, Notified
<1>2. /\ active[s] /\ boundary[s] \in Nat /\ cursor[s] \in Nat
      /\ Len(queue[s]) \in Nat \ {0} /\ Notified \in Nat
  <2>1. active[s] /\ boundary[s] \in Nat
    BY <1>1 DEF HandlerShape
  <2>2. queue[s] \in Seq(Nat) /\ cursor[s] \in Nat
    OBVIOUS
  <2>3. Len(queue[s]) \in Nat \ {0}
    BY <1>1, <2>2
  <2>4. Notified \in Nat
    BY NotifiedIsNat
  <2>5. QED
    BY <2>1, <2>2, <2>3, <2>4
<1>3. /\ Older(s) \in Nat /\ Head(queue[s]) = Older(s) + 1
      /\ Older(s)' = Older(s) + 1 /\ Len(queue'[s]) = Len(queue[s]) - 1
      /\ \A i \in 1 .. Len(queue'[s]) : queue'[s][i] = queue[s][i + 1]
  <2>1. Older(s) \in Int
    BY <1>2 DEF Older
  <2>2. Older(s) >= 0 /\ queue[s][1] = Older(s) + 1
    BY <1>2, <2>1 DEF QueueIsTail
  <2>3. /\ Head(queue[s]) = queue[s][1] /\ Len(queue'[s]) = Len(queue[s]) - 1
        /\ \A i \in 1 .. Len(queue'[s]) : queue'[s][i] = queue[s][i + 1]
    <3>1. queue[s] \in Seq(Nat) /\ queue[s] # <<>>
      BY <1>1
    <3>2. QED
      BY <1>1, <3>1, HeadTailProperties
  <2>4. QED
    BY <1>1, <1>2, <2>1, <2>2, <2>3 DEF Older
<1>4. QueueIsTail(s)'
  <2>1. \A i \in 1 .. Len(queue'[s]) : i + 1 \in 1 .. Len(queue[s])
    BY <1>2, <1>3
  <2>2. QED
    <3>1. /\ \A i \in 1 .. Len(queue[s]) : queue[s][i] = Older(s) + i
          /\ \A i \in 1 .. Len(queue[s]) : queue[s][i] > boundary[s]
      BY <1>2, NoBoundaryIsNotNat DEF QueueIsTail
    <3>2. \A i \in 1 .. Len(queue'[s]) :
            queue'[s][i] = Older(s)' + i /\ queue'[s][i] > boundary[s]
      <4>1. ASSUME NEW i \in 1 .. Len(queue'[s])
            PROVE  queue'[s][i] = Older(s)' + i /\ queue'[s][i] > boundary[s]
        <5>1. i \in Nat /\ queue'[s][i] = queue[s][i + 1] /\ i + 1 \in 1 .. Len(queue[s])
          BY <1>2, <1>3, <2>1
        <5>2. queue[s][i + 1] = Older(s) + (i + 1) /\ queue[s][i + 1] > boundary[s]
          BY <3>1, <5>1
        <5>3. QED
          BY <1>3, <5>1, <5>2
      <4>2. QED
        BY <4>1
    <3> HIDE DEF IInv, HandlerInv, TypeOK
    <3>3. Older(s)' >= 0
      BY <1>3
    <3>4. QED
      BY <1>1, <3>2, <3>3 DEF QueueIsTail
<1>5. HandlerShape(s)' /\ ReplayCovers(s)' /\ PageContinues(s)'
  BY <1>1, <1>2 DEF HandlerShape, ReplayCovers, PageContinues
<1>6. /\ \A d \in cursor[s] + 1 .. Older(s) : d <= pruned
      /\ \A d \in cursor[s] + 1 .. boundary[s] : d <= pruned
  BY <1>1 DEF LiveCovers
<1>7. CASE Older(s) + 1 <= cursor[s]
  <2>1. cursor' = cursor /\ sent' = sent
    BY <1>3, <1>7 DEF WriteLive
  <2>2. LiveCovers(s)' /\ NoGapIn(s)'
    BY <1>1, <1>2, <1>3, <1>6, <1>7, <2>1 DEF LiveCovers, NoGapIn
  <2>3. QED
    BY <1>1, <1>4, <1>5, <2>1, <2>2, OneHandlerStep DEF WriteLive, journalVars
<1>8. CASE Older(s) + 1 > cursor[s]
  <2>1. Write(s, Older(s) + 1)
    BY <1>2, <1>3, <1>8 DEF WriteLive
  <2>2. cursor'[s] = Older(s) + 1 /\ sent'[s] = sent[s] \cup {Older(s) + 1}
    BY <2>1 DEF Write
  <2>3. LiveCovers(s)'
    BY <1>1, <1>2, <1>3, <1>6, <1>8, <2>2 DEF LiveCovers
  <2>4. NoGapIn(s)'
    <3> HIDE DEF IInv, HandlerInv, TypeOK
    <3>1. Older(s) + 1 \in Nat /\ \A d \in cursor[s] + 1 .. (Older(s) + 1) - 1 : d <= pruned
      <4>1. (Older(s) + 1) - 1 = Older(s) /\ Older(s) + 1 \in Nat
        BY <1>3
      <4> QED
        BY <4>1, <1>6
    <3>2. NoGapIn(s) /\ TypeOK
      BY DEF IInv, HandlerInv
    <3>3. QED
      BY <1>1, <1>8, <2>2, <3>1, <3>2, WriteExtends
  <2>5. QED
    BY <1>1, <1>4, <1>5, <2>1, <2>3, <2>4, OneHandlerStep DEF WriteLive, Write, journalVars
<1> HIDE DEF IInv, HandlerInv, TypeOK
<1>9. QED
  BY <1>2, <1>3, <1>7, <1>8

LEMMA RestartKeeps ==
  ASSUME IInv, TypeOK', Restart
  PROVE  IInv'
<1> USE DEF IInv, HandlerInv, TypeOK
<1>1. PruneSafe' /\ pruned' = pruned
  BY DEF Restart, RestartJournal, PruneSafe, LastCursor, Fibers
<1>2. ASSUME NEW s \in Streams PROVE HandlerInv(s)'
  BY <1>1 DEF Restart, HandlerShape, QueueIsTail, ReplayCovers, LiveCovers, PageContinues, NoGapIn
<1>3. QED
  BY <1>1, <1>2

LEMMA IInvInitial == Init => IInv
<1> SUFFICES ASSUME Init PROVE IInv
  OBVIOUS
<1>1. TypeOK
  BY TypeInitial
<1>2. PruneSafe
  BY DEF Init, JournalInit, PruneSafe, Fibers
<1>3. \A s \in Streams : HandlerInv(s)
  BY DEF Init, HandlerInv, HandlerShape, QueueIsTail, ReplayCovers, LiveCovers,
         PageContinues, NoGapIn
<1>4. QED
  BY <1>1, <1>2, <1>3 DEF IInv

LEMMA IInvInductive == IInv /\ [Next]_vars => IInv'
<1> SUFFICES ASSUME IInv, [Next]_vars PROVE IInv'
  OBVIOUS
<1>1. TypeOK'
  BY TypeInductive DEF IInv
<1>2. CASE JournalStep /\ UNCHANGED streamVars
  BY <1>1, <1>2, JournalStepKeeps
<1>3. CASE Notify
  BY <1>1, <1>3, NotifyKeeps
<1>4. ASSUME NEW s \in Streams,
             \/ \E from \in 0 .. MaxRows : Open(s, from)
             \/ HandlerStep(s) \/ FailBoundary(s) \/ Abort(s)
      PROVE  IInv'
  BY <1>1, <1>4, BoundaryStepsKeep, ReadPageKeeps, WritePageKeeps, WriteLiveKeeps
  DEF HandlerStep
<1>5. CASE Restart
  BY <1>1, <1>5, RestartKeeps
<1>6. CASE UNCHANGED vars
  <2>1. PruneSafe' /\ Notified' = Notified /\ pruned' >= pruned
    BY <1>6 DEF vars, journalVars, IInv, TypeOK, JournalTypeOK, PruneSafe, Notified, LastCursor
  <2>2. QED
    BY <1>1, <1>6, <2>1, CalmStep DEF vars
<1>7. QED
  BY <1>2, <1>3, <1>4, <1>5, <1>6 DEF Next

LEMMA IInvHolds == Spec => []IInv
<1>1. QED
  BY IInvInitial, IInvInductive, PTL DEF Spec

(***************************************************************************)
(* The handover from replay to live records skips no row that is stored.   *)
(***************************************************************************)
THEOREM StreamHasNoGap == Spec => []NoGap
<1>1. IInv => NoGap
  BY DEF IInv, HandlerInv, NoGapIn, NoGap
<1>2. QED
  BY <1>1, IInvHolds, PTL

(***************************************************************************)
(* A handler that waits for live records has written all it owes.          *)
(***************************************************************************)
THEOREM NoLostWakeUp == Spec => []WaitingIsCaughtUp
<1>1. ASSUME IInv, NEW s \in Streams, Waiting(s)
      PROVE  \A c \in cursor[s] + 1 .. Notified : c <= pruned
  <2>1. Older(s) = Notified
    BY <1>1, NotifiedIsNat DEF Waiting, Older, IInv
  <2>2. QED
    BY <1>1, <2>1 DEF IInv, HandlerInv, LiveCovers, Waiting
<1>2. IInv => WaitingIsCaughtUp
  BY <1>1 DEF WaitingIsCaughtUp
<1>3. QED
  BY <1>2, IInvHolds, PTL

(***************************************************************************)
(* Only an open handler, or one whose boundary query has not returned,     *)
(* keeps a journal listener.                                               *)
(***************************************************************************)
THEOREM ListenersDoNotLeak == Spec => []NoLeakedListener
<1>1. IInv => NoLeakedListener
  BY DEF IInv, HandlerInv, HandlerShape, TypeOK, NoLeakedListener
<1>2. QED
  BY <1>1, IInvHolds, PTL

(***************************************************************************)
(* No prune deletes one of the newest Capacity rows.                       *)
(***************************************************************************)
THEOREM PruningKeepsNewest == Spec => []NewestRowsSurvive
<1>1. ASSUME IInv PROVE NewestRowsSurvive
  <2>1. LastCursor \in Nat /\ pruned \in Nat
    BY <1>1, NotifiedIsNat DEF IInv, TypeOK, JournalTypeOK
  <2>2. QED
    BY <1>1, <2>1, JournalAssumption DEF IInv, PruneSafe, NewestRowsSurvive
<1>2. QED
  BY <1>1, IInvHolds, PTL
-----------------------------------------------------------------------------
(* The refinement: every step is a step of LogDelivery or a stutter. *)

\* What a handler is about to replay has been inserted.
BehindTail ==
  \A s \in Streams :
    /\ snapshot[s] <= LastCursor
    /\ boundary[s] <= LastCursor
    /\ \A p \in page[s] : p <= LastCursor

\* Rows are only ever appended.
LEMMA TailAdvances ==
  ASSUME TypeOK, [Next]_vars
  PROVE  LastCursor' \in {LastCursor, LastCursor + 1}
<1> USE DEF TypeOK, JournalTypeOK, LastCursor, vars, journalVars
<1>1. CASE JournalStep
  <2>1. ASSUME NEW e \in EventIds, Insert(e) PROVE Len(rows') = Len(rows) + 1
    BY <2>1 DEF Insert
  <2>2. CASE ~\E e \in EventIds : Insert(e)
    BY <1>1, <2>2 DEF JournalStep, PublisherPrune, StartMaintenance, MaintenancePrune,
                      EnsureEventIdIndex, FailMaintenance
  <2>3. QED
    BY <2>1, <2>2
<1>2. CASE Notify \/ Restart
  BY <1>2 DEF Notify, AfterNotify, Restart, RestartJournal
<1>3. ASSUME NEW s \in Streams, ReadPage(s) PROVE Len(rows') = Len(rows)
  <2>1. PageAfter(cursor[s], boundary[s]) \in SUBSET Nat
    BY StreamAssumption DEF PageAfter, NoBoundary
  <2>2. QED
    BY <1>3, <2>1, QuarantineKeepsRows DEF ReadPage
<1>4. ASSUME NEW s \in Streams,
             \/ \E from \in 0 .. MaxRows : Open(s, from)
             \/ HandlerStep(s) \/ FailBoundary(s) \/ Abort(s)
      PROVE  Len(rows') = Len(rows)
  BY <1>3, <1>4 DEF Open, HandlerStep, QueryBoundary, ResumeOpen, ResumeCleanedUp, WritePage,
                    WriteLive, FailBoundary, Abort
<1>5. QED
  BY <1>1, <1>2, <1>4 DEF Next

LEMMA BehindTailInductive ==
  ASSUME TypeOK, TypeOK', BehindTail, [Next]_vars
  PROVE  BehindTail'
<1>1. LastCursor \in Nat /\ LastCursor' >= LastCursor /\ LastCursor' \in Nat
  BY TailAdvances DEF TypeOK, JournalTypeOK, LastCursor
<1>2. ASSUME NEW s \in Streams
      PROVE  /\ snapshot'[s] = snapshot[s] \/ snapshot'[s] = LastCursor
             /\ boundary'[s] = boundary[s] \/ boundary'[s] = NoBoundary
                  \/ boundary'[s] = snapshot[s]
             /\ \A p \in page'[s] : p \in page[s] \/ p <= boundary[s]
  <2> USE DEF TypeOK
  <2>1. CASE UNCHANGED <<snapshot, boundary, page>>
    BY <2>1
  <2>2. ASSUME NEW t \in Streams, NEW from \in 0 .. MaxRows, Open(t, from)
        PROVE  <1>2!2
    BY <2>2 DEF Open
  <2>3. ASSUME NEW t \in Streams, QueryBoundary(t) PROVE <1>2!2
    BY <2>3 DEF QueryBoundary
  <2>4. ASSUME NEW t \in Streams, ResumeOpen(t) PROVE <1>2!2
    BY <2>4 DEF ResumeOpen
  <2>5. ASSUME NEW t \in Streams, ReadPage(t) PROVE <1>2!2
    <3>1. \A p \in PageAfter(cursor[t], boundary[t]) : p <= boundary[t]
      <4> DEFINE first == IF cursor[t] > pruned THEN cursor[t] + 1 ELSE pruned + 1
      <4>1. first \in Nat /\ boundary[t] \in Int
        <5>1. cursor[t] \in Nat /\ pruned \in Nat /\ boundary[t] \in Int
          <6>1. cursor[t] \in Nat /\ pruned \in Nat
            BY DEF JournalTypeOK
          <6>2. boundary[t] \in Int
            BY DEF NoBoundary
          <6>3. QED
            BY <6>1, <6>2
        <5>2. cursor[t] + 1 \in Nat /\ pruned + 1 \in Nat
          BY <5>1
        <5>3. QED
          BY <5>1, <5>2
      <4> HIDE DEF first
      <4>2. PageAfter(cursor[t], boundary[t]) =
              first .. (IF first + PageSize - 1 < boundary[t]
                        THEN first + PageSize - 1 ELSE boundary[t])
        BY DEF PageAfter, first
      <4>3. QED
        BY <4>1, <4>2, StreamAssumption
    <3>2. QED
      BY <2>5, <3>1 DEF ReadPage
  <2>6. ASSUME NEW t \in Streams, WritePage(t) PROVE <1>2!2
    BY <2>6 DEF WritePage
  <2>7. QED
    BY <2>1, <2>2, <2>3, <2>4, <2>5, <2>6
    DEF Next, JournalStep, Notify, HandlerStep, ResumeCleanedUp, WriteLive, FailBoundary,
        Abort, Restart, vars, streamVars
<1>3. ASSUME NEW s \in Streams
      PROVE  /\ snapshot'[s] <= LastCursor' /\ boundary'[s] <= LastCursor'
             /\ \A p \in page'[s] : p <= LastCursor'
  <2>1. /\ snapshot[s] \in Int /\ boundary[s] \in Int /\ snapshot'[s] \in Int
        /\ boundary'[s] \in Int /\ page[s] \subseteq Int /\ page'[s] \subseteq Int
    BY DEF TypeOK, NoBoundary
  <2>2. /\ snapshot[s] <= LastCursor /\ boundary[s] <= LastCursor
        /\ \A p \in page[s] : p <= LastCursor
    BY DEF BehindTail
  <2>3. QED
    BY <1>1, <1>2, <2>1, <2>2 DEF NoBoundary
<1>4. QED
  BY <1>3 DEF BehindTail

RInv == IInv /\ BehindTail

LEMMA RInvHolds == Spec => []RInv
<1>1. Init => BehindTail
  <2>1. Init => LastCursor \in Nat
    BY TypeInitial DEF TypeOK, JournalTypeOK, LastCursor
  <2>2. QED
    BY <2>1 DEF Init, BehindTail, NoBoundary
<1>2. IInv /\ IInv' /\ BehindTail /\ [Next]_vars => BehindTail'
  BY BehindTailInductive DEF IInv
<1>3. QED
  BY <1>1, <1>2, IInvHolds, PTL DEF Spec, RInv
LEMMA JournalRefines ==
  ASSUME RInv, RInv', JournalStep, UNCHANGED streamVars
  PROVE  [Promised!Next]_(Promised!vars)
<1>1. LastCursor \in Nat /\ pruned \in Nat /\ pruned' \in Nat
  BY DEF RInv, IInv, TypeOK, JournalTypeOK, LastCursor
<1>2. ASSUME NEW e \in EventIds, Insert(e) PROVE Promised!AppendEntry
  BY <1>2 DEF Insert, streamVars, LastCursor, RInv, IInv, TypeOK, JournalTypeOK,
              Promised!AppendEntry, Promised!readerVars
<1>3. CASE ~\E e \in EventIds : Insert(e)
  <2>1. LastCursor' = LastCursor
    BY <1>3 DEF JournalStep, PublisherPrune, StartMaintenance, MaintenancePrune,
                EnsureEventIdIndex, FailMaintenance, LastCursor
  <2>2. pruned' = pruned \/ (pruned' > pruned /\ pruned' <= LastCursor)
    <3>1. pruned' >= pruned
      BY <1>1, <1>3, DeleteIsBounded
      DEF JournalStep, PublisherPrune, StartMaintenance, MaintenancePrune, EnsureEventIdIndex,
          FailMaintenance, Fibers, RInv, IInv, TypeOK
    <3>2. pruned' = 0 \/ pruned' <= LastCursor
      BY <1>1, <2>1, JournalAssumption DEF RInv, IInv, PruneSafe
    <3>3. QED
      BY <1>1, <3>1, <3>2
  <2>3. CASE pruned' = pruned
    BY <2>1, <2>3 DEF streamVars, Promised!vars
  <2>4. CASE pruned' > pruned /\ pruned' <= LastCursor
    <3>1. Promised!Trim
      BY <1>1, <2>1, <2>4 DEF streamVars, Promised!Trim, Promised!readerVars
    <3>2. QED
      BY <3>1 DEF Promised!Next
  <2>5. QED
    BY <2>2, <2>3, <2>4
<1>4. QED
  BY <1>2, <1>3 DEF Promised!Next

\* A step that writes row c of handler s delivers entry c.
LEMMA WriteRefines ==
  ASSUME TypeOK, NEW s \in Streams, NEW c \in 1 .. LastCursor, active[s], cursor[s] < c,
         \A d \in cursor[s] + 1 .. c - 1 : d <= pruned, Write(s, c),
         LastCursor' = LastCursor, pruned' = pruned, after' = after, active' = active
  PROVE  Promised!Next
<1>1. Promised!Deliver(s, c)
  BY DEF Write, Promised!Deliver
<1>2. QED
  BY <1>1 DEF Promised!Next

LEMMA HandlerRefines ==
  ASSUME RInv, RInv', NEW s \in Streams,
         \/ \E from \in 0 .. MaxRows : Open(s, from)
         \/ HandlerStep(s) \/ FailBoundary(s) \/ Abort(s)
  PROVE  [Promised!Next]_(Promised!vars)
<1> USE DEF RInv, IInv, TypeOK
<1>1. LastCursor \in Nat /\ cursor[s] \in Nat
  BY DEF JournalTypeOK, LastCursor
<1>2. ASSUME NEW from \in 0 .. MaxRows, Open(s, from) PROVE Promised!OpenAnywhere(s)
  <2>1. ~active[s] /\ cursor'[s] = from /\ from \in Nat
    BY <1>2, JournalAssumption DEF Open, HandlerInv, HandlerShape
  <2>2. LastCursor' = LastCursor /\ pruned' = pruned
    BY <1>2 DEF Open, journalVars, LastCursor
  <2>3. QED
    BY <1>2, <2>1, <2>2 DEF Open, Promised!OpenAnywhere
<1>3. CASE FailBoundary(s) \/ Abort(s)
  <2>1. /\ UNCHANGED <<rows, pruned, after, cursor, sent>>
        /\ active' = [active EXCEPT ![s] = FALSE]
    BY <1>3 DEF FailBoundary, Abort, journalVars
  <2>2. active' \in [Streams -> BOOLEAN] /\ \A r \in Streams : active'[r] => active[r]
    BY <2>1
  <2>3. Promised!Close
    BY <2>1, <2>2 DEF LastCursor, Promised!Close
  <2>4. QED
    BY <2>3 DEF Promised!Next
<1>4. CASE QueryBoundary(s) \/ ResumeOpen(s) \/ ResumeCleanedUp(s)
  BY <1>4 DEF QueryBoundary, ResumeOpen, ResumeCleanedUp, journalVars, LastCursor,
              Promised!vars
<1>5. CASE ReadPage(s)
  <2>1. PageAfter(cursor[s], boundary[s]) \in SUBSET Nat
    BY <1>5 DEF ReadPage
  <2>2. LastCursor' = LastCursor
    BY <1>5, <2>1, QuarantineKeepsRows DEF ReadPage, JournalTypeOK, LastCursor
  <2>3. QED
    BY <1>5, <2>2 DEF ReadPage, Promised!vars
<1>6. CASE WritePage(s)
  <2>1. PICK c \in page[s] :
          /\ \A d \in page[s] : c <= d
          /\ IF c <= cursor[s] THEN UNCHANGED <<cursor, sent>> ELSE Write(s, c)
    BY <1>6 DEF WritePage
  <2>2. /\ LastCursor' = LastCursor /\ pruned' = pruned /\ after' = after /\ active' = active
        /\ active[s] /\ phase[s] = "replay"
    BY <1>6 DEF WritePage, journalVars, LastCursor, HandlerInv, HandlerShape
  <2>3. CASE c <= cursor[s]
    BY <2>1, <2>2, <2>3 DEF Promised!vars
  <2>4. CASE ~(c <= cursor[s])
    <3>1. c \in 1 .. LastCursor /\ cursor[s] < c
      BY <1>1, <2>4 DEF BehindTail
    <3>2. ASSUME NEW d \in cursor[s] + 1 .. c - 1 PROVE d <= pruned
      <4>1. d \in page[s] \/ d <= pruned
        BY <1>1, <2>2, <3>1 DEF HandlerInv, PageContinues
      <4>2. QED
        BY <1>1, <2>1, <3>1, <4>1
    <3>3. QED
      BY <2>1, <2>2, <2>4, <3>1, <3>2, WriteRefines
  <2>5. QED
    BY <2>3, <2>4
<1>7. CASE WriteLive(s)
  <2>1. /\ LastCursor' = LastCursor /\ pruned' = pruned /\ after' = after /\ active' = active
        /\ active[s] /\ phase[s] = "live" /\ Len(queue[s]) \in Nat \ {0}
    BY <1>7 DEF WriteLive, journalVars, LastCursor, HandlerInv, HandlerShape
  <2>2. /\ Head(queue[s]) = Older(s) + 1 /\ Older(s) + 1 \in 1 .. LastCursor
        /\ Older(s) \in Int
    <3>1. Notified \in Nat /\ Notified <= LastCursor
      BY NotifiedIsNat
    <3>2. Older(s) \in Int /\ Older(s) >= 0 /\ queue[s][1] = Older(s) + 1
      BY <2>1, <3>1 DEF HandlerInv, QueueIsTail, Older
    <3>3. Older(s) + 1 <= Notified
      BY <2>1, <3>1 DEF Older
    <3>4. Head(queue[s]) = queue[s][1]
      BY <1>7 DEF WriteLive
    <3>5. QED
      BY <1>1, <3>1, <3>2, <3>3, <3>4
  <2>3. CASE Older(s) + 1 <= cursor[s]
    BY <1>7, <2>1, <2>2, <2>3 DEF WriteLive, Promised!vars
  <2>4. CASE ~(Older(s) + 1 <= cursor[s])
    <3>1. Write(s, Older(s) + 1)
      BY <1>7, <2>2, <2>4 DEF WriteLive
    <3>2. \A d \in cursor[s] + 1 .. (Older(s) + 1) - 1 : d <= pruned
      <4>1. (Older(s) + 1) - 1 = Older(s)
        BY <2>2
      <4>2. QED
        BY <2>1, <4>1 DEF HandlerInv, LiveCovers
    <3>3. cursor[s] < Older(s) + 1
      BY <1>1, <2>2, <2>4
    <3>4. QED
      BY <2>1, <2>2, <3>1, <3>2, <3>3, WriteRefines
  <2>5. QED
    BY <2>3, <2>4
<1>8. QED
  BY <1>2, <1>3, <1>4, <1>5, <1>6, <1>7 DEF HandlerStep, Promised!Next

(***************************************************************************)
(* Whatever the timing of inserts, prunes, disconnects and restarts, each  *)
(* handler gives its client the ordered log that LogDelivery promises.     *)
(***************************************************************************)
THEOREM StreamImplementsLogDelivery == Spec => DeliversLog
<1>1. Init => Promised!Init
  <2>1. Init => LastCursor \in Nat
    BY TypeInitial DEF TypeOK, JournalTypeOK, LastCursor
  <2>2. QED
    BY <2>1 DEF Init, JournalInit, Promised!Init
<1>2. RInv /\ RInv' /\ [Next]_vars => [Promised!Next]_(Promised!vars)
  <2> SUFFICES ASSUME RInv, RInv', [Next]_vars PROVE [Promised!Next]_(Promised!vars)
    OBVIOUS
  <2>1. CASE JournalStep /\ UNCHANGED streamVars
    BY <2>1, JournalRefines
  <2>2. CASE Notify \/ Restart
    <3>1. /\ LastCursor' = LastCursor /\ UNCHANGED <<pruned, after, cursor, sent>>
      BY <2>2 DEF Notify, AfterNotify, Restart, RestartJournal, LastCursor
    <3>2. \A r \in Streams : active'[r] => active[r]
      BY <2>2, Zenon DEF Notify, Restart
    <3>3. Promised!Close
      BY <3>1, <3>2 DEF Promised!Close, RInv, IInv, TypeOK
    <3>4. QED
      BY <3>3 DEF Promised!Next
  <2>3. ASSUME NEW s \in Streams,
               \/ \E from \in 0 .. MaxRows : Open(s, from)
               \/ HandlerStep(s) \/ FailBoundary(s) \/ Abort(s)
        PROVE  [Promised!Next]_(Promised!vars)
    BY <2>3, HandlerRefines
  <2>4. CASE UNCHANGED vars
    BY <2>4 DEF vars, journalVars, streamVars, LastCursor, Promised!vars
  <2>5. QED
    BY <2>1, <2>2, <2>3, <2>4 DEF Next
<1>3. QED
  BY <1>1, <1>2, RInvHolds, PTL DEF Spec, DeliversLog, Promised!Spec
=============================================================================
