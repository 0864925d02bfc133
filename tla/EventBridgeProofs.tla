------------------------- MODULE EventBridgeProofs -------------------------
(***************************************************************************)
(* Proofs about the bridge, for any journal, quarantine records, overlap,  *)
(* persist interval and capacity.                                          *)
(*                                                                         *)
(* Line is what is between the PubSub and the worker.  The argument for    *)
(* CursorsSkipNothing: whatever lies before an event of the line has been  *)
(* dealt with or stands earlier in the line, and whatever lies before a    *)
(* position of the reader has been dealt with or stands in the line.  So   *)
(* all that lies before the event the worker takes has been dealt with.    *)
(*                                                                         *)
(* The argument for RewindBounded: until a process has written its first   *)
(* row, everything it has in hand lies past the row it found, less the     *)
(* overlap; after that it knows its row.                                   *)
(*                                                                         *)
(* The argument for FirstTriesInOrder: from each position of the reader up *)
(* to the cursor, every event was taken up, stands in the line, was missed *)
(* or is none.  So an event accepted again, from a lost connection or its  *)
(* successor, is no first try, and one that is new is past all others.     *)
(***************************************************************************)
EXTENDS EventBridge, SequenceTheorems, TLAPS

Event == Nat \ {0}
Line == queue \o inbox

InLine(e) == \E k \in DOMAIN Line : Line[k] = e
Piped(e) == Handled(e) \/ InLine(e)

AppliedOnce == processed \subseteq applied

LineInOrder ==
  \A k \in DOMAIN Line : \A e \in Event :
    e < Line[k] => Handled(e) \/ \E j \in DOMAIN Line : j < k /\ Line[j] = e

ReaderBehind ==
  \A e \in Event :
    /\ e <= eventCursor => Piped(e)
    /\ live # 0 /\ e < live => Piped(e)
    /\ \A l \in stale : e < l.next => Piped(e)

CursorsBehind ==
  \A e \in Event :
    e <= durable \/ e <= processedCursor \/ e <= pending \/ e <= lastPersisted \/ e <= marking
      => Handled(e)

IInv == TypeOK /\ AppliedOnce /\ LineInOrder /\ ReaderBehind /\ CursorsBehind

-----------------------------------------------------------------------------
\* Every step keeps the types.
LEMMA TypeStep ==
  ASSUME TypeOK, [Next]_vars
  PROVE  TypeOK'
<1> USE BridgeAssumption DEF TypeOK
<1>a. ASSUME NEW n \in Nat, Accept(n)
      PROVE  /\ eventCursor' \in Nat /\ missed' \subseteq Nat
             /\ inbox' \in Seq(Nat) /\ Len(inbox') <= BridgeCapacity
  <2>1. CASE n \in Gaps /\ UNCHANGED <<inbox, missed>>
    BY <1>a, <2>1 DEF Accept, Larger
  <2>2. CASE /\ n \notin Gaps /\ phase = "built"
             /\ missed' = missed \cup {n}
             /\ UNCHANGED inbox
    BY <1>a, <2>2 DEF Accept, Larger
  <2>3. CASE /\ n \notin Gaps /\ phase = "started" /\ Len(inbox) < BridgeCapacity
             /\ inbox' = Append(inbox, n)
             /\ UNCHANGED missed
    <3>1. inbox' \in Seq(Nat) /\ Len(inbox') = Len(inbox) + 1
      BY <2>3
    <3> QED
      BY <1>a, <2>3, <3>1 DEF Accept, Larger
  <2> QED
    BY <1>a, <2>1, <2>2, <2>3 DEF Accept
<1>1. CASE Store
  BY <1>1 DEF Store, reader, cursors, outcome
<1>2. CASE Build
  BY <1>2 DEF Build, Rewound, Larger, cursors, outcome
<1>3. CASE Subscribe
  BY <1>3 DEF Subscribe, reader, cursors, outcome
<1>4. CASE Reconnect
  BY <1>4 DEF Reconnect, Connect, cursors, outcome
<1>5. CASE Read
  <2>1. Accept(live) /\ live' = live + 1 /\ UNCHANGED stale
    BY <1>5 DEF Read
  <2>2. QED
    <3>1. /\ eventCursor' \in Nat /\ missed' \subseteq Nat
          /\ inbox' \in Seq(Nat) /\ Len(inbox') <= BridgeCapacity
      BY <1>a, <2>1
    <3>2. live' \in Nat
      BY <2>1
    <3> QED
      BY <2>1, <3>1, <3>2 DEF Accept, cursors
<1>6. ASSUME NEW l \in stale, ReadStale(l) PROVE TypeOK'
  <2>1. l \in [next : Nat, last : Nat]
    OBVIOUS
  <2>2. l.next \in Nat /\ l.last \in Nat
    BY <2>1
  <2>3. Accept(l.next) /\ UNCHANGED live
    BY <1>6 DEF ReadStale
  <2>4. [next |-> l.next + 1, last |-> l.last] \in [next : Nat, last : Nat]
    BY <2>2
  <2>5. stale' \subseteq [next : Nat, last : Nat]
    BY <1>6, <2>4 DEF ReadStale
  <2>6. /\ eventCursor' \in Nat /\ missed' \subseteq Nat
        /\ inbox' \in Seq(Nat) /\ Len(inbox') <= BridgeCapacity
    BY <1>a, <2>2, <2>3
  <2> QED
    BY <2>3, <2>5, <2>6 DEF Accept, cursors
<1>7. CASE Disconnect
  <2>1. PICK last \in live - 1 .. stored :
          /\ live # 0 /\ Incident
          /\ live' = 0
          /\ stale' = IF last < live THEN stale ELSE stale \cup {[next |-> live, last |-> last]}
          /\ UNCHANGED <<stored, durable, phase, eventCursor, inbox, queue, marking, processed,
                         cursors, tried, outcome>>
    BY <1>7 DEF Disconnect
  <2>2. last \in Nat
    BY <2>1
  <2>3. [next |-> live, last |-> last] \in [next : Nat, last : Nat]
    BY <2>2
  <2>4. stale' \subseteq [next : Nat, last : Nat]
    BY <2>1, <2>3
  <2> QED
    BY <2>1, <2>4 DEF Incident, cursors, outcome
<1>8. CASE Enqueue
  <2>1. Head(inbox) \in Nat /\ Tail(inbox) \in Seq(Nat) /\ Len(Tail(inbox)) = Len(inbox) - 1
    BY <1>8 DEF Enqueue
  <2> QED
    BY <1>8, <2>1 DEF Enqueue, reader, cursors, outcome
<1>9. CASE Work
  <2>1. Head(queue) \in Nat /\ Tail(queue) \in Seq(Nat)
    BY <1>9 DEF Work
  <2>2. /\ processed' \subseteq Nat /\ tried' \subseteq Nat
        /\ applied' \subseteq Nat /\ failed' \subseteq Nat /\ missed' \subseteq Nat
    BY <1>9, <2>1 DEF Work, outcome
  <2>3. marking' \in Nat /\ incidents' \in Nat
    BY <1>9, <2>1 DEF Work, Incident, outcome
  <2> QED
    BY <1>9, <2>1, <2>2, <2>3 DEF Work, reader, cursors
<1>10. CASE Mark
  BY <1>10 DEF Mark, Larger, Incident, reader, outcome
<1>11. CASE Crash \/ Stop
  <2>1. Gone /\ durable' \in Nat
    BY <1>11 DEF Crash, Stop
  <2>2. <<>> \in Seq(Nat) /\ Len(<<>>) <= BridgeCapacity
    OBVIOUS
  <2>3. incidents' \in Nat /\ stored' \in Nat
    BY <2>1 DEF Gone, Incident
  <2> QED
    BY <2>1, <2>2, <2>3 DEF Gone, outcome
<1>12. CASE UNCHANGED vars
  BY <1>12 DEF vars, reader, cursors, outcome
<1> QED
  BY <1>1, <1>2, <1>3, <1>4, <1>5, <1>6, <1>7, <1>8, <1>9, <1>10, <1>11, <1>12 DEF Next, ReadLoop

\* Every variable keeps its type, for any constants: TypeOK of the runs.
THEOREM TypeCorrect == Spec => []TypeOK
<1>1. Init => TypeOK
  BY BridgeAssumption DEF Init, TypeOK
<1>2. TypeOK /\ [Next]_vars => TypeOK'
  BY TypeStep
<1> QED
  BY <1>1, <1>2, PTL DEF Spec

-----------------------------------------------------------------------------
\* The three ways the line changes.
LEMMA JoinAppend ==
  ASSUME NEW q \in Seq(Nat), NEW i \in Seq(Nat), NEW n \in Nat
  PROVE  q \o Append(i, n) = Append(q \o i, n)
<1>1. q \o Append(i, n) \in Seq(Nat) /\ Append(q \o i, n) \in Seq(Nat)
  OBVIOUS
<1> QED
  BY <1>1

LEMMA JoinMove ==
  ASSUME NEW q \in Seq(Nat), NEW i \in Seq(Nat), i # <<>>
  PROVE  Append(q, Head(i)) \o Tail(i) = q \o i
<1>1. Append(q, Head(i)) \o Tail(i) \in Seq(Nat) /\ q \o i \in Seq(Nat)
  OBVIOUS
<1> QED
  BY <1>1

LEMMA JoinTail ==
  ASSUME NEW q \in Seq(Nat), NEW i \in Seq(Nat), q # <<>>
  PROVE  Tail(q) \o i = Tail(q \o i) /\ q \o i # <<>> /\ Head(q \o i) = Head(q)
<1>1. Tail(q) \in Seq(Nat) /\ Len(Tail(q)) = Len(q) - 1 /\ Len(q) >= 1
  OBVIOUS
<1>2. /\ q \o i \in Seq(Nat) /\ Len(q \o i) = Len(q) + Len(i)
      /\ Tail(q) \o i \in Seq(Nat) /\ Len(Tail(q) \o i) = Len(q) - 1 + Len(i)
  BY <1>1
<1>3. q \o i # <<>> /\ Head(q \o i) = Head(q)
  BY <1>1, <1>2
<1>4. Tail(q \o i) \in Seq(Nat) /\ Len(Tail(q \o i)) = Len(q) - 1 + Len(i)
  BY <1>1, <1>2, <1>3
<1>5. ASSUME NEW k \in 1 .. Len(q) - 1 + Len(i)
      PROVE  (Tail(q) \o i)[k] = Tail(q \o i)[k]
  <2>1. Tail(q \o i)[k] = (q \o i)[k + 1]
    BY <1>2, <1>3
  <2>2. CASE k <= Len(q) - 1
    BY <1>1, <2>1, <2>2
  <2>3. CASE k > Len(q) - 1
    BY <1>1, <2>1, <2>3
  <2> QED
    BY <2>2, <2>3, <1>1
<1>6. Tail(q) \o i = Tail(q \o i)
  BY <1>2, <1>4, <1>5, SeqEqual
<1> QED
  BY <1>3, <1>6

-----------------------------------------------------------------------------
\* What is handled stays handled.
LEMMA HandledStays ==
  ASSUME TypeOK, [Next]_vars, NEW e, Handled(e)
  PROVE  Handled(e)'
<1>1. applied \subseteq applied' /\ failed \subseteq failed' /\ missed \subseteq missed'
  BY DEF Next, Store, Build, Subscribe, ReadLoop, Reconnect, Connect, Read, Accept, Disconnect,
         ReadStale, Enqueue, Work, Mark, Crash, Stop, Gone, vars, outcome
<1> QED
  BY <1>1 DEF Handled

\* Accepting a record: the event before which all is piped becomes piped.
LEMMA AcceptPipes ==
  ASSUME IInv, NEW n \in Nat, Accept(n),
         \A e \in Event : e < n => Piped(e)
  PROVE  /\ LineInOrder'
         /\ \A e \in Event : e <= n \/ Piped(e) => Piped(e)'
         /\ \A e \in Event : e <= eventCursor' => Piped(e)'
         /\ CursorsBehind' /\ AppliedOnce'
<1> USE DEF Event
<1>0. Line \in Seq(Nat) /\ \A e : Handled(e) => Handled(e)'
  BY DEF IInv, TypeOK, Line, Accept, Handled
<1>1. \/ Line' = Line /\ Handled(n)'
      \/ Line' = Append(Line, n)
  <2>1. CASE n \in Gaps /\ UNCHANGED <<inbox, missed>>
    BY <2>1 DEF Accept, Line, Handled
  <2>2. CASE /\ n \notin Gaps /\ phase = "built"
             /\ missed' = missed \cup {n}
             /\ UNCHANGED inbox
    BY <2>2 DEF Accept, Line, Handled
  <2>3. CASE /\ n \notin Gaps /\ phase = "started" /\ Len(inbox) < BridgeCapacity
             /\ inbox' = Append(inbox, n)
             /\ UNCHANGED missed
    <3>1. Line' = queue \o Append(inbox, n)
      BY <2>3 DEF Accept, Line
    <3> QED
      BY <3>1, JoinAppend DEF IInv, TypeOK, Line
  <2> QED
    BY <2>1, <2>2, <2>3 DEF Accept
<1> HIDE DEF Line
<1>2. ASSUME NEW e \in Event, e = n \/ Piped(e)
      PROVE  Piped(e)'
  <2>1. CASE Line' = Line /\ Handled(n)'
    BY <1>0, <1>2, <2>1 DEF Piped, InLine
  <2>2. CASE Line' = Append(Line, n)
    <3>1. /\ DOMAIN Line' = 1 .. Len(Line) + 1 /\ DOMAIN Line = 1 .. Len(Line)
          /\ Len(Line) \in Nat
          /\ \A j \in 1 .. Len(Line) : Line'[j] = Line[j]
          /\ Line'[Len(Line) + 1] = n
      BY <2>2, <1>0
    <3>2. CASE e = n
      BY <3>1, <3>2 DEF Piped, InLine
    <3>3. CASE Handled(e)
      BY <3>3, <1>0 DEF Piped
    <3>4. CASE InLine(e)
      <4>1. PICK j \in DOMAIN Line : Line[j] = e
        BY <3>4 DEF InLine
      <4>2. j \in DOMAIN Line' /\ Line'[j] = e
        BY <4>1, <3>1
      <4> QED
        BY <4>2 DEF Piped, InLine
    <3> QED
      BY <1>2, <3>2, <3>3, <3>4 DEF Piped
  <2> QED
    BY <1>1, <2>1, <2>2
<1>3. \A e \in Event : e <= n => Piped(e)'
  BY <1>2
<1>4. LineInOrder'
  <2>1. CASE Line' = Line
    BY <2>1, <1>0 DEF IInv, LineInOrder
  <2>2. CASE Line' = Append(Line, n)
    <3>1. /\ DOMAIN Line' = 1 .. Len(Line) + 1 /\ DOMAIN Line = 1 .. Len(Line)
          /\ Len(Line) \in Nat
          /\ \A j \in 1 .. Len(Line) : Line'[j] = Line[j]
          /\ Line'[Len(Line) + 1] = n
      BY <2>2, <1>0
    <3> SUFFICES ASSUME NEW k \in DOMAIN Line', NEW e \in Event, e < Line'[k]
                 PROVE  Handled(e)' \/ \E j \in DOMAIN Line' : j < k /\ Line'[j] = e
      BY DEF LineInOrder
    <3>2. CASE k \in DOMAIN Line
      <4>1. Handled(e) \/ \E j \in DOMAIN Line : j < k /\ Line[j] = e
        BY <1>0, <3>1, <3>2 DEF IInv, LineInOrder
      <4>2. CASE Handled(e)
        BY <4>2, <1>0
      <4>3. ASSUME NEW j \in DOMAIN Line, j < k, Line[j] = e
            PROVE  \E i \in DOMAIN Line' : i < k /\ Line'[i] = e
        <5>1. j \in DOMAIN Line' /\ Line'[j] = e
          BY <4>3, <3>1
        <5> QED
          BY <4>3, <5>1, <3>1
      <4> QED
        BY <4>1, <4>2, <4>3
    <3>3. CASE k = Len(Line) + 1
      <4>1. Handled(e) \/ \E j \in DOMAIN Line : Line[j] = e
        BY <1>0, <3>1, <3>3 DEF Piped, InLine
      <4>2. CASE Handled(e)
        BY <4>2, <1>0
      <4>3. ASSUME NEW j \in DOMAIN Line, Line[j] = e
            PROVE  \E i \in DOMAIN Line' : i < k /\ Line'[i] = e
        <5>1. j \in DOMAIN Line' /\ Line'[j] = e
          BY <4>3, <3>1
        <5> QED
          BY <4>3, <5>1, <3>1, <3>3
      <4> QED
        BY <4>1, <4>2, <4>3
    <3> QED
      BY <1>0, <3>1, <3>2, <3>3
  <2> QED
    BY <1>1, <2>1, <2>2
<1>5. \A e \in Event : e <= eventCursor' => Piped(e)'
  <2>1. eventCursor' = Larger(eventCursor, n)
    BY DEF Accept
  <2>2. \A e \in Event : e <= eventCursor => Piped(e)
    BY DEF IInv, ReaderBehind
  <2>3. \A e \in Event : e <= eventCursor' => e <= eventCursor \/ e <= n
    BY <2>1 DEF Larger, IInv, TypeOK
  <2> QED
    BY <1>2, <1>3, <2>2, <2>3
<1>6. CursorsBehind' /\ AppliedOnce'
  BY <1>0 DEF Accept, IInv, CursorsBehind, AppliedOnce, cursors
<1> QED
  BY <1>2, <1>3, <1>4, <1>5, <1>6

\* A step that leaves the line alone keeps what is said of the line.
LEMMA SameLine ==
  ASSUME IInv, [Next]_vars, Line' = Line
  PROVE  LineInOrder' /\ \A e \in Event : Piped(e) => Piped(e)'
<1>1. \A e : Handled(e) => Handled(e)'
  BY HandledStays DEF IInv
<1> HIDE DEF Line
<1> QED
  BY <1>1 DEF IInv, LineInOrder, Piped, InLine

\* The worker takes the head of the line, before which nothing is left.
LEMMA WorkKeeps ==
  ASSUME IInv, Work
  PROVE  IInv'
<1> USE DEF Event
<1> PICK e : e = Head(queue)
  OBVIOUS
<1>0. [Next]_vars
  BY DEF Next
<1>1. TypeOK'
  BY <1>0, TypeStep DEF IInv
<1>2. queue \in Seq(Nat) /\ inbox \in Seq(Nat) /\ queue # <<>>
  BY DEF IInv, TypeOK, Work
<1>3. Line' = Tail(Line) /\ Line # <<>> /\ Head(Line) = e /\ Line \in Seq(Nat) /\ e \in Nat
  <2>1. /\ Tail(queue) \o inbox = Tail(queue \o inbox)
        /\ queue \o inbox # <<>> /\ Head(queue \o inbox) = Head(queue)
    BY <1>2, JoinTail
  <2>2. queue' = Tail(queue) /\ inbox' = inbox
    BY DEF Work
  <2>3. queue \o inbox \in Seq(Nat) /\ Head(queue) \in Nat
    BY <1>2
  <2> QED
    BY <2>1, <2>2, <2>3 DEF Line
<1>4. \A d : Handled(d) => Handled(d)'
  BY <1>0, HandledStays DEF IInv
<1>5. Handled(e)'
  BY DEF Work, outcome, Handled, IInv, AppliedOnce
<1>6. AppliedOnce'
  BY DEF Work, outcome, IInv, AppliedOnce
<1> HIDE DEF Line
<1>7. 1 \in DOMAIN Line /\ Line[1] = e /\ DOMAIN Line = 1 .. Len(Line)
      /\ Line' \in Seq(Nat) /\ Len(Line') = Len(Line) - 1
      /\ \A j \in 1 .. Len(Line) - 1 : Line'[j] = Line[j + 1]
  BY <1>3
<1>8. \A d \in Event : d < e => Handled(d)
  BY <1>7 DEF IInv, LineInOrder
<1>9. LineInOrder'
  <2> SUFFICES ASSUME NEW k \in DOMAIN Line', NEW d \in Event, d < Line'[k]
               PROVE  Handled(d)' \/ \E j \in DOMAIN Line' : j < k /\ Line'[j] = d
    BY DEF LineInOrder
  <2>1. k + 1 \in DOMAIN Line /\ d < Line[k + 1] /\ k \in Nat
    BY <1>7
  <2>2. CASE Handled(d)
    BY <2>2, <1>4
  <2>3. CASE ~Handled(d)
    <3>1. PICK j \in DOMAIN Line : j < k + 1 /\ Line[j] = d
      BY <2>1, <2>3 DEF IInv, LineInOrder
    <3>2. CASE j = 1
      BY <3>1, <3>2, <1>5, <1>7
    <3>3. CASE j # 1
      <4>1. j - 1 \in DOMAIN Line' /\ j - 1 < k /\ Line'[j - 1] = Line[j]
        BY <3>1, <3>3, <1>7, <2>1
      <4> QED
        BY <3>1, <4>1
    <3> QED
      BY <3>2, <3>3
  <2> QED
    BY <2>2, <2>3
<1>10. \A d \in Event : Piped(d) => Piped(d)'
  <2> SUFFICES ASSUME NEW d \in Event, InLine(d)
               PROVE  Piped(d)'
    BY <1>4 DEF Piped
  <2>1. PICK j \in DOMAIN Line : Line[j] = d
    BY DEF InLine
  <2>2. CASE j = 1
    BY <2>1, <2>2, <1>5, <1>7 DEF Piped
  <2>3. CASE j # 1
    <3>1. j - 1 \in DOMAIN Line' /\ Line'[j - 1] = d
      BY <2>1, <2>3, <1>7
    <3> QED
      BY <3>1 DEF Piped, InLine
  <2> QED
    BY <2>2, <2>3
<1>11. ReaderBehind'
  BY <1>10 DEF Work, reader, IInv, ReaderBehind
<1>12. marking' = 0 \/ marking' = e
  BY DEF Work
<1>13. CursorsBehind'
  <2>1. \A d \in Event : d <= marking' => Handled(d)'
    BY <1>3, <1>4, <1>5, <1>8, <1>12
  <2> QED
    BY <2>1, <1>4 DEF Work, cursors, IInv, CursorsBehind
<1> QED
  BY <1>1, <1>6, <1>9, <1>11, <1>13 DEF IInv

LEMMA IInvInit == Init => IInv
<1> SUFFICES ASSUME Init PROVE IInv
  OBVIOUS
<1>1. TypeOK
  BY BridgeAssumption DEF Init, TypeOK
<1>2. Line = <<>>
  BY DEF Init, Line
<1>3. LineInOrder
  BY <1>2 DEF LineInOrder
<1> QED
  BY <1>1, <1>3 DEF Init, IInv, AppliedOnce, ReaderBehind, CursorsBehind, Event

-----------------------------------------------------------------------------
\* Every step keeps the invariant.
LEMMA InvStep ==
  ASSUME IInv, [Next]_vars
  PROVE  IInv'
<1> USE DEF Event
<1>0. TypeOK /\ TypeOK' /\ \A e : Handled(e) => Handled(e)'
  BY TypeStep, HandledStays DEF IInv
<1>1. ASSUME Line' = Line, AppliedOnce', CursorsBehind', ReaderBehind'
      PROVE  IInv'
  BY <1>0, <1>1, SameLine DEF IInv
<1>2. ASSUME Line' = Line
      PROVE  \A e \in Event : Piped(e) => Piped(e)'
  BY <1>2, SameLine
<1>3. ASSUME UNCHANGED <<processed, applied>>
      PROVE  AppliedOnce'
  BY <1>3 DEF IInv, AppliedOnce
<1>4. ASSUME UNCHANGED <<durable, cursors, marking>>
      PROVE  CursorsBehind'
  BY <1>0, <1>4 DEF IInv, CursorsBehind, cursors
<1>5. CASE Store \/ Subscribe \/ UNCHANGED vars
  <2>1. UNCHANGED <<inbox, queue, processed, applied, durable, cursors, marking, eventCursor,
                    live, stale>>
    BY <1>5 DEF Store, Subscribe, vars, reader, outcome
  <2>2. Line' = Line
    BY <2>1 DEF Line
  <2>3. ReaderBehind'
    BY <1>2, <2>1, <2>2 DEF IInv, ReaderBehind
  <2> QED
    BY <1>1, <1>3, <1>4, <2>1, <2>2, <2>3
<1>6. CASE Build
  <2>1. /\ UNCHANGED <<inbox, queue, processed, applied, durable, cursors, marking, live, stale>>
        /\ eventCursor' = Rewound(durable)
    BY <1>6 DEF Build, outcome
  <2>2. Line' = Line
    BY <2>1 DEF Line
  <2>3. \A e \in Event : e <= eventCursor' => e <= durable
    BY <2>1, <1>0, BridgeAssumption DEF Rewound, Larger, TypeOK
  <2>4. \A e \in Event : e <= eventCursor' => Piped(e)'
    BY <2>3, <1>0 DEF IInv, CursorsBehind, Piped
  <2>5. ReaderBehind'
    BY <1>2, <2>1, <2>2, <2>4 DEF IInv, ReaderBehind
  <2> QED
    BY <1>1, <1>3, <1>4, <2>1, <2>2, <2>5
<1>7. CASE Reconnect
  <2>1. /\ UNCHANGED <<inbox, queue, processed, applied, durable, cursors, marking, eventCursor,
                       stale>>
        /\ live' = eventCursor + 1
    BY <1>7 DEF Reconnect, Connect, outcome
  <2>2. Line' = Line
    BY <2>1 DEF Line
  <2>3. \A e \in Event : e < live' => e <= eventCursor
    BY <2>1, <1>0 DEF TypeOK
  <2>4. ReaderBehind'
    BY <1>2, <2>1, <2>2, <2>3 DEF IInv, ReaderBehind
  <2> QED
    BY <1>1, <1>3, <1>4, <2>1, <2>2, <2>4
<1>8. CASE Read
  <2>1. live \in Nat /\ Accept(live) /\ live' = live + 1 /\ UNCHANGED stale
    BY <1>8, <1>0 DEF Read, TypeOK
  <2>2. \A e \in Event : e < live => Piped(e)
    BY <1>8 DEF Read, IInv, ReaderBehind
  <2>3. /\ LineInOrder' /\ CursorsBehind' /\ AppliedOnce'
        /\ \A e \in Event : e <= live \/ Piped(e) => Piped(e)'
        /\ \A e \in Event : e <= eventCursor' => Piped(e)'
    BY <2>1, <2>2, AcceptPipes
  <2>4. \A e \in Event : e < live' => e <= live
    BY <2>1
  <2>5. ReaderBehind'
    BY <2>1, <2>3, <2>4 DEF IInv, ReaderBehind
  <2> QED
    BY <1>0, <2>3, <2>5 DEF IInv
<1>9. ASSUME NEW l \in stale, ReadStale(l)
      PROVE  IInv'
  <2>1. /\ l.next \in Nat /\ Accept(l.next) /\ UNCHANGED live
        /\ \A s \in stale' : s \in stale \/ s = [next |-> l.next + 1, last |-> l.last]
    BY <1>9, <1>0 DEF ReadStale, TypeOK
  <2>2. \A e \in Event : e < l.next => Piped(e)
    BY DEF IInv, ReaderBehind
  <2>3. /\ LineInOrder' /\ CursorsBehind' /\ AppliedOnce'
        /\ \A e \in Event : e <= l.next \/ Piped(e) => Piped(e)'
        /\ \A e \in Event : e <= eventCursor' => Piped(e)'
    BY <2>1, <2>2, AcceptPipes
  <2>4. ASSUME NEW s \in stale', NEW e \in Event, e < s.next
        PROVE  Piped(e)'
    <3>1. CASE s \in stale
      BY <2>3, <2>4, <3>1 DEF IInv, ReaderBehind
    <3>2. CASE s = [next |-> l.next + 1, last |-> l.last]
      <4>1. e <= l.next
        BY <2>1, <2>4, <3>2
      <4> QED
        BY <2>3, <4>1
    <3> QED
      BY <2>1, <3>1, <3>2
  <2>5. ReaderBehind'
    BY <2>1, <2>3, <2>4 DEF IInv, ReaderBehind
  <2> QED
    BY <1>0, <2>3, <2>5 DEF IInv
<1>10. CASE Disconnect
  <2>1. PICK last \in live - 1 .. stored :
          /\ live # 0 /\ live' = 0
          /\ stale' = IF last < live THEN stale ELSE stale \cup {[next |-> live, last |-> last]}
          /\ UNCHANGED <<inbox, queue, processed, applied, durable, cursors, marking, eventCursor>>
    BY <1>10 DEF Disconnect, outcome
  <2>2. Line' = Line
    BY <2>1 DEF Line
  <2>3. ASSUME NEW s \in stale', NEW e \in Event, e < s.next
        PROVE  Piped(e)
    <3>1. s \in stale \/ s = [next |-> live, last |-> last]
      BY <2>1
    <3>2. s \in stale \/ s.next = live
      BY <3>1
    <3> QED
      BY <2>1, <2>3, <3>2 DEF IInv, ReaderBehind
  <2>4. ReaderBehind'
    BY <1>2, <2>1, <2>2, <2>3 DEF IInv, ReaderBehind
  <2> QED
    BY <1>1, <1>3, <1>4, <2>1, <2>2, <2>4
<1>11. CASE Enqueue
  <2>1. /\ UNCHANGED <<processed, applied, durable, cursors, marking, eventCursor, live, stale>>
        /\ queue' = Append(queue, Head(inbox)) /\ inbox' = Tail(inbox) /\ inbox # <<>>
    BY <1>11 DEF Enqueue, reader, outcome
  <2>2. Line' = Line
    BY <2>1, <1>0, JoinMove DEF Line, TypeOK
  <2>3. ReaderBehind'
    BY <1>2, <2>1, <2>2 DEF IInv, ReaderBehind
  <2> QED
    BY <1>1, <1>3, <1>4, <2>1, <2>2, <2>3
<1>12. CASE Work
  BY <1>12, WorkKeeps
<1>13. CASE Mark
  <2>1. UNCHANGED <<inbox, queue, processed, applied, eventCursor, live, stale>>
    BY <1>13 DEF Mark, reader, outcome
  <2>2. Line' = Line
    BY <2>1 DEF Line
  <2>3. ReaderBehind'
    BY <1>2, <2>1, <2>2 DEF IInv, ReaderBehind
  <2>4. /\ marking' = 0
        /\ processedCursor' \in {processedCursor, marking}
        /\ pending' \in {pending, marking}
        /\ lastPersisted' \in {lastPersisted, pending, marking}
        /\ durable' \in {durable, pending, marking}
    BY <1>13 DEF Mark, Larger
  <2>5. CursorsBehind'
    BY <2>4, <1>0 DEF IInv, CursorsBehind
  <2> QED
    BY <1>1, <1>3, <2>1, <2>2, <2>3, <2>5
<1>14. CASE Crash \/ Stop
  <2>1. Gone /\ durable' \in {durable, pending} /\ UNCHANGED outcome
    BY <1>14 DEF Crash, Stop, Gone
  <2>2. Line' = <<>>
    BY <2>1 DEF Line, Gone
  <2>3. LineInOrder'
    BY <2>2 DEF LineInOrder
  <2>4. ReaderBehind'
    BY <2>1 DEF Gone, ReaderBehind
  <2>5. CursorsBehind' /\ AppliedOnce'
    BY <2>1, <1>0 DEF Gone, IInv, CursorsBehind, AppliedOnce
  <2> QED
    BY <1>0, <2>3, <2>4, <2>5 DEF IInv
<1> QED
  BY <1>5, <1>6, <1>7, <1>8, <1>9, <1>10, <1>11, <1>12, <1>13, <1>14 DEF Next, ReadLoop

(***************************************************************************)
(* No cursor, in memory or in the database, ever stands past an event that *)
(* was not dealt with, however often connections are lost, their buffers   *)
(* are handed over late, events fail or the process ends: the property     *)
(* CursorsSkipNothing of the runs, for any constants.                      *)
(***************************************************************************)
THEOREM NoCursorSkips == Spec => []CursorsSkipNothing
<1>1. Init => IInv
  BY IInvInit
<1>2. IInv /\ [Next]_vars => IInv'
  BY InvStep
<1>3. IInv => CursorsSkipNothing
  BY DEF IInv, TypeOK, CursorsBehind, CursorsSkipNothing, Event
<1> QED
  BY <1>1, <1>2, <1>3, PTL DEF Spec

-----------------------------------------------------------------------------
Beyond(n) == n > durable - Overlap

InHandBeyond ==
  /\ phase # "down" => eventCursor >= durable - Overlap
  /\ live # 0 => Beyond(live)
  /\ \A l \in stale : Beyond(l.next)
  /\ \A k \in 1 .. Len(inbox) : Beyond(inbox[k])
  /\ \A k \in 1 .. Len(queue) : Beyond(queue[k])
  /\ marking # 0 => Beyond(marking)
  /\ pending # 0 => Beyond(pending)

NothingInHand ==
  /\ live = 0 /\ stale = {} /\ inbox = <<>> /\ queue = <<>>
  /\ marking = 0 /\ pending = 0 /\ lastPersisted = 0

FloorInv ==
  /\ TypeOK
  /\ phase = "down" => NothingInHand
  /\ lastPersisted = durable \/ (lastPersisted = 0 /\ InHandBeyond)

\* Accepting a record past the floor keeps what the process has in hand past it.
LEMMA AcceptBeyond ==
  ASSUME FloorInv, NEW n \in Nat, Accept(n), Beyond(n), InHandBeyond,
         live' # 0 => Beyond(live'), \A l \in stale' : Beyond(l.next)
  PROVE  InHandBeyond'
<1> USE BridgeAssumption DEF FloorInv, TypeOK, InHandBeyond, Beyond
<1>1. UNCHANGED <<durable, phase, queue, marking, pending>>
  BY DEF Accept, cursors
<1>2. phase' # "down" => eventCursor' >= durable' - Overlap
  BY <1>1 DEF Accept, Larger
<1>3. \A k \in 1 .. Len(inbox') : inbox'[k] > durable - Overlap
  <2>1. CASE inbox' = inbox
    BY <2>1
  <2>2. CASE inbox' = Append(inbox, n)
    BY <2>2
  <2> QED
    BY <2>1, <2>2 DEF Accept
<1> QED
  BY <1>1, <1>2, <1>3

\* Every step keeps the floor, and rewrites the row no further back than it.
LEMMA FloorStep ==
  ASSUME FloorInv, [Next]_vars
  PROVE  FloorInv' /\ (durable' >= durable \/ durable' > durable - Overlap)
<1> USE BridgeAssumption
<1>t. TypeOK /\ TypeOK'
  BY TypeStep DEF FloorInv
<1>0. /\ durable \in Nat /\ eventCursor \in Nat /\ live \in Nat /\ marking \in Nat
      /\ pending \in Nat /\ lastPersisted \in Nat /\ durable' \in Nat /\ Overlap \in Nat
      /\ inbox \in Seq(Nat) /\ queue \in Seq(Nat) /\ stale \subseteq [next : Nat, last : Nat]
  BY <1>t DEF TypeOK
<1>1. ASSUME UNCHANGED <<durable, lastPersisted>>, phase' # "down",
             (lastPersisted = 0 /\ InHandBeyond) => InHandBeyond'
      PROVE  FloorInv' /\ (durable' >= durable \/ durable' > durable - Overlap)
  BY <1>t, <1>0, <1>1 DEF FloorInv
<1>2. CASE Store \/ UNCHANGED vars
  <2>1. UNCHANGED <<durable, phase, eventCursor, live, stale, inbox, queue, marking, pending,
                    lastPersisted>>
    BY <1>2 DEF Store, vars, reader, cursors
  <2> QED
    BY <1>t, <1>0, <2>1 DEF FloorInv, InHandBeyond, NothingInHand, Beyond
<1>3. CASE Build
  <2>1. /\ phase = "down" /\ phase' = "built" /\ NothingInHand
        /\ eventCursor' = Larger(0, durable - Overlap)
        /\ UNCHANGED <<durable, live, stale, inbox, queue, marking, pending, lastPersisted>>
    BY <1>3 DEF Build, Rewound, cursors, FloorInv
  <2>2. InHandBeyond'
    BY <1>0, <2>1 DEF InHandBeyond, NothingInHand, Larger
  <2> QED
    BY <1>1, <2>1, <2>2
<1>4. CASE Subscribe
  BY <1>0, <1>1, <1>4 DEF Subscribe, reader, cursors, InHandBeyond, Beyond
<1>5. CASE Reconnect
  <2>1. /\ phase' = phase /\ phase # "down" /\ live' = eventCursor + 1
        /\ UNCHANGED <<durable, eventCursor, stale, inbox, queue, marking, pending, lastPersisted>>
    BY <1>5 DEF Reconnect, Connect, cursors
  <2> QED
    BY <1>0, <1>1, <2>1 DEF InHandBeyond, Beyond
<1>6. CASE Read
  <2>1. /\ Accept(live) /\ live \in Nat /\ live # 0 /\ live' = live + 1 /\ UNCHANGED stale
        /\ UNCHANGED <<durable, lastPersisted, phase>> /\ phase # "down"
    BY <1>0, <1>6 DEF Read, Accept, cursors, FloorInv, NothingInHand
  <2>2. (lastPersisted = 0 /\ InHandBeyond) => InHandBeyond'
    <3> SUFFICES ASSUME InHandBeyond PROVE InHandBeyond'
      OBVIOUS
    <3>1. Beyond(live) /\ \A l \in stale : Beyond(l.next)
      BY <2>1 DEF InHandBeyond
    <3>2. live' > durable - Overlap /\ \A l \in stale' : Beyond(l.next)
      BY <1>0, <2>1, <3>1 DEF Beyond
    <3> QED
      BY <2>1, <3>1, <3>2, AcceptBeyond DEF Beyond
  <2> QED
    BY <1>1, <2>1, <2>2
<1>7. ASSUME NEW l \in stale, ReadStale(l)
      PROVE  FloorInv' /\ (durable' >= durable \/ durable' > durable - Overlap)
  <2>1. /\ Accept(l.next) /\ l.next \in Nat /\ UNCHANGED live
        /\ \A s \in stale' : s \in stale \/ s = [next |-> l.next + 1, last |-> l.last]
        /\ UNCHANGED <<durable, lastPersisted, phase>> /\ phase # "down"
    BY <1>0, <1>7 DEF ReadStale, Accept, cursors, FloorInv, NothingInHand
  <2>2. (lastPersisted = 0 /\ InHandBeyond) => InHandBeyond'
    <3> SUFFICES ASSUME InHandBeyond PROVE InHandBeyond'
      OBVIOUS
    <3>1. Beyond(l.next) /\ (live # 0 => Beyond(live)) /\ \A s \in stale : Beyond(s.next)
      BY DEF InHandBeyond
    <3>2. \A s \in stale' : Beyond(s.next)
      BY <1>0, <2>1, <3>1 DEF Beyond
    <3>3. live' # 0 => Beyond(live')
      BY <2>1, <3>1 DEF Beyond
    <3> QED
      BY <2>1, <3>1, <3>2, <3>3, AcceptBeyond DEF Beyond
  <2> QED
    BY <1>1, <2>1, <2>2
<1>8. CASE Disconnect
  <2>1. PICK last \in live - 1 .. stored :
          /\ live # 0 /\ live' = 0
          /\ stale' = IF last < live THEN stale ELSE stale \cup {[next |-> live, last |-> last]}
          /\ UNCHANGED <<durable, phase, eventCursor, inbox, queue, marking, pending,
                         lastPersisted>>
    BY <1>8 DEF Disconnect, cursors
  <2>2. \A s \in stale' : s \in stale \/ s.next = live
    BY <2>1
  <2>3. phase # "down"
    BY <2>1 DEF FloorInv, NothingInHand
  <2> QED
    BY <1>0, <1>1, <2>1, <2>2, <2>3 DEF InHandBeyond, Beyond
<1>9. CASE Enqueue
  <2>1. /\ inbox # <<>> /\ queue' = Append(queue, Head(inbox)) /\ inbox' = Tail(inbox)
        /\ UNCHANGED <<durable, phase, eventCursor, live, stale, marking, pending, lastPersisted>>
    BY <1>9 DEF Enqueue, reader, cursors
  <2>2. phase # "down"
    BY <2>1 DEF FloorInv, NothingInHand
  <2>3. ASSUME InHandBeyond
        PROVE  /\ \A k \in 1 .. Len(inbox') : inbox'[k] > durable - Overlap
               /\ \A k \in 1 .. Len(queue') : queue'[k] > durable - Overlap
    BY <1>0, <2>1, <2>3 DEF InHandBeyond, Beyond
  <2>4. InHandBeyond => InHandBeyond'
    BY <2>1, <2>3 DEF InHandBeyond, Beyond
  <2> QED
    BY <1>1, <2>1, <2>2, <2>4
<1>10. CASE Work
  <2>1. /\ queue # <<>> /\ queue' = Tail(queue) /\ marking' \in {0, Head(queue)}
        /\ UNCHANGED <<durable, phase, eventCursor, live, stale, inbox, pending, lastPersisted>>
    BY <1>10 DEF Work, reader, cursors, FloorInv
  <2>2. phase # "down"
    BY <2>1 DEF FloorInv, NothingInHand
  <2>3. ASSUME InHandBeyond
        PROVE  /\ \A k \in 1 .. Len(queue') : queue'[k] > durable - Overlap
               /\ marking' # 0 => marking' > durable - Overlap
    BY <1>0, <2>1, <2>3 DEF InHandBeyond, Beyond
  <2>4. InHandBeyond => InHandBeyond'
    BY <2>1, <2>3 DEF InHandBeyond, Beyond
  <2> QED
    BY <1>1, <2>1, <2>2, <2>4
<1>11. CASE Mark
  <2>1. /\ marking # 0 /\ marking' = 0
        /\ UNCHANGED <<phase, eventCursor, live, stale, inbox, queue>>
    BY <1>11 DEF Mark, reader
  <2>2. phase # "down"
    BY <2>1 DEF FloorInv, NothingInHand
  <2>3. CASE UNCHANGED <<durable, lastPersisted>> /\ pending' \in {pending, marking}
    BY <1>0, <1>1, <2>1, <2>2, <2>3 DEF InHandBeyond, Beyond
  <2>4. CASE /\ marking > lastPersisted /\ lastPersisted' = durable'
             /\ durable' = Larger(pending, marking)
    <3>1. FloorInv'
      BY <1>t, <1>0, <2>1, <2>2, <2>4 DEF FloorInv
    <3>2. durable' >= marking /\ durable' \in {pending, marking}
      BY <1>0, <2>4 DEF Larger
    <3>3. CASE lastPersisted = durable
      BY <1>0, <2>4, <3>1, <3>2, <3>3
    <3>4. CASE InHandBeyond
      <4>1. marking > durable - Overlap
        BY <2>1, <3>4 DEF InHandBeyond, Beyond
      <4> QED
        BY <1>0, <3>1, <3>2, <4>1
    <3> QED
      BY <3>3, <3>4 DEF FloorInv
  <2> QED
    BY <1>11, <2>3, <2>4 DEF Mark, Larger
<1>12. CASE Crash \/ Stop
  <2>1. /\ phase' = "down" /\ NothingInHand'
        /\ durable' = durable \/ (durable' = pending /\ pending > lastPersisted)
    BY <1>12 DEF Crash, Stop, Gone, NothingInHand
  <2>2. InHandBeyond' /\ lastPersisted' = 0
    BY <2>1 DEF InHandBeyond, NothingInHand
  <2>3. CASE durable' = durable
    BY <1>t, <1>0, <2>1, <2>2, <2>3 DEF FloorInv
  <2>4. CASE durable' = pending /\ pending > lastPersisted
    <3>1. lastPersisted = durable \/ pending > durable - Overlap
      BY <1>0, <2>4 DEF FloorInv, InHandBeyond, Beyond
    <3> QED
      BY <1>t, <1>0, <2>1, <2>2, <2>4, <3>1 DEF FloorInv
  <2> QED
    BY <2>1, <2>3, <2>4
<1> QED
  BY <1>2, <1>3, <1>4, <1>5, <1>6, <1>7, <1>8, <1>9, <1>10, <1>11, <1>12 DEF Next, ReadLoop

(***************************************************************************)
(* A replay after a restart sets the row back by less than the overlap,    *)
(* whatever the lengths of the overlap and of the persist interval: the    *)
(* property RewindBounded of the runs, for any constants.                  *)
(***************************************************************************)
THEOREM ReplayRewindsLittle == Spec => RewindBounded
<1>1. Init => FloorInv
  <2>1. Init => TypeOK
    BY BridgeAssumption DEF Init, TypeOK
  <2> QED
    BY <2>1 DEF Init, FloorInv, NothingInHand, InHandBeyond
<1>2. FloorInv /\ [Next]_vars => FloorInv'
  BY FloorStep
<1>3. FloorInv /\ [Next]_vars => [durable' >= durable \/ durable' > durable - Overlap]_vars
  BY FloorStep
<1> QED
  BY <1>1, <1>2, <1>3, PTL DEF Spec, RewindBounded
-----------------------------------------------------------------------------
\* Taken up, or in the line: before its k-th place, or anywhere.
Before(k, e) == e \in tried \/ \E j \in DOMAIN Line : j < k /\ Line[j] = e
Seen(e) == e \in tried \/ InLine(e)

\* A place where a connection, open or lost, goes on reading.
Position(n) ==
  /\ n <= eventCursor + 1
  /\ \A m \in Nat : n <= m /\ m <= eventCursor => Seen(m) \/ m \in missed \/ m \in Gaps

InOrder(k) ==
  Line[k] \in missed \/ Before(k, Line[k]) \/ \A d \in Nat : Before(k, d) => d < Line[k]

OrderInv ==
  /\ phase = "down" => tried = {}
  /\ \A e \in Nat : Seen(e) => e <= eventCursor
  /\ live # 0 => Position(live)
  /\ \A l \in stale : Position(l.next)
  /\ \A k \in DOMAIN Line : InOrder(k)

\* What is read is new, or no first try; the line stays in order.
LEMMA AcceptInOrder ==
  ASSUME TypeOK, OrderInv, NEW n \in Nat, Accept(n), Position(n)
  PROVE  /\ \A e \in Nat : Seen(e)' => e <= eventCursor'
         /\ \A p \in Nat : Position(p) \/ p = n + 1 => Position(p)'
         /\ \A k \in DOMAIN Line' : InOrder(k)'
<1>0. /\ Line \in Seq(Nat) /\ eventCursor \in Nat /\ tried' = tried
      /\ missed \subseteq missed' /\ eventCursor' = Larger(eventCursor, n)
  BY DEF TypeOK, Line, Accept
<1>1. \/ Line' = Line /\ (n \in Gaps \/ n \in missed')
      \/ Line' = Append(Line, n)
  <2>1. CASE n \in Gaps /\ UNCHANGED <<inbox, missed>>
    BY <2>1 DEF Accept, Line
  <2>2. CASE /\ n \notin Gaps /\ phase = "built"
             /\ missed' = missed \cup {n}
             /\ UNCHANGED inbox
    BY <2>2 DEF Accept, Line
  <2>3. CASE /\ n \notin Gaps /\ phase = "started" /\ Len(inbox) < BridgeCapacity
             /\ inbox' = Append(inbox, n)
             /\ UNCHANGED missed
    <3>1. Line' = queue \o Append(inbox, n)
      BY <2>3 DEF Accept, Line
    <3> QED
      BY <3>1, JoinAppend DEF TypeOK, Line
  <2> QED
    BY <2>1, <2>2, <2>3 DEF Accept
<1> HIDE DEF Line
<1>2. /\ eventCursor' \in Nat /\ eventCursor <= eventCursor' /\ n <= eventCursor'
      /\ n <= eventCursor + 1 /\ (eventCursor' = eventCursor \/ eventCursor' = n)
  BY <1>0 DEF Larger, Position
\* the line after the step, by places
<1>3. /\ DOMAIN Line \subseteq DOMAIN Line' /\ \A j \in DOMAIN Line : Line'[j] = Line[j]
      /\ \A k \in DOMAIN Line' :
            k \in DOMAIN Line \/ (k \notin DOMAIN Line /\ Line'[k] = n /\ \A j \in DOMAIN Line : j < k)
      /\ DOMAIN Line' \subseteq Nat
      /\ \A k \in DOMAIN Line, j \in DOMAIN Line' : j < k => j \in DOMAIN Line
      /\ (n \in Gaps \/ n \in missed' \/ \E k \in DOMAIN Line' : Line'[k] = n)
  <2>1. CASE Line' = Line /\ (n \in Gaps \/ n \in missed')
    BY <2>1, <1>0
  <2>2. CASE Line' = Append(Line, n)
    <3>1. /\ DOMAIN Line' = 1 .. Len(Line) + 1 /\ DOMAIN Line = 1 .. Len(Line)
          /\ Len(Line) \in Nat
          /\ \A j \in 1 .. Len(Line) : Line'[j] = Line[j]
          /\ Line'[Len(Line) + 1] = n
      BY <2>2, <1>0
    <3> QED
      BY <3>1
  <2> QED
    BY <1>1, <2>1, <2>2
<1>4. \A e : Seen(e)' => Seen(e) \/ e = n
  BY <1>0, <1>3 DEF Seen, InLine
<1>5. \A e : Seen(e) => Seen(e)'
  BY <1>0, <1>3 DEF Seen, InLine
<1>6. Seen(n)' \/ n \in missed' \/ n \in Gaps
  BY <1>3 DEF Seen, InLine
<1>7. \A e \in Nat : Seen(e)' => e <= eventCursor'
  BY <1>2, <1>0, <1>4 DEF OrderInv
<1>8. ASSUME NEW p \in Nat, Position(p) \/ p = n + 1 PROVE Position(p)'
  <2>1. p <= eventCursor' + 1
    BY <1>0, <1>2, <1>8 DEF Position
  <2>2. ASSUME NEW m \in Nat, p <= m, m <= eventCursor'
        PROVE  Seen(m)' \/ m \in missed' \/ m \in Gaps
    <3>1. CASE m = n
      BY <3>1, <1>6
    <3>2. CASE m # n
      <4>1. m <= eventCursor /\ (p <= m \/ n <= m)
        BY <1>0, <1>2, <1>8, <2>2, <3>2
      <4>2. n <= m \/ Position(p)
        BY <1>8, <2>2
      <4>3. Seen(m) \/ m \in missed \/ m \in Gaps
        BY <2>2, <4>1, <4>2 DEF Position
      <4> QED
        BY <4>3, <1>0, <1>5
    <3> QED
      BY <3>1, <3>2
  <2> QED
    BY <2>1, <2>2 DEF Position
<1>9. ASSUME NEW k \in DOMAIN Line' PROVE InOrder(k)'
  <2>1. CASE k \in DOMAIN Line
    <3>1. \A e : Before(k, e)' <=> Before(k, e)
      BY <2>1, <1>0, <1>3 DEF Before
    <3>2. InOrder(k) /\ Line'[k] = Line[k]
      BY <2>1, <1>3 DEF OrderInv
    <3> QED
      BY <3>1, <3>2, <1>0 DEF InOrder
  <2>2. CASE k \notin DOMAIN Line
    <3>1. Line'[k] = n /\ \A j \in DOMAIN Line : j < k
      BY <2>2, <1>3
    <3>2. \A e : Seen(e) => Before(k, e)'
      BY <3>1, <1>0, <1>3 DEF Seen, InLine, Before
    <3>3. \A e : Before(k, e)' => Seen(e) \/ \E j \in DOMAIN Line' : j \notin DOMAIN Line /\ j < k
      BY <3>1, <1>0, <1>3 DEF Seen, InLine, Before
    <3>4. \A j \in DOMAIN Line' : j \notin DOMAIN Line => ~(j < k)
      BY <2>2, <1>0, <1>1, <1>3
    <3>5. CASE n <= eventCursor
      <4>1. Seen(n) \/ n \in missed \/ n \in Gaps
        BY <3>5 DEF Position
      <4>2. n \notin Gaps
        BY <2>2, <1>3 DEF Accept, Line
      <4> QED
        BY <3>1, <3>2, <4>1, <4>2, <1>0 DEF InOrder
    <3>6. CASE n > eventCursor
      <4>1. \A d \in Nat : Before(k, d)' => d < n
        BY <3>3, <3>4, <3>6, <1>0 DEF OrderInv
      <4> QED
        BY <3>1, <4>1 DEF InOrder
    <3> QED
      BY <3>5, <3>6, <1>0
  <2> QED
    BY <2>1, <2>2
<1> QED
  BY <1>7, <1>8, <1>9

\* The worker takes the head of the line.
LEMMA WorkInOrder ==
  ASSUME TypeOK, OrderInv, Work
  PROVE  /\ \A e : Seen(e)' <=> Seen(e)
         /\ \A k \in DOMAIN Line' : InOrder(k)'
         /\ \A e \in tried' \ tried : e \in missed \/ \A d \in tried : d < e
<1>2. queue \in Seq(Nat) /\ inbox \in Seq(Nat) /\ queue # <<>> /\ tried \subseteq Nat
  BY DEF TypeOK, Work
<1> PICK e : e = Head(queue)
  OBVIOUS
<1>3. Line' = Tail(Line) /\ Line # <<>> /\ Head(Line) = e /\ Line \in Seq(Nat) /\ e \in Nat
  <2>1. /\ Tail(queue) \o inbox = Tail(queue \o inbox)
        /\ queue \o inbox # <<>> /\ Head(queue \o inbox) = Head(queue)
    BY <1>2, JoinTail
  <2>2. queue' = Tail(queue) /\ inbox' = inbox
    BY DEF Work
  <2>3. queue \o inbox \in Seq(Nat) /\ Head(queue) \in Nat
    BY <1>2
  <2> QED
    BY <2>1, <2>2, <2>3 DEF Line
<1>4. tried' = tried \cup {e} /\ missed \subseteq missed'
  BY DEF Work, outcome
<1> HIDE DEF Line
<1>5. 1 \in DOMAIN Line /\ Line[1] = e /\ DOMAIN Line = 1 .. Len(Line) /\ Len(Line) \in Nat
      /\ DOMAIN Line' = 1 .. Len(Line) - 1
      /\ \A j \in 1 .. Len(Line) - 1 : Line'[j] = Line[j + 1]
  BY <1>3
<1>6. \A k \in DOMAIN Line : \A d : Before(k + 1, d) <=> Before(k, d)'
  <2> SUFFICES ASSUME NEW k \in DOMAIN Line, NEW d
               PROVE  Before(k + 1, d) <=> Before(k, d)'
    OBVIOUS
  <2>1. ASSUME NEW j \in DOMAIN Line', j < k, Line'[j] = d PROVE Before(k + 1, d)
    <3>1. j + 1 \in DOMAIN Line /\ j + 1 < k + 1 /\ Line[j + 1] = d
      BY <2>1, <1>5
    <3> QED
      BY <3>1 DEF Before
  <2>2. ASSUME NEW j \in DOMAIN Line, j < k + 1, Line[j] = d PROVE Before(k, d)'
    <3>1. CASE j = 1
      BY <2>2, <3>1, <1>4, <1>5 DEF Before
    <3>2. CASE j # 1
      <4>1. j - 1 \in DOMAIN Line' /\ j - 1 < k /\ Line'[j - 1] = d
        BY <2>2, <3>2, <1>5
      <4> QED
        BY <4>1 DEF Before
    <3> QED
      BY <3>1, <3>2
  <2>3. Before(k + 1, e)
    BY <1>5 DEF Before
  <2> QED
    BY <2>1, <2>2, <2>3, <1>4 DEF Before
<1>7. ASSUME NEW d PROVE Seen(d)' <=> Seen(d)
  <2>1. ASSUME NEW j \in DOMAIN Line', Line'[j] = d PROVE Seen(d)
    <3>1. j + 1 \in DOMAIN Line /\ Line[j + 1] = d
      BY <2>1, <1>5
    <3> QED
      BY <3>1 DEF Seen, InLine
  <2>2. ASSUME NEW j \in DOMAIN Line, Line[j] = d PROVE Seen(d)'
    <3>1. CASE j = 1
      BY <2>2, <3>1, <1>4, <1>5 DEF Seen
    <3>2. CASE j # 1
      <4>1. j - 1 \in DOMAIN Line' /\ Line'[j - 1] = d
        BY <2>2, <3>2, <1>5
      <4> QED
        BY <4>1 DEF Seen, InLine
    <3> QED
      BY <3>1, <3>2
  <2>3. Seen(e)
    BY <1>5 DEF Seen, InLine
  <2> QED
    BY <2>1, <2>2, <2>3, <1>4 DEF Seen, InLine
<1>8. ASSUME NEW k \in DOMAIN Line' PROVE InOrder(k)'
  <2>1. k \in DOMAIN Line /\ k + 1 \in DOMAIN Line /\ Line'[k] = Line[k + 1]
    BY <1>5
  <2>2. InOrder(k + 1)
    BY <2>1 DEF OrderInv
  <2>3. \A d : Before(k + 1, d) <=> Before(k, d)'
    BY <2>1, <1>6
  <2> QED
    BY <2>1, <2>2, <2>3, <1>4 DEF InOrder
<1>9. \A d : Before(1, d) <=> d \in tried
  BY <1>5 DEF Before
<1>10. \A d \in tried' \ tried : d \in missed \/ \A c \in tried : c < d
  <2>1. InOrder(1)
    BY <1>5 DEF OrderInv
  <2> QED
    BY <2>1, <1>2, <1>4, <1>5, <1>9 DEF InOrder
<1> QED
  BY <1>7, <1>8, <1>10

\* A step that leaves the line, the cursor and what was tried as they were.
LEMMA OrderKept ==
  ASSUME OrderInv, Line' = Line, UNCHANGED <<tried, eventCursor>>, missed \subseteq missed'
  PROVE  /\ \A e \in Nat : Seen(e)' => e <= eventCursor'
         /\ \A p : Position(p) => Position(p)'
         /\ \A k \in DOMAIN Line' : InOrder(k)'
<1> HIDE DEF Line
<1>1. /\ \A e : Seen(e)' <=> Seen(e)
      /\ \A k, e : Before(k, e)' <=> Before(k, e)
  BY DEF Seen, InLine, Before
<1> QED
  BY <1>1 DEF OrderInv, Position, InOrder

LEMMA OrderStep ==
  ASSUME FloorInv, OrderInv, [Next]_vars
  PROVE  /\ OrderInv'
         /\ \A e \in tried' \ tried : e \in missed \/ \A d \in tried : d < e
<1> DEFINE Goal == /\ OrderInv'
                   /\ \A e \in tried' \ tried : e \in missed \/ \A d \in tried : d < e
<1>t. TypeOK /\ TypeOK'
  BY TypeStep DEF FloorInv
<1>0. /\ eventCursor \in Nat /\ live \in Nat /\ stale \subseteq [next : Nat, last : Nat]
      /\ inbox \in Seq(Nat) /\ queue \in Seq(Nat)
  BY <1>t DEF TypeOK
\* a process that is not there has nothing
<1>n. phase = "down" =>
        live = 0 /\ stale = {} /\ inbox = <<>> /\ queue = <<>> /\ marking = 0 /\ tried = {}
  BY DEF FloorInv, NothingInHand, OrderInv
<1>1. CASE Store \/ Subscribe \/ Mark \/ UNCHANGED vars
  <2>1. /\ UNCHANGED <<eventCursor, live, stale, inbox, queue, tried, missed>>
        /\ phase' = "down" => phase = "down"
    BY <1>1 DEF Store, Subscribe, Mark, vars, reader, outcome
  <2>2. Line' = Line
    BY <2>1 DEF Line
  <2> QED
    BY <2>1, <2>2, OrderKept DEF OrderInv
<1>2. CASE Build
  <2>1. /\ phase = "down" /\ phase' = "built" /\ UNCHANGED <<live, stale, inbox, queue, tried>>
    BY <1>2 DEF Build
  <2>2. Line' = <<>> /\ tried' = {} /\ live' = 0 /\ stale' = {}
    BY <2>1, <1>n DEF Line
  <2>3. \A e : ~Seen(e)'
    BY <2>2 DEF Seen, InLine
  <2> QED
    BY <2>2, <2>3 DEF OrderInv
<1>3. CASE Reconnect
  <2>1. /\ UNCHANGED <<eventCursor, stale, inbox, queue, tried, missed, phase>>
        /\ live' = eventCursor + 1
    BY <1>3 DEF Reconnect, Connect, outcome
  <2>2. Line' = Line
    BY <2>1 DEF Line
  <2>3. Position(live)'
    BY <2>1, <1>0 DEF Position
  <2> QED
    BY <2>1, <2>2, <2>3, OrderKept DEF OrderInv
<1>4. CASE Read
  <2>1. /\ Accept(live) /\ live # 0 /\ live' = live + 1 /\ UNCHANGED stale
        /\ UNCHANGED <<phase, tried>> /\ phase # "down"
    BY <1>4, <1>n DEF Read, Accept
  <2>2. Position(live)
    BY <2>1 DEF OrderInv
  <2>3. /\ \A e \in Nat : Seen(e)' => e <= eventCursor'
        /\ \A p \in Nat : Position(p) \/ p = live + 1 => Position(p)'
        /\ \A k \in DOMAIN Line' : InOrder(k)'
    BY <1>t, <1>0, <2>1, <2>2, AcceptInOrder
  <2>4. PICK p \in Nat : p = live + 1
    BY <1>0
  <2>5. Position(p)'
    BY <2>3, <2>4
  <2>6. Position(live)'
    BY <2>1, <2>4, <2>5 DEF Position
  <2>7. \A l \in stale' : Position(l.next)'
    BY <2>1, <2>3, <1>0 DEF OrderInv
  <2> QED
    BY <2>1, <2>3, <2>6, <2>7 DEF OrderInv
<1>5. ASSUME NEW l \in stale, ReadStale(l) PROVE Goal
  <2>1. /\ l.next \in Nat /\ Accept(l.next) /\ UNCHANGED <<live, phase, tried>>
        /\ \A s \in stale' : s \in stale \/ s = [next |-> l.next + 1, last |-> l.last]
        /\ phase # "down"
    BY <1>5, <1>0, <1>n DEF ReadStale, Accept
  <2>2. Position(l.next)
    BY DEF OrderInv
  <2>3. /\ \A e \in Nat : Seen(e)' => e <= eventCursor'
        /\ \A p \in Nat : Position(p) \/ p = l.next + 1 => Position(p)'
        /\ \A k \in DOMAIN Line' : InOrder(k)'
    BY <1>t, <2>1, <2>2, AcceptInOrder
  <2>4. ASSUME NEW s \in stale' PROVE Position(s.next)'
    <3>1. s.next \in Nat /\ (Position(s.next) \/ s.next = l.next + 1)
      BY <2>1, <1>0 DEF OrderInv
    <3>2. PICK p \in Nat : p = s.next
      BY <3>1
    <3>3. Position(p)'
      BY <3>1, <3>2, <2>3
    <3> QED
      BY <3>2, <3>3
  <2>5. live' # 0 => Position(live)'
    <3>1. PICK p \in Nat : p = live
      BY <1>0
    <3>2. live # 0 => Position(p)'
      BY <3>1, <2>3 DEF OrderInv
    <3> QED
      BY <3>1, <3>2, <2>1 DEF Position
  <2> QED
    BY <2>1, <2>3, <2>4, <2>5 DEF OrderInv
<1>6. CASE Disconnect
  <2>1. PICK last \in live - 1 .. stored :
          /\ live # 0 /\ live' = 0
          /\ stale' = IF last < live THEN stale ELSE stale \cup {[next |-> live, last |-> last]}
          /\ UNCHANGED <<phase, eventCursor, inbox, queue, tried, missed>>
    BY <1>6 DEF Disconnect, outcome
  <2>2. Line' = Line
    BY <2>1 DEF Line
  <2>3. \A s \in stale' : s \in stale \/ s.next = live
    BY <2>1
  <2>4. \A s \in stale' : Position(s.next)
    BY <2>1, <2>3 DEF OrderInv
  <2> QED
    BY <2>1, <2>2, <2>4, OrderKept DEF OrderInv
<1>7. CASE Enqueue
  <2>1. /\ UNCHANGED <<phase, eventCursor, live, stale, tried, missed>>
        /\ queue' = Append(queue, Head(inbox)) /\ inbox' = Tail(inbox) /\ inbox # <<>>
    BY <1>7 DEF Enqueue, reader, outcome
  <2>2. Line' = Line
    BY <2>1, <1>0, JoinMove DEF Line
  <2> QED
    BY <2>1, <2>2, OrderKept DEF OrderInv
<1>8. CASE Work
  <2>1. UNCHANGED <<phase, eventCursor, live, stale>> /\ phase # "down"
        /\ missed \subseteq missed'
    BY <1>8, <1>n DEF Work, reader, outcome
  <2>2. /\ \A e : Seen(e)' <=> Seen(e)
        /\ \A k \in DOMAIN Line' : InOrder(k)'
        /\ \A e \in tried' \ tried : e \in missed \/ \A d \in tried : d < e
    BY <1>t, <1>8, WorkInOrder
  <2>3. \A p : Position(p) => Position(p)'
    BY <2>1, <2>2 DEF Position
  <2>4. \A e \in Nat : Seen(e)' => e <= eventCursor'
    BY <2>1, <2>2 DEF OrderInv
  <2> QED
    BY <2>1, <2>2, <2>3, <2>4 DEF OrderInv
<1>9. CASE Crash \/ Stop
  <2>1. Gone
    BY <1>9 DEF Crash, Stop
  <2>2. Line' = <<>> /\ tried' = {} /\ live' = 0 /\ stale' = {}
    BY <2>1 DEF Line, Gone
  <2>3. \A e : ~Seen(e)'
    BY <2>2 DEF Seen, InLine
  <2> QED
    BY <2>2, <2>3 DEF OrderInv
<1> QED
  BY <1>1, <1>2, <1>3, <1>4, <1>5, <1>6, <1>7, <1>8, <1>9 DEF Next, ReadLoop

(***************************************************************************)
(* A process takes the events up in their order, whatever connections are  *)
(* lost and hand over late, except those it missed at first: the property  *)
(* FirstTriesInOrder of the runs, for any constants.                       *)
(***************************************************************************)
THEOREM EventsTakenInOrder == Spec => FirstTriesInOrder
<1> DEFINE Inv == FloorInv /\ OrderInv
<1>1. Init => Inv
  <2> SUFFICES ASSUME Init PROVE Inv
    OBVIOUS
  <2>1. TypeOK
    BY BridgeAssumption DEF Init, TypeOK
  <2>2. Line = <<>> /\ tried = {}
    BY DEF Init, Line
  <2>3. \A e : ~Seen(e)
    BY <2>2 DEF Seen, InLine
  <2>4. OrderInv
    BY <2>2, <2>3 DEF Init, OrderInv
  <2> QED
    BY <2>1, <2>4 DEF Init, FloorInv, NothingInHand, InHandBeyond
<1>2. Inv /\ [Next]_vars => Inv'
  BY FloorStep, OrderStep
<1>3. Inv /\ [Next]_vars
        => [\A e \in tried' \ tried : e \in missed \/ \A d \in tried : d < e]_vars
  BY OrderStep
<1> HIDE DEF Inv
<1> QED
  BY <1>1, <1>2, <1>3, PTL DEF Spec, FirstTriesInOrder

-----------------------------------------------------------------------------
\* A loop of the backend, or its startup, has a step to take: the guards of the
\* actions that FairSpec is fair to.
ReadLoopCan ==
  /\ phase # "down"
  /\ live = 0 \/ (live <= stored /\ (live \in Gaps \/ phase = "built"
                                       \/ Len(inbox) < BridgeCapacity))

SomeLoopCan ==
  \/ phase \in {"down", "built"}
  \/ ReadLoopCan
  \/ inbox # <<>>
  \/ marking # 0 \/ queue # <<>>

(***************************************************************************)
(* The loops never all wait while a record of the journal is not dealt     *)
(* with: the PubSub is full only as long as the worker's queue can be fed, *)
(* a connection that was lost is made again, and nothing that was accepted *)
(* leaves the line without an outcome.  What is left of EveryRecordHandled *)
(* is that the loops are scheduled and that incidents end.                 *)
(***************************************************************************)
THEOREM LoopsNeverAllWait ==
  Spec => [](\A e \in 1 .. stored : Handled(e) \/ SomeLoopCan)
<1>1. IInv => \A e \in 1 .. stored : Handled(e) \/ SomeLoopCan
  <2> SUFFICES ASSUME IInv, ~SomeLoopCan, NEW e \in 1 .. stored
               PROVE  Handled(e)
    OBVIOUS
  <2>1. /\ phase = "started" /\ live # 0 /\ inbox = <<>> /\ queue = <<>>
        /\ stored \in Nat /\ live \in Nat
    BY DEF SomeLoopCan, ReadLoopCan, IInv, TypeOK
  <2>2. Len(inbox) < BridgeCapacity
    BY <2>1, BridgeAssumption
  <2>3. stored < live
    BY <2>1, <2>2 DEF SomeLoopCan, ReadLoopCan
  <2>4. ~InLine(e)
    BY <2>1 DEF InLine, Line
  <2>5. e \in Event /\ e < live
    BY <2>1, <2>3 DEF Event
  <2> QED
    BY <2>1, <2>4, <2>5 DEF IInv, ReaderBehind, Piped
<1>2. Spec => []IInv
  BY IInvInit, InvStep, PTL DEF Spec
<1> QED
  BY <1>1, <1>2, PTL

=============================================================================
