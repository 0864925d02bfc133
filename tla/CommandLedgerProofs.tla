------------------------- MODULE CommandLedgerProofs -------------------------
(***************************************************************************)
(* Proofs about the command ledger, for any number of commands, requests   *)
(* and overlapping daemons.                                                *)
(*                                                                         *)
(* The argument: the INSERT makes the inserting request the only one that  *)
(* carries the command out (OneCarrier), and from then on the row is never *)
(* "none" again, so no other request gets past the INSERT.  While a        *)
(* command is carried out its row holds no result (CarriedRow): the one    *)
(* UPDATE that stores a result overwrites nothing a client was told.       *)
(***************************************************************************)
EXTENDS CommandLedger, TLAPS

Carries(r, c) == step[r] \in {"execute", "executing", "update"} /\ command[r] = c

OneCarrier == \A c \in Commands, r, q \in Requests : Carries(r, c) /\ Carries(q, c) => r = q
CarriedRow == \A c \in Commands, r \in Requests :
                 Carries(r, c) => row[c] \in {"running", "abandoned"}
NotYetRun  == \A c \in Commands, r \in Requests :
                 Carries(r, c) /\ step[r] = "execute" => executions[c] = 0
FreshRow   == \A c \in Commands : row[c] = "none" => executions[c] = 0

IInv == TypeOK /\ OneCarrier /\ CarriedRow /\ NotYetRun /\ FreshRow /\ AtMostOnce

-----------------------------------------------------------------------------
\* Initially no daemon runs and no command was ever sent.
LEMMA InitEstablishes == Init => IInv /\ ToldIsStored
  BY LedgerAssumption
  DEF Init, IInv, TypeOK, OneCarrier, CarriedRow, NotYetRun, FreshRow, AtMostOnce,
      ToldIsStored, Carries, Contents, Results, Stored, Steps

\* Answering touches neither rows nor executions, and ends the request.
LEMMA AnswerKeeps ==
  ASSUME IInv, NEW r \in Requests, NEW e, Answer(r, e),
         UNCHANGED <<row, outcome, executions>>
  PROVE  IInv'
<1> USE DEF IInv
<1>1. TypeOK'
  BY DEF TypeOK, Answer, Steps, Stored, Results, Contents
<1>2. \A c \in Commands, q \in Requests : Carries(q, c)' => Carries(q, c) /\ step'[q] = step[q]
  BY DEF Carries, Answer, TypeOK
<1>3. OneCarrier'
  BY <1>2 DEF OneCarrier
<1>4. CarriedRow'
  BY <1>2 DEF CarriedRow
<1>5. NotYetRun'
  BY <1>2 DEF NotYetRun
<1>6. FreshRow' /\ AtMostOnce'
  BY DEF FreshRow, AtMostOnce, Answer
<1> QED
  BY <1>1, <1>3, <1>4, <1>5, <1>6

\* Every step preserves the invariant.
LEMMA StepPreserves == IInv /\ [Next]_vars => IInv'
<1> SUFFICES ASSUME IInv, [Next]_vars PROVE IInv'
  OBVIOUS
<1> USE DEF IInv
<1>1. ASSUME NEW r \in Requests, NEW c \in Commands, NEW d \in Daemons, Submit(r, c, d)
      PROVE  IInv'
  <2>1. TypeOK'
    BY <1>1 DEF Submit, TypeOK, Steps
  <2>2. \A b \in Commands, q \in Requests : Carries(q, b)' => Carries(q, b) /\ step'[q] = step[q]
    BY <1>1 DEF Carries, Submit, TypeOK
  <2> QED
    BY <1>1, <2>1, <2>2 DEF Submit, OneCarrier, CarriedRow, NotYetRun, FreshRow, AtMostOnce
<1>2. ASSUME NEW r \in Requests, AnswerFromRow(r) PROVE IInv'
  BY <1>2, AnswerKeeps DEF AnswerFromRow
<1>3. ASSUME NEW r \in Requests, FindNoRow(r) PROVE IInv'
  <2>1. TypeOK'
    BY <1>3 DEF FindNoRow, TypeOK, Steps
  <2>2. \A b \in Commands, q \in Requests : Carries(q, b)' => Carries(q, b) /\ step'[q] = step[q]
    BY <1>3 DEF Carries, FindNoRow, TypeOK
  <2> QED
    BY <1>3, <2>1, <2>2 DEF FindNoRow, OneCarrier, CarriedRow, NotYetRun, FreshRow, AtMostOnce
<1>4. ASSUME NEW r \in Requests, InsertRunning(r) PROVE IInv'
  <2>1. command[r] \in Commands
    BY DEF TypeOK
  <2>2. TypeOK'
    BY <1>4 DEF InsertRunning, TypeOK, Steps, Contents
  <2>3. \A b \in Commands, q \in Requests :
          Carries(q, b)' => (q = r /\ b = command[r]) \/ (Carries(q, b) /\ step'[q] = step[q])
    <3>1. \A q \in Requests : q # r => step'[q] = step[q]
      BY <1>4 DEF InsertRunning, TypeOK
    <3>2. UNCHANGED command
      BY <1>4 DEF InsertRunning
    <3> QED
      BY <3>1, <3>2 DEF Carries
  <2>4. \A q \in Requests : ~Carries(q, command[r])
    BY <1>4, <2>1 DEF InsertRunning, CarriedRow
  <2>5. executions'[command[r]] = 0
    BY <1>4, <2>1 DEF InsertRunning, FreshRow
  <2>6. OneCarrier'
    BY <2>1, <2>3, <2>4 DEF OneCarrier
  <2>7. CarriedRow'
    BY <1>4, <2>1, <2>3 DEF InsertRunning, CarriedRow, TypeOK
  <2>8. NotYetRun'
    BY <1>4, <2>1, <2>3, <2>5 DEF InsertRunning, NotYetRun
  <2>9. FreshRow' /\ AtMostOnce'
    BY <1>4 DEF InsertRunning, FreshRow, AtMostOnce, TypeOK
  <2> QED
    BY <2>2, <2>6, <2>7, <2>8, <2>9
<1>5. ASSUME NEW r \in Requests, InsertConflict(r) PROVE IInv'
  BY <1>5, AnswerKeeps DEF InsertConflict
<1>6. ASSUME NEW r \in Requests, Execute(r) PROVE IInv'
  <2>1. command[r] \in Commands /\ Carries(r, command[r]) /\ executions[command[r]] = 0
    BY <1>6 DEF Execute, Carries, NotYetRun, TypeOK
  <2>2. TypeOK'
    BY <1>6 DEF Execute, TypeOK, Steps
  <2>3. executions'[command[r]] = 1
    BY <1>6, <2>1 DEF Execute, TypeOK
  <2>4. \A b \in Commands, q \in Requests : Carries(q, b)' => Carries(q, b)
    BY <1>6 DEF Carries, Execute, TypeOK
  <2>5. \A q \in Requests : q # r => step'[q] = step[q]
    BY <1>6 DEF Execute, TypeOK
  <2>6. \A b \in Commands : b # command[r] => executions'[b] = executions[b]
    BY <1>6 DEF Execute, TypeOK
  <2>7. OneCarrier' /\ CarriedRow'
    BY <1>6, <2>4 DEF OneCarrier, CarriedRow, Execute
  <2>8. NotYetRun'
    <3> SUFFICES ASSUME NEW b \in Commands, NEW q \in Requests, Carries(q, b)', step'[q] = "execute"
                 PROVE  executions'[b] = 0
      BY DEF NotYetRun
    <3>1. q # r
      BY <1>6 DEF Execute, TypeOK
    <3>2. Carries(q, b) /\ step[q] = "execute"
      BY <2>4, <2>5, <3>1
    <3>3. b # command[r]
      BY <2>1, <3>1, <3>2 DEF OneCarrier
    <3> QED
      BY <2>6, <3>2, <3>3 DEF NotYetRun
  <2>9. FreshRow'
    <3> SUFFICES ASSUME NEW b \in Commands, row'[b] = "none" PROVE executions'[b] = 0
      BY DEF FreshRow
    <3>1. row[b] = "none"
      BY <1>6 DEF Execute
    <3>2. b # command[r]
      BY <2>1, <3>1 DEF CarriedRow
    <3> QED
      BY <2>6, <3>1, <3>2 DEF FreshRow
  <2>10. AtMostOnce'
    BY <2>3, <2>6 DEF AtMostOnce
  <2> QED
    BY <2>2, <2>7, <2>8, <2>9, <2>10
<1>7. ASSUME NEW r \in Requests, NEW result \in Results, Executed(r, result) PROVE IInv'
  <2>1. TypeOK'
    BY <1>7 DEF Executed, TypeOK, Steps
  <2>2. \A b \in Commands, q \in Requests :
          Carries(q, b)' => Carries(q, b) /\ (step'[q] = "execute" => step[q] = "execute")
    BY <1>7 DEF Carries, Executed, TypeOK
  <2> QED
    BY <1>7, <2>1, <2>2
    DEF Executed, OneCarrier, CarriedRow, NotYetRun, FreshRow, AtMostOnce
<1>8. ASSUME NEW r \in Requests, PersistOutcome(r) PROVE IInv'
  <2>1. command[r] \in Commands /\ outcome[r] \in Results /\ Carries(r, command[r])
    BY <1>8 DEF PersistOutcome, Carries, TypeOK
  <2>2. TypeOK'
    BY <1>8 DEF PersistOutcome, Answer, TypeOK, Steps, Contents, Stored
  <2>3. \A b \in Commands, q \in Requests :
          Carries(q, b)' => q # r /\ Carries(q, b) /\ step'[q] = step[q]
    BY <1>8 DEF Carries, PersistOutcome, Answer, TypeOK
  <2>4. \A b \in Commands : b # command[r] => row'[b] = row[b]
    BY <1>8 DEF PersistOutcome, TypeOK
  <2>5. OneCarrier'
    BY <2>3 DEF OneCarrier
  <2>6. CarriedRow'
    BY <2>1, <2>3, <2>4 DEF CarriedRow, OneCarrier
  <2>7. NotYetRun'
    BY <1>8, <2>3 DEF NotYetRun, PersistOutcome
  <2>8. row'[command[r]] # "none"
    BY <1>8, <2>1 DEF PersistOutcome, Results, TypeOK
  <2>9. FreshRow' /\ AtMostOnce'
    BY <1>8, <2>4, <2>8 DEF FreshRow, AtMostOnce, PersistOutcome
  <2> QED
    BY <2>2, <2>5, <2>6, <2>7, <2>9
<1>9. ASSUME NEW r \in Requests, PersistenceFails(r) PROVE IInv'
  BY <1>9, AnswerKeeps DEF PersistenceFails
<1>10. ASSUME NEW r \in Requests, TimeOut(r) PROVE IInv'
  BY <1>10
  DEF TimeOut, TypeOK, OneCarrier, CarriedRow, NotYetRun, FreshRow, AtMostOnce, Carries
<1>11. ASSUME NEW d \in Daemons, StartDaemon(d) PROVE IInv'
  <2>1. \A c \in Commands : row'[c] = Cleaned(row[c])
    BY <1>11 DEF StartDaemon
  <2>2. TypeOK'
    BY <1>11 DEF StartDaemon, Cleaned, TypeOK, Contents
  <2>3. \A c \in Commands, q \in Requests : Carries(q, c)' <=> Carries(q, c)
    BY <1>11 DEF StartDaemon, Carries
  <2>4. CarriedRow' /\ OneCarrier'
    BY <2>1, <2>3 DEF CarriedRow, OneCarrier, Cleaned
  <2>5. NotYetRun' /\ FreshRow' /\ AtMostOnce'
    BY <1>11, <2>1, <2>3 DEF StartDaemon, NotYetRun, FreshRow, AtMostOnce, Cleaned
  <2> QED
    BY <2>2, <2>4, <2>5
<1>12. ASSUME NEW d \in Daemons, EndDaemon(d) PROVE IInv'
  <2>1. TypeOK'
    BY <1>12 DEF EndDaemon, TypeOK, Steps
  <2>2. \A b \in Commands, q \in Requests : Carries(q, b)' => Carries(q, b) /\ step'[q] = step[q]
    BY <1>12 DEF Carries, EndDaemon, TypeOK
  <2> QED
    BY <1>12, <2>1, <2>2 DEF EndDaemon, OneCarrier, CarriedRow, NotYetRun, FreshRow, AtMostOnce
<1>13. CASE UNCHANGED vars
  BY <1>13
  DEF vars, TypeOK, OneCarrier, CarriedRow, NotYetRun, FreshRow, AtMostOnce, Carries
<1> QED
  BY <1>1, <1>2, <1>3, <1>4, <1>5, <1>6, <1>8, <1>9, <1>10, <1>11, <1>12, <1>13, <1>7
  DEF Next, Serve

-----------------------------------------------------------------------------
\* No step changes a stored result.
LEMMA StepKeepsResults ==
  ASSUME IInv, [Next]_vars, NEW c \in Commands, row[c] \in Results
  PROVE  row'[c] = row[c]
<1> USE DEF IInv
<1>1. row[c] \notin {"none", "running", "abandoned"}
  BY DEF Results
<1>2. ASSUME NEW r \in Requests, InsertRunning(r) PROVE row'[c] = row[c]
  BY <1>1, <1>2 DEF InsertRunning, TypeOK
<1>3. ASSUME NEW r \in Requests, PersistOutcome(r) PROVE row'[c] = row[c]
  <2>1. Carries(r, command[r]) /\ command[r] \in Commands
    BY <1>3 DEF PersistOutcome, Carries, TypeOK
  <2>2. command[r] # c
    BY <1>1, <2>1 DEF CarriedRow
  <2> QED
    BY <1>3, <2>2 DEF PersistOutcome, TypeOK
<1>4. ASSUME NEW d \in Daemons, StartDaemon(d) PROVE row'[c] = row[c]
  BY <1>1, <1>4 DEF StartDaemon, Cleaned
<1> QED
  BY <1>2, <1>3, <1>4
  DEF Next, Serve, vars, Submit, AnswerFromRow, FindNoRow, InsertConflict, Execute, Executed,
      PersistenceFails, TimeOut, EndDaemon

\* What a step tells a client about the end of a command is in the row.
LEMMA StepTells == IInv /\ ToldIsStored /\ [Next]_vars => ToldIsStored'
<1> SUFFICES ASSUME IInv, ToldIsStored, [Next]_vars,
                    NEW c \in Commands, NEW e \in Results, e \in told'[c]
             PROVE  row'[c] = e
  BY DEF ToldIsStored
<1> USE DEF IInv
<1>1. CASE e \in told[c]
  BY <1>1, StepKeepsResults DEF ToldIsStored
<1>2. ASSUME NEW r \in Requests, NEW a, Answer(r, a), e \notin told[c]
      PROVE  c = command[r] /\ e = a
  BY <1>2 DEF Answer, TypeOK
<1>3. CASE e \notin told[c]
  <2>1. ASSUME NEW r \in Requests, AnswerFromRow(r) PROVE row'[c] = e
    BY <1>2, <1>3, <2>1 DEF AnswerFromRow
  <2>2. ASSUME NEW r \in Requests, PersistOutcome(r) PROVE row'[c] = e
    BY <1>2, <1>3, <2>2 DEF PersistOutcome, TypeOK
  <2>3. ASSUME NEW r \in Requests, InsertConflict(r) \/ PersistenceFails(r) PROVE FALSE
    BY <1>2, <1>3, <2>3 DEF InsertConflict, PersistenceFails, Results
  <2> QED
    BY <1>3, <2>1, <2>2, <2>3
    DEF Next, Serve, vars, Submit, FindNoRow, InsertRunning, Execute, Executed, TimeOut,
        StartDaemon, EndDaemon
<1> QED
  BY <1>1, <1>3

-----------------------------------------------------------------------------
\* IInv holds throughout (runOnce, the startup UPDATE, and processes that end).
THEOREM Inductive == Spec => []IInv
  BY InitEstablishes, StepPreserves, PTL DEF Spec

\* Every variable keeps its type: rows hold one of the four statuses' contents.
THEOREM TypeCorrect == Spec => []TypeOK
<1>1. IInv => TypeOK
  BY DEF IInv
<1> QED
  BY <1>1, Inductive, PTL

\* No command is carried out twice, whatever is retried, crashes or overlaps.
THEOREM CommandsRunAtMostOnce == Spec => []AtMostOnce
<1>1. IInv => AtMostOnce
  BY DEF IInv
<1> QED
  BY <1>1, Inductive, PTL

\* A result that a client was told stays the ledger's answer to every retry.
THEOREM RetriesAgree == Spec => []ToldIsStored
  BY InitEstablishes, StepTells, Inductive, PTL DEF Spec

\* Stored results never change.
THEOREM ResultsAreFinal == Spec => OutcomeIsFinal
<1>1. IInv /\ [Next]_vars => [\A c \in Commands : row[c] \in Results => row'[c] = row[c]]_vars
  BY StepKeepsResults
<1> QED
  BY <1>1, Inductive, PTL DEF Spec, OutcomeIsFinal
=============================================================================
