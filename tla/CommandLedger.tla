---------------------------- MODULE CommandLedger ----------------------------
(***************************************************************************)
(* The provider daemon's durable command ledger: mutating RPCs carry a     *)
(* command id, and runOnce keeps one database row per id so that a         *)
(* duplicate, a client's retry after a timeout, or a retry after a crash   *)
(* is answered from the row instead of being executed again.               *)
(*                                                                         *)
(* Daemons are processes that share one owner key and one database.  The   *)
(* desktop may start a new one while an old one, whose credential it could *)
(* not read, still serves: they overlap until the old one is reaped.       *)
(* Non-mutating RPCs and RPCs without a command id never reach a row and   *)
(* are left out.                                                           *)
(***************************************************************************)
EXTENDS Naturals

CONSTANTS
  Commands,  \* command ids (the owner key's prefix included)
  Requests,  \* HTTP requests being served; an idle one stands for the next
  Daemons,   \* processes of this owner
  NoDaemon

ASSUME LedgerAssumption == NoDaemon \notin Daemons

VARIABLES
  row,         \* row[c]: the command's row in provider_daemon_commands
  up,          \* the daemons that are running
  step,        \* the await a request is at
  server,      \* the daemon that serves the request
  command,     \* the command the request carries
  outcome,     \* the envelope that execution produced
  waiting,     \* the client has not timed out on this request
  executions,  \* history: how often the provider began to carry it out
  told         \* history: outcomes that waiting clients received

vars == <<row, up, step, server, command, outcome, waiting, executions, told>>

\* What carrying out a command yields; a defect becomes an error envelope.
Results  == {"ok", "error"}
\* A row's contents.  Startup stores "abandoned" as a failure of its own.
Contents == {"none", "running", "abandoned"} \cup Results
Stored   == Results \cup {"abandoned"}
Steps    == {"idle", "read", "insert", "execute", "executing", "update"}

TypeOK ==
  /\ row \in [Commands -> Contents]
  /\ up \subseteq Daemons
  /\ step \in [Requests -> Steps]
  /\ server \in [Requests -> Daemons \cup {NoDaemon}]
  /\ command \in [Requests -> Commands]
  /\ outcome \in [Requests -> Results]
  /\ waiting \in [Requests -> BOOLEAN]
  /\ executions \in [Commands -> Nat]
  /\ told \in [Commands -> SUBSET Stored]

Init ==
  /\ row = [c \in Commands |-> "none"]
  /\ up = {}
  /\ step = [r \in Requests |-> "idle"]
  /\ server = [r \in Requests |-> NoDaemon]
  /\ command \in [Requests -> Commands]
  /\ outcome = [r \in Requests |-> "ok"]
  /\ waiting = [r \in Requests |-> FALSE]
  /\ executions = [c \in Commands |-> 0]
  /\ told = [c \in Commands |-> {}]

-----------------------------------------------------------------------------
\* A client, or a client retrying, posts a mutating RPC to a running daemon.
Submit(r, c, d) ==
  /\ step[r] = "idle"
  /\ d \in up
  /\ step' = [step EXCEPT ![r] = "read"]
  /\ server' = [server EXCEPT ![r] = d]
  /\ command' = [command EXCEPT ![r] = c]
  /\ waiting' = [waiting EXCEPT ![r] = TRUE]
  /\ UNCHANGED <<row, up, outcome, executions, told>>

\* runOnce returns.  Only an envelope that reports how the command ended is
\* told: "already running" and persistence errors say nothing about that.
Answer(r, e) ==
  /\ step' = [step EXCEPT ![r] = "idle"]
  /\ told' = [told EXCEPT ![command[r]] =
                @ \cup (IF waiting[r] THEN {e} \cap Stored ELSE {})]
  /\ UNCHANGED <<up, server, command, waiting>>

\* readCommand finds a row: the stored envelope, or "already running".
AnswerFromRow(r) ==
  /\ step[r] = "read"
  /\ row[command[r]] # "none"
  /\ Answer(r, row[command[r]])
  /\ UNCHANGED <<row, outcome, executions>>

\* readCommand finds none.  The INSERT is a later database call.
FindNoRow(r) ==
  /\ step[r] = "read"
  /\ row[command[r]] = "none"
  /\ step' = [step EXCEPT ![r] = "insert"]
  /\ UNCHANGED <<row, up, server, command, outcome, waiting, executions, told>>

InsertRunning_Replaces(r) ==
  /\ step[r] = "insert"
  /\ row' = [row EXCEPT ![command[r]] = "running"]
  /\ step' = [step EXCEPT ![r] = "execute"]
  /\ UNCHANGED <<up, server, command, outcome, waiting, executions, told>>

\* The primary key lets one INSERT per command through.
InsertRunning(r) ==
  /\ step[r] = "insert"
  /\ row[command[r]] = "none"
  /\ row' = [row EXCEPT ![command[r]] = "running"]
  /\ step' = [step EXCEPT ![r] = "execute"]
  /\ UNCHANGED <<up, server, command, outcome, waiting, executions, told>>

InsertConflict_Hangs(r) == FALSE

\* A request that lost the race gets a persistence error.
InsertConflict(r) ==
  /\ step[r] = "insert"
  /\ row[command[r]] # "none"
  /\ Answer(r, "persistence")
  /\ UNCHANGED <<row, outcome, executions>>

\* The provider starts carrying the command out.  A daemon that ends between
\* Execute and Executed leaves a command that may or may not have taken effect.
Execute(r) ==
  /\ step[r] = "execute"
  /\ executions' = [executions EXCEPT ![command[r]] = @ + 1]
  /\ step' = [step EXCEPT ![r] = "executing"]
  /\ UNCHANGED <<row, up, server, command, outcome, waiting, told>>

\* The provider accepted the command, refused it, or died on it.
Executed(r, result) ==
  /\ step[r] = "executing"
  /\ outcome' = [outcome EXCEPT ![r] = result]
  /\ step' = [step EXCEPT ![r] = "update"]
  /\ UNCHANGED <<row, up, server, command, waiting, executions, told>>

\* The outcome is stored whatever the row has become, and then returned.
PersistOutcome(r) ==
  /\ step[r] = "update"
  /\ row' = [row EXCEPT ![command[r]] = outcome[r]]
  /\ Answer(r, outcome[r])
  /\ UNCHANGED <<outcome, executions>>

PersistenceFails_TellsOutcome(r) ==
  /\ step[r] \in {"read", "insert", "update"}
  /\ Answer(r, IF step[r] = "update" THEN outcome[r] ELSE "persistence")
  /\ UNCHANGED <<row, outcome, executions>>

\* Any of the three database calls fails: the caller gets a persistence error,
\* and a row already inserted stays "running".
PersistenceFails(r) ==
  /\ step[r] \in {"read", "insert", "update"}
  /\ Answer(r, "persistence")
  /\ UNCHANGED <<row, outcome, executions>>

\* The client's timeout (30 s, 5 min for handoffs): the daemon carries on.
TimeOut(r) ==
  /\ step[r] # "idle" /\ waiting[r]
  /\ waiting' = [waiting EXCEPT ![r] = FALSE]
  /\ UNCHANGED <<row, up, step, server, command, outcome, executions, told>>

-----------------------------------------------------------------------------
Cleaned_Reruns(content) == IF content = "running" THEN "none" ELSE content

\* The startup UPDATE: commands still running are marked failed.
Cleaned(content) == IF content = "running" THEN "abandoned" ELSE content

StartDaemon(d) ==
  /\ d \notin up
  /\ up' = up \cup {d}
  /\ row' = [c \in Commands |-> Cleaned(row[c])]
  /\ UNCHANGED <<step, server, command, outcome, waiting, executions, told>>

\* A daemon ends - crash, restart, or reaped - and its requests with it.
EndDaemon(d) ==
  /\ d \in up
  /\ up' = up \ {d}
  /\ step' = [r \in Requests |-> IF server[r] = d THEN "idle" ELSE step[r]]
  /\ UNCHANGED <<row, server, command, outcome, waiting, executions, told>>

-----------------------------------------------------------------------------
Serve(r) ==
  \/ AnswerFromRow(r) \/ FindNoRow(r)
  \/ InsertRunning(r) \/ InsertConflict(r)
  \/ Execute(r) \/ \E result \in Results : Executed(r, result)
  \/ PersistOutcome(r)

Next ==
  \/ \E r \in Requests :
       \/ \E c \in Commands, d \in Daemons : Submit(r, c, d)
       \/ Serve(r)
       \/ PersistenceFails(r)
       \/ TimeOut(r)
  \/ \E d \in Daemons : StartDaemon(d) \/ EndDaemon(d)

Spec == Init /\ [][Next]_vars

\* The daemon's runtime keeps running every request, and provider calls return.
FairSpec == Spec /\ \A r \in Requests : WF_vars(Serve(r))

-----------------------------------------------------------------------------
(***************************************************************************)
(* However often a command is sent, by however many requests at once, and  *)
(* across timeouts, crashes and overlapping daemons, the provider carries  *)
(* it out at most once.                                                    *)
(***************************************************************************)
AtMostOnce == \A c \in Commands : executions[c] <= 1

(***************************************************************************)
(* What a client was told about how a command ended is what the ledger     *)
(* still holds, so every later retry gets the same answer.  (A client told *)
(* "abandoned" may get the result later, if an overlapping daemon was      *)
(* still carrying the command out: PersistOutcome does not look.)          *)
(***************************************************************************)
ToldIsStored == \A c \in Commands : \A e \in told[c] \cap Results : row[c] = e

(***************************************************************************)
(* A stored result is final: neither a restart, nor a late request of an   *)
(* overlapping daemon, nor a lost INSERT race ever changes it.             *)
(***************************************************************************)
OutcomeIsFinal ==
  [][\A c \in Commands : row[c] \in Results => row'[c] = row[c]]_vars

\* Every request is answered, unless its daemon ends first.
EveryRequestReturns == \A r \in Requests : step[r] # "idle" ~> step[r] = "idle"
=============================================================================
