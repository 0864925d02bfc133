---------------------------- MODULE EventJournal ----------------------------
(***************************************************************************)
(* The durable event journal of the provider daemon, the fiber that        *)
(* publishes provider runtime events into it, and its startup maintenance. *)
(*                                                                         *)
(* SQLite's autoincrement cursor orders the rows of the journal.  `rows`   *)
(* holds every row ever inserted, indexed by its cursor; pruning deletes a *)
(* prefix, so the rows still stored are those with a cursor above          *)
(* `pruned`.  Rows of other owners, which share the cursor counter, are    *)
(* left out: a cursor here is the rank of a row among its owner's rows.    *)
(***************************************************************************)
EXTENDS Integers, Sequences

CONSTANTS
  EventIds,       \* ids of provider runtime events
  Capacity,       \* newest rows that pruning must keep
  PruneInterval,  \* inserts between two prunes (1 or 1000 in the code)
  PruneBatch,     \* rows deleted by one DELETE of a prune
  MaxRows         \* bound of the model: rows ever inserted

ASSUME JournalAssumption ==
  /\ Capacity \in Nat \ {0}
  /\ PruneInterval \in Nat \ {0}
  /\ PruneBatch \in Nat \ {0}
  /\ MaxRows \in Nat

VARIABLES
  rows,         \* rows[c]: id and body of the row inserted with cursor c
  pruned,       \* rows with a cursor <= pruned are deleted
  indexBuilt,   \* the expression index on eventId exists in the database
  indexReady,   \* eventIdIndexReady of the running daemon
  sincePrune,   \* eventsSincePrune
  publisher,    \* step of the publishing fiber: "idle", "notify" or "prune"
  maintenance,  \* step of the startup maintenance fiber
  pruneTo       \* pruneTo[fiber]: rows up to this cursor go in its prune

journalVars == <<rows, pruned, indexBuilt, indexReady, sincePrune,
                 publisher, maintenance, pruneTo>>

Fibers == {"publisher", "maintenance"}

\* A row decodes ("ok"), fails to decode ("bad", written by another build),
\* or was replaced in place by a quarantine tombstone ("gap").
Row == [id : EventIds, body : {"ok", "bad", "gap"}]

LastCursor == Len(rows)
Retained   == pruned + 1 .. LastCursor

\* The newest row whose listeners have all been called.
Notified == IF publisher = "notify" THEN LastCursor - 1 ELSE LastCursor

Surplus_OffByOne == IF LastCursor >= Capacity THEN LastCursor - Capacity + 1 ELSE 0

\* What an interrupted or finished prune may delete: all but the newest rows.
Surplus == IF LastCursor > Capacity THEN LastCursor - Capacity ELSE 0

\* Looking an event up by its id.  A tombstone carries an id of its own.
Journaled(e) == \E c \in Retained : rows[c].id = e /\ rows[c].body # "gap"

InheritedRows ==
  { <<>> } \cup { <<[id |-> e, body |-> b]>> : e \in EventIds, b \in {"ok", "bad"} }

JournalInit ==
  /\ rows \in InheritedRows
  /\ pruned = 0
  /\ indexBuilt \in BOOLEAN
  /\ indexReady = indexBuilt
  /\ sincePrune = 0
  /\ publisher = "idle"
  /\ maintenance = "delayed"
  /\ pruneTo = [f \in Fibers |-> 0]

-----------------------------------------------------------------------------
\* publish(event): with the index ready an id already stored returns the stored
\* row and inserts nothing; otherwise the row is inserted and gets its cursor.
Insert(e) ==
  /\ publisher = "idle"
  /\ LastCursor < MaxRows
  /\ ~(indexReady /\ Journaled(e))
  /\ rows' = Append(rows, [id |-> e, body |-> "ok"])
  /\ publisher' = "notify"
  /\ UNCHANGED <<pruned, indexBuilt, indexReady, sincePrune, maintenance, pruneTo>>

\* The second half of publish: after the listeners ran, every PruneInterval-th
\* insert prunes before publish returns.
AfterNotify ==
  /\ publisher = "notify"
  /\ IF sincePrune + 1 >= PruneInterval
     THEN /\ sincePrune' = 0
          /\ publisher' = "prune"
          /\ pruneTo' = [pruneTo EXCEPT !["publisher"] = Surplus]
     ELSE /\ sincePrune' = sincePrune + 1
          /\ publisher' = "idle"
          /\ UNCHANGED pruneTo
  /\ UNCHANGED <<rows, pruned, indexBuilt, indexReady, maintenance>>

\* pruneToCapacity: one DELETE removes at most PruneBatch of the oldest rows
\* below the boundary read when the prune began.
AfterDelete(f) ==
  IF pruneTo[f] <= pruned THEN pruned
  ELSE IF pruned + PruneBatch < pruneTo[f] THEN pruned + PruneBatch ELSE pruneTo[f]

LastDelete(f) == AfterDelete(f) - pruned < PruneBatch

PublisherPrune ==
  /\ publisher = "prune"
  /\ pruned' = AfterDelete("publisher")
  /\ publisher' = IF LastDelete("publisher") THEN "idle" ELSE "prune"
  /\ UNCHANGED <<rows, indexBuilt, indexReady, sincePrune, maintenance, pruneTo>>

\* Startup maintenance: after a delay, prune, repair oversized rows (their
\* bodies only), then build the index that publish dedupes with.
StartMaintenance ==
  /\ maintenance = "delayed"
  /\ maintenance' = "prune"
  /\ pruneTo' = [pruneTo EXCEPT !["maintenance"] = Surplus]
  /\ UNCHANGED <<rows, pruned, indexBuilt, indexReady, sincePrune, publisher>>

MaintenancePrune ==
  /\ maintenance = "prune"
  /\ pruned' = AfterDelete("maintenance")
  /\ maintenance' = IF LastDelete("maintenance") THEN "index" ELSE "prune"
  /\ UNCHANGED <<rows, indexBuilt, indexReady, sincePrune, publisher, pruneTo>>

EnsureEventIdIndex ==
  /\ maintenance = "index"
  /\ indexBuilt' = TRUE
  /\ indexReady' = TRUE
  /\ maintenance' = "done"
  /\ UNCHANGED <<rows, pruned, sincePrune, publisher, pruneTo>>

\* A failing maintenance step ends the fiber (ignoreCause): no index this run.
FailMaintenance ==
  /\ maintenance \in {"prune", "index"}
  /\ maintenance' = "done"
  /\ UNCHANGED <<rows, pruned, indexBuilt, indexReady, sincePrune, publisher, pruneTo>>

\* The daemon process dies at any point and starts again on the same database.
RestartJournal ==
  /\ indexReady' = indexBuilt
  /\ sincePrune' = 0
  /\ publisher' = "idle"
  /\ maintenance' = "delayed"
  /\ pruneTo' = [f \in Fibers |-> 0]
  /\ UNCHANGED <<rows, pruned, indexBuilt>>

-----------------------------------------------------------------------------
\* Rows that a reader cannot decode become tombstones with the same cursor.
Quarantine(page) ==
  rows' = [c \in DOMAIN rows |->
             IF c \in page /\ rows[c].body = "bad"
             THEN [rows[c] EXCEPT !.body = "gap"] ELSE rows[c]]

JournalTypeOK ==
  /\ rows \in Seq(Row)
  /\ pruned \in Nat
  /\ indexBuilt \in BOOLEAN
  /\ indexReady \in BOOLEAN
  /\ sincePrune \in Nat
  /\ publisher \in {"idle", "notify", "prune"}
  /\ maintenance \in {"delayed", "prune", "index", "done"}
  /\ pruneTo \in [Fibers -> Nat]

(***************************************************************************)
(* Pruning, from either fiber and cut short by a restart at any point,     *)
(* never deletes one of the newest Capacity rows: a prune boundary read    *)
(* before later inserts is still a safe one (pruneToCapacity).             *)
(***************************************************************************)
NewestRowsSurvive == pruned = 0 \/ LastCursor - pruned >= Capacity
=============================================================================
