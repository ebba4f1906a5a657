----------------------------- MODULE StreamTarget -----------------------------
(***************************************************************************)
(* A streaming table: the runs that ingest into it batch after batch, its  *)
(* checkpoint, and the full refresh that rebuilds it.  The process may die *)
(* between any two steps.  Rows are numbered in order of arrival.          *)
(***************************************************************************)
EXTENDS Naturals, FiniteSets

CONSTANTS
    MaxRows,         \* rows that ever arrive
    MaxRefreshes,    \* full refreshes that are ever asked for
    Keys, KeyOf(_),  \* the merge key of a row
    PathGiven        \* full_refresh is told the checkpoint path of the YAML

StreamAssumption == MaxRows \in Nat /\ MaxRefreshes \in Nat /\ PathGiven \in BOOLEAN
                           /\ \A row \in 1..MaxRows : KeyOf(row) \in Keys

VARIABLES
    writeMode,   \* "append" or "upsert"
    checkpointAt,\* "auto" or "explicit", as the YAML declares
    arrived,     \* rows in the source
    log,         \* the checkpoint: its query, the planned and the committed offset
    table,       \* rows and keys of the target, and the last batch appended to it
    job,         \* what the process is doing
    refreshes,   \* full refreshes begun
    halfPurged   \* a refresh died between its two steps

streamVars == <<writeMode, checkpointAt, arrived, log, table, job, refreshes, halfPurged>>

NoLog == [query |-> 0, planned |-> 0, committed |-> 0]
NoTable == [present |-> FALSE, count |-> [row \in 1..MaxRows |-> 0], latest |-> [k \in Keys |-> 0], txn |-> <<0, 0>>]
Batch == (log.committed + 1)..log.planned

StreamInit ==
    /\ writeMode \in {"append", "upsert"}
    /\ checkpointAt \in {"auto", "explicit"}
    /\ arrived = 0 /\ log = NoLog /\ table = NoTable /\ job = "idle" /\ refreshes = 0 /\ halfPurged = FALSE

Arrive ==
    /\ arrived < MaxRows
    /\ arrived' = arrived + 1
    /\ UNCHANGED <<writeMode, checkpointAt, log, table, job, refreshes, halfPurged>>

(* Spark plans the rows not committed yet, or the batch that was planned   *)
(* before a crash; a new checkpoint starts a new query.                    *)
PlanBatch ==
    /\ job = "idle"
    /\ log' = [query |-> IF log = NoLog THEN refreshes + 1 ELSE log.query,
               planned |-> IF log.planned > log.committed THEN log.planned ELSE arrived,
               committed |-> log.committed]
    /\ log'.planned > log'.committed
    /\ job' = "planned"
    /\ UNCHANGED <<writeMode, checkpointAt, arrived, table, refreshes, halfPurged>>

(* The Delta sink skips a batch of the same query that it already has. *)
AppendBatch ==
    /\ job = "planned" /\ writeMode = "append"
    /\ table' = IF table.txn = <<log.query, log.planned>> THEN table
                ELSE [table EXCEPT !.present = TRUE, !.txn = <<log.query, log.planned>>,
                                   !.count = [row \in 1..MaxRows |-> IF row \in Batch THEN @[row] + 1 ELSE @[row]]]
    /\ job' = "written"
    /\ UNCHANGED <<writeMode, checkpointAt, arrived, log, refreshes, halfPurged>>

(* One row per key is kept, any of the batch; then a create or a merge. *)
_merge_batch ==
    /\ job = "planned" /\ writeMode = "upsert"
    /\ \E deduped \in [{KeyOf(row) : row \in Batch} -> Batch] :
          /\ \A k \in DOMAIN deduped : KeyOf(deduped[k]) = k
          /\ table' = [table EXCEPT !.present = TRUE,
                                    !.latest = [k \in Keys |-> IF k \in DOMAIN deduped THEN deduped[k]
                                                               ELSE IF table.present THEN @[k] ELSE 0]]
    /\ job' = "written"
    /\ UNCHANGED <<writeMode, checkpointAt, arrived, log, refreshes, halfPurged>>

CommitBatch ==
    /\ job = "written"
    /\ log' = [log EXCEPT !.committed = log.planned]
    /\ job' = "idle"
    /\ UNCHANGED <<writeMode, checkpointAt, arrived, table, refreshes, halfPurged>>

(* The same two steps the other way round. *)
PurgeCheckpointLast ==
    /\ \/ /\ job = "idle" /\ refreshes < MaxRefreshes
          /\ table' = NoTable /\ job' = "purged" /\ refreshes' = refreshes + 1
          /\ UNCHANGED log
       \/ /\ job = "purged"
          /\ log' = NoLog /\ job' = "idle"
          /\ UNCHANGED <<table, refreshes>>
    /\ UNCHANGED <<writeMode, checkpointAt, arrived, halfPurged>>
(* full_refresh: the checkpoint is removed where the caller says it is, or *)
(* at the automatic path; a missing directory is ignored.                  *)
PurgeCheckpoint ==
    /\ job = "idle" /\ refreshes < MaxRefreshes
    /\ log' = IF checkpointAt = "auto" \/ PathGiven THEN NoLog ELSE log
    /\ job' = "purged" /\ refreshes' = refreshes + 1
    /\ UNCHANGED <<writeMode, checkpointAt, arrived, table, halfPurged>>
DropTarget ==
    /\ job = "purged"
    /\ table' = NoTable /\ job' = "idle"
    /\ UNCHANGED <<writeMode, checkpointAt, arrived, log, refreshes, halfPurged>>

StreamCrash ==
    /\ job # "idle"
    /\ job' = "idle"
    /\ halfPurged' = (halfPurged \/ job = "purged")
    /\ UNCHANGED <<writeMode, checkpointAt, arrived, log, table, refreshes>>

StreamNext == Arrive \/ PlanBatch \/ AppendBatch \/ _merge_batch \/ CommitBatch \/ PurgeCheckpoint \/ DropTarget \/ StreamCrash
StreamSpec == StreamInit /\ [][StreamNext]_streamVars

StreamTypeOK ==
    /\ writeMode \in {"append", "upsert"} /\ checkpointAt \in {"auto", "explicit"}
    /\ arrived \in 0..MaxRows /\ refreshes \in 0..MaxRefreshes /\ halfPurged \in BOOLEAN
    /\ job \in {"idle", "planned", "written", "purged"}
    /\ log \in [query : 0..(MaxRefreshes + 1), planned : 0..MaxRows, committed : 0..MaxRows]
    /\ table.present \in BOOLEAN /\ table.latest \in [Keys -> 0..MaxRows] /\ DOMAIN table.count = 1..MaxRows

(* What the checkpoint says is ingested is in the table, whatever crashed  *)
(* and whenever the table was rebuilt: a run that skips rows the target    *)
(* does not hold never gets them back.                                     *)
Ingested(row) == IF writeMode = "append" THEN table.count[row] > 0 ELSE table.latest[KeyOf(row)] # 0
CommittedIsIngested == \A row \in 1..log.committed : table.present /\ Ingested(row)

(* An append-only target holds each row once, replayed batches included,   *)
(* unless a refresh was cut in half.                                       *)
AppendedOnce == halfPurged \/ \A row \in 1..MaxRows : table.count[row] <= 1
===============================================================================
