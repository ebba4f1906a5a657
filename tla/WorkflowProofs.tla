----------------------------- MODULE WorkflowProofs ----------------------------
(***************************************************************************)
(* Proofs about the small machines that MCWorkflows runs side by side: one *)
(* section per machine, each with the inductive invariant, the lemmas that *)
(* its steps need and its theorems.  The sections do not rest on each      *)
(* other.                                                                  *)
(***************************************************************************)
EXTENDS StreamTarget, ViewTarget, AdaptiveWorkflow, SemanticGate, KnowledgeSync, TLAPS

(***************************************************************************)
(* Streaming tables: StreamTarget, for every number of rows, refreshes and keys,*)
(* both write modes and both places of the checkpoint.                     *)
(***************************************************************************)
-----------------------------------------------------------------------------
(* Types, sharper than StreamTypeOK where the arguments below index.       *)

Log == [query : Nat, planned : 0..MaxRows, committed : 0..MaxRows]
Table == [present : BOOLEAN, count : [1..MaxRows -> Nat], latest : [Keys -> 0..MaxRows], txn : Nat \X Nat]

StreamInv ==
    /\ writeMode \in {"append", "upsert"} /\ checkpointAt \in {"auto", "explicit"}
    /\ arrived \in 0..MaxRows /\ refreshes \in 0..MaxRefreshes /\ halfPurged \in BOOLEAN
    /\ job \in {"idle", "planned", "written", "purged"}
    /\ log \in Log /\ table \in Table
    /\ log.committed <= log.planned
    /\ log.query <= refreshes + 1

\* No table and no checkpoint are well typed.
LEMMA EmptyType ==
    ASSUME StreamAssumption
    PROVE  /\ NoLog \in Log /\ NoTable \in Table
           /\ \A row \in 1..MaxRows : NoTable.count[row] = 0
           /\ NoTable.txn = <<0, 0>>
  BY DEF StreamAssumption, NoLog, NoTable, Log, Table

\* What PlanBatch writes into the checkpoint.
LEMMA PlanBatchLog ==
    ASSUME StreamAssumption, StreamInv, PlanBatch
    PROVE  /\ log' \in Log
           /\ log'.committed = log.committed /\ log'.committed < log'.planned
           /\ log'.query = IF log = NoLog THEN refreshes + 1 ELSE log.query
           /\ log.planned > log.committed => log'.planned = log.planned
           /\ log.planned <= log'.planned
  BY DEF PlanBatch, StreamInv, StreamAssumption, Log

\* What AppendBatch does to the table, unless the sink has the batch already.
LEMMA AppendBatchTable ==
    ASSUME StreamAssumption, StreamInv, AppendBatch, table.txn # <<log.query, log.planned>>
    PROVE  /\ table' \in Table /\ table'.present /\ table'.txn = <<log.query, log.planned>>
           /\ table'.latest = table.latest
           /\ \A row \in 1..MaxRows :
                 table'.count[row] = IF row \in Batch THEN table.count[row] + 1 ELSE table.count[row]
  <1> DEFINE count == [row \in 1..MaxRows |-> IF row \in Batch THEN table.count[row] + 1 ELSE table.count[row]]
  <1>1. table \in Table /\ log \in Log
    BY DEF StreamInv
  <1>2. table' = [table EXCEPT !.present = TRUE, !.txn = <<log.query, log.planned>>, !.count = count]
    BY DEF AppendBatch
  <1>3. count \in [1..MaxRows -> Nat]
    <2>1. \A row \in 1..MaxRows : table.count[row] \in Nat
      BY <1>1 DEF Table
    <2>2. QED
      BY <2>1
  <1>4. /\ table'.present = TRUE /\ table'.txn = <<log.query, log.planned>>
        /\ table'.count = count /\ table'.latest = table.latest
    BY <1>1, <1>2 DEF Table
  <1>5. table' \in Table
    <2>1. <<log.query, log.planned>> \in Nat \X Nat
      BY <1>1 DEF Log, StreamAssumption
    <2> HIDE DEF count
    <2>2. QED
      BY <1>1, <1>2, <1>3, <2>1 DEF Table
  <1>6. QED
    BY <1>4, <1>5

\* What _merge_batch does: every key of the batch holds a row of the batch, and
\* an existing table keeps its other keys.
LEMMA MergeBatchTable ==
    ASSUME StreamAssumption, StreamInv, _merge_batch
    PROVE  /\ table' \in Table /\ table'.present
           /\ table'.count = table.count /\ table'.txn = table.txn
           /\ \A row \in Batch : table'.latest[KeyOf(row)] # 0
           /\ table.present => \A k \in Keys : table.latest[k] # 0 => table'.latest[k] # 0
  <1>1. PICK deduped \in [{KeyOf(row) : row \in Batch} -> Batch] :
            table' = [table EXCEPT !.present = TRUE,
                                   !.latest = [k \in Keys |-> IF k \in DOMAIN deduped THEN deduped[k]
                                                              ELSE IF table.present THEN table.latest[k] ELSE 0]]
    <2>1. table \in Table
      BY DEF StreamInv
    <2>2. QED
      BY <2>1 DEF _merge_batch, Table
  <1> DEFINE latest == [k \in Keys |-> IF k \in DOMAIN deduped THEN deduped[k]
                                       ELSE IF table.present THEN table.latest[k] ELSE 0]
  <1>2. table \in Table /\ log \in Log
    BY DEF StreamInv
  <1>3. \A row \in Batch : row \in 1..MaxRows
    BY <1>2 DEF Batch, Log, StreamAssumption
  <1>4. /\ DOMAIN deduped = {KeyOf(row) : row \in Batch}
        /\ \A k \in DOMAIN deduped : deduped[k] \in 1..MaxRows
    <2>1. DOMAIN deduped = {KeyOf(row) : row \in Batch}
      OBVIOUS
    <2>2. \A k \in {KeyOf(row) : row \in Batch} : deduped[k] \in Batch
      OBVIOUS
    <2>3. QED
      BY <1>3, <2>1, <2>2
  <1>5. latest \in [Keys -> 0..MaxRows]
    BY <1>2, <1>4 DEF Table, StreamAssumption
  <1>6. /\ table'.present = TRUE /\ table'.txn = table.txn
        /\ table'.count = table.count /\ table'.latest = latest
    BY <1>1, <1>2 DEF Table
  <1>7. table' \in Table
    BY <1>1, <1>2, <1>5 DEF Table
  <1>8. ASSUME NEW row \in Batch PROVE latest[KeyOf(row)] # 0
    <2>1. KeyOf(row) \in Keys
      BY <1>3 DEF StreamAssumption
    <2>2. KeyOf(row) \in DOMAIN deduped /\ deduped[KeyOf(row)] # 0
      BY <1>4
    <2>3. QED
      BY <2>1, <2>2
  <1>9. ASSUME table.present, NEW k \in Keys, table.latest[k] # 0 PROVE latest[k] # 0
    BY <1>4, <1>9
  <1>10. QED
    BY <1>6, <1>7, <1>8, <1>9


\* Every step keeps the types.
LEMMA StreamStep ==
    ASSUME StreamAssumption, StreamInv, StreamNext
    PROVE  StreamInv'
  <1> USE DEF StreamInv
  <1>1. CASE Arrive
    BY <1>1 DEF Arrive, StreamAssumption
  <1>2. CASE PlanBatch
    <2>1. log' \in Log /\ log'.committed <= log'.planned
      BY <1>2, PlanBatchLog DEF Log, StreamAssumption
    <2>2. log'.query <= refreshes + 1
      BY <1>2, PlanBatchLog DEF Log, StreamAssumption
    <2>3. QED
      BY <1>2, <2>1, <2>2 DEF PlanBatch
  <1>3. CASE AppendBatch
    <2>1. table' \in Table
      BY <1>3, AppendBatchTable DEF AppendBatch
    <2>2. QED
      BY <1>3, <2>1 DEF AppendBatch
  <1>4. CASE _merge_batch
    <2>1. table' \in Table
      BY <1>4, MergeBatchTable
    <2>2. QED
      BY <1>4, <2>1 DEF _merge_batch
  <1>5. CASE CommitBatch
    BY <1>5 DEF CommitBatch, Log, StreamAssumption
  <1>6. CASE PurgeCheckpoint
    <2>1. log' \in Log /\ log'.committed <= log'.planned /\ log'.query <= refreshes + 2
      BY <1>6, EmptyType DEF PurgeCheckpoint, NoLog, Log, StreamAssumption
    <2>2. refreshes' \in 0..MaxRefreshes /\ refreshes' = refreshes + 1
      BY <1>6 DEF PurgeCheckpoint, StreamAssumption
    <2>3. QED
      BY <1>6, <2>1, <2>2 DEF PurgeCheckpoint, StreamAssumption
  <1>7. CASE DropTarget
    BY <1>7, EmptyType DEF DropTarget
  <1>8. CASE StreamCrash
    BY <1>8 DEF StreamCrash
  <1>9. QED
    BY <1>1, <1>2, <1>3, <1>4, <1>5, <1>6, <1>7, <1>8 DEF StreamNext

\* The types hold in every reachable state.
LEMMA StreamInvariance == StreamAssumption => (StreamSpec => []StreamInv)
  <1> SUFFICES ASSUME StreamAssumption PROVE StreamSpec => []StreamInv
    OBVIOUS
  <1>1. StreamInit => StreamInv
    <2> SUFFICES ASSUME StreamInit PROVE StreamInv
      OBVIOUS
    <2>1. NoLog.committed = 0 /\ NoLog.planned = 0 /\ NoLog.query = 0
      BY DEF NoLog
    <2>2. log.committed <= log.planned /\ log.query <= refreshes + 1
      BY <2>1 DEF StreamInit
    <2>3. log \in Log /\ table \in Table
      BY EmptyType DEF StreamInit
    <2>4. halfPurged \in BOOLEAN
      BY Zenon DEF StreamInit
    <2>5. arrived \in 0..MaxRows /\ refreshes \in 0..MaxRefreshes
      BY DEF StreamInit, StreamAssumption
    <2>6. job \in {"idle", "planned", "written", "purged"}
      BY DEF StreamInit
    <2>7. QED
      BY <2>2, <2>3, <2>4, <2>5, <2>6, Zenon DEF StreamInit, StreamInv
  <1>2. StreamInv /\ [StreamNext]_streamVars => StreamInv'
    <2> SUFFICES ASSUME StreamInv, [StreamNext]_streamVars PROVE StreamInv'
      OBVIOUS
    <2>1. CASE UNCHANGED streamVars
      BY <2>1 DEF streamVars, StreamInv
    <2>2. QED
      BY <2>1, StreamStep
  <1>3. QED
    BY <1>1, <1>2, PTL DEF StreamSpec

-----------------------------------------------------------------------------
(* What the checkpoint says is ingested.  A replayed batch may be skipped  *)
(* by the sink, so the argument is about the query and the offset that the *)
(* sink remembers: SinkInv says that they belong to this checkpoint or to  *)
(* an earlier one, whose query no later checkpoint ever has again.         *)

SinkInv ==
    /\ table.txn[1] <= refreshes + 1
    /\ log = NoLog => table.txn[1] <= refreshes
    /\ log = NoLog \/ log.query >= 1
    /\ job \in {"planned", "written"} => log.query >= 1 /\ log.planned > log.committed
    /\ table.txn[1] = 0 => table.txn[2] = 0
    /\ table.txn[1] = log.query => table.txn[2] <= log.planned

\* The offsets of both kinds of transaction are numbers.
LEMMA TxnType ==
    ASSUME StreamInv
    PROVE  /\ table.txn[1] \in Nat /\ table.txn[2] \in Nat
           /\ table.txn = <<table.txn[1], table.txn[2]>>
           /\ log.query \in Nat /\ log.planned \in Int /\ log.committed \in Int
           /\ 0 <= log.planned /\ 0 <= log.committed /\ log.committed <= log.planned
           /\ log.planned <= MaxRows /\ refreshes \in Int /\ 0 <= refreshes
           /\ (log = NoLog <=> log.query = 0 /\ log.planned = 0 /\ log.committed = 0)
  <1>1. table \in Table /\ log \in Log
    BY DEF StreamInv
  <1>2. table.txn \in Nat \X Nat
    BY <1>1 DEF Table
  <1>3. log = NoLog <=> log.query = 0 /\ log.planned = 0 /\ log.committed = 0
    BY <1>1 DEF Log, NoLog
  <1>4. QED
    BY <1>1, <1>2, <1>3 DEF StreamInv, Log

\* Every step keeps what is known of the sink.
LEMMA SinkStep ==
    ASSUME StreamAssumption, StreamInv, SinkInv, StreamNext
    PROVE  SinkInv'
  <1>0. StreamInv'
    BY StreamStep
  <1> USE TxnType DEF SinkInv
  <1>1. CASE Arrive
    BY <1>1 DEF Arrive
  <1>2. CASE PlanBatch
    <2>1. /\ log'.committed = log.committed /\ log'.committed < log'.planned
          /\ log'.query = IF log = NoLog THEN refreshes + 1 ELSE log.query
          /\ log.planned <= log'.planned /\ log' \in Log
      BY <1>2, PlanBatchLog
    <2>2. UNCHANGED <<table, refreshes>> /\ job' = "planned"
      BY <1>2 DEF PlanBatch
    <2>3. log'.query >= 1 /\ log' # NoLog /\ log'.planned \in Int /\ log'.query \in Int
      BY <2>1 DEF NoLog, Log
    <2>4. QED
      BY <2>1, <2>2, <2>3
  <1>3. CASE AppendBatch
    <2>1. table'.txn = <<log.query, log.planned>> /\ UNCHANGED <<log, refreshes>> /\ job = "planned"
      BY <1>3, AppendBatchTable DEF AppendBatch
    <2>2. log # NoLog /\ log.query <= refreshes + 1
      BY <2>1 DEF StreamInv
    <2>3. QED
      BY <2>1, <2>2, <1>3 DEF AppendBatch
  <1>4. CASE _merge_batch
    <2>1. table'.txn = table.txn /\ UNCHANGED <<log, refreshes>> /\ job = "planned"
      BY <1>4, MergeBatchTable DEF _merge_batch
    <2>2. QED
      BY <2>1, <1>4 DEF _merge_batch
  <1>5. CASE CommitBatch
    <2>1. /\ log'.query = log.query /\ log'.planned = log.planned
          /\ log'.query >= 1 /\ log' # NoLog /\ log # NoLog
      BY <1>5 DEF CommitBatch, StreamInv, Log, NoLog
    <2>2. QED
      BY <2>1, <1>5 DEF CommitBatch
  <1>6. CASE PurgeCheckpoint
    <2>1. /\ log' = NoLog \/ log' = log
          /\ refreshes' = refreshes + 1 /\ table' = table /\ job' = "purged"
      BY <1>6 DEF PurgeCheckpoint
    <2>2. NoLog.query = 0 /\ NoLog.planned = 0
      BY DEF NoLog
    <2>3. QED
      BY <2>1, <2>2
  <1>7. CASE DropTarget
    <2>1. /\ table'.txn = <<0, 0>> /\ job' = "idle" /\ UNCHANGED <<log, refreshes>>
      BY <1>7, EmptyType DEF DropTarget
    <2>2. QED
      BY <2>1
  <1>8. CASE StreamCrash
    BY <1>8 DEF StreamCrash
  <1>9. QED
    BY <1>1, <1>2, <1>3, <1>4, <1>5, <1>6, <1>7, <1>8 DEF StreamNext

\* A full refresh finds the checkpoint.
Purgeable == checkpointAt = "auto" \/ PathGiven

Covered(n) == \A row \in 1..n : table.present /\ Ingested(row)

IngestInv == Purgeable =>
    /\ CommittedIsIngested
    /\ job = "written" => Covered(log.planned)
    /\ job = "purged" => log = NoLog
    /\ writeMode = "append" /\ table.txn = <<log.query, log.planned>> => Covered(log.planned)

\* Every step keeps what is committed in the table.
LEMMA IngestStep ==
    ASSUME StreamAssumption, StreamInv, SinkInv, IngestInv, StreamNext
    PROVE  IngestInv'
  <1> SUFFICES ASSUME Purgeable' PROVE IngestInv'
    BY DEF IngestInv
  <1>0. /\ Purgeable /\ UNCHANGED <<checkpointAt, writeMode>> /\ writeMode \in {"append", "upsert"}
        /\ CommittedIsIngested /\ (job = "written" => Covered(log.planned))
        /\ (job = "purged" => log = NoLog)
        /\ (writeMode = "append" /\ table.txn = <<log.query, log.planned>> => Covered(log.planned))
    BY DEF IngestInv, Purgeable, StreamNext, Arrive, PlanBatch, AppendBatch, _merge_batch, CommitBatch,
           PurgeCheckpoint, DropTarget, StreamCrash, StreamInv
  <1> USE DEF CommittedIsIngested, Covered, Ingested
  <1>1. CASE Arrive \/ StreamCrash
    BY <1>0, <1>1 DEF Arrive, StreamCrash, IngestInv
  <1>2. CASE PlanBatch
    <2>1. /\ log'.committed = log.committed
          /\ log'.query = IF log = NoLog THEN refreshes + 1 ELSE log.query
          /\ log.planned > log.committed => log'.planned = log.planned
          /\ log'.committed < log'.planned /\ log' \in Log
      BY <1>2, PlanBatchLog
    <2>2. table' = table /\ job' = "planned"
      BY <1>2 DEF PlanBatch
    <2>3. ASSUME table.txn = <<log'.query, log'.planned>>
          PROVE  log'.planned = log.planned /\ log'.query = log.query
      <3>1. table.txn[1] = log'.query /\ table.txn[2] = log'.planned
        BY <2>3
      <3>2. log # NoLog
        BY <2>1, <3>1, TxnType DEF SinkInv
      <3>3. log'.planned <= log.planned
        BY <2>1, <3>1, <3>2, TxnType DEF SinkInv
      <3>4. QED
        BY <2>1, <3>2, <3>3, TxnType DEF Log
    <2>4. QED
      BY <1>0, <2>1, <2>2, <2>3 DEF IngestInv
  <1>3. CASE AppendBatch
    <2>1. job = "planned" /\ job' = "written" /\ writeMode = "append" /\ UNCHANGED log
      BY <1>3 DEF AppendBatch
    <2>2. \A row \in 1..log.planned : table'.present /\ table'.count[row] > 0
      <3>1. CASE table.txn = <<log.query, log.planned>>
        BY <1>0, <1>3, <2>1, <3>1 DEF AppendBatch
      <3>2. CASE table.txn # <<log.query, log.planned>>
        <4>1. /\ table'.present
              /\ \A row \in 1..MaxRows :
                   table'.count[row] = IF row \in Batch THEN table.count[row] + 1 ELSE table.count[row]
          BY <1>3, <3>2, AppendBatchTable
        <4>2. \A row \in 1..MaxRows : table.count[row] \in Nat
          BY DEF StreamInv, Table
        <4>3. \A row \in 1..log.planned : row \in 1..MaxRows /\ (row \in 1..log.committed \/ row \in Batch)
          BY TxnType DEF Batch, StreamAssumption
        <4>4. \A row \in 1..log.committed : table.count[row] > 0
          BY <1>0, <2>1
        <4>5. QED
          BY <4>1, <4>2, <4>3, <4>4
      <3>3. QED
        BY <3>1, <3>2
    <2>3. \A row \in 1..log.committed : row \in 1..log.planned
      BY TxnType
    <2>4. QED
      BY <1>0, <2>1, <2>2, <2>3 DEF IngestInv
  <1>4. CASE _merge_batch
    <2>1. job = "planned" /\ job' = "written" /\ writeMode = "upsert" /\ UNCHANGED log
      BY <1>4 DEF _merge_batch
    <2>2. /\ table'.present
          /\ \A row \in Batch : table'.latest[KeyOf(row)] # 0
          /\ table.present => \A k \in Keys : table.latest[k] # 0 => table'.latest[k] # 0
      BY <1>4, MergeBatchTable
    <2>3. \A row \in 1..log.planned : KeyOf(row) \in Keys /\ (row \in 1..log.committed \/ row \in Batch)
      BY TxnType DEF Batch, StreamAssumption
    <2>4. \A row \in 1..log.committed : table.present /\ table.latest[KeyOf(row)] # 0
      BY <1>0, <2>1
    <2>5. \A row \in 1..log.planned : table'.present /\ table'.latest[KeyOf(row)] # 0
      BY <2>2, <2>3, <2>4
    <2>6. \A row \in 1..log.committed : row \in 1..log.planned
      BY TxnType
    <2>7. QED
      BY <1>0, <2>1, <2>5, <2>6 DEF IngestInv
  <1>5. CASE CommitBatch
    <2>1. /\ job = "written" /\ job' = "idle" /\ table' = table /\ log \in Log
          /\ log'.committed = log.planned /\ log'.planned = log.planned /\ log'.query = log.query
      BY <1>5 DEF CommitBatch, StreamInv, Log
    <2>2. QED
      BY <1>0, <2>1 DEF IngestInv
  <1>6. CASE PurgeCheckpoint
    <2>1. log' = NoLog /\ table' = table /\ job' = "purged" /\ NoLog.committed = 0 /\ NoLog.planned = 0
      BY <1>0, <1>6 DEF PurgeCheckpoint, Purgeable, NoLog
    <2>2. QED
      BY <2>1 DEF IngestInv
  <1>7. CASE DropTarget
    <2>1. log' = NoLog /\ job' = "idle" /\ NoLog.committed = 0 /\ NoLog.planned = 0
      BY <1>0, <1>7 DEF DropTarget, NoLog
    <2>2. QED
      BY <2>1 DEF IngestInv
  <1>8. QED
    BY <1>1, <1>2, <1>3, <1>4, <1>5, <1>6, <1>7 DEF StreamNext

\* Whatever crashes, replays and refreshes do, a run never skips rows that the
\* target does not hold, provided a refresh is told where the checkpoint is.
THEOREM CheckpointIsBacked ==
    StreamAssumption => (StreamSpec => [](StreamTypeOK /\ (Purgeable => CommittedIsIngested)))
  <1> SUFFICES ASSUME StreamAssumption
               PROVE  StreamSpec => [](StreamTypeOK /\ (Purgeable => CommittedIsIngested))
    OBVIOUS
  <1>1. StreamInit => SinkInv /\ IngestInv
    BY EmptyType DEF StreamInit, SinkInv, IngestInv, NoLog, CommittedIsIngested, Covered
  <1>2. StreamInv /\ SinkInv /\ IngestInv /\ [StreamNext]_streamVars => SinkInv' /\ IngestInv'
    <2> SUFFICES ASSUME StreamInv, SinkInv, IngestInv, [StreamNext]_streamVars
                 PROVE  SinkInv' /\ IngestInv'
      OBVIOUS
    <2>1. CASE UNCHANGED streamVars
      BY <2>1 DEF streamVars, SinkInv, IngestInv, Purgeable, CommittedIsIngested, Covered, Ingested
    <2>2. QED
      BY <2>1, SinkStep, IngestStep
  <1>3. StreamInv /\ IngestInv => StreamTypeOK /\ (Purgeable => CommittedIsIngested)
    BY DEF StreamAssumption, StreamInv, IngestInv, StreamTypeOK, Log, Table
  <1>4. QED
    BY StreamInvariance, <1>1, <1>2, <1>3, PTL DEF StreamSpec

-----------------------------------------------------------------------------
(* Replays append nothing twice.                                           *)

OnceInv == ~halfPurged /\ job # "purged" =>
    \A row \in 1..MaxRows :
        /\ table.count[row] <= 1
        /\ row > log.committed /\ table.count[row] > 0 =>
              row <= log.planned /\ table.txn = <<log.query, log.planned>>

\* Every step keeps the count of a row at one.
LEMMA OnceStep ==
    ASSUME StreamAssumption, StreamInv, OnceInv, AppendedOnce, StreamNext
    PROVE  OnceInv' /\ AppendedOnce'
  <1>0. /\ \A row \in 1..MaxRows : table.count[row] \in Nat
        /\ log.committed <= log.planned /\ log \in Log
    BY DEF StreamInv, Table
  <1> USE DEF OnceInv, AppendedOnce
  <1>1. CASE Arrive \/ StreamCrash
    BY <1>1 DEF Arrive, StreamCrash
  <1>2. CASE PlanBatch
    <2>1. /\ log'.committed = log.committed
          /\ log'.query = IF log = NoLog THEN refreshes + 1 ELSE log.query
          /\ log.planned > log.committed => log'.planned = log.planned
      BY <1>2, PlanBatchLog
    <2>2. table' = table /\ UNCHANGED halfPurged /\ job = "idle"
      BY <1>2 DEF PlanBatch
    <2>3. log.planned > log.committed => log'.planned = log.planned /\ log'.query = log.query
      BY <2>1 DEF NoLog
    <2>4. ASSUME ~halfPurged, NEW row \in 1..MaxRows, row > log.committed, table.count[row] > 0
          PROVE  row <= log'.planned /\ table.txn = <<log'.query, log'.planned>>
      BY <1>0, <2>2, <2>3, <2>4 DEF Log
    <2>5. QED
      BY <2>1, <2>2, <2>4
  <1>3. CASE AppendBatch
    <2>1. UNCHANGED <<log, halfPurged>> /\ job = "planned" /\ job' = "written"
      BY <1>3 DEF AppendBatch
    <2>2. CASE table.txn = <<log.query, log.planned>>
      BY <1>3, <2>1, <2>2 DEF AppendBatch
    <2>3. CASE table.txn # <<log.query, log.planned>>
      <3>1. /\ table'.txn = <<log.query, log.planned>>
            /\ \A row \in 1..MaxRows :
                 table'.count[row] = IF row \in Batch THEN table.count[row] + 1 ELSE table.count[row]
        BY <1>3, <2>3, AppendBatchTable
      <3>2. ~halfPurged => \A row \in Batch : row \in 1..MaxRows => table.count[row] = 0
        BY <1>0, <2>1, <2>3 DEF Batch, Log
      <3>3. ~halfPurged => \A row \in 1..MaxRows : row > log.committed /\ row \notin Batch => table.count[row] = 0
        BY <1>0, <2>1, <2>3
      <3>4. \A row \in Batch : row <= log.planned
        BY <1>0 DEF Batch, Log
      <3>5. QED
        BY <1>0, <2>1, <3>1, <3>2, <3>3, <3>4
    <2>4. QED
      BY <2>2, <2>3
  <1>4. CASE _merge_batch
    <2>1. table'.count = table.count /\ table'.txn = table.txn /\ UNCHANGED <<log, halfPurged>> /\ job = "planned"
      BY <1>4, MergeBatchTable DEF _merge_batch
    <2>2. QED
      BY <2>1
  <1>5. CASE CommitBatch
    <2>1. /\ log'.committed = log.planned /\ log'.planned = log.planned /\ log'.query = log.query
          /\ table' = table /\ UNCHANGED halfPurged /\ job = "written"
      BY <1>0, <1>5 DEF CommitBatch, Log
    <2>2. QED
      BY <1>0, <2>1 DEF Log
  <1>6. CASE PurgeCheckpoint
    BY <1>6 DEF PurgeCheckpoint
  <1>7. CASE DropTarget
    BY <1>7, EmptyType DEF DropTarget
  <1>8. QED
    BY <1>1, <1>2, <1>3, <1>4, <1>5, <1>6, <1>7 DEF StreamNext

\* However often a batch is replayed, the sink appends each row once; only a
\* full refresh cut between its two statements leaves rows to be repeated.
THEOREM RowsAreAppendedOnce == StreamAssumption => (StreamSpec => []AppendedOnce)
  <1> SUFFICES ASSUME StreamAssumption PROVE StreamSpec => []AppendedOnce
    OBVIOUS
  <1>1. StreamInit => OnceInv /\ AppendedOnce
    BY EmptyType DEF StreamInit, OnceInv, AppendedOnce, NoLog
  <1>2. StreamInv /\ OnceInv /\ AppendedOnce /\ [StreamNext]_streamVars
            => OnceInv' /\ AppendedOnce'
    <2> SUFFICES ASSUME StreamInv, OnceInv, AppendedOnce, [StreamNext]_streamVars
                 PROVE  OnceInv' /\ AppendedOnce'
      OBVIOUS
    <2>1. CASE UNCHANGED streamVars
      BY <2>1 DEF streamVars, OnceInv, AppendedOnce
    <2>2. QED
      BY <2>1, OnceStep
  <1>3. QED
    BY StreamInvariance, <1>1, <1>2, PTL DEF StreamSpec

(***************************************************************************)
(* Materialized views: ViewTarget, for every set of definitions, with several*)
(* runs whose statements the warehouse executes late.                      *)
(***************************************************************************)
\* No view is a view that was built.
LEMMA BuiltExists ==
    ASSUME NEW d, NEW h, NEW n
    PROVE  [definition |-> d, hash |-> h, data |-> n] # NoView
  BY DEF NoView

Kinds == {"create", "replace", "refresh", "drop"}
Phases == {"idle", "look", "read", "await", "dropping", "done", "artifact", "raised"}
Hashes == Definitions \union {NoHash}
StoredView == [definition : Definitions, hash : Definitions, data : Nat]
Statement == [kind : Kinds, definition : Hashes, hash : Hashes, id : Nat]
Run == [phase : Phases, definition : Hashes, at : Nat, hash : {NoHash}, statement : Nat, skipped : BOOLEAN]

\* The stored hash is that of the view's own definition, and only statements
\* that define nothing lack a definition.
ViewInv ==
    /\ setting \in {"local", "warehouse", "none", "strict"}
    /\ declared \in Definitions /\ never \in BOOLEAN /\ overtaken \in BOOLEAN
    /\ changes \in 0..MaxChanges /\ version \in 0..changes /\ runs \in 0..MaxRuns
    /\ Exists => /\ view \in StoredView /\ view.hash = view.definition /\ view.data <= version
    /\ run \in Run /\ run.at <= version
    /\ run.phase \in {"look", "read", "await"}
           => run.definition \in Definitions /\ run.statement \in 1..runs
    /\ \A s \in pending : /\ s \in Statement /\ s.id \in 1..runs
                          /\ s.kind # "drop" => s.definition \in Definitions /\ s.hash = s.definition

\* A definition is its own hash.
LEMMA HashOf ==
    ASSUME ViewAssumption, NEW d \in Definitions
    PROVE  definition_hash(d) = d /\ d # NoHash
  <1>1. d = [select |-> d.select, options |-> d.options] /\ d.select # "none"
    BY DEF ViewAssumption
  <1>2. NoHash.select = "none"
    BY DEF NoHash
  <1>3. QED
    BY <1>1, <1>2 DEF definition_hash

\* The statements that a run sends.
LEMMA StatementOf ==
    ASSUME ViewAssumption, NEW k \in Kinds, NEW i \in Nat
    PROVE  /\ \A d \in Definitions :
                 LET s == compile_materialized_view_ddl(k, d, i)
                 IN  /\ s \in Statement /\ s.kind = k /\ s.definition = d /\ s.hash = d /\ s.id = i
           /\ LET s == compile_materialized_view_ddl(k, NoHash, i)
              IN  s \in Statement /\ s.kind = k /\ s.definition = NoHash /\ s.id = i
  <1>1. definition_hash(NoHash) = NoHash
    BY DEF definition_hash, NoHash
  <1>2. ASSUME NEW d \in Hashes, definition_hash(d) = d
        PROVE  LET s == compile_materialized_view_ddl(k, d, i)
               IN  s \in Statement /\ s.kind = k /\ s.definition = d /\ s.hash = d /\ s.id = i
    BY <1>2 DEF compile_materialized_view_ddl, Statement
  <1>3. QED
    BY <1>1, <1>2, HashOf DEF Hashes

\* What building a statement leaves.
LEMMA BuiltView ==
    ASSUME ViewInv, NEW s, s.definition \in Definitions, s.hash = s.definition
    PROVE  /\ Built(s) \in StoredView /\ Built(s) # NoView
           /\ Built(s).definition = s.definition /\ Built(s).hash = s.definition
           /\ Built(s).data = version
  BY BuiltExists DEF Built, StoredView, ViewInv

\* Before any run.
LEMMA IdleRun == NoRun \in Run /\ NoRun.phase = "idle" /\ NoRun.at = 0
  BY DEF NoRun, Run, Phases, Hashes

\* A run that begins.
LEMMA BegunRun ==
    ASSUME ViewAssumption, ViewInv, BeginRun
    PROVE  /\ run' \in Run /\ run'.definition = declared /\ run'.at = version
           /\ run'.statement = runs + 1 /\ run'.skipped = FALSE
           /\ run'.phase = "done" <=> setting = "local"
           /\ run'.phase \in {"raised", "artifact", "done", "look"}
  <1> DEFINE p == [strict |-> "raised", none |-> "artifact", local |-> "done",
                   warehouse |-> "look"][setting]
  <1>1. /\ p \in {"raised", "artifact", "done", "look"}
        /\ p = "done" <=> setting = "local"
    BY DEF ViewInv
  <1>2. /\ run' = [NoRun EXCEPT !.definition = declared, !.at = version, !.statement = runs + 1,
                               !.phase = p]
        /\ declared \in Hashes /\ version \in Nat /\ runs + 1 \in Nat
    BY DEF BeginRun, ViewInv, Hashes, ViewAssumption
  <1> HIDE DEF p
  <1>3. QED
    BY <1>1, <1>2 DEF NoRun, Run, Phases, Hashes

\* What sending a statement of the run adds to the pending ones.
LEMMA SendAdds ==
    ASSUME ViewAssumption, ViewInv, NEW k \in Kinds, run.definition \in Definitions,
           run.statement \in 1..runs, Send(k)
    PROVE  \E s \in Statement :
              /\ pending' = pending \union {s} /\ s.kind = k /\ s.id = run.statement
              /\ s.definition = run.definition /\ s.hash = s.definition
  BY StatementOf DEF Send, ViewInv

\* What an execution of a statement does.
LEMMA ExecuteDoes ==
    ASSUME ViewAssumption, ViewInv, NEW s \in pending, ExecuteStatement(s)
    PROVE  /\ pending' = pending \ {s}
           /\ UNCHANGED <<setting, declared, never, version, changes, runs>>
           /\ \/ view' = view
              \/ s.kind \in {"create", "replace"} /\ view' = Built(s)
              \/ s.kind = "refresh" /\ Exists /\ view' = [view EXCEPT !.data = version]
              \/ s.kind = "drop" /\ view' = NoView
           /\ \/ overtaken' = TRUE /\ run' = run
              \/ /\ s.id = run.statement /\ overtaken' = overtaken
                 /\ \/ run' = [run EXCEPT !.phase = "raised"]
                    \/ run.phase = "dropping" /\ run' = [run EXCEPT !.phase = "idle"]
                    \/ /\ run.phase = "await" /\ run' = [run EXCEPT !.phase = "done"]
                       /\ \/ s.kind \in {"create", "replace"} /\ view' = Built(s)
                          \/ s.kind = "refresh" /\ Exists /\ view' = [view EXCEPT !.data = version]
                          \/ s.kind = "drop" /\ view' = NoView
  <1>1. s.kind \in Kinds
    BY DEF ViewInv, Statement
  <1> DEFINE done == \/ s.kind \in {"create", "replace"} /\ view' = Built(s)
                     \/ s.kind = "refresh" /\ Exists /\ view' = [view EXCEPT !.data = version]
                     \/ s.kind = "drop" /\ view' = NoView
             hears == s.id = run.statement /\ run.phase \in {"await", "dropping"}
  <1>2. \/ /\ view' = view
           /\ IF hears THEN overtaken' = overtaken /\ run' = [run EXCEPT !.phase = "raised"]
                       ELSE overtaken' = TRUE /\ run' = run
        \/ /\ done
           /\ IF hears THEN /\ overtaken' = overtaken
                            /\ run' = [run EXCEPT !.phase = IF run.phase = "dropping" THEN "idle" ELSE "done"]
                       ELSE overtaken' = TRUE /\ run' = run
    BY <1>1 DEF ExecuteStatement, Fails, Kinds
  <1> HIDE DEF done
  <1>3. /\ pending' = pending \ {s}
        /\ UNCHANGED <<setting, declared, never, version, changes, runs>>
    BY DEF ExecuteStatement
  <1>4. done => \/ s.kind \in {"create", "replace"} /\ view' = Built(s)
                \/ s.kind = "refresh" /\ Exists /\ view' = [view EXCEPT !.data = version]
                \/ s.kind = "drop" /\ view' = NoView
    BY DEF done
  <1>5. QED
    BY <1>2, <1>3, <1>4

\* What the steps inside a run do to it: it sends a statement that suits what
\* was read, or ends because the view is as declared.
LEMMA ReadDoes ==
    ASSUME ViewAssumption, ViewInv, Look \/ get_table_property
    PROVE  /\ UNCHANGED <<setting, declared, never, version, changes, view, runs, overtaken>>
           /\ run.phase \in {"look", "read"}
           /\ \/ run' = [run EXCEPT !.phase = "read"] /\ UNCHANGED pending
              \/ /\ run' = [run EXCEPT !.phase = "done", !.skipped = TRUE] /\ UNCHANGED pending
                 /\ Exists /\ view.definition = run.definition
              \/ /\ run' = [run EXCEPT !.phase = "await"]
                 /\ \E k \in {"create", "replace", "refresh"} :
                       /\ Send(k)
                       /\ k = "refresh" => Exists /\ view.definition = run.definition
  <1>1. CASE Look
    BY <1>1 DEF Look
  <1>2. CASE get_table_property
    <2>1. run.phase = "read" /\ run.definition \in Definitions
      BY <1>2 DEF get_table_property, ViewInv
    <2>2. PICK hash \in {NoHash} \union (IF Exists THEN {view.hash} ELSE {}) :
             IF hash # definition_hash(run.definition)
             THEN run' = [run EXCEPT !.phase = "await"] /\ Send("replace")
             ELSE IF never THEN run' = [run EXCEPT !.phase = "done", !.skipped = TRUE] /\ UNCHANGED pending
             ELSE run' = [run EXCEPT !.phase = "await"] /\ Send("refresh")
      BY <1>2 DEF get_table_property
    <2>3. hash = definition_hash(run.definition) => Exists /\ view.definition = run.definition
      BY <2>1, <2>2, HashOf DEF ViewInv
    <2>4. UNCHANGED <<setting, declared, never, version, changes, view, runs, overtaken>>
      BY <1>2 DEF get_table_property
    <2>5. QED
      BY <2>1, <2>2, <2>3, <2>4
  <1>3. QED
    BY <1>1, <1>2

\* Every step keeps the types.
LEMMA ViewStep ==
    ASSUME ViewAssumption, ViewInv, [ViewNext]_viewVars
    PROVE  ViewInv'
  <1>1. CASE UNCHANGED viewVars
    BY <1>1 DEF viewVars, ViewInv, Exists
  <1>2. CASE Edit
    BY <1>2 DEF Edit, ViewInv, ViewAssumption, Exists, StoredView, Run
  <1>3. CASE BeginRun
    <2>1. /\ runs' = runs + 1 /\ runs < MaxRuns /\ overtaken' = FALSE
          /\ UNCHANGED <<setting, declared, never, version, changes, pending>>
      BY <1>3 DEF BeginRun
    <2>2. /\ run' \in Run /\ run'.at = version /\ run'.definition = declared
          /\ run'.statement = runs + 1
      BY <1>3, BegunRun
    <2>3. Exists' => view' \in StoredView /\ view'.hash = view'.definition /\ view'.data <= version
      <3>1. CASE setting = "local"
        <4>1. view' = Built(compile_materialized_view_ddl("create", declared, 0))
          BY <1>3, <3>1 DEF BeginRun
        <4>2. LET s == compile_materialized_view_ddl("create", declared, 0)
              IN  s.definition = declared /\ s.hash = declared
          BY StatementOf DEF Kinds, ViewInv
        <4>3. declared \in Definitions /\ version \in Nat
          BY DEF ViewInv
        <4>4. QED
          BY <4>1, <4>2, <4>3, BuiltView
      <3>2. CASE setting # "local"
        BY <1>3, <3>2 DEF BeginRun, ViewInv, Exists
      <3>3. QED
        BY <3>1, <3>2
    <2>4. \A s \in pending : s.id \in 1..(runs + 1)
      BY DEF ViewInv
    <2>5. changes' \in 0..MaxChanges /\ version' \in 0..changes' /\ runs' \in 0..MaxRuns
          /\ version' \in Nat /\ run'.at <= version'
      BY <2>1, <2>2 DEF ViewInv, ViewAssumption
    <2>6. run'.phase \in {"look", "read", "await"}
             => run'.definition \in Definitions /\ run'.statement \in 1..runs'
      BY <2>1, <2>2 DEF ViewInv
    <2>7. QED
      BY <2>1, <2>2, <2>3, <2>4, <2>5, <2>6 DEF ViewInv
  <1>4. CASE Look \/ get_table_property
    <2>1. UNCHANGED <<setting, declared, never, version, changes, view, runs, overtaken>>
      BY <1>4, ReadDoes
    <2>2. /\ run' \in Run /\ run'.at = run.at
          /\ run'.definition = run.definition /\ run'.statement = run.statement
      BY <1>4, ReadDoes DEF ViewInv, Run, Phases
    <2>3. run.definition \in Definitions /\ run.statement \in 1..runs
      BY <1>4, ReadDoes DEF ViewInv
    <2>4. ASSUME NEW s \in pending'
          PROVE  /\ s \in Statement /\ s.id \in 1..runs
                 /\ s.kind # "drop" => s.definition \in Definitions /\ s.hash = s.definition
      <3>1. CASE s \in pending
        BY <3>1 DEF ViewInv
      <3>2. CASE s \notin pending
        <4>1. PICK k \in {"create", "replace", "refresh"} : Send(k)
          BY <1>4, <3>2, ReadDoes
        <4>2. k \in Kinds
          BY DEF Kinds
        <4>3. QED
          BY <2>3, <3>2, <4>1, <4>2, SendAdds
      <3>3. QED
        BY <3>1, <3>2
    <2>5. QED
      BY <2>1, <2>2, <2>3, <2>4 DEF ViewInv, Exists
  <1>5. CASE FullRefresh
    <2>1. /\ runs' = runs + 1 /\ runs < MaxRuns /\ overtaken' = FALSE
          /\ UNCHANGED <<setting, declared, never, version, changes, view>>
      BY <1>5 DEF FullRefresh
    <2>2. run' \in Run /\ run'.at = 0 /\ run'.phase = "dropping"
      <3>1. runs + 1 \in Nat /\ run' = [NoRun EXCEPT !.phase = "dropping", !.statement = runs + 1]
        BY <1>5 DEF FullRefresh, ViewInv
      <3>2. QED
        BY <3>1, IdleRun DEF Run, Phases
    <2>3. PICK d \in Statement : pending' = pending \union {d} /\ d.kind = "drop" /\ d.id = runs + 1
      <3>1. runs + 1 \in Nat /\ "drop" \in Kinds
        BY DEF ViewInv, Kinds
      <3>2. QED
        BY <1>5, <3>1, StatementOf DEF FullRefresh
    <2>4. /\ changes' \in 0..MaxChanges /\ version' \in 0..changes' /\ runs' \in 0..MaxRuns
          /\ run'.at <= version'
      BY <2>1, <2>2 DEF ViewInv, ViewAssumption
    <2>5. \A s \in pending' : /\ s \in Statement /\ s.id \in 1..runs'
                              /\ s.kind # "drop" => s.definition \in Definitions /\ s.hash = s.definition
      BY <2>1, <2>3 DEF ViewInv
    <2>6. QED
      BY <2>1, <2>2, <2>4, <2>5 DEF ViewInv, Exists
  <1>6. ASSUME NEW s \in pending, ExecuteStatement(s)
        PROVE  ViewInv'
    <2>1. /\ pending' = pending \ {s}
          /\ UNCHANGED <<setting, declared, never, version, changes, runs>>
          /\ overtaken' \in BOOLEAN
      BY <1>6, ExecuteDoes DEF ViewInv
    <2>2. /\ run' \in Run /\ run'.at = run.at
          /\ run'.definition = run.definition /\ run'.statement = run.statement
          /\ run'.phase \in {"look", "read", "await"} => run' = run
      BY <1>6, ExecuteDoes DEF ViewInv, Run, Phases
    <2>3. s.kind # "drop" => s.definition \in Definitions /\ s.hash = s.definition
      BY DEF ViewInv
    <2>4. version \in Nat
      BY DEF ViewInv
    <2>5. Exists' => view' \in StoredView /\ view'.hash = view'.definition /\ view'.data <= version
      <3>1. CASE view' = view
        BY <3>1 DEF ViewInv, Exists
      <3>2. CASE s.kind \in {"create", "replace"} /\ view' = Built(s)
        BY <2>3, <2>4, <3>2, BuiltView
      <3>3. CASE Exists /\ view' = [view EXCEPT !.data = version]
        BY <2>4, <3>3 DEF ViewInv, StoredView
      <3>4. CASE view' = NoView
        BY <3>4 DEF Exists
      <3>5. QED
        BY <1>6, <3>1, <3>2, <3>3, <3>4, ExecuteDoes
    <2>6. QED
      BY <2>1, <2>2, <2>5 DEF ViewInv
  <1>7. CASE GiveUp
    BY <1>7 DEF GiveUp, ViewInv, Exists, Run, Phases
  <1>8. QED
    BY <1>1, <1>2, <1>3, <1>4, <1>5, <1>6, <1>7 DEF ViewNext

\* The types hold in every reachable state.
LEMMA ViewInvariance == ViewAssumption => (ViewSpec => []ViewInv)
  <1> SUFFICES ASSUME ViewAssumption PROVE ViewSpec => []ViewInv
    OBVIOUS
  <1>1. ViewInit => ViewInv
    <2>1. 0 \in 0..MaxChanges /\ 0 \in 0..MaxRuns /\ 0 \in 0..0
      BY DEF ViewAssumption
    <2>2. SUFFICES ASSUME ViewInit PROVE ViewInv
      OBVIOUS
    <2>3. run \in Run /\ run.phase = "idle" /\ run.at <= version
      BY <2>2, IdleRun DEF ViewInit
    <2>4. ~Exists /\ pending = {} /\ setting \in {"local", "warehouse", "none", "strict"}
          /\ declared \in Definitions /\ never \in BOOLEAN /\ overtaken \in BOOLEAN
      BY <2>2 DEF ViewInit, Exists
    <2>5. changes \in 0..MaxChanges /\ version \in 0..changes /\ runs \in 0..MaxRuns
      BY <2>1, <2>2 DEF ViewInit
    <2>6. QED
      BY <2>3, <2>4, <2>5 DEF ViewInv
  <1>2. QED
    BY <1>1, ViewStep, PTL DEF ViewSpec

\* The run that waits has its own statement pending, which suits its definition;
\* a refresh finds the view that the run saw, unless another statement took
\* effect meanwhile.
Awaited(s) ==
    /\ s.kind # "drop" /\ s.definition = run.definition
    /\ s.kind = "refresh" /\ ~overtaken => Exists /\ view.definition = run.definition

CurrentInv ==
    /\ run.phase \in {"look", "read"} => \A s \in pending : s.id # run.statement
    /\ run.phase = "await" => \A s \in pending : s.id = run.statement => Awaited(s)
    /\ BuiltViewIsCurrent

\* Every step keeps it.
LEMMA CurrentStep ==
    ASSUME ViewAssumption, ViewInv, CurrentInv, [ViewNext]_viewVars
    PROVE  CurrentInv'
  <1>1. CASE UNCHANGED viewVars
    BY <1>1 DEF viewVars, CurrentInv, Awaited, BuiltViewIsCurrent, Exists
  <1>2. CASE Edit \/ GiveUp
    BY <1>2, ViewStep DEF Edit, GiveUp, CurrentInv, Awaited, BuiltViewIsCurrent, Exists,
       ViewInv, Run, Phases
  <1>3. CASE BeginRun
    <2>1. /\ run'.definition = declared /\ run'.at = version
          /\ run'.statement = runs + 1
          /\ run'.phase = "done" <=> setting = "local"
          /\ run'.phase \in {"raised", "artifact", "done", "look"}
      BY <1>3, BegunRun
    <2>2. \A s \in pending' : s.id # run'.statement
      BY <1>3, <2>1 DEF BeginRun, ViewInv
    <2>3. setting = "local" => Exists' /\ view'.definition = declared /\ view'.data = version
      <3>1. LET s == compile_materialized_view_ddl("create", declared, 0)
            IN  s.definition = declared /\ s.hash = declared
        BY StatementOf DEF Kinds, ViewInv
      <3>2. declared \in Definitions
        BY DEF ViewInv
      <3>3. QED
        BY <1>3, <3>1, <3>2, BuiltView DEF BeginRun, Exists
    <2>4. version \in Nat
      BY DEF ViewInv
    <2>5. BuiltViewIsCurrent'
      BY <2>1, <2>3, <2>4 DEF BuiltViewIsCurrent
    <2>6. QED
      BY <2>1, <2>2, <2>5 DEF CurrentInv
  <1>4. CASE Look \/ get_table_property
    <2>1. /\ UNCHANGED <<view, overtaken>> /\ Exists' = Exists
          /\ run.phase \in {"look", "read"} /\ run \in Run
          /\ run.definition \in Definitions /\ run.statement \in 1..runs
      BY <1>4, ReadDoes DEF ViewInv, Exists
    <2>2. CASE run' = [run EXCEPT !.phase = "read"] /\ UNCHANGED pending
      BY <2>1, <2>2 DEF CurrentInv, BuiltViewIsCurrent, Run
    <2>3. CASE /\ run' = [run EXCEPT !.phase = "done", !.skipped = TRUE] /\ UNCHANGED pending
               /\ Exists /\ view.definition = run.definition
      BY <2>1, <2>3 DEF CurrentInv, BuiltViewIsCurrent, Run
    <2>4. ASSUME run' = [run EXCEPT !.phase = "await"],
                 NEW k \in {"create", "replace", "refresh"}, Send(k),
                 k = "refresh" => Exists /\ view.definition = run.definition
          PROVE  CurrentInv'
      <3>1. PICK s \in Statement :
               /\ pending' = pending \union {s} /\ s.kind = k /\ s.id = run.statement
               /\ s.definition = run.definition
        BY <2>1, <2>4, SendAdds DEF Kinds
      <3>2. /\ run'.phase = "await" /\ run'.statement = run.statement
            /\ run'.definition = run.definition
        BY <2>1, <2>4 DEF Run
      <3>3. \A q \in pending' : q.id = run.statement => q = s
        BY <2>1, <3>1 DEF CurrentInv
      <3>4. Awaited(s)'
        BY <2>1, <2>4, <3>1, <3>2 DEF Awaited
      <3>5. QED
        BY <3>2, <3>3, <3>4 DEF CurrentInv, BuiltViewIsCurrent
    <2>5. QED
      BY <1>4, <2>2, <2>3, <2>4, ReadDoes
  <1>5. CASE FullRefresh
    <2>1. run'.phase = "dropping"
      BY <1>5, IdleRun DEF FullRefresh, Run
    <2>2. QED
      BY <2>1 DEF CurrentInv, BuiltViewIsCurrent
  <1>6. ASSUME NEW s \in pending, ExecuteStatement(s)
        PROVE  CurrentInv'
    <2>1. pending' = pending \ {s}
      BY <1>6, ExecuteDoes
    <2>2. CASE overtaken' = TRUE /\ run' = run
      BY <2>1, <2>2 DEF CurrentInv, Awaited, BuiltViewIsCurrent
    <2>3. CASE run' = [run EXCEPT !.phase = "raised"] \/ run' = [run EXCEPT !.phase = "idle"]
      <3>1. run'.phase \in {"raised", "idle"}
        BY <2>3 DEF ViewInv, Run
      <3>2. QED
        BY <3>1 DEF CurrentInv, BuiltViewIsCurrent
    <2>4. CASE /\ s.id = run.statement /\ overtaken' = overtaken
               /\ run.phase = "await" /\ run' = [run EXCEPT !.phase = "done"]
               /\ \/ s.kind \in {"create", "replace"} /\ view' = Built(s)
                  \/ s.kind = "refresh" /\ Exists /\ view' = [view EXCEPT !.data = version]
                  \/ s.kind = "drop" /\ view' = NoView
      <3>1. /\ run'.phase = "done" /\ run'.definition = run.definition /\ run'.at = run.at
            /\ run.at <= version /\ version \in Nat
        BY <2>4 DEF ViewInv, Run
      <3>2. Awaited(s)
        BY <2>4 DEF CurrentInv
      <3>3. CASE s.kind \in {"create", "replace"} /\ view' = Built(s)
        <4>1. s.definition \in Definitions /\ s.hash = s.definition
          BY <3>3 DEF ViewInv
        <4>2. Exists' /\ view'.definition = run.definition /\ view'.data = version
          BY <3>2, <3>3, <4>1, BuiltView DEF Exists, Awaited
        <4>3. QED
          BY <3>1, <4>2 DEF CurrentInv, BuiltViewIsCurrent
      <3>4. CASE s.kind = "refresh" /\ Exists /\ view' = [view EXCEPT !.data = version]
        <4>1. view'.definition = view.definition /\ view'.data = version /\ Exists'
          BY <3>1, <3>4, BuiltExists DEF ViewInv, StoredView, Exists, NoView
        <4>2. ~overtaken => view.definition = run.definition
          BY <3>2, <3>4 DEF Awaited
        <4>3. QED
          BY <2>4, <3>1, <4>1, <4>2 DEF CurrentInv, BuiltViewIsCurrent
      <3>5. QED
        BY <2>4, <3>2, <3>3, <3>4 DEF Awaited
    <2>5. QED
      BY <1>6, <2>2, <2>3, <2>4, ExecuteDoes
  <1>7. QED
    BY <1>1, <1>2, <1>3, <1>4, <1>5, <1>6 DEF ViewNext

\* A run that reports success leaves its view there, with the definition that
\* it compiled and data no older than its start, however edits, slow
\* statements, deadlines and crashes interleave, unless a statement of an
\* earlier run took effect during it.
THEOREM BuiltViewsAreCurrent == ViewAssumption => (ViewSpec => [](ViewTypeOK /\ BuiltViewIsCurrent))
  <1> SUFFICES ASSUME ViewAssumption PROVE ViewSpec => [](ViewTypeOK /\ BuiltViewIsCurrent)
    OBVIOUS
  <1>1. ViewInit => CurrentInv
    BY IdleRun DEF ViewInit, CurrentInv, BuiltViewIsCurrent
  <1>2. ViewInv /\ CurrentInv => ViewTypeOK /\ BuiltViewIsCurrent
    BY DEF ViewAssumption, ViewInv, CurrentInv, ViewTypeOK, Kinds, Phases, StoredView, Statement, Run
  <1>3. QED
    BY ViewInvariance, CurrentStep, <1>1, <1>2, PTL DEF ViewSpec

(***************************************************************************)
(* Adaptive proposals: AdaptiveWorkflow, for every number of commands, of  *)
(* processes that run them and of paths to deliver to.                     *)
(***************************************************************************)
\* A process that delivers owns the file it creates: half written until its
\* content is there, complete until it reports.
Holds(p, o) == proc[p].to = o /\ proc[p].at \in {"content", "deliver", "accept"}
Ownership ==
    /\ \A p \in Reviewers : proc[p].at \in {"create", "content", "deliver", "accept"} => proc[p].to \in Outputs
    /\ \A p \in Reviewers : proc[p].at = "content" => output[proc[p].to] = "partial"
    /\ \A p \in Reviewers : proc[p].at \in {"deliver", "accept"} => output[proc[p].to] = "complete"
    /\ \A p, q \in Reviewers, o \in Outputs : Holds(p, o) /\ Holds(q, o) => p = q

\* The record is on disk before the status that rests on it is written.
RecordsFirst ==
    /\ \A p \in Reviewers : proc[p].at = "reject" => decision
    /\ \A p \in Reviewers : proc[p].at = "measure" => evaluation

\* While commands do not overlap, the status a command found is still the one.
Alone == \A p, q \in Reviewers : proc[p] # Idle /\ proc[q] # Idle => p = q
StatusIsStillTheOne ==
    \A p \in Reviewers :
        /\ proc[p].at \in {"create", "content", "deliver", "accept", "decide", "reject"} => status = "proposed"
        /\ proc[p].at \in {"evaluated", "record", "measure"} => status \in {"accepted", "measured"}
        /\ proc[p].at = "mark stale" => status \notin {"absent", "stale"}
        /\ proc[p].at = "accept" => delivery = proc[p].to
Serially == serial => Alone /\ StatusIsStillTheOne

ReviewInv == ReviewTypeOK /\ Ownership /\ RecordsFirst /\ StatusHasRecord /\ Serially /\ DeliveredIsComplete

Kept == ReviewInv' /\ DecidedOnce /\ OutputIsNotReplaced

\* A command moves on: one process is elsewhere, the others where they were.
Places == {"idle", "mark stale", "create", "content", "deliver", "accept", "decide", "reject",
           "evaluated", "record", "measure"}
MovesTo(p, at, to) ==
    /\ at \in Places /\ to \in Outputs \union {"none"}
    /\ proc' \in [Reviewers -> [at : Places, to : Outputs \union {"none"}]]
    /\ proc'[p].at = at /\ proc'[p].to = to
    /\ \A q \in Reviewers : q # p => proc'[q] = proc[q]
    /\ commands' \in 0..MaxCommands /\ serial' = serial
    /\ serial => \A q \in Reviewers : q # p => proc[q] = Idle

\* It begins, goes on or ends.
LEMMA BeginMoves ==
    ASSUME AdaptiveAssumption, ReviewInv, NEW p \in Reviewers, NEW at \in Places, NEW to \in Outputs \union {"none"},
           Begin(p, at, to), serial' = serial
    PROVE  MovesTo(p, at, to)
  <1> DEFINE PState == [at : Places, to : Outputs \union {"none"}]
             new == [at |-> at, to |-> to]
  <1>1. new \in PState /\ new.at = at /\ new.to = to
    OBVIOUS
  <1>2. proc \in [Reviewers -> PState] /\ proc' = [proc EXCEPT ![p] = new]
    BY DEF Begin, ReviewInv, ReviewTypeOK, Places
  <1> HIDE DEF new
  <1>3. proc' \in [Reviewers -> PState] /\ proc'[p] = new /\ \A q \in Reviewers : q # p => proc'[q] = proc[q]
    <2> HIDE DEF PState
    <2>1. QED
      BY <1>1, <1>2
  <1>4. commands' \in 0..MaxCommands
    <2>1. commands' = commands + 1 /\ commands < MaxCommands
      BY DEF Begin
    <2>2. commands \in 0..MaxCommands /\ MaxCommands \in Nat
      BY DEF AdaptiveAssumption, ReviewInv, ReviewTypeOK
    <2>3. QED
      BY <2>1, <2>2
  <1>5. serial => \A q \in Reviewers : proc[q] = Idle
    BY DEF Begin
  <1>6. QED
    BY <1>1, <1>3, <1>4, <1>5 DEF MovesTo

\* See BeginMoves.
LEMMA GotoMoves ==
    ASSUME ReviewInv, NEW p \in Reviewers, NEW at \in Places, Goto(p, at), proc[p].at # "idle", serial' = serial
    PROVE  MovesTo(p, at, proc[p].to)
  <1>1. proc[p] \in [at : Places, to : Outputs \union {"none"}] /\ proc[p] # Idle
    <2>1. Idle.at = "idle"
      BY DEF Idle
    <2>2. QED
      BY <2>1 DEF ReviewInv, ReviewTypeOK, Places
  <1> DEFINE PState == [at : Places, to : Outputs \union {"none"}]
             new == [proc[p] EXCEPT !.at = at]
  <1>2. new \in PState /\ new.at = at /\ new.to = proc[p].to
    BY <1>1
  <1>3. /\ proc' \in [Reviewers -> PState]
        /\ proc'[p].at = at /\ proc'[p].to = proc[p].to
        /\ \A q \in Reviewers : q # p => proc'[q] = proc[q]
    <2>1. proc \in [Reviewers -> PState] /\ proc' = [proc EXCEPT ![p] = new]
      BY DEF Goto, ReviewInv, ReviewTypeOK, Places
    <2> HIDE DEF PState, new
    <2>2. QED
      BY <1>2, <2>1
  <1>4. serial => \A q \in Reviewers : q # p => proc[q] = Idle
    BY <1>1 DEF ReviewInv, Serially, Alone
  <1>5. commands' \in 0..MaxCommands
    BY DEF Goto, ReviewInv, ReviewTypeOK
  <1>6. QED
    BY <1>1, <1>3, <1>4, <1>5 DEF MovesTo

\* See BeginMoves.
LEMMA EndMoves ==
    ASSUME ReviewInv, NEW p \in Reviewers, End(p), proc[p] # Idle, serial' = serial
    PROVE  MovesTo(p, "idle", "none")
  <1>1. serial => \A q \in Reviewers : q # p => proc[q] = Idle
    BY DEF ReviewInv, Serially, Alone
  <1>2. QED
    BY <1>1 DEF End, Idle, ReviewInv, ReviewTypeOK, MovesTo, Places

\* Whoever moves on without creating a file leaves the files to their owners.
LEMMA OthersKeepTheirFiles ==
    ASSUME ReviewInv, NEW p \in Reviewers, NEW at, NEW to, MovesTo(p, at, to), output' = output,
           at \notin {"content", "deliver", "accept"}, at = "create" => to \in Outputs
    PROVE  Ownership' /\ OutputIsNotReplaced
  <1>1. Ownership'
    BY DEF ReviewInv, ReviewTypeOK, MovesTo, Ownership, Holds
  <1>2. QED
    BY <1>1 DEF OutputIsNotReplaced

\* Records are never removed.
LEMMA RecordsStay ==
    ASSUME ReviewInv, NEW p \in Reviewers, NEW at, NEW to, MovesTo(p, at, to),
           decision => decision', evaluation => evaluation',
           at = "reject" => decision', at = "measure" => evaluation',
           status' = "rejected" => status = "rejected" \/ decision',
           status' = "measured" => status = "measured" \/ evaluation'
    PROVE  RecordsFirst' /\ StatusHasRecord'
  BY DEF ReviewInv, ReviewTypeOK, MovesTo, RecordsFirst, StatusHasRecord

\* While commands do not overlap, only the command that moves looks at the status.
LEMMA StatusStays ==
    ASSUME ReviewInv, NEW p \in Reviewers, NEW at, NEW to, MovesTo(p, at, to),
           serial => /\ at \in {"create", "content", "deliver", "accept", "decide", "reject"} => status' = "proposed"
                     /\ at \in {"evaluated", "record", "measure"} => status' \in {"accepted", "measured"}
                     /\ at = "mark stale" => status' \notin {"absent", "stale"}
                     /\ at = "accept" => delivery' = to
    PROVE  Serially'
  <1> SUFFICES ASSUME serial PROVE Alone' /\ StatusIsStillTheOne'
    BY DEF Serially, MovesTo
  <1>1. \A q \in Reviewers : q # p => proc'[q] = Idle
    BY DEF MovesTo
  <1>2. Alone'
    BY <1>1 DEF Alone
  <1>3. proc'[p].at = at /\ proc'[p].to = to
    BY DEF MovesTo
  <1>4. \A q \in Reviewers : q # p => proc'[q].at = "idle"
    <2>1. Idle.at = "idle"
      BY DEF Idle
    <2>2. QED
      BY <1>1, <2>1
  <1>5. QED
    BY <1>2, <1>3, <1>4 DEF StatusIsStillTheOne

\* A command that reads, or dies, or fails to write, changes nothing on disk.
LEMMA NothingWritten ==
    ASSUME ReviewInv, NEW p \in Reviewers, NEW at, NEW to, MovesTo(p, at, to),
           UNCHANGED <<status, delivery, decision, evaluation, output, current>>,
           at \in {"idle", "mark stale", "create", "decide", "evaluated", "record"}, at = "create" => to \in Outputs,
           serial => /\ at \in {"create", "decide"} => status = "proposed"
                     /\ at \in {"evaluated", "record"} => status \in {"accepted", "measured"}
                     /\ at = "mark stale" => status \notin {"absent", "stale"}
    PROVE  Kept
  <1>1. ReviewTypeOK'
    BY DEF ReviewInv, ReviewTypeOK, MovesTo, Places
  <1>2. Ownership' /\ OutputIsNotReplaced
    BY OthersKeepTheirFiles
  <1>3. RecordsFirst' /\ StatusHasRecord'
    BY RecordsStay
  <1>4. Serially'
    BY StatusStays
  <1>5. DeliveredIsComplete' /\ DecidedOnce
    BY DEF ReviewInv, MovesTo, DeliveredIsComplete, DecidedOnce
  <1>6. QED
    BY <1>1, <1>2, <1>3, <1>4, <1>5 DEF ReviewInv, Kept

\* A command writes the status, or a record, and nothing else.
LEMMA StatusWritten ==
    ASSUME ReviewInv, NEW p \in Reviewers, NEW at, NEW to, MovesTo(p, at, to),
           UNCHANGED <<delivery, output, current>>, at \in {"idle", "reject", "measure"},
           decision' \in BOOLEAN, evaluation' \in BOOLEAN, status' \in Statuses \union {"absent"},
           decision => decision', evaluation => evaluation',
           at = "reject" => decision', at = "measure" => evaluation',
           serial /\ at = "reject" => status' = "proposed",
           serial /\ at = "measure" => status' \in {"accepted", "measured"},
           status' = "rejected" => status = "rejected" \/ decision',
           status' = "measured" => status = "measured" \/ evaluation',
           serial /\ status' \in {"accepted", "measured"} => status \in {"accepted", "measured"},
           DecidedOnce
    PROVE  Kept
  <1>1. ReviewTypeOK'
    BY DEF ReviewInv, ReviewTypeOK, MovesTo, Places, Statuses
  <1>2. Ownership' /\ OutputIsNotReplaced
    BY OthersKeepTheirFiles
  <1>3. RecordsFirst' /\ StatusHasRecord'
    BY RecordsStay
  <1>4. Serially'
    BY StatusStays
  <1>5. DeliveredIsComplete'
    BY DEF ReviewInv, MovesTo, DeliveredIsComplete
  <1>6. QED
    BY <1>1, <1>2, <1>3, <1>4, <1>5 DEF ReviewInv, Kept

\* A proposal is generated once, before any other command.
LEMMA GenerateKeeps ==
    ASSUME AdaptiveAssumption, ReviewInv, NEW p \in Reviewers, Generate(p)
    PROVE  Kept
  <1> USE DEF Generate, ReviewInv
  <1>1. ReviewTypeOK'
    <2>1. commands' \in 0..MaxCommands
      <3>1. commands < MaxCommands /\ commands' = commands + 1
        OBVIOUS
      <3>0. commands \in 0..MaxCommands /\ MaxCommands \in Nat
        BY DEF AdaptiveAssumption, ReviewTypeOK
      <3> HIDE DEF Generate, ReviewInv
      <3>2. QED
        BY <3>0, <3>1
    <2>2. QED
      BY <2>1 DEF ReviewTypeOK, Statuses
  <1>2. Ownership' /\ OutputIsNotReplaced
    BY DEF Ownership, Holds, OutputIsNotReplaced
  <1>3. RecordsFirst' /\ StatusHasRecord'
    BY DEF RecordsFirst, StatusHasRecord
  <1>4. Idle.at = "idle"
    BY DEF Idle
  <1>5. Serially'
    BY <1>4 DEF Serially, Alone, StatusIsStillTheOne
  <1>6. DeliveredIsComplete' /\ DecidedOnce
    BY DEF DeliveredIsComplete, DecidedOnce
  <1>7. QED
    BY <1>1, <1>2, <1>3, <1>5, <1>6 DEF Kept

\* The commands that only read, and those that die.
LEMMA ReadingKeeps ==
    ASSUME AdaptiveAssumption, ReviewInv, NEW p \in Reviewers,
           \/ \E o \in Outputs : AcceptOutdated(p, o) \/ AcceptRead(p, o)
           \/ RejectRead(p) \/ EvaluateLoad(p) \/ RecordLoad(p) \/ Die(p)
    PROVE  Kept
  <1>1. ASSUME NEW o \in Outputs, AcceptOutdated(p, o) PROVE Kept
    <2>1. MovesTo(p, "mark stale", o)
      BY <1>1, BeginMoves DEF AcceptOutdated, Places
    <2>2. QED
      BY <1>1, <2>1, NothingWritten DEF AcceptOutdated
  <1>2. ASSUME NEW o \in Outputs, AcceptRead(p, o) PROVE Kept
    <2>1. MovesTo(p, "create", o)
      BY <1>2, BeginMoves DEF AcceptRead, Places
    <2>2. QED
      BY <1>2, <2>1, NothingWritten DEF AcceptRead
  <1>3. CASE RejectRead(p)
    <2>1. MovesTo(p, "decide", "none")
      BY <1>3, BeginMoves DEF RejectRead, Places
    <2>2. QED
      BY <1>3, <2>1, NothingWritten DEF RejectRead
  <1>4. CASE EvaluateLoad(p)
    <2>1. MovesTo(p, "evaluated", "none")
      BY <1>4, BeginMoves DEF EvaluateLoad, Places
    <2>2. QED
      BY <1>4, <2>1, NothingWritten DEF EvaluateLoad
  <1>5. CASE RecordLoad(p)
    <2>1. proc[p].at = "evaluated" /\ proc[p] # Idle
      <3>1. Idle.at = "idle"
        BY DEF Idle
      <3>2. QED
        BY <1>5, <3>1 DEF RecordLoad
    <2>2. CASE status \in {"accepted", "measured"}
      <3>1. MovesTo(p, "record", proc[p].to)
        BY <1>5, <2>1, <2>2, GotoMoves DEF RecordLoad, Places
      <3>2. QED
        BY <1>5, <2>2, <3>1, NothingWritten DEF RecordLoad
    <2>3. CASE status \notin {"accepted", "measured"}
      <3>1. MovesTo(p, "idle", "none")
        BY <1>5, <2>1, <2>3, EndMoves DEF RecordLoad
      <3>2. QED
        BY <1>5, <3>1, NothingWritten DEF RecordLoad
    <2>4. QED
      BY <2>2, <2>3
  <1>6. CASE Die(p)
    <2>1. MovesTo(p, "idle", "none")
      BY <1>6, EndMoves DEF Die
    <2>2. QED
      BY <1>6, <2>1, NothingWritten DEF Die
  <1>7. QED
    BY <1>1, <1>2, <1>3, <1>4, <1>5, <1>6

\* The commands that write a status or a record.
LEMMA WritingKeeps ==
    ASSUME ReviewInv, NEW p \in Reviewers,
           MarkStale(p) \/ RejectDecision(p) \/ RejectStatus(p) \/ RecordOutcome(p) \/ RecordStatus(p)
    PROVE  Kept
  <1>0. Idle.at = "idle"
    BY DEF Idle
  <1>1. CASE MarkStale(p)
    <2>1. MovesTo(p, "idle", "none")
      BY <1>0, <1>1, EndMoves DEF MarkStale
    <2>2. CASE status' = status
      BY <1>1, <2>1, <2>2, NothingWritten DEF MarkStale
    <2>3. CASE status' = "stale"
      <3>1. DecidedOnce
        BY <1>1, <2>3 DEF MarkStale, DecidedOnce, ReviewInv, ReviewTypeOK, Statuses, Serially, StatusIsStillTheOne
      <3>2. decision' \in BOOLEAN /\ evaluation' \in BOOLEAN /\ status' \in Statuses
        BY <1>1, <2>3 DEF MarkStale, ReviewInv, ReviewTypeOK, Statuses
      <3>3. QED
        BY <1>1, <2>1, <2>3, <3>1, <3>2, StatusWritten DEF MarkStale
    <2>4. QED
      BY <1>1, <2>2, <2>3 DEF MarkStale
  <1>2. CASE RejectDecision(p)
    <2>1. CASE End(p) /\ decision' = decision
      <3>1. MovesTo(p, "idle", "none")
        BY <1>0, <1>2, <2>1, EndMoves DEF RejectDecision
      <3>2. QED
        BY <1>2, <2>1, <3>1, NothingWritten DEF RejectDecision
    <2>2. CASE Goto(p, "reject") /\ decision' = TRUE
      <3>1. MovesTo(p, "reject", proc[p].to)
        BY <1>2, <2>2, GotoMoves DEF RejectDecision, Places
      <3>2. status \in Statuses \union {"absent"} /\ status' = status /\ evaluation' \in BOOLEAN /\ (serial => status = "proposed")
        BY <1>2 DEF RejectDecision, ReviewInv, ReviewTypeOK, Serially, StatusIsStillTheOne
      <3>3. decision' \in BOOLEAN /\ evaluation' \in BOOLEAN /\ status' \in Statuses \union {"absent"} /\ DecidedOnce
        BY <1>2, <2>2 DEF RejectDecision, ReviewInv, ReviewTypeOK, DecidedOnce
      <3>4. QED
        BY <1>2, <2>2, <3>1, <3>2, <3>3, StatusWritten DEF RejectDecision
    <2>3. QED
      BY <1>2, <2>1, <2>2 DEF RejectDecision
  <1>3. CASE RejectStatus(p)
    <2>1. MovesTo(p, "idle", "none")
      BY <1>0, <1>3, EndMoves DEF RejectStatus
    <2>2. CASE status' = status
      BY <1>3, <2>1, <2>2, NothingWritten DEF RejectStatus
    <2>3. CASE status' = "rejected"
      <3>1. DecidedOnce
        BY <1>3, <2>3 DEF RejectStatus, DecidedOnce, ReviewInv, Serially, StatusIsStillTheOne
      <3>2. decision' \in BOOLEAN /\ evaluation' \in BOOLEAN /\ status' \in Statuses /\ decision' /\ (decision => decision')
        BY <1>3, <2>3 DEF RejectStatus, ReviewInv, ReviewTypeOK, Statuses, RecordsFirst
      <3>3. QED
        BY <1>3, <2>1, <2>3, <3>1, <3>2, StatusWritten DEF RejectStatus
    <2>4. QED
      BY <1>3, <2>2, <2>3 DEF RejectStatus
  <1>4. CASE RecordOutcome(p)
    <2>1. CASE End(p) /\ evaluation' = evaluation
      <3>1. MovesTo(p, "idle", "none")
        BY <1>0, <1>4, <2>1, EndMoves DEF RecordOutcome
      <3>2. QED
        BY <1>4, <2>1, <3>1, NothingWritten DEF RecordOutcome
    <2>2. CASE Goto(p, "measure") /\ evaluation' = TRUE
      <3>1. MovesTo(p, "measure", proc[p].to)
        BY <1>4, <2>2, GotoMoves DEF RecordOutcome, Places
      <3>2. status' = status /\ decision' = decision /\ (serial => status \in {"accepted", "measured"})
        BY <1>4 DEF RecordOutcome, ReviewInv, Serially, StatusIsStillTheOne
      <3>3. decision' \in BOOLEAN /\ evaluation' \in BOOLEAN /\ status' \in Statuses \union {"absent"} /\ DecidedOnce
        BY <1>4, <2>2 DEF RecordOutcome, ReviewInv, ReviewTypeOK, DecidedOnce
      <3>4. QED
        BY <1>4, <2>2, <3>1, <3>2, <3>3, StatusWritten DEF RecordOutcome
    <2>3. QED
      BY <1>4, <2>1, <2>2 DEF RecordOutcome
  <1>5. CASE RecordStatus(p)
    <2>1. MovesTo(p, "idle", "none")
      BY <1>0, <1>5, EndMoves DEF RecordStatus
    <2>2. CASE status' = status
      BY <1>5, <2>1, <2>2, NothingWritten DEF RecordStatus
    <2>3. CASE status' = "measured"
      <3>1. DecidedOnce /\ (serial => status \in {"accepted", "measured"})
        BY <1>5, <2>3 DEF RecordStatus, DecidedOnce, ReviewInv, Serially, StatusIsStillTheOne
      <3>2. decision' \in BOOLEAN /\ evaluation' \in BOOLEAN /\ status' \in Statuses /\ evaluation' /\ (evaluation => evaluation')
        BY <1>5, <2>3 DEF RecordStatus, ReviewInv, ReviewTypeOK, Statuses, RecordsFirst
      <3>3. QED
        BY <1>5, <2>1, <2>3, <3>1, <3>2, StatusWritten DEF RecordStatus
    <2>4. QED
      BY <1>5, <2>2, <2>3 DEF RecordStatus
  <1>6. QED
    BY <1>1, <1>2, <1>3, <1>4, <1>5

\* The creation is exclusive: whoever finds no file owns the one it creates, and
\* only the owner completes it, reports it or takes it away.
LEMMA DeliveringKeeps ==
    ASSUME AdaptiveAssumption, ReviewInv, NEW p \in Reviewers,
           AcceptCreate(p) \/ AcceptContent(p) \/ AcceptDelivery(p) \/ AcceptStatus(p)
    PROVE  Kept
  <1> DEFINE o == proc[p].to
  <1>0. /\ o \in Outputs /\ (serial => status = "proposed") /\ proc[p] # Idle /\ proc[p].at # "idle"
        /\ output \in [Outputs -> {"absent", "partial", "complete"}]
        /\ serial' = serial /\ current' = current /\ decision' = decision /\ evaluation' = evaluation
    <2>1. Idle.at = "idle"
      BY DEF Idle
    <2>2. o \in Outputs /\ (serial => status = "proposed") /\ proc[p] # Idle /\ proc[p].at # "idle"
      BY <2>1 DEF AcceptCreate, AcceptContent, AcceptDelivery, AcceptStatus, ReviewInv, Ownership, Serially, StatusIsStillTheOne
    <2>3. QED
      BY <2>2 DEF AcceptCreate, AcceptContent, AcceptDelivery, AcceptStatus, ReviewInv, ReviewTypeOK
  <1> HIDE DEF o
  <1>1. ASSUME UNCHANGED status, NEW at \in {"idle", "content", "deliver", "accept"}, NEW to, MovesTo(p, at, to),
               delivery' \in Outputs \union {"none"}, output' \in [Outputs -> {"absent", "partial", "complete"}],
               \A other \in Outputs : other # o => output'[other] = output[other],
               at # "idle" => to = o, at = "accept" => delivery' = o,
               at = "content" => output[o] = "absent" /\ output'[o] = "partial",
               at \in {"deliver", "accept"} => output'[o] = "complete" /\ Holds(p, o),
               at = "idle" => output' = output \/ (Holds(p, o) /\ output'[o] = "absent"),
               output'[o] # "complete" /\ output[o] = "complete" =>
                   output'[o] = "absent" /\ Holds(p, o) /\ proc[p].at # "content"
        PROVE  Kept
    <2>1. ReviewTypeOK'
      BY <1>0, <1>1 DEF ReviewInv, ReviewTypeOK, MovesTo, Places
    <2>2. \A q \in Reviewers : q # p => \A other \in Outputs : Holds(q, other)' <=> Holds(q, other)
      BY <1>1 DEF MovesTo, Holds
    <2>3. \A other \in Outputs : Holds(p, other)' => other = o
      BY <1>1 DEF MovesTo, Holds
    <2>4. \A q \in Reviewers : q # p /\ Holds(q, o) => output' = output /\ at = "idle"
      BY <1>0, <1>1 DEF ReviewInv, Ownership, Holds
    <2>5. Ownership'
      <3>1. \A q \in Reviewers : proc'[q].at \in {"create", "content", "deliver", "accept"} => proc'[q].to \in Outputs
        BY <1>0, <1>1 DEF MovesTo, ReviewInv, Ownership
      <3>2. \A q \in Reviewers : proc'[q].at = "content" => output'[proc'[q].to] = "partial"
        BY <1>0, <1>1, <2>4 DEF MovesTo, ReviewInv, Ownership, Holds
      <3>3. \A q \in Reviewers : proc'[q].at \in {"deliver", "accept"} => output'[proc'[q].to] = "complete"
        BY <1>0, <1>1, <2>4 DEF MovesTo, ReviewInv, Ownership, Holds
      <3>4. \A q, r \in Reviewers, other \in Outputs : Holds(q, other)' /\ Holds(r, other)' => q = r
        <4>1. \A other \in Outputs : Holds(p, other)' => at # "idle"
          BY <1>1 DEF MovesTo, Holds
        <4>2. ASSUME NEW q \in Reviewers, NEW other \in Outputs, q # p, Holds(q, other)', Holds(p, other)' PROVE FALSE
          BY <1>0, <2>2, <2>3, <2>4, <4>1, <4>2
        <4>3. \A q, r \in Reviewers, other \in Outputs : Holds(q, other) /\ Holds(r, other) => q = r
          BY DEF ReviewInv, Ownership
        <4>4. ASSUME NEW q \in Reviewers, NEW r \in Reviewers, NEW other \in Outputs, Holds(q, other)', Holds(r, other)', q # r
              PROVE  FALSE
          <5>1. q # p /\ r # p
            BY <4>2, <4>4
          <5>2. QED
            BY <2>2, <4>3, <4>4, <5>1
        <4>5. QED
          BY <4>4
      <3>5. QED
        BY <3>1, <3>2, <3>3, <3>4 DEF Ownership, Holds
    <2>6. OutputIsNotReplaced
      BY <1>0, <1>1 DEF ReviewInv, Ownership, Holds, OutputIsNotReplaced
    <2>7. RecordsFirst' /\ StatusHasRecord'
      BY <1>0, <1>1, RecordsStay DEF ReviewInv, StatusHasRecord
    <2>8. Serially'
      BY <1>0, <1>1, StatusStays
    <2>9. DeliveredIsComplete' /\ DecidedOnce
      BY <1>0, <1>1 DEF DeliveredIsComplete, DecidedOnce
    <2>10. QED
      BY <2>1, <2>5, <2>6, <2>7, <2>8, <2>9 DEF Kept, ReviewInv
  <1>2. ASSUME End(p) PROVE MovesTo(p, "idle", "none")
    BY <1>0, <1>2, EndMoves
  <1>3. ASSUME NEW at \in Places, Goto(p, at) PROVE MovesTo(p, at, o)
    BY <1>0, <1>3, GotoMoves DEF o
  <1>4. delivery \in Outputs \union {"none"} /\ "none" \in Outputs \union {"none"}
    BY DEF ReviewInv, ReviewTypeOK
  <1>5. CASE AcceptCreate(p)
    <2>1. CASE output[o] = "absent"
      <3>1. output' = [output EXCEPT ![o] = "partial"] /\ MovesTo(p, "content", o)
        BY <1>3, <1>5, <2>1 DEF AcceptCreate, Places, o
      <3>2. QED
        BY <1>0, <1>1, <1>4, <1>5, <2>1, <3>1 DEF AcceptCreate
    <2>2. CASE output[o] # "absent"
      <3>1. output' = output /\ MovesTo(p, "idle", "none")
        BY <1>2, <1>5, <2>2 DEF AcceptCreate, o
      <3>2. QED
        BY <1>0, <1>1, <1>4, <1>5, <3>1 DEF AcceptCreate
    <2>3. QED
      BY <2>1, <2>2
  <1>6. CASE AcceptContent(p)
    <2>1. Holds(p, o) /\ output[o] = "partial"
      BY <1>6 DEF AcceptContent, Holds, ReviewInv, Ownership, o
    <2>2. CASE output' = [output EXCEPT ![o] = "complete"] /\ Goto(p, "deliver")
      <3>1. MovesTo(p, "deliver", o)
        BY <1>3, <2>2 DEF Places
      <3>2. QED
        BY <1>0, <1>1, <1>4, <1>6, <2>1, <2>2, <3>1 DEF AcceptContent
    <2>3. CASE output' = [output EXCEPT ![o] = "absent"] /\ End(p)
      <3>1. MovesTo(p, "idle", "none")
        BY <1>2, <2>3
      <3>2. QED
        BY <1>0, <1>1, <1>4, <1>6, <2>1, <2>3, <3>1 DEF AcceptContent
    <2>4. QED
      BY <1>6, <2>2, <2>3 DEF AcceptContent, o
  <1>7. ASSUME Undo(p), proc[p].at \in {"deliver", "accept"}, UNCHANGED status PROVE Kept
    <2>1. Holds(p, o)
      BY <1>7 DEF Holds, o
    <2>2. output' = [output EXCEPT ![o] = "absent"] /\ delivery' = "none" /\ MovesTo(p, "idle", "none")
      BY <1>2, <1>7 DEF Undo, o
    <2>3. QED
      BY <1>0, <1>1, <1>4, <1>7, <2>1, <2>2
  <1>8. CASE AcceptDelivery(p)
    <2>1. Holds(p, o) /\ output[o] = "complete"
      BY <1>8 DEF AcceptDelivery, Holds, ReviewInv, Ownership, o
    <2>2. CASE delivery' = o /\ Goto(p, "accept") /\ output' = output
      <3>1. MovesTo(p, "accept", o)
        BY <1>3, <2>2 DEF Places
      <3>2. QED
        BY <1>0, <1>1, <1>4, <1>8, <2>1, <2>2, <3>1 DEF AcceptDelivery
    <2>3. QED
      BY <1>7, <1>8, <2>2 DEF AcceptDelivery, o
  <1>9. CASE AcceptStatus(p)
    <2>1. CASE status' = "accepted" /\ End(p) /\ UNCHANGED <<delivery, output>>
      <3>1. MovesTo(p, "idle", "none")
        BY <1>2, <2>1
      <3>2. ReviewTypeOK'
        BY <1>0, <2>1, <3>1 DEF ReviewInv, ReviewTypeOK, MovesTo, Places, Statuses
      <3>3. Ownership' /\ OutputIsNotReplaced
        BY <2>1, <3>1, OthersKeepTheirFiles
      <3>4. RecordsFirst' /\ StatusHasRecord'
        BY <1>0, <2>1, <3>1, RecordsStay
      <3>5. Serially'
        BY <3>1, StatusStays
      <3>6. DeliveredIsComplete'
        <4>1. output[o] = "complete" /\ (serial => delivery = o)
          BY <1>9 DEF AcceptStatus, ReviewInv, Serially, StatusIsStillTheOne, Ownership, o
        <4>2. o # "none"
          BY <1>0 DEF AdaptiveAssumption
        <4>3. QED
          BY <1>0, <2>1, <4>1, <4>2 DEF DeliveredIsComplete
      <3>7. DecidedOnce
        BY <1>0, <2>1 DEF DecidedOnce
      <3>8. QED
        BY <3>2, <3>3, <3>4, <3>5, <3>6, <3>7 DEF Kept, ReviewInv
    <2>2. QED
      BY <1>7, <1>9, <2>1 DEF AcceptStatus
  <1>10. QED
    BY <1>5, <1>6, <1>8, <1>9

\* Nothing is on disk and nobody is at work.
LEMMA ReviewStarts == AdaptiveAssumption /\ ReviewInit => ReviewInv
  <1> SUFFICES ASSUME AdaptiveAssumption, ReviewInit PROVE ReviewInv
    OBVIOUS
  <1>1. \A p \in Reviewers : proc[p] = Idle /\ proc[p].at = "idle"
    BY DEF ReviewInit, Idle
  <1>2. ReviewTypeOK
    <2>1. commands \in 0..MaxCommands
      BY DEF AdaptiveAssumption, ReviewInit
    <2>2. proc \in [Reviewers -> [at : {"idle", "mark stale", "create", "content", "deliver", "accept", "decide",
                                      "reject", "evaluated", "record", "measure"},
                                to : Outputs \union {"none"}]]
      BY DEF ReviewInit, Idle
    <2>3. QED
      BY <2>1, <2>2 DEF ReviewInit, ReviewTypeOK
  <1>3. Ownership /\ RecordsFirst /\ Serially
    BY <1>1 DEF Ownership, Holds, RecordsFirst, Serially, Alone, StatusIsStillTheOne
  <1>4. QED
    BY <1>2, <1>3 DEF ReviewInit, ReviewInv, StatusHasRecord, DeliveredIsComplete

\* Every step of every command keeps the invariant, and is a decision that may
\* be taken and takes no delivered file away from anybody else.
LEMMA ReviewSteps == AdaptiveAssumption /\ ReviewInv /\ [ReviewNext]_wvars => Kept
  <1> SUFFICES ASSUME AdaptiveAssumption, ReviewInv, [ReviewNext]_wvars PROVE Kept
    OBVIOUS
  <1>1. CASE SourcesMove
    BY <1>1 DEF SourcesMove, ReviewInv, ReviewTypeOK, Ownership, Holds, RecordsFirst, StatusHasRecord, Serially, Alone,
                StatusIsStillTheOne, DeliveredIsComplete, DecidedOnce, OutputIsNotReplaced, Kept
  <1>2. CASE UNCHANGED wvars
    BY <1>2 DEF wvars, ReviewInv, ReviewTypeOK, Ownership, Holds, RecordsFirst, StatusHasRecord, Serially, Alone,
                StatusIsStillTheOne, DeliveredIsComplete, DecidedOnce, OutputIsNotReplaced, Kept
  <1>3. ASSUME NEW p \in Reviewers, RejectRead(p) \/ EvaluateLoad(p) \/ RecordLoad(p) \/ Die(p) PROVE Kept
    BY <1>3, ReadingKeeps
  <1>4. QED
    BY <1>1, <1>2, <1>3, GenerateKeeps, ReadingKeeps, WritingKeeps, DeliveringKeeps DEF ReviewNext

\* However commands overlap, fail or die, a rejected proposal has its reason and
\* a measured one its evaluation on disk; while they do not overlap, what was
\* accepted is delivered and complete.
THEOREM StatusIsOnRecord == AdaptiveAssumption => (ReviewSpec => [](ReviewTypeOK /\ StatusHasRecord /\ DeliveredIsComplete))
  <1> SUFFICES ASSUME AdaptiveAssumption PROVE ReviewSpec => [](ReviewTypeOK /\ StatusHasRecord /\ DeliveredIsComplete)
    OBVIOUS
  <1>1. ReviewInit => ReviewInv
    BY ReviewStarts
  <1>2. ReviewInv /\ [ReviewNext]_wvars => ReviewInv'
    BY ReviewSteps DEF Kept
  <1>3. ReviewInv => ReviewTypeOK /\ StatusHasRecord /\ DeliveredIsComplete
    BY DEF ReviewInv
  <1>4. QED
    BY <1>1, <1>2, <1>3, PTL DEF ReviewSpec

\* A proposal is decided once while commands do not overlap, and however they
\* overlap, nobody but the command that created it takes a schema away.
THEOREM ProposalsAreDecidedOnce == AdaptiveAssumption => (ReviewSpec => [][DecidedOnce /\ OutputIsNotReplaced]_wvars)
  <1> SUFFICES ASSUME AdaptiveAssumption PROVE ReviewSpec => [][DecidedOnce /\ OutputIsNotReplaced]_wvars
    OBVIOUS
  <1>1. ReviewInit => ReviewInv
    BY ReviewStarts
  <1>2. ReviewInv /\ [ReviewNext]_wvars => ReviewInv' /\ [DecidedOnce /\ OutputIsNotReplaced]_wvars
    BY ReviewSteps DEF Kept
  <1>3. QED
    BY <1>1, <1>2, PTL DEF ReviewSpec

(***************************************************************************)
(* The certification gate: SemanticGate, for every set of models, of calls and of*)
(* policies.                                                               *)
(***************************************************************************)
\* The states of the calls: a query that passed the second check reads models
\* that were good at it.
CallState == [pc : {"none", "checked", "compiled", "ready", "done", "denied", "failed"}, op : Ops,
              plan : SUBSET Models, override : Overrides, good : SUBSET Models]
\* A call may go to any state that has a plan unless it is new, and whose plan
\* is good if it is a query that enforcement lets through.
Sound(state) ==
    /\ state \in CallState
    /\ state.plan = {} <=> state.pc = "none"
    /\ state.op = "query" /\ state.pc \in {"ready", "done"} /\ ~state.override.given
           /\ mode \in {"enforce", "supervised"} => state.plan \subseteq state.good
CallsAreSound == call \in [Calls -> CallState] /\ \A c \in Calls : Sound(call[c])
GateInv ==
    /\ mode \in Modes /\ now \in 0..MaxTime /\ cache \subseteq Models
    /\ \A v \in views : v.op \in Ops \ {"query"} /\ v.reads \in (SUBSET Models) \ {{}}
    /\ CallsAreSound

\* Under enforcement, what is not refused and needs no override has no reason
\* against any dataset it covers.
LEMMA AllowedIsGood ==
    ASSUME NEW deps, NEW override, ~override.given, mode \in {"enforce", "supervised"},
           ~Refuses(deps, override)
    PROVE  /\ Gate(deps, override) = [decision |-> "ALLOW", reasons |-> {}]
           /\ \A m \in deps : Good(m)
  <1> DEFINE unmet == UNION {A!_reason_for(v, now) : v \in {_get_certification(m) : m \in deps}}
  <1>1. unmet = {}
    BY DEF Refuses, Gate, A!evaluate
  <1>2. Gate(deps, override) = [decision |-> "ALLOW", reasons |-> {}]
    BY <1>1 DEF Gate, A!evaluate
  <1>3. ASSUME NEW m \in deps PROVE Good(m)
    BY <1>1 DEF Good
  <1>4. QED
    BY <1>2, <1>3

\* Nothing has been asked yet.
LEMMA GateStarts == GateAssumption /\ GateInit => GateInv
  <1> SUFFICES ASSUME GateAssumption, GateInit PROVE GateInv
    OBVIOUS
  <1>1. NoCall \in CallState
    BY DEF NoCall, CallState, Overrides, Ops
  <1>2. Sound(NoCall)
    BY <1>1 DEF Sound, NoCall
  <1>3. CallsAreSound
    BY <1>1, <1>2 DEF GateInit, CallsAreSound
  <1>4. \A v \in views : v.op \in Ops \ {"query"} /\ v.reads \in (SUBSET Models) \ {{}}
    BY DEF GateAssumption, GateInit, Ops
  <1>5. QED
    BY <1>3, <1>4 DEF GateAssumption, GateInit, GateInv

\* A step that takes one call to a sound state leaves every call sound.
LEMMA CallMoves ==
    ASSUME CallsAreSound, UNCHANGED mode, NEW c \in Calls, NEW state, Sound(state),
           call' = [call EXCEPT ![c] = state]
    PROVE  CallsAreSound'
  BY DEF CallsAreSound, Sound

\* Every step of a call, of a publication, of the clock and of a reload keeps
\* the invariant: the second check of a query refuses unless the models that
\* are loaded are good, and fails unless those are all the models of the plan.
LEMMA GateStep == GateAssumption /\ GateInv /\ [GateNext]_gateVars => GateInv'
  <1> SUFFICES ASSUME GateAssumption, GateInv, [GateNext]_gateVars PROVE GateInv'
    OBVIOUS
  <1> USE DEF GateAssumption, GateInv
  <1>1. ASSUME NEW c \in Calls, Preflight(c) PROVE GateInv'
    <2>1. PICK op \in {"query", "view"}, plan \in {p \in SUBSET Models : Root \in p}, override \in Overrides :
             call' = [call EXCEPT ![c] = [NoCall EXCEPT !.op = op, !.plan = plan, !.override = override,
                                             !.pc = IF Refuses({Root}, override) THEN "denied" ELSE "checked"]]
      BY <1>1 DEF Preflight
    <2> DEFINE pc == IF Refuses({Root}, override) THEN "denied" ELSE "checked"
    <2>2. call' = [call EXCEPT ![c] = [NoCall EXCEPT !.op = op, !.plan = plan, !.override = override, !.pc = pc]]
      BY <2>1
    <2>3. pc \in {"denied", "checked"}
      OBVIOUS
    <2> HIDE DEF pc
    <2>4. NoCall \in CallState
      BY DEF NoCall, CallState, Overrides, Ops
    <2>5. Sound([NoCall EXCEPT !.op = op, !.plan = plan, !.override = override, !.pc = pc])
      BY <2>3, <2>4 DEF CallState, Ops, Sound
    <2>6. CallsAreSound'
      BY <1>1, <2>2, <2>5, CallMoves DEF Preflight
    <2>7. QED
      BY <1>1, <2>6 DEF Preflight
  <1>2. ASSUME NEW c \in Calls, PreflightMetricView(c) PROVE GateInv'
    <2> DEFINE good == {n \in Models : Good(n)}
    <2>1. PICK m \in Models, pc \in {"denied", "checked"} :
             /\ call' = [call EXCEPT ![c] = [pc |-> pc, op |-> "metric_view", plan |-> {m},
                                             override |-> A!NoOverride, good |-> good]]
             /\ views' \subseteq views
             /\ cache' = cache \union {m}
      BY <1>2 DEF PreflightMetricView, NoCall
    <2>2. good \in SUBSET Models
      OBVIOUS
    <2> HIDE DEF good
    <2>3. Sound([pc |-> pc, op |-> "metric_view", plan |-> {m}, override |-> A!NoOverride, good |-> good])
      BY <2>2 DEF CallState, Ops, Overrides, Sound
    <2>4. CallsAreSound'
      BY <1>2, <2>1, <2>3, CallMoves DEF PreflightMetricView
    <2>5. QED
      BY <1>2, <2>1, <2>4 DEF PreflightMetricView
  <1>3. ASSUME NEW c \in Calls, Compile(c) PROVE GateInv'
    <2>1. call[c] \in CallState /\ Sound(call[c])
      BY DEF CallsAreSound
    <2>2. PICK pc \in {"ready", "compiled", "failed"} :
             call' = [call EXCEPT ![c].pc = pc] /\ (pc = "ready" => call[c].op = "metric_view")
      BY <1>3 DEF Compile, Proceed
    <2>3. cache' \subseteq Models
      BY <1>3, <2>1 DEF Compile, CallState
    <2>4. Sound([call[c] EXCEPT !.pc = pc])
      BY <1>3, <2>1, <2>2 DEF Compile, CallState, Sound
    <2>5. CallsAreSound'
      BY <1>3, <2>2, <2>4, CallMoves DEF Compile
    <2>6. QED
      BY <1>3, <2>3, <2>5 DEF Compile
  <1>4. ASSUME NEW c \in Calls, RecheckQuery(c) PROVE GateInv'
    <2> DEFINE deps == IF mode = "off" THEN {Root} ELSE _plan_dependencies(c)
               good == {m \in Models : Good(m)}
    <2>1. call[c] \in CallState /\ Sound(call[c])
      BY DEF CallsAreSound
    <2>2. PICK pc \in {"denied", "failed", "ready"} :
             /\ call' = [call EXCEPT ![c].pc = pc, ![c].good = good]
             /\ pc = "ready" => ~Refuses(deps, call[c].override) /\ ~SnapshotMissing(c, deps)
      BY <1>4 DEF RecheckQuery
    <2>3. ASSUME pc = "ready", ~call[c].override.given, mode \in {"enforce", "supervised"}
          PROVE  call[c].plan \subseteq good
      <3>1. /\ Gate(deps, call[c].override) = [decision |-> "ALLOW", reasons |-> {}]
            /\ \A m \in deps : Good(m)
        BY <2>2, <2>3, AllowedIsGood
      <3>2. call[c].plan \subseteq deps
        BY <2>2, <2>3, <3>1 DEF SnapshotMissing
      <3>3. QED
        BY <2>1, <3>1, <3>2 DEF CallState
    <2>4. good \in SUBSET Models
      OBVIOUS
    <2> HIDE DEF good, deps
    <2>5. Sound([call[c] EXCEPT !.pc = pc, !.good = good])
      BY <1>4, <2>1, <2>3, <2>4 DEF RecheckQuery, CallState, Sound
    <2>6. call' = [call EXCEPT ![c] = [call[c] EXCEPT !.pc = pc, !.good = good]]
      BY <2>2 DEF CallsAreSound
    <2>7. CallsAreSound'
      BY <1>4, <2>5, <2>6, CallMoves DEF RecheckQuery
    <2>8. QED
      BY <1>4, <2>7 DEF RecheckQuery
  <1>5. ASSUME NEW c \in Calls, RecheckView(c) PROVE GateInv'
    <2> DEFINE good == {m \in Models : Good(m)}
    <2>1. call[c] \in CallState /\ Sound(call[c])
      BY DEF CallsAreSound
    <2>2. PICK pc \in {"denied", "ready"} : call' = [call EXCEPT ![c].pc = pc, ![c].good = good]
      BY <1>5 DEF RecheckView
    <2>3. good \in SUBSET Models
      OBVIOUS
    <2> HIDE DEF good
    <2>4. Sound([call[c] EXCEPT !.pc = pc, !.good = good])
      BY <1>5, <2>1, <2>3 DEF RecheckView, CallState, Sound
    <2>5. call' = [call EXCEPT ![c] = [call[c] EXCEPT !.pc = pc, !.good = good]]
      BY <2>2 DEF CallsAreSound
    <2>6. CallsAreSound'
      BY <1>5, <2>4, <2>5, CallMoves DEF RecheckView
    <2>7. QED
      BY <1>5, <2>6 DEF RecheckView
  <1>6. ASSUME NEW c \in Calls, Execute(c) PROVE GateInv'
    <2>1. call[c] \in CallState /\ Sound(call[c])
      BY DEF CallsAreSound
    <2>2. PICK pc \in {"done", "failed"} : call' = [call EXCEPT ![c].pc = pc]
      BY <1>6 DEF Execute, Proceed
    <2>3. View(c).op = call[c].op /\ View(c).reads = call[c].plan
      BY DEF View
    <2>4. \A v \in views' : v.op \in Ops \ {"query"} /\ v.reads \in (SUBSET Models) \ {{}}
      BY <1>6, <2>1, <2>3 DEF Execute, CallState, Sound
    <2>5. Sound([call[c] EXCEPT !.pc = pc])
      BY <1>6, <2>1, <2>2 DEF Execute, CallState, Sound
    <2>6. CallsAreSound'
      BY <1>6, <2>2, <2>5, CallMoves DEF Execute
    <2>7. QED
      BY <1>6, <2>4, <2>6 DEF Execute
  <1>7. ASSUME NEW d \in Datasets, Publish(d) PROVE GateInv'
    BY <1>7 DEF Publish, CallsAreSound, Sound
  <1>8. CASE reload_catalog
    BY <1>8 DEF reload_catalog, CallsAreSound, Sound
  <1>9. CASE Tick
    BY <1>9 DEF Tick, CallsAreSound, Sound
  <1>10. CASE UNCHANGED gateVars
    BY <1>10 DEF gateVars, CallsAreSound, Sound
  <1>11. QED
    BY <1>1, <1>2, <1>3, <1>4, <1>5, <1>6, <1>7, <1>8, <1>9, <1>10 DEF GateNext

\* Under enforcement a query that ran read only certified, passing and fresh
\* datasets, however many datasets are published or blocked and however often
\* the catalogue is reloaded between its two checks.
THEOREM ReadsAreCertified == GateAssumption => (GateSpec => [](GateTypeOK /\ EnforcedReadIsCertified))
  <1> SUFFICES ASSUME GateAssumption PROVE GateSpec => [](GateTypeOK /\ EnforcedReadIsCertified)
    OBVIOUS
  <1>1. GateInit => GateInv
    BY GateStarts
  <1>2. GateInv /\ [GateNext]_gateVars => GateInv'
    BY GateStep
  <1>3. GateInv => GateTypeOK /\ EnforcedReadIsCertified
    BY DEF GateInv, GateTypeOK, CallState, CallsAreSound, Sound, EnforcedReadIsCertified
  <1>4. QED
    BY <1>1, <1>2, <1>3, PTL DEF GateSpec

(***************************************************************************)
(* The knowledge index: KnowledgeSync, for every set of nodes and of edges and*)
(* whatever outages, as long as the schemas themselves can be listed.      *)
(***************************************************************************)
Origin == {"", "pipeline", "unity_catalog"}
Row == [live : BOOLEAN, known : BOOLEAN, source : Origin, text : 0..2, vector : 0..3]
EdgeRow == [live : BOOLEAN, known : BOOLEAN, source : Origin]
Phase == {"idle", "nodes", "edges", "mark", "mark edges"}
Graph == UNION {[S -> Row] : S \in SUBSET Nodes}
LinkMap == UNION {[S -> EdgeRow] : S \in SUBSET Edges}
SyncState == [phase : Phase, graph : Graph, links : LinkMap, gone : SUBSET Nodes,
          goneEdges : SUBSET Edges, of : SUBSET World]
Job == [on : BOOLEAN, read : UNION {[S -> 1..3] : S \in SUBSET Nodes}]

StateType ==
    /\ world \in World
    /\ nodes \in [Nodes -> Row] /\ edges \in [Edges -> EdgeRow]
    /\ sync \in SyncState /\ embed \in Job
    /\ overlapped \subseteq Nodes /\ synced \in BOOLEAN

\* What is live has a source, in the store and in the batch, and what the batch
\* brings has no vector yet.
LiveHasSource ==
    /\ \A n \in Nodes : nodes[n].live => nodes[n].source # ""
    /\ \A e \in Edges : edges[e].live => edges[e].source # ""
    /\ \A n \in DOMAIN sync.graph : sync.graph[n].live /\ sync.graph[n].source # "" /\ sync.graph[n].vector = 0
    /\ \A e \in DOMAIN sync.links : sync.links[e].live /\ sync.links[e].source # ""

\* What the embedding job read is still the text of the node, unless a batch
\* rewrote it.
ReadIsCurrent == \A n \in DOMAIN embed.read : embed.read[n] = nodes[n].text + 1 \/ n \in overlapped

\* The batch copies what its sources provided and withdraws nothing of it.
BatchIsOfSources ==
    /\ \A w \in sync.of : sync.graph = Provided(w) /\ sync.links = Links(w)
    /\ sync.gone \intersect DOMAIN sync.graph = {}

\* How far a batch that read every source has come.
Full(w) == w.registry /\ w.outage = "none" /\ w.listed # {}
LiveNodes == {n \in Nodes : nodes[n].live}
LiveEdges == {e \in Edges : edges[e].live}
Progress ==
    /\ sync.phase \in {"nodes", "edges", "mark"} => sync.gone = LiveNodes \ DOMAIN sync.graph
    /\ sync.phase # "idle" => sync.goneEdges = LiveEdges \ DOMAIN sync.links
    /\ sync.phase \in {"edges", "mark", "mark edges"} => \A n \in DOMAIN sync.graph : Same(nodes[n], sync.graph[n])
    /\ sync.phase \in {"mark", "mark edges"} =>
           \A e \in DOMAIN sync.links : edges[e].live /\ edges[e].source = sync.links[e].source
    /\ sync.phase = "mark edges" => LiveNodes = DOMAIN sync.graph
FullBatchProgresses == \A w \in sync.of : Full(w) => Progress

Mirrors(w) ==
    /\ LiveNodes = DOMAIN Provided(w)
    /\ \A n \in DOMAIN Provided(w) : Same(nodes[n], Provided(w)[n])
    /\ LiveEdges = DOMAIN Links(w)
    /\ \A e \in DOMAIN Links(w) : edges[e].source = Links(w)[e].source
SyncedMirrors == synced => sync.phase = "idle" /\ (Full(world) => Mirrors(world))

IndexInv ==
    /\ StateType /\ LiveHasSource /\ ReadIsCurrent /\ VectorDescribesNode
    /\ BatchIsOfSources /\ UnreadSourceRemovesNothing /\ FullBatchProgresses /\ SyncedMirrors

\* The sources provide rows that are live, have a source and no vector.
LEMMA ProvidedRows ==
    ASSUME NEW w \in World
    PROVE  /\ Provided(w) \in Graph
           /\ \A n \in DOMAIN Provided(w) : Provided(w)[n].live /\ Provided(w)[n].source # "" /\ Provided(w)[n].vector = 0
           /\ Links(w) \in LinkMap
           /\ \A e \in DOMAIN Links(w) : Links(w)[e].live /\ Links(w)[e].source # ""
  <1>1. \A source \in {"pipeline", "unity_catalog"}, text \in 0..2 :
           /\ Node(source, text) \in Row
           /\ Node(source, text).live /\ Node(source, text).source # "" /\ Node(source, text).vector = 0
    <2>1. NoRow \in Row /\ NoRow.vector = 0
      BY DEF NoRow, Row, Origin
    <2>2. QED
      BY <2>1 DEF Node, Row, Origin
  <1>2. w.text \in 0..2 /\ Owned(w) \subseteq Nodes /\ Answered(w) \subseteq Nodes
    BY DEF World, Owned, Answered
  <1>3. DOMAIN Provided(w) = Owned(w) \union Answered(w) /\ DOMAIN Provided(w) \in SUBSET Nodes
    BY <1>2 DEF Provided
  <1>4. \A n \in DOMAIN Provided(w) : \E source \in {"pipeline", "unity_catalog"}, text \in 0..2 :
           Provided(w)[n] = Node(source, text)
    BY <1>2 DEF Provided
  <1>5. Provided(w) \in [DOMAIN Provided(w) -> Row]
    BY <1>1, <1>4 DEF Provided
  <1>6. \A source \in {"pipeline", "unity_catalog"} :
           Link(source) \in EdgeRow /\ Link(source).live /\ Link(source).source # ""
    BY DEF Link, EdgeRow, Origin
  <1>7. DOMAIN Links(w) = Linked(w) /\ DOMAIN Links(w) \in SUBSET Edges
    BY DEF Links, Linked, Edges
  <1>8. \A e \in DOMAIN Links(w) : \E source \in {"pipeline", "unity_catalog"} : Links(w)[e] = Link(source)
    BY DEF Links
  <1>9. Links(w) \in [DOMAIN Links(w) -> EdgeRow]
    BY <1>6, <1>8 DEF Links
  <1>10. Provided(w) \in Graph
    BY <1>3, <1>5 DEF Graph
  <1>11. Links(w) \in LinkMap
    BY <1>7, <1>9 DEF LinkMap
  <1>12. QED
    BY <1>1, <1>4, <1>6, <1>8, <1>10, <1>11

\* An idle batch has nothing of its own.
LEMMA IdleBatch == IdleSync \in SyncState /\ IdleEmbed \in Job
  <1>1. [n \in {} |-> NoRow] \in [{} -> Row] /\ [n \in {} |-> NoEdge] \in [{} -> EdgeRow]
        /\ [n \in {} |-> 0] \in [{} -> 1..3]
    OBVIOUS
  <1>2. [n \in {} |-> NoRow] \in Graph /\ [n \in {} |-> NoEdge] \in LinkMap
        /\ [n \in {} |-> 0] \in UNION {[S -> 1..3] : S \in SUBSET Nodes}
    BY <1>1 DEF Graph, LinkMap
  <1>3. QED
    BY <1>2 DEF IdleSync, SyncState, Phase, IdleEmbed, Job

\* The index starts empty, with no batch and no job.
LEMMA IndexStarts == KnowledgeAssumption /\ KnowledgeInit => IndexInv
  <1> SUFFICES ASSUME KnowledgeAssumption, KnowledgeInit PROVE IndexInv
    OBVIOUS
  <1>4. world \in World
    BY DEF KnowledgeInit, KnowledgeAssumption, World, Nodes
  <1>5. StateType
    <2>1. NoRow \in Row /\ NoEdge \in EdgeRow
      BY DEF NoRow, Row, NoEdge, EdgeRow, Origin
    <2>2. nodes \in [Nodes -> Row] /\ edges \in [Edges -> EdgeRow]
      BY <2>1 DEF KnowledgeInit
    <2>3. QED
      BY <1>4, <2>2, IdleBatch DEF StateType, KnowledgeInit
  <1>6. LiveHasSource /\ ReadIsCurrent /\ VectorDescribesNode
    BY DEF LiveHasSource, ReadIsCurrent, VectorDescribesNode, KnowledgeInit, IdleSync, IdleEmbed, NoRow, NoEdge
  <1>7. BatchIsOfSources /\ UnreadSourceRemovesNothing /\ FullBatchProgresses /\ SyncedMirrors
    BY DEF BatchIsOfSources, UnreadSourceRemovesNothing, FullBatchProgresses, SyncedMirrors, KnowledgeInit, IdleSync
  <1>8. QED
    BY <1>5, <1>6, <1>7 DEF IndexInv

\* A row whose text, and all that the batch looks at, is as it was.
SameRow(row, old) == row.live = old.live /\ row.source = old.source /\ row.text = old.text

\* A step that writes only vectors, or nothing, to the store and leaves the
\* batch, its sources and the edges alone keeps what is said of the batch.
LEMMA BatchUndisturbed ==
    ASSUME StateType, \A n \in Nodes : SameRow(nodes'[n], nodes[n]), UNCHANGED <<world, edges, sync, synced>>,
           BatchIsOfSources, UnreadSourceRemovesNothing, FullBatchProgresses, SyncedMirrors
    PROVE  /\ BatchIsOfSources' /\ UnreadSourceRemovesNothing' /\ FullBatchProgresses' /\ SyncedMirrors'
  <1>1. LiveNodes' = LiveNodes /\ LiveEdges' = LiveEdges
    BY DEF LiveNodes, LiveEdges, SameRow
  <1>2. DOMAIN sync.graph \subseteq Nodes /\ DOMAIN sync.links \subseteq Edges /\ sync.gone \subseteq Nodes
    BY DEF StateType, SyncState, Graph, LinkMap
  <1>3. DOMAIN Provided(world) \subseteq Nodes
    BY ProvidedRows DEF StateType, Graph
  <1>4. BatchIsOfSources'
    BY DEF BatchIsOfSources
  <1>5. UnreadSourceRemovesNothing'
    BY <1>2 DEF UnreadSourceRemovesNothing, SameRow
  <1>6. Progress => Progress'
    BY <1>1, <1>2 DEF Progress, Same, SameRow
  <1>7. FullBatchProgresses'
    BY <1>6 DEF FullBatchProgresses
  <1>8. Mirrors(world) => Mirrors(world)'
    BY <1>1, <1>3 DEF Mirrors, Same, SameRow
  <1>9. SyncedMirrors'
    BY <1>8 DEF SyncedMirrors
  <1>10. QED
    BY <1>4, <1>5, <1>7, <1>9

\* The sources change: no batch is up to date with them any more.
LEMMA ChangeKeeps == IndexInv /\ Change => IndexInv'
  <1> SUFFICES ASSUME IndexInv, Change PROVE IndexInv'
    OBVIOUS
  <1> USE DEF IndexInv
  <1>1. world' \in World
    BY DEF Change, StateType, World
  <1>2. StateType'
    BY <1>1 DEF Change, StateType
  <1>3. LiveHasSource' /\ ReadIsCurrent' /\ VectorDescribesNode'
    BY DEF Change, LiveHasSource, ReadIsCurrent, VectorDescribesNode
  <1>4. BatchIsOfSources' /\ UnreadSourceRemovesNothing'
    BY DEF Change, BatchIsOfSources, UnreadSourceRemovesNothing
  <1>5. FullBatchProgresses' /\ SyncedMirrors'
    BY DEF Change, FullBatchProgresses, Progress, SyncedMirrors, LiveNodes, LiveEdges
  <1>6. QED
    BY <1>2, <1>3, <1>4, <1>5

\* A batch that could not list the catalogue withdraws nothing that came from
\* it, and one that read every source withdraws all that they do not provide.
LEMMA CollectKeeps == "schemas" \notin Outages /\ IndexInv /\ Collect => IndexInv'
  <1> SUFFICES ASSUME "schemas" \notin Outages, IndexInv, Collect PROVE IndexInv'
    OBVIOUS
  <1> USE DEF IndexInv
  <1> DEFINE gone == {n \in Nodes : nodes[n].live /\ n \notin DOMAIN Provided(world) /\ nodes[n].source \in Consulted /\ n \notin Protected}
             goneEdges == {e \in Edges : /\ edges[e].live /\ e \notin DOMAIN Links(world) /\ edges[e].source \in Consulted
                                         /\ Ends[e] \intersect Protected = {}
                                         /\ ~(e = "lineage" /\ edges[e].source = "unity_catalog" /\ ~lineage_read(world))}
  <1>1. sync' = [phase |-> "nodes", graph |-> Provided(world), links |-> Links(world), gone |-> gone,
                 goneEdges |-> goneEdges, of |-> {world}]
    BY DEF Collect
  <1>2. world \in World
    BY DEF StateType
  <1>3. gone \subseteq Nodes /\ gone \intersect DOMAIN Provided(world) = {} /\ goneEdges \subseteq Edges
    OBVIOUS
  <1>4. ASSUME NEW n \in gone, nodes[n].source = "unity_catalog"
        PROVE  world.outage \notin {"schemas", "tables", "columns"}
    BY <1>2, <1>4 DEF Protected, protected_domains, World
  <1>5. ASSUME Full(world) PROVE gone = LiveNodes \ DOMAIN Provided(world) /\ goneEdges = LiveEdges \ DOMAIN Links(world)
    <2>1. Protected = {}
      BY <1>5 DEF Full, Protected, protected_domains
    <2>2. Consulted = {"pipeline", "unity_catalog"} /\ lineage_read(world)
      BY <1>5 DEF Full, Consulted, lineage_read
    <2>3. \A n \in Nodes : nodes[n].live => nodes[n].source \in Consulted
      BY <2>2 DEF StateType, Row, Origin, LiveHasSource
    <2>4. \A e \in Edges : edges[e].live => edges[e].source \in Consulted
      BY <2>2 DEF StateType, EdgeRow, Origin, LiveHasSource
    <2>5. QED
      BY <2>1, <2>2, <2>3, <2>4 DEF LiveNodes, LiveEdges
  <1> HIDE DEF gone, goneEdges
  <1>6. sync' \in SyncState
    BY <1>1, <1>2, <1>3, ProvidedRows DEF SyncState, Phase
  <1>7. StateType'
    BY <1>6 DEF Collect, StateType
  <1>8. LiveHasSource' /\ ReadIsCurrent' /\ VectorDescribesNode'
    <2>1. LiveHasSource'
      <3>1. sync'.graph = Provided(world) /\ sync'.links = Links(world)
        BY <1>1
      <3>2. \A n \in DOMAIN sync'.graph : sync'.graph[n].live /\ sync'.graph[n].source # "" /\ sync'.graph[n].vector = 0
        BY <1>2, <3>1, ProvidedRows
      <3>3. \A e \in DOMAIN sync'.links : sync'.links[e].live /\ sync'.links[e].source # ""
        BY <1>2, <3>1, ProvidedRows
      <3>4. QED
        BY <3>2, <3>3 DEF Collect, LiveHasSource
    <2>2. QED
      BY <2>1 DEF Collect, ReadIsCurrent, VectorDescribesNode
  <1>9. BatchIsOfSources' /\ UnreadSourceRemovesNothing'
    BY <1>1, <1>3, <1>4 DEF Collect, BatchIsOfSources, UnreadSourceRemovesNothing
  <1>10. Full(world) => Progress'
    BY <1>1, <1>5 DEF Collect, Progress, LiveNodes, LiveEdges
  <1>11. FullBatchProgresses'
    BY <1>1, <1>10 DEF Collect, FullBatchProgresses
  <1>12. SyncedMirrors'
    BY DEF Collect, SyncedMirrors
  <1>13. QED
    BY <1>7, <1>8, <1>9, <1>11, <1>12

\* The rows of the batch replace those that differ, whose vectors go with them.
LEMMA UpsertNodesKeeps == IndexInv /\ upsert_nodes => IndexInv'
  <1> SUFFICES ASSUME IndexInv, upsert_nodes PROVE IndexInv'
    OBVIOUS
  <1> USE DEF IndexInv
  <1> DEFINE old == sync.graph
  <1>1. old \in Graph /\ DOMAIN old \subseteq Nodes /\ \A n \in DOMAIN old : old[n] \in Row
    BY DEF StateType, SyncState, Graph
  <1>2. Rewritten \subseteq DOMAIN old
    BY DEF Rewritten
  <1>3. \A n \in Nodes : nodes'[n] = IF n \in Rewritten THEN old[n] ELSE nodes[n]
    BY DEF upsert_nodes
  <1>4. /\ sync'.phase = "edges" /\ sync'.graph = old /\ sync'.links = sync.links /\ sync'.gone = sync.gone
        /\ sync'.goneEdges = sync.goneEdges /\ sync'.of = sync.of /\ sync' \in SyncState
    BY DEF upsert_nodes, StateType, SyncState, Phase
  <1>5. nodes' \in [Nodes -> Row]
    BY <1>1, <1>2 DEF upsert_nodes, StateType
  <1>6. overlapped' \subseteq Nodes
    BY <1>1, <1>2 DEF upsert_nodes, StateType
  <1>7. StateType'
    BY <1>4, <1>5, <1>6 DEF upsert_nodes, StateType
  <1>8. LiveHasSource'
    BY <1>2, <1>3, <1>4 DEF upsert_nodes, LiveHasSource
  <1>9. ReadIsCurrent'
    <2>1. DOMAIN embed.read \subseteq Nodes
      BY DEF StateType, Job
    <2>2. QED
      BY <1>3, <2>1 DEF upsert_nodes, ReadIsCurrent
  <1>10. VectorDescribesNode'
    <2>1. \A n \in Rewritten : old[n].vector = 0
      BY <1>2 DEF LiveHasSource
    <2>2. QED
      BY <1>3, <2>1 DEF upsert_nodes, VectorDescribesNode
  <1>11. BatchIsOfSources'
    BY <1>4 DEF BatchIsOfSources
  <1>12. UnreadSourceRemovesNothing'
    <2>1. \A n \in sync.gone : nodes'[n] = nodes[n]
      BY <1>2, <1>3 DEF BatchIsOfSources, StateType, SyncState
    <2>2. QED
      BY <1>4, <2>1 DEF UnreadSourceRemovesNothing
  <1>13. Progress => Progress'
    <2> SUFFICES ASSUME Progress PROVE Progress'
      OBVIOUS
    <2>1. \A n \in Rewritten : old[n].live
      BY <1>2 DEF LiveHasSource
    <2>2. \A n \in DOMAIN old : Same(nodes'[n], old[n])
      BY <1>1, <1>3, <2>1 DEF Rewritten, Same
    <2>3. LiveNodes' \ DOMAIN old = LiveNodes \ DOMAIN old
      BY <1>2, <1>3 DEF LiveNodes
    <2>4. LiveEdges' = LiveEdges
      BY DEF upsert_nodes, LiveEdges
    <2>5. sync.phase = "nodes"
      BY DEF upsert_nodes
    <2>6. QED
      BY <1>4, <2>2, <2>3, <2>4, <2>5 DEF Progress
  <1>14. FullBatchProgresses'
    BY <1>4, <1>13 DEF FullBatchProgresses, Full
  <1>15. SyncedMirrors'
    BY DEF upsert_nodes, SyncedMirrors
  <1>16. QED
    BY <1>7, <1>8, <1>9, <1>10, <1>11, <1>12, <1>14, <1>15

\* The edges of the batch replace theirs.
LEMMA UpsertEdgesKeeps == IndexInv /\ upsert_edges => IndexInv'
  <1> SUFFICES ASSUME IndexInv, upsert_edges PROVE IndexInv'
    OBVIOUS
  <1> USE DEF IndexInv
  <1> DEFINE links == sync.links
  <1>1. DOMAIN links \subseteq Edges /\ \A e \in DOMAIN links : links[e] \in EdgeRow
    BY DEF StateType, SyncState, LinkMap
  <1>2. \A e \in Edges : edges'[e] = IF e \in DOMAIN links THEN links[e] ELSE edges[e]
    BY DEF upsert_edges
  <1>3. /\ sync'.phase = "mark" /\ sync'.graph = sync.graph /\ sync'.links = links /\ sync'.gone = sync.gone
        /\ sync'.goneEdges = sync.goneEdges /\ sync'.of = sync.of /\ sync' \in SyncState
    BY DEF upsert_edges, StateType, SyncState, Phase
  <1>4. edges' \in [Edges -> EdgeRow]
    BY <1>1 DEF upsert_edges, StateType
  <1>5. StateType'
    BY <1>3, <1>4 DEF upsert_edges, StateType
  <1>6. LiveHasSource'
    BY <1>2, <1>3 DEF upsert_edges, LiveHasSource
  <1>7. ReadIsCurrent' /\ VectorDescribesNode'
    BY DEF upsert_edges, ReadIsCurrent, VectorDescribesNode
  <1>8. BatchIsOfSources' /\ UnreadSourceRemovesNothing'
    BY <1>3 DEF upsert_edges, BatchIsOfSources, UnreadSourceRemovesNothing
  <1>9. Progress => Progress'
    <2> SUFFICES ASSUME Progress PROVE Progress'
      OBVIOUS
    <2>1. \A e \in DOMAIN links : edges'[e].live /\ edges'[e].source = links[e].source
      BY <1>1, <1>2 DEF LiveHasSource
    <2>2. LiveEdges' \ DOMAIN links = LiveEdges \ DOMAIN links
      BY <1>2 DEF LiveEdges
    <2>3. LiveNodes' = LiveNodes
      BY DEF upsert_edges, LiveNodes
    <2>4. sync.phase = "edges" /\ nodes' = nodes
      BY DEF upsert_edges
    <2>5. QED
      BY <1>3, <2>1, <2>2, <2>3, <2>4 DEF Progress
  <1>10. FullBatchProgresses'
    BY <1>3, <1>9 DEF FullBatchProgresses, Full
  <1>11. SyncedMirrors'
    BY DEF upsert_edges, SyncedMirrors
  <1>12. QED
    BY <1>5, <1>6, <1>7, <1>8, <1>10, <1>11

\* The nodes that the batch does not bring are withdrawn.
LEMMA MarkRemovedKeeps == IndexInv /\ mark_removed => IndexInv'
  <1> SUFFICES ASSUME IndexInv, mark_removed PROVE IndexInv'
    OBVIOUS
  <1> USE DEF IndexInv
  <1>1. \A n \in Nodes : nodes'[n] = IF n \in sync.gone THEN [nodes[n] EXCEPT !.live = FALSE] ELSE nodes[n]
    BY DEF mark_removed
  <1>2. /\ sync'.phase = "mark edges" /\ sync'.graph = sync.graph /\ sync'.links = sync.links /\ sync'.gone = sync.gone
        /\ sync'.goneEdges = sync.goneEdges /\ sync'.of = sync.of /\ sync' \in SyncState
    BY DEF mark_removed, StateType, SyncState, Phase
  <1>3. \A n \in Nodes : /\ nodes[n] \in Row /\ nodes'[n] \in Row
                         /\ nodes'[n].source = nodes[n].source /\ nodes'[n].text = nodes[n].text
                         /\ nodes'[n].vector = nodes[n].vector
                         /\ (nodes'[n].live <=> nodes[n].live /\ n \notin sync.gone)
    BY <1>1 DEF StateType, Row
  <1>4. nodes' \in [Nodes -> Row]
    BY <1>3 DEF mark_removed
  <1>5. StateType'
    BY <1>2, <1>4 DEF mark_removed, StateType
  <1>6. LiveHasSource'
    <2>1. \A n \in Nodes : nodes'[n].live => nodes'[n].source # ""
      BY <1>3 DEF LiveHasSource
    <2>2. QED
      BY <1>2, <2>1 DEF mark_removed, LiveHasSource
  <1>7. DOMAIN embed.read \subseteq Nodes /\ sync.gone \subseteq Nodes /\ DOMAIN sync.graph \subseteq Nodes
    BY DEF StateType, Job, SyncState, Graph
  <1>8. ReadIsCurrent' /\ VectorDescribesNode'
    BY <1>3, <1>7 DEF mark_removed, ReadIsCurrent, VectorDescribesNode
  <1>9. BatchIsOfSources' /\ UnreadSourceRemovesNothing'
    BY <1>2, <1>3, <1>7 DEF BatchIsOfSources, UnreadSourceRemovesNothing
  <1>10. Progress => Progress'
    <2> SUFFICES ASSUME Progress PROVE Progress'
      OBVIOUS
    <2>1. sync.phase = "mark" /\ edges' = edges /\ LiveEdges' = LiveEdges
      BY DEF mark_removed, LiveEdges
    <2>2. sync.gone = LiveNodes \ DOMAIN sync.graph
      BY <2>1 DEF Progress
    <2>3. \A n \in DOMAIN sync.graph : Same(nodes[n], sync.graph[n]) /\ n \notin sync.gone
      BY <2>1, <2>2 DEF Progress
    <2>4. ASSUME NEW n \in DOMAIN sync.graph PROVE Same(nodes'[n], sync.graph[n])
      <3>1. n \in Nodes /\ n \notin sync.gone /\ Same(nodes[n], sync.graph[n])
        BY <1>7, <2>3
      <3>2. QED
        BY <1>3, <3>1 DEF Same
    <2>5. LiveNodes' = DOMAIN sync.graph
      BY <1>3, <1>7, <2>2, <2>3 DEF LiveNodes, Same
    <2>6. QED
      BY <1>2, <2>1, <2>4, <2>5 DEF Progress
  <1>11. FullBatchProgresses'
    BY <1>2, <1>10 DEF FullBatchProgresses, Full
  <1>12. SyncedMirrors'
    BY DEF mark_removed, SyncedMirrors
  <1>13. QED
    BY <1>5, <1>6, <1>8, <1>9, <1>11, <1>12

\* The edges that the batch does not bring are withdrawn, and it is over: if it
\* read every source and they have not changed, the index mirrors them.
LEMMA MarkEdgesRemovedKeeps == IndexInv /\ mark_edges_removed => IndexInv'
  <1> SUFFICES ASSUME IndexInv, mark_edges_removed PROVE IndexInv'
    OBVIOUS
  <1> USE DEF IndexInv
  <1>1. \A e \in Edges : /\ edges[e] \in EdgeRow /\ edges'[e] \in EdgeRow
                         /\ edges'[e].source = edges[e].source
                         /\ (edges'[e].live <=> edges[e].live /\ e \notin sync.goneEdges)
    BY DEF mark_edges_removed, StateType, EdgeRow
  <1>2. edges' \in [Edges -> EdgeRow]
    BY <1>1 DEF mark_edges_removed
  <1>3. StateType'
    BY <1>2, IdleBatch DEF mark_edges_removed, StateType
  <1>4. sync' = IdleSync /\ nodes' = nodes /\ world' = world /\ sync.phase = "mark edges" /\ LiveNodes' = LiveNodes
    BY DEF mark_edges_removed, LiveNodes
  <1>5. LiveHasSource'
    BY <1>1, <1>4 DEF LiveHasSource, IdleSync
  <1>6. ReadIsCurrent' /\ VectorDescribesNode'
    BY DEF mark_edges_removed, ReadIsCurrent, VectorDescribesNode
  <1>7. BatchIsOfSources' /\ UnreadSourceRemovesNothing' /\ FullBatchProgresses'
    BY <1>4 DEF BatchIsOfSources, UnreadSourceRemovesNothing, FullBatchProgresses, IdleSync
  <1>8. ASSUME sync.of = {world}, Full(world) PROVE Mirrors(world)'
    <2>1. Progress /\ sync.graph = Provided(world) /\ sync.links = Links(world)
      BY <1>8 DEF FullBatchProgresses, BatchIsOfSources
    <2>2. DOMAIN Links(world) \subseteq Edges
      BY <2>1 DEF StateType, SyncState, LinkMap
    <2>3. sync.goneEdges = LiveEdges \ DOMAIN Links(world)
      BY <1>4, <2>1 DEF Progress
    <2>4. \A e \in DOMAIN Links(world) : edges[e].live /\ edges[e].source = Links(world)[e].source
      BY <1>4, <2>1 DEF Progress
    <2>5. LiveEdges' = DOMAIN Links(world)
      BY <1>1, <2>2, <2>3, <2>4 DEF LiveEdges
    <2>6. \A e \in DOMAIN Links(world) : edges'[e].source = Links(world)[e].source
      BY <1>1, <2>2, <2>4
    <2>7. LiveNodes = DOMAIN Provided(world) /\ \A n \in DOMAIN Provided(world) : Same(nodes[n], Provided(world)[n])
      BY <1>4, <2>1 DEF Progress
    <2>8. QED
      BY <1>4, <2>5, <2>6, <2>7 DEF Mirrors
  <1>9. SyncedMirrors'
    <2>1. synced' => sync.of = {world}
      BY DEF mark_edges_removed
    <2>2. sync'.phase = "idle" /\ (Full(world)' => Full(world))
      BY <1>4 DEF IdleSync, Full
    <2>3. QED
      BY <1>8, <2>1, <2>2 DEF SyncedMirrors
  <1>10. QED
    BY <1>3, <1>5, <1>6, <1>7, <1>9

\* A batch that dies leaves the store as it is; nothing counts as synchronised.
LEMMA SyncCrashKeeps == IndexInv /\ SyncCrash => IndexInv'
  <1> SUFFICES ASSUME IndexInv, SyncCrash PROVE IndexInv'
    OBVIOUS
  <1> USE DEF IndexInv
  <1>1. sync' = IdleSync /\ ~synced /\ UNCHANGED <<world, nodes, edges, embed, overlapped, synced>>
    BY DEF SyncCrash, SyncedMirrors
  <1>2. StateType'
    BY <1>1, IdleBatch DEF StateType
  <1>3. LiveHasSource' /\ ReadIsCurrent' /\ VectorDescribesNode'
    BY <1>1 DEF LiveHasSource, ReadIsCurrent, VectorDescribesNode, IdleSync
  <1>4. BatchIsOfSources' /\ UnreadSourceRemovesNothing' /\ FullBatchProgresses' /\ SyncedMirrors'
    BY <1>1 DEF BatchIsOfSources, UnreadSourceRemovesNothing, FullBatchProgresses, SyncedMirrors, IdleSync
  <1>5. QED
    BY <1>2, <1>3, <1>4

\* The job reads the nodes without a vector.
LEMMA NodesToEmbedKeeps == IndexInv /\ nodes_to_embed => IndexInv'
  <1> SUFFICES ASSUME IndexInv, nodes_to_embed PROVE IndexInv'
    OBVIOUS
  <1> USE DEF IndexInv
  <1> DEFINE undescribed == {n \in Nodes : nodes[n].live /\ nodes[n].vector = 0}
  <1>1. embed' = [on |-> TRUE, read |-> [n \in undescribed |-> nodes[n].text + 1]]
    BY DEF nodes_to_embed
  <1>2. \A n \in Nodes : nodes[n].text + 1 \in 1..3
    BY DEF StateType, Row
  <1>3. undescribed \in SUBSET Nodes
    OBVIOUS
  <1> HIDE DEF undescribed
  <1>4. [n \in undescribed |-> nodes[n].text + 1] \in [undescribed -> 1..3]
    BY <1>2, <1>3
  <1>5. embed' \in Job
    BY <1>1, <1>3, <1>4 DEF Job
  <1>6. StateType'
    BY <1>5 DEF nodes_to_embed, StateType
  <1>7. LiveHasSource' /\ VectorDescribesNode'
    BY DEF nodes_to_embed, LiveHasSource, VectorDescribesNode
  <1>8. ReadIsCurrent'
    BY <1>1 DEF nodes_to_embed, ReadIsCurrent
  <1>9. \A n \in Nodes : SameRow(nodes'[n], nodes[n])
    BY DEF nodes_to_embed, SameRow
  <1>10. UNCHANGED <<world, edges, sync, synced>>
    BY DEF nodes_to_embed
  <1>11. QED
    BY <1>6, <1>7, <1>8, <1>9, <1>10, BatchUndisturbed

\* The job writes the vectors of what it read.
LEMMA SetEmbeddingsKeeps == IndexInv /\ set_embeddings => IndexInv'
  <1> SUFFICES ASSUME IndexInv, set_embeddings PROVE IndexInv'
    OBVIOUS
  <1> USE DEF IndexInv
  <1>1. DOMAIN embed.read \subseteq Nodes /\ \A n \in DOMAIN embed.read : embed.read[n] \in 1..3
    BY DEF StateType, Job
  <1>2. \A n \in Nodes : nodes[n] \in Row
    BY DEF StateType
  <1>3. \A n \in Nodes : nodes'[n] = IF n \in DOMAIN embed.read THEN [nodes[n] EXCEPT !.vector = embed.read[n]] ELSE nodes[n]
    BY DEF set_embeddings
  <1>4. \A n \in Nodes : nodes'[n] \in Row /\ SameRow(nodes'[n], nodes[n])
    <2> SUFFICES ASSUME NEW n \in Nodes PROVE nodes'[n] \in Row /\ SameRow(nodes'[n], nodes[n])
      OBVIOUS
    <2>1. CASE n \in DOMAIN embed.read
      <3>1. embed.read[n] \in 0..3 /\ nodes'[n] = [nodes[n] EXCEPT !.vector = embed.read[n]] /\ nodes[n] \in Row
        BY <1>1, <1>2, <1>3, <2>1
      <3>2. QED
        BY <3>1 DEF Row, SameRow
    <2>2. CASE n \notin DOMAIN embed.read
      BY <1>2, <1>3, <2>2 DEF SameRow
    <2>3. QED
      BY <2>1, <2>2
  <1>5. \A n \in Nodes : nodes'[n].vector = IF n \in DOMAIN embed.read THEN embed.read[n] ELSE nodes[n].vector
    BY <1>2, <1>3 DEF Row
  <1>6. nodes' \in [Nodes -> Row]
    BY <1>4 DEF set_embeddings
  <1>7. StateType'
    BY <1>6, IdleBatch DEF set_embeddings, StateType
  <1>8. LiveHasSource'
    BY <1>4 DEF set_embeddings, LiveHasSource, SameRow
  <1>9. ReadIsCurrent'
    BY DEF set_embeddings, ReadIsCurrent, IdleEmbed
  <1>10. VectorDescribesNode'
    BY <1>4, <1>5 DEF set_embeddings, ReadIsCurrent, VectorDescribesNode, SameRow
  <1>11. UNCHANGED <<world, edges, sync, synced>>
    BY DEF set_embeddings
  <1>12. QED
    BY <1>4, <1>7, <1>8, <1>9, <1>10, <1>11, BatchUndisturbed

\* However sources change and refuse, batches die and jobs overlap them, the
\* index mirrors its sources after a complete batch that could read them, it
\* withdraws nothing on behalf of a table listing it could not read, and no node
\* keeps the vector of another text unless a batch rewrote it meanwhile.  A
\* refused listing of the schemas themselves is excluded: the code then protects
\* no domain.
THEOREM IndexIsFaithful ==
    KnowledgeAssumption /\ "schemas" \notin Outages => (KnowledgeSpec => []IndexMirrorsSources)
  <1> SUFFICES ASSUME KnowledgeAssumption, "schemas" \notin Outages PROVE KnowledgeSpec => []IndexMirrorsSources
    OBVIOUS
  <1>1. KnowledgeInit => IndexInv
    BY IndexStarts
  <1>2. IndexInv /\ [KnowledgeNext]_knowledgeVars => IndexInv'
    <2> SUFFICES ASSUME IndexInv, [KnowledgeNext]_knowledgeVars PROVE IndexInv'
      OBVIOUS
    <2>1. CASE UNCHANGED knowledgeVars
      <3>1. UNCHANGED <<world, nodes, edges, sync, embed, overlapped, synced>>
        BY <2>1 DEF knowledgeVars
      <3>2. StateType' /\ LiveHasSource' /\ ReadIsCurrent' /\ VectorDescribesNode'
        BY <3>1 DEF IndexInv, StateType, LiveHasSource, ReadIsCurrent, VectorDescribesNode
      <3>3. \A n \in Nodes : SameRow(nodes'[n], nodes[n])
        BY <3>1 DEF SameRow
      <3>4. QED
        BY <3>1, <3>2, <3>3, BatchUndisturbed DEF IndexInv
    <2>2. QED
      BY <2>1, ChangeKeeps, CollectKeeps, UpsertNodesKeeps, UpsertEdgesKeeps, MarkRemovedKeeps,
         MarkEdgesRemovedKeeps, SyncCrashKeeps, NodesToEmbedKeeps, SetEmbeddingsKeeps DEF KnowledgeNext
  <1>3. IndexInv => IndexMirrorsSources
    <2> SUFFICES ASSUME IndexInv PROVE IndexMirrorsSources
      OBVIOUS
    <2>1. KnowledgeTypeOK
      BY DEF IndexInv, KnowledgeTypeOK, StateType, Row, EdgeRow, Origin, SyncState, Phase, Job
    <2>2. SyncedStoreMirrorsSources
      BY DEF IndexInv, SyncedMirrors, SyncedStoreMirrorsSources, Full, Mirrors, LiveNodes, LiveEdges
    <2>3. QED
      BY <2>1, <2>2 DEF IndexInv, IndexMirrorsSources
  <1>4. QED
    BY <1>1, <1>2, <1>3, PTL DEF KnowledgeSpec
================================================================================
