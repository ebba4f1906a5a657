----------------------------- MODULE Publication -----------------------------
(***************************************************************************)
(* Certified publication (observability/publication.py, quarantine.py):    *)
(* a batch is staged, checked, and then promoted to its target or          *)
(* quarantined, with every transition logged in the certification store    *)
(* (module CertificationStore) and incidents opened and resolved there on  *)
(* the way.  Each statement that writes to the store or to the warehouse   *)
(* is a step, so a crash, or an exception of the backend or                *)
(* of the store, can fall between any two of them, and the calls of        *)
(* several processes interleave.  What is best effort and read by nobody   *)
(* here (lineage events, alerts, tags, the metadata index) is left out.    *)
(***************************************************************************)
EXTENDS CertificationStore

CONSTANTS
    Batches,          \* the DataFrames that pipelines hand to publish
    Fails,            \* the critical checks that each batch fails
    Procs,            \* processes that publish
    Resumers,         \* those of them that also resume runs after a crash
    MaxPublish,       \* how often one run_id is passed to publish
    MaxAborts,        \* crashes and exceptions
    ClockRuns,        \* the clock advances between two events; else it may stop or step back
    MaxNow,           \* ... anywhere in 0..MaxNow
    AtomicCheckBatch  \* SQLite stores check results in one transaction, Delta one by one

ASSUME PublicationAssumption ==
    /\ Fails \in [Batches -> SUBSET Checks]
    /\ None \notin Batches /\ Resumers \subseteq Procs
    /\ MaxPublish \in Nat /\ MaxAborts \in Nat /\ MaxNow \in Nat
    /\ ClockRuns \in BOOLEAN /\ AtomicCheckBatch \in BOOLEAN

VARIABLES
    log,        \* materialization_runs
    check,      \* check_results: the stored status of each run's checks
    staging,    \* the staging table of each run
    quarantine, \* the quarantine snapshot of each run
    table,      \* the target tables: the batch, and the run that wrote it
    proc,       \* the call each process is in, and its locals
    published, aborts, now

store == <<log, check>>
warehouse == <<staging, quarantine, table>>
counters == <<published, aborts, now>>
incidentVars == <<incident, command>>
vars == <<store, warehouse, proc, counters, incidentVars>>

PC == {"idle", "staging", "write_staging", "staged", "check", "record",
       "quarantine", "quarantined", "quarantine_drop", "open_incident",
       "insert_incident", "promote", "promoting", "write_table", "promoted",
       "promote_drop", "resolve", "resolve_write"}

Rows == [batch: Batches \union {None}, run: Runs \union {None}]

Call == [pc: PC, run: Runs \union {None}, batch: Batches \union {None},
         report: SUBSET Checks,     \* the failed critical checks
         todo: SUBSET Checks,       \* checks still to be stored or opened
         at: Checks \union {None},  \* the check whose incident is being opened
         listed: [IncidentId -> Incident]]

Idle == [pc |-> "idle", run |-> None, batch |-> None, report |-> {}, todo |-> {},
         at |-> None, listed |-> [id \in IncidentId |-> Absent]]

Init ==
    /\ log = <<>>
    /\ check = [r \in Runs |-> [c \in Checks |-> "none"]]
    /\ staging = [r \in Runs |-> None]
    /\ quarantine = [r \in Runs |-> None]
    /\ table = [t \in Targets |-> [batch |-> None, run |-> None]]
    /\ proc = [p \in Procs |-> Idle]
    /\ published = [r \in Runs |-> 0]
    /\ aborts = 0
    /\ now = 0
    /\ InitIncidents

-----------------------------------------------------------------------------
(* The steps of a call. *)

Goto(p, pc) == proc' = [proc EXCEPT ![p].pc = pc]
Finish(p) == proc' = [proc EXCEPT ![p] = Idle]

LogRun(r, state) ==
    /\ log' = append_run_event(log, r, state, now)
    /\ now' = IF ClockRuns THEN now + 1 ELSE now
    /\ UNCHANGED <<check, aborts>>

Log(p, state) == LogRun(proc[p].run, state) /\ UNCHANGED published

\* publish and start_publication_run: the run is logged before any write.
Publish(p) ==
    \E r \in Runs, b \in Batches :
        /\ proc[p].pc = "idle" /\ published[r] < MaxPublish
        /\ published' = [published EXCEPT ![r] = @ + 1]
        /\ proc' = [proc EXCEPT ![p] = [Idle EXCEPT !.pc = "staging", !.run = r, !.batch = b]]
        /\ LogRun(r, "STARTED")
        /\ UNCHANGED <<warehouse, incidentVars>>

\* stage_dataframe: STAGING, the staging write, STAGED.
LogStaging(p) ==
    /\ proc[p].pc = "staging"
    /\ Log(p, "STAGING") /\ Goto(p, "write_staging")
    /\ UNCHANGED <<warehouse, incidentVars>>

WriteStaging(p) ==
    /\ proc[p].pc = "write_staging"
    /\ staging' = [staging EXCEPT ![proc[p].run] = proc[p].batch]
    /\ Goto(p, "staged")
    /\ UNCHANGED <<store, quarantine, table, counters, incidentVars>>

LogStaged(p) ==
    /\ proc[p].pc = "staged"
    /\ Log(p, "STAGED") /\ Goto(p, "check")
    /\ UNCHANGED <<warehouse, incidentVars>>

\* The monitor reads the staging table; a check that raises counts as failed.
CheckStaging(p) ==
    \E failed \in SUBSET Checks :
        /\ proc[p].pc = "check"
        /\ IF staging[proc[p].run] = None THEN failed = Checks
           ELSE Fails[staging[proc[p].run]] \subseteq failed
        /\ proc' = [proc EXCEPT ![p].pc = "record", ![p].report = failed, ![p].todo = Checks]
        /\ UNCHANGED <<store, warehouse, counters, incidentVars>>

Outcome(p, c) == IF c \in proc[p].report THEN "FAIL" ELSE "PASS"

Decision(p) == IF proc[p].report = {} THEN "promote" ELSE "quarantine"

\* append_check_results: INSERT OR IGNORE, in one transaction or row by row.
RecordChecks(p) ==
    LET c == proc[p]
    IN  \E batch \in SUBSET c.todo :
        /\ c.pc = "record"
        /\ IF AtomicCheckBatch THEN batch = c.todo ELSE Cardinality(batch) = 1
        /\ check' = [check EXCEPT ![c.run] = [k \in Checks |->
                        IF k \in batch /\ @[k] = "none" THEN Outcome(p, k) ELSE @[k]]]
        /\ proc' = [proc EXCEPT ![p].todo = @ \ batch,
                                ![p].pc = IF c.todo = batch THEN Decision(p) ELSE @]
        /\ UNCHANGED <<log, warehouse, counters, incidentVars>>

\* quarantine_staging copies the staged rows first; if they cannot be read or
\* written the run ends in CHECK_ERROR and its staging table stays.
Quarantine(p) ==
    LET r == proc[p].run
    IN  /\ proc[p].pc = "quarantine"
        /\ \/ /\ staging[r] # None
              /\ quarantine' = [quarantine EXCEPT ![r] = staging[r]]
              /\ Goto(p, "quarantined")
              /\ UNCHANGED <<store, counters>>
           \/ /\ Log(p, "CHECK_ERROR") /\ Finish(p)
              /\ UNCHANGED quarantine
        /\ UNCHANGED <<staging, table, incidentVars>>

LogQuarantined(p) ==
    /\ proc[p].pc = "quarantined"
    /\ Log(p, "QUARANTINED") /\ Goto(p, "quarantine_drop")
    /\ UNCHANGED <<warehouse, incidentVars>>

DropQuarantined(p) ==
    /\ proc[p].pc = "quarantine_drop"
    /\ staging' = [staging EXCEPT ![proc[p].run] = None]
    /\ proc' = [proc EXCEPT ![p].pc = "open_incident", ![p].todo = proc[p].report]
    /\ UNCHANGED <<store, quarantine, table, counters, incidentVars>>

\* Mutant of OpenIncident: open incidents of earlier runs are not looked up.
OpenWithoutLookup(p) ==
    \/ \E c \in proc[p].todo :
        /\ proc[p].pc = "open_incident"
        /\ proc' = [proc EXCEPT ![p].pc = "insert_incident", ![p].at = c]
        /\ UNCHANGED <<store, warehouse, counters, incidentVars>>
    \/ /\ proc[p].pc = "open_incident" /\ proc[p].todo = {}
       /\ Finish(p)
       /\ UNCHANGED <<store, warehouse, counters, incidentVars>>

\* _record_incidents: one incident per failed check without an open one.
OpenIncident(p) ==
    \/ \E c \in proc[p].todo :
        /\ proc[p].pc = "open_incident"
        /\ IF get_open_incident(TargetOf[proc[p].run], c) = {}
           THEN proc' = [proc EXCEPT ![p].pc = "insert_incident", ![p].at = c]
           ELSE proc' = [proc EXCEPT ![p].todo = @ \ {c}]
        /\ UNCHANGED <<store, warehouse, counters, incidentVars>>
    \/ /\ proc[p].pc = "open_incident" /\ proc[p].todo = {}
       /\ Finish(p)
       /\ UNCHANGED <<store, warehouse, counters, incidentVars>>

InsertNewIncident(p) ==
    /\ proc[p].pc = "insert_incident"
    /\ InsertIncident(<<proc[p].run, proc[p].at>>)
    /\ proc' = [proc EXCEPT ![p].pc = "open_incident", ![p].todo = @ \ {proc[p].at},
                            ![p].at = None]
    /\ UNCHANGED <<store, warehouse, counters, command>>

Blocked(r) == \E c \in Checks : check[r][c] = "FAIL"

\* Mutant of Promote: recorded failures, or the state of the run, are not
\* looked at.
PromoteUnchecked(p) ==
    LET current == get_run(log, proc[p].run)
    IN  /\ proc[p].pc = "promote"
        /\ \/ current = "PROMOTED" /\ Goto(p, "promote_drop")
           \/ current \in {"STAGED", "PROMOTING"} /\ Goto(p, "promoting")
           \/ current \notin {"STAGED", "PROMOTING", "PROMOTED"} /\ Finish(p)
        /\ UNCHANGED <<store, warehouse, counters, incidentVars>>
PromoteAnyState(p) ==
    /\ proc[p].pc = "promote"
    /\ IF Blocked(proc[p].run) THEN Finish(p) ELSE Goto(p, "promoting")
    /\ UNCHANGED <<store, warehouse, counters, incidentVars>>

\* promote_staging reads the run's state and its stored checks: a promoted run
\* only drops its staging table, an illegal state or a stored failure raises.
Promote(p) ==
    LET r       == proc[p].run
        current == get_run(log, r)
        staged  == current \in {"STAGED", "PROMOTING"}
    IN  /\ proc[p].pc = "promote"
        /\ \/ current = "PROMOTED" /\ Goto(p, "promote_drop")
           \/ staged /\ ~Blocked(r) /\ Goto(p, "promoting")
           \/ current # "PROMOTED" /\ (~staged \/ Blocked(r)) /\ Finish(p)
        /\ UNCHANGED <<store, warehouse, counters, incidentVars>>

LogPromoting(p) ==
    /\ proc[p].pc = "promoting"
    /\ Log(p, "PROMOTING") /\ Goto(p, "write_table")
    /\ UNCHANGED <<warehouse, incidentVars>>

\* The target is overwritten with the staged rows; without them the read raises.
WriteTable(p) ==
    LET r == proc[p].run
    IN  /\ proc[p].pc = "write_table"
        /\ IF staging[r] = None
           THEN Finish(p) /\ UNCHANGED table
           ELSE /\ table' = [table EXCEPT ![TargetOf[r]] = [batch |-> staging[r], run |-> r]]
                /\ Goto(p, "promoted")
        /\ UNCHANGED <<store, staging, quarantine, counters, incidentVars>>

\* Mutant of LogPromoted: the staging table is dropped before the event.
LogPromotedLate(p) ==
    /\ proc[p].pc \in {"promoted", "promote_drop"}
    /\ IF proc[p].pc = "promoted"
       THEN Goto(p, "promote_drop") /\ UNCHANGED <<store, counters>>
       ELSE Log(p, "PROMOTED") /\ Goto(p, "resolve")
    /\ staging' = [staging EXCEPT ![proc[p].run] = None]
    /\ UNCHANGED <<quarantine, table, incidentVars>>

LogPromoted(p) ==
    /\ proc[p].pc = "promoted"
    /\ Log(p, "PROMOTED") /\ Goto(p, "promote_drop")
    /\ UNCHANGED <<warehouse, incidentVars>>

DropPromoted(p) ==
    /\ proc[p].pc = "promote_drop"
    /\ staging' = [staging EXCEPT ![proc[p].run] = None]
    /\ Goto(p, "resolve")
    /\ UNCHANGED <<store, quarantine, table, counters, incidentVars>>

\* _resolve_recovered: resolve_open_incidents lists, then updates.
ListOpen(p) ==
    LET open == list_open_incidents(TargetOf[proc[p].run])
    IN  /\ proc[p].pc = "resolve"
        /\ proc' = [proc EXCEPT ![p].pc = "resolve_write",
                ![p].listed = [id \in IncidentId |-> IF id \in open THEN incident[id] ELSE Absent]]
        /\ UNCHANGED <<store, warehouse, counters, incidentVars>>

ResolveRecovered(p) ==
    /\ proc[p].pc = "resolve_write"
    /\ ResolveListed(proc[p].listed)
    /\ Finish(p)
    /\ UNCHANGED <<store, warehouse, counters, command>>

\* resume: crash recovery of any logged run, which goes straight to promotion.
Resume(p) ==
    \E r \in Runs :
        /\ p \in Resumers /\ proc[p].pc = "idle" /\ RowsOf(log, r) # {}
        /\ proc' = [proc EXCEPT ![p] = [Idle EXCEPT !.pc = "promote", !.run = r]]
        /\ UNCHANGED <<store, warehouse, counters, incidentVars>>

-----------------------------------------------------------------------------
(* The environment. *)

\* The process dies, or the next statement raises: the call ends where it is.
Abort(p) ==
    /\ proc[p].pc # "idle" /\ aborts < MaxAborts
    /\ aborts' = aborts + 1
    /\ Finish(p)
    /\ UNCHANGED <<store, warehouse, published, now, incidentVars>>

OperatorStep(o) ==
    /\ CommandRead(o) \/ CommandWrite(o)
    /\ UNCHANGED <<store, warehouse, proc, counters>>

Tick ==
    /\ ~ClockRuns /\ now < MaxNow /\ now' = now + 1
    /\ UNCHANGED <<store, warehouse, proc, published, aborts, incidentVars>>

StepBack ==
    /\ ~ClockRuns /\ now > 0 /\ now' = now - 1
    /\ UNCHANGED <<store, warehouse, proc, published, aborts, incidentVars>>

Step(p) ==
    \/ LogStaging(p) \/ WriteStaging(p) \/ LogStaged(p) \/ CheckStaging(p)
    \/ RecordChecks(p) \/ Quarantine(p) \/ LogQuarantined(p) \/ DropQuarantined(p)
    \/ OpenIncident(p) \/ InsertNewIncident(p) \/ Promote(p) \/ LogPromoting(p)
    \/ WriteTable(p) \/ LogPromoted(p) \/ DropPromoted(p) \/ ListOpen(p)
    \/ ResolveRecovered(p)

Next ==
    \/ \E p \in Procs : Publish(p) \/ Resume(p) \/ Step(p) \/ Abort(p)
    \/ \E o \in Operators : OperatorStep(o)

\* The same under a clock that stands still, or is set forward or back between two events.
SettableClockNext == Next \/ Tick \/ StepBack

Spec == Init /\ [][Next]_vars

-----------------------------------------------------------------------------
(* Properties. *)

TypeOK ==
    /\ log \in Seq([run: Runs, state: RunState, at: Nat])
    /\ check \in [Runs -> [Checks -> {"none", "PASS", "FAIL"}]]
    /\ staging \in [Runs -> Batches \union {None}]
    /\ quarantine \in [Runs -> Batches \union {None}]
    /\ table \in [Targets -> Rows]
    /\ proc \in [Procs -> Call]
    /\ published \in [Runs -> Nat] /\ aborts \in Nat /\ now \in Nat
    /\ TypeOKIncidents

RunsOf(t) == {r \in Runs : TargetOf[r] = t}

\* Only data whose critical checks all passed reaches a consumer table: "only
\* promoted to the target when no critical check blocks publication".
TargetPassedChecks ==
    \A t \in Targets : table[t].batch # None => Fails[table[t].batch] = {}

\* A run with a stored critical failure is never promoted, neither by publish
\* nor by a resume after a crash at any point.
BlockedRunIsNotPromoted ==
    \A r \in Runs : Has(log, r, "PROMOTED") => ~Blocked(r)

\* The rows of a target are those of the run its certification names, or of a
\* run logged as PROMOTING, whose promotion a resume completes.
CertificationDescribesTable ==
    \A t \in Targets : table[t].run # None =>
        \/ get_run(log, table[t].run) = "PROMOTING"
        \/ get_latest_promoted(log, RunsOf(t), None) = table[t].run

\* Staged rows are dropped only once the log says where they went: a crash
\* between any two statements loses no staged batch, and a run logged as
\* PROMOTING can always be resumed from its staging table.
StagedDataSurvives ==
    \A r \in Runs : Has(log, r, "STAGED") /\ staging[r] = None =>
        \/ Has(log, r, "PROMOTED")
        \/ Has(log, r, "QUARANTINED") /\ quarantine[r] # None

\* get_run reports the transition stored last, although rows are ordered by a
\* wall clock that may stand still or step back.
RunStateIsLastStored ==
    \A r \in Runs : \A i \in RowsOf(log, r) :
        (\A j \in RowsOf(log, r) : j <= i) => get_run(log, r) = log[i].state

\* A promoted run is never written to its target again, however often it is
\* resumed or published again under the same run_id.
PromotionIsIdempotent ==
    [][\A t \in Targets : table'[t] # table[t] => ~Has(log, table'[t].run, "PROMOTED")]_vars

\* A dataset has at most one open incident per check, however many runs fail it.
AtMostOneOpenIncident ==
    \A t \in Targets, c \in Checks : Cardinality(get_open_incident(t, c)) <= 1

\* Every incident is backed by evidence in the store: its run was quarantined
\* and its check is stored as failed.
IncidentHasEvidence ==
    \A id \in IncidentId : incident[id] # Absent =>
        Has(log, id[1], "QUARANTINED") /\ check[id[1]][id[2]] = "FAIL"

\* One open incident per failing check of a dataset, each with its evidence,
\* although operators update incidents while runs open and resolve them.
IncidentsAreTrue == AtMostOneOpenIncident /\ IncidentHasEvidence
=============================================================================
