------------------------------ MODULE ViewTarget ------------------------------
(***************************************************************************)
(* A materialized view: the runs that create, refresh or replace it, and   *)
(* the statements they leave to a SQL warehouse.  A run gives up waiting   *)
(* for a slow statement, or dies; the statement still takes effect later.  *)
(***************************************************************************)
EXTENDS Naturals, FiniteSets

CONSTANTS
    Definitions,   \* [select, options] a pipeline file may declare
    MaxChanges,    \* changes of the sources, of the file
    MaxRuns        \* runs of the pipeline and full refreshes

ViewAssumption == /\ MaxChanges \in Nat /\ MaxRuns \in Nat
                  /\ \A d \in Definitions : /\ d = [select |-> d.select, options |-> d.options]
                                             /\ d.select # "none"

VARIABLES
    setting,     \* where the run executes: local, a warehouse, none, or none in production
    declared,    \* the definition in the pipeline file
    never,       \* the file says refresh: never
    version,     \* version of the source data
    changes,     \* changes so far
    view,        \* the view: definition, stored hash, version of its data
    pending,     \* statements the warehouse has not executed yet
    run,         \* the run: phase, what it compiled and read, its statement, what it returned
    runs,        \* runs begun
    overtaken    \* a statement of an earlier run took effect during this one

viewVars == <<setting, declared, never, version, changes, view, pending, run, runs, overtaken>>

NoView == [definition |-> "none"]
Exists == view # NoView
NoHash == [select |-> "none", options |-> "none"]
definition_hash(definition) == [select |-> definition.select, options |-> definition.options]
compile_materialized_view_ddl(kind, definition, id) ==
    [kind |-> kind, definition |-> definition, hash |-> definition_hash(definition), id |-> id]

NoRun == [phase |-> "idle", definition |-> NoHash, at |-> 0, hash |-> NoHash, statement |-> 0, skipped |-> FALSE]

ViewInit ==
    /\ setting \in {"local", "warehouse", "none", "strict"}
    /\ declared \in Definitions /\ never \in BOOLEAN
    /\ version = 0 /\ changes = 0 /\ view = NoView /\ pending = {} /\ run = NoRun /\ runs = 0 /\ overtaken = FALSE

Edit ==
    /\ changes < MaxChanges /\ changes' = changes + 1
    /\ \/ version' = version + 1 /\ UNCHANGED declared
       \/ declared' \in Definitions \ {declared} /\ UNCHANGED version
    /\ UNCHANGED <<setting, never, view, pending, run, runs, overtaken>>

Built(statement) == [definition |-> statement.definition, hash |-> statement.hash, data |-> version]

(* The warehouse is resolved before anything else: none is an error in     *)
(* production.  A local run writes a table; without a warehouse the DDL    *)
(* goes to a file and the run returns False.                               *)
BeginRun ==
    /\ run.phase \in {"idle", "done", "artifact", "raised"} /\ runs < MaxRuns
    /\ runs' = runs + 1 /\ overtaken' = FALSE
    /\ run' = [NoRun EXCEPT !.definition = declared, !.at = version, !.statement = runs + 1,
                           !.phase = [strict |-> "raised", none |-> "artifact", local |-> "done",
                                      warehouse |-> "look"][setting]]
    /\ view' = IF setting = "local" THEN Built(compile_materialized_view_ddl("create", declared, 0)) ELSE view
    /\ UNCHANGED <<setting, declared, never, version, changes, pending>>

Send(kind) == pending' = pending \union {compile_materialized_view_ddl(kind, run.definition, run.statement)}

(* table_exists, then SHOW TBLPROPERTIES: a hash that cannot be read, or a *)
(* view gone in between, counts as no hash.                                *)
Look ==
    /\ run.phase = "look"
    /\ IF Exists THEN run' = [run EXCEPT !.phase = "read"] /\ UNCHANGED pending
       ELSE run' = [run EXCEPT !.phase = "await"] /\ Send("create")
    /\ UNCHANGED <<setting, declared, never, version, changes, view, runs, overtaken>>
get_table_property ==
    /\ run.phase = "read"
    /\ \E hash \in {NoHash} \union (IF Exists THEN {view.hash} ELSE {}) :
          IF hash # definition_hash(run.definition) THEN run' = [run EXCEPT !.phase = "await"] /\ Send("replace")
          ELSE IF never THEN run' = [run EXCEPT !.phase = "done", !.skipped = TRUE] /\ UNCHANGED pending
          ELSE run' = [run EXCEPT !.phase = "await"] /\ Send("refresh")
    /\ UNCHANGED <<setting, declared, never, version, changes, view, runs, overtaken>>

(* full_refresh of a view drops it. *)
FullRefresh ==
    /\ run.phase \in {"idle", "done", "artifact", "raised"} /\ runs < MaxRuns /\ setting = "warehouse"
    /\ runs' = runs + 1 /\ overtaken' = FALSE
    /\ run' = [NoRun EXCEPT !.phase = "dropping", !.statement = runs + 1]
    /\ pending' = pending \union {compile_materialized_view_ddl("drop", NoHash, runs + 1)}
    /\ UNCHANGED <<setting, declared, never, version, changes, view>>

(* The warehouse executes a statement; its run hears of it if it waits. *)
Fails(statement) == (statement.kind = "create" /\ Exists) \/ (statement.kind = "refresh" /\ ~Exists)
ExecuteStatement(statement) ==
    /\ statement \in pending /\ pending' = pending \ {statement}
    /\ \E failed \in {Fails(statement), TRUE} :
          /\ view' = IF failed THEN view
                     ELSE CASE statement.kind \in {"create", "replace"} -> Built(statement)
                            [] statement.kind = "refresh" -> [view EXCEPT !.data = version]
                            [] statement.kind = "drop" -> NoView
          /\ IF statement.id = run.statement /\ run.phase \in {"await", "dropping"}
             THEN /\ run' = [run EXCEPT !.phase = IF failed THEN "raised" ELSE IF run.phase = "dropping" THEN "idle" ELSE "done"]
                  /\ UNCHANGED overtaken
             ELSE overtaken' = TRUE /\ UNCHANGED run
    /\ UNCHANGED <<setting, declared, never, version, changes, runs>>

(* The deadline passes, or the process dies: the statement stays. *)
GiveUp ==
    /\ run.phase \in {"look", "read", "await", "dropping"}
    /\ run' = [run EXCEPT !.phase = "raised"]
    /\ UNCHANGED <<setting, declared, never, version, changes, view, pending, runs, overtaken>>

ViewNext == Edit \/ BeginRun \/ Look \/ get_table_property \/ FullRefresh \/ (\E statement \in pending : ExecuteStatement(statement)) \/ GiveUp
ViewSpec == ViewInit /\ [][ViewNext]_viewVars

ViewTypeOK ==
    /\ setting \in {"local", "warehouse", "none", "strict"} /\ declared \in Definitions /\ never \in BOOLEAN
    /\ version \in 0..MaxChanges /\ changes \in 0..MaxChanges /\ runs \in 0..MaxRuns /\ overtaken \in BOOLEAN
    /\ Exists => view.definition \in Definitions /\ view.data \in 0..version
    /\ \A statement \in pending : statement.kind \in {"create", "replace", "refresh", "drop"} /\ statement.id \in 1..MaxRuns
    /\ run.phase \in {"idle", "look", "read", "await", "dropping", "done", "artifact", "raised"}

(* A run that returns True leaves the view with the definition it compiled *)
(* and data no older than its start, unless it left the refresh to the     *)
(* schedule or an earlier run's statement came late.                       *)
BuiltViewIsCurrent ==
    run.phase = "done" /\ ~overtaken =>
        Exists /\ view.definition = run.definition /\ (run.skipped \/ view.data >= run.at)
===============================================================================
