----------------------------- MODULE EngineSetup -----------------------------
(***************************************************************************)
(* How an engine finds its environment, where it lets a user write and     *)
(* read, and which path a pipeline takes to its target.                    *)
(* A configuration is [priority, environments, default, cached]; an        *)
(* environment is [catalog, production], "" for no catalog.                *)
(***************************************************************************)
EXTENDS Naturals, Sequences, FiniteSets, SequencesExt

NoEnvironment == [env |-> "none", db |-> ""]

(* The backend's query, or the SDK when it fails or takes too long. *)
check_catalog_access(catalog, access) == catalog = "" \/ access[catalog] \in {"query", "sdk"}

Usable(config, env, access) == env \in DOMAIN config.environments /\ check_catalog_access(config.environments[env].catalog, access)
Chosen(config, env) == [env |-> env, db |-> config.environments[env].catalog]

(* The first environment of a list that can be reached.                    *)
FirstUsable(config, access, list) ==
    LET usable == {i \in DOMAIN list : Usable(config, list[i], access)}
    IN  IF usable = {} THEN NoEnvironment ELSE Chosen(config, list[Min(usable)])

(* The engine: a cached answer for this file, else the first environment   *)
(* of the list it can reach, else default_env.                             *)
_auto_detect_environment(config, access) ==
    LET reachable == FirstUsable(config, access, config.priority)
    IN  IF config.cached # NoEnvironment THEN config.cached
        ELSE IF config.priority = <<>> \/ DOMAIN config.environments = {} THEN NoEnvironment
        ELSE IF reachable # NoEnvironment THEN reachable
        ELSE IF config.default \in DOMAIN config.environments THEN Chosen(config, config.default)
        ELSE NoEnvironment

(* Every environment in any order. *)
_detect_environment_any(config, access) == FirstUsable(config, access, Reverse(config.priority))
(* The configuration manager: no cache and no default. *)
_detect_environment(config, access) == FirstUsable(config, access, config.priority)

is_running_as_job(signals) == signals \intersect {"widget", "variable", "job id"} # {}
env_config(config, env) == config.environments[env]

(* The first source that answers; the answer is kept in a file, which is   *)
(* asked first from then on.                                               *)
get_clean_username(sources) ==
    LET asked == <<sources.file, sources.spark, sources.sdk, sources.notebook, sources.os>>
        answers == {i \in DOMAIN asked : asked[i] # ""}
    IN  IF answers = {} THEN "unknown_user" ELSE asked[Min(answers)]

(* SkiferEngine.__init__: detection runs first, whatever was forced. *)
__init__(config, access, force, signals, user) ==
    LET detected == _auto_detect_environment(config, access)
        ctx      == IF force = "" THEN detected ELSE Chosen(config, force)
    IN  IF detected = NoEnvironment \/ (force # "" /\ force \notin DOMAIN config.environments) THEN [built |-> FALSE]
        ELSE [built |-> TRUE, env |-> ctx.env, db |-> ctx.db,
              suffix |-> IF env_config(config, ctx.env).production \/ is_running_as_job(signals) THEN "" ELSE user]

(* Schemas are [layer, owner]; an owner is appended once. *)
get_target_schema(engine, schema) ==
    IF engine.suffix = "" \/ schema.owner = engine.suffix THEN schema ELSE [schema EXCEPT !.owner = engine.suffix]

------------------------------------------------------------------------------
(* The sandbox.  store[owner] is the user's copy of a schema ("" for the   *)
(* shared one): whether it exists and the content of one table.            *)
Absent == [schema |-> FALSE, table |-> "none"]
clone_table(store, suffix) == [store EXCEPT ![suffix].table = IF @ = "none" THEN store[""].table ELSE @]
_do_resolve(store, suffix, missing) ==
    LET made == [store EXCEPT ![suffix].schema = TRUE]
    IN  IF store[suffix].schema /\ store[suffix].table # "none" THEN [ok |-> TRUE, store |-> store]
        ELSE IF missing = "error" \/ store[""].table = "none" THEN [ok |-> FALSE, store |-> made]
        ELSE [ok |-> TRUE, store |-> clone_table(made, suffix)]
resolve(store, suffix, missing, resolved) ==
    IF resolved THEN [ok |-> TRUE, store |-> store] ELSE _do_resolve(store, suffix, missing)
resolve_source_table(engine, store, missing, resolved) ==
    IF engine.suffix = "" THEN [ok |-> TRUE, store |-> store] ELSE resolve(store, engine.suffix, missing, resolved)

------------------------------------------------------------------------------
(* The path a pipeline takes: refused, or the writer of its target.  A     *)
(* schema is [product, sink, materialization, kept]: kept is false when a  *)
(* critical check fails.                                                   *)
Jdbc(schema) == schema.sink \in {"postgres", "jdbc"}
_is_materialized_view_schema(schema) == schema.materialization = "materialized_view"
_is_streaming_schema(schema) == schema.materialization = "streaming_table"

run_process_to_table(schema, engine) ==
    LET certified == engine.store /\ engine.monitor /\ (engine.strict => engine.registry)
    IN  IF schema.product
        THEN IF Jdbc(schema) \/ _is_streaming_schema(schema) \/ _is_materialized_view_schema(schema) \/ ~certified
             THEN "refused" ELSE "publication"
        ELSE IF _is_materialized_view_schema(schema) THEN "view"
        ELSE IF Jdbc(schema) THEN "jdbc"
        ELSE IF _is_streaming_schema(schema) THEN "stream" ELSE "table"
run_process_and_split(schema, engine) ==
    IF Jdbc(schema) \/ _is_materialized_view_schema(schema) \/ _is_streaming_schema(schema) \/ schema.product THEN "refused" ELSE "table"
run_union_sources_to_table(schema, engine) ==
    IF Jdbc(schema) \/ _is_materialized_view_schema(schema) \/ _is_streaming_schema(schema) \/ schema.product \/ engine.sources = {}
    THEN "refused" ELSE "table"
Route(pattern, schema, engine) ==
    IF pattern = "split" THEN run_process_and_split(schema, engine)
    ELSE IF pattern = "union" THEN run_union_sources_to_table(schema, engine)
    ELSE run_process_to_table(schema, engine)

------------------------------------------------------------------------------
(* The engine and the configuration manager read the same file: when both  *)
(* find an environment afresh they find the same one.                      *)
DetectorsAgree(config, access) ==
    LET manager == _detect_environment(config, access)
    IN  config.cached = NoEnvironment /\ manager # NoEnvironment => _auto_detect_environment(config, access) = manager

(* An engine works in one environment: its catalog is that environment's,  *)
(* and an interactive user writes shared schemas only in production.       *)
EngineIsOneEnvironment(config, access, force, signals, user, schema) ==
    LET engine == __init__(config, access, force, signals, user)
    IN  engine.built =>
            /\ config.environments[engine.env].catalog = engine.db
            /\ (force # "" => engine.env = force)
            /\ get_target_schema(engine, schema).owner = "" => is_running_as_job(signals) \/ config.environments[engine.env].production
            /\ get_target_schema(engine, get_target_schema(engine, schema)) = get_target_schema(engine, schema)

(* Reading through the sandbox leaves the shared tables and the tables a   *)
(* user already has as they are, however often and in whatever order       *)
(* tables are resolved.                                                    *)
SandboxKeepsItsTables(engine, store, missing, resolved) ==
    LET after == resolve_source_table(engine, store, missing, resolved)
    IN  /\ after.store[""] = store[""]
        /\ \A owner \in DOMAIN store : store[owner].table # "none" => after.store[owner] = store[owner]
        /\ after.ok /\ ~resolved /\ engine.suffix # "" => after.store[engine.suffix].table # "none"

(* A certified data product reaches its target through the publication     *)
(* only, and no pattern writes a stream or a view as a table.              *)
ProductsArePublished(pattern, schema, engine) ==
    /\ schema.product => Route(pattern, schema, engine) \in {"refused", "publication"}
    /\ schema.materialization # "" => Route(pattern, schema, engine) # "table"
==============================================================================
