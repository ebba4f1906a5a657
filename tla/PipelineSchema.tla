---------------------------- MODULE PipelineSchema ---------------------------
(***************************************************************************)
(* What the schema loader accepts (core/schema_loader.py) and what the     *)
(* run-time guards of the interpreter and of the SQL compiler refuse.      *)
(* Absent values are ""; each validation returns the set of its complaints.*)
(***************************************************************************)
EXTENDS Naturals, Sequences, FiniteSets, SequencesExt

None == ""
If(condition, complaint) == IF condition THEN {complaint} ELSE {}

(* Column operations: path is the operation name after its structural prefixes, as in
   <<"then", "round">>, and args the number of comma-separated arguments. *)

COLUMN_OPS == [cast |-> "single", upper |-> "none", substring |-> "two", lit |-> "single", expr |-> "expression", col |-> "passthrough"]
FILTER_OPERATORS == {"equals", "is_null", "in", "between"}
_MIN_OP_ARGS == [none |-> 0, single |-> 1, two |-> 2]
Structural == {"then", "else"}

Core(op) == SelectSeq(op.path, LAMBDA part : part \notin Structural)
\* Mutant of _validate_col_op_arity: one argument is taken for two.
_validate_col_op_arity_lax(name, args) == COLUMN_OPS[name] \notin DOMAIN _MIN_OP_ARGS \/ args + 1 >= _MIN_OP_ARGS[COLUMN_OPS[name]]
_validate_col_op_arity(name, args) == COLUMN_OPS[name] \notin DOMAIN _MIN_OP_ARGS \/ args >= _MIN_OP_ARGS[COLUMN_OPS[name]]
_validate_col_op_str(op) ==
    LET core == Core(op)
    IN  \/ core = <<>>
        \/ core[1] = "when" /\ (Len(core) > 1 => core[2] \in FILTER_OPERATORS)
        \/ core[1] \in DOMAIN COLUMN_OPS /\ _validate_col_op_arity(core[1], op.args)
Starts(op, prefix) == op.path[1] = prefix
_validate_compact_when_chain(ops) ==
    (ops # <<>> /\ Starts(ops[1], "when")) => Len(ops) = 3 /\ Starts(ops[2], "then") /\ Starts(ops[3], "else")
_validate_ops_in_select_list(ops) == _validate_compact_when_chain(ops) /\ \A i \in DOMAIN ops : _validate_col_op_str(ops[i])

\* The backend's dispatch: the number of arguments its handlers index.
_REQUIRED_ARGS == [single |-> 1, two |-> 2]
_check_op_arity(name, args) == COLUMN_OPS[name] \in DOMAIN _REQUIRED_ARGS => args >= _REQUIRED_ARGS[COLUMN_OPS[name]]
_SPARK_FILTER_DISPATCH == FILTER_OPERATORS
apply_op(op) ==
    LET core == Core(op)
    IN  \/ core = <<>>                                                \* the column itself
        \/ core[1] = "when" /\ (Len(core) > 1 => core[2] \in _SPARK_FILTER_DISPATCH)
        \/ core[1] \in DOMAIN COLUMN_OPS /\ _check_op_arity(core[1], op.args)
get_select_expressions(ops) ==
    IF ops # <<>> /\ Starts(ops[1], "when")
    THEN Len(ops) = 3 /\ Starts(ops[2], "then") /\ Starts(ops[3], "else") /\ \A i \in DOMAIN ops : apply_op(ops[i])
    ELSE \A i \in DOMAIN ops : apply_op(ops[i])

\* An operation list the loader accepts is one the backend can apply.
LoadedOpsApply(ops) == _validate_ops_in_select_list(ops) => get_select_expressions(ops)

(* Tables, joins and materialization. *)

TableRefs(t) == {t.alias, t.name, t.short} \ {None}
_collect_table_refs(s) == UNION {TableRefs(t) : t \in Range(s.tables)}
_normalize_partials(s) ==
    If(\E i, j \in DOMAIN s.partials : i # j /\ s.partials[i].alias = s.partials[j].alias, "duplicate partial alias")
    \union If(\E p \in Range(s.partials) : p.alias \in _collect_table_refs(s), "partial alias collides with a table")
JoinRefs(s) ==
    If(\E j \in Range(s.joins) : {j.from, j.to} \ ({None} \union _collect_table_refs(s) \union {p.alias : p \in Range(s.partials)}) # {}, "unknown join alias")
SourceErrors(s) == If(\E t \in Range(s.tables) : t.source # None /\ t.loader, "source and loader")

VALID_STREAMING_SOURCE_TYPES == {"delta", "text"}
Streams(s) == {i \in DOMAIN s.tables : s.tables[i].streaming}
\* The first streaming table, against which the joins are checked.
Stream(s) == s.tables[CHOOSE i \in Streams(s) : \A j \in Streams(s) : i <= j]
_schema_contains_streaming(s) == \E p \in Range(s.partials) : p.streaming
StreamTableErrors(t) ==
    If(t.loader, "loader stream") \union If(t.source # None /\ t.source \notin VALID_STREAMING_SOURCE_TYPES, "source cannot stream")
    \union If(t.devLimit, "dev_limit on stream") \union If(t.qualify, "qualify on stream") \union If(t.dedup, "deduplication on stream")
StreamJoinErrors(s) ==
    IF Streams(s) = {} \/ s.joins = <<>> THEN {}
    ELSE LET refs == TableRefs(Stream(s))
         IN  If(s.joins[1].from \notin refs, "stream is not the base")
             \union If(\E j \in Range(s.joins) : j.to \in refs, "stream on the right")
             \union If(\E j \in Range(s.joins) : j.type \notin {"inner", "left"}, "join type")
_validate_streaming(s) ==
    LET streamingRun == s.materialization = "streaming_table"
    IN  If(_schema_contains_streaming(s), "stream in a partial")
        \union If(Streams(s) # {} /\ ~streamingRun, "stream needs materialization")
        \union If(streamingRun /\ Streams(s) = {}, "materialization needs a stream")
        \union If(\E i, j \in Streams(s) : i # j, "two streams")
        \union (UNION {StreamTableErrors(s.tables[i]) : i \in Streams(s)})
        \union (IF streamingRun
                THEN If(s.devLimit, "dev_limit") \union If(s.sink \in {"postgres", "jdbc"}, "sink")
                     \union If(s.aggregate, "aggregate") \union StreamJoinErrors(s)
                ELSE {})

_validate_materialized_view(s) ==
    IF s.materialization # "materialized_view" THEN {}
    ELSE If(s.rules # {}, "rules") \union If(s.partials # <<>>, "partials") \union If(s.devLimit, "dev_limit")
         \union If(s.sink \in {"postgres", "jdbc"}, "sink")
         \union If(s.keepAll /\ (Len(s.tables) > 1 \/ s.joins # <<>>), "keep_all_columns over a join")
         \union (UNION {If(t.streaming, "stream") \union If(t.source # None, "file source") \union If(t.loader, "loader")
                        \union If(t.devLimit, "dev_limit") \union If(t.dedup, "deduplication") \union If(t.qualify, "qualify") :
                          t \in Range(s.tables)})

(* The materialization block: a mapping m from "type" and its options to values; "" and <<>> are
   empty values. *)

MATERIALIZATION_ALLOWED_KEYS ==
    [table |-> {"type"}, streaming_table |-> {"type", "trigger", "checkpoint", "write_mode", "keys"},
     materialized_view |-> {"type", "schedule", "comment", "cluster_by", "partition_by", "refresh"}]
Defaults == [table |-> <<>>, streaming_table |-> [trigger |-> "available_now", checkpoint |-> "auto", write_mode |-> "append"],
             materialized_view |-> [refresh |-> "auto"]]
\* Of the triggers and the schedules, which are open sets of texts, one with an argument.
Valid == [trigger |-> {"available_now", "interval:30 seconds"}, write_mode |-> {"append", "upsert"},
          schedule |-> {"EVERY 6 HOURS"}, refresh |-> {"auto", "never"}]
ValueOf(m, key) == IF key \in DOMAIN m THEN m[key] ELSE Defaults[m.type][key]
Blanks(m, keys) == UNION {If(key \in DOMAIN m /\ m[key] = "", key) : key \in keys}
Odd(m, keys) == UNION {If(key \in DOMAIN m /\ m[key] \notin Valid[key], key) : key \in keys}
NoNames(m, keys) == UNION {If(key \in DOMAIN m /\ (m[key] = <<>> \/ "" \in Range(m[key])), key) : key \in keys}
_materialization_errors(m) ==
    If(DOMAIN m \ MATERIALIZATION_ALLOWED_KEYS[m.type] # {}, "unknown key")
    \union CASE m.type = "streaming_table" ->
                  LET upsert == ValueOf(m, "write_mode") = "upsert"
                  IN  Odd(m, {"trigger", "write_mode"}) \union Blanks(m, {"checkpoint"})
                      \union (IF upsert THEN If("keys" \notin DOMAIN m, "keys") \union NoNames(m, {"keys"}) ELSE If("keys" \in DOMAIN m, "keys without upsert"))
             [] m.type = "materialized_view" ->
                  Odd(m, {"schedule", "refresh"}) \union Blanks(m, {"comment"}) \union NoNames(m, {"cluster_by", "partition_by"})
                  \union If({"cluster_by", "partition_by"} \subseteq DOMAIN m, "one clustering")
             [] m.type = "table" -> {}
\* The block after normalization: the options given and the defaults of the others.
_normalize_materialization(m) == [key \in DOMAIN m \union DOMAIN Defaults[m.type] |-> ValueOf(m, key)]

\* The writer of a stream: what it starts.
_apply_trigger(trigger) == trigger \in {"available_now", "interval:", "interval:30 seconds"}
write_stream_table(m) ==
    /\ m.write_mode \in {"append", "upsert"} /\ _apply_trigger(m.trigger)
    /\ m.write_mode = "upsert" => "keys" \in DOMAIN m /\ m.keys # <<>>
\* The clauses of the view statement: the first clustering only.
_materialized_view_ddl(m) ==
    (DOMAIN m \intersect {"schedule", "comment"})
    \union (IF "cluster_by" \in DOMAIN m THEN {"cluster_by"} ELSE DOMAIN m \intersect {"partition_by"})

(* Outputs, the contract and the semantic seed. *)

_explicit_output_names(s) ==
    IF s.aggregate THEN Range(s.groupBy) \union Range(s.measures) ELSE IF s.hasSelect THEN Range(s.select) ELSE {}
Explicit(s) == s.aggregate \/ s.hasSelect
_normalize_aggregate(s) ==
    IF ~s.aggregate THEN {}
    ELSE If(s.groupBy = <<>>, "group_by") \union If(s.measures = <<>>, "measures")
         \union If(~IsInjective(s.measures), "duplicate measure")
         \union If(Range(s.measures) \intersect Range(s.groupBy) # {}, "measure collides with group_by")
         \union If(s.having \ _explicit_output_names(s) # {}, "having on unknown column")
         \union If(s.hasSelect, "aggregate and select_final") \union If(s.keepAll, "aggregate and keep_all_columns")
_normalize_agent_ready_metadata(s) ==
    If(s.contract /\ s.output = {}, "output required")
    \union If(Explicit(s) /\ s.output \ _explicit_output_names(s) # {}, "output not produced")
    \union If(~IsInjective(s.grain), "duplicate grain") \union If(Range(s.grain) \ s.output # {}, "grain not in output")
    \union If(s.contract /\ s.from > s.until, "effective dates")
    \union (LET declared == IF s.output # {} THEN s.output ELSE _explicit_output_names(s)
            IN  If(s.dimensions # {} /\ s.output = {} /\ ~Explicit(s), "dimensions without outputs")
                \union If((s.output # {} \/ Explicit(s)) /\ s.dimensions \ declared # {}, "dimension not declared"))

_normalize_schema(s) ==
    If(s.keepAll /\ s.hasSelect, "keep_all_columns and select_final")
    \union _normalize_partials(s) \union SourceErrors(s) \union JoinRefs(s) \union _normalize_aggregate(s)
    \union _normalize_agent_ready_metadata(s) \union _validate_streaming(s) \union _validate_materialized_view(s)
Loads(s) == _normalize_schema(s) = {}

(* The guards that run later. *)

\* aggregating: the names of the registered aggregation rules.
_streaming_preflight(s, mode, aggregating) ==
    \/ mode = "table"
    \/ s.rules \intersect aggregating # {}
    \/ s.aggregate
    \/ \E i \in Streams(s) : LET t == s.tables[i] IN t.devLimit \/ s.devLimit \/ t.qualify \/ t.dedup
Preflight(s, mode, aggregating) == Streams(s) # {} /\ _streaming_preflight(s, mode, aggregating)
VALID_JOIN_TYPES == {"left", "right", "inner", "full", "cross", "left_anti", "left_semi"}
_SQL_JOIN_TYPES == {"inner", "left", "right", "full", "cross", "left_anti", "left_semi"}
_reject_uncompilable(s) ==
    \/ s.rules # {} \/ s.partials # <<>> \/ s.devLimit
    \/ \E t \in Range(s.tables) : t.loader \/ t.source # None \/ t.streaming \/ t.devLimit \/ t.dedup \/ t.qualify

\* A schema that loads is not refused when its stream starts or its view is compiled: the two
\* layers of validation agree.  Only aggregation rules and the table mode, which the loader
\* cannot see, and join types the parser of the joins does not know, are left to the run.
LoadedStreamStarts(s) == Loads(s) => ~Preflight(s, "inline", {})
LoadedViewCompiles(s) ==
    (Loads(s) /\ s.materialization = "materialized_view") =>
        /\ ~_reject_uncompilable(s)
        /\ \A j \in Range(s.joins) : j.type \in VALID_JOIN_TYPES => j.type \in _SQL_JOIN_TYPES

\* The columns the interpreter returns, whatever the tables hold.
Produced(s, columns) ==
    IF s.keepAll THEN columns
    ELSE IF s.hasSelect THEN Range(s.select)
    ELSE IF s.aggregate THEN Range(s.groupBy) \union Range(s.measures) ELSE columns
\* With explicit outputs, what the contract and the semantic seed promise is produced.
PromisesAreProduced(s) ==
    (Loads(s) /\ Explicit(s)) => s.output \union Range(s.grain) \union s.dimensions \subseteq Produced(s, {})

\* A block that loads is one that the writer starts or the statement carries in full, and loading
\* the normalized block again changes nothing.
LoadedMaterializationRuns(m) ==
    LET n == _normalize_materialization(m)
    IN  _materialization_errors(m) = {} =>
            /\ _materialization_errors(n) = {} /\ _normalize_materialization(n) = n
            /\ m.type = "streaming_table" => write_stream_table(n)
            /\ m.type = "materialized_view" => _materialized_view_ddl(n) = DOMAIN n \ {"type", "refresh"}

\* The interpreter keys the loaded tables by alias, by name when there is none, and falls back
\* to the first loaded one when the first join names another.
AliasOf(t) == IF t.alias = None THEN t.name ELSE t.alias
LoadedNames(s) == [i \in DOMAIN s.partials |-> s.partials[i].alias] \o [i \in DOMAIN s.tables |-> AliasOf(s.tables[i])]
base_alias(s) ==
    IF s.joins # <<>> /\ s.joins[1].from \in Range(LoadedNames(s)) THEN s.joins[1].from ELSE LoadedNames(s)[1]
\* Another table is loaded under a name the stream goes by: the loader keeps the two apart only
\* when one of them is a partial.
Shadowed(s) == \E i \in DOMAIN s.tables \ Streams(s) : AliasOf(s.tables[i]) \in TableRefs(Stream(s))
\* The stream that the loader accepts as the base of the joins is what the interpreter starts
\* from, if the first join calls it by the name it is loaded under and no other table has it.
StreamIsTheBase(s) ==
    (/\ Loads(s) /\ Streams(s) # {} /\ ~Shadowed(s)
     /\ s.joins # <<>> /\ s.joins[1].from \in Range(LoadedNames(s)))
        => base_alias(s) = AliasOf(Stream(s))

(* Loading partials: graph maps a file to the files of its partials, in order. *)

\* A call loads a file below the files of seen.  It is refused when the file is one of these or
\* the call of one of its partials is, which deeper does not hold.
Accepted(graph, depth, deeper) ==
    {call \in (DOMAIN graph) \X (SUBSET DOMAIN graph) :
        LET file == call[1]  seen == call[2]
        IN  /\ file \notin seen
            /\ depth > 0 => \A i \in DOMAIN graph[file] : <<graph[file][i], seen \union {file}>> \in deeper}
\* The chain never holds a file twice, so the number of files bounds its depth.
Loading(graph) ==
    LET load[depth \in 0..Cardinality(DOMAIN graph)] == Accepted(graph, depth, IF depth = 0 THEN {} ELSE load[depth - 1])
    IN  load
load_schema(graph, root) == <<root, {}>> \in Loading(graph)[Cardinality(DOMAIN graph)]

Reaches(graph, f, g) ==
    \E k \in 1..Cardinality(DOMAIN graph) : \E path \in [0..k -> DOMAIN graph] :
        path[0] = f /\ path[k] = g /\ \A i \in 1..k : path[i] \in Range(graph[path[i - 1]])
\* A schema loads exactly when no file it reaches includes itself: a file two partials share is no cycle.
CyclesAreRefused(graph, root) ==
    load_schema(graph, root) <=> \A f \in DOMAIN graph : (f = root \/ Reaches(graph, root, f)) => ~Reaches(graph, f, f)
==============================================================================
