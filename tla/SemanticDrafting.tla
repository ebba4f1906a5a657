--------------------------- MODULE SemanticDrafting --------------------------
(***************************************************************************)
(* From a pipeline to a semantic model: the static projection of its       *)
(* outputs (semantic/output_projection.py), the generated draft            *)
(* (semantic/draft_builder.py) and its enrichment by a language model      *)
(* (semantic/builder.py).  Unknown types and absent values are "".         *)
(***************************************************************************)
EXTENDS Naturals, Sequences, FiniteSets, SequencesExt

M == INSTANCE SemanticModels

None == ""
Untyped == [type |-> None, status |-> "unknown"]
Known(type) == [type |-> type, status |-> "known"]

(* The projection. *)

_CAST_TYPES == [int |-> "int", double |-> "double", date |-> "date"]
_AGGREGATE_TYPES == [count |-> "long", avg |-> "double"]

\* What one operation leaves of the type; an unlisted one leaves it alone.
OpType(seen, op) ==
    CASE op.name = "cast" -> IF op.arg \in DOMAIN _CAST_TYPES THEN Known(_CAST_TYPES[op.arg])
                             ELSE [seen EXCEPT !.type = None]
      [] op.name \in {"length", "ceil"} -> Known("long")
      [] op.name \in {"upper", "trim", "split", "lit"} -> Known("string")
      [] op.name = "to_date" -> Known("date")
      [] op.name \in {"coalesce", "nvl"} -> Untyped
      [] OTHER -> seen
ColumnType(spec) ==
    IF spec.conditional \/ \E i \in DOMAIN spec.ops : spec.ops[i].name = "expr" THEN Untyped
    ELSE FoldLeft(OpType, Untyped, spec.ops)

\* declarations: name to [type, entity] of contract.output.
_apply_declaration(name, typed, sources, func, declarations) ==
    LET declared == name \in DOMAIN declarations
        logical == IF declared THEN declarations[name].type ELSE None
    IN  [name |-> name, physical |-> typed.type, logical |-> logical, sources |-> sources, func |-> func,
         status |-> IF logical # None /\ typed.status = "unknown" THEN "declared" ELSE typed.status]

_project_column(spec, declarations) ==
    _apply_declaration(spec.target, ColumnType(spec), IF spec.source = None THEN {} ELSE {spec.source}, None, declarations)

_project_aggregate(p) ==
    [i \in DOMAIN p.groupBy |-> _apply_declaration(p.groupBy[i], Untyped, {p.groupBy[i]}, None, p.output)]
    \o [i \in DOMAIN p.measures |->
          LET m == p.measures[i]
              type == IF m.func \in DOMAIN _AGGREGATE_TYPES THEN Known(_AGGREGATE_TYPES[m.func]) ELSE Untyped
          IN  _apply_declaration(m.target, type, IF m.source = "*" THEN {} ELSE {m.source}, m.func, p.output)]

\* A selected column that an added column computes: the code builds the field
\* without its entity and raises.
SelectsDerived(p) == \E s \in Range(p.columns), d \in Range(p.added) : s.source = d.target
ProjectionRaises(p) == p.kind = "select" /\ SelectsDerived(p)

Opaque(field) == [field EXCEPT !.physical = None, !.status = "unknown"]     \* after a Python rule
project(p) ==
    LET fields == CASE p.kind = "aggregate" -> _project_aggregate(p)
                    [] p.kind = "select" -> [i \in DOMAIN p.columns |-> _project_column(p.columns[i], p.output)]
                    [] p.kind = "keep_all" -> [i \in DOMAIN p.added |-> _project_column(p.added[i], p.output)]
                    [] OTHER -> <<>>
    IN  IF p.rules THEN [i \in DOMAIN fields |-> Opaque(fields[i])] ELSE fields

(* The draft. *)

_DIMENSION_TYPE_MAP == [int |-> "integer", long |-> "integer", double |-> "float", number |-> "float", date |-> "date",
                        string |-> "string"]
_map_dimension_type(field) ==
    LET types == SelectSeq(<<field.logical, field.physical>>, LAMBDA t : t \in DOMAIN _DIMENSION_TYPE_MAP)
    IN  IF types = <<>> THEN None ELSE _DIMENSION_TYPE_MAP[types[1]]

LastField(fields, name) == fields[CHOOSE i \in DOMAIN fields :
    fields[i].name = name /\ \A j \in DOMAIN fields : fields[j].name = name => j <= i]
Projected(fields) == {f.name : f \in Range(fields)}

Structural(p, fields, name) ==
    /\ name \in Projected(fields)
    /\ \/ name \in DOMAIN p.output
       \/ name = p.time
       \/ /\ LastField(fields, name).status # "unknown"
          /\ _map_dimension_type(LastField(fields, name)) # None

_validate_explicit_dimensions(p, fields) == \A name \in Range(p.dimensions) \union ({p.time} \ {None}) : name \in Projected(fields)

Unique(names) == FoldLeft(LAMBDA kept, n : IF n \in Range(kept) THEN kept ELSE Append(kept, n), <<>>, names)
_collect_dimension_names(p, fields) ==
    Unique(SelectSeq((IF p.kind = "aggregate" THEN p.groupBy ELSE <<>>) \o p.grain, LAMBDA n : Structural(p, fields, n))
           \o p.dimensions \o (IF p.time = None THEN <<>> ELSE <<p.time>>))

_build_dimension(field) == [name |-> field.name, sql |-> field.name, type |-> _map_dimension_type(field)]

Metric(name, sql, type) ==
    [name |-> name, sql |-> sql, type |-> type, aggregated |-> FALSE, additivity |-> "additive", restricts |-> FALSE, restricted |-> {}]
_build_metrics(fields) ==
    LET mapped == SelectSeq(fields, LAMBDA f : f.func \in M!VALID_AGG_TYPES)
        metrics == [i \in DOMAIN mapped |->
                      Metric(mapped[i].name, IF mapped[i].sources = {} THEN "*" ELSE CHOOSE s \in mapped[i].sources : TRUE, mapped[i].func)]
    IN  IF metrics = <<>> THEN <<Metric("row_count", "*", "count")>> ELSE metrics

build_draft(p) ==
    LET fields == project(p)
        names == _collect_dimension_names(p, fields)
    IN  [name |-> "model", table |-> "table", calendar |-> None, grain |-> <<>>, policy |-> [given |-> FALSE],
         entities |-> <<>>, relationships |-> <<>>,
         dimensions |-> [i \in DOMAIN names |-> _build_dimension(LastField(fields, names[i]))],
         metrics |-> _build_metrics(fields)]
Builds(p) == ~ProjectionRaises(p) /\ _validate_explicit_dimensions(p, project(p))

(* The join proposals. *)

\* deduplicated: the keys on which a source table drops duplicates;
\* grainSources: the source columns of the declared grain.
_uniqueness_evidence(deduplicated, keys, grainSources) ==
    CASE deduplicated = keys -> "unique_check"
      [] grainSources = keys -> "contract_grain"
      [] OTHER -> None
_cardinality(left, right) ==
    CASE left # None /\ right # None -> "one_to_one"
      [] right # None -> "many_to_one"
      [] left # None -> "one_to_many"
      [] OTHER -> "unknown"
Eligible(j) == j.type \in {"inner", "left"} /\ Cardinality(j.entities) = 1 /\ M!_SAFE_IDENTIFIER(j.target)
ProposedCardinality(j) ==
    _cardinality(_uniqueness_evidence(j.left.deduplicated, j.left.keys, j.grainSources),
                 _uniqueness_evidence(j.right.deduplicated, j.right.keys, j.grainSources))

(* The enrichment: the answer of the language model is merged into the draft. *)

_changes_managed_field(item, answer) ==
    answer.unknown \/ (answer.sql # None /\ answer.sql # item.sql) \/ (answer.type # None /\ answer.type # item.type)
Described(item, answer) ==
    IF _changes_managed_field(item, answer) \/ answer.text = None THEN item ELSE [item EXCEPT !.text = answer.text]
_sanitize_new_metric(answer, outputs) ==
    /\ ~answer.unknown /\ M!_SAFE_IDENTIFIER(answer.name)
    /\ answer.type \in M!VALID_AGG_TYPES
    /\ IF answer.sql = "*" THEN answer.type = "count" ELSE answer.sql \in outputs

MergeAnswer(metrics, answer, outputs) ==
    IF \E m \in metrics : m.name = answer.name
    THEN {IF m.name = answer.name /\ m.managed THEN Described(m, answer) ELSE m : m \in metrics}
    ELSE IF _sanitize_new_metric(answer, outputs)
         THEN metrics \union {[name |-> answer.name, sql |-> answer.sql, type |-> answer.type, text |-> answer.text, managed |-> FALSE]}
         ELSE metrics
_merge_metrics(managed, answers, outputs) == FoldLeft(LAMBDA ms, a : MergeAnswer(ms, a, outputs), managed, answers)
------------------------------------------------------------------------------
\* The validator accepts every draft that has a dimension, distinct outputs and
\* the outputs its contract promises: generation and validation agree.
GeneratedDraftIsValid(in) ==
    LET p == in.pipeline
        fields == project(p)
    IN  Builds(p) =>
          (M!validate_against_projection(<<build_draft(p)>>, [n \in Projected(fields) |-> LastField(fields, n).sources], DOMAIN p.output)
             <=> /\ build_draft(p).dimensions # <<>> /\ DOMAIN p.output \subseteq Projected(fields)
                 /\ \A i, j \in DOMAIN fields : i # j /\ fields[i].func \in M!VALID_AGG_TYPES /\ fields[j].func \in M!VALID_AGG_TYPES
                        => fields[i].name # fields[j].name)

\* What Spark makes of a column of unknown type: the reference of the projection.
SparkType(type, op) ==
    CASE op.name = "cast" -> op.arg
      [] op.name \in {"length", "ceil"} -> "long"
      [] op.name \in {"upper", "trim", "split", "lit"} -> "string"
      [] op.name = "to_date" -> "date"
      [] op.name = "round" -> IF type \in {"int", "long", "double"} THEN type ELSE "double"
      [] OTHER -> "any"

\* A dimension the draft types without a declaration has the type the engine
\* computes; after a Python rule, an expression or a conditional nothing is typed.
DraftGuessesNothing(in) ==
    LET p == in.pipeline
    IN  Builds(p) =>
          \A d \in Range(build_draft(p).dimensions) :
             d.type # None /\ d.name \notin DOMAIN p.output /\ p.kind # "aggregate" =>
               /\ ~p.rules
               /\ \E s \in Range(p.columns \o p.added) :
                    s.target = d.name /\ ~s.conditional /\
                    LET t == FoldLeft(SparkType, "any", s.ops)
                    IN  t \in DOMAIN _DIMENSION_TYPE_MAP /\ _DIMENSION_TYPE_MAP[t] = d.type

\* A dimension that nobody declared or listed has a known type.
UndeclaredDimensionIsKnown(in) ==
    LET p == in.pipeline
    IN  Builds(p) => \A d \in Range(build_draft(p).dimensions) :
          d.type = None => d.name \in (DOMAIN p.output) \union Range(p.dimensions) \union {p.time}

\* A proposed cardinality holds for the rows that are joined, if the tables are
\* deduplicated as they say and a pipeline without aggregation has its grain.
\* rows: how often each key value occurs on either side.
ProposedCardinalityHolds(in) ==
    LET c == ProposedCardinality(in.join)
        kept == {k \in DOMAIN in.rows : in.rows[k].left > 0 /\ in.rows[k].right > 0}
        out(k) == in.rows[k].left * (IF in.join.type = "left" /\ in.rows[k].right = 0 THEN 1 ELSE in.rows[k].right)
    IN  /\ Eligible(in.join)
        /\ in.join.left.deduplicated = in.join.left.keys => \A k \in DOMAIN in.rows : in.rows[k].left <= 1
        /\ in.join.right.deduplicated = in.join.right.keys => \A k \in DOMAIN in.rows : in.rows[k].right <= 1
        /\ in.join.grainSources \in {in.join.left.keys, in.join.right.keys} => \A k \in DOMAIN in.rows : out(k) <= 1
        => /\ c \in {"one_to_one", "one_to_many"} => \A k \in kept : in.rows[k].left = 1
           /\ c \in {"one_to_one", "many_to_one"} => \A k \in kept : in.rows[k].right = 1

\* Whatever the language model answers, in however many items, what the pipeline
\* manages stays as it is and new metrics read projected outputs only.
EnrichmentKeepsManaged(in) ==
    LET merged == _merge_metrics(in.managed, in.answers, in.outputs)
    IN  /\ \A m \in in.managed : \E n \in merged : [n EXCEPT !.text = m.text] = m
        /\ \A n \in merged : ~n.managed => n.sql \in in.outputs \union {"*"} /\ \A m \in in.managed : n.name # m.name
        /\ \A m, n \in merged : m.name = n.name => m = n
==============================================================================
