---------------------------- MODULE SemanticModels ---------------------------
(***************************************************************************)
(* What the validator accepts (semantic/validator.py, domain.py,           *)
(* calendar.py) and what the planner and the compiler later demand of an   *)
(* accepted model.  Names are model values; those in Unsafe are not SQL    *)
(* identifiers.  A list item that is not a mapping is written Malformed.   *)
(***************************************************************************)
EXTENDS Integers, Sequences, FiniteSets, SequencesExt

Unsafe == {"bad name"}
Missing == ""
Malformed == [malformed |-> TRUE]
IsMapping(item) == "malformed" \notin DOMAIN item
_SAFE_IDENTIFIER(name) == name # Missing /\ name \notin Unsafe

VALID_AGG_TYPES == {"sum", "count", "count_distinct", "avg", "min", "max"}
METRIC_ADDITIVITY == {"additive", "semi_additive", "non_additive"}
RELATIONSHIP_CARDINALITIES == {"one_to_one", "one_to_many", "many_to_one", "many_to_many", "unknown"}
RELATIONSHIP_JOIN_TYPES == {"inner", "left"}
ENTITY_ROLES == {"primary", "foreign", "unique"}
------------------------------------------------------------------------------
Distinct(items) == \A i, j \in DOMAIN items : items[i].name = items[j].name => i = j
AllMappings(items) == \A i \in DOMAIN items : IsMapping(items[i])

_check_required_fields(m) == m.name # Missing /\ m.table # Missing /\ m.dimensions # <<>> /\ m.metrics # <<>>
_check_dimensions(m) ==
    /\ AllMappings(m.dimensions) /\ Distinct(m.dimensions)
    /\ \A d \in Range(m.dimensions) : _SAFE_IDENTIFIER(d.name) /\ d.sql # Missing
_check_metrics(m) ==
    /\ AllMappings(m.metrics) /\ Distinct(m.metrics)
    /\ \A x \in Range(m.metrics) :
          /\ _SAFE_IDENTIFIER(x.name) /\ x.sql # Missing /\ ~x.aggregated
          /\ x.type \in VALID_AGG_TYPES /\ x.additivity \in METRIC_ADDITIVITY
          /\ x.additivity = "additive" => ~x.restricts
          /\ x.additivity = "semi_additive" =>
                x.restricts /\ x.restricted # {} /\ x.restricted \subseteq {d.name : d \in Range(m.dimensions)}
_check_row_policy(m) == m.policy.given => m.policy.exact /\ _SAFE_IDENTIFIER(m.policy.column) /\ _SAFE_IDENTIFIER(m.policy.attribute)

\* parse_*: items that are not mappings are skipped by the parser, and so
\* refused by the validator first.
parse_entities(m) == SelectSeq(m.entities, IsMapping)
parse_relationships(m) == SelectSeq(m.relationships, IsMapping)
_check_grain(m) ==
    LET names == {e.name : e \in Range(parse_entities(m))} \ {Missing}
    IN IsInjective(m.grain) /\ \A g \in Range(m.grain) : _SAFE_IDENTIFIER(g) /\ (names # {} => g \in names)
_check_entities(m) ==
    /\ Distinct(parse_entities(m))
    /\ \A e \in Range(parse_entities(m)) :
          /\ _SAFE_IDENTIFIER(e.name) /\ e.role \in ENTITY_ROLES /\ e.keys # <<>>
          /\ IsInjective(e.keys) /\ \A k \in Range(e.keys) : _SAFE_IDENTIFIER(k)
_check_relationships(m) ==
    /\ Distinct(parse_relationships(m))
    /\ \A r \in Range(parse_relationships(m)) :
          /\ _SAFE_IDENTIFIER(r.name) /\ _SAFE_IDENTIFIER(r.from) /\ r.from \in {e.name : e \in Range(parse_entities(m))}
          /\ _SAFE_IDENTIFIER(r.to) /\ _SAFE_IDENTIFIER(r.toEntity) /\ ~(r.to = m.name /\ r.from = r.toEntity)
          /\ r.cardinality \in RELATIONSHIP_CARDINALITIES \ {"unknown"} /\ r.join \in RELATIONSHIP_JOIN_TYPES
_check_domain(m) ==
    /\ AllMappings(m.entities) /\ AllMappings(m.relationships)
    /\ _check_grain(m) /\ _check_entities(m) /\ _check_relationships(m)
validate(m) ==
    /\ _check_required_fields(m)
    /\ _check_dimensions(m) /\ _check_metrics(m) /\ _check_row_policy(m) /\ _check_domain(m)
    /\ m.calendar # Missing => _SAFE_IDENTIFIER(m.calendar)

\* Only targets that are in the same file are looked up.
_check_relationship_targets(m, models) ==
    \A r \in Range(parse_relationships(m)) : \A n \in Range(models) :
        n.name = r.to => r.toEntity \in {e.name : e \in Range(parse_entities(n))} \ {Missing}
validate_yaml(models) ==
    models # <<>> /\ \A i \in DOMAIN models : validate(models[i]) /\ _check_relationship_targets(models[i], models)

\* The columns a pipeline produces: field name to the names it is made from.
validate_against_projection(models, fields, contract) ==
    /\ validate_yaml(models) /\ contract \subseteq DOMAIN fields
    /\ \A m \in Range(models) :
          /\ \A d \in Range(m.dimensions) : d.sql \in DOMAIN fields
          /\ \A x \in Range(m.metrics) : x.sql \in (DOMAIN fields) \union {"*"}
                 \union (IF x.name \in DOMAIN fields THEN fields[x.name] ELSE {})
------------------------------------------------------------------------------
\* Periods are [name, start, end].
parse_calendar(payload) ==
    /\ _SAFE_IDENTIFIER(payload.key) /\ payload.version # Missing /\ payload.periods # <<>>
    /\ AllMappings(payload.periods) /\ Distinct(payload.periods)
    /\ \A p \in Range(payload.periods) : _SAFE_IDENTIFIER(p.name) /\ p.start <= p.end
resolve_period(payload, name) == {p \in Range(payload.periods) : p.name = name}
\* A file is used under the key it declares; files maps a key to its payload.
_get_calendar(files, key) == {c \in {files[k] : k \in {key} \intersect DOMAIN files} : parse_calendar(c) /\ c.key = key}
\* The dates of a query: none, a set of one pair, or no answer ({}).
NoDates == [from |-> 0, to |-> 0]
_resolve_dates(root, query, files) ==
    IF query.period = Missing THEN {query.dates}
    ELSE IF query.dates # NoDates \/ ~_SAFE_IDENTIFIER(root.calendar) THEN {}
    ELSE {[from |-> p.start, to |-> p.end] : p \in UNION {resolve_period(c, query.period) : c \in _get_calendar(files, root.calendar)}}
------------------------------------------------------------------------------
\* The first definition of a name is the one that is used.
_definition(items, name) == items[CHOOSE i \in DOMAIN items : items[i].name = name /\ \A j \in 1..(i - 1) : items[j].name # name]
\* What the planner and the compiler raise an error about.
CompilesMetric(m, name) ==
    LET x == _definition(m.metrics, name)
    IN x.type \in VALID_AGG_TYPES /\ _SAFE_IDENTIFIER(name)
       /\ x.additivity = "semi_additive" => x.restricted # {} /\ x.restricted \subseteq {d.name : d \in Range(m.dimensions)}
CompilesPolicy(m) == m.policy.given => m.policy.exact /\ _SAFE_IDENTIFIER(m.policy.column) /\ _SAFE_IDENTIFIER(m.policy.attribute)
CompilesJoin(r) == r.join \in RELATIONSHIP_JOIN_TYPES /\ r.cardinality \in RELATIONSHIP_CARDINALITIES \ {"unknown"}

\* A period means one window, that of the calendar the model declares, in
\* the right order and never beside other dates; a model and a calendar that
\* are accepted answer every period the calendar declares.
PeriodIsOneWindow(in) ==
    LET answer == _resolve_dates(in.root, in.query, in.files)
        own    == _get_calendar(in.files, in.root.calendar)
    IN in.query.period # Missing =>
          /\ Cardinality(answer) <= 1
          /\ answer # {} => in.query.dates = NoDates /\ \A d \in answer : d.from <= d.to /\
                \E p \in Range(in.files[in.root.calendar].periods) : p.name = in.query.period /\ d = [from |-> p.start, to |-> p.end]
          /\ \A c \in own : in.query.dates = NoDates /\ _SAFE_IDENTIFIER(in.root.calendar)
                             /\ in.query.period \in {p.name : p \in Range(c.periods)} => answer # {}

\* An accepted model never fails later for its own shape: every metric,
\* dimension, policy and relationship can be compiled, and a name
\* means the same definition to the catalogue and to the compiler.
AcceptedModelCompiles(in) ==
    validate_yaml(in.models) =>
        \A m \in Range(in.models) :
            /\ \A x \in Range(m.metrics) : CompilesMetric(m, x.name) /\ _definition(m.metrics, x.name) = x
            /\ \A d \in Range(m.dimensions) : _definition(m.dimensions, d.name) = d
            /\ CompilesPolicy(m)
            /\ \A r \in Range(m.relationships) : CompilesJoin(r) /\ \A n \in Range(in.models) :
                  n.name = r.to => \E e \in Range(n.entities) : e.name = r.toEntity /\ e.keys # <<>>
==============================================================================
