--------------------------- MODULE SemanticPlanning --------------------------
(***************************************************************************)
(* Names, join paths and the safety checks of a semantic query             *)
(* (semantic/domain_graph.py, semantic/planner.py).  A model key and a     *)
(* reference are sequences of name parts.  A catalogue maps a key to       *)
(* [metrics, dimensions, related, relationships, policy]; metrics and      *)
(* dimensions map names to definitions, a relationship is                  *)
(* [name, to, cardinality, join, verified, pairs].                         *)
(***************************************************************************)
EXTENDS Integers, Sequences, FiniteSets, FiniteSetsExt, SequencesExt

CONSTANTS MaxDepth, MaxModels     \* limits of DomainGraph

Error(why) == [ok |-> FALSE, why |-> why]
------------------------------------------------------------------------------
\* A relationship is walked backwards only when it is a verified one_to_one,
\* and only from a model its owner names in related_models.
Edge(from, r, to, reverse) == [source |-> from, target |-> to, relationship |-> r, reverse |-> reverse]
_can_traverse_reverse(r) == r.cardinality = "one_to_one" /\ r.verified
_build_inbound_candidates(catalog, m) == {k \in DOMAIN catalog : m \in catalog[k].related}
neighbors(catalog, m) ==
    {Edge(m, r, r.to, FALSE) : r \in catalog[m].relationships}
    \union UNION {{Edge(m, r, k, TRUE) : r \in {r \in catalog[k].relationships : r.to = m /\ _can_traverse_reverse(r)}} :
                     k \in _build_inbound_candidates(catalog, m)}

_path_models(start, path) == {start} \union {path[i].target : i \in DOMAIN path}
EndOf(start, path) == IF path = <<>> THEN start ELSE Last(path).target
Extensions(catalog, start, paths) ==
    UNION {{Append(p, e) : e \in {e \in neighbors(catalog, EndOf(start, p)) : e.target \notin _path_models(start, p)}} :
              p \in paths}

\* The queue is first in, first out: it is walked one depth at a time.
\* level[d]: the paths of d edges in the queue and the models seen so far.
\* Mutant of Levels: a model is entered once, by the first path only.
LevelsOnce(catalog, start, target) ==
    LET level[d \in 0..MaxDepth] ==
            IF d = 0 THEN [paths |-> {<<>>}, seen |-> {start}]
            ELSE LET before == level[d - 1]
                     all == {p \in Extensions(catalog, start, before.paths) :
                                Last(p).target # target /\ Last(p).target \notin before.seen}
                     new == {CHOOSE p \in all : Last(p).target = m : m \in {Last(p).target : p \in all}}
                 IN [paths |-> new, seen |-> before.seen \union {Last(p).target : p \in new}]
    IN level
Levels(catalog, start, target) ==
    LET level[d \in 0..MaxDepth] ==
            IF d = 0 THEN [paths |-> {<<>>}, seen |-> {start}]
            ELSE LET before == level[d - 1]
                     new == {p \in Extensions(catalog, start, before.paths) :
                                Last(p).target # target /\ Last(p).target \notin before.seen}
                 IN [paths |-> new, seen |-> before.seen \union {Last(p).target : p \in new}]
    IN level

\* Every shortest path, none, or an error at a limit of the search.
find_paths(catalog, start, target) ==
    LET level == Levels(catalog, start, target)
        Arrivals(d) == {p \in Extensions(catalog, start, level[d].paths) : Last(p).target = target}
        depths == {d \in 0..(MaxDepth - 1) : Arrivals(d) # {}}
        searched == IF depths = {} THEN MaxDepth ELSE Min(depths) + 1
    IN IF start = target THEN [ok |-> TRUE, paths |-> {<<>>}]
       ELSE IF \E d \in 0..MaxDepth : d <= searched /\ Cardinality(level[d].seen) > MaxModels THEN Error("model limit")
       ELSE IF depths # {} THEN [ok |-> TRUE, paths |-> Arrivals(Min(depths))]
       ELSE IF \E p \in level[MaxDepth].paths : \E e \in neighbors(catalog, EndOf(start, p)) :
                   e.target \notin _path_models(start, p) THEN Error("depth limit")
       ELSE [ok |-> TRUE, paths |-> {}]
------------------------------------------------------------------------------
\* A qualified reference belongs to the longest model key it starts with.
_split_qualified_reference(catalog, ref) ==
    LET matches == {k \in DOMAIN catalog : IsStrictPrefix(k, ref)}
        owner == CHOOSE k \in matches : \A j \in matches : Len(j) <= Len(k)
    IN IF matches = {} THEN [found |-> FALSE]
       ELSE [found |-> TRUE, owner |-> owner, name |-> SubSeq(ref, Len(owner) + 1, Len(ref))]

Members(catalog, kind, m) == DOMAIN catalog[m][kind]

_resolve_owner(catalog, kind, ref, root) ==
    LET split == _split_qualified_reference(catalog, ref)
        candidates == {k \in DOMAIN catalog : ref[1] \in Members(catalog, kind, k)}
    IN IF split.found
       THEN IF Len(split.name) = 1 /\ split.name[1] \in Members(catalog, kind, split.owner)
            THEN [ok |-> TRUE, model |-> split.owner, name |-> split.name[1], reference |-> ref] ELSE Error("unknown name")
       ELSE IF Len(ref) # 1 THEN Error("unsafe name")
       ELSE IF ref[1] \in Members(catalog, kind, root) THEN [ok |-> TRUE, model |-> root, name |-> ref[1], reference |-> ref]
       ELSE IF Cardinality(candidates) > 1 THEN Error("ambiguous name")
       ELSE IF candidates = {} THEN Error("unknown name")
       ELSE [ok |-> TRUE, model |-> CHOOSE k \in candidates : TRUE, name |-> ref[1], reference |-> ref]
------------------------------------------------------------------------------
_FANS_WHEN_TRAVERSED_FORWARD == {"one_to_many", "many_to_many"}
_FANS_WHEN_TRAVERSED_BACKWARD == {"many_to_one", "many_to_many"}
\* Both directions of every join, with the cardinalities that fan it out.
Steps(joins) ==
    {[from |-> j.source, to |-> j.target, fans |-> j.cardinality \in _FANS_WHEN_TRAVERSED_FORWARD] : j \in joins}
    \union {[from |-> j.target, to |-> j.source, fans |-> j.cardinality \in _FANS_WHEN_TRAVERSED_BACKWARD] : j \in joins}

\* Outward from the metric's model; the joins of a plan form a tree.
Reached(model, joins) ==
    LET seen[n \in 0..Cardinality(joins)] ==
            IF n = 0 THEN {model}
            ELSE seen[n - 1] \union {s.to : s \in {s \in Steps(joins) : s.from \in seen[n - 1] /\ ~s.fans}}
    IN seen[Cardinality(joins)]
find_unsafe_fanout(models, joins) ==
    \E m \in models : \E s \in Steps(joins) :
        s.fans /\ s.from \in Reached(m, joins) /\ s.to \notin Reached(m, joins)

_plan_join(edge, isMetricQuery) ==
    IF isMetricQuery /\ edge.relationship.cardinality \in {"unknown", "many_to_many"} THEN Error("cardinality")
    ELSE IF ~edge.relationship.pairs THEN Error("composite keys")
    ELSE [ok |-> TRUE, join |-> [source |-> edge.source, target |-> edge.target, relationship |-> edge.relationship.name,
                                cardinality |-> edge.relationship.cardinality, type |-> edge.relationship.join]]

\* A definition of a metric is [additivity, restricted].
_check_metric_additivity(catalog, query, metrics, dimensions, joins) ==
    LET Of(ref) == CHOOSE d \in dimensions : d.reference = ref
        pinned == {<<Of(r).model, Of(r).name>> : r \in query.groupBy
                                \union {f.column : f \in {f \in query.filters : f.operator = "eq"}}}
    IN \A m \in metrics :
          LET metric == catalog[m.model].metrics[m.name]
          IN /\ metric.additivity = "non_additive" => joins = {}
             /\ metric.additivity = "semi_additive" =>
                   /\ metric.restricted # {}
                   /\ metric.restricted \subseteq DOMAIN catalog[m.model].dimensions
                   /\ \A d \in metric.restricted : <<m.model, d>> \in pinned

\* A row policy names the attribute the reader must have.
RowPolicies(catalog, models, attributes) ==
    {[model |-> m, attribute |-> catalog[m].policy] : m \in {m \in Range(models) : catalog[m].policy # "none"}}

\* The models in the order the joins need them.
RequiredModels(root, joins) ==
    FoldLeft(LAMBDA acc, j : LET one == IF Contains(acc, j.source) THEN acc ELSE Append(acc, j.source)
                             IN IF Contains(one, j.target) THEN one ELSE Append(one, j.target), <<root>>, joins)

\* The last steps of plan: joins, fan-out, additivity and row policies.
PlanRows(catalog, query, attributes, metrics, dimensions, joins, models) ==
    IF find_unsafe_fanout({m.model : m \in Range(metrics)}, Range(joins)) THEN Error("fanout")
    ELSE IF ~_check_metric_additivity(catalog, query, Range(metrics), Range(dimensions), Range(joins)) THEN Error("additivity")
    ELSE IF \E f \in RowPolicies(catalog, models, attributes) : f.attribute \notin attributes THEN Error("denied")
    ELSE [ok |-> TRUE, models |-> models, joins |-> joins, metrics |-> Range(metrics),
          filters |-> RowPolicies(catalog, models, attributes)]
PlanJoins(catalog, query, attributes, metrics, dimensions, planned) ==
    IF \E r \in Range(planned) : ~r.ok THEN (CHOOSE r \in Range(planned) : ~r.ok)
    ELSE LET joins == [i \in DOMAIN planned |-> planned[i].join]
         IN PlanRows(catalog, query, attributes, metrics, dimensions, joins, RequiredModels(query.root, joins))
\* found: the paths to the models of the references, in their order.
PlanPaths(catalog, query, attributes, metrics, dimensions, found) ==
    IF \E r \in Range(found) : ~r.ok THEN (CHOOSE r \in Range(found) : ~r.ok)
    ELSE IF \E r \in Range(found) : r.paths = {} THEN Error("no path")
    ELSE IF \E r \in Range(found) : Cardinality(r.paths) > 1 THEN Error("ambiguous path")
    ELSE LET edges == FoldLeft(LAMBDA acc, e : IF Contains(acc, e) THEN acc ELSE Append(acc, e), <<>>,
                               FlattenSeq([i \in DOMAIN found |-> CHOOSE p \in found[i].paths : TRUE]))
         IN PlanJoins(catalog, query, attributes, metrics, dimensions,
                      [i \in DOMAIN edges |-> _plan_join(edges[i], query.metrics # <<>>)])
PlanNames(catalog, query, attributes, metrics, dimensions) ==
    LET all == metrics \o dimensions
        owners == SelectSeq([i \in DOMAIN all |-> all[i].model], LAMBDA m : m # query.root)
    IN IF \E r \in Range(all) : ~r.ok THEN (CHOOSE r \in Range(all) : ~r.ok)
       ELSE PlanPaths(catalog, query, attributes, metrics, dimensions,
                      [i \in DOMAIN owners |-> find_paths(catalog, query.root, owners[i])])
plan(catalog, query, attributes) ==
    LET Resolve(kind, refs) == [i \in DOMAIN refs |-> _resolve_owner(catalog, kind, refs[i], query.root)]
        references == SetToSeq(query.groupBy) \o SetToSeq({f.column : f \in query.filters} \ query.groupBy)
    IN PlanNames(catalog, query, attributes, Resolve("metrics", query.metrics), Resolve("dimensions", references))
------------------------------------------------------------------------------
SimplePaths(catalog, start, target) ==
    LET of[n \in 0..Cardinality(DOMAIN catalog)] ==
            IF n = 0 THEN {<<>>} ELSE Extensions(catalog, start, of[n - 1])
    IN {p \in UNION {of[n] : n \in DOMAIN of} : EndOf(start, p) = target}

\* The search finds every shortest way to join two models, so that an
\* ambiguity is never overlooked, and "no path" means that there is none.
FindPathsIsShortest(in) ==
    LET all == SimplePaths(in.catalog, in.start, in.target)
        length == Min({Len(p) : p \in all})
        result == find_paths(in.catalog, in.start, in.target)
    IN /\ result.ok => result.paths = {p \in all : Len(p) = length}
       /\ ~result.ok /\ result.why = "depth limit" => \A p \in all : Len(p) > MaxDepth

\* Rows 1..2 of each model; a join relates rows as its cardinality promises.
Related(join) ==
    {r \in SUBSET ((1..2) \X (1..2)) :
        /\ join.cardinality \in {"many_to_one", "one_to_one"} => \A p, q \in r : p[1] = q[1] => p = q
        /\ join.cardinality \in {"one_to_many", "one_to_one"} => \A p, q \in r : p[2] = q[2] => p = q}
Null == 0
JoinRows(rows, join, related) ==
    UNION {LET matches == {p[2] : p \in {p \in related : p[1] = t[join.source]}}
               with == IF matches = {} /\ join.type = "left" THEN {Null} ELSE matches
           IN {[m \in (DOMAIN t) \union {join.target} |-> IF m = join.target THEN n ELSE t[m]] : n \in with} : t \in rows}
Rows(root, joins, data) ==
    LET after[n \in 0..Len(joins)] ==
            IF n = 0 THEN {[m \in {root} |-> r] : r \in 1..2} ELSE JoinRows(after[n - 1], joins[n], data[n])
    IN after[Len(joins)]

\* Whatever the tables hold, an accepted plan counts no row of a metric twice.
CountsOnce(in, p) ==
    LET Tables == {d \in [DOMAIN p.joins -> SUBSET ((1..2) \X (1..2))] : \A i \in DOMAIN d : d[i] \in Related(p.joins[i])}
    IN p.ok => \A d \in Tables : \A m \in p.metrics : \A r \in 1..2 :
                   Cardinality({t \in Rows(in.query.root, p.joins, d) : t[m.model] = r}) <= 1
MetricRowsCountOnce(in) == CountsOnce(in, plan(in.catalog, in.query, in.attributes))

\* No accepted plan reads a governed model, root or joined, without the
\* reader's own filter on it.
FiltersEveryModel(in, p) ==
    LET read == {in.query.root} \union {p.joins[i].target : i \in DOMAIN p.joins} \union {p.joins[i].source : i \in DOMAIN p.joins}
    IN p.ok => \A m \in read : in.catalog[m].policy # "none" =>
                   /\ in.catalog[m].policy \in in.attributes
                   /\ [model |-> m, attribute |-> in.catalog[m].policy] \in p.filters
EveryPolicyApplies(in) == FiltersEveryModel(in, plan(in.catalog, in.query, in.attributes))

\* A model added to the catalogue may make a name ambiguous, but never
\* moves a name that used to resolve to another model.
ReferencesAreStable(in) ==
    LET Of(c) == _resolve_owner(c, "metrics", in.ref, in.root)
        before == [k \in (DOMAIN in.catalog) \ {in.added} |-> in.catalog[k]]
    IN Of(before).ok /\ Of(in.catalog).ok => Of(before) = Of(in.catalog)
==============================================================================
