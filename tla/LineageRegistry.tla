---------------------------- MODULE LineageRegistry ----------------------------
(***************************************************************************)
(* Column lineage and the metadata registry: the graph drawn from a        *)
(* pipeline document, its bounded traversals, the classification an output *)
(* column inherits through it, and the rows the registry keeps.  A node is *)
(* <<table, column>>, an edge [from, to]; a graph is a sequence of edges.   *)
(***************************************************************************)
EXTENDS Integers, Sequences, FiniteSets, SequencesExt, FiniteSetsExt, TLC

-------------------------------------------------------------------------------
(* Graphs: upstream goes from targets to sources, downstream the other way. *)
Edge(from, to) == [from |-> from, to |-> to]
add_edge(graph, edge) == IF Contains(graph, edge) THEN graph ELSE Append(graph, edge)
merge(graph, other) == FoldLeft(add_edge, graph, other)
Near(edge, up) == IF up THEN edge.to ELSE edge.from
Far(edge, up) == IF up THEN edge.from ELSE edge.to
adjacent(graph, up, node) == SelectSeq(graph, LAMBDA e : Near(e, up) = node)
upstream(graph, node) == adjacent(graph, TRUE, node)

(* Depth first: a node is walked again when it is reached on a shorter path. *)
RECURSIVE walk(_, _, _, _, _, _)
walk(graph, up, node, depth, max_depth, found) ==
    IF depth >= max_depth THEN [found EXCEPT !.truncated = @ \/ adjacent(graph, up, node) # <<>>]
    ELSE IF node \in DOMAIN found.best /\ depth >= found.best[node] THEN found
    ELSE FoldLeft(LAMBDA f, e : walk(graph, up, Far(e, up), depth + 1, max_depth, [f EXCEPT !.edges = @ \union {e}]),
                  [found EXCEPT !.best = (node :> depth) @@ @], adjacent(graph, up, node))
RECURSIVE walk_once(_, _, _, _, _, _)
walk_once(graph, up, node, depth, max_depth, found) ==
    IF depth >= max_depth THEN [found EXCEPT !.truncated = @ \/ adjacent(graph, up, node) # <<>>]
    ELSE IF node \in DOMAIN found.best THEN found
    ELSE FoldLeft(LAMBDA f, e : walk_once(graph, up, Far(e, up), depth + 1, max_depth, [f EXCEPT !.edges = @ \union {e}]),
                  [found EXCEPT !.best = (node :> depth) @@ @], adjacent(graph, up, node))
Nothing == [edges |-> {}, best |-> <<>>, truncated |-> FALSE]
_closure(graph, up, node, max_depth) == walk(graph, up, node, 0, max_depth, Nothing)

(* Three colours; an unfinished node met again closes a cycle. *)
RECURSIVE visit(_, _, _)
visit(graph, node, seen) ==
    IF seen.cyclic \/ node \in seen.done THEN seen
    ELSE IF node \in seen.open THEN [seen EXCEPT !.cyclic = TRUE]
    ELSE LET inner == FoldLeft(LAMBDA s, e : visit(graph, e.to, s), [seen EXCEPT !.open = @ \union {node}], adjacent(graph, FALSE, node))
         IN  IF inner.cyclic THEN inner ELSE [inner EXCEPT !.open = @ \ {node}, !.done = @ \union {node}]
Nodes(graph) == UNION {{graph[i].from, graph[i].to} : i \in DOMAIN graph}
has_cycle(graph) == FoldSet(LAMBDA n, seen : visit(graph, n, seen), [open |-> {}, done |-> {}, cyclic |-> FALSE], Nodes(graph)).cyclic

(* records: <<[fqn, columns, lineage], ...>> *)
merged_graph(records) == FoldLeft(LAMBDA g, r : merge(g, r.lineage), <<>>, records)
impact(graph, record, max_depth) ==
    LET found == {_closure(graph, FALSE, <<record.fqn, c>>, max_depth) : c \in record.columns} IN
    [columns |-> {e.to : e \in UNION {f.edges : f \in found}}, truncated |-> \E f \in found : f.truncated]

-------------------------------------------------------------------------------
(* The graph of a document: [target, tables, select, add, group_by,        *)
(* measures, rules, joins].  A source is [prefix, column]; a rule says what *)
(* static analysis found of it.                                             *)
RULE_ORIGIN == "<rule>"
Unread == "<unknown>"
Primary(s) == s.tables[1].name
TableNamed(s, prefix) == {t.name : t \in {u \in Range(s.tables) : prefix \in {u.alias, u.name}}}
_business_rule_outputs(s) == UNION {r.outputs : r \in {q \in Range(s.rules) : q.readable}}
_resolve_source(s, source) ==
    IF TableNamed(s, source.prefix) # {} THEN <<CHOOSE t \in TableNamed(s, source.prefix) : TRUE, source.column>>
    ELSE <<IF source.column \in _business_rule_outputs(s) THEN RULE_ORIGIN ELSE Primary(s), source.column>>
Bare(column) == [prefix |-> "", column |-> column]
SelectEdges(s) == [i \in DOMAIN s.select |-> Edge(_resolve_source(s, s.select[i].source), <<s.target, s.select[i].target>>)]
AddEdges(s) == [i \in DOMAIN s.add |-> Edge(_resolve_source(s, s.add[i].source), <<s.target, s.add[i].target>>)]
Derived(s) == {s.add[i].target : i \in DOMAIN s.add}
GroupEdges(s) == [i \in DOMAIN SelectSeq(s.group_by, LAMBDA k : k \notin Derived(s)) |->
    LET key == SelectSeq(s.group_by, LAMBDA k : k \notin Derived(s))[i] IN Edge(_resolve_source(s, Bare(key)), <<s.target, key>>)]
MeasureEdge(s, m) == Edge(IF m.source = "*" THEN <<Primary(s), "*">> ELSE _resolve_source(s, Bare(m.source)), <<s.target, m.target>>)
MeasureEdges(s) == LET traced == SelectSeq(s.measures, LAMBDA m : m.source \notin Derived(s)) IN [i \in DOMAIN traced |-> MeasureEdge(s, traced[i])]
TableOr(s, name) == IF TableNamed(s, name) = {} THEN name ELSE CHOOSE t \in TableNamed(s, name) : TRUE
JoinEdges(s) == FlattenSeq([i \in DOMAIN s.joins |->
    LET j == s.joins[i] IN [k \in DOMAIN j.left_keys |-> Edge(<<TableOr(s, j.left), j.left_keys[k]>>, <<TableOr(s, j.right), j.right_keys[k]>>)]])
OwnName(s, out_col) == {out_col}
_rule_targets(s, out_col) ==
    IF s.select = <<>> THEN {out_col} ELSE {s.select[i].target : i \in {j \in DOMAIN s.select : s.select[j].source = Bare(out_col)}}
RuleEdges(s, r) ==
    IF ~r.readable THEN {}
    ELSE {Edge(<<Primary(s), in_col>>, <<s.target, t>>) :
            in_col \in (IF r.inputs = {} THEN {Unread} ELSE r.inputs), t \in UNION {_rule_targets(s, c) : c \in r.outputs}}
from_schema(s) ==
    LET read == FoldLeft(add_edge, <<>>, SelectEdges(s) \o AddEdges(s) \o GroupEdges(s) \o MeasureEdges(s) \o JoinEdges(s))
    IN  FoldLeft(LAMBDA g, r : FoldSet(LAMBDA e, h : add_edge(h, e), g, RuleEdges(s, r)), read, s.rules)

-------------------------------------------------------------------------------
(* Classification.  store[table][column] is the indexed level, or "none".  *)
CLASSIFICATION_RANK == [none |-> -1, public |-> 0, internal |-> 1, confidential |-> 2, restricted |-> 3]
Higher(a, b) == IF CLASSIFICATION_RANK[b] > CLASSIFICATION_RANK[a] THEN b ELSE a
_max_level(levels) == FoldSet(Higher, "none", levels)
Indexed(store, node) == IF node[1] \in DOMAIN store THEN (IF node[2] \in DOMAIN store[node[1]] THEN store[node[1]][node[2]] ELSE "none") ELSE "none"
(* A level is looked up by the name of the source column, over all the      *)
(* tables this output column comes from.                                    *)
Level(store, edges, column) == _max_level({Indexed(store, e.from) : e \in {f \in edges : f.from[2] = column}})
Inferred(store, edges) == _max_level({Level(store, edges, e.from[2]) : e \in edges})
(* declared[c] is "none" for a column whose level the contract leaves out.  *)
resolve_field_classifications(store, graph, target, declared) ==
    [c \in DOMAIN declared |-> IF declared[c] # "none" THEN declared[c] ELSE Inferred(store, Range(upstream(graph, <<target, c>>)))]
_inherit_registry_classifications(store, graph, target, declared, mode) ==
    LET levels == resolve_field_classifications(store, graph, target, declared)
        elevated == {c \in DOMAIN declared : declared[c] = "none" /\ CLASSIFICATION_RANK[levels[c]] > 0}
    IN  [rejected |-> mode = "strict" /\ elevated # {}, warned |-> elevated, levels |-> levels]

-------------------------------------------------------------------------------
(* The registry: one row per (fqn, definition), [content, run, at].         *)
_content_fingerprint(record) == <<record.content>>
Row(record, at) == [content |-> record.content, hash |-> _content_fingerprint(record), run |-> record.run, at |-> at]
upsert(rows, record, at) ==
    LET key == <<record.fqn, record.definition>>
        known == {k \in DOMAIN rows : k = key /\ rows[k].hash = _content_fingerprint(record)}
    IN  IF known # {} THEN rows ELSE (key :> Row(record, at)) @@ rows
attach_run_id(rows, record) ==
    LET key == <<record.fqn, record.definition>> IN IF key \in DOMAIN rows THEN [rows EXCEPT ![key].run = record.run] ELSE rows
upsert_index_record(rows, record, at) ==
    LET after == upsert(rows, record, at) IN
    IF after = rows /\ record.run # "none" THEN attach_run_id(after, record) ELSE after
Registry(records) == FoldLeft(LAMBDA rows, i : upsert_index_record(rows, records[i], i), <<>>, [i \in DOMAIN records |-> i])
get(rows, fqn) ==
    LET keys == {k \in DOMAIN rows : k[1] = fqn} IN
    IF keys = {} THEN "missing" ELSE (CHOOSE k \in keys : \A l \in keys : rows[l].at <= rows[k].at)[2]

-------------------------------------------------------------------------------
(* What the bounded walk should find: the edges that leave a node less      *)
(* than max_depth steps away.                                               *)
Within(graph, up, roots, n) ==
    LET reach[k \in 0..n] == IF k = 0 THEN roots ELSE reach[k - 1] \union {Far(e, up) : e \in {f \in Range(graph) : Near(f, up) \in reach[k - 1]}}
    IN  reach[n]
Reachable(graph, up, roots) == Within(graph, up, roots, Cardinality(Nodes(graph)))
Leaving(graph, up, nodes) == {e \in Range(graph) : Near(e, up) \in nodes}

(* A bounded traversal returns exactly the edges within its bound, however *)
(* the edges are ordered and whichever path is met first; a report that is *)
(* not marked truncated misses nothing; a cycle is refused exactly when    *)
(* there is one.                                                           *)
TraversalIsComplete(graph, up, node, max_depth) ==
    LET found == _closure(graph, up, node, max_depth) IN
    /\ found.edges = IF max_depth = 0 THEN {} ELSE Leaving(graph, up, Within(graph, up, {node}, max_depth - 1))
    /\ ~found.truncated => found.edges = Leaving(graph, up, Reachable(graph, up, {node}))
    /\ has_cycle(graph) = \E n \in Nodes(graph) : n \in Reachable(graph, FALSE, {Far(e, FALSE) : e \in Leaving(graph, FALSE, {n})})
ImpactIsComplete(records, k, max_depth) ==
    LET graph == merged_graph(records)
        report == impact(graph, records[k], max_depth)
        roots == {<<records[k].fqn, c>> : c \in records[k].columns}
    IN  ~report.truncated => report.columns = {e.to : e \in Leaving(graph, FALSE, Reachable(graph, FALSE, roots))}

(* Which source columns a value of each output column is computed from:    *)
(* the pipeline run on names.  base[c] is the table of the column c.        *)
RunRule(flow, r) == [c \in DOMAIN flow \union r.outputs |-> IF c \in r.outputs THEN UNION {flow[i] : i \in r.inputs} ELSE flow[c]]
RunAdd(flow, a) == [c \in DOMAIN flow \union {a.target} |-> IF c = a.target THEN flow[a.source.column] ELSE flow[c]]
Flows(s, base) ==
    LET ruled == FoldLeft(RunRule, [c \in DOMAIN base |-> {<<base[c], c>>}], s.rules)
        added == FoldLeft(RunAdd, ruled, s.add)
    IN  CASE s.select # <<>> -> [c \in {s.select[i].target : i \in DOMAIN s.select} |->
                                    UNION {ruled[s.select[i].source.column] : i \in {j \in DOMAIN s.select : s.select[j].target = c}}]
          [] s.group_by # <<>> -> [c \in Range(s.group_by) \union {m.target : m \in Range(s.measures)} |->
                                    IF c \in Range(s.group_by) THEN added[c]
                                    ELSE UNION {IF m.source = "*" THEN {} ELSE added[m.source] : m \in {n \in Range(s.measures) : n.target = c}}]
          [] OTHER -> [c \in Derived(s) |-> added[c]]
(* The documents the tracker can follow: rules read columns of the primary *)
(* table, and a measure or an added column is computed from source columns. *)
Traceable(s, base) ==
    LET made == UNION {r.outputs : r \in Range(s.rules)} \union Derived(s) IN
    /\ \A r \in Range(s.rules) : r.readable /\ \A c \in r.inputs : c \notin made /\ base[c] = Primary(s)
    /\ \A a \in Range(s.add) : a.source.column \notin made
    /\ \A m \in Range(s.measures) : m.source \notin made

(* The classification of a source column reaches every undeclared output   *)
(* column that is computed from it, under whatever name it is published,   *)
(* and strict mode rejects exactly the documents that leave one undeclared. *)
ClassificationReachesOutput(s, base, store, declared) ==
    LET flows == Flows(s, base)
        graph == from_schema(s)
        level(c) == _max_level({store[n[1]][n[2]] : n \in flows[c]})
        asked == [c \in DOMAIN flows |-> IF c \in DOMAIN declared THEN declared[c] ELSE "none"]
        warn == _inherit_registry_classifications(store, graph, s.target, asked, "warn")
        strict == _inherit_registry_classifications(store, graph, s.target, asked, "strict")
    IN  Traceable(s, base) =>
          /\ \A c \in DOMAIN flows : asked[c] = "none" => CLASSIFICATION_RANK[warn.levels[c]] >= CLASSIFICATION_RANK[level(c)]
          /\ \A c \in DOMAIN flows : asked[c] # "none" => warn.levels[c] = asked[c]
          /\ (\E c \in DOMAIN flows : asked[c] = "none" /\ CLASSIFICATION_RANK[level(c)] > 0) => strict.rejected

(* A row carries the content last indexed for its definition, and the run  *)
(* last attached to that content: indexing it again without a run, or      *)
(* under another run, neither loses the run nor moves its date.            *)
RegistryKeepsRuns(records) ==
    LET rows == Registry(records)
        mine(k) == {i \in DOMAIN records : <<records[i].fqn, records[i].definition>> = k}
        since(k) == {i \in mine(k) : \A j \in mine(k) : j >= i => records[j].content = records[Max(mine(k))].content}
        runs(k) == {i \in since(k) : records[i].run # "none"}
    IN  \A k \in DOMAIN rows :
          /\ rows[k].content = records[Max(mine(k))].content
          /\ rows[k].at = Min(since(k))
          /\ rows[k].run = IF runs(k) = {} THEN "none" ELSE records[Max(runs(k))].run
(* A definition that was never indexed before is the one served next. *)
NewDefinitionIsServed(records) ==
    records # <<>> =>
      LET r == records[Len(records)] IN
      (\A i \in 1..(Len(records) - 1) : records[i].fqn = r.fqn => records[i].definition # r.definition) => get(Registry(records), r.fqn) = r.definition
==============================================================================
