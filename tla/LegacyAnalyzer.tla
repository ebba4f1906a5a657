---------------------------- MODULE LegacyAnalyzer ----------------------------
(***************************************************************************)
(* From legacy SQL to pipeline drafts (analyzer/): the mapping of one      *)
(* parsed statement, the round trip that compares a draft with its source, *)
(* the graph of a corpus, fingerprints of expressions, the files that are  *)
(* emitted, and the comparison of a draft's table with the legacy one.     *)
(* A statement is what the parser gives: a base table, joins, WHERE as a   *)
(* conjunction of alternatives and its outputs; every table has a key      *)
(* column k and a value column v.                                          *)
(***************************************************************************)
EXTENDS Integers, Sequences, FiniteSets, SequencesExt, TLC

I == INSTANCE PipelineSemantics

None == ""

(* The mapping of one statement. *)

\* A join that SQL writes LEFT OUTER or RIGHT OUTER has no shape of its own here.
_join_type(j) ==
    CASE j.side = "LEFT" /\ j.kind = None -> "left"
      [] j.side = "RIGHT" /\ j.kind = None -> "right"
      [] j.side = "FULL" /\ j.kind \in {None, "OUTER"} -> "full"
      [] j.side = None /\ j.kind = "CROSS" -> "cross"
      [] j.side \in {None, "LEFT"} /\ j.kind = "SEMI" -> "left_semi"
      [] j.side \in {None, "LEFT"} /\ j.kind = "ANTI" -> "left_anti"
      [] OTHER -> "inner"

\* Only equalities of columns of the base and the joined table are mapped.
_map_equi_join_condition(s, j) == j.equi /\ j.on = s.base
_map_from_and_joins(s) ==
    /\ s.dedup => s.joins = <<>>
    /\ \A j \in Range(s.joins) : _join_type(j) = "cross" \/ _map_equi_join_condition(s, j)

\* Mutant of NullableBy: a right join leaves the base as it is.
NullableByLeft(s, j) == IF _join_type(j) \in {"left", "full"} THEN {j.table} ELSE {}
NullableBy(s, j) ==
    CASE _join_type(j) = "left" -> {j.table}
      [] _join_type(j) = "right" -> {s.base}
      [] _join_type(j) = "full" -> {s.base, j.table}
      [] OTHER -> {}
Nullable(s) == UNION {NullableBy(s, j) : j \in Range(s.joins)}

\* A filter names a bare column: keys of one name are told apart no longer.
Bare(s, alias, column) == IF column = "k" /\ s.shared THEN <<"k">> ELSE <<alias, column>>
_OPERATORS == {"equals", "greater_than_equal"}
_predicate_condition_string(a) ==
    CASE a.form = "is_null" -> IF a.negated THEN "is_not_null" ELSE "is_null"
      [] a.form \in _OPERATORS /\ ~a.negated -> a.form
      [] OTHER -> None
Filter(s, a) == [column |-> Bare(s, a.alias, a.column), operator |-> _predicate_condition_string(a), value |-> a.value]
_predicate_table(s, a) == IF a.qualified THEN a.alias ELSE IF s.joins = <<>> THEN s.base ELSE None
PushesDown(s, alias) == alias # None /\ alias \notin Nullable(s)

_MAX_OR_GROUPS == 8
MapAlternatives(s, w, c) ==
    LET seen == {_predicate_table(s, a) : a \in UNION {Range(c[b]) : b \in DOMAIN c}} \ {None}
        groups == [b \in DOMAIN c |-> [i \in DOMAIN c[b] |-> Filter(s, c[b][i])]]
        alias == CHOOSE x \in seen : TRUE
    IN  CASE w.placed \/ Len(c) > _MAX_OR_GROUPS -> [w EXCEPT !.ok = FALSE]
          [] ~w.placed /\ Cardinality(seen) = 1 /\ PushesDown(s, alias) -> [w EXCEPT !.placed = TRUE, !.groups[alias] = groups]
          [] OTHER -> [w EXCEPT !.placed = TRUE, !.whereGroups = groups]
MapConjunct(s, w, c) ==
    LET a == c[1][1]
        alias == _predicate_table(s, a)
    IN  CASE \E b \in DOMAIN c : \E i \in DOMAIN c[b] : _predicate_condition_string(c[b][i]) = None -> [w EXCEPT !.ok = FALSE]
          [] Len(c) > 1 -> MapAlternatives(s, w, c)
          [] PushesDown(s, alias) -> [w EXCEPT !.filters[alias] = Append(@, Filter(s, a))]
          [] OTHER -> [w EXCEPT !.where = Append(@, Filter(s, a))]
Tables(s) == {s.base} \union {j.table : j \in Range(s.joins)}
_map_where(s) ==
    LET empty == [ok |-> TRUE, placed |-> FALSE, filters |-> [t \in Tables(s) |-> <<>>], groups |-> [t \in Tables(s) |-> <<>>],
                  where |-> <<>>, whereGroups |-> <<>>]
    IN  IF s.dedup THEN empty ELSE FoldLeft(LAMBDA w, c : IF w.ok THEN MapConjunct(s, w, c) ELSE w, empty, s.where)

_AGGREGATES == {"count", "count_distinct", "sum"}
\* A grouped column is passed through under its own name, whatever its alias.
Passed(s, item) == item.func = None /\ item.column = s.group
_map_aggregate_measure(item) == item.func \in _AGGREGATES /\ (item.column = "*" => item.func = "count")
MeasureOf(s, h) == {i \in DOMAIN s.items : s.items[i].func = h.func /\ s.items[i].column = h.column /\ h.func # None}
_map_having_conjunct(s, h) ==
    [column |-> <<s.items[CHOOSE i \in MeasureOf(s, h) : \A o \in MeasureOf(s, h) : o <= i].target>>,
     operator |-> _predicate_condition_string(h), value |-> h.value]
Aggregates(s) ==
    /\ s.group \notin {"all", "expression"}
    /\ \A item \in Range(s.items) : Passed(s, item) \/ _map_aggregate_measure(item)
    /\ \A h \in Range(s.having) : MeasureOf(s, h) # {} /\ _predicate_condition_string(h) # None
_map_aggregate(s) ==
    LET measures == SelectSeq(s.items, LAMBDA item : ~Passed(s, item))
    IN  [groupBy |-> <<Bare(s, s.base, s.group)>>,
         measures |-> [i \in DOMAIN measures |->
             [source |-> IF measures[i].column = "*" THEN "*" ELSE Bare(s, s.base, measures[i].column),
              target |-> <<measures[i].target>>, func |-> measures[i].func]],
         having |-> [i \in DOMAIN s.having |-> _map_having_conjunct(s, s.having[i])]]

Maps(s) ==
    /\ _map_from_and_joins(s) /\ _map_where(s).ok
    /\ IF s.group # None THEN s.joins = <<>> /\ Aggregates(s) ELSE s.distinct => s.joins = <<>>
map_statement(s) ==
    LET w == _map_where(s)
    IN  [filters |-> w.filters, groups |-> w.groups, where |-> w.where, whereGroups |-> w.whereGroups,
         joins |-> [i \in DOMAIN s.joins |-> [table |-> s.joins[i].table, type |-> _join_type(s.joins[i])]],
         qualify |-> s.dedup, dedupOn |-> IF s.distinct /\ s.group = None THEN {i.target : i \in Range(s.items)} ELSE {},
         select |-> IF s.group # None THEN <<>> ELSE [i \in DOMAIN s.items |->
             [column |-> Bare(s, s.items[i].alias, s.items[i].column), target |-> s.items[i].target]]]

(* What a join makes of two sequences of rows, for SQL and for the engine. *)

Joined(left, right, type, Match(_, _), noLeft, noRight) ==
    LET met(l) == \E i \in DOMAIN right : Match(l, right[i])
        found(r) == \E i \in DOMAIN left : Match(left[i], r)
        pairs(l) == LET f == SelectSeq(right, LAMBDA r : Match(l, r)) IN [i \in DOMAIN f |-> l @@ f[i]]
        alone == SelectSeq(left, LAMBDA l : ~met(l))
        rest == SelectSeq(right, LAMBDA r : ~found(r))
    IN  CASE type = "left_semi" -> SelectSeq(left, met)
          [] type = "left_anti" -> alone
          [] OTHER -> FlattenSeq([i \in DOMAIN left |-> pairs(left[i])])
                      \o (IF type \in {"left", "full"} THEN [i \in DOMAIN alone |-> alone[i] @@ noRight] ELSE <<>>)
                      \o (IF type \in {"right", "full"} THEN [i \in DOMAIN rest |-> noLeft @@ rest[i]] ELSE <<>>)
NullRow(columns) == [c \in columns |-> I!Null]
Equal(x, y) == x # I!Null /\ x = y

(* The draft run by the interpreter; the result does not depend on how the *)
(* tables are read, and a draft that names what is not there does not run. *)

LoadTable(s, d, t, rows) ==
    LET named == [i \in DOMAIN rows |-> [c \in {Bare(s, t, "k"), Bare(s, t, "v")} |-> IF c = Bare(s, t, "k") THEN rows[i].k ELSE rows[i].v]]
        kept == SelectSeq(named, LAMBDA r : I!Conj(d.filters[t], r) = "true")
        on == {Bare(s, t, c) : c \in d.dedupOn}
        distinct == FoldLeft(LAMBDA seen, r : IF \E i \in DOMAIN seen : \A c \in on : seen[i][c] = r[c] THEN seen ELSE Append(seen, r), <<>>, kept)
    IN  SelectSeq(IF on = {} THEN kept ELSE distinct, LAMBDA r : I!Groups(d.groups[t], r) = "true")

\* Keys of one name are merged; of two names the right one is dropped.
RunJoin(s, d, main, j, rows, data) ==
    LET key == Bare(s, s.base, "k")
        other == Bare(s, j.table, "k")
        right == LoadTable(s, d, j.table, data[j.table])
        value == Bare(s, j.table, "v")
        apart == [i \in DOMAIN right |-> [c \in {<<"right">>, value} |-> IF c = value THEN right[i][c] ELSE right[i][other]]]
        both == Joined(rows, apart, j.type, LAMBDA l, r : Equal(l[key], r[<<"right">>]), NullRow(main), NullRow({<<"right">>, value}))
    IN  IF j.type \in {"left_semi", "left_anti"} THEN both
        ELSE [i \in DOMAIN both |-> [c \in DOMAIN both[i] \ {<<"right">>} |->
                IF s.shared /\ c = key /\ both[i][key] = I!Null THEN both[i][<<"right">>] ELSE both[i][c]]]
ColumnsAfter(s, d, n) ==
    {Bare(s, s.base, "k"), Bare(s, s.base, "v")}
    \union {Bare(s, d.joins[i].table, "v") : i \in {i \in 1..n : d.joins[i].type \notin {"left_semi", "left_anti"}}}
MainRows(s, d, data) ==
    LET step(acc, j) == [n |-> acc.n + 1, rows |-> RunJoin(s, d, ColumnsAfter(s, d, acc.n), j, acc.rows, data)]
        joined == FoldLeft(step, [n |-> 0, rows |-> LoadTable(s, d, s.base, data[s.base])], d.joins).rows
    IN  SelectSeq(SelectSeq(joined, LAMBDA r : I!Conj(d.where, r) = "true"), LAMBDA r : I!Groups(d.whereGroups, r) = "true")
\* The backend takes another form of qualify than the mapper writes, and joins
\* a cross join on the column the mapper invents for it.
Runs(s, d) ==
    LET there == ColumnsAfter(s, d, Len(d.joins))
        named == {f.column : f \in Range(d.where) \union UNION {Range(d.whereGroups[g]) : g \in DOMAIN d.whereGroups}}
                 \union {x.column : x \in Range(d.select)}
    IN  ~d.qualify /\ (\A j \in Range(d.joins) : j.type # "cross") /\ named \subseteq there /\ d.dedupOn \subseteq {"k", "v"}
process_schema(s, d, data) ==
    LET rows == MainRows(s, d, data)
    IN  IF s.group # None THEN I!_apply_aggregate(rows, _map_aggregate(s))
        ELSE [i \in DOMAIN rows |-> [t \in {<<x.target>> : x \in Range(d.select)} |->
                 rows[i][(CHOOSE x \in Range(d.select) : <<x.target>> = t).column]]]

(* The round trip: the draft is compiled again and compared by its parts. *)

\* compile_select refuses a table that is deduplicated.
Compiles(d) == ~d.qualify /\ d.dedupOn = {}
SourceSignature(s, j) ==
    [shape |-> IF j.side = None /\ j.kind = None THEN <<None, "INNER">> ELSE <<j.side, j.kind>>,
     keys |-> IF j.kind = "CROSS" THEN {} ELSE {{Bare(s, j.on, "k")[1], Bare(s, j.table, "k")[1]}}]
_SQL_JOIN_TYPES(type) ==
    CASE type = "inner" -> <<None, "INNER">> [] type = "left" -> <<"LEFT", None>> [] type = "right" -> <<"RIGHT", None>>
      [] type = "full" -> <<"FULL", "OUTER">> [] type = "cross" -> <<None, "CROSS">>
      [] type = "left_semi" -> <<"LEFT", "SEMI">> [] type = "left_anti" -> <<"LEFT", "ANTI">>
_join_signatures(s, d) ==
    {[shape |-> _SQL_JOIN_TYPES(j.type), keys |-> IF j.type = "cross" THEN {} ELSE {{Bare(s, s.base, "k")[1], Bare(s, j.table, "k")[1]}}] : j \in Range(d.joins)}

\* A predicate is a set of alternatives, each a set of conditions, wherever it stands.
_combined_dnf(predicates) == FoldLeft(LAMBDA dnf, p : {x \union y : x \in dnf, y \in p}, {{}}, predicates)
Alternatives(groups) == IF groups = <<>> THEN {{}} ELSE {Range(groups[b]) : b \in DOMAIN groups}
Single(filters) == [i \in DOMAIN filters |-> {{filters[i]}}]
_where_conjuncts(s, d) ==
    LET tables == SetToSeq(Tables(s))
    IN  _combined_dnf(Single(d.where) \o <<Alternatives(d.whereGroups)>>
                      \o FlattenSeq([i \in DOMAIN tables |-> Single(d.filters[tables[i]]) \o <<Alternatives(d.groups[tables[i]])>>]))
SourceConjuncts(s) == _combined_dnf([i \in DOMAIN s.where |-> {{Filter(s, a) : a \in Range(s.where[i][b])} : b \in DOMAIN s.where[i]}])

OutputNames(s) ==
    IF s.group = None THEN [i \in DOMAIN s.items |-> s.items[i].target]
    ELSE <<Bare(s, s.base, s.group)>> \o [i \in DOMAIN _map_aggregate(s).measures |-> _map_aggregate(s).measures[i].target]
SourceNames(s) ==
    IF s.group = None THEN OutputNames(s)
    ELSE [i \in DOMAIN s.items |-> IF s.items[i].target = s.items[i].column THEN Bare(s, s.base, s.items[i].column) ELSE <<s.items[i].target>>]
_structurally_equivalent(s, d) ==
    /\ SourceNames(s) = OutputNames(s)
    /\ {SourceSignature(s, j) : j \in Range(s.joins)} = _join_signatures(s, d)
    /\ SourceConjuncts(s) = _where_conjuncts(s, d)
verify(s) ==
    CASE ~Maps(s) -> "skipped"
      [] Maps(s) /\ ~Compiles(map_statement(s)) -> "unverified"
      [] OTHER -> IF _structurally_equivalent(s, map_statement(s)) THEN "verified" ELSE "divergent"
(* The graph of a corpus: what a materialized table reads, and cycles in it. *)

\* A depth-first walk over the later node of each target, stopped at a cycle.
NodeOf(nodes, t) == nodes[CHOOSE i \in DOMAIN nodes : nodes[i].target = t /\ \A n \in DOMAIN nodes : nodes[n].target = t => n <= i]
Reads(nodes, t) == SelectSeq(NodeOf(nodes, t).reads, LAMBDA r : r # t /\ \E i \in DOMAIN nodes : nodes[i].target = r)
RECURSIVE visit(_, _, _)
visit(nodes, s, t) ==
    LET on(x) == \E i \in DOMAIN s.path : s.path[i] = x
        start == CHOOSE i \in DOMAIN s.path : s.path[i] = t
        inside == [s EXCEPT !.path = Append(@, t)]
        after == FoldLeft(LAMBDA u, r : visit(nodes, u, r), inside, Reads(nodes, t))
    IN  CASE s.cycle # <<>> \/ t \in s.black -> s
          [] s.cycle = <<>> /\ t \notin s.black /\ on(t) -> [s EXCEPT !.cycle = SubSeq(s.path, start, Len(s.path)) \o <<t>>]
          [] OTHER -> IF after.cycle # <<>> THEN after ELSE [after EXCEPT !.path = s.path, !.black = @ \union {t}]
build_dag(nodes) ==
    FoldLeft(LAMBDA s, n : visit(nodes, s, n.target), [path |-> <<>>, black |-> {}, cycle |-> <<>>], nodes).cycle

(* The files of an analysis: a unit of the corpus is staged as a draft or    *)
(* skipped with a reason, a draft that loads and a stub that parses are       *)
(* published.  A file is [marker, hash, rules].                              *)

Partials(units) == {u.name : u \in {u \in Range(units) : u.kind = "partial"}}
SkipReason(units, u) ==
    CASE u.kind = "partial" -> "partial"
      [] u.kind = "main" /\ ~u.target -> "no_target"
      [] u.kind # "partial" /\ (u.kind = "main" => u.target) /\ u.curation -> "needs_curation"
      [] OTHER -> IF u.tables \intersect Partials(units) # {} THEN "partial_reference" ELSE None
\* The later unit of a path replaces the earlier.
_collect_draftable(units) ==
    LET kept == {i \in DOMAIN units : SkipReason(units, units[i]) = None}
        last(name) == CHOOSE i \in kept : units[i].name = name /\ \A n \in kept : units[n].name = name => n <= i
    IN  [drafts |-> [p \in {<<"drafts", units[i].name>> : i \in kept} |-> units[last(p[2])]],
         skipped |-> {[unit |-> units[i].name, reason |-> SkipReason(units, units[i])] : i \in DOMAIN units \ kept}]
\* A table proposed for a shared subquery has no script: its path is its hash.
_sql_sha256(texts, u) == IF u.script = None THEN u.name ELSE texts[u.script]
_wire_business_rules(u, candidates) == {c.name : c \in {c \in candidates : u.script \in c.scripts /\ c.column \in u.columns}}

Publish(files, path, staged) ==
    CASE path \in DOMAIN files /\ ~files[path].marker -> [status |-> "refused_exists", files |-> files]
      [] path \in DOMAIN files /\ files[path].marker /\ files[path].hash = staged.hash -> [status |-> "unchanged", files |-> files]
      [] OTHER -> [status |-> "written", files |-> [p \in DOMAIN files \union {path} |-> IF p = path THEN staged ELSE files[p]]]
Emit(report, path, loads, staged) ==
    LET p == Publish(report.files, path, staged)
    IN  IF ~loads THEN [report EXCEPT !.status = (path :> "refused_invalid") @@ @]
        ELSE [report EXCEPT !.status = (path :> p.status) @@ @, !.files = p.files]
emit_corpus(units, candidates, texts, files) ==
    LET drafts == _collect_draftable(units).drafts
        staged(u) == [marker |-> TRUE, hash |-> _sql_sha256(texts, u), rules |-> IF u.script = None THEN {} ELSE _wire_business_rules(u, candidates)]
        none == [status |-> [p \in {} |-> None], files |-> files]
        drafted == FoldLeft(LAMBDA r, p : Emit(r, p, drafts[p].loads, staged(drafts[p])), none, SetToSeq(DOMAIN drafts))
    IN  FoldLeft(LAMBDA r, c : Emit(r, <<"rules", c.name>>, c.parses, [marker |-> TRUE, hash |-> c.fragment, rules |-> {}]), drafted, SetToSeq(candidates))

(* The comparison of a draft's table with the legacy one.  A table is        *)
(* [types, rows]; a hash of rows is the rows, in the order Spark sorts them.  *)

Before(columns, r, u) ==
    \E i \in DOMAIN columns : r[columns[i]] < u[columns[i]] /\ \A n \in 1..(i - 1) : r[columns[n]] = u[columns[n]]
OrderBy(rows, columns) ==
    LET place(i) == 1 + Cardinality({n \in DOMAIN rows : Before(columns, rows[n], rows[i]) \/ (n < i /\ ~Before(columns, rows[i], rows[n]))})
    IN  [p \in DOMAIN rows |-> rows[CHOOSE i \in DOMAIN rows : place(i) = p]]
Common(draft, legacy) == DOMAIN draft.types \intersect DOMAIN legacy.types
_row_hash(rows, columns, common) ==
    IF common = {} THEN <<>> ELSE LET sorted == OrderBy(rows, columns) IN [i \in DOMAIN sorted |-> [c \in common |-> sorted[i][c]]]
Matched(l, r, key) == \A c \in Range(key) : Equal(l[c], r[c])
OnlyIn(rows, others, key) == Cardinality({i \in DOMAIN rows : \A n \in DOMAIN others : ~Matched(rows[i], others[n], key)})
column_differences(draft, legacy, key) ==
    [c \in Common(draft, legacy) \ Range(key) |->
        Cardinality({p \in (DOMAIN draft.rows) \X (DOMAIN legacy.rows) :
            Matched(draft.rows[p[1]], legacy.rows[p[2]], key) /\ draft.rows[p[1]][c] # legacy.rows[p[2]][c]})]
identical(draft, legacy, key) ==
    LET common == Common(draft, legacy)
        columns == IF key # <<>> THEN key ELSE SetToSeq(common)
    IN  /\ Len(draft.rows) = Len(legacy.rows)
        /\ draft.types = legacy.types
        /\ _row_hash(draft.rows, columns, common) = _row_hash(legacy.rows, columns, common)
        /\ key # <<>> => /\ OnlyIn(draft.rows, legacy.rows, key) = 0 /\ OnlyIn(legacy.rows, draft.rows, key) = 0
                         /\ \A c \in common \ Range(key) : column_differences(draft, legacy, key)[c] = 0
------------------------------------------------------------------------------
(* What SQL says the source returns: rows of cells, a cell being a column of *)
(* an alias, joined, filtered in three-valued logic and projected.           *)

SqlJoin(j) == CASE j.kind = "SEMI" -> "left_semi" [] j.kind = "ANTI" -> "left_anti" [] j.kind = "CROSS" -> "cross"
                [] OTHER -> CASE j.side = "LEFT" -> "left" [] j.side = "RIGHT" -> "right" [] j.side = "FULL" -> "full" [] OTHER -> "inner"
Cells(alias) == {<<alias, "k">>, <<alias, "v">>}
CellsOf(alias, rows) == [i \in DOMAIN rows |-> [c \in Cells(alias) |-> IF c[2] = "k" THEN rows[i].k ELSE rows[i].v]]
Truth(column, a, row) ==
    LET plain == I!build_filter([column |-> column, operator |-> a.form, value |-> a.value], row)
    IN  IF ~a.negated \/ plain = "unknown" THEN plain ELSE IF plain = "true" THEN "false" ELSE "true"
WhereHolds(s, row) ==
    I!And({I!Or({I!And({Truth(<<a.alias, a.column>>, a, row) : a \in Range(c[b])}) : b \in DOMAIN c}) : c \in Range(s.where)}) = "true"
Grouped(s, rows) ==
    LET key == <<s.base, s.group>>
        members(x) == {i \in DOMAIN rows : rows[i][key] = x}
        value(item, x) == I!agg_expr([func |-> item.func, source |-> IF item.column = "*" THEN "*" ELSE <<s.base, item.column>>], rows, members(x))
        kept == {x \in {rows[i][key] : i \in DOMAIN rows} :
                   \A h \in Range(s.having) : Truth("it", h, [it |-> value(h, x)]) = "true"}
        keys == SetToSeq(kept)
        named(n) == s.items[CHOOSE i \in DOMAIN s.items : SourceNames(s)[i] = n]
    IN  [i \in DOMAIN keys |-> [n \in Range(SourceNames(s)) |-> IF named(n).func = None THEN keys[i] ELSE value(named(n), keys[i])]]
SourceRows(s, data) ==
    LET step(acc, j) ==
            [cells |-> acc.cells \union Cells(j.table),
             rows |-> Joined(acc.rows, CellsOf(j.table, data[j.table]), SqlJoin(j),
                             LAMBDA l, r : SqlJoin(j) = "cross" \/ Equal(l[<<j.on, "k">>], r[<<j.table, "k">>]),
                             NullRow(acc.cells), NullRow(Cells(j.table)))]
        joined == FoldLeft(step, [cells |-> Cells(s.base), rows |-> CellsOf(s.base, data[s.base])], s.joins).rows
        rows == SelectSeq(joined, LAMBDA r : WhereHolds(s, r))
        plain == [i \in DOMAIN rows |-> [t \in {<<x.target>> : x \in Range(s.items)} |->
                    LET x == CHOOSE x \in Range(s.items) : <<x.target>> = t IN rows[i][<<x.alias, x.column>>]]]
    IN  CASE s.group # None -> Grouped(s, rows)
          [] s.group = None /\ s.distinct -> SetToSeq(Range(plain))
          [] OTHER -> plain

(* Where a draft and its source part, verified or not: a condition on a      *)
(* table that a later right or full join makes optional is still pushed down *)
(* to it; keys of one name are one column of the draft, so an outer join     *)
(* must be the last that changes it, and nobody may ask for either side.     *)
Conditions(s) == UNION {UNION {Range(c[b]) : b \in DOMAIN c} : c \in Range(s.where)}
FiltersAreEarly(s) ==
    \A i, n \in DOMAIN s.joins : i < n /\ SqlJoin(s.joins[n]) \in {"right", "full"} => \A a \in Conditions(s) : a.alias # s.joins[i].table
KeysStayApart(s) ==
    s.shared => \A i \in DOMAIN s.joins :
        LET j == s.joins[i]
            key(alias) == \E x \in Conditions(s) \union Range(s.items) : x.alias = alias /\ x.column = "k"
        IN  /\ SqlJoin(j) \in {"left", "right", "full"} => ~key(j.table)
            /\ SqlJoin(j) \in {"right", "full"} => ~key(s.base) /\ i = Len(s.joins) /\ \A n \in 1..i : ~key(s.joins[n].table)

\* Every row as often in one as in the other.
SameRows(t, u) ==
    \A row \in Range(t) \union Range(u) : Cardinality({o \in DOMAIN t : t[o] = row}) = Cardinality({o \in DOMAIN u : u[o] = row})
\* A draft that the round trip verifies returns, when it runs, the rows of its
\* source: pushed-down conditions, outer joins, keys, nulls and groups included.
VerifiedDraftKeepsRows(in) ==
    LET s == in.statement
        d == map_statement(s)
    IN  verify(s) = "verified" /\ Runs(s, d) /\ FiltersAreEarly(s) /\ KeysStayApart(s)
            => SameRows(process_schema(s, d, in.data), SourceRows(s, in.data))
\* SELECT DISTINCT is mapped to a deduplicated table, which the round trip cannot
\* read; it is the same without alternatives in WHERE and without aliases.
DistinctDraftKeepsRows(in) ==
    LET s == in.statement
        d == map_statement(s)
    IN  s.group = None /\ s.distinct /\ Maps(s) /\ Runs(s, d) /\ (\A c \in Range(s.where) : Len(c) = 1) /\ (\A x \in Range(s.items) : x.target = x.column)
            => SameRows(process_schema(s, d, in.data), SourceRows(s, in.data))
\* A corpus is refused exactly when a materialized table reads itself through
\* others, and the cycle named is one; every table is written by one statement.
CyclesAreNamed(in) ==
    LET reads == {<<in.nodes[i].target, r>> : i \in DOMAIN in.nodes, r \in {"a", "b", "c", "x"}}
        edges == {e \in reads : e[1] # e[2] /\ \E i \in DOMAIN in.nodes : in.nodes[i].target = e[1] /\ e[2] \in Range(in.nodes[i].reads)}
        nodes == {in.nodes[i].target : i \in DOMAIN in.nodes}
        circular == \E c \in SUBSET nodes : c # {} /\ \A x \in c : \E y \in c : <<x, y>> \in edges
        cycle == build_dag(in.nodes)
    IN  /\ cycle # <<>> <=> circular
        /\ \A i \in 1..(Len(cycle) - 1) : <<cycle[i], cycle[i + 1]>> \in edges
        /\ cycle # <<>> => cycle[1] = cycle[Len(cycle)]

\* However often a corpus changes and is emitted, a file somebody wrote by hand
\* is never touched, what is reported written or unchanged is of the corpus as
\* it is, the same corpus changes nothing, and no unit is lost in silence.
EmissionIsFaithful(in) ==
    LET first == emit_corpus(in.units, in.candidates, in.texts, in.files)
        second == emit_corpus(in.units, in.candidates, in.later, first.files)
        again == emit_corpus(in.units, in.candidates, in.later, second.files)
        collected == _collect_draftable(in.units)
        done(r) == {p \in DOMAIN r.status : r.status[p] \in {"written", "unchanged"}}
        unique == \A i, n \in DOMAIN in.units : in.units[i].name = in.units[n].name => i = n
    IN  /\ \A p \in DOMAIN in.files : ~in.files[p].marker => second.files[p] = in.files[p]
        /\ \A p \in done(second) \intersect DOMAIN collected.drafts : second.files[p].hash = _sql_sha256(in.later, collected.drafts[p])
        /\ again.files = second.files
        /\ unique => \A i \in DOMAIN in.units :
              <<"drafts", in.units[i].name>> \in DOMAIN second.status \/ \E s \in collected.skipped : s.unit = in.units[i].name
        /\ \A p \in done(second) \intersect DOMAIN collected.drafts : second.status[p] = "written" =>
              \A r \in second.files[p].rules : (\A c \in in.candidates : c.parses) => <<"rules", r>> \in DOMAIN second.files

\* Tables reported identical hold the same rows the same number of times; and
\* tables that do are reported so, unless rows share a key or have none.
ParityIsEquality(in) ==
    LET bag(t) == [r \in Range(t.rows) |-> Cardinality({i \in DOMAIN t.rows : t.rows[i] = r})]
        same == in.draft.types = in.legacy.types /\ bag(in.draft) = bag(in.legacy)
        rows == in.draft.rows
        keyed == /\ \A i \in DOMAIN rows : \A c \in Range(in.key) : rows[i][c] # I!Null
                 /\ \A i, n \in DOMAIN rows : (\A c \in Range(in.key) : rows[i][c] = rows[n][c]) => i = n
    IN  /\ identical(in.draft, in.legacy, in.key) => same
        /\ same /\ (in.key = <<>> \/ keyed) => identical(in.draft, in.legacy, in.key)
==============================================================================
