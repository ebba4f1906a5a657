-------------------------- MODULE PipelineSemantics --------------------------
(***************************************************************************)
(* One declarative pipeline, two executions: the data-frame steps of the   *)
(* interpreter (core/interpreter.py over core/spark_backend.py) and the    *)
(* single query the SQL compiler writes for a materialized view            *)
(* (core/sql_compiler.py).  A table maps occurrences, whatever these are,  *)
(* to rows: two occurrences may have one row, and they have no order.  A   *)
(* row maps columns to integers, Null being -1.                            *)
(***************************************************************************)
EXTENDS Integers, Sequences, FiniteSets, Functions

Null == -1

(* Three-valued filters, the same dispatch on both sides. *)

Compare(x, y, holds) == IF x = Null \/ y = Null THEN "unknown" ELSE IF holds THEN "true" ELSE "false"
build_filter(f, row) ==
    LET x == row[f.column]
    IN  CASE f.operator = "is_null" -> IF x = Null THEN "true" ELSE "false"
          [] f.operator = "is_not_null" -> IF x # Null THEN "true" ELSE "false"
          [] f.operator = "equals" -> Compare(x, f.value, x = f.value)
          [] f.operator = "not_equals" -> Compare(x, f.value, x # f.value)
          [] f.operator = "greater_than_equal" -> Compare(x, f.value, x >= f.value)
And(values) == IF "false" \in values THEN "false" ELSE IF "unknown" \in values THEN "unknown" ELSE "true"
Or(values) == IF "true" \in values THEN "true" ELSE IF "unknown" \in values THEN "unknown" ELSE "false"
Conj(filters, row) == And({build_filter(f, row) : f \in Range(filters)})
\* Empty groups are skipped; without a group nothing is filtered.
Groups(groups, row) ==
    LET given == Range(groups) \ {<<>>}
    IN  IF given = {} THEN "true" ELSE Or({Conj(group, row) : group \in given})
filter(table, Cond(_)) == [o \in {i \in DOMAIN table : Cond(table[i]) = "true"} |-> table[o]]

(* Columns: an operation is applied to the source, or a conditional chooses. *)

apply_op(op, x) == CASE op = "nvl" -> (IF x = Null THEN 0 ELSE x) [] op = "lit" -> 1 [] OTHER -> x
Column(spec, row) ==
    IF spec.when = "" THEN apply_op(spec.op, row[spec.source])
    ELSE IF build_filter([column |-> spec.source, operator |-> spec.when, value |-> 1], row) = "true" THEN 1 ELSE row[spec.source]
Targets(specs) == {spec.target : spec \in Range(specs)}
SpecOf(specs, c) == CHOOSE spec \in Range(specs) : spec.target = c
select(table, specs) == [o \in DOMAIN table |-> [c \in Targets(specs) |-> Column(SpecOf(specs, c), table[o])]]
with_column(row, spec) == [c \in DOMAIN row \union {spec.target} |-> IF c = spec.target THEN Column(spec, row) ELSE row[c]]
_apply_add_columns(table, specs) ==
    LET with(row) == LET upto[n \in 0..Len(specs)] == IF n = 0 THEN row ELSE with_column(upto[n - 1], specs[n]) IN upto[Len(specs)]
    IN  [o \in DOMAIN table |-> with(table[o])]

(* Joins on equal keys: j.onTo of the table j.to are compared with the values that keys gives for
   an occurrence of the left. *)

_LEFT_ONLY_JOIN_TYPES == {"left_anti", "left_semi"}
Matches(values, row, j) == \A i \in DOMAIN values : values[i] # Null /\ values[i] = row[j.onTo[i]]
\* An occurrence of the result is what it has of the left and of the right, at most one of each.
Occurrences(keys, right, j) ==
    LET partners(l) == {r \in DOMAIN right : Matches(keys[l], right[r], j)}
        both == UNION {{<<{l}, {r}>> : r \in partners(l)} : l \in DOMAIN keys}
        partnered == {<<{l}, {}>> : l \in {k \in DOMAIN keys : partners(k) # {}}}
        alone == {<<{l}, {}>> : l \in {k \in DOMAIN keys : partners(k) = {}}}
        strangers == {<<{}, {r}>> : r \in DOMAIN right \ UNION {partners(l) : l \in DOMAIN keys}}
    IN  CASE j.type = "inner" -> both [] j.type = "left" -> both \union alone [] j.type = "right" -> both \union strangers
          [] j.type = "full" -> both \union alone \union strangers [] j.type = "left_semi" -> partnered [] j.type = "left_anti" -> alone
One(S) == CHOOSE x \in S : TRUE
\* columns, shown: those of the left and of the right that the result has.
Merge(left, right, o, columns, shown) ==
    [c \in columns \union shown |->
        IF c \in columns /\ o[1] # {} THEN left[One(o[1])][c]
        ELSE IF c \in shown /\ o[2] # {} THEN right[One(o[2])][c] ELSE Null]
JoinTables(left, keys, right, j, columns, shown) ==
    [o \in Occurrences(keys, right, j) |-> Merge(left, right, o, columns, shown)]

(* Aggregation. *)

\* The values of a column that are not null, by occurrence.
Values(table, rows, source) == [o \in {i \in rows : table[i][source] # Null} |-> table[o][source]]
agg_expr(m, table, rows) ==
    LET values == Values(table, rows, m.source)
    IN  CASE m.func = "count" -> IF m.source = "*" THEN Cardinality(rows) ELSE Cardinality(DOMAIN values)
          [] m.func = "count_distinct" -> Cardinality(Range(values))
          [] m.func = "sum" -> IF DOMAIN values = {} THEN Null ELSE SumFunction(values)
Key(agg, row) == [c \in Range(agg.groupBy) |-> row[c]]
GroupRow(table, agg, key) ==
    LET rows == {o \in DOMAIN table : Key(agg, table[o]) = key}
    IN  [c \in Range(agg.groupBy) \union {m.target : m \in Range(agg.measures)} |->
           IF c \in Range(agg.groupBy) THEN key[c] ELSE agg_expr(CHOOSE m \in Range(agg.measures) : m.target = c, table, rows)]
\* The occurrences are the keys.
group_by_agg(table, agg) == [key \in {Key(agg, table[o]) : o \in DOMAIN table} |-> GroupRow(table, agg, key)]
_apply_aggregate(table, agg) == filter(group_by_agg(table, agg), LAMBDA row : Conj(agg.having, row))

(* The interpreter: one step after the other. *)

drop_nulls(table, columns) == [o \in {i \in DOMAIN table : \A c \in Range(columns) : table[i][c] # Null} |-> table[o]]
LoadTable(t, rows) ==
    LET filtered == filter(rows, LAMBDA row : Conj(t.filters, row))
        grouped == filter(drop_nulls(filtered, t.dropNulls), LAMBDA row : Groups(t.groups, row))
    IN  IF t.fields = <<>> THEN grouped ELSE select(grouped, t.fields)
ColumnsOf(t) == IF t.fields = <<>> THEN t.columns ELSE Targets(t.fields)
\* Keys of other names are dropped on the right.
Shown(s, j) ==
    IF j.type \in _LEFT_ONLY_JOIN_TYPES THEN {}
    ELSE IF j.onFrom = j.onTo THEN ColumnsOf(s.tables[j.to]) ELSE ColumnsOf(s.tables[j.to]) \ Range(j.onTo)
Columns(s) ==
    LET upto[n \in 0..Len(s.joins)] == IF n = 0 THEN ColumnsOf(s.tables[s.base]) ELSE upto[n - 1] \union Shown(s, s.joins[n])
    IN  upto
Joined(s, data) ==
    LET upto[n \in 0..Len(s.joins)] ==
            IF n = 0 THEN LoadTable(s.tables[s.base], data[s.base])
            ELSE LET j == s.joins[n]
                     left == upto[n - 1]
                     keys == [l \in DOMAIN left |-> [i \in DOMAIN j.onFrom |-> left[l][j.onFrom[i]]]]
                 IN  JoinTables(left, keys, LoadTable(s.tables[j.to], data[j.to]), j, Columns(s)[n - 1], Shown(s, j))
    IN  upto
process_schema(s, data) ==
    LET where == filter(Joined(s, data)[Len(s.joins)], LAMBDA row : Conj(s.where, row))
        main == filter(where, LAMBDA row : Groups(s.whereGroups, row))
    IN  CASE s.output = "keep_all" -> _apply_add_columns(main, s.added)
          [] s.output = "select" -> select(main, s.select)
          [] s.output = "aggregate" -> _apply_aggregate(_apply_add_columns(main, s.added), s.aggregate)
          [] OTHER -> main

(* The compiled query: predicates of one clause hold together. *)

NotNull(columns) == [i \in DOMAIN columns |-> [column |-> columns[i], operator |-> "is_not_null", value |-> 0]]
_compile_predicates(filters, nulls, groups, row) ==
    And({Conj(filters \o NotNull(nulls), row), Groups(groups, row)})
_compile_table_cte(t, rows) ==
    LET kept == filter(rows, LAMBDA row : _compile_predicates(t.filters, t.dropNulls, t.groups, row))
    IN  IF t.fields = <<>> THEN kept ELSE select(kept, t.fields)
\* USING merges the keys; ON keeps those of both sides.
Visible(s, j) == IF j.type \in _LEFT_ONLY_JOIN_TYPES THEN {} ELSE ColumnsOf(s.tables[j.to])
AllColumns(s) ==
    LET upto[n \in 0..Len(s.joins)] == IF n = 0 THEN ColumnsOf(s.tables[s.base]) ELSE upto[n - 1] \union Visible(s, s.joins[n])
    IN  upto
\* What j compares on the left: with USING the merged column, with ON that of the table it names.
\* own: of each table, what an occurrence of the tree so far has of it.
LeftKeys(s, data, tree, j) ==
    LET named == _compile_table_cte(s.tables[j.from], data[j.from])
        value(l, c) == IF j.onFrom = j.onTo THEN tree.rows[l][c]
                       ELSE IF tree.own[l][j.from] = {} THEN Null ELSE named[One(tree.own[l][j.from])][c]
    IN  [l \in DOMAIN tree.rows |-> [i \in DOMAIN j.onFrom |-> value(l, j.onFrom[i])]]
_compile_join_tree(s, data) ==
    LET base == _compile_table_cte(s.tables[s.base], data[s.base])
        upto[n \in 0..Len(s.joins)] ==
            IF n = 0 THEN [rows |-> base, own |-> [o \in DOMAIN base |-> [t \in DOMAIN s.tables |-> IF t = s.base THEN {o} ELSE {}]]]
            ELSE LET j == s.joins[n]
                     tree == upto[n - 1]
                     rows == JoinTables(tree.rows, LeftKeys(s, data, tree, j), _compile_table_cte(s.tables[j.to], data[j.to]), j,
                                        AllColumns(s)[n - 1], Visible(s, j))
                 IN  [rows |-> rows,
                      own  |-> [o \in DOMAIN rows |-> [t \in DOMAIN s.tables |->
                                    IF t = j.to THEN o[2] ELSE IF o[1] = {} THEN {} ELSE tree.own[One(o[1])][t]]]]
    IN  upto
\* SELECT *, with the added columns computed from the columns below them.
Extended(table, specs) ==
    [o \in DOMAIN table |-> [c \in DOMAIN table[o] \union Targets(specs) |->
        IF c \in Targets(specs) THEN Column(SpecOf(specs, c), table[o]) ELSE table[o][c]]]
compile_select(s, data) ==
    LET from == filter(_compile_join_tree(s, data)[Len(s.joins)].rows, LAMBDA row : _compile_predicates(s.where, <<>>, s.whereGroups, row))
    IN  CASE s.output = "aggregate" -> filter(group_by_agg(Extended(from, s.added), s.aggregate), LAMBDA row : Conj(s.aggregate.having, row))
          [] s.output = "select" -> select(from, s.select)
          [] OTHER -> Extended(from, s.added)

------------------------------------------------------------------------------
\* The added columns are new, and none reads another; the compiled ones are computed side by side.
AddedApart(s) ==
    /\ \A n, k \in DOMAIN s.added : n # k => s.added[n].target # s.added[k].target
    /\ Targets(s.added) \intersect ({spec.source : spec \in Range(s.added)} \union AllColumns(s)[Len(s.joins)]) = {}
\* USING merges a key of two tables.
Merged(j, c) == j.type \notin _LEFT_ONLY_JOIN_TYPES /\ j.onFrom = j.onTo /\ c \in Range(j.onTo)
\* No ON compares a key that was merged: it would read it from one of the two tables, where the
\* interpreter compares the merged one.
KeysApart(s) ==
    \A n \in DOMAIN s.joins : LET j == s.joins[n] IN
        j.onFrom # j.onTo => \A k \in 1..(n - 1), c \in Range(j.onFrom) : ~Merged(s.joins[k], c)
\* The view and the interpreted pipeline return the same rows, occurrence by occurrence, wherever
\* the pipeline names its outputs, or keeps the columns of one table.
CompiledViewAgrees(s, data) ==
    (/\ s.output # "none" /\ (s.output = "keep_all" => s.joins = <<>>)
     /\ (s.output # "select" => AddedApart(s)) /\ KeysApart(s))
        => process_schema(s, data) = compile_select(s, data)
==============================================================================
