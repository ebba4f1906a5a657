----------------------------- MODULE SemanticSql -----------------------------
(***************************************************************************)
(* The rows a compiled semantic query reads (agentic/resolver.py,          *)
(* semantic/metric_views.py).  The text of a condition is a sequence of    *)
(* groups separated by OR; a group is the set of its factors joined by     *)
(* AND; a factor is the set of rows that satisfy it.                       *)
(***************************************************************************)
EXTENDS Integers, Sequences, FiniteSets, SequencesExt

CONSTANT Table       \* the rows of the source

Meaning(text) == {r \in Table : \E i \in DOMAIN text : \A f \in text[i] : r \in f}
Atom(rows) == <<{rows}>>
Parentheses(text) == Atom(Meaning(text))
\* AND put between two texts binds their last and first group only.
AndText(t, u) == SubSeq(t, 1, Len(t) - 1) \o <<Last(t) \union Head(u)>> \o Tail(u)
Conjoined(clauses) == IF clauses = <<>> THEN Table ELSE Meaning(FoldLeft(AndText, Head(clauses), Tail(clauses)))

\* A model is [base, dated, policy]: texts (<<>> for none), whether it has a
\* dimension of type date, and whether a row policy applies; a query is
\* [filters, from, to, qualified], an open end of the window being None.
None == -1
_build_filter_clause(f) == Atom({r \in Table : r.col = f})
_find_date_dimension(model) == model.dated
DateClauses(query, model) ==
    IF ~_find_date_dimension(model) THEN <<>>
    ELSE (IF query.from = None THEN <<>> ELSE <<Atom({r \in Table : r.day >= query.from})>>)
         \o (IF query.to = None THEN <<>> ELSE <<Atom({r \in Table : r.day <= query.to})>>)
Filters(query) == [i \in DOMAIN query.filters |-> _build_filter_clause(query.filters[i])]

\* _build_sql: one WHERE for the base filter, the filters and the dates.
_build_sql(query, model) ==
    Conjoined((IF model.base = <<>> THEN <<>> ELSE <<model.base>>) \o Filters(query) \o DateClauses(query, model))

\* _model_source: the base filter and the row policy inside a subquery.
_model_source(model, reader) ==
    Conjoined((IF model.base = <<>> THEN <<>> ELSE <<IF model.policy THEN Parentheses(model.base) ELSE model.base>>)
              \o (IF model.policy THEN <<Atom({r \in Table : r.owner = reader})>> ELSE <<>>))
compile_plan(query, model, reader) ==
    _model_source(model, reader) \intersect Conjoined(Filters(query) \o DateClauses(query, model))

_is_unqualified_root_query(query, model) == ~query.qualified /\ ~model.policy
resolve(query, model, reader) ==
    IF _is_unqualified_root_query(query, model) THEN _build_sql(query, model) ELSE compile_plan(query, model, reader)

\* A metric view has the base filter for its own condition.
metric_view_definition(model) == IF model.base = <<>> THEN Table ELSE Meaning(model.base)
------------------------------------------------------------------------------
Window(query, model) ==
    {r \in Table : model.dated => (query.from = None \/ r.day >= query.from) /\ (query.to = None \/ r.day <= query.to)}
Asked(query, model) ==
    {r \in Window(query, model) : (model.base = <<>> \/ r \in Meaning(model.base)) /\ \A i \in DOMAIN query.filters : r.col = query.filters[i]}

\* A reader sees only the rows its policy grants, whatever the base filter
\* says and whatever filters are given.
PolicyHolds(in) ==
    in.model.policy => \A reader \in {r.owner : r \in Table} :
        resolve(in.query, in.model, reader) = {r \in Asked(in.query, in.model) : r.owner = reader}

\* How a name is written does not change the answer, for base
\* filters that are one conjunction: both compilers read the rows asked for,
\* and Genie's metric view reads the rows of the query without filters.
BothCompilersAgree(in) ==
    Len(in.model.base) <= 1 /\ ~in.model.policy =>
        LET Rows(q) == resolve([in.query EXCEPT !.qualified = q], in.model, "any")
        IN /\ Rows(TRUE) = Asked(in.query, in.model) /\ Rows(FALSE) = Asked(in.query, in.model)
           /\ in.query.filters = <<>> /\ in.query.from = None /\ in.query.to = None => Rows(FALSE) = metric_view_definition(in.model)

\* A query reads only the rows its filters ask for.
FiltersHold(in) == resolve(in.query, in.model, "any") \subseteq Asked(in.query, in.model)

-------------------------------------------------------------------------------
(* What the evidence of a query attests and discloses                      *)
(* (semantic/evidence.py and its use in semantic/semantic.py).  SQL is a   *)
(* sequence of characters out of quote, blank, tab and letters.            *)
Quote == "'"
Blanks == {" ", "\t"}
Redacted == "<redacted>"

\* Literals are found from the left; a quote that is not closed opens none.
QuotesBefore(sql, i) == Cardinality({j \in 1..(i - 1) : sql[j] = Quote})
InLiteral(sql, i) ==
    /\ sql[i] # Quote /\ QuotesBefore(sql, i) % 2 = 1
    /\ \E j \in (i + 1)..Len(sql) : sql[j] = Quote
\* Mutant of Kept: blanks collapse inside literals as well.
KeptAnywhere(sql) ==
    {i \in DOMAIN sql : sql[i] \in Blanks => i > 1 /\ sql[i - 1] \notin Blanks}
\* The positions that survive: of a run of blanks outside, the first.
Kept(sql) ==
    {i \in DOMAIN sql : sql[i] \in Blanks /\ ~InLiteral(sql, i) => ~(i > 1 /\ sql[i - 1] \in Blanks /\ ~InLiteral(sql, i - 1))}
Strip(sql) ==
    LET solid == {i \in DOMAIN sql : sql[i] # " "}
        First == CHOOSE i \in solid : \A j \in solid : i <= j
        Final == CHOOSE i \in solid : \A j \in solid : i >= j
    IN IF solid = {} THEN <<>> ELSE SubSeq(sql, First, Final)
normalize_sql(sql) ==
    LET kept == SetToSortSeq(Kept(sql), <)
    IN Strip([n \in DOMAIN kept |-> IF sql[kept[n]] \in Blanks /\ ~InLiteral(sql, kept[n]) THEN " " ELSE sql[kept[n]]])
------------------------------------------------------------------------------
\* A filter is [column, value]; a policy discloses values or SQL, never
\* those of sensitive columns.  Row policies and base filters come last.
_normalized_filters(filters, policies, policy) ==
    LET shown == policy.values
        Entry(f) == [column |-> f.column, origin |-> "query", value |-> IF shown /\ f.column \notin policy.sensitive THEN f.value ELSE Redacted]
    IN [i \in DOMAIN filters |-> Entry(filters[i])]
       \o [i \in DOMAIN policies |-> [column |-> policies[i].column, origin |-> "policy", value |-> Redacted]]

\* The columns of the selected members, of the models still in the cache.
\* selected is a set of [model, name, kind], edges of [model, target, source].
selected_subgraph(edges, model, names) == {e \in edges : e.model = model /\ e.target \in names}
_lineage_columns(selected, cached, edges) ==
    LET found == UNION {selected_subgraph(edges, x.model, {y.name : y \in {y \in selected : y.model = x.model}}) : x \in {x \in selected : x.model \in cached}}
    IN [key \in {<<e.model, e.target>> : e \in found} |-> {e.source : e \in {e \in found : <<e.model, e.target>> = key}}]
\* Lineage that was not resolved is said so.
build_metric_evidence(selected, lineage) ==
    {LET key == <<x.model, x.name>>
         resolved == key \in DOMAIN lineage
     IN [model |-> x.model, name |-> x.name, sources |-> IF resolved THEN lineage[key] ELSE {},
         lineage |-> IF resolved THEN "resolved" ELSE "unresolved"] : x \in {x \in selected : x.kind = "metric"}}

\* The evidence of one query, as it is kept.
Evidence(in) ==
    LET withheld == ~in.policy.sql \/ in.policies # <<>>
    IN [filters |-> _normalized_filters(in.filters, in.policies, in.policy),
        sql |-> IF withheld THEN "none" ELSE in.sql, sqlRedacted |-> withheld]

_serialize_filter(f, values, sensitive) == [f EXCEPT !.value = IF values /\ f.column \notin sensitive THEN @ ELSE Redacted]
\* to_dict: what is disclosed later, or the refusal to.
to_dict(evidence, request) ==
    IF request.sql /\ evidence.sqlRedacted THEN [refused |-> TRUE]
    ELSE [refused |-> FALSE, sql |-> IF request.sql THEN evidence.sql ELSE "none",
          filters |-> [i \in DOMAIN evidence.filters |-> _serialize_filter(evidence.filters[i], request.values, request.sensitive)]]
------------------------------------------------------------------------------
Literals(sql) == [i \in {i \in DOMAIN sql : InLiteral(sql, i)} |-> sql[i]]
LiteralText(sql) ==
    LET at == SetToSortSeq(DOMAIN Literals(sql), <)
    IN [n \in DOMAIN at |-> Literals(sql)[at[n]]]

\* Two queries with the same fingerprint compare with the same constants:
\* reformatting is forgiven, a blank inside a literal is not.
HashKeepsLiterals(in) ==
    normalize_sql(in.one) = normalize_sql(in.other) => LiteralText(in.one) = LiteralText(in.other)

\* The evidence lists every selected metric with the columns its own model
\* makes it from, and a metric whose columns are not known is not passed off
\* as one without sources, even when models left the cache meanwhile.
MetricSourcesAreTraced(in) ==
    LET evidence == build_metric_evidence(in.selected, _lineage_columns(in.selected, in.cached, in.edges))
        From(m) == {e.source : e \in {e \in in.edges : e.model = m.model /\ e.target = m.name}}
    IN /\ {[model |-> m.model, name |-> m.name, kind |-> "metric"] : m \in evidence} = {x \in in.selected : x.kind = "metric"}
       /\ \A m \in evidence : IF m.lineage = "resolved" THEN m.sources = From(m) /\ m.sources # {}
                               ELSE m.sources = {} /\ (m.model \notin in.cached \/ From(m) = {})

\* What the policy withheld when the evidence was made is never disclosed
\* later, whatever is asked for: neither a value, nor a sensitive column,
\* nor the identity in a row policy or the SQL that contains it.
WithheldStaysWithheld(in) ==
    LET out == to_dict(Evidence(in), in.request)
        allowed == {<<f.column, f.value>> : f \in {f \in Range(in.filters) : in.policy.values /\ f.column \notin in.policy.sensitive}}
    IN ~out.refused =>
          /\ \A i \in DOMAIN out.filters : out.filters[i].value # Redacted =>
                out.filters[i].origin = "query" /\ <<out.filters[i].column, out.filters[i].value>> \in allowed
          /\ out.sql = in.sql => in.policy.sql /\ in.policies = <<>>
==============================================================================
