-------------------- MODULE MCData --------------------
(* Decisions of the data side: questions, drafts, pipelines, rules and searches. *)
EXTENDS Naturals, Integers, Sequences, FiniteSets, SequencesExt, FiniteSetsExt, TLC

\* Each input of a pure decision is one state, and the invariants compare the
\* code's answer for it with a reference.
VARIABLE case      \* [about |-> decision, in |-> input], or none

None == [about |-> "none"]
SeqsUpTo(S, n) == UNION {[1..k -> S] : k \in 0..n}
Ask(about, inputs) == case = None /\ \E in \in inputs : case' = [about |-> about, in |-> in]
Done == case # None /\ case' = None
About(what) == case.about = what
Init == case = None

------------------------------------------------------------------------------
(* Catalogues and questions of the semantic layer. *)
G == INSTANCE SemanticPlanning WITH MaxDepth <- 2, MaxModels <- 3
P == INSTANCE SemanticPlanning WITH MaxDepth <- 3, MaxModels <- 4

a_ == <<"a">>
b_ == <<"b">>
c_ == <<"c">>
d_ == <<"d">>
ab_ == <<"a", "b">>
Relationship(name, to, cardinality) ==
    [name |-> name, to |-> to, cardinality |-> cardinality, verified |-> TRUE, pairs |-> TRUE,
     join |-> IF name = "ab" THEN "left" ELSE "inner"]
Model(relationships) ==
    [metrics |-> [m \in {} |-> 0], dimensions |-> [m \in {} |-> 0], policy |-> "none",
     relationships |-> relationships, related |-> {r.to : r \in relationships}]

\* Which relationships exist, for the path search.
Links == {<<a_, <<"e">>, "r">>, <<a_, b_, "r">>, <<a_, b_, "s">>, <<a_, c_, "r">>, <<b_, d_, "r">>, <<c_, d_, "r">>, <<c_, b_, "r">>, <<d_, a_, "r">>}
GraphInputs ==
    {[catalog |-> [k \in {a_, b_, c_, d_, <<"e">>} |->
          Model({Relationship(l[3], l[2], IF l[1] = d_ THEN "one_to_one" ELSE "many_to_one") : l \in {l \in links : l[1] = k}})],
      start |-> a_, target |-> d_] : links \in SUBSET Links}

\* Which cardinalities, for the plan; x, y and z are declared by a, b and c.
Cardinalities == {"one_to_one", "one_to_many", "many_to_one", "many_to_many", "unknown"}
Links3 == {<<"ab", a_, b_>>, <<"bc", b_, c_>>, <<"ba", b_, a_>>}
OwnName == [k \in {a_, b_, c_} |-> CASE k = a_ -> "x" [] k = b_ -> "y" [] OTHER -> "z"]
PlanInputs ==
    {[catalog |-> [k \in {a_, b_, c_} |->
          [Model({Relationship(l[1], l[3], cards[l]) : l \in {l \in DOMAIN cards : l[2] = k}}) EXCEPT
              !.metrics = [n \in {OwnName[k]} |-> [additivity |-> add, restricted |-> {"y"}]],
              !.dimensions = [n \in {OwnName[k]} |-> 0],
              !.policy = IF k \in policies THEN "region" ELSE "none"]],
      query |-> [root |-> a_, metrics |-> <<<<m>>>>, groupBy |-> {<<g>>}, filters |-> {}],
      attributes |-> attributes] :
        cards \in UNION {[links -> Cardinalities] : links \in SUBSET Links3}, add \in {"additive", "semi_additive"},
        policies \in {{}, {b_}}, m \in {"x", "y", "z"}, g \in {"x", "z"}, attributes \in {{}, {"region"}}}

\* Which models declare a name.
NameInputs ==
    {[catalog |-> [k \in {a_, b_, c_, ab_} |-> [Model({}) EXCEPT !.metrics = [n \in names[k] |-> 0]]],
      added |-> added, ref |-> ref, root |-> a_] :
        names \in [{a_, b_, c_, ab_} -> SUBSET {"x", "y"}], added \in {b_, c_, ab_},
        ref \in {<<"x">>, <<"b", "x">>, <<"a", "b", "x">>, <<"a", "x">>}}

\* Certificates, overrides and instants, in hours.
W == INSTANCE SemanticAccess WITH MaxOverrideWindow <- 4, MaxAge <- 2
Certificates == {W!NoCertification} \union [certified : {TRUE}, checksPassed : BOOLEAN, at : {-1, 1, 3}]
AccessInputs ==
    {[certifications |-> s, context |-> x, override |-> o, times |-> 0..9] :
        s \in {s \in SUBSET Certificates : Cardinality(s) \in 1..2}, x \in [id : {"c"}, mayOverride : BOOLEAN],
        o \in {W!NoOverride} \union [given : {TRUE}, complete : BOOLEAN, actor : {"c", "d"}, expires : {3, 7}]}
WindowInputs == {[status |-> s, from |-> f, until |-> u, times |-> 0..4] :
                    s \in {"draft", "active", "deprecated"}, f \in {-1} \union 1..3, u \in {-1} \union 1..3}

\* Base filters of one conjunction and of two alternatives, over all rows.
Q == INSTANCE SemanticSql WITH Table <- [col : {"u", "v"}, day : 1..2, owner : {"m", "n"}]
ColIs(v) == {r \in [col : {"u", "v"}, day : 1..2, owner : {"m", "n"}] : r.col = v}
DayIs(n) == {r \in [col : {"u", "v"}, day : 1..2, owner : {"m", "n"}] : r.day = n}
SqlInputs ==
    {[model |-> [base |-> base, dated |-> dated, policy |-> policy],
      query |-> [filters |-> filters, from |-> from, to |-> to, qualified |-> qualified]] :
        base \in {<<>>, <<{ColIs("u")}>>, <<{ColIs("u"), DayIs(1)}>>, <<{DayIs(1)}, {ColIs("v")}>>},
        dated, policy, qualified \in BOOLEAN, filters \in SeqsUpTo({"u", "v"}, 1), from, to \in {-1, 1, 2}}

\* A model of every shape the validator judges, beside its join target.
D == INSTANCE SemanticModels
Dimension(name, sql) == [name |-> name, sql |-> sql]
Metrics == [name : {"x"}, sql : {"x"}, aggregated : {FALSE}, type : {"sum", "median"},
            additivity : {"additive", "semi_additive", "odd"}, restricts : BOOLEAN, restricted : {{}, {"r"}, {"q"}}]
Entity(name, keys) == [name |-> name, role |-> "primary", keys |-> keys]
Target == [name |-> "t", table |-> "t", dimensions |-> <<Dimension("r", "r")>>, calendar |-> "", grain |-> <<"k">>,
           metrics |-> <<[name |-> "x", sql |-> "x", aggregated |-> FALSE, type |-> "sum",
                          additivity |-> "additive", restricts |-> FALSE, restricted |-> {}]>>,
           policy |-> [given |-> FALSE], entities |-> <<Entity("k", <<"k">>)>>, relationships |-> <<>>]
Relationships == [name : {"j"}, from : {"k", "z"}, to : {"t"}, toEntity : {"k", "z"},
                  cardinality : {"many_to_one", "unknown"}, join : {"inner", "full"}]
ModelInputs ==
    {[models |-> <<[Target EXCEPT !.name = "s", !.dimensions = dims, !.metrics = <<x>>, !.policy = policy,
                                  !.entities = entities, !.relationships = relationships], Target>>] :
        dims \in {<<>>, <<D!Malformed>>, <<Dimension("r", "r")>>, <<Dimension("r", "r"), Dimension("r", "s")>>, <<Dimension("bad name", "r")>>},
        x \in Metrics,
        policy \in {[given |-> FALSE], [given |-> TRUE, exact |-> TRUE, column |-> "r", attribute |-> "user"],
                    [given |-> TRUE, exact |-> TRUE, column |-> "bad name", attribute |-> "user"]},
        entities \in {<<D!Malformed>>, <<Entity("k", <<"k">>)>>, <<Entity("k", <<>>)>>},
        relationships \in {<<>>, <<D!Malformed>>} \union {<<r>> : r \in Relationships}}

\* Periods under calendars that are well-formed, or not, or stored under another key.
Periods == {<<>>, <<D!Malformed>>} \union {<<p>> \o more : more \in {<<>>, <<[name |-> "m", start |-> 2, end |-> 2]>>, <<[name |-> "y", start |-> 1, end |-> 3]>>},
                p \in [name : {"y", "bad name"}, start : 1..2, end : 1..3]}
PeriodInputs ==
    {[root |-> [calendar |-> c], query |-> [period |-> p, dates |-> d], files |-> [k \in {"fiscal"} |-> [key |-> key, version |-> v, periods |-> periods]]] :
        c \in {"", "fiscal", "other", "bad name"}, p \in {"", "y", "m", "z"}, d \in {D!NoDates, [from |-> 1, to |-> 0]},
        key \in {"fiscal", "other"}, v \in {"", "v1"}, periods \in Periods}

\* Query texts, and what is disclosed of one.
Texts == {<<"a">> \o t : t \in SeqsUpTo({"'", " ", "b"}, 5)}
HashInputs ==
    {[one |-> t, other |-> u] : t \in {t \in Texts : \E i \in DOMAIN t : t[i] = "'"}, u \in {<<"a", "'", " ", "'">>, <<"a", "'", " ", " ", "'">>,
        <<"a", " ", "'", "b", " ", "'">>, <<"a", "'", "'", " ", " ">>, <<"a", " ", "'", " ">>, <<"a", "'", "b", "'", " ", "b">>}}
Disclosures == [values : BOOLEAN, sql : BOOLEAN, sensitive : {{}, {"u"}}]
Filters == [column : {"u", "v"}, value : {"1", "2"}]
DisclosureInputs ==
    {[filters |-> f, policies |-> x, sql |-> "select", policy |-> p, request |-> r] :
        f \in SeqsUpTo(Filters, 2), x \in SeqsUpTo([column : {"u", "w"}, value : {"me"}], 1), p, r \in Disclosures}

\* Metrics of two models, two of them with one name, beside a dimension.
Members == {[model |-> "m", name |-> "x", kind |-> "metric"], [model |-> "n", name |-> "x", kind |-> "metric"],
            [model |-> "m", name |-> "y", kind |-> "metric"], [model |-> "n", name |-> "d", kind |-> "dimension"]}
SourceInputs == {[selected |-> s, cached |-> c, edges |-> e] : s \in SUBSET Members, c \in SUBSET {"m", "n"},
                    e \in SUBSET [model : {"m", "n"}, target : {"x", "d"}, source : {"u", "v"}]}

AskSemantic ==
    \/ Ask("graph", GraphInputs)
    \/ Ask("plan", PlanInputs)
    \/ Ask("name", NameInputs)
    \/ Ask("access", AccessInputs)
    \/ Ask("window", WindowInputs)
    \/ Ask("sql", SqlInputs)
    \/ Ask("model", ModelInputs)
    \/ Ask("period", PeriodInputs)
    \/ Ask("sources", SourceInputs)
    \/ Ask("hash", HashInputs)
    \/ Ask("disclosure", DisclosureInputs)

------------------------------------------------------------------------------
(* Pipelines to project and answers of a language model. *)
R == INSTANCE SemanticDrafting

OpOf(name) == [name |-> name, arg |-> IF name = "cast" THEN "int" ELSE ""]
DraftOps == {OpOf(n) : n \in {"cast", "length", "upper", "coalesce", "expr", "to_date", "round"}} \union {[name |-> "cast", arg |-> "odd"]}
\* Rounding a text or a date is left out: the projector keeps the type before it.
OpChains == {ops \in SeqsUpTo(DraftOps, 2) :
    ~\E i \in DOMAIN ops : i > 1 /\ ops[i].name = "round" /\ ops[i - 1].name \in {"upper", "to_date"}}
Spec2(target, source, ops, conditional) == [target |-> target, source |-> source, ops |-> ops, conditional |-> conditional]
Measures == [target : {"n", "o"}, source : {"*", "k"}, func : {"sum", "count", "stddev"}]
Declared(names, type) == [n \in names |-> [type |-> type]]
DraftPipelines ==
    {[kind |-> "select", groupBy |-> <<>>, measures |-> <<>>, columns |-> <<Spec2("k", "c", ops, conditional), Spec2("n", source, <<OpOf("length")>>, FALSE)>>,
      added |-> <<Spec2("x", "c", <<>>, FALSE)>>, output |-> output, grain |-> grain, dimensions |-> dims, time |-> time, rules |-> rules] :
        ops \in OpChains, conditional \in BOOLEAN, source \in {"c", "x"},
        output \in {Declared({}, ""), Declared({"k"}, "number"), Declared({"k"}, ""), Declared({"z"}, "date")},
        grain \in {<<>>, <<"k">>}, dims \in {<<>>, <<"n">>, <<"k", "n">>}, time \in {"", "k"}, rules \in BOOLEAN}
    \union
    {[kind |-> "aggregate", groupBy |-> <<"k">>, measures |-> measures, columns |-> <<>>, added |-> <<>>, output |-> output,
      grain |-> grain, dimensions |-> dims, time |-> "", rules |-> rules] :
        measures \in SeqsUpTo(Measures, 2), output \in {Declared({}, ""), Declared({"k"}, "number"), Declared({"n"}, "number")},
        grain \in {<<>>, <<"k">>, <<"n">>}, dims \in {<<>>, <<"n">>}, rules \in BOOLEAN}
DraftInputs == {[pipeline |-> p] : p \in DraftPipelines}

Managed == [name |-> "m", sql |-> "k", type |-> "sum", text |-> "", managed |-> TRUE]
Answers == [name : {"m", "n", "bad name"}, sql : {"", "k", "z", "*"}, type : {"", "sum", "count", "odd"}, text : {"", "t"}, unknown : BOOLEAN]
EnrichInputs ==
    {[managed |-> {Managed}, answers |-> <<x, y>>, outputs |-> {"k"}] : x, y \in {r \in Answers : r.name # "bad name" \/ r.sql = "k"}}

\* Two key values, each up to twice on either side.
JoinInputs ==
    {[join |-> [type |-> type, entities |-> entities, target |-> target, grainSources |-> grain,
                left |-> [keys |-> <<"id">>, deduplicated |-> left], right |-> [keys |-> keys, deduplicated |-> right]],
      rows |-> rows] :
        type \in {"inner", "left", "full"}, entities \in {{}, {"e"}}, target \in {"t", "bad name"}, grain \in {<<>>, <<"id">>},
        keys \in {<<"id">>, <<"ref">>}, left \in {<<>>, <<"id">>}, right \in {<<>>, <<"ref">>, <<"id">>},
        rows \in [1..2 -> [left : 0..2, right : 0..2]]}

AskDraft == Ask("draft", DraftInputs) \/ Ask("enrich", EnrichInputs) \/ Ask("join", JoinInputs)

------------------------------------------------------------------------------
(* Up to three rules over two columns, and modules that define rules. *)
B == INSTANCE RulePlanning

RuleOf(name, kind, reads, writes, source) ==
    [name |-> name, kind |-> kind, reads |-> reads, writes |-> writes, by |-> 1, source |-> source, keys |-> {}]
RuleShapes == {<<"x", "x">>, <<"x", "y">>, <<"y", "x">>, <<"x", "z">>, <<"z", "y">>}
AskRules ==
    /\ case = None
    /\ \E shapes \in SeqsUpTo(RuleShapes, 3) : \E kinds \in [DOMAIN shapes -> {"projection", "transform"}], known \in [DOMAIN shapes -> BOOLEAN] :
          Ask("rules", {[rules |-> [n \in DOMAIN shapes |-> RuleOf(n, kinds[n], shapes[n][1], shapes[n][2], known[n])],
                         row |-> [c \in {"x", "y"} |-> IF c = "x" THEN 1 ELSE 3]]})
AskAggregations ==
    /\ case = None
    /\ \E kinds \in SeqsUpTo({"projection", "aggregation"}, 4) : \E keys \in [DOMAIN kinds -> {{}, {"k"}, {"j"}}] :
          Ask("stages", {[rules |-> [n \in DOMAIN kinds |-> [RuleOf(n, kinds[n], "x", "y", TRUE) EXCEPT !.keys = keys[n]]]]})
RuleModules == [file : {"f", "g"}, rules : SeqsUpTo({"p", "q"}, 2), fails : BOOLEAN]
ScanInputs == {[registry |-> [n \in d |-> "old"], modules |-> ms] : d \in SUBSET {"p", "q"}, ms \in SeqsUpTo(RuleModules, 2)}

AskRule == AskRules \/ AskAggregations \/ Ask("scan", ScanInputs)

------------------------------------------------------------------------------
(* Small graphs, rankings and configurations for the knowledge index. *)
ks == INSTANCE KnowledgeSearch

GraphEdges == {[from |-> 1, to |-> 2], [from |-> 2, to |-> 3], [from |-> 3, to |-> 4], [from |-> 4, to |-> 1], [from |-> 2, to |-> 4], [from |-> 3, to |-> 9]}
PlainQuery == [kind |-> "table", score |-> 0]
GraphIndexes == {[nodes |-> [n \in 1..4 |-> PlainQuery], edges |-> {[from |-> e.from, to |-> e.to, strong |-> e \in s] : e \in t}] : s \in SUBSET GraphEdges, t \in {GraphEdges, GraphEdges \ {[from |-> 2, to |-> 4]}}}
RankedIndexes == {[nodes |-> [n \in 1..3 |-> [kind |-> IF n = 3 THEN third ELSE "metric", score |-> s[n]]], edges |-> {}, vectors |-> [n \in d |-> v[n]], embedder |-> TRUE, default_mode |-> "bm25"] :
    s \in [1..3 -> 0..2], v \in [1..4 -> 0..1], d \in {{}, 1..2, 1..4, {2, 3}}, third \in {"metric", "table"}}

AskKnowledge ==
    \/ Ask("walk", {[index |-> i, from |-> f, depth |-> d] : i \in GraphIndexes, f \in {1, 3, 7}, d \in 0..3})
    \/ Ask("search", {[index |-> i] : i \in RankedIndexes})
    \/ Ask("embedder", {[env |-> [model |-> m, mode |-> s], loadable |-> l] : m \in {"", "e5", "other"}, s \in {"", "bm25", "hybrid", "fuzzy"}, l \in BOOLEAN})

------------------------------------------------------------------------------
(* Lineage graphs, documents that publish classified columns, and the      *)
(* records a registry receives.                                            *)
LR == INSTANCE LineageRegistry

At(n) == <<n, "x">>
LineageEdges == {LR!Edge(At("A"), At("B")), LR!Edge(At("B"), At("C")), LR!Edge(At("A"), At("C")),
                 LR!Edge(At("C"), At("D")), LR!Edge(At("D"), At("E")), LR!Edge(At("D"), At("A"))}
Ordered(set) == {SetToSeq(set), Reverse(SetToSeq(set))}
RegistryEdges == {LR!Edge(<<"A", "x">>, <<"B", "x">>), LR!Edge(<<"A", "y">>, <<"B", "y">>), LR!Edge(<<"B", "x">>, <<"C", "x">>),
                  LR!Edge(<<"B", "y">>, <<"C", "x">>), LR!Edge(<<"C", "x">>, <<"D", "x">>), LR!Edge(<<"B", "x">>, <<"C", "y">>)}
RecordsOf(edges) == [i \in 1..4 |-> LET fqn == <<"A", "B", "C", "D">>[i] IN
    [fqn |-> fqn, columns |-> {"x", "y"}, lineage |-> SetToSeq({e \in edges : e.to[1] = fqn})]]

BaseTables == [a |-> "o", b |-> "o", c |-> "d"] @@ ("<literal>" :> "o")
Stores == {[o |-> ("a" :> a) @@ ("b" :> b) @@ ("<literal>" :> "none"), d |-> [c |-> c]] :
             a \in {"none", "internal", "confidential"}, b \in {"public", "restricted"}, c \in {"none", "restricted"}}
Document(select, add, group_by, measures, rules) ==
    [target |-> "t", tables |-> <<[alias |-> "o1", name |-> "o"], [alias |-> "d1", name |-> "d"]>>, select |-> select, add |-> add,
     group_by |-> group_by, measures |-> measures, rules |-> rules, joins |-> <<[left |-> "o1", right |-> "d1", left_keys |-> <<"a">>, right_keys |-> <<"c">>]>>]
RuleLists == {<<>>} \union {<<[inputs |-> i, outputs |-> o, readable |-> r]>> : i \in SUBSET {"a", "b"}, o \in {{"r"}, {"a"}}, r \in BOOLEAN}
Sources == {LR!Bare("a"), LR!Bare("b"), [prefix |-> "d1", column |-> "c"], LR!Bare("<literal>")}
RuleSources(rules) == IF rules = <<>> THEN {} ELSE {LR!Bare(c) : c \in rules[1].outputs}
Classified ==
    UNION {{Document(s, <<>>, <<>>, <<>>, rs) : s \in SeqOf([source : Sources \union RuleSources(rs), target : {"p", "q"}], 2) \ {<<>>}} : rs \in RuleLists}
    \union
    {Document(<<>>, a, g, m, rs) : rs \in {q \in RuleLists : q = <<>> \/ q[1].outputs = {"r"}},
        a \in {<<>>} \union {<<[source |-> x, target |-> "e"]>> : x \in Sources}, g \in {<<>>, <<"b">>},
        m \in SeqOf([source : {"a", "b", "*"}, target : {"m"}], 1)}
    \union {Document(<<>>, <<[source |-> x, target |-> "e"]>>, <<"e">>, <<[source |-> "*", target |-> "m"]>>, <<>>) : x \in Sources}
    \union {Document(<<>>, <<>>, <<"r">>, <<[source |-> "b", target |-> "m"]>>, <<[inputs |-> i, outputs |-> {"r"}, readable |-> TRUE]>>) : i \in SUBSET {"a", "b"}}
Valid(s) == Cardinality({s.select[i].target : i \in DOMAIN s.select}) = Len(s.select) /\ (s.measures # <<>> => s.group_by # <<>>)
IndexRecords == [fqn : {"t"}, definition : {"p", "q"}, content : {"x", "y"}, run : {"none", "r1", "r2"}]

AskLineage ==
    \/ \E e \in SUBSET LineageEdges : Ask("lineage", {[graph |-> g, up |-> u, node |-> At(n), depth |-> d] :
                                                        g \in Ordered(e), u \in BOOLEAN, n \in {"A", "B", "C", "D", "E"}, d \in 0..4})
    \/ Ask("impact", {[records |-> RecordsOf(e), of |-> k, depth |-> d] : e \in SUBSET RegistryEdges, k \in 1..3, d \in 0..3})
    \/ \E s \in {c \in Classified : Valid(c)} : Ask("classify", {[schema |-> s, store |-> l, declared |-> d] : l \in Stores, d \in {<<>>, [p |-> "public"]}})
    \/ Ask("index", {[records |-> r] : r \in SeqsUpTo(IndexRecords, 3)})

------------------------------------------------------------------------------
(* Conversations: two models of which one name is shared, a hub with some  *)
(* of its agents, small lineage graphs, descriptions over three tables and *)
(* session files of a few days.                                            *)
CV == INSTANCE Conversation

Chats == [listed : {{"a", "b"}}, known : {{"a", "b"}}, members : {[a |-> {"x"}, b |-> {"y"}], [a |-> {"x"}, b |-> {"x", "y"}]},
          linked : {{}, {<<"a", "b">>}}, governed : {{}, {"a"}}, identity : BOOLEAN, mode : {"off", "enforce"},
          refused : (SUBSET {"a", "b"}) \X (SUBSET {"a", "b"}), sql : BOOLEAN]
NotJson == [parses |-> FALSE]
Selections == {NotJson, [parses |-> TRUE, selected |-> "none", candidates |-> {"a", "b"}]} \union [parses : {TRUE}, selected : {"none", "a", "c"}, candidates : {{}}]
Translations == {NotJson} \union [parses : {TRUE}, model : {"none", "b", "c"}, names : {{}, {"x"}, {"x", "y"}, {"z"}}, mode : {"query", "view"},
                                  view : BOOLEAN, format : {"table", "novel"}]
HubOf(agents, llm, candidate, fallback, aliases) == [agents |-> agents, llm |-> llm, candidate |-> candidate, fallback |-> fallback, aliases |-> aliases]
ChatReplies == {CV!Reply(m, "a") : m \in {"query", "no_model", "ambiguous", "needs_clarification", "error"}}
ChatAliases == {<<>>, <<[term |-> "ca", canonical |-> "lineage"]>>,
                <<[term |-> "ca", canonical |-> "cb"], [term |-> "cb", canonical |-> "quality"]>>}
ChatNode(n) == <<n, "x">>
ChatGraphs == {<<>>, <<LR!Edge(ChatNode(1), ChatNode(2)), LR!Edge(<<-1, "r">>, <<2, "r">>)>>,
               <<LR!Edge(<<1, "r">>, ChatNode(3)), LR!Edge(ChatNode(1), <<2, "r">>), LR!Edge(ChatNode(2), ChatNode(3))>>}
ChatFields(modes) == [mode : modes, table : {0, 1, 2, 3}, column : {"", "x", "r", "q"}]
BuilderCatalog == [o |-> {"a", "b"}, d |-> {"b", "c"}, u |-> {}]
EtlTables == (SeqsUpTo([fqn : {"o", "d", "gone"}, alias : {"t1", "t2"}, filters : {{}, {"a"}}], 2) \ {<<>>})
             \union {<<[fqn |-> "u", alias |-> "t1", filters |-> {"z"}]>>}
Etls == [tables : EtlTables, joins : SeqsUpTo([from : {"t1", "t9"}, to : {"t2"}], 1), rules : {<<>>, <<"r">>},
         select : SeqsUpTo([column : {"a", "c"}, target : {"p"}, computed : BOOLEAN], 1), limit : {"", "5"}]

AskAgents ==
    \/ \E a \in Selections, b \in Translations :
          /\ a = NotJson \/ a.selected # "a" => b = NotJson
          /\ Ask("chat", {[world |-> w, ask |-> [a |-> a, b |-> b, mode |-> IF b = NotJson THEN "view" ELSE "auto", close |-> FALSE], remembers |-> w.sql] :
                            w \in {c \in Chats : c.mode = "off" => c.refused = <<{}, {}>>}})
    \/ Ask("hub", {[hub |-> HubOf(g, l, c, f, al), words |-> w, reply |-> [r EXCEPT !.denied = r.mode = "error" /\ d, !.suggestions = r.mode = "needs_clarification" /\ d]] :
                     g \in SUBSET {"genbi", "lineage", "quality"}, l \in {"absent", "fails", "genbi", "lineage", "builder"},
                     c \in {"absent", "candidate", "refused"}, f \in {"off", "shadow", "on"}, al \in ChatAliases,
                     w \in {<<>>, <<"ca">>, <<"quality">>, <<"builder", "lineage">>}, r \in ChatReplies, d \in BOOLEAN})
    \/ \E g \in ChatGraphs, agent \in {"lineage", "dictionary"} :
          Ask("field", {[agent |-> agent, loaded |-> l, graph |-> g, q |-> q, llm |-> [m EXCEPT !.mode = IF m.mode \in CV!Modes[agent] THEN @ ELSE "novel"]] :
                          l \in (IF g = <<>> THEN BOOLEAN ELSE {TRUE}), q \in ChatFields({"none"} \union CV!Modes[agent]), m \in ChatFields({"lookup", "list", "impact"})})
    \/ Ask("quality", {[agent |-> "quality", q |-> q, llm |-> q,
                        state |-> [schema |-> s, store |-> st, reports |-> {1}, monitor |-> m]] :
                          q \in ChatFields(CV!Modes.quality), s \in BOOLEAN, st \in {"none", "fails", "works"}, m \in BOOLEAN})
    \/ Ask("builder", {[catalog |-> BuilderCatalog, etl |-> e] : e \in Etls})
    \/ Ask("session", {[file |-> f, t1 |-> t1, t2 |-> t1 + d2, t3 |-> t1 + d2 + d3, ttl |-> t] :
          f \in {[kind |-> "none"], [kind |-> "corrupt"]} \union [kind : {"session"}, created : 0..2, ttl : 0..2, entries : {3}],
          t1 \in 2..6, d2 \in 0..3, d3 \in 0..3, t \in {1}})

------------------------------------------------------------------------------
(* Legacy statements over up to three tables, corpora of three tables, two *)
(* units of a corpus with the files of two outputs, and pairs of tables.   *)
LA == INSTANCE LegacyAnalyzer

Cond(alias, column, form, negated) == [alias |-> alias, qualified |-> TRUE, column |-> column, form |-> form, negated |-> negated, value |-> 1]
Cells(rows) == [i \in DOMAIN rows |-> [k |-> rows[i][1], v |-> rows[i][2]]]
LegacyShapes == {<<"", "">>, <<"LEFT", "">>, <<"LEFT", "OUTER">>, <<"RIGHT", "">>, <<"FULL", "OUTER">>, <<"", "CROSS">>, <<"LEFT", "SEMI">>, <<"", "ANTI">>}
LegacyJoin(table, shape, on) == [table |-> table, side |-> shape[1], kind |-> shape[2], on |-> on, equi |-> TRUE]
LegacyJoins ==
    {<<>>} \union {<<LegacyJoin("b", x, "a")>> : x \in LegacyShapes}
    \union {<<LegacyJoin("b", x, "a"), LegacyJoin("c", y, on)>> : x \in LegacyShapes \ {<<"", "ANTI">>, <<"LEFT", "SEMI">>, <<"", "CROSS">>}, y \in LegacyShapes, on \in {"a"}}
    \union {<<LegacyJoin("b", <<"", "">>, "a"), LegacyJoin("c", <<"", "">>, "b")>>}
Shown(joins) == {"a"} \union {joins[i].table : i \in {i \in DOMAIN joins : joins[i].kind \notin {"SEMI", "ANTI"}}}
Alone(a) == <<<<a>>>>
LegacyWheres ==
    {<<>>, <<Alone([Cond("a", "v", "greater_than_equal", FALSE) EXCEPT !.qualified = FALSE])>>}
    \union {<<Alone(Cond(t, "v", f, n))>> : t \in {"a", "b", "c"}, f \in {"equals", "is_null"}, n \in BOOLEAN}
    \union {<<Alone(Cond("a", "v", "is_null", TRUE)), Alone(Cond("b", "v", "equals", FALSE))>>,
             <<Alone(Cond("b", "k", "is_null", FALSE))>>, <<Alone(Cond("a", "k", "equals", FALSE))>>}
    \union {<< <<<<Cond(t, "v", "equals", FALSE)>>, <<Cond(u, "v", "is_null", FALSE), Cond(u, "k", "equals", FALSE)>>>> >> \o more :
               t \in {"a", "b"}, u \in {"a", "b"}, more \in {<<>>, <<Alone(Cond("b", "v", "is_null", TRUE))>>, << <<<<Cond("a", "v", "equals", FALSE)>>, <<Cond("a", "k", "equals", FALSE)>>>> >>}}
Asked(where) == UNION {UNION {{a.alias : a \in Range(where[i][b])} : b \in DOMAIN where[i]} : i \in DOMAIN where}
LegacyItem(func, alias, column, target) == [func |-> func, alias |-> alias, column |-> column, target |-> target]
AllValues(joins) == [i \in 1..Cardinality(Shown(joins)) |-> LegacyItem("", SetToSeq(Shown(joins))[i], "v", SetToSeq(Shown(joins))[i])]
Legacy(joins, where, items, group, having, distinct, shared) ==
    [base |-> "a", joins |-> joins, where |-> where, items |-> items, group |-> group, having |-> having, distinct |-> distinct, shared |-> shared, dedup |-> FALSE]
LegacyRows == {<<>>, <<<<1, 1>>>>, <<<<1, 1>>, <<2, -1>>>>, <<<<1, -1>>, <<3, 1>>>>, <<<<1, 1>>, <<1, 0>>, <<-1, 1>>>>}
JoinedRows == {[a |-> Cells(a), b |-> Cells(b), c |-> Cells(c)] : a \in {<<<<1, 1>>, <<2, -1>>>>, <<<<1, 1>>, <<2, 0>>, <<-1, 1>>>>},
                  b \in {<<>>, <<<<1, 1>>>>, <<<<1, -1>>, <<3, 1>>>>}, c \in {<<<<1, 1>>>>, <<<<2, 0>>, <<3, 1>>>>}}
PlainItems == {<<LegacyItem("", "a", "v", "v")>>, <<LegacyItem("", "a", "k", "x"), LegacyItem("", "a", "v", "v")>>}
GroupItems == {<<LegacyItem("", "a", "k", t)>> \o m : t \in {"k", "x"}, m \in {<<LegacyItem(f, "a", c, "n")>> : f \in {"count", "sum", "median"}, c \in {"v", "*"}}
                                                       \union {<<LegacyItem("count", "a", "*", "n"), LegacyItem("sum", "a", "v", "m")>>}}
              \union {<<LegacyItem("count", "a", "*", "n"), LegacyItem("", "a", "k", "k")>>}
Havings == {<<>>, <<[func |-> "count", column |-> "*", form |-> "equals", negated |-> FALSE, value |-> 1]>>,
            <<[func |-> "sum", column |-> "v", form |-> "is_null", negated |-> TRUE, value |-> 0]>>}
ReadLists == {<<>>, <<"a">>, <<"b">>, <<"c">>, <<"a", "b">>, <<"b", "c", "x">>, <<"a", "c">>, <<"x">>}
CorpusUnit(kind, name, script, tables) ==
    [kind |-> kind, name |-> name, script |-> script, tables |-> tables, columns |-> {"n"}, target |-> TRUE, curation |-> FALSE, loads |-> TRUE]
CorpusUnits ==
    {CorpusUnit("main", "p", "s1", {}), CorpusUnit("main", "q", "s2", {"q"}), CorpusUnit("main", "p", "s2", {}), CorpusUnit("partial", "q", "s2", {}),
     CorpusUnit("intermediate", "q", "", {}), CorpusUnit("main", "", "s1", {}), [CorpusUnit("main", "q", "s1", {}) EXCEPT !.target = FALSE],
     [CorpusUnit("main", "q", "s1", {}) EXCEPT !.loads = FALSE], [CorpusUnit("intermediate", "p", "s1", {"q"}) EXCEPT !.curation = TRUE],
     CorpusUnit("intermediate", "p", "s1", {"q"})}
EmitPaths == {<<"drafts", "p">>, <<"drafts", "q">>, <<"rules", "n">>}
NoFile == [marker |-> FALSE, hash |-> "none", rules |-> {}]
EmitFiles == {NoFile, [NoFile EXCEPT !.hash = "h1"], [marker |-> TRUE, hash |-> "h1", rules |-> {}]}
EmitCandidates == {{}} \union {{[name |-> "n", column |-> "n", scripts |-> {"s1", "s2"}, fragment |-> f, parses |-> p]} : f \in {"h1", "f"}, p \in BOOLEAN}
ParityRows == {<<x>> : x \in {1, 2} \X {0, 1}} \union {<<>>} \union ({<<1, 0>>, <<1, 1>>, <<2, 0>>, <<-1, 0>>} \X {<<1, 0>>, <<1, 1>>, <<-1, 0>>})
              \union {<< <<1, 0>>, <<1, 0>>, <<2, 1>> >>, << <<1, 0>>, <<2, 1>>, <<2, 1>> >>, << <<2, 1>>, <<1, 0>>, <<1, 0>> >>}
ParityTables == {[types |-> [k |-> "int", v |-> t], rows |-> Cells(r)] : r \in ParityRows, t \in {"int", "long"}}
AskLegacy ==
    /\ case = None
    /\ \/ \E js \in LegacyJoins, shared \in BOOLEAN : \E w \in {x \in LegacyWheres : Asked(x) \subseteq Shown(js)}, k \in {{}, {"a"}, {"b"} \intersect Shown(js)} :
             Ask("legacy", {[statement |-> Legacy(js, w, AllValues(js) \o SetToSeq({LegacyItem("", t, "k", "key") : t \in k}), "", <<>>, FALSE, shared), data |-> d] : d \in JoinedRows})
       \/ \E w \in {x \in LegacyWheres : Asked(x) \subseteq {"a"}}, shared, distinct \in BOOLEAN : \E i \in PlainItems :
             Ask("legacy", {[statement |-> [Legacy(<<>>, w, i, "", <<>>, distinct, shared) EXCEPT !.dedup = p], data |-> [a |-> Cells(r)]] : r \in LegacyRows, p \in {FALSE}})
       \/ \E w \in {x \in LegacyWheres : Asked(x) \subseteq {"a"}}, shared \in BOOLEAN, i \in GroupItems, h \in Havings :
             Ask("legacy", {[statement |-> Legacy(<<>>, w, i, "k", h, FALSE, shared), data |-> [a |-> Cells(r)]] : r \in LegacyRows})
       \/ \E r \in [{"a", "b", "c"} -> ReadLists] : \E o \in Permutations({"a", "b", "c"}) :
             Ask("corpus", {[nodes |-> [i \in 1..3 |-> [target |-> o[<<"a", "b", "c">>[i]], reads |-> r[o[<<"a", "b", "c">>[i]]]]]]})
       \/ \E u, w \in CorpusUnits, f \in [EmitPaths -> EmitFiles], c \in EmitCandidates :
             Ask("emit", {[units |-> IF w.name = "" THEN <<u>> ELSE <<u, w>>, candidates |-> c, texts |-> [s1 |-> "h1", s2 |-> "h2"], later |-> l,
                           files |-> [p \in {p \in EmitPaths : f[p] # NoFile} |-> f[p]]] : l \in {[s1 |-> "h1", s2 |-> "h2"], [s1 |-> "h3", s2 |-> "h2"]}})
       \/ \E d, l \in ParityTables, key \in {<<>>, <<"k">>} : Ask("parity", {[draft |-> d, legacy |-> l, key |-> key]})

Next ==
    \/ AskSemantic
    \/ AskAgents
    \/ AskLineage
    \/ AskDraft
    \/ AskLegacy
    \/ AskRule
    \/ AskKnowledge
    \/ Done

Spec == Init /\ [][Next]_case

------------------------------------------------------------------------------
(* A plan over the model graph is a shortest path that repeats no metric   *)
(* row and filters every governed model; names are not redirected by a     *)
(* growing catalogue, and no certificate or override outlives its window.  *)
(* What a language model answers never widens what a conversation reads,   *)
(* and no other agent answers what the policy refused.                     *)
PlannedQueryIsSafe ==
    /\ About("graph") => G!FindPathsIsShortest(case.in)
    /\ About("plan") => P!MetricRowsCountOnce(case.in) /\ P!EveryPolicyApplies(case.in)
    /\ About("name") => P!ReferencesAreStable(case.in)
    /\ About("access") => W!AccessExpires(case.in) /\ W!EnforcedIsFresh(case.in)
    /\ About("window") => W!WindowIsOneInterval(case.in)
    /\ About("chat") => CV!AnswerIsGoverned(case.in) /\ CV!AnswersAreLogged(case.in)
    /\ About("hub") => CV!RefusalIsNotRoutedAround(case.in)

(* Both compilers and the metric view read the same rows and the row       *)
(* policy holds beside any filter; an accepted model compiles; evidence    *)
(* tells constants apart and discloses only what its policy allows.        *)
CompiledQueriesAgree ==
    /\ About("sql") => Q!PolicyHolds(case.in) /\ Q!BothCompilersAgree(case.in)
    /\ About("model") => D!AcceptedModelCompiles(case.in)
    /\ About("period") => D!PeriodIsOneWindow(case.in)
    /\ About("sources") => Q!MetricSourcesAreTraced(case.in)
    /\ About("hash") => Q!HashKeepsLiterals(case.in)
    /\ About("disclosure") => Q!WithheldStaysWithheld(case.in)

(* A generated draft is valid, guesses no type, claims only cardinalities  *)
(* that hold, and a language model cannot change what the pipeline manages. *)
(* A described pipeline is only saved when it loads and the catalogue has  *)
(* what it names, and is the one the wizard saves.                         *)
(* A verified draft of a legacy statement returns its rows; circular       *)
(* tables are named, hand-written files survive every emission, and what   *)
(* is reported identical to the legacy table is.                           *)
DraftsAreTrue ==
    /\ About("builder") => CV!SavedPipelineIsKnown(case.in)
    /\ About("draft") => /\ R!GeneratedDraftIsValid(case.in) /\ R!DraftGuessesNothing(case.in)
                         /\ R!UndeclaredDimensionIsKnown(case.in)
    /\ About("join") => R!ProposedCardinalityHolds(case.in)
    /\ About("enrich") => R!EnrichmentKeepsManaged(case.in)
    /\ About("legacy") => LA!VerifiedDraftKeepsRows(case.in) /\ LA!DistinctDraftKeepsRows(case.in)
    /\ About("corpus") => LA!CyclesAreNamed(case.in)
    /\ About("emit") => LA!EmissionIsFaithful(case.in)
    /\ About("parity") => LA!ParityIsEquality(case.in)

(* Planning keeps the order of rules, fusing independent ones changes      *)
(* nothing, a lost result is warned about, a failed scan leaves no trace.  *)
(* Lineage finds every column within its bound, classifications follow it, *)
(* and the registry keeps the run of each definition.                      *)
PipelineIsFaithful ==
    /\ About("rules") \/ About("stages") => B!PlanKeepsOrder(case.in.rules)
    /\ About("rules") => /\ B!IndependentRulesFuse(case.in.rules, case.in.row)
                         /\ B!LostWritesAreReported(case.in.rules)
    /\ About("scan") => B!ScanKeepsRegistry(case.in.registry, case.in.modules)
    /\ About("lineage") => LR!TraversalIsComplete(case.in.graph, case.in.up, case.in.node, case.in.depth)
    /\ About("impact") => LR!ImpactIsComplete(case.in.records, case.in.of, case.in.depth)
    /\ About("classify") => LR!ClassificationReachesOutput(case.in.schema, BaseTables, case.in.store, case.in.declared)
    /\ About("index") => LR!RegistryKeepsRuns(case.in.records) /\ LR!NewDefinitionIsServed(case.in.records)

(* neighbors answers shortest distances, fusion respects what both         *)
(* rankings say, and the configured search mode is the one served.  A      *)
(* question about a field is answered about that field however its intent  *)
(* was found, and a session is served until its time is over.              *)
SearchIsFaithful ==
    /\ About("field") => CV!FieldAnswerIsAsked(case.in)
    /\ About("field") \/ About("quality") => CV!IntentSourceIsIrrelevant(case.in)
    /\ About("session") => CV!SessionLives(case.in)
    /\ About("walk") => ks!NeighborsAreNearest(case.in.index, case.in.from, case.in.depth)
    /\ About("search") => \A kinds \in {"any", "metric"} :
                              ks!FusionKeepsAgreement(case.in.index, [kinds |-> kinds, k |-> 2, mode |-> ""])
    /\ About("embedder") => ks!ConfiguredModeIsServed(case.in.env, case.in.loadable,
                              CHOOSE i \in RankedIndexes : i.nodes[1].score > 0, [kinds |-> "any", k |-> 2, mode |-> ""])

(* Documented, and not so: filters narrow every query.                     *)
FiltersHold == About("sql") /\ ~case.in.model.policy => Q!FiltersHold(case.in)
==============================================================================
