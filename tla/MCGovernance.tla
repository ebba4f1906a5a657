-------------------- MODULE MCGovernance --------------------
(* Decisions of the governance side: declarations, verdicts, advice, engines and checks. *)
EXTENDS Naturals, Integers, Sequences, FiniteSets, SequencesExt, FiniteSetsExt, TLC, WellFoundedInduction, FiniteSetTheorems, SequenceTheorems, TLAPS

CONSTANTS
    MaxSchemaDepth, MaxRules, CapabilityInputs, PreconditionInputs,                  \* CapabilityValidation
    Hard, MaxPort, DefaultLimit, ConfigInputs, QueryInputs, ToolInputs, ResourceInputs, PageInputs, RowInputs,
    DatasetInputs,                                                                   \* McpSurface
    SetupInputs, StoreInputs, RouteInputs,                                           \* EngineSetup
    ExportInputs, AttributeInputs,                                                   \* TracingExport
    CheckInputs, ReportInputs, VolumeInputs, Versions, Travellers, Documents,        \* DataContracts
    AdviceSettings, AdviceInputs, OutcomeInputs,                                     \* AdaptiveAdvice
    JudgementInputs, AnswerInputs, ChronologyInputs, EvaluationInputs, DriftInputs, SchemaInputs,
    RollupInputs,                                                                    \* CandidateJudgement
    OpInputs, LayoutInputs, OutputInputs, BlockInputs, FileInputs,                   \* PipelineSchema
    PipelineInputs                                                                   \* PipelineSemantics

\* Each input of a pure decision is one state, and the invariants compare the
\* code's answer for it with a reference.  The inputs that are constants are
\* those about which there is a theorem for any input.
VARIABLE case      \* [about |-> decision, in |-> input], or none

None == [about |-> "none"]
SeqsUpTo(S, n) == UNION {[1..k -> S] : k \in 0..n}
Ask(about, inputs) == case = None /\ \E in \in inputs : case' = [about |-> about, in |-> in]
Done == case # None /\ case' = None
About(what) == case.about = what
Init == case = None

\* Documents (DataContracts; PS, PipelineSchema), candidates (J, CandidateJudgement) and the
\* executions of a pipeline (E, PipelineSemantics), with what is proved of them.
K == INSTANCE DecisionProofs

------------------------------------------------------------------------------
(* Capability declarations, arguments and precondition readings. *)
V == INSTANCE CapabilityValidation WITH MaxApprovalWindow <- 1

Leaf == {"type" :> "string" @@ "maxLength" :> 1,
         "type" :> "string",
         "maxLength" :> 1,
         "type" :> "integer" @@ "minimum" :> 0 @@ "maximum" :> 1,
         "type" :> "integer" @@ "minimum" :> 1 @@ "maximum" :> 0,
         "type" :> "integer" @@ "minimum" :> 0 @@ "maximum" :> 1 @@ "enum" :> {V!Int(1)},
         "type" :> "integer" @@ "minimum" :> 0 @@ "maximum" :> 1 @@ "maxItems" :> 1}
Node(children, required) ==
    {"type" :> "object" @@ "additionalProperties" :> FALSE @@ "properties" :> f @@ "required" :> r :
        f \in children, r \in required}
Nested == Leaf \union {"type" :> "array" @@ "maxItems" :> 1 @@ "items" :> l : l \in Leaf}
               \union Node({[x |-> l] : l \in Leaf}, {{}, {"x"}})
Roots == Node({[k |-> n] : n \in Nested} \union {<<>>}, {{}, {"k"}})
           \union {"type" :> "object" @@ "additionalProperties" :> FALSE @@ "properties" :> [k |-> l] : l \in Leaf}
           \union Leaf
Values == {V!Text(1), V!Text(2), V!Int(1), V!Int(2), V!Bool(TRUE)}
Arguments == {V!Object(f) : f \in {<<>>} \union [{"k"} -> Values] \union [{"k", "other"} -> {V!Text(1)}]}
               \union {V!Object([k |-> V!List(s)]) : s \in SeqsUpTo(Values, 1) \union {<<V!Int(1), V!Int(1)>>}}
               \union {V!Object([k |-> V!Object([x |-> v])]) : v \in Values}

SmallCapabilityInputs ==
    {[p |-> [id |-> "a", mode |-> m, scopes |-> {"s"}, schema |-> s, key |-> k,
             reversibility |-> "reversible", compensation |-> "none", approval |-> "GUARDED"],
      args |-> a] : m \in {"read", "write"}, s \in Roots, k \in {"none", "k"}, a \in Arguments}
    \union
    {[p |-> [id |-> "a", mode |-> "write", scopes |-> {"s"},
             schema |-> CHOOSE s \in Node({[k |-> CHOOSE l \in Leaf : V!ValidNode(l, 1)]}, {{"k"}}) : TRUE,
             key |-> "k", reversibility |-> r, compensation |-> c, approval |-> ap],
      args |-> V!Object([k |-> V!Text(1)])] :
        r \in {"reversible", "compensatable", "irreversible"}, c \in {"none", "a", "b"},
        ap \in {"SHADOW", "SUPERVISED", "GUARDED"}}

Readings == [readable : BOOLEAN, hash : {"h1", "h2"}]
SmallPreconditionInputs ==
    {[rules |-> r, before |-> b, after |-> a] : r \in SeqsUpTo(V!RuleBehaviour, 3), b \in Readings, a \in Readings}

AskCapability ==
    \/ Ask("capability", CapabilityInputs)
    \/ Ask("preconditions", PreconditionInputs)

------------------------------------------------------------------------------
(* Proposals, evidence, histories and schemas of metric candidates. *)

Proposals == [form : {"schema_dict", "sql_blocking", "forbidden_keys"}, tables : BOOLEAN, raw : {FALSE}, parses : BOOLEAN,
              join : {"declared", "undeclared", "no_key", "no_alias"}, aggregate : BOOLEAN,
              fanout : BOOLEAN, residues : BOOLEAN]
Sound == [form |-> "schema_dict", tables |-> TRUE, raw |-> FALSE, parses |-> TRUE, join |-> "declared",
          aggregate |-> TRUE, fanout |-> FALSE, residues |-> FALSE]
Enough == [requests |-> 5, requesters |-> 2, days |-> {1, 2}]
Thresholds(stability) == [requests |-> 5, requesters |-> 2, days |-> 2, runs |-> 3, stability |-> stability, scale |-> 3]
Judged(p, gate, e, stored, now, execute, t) ==
    [p |-> p, gate |-> gate, e |-> e, stored |-> stored, now |-> now, execute |-> execute, t |-> t]
Same == <<"x", "x", "x">>
SmallJudgementInputs ==
    {Judged(p, g, Enough, Same, Same, x, Thresholds(3)) : p \in Proposals, g \in BOOLEAN, x \in BOOLEAN}
    \union {Judged(Sound, TRUE, [requests |-> r, requesters |-> u, days |-> d], Same, Same, TRUE, Thresholds(3)) :
              r \in {0, 4, 5}, u \in 0..2, d \in {{}, {1}, {1, 2}}}
    \union {Judged(Sound, TRUE, Enough, s, n, x, Thresholds(m)) :
              s \in SeqsUpTo({"x", "y", "error"}, 4), n \in [1..3 -> {"x", "y", "error"}], x \in BOOLEAN, m \in 2..3}
SmallAnswerInputs ==
    {[answers |-> <<a, b, Sound>>, gate |-> g] : a \in Proposals, g \in BOOLEAN,
        b \in {Sound, [Sound EXCEPT !.fanout = TRUE], [Sound EXCEPT !.tables = FALSE]}}
Transitions == {<<"none", "candidate">>, <<"candidate", "validated">>, <<"candidate", "needs_review">>,
                <<"validated", "promoted">>, <<"validated", "rejected">>, <<"needs_review", "promoted">>,
                <<"promoted", "under_review">>, <<"under_review", "promoted">>, <<"promoted", "demoted">>,
                <<"demoted", "candidate">>}
Chains == {c \in SeqsUpTo(Transitions, 5) : c # <<>> /\ c[1][1] = "none"
                                           /\ \A i \in 2..Len(c) : c[i][1] = c[i - 1][2]}
Stamps(n) == {s \in [1..n -> 1..2] : \A i \in 2..n : s[i - 1] <= s[i]}
Perms(n) == {f \in [1..n -> 1..n] : \A i, j \in 1..n : f[i] = f[j] => i = j}
SmallChronologyInputs ==
    UNION {{[chain |-> [i \in 1..Len(c) |-> [at |-> s[i], id |-> f[i], from |-> c[i][1], to |-> c[i][2]]]] :
               f \in Perms(Len(c)),
               s \in {s \in Stamps(Len(c)) : \A i, j \in 1..Len(c) :
                        i < j /\ s[i] = s[j] => c[i][1] # c[j][2] /\ c[i][2] # c[j][2]}} : c \in Chains}
Questions == {q \in [family : {"A", "B", "C"}, mode : {"query", "candidate", "candidate_refused", "error"},
                     denied : BOOLEAN, match : BOOLEAN, rank : 0..2] : q.denied => q.mode = "error"}
SmallEvaluationInputs == {[qs |-> qs] : qs \in SeqsUpTo(Questions, 1)} \union
                    {[qs |-> <<q, r>>] : q \in Questions, r \in {x \in Questions : x.rank = 1 /\ x.match}}
SmallDriftInputs == [fallbacks : 0..2, usage : SeqsUpTo({{}, {"m"}, {"m", "n"}}, 2), min : {0, 1, 3},
                catalog : {{}, {"m"}, {"m", "n"}}, redacted : BOOLEAN]

Condition(form, col, op, v) == [form |-> form, col |-> col, op |-> op, vals |-> v]
Conds == {Condition("text", "a", "equals", <<"v">>), Condition("map", "b", "in", <<"v", "w">>),
          Condition("bare", "b", "is_null", <<>>)}
Groups == {<<>>} \union {<<<<c>>, g>> : c \in Conds, g \in SeqsUpTo(Conds, 2) \ {<<>>}}
Schema(f, fg, w, wg, h, by) == [filter |-> f, filter_groups |-> fg, where |-> w, where_groups |-> wg,
                                having |-> h, group_by |-> by, measures |-> {"m"}]
Schemas == {Schema(f, fg, w, wg, <<>>, <<"b">>) : f \in SeqsUpTo(Conds, 1), fg \in {<<>>} \union {<<<<c>>>> : c \in Conds},
                                                 w \in SeqsUpTo(Conds, 2), wg \in Groups}
           \union {Schema(<<>>, <<>>, <<>>, <<>>, h, <<>>) : h \in SeqsUpTo(Conds \union {Condition("dict", "m", "equals", <<"v">>)}, 2)}
Respelled(c) == [c EXCEPT !.form = "dict", !.vals = [i \in DOMAIN @ |-> "u"]]
Variant(s) == LET Turn(cs) == Reverse([i \in DOMAIN cs |-> Respelled(cs[i])])
              IN [s EXCEPT !.filter = Turn(@), !.where = Turn(@), !.having = Turn(@),
                           !.filter_groups = Reverse([i \in DOMAIN @ |-> Turn(@[i])]),
                           !.where_groups = Reverse([i \in DOMAIN @ |-> Turn(@[i])])]
SmallSchemaInputs == {[s |-> s, variant |-> Variant(s)] : s \in Schemas}

\* Tables of up to four rows, not empty: over no row a count is 0 and its roll-up is NULL.
SmallRollupInputs == {[funcs |-> funcs, rows |-> rows] : funcs \in {<<"sum", "count">>, <<"min", "max">>, <<"sum", "avg">>},
                    rows \in SeqsUpTo([group : {"g", "h"}, value : {K!J!Null, K!J!Value(-1), K!J!Value(0), K!J!Value(2)}], 4) \ {<<>>}}

AskCandidate ==
    \/ Ask("judgement", JudgementInputs)
    \/ Ask("proposal", AnswerInputs)
    \/ Ask("chronology", ChronologyInputs)
    \/ Ask("evaluation", EvaluationInputs)
    \/ Ask("drift", DriftInputs)
    \/ Ask("schema", SchemaInputs)
    \/ Ask("rollup", RollupInputs)

------------------------------------------------------------------------------
(* Usage evidence, contexts and deliveries of adaptive advice. *)
A == INSTANCE AdaptiveAdvice WITH Settings <- AdviceSettings

SmallAdviceSettings ==
    [windows |-> {1, 3}, minCount |-> 1, minPoints |-> 1, percentile |-> 95, minDuration |-> 2,
     frequent |-> 2, joins |-> 1, rejections |-> 1, unused |-> 1, maxQueries |-> 1,
     minEvents |-> 1, window |-> 2, ratio |-> 1]

Evidence == [id : 1..2, at : {1, 3}, env : {"dev", "prod"}, status : {"succeeded", "failed"},
             models : {{"x"}, {"x", "y"}}, metrics : {{"m"}}, filters : {{<<"c", "eq", "v">>}}, ms : {-1, 2}]
Contexts == {[certified |-> c, grains |-> g, raw |-> FALSE, missing |-> TRUE, asset |-> TRUE, unused |-> 1, plan |-> p] :
                c \in {{"x"}, {"x", "y"}}, g \in {{"x"}, {"x", "y"}},
                p \in [found : BOOLEAN, cardinalities : {{"many_to_one"}, {"many_to_many"}}, fanout : BOOLEAN]}
Pipelines == [loads : {TRUE}, materialization : {"table", "materialized_view"}, aggregate : BOOLEAN, compiles : BOOLEAN]
SmallAdviceInputs ==
    {[evidence |-> s, now |-> 3, context |-> c, pipelines |-> Pipelines] :
        s \in {s \in SeqsUpTo(Evidence, 2) : Len(s) > 0 /\ s[1].env = "prod" /\ s[1].id = 1}, c \in Contexts}
Timed == [id : {0}, at : 1..4, env : {"prod"}, status : {"succeeded", "failed"}, models : {{"x"}},
          metrics : {{"m"}}, filters : {{}}, ms : {0, 5, 10}]
SmallOutcomeInputs ==
    {[evidence |-> [i \in 1..3 |-> [s[i] EXCEPT !.id = i]],
      now |-> 4, delivered |-> 3, at |-> n, by |-> b] :
        s \in {s \in [1..3 -> Timed] : s[1].at <= s[2].at /\ s[2].at <= s[3].at}, n \in 1..3, b \in {1, 9}}

AskAdaptive ==
    \/ Ask("advice", AdviceInputs)
    \/ Ask("outcome", OutcomeInputs)

------------------------------------------------------------------------------
(* Configurations, sandboxes and pipelines for the engine. *)
U == INSTANCE EngineSetup

Envs == {"dev", "prod", "local"}
Environments == {f \in [Envs -> [catalog : {"", "c"}, production : BOOLEAN]] : f["local"].catalog = ""}
Orders == {<<>>, <<"dev">>, <<"prod", "dev">>, <<"dev", "prod">>, <<"old", "prod", "local">>}
SmallSetupInputs ==
    {[config |-> [priority |-> p, environments |-> e, default |-> d, cached |-> IF cached = "" THEN U!NoEnvironment ELSE [env |-> cached, db |-> e[cached].catalog]], access |-> [c \in {"c"} |-> a],
      force |-> force, signals |-> signals, schema |-> [layer |-> "gold", owner |-> owner]] :
        p \in Orders, e \in Environments, d \in {"", "dev"}, cached \in {"", "prod"},
        a \in {"query", "sdk", "none"}, force \in {"", "dev", "prod", "gone"}, signals \in {{}, {"variable"}, {"job id"}}, owner \in {"", "bob"}}
SmallStoreInputs ==
    {[store |-> [owner \in {"", "bob", "eve"} |-> IF owner = "" THEN [schema |-> TRUE, table |-> shared] ELSE IF owner = "bob" THEN own ELSE [schema |-> TRUE, table |-> "y"]],
      engine |-> [suffix |-> suffix], missing |-> missing, resolved |-> resolved] :
        shared \in {"none", "x"}, own \in [schema : {TRUE}, table : {"none", "x", "z"}] \union {U!Absent},
        suffix \in {"", "bob"}, missing \in {"copy", "error"}, resolved \in BOOLEAN}
SmallRouteInputs ==
    {[schema |-> s, engine |-> e, pattern |-> p] :
        s \in [product : BOOLEAN, sink : {"", "jdbc", "delta"}, materialization : {"", "streaming_table", "materialized_view"}],
        e \in [store : BOOLEAN, monitor : BOOLEAN, strict : BOOLEAN, registry : BOOLEAN, sources : {{}, {"s"}}], p \in {"table", "split", "union", "yaml"}}

AskEngine ==
    \/ Ask("setup", SetupInputs)
    \/ Ask("sandbox", StoreInputs)
    \/ Ask("route", RouteInputs)

------------------------------------------------------------------------------
(* Exporters that fail in any set of phases, and attributes of any kind. *)
tx == INSTANCE TracingExport

Exporters == {[built |-> FALSE, fails |-> {}]} \union {[built |-> TRUE, fails |-> f] : f \in SUBSET (tx!Phases \ {"status"})}
TraceItems == [key : {"a", "b", "q"}, value : {"short", "long", "nan", "object"}]
SmallExportInputs ==
    {[exporters |-> e, required |-> r, business |-> b] :
        e \in SeqOf(Exporters, 1) \union [1..2 -> Exporters], r \in BOOLEAN, b \in {"value", "error"}}
SmallAttributeInputs ==
    {[policy |-> [keys |-> {"a", "b"}, max |-> m], first |-> f, later |-> l] :
        m \in 1..2, f \in SeqsUpTo(TraceItems, 1), l \in SeqsUpTo(TraceItems, 2)}

AskTracing ==
    \/ Ask("export", ExportInputs)
    \/ Ask("attributes", AttributeInputs)

------------------------------------------------------------------------------
(* Small tables with NULLs, the documents that check them, reports, runs. *)

QualityRows == SeqsUpTo([k : 0..2, v : 0..2], 2) \union {<<[k |-> 0, v |-> 1], [k |-> 0, v |-> 1], [k |-> 1, v |-> 2]>>, <<[k |-> 1, v |-> 0], [k |-> 2, v |-> 0], [k |-> 1, v |-> 1]>>}
Selects == {[k |-> "k", v |-> "v"], [k |-> "k"], [v |-> "v"], [k |-> "v", v |-> "k"]}
QualityFilters == {{}} \union {{[column |-> c, operator |-> o, value |-> 2]} : c \in {"k", "v"}, o \in {"is_null", "is_not_null", "equals", "not_equals", "less_than", "sql"}}
QualityDocuments == [filter : QualityFilters, drop_nulls_in : {{}, {"k"}, {"v"}}, drop_duplicates_on : {{}, {"k"}, {"k", "v"}}, select : Selects, max_latency : BOOLEAN]
SmallCheckInputs == {[schema |-> s, rows |-> r] : s \in QualityDocuments, r \in QualityRows}
SmallVolumeInputs == {[runs |-> r] : r \in SeqsUpTo([count : {0, 10, 12, 20}, broken : BOOLEAN, stored : BOOLEAN], 3)}
Results == [status : {"PASS", "FAIL", "ERROR", "SKIPPED"}, severity : {"info", "warning", "critical"}]
SmallReportInputs ==
    {[report |-> r, config |-> [min_severity |-> m, channels |-> c, recipients |-> e], failing |-> f] :
        r \in SeqsUpTo(Results, 2), m \in {"info", "warning", "critical"}, c \in {{"slack"}, {"slack", "email"}},
        e \in BOOLEAN, f \in SUBSET {"slack", "email"}}

AskQuality ==
    \/ Ask("checks", CheckInputs)
    \/ Ask("report", ReportInputs)
    \/ Ask("volumes", VolumeInputs)

------------------------------------------------------------------------------
(* Configurations, tokens, arguments, registries and catalogues of the MCP surface. *)
M == INSTANCE McpSurface WITH MaxApprovalWindow <- 1

SmallCeilings == [page |-> 2, rows |-> 3, filters |-> 2, length |-> 2]

Names == {"", "padded", "x"}
ScopeLists == {<<>>, <<"query:execute">>, <<"models:read", "query:execute">>, <<"query:execute", "query:execute">>,
               <<"query:execute", M!Override>>}
Service == [factory |-> "x", limits |-> [page |-> 2, rows |-> 3, filters |-> 1, length |-> 2]]
Bind == [host |-> "localhost", port |-> 1]
Stdio(subject, scopes) == [subject |-> subject, consumer_class |-> "x", scopes |-> scopes]
Http(audience, issuer, scopes) == [verifier_factory |-> "x", audience |-> audience, issuer |-> issuer,
                                   resource |-> "r", required_scopes |-> scopes]
Configs == [transport : {"stdio"}, bind : [host : {"", "localhost", "10.0.0.1"}, port : 0..3],
            service : {Service, M!Absent, [Service EXCEPT !.limits.rows = 4]},
            stdio : {Stdio(n, s) : n \in Names, s \in ScopeLists}, http : {M!Absent, Http("a", "i", <<"query:execute">>)}]
           \union
           [transport : {"http"}, bind : {Bind}, service : {Service}, stdio : {M!Absent, Stdio("x", <<"query:execute">>)},
            http : {M!Absent} \union {Http(a, i, s) : a \in {"", "a"}, i \in {"padded", "i"}, s \in ScopeLists}]
Tokens == [subject : {"", "x"}, consumer_class : {"x"}, issuer : {"i", "j"}, audience : {{}, {"a"}, {"a", "r"}}, resource : {{}, {"r"}},
           expires : 1..2, scopes : {{}, {"query:execute"}, {"query:execute", "models:read"}, {"query:execute", M!Override}}]
Token == [subject |-> "x", consumer_class |-> "x", issuer |-> "i", audience |-> {"a", "r"}, resource |-> {}, expires |-> 2,
          scopes |-> {"query:execute"}]
SmallConfigInputs ==
    {[config |-> c, transport |-> t, headers |-> <<"bearer token">>, claims |-> Token, now |-> 1] : c \in Configs, t \in {"stdio", "http"}}
    \union {[config |-> [transport |-> "http", bind |-> Bind, service |-> Service, stdio |-> M!Absent, http |-> Http("a", "i", s)],
             transport |-> "http", headers |-> h, claims |-> k, now |-> 1] :
               s \in ScopeLists, k \in Tokens, h \in {<<>>, <<"bearer token">>, <<"basic">>, <<"bearer token", "bearer token">>}}
Filters == {[operator |-> o, given |-> g, list |-> l, lengths |-> n] : o \in {"eq", "in", "is_null"}, g \in {TRUE}, l \in {TRUE}, n \in SeqsUpTo(1..3, 3)}
           \union {[operator |-> o, given |-> g, list |-> FALSE, lengths |-> <<n>>] : o \in {"eq", "in", "is_null"}, g \in BOOLEAN, n \in 1..3}
Limits == [page : {2}, rows : 1..3, filters : 1..2, length : 1..2]
SmallQueryInputs ==
    {[ctx |-> [scopes |-> {"query:execute"}], limits |-> l, args |-> [metrics |-> <<"m">>, group_by |-> <<>>, filters |-> f, limit |-> n]] :
        l \in Limits, f \in SeqOf(Filters, 1), n \in {0, 3}}
    \union {[ctx |-> [scopes |-> s], limits |-> l, args |-> [metrics |-> m, group_by |-> g, filters |-> f, limit |-> n]] :
        s \in {{}, {"query:execute"}}, l \in Limits, m \in SeqsUpTo({"", "m"}, 3), g \in SeqsUpTo({"g"}, 3), n \in 0..4,
        f \in {<<>>, <<CHOOSE f \in Filters : f.lengths = <<2>>, CHOOSE f \in Filters : f.lengths = <<1>>>>}}
Registered == [id : {"p.q", "p_q", "r"}, broken : BOOLEAN, mode : {"read", "write"}, reserved : BOOLEAN,
               scopes : {{}, {"s"}}, approval : {"SHADOW", "SUPERVISED", "GUARDED"}]
ToolOf(c) == [id |-> c.id, name |-> IF c.id = "r" THEN "r" ELSE "p_q", broken |-> c.broken, mode |-> c.mode, reserved |-> c.reserved,
              scopes |-> c.scopes, approval |-> c.approval]
SmallToolInputs ==
    {[ctx |-> [scopes |-> s], registry |-> {ToolOf(c), ToolOf(d)}, configured |-> m] :
        s \in SUBSET {"s", "query:execute"}, c \in {c \in Registered : c.id = "p.q"},
        d \in {d \in Registered : d.id # "p.q" /\ ~d.reserved /\ d.mode = "write"}, m \in {"none", "SHADOW", "SUPERVISED", "GUARDED"}}
Catalogues == {<<>>, <<"a">>, <<"a", "b">>, <<"b">>, <<"a", "b", "c">>, <<"a", "c">>, <<"b", "c">>}
SmallResourceInputs ==
    [ctx : [scopes : SUBSET M!MCP_SCOPES], uri : [malformed : BOOLEAN, query : BOOLEAN, resource : DOMAIN M!RESOURCE_TEMPLATES],
     stored : [configured : BOOLEAN, found : BOOLEAN]]
SmallPageInputs == {[catalogues |-> c, limit |-> n] : c \in SeqOf(Catalogues, 3) \ {<<>>}, n \in 1..2}
SmallRowInputs == {[result |-> r, limit |-> n] : r \in SeqsUpTo({"x", "y"}, 4), n \in 1..3}
SmallDatasetInputs == {[entries |-> e] : e \in kSubset(2, [key : {"k", "t"}, table : {"", "t", "u", "k"}])
                                                \union kSubset(3, [key : {"k", "t", "u"}, table : {"t", "u"}])}

AskMcp ==
    \/ Ask("config", ConfigInputs)
    \/ Ask("query", QueryInputs)
    \/ Ask("tools", ToolInputs)
    \/ Ask("resource", ResourceInputs)
    \/ Ask("pages", PageInputs)
    \/ Ask("rows", RowInputs)
    \/ Ask("dataset", DatasetInputs)

------------------------------------------------------------------------------
(* Data contracts: versions of one contract, and documents to import. *)

Absent == K!Absent
FieldOf(n, y, r, u, c, e) == [name |-> n, type |-> y, required |-> r, unique |-> u, classification |-> c, entity |-> e, description |-> "none"]
Plain(n) == FieldOf(n, "string", FALSE, FALSE, "none", "none")
FieldChoices == {FieldOf("a", y, r, u, c, "none") : y \in {"none", "string"}, r \in BOOLEAN, u \in BOOLEAN, c \in {"none", "public", "confidential"}}
Slas == {Absent} \union [refresh_frequency : {"none", "daily"}, max_latency : {"none", "1h", "90m", "2h", "soon"}]
Securities == {Absent} \union [level : {"none", "internal", "restricted", "secret"}, access_policy : {"none", "p"}]
Product(o) == [id |-> "d", version |-> "1.0.0", owner |-> o, domain |-> "none", description |-> "none"]
Contract(output, grain, sla, security) ==
    [product |-> Product(Absent), output |-> output, grain |-> grain, sla |-> sla, security |-> security, semantic |-> Absent, status |-> "none"]
SmallVersions ==
    {Contract(<<f>>, <<>>, Absent, Absent) : f \in FieldChoices}
    \union {Contract(<<Plain("a"), f>>, g, Absent, Absent) : f \in {Plain("b"), FieldOf("b", "string", TRUE, FALSE, "none", "e")}, g \in {<<>>, <<"a">>, <<"a", "b">>}}
    \union {Contract(<<Plain("a")>>, <<>>, s, Absent) : s \in Slas}
    \union {Contract(<<Plain("a")>>, <<>>, Absent, c) : c \in Securities}
    \union {[Contract(<<Plain("a")>>, <<>>, Absent, Absent) EXCEPT !.product = Absent]}
Owners == {Absent, [text |-> "t"]} \union [text : {"none"}, team : {"none", "t"}, steward : {"none", "w"}, contact : {"none", "c"}]
SmallTravellers ==
    {[Contract(<<f, g>>, k, s, c) EXCEPT !.product.owner = o] :
        f \in {FieldOf("a", y, TRUE, u, "none", e) : y \in {"none", "string"}, u \in BOOLEAN, e \in {"none", "e"}},
        g \in {FieldOf("b", "int", r, u, "confidential", "none") : r \in BOOLEAN, u \in BOOLEAN},
        k \in {<<>>, <<"a">>, <<"a", "b">>}, s \in {Absent, [refresh_frequency |-> "daily", max_latency |-> "1h"]},
        c \in {Absent, [level |-> "internal", access_policy |-> "p"], [level |-> "none", access_policy |-> "p"]}, o \in Owners}
SmallDocuments ==
    {[id |-> "d", version |-> "1.0.0", description |-> "none", status |-> "draft", team |-> <<>>, customProperties |-> <<>>, security |-> <<>>,
      schema |-> [i \in DOMAIN n |-> [name |-> n[i], logicalType |-> "string", description |-> "none", classification |-> "none"]],
      quality |-> q, slaProperties |-> s] :
        n \in SeqsUpTo({"a", "b", "none"}, 2), q \in SeqsUpTo([type : {"required", "unique", "regex"}, field : {"a", "b"}], 2),
        s \in SeqsUpTo([property : {"latency", "maxLatency", "cost"}, value : {"none", "1h", "2h"}], 2)}

AskContract ==
    \/ Ask("versions", {[old |-> a, new |-> b] : a \in Versions, b \in Versions})
    \/ Ask("odcs", {[schema |-> s] : s \in Travellers})
    \/ Ask("document", {[doc |-> d] : d \in Documents})

------------------------------------------------------------------------------
(* Pipeline documents: operations, tables and outputs, materializations, and files of partials. *)

(* Operations of one output column. *)
OpPaths == {<<"upper">>, <<"cast">>, <<"substring">>, <<"col">>, <<"odd">>, <<"when", "equals">>, <<"when", "odd">>, <<"when">>,
            <<"then", "substring">>, <<"then">>, <<"else", "upper">>, <<"else", "odd">>}
OpStrings == {[path |-> path, args |-> n] : path \in OpPaths, n \in 0..2}
SmallOpInputs == {[ops |-> ops] : ops \in SeqsUpTo(OpStrings, 2)
                \union {<<w, t, e>> : w \in {o \in OpStrings : o.path[1] = "when"}, t, e \in {o \in OpStrings : o.args < 2}}}

(* Schemas: a stream or a view over one or two tables. *)
TableOf(name, alias, more) == [name |-> name, short |-> "t" \o name, alias |-> alias, loader |-> more = "loader",
    source |-> IF more = "csv" THEN "csv" ELSE IF more = "delta" THEN "delta" ELSE "", streaming |-> more \in {"stream", "limited stream"},
    devLimit |-> more \in {"limit", "limited stream"}, dedup |-> more = "dedup", qualify |-> more = "qualify"]
Features == {"plain", "stream", "loader", "csv", "delta", "limit", "limited stream", "dedup", "qualify"}
Blank == [keepAll |-> FALSE, hasSelect |-> FALSE, select |-> <<>>, partials |-> <<>>, joins |-> <<>>, rules |-> {}, devLimit |-> FALSE,
          sink |-> "", materialization |-> "", aggregate |-> FALSE, groupBy |-> <<>>, measures |-> <<>>, having |-> {},
          contract |-> FALSE, output |-> {}, grain |-> <<>>, from |-> 0, until |-> 0, dimensions |-> {}, tables |-> <<TableOf("a", "", "plain")>>]
JoinOf(from, to, type) == <<[from |-> from, to |-> to, type |-> type]>>
SmallLayoutInputs ==
    {[schema |-> [Blank EXCEPT !.tables = <<TableOf("a", names[1], f), TableOf("b", names[2], g)>>, !.joins = joins, !.materialization = mat,
                               !.devLimit = limit, !.rules = rules, !.keepAll = out = "keep", !.aggregate = out = "aggregate",
                               !.groupBy = IF out = "aggregate" THEN <<"k">> ELSE <<>>, !.measures = IF out = "aggregate" THEN <<"n">> ELSE <<>>,
                               !.sink = sink, !.partials = partials]] :
        f \in Features, g \in {"plain", "stream", "csv"}, names \in {<<"", "">>, <<"", "o">>, <<"tb", "o">>}, mat \in {"", "streaming_table", "materialized_view"}, limit \in BOOLEAN, rules \in {{}, {"r"}},
        joins \in {<<>>, JoinOf("a", "b", "left"), JoinOf("o", "a", "cross"), JoinOf("o", "a", "left"), JoinOf("a", "tb", "inner"), JoinOf("z", "a", "left"), JoinOf("tb", "a", "left"), JoinOf("a", "b", "odd")},
        out \in {"none", "aggregate"}, sink \in {""}, partials \in {<<>>, <<[alias |-> "p", streaming |-> TRUE]>>}}
    \union
    {[schema |-> [Blank EXCEPT !.tables = <<TableOf("a", "", f)>>, !.materialization = mat, !.sink = sink, !.keepAll = keep, !.joins = joins]] :
        f \in Features, mat \in {"", "streaming_table", "materialized_view"}, sink \in {"", "delta", "jdbc"}, keep \in BOOLEAN,
        joins \in {<<>>, JoinOf("a", "a", "left")}}
NameSeqs == {<<>>, <<"k">>, <<"n">>, <<"k", "n">>, <<"k", "k">>}
SmallOutputInputs ==
    {[schema |-> [Blank EXCEPT !.hasSelect = out = "select", !.select = names, !.aggregate = out = "aggregate", !.groupBy = names, !.measures = measures,
                               !.having = having, !.contract = output # {}, !.output = output, !.grain = grain, !.dimensions = dims, !.keepAll = out = "keep"]] :
        out \in {"select", "aggregate", "keep", "none"}, names \in NameSeqs, measures \in {<<"n">>, <<"m">>, <<"m", "m">>}, having \in {{}, {"m"}},
        output \in {{}, {"k"}, {"k", "n"}, {"z"}}, grain \in NameSeqs, dims \in {{}, {"k"}, {"z"}}}

\* Blocks with any of the options; every option also with an empty or an odd value.
OptionValues == [trigger |-> {"available_now", "interval:30 seconds", "interval:", "odd"}, checkpoint |-> {"auto", ""},
                 write_mode |-> {"append", "upsert", "odd"}, keys |-> {<<>>, <<"k">>, <<"">>}, schedule |-> {"EVERY 6 HOURS", "odd", ""},
                 comment |-> {"c", ""}, cluster_by |-> {<<>>, <<"k">>, <<"">>}, partition_by |-> {<<"k">>}, refresh |-> {"auto", "never", "odd"}]
Blocks(keys) ==
    FoldSet(LAMBDA key, blocks : {b @@ (key :> value) : b \in blocks, value \in OptionValues[key]}, {<<>>}, keys)
SmallBlockInputs ==
    {[block |-> b @@ ("type" :> type)] : type \in {"table", "streaming_table", "materialized_view"},
        b \in UNION {Blocks(keys) : keys \in (SUBSET {"trigger", "checkpoint", "write_mode", "keys"}) \union {{"schedule", "keys"}, {"refresh", "trigger"}}
                                              \union SUBSET {"schedule", "comment", "cluster_by", "partition_by", "refresh"}}}

Files == {"f", "g", "h"}
SmallFileInputs == {[graph |-> graph] : graph \in [Files -> SeqsUpTo(Files, 2)]}

AskDocument ==
    \/ Ask("ops", OpInputs)
    \/ Ask("layout", LayoutInputs)
    \/ Ask("layout", OutputInputs)
    \/ Ask("materialization", BlockInputs)
    \/ Ask("files", FileInputs)

------------------------------------------------------------------------------
(* Pipelines over up to three tables; columns range over null, 0 and 1. *)
FilterOf(column, operator, value) == [column |-> column, operator |-> operator, value |-> value]
ColumnOf(source, target, op, when) == [source |-> source, target |-> target, op |-> op, when |-> when]
RowOf(key, other, x, y) == [c \in {key, other} |-> IF c = key THEN x ELSE y]
KeyRows(key, other) == {RowOf(key, other, x, y) : x \in {-1, 0, 1}, y \in {-1, 1}}
TablesOver(rows) == SeqsUpTo(rows, 1) \union {<<x, x>> : x \in rows} \union {<<x, y>> : x \in rows, y \in rows}
Bare(columns) == [columns |-> columns, filters |-> <<>>, dropNulls |-> <<>>, groups |-> <<>>, fields |-> <<>>]
LeftTables ==
    {[Bare({"k", "a"}) EXCEPT !.filters = f, !.dropNulls = n, !.groups = g] :
        f \in {<<>>, <<FilterOf("a", "not_equals", 1)>>, <<FilterOf("k", "greater_than_equal", 1), FilterOf("a", "is_not_null", 0)>>},
        n \in {<<>>, <<"k">>}, g \in {<<>>, <<<<FilterOf("a", "equals", 1)>>, <<FilterOf("k", "is_null", 0)>>>>, <<<<>>, <<FilterOf("k", "equals", 0)>>>>}}
    \union {[Bare({"k", "a"}) EXCEPT !.fields = <<ColumnOf("k", "k", "", ""), ColumnOf("a", "a", "nvl", "")>>]}
MeasureOf(source, target, func) == [source |-> source, target |-> target, func |-> func]
AggregateOf(keys, measures, having) == [groupBy |-> keys, measures |-> measures, having |-> having]
PipelineOutputs == {"keep_all", "select", "aggregate"}
PipelineOf(tables, joins, output) ==
    [tables |-> tables, base |-> 1, joins |-> joins, output |-> output, where |-> <<>>, whereGroups |-> <<>>, added |-> <<ColumnOf("a", "x", "nvl", "")>>,
     select |-> <<ColumnOf("k", "k", "", "equals"), ColumnOf("a", "y", "lit", "")>>, aggregate |-> AggregateOf(<<"k">>, <<MeasureOf("*", "n", "count"), MeasureOf("x", "s", "sum")>>, <<>>)]
OneTable ==
    {[PipelineOf(<<t>>, <<>>, out) EXCEPT !.where = where, !.added = added,
                                        !.aggregate = AggregateOf(keys, <<MeasureOf("*", "n", "count"), MeasureOf("x", "s", func)>>, having)] :
        t \in LeftTables, out \in PipelineOutputs, where \in {<<>>, <<FilterOf("a", "equals", 1)>>},
        added \in {<<ColumnOf("a", "x", "nvl", "")>>, <<ColumnOf("a", "x", "nvl", ""), ColumnOf("k", "z", "lit", "")>>, <<ColumnOf("a", "x", "", ""), ColumnOf("x", "z", "", "")>>},
        keys \in {<<"k">>}, func \in {"sum", "count_distinct"}, having \in {<<>>, <<FilterOf("n", "greater_than_equal", 2)>>}}
JoinKey(type, from, to, left, right) == [type |-> type, from |-> from, to |-> to, onFrom |-> <<left>>, onTo |-> <<right>>]
TwoTables(key) ==
    {[PipelineOf(<<Bare({"k", "a"}), [Bare({key, "b"}) EXCEPT !.filters = f]>>, <<JoinKey(type, 1, 2, "k", key)>>, out) EXCEPT !.where = where, !.whereGroups = groups] :
        f \in {<<>>, <<FilterOf("b", "equals", 1)>>}, type \in K!JoinTypes, out \in PipelineOutputs \ {"keep_all"},
        where \in {<<>>, <<FilterOf("a", "equals", 1)>>}, groups \in {<<>>, <<<<FilterOf("k", "equals", 0)>>, <<FilterOf("a", "is_null", 0)>>>>}}
ThreeTables(key) ==
    {PipelineOf(<<Bare({"k", "a"}), Bare({key, "b"}), Bare({"q", "c"})>>, <<JoinKey(type, 1, 2, "k", key), JoinKey(next, from[1], 3, from[2], "q")>>, out) :
        type \in {"inner", "left", "full"}, next \in {"left", "right", "left_anti"}, from \in {<<1, "k">>, <<1, "a">>, <<2, "b">>}, out \in {"select", "aggregate"}}
LeftRows == SeqsUpTo(KeyRows("k", "a"), 1) \union {<<RowOf("k", "a", 0, 1), RowOf("k", "a", 0, 1)>>, <<RowOf("k", "a", 0, 1), RowOf("k", "a", -1, -1)>>}
RightRows(key) == TablesOver({RowOf(key, "b", x, 1) : x \in {-1, 0, 1}})
AloneTables == {<<>>, <<RowOf("q", "c", 0, 1)>>, <<RowOf("q", "c", 1, -1), RowOf("q", "c", -1, 1)>>}
\* Families of pipelines, with the tables that each is run on.
Family(schemas, data) == [schemas |-> schemas, data |-> data]
SmallPipelineInputs ==
    {Family(OneTable, {<<left>> : left \in TablesOver(KeyRows("k", "a"))})}
    \union {Family(TwoTables(key), {<<left, right>> : left \in LeftRows, right \in RightRows(key)}) : key \in {"k", "r"}}
    \union {Family(ThreeTables(key), {<<left, right, other>> : left \in LeftRows, right \in RightRows(key), other \in AloneTables}) : key \in {"k", "r"}}

AskPipeline ==
    /\ case = None
    /\ \E family \in PipelineInputs : \E s \in family.schemas : Ask("pipeline", {[schema |-> s, data |-> d] : d \in family.data})

Next ==
    \/ AskContract
    \/ AskDocument
    \/ AskPipeline
    \/ AskCapability
    \/ AskMcp
    \/ AskCandidate
    \/ AskAdaptive
    \/ AskEngine
    \/ AskTracing
    \/ AskQuality
    \/ Done

Spec == Init /\ [][Next]_case

------------------------------------------------------------------------------
(* A capability that the validator accepts cannot be called unguarded: its *)
(* schema leaves no argument unchecked, a write carries its idempotency    *)
(* key, an irreversible one is never autonomous, unknown preconditions     *)
(* block, and a recheck that passes saw the state that was decided on.     *)
(* Over MCP, what a caller is shown is what it can call or read, with its  *)
(* scopes and within the advertised bounds.                                *)
AcceptedCapabilityIsGuarded ==
    /\ About("config") => M!AcceptedConfigServes(case.in.config, case.in.transport, case.in.headers, case.in.claims, case.in.now)
    /\ About("query") => M!AdvertisedBoundsHold(case.in.ctx, case.in.args, case.in.limits)
    /\ About("tools") => M!ListedToolsAreServed(case.in.ctx, case.in.registry, case.in.configured,
                                                  {c.name : c \in case.in.registry} \union {"query"})
    /\ About("resource") => M!DiscoveryIsEnforced(case.in.ctx, case.in.uri, case.in.stored)
    /\ About("pages") => M!PagesListTheCatalog(case.in.catalogues, case.in.limit)
    /\ About("rows") => M!TruncationIsTold(case.in.result, case.in.limit)
    /\ About("dataset") => M!AliasesAgree(case.in.entries)
    /\ About("capability") => /\ V!AcceptedSchemaIsTotal(case.in) /\ V!WriteCallCarriesKey(case.in)
                              /\ V!IrreversibleIsNeverGuarded(case.in)
    /\ About("preconditions") => V!PreconditionsFailClosed(case.in) /\ V!RecheckPinsTheState(case.in)

(* No route publishes an unsafe metric or validates one that is not backed *)
(* up by requests and equal results; what an agent answered is coherent;   *)
(* a stored candidate schema holds no filter value, has one fingerprint    *)
(* however it is spelled, and covers the question it came from.            *)
CandidateVerdictIsSound ==
    /\ About("judgement") => K!J!NoRouteWaivesSafety(case.in) /\ K!J!ValidatedIsBackedUp(case.in)
    /\ About("proposal") => K!J!AgentAnswerIsCoherent(case.in)
    /\ About("chronology") => K!J!ChronologyFollowsChain(case.in)
    /\ About("evaluation") => K!J!EvaluationAddsUp(case.in)
    /\ About("drift") => K!J!DriftIsARate(case.in)
    /\ About("schema") => /\ K!J!NoValueIsStored(case.in) /\ K!J!FingerprintIgnoresValues(case.in)
                          /\ K!J!DefinitionCoversQuestion(case.in)
    /\ About("rollup") => K!J!RollupIsExact(case.in)

(* Advice rests on accepted evidence of one environment, touches only safe *)
(* and certified sources, and its measured effect is monotone.             *)
AdviceIsBackedUp ==
    /\ About("advice") => /\ A!AggregatesAreAccepted(case.in) /\ A!AdviceCanBeEvaluated(case.in)
                          /\ A!PhysicalAdviceIsSafe(case.in)
    /\ About("outcome") => A!SlowerNeverLooksBetter(case.in)

(* An engine is of one environment however it was detected or forced, its  *)
(* sandbox reads change no table, its data products are published.         *)
EngineIsOneEnvironment ==
    /\ About("setup") => /\ U!DetectorsAgree(case.in.config, case.in.access)
                         /\ \A sources \in [file : {"", "bob"}, spark : {"", "eve"}, sdk : {""}, notebook : {""}, os : {"", "bob"}] :
                               U!EngineIsOneEnvironment(case.in.config, case.in.access, case.in.force, case.in.signals,
                                                        U!get_clean_username(sources), case.in.schema)
    /\ About("sandbox") => U!SandboxKeepsItsTables(case.in.engine, case.in.store, case.in.missing, case.in.resolved)
    /\ About("route") => U!ProductsArePublished(case.in.pattern, case.in.schema, case.in.engine)

(* Tracing and alerting leave the work they observe alone: the business    *)
(* outcome survives failing exporters, a span carries only allowed         *)
(* attributes, a failing channel silences no other.                        *)
SideChannelsAreHarmless ==
    /\ About("export") => tx!ScopeKeepsBusinessOutcome(case.in.exporters, case.in.required, case.in.business)
    /\ About("attributes") => tx!AttributesAreAllowed(case.in.policy, case.in.first, case.in.later)
    /\ About("report") => K!EveryChannelIsTold(case.in.report, case.in.config, case.in.failing)

(* The checks extracted from a document confirm what its pipeline          *)
(* enforced, every reader of a report draws the same verdict, and volumes  *)
(* are compared with the last run that was stored.  The contract they      *)
(* belong to is compared soundly with its stored versions, and travels     *)
(* through ODCS without a silent loss.                                     *)
ChecksConfirmTheOutput ==
    /\ About("checks") => K!RowChecksHoldOnOutput(case.in.schema, case.in.rows)
    /\ About("report") => K!VerdictsAgree(case.in.report)
    /\ About("volumes") => K!VariationIsAgainstLastStored(case.in.runs)
    /\ About("versions") => /\ K!DiffSurvivesStorage(case.in.old, case.in.new)
                            /\ \A c \in Versions : c.product = Absent \/ K!NonBreakingComposes(case.in.old, case.in.new, c)
    /\ About("odcs") => K!OdcsRoundTrip(case.in.schema)
    /\ About("document") => K!ImportIsLossAware(case.in.doc)

(* What the loader accepts is not refused later: its operations apply, its *)
(* streams start, its views compile, its promises are produced; partials   *)
(* that include themselves are refused, and no others.  The view that a    *)
(* pipeline compiles to returns the rows that running its steps does.      *)
LoadedPipelineRuns ==
    /\ About("ops") => K!PS!LoadedOpsApply(case.in.ops)
    /\ About("layout") => /\ K!PS!LoadedStreamStarts(case.in.schema) /\ K!PS!LoadedViewCompiles(case.in.schema)
                          /\ K!PS!PromisesAreProduced(case.in.schema)
                          /\ K!PS!StreamIsTheBase(case.in.schema)
    /\ About("materialization") => K!PS!LoadedMaterializationRuns(case.in.block)
    /\ About("files") => \A root \in DOMAIN case.in.graph : K!PS!CyclesAreRefused(case.in.graph, root)
    /\ About("pipeline") => K!E!CompiledViewAgrees(case.in.schema, case.in.data)

(* Documented, and not so: checks derived from quality_checks hold on what *)
(* the pipeline writes.                                                    *)
EnforcedChecksPass == About("checks") => K!EnforcedChecksPass(case.in.schema, case.in.rows)

------------------------------------------------------------------------------
(* What the theorems assume of the inputs: what the code establishes before *)
(* it decides.                                                              *)

\* A cached environment was read from the same version of the file: the cache
\* is keyed by its path and time of modification.
SetupDomain(in) ==
    /\ in.config.cached # U!NoEnvironment =>
          in.config.cached.db = in.config.environments[in.config.cached.env].catalog
    /\ in.schema \in [layer : STRING, owner : STRING]

\* An asset is a table, a streaming table or a materialized view.
RouteDomain(in) == in.schema.materialization \in {"", "streaming_table", "materialized_view"}

\* A table is in a schema that exists.
StoreDomain(in) ==
    /\ in.resolved \in BOOLEAN
    /\ in.store \in [DOMAIN in.store -> [schema : BOOLEAN, table : STRING]]
    /\ {"", in.engine.suffix} \subseteq DOMAIN in.store
    /\ \A o \in DOMAIN in.store : in.store[o].table # "none" => in.store[o].schema

------------------------------------------------------------------------------
(* Numbers.                                                                 *)

\* The first place of a sequence with some property has that property.
LEMMA FirstPlace ==
    ASSUME NEW S, S \subseteq Nat, S # {}
    PROVE  (CHOOSE x \in S : \A y \in S : x =< y) \in S
  BY K!LeastNatural

------------------------------------------------------------------------------
(* Engines, for any configuration and any answer of the backend.            *)

\* The engine and the configuration manager agree on the environment.
LEMMA DetectorsAlwaysAgree ==
    ASSUME NEW config, NEW access
    PROVE  U!DetectorsAgree(config, access)
  <1> DEFINE usable == {i \in DOMAIN config.priority : U!Usable(config, config.priority[i], access)}
  <1>1. config.priority = <<>> \/ DOMAIN config.environments = {} => usable = {}
    BY DEF U!Usable
  <1>2. QED
    BY <1>1 DEF U!DetectorsAgree, U!_detect_environment, U!_auto_detect_environment, U!FirstUsable

\* A user always has a name.
LEMMA UserHasName ==
    ASSUME NEW sources
    PROVE  U!get_clean_username(sources) # ""
  <1> DEFINE asked == <<sources.file, sources.spark, sources.sdk, sources.notebook, sources.os>>
             answers == {i \in DOMAIN asked : asked[i] # ""}
  <1>1. answers \subseteq Nat
    <2>1. DOMAIN asked \subseteq Nat
      OBVIOUS
    <2> HIDE DEF asked
    <2>2. QED
      BY <2>1
  <1>2. ASSUME answers # {}
        PROVE  U!Min(answers) \in answers
    BY <1>1, <1>2, FirstPlace DEF U!Min
  <1>3. QED
    BY <1>2 DEF U!get_clean_username

\* However the environment was found or forced, the engine is of one.
LEMMA EngineHasOneEnvironment ==
    ASSUME NEW config, NEW access, NEW force, NEW signals, NEW user, NEW schema, user # "",
           config.cached # U!NoEnvironment => config.cached.db = config.environments[config.cached.env].catalog,
           schema \in [layer : STRING, owner : STRING]
    PROVE  U!EngineIsOneEnvironment(config, access, force, signals, user, schema)
  <1> DEFINE engine == U!__init__(config, access, force, signals, user)
             detected == U!_auto_detect_environment(config, access)
             ctx == IF force = "" THEN detected ELSE U!Chosen(config, force)
             target == U!get_target_schema(engine, schema)
  <1> SUFFICES ASSUME engine.built
               PROVE  /\ config.environments[engine.env].catalog = engine.db
                      /\ (force # "" => engine.env = force)
                      /\ target.owner = "" => U!is_running_as_job(signals) \/ config.environments[engine.env].production
                      /\ U!get_target_schema(engine, target) = target
    BY DEF U!EngineIsOneEnvironment
  <1>1. /\ detected # U!NoEnvironment
        /\ engine.env = ctx.env /\ engine.db = ctx.db
        /\ engine.suffix = IF config.environments[ctx.env].production \/ U!is_running_as_job(signals) THEN "" ELSE user
    BY DEF U!__init__, U!env_config
  <1>2. detected.db = config.environments[detected.env].catalog
    BY <1>1 DEF U!_auto_detect_environment, U!FirstUsable, U!Chosen
  <1>3. ctx.db = config.environments[ctx.env].catalog /\ (force # "" => ctx.env = force)
    BY <1>2 DEF U!Chosen
  <1> HIDE DEF engine
  <1>4. /\ target.owner = "" => engine.suffix = ""
        /\ engine.suffix # "" => target.owner = engine.suffix
    BY DEF U!get_target_schema
  <1>5. U!get_target_schema(engine, target) = target
    BY <1>4 DEF U!get_target_schema
  <1>6. QED
    BY <1>1, <1>3, <1>4, <1>5

\* Reads through the sandbox change no table.
LEMMA SandboxAlwaysKeepsTables ==
    ASSUME NEW in, StoreDomain(in)
    PROVE  U!SandboxKeepsItsTables(in.engine, in.store, in.missing, in.resolved)
  <1> DEFINE engine == in.engine
             store == in.store
             missing == in.missing
             resolved == in.resolved
             owners == DOMAIN store
  <1> SUFFICES U!SandboxKeepsItsTables(engine, store, missing, resolved)
    OBVIOUS
  <1>1. /\ resolved \in BOOLEAN /\ store \in [owners -> [schema : BOOLEAN, table : STRING]]
        /\ {"", engine.suffix} \subseteq owners
        /\ \A o \in owners : store[o].table # "none" => store[o].schema
    BY DEF StoreDomain
  <1> HIDE DEF engine, store, missing, resolved, owners
  <1> DEFINE own == engine.suffix
             after == U!resolve_source_table(engine, store, missing, resolved)
             made == [store EXCEPT ![own].schema = TRUE]
             copied == U!clone_table(made, own)
  <1> SUFFICES /\ after.store[""] = store[""]
               /\ \A o \in owners : store[o].table # "none" => after.store[o] = store[o]
               /\ after.ok /\ ~resolved /\ own # "" => after.store[own].table # "none"
    BY <1>1 DEF U!SandboxKeepsItsTables, owners
  <1>2. CASE own = "" \/ resolved
    <2>1. after.store = store
      BY <1>2 DEF U!resolve_source_table, U!resolve
    <2> HIDE DEF after
    <2>2. QED
      BY <1>2, <2>1
  <1>3. ASSUME own # "", ~resolved
        PROVE  /\ after.store[""] = store[""]
               /\ \A o \in owners : store[o].table # "none" => after.store[o] = store[o]
               /\ after.ok => after.store[own].table # "none"
    <2>1. after = IF store[own].schema /\ store[own].table # "none" THEN [ok |-> TRUE, store |-> store]
                  ELSE IF missing = "error" \/ store[""].table = "none" THEN [ok |-> FALSE, store |-> made]
                  ELSE [ok |-> TRUE, store |-> copied]
      <3>1. after = U!_do_resolve(store, own, missing)
        BY <1>3 DEF U!resolve_source_table, U!resolve
      <3>2. QED
        BY <3>1, Zenon DEF U!_do_resolve
    <2>2. /\ made \in [owners -> [schema : BOOLEAN, table : STRING]]
          /\ \A o \in owners : o # own => made[o] = store[o]
          /\ made[own].table = store[own].table
      BY <1>1
    <2>3. store[own].table # "none" => store[own].schema
      BY <1>1
    <2>4. /\ \A o \in owners : o # own => copied[o] = made[o]
          /\ made[own].table = "none" => copied[own].table = made[""].table
      BY <1>1, <2>2 DEF U!clone_table
    <2> HIDE DEF made, copied, after
    <2>5. CASE store[own].table # "none"
      <3>1. after = [ok |-> TRUE, store |-> store]
        BY <2>1, <2>3, <2>5, Zenon
      <3>2. QED
        BY <1>1, <2>5, <3>1
    <2>6. CASE store[own].table = "none" /\ (missing = "error" \/ store[""].table = "none")
      <3>1. after = [ok |-> FALSE, store |-> made]
        BY <2>1, <2>6, Zenon
      <3>2. after.store = made /\ ~after.ok
        BY <3>1
      <3>3. QED
        BY <1>1, <1>3, <2>2, <2>6, <3>2
    <2>7. CASE store[own].table = "none" /\ ~(missing = "error" \/ store[""].table = "none")
      <3>1. after = [ok |-> TRUE, store |-> copied]
        BY <2>1, <2>7, Zenon
      <3>2. after.store = copied
        BY <3>1
      <3>3. QED
        BY <1>1, <1>3, <2>2, <2>4, <2>7, <3>2
    <2>8. QED
      BY <2>5, <2>6, <2>7
  <1> HIDE DEF after
  <1>4. QED
    BY <1>2, <1>3

\* No pattern writes a data product, a stream or a view as a table.
LEMMA ProductsAreAlwaysPublished ==
    ASSUME NEW in, RouteDomain(in)
    PROVE  U!ProductsArePublished(in.pattern, in.schema, in.engine)
  <1> DEFINE pattern == in.pattern
             schema == in.schema
             engine == in.engine
  <1>1. schema.materialization \in {"", "streaming_table", "materialized_view"}
    BY DEF RouteDomain
  <1> SUFFICES U!ProductsArePublished(pattern, schema, engine)
    OBVIOUS
  <1> HIDE DEF pattern, schema, engine
  <1> USE DEF U!_is_materialized_view_schema, U!_is_streaming_schema
  <1>2. CASE pattern = "split"
    BY <1>1, <1>2 DEF U!ProductsArePublished, U!Route, U!run_process_and_split
  <1>3. CASE pattern = "union" /\ pattern # "split"
    BY <1>1, <1>3 DEF U!ProductsArePublished, U!Route, U!run_union_sources_to_table
  <1>4. CASE pattern # "union" /\ pattern # "split"
    BY <1>1, <1>4 DEF U!ProductsArePublished, U!Route, U!run_process_to_table
  <1>5. QED
    BY <1>2, <1>3, <1>4

------------------------------------------------------------------------------
(* Tracing, for any exporters and policy.                                   *)

\* The phases in which an SDK may raise are those of a span.
ExportDomain(in) ==
    /\ in.required \in BOOLEAN /\ in.business \in {"value", "error"}
    /\ \A i \in DOMAIN in.exporters : in.exporters[i].built \in BOOLEAN /\ in.exporters[i].fails \subseteq tx!Phases

\* Whatever fails, the scope keeps the outcome of the business code.
LEMMA ScopeAlwaysKeepsOutcome ==
    ASSUME NEW exporters, NEW required \in BOOLEAN, NEW business \in {"value", "error"},
           \A i \in DOMAIN exporters : exporters[i].built \in BOOLEAN /\ exporters[i].fails \subseteq tx!Phases
    PROVE  tx!ScopeKeepsBusinessOutcome(exporters, required, business)
  <1> DEFINE tracer == tx!create_tracer(exporters, required)
             begun == tx!start_span(tracer, required)
             scope == tx!configured_span_scope(tracer, required, business)
             told == \E i \in begun.open : "attribute" \in tracer[i].fails
             ended == \E i \in begun.open : tracer[i].fails \intersect {"status", "close", "context"} # {}
  <1> SUFFICES ASSUME \A i \in DOMAIN tracer : ~tracer[i].raises
               PROVE  /\ ~required => scope.ran /\ scope.outcome = business
                      /\ \A i \in DOMAIN tracer : scope.ran /\ tracer[i].sdk /\ tracer[i].fails \intersect {"open", "close"} = {} => i \in scope.opened \intersect scope.closed
                      /\ required /\ scope.outcome = "value" => \A i \in DOMAIN tracer : tracer[i].sdk /\ tracer[i].fails \subseteq {"exception"}
                      /\ business = "error" /\ scope.ran => scope.outcome = "error" \/ tx!set_attribute(tracer, scope.opened, required)
    BY DEF tx!ScopeKeepsBusinessOutcome
  <1>1. \A i \in DOMAIN tracer : tracer[i].sdk \in BOOLEAN /\ tracer[i].fails \subseteq tx!Phases /\ (required => tracer[i].sdk)
    BY DEF tx!create_tracer, tx!_best_effort_build
  <1> HIDE DEF tracer
  <1>2. begun.open = {i \in DOMAIN tracer : tracer[i].sdk /\ "open" \notin tracer[i].fails}
    BY <1>1 DEF tx!start_span, tx!SdkStart
  <1>3. begun.raises <=> required /\ \E i \in DOMAIN tracer : tracer[i].sdk /\ "open" \in tracer[i].fails
    BY <1>1 DEF tx!start_span, tx!SdkStart
  <1>4. ASSUME begun.raises /\ required
        PROVE  ~scope.ran /\ scope.outcome = "tracing"
    BY <1>4 DEF tx!configured_span_scope
  <1>5. ASSUME ~(begun.raises /\ required)
        PROVE  /\ scope.ran /\ scope.opened = begun.open
               /\ scope.closed = {i \in begun.open : "close" \notin tracer[i].fails}
               /\ required /\ told => scope.outcome = "tracing"
               /\ required /\ ~told /\ business = "value" /\ ended => scope.outcome = "tracing"
               /\ ~(required /\ told) /\ ~(business = "value" /\ required /\ ended) => scope.outcome = business
    BY <1>5 DEF tx!configured_span_scope, tx!Closed, tx!set_attribute, tx!EndRaises
  <1> HIDE DEF begun, scope
  <1>6. ~required => scope.ran /\ scope.outcome = business
    BY <1>5
  <1>7. ASSUME NEW i \in DOMAIN tracer, scope.ran, tracer[i].sdk, tracer[i].fails \intersect {"open", "close"} = {}
        PROVE  i \in scope.opened \intersect scope.closed
    BY <1>2, <1>4, <1>5, <1>7
  <1>8. ASSUME required, scope.outcome = "value", NEW i \in DOMAIN tracer
        PROVE  tracer[i].sdk /\ tracer[i].fails \subseteq {"exception"}
    <2>1. ~begun.raises /\ ~told /\ business = "value" /\ ~ended
      BY <1>4, <1>5, <1>8
    <2>2. tracer[i].sdk /\ i \in begun.open
      BY <1>1, <1>2, <1>3, <1>8, <2>1
    <2>3. /\ "open" \notin tracer[i].fails /\ "attribute" \notin tracer[i].fails
          /\ tracer[i].fails \intersect {"status", "close", "context"} = {}
      BY <1>2, <2>1, <2>2
    <2>4. QED
      BY <1>1, <2>2, <2>3 DEF tx!Phases
  <1>9. ASSUME business = "error", scope.ran
        PROVE  scope.outcome = "error" \/ tx!set_attribute(tracer, scope.opened, required)
    BY <1>4, <1>5, <1>9 DEF tx!set_attribute
  <1>10. QED
    BY <1>6, <1>7, <1>8, <1>9

\* The tracing module counts as this one does.
LEMMA SameCount == \A S : tx!Cardinality(S) = Cardinality(S)
  BY DEF tx!Cardinality, Cardinality

\* What spans and exporters are given and carry.
Attribute == [key : STRING, value : {"short", "long", "nan", "object"}]
Carried(policy) == UNION {[D -> {"short", "nan", "cut"}] : D \in SUBSET policy.keys}
Held(policy) == {a \in Carried(policy) : Cardinality(DOMAIN a) <= policy.max}
Policy(policy) == IsFiniteSet(policy.keys) /\ policy.max \in Nat
Accepts(policy, p, a, refused, budget) ==
    ~(a.value \in refused \/ ~tx!allows(policy, a.key) \/ budget + tx!Cardinality(DOMAIN p) >= policy.max)

\* An attribute that is put on a span is carried.
LEMMA PutIsCarried ==
    ASSUME NEW policy, Policy(policy), NEW p \in Carried(policy), NEW a \in Attribute, tx!allows(policy, a.key),
           a.value # "object"
    PROVE  /\ tx!Put(p, a.key, tx!truncate(a.value)) \in Carried(policy)
           /\ DOMAIN tx!Put(p, a.key, tx!truncate(a.value)) = DOMAIN p \union {a.key}
           /\ Cardinality(DOMAIN p \union {a.key}) <= Cardinality(DOMAIN p) + 1
           /\ Cardinality(DOMAIN p) \in Nat
  <1> DEFINE D == DOMAIN p
             q == tx!Put(p, a.key, tx!truncate(a.value))
  <1>1. D \subseteq policy.keys /\ p \in [D -> {"short", "nan", "cut"}] /\ a.key \in policy.keys
    BY DEF Carried, tx!allows
  <1>2. tx!truncate(a.value) \in {"short", "nan", "cut"}
    BY DEF tx!truncate, Attribute
  <1>3. q \in [D \union {a.key} -> {"short", "nan", "cut"}]
    BY <1>1, <1>2 DEF tx!Put
  <1>4. D \union {a.key} \in SUBSET policy.keys
    BY <1>1
  <1>5. q \in Carried(policy)
    BY <1>3, <1>4 DEF Carried
  <1>6. IsFiniteSet(D)
    BY <1>1, FS_Subset DEF Policy
  <1>7. /\ Cardinality(D) \in Nat
        /\ Cardinality(D \union {a.key}) <= Cardinality(D) + 1
    <2>1. Cardinality(D) \in Nat
      BY <1>6, FS_CardinalityType
    <2>2. Cardinality(D \union {a.key}) = IF a.key \in D THEN Cardinality(D) ELSE Cardinality(D) + 1
      BY <1>6, FS_AddElement
    <2>3. QED
      BY <2>1, <2>2
  <1>8. QED
    BY <1>3, <1>5, <1>7

\* No attribute is carried before the first.
LEMMA NothingIsHeld ==
    ASSUME NEW policy, Policy(policy)
    PROVE  tx!Nothing \in Held(policy) /\ DOMAIN tx!Nothing = {}
  <1>1. tx!Nothing \in [{} -> {"short", "nan", "cut"}] /\ DOMAIN tx!Nothing = {}
    BY DEF tx!Nothing
  <1>2. tx!Nothing \in Carried(policy)
    BY <1>1 DEF Carried
  <1>3. QED
    BY <1>1, <1>2, FS_EmptySet DEF Held, Policy


\* One attribute through the validation of the in-memory tracer.
LEMMA ValidatedOne ==
    ASSUME NEW policy, NEW a, NEW budget
    PROVE  tx!_validated_attributes(policy, <<a>>, budget)
             = IF Accepts(policy, tx!Nothing, a, {"nan", "object"}, budget) THEN tx!Put(tx!Nothing, a.key, tx!truncate(a.value)) ELSE tx!Nothing
  <1> DEFINE Body(p, i) == IF <<a>>[i].value \in {"nan", "object"} \/ ~tx!allows(policy, <<a>>[i].key) \/ budget + tx!Cardinality(DOMAIN p) >= policy.max
                           THEN p ELSE tx!Put(p, <<a>>[i].key, tx!truncate(<<a>>[i].value))
             step == CHOOSE f : f = [i \in 0..Len(<<a>>) |-> IF i = 0 THEN tx!Nothing ELSE Body(f[i - 1], i)]
             one == [i \in 0..1 |-> IF i = 0 THEN tx!Nothing ELSE Body(tx!Nothing, 1)]
  <1>1. tx!_validated_attributes(policy, <<a>>, budget) = step[Len(<<a>>)]
    BY DEF tx!_validated_attributes
  <1>2. Len(<<a>>) = 1 /\ <<a>>[1] = a
    OBVIOUS
  <1>3. Body(tx!Nothing, 1) = IF Accepts(policy, tx!Nothing, a, {"nan", "object"}, budget)
                              THEN tx!Put(tx!Nothing, a.key, tx!truncate(a.value)) ELSE tx!Nothing
    BY <1>2, Zenon DEF Accepts
  <1> HIDE DEF Body
  <1>4. one = [i \in 0..Len(<<a>>) |-> IF i = 0 THEN tx!Nothing ELSE Body(one[i - 1], i)]
    <2>1. \A i \in 0..1 : i # 0 => i = 1 /\ one[i - 1] = tx!Nothing
      OBVIOUS
    <2> HIDE DEF one
    <2>2. one = [i \in 0..1 |-> IF i = 0 THEN tx!Nothing ELSE Body(one[i - 1], i)]
      BY <2>1 DEF one
    <2>3. QED
      BY <1>2, <2>2
  <1>5. step = [i \in 0..Len(<<a>>) |-> IF i = 0 THEN tx!Nothing ELSE Body(step[i - 1], i)]
    BY <1>4
  <1> HIDE DEF step
  <1>6. step[0] = tx!Nothing /\ step[1] = Body(step[0], 1)
    BY <1>2, <1>5
  <1>7. QED
    BY <1>1, <1>2, <1>3, <1>6

\* What every step keeps, the whole run keeps.
LEMMA RunStaysIn ==
    ASSUME NEW n \in Nat, NEW S, NEW step, step[0] \in S, \A i \in 1..n : step[i - 1] \in S => step[i] \in S
    PROVE  \A i \in 0..n : step[i] \in S
  <1> DEFINE T == {m \in Nat : m <= n => step[m] \in S}
  <1>1. 0 \in T
    OBVIOUS
  <1>2. ASSUME NEW m \in Nat, m \in T
        PROVE  m + 1 \in T
    <2>1. m + 1 <= n => m + 1 \in 1..n /\ (m + 1) - 1 = m /\ m <= n
      OBVIOUS
    <2>2. m + 1 <= n => step[m] \in S
      BY <1>2, <2>1
    <2>3. m + 1 <= n => step[m + 1] \in S
      BY <2>1, <2>2
    <2>4. QED
      BY <2>3
  <1> HIDE DEF T
  <1>3. \A m \in Nat : m \in T
    BY <1>1, <1>2, K!Induction
  <1>4. QED
    BY <1>3 DEF T

\* One attribute through the filter of the exporters.
LEMMA SafeOne ==
    ASSUME NEW policy, NEW a
    PROVE  tx!_safe_attributes(policy, <<a>>)
             = IF a.value = "object" \/ ~tx!allows(policy, a.key) \/ tx!Cardinality(DOMAIN tx!Nothing) >= policy.max
               THEN tx!Nothing ELSE tx!Put(tx!Nothing, a.key, tx!truncate(a.value))
  <1> DEFINE Body(p, i) == IF <<a>>[i].value = "object" \/ ~tx!allows(policy, <<a>>[i].key) \/ tx!Cardinality(DOMAIN p) >= policy.max
                           THEN p ELSE tx!Put(p, <<a>>[i].key, tx!truncate(<<a>>[i].value))
             step == CHOOSE f : f = [i \in 0..Len(<<a>>) |-> IF i = 0 THEN tx!Nothing ELSE Body(f[i - 1], i)]
             one == [i \in 0..1 |-> IF i = 0 THEN tx!Nothing ELSE Body(tx!Nothing, 1)]
  <1>1. tx!_safe_attributes(policy, <<a>>) = step[Len(<<a>>)]
    BY DEF tx!_safe_attributes
  <1>2. Len(<<a>>) = 1 /\ <<a>>[1] = a
    OBVIOUS
  <1>3. Body(tx!Nothing, 1) = IF a.value = "object" \/ ~tx!allows(policy, a.key) \/ tx!Cardinality(DOMAIN tx!Nothing) >= policy.max
                              THEN tx!Nothing ELSE tx!Put(tx!Nothing, a.key, tx!truncate(a.value))
    BY <1>2, Zenon
  <1> HIDE DEF Body
  <1>4. one = [i \in 0..Len(<<a>>) |-> IF i = 0 THEN tx!Nothing ELSE Body(one[i - 1], i)]
    <2>1. \A i \in 0..1 : i # 0 => i = 1 /\ one[i - 1] = tx!Nothing
      OBVIOUS
    <2> HIDE DEF one
    <2>2. one = [i \in 0..1 |-> IF i = 0 THEN tx!Nothing ELSE Body(one[i - 1], i)]
      BY <2>1 DEF one
    <2>3. QED
      BY <1>2, <2>2
  <1>5. step = [i \in 0..Len(<<a>>) |-> IF i = 0 THEN tx!Nothing ELSE Body(step[i - 1], i)]
    BY <1>4
  <1> HIDE DEF step
  <1>6. step[0] = tx!Nothing /\ step[1] = Body(step[0], 1)
    BY <1>2, <1>5
  <1>7. QED
    BY <1>1, <1>2, <1>3, <1>6

\* The filter of the exporters, item by item.
LEMMA SafeRun ==
    ASSUME NEW policy, Policy(policy), NEW items \in Seq(Attribute)
    PROVE  \E f : /\ f[0] = tx!Nothing /\ tx!_safe_attributes(policy, items) = f[Len(items)]
                  /\ \A i \in 0..Len(items) : f[i] \in Carried(policy)
                  /\ \A i \in 1..Len(items) :
                        f[i] = IF items[i].value = "object" \/ ~tx!allows(policy, items[i].key) \/ Cardinality(DOMAIN f[i - 1]) >= policy.max
                               THEN f[i - 1] ELSE tx!Put(f[i - 1], items[i].key, tx!truncate(items[i].value))
  <1> DEFINE n == Len(items)
             Body(p, i) == IF items[i].value = "object" \/ ~tx!allows(policy, items[i].key) \/ tx!Cardinality(DOMAIN p) >= policy.max
                           THEN p ELSE tx!Put(p, items[i].key, tx!truncate(items[i].value))
             B == [i \in 1..n |-> [p \in Carried(policy) |-> Body(p, i)]]
             step == CHOOSE f : f = [i \in 0..n |-> IF i = 0 THEN tx!Nothing ELSE Body(f[i - 1], i)]
  <1>1. tx!_safe_attributes(policy, items) = step[n]
    BY DEF tx!_safe_attributes
  <1>2. ASSUME NEW p \in Carried(policy), NEW i \in 1..n
        PROVE  Body(p, i) \in Carried(policy)
    <2>1. items[i] \in Attribute
      OBVIOUS
    <2>2. tx!allows(policy, items[i].key) /\ items[i].value # "object"
          => tx!Put(p, items[i].key, tx!truncate(items[i].value)) \in Carried(policy)
      BY <2>1, PutIsCarried
    <2>3. QED
      BY <2>2, Zenon
  <1>3. \A p, i : Body(p, i) = IF items[i].value = "object" \/ ~tx!allows(policy, items[i].key) \/ Cardinality(DOMAIN p) >= policy.max
                               THEN p ELSE tx!Put(p, items[i].key, tx!truncate(items[i].value))
    BY SameCount, Zenon
  <1>4. n \in Nat /\ tx!Nothing \in Carried(policy)
    BY NothingIsHeld DEF Held
  <1> HIDE DEF Body, n
  <1>6. \A i \in 1..n : \A p \in Carried(policy) : B[i][p] = Body(p, i)
    OBVIOUS
  <1> HIDE DEF B
  <1>5. \A i \in 1..n : \A p \in Carried(policy) : B[i][p] \in Carried(policy)
    BY <1>2, <1>6
  <1>7. PICK f : K!Iterates(f, B, Carried(policy), tx!Nothing, n)
    <2>1. K!StepsKeep(B, Carried(policy), n)
      BY <1>5 DEF K!StepsKeep
    <2>2. QED
      BY <1>4, <2>1, K!Iteration
  <1>8. f = [i \in 0..n |-> IF i = 0 THEN tx!Nothing ELSE Body(f[i - 1], i)]
    <2>1. ASSUME NEW i \in 1..n
          PROVE  f[i] = Body(f[i - 1], i)
      <3>1. i - 1 \in 0..n
        BY <1>4
      <3>2. QED
        BY <1>6, <1>7, <3>1 DEF K!Iterates
    <2>2. \A i \in 0..n : i = 0 \/ i \in 1..n
      BY <1>4
    <2>3. QED
      BY <1>7, <2>1, <2>2 DEF K!Iterates
  <1>9. step = [i \in 0..n |-> IF i = 0 THEN tx!Nothing ELSE Body(step[i - 1], i)]
    BY <1>8
  <1> HIDE DEF step
  <1>10. step[0] = tx!Nothing /\ \A i \in 1..n : step[i] = Body(step[i - 1], i)
    BY <1>4, <1>9
  <1>11. \A i \in 0..n : step[i] \in Carried(policy)
    BY <1>2, <1>4, <1>10, RunStaysIn
  <1>12. QED
    BY <1>1, <1>3, <1>10, <1>11 DEF n

\* One attribute more on a span of the in-memory tracer.
LEMMA MemoryOne ==
    ASSUME NEW policy, Policy(policy), NEW p \in Held(policy), NEW a \in Attribute
    PROVE  /\ tx!MemorySet(policy, p, a)
                = IF a.value \in {"nan", "object"} \/ ~tx!allows(policy, a.key) \/ Cardinality(DOMAIN p) >= policy.max
                  THEN p ELSE tx!Put(p, a.key, tx!truncate(a.value))
           /\ tx!MemorySet(policy, p, a) \in Held(policy)
  <1> DEFINE size == Cardinality(DOMAIN p)
             no == a.value \in {"nan", "object"} \/ ~tx!allows(policy, a.key)
             v == tx!truncate(a.value)
             accepted == tx!_validated_attributes(policy, <<a>>, size)
  <1>1. tx!MemorySet(policy, p, a) = IF DOMAIN accepted = {} THEN p ELSE tx!Put(p, a.key, accepted[a.key])
    BY SameCount, Zenon DEF tx!MemorySet
  <1>2. p \in Carried(policy) /\ size <= policy.max /\ size \in Nat
    <2>1. DOMAIN p \subseteq policy.keys
      BY DEF Held, Carried
    <2>2. IsFiniteSet(DOMAIN p)
      BY <2>1, FS_Subset DEF Policy
    <2>3. QED
      BY <2>2, FS_CardinalityType DEF Held
  <1>3. Cardinality(DOMAIN tx!Nothing) = 0
    BY NothingIsHeld, FS_EmptySet
  <1>4. accepted = IF no \/ size + 0 >= policy.max THEN tx!Nothing ELSE tx!Put(tx!Nothing, a.key, v)
    <2>1. accepted = IF Accepts(policy, tx!Nothing, a, {"nan", "object"}, size) THEN tx!Put(tx!Nothing, a.key, v) ELSE tx!Nothing
      BY ValidatedOne
    <2>2. Accepts(policy, tx!Nothing, a, {"nan", "object"}, size) <=> ~(no \/ size + 0 >= policy.max)
      BY <1>3, SameCount, Zenon DEF Accepts
    <2> HIDE DEF accepted, no, v
    <2>3. QED
      BY <2>1, <2>2, Zenon
  <1>5. size + 0 = size
    BY <1>2
  <1>6. /\ DOMAIN tx!Put(tx!Nothing, a.key, v) = {a.key}
        /\ tx!Put(tx!Nothing, a.key, v)[a.key] = v
    BY NothingIsHeld DEF tx!Put
  <1>7. tx!MemorySet(policy, p, a) = IF no \/ size >= policy.max THEN p ELSE tx!Put(p, a.key, v)
    <2>1. CASE no \/ size >= policy.max
      BY <1>1, <1>4, <1>5, <2>1, NothingIsHeld
    <2>2. CASE ~(no \/ size >= policy.max)
      <3>1. accepted = tx!Put(tx!Nothing, a.key, v)
        BY <1>4, <1>5, <2>2
      <3> HIDE DEF accepted
      <3>2. QED
        BY <1>1, <1>6, <2>2, <3>1
    <2>3. QED
      BY <2>1, <2>2
  <1>8. ASSUME ~no, ~(size >= policy.max)
        PROVE  tx!Put(p, a.key, v) \in Held(policy)
    <2>1. /\ tx!Put(p, a.key, v) \in Carried(policy)
          /\ Cardinality(DOMAIN tx!Put(p, a.key, v)) <= size + 1
      BY <1>2, <1>8, PutIsCarried
    <2>2. Cardinality(DOMAIN tx!Put(p, a.key, v)) \in Nat
      <3>1. DOMAIN tx!Put(p, a.key, v) \subseteq policy.keys
        BY <2>1 DEF Carried
      <3>2. QED
        BY <3>1, FS_Subset, FS_CardinalityType DEF Policy
    <2>3. policy.max \in Nat
      BY DEF Policy
    <2>4. Cardinality(DOMAIN tx!Put(p, a.key, v)) <= policy.max
      BY <1>2, <1>8, <2>1, <2>2, <2>3
    <2>5. QED
      BY <2>1, <2>4 DEF Held
  <1>9. QED
    BY <1>7, <1>8, Zenon

\* One attribute more on a span of an exporter that has room for every key.
LEMMA SdkOne ==
    ASSUME NEW policy, Policy(policy), policy.max >= Cardinality(policy.keys), NEW p \in Carried(policy), NEW a \in Attribute
    PROVE  /\ tx!SdkSet(policy, p, a)
                = IF a.value = "object" \/ ~tx!allows(policy, a.key) THEN p ELSE tx!Put(p, a.key, tx!truncate(a.value))
           /\ tx!SdkSet(policy, p, a) \in Carried(policy)
  <1> DEFINE no == a.value = "object" \/ ~tx!allows(policy, a.key)
             v == tx!truncate(a.value)
             safe == tx!_safe_attributes(policy, <<a>>)
  <1>1. tx!SdkSet(policy, p, a) = IF DOMAIN safe = {} THEN p ELSE tx!Put(p, a.key, safe[a.key])
    BY DEF tx!SdkSet
  <1>2. safe = IF no \/ tx!Cardinality(DOMAIN tx!Nothing) >= policy.max THEN tx!Nothing ELSE tx!Put(tx!Nothing, a.key, v)
    BY SafeOne, Zenon
  <1>3. tx!Cardinality(DOMAIN tx!Nothing) = 0
    BY NothingIsHeld, FS_EmptySet, SameCount
  <1>4. ASSUME ~no
        PROVE  ~(tx!Cardinality(DOMAIN tx!Nothing) >= policy.max)
    <2>1. IsFiniteSet(policy.keys) /\ policy.max \in Nat /\ policy.keys # {}
      BY <1>4 DEF Policy, tx!allows
    <2>2. Cardinality(policy.keys) \in Nat /\ Cardinality(policy.keys) # 0
      BY <2>1, FS_CardinalityType, FS_EmptySet
    <2>3. QED
      BY <1>3, <2>1, <2>2
  <1>5. /\ DOMAIN tx!Put(tx!Nothing, a.key, v) = {a.key}
        /\ tx!Put(tx!Nothing, a.key, v)[a.key] = v
    BY NothingIsHeld DEF tx!Put
  <1>6. CASE no
    <2>1. DOMAIN safe = {}
      BY <1>2, <1>6, NothingIsHeld, Zenon
    <2>2. QED
      BY <1>1, <1>6, <2>1, Zenon
  <1>7. CASE ~no
    <2>1. safe = tx!Put(tx!Nothing, a.key, v)
      BY <1>2, <1>4, <1>7, Zenon
    <2>2. tx!Put(p, a.key, v) \in Carried(policy)
      BY <1>7, PutIsCarried
    <2> HIDE DEF safe
    <2>3. tx!SdkSet(policy, p, a) = tx!Put(p, a.key, v)
      BY <1>1, <1>5, <2>1
    <2>4. QED
      BY <1>7, <2>2, <2>3
  <1>8. QED
    BY <1>6, <1>7

\* The two kinds of span.
MemorySpan(policy, before, items) == tx!SpanAttributes(tx!MemorySet, policy, before, items)
SdkSpan(policy, before, items) == tx!SpanAttributes(tx!SdkSet, policy, before, items)

\* A span of the in-memory tracer, attribute by attribute.
LEMMA MemoryRun ==
    ASSUME NEW policy, Policy(policy), NEW before \in Held(policy), NEW items \in Seq(Attribute)
    PROVE  \E f : /\ f[0] = before /\ MemorySpan(policy, before, items) = f[Len(items)]
                  /\ \A i \in 0..Len(items) : f[i] \in Held(policy)
                  /\ \A i \in 1..Len(items) : f[i] = tx!MemorySet(policy, f[i - 1], items[i])
  <1> DEFINE n == Len(items)
             B == [i \in 1..n |-> [p \in Held(policy) |-> tx!MemorySet(policy, p, items[i])]]
             step == CHOOSE f : f = [i \in 0..n |-> IF i = 0 THEN before ELSE tx!MemorySet(policy, f[i - 1], items[i])]
  <1>1. MemorySpan(policy, before, items) = step[n]
    BY DEF tx!SpanAttributes, MemorySpan
  <1>2. ASSUME NEW i \in 1..n, NEW p \in Held(policy)
        PROVE  tx!MemorySet(policy, p, items[i]) \in Held(policy)
    BY MemoryOne
  <1>3. n \in Nat
    OBVIOUS
  <1> HIDE DEF n
  <1>4. \A i \in 1..n : \A p \in Held(policy) : B[i][p] = tx!MemorySet(policy, p, items[i])
    OBVIOUS
  <1> HIDE DEF B
  <1>5. PICK f : K!Iterates(f, B, Held(policy), before, n)
    <2>1. K!StepsKeep(B, Held(policy), n)
      BY <1>2, <1>4 DEF K!StepsKeep
    <2>2. QED
      BY <1>3, <2>1, K!Iteration
  <1>6. f = [i \in 0..n |-> IF i = 0 THEN before ELSE tx!MemorySet(policy, f[i - 1], items[i])]
    <2>1. ASSUME NEW i \in 1..n
          PROVE  f[i] = tx!MemorySet(policy, f[i - 1], items[i])
      <3>1. i - 1 \in 0..n
        BY <1>3
      <3>2. QED
        BY <1>4, <1>5, <3>1 DEF K!Iterates
    <2>2. \A i \in 0..n : i = 0 \/ i \in 1..n
      BY <1>3
    <2>3. QED
      BY <1>5, <2>1, <2>2 DEF K!Iterates
  <1>7. step = [i \in 0..n |-> IF i = 0 THEN before ELSE tx!MemorySet(policy, step[i - 1], items[i])]
    BY <1>6
  <1> HIDE DEF step
  <1>8. step[0] = before /\ \A i \in 1..n : step[i] = tx!MemorySet(policy, step[i - 1], items[i])
    BY <1>3, <1>7
  <1>9. \A i \in 0..n : step[i] \in Held(policy)
    BY <1>2, <1>3, <1>8, RunStaysIn
  <1>10. QED
    BY <1>1, <1>8, <1>9 DEF n

\* A span of an exporter, attribute by attribute.
LEMMA SdkRun ==
    ASSUME NEW policy, Policy(policy), policy.max >= Cardinality(policy.keys), NEW before \in Carried(policy),
           NEW items \in Seq(Attribute)
    PROVE  \E f : /\ f[0] = before /\ SdkSpan(policy, before, items) = f[Len(items)]
                  /\ \A i \in 0..Len(items) : f[i] \in Carried(policy)
                  /\ \A i \in 1..Len(items) : f[i] = tx!SdkSet(policy, f[i - 1], items[i])
  <1> DEFINE n == Len(items)
             B == [i \in 1..n |-> [p \in Carried(policy) |-> tx!SdkSet(policy, p, items[i])]]
             step == CHOOSE f : f = [i \in 0..n |-> IF i = 0 THEN before ELSE tx!SdkSet(policy, f[i - 1], items[i])]
  <1>1. SdkSpan(policy, before, items) = step[n]
    BY DEF tx!SpanAttributes, SdkSpan
  <1>2. ASSUME NEW i \in 1..n, NEW p \in Carried(policy)
        PROVE  tx!SdkSet(policy, p, items[i]) \in Carried(policy)
    BY SdkOne
  <1>3. n \in Nat
    OBVIOUS
  <1> HIDE DEF n
  <1>4. \A i \in 1..n : \A p \in Carried(policy) : B[i][p] = tx!SdkSet(policy, p, items[i])
    OBVIOUS
  <1> HIDE DEF B
  <1>5. PICK f : K!Iterates(f, B, Carried(policy), before, n)
    <2>1. K!StepsKeep(B, Carried(policy), n)
      BY <1>2, <1>4 DEF K!StepsKeep
    <2>2. QED
      BY <1>3, <2>1, K!Iteration
  <1>6. f = [i \in 0..n |-> IF i = 0 THEN before ELSE tx!SdkSet(policy, f[i - 1], items[i])]
    <2>1. ASSUME NEW i \in 1..n
          PROVE  f[i] = tx!SdkSet(policy, f[i - 1], items[i])
      <3>1. i - 1 \in 0..n
        BY <1>3
      <3>2. QED
        BY <1>4, <1>5, <3>1 DEF K!Iterates
    <2>2. \A i \in 0..n : i = 0 \/ i \in 1..n
      BY <1>3
    <2>3. QED
      BY <1>5, <2>1, <2>2 DEF K!Iterates
  <1>7. step = [i \in 0..n |-> IF i = 0 THEN before ELSE tx!SdkSet(policy, step[i - 1], items[i])]
    BY <1>6
  <1> HIDE DEF step
  <1>8. step[0] = before /\ \A i \in 1..n : step[i] = tx!SdkSet(policy, step[i - 1], items[i])
    BY <1>3, <1>7
  <1>9. \A i \in 0..n : step[i] \in Carried(policy)
    BY <1>2, <1>3, <1>8, RunStaysIn
  <1>10. QED
    BY <1>1, <1>8, <1>9 DEF n

\* While keys are fresh, there is room for every allowed one.
LEMMA RoomForFreshKey ==
    ASSUME NEW policy, Policy(policy), policy.max >= Cardinality(policy.keys), NEW p \in Carried(policy),
           NEW key \in policy.keys, key \notin DOMAIN p
    PROVE  ~(Cardinality(DOMAIN p) >= policy.max)
  <1>1. DOMAIN p \subseteq policy.keys \ {key}
    BY DEF Carried
  <1>2. /\ IsFiniteSet(policy.keys) /\ IsFiniteSet(policy.keys \ {key})
        /\ Cardinality(policy.keys \ {key}) = Cardinality(policy.keys) - 1
    BY FS_RemoveElement DEF Policy
  <1>3. /\ Cardinality(DOMAIN p) <= Cardinality(policy.keys \ {key})
        /\ Cardinality(DOMAIN p) \in Nat /\ Cardinality(policy.keys) \in Nat
    BY <1>1, <1>2, FS_Subset, FS_CardinalityType
  <1>4. policy.max \in Nat
    BY DEF Policy
  <1>5. QED
    BY <1>2, <1>3, <1>4

\* A run that adds every allowed attribute whose key is fresh.
Adds(policy, h, items) ==
    \A i \in 1..Len(items) :
        h[i - 1] \in Carried(policy) /\ items[i].key \notin DOMAIN h[i - 1] =>
            h[i] = IF items[i].value = "object" \/ ~tx!allows(policy, items[i].key) THEN h[i - 1]
                   ELSE tx!Put(h[i - 1], items[i].key, tx!truncate(items[i].value))
FreshKeys(items, taken) ==
    /\ \A i \in 1..Len(items) : items[i].key \notin taken
    /\ \A i, j \in 1..Len(items) : items[i].key = items[j].key => i = j

\* Two runs that add every allowed attribute of fresh keys end alike.
LEMMA RunsAgree ==
    ASSUME NEW policy, Policy(policy), NEW items \in Seq(Attribute), NEW taken, FreshKeys(items, taken), NEW f, NEW g,
           f[0] = g[0], f[0] \in Carried(policy), DOMAIN f[0] \subseteq taken, Adds(policy, f, items), Adds(policy, g, items)
    PROVE  /\ f[Len(items)] = g[Len(items)]
           /\ \A k \in DOMAIN f[Len(items)] : k \in taken \/ \E j \in 1..Len(items) : k = items[j].key
  <1> DEFINE n == Len(items)
             Seen(m) == taken \union {items[j].key : j \in 1..m}
             Alike(m) == f[m] = g[m] /\ f[m] \in Carried(policy) /\ DOMAIN f[m] \subseteq Seen(m)
             T == {m \in Nat : m <= n => Alike(m)}
  <1>1. n \in Nat
    OBVIOUS
  <1>2. Alike(0)
    OBVIOUS
  <1>3. ASSUME NEW m \in Nat, m + 1 <= n, Alike(m)
        PROVE  Alike(m + 1)
    <2> DEFINE a == items[m + 1]
    <2>1. m + 1 \in 1..n /\ (m + 1) - 1 = m
      BY <1>1, <1>3
    <2>2. a \in Attribute
      BY <2>1
    <2>3. a.key \notin Seen(m)
      <3>1. a.key \notin taken
        BY <2>1 DEF FreshKeys
      <3>2. ASSUME NEW j \in 1..m
            PROVE  items[j].key # a.key
        <4>1. j \in 1..n /\ j # m + 1
          BY <1>1, <1>3
        <4>2. QED
          BY <2>1, <4>1 DEF FreshKeys
      <3>3. QED
        BY <3>1, <3>2
    <2>4. Seen(m + 1) = Seen(m) \union {a.key}
      <3>1. 1..(m + 1) = (1..m) \union {m + 1}
        OBVIOUS
      <3>2. QED
        BY <3>1
    <2> HIDE DEF Seen, a
    <2>5. f[m] = g[m] /\ f[m] \in Carried(policy) /\ DOMAIN f[m] \subseteq Seen(m)
      BY <1>3
    <2>6. a.key \notin DOMAIN f[m]
      BY <2>3, <2>5
    <2> DEFINE next == IF a.value = "object" \/ ~tx!allows(policy, a.key) THEN f[m]
                       ELSE tx!Put(f[m], a.key, tx!truncate(a.value))
    <2>7. f[m + 1] = next
      <3>1. f[(m + 1) - 1] \in Carried(policy) /\ items[m + 1].key \notin DOMAIN f[(m + 1) - 1]
        BY <2>1, <2>5, <2>6 DEF a
      <3>2. QED
        BY <2>1, <3>1 DEF a, Adds
    <2>8. g[m + 1] = next
      <3>1. g[(m + 1) - 1] \in Carried(policy) /\ items[m + 1].key \notin DOMAIN g[(m + 1) - 1]
        BY <2>1, <2>5, <2>6 DEF a
      <3>2. QED
        BY <2>1, <2>5, <3>1 DEF a, Adds
    <2>9. next \in Carried(policy) /\ DOMAIN next \subseteq DOMAIN f[m] \union {a.key}
      <3>1. CASE a.value = "object" \/ ~tx!allows(policy, a.key)
        BY <2>5, <3>1
      <3>2. CASE ~(a.value = "object" \/ ~tx!allows(policy, a.key))
        <4>1. next = tx!Put(f[m], a.key, tx!truncate(a.value))
          BY <3>2, Zenon
        <4> HIDE DEF next
        <4>2. QED
          BY <2>2, <2>5, <3>2, <4>1, PutIsCarried
      <3>3. QED
        BY <3>1, <3>2
    <2> HIDE DEF next
    <2>10. QED
      BY <2>4, <2>5, <2>7, <2>8, <2>9
  <1> HIDE DEF Alike
  <1>4. \A m \in Nat : m \in T => m + 1 \in T
    <2>1. SUFFICES ASSUME NEW m \in Nat, m \in T
                   PROVE  m + 1 \in T
      OBVIOUS
    <2>2. m + 1 <= n => m <= n
      BY <1>1
    <2>3. m + 1 <= n => Alike(m)
      BY <2>1, <2>2
    <2>4. m + 1 <= n => Alike(m + 1)
      BY <1>3, <2>3
    <2>5. QED
      BY <2>4
  <1>5. 0 \in T
    BY <1>2
  <1>6. n \in T
    <2> HIDE DEF T, n
    <2>1. QED
      BY <1>1, <1>4, <1>5, K!Induction
  <1>7. Alike(n)
    BY <1>1, <1>6
  <1>8. QED
    BY <1>7 DEF Alike

AttributeDomain(in) == Policy(in.policy) /\ in.first \in Seq(Attribute) /\ in.later \in Seq(Attribute)

\* The runs of both kinds of span add every allowed attribute of a fresh key.
LEMMA MemoryAdds ==
    ASSUME NEW policy, Policy(policy), policy.max >= Cardinality(policy.keys), NEW items \in Seq(Attribute),
           \A i \in 1..Len(items) : items[i].value # "nan",
           NEW f, \A i \in 0..Len(items) : f[i] \in Held(policy),
           \A i \in 1..Len(items) : f[i] = tx!MemorySet(policy, f[i - 1], items[i])
    PROVE  Adds(policy, f, items)
  <1> SUFFICES ASSUME NEW i \in 1..Len(items), items[i].key \notin DOMAIN f[i - 1]
               PROVE  f[i] = IF items[i].value = "object" \/ ~tx!allows(policy, items[i].key) THEN f[i - 1]
                             ELSE tx!Put(f[i - 1], items[i].key, tx!truncate(items[i].value))
    BY DEF Adds
  <1> DEFINE a == items[i]
             p == f[i - 1]
  <1>1. i - 1 \in 0..Len(items) /\ a \in Attribute /\ a.value # "nan"
    OBVIOUS
  <1>2. p \in Held(policy) /\ p \in Carried(policy) /\ a.key \notin DOMAIN p /\ f[i] = tx!MemorySet(policy, p, a)
    BY <1>1 DEF Held
  <1> HIDE DEF a, p
  <1>3. f[i] = IF a.value \in {"nan", "object"} \/ ~tx!allows(policy, a.key) \/ Cardinality(DOMAIN p) >= policy.max
               THEN p ELSE tx!Put(p, a.key, tx!truncate(a.value))
    BY <1>1, <1>2, MemoryOne
  <1>4. tx!allows(policy, a.key) => ~(Cardinality(DOMAIN p) >= policy.max)
    BY <1>2, RoomForFreshKey DEF tx!allows
  <1>5. a.value \in {"nan", "object"} <=> a.value = "object"
    BY <1>1
  <1>6. QED
    BY <1>3, <1>4, <1>5, Zenon DEF a, p

\* So do the filter of the exporters, and then their spans.
LEMMA SafeAdds ==
    ASSUME NEW policy, Policy(policy), policy.max >= Cardinality(policy.keys), NEW items \in Seq(Attribute), NEW f,
           \A i \in 1..Len(items) :
              f[i] = IF items[i].value = "object" \/ ~tx!allows(policy, items[i].key) \/ Cardinality(DOMAIN f[i - 1]) >= policy.max
                     THEN f[i - 1] ELSE tx!Put(f[i - 1], items[i].key, tx!truncate(items[i].value))
    PROVE  Adds(policy, f, items)
  <1> SUFFICES ASSUME NEW i \in 1..Len(items), f[i - 1] \in Carried(policy), items[i].key \notin DOMAIN f[i - 1]
               PROVE  f[i] = IF items[i].value = "object" \/ ~tx!allows(policy, items[i].key) THEN f[i - 1]
                             ELSE tx!Put(f[i - 1], items[i].key, tx!truncate(items[i].value))
    BY DEF Adds
  <1>1. tx!allows(policy, items[i].key) => ~(Cardinality(DOMAIN f[i - 1]) >= policy.max)
    BY RoomForFreshKey DEF tx!allows
  <1>2. QED
    BY <1>1, Zenon

\* A span of an exporter adds every allowed attribute.
LEMMA SdkAdds ==
    ASSUME NEW policy, Policy(policy), policy.max >= Cardinality(policy.keys), NEW items \in Seq(Attribute), NEW f,
           \A i \in 1..Len(items) : f[i] = tx!SdkSet(policy, f[i - 1], items[i])
    PROVE  Adds(policy, f, items)
  BY SdkOne DEF Adds

\* The keys of a sequence and of one that follows it.
LEMMA FreshInTurn ==
    ASSUME NEW first \in Seq(Attribute), NEW later \in Seq(Attribute),
           \A i, j \in DOMAIN (first \o later) : (first \o later)[i].key = (first \o later)[j].key => i = j
    PROVE  /\ \A i, j \in 1..Len(first) : first[i].key = first[j].key => i = j
           /\ \A i, j \in 1..Len(later) : later[i].key = later[j].key => i = j
           /\ \A i \in 1..Len(first), j \in 1..Len(later) : first[i].key # later[j].key
  <1> DEFINE both == first \o later
             n == Len(first)
             m == Len(later)
  <1>1. n \in Nat /\ m \in Nat /\ DOMAIN both = 1..(n + m)
    OBVIOUS
  <1>2. \A i \in 1..n : both[i] = first[i]
    OBVIOUS
  <1>3. \A j \in 1..m : both[n + j] = later[j]
    OBVIOUS
  <1> HIDE DEF both, n, m
  <1>4. \A i, j \in DOMAIN both : both[i].key = both[j].key => i = j
    BY DEF both
  <1>5. ASSUME NEW i \in 1..n, NEW j \in 1..n, first[i].key = first[j].key
        PROVE  i = j
    <2>1. i \in DOMAIN both /\ j \in DOMAIN both
      BY <1>1
    <2>2. QED
      BY <1>2, <1>4, <1>5, <2>1
  <1>6. ASSUME NEW i \in 1..m, NEW j \in 1..m, later[i].key = later[j].key
        PROVE  i = j
    <2>1. n + i \in DOMAIN both /\ n + j \in DOMAIN both
      BY <1>1
    <2>2. n + i = n + j
      BY <1>3, <1>4, <1>6, <2>1
    <2>3. QED
      BY <1>1, <2>2
  <1>7. ASSUME NEW i \in 1..n, NEW j \in 1..m, first[i].key = later[j].key
        PROVE  FALSE
    <2>1. i \in DOMAIN both /\ n + j \in DOMAIN both /\ i # n + j
      BY <1>1
    <2>2. QED
      BY <1>2, <1>3, <1>4, <1>7, <2>1
  <1>8. QED
    BY <1>5, <1>6, <1>7 DEF n, m

\* Both kinds of span carry allowed, bounded attributes, and the same ones.
LEMMA AttributesAreAlwaysAllowed ==
    ASSUME NEW policy, Policy(policy), NEW first \in Seq(Attribute), NEW later \in Seq(Attribute)
    PROVE  tx!AttributesAreAllowed(policy, first, later)
  <1> DEFINE before == MemorySpan(policy, tx!Nothing, first)
             memory == MemorySpan(policy, before, later)
             begun == tx!_safe_attributes(policy, first)
             sdk == SdkSpan(policy, begun, later)
             ok(a) == DOMAIN a \subseteq policy.keys /\ Cardinality(DOMAIN a) <= policy.max /\ \A k \in DOMAIN a : a[k] \notin {"long", "object"}
             finite == \A i \in DOMAIN (first \o later) : (first \o later)[i].value # "nan"
             fresh == \A i, j \in DOMAIN (first \o later) : (first \o later)[i].key = (first \o later)[j].key => i = j
  <1>1. ASSUME NEW a \in Held(policy)
        PROVE  ok(a)
    <2>1. a \in Carried(policy) /\ Cardinality(DOMAIN a) <= policy.max
      BY DEF Held
    <2>2. QED
      BY <2>1 DEF Carried
  <1>2. PICK f : /\ f[0] = tx!Nothing /\ before = f[Len(first)]
                 /\ \A i \in 0..Len(first) : f[i] \in Held(policy)
                 /\ \A i \in 1..Len(first) : f[i] = tx!MemorySet(policy, f[i - 1], first[i])
    BY NothingIsHeld, MemoryRun
  <1>3. before \in Held(policy)
    BY <1>2
  <1> HIDE DEF before
  <1>4. PICK g : /\ g[0] = before /\ memory = g[Len(later)]
                 /\ \A i \in 0..Len(later) : g[i] \in Held(policy)
                 /\ \A i \in 1..Len(later) : g[i] = tx!MemorySet(policy, g[i - 1], later[i])
    BY <1>3, MemoryRun
  <1>5. memory \in Held(policy)
    BY <1>4
  <1> HIDE DEF memory
  <1>6. PICK h : /\ h[0] = tx!Nothing /\ begun = h[Len(first)]
                 /\ \A i \in 0..Len(first) : h[i] \in Carried(policy)
                 /\ \A i \in 1..Len(first) :
                       h[i] = IF first[i].value = "object" \/ ~tx!allows(policy, first[i].key) \/ Cardinality(DOMAIN h[i - 1]) >= policy.max
                              THEN h[i - 1] ELSE tx!Put(h[i - 1], first[i].key, tx!truncate(first[i].value))
    BY SafeRun
  <1>7. begun \in Carried(policy)
    BY <1>6
  <1> HIDE DEF begun
  <1>8. ASSUME policy.max >= Cardinality(policy.keys)
        PROVE  ok(sdk) /\ (finite /\ fresh => memory = sdk)
    <2>1. PICK s : /\ s[0] = begun /\ sdk = s[Len(later)]
                   /\ \A i \in 0..Len(later) : s[i] \in Carried(policy)
                   /\ \A i \in 1..Len(later) : s[i] = tx!SdkSet(policy, s[i - 1], later[i])
      BY <1>7, <1>8, SdkRun
    <2>2. sdk \in Carried(policy)
      BY <2>1
    <2> HIDE DEF sdk
    <2>3. ok(sdk)
      <3>1. /\ IsFiniteSet(policy.keys) /\ policy.max \in Nat /\ DOMAIN sdk \subseteq policy.keys
            /\ \A k \in DOMAIN sdk : sdk[k] \notin {"long", "object"}
        BY <2>2 DEF Carried, Policy
      <3>2. /\ Cardinality(DOMAIN sdk) <= Cardinality(policy.keys)
            /\ Cardinality(DOMAIN sdk) \in Nat /\ Cardinality(policy.keys) \in Nat
        BY <3>1, FS_Subset, FS_CardinalityType
      <3>3. QED
        BY <1>8, <3>1, <3>2
    <2>4. ASSUME finite, fresh
          PROVE  memory = sdk
      <3> DEFINE taken == {first[i].key : i \in 1..Len(first)}
      <3>1. FreshKeys(first, {}) /\ FreshKeys(later, taken)
        <4>1. /\ \A i, j \in 1..Len(first) : first[i].key = first[j].key => i = j
              /\ \A i, j \in 1..Len(later) : later[i].key = later[j].key => i = j
              /\ \A i \in 1..Len(first), j \in 1..Len(later) : first[i].key # later[j].key
          BY <2>4, FreshInTurn
        <4>2. QED
          BY <4>1 DEF FreshKeys
      <3>2. /\ \A i \in 1..Len(first) : first[i].value # "nan"
            /\ \A i \in 1..Len(later) : later[i].value # "nan"
        <4>1. \A i \in 1..Len(first) : i \in DOMAIN (first \o later) /\ (first \o later)[i] = first[i]
          OBVIOUS
        <4>2. \A i \in 1..Len(later) : Len(first) + i \in DOMAIN (first \o later) /\ (first \o later)[Len(first) + i] = later[i]
          OBVIOUS
        <4> DEFINE both == first \o later
        <4>3. \A i \in DOMAIN both : both[i].value # "nan"
          BY <2>4
        <4> HIDE DEF both
        <4>4. QED
          BY <4>1, <4>2, <4>3 DEF both
      <3>3. Adds(policy, f, first)
        BY <1>2, <1>8, <3>2, MemoryAdds
      <3>4. Adds(policy, h, first)
        BY <1>6, <1>8, SafeAdds
      <3>5. Adds(policy, g, later)
        BY <1>4, <1>8, <3>2, MemoryAdds
      <3>6. Adds(policy, s, later)
        BY <1>8, <2>1, SdkAdds
      <3>7. /\ f[Len(first)] = h[Len(first)]
            /\ \A k \in DOMAIN f[Len(first)] : k \in {} \/ \E j \in 1..Len(first) : k = first[j].key
        <4> DEFINE none == {}
        <4>1. f[0] = h[0] /\ f[0] \in Carried(policy) /\ DOMAIN f[0] \subseteq none
          BY <1>2, <1>6, NothingIsHeld DEF Held
        <4>2. FreshKeys(first, none)
          BY <3>1
        <4> HIDE DEF none
        <4>3. /\ f[Len(first)] = h[Len(first)]
              /\ \A k \in DOMAIN f[Len(first)] : k \in none \/ \E j \in 1..Len(first) : k = first[j].key
          BY <3>3, <3>4, <4>1, <4>2, RunsAgree
        <4>4. QED
          BY <4>3 DEF none
      <3>8. before = begun /\ DOMAIN before \subseteq taken
        BY <1>2, <1>6, <3>7
      <3>9. g[0] = s[0] /\ g[0] \in Carried(policy) /\ DOMAIN g[0] \subseteq taken
        BY <1>3, <1>4, <2>1, <3>8 DEF Held
      <3> HIDE DEF taken
      <3>10. g[Len(later)] = s[Len(later)]
        BY <3>1, <3>5, <3>6, <3>9, RunsAgree
      <3>11. QED
        BY <1>4, <2>1, <3>10
    <2>5. QED
      BY <2>3, <2>4
  <1>9. ok(memory)
    BY <1>1, <1>5
  <1> HIDE DEF ok
  <1>10. tx!Cardinality(policy.keys) = Cardinality(policy.keys) /\ \A a : tx!Cardinality(DOMAIN a) = Cardinality(DOMAIN a)
    BY SameCount
  <1>11. QED
    BY <1>8, <1>9, <1>10 DEF tx!AttributesAreAllowed, ok, memory, sdk, begun, before, MemorySpan, SdkSpan, tx!SpanAttributes

------------------------------------------------------------------------------
(* Capabilities, for any declaration, arguments and rules.                  *)

\* The levels of a schema: itself, then what is below each level.
LEMMA LevelsOfSchema ==
    ASSUME NEW schema, MaxSchemaDepth \in Nat
    PROVE  /\ V!SchemaLevels(schema)[0] = {schema}
           /\ \A d \in 1..MaxSchemaDepth :
                 V!SchemaLevels(schema)[d] = UNION {V!Children(s) : s \in V!SchemaLevels(schema)[d - 1]}
  <1> DEFINE n == MaxSchemaDepth
             Below(x) == UNION {V!Children(s) : s \in x}
             Run(f, m) == f = [d \in 0..m |-> IF d = 0 THEN {schema} ELSE Below(f[d - 1])]
             T == {m \in Nat : \E f : Run(f, m)}
             level == CHOOSE f : Run(f, n)
  <1>1. V!SchemaLevels(schema) = level
    BY DEF V!SchemaLevels
  <1> HIDE DEF Below
  <1>2. 0 \in T
    <2> DEFINE f == [d \in 0..0 |-> {schema}]
    <2>1. Run(f, 0)
      OBVIOUS
    <2> HIDE DEF f, Run
    <2>2. QED
      BY <2>1
  <1>3. ASSUME NEW m \in Nat, NEW f, Run(f, m)
        PROVE  \E g : Run(g, m + 1)
    <2> DEFINE x == Below(f[m])
               g == [d \in 0..(m + 1) |-> IF d <= m THEN f[d] ELSE x]
    <2>1. /\ 0 \in 0..m /\ 0 \in 0..(m + 1) /\ 0 <= m
          /\ \A d \in 1..m : d \in 0..m /\ d # 0 /\ d <= m /\ d \in 0..(m + 1) /\ d - 1 \in 0..(m + 1) /\ d - 1 <= m
          /\ m \in 0..(m + 1) /\ m <= m /\ m + 1 \in 0..(m + 1) /\ ~(m + 1 <= m) /\ (m + 1) - 1 = m
          /\ \A d \in 0..(m + 1) : d = 0 \/ d \in 1..m \/ d = m + 1
      OBVIOUS
    <2>2. f[0] = {schema} /\ \A d \in 1..m : f[d] = Below(f[d - 1])
      BY <1>3, <2>1
    <2> HIDE DEF x
    <2>3. /\ g[0] = f[0] /\ g[m] = f[m] /\ g[m + 1] = x
          /\ \A d \in 1..m : g[d] = f[d] /\ g[d - 1] = f[d - 1]
      BY <2>1
    <2>4. g = [d \in 0..(m + 1) |-> g[d]]
      OBVIOUS
    <2> HIDE DEF g
    <2>5. ASSUME NEW d \in 0..(m + 1)
          PROVE  g[d] = IF d = 0 THEN {schema} ELSE Below(g[d - 1])
      <3>1. CASE d = 0
        BY <2>2, <2>3, <3>1
      <3>2. CASE d \in 1..m
        BY <2>1, <2>2, <2>3, <3>2
      <3>3. CASE d = m + 1
        <4>1. d # 0 /\ d - 1 = m
          BY <3>3
        <4>2. QED
          BY <2>3, <3>3, <4>1 DEF x
      <3>4. QED
        BY <2>1, <3>1, <3>2, <3>3
    <2>6. Run(g, m + 1)
      BY <2>4, <2>5
    <2> HIDE DEF Run
    <2>7. QED
      BY <2>6
  <1> HIDE DEF Run
  <1>4. \A m \in Nat : m \in T => m + 1 \in T
    BY <1>3
  <1>5. n \in T
    <2> HIDE DEF T
    <2>1. QED
      BY <1>2, <1>4, K!Induction
  <1>6. Run(level, n)
    BY <1>5
  <1> HIDE DEF level
  <1>7. level = [d \in 0..n |-> IF d = 0 THEN {schema} ELSE Below(level[d - 1])]
    BY <1>6 DEF Run
  <1>8. level[0] = {schema} /\ \A d \in 1..n : level[d] = Below(level[d - 1])
    <2>1. 0 \in 0..n /\ \A d \in 1..n : d \in 0..n /\ d # 0
      OBVIOUS
    <2>2. level[0] = {schema}
      BY <1>7, <2>1, Zenon
    <2>3. ASSUME NEW d \in 1..n
          PROVE  level[d] = Below(level[d - 1])
      <3>1. d \in 0..n /\ d # 0
        BY <2>1
      <3>2. level[d] = IF d = 0 THEN {schema} ELSE Below(level[d - 1])
        BY <1>7, <3>1, Zenon
      <3>3. QED
        BY <3>1, <3>2, Zenon
    <2>4. QED
      BY <2>2, <2>3
  <1>9. QED
    BY <1>1, <1>8 DEF Below

\* The levels of a value: itself with its schema, then what is inside.
LEMMA LevelsOfValue ==
    ASSUME NEW schema, NEW value, MaxSchemaDepth \in Nat
    PROVE  /\ V!ValueLevels(schema, value)[0] = {<<schema, value>>}
           /\ \A d \in 1..MaxSchemaDepth :
                 V!ValueLevels(schema, value)[d] = UNION {V!Inside(v[1], v[2]) : v \in V!ValueLevels(schema, value)[d - 1]}
  <1> DEFINE n == MaxSchemaDepth
             Below(x) == UNION {V!Inside(v[1], v[2]) : v \in x}
             Run(f, m) == f = [d \in 0..m |-> IF d = 0 THEN {<<schema, value>>} ELSE Below(f[d - 1])]
             T == {m \in Nat : \E f : Run(f, m)}
             level == CHOOSE f : Run(f, n)
  <1>1. V!ValueLevels(schema, value) = level
    BY DEF V!ValueLevels
  <1> HIDE DEF Below
  <1>2. 0 \in T
    <2> DEFINE f == [d \in 0..0 |-> {<<schema, value>>}]
    <2>1. Run(f, 0)
      OBVIOUS
    <2> HIDE DEF f, Run
    <2>2. QED
      BY <2>1
  <1>3. ASSUME NEW m \in Nat, NEW f, Run(f, m)
        PROVE  \E g : Run(g, m + 1)
    <2> DEFINE x == Below(f[m])
               g == [d \in 0..(m + 1) |-> IF d <= m THEN f[d] ELSE x]
    <2>1. /\ 0 \in 0..m /\ 0 \in 0..(m + 1) /\ 0 <= m
          /\ \A d \in 1..m : d \in 0..m /\ d # 0 /\ d <= m /\ d \in 0..(m + 1) /\ d - 1 \in 0..(m + 1) /\ d - 1 <= m
          /\ m \in 0..(m + 1) /\ m <= m /\ m + 1 \in 0..(m + 1) /\ ~(m + 1 <= m) /\ (m + 1) - 1 = m
          /\ \A d \in 0..(m + 1) : d = 0 \/ d \in 1..m \/ d = m + 1
      OBVIOUS
    <2>2. f[0] = {<<schema, value>>} /\ \A d \in 1..m : f[d] = Below(f[d - 1])
      BY <1>3, <2>1
    <2> HIDE DEF x
    <2>3. /\ g[0] = f[0] /\ g[m] = f[m] /\ g[m + 1] = x
          /\ \A d \in 1..m : g[d] = f[d] /\ g[d - 1] = f[d - 1]
      BY <2>1
    <2>4. g = [d \in 0..(m + 1) |-> g[d]]
      OBVIOUS
    <2> HIDE DEF g
    <2>5. ASSUME NEW d \in 0..(m + 1)
          PROVE  g[d] = IF d = 0 THEN {<<schema, value>>} ELSE Below(g[d - 1])
      <3>1. CASE d = 0
        BY <2>2, <2>3, <3>1
      <3>2. CASE d \in 1..m
        BY <2>1, <2>2, <2>3, <3>2
      <3>3. CASE d = m + 1
        <4>1. d # 0 /\ d - 1 = m
          BY <3>3
        <4>2. QED
          BY <2>3, <3>3, <4>1 DEF x
      <3>4. QED
        BY <2>1, <3>1, <3>2, <3>3
    <2>6. Run(g, m + 1)
      BY <2>4, <2>5
    <2> HIDE DEF Run
    <2>7. QED
      BY <2>6
  <1> HIDE DEF Run
  <1>4. \A m \in Nat : m \in T => m + 1 \in T
    BY <1>3
  <1>5. n \in T
    <2> HIDE DEF T
    <2>1. QED
      BY <1>2, <1>4, K!Induction
  <1>6. Run(level, n)
    BY <1>5
  <1> HIDE DEF level
  <1>7. level = [d \in 0..n |-> IF d = 0 THEN {<<schema, value>>} ELSE Below(level[d - 1])]
    BY <1>6 DEF Run
  <1>8. level[0] = {<<schema, value>>} /\ \A d \in 1..n : level[d] = Below(level[d - 1])
    <2>1. 0 \in 0..n /\ \A d \in 1..n : d \in 0..n /\ d # 0
      OBVIOUS
    <2>2. level[0] = {<<schema, value>>}
      BY <1>7, <2>1, Zenon
    <2>3. ASSUME NEW d \in 1..n
          PROVE  level[d] = Below(level[d - 1])
      <3>1. d \in 0..n /\ d # 0
        BY <2>1
      <3>2. level[d] = IF d = 0 THEN {<<schema, value>>} ELSE Below(level[d - 1])
        BY <1>7, <3>1, Zenon
      <3>3. QED
        BY <3>1, <3>2, Zenon
    <2>4. QED
      BY <2>2, <2>3
  <1>9. QED
    BY <1>1, <1>8 DEF Below

\* Arguments are met with the schema of their own level.
LEMMA ValuesMeetTheirLevel ==
    ASSUME NEW schema, NEW value, MaxSchemaDepth \in Nat
    PROVE  \A d \in 0..MaxSchemaDepth : \A v \in V!ValueLevels(schema, value)[d] : v[1] \in V!SchemaLevels(schema)[d]
  <1> DEFINE n == MaxSchemaDepth
             L == V!SchemaLevels(schema)
             W == V!ValueLevels(schema, value)
             Met(d) == \A v \in W[d] : v[1] \in L[d]
             T == {m \in Nat : m <= n => Met(m)}
  <1>1. /\ L[0] = {schema} /\ \A d \in 1..n : L[d] = UNION {V!Children(s) : s \in L[d - 1]}
        /\ W[0] = {<<schema, value>>} /\ \A d \in 1..n : W[d] = UNION {V!Inside(v[1], v[2]) : v \in W[d - 1]}
    BY LevelsOfSchema, LevelsOfValue
  <1>2. ASSUME NEW s, NEW x
        PROVE  \A v \in V!Inside(s, x) : v[1] \in V!Children(s)
    <2>1. SUFFICES ASSUME NEW v \in V!Inside(s, x)
                   PROVE  v[1] \in V!Children(s)
      OBVIOUS
    <2>2. V!Readable(s, x)
      BY Zenon DEF V!Inside
    <2>3. V!Needs(x.t) \subseteq DOMAIN s
      BY <2>2 DEF V!Readable
    <2>4. CASE x.t = "object"
      <3>1. PICK p \in DOMAIN s["properties"] \intersect DOMAIN x.f : v = <<s["properties"][p], x.f[p]>>
        BY <2>2, <2>4 DEF V!Inside
      <3>2. "properties" \in DOMAIN s
        BY <2>3, <2>4 DEF V!Needs
      <3>3. v[1] = s["properties"][p]
        BY <3>1
      <3>4. QED
        BY <3>2, <3>3 DEF V!Children, V!Has
    <2>5. CASE x.t = "array" /\ V!Len(x.e) <= s["maxItems"]
      <3>1. PICK i \in DOMAIN x.e : v = <<s["items"], x.e[i]>>
        BY <2>2, <2>5 DEF V!Inside
      <3>2. "items" \in DOMAIN s
        BY <2>3, <2>5 DEF V!Needs
      <3>3. QED
        BY <3>1, <3>2 DEF V!Children, V!Has
    <2>6. QED
      BY <2>2, <2>4, <2>5, Zenon DEF V!Inside
  <1> HIDE DEF L, W, n
  <1>3. Met(0)
    BY <1>1
  <1>4. ASSUME NEW m \in Nat, m + 1 \in 1..n, Met(m)
        PROVE  Met(m + 1)
    <2>1. SUFFICES ASSUME NEW v \in W[m + 1]
                   PROVE  v[1] \in L[m + 1]
      OBVIOUS
    <2>2. (m + 1) - 1 = m
      OBVIOUS
    <2>3. PICK u \in W[m] : v \in V!Inside(u[1], u[2])
      BY <1>1, <1>4, <2>2
    <2>4. u[1] \in L[m]
      BY <1>4
    <2>5. v[1] \in V!Children(u[1])
      BY <1>2, <2>3
    <2>6. QED
      BY <1>1, <1>4, <2>2, <2>4, <2>5
  <1> HIDE DEF Met
  <1>5. n \in Nat
    BY DEF n
  <1>6. \A m \in Nat : m \in T => m + 1 \in T
    <2>1. SUFFICES ASSUME NEW m \in Nat, m \in T
                   PROVE  m + 1 \in T
      OBVIOUS
    <2>2. m + 1 <= n => m <= n /\ m + 1 \in 1..n
      BY <1>5
    <2>3. m + 1 <= n => Met(m)
      BY <2>1, <2>2
    <2>4. m + 1 <= n => Met(m + 1)
      BY <1>4, <2>2, <2>3
    <2>5. QED
      BY <2>4
  <1>7. 0 \in T
    BY <1>3
  <1>8. \A m \in Nat : m \in T
    <2> HIDE DEF T
    <2>1. QED
      BY <1>6, <1>7, K!Induction
  <1>9. \A d \in 0..n : Met(d)
    BY <1>5, <1>8
  <1>10. QED
    BY <1>9 DEF Met, n, L, W

\* A node that the validator accepts has every keyword that is read of it.
LEMMA ValidNodeIsReadable ==
    ASSUME NEW s, NEW d, V!ValidNode(s, d), NEW x
    PROVE  "KeyError" \notin V!ValueErrors(s, x)
  <1>1. /\ V!Has(s, "type")
        /\ s["type"] = "object" => V!ValidObject(s)
        /\ s["type"] = "array" => V!ValidArray(s)
        /\ s["type"] = "string" => V!ValidString(s)
        /\ s["type"] = "integer" => V!ValidNumber(s)
    BY DEF V!ValidNode
  <1>2. CASE x.t # s["type"]
    BY <1>1, <1>2 DEF V!ValueErrors
  <1>3. CASE x.t = s["type"]
    <2>1. V!Needs(x.t) \subseteq DOMAIN s
      <3>1. CASE x.t = "object"
        BY <1>1, <1>3, <3>1 DEF V!Needs, V!ValidObject, V!Has
      <3>2. CASE x.t = "array"
        BY <1>1, <1>3, <3>2 DEF V!Needs, V!ValidArray, V!Has
      <3>3. CASE x.t = "string"
        BY <1>1, <1>3, <3>3 DEF V!Needs, V!ValidString, V!Has
      <3>4. CASE x.t = "integer"
        BY <1>1, <1>3, <3>4 DEF V!Needs, V!ValidNumber, V!Has
      <3>5. CASE x.t \notin {"object", "array", "string", "integer"}
        BY <3>5 DEF V!Needs
      <3>6. QED
        BY <3>1, <3>2, <3>3, <3>4, <3>5
    <2>2. V!Readable(s, x)
      BY <1>1, <1>3, <2>1 DEF V!Readable
    <2> DEFINE rest ==
            IF x.t = "object"
            THEN {k \in {"unknown"} : ~(DOMAIN x.f \subseteq DOMAIN s["properties"])}
                 \union {k \in {"required"} : ~(s["required"] \subseteq DOMAIN x.f)}
            ELSE IF x.t = "array" THEN {k \in {"items"} : V!Len(x.e) > s["maxItems"]}
            ELSE IF x.t = "string" THEN {k \in {"length"} : x.len > s["maxLength"]}
            ELSE IF x.t = "integer" THEN {k \in {"range"} : x.i < s["minimum"] \/ x.i > s["maximum"]}
            ELSE {}
    <2>3. V!ValueErrors(s, x) = {k \in {"enum"} : V!Has(s, "enum") /\ x \notin s["enum"]} \union rest
      BY <1>1, <1>3, <2>2, Zenon DEF V!ValueErrors
    <2>4. "KeyError" \notin rest
      BY Zenon
    <2> HIDE DEF rest
    <2>5. QED
      BY <2>3, <2>4
  <1>4. QED
    BY <1>2, <1>3

\* Every value met has a schema that the validator accepted.
LEMMA AcceptedSchemaIsAlwaysTotal ==
    ASSUME NEW in, MaxSchemaDepth \in Nat
    PROVE  V!AcceptedSchemaIsTotal(in)
  <1> SUFFICES ASSUME V!ValidCapability(in.p)
               PROVE  "KeyError" \notin V!Errors(in.p.schema, in.args)
    BY DEF V!AcceptedSchemaIsTotal
  <1>1. \A d \in 0..MaxSchemaDepth : \A s \in V!SchemaLevels(in.p.schema)[d] : V!ValidNode(s, d)
    BY DEF V!ValidCapability, V!ValidSchema
  <1>2. \A d \in 0..MaxSchemaDepth : \A v \in V!ValueLevels(in.p.schema, in.args)[d] : "KeyError" \notin V!ValueErrors(v[1], v[2])
    BY <1>1, ValuesMeetTheirLevel, ValidNodeIsReadable
  <1>3. QED
    BY <1>2 DEF V!Errors

\* The arguments accepted for a valid write carry its idempotency key.
LEMMA WriteCallAlwaysCarriesKey ==
    ASSUME NEW in, MaxSchemaDepth \in Nat
    PROVE  V!WriteCallCarriesKey(in)
  <1> DEFINE schema == in.p.schema
             args == in.args
  <1> SUFFICES ASSUME V!ValidCapability(in.p), in.p.mode = "write", V!Errors(schema, args) = {}
               PROVE  in.p.key \in DOMAIN args.f
    BY DEF V!WriteCallCarriesKey
  <1>1. /\ 0 \in 0..MaxSchemaDepth
        /\ schema \in V!SchemaLevels(schema)[0] /\ <<schema, args>> \in V!ValueLevels(schema, args)[0]
    BY LevelsOfSchema, LevelsOfValue
  <1>2. V!ValidNode(schema, 0)
    BY <1>1 DEF V!ValidCapability, V!ValidSchema
  <1>3. V!ValueErrors(schema, args) = {}
    BY <1>1 DEF V!Errors
  <1>4. in.p.key \in schema["required"]
    BY DEF V!ValidCapability, V!ValidIdempotency
  <1>5. V!Has(schema, "type") /\ schema["type"] = "object" /\ V!ValidObject(schema)
    BY <1>2 DEF V!ValidNode
  <1>6. args.t = "object"
    BY <1>3, <1>5 DEF V!ValueErrors
  <1>7. V!Readable(schema, args)
    BY <1>5, <1>6 DEF V!Readable, V!Needs, V!ValidObject, V!Has
  <1>8. schema["required"] \subseteq DOMAIN args.f
    <2>1. V!ValueErrors(schema, args)
            = {k \in {"enum"} : V!Has(schema, "enum") /\ args \notin schema["enum"]}
              \union ({k \in {"unknown"} : ~(DOMAIN args.f \subseteq DOMAIN schema["properties"])}
                      \union {k \in {"required"} : ~(schema["required"] \subseteq DOMAIN args.f)})
      BY <1>5, <1>6, <1>7, Zenon DEF V!ValueErrors
    <2>2. "required" \notin {k \in {"required"} : ~(schema["required"] \subseteq DOMAIN args.f)}
      BY <1>3, <2>1
    <2>3. QED
      BY <2>2
  <1>9. QED
    BY <1>4, <1>8

\* A valid irreversible capability is supervised, or stricter.
LEMMA IrreversibleIsAlwaysApproved ==
    ASSUME NEW in
    PROVE  V!IrreversibleIsNeverGuarded(in)
  <1> SUFFICES ASSUME in.p.approval = "SUPERVISED", NEW configured \in V!AutonomyMode
               PROVE  V!resolve_autonomy_mode(in.p.approval, configured) # "GUARDED"
    BY DEF V!IrreversibleIsNeverGuarded, V!ValidCapability, V!ValidApproval
  <1>1. V!Rank("SUPERVISED") = 1 /\ V!Rank("GUARDED") = 0
    BY DEF V!Rank
  <1>2. QED
    BY <1>1 DEF V!resolve_autonomy_mode, V!AutonomyMode

\* What rules are asked about: a state that can be read, by its hash, or not.
PreconditionDomain(in) ==
    /\ in.rules \in Seq(V!RuleBehaviour)
    /\ \A state \in {in.before, in.after} : state \in [readable : BOOLEAN, hash : STRING \ {"unavailable"}]

\* The decision is the fail-closed reading of the rules.
LEMMA PreconditionsAlwaysFailClosed ==
    ASSUME NEW in, PreconditionDomain(in)
    PROVE  V!PreconditionsFailClosed(in)
  <1> DEFINE n == DOMAIN in.rules
             outcome(i) == IF in.before.readable THEN V!evaluate_rule(in.rules[i]) ELSE "UNKNOWN"
             outcomes == {outcome(i) : i \in n}
             d == V!evaluate(in.rules, in.before).decision
             said == {in.rules[i] : i \in n}
  <1>1. d = "raised" \/ d = V!aggregate(outcomes)
    BY DEF V!evaluate
  <1>2. in.before.readable \in BOOLEAN
    BY DEF PreconditionDomain
  <1>3. V!aggregate(outcomes) = "ALLOW" => "DENY" \notin outcomes /\ "UNKNOWN" \notin outcomes
    BY DEF V!aggregate
  <1>4. "DENY" \in outcomes => V!aggregate(outcomes) = "DENY"
    BY DEF V!aggregate
  <1>5. \A i \in n : outcome(i) \in {"ALLOW", "DENY", "UNKNOWN"}
    BY DEF V!evaluate_rule
  <1>6. ASSUME NEW i \in n, outcome(i) = "ALLOW"
        PROVE  in.before.readable /\ in.rules[i] = "ALLOW"
    BY <1>2, <1>6 DEF V!evaluate_rule
  <1>7. ASSUME NEW i \in n, in.before.readable, in.rules[i] = "DENY"
        PROVE  outcome(i) = "DENY"
    BY <1>7 DEF V!evaluate_rule
  <1> HIDE DEF outcome, d
  <1>8. ASSUME d = "ALLOW"
        PROVE  said \subseteq {"ALLOW"} /\ (said # {} => in.before.readable)
    BY <1>1, <1>3, <1>5, <1>6, <1>8
  <1>9. ASSUME d # "raised", in.before.readable, "DENY" \in said
        PROVE  d = "DENY"
    BY <1>1, <1>4, <1>7, <1>9
  <1>10. QED
    BY <1>8, <1>9 DEF V!PreconditionsFailClosed, d

\* A recheck that passes saw the state that the decision was made on.
LEMMA RecheckAlwaysPinsTheState ==
    ASSUME NEW in, PreconditionDomain(in)
    PROVE  V!RecheckPinsTheState(in)
  <1> DEFINE first == V!evaluate(in.rules, in.before)
             again == V!evaluate(in.rules, in.after)
             hashes(state) == [i \in DOMAIN in.rules |-> IF state.readable THEN state.hash ELSE "unavailable"]
  <1> SUFFICES ASSUME in.rules # <<>>, first.decision = "ALLOW", again.decision = "ALLOW", first.hashes = again.hashes
               PROVE  in.after = in.before
    BY DEF V!RecheckPinsTheState, V!assert_unchanged
  <1>1. first.hashes = hashes(in.before) /\ again.hashes = hashes(in.after)
    BY DEF V!evaluate
  <1>2. in.before.readable
    <2>1. V!PreconditionsFailClosed(in)
      BY PreconditionsAlwaysFailClosed
    <2>2. 1 \in DOMAIN in.rules
      BY DEF PreconditionDomain
    <2>3. QED
      BY <2>1, <2>2 DEF V!PreconditionsFailClosed
  <1> HIDE DEF first, again
  <1>3. 1 \in DOMAIN in.rules
    BY DEF PreconditionDomain
  <1>4. hashes(in.before)[1] = in.before.hash
    BY <1>2, <1>3
  <1>5. hashes(in.after)[1] = in.before.hash
    BY <1>1, <1>4
  <1>6. /\ in.before \in [readable : BOOLEAN, hash : STRING \ {"unavailable"}]
        /\ in.after \in [readable : BOOLEAN, hash : STRING \ {"unavailable"}]
    BY DEF PreconditionDomain
  <1>7. in.after.readable /\ in.after.hash = in.before.hash
    BY <1>3, <1>5, <1>6
  <1>8. QED
    BY <1>2, <1>6, <1>7

------------------------------------------------------------------------------
(* The MCP surface, for any configuration, token, argument, registry and    *)
(* catalogue.                                                               *)

\* Lists of scopes are lists.
ConfigDomain(in) ==
    in.config.stdio # M!Absent => in.config.stdio.scopes \in Seq(STRING)

\* A configuration that the loader accepts serves, over either transport.
LEMMA AcceptedConfigAlwaysServes ==
    ASSUME NEW config, NEW transport, NEW headers, NEW claims, NEW now,
           config.stdio # M!Absent => config.stdio.scopes \in Seq(STRING)
    PROVE  M!AcceptedConfigServes(config, transport, headers, claims, now)
  <1> DEFINE ctx == M!context_provider(config, headers, claims, now)
             built == IF transport = "stdio" THEN M!create_stdio_context_provider(config.stdio)
                      ELSE M!create_http_context_provider(config.http)
             good == /\ M!ValidContext(ctx)
                     /\ M!Override \notin ctx.scopes
                     /\ transport = "stdio" => ctx.scopes \subseteq M!MCP_SCOPES
                     /\ transport = "http" => now < claims.expires /\ M!Range(config.http.required_scopes) \subseteq ctx.scopes
  <1> SUFFICES ASSUME M!load_mcp_config(config, transport)
               PROVE  built /\ (ctx # M!Absent => good)
    BY Zenon DEF M!AcceptedConfigServes
  <1>1. "" \notin M!MCP_SCOPES /\ "padded" \notin M!MCP_SCOPES /\ M!Override \notin M!MCP_SCOPES
    BY DEF M!MCP_SCOPES, M!Override
  <1>2. config.transport = transport
    BY DEF M!load_mcp_config
  <1>3. CASE transport = "stdio"
    <2> DEFINE stdio == config.stdio
               scopes == M!Range(stdio.scopes)
    <2>1. /\ M!_text(stdio.subject) /\ M!_text(stdio.consumer_class)
          /\ stdio.scopes # <<>> /\ scopes \subseteq M!MCP_SCOPES
          /\ stdio.scopes \in Seq(STRING)
      BY <1>3 DEF M!load_mcp_config, M!_parse_stdio, M!_scopes, M!_closed
    <2>2. scopes # {}
      <3> DEFINE list == stdio.scopes
      <3>1. list \in Seq(STRING) /\ list # <<>>
        BY <2>1
      <3> HIDE DEF list
      <3>2. 1 \in DOMAIN list
        BY <3>1
      <3>3. list[1] \in M!Range(list)
        BY <3>2 DEF M!Range
      <3>4. QED
        BY <3>3 DEF list
    <2>3. built
      BY <1>1, <1>3, <2>1, <2>2 DEF M!create_stdio_context_provider, M!_validated_scopes
    <2>4. ctx = [subject |-> stdio.subject, consumer_class |-> stdio.consumer_class, scopes |-> scopes]
      BY <1>2, <1>3 DEF M!context_provider
    <2>5. ctx.subject = stdio.subject /\ ctx.consumer_class = stdio.consumer_class /\ ctx.scopes = scopes
      BY <2>4
    <2> HIDE DEF ctx, scopes, stdio
    <2>6. good
      BY <1>1, <1>3, <2>1, <2>5 DEF M!ValidContext, M!_text
    <2>7. QED
      BY <2>3, <2>6
  <1>4. CASE transport # "stdio"
    <2> DEFINE http == config.http
               required == M!Range(http.required_scopes)
    <2>1. /\ M!_text(http.audience) /\ M!_text(http.issuer) /\ M!_text(http.resource)
          /\ required \subseteq M!MCP_SCOPES
      BY <1>4 DEF M!load_mcp_config, M!_parse_http, M!_scopes
    <2>2. built
      BY <1>1, <1>4, <2>1 DEF M!create_http_context_provider, M!_validated_scopes
    <2>3. ASSUME ctx # M!Absent
          PROVE  /\ M!Authenticated(http, headers, claims, now)
                 /\ ctx = [subject |-> claims.subject, consumer_class |-> claims.consumer_class, scopes |-> claims.scopes]
      BY <1>2, <1>4, <2>3, Zenon DEF M!context_provider
    <2>4. ASSUME ctx # M!Absent
          PROVE  ctx.subject = claims.subject /\ ctx.consumer_class = claims.consumer_class /\ ctx.scopes = claims.scopes
      BY <2>3, <2>4
    <2> HIDE DEF ctx
    <2>5. ASSUME ctx # M!Absent
          PROVE  good
      <3>1. /\ M!_text(claims.subject) /\ M!_text(claims.consumer_class) /\ claims.expires > now
            /\ M!_validated_scopes(claims.scopes, required, FALSE)
        BY <2>3, <2>5 DEF M!Authenticated
      <3>2. /\ "" \notin claims.scopes /\ M!Override \notin claims.scopes /\ required \subseteq claims.scopes
        BY <3>1 DEF M!_validated_scopes
      <3>3. M!ValidContext(ctx)
        BY <2>4, <2>5, <3>1, <3>2 DEF M!ValidContext, M!_text
      <3>4. now < claims.expires
        BY <3>1
      <3>5. QED
        BY <1>4, <2>4, <2>5, <3>2, <3>3, <3>4
    <2>6. QED
      BY <2>2, <2>5
  <1>5. QED
    BY <1>3, <1>4

\* The MCP module counts as this one does.
LEMMA SameMcpCount == \A S : M!Cardinality(S) = Cardinality(S)
  BY DEF M!Cardinality, Cardinality

\* The first refusal is one of the verdicts, unless all are favourable.
LEMMA FirstRefusalIsOne ==
    ASSUME NEW verdicts, DOMAIN verdicts \subseteq Nat
    PROVE  /\ M!FirstRefusal(verdicts) = "ok" => \A i \in DOMAIN verdicts : verdicts[i] = "ok"
           /\ M!FirstRefusal(verdicts) # "ok" => \E i \in DOMAIN verdicts : verdicts[i] = M!FirstRefusal(verdicts)
  <1> DEFINE faults == {i \in DOMAIN verdicts : verdicts[i] # "ok"}
  <1>1. faults # {} => M!Min(faults) \in faults
    <2>1. faults \subseteq Nat
      OBVIOUS
    <2> HIDE DEF faults
    <2>2. QED
      BY <2>1, FirstPlace DEF M!Min
  <1>2. M!FirstRefusal(verdicts) = IF faults = {} THEN "ok" ELSE verdicts[M!Min(faults)]
    BY DEF M!FirstRefusal
  <1>3. QED
    BY <1>1, <1>2

\* Four verdicts.
LEMMA FirstOfFour ==
    ASSUME NEW a, NEW b, NEW c, NEW d
    PROVE  /\ M!FirstRefusal(<<a, b, c, d>>) = "ok" => a = "ok" /\ b = "ok" /\ c = "ok" /\ d = "ok"
           /\ M!FirstRefusal(<<a, b, c, d>>) \in {"ok", a, b, c, d}
  <1> DEFINE v == <<a, b, c, d>>
  <1>1. DOMAIN v = 1..4 /\ v[1] = a /\ v[2] = b /\ v[3] = c /\ v[4] = d
    OBVIOUS
  <1>2. \A i \in 1..4 : i = 1 \/ i = 2 \/ i = 3 \/ i = 4
    OBVIOUS
  <1> HIDE DEF v
  <1>3. /\ M!FirstRefusal(v) = "ok" => \A i \in 1..4 : v[i] = "ok"
        /\ M!FirstRefusal(v) # "ok" => \E i \in 1..4 : v[i] = M!FirstRefusal(v)
    BY <1>1, FirstRefusalIsOne
  <1>4. 1 \in 1..4 /\ 2 \in 1..4 /\ 3 \in 1..4 /\ 4 \in 1..4
    OBVIOUS
  <1>5. QED
    BY <1>1, <1>2, <1>3, <1>4 DEF v

\* The limits of a service are under the ceilings, arguments are lists.
QueryFilter == [operator : STRING, given : BOOLEAN, list : BOOLEAN, lengths : Seq(Nat)]
QueryDomain(in) ==
    /\ DOMAIN in.limits = {"page", "rows", "filters", "length"} /\ M!ValidLimits(in.limits)
    /\ in.args.limit \in Nat /\ in.args.metrics \in Seq(STRING) /\ in.args.group_by \in Seq(STRING)
    /\ in.args.filters \in Seq(QueryFilter)

\* What a list holds.
LEMMA RangeOfList ==
    ASSUME NEW S, NEW list \in Seq(S)
    PROVE  \A x \in M!Range(list) : x \in S
  BY DEF M!Range

\* A request that follows the advertised schema is not refused for a limit,
\* and what is served is within the limits of the service.
LEMMA AdvertisedBoundsAlwaysHold ==
    ASSUME NEW in, QueryDomain(in), Hard.filters \in Nat, Hard.length \in Nat, Hard.rows \in Nat
    PROVE  M!AdvertisedBoundsHold(in.ctx, in.args, in.limits)
  <1> DEFINE args == in.args
             limits == in.limits
             asked == M!Range(args.filters)
             bound == IF M!LimitOf(args) \in 1..limits.rows THEN "ok" ELSE "limit_exceeded"
             parsed == M!_parse_arguments(args, limits)
             scoped == IF "query:execute" \in in.ctx.scopes THEN "ok" ELSE "scope_denied"
             checked == M!_validate_query(args, limits)
             answer == M!call(in.ctx, args, limits)
  <1>1. answer = M!FirstRefusal(<<parsed, scoped, bound, checked>>)
    BY Zenon DEF M!call
  <1>2. /\ answer = "ok" => bound = "ok" /\ checked = "ok"
        /\ answer \in {"ok", parsed, scoped, bound, checked}
    BY <1>1, FirstOfFour
  <1>3. \A f \in asked : f.given \in BOOLEAN /\ f.list \in BOOLEAN /\ f.lengths \in Seq(Nat)
    <2>1. \A f \in asked : f \in QueryFilter
      BY RangeOfList DEF QueryDomain
    <2>2. QED
      BY <2>1 DEF QueryFilter
  <1>4. /\ limits.filters \in Nat /\ limits.filters <= Hard.filters
        /\ limits.length \in Nat /\ limits.length <= Hard.length
        /\ limits.rows \in Nat /\ limits.rows <= Hard.rows
    BY DEF QueryDomain, M!ValidLimits
  <1>5. ASSUME M!build_input_schema(limits, args), args.limit # 0, \A f \in asked : f.operator = "in" => f.list
        PROVE  answer # "limit_exceeded"
    <2>1. bound = "ok"
      <3>1. args.limit \in Nat /\ args.limit <= limits.rows /\ M!LimitOf(args) = args.limit
        BY <1>5 DEF M!build_input_schema, QueryDomain, M!LimitOf
      <3>2. M!LimitOf(args) \in 1..limits.rows
        BY <1>4, <1>5, <3>1
      <3>3. QED
        BY <3>2
    <2>2. \A f \in asked : f.given => /\ \A n \in M!Range(f.lengths) : n <= limits.length
                                      /\ Len(f.lengths) <= limits.filters
      BY <1>5 DEF M!build_input_schema
    <2>3. Len(args.metrics) <= limits.filters /\ Len(args.group_by) <= limits.filters /\ Len(args.filters) <= limits.filters
      BY <1>5 DEF M!build_input_schema
    <2>4. ASSUME NEW f \in asked
          PROVE  M!OneFilter(f) # "limit_exceeded"
      <3>1. CASE ~f.given
        BY <3>1 DEF M!OneFilter
      <3>2. CASE f.given
        <4>1. \A n \in M!Range(f.lengths) : M!_filter_scalar(n)
          <5>1. \A n \in M!Range(f.lengths) : n \in Nat /\ n <= limits.length
            BY <1>3, <2>2, <3>2 DEF M!Range
          <5>2. QED
            BY <1>4, <5>1 DEF M!_filter_scalar
        <4>2. Len(f.lengths) \in Nat /\ Len(f.lengths) <= limits.filters
          BY <1>3, <2>2, <3>2
        <4>3. ~(Len(f.lengths) > Hard.filters)
          BY <1>4, <4>2
        <4>4. f.operator = "in" => f.list
          BY <1>5
        <4>5. QED
          BY <3>2, <4>1, <4>3, <4>4, Zenon DEF M!OneFilter
      <3>3. QED
        BY <3>1, <3>2
    <2>5. M!_filters(args.filters, limits) # "limit_exceeded"
      <3> DEFINE verdicts == [i \in DOMAIN args.filters |-> M!OneFilter(args.filters[i])]
      <3>1. DOMAIN verdicts = DOMAIN args.filters /\ DOMAIN args.filters \subseteq Nat
        BY DEF QueryDomain
      <3>2. \A i \in DOMAIN verdicts : verdicts[i] # "limit_exceeded"
        BY <2>4 DEF M!Range
      <3>3. Len(args.filters) \in Nat
        BY DEF QueryDomain
      <3>4. ~(Len(args.filters) > limits.filters)
        BY <1>4, <2>3, <3>3
      <3>5. M!_filters(args.filters, limits) = M!FirstRefusal(verdicts)
        BY <3>4, Zenon DEF M!_filters
      <3> HIDE DEF verdicts
      <3>6. M!FirstRefusal(verdicts) = "ok" \/ \E i \in DOMAIN verdicts : verdicts[i] = M!FirstRefusal(verdicts)
        BY <3>1, FirstRefusalIsOne
      <3>7. QED
        BY <3>2, <3>5, <3>6
    <2>6. M!_name_list(args.metrics, limits) # "limit_exceeded" /\ M!_name_list(args.group_by, limits) # "limit_exceeded"
      <3>1. Len(args.metrics) \in Nat /\ Len(args.group_by) \in Nat
        BY DEF QueryDomain
      <3>2. ~(Len(args.metrics) > limits.filters) /\ ~(Len(args.group_by) > limits.filters)
        BY <1>4, <2>3, <3>1
      <3>3. QED
        BY <3>2, Zenon DEF M!_name_list
    <2> HIDE DEF bound
    <2>7. parsed # "limit_exceeded"
      <3>1. parsed = M!FirstRefusal(<<M!_name_list(args.metrics, limits), M!_name_list(args.group_by, limits),
                                      M!_filters(args.filters, limits), bound>>)
        BY Zenon DEF M!_parse_arguments, bound
      <3>2. QED
        BY <2>1, <2>5, <2>6, <3>1, FirstOfFour
    <2>8. checked # "limit_exceeded"
      <3>1. Len(args.filters) \in Nat
        BY DEF QueryDomain
      <3>2. ~(Len(args.filters) > limits.filters)
        BY <1>4, <2>3, <3>1
      <3>3. ~\E f \in asked : f.given /\ ~M!_validate_filter_value(f, limits)
        BY <2>2 DEF M!_validate_filter_value
      <3>4. QED
        BY <3>2, <3>3 DEF M!_validate_query
    <2>9. scoped # "limit_exceeded"
      OBVIOUS
    <2> HIDE DEF answer, parsed, scoped, checked
    <2>10. QED
      BY <1>2, <2>1, <2>7, <2>8, <2>9
  <1>6. ASSUME answer = "ok"
        PROVE  /\ M!LimitOf(args) <= limits.rows
               /\ \A f \in asked : f.given => \A n \in M!Range(f.lengths) : n <= limits.length
    <2>1. M!LimitOf(args) \in 1..limits.rows
      BY <1>2, <1>6
    <2>2. ~\E f \in asked : f.given /\ ~M!_validate_filter_value(f, limits)
      BY <1>2, <1>6 DEF M!_validate_query
    <2>3. M!LimitOf(args) <= limits.rows
      BY <1>4, <2>1
    <2>4. QED
      BY <2>2, <2>3 DEF M!_validate_filter_value
  <1> HIDE DEF answer
  <1>7. QED
    BY <1>5, <1>6 DEF M!AdvertisedBoundsHold, answer

\* Capabilities have distinct ids; an id has a dot, so that neither it nor the
\* tool name made from it is that of the query tool.
ToolDomain(in) ==
    /\ IsFiniteSet(in.registry)
    /\ \A c \in in.registry : c # M!Absent /\ c.id # "query" /\ c.name # "query"
    /\ \A c, d \in in.registry : c.id = d.id => c = d

\* What is listed is what is served.
LEMMA ListedToolsAreAlwaysServed ==
    ASSUME NEW ctx, NEW registry, NEW configured, IsFiniteSet(registry),
           \A c \in registry : c # M!Absent /\ c.id # "query" /\ c.name # "query",
           \A c, d \in registry : c.id = d.id => c = d
    PROVE  M!ListedToolsAreServed(ctx, registry, configured, {c.name : c \in registry} \union {"query"})
  <1> DEFINE names == {c.name : c \in registry} \union {"query"}
             seen == M!Visible(ctx, registry, configured)
             Of(n) == {c \in seen : c.name = n}
             served(n) == M!call_tool(ctx, n, registry, configured)
             listed == M!list_tools(ctx, registry, configured)
             mine == IF "query:execute" \in ctx.scopes THEN {"query"} ELSE {}
  <1>1. seen = {c \in registry : ~c.broken /\ M!_effective_mode(c, configured) # "none" /\ M!_has_required_scopes(ctx, c)}
    BY DEF M!Visible, M!_is_visible
  <1>2. seen \subseteq registry /\ IsFiniteSet(seen)
    BY <1>1, FS_Subset
  <1> HIDE DEF seen
  <1>3. ASSUME NEW n
        PROVE  /\ M!_visible_definition(ctx, n, registry, configured) = M!Absent <=> M!Cardinality(Of(n)) # 1
               /\ M!Cardinality(Of(n)) = 1 => M!_visible_definition(ctx, n, registry, configured) \in Of(n)
    <2> DEFINE matches == {c \in registry : /\ c.name = n /\ ~c.broken
                                            /\ M!_effective_mode(c, configured) # "none" /\ M!_has_required_scopes(ctx, c)}
    <2>1. Of(n) = matches
      BY <1>1
    <2>a. M!_visible_definition(ctx, n, registry, configured) = IF M!Cardinality(matches) = 1 THEN CHOOSE c \in matches : TRUE ELSE M!Absent
      BY Zenon DEF M!_visible_definition
    <2>2. M!_visible_definition(ctx, n, registry, configured) = IF M!Cardinality(Of(n)) = 1 THEN CHOOSE c \in Of(n) : TRUE ELSE M!Absent
      <3> HIDE DEF matches, Of
      <3>1. QED
        BY <2>1, <2>a
    <2>3. M!Cardinality(Of(n)) = 1 => Of(n) # {}
      BY SameMcpCount, FS_EmptySet
    <2>4. \A c \in Of(n) : c # M!Absent
      BY <1>2
    <2> HIDE DEF matches, Of
    <2>5. Of(n) # {} => (CHOOSE c \in Of(n) : TRUE) \in Of(n)
      OBVIOUS
    <2>6. QED
      BY <2>2, <2>3, <2>4, <2>5
  <1>4. ASSUME NEW n, n # "query"
        PROVE  /\ served(n) = M!Absent <=> M!Cardinality(Of(n)) # 1
               /\ M!Cardinality(Of(n)) = 1 => \E c \in Of(n) : served(n) = [tool |-> c.id, mode |-> M!_effective_mode(c, configured)]
    <2> DEFINE d == M!_visible_definition(ctx, n, registry, configured)
    <2>1. served(n) = IF d = M!Absent THEN M!Absent ELSE [tool |-> d.id, mode |-> M!_effective_mode(d, configured)]
      BY <1>4, Zenon DEF M!call_tool
    <2>2. [tool |-> d.id, mode |-> M!_effective_mode(d, configured)] # M!Absent
      <3>1. "absent" \in DOMAIN M!Absent /\ "absent" \notin DOMAIN [tool |-> d.id, mode |-> M!_effective_mode(d, configured)]
        BY DEF M!Absent
      <3>2. QED
        BY <3>1
    <2>3. (d = M!Absent <=> M!Cardinality(Of(n)) # 1) /\ (M!Cardinality(Of(n)) = 1 => d \in Of(n))
      BY <1>3
    <2> HIDE DEF served, d, Of
    <2>4. QED
      BY <2>1, <2>2, <2>3
  <1>5. served("query") # M!Absent <=> "query:execute" \in ctx.scopes
    <2>1. served("query") = IF "query:execute" \in ctx.scopes THEN [tool |-> "query"] ELSE M!Absent
      BY Zenon DEF M!call_tool
    <2>2. [tool |-> "query"] # M!Absent
      <3>1. "absent" \in DOMAIN M!Absent /\ "absent" \notin DOMAIN [tool |-> "query"]
        BY DEF M!Absent
      <3>2. QED
        BY <3>1
    <2> HIDE DEF served
    <2>3. QED
      BY <2>1, <2>2
  <1>6. ASSUME listed # M!Absent
        PROVE  listed.names = {n \in names : served(n) # M!Absent}
    <2>1. \A c, d \in seen : c.name = d.name => c = d
      BY <1>6 DEF M!list_tools, seen
    <2>2. listed.names = {c.name : c \in seen} \union mine
      BY <1>6 DEF M!list_tools, seen
    <2>3. ASSUME NEW c \in seen
          PROVE  c.name \in names /\ c.name # "query" /\ served(c.name) # M!Absent
      <3>1. Of(c.name) = {c}
        BY <2>1
      <3>2. M!Cardinality(Of(c.name)) = 1
        BY <3>1, SameMcpCount, FS_Singleton
      <3>3. c.name \in names /\ c.name # "query"
        BY <1>2
      <3> HIDE DEF served, Of
      <3>4. QED
        BY <1>4, <3>2, <3>3
    <2>4. ASSUME NEW n \in names, served(n) # M!Absent
          PROVE  n \in {c.name : c \in seen} \union mine
      <3>1. CASE n = "query"
        BY <1>5, <2>4, <3>1
      <3>2. CASE n # "query"
        <4>1. M!Cardinality(Of(n)) = 1
          BY <1>4, <2>4, <3>2
        <4>2. Of(n) # {}
          BY <4>1, SameMcpCount, FS_EmptySet
        <4>3. QED
          BY <4>2
      <3>3. QED
        BY <3>1, <3>2
    <2>5. \A n \in mine : n \in names /\ served(n) # M!Absent
      BY <1>5
    <2> HIDE DEF names, served, mine, listed
    <2>6. QED
      BY <2>2, <2>3, <2>4, <2>5
  <1>7. ASSUME NEW c \in registry, NEW n \in names, served(n) # M!Absent, served(n).tool = c.id
        PROVE  c.scopes \subseteq ctx.scopes /\ served(n).mode # "GUARDED"
    <2>1. n # "query"
      <3>1. n = "query" => served(n).tool = "query"
        BY <1>7 DEF M!call_tool
      <3>2. QED
        BY <1>7, <3>1
    <2>2. PICK d \in Of(n) : served(n) = [tool |-> d.id, mode |-> M!_effective_mode(d, configured)]
      BY <1>4, <1>7, <2>1
    <2>3. served(n).tool = d.id /\ served(n).mode = M!_effective_mode(d, configured)
      BY <2>2
    <2>4. d = c /\ c \in seen
      BY <1>2, <1>7, <2>3
    <2>5. c.scopes \subseteq ctx.scopes
      BY <1>1, <2>4 DEF M!_has_required_scopes
    <2>6. M!_effective_mode(d, configured) # "GUARDED"
      BY DEF M!_effective_mode
    <2>7. QED
      BY <2>3, <2>5, <2>6
  <1> HIDE DEF served, listed
  <1>8. QED
    BY <1>6, <1>7 DEF M!ListedToolsAreServed, served, listed

\* A resource is one of those that have a template.
ResourceDomain(in) == in.uri.resource \in DOMAIN M!RESOURCE_TEMPLATES

\* The resources shown are the readable ones.
LEMMA DiscoveryIsAlwaysEnforced ==
    ASSUME NEW in, ResourceDomain(in)
    PROVE  M!DiscoveryIsEnforced(in.ctx, in.uri, in.stored)
  <1> DEFINE r == in.uri.resource
  <1>1. DOMAIN M!RESOURCE_TEMPLATES = {"catalog", "model", "contract", "certification", "lineage"}
    BY DEF M!RESOURCE_TEMPLATES
  <1>2. r \in DOMAIN M!RESOURCE_TEMPLATES /\ M!ReadScope(r) = M!RESOURCE_TEMPLATES[r]
    <2>1. CASE r \in {"catalog", "model"}
      BY <1>1, <2>1 DEF M!ReadScope, M!RESOURCE_TEMPLATES
    <2>2. CASE r \in {"contract", "certification"}
      BY <1>1, <2>2 DEF M!ReadScope, M!RESOURCE_TEMPLATES
    <2>3. CASE r = "lineage"
      BY <1>1, <2>3 DEF M!ReadScope, M!RESOURCE_TEMPLATES
    <2>4. QED
      BY <1>1, <2>1, <2>2, <2>3 DEF ResourceDomain
  <1>3. r \in M!_visible(in.ctx) <=> M!require_scope(in.ctx, M!ReadScope(r))
    BY <1>2 DEF M!_visible, M!require_scope
  <1>4. ASSUME ~in.uri.malformed, ~in.uri.query
        PROVE  M!_read(in.ctx, in.uri, in.stored) # "scope_denied" <=> M!require_scope(in.ctx, M!ReadScope(r))
    BY <1>4 DEF M!_read
  <1>5. QED
    BY <1>3, <1>4 DEF M!DiscoveryIsEnforced

\* A catalogue of models and their tables is finite.
DatasetDomain(in) == IsFiniteSet(in.entries)

\* Both names of a dataset lead to one certification, or one to none.
LEMMA AliasesAlwaysAgree ==
    ASSUME NEW entries, IsFiniteSet(entries)
    PROVE  M!AliasesAgree(entries)
  <1> DEFINE Tables(x) == {e.table : e \in {e \in entries : e.table # "" /\ x \in {e.key, e.table}}}
             found(x) == M!_resolve_dataset(x, entries)
  <1>1. ASSUME NEW x
        PROVE  IsFiniteSet(Tables(x))
    <2> DEFINE named == {e \in entries : e.table # "" /\ x \in {e.key, e.table}}
               tableOf == [e \in named |-> e.table]
    <2>1. IsFiniteSet(named)
      BY FS_Subset
    <2>2. tableOf \in Surjection(named, Tables(x))
      BY Zenon DEF Surjection
    <2>3. QED
      BY <2>1, <2>2, FS_Surjection
  <1>2. ASSUME NEW x
        PROVE  found(x) = IF M!Cardinality(Tables(x)) = 1 THEN CHOOSE t \in Tables(x) : TRUE ELSE ""
    BY DEF M!_resolve_dataset
  <1>3. ASSUME NEW x, found(x) # ""
        PROVE  Tables(x) = {found(x)}
    <2> HIDE DEF Tables, found
    <2>1. M!Cardinality(Tables(x)) = 1 /\ found(x) = CHOOSE t \in Tables(x) : TRUE
      BY <1>2, <1>3
    <2>2. PICK y : Tables(x) = {y}
      BY <1>1, <2>1, SameMcpCount, FS_Singleton
    <2>3. QED
      BY <2>1, <2>2
  <1>4. ASSUME NEW x, found(x) # ""
        PROVE  found(x) \in Tables(found(x))
    <2> DEFINE t == found(x)
    <2>1. t \in Tables(x)
      BY <1>3, <1>4
    <2>2. PICK e \in entries : e.table # "" /\ e.table = t
      BY <2>1
    <2> HIDE DEF t
    <2>3. t \in Tables(t)
      BY <2>2
    <2>4. QED
      BY <2>3 DEF t
  <1> HIDE DEF Tables, found
  <1>5. ASSUME NEW e \in entries, found(e.key) # ""
        PROVE  found(found(e.key)) \in {found(e.key), ""}
    BY <1>3, <1>4, <1>5
  <1>6. QED
    BY <1>5 DEF M!AliasesAgree, found

\* A result is a sequence of rows, asked for with a limit.
RowDomain(in) == in.result \in Seq(STRING) /\ in.limit \in Nat

\* The start of a sequence.
LEMMA StartOf ==
    ASSUME NEW S, NEW s \in Seq(S), NEW k \in 0..Len(s)
    PROVE  /\ SubSeq(s, 1, k) \in Seq(S) /\ Len(SubSeq(s, 1, k)) = k
           /\ \A i \in 1..k : SubSeq(s, 1, k)[i] = s[i]
  <1>1. \A i \in 1..k : s[i] \in S
    OBVIOUS
  <1>2. 1 \in Int /\ k \in Int /\ k - 1 + 1 = k /\ \A i \in 1..k : 1 + i - 1 = i
    OBVIOUS
  <1>3. /\ SubSeq(s, 1, k) \in Seq(S)
        /\ Len(SubSeq(s, 1, k)) = IF 1 <= k THEN k - 1 + 1 ELSE 0
        /\ \A i \in 1..(k - 1 + 1) : SubSeq(s, 1, k)[i] = s[1 + i - 1]
    BY <1>1, <1>2, SubSeqProperties
  <1>4. QED
    BY <1>2, <1>3

\* What is cut says so, and what says so is cut.
LEMMA CutIsAlwaysTold ==
    ASSUME NEW result \in Seq(STRING), NEW limit \in Nat
    PROVE  LET answer == M!Bounded(result, limit)
           IN  /\ answer.truncated <=> answer.rows # result
               /\ M!IsPrefix(answer.rows, result)
  <1> DEFINE a == IF Len(result) < limit + 1 THEN Len(result) ELSE limit + 1
             fetched == SubSeq(result, 1, a)
             b == IF Len(fetched) < limit THEN Len(fetched) ELSE limit
             kept == SubSeq(fetched, 1, b)
             cut == Len(fetched) > limit
  <1>1. M!Bounded(result, limit) = [rows |-> kept, truncated |-> cut]
    BY Zenon DEF M!Bounded
  <1>2. Len(result) \in Nat /\ a \in 0..Len(result)
    OBVIOUS
  <1>3. fetched \in Seq(STRING) /\ Len(fetched) = a /\ \A i \in 1..a : fetched[i] = result[i]
    BY <1>2, StartOf
  <1>4. b \in 0..Len(fetched) /\ b \in 0..Len(result) /\ b <= a
    BY <1>2, <1>3
  <1>5. kept \in Seq(STRING) /\ Len(kept) = b /\ \A i \in 1..b : kept[i] = fetched[i]
    BY <1>3, <1>4, StartOf
  <1>6. SubSeq(result, 1, b) \in Seq(STRING) /\ Len(SubSeq(result, 1, b)) = b /\ \A i \in 1..b : SubSeq(result, 1, b)[i] = result[i]
    BY <1>4, StartOf
  <1>7. kept = SubSeq(result, 1, b)
    <2>1. \A i \in 1..b : i \in 1..a
      BY <1>2, <1>4
    <2>2. \A i \in 1..b : kept[i] = SubSeq(result, 1, b)[i]
      BY <1>3, <1>5, <1>6, <2>1
    <2> HIDE DEF kept, b
    <2>3. QED
      BY <1>5, <1>6, <2>2, SeqEqual
  <1>8. Len(fetched) > limit <=> b # Len(result)
    BY <1>2, <1>3
  <1>9. kept = result <=> b = Len(result)
    <2>1. SubSeq(result, 1, Len(result)) = result
      BY SubSeqFull
    <2> HIDE DEF kept, b
    <2>2. QED
      BY <1>5, <1>7, <2>1
  <1>10. M!IsPrefix(kept, result)
    <2>1. SubSeq(kept, 1, Len(kept)) = kept
      BY <1>5, SubSeqFull
    <2>2. Len(kept) <= Len(result)
      BY <1>2, <1>4, <1>5
    <2> HIDE DEF kept, b
    <2>3. QED
      BY <1>5, <1>7, <2>1, <2>2 DEF M!IsPrefix
  <1>11. cut <=> kept # result
    BY <1>8, <1>9
  <1> DEFINE answer == [rows |-> kept, truncated |-> cut]
  <1>12. answer.rows = kept /\ answer.truncated = cut
    <2> HIDE DEF kept, cut
    <2>1. answer.rows = kept
      OBVIOUS
    <2>2. answer.truncated = cut
      OBVIOUS
    <2>3. QED
      BY <2>1, <2>2
  <1> HIDE DEF kept, cut, answer
  <1>13. M!Bounded(result, limit) = answer
    BY <1>1 DEF answer
  <1>14. QED
    BY <1>10, <1>11, <1>12, <1>13, Zenon

\* An answer is the whole result unless it says otherwise, under any ceiling.
LEMMA TruncationIsAlwaysTold ==
    ASSUME NEW result \in Seq(STRING), NEW limit \in Nat, Hard.page \in Nat
    PROVE  M!TruncationIsTold(result, limit)
  <1> DEFINE page == IF limit < Hard.page THEN limit ELSE Hard.page
  <1>1. page \in Nat
    OBVIOUS
  <1>2. M!read_quarantine(result, limit) = M!Bounded(result, page)
    BY DEF M!read_quarantine
  <1> HIDE DEF page
  <1>3. QED
    BY <1>1, <1>2, CutIsAlwaysTold DEF M!TruncationIsTold

\* Catalogues are sequences of the keys of models, each once; a page holds one.
PageDomain(in) ==
    /\ in.catalogues \in Seq(Seq(STRING)) /\ in.catalogues # <<>> /\ in.limit \in Nat \ {0}
    /\ \A n \in DOMAIN in.catalogues : \A i, j \in DOMAIN in.catalogues[n] :
          in.catalogues[n][i] = in.catalogues[n][j] => i = j

\* A page of the catalogue keys from start on, and the same after what came before.
PageFrom(items, keys, end) ==
    [items |-> items, of |-> keys, ok |-> TRUE, next |-> IF end < Len(keys) THEN M!_encode_cursor(keys[end], keys) ELSE M!Absent]

\* The first page starts with the first key.
LEMMA FirstPage ==
    ASSUME NEW keys \in Seq(STRING), NEW limit \in Nat \ {0}
    PROVE  \E end \in 0..Len(keys) : /\ end < Len(keys) => end \in 1..Len(keys)
                                     /\ M!list_models(M!Absent, keys, limit) = PageFrom(SubSeq(keys, 1, end), keys, end)
  <1> DEFINE end == IF 1 + limit - 1 < Len(keys) THEN 1 + limit - 1 ELSE Len(keys)
  <1>1. Len(keys) \in Nat /\ end \in 0..Len(keys) /\ (end < Len(keys) => end \in 1..Len(keys))
    OBVIOUS
  <1>2. M!list_models(M!Absent, keys, limit) = PageFrom(SubSeq(keys, 1, end), keys, end)
    <2>1. ~(1 = 0)
      OBVIOUS
    <2>2. M!list_models(M!Absent, keys, limit)
            = IF 1 = 0 THEN [items |-> <<>>, next |-> M!Absent, of |-> keys, ok |-> FALSE]
              ELSE [items |-> SubSeq(keys, 1, end), of |-> keys, ok |-> TRUE,
                    next |-> IF end < Len(keys) THEN M!_encode_cursor(keys[end], keys) ELSE M!Absent]
      BY DEF M!list_models
    <2> HIDE DEF end
    <2>3. QED
      BY <2>1, <2>2 DEF PageFrom
  <1> HIDE DEF end
  <1>3. QED
    BY <1>1, <1>2

\* The cursor of a page leads to the key after it, in the catalogue it was
\* cut from, and nowhere in another one.
LEMMA NextPage ==
    ASSUME NEW catalog \in Seq(STRING), \A i, j \in DOMAIN catalog : catalog[i] = catalog[j] => i = j,
           NEW k \in 1..Len(catalog), k < Len(catalog), NEW keys \in Seq(STRING), NEW limit \in Nat \ {0}
    PROVE  LET p == M!list_models(M!_encode_cursor(catalog[k], catalog), keys, limit)
           IN  \/ p = [items |-> <<>>, next |-> M!Absent, of |-> keys, ok |-> FALSE]
               \/ /\ keys = catalog
                  /\ \E end \in (k + 1)..Len(catalog) : p = PageFrom(SubSeq(catalog, k + 1, end), catalog, end)
  <1> DEFINE cursor == M!_encode_cursor(catalog[k], catalog)
             fresh == M!_decode_cursor(cursor, keys)
             end == IF fresh + limit - 1 < Len(keys) THEN fresh + limit - 1 ELSE Len(keys)
             p == M!list_models(cursor, keys, limit)
             none == [items |-> <<>>, next |-> M!Absent, of |-> keys, ok |-> FALSE]
             some == [items |-> SubSeq(keys, fresh, end), of |-> keys, ok |-> TRUE,
                      next |-> IF end < Len(keys) THEN M!_encode_cursor(keys[end], keys) ELSE M!Absent]
  <1>1. cursor.after = catalog[k] /\ cursor.catalog = catalog /\ cursor # M!Absent
    <2>1. "absent" \in DOMAIN M!Absent
      BY DEF M!Absent
    <2>2. cursor.after = catalog[k] /\ cursor.catalog = catalog /\ "absent" \notin DOMAIN cursor
      BY DEF M!_encode_cursor
    <2>3. QED
      BY <2>1, <2>2
  <1>2. p = IF fresh = 0 THEN none ELSE some
    <2> HIDE DEF cursor
    <2>1. M!list_models(cursor, keys, limit)
            = LET start == IF cursor = M!Absent THEN 1 ELSE M!_decode_cursor(cursor, keys)
                  last  == IF start + limit - 1 < Len(keys) THEN start + limit - 1 ELSE Len(keys)
              IN  IF start = 0 THEN none
                  ELSE [items |-> SubSeq(keys, start, last), of |-> keys, ok |-> TRUE,
                        next |-> IF last < Len(keys) THEN M!_encode_cursor(keys[last], keys) ELSE M!Absent]
      BY DEF M!list_models
    <2>2. QED
      BY <1>1, <2>1, Zenon
  <1>3. keys # catalog => fresh = 0
    <2> HIDE DEF cursor
    <2>1. QED
      BY <1>1 DEF M!_decode_cursor
  <1>4. keys = catalog => fresh = k + 1
    <2> HAVE keys = catalog
    <2>1. k \in DOMAIN catalog
      OBVIOUS
    <2> HIDE DEF cursor
    <2>2. fresh = (CHOOSE i \in DOMAIN catalog : catalog[i] = catalog[k]) + 1
      BY <1>1, <2>1 DEF M!_decode_cursor
    <2>3. (CHOOSE i \in DOMAIN catalog : catalog[i] = catalog[k]) = k
      BY <2>1, Zenon
    <2>4. QED
      BY <2>2, <2>3, Zenon
  <1>5. CASE keys = catalog
    <2>1. fresh = k + 1 /\ fresh # 0
      BY <1>4, <1>5
    <2> HIDE DEF fresh
    <2>2. end \in (k + 1)..Len(catalog)
      BY <1>5, <2>1
    <2>3. p = some
      BY <1>2, <2>1, Zenon
    <2> HIDE DEF end, p
    <2>4. p = PageFrom(SubSeq(catalog, k + 1, end), catalog, end)
      BY <1>5, <2>1, <2>3 DEF PageFrom
    <2>5. QED
      BY <1>5, <2>2, <2>4 DEF p, cursor
  <1>6. CASE keys # catalog
    <2>1. p = none
      BY <1>2, <1>3, <1>6, Zenon
    <2>2. QED
      BY <2>1
  <1>7. QED
    BY <1>5, <1>6

\* One turn of a traversal: the page q is followed into the catalogue keys.
Turned(q, keys, limit) ==
    LET p == M!list_models(q.next, keys, limit) IN [p EXCEPT !.items = q.items \o @]
Turn(q, keys, limit) == IF q.ok /\ q.next # M!Absent THEN Turned(q, keys, limit) ELSE q

\* What a traversal has gathered: all of the catalogue it started with, its
\* first keys with the cursor of the last, or a refusal.
Gathered(q, catalog) ==
    \/ ~q.ok
    \/ q.of = catalog /\ q.items = catalog /\ q.next = M!Absent
    \/ q.of = catalog /\ \E k \in 1..Len(catalog) : /\ k < Len(catalog) /\ q.items = SubSeq(catalog, 1, k)
                                                   /\ q.next = M!_encode_cursor(catalog[k], catalog)

\* The pages of a traversal: the first, then one turn for each catalogue.
LEMMA PagesInTurn ==
    ASSUME NEW catalogues, NEW limit, Len(catalogues) \in Nat \ {0}
    PROVE  \E page : /\ page[1] = M!list_models(M!Absent, catalogues[1], limit)
                     /\ \A n \in 2..Len(catalogues) : page[n] = Turn(page[n - 1], catalogues[n], limit)
                     /\ M!Traversal(catalogues, limit) = page[Len(catalogues)]
  <1> DEFINE n == Len(catalogues)
             first == M!list_models(M!Absent, catalogues[1], limit)
             Step(k, q) == Turn(q, catalogues[k], limit)
             Run(f, m) == f = [k \in 1..m |-> IF k = 1 THEN first ELSE Step(k, f[k - 1])]
             T == {m \in Nat : \E f : Run(f, m + 1)}
             page == CHOOSE f : Run(f, n)
  <1>1. M!Traversal(catalogues, limit) = page[n]
    BY DEF M!Traversal, Turn, Turned
  <1> HIDE DEF Step, first
  <1>2. 0 \in T
    <2> DEFINE f == [k \in 1..1 |-> first]
    <2>1. Run(f, 1) /\ 0 + 1 = 1
      OBVIOUS
    <2> HIDE DEF f, Run
    <2>2. QED
      BY <2>1
  <1>3. ASSUME NEW m \in Nat \ {0}, NEW f, Run(f, m)
        PROVE  \E g : Run(g, m + 1)
    <2> DEFINE x == Step(m + 1, f[m])
               g == [k \in 1..(m + 1) |-> IF k <= m THEN f[k] ELSE x]
    <2>1. /\ 1 \in 1..m /\ 1 \in 1..(m + 1) /\ 1 <= m
          /\ \A k \in 2..m : k \in 1..m /\ k # 1 /\ k <= m /\ k \in 1..(m + 1) /\ k - 1 \in 1..(m + 1) /\ k - 1 <= m
          /\ m \in 1..(m + 1) /\ m <= m /\ m + 1 \in 1..(m + 1) /\ ~(m + 1 <= m) /\ (m + 1) - 1 = m /\ m + 1 # 1
          /\ \A k \in 1..(m + 1) : k = 1 \/ k \in 2..m \/ k = m + 1
      OBVIOUS
    <2>2. f[1] = first /\ \A k \in 2..m : f[k] = Step(k, f[k - 1])
      BY <1>3, <2>1
    <2> HIDE DEF x
    <2>3. /\ g[1] = f[1] /\ g[m] = f[m] /\ g[m + 1] = x
          /\ \A k \in 2..m : g[k] = f[k] /\ g[k - 1] = f[k - 1]
      BY <2>1
    <2>4. g = [k \in 1..(m + 1) |-> g[k]]
      OBVIOUS
    <2> HIDE DEF g
    <2>5. ASSUME NEW k \in 1..(m + 1)
          PROVE  g[k] = IF k = 1 THEN first ELSE Step(k, g[k - 1])
      <3>1. CASE k = 1
        BY <2>2, <2>3, <3>1
      <3>2. CASE k \in 2..m
        BY <2>1, <2>2, <2>3, <3>2
      <3>3. CASE k = m + 1
        <4>1. k # 1 /\ k - 1 = m
          BY <2>1, <3>3
        <4>2. QED
          BY <2>3, <3>3, <4>1 DEF x
      <3>4. QED
        BY <2>1, <3>1, <3>2, <3>3
    <2>6. Run(g, m + 1)
      BY <2>4, <2>5
    <2> HIDE DEF Run
    <2>7. QED
      BY <2>6
  <1> HIDE DEF Run
  <1>4. \A m \in Nat : m \in T => m + 1 \in T
    BY <1>3
  <1>5. n - 1 \in T /\ (n - 1) + 1 = n
    <2>1. n - 1 \in Nat /\ (n - 1) + 1 = n
      OBVIOUS
    <2> HIDE DEF T, n
    <2>2. QED
      BY <1>2, <1>4, <2>1, K!Induction
  <1>6. Run(page, n)
    BY <1>5
  <1> HIDE DEF page
  <1>7. page = [k \in 1..n |-> IF k = 1 THEN first ELSE Step(k, page[k - 1])]
    BY <1>6 DEF Run
  <1>8. page[1] = first /\ \A k \in 2..n : page[k] = Step(k, page[k - 1])
    <2>1. 1 \in 1..n /\ \A k \in 2..n : k \in 1..n /\ k # 1
      OBVIOUS
    <2>2. page[1] = first
      BY <1>7, <2>1, Zenon
    <2>3. ASSUME NEW k \in 2..n
          PROVE  page[k] = Step(k, page[k - 1])
      <3>1. k \in 1..n /\ k # 1
        BY <2>1
      <3>2. page[k] = IF k = 1 THEN first ELSE Step(k, page[k - 1])
        BY <1>7, <3>1, Zenon
      <3>3. QED
        BY <3>1, <3>2, Zenon
    <2>4. QED
      BY <2>2, <2>3
  <1>9. QED
    BY <1>1, <1>8 DEF Step, first

\* The keys up to end, with the cursor of the last, are gathered.
LEMMA StartGathers ==
    ASSUME NEW catalog \in Seq(STRING), NEW end \in 0..Len(catalog), end < Len(catalog) => end \in 1..Len(catalog),
           NEW q, q.of = catalog, q.items = SubSeq(catalog, 1, end),
           q.next = IF end < Len(catalog) THEN M!_encode_cursor(catalog[end], catalog) ELSE M!Absent
    PROVE  Gathered(q, catalog)
  <1>1. CASE end < Len(catalog)
    BY <1>1 DEF Gathered
  <1>2. CASE ~(end < Len(catalog))
    <2>1. end = Len(catalog)
      BY <1>2
    <2>2. q.items = catalog /\ q.next = M!Absent
      BY <1>2, <2>1, SubSeqFull
    <2>3. QED
      BY <2>2 DEF Gathered
  <1>3. QED
    BY <1>1, <1>2

\* A turn gathers what comes next.
LEMMA TurnGathers ==
    ASSUME NEW catalog \in Seq(STRING), \A i, j \in DOMAIN catalog : catalog[i] = catalog[j] => i = j,
           NEW keys \in Seq(STRING), NEW limit \in Nat \ {0}, NEW q, Gathered(q, catalog)
    PROVE  Gathered(Turn(q, keys, limit), catalog)
  <1>1. CASE ~(q.ok /\ q.next # M!Absent)
    <2>1. Turn(q, keys, limit) = q
      BY <1>1 DEF Turn
    <2>2. QED
      BY <2>1
  <1>2. CASE q.ok /\ q.next # M!Absent
    <2> DEFINE p == M!list_models(q.next, keys, limit)
               r == [p EXCEPT !.items = q.items \o @]
               none == [items |-> <<>>, next |-> M!Absent, of |-> keys, ok |-> FALSE]
    <2>1. Turn(q, keys, limit) = r
      BY <1>2 DEF Turn, Turned
    <2>2. PICK k \in 1..Len(catalog) : /\ k < Len(catalog) /\ q.items = SubSeq(catalog, 1, k)
                                        /\ q.next = M!_encode_cursor(catalog[k], catalog)
      BY <1>2 DEF Gathered
    <2>3. \/ p = none
          \/ keys = catalog /\ \E end \in (k + 1)..Len(catalog) : p = PageFrom(SubSeq(catalog, k + 1, end), catalog, end)
      BY <2>2, NextPage
    <2>4. CASE p = none
      <3>1. DOMAIN p = {"items", "next", "of", "ok"} /\ p.ok = FALSE
        BY <2>4
      <3> HIDE DEF p
      <3>2. r.ok = p.ok
        BY <3>1
      <3> HIDE DEF r
      <3>3. QED
        BY <2>1, <3>1, <3>2 DEF Gathered
    <2>5. CASE \E end \in (k + 1)..Len(catalog) : p = PageFrom(SubSeq(catalog, k + 1, end), catalog, end)
      <3>1. PICK end \in (k + 1)..Len(catalog) : p = PageFrom(SubSeq(catalog, k + 1, end), catalog, end)
        BY <2>5
      <3> DEFINE after == SubSeq(catalog, k + 1, end)
                 next == IF end < Len(catalog) THEN M!_encode_cursor(catalog[end], catalog) ELSE M!Absent
      <3>2. p = [items |-> after, of |-> catalog, ok |-> TRUE, next |-> next]
        BY <3>1 DEF PageFrom
      <3> HIDE DEF p, after, next
      <3>3. r.of = catalog /\ r.items = q.items \o after /\ r.next = next
        <4>1. DOMAIN p = {"items", "of", "ok", "next"} /\ p.items = after /\ p.of = catalog /\ p.next = next
          BY <3>2
        <4> DEFINE both == q.items \o p.items
        <4> HIDE DEF both
        <4>2. r.items = both /\ r.of = p.of /\ r.next = p.next
          BY <4>1 DEF both
        <4>3. QED
          BY <4>1, <4>2 DEF both
      <3>4. q.items \o after = SubSeq(catalog, 1, end)
        <4>1. 1 \in 1..(Len(catalog) + 1) /\ k \in (1 - 1)..Len(catalog) /\ end \in k..Len(catalog)
          OBVIOUS
        <4>2. SubSeq(catalog, 1, k) \o SubSeq(catalog, k + 1, end) = SubSeq(catalog, 1, end)
          BY <4>1, ConcatAdjacentSubSeq
        <4>3. QED
          BY <2>2, <4>2 DEF after
      <3> HIDE DEF r
      <3>5. end \in 0..Len(catalog) /\ (end < Len(catalog) => end \in 1..Len(catalog))
        OBVIOUS
      <3>6. Gathered(r, catalog)
        BY <3>3, <3>4, <3>5, StartGathers DEF next
      <3>7. QED
        BY <2>1, <3>6
    <2>6. QED
      BY <2>3, <2>4, <2>5
  <1>3. QED
    BY <1>1, <1>2

\* A traversal that ends has listed the catalogue it started with.
LEMMA PagesAlwaysListTheCatalog ==
    ASSUME NEW catalogues \in Seq(Seq(STRING)), catalogues # <<>>, NEW limit \in Nat \ {0},
           \A n \in DOMAIN catalogues : \A i, j \in DOMAIN catalogues[n] :
              catalogues[n][i] = catalogues[n][j] => i = j
    PROVE  M!PagesListTheCatalog(catalogues, limit)
  <1> DEFINE n == Len(catalogues)
             catalog == catalogues[1]
  <1>1. n \in Nat \ {0} /\ \A k \in 1..n : k \in DOMAIN catalogues /\ catalogues[k] \in Seq(STRING)
    OBVIOUS
  <1>2. catalog \in Seq(STRING) /\ \A i, j \in DOMAIN catalog : catalog[i] = catalog[j] => i = j
    BY <1>1
  <1> HIDE DEF n, catalog
  <1>3. PICK page : /\ page[1] = M!list_models(M!Absent, catalog, limit)
                    /\ \A k \in 2..n : page[k] = Turn(page[k - 1], catalogues[k], limit)
                    /\ M!Traversal(catalogues, limit) = page[n]
    BY <1>1, PagesInTurn DEF n, catalog
  <1> DEFINE T == {m \in Nat : m + 1 \in 1..n => Gathered(page[m + 1], catalog)}
  <1>4. 0 \in T
    <2>1. PICK end \in 0..Len(catalog) : /\ end < Len(catalog) => end \in 1..Len(catalog)
                                   /\ M!list_models(M!Absent, catalog, limit) = PageFrom(SubSeq(catalog, 1, end), catalog, end)
      BY <1>2, FirstPage
    <2> DEFINE q == page[1]
    <2>2. /\ q.of = catalog /\ q.items = SubSeq(catalog, 1, end)
          /\ q.next = IF end < Len(catalog) THEN M!_encode_cursor(catalog[end], catalog) ELSE M!Absent
      BY <1>3, <2>1 DEF PageFrom
    <2> HIDE DEF q
    <2>3. Gathered(q, catalog)
      BY <1>2, <2>1, <2>2, StartGathers
    <2>4. 0 + 1 = 1
      OBVIOUS
    <2>5. QED
      BY <2>3, <2>4 DEF q
  <1>5. ASSUME NEW m \in T, (m + 1) + 1 \in 1..n
        PROVE  Gathered(page[(m + 1) + 1], catalog)
    <2>1. m + 1 \in 1..n /\ (m + 1) + 1 \in 2..n /\ ((m + 1) + 1) - 1 = m + 1
      BY <1>1, <1>5
    <2>2. Gathered(page[m + 1], catalog)
      BY <2>1
    <2>3. page[(m + 1) + 1] = Turn(page[m + 1], catalogues[(m + 1) + 1], limit)
      BY <1>3, <2>1
    <2>4. catalogues[(m + 1) + 1] \in Seq(STRING)
      BY <1>1, <2>1
    <2>5. QED
      BY <1>2, <2>2, <2>3, <2>4, TurnGathers
  <1>6. \A m \in Nat : m \in T => m + 1 \in T
    BY <1>5
  <1>7. n - 1 \in T
    <2>1. n - 1 \in Nat
      BY <1>1
    <2> HIDE DEF T
    <2>2. QED
      BY <1>4, <1>6, <2>1, K!Induction
  <1>8. Gathered(page[n], catalog)
    <2>1. (n - 1) + 1 = n /\ n \in 1..n
      BY <1>1
    <2>2. QED
      BY <1>7, <2>1
  <1> DEFINE last == M!Traversal(catalogues, limit)
  <1>9. Gathered(last, catalog)
    BY <1>3, <1>8
  <1> HIDE DEF last
  <1>10. ASSUME last.ok, last.next = M!Absent
         PROVE  last.items = catalog /\ last.items = last.of
    <2>1. \A k \in 1..Len(catalog) : M!_encode_cursor(catalog[k], catalog) # M!Absent
      <3>1. "absent" \in DOMAIN M!Absent
        BY DEF M!Absent
      <3>2. \A k \in 1..Len(catalog) : "absent" \notin DOMAIN M!_encode_cursor(catalog[k], catalog)
        BY DEF M!_encode_cursor
      <3>3. QED
        BY <3>1, <3>2
    <2>2. QED
      BY <1>9, <1>10, <2>1 DEF Gathered
  <1>11. QED
    BY <1>10 DEF M!PagesListTheCatalog, last, catalog

------------------------------------------------------------------------------
(* Counting.                                                                *)

\* Advice and judgement count as this module does.
LEMMA SameAdviceCount == \A S : A!Cardinality(S) = Cardinality(S)
  BY DEF A!Cardinality, Cardinality

\* What is told apart by a name has as many names.
LEMMA CountOfNames ==
    ASSUME NEW S, IsFiniteSet(S), NEW name, \A x, y \in S : name[x] = name[y] => x = y
    PROVE  /\ IsFiniteSet({name[x] : x \in S})
           /\ Cardinality({name[x] : x \in S}) = Cardinality(S)
  <1> DEFINE T == {name[x] : x \in S}
             f == [x \in S |-> name[x]]
  <1>1. f \in Surjection(S, T)
    BY DEF Surjection
  <1>2. f \in Injection(S, T)
    BY DEF Injection, IsInjective
  <1>3. QED
    BY <1>1, <1>2, FS_Surjection

\* A set that an injection maps onto another has its number of members.
LEMMA CountIsKept ==
    ASSUME NEW S, NEW T, NEW h \in [S -> T], \A x, y \in S : h[x] = h[y] => x = y,
           NEW C, C \subseteq S, IsFiniteSet(C),
           NEW D, \A d \in D : \E x \in C : h[x] = d, \A x \in C : h[x] \in D
    PROVE  IsFiniteSet(D) /\ Cardinality(D) = Cardinality(C)
  <1>1. {h[x] : x \in C} = D
    OBVIOUS
  <1>2. \A x, y \in C : h[x] = h[y] => x = y
    OBVIOUS
  <1>3. QED
    BY <1>1, <1>2, CountOfNames

\* Finitely many numbers have a bound.
LEMMA BoundOfFinite ==
    ASSUME NEW S, IsFiniteSet(S), NEW value, \A x \in S : value[x] \in Nat
    PROVE  \E b \in Nat : \A x \in S : value[x] <= b
  <1> DEFINE n == Cardinality(S)
  <1>1. n \in Nat /\ ExistsBijection(1..n, S)
    BY FS_CardinalityType
  <1> HIDE DEF n
  <1>2. PICK f \in Bijection(1..n, S) : TRUE
    BY <1>1 DEF ExistsBijection
  <1>3. f \in [1..n -> S] /\ \A x \in S : \E i \in 1..n : f[i] = x
    BY <1>2 DEF Bijection, Surjection, Injection
  <1> DEFINE T == {m \in Nat : m <= n => \E b \in Nat : \A i \in 1..m : value[f[i]] <= b}
  <1>4. 0 \in T
    <2>1. \A i \in 1..0 : value[f[i]] <= 0
      OBVIOUS
    <2>2. QED
      BY <2>1
  <1>5. ASSUME NEW m \in Nat, m \in T
        PROVE  m + 1 \in T
    <2> SUFFICES ASSUME m + 1 <= n
                 PROVE  \E b \in Nat : \A i \in 1..(m + 1) : value[f[i]] <= b
      OBVIOUS
    <2>1. PICK b \in Nat : \A i \in 1..m : value[f[i]] <= b
      BY <1>1, <1>5
    <2> DEFINE w == value[f[m + 1]]
    <2>2. w \in Nat
      BY <1>1, <1>3
    <2>3. \A i \in 1..(m + 1) : value[f[i]] \in Nat /\ (i \in 1..m \/ value[f[i]] = w)
      BY <1>1, <1>3
    <2> HIDE DEF w
    <2>4. b + w \in Nat /\ w <= b + w /\ b <= b + w
      BY <2>2
    <2>5. \A i \in 1..(m + 1) : value[f[i]] <= b + w
      BY <2>1, <2>2, <2>3
    <2>6. QED
      BY <2>4, <2>5
  <1>6. n \in T
    <2> HIDE DEF T
    <2>1. QED
      BY <1>1, <1>4, <1>5, K!Induction
  <1>7. PICK b \in Nat : \A i \in 1..n : value[f[i]] <= b
    BY <1>1, <1>6
  <1>8. QED
    BY <1>3, <1>7

------------------------------------------------------------------------------
(* Percentiles of durations.                                                *)

\* The events that are not slower than d.
NotSlower(events, d) == {e \in events : e.ms <= d}
Rank(n, percentile) ==
    LET ceil == (percentile * n + 99) \div 100 IN IF ceil = 0 THEN 1 ELSE ceil

\* A rank is a place in the sample.
LEMMA RankIsAPlace ==
    ASSUME NEW n \in Nat \ {0}, NEW percentile \in 0..100
    PROVE  Rank(n, percentile) \in 1..n
  <1> DEFINE x == percentile * n
  <1>1. x \in Nat /\ x <= 100 * n
    <2>1. percentile * n <= 100 * n
      OBVIOUS
    <2>2. QED
      BY <2>1
  <1> HIDE DEF x
  <1>2. (x + 99) \div 100 \in 0..n
    BY <1>1
  <1>3. QED
    BY <1>2 DEF Rank, x

\* The nearest rank is the least duration that as many as the rank do not
\* exceed, among all numbers and not only among the durations observed.
LEMMA NearestRank ==
    ASSUME NEW events, IsFiniteSet(events), events # {}, \A e \in events : e.ms \in Nat,
           NEW percentile \in 0..100
    PROVE  LET v == A!nearest_rank_percentile(events, percentile)
               rank == Rank(Cardinality(events), percentile)
           IN  /\ v \in Nat
               /\ Cardinality(NotSlower(events, v)) >= rank
               /\ \A d \in Nat : Cardinality(NotSlower(events, d)) >= rank => v <= d
  <1> DEFINE v == A!nearest_rank_percentile(events, percentile)
             n == Cardinality(events)
             rank == Rank(n, percentile)
             B == {d \in Nat : Cardinality(NotSlower(events, d)) >= rank}
             values == {e.ms : e \in events}
             seen == {d \in values : Cardinality(NotSlower(events, d)) >= rank}
  <1>1. n \in Nat \ {0}
    BY FS_CardinalityType, FS_EmptySet
  <1>2. rank \in 1..n
    BY <1>1, RankIsAPlace
  <1>3. v = CHOOSE d \in seen : \A y \in seen : d =< y
    BY SameAdviceCount DEF A!nearest_rank_percentile, A!Min, Rank, NotSlower
  <1> HIDE DEF v, rank
  <1>4. B # {}
    <2> DEFINE ms == [e \in events |-> e.ms]
    <2>1. \A e \in events : ms[e] \in Nat /\ ms[e] = e.ms
      OBVIOUS
    <2> HIDE DEF ms
    <2>2. PICK b \in Nat : \A e \in events : ms[e] <= b
      BY <2>1, BoundOfFinite
    <2>3. NotSlower(events, b) = events
      BY <2>1, <2>2 DEF NotSlower
    <2>4. b \in B
      BY <1>1, <1>2, <2>3
    <2>5. QED
      BY <2>4
  <1>5. PICK b \in B : \A d \in B : b <= d
    <2>1. B \subseteq Nat
      OBVIOUS
    <2> HIDE DEF B
    <2>2. QED
      BY <1>4, <2>1, K!LeastNatural
  <1>6. b \in values
    <2> SUFFICES ASSUME b \notin values
                 PROVE  FALSE
      OBVIOUS
    <2>1. \A e \in events : e.ms <= b <=> e.ms <= b - 1
      BY <1>5
    <2>2. NotSlower(events, b) = NotSlower(events, b - 1)
      BY <2>1 DEF NotSlower
    <2>3. CASE b = 0
      <3>1. NotSlower(events, b) = {}
        BY <2>1, <2>3 DEF NotSlower
      <3>2. Cardinality(NotSlower(events, b)) = 0
        BY <3>1, FS_EmptySet
      <3>3. QED
        BY <1>1, <1>2, <1>5, <3>2
    <2>4. CASE b # 0
      <3>1. b - 1 \in Nat /\ ~(b <= b - 1)
        BY <1>5, <2>4
      <3>2. b - 1 \in B
        BY <1>5, <2>2, <3>1
      <3>3. QED
        BY <1>5, <3>1, <3>2
    <2>5. QED
      BY <2>3, <2>4
  <1>7. b \in seen /\ seen \subseteq B
    BY <1>5, <1>6
  <1>8. v \in seen
    <2>1. seen \subseteq Nat /\ seen # {}
      BY <1>7
    <2> HIDE DEF seen
    <2>2. QED
      BY <1>3, <2>1, FirstPlace
  <1>9. v <= b
    <2>1. \E d \in seen : \A y \in seen : d =< y
      BY <1>5, <1>7
    <2> HIDE DEF seen
    <2>2. \A y \in seen : v =< y
      BY <1>3, <2>1
    <2>3. QED
      BY <1>7, <2>2
  <1>10. v = b
    <2>1. v \in B /\ v \in Nat /\ b \in Nat
      BY <1>7, <1>8
    <2>2. b <= v
      BY <1>5, <2>1
    <2>3. QED
      BY <1>9, <2>1, <2>2
  <1>11. QED
    BY <1>5, <1>10 DEF v, rank

\* A sample of which every duration grows has no smaller percentile.
LEMMA PercentileGrows ==
    ASSUME NEW S, NEW T, NEW h \in [S -> T], \A x, y \in S : h[x] = h[y] => x = y,
           NEW C, C \subseteq S, C # {}, IsFiniteSet(C), \A e \in C : e.ms \in Nat,
           NEW D, \A d \in D : \E x \in C : h[x] = d, \A x \in C : h[x] \in D,
           \A e \in C : h[e].ms \in Nat /\ e.ms <= h[e].ms,
           NEW percentile \in 0..100
    PROVE  /\ A!nearest_rank_percentile(C, percentile) \in Nat
           /\ A!nearest_rank_percentile(D, percentile) \in Nat
           /\ A!nearest_rank_percentile(C, percentile) <= A!nearest_rank_percentile(D, percentile)
  <1> DEFINE v == A!nearest_rank_percentile(C, percentile)
             w == A!nearest_rank_percentile(D, percentile)
             late == {e \in C : h[e].ms <= w}
  <1>1. IsFiniteSet(D) /\ Cardinality(D) = Cardinality(C) /\ D # {} /\ \A d \in D : d.ms \in Nat
    BY CountIsKept
  <1>2. /\ v \in Nat
        /\ \A d \in Nat : Cardinality(NotSlower(C, d)) >= Rank(Cardinality(C), percentile) => v <= d
    BY NearestRank
  <1>3. w \in Nat /\ Cardinality(NotSlower(D, w)) >= Rank(Cardinality(C), percentile)
    BY <1>1, NearestRank
  <1> HIDE DEF v, w
  <1>4. Cardinality(NotSlower(D, w)) = Cardinality(late)
    <2>1. late \subseteq S /\ IsFiniteSet(late)
      BY FS_Subset
    <2>2. /\ \A d \in NotSlower(D, w) : \E x \in late : h[x] = d
          /\ \A x \in late : h[x] \in NotSlower(D, w)
      BY DEF NotSlower
    <2> HIDE DEF late
    <2>3. QED
      BY <2>1, <2>2, CountIsKept
  <1>5. late \subseteq NotSlower(C, w)
    BY <1>3 DEF NotSlower
  <1>6. Cardinality(late) <= Cardinality(NotSlower(C, w)) /\ Cardinality(late) \in Nat /\ Cardinality(NotSlower(C, w)) \in Nat
    <2>1. IsFiniteSet(NotSlower(C, w))
      BY FS_Subset DEF NotSlower
    <2>2. QED
      BY <1>5, <2>1, FS_Subset, FS_CardinalityType
  <1>7. Rank(Cardinality(C), percentile) \in Nat
    <2>1. Cardinality(C) \in Nat \ {0}
      BY FS_CardinalityType, FS_EmptySet
    <2>2. Rank(Cardinality(C), percentile) \in 1..Cardinality(C)
      BY <2>1, RankIsAPlace
    <2>3. QED
      BY <2>2
  <1>8. Cardinality(NotSlower(C, w)) >= Rank(Cardinality(C), percentile)
    BY <1>3, <1>4, <1>6, <1>7
  <1>9. QED
    BY <1>2, <1>3, <1>8 DEF v, w

------------------------------------------------------------------------------
(* Advice, for any evidence and settings.                                   *)

\* What the events are made of: every query reads some model.
EvidenceRow == [id : Nat, at : Nat, env : STRING, status : {"succeeded", "failed"},
                models : (SUBSET STRING) \ {{}}, metrics : SUBSET STRING,
                filters : SUBSET (STRING \X STRING \X STRING), ms : Nat \union {A!None}]
AdviceDomain(in) == in.evidence \in Seq(EvidenceRow) /\ in.now \in Nat
OutcomeDomain(in) == /\ in.evidence \in Seq(EvidenceRow) /\ in.evidence # <<>>
                     /\ in.by \in Nat /\ in.delivered \in Nat /\ in.now \in Nat

\* The constructors refuse other settings.
SettingsDomain == /\ AdviceSettings.minPoints \in Nat \ {0} /\ AdviceSettings.percentile \in 0..100
                  /\ AdviceSettings.ratio \in 0..10

\* The places of the evidence that is stored, and the event of each.
Fresh(evidence) == {i \in DOMAIN evidence : \A j \in 1..(i - 1) : evidence[j].id # evidence[i].id}
EventOf(evidence, i) == A!usage_event_from_evidence(evidence[i])

\* What is stored comes from one place.
LEMMA StoredFrom ==
    ASSUME NEW evidence \in Seq(EvidenceRow)
    PROVE  /\ A!Stored(evidence) = {EventOf(evidence, i) : i \in Fresh(evidence)}
           /\ \A i, j \in Fresh(evidence) : evidence[i].id = evidence[j].id => i = j
  <1>1. A!Stored(evidence) = {EventOf(evidence, i) : i \in Fresh(evidence)}
    BY DEF A!Stored, EventOf, Fresh
  <1>2. ASSUME NEW i \in Fresh(evidence), NEW j \in Fresh(evidence), evidence[i].id = evidence[j].id
        PROVE  i = j
    <2>1. i \in Nat /\ j \in Nat /\ i >= 1 /\ j >= 1
      BY DEF Fresh
    <2>2. ~(i \in 1..(j - 1)) /\ ~(j \in 1..(i - 1))
      BY <1>2 DEF Fresh
    <2>3. QED
      BY <2>1, <2>2
  <1>3. QED
    BY <1>1, <1>2

\* An event is a usage fact, under the hash of its logical query.
LEMMA EventIsSound ==
    ASSUME NEW evidence \in Seq(EvidenceRow), NEW i \in DOMAIN evidence
    PROVE  LET e == EventOf(evidence, i)
           IN  /\ e.id = evidence[i].id /\ e.at = evidence[i].at /\ e.env = evidence[i].env
               /\ e.status = evidence[i].status /\ e.ms = evidence[i].ms /\ e.models = evidence[i].models
               /\ e.at \in Nat /\ e.ms \in Nat \union {A!None} /\ e.models # {}
               /\ e.status \in {"succeeded", "failed"}
               /\ e.fingerprint = A!fingerprint_query(e.models, e.metrics, e.shapes)
  <1>1. evidence[i] \in EvidenceRow
    OBVIOUS
  <1>2. QED
    BY <1>1 DEF EvidenceRow, EventOf, A!usage_event_from_evidence

\* The store is finite, tells events apart by their identifier, and holds sound ones.
LEMMA StoreIsSound ==
    ASSUME NEW evidence \in Seq(EvidenceRow)
    PROVE  /\ IsFiniteSet(A!Stored(evidence))
           /\ \A e, f \in A!Stored(evidence) : e.id = f.id => e = f
           /\ \A e \in A!Stored(evidence) :
                 /\ e.at \in Nat /\ e.ms \in Nat \union {A!None} /\ e.models # {}
                 /\ e.fingerprint = A!fingerprint_query(e.models, e.metrics, e.shapes)
  <1> DEFINE I == Fresh(evidence)
             event == [i \in I |-> EventOf(evidence, i)]
  <1>1. A!Stored(evidence) = {event[i] : i \in I}
    BY StoredFrom
  <1>2. \A i \in I : i \in DOMAIN evidence
    BY DEF Fresh
  <1>3. \A i \in I : event[i].id = evidence[i].id
    BY <1>2, EventIsSound
  <1>4. \A i, j \in I : event[i].id = event[j].id => i = j
    BY <1>3, StoredFrom
  <1>5. IsFiniteSet(I)
    <2>1. IsFiniteSet(1..Len(evidence))
      BY FS_Interval
    <2>2. I \subseteq 1..Len(evidence)
      BY <1>2
    <2>3. QED
      BY <2>1, <2>2, FS_Subset
  <1>6. \A i \in I : /\ event[i].at \in Nat /\ event[i].ms \in Nat \union {A!None} /\ event[i].models # {}
                     /\ event[i].fingerprint = A!fingerprint_query(event[i].models, event[i].metrics, event[i].shapes)
    BY <1>2, EventIsSound
  <1> HIDE DEF event, I
  <1>7. \A i, j \in I : event[i] = event[j] => i = j
    BY <1>4
  <1>8. IsFiniteSet({event[i] : i \in I})
    BY <1>5, <1>7, CountOfNames
  <1>9. QED
    BY <1>1, <1>4, <1>6, <1>8

\* The events that a pattern counts.
WindowStart(now, days) == IF days > now THEN 0 ELSE now - days
GroupIn(store, now, key, days) ==
    {e \in A!list_events(store, WindowStart(now, A!Max(AdviceSettings.windows)), now) :
        A!Key(e) = key /\ WindowStart(now, days) <= e.at /\ e.at <= now}
Counted(store, now, p) == GroupIn(store, now, p.key, p.window)
PatternOf(store, now, key, days) ==
    LET group == GroupIn(store, now, key, days)  timed == A!Durations(group)
    IN [key |-> key, window |-> days, ids |-> {e.id : e \in group}, count |-> A!Cardinality(group),
        points |-> A!Cardinality(timed),
        percentile |-> IF A!Cardinality(timed) < AdviceSettings.minPoints THEN A!None
                       ELSE A!nearest_rank_percentile(timed, AdviceSettings.percentile)]

\* A pattern is the one of its key and its window, and it is not empty.
LEMMA PatternIsOfItsGroup ==
    ASSUME NEW store, NEW now, NEW p \in A!aggregate(store, now)
    PROVE  p = PatternOf(store, now, p.key, p.window) /\ p.count > 0
  <1>1. PICK k, days : p = PatternOf(store, now, k, days) /\ p.count > 0
    BY DEF A!aggregate, PatternOf, GroupIn, WindowStart
  <1>2. p.key = k /\ p.window = days
    BY <1>1 DEF PatternOf
  <1>3. QED
    BY <1>1, <1>2

\* What a pattern says, it says of the events it counts.
LEMMA PatternSays ==
    ASSUME NEW store, NEW now, NEW p \in A!aggregate(store, now)
    PROVE  LET group == Counted(store, now, p)
           IN  /\ p.ids = {e.id : e \in group}
               /\ p.count = Cardinality(group) /\ p.count > 0
               /\ p.points = Cardinality(A!Durations(group))
               /\ p.percentile = IF p.points < AdviceSettings.minPoints THEN A!None
                                 ELSE A!nearest_rank_percentile(A!Durations(group), AdviceSettings.percentile)
               /\ group \subseteq store
               /\ \A e \in group : A!Key(e) = p.key
  <1> DEFINE group == Counted(store, now, p)
             made == PatternOf(store, now, p.key, p.window)
  <1>1. p = made /\ p.count > 0
    BY PatternIsOfItsGroup
  <1>2. /\ made.ids = {e.id : e \in group}
        /\ made.count = Cardinality(group)
        /\ made.points = Cardinality(A!Durations(group))
        /\ made.percentile = IF made.points < AdviceSettings.minPoints THEN A!None
                             ELSE A!nearest_rank_percentile(A!Durations(group), AdviceSettings.percentile)
    BY SameAdviceCount DEF PatternOf, Counted
  <1>3. group \subseteq store /\ \A e \in group : A!Key(e) = p.key
    BY DEF Counted, GroupIn, A!list_events
  <1> HIDE DEF made, group
  <1>4. /\ p.ids = made.ids /\ p.count = made.count /\ p.points = made.points /\ p.percentile = made.percentile
    BY <1>1
  <1>5. QED
    BY <1>1, <1>2, <1>3, <1>4 DEF group

\* The recommender accepts whatever the aggregator made.
LEMMA PatternIsValid ==
    ASSUME NEW in, AdviceDomain(in), SettingsDomain, NEW p \in A!aggregate(A!Stored(in.evidence), in.now)
    PROVE  A!ValidPattern(p)
  <1> DEFINE store == A!Stored(in.evidence)
             group == Counted(store, in.now, p)
             timed == A!Durations(group)
             name == [e \in group |-> e.id]
  <1>1. /\ p.ids = {e.id : e \in group}
        /\ p.count = Cardinality(group) /\ p.count > 0
        /\ p.points = Cardinality(timed)
        /\ p.points < AdviceSettings.minPoints => p.percentile = A!None
        /\ group \subseteq store
        /\ \A e \in group : A!Key(e) = p.key
    BY PatternSays
  <1>2. /\ IsFiniteSet(store)
        /\ \A e, f \in store : e.id = f.id => e = f
        /\ \A e \in store : e.models # {} /\ e.fingerprint = A!fingerprint_query(e.models, e.metrics, e.shapes)
    BY StoreIsSound DEF AdviceDomain
  <1> HIDE DEF store, group
  <1>3. IsFiniteSet(group) /\ Cardinality(group) \in Nat /\ group # {}
    <2>1. IsFiniteSet(group)
      BY <1>1, <1>2, FS_Subset
    <2>2. QED
      BY <1>1, <2>1, FS_CardinalityType, FS_EmptySet
  <1>4. p.count = Cardinality(p.ids)
    <2>1. \A e, f \in group : name[e] = name[f] => e = f
      BY <1>1, <1>2
    <2>2. {name[e] : e \in group} = {e.id : e \in group}
      OBVIOUS
    <2> HIDE DEF name
    <2>3. Cardinality({name[e] : e \in group}) = Cardinality(group)
      BY <1>3, <2>1, CountOfNames
    <2>4. QED
      BY <1>1, <2>2, <2>3
  <1>5. timed \subseteq group /\ \A e \in timed : e.status = "succeeded"
    BY DEF A!Durations, A!Measured
  <1>6. p.points <= p.count /\ p.points \in Nat
    <2>1. IsFiniteSet(timed) /\ Cardinality(timed) <= Cardinality(group)
      BY <1>3, <1>5, FS_Subset
    <2>2. QED
      BY <1>1, <2>1, FS_CardinalityType
  <1>7. p.percentile # A!None => p.points > 0
    BY <1>1, <1>6 DEF SettingsDomain
  <1>8. p.key.status = "failed" => p.points = 0 /\ p.percentile = A!None
    <2> SUFFICES ASSUME p.key.status = "failed"
                 PROVE  p.points = 0
      BY <1>6, <1>7
    <2>1. \A e \in group : e.status = "failed"
      <3>1. \A e \in group : A!Key(e).status = e.status
        BY DEF A!Key
      <3>2. \A e \in group : A!Key(e).status = p.key.status
        BY <1>1
      <3>3. QED
        BY <3>1, <3>2
    <2>2. timed = {}
      BY <1>5, <2>1
    <2>3. QED
      BY <1>1, <2>2, FS_EmptySet
  <1>9. PICK e \in group : TRUE
    BY <1>3
  <1>10. /\ p.key.models # {}
         /\ p.key.fingerprint = A!fingerprint_query(p.key.models, p.key.metrics, p.key.shapes)
    <2>1. e \in store /\ A!Key(e) = p.key
      BY <1>1, <1>9
    <2>2. /\ p.key.models = e.models /\ p.key.metrics = e.metrics /\ p.key.shapes = e.shapes
          /\ p.key.fingerprint = e.fingerprint
      BY <2>1 DEF A!Key
    <2>3. QED
      BY <1>2, <2>1, <2>2
  <1>11. p.ids # {}
    BY <1>1, <1>9
  <1>12. p.count = A!Cardinality(p.ids)
    BY <1>4, SameAdviceCount
  <1>13. QED
    BY <1>6, <1>7, <1>8, <1>10, <1>11, <1>12 DEF A!ValidPattern

\* No event is counted by two patterns of one window.
LEMMA AggregatesAreAlwaysAccepted ==
    ASSUME NEW in, AdviceDomain(in), SettingsDomain
    PROVE  A!AggregatesAreAccepted(in)
  <1> DEFINE store == A!Stored(in.evidence)
             patterns == A!aggregate(store, in.now)
  <1>1. ASSUME NEW p \in patterns, NEW q \in patterns, p # q, p.window = q.window
        PROVE  p.ids \intersect q.ids = {}
    <2> SUFFICES ASSUME NEW x, x \in p.ids, x \in q.ids
                 PROVE  FALSE
      OBVIOUS
    <2>1. /\ p.ids = {e.id : e \in Counted(store, in.now, p)} /\ Counted(store, in.now, p) \subseteq store
          /\ \A e \in Counted(store, in.now, p) : A!Key(e) = p.key
      BY PatternSays
    <2>2. /\ q.ids = {e.id : e \in Counted(store, in.now, q)} /\ Counted(store, in.now, q) \subseteq store
          /\ \A e \in Counted(store, in.now, q) : A!Key(e) = q.key
      BY PatternSays
    <2>3. \A e, f \in store : e.id = f.id => e = f
      BY StoreIsSound DEF AdviceDomain
    <2>4. PICK e \in Counted(store, in.now, p) : e.id = x
      BY <2>1
    <2>5. PICK f \in Counted(store, in.now, q) : f.id = x
      BY <2>2
    <2>6. e = f
      BY <2>1, <2>2, <2>3, <2>4, <2>5
    <2>7. p.key = q.key
      BY <2>1, <2>2, <2>6
    <2>8. p = PatternOf(store, in.now, p.key, p.window) /\ q = PatternOf(store, in.now, q.key, q.window)
      BY PatternIsOfItsGroup
    <2>9. QED
      BY <1>1, <2>7, <2>8
  <1>2. \A p \in patterns : A!ValidPattern(p)
    BY PatternIsValid
  <1>3. QED
    BY <1>1, <1>2 DEF A!AggregatesAreAccepted

\* A recommendation is of one pattern under one rule.
LEMMA AdviceIsOfAPattern ==
    ASSUME NEW patterns, NEW c, NEW r \in A!recommend(patterns, c)
    PROVE  \E rule \in DOMAIN A!KindOf, p \in patterns : A!Applies(rule, p, c) /\ r = A!_finish(rule, p, c)
  BY DEF A!recommend

\* The events that a piece of advice rests on are of one environment, one
\* query and one outcome.
LEMMA EvidenceIsOfOneKey ==
    ASSUME NEW in, AdviceDomain(in), NEW p \in A!aggregate(A!Stored(in.evidence), in.now),
           NEW e \in A!Stored(in.evidence), e.id \in p.ids
    PROVE  A!Key(e) = p.key
  <1> DEFINE group == Counted(A!Stored(in.evidence), in.now, p)
  <1>1. /\ p.ids = {f.id : f \in group} /\ group \subseteq A!Stored(in.evidence)
        /\ \A f \in group : A!Key(f) = p.key
    BY PatternSays
  <1>2. PICK f \in group : f.id = e.id
    BY <1>1
  <1>3. f = e
    BY <1>1, <1>2, StoreIsSound DEF AdviceDomain
  <1>4. QED
    BY <1>1, <1>2, <1>3

\* Any advice can be evaluated, whenever it is delivered.
LEMMA AdviceCanAlwaysBeEvaluated ==
    ASSUME NEW in, AdviceDomain(in)
    PROVE  A!AdviceCanBeEvaluated(in)
  <1> DEFINE store == A!Stored(in.evidence)
             patterns == A!aggregate(store, in.now)
  <1> SUFFICES ASSUME NEW r \in A!recommend(patterns, in.context), NEW delivered \in 0..in.now
               PROVE  A!evaluate(r.evidence, store, delivered, in.now) # "error"
    BY DEF A!AdviceCanBeEvaluated
  <1> DEFINE evidence == {e \in store : e.id \in r.evidence /\ e.at <= in.now}
             partitions == {<<e.env, e.fingerprint>> : e \in evidence}
  <1>1. PICK p \in patterns : r.evidence = p.ids
    <2>1. PICK rule \in DOMAIN A!KindOf, p \in patterns : r = A!_finish(rule, p, in.context)
      BY AdviceIsOfAPattern
    <2>2. A!_finish(rule, p, in.context).evidence = p.ids
      BY DEF A!_finish
    <2>3. QED
      BY <2>1, <2>2
  <1>2. \A e \in evidence : e.env = p.key.env /\ e.fingerprint = p.key.fingerprint
    <2> SUFFICES ASSUME NEW e \in evidence
                 PROVE  e.env = p.key.env /\ e.fingerprint = p.key.fingerprint
      OBVIOUS
    <2>1. A!Key(e) = p.key
      BY <1>1, EvidenceIsOfOneKey
    <2>2. A!Key(e).env = e.env /\ A!Key(e).fingerprint = e.fingerprint
      BY DEF A!Key
    <2>3. QED
      BY <2>1, <2>2
  <1>3. evidence # {} => A!Cardinality(partitions) = 1
    <2> SUFFICES ASSUME evidence # {}
                 PROVE  Cardinality(partitions) = 1
      BY SameAdviceCount
    <2>1. partitions = {<<p.key.env, p.key.fingerprint>>}
      BY <1>2
    <2>2. QED
      BY <2>1, FS_Singleton
  <1>4. ~(delivered > in.now)
    BY DEF AdviceDomain
  <1>5. \A before, after : A!Verdict(before, after) # "error"
    BY DEF A!Verdict
  <1> HIDE DEF store, evidence, partitions, patterns
  <1> DEFINE start == IF delivered < AdviceSettings.window THEN 0 ELSE delivered - AdviceSettings.window
             matching == {e \in store : <<e.env, e.fingerprint>> \in partitions}
  <1>6. A!evaluate(r.evidence, store, delivered, in.now)
          = IF delivered > in.now THEN "error"
            ELSE IF evidence = {} THEN "inconclusive"
            ELSE IF A!Cardinality(partitions) # 1 THEN "error"
            ELSE A!Verdict(A!_metrics(A!Before(matching, start, delivered)), A!_metrics(A!After(matching, delivered, in.now)))
    BY DEF A!evaluate, evidence, partitions
  <1> HIDE DEF start, matching
  <1>7. QED
    BY <1>3, <1>4, <1>5, <1>6

\* A pipeline is generated only over certified sources of known grain, for
\* queries that ran, and for joins that keep the row count.
LEMMA PhysicalAdviceIsAlwaysSafe ==
    ASSUME NEW in, AdviceDomain(in)
    PROVE  A!PhysicalAdviceIsSafe(in)
  <1> DEFINE store == A!Stored(in.evidence)
             patterns == A!aggregate(store, in.now)
             c == in.context
  <1> SUFFICES ASSUME NEW r \in A!recommend(patterns, c), NEW pipeline, A!Generable(r, pipeline)
               PROVE  /\ r.sources \subseteq c.certified \intersect c.grains
                      /\ \A e \in store : e.id \in r.evidence => e.status = "succeeded"
                      /\ A!Cardinality(r.sources) > 1 =>
                            c.plan.found /\ ~c.plan.fanout /\ "many_to_many" \notin c.plan.cardinalities
    BY DEF A!PhysicalAdviceIsSafe
  <1>1. PICK rule \in DOMAIN A!KindOf, p \in patterns : A!Applies(rule, p, c) /\ r = A!_finish(rule, p, c)
    BY AdviceIsOfAPattern
  <1>2. /\ A!_finish(rule, p, c).kind = A!KindOf[rule]
        /\ A!_finish(rule, p, c).evidence = p.ids
        /\ A!_finish(rule, p, c).sources = p.key.models
        /\ A!_finish(rule, p, c).status = "proposed" => A!Blockers(rule, p, c) = {}
    BY DEF A!_finish
  <1>3. r.kind \in {"materialized_view", "aggregate_table"} /\ r.status = "proposed"
    BY DEF A!Generable, A!PHYSICAL_KINDS
  <1>4. /\ r.kind = A!KindOf[rule] /\ r.evidence = p.ids /\ r.sources = p.key.models
        /\ A!Blockers(rule, p, c) = {}
    BY <1>1, <1>2, <1>3
  <1>5. rule \in {"frequent_aggregate", "repeated_join_path"}
    BY <1>3, <1>4 DEF A!KindOf
  <1>6. /\ A!_common_guardrails(p, c) = {} /\ A!_physical_guardrails(p, c) = {}
        /\ rule = "repeated_join_path" => A!_join_guardrails(c) = {}
    BY <1>4, <1>5 DEF A!Blockers
  <1>7. p.key.models \ c.certified = {}
    BY <1>6 DEF A!_common_guardrails
  <1>8. p.key.models \ c.grains = {}
    BY <1>6 DEF A!_physical_guardrails
  <1>9. p.key.status = "succeeded" /\ (rule = "frequent_aggregate" => A!Cardinality(p.key.models) = 1)
    BY <1>1, <1>5 DEF A!Applies
  <1>10. ASSUME NEW e \in store, e.id \in r.evidence
         PROVE  e.status = "succeeded"
    <2>1. A!Key(e) = p.key
      BY <1>4, <1>10, EvidenceIsOfOneKey
    <2>2. A!Key(e).status = e.status
      BY DEF A!Key
    <2>3. QED
      BY <1>9, <2>1, <2>2
  <1>11. ASSUME A!Cardinality(r.sources) > 1
         PROVE  c.plan.found /\ ~c.plan.fanout /\ "many_to_many" \notin c.plan.cardinalities
    <2>1. rule = "repeated_join_path"
      BY <1>4, <1>5, <1>9, <1>11
    <2>2. A!_join_guardrails(c) = {}
      BY <1>6, <2>1
    <2>3. c.plan.found
      BY <2>2 DEF A!_join_guardrails
    <2>4. /\ {<<"unsafe_cardinality", j>> : j \in {j \in c.plan.cardinalities : j \in {"unknown", "many_to_many"}}} = {}
          /\ (IF c.plan.fanout THEN {<<"unsafe_fanout", "plan">>} ELSE {}) = {}
      BY <2>2, <2>3 DEF A!_join_guardrails
    <2>5. ~c.plan.fanout
      BY <2>4
    <2>6. "many_to_many" \notin c.plan.cardinalities
      BY <2>4
    <2>7. QED
      BY <2>3, <2>5, <2>6
  <1>12. QED
    BY <1>4, <1>7, <1>8, <1>10, <1>11

------------------------------------------------------------------------------
(* Outcomes, for any history.                                               *)

\* The evidence in which one query after the delivery took longer.
SlowerEvidence(in) ==
    [i \in DOMAIN in.evidence |->
        IF i = in.at /\ in.evidence[i].ms # A!None /\ in.evidence[i].at >= in.delivered
        THEN [in.evidence[i] EXCEPT !.ms = @ + in.by] ELSE in.evidence[i]]

\* It differs in nothing else.
LEMMA SlowerInPlace ==
    ASSUME NEW in, OutcomeDomain(in), NEW i \in DOMAIN in.evidence
    PROVE  LET r == in.evidence[i]  s == SlowerEvidence(in)[i]
           IN  /\ s \in EvidenceRow
               /\ s.id = r.id /\ s.at = r.at /\ s.env = r.env /\ s.status = r.status
               /\ s.models = r.models /\ s.metrics = r.metrics /\ s.filters = r.filters
               /\ s.ms = A!None <=> r.ms = A!None
               /\ r.ms # A!None => r.ms \in Nat /\ s.ms \in Nat /\ r.ms <= s.ms
               /\ r.at < in.delivered => s = r
  <1> DEFINE r == in.evidence[i]
             s == SlowerEvidence(in)[i]
  <1>1. r \in EvidenceRow /\ in.by \in Nat /\ in.delivered \in Nat
    BY DEF OutcomeDomain
  <1>2. s = IF i = in.at /\ r.ms # A!None /\ r.at >= in.delivered THEN [r EXCEPT !.ms = @ + in.by] ELSE r
    BY DEF SlowerEvidence
  <1> HIDE DEF r, s
  <1>3. r.at \in Nat /\ r.ms \in Nat \union {A!None} /\ A!None = -1
    BY <1>1 DEF EvidenceRow, A!None
  <1>4. CASE i = in.at /\ r.ms # A!None /\ r.at >= in.delivered
    <2>1. s = [r EXCEPT !.ms = @ + in.by]
      BY <1>2, <1>4
    <2>2. r.ms + in.by \in Nat /\ r.ms <= r.ms + in.by /\ r.ms \in Nat
      BY <1>1, <1>3, <1>4
    <2>3. /\ s \in EvidenceRow /\ s.ms = r.ms + in.by
          /\ s.id = r.id /\ s.at = r.at /\ s.env = r.env /\ s.status = r.status
          /\ s.models = r.models /\ s.metrics = r.metrics /\ s.filters = r.filters
      BY <1>1, <2>1, <2>2 DEF EvidenceRow
    <2>4. ~(r.at < in.delivered)
      BY <1>1, <1>3, <1>4
    <2>5. s.ms # A!None
      BY <1>3, <2>2, <2>3
    <2>6. QED
      BY <1>4, <2>2, <2>3, <2>4, <2>5 DEF r, s
  <1>5. CASE ~(i = in.at /\ r.ms # A!None /\ r.at >= in.delivered)
    <2>1. s = r
      BY <1>2, <1>5
    <2>2. r.ms # A!None => r.ms \in Nat /\ r.ms <= r.ms
      BY <1>3
    <2>3. QED
      BY <1>1, <2>1, <2>2 DEF r, s
  <1>6. QED
    BY <1>4, <1>5

\* An event and the same one in the slower history.
Delayed(e, f, delivered) ==
    /\ f.id = e.id /\ f.at = e.at /\ f.env = e.env /\ f.status = e.status /\ f.fingerprint = e.fingerprint
    /\ f.ms = A!None <=> e.ms = A!None
    /\ e.ms # A!None => e.ms \in Nat /\ f.ms \in Nat /\ e.ms <= f.ms
    /\ e.at < delivered => f = e

\* Both histories have the same events, one by one.
LEMMA SlowerStore ==
    ASSUME NEW in, OutcomeDomain(in)
    PROVE  \E h \in [A!Stored(in.evidence) -> A!Stored(SlowerEvidence(in))] :
              /\ \A e, f \in A!Stored(in.evidence) : h[e] = h[f] => e = f
              /\ \A f \in A!Stored(SlowerEvidence(in)) : \E e \in A!Stored(in.evidence) : h[e] = f
              /\ \A e \in A!Stored(in.evidence) : Delayed(e, h[e], in.delivered)
  <1> DEFINE a == in.evidence
             b == SlowerEvidence(in)
             S == A!Stored(a)
             T == A!Stored(b)
             I == Fresh(a)
  <1>1. a \in Seq(EvidenceRow) /\ DOMAIN b = DOMAIN a
    BY DEF OutcomeDomain, SlowerEvidence
  <1>2. \A i \in DOMAIN a : b[i] \in EvidenceRow /\ b[i].id = a[i].id
    BY SlowerInPlace
  <1>3. b \in Seq(EvidenceRow)
    <2>1. DOMAIN b = 1..Len(a) /\ Len(a) \in Nat
      BY <1>1
    <2>2. b = [i \in 1..Len(a) |-> b[i]]
      BY <2>1 DEF SlowerEvidence
    <2>3. b \in [1..Len(a) -> EvidenceRow]
      BY <1>1, <1>2, <2>1, <2>2
    <2>4. QED
      BY <2>1, <2>3, SeqDef
  <1>4. Fresh(b) = I
    <2>1. \A i \in DOMAIN a : \A j \in 1..(i - 1) : j \in DOMAIN a
      BY <1>1
    <2>2. ASSUME NEW i \in DOMAIN a
          PROVE  (\A j \in 1..(i - 1) : b[j].id # b[i].id) <=> (\A j \in 1..(i - 1) : a[j].id # a[i].id)
      <3>1. \A j \in 1..(i - 1) : b[j].id = a[j].id
        BY <1>2, <2>1
      <3>2. b[i].id = a[i].id
        BY <1>2
      <3> HIDE DEF b, a
      <3>3. QED
        BY <3>1, <3>2
    <2> HIDE DEF b, a
    <2>3. QED
      BY <1>1, <2>2 DEF Fresh, I
  <1>5. ASSUME NEW i \in I
        PROVE  EventOf(a, i) \in S /\ EventOf(b, i) \in T /\ Delayed(EventOf(a, i), EventOf(b, i), in.delivered)
    <2>1. i \in DOMAIN a /\ i \in DOMAIN b
      BY <1>1 DEF Fresh
    <2>2. EventOf(a, i) \in S /\ EventOf(b, i) \in T
      BY <1>1, <1>3, <1>4, StoredFrom
    <2>3. /\ b[i].id = a[i].id /\ b[i].at = a[i].at /\ b[i].env = a[i].env /\ b[i].status = a[i].status
          /\ b[i].models = a[i].models /\ b[i].metrics = a[i].metrics /\ b[i].filters = a[i].filters
          /\ b[i].ms = A!None <=> a[i].ms = A!None
          /\ a[i].ms # A!None => a[i].ms \in Nat /\ b[i].ms \in Nat /\ a[i].ms <= b[i].ms
          /\ a[i].at < in.delivered => b[i] = a[i]
      BY <2>1, SlowerInPlace
    <2> HIDE DEF a, b
    <2>4. a[i].at < in.delivered => EventOf(b, i) = EventOf(a, i)
      BY <2>3 DEF EventOf
    <2>5. EventOf(b, i).fingerprint = EventOf(a, i).fingerprint
      BY <2>3 DEF EventOf, A!usage_event_from_evidence
    <2>6. /\ EventOf(a, i).id = a[i].id /\ EventOf(a, i).at = a[i].at /\ EventOf(a, i).env = a[i].env
          /\ EventOf(a, i).status = a[i].status /\ EventOf(a, i).ms = a[i].ms
          /\ EventOf(b, i).id = b[i].id /\ EventOf(b, i).at = b[i].at /\ EventOf(b, i).env = b[i].env
          /\ EventOf(b, i).status = b[i].status /\ EventOf(b, i).ms = b[i].ms
      BY DEF EventOf, A!usage_event_from_evidence
    <2>7. QED
      BY <2>2, <2>3, <2>4, <2>5, <2>6 DEF Delayed
  <1>6. S = {EventOf(a, i) : i \in I} /\ T = {EventOf(b, i) : i \in I}
    BY <1>1, <1>3, <1>4, StoredFrom
  <1>7. (\A e, f \in S : e.id = f.id => e = f) /\ (\A e, f \in T : e.id = f.id => e = f)
    BY <1>1, <1>3, StoreIsSound
  <1> HIDE DEF S, T, I, a, b
  <1>8. \A e \in S : \E f \in T : Delayed(e, f, in.delivered)
    BY <1>5, <1>6
  <1>9. \A f \in T : \E e \in S : Delayed(e, f, in.delivered)
    BY <1>5, <1>6
  <1> DEFINE h == [e \in S |-> CHOOSE f \in T : Delayed(e, f, in.delivered)]
  <1>10. \A e \in S : h[e] \in T /\ Delayed(e, h[e], in.delivered)
    BY <1>8
  <1>11. h \in [S -> T]
    BY <1>10
  <1> HIDE DEF h
  <1>12. \A e, f \in S : h[e] = h[f] => e = f
    BY <1>7, <1>10 DEF Delayed
  <1>13. \A f \in T : \E e \in S : h[e] = f
    <2> SUFFICES ASSUME NEW f \in T
                 PROVE  \E e \in S : h[e] = f
      OBVIOUS
    <2>1. PICK e \in S : Delayed(e, f, in.delivered)
      BY <1>9
    <2>2. h[e].id = f.id
      BY <1>10, <2>1 DEF Delayed
    <2>3. QED
      BY <1>7, <1>10, <2>2
  <1>14. QED
    BY <1>10, <1>11, <1>12, <1>13 DEF S, T, a, b

\* More of the same, but slower, is not judged better.
LEMMA VerdictFalls ==
    ASSUME NEW before, NEW after, NEW slower, SettingsDomain,
           slower.count = after.count, slower.failed = after.failed, slower.points = after.points,
           A!_sufficient(before) => before.percentile \in Nat,
           A!_sufficient(after) => after.percentile \in Nat /\ slower.percentile \in Nat
                                     /\ after.percentile <= slower.percentile
    PROVE  A!Rank[A!Verdict(before, slower)] <= A!Rank[A!Verdict(before, after)]
  <1>1. /\ A!Rank["regressed"] = 1 /\ A!Rank["inconclusive"] = 2 /\ A!Rank["improved"] = 3
    BY DEF A!Rank
  <1> DEFINE low == before.percentile * (10 + AdviceSettings.ratio)
             high == before.percentile * (10 - AdviceSettings.ratio)
             enough == A!_sufficient(before) /\ A!_sufficient(after)
             fails == A!FailsMore(before, after)
             s(x) == A!Slower(before.percentile, x)
             f(x) == A!Faster(before.percentile, x)
             V1(x) == IF ~enough THEN "inconclusive"
                      ELSE IF s(x) \/ fails THEN "regressed" ELSE IF f(x) THEN "improved" ELSE "inconclusive"
  <1>2. A!_sufficient(slower) = A!_sufficient(after) /\ A!FailsMore(before, slower) = A!FailsMore(before, after)
    BY DEF A!_sufficient, A!FailsMore
  <1>3. A!Verdict(before, after) = V1(after.percentile) /\ A!Verdict(before, slower) = V1(slower.percentile)
    BY <1>2 DEF A!Verdict
  <1>4. ASSUME enough
        PROVE  /\ s(after.percentile) => s(slower.percentile)
               /\ f(slower.percentile) => f(after.percentile)
    <2>1. /\ before.percentile \in Nat /\ after.percentile \in Nat /\ slower.percentile \in Nat
          /\ after.percentile <= slower.percentile
      BY <1>4
    <2>2. low \in Int /\ high \in Int
      BY <2>1 DEF SettingsDomain
    <2>3. /\ s(after.percentile) <=> IF before.percentile = 0 THEN after.percentile > 0 ELSE 10 * after.percentile >= low
          /\ s(slower.percentile) <=> IF before.percentile = 0 THEN slower.percentile > 0 ELSE 10 * slower.percentile >= low
          /\ f(after.percentile) <=> before.percentile # 0 /\ 10 * after.percentile <= high
          /\ f(slower.percentile) <=> before.percentile # 0 /\ 10 * slower.percentile <= high
      BY DEF A!Slower, A!Faster
    <2> HIDE DEF low, high, s, f
    <2>4. /\ after.percentile > 0 => slower.percentile > 0
          /\ 10 * after.percentile >= low => 10 * slower.percentile >= low
          /\ 10 * slower.percentile <= high => 10 * after.percentile <= high
      BY <2>1, <2>2
    <2>5. QED
      BY <2>3, <2>4, Zenon
  <1> HIDE DEF enough, fails, s, f
  <1>5. QED
    BY <1>1, <1>3, <1>4

\* A group of measured events has a percentile.
LEMMA MeasuredPercentile ==
    ASSUME NEW events, IsFiniteSet(events), \A e \in events : e.ms \in Nat \union {A!None},
           SettingsDomain, A!_sufficient(A!_metrics(events))
    PROVE  /\ A!Measured(events) # {}
           /\ A!_metrics(events).percentile = A!nearest_rank_percentile(A!Measured(events), AdviceSettings.percentile)
           /\ A!_metrics(events).percentile \in Nat
  <1> DEFINE timed == A!Measured(events)
  <1>1. A!_metrics(events).points = Cardinality(timed)
    BY SameAdviceCount DEF A!_metrics
  <1>2. Cardinality(timed) >= AdviceSettings.minPoints
    BY <1>1 DEF A!_sufficient
  <1>3. timed \subseteq events /\ \A e \in timed : e.ms \in Nat
    BY DEF A!Measured, A!None
  <1>4. IsFiniteSet(timed)
    BY <1>3, FS_Subset
  <1>5. timed # {}
    <2> SUFFICES ASSUME timed = {}
                 PROVE  FALSE
      OBVIOUS
    <2>1. Cardinality(timed) = 0
      BY FS_EmptySet
    <2>2. QED
      BY <1>2, <2>1 DEF SettingsDomain
  <1>6. A!_metrics(events).percentile = A!nearest_rank_percentile(timed, AdviceSettings.percentile)
    BY <1>5 DEF A!_metrics
  <1> HIDE DEF timed
  <1>7. A!nearest_rank_percentile(timed, AdviceSettings.percentile) \in Nat
    BY <1>3, <1>4, <1>5, NearestRank DEF SettingsDomain
  <1>8. QED
    BY <1>5, <1>6, <1>7 DEF timed

\* The two sides of a delivery, in a history and in a slower one.
LEMMA SlowerSides ==
    ASSUME NEW S, NEW T, IsFiniteSet(S), \A e \in S : e.ms \in Nat \union {A!None} /\ e.at \in Nat,
           NEW h \in [S -> T], \A e, f \in S : h[e] = h[f] => e = f, \A f \in T : \E e \in S : h[e] = f,
           NEW delivered \in Nat, \A e \in S : Delayed(e, h[e], delivered),
           NEW C, C \subseteq S, NEW D, D \subseteq T, \A e \in S : e \in C <=> h[e] \in D,
           NEW start, NEW now, SettingsDomain
    PROVE  LET before == A!_metrics(A!Before(C, start, delivered))
               after == A!_metrics(A!After(C, delivered, now))
               slower == A!_metrics(A!After(D, delivered, now))
           IN  /\ A!Before(D, start, delivered) = A!Before(C, start, delivered)
               /\ A!Rank[A!Verdict(before, slower)] <= A!Rank[A!Verdict(before, after)]
  <1> DEFINE b == A!Before(C, start, delivered)
             a == A!After(C, delivered, now)
             z == A!After(D, delivered, now)
             before == A!_metrics(b)
             after == A!_metrics(a)
             slower == A!_metrics(z)
             failed(events) == {e \in events : e.status = "failed"}
  <1>1. A!Before(D, start, delivered) = b
    <2>1. ASSUME NEW e \in b
          PROVE  e \in A!Before(D, start, delivered)
      <3>1. e \in C /\ e \in S /\ start <= e.at /\ e.at < delivered
        BY DEF A!Before
      <3>2. h[e] = e
        BY <3>1 DEF Delayed
      <3>3. e \in D
        BY <3>1, <3>2
      <3>4. QED
        BY <3>1, <3>3 DEF A!Before
    <2>2. ASSUME NEW f \in A!Before(D, start, delivered)
          PROVE  f \in b
      <3>1. f \in D /\ f \in T /\ start <= f.at /\ f.at < delivered
        BY DEF A!Before
      <3>2. PICK e \in S : h[e] = f
        BY <3>1
      <3>3. f = e
        BY <3>1, <3>2 DEF Delayed
      <3>4. f \in C
        BY <3>1, <3>2, <3>3
      <3>5. QED
        BY <3>1, <3>4 DEF A!Before
    <2>3. QED
      BY <2>1, <2>2
  <1>2. /\ a \subseteq S /\ \A e \in a : h[e] \in z
        /\ \A f \in z : \E e \in a : h[e] = f
    <2>1. a \subseteq S
      BY DEF A!After
    <2>2. \A e \in a : h[e] \in z
      BY DEF A!After, Delayed
    <2>3. ASSUME NEW f \in z
          PROVE  \E e \in a : h[e] = f
      <3>1. f \in D /\ f \in T /\ delivered <= f.at /\ f.at <= now
        BY DEF A!After
      <3>2. PICK e \in S : h[e] = f
        BY <3>1
      <3>3. e \in C /\ e.at = f.at
        BY <3>1, <3>2 DEF Delayed
      <3>4. e \in a
        BY <3>1, <3>3 DEF A!After
      <3>5. QED
        BY <3>2, <3>4
    <2>4. QED
      BY <2>1, <2>2, <2>3
  <1>3. IsFiniteSet(a) /\ IsFiniteSet(b)
    <2>1. b \subseteq S
      BY DEF A!Before
    <2>2. QED
      BY <1>2, <2>1, FS_Subset
  <1>4. (\A e \in a : e.ms \in Nat \union {A!None}) /\ (\A e \in b : e.ms \in Nat \union {A!None})
    BY <1>2 DEF A!Before
  <1> HIDE DEF a, b, z
  <1>5. Cardinality(z) = Cardinality(a)
    BY <1>2, <1>3, CountIsKept
  <1>6. Cardinality(failed(z)) = Cardinality(failed(a))
    <2>1. failed(a) \subseteq S /\ IsFiniteSet(failed(a))
      BY <1>2, <1>3, FS_Subset
    <2>2. \A e \in a : h[e].status = e.status
      BY <1>2 DEF Delayed
    <2>3. (\A e \in failed(a) : h[e] \in failed(z)) /\ (\A f \in failed(z) : \E e \in failed(a) : h[e] = f)
      BY <1>2, <2>2
    <2> HIDE DEF failed
    <2>4. QED
      BY <2>1, <2>3, CountIsKept
  <1> DEFINE ta == A!Measured(a)
             tz == A!Measured(z)
  <1>7. /\ ta \subseteq S /\ IsFiniteSet(ta) /\ \A e \in ta : h[e] \in tz
        /\ \A f \in tz : \E e \in ta : h[e] = f
        /\ \A e \in ta : e.ms \in Nat /\ h[e].ms \in Nat /\ e.ms <= h[e].ms
    <2>1. ta \subseteq a
      BY DEF A!Measured
    <2>2. ta \subseteq S /\ IsFiniteSet(ta)
      BY <1>2, <1>3, <2>1, FS_Subset
    <2>3. \A e \in a : h[e].status = e.status /\ (h[e].ms = A!None <=> e.ms = A!None)
      BY <1>2 DEF Delayed
    <2>4. (\A e \in ta : h[e] \in tz) /\ (\A f \in tz : \E e \in ta : h[e] = f)
      BY <1>2, <2>3 DEF A!Measured
    <2>5. \A e \in ta : e.ms # A!None
      BY DEF A!Measured
    <2>6. \A e \in ta : e.ms \in Nat /\ h[e].ms \in Nat /\ e.ms <= h[e].ms
      BY <2>2, <2>5 DEF Delayed
    <2>7. QED
      BY <2>2, <2>4, <2>6
  <1> HIDE DEF ta, tz
  <1>8. Cardinality(tz) = Cardinality(ta)
    BY <1>7, CountIsKept
  <1>9. slower.count = after.count /\ slower.failed = after.failed /\ slower.points = after.points
    BY <1>5, <1>6, <1>8, SameAdviceCount DEF A!_metrics, ta, tz
  <1>10. A!_sufficient(before) => before.percentile \in Nat
    BY <1>3, <1>4, MeasuredPercentile
  <1>11. ASSUME A!_sufficient(after)
         PROVE  after.percentile \in Nat /\ slower.percentile \in Nat /\ after.percentile <= slower.percentile
    <2>1. ta # {} /\ after.percentile = A!nearest_rank_percentile(ta, AdviceSettings.percentile)
      BY <1>3, <1>4, <1>11, MeasuredPercentile DEF ta
    <2>2. tz # {}
      BY <1>7, <2>1
    <2>3. slower.percentile = A!nearest_rank_percentile(tz, AdviceSettings.percentile)
      BY <2>2 DEF A!_metrics, tz
    <2>4. AdviceSettings.percentile \in 0..100
      BY DEF SettingsDomain
    <2> HIDE DEF after, slower
    <2>5. /\ A!nearest_rank_percentile(ta, AdviceSettings.percentile) \in Nat
          /\ A!nearest_rank_percentile(tz, AdviceSettings.percentile) \in Nat
          /\ A!nearest_rank_percentile(ta, AdviceSettings.percentile)
                <= A!nearest_rank_percentile(tz, AdviceSettings.percentile)
      BY <1>7, <2>1, <2>4, PercentileGrows
    <2>6. QED
      BY <2>1, <2>3, <2>5
  <1> HIDE DEF before, after, slower
  <1>12. A!Rank[A!Verdict(before, slower)] <= A!Rank[A!Verdict(before, after)]
    BY <1>9, <1>10, <1>11, VerdictFalls
  <1>13. QED
    BY <1>1, <1>12 DEF a, b, z, before, after, slower

\* Slower queries after a delivery never make it look better.
LEMMA SlowerNeverLooksAnyBetter ==
    ASSUME NEW in, OutcomeDomain(in), SettingsDomain
    PROVE  A!SlowerNeverLooksBetter(in)
  <1> DEFINE S == A!Stored(in.evidence)
             T == A!Stored(SlowerEvidence(in))
             ids == {in.evidence[1].id}
             start == IF in.delivered < AdviceSettings.window THEN 0 ELSE in.delivered - AdviceSettings.window
             read(s) == {e \in s : e.id \in ids /\ e.at <= in.now}
             parts(s) == {<<e.env, e.fingerprint>> : e \in read(s)}
             match(s) == {e \in s : <<e.env, e.fingerprint>> \in parts(s)}
             answer(s) == A!evaluate(ids, s, in.delivered, in.now)
             judged(s) == A!Verdict(A!_metrics(A!Before(match(s), start, in.delivered)),
                                    A!_metrics(A!After(match(s), in.delivered, in.now)))
  <1> SUFFICES ASSUME answer(S) # "error"
               PROVE  A!Rank[answer(T)] <= A!Rank[answer(S)]
    BY DEF A!SlowerNeverLooksBetter, SlowerEvidence
  <1>1. \A s \in {S, T} : answer(s) = IF in.delivered > in.now THEN "error"
                                      ELSE IF read(s) = {} THEN "inconclusive"
                                      ELSE IF A!Cardinality(parts(s)) # 1 THEN "error" ELSE judged(s)
    BY DEF A!evaluate
  <1>2. in.evidence \in Seq(EvidenceRow) /\ in.delivered \in Nat
    BY DEF OutcomeDomain
  <1>3. IsFiniteSet(S) /\ \A e \in S : e.ms \in Nat \union {A!None} /\ e.at \in Nat
    BY <1>2, StoreIsSound
  <1>4. PICK h \in [S -> T] : /\ \A e, f \in S : h[e] = h[f] => e = f
                              /\ \A f \in T : \E e \in S : h[e] = f
                              /\ \A e \in S : Delayed(e, h[e], in.delivered)
    BY SlowerStore
  <1> HIDE DEF S, T, answer, judged, ids
  <1>5. \A e \in S : /\ h[e].id = e.id /\ h[e].at = e.at
                     /\ h[e].env = e.env /\ h[e].fingerprint = e.fingerprint
    BY <1>4 DEF Delayed
  <1>6. /\ \A e \in S : e \in read(S) <=> h[e] \in read(T)
        /\ \A f \in read(T) : \E e \in read(S) : h[e] = f
    BY <1>4, <1>5
  <1>7. parts(T) = parts(S) /\ (read(T) = {} <=> read(S) = {})
    <2>1. \A e \in read(S) : e \in S
      OBVIOUS
    <2> HIDE DEF read
    <2>2. \A x \in parts(S) : x \in parts(T)
      <3>1. \A e \in read(S) : h[e] \in read(T) /\ h[e].env = e.env /\ h[e].fingerprint = e.fingerprint
        BY <1>5, <1>6, <2>1
      <3>2. QED
        BY <3>1
    <2>3. \A x \in parts(T) : x \in parts(S)
      <3>1. \A f \in read(T) : \E e \in read(S) : f.env = e.env /\ f.fingerprint = e.fingerprint
        BY <1>5, <1>6, <2>1
      <3>2. QED
        BY <3>1
    <2>4. read(T) = {} <=> read(S) = {}
      BY <1>6, <2>1
    <2>5. QED
      BY <2>2, <2>3, <2>4
  <1>8. match(S) \subseteq S /\ match(T) \subseteq T /\ \A e \in S : e \in match(S) <=> h[e] \in match(T)
    <2> HIDE DEF parts
    <2>1. QED
      BY <1>4, <1>5, <1>7
  <1> HIDE DEF match, parts, read, start
  <1>9. /\ A!Before(match(T), start, in.delivered) = A!Before(match(S), start, in.delivered)
        /\ A!Rank[A!Verdict(A!_metrics(A!Before(match(S), start, in.delivered)), A!_metrics(A!After(match(T), in.delivered, in.now)))]
              <= A!Rank[A!Verdict(A!_metrics(A!Before(match(S), start, in.delivered)), A!_metrics(A!After(match(S), in.delivered, in.now)))]
    BY <1>2, <1>3, <1>4, <1>8, SlowerSides
  <1>10. A!Rank[judged(T)] <= A!Rank[judged(S)]
    BY <1>9 DEF judged
  <1>11. ~(in.delivered > in.now) /\ (read(S) # {} => A!Cardinality(parts(S)) = 1)
    BY <1>1
  <1>12. answer(S) = (IF read(S) = {} THEN "inconclusive" ELSE judged(S))
    BY <1>1, <1>11
  <1>13. answer(T) = (IF read(S) = {} THEN "inconclusive" ELSE judged(T))
    BY <1>1, <1>7, <1>11
  <1>14. A!Rank["inconclusive"] <= A!Rank["inconclusive"]
    BY DEF A!Rank
  <1>15. QED
    BY <1>10, <1>12, <1>13, <1>14

------------------------------------------------------------------------------
(* The answers, for any inputs.                                             *)

\* Whether an alert has recipients is known.
ReportDomain(in) == in.config.recipients \in BOOLEAN

\* A family of pipelines, each with any of its tables.
FamilyDomain(family) ==
    \A s \in family.schemas, d \in family.data : K!PipelineDomain([schema |-> s, data |-> d])

\* The inputs are of the kind that the callers of the code pass, whatever their
\* number and size.  Nothing is assumed of a declaration, of its arguments, of
\* a token, of a report, of what a platform grants or of what a model answers.
ASSUME GovernanceAssumption ==
    /\ MaxSchemaDepth \in Nat
    /\ Hard.page \in Nat /\ Hard.rows \in Nat /\ Hard.filters \in Nat /\ Hard.length \in Nat
    /\ \A in \in PreconditionInputs : PreconditionDomain(in)
    /\ \A in \in ConfigInputs : ConfigDomain(in)
    /\ \A in \in QueryInputs : QueryDomain(in)
    /\ \A in \in ToolInputs : ToolDomain(in)
    /\ \A in \in ResourceInputs : ResourceDomain(in)
    /\ \A in \in PageInputs : PageDomain(in)
    /\ \A in \in RowInputs : RowDomain(in)
    /\ \A in \in DatasetInputs : DatasetDomain(in)
    /\ \A in \in SetupInputs : SetupDomain(in)
    /\ \A in \in StoreInputs : StoreDomain(in)
    /\ \A in \in RouteInputs : RouteDomain(in)
    /\ \A in \in ExportInputs : ExportDomain(in)
    /\ \A in \in AttributeInputs : AttributeDomain(in)
    /\ \A in \in ReportInputs : ReportDomain(in)
    /\ SettingsDomain
    /\ \A in \in AdviceInputs : AdviceDomain(in)
    /\ \A in \in OutcomeInputs : OutcomeDomain(in)
    /\ \A in \in JudgementInputs : K!JudgementDomain(in)
    /\ \A in \in ChronologyInputs : K!ChronologyDomain(in)
    /\ \A in \in EvaluationInputs : K!EvaluationDomain(in)
    /\ \A in \in DriftInputs : K!DriftDomain(in)
    /\ \A in \in SchemaInputs : K!SchemaDomain(in)
    /\ \A in \in RollupInputs : K!RollupDomain(in)
    /\ \A in \in LayoutInputs : K!LayoutDomain(in)
    /\ \A in \in OutputInputs : K!LayoutDomain(in)
    /\ \A in \in BlockInputs : K!BlockDomain(in)
    /\ \A in \in FileInputs : K!FileDomain(in)
    /\ \A family \in PipelineInputs : FamilyDomain(family)
    /\ \A in \in CheckInputs : K!CheckDomain(in)
    /\ \A in \in VolumeInputs : K!VolumeDomain(in)
    /\ \A s \in Versions : K!FieldsDomain(s)
    /\ \A s \in Travellers : K!TravellerDomain(s)
    /\ \A d \in Documents : K!DocumentDomain(d)

\* What is asked is an input of its decision.
SurfaceAsked ==
    /\ About("config") => case.in \in ConfigInputs
    /\ About("query") => case.in \in QueryInputs
    /\ About("tools") => case.in \in ToolInputs
    /\ About("resource") => case.in \in ResourceInputs
    /\ About("pages") => case.in \in PageInputs
    /\ About("rows") => case.in \in RowInputs
    /\ About("dataset") => case.in \in DatasetInputs
    /\ About("preconditions") => case.in \in PreconditionInputs
EngineAsked ==
    /\ About("setup") => case.in \in SetupInputs
    /\ About("sandbox") => case.in \in StoreInputs
    /\ About("route") => case.in \in RouteInputs
SideAsked ==
    /\ About("export") => case.in \in ExportInputs
    /\ About("attributes") => case.in \in AttributeInputs
    /\ About("report") => case.in \in ReportInputs
AdviceAsked ==
    /\ About("advice") => case.in \in AdviceInputs
    /\ About("outcome") => case.in \in OutcomeInputs
CandidateAsked ==
    /\ About("judgement") => case.in \in JudgementInputs
    /\ About("proposal") => case.in \in AnswerInputs
    /\ About("chronology") => case.in \in ChronologyInputs
    /\ About("evaluation") => case.in \in EvaluationInputs
    /\ About("drift") => case.in \in DriftInputs
    /\ About("schema") => case.in \in SchemaInputs
    /\ About("rollup") => case.in \in RollupInputs
QualityAsked ==
    /\ About("checks") => case.in \in CheckInputs
    /\ About("volumes") => case.in \in VolumeInputs
    /\ About("versions") => case.in.old \in Versions /\ case.in.new \in Versions
    /\ About("odcs") => case.in.schema \in Travellers
    /\ About("document") => case.in.doc \in Documents
PipelineOfFamily(in, family) ==
    in.schema \in family.schemas /\ in.data \in family.data /\ in = [schema |-> in.schema, data |-> in.data]
DocumentAsked ==
    /\ About("ops") => case.in \in OpInputs
    /\ About("layout") => case.in \in LayoutInputs \union OutputInputs
    /\ About("materialization") => case.in \in BlockInputs
    /\ About("files") => case.in \in FileInputs
    /\ About("pipeline") => \E family \in PipelineInputs : PipelineOfFamily(case.in, family)
Asked ==
    /\ SurfaceAsked /\ EngineAsked /\ SideAsked /\ AdviceAsked
    /\ CandidateAsked /\ QualityAsked /\ DocumentAsked

\* A step asks for one decision about one input.
LEMMA OneDecision ==
    ASSUME NEW about, NEW inputs, Ask(about, inputs)
    PROVE  case'.about = about /\ case'.in \in inputs
  <1>1. PICK in \in inputs : case' = [about |-> about, in |-> in]
    BY DEF Ask
  <1>2. case'.about = about /\ case'.in = in
    BY <1>1
  <1>3. QED
    BY <1>2

\* The decisions that have no part in the theorems.
Others == {"none", "capability"}

\* They ask none of the inputs spoken of.
LEMMA OthersAskNothing ==
    /\ case.about \in Others => Asked
    /\ case'.about \in Others => Asked'
  BY DEF Asked, SurfaceAsked, EngineAsked, SideAsked, AdviceAsked, CandidateAsked, QualityAsked, DocumentAsked, About, Others

\* The machine asks only its inputs.
THEOREM OnlyInputsAreAsked == Spec => []Asked
  <1>1. Init => Asked
    <2> SUFFICES ASSUME Init PROVE Asked
      OBVIOUS
    <2>1. case.about = "none"
      BY DEF Init, None
    <2>2. QED
      BY <2>1, OthersAskNothing DEF Others
  <1>2. Asked /\ [Next]_case => Asked'
    <2> SUFFICES ASSUME Asked, [Next]_case PROVE Asked'
      OBVIOUS
    <2>1. CASE AskContract
      <3>1. CASE Ask("versions", {[old |-> a, new |-> b] : a \in Versions, b \in Versions})
        <4>1. case'.about = "versions" /\ case'.in \in {[old |-> a, new |-> b] : a \in Versions, b \in Versions}
          BY <3>1, OneDecision
        <4>2. case'.in.old \in Versions /\ case'.in.new \in Versions
          BY <4>1
        <4>3. QED
          BY <4>1, <4>2 DEF Asked, SurfaceAsked, EngineAsked, SideAsked, AdviceAsked, CandidateAsked, QualityAsked, DocumentAsked, About
      <3>2. CASE Ask("odcs", {[schema |-> s] : s \in Travellers})
        <4>1. case'.about = "odcs" /\ case'.in \in {[schema |-> s] : s \in Travellers}
          BY <3>2, OneDecision
        <4>2. case'.in.schema \in Travellers
          BY <4>1
        <4>3. QED
          BY <4>1, <4>2 DEF Asked, SurfaceAsked, EngineAsked, SideAsked, AdviceAsked, CandidateAsked, QualityAsked, DocumentAsked, About
      <3>3. CASE Ask("document", {[doc |-> d] : d \in Documents})
        <4>1. case'.about = "document" /\ case'.in \in {[doc |-> d] : d \in Documents}
          BY <3>3, OneDecision
        <4>2. case'.in.doc \in Documents
          BY <4>1
        <4>3. QED
          BY <4>1, <4>2 DEF Asked, SurfaceAsked, EngineAsked, SideAsked, AdviceAsked, CandidateAsked, QualityAsked, DocumentAsked, About
      <3>4. QED
        BY <2>1, <3>1, <3>2, <3>3 DEF AskContract
    <2>2. CASE AskCapability
      <3>1. case'.about = "capability" \/ (case'.about = "preconditions" /\ case'.in \in PreconditionInputs)
        BY <2>2, OneDecision DEF AskCapability
      <3>2. QED
        BY <3>1 DEF Asked, SurfaceAsked, EngineAsked, SideAsked, AdviceAsked, CandidateAsked, QualityAsked, DocumentAsked, About
    <2>3. CASE AskMcp
      <3>1. \/ case'.about = "config" /\ case'.in \in ConfigInputs
            \/ case'.about = "query" /\ case'.in \in QueryInputs
            \/ case'.about = "tools" /\ case'.in \in ToolInputs
            \/ case'.about = "resource" /\ case'.in \in ResourceInputs
            \/ case'.about = "pages" /\ case'.in \in PageInputs
            \/ case'.about = "rows" /\ case'.in \in RowInputs
            \/ case'.about = "dataset" /\ case'.in \in DatasetInputs
        BY <2>3, OneDecision DEF AskMcp
      <3>2. QED
        BY <3>1 DEF Asked, SurfaceAsked, EngineAsked, SideAsked, AdviceAsked, CandidateAsked, QualityAsked, DocumentAsked, About
    <2>4. CASE AskCandidate
      <3>1. \/ case'.about = "judgement" /\ case'.in \in JudgementInputs
            \/ case'.about = "proposal" /\ case'.in \in AnswerInputs
            \/ case'.about = "chronology" /\ case'.in \in ChronologyInputs
            \/ case'.about = "evaluation" /\ case'.in \in EvaluationInputs
            \/ case'.about = "drift" /\ case'.in \in DriftInputs
            \/ case'.about = "schema" /\ case'.in \in SchemaInputs
            \/ case'.about = "rollup" /\ case'.in \in RollupInputs
        BY <2>4, OneDecision DEF AskCandidate
      <3>2. QED
        BY <3>1 DEF Asked, SurfaceAsked, EngineAsked, SideAsked, AdviceAsked, CandidateAsked, QualityAsked, DocumentAsked, About
    <2>5. CASE AskAdaptive
      <3>1. \/ case'.about = "advice" /\ case'.in \in AdviceInputs
            \/ case'.about = "outcome" /\ case'.in \in OutcomeInputs
        BY <2>5, OneDecision DEF AskAdaptive
      <3>2. QED
        BY <3>1 DEF Asked, SurfaceAsked, EngineAsked, SideAsked, AdviceAsked, CandidateAsked, QualityAsked, DocumentAsked, About
    <2>6. CASE AskEngine
      <3>1. \/ case'.about = "setup" /\ case'.in \in SetupInputs
            \/ case'.about = "sandbox" /\ case'.in \in StoreInputs
            \/ case'.about = "route" /\ case'.in \in RouteInputs
        BY <2>6, OneDecision DEF AskEngine
      <3>2. QED
        BY <3>1 DEF Asked, SurfaceAsked, EngineAsked, SideAsked, AdviceAsked, CandidateAsked, QualityAsked, DocumentAsked, About
    <2>7. CASE AskTracing
      <3>1. \/ case'.about = "export" /\ case'.in \in ExportInputs
            \/ case'.about = "attributes" /\ case'.in \in AttributeInputs
        BY <2>7, OneDecision DEF AskTracing
      <3>2. QED
        BY <3>1 DEF Asked, SurfaceAsked, EngineAsked, SideAsked, AdviceAsked, CandidateAsked, QualityAsked, DocumentAsked, About
    <2>8. CASE AskQuality
      <3>1. \/ case'.about = "checks" /\ case'.in \in CheckInputs
            \/ case'.about = "report" /\ case'.in \in ReportInputs
            \/ case'.about = "volumes" /\ case'.in \in VolumeInputs
        BY <2>8, OneDecision DEF AskQuality
      <3>2. QED
        BY <3>1 DEF Asked, SurfaceAsked, EngineAsked, SideAsked, AdviceAsked, CandidateAsked, QualityAsked, DocumentAsked, About
    <2>9. CASE AskDocument
      <3>1. \/ case'.about = "ops" /\ case'.in \in OpInputs
            \/ case'.about = "layout" /\ case'.in \in LayoutInputs
            \/ case'.about = "layout" /\ case'.in \in OutputInputs
            \/ case'.about = "materialization" /\ case'.in \in BlockInputs
            \/ case'.about = "files" /\ case'.in \in FileInputs
        BY <2>9, OneDecision DEF AskDocument
      <3>2. \/ case'.about = "ops" /\ case'.in \in OpInputs
            \/ case'.about = "layout" /\ case'.in \in LayoutInputs \union OutputInputs
            \/ case'.about = "materialization" /\ case'.in \in BlockInputs
            \/ case'.about = "files" /\ case'.in \in FileInputs
        BY <3>1
      <3>3. QED
        BY <3>2 DEF Asked, SurfaceAsked, EngineAsked, SideAsked, AdviceAsked, CandidateAsked, QualityAsked, DocumentAsked, About
    <2>10. CASE AskPipeline
      <3>1. PICK family \in PipelineInputs : \E s \in family.schemas :
                Ask("pipeline", {[schema |-> s, data |-> d] : d \in family.data})
        BY <2>10 DEF AskPipeline
      <3>2. PICK s \in family.schemas : Ask("pipeline", {[schema |-> s, data |-> d] : d \in family.data})
        BY <3>1
      <3>3. case'.about = "pipeline" /\ case'.in \in {[schema |-> s, data |-> d] : d \in family.data}
        BY <3>2, OneDecision
      <3>4. PICK d \in family.data : case'.in = [schema |-> s, data |-> d]
        BY <3>3
      <3>5. PipelineOfFamily(case'.in, family)
        <4>1. case'.in.schema = s /\ case'.in.data = d
          BY <3>4
        <4>2. QED
          BY <3>2, <3>4, <4>1 DEF PipelineOfFamily
      <3>6. \E f \in PipelineInputs : PipelineOfFamily(case'.in, f)
        BY <3>5
      <3>7. QED
        BY <3>3, <3>6 DEF Asked, SurfaceAsked, EngineAsked, SideAsked, AdviceAsked, CandidateAsked, QualityAsked, DocumentAsked, About
    <2>11. CASE Done
      <3>1. case'.about = "none"
        BY <2>11 DEF Done, None
      <3>2. QED
        BY <3>1, OthersAskNothing DEF Others
    <2>12. CASE UNCHANGED case
      BY <2>12 DEF Asked, SurfaceAsked, EngineAsked, SideAsked, AdviceAsked, CandidateAsked, QualityAsked, DocumentAsked, About
    <2>13. QED
      BY <2>1, <2>2, <2>3, <2>4, <2>5, <2>6, <2>7, <2>8, <2>9, <2>10, <2>11, <2>12 DEF Next
  <1>3. QED
    BY <1>1, <1>2, PTL DEF Spec

\* An engine is of one environment, its sandbox keeps its tables and its
\* products are published, for any configuration, platform and pipeline.
THEOREM EngineIsAlwaysOneEnvironment == Spec => []EngineIsOneEnvironment
  <1>1. Asked => EngineIsOneEnvironment
    <2> SUFFICES ASSUME Asked PROVE EngineIsOneEnvironment
      OBVIOUS
    <2>1. ASSUME About("setup"),
                 NEW sources \in [file : {"", "bob"}, spark : {"", "eve"}, sdk : {""}, notebook : {""}, os : {"", "bob"}]
          PROVE  U!EngineIsOneEnvironment(case.in.config, case.in.access, case.in.force, case.in.signals,
                                          U!get_clean_username(sources), case.in.schema)
      <3>1. SetupDomain(case.in)
        BY <2>1, GovernanceAssumption DEF Asked, EngineAsked
      <3>2. U!get_clean_username(sources) # ""
        BY UserHasName
      <3>3. QED
        BY <3>1, <3>2, EngineHasOneEnvironment DEF SetupDomain
    <2>2. ASSUME About("setup")
          PROVE  U!DetectorsAgree(case.in.config, case.in.access)
      BY DetectorsAlwaysAgree
    <2>3. ASSUME About("sandbox")
          PROVE  U!SandboxKeepsItsTables(case.in.engine, case.in.store, case.in.missing, case.in.resolved)
      <3>1. StoreDomain(case.in)
        BY <2>3, GovernanceAssumption DEF Asked, EngineAsked
      <3>2. QED
        BY <3>1, SandboxAlwaysKeepsTables
    <2>4. ASSUME About("route")
          PROVE  U!ProductsArePublished(case.in.pattern, case.in.schema, case.in.engine)
      <3>1. RouteDomain(case.in)
        BY <2>4, GovernanceAssumption DEF Asked, EngineAsked
      <3>2. QED
        BY <3>1, ProductsAreAlwaysPublished
    <2>5. QED
      BY <2>1, <2>2, <2>3, <2>4 DEF EngineIsOneEnvironment
  <1>2. QED
    BY <1>1, OnlyInputsAreAsked, PTL

\* Tracing and alerting leave the work they observe alone, for any exporters,
\* attributes, reports and failing channels.
THEOREM SideChannelsAreAlwaysHarmless == Spec => []SideChannelsAreHarmless
  <1>1. Asked => SideChannelsAreHarmless
    <2> SUFFICES ASSUME Asked PROVE SideChannelsAreHarmless
      OBVIOUS
    <2>1. ASSUME About("export")
          PROVE  tx!ScopeKeepsBusinessOutcome(case.in.exporters, case.in.required, case.in.business)
      <3>1. ExportDomain(case.in)
        BY <2>1, GovernanceAssumption DEF Asked, SideAsked
      <3>2. QED
        BY <3>1, ScopeAlwaysKeepsOutcome DEF ExportDomain
    <2>2. ASSUME About("attributes")
          PROVE  tx!AttributesAreAllowed(case.in.policy, case.in.first, case.in.later)
      <3>1. AttributeDomain(case.in)
        BY <2>2, GovernanceAssumption DEF Asked, SideAsked
      <3>2. QED
        BY <3>1, AttributesAreAlwaysAllowed DEF AttributeDomain
    <2>3. ASSUME About("report")
          PROVE  K!EveryChannelIsTold(case.in.report, case.in.config, case.in.failing)
      <3>1. ReportDomain(case.in)
        BY <2>3, GovernanceAssumption DEF Asked, SideAsked
      <3>2. QED
        BY <3>1, K!EveryChannelIsAlwaysTold DEF ReportDomain
    <2>4. QED
      BY <2>1, <2>2, <2>3 DEF SideChannelsAreHarmless
  <1>2. QED
    BY <1>1, OnlyInputsAreAsked, PTL

\* An accepted capability is guarded, and what the MCP surface shows is what
\* it serves, for any declaration, call, registry and catalogue.
THEOREM AcceptedCapabilityIsAlwaysGuarded == Spec => []AcceptedCapabilityIsGuarded
  <1>1. Asked => AcceptedCapabilityIsGuarded
    <2> SUFFICES ASSUME Asked PROVE AcceptedCapabilityIsGuarded
      OBVIOUS
    <2>1. ASSUME About("config")
          PROVE  M!AcceptedConfigServes(case.in.config, case.in.transport, case.in.headers, case.in.claims, case.in.now)
      <3>1. ConfigDomain(case.in)
        BY <2>1, GovernanceAssumption DEF Asked, SurfaceAsked
      <3>2. QED
        BY <3>1, AcceptedConfigAlwaysServes DEF ConfigDomain
    <2>2. ASSUME About("query")
          PROVE  M!AdvertisedBoundsHold(case.in.ctx, case.in.args, case.in.limits)
      <3>1. QueryDomain(case.in)
        BY <2>2, GovernanceAssumption DEF Asked, SurfaceAsked
      <3>2. QED
        BY <3>1, GovernanceAssumption, AdvertisedBoundsAlwaysHold
    <2>3. ASSUME About("tools")
          PROVE  M!ListedToolsAreServed(case.in.ctx, case.in.registry, case.in.configured,
                                        {c.name : c \in case.in.registry} \union {"query"})
      <3>1. ToolDomain(case.in)
        BY <2>3, GovernanceAssumption DEF Asked, SurfaceAsked
      <3>2. QED
        BY <3>1, ListedToolsAreAlwaysServed DEF ToolDomain
    <2>4. ASSUME About("resource")
          PROVE  M!DiscoveryIsEnforced(case.in.ctx, case.in.uri, case.in.stored)
      <3>1. ResourceDomain(case.in)
        BY <2>4, GovernanceAssumption DEF Asked, SurfaceAsked
      <3>2. QED
        BY <3>1, DiscoveryIsAlwaysEnforced
    <2>5. ASSUME About("pages")
          PROVE  M!PagesListTheCatalog(case.in.catalogues, case.in.limit)
      <3>1. PageDomain(case.in)
        BY <2>5, GovernanceAssumption DEF Asked, SurfaceAsked
      <3>2. QED
        BY <3>1, PagesAlwaysListTheCatalog DEF PageDomain
    <2>6. ASSUME About("rows")
          PROVE  M!TruncationIsTold(case.in.result, case.in.limit)
      <3>1. RowDomain(case.in)
        BY <2>6, GovernanceAssumption DEF Asked, SurfaceAsked
      <3>2. Hard.page \in Nat
        BY GovernanceAssumption
      <3>3. QED
        BY <3>1, <3>2, TruncationIsAlwaysTold DEF RowDomain
    <2>7. ASSUME About("dataset")
          PROVE  M!AliasesAgree(case.in.entries)
      <3>1. DatasetDomain(case.in)
        BY <2>7, GovernanceAssumption DEF Asked, SurfaceAsked
      <3>2. QED
        BY <3>1, AliasesAlwaysAgree DEF DatasetDomain
    <2>8. ASSUME About("capability")
          PROVE  /\ V!AcceptedSchemaIsTotal(case.in) /\ V!WriteCallCarriesKey(case.in)
                 /\ V!IrreversibleIsNeverGuarded(case.in)
      <3>1. MaxSchemaDepth \in Nat
        BY GovernanceAssumption
      <3>2. QED
        BY <3>1, AcceptedSchemaIsAlwaysTotal, WriteCallAlwaysCarriesKey, IrreversibleIsAlwaysApproved
    <2>9. ASSUME About("preconditions")
          PROVE  V!PreconditionsFailClosed(case.in) /\ V!RecheckPinsTheState(case.in)
      <3>1. PreconditionDomain(case.in)
        BY <2>9, GovernanceAssumption DEF Asked, SurfaceAsked
      <3>2. QED
        BY <3>1, PreconditionsAlwaysFailClosed, RecheckAlwaysPinsTheState
    <2>10. QED
      BY <2>1, <2>2, <2>3, <2>4, <2>5, <2>6, <2>7, <2>8, <2>9 DEF AcceptedCapabilityIsGuarded
  <1>2. QED
    BY <1>1, OnlyInputsAreAsked, PTL

\* Advice rests on accepted evidence of one query, touches only safe sources
\* and is not praised for getting slower, for any history and settings.
THEOREM AdviceIsAlwaysBackedUp == Spec => []AdviceIsBackedUp
  <1>1. Asked => AdviceIsBackedUp
    <2> SUFFICES ASSUME Asked PROVE AdviceIsBackedUp
      OBVIOUS
    <2>1. SettingsDomain
      BY GovernanceAssumption
    <2>2. ASSUME About("advice")
          PROVE  /\ A!AggregatesAreAccepted(case.in) /\ A!AdviceCanBeEvaluated(case.in)
                 /\ A!PhysicalAdviceIsSafe(case.in)
      <3>1. AdviceDomain(case.in)
        BY <2>2, GovernanceAssumption DEF Asked, AdviceAsked
      <3>2. QED
        BY <2>1, <3>1, AggregatesAreAlwaysAccepted, AdviceCanAlwaysBeEvaluated, PhysicalAdviceIsAlwaysSafe
    <2>3. ASSUME About("outcome")
          PROVE  A!SlowerNeverLooksBetter(case.in)
      <3>1. OutcomeDomain(case.in)
        BY <2>3, GovernanceAssumption DEF Asked, AdviceAsked
      <3>2. QED
        BY <2>1, <3>1, SlowerNeverLooksAnyBetter
    <2>4. QED
      BY <2>2, <2>3 DEF AdviceIsBackedUp
  <1>2. QED
    BY <1>1, OnlyInputsAreAsked, PTL

\* Verdicts on candidates are sound, stored schemas are free of values and
\* cover their questions, and views show what the rows add up to, for any
\* proposals, evidence, histories, schemas and tables.
THEOREM CandidateVerdictIsAlwaysSound == Spec => []CandidateVerdictIsSound
  <1>1. Asked => CandidateVerdictIsSound
    <2> SUFFICES ASSUME Asked PROVE CandidateVerdictIsSound
      OBVIOUS
    <2>1. ASSUME About("judgement")
          PROVE  K!J!NoRouteWaivesSafety(case.in) /\ K!J!ValidatedIsBackedUp(case.in)
      <3>1. K!JudgementDomain(case.in)
        BY <2>1, GovernanceAssumption DEF Asked, CandidateAsked
      <3>2. QED
        BY <3>1, K!NoRouteEverWaivesSafety, K!ValidatedIsAlwaysBackedUp
    <2>2. K!J!AgentAnswerIsCoherent(case.in)
      BY K!AgentAnswerIsAlwaysCoherent
    <2>3. ASSUME About("chronology")
          PROVE  K!J!ChronologyFollowsChain(case.in)
      <3>1. K!ChronologyDomain(case.in)
        BY <2>3, GovernanceAssumption DEF Asked, CandidateAsked
      <3>2. QED
        BY <3>1, K!ChronologyAlwaysFollowsChain
    <2>4. ASSUME About("evaluation")
          PROVE  K!J!EvaluationAddsUp(case.in)
      <3>1. K!EvaluationDomain(case.in)
        BY <2>4, GovernanceAssumption DEF Asked, CandidateAsked
      <3>2. QED
        BY <3>1, K!EvaluationAlwaysAddsUp
    <2>5. ASSUME About("drift")
          PROVE  K!J!DriftIsARate(case.in)
      <3>1. K!DriftDomain(case.in)
        BY <2>5, GovernanceAssumption DEF Asked, CandidateAsked
      <3>2. QED
        BY <3>1, K!DriftIsAlwaysARate
    <2>6. ASSUME About("schema")
          PROVE  /\ K!J!NoValueIsStored(case.in) /\ K!J!FingerprintIgnoresValues(case.in)
                 /\ K!J!DefinitionCoversQuestion(case.in)
      <3>1. K!SchemaDomain(case.in)
        BY <2>6, GovernanceAssumption DEF Asked, CandidateAsked
      <3>2. QED
        BY <3>1, K!NoValueIsEverStored, K!FingerprintAlwaysIgnoresValues, K!DefinitionAlwaysCoversQuestion
    <2>7. ASSUME About("rollup")
          PROVE  K!J!RollupIsExact(case.in)
      <3>1. K!RollupDomain(case.in)
        BY <2>7, GovernanceAssumption DEF Asked, CandidateAsked
      <3>2. QED
        BY <3>1, K!RollupIsAlwaysExact
    <2>8. QED
      BY <2>1, <2>2, <2>3, <2>4, <2>5, <2>6, <2>7 DEF CandidateVerdictIsSound
  <1>2. QED
    BY <1>1, OnlyInputsAreAsked, PTL

\* What a pipeline enforced its checks confirm, verdicts agree, changes of
\* volume are seen, and contracts survive storage, versions and ODCS, for any
\* documents, rows, reports, runs and contracts.
THEOREM ChecksAlwaysConfirmTheOutput == Spec => []ChecksConfirmTheOutput
  <1>1. Asked => ChecksConfirmTheOutput
    <2> SUFFICES ASSUME Asked PROVE ChecksConfirmTheOutput
      OBVIOUS
    <2>1. ASSUME About("checks")
          PROVE  K!RowChecksHoldOnOutput(case.in.schema, case.in.rows)
      <3>1. K!CheckDomain(case.in)
        BY <2>1, GovernanceAssumption DEF Asked, QualityAsked
      <3>2. QED
        BY <3>1, K!RowChecksAlwaysHold
    <2>2. K!VerdictsAgree(case.in.report)
      BY K!VerdictsAlwaysAgree
    <2>3. ASSUME About("volumes")
          PROVE  K!VariationIsAgainstLastStored(case.in.runs)
      <3>1. K!VolumeDomain(case.in)
        BY <2>3, GovernanceAssumption DEF Asked, QualityAsked
      <3>2. QED
        BY <3>1, K!VariationIsAlwaysAgainstLastStored
    <2>4. ASSUME About("versions")
          PROVE  /\ K!DiffSurvivesStorage(case.in.old, case.in.new)
                 /\ \A c \in Versions : c.product = Absent \/ K!NonBreakingComposes(case.in.old, case.in.new, c)
      <3>1. K!FieldsDomain(case.in.old) /\ K!FieldsDomain(case.in.new) /\ \A c \in Versions : K!FieldsDomain(c)
        BY <2>4, GovernanceAssumption DEF Asked, QualityAsked
      <3>2. K!DiffSurvivesStorage(case.in.old, case.in.new)
        BY <3>1, K!DiffAlwaysSurvivesStorage
      <3>3. \A c \in Versions : K!NonBreakingComposes(case.in.old, case.in.new, c)
        BY <3>1, K!NonBreakingAlwaysComposes
      <3>4. QED
        BY <3>2, <3>3
    <2>5. ASSUME About("odcs")
          PROVE  K!OdcsRoundTrip(case.in.schema)
      <3>1. K!TravellerDomain(case.in.schema)
        BY <2>5, GovernanceAssumption DEF Asked, QualityAsked
      <3>2. QED
        BY <3>1, K!OdcsAlwaysRoundTrips
    <2>6. ASSUME About("document")
          PROVE  K!ImportIsLossAware(case.in.doc)
      <3>1. K!DocumentDomain(case.in.doc)
        BY <2>6, GovernanceAssumption DEF Asked, QualityAsked
      <3>2. QED
        BY <3>1, K!ImportIsAlwaysLossAware
    <2>7. QED
      BY <2>1, <2>2, <2>3, <2>4, <2>5, <2>6 DEF ChecksConfirmTheOutput
  <1>2. QED
    BY <1>1, OnlyInputsAreAsked, PTL

\* What the loader accepts is not refused later, for any operations, tables,
\* joins, promises and materializations; a file loads exactly when it reaches
\* no cycle of partials, for any files; and the view of a pipeline returns what
\* running it does, for any tables, filters, joins and outputs.
THEOREM LoadedPipelinesAlwaysRun == Spec => []LoadedPipelineRuns
  <1>1. Asked => LoadedPipelineRuns
    <2> SUFFICES ASSUME Asked PROVE LoadedPipelineRuns
      OBVIOUS
    <2>1. K!PS!LoadedOpsApply(case.in.ops)
      BY K!LoadedOpsAlwaysApply
    <2>2. ASSUME About("layout")
          PROVE  /\ K!PS!LoadedStreamStarts(case.in.schema) /\ K!PS!LoadedViewCompiles(case.in.schema)
                 /\ K!PS!PromisesAreProduced(case.in.schema)
                 /\ K!PS!StreamIsTheBase(case.in.schema)
      <3>1. K!LayoutDomain(case.in)
        BY <2>2, GovernanceAssumption DEF Asked, DocumentAsked
      <3>2. QED
        BY <3>1, K!LoadedStreamAlwaysStarts, K!LoadedViewAlwaysCompiles, K!PromisesAreAlwaysProduced, K!StreamIsAlwaysTheBase
    <2>3. ASSUME About("materialization")
          PROVE  K!PS!LoadedMaterializationRuns(case.in.block)
      <3>1. K!BlockDomain(case.in)
        BY <2>3, GovernanceAssumption DEF Asked, DocumentAsked
      <3>2. QED
        BY <3>1, K!LoadedMaterializationAlwaysRuns
    <2>4. ASSUME About("files")
          PROVE  \A root \in DOMAIN case.in.graph : K!PS!CyclesAreRefused(case.in.graph, root)
      <3>1. K!FileDomain(case.in)
        BY <2>4, GovernanceAssumption DEF Asked, DocumentAsked
      <3>2. ASSUME NEW root \in DOMAIN case.in.graph
            PROVE  K!PS!CyclesAreRefused(case.in.graph, root)
        BY <3>1, K!CyclesAreAlwaysRefused
      <3>3. QED
        BY <3>2
    <2>5. ASSUME About("pipeline")
          PROVE  K!E!CompiledViewAgrees(case.in.schema, case.in.data)
      <3>1. PICK family \in PipelineInputs : PipelineOfFamily(case.in, family)
        BY <2>5 DEF Asked, DocumentAsked
      <3>2. case.in.schema \in family.schemas /\ case.in.data \in family.data
            /\ case.in = [schema |-> case.in.schema, data |-> case.in.data]
        BY <3>1 DEF PipelineOfFamily
      <3>3. FamilyDomain(family)
        BY GovernanceAssumption
      <3>4. K!PipelineDomain(case.in)
        BY <3>2, <3>3 DEF FamilyDomain
      <3>5. QED
        BY <3>4, K!ViewsAgree
    <2>6. QED
      BY <2>1, <2>2, <2>3, <2>4, <2>5 DEF LoadedPipelineRuns
  <1>2. QED
    BY <1>1, OnlyInputsAreAsked, PTL
==============================================================================
