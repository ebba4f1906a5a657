----------------------------- MODULE Conversation ------------------------------
(***************************************************************************)
(* The conversational agents (agentic/hub.py, agent.py, lineage_agent.py,  *)
(* dictionary_agent.py, quality_agent.py, builder_agent.py, history.py).   *)
(* Whatever a language model answers is an input; a question is what the   *)
(* agents read off it: its words, a keyword's mode, a table, a column.     *)
(***************************************************************************)
EXTENDS Integers, Sequences, FiniteSets, SequencesExt, FiniteSetsExt, TLC

LR == INSTANCE LineageRegistry
-------------------------------------------------------------------------------
(* GenBI.  w: [listed, known: model keys; members: names of each; linked:  *)
(* pairs with one safe join path; governed: models with a row policy;      *)
(* identity: the context carries the policy's attribute; mode: of the      *)
(* certification gate; refused: the models it refuses at the preflight and *)
(* at the recheck; sql: the backend answers].                              *)
Reply(mode, model) == [mode |-> mode, model |-> model, denied |-> FALSE, suggestions |-> FALSE, failed |-> mode = "error",
                       reads |-> {}, view |-> {}, raised |-> FALSE]
Failed(model) == Reply("error", model)
AccessDenied(model) == [Failed(model) EXCEPT !.denied = TRUE]
Raised == [Failed("none") EXCEPT !.raised = TRUE]
Gate(w, models, when) == w.mode = "enforce" /\ models \intersect w.refused[when] # {}

_parse_json(raw, default) == IF raw.parses THEN raw ELSE default
_step_a_select_model(raw) == _parse_json(raw, [selected |-> "none", candidates |-> {}])
\* SemanticQuery.from_dict after the setdefault of the model.
_step_b_translate(raw, key, mode) ==
    LET data == _parse_json(raw, [model |-> "none", names |-> {}, mode |-> "query", view |-> FALSE, format |-> "table"])
    IN [data EXCEPT !.model = IF @ = "none" THEN key ELSE @, !.mode = IF mode = "auto" THEN @ ELSE mode]

\* SemanticPlanner.plan: the query's own model is the root; row filters come last.
Plan(w, q, identity) ==
    LET Owners(n) == IF n \in w.members[q.model] THEN {q.model} ELSE {m \in w.known : n \in w.members[m]}
        models == {q.model} \union UNION {Owners(n) : n \in q.names}
    IN IF q.model \notin w.known THEN [end |-> "raised"]
       ELSE IF \E n \in q.names : Cardinality(Owners(n)) # 1 \/ \E m \in Owners(n) : m # q.model /\ <<q.model, m>> \notin w.linked
            THEN [end |-> "unclear"]
       ELSE IF models \intersect w.governed # {} /\ ~identity THEN [end |-> "raised"]
       ELSE [end |-> "sql", models |-> models, filtered |-> models \intersect w.governed]
\* QueryResolver.resolve: an unfiltered plan of one model is compiled from the
\* model definition the caller passes, any other from the plan.
resolve(w, q, key, identity) ==
    LET plan == Plan(w, q, identity)
    IN IF plan.end # "sql" \/ plan.models # {q.model} \/ plan.filtered # {} THEN plan
       ELSE IF q.names \subseteq w.members[key] THEN [plan EXCEPT !.models = {key}] ELSE [end |-> "unclear"]

create_view(w, q) ==
    LET resolved == resolve(w, q, q.model, FALSE)
    IN IF ~q.view THEN Failed(q.model)
       ELSE IF Gate(w, {q.model}, 1) THEN AccessDenied(q.model)
       ELSE IF resolved.end # "sql" THEN Failed(q.model)
       ELSE IF Gate(w, {q.model}, 2) THEN AccessDenied(q.model)
       ELSE IF ~w.sql THEN Failed(q.model)
       ELSE [Reply("view", q.model) EXCEPT !.view = resolved.models]
_execute_view(w, q, key) == [create_view(w, q) EXCEPT !.model = key]

\* The recheck covers every model of the plan; the statement has run when the
\* result cannot be formatted.
RecheckedModels(q, resolved) == resolved.models
_execute_query(w, q, key, resolved) ==
    IF Gate(w, RecheckedModels(q, resolved), 2) THEN AccessDenied(key)
    ELSE IF ~w.sql \/ q.format \notin {"kpi", "table", "chart", "text_analysis"}
         THEN [Failed(key) EXCEPT !.reads = resolved.models]
    ELSE [Reply("query", key) EXCEPT !.reads = resolved.models]

Answer(w, q, key, close) ==
    LET resolved == resolve(w, q, key, IF q.mode = "view" THEN FALSE ELSE w.identity)
    IN IF q.mode # "view" /\ Gate(w, {key}, 1) THEN AccessDenied(key)
       ELSE IF resolved.end = "raised" THEN Raised
       ELSE IF resolved.end = "unclear" THEN [Reply("needs_clarification", key) EXCEPT !.suggestions = close]
       ELSE IF q.mode = "view" THEN _execute_view(w, q, key)
       ELSE _execute_query(w, q, key, resolved)
_process(w, ask) ==
    LET a == _step_a_select_model(ask.a)
    IN IF w.listed = {} \/ (a.selected = "none" /\ a.candidates = {}) THEN Reply("no_model", "none")
       ELSE IF a.selected = "none" THEN Reply("ambiguous", "none")
       ELSE IF a.selected \notin w.known THEN Failed(a.selected)
       ELSE Answer(w, _step_b_translate(ask.b, a.selected, ask.mode), a.selected, ask.close)
\* GenBIAgent._ask: an exception leaves neither an entry nor a turn.
_ask(w, ask, state) ==
    LET reply == _process(w, ask)
    IN [reply |-> reply,
        state |-> IF reply.raised THEN state
                  ELSE [session |-> Append(state.session, reply.mode),
                        turns |-> IF state.remembers THEN state.turns \o <<"user", "assistant">> ELSE state.turns,
                        remembers |-> state.remembers]]
\* reset_history: the turns only.
reset_history(state) == [state EXCEPT !.turns = <<>>]

(* Whatever the language model answers, under an enforcing policy no query *)
(* reads a model that the recheck refuses, none runs when the preflight    *)
(* refused the selected model, no view is created over a refused root, and *)
(* a refusal reads and creates nothing (agent.py _process).                *)
AnswerIsGoverned(in) ==
    LET w == in.world
        reply == _process(w, in.ask)
        key == _step_a_select_model(in.ask.a).selected
        q == _step_b_translate(in.ask.b, key, in.ask.mode)
    IN /\ w.mode = "enforce" => /\ reply.reads \intersect w.refused[2] = {}
                                /\ reply.reads # {} => key \notin w.refused[1]
                                /\ reply.view # {} => q.model \notin (w.refused[1] \union w.refused[2])
       /\ reply.denied => reply.reads = {} /\ reply.view = {}
       /\ reply.mode = "query" => reply.reads # {}
       /\ reply.view # {} => reply.view \intersect w.governed = {}

(* One entry per answered question and two turns when the conversation is  *)
(* remembered; forgetting the conversation keeps the session.              *)
AnswersAreLogged(in) ==
    LET before == [session |-> <<>>, turns |-> <<>>, remembers |-> in.remembers]
        after == _ask(in.world, in.ask, _ask(in.world, in.ask, before).state)
        answered == IF after.reply.raised THEN 0 ELSE 2
    IN /\ Len(after.state.session) = answered
       /\ Len(after.state.turns) = IF in.remembers THEN 2 * answered ELSE 0
       /\ reset_history(after.state).session = after.state.session

-------------------------------------------------------------------------------
(* The hub.  h: [agents: the configured intents; llm: the word it answers, *)
(* "absent" or "fails"; candidates: the candidate agent is there, and what *)
(* it answers; fallback; aliases: <<[term, canonical], ...>>].             *)
Intents == <<"lineage", "dictionary", "quality", "builder">>
_resolve_aliases(h, words) ==
    FoldLeft(LAMBDA ws, alias : [i \in DOMAIN ws |-> IF ws[i] = alias.term THEN alias.canonical ELSE ws[i]], words, h.aliases)
_detect_intent(words) ==
    LET named == {i \in DOMAIN Intents : Contains(words, Intents[i])} IN IF named = {} THEN "genbi" ELSE Intents[Min(named)]
_configured_intents(h) == h.agents
_llm_classify_intent(h) == IF h.llm \in _configured_intents(h) THEN h.llm ELSE "none"

_should_fallback(reply) ==
    ~reply.denied /\ (reply.mode = "no_model" \/ (reply.mode = "needs_clarification" /\ ~reply.suggestions))
By(agent) == [by |-> agent, asked |-> {agent}, noted |-> FALSE]
Unavailable == [by |-> "error", asked |-> {}, noted |-> FALSE]
_candidate_fallback(h, reply) ==
    IF h.fallback = "off" \/ ~_should_fallback(reply) THEN By("genbi")
    ELSE IF h.fallback = "on" THEN [by |-> "candidate", asked |-> {"genbi", "candidate"}, noted |-> FALSE]
    ELSE [by |-> "genbi", asked |-> {"genbi", "candidate"}, noted |-> h.candidate = "candidate"]
_fallback_to_genbi(h, reply) == IF h.candidate = "absent" THEN By("genbi") ELSE _candidate_fallback(h, reply)
_dispatch(h, intent, routed, reply) ==
    IF intent # "genbi" /\ intent \in h.agents THEN By(intent)
    ELSE IF "genbi" \in h.agents /\ (intent = "genbi" \/ routed) THEN _fallback_to_genbi(h, reply)
    ELSE Unavailable
hub_ask(h, words, reply) ==
    LET detected == _detect_intent(_resolve_aliases(h, words))
        classified == IF detected = "genbi" /\ h.llm # "absent" THEN _llm_classify_intent(h) ELSE "none"
    IN _dispatch(h, IF classified = "none" THEN detected ELSE classified, classified # "none", reply)

(* A candidate metric is only tried when GenBI found nothing: a refusal,   *)
(* an error, an ambiguity or a result is answered as it is; in shadow mode *)
(* the answer stays GenBI's.  A function the user named is served by its   *)
(* own agent or refused, and a free question is refused only when no agent *)
(* can take it (hub.py _should_fallback, _dispatch).                       *)
RefusalIsNotRoutedAround(in) ==
    LET out == hub_ask(in.hub, in.words, in.reply)
        named == _detect_intent(_resolve_aliases(in.hub, in.words))
    IN /\ "candidate" \in out.asked => in.reply.mode \in {"no_model", "needs_clarification"} /\ ~in.reply.denied /\ in.hub.fallback # "off"
       /\ in.reply.mode = "needs_clarification" /\ in.reply.suggestions => "candidate" \notin out.asked
       /\ out.by = "candidate" => in.hub.fallback = "on"
       /\ out.noted => out.by = "genbi" /\ in.hub.candidate = "candidate"
       /\ named # "genbi" => out.by \in {named, "error"}
       /\ out.by \in {"genbi", "candidate", "error"} \union in.hub.agents
       /\ named = "genbi" /\ "genbi" \in in.hub.agents => out.by # "error"

-------------------------------------------------------------------------------
(* Lineage, dictionary and quality questions: [mode, table, column] as read *)
(* off the words ("none", 0 and "" when absent); llm: absent, failing, or   *)
(* the same three fields.  Tables are numbered in the order of their names, *)
(* RULE_ORIGIN, the marker of a rule's output, being -1.                    *)
Said(mode, q) == [mode |-> mode, error |-> FALSE, table |-> q.table, column |-> q.column, edges |-> {}, fields |-> {}, text |-> FALSE]
Sorry(q) == [Said("error", q) EXCEPT !.error = TRUE]
NoField == [table |-> 0, column |-> ""]
RuleOrigin == -1

\* DataDictionary: every end of an edge but the marker of a rule's output.
Fields(graph) == LR!Nodes(graph) \ {n \in LR!Nodes(graph) : n[1] = RuleOrigin}
Tables(graph) == {n[1] : n \in LR!Nodes(graph)}
Asked(graph, q) == IF q.table # 0 THEN {q.table} ELSE Tables(graph)
trace(graph, q, up) ==
    [Said(IF up THEN "trace" ELSE "impact", q) EXCEPT !.edges = UNION {Range(LR!adjacent(graph, up, <<t, q.column>>)) : t \in Asked(graph, q)}]
lookup(graph, q) ==
    LET found == {f \in Fields(graph) : f[2] = q.column /\ q.table \in {0, f[1]}}
    IN IF found = {} THEN Sorry(q)
       ELSE LET t == Min({f[1] : f \in found}) IN [Said("lookup", q) EXCEPT !.table = t, !.fields = {<<t, q.column>>}]
list_fields(graph, q) == [Said("list", q) EXCEPT !.fields = {f \in Fields(graph) : q.table \in {0, f[1]}}, !.column = ""]

Modes == [lineage |-> {"trace", "impact", "lookup", "render"}, dictionary |-> {"lookup", "list", "export"}, quality |-> {"check", "history", "report"}]
Whole(mode) == [Said(mode, NoField) EXCEPT !.text = TRUE]
FieldAnswer(graph, q) ==
    IF q.mode \in {"render", "export"} THEN Whole(q.mode)
    ELSE IF q.mode \in {"trace", "impact"} THEN trace(graph, q, q.mode = "trace")
    ELSE IF q.mode = "list" THEN list_fields(graph, q)
    ELSE lookup(graph, q)
\* LineageAgent._step_llm_parse and DictionaryAgent._step_llm_parse.
FieldLlm(agent, graph, llm) ==
    IF llm.mode \notin Modes[agent] THEN Sorry(NoField) ELSE FieldAnswer(graph, llm)
\* LineageAgent wants edges, DictionaryAgent a schema.
Loaded(agent, graph, loaded) == IF agent = "lineage" THEN graph # <<>> ELSE loaded
FieldProcess(agent, loaded, graph, q, llm) ==
    IF ~Loaded(agent, graph, loaded) THEN Sorry(NoField)
    ELSE IF q.mode = "none" THEN FieldLlm(agent, graph, llm)
    ELSE IF q.mode \in {"trace", "impact", "lookup"} /\ q.column = "" THEN Sorry(NoField)
    ELSE FieldAnswer(graph, q)

\* s: [schema: a default schema is there; store: "none", "fails" or "works";
\* reports: the tables with one; monitor: the checks can be run].
check(s, q, given) == IF ~given \/ ~s.monitor THEN Sorry(q) ELSE [Said("check", q) EXCEPT !.text = TRUE]
get_history(s, q) == IF s.store # "works" THEN Sorry(q) ELSE [Said("history", q) EXCEPT !.text = q.table \in s.reports]
report(s, q) == [Said("report", q) EXCEPT !.text = s.store = "works" /\ q.table \in s.reports]
QualityLlm(s, llm) ==
    IF llm.mode \notin Modes.quality THEN Sorry(NoField)
    ELSE IF llm.mode = "check" THEN check(s, llm, FALSE)
    ELSE IF llm.mode = "history" THEN get_history(s, llm)
    ELSE report(s, llm)
QualityProcess(s, q, llm) ==
    IF q.mode = "none" THEN QualityLlm(s, llm)
    ELSE IF q.table = 0 /\ q.mode # "report" THEN Sorry(NoField)
    ELSE IF q.mode = "check" THEN check(s, q, s.schema)
    ELSE IF q.mode = "history" THEN get_history(s, q)
    ELSE LET told == report(s, q) IN [told EXCEPT !.error = ~told.text]

(* An answer about a field is about the field that was asked for: of the   *)
(* named table when one is named, never the marker of a rule's output, and *)
(* "unknown" only when the graph has no such field (lineage_agent.py,      *)
(* dictionary_agent.py).                                                   *)
FieldAnswerIsAsked(in) ==
    LET out == FieldProcess(in.agent, in.loaded, in.graph, in.q, in.llm)
        q == IF in.q.mode = "none" THEN in.llm ELSE in.q
    IN /\ ~out.error /\ out.mode = "lookup" => \A f \in out.fields : f \in Fields(in.graph) /\ f[2] = q.column /\ q.table \in {0, f[1]}
       /\ out.error /\ q.mode = "lookup" /\ Loaded(in.agent, in.graph, in.loaded) =>
             ~\E f \in Fields(in.graph) : f[2] = q.column /\ q.table \in {0, f[1]}
       /\ ~out.error /\ out.mode = "trace" => \A e \in out.edges : e.to[2] = q.column /\ q.table \in {0, e.to[1]}
       /\ ~out.error /\ out.mode = "impact" => \A e \in out.edges : e.from[2] = q.column /\ q.table \in {0, e.from[1]}

(* How the intent was found does not change the answer: a question read by *)
(* its keywords and the same question read by the language model agree,    *)
(* but for a table check, which then has no default schema, and an empty   *)
(* report, which is then no error.                                         *)
IntentSourceIsIrrelevant(in) ==
    LET none == [in.q EXCEPT !.mode = "none"]
    IN IF in.agent = "quality"
       THEN LET words == QualityProcess(in.state, in.q, in.llm)
                model == QualityProcess(in.state, none, in.q)
            IN in.q.table # 0 => /\ in.q.mode = "history" => words = model
                                 /\ in.q.mode = "report" => [words EXCEPT !.error = FALSE] = model
                                 /\ in.q.mode = "check" /\ ~in.state.schema => words = model
       ELSE in.q.mode # "none" /\ (in.q.column # "" \/ in.q.mode \in {"render", "list", "export"}) =>
               FieldProcess(in.agent, in.loaded, in.graph, in.q, in.llm) = FieldProcess(in.agent, in.loaded, in.graph, none, in.q)

-------------------------------------------------------------------------------
(* The builder.  etl: [tables: <<[fqn, alias, filters], ...>>, joins: <<    *)
(* [from, to], ...>>, rules, select: <<[column, target, computed], ...>>,  *)
(* limit].  catalog maps the tables that exist to their columns, none when *)
(* they cannot be read.  "" is an empty answer.                            *)
validate_table(catalog, fqn) == fqn \in DOMAIN catalog
validate_columns(catalog, fqn, columns) == catalog[fqn] = {} \/ columns \subseteq catalog[fqn]
Columns(catalog, etl) == UNION {catalog[t.fqn] : t \in {u \in Range(etl.tables) : u.fqn \in DOMAIN catalog}}
_validate_etl_struct(catalog, etl) ==
    /\ \A t \in Range(etl.tables) : validate_table(catalog, t.fqn) /\ validate_columns(catalog, t.fqn, t.filters)
    /\ Columns(catalog, etl) # {} => \A i \in DOMAIN etl.select : etl.select[i].computed \/ etl.select[i].column \in Columns(catalog, etl)

TableEntry(fqn, alias, filters) == [name |-> fqn, alias |-> alias, filter |-> filters]
_build_schema_dict(etl) ==
    [tables |-> [i \in DOMAIN etl.tables |-> TableEntry(etl.tables[i].fqn, etl.tables[i].alias, etl.tables[i].filters)],
     join |-> etl.joins, rules |-> etl.rules,
     select |-> [i \in DOMAIN etl.select |-> <<etl.select[i].column, etl.select[i].target>>],
     keep_all |-> etl.select = <<>>, limit |-> etl.limit]
\* parse_schema, as far as a generated document can fail it: joins name tables.
parse_schema(schema) ==
    LET known == {t.alias : t \in Range(schema.tables)} \union {t.name : t \in Range(schema.tables)}
    IN \A i \in DOMAIN schema.join : schema.join[i].from \in known /\ schema.join[i].to \in known
NotSaved == [saved |-> FALSE]
_save_yaml(schema) == IF parse_schema(schema) THEN [saved |-> TRUE, schema |-> schema] ELSE NotSaved
builder_ask(catalog, etl) == IF _validate_etl_struct(catalog, etl) THEN _save_yaml(_build_schema_dict(etl)) ELSE NotSaved

\* The wizard answers its prompts from a queue; an exhausted queue is an
\* error.  st: the prompt it is at and what it has collected.
WizardStart == [at |-> "table", fqn |-> "", tables |-> <<>>, filtered |-> 1, left |-> "", right |-> "", joins |-> <<>>, rules |-> <<>>,
                column |-> "", target |-> "", select |-> <<>>, limit |-> "", saves |-> FALSE]
Put(tables, entry) ==
    IF \E i \in DOMAIN tables : tables[i].alias = entry.alias
    THEN [i \in DOMAIN tables |-> IF tables[i].alias = entry.alias THEN entry ELSE tables[i]] ELSE Append(tables, entry)
_wizard_tables(catalog, st, answer) ==
    CASE st.at = "table" -> IF answer = "" THEN [st EXCEPT !.at = IF st.tables = <<>> THEN "table" ELSE "filter"]
                            ELSE IF validate_table(catalog, answer) THEN [st EXCEPT !.fqn = answer, !.at = "alias"] ELSE st
      [] st.at = "alias" -> [st EXCEPT !.tables = Put(@, TableEntry(st.fqn, IF answer = "" THEN st.fqn ELSE answer, {})), !.at = "more"]
      [] st.at = "more" -> [st EXCEPT !.at = IF answer = "" THEN "filter" ELSE "table"]
_wizard_filters(catalog, st, answer) ==
    LET table == st.tables[st.filtered]
        after == IF st.filtered < Len(st.tables) THEN "filter" ELSE IF Len(st.tables) < 2 THEN "rule" ELSE "left"
    IN IF answer = "" THEN [st EXCEPT !.filtered = @ + 1, !.at = after]
       ELSE IF validate_columns(catalog, table.name, {answer}) THEN [st EXCEPT !.tables[st.filtered].filter = @ \union {answer}] ELSE st
\* A side without a comma, written "bad", is asked again.
_wizard_joins(st, answer) ==
    CASE st.at = "left" -> [st EXCEPT !.left = answer, !.at = IF answer = "" THEN "rule" ELSE "right"]
      [] st.at = "right" -> [st EXCEPT !.right = answer, !.at = IF answer = "" THEN "rule" ELSE "type"]
      [] st.at = "type" -> IF "bad" \in {st.left, st.right} THEN [st EXCEPT !.at = "left"]
                           ELSE [st EXCEPT !.joins = Append(@, [from |-> st.left, to |-> st.right]), !.at = "more joins"]
      [] st.at = "more joins" -> [st EXCEPT !.at = IF answer = "" THEN "rule" ELSE "left"]
_wizard_rules(st, answer) == IF answer = "" THEN [st EXCEPT !.at = "column"] ELSE [st EXCEPT !.rules = Append(@, answer)]
_wizard_select(st, answer) ==
    CASE st.at = "column" -> [st EXCEPT !.column = answer, !.at = IF answer = "" THEN "limit" ELSE "target"]
      [] st.at = "target" -> [st EXCEPT !.target = IF answer = "" THEN st.column ELSE answer, !.at = "ops"]
      [] st.at = "ops" -> [st EXCEPT !.select = Append(@, <<st.column, st.target>>), !.at = "column"]
_wizard_options(st, answer) == IF st.at = "limit" THEN [st EXCEPT !.limit = answer, !.at = "output"] ELSE [st EXCEPT !.at = "confirm"]
Prompt(catalog, st, answer) ==
    CASE st.at \in {"table", "alias", "more"} -> _wizard_tables(catalog, st, answer)
      [] st.at = "filter" -> _wizard_filters(catalog, st, answer)
      [] st.at \in {"left", "right", "type", "more joins"} -> _wizard_joins(st, answer)
      [] st.at = "rule" -> _wizard_rules(st, answer)
      [] st.at \in {"column", "target", "ops"} -> _wizard_select(st, answer)
      [] st.at \in {"limit", "output"} -> _wizard_options(st, answer)
      [] st.at = "confirm" -> [st EXCEPT !.saves = answer \in {"", "o"}, !.at = "end"]
      [] OTHER -> st
wizard(catalog, answers) ==
    LET st == FoldLeft(LAMBDA s, answer : Prompt(catalog, s, answer), WizardStart, answers)
    IN IF ~st.saves THEN NotSaved
       ELSE _save_yaml([tables |-> st.tables, join |-> st.joins, rules |-> st.rules, select |-> st.select,
                        keep_all |-> st.select = <<>>, limit |-> st.limit])

\* The answers a user would give for a description.
Script(etl) ==
    LET n == Len(etl.tables)
    IN FlattenSeq([i \in 1..n |-> <<etl.tables[i].fqn, etl.tables[i].alias, IF i = n THEN "" ELSE "yes">>])
       \o FlattenSeq([i \in 1..n |-> Append(SetToSeq(etl.tables[i].filters), "")])
       \o FlattenSeq([i \in DOMAIN etl.joins |-> <<etl.joins[i].from, etl.joins[i].to, "", IF i = Len(etl.joins) THEN "" ELSE "yes">>])
       \o (IF n > 1 /\ etl.joins = <<>> THEN <<"">> ELSE <<>>)
       \o etl.rules \o <<"">>
       \o FlattenSeq([i \in DOMAIN etl.select |-> <<etl.select[i].column, etl.select[i].target, "">>]) \o <<"">>
       \o <<etl.limit, "", "o">>

(* A pipeline file is only written for a document that loads and whose     *)
(* tables, and filters on readable tables, the catalogue knows, whatever   *)
(* the language model extracted or the user typed; a described pipeline    *)
(* and the same one typed into the wizard are the same document, and an    *)
(* unconfirmed or unfinished wizard writes nothing (builder_agent.py).     *)
SavedPipelineIsKnown(in) ==
    LET described == builder_ask(in.catalog, in.etl)
        typed == wizard(in.catalog, Script(in.etl))
    IN /\ \A out \in {described, typed} : out.saved =>
             /\ parse_schema(out.schema)
             /\ \A t \in Range(out.schema.tables) :
                   t.name \in DOMAIN in.catalog /\ (in.catalog[t.name] # {} => t.filter \subseteq in.catalog[t.name])
       /\ described.saved /\ IsInjective([i \in DOMAIN in.etl.tables |-> in.etl.tables[i].alias]) =>
             /\ typed = described
             /\ \A n \in 0..(Len(Script(in.etl)) - 1) : ~wizard(in.catalog, SubSeq(Script(in.etl), 1, n)).saved

-------------------------------------------------------------------------------
(* Session files: [kind, created, ttl, entries]; time in half days.        *)
Fresh(now, ttl) == [kind |-> "session", created |-> now, ttl |-> ttl, entries |-> 0]
is_expired(session, now) == (now - session.created) \div 2 > session.ttl
load_or_create(file, now, ttl) == IF file.kind = "session" /\ ~is_expired(file, now) THEN file ELSE Fresh(now, ttl)
purge_if_expired(file, now) == IF file.kind = "session" /\ is_expired(file, now) THEN [kind |-> "none"] ELSE file
add(session) == [session EXCEPT !.entries = @ + 1]

(* A saved session is loaded again until ttl_days whole days have passed   *)
(* and one more has begun, however often it is used and purged meanwhile;  *)
(* purging never removes what loading would still return, and a file that  *)
(* cannot be read is left alone (history.py).                              *)
SessionLives(in) ==
    LET first == load_or_create(in.file, in.t1, in.ttl)
        saved == add(first)
        kept == purge_if_expired(saved, in.t2)
        again == load_or_create(kept, in.t3, in.ttl)
        alive == in.t3 < first.created + 2 * (first.ttl + 1)
    IN /\ alive => again = saved
       /\ ~alive => again.entries = 0 /\ again.created = in.t3
       /\ in.file.kind # "session" => purge_if_expired(in.file, in.t2) = in.file
===============================================================================
