----------------------------- MODULE AdaptiveAdvice --------------------------
(***************************************************************************)
(* How usage becomes advice (adaptive/models.py, aggregator.py,            *)
(* recommender.py) and how a delivered advice is judged afterwards         *)
(* (adaptive/evaluator.py).  Evidence is [id, at, env, status, models,     *)
(* metrics, filters, ms]; a filter is <<column, operator, value>>.         *)
(***************************************************************************)
EXTENDS Integers, Sequences, FiniteSets, FiniteSetsExt, SequencesExt

CONSTANT Settings    \* thresholds, windows and percentiles in force

None == -1      \* a duration that was not measured

\* The fingerprint is a hash of exactly these parts: the parts stand for it.
fingerprint_query(models, metrics, shapes) == <<models, metrics, shapes>>

usage_event_from_evidence(e) ==
    LET shapes == {<<f[1], f[2]>> : f \in e.filters}
    IN [id |-> e.id, at |-> e.at, env |-> e.env, status |-> e.status, models |-> e.models,
        metrics |-> e.metrics, shapes |-> shapes, ms |-> e.ms,
        fingerprint |-> fingerprint_query(e.models, e.metrics, shapes)]

\* append is INSERT OR IGNORE on the event id: the first one stays.
Stored(evidence) ==
    {usage_event_from_evidence(evidence[i]) :
        i \in {i \in DOMAIN evidence : \A j \in 1..(i - 1) : evidence[j].id # evidence[i].id}}
list_events(store, since, until) == {e \in store : since <= e.at /\ e.at <= until}

\* The value at the nearest rank, counting repeated durations: the least
\* duration that as many as the rank do not exceed.
nearest_rank_percentile(events, percentile) ==
    LET ceil == (percentile * Cardinality(events) + 99) \div 100
        rank == IF ceil = 0 THEN 1 ELSE ceil
    IN Min({d \in {e.ms : e \in events} : Cardinality({e \in events : e.ms <= d}) >= rank})

Measured(events) == {e \in events : e.status = "succeeded" /\ e.ms # None}

Key(e) == [models |-> e.models, metrics |-> e.metrics, shapes |-> e.shapes, env |-> e.env,
           fingerprint |-> e.fingerprint, status |-> e.status]

\* Mutant of Durations: failed queries are timed as well.
DurationsOfAll(group) == {e \in group : e.ms # None}
Durations(group) == Measured(group)

\* aggregate: per window, the events of one key, if there are enough.
aggregate(store, now) ==
    LET Since(days) == IF days > now THEN 0 ELSE now - days
        events == list_events(store, Since(Max(Settings.windows)), now)
        Group(k, days) == {e \in events : Key(e) = k /\ Since(days) <= e.at /\ e.at <= now}
        Pattern(k, days) ==
            LET group == Group(k, days)  timed == Durations(group)
            IN [key |-> k, window |-> days, ids |-> {e.id : e \in group}, count |-> Cardinality(group),
                points |-> Cardinality(timed),
                percentile |-> IF Cardinality(timed) < Settings.minPoints THEN None
                               ELSE nearest_rank_percentile(timed, Settings.percentile)]
    IN {p \in {Pattern(k, days) : k \in {Key(e) : e \in events}, days \in Settings.windows} :
           p.count > 0 /\ p.count >= Settings.minCount}
------------------------------------------------------------------------------
\* _validate_pattern: what the recommender insists on.
ValidPattern(p) ==
    /\ p.key.models # {} /\ p.ids # {}
    /\ p.count = Cardinality(p.ids) /\ p.points <= p.count
    /\ p.percentile # None => p.points > 0
    /\ p.key.status = "failed" => p.points = 0 /\ p.percentile = None
    /\ p.key.fingerprint = fingerprint_query(p.key.models, p.key.metrics, p.key.shapes)

_threshold(observed, required) == observed # None /\ observed >= required

\* A context holds what is known of the sources: certified and grained
\* models, whether the rule is SQL or Python, the join plan.
_common_guardrails(p, c) ==
    {<<"source_not_certified", m>> : m \in p.key.models \ c.certified}
    \union (IF c.raw THEN {<<"not_compilable", "rule">>} ELSE {})
_physical_guardrails(p, c) == {<<"unsafe_grain", m>> : m \in p.key.models \ c.grains}
_join_guardrails(c) ==
    IF ~c.plan.found THEN {<<"join_plan_missing", "plan">>}
    ELSE {<<"unsafe_cardinality", j>> : j \in {j \in c.plan.cardinalities : j \in {"unknown", "many_to_many"}}}
         \union (IF c.plan.fanout THEN {<<"unsafe_fanout", "plan">>} ELSE {})

Blockers(rule, p, c) ==
    _common_guardrails(p, c)
    \union (IF rule \in {"frequent_aggregate", "repeated_join_path"} THEN _physical_guardrails(p, c) ELSE {})
    \union (IF rule = "repeated_join_path" THEN _join_guardrails(c) ELSE {})

\* When a rule has an opinion at all.
Applies(rule, p, c) ==
    LET read == p.key.status = "succeeded" /\ p.key.metrics # {}
    IN \/ rule = "frequent_aggregate" /\ read /\ Cardinality(p.key.models) = 1
       \/ rule = "repeated_join_path" /\ read /\ Cardinality(p.key.models) > 1
       \/ rule = "missing_dimension" /\ p.key.status = "failed" /\ c.missing
       \/ rule = "unused_generated_asset" /\ c.asset /\ c.unused > 0
Beneficial(rule, p, c) ==
    LET slow == _threshold(p.percentile, Settings.minDuration)
    IN \/ rule = "frequent_aggregate" /\ _threshold(p.count, Settings.frequent) /\ slow
       \/ rule = "repeated_join_path" /\ _threshold(p.count, Settings.joins) /\ slow
       \/ rule = "missing_dimension" /\ _threshold(p.count, Settings.rejections)
       \/ rule = "unused_generated_asset" /\ _threshold(c.unused, Settings.unused) /\ p.count <= Settings.maxQueries
KindOf == [frequent_aggregate |-> "materialized_view", repeated_join_path |-> "aggregate_table",
           missing_dimension |-> "semantic_gap", unused_generated_asset |-> "deprecation"]

_finish(rule, p, c) ==
    [rule |-> rule, kind |-> KindOf[rule], pattern |-> p, evidence |-> p.ids, sources |-> p.key.models,
     status |-> IF Blockers(rule, p, c) = {} /\ Beneficial(rule, p, c) THEN "proposed" ELSE "refused"]
recommend(patterns, c) ==
    UNION {{_finish(rule, p, c) : p \in {q \in patterns : Applies(rule, q, c)}} : rule \in DOMAIN KindOf}

\* The generator builds files only for these; a view must compile to SQL.
PHYSICAL_KINDS == {"materialized_view", "aggregate_table"}
EXPECTED_MATERIALIZATION == [materialized_view |-> "materialized_view", aggregate_table |-> "table"]
Generable(proposal, pipeline) ==
    /\ proposal.kind \in PHYSICAL_KINDS /\ proposal.status = "proposed"
    /\ pipeline.loads /\ pipeline.materialization = EXPECTED_MATERIALIZATION[proposal.kind]
    /\ pipeline.aggregate /\ (proposal.kind = "materialized_view" => pipeline.compiles)
------------------------------------------------------------------------------
_metrics(events) ==
    [count |-> Cardinality(events), failed |-> Cardinality({e \in events : e.status = "failed"}),
     points |-> Cardinality(Measured(events)),
     percentile |-> IF Measured(events) = {} THEN None
                    ELSE nearest_rank_percentile(Measured(events), Settings.percentile)]
_sufficient(m) == m.count >= Settings.minEvents /\ m.points >= Settings.minPoints

Before(events, start, delivered) == {e \in events : start <= e.at /\ e.at < delivered}
After(events, delivered, now) == {e \in events : delivered <= e.at /\ e.at <= now}

\* Ratios are in tenths.
Slower(before, after) == IF before = 0 THEN after > 0 ELSE 10 * after >= before * (10 + Settings.ratio)
Faster(before, after) == before # 0 /\ 10 * after <= before * (10 - Settings.ratio)
FailsMore(before, after) ==
    10 * after.failed * before.count >= (10 * before.failed + Settings.ratio * before.count) * after.count

Verdict(before, after) ==
    IF ~_sufficient(before) \/ ~_sufficient(after) THEN "inconclusive"
    ELSE IF Slower(before.percentile, after.percentile) \/ FailsMore(before, after) THEN "regressed"
    ELSE IF Faster(before.percentile, after.percentile) THEN "improved" ELSE "inconclusive"

evaluate(ids, store, delivered, now) ==
    LET start == IF delivered < Settings.window THEN 0 ELSE delivered - Settings.window
        evidence == {e \in store : e.id \in ids /\ e.at <= now}
        partitions == {<<e.env, e.fingerprint>> : e \in evidence}
        matching == {e \in store : <<e.env, e.fingerprint>> \in partitions}
    IN IF delivered > now THEN "error"
       ELSE IF evidence = {} THEN "inconclusive"
       ELSE IF Cardinality(partitions) # 1 THEN "error"
       ELSE Verdict(_metrics(Before(matching, start, delivered)), _metrics(After(matching, delivered, now)))
------------------------------------------------------------------------------
\* The recommender never trips over what the aggregator made, and every
\* recorded event in a window is counted by exactly one pattern of it.
AggregatesAreAccepted(in) ==
    LET patterns == aggregate(Stored(in.evidence), in.now)
    IN /\ \A p \in patterns : ValidPattern(p)
       /\ \A p, q \in patterns : p # q /\ p.window = q.window => p.ids \intersect q.ids = {}

\* What was recommended can be evaluated later: its evidence is one
\* environment and one query, so that before and after compare like with like.
AdviceCanBeEvaluated(in) ==
    LET store == Stored(in.evidence)
    IN \A r \in recommend(aggregate(store, in.now), in.context) :
           \A delivered \in 0..in.now : evaluate(r.evidence, store, delivered, in.now) # "error"

\* A pipeline is generated from advice only over certified sources
\* of known grain, for queries that ran, and joins that keep the row count.
PhysicalAdviceIsSafe(in) ==
    \A r \in recommend(aggregate(Stored(in.evidence), in.now), in.context) :
        (\E pipeline \in in.pipelines : Generable(r, pipeline)) =>
            /\ r.sources \subseteq in.context.certified \intersect in.context.grains
            /\ \A e \in Stored(in.evidence) : e.id \in r.evidence => e.status = "succeeded"
            /\ Cardinality(r.sources) > 1 =>
                  in.context.plan.found /\ ~in.context.plan.fanout
                  /\ "many_to_many" \notin in.context.plan.cardinalities

\* Slower queries after a delivery never make it look better.
Rank == [regressed |-> 1, inconclusive |-> 2, improved |-> 3]
SlowerNeverLooksBetter(in) ==
    LET store == Stored(in.evidence)
        slower == Stored([i \in DOMAIN in.evidence |->
                     IF i = in.at /\ in.evidence[i].ms # None /\ in.evidence[i].at >= in.delivered
                     THEN [in.evidence[i] EXCEPT !.ms = @ + in.by] ELSE in.evidence[i]])
        Of(s) == evaluate({in.evidence[1].id}, s, in.delivered, in.now)
    IN Of(store) # "error" => Rank[Of(slower)] <= Rank[Of(store)]
==============================================================================
