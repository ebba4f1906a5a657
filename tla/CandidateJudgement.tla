-------------------------- MODULE CandidateJudgement -------------------------
(***************************************************************************)
(* How a metric candidate is judged: the agent's checks of a proposal      *)
(* (agentic/candidate_agent.py), the validation criteria                   *)
(* (candidates/validator.py), what a human approval may waive and in which *)
(* order events are read (candidates/service.py), and the reference        *)
(* evaluation and drift signals.  Pure functions of what they read.        *)
(***************************************************************************)
EXTENDS Integers, Sequences, FiniteSets, FiniteSetsExt, SequencesExt

WAIVABLE_REASONS == {"residue_present", "undeclared_join"}
MAX_CORRECTION_ATTEMPTS == 3

\* A proposal p: what the parser, the index and the join graph say of it.
\* The checks run in this order and the first failure is the answer.
validate_proposal(p) ==
    IF p.form = "sql_blocking" THEN "blocking_residue"
    ELSE IF p.form \in {"not_json", "forbidden_keys"} THEN "invalid_after_retries"
    ELSE IF ~p.tables THEN "unknown_table"
    ELSE IF p.raw THEN "raw_sql_rejected"
    ELSE IF ~p.parses THEN "invalid_after_retries"
    ELSE IF p.join = "no_key" THEN "join_without_key"
    ELSE IF p.join = "no_alias" THEN "invalid_after_retries"
    ELSE IF p.aggregate /\ p.fanout THEN "unsafe_fanout" ELSE "valid"
Retryable(code) == code \notin {"join_without_key", "unsafe_fanout"}

\* The model is asked again with the error, unless the error is final.
propose(answers) ==
    LET over == {i \in 1..MAX_CORRECTION_ATTEMPTS :
                    LET v == validate_proposal(answers[i]) IN v = "valid" \/ ~Retryable(v)}
        last == IF over = {} THEN MAX_CORRECTION_ATTEMPTS ELSE Min(over)
    IN [calls |-> last, verdict |-> validate_proposal(answers[last]), proposal |-> answers[last]]

\* ask: no table found, refused, denied by the gate, failed, or answered.
ask(found, answers, gate, runs) ==
    IF ~found THEN "no_table_found"
    ELSE IF propose(answers).verdict # "valid" THEN propose(answers).verdict
    ELSE IF ~gate THEN "access_denied"
    ELSE IF ~runs THEN "execution_failed" ELSE "candidate"

\* coherence: the codes that fail.  A stored candidate without an aggregate
\* is no metric; a join that cannot be planned hides the fanout check.
coherence(p, gate) ==
    (IF p.residues THEN {"residue_present"} ELSE {}) \union
    (IF ~p.parses \/ ~p.aggregate THEN {"invalid_schema"}
     ELSE (IF p.tables THEN {} ELSE {"missing_table"})
          \union (IF p.join = "no_key" THEN {"join_without_key"} ELSE {})
          \union (IF p.join = "no_alias" THEN {"invalid_after_retries"} ELSE {})
          \union (IF p.join = "undeclared" THEN {"undeclared_join"} ELSE {})
          \union (IF p.join \notin {"no_key", "no_alias"} /\ p.fanout THEN {"unsafe_fanout"} ELSE {})
          \union (IF gate THEN {} ELSE {"source_not_certified"}))

\* frequency: e counts the requests, the pseudonymous requesters and the
\* days with a successful answer.  No requester at all is never enough.
frequency(e, t) == /\ e.requests >= t.requests
                   /\ e.requesters > 0 /\ e.requesters >= t.requesters
                   /\ Cardinality(e.days) >= t.days

\* The results of the runs; "error" has no hash and counts for none.
Best(hashes) == LET Count(h) == Cardinality({i \in DOMAIN hashes : hashes[i] = h})
                IN Max({Count(h) : h \in ToSet(hashes) \ {"error"}} \union {0})
Stable(hashes, t) == Best(hashes) * t.scale >= t.stability * Len(hashes)
\* With execute the runs are made now, else the last stored ones are read.
stability(stored, now, execute, t) ==
    IF execute THEN IF Stable(now, t) THEN "pass" ELSE "fail"
    ELSE IF Len(stored) < t.runs THEN "not_measured"
    ELSE IF Stable(SubSeq(stored, Len(stored) - t.runs + 1, Len(stored)), t) THEN "pass" ELSE "fail"

\* CandidateValidator.validate.
Judge(p, gate, e, stored, now, execute, t) ==
    IF coherence(p, gate) # {} THEN "needs_review"
    ELSE IF ~frequency(e, t) THEN "pending"
    ELSE [pass |-> "validated", fail |-> "needs_review", not_measured |-> "pending"][stability(stored, now, execute, t)]

\* Mutant of Approvable: everything can be waived.
ApprovableAlways(p, gate) == TRUE

Approvable(p, gate) == coherence(p, gate) \subseteq WAIVABLE_REASONS
------------------------------------------------------------------------------
\* Events [at, id, from, to]: the earliest, and of those the first by identifier.
Earliest(events) == {e \in events : \A o \in events : e.at <= o.at}
First(events) == CHOOSE e \in events : \A o \in events : e.id <= o.id

Moves(group) == {e \in group : e.from # e.to}
\* The next event of one time stamp: one that follows, a chain head, any.
NextEvent(state, group) ==
    LET moves == Moves(group)
        follows == {e \in moves : e.from = state}
        heads == {e \in moves : \A o \in moves \ {e} : o.to # e.from}
    IN First(IF follows # {} THEN follows ELSE IF heads # {} THEN heads ELSE group)

\* One event after the other: from the pending ones of the earliest stamp, in
\* the state that the chain has come to.
Take(r) ==
    LET group == Earliest(r.pending)
        last == r.done[Len(r.done)]
        now == IF r.done # <<>> /\ \A e \in group : e.at # last.at THEN last.to ELSE r.state
        e == NextEvent(now, group)
    IN  [done |-> Append(r.done, e), state |-> IF e.from # e.to THEN e.to ELSE now, pending |-> r.pending \ {e}]
chronological(events) ==
    LET step[n \in 0..Cardinality(events)] ==
            IF n = 0 THEN [done |-> <<>>, state |-> "none", pending |-> events] ELSE Take(step[n - 1])
    IN  step[Cardinality(events)].done
------------------------------------------------------------------------------
\* The reference evaluation.  A question q has a family; its response r has a
\* mode, whether it found the expected metric or hash, and the search rank
\* (0 when the expected node was not found).
ANSWERED_MODES == {"query", "view", "candidate"}
REFUSED_MODES == {"candidate_refused", "no_model", "needs_clarification", "ambiguous"}
Outcome(r) == IF r.denied THEN "refused" ELSE IF r.mode \in ANSWERED_MODES THEN "answered"
              ELSE IF r.mode \in REFUSED_MODES THEN "refused" ELSE "error"
Right(q) == \/ q.family = "A" /\ q.mode = "query" /\ q.match
            \/ q.family = "B" /\ q.mode = "candidate" /\ q.match
            \/ q.family = "C" /\ Outcome(q) = "refused"
Failed(q) == ~Right(q) \/ (q.family = "A" /\ q.rank = 0)
Recalled(qs, k) == {i \in DOMAIN qs : qs[i].family = "A" /\ qs[i].rank # 0 /\ qs[i].rank <= k}
Family(qs, f) == {i \in DOMAIN qs : qs[i].family = f}
evaluate(qs) ==
    [failures        |-> {i \in DOMAIN qs : Failed(qs[i])},
     right           |-> [f \in {"A", "B", "C"} |-> {i \in Family(qs, f) : Right(qs[i])}],
     false_answer    |-> {i \in Family(qs, "C") : Outcome(qs[i]) = "answered"},
     false_refusal   |-> {i \in Family(qs, "A") \union Family(qs, "B") : Outcome(qs[i]) = "refused"},
     recall          |-> [k \in {1, 2} |-> Recalled(qs, k)]]

\* compute_drift: counts of answer runs and certified queries in the window.
Measured(value, of) == [status |-> "measured", value |-> value, of |-> of]
Inconclusive(reason) == [status |-> "inconclusive", reason |-> reason]
fallback_rate(fallbacks, usage, min) ==
    IF usage = <<>> THEN Inconclusive("evidence_unavailable")
    ELSE IF fallbacks + Len(usage) < min THEN Inconclusive("sample_below_minimum")
    ELSE Measured(fallbacks, fallbacks + Len(usage))
orphans(catalog, usage, min) ==
    IF usage = <<>> THEN Inconclusive("evidence_unavailable")
    ELSE IF Len(usage) < min THEN Inconclusive("sample_below_minimum")
    ELSE Measured(Cardinality(catalog \ UNION ToSet(usage)), Cardinality(catalog))
rephrasing(asked, rephrased, redacted, min) ==
    IF redacted THEN Inconclusive("questions_redacted")
    ELSE IF asked < min THEN Inconclusive("sample_below_minimum") ELSE Measured(rephrased, asked)
------------------------------------------------------------------------------
\* The two routes to a published level 1 view, the validation job and the
\* human approval, both stop at a join that multiplies rows, a join without
\* a key, a missing table and a source the gate refuses.
NoRouteWaivesSafety(in) ==
    (\/ Judge(in.p, in.gate, in.e, in.stored, in.now, in.execute, in.t) = "validated"
     \/ Approvable(in.p, in.gate))
        => in.gate /\ in.p.tables /\ in.p.join \in {"declared", "undeclared"} /\ ~in.p.fanout

\* Nothing is validated on the word of a single user or on runs that differ:
\* at the strictest threshold all runs the report rests on have one hash.
ValidatedIsBackedUp(in) ==
    Judge(in.p, in.gate, in.e, in.stored, in.now, in.execute, in.t) = "validated" =>
        /\ in.e.requests >= in.t.requests /\ in.e.requesters >= in.t.requesters
        /\ in.t.stability = in.t.scale =>
               LET used == IF in.execute THEN in.now
                           ELSE SubSeq(in.stored, Len(in.stored) - in.t.runs + 1, Len(in.stored))
               IN \E h \in ToSet(used) \ {"error"} : \A i \in DOMAIN used : used[i] = h

\* What the agent answered with can only fail the coherence check later for
\* reasons a human may waive, as long as the world did not change and the
\* proposal aggregates.
AgentAnswerIsCoherent(in) ==
    /\ propose(in.answers).calls <= MAX_CORRECTION_ATTEMPTS
    /\ \A i \in 1..propose(in.answers).calls - 1 : Retryable(validate_proposal(in.answers[i]))
    /\ ask(TRUE, in.answers, in.gate, TRUE) = "candidate" /\ propose(in.answers).proposal.aggregate
          => Approvable(propose(in.answers).proposal, in.gate)

\* Events of one legal chain that does not come back to a state within one
\* time stamp are read in the order they happened, whatever their identifiers.
ChronologyFollowsChain(in) == chronological(ToSet(in.chain)) = in.chain

\* Every question of the report is right or listed as a failure, never both
\* wrongly answered and refused, and recall grows with k.
EvaluationAddsUp(in) ==
    LET e == evaluate(in.qs)
    IN /\ \A i \in DOMAIN in.qs \ e.failures :
              /\ i \in e.right[in.qs[i].family]
              /\ in.qs[i].family = "A" => \E k \in {1, 2} : i \in e.recall[k]
       /\ e.false_answer \subseteq e.failures /\ e.false_refusal \subseteq e.failures
       /\ e.recall[1] \subseteq e.recall[2]

\* A measured signal is a rate of a sample that exists, even when the
\* configured minimum sample is zero.
DriftIsARate(in) ==
    /\ LET s == fallback_rate(in.fallbacks, in.usage, in.min)
       IN s.status = "measured" => s.of > 0 /\ s.value <= s.of
    /\ LET s == orphans(in.catalog, in.usage, in.min)
       IN s.status = "measured" => s.value <= s.of /\ (s.value = s.of /\ s.of > 0 => in.usage # <<>>)
    /\ LET s == rephrasing(in.fallbacks, Len(in.usage), in.redacted, in.min)
       IN in.redacted => s.status = "inconclusive"

-------------------------------------------------------------------------------
(* What is kept of the schema a candidate was computed with                *)
(* (candidates/redaction.py) and the metric published from it              *)
(* (candidates/promotion.py).  A filter condition is                       *)
(*   [form, col, op, vals], form being the YAML spelling: a text           *)
(* "col:op:value", an object with column and operator, a mapping           *)
(* {col: {op: value}} or {col: value}.  A value is "placeholder" or        *)
(* anything else; the names of placeholders are not modelled.              *)
Arity(op) == IF op \in {"is_null", "is_not_null"} THEN "none" ELSE IF op = "in" THEN "list" ELSE "single"
P == "placeholder"

Map(f(_), s) == [i \in DOMAIN s |-> f(s[i])]

\* _Parameterizer: every value of a condition that takes one.
ParameterizeCondition(c) == IF Arity(c.op) = "none" THEN c ELSE [c EXCEPT !.vals = Map(LAMBDA v : P, @)]
\* _walk_filter_locations: table filters, where, their groups, having.
Walk(f(_), s) ==
    [s EXCEPT !.filter = f(@), !.filter_groups = Map(f, @), !.where = f(@),
              !.where_groups = Map(f, @), !.having = f(@)]
parameterize_filters(s) == LET f(cs) == Map(ParameterizeCondition, cs) IN Walk(f, s)
\* store.assert_value_free: what is still a value after all.
Values(s) ==
    UNION {UNION {ToSet(c.vals) : c \in {x \in ToSet(cs) : Arity(x.op) # "none"}} :
              cs \in {s.filter, s.where, s.having} \union ToSet(s.filter_groups) \union ToSet(s.where_groups)}

\* _shape_items: the canonical form of a condition, its value a "?".
Shape(c) == [column |-> c.col, operator |-> c.op,
             value |-> IF c.vals # <<>> /\ Arity(c.op) # "none" THEN "?" ELSE ""]
\* The shapes are sorted, so a container becomes a bag of shapes.
Bag(s) == [x \in ToSet(s) |-> Cardinality({i \in DOMAIN s : s[i] = x})]
Container(cs) == Bag(Map(Shape, cs))
fingerprint_normal_form(s) ==
    [filter |-> Container(s.filter), filter_groups |-> Bag(Map(Container, s.filter_groups)),
     where |-> Container(s.where), where_groups |-> Bag(Map(Container, s.where_groups)),
     having |-> Container(s.having), group_by |-> Bag(s.group_by), measures |-> s.measures]
------------------------------------------------------------------------------
HasPlaceholder(c) == P \in ToSet(c.vals)
Kept(cs) == Restrict(cs, {i \in DOMAIN cs : ~HasPlaceholder(cs[i])})
Columns(cs) == {c.col : c \in {x \in ToSet(cs) : HasPlaceholder(x)}}
\* A group left empty made its alternative true: all groups go.
TakeGroups(groups) == IF \E g \in ToSet(groups) : DOMAIN Kept(g) = {} THEN <<>> ELSE Map(Kept, groups)

\* metric_definition: filters with a value become dimensions.
Converted(s) ==
    Columns(s.filter) \union Columns(s.where) \union (Columns(s.having) \ s.measures)
        \union UNION {Columns(g) : g \in ToSet(s.filter_groups) \union ToSet(s.where_groups)}
metric_definition(s) ==
    [s EXCEPT !.filter = Kept(@), !.filter_groups = TakeGroups(@), !.where = Kept(@),
              !.where_groups = TakeGroups(@), !.having = Kept(@),
              !.group_by = @ \o SetToSeq(Converted(s) \ ToSet(@))]

\* An aggregate function over a column of values, in SQL: Null is skipped.
Null == [known |-> FALSE, n |-> 0]
Value(n) == [known |-> TRUE, n |-> n]
Aggregate(func, column) ==
    LET known == {x \in DOMAIN column : column[x].known}
        numbers == {column[x].n : x \in known}
    IN IF func = "count" THEN Value(Cardinality(known))
       ELSE IF known = {} THEN Null
       ELSE IF func = "sum" THEN Value(FoldFunction(+, 0, [x \in known |-> column[x].n]))
       ELSE Value(IF func = "min" THEN Min(numbers) ELSE Max(numbers))
\* The level 1 view groups the rows; the metric view on it re-aggregates the
\* groups, so that a metric without a roll-up is not published.
ROLLUP == [sum |-> "sum", count |-> "sum", min |-> "min", max |-> "max"]
Publishable(funcs) == ToSet(funcs) \subseteq DOMAIN ROLLUP
level1_model(funcs) == [i \in DOMAIN funcs |-> ROLLUP[funcs[i]]]
level1_sql(func, rows) == \* one row per group
    [g \in {r.group : r \in ToSet(rows)} |->
        Aggregate(func, [i \in {i \in DOMAIN rows : rows[i].group = g} |-> rows[i].value])]
------------------------------------------------------------------------------
\* What a metric view shows over any groups is the measure over their rows.
RollupIsExact(in) ==
    Publishable(in.funcs) =>
        \A i \in DOMAIN in.funcs :
            Aggregate(level1_model(in.funcs)[i], level1_sql(in.funcs[i], in.rows))
                = Aggregate(in.funcs[i], [n \in DOMAIN in.rows |-> in.rows[n].value])

\* Whether a row passes, given which conditions hold for it.
Passes(s, holds) ==
    /\ \A c \in ToSet(s.filter) \union ToSet(s.where) : holds[c]
    /\ \A groups \in {s.filter_groups, s.where_groups} :
           groups # <<>> => \E g \in ToSet(groups) : \A c \in ToSet(g) : holds[c]
Conditions(s) == ToSet(s.filter) \union ToSet(s.where)
                    \union UNION {ToSet(g) : g \in ToSet(s.filter_groups) \union ToSet(s.where_groups)}

\* No filter value is left in what the agent stores, wherever it stood.
NoValueIsStored(in) == Values(parameterize_filters(in.s)) \subseteq {P}

\* Requests that differ in filter values, in the spelling of their filters
\* or in their order have one fingerprint; it is found again in the store.
FingerprintIgnoresValues(in) ==
    /\ fingerprint_normal_form(parameterize_filters(in.s)) = fingerprint_normal_form(in.s)
    /\ fingerprint_normal_form(in.variant) = fingerprint_normal_form(in.s)

\* The published metric has no placeholder left, covers every row that the
\* original question counted, and every column the question filtered on is a
\* dimension of it.
DefinitionCoversQuestion(in) ==
    LET stored == parameterize_filters(in.s)
        d == metric_definition(stored)
    IN /\ \A c \in Conditions(d) \union ToSet(d.having) : ~HasPlaceholder(c)
       /\ \A holds \in [Conditions(stored) -> BOOLEAN] : Passes(stored, holds) => Passes(d, holds)
       /\ \A c \in Conditions(stored) : HasPlaceholder(c) => c.col \in ToSet(d.group_by)
==============================================================================
