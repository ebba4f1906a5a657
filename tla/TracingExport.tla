----------------------------- MODULE TracingExport -----------------------------
(***************************************************************************)
(* Tracing exporters and the scope that runs business code inside a span.  *)
(* An exporter is [built, fails]: whether it could be built, and the       *)
(* phases in which its SDK raises.                                         *)
(***************************************************************************)
EXTENDS Naturals, Sequences, FiniteSets

Phases == {"open", "attribute", "exception", "status", "close", "context"}

(* A backend that cannot be built is an error when required, no tracer     *)
(* otherwise.                                                              *)
_best_effort_build(exporter, required) ==
    IF exporter.built THEN [raises |-> FALSE, sdk |-> TRUE, fails |-> exporter.fails]
    ELSE [raises |-> required, sdk |-> FALSE, fails |-> {}]
\* The dual exporter has two of them, the others one.
create_tracer(exporters, required) == [i \in DOMAIN exporters |-> _best_effort_build(exporters[i], required)]

(* _SDKTracer.start_span: a failure is a span that does nothing. *)
SdkStart(backend, required) ==
    IF backend.sdk /\ "open" \in backend.fails THEN [raises |-> required, open |-> FALSE]
    ELSE [raises |-> FALSE, open |-> backend.sdk]
(* DualTracer.start_span: what one backend raises, the other does not see. *)
start_span(tracer, required) ==
    LET each == [i \in DOMAIN tracer |-> SdkStart(tracer[i], required)]
    IN  [raises |-> \E i \in DOMAIN each : each[i].raises, open |-> {i \in DOMAIN each : each[i].open}]

(* _each over the open spans; a required failure is raised after all of    *)
(* them were called.                                                       *)
set_attribute(tracer, open, required) == required /\ \E i \in open : "attribute" \in tracer[i].fails
(* end: status, close and context are all attempted. *)
EndRaises(tracer, open, required) == required /\ \E i \in open : tracer[i].fails \intersect {"status", "close", "context"} # {}
Closed(tracer, open) == {i \in open : "close" \notin tracer[i].fails}

(* business is "value" or "error"; set_span_attribute runs inside it.      *)
\* The scope lets an end that fails replace the error of the business code.
configured_span_scope_end(tracer, required, business) ==
    LET begun == start_span(tracer, required)
    IN  IF begun.raises /\ required THEN [ran |-> FALSE, outcome |-> "tracing", opened |-> begun.open, closed |-> {}]
        ELSE [ran |-> TRUE, opened |-> begun.open, closed |-> Closed(tracer, begun.open),
              outcome |-> IF \E i \in begun.open : tracer[i].fails # {} THEN "tracing" ELSE business]
configured_span_scope(tracer, required, business) ==
    LET begun == start_span(tracer, required)
        body  == IF set_attribute(tracer, begun.open, required) THEN "tracing" ELSE business
    IN  IF begun.raises /\ required THEN [ran |-> FALSE, outcome |-> "tracing", opened |-> begun.open, closed |-> {}]
        ELSE [ran |-> TRUE, opened |-> begun.open, closed |-> Closed(tracer, begun.open),
              outcome |-> IF body = "value" /\ EndRaises(tracer, begun.open, required) THEN "tracing" ELSE body]

-------------------------------------------------------------------------------
(* Attributes: a sequence of [key, value] with distinct keys.  A value is  *)
(* "short", "long", "nan" or "object"; a long one is cut to "cut".         *)
truncate(value) == IF value = "long" THEN "cut" ELSE value
allows(policy, key) == key \in policy.keys
Put(f, k, v) == [x \in DOMAIN f \union {k} |-> IF x = k THEN v ELSE f[x]]
Nothing == [x \in {} |-> ""]

(* InMemoryTracer: budget attributes are on the span already. *)
_validated_attributes(policy, items, budget) ==
    LET step[i \in 0..Len(items)] ==
            IF i = 0 THEN Nothing
            ELSE LET p == step[i - 1]
                     a == items[i]
                 IN  IF a.value \in {"nan", "object"} \/ ~allows(policy, a.key) \/ budget + Cardinality(DOMAIN p) >= policy.max THEN p
                     ELSE Put(p, a.key, truncate(a.value))
    IN  step[Len(items)]
MemorySet(policy, attributes, item) ==
    LET accepted == _validated_attributes(policy, <<item>>, Cardinality(DOMAIN attributes))
    IN  IF DOMAIN accepted = {} THEN attributes ELSE Put(attributes, item.key, accepted[item.key])
(* The exporters' own filter: not-a-number passes. *)
_safe_attributes(policy, items) ==
    LET step[i \in 0..Len(items)] ==
            IF i = 0 THEN Nothing
            ELSE LET p == step[i - 1]
                     a == items[i]
                 IN  IF a.value = "object" \/ ~allows(policy, a.key) \/ Cardinality(DOMAIN p) >= policy.max THEN p
                     ELSE Put(p, a.key, truncate(a.value))
    IN  step[Len(items)]
SdkSet(policy, attributes, item) ==
    LET safe == _safe_attributes(policy, <<item>>)
    IN  IF DOMAIN safe = {} THEN attributes ELSE Put(attributes, item.key, safe[item.key])

(* A span of each kind: created with some attributes, then given others. *)
SpanAttributes(Set(_, _, _), policy, first, later) ==
    LET step[i \in 0..Len(later)] == IF i = 0 THEN first ELSE Set(policy, step[i - 1], later[i])
    IN  step[Len(later)]

-------------------------------------------------------------------------------
(* "Nothing about business behaviour changes when it is enabled": unless   *)
(* tracing is required, the scope returns or raises what the business code *)
(* does, whatever fails, and every backend that works sees the span open   *)
(* and close; when it is required, a value means that no backend lost the  *)
(* span, and an error of the business code is never replaced.              *)
ScopeKeepsBusinessOutcome(exporters, required, business) ==
    LET tracer == create_tracer(exporters, required)
        scope  == configured_span_scope(tracer, required, business)
    IN  (\A i \in DOMAIN tracer : ~tracer[i].raises) =>
        /\ ~required => scope.ran /\ scope.outcome = business
        /\ \A i \in DOMAIN tracer : scope.ran /\ tracer[i].sdk /\ tracer[i].fails \intersect {"open", "close"} = {} => i \in scope.opened \intersect scope.closed
        /\ required /\ scope.outcome = "value" => \A i \in DOMAIN tracer : tracer[i].sdk /\ tracer[i].fails \subseteq {"exception"}
        /\ business = "error" /\ scope.ran => scope.outcome = "error" \/ set_attribute(tracer, scope.opened, required)

(* Both kinds of span carry allowed keys with bounded values, at most as   *)
(* many as the policy says, and the same ones for finite values.           *)
AttributesAreAllowed(policy, first, later) ==
    LET memory == SpanAttributes(MemorySet, policy, SpanAttributes(MemorySet, policy, Nothing, first), later)
        sdk    == SpanAttributes(SdkSet, policy, _safe_attributes(policy, first), later)
        ok(a)  == DOMAIN a \subseteq policy.keys /\ Cardinality(DOMAIN a) <= policy.max /\ \A k \in DOMAIN a : a[k] \notin {"long", "object"}
        finite == \A i \in DOMAIN (first \o later) : (first \o later)[i].value # "nan"
        fresh  == \A i, j \in DOMAIN (first \o later) : (first \o later)[i].key = (first \o later)[j].key => i = j
    IN  ok(memory) /\ (policy.max >= Cardinality(policy.keys) => ok(sdk) /\ (finite /\ fresh => memory = sdk))
===============================================================================
