----------------------------- MODULE SemanticGate ----------------------------
(***************************************************************************)
(* The certification gate around a semantic query, a view and the metric   *)
(* views (semantic/semantic.py): certificates are read before and after    *)
(* the compilation while publications and reloads go on.                   *)
(***************************************************************************)
EXTENDS Integers, FiniteSets, Sequences

CONSTANTS Calls,        \* calls of one SemanticEngine
          Models, Root, \* the models, each over its own dataset, and the one queries start from
          Datasets,     \* <<model, name>>: the names a certificate may be stored under
          Modes,        \* semantic_certification_policy of the environment
          MaxTime, MaxPublications,      \* bounds
          MaxAge, MaxOverrideWindow

GateAssumption == Root \in Models /\ MaxTime \in Nat

A == INSTANCE SemanticAccess

VARIABLES mode,          \* the configured policy
          now,
          published,     \* publications so far
          cert,          \* what the store says of a dataset, by physical and logical name
          cache,         \* models in the engine's lazy cache
          call,          \* the state of each call
          views          \* the views created, with the models they read
gateVars == <<mode, now, published, cert, cache, call, views>>

Ops == {"query", "view", "metric_view"}
Consumer == [id |-> "c", mayOverride |-> TRUE]
Overrides == {A!NoOverride, [given |-> TRUE, complete |-> TRUE, actor |-> "c", expires |-> MaxTime]}
NoCall == [pc |-> "none", op |-> "query", plan |-> {}, override |-> A!NoOverride, good |-> {}]

GateInit ==
    /\ mode \in Modes /\ now = 0 /\ published = 0
    /\ cert = [d \in Datasets |-> A!NoCertification]
    /\ cache = {}
    /\ views \in {{}, {[op |-> "metric_view", reads |-> {Root}]}}
    /\ call = [c \in Calls |-> NoCall]
------------------------------------------------------------------------------
\* The physical name counts if it is certified, else the logical one.
_get_certification(m) ==
    IF <<m, "logical">> \notin Datasets \/ cert[<<m, "physical">>].certified THEN cert[<<m, "physical">>]
    ELSE cert[<<m, "logical">>]
Gate(deps, override) == A!evaluate({_get_certification(m) : m \in deps}, Consumer, mode, now, override)
Refuses(deps, override) == mode # "off" /\ Gate(deps, override).decision \in {"DENY", "REQUIRE_HUMAN", "ERROR"}
Good(m) == A!_reason_for(_get_certification(m), now) = {}

Proceed(c, pc) == call' = [call EXCEPT ![c].pc = pc]
View(c) == [op |-> call[c].op, reads |-> call[c].plan]

\* The first check sees the root model alone: there is no plan yet.
Preflight(c) ==
    /\ call[c].pc = "none"
    /\ \E op \in {"query", "view"}, plan \in {p \in SUBSET Models : Root \in p}, override \in Overrides :
          call' = [call EXCEPT ![c] = [NoCall EXCEPT !.op = op, !.plan = plan, !.override = override,
                                          !.pc = IF Refuses({Root}, override) THEN "denied" ELSE "checked"]]
    /\ cache' = cache \union {Root}
    /\ UNCHANGED <<mode, now, published, cert, views>>

\* publish_metric_views gates each model once; a denied one loses its view.
PreflightMetricView(c) ==
    /\ call[c].pc = "none"
    /\ \E m \in Models :
          LET denied == Refuses({m}, A!NoOverride)
          IN /\ call' = [call EXCEPT ![c] = [NoCall EXCEPT !.op = "metric_view", !.plan = {m}, !.good = {n \in Models : Good(n)},
                                              !.pc = IF denied THEN "denied" ELSE "checked"]]
             /\ views' = IF denied THEN views \ {[op |-> "metric_view", reads |-> {m}]} ELSE views
             /\ cache' = cache \union {m}
    /\ UNCHANGED <<mode, now, published, cert>>

\* The planner loads every model of the plan, or refuses the query; a
\* metric view is translated, or refused and left as it is.
Compile(c) ==
    /\ call[c].pc = "checked"
    /\ \/ /\ Proceed(c, IF call[c].op = "metric_view" THEN "ready" ELSE "compiled")
          /\ cache' = cache \union call[c].plan
       \/ Proceed(c, "failed") /\ UNCHANGED cache
    /\ UNCHANGED <<mode, now, published, cert, views>>

\* Models that left the cache since are skipped; the root stands in for none.
_plan_dependencies(c) == LET loaded == (call[c].plan \intersect cache) IN IF loaded = {} THEN {Root} ELSE loaded

\* Mutant of SnapshotMissing: an ALLOW is taken at its word.
SnapshotNeverMissing(c, deps) == FALSE
SnapshotMissing(c, deps) ==
    mode # "off" /\ Gate(deps, call[c].override) = [decision |-> "ALLOW", reasons |-> {}] /\ ~(call[c].plan \subseteq deps)

\* The second check of a query, over the plan.
RecheckQuery(c) ==
    LET deps == IF mode = "off" THEN {Root} ELSE _plan_dependencies(c)
    IN /\ call[c].pc = "compiled" /\ call[c].op = "query"
       /\ call' = [call EXCEPT ![c].pc = IF Refuses(deps, call[c].override) THEN "denied"
                                         ELSE IF SnapshotMissing(c, deps) THEN "failed" ELSE "ready",
                               ![c].good = {m \in Models : Good(m)}]
       /\ UNCHANGED <<mode, now, published, cert, cache, views>>

\* The second check of a view covers the root model again.
RecheckView(c) ==
    /\ call[c].pc = "compiled" /\ call[c].op = "view"
    /\ call' = [call EXCEPT ![c].pc = IF Refuses({Root}, call[c].override) THEN "denied" ELSE "ready",
                            ![c].good = {m \in Models : Good(m)}]
    /\ UNCHANGED <<mode, now, published, cert, cache, views>>

Execute(c) ==
    /\ call[c].pc = "ready"
    /\ \/ Proceed(c, "done") /\ views' = IF call[c].op = "query" THEN views ELSE views \union {View(c)}
       \/ Proceed(c, "failed") /\ UNCHANGED views
    /\ UNCHANGED <<mode, now, published, cert, cache>>
------------------------------------------------------------------------------
reload_catalog == cache # {} /\ cache' = {} /\ UNCHANGED <<mode, now, published, cert, call, views>>

\* Publications certify and block datasets at any moment.
Publish(d) ==
    /\ published < MaxPublications /\ published' = published + 1
    /\ \/ cert' = [cert EXCEPT ![d] = A!NoCertification]
       \/ \E passed \in BOOLEAN : cert' = [cert EXCEPT ![d] = [certified |-> TRUE, checksPassed |-> passed, at |-> now]]
    /\ UNCHANGED <<mode, now, cache, call, views>>
Tick == now < MaxTime /\ now' = now + 1 /\ UNCHANGED <<mode, published, cert, cache, call, views>>

GateNext ==
    \/ \E c \in Calls : \/ Preflight(c) \/ PreflightMetricView(c) \/ Compile(c) \/ RecheckQuery(c)
                        \/ RecheckView(c) \/ Execute(c)
    \/ \E d \in Datasets : Publish(d)
    \/ reload_catalog
    \/ Tick
GateSpec == GateInit /\ [][GateNext]_gateVars
------------------------------------------------------------------------------
GateTypeOK ==
    /\ mode \in Modes /\ now \in 0..MaxTime /\ cache \subseteq Models
    /\ \A v \in views : v.op \in Ops \ {"query"} /\ v.reads \in (SUBSET Models) \ {{}}
    /\ \A c \in Calls : call[c].pc \in {"none", "checked", "compiled", "ready", "done", "denied", "failed"}
    /\ \A c \in Calls : call[c].plan = {} <=> call[c].pc = "none"

\* Under enforcement a query runs only if every dataset of its plan, joined
\* ones included, was certified, passing and fresh at the second check,
\* whatever was published or reloaded meanwhile.
EnforcedReadIsCertified ==
    \A c \in Calls : call[c].op = "query" /\ call[c].pc \in {"ready", "done"} /\ ~call[c].override.given
                     /\ mode \in {"enforce", "supervised"} => call[c].plan \subseteq call[c].good

==============================================================================
