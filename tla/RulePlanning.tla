----------------------------- MODULE RulePlanning -----------------------------
(***************************************************************************)
(* Business rules: the profile read from a rule's source, the dependency   *)
(* graph, the stages of the planner and the fused execution of a stage.    *)
(* A rule is [name, kind, reads, writes, by, source, keys]: it sets writes *)
(* to twice what it reads plus by; source is FALSE when its text cannot be *)
(* read; keys are its grouping keys.  A row maps columns to numbers.       *)
(***************************************************************************)
EXTENDS Naturals, Sequences, FiniteSets, SequencesExt, FiniteSetsExt

(* A column that the rule writes is not counted among those it reads. *)
analyze_rule(rule) ==
    IF rule.source THEN [name |-> rule.name, source |-> TRUE, outputs |-> {rule.writes}, inputs |-> {rule.reads} \ {rule.writes}]
    ELSE [name |-> rule.name, source |-> FALSE, outputs |-> {}, inputs |-> {}]

(* The last rule before the i-th that writes the column. *)
Writer(profiles, n, column) ==
    LET before == {j \in 1..(n - 1) : column \in profiles[j].outputs}
    IN  IF before = {} THEN {} ELSE {profiles[Max(before)].name}
Needs(profiles, n) ==
    IF profiles[n].source THEN UNION {Writer(profiles, n, c) : c \in profiles[n].inputs} \ {profiles[n].name}
    ELSE IF n = 1 THEN {} ELSE {profiles[n - 1].name}
build_dependency_graph(profiles) ==
    [name \in {profiles[n].name : n \in DOMAIN profiles} |-> UNION {Needs(profiles, n) : n \in {k \in DOMAIN profiles : profiles[k].name = name}}]

(* Columns that several rules write, or read, with the rules. *)
Shared(profiles, Columns(_)) ==
    {[column |-> c, rules |-> {p.name : p \in {q \in Range(profiles) : c \in Columns(q)}}] : c \in UNION {Columns(p) : p \in Range(profiles)}}
detect_warnings(profiles) ==
    {[code |-> "OVERWRITE", about |-> w] : w \in {v \in Shared(profiles, LAMBDA p : p.outputs) : Cardinality(v.rules) > 1}}
    \union {[code |-> "SHARED_READ", about |-> w] : w \in {v \in Shared(profiles, LAMBDA p : p.inputs) : Cardinality(v.rules) >= 2}}

(* Kahn's algorithm; the queue is kept in declaration order. *)
Ready(graph, names, done) == SelectSeq(names, LAMBDA n : n \notin Range(done) /\ graph[n] \subseteq Range(done))
_topological_sort(graph, names) ==
    LET sorted[k \in 0..Len(names)] ==
            IF k = 0 THEN <<>>
            ELSE LET ready == Ready(graph, names, sorted[k - 1])
                 IN  IF ready = <<>> THEN sorted[k - 1] ELSE Append(sorted[k - 1], Head(ready))
    IN  sorted[Len(names)]

_sort_projection_stage(stage) ==
    LET names == [n \in DOMAIN stage |-> stage[n].name]
        order == _topological_sort(build_dependency_graph([n \in DOMAIN stage |-> analyze_rule(stage[n])]), names)
    IN  [n \in DOMAIN order |-> CHOOSE r \in Range(stage) : r.name = order[n]]

(* Maximal runs of rules for which Same holds. *)
Groups(rules, Same(_, _)) ==
    LET step(groups, rule) ==
            IF groups # <<>> /\ Same(Last(Last(groups)), rule)
            THEN Append(Front(groups), Append(Last(groups), rule)) ELSE Append(groups, <<rule>>)
    IN  FoldLeft(step, <<>>, rules)
_split_aggregation_stages(stage) == Groups(stage, LAMBDA a, c : c.keys # {} /\ a.keys = c.keys)
plan(rules) ==
    LET stages == Groups(rules, LAMBDA a, c : a.kind = c.kind)
        split(stage) == CASE stage[1].kind = "projection" -> <<_sort_projection_stage(stage)>>
                          [] stage[1].kind = "aggregation" -> _split_aggregation_stages(stage)
                          [] OTHER -> <<stage>>
    IN  FlattenSeq([n \in DOMAIN stages |-> split(stages[n])])

------------------------------------------------------------------------------
Failed == [c \in {"failed"} |-> 0]
Column(rule, row) == row[rule.reads] * 2 + rule.by
Apply(rule, row) ==
    IF row = Failed \/ rule.reads \notin DOMAIN row THEN Failed
    ELSE [c \in DOMAIN row \union {rule.writes} |-> IF c = rule.writes THEN Column(rule, row) ELSE row[c]]
(* One select: every expression reads the row before the stage, and the    *)
(* last rule that writes a column wins.                                    *)
LastWriter(stage, column) == stage[Max({n \in DOMAIN stage : stage[n].writes = column})]
_execute_projection_stage(row, stage) ==
    LET writes == {stage[n].writes : n \in DOMAIN stage}
    IN  IF row = Failed \/ \E n \in DOMAIN stage : stage[n].reads \notin DOMAIN row THEN Failed
        ELSE [c \in DOMAIN row \union writes |-> IF c \in writes THEN Column(LastWriter(stage, c), row) ELSE row[c]]
_execute_transform_stage(row, stage) == FoldLeft(LAMBDA r, rule : Apply(rule, r), row, stage)
(* Rules that are not aggregations. *)
execute(row, stages) ==
    FoldLeft(LAMBDA r, stage : IF stage[1].kind = "projection" THEN _execute_projection_stage(r, stage)
                               ELSE _execute_transform_stage(r, stage), row, stages)

------------------------------------------------------------------------------
(* Rule modules are imported one by one; a module is [file, rules, fails]: *)
(* one that fails may have registered rules before it raised.              *)
register_rule(registry, name, file) == [n \in DOMAIN registry \union {name} |-> IF n = name THEN file ELSE registry[n]]
Import(registry, module) == FoldLeft(LAMBDA r, name : register_rule(r, name, module.file), registry, module.rules)
\* Mutant of ScanModule: the registry is not restored when a module fails.
ScanModule_unrestored(report, module) ==
    [report EXCEPT !.registry = Import(@, module), !.invalid = IF module.fails THEN @ \union {module.file} ELSE @,
                   !.found = IF module.fails THEN @ ELSE @ \union Range(module.rules)]
ScanModule(report, module) ==
    IF module.fails THEN [report EXCEPT !.invalid = @ \union {module.file}]
    ELSE [report EXCEPT !.registry = Import(report.registry, module), !.found = @ \union Range(module.rules)]
scan(registry, modules) == FoldLeft(ScanModule, [registry |-> registry, found |-> {}, invalid |-> {}], modules)

------------------------------------------------------------------------------
Expected(rules, row) == FoldLeft(LAMBDA r, rule : Apply(rule, r), row, rules)
Names(rules) == [n \in DOMAIN rules |-> rules[n].name]

(* Planning neither loses nor moves a rule: stages only group consecutive  *)
(* rules, since a rule can depend on earlier ones alone.                   *)
PlanKeepsOrder(rules) == IsInjective(Names(rules)) => FlattenSeq(plan(rules)) = rules

(* Fusing a stage is invisible when none of its rules touches a column     *)
(* that another of them writes.                                            *)
Independent(rules) ==
    \A n, k \in DOMAIN rules : n # k => rules[n].writes \notin {rules[k].writes, rules[k].reads}
IndependentRulesFuse(rules, row) == Independent(rules) => execute(row, plan(rules)) = Expected(rules, row)

(* A rule whose column another rule of its stage replaces is reported,     *)
(* unless its source could not be read.                                    *)
LostWritesAreReported(rules) ==
    LET reported == UNION {w.about.rules : w \in {v \in detect_warnings([n \in DOMAIN rules |-> analyze_rule(rules[n])]) : v.code = "OVERWRITE"}}
        known    == SelectSeq(rules, LAMBDA rule : rule.source)
    IN  \A stage \in Range(plan(known)) : stage[1].kind = "projection" =>
            \A n \in DOMAIN stage : LastWriter(stage, stage[n].writes) # stage[n] => stage[n].name \in reported

(* After a scan, a rule comes from the last module that imported without   *)
(* error and defines it, and every other rule is as it was.                *)
ScanKeepsRegistry(registry, modules) ==
    LET after == scan(registry, modules)
        definers(name) == {n \in DOMAIN modules : ~modules[n].fails /\ name \in Range(modules[n].rules)}
    IN  \A name \in DOMAIN after.registry :
            IF definers(name) = {} THEN name \in DOMAIN registry /\ after.registry[name] = registry[name]
            ELSE after.registry[name] = modules[Max(definers(name))].file
===============================================================================
