------------------------------ MODULE DataContracts ------------------------------
(***************************************************************************)
(* What a data product promises.  First its contract over time and across  *)
(* formats: the stored definition and its identity, the comparison of two  *)
(* versions, and the ODCS document.  A schema is [product, output, grain,  *)
(* sla, security, semantic, status]; an optional string that is not given  *)
(* is "none", an optional block Absent.  An identity hash is the payload   *)
(* it is computed from.                                                    *)
(*                                                                         *)
(* Then its quality: what a pipeline does to its rows, the checks derived  *)
(* from the same document, the report, its history and the alerts.  A cell *)
(* is a number, 0 is NULL; SQL conditions have three values.               *)
(***************************************************************************)
EXTENDS Integers, Sequences, FiniteSets, SequencesExt, FiniteSetsExt

None == "none"
Absent == [absent |-> TRUE]
Given(x) == x # None
CLASSIFICATION_RANK == [public |-> 0, internal |-> 1, confidential |-> 2, restricted |-> 3]
Rank(level) == IF level \in DOMAIN CLASSIFICATION_RANK THEN CLASSIFICATION_RANK[level] ELSE 0
Delays == [d \in {"1h", "90m", "2h"} |-> IF d = "1h" THEN 60 ELSE IF d = "90m" THEN 90 ELSE 120]   \* what _parse_delay reads; other texts raise
SemVers == {"1.0.0", "1.1.0"}

-------------------------------------------------------------------------------
(* Definitions.  Owner and descriptions are stored beside the payload.      *)
Stored(f) == [name |-> f.name, type |-> f.type, required |-> f.required, unique |-> f.unique,
              classification |-> f.classification, entity |-> f.entity]
canonicalize_contract(s) ==
    IF s.product = Absent \/ s.output = <<>> THEN [valid |-> FALSE]
    ELSE IF s.product.version \notin SemVers THEN [valid |-> FALSE]
    ELSE [valid |-> TRUE, id |-> s.product.id, version |-> s.product.version, grain |-> s.grain, sla |-> s.sla, security |-> s.security,
          output |-> [i \in DOMAIN s.output |-> Stored(s.output[i])], semantic |-> s.semantic]
Rebuilt(payload, grain, security) == [output |-> payload.output, grain |-> grain, sla |-> payload.sla, security |-> security]
schema_from_definition(payload) == Rebuilt(payload, payload.grain, payload.security)

-------------------------------------------------------------------------------
(* The comparison of an old contract a with a new one b.                    *)
Names(s) == {s.output[i].name : i \in DOMAIN s.output}
Field(s, n) == s.output[Max({i \in DOMAIN s.output : s.output[i].name = n})]
Pair(block, x, y) == IF block = Absent THEN <<None, None>> ELSE <<block[x], block[y]>>
_sla_tuple(s) == Pair(s.sla, "refresh_frequency", "max_latency")
_security_tuple(s) == Pair(s.security, "level", "access_policy")

_diff_sla_breaking(a, b) ==
    LET old == _sla_tuple(a)  new == _sla_tuple(b) IN
    [changed |-> old # new,
     breaking |-> /\ old # new
                  /\ \/ old[1] # new[1]
                     \/ ~({old[2], new[2]} \subseteq DOMAIN Delays)
                     \/ Delays[new[2]] > Delays[old[2]]]
_diff_security_breaking(a, b) ==
    LET old == _security_tuple(a)  new == _security_tuple(b) IN
    [changed |-> old # new,
     breaking |-> /\ old # new
                  /\ \/ old[2] # new[2]
                     \/ ~({old[1], new[1]} \subseteq DOMAIN CLASSIFICATION_RANK)
                     \/ Rank(new[1]) < Rank(old[1])]

Type(f) == IF Given(f.type) THEN f.type ELSE ""
Entity(f) == IF Given(f.entity) THEN f.entity ELSE ""
Classification(f) == IF Given(f.classification) THEN f.classification ELSE "public"
Changed(a, b, names, Of(_)) ==
    {<<n, Of(Field(a, n)), Of(Field(b, n))>> : n \in {m \in names : Of(Field(a, m)) # Of(Field(b, m))}}

FieldChanges(a, b, kept) ==
    [retyped |-> Changed(a, b, kept, Type), required |-> Changed(a, b, kept, LAMBDA f : f.required),
     unique |-> Changed(a, b, kept, LAMBDA f : f.unique), entity |-> Changed(a, b, kept, Entity),
     classification |-> Changed(a, b, kept, Classification)]
Breaks(fields, removed, grain, sla, security) ==
    \/ removed # {} \/ fields.retyped # {} \/ grain \/ sla \/ security
    \/ \E c \in fields.required \union fields.unique : ~c[2] /\ c[3]
    \/ \E c \in fields.classification : Rank(c[3]) < Rank(c[2])
Diff(a, b, fields, sla, security) ==
    [added |-> Names(b) \ Names(a), removed |-> Names(a) \ Names(b), fields |-> fields, grain |-> a.grain # b.grain,
     sla |-> sla.changed, security |-> security.changed,
     breaking |-> Breaks(fields, Names(a) \ Names(b), a.grain # b.grain, sla.breaking, security.breaking)]
diff_contracts(a, b) ==
    Diff(a, b, FieldChanges(a, b, Names(a) \intersect Names(b)), _diff_sla_breaking(a, b), _diff_security_breaking(a, b))

-------------------------------------------------------------------------------
(* The ODCS document.  A warning is a tag.                                  *)
Optional(key, value) == IF Given(value) THEN <<[property |-> key, value |-> value]>> ELSE <<>>
(* Rules are told apart by where they come from: the field, or the grain.   *)
Rule(type, field) == [type |-> type, field |-> field]
FieldRules(s) == [r \in {<<"required", i>> : i \in {j \in DOMAIN s.output : s.output[j].required}}
                         \union {<<"unique", i>> : i \in {j \in DOMAIN s.output : s.output[j].unique}} |-> Rule(r[1], s.output[r[2]].name)]
WithGrainRule(rules, grain) ==
    IF Len(grain) # 1 \/ Rule("unique", grain[1]) \in Range(rules) THEN rules
    ELSE [r \in DOMAIN rules \union {<<"grain", 1>>} |-> IF r \in DOMAIN rules THEN rules[r] ELSE Rule("unique", grain[1])]
(* A string owner, or [team, steward, contact].                             *)
Team(owner) ==
    IF owner = Absent THEN <<>>
    ELSE IF owner.text # None THEN <<[name |-> owner.text, role |-> None]>>
    ELSE LET name == IF Given(owner.team) THEN owner.team ELSE IF Given(owner.steward) THEN owner.steward ELSE owner.contact
         IN  IF Given(name) THEN <<[name |-> name, role |-> IF Given(owner.steward) THEN "steward" ELSE None]>> ELSE <<>>
Exported(f) == [name |-> f.name, logicalType |-> IF Given(f.type) THEN f.type ELSE "unknown",
                description |-> f.description, classification |-> f.classification]
export_odcs_31(s) ==
    [document |->
       [id |-> s.product.id, version |-> s.product.version, description |-> s.product.description,
        status |-> IF Given(s.status) THEN s.status ELSE "draft",
        schema |-> [i \in DOMAIN s.output |-> Exported(s.output[i])],
        quality |-> WithGrainRule(FieldRules(s), s.grain),
        security |-> Optional("level", _security_tuple(s)[1]) \o Optional("accessPolicy", _security_tuple(s)[2]),
        slaProperties |-> Optional("refreshFrequency", _sla_tuple(s)[1]) \o Optional("latency", _sla_tuple(s)[2]),
        team |-> Team(s.product.owner), customProperties |-> Optional("skifer.domain", s.product.domain)],
     warnings |-> {<<"entity", n>> : n \in {m \in Names(s) : Given(Field(s, m).entity)}}
                    \union (IF Len(s.grain) = 1 THEN {} ELSE {<<"grain">>})
                    \union (IF s.semantic = Absent THEN {} ELSE {<<"semantic">>})]

(* Import.  A later entry of one name replaces an earlier one; an entry the *)
(* code cannot place is warned about.  doc.security lists the security      *)
(* mapping, then securityProperties, in the order they are read.            *)
SlaKey(p) == IF p \in {"refreshFrequency", "refresh_frequency"} THEN "refresh_frequency"
             ELSE IF p \in {"latency", "maxLatency", "max_latency"} THEN "max_latency" ELSE None
_security_target_key(p) == IF p \in {"level", "dataClassification", "classification"} THEN "level"
                           ELSE IF p \in {"accessPolicy", "access_policy", "rowFilter", "rowFilters"} THEN "access_policy" ELSE None
LastValue(entries, Key(_), key) ==
    LET at == {i \in DOMAIN entries : Key(entries[i].property) = key /\ Given(entries[i].value)}
    IN  IF at = {} THEN None ELSE entries[Max(at)].value
Unplaced(entries, Key(_), tag) == {<<tag, i>> : i \in {j \in DOMAIN entries : Key(entries[j].property) = None \/ ~Given(entries[j].value)}}
_import_sla(entries) == [refresh_frequency |-> LastValue(entries, SlaKey, "refresh_frequency"), max_latency |-> LastValue(entries, SlaKey, "max_latency")]
_import_security(entries) == [level |-> LastValue(entries, _security_target_key, "level"), access_policy |-> LastValue(entries, _security_target_key, "access_policy")]
_import_custom_properties(entries) == LastValue(entries, LAMBDA p : IF p = "skifer.domain" THEN p ELSE None, "skifer.domain")

Supported(rule, names) == rule.field \in names /\ rule.type \in {"required", "unique"}
Rules(quality, type, names) == {quality[i].field : i \in {j \in DOMAIN quality : quality[j].type = type /\ Supported(quality[j], names)}}
_import_quality(quality, names) ==
    LET unique == Rules(quality, "unique", names) IN
    [grain |-> IF Cardinality(unique) = 1 THEN SetToSeq(unique) ELSE <<>>,
     warnings |-> {<<"quality", i>> : i \in {j \in DOMAIN quality : ~Supported(quality[j], names)}}
                    \union (IF Cardinality(unique) > 1 THEN {<<"grain">>} ELSE {})]

RoleKey(role) == IF role \in {"steward", "contact"} THEN role ELSE "team"
KnownRole(role) == role \in {"steward", "contact", None, "owner", "team"}
(* The first member of a key is kept; an unknown role falls back to team.   *)
Member(members, key) ==
    LET at == {i \in DOMAIN members : Given(members[i].name) /\ RoleKey(members[i].role) = key}
    IN  IF at = {} THEN None ELSE members[Min(at)].name
_import_team(members) ==
    IF \A i \in DOMAIN members : ~Given(members[i].name) THEN Absent
    ELSE IF Len(members) = 1 /\ members[1].role = None THEN [text |-> members[1].name]
    ELSE [text |-> None, team |-> Member(members, "team"), steward |-> Member(members, "steward"), contact |-> Member(members, "contact")]

LastOf(schema, n) == schema[Max({i \in DOMAIN schema : schema[i].name = n})]
FirstPositions(schema) == {i \in DOMAIN schema : Given(schema[i].name) /\ \A j \in 1..(i - 1) : schema[j].name # schema[i].name}
InOrder(S) == [k \in 1..Cardinality(S) |-> CHOOSE i \in S : Cardinality({j \in S : j <= i}) = k]
_import_properties(schema, quality, names) ==
    LET kept == InOrder(FirstPositions(schema))
        field(n) == [name |-> n, type |-> LastOf(schema, n).logicalType, description |-> LastOf(schema, n).description,
                     classification |-> LastOf(schema, n).classification, entity |-> None,
                     required |-> n \in Rules(quality, "required", names), unique |-> n \in Rules(quality, "unique", names)]
    IN  [k \in DOMAIN kept |-> field(schema[kept[k]].name)]
import_odcs_31(doc) ==
    LET names == {doc.schema[i].name : i \in DOMAIN doc.schema} \ {None}
        checks == _import_quality(doc.quality, names)
    IN  IF names = {} \/ ~Given(doc.id) \/ ~Given(doc.version) THEN [accepted |-> FALSE]
        ELSE [accepted |-> TRUE,
              schema |-> [product |-> [id |-> doc.id, version |-> doc.version, description |-> doc.description,
                                       owner |-> _import_team(doc.team), domain |-> _import_custom_properties(doc.customProperties)],
                          output |-> _import_properties(doc.schema, doc.quality, names), grain |-> checks.grain,
                          sla |-> _import_sla(doc.slaProperties), security |-> _import_security(doc.security), semantic |-> Absent, status |-> doc.status],
              warnings |-> checks.warnings
                             \union Unplaced(doc.slaProperties, SlaKey, "sla") \union Unplaced(doc.security, _security_target_key, "security")
                             \union {<<"field", i>> : i \in {j \in DOMAIN doc.schema : ~Given(doc.schema[j].name)}}
                             \union {<<"team", i>> : i \in {j \in DOMAIN doc.team : ~Given(doc.team[j].name) \/ ~KnownRole(doc.team[j].role)}}]

-------------------------------------------------------------------------------
(* A comparison of two definitions read back from the store says what the  *)
(* comparison of the two documents said, and a hash that did not move      *)
(* means that nothing comparable did.                                      *)
DiffSurvivesStorage(a, b) ==
    LET pa == canonicalize_contract(a)  pb == canonicalize_contract(b) IN
    pa.valid /\ pb.valid =>
      /\ diff_contracts(schema_from_definition(pa), schema_from_definition(pb)) = diff_contracts(a, b)
      /\ pa = pb => diff_contracts(a, b) = diff_contracts(a, a)

(* Two updates that were each announced as harmless never add up to one    *)
(* that would have been announced as breaking.                             *)
NonBreakingComposes(a, b, c) ==
    ~diff_contracts(a, b).breaking /\ ~diff_contracts(b, c).breaking => ~diff_contracts(a, c).breaking

(* A contract that travels through ODCS keeps its fields, types, levels,   *)
(* obligations, SLA and security; what it loses or gains is warned about,  *)
(* no rule is listed twice, and a second journey changes nothing but the   *)
(* order of the rules, which is not modelled.                              *)
Kept(f, g, grain) ==
    /\ g.name = f.name /\ g.description = f.description /\ g.classification = f.classification
    /\ g.type = (IF Given(f.type) THEN f.type ELSE "unknown")
    /\ g.required = f.required /\ g.unique = (f.unique \/ grain = <<f.name>>)
OdcsRoundTrip(s) ==
    LET out == export_odcs_31(s)
        in == import_odcs_31(out.document)
    IN  /\ in.accepted
        /\ Len(in.schema.output) = Len(s.output)
        /\ \A i \in DOMAIN s.output :
             Kept(s.output[i], in.schema.output[i], s.grain) /\ (Given(s.output[i].entity) => <<"entity", s.output[i].name>> \in out.warnings)
        /\ _sla_tuple(in.schema) = _sla_tuple(s) /\ _security_tuple(in.schema) = _security_tuple(s)
        /\ in.schema.grain = s.grain \/ <<"grain">> \in out.warnings \union in.warnings
        /\ IsInjective(out.document.quality)
        /\ LET again == export_odcs_31(in.schema).document IN
           /\ [again EXCEPT !.quality = <<>>] = [out.document EXCEPT !.quality = <<>>]
           /\ Range(again.quality) = Range(out.document.quality)

(* Nothing of an accepted document disappears without a warning: a rule, a *)
(* property or a field that is not in the result is named, unless a later  *)
(* entry of the same name replaced it.                                     *)
ImportIsLossAware(doc) ==
    LET in == import_odcs_31(doc) IN
    in.accepted =>
      /\ \A i \in DOMAIN doc.quality :
           \/ <<"quality", i>> \in in.warnings
           \/ \E k \in DOMAIN in.schema.output :
                in.schema.output[k].name = doc.quality[i].field
                /\ (IF doc.quality[i].type = "required" THEN in.schema.output[k].required ELSE in.schema.output[k].unique)
      /\ \A i \in DOMAIN doc.slaProperties :
           \/ <<"sla", i>> \in in.warnings
           \/ \E j \in i..Len(doc.slaProperties) :
                SlaKey(doc.slaProperties[i].property) = SlaKey(doc.slaProperties[j].property)
                /\ in.schema.sla[SlaKey(doc.slaProperties[j].property)] = doc.slaProperties[j].value
      /\ \A i \in DOMAIN doc.schema : <<"field", i>> \in in.warnings \/ \E k \in DOMAIN in.schema.output : in.schema.output[k].name = doc.schema[i].name

-------------------------------------------------------------------------------
(* Quality. *)

Null == 0
Columns(table) == table.columns

(* SQL: a comparison with NULL is neither true nor false. *)
Truth(b) == IF b THEN "true" ELSE "false"
Compares(cell, f) == \/ f.operator = "equals" /\ cell = f.value
                     \/ f.operator = "not_equals" /\ cell # f.value
                     \/ f.operator = "less_than" /\ cell < f.value
Holds(cell, f) ==
    IF f.operator \in {"is_null", "is_not_null"} THEN Truth((cell = Null) = (f.operator = "is_null"))
    ELSE IF cell = Null THEN "unknown" ELSE Truth(Compares(cell, f))
Compiled == {"is_null", "is_not_null", "equals", "not_equals", "less_than"}   \* "sql" is not

-------------------------------------------------------------------------------
(* The pipeline of one table: filter, then quality checks, then select.  A *)
(* step keeps the places of the rows it keeps; the order of rows, which no *)
(* check reads, is not modelled.                                           *)
filter(rows, fs) == Restrict(rows, {i \in DOMAIN rows : \A f \in fs : f.operator = "sql" \/ Holds(rows[i][f.column], f) = "true"})
drop_nulls(rows, columns) == Restrict(rows, {i \in DOMAIN rows : \A c \in columns : rows[i][c] # Null})
SameKey(r, q, columns) == \A c \in columns : r[c] = q[c]
drop_duplicates(rows, columns) ==
    IF columns = {} THEN rows
    ELSE Restrict(rows, {i \in DOMAIN rows : ~\E j \in DOMAIN rows : j < i /\ SameKey(rows[j], rows[i], columns)})
(* select maps an output column to its source; <<>> keeps all columns. *)
Output(schema, rows) ==
    LET checked == drop_duplicates(drop_nulls(filter(rows, schema.filter), schema.drop_nulls_in), schema.drop_duplicates_on)
    IN  [columns |-> DOMAIN schema.select, rows |-> [i \in DOMAIN checked |-> [c \in DOMAIN schema.select |-> checked[i][schema.select[c]]]]]

-------------------------------------------------------------------------------
_output_columns(schema) == DOMAIN schema.select
extract(schema) ==
    {[type |-> "NullCheck", columns |-> {c}, severity |-> "critical"] : c \in schema.drop_nulls_in}
    \union (IF schema.drop_duplicates_on = {} THEN {} ELSE {[type |-> "UniqueCheck", columns |-> schema.drop_duplicates_on, severity |-> "critical"]})
    \union {[type |-> "FilterInvariantCheck", columns |-> {f.column}, filter |-> f, severity |-> "warning"] : f \in {g \in schema.filter : g.column \in _output_columns(schema)}}
    \union (IF schema.max_latency THEN {[type |-> "LoadFreshnessCheck", columns |-> {}, severity |-> "critical"]} ELSE {})

Verdict(passed) == IF passed THEN "PASS" ELSE "FAIL"
NullCheck(check, table) == Verdict(\A i \in DOMAIN table.rows, c \in check.columns : table.rows[i][c] # Null)
(* COUNT(DISTINCT a, b) leaves out the rows that have a NULL. *)
UniqueCheck(check, table) ==
    LET key(r) == [c \in check.columns |-> r[c]]
        distinct == Cardinality({key(table.rows[i]) : i \in {j \in DOMAIN table.rows : \A c \in check.columns : table.rows[j][c] # Null}})
    IN  Verdict(Cardinality(DOMAIN table.rows) = distinct)
violation_predicate(f, r) ==
    \/ f.operator = "is_not_null" /\ r[f.column] = Null
    \/ f.operator = "is_null" /\ r[f.column] # Null
    \/ f.operator \notin {"is_null", "is_not_null"} /\ Holds(r[f.column], f) = "false"
FilterInvariantCheck(check, table) ==
    IF check.filter.operator \notin Compiled THEN "SKIPPED"
    ELSE Verdict(\A i \in DOMAIN table.rows : ~violation_predicate(check.filter, table.rows[i]))
(* promoted is the set with the age of the last promotion, if a store was  *)
(* given: an extracted check has none.                                     *)
LoadFreshnessCheck(promoted, now, max_delay) ==
    IF promoted = {} THEN "SKIPPED"
    ELSE LET at == CHOOSE t \in promoted : TRUE IN IF at > now THEN "ERROR" ELSE Verdict(now - at <= max_delay)
(* A query over a column that is not there raises. *)
Queries(check) == check.type = "FilterInvariantCheck" => check.filter.operator \in Compiled
evaluate(check, table) ==
    IF Queries(check) /\ ~(check.columns \subseteq table.columns) THEN "ERROR"
    ELSE CASE check.type = "NullCheck" -> NullCheck(check, table)
           [] check.type = "UniqueCheck" -> UniqueCheck(check, table)
           [] check.type = "FilterInvariantCheck" -> FilterInvariantCheck(check, table)
           [] check.type = "LoadFreshnessCheck" -> LoadFreshnessCheck({}, 0, 0)

-------------------------------------------------------------------------------
(* A report is a sequence of results [status, severity, volume]. *)
Passed(r) == r.status = "PASS"
has_critical_failures(report) == \E i \in DOMAIN report : ~Passed(report[i]) /\ report[i].severity = "critical"
failures(report) == {i \in DOMAIN report : ~Passed(report[i])}
Failed(report) == \E i \in DOMAIN report : report[i].status = "FAIL"
summary_status(report) ==
    IF failures(report) = {} THEN "PASS" ELSE IF \E i \in DOMAIN report : ~Passed(report[i]) /\ report[i].severity = "critical" THEN "CRITICAL" ELSE "WARN"
_check_table(report, raise_on_critical) == IF raise_on_critical /\ has_critical_failures(report) THEN "DataQualityError" ELSE "report"

(* The stored form keeps status and the flag; actual values become text.   *)
_report_to_dict(report) == [i \in DOMAIN report |-> [status |-> report[i].status, passed |-> Passed(report[i]), severity |-> report[i].severity, type |-> report[i].type, actual |-> report[i].actual]]
_dict_to_report(d) == [i \in DOMAIN d |-> [status |-> d[i].status, severity |-> d[i].severity, type |-> d[i].type, actual |-> d[i].actual]]

_hydrate_volume_variation_contracts(history) ==
    IF history = {} THEN {}
    ELSE LET report == CHOOSE h \in history : TRUE
             counts == {i \in DOMAIN report : report[i].type = "VolumeCheck" /\ report[i].actual # {}}
         IN  IF counts = {} THEN {} ELSE report[Min(counts)].actual
\* An empty previous run is taken for no previous run.
VolumeVariationCheck_falsy(current, previous, percent) ==
    IF previous \in {{}, {0}} THEN "PASS"
    ELSE LET p == CHOOSE n \in previous : TRUE IN Verdict((IF current > p THEN current - p ELSE p - current) * 100 <= percent * p)
VolumeVariationCheck(current, previous, percent) ==
    IF previous = {} THEN "PASS"
    ELSE LET p == CHOOSE n \in previous : TRUE
         IN  IF p = 0 THEN Verdict(current = 0) ELSE Verdict((IF current > p THEN current - p ELSE p - current) * 100 <= percent * p)
VolumeCheck(count, min_rows, max_rows) == Verdict((min_rows = {} \/ \A m \in min_rows : count >= m) /\ (max_rows = {} \/ \A m \in max_rows : count <= m))

(* One run of the monitor over a table of count rows; the count query may  *)
(* fail, and so may the history.                                           *)
MonitorRun(history, run) ==
    LET previous == _hydrate_volume_variation_contracts(history)
        volume == IF run.broken THEN [status |-> "ERROR", severity |-> "warning", type |-> "VolumeCheck", actual |-> {}]
                  ELSE [status |-> VolumeCheck(run.count, {1}, {}), severity |-> "warning", type |-> "VolumeCheck", actual |-> {run.count}]
        variation == [status |-> IF run.broken THEN "ERROR" ELSE VolumeVariationCheck(run.count, previous, 30), severity |-> "warning", type |-> "VolumeVariationCheck", actual |-> {}]
        report == <<volume, variation>>
    IN  [report |-> report, history |-> IF run.stored THEN {_dict_to_report(_report_to_dict(report))} ELSE history]

-------------------------------------------------------------------------------
Severity == [info |-> 0, warning |-> 1, critical |-> 2]
_notify_channel(channel, failing) == channel \notin failing
SeverityRank(severity) == IF severity \in DOMAIN Severity THEN Severity[severity] ELSE 1
Alerted(report, min_severity) == {i \in failures(report) : SeverityRank(report[i].severity) >= SeverityRank(min_severity)}
dispatch(report, config, failing) ==
    IF Alerted(report, config.min_severity) = {} THEN {} ELSE {c \in config.channels : _notify_channel(c, failing)}
dispatch_incident(incidents, config, failing) ==
    IF incidents = {} THEN {}
    ELSE {c \in config.channels : (c = "email" => config.recipients) /\ _notify_channel(c, failing)}

-------------------------------------------------------------------------------
(* What the pipeline enforced, its own checks confirm: over columns that   *)
(* the output passes through unchanged, and keys without NULL, no derived  *)
(* check of the rows fails or errors, for the three values SQL conditions  *)
(* have.                                                                   *)
RowChecksHoldOnOutput(schema, rows) ==
    LET out == Output(schema, rows)
        through(c) == c \in DOMAIN schema.select => schema.select[c] = c
        sound(check) ==
            \/ check.type = "FilterInvariantCheck" /\ \A c \in check.columns : through(c)
            \/ check.type = "NullCheck" /\ \A c \in check.columns : c \in DOMAIN schema.select /\ through(c)
            \/ check.type = "UniqueCheck" /\ check.columns \subseteq schema.drop_nulls_in /\ \A c \in check.columns : c \in DOMAIN schema.select /\ through(c)
    IN  \A check \in extract(schema) : sound(check) => evaluate(check, out) \in {"PASS", "SKIPPED"}

(* "Checks derived from quality_checks are already enforced at runtime, so *)
(* a violation post-write indicates a bug": none of them fails or errors   *)
(* on what the pipeline of the same document writes.                       *)
EnforcedChecksPass(schema, rows) ==
    \A check \in extract(schema) : check.type \in {"NullCheck", "UniqueCheck"} => evaluate(check, Output(schema, rows)) = "PASS"

(* The four verdicts on a report agree: the summary says CRITICAL exactly  *)
(* when the run is blocked, and an alert for critical failures goes out    *)
(* exactly then.                                                           *)
VerdictsAgree(report) ==
    /\ (summary_status(report) = "CRITICAL") = has_critical_failures(report)
    /\ (_check_table(report, TRUE) = "DataQualityError") = (summary_status(report) = "CRITICAL")
    /\ (dispatch(report, [min_severity |-> "critical", channels |-> {"slack"}], {}) # {}) = has_critical_failures(report)
    /\ (summary_status(report) = "PASS") = (dispatch(report, [min_severity |-> "info", channels |-> {"slack"}], {}) = {})

(* A change of volume against the last stored count is flagged whatever    *)
(* happened in between: a previous run that was itself flagged, an empty   *)
(* table, a history that could not be written.                             *)
VariationIsAgainstLastStored(runs) ==
    LET state[i \in 0..Len(runs)] == IF i = 0 THEN [report |-> <<>>, history |-> {}] ELSE MonitorRun(state[i - 1].history, runs[i])
        stored(i) == {j \in 1..(i - 1) : runs[j].stored}
        far(a, b) == IF a = 0 THEN b # 0 ELSE (IF b > a THEN b - a ELSE a - b) * 100 > 30 * a
    IN  \A i \in 1..Len(runs) : ~runs[i].broken =>
            (state[i].report[2].status = "FAIL") = (stored(i) # {} /\ LET l == Max(stored(i)) IN ~runs[l].broken /\ far(runs[l].count, runs[i].count))

(* Every channel is tried: one that fails keeps no other from being told.  *)
EveryChannelIsTold(report, config, failing) ==
    LET told == dispatch(report, config, failing)
    IN  /\ told = {} \/ told = config.channels \ failing
        /\ Alerted(report, config.min_severity) # {} /\ config.channels \ failing # {} => told # {}
        /\ told \ (IF config.recipients THEN {} ELSE {"email"}) = dispatch_incident(IF Alerted(report, config.min_severity) = {} THEN {} ELSE {"incident"}, config, failing)
==================================================================================
