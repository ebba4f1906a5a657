------------------------- MODULE CapabilityValidation ------------------------
(***************************************************************************)
(* The pure checks of the capability layer: the validator of a definition  *)
(* (capabilities/validator.py), the validation of arguments against its    *)
(* input schema (capabilities/invoker.py) and the preconditions            *)
(* (capabilities/preconditions.py).                                        *)
(*                                                                         *)
(* A schema is a function on the keywords it contains, a value carries its *)
(* Python type in the field t.  Error lists are abstracted to the set of   *)
(* the kinds of error in them; the cap of 32 messages cuts such a list but *)
(* never empties it.                                                       *)
(***************************************************************************)
EXTENDS Naturals, Sequences, FiniteSets, Autonomy

CONSTANTS MaxSchemaDepth,    \* _MAX_SCHEMA_DEPTH
          MaxRules           \* PreconditionEvaluator max_rules

KEYWORDS ==
    [string  |-> {"type", "maxLength", "enum"},
     integer |-> {"type", "minimum", "maximum", "enum"},
     object  |-> {"type", "additionalProperties", "required", "properties"},
     array   |-> {"type", "maxItems", "items"}]

Text(n) == [t |-> "string", len |-> n]      \* a text of n characters
Int(n) == [t |-> "integer", i |-> n]
Bool(x) == [t |-> "boolean", b |-> x]
Object(g) == [t |-> "object", f |-> g]
List(s) == [t |-> "array", e |-> s]

Has(schema, keyword) == keyword \in DOMAIN schema

\* The part of _validate_object_schema that concerns the node itself.
ValidObject(schema) ==
    /\ Has(schema, "additionalProperties") /\ ~schema["additionalProperties"]
    /\ Has(schema, "properties")
    /\ Has(schema, "required")
    /\ schema["required"] \subseteq DOMAIN schema["properties"]

ValidArray(schema) ==
    Has(schema, "maxItems") /\ schema["maxItems"] \in 0..100 /\ Has(schema, "items")

ValidString(schema) == Has(schema, "maxLength") /\ schema["maxLength"] \in 0..4096

ValidNumber(schema) ==
    /\ Has(schema, "minimum") /\ Has(schema, "maximum")
    /\ schema["minimum"] <= schema["maximum"]

ValidEnum(schema) ==
    Has(schema, "enum") =>
        /\ schema["enum"] # {}
        /\ \A e \in schema["enum"] : e.t = schema["type"]

\* The schemas directly below a schema, and those d levels below it.
Children(schema) ==
    (IF Has(schema, "properties") THEN {schema["properties"][p] : p \in DOMAIN schema["properties"]} ELSE {})
    \union (IF Has(schema, "items") THEN {schema["items"]} ELSE {})
SchemaLevels(schema) ==
    LET level[d \in 0..MaxSchemaDepth] == IF d = 0 THEN {schema} ELSE UNION {Children(s) : s \in level[d - 1]}
    IN  level

\* _validate_schema_node: closed keyword sets per type, bounded nesting.
ValidNode(schema, depth) ==
    /\ Has(schema, "type") /\ schema["type"] \in DOMAIN KEYWORDS
    /\ DOMAIN schema \subseteq KEYWORDS[schema["type"]]
    /\ depth = 0 => schema["type"] = "object"
    /\ depth = MaxSchemaDepth => Children(schema) = {}
    /\ ValidEnum(schema)
    /\ schema["type"] = "object" => ValidObject(schema)
    /\ schema["type"] = "array" => ValidArray(schema)
    /\ schema["type"] = "string" => ValidString(schema)
    /\ schema["type"] = "integer" => ValidNumber(schema)
ValidSchema(schema) ==
    \A d \in 0..MaxSchemaDepth : \A s \in SchemaLevels(schema)[d] : ValidNode(s, d)

\* _check_idempotency: a write needs a key; a key is a required property.
ValidIdempotency(p) ==
    IF p.key = "none" THEN p.mode # "write"
    ELSE /\ Has(p.schema, "properties") /\ p.key \in DOMAIN p.schema["properties"]
         /\ Has(p.schema, "required") /\ p.key \in p.schema["required"]

\* _check_compensation: exactly the compensatable capabilities name another one.
ValidCompensation(p) ==
    IF p.reversibility = "compensatable" THEN p.compensation \notin {"none", p.id}
    ELSE p.compensation = "none"

ValidApproval(p) == p.reversibility = "irreversible" => p.approval = "SUPERVISED"

\* CapabilityValidator.validate and parse_capability.
ValidCapability(p) ==
    /\ p.mode = "write" => p.scopes # {}
    /\ ValidSchema(p.schema)
    /\ ValidIdempotency(p)
    /\ ValidCompensation(p)
    /\ ValidApproval(p)
------------------------------------------------------------------------------
\* _validate_value: the kinds of error found at one value.  "KeyError" stands
\* for a keyword that the code reads without asking whether it is there.
Needs(type) ==
    IF type = "object" THEN {"properties", "required"}
    ELSE IF type = "array" THEN {"maxItems", "items"}
    ELSE IF type = "string" THEN {"maxLength"}
    ELSE IF type = "integer" THEN {"minimum", "maximum"} ELSE {}
Readable(schema, value) ==
    Has(schema, "type") /\ value.t = schema["type"] /\ Needs(value.t) \subseteq DOMAIN schema

ValueErrors(schema, value) ==
    IF ~Has(schema, "type") THEN {"KeyError"}
    ELSE IF value.t # schema["type"] THEN {"type"}
    ELSE {k \in {"enum"} : Has(schema, "enum") /\ value \notin schema["enum"]}
         \union
         IF ~Readable(schema, value) THEN {"KeyError"}
         ELSE IF value.t = "object"
         THEN {k \in {"unknown"} : ~(DOMAIN value.f \subseteq DOMAIN schema["properties"])}
              \union {k \in {"required"} : ~(schema["required"] \subseteq DOMAIN value.f)}
         ELSE IF value.t = "array" THEN {k \in {"items"} : Len(value.e) > schema["maxItems"]}
         ELSE IF value.t = "string" THEN {k \in {"length"} : value.len > schema["maxLength"]}
         ELSE IF value.t = "integer" THEN {k \in {"range"} : value.i < schema["minimum"] \/ value.i > schema["maximum"]}
         ELSE {}

\* The descent: the values inside a value, each with its schema.  An array that
\* is too long is not entered.  Only accepted schemas are used, so that no
\* descent is deeper than MaxSchemaDepth.
Inside(schema, value) ==
    IF ~Readable(schema, value) THEN {}
    ELSE IF value.t = "object"
    THEN {<<schema["properties"][p], value.f[p]>> : p \in DOMAIN schema["properties"] \intersect DOMAIN value.f}
    ELSE IF value.t = "array" /\ Len(value.e) <= schema["maxItems"]
    THEN {<<schema["items"], value.e[i]>> : i \in DOMAIN value.e}
    ELSE {}
ValueLevels(schema, value) ==
    LET level[d \in 0..MaxSchemaDepth] ==
            IF d = 0 THEN {<<schema, value>>} ELSE UNION {Inside(v[1], v[2]) : v \in level[d - 1]}
    IN  level
Errors(schema, value) ==
    UNION {UNION {ValueErrors(v[1], v[2]) : v \in ValueLevels(schema, value)[d]} : d \in 0..MaxSchemaDepth}

\* A schema the validator accepts never makes argument validation fail on a
\* missing keyword, whatever the arguments (invoker.py reads them unguarded).
AcceptedSchemaIsTotal(in) ==
    ValidCapability(in.p) => "KeyError" \notin Errors(in.p.schema, in.args)

\* Arguments accepted for a valid write capability carry its idempotency key,
\* on which request identity and duplicate suppression rest.
WriteCallCarriesKey(in) ==
    ValidCapability(in.p) /\ in.p.mode = "write" /\ Errors(in.p.schema, in.args) = {}
        => in.p.key \in DOMAIN in.args.f

\* However lenient the configuration, a valid irreversible capability never
\* runs without an approval.
IrreversibleIsNeverGuarded(in) ==
    ValidCapability(in.p) /\ in.p.reversibility = "irreversible"
        => \A configured \in AutonomyMode :
               resolve_autonomy_mode(in.p.approval, configured) # "GUARDED"
------------------------------------------------------------------------------
\* What one registered rule may do with a state, and what _evaluate_rule makes
\* of it: only a well-formed outcome about itself counts.
RuleBehaviour == {"ALLOW", "DENY", "UNKNOWN", "raises", "malformed", "about_another", "unregistered"}
evaluate_rule(behaviour) ==
    IF behaviour \in {"ALLOW", "DENY", "UNKNOWN"} THEN behaviour ELSE "UNKNOWN"

aggregate(outcomes) ==
    IF "DENY" \in outcomes THEN "DENY"
    ELSE IF "UNKNOWN" \in outcomes THEN "UNKNOWN" ELSE "ALLOW"

\* evaluate: too many rules raise; an unreadable state makes every rule UNKNOWN.
\* rules is the sequence of behaviours on the state, hash what it identifies.
evaluate(rules, state) ==
    IF Len(rules) > MaxRules THEN [decision |-> "raised", hashes |-> <<>>]
    ELSE LET outcome(i) == IF state.readable THEN evaluate_rule(rules[i]) ELSE "UNKNOWN"
         IN [decision |-> aggregate({outcome(i) : i \in DOMAIN rules}),
             hashes |-> [i \in DOMAIN rules |-> IF state.readable THEN state.hash ELSE "unavailable"]]

assert_unchanged(report, rules, state) ==
    /\ report.decision = "ALLOW"
    /\ evaluate(rules, state).decision = "ALLOW"
    /\ report.hashes = evaluate(rules, state).hashes

\* The decision is the fail-closed reading of the rules: ALLOW only if every
\* rule said so on a readable state, DENY whenever one did.
PreconditionsFailClosed(in) ==
    LET d == evaluate(in.rules, in.before).decision
        said == {in.rules[i] : i \in DOMAIN in.rules}
    IN /\ d = "ALLOW" => said \subseteq {"ALLOW"} /\ (said # {} => in.before.readable)
       /\ d # "raised" /\ in.before.readable /\ "DENY" \in said => d = "DENY"

\* If the recheck passes, the state that the executor is about to act on is
\* the one the decision was made on.
RecheckPinsTheState(in) ==
    in.rules # <<>> /\ assert_unchanged(evaluate(in.rules, in.before), in.rules, in.after)
        => in.after = in.before
==============================================================================
