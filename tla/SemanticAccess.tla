---------------------------- MODULE SemanticAccess ---------------------------
(***************************************************************************)
(* Whether certifications let a consumer read (semantic/access_policy.py). *)
(* A certification is None or [certified, checksPassed, at]; at is None    *)
(* when it is not known.  Instants are hours.                              *)
(***************************************************************************)
EXTENDS Integers, Sequences, FiniteSets

CONSTANTS MaxOverrideWindow,      \* MAX_OVERRIDE_WINDOW
          MaxAge                  \* semantic_certification_max_age, or None

None == -1
NoCertification == [certified |-> FALSE, checksPassed |-> FALSE, at |-> None]
NoOverride == [given |-> FALSE]

\* An override is [given, complete, actor, expires]: complete when it has a
\* reason, an actor and a trace.
_validate_override(override, now, context) ==
    /\ context.mayOverride /\ override.complete
    /\ override.actor = context.id
    /\ override.expires > now /\ override.expires - now <= MaxOverrideWindow

_reason_for(value, now) ==
    IF ~value.certified THEN {"MISSING"}
    ELSE IF ~value.checksPassed THEN {"FAILED_CHECK"}
    ELSE IF MaxAge # None /\ (value.at = None \/ now - value.at > MaxAge) THEN {"EXPIRED"}
    ELSE {}

evaluate(certifications, context, mode, now, override) ==
    LET unmet == UNION {_reason_for(v, now) : v \in certifications}
    IN IF override.given
       THEN IF _validate_override(override, now, context) THEN [decision |-> "ALLOW", reasons |-> {"OVERRIDDEN"}]
            ELSE [decision |-> "ERROR", reasons |-> {}]
       ELSE IF mode = "off" \/ unmet = {} THEN [decision |-> "ALLOW", reasons |-> {}]
       ELSE [decision |-> [warn |-> "WARN", enforce |-> "DENY", supervised |-> "REQUIRE_HUMAN"][mode], reasons |-> unmet]

\* The window of a contract has inclusive days; None leaves an end open.
evaluate_lifecycle(status, from, until, today) ==
    IF (from # None /\ today < from) \/ (until # None /\ today > until) THEN "DENY"
    ELSE IF status = "deprecated" THEN "WARN" ELSE "ALLOW"
------------------------------------------------------------------------------
\* The days on which a contract is in force form one interval, which a
\* deprecation leaves as it is.
WindowIsOneInterval(in) ==
    LET InForce(t) == evaluate_lifecycle(in.status, in.from, in.until, t) # "DENY"
    IN \A s, t, u \in in.times :
          /\ s < t /\ t < u /\ InForce(s) /\ InForce(u) => InForce(t)
          /\ InForce(t) <=> evaluate_lifecycle("active", in.from, in.until, t) = "ALLOW"

\* A certificate never gets better by waiting: what enforcement refuses
\* now it refuses later, and an override ends within its window.
AccessExpires(in) ==
    LET At(t) == evaluate(in.certifications, in.context, "enforce", t, in.override).decision
    IN \A t, u \in in.times : t < u =>
          /\ ~in.override.given /\ At(t) = "DENY" => At(u) = "DENY"
          /\ in.override.given /\ At(t) = "ALLOW" /\ u - t >= MaxOverrideWindow => At(u) # "ALLOW"
          /\ in.override.given /\ At(t) = "ALLOW" => in.context.mayOverride /\ in.override.actor = in.context.id

\* With a limit on age, enforcement lets nothing through whose age is not
\* known to be within it.
EnforcedIsFresh(in) ==
    \A t \in in.times :
        ~in.override.given /\ evaluate(in.certifications, in.context, "enforce", t, in.override).decision = "ALLOW"
            => \A v \in in.certifications : v.certified /\ v.checksPassed /\ v.at # None /\ v.at + MaxAge >= t
==============================================================================
