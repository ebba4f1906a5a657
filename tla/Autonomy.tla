------------------------------ MODULE Autonomy ------------------------------
(***************************************************************************)
(* The autonomy policy of capabilities/autonomy.py: which mode a call runs *)
(* in, which state may follow which, and when an approval binds to a       *)
(* request.  Hashes are abstracted to what they identify: a request hash   *)
(* is the request identity, a precondition hash the live state that the    *)
(* report observed.                                                        *)
(***************************************************************************)
EXTENDS Naturals

CONSTANT MaxApprovalWindow          \* MAX_APPROVAL_WINDOW, in clock ticks

ASSUME MaxApprovalWindowAssumption == MaxApprovalWindow \in Nat \ {0}

AutonomyMode == {"SHADOW", "SUPERVISED", "GUARDED"}

\* The whole legal graph of execution states.
TRANSITIONS ==
    [PROPOSED             |-> {"PRECONDITIONS_PASSED"},
     PRECONDITIONS_PASSED |-> {"PENDING_APPROVAL", "EXECUTING"},
     PENDING_APPROVAL     |-> {"APPROVED"},
     APPROVED             |-> {"EXECUTING"},
     EXECUTING            |-> {"EXECUTED", "FAILED"},
     EXECUTED             |-> {"COMPENSATING"},
     FAILED               |-> {"COMPENSATING"},
     COMPENSATING         |-> {"COMPENSATED", "FAILED"},
     COMPENSATED          |-> {}]

Rank(mode) == CASE mode = "SHADOW" -> 2 [] mode = "SUPERVISED" -> 1
                [] mode = "GUARDED" -> 0

\* The stricter of the declared and the configured mode.
resolve_autonomy_mode(declared, configured) ==
    IF Rank(declared) >= Rank(configured) THEN declared ELSE configured

\* Mutant of validate_approval: the observed state is not compared.
ValidateWithoutState(a, id, pre, now) ==
    a.decision = "approved" /\ a.expires > now /\ a.id = id

\* validate_approval: decision, strict expiry, window, identity and observed
\* state must all bind to this request.
validate_approval(a, id, pre, now) ==
    /\ a.decision = "approved"
    /\ a.expires > now
    /\ a.expires - a.granted <= MaxApprovalWindow
    /\ a.id = id
    /\ a.pre = pre
=============================================================================
