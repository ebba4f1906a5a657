-------------------------- MODULE GovernedExecutor --------------------------
(***************************************************************************)
(* GovernedExecutor (capabilities/executor.py): the one write boundary to  *)
(* an external system.  Threads call execute and compensate; each call     *)
(* runs under the re-entrant lock of the GovernedExecutor instance it was  *)
(* made on, but the journal, the live state, the clock and the external    *)
(* system are shared with everyone else, so they may change between any    *)
(* two of the steps below.  A crash of the process that holds an instance  *)
(* drops its calls wherever they are; only the journal survives.           *)
(***************************************************************************)
EXTENDS Autonomy, Sequences, FiniteSets

(***************************************************************************)
(* The append-only journal of governed capability requests                 *)
(* (capabilities/history.py) as pure operators on one request's log: the   *)
(* rows of capability_state_events that carry its request hash, in rowid   *)
(* order.  Event payloads are reduced to the three fields the control flow *)
(* reads: the execution state, the "kind" of the detail and the wall-clock *)
(* stamp the rows are ordered by.                                          *)
(***************************************************************************)

ExecutionState == {"PROPOSED", "PRECONDITIONS_PASSED", "PENDING_APPROVAL",
                   "APPROVED", "EXECUTING", "EXECUTED", "FAILED",
                   "COMPENSATING", "COMPENSATED"}

EventKind == {"external_call", "external_outcome", "reconciliation_attempt",
              "reconciliation", "compensation_started", "compensation_completed"}

CapabilityStateEvent == [state: ExecutionState, kind: EventKind, at: Nat]

Event(state, kind, at) == [state |-> state, kind |-> kind, at |-> at]

\* ORDER BY occurred_at DESC, rowid DESC LIMIT 1: the stamp decides, and the
\* insertion order only breaks ties.
LatestIndex(log) ==
    CHOOSE i \in DOMAIN log :
        \A j \in DOMAIN log : \/ log[j].at < log[i].at
                              \/ log[j].at = log[i].at /\ j <= i

latest_state(log) == log[LatestIndex(log)].state

\* The number of reconciliation attempts already journalled for the request.
Attempts(log) ==
    Cardinality({i \in DOMAIN log : log[i].kind = "reconciliation_attempt"})

\* The state of the row inserted last, whatever its stamp says.
LastState(log) == log[Len(log)].state

-----------------------------------------------------------------------------

CONSTANTS
    Ids,            \* request identities (request_hash values)
    None,
    Threads,
    Boundaries,     \* GovernedExecutor instances, one per process
    BoundaryOf,     \* the instance each thread calls
    Origin,         \* the original that a compensation identity undoes, or None
    Declared,       \* the approval mode each capability declares
    Direct,         \* identities that clients pass to execute themselves
    Authorized,     \* identities that pass _authorize_definition
    Irreversible, Credentialed, WithLookup, Preconditioned,
    LiveStates,     \* values of the live state the precondition rules read
    AllowStates,    \* those for which every rule answers ALLOW
    Approvals,      \* approval records a caller can present
    Modes,          \* autonomy modes passed to execute
    CompensationModes, \* modes passed to compensate; None means the declared one
    Leases,         \* whether callers bring a credential lease of their own
    MaxRetries,     \* max_retries
    MaxNow, MaxCrashes, ClockStepsBack

Approval == [id: Ids, pre: LiveStates \union {None},
             decision: {"approved", "denied"}, granted: Nat, expires: Nat]

ASSUME ConstantsAssumption ==
    /\ None \notin Ids \union Threads \union LiveStates \union Approval
    /\ None \notin AutonomyMode
    /\ BoundaryOf \in [Threads -> Boundaries]
    /\ Origin \in [Ids -> Ids \union {None}]
    /\ Declared \in [Ids -> AutonomyMode]
    /\ Direct \subseteq Ids
    /\ AllowStates \subseteq LiveStates
    /\ Approvals \subseteq Approval
    /\ Modes \subseteq AutonomyMode
    /\ CompensationModes \subseteq AutonomyMode \union {None}
    /\ Leases \subseteq BOOLEAN
    /\ MaxRetries \in Nat /\ MaxNow \in Nat /\ MaxCrashes \in Nat
    /\ ClockStepsBack \in BOOLEAN

VARIABLES
    journal,   \* the durable log of each identity
    lock,      \* the owner of each instance's _execution_lock
    pc,        \* where each thread is inside the boundary
    frame,     \* its arguments and locals; kept after the return with the reply
    live,      \* the state that precondition rules observe
    now,       \* the wall clock
    calls,     \* how many times each identity's external executor was called
    effects,   \* how many of those calls have taken effect outside
    crashes

vars == <<journal, lock, pc, frame, live, now, calls, effects, crashes>>
outside == <<live, now, calls, effects, crashes>>

PC == {"idle", "evaluate", "recheck", "begin", "attest", "lease", "call",
       "await", "record", "reconcile", "lookup", "settle", "comp_exec", "comp_done"}

Reply == {"none", "succeeded", "failed", "proposed", "refused", "duplicate",
          "lost", "error"}

Frame == [id: Ids \union {None}, orig: Ids \union {None}, mode: AutonomyMode,
          appr: Approvals \union {None}, lease: BOOLEAN,
          rep: LiveStates \union {None}, out: {"EXECUTED", "FAILED"}, reply: Reply]

NewFrame(id, orig, mode, appr, lease, rep) ==
    [id |-> id, orig |-> orig, mode |-> mode, appr |-> appr, lease |-> lease,
     rep |-> rep, out |-> "FAILED", reply |-> "none"]

Init ==
    /\ journal = [id \in Ids |-> <<>>]
    /\ lock = [b \in Boundaries |-> None]
    /\ pc = [t \in Threads |-> "idle"]
    /\ frame = [t \in Threads |-> NewFrame(None, None, "SHADOW", None, FALSE, None)]
    /\ live \in LiveStates
    /\ now = 0
    /\ calls = [id \in Ids |-> 0]
    /\ effects = [id \in Ids |-> 0]
    /\ crashes = 0

-----------------------------------------------------------------------------
(* Control flow inside the boundary. *)

Goto(t, f, p) ==
    /\ frame' = [frame EXCEPT ![t] = f]
    /\ pc' = [pc EXCEPT ![t] = p]
    /\ lock' = [lock EXCEPT ![BoundaryOf[t]] = t]

\* _execute returns or raises.  Inside compensate a result whose status is
\* "succeeded" (a shadow proposal has that status too) continues with the
\* COMPENSATED event; everything else leaves the boundary and frees the lock.
Return(t, f, reply) ==
    LET resumes == f.orig # None /\ reply \in {"succeeded", "proposed"}
    IN  /\ frame' = [frame EXCEPT ![t] = [f EXCEPT !.reply = reply]]
        /\ pc' = [pc EXCEPT ![t] = IF resumes THEN "comp_done" ELSE "idle"]
        /\ lock' = [lock EXCEPT ![BoundaryOf[t]] = IF resumes THEN t ELSE None]

Append_(id, state, kind) ==
    journal' = [journal EXCEPT ![id] = Append(@, Event(state, kind, now))]

MayReconcile(id) == id \in WithLookup /\ Attempts(journal[id]) < MaxRetries

\* Mutant of _resolve_prior: a lost response is retried as if it never happened.
ResolveByRetrying(t, f) ==
    LET prior == latest_state(journal[f.id])
    IN  \/ prior = "EXECUTED" /\ Return(t, f, "succeeded")
        \/ prior = "EXECUTING" /\ Goto(t, f, "evaluate")
        \/ prior \notin {"EXECUTED", "EXECUTING"} /\ Return(t, f, "duplicate")

\* _resolve_prior, with the refusals of _reconcile_lost_response that come
\* before its attempt is journalled.
_resolve_prior(t, f) ==
    LET prior == latest_state(journal[f.id])
    IN  \/ /\ prior = "EXECUTED"
           /\ Return(t, f, "succeeded")
        \/ /\ prior = "EXECUTING" /\ MayReconcile(f.id)
           /\ Goto(t, f, "reconcile")
        \/ /\ prior = "EXECUTING" /\ ~MayReconcile(f.id)
           /\ Return(t, f, "lost")
        \/ /\ prior \notin {"EXECUTED", "EXECUTING"}
           /\ Return(t, f, "duplicate")

\* The head of _execute, under the lock: the journal is consulted first; only
\* an identity with no history is authorized and moves on to its preconditions.
Dispatch(t, f) ==
    LET effective == resolve_autonomy_mode(Declared[f.id], f.mode)
        refused   == \/ f.id \notin Authorized
                     \/ effective = "SHADOW" /\ f.lease
                     \/ effective = "GUARDED" /\ f.id \in Irreversible
    IN  \/ /\ journal[f.id] # <<>>
           /\ _resolve_prior(t, f)
        \/ /\ journal[f.id] = <<>> /\ refused
           /\ Return(t, f, "refused")
        \/ /\ journal[f.id] = <<>> /\ ~refused /\ effective = "SHADOW"
           /\ Return(t, f, "proposed")
        \/ /\ journal[f.id] = <<>> /\ ~refused /\ effective # "SHADOW"
           /\ Goto(t, [f EXCEPT !.mode = effective], "evaluate")

\* Mutant of CanEnter: a plain Lock instead of an RLock.
CanEnterPlainLock(t) == lock[BoundaryOf[t]] = None

\* The lock is free, or is already held by this thread (RLock).
CanEnter(t) == lock[BoundaryOf[t]] \in {None, t}

\* execute: a client presents a request, with an approval where one is used and
\* possibly a precondition report that it obtained earlier.
Execute(t) ==
    \E id \in Direct, m \in Modes, a \in Approvals \union {None},
       l \in Leases, r \in LiveStates \union {None} :
        /\ pc[t] = "idle" /\ CanEnter(t)
        /\ a # None => resolve_autonomy_mode(Declared[id], m) = "SUPERVISED"
        /\ r # None => id \in Preconditioned
        /\ Dispatch(t, NewFrame(id, None, m, a, l, r))
        /\ UNCHANGED <<journal, outside>>

\* _prepare_report, first half: evaluate the rules on the live state unless the
\* caller brought a report, and require an ALLOW; the state reader may raise.
Evaluate(t) ==
    LET f        == frame[t]
        observed == IF f.rep = None THEN live ELSE f.rep
    IN  /\ pc[t] = "evaluate"
        /\ \/ /\ f.id \notin Preconditioned
              /\ Goto(t, f, "begin")
           \/ /\ f.id \in Preconditioned /\ observed \in AllowStates
              /\ Goto(t, [f EXCEPT !.rep = observed], "recheck")
           \/ /\ f.id \in Preconditioned
              /\ f.rep = None \/ observed \notin AllowStates
              /\ Return(t, f, "refused")
        /\ UNCHANGED <<journal, outside>>

Unchanged(f) == live \in AllowStates /\ live = f.rep

\* assert_unchanged: the state is read again just before execution; a changed
\* state, or a reader that raises, refuses the request.
Recheck(t) ==
    /\ pc[t] = "recheck"
    /\ \/ /\ Unchanged(frame[t])
          /\ Goto(t, [frame[t] EXCEPT !.rep = live], "begin")
       \/ Return(t, frame[t], "refused")
    /\ UNCHANGED <<journal, outside>>

Approved(f) == f.appr # None /\ validate_approval(f.appr, f.id, f.rep, now)

\* begin_execution: SUPERVISED needs an approval that binds to this request and
\* to the report just re-evaluated.
BeginExecution(t) ==
    /\ pc[t] = "begin"
    /\ \/ /\ frame[t].mode = "SUPERVISED" => Approved(frame[t])
          /\ Goto(t, frame[t], "attest")
       \/ /\ frame[t].mode = "SUPERVISED" /\ ~Approved(frame[t])
          /\ Return(t, frame[t], "refused")
    /\ UNCHANGED <<journal, outside>>

\* Mutant of Attest: the pre-call event is left to the outcome.
AttestLater(t) ==
    /\ pc[t] = "attest"
    /\ Goto(t, frame[t], "lease")
    /\ UNCHANGED <<journal, outside>>

\* The write-ahead event; if the store refuses it, nothing was called.
Attest(t) ==
    /\ pc[t] = "attest"
    /\ \/ /\ Append_(frame[t].id, "EXECUTING", "external_call")
          /\ Goto(t, frame[t], "lease")
       \/ /\ Return(t, frame[t], "error")
          /\ UNCHANGED journal
    /\ UNCHANGED outside

\* _acquire_lease: the broker may refuse; a lease handed to an executor that
\* declares no credential is an error.  Both end as a FAILED outcome.
AcquireLease(t) ==
    LET f == frame[t]
    IN  /\ pc[t] = "lease"
        /\ \/ /\ f.id \in Credentialed \/ ~f.lease
              /\ Goto(t, f, "call")
           \/ /\ f.id \in Credentialed \/ f.lease
              /\ Goto(t, [f EXCEPT !.out = "FAILED"], "record")
        /\ UNCHANGED <<journal, outside>>

\* The external executor is invoked.
CallExecutor(t) ==
    /\ pc[t] = "call"
    /\ calls' = [calls EXCEPT ![frame[t].id] = @ + 1]
    /\ Goto(t, frame[t], "await")
    /\ UNCHANGED <<journal, live, now, effects, crashes>>

\* It returns a mapping, which it does only once the effect took place, or it
\* raises (or returns something that is not a mapping), effect or not.
Respond(t) ==
    /\ pc[t] = "await"
    /\ \/ /\ effects[frame[t].id] > 0
          /\ Goto(t, [frame[t] EXCEPT !.out = "EXECUTED"], "record")
       \/ Goto(t, [frame[t] EXCEPT !.out = "FAILED"], "record")
    /\ UNCHANGED <<journal, outside>>

ResultOf(out) == IF out = "EXECUTED" THEN "succeeded" ELSE "failed"

\* Mutant of Record: a failure to store the outcome is swallowed.
RecordSwallowingFailure(t) ==
    LET f == frame[t]
    IN  /\ pc[t] = "record"
        /\ \/ Append_(f.id, f.out, "external_outcome")
           \/ UNCHANGED journal
        /\ Return(t, f, ResultOf(f.out))
        /\ UNCHANGED outside

\* The outcome event, which may fail to be built or stored after the side
\* effect; that failure crosses the boundary.
Record(t) ==
    LET f == frame[t]
    IN  /\ pc[t] = "record"
        /\ \/ /\ Append_(f.id, f.out, "external_outcome")
              /\ Return(t, f, ResultOf(f.out))
           \/ /\ Return(t, f, "error")
              /\ UNCHANGED journal
        /\ UNCHANGED outside

\* _reconcile_lost_response journals its attempt before the lookup...
ReconcileAttempt(t) ==
    /\ pc[t] = "reconcile"
    /\ \/ /\ Append_(frame[t].id, "EXECUTING", "reconciliation_attempt")
          /\ Goto(t, frame[t], "lookup")
       \/ /\ Return(t, frame[t], "error")
          /\ UNCHANGED journal
    /\ UNCHANGED outside

\* Mutant of Lookup: an undetermined outcome is taken for a success.
LookupAssumingSuccess(t) ==
    /\ pc[t] = "lookup"
    /\ Goto(t, [frame[t] EXCEPT !.out = "EXECUTED"], "settle")
    /\ UNCHANGED <<journal, outside>>

\* ...asks the declared idempotency lookup, which may not know...
Lookup(t) ==
    LET f == frame[t]
    IN  /\ pc[t] = "lookup"
        /\ \/ /\ effects[f.id] > 0
              /\ Goto(t, [f EXCEPT !.out = "EXECUTED"], "settle")
           \/ /\ effects[f.id] = 0
              /\ Goto(t, [f EXCEPT !.out = "FAILED"], "settle")
           \/ Return(t, f, "lost")
        /\ UNCHANGED <<journal, outside>>

\* ...and journals what it learned.
Settle(t) ==
    LET f == frame[t]
    IN  /\ pc[t] = "settle"
        /\ \/ /\ Append_(f.id, f.out, "reconciliation")
              /\ Return(t, f, ResultOf(f.out))
           \/ /\ Return(t, f, "error")
              /\ UNCHANGED journal
        /\ UNCHANGED outside

\* Mutant of Compensable: a request that is being compensated may be compensated.
CompensableAgain(o) ==
    journal[o] # <<>> /\ latest_state(journal[o]) \in {"EXECUTED", "COMPENSATING"}

Compensable(o) == journal[o] # <<>> /\ latest_state(journal[o]) = "EXECUTED"

CompensationFrame(c, m, a, l, r) ==
    NewFrame(c, Origin[c], IF m = None THEN Declared[c] ELSE m, a, l, r)

\* compensate is allowed only from EXECUTED, and journals COMPENSATING before
\* the compensation capability is even authorized.
StartCompensation(t, f) ==
    \/ /\ Compensable(f.orig)
       /\ Append_(f.orig, "COMPENSATING", "compensation_started")
       /\ Goto(t, f, "comp_exec")
    \/ /\ Compensable(f.orig)
       /\ Return(t, f, "error")
       /\ UNCHANGED journal
    \/ /\ ~Compensable(f.orig)
       /\ Return(t, f, "refused")
       /\ UNCHANGED journal

Compensate(t) ==
    \E c \in {i \in Ids : Origin[i] # None}, m \in CompensationModes,
       a \in Approvals \union {None}, l \in Leases, r \in LiveStates \union {None} :
        LET f == CompensationFrame(c, m, a, l, r)
        IN  /\ pc[t] = "idle" /\ CanEnter(t)
            /\ a # None => resolve_autonomy_mode(Declared[c], f.mode) = "SUPERVISED"
            /\ r # None => c \in Preconditioned
            /\ StartCompensation(t, f)
            /\ UNCHANGED outside

\* The nested _execute, re-entering the lock that compensate holds.
CompensateExecute(t) ==
    /\ pc[t] = "comp_exec" /\ CanEnter(t)
    /\ Dispatch(t, frame[t])
    /\ UNCHANGED <<journal, outside>>

\* The compensation returned a "succeeded" result.
CompensateDone(t) ==
    LET f == frame[t]
    IN  /\ pc[t] = "comp_done"
        /\ \/ /\ Append_(f.orig, "COMPENSATED", "compensation_completed")
              /\ UNCHANGED frame
           \/ /\ frame' = [frame EXCEPT ![t].reply = "error"]
              /\ UNCHANGED journal
        /\ pc' = [pc EXCEPT ![t] = "idle"]
        /\ lock' = [lock EXCEPT ![BoundaryOf[t]] = None]
        /\ UNCHANGED outside

-----------------------------------------------------------------------------
(* The environment. *)

\* A call that was issued takes effect outside, possibly after its caller has
\* timed out or crashed; it may also never do.
TakeEffect(id) ==
    /\ effects[id] < calls[id]
    /\ effects' = [effects EXCEPT ![id] = @ + 1]
    /\ UNCHANGED <<journal, lock, pc, frame, live, now, calls, crashes>>

\* The process that owns instance b dies and is started again.
Crash(b) ==
    /\ crashes < MaxCrashes
    /\ \E t \in Threads : BoundaryOf[t] = b /\ pc[t] # "idle"
    /\ crashes' = crashes + 1
    /\ pc' = [t \in Threads |-> IF BoundaryOf[t] = b THEN "idle" ELSE pc[t]]
    /\ frame' = [t \in Threads |->
                    IF BoundaryOf[t] = b /\ pc[t] # "idle"
                    THEN [frame[t] EXCEPT !.reply = "none"] ELSE frame[t]]
    /\ lock' = [lock EXCEPT ![b] = None]
    /\ UNCHANGED <<journal, live, now, calls, effects>>

ChangeState ==
    /\ live' \in LiveStates \ {live}
    /\ UNCHANGED <<journal, lock, pc, frame, now, calls, effects, crashes>>

Tick ==
    /\ now < MaxNow
    /\ now' = now + 1
    /\ UNCHANGED <<journal, lock, pc, frame, live, calls, effects, crashes>>

\* An operator or a time daemon sets the clock back.
StepBack ==
    /\ ClockStepsBack /\ now > 0
    /\ now' = now - 1
    /\ UNCHANGED <<journal, lock, pc, frame, live, calls, effects, crashes>>

Step(t) ==
    \/ Evaluate(t) \/ Recheck(t) \/ BeginExecution(t) \/ Attest(t)
    \/ AcquireLease(t) \/ CallExecutor(t) \/ Respond(t) \/ Record(t)
    \/ ReconcileAttempt(t) \/ Lookup(t) \/ Settle(t)
    \/ CompensateExecute(t) \/ CompensateDone(t)

Next ==
    \/ \E t \in Threads : Execute(t) \/ Compensate(t) \/ Step(t)
    \/ \E id \in Ids : TakeEffect(id)
    \/ \E b \in Boundaries : Crash(b)
    \/ ChangeState \/ Tick \/ StepBack

Spec == Init /\ [][Next]_vars

\* The Python callables injected into the boundary return or raise, and the
\* thread that runs them is scheduled.
FairSpec == Spec /\ \A t \in Threads : WF_vars(Step(t))
-----------------------------------------------------------------------------
(* Properties. *)

TypeOK ==
    /\ journal \in [Ids -> Seq(CapabilityStateEvent)]
    /\ lock \in [Boundaries -> Threads \union {None}]
    /\ pc \in [Threads -> PC]
    /\ frame \in [Threads -> Frame]
    /\ live \in LiveStates
    /\ now \in Nat
    /\ calls \in [Ids -> Nat]
    /\ effects \in [Ids -> Nat]
    /\ crashes \in Nat

Recorded(id, state) == \E i \in DOMAIN journal[id] : journal[id][i].state = state

\* "Execute one exact request at most once": however many threads present the
\* same identity and however often the process dies, its external executor is
\* invoked at most once.
AtMostOnceCall == \A id \in Ids : calls[id] <= 1

\* The pre-call EXECUTING event is durable before the external executor runs:
\* without it a lost response could not be recognised.
CallIsWrittenAhead ==
    \A id \in Ids : calls[id] > 0 =>
        /\ journal[id] # <<>>
        /\ journal[id][1].state = "EXECUTING"
        /\ journal[id][1].kind = "external_call"

\* The journal never claims a success that did not take effect outside, whether
\* the claim comes from the call itself or from a reconciliation after a crash.
ExecutedTookEffect ==
    \A id \in Ids : Recorded(id, "EXECUTED") => effects[id] > 0

\* Each log, in insertion order, walks the TRANSITIONS graph (repeating
\* EXECUTING for reconciliation attempts): no interleaving of retries,
\* reconciliations, compensations and crashes records an illegal transition.
JournalFollowsTransitions ==
    \A id \in Ids : \A i \in 1..Len(journal[id]) - 1 :
        LET from == journal[id][i].state
            to   == journal[id][i + 1].state
        IN  to \in TRANSITIONS[from] \/ (from = "EXECUTING" /\ to = "EXECUTING")

\* A request recorded as COMPENSATED was compensated by an audited run of its
\* own that is itself recorded as EXECUTED.
CompensatedMeansRan ==
    \A o \in Ids : Recorded(o, "COMPENSATED") =>
        \E c \in Ids : Origin[c] = o /\ Recorded(c, "EXECUTED")

\* An original is compensated at most once, whatever reasons (and therefore
\* compensation identities) callers give.
AtMostOneCompensation ==
    \A c, d \in Ids : /\ Origin[c] # None /\ Origin[c] = Origin[d]
                      /\ calls[c] > 0 /\ calls[d] > 0
                      => c = d

\* What the log says of a compensation is true, and there is one of it.
CompensationIsSafe == CompensatedMeansRan /\ AtMostOneCompensation

\* A supervised call is under way only with an approval for exactly this
\* identity and for the state that the report just re-evaluated observed.
SupervisedCallIsApproved ==
    \A t \in Threads :
        pc[t] \in {"attest", "lease", "call", "await", "record"}
            /\ frame[t].mode = "SUPERVISED" =>
        /\ frame[t].appr # None
        /\ frame[t].appr.decision = "approved"
        /\ frame[t].appr.id = frame[t].id
        /\ frame[t].appr.pre = frame[t].rep
        /\ frame[t].id \in Preconditioned => frame[t].rep \in AllowStates

\* Two callers of one identity are never given contradictory outcomes.
RepliesAgree ==
    \A t, u \in Threads :
        ~ (/\ pc[t] = "idle" /\ pc[u] = "idle" /\ frame[t].id = frame[u].id
           /\ frame[t].reply = "succeeded" /\ frame[u].reply = "failed")

\* The retry limit on reconciliation is enforced across callers and restarts.
ReconciliationBounded == \A id \in Ids : Attempts(journal[id]) <= MaxRetries

\* What the log says of a request is well formed, legal, bounded and true.
JournalIsTrue == TypeOK /\ ExecutedTookEffect /\ JournalFollowsTransitions /\ ReconciliationBounded

\* Every call that entered the boundary leaves it (compensate re-enters its own
\* lock, so a non-re-entrant lock would hang here).
CallsReturn == \A t \in Threads : pc[t] # "idle" ~> pc[t] = "idle"

\* GovernedExecutor implements the contract of capabilities.md, with the last
\* inserted event of an identity as its lifecycle state.
C == INSTANCE CapabilityContract WITH
        life   <- [id \in Ids |-> IF journal[id] = <<>> THEN "NEW"
                                  ELSE LastState(journal[id])],
        called <- [id \in Ids |-> calls[id] > 0]
ImplementsContract == C!Contract
=============================================================================
