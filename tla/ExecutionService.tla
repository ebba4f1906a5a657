-------------------------- MODULE ExecutionService --------------------------
(***************************************************************************)
(* ExecutionService (services/execution.py): one runtime session and one   *)
(* job slot behind a lock, used by many API requests at once.  A method    *)
(* that runs under the lock is one action; connect builds its engine       *)
(* outside the lock, submit starts its thread outside the lock, and the    *)
(* job thread runs outside the lock, so each of these is several.          *)
(*                                                                         *)
(* An engine runs on a Spark session that spark_factory.get_spark_session  *)
(* gives it.  A process has one live local Spark session: getOrCreate (or  *)
(* getActiveSession, in a thread where it is active) returns the live one, *)
(* so two engines may share it.  With the DATABRICKS_* variables set the   *)
(* session is remote and nothing is ever stopped; the local case is the    *)
(* one modelled.                                                           *)
(*                                                                         *)
(* Time enters only through two comparisons (_sweep_ttl_locked), so each   *)
(* is a flag that the passing of time raises and an access lowers.         *)
(***************************************************************************)
EXTENDS Naturals, FiniteSets

CONSTANTS
    Clients,      \* concurrent requests
    Keys,         \* (config_path, force_env) pairs
    None,
    MaxSessions, MaxJobs,
    Faults        \* calls that may raise outside every handler: "start", "group"

ASSUME ExecutionAssumption ==
    /\ None \notin Keys
    /\ MaxSessions \in Nat /\ MaxJobs \in Nat
    /\ Faults \subseteq {"start", "group"}

VARIABLES
    svc,       \* the fields of the service that its lock protects
    request,   \* what each client is in the middle of
    thread,    \* the thread of each job
    engines,   \* the engine built for each session: its Spark session and mode
    live,      \* the live Spark session of the process, 0 when there is none
    released,  \* the engines whose Spark session the service has stopped
    sessionExpired, jobExpired,  \* last access, submission older than its TTL
    sessions, jobs               \* identifiers handed out

vars == <<svc, request, thread, engines, live, released, sessionExpired, jobExpired, sessions, jobs>>

JobState == {"none", "running", "succeeded", "failed", "cancelled"}
SessionState == {"none", "connecting", "ready", "failed"}
NoResult == [of |-> 0, state |-> "none"]

Service == [session: 0..MaxSessions, key: Keys \union {None}, state: SessionState,
            engine: 0..MaxSessions, job: 0..MaxJobs, jobState: JobState,
            result: [of: 0..MaxJobs, state: JobState]]

Request == [pc: {"idle", "building", "built", "starting"},
            id: 0..(MaxSessions + MaxJobs)]
NoEngine == [spark |-> 0, mode |-> "none"]
NoRequest == [pc |-> "idle", id |-> 0]

Init ==
    /\ svc = [session |-> 0, key |-> None, state |-> "none", engine |-> 0,
              job |-> 0, jobState |-> "none", result |-> NoResult]
    /\ request = [c \in Clients |-> NoRequest]
    /\ thread = [j \in 1..MaxJobs |-> "none"]
    /\ engines = [i \in 1..MaxSessions |-> NoEngine]
    /\ live = 0 /\ released = {}
    /\ sessionExpired = FALSE /\ jobExpired = FALSE
    /\ sessions = 0 /\ jobs = 0

-----------------------------------------------------------------------------
(* Helpers that run under the lock, as functions of the protected fields. *)

\* _cancel_job_locked; the Spark cancellation it asks for is best effort.
Cancelled(s) ==
    [s EXCEPT !.jobState = "cancelled", !.result = [of |-> s.job, state |-> "cancelled"]]

CancelRunning(s) == IF s.jobState = "running" THEN Cancelled(s) ELSE s

\* Mutant of Closed: a running job is not cancelled.
ClosedKeepingJob(s) ==
    [s EXCEPT !.session = 0, !.key = None, !.state = "none", !.engine = 0]

\* _close_locked, and the engine it stops (_stop_engine_if_local).
Closed(s) ==
    [CancelRunning(s) EXCEPT !.session = 0, !.key = None, !.state = "none", !.engine = 0]

\* Mutant of Stops: the mode is not looked at.
StopsNothing(s) == {}

\* _stop_engine_if_local.
IsLocal(e) == e # 0 /\ engines[e].mode = "local"
Stops(s) == IF IsLocal(s.engine) THEN {s.engine} ELSE {}
Stop(es) ==
    /\ released' = released \union es
    /\ live' = IF \E e \in es : engines[e].spark = live THEN 0 ELSE live

\* Mutant of SweptJob: only the session's TTL is enforced.
SweptJobKept(s) == s

\* _sweep_ttl_locked: an old job is cancelled, a session nobody used is closed.
SweptJob(s) == IF jobExpired THEN CancelRunning(s) ELSE s
SweepCloses(s) == sessionExpired /\ s.session # 0
Swept == IF SweepCloses(svc) THEN Closed(SweptJob(svc)) ELSE SweptJob(svc)
SweepStops == IF SweepCloses(svc) THEN Stops(svc) ELSE {}

\* What a method leaves behind: its fields, the engines it stopped on top of
\* the sweep's, and a fresh last access.
Leave(s, stops) ==
    /\ svc' = s
    /\ Stop(SweepStops \union stops)
    /\ sessionExpired' = FALSE /\ jobExpired' = FALSE

-----------------------------------------------------------------------------
(* Requests. *)

\* connect, first locked part: reuse the session of the same key, or replace
\* any other by a connecting one.
Connect(c, k) ==
    LET s     == Swept
        mine  == s.session # 0 /\ s.key = k
        reuse == mine /\ s.state \in {"ready", "connecting"}
        base  == IF s.session # 0 /\ ~mine THEN Closed(s) ELSE s
    IN  /\ request[c].pc = "idle"
        /\ \/ /\ reuse
              /\ Leave(s, {})
              /\ UNCHANGED <<request, sessions>>
           \/ /\ ~reuse /\ sessions < MaxSessions
              /\ sessions' = sessions + 1
              /\ request' = [request EXCEPT ![c] = [pc |-> "building", id |-> sessions + 1]]
              /\ Leave([base EXCEPT !.session = sessions + 1, !.key = k,
                                    !.state = "connecting", !.engine = 0],
                       IF s.session # 0 /\ ~mine THEN Stops(s) ELSE {})
        /\ UNCHANGED <<thread, engines, jobs>>

\* get_spark_session for the engine of session i.
GetSparkSession(i) ==
    IF live = 0 THEN {[spark |-> i, mode |-> "local"]}
    ELSE {[spark |-> live, mode |-> m] : m \in {"local", "databricks_notebook"}}

\* The engine factory returns an engine, outside the lock.
BuildEngine(c) ==
    /\ request[c].pc = "building"
    /\ \E e \in GetSparkSession(request[c].id) :
          engines' = [engines EXCEPT ![request[c].id] = e] /\ live' = e.spark
    /\ request' = [request EXCEPT ![c].pc = "built"]
    /\ UNCHANGED <<svc, thread, released, sessionExpired, jobExpired, sessions, jobs>>

\* The factory raises, before or after it obtained a Spark session (which it
\* leaves running): the session fails, unless it was superseded meanwhile.
BuildFails(c) ==
    LET own == svc.session = request[c].id
    IN  /\ request[c].pc = "building"
        /\ svc' = IF own THEN [svc EXCEPT !.state = "failed", !.engine = 0] ELSE svc
        /\ sessionExpired' = IF own THEN FALSE ELSE sessionExpired
        /\ \/ UNCHANGED live
           \/ \E e \in GetSparkSession(request[c].id) : live' = e.spark
        /\ request' = [request EXCEPT ![c] = NoRequest]
        /\ UNCHANGED <<thread, engines, released, jobExpired, sessions, jobs>>

\* connect, last locked part: the engine is installed, or stopped (when local)
\* if another connect, a close or a sweep replaced the session.
Install(c) ==
    LET r   == request[c]
        own == svc.session = r.id
    IN  /\ r.pc = "built"
        /\ svc' = IF own THEN [svc EXCEPT !.state = "ready", !.engine = r.id] ELSE svc
        /\ Stop(IF ~own /\ IsLocal(r.id) THEN {r.id} ELSE {})
        /\ sessionExpired' = IF own THEN FALSE ELSE sessionExpired
        /\ request' = [request EXCEPT ![c] = NoRequest]
        /\ UNCHANGED <<thread, engines, jobExpired, sessions, jobs>>

\* session, status, logs and result: they sweep, touch the session and read.
Read(c) ==
    /\ request[c].pc = "idle"
    /\ Leave(Swept, {})
    /\ UNCHANGED <<request, thread, engines, sessions, jobs>>

\* close, which does not sweep.
Close(c) ==
    /\ request[c].pc = "idle"
    /\ svc' = Closed(svc)
    /\ Stop(Stops(svc))
    /\ UNCHANGED <<request, thread, engines, sessionExpired, jobExpired, sessions, jobs>>

Accepts(s) == s.state = "ready" /\ s.engine # 0 /\ s.jobState # "running"

\* submit: NoActiveSession, JobConflict, or the job takes the slot.
Submit(c) ==
    LET s == Swept
        j == jobs + 1
    IN  /\ request[c].pc = "idle"
        /\ \/ /\ ~Accepts(s)
              /\ Leave(s, {})
              /\ UNCHANGED <<request, thread, jobs>>
           \/ /\ Accepts(s) /\ jobs < MaxJobs
              /\ jobs' = j
              /\ thread' = [thread EXCEPT ![j] = "created"]
              /\ request' = [request EXCEPT ![c] = [pc |-> "starting", id |-> j]]
              /\ Leave([s EXCEPT !.job = j, !.jobState = "running", !.result = NoResult], {})
        /\ UNCHANGED <<engines, sessions>>

\* thread.start(), after the lock is released.
StartThread(c) ==
    /\ request[c].pc = "starting"
    /\ \/ thread' = [thread EXCEPT ![request[c].id] = "started"]
       \/ "start" \in Faults /\ thread' = [thread EXCEPT ![request[c].id] = "dead"]
    /\ request' = [request EXCEPT ![c] = NoRequest]
    /\ UNCHANGED <<svc, engines, live, released, sessionExpired, jobExpired, sessions, jobs>>

\* cancel of the current job; any other job id is unknown.
Cancel(c) ==
    /\ request[c].pc = "idle" /\ svc.job # 0
    /\ Leave(CancelRunning(Swept), {})
    /\ UNCHANGED <<request, thread, engines, sessions, jobs>>

-----------------------------------------------------------------------------
(* The job thread: _run_job. *)

Runs(j) == svc.job = j /\ svc.jobState = "running"

\* A job that was cancelled or replaced before its thread got the lock is not
\* run.  The guard on the engine is defensive (RunningJobHasEngine).
Begin(j) ==
    /\ thread[j] = "started"
    /\ thread' = [thread EXCEPT ![j] = IF Runs(j) /\ svc.engine # 0 THEN "group" ELSE "done"]
    /\ svc' = IF Runs(j) /\ svc.engine = 0 THEN [svc EXCEPT !.jobState = "failed"] ELSE svc
    /\ UNCHANGED <<request, engines, live, released, sessionExpired, jobExpired, sessions, jobs>>

\* _set_spark_job_group is called outside the try: if it raises, the thread dies.
SetJobGroup(j) ==
    /\ thread[j] = "group"
    /\ \/ thread' = [thread EXCEPT ![j] = "executing"]
       \/ "group" \in Faults /\ thread' = [thread EXCEPT ![j] = "dead"]
    /\ UNCHANGED <<svc, request, engines, live, released, sessionExpired, jobExpired, sessions, jobs>>

\* Mutant of Finished: a job that is not current any more, or was cancelled,
\* still reports.
FinishedAnyJob(s, j, outcome) ==
    [s EXCEPT !.jobState = outcome, !.result = [of |-> j, state |-> outcome]]
FinishedCancelled(s, j, outcome) ==
    IF s.job # j THEN s
    ELSE [s EXCEPT !.jobState = outcome, !.result = [of |-> j, state |-> outcome]]

\* The locked end of _run_job and _finish_job_failed_or_cancelled.
Finished(s, j, outcome) ==
    IF s.job # j \/ s.jobState = "cancelled" THEN s
    ELSE [s EXCEPT !.jobState = outcome, !.result = [of |-> j, state |-> outcome]]

\* _execute_job returns or raises.
Finish(j) ==
    /\ thread[j] = "executing"
    /\ \E outcome \in {"succeeded", "failed"} : svc' = Finished(svc, j, outcome)
    /\ thread' = [thread EXCEPT ![j] = "done"]
    /\ UNCHANGED <<request, engines, live, released, sessionExpired, jobExpired, sessions, jobs>>

-----------------------------------------------------------------------------

SessionExpires ==
    /\ svc.session # 0 /\ ~sessionExpired /\ sessionExpired' = TRUE
    /\ UNCHANGED <<svc, request, thread, engines, live, released, jobExpired, sessions, jobs>>

JobExpires ==
    /\ svc.jobState = "running" /\ ~jobExpired /\ jobExpired' = TRUE
    /\ UNCHANGED <<svc, request, thread, engines, live, released, sessionExpired, sessions, jobs>>

Continue(c) == BuildEngine(c) \/ BuildFails(c) \/ Install(c) \/ StartThread(c)
RunJob(j) == Begin(j) \/ SetJobGroup(j) \/ Finish(j)

Next ==
    \/ \E c \in Clients, k \in Keys : Connect(c, k)
    \/ \E c \in Clients : Continue(c) \/ Read(c) \/ Close(c) \/ Submit(c) \/ Cancel(c)
    \/ \E j \in 1..MaxJobs : RunJob(j)
    \/ SessionExpires \/ JobExpires

Spec == Init /\ [][Next]_vars

\* A request that was accepted is carried on, and a job thread that runs is
\* scheduled; the engine's work returns or raises.
FairSpec ==
    /\ Spec
    /\ \A c \in Clients : WF_vars(Continue(c))
    /\ \A j \in 1..MaxJobs : WF_vars(RunJob(j))

\* The clients poll and time passes, as they do while a job is running.
PolledSpec ==
    /\ FairSpec
    /\ \A c \in Clients : WF_vars(Read(c))
    /\ WF_vars(JobExpires)

-----------------------------------------------------------------------------
(* Properties. *)

TypeOK ==
    /\ svc \in Service
    /\ request \in [Clients -> Request]
    /\ thread \in [1..MaxJobs -> {"none", "created", "started", "group", "executing", "done", "dead"}]
    /\ engines \in [1..MaxSessions -> [spark: 0..MaxSessions,
                                      mode: {"none", "local", "databricks_notebook"}]]
    /\ live \in 0..MaxSessions /\ released \subseteq 1..MaxSessions
    /\ sessionExpired \in BOOLEAN /\ jobExpired \in BOOLEAN
    /\ sessions \in 0..MaxSessions /\ jobs \in 0..MaxJobs

\* A running job always has a ready session with an engine: closing, replacing
\* or expiring the session cancels it first, so the job thread's guard against
\* a missing engine never fires.
RunningJobHasEngine ==
    svc.jobState = "running" => svc.state = "ready" /\ svc.engine = svc.session /\ svc.engine # 0

\* A job that is over has a result, of this very job and in agreement with its
\* state: a late thread never reports into another job's slot or over a
\* cancellation.
ResultMatchesJob ==
    svc.job # 0 /\ svc.jobState # "running" =>
        svc.result = [of |-> svc.job, state |-> svc.jobState]

\* A terminal state is final, whichever of cancel, expiry, close and the job
\* thread comes last.
TerminalIsFinal ==
    [][svc.job # 0 /\ svc'.job = svc.job /\ svc.jobState # "running"
         => svc'.jobState = svc.jobState]_vars

\* No local engine is leaked: one that was built and not released is the
\* service's engine or in the hands of a connect about to place it, however
\* connects, closes and expiries supersede each other.
NoEngineLeak ==
    \A e \in 1..MaxSessions : IsLocal(e) /\ e \notin released =>
        \/ svc.engine = e
        \/ \E c \in Clients : request[c].pc = "built" /\ request[c].id = e

\* The Spark session of the engine that jobs are submitted to is alive.
EngineIsLive == svc.engine # 0 => engines[svc.engine].spark = live

\* Every job that is accepted ends.
JobsEnd == \A j \in 1..MaxJobs : Runs(j) ~> ~Runs(j)

\* No session stays in connecting.
ConnectsEnd ==
    \A i \in 1..MaxSessions :
        LET waiting == svc.session = i /\ svc.state = "connecting"
        IN  waiting ~> ~waiting

\* Nothing that was asked of the service hangs.
RequestsEnd == JobsEnd /\ ConnectsEnd
=============================================================================
