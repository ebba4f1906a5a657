----------------------- MODULE ExecutionServiceProofs -----------------------
(***************************************************************************)
(* Proofs about ExecutionService, for every number of clients,             *)
(* configurations, sessions and jobs and every choice of faults.           *)
(***************************************************************************)
EXTENDS ExecutionService, TLAPS

-----------------------------------------------------------------------------
(* The inductive invariant. *)

\* The fields behind the lock, as a predicate of their value, so that it can
\* also be stated of the intermediate values of a locked method.
Slot(s) ==
    /\ s \in Service
    /\ s.engine # 0 => s.state = "ready" /\ s.engine = s.session
    /\ s.jobState = "running" => s.state = "ready" /\ s.engine = s.session /\ s.engine # 0
    /\ s.job # 0 /\ s.jobState # "running" =>
            s.result = [of |-> s.job, state |-> s.jobState]

Connecting(c) == request[c].pc \in {"building", "built"}

\* A connect in progress owns its session id, and the session is still in
\* connecting as long as it has not been superseded.
ConnectInv ==
    /\ svc.session <= sessions
    /\ \A c \in Clients : Connecting(c) =>
          /\ request[c].id \in 1..sessions
          /\ svc.session = request[c].id => svc.state = "connecting"
    /\ \A c, d \in Clients : Connecting(c) /\ Connecting(d) /\ c # d =>
          request[c].id # request[d].id

\* A thread is started once, and while a thread may still report, its job is
\* running or cancelled.
ThreadInv ==
    /\ svc.job <= jobs
    /\ \A c \in Clients : request[c].pc = "starting" =>
          request[c].id \in 1..jobs /\ thread[request[c].id] = "created"
    /\ \A c, d \in Clients :
          request[c].pc = "starting" /\ request[d].pc = "starting" /\ c # d =>
              request[c].id # request[d].id
    /\ \A j \in 1..MaxJobs :
          thread[j] \in {"created", "started", "group", "executing"} /\ svc.job = j =>
              svc.jobState \in {"running", "cancelled"}

IInv == TypeOK /\ Slot(svc) /\ ConnectInv /\ ThreadInv /\ NoEngineLeak

-----------------------------------------------------------------------------
(* The helpers under the lock. *)

\* Cancelling touches the job only, and leaves none running.
LEMMA CancelRunningSlot ==
    ASSUME NEW s, Slot(s)
    PROVE  LET u == CancelRunning(s)
           IN  /\ Slot(u)
               /\ u.session = s.session /\ u.key = s.key /\ u.state = s.state
               /\ u.engine = s.engine /\ u.job = s.job /\ u.jobState # "running"
               /\ u.jobState = s.jobState \/ (s.jobState = "running" /\ u.jobState = "cancelled")
  <1> DEFINE u == [s EXCEPT !.jobState = "cancelled",
                            !.result = [of |-> s.job, state |-> "cancelled"]]
  <1>1. s \in Service
    BY DEF Slot
  <1>2. u \in Service
    BY <1>1 DEF Service, JobState
  <1>3. /\ u.session = s.session /\ u.key = s.key /\ u.state = s.state
        /\ u.engine = s.engine /\ u.job = s.job /\ u.jobState = "cancelled"
        /\ u.result = [of |-> s.job, state |-> "cancelled"]
    BY <1>1 DEF Service
  <1> HIDE DEF u
  <1>4. Slot(u)
    BY <1>2, <1>3 DEF Slot
  <1>5. CancelRunning(s) = IF s.jobState = "running" THEN u ELSE s
    BY DEF CancelRunning, Cancelled, u
  <1> QED
    BY <1>3, <1>4, <1>5

\* Closing keeps the job, cancelled if it was running, and drops the rest.
LEMMA ClosedSlot ==
    ASSUME NEW s, Slot(s)
    PROVE  LET u == Closed(s)
           IN  /\ Slot(u)
               /\ u.session = 0 /\ u.state = "none" /\ u.engine = 0
               /\ u.job = s.job /\ u.jobState # "running"
               /\ u.jobState = s.jobState \/ (s.jobState = "running" /\ u.jobState = "cancelled")
  <1> DEFINE v == CancelRunning(s)
  <1>1. /\ Slot(v) /\ v.job = s.job /\ v.jobState # "running"
        /\ v.jobState = s.jobState \/ (s.jobState = "running" /\ v.jobState = "cancelled")
    BY CancelRunningSlot
  <1> HIDE DEF v
  <1> DEFINE u == [v EXCEPT !.session = 0, !.key = None, !.state = "none", !.engine = 0]
  <1>a. v \in Service
    BY <1>1 DEF Slot
  <1>b. 0 \in 0..MaxSessions
    BY ExecutionAssumption
  <1>2. /\ u \in Service /\ u.session = 0 /\ u.state = "none" /\ u.engine = 0
        /\ u.job = v.job /\ u.jobState = v.jobState /\ u.result = v.result
    BY <1>a, <1>b DEF Service, SessionState
  <1>3. Closed(s) = u
    BY DEF Closed, v
  <1> HIDE DEF u
  <1>4. Slot(u)
    BY <1>1, <1>2 DEF Slot
  <1> QED
    BY <1>1, <1>2, <1>3, <1>4

\* How the fields change under the lock when no session is opened: the session
\* is kept or closed, the job is kept, cancelled if anything.
Shrinks(s, u) ==
    /\ Slot(u) /\ u.job = s.job
    /\ \/ u.session = s.session /\ u.state = s.state /\ u.engine = s.engine
       \/ u.session = 0 /\ u.state = "none" /\ u.engine = 0
    /\ u.jobState = s.jobState \/ (s.jobState = "running" /\ u.jobState = "cancelled")

\* The sweep shrinks, and stops the engine it takes away if that is local.
LEMMA SweptShrinks ==
    ASSUME IInv
    PROVE  /\ Shrinks(svc, Swept)
           /\ SweepStops \subseteq 1..MaxSessions
           /\ IsLocal(svc.engine) /\ Swept.engine # svc.engine => svc.engine \in SweepStops
  <1> DEFINE v == SweptJob(svc)
  <1>1. /\ Slot(v) /\ v.session = svc.session /\ v.state = svc.state
        /\ v.engine = svc.engine /\ v.job = svc.job
        /\ v.jobState = svc.jobState \/ (svc.jobState = "running" /\ v.jobState = "cancelled")
    BY CancelRunningSlot DEF IInv, SweptJob
  <1> DEFINE u == Closed(v)
  <1> HIDE DEF v
  <1>2. /\ Slot(u) /\ u.session = 0 /\ u.state = "none" /\ u.engine = 0 /\ u.job = v.job
        /\ u.jobState = v.jobState \/ (v.jobState = "running" /\ u.jobState = "cancelled")
    BY <1>1, ClosedSlot
  <1> HIDE DEF u
  <1>3. Swept = IF SweepCloses(svc) THEN u ELSE v
    BY DEF Swept, u, v
  <1>4. svc.engine \in 0..MaxSessions
    BY DEF IInv, Slot, Service
  <1>5. SweepStops \subseteq 1..MaxSessions
    BY <1>4, ExecutionAssumption DEF SweepStops, Stops, IsLocal
  <1>6. IsLocal(svc.engine) /\ Swept.engine # svc.engine => svc.engine \in SweepStops
    BY <1>1, <1>2, <1>3 DEF SweepStops, Stops
  <1>7. Shrinks(svc, Swept)
    BY <1>1, <1>2, <1>3 DEF Shrinks
  <1> QED
    BY <1>5, <1>6, <1>7

-----------------------------------------------------------------------------
(* Steps that open no session and submit no job. *)

\* A step that shrinks the fields, and releases what it takes away, preserves
\* the invariant.
LEMMA ShrinkStep ==
    ASSUME IInv, NEW es \in SUBSET (1..MaxSessions), Shrinks(svc, svc'), Stop(es),
           IsLocal(svc.engine) /\ svc'.engine # svc.engine => svc.engine \in es,
           UNCHANGED <<request, thread, engines, sessions, jobs>>,
           sessionExpired' \in BOOLEAN, jobExpired' \in BOOLEAN
    PROVE  IInv'
  <1> USE DEF IInv
  <1>1. Slot(svc)'
    BY DEF Shrinks, Slot
  <1>2. TypeOK'
    <2>1. svc' \in Service
      BY DEF Shrinks, Slot
    <2>2. live' \in 0..MaxSessions /\ released' \subseteq 1..MaxSessions
      BY ExecutionAssumption DEF Stop, TypeOK
    <2> QED
      BY <2>1, <2>2 DEF TypeOK
  <1>3. svc \in Service /\ sessions \in Nat /\ jobs \in Nat
    BY ExecutionAssumption DEF TypeOK
  <1>4. ConnectInv'
    BY <1>3 DEF ConnectInv, Connecting, Shrinks
  <1>5. ThreadInv'
    BY <1>3 DEF ThreadInv, Shrinks
  <1>6. NoEngineLeak'
    BY DEF NoEngineLeak, IsLocal, Stop
  <1> QED
    BY <1>1, <1>2, <1>4, <1>5, <1>6

\* session, status, logs and result.
LEMMA ReadStep == ASSUME IInv, NEW c \in Clients, Read(c) PROVE IInv'
  <1>1. svc' = Swept /\ Stop(SweepStops)
    BY DEF Read, Leave
  <1> QED
    BY <1>1, SweptShrinks, ShrinkStep DEF Read, Leave

\* cancel.
LEMMA CancelStep == ASSUME IInv, NEW c \in Clients, Cancel(c) PROVE IInv'
  <1>1. svc' = CancelRunning(Swept) /\ Stop(SweepStops)
    BY DEF Cancel, Leave
  <1>2. Shrinks(svc, Swept) /\ Slot(Swept)
    BY SweptShrinks DEF Shrinks
  <1>3. Shrinks(svc, svc') /\ svc'.engine = Swept.engine
    BY <1>1, <1>2, CancelRunningSlot DEF Shrinks
  <1> QED
    BY <1>1, <1>3, SweptShrinks, ShrinkStep DEF Cancel, Leave

\* close.
LEMMA CloseStep == ASSUME IInv, NEW c \in Clients, Close(c) PROVE IInv'
  <1>1. svc' = Closed(svc) /\ Stop(Stops(svc))
    BY DEF Close
  <1>2. Shrinks(svc, svc')
    BY <1>1, ClosedSlot DEF IInv, Shrinks
  <1>3. Stops(svc) \subseteq 1..MaxSessions
    BY ExecutionAssumption DEF Stops, IsLocal, IInv, Slot, Service
  <1>4. IsLocal(svc.engine) => svc.engine \in Stops(svc)
    BY DEF Stops
  <1>5. sessionExpired' \in BOOLEAN /\ jobExpired' \in BOOLEAN
    BY DEF Close, IInv, TypeOK
  <1> QED
    BY <1>1, <1>2, <1>3, <1>4, <1>5, ShrinkStep DEF Close

-----------------------------------------------------------------------------
(* connect. *)

\* The first locked part of connect: reuse, or a fresh session id whose engine
\* is yet to be built; the engine of the session it replaces is stopped.
LEMMA ConnectStep == ASSUME IInv, NEW c \in Clients, NEW k \in Keys, Connect(c, k) PROVE IInv'
  <1> DEFINE s     == Swept
             mine  == s.session # 0 /\ s.key = k
             reuse == mine /\ s.state \in {"ready", "connecting"}
             base  == IF s.session # 0 /\ ~mine THEN Closed(s) ELSE s
             es    == IF s.session # 0 /\ ~mine THEN Stops(s) ELSE {}
             i     == sessions + 1
             new   == [base EXCEPT !.session = i, !.key = k, !.state = "connecting", !.engine = 0]
  <1>1. /\ Shrinks(svc, s) /\ SweepStops \subseteq 1..MaxSessions
        /\ IsLocal(svc.engine) /\ s.engine # svc.engine => svc.engine \in SweepStops
    BY SweptShrinks
  <1>2. CASE reuse /\ Leave(s, {}) /\ UNCHANGED <<request, sessions>>
    <2>1. svc' = s /\ Stop(SweepStops)
      BY <1>2 DEF Leave
    <2> QED
      BY <1>1, <1>2, <2>1, ShrinkStep DEF Connect, Leave
  <1>3. CASE /\ ~reuse /\ sessions < MaxSessions /\ sessions' = i
             /\ request' = [request EXCEPT ![c] = [pc |-> "building", id |-> i]]
             /\ Leave(new, es)
    <2> USE DEF IInv
    <2>1. Slot(s) /\ s \in Service
      BY <1>1 DEF Shrinks, Slot
    <2>2. /\ Slot(base) /\ base.job = s.job /\ base.jobState # "running" /\ base.engine = 0
          /\ base.jobState = s.jobState \/ (s.jobState = "running" /\ base.jobState = "cancelled")
      <3>1. CASE s.session # 0 /\ ~mine
        BY <2>1, <3>1, ClosedSlot
      <3>2. CASE ~(s.session # 0 /\ ~mine)
        <4>1. s.state # "ready" \/ s.session = 0
          BY <3>2, <1>3
        <4>2. s.jobState # "running" /\ s.engine = 0
          BY <2>1, <4>1 DEF Slot
        <4> QED
          BY <2>1, <3>2, <4>2
      <3> QED
        BY <3>1, <3>2
    <2>3. es \subseteq 1..MaxSessions
      BY <2>1, ExecutionAssumption DEF Stops, IsLocal, Service
    <2>4. IsLocal(svc.engine) => svc.engine \in SweepStops \union es
      <3>1. s.engine # 0 => s.session # 0 /\ ~mine
        BY <2>1, <1>3 DEF Slot
      <3> QED
        BY <3>1, <1>1 DEF Stops, IsLocal
    <2> HIDE DEF base, es
    <2>5. /\ sessions \in Nat /\ i \in 1..MaxSessions /\ i \in 0..MaxSessions
          /\ jobs \in Nat /\ 0 \in 0..MaxSessions
      BY <1>3, ExecutionAssumption DEF TypeOK
    <2>6. base \in Service
      BY <2>2 DEF Slot
    <2>7. /\ new \in Service /\ new.session = i /\ new.state = "connecting" /\ new.engine = 0
          /\ new.job = base.job /\ new.jobState = base.jobState /\ new.result = base.result
      <3> HIDE DEF IInv, i
      <3> QED
        BY <2>5, <2>6 DEF Service, SessionState
    <2>8. svc' = new /\ Stop(SweepStops \union es)
      BY <1>3 DEF Leave
    <2> HIDE DEF new
    <2>9. Slot(svc)'
      BY <2>2, <2>7, <2>8 DEF Slot
    <2>10. request' \in [Clients -> Request]
      BY <1>3, <2>5, ExecutionAssumption DEF TypeOK, Request
    <2>11. live' \in 0..MaxSessions /\ released' \subseteq 1..MaxSessions
      BY <2>8, <2>3, <2>5, <1>1 DEF Stop, TypeOK
    <2>12. TypeOK'
      <3>1. svc' \in Service
        BY <2>7, <2>8
      <3>2. sessions' \in 0..MaxSessions
        BY <1>3, <2>5
      <3>3. UNCHANGED <<thread, engines, jobs>>
        BY DEF Connect
      <3>4. sessionExpired' = FALSE /\ jobExpired' = FALSE
        BY <1>3 DEF Leave
      <3> QED
        BY <3>1, <3>2, <3>3, <3>4, <2>10, <2>11 DEF TypeOK
    <2>13. \A d \in Clients : d # c => request'[d] = request[d]
      BY <1>3 DEF TypeOK
    <2>14. request'[c] = [pc |-> "building", id |-> i]
      BY <1>3 DEF TypeOK
    <2>15. \A d \in Clients : Connecting(d) => request[d].id \in 1..sessions
      BY DEF ConnectInv
    <2>16. ConnectInv'
      BY <1>3, <2>5, <2>7, <2>8, <2>13, <2>14, <2>15 DEF ConnectInv, Connecting
    <2>17. svc'.job = svc.job
      BY <2>2, <2>7, <2>8, <1>1 DEF Shrinks
    <2>18. svc'.jobState = svc.jobState \/ svc'.jobState = "cancelled"
      BY <2>2, <2>7, <2>8, <1>1 DEF Shrinks
    <2>19. ThreadInv'
      <3>1. UNCHANGED <<thread, jobs>>
        BY DEF Connect
      <3>2. \A d \in Clients : request'[d].pc = "starting" =>
               d # c /\ request'[d] = request[d]
        BY <2>13, <2>14
      <3> QED
        BY <3>1, <3>2, <2>17, <2>18 DEF ThreadInv
    <2>20. request[c].pc = "idle" /\ UNCHANGED engines
      BY DEF Connect
    <2>21. NoEngineLeak'
      BY <2>4, <2>8, <2>13, <2>20 DEF NoEngineLeak, IsLocal, Stop
    <2> QED
      BY <2>9, <2>12, <2>16, <2>19, <2>21
  <1> QED
    BY <1>2, <1>3 DEF Connect

\* The engine factory returns: the engine is in the hands of its connect.
LEMMA BuildEngineStep == ASSUME IInv, NEW c \in Clients, BuildEngine(c) PROVE IInv'
  <1> USE DEF IInv
  <1> DEFINE i == request[c].id
  <1>1. PICK e \in GetSparkSession(i) :
            engines' = [engines EXCEPT ![i] = e] /\ live' = e.spark
    BY DEF BuildEngine
  <1>2. i \in 1..sessions /\ Connecting(c) /\ i \in 1..MaxSessions
    BY ExecutionAssumption DEF BuildEngine, ConnectInv, Connecting, TypeOK
  <1>3. /\ e \in [spark: 0..MaxSessions, mode: {"none", "local", "databricks_notebook"}]
        /\ e.spark \in 0..MaxSessions
    BY <1>2, ExecutionAssumption DEF GetSparkSession, TypeOK
  <1>4. request' = [request EXCEPT ![c].pc = "built"]
        /\ UNCHANGED <<svc, thread, released, sessionExpired, jobExpired, sessions, jobs>>
    BY DEF BuildEngine
  <1>5. request'[c].pc = "built" /\ request'[c].id = i
        /\ \A d \in Clients : d # c => request'[d] = request[d]
    BY <1>4 DEF TypeOK, Request
  <1>6. request' \in [Clients -> Request]
    BY <1>4 DEF TypeOK, Request
  <1>7. TypeOK'
    BY <1>1, <1>2, <1>3, <1>4, <1>6 DEF TypeOK
  <1>8. Slot(svc)'
    BY <1>4 DEF Slot
  <1>9. ConnectInv'
    BY <1>2, <1>4, <1>5 DEF ConnectInv, Connecting
  <1>10. ThreadInv'
    BY <1>4, <1>5 DEF ThreadInv
  <1>11. \A f \in 1..MaxSessions : f # i => engines'[f] = engines[f]
    BY <1>1 DEF TypeOK
  <1>12. NoEngineLeak'
    BY <1>4, <1>5, <1>11 DEF NoEngineLeak, IsLocal
  <1> QED
    BY <1>7, <1>8, <1>9, <1>10, <1>12

\* The factory raises: the session it owns is still in connecting, so no job is
\* running on it.
LEMMA BuildFailsStep == ASSUME IInv, NEW c \in Clients, BuildFails(c) PROVE IInv'
  <1> USE DEF IInv
  <1> DEFINE i   == request[c].id
             own == svc.session = i
             new == [svc EXCEPT !.state = "failed", !.engine = 0]
  <1>1. /\ request' = [request EXCEPT ![c] = NoRequest]
        /\ svc' = IF own THEN new ELSE svc
        /\ sessionExpired' = IF own THEN FALSE ELSE sessionExpired
        /\ UNCHANGED <<thread, engines, released, jobExpired, sessions, jobs>>
    BY DEF BuildFails
  <1>2. Connecting(c) /\ i \in 1..sessions /\ (own => svc.state = "connecting") /\ i \in 1..MaxSessions
    BY ExecutionAssumption DEF BuildFails, ConnectInv, Connecting, TypeOK
  <1>3. svc \in Service /\ 0 \in 0..MaxSessions
    BY ExecutionAssumption DEF TypeOK
  <1>4. /\ new \in Service /\ new.session = svc.session /\ new.engine = 0 /\ new.state = "failed"
        /\ new.job = svc.job /\ new.jobState = svc.jobState /\ new.result = svc.result
    <2> HIDE DEF IInv
    <2> QED
      BY <1>3 DEF Service, SessionState
  <1>5. live' \in 0..MaxSessions
    BY <1>2, ExecutionAssumption DEF BuildFails, GetSparkSession, TypeOK
  <1>6. request'[c].pc = "idle" /\ \A d \in Clients : d # c => request'[d] = request[d]
    BY <1>1 DEF TypeOK, NoRequest
  <1>7. request' \in [Clients -> Request]
    BY <1>1, ExecutionAssumption DEF TypeOK, Request, NoRequest
  <1>8. svc' \in Service /\ sessionExpired' \in BOOLEAN
    BY <1>1, <1>3, <1>4 DEF TypeOK
  <1>9. TypeOK'
    BY <1>1, <1>5, <1>7, <1>8 DEF TypeOK
  <1> HIDE DEF new
  <1>10. /\ svc'.session = svc.session /\ svc'.job = svc.job /\ svc'.jobState = svc.jobState
         /\ svc'.engine = svc.engine /\ (~own => svc'.state = svc.state)
    BY <1>1, <1>2, <1>4 DEF Slot
  <1>11. Slot(svc)'
    BY <1>1, <1>2, <1>4 DEF Slot
  <1>12. ConnectInv'
    BY <1>1, <1>2, <1>6, <1>10 DEF ConnectInv, Connecting
  <1>13. ThreadInv'
    BY <1>1, <1>6, <1>10 DEF ThreadInv
  <1>14. request[c].pc = "building"
    BY DEF BuildFails
  <1>15. NoEngineLeak'
    BY <1>1, <1>6, <1>10, <1>14 DEF NoEngineLeak, IsLocal
  <1> QED
    BY <1>9, <1>11, <1>12, <1>13, <1>15

\* The engine is installed in the session it was built for, or stopped.
LEMMA InstallStep == ASSUME IInv, NEW c \in Clients, Install(c) PROVE IInv'
  <1> USE DEF IInv
  <1> DEFINE i   == request[c].id
             own == svc.session = i
             new == [svc EXCEPT !.state = "ready", !.engine = i]
             es  == IF ~own /\ IsLocal(i) THEN {i} ELSE {}
  <1>1. /\ request' = [request EXCEPT ![c] = NoRequest]
        /\ svc' = IF own THEN new ELSE svc
        /\ sessionExpired' = IF own THEN FALSE ELSE sessionExpired
        /\ Stop(es)
        /\ UNCHANGED <<thread, engines, jobExpired, sessions, jobs>>
    BY DEF Install
  <1>2. Connecting(c) /\ i \in 1..sessions /\ (own => svc.state = "connecting") /\ i \in 1..MaxSessions
    BY ExecutionAssumption DEF Install, ConnectInv, Connecting, TypeOK
  <1>3. svc \in Service /\ i \in 0..MaxSessions /\ i # 0
    BY <1>2, ExecutionAssumption DEF TypeOK
  <1>4. /\ new \in Service /\ new.session = svc.session /\ new.engine = i /\ new.state = "ready"
        /\ new.job = svc.job /\ new.jobState = svc.jobState /\ new.result = svc.result
    <2> HIDE DEF IInv, i
    <2> QED
      BY <1>3 DEF Service, SessionState
  <1>5. live' \in 0..MaxSessions /\ released' \subseteq 1..MaxSessions
    BY <1>1, <1>2, ExecutionAssumption DEF Stop, TypeOK
  <1>6. request'[c].pc = "idle" /\ \A d \in Clients : d # c => request'[d] = request[d]
    BY <1>1 DEF TypeOK, NoRequest
  <1>7. request' \in [Clients -> Request]
    BY <1>1, ExecutionAssumption DEF TypeOK, Request, NoRequest
  <1>8. svc' \in Service /\ sessionExpired' \in BOOLEAN
    BY <1>1, <1>3, <1>4 DEF TypeOK
  <1>9. TypeOK'
    BY <1>1, <1>5, <1>7, <1>8 DEF TypeOK
  <1> HIDE DEF new
  <1>10. /\ svc'.session = svc.session /\ svc'.job = svc.job /\ svc'.jobState = svc.jobState
         /\ own => svc.engine = 0 /\ svc'.engine = i
         /\ ~own => svc' = svc
    BY <1>1, <1>2, <1>4 DEF Slot
  <1>11. Slot(svc)'
    BY <1>1, <1>2, <1>3, <1>4 DEF Slot
  <1>12. ConnectInv'
    BY <1>1, <1>2, <1>6, <1>10 DEF ConnectInv, Connecting
  <1>13. ThreadInv'
    BY <1>1, <1>6, <1>10 DEF ThreadInv
  <1>14. NoEngineLeak'
    <2> SUFFICES ASSUME NEW e \in 1..MaxSessions, IsLocal(e)', e \notin released'
                 PROVE  \/ svc'.engine = e
                        \/ \E d \in Clients : request'[d].pc = "built" /\ request'[d].id = e
      BY DEF NoEngineLeak
    <2>1. IsLocal(e) /\ e \notin released /\ e \notin es
      BY <1>1 DEF IsLocal, Stop
    <2>2. CASE e = i
      BY <2>1, <2>2, <1>10
    <2>3. CASE e # i
      <3>1. e # 0
        OBVIOUS
      <3>2. \/ svc.engine = e
            \/ \E d \in Clients : d # c /\ request[d].pc = "built" /\ request[d].id = e
        BY <2>1, <2>3 DEF NoEngineLeak
      <3> QED
        BY <3>1, <3>2, <1>6, <1>10
    <2> QED
      BY <2>2, <2>3
  <1> QED
    BY <1>9, <1>11, <1>12, <1>13, <1>14

-----------------------------------------------------------------------------
(* Jobs. *)

\* submit: refused, or the slot gets a fresh job on a ready session.
LEMMA SubmitStep == ASSUME IInv, NEW c \in Clients, Submit(c) PROVE IInv'
  <1> DEFINE s   == Swept
             j   == jobs + 1
             new == [s EXCEPT !.job = j, !.jobState = "running", !.result = NoResult]
  <1>1. /\ Shrinks(svc, s) /\ SweepStops \subseteq 1..MaxSessions
        /\ IsLocal(svc.engine) /\ s.engine # svc.engine => svc.engine \in SweepStops
    BY SweptShrinks
  <1>2. CASE ~Accepts(s) /\ Leave(s, {}) /\ UNCHANGED <<request, thread, jobs>>
    <2>1. svc' = s /\ Stop(SweepStops)
      BY <1>2 DEF Leave
    <2> QED
      BY <1>1, <1>2, <2>1, ShrinkStep DEF Submit, Leave
  <1>3. CASE /\ Accepts(s) /\ jobs < MaxJobs /\ jobs' = j
             /\ thread' = [thread EXCEPT ![j] = "created"]
             /\ request' = [request EXCEPT ![c] = [pc |-> "starting", id |-> j]]
             /\ Leave(new, {})
    <2> USE DEF IInv
    <2>1. Slot(s) /\ s \in Service
      BY <1>1 DEF Shrinks, Slot
    <2>2. /\ jobs \in Nat /\ j \in 1..MaxJobs /\ j \in 0..MaxJobs /\ 0 \in 0..MaxJobs
          /\ sessions \in Nat /\ j \in 0..(MaxSessions + MaxJobs)
      BY <1>3, ExecutionAssumption DEF TypeOK
    <2>3. /\ new \in Service /\ new.session = s.session /\ new.state = s.state
          /\ new.engine = s.engine /\ new.job = j /\ new.jobState = "running"
      <3> HIDE DEF IInv, j, s
      <3> QED
        BY <2>1, <2>2 DEF Service, JobState, NoResult
    <2>4. svc' = new /\ Stop(SweepStops)
      BY <1>3 DEF Leave
    <2> HIDE DEF new
    <2>5. Slot(svc)'
      BY <1>3, <2>1, <2>3, <2>4 DEF Slot, Accepts
    <2>6. \A d \in Clients : d # c => request'[d] = request[d]
      BY <1>3 DEF TypeOK
    <2>7. request'[c] = [pc |-> "starting", id |-> j] /\ request[c].pc = "idle"
      BY <1>3 DEF TypeOK, Submit
    <2>8. thread'[j] = "created" /\ \A k \in 1..MaxJobs : k # j => thread'[k] = thread[k]
      BY <1>3, <2>2 DEF TypeOK
    <2>9. UNCHANGED <<engines, sessions>>
      BY DEF Submit
    <2>10. TypeOK'
      <3>1. svc' \in Service
        BY <2>3, <2>4
      <3>2. request' \in [Clients -> Request]
        BY <1>3, <2>2 DEF TypeOK, Request
      <3>3. thread' \in [1..MaxJobs -> {"none", "created", "started", "group", "executing", "done", "dead"}]
        BY <1>3 DEF TypeOK
      <3>4. live' \in 0..MaxSessions /\ released' \subseteq 1..MaxSessions
        BY <2>4, <1>1, ExecutionAssumption DEF Stop, TypeOK
      <3>5. sessionExpired' = FALSE /\ jobExpired' = FALSE /\ jobs' \in 0..MaxJobs
        BY <1>3, <2>2 DEF Leave
      <3> QED
        BY <3>1, <3>2, <3>3, <3>4, <3>5, <2>9 DEF TypeOK
    <2>11. ConnectInv'
      BY <1>1, <2>2, <2>3, <2>4, <2>6, <2>7, <2>9 DEF ConnectInv, Connecting, Shrinks
    <2>12. ThreadInv'
      <3>1. \A d \in Clients : request[d].pc = "starting" =>
               /\ d # c /\ request'[d] = request[d] /\ request[d].id \in 1..jobs
               /\ request[d].id \in 1..MaxJobs /\ request[d].id # j
               /\ thread[request[d].id] = "created"
        <4>1. jobs \in 0..MaxJobs
          BY DEF TypeOK
        <4>2. \A d \in Clients : request[d].pc = "starting" =>
                 request[d].id \in 1..jobs /\ thread[request[d].id] = "created"
          BY DEF ThreadInv
        <4>3. \A n \in 1..jobs : n \in 1..MaxJobs /\ n # j
          BY <4>1, ExecutionAssumption
        <4> QED
          BY <4>2, <4>3, <2>6, <2>7
      <3>2. \A d \in Clients : d # c /\ request'[d].pc = "starting" => request[d].pc = "starting"
        BY <2>6
      <3>3. svc'.job = j /\ jobs' = j /\ svc'.jobState = "running"
        BY <1>3, <2>3, <2>4
      <3>4. svc'.job <= jobs'
        BY <3>3, <2>2
      <3>5. \A n \in 1..jobs : n \in 1..jobs'
        BY <1>3, <2>2
      <3>6. j \in 1..jobs'
        BY <1>3, <2>2
      <3>7. ASSUME NEW d \in Clients, request'[d].pc = "starting"
            PROVE  request'[d].id \in 1..jobs' /\ thread'[request'[d].id] = "created"
        <4>1. CASE d = c
          BY <4>1, <2>7, <2>8, <3>6
        <4>2. CASE d # c
          BY <4>2, <3>1, <3>2, <3>5, <3>7, <2>8
        <4> QED
          BY <4>1, <4>2
      <3>8. ASSUME NEW d \in Clients, NEW f \in Clients, d # f,
                   request'[d].pc = "starting", request'[f].pc = "starting"
            PROVE  request'[d].id # request'[f].id
        <4>1. CASE d # c /\ f # c
          BY <4>1, <2>6, <3>8 DEF ThreadInv
        <4>2. CASE d = c
          BY <4>2, <2>7, <3>1, <3>2, <3>8
        <4>3. CASE f = c
          BY <4>3, <2>7, <3>1, <3>2, <3>8
        <4> QED
          BY <4>1, <4>2, <4>3
      <3>9. ASSUME NEW k \in 1..MaxJobs PROVE svc'.jobState \in {"running", "cancelled"}
        BY <3>3
      <3> HIDE DEF j
      <3> QED
        BY <3>4, <3>7, <3>8, <3>9 DEF ThreadInv
    <2>13. NoEngineLeak'
      BY <1>1, <2>3, <2>4, <2>6, <2>7, <2>9 DEF NoEngineLeak, IsLocal, Stop
    <2> QED
      BY <2>5, <2>10, <2>11, <2>12, <2>13
  <1> QED
    BY <1>2, <1>3 DEF Submit

\* thread.start() returns or raises.
LEMMA StartThreadStep == ASSUME IInv, NEW c \in Clients, StartThread(c) PROVE IInv'
  <1> USE DEF IInv
  <1> DEFINE j == request[c].id
  <1>1. PICK p \in {"started", "dead"} : thread' = [thread EXCEPT ![j] = p]
    BY DEF StartThread
  <1>2. /\ request[c].pc = "starting" /\ request' = [request EXCEPT ![c] = NoRequest]
        /\ UNCHANGED <<svc, engines, live, released, sessionExpired, jobExpired, sessions, jobs>>
    BY DEF StartThread
  <1>3. j \in 1..MaxJobs /\ thread[j] = "created"
    BY <1>2, ExecutionAssumption DEF ThreadInv, TypeOK
  <1>4. request'[c].pc = "idle" /\ \A d \in Clients : d # c => request'[d] = request[d]
    BY <1>2 DEF TypeOK, NoRequest
  <1>5. thread'[j] = p /\ \A k \in 1..MaxJobs : k # j => thread'[k] = thread[k]
    BY <1>1, <1>3 DEF TypeOK
  <1>6. TypeOK'
    <2>1. request' \in [Clients -> Request]
      BY <1>2, ExecutionAssumption DEF TypeOK, Request, NoRequest
    <2> QED
      BY <1>1, <1>2, <2>1 DEF TypeOK
  <1>7. Slot(svc)' /\ ConnectInv' /\ NoEngineLeak'
    BY <1>2, <1>4 DEF Slot, ConnectInv, Connecting, NoEngineLeak, IsLocal
  <1>8. ThreadInv'
    <2>1. jobs \in 0..MaxJobs
      BY DEF TypeOK
    <2>2. \A d \in Clients : request'[d].pc = "starting" =>
             /\ d # c /\ request'[d] = request[d] /\ request[d].id # j
             /\ request[d].id \in 1..jobs /\ request[d].id \in 1..MaxJobs
             /\ thread[request[d].id] = "created"
      <3>1. \A d \in Clients : request'[d].pc = "starting" => d # c /\ request'[d] = request[d]
        BY <1>4
      <3>2. \A d \in Clients : request[d].pc = "starting" =>
               /\ request[d].id \in 1..jobs /\ thread[request[d].id] = "created"
               /\ d # c => request[d].id # j
        BY <1>2 DEF ThreadInv
      <3>3. \A n \in 1..jobs : n \in 1..MaxJobs
        BY <2>1, ExecutionAssumption
      <3> QED
        BY <3>1, <3>2, <3>3
    <2>3. svc'.job <= jobs'
      BY <1>2 DEF ThreadInv
    <2>4. \A d \in Clients : request'[d].pc = "starting" =>
             request'[d].id \in 1..jobs' /\ thread'[request'[d].id] = "created"
      BY <1>2, <1>5, <2>2
    <2>5. \A d, f \in Clients :
             request'[d].pc = "starting" /\ request'[f].pc = "starting" /\ d # f =>
                 request'[d].id # request'[f].id
      BY <1>4 DEF ThreadInv
    <2>6. \A k \in 1..MaxJobs :
             thread'[k] \in {"created", "started", "group", "executing"} /\ svc'.job = k =>
                 svc'.jobState \in {"running", "cancelled"}
      BY <1>2, <1>3, <1>5 DEF ThreadInv
    <2> QED
      BY <2>3, <2>4, <2>5, <2>6 DEF ThreadInv
  <1> QED
    BY <1>6, <1>7, <1>8

\* What the steps of a job thread have in common: they touch one thread that
\* was already started, and of the fields only the state of its own job.
LEMMA JobStep ==
    ASSUME IInv, NEW j \in 1..MaxJobs,
           NEW p \in {"group", "executing", "done", "dead"},
           thread[j] \in {"started", "group", "executing"},
           thread' = [thread EXCEPT ![j] = p],
           \/ svc' = svc
           \/ /\ p = "done" /\ svc.job = j /\ Slot(svc')
              /\ svc'.session = svc.session /\ svc'.state = svc.state
              /\ svc'.engine = svc.engine /\ svc'.job = svc.job,
           UNCHANGED <<request, engines, live, released, sessionExpired, jobExpired, sessions, jobs>>
    PROVE  IInv'
  <1> USE DEF IInv
  <1>1. Slot(svc)'
    BY DEF Slot
  <1>2. svc' \in Service
    BY DEF Slot, TypeOK
  <1>3. TypeOK'
    BY <1>2 DEF TypeOK
  <1>4. /\ svc'.session = svc.session /\ svc'.state = svc.state
        /\ svc'.engine = svc.engine /\ svc'.job = svc.job
    OBVIOUS
  <1>5. ConnectInv' /\ NoEngineLeak'
    BY <1>4 DEF ConnectInv, Connecting, NoEngineLeak, IsLocal
  <1>6. thread'[j] = p /\ \A k \in 1..MaxJobs : k # j => thread'[k] = thread[k]
    BY DEF TypeOK
  <1>7. ThreadInv'
    <2>1. jobs \in 0..MaxJobs
      BY DEF TypeOK
    <2>2. \A d \in Clients : request[d].pc = "starting" =>
             request[d].id \in 1..MaxJobs /\ request[d].id # j
      BY <2>1, ExecutionAssumption DEF ThreadInv
    <2> QED
      BY <1>4, <1>6, <2>2 DEF ThreadInv
  <1> QED
    BY <1>1, <1>3, <1>5, <1>7

\* _run_job takes the lock: a job that still runs has an engine.
LEMMA BeginStep == ASSUME IInv, NEW j \in 1..MaxJobs, Begin(j) PROVE IInv'
  <1>1. svc' = svc
    BY DEF Begin, IInv, Slot, Runs
  <1>2. PICK p \in {"group", "done"} : thread' = [thread EXCEPT ![j] = p]
    BY DEF Begin
  <1> QED
    BY <1>1, <1>2, JobStep DEF Begin

\* The thread of a job that starts keeps the invariant, dead or not.
LEMMA SetJobGroupStep == ASSUME IInv, NEW j \in 1..MaxJobs, SetJobGroup(j) PROVE IInv'
  <1>1. PICK p \in {"executing", "dead"} : thread' = [thread EXCEPT ![j] = p]
    BY DEF SetJobGroup
  <1> QED
    BY <1>1, JobStep DEF SetJobGroup

\* _run_job reports: only into its own job, and not over a cancellation.
LEMMA FinishStep == ASSUME IInv, NEW j \in 1..MaxJobs, Finish(j) PROVE IInv'
  <1>1. PICK outcome \in {"succeeded", "failed"} : svc' = Finished(svc, j, outcome)
    BY DEF Finish
  <1> DEFINE new == [svc EXCEPT !.jobState = outcome, !.result = [of |-> j, state |-> outcome]]
  <1>2. svc \in Service /\ j \in 0..MaxJobs
    BY DEF IInv, TypeOK
  <1>3. /\ new \in Service /\ new.session = svc.session /\ new.state = svc.state
        /\ new.engine = svc.engine /\ new.job = svc.job /\ new.jobState = outcome
        /\ new.result = [of |-> j, state |-> outcome]
    BY <1>2 DEF Service, JobState
  <1>4. svc' = IF svc.job # j \/ svc.jobState = "cancelled" THEN svc ELSE new
    BY <1>1 DEF Finished
  <1> HIDE DEF new
  <1>5. svc.job = j => Slot(new)
    BY <1>3 DEF Slot, IInv
  <1>6. thread[j] = "executing" /\ thread' = [thread EXCEPT ![j] = "done"]
        /\ UNCHANGED <<request, engines, live, released, sessionExpired, jobExpired, sessions, jobs>>
    BY DEF Finish
  <1>7. \/ svc' = svc
        \/ /\ svc.job = j /\ Slot(svc')
           /\ svc'.session = svc.session /\ svc'.state = svc.state
           /\ svc'.engine = svc.engine /\ svc'.job = svc.job
    BY <1>3, <1>4, <1>5
  <1> QED
    BY <1>6, <1>7, JobStep

-----------------------------------------------------------------------------
(* The theorems. *)

\* The invariant holds at the start.
LEMMA InitIInv == Init => IInv
  <1> SUFFICES ASSUME Init PROVE IInv
    OBVIOUS
  <1> USE DEF Init
  <1>1. 0 \in 0..MaxSessions /\ 0 \in 0..MaxJobs /\ 0 \in 0..(MaxSessions + MaxJobs)
    BY ExecutionAssumption
  <1>2. TypeOK
    BY <1>1 DEF TypeOK, Service, SessionState, JobState, NoResult, Request, NoRequest, NoEngine
  <1>3. Slot(svc)
    BY <1>2 DEF Slot, TypeOK
  <1>4. ConnectInv /\ ThreadInv
    BY DEF ConnectInv, ThreadInv, Connecting, NoRequest
  <1>5. NoEngineLeak
    BY DEF NoEngineLeak, IsLocal, NoEngine
  <1> QED
    BY <1>2, <1>3, <1>4, <1>5 DEF IInv

\* Every step keeps it.
LEMMA Inductive == IInv /\ [Next]_vars => IInv'
  <1> SUFFICES ASSUME IInv, [Next]_vars PROVE IInv'
    OBVIOUS
  <1>1. ASSUME NEW c \in Clients, NEW k \in Keys, Connect(c, k) PROVE IInv'
    BY <1>1, ConnectStep
  <1>2. ASSUME NEW c \in Clients, Continue(c) PROVE IInv'
    BY <1>2, BuildEngineStep, BuildFailsStep, InstallStep, StartThreadStep DEF Continue
  <1>3. ASSUME NEW c \in Clients, Read(c) \/ Close(c) \/ Submit(c) \/ Cancel(c) PROVE IInv'
    BY <1>3, ReadStep, CloseStep, SubmitStep, CancelStep
  <1>4. ASSUME NEW j \in 1..MaxJobs, RunJob(j) PROVE IInv'
    BY <1>4, BeginStep, SetJobGroupStep, FinishStep DEF RunJob
  <1>5. CASE SessionExpires \/ JobExpires \/ UNCHANGED vars
    <2>1. /\ UNCHANGED <<svc, request, thread, engines, live, released, sessions, jobs>>
          /\ sessionExpired' \in BOOLEAN /\ jobExpired' \in BOOLEAN
      BY <1>5 DEF SessionExpires, JobExpires, vars, IInv, TypeOK
    <2>2. TypeOK'
      BY <2>1 DEF IInv, TypeOK
    <2>3. Slot(svc)' /\ ConnectInv' /\ ThreadInv' /\ NoEngineLeak'
      BY <2>1 DEF IInv, Slot, ConnectInv, Connecting, ThreadInv, NoEngineLeak, IsLocal
    <2> QED
      BY <2>2, <2>3 DEF IInv
  <1> QED
    BY <1>1, <1>2, <1>3, <1>4, <1>5 DEF Next

\* The inductive invariant holds in every reachable state.
THEOREM Invariance == Spec => []IInv
  <1> QED
    BY InitIInv, Inductive, PTL DEF Spec

\* Every field of the service keeps its type: among them, session and job ids
\* stay within what was handed out.
THEOREM TypeCorrect == Spec => []TypeOK
  <1>1. IInv => TypeOK
    BY DEF IInv
  <1> QED
    BY <1>1, Invariance, PTL

\* A running job has a ready session with an engine, whatever connects, closes,
\* expiries and engine builds interleave with it.
THEOREM RunningHasEngine == Spec => []RunningJobHasEngine
  <1>1. IInv => RunningJobHasEngine
    BY DEF IInv, Slot, RunningJobHasEngine
  <1> QED
    BY <1>1, Invariance, PTL

\* A job that is over has the result of this very job, in agreement with its
\* state: no late thread reports into another job's slot.
THEOREM ResultsMatch == Spec => []ResultMatchesJob
  <1>1. IInv => ResultMatchesJob
    BY DEF IInv, Slot, ResultMatchesJob
  <1> QED
    BY <1>1, Invariance, PTL

\* A local engine that was built and not stopped is the service's, or in the
\* hands of a connect.
THEOREM NoLeak == Spec => []NoEngineLeak
  <1>1. IInv => NoEngineLeak
    BY DEF IInv
  <1> QED
    BY <1>1, Invariance, PTL

-----------------------------------------------------------------------------
(* A terminal state is final. *)

Final == svc.job # 0 /\ svc'.job = svc.job /\ svc.jobState # "running"
            => svc'.jobState = svc.jobState

\* A connect keeps the state of a job that is over.
LEMMA ConnectFinal == ASSUME IInv, NEW c \in Clients, NEW k \in Keys, Connect(c, k) PROVE Final
  <1> DEFINE s    == Swept
             mine == s.session # 0 /\ s.key = k
             base == IF s.session # 0 /\ ~mine THEN Closed(s) ELSE s
             new  == [base EXCEPT !.session = sessions + 1, !.key = k,
                                  !.state = "connecting", !.engine = 0]
  <1>1. Shrinks(svc, s) /\ Slot(s)
    BY SweptShrinks DEF Shrinks
  <1>2. base \in Service /\ (s.jobState # "running" => base.jobState = s.jobState)
    BY <1>1, ClosedSlot DEF Slot
  <1>3. svc' = s \/ svc' = new
    BY DEF Connect, Leave
  <1> HIDE DEF base
  <1>4. new.jobState = base.jobState
    BY <1>2 DEF Service
  <1> QED
    BY <1>1, <1>2, <1>3, <1>4 DEF Final, Shrinks

\* Submitting gives the slot a job id that was never handed out before.
LEMMA SubmitFinal == ASSUME IInv, NEW c \in Clients, Submit(c) PROVE Final
  <1> DEFINE s   == Swept
             new == [s EXCEPT !.job = jobs + 1, !.jobState = "running", !.result = NoResult]
  <1>1. Shrinks(svc, s) /\ s \in Service
    BY SweptShrinks DEF Shrinks, Slot
  <1>2. svc' = s \/ svc' = new
    BY DEF Submit, Leave
  <1>3. new.job = jobs + 1
    BY <1>1 DEF Service
  <1>4. svc.job <= jobs /\ svc.job \in 0..MaxJobs /\ jobs \in 0..MaxJobs
    BY DEF IInv, ThreadInv, TypeOK, Service
  <1>5. svc.job # jobs + 1
    BY <1>4, ExecutionAssumption
  <1> QED
    BY <1>1, <1>2, <1>3, <1>5 DEF Final, Shrinks

\* Every step leaves a job that has ended as it is.
LEMMA FinalStep == IInv /\ [Next]_vars => Final
  <1> SUFFICES ASSUME IInv, [Next]_vars PROVE Final
    OBVIOUS
  <1>1. Shrinks(svc, Swept) /\ Slot(Swept) /\ Slot(svc)
    BY SweptShrinks DEF Shrinks, IInv
  <1>2. ASSUME NEW c \in Clients, Continue(c) PROVE Final
    <2>1. svc \in Service
      BY DEF IInv, TypeOK
    <2>2. \/ svc' = svc
          \/ svc' = [svc EXCEPT !.state = "failed", !.engine = 0]
          \/ svc' = [svc EXCEPT !.state = "ready", !.engine = request[c].id]
      BY <1>2 DEF Continue, BuildEngine, BuildFails, Install, StartThread
    <2> QED
      BY <2>1, <2>2 DEF Final, Service
  <1>3. ASSUME NEW c \in Clients, Read(c) PROVE Final
    BY <1>1, <1>3 DEF Read, Leave, Final, Shrinks
  <1>4. ASSUME NEW c \in Clients, Close(c) PROVE Final
    BY <1>1, <1>4, ClosedSlot DEF Close, Final
  <1>5. ASSUME NEW c \in Clients, Cancel(c) PROVE Final
    <2>1. svc' = CancelRunning(Swept)
      BY <1>5 DEF Cancel, Leave
    <2>2. svc'.jobState = Swept.jobState \/ Swept.jobState = "running"
      BY <1>1, <2>1, CancelRunningSlot
    <2> QED
      BY <1>1, <2>2 DEF Final, Shrinks
  <1>6. ASSUME NEW j \in 1..MaxJobs, RunJob(j) PROVE Final
    <2>1. CASE Begin(j)
      BY <1>1, <2>1 DEF Begin, Slot, Runs, Final
    <2>2. CASE SetJobGroup(j)
      BY <2>2 DEF SetJobGroup, Final
    <2>3. CASE Finish(j)
      <3>1. svc.job = j => svc.jobState \in {"running", "cancelled"}
        BY <2>3 DEF Finish, IInv, ThreadInv
      <3>2. PICK outcome \in {"succeeded", "failed"} : svc' = Finished(svc, j, outcome)
        BY <2>3 DEF Finish
      <3>3. svc' = svc \/ (svc.job = j /\ svc.jobState # "cancelled")
        BY <3>2 DEF Finished
      <3> QED
        BY <3>1, <3>3 DEF Final
    <2> QED
      BY <1>6, <2>1, <2>2, <2>3 DEF RunJob
  <1>7. CASE SessionExpires \/ JobExpires \/ UNCHANGED vars
    BY <1>7 DEF SessionExpires, JobExpires, vars, Final
  <1> QED
    BY <1>2, <1>3, <1>4, <1>5, <1>6, <1>7, ConnectFinal, SubmitFinal DEF Next

\* Whichever of cancel, expiry, close and the job thread comes last, the
\* terminal state of a job does not change.
THEOREM TerminalFinal == Spec => TerminalIsFinal
  <1>1. IInv /\ [Next]_vars => [Final]_vars
    BY FinalStep
  <1>2. Spec => [][Final]_vars
    BY <1>1, Invariance, PTL DEF Spec
  <1> QED
    BY <1>2 DEF TerminalIsFinal, Final
=============================================================================
