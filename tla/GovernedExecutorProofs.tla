------------------------ MODULE GovernedExecutorProofs ------------------------
(***************************************************************************)
(* Proofs about GovernedExecutor, for every set of requests, threads and   *)
(* boundaries: first what one call writes and when, then what the journals *)
(* say of the effects and of the replies, and last what a caller of the    *)
(* MCP boundary is told.  Each section builds on the one before.           *)
(***************************************************************************)
EXTENDS MCGovernedExecutor, FiniteSetTheorems, TLAPS

-----------------------------------------------------------------------------
(* Typing of the control-flow operators. *)

ControlType ==
    /\ lock \in [Boundaries -> Threads \union {None}]
    /\ pc \in [Threads -> PC]
    /\ frame \in [Threads -> Frame]

\* Jumping inside the boundary keeps the control variables well typed.
LEMMA GotoType ==
    ASSUME ControlType, NEW t \in Threads, NEW f \in Frame, NEW p \in PC,
           Goto(t, f, p)
    PROVE  ControlType'
  BY ConstantsAssumption DEF ControlType, Goto

\* So does leaving it.
LEMMA ReturnType ==
    ASSUME ControlType, NEW t \in Threads, NEW f \in Frame, NEW r \in Reply,
           Return(t, f, r)
    PROVE  ControlType'
  <1>1. [f EXCEPT !.reply = r] \in Frame
    BY DEF Frame
  <1>2. QED
    BY <1>1, ConstantsAssumption DEF ControlType, Return, PC

\* An event appended to a log is a well typed event.
LEMMA AppendType ==
    ASSUME TypeOK, NEW id \in Ids, NEW s \in ExecutionState, NEW k \in EventKind,
           Append_(id, s, k)
    PROVE  journal' \in [Ids -> Seq(CapabilityStateEvent)]
  <1>1. Event(s, k, now) \in CapabilityStateEvent
    BY DEF Event, CapabilityStateEvent, TypeOK
  <1>2. Append(journal[id], Event(s, k, now)) \in Seq(CapabilityStateEvent)
    BY <1>1 DEF TypeOK
  <1>3. QED
    BY <1>2 DEF Append_, TypeOK

\* The frame a call starts with is well typed.
LEMMA NewFrameType ==
    ASSUME NEW id \in Ids, NEW orig \in Ids \union {None}, NEW m \in AutonomyMode,
           NEW a \in Approvals \union {None}, NEW l \in BOOLEAN,
           NEW r \in LiveStates \union {None}
    PROVE  NewFrame(id, orig, m, a, l, r) \in Frame
  BY DEF NewFrame, Frame, Reply

\* So is the frame that compensate starts its compensation with.
LEMMA CompensationFrameType ==
    ASSUME NEW c \in {i \in Ids : Origin[i] # None},
           NEW m \in CompensationModes, NEW a \in Approvals \union {None},
           NEW l \in Leases, NEW r \in LiveStates \union {None}
    PROVE  LET f == CompensationFrame(c, m, a, l, r)
           IN  f \in Frame /\ f.id \in Ids /\ f.orig \in Ids
  <1> DEFINE mode == IF m = None THEN Declared[c] ELSE m
             f == CompensationFrame(c, m, a, l, r)
  <1>1. c \in Ids /\ Origin[c] \in Ids /\ mode \in AutonomyMode /\ l \in BOOLEAN
    BY ConstantsAssumption
  <1>2. f \in Frame
    BY <1>1, NewFrameType DEF CompensationFrame
  <1>3. f.id = c /\ f.orig = Origin[c]
    BY DEF CompensationFrame, NewFrame
  <1>4. QED
    BY <1>1, <1>2, <1>3

\* The stricter of two modes is a mode.
LEMMA ResolveType ==
    ASSUME NEW d \in AutonomyMode, NEW c \in AutonomyMode
    PROVE  resolve_autonomy_mode(d, c) \in AutonomyMode
  BY DEF resolve_autonomy_mode

\* The head of _execute keeps the control variables well typed.
LEMMA DispatchType ==
    ASSUME ControlType, NEW t \in Threads, NEW f \in Frame, f.id \in Ids,
           Dispatch(t, f)
    PROVE  ControlType'
  <1> DEFINE effective == resolve_autonomy_mode(Declared[f.id], f.mode)
  <1>1. [f EXCEPT !.mode = effective] \in Frame
    <2>1. effective \in AutonomyMode
      BY ResolveType, ConstantsAssumption DEF Frame
    <2>2. QED
      BY <2>1 DEF Frame
  <1>2. \/ \E r \in Reply : Return(t, f, r)
        \/ Goto(t, f, "reconcile")
        \/ Goto(t, [f EXCEPT !.mode = effective], "evaluate")
    BY DEF Dispatch, _resolve_prior, Reply
  <1>3. QED
    BY <1>1, <1>2, GotoType, ReturnType DEF PC

-----------------------------------------------------------------------------
(* Type correctness. *)

\* A thread inside the boundary works on a proper identity; inside compensate
\* its original is a proper identity too.
Busy ==
    \A t \in Threads : pc[t] # "idle" =>
        /\ frame[t].id \in Ids
        /\ pc[t] = "comp_done" => frame[t].orig \in Ids

TypeInv == TypeOK /\ Busy

\* What a jump or a return does to the identity of the thread it moves.
LEMMA GotoBusy ==
    ASSUME ControlType, Busy, NEW t \in Threads, NEW f \in Frame, NEW p \in PC,
           f.id \in Ids, p # "comp_done", Goto(t, f, p)
    PROVE  Busy'
  BY DEF ControlType, Busy, Goto

\* A thread that returns is idle or back in compensate, where its original is.
LEMMA ReturnBusy ==
    ASSUME ControlType, Busy, NEW t \in Threads, NEW f \in Frame, NEW r \in Reply,
           f.id \in Ids, Return(t, f, r)
    PROVE  Busy'
  <1>1. /\ [f EXCEPT !.reply = r].id = f.id
        /\ [f EXCEPT !.reply = r].orig = f.orig
    BY DEF Frame
  <1>2. f.orig # None => f.orig \in Ids
    BY DEF Frame
  <1>3. QED
    BY <1>1, <1>2 DEF ControlType, Busy, Return

\* A call that is dispatched has its identity.
LEMMA DispatchBusy ==
    ASSUME ControlType, Busy, NEW t \in Threads, NEW f \in Frame, f.id \in Ids,
           Dispatch(t, f)
    PROVE  Busy'
  <1> DEFINE effective == resolve_autonomy_mode(Declared[f.id], f.mode)
             g == [f EXCEPT !.mode = effective]
  <1>1. g \in Frame /\ g.id \in Ids
    <2>1. effective \in AutonomyMode
      BY ResolveType, ConstantsAssumption DEF Frame
    <2>2. QED
      BY <2>1 DEF Frame
  <1>2. \/ \E r \in Reply : Return(t, f, r)
        \/ Goto(t, f, "reconcile")
        \/ Goto(t, g, "evaluate")
    BY DEF Dispatch, _resolve_prior, Reply
  <1>3. QED
    BY <1>1, <1>2, GotoBusy, ReturnBusy DEF PC

\* Each step of a thread keeps the types.
LEMMA StepType ==
    ASSUME TypeInv, NEW t \in Threads, Step(t)
    PROVE  TypeInv'
  <1> DEFINE f == frame[t]
  <1> USE DEF TypeInv
  <1>0. ControlType /\ Busy /\ f \in Frame
    BY DEF TypeOK, ControlType
  <1>1. ASSUME NEW g \in Frame, g.id \in Ids, UNCHANGED outside,
               journal' \in [Ids -> Seq(CapabilityStateEvent)],
               \/ \E p \in PC \ {"comp_done"} : Goto(t, g, p)
               \/ \E r \in Reply : Return(t, g, r)
        PROVE  TypeInv'
    <2>1. ControlType' /\ Busy'
      BY <1>0, <1>1, GotoType, ReturnType, GotoBusy, ReturnBusy
    <2>2. QED
      BY <1>1, <2>1 DEF TypeOK, ControlType, outside
  <1>2. UNCHANGED journal => journal' \in [Ids -> Seq(CapabilityStateEvent)]
    BY DEF TypeOK
  <1>3. pc[t] # "idle" => f.id \in Ids
    BY DEF Busy
  <1>4. \A result \in {"EXECUTED", "FAILED"} :
            [f EXCEPT !.out = result] \in Frame /\ [f EXCEPT !.out = result].id = f.id
    BY <1>0 DEF Frame
  <1>5. \A l \in LiveStates :
            [f EXCEPT !.rep = l] \in Frame /\ [f EXCEPT !.rep = l].id = f.id
    BY <1>0 DEF Frame
  <1>6. live \in LiveStates /\ f.out \in {"EXECUTED", "FAILED"}
            /\ ResultOf(f.out) \in Reply /\ f.out \in ExecutionState
    BY <1>0 DEF TypeOK, Frame, ResultOf, Reply, ExecutionState
  <1>7. CASE Evaluate(t)
    <2>1. f.rep # None => f.rep \in LiveStates
      BY <1>0 DEF Frame
    <2>2. QED
      BY <1>0, <1>1, <1>2, <1>3, <1>5, <1>6, <1>7, <2>1 DEF Evaluate, PC, Reply
  <1>8. CASE Recheck(t)
    BY <1>0, <1>1, <1>2, <1>3, <1>5, <1>6, <1>8 DEF Recheck, PC, Reply
  <1>9. CASE BeginExecution(t)
    BY <1>0, <1>1, <1>2, <1>3, <1>9 DEF BeginExecution, PC, Reply
  <1>10. CASE Attest(t)
    <2>1. Append_(f.id, "EXECUTING", "external_call")
            => journal' \in [Ids -> Seq(CapabilityStateEvent)]
      BY <1>3, <1>10, AppendType DEF Attest, ExecutionState, EventKind
    <2>2. QED
      BY <1>0, <1>1, <1>2, <1>3, <1>10, <2>1 DEF Attest, PC, Reply
  <1>11. CASE AcquireLease(t)
    BY <1>0, <1>1, <1>2, <1>3, <1>4, <1>11 DEF AcquireLease, PC
  <1>12. CASE CallExecutor(t)
    <2>1. ControlType' /\ Busy'
      BY <1>0, <1>3, <1>12, GotoType, GotoBusy DEF CallExecutor, PC
    <2>2. calls' \in [Ids -> Nat]
      BY <1>3, <1>12 DEF CallExecutor, TypeOK
    <2>3. QED
      BY <1>12, <2>1, <2>2 DEF CallExecutor, TypeOK, ControlType
  <1>13. CASE Respond(t)
    BY <1>0, <1>1, <1>2, <1>3, <1>4, <1>13 DEF Respond, PC
  <1>14. CASE Record(t)
    <2>1. Append_(f.id, f.out, "external_outcome")
            => journal' \in [Ids -> Seq(CapabilityStateEvent)]
      BY <1>3, <1>6, <1>14, AppendType DEF Record, EventKind
    <2>2. QED
      BY <1>0, <1>1, <1>2, <1>3, <1>6, <1>14, <2>1 DEF Record, Reply
  <1>15. CASE ReconcileAttempt(t)
    <2>1. Append_(f.id, "EXECUTING", "reconciliation_attempt")
            => journal' \in [Ids -> Seq(CapabilityStateEvent)]
      BY <1>3, <1>15, AppendType DEF ReconcileAttempt, ExecutionState, EventKind
    <2>2. QED
      BY <1>0, <1>1, <1>2, <1>3, <1>15, <2>1 DEF ReconcileAttempt, PC, Reply
  <1>16. CASE Lookup(t)
    BY <1>0, <1>1, <1>2, <1>3, <1>4, <1>16 DEF Lookup, PC, Reply
  <1>17. CASE Settle(t)
    <2>1. Append_(f.id, f.out, "reconciliation")
            => journal' \in [Ids -> Seq(CapabilityStateEvent)]
      BY <1>3, <1>6, <1>17, AppendType DEF Settle, EventKind
    <2>2. QED
      BY <1>0, <1>1, <1>2, <1>3, <1>6, <1>17, <2>1 DEF Settle, Reply
  <1>18. CASE CompensateExecute(t)
    <2>1. ControlType' /\ Busy'
      BY <1>0, <1>3, <1>18, DispatchType, DispatchBusy DEF CompensateExecute
    <2>2. QED
      BY <1>18, <2>1 DEF CompensateExecute, TypeOK, ControlType, outside
  <1>19. CASE CompensateDone(t)
    <2>1. journal' \in [Ids -> Seq(CapabilityStateEvent)]
      BY <1>2, <1>19, AppendType DEF CompensateDone, ExecutionState, EventKind, Busy
    <2>2. [f EXCEPT !.reply = "error"] \in Frame
      BY <1>0 DEF Frame, Reply
    <2>3. frame' = frame \/ frame' = [frame EXCEPT ![t] = [f EXCEPT !.reply = "error"]]
      BY <1>19, <1>0 DEF CompensateDone, ControlType
    <2>4. ControlType'
      BY <1>0, <1>19, <2>2, <2>3 DEF CompensateDone, ControlType, PC
    <2>5. Busy'
      BY <1>0, <1>19, <2>3 DEF CompensateDone, ControlType, Busy
    <2>6. QED
      BY <1>19, <2>1, <2>4, <2>5 DEF CompensateDone, TypeOK, ControlType, outside
  <1>20. QED
    BY <1>7, <1>8, <1>9, <1>10, <1>11, <1>12, <1>13, <1>14, <1>15, <1>16,
       <1>17, <1>18, <1>19 DEF Step
\* Starting a call keeps the types.
LEMMA StartType ==
    ASSUME TypeInv, NEW t \in Threads, Execute(t) \/ Compensate(t)
    PROVE  TypeInv'
  <1> USE DEF TypeInv
  <1>0. ControlType /\ Busy
    BY DEF TypeOK, ControlType
  <1>1. CASE Execute(t)
    <2>1. PICK id \in Direct, m \in Modes, a \in Approvals \union {None},
               l \in Leases, r \in LiveStates \union {None} :
              /\ Dispatch(t, NewFrame(id, None, m, a, l, r))
              /\ UNCHANGED <<journal, outside>>
      BY <1>1 DEF Execute
    <2> DEFINE f == NewFrame(id, None, m, a, l, r)
    <2>2. f \in Frame /\ f.id \in Ids
      <3>1. id \in Ids /\ m \in AutonomyMode /\ l \in BOOLEAN
        BY ConstantsAssumption
      <3>2. f \in Frame
        BY <3>1, NewFrameType
      <3>3. f.id = id
        BY DEF NewFrame
      <3>4. QED
        BY <3>1, <3>2, <3>3
    <2>3. ControlType' /\ Busy'
      BY <1>0, <2>1, <2>2, DispatchType, DispatchBusy
    <2>4. QED
      BY <2>1, <2>3 DEF TypeOK, ControlType, outside
  <1>2. CASE Compensate(t)
    <2>1. PICK c \in {i \in Ids : Origin[i] # None}, m \in CompensationModes,
               a \in Approvals \union {None}, l \in Leases,
               r \in LiveStates \union {None} :
              /\ StartCompensation(t, CompensationFrame(c, m, a, l, r))
              /\ UNCHANGED outside
      BY <1>2 DEF Compensate
    <2> DEFINE f == CompensationFrame(c, m, a, l, r)
    <2>2. f \in Frame /\ f.id \in Ids /\ f.orig \in Ids
      BY CompensationFrameType, ConstantsAssumption
    <2>3. \/ Append_(f.orig, "COMPENSATING", "compensation_started") /\ Goto(t, f, "comp_exec")
          \/ (\E rep \in Reply : Return(t, f, rep)) /\ UNCHANGED journal
      BY <2>1 DEF StartCompensation, Reply
    <2>4. ControlType' /\ Busy'
      BY <1>0, <2>2, <2>3, GotoType, ReturnType, GotoBusy, ReturnBusy DEF PC
    <2>5. journal' \in [Ids -> Seq(CapabilityStateEvent)]
      <3>1. CASE Append_(f.orig, "COMPENSATING", "compensation_started")
        BY <2>2, <3>1, AppendType DEF ExecutionState, EventKind
      <3>2. CASE UNCHANGED journal
        BY <3>2 DEF TypeOK
      <3>3. QED
        BY <2>3, <3>1, <3>2
    <2>6. QED
      BY <2>1, <2>4, <2>5 DEF TypeOK, ControlType, outside
  <1>3. QED
    BY <1>1, <1>2

\* So does every step of the environment.
LEMMA EnvironmentType ==
    ASSUME TypeInv,
           \/ \E id \in Ids : TakeEffect(id)
           \/ \E b \in Boundaries : Crash(b)
           \/ ChangeState \/ Tick \/ StepBack
    PROVE  TypeInv'
  <1> USE DEF TypeInv
  <1>1. CASE \E id \in Ids : TakeEffect(id)
    BY <1>1 DEF TakeEffect, TypeOK, Busy
  <1>2. ASSUME NEW b \in Boundaries, Crash(b)
        PROVE  TypeInv'
    <2>1. \A t \in Threads : [frame[t] EXCEPT !.reply = "none"] \in Frame
      <3>1. \A t \in Threads : frame[t] \in Frame
        BY DEF TypeOK
      <3>2. QED
        BY <3>1 DEF Frame, Reply
    <2>2. frame' \in [Threads -> Frame]
      BY <1>2, <2>1 DEF Crash, TypeOK
    <2>3. pc' \in [Threads -> PC] /\ lock' \in [Boundaries -> Threads \union {None}]
      BY <1>2 DEF Crash, TypeOK, PC
    <2>4. Busy'
      BY <1>2 DEF Crash, TypeOK, Busy
    <2>5. QED
      BY <1>2, <2>2, <2>3, <2>4 DEF Crash, TypeOK
  <1>3. CASE ChangeState
    BY <1>3 DEF ChangeState, TypeOK, Busy
  <1>4. CASE Tick
    BY <1>4 DEF Tick, TypeOK, Busy
  <1>5. CASE StepBack
    BY <1>5 DEF StepBack, TypeOK, Busy
  <1>6. QED
    BY <1>1, <1>2, <1>3, <1>4, <1>5

\* The initial state is well typed.
LEMMA InitType == Init => TypeInv
  <1> SUFFICES ASSUME Init PROVE TypeInv
    OBVIOUS
  <1>1. NewFrame(None, None, "SHADOW", None, FALSE, None) \in Frame
    BY DEF NewFrame, Frame, Reply, AutonomyMode
  <1>2. <<>> \in Seq(CapabilityStateEvent)
    OBVIOUS
  <1>3. TypeOK
    BY <1>1, <1>2 DEF Init, TypeOK, PC
  <1>4. Busy
    BY DEF Init, Busy
  <1>5. QED
    BY <1>3, <1>4 DEF TypeInv

\* The strengthened typing that the other proofs start from.
LEMMA TypeInvariance == Spec => []TypeInv
  <1>1. TypeInv /\ [Next]_vars => TypeInv'
    <2> SUFFICES ASSUME TypeInv, [Next]_vars PROVE TypeInv'
      OBVIOUS
    <2>1. CASE UNCHANGED vars
      BY <2>1 DEF vars, TypeInv, TypeOK, Busy
    <2>2. CASE Next
      BY <2>2, StartType, StepType, EnvironmentType DEF Next
    <2>3. QED
      BY <2>1, <2>2
  <1>2. QED
    BY InitType, <1>1, PTL DEF Spec

\* Every reachable state of GovernedExecutor is well typed, whatever the
\* clock, the crashes and the number of instances.
THEOREM TypeCorrect == Spec => []TypeOK
  <1>1. TypeInv => TypeOK
    BY DEF TypeInv
  <1>2. QED
    BY TypeInvariance, <1>1, PTL

-----------------------------------------------------------------------------
(* The write-ahead rule, for any number of instances on one journal.       *)
(*                                                                         *)
(* CallIsWrittenAhead is not inductive: that a call was written ahead      *)
(* depends on what the thread about to make it has journalled.  The        *)
(* strengthening says that every non-empty log starts with the pre-call    *)
(* event and which program points imply a non-empty log.                   *)

WrittenAhead(log) ==
    log # <<>> /\ log[1].state = "EXECUTING" /\ log[1].kind = "external_call"

Attested == {"lease", "call", "await", "record", "reconcile", "lookup", "settle"}

AheadInv ==
    /\ \A id \in Ids : journal[id] # <<>> => WrittenAhead(journal[id])
    /\ \A id \in Ids : calls[id] > 0 => journal[id] # <<>>
    /\ \A t \in Threads : pc[t] \in Attested => journal[frame[t].id] # <<>>
    /\ \A t \in Threads : pc[t] # "idle" /\ frame[t].orig # None
                            => journal[frame[t].orig] # <<>>

\* Appending keeps every log non-empty that was, and its first event.
LEMMA AppendGrows ==
    ASSUME TypeOK, NEW id \in Ids, NEW s, NEW k, Append_(id, s, k)
    PROVE  /\ journal'[id] # <<>>
           /\ \A i \in Ids : journal[i] # <<>> =>
                 journal'[i] # <<>> /\ journal'[i][1] = journal[i][1]
           /\ journal[id] = <<>> => journal'[id][1] = Event(s, k, now)
           /\ \A i \in Ids : i # id => journal'[i] = journal[i]
  <1> DEFINE e == Event(s, k, now)
  <1>1. \A q \in Seq(CapabilityStateEvent) :
            /\ Append(q, e) # <<>>
            /\ q # <<>> => Append(q, e)[1] = q[1]
            /\ q = <<>> => Append(q, e)[1] = e
    OBVIOUS
  <1>2. \A i \in Ids : journal[i] \in Seq(CapabilityStateEvent)
    BY DEF TypeOK
  <1>3. \A i \in Ids : journal'[i] = IF i = id THEN Append(journal[i], e) ELSE journal[i]
    BY DEF Append_, TypeOK
  <1>4. QED
    BY <1>1, <1>2, <1>3

\* One step of thread t that journals properly and jumps or returns properly
\* keeps the write-ahead invariant.
LEMMA MoveAhead ==
    ASSUME TypeInv, AheadInv, NEW t \in Threads, NEW g \in Frame, g.id \in Ids,
           \A i \in Ids : journal[i] # <<>> =>
               journal'[i] # <<>> /\ journal'[i][1] = journal[i][1],
           \A i \in Ids : journal[i] = <<>> /\ journal'[i] # <<>> =>
               WrittenAhead(journal'[i]),
           \A i \in Ids : calls'[i] > 0 => journal'[i] # <<>>,
           g.orig # None => journal'[g.orig] # <<>>,
           \/ \E p \in PC : Goto(t, g, p) /\ (p \in Attested => journal'[g.id] # <<>>)
           \/ \E r \in Reply : Return(t, g, r)
    PROVE  AheadInv'
  <1> USE DEF TypeInv
  <1>1. \A r \in Reply : /\ [g EXCEPT !.reply = r].id = g.id
                         /\ [g EXCEPT !.reply = r].orig = g.orig
    BY DEF Frame
  <1>2. /\ pc \in [Threads -> PC] /\ frame \in [Threads -> Frame]
        /\ \A u \in Threads \ {t} : pc'[u] = pc[u] /\ frame'[u] = frame[u]
        /\ frame'[t].id = g.id /\ frame'[t].orig = g.orig
        /\ pc'[t] \in Attested => journal'[g.id] # <<>>
    <2>1. CASE \E p \in PC : Goto(t, g, p) /\ (p \in Attested => journal'[g.id] # <<>>)
      BY <2>1 DEF Goto, TypeOK
    <2>2. CASE \E r \in Reply : Return(t, g, r)
      BY <2>2, <1>1 DEF Return, TypeOK, Attested
    <2>3. QED
      BY <2>1, <2>2
  <1>3. \A u \in Threads : pc[u] # "idle" => frame[u].id \in Ids
    BY DEF Busy
  <1>4. \A u \in Threads : frame[u].orig # None => frame[u].orig \in Ids
    BY <1>2 DEF Frame
  <1>5. (\A id \in Ids : journal[id] # <<>> => WrittenAhead(journal[id]))'
    BY DEF AheadInv, WrittenAhead
  <1>6. (\A u \in Threads : pc[u] \in Attested => journal[frame[u].id] # <<>>)'
    BY <1>2, <1>3 DEF AheadInv, Attested
  <1>7. (\A u \in Threads : pc[u] # "idle" /\ frame[u].orig # None
                              => journal[frame[u].orig] # <<>>)'
    BY <1>2, <1>4 DEF AheadInv
  <1>8. QED
    BY <1>5, <1>6, <1>7 DEF AheadInv

\* The same for a step that leaves the journal and the calls alone.
LEMMA QuietAhead ==
    ASSUME TypeInv, AheadInv, NEW t \in Threads, NEW g \in Frame, g.id \in Ids,
           g.orig # None => journal[g.orig] # <<>>,
           UNCHANGED <<journal, calls>>,
           \/ \E p \in PC : Goto(t, g, p) /\ (p \in Attested => journal[g.id] # <<>>)
           \/ \E r \in Reply : Return(t, g, r)
    PROVE  AheadInv'
  <1>1. \A i \in Ids : calls'[i] > 0 => journal'[i] # <<>>
    BY DEF AheadInv
  <1>2. QED
    BY <1>1, MoveAhead

\* And for a step that appends to a log: only the pre-call event may open one.
LEMMA AppendAhead ==
    ASSUME TypeInv, AheadInv, NEW t \in Threads, NEW g \in Frame, g.id \in Ids,
           NEW i \in Ids, NEW s \in ExecutionState, NEW k \in EventKind,
           Append_(i, s, k), UNCHANGED calls,
           \/ journal[i] # <<>>
           \/ s = "EXECUTING" /\ k = "external_call",
           g.orig # None => journal'[g.orig] # <<>>,
           \/ \E p \in PC : Goto(t, g, p) /\ (p \in Attested => journal'[g.id] # <<>>)
           \/ \E r \in Reply : Return(t, g, r)
    PROVE  AheadInv'
  <1>1. TypeOK
    BY DEF TypeInv
  <1>2. \A j \in Ids : journal[j] = <<>> /\ journal'[j] # <<>> => WrittenAhead(journal'[j])
    <2>1. \A j \in Ids : j # i => journal'[j] = journal[j]
      BY <1>1, AppendGrows
    <2>2. journal[i] = <<>> => journal'[i] # <<>> /\ journal'[i][1] = Event(s, k, now)
      BY <1>1, AppendGrows
    <2>3. journal[i] = <<>> => Event(s, k, now).state = "EXECUTING"
                               /\ Event(s, k, now).kind = "external_call"
      BY DEF Event
    <2>4. QED
      BY <2>1, <2>2, <2>3 DEF WrittenAhead
  <1>3. \A j \in Ids : journal[j] # <<>> =>
            journal'[j] # <<>> /\ journal'[j][1] = journal[j][1]
    BY <1>1, AppendGrows
  <1>4. \A j \in Ids : calls'[j] > 0 => journal'[j] # <<>>
    BY <1>3 DEF AheadInv
  <1>5. QED
    BY <1>2, <1>3, <1>4, MoveAhead

\* The head of _execute.
LEMMA DispatchAhead ==
    ASSUME TypeInv, AheadInv, NEW t \in Threads, NEW f \in Frame, f.id \in Ids,
           f.orig # None => journal[f.orig] # <<>>,
           UNCHANGED <<journal, calls>>, Dispatch(t, f)
    PROVE  AheadInv'
  <1> DEFINE effective == resolve_autonomy_mode(Declared[f.id], f.mode)
             g == [f EXCEPT !.mode = effective]
  <1>1. g \in Frame /\ g.id = f.id /\ g.orig = f.orig
    <2>1. effective \in AutonomyMode
      BY ResolveType, ConstantsAssumption DEF Frame
    <2>2. QED
      BY <2>1 DEF Frame
  <1>2. \/ \E r \in Reply : Return(t, f, r)
        \/ Goto(t, f, "reconcile") /\ journal[f.id] # <<>>
        \/ Goto(t, g, "evaluate")
    BY DEF Dispatch, _resolve_prior, Reply
  <1>3. CASE \/ \E r \in Reply : Return(t, f, r)
             \/ Goto(t, f, "reconcile") /\ journal[f.id] # <<>>
    BY <1>3, QuietAhead DEF PC
  <1>4. CASE Goto(t, g, "evaluate")
    BY <1>1, <1>4, QuietAhead DEF PC, Attested
  <1>5. QED
    BY <1>2, <1>3, <1>4

\* Every step of a thread keeps the write-ahead invariant.
LEMMA StepAhead ==
    ASSUME TypeInv, AheadInv, NEW t \in Threads, Step(t)
    PROVE  AheadInv'
  <1> DEFINE f == frame[t]
  <1>0. /\ f \in Frame /\ TypeOK /\ pc[t] # "idle" /\ f.id \in Ids
        /\ f.orig # None => f.orig \in Ids /\ journal[f.orig] # <<>>
        /\ pc[t] \in Attested => journal[f.id] # <<>>
    <2>1. TypeOK /\ f \in Frame /\ pc[t] # "idle"
      BY DEF TypeInv, TypeOK, Step, Evaluate, Recheck, BeginExecution, Attest,
             AcquireLease, CallExecutor, Respond, Record, ReconcileAttempt,
             Lookup, Settle, CompensateExecute, CompensateDone
    <2>2. f.orig # None => f.orig \in Ids
      BY <2>1 DEF Frame
    <2>3. QED
      BY <2>1, <2>2 DEF TypeInv, Busy, AheadInv
  <1>1. \A result \in {"EXECUTED", "FAILED"} :
            /\ [f EXCEPT !.out = result] \in Frame
            /\ [f EXCEPT !.out = result].id = f.id /\ [f EXCEPT !.out = result].orig = f.orig
    BY <1>0 DEF Frame
  <1>2. \A l \in LiveStates :
            /\ [f EXCEPT !.rep = l] \in Frame
            /\ [f EXCEPT !.rep = l].id = f.id /\ [f EXCEPT !.rep = l].orig = f.orig
    BY <1>0 DEF Frame
  <1>3. live \in LiveStates /\ f.out \in {"EXECUTED", "FAILED"}
            /\ ResultOf(f.out) \in Reply /\ f.out \in ExecutionState
    BY <1>0 DEF TypeOK, Frame, ResultOf, Reply, ExecutionState
  <1>4. ASSUME NEW i \in Ids, NEW s \in ExecutionState, NEW k \in EventKind,
               Append_(i, s, k)
        PROVE  /\ journal'[i] # <<>>
               /\ f.orig # None => journal'[f.orig] # <<>>
    BY <1>0, <1>4, AppendGrows
  <1>5. CASE Evaluate(t)
    <2>1. f.rep # None => f.rep \in LiveStates
      BY <1>0 DEF Frame
    <2>2. \/ Goto(t, f, "begin")
          \/ \E l \in LiveStates : Goto(t, [f EXCEPT !.rep = l], "recheck")
          \/ Return(t, f, "refused")
      BY <1>3, <1>5, <2>1 DEF Evaluate
    <2>3. UNCHANGED <<journal, calls>>
      BY <1>5 DEF Evaluate, outside
    <2>4. CASE Goto(t, f, "begin") \/ Return(t, f, "refused")
      BY <1>0, <2>3, <2>4, QuietAhead DEF PC, Attested, Reply
    <2>5. ASSUME NEW l \in LiveStates, Goto(t, [f EXCEPT !.rep = l], "recheck")
          PROVE  AheadInv'
      BY <1>0, <1>2, <2>3, <2>5, QuietAhead DEF PC, Attested
    <2>6. QED
      BY <2>2, <2>4, <2>5
  <1>6. CASE Recheck(t)
    <2>1. UNCHANGED <<journal, calls>>
      BY <1>6 DEF Recheck, outside
    <2>2. CASE Goto(t, [f EXCEPT !.rep = live], "begin")
      BY <1>0, <1>2, <1>3, <2>1, <2>2, QuietAhead DEF PC, Attested
    <2>3. CASE Return(t, f, "refused")
      BY <1>0, <2>1, <2>3, QuietAhead DEF Reply
    <2>4. QED
      BY <1>6, <2>2, <2>3 DEF Recheck
  <1>7. CASE BeginExecution(t)
    BY <1>0, <1>7, QuietAhead DEF BeginExecution, PC, Attested, Reply, outside
  <1>8. CASE Attest(t)
    <2>1. UNCHANGED calls
      BY <1>8 DEF Attest, outside
    <2>2. CASE Append_(f.id, "EXECUTING", "external_call") /\ Goto(t, f, "lease")
      BY <1>0, <1>4, <2>1, <2>2, AppendAhead DEF PC, ExecutionState, EventKind
    <2>3. CASE Return(t, f, "error") /\ UNCHANGED journal
      BY <1>0, <2>1, <2>3, QuietAhead DEF Reply
    <2>4. QED
      BY <1>8, <2>2, <2>3 DEF Attest
  <1>9. CASE AcquireLease(t)
    <2>1. UNCHANGED <<journal, calls>> /\ journal[f.id] # <<>>
      BY <1>0, <1>9 DEF AcquireLease, outside, Attested
    <2>2. CASE Goto(t, f, "call")
      BY <1>0, <2>1, <2>2, QuietAhead DEF PC
    <2>3. CASE Goto(t, [f EXCEPT !.out = "FAILED"], "record")
      BY <1>0, <1>1, <2>1, <2>3, QuietAhead DEF PC
    <2>4. QED
      BY <1>9, <2>2, <2>3 DEF AcquireLease
  <1>10. CASE CallExecutor(t)
    <2>1. UNCHANGED journal /\ journal[f.id] # <<>> /\ Goto(t, f, "await")
      BY <1>0, <1>10 DEF CallExecutor, Attested
    <2>2. \A i \in Ids : calls'[i] > 0 => journal'[i] # <<>>
      BY <1>0, <1>10, <2>1 DEF CallExecutor, AheadInv, TypeOK
    <2>3. QED
      BY <1>0, <2>1, <2>2, MoveAhead DEF PC
  <1>11. CASE Respond(t)
    <2>1. UNCHANGED <<journal, calls>> /\ journal[f.id] # <<>>
      BY <1>0, <1>11 DEF Respond, outside, Attested
    <2>2. \E result \in {"EXECUTED", "FAILED"} : Goto(t, [f EXCEPT !.out = result], "record")
      BY <1>11 DEF Respond
    <2>3. QED
      BY <1>0, <1>1, <2>1, <2>2, QuietAhead DEF PC
  <1>12. CASE Record(t)
    <2>1. UNCHANGED calls /\ journal[f.id] # <<>>
      BY <1>0, <1>12 DEF Record, outside, Attested
    <2>2. CASE Append_(f.id, f.out, "external_outcome") /\ Return(t, f, ResultOf(f.out))
      BY <1>0, <1>3, <1>4, <2>1, <2>2, AppendAhead DEF EventKind
    <2>3. CASE Return(t, f, "error") /\ UNCHANGED journal
      BY <1>0, <2>1, <2>3, QuietAhead DEF Reply
    <2>4. QED
      BY <1>12, <2>2, <2>3 DEF Record
  <1>13. CASE ReconcileAttempt(t)
    <2>1. UNCHANGED calls /\ journal[f.id] # <<>>
      BY <1>0, <1>13 DEF ReconcileAttempt, outside, Attested
    <2>2. CASE Append_(f.id, "EXECUTING", "reconciliation_attempt") /\ Goto(t, f, "lookup")
      BY <1>0, <1>4, <2>1, <2>2, AppendAhead DEF PC, ExecutionState, EventKind
    <2>3. CASE Return(t, f, "error") /\ UNCHANGED journal
      BY <1>0, <2>1, <2>3, QuietAhead DEF Reply
    <2>4. QED
      BY <1>13, <2>2, <2>3 DEF ReconcileAttempt
  <1>14. CASE Lookup(t)
    <2>1. UNCHANGED <<journal, calls>> /\ journal[f.id] # <<>>
      BY <1>0, <1>14 DEF Lookup, outside, Attested
    <2>2. CASE \E result \in {"EXECUTED", "FAILED"} : Goto(t, [f EXCEPT !.out = result], "settle")
      BY <1>0, <1>1, <2>1, <2>2, QuietAhead DEF PC
    <2>3. CASE Return(t, f, "lost")
      BY <1>0, <2>1, <2>3, QuietAhead DEF Reply
    <2>4. QED
      BY <1>14, <2>2, <2>3 DEF Lookup
  <1>15. CASE Settle(t)
    <2>1. UNCHANGED calls /\ journal[f.id] # <<>>
      BY <1>0, <1>15 DEF Settle, outside, Attested
    <2>2. CASE Append_(f.id, f.out, "reconciliation") /\ Return(t, f, ResultOf(f.out))
      BY <1>0, <1>3, <1>4, <2>1, <2>2, AppendAhead DEF EventKind
    <2>3. CASE Return(t, f, "error") /\ UNCHANGED journal
      BY <1>0, <2>1, <2>3, QuietAhead DEF Reply
    <2>4. QED
      BY <1>15, <2>2, <2>3 DEF Settle
  <1>16. CASE CompensateExecute(t)
    BY <1>0, <1>16, DispatchAhead DEF CompensateExecute, outside
  <1>17. CASE CompensateDone(t)
    <2>1. UNCHANGED calls /\ f.orig \in Ids /\ pc[t] = "comp_done"
      BY <1>17 DEF CompensateDone, outside, TypeInv, Busy
    <2>2. journal[f.orig] # <<>>
      BY <2>1, <1>0, ConstantsAssumption
    <2>3. /\ \A u \in Threads \ {t} : pc'[u] = pc[u] /\ frame'[u] = frame[u]
          /\ pc'[t] = "idle"
      BY <1>0, <1>17 DEF CompensateDone, TypeOK
    <2>4. \A i \in Ids : journal[i] # <<>> =>
               journal'[i] # <<>> /\ journal'[i][1] = journal[i][1]
      BY <1>0, <1>17, <2>1, AppendGrows DEF CompensateDone
    <2>5. \A i \in Ids : journal[i] = <<>> => journal'[i] = <<>>
      BY <1>0, <1>17, <2>1, <2>2, AppendGrows DEF CompensateDone
    <2>6. \A u \in Threads : frame[u].orig # None => frame[u].orig \in Ids
      BY <1>0 DEF TypeOK, Frame
    <2>7. \A u \in Threads : pc[u] # "idle" => frame[u].id \in Ids
      BY DEF TypeInv, Busy
    <2>8. QED
      BY <2>1, <2>3, <2>4, <2>5, <2>6, <2>7 DEF AheadInv, WrittenAhead, Attested
  <1>18. QED
    BY <1>5, <1>6, <1>7, <1>8, <1>9, <1>10, <1>11, <1>12, <1>13, <1>14, <1>15,
       <1>16, <1>17 DEF Step

\* Starting a call keeps it.
LEMMA StartAhead ==
    ASSUME TypeInv, AheadInv, NEW t \in Threads, Execute(t) \/ Compensate(t)
    PROVE  AheadInv'
  <1>1. CASE Execute(t)
    <2>1. PICK id \in Direct, m \in Modes, a \in Approvals \union {None},
               l \in Leases, r \in LiveStates \union {None} :
              /\ Dispatch(t, NewFrame(id, None, m, a, l, r))
              /\ UNCHANGED <<journal, outside>>
      BY <1>1 DEF Execute
    <2> DEFINE f == NewFrame(id, None, m, a, l, r)
    <2>2. f \in Frame
      BY NewFrameType, ConstantsAssumption
    <2>3. f.id \in Ids /\ f.orig = None
      BY ConstantsAssumption DEF NewFrame
    <2>4. QED
      BY <2>1, <2>2, <2>3, DispatchAhead DEF outside
  <1>2. CASE Compensate(t)
    <2>1. PICK c \in {i \in Ids : Origin[i] # None}, m \in CompensationModes,
               a \in Approvals \union {None}, l \in Leases,
               r \in LiveStates \union {None} :
              /\ StartCompensation(t, CompensationFrame(c, m, a, l, r))
              /\ UNCHANGED outside
      BY <1>2 DEF Compensate
    <2> DEFINE f == CompensationFrame(c, m, a, l, r)
    <2>2. f \in Frame /\ f.id \in Ids /\ f.orig \in Ids
      BY CompensationFrameType
    <2>3. CASE /\ Compensable(f.orig)
               /\ Append_(f.orig, "COMPENSATING", "compensation_started")
               /\ Goto(t, f, "comp_exec")
      <3>1. journal[f.orig] # <<>>
        BY <2>3 DEF Compensable
      <3>2. journal'[f.orig] # <<>>
        BY <2>2, <2>3, AppendGrows DEF TypeInv
      <3>3. QED
        BY <2>1, <2>2, <2>3, <3>1, <3>2, AppendAhead
           DEF PC, Attested, ExecutionState, EventKind, outside
    <2>4. ASSUME NEW rep \in Reply, Return(t, f, rep), UNCHANGED journal,
                 rep \in {"error", "refused"}
          PROVE  AheadInv'
      <3>1. pc'[t] = "idle" /\ \A u \in Threads \ {t} : pc'[u] = pc[u] /\ frame'[u] = frame[u]
        BY <2>4 DEF Return, TypeInv, TypeOK
      <3>2. UNCHANGED <<journal, calls>>
        BY <2>1, <2>4 DEF outside
      <3>3. QED
        BY <3>1, <3>2 DEF AheadInv, Attested, WrittenAhead
    <2>5. QED
      BY <2>1, <2>3, <2>4 DEF StartCompensation, Reply
  <1>3. QED
    BY <1>1, <1>2

\* The environment keeps it: a crash only empties program counters.
LEMMA EnvironmentAhead ==
    ASSUME TypeInv, AheadInv,
           \/ \E id \in Ids : TakeEffect(id)
           \/ \E b \in Boundaries : Crash(b)
           \/ ChangeState \/ Tick \/ StepBack
    PROVE  AheadInv'
  <1>1. CASE \E b \in Boundaries : Crash(b)
    <2>1. UNCHANGED <<journal, calls>>
      BY <1>1 DEF Crash
    <2>2. \A t \in Threads : pc'[t] = "idle" \/ (pc'[t] = pc[t] /\ frame'[t] = frame[t])
      BY <1>1 DEF Crash
    <2>3. QED
      BY <2>1, <2>2 DEF AheadInv, Attested, WrittenAhead
  <1>2. CASE (\E id \in Ids : TakeEffect(id)) \/ ChangeState \/ Tick \/ StepBack
    BY <1>2 DEF AheadInv, WrittenAhead, TakeEffect, ChangeState, Tick, StepBack
  <1>3. QED
    BY <1>1, <1>2

\* The strengthened write-ahead invariant holds in every reachable state.
LEMMA AheadInvariance == Spec => []AheadInv
  <1>1. Init => AheadInv
    BY DEF Init, AheadInv, Attested
  <1>2. TypeInv /\ AheadInv /\ [Next]_vars => AheadInv'
    <2> SUFFICES ASSUME TypeInv, AheadInv, [Next]_vars PROVE AheadInv'
      OBVIOUS
    <2>1. CASE UNCHANGED vars
      BY <2>1 DEF vars, AheadInv, WrittenAhead
    <2>2. CASE Next
      BY <2>2, StartAhead, StepAhead, EnvironmentAhead DEF Next
    <2>3. QED
      BY <2>1, <2>2
  <1>3. QED
    BY TypeInvariance, <1>1, <1>2, PTL DEF Spec

\* On every journal, shared by any number of processes with any clocks and any
\* crashes, no external call is ever made that the journal does not announce.
THEOREM WriteAhead == Spec => []CallIsWrittenAhead
  <1>1. AheadInv => CallIsWrittenAhead
    BY DEF AheadInv, WrittenAhead, CallIsWrittenAhead
  <1>2. QED
    BY AheadInvariance, <1>1, PTL

-----------------------------------------------------------------------------
(* At most one call, for all threads that share one GovernedExecutor.      *)
(*                                                                         *)
(* The lock makes the history check and the pre-call event one step for    *)
(* its users: while a thread prepares a call the log of its identity stays *)
(* empty, and between the pre-call event and the call nobody else calls.   *)
(* With two instances on one journal both facts fail.                      *)

\* Every thread calls the same GovernedExecutor instance.
SharedBoundary == \A t, u \in Threads : BoundaryOf[t] = BoundaryOf[u]

Preparing == {"evaluate", "recheck", "begin", "attest"}
Calling == {"lease", "call"}

OnceInv ==
    /\ \A t \in Threads : pc[t] # "idle" => lock[BoundaryOf[t]] = t
    /\ \A t \in Threads : pc[t] \in Preparing => journal[frame[t].id] = <<>>
    /\ \A t \in Threads : pc[t] \in Calling => calls[frame[t].id] = 0
    /\ \A id \in Ids : calls[id] <= 1

\* A thread that may hold the lock is alone inside the boundary, so its own
\* bookkeeping is all that a step of it has to keep.
LEMMA MoveOnce ==
    ASSUME SharedBoundary, TypeInv, OnceInv, NEW t \in Threads, CanEnter(t),
           NEW g \in Frame,
           \/ \E p \in PC : /\ Goto(t, g, p)
                            /\ p \in Preparing => journal'[g.id] = <<>>
                            /\ p \in Calling => calls'[g.id] = 0
           \/ \E r \in Reply : Return(t, g, r),
           \A id \in Ids : calls'[id] <= 1
    PROVE  OnceInv'
  <1>0. /\ BoundaryOf[t] \in Boundaries /\ lock \in [Boundaries -> Threads \union {None}]
        /\ pc \in [Threads -> PC] /\ frame \in [Threads -> Frame]
    BY ConstantsAssumption DEF TypeInv, TypeOK
  <1>1. \A u \in Threads \ {t} : pc[u] = "idle"
    BY ConstantsAssumption DEF SharedBoundary, OnceInv, CanEnter, TypeInv, TypeOK
  <1>2. /\ \A u \in Threads \ {t} : pc'[u] = "idle"
        /\ pc'[t] # "idle" => lock'[BoundaryOf[t]] = t
        /\ pc'[t] \in Preparing => journal'[frame'[t].id] = <<>>
        /\ pc'[t] \in Calling => calls'[frame'[t].id] = 0
    <2>1. CASE \E p \in PC : /\ Goto(t, g, p)
                             /\ p \in Preparing => journal'[g.id] = <<>>
                             /\ p \in Calling => calls'[g.id] = 0
      <3>1. PICK p \in PC : /\ Goto(t, g, p)
                            /\ p \in Preparing => journal'[g.id] = <<>>
                            /\ p \in Calling => calls'[g.id] = 0
        BY <2>1
      <3>2. pc'[t] = p /\ frame'[t] = g /\ \A u \in Threads \ {t} : pc'[u] = pc[u]
        BY <3>1, <1>0 DEF Goto
      <3>3. lock'[BoundaryOf[t]] = t
        BY <3>1, <1>0 DEF Goto
      <3>4. QED
        BY <1>1, <3>1, <3>2, <3>3
    <2>2. CASE \E r \in Reply : Return(t, g, r)
      <3>1. PICK r \in Reply : Return(t, g, r)
        BY <2>2
      <3>2. /\ pc'[t] \in {"comp_done", "idle"}
            /\ \A u \in Threads \ {t} : pc'[u] = pc[u]
            /\ pc'[t] = "comp_done" => lock'[BoundaryOf[t]] = t
        BY <3>1, <1>0 DEF Return
      <3>3. QED
        BY <1>1, <3>2 DEF Preparing, Calling
    <2>3. QED
      BY <2>1, <2>2
  <1>3. QED
    BY <1>2 DEF OnceInv, Preparing, Calling

\* A step that makes no call.
LEMMA QuietOnce ==
    ASSUME SharedBoundary, TypeInv, OnceInv, NEW t \in Threads, CanEnter(t),
           NEW g \in Frame, UNCHANGED calls,
           \/ \E p \in PC : /\ Goto(t, g, p)
                            /\ p \in Preparing => journal'[g.id] = <<>>
                            /\ p \in Calling => calls[g.id] = 0
           \/ \E r \in Reply : Return(t, g, r)
    PROVE  OnceInv'
  <1>1. \A id \in Ids : calls'[id] <= 1
    BY DEF OnceInv
  <1>2. QED
    BY <1>1, MoveOnce

\* The head of _execute enters the preparation only with an empty log.
LEMMA DispatchOnce ==
    ASSUME SharedBoundary, TypeInv, OnceInv, NEW t \in Threads, CanEnter(t),
           NEW f \in Frame, f.id \in Ids, UNCHANGED <<journal, calls>>, Dispatch(t, f)
    PROVE  OnceInv'
  <1> DEFINE effective == resolve_autonomy_mode(Declared[f.id], f.mode)
             g == [f EXCEPT !.mode = effective]
  <1>1. g \in Frame /\ g.id = f.id
    <2>1. effective \in AutonomyMode
      BY ResolveType, ConstantsAssumption DEF Frame
    <2>2. QED
      BY <2>1 DEF Frame
  <1>2. \/ \E r \in Reply : Return(t, f, r)
        \/ Goto(t, f, "reconcile")
        \/ Goto(t, g, "evaluate") /\ journal[f.id] = <<>>
    BY DEF Dispatch, _resolve_prior, Reply
  <1>3. CASE \E r \in Reply : Return(t, f, r)
    BY <1>3, QuietOnce
  <1>4. CASE Goto(t, f, "reconcile")
    BY <1>4, QuietOnce DEF PC, Preparing, Calling
  <1>5. CASE Goto(t, g, "evaluate") /\ journal[f.id] = <<>>
    BY <1>1, <1>5, QuietOnce DEF PC, Preparing, Calling
  <1>6. QED
    BY <1>2, <1>3, <1>4, <1>5

\* Every step of a thread keeps the at-most-once invariant.
LEMMA StepOnce ==
    ASSUME SharedBoundary, TypeInv, AheadInv, OnceInv, NEW t \in Threads, Step(t)
    PROVE  OnceInv'
  <1> DEFINE f == frame[t]
  <1>0. /\ f \in Frame /\ TypeOK /\ pc[t] # "idle" /\ f.id \in Ids /\ CanEnter(t)
        /\ pc[t] \in Preparing => journal[f.id] = <<>> /\ calls[f.id] = 0
        /\ pc[t] \in Calling => calls[f.id] = 0
    <2>1. TypeOK /\ f \in Frame /\ pc[t] # "idle"
      BY DEF TypeInv, TypeOK, Step, Evaluate, Recheck, BeginExecution, Attest,
             AcquireLease, CallExecutor, Respond, Record, ReconcileAttempt,
             Lookup, Settle, CompensateExecute, CompensateDone
    <2>2. f.id \in Ids /\ CanEnter(t)
      BY <2>1 DEF TypeInv, Busy, OnceInv, CanEnter
    <2>3. calls[f.id] \in Nat
      BY <2>1, <2>2 DEF TypeOK
    <2>4. QED
      BY <2>1, <2>2, <2>3 DEF OnceInv, AheadInv
  <1>1. \A result \in {"EXECUTED", "FAILED"} :
            [f EXCEPT !.out = result] \in Frame /\ [f EXCEPT !.out = result].id = f.id
    BY <1>0 DEF Frame
  <1>2. \A l \in LiveStates :
            [f EXCEPT !.rep = l] \in Frame /\ [f EXCEPT !.rep = l].id = f.id
    BY <1>0 DEF Frame
  <1>3. live \in LiveStates /\ ResultOf(f.out) \in Reply
            /\ (f.rep # None => f.rep \in LiveStates)
    BY <1>0 DEF TypeOK, Frame, ResultOf, Reply
  <1>4. ASSUME UNCHANGED calls, NEW r \in Reply, Return(t, f, r)
        PROVE  OnceInv'
    BY <1>0, <1>4, QuietOnce
  <1>5. ASSUME UNCHANGED calls, NEW p \in PC \ (Preparing \union Calling),
               NEW g \in Frame, Goto(t, g, p)
        PROVE  OnceInv'
    BY <1>0, <1>5, QuietOnce
  <1>6. CASE Evaluate(t)
    <2>1. UNCHANGED <<journal, calls>> /\ journal[f.id] = <<>>
      BY <1>0, <1>6 DEF Evaluate, outside, Preparing
    <2>2. \/ Goto(t, f, "begin")
          \/ \E l \in LiveStates : Goto(t, [f EXCEPT !.rep = l], "recheck")
          \/ Return(t, f, "refused")
      BY <1>3, <1>6 DEF Evaluate
    <2>3. CASE Goto(t, f, "begin")
      BY <1>0, <2>1, <2>3, QuietOnce DEF PC, Preparing, Calling
    <2>4. ASSUME NEW l \in LiveStates, Goto(t, [f EXCEPT !.rep = l], "recheck")
          PROVE  OnceInv'
      BY <1>0, <1>2, <2>1, <2>4, QuietOnce DEF PC, Preparing, Calling
    <2>5. QED
      BY <1>4, <2>1, <2>2, <2>3, <2>4 DEF Reply
  <1>7. CASE Recheck(t)
    <2>1. UNCHANGED <<journal, calls>> /\ journal[f.id] = <<>>
      BY <1>0, <1>7 DEF Recheck, outside, Preparing
    <2>2. CASE Goto(t, [f EXCEPT !.rep = live], "begin")
      BY <1>0, <1>2, <1>3, <2>1, <2>2, QuietOnce DEF PC, Preparing, Calling
    <2>3. QED
      BY <1>4, <1>7, <2>1, <2>2 DEF Recheck, Reply
  <1>8. CASE BeginExecution(t)
    <2>1. UNCHANGED <<journal, calls>> /\ journal[f.id] = <<>>
      BY <1>0, <1>8 DEF BeginExecution, outside, Preparing
    <2>2. CASE Goto(t, f, "attest")
      BY <1>0, <2>1, <2>2, QuietOnce DEF PC, Preparing, Calling
    <2>3. QED
      BY <1>4, <1>8, <2>1, <2>2 DEF BeginExecution, Reply
  <1>9. CASE Attest(t)
    <2>1. UNCHANGED calls /\ calls[f.id] = 0
      BY <1>0, <1>9 DEF Attest, outside, Preparing
    <2>2. CASE Goto(t, f, "lease")
      BY <1>0, <2>1, <2>2, QuietOnce DEF PC, Preparing, Calling
    <2>3. QED
      BY <1>4, <1>9, <2>1, <2>2 DEF Attest, Reply
  <1>10. CASE AcquireLease(t)
    <2>1. UNCHANGED calls /\ calls[f.id] = 0
      BY <1>0, <1>10 DEF AcquireLease, outside, Calling
    <2>2. CASE Goto(t, f, "call")
      BY <1>0, <2>1, <2>2, QuietOnce DEF PC, Preparing, Calling
    <2>3. QED
      BY <1>1, <1>5, <1>10, <2>1, <2>2 DEF AcquireLease, PC, Preparing, Calling
  <1>11. CASE CallExecutor(t)
    <2>1. Goto(t, f, "await") /\ calls[f.id] = 0
      BY <1>0, <1>11 DEF CallExecutor, Calling
    <2>2. \A id \in Ids : calls'[id] <= 1
      BY <1>0, <1>11, <2>1 DEF CallExecutor, OnceInv, TypeOK
    <2>3. QED
      BY <1>0, <2>1, <2>2, MoveOnce DEF PC, Preparing, Calling
  <1>12. CASE Respond(t)
    BY <1>1, <1>5, <1>12 DEF Respond, outside, PC, Preparing, Calling
  <1>13. CASE Record(t)
    BY <1>3, <1>4, <1>13 DEF Record, outside, Reply
  <1>14. CASE ReconcileAttempt(t)
    BY <1>0, <1>4, <1>5, <1>14 DEF ReconcileAttempt, outside, PC, Preparing, Calling, Reply
  <1>15. CASE Lookup(t)
    BY <1>1, <1>4, <1>5, <1>15 DEF Lookup, outside, PC, Preparing, Calling, Reply
  <1>16. CASE Settle(t)
    BY <1>3, <1>4, <1>16 DEF Settle, outside, Reply
  <1>17. CASE CompensateExecute(t)
    BY <1>0, <1>17, DispatchOnce DEF CompensateExecute, outside
  <1>18. CASE CompensateDone(t)
    <2>1. /\ pc'[t] = "idle" /\ UNCHANGED calls
          /\ \A u \in Threads \ {t} : pc'[u] = pc[u]
      BY <1>0, <1>18 DEF CompensateDone, outside, TypeOK
    <2>2. \A u \in Threads \ {t} : pc[u] = "idle"
      BY <1>0, ConstantsAssumption DEF SharedBoundary, OnceInv, CanEnter, TypeOK
    <2>3. QED
      BY <2>1, <2>2 DEF OnceInv, Preparing, Calling
  <1>19. QED
    BY <1>6, <1>7, <1>8, <1>9, <1>10, <1>11, <1>12, <1>13, <1>14, <1>15, <1>16,
       <1>17, <1>18 DEF Step

\* Starting a call keeps it.
LEMMA StartOnce ==
    ASSUME SharedBoundary, TypeInv, OnceInv, NEW t \in Threads,
           Execute(t) \/ Compensate(t)
    PROVE  OnceInv'
  <1>1. CASE Execute(t)
    <2>1. PICK id \in Direct, m \in Modes, a \in Approvals \union {None},
               l \in Leases, r \in LiveStates \union {None} :
              /\ CanEnter(t)
              /\ Dispatch(t, NewFrame(id, None, m, a, l, r))
              /\ UNCHANGED <<journal, outside>>
      BY <1>1 DEF Execute
    <2>2. NewFrame(id, None, m, a, l, r) \in Frame
      BY NewFrameType, ConstantsAssumption
    <2>3. NewFrame(id, None, m, a, l, r).id \in Ids
      BY ConstantsAssumption DEF NewFrame
    <2>4. QED
      BY <2>1, <2>2, <2>3, DispatchOnce DEF outside
  <1>2. CASE Compensate(t)
    <2>1. PICK c \in {i \in Ids : Origin[i] # None}, m \in CompensationModes,
               a \in Approvals \union {None}, l \in Leases,
               r \in LiveStates \union {None} :
              /\ CanEnter(t)
              /\ StartCompensation(t, CompensationFrame(c, m, a, l, r))
              /\ UNCHANGED outside
      BY <1>2 DEF Compensate
    <2> DEFINE f == CompensationFrame(c, m, a, l, r)
    <2>2. f \in Frame
      BY CompensationFrameType
    <2>3. Goto(t, f, "comp_exec") \/ \E rep \in Reply : Return(t, f, rep)
      BY <2>1 DEF StartCompensation, Reply
    <2>4. QED
      BY <2>1, <2>2, <2>3, QuietOnce DEF outside, PC, Preparing, Calling
  <1>3. QED
    BY <1>1, <1>2

\* The environment keeps it: a crash frees the lock of the threads it stops.
LEMMA EnvironmentOnce ==
    ASSUME TypeInv, OnceInv,
           \/ \E id \in Ids : TakeEffect(id)
           \/ \E b \in Boundaries : Crash(b)
           \/ ChangeState \/ Tick \/ StepBack
    PROVE  OnceInv'
  <1>1. ASSUME NEW b \in Boundaries, Crash(b)
        PROVE  OnceInv'
    <2>1. UNCHANGED <<journal, calls>>
      BY <1>1 DEF Crash
    <2>2. \A t \in Threads : \/ pc'[t] = "idle"
                             \/ /\ pc'[t] = pc[t] /\ frame'[t] = frame[t]
                                /\ lock'[BoundaryOf[t]] = lock[BoundaryOf[t]]
      BY <1>1, ConstantsAssumption DEF Crash, TypeInv, TypeOK
    <2>3. QED
      BY <2>1, <2>2 DEF OnceInv, Preparing, Calling
  <1>2. CASE (\E id \in Ids : TakeEffect(id)) \/ ChangeState \/ Tick \/ StepBack
    BY <1>2 DEF OnceInv, TakeEffect, ChangeState, Tick, StepBack
  <1>3. QED
    BY <1>1, <1>2

\* The strengthened at-most-once invariant holds in every reachable state.
LEMMA OnceInvariance == SharedBoundary => (Spec => []OnceInv)
  <1> SUFFICES ASSUME SharedBoundary PROVE Spec => []OnceInv
    OBVIOUS
  <1>1. Init => OnceInv
    BY DEF Init, OnceInv, Preparing, Calling
  <1>2. TypeInv /\ AheadInv /\ OnceInv /\ [Next]_vars => OnceInv'
    <2> SUFFICES ASSUME TypeInv, AheadInv, OnceInv, [Next]_vars PROVE OnceInv'
      OBVIOUS
    <2>1. CASE UNCHANGED vars
      BY <2>1 DEF vars, OnceInv
    <2>2. CASE Next
      BY <2>2, StartOnce, StepOnce, EnvironmentOnce DEF Next
    <2>3. QED
      BY <2>1, <2>2
  <1>3. QED
    BY TypeInvariance, AheadInvariance, <1>1, <1>2, PTL DEF Spec

\* "Execute one exact request at most once": all threads of all lifetimes of a
\* process that share one GovernedExecutor call each identity at most once,
\* through any crashes, clock steps and lost responses.
THEOREM AtMostOnce == SharedBoundary => (Spec => []AtMostOnceCall)
  <1> SUFFICES ASSUME SharedBoundary PROVE Spec => []AtMostOnceCall
    OBVIOUS
  <1>1. OnceInv => AtMostOnceCall
    BY DEF OnceInv, AtMostOnceCall
  <1>2. QED
    BY OnceInvariance, <1>1, PTL

(***************************************************************************)
(* The journals, the effects and the replies.                              *)
(***************************************************************************)
-----------------------------------------------------------------------------
(* The logs. *)

\* An event appended to one log adds its state to what that log records, is
\* the last of it, and leaves the other logs and the earlier events alone.
LEMMA AppendRecords ==
    ASSUME TypeOK, NEW id \in Ids, NEW s \in ExecutionState, NEW k \in EventKind,
           Append_(id, s, k)
    PROVE  /\ \A i \in Ids : i # id => journal'[i] = journal[i]
           /\ Len(journal'[id]) = Len(journal[id]) + 1
           /\ \A j \in DOMAIN journal[id] : journal'[id][j] = journal[id][j]
           /\ journal'[id][Len(journal'[id])] = Event(s, k, now)
           /\ DOMAIN journal'[id] = DOMAIN journal[id] \union {Len(journal'[id])}
           /\ DOMAIN journal[id] = 1..Len(journal[id]) /\ Len(journal[id]) \in Nat
           /\ journal'[id] = Append(journal[id], Event(s, k, now))
  <1>1. journal[id] \in Seq(CapabilityStateEvent)
    BY DEF TypeOK
  <1>2. journal'[id] = Append(journal[id], Event(s, k, now))
    BY DEF Append_, TypeOK
  <1>3. \A i \in Ids : i # id => journal'[i] = journal[i]
    BY DEF Append_, TypeOK
  <1>4. QED
    BY <1>1, <1>2, <1>3

\* The recorded states after an append.
LEMMA AppendStates ==
    ASSUME TypeOK, NEW id \in Ids, NEW s \in ExecutionState, NEW k \in EventKind,
           Append_(id, s, k)
    PROVE  /\ \A i \in Ids, r \in ExecutionState :
                 Recorded(i, r)' <=> Recorded(i, r) \/ (i = id /\ r = s)
           /\ LastState(journal[id])' = s
           /\ \A i \in Ids : i # id => LastState(journal[i])' = LastState(journal[i])
  <1>1. Event(s, k, now).state = s
    BY DEF Event
  <1>2. \A r \in ExecutionState : Recorded(id, r)' <=> Recorded(id, r) \/ r = s
    BY <1>1, AppendRecords DEF Recorded
  <1>3. \A i \in Ids, r \in ExecutionState : i # id => (Recorded(i, r)' <=> Recorded(i, r))
    BY AppendRecords DEF Recorded
  <1>4. LastState(journal[id])' = s
    BY <1>1, AppendRecords DEF LastState
  <1>5. \A i \in Ids : i # id => LastState(journal[i])' = LastState(journal[i])
    BY AppendRecords DEF LastState
  <1>6. QED
    BY <1>2, <1>3, <1>4, <1>5

\* Every row of a log is stamped with a time.
LEMMA Stamps ==
    ASSUME NEW log \in Seq(CapabilityStateEvent)
    PROVE  /\ DOMAIN log = 1..Len(log) /\ Len(log) \in Nat
           /\ \A i \in DOMAIN log : log[i].at \in Nat
  <1>1. DOMAIN log = 1..Len(log) /\ Len(log) \in Nat
    OBVIOUS
  <1>2. \A i \in DOMAIN log : log[i] \in CapabilityStateEvent
    OBVIOUS
  <1>3. QED
    BY <1>1, <1>2 DEF CapabilityStateEvent

\* The row that ORDER BY occurred_at DESC, rowid DESC puts first.
IsLatest(log, i) ==
    /\ i \in DOMAIN log
    /\ \A j \in DOMAIN log : \/ log[j].at < log[i].at
                             \/ log[j].at = log[i].at /\ j <= i

HasLatest == \A id \in Ids : journal[id] # <<>> => \E i \in Nat : IsLatest(journal[id], i)

\* Every log that has rows has a latest one, whatever the clock did.
LEMMA AppendLatest ==
    ASSUME TypeOK, HasLatest, NEW id \in Ids, NEW s \in ExecutionState,
           NEW k \in EventKind, Append_(id, s, k)
    PROVE  HasLatest'
  <1> DEFINE n == Len(journal'[id])
  <1>0. /\ now \in Nat /\ journal[id] \in Seq(CapabilityStateEvent)
        /\ \A j \in DOMAIN journal[id] : journal[id][j].at \in Nat
    BY Stamps DEF TypeOK
  <1>a. Event(s, k, now).at = now
    BY DEF Event
  <1>b. /\ journal'[id][n] = Event(s, k, now)
        /\ DOMAIN journal'[id] = DOMAIN journal[id] \union {n}
        /\ \A j \in DOMAIN journal[id] : journal'[id][j] = journal[id][j]
        /\ DOMAIN journal[id] = 1..Len(journal[id])
        /\ n = Len(journal[id]) + 1 /\ Len(journal[id]) \in Nat
        /\ \A i \in Ids : i # id => journal'[i] = journal[i]
    BY AppendRecords
  <1>1. journal'[id][n].at = now
    BY <1>a, <1>b
  <1> HIDE DEF n
  <1>2. \E i \in Nat : IsLatest(journal'[id], i)
    <2>1. CASE journal[id] = <<>>
      BY <1>0, <1>1, <1>b, <2>1 DEF IsLatest
    <2>2. ASSUME NEW i \in Nat, IsLatest(journal[id], i)
          PROVE  \E j \in Nat : IsLatest(journal'[id], j)
      <3>1. CASE journal[id][i].at <= now
        <4>1. IsLatest(journal'[id], n)
          BY <1>0, <1>1, <1>b, <2>2, <3>1 DEF IsLatest
        <4>2. QED
          BY <4>1, <1>b
      <3>2. CASE now < journal[id][i].at
        <4>1. IsLatest(journal'[id], i)
          BY <1>0, <1>1, <1>b, <2>2, <3>2 DEF IsLatest
        <4>2. QED
          BY <4>1
      <3>3. QED
        BY <1>0, <2>2, <3>1, <3>2 DEF IsLatest
    <2>3. QED
      BY <2>1, <2>2 DEF HasLatest
  <1>3. QED
    BY <1>2, <1>b DEF HasLatest

\* latest_state answers a state that the log records.
LEMMA LatestIsRecorded ==
    ASSUME TypeOK, HasLatest, NEW id \in Ids, journal[id] # <<>>
    PROVE  Recorded(id, latest_state(journal[id]))
  <1>1. PICK i \in Nat : IsLatest(journal[id], i)
    BY DEF HasLatest
  <1>2. LatestIndex(journal[id]) \in DOMAIN journal[id]
    BY <1>1 DEF IsLatest, LatestIndex
  <1>3. QED
    BY <1>2 DEF Recorded, latest_state

\* The stamps of a log do not decrease, and none is ahead of the clock.
Ordered(log) ==
    \A i \in DOMAIN log : log[i].at <= now /\ log[i].at <= log[Len(log)].at

\* Where the stamps follow the insertion order, the latest row is the last one.
LEMMA LatestIsLast ==
    ASSUME NEW log \in Seq(CapabilityStateEvent), log # <<>>, Ordered(log)
    PROVE  latest_state(log) = LastState(log)
  <1>1. /\ DOMAIN log = 1..Len(log) /\ Len(log) \in Nat /\ Len(log) \in DOMAIN log
        /\ \A i \in DOMAIN log : log[i].at \in Nat
    BY Stamps
  <1>2. IsLatest(log, Len(log))
    BY <1>1 DEF IsLatest, Ordered
  <1>3. ASSUME NEW i \in DOMAIN log, IsLatest(log, i)
        PROVE  i = Len(log)
    <2>1. log[i].at \in Nat /\ log[Len(log)].at \in Nat
      BY <1>1
    <2>2. Len(log) <= i /\ i <= Len(log)
      BY <1>1, <1>2, <1>3, <2>1 DEF IsLatest
    <2>3. QED
      BY <1>1, <2>2
  <1>4. LatestIndex(log) = CHOOSE i \in DOMAIN log : IsLatest(log, i)
    BY DEF LatestIndex, IsLatest
  <1>5. LatestIndex(log) = Len(log)
    BY <1>1, <1>2, <1>3, <1>4
  <1>6. QED
    BY <1>5 DEF latest_state, LastState
-----------------------------------------------------------------------------
(* What a step of a thread does.  f is what the thread works on: its frame, *)
(* or the frame of the call it starts.                                      *)

Silent == UNCHANGED <<journal, calls, effects, now>>

Moves(t, f) ==
    /\ \A u \in Threads \ {t} : pc'[u] = pc[u] /\ frame'[u] = frame[u]
    /\ frame'[t].id = f.id /\ frame'[t].orig = f.orig /\ frame'[t].appr = f.appr

\* Where a successful or proposed answer leaves the thread.
After(f) == IF f.orig # None THEN "comp_done" ELSE "idle"

\* A precondition or approval check that passed.
Prepares(t) ==
    /\ Moves(t, frame[t]) /\ Silent
    /\ pc[t] \in Preparing /\ pc'[t] \in {"recheck", "begin", "attest"}
    /\ frame'[t].mode = frame[t].mode /\ frame'[t].reply = frame[t].reply
    /\ pc'[t] # "attest" /\ frame[t].id \in Preconditioned
           => frame'[t].rep \in AllowStates
    /\ pc'[t] = "attest"
           => /\ pc[t] = "begin" /\ frame'[t] = frame[t]
              /\ frame[t].mode = "SUPERVISED" => Approved(frame[t])

\* A call that ends without an outcome of its own.
GivesUp(t, f) ==
    /\ Moves(t, f) /\ Silent
    /\ pc'[t] = "idle" /\ frame'[t].mode = f.mode
    /\ frame'[t].reply \in {"refused", "error", "lost", "duplicate"}
    /\ frame'[t].reply = "refused"
           => f.orig # None \/ journal[f.id] = <<>> \/ (pc[t] \in Preparing /\ f = frame[t])

\* The write-ahead event.
Attests(t) ==
    /\ Moves(t, frame[t]) /\ UNCHANGED <<calls, effects, now>>
    /\ pc[t] = "attest" /\ pc'[t] = "lease" /\ frame'[t] = frame[t]
    /\ Append_(frame[t].id, "EXECUTING", "external_call")

\* A step on the way to an outcome that leaves the journal alone.
Progresses(t) ==
    /\ Moves(t, frame[t]) /\ Silent
    /\ <<pc[t], pc'[t]>> \in {<<"lease", "call">>, <<"lease", "record">>,
                              <<"await", "record">>, <<"lookup", "settle">>}
    /\ frame'[t].mode = frame[t].mode /\ frame'[t].reply = frame[t].reply
    /\ frame'[t].rep = frame[t].rep
    /\ pc'[t] \in {"record", "settle"} /\ frame'[t].out = "EXECUTED"
           => effects[frame[t].id] > 0

\* The external call.
Invokes(t) ==
    /\ Moves(t, frame[t]) /\ UNCHANGED <<journal, effects, now>>
    /\ pc[t] = "call" /\ pc'[t] = "await" /\ frame'[t] = frame[t]
    /\ calls' = [calls EXCEPT ![frame[t].id] = @ + 1]

\* An outcome, journalled and reported.
Settles(t) ==
    /\ Moves(t, frame[t]) /\ UNCHANGED <<calls, effects, now>>
    /\ pc[t] \in {"record", "settle"}
    /\ pc'[t] = IF frame[t].out = "EXECUTED" THEN After(frame[t]) ELSE "idle"
    /\ frame'[t].mode = frame[t].mode /\ frame'[t].reply = ResultOf(frame[t].out)
    /\ \E k \in {"external_outcome", "reconciliation"} :
           Append_(frame[t].id, frame[t].out, k)

\* A reconciliation attempt.
Retries(t) ==
    /\ Moves(t, frame[t]) /\ UNCHANGED <<calls, effects, now>>
    /\ pc[t] = "reconcile" /\ pc'[t] = "lookup" /\ frame'[t] = frame[t]
    /\ Append_(frame[t].id, "EXECUTING", "reconciliation_attempt")

\* The head of _execute: the journal already has the success...
Knows(t, f) ==
    /\ Moves(t, f) /\ Silent
    /\ journal[f.id] # <<>> /\ latest_state(journal[f.id]) = "EXECUTED"
    /\ pc'[t] = After(f) /\ frame'[t].mode = f.mode /\ frame'[t].reply = "succeeded"

\* ...or an outcome to find out...
Reconciles(t, f) ==
    /\ Moves(t, f) /\ Silent
    /\ journal[f.id] # <<>> /\ latest_state(journal[f.id]) = "EXECUTING"
    /\ MayReconcile(f.id)
    /\ pc'[t] = "reconcile" /\ frame'[t] = f

\* ...or nothing, and the call is only proposed...
Proposes(t, f) ==
    /\ Moves(t, f) /\ Silent
    /\ journal[f.id] = <<>>
    /\ resolve_autonomy_mode(Declared[f.id], f.mode) = "SHADOW"
    /\ pc'[t] = After(f) /\ frame'[t].mode = f.mode /\ frame'[t].reply = "proposed"

\* ...or admitted.
Admits(t, f) ==
    /\ Moves(t, f) /\ Silent
    /\ journal[f.id] = <<>> /\ pc'[t] = "evaluate" /\ frame'[t].reply = f.reply
    /\ frame'[t].mode = resolve_autonomy_mode(Declared[f.id], f.mode)
    /\ frame'[t].mode # "SHADOW"

Dispatches(t, f) ==
    GivesUp(t, f) \/ Knows(t, f) \/ Reconciles(t, f) \/ Proposes(t, f) \/ Admits(t, f)

\* The start of a compensation.
Begins(t, f) ==
    /\ Moves(t, f) /\ UNCHANGED <<calls, effects, now>>
    /\ pc[t] = "idle" /\ pc'[t] = "comp_exec" /\ frame'[t] = f
    /\ f.orig # None /\ Compensable(f.orig)
    /\ Append_(f.orig, "COMPENSATING", "compensation_started")

\* The end of a compensation.
Finishes(t) ==
    /\ Moves(t, frame[t]) /\ UNCHANGED <<calls, effects, now>>
    /\ pc[t] = "comp_done" /\ pc'[t] = "idle" /\ frame'[t] = frame[t]
    /\ Append_(frame[t].orig, "COMPENSATED", "compensation_completed")

Working(t) ==
    \/ Prepares(t) \/ GivesUp(t, frame[t]) \/ Attests(t) \/ Progresses(t)
    \/ Invokes(t) \/ Settles(t) \/ Retries(t) \/ Finishes(t)
    \/ pc[t] = "comp_exec" /\ Dispatches(t, frame[t])

\* A call of execute and a call of compensate, as they start.
FreshCall(f) == f.orig = None /\ f.id \in Direct /\ f.mode \in Modes
FreshCompensation(f) ==
    /\ f.orig # None /\ f.orig = Origin[f.id]
    /\ f.mode \in CompensationModes \/ f.mode = Declared[f.id]

Starting(t, f) ==
    /\ pc[t] = "idle" /\ CanEnter(t) /\ f.reply = "none" /\ f.id \in Ids
    /\ \/ FreshCall(f) /\ Dispatches(t, f)
       \/ FreshCompensation(f) /\ (Begins(t, f) \/ GivesUp(t, f))

\* Jumping changes the thread that jumps, and nothing else of the control.
LEMMA GotoMoves ==
    ASSUME TypeInv, NEW t \in Threads, NEW f \in Frame, NEW g \in Frame,
           NEW p \in PC, Goto(t, g, p),
           g.id = f.id, g.orig = f.orig, g.appr = f.appr
    PROVE  Moves(t, f) /\ pc'[t] = p /\ frame'[t] = g
  BY DEF Goto, Moves, TypeInv, TypeOK

\* So does returning.
LEMMA ReturnMoves ==
    ASSUME TypeInv, NEW t \in Threads, NEW f \in Frame, NEW r \in Reply, Return(t, f, r)
    PROVE  /\ Moves(t, f) /\ frame'[t].mode = f.mode /\ frame'[t].reply = r
           /\ pc'[t] = IF r \in {"succeeded", "proposed"} THEN After(f) ELSE "idle"
  <1>1. /\ [f EXCEPT !.reply = r].id = f.id /\ [f EXCEPT !.reply = r].orig = f.orig
        /\ [f EXCEPT !.reply = r].appr = f.appr /\ [f EXCEPT !.reply = r].mode = f.mode
        /\ [f EXCEPT !.reply = r].reply = r
    BY DEF Frame
  <1>2. frame'[t] = [f EXCEPT !.reply = r] /\ \A u \in Threads \ {t} : frame'[u] = frame[u]
    BY DEF Return, TypeInv, TypeOK
  <1>3. /\ pc'[t] = IF f.orig # None /\ r \in {"succeeded", "proposed"}
                    THEN "comp_done" ELSE "idle"
        /\ \A u \in Threads \ {t} : pc'[u] = pc[u]
    BY DEF Return, TypeInv, TypeOK
  <1>4. QED
    BY <1>1, <1>2, <1>3 DEF Moves, After

\* The head of _execute.
LEMMA DispatchKinds ==
    ASSUME TypeInv, NEW t \in Threads, NEW f \in Frame, f.id \in Ids,
           UNCHANGED <<journal, outside>>, Dispatch(t, f)
    PROVE  Dispatches(t, f)
  <1> DEFINE effective == resolve_autonomy_mode(Declared[f.id], f.mode)
             g == [f EXCEPT !.mode = effective]
  <1>0. Silent
    BY DEF Silent, outside
  <1>1. /\ g \in Frame /\ g.id = f.id /\ g.orig = f.orig /\ g.appr = f.appr
        /\ g.reply = f.reply /\ g.mode = effective
    <2>1. effective \in AutonomyMode
      BY ResolveType, ConstantsAssumption DEF Frame
    <2>2. QED
      BY <2>1 DEF Frame
  <1>2. \/ \E r \in {"lost", "duplicate"} : Return(t, f, r)
        \/ journal[f.id] = <<>> /\ Return(t, f, "refused")
        \/ /\ journal[f.id] # <<>> /\ latest_state(journal[f.id]) = "EXECUTED"
           /\ Return(t, f, "succeeded")
        \/ /\ journal[f.id] # <<>> /\ latest_state(journal[f.id]) = "EXECUTING"
           /\ MayReconcile(f.id) /\ Goto(t, f, "reconcile")
        \/ journal[f.id] = <<>> /\ effective = "SHADOW" /\ Return(t, f, "proposed")
        \/ journal[f.id] = <<>> /\ effective # "SHADOW" /\ Goto(t, g, "evaluate")
    BY DEF Dispatch, _resolve_prior
  <1> HIDE DEF g
  <1>3. ASSUME NEW r \in {"lost", "duplicate"}, Return(t, f, r)
        PROVE  GivesUp(t, f)
    BY <1>0, <1>3, ReturnMoves DEF GivesUp, Reply
  <1>4. CASE journal[f.id] = <<>> /\ Return(t, f, "refused")
    BY <1>0, <1>4, ReturnMoves DEF Dispatches, GivesUp, Reply
  <1>5. CASE /\ journal[f.id] # <<>> /\ latest_state(journal[f.id]) = "EXECUTED"
             /\ Return(t, f, "succeeded")
    BY <1>0, <1>5, ReturnMoves DEF Dispatches, Knows, Reply
  <1>6. CASE /\ journal[f.id] # <<>> /\ latest_state(journal[f.id]) = "EXECUTING"
             /\ MayReconcile(f.id) /\ Goto(t, f, "reconcile")
    BY <1>0, <1>6, GotoMoves DEF Dispatches, Reconciles, PC
  <1>7. CASE journal[f.id] = <<>> /\ effective = "SHADOW" /\ Return(t, f, "proposed")
    BY <1>0, <1>7, ReturnMoves DEF Dispatches, Proposes, Reply
  <1>8. CASE journal[f.id] = <<>> /\ effective # "SHADOW" /\ Goto(t, g, "evaluate")
    BY <1>0, <1>1, <1>8, GotoMoves DEF Dispatches, Admits, PC
  <1>9. QED
    BY <1>2, <1>3, <1>4, <1>5, <1>6, <1>7, <1>8 DEF Dispatches

\* Every step of a thread is of one of these kinds.
LEMMA StepKinds ==
    ASSUME TypeInv, NEW t \in Threads, Step(t)
    PROVE  Working(t)
  <1> DEFINE f == frame[t]
  <1>0. /\ f \in Frame /\ pc[t] # "idle" /\ f.id \in Ids
        /\ live \in LiveStates /\ f.out \in {"EXECUTED", "FAILED"}
        /\ ResultOf(f.out) \in Reply
    <2>1. f \in Frame /\ pc[t] # "idle" /\ live \in LiveStates
      BY DEF TypeInv, TypeOK, Step, Evaluate, Recheck, BeginExecution, Attest,
             AcquireLease, CallExecutor, Respond, Record, ReconcileAttempt,
             Lookup, Settle, CompensateExecute, CompensateDone
    <2>2. f.out \in {"EXECUTED", "FAILED"}
      BY <2>1 DEF Frame
    <2>3. QED
      BY <2>1, <2>2 DEF TypeInv, Busy, ResultOf, Reply
  <1>1. \A result \in {"EXECUTED", "FAILED"} :
            LET g == [f EXCEPT !.out = result]
            IN  /\ g \in Frame /\ g.id = f.id /\ g.orig = f.orig /\ g.appr = f.appr
                /\ g.mode = f.mode /\ g.reply = f.reply /\ g.rep = f.rep /\ g.out = result
    BY <1>0 DEF Frame
  <1>2. \A l \in LiveStates :
            LET g == [f EXCEPT !.rep = l]
            IN  /\ g \in Frame /\ g.id = f.id /\ g.orig = f.orig /\ g.appr = f.appr
                /\ g.mode = f.mode /\ g.reply = f.reply /\ g.rep = l
    BY <1>0 DEF Frame
  <1>a. ASSUME NEW result \in {"EXECUTED", "FAILED"}, NEW p \in PC,
               Goto(t, [f EXCEPT !.out = result], p)
        PROVE  Moves(t, f) /\ pc'[t] = p /\ frame'[t] = [f EXCEPT !.out = result]
    <2> DEFINE g == [f EXCEPT !.out = result]
    <2>1. g \in Frame /\ g.id = f.id /\ g.orig = f.orig /\ g.appr = f.appr
      BY <1>1
    <2>2. Goto(t, g, p)
      BY <1>a
    <2> HIDE DEF g
    <2>3. Moves(t, f) /\ pc'[t] = p /\ frame'[t] = g
      BY <1>0, <2>1, <2>2, GotoMoves
    <2>4. QED
      BY <2>3 DEF g
  <1>3. ASSUME UNCHANGED <<journal, outside>>,
               NEW r \in {"refused", "error", "lost", "duplicate"}, Return(t, f, r),
               r = "refused" => pc[t] \in Preparing
        PROVE  GivesUp(t, f)
    BY <1>0, <1>3, ReturnMoves DEF GivesUp, Silent, outside, Reply
  <1>4. UNCHANGED <<journal, outside>> => Silent
    BY DEF Silent, outside
  <1>5. CASE Evaluate(t)
    <2>1. f.rep # None => f.rep \in LiveStates
      BY <1>0 DEF Frame
    <2>2. pc[t] = "evaluate" /\ Silent /\ UNCHANGED <<journal, outside>>
      BY <1>4, <1>5 DEF Evaluate
    <2>3. \/ f.id \notin Preconditioned /\ Goto(t, f, "begin")
          \/ \E l \in AllowStates : Goto(t, [f EXCEPT !.rep = l], "recheck")
          \/ Return(t, f, "refused")
      BY <1>5 DEF Evaluate
    <2>4. CASE f.id \notin Preconditioned /\ Goto(t, f, "begin")
      BY <1>0, <2>2, <2>4, GotoMoves DEF Working, Prepares, Preparing, PC
    <2>5. ASSUME NEW l \in AllowStates, Goto(t, [f EXCEPT !.rep = l], "recheck")
          PROVE  Prepares(t)
      <3>1. l \in LiveStates
        BY ConstantsAssumption
      <3>2. Moves(t, f) /\ pc'[t] = "recheck" /\ frame'[t] = [f EXCEPT !.rep = l]
        BY <1>0, <1>2, <2>5, <3>1, GotoMoves DEF PC
      <3>3. QED
        BY <1>2, <2>2, <3>1, <3>2 DEF Prepares, Preparing
    <2>6. CASE Return(t, f, "refused")
      BY <1>3, <2>2, <2>6 DEF Working, Preparing
    <2>7. QED
      BY <2>3, <2>4, <2>5, <2>6 DEF Working
  <1>6. CASE Recheck(t)
    <2>1. pc[t] = "recheck" /\ Silent /\ UNCHANGED <<journal, outside>>
      BY <1>4, <1>6 DEF Recheck
    <2>2. CASE Unchanged(f) /\ Goto(t, [f EXCEPT !.rep = live], "begin")
      <3>1. Moves(t, f) /\ pc'[t] = "begin" /\ frame'[t] = [f EXCEPT !.rep = live]
        BY <1>0, <1>2, <2>2, GotoMoves DEF PC
      <3>2. live \in AllowStates
        BY <2>2 DEF Unchanged
      <3>3. QED
        BY <1>0, <1>2, <2>1, <3>1, <3>2 DEF Working, Prepares, Preparing
    <2>3. CASE Return(t, f, "refused")
      BY <1>3, <2>1, <2>3 DEF Working, Preparing
    <2>4. QED
      BY <1>6, <2>2, <2>3 DEF Recheck
  <1>7. CASE BeginExecution(t)
    <2>1. pc[t] = "begin" /\ Silent /\ UNCHANGED <<journal, outside>>
      BY <1>4, <1>7 DEF BeginExecution
    <2>2. CASE (f.mode = "SUPERVISED" => Approved(f)) /\ Goto(t, f, "attest")
      BY <1>0, <2>1, <2>2, GotoMoves DEF Working, Prepares, Preparing, PC
    <2>3. CASE Return(t, f, "refused")
      BY <1>3, <2>1, <2>3 DEF Working, Preparing
    <2>4. QED
      BY <1>7, <2>2, <2>3 DEF BeginExecution
  <1>8. CASE Attest(t)
    <2>1. CASE Append_(f.id, "EXECUTING", "external_call") /\ Goto(t, f, "lease")
      BY <1>0, <1>8, <2>1, GotoMoves DEF Working, Attests, Attest, outside, PC
    <2>2. CASE Return(t, f, "error") /\ UNCHANGED journal
      BY <1>3, <1>8, <2>2 DEF Working, Attest
    <2>3. QED
      BY <1>8, <2>1, <2>2 DEF Attest
  <1>9. CASE AcquireLease(t)
    <2>1. pc[t] = "lease" /\ Silent
      BY <1>4, <1>9 DEF AcquireLease
    <2>2. CASE Goto(t, f, "call")
      BY <1>0, <2>1, <2>2, GotoMoves DEF Working, Progresses, PC
    <2>3. CASE Goto(t, [f EXCEPT !.out = "FAILED"], "record")
      <3>1. /\ Moves(t, f) /\ pc'[t] = "record"
            /\ frame'[t] = [f EXCEPT !.out = "FAILED"]
        BY <1>0, <1>1, <2>3, <1>a DEF PC
      <3>2. QED
        BY <1>1, <2>1, <3>1 DEF Working, Progresses
    <2>4. QED
      BY <1>9, <2>2, <2>3 DEF AcquireLease
  <1>10. CASE CallExecutor(t)
    BY <1>0, <1>10, GotoMoves DEF CallExecutor, Working, Invokes, PC
  <1>11. CASE Respond(t)
    <2>1. pc[t] = "await" /\ Silent
      BY <1>4, <1>11 DEF Respond
    <2>2. PICK result \in {"EXECUTED", "FAILED"} :
              Goto(t, [f EXCEPT !.out = result], "record") /\ (result = "EXECUTED" => effects[f.id] > 0)
      BY <1>11 DEF Respond
    <2>3. Moves(t, f) /\ pc'[t] = "record" /\ frame'[t] = [f EXCEPT !.out = result]
      BY <1>a, <2>2 DEF PC
    <2>4. QED
      BY <1>1, <2>1, <2>2, <2>3 DEF Working, Progresses
  <1>12. ASSUME NEW k \in {"external_outcome", "reconciliation"},
                pc[t] \in {"record", "settle"}, UNCHANGED outside,
                Append_(f.id, f.out, k), Return(t, f, ResultOf(f.out))
         PROVE  Settles(t)
    <2>1. /\ Moves(t, f) /\ frame'[t].mode = f.mode /\ frame'[t].reply = ResultOf(f.out)
          /\ pc'[t] = IF ResultOf(f.out) \in {"succeeded", "proposed"}
                      THEN After(f) ELSE "idle"
      BY <1>0, <1>12, ReturnMoves
    <2>2. ResultOf(f.out) \in {"succeeded", "proposed"} <=> f.out = "EXECUTED"
      BY <1>0 DEF ResultOf
    <2>3. QED
      BY <1>12, <2>1, <2>2 DEF Settles, outside
  <1>13. CASE Record(t)
    <2>1. CASE /\ Append_(f.id, f.out, "external_outcome")
               /\ Return(t, f, ResultOf(f.out))
      BY <1>12, <1>13, <2>1 DEF Record, Working
    <2>2. CASE Return(t, f, "error") /\ UNCHANGED journal
      BY <1>3, <1>13, <2>2 DEF Record, Working
    <2>3. QED
      BY <1>13, <2>1, <2>2 DEF Record
  <1>14. CASE ReconcileAttempt(t)
    <2>1. CASE /\ Append_(f.id, "EXECUTING", "reconciliation_attempt")
               /\ Goto(t, f, "lookup")
      BY <1>0, <1>14, <2>1, GotoMoves DEF ReconcileAttempt, Working, Retries, outside, PC
    <2>2. CASE Return(t, f, "error") /\ UNCHANGED journal
      BY <1>3, <1>14, <2>2 DEF ReconcileAttempt, Working
    <2>3. QED
      BY <1>14, <2>1, <2>2 DEF ReconcileAttempt
  <1>15. CASE Lookup(t)
    <2>1. pc[t] = "lookup" /\ Silent /\ UNCHANGED <<journal, outside>>
      BY <1>4, <1>15 DEF Lookup
    <2>2. ASSUME NEW result \in {"EXECUTED", "FAILED"}, Goto(t, [f EXCEPT !.out = result], "settle"),
                 result = "EXECUTED" => effects[f.id] > 0
          PROVE  Progresses(t)
      <3>1. Moves(t, f) /\ pc'[t] = "settle" /\ frame'[t] = [f EXCEPT !.out = result]
        BY <1>a, <2>2 DEF PC
      <3>2. QED
        BY <1>1, <2>1, <2>2, <3>1 DEF Progresses
    <2>3. CASE Return(t, f, "lost")
      BY <1>3, <2>1, <2>3 DEF Working
    <2>4. QED
      BY <1>15, <2>2, <2>3 DEF Lookup, Working
  <1>16. CASE Settle(t)
    <2>1. CASE /\ Append_(f.id, f.out, "reconciliation")
               /\ Return(t, f, ResultOf(f.out))
      BY <1>12, <1>16, <2>1 DEF Settle, Working
    <2>2. CASE Return(t, f, "error") /\ UNCHANGED journal
      BY <1>3, <1>16, <2>2 DEF Settle, Working
    <2>3. QED
      BY <1>16, <2>1, <2>2 DEF Settle
  <1>17. CASE CompensateExecute(t)
    BY <1>0, <1>17, DispatchKinds DEF CompensateExecute, Working
  <1>18. CASE CompensateDone(t)
    <2>1. /\ pc[t] = "comp_done" /\ pc'[t] = "idle" /\ UNCHANGED outside
          /\ \A u \in Threads \ {t} : pc'[u] = pc[u]
      BY <1>18 DEF CompensateDone, TypeInv, TypeOK
    <2>2. CASE /\ Append_(f.orig, "COMPENSATED", "compensation_completed")
               /\ UNCHANGED frame
      BY <2>1, <2>2 DEF Working, Finishes, Moves, outside
    <2>3. CASE frame' = [frame EXCEPT ![t].reply = "error"] /\ UNCHANGED journal
      <3>1. frame'[t] = [f EXCEPT !.reply = "error"]
            /\ \A u \in Threads \ {t} : frame'[u] = frame[u]
        BY <2>3 DEF TypeInv, TypeOK
      <3>2. /\ frame'[t].id = f.id /\ frame'[t].orig = f.orig /\ frame'[t].appr = f.appr
            /\ frame'[t].mode = f.mode /\ frame'[t].reply = "error"
        BY <1>0, <3>1 DEF Frame
      <3>3. QED
        BY <1>4, <2>1, <2>3, <3>1, <3>2 DEF Working, GivesUp, Moves
    <2>4. QED
      BY <1>18, <2>2, <2>3 DEF CompensateDone
  <1>19. QED
    BY <1>5, <1>6, <1>7, <1>8, <1>9, <1>10, <1>11, <1>13, <1>14, <1>15, <1>16,
       <1>17, <1>18 DEF Step

\* So is every start of a call.
LEMMA StartKinds ==
    ASSUME TypeInv, NEW t \in Threads, Execute(t) \/ Compensate(t)
    PROVE  \E f \in Frame : Starting(t, f)
  <1>1. CASE Execute(t)
    <2>1. PICK id \in Direct, m \in Modes, a \in Approvals \union {None},
               l \in Leases, r \in LiveStates \union {None} :
              /\ pc[t] = "idle" /\ CanEnter(t)
              /\ Dispatch(t, NewFrame(id, None, m, a, l, r))
              /\ UNCHANGED <<journal, outside>>
      BY <1>1 DEF Execute
    <2> DEFINE f == NewFrame(id, None, m, a, l, r)
    <2>2. f \in Frame
      BY NewFrameType, ConstantsAssumption
    <2>3. f.id = id /\ f.orig = None /\ f.mode = m /\ f.reply = "none" /\ id \in Ids
      BY ConstantsAssumption DEF NewFrame
    <2> HIDE DEF f
    <2>4. Dispatches(t, f)
      BY <2>1, <2>2, <2>3, DispatchKinds DEF f
    <2>5. QED
      BY <2>1, <2>2, <2>3, <2>4 DEF Starting, FreshCall
  <1>2. CASE Compensate(t)
    <2>1. PICK c \in {i \in Ids : Origin[i] # None}, m \in CompensationModes,
               a \in Approvals \union {None}, l \in Leases,
               r \in LiveStates \union {None} :
              /\ pc[t] = "idle" /\ CanEnter(t)
              /\ StartCompensation(t, CompensationFrame(c, m, a, l, r))
              /\ UNCHANGED outside
      BY <1>2 DEF Compensate
    <2> DEFINE f == CompensationFrame(c, m, a, l, r)
    <2>2. f \in Frame /\ f.id \in Ids /\ f.orig \in Ids
      BY CompensationFrameType
    <2>3. /\ f.id = c /\ f.orig = Origin[c] /\ f.reply = "none" /\ f.orig # None
          /\ f.mode \in CompensationModes \/ f.mode = Declared[c]
      BY DEF CompensationFrame, NewFrame
    <2> HIDE DEF f
    <2>4. FreshCompensation(f)
      BY <2>3 DEF FreshCompensation
    <2>5. CASE /\ Compensable(f.orig) /\ Goto(t, f, "comp_exec")
               /\ Append_(f.orig, "COMPENSATING", "compensation_started")
      <3>1. Moves(t, f) /\ pc'[t] = "comp_exec" /\ frame'[t] = f
        BY <2>2, <2>5, GotoMoves DEF PC
      <3>2. Begins(t, f)
        BY <2>1, <2>3, <2>5, <3>1 DEF Begins, outside
      <3>3. QED
        BY <2>1, <2>2, <2>3, <2>4, <3>2 DEF Starting
    <2>6. CASE (Return(t, f, "error") \/ Return(t, f, "refused")) /\ UNCHANGED journal
      <3>1. GivesUp(t, f)
        BY <2>1, <2>2, <2>3, <2>6, ReturnMoves DEF GivesUp, Silent, outside, Reply
      <3>2. QED
        BY <2>1, <2>2, <2>3, <2>4, <3>1 DEF Starting
    <2>7. QED
      BY <2>1, <2>5, <2>6 DEF StartCompensation, f
  <1>3. QED
    BY <1>1, <1>2
-----------------------------------------------------------------------------
(* The truth of the journal and of the answers, for any number of instances *)
(* and any clock.                                                           *)

\* No effect without a call, no recorded or expected success without an
\* effect, and every answer that names an outcome is on record.
TruthInv ==
    /\ HasLatest
    /\ \A id \in Ids : effects[id] <= calls[id]
    /\ \A id \in Ids : Recorded(id, "EXECUTED") => effects[id] > 0
    /\ \A t \in Threads : pc[t] \in {"record", "settle"} /\ frame[t].out = "EXECUTED"
                            => effects[frame[t].id] > 0
    /\ \A t \in Threads : frame[t].reply \in {"succeeded", "failed"} => frame[t].id \in Ids
    /\ \A t \in Threads, id \in Ids : frame[t].id = id =>
          /\ frame[t].reply = "succeeded" => Recorded(id, "EXECUTED")
          /\ frame[t].reply = "failed" => Recorded(id, "FAILED")

RecordsGrow ==
    \A id \in Ids, r \in ExecutionState : Recorded(id, r) => Recorded(id, r)'

\* A journal that is left alone records what it did.
LEMMA SilentRecords ==
    ASSUME UNCHANGED journal
    PROVE  /\ RecordsGrow
           /\ HasLatest => HasLatest'
           /\ \A i \in Ids, r \in ExecutionState : Recorded(i, r)' <=> Recorded(i, r)
           /\ \A i \in Ids : LastState(journal[i])' = LastState(journal[i])
  BY DEF RecordsGrow, HasLatest, Recorded, LastState

\* A step of a thread keeps the truth if what it newly records, expects or
\* answers is true.
LEMMA TruthMove ==
    ASSUME TypeInv, TruthInv, NEW t \in Threads, NEW f \in Frame, f.id \in Ids,
           Moves(t, f), RecordsGrow, HasLatest', UNCHANGED effects,
           \A i \in Ids : effects[i] <= calls'[i],
           \A i \in Ids : Recorded(i, "EXECUTED")' => effects[i] > 0,
           pc'[t] \in {"record", "settle"} /\ frame'[t].out = "EXECUTED"
               => effects[f.id] > 0,
           frame'[t].reply = "succeeded" => Recorded(f.id, "EXECUTED")',
           frame'[t].reply = "failed" => Recorded(f.id, "FAILED")'
    PROVE  TruthInv'
  <1>1. "EXECUTED" \in ExecutionState /\ "FAILED" \in ExecutionState
    BY DEF ExecutionState
  <1>2. \A i \in Ids : /\ Recorded(i, "EXECUTED") => Recorded(i, "EXECUTED")'
                       /\ Recorded(i, "FAILED") => Recorded(i, "FAILED")'
    BY <1>1 DEF RecordsGrow
  <1>3. (\A id \in Ids : effects[id] <= calls[id])'
    OBVIOUS
  <1>4. (\A id \in Ids : Recorded(id, "EXECUTED") => effects[id] > 0)'
    OBVIOUS
  <1>5. ASSUME NEW u \in Threads
        PROVE  /\ pc'[u] \in {"record", "settle"} /\ frame'[u].out = "EXECUTED"
                      => effects'[frame'[u].id] > 0
               /\ frame'[u].reply \in {"succeeded", "failed"} => frame'[u].id \in Ids
               /\ \A i \in Ids : frame'[u].id = i =>
                     /\ frame'[u].reply = "succeeded" => Recorded(i, "EXECUTED")'
                     /\ frame'[u].reply = "failed" => Recorded(i, "FAILED")'
    <2>1. CASE u = t
      BY <2>1 DEF Moves
    <2>2. CASE u # t
      <3>1. pc'[u] = pc[u] /\ frame'[u] = frame[u]
        BY <2>2 DEF Moves
      <3>2. QED
        BY <1>2, <3>1 DEF TruthInv
    <2>3. QED
      BY <2>1, <2>2
  <1>6. QED
    BY <1>3, <1>4, <1>5 DEF TruthInv

\* The same for a step that leaves the journal and the calls alone.
LEMMA TruthSilent ==
    ASSUME TypeInv, TruthInv, NEW t \in Threads, NEW f \in Frame, f.id \in Ids,
           Moves(t, f), Silent,
           pc'[t] \in {"record", "settle"} /\ frame'[t].out = "EXECUTED"
               => effects[f.id] > 0,
           frame'[t].reply = "succeeded" => Recorded(f.id, "EXECUTED"),
           frame'[t].reply = "failed" => Recorded(f.id, "FAILED")
    PROVE  TruthInv'
  <1>0. "EXECUTED" \in ExecutionState /\ "FAILED" \in ExecutionState
    BY DEF ExecutionState
  <1>1. UNCHANGED <<journal, effects, calls>>
    BY DEF Silent
  <1>2. /\ RecordsGrow /\ HasLatest'
        /\ \A i \in Ids : /\ Recorded(i, "EXECUTED")' <=> Recorded(i, "EXECUTED")
                          /\ Recorded(i, "FAILED")' <=> Recorded(i, "FAILED")
    BY <1>0, <1>1, SilentRecords DEF TruthInv
  <1>3. \A i \in Ids : /\ Recorded(i, "EXECUTED")' => effects[i] > 0
                       /\ effects[i] <= calls'[i]
    BY <1>1, <1>2 DEF TruthInv
  <1>4. /\ frame'[t].reply = "succeeded" => Recorded(f.id, "EXECUTED")'
        /\ frame'[t].reply = "failed" => Recorded(f.id, "FAILED")'
    BY <1>2
  <1>5. QED
    BY <1>1, <1>2, <1>3, <1>4, TruthMove

\* And for a step that appends to a log.
LEMMA TruthAppend ==
    ASSUME TypeInv, TruthInv, NEW t \in Threads, NEW f \in Frame, f.id \in Ids,
           NEW i \in Ids, NEW s \in ExecutionState, NEW k \in EventKind,
           Append_(i, s, k), Moves(t, f), UNCHANGED <<calls, effects>>,
           s = "EXECUTED" => effects[i] > 0,
           pc'[t] \notin {"record", "settle"},
           frame'[t].reply = "succeeded"
               => Recorded(f.id, "EXECUTED") \/ (i = f.id /\ s = "EXECUTED"),
           frame'[t].reply = "failed"
               => Recorded(f.id, "FAILED") \/ (i = f.id /\ s = "FAILED")
    PROVE  TruthInv'
  <1>0. "EXECUTED" \in ExecutionState /\ "FAILED" \in ExecutionState /\ TypeOK
    BY DEF ExecutionState, TypeInv
  <1>1. \A j \in Ids, r \in ExecutionState :
            Recorded(j, r)' <=> Recorded(j, r) \/ (j = i /\ r = s)
    BY <1>0, AppendStates
  <1>2. RecordsGrow
    BY <1>1 DEF RecordsGrow
  <1>3. HasLatest'
    BY <1>0, AppendLatest DEF TruthInv
  <1>4. \A j \in Ids : /\ Recorded(j, "EXECUTED")' => effects[j] > 0
                       /\ effects[j] <= calls'[j]
    BY <1>0, <1>1 DEF TruthInv
  <1>5. /\ frame'[t].reply = "succeeded" => Recorded(f.id, "EXECUTED")'
        /\ frame'[t].reply = "failed" => Recorded(f.id, "FAILED")'
    BY <1>0, <1>1
  <1>6. QED
    BY <1>2, <1>3, <1>4, <1>5, TruthMove

\* What a thread inside the boundary, or the call it starts, works on.
LEMMA WorkFrame ==
    ASSUME TypeInv, NEW t \in Threads, pc[t] # "idle"
    PROVE  /\ frame[t] \in Frame /\ frame[t].id \in Ids
           /\ pc[t] = "comp_done" => frame[t].orig \in Ids
           /\ frame[t].out \in {"EXECUTED", "FAILED"}
  <1>1. frame[t] \in Frame
    BY DEF TypeInv, TypeOK
  <1>2. frame[t].out \in {"EXECUTED", "FAILED"}
    BY <1>1 DEF Frame
  <1>3. QED
    BY <1>1, <1>2 DEF TypeInv, Busy

\* The head of _execute keeps the truth.
LEMMA TruthDispatch ==
    ASSUME TypeInv, TruthInv, NEW t \in Threads, NEW f \in Frame, f.id \in Ids,
           f = frame[t] \/ f.reply = "none", Dispatches(t, f)
    PROVE  TruthInv'
  <1>1. /\ f.reply = "succeeded" => Recorded(f.id, "EXECUTED")
        /\ f.reply = "failed" => Recorded(f.id, "FAILED")
    BY DEF TruthInv
  <1>2. CASE GivesUp(t, f)
    BY <1>2, TruthSilent DEF GivesUp
  <1>3. CASE Knows(t, f)
    <2>1. Recorded(f.id, "EXECUTED")
      BY <1>3, LatestIsRecorded DEF Knows, TruthInv, TypeInv
    <2>2. QED
      BY <1>3, <2>1, TruthSilent DEF Knows, After
  <1>4. CASE Reconciles(t, f)
    BY <1>1, <1>4, TruthSilent DEF Reconciles
  <1>5. CASE Proposes(t, f)
    BY <1>5, TruthSilent DEF Proposes, After
  <1>6. CASE Admits(t, f)
    BY <1>1, <1>6, TruthSilent DEF Admits
  <1>7. QED
    BY <1>2, <1>3, <1>4, <1>5, <1>6 DEF Dispatches

\* Every step of a thread keeps the truth.
LEMMA TruthStep ==
    ASSUME TypeInv, TruthInv, NEW t \in Threads, Step(t)
    PROVE  TruthInv'
  <1>f. PICK f : f = frame[t]
    OBVIOUS
  <1>0. /\ f \in Frame /\ f.id \in Ids /\ f.out \in {"EXECUTED", "FAILED"}
        /\ pc[t] = "comp_done" => f.orig \in Ids
    <2>1. pc[t] # "idle"
      BY DEF Step, Evaluate, Recheck, BeginExecution, Attest,
             AcquireLease, CallExecutor, Respond, Record, ReconcileAttempt,
             Lookup, Settle, CompensateExecute, CompensateDone
    <2>2. QED
      BY <1>f, <2>1, WorkFrame
  <1>1. /\ f.reply = "succeeded" => Recorded(f.id, "EXECUTED")
        /\ f.reply = "failed" => Recorded(f.id, "FAILED")
        /\ pc[t] \in {"record", "settle"} /\ f.out = "EXECUTED" => effects[f.id] > 0
    BY <1>0, <1>f DEF TruthInv
  <1>2. CASE Prepares(t)
    BY <1>f, <1>0, <1>1, <1>2, TruthSilent DEF Prepares
  <1>3. CASE GivesUp(t, f)
    BY <1>f, <1>0, <1>3, TruthSilent DEF GivesUp
  <1>4. CASE Attests(t)
    BY <1>f, <1>0, <1>1, <1>4, TruthAppend DEF Attests, ExecutionState, EventKind
  <1>5. CASE Progresses(t)
    BY <1>f, <1>0, <1>1, <1>5, TruthSilent DEF Progresses
  <1>6. CASE Invokes(t)
    <2>1. /\ RecordsGrow /\ HasLatest' /\ UNCHANGED effects
          /\ \A i \in Ids, r \in ExecutionState : Recorded(i, r)' <=> Recorded(i, r)
      BY <1>6, SilentRecords DEF Invokes, TruthInv
    <2>2. "EXECUTED" \in ExecutionState /\ "FAILED" \in ExecutionState
      BY DEF ExecutionState
    <2>3. \A i \in Ids : effects[i] <= calls'[i]
      BY <1>f, <1>0, <1>6 DEF Invokes, TruthInv, TypeInv, TypeOK
    <2>4. \A i \in Ids : Recorded(i, "EXECUTED")' => effects[i] > 0
      BY <2>1, <2>2 DEF TruthInv
    <2>5. Moves(t, f) /\ frame'[t] = f /\ pc'[t] = "await"
      BY <1>f, <1>6 DEF Invokes
    <2>6. /\ f.reply = "succeeded" => Recorded(f.id, "EXECUTED")'
          /\ f.reply = "failed" => Recorded(f.id, "FAILED")'
      BY <1>0, <1>1, <2>1, <2>2
    <2>7. QED
      BY <1>0, <2>1, <2>3, <2>4, <2>5, <2>6, TruthMove
  <1>7. CASE Settles(t)
    <2>1. PICK k \in {"external_outcome", "reconciliation"} : Append_(f.id, f.out, k)
      BY <1>f, <1>7 DEF Settles
    <2>2. /\ Moves(t, f) /\ UNCHANGED <<calls, effects>> /\ f.out \in ExecutionState
          /\ k \in EventKind /\ pc'[t] \notin {"record", "settle"}
          /\ frame'[t].reply = ResultOf(f.out)
          /\ f.out = "EXECUTED" => effects[f.id] > 0
      BY <1>f, <1>0, <1>1, <1>7 DEF Settles, ExecutionState, EventKind, After
    <2>3. /\ frame'[t].reply = "succeeded" => f.out = "EXECUTED"
          /\ frame'[t].reply = "failed" => f.out = "FAILED"
      BY <1>0, <2>2 DEF ResultOf
    <2>4. QED
      BY <1>0, <2>1, <2>2, <2>3, TruthAppend
  <1>8. CASE Retries(t)
    BY <1>f, <1>0, <1>1, <1>8, TruthAppend DEF Retries, ExecutionState, EventKind
  <1>9. CASE Finishes(t)
    <2>1. /\ Moves(t, f) /\ UNCHANGED <<calls, effects>> /\ frame'[t] = f
          /\ Append_(f.orig, "COMPENSATED", "compensation_completed")
          /\ f.orig \in Ids /\ pc'[t] = "idle"
      BY <1>f, <1>0, <1>9 DEF Finishes
    <2>2. "COMPENSATED" \in ExecutionState /\ "compensation_completed" \in EventKind
      BY DEF ExecutionState, EventKind
    <2>3. QED
      BY <1>0, <1>1, <2>1, <2>2, TruthAppend
  <1>10. CASE Dispatches(t, f)
    BY <1>f, <1>0, <1>10, TruthDispatch
  <1>11. QED
    BY <1>f, <1>2, <1>3, <1>4, <1>5, <1>6, <1>7, <1>8, <1>9, <1>10, StepKinds DEF Working

\* So does the start of a call.
LEMMA TruthStart ==
    ASSUME TypeInv, TruthInv, NEW t \in Threads, Execute(t) \/ Compensate(t)
    PROVE  TruthInv'
  <1>1. PICK f \in Frame : Starting(t, f)
    BY StartKinds
  <1>2. f.id \in Ids /\ f.reply = "none" /\ f.orig \in Ids \union {None}
    BY <1>1 DEF Starting, Frame
  <1>3. CASE Dispatches(t, f)
    BY <1>2, <1>3, TruthDispatch
  <1>4. CASE Begins(t, f)
    BY <1>2, <1>4, TruthAppend DEF Begins, ExecutionState, EventKind
  <1>5. CASE GivesUp(t, f)
    BY <1>2, <1>5, TruthSilent DEF GivesUp
  <1>6. QED
    BY <1>1, <1>3, <1>4, <1>5 DEF Starting

\* And every step of the environment.
LEMMA TruthEnvironment ==
    ASSUME TypeInv, TruthInv,
           \/ \E id \in Ids : TakeEffect(id)
           \/ \E b \in Boundaries : Crash(b)
           \/ ChangeState \/ Tick \/ StepBack
    PROVE  TruthInv'
  <1>0. UNCHANGED journal
    BY DEF TakeEffect, Crash, ChangeState, Tick, StepBack
  <1>1. "EXECUTED" \in ExecutionState /\ "FAILED" \in ExecutionState
    BY DEF ExecutionState
  <1>2. /\ HasLatest'
        /\ \A i \in Ids : /\ Recorded(i, "EXECUTED")' <=> Recorded(i, "EXECUTED")
                          /\ Recorded(i, "FAILED")' <=> Recorded(i, "FAILED")
    BY <1>0, <1>1, SilentRecords DEF TruthInv
  <1>3. CASE \E id \in Ids : TakeEffect(id)
    <2>1. UNCHANGED <<pc, frame, calls>>
      BY <1>3 DEF TakeEffect
    <2>2. \A i \in Ids : effects'[i] <= calls[i] /\ (effects[i] > 0 => effects'[i] > 0)
      BY <1>3 DEF TakeEffect, TypeInv, TypeOK, TruthInv
    <2>3. \A t \in Threads : pc[t] # "idle" => frame[t].id \in Ids
      BY DEF TypeInv, Busy
    <2>4. QED
      BY <1>2, <2>1, <2>2, <2>3 DEF TruthInv
  <1>4. CASE \E b \in Boundaries : Crash(b)
    <2>1. UNCHANGED <<calls, effects>>
      BY <1>4 DEF Crash
    <2>2. \A t \in Threads : \/ pc'[t] = pc[t] /\ frame'[t] = frame[t]
                             \/ pc'[t] = "idle" /\ frame'[t] = frame[t]
                             \/ pc'[t] = "idle" /\ frame'[t].reply = "none"
      <3>1. \A t \in Threads : [frame[t] EXCEPT !.reply = "none"].reply = "none"
        BY DEF TypeInv, TypeOK, Frame
      <3>2. QED
        BY <1>4, <3>1 DEF Crash
    <2>3. QED
      BY <1>2, <2>1, <2>2 DEF TruthInv
  <1>5. CASE ChangeState \/ Tick \/ StepBack
    <2>1. UNCHANGED <<pc, frame, calls, effects>>
      BY <1>5 DEF ChangeState, Tick, StepBack
    <2>2. QED
      BY <1>2, <2>1 DEF TruthInv
  <1>6. QED
    BY <1>3, <1>4, <1>5

\* The truth holds in every reachable state.
LEMMA TruthInvariance == Spec => []TruthInv
  <1>1. Init => TruthInv
    BY DEF Init, TruthInv, HasLatest, Recorded, NewFrame
  <1>2. TypeInv /\ TruthInv /\ [Next]_vars => TruthInv'
    <2> SUFFICES ASSUME TypeInv, TruthInv, [Next]_vars PROVE TruthInv'
      OBVIOUS
    <2>1. CASE UNCHANGED vars
      BY <2>1 DEF vars, TruthInv, HasLatest, Recorded
    <2>2. CASE Next
      BY <2>2, TruthStart, TruthStep, TruthEnvironment DEF Next
    <2>3. QED
      BY <2>1, <2>2
  <1>3. QED
    BY TypeInvariance, <1>1, <1>2, PTL DEF Spec

\* On every journal, shared by any number of processes with any clocks and any
\* crashes, a recorded success took effect outside.
THEOREM RecordedSuccessIsReal == Spec => []ExecutedTookEffect
  <1>1. TruthInv => ExecutedTookEffect
    BY DEF TruthInv, ExecutedTookEffect
  <1>2. QED
    BY TruthInvariance, <1>1, PTL
-----------------------------------------------------------------------------
(* Compensations: which run a COMPENSATED event speaks of.                  *)

\* No compensation resolves to SHADOW, neither as declared nor as requested.
\* A shadow compensation is only proposed, and still recorded as COMPENSATED.
ShadowFree ==
    \A c \in Ids : Origin[c] # None
                       => Declared[c] # "SHADOW" /\ "SHADOW" \notin CompensationModes

\* A thread that compensates an original runs a compensation of it for real,
\* ends with its success, and every COMPENSATED event speaks of such a run.
RanInv ==
    /\ \A t \in Threads : pc[t] # "idle" /\ frame[t].orig # None
          => frame[t].orig = Origin[frame[t].id] /\ frame[t].mode # "SHADOW"
    /\ \A t \in Threads : pc[t] = "comp_done"
          => frame[t].orig # None /\ frame[t].reply = "succeeded"
    /\ CompensatedMeansRan

\* A step of a thread keeps it, if the thread's frame and what is newly
\* recorded are as they should be.
LEMMA RanMove ==
    ASSUME TypeInv, RanInv, NEW t \in Threads, NEW f \in Frame, Moves(t, f), RecordsGrow,
           f.orig # None => f.orig = Origin[f.id],
           pc'[t] # "idle" /\ f.orig # None => frame'[t].mode # "SHADOW",
           pc'[t] = "comp_done" => f.orig # None /\ frame'[t].reply = "succeeded",
           \A undone \in Ids : Recorded(undone, "COMPENSATED")' =>
               \/ Recorded(undone, "COMPENSATED")
               \/ \E c \in Ids : Origin[c] = undone /\ Recorded(c, "EXECUTED")
    PROVE  RanInv'
  <1>1. \A c \in Ids : Recorded(c, "EXECUTED") => Recorded(c, "EXECUTED")'
    BY DEF RecordsGrow, ExecutionState
  <1>2. CompensatedMeansRan'
    BY <1>1 DEF RanInv, CompensatedMeansRan
  <1>3. ASSUME NEW u \in Threads
        PROVE  /\ pc'[u] # "idle" /\ frame'[u].orig # None
                     => frame'[u].orig = Origin[frame'[u].id] /\ frame'[u].mode # "SHADOW"
               /\ pc'[u] = "comp_done"
                     => frame'[u].orig # None /\ frame'[u].reply = "succeeded"
    <2>1. CASE u = t
      BY <2>1 DEF Moves
    <2>2. CASE u # t
      BY <2>2 DEF Moves, RanInv
    <2>3. QED
      BY <2>1, <2>2
  <1>4. QED
    BY <1>2, <1>3 DEF RanInv

\* A step that leaves the journal alone.
LEMMA RanSilent ==
    ASSUME TypeInv, RanInv, NEW t \in Threads, NEW f \in Frame, Moves(t, f),
           UNCHANGED journal,
           f.orig # None => f.orig = Origin[f.id],
           pc'[t] # "idle" /\ f.orig # None => frame'[t].mode # "SHADOW",
           pc'[t] = "comp_done" => f.orig # None /\ frame'[t].reply = "succeeded"
    PROVE  RanInv'
  <1>1. /\ RecordsGrow
        /\ \A undone \in Ids : Recorded(undone, "COMPENSATED")' => Recorded(undone, "COMPENSATED")
    BY SilentRecords DEF ExecutionState
  <1>2. QED
    BY <1>1, RanMove

\* A step that appends an event to a log.
LEMMA RanAppend ==
    ASSUME TypeInv, RanInv, NEW t \in Threads, NEW f \in Frame, Moves(t, f),
           NEW i \in Ids, NEW s \in ExecutionState, NEW k \in EventKind,
           Append_(i, s, k),
           s = "COMPENSATED" => \E c \in Ids : Origin[c] = i /\ Recorded(c, "EXECUTED"),
           f.orig # None => f.orig = Origin[f.id],
           pc'[t] # "idle" /\ f.orig # None => frame'[t].mode # "SHADOW",
           pc'[t] = "comp_done" => f.orig # None /\ frame'[t].reply = "succeeded"
    PROVE  RanInv'
  <1>1. \A j \in Ids, r \in ExecutionState :
            Recorded(j, r)' <=> Recorded(j, r) \/ (j = i /\ r = s)
    BY AppendStates DEF TypeInv
  <1>2. RecordsGrow
    BY <1>1 DEF RecordsGrow
  <1>3. \A undone \in Ids : Recorded(undone, "COMPENSATED")' =>
               \/ Recorded(undone, "COMPENSATED")
               \/ \E c \in Ids : Origin[c] = undone /\ Recorded(c, "EXECUTED")
    BY <1>1 DEF ExecutionState
  <1>4. QED
    BY <1>2, <1>3, RanMove

\* The head of _execute: no compensation is merely proposed.
LEMMA RanDispatch ==
    ASSUME ShadowFree, TypeInv, RanInv, NEW t \in Threads, NEW f \in Frame, f.id \in Ids,
           f.orig # None => f.orig = Origin[f.id] /\ f.mode # "SHADOW",
           Dispatches(t, f)
    PROVE  RanInv'
  <1>1. f.orig # None => resolve_autonomy_mode(Declared[f.id], f.mode) # "SHADOW"
    BY DEF ShadowFree, resolve_autonomy_mode
  <1>2. CASE GivesUp(t, f)
    BY <1>2, RanSilent DEF GivesUp, Silent
  <1>3. CASE Knows(t, f)
    BY <1>3, RanSilent DEF Knows, Silent, After
  <1>4. CASE Reconciles(t, f)
    BY <1>4, RanSilent DEF Reconciles, Silent
  <1>5. CASE Proposes(t, f)
    <2>1. f.orig = None /\ pc'[t] = "idle"
      BY <1>1, <1>5 DEF Proposes, After
    <2>2. QED
      BY <1>5, <2>1, RanSilent DEF Proposes, Silent
  <1>6. CASE Admits(t, f)
    BY <1>6, RanSilent DEF Admits, Silent
  <1>7. QED
    BY <1>2, <1>3, <1>4, <1>5, <1>6 DEF Dispatches

\* Every step of a thread keeps it.
LEMMA RanStep ==
    ASSUME ShadowFree, TypeInv, TruthInv, RanInv, NEW t \in Threads, Step(t)
    PROVE  RanInv'
  <1>f. PICK f : f = frame[t]
    OBVIOUS
  <1>0. /\ pc[t] # "idle" /\ f \in Frame /\ f.id \in Ids /\ f.out \in {"EXECUTED", "FAILED"}
        /\ pc[t] = "comp_done" => f.orig \in Ids
    <2>1. pc[t] # "idle"
      BY DEF Step, Evaluate, Recheck, BeginExecution, Attest,
             AcquireLease, CallExecutor, Respond, Record, ReconcileAttempt,
             Lookup, Settle, CompensateExecute, CompensateDone
    <2>2. QED
      BY <1>f, <2>1, WorkFrame
  <1>1. f.orig # None => f.orig = Origin[f.id] /\ f.mode # "SHADOW"
    BY <1>f, <1>0 DEF RanInv
  <1>2. CASE Prepares(t)
    BY <1>f, <1>0, <1>1, <1>2, RanSilent DEF Prepares, Silent
  <1>3. CASE GivesUp(t, f)
    BY <1>0, <1>1, <1>3, RanSilent DEF GivesUp, Silent
  <1>4. CASE Attests(t)
    BY <1>f, <1>0, <1>1, <1>4, RanAppend DEF Attests, ExecutionState, EventKind
  <1>5. CASE Progresses(t)
    BY <1>f, <1>0, <1>1, <1>5, RanSilent DEF Progresses, Silent
  <1>6. CASE Invokes(t)
    BY <1>f, <1>0, <1>1, <1>6, RanSilent DEF Invokes
  <1>7. CASE Settles(t)
    <2>1. PICK k \in {"external_outcome", "reconciliation"} : Append_(f.id, f.out, k)
      BY <1>f, <1>7 DEF Settles
    <2>2. /\ Moves(t, f) /\ f.out \in ExecutionState /\ k \in EventKind
          /\ frame'[t].mode = f.mode /\ f.out # "COMPENSATED"
      BY <1>f, <1>0, <1>7 DEF Settles, ExecutionState, EventKind
    <2>3. pc'[t] = "comp_done" => f.orig # None /\ frame'[t].reply = "succeeded"
      BY <1>f, <1>0, <1>7 DEF Settles, After, ResultOf
    <2>4. QED
      BY <1>0, <1>1, <2>1, <2>2, <2>3, RanAppend
  <1>8. CASE Retries(t)
    BY <1>f, <1>0, <1>1, <1>8, RanAppend DEF Retries, ExecutionState, EventKind
  <1>9. CASE Finishes(t)
    <2>1. /\ Moves(t, f) /\ pc[t] = "comp_done" /\ pc'[t] = "idle" /\ f.orig \in Ids
          /\ Append_(f.orig, "COMPENSATED", "compensation_completed")
      BY <1>f, <1>0, <1>9 DEF Finishes
    <2>2. f.orig = Origin[f.id] /\ Recorded(f.id, "EXECUTED")
      BY <1>f, <1>0, <1>1, <2>1 DEF RanInv, TruthInv
    <2>3. "COMPENSATED" \in ExecutionState /\ "compensation_completed" \in EventKind
      BY DEF ExecutionState, EventKind
    <2>4. \E c \in Ids : Origin[c] = f.orig /\ Recorded(c, "EXECUTED")
      BY <1>0, <2>2
    <2>5. QED
      BY <1>0, <1>1, <2>1, <2>3, <2>4, RanAppend
  <1>10. CASE Dispatches(t, f)
    BY <1>0, <1>1, <1>10, RanDispatch
  <1>11. QED
    BY <1>f, <1>2, <1>3, <1>4, <1>5, <1>6, <1>7, <1>8, <1>9, <1>10, StepKinds DEF Working

\* So does the start of a call.
LEMMA RanStart ==
    ASSUME ShadowFree, TypeInv, RanInv, NEW t \in Threads, Execute(t) \/ Compensate(t)
    PROVE  RanInv'
  <1>1. PICK f \in Frame : Starting(t, f)
    BY StartKinds
  <1>2. f.id \in Ids /\ f.orig \in Ids \union {None}
    BY <1>1 DEF Starting, Frame
  <1>3. CASE FreshCall(f) /\ Dispatches(t, f)
    BY <1>2, <1>3, RanDispatch DEF FreshCall
  <1>4. CASE FreshCompensation(f) /\ (Begins(t, f) \/ GivesUp(t, f))
    <2>1. f.orig = Origin[f.id] /\ f.mode # "SHADOW" /\ f.orig # None
      BY <1>2, <1>4 DEF FreshCompensation, ShadowFree
    <2>2. CASE Begins(t, f)
      BY <1>2, <2>1, <2>2, RanAppend DEF Begins, ExecutionState, EventKind
    <2>3. CASE GivesUp(t, f)
      BY <2>1, <2>3, RanSilent DEF GivesUp, Silent
    <2>4. QED
      BY <1>4, <2>2, <2>3
  <1>5. QED
    BY <1>1, <1>3, <1>4 DEF Starting

\* And every step of the environment.
LEMMA RanEnvironment ==
    ASSUME TypeInv, RanInv,
           \/ \E id \in Ids : TakeEffect(id)
           \/ \E b \in Boundaries : Crash(b)
           \/ ChangeState \/ Tick \/ StepBack
    PROVE  RanInv'
  <1>1. UNCHANGED journal
    BY DEF TakeEffect, Crash, ChangeState, Tick, StepBack
  <1>2. \A t \in Threads : pc'[t] = "idle" \/ (pc'[t] = pc[t] /\ frame'[t] = frame[t])
    BY DEF TakeEffect, Crash, ChangeState, Tick, StepBack
  <1>3. CompensatedMeansRan'
    BY <1>1 DEF RanInv, CompensatedMeansRan, Recorded
  <1>4. QED
    BY <1>2, <1>3 DEF RanInv

\* It holds in every reachable state.
LEMMA RanInvariance == ShadowFree => (Spec => []RanInv)
  <1> SUFFICES ASSUME ShadowFree PROVE Spec => []RanInv
    OBVIOUS
  <1>1. Init => RanInv
    BY DEF Init, RanInv, CompensatedMeansRan, Recorded
  <1>2. TypeInv /\ TruthInv /\ RanInv /\ [Next]_vars => RanInv'
    <2> SUFFICES ASSUME TypeInv, TruthInv, RanInv, [Next]_vars PROVE RanInv'
      OBVIOUS
    <2>1. CASE UNCHANGED vars
      BY <2>1 DEF vars, RanInv, CompensatedMeansRan, Recorded
    <2>2. CASE Next
      BY <2>2, RanStart, RanStep, RanEnvironment DEF Next
    <2>3. QED
      BY <2>1, <2>2
  <1>3. QED
    BY TypeInvariance, TruthInvariance, <1>1, <1>2, PTL DEF Spec
-----------------------------------------------------------------------------
(* The retry limit, for all threads that share one instance.                *)

\* A thread that may enter the instance they share is alone.
LEMMA Alone ==
    ASSUME SharedBoundary, TypeInv, OnceInv, NEW t \in Threads, CanEnter(t)
    PROVE  \A u \in Threads \ {t} : pc[u] = "idle"
  BY ConstantsAssumption DEF SharedBoundary, OnceInv, CanEnter, TypeInv, TypeOK

\* The same for a thread that is inside.
LEMMA AloneInside ==
    ASSUME SharedBoundary, TypeInv, OnceInv, NEW t \in Threads, pc[t] # "idle"
    PROVE  \A u \in Threads \ {t} : pc[u] = "idle"
  BY Alone DEF OnceInv, CanEnter

\* The attempts of a log after one more event.
LEMMA AttemptsAppend ==
    ASSUME TypeOK, NEW id \in Ids, NEW s \in ExecutionState, NEW k \in EventKind,
           Append_(id, s, k), Attempts(journal[id]) \in Nat,
           IsFiniteSet({i \in DOMAIN journal[id] :
                           journal[id][i].kind = "reconciliation_attempt"})
    PROVE  /\ Attempts(journal'[id]) = Attempts(journal[id])
                  + IF k = "reconciliation_attempt" THEN 1 ELSE 0
           /\ IsFiniteSet({i \in DOMAIN journal'[id] :
                              journal'[id][i].kind = "reconciliation_attempt"})
  <1> DEFINE S == {i \in DOMAIN journal[id] :
                       journal[id][i].kind = "reconciliation_attempt"}
             T == {i \in DOMAIN journal'[id] :
                       journal'[id][i].kind = "reconciliation_attempt"}
             n == Len(journal'[id])
  <1>1. Event(s, k, now).kind = k
    BY DEF Event
  <1>2. /\ journal'[id][n] = Event(s, k, now)
        /\ DOMAIN journal'[id] = DOMAIN journal[id] \union {n}
        /\ \A j \in DOMAIN journal[id] : journal'[id][j] = journal[id][j]
        /\ DOMAIN journal[id] = 1..Len(journal[id])
        /\ n = Len(journal[id]) + 1 /\ Len(journal[id]) \in Nat
    BY AppendRecords
  <1> HIDE DEF n
  <1>3. n \notin DOMAIN journal[id]
    BY <1>2
  <1>4. T = IF k = "reconciliation_attempt" THEN S \union {n} ELSE S
    BY <1>1, <1>2, <1>3
  <1>5. n \notin S
    BY <1>3
  <1>6. Attempts(journal[id]) = Cardinality(S) /\ Attempts(journal'[id]) = Cardinality(T)
    BY DEF Attempts
  <1>7. IsFiniteSet(S)
    OBVIOUS
  <1> HIDE DEF S, T
  <1>8. Cardinality(S \union {n}) = Cardinality(S) + 1 /\ IsFiniteSet(S \union {n})
    BY <1>5, <1>7, FS_AddElement
  <1>9. IsFiniteSet(T) /\ Attempts(journal'[id]) = Attempts(journal[id])
                  + IF k = "reconciliation_attempt" THEN 1 ELSE 0
    BY <1>4, <1>6, <1>7, <1>8
  <1>10. QED
    BY <1>9 DEF T

AttemptSet(log) == {i \in DOMAIN log : log[i].kind = "reconciliation_attempt"}

\* No log has more reconciliation attempts than allowed, and while a thread is
\* about to journal one there is room for it.
RetryInv ==
    /\ \A id \in Ids : /\ IsFiniteSet(AttemptSet(journal[id]))
                       /\ Attempts(journal[id]) \in Nat
                       /\ Attempts(journal[id]) <= MaxRetries
    /\ \A t \in Threads, id \in Ids :
          pc[t] = "reconcile" /\ frame[t].id = id => Attempts(journal[id]) < MaxRetries

\* A step that leaves the journal alone.
LEMMA RetrySilent ==
    ASSUME TypeInv, RetryInv, NEW t \in Threads, NEW f, Moves(t, f),
           UNCHANGED journal,
           pc'[t] = "reconcile" => f.id \in Ids /\ Attempts(journal[f.id]) < MaxRetries
    PROVE  RetryInv'
  BY DEF RetryInv, Moves

\* A step that appends an event, taken while no other thread is inside.
LEMMA RetryAppend ==
    ASSUME TypeInv, RetryInv, NEW t \in Threads, NEW f, Moves(t, f),
           \A u \in Threads \ {t} : pc[u] = "idle",
           NEW i \in Ids, NEW s \in ExecutionState, NEW k \in EventKind,
           Append_(i, s, k),
           k = "reconciliation_attempt" => Attempts(journal[i]) < MaxRetries,
           pc'[t] # "reconcile"
    PROVE  RetryInv'
  <1>1. /\ Attempts(journal[i]) \in Nat /\ Attempts(journal[i]) <= MaxRetries
        /\ IsFiniteSet(AttemptSet(journal[i])) /\ MaxRetries \in Nat
    BY ConstantsAssumption DEF RetryInv
  <1>2. /\ Attempts(journal'[i]) = Attempts(journal[i])
                  + IF k = "reconciliation_attempt" THEN 1 ELSE 0
        /\ IsFiniteSet(AttemptSet(journal'[i]))
    BY <1>1, AttemptsAppend DEF AttemptSet, TypeInv
  <1>3. Attempts(journal'[i]) \in Nat /\ Attempts(journal'[i]) <= MaxRetries
    BY <1>1, <1>2
  <1>4. \A j \in Ids : j # i => journal'[j] = journal[j]
    BY AppendRecords DEF TypeInv
  <1>5. \A u \in Threads : pc'[u] # "reconcile"
    BY DEF Moves
  <1>6. QED
    BY <1>2, <1>3, <1>4, <1>5 DEF RetryInv

\* The head of _execute counts the attempts.
LEMMA RetryDispatch ==
    ASSUME TypeInv, RetryInv, NEW t \in Threads, NEW f \in Frame, f.id \in Ids,
           Dispatches(t, f)
    PROVE  RetryInv'
  BY RetrySilent
     DEF Dispatches, GivesUp, Knows, Reconciles, Proposes, Admits, MayReconcile, Silent, After

\* Every step of a thread keeps the limit.
LEMMA RetryStep ==
    ASSUME SharedBoundary, TypeInv, OnceInv, RetryInv, NEW t \in Threads, Step(t)
    PROVE  RetryInv'
  <1>f. PICK f : f = frame[t]
    OBVIOUS
  <1>0. /\ pc[t] # "idle" /\ f \in Frame /\ f.id \in Ids /\ f.out \in {"EXECUTED", "FAILED"}
        /\ pc[t] = "comp_done" => f.orig \in Ids
    <2>1. pc[t] # "idle"
      BY DEF Step, Evaluate, Recheck, BeginExecution, Attest,
             AcquireLease, CallExecutor, Respond, Record, ReconcileAttempt,
             Lookup, Settle, CompensateExecute, CompensateDone
    <2>2. QED
      BY <1>f, <2>1, WorkFrame
  <1>1. \A u \in Threads \ {t} : pc[u] = "idle"
    BY <1>0, AloneInside
  <1>2. CASE Prepares(t) \/ GivesUp(t, f) \/ Progresses(t) \/ Invokes(t)
    BY <1>f, <1>2, RetrySilent DEF Prepares, GivesUp, Progresses, Invokes, Silent
  <1>3. CASE Attests(t)
    BY <1>f, <1>0, <1>1, <1>3, RetryAppend DEF Attests, ExecutionState, EventKind
  <1>4. CASE Settles(t)
    <2>1. PICK k \in {"external_outcome", "reconciliation"} : Append_(f.id, f.out, k)
      BY <1>f, <1>4 DEF Settles
    <2>2. /\ Moves(t, f) /\ f.out \in ExecutionState /\ k \in EventKind
          /\ k # "reconciliation_attempt" /\ pc'[t] # "reconcile"
      BY <1>f, <1>0, <1>4 DEF Settles, ExecutionState, EventKind, After
    <2>3. QED
      BY <1>0, <1>1, <2>1, <2>2, RetryAppend
  <1>5. CASE Retries(t)
    <2>1. Attempts(journal[f.id]) < MaxRetries
      BY <1>f, <1>0, <1>5 DEF Retries, RetryInv
    <2>2. QED
      BY <1>f, <1>0, <1>1, <1>5, <2>1, RetryAppend DEF Retries, ExecutionState, EventKind
  <1>6. CASE Finishes(t)
    <2>1. /\ Moves(t, f) /\ pc'[t] = "idle" /\ f.orig \in Ids
          /\ Append_(f.orig, "COMPENSATED", "compensation_completed")
      BY <1>f, <1>0, <1>6 DEF Finishes
    <2>2. "COMPENSATED" \in ExecutionState /\ "compensation_completed" \in EventKind
      BY DEF ExecutionState, EventKind
    <2>3. QED
      BY <1>1, <2>1, <2>2, RetryAppend
  <1>7. CASE Dispatches(t, f)
    BY <1>0, <1>7, RetryDispatch
  <1>8. QED
    BY <1>f, <1>2, <1>3, <1>4, <1>5, <1>6, <1>7, StepKinds DEF Working

\* So does the start of a call.
LEMMA RetryStart ==
    ASSUME SharedBoundary, TypeInv, OnceInv, RetryInv, NEW t \in Threads,
           Execute(t) \/ Compensate(t)
    PROVE  RetryInv'
  <1>1. PICK f \in Frame : Starting(t, f)
    BY StartKinds
  <1>2. f.id \in Ids /\ f.orig \in Ids \union {None} /\ CanEnter(t)
    BY <1>1 DEF Starting, Frame
  <1>3. CASE Dispatches(t, f)
    BY <1>2, <1>3, RetryDispatch
  <1>4. CASE Begins(t, f)
    BY <1>2, <1>4, Alone, RetryAppend DEF Begins, ExecutionState, EventKind
  <1>5. CASE GivesUp(t, f)
    BY <1>5, RetrySilent DEF GivesUp, Silent
  <1>6. QED
    BY <1>1, <1>3, <1>4, <1>5 DEF Starting

\* The environment neither journals nor enters.
LEMMA Environment ==
    ASSUME \/ \E id \in Ids : TakeEffect(id)
           \/ \E b \in Boundaries : Crash(b)
           \/ ChangeState \/ Tick \/ StepBack
    PROVE  /\ UNCHANGED <<journal, calls>>
           /\ \A t \in Threads : pc'[t] = "idle" \/ (pc'[t] = pc[t] /\ frame'[t] = frame[t])
  BY DEF TakeEffect, Crash, ChangeState, Tick, StepBack

\* The retry limit holds in every reachable state.
LEMMA RetryInvariance == SharedBoundary => (Spec => []RetryInv)
  <1> SUFFICES ASSUME SharedBoundary PROVE Spec => []RetryInv
    OBVIOUS
  <1>1. Init => RetryInv
    <2>1. DOMAIN <<>> = {}
      OBVIOUS
    <2>2. AttemptSet(<<>>) = {}
      BY <2>1 DEF AttemptSet
    <2>3. Attempts(<<>>) = Cardinality(AttemptSet(<<>>))
      BY DEF AttemptSet, Attempts
    <2>4. Attempts(<<>>) = 0 /\ IsFiniteSet(AttemptSet(<<>>))
      BY <2>2, <2>3, FS_EmptySet
    <2>5. QED
      BY <2>4, ConstantsAssumption DEF Init, RetryInv
  <1>2. TypeInv /\ OnceInv /\ RetryInv /\ [Next]_vars => RetryInv'
    <2> SUFFICES ASSUME TypeInv, OnceInv, RetryInv, [Next]_vars PROVE RetryInv'
      OBVIOUS
    <2>1. CASE UNCHANGED vars
      BY <2>1 DEF vars, RetryInv
    <2>2. CASE \/ \E id \in Ids : TakeEffect(id)
               \/ \E b \in Boundaries : Crash(b)
               \/ ChangeState \/ Tick \/ StepBack
      BY <2>2, Environment DEF RetryInv
    <2>3. CASE Next
      BY <2>2, <2>3, RetryStart, RetryStep DEF Next
    <2>4. QED
      BY <2>1, <2>3
  <1>3. QED
    BY TypeInvariance, OnceInvariance, <1>1, <1>2, PTL DEF Spec
-----------------------------------------------------------------------------
(* The shape of the logs, for all threads that share one instance and a     *)
(* clock that is not set back: latest_state orders by the stamp, so with a  *)
(* clock that steps back it may answer a state that was left long ago.      *)

\* The transitions that the code records.
Follows(from, to) ==
    \/ from = "EXECUTING" /\ to \in {"EXECUTING", "EXECUTED", "FAILED"}
    \/ from = "EXECUTED" /\ to = "COMPENSATING"
    \/ from = "COMPENSATING" /\ to = "COMPENSATED"

Lawful(log) == \A i \in 1..Len(log) - 1 : Follows(log[i].state, log[i + 1].state)

\* A log is in time order and lawful, and its outcome is never contradicted.
ShapeInv ==
    \A id \in Ids :
        /\ Ordered(journal[id])
        /\ Lawful(journal[id])
        /\ Recorded(id, "FAILED") => LastState(journal[id]) = "FAILED"
        /\ Recorded(id, "EXECUTED")
              => LastState(journal[id]) \in {"EXECUTED", "COMPENSATING", "COMPENSATED"}

\* While a thread works on an identity whose log is open, the log stays so,
\* and while it compensates an original that one stays COMPENSATING.
OpenInv ==
    \A t \in Threads, id \in Ids :
        /\ pc[t] \in Attested /\ frame[t].id = id => LastState(journal[id]) = "EXECUTING"
        /\ pc[t] # "idle" /\ frame[t].orig = id => LastState(journal[id]) = "COMPENSATING"

LogInv == ShapeInv /\ OpenInv

\* An event that the last one of its log allows keeps the shape.
LEMMA ShapeAppend ==
    ASSUME TypeInv, ShapeInv, NEW i \in Ids, NEW s \in ExecutionState,
           NEW k \in EventKind, Append_(i, s, k), UNCHANGED now,
           \/ journal[i] = <<>> /\ s = "EXECUTING"
           \/ journal[i] # <<>> /\ Follows(LastState(journal[i]), s)
    PROVE  ShapeInv'
  <1> DEFINE n == Len(journal'[i])
  <1>0. now \in Nat /\ journal[i] \in Seq(CapabilityStateEvent)
    BY DEF TypeInv, TypeOK
  <1>1. Event(s, k, now).at = now /\ Event(s, k, now).state = s
    BY DEF Event
  <1>2. /\ journal'[i][n] = Event(s, k, now)
        /\ DOMAIN journal'[i] = DOMAIN journal[i] \union {n}
        /\ \A j \in DOMAIN journal[i] : journal'[i][j] = journal[i][j]
        /\ DOMAIN journal[i] = 1..Len(journal[i])
        /\ n = Len(journal[i]) + 1 /\ Len(journal[i]) \in Nat
    BY AppendRecords DEF TypeInv
  <1>3. \A j \in Ids : j # i => journal'[j] = journal[j]
    BY AppendRecords DEF TypeInv
  <1>4. /\ LastState(journal'[i]) = s
        /\ \A r \in ExecutionState : Recorded(i, r)' <=> Recorded(i, r) \/ r = s
        /\ \A j \in Ids, r \in ExecutionState :
              j # i => (Recorded(j, r)' <=> Recorded(j, r))
    BY AppendStates DEF TypeInv
  <1> HIDE DEF n
  <1>5. ASSUME NEW j \in Ids, j # i
        PROVE  /\ Ordered(journal[j])' /\ Lawful(journal[j])'
               /\ Recorded(j, "FAILED")' => LastState(journal'[j]) = "FAILED"
               /\ Recorded(j, "EXECUTED")'
                     => LastState(journal'[j]) \in {"EXECUTED", "COMPENSATING", "COMPENSATED"}
    <2>1. journal'[j] = journal[j]
      BY <1>3, <1>5
    <2>2. /\ Recorded(j, "FAILED")' <=> Recorded(j, "FAILED")
          /\ Recorded(j, "EXECUTED")' <=> Recorded(j, "EXECUTED")
      BY <1>4, <1>5 DEF ExecutionState
    <2>3. Ordered(journal[j])' /\ Lawful(journal[j])'
      BY <2>1 DEF ShapeInv, Ordered, Lawful
    <2>4. QED
      BY <2>1, <2>2, <2>3 DEF ShapeInv
  <1>6. Ordered(journal[i])'
    <2>1. \A j \in DOMAIN journal[i] : journal[i][j].at <= now
      BY DEF ShapeInv, Ordered
    <2>2. \A j \in DOMAIN journal'[i] : /\ journal'[i][j].at <= now
                                        /\ journal'[i][j].at <= journal'[i][n].at
      BY <1>0, <1>1, <1>2, <2>1
    <2>3. QED
      BY <2>2 DEF Ordered, n
  <1>7. Lawful(journal[i])'
    <2>1. ASSUME NEW j \in 1..n - 1
          PROVE  Follows(journal'[i][j].state, journal'[i][j + 1].state)
      <3>1. CASE j \in 1..Len(journal[i]) - 1
        <4>1. journal'[i][j] = journal[i][j] /\ journal'[i][j + 1] = journal[i][j + 1]
          BY <1>2, <3>1
        <4>2. Follows(journal[i][j].state, journal[i][j + 1].state)
          BY <3>1 DEF ShapeInv, Lawful
        <4>3. QED
          BY <4>1, <4>2
      <3>2. CASE j = Len(journal[i])
        <4>1. journal'[i][j] = journal[i][Len(journal[i])] /\ j + 1 = n /\ journal[i] # <<>>
          BY <1>2, <3>2
        <4>2. Follows(LastState(journal[i]), s)
          BY <4>1
        <4>3. QED
          BY <1>1, <1>2, <4>1, <4>2 DEF LastState
      <3>3. QED
        BY <1>2, <3>1, <3>2
    <2>2. QED
      BY <2>1 DEF Lawful, n
  <1>8. /\ Recorded(i, "FAILED")' => s = "FAILED"
        /\ Recorded(i, "EXECUTED")' => s \in {"EXECUTED", "COMPENSATING", "COMPENSATED"}
    <2>1. /\ Recorded(i, "FAILED")' <=> Recorded(i, "FAILED") \/ s = "FAILED"
          /\ Recorded(i, "EXECUTED")' <=> Recorded(i, "EXECUTED") \/ s = "EXECUTED"
      BY <1>4 DEF ExecutionState
    <2>2. CASE journal[i] = <<>>
      BY <2>1, <2>2, <1>2 DEF Recorded
    <2>3. CASE journal[i] # <<>>
      <3>1. Follows(LastState(journal[i]), s)
        BY <2>3
      <3>2. /\ Recorded(i, "FAILED") => LastState(journal[i]) = "FAILED"
            /\ Recorded(i, "EXECUTED")
                  => LastState(journal[i]) \in {"EXECUTED", "COMPENSATING", "COMPENSATED"}
        BY DEF ShapeInv
      <3>3. QED
        BY <2>1, <3>1, <3>2 DEF Follows
    <2>4. QED
      BY <2>2, <2>3
  <1>9. QED
    BY <1>4, <1>5, <1>6, <1>7, <1>8 DEF ShapeInv

\* The latest state of a log in time order is its last one.
LEMMA LatestLast ==
    ASSUME TypeInv, ShapeInv, NEW id \in Ids, journal[id] # <<>>
    PROVE  latest_state(journal[id]) = LastState(journal[id])
  <1>1. journal[id] \in Seq(CapabilityStateEvent) /\ Ordered(journal[id])
    BY DEF TypeInv, TypeOK, ShapeInv
  <1>2. QED
    BY <1>1, LatestIsLast

\* A step that leaves the journal alone.
LEMMA LogSilent ==
    ASSUME TypeInv, LogInv, NEW t \in Threads, NEW f, Moves(t, f),
           UNCHANGED <<journal, now>>,
           pc'[t] \in Attested /\ f.id \in Ids => LastState(journal[f.id]) = "EXECUTING",
           pc'[t] # "idle" /\ f.orig \in Ids => LastState(journal[f.orig]) = "COMPENSATING"
    PROVE  LogInv'
  <1>1. ShapeInv'
    BY DEF LogInv, ShapeInv, Ordered, Recorded
  <1>2. OpenInv'
    BY DEF LogInv, OpenInv, Moves
  <1>3. QED
    BY <1>1, <1>2 DEF LogInv

\* A step that appends an event, taken while no other thread is inside.
LEMMA LogAppend ==
    ASSUME TypeInv, LogInv, NEW t \in Threads, NEW f, Moves(t, f),
           \A u \in Threads \ {t} : pc[u] = "idle", UNCHANGED now,
           NEW i \in Ids, NEW s \in ExecutionState, NEW k \in EventKind,
           Append_(i, s, k),
           \/ journal[i] = <<>> /\ s = "EXECUTING"
           \/ journal[i] # <<>> /\ Follows(LastState(journal[i]), s),
           pc'[t] \in Attested /\ f.id \in Ids => LastState(journal'[f.id]) = "EXECUTING",
           pc'[t] # "idle" /\ f.orig \in Ids => LastState(journal'[f.orig]) = "COMPENSATING"
    PROVE  LogInv'
  <1>1. ShapeInv'
    BY ShapeAppend DEF LogInv
  <1>2. OpenInv'
    BY DEF OpenInv, Moves, Attested
  <1>3. QED
    BY <1>1, <1>2 DEF LogInv

\* The head of _execute.
LEMMA LogDispatch ==
    ASSUME TypeInv, LogInv, NEW t \in Threads, NEW f \in Frame, f.id \in Ids,
           f.orig \in Ids => LastState(journal[f.orig]) = "COMPENSATING",
           Dispatches(t, f)
    PROVE  LogInv'
  <1>1. CASE GivesUp(t, f) \/ Knows(t, f) \/ Proposes(t, f) \/ Admits(t, f)
    BY <1>1, LogSilent DEF GivesUp, Knows, Proposes, Admits, Silent, After, Attested
  <1>2. CASE Reconciles(t, f)
    <2>1. LastState(journal[f.id]) = "EXECUTING"
      BY <1>2, LatestLast DEF Reconciles, LogInv
    <2>2. QED
      BY <1>2, <2>1, LogSilent DEF Reconciles, Silent
  <1>3. QED
    BY <1>1, <1>2 DEF Dispatches

\* Every step of a thread keeps the shape of the logs.
LEMMA LogStep ==
    ASSUME SharedBoundary, TypeInv, AheadInv, OnceInv, LogInv, NEW t \in Threads, Step(t)
    PROVE  LogInv'
  <1>f. PICK f : f = frame[t]
    OBVIOUS
  <1>0. /\ pc[t] # "idle" /\ f \in Frame /\ f.id \in Ids /\ f.out \in {"EXECUTED", "FAILED"}
        /\ f.orig \in Ids \union {None}
        /\ pc[t] = "comp_done" => f.orig \in Ids
    <2>1. pc[t] # "idle"
      BY DEF Step, Evaluate, Recheck, BeginExecution, Attest,
             AcquireLease, CallExecutor, Respond, Record, ReconcileAttempt,
             Lookup, Settle, CompensateExecute, CompensateDone
    <2>2. f \in Frame
      BY <1>f, <2>1, WorkFrame
    <2>3. f.orig \in Ids \union {None}
      BY <2>2 DEF Frame
    <2>4. QED
      BY <1>f, <2>1, <2>3, WorkFrame
  <1>1. \A u \in Threads \ {t} : pc[u] = "idle"
    BY <1>0, AloneInside
  <1>2. /\ pc[t] \in Attested => LastState(journal[f.id]) = "EXECUTING" /\ journal[f.id] # <<>>
        /\ f.orig \in Ids => LastState(journal[f.orig]) = "COMPENSATING" /\ journal[f.orig] # <<>>
        /\ pc[t] \in Preparing => journal[f.id] = <<>>
    BY <1>f, <1>0, ConstantsAssumption DEF LogInv, OpenInv, AheadInv, OnceInv
  <1>3. CASE Prepares(t) \/ GivesUp(t, f)
    BY <1>f, <1>2, <1>3, LogSilent DEF Prepares, GivesUp, Silent, Attested
  <1>4. CASE Progresses(t) \/ Invokes(t)
    <2>1. pc[t] \in Attested /\ Moves(t, f) /\ UNCHANGED <<journal, now>>
      BY <1>f, <1>4 DEF Progresses, Invokes, Silent, Attested
    <2>2. QED
      BY <1>2, <2>1, LogSilent
  <1>5. ASSUME NEW s \in {"EXECUTING", "EXECUTED", "FAILED"}, NEW k \in EventKind,
               Append_(f.id, s, k), Moves(t, f), UNCHANGED now,
               \/ journal[f.id] = <<>> /\ s = "EXECUTING"
               \/ journal[f.id] # <<>> /\ LastState(journal[f.id]) = "EXECUTING",
               pc'[t] \in Attested => s = "EXECUTING"
        PROVE  LogInv'
    <2>1. s \in ExecutionState
      BY DEF ExecutionState
    <2>2. /\ LastState(journal'[f.id]) = s
          /\ \A j \in Ids : j # f.id => LastState(journal'[j]) = LastState(journal[j])
      BY <1>0, <1>5, <2>1, AppendStates DEF TypeInv
    <2>3. f.orig \in Ids => f.orig # f.id
      BY <1>2, <1>5
    <2>4. f.orig \in Ids => LastState(journal'[f.orig]) = "COMPENSATING"
      BY <1>2, <2>2, <2>3
    <2>5. \/ journal[f.id] = <<>> /\ s = "EXECUTING"
          \/ journal[f.id] # <<>> /\ Follows(LastState(journal[f.id]), s)
      BY <1>5 DEF Follows
    <2>6. QED
      BY <1>0, <1>1, <1>5, <2>1, <2>2, <2>4, <2>5, LogAppend
  <1>6. CASE Attests(t)
    <2>1. journal[f.id] = <<>> /\ "external_call" \in EventKind
      BY <1>2, <1>6 DEF Attests, Preparing, EventKind
    <2>2. QED
      BY <1>f, <1>5, <1>6, <2>1 DEF Attests
  <1>7. CASE Settles(t)
    <2>1. PICK k \in {"external_outcome", "reconciliation"} : Append_(f.id, f.out, k)
      BY <1>f, <1>7 DEF Settles
    <2>2. /\ Moves(t, f) /\ k \in EventKind /\ pc[t] \in Attested /\ UNCHANGED now
          /\ pc'[t] \notin Attested /\ f.out \in {"EXECUTING", "EXECUTED", "FAILED"}
      BY <1>f, <1>0, <1>7 DEF Settles, EventKind, After, Attested
    <2>3. QED
      BY <1>2, <1>5, <2>1, <2>2
  <1>8. CASE Retries(t)
    <2>1. pc[t] \in Attested /\ "reconciliation_attempt" \in EventKind
      BY <1>8 DEF Retries, Attested, EventKind
    <2>2. QED
      BY <1>f, <1>2, <1>5, <1>8, <2>1 DEF Retries
  <1>9. CASE Finishes(t)
    <2>1. /\ Moves(t, f) /\ pc'[t] = "idle" /\ f.orig \in Ids /\ UNCHANGED now
          /\ Append_(f.orig, "COMPENSATED", "compensation_completed")
      BY <1>f, <1>0, <1>9 DEF Finishes
    <2>2. "COMPENSATED" \in ExecutionState /\ "compensation_completed" \in EventKind
      BY DEF ExecutionState, EventKind
    <2>3. journal[f.orig] # <<>> /\ Follows(LastState(journal[f.orig]), "COMPENSATED")
      BY <1>2, <2>1 DEF Follows
    <2>4. pc'[t] \notin Attested
      BY <2>1 DEF Attested
    <2>5. QED
      BY <1>1, <2>1, <2>2, <2>3, <2>4, LogAppend
  <1>10. CASE Dispatches(t, f)
    BY <1>0, <1>2, <1>10, LogDispatch
  <1>11. QED
    BY <1>f, <1>3, <1>4, <1>6, <1>7, <1>8, <1>9, <1>10, StepKinds DEF Working

\* So does the start of a call.
LEMMA LogStart ==
    ASSUME SharedBoundary, TypeInv, OnceInv, LogInv, NEW t \in Threads,
           Execute(t) \/ Compensate(t)
    PROVE  LogInv'
  <1>1. PICK f \in Frame : Starting(t, f)
    BY StartKinds
  <1>2. f.id \in Ids /\ f.orig \in Ids \union {None} /\ CanEnter(t) /\ None \notin Ids
    BY <1>1, ConstantsAssumption DEF Starting, Frame
  <1>3. CASE FreshCall(f) /\ Dispatches(t, f)
    BY <1>2, <1>3, LogDispatch DEF FreshCall
  <1>4. CASE Begins(t, f)
    <2>1. /\ f.orig \in Ids /\ journal[f.orig] # <<>>
          /\ latest_state(journal[f.orig]) = "EXECUTED"
          /\ Append_(f.orig, "COMPENSATING", "compensation_started")
          /\ Moves(t, f) /\ UNCHANGED now /\ pc'[t] = "comp_exec"
      BY <1>2, <1>4 DEF Begins, Compensable
    <2>2. "COMPENSATING" \in ExecutionState /\ "compensation_started" \in EventKind
      BY DEF ExecutionState, EventKind
    <2>3. Follows(LastState(journal[f.orig]), "COMPENSATING")
      BY <2>1, LatestLast DEF LogInv, Follows
    <2>4. LastState(journal'[f.orig]) = "COMPENSATING"
      BY <2>1, <2>2, AppendStates DEF TypeInv
    <2>5. pc'[t] \notin Attested
      BY <2>1 DEF Attested
    <2>6. \A u \in Threads \ {t} : pc[u] = "idle"
      BY <1>2, Alone
    <2>7. QED
      BY <2>1, <2>2, <2>3, <2>4, <2>5, <2>6, LogAppend
  <1>5. CASE GivesUp(t, f)
    BY <1>5, LogSilent DEF GivesUp, Silent, Attested
  <1>6. QED
    BY <1>1, <1>3, <1>4, <1>5 DEF Starting

\* And every step of the environment, whose clock only goes forward.
LEMMA LogEnvironment ==
    ASSUME ~ClockStepsBack, TypeInv, LogInv,
           \/ \E id \in Ids : TakeEffect(id)
           \/ \E b \in Boundaries : Crash(b)
           \/ ChangeState \/ Tick \/ StepBack
    PROVE  LogInv'
  <1>1. /\ UNCHANGED journal
        /\ \A t \in Threads : pc'[t] = "idle" \/ (pc'[t] = pc[t] /\ frame'[t] = frame[t])
    BY Environment
  <1>2. now \in Nat /\ now' \in Nat /\ now <= now'
    BY DEF TypeInv, TypeOK, TakeEffect, Crash, ChangeState, Tick, StepBack
  <1>3. ASSUME NEW id \in Ids
        PROVE  Ordered(journal[id])'
    <2>1. \A i \in DOMAIN journal[id] : journal[id][i].at \in Nat
      BY Stamps DEF TypeInv, TypeOK
    <2>2. QED
      BY <1>1, <1>2, <2>1 DEF LogInv, ShapeInv, Ordered
  <1>4. ShapeInv'
    BY <1>1, <1>3 DEF LogInv, ShapeInv, Recorded
  <1>5. OpenInv'
    BY <1>1 DEF LogInv, OpenInv, Attested
  <1>6. QED
    BY <1>4, <1>5 DEF LogInv

\* The shape of the logs holds in every reachable state.
LEMMA LogInvariance == SharedBoundary /\ ~ClockStepsBack => (Spec => []LogInv)
  <1> SUFFICES ASSUME SharedBoundary, ~ClockStepsBack PROVE Spec => []LogInv
    OBVIOUS
  <1>1. Init => LogInv
    BY DEF Init, LogInv, ShapeInv, OpenInv, Ordered, Lawful, Recorded, Attested
  <1>2. TypeInv /\ AheadInv /\ OnceInv /\ LogInv /\ [Next]_vars => LogInv'
    <2> SUFFICES ASSUME TypeInv, AheadInv, OnceInv, LogInv, [Next]_vars PROVE LogInv'
      OBVIOUS
    <2>1. CASE UNCHANGED vars
      BY <2>1 DEF vars, LogInv, ShapeInv, OpenInv, Ordered, Recorded
    <2>2. CASE Next
      BY <2>2, LogStart, LogStep, LogEnvironment DEF Next
    <2>3. QED
      BY <2>1, <2>2
  <1>3. QED
    BY TypeInvariance, AheadInvariance, OnceInvariance, <1>1, <1>2, PTL DEF Spec

\* What the log of a request says is well formed, legal, bounded and true, for
\* all threads that share one instance and a clock that is not set back.
THEOREM JournalsAreTrue ==
    SharedBoundary /\ ~ClockStepsBack => (Spec => []JournalIsTrue)
  <1> SUFFICES ASSUME SharedBoundary, ~ClockStepsBack PROVE Spec => []JournalIsTrue
    OBVIOUS
  <1>1. LogInv => JournalFollowsTransitions
    BY DEF LogInv, ShapeInv, Lawful, Follows, JournalFollowsTransitions, TRANSITIONS
  <1>2. RetryInv => ReconciliationBounded
    BY DEF RetryInv, ReconciliationBounded
  <1>3. TypeOK /\ ExecutedTookEffect /\ JournalFollowsTransitions /\ ReconciliationBounded
            => JournalIsTrue
    BY DEF JournalIsTrue
  <1>4. QED
    BY <1>1, <1>2, <1>3, TypeCorrect, RecordedSuccessIsReal, RetryInvariance,
       LogInvariance, PTL

\* Two callers of one identity are never given contradictory outcomes, under
\* the same hypotheses: an answer names an outcome that is on record, and no
\* log records two.
THEOREM AnswersAgree ==
    SharedBoundary /\ ~ClockStepsBack => (Spec => []RepliesAgree)
  <1> SUFFICES ASSUME SharedBoundary, ~ClockStepsBack PROVE Spec => []RepliesAgree
    OBVIOUS
  <1>1. TruthInv /\ LogInv => RepliesAgree
    <2> SUFFICES ASSUME TruthInv, LogInv, NEW t \in Threads, NEW u \in Threads,
                        frame[t].id = frame[u].id,
                        frame[t].reply = "succeeded", frame[u].reply = "failed"
                 PROVE  FALSE
      BY DEF RepliesAgree
    <2>1. frame[t].id \in Ids
      BY DEF TruthInv
    <2>2. PICK id \in Ids : id = frame[t].id
      BY <2>1
    <2>3. Recorded(id, "EXECUTED") /\ Recorded(id, "FAILED")
      BY <2>2 DEF TruthInv
    <2>4. QED
      BY <2>3 DEF LogInv, ShapeInv
  <1>2. QED
    BY <1>1, TruthInvariance, LogInvariance, PTL
-----------------------------------------------------------------------------
(* One compensation per original, where compensations are requested through *)
(* compensate.                                                              *)

\* Clients do not pass a compensation identity to execute themselves, which
\* would run it without the lifecycle of its original being asked.
OnlyThroughCompensate == \A id \in Direct : Origin[id] = None

\* A thread that compensates has the frame of its compensation; an original
\* one of whose compensations was called stays COMPENSATING or COMPENSATED,
\* and only that compensation is ever worked on.
SingleInv ==
    /\ \A t \in Threads : pc[t] # "idle" => frame[t].orig = Origin[frame[t].id]
    /\ \A c \in Ids, undone \in Ids : calls[c] > 0 /\ Origin[c] = undone
          => journal[undone] # <<>> /\ LastState(journal[undone]) \in {"COMPENSATING", "COMPENSATED"}
    /\ \A c \in Ids, t \in Threads :
          calls[c] > 0 /\ Origin[c] # None /\ pc[t] # "idle" /\ frame[t].orig = Origin[c]
              => frame[t].id = c
    /\ AtMostOneCompensation

\* A step that makes no call, taken while no other thread is inside.
LEMMA SingleMove ==
    ASSUME TypeInv, SingleInv, NEW t \in Threads, NEW f, Moves(t, f),
           \A u \in Threads \ {t} : pc[u] = "idle", UNCHANGED calls,
           pc'[t] # "idle" =>
               /\ f.orig = Origin[f.id]
               /\ \A c \in Ids : calls[c] > 0 /\ Origin[c] # None /\ f.orig = Origin[c]
                                     => f.id = c,
           \A c \in Ids, undone \in Ids : calls[c] > 0 /\ Origin[c] = undone
               => journal'[undone] # <<>> /\ LastState(journal'[undone]) \in {"COMPENSATING", "COMPENSATED"}
    PROVE  SingleInv'
  <1>1. AtMostOneCompensation'
    BY DEF SingleInv, AtMostOneCompensation
  <1>2. \A u \in Threads : pc'[u] # "idle" => u = t
    BY DEF Moves
  <1>3. QED
    BY <1>1, <1>2 DEF SingleInv, Moves

\* A step that leaves the journal alone and starts nothing.
LEMMA SingleSilent ==
    ASSUME TypeInv, SingleInv, NEW t \in Threads, NEW f, Moves(t, f),
           \A u \in Threads \ {t} : pc[u] = "idle", UNCHANGED <<journal, calls>>,
           pc'[t] # "idle" =>
               \/ f.orig = None /\ Origin[f.id] = None
               \/ f = frame[t] /\ pc[t] # "idle"
    PROVE  SingleInv'
  <1>1. pc'[t] # "idle" =>
            /\ f.orig = Origin[f.id]
            /\ \A c \in Ids : calls[c] > 0 /\ Origin[c] # None /\ f.orig = Origin[c]
                                  => f.id = c
    BY DEF SingleInv
  <1>2. \A c \in Ids, undone \in Ids : calls[c] > 0 /\ Origin[c] = undone
            => journal'[undone] # <<>> /\ LastState(journal'[undone]) \in {"COMPENSATING", "COMPENSATED"}
    BY DEF SingleInv
  <1>3. QED
    BY <1>1, <1>2, SingleMove

\* A step that appends an event.
LEMMA SingleAppend ==
    ASSUME TypeInv, SingleInv, NEW t \in Threads, NEW f, Moves(t, f),
           \A u \in Threads \ {t} : pc[u] = "idle", UNCHANGED calls,
           NEW i \in Ids, NEW s \in ExecutionState, NEW k \in EventKind,
           Append_(i, s, k),
           \/ s \in {"COMPENSATING", "COMPENSATED"}
           \/ journal[i] = <<>> \/ LastState(journal[i]) = "EXECUTING",
           pc'[t] # "idle" =>
               /\ f.orig = Origin[f.id]
               /\ \A c \in Ids : calls[c] > 0 /\ Origin[c] # None /\ f.orig = Origin[c]
                                     => f.id = c
    PROVE  SingleInv'
  <1>1. /\ LastState(journal'[i]) = s /\ journal'[i] # <<>>
        /\ \A j \in Ids : j # i => journal'[j] = journal[j]
    BY AppendStates, AppendGrows, AppendRecords DEF TypeInv
  <1>2. ASSUME NEW c \in Ids, NEW undone \in Ids, calls[c] > 0, Origin[c] = undone
        PROVE  journal'[undone] # <<>> /\ LastState(journal'[undone]) \in {"COMPENSATING", "COMPENSATED"}
    BY <1>1, <1>2 DEF SingleInv
  <1>3. QED
    BY <1>2, SingleMove

\* Every step of a thread keeps it.
LEMMA SingleStep ==
    ASSUME SharedBoundary, TypeInv, AheadInv, OnceInv, LogInv, SingleInv,
           NEW t \in Threads, Step(t)
    PROVE  SingleInv'
  <1>f. PICK f : f = frame[t]
    OBVIOUS
  <1>0. /\ pc[t] # "idle" /\ f \in Frame /\ f.id \in Ids /\ f.out \in {"EXECUTED", "FAILED"}
        /\ f.orig \in Ids \union {None}
        /\ pc[t] = "comp_done" => f.orig \in Ids
    <2>1. pc[t] # "idle"
      BY DEF Step, Evaluate, Recheck, BeginExecution, Attest,
             AcquireLease, CallExecutor, Respond, Record, ReconcileAttempt,
             Lookup, Settle, CompensateExecute, CompensateDone
    <2>2. f \in Frame
      BY <1>f, <2>1, WorkFrame
    <2>3. f.orig \in Ids \union {None}
      BY <2>2 DEF Frame
    <2>4. QED
      BY <1>f, <2>1, <2>3, WorkFrame
  <1>1. \A u \in Threads \ {t} : pc[u] = "idle"
    BY <1>0, AloneInside
  <1>2. /\ f.orig = Origin[f.id]
        /\ \A c \in Ids : calls[c] > 0 /\ Origin[c] # None /\ f.orig = Origin[c]
                              => f.id = c
    BY <1>f, <1>0 DEF SingleInv
  <1>3. pc[t] \in Attested => LastState(journal[f.id]) = "EXECUTING"
    BY <1>f, <1>0 DEF LogInv, OpenInv
  <1>4. CASE Prepares(t) \/ GivesUp(t, f) \/ Progresses(t)
    BY <1>f, <1>0, <1>1, <1>4, SingleSilent DEF Prepares, GivesUp, Progresses, Silent
  <1>5. CASE Dispatches(t, f)
    BY <1>f, <1>0, <1>1, <1>5, SingleSilent
       DEF Dispatches, GivesUp, Knows, Reconciles, Proposes, Admits, Silent
  <1>6. CASE Attests(t)
    <2>1. journal[f.id] = <<>>
      BY <1>f, <1>6 DEF Attests, OnceInv, Preparing
    <2>2. QED
      BY <1>f, <1>0, <1>1, <1>2, <1>6, <2>1, SingleAppend DEF Attests, ExecutionState, EventKind
  <1>7. CASE Settles(t)
    <2>1. PICK k \in {"external_outcome", "reconciliation"} : Append_(f.id, f.out, k)
      BY <1>f, <1>7 DEF Settles
    <2>2. /\ Moves(t, f) /\ k \in EventKind /\ UNCHANGED calls
          /\ f.out \in ExecutionState /\ LastState(journal[f.id]) = "EXECUTING"
      BY <1>f, <1>0, <1>3, <1>7 DEF Settles, EventKind, ExecutionState, Attested
    <2>3. QED
      BY <1>0, <1>1, <1>2, <2>1, <2>2, SingleAppend
  <1>8. CASE Retries(t)
    <2>1. LastState(journal[f.id]) = "EXECUTING"
      BY <1>3, <1>8 DEF Retries, Attested
    <2>2. QED
      BY <1>f, <1>0, <1>1, <1>2, <1>8, <2>1, SingleAppend DEF Retries, ExecutionState, EventKind
  <1>9. CASE Finishes(t)
    <2>1. /\ Moves(t, f) /\ pc'[t] = "idle" /\ f.orig \in Ids /\ UNCHANGED calls
          /\ Append_(f.orig, "COMPENSATED", "compensation_completed")
      BY <1>f, <1>0, <1>9 DEF Finishes
    <2>2. "COMPENSATED" \in ExecutionState /\ "compensation_completed" \in EventKind
      BY DEF ExecutionState, EventKind
    <2>3. QED
      BY <1>1, <2>1, <2>2, SingleAppend
  <1>10. CASE Invokes(t)
    <2>1. /\ Moves(t, f) /\ UNCHANGED journal /\ f = frame[t]
          /\ calls' = [calls EXCEPT ![f.id] = @ + 1]
      BY <1>f, <1>10 DEF Invokes
    <2>2. /\ \A c \in Ids : c # f.id => calls'[c] = calls[c]
          /\ calls \in [Ids -> Nat]
      BY <2>1 DEF TypeInv, TypeOK
    <2>3. \A undone \in Ids : f.orig = undone
              => journal[undone] # <<>> /\ LastState(journal[undone]) = "COMPENSATING"
      BY <1>f, <1>0, ConstantsAssumption DEF LogInv, OpenInv, AheadInv
    <2>4. \A c \in Ids, undone \in Ids : calls'[c] > 0 /\ Origin[c] = undone
              => journal'[undone] # <<>> /\ LastState(journal'[undone]) \in {"COMPENSATING", "COMPENSATED"}
      BY <1>2, <2>1, <2>2, <2>3 DEF SingleInv
    <2>5. AtMostOneCompensation'
      <3>1. \A c \in Ids : calls[c] > 0 /\ Origin[c] # None /\ Origin[c] = Origin[f.id]
                               => c = f.id
        BY <1>2
      <3>2. QED
        BY <2>2, <3>1 DEF SingleInv, AtMostOneCompensation
    <2>6. \A c \in Ids, u \in Threads :
              calls'[c] > 0 /\ Origin[c] # None /\ pc'[u] # "idle" /\ frame'[u].orig = Origin[c]
                  => frame'[u].id = c
      BY <1>1, <1>2, <2>1, <2>2 DEF Moves
    <2>7. \A u \in Threads : pc'[u] # "idle" => frame'[u].orig = Origin[frame'[u].id]
      BY <1>1, <1>2, <2>1 DEF Moves
    <2>8. QED
      BY <2>4, <2>5, <2>6, <2>7 DEF SingleInv
  <1>11. QED
    BY <1>f, <1>4, <1>5, <1>6, <1>7, <1>8, <1>9, <1>10, StepKinds DEF Working

\* So does the start of a call: an original that can be compensated has no
\* compensation that was called.
LEMMA SingleStart ==
    ASSUME SharedBoundary, OnlyThroughCompensate, TypeInv, OnceInv, LogInv, SingleInv,
           NEW t \in Threads, Execute(t) \/ Compensate(t)
    PROVE  SingleInv'
  <1>1. PICK f \in Frame : Starting(t, f)
    BY StartKinds
  <1>2. f.id \in Ids /\ f.orig \in Ids \union {None} /\ CanEnter(t)
    BY <1>1 DEF Starting, Frame
  <1>3. \A u \in Threads \ {t} : pc[u] = "idle"
    BY <1>2, Alone
  <1>4. CASE FreshCall(f) /\ Dispatches(t, f)
    <2>1. f.orig = None /\ Origin[f.id] = None
      BY <1>4 DEF FreshCall, OnlyThroughCompensate
    <2>2. QED
      BY <1>3, <1>4, <2>1, SingleSilent
         DEF Dispatches, GivesUp, Knows, Reconciles, Proposes, Admits, Silent
  <1>5. CASE FreshCompensation(f) /\ Begins(t, f)
    <2>1. /\ f.orig \in Ids /\ journal[f.orig] # <<>> /\ f.orig = Origin[f.id]
          /\ latest_state(journal[f.orig]) = "EXECUTED"
          /\ Append_(f.orig, "COMPENSATING", "compensation_started")
          /\ Moves(t, f) /\ UNCHANGED calls
      BY <1>2, <1>5 DEF Begins, Compensable, FreshCompensation
    <2>2. "COMPENSATING" \in ExecutionState /\ "compensation_started" \in EventKind
      BY DEF ExecutionState, EventKind
    <2>3. LastState(journal[f.orig]) = "EXECUTED"
      BY <2>1, LatestLast DEF LogInv
    <2>4. \A c \in Ids : ~(calls[c] > 0 /\ f.orig = Origin[c])
      BY <2>1, <2>3 DEF SingleInv
    <2>5. QED
      BY <1>3, <2>1, <2>2, <2>4, SingleAppend
  <1>6. CASE GivesUp(t, f)
    BY <1>3, <1>6, SingleSilent DEF GivesUp, Silent
  <1>7. QED
    BY <1>1, <1>4, <1>5, <1>6 DEF Starting

\* It holds in every reachable state.
LEMMA SingleInvariance ==
    SharedBoundary /\ ~ClockStepsBack /\ OnlyThroughCompensate => (Spec => []SingleInv)
  <1> SUFFICES ASSUME SharedBoundary, ~ClockStepsBack, OnlyThroughCompensate
               PROVE  Spec => []SingleInv
    OBVIOUS
  <1>1. Init => SingleInv
    BY DEF Init, SingleInv, AtMostOneCompensation
  <1>2. TypeInv /\ AheadInv /\ OnceInv /\ LogInv /\ SingleInv /\ [Next]_vars => SingleInv'
    <2> SUFFICES ASSUME TypeInv, AheadInv, OnceInv, LogInv, SingleInv, [Next]_vars
                 PROVE  SingleInv'
      OBVIOUS
    <2>1. CASE UNCHANGED vars
      BY <2>1 DEF vars, SingleInv, AtMostOneCompensation
    <2>2. CASE \/ \E id \in Ids : TakeEffect(id)
               \/ \E b \in Boundaries : Crash(b)
               \/ ChangeState \/ Tick \/ StepBack
      BY <2>2, Environment DEF SingleInv, AtMostOneCompensation
    <2>3. CASE Next
      BY <2>2, <2>3, SingleStart, SingleStep DEF Next
    <2>4. QED
      BY <2>1, <2>3
  <1>3. QED
    BY TypeInvariance, AheadInvariance, OnceInvariance, LogInvariance, <1>1, <1>2, PTL DEF Spec

\* What the log says of a compensation is true, and an original is compensated
\* at most once, whatever reasons callers give: for all threads that share one
\* instance, a clock that is not set back, and compensations that are requested
\* through compensate and not as proposals.
THEOREM CompensationsAreSafe ==
    SharedBoundary /\ ~ClockStepsBack /\ OnlyThroughCompensate /\ ShadowFree
        => (Spec => []CompensationIsSafe)
  <1> SUFFICES ASSUME SharedBoundary, ~ClockStepsBack, OnlyThroughCompensate, ShadowFree
               PROVE  Spec => []CompensationIsSafe
    OBVIOUS
  <1>1. RanInv /\ SingleInv => CompensationIsSafe
    BY DEF RanInv, SingleInv, CompensationIsSafe
  <1>2. QED
    BY <1>1, RanInvariance, SingleInvariance, PTL

-----------------------------------------------------------------------------
(* The refinement of CapabilityContract.                                    *)

\* A thread about to record a COMPENSATED event works on a compensation whose
\* log says EXECUTED, and nothing after that.
DoneInv ==
    \A t \in Threads, id \in Ids : pc[t] = "comp_done" /\ frame[t].id = id
        => journal[id] # <<>> /\ LastState(journal[id]) = "EXECUTED"

\* Every step of a thread keeps it.
LEMMA DoneStep ==
    ASSUME SharedBoundary, TypeInv, OnceInv, LogInv, RanInv', NEW t \in Threads,
           Step(t) \/ Execute(t) \/ Compensate(t)
    PROVE  DoneInv'
  <1>1. PICK f \in Frame :
            /\ \A u \in Threads \ {t} : pc[u] = "idle"
            /\ f.id \in Ids /\ f.out \in {"EXECUTED", "FAILED"}
            /\ \/ f = frame[t] /\ pc[t] # "idle" /\ Working(t)
               \/ Starting(t, f)
    <2>1. CASE Step(t)
      <3>1. pc[t] # "idle"
        BY <2>1 DEF Step, Evaluate, Recheck, BeginExecution, Attest,
               AcquireLease, CallExecutor, Respond, Record, ReconcileAttempt,
               Lookup, Settle, CompensateExecute, CompensateDone
      <3>2. QED
        BY <2>1, <3>1, WorkFrame, AloneInside, StepKinds
    <2>2. CASE Execute(t) \/ Compensate(t)
      <3>1. PICK g \in Frame : Starting(t, g)
        BY <2>2, StartKinds
      <3>2. g.id \in Ids /\ CanEnter(t) /\ g.out \in {"EXECUTED", "FAILED"}
        BY <3>1 DEF Starting, Frame
      <3>3. QED
        BY <3>1, <3>2, Alone
    <2>3. QED
      BY <2>1, <2>2
  <1>2. ASSUME Moves(t, f),
               pc'[t] = "comp_done" =>
                   journal'[f.id] # <<>> /\ LastState(journal'[f.id]) = "EXECUTED"
        PROVE  DoneInv'
    BY <1>1, <1>2 DEF DoneInv, Moves
  <1>3. CASE \/ /\ f = frame[t]
                /\ \/ Prepares(t) \/ Attests(t) \/ Progresses(t) \/ Invokes(t)
                   \/ Retries(t) \/ Finishes(t)
             \/ GivesUp(t, f)
             \/ Begins(t, f)
    <2>1. Moves(t, f) /\ pc'[t] # "comp_done"
      BY <1>3 DEF Prepares, GivesUp, Attests, Progresses, Invokes, Retries, Finishes, Begins
    <2>2. QED
      BY <1>2, <2>1
  <1>4. CASE Settles(t) /\ f = frame[t]
    <2>1. PICK k \in {"external_outcome", "reconciliation"} : Append_(f.id, f.out, k)
      BY <1>4 DEF Settles
    <2>2. k \in EventKind /\ f.out \in ExecutionState
      BY <1>1 DEF EventKind, ExecutionState
    <2>3. LastState(journal'[f.id]) = f.out /\ journal'[f.id] # <<>>
      BY <1>1, <2>1, <2>2, AppendStates, AppendGrows DEF TypeInv
    <2>4. Moves(t, f) /\ (pc'[t] = "comp_done" => f.out = "EXECUTED")
      BY <1>4 DEF Settles
    <2>5. QED
      BY <1>2, <2>3, <2>4
  <1>5. CASE Dispatches(t, f)
    <2>1. CASE Knows(t, f)
      <3>1. LastState(journal[f.id]) = "EXECUTED" /\ journal[f.id] # <<>>
        BY <1>1, <2>1, LatestLast DEF Knows, LogInv
      <3>2. QED
        BY <1>2, <2>1, <3>1 DEF Knows, Silent
    <2>2. CASE Proposes(t, f)
      <3>1. pc'[t] # "comp_done"
        BY <2>2 DEF Proposes, RanInv
      <3>2. QED
        BY <1>2, <2>2, <3>1 DEF Proposes
    <2>3. CASE GivesUp(t, f) \/ Reconciles(t, f) \/ Admits(t, f)
      <3>1. Moves(t, f) /\ pc'[t] # "comp_done"
        BY <2>3 DEF GivesUp, Reconciles, Admits
      <3>2. QED
        BY <1>2, <3>1
    <2>4. QED
      BY <1>5, <2>1, <2>2, <2>3 DEF Dispatches
  <1>6. CASE f = frame[t] /\ Working(t)
    <2>1. CASE pc[t] = "comp_exec" /\ Dispatches(t, frame[t])
      <3>1. Dispatches(t, f)
        BY <1>6, <2>1
      <3>2. QED
        BY <1>5, <3>1
    <2>2. CASE GivesUp(t, frame[t])
      <3>1. GivesUp(t, f)
        BY <1>6, <2>2
      <3>2. QED
        BY <1>3, <3>1
    <2>3. QED
      BY <1>3, <1>4, <1>6, <2>1, <2>2 DEF Working
  <1>7. CASE Starting(t, f)
    BY <1>3, <1>5, <1>7 DEF Starting
  <1>8. QED
    BY <1>1, <1>6, <1>7

\* The lifecycle state of each identity and whether it was called, as the
\* contract sees them.
Life == [id \in Ids |-> IF journal[id] = <<>> THEN "NEW" ELSE LastState(journal[id])]
Called == [id \in Ids |-> calls[id] > 0]

\* An identity was called when its call count is positive.
LEMMA CalledMeans == ASSUME NEW i \in Ids PROVE Called[i] <=> calls[i] > 0
  BY Zenon DEF Called

\* No identity is called at first.
LEMMA NoneCalled ==
    calls = [id \in Ids |-> 0] => [id \in Ids |-> calls[id] > 0] = [id \in Ids |-> FALSE]
  <1> HAVE calls = [id \in Ids |-> 0]
  <1>1. ASSUME NEW id \in Ids PROVE (calls[id] > 0) = FALSE
    BY SMT
  <1>2. QED
    BY <1>1, Zenon

\* A call marks its identity as called.
LEMMA CallMarks ==
    ASSUME NEW i \in Ids, calls \in [Ids -> Nat], calls' = [calls EXCEPT ![i] = @ + 1]
    PROVE  Called' = [Called EXCEPT ![i] = TRUE]
  <1>1. ASSUME NEW j \in Ids
        PROVE  Called'[j] = (calls'[j] > 0) /\ Called[j] = (calls[j] > 0)
    BY Zenon DEF Called
  <1>2. calls'[i] > 0 /\ \A j \in Ids : j # i => calls'[j] = calls[j]
    BY SMT
  <1>3. (calls'[i] > 0) = TRUE
    BY <1>2, Zenon
  <1>4. ASSUME NEW j \in Ids PROVE Called'[j] = IF j = i THEN TRUE ELSE Called[j]
    <2>1. CASE j = i
      BY <1>1, <1>3, <2>1, Zenon
    <2>2. CASE j # i
      BY <1>1, <1>2, <2>2, Zenon
    <2>3. QED
      BY <2>1, <2>2
  <1>5. Called' = [j \in Ids |-> Called'[j]]
    BY Zenon DEF Called
  <1>6. [Called EXCEPT ![i] = TRUE] = [j \in Ids |-> IF j = i THEN TRUE ELSE Called[j]]
    BY Zenon DEF Called
  <1>7. QED
    BY <1>4, <1>5, <1>6, Zenon

\* An appended event moves one identity.
LEMMA LifeAppend ==
    ASSUME TypeInv, NEW i \in Ids, NEW s \in ExecutionState, NEW k \in EventKind,
           Append_(i, s, k)
    PROVE  Life' = [Life EXCEPT ![i] = s]
  <1>1. /\ journal'[i] # <<>> /\ LastState(journal'[i]) = s
        /\ \A j \in Ids : j # i => journal'[j] = journal[j]
    BY AppendStates, AppendGrows, AppendRecords DEF TypeInv
  <1>2. QED
    BY <1>1 DEF Life

\* The moves of the contract, on Life and Called.
ContractMove ==
    \E id \in Ids :
        \/ Life[id] = "NEW" /\ Life' = [Life EXCEPT ![id] = "EXECUTING"] /\ Called' = Called
        \/ /\ Life[id] = "EXECUTING" /\ ~Called[id]
           /\ Called' = [Called EXCEPT ![id] = TRUE] /\ Life' = Life
        \/ /\ Life[id] = "EXECUTING" /\ Called[id]
           /\ Life' = [Life EXCEPT ![id] = "EXECUTED"] /\ Called' = Called
        \/ /\ Life[id] = "EXECUTING"
           /\ Life' = [Life EXCEPT ![id] = "FAILED"] /\ Called' = Called
        \/ /\ Life[id] = "EXECUTED"
           /\ Life' = [Life EXCEPT ![id] = "COMPENSATING"] /\ Called' = Called
        \/ /\ Life[id] = "COMPENSATING"
           /\ Life' = [Life EXCEPT ![id] = "COMPENSATED"] /\ Called' = Called
           /\ \E c \in Ids : Origin[c] = id /\ Life[c] = "EXECUTED"

\* They are the contract's steps.
LEMMA ContractMoves == ContractMove \/ (Life' = Life /\ Called' = Called)
                           => [C!ContractNext]_(C!contractVars)
  BY DEF ContractMove, Life, Called, C!ContractNext, C!contractVars, C!AttestId,
         C!CallId, C!SettleId, C!BeginCompensation, C!FinishCompensation, C!Move

\* Every step of a thread is a step of the contract or none.
LEMMA ContractStep ==
    ASSUME SharedBoundary, TypeInv, AheadInv, OnceInv, TruthInv, LogInv, RanInv, DoneInv,
           NEW t \in Threads, Step(t)
    PROVE  ContractMove \/ (Life' = Life /\ Called' = Called)
  <1>f. PICK f : f = frame[t]
    OBVIOUS
  <1>0. /\ pc[t] # "idle" /\ f.id \in Ids /\ f.out \in {"EXECUTED", "FAILED"}
        /\ pc[t] = "comp_done" => f.orig \in Ids
    <2>1. pc[t] # "idle"
      BY DEF Step, Evaluate, Recheck, BeginExecution, Attest,
             AcquireLease, CallExecutor, Respond, Record, ReconcileAttempt,
             Lookup, Settle, CompensateExecute, CompensateDone
    <2>2. QED
      BY <1>f, <2>1, WorkFrame
  <1>1. pc[t] \in Attested => Life[f.id] = "EXECUTING"
    BY <1>f, <1>0 DEF LogInv, OpenInv, AheadInv, Life
  <1>2. \A s \in ExecutionState, k \in EventKind :
            Append_(f.id, s, k) => Life' = [Life EXCEPT ![f.id] = s]
    BY <1>0, LifeAppend
  <1>3. UNCHANGED calls => Called' = Called
    BY DEF Called
  <1>4. UNCHANGED journal => Life' = Life
    BY DEF Life
  <1>5. CASE Prepares(t) \/ GivesUp(t, f) \/ Progresses(t) \/ Dispatches(t, f)
    BY <1>3, <1>4, <1>5 DEF Prepares, GivesUp, Progresses, Dispatches, Knows,
       Reconciles, Proposes, Admits, Silent
  <1>6. CASE Attests(t)
    <2>1. Life[f.id] = "NEW"
      BY <1>f, <1>0, <1>6 DEF Attests, OnceInv, Preparing, Life
    <2>2. Life' = [Life EXCEPT ![f.id] = "EXECUTING"] /\ Called' = Called
      BY <1>f, <1>2, <1>3, <1>6 DEF Attests, ExecutionState, EventKind
    <2>3. QED
      BY <1>0, <2>1, <2>2 DEF ContractMove
  <1>7. CASE Invokes(t)
    <2>1. pc[t] = "call" /\ UNCHANGED journal /\ calls' = [calls EXCEPT ![f.id] = @ + 1]
      BY <1>f, <1>7 DEF Invokes
    <2>2. calls[f.id] = 0 /\ calls \in [Ids -> Nat]
      BY <1>f, <2>1 DEF OnceInv, Calling, TypeInv, TypeOK
    <2>3. ~Called[f.id] /\ Called' = [Called EXCEPT ![f.id] = TRUE]
      <3>1. ~(calls[f.id] > 0)
        BY <2>2
      <3>2. QED
        BY <1>0, <2>1, <2>2, <3>1, CalledMeans, CallMarks
    <2>4. Life[f.id] = "EXECUTING" /\ Life' = Life
      BY <1>1, <1>4, <2>1 DEF Attested
    <2>5. QED
      BY <1>0, <2>3, <2>4 DEF ContractMove
  <1>8. CASE Settles(t)
    <2>1. PICK k \in {"external_outcome", "reconciliation"} : Append_(f.id, f.out, k)
      BY <1>f, <1>8 DEF Settles
    <2>2. /\ k \in EventKind /\ f.out \in ExecutionState /\ pc[t] \in Attested
          /\ f.out = "EXECUTED" => effects[f.id] > 0
          /\ Called' = Called
      BY <1>f, <1>0, <1>3, <1>8 DEF Settles, EventKind, ExecutionState, Attested, TruthInv
    <2>3. f.out = "EXECUTED" => Called[f.id]
      <3>1. effects[f.id] \in Nat /\ calls[f.id] \in Nat /\ effects[f.id] <= calls[f.id]
        BY <1>0 DEF TypeInv, TypeOK, TruthInv
      <3>2. QED
        BY <1>0, <2>2, <3>1, CalledMeans
    <2>4. Life[f.id] = "EXECUTING" /\ Life' = [Life EXCEPT ![f.id] = f.out]
      BY <1>1, <1>2, <2>1, <2>2
    <2>5. QED
      BY <1>0, <2>2, <2>3, <2>4 DEF ContractMove
  <1>9. CASE Retries(t)
    <2>1. Life[f.id] = "EXECUTING" /\ Called' = Called
      BY <1>1, <1>3, <1>9 DEF Retries, Attested
    <2>2. Life' = [Life EXCEPT ![f.id] = "EXECUTING"]
      BY <1>f, <1>2, <1>9 DEF Retries, ExecutionState, EventKind
    <2>3. Life' = Life
      BY <2>1, <2>2 DEF Life
    <2>4. QED
      BY <2>1, <2>3
  <1>10. CASE Finishes(t)
    <2>1. /\ pc[t] = "comp_done" /\ f.orig \in Ids /\ Called' = Called
          /\ Append_(f.orig, "COMPENSATED", "compensation_completed")
      BY <1>f, <1>0, <1>3, <1>10 DEF Finishes
    <2>2. "COMPENSATED" \in ExecutionState /\ "compensation_completed" \in EventKind
      BY DEF ExecutionState, EventKind
    <2>3. Life' = [Life EXCEPT ![f.orig] = "COMPENSATED"]
      BY <2>1, <2>2, LifeAppend
    <2>4. Life[f.orig] = "COMPENSATING"
      BY <1>f, <1>0, <2>1, ConstantsAssumption DEF LogInv, OpenInv, AheadInv, Life
    <2>5. Origin[f.id] = f.orig /\ Life[f.id] = "EXECUTED"
      BY <1>f, <1>0, <2>1 DEF RanInv, DoneInv, Life
    <2>6. QED
      BY <1>0, <2>1, <2>3, <2>4, <2>5 DEF ContractMove
  <1>11. QED
    BY <1>f, <1>5, <1>6, <1>7, <1>8, <1>9, <1>10, StepKinds DEF Working

\* So is the start of a call.
LEMMA ContractStart ==
    ASSUME TypeInv, LogInv, NEW t \in Threads, Execute(t) \/ Compensate(t)
    PROVE  ContractMove \/ (Life' = Life /\ Called' = Called)
  <1>1. PICK f \in Frame : Starting(t, f)
    BY StartKinds
  <1>2. f.orig \in Ids \union {None}
    BY DEF Frame
  <1>3. CASE Dispatches(t, f) \/ GivesUp(t, f)
    BY <1>3 DEF Dispatches, GivesUp, Knows, Reconciles, Proposes, Admits, Silent, Life, Called
  <1>4. CASE Begins(t, f)
    <2>1. /\ f.orig \in Ids /\ journal[f.orig] # <<>> /\ UNCHANGED calls
          /\ latest_state(journal[f.orig]) = "EXECUTED"
          /\ Append_(f.orig, "COMPENSATING", "compensation_started")
      BY <1>2, <1>4 DEF Begins, Compensable
    <2>2. "COMPENSATING" \in ExecutionState /\ "compensation_started" \in EventKind
      BY DEF ExecutionState, EventKind
    <2>3. Life[f.orig] = "EXECUTED"
      BY <2>1, LatestLast DEF LogInv, Life
    <2>4. Life' = [Life EXCEPT ![f.orig] = "COMPENSATING"] /\ Called' = Called
      BY <2>1, <2>2, LifeAppend DEF Called
    <2>5. QED
      BY <2>1, <2>3, <2>4 DEF ContractMove
  <1>5. QED
    BY <1>1, <1>3, <1>4 DEF Starting

\* GovernedExecutor keeps the contract of capabilities.md: an identity is
\* attested once, called at most once and only while attested, settled once,
\* and compensated only by a compensation that executed.
THEOREM ContractIsKept ==
    SharedBoundary /\ ~ClockStepsBack /\ ShadowFree => (Spec => ImplementsContract)
  <1> SUFFICES ASSUME SharedBoundary, ~ClockStepsBack, ShadowFree
               PROVE  Spec => ImplementsContract
    OBVIOUS
  <1> DEFINE Inv == /\ TypeInv /\ AheadInv /\ OnceInv /\ TruthInv
                    /\ LogInv /\ RanInv /\ DoneInv
  <1>1. Init => C!ContractInit
    BY NoneCalled DEF Init, C!ContractInit
  <1>2. Init => DoneInv
    BY DEF Init, DoneInv
  <1>3. /\ TypeInv /\ OnceInv /\ LogInv /\ DoneInv /\ [Next]_vars /\ RanInv'
        => DoneInv'
    <2> SUFFICES ASSUME TypeInv, OnceInv, LogInv, DoneInv, [Next]_vars, RanInv'
                 PROVE  DoneInv'
      OBVIOUS
    <2>1. CASE UNCHANGED vars
      BY <2>1 DEF vars, DoneInv
    <2>2. CASE \/ \E id \in Ids : TakeEffect(id)
               \/ \E b \in Boundaries : Crash(b)
               \/ ChangeState \/ Tick \/ StepBack
      BY <2>2, Environment DEF DoneInv
    <2>3. CASE Next
      BY <2>2, <2>3, DoneStep DEF Next
    <2>4. QED
      BY <2>1, <2>3
  <1>4. Inv /\ [Next]_vars => [C!ContractNext]_(C!contractVars)
    <2> SUFFICES ASSUME Inv, [Next]_vars
                 PROVE  ContractMove \/ (Life' = Life /\ Called' = Called)
      BY ContractMoves
    <2>1. CASE UNCHANGED vars
      BY <2>1 DEF vars, Life, Called
    <2>2. CASE \/ \E id \in Ids : TakeEffect(id)
               \/ \E b \in Boundaries : Crash(b)
               \/ ChangeState \/ Tick \/ StepBack
      BY <2>2, Environment DEF Life, Called
    <2>3. CASE Next
      BY <2>2, <2>3, ContractStart, ContractStep DEF Next
    <2>4. QED
      BY <2>1, <2>3
  <1>5. QED
    BY <1>1, <1>2, <1>3, <1>4, TypeInvariance, AheadInvariance, OnceInvariance,
       TruthInvariance, LogInvariance, RanInvariance, PTL
       DEF Spec, ImplementsContract, C!Contract

(***************************************************************************)
(* What a caller of the MCP boundary is told.                              *)
(***************************************************************************)
\* What an approved call was approved for.
ApprovedFor(f) ==
    /\ f.appr # None /\ f.appr.decision = "approved"
    /\ f.appr.id = f.id /\ f.appr.pre = f.rep
    /\ f.id \in Preconditioned => f.rep \in AllowStates

\* A thread past its precondition check holds a report that allowed the call,
\* a supervised one past its approval check an approval for that report; and
\* only a compensation runs inside compensate.
Supervised(p, f) ==
    /\ p \in {"recheck", "begin"} /\ f.id \in Preconditioned => f.rep \in AllowStates
    /\ p \in {"attest", "lease", "call", "await", "record"} /\ f.mode = "SUPERVISED"
           => ApprovedFor(f)
    /\ p = "comp_exec" => f.orig # None

SupInv == \A t \in Threads : Supervised(pc[t], frame[t])

\* A step of a thread keeps it, if the thread is left as it should be.
LEMMA SupMove ==
    ASSUME SupInv, NEW t \in Threads, NEW f, Moves(t, f), Supervised(pc'[t], frame'[t])
    PROVE  SupInv'
  BY DEF SupInv, Moves

\* The head of _execute keeps it.
LEMMA SupDispatch ==
    ASSUME SupInv, NEW t \in Threads, NEW f, Dispatches(t, f)
    PROVE  SupInv'
  <1>1. Moves(t, f) /\ pc'[t] \in {"idle", "comp_done", "reconcile", "evaluate"}
    BY DEF Dispatches, GivesUp, Knows, Reconciles, Proposes, Admits, After
  <1>2. Supervised(pc'[t], frame'[t])
    BY <1>1 DEF Supervised
  <1>3. QED
    BY <1>1, <1>2, SupMove

\* So does every step of a thread inside the boundary.
LEMMA SupStep ==
    ASSUME TypeInv, SupInv, NEW t \in Threads, Step(t)
    PROVE  SupInv'
  <1>f. PICK f : f = frame[t]
    OBVIOUS
  <1>1. Supervised(pc[t], f)
    BY <1>f DEF SupInv
  <1>2. CASE Prepares(t)
    <2>1. Moves(t, f) /\ pc'[t] \in {"recheck", "begin", "attest"}
      BY <1>f, <1>2 DEF Prepares
    <2>2. CASE pc'[t] = "attest"
      <3>1. /\ pc[t] = "begin" /\ frame'[t] = f
            /\ f.mode = "SUPERVISED" => Approved(f)
        BY <1>f, <1>2, <2>2 DEF Prepares
      <3>2. Supervised(pc'[t], frame'[t])
        BY <1>1, <2>2, <3>1 DEF Supervised, ApprovedFor, Approved, validate_approval
      <3>3. QED
        BY <2>1, <3>2, SupMove
    <2>3. CASE pc'[t] # "attest"
      <3>1. frame'[t].id = f.id /\ (f.id \in Preconditioned => frame'[t].rep \in AllowStates)
        BY <1>f, <1>2, <2>1, <2>3 DEF Prepares, Moves
      <3>2. Supervised(pc'[t], frame'[t])
        BY <2>1, <2>3, <3>1 DEF Supervised
      <3>3. QED
        BY <2>1, <3>2, SupMove
    <2>4. QED
      BY <2>2, <2>3
  <1>3. CASE GivesUp(t, f) \/ Settles(t) \/ Retries(t) \/ Finishes(t)
    <2>1. Moves(t, f) /\ pc'[t] \in {"idle", "comp_done", "lookup"}
      BY <1>f, <1>3 DEF GivesUp, Settles, Retries, Finishes, After
    <2>2. Supervised(pc'[t], frame'[t])
      BY <2>1 DEF Supervised
    <2>3. QED
      BY <2>1, <2>2, SupMove
  <1>4. CASE Attests(t) \/ Invokes(t)
    <2>1. /\ Moves(t, f) /\ frame'[t] = f
          /\ pc[t] \in {"attest", "call"} /\ pc'[t] \in {"lease", "await"}
      BY <1>f, <1>4 DEF Attests, Invokes
    <2>2. Supervised(pc'[t], frame'[t])
      BY <1>1, <2>1 DEF Supervised
    <2>3. QED
      BY <2>1, <2>2, SupMove
  <1>5. CASE Progresses(t)
    <2>1. /\ Moves(t, f)
          /\ \/ pc'[t] = "settle"
             \/ pc[t] \in {"lease", "await"} /\ pc'[t] \in {"call", "record"}
          /\ frame'[t].mode = f.mode /\ frame'[t].rep = f.rep
      BY <1>f, <1>5 DEF Progresses
    <2>2. frame'[t].id = f.id /\ frame'[t].appr = f.appr
      BY <2>1 DEF Moves
    <2>3. Supervised(pc'[t], frame'[t])
      BY <1>1, <2>1, <2>2 DEF Supervised, ApprovedFor
    <2>4. QED
      BY <2>1, <2>3, SupMove
  <1>6. CASE Dispatches(t, f)
    BY <1>6, SupDispatch
  <1>7. QED
    BY <1>f, <1>2, <1>3, <1>4, <1>5, <1>6, StepKinds DEF Working

\* So does the start of a call.
LEMMA SupStart ==
    ASSUME TypeInv, SupInv, NEW t \in Threads, Execute(t) \/ Compensate(t)
    PROVE  SupInv'
  <1>1. PICK f \in Frame : Starting(t, f)
    BY StartKinds
  <1>2. CASE Begins(t, f) \/ GivesUp(t, f)
    <2>1. Moves(t, f) /\ (pc'[t] = "idle" \/ (pc'[t] = "comp_exec" /\ frame'[t].orig # None))
      BY <1>2 DEF Begins, GivesUp
    <2>2. Supervised(pc'[t], frame'[t])
      BY <2>1 DEF Supervised
    <2>3. QED
      BY <2>1, <2>2, SupMove
  <1>3. QED
    BY <1>1, <1>2, SupDispatch DEF Starting

\* Supervised calls are approved in every reachable state.
LEMMA SupInvariance == Spec => []SupInv
  <1>1. Init => SupInv
    BY DEF Init, SupInv, Supervised
  <1>2. TypeInv /\ SupInv /\ [Next]_vars => SupInv'
    <2> SUFFICES ASSUME TypeInv, SupInv, [Next]_vars PROVE SupInv'
      OBVIOUS
    <2>1. CASE UNCHANGED vars
      BY <2>1 DEF vars, SupInv
    <2>2. ASSUME NEW t \in Threads, Step(t) \/ Execute(t) \/ Compensate(t)
          PROVE  SupInv'
      BY <2>2, SupStep, SupStart
    <2>3. ASSUME \/ \E id \in Ids : TakeEffect(id)
                 \/ \E b \in Boundaries : Crash(b)
                 \/ ChangeState \/ Tick \/ StepBack
          PROVE  SupInv'
      <3>1. \A t \in Threads : pc'[t] = "idle" \/ (pc'[t] = pc[t] /\ frame'[t] = frame[t])
        BY <2>3, Environment
      <3>2. \A t \in Threads : pc'[t] = "idle" => Supervised(pc'[t], frame'[t])
        BY DEF Supervised
      <3>3. QED
        BY <3>1, <3>2 DEF SupInv
    <2>4. QED
      BY <2>1, <2>2, <2>3 DEF Next
  <1>3. QED
    BY TypeInvariance, <1>1, <1>2, PTL DEF Spec

\* However calls, approvals, expiry and the observed state race, a supervised
\* call starts only with an approval of this request and of the state that the
\* check just before it read (begin_execution).
THEOREM SupervisionHolds == Spec => []SupervisedCallIsApproved
  <1>1. SupInv => SupervisedCallIsApproved
    BY DEF SupInv, Supervised, ApprovedFor, SupervisedCallIsApproved
  <1>2. QED
    BY SupInvariance, <1>1, PTL
-----------------------------------------------------------------------------
(* The status that an MCP caller is given. *)

\* The tool passes the boundary the mode that it resolved itself.
ModesAreResolved ==
    \A id \in Direct, m \in Modes : resolve_autonomy_mode(Declared[id], m) = m

\* What the status claims of one request.
StatusIsTrue(t) ==
    LET f == frame'[t]
        status == Mcp!Envelope(f.reply, f.mode)
    IN  /\ "pending" \in status => calls'[f.id] = 0 /\ journal'[f.id] = <<>>
        /\ "executed" \in status => /\ \E i \in DOMAIN journal'[f.id] :
                                           /\ journal'[f.id][i].state \in {"EXECUTED", "FAILED"}
                                           /\ f.reply = ResultOf(journal'[f.id][i].state)
                                    /\ f.reply = "succeeded" => effects'[f.id] > 0

\* What a returning call answers: an outcome of its own or a known one is in
\* the journal, so only refusals and proposals are left to look at.
LEMMA StatusOf ==
    ASSUME TruthInv', NEW t \in Threads,
           frame'[t].reply = "refused" /\ frame'[t].mode = "SUPERVISED"
               => calls'[frame'[t].id] = 0 /\ journal'[frame'[t].id] = <<>>,
           frame'[t].reply = "proposed" => frame'[t].mode = "SHADOW"
    PROVE  StatusIsTrue(t)
  <1> DEFINE f == frame'[t]
             status == Mcp!Envelope(f.reply, f.mode)
  <1>1. "pending" \in status => f.reply = "refused" /\ f.mode = "SUPERVISED"
    BY DEF Mcp!Envelope
  <1>2. /\ "executed" \in status => f.reply \in {"succeeded", "failed", "proposed"}
        /\ "executed" \in status => f.mode # "SHADOW"
    BY DEF Mcp!Envelope
  <1> HIDE DEF status
  <1>3. ASSUME f.reply = "succeeded"
        PROVE  /\ effects'[f.id] > 0
               /\ \E i \in DOMAIN journal'[f.id] : journal'[f.id][i].state = "EXECUTED"
    <2>1. PICK id \in Ids : id = f.id
      BY <1>3 DEF TruthInv
    <2>2. Recorded(id, "EXECUTED")' /\ effects'[id] > 0
      BY <1>3, <2>1 DEF TruthInv
    <2>3. QED
      BY <2>1, <2>2 DEF Recorded
  <1>4. ASSUME f.reply = "failed"
        PROVE  \E i \in DOMAIN journal'[f.id] : journal'[f.id][i].state = "FAILED"
    <2>1. PICK id \in Ids : id = f.id
      BY <1>4 DEF TruthInv
    <2>2. Recorded(id, "FAILED")'
      BY <1>4, <2>1 DEF TruthInv
    <2>3. QED
      BY <2>1, <2>2 DEF Recorded
  <1>5. CASE f.reply = "succeeded"
    BY <1>1, <1>2, <1>3, <1>5 DEF StatusIsTrue, ResultOf, status
  <1>6. CASE f.reply = "failed"
    BY <1>1, <1>2, <1>4, <1>6 DEF StatusIsTrue, ResultOf, status
  <1>7. CASE f.reply \notin {"succeeded", "failed"}
    BY <1>1, <1>2, <1>7 DEF StatusIsTrue, status
  <1>8. QED
    BY <1>5, <1>6, <1>7

\* A call that ends refused was never journalled or called.
LEMMA RefusedIsUntouched ==
    ASSUME TypeInv, AheadInv, NEW t \in Threads, NEW f, f.id \in Ids, GivesUp(t, f),
           f.orig = None, pc[t] \in Preparing /\ f = frame[t] => journal[f.id] = <<>>,
           frame'[t].reply = "refused"
    PROVE  calls'[frame'[t].id] = 0 /\ journal'[frame'[t].id] = <<>>
  <1>1. /\ frame'[t].id = f.id /\ journal[f.id] = <<>>
        /\ calls' = calls /\ journal' = journal
    BY DEF GivesUp, Moves, Silent
  <1>2. calls[f.id] = 0
    BY <1>1 DEF AheadInv, TypeInv, TypeOK
  <1>3. QED
    BY <1>1, <1>2

\* A step of a thread inside the boundary that returns tells the truth.
LEMMA StepStatus ==
    ASSUME TypeInv, AheadInv, OnceInv, SupInv, TruthInv', NEW t \in Threads, Step(t),
           Returns(t)
    PROVE  StatusIsTrue(t)
  <1>f. PICK f : f = frame[t]
    OBVIOUS
  <1>0. /\ pc[t] # "idle" /\ f.id \in Ids /\ f.out \in {"EXECUTED", "FAILED"}
        /\ pc[t] \in Preparing => journal[f.id] = <<>>
    <2>1. pc[t] # "idle"
      BY DEF Step, Evaluate, Recheck, BeginExecution, Attest,
             AcquireLease, CallExecutor, Respond, Record, ReconcileAttempt,
             Lookup, Settle, CompensateExecute, CompensateDone
    <2>2. QED
      BY <1>f, <2>1, WorkFrame DEF OnceInv
  <1>1. pc'[t] = "idle" /\ frame'[t] # f /\ frame'[t].orig = None
    BY <1>f DEF Returns
  <1>2. CASE GivesUp(t, f)
    <2>1. f.orig = None /\ frame'[t].reply # "proposed"
      BY <1>1, <1>2 DEF GivesUp, Moves
    <2>2. frame'[t].reply = "refused"
             => calls'[frame'[t].id] = 0 /\ journal'[frame'[t].id] = <<>>
      BY <1>0, <1>2, <2>1, RefusedIsUntouched
    <2>3. QED
      BY <2>1, <2>2, StatusOf
  <1>3. CASE Settles(t)
    <2>1. frame'[t].reply \in {"succeeded", "failed"}
      BY <1>f, <1>3 DEF Settles, ResultOf
    <2>2. QED
      BY <2>1, StatusOf
  <1>4. CASE \/ Prepares(t) \/ Attests(t) \/ Progresses(t) \/ Invokes(t)
             \/ Retries(t) \/ Finishes(t)
    BY <1>f, <1>1, <1>4 DEF Prepares, Attests, Progresses, Invokes, Retries, Finishes
  <1>5. CASE pc[t] = "comp_exec" /\ Dispatches(t, f)
    <2>1. Moves(t, f)
      BY <1>5 DEF Dispatches, GivesUp, Knows, Reconciles, Proposes, Admits
    <2>2. frame'[t].orig # None
      BY <1>f, <1>5, <2>1 DEF SupInv, Supervised, Moves
    <2>3. QED
      BY <1>1, <2>2
  <1>6. QED
    BY <1>f, <1>2, <1>3, <1>4, <1>5, StepKinds DEF Working

\* So does a call that returns at once.
LEMMA StartStatus ==
    ASSUME ModesAreResolved, TypeInv, AheadInv, OnceInv, TruthInv', NEW t \in Threads,
           Execute(t) \/ Compensate(t), Returns(t)
    PROVE  StatusIsTrue(t)
  <1>1. PICK f \in Frame : Starting(t, f)
    BY StartKinds
  <1>2. pc'[t] = "idle" /\ frame'[t].orig = None /\ pc[t] \notin Preparing /\ f.id \in Ids
    BY <1>1 DEF Returns, Starting, Preparing
  <1>3. CASE GivesUp(t, f)
    <2>1. f.orig = None /\ frame'[t].reply # "proposed"
      BY <1>2, <1>3 DEF GivesUp, Moves
    <2>2. frame'[t].reply = "refused"
             => calls'[frame'[t].id] = 0 /\ journal'[frame'[t].id] = <<>>
      BY <1>2, <1>3, <2>1, RefusedIsUntouched
    <2>3. QED
      BY <2>1, <2>2, StatusOf
  <1>4. CASE Knows(t, f)
    <2>1. frame'[t].reply = "succeeded"
      BY <1>4 DEF Knows
    <2>2. QED
      BY <2>1, StatusOf
  <1>5. CASE Proposes(t, f) /\ FreshCall(f)
    <2>1. frame'[t].reply = "proposed" /\ frame'[t].mode = "SHADOW"
      BY <1>5 DEF Proposes, FreshCall, ModesAreResolved
    <2>2. QED
      BY <2>1, StatusOf
  <1>6. CASE Reconciles(t, f) \/ Admits(t, f) \/ Begins(t, f)
    BY <1>2, <1>6 DEF Reconciles, Admits, Begins
  <1>7. QED
    BY <1>1, <1>3, <1>4, <1>5, <1>6 DEF Starting, Dispatches

\* A supervised call starts only with an approval of this request and this
\* state; and the status that an MCP caller is given is true when it is given:
\* pending means that nothing was called or journalled, executed that the
\* outcome is on record and, if a success, took effect.
THEOREM SupervisedCallersAreToldTheTruth ==
    SharedBoundary /\ ModesAreResolved => (Spec => SupervisedCallsAreGoverned)
  <1> SUFFICES ASSUME SharedBoundary, ModesAreResolved
               PROVE  Spec => SupervisedCallsAreGoverned
    OBVIOUS
  <1>1. /\ TypeInv /\ AheadInv /\ OnceInv /\ SupInv /\ TruthInv' /\ [Next]_vars
        => [\A t \in Threads : Returns(t) => StatusIsTrue(t)]_vars
    <2> SUFFICES ASSUME TypeInv, AheadInv, OnceInv, SupInv, TruthInv', [Next]_vars,
                        vars' # vars, NEW t \in Threads, Returns(t)
                 PROVE  StatusIsTrue(t)
      OBVIOUS
    <2>1. ASSUME NEW u \in Threads, Step(u) \/ Execute(u) \/ Compensate(u)
          PROVE  u = t
      <3>1. \A w \in Threads \ {u} : frame'[w] = frame[w]
        BY <2>1, StepKinds, StartKinds DEF Moves, Working, Starting, Prepares, GivesUp,
           Attests, Progresses, Invokes, Settles, Retries, Finishes, Dispatches, Knows,
           Reconciles, Proposes, Admits, Begins
      <3>2. QED
        BY <3>1 DEF Returns
    <2>2. ASSUME \/ \E id \in Ids : TakeEffect(id)
                 \/ \E b \in Boundaries : Crash(b)
                 \/ ChangeState \/ Tick \/ StepBack
          PROVE  FALSE
      <3>1. frame[t] \in Frame
        BY DEF TypeInv, TypeOK
      <3>2. frame'[t] = frame[t] \/ frame'[t].reply = "none"
        BY <2>2, <3>1 DEF TakeEffect, Crash, ChangeState, Tick, StepBack, Frame
      <3>3. QED
        BY <3>2 DEF Returns
    <2>3. QED
      BY <2>1, <2>2, StepStatus, StartStatus DEF Next
  <1>2. QED
    BY SupervisionHolds, TypeInvariance, AheadInvariance, OnceInvariance, SupInvariance,
       TruthInvariance, <1>1, PTL DEF Spec, SupervisedCallsAreGoverned, StatusIsTrue
================================================================================
