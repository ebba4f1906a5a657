----------------------------- MODULE MCWorkflows -----------------------------
(***************************************************************************)
(* The smaller state machines of the system in one run.  They share no     *)
(* state, so a behaviour belongs to one of them, its focus, and v1..v14    *)
(* stand for the variables of that machine in the order of declaration.    *)
(* A machine about which theorems are proved is instantiated with them, so *)
(* that the theorems at the end can cite them.                             *)
(***************************************************************************)
EXTENDS Naturals, FiniteSets, Sequences, TLC, TLAPS

CONSTANTS Parties,       \* clients, actors, reviewers
          Outputs,       \* output paths
          Nobody,        \* no run, no operator
          MaxLeases, MaxTtl, MaxTime, Scopes, Granted, Definitions, LiveStates, \* CapabilityInvoker
          MaxCommands,                                                  \* AdaptiveWorkflow
          Calls, Models, Root, Datasets, Modes, MaxDays, MaxPublications,
          MaxAge, MaxOverrideWindow,                                    \* SemanticGate
          MaxRows, MaxRefreshes, Keys, KeyOf(_),                        \* StreamTarget
          ViewDefinitions, MaxChanges, MaxRuns,                         \* ViewTarget
          Outages, MaxEdits                                             \* KnowledgeSync

VARIABLES focus, v1, v2, v3, v4, v5, v6, v7, v8, v9, v10, v11, v12, v13, v14

Symmetry == Permutations(Parties) \union Permutations(Outputs)

------------------------------------------------------------------------------
(* Capability calls: definitions that differ in every field the code reads. *)
DefinitionOf(v, m, s, e, r, ok) ==
    [version |-> v, mode |-> m, scopes |-> s, executor |-> e, rules |-> r, valid |-> ok]
DefinitionFiles ==
    {DefinitionOf(1, "read", {"s1"}, "cred", TRUE, TRUE), DefinitionOf(2, "read", {}, "plain", TRUE, TRUE),
     DefinitionOf(2, "write", {"s1"}, "cred", FALSE, FALSE)}

(* One run, a clock that stops or steps back, results stored row by row. *)
stalled == INSTANCE PublicationProofs WITH
    Runs <- {"r1"}, Targets <- {"t"}, TargetOf <- [r \in {"r1"} |-> "t"], Checks <- {"c1", "c2"},
    None <- Nobody, Operators <- {"o1"}, Batches <- {"good", "bad"},
    Fails <- [b \in {"good", "bad"} |-> IF b = "bad" THEN {"c1"} ELSE {}],
    Procs <- {"p1"}, Resumers <- {"p1"}, MaxPublish <- 1, MaxAborts <- 2, ClockRuns <- FALSE,
    MaxNow <- 2, AtomicCheckBatch <- FALSE,
    log <- v1, check <- v2, staging <- v3, quarantine <- v4, table <- v5, proc <- v6,
    published <- v7, aborts <- v8, now <- v9, incident <- v10, command <- v11

(* Two processes publish two runs of one target at the same time. *)
overlap == INSTANCE PublicationProofs WITH
    Runs <- {"r1", "r2"}, Targets <- {"t"}, TargetOf <- [r \in {"r1", "r2"} |-> "t"], Checks <- {"c1"},
    None <- Nobody, Operators <- {}, Batches <- {"good", "bad"},
    Fails <- [b \in {"good", "bad"} |-> IF b = "bad" THEN {"c1"} ELSE {}],
    Procs <- {"p1", "p2"}, Resumers <- {}, MaxPublish <- 1, MaxAborts <- 0, ClockRuns <- TRUE,
    MaxNow <- 0, AtomicCheckBatch <- TRUE,
    log <- v1, check <- v2, staging <- v3, quarantine <- v4, table <- v5, proc <- v6,
    published <- v7, aborts <- v8, now <- v9, incident <- v10, command <- v11

(* A run_id is published again, with other rows. *)
again == INSTANCE PublicationProofs WITH
    Runs <- {"r1", "r2"}, Targets <- {"t"}, TargetOf <- [r \in {"r1", "r2"} |-> "t"], Checks <- {"c1"},
    None <- Nobody, Operators <- {}, Batches <- {"good", "bad"},
    Fails <- [b \in {"good", "bad"} |-> IF b = "bad" THEN {"c1"} ELSE {}],
    Procs <- {"p1"}, Resumers <- {"p1"}, MaxPublish <- 2, MaxAborts <- 0, ClockRuns <- TRUE,
    MaxNow <- 0, AtomicCheckBatch <- TRUE,
    log <- v1, check <- v2, staging <- v3, quarantine <- v4, table <- v5, proc <- v6,
    published <- v7, aborts <- v8, now <- v9, incident <- v10, command <- v11

(* Four versions of a pipeline: a metric is added, its type widens, a column *)
(* goes, the grain changes.                                                  *)
SyncNames == {"amount", "amounts"}
SyncKeys == {"type", "sql", "description"}
Generated(type) ==
    [k \in SyncKeys |-> CASE k = "type" -> type [] k = "sql" -> "amount" [] OTHER -> "absent"]
Nothing == [k \in SyncKeys |-> "absent"]
Version(hash, text, grain, dimension, metric, other) ==
    [hash |-> hash, grain |-> grain, model |-> [k \in {"description"} |-> text],
     generated |-> {n \in SyncNames : IF n = "amount" THEN metric # Nothing \/ dimension # Nothing
                                      ELSE other # Nothing},
     items |-> [c \in {"dimensions", "metrics"} |->
                  [n \in SyncNames |-> IF n = "amount" THEN IF c = "metrics" THEN metric ELSE dimension
                                       ELSE IF c = "metrics" THEN other ELSE Nothing]]]
Versions == {Version("v1", "text", "day", Generated("integer"), Nothing, Nothing),
             Version("v2", "text", "day", Generated("float"), Generated("sum"), Nothing),
             Version("v3", "new text", "day", Nothing, Generated("sum"), Nothing),
             Version("v4", "text", "week", Generated("float"), Nothing, Generated("sum"))}

(* The four machines of LifecycleProofs: two actors and two layer versions  *)
(* for a candidate, so that every pair of operations can overlap; the four  *)
(* versions above for a curated model; three spans and a correlation scope; *)
(* as many clients of capabilities as there are actors.                     *)
life == INSTANCE LifecycleProofs WITH
    Actors <- Parties, Versions <- 1..2, MaxRequests <- 2, MaxOperations <- 4, SqlMayFail <- TRUE,
    Pipelines <- Versions, Names <- SyncNames, Keys <- SyncKeys, ModelKeys <- {"description"},
    Similar <- {<<"amount", "amounts">>, <<"amounts", "amount">>},
    Widening <- {<<"integer", "float">>}, HumanValue <- "human",
    MaxSpans <- 3, MaxScopes <- 1, Clients <- Parties, World <- LiveStates,
    (* Candidates *)
    serial <- v1, row <- v2, log <- v3, view <- v4, node <- v5, runs <- v6, files <- v7,
    layer <- v8, started <- v9, frame <- v10,
    (* SemanticSync *)
    pipeline <- v1, draft <- v2, curated <- v3, promoting <- v4,
    (* SpanTree *)
    spans <- v1, current <- v2, ambient <- v3, scopes <- v4, copied <- v5, nested <- v6,
    opened <- v7, clock <- v8,
    (* CredentialBroker, CapabilityInvoker *)
    phase <- v1, wanted <- v2, lease <- v3, active <- v4, pending <- v5, now <- v6, catFile <- v7,
    defFile <- v8, catalog <- v9, cache <- v10, world <- v11, stage <- v12, def <- v13, seen <- v14

(* The five machines of WorkflowProofs: a root model that is certified      *)
(* under either name and a joined model, a stream with two merge keys, a    *)
(* view whose select or options change.                                     *)
KeyOfRow(row) == IF row = 2 THEN "b" ELSE "a"
CertifiedDatasets == {<<"root", "physical">>, <<"root", "logical">>, <<"joined", "physical">>}
DeclaredViews == [select : {"s", "t"}, options : {"o"}] \union [select : {"s"}, options : {"p"}]
machine == INSTANCE WorkflowProofs WITH
    Reviewers <- Parties, PathGiven <- TRUE, Definitions <- ViewDefinitions, MaxTime <- MaxDays,
    (* AdaptiveWorkflow *)
    serial <- v1, status <- v2, delivery <- v3, decision <- v4, evaluation <- v5, output <- v6,
    current <- v7, commands <- v8, proc <- v9,
    (* SemanticGate *)
    mode <- v1, now <- v2, published <- v3, cert <- v4, cache <- v5, call <- v6, views <- v7,
    (* StreamTarget *)
    writeMode <- v1, checkpointAt <- v2, arrived <- v3, log <- v4, table <- v5, job <- v6,
    refreshes <- v7, halfPurged <- v8,
    (* ViewTarget *)
    setting <- v1, declared <- v2, never <- v3, version <- v4, changes <- v5, view <- v6,
    pending <- v7, run <- v8, runs <- v9, overtaken <- v10,
    (* KnowledgeSync *)
    world <- v1, nodes <- v2, edges <- v3, sync <- v4, embed <- v5, overlapped <- v6,
    synced <- v7, worldChanges <- v8

------------------------------------------------------------------------------
(* The variables a machine does not have keep the value 0. *)
From12 == v12 = 0 /\ v13 = 0 /\ v14 = 0
From11 == v11 = 0 /\ From12
From10 == v10 = 0 /\ From11
From9 == v9 = 0 /\ From10
From8 == v8 = 0 /\ From9
From5 == v5 = 0 /\ v6 = 0 /\ v7 = 0 /\ From8
rest12 == <<v12, v13, v14>>
rest11 == <<v11, rest12>>
rest10 == <<v10, rest11>>
rest9 == <<v9, rest10>>
rest8 == <<v8, rest9>>
rest5 == <<v5, v6, v7, rest8>>

Init ==
    \/ focus = "invoker" /\ life!InvokerInit
    \/ focus = "stalled" /\ stalled!Init /\ From12
    \/ focus = "overlap" /\ overlap!Init /\ From12
    \/ focus = "again" /\ again!Init /\ From12
    \/ focus = "candidates" /\ life!Init /\ From11
    \/ focus = "view" /\ machine!ViewInit /\ From11
    \/ focus = "adaptive" /\ machine!ReviewInit /\ From10
    \/ focus = "stream" /\ machine!StreamInit /\ From9
    \/ focus = "knowledge" /\ machine!KnowledgeInit /\ From9
    \/ focus = "spans" /\ life!SpanInit /\ From9
    \/ focus = "gate" /\ machine!GateInit /\ From8
    \/ focus = "sync" /\ life!SyncInit /\ From5

Next ==
    /\ UNCHANGED focus
    /\ \/ focus = "invoker" /\ life!InvokerNext
       \/ focus = "stalled" /\ stalled!SettableClockNext /\ UNCHANGED rest12
       \/ focus = "overlap" /\ overlap!Next /\ UNCHANGED rest12
       \/ focus = "again" /\ again!Next /\ UNCHANGED rest12
       \/ focus = "candidates" /\ life!Next /\ UNCHANGED rest11
       \/ focus = "view" /\ machine!ViewNext /\ UNCHANGED rest11
       \/ focus = "adaptive" /\ machine!ReviewNext /\ UNCHANGED rest10
       \/ focus = "stream" /\ machine!StreamNext /\ UNCHANGED rest9
       \/ focus = "knowledge" /\ machine!KnowledgeNext /\ UNCHANGED rest9
       \/ focus = "spans" /\ life!SpanNext /\ UNCHANGED rest9
       \/ focus = "gate" /\ machine!GateNext /\ UNCHANGED rest8
       \/ focus = "sync" /\ life!SyncNext /\ UNCHANGED rest5

allVars == <<focus, v1, v2, v3, v4, v5, v6, v7, v8, v9, v10, v11, v12, v13, v14>>
Spec == Init /\ [][Next]_allVars

------------------------------------------------------------------------------
(* The leases that exist, registered or just issued outside the lock,      *)
(* never exceed the cap that issue_for enforces under its lock.            *)
LeaseCap == focus = "invoker" => life!LeaseCap

(* A capability call works with a cached definition that agrees with the   *)
(* catalogue; its lease is counted while it is issued, is for its request  *)
(* only, is held while the executor runs and dropped when the call ends.   *)
InvocationIsSound == focus = "invoker" => life!InvocationIsSound

(* get_run reports the transition stored last, although rows are ordered   *)
(* by a wall clock that may stand still or step back; and while nothing    *)
(* dies, only rows that passed their critical checks reach a target and no *)
(* staged batch is lost, although publications of a target overlap or a    *)
(* run_id is published again with other rows.                              *)
PublicationIsFaithful ==
    /\ focus = "stalled" => stalled!TypeOK /\ stalled!RunStateIsLastStored
    /\ focus = "overlap" => /\ overlap!TargetPassedChecks /\ overlap!BlockedRunIsNotPromoted
                            /\ overlap!StagedDataSurvives /\ overlap!IncidentHasEvidence
    /\ focus = "again" => again!TargetPassedChecks

(* A candidate's state and every decision on it are on record whatever     *)
(* overlaps or dies; operations that do not overlap leave row, history,    *)
(* index, view and drafts in agreement.  The status of an adaptive proposal *)
(* has its record on disk, and what was delivered is complete.             *)
DecisionsAreOnRecord ==
    /\ focus = "candidates" => /\ life!TypeOK /\ life!StateIsRecorded /\ life!DecisionRestsOnReport
                               /\ life!SerialBooksAgree /\ life!SerialObjectsExist
    /\ focus = "adaptive" => machine!ReviewTypeOK /\ machine!StatusHasRecord /\ machine!DeliveredIsComplete

(* Nobody undoes a decision: a rejected candidate stays rejected, drafts   *)
(* are not taken over, a proposal is decided once, a delivered schema is   *)
(* not replaced.                                                           *)
DecisionsStand ==
    [][/\ focus = "candidates" => life!RejectedIsFinal /\ life!DraftsAreNotTakenOver
       /\ focus = "adaptive" => machine!DecidedOnce /\ machine!OutputIsNotReplaced]_allVars

(* Under enforcement a query reads only certified, passing and fresh       *)
(* datasets, whatever was published or reloaded between its two checks.    *)
EnforcedReadIsCertified == focus = "gate" => machine!GateTypeOK /\ machine!EnforcedReadIsCertified

(* Promotion of a synchronised model keeps what people edited.             *)
PromotionKeepsEdits == focus = "sync" => life!SyncTypeOK /\ life!PromotionKeepsEdits

(* Rows a checkpoint skips are in the target and an append-only target has *)
(* each row once, across crashes, replays and full refreshes; a run that   *)
(* reports success leaves its view with its own definition and current     *)
(* data, even when statements reach the warehouse late.                    *)
TargetsAreCurrent ==
    /\ focus = "stream" => machine!StreamTypeOK /\ machine!CommittedIsIngested /\ machine!AppendedOnce
    /\ focus = "view" => machine!ViewTypeOK /\ machine!BuiltViewIsCurrent

(* The knowledge index mirrors its sources after a complete batch, removes *)
(* nothing on behalf of a source it could not read, and stores no vector   *)
(* of another text, across crashes and outages.                            *)
IndexMirrorsSources == focus = "knowledge" => machine!IndexMirrorsSources

(* The spans of a trace form a tree: a parent was open when its child      *)
(* started, and nested scopes nest, also across copied contexts.           *)
SpansFormATree == focus = "spans" => life!ParentWasOpen /\ life!NestedScopesNest

(* Documented, and not so: "already current" only of the current pipeline. *)
NoopMeansCurrent == focus = "sync" => life!NoopMeansCurrent

(* What the machines assume of their constants.                           *)
ASSUME MachineAssumption ==
    /\ life!InvokerAssumption /\ machine!AdaptiveAssumption /\ machine!GateAssumption
    /\ machine!StreamAssumption /\ machine!ViewAssumption /\ machine!KnowledgeAssumption
    /\ life!CandidatesAssumption /\ life!SyncAssumption /\ life!SpanAssumption
    /\ stalled!PublicationAssumption /\ stalled!IncidentsAssumption
    /\ overlap!PublicationAssumption /\ overlap!IncidentsAssumption
    /\ again!PublicationAssumption /\ again!IncidentsAssumption
    /\ "schemas" \notin Outages
------------------------------------------------------------------------------
(* The theorems about the machines hold of the run: the focus never changes, *)
(* and a behaviour is one of the machine in focus.                           *)

\* With the focus on "invoker".
LEMMA InvokerRuns == Spec => life!InvokerSpec \/ []~(focus = "invoker")
  <1>1. Init /\ focus = "invoker" => life!InvokerInit
    BY DEF Init
  <1>2. focus = "invoker" /\ [Next]_allVars => [life!InvokerNext]_life!vars /\ (focus = "invoker")'
    BY DEF Next, allVars, life!vars, life!brokerVars, life!registryVars, life!callVars
  <1>3. ~(focus = "invoker") /\ [Next]_allVars => ~(focus = "invoker")'
    BY DEF Next, allVars
  <1>4. QED
    BY <1>1, <1>2, <1>3, PTL DEF Spec, life!InvokerSpec

\* With the focus on "stream".
LEMMA StreamRuns == Spec => machine!StreamSpec \/ []~(focus = "stream")
  <1>1. Init /\ focus = "stream" => machine!StreamInit
    BY DEF Init
  <1>2. focus = "stream" /\ [Next]_allVars => [machine!StreamNext]_machine!streamVars /\ (focus = "stream")'
    BY DEF Next, allVars, machine!streamVars
  <1>3. ~(focus = "stream") /\ [Next]_allVars => ~(focus = "stream")'
    BY DEF Next, allVars
  <1>4. QED
    BY <1>1, <1>2, <1>3, PTL DEF Spec, machine!StreamSpec

\* With the focus on "view".
LEMMA ViewRuns == Spec => machine!ViewSpec \/ []~(focus = "view")
  <1>1. Init /\ focus = "view" => machine!ViewInit
    BY DEF Init
  <1>2. focus = "view" /\ [Next]_allVars => [machine!ViewNext]_machine!viewVars /\ (focus = "view")'
    BY DEF Next, allVars, machine!viewVars
  <1>3. ~(focus = "view") /\ [Next]_allVars => ~(focus = "view")'
    BY DEF Next, allVars
  <1>4. QED
    BY <1>1, <1>2, <1>3, PTL DEF Spec, machine!ViewSpec

\* With the focus on "gate".
LEMMA GateRuns == Spec => machine!GateSpec \/ []~(focus = "gate")
  <1>1. Init /\ focus = "gate" => machine!GateInit
    BY DEF Init
  <1>2. focus = "gate" /\ [Next]_allVars => [machine!GateNext]_machine!gateVars /\ (focus = "gate")'
    BY DEF Next, allVars, machine!gateVars
  <1>3. ~(focus = "gate") /\ [Next]_allVars => ~(focus = "gate")'
    BY DEF Next, allVars
  <1>4. QED
    BY <1>1, <1>2, <1>3, PTL DEF Spec, machine!GateSpec

\* With the focus on "knowledge".
LEMMA IndexRuns == Spec => machine!KnowledgeSpec \/ []~(focus = "knowledge")
  <1>1. Init /\ focus = "knowledge" => machine!KnowledgeInit
    BY DEF Init
  <1>2. focus = "knowledge" /\ [Next]_allVars => [machine!KnowledgeNext]_machine!knowledgeVars /\ (focus = "knowledge")'
    BY DEF Next, allVars, machine!knowledgeVars
  <1>3. ~(focus = "knowledge") /\ [Next]_allVars => ~(focus = "knowledge")'
    BY DEF Next, allVars
  <1>4. QED
    BY <1>1, <1>2, <1>3, PTL DEF Spec, machine!KnowledgeSpec

\* With the focus on "candidates".
LEMMA CandidateRuns == Spec => life!Spec \/ []~(focus = "candidates")
  <1>1. Init /\ focus = "candidates" => life!Init
    BY DEF Init
  <1>2. focus = "candidates" /\ [Next]_allVars => [life!Next]_(life!cvars) /\ (focus = "candidates")'
    BY DEF Next, allVars, life!cvars
  <1>3. ~(focus = "candidates") /\ [Next]_allVars => ~(focus = "candidates")'
    BY DEF Next, allVars
  <1>4. QED
    BY <1>1, <1>2, <1>3, PTL DEF Spec, life!Spec

\* With the focus on "adaptive".
LEMMA AdaptiveRuns == Spec => machine!ReviewSpec \/ []~(focus = "adaptive")
  <1>1. Init /\ focus = "adaptive" => machine!ReviewInit
    BY DEF Init
  <1>2. focus = "adaptive" /\ [Next]_allVars => [machine!ReviewNext]_(machine!wvars) /\ (focus = "adaptive")'
    BY DEF Next, allVars, machine!wvars
  <1>3. ~(focus = "adaptive") /\ [Next]_allVars => ~(focus = "adaptive")'
    BY DEF Next, allVars
  <1>4. QED
    BY <1>1, <1>2, <1>3, PTL DEF Spec, machine!ReviewSpec

\* With the focus on "sync".
LEMMA SyncRuns == Spec => life!SyncSpec \/ []~(focus = "sync")
  <1>1. Init /\ focus = "sync" => life!SyncInit
    BY DEF Init
  <1>2. focus = "sync" /\ [Next]_allVars => [life!SyncNext]_(life!syncVars) /\ (focus = "sync")'
    BY DEF Next, allVars, life!syncVars
  <1>3. ~(focus = "sync") /\ [Next]_allVars => ~(focus = "sync")'
    BY DEF Next, allVars
  <1>4. QED
    BY <1>1, <1>2, <1>3, PTL DEF Spec, life!SyncSpec

\* With the focus on "spans".
LEMMA SpanRuns == Spec => life!SpanSpec \/ []~(focus = "spans")
  <1>1. Init /\ focus = "spans" => life!SpanInit
    BY DEF Init
  <1>2. focus = "spans" /\ [Next]_allVars => [life!SpanNext]_(life!spanVars) /\ (focus = "spans")'
    BY DEF Next, allVars, life!spanVars
  <1>3. ~(focus = "spans") /\ [Next]_allVars => ~(focus = "spans")'
    BY DEF Next, allVars
  <1>4. QED
    BY <1>1, <1>2, <1>3, PTL DEF Spec, life!SpanSpec

\* With the focus on "stalled".
LEMMA StalledRuns == Spec => (stalled!Init /\ [][stalled!SettableClockNext]_(stalled!vars)) \/ []~(focus = "stalled")
  <1>1. Init /\ focus = "stalled" => stalled!Init
    BY DEF Init
  <1>2. focus = "stalled" /\ [Next]_allVars => [stalled!SettableClockNext]_(stalled!vars) /\ (focus = "stalled")'
    BY DEF Next, allVars, stalled!vars, stalled!store, stalled!warehouse, stalled!counters, stalled!incidentVars
  <1>3. ~(focus = "stalled") /\ [Next]_allVars => ~(focus = "stalled")'
    BY DEF Next, allVars
  <1>4. QED
    BY <1>1, <1>2, <1>3, PTL DEF Spec

\* With the focus on "overlap".
LEMMA OverlapRuns == Spec => overlap!Spec \/ []~(focus = "overlap")
  <1>1. Init /\ focus = "overlap" => overlap!Init
    BY DEF Init
  <1>2. focus = "overlap" /\ [Next]_allVars => [overlap!Next]_(overlap!vars) /\ (focus = "overlap")'
    BY DEF Next, allVars, overlap!vars, overlap!store, overlap!warehouse, overlap!counters, overlap!incidentVars
  <1>3. ~(focus = "overlap") /\ [Next]_allVars => ~(focus = "overlap")'
    BY DEF Next, allVars
  <1>4. QED
    BY <1>1, <1>2, <1>3, PTL DEF Spec, overlap!Spec

\* With the focus on "again".
LEMMA AgainRuns == Spec => again!Spec \/ []~(focus = "again")
  <1>1. Init /\ focus = "again" => again!Init
    BY DEF Init
  <1>2. focus = "again" /\ [Next]_allVars => [again!Next]_(again!vars) /\ (focus = "again")'
    BY DEF Next, allVars, again!vars, again!store, again!warehouse, again!counters, again!incidentVars
  <1>3. ~(focus = "again") /\ [Next]_allVars => ~(focus = "again")'
    BY DEF Next, allVars
  <1>4. QED
    BY <1>1, <1>2, <1>3, PTL DEF Spec, again!Spec

\* The leases that exist never exceed the cap.
THEOREM LeasesAreCapped == Spec => []LeaseCap
  <1>1. life!InvokerAssumption
    BY MachineAssumption DEF MachineAssumption
  <1>2. life!InvokerSpec => []life!LeaseCap
    BY <1>1, life!CallsKeepTheCap
  <1>3. (~(focus = "invoker") => LeaseCap) /\ (life!LeaseCap => LeaseCap)
    BY DEF LeaseCap
  <1>4. QED
    BY <1>2, <1>3, InvokerRuns, PTL

\* A capability call works with the definition of its catalogue entry, with a
\* lease for its own request that is counted while it is issued, held while the
\* executor runs and dropped when the call ends.
THEOREM InvocationsAreSound == Spec => []InvocationIsSound
  <1>1. life!InvokerAssumption
    BY MachineAssumption DEF MachineAssumption
  <1>2. life!InvokerSpec => []life!InvocationIsSound
    BY <1>1, life!CallsAreSound
  <1>3. (~(focus = "invoker") => InvocationIsSound) /\ (life!InvocationIsSound => InvocationIsSound)
    BY DEF InvocationIsSound
  <1>4. QED
    BY <1>2, <1>3, InvokerRuns, PTL

\* Under enforcement a query reads certified, passing and fresh datasets only,
\* whatever is published or reloaded between its two checks.
THEOREM ReadsAreCertified == Spec => []EnforcedReadIsCertified
  <1>1. machine!GateAssumption
    BY MachineAssumption DEF MachineAssumption
  <1>2. machine!GateSpec => [](machine!GateTypeOK /\ machine!EnforcedReadIsCertified)
    BY <1>1, machine!ReadsAreCertified
  <1>3. /\ ~(focus = "gate") => EnforcedReadIsCertified
        /\ machine!GateTypeOK /\ machine!EnforcedReadIsCertified => EnforcedReadIsCertified
    BY DEF EnforcedReadIsCertified
  <1>4. QED
    BY <1>2, <1>3, GateRuns, PTL

\* The knowledge index mirrors its sources after a complete batch and removes
\* nothing on behalf of a source that it could not read, across crashes and outages.
THEOREM IndexIsFaithful == Spec => []IndexMirrorsSources
  <1>1. machine!KnowledgeAssumption /\ "schemas" \notin Outages
    BY MachineAssumption DEF MachineAssumption
  <1>2. machine!KnowledgeSpec => []machine!IndexMirrorsSources
    BY <1>1, machine!IndexIsFaithful
  <1>3. /\ ~(focus = "knowledge") => IndexMirrorsSources
        /\ machine!IndexMirrorsSources => IndexMirrorsSources
    BY DEF IndexMirrorsSources
  <1>4. QED
    BY <1>2, <1>3, IndexRuns, PTL

\* The state of a candidate and the status of an adaptive proposal are on record
\* whatever overlaps or dies, every decision rests on a report, and operations
\* that do not overlap leave row, history, index, views and drafts in agreement.
THEOREM DecisionsAreRecorded == Spec => []DecisionsAreOnRecord
  <1>1. life!CandidatesAssumption /\ machine!AdaptiveAssumption
    BY MachineAssumption DEF MachineAssumption
  <1>2. life!Spec => [](life!TypeOK /\ life!StateIsRecorded /\ life!DecisionRestsOnReport
                              /\ life!SerialBooksAgree /\ life!SerialObjectsExist)
    BY <1>1, life!CandidatesAreOnRecord
  <1>3. machine!ReviewSpec => [](machine!ReviewTypeOK /\ machine!StatusHasRecord /\ machine!DeliveredIsComplete)
    BY <1>1, machine!StatusIsOnRecord
  <1>4. /\ \/ ~(focus = "candidates")
           \/ life!TypeOK /\ life!StateIsRecorded /\ life!DecisionRestsOnReport
              /\ life!SerialBooksAgree /\ life!SerialObjectsExist
        /\ \/ ~(focus = "adaptive")
           \/ machine!ReviewTypeOK /\ machine!StatusHasRecord /\ machine!DeliveredIsComplete
        => DecisionsAreOnRecord
    BY DEF DecisionsAreOnRecord
  <1>5. QED
    BY <1>2, <1>3, <1>4, CandidateRuns, AdaptiveRuns, PTL

\* Nobody undoes a decision: a rejected candidate stays rejected, drafts are not
\* taken over, a proposal is decided once, a delivered schema is not replaced.
THEOREM DecisionsAreFinal == Spec => DecisionsStand
  <1>1. life!CandidatesAssumption /\ machine!AdaptiveAssumption
    BY MachineAssumption DEF MachineAssumption
  <1>2. life!Spec => [][life!RejectedIsFinal /\ life!DraftsAreNotTakenOver]_(life!cvars)
    BY <1>1, life!CandidatesStand
  <1>3. machine!ReviewSpec => [][machine!DecidedOnce /\ machine!OutputIsNotReplaced]_(machine!wvars)
    BY <1>1, machine!ProposalsAreDecidedOnce
  <1> DEFINE stand == /\ focus = "candidates" => life!RejectedIsFinal /\ life!DraftsAreNotTakenOver
                      /\ focus = "adaptive" => machine!DecidedOnce /\ machine!OutputIsNotReplaced
  <1>4. /\ \/ ~(focus = "candidates")
           \/ [life!RejectedIsFinal /\ life!DraftsAreNotTakenOver]_(life!cvars)
        /\ ~(focus = "adaptive") \/ [machine!DecidedOnce /\ machine!OutputIsNotReplaced]_(machine!wvars)
        /\ [Next]_allVars
        => [stand]_allVars
    <2>1. ASSUME focus = "candidates", Next, ~UNCHANGED allVars
          PROVE  ~UNCHANGED life!cvars
      BY <2>1 DEF Next, allVars, life!cvars, rest11, rest12
    <2>2. ASSUME focus = "adaptive", Next, ~UNCHANGED allVars
          PROVE  ~UNCHANGED machine!wvars
      BY <2>2 DEF Next, allVars, machine!wvars, rest10, rest11, rest12
    <2>3. QED
      BY <2>1, <2>2
  <1> HIDE DEF stand
  <1>5. Spec => [][stand]_allVars
    BY <1>2, <1>3, <1>4, CandidateRuns, AdaptiveRuns, PTL DEF Spec
  <1>6. QED
    BY <1>5 DEF DecisionsStand, stand

\* Promotion of a synchronised model keeps what people edited, or stops.
THEOREM EditsSurvive == Spec => []PromotionKeepsEdits
  <1>1. life!SyncAssumption
    BY MachineAssumption DEF MachineAssumption
  <1>2. life!SyncSpec => [](life!SyncTypeOK /\ life!PromotionKeepsEdits)
    BY <1>1, life!EditsSurvive
  <1>3. /\ ~(focus = "sync") => PromotionKeepsEdits
        /\ life!SyncTypeOK /\ life!PromotionKeepsEdits => PromotionKeepsEdits
    BY DEF PromotionKeepsEdits
  <1>4. QED
    BY <1>2, <1>3, SyncRuns, PTL

\* The spans of a trace form a tree, whichever context opens and closes them.
THEOREM SpansAreATree == Spec => []SpansFormATree
  <1>1. /\ ~(focus = "spans") => SpansFormATree
        /\ life!ParentWasOpen /\ life!NestedScopesNest => SpansFormATree
    BY DEF SpansFormATree
  <1>2. QED
    BY <1>1, life!SpansAreATree, SpanRuns, PTL

\* Rows that a checkpoint skips are in the target, each once if it is append-only;
\* a run that reports success leaves its view with current data.
THEOREM TargetsStayCurrent == Spec => []TargetsAreCurrent
  <1>1. machine!StreamAssumption /\ machine!ViewAssumption
    BY MachineAssumption DEF MachineAssumption
  <1>2. machine!StreamSpec => [](machine!StreamTypeOK /\ machine!CommittedIsIngested /\ machine!AppendedOnce)
    <2>1. machine!StreamSpec => []machine!AppendedOnce
      BY <1>1, machine!RowsAreAppendedOnce
    <2>2. machine!StreamSpec => [](machine!StreamTypeOK /\ (machine!Purgeable => machine!CommittedIsIngested))
      BY <1>1, machine!CheckpointIsBacked
    <2>3. machine!Purgeable
      BY DEF machine!Purgeable
    <2>4. QED
      BY <2>1, <2>2, <2>3, PTL
  <1>3. machine!ViewSpec => [](machine!ViewTypeOK /\ machine!BuiltViewIsCurrent)
    BY <1>1, machine!BuiltViewsAreCurrent
  <1>4. /\ ~(focus = "stream") /\ ~(focus = "view") => TargetsAreCurrent
        /\ ~(focus = "view") /\ machine!StreamTypeOK /\ machine!CommittedIsIngested /\ machine!AppendedOnce
               => TargetsAreCurrent
        /\ ~(focus = "stream") /\ machine!ViewTypeOK /\ machine!BuiltViewIsCurrent => TargetsAreCurrent
    BY DEF TargetsAreCurrent
  <1>5. ~(focus = "stream" /\ focus = "view")
    OBVIOUS
  <1>6. QED
    BY <1>2, <1>3, <1>4, <1>5, StreamRuns, ViewRuns, PTL

\* get_run reports the transition stored last under any clock; publications that
\* overlap, or of a run_id that is published again, promote only rows that
\* passed their checks, lose no staged batch and open no incident without
\* evidence.
THEOREM PublicationsAreFaithful == Spec => []PublicationIsFaithful
  <1>1. /\ stalled!PublicationAssumption /\ stalled!IncidentsAssumption
        /\ overlap!PublicationAssumption /\ overlap!IncidentsAssumption
        /\ again!PublicationAssumption /\ again!IncidentsAssumption
    BY MachineAssumption DEF MachineAssumption
  <1>2. stalled!Init /\ [][stalled!SettableClockNext]_(stalled!vars)
        => [](stalled!TypeOK /\ stalled!RunStateIsLastStored)
    <2>1. stalled!Init /\ [][stalled!SettableClockNext]_(stalled!vars) => []stalled!TypeOK
      BY <1>1, stalled!TypeCorrect
    <2>2. stalled!Init /\ [][stalled!SettableClockNext]_(stalled!vars) => []stalled!RunStateIsLastStored
      BY <1>1, stalled!LastStoredIsReported
    <2>3. QED
      BY <2>1, <2>2, PTL
  <1>3. overlap!Spec => []overlap!TargetPassedChecks
    BY <1>1, overlap!PublishedDataPassedChecks
  <1>4. overlap!Spec => []overlap!BlockedRunIsNotPromoted
    <2>1. overlap!Spec => []overlap!BlockedRunIsNotPromoted /\ overlap!PromotionIsIdempotent
      BY <1>1, overlap!PublishedRunsAreSafe
    <2>2. QED
      BY <2>1, PTL
  <1>5. overlap!Spec => []overlap!StagedDataSurvives
    BY <1>1, overlap!StagedDataIsKept
  <1>6. overlap!Spec => []overlap!IncidentHasEvidence
    BY <1>1, overlap!IncidentsHaveEvidence
  <1>7. again!Spec => []again!TargetPassedChecks
    <2>1. again!Spec /\ []again!OneCallPerRun => []again!TargetPassedChecks
      BY <1>1, again!RepublishedRunsAreSafe
    <2>2. again!OneCallPerRun
      BY DEF again!OneCallPerRun
    <2>3. QED
      BY <2>1, <2>2, PTL
  <1>8. /\ ~(focus = "stalled") \/ (stalled!TypeOK /\ stalled!RunStateIsLastStored)
        /\ \/ ~(focus = "overlap")
           \/ overlap!TargetPassedChecks /\ overlap!BlockedRunIsNotPromoted
              /\ overlap!StagedDataSurvives /\ overlap!IncidentHasEvidence
        /\ ~(focus = "again") \/ again!TargetPassedChecks
        => PublicationIsFaithful
    BY DEF PublicationIsFaithful
  <1>9. QED
    BY <1>2, <1>3, <1>4, <1>5, <1>6, <1>7, <1>8, StalledRuns, OverlapRuns, AgainRuns, PTL
==============================================================================
