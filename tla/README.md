# Specifications of Skifer

TLA+ models of Skifer, TLC configurations that check them on small instances,
and TLAPS proofs of the most important theorems. Two kinds of module live here.
Where a lock, a log, a file or a crash decides whether the system is right, a
module is a state machine whose steps are the points at which another thread, a
process, the clock or a failure can intervene. Where a decision procedure
decides it (a planner, a validator, a compiler, a merge), a module is a set of
operators translated from the code, compared over enumerated inputs with a
definition of what the result should mean.

`PROJECT.json` is the index: components, runs, mutants, the map from definitions
to source lines, findings, hazards and theorems. Paths below are relative to
`src/src/skifer/` unless they start with `docs/`, `tests/` or `src/`.

## 1. The system and its parts

Skifer turns YAML pipelines into Spark tables, publishes them with certified
quality, describes them in a semantic layer, and lets people and agents query
and act on them.

| Part | State it keeps | Operations | What makes it correct |
|---|---|---|---|
| Governed capabilities (`capabilities/executor.py`, `history.py`, `autonomy.py`) | append-only journal of state events per request identity; an execution lock per boundary instance | `execute`, `compensate`, reconciliation of lost responses | an external system is called at most once per identity; the journal is truthful; supervised calls are approved for the state they run in |
| Credentials, registry, invoker (`capabilities/credentials.py`, `registry.py`, `invoker.py`, `validator.py`, `preconditions.py`) | active leases, pending reservations, a catalogue and a cache of definitions | `issue_for`, `assert_valid`, `release`, `reload`, `invoke` | the lease cap holds while providers are called outside the lock; a call uses a definition that agrees with its catalogue; what the validator accepts leaves nothing unguarded |
| Certified publication (`observability/publication.py`, `quarantine.py`) | staging, quarantine and target tables | `publish`, `resume` | only checked rows reach a target; no staged batch is lost; a certification names the rows in the table |
| Certification store (`observability/certification_store.py`) | run events, check results, incidents, in SQLite or Delta | append, latest run, latest promotion | the latest row is the last one stored; appends are idempotent |
| Incidents (`observability/incidents.py`, `services/quality.py`) | one row per incident | open, acknowledge, assign, resolve, automatic recovery | at most one open incident per dataset and check, each backed by evidence |
| Quality, contracts, alerts (`observability/contracts.py`, `monitor.py`, `alert_router.py`, `contract_evolution.py`, `odcs.py`) | history of reports, stored contract versions | derive and evaluate checks, compare versions, exchange ODCS | checks confirm what the pipeline enforces; a breaking change is seen; nothing is lost in silence |
| Metadata registry, lineage (`observability/metadata_index.py`, `lineage/`) | dataset records, merged graph | index, attach a run, traverse, classify | every column is found within the bound; classifications follow lineage |
| Tracing (`observability/tracing.py`, exporters) | open spans, two context variables | `start_span`, `end_span`, `use_context`, export | spans form a tree; observing never changes the outcome |
| Execution service (`services/execution.py`) | one runtime session, one job slot, job threads, the process's Spark session | `connect`, `session`, `close`, `submit`, `status`, `cancel`, `logs`, `result` | a result belongs to its job; terminal states are final; no engine is leaked; requests end |
| Knowledge candidates (`candidates/`, `agentic/candidate_agent.py`) | candidate rows, certification events, views, drafts, index nodes | record, validate, review, approve, promote, demote, drift | decisions are on record and rest on a judgement; row, log, view and index agree |
| Adaptive recommendations (`adaptive/`) | proposal directories | aggregate, recommend, generate, accept, reject, evaluate, measure | a proposal is decided once, what it delivered is complete, its evidence is sound |
| Semantic layer (`semantic/`, `agentic/resolver.py`) | YAML models, catalogue, caches | plan, compile, validate, draft, sync, promote, gate | a query repeats no row of a metric, reads only what its principal may and what is certified; a merge loses no edit |
| Engine, loader, compiler, rules (`core/`) | configuration, cached environment, checkpoints, tables, views | detect, load, plan, run, compile, refresh, stream | what the loader accepts runs; both executions of a pipeline agree; a target is never behind what its checkpoint says |
| Knowledge index (`knowledge/`) | nodes, edges, embeddings | collect, four-step batch, embed, search, neighbours | the index mirrors the sources that could be read; vectors are of the stored text |
| MCP (`mcp/`, `agentic/data_service.py`) | none | configuration, authentication, discovery, query, paging, governed calls | what is shown can be called, within the scopes and bounds that are advertised |
| Agents (`agentic/`) | conversation history, session files | route, ask, describe, save | what a language model answers never widens what may be read |
| Service layer, HTTP API, serving, CLI (`services/`, `api/`, `serving/`, `cli.py`) | none of their own | transport around the parts above | scope checks, error mapping |
| Analyzer (`analyzer/`) | draft files, rule stubs | map a statement, verify the draft, order a corpus, emit, compare tables | a verified draft returns the rows of its source; hand-written files survive; what is reported identical is |

How they interact: API requests and MCP tools call the services from many
threads. `ExecutionService` builds an engine and runs it in a job thread; the
engine loads a schema, plans its rules, writes through the Spark backend and
calls `PublicationCoordinator.publish`, which logs in the certification store,
opens incidents when checks fail and resolves them when a later run is promoted.
The semantic gate reads certifications from that store before and after it
compiles a query. Agents send questions to the planner; unanswered questions
become candidates, whose approved definitions become views. Evidence of queries
becomes adaptive proposals. Capability tools call `GovernedExecutor`, which
reads live state, asks the credential broker for a lease, calls an external
system and journals what happened.

Hard behaviours: two threads or processes between a read and a write; a crash
between two statements that no transaction joins; a response lost after the side
effect; a statement that takes effect after its caller gave up; a result that
arrives after its job was cancelled; an expiry that races a late thread; a clock
that stands still or steps back under rows ordered by time stamps; conditions
put together as text; two compilers of one document. The list, line by line, is
`hazards` in `PROJECT.json`.

## 2. Modules

### State machines

| Module | Models |
|---|---|
| `Autonomy` | autonomy modes, the transition table, `resolve_autonomy_mode`, `validate_approval` |
| `GovernedExecutor` | the journal (`latest_state` by time stamp, then by insertion; the reconciliation count), `execute`, `_execute`, `_resolve_prior`, `_reconcile_lost_response`, `compensate`, with the environment: late effects, crashes, clock, live state |
| `CapabilityContract` | abstract specification: the life cycle of one request as `docs/capabilities.md` promises it |
| `CredentialBroker` | `issue_for` in the steps between which others run, `assert_valid`, `release`, the provider as an adversary |
| `CapabilityInvoker` | the registry (catalogue, definition files, cache) and `invoke`, composed with the broker |
| `CertificationStore` | run events: idempotent append, adjusted stamps, `get_run`, `get_latest_promoted`; the incident life cycle, operator commands as a read and a write |
| `Publication` | `publish`, `stage_dataframe`, the checks, `quarantine_staging`, `promote_staging`, `resume`, over the store above |
| `ExecutionService` | session, job slot, requests, job threads, Spark session sharing |
| `Candidates` | a candidate's row and history, its view, index node and draft files, over a store without transactions |
| `AdaptiveWorkflow` | the review of a proposal as file operations with crashes, failed writes and overlapping reviewers |
| `SemanticGate` | the certification checks around a query, a view and a metric view, while publications and reloads go on |
| `SemanticSync` | the three-way merge of a curated model, `--write-draft` and `--promote` with a crash between two files |
| `StreamTarget` | batches, checkpoint and full refresh of a streaming table |
| `ViewTarget` | create, refresh, replace and drop of a materialized view through a warehouse that may answer late |
| `KnowledgeSync` | the batch of four writes from sources that change and fail, and the embedding job |
| `SpanTree` | the in-memory tracer over context variables |

### Decisions

| Module | Models |
|---|---|
| `CapabilityValidation` | the validator of a definition, argument validation, preconditions |
| `CandidateJudgement` | the agent's checks, validation criteria, what a human may waive, the schema and roll-up views of a candidate, evaluation and drift |
| `AdaptiveAdvice` | evidence, aggregation, recommendations, the verdict on a delivery |
| `SemanticPlanning` | name resolution, join paths, fan-out, additivity, row policies of a plan |
| `SemanticSql` | the rows a compiled query, view and metric view read; the columns a metric rests on |
| `SemanticModels` | what the validator accepts and what planner, compiler and calendar demand later |
| `SemanticAccess` | the certification decision, overrides, life cycle of a certificate |
| `SemanticDrafting` | projection of a pipeline's outputs, the draft, its joins, the merge of a language model's answer |
| `PipelineSchema` | what the loader accepts; what interpreter, compiler and stream writer refuse |
| `PipelineSemantics` | one declarative pipeline, executed step by step and as one query |
| `RulePlanning` | rule profiles, dependency graph, stages, fused execution, the scan of rule modules |
| `LineageRegistry` | the graph of a document, bounded traversals, classifications, the registry's records |
| `KnowledgeSearch` | lexical, dense and hybrid search, walks over the graph |
| `EngineSetup` | environment detection, forced environments, sandboxes, the path of a pipeline to its target |
| `DataContracts` | contract identity, comparison of versions, export to and import from ODCS; checks derived from a document, their evaluation on rows with NULLs, reports, volume history, alert routing |
| `TracingExport` | exporters that fail around business code, the attribute allowlist |
| `McpSurface` | configuration, tokens, the query tool, paging, discovery and dispatch, resources, the status of a governed call |
| `Conversation` | hub routing, question to query, field and quality questions, the builder, session files |
| `LegacyAnalyzer` | the draft of a SQL statement, its run, the round trip, cycles in a corpus, emitted files, parity with the legacy table |

### Instances and proofs

`MCGovernedExecutor` and `MCPublication` give constants to
one machine each. `MCWorkflows` runs the other machines, and three more
instances of `Publication`, in one state space: they share no state, so a
behaviour belongs to one machine, named by `focus`, and `v1` to `v14` stand for
that machine's variables. It instantiates the proof modules of the machines that
have one, so that its own theorems can cite theirs. `MCGovernance` and `MCData` have one variable `case`:
it is empty, then some operation is asked with one of its inputs (`Ask`), and
every property says of the case at hand what its outcome must be. In
`MCGovernance` the sets of inputs about which there is a theorem are constants
(`CapabilityInputs`, `PageInputs` and so on); both configurations give them the
finite sets `SmallCapabilityInputs` and so on that the module defines.

The theorems are in eight modules. `MCWorkflows` proves its properties from the
theorems of the machines, `MCGovernance` its own seven from one lemma per
decision. The other six extend the modules they speak of:
`GovernedExecutorProofs`, `PublicationProofs`, `ExecutionServiceProofs`,
`DecisionProofs` (lemmas that `MCGovernance` cites about `DataContracts`,
`PipelineSchema` and `CandidateJudgement`), and two with one
independent section per machine: `WorkflowProofs` (`StreamTarget`, `ViewTarget`,
`AdaptiveWorkflow`, `SemanticGate`, `KnowledgeSync`) and `LifecycleProofs`
(`Candidates`, `SemanticSync`, `SpanTree`, and `CapabilityInvoker` with the broker).

### How state and actions correspond to the code

**Governed capabilities.** A thread's position in `_execute` or `compensate` is
`pc[t]`, its arguments and locals `frame[t]`, the durable log `journal[id]`.
Each place where the code touches something that others can change (the journal,
the live state, the clock, the broker, the external system) is a step; what it
computes between two such places is part of the step. `lock[b]` is the `RLock`
of a `GovernedExecutor` instance, `BoundaryOf` says which instance a thread
uses, so threads of one process and separate processes on one journal are both
instances of the model. `calls` and `effects` count, for the properties only,
invocations of the external executor and those that took effect, which may
happen after the caller gave up. A request identity is a model value: the hash
that forms it and the validation of its arguments (`CapabilityValidation`) are
abstracted to membership in `Authorized`.

**Credentials and invoker.** `phase[c]` is where a client stands in `issue_for`:
reserving under the lock, waiting for the provider, verifying, registering,
holding. `pending` and `active` are the broker's fields. `CapabilityInvoker`
adds the catalogue file, the definition file and what the registry has loaded of
either; edits and failing reloads fall between any two steps of `invoke`.

**Certified publication.** Every statement that writes to the store or to the
warehouse is a step of `proc[p]`, so a crash (`Abort`, also an exception that
leaves `publish`) falls between any two. A batch is a model value with the set of
critical checks it fails (`Fails`); a check that raises counts as failed, as in
the monitor. The run log is a sequence in insertion order; its rows carry the
stamp that `next_run_event_time` computes, and the queries order by that stamp.
The store is SQLite or Delta (`AtomicCheckBatch`). Lineage events, alerts, tags
and the metadata index are best effort and read by nothing here.

**Execution service.** `svc` holds the fields that the service's lock protects;
a method that runs under the lock is one action. `connect` releases the lock
while it builds the engine, `submit` before it starts the thread, and the job
thread holds it only at its beginning and end, so these are several actions. The
TTL comparisons are two flags: time raises them, an access lowers them.
`GetSparkSession` is `spark_factory.get_spark_session` in local mode: the
process has one live local Spark session and a second engine gets that one.

**Candidates and proposals.** Both keep their state in a store or in files
without transactions. An operation reads once into `frame[a]` (`proc[p]`), then
performs its writes one by one, as separate actions; `Crash` and `Die` end it
anywhere. Properties that hold only when operations do not overlap say so with
`Quiet` or `serial`, and the README lists what the overlap costs (section 6).

**Gate, sync, targets, index, spans.** `SemanticGate` takes the certificates at
`Preflight`, compiles, and takes them again at `RecheckQuery`, with publications,
reloads and time in between; which datasets a plan reads is chosen freely among
those over the root. `SemanticSync` computes the merge in one step, as the code
does in memory, and writes the two files in two. In `StreamTarget` a batch is
planned in the checkpoint's log, written, and committed; in `ViewTarget` a
statement is handed to the warehouse and executed at any later moment, while the
run polls and gives up at its deadline. `KnowledgeSync` reads the sources once
and writes nodes, edges, and two sets of removals in the code's order.
`SpanTree` gives the main context and a task that copied it their own context
variables, and tokens that restore them.

**Decisions.** An operator has the name of the function it translates. Data is
as small as the decision allows: a filter is the set of rows that satisfy it, a
schema a record of the blocks that the check reads, a name a member of a small
set. Where the text matters, it is modelled by what it does: the condition
`a OR b` followed by `AND c` is a sequence of OR groups to which `c` is added at
the end, which is why a missing parenthesis shows.

## 3. What TLC checks

Seven runs pass and five show a disagreement between the code and its documents
(section 6). A property of a run is often a conjunction of related named parts,
one per decision or machine; the parts carry the detailed comments.

| Run | Bounds | Shows |
|---|---|---|
| `executor` | 2 threads, 1 boundary, 1 request with 2 compensations, shadow and guarded mode, with and without leases, 1 crash, 1 reconciliation, still clock; fairness | one call per identity at most; the pre-call event is durable first; the journal is legal, bounded and true; one compensation, and COMPENSATED has an executed compensation; no contradictory replies; the boundary implements `CapabilityContract`; every call returns |
| `executor_supervised` | 1 thread, 5 approvals, 3 live states, 1 crash, a clock that steps back | a supervised call has an approval for this identity and this observed state; the MCP status says what happened |
| `publication` | 1 process, 2 runs of 1 target, a clean and a failing batch, 2 crashes, any resume, 1 operator | blocked runs stay out; the certification names the run whose rows are in the table; staged rows survive; one open incident per check, with evidence; a promoted run is not written again |
| `execution` | 2 clients, 2 configurations, 2 sessions, 2 jobs, failing thread starts and job groups; polling and fairness | a running job has an engine; results belong to their job; no local engine is leaked; terminal states are final; sessions leave connecting and jobs end |
| `workflows` | 2 clients, actors or reviewers, 2 output paths, symmetric; further bounds in `MCWorkflows` | the lease cap and the invoker's discipline; publication under a clock that stops or steps back, overlapping, or repeated; decisions on candidates and proposals on record and standing; certified reads; promotions that keep edits; stream and view targets; the knowledge index; the span tree |
| `governance_decisions` | about 540 000 cases | capability declarations, verdicts on candidates, advice, environments, side channels, checks and contracts, the MCP surface, what the loader accepts of a pipeline document, both executions of a pipeline over up to three tables |
| `data_decisions` | about 450 000 states | planned and compiled queries, drafts, drafts of legacy statements, rules, lineage, registry, search, conversations |

**Each property has a mutant** of a mapped definition that a plausible slip in
the code would produce (a dropped guard, two statements swapped, an off-by-one,
an error swallowed); TLC finds the property violated under the same
configuration.

**Why the bounds suffice.** The machines' properties are about pairs: two
callers of one identity, two compensations of one original, two runs of one
target, two connects or jobs, two deciders over one candidate, two reviewers of
one proposal. A third actor repeats what the second does. One crash is enough to
separate any prefix of an operation from a full later one; publication has two,
so that a recovery can itself fail. The stream needs three rows, so that a
replayed batch can contain a planned and an unplanned row with the same key; the
view three runs, so that a late statement of the first can meet the third. A
clock needs as many values as events whose order matters. Bounds on counters are
the constants `Max...`; no other counter is capped. In the decisions, inputs are
built so that every branch has a case on either side of it: two rows and a
duplicate for a check, three rules for a dependency and a bystander, four models
for two shortest paths, lists one longer than the limit they meet.

`Workflows.cfg` turns the deadlock check off: commands, requests and changes are
bounded, and a behaviour that used them all up has ended.

**Fairness.** `GovernedExecutor!FairSpec` gives weak fairness to the steps of a
thread inside the boundary: the injected callables return or raise (the code
imposes timeouts on none of them; a callable that never returns would hold the
lock). `ExecutionService!FairSpec` gives weak fairness to accepted requests and
to job threads. `PolledSpec` adds that clients poll, which
`docs/services_and_api.md` tells them to do, and that time passes; expiry is
lazy, so without a poll a job whose thread died stays running. The other
machines promise nothing in time: candidates, proposals and publications wait
for people or for the next run.

**Refinement.** `ImplementsContract` is `CapabilityContract!Contract` under the
mapping that takes the last inserted event of an identity as its life-cycle
state and the existence of an external call as `called`.

## 4. What is proved

TLC checks instances; the theorems hold for every value of the constants, under
the named assumption of each machine and the hypotheses in the statement. A
hypothesis is either what the code gives (then its comment says where), or what
the code needs and does not enforce (then the property is false without it, and
section 6 says what happens). The invariants below are inductive; TLC checked
them on small instances first.

### Governed execution (`GovernedExecutorProofs`, assumption `ConstantsAssumption`)

| Theorem | Says | Needs |
|---|---|---|
| `TypeCorrect` | `[]TypeOK` | |
| `WriteAhead` | no call without its pre-call event in the journal | |
| `RecordedSuccessIsReal` | EXECUTED speaks of an effect that took place | |
| `SupervisionHolds` | a supervised call has an approval of this request and of the state just checked | |
| `AtMostOnce` | one call per identity | `SharedBoundary` |
| `SupervisedCallersAreToldTheTruth` | the status over MCP is true when it is given | `SharedBoundary`, `ModesAreResolved` |
| `JournalsAreTrue`, `AnswersAgree` | logs are lawful, bounded and replayed; no contradictory replies | `SharedBoundary`, `~ClockStepsBack` |
| `ContractIsKept` | `Spec` implements `CapabilityContract` | the same, `ShadowFree` |
| `CompensationsAreSafe` | COMPENSATED is of an executed compensation, one per original | the same, `OnlyThroughCompensate` |

The first four hold for separate processes on one journal and for any clock. The
hypotheses of the others:

* `SharedBoundary`: all threads use one instance. The lock is per instance and
  the journal accepts the pre-call event of both, so two processes both call.
* `~ClockStepsBack`: `latest_state` orders by time stamp. A clock set back between
  two events of a request makes its last event look older.
* `ShadowFree`: no compensation resolves to SHADOW. One that does is proposed,
  not run, and its original still becomes COMPENSATED.
* `OnlyThroughCompensate`: no client executes a compensation identity directly,
  past the life cycle of its original.
* `ModesAreResolved`: the MCP tool passes the mode it resolved itself
  (`mcp/capability_tools.py`), so resolving it again changes nothing.

The argument is a chain. `TypeInv` adds to the types that a thread inside the
boundary has a frame with an identity. `AheadInv`: between the pre-call event and
the outcome the identity is in the journal. `OnceInv` relates the lock, its
owner's position, the empty journal and `calls`: a thread that has passed the
history check and has not written its pre-call event holds the lock, so nobody
else can have called its identity. `TruthInv`: a thread about to record a
success has seen the effect, or a probe that did. `ShapeInv` and `OpenInv` say that a
log is in time order and lawful, that its outcome is never contradicted, and that
it stays open while a thread works on it; `RetryInv` bounds the reconciliation
attempts. `RanInv`, `SingleInv` and `DoneInv` carry a compensation from its
request to the COMPENSATED event. The refinement follows: `ContractMove` lists
the contract's moves on `Life` (the last inserted event) and `Called`, and every
action of every thread is one of them or a stutter. `SupInv` is independent of
these.

### Certified publication (`PublicationProofs`, assumption `PublicationAssumption`)

| Theorem | Says | Needs |
|---|---|---|
| `TypeCorrect`, `LastStoredIsReported` | types; `get_run` returns the event stored last, even if the clock is set anywhere between two events (`SettableClockNext`) | |
| `StagedDataIsKept` | no interleaving loses a staged batch, run ids published again included | |
| `IncidentsHaveEvidence` | an incident names a quarantined run and a failed check | `MaxPublish <= 1` |
| `BlockedIsNotPromoted`, `PromotionHappensOnce` | a blocked run is never promoted, a promoted one never written again | `MaxPublish <= 1`, `[]OneCallPerRun` |
| `CertificationIsTrue` | the certification names the run whose rows are in the table, or a resume is due | `MaxPublish <= 1`, `ClockRuns`, `[]OneCallPerTarget` |
| `IncidentsAreCounted` | one open incident per dataset and check | `MaxPublish <= 1`, `[]OneCallPerTarget`, `[]NoStaleCommand` |
| `PublishedDataPassedChecks`, `PublishedRunsAreSafe` | targets hold only batches whose critical checks passed, and blocked runs stay out | `MaxPublish <= 1`, `Resumers = {}` |
| `RepublishedRunsAreSafe` | the same of run ids that are published again | `MaxAborts = 0`, `[]OneCallPerRun` |

`MaxPublish <= 1` is one `publish` per run_id: `start_publication_run` makes a new
one, or the job of the execution service passes its own (`core/patterns.py:224`);
only a caller that reuses one breaks it.
`OneCallPerRun` and `OneCallPerTarget` are not enforced by the store: a run is
resumed after its publish ended, and a scheduler runs one publication of a
target. `PublishedDataPassedChecks` and `PublishedRunsAreSafe` need neither: without a resume each run has one
call by itself. `PublishedDataPassedChecks` is exactly the property that the run
`publication_unchecked` refutes once a resume is possible. `NoStaleCommand`
says that no operator writes an incident that was resolved since it was read.

`TypeInv` adds that the stamps of a run increase in insertion order, from which
`get_run` is the last row (the row with the greatest stamp is found by
well-founded induction on stamps). `StageInv` is about one process: what its
position promises of staging. `CheckInv` relates the stored results to the
batch, `EvidenceInv` the incident that is about to be written to both.
`PromoteInv` says that PROMOTING and PROMOTED end a run, and that a process past
the block decision has an unblocked run. `CertInv` says that stamps increase
over the whole log, so that the latest promotion is the last inserted one.
`OpenInv` carries the absence of an open incident from its look-up to the write.
`AgainInv` is about a run id that is published several times: its first
publication is alone in the log until it has an outcome, with rows, results and
staged batch where its position says, and after the outcome no call on that run
promotes.

### Credentials and invocation (`LifecycleProofs`)

`CapHolds`, `ReservationsAreReturned` and `HeldLeasesAreBound` are about the
broker alone, under `BrokerAssumption` (finitely many clients). The sum that the code compares with the
cap counts a lease twice between its registration and the `finally` block, so it
is not the invariant; `CapInv` bounds the clients that have entered `issue_for`
or hold a lease. `CallsUseTheBroker` is a refinement: the invoker's
specification implies the broker's, so `CallsKeepTheCap` follows. `CallsAreSound`
is `InvocationIsSound` of the run `workflows`: the definition used agrees with
the catalogue as it was loaded, and the lease of a call is counted, bound, held
while its executor runs and dropped after.

### Execution service (`ExecutionServiceProofs`, assumption `ExecutionAssumption`)

`RunningHasEngine`, `ResultsMatch`, `NoLeak`, `TypeCorrect` are `Spec => []` of
`RunningJobHasEngine`, `ResultMatchesJob`, `NoEngineLeak`, `TypeOK`;
`TerminalFinal` is the action property `TerminalIsFinal`. They rest on one
inductive invariant, `IInv`. `Slot` is a predicate of the
protected fields, so that it can be carried through the sweep and the close
inside a locked method (`CancelRunningSlot`, `ClosedSlot`, `SweptShrinks`).
`ConnectInv` says that a connect outside the lock has a session id of its own,
and that this session is still in connecting unless it was superseded: without
it a late failure could take the engine from under a running job. `ThreadInv`
says that while a thread may still report, its job is running or cancelled:
without it a second report could overwrite a terminal state. The methods that
open no session and submit no job share one argument, `ShrinkStep`; the job
thread's steps share `JobStep`.

### Candidates (`LifecycleProofs`, assumption `CandidatesAssumption`)

`CandidatesAreOnRecord` is `Spec => []` of `TypeOK`, `StateIsRecorded`,
`DecisionRestsOnReport`, `SerialBooksAgree` and `SerialObjectsExist`;
`CandidatesStand` is `Spec => []` of the action properties `RejectedIsFinal` and
`DraftsAreNotTakenOver`. Both hold for every number of actors, layer versions,
requests and operations. `CandidateInv`, the inductive invariant, has three
parts:

* `Typed`: types, and the locals of every call.
* `RecordInv` holds whatever overlaps or dies. `Reading` is the idea of it: a row,
  the one in the table or one that a call read long ago, is in a state that
  somebody decided only if that state is in the history. Since a call appends its
  event before it writes the row, a stale row that is written back is still a
  reading, and nothing in the history is taken back, so that nobody but the
  acting call has to be looked at (`RecordMove`). `FrameOf` adds what each call
  has checked: the transition it is about to make is legal from the row that it
  read (`Legal`), the version that it decides on has a report.
* `SerialInv` is about operations one after the other. Between operations the
  books agree (`Books`: row, history, runs, index, views, drafts). During one,
  `SerialOf` says how far they are apart, phase by phase: an answer has counted a
  run that is not recorded yet, a promotion has its event and not its row.

The two of them meet in `TurnStep` and `EndStep`, which say what a step that goes
on, and one that ends, has to show; there is one lemma per action. `Crash` is
only possible when operations may overlap, which is what `serial` means; that
the books need not agree after one is in section 6.

### Promotion of a model (`LifecycleProofs`, assumption `SyncAssumption`)

`EditsSurvive` is `Spec => []` of `SyncTypeOK` and `PromotionKeepsEdits`, for any
payloads, names, keys, similar names and widening types. The assumption says that
every payload has the fields of `Fields`. The machine needs no more than its
types as an invariant, because every other case of the three-way merge stops the
promotion: `MergedModels` says that where a promotion goes ahead over a curated
file, the payload is the merge of draft, curated file and pipeline and no part of
it was refused; `EditIsKept` says that a value which differs from the base is then
the value of the merge. That holds in every state, so also after a promotion
that died between its two files.

### Spans (`LifecycleProofs`)

`SpansAreATree` is `Spec => []` of `ParentWasOpen` and `NestedScopesNest`, for any
number of spans. `SpanInv` has, besides types: a span's parent and the span that
its token restores are older (`Older`); parents were open and share the trace
(`Tree`); what a task finds in its context is a span of its own or one from before
its first (`Inheritance`); and while a task closes its spans innermost first, its
open spans are at or below its current one, and what a token restores hides none
of them (`Nesting`). `start_span` takes the
nearest open ancestor of the current span, a recursive function over the walk up
the tree. That this walk has a value, ends at an open span or at none, and stays
within what the task may inherit, is shown by least counterexample: `LeastNatural`
(every non-empty set of naturals has a least element) is applied to the spans for
which the claim fails, whose parent is smaller. TLC had checked `SpanInv` with four
spans (727 438 states).

### The machines of `workflows` (`WorkflowProofs`)

| Theorem | Says | Inductive invariant |
|---|---|---|
| `CheckpointIsBacked` | types; rows that the checkpoint skips are in the target, if a refresh finds the checkpoint (`Purgeable`) | `IngestInv`: also the batch just written, and the transaction mark of an append |
| `RowsAreAppendedOnce` | an append target has each row once, until a refresh died half-way | `OnceInv`: a row beyond the checkpoint is of the batch that the mark names |
| `BuiltViewsAreCurrent` | types; a successful run leaves its view with its own definition and data no older than its start | `CurrentInv`: what the run's pending statement is, and what a refresh finds |
| `StatusIsOnRecord`, `ProposalsAreDecidedOnce` | a status has its record on disk, a delivery is complete; one decision, and no delivered schema removed by another command | `ReviewInv`: who owns a file, records before statuses, and, while commands do not overlap, that the status found is still the one |
| `ReadsAreCertified` | an enforced query reads only certified, passing, fresh datasets, with any publications and reloads in between | `GateInv`, call by call |
| `IndexIsFaithful` | a complete batch mirrors its sources; what could not be read is not withdrawn; no vector of another text | `IndexInv`: the batch is of what one reading of the sources provided, and how far it has come |

`IndexIsFaithful` needs `"schemas" \notin Outages`: a refused listing of the
schemas themselves is an outage that the code takes for an empty catalogue
(section 6). `Purgeable` fails for an explicit checkpoint that the refresh is not
told of, as in the service's job.

### The run `workflows` (`MCWorkflows`, assumption `MachineAssumption`)

`LeasesAreCapped`, `InvocationsAreSound`, `ReadsAreCertified`, `IndexIsFaithful`,
`TargetsStayCurrent`, `PublicationsAreFaithful`, `DecisionsAreRecorded`,
`EditsSurvive` and `SpansAreATree` are `Spec => []` of `LeaseCap`,
`InvocationIsSound`, `EnforcedReadIsCertified`, `IndexMirrorsSources`,
`TargetsAreCurrent`, `PublicationIsFaithful`, `DecisionsAreOnRecord`,
`PromotionKeepsEdits` and `SpansFormATree`, and `DecisionsAreFinal` is
`Spec => DecisionsStand`: every property of the run, for every value of its
constants. A lemma per machine (`InvokerRuns`, `StreamRuns` and so on) says that a
behaviour whose focus is that machine is one of the machine's own specification;
the machine's theorem does the rest. `MachineAssumption` collects the assumptions
of the machines, which TLC evaluates on the run.

### Decisions on any input (`MCGovernance`, assumption `GovernanceAssumption`)

`AcceptedCapabilityIsAlwaysGuarded`, `CandidateVerdictIsAlwaysSound`,
`AdviceIsAlwaysBackedUp`, `EngineIsAlwaysOneEnvironment`,
`SideChannelsAreAlwaysHarmless`, `ChecksAlwaysConfirmTheOutput` and
`LoadedPipelinesAlwaysRun` are `Spec => []` of the properties of the run
`governance_decisions` (the names without "Always", and `LoadedPipelineRuns`): all
seven of them. The inputs are constants, so the
theorems hold for declarations, arguments, catalogues, evidence, chains of
events, tables, configurations, stores, exporters, reports, monitor runs,
contracts and pipeline documents of any number and size. The inductive invariant is small
(`Asked`: what is asked is an input of its decision); the work is one lemma per
decision:

* A schema that the validator accepts never makes argument validation read a
  keyword that is missing (`AcceptedSchemaIsAlwaysTotal`). Validator and argument
  check descend one schema in two recursions; the lemma `ValuesMeetTheirLevel`
  goes level by level and shows that every schema met by the second was
  accepted by the first at the same depth.
* A traversal that ends has listed the catalogue it started with
  (`PagesAlwaysListTheCatalog`), whatever is published between two pages. The
  invariant `Gathered` says that a traversal has all of that catalogue, its first
  keys with the cursor of the last, or a refusal.
* Listing and dispatch of tools, which filter the registry separately, agree
  (`ListedToolsAreAlwaysServed`); a request within the advertised schema is
  refused for no limit (`AdvertisedBoundsAlwaysHold`); what is cut says so.
* A span's attributes are allowed, however many are set and in whichever order,
  and the memory exporter and an SDK span end with the same ones
  (`AttributesAreAlwaysAllowed`): the runs of two recursive functions, related
  by induction on the number of attributes.
* The detectors pick one environment from lists of any length; a sandbox read
  leaves every table of another owner alone.
* No route to a candidate waives a safety check, and a validated one ran stably
  the required number of times on each side (`NoRouteEverWaivesSafety`,
  `StableRunsAgree`). What the agent answers is coherent for any answers of the
  model.
* The chronology read back from unordered events is the chain that was written
  (`TakeFollowsChain`): the events taken so far are the chain's first ones, so
  the next one in time that continues the last is the chain's next.
* A stored schema holds no filter value; two spellings that differ in order and
  values have one fingerprint (`SameBag`, `AlikeSchemas`), and a definition
  covers each element of its question (`EveryElementIsTold`, `KeptAndConverted`).
* The roll-up of groups is the aggregate of all rows, for any groups and any
  nonempty table (`SumOfGroups`, `ExtremesExist`): the fold of the community
  modules is shown to exist (`FoldExists`) and to be a sum (`FoldSums`).
* The percentile that advice is measured by is an order statistic
  (`NearestRank`): raising a duration never lowers it (`PercentileGrows`), so a
  slower outcome never looks better than a faster one.
* The checks derived from a document pass on what its pipeline wrote
  (`RowChecksAlwaysHold` in `DecisionProofs`), for any filters, columns and
  rows with NULLs: after `drop_duplicates` over keys without NULL, the number of
  rows is the number of their keys, because each key is kept at its least row.
  Where NULL keys are allowed this fails, which is the run `derived_checks`.
* A count is compared with the last stored one, whatever was flagged, empty or
  unwritable in between (`VariationIsAlwaysAgainstLastStored`): by induction on the
  runs, the history holds the report of the last run that was stored. The four
  verdicts on a report agree (`VerdictsAlwaysAgree`).
* A comparison of two stored definitions says what a comparison of the documents
  says (`DiffAlwaysSurvivesStorage`), and two harmless updates are harmless together
  (`NonBreakingAlwaysComposes`), with delays that cannot be parsed and unknown
  levels among the terms.
* A contract comes back from ODCS with its fields in order, their obligations,
  SLA, security, owner and grain, or with a warning, and a second export has the
  same rules (`OdcsAlwaysRoundTrips`); no part of a foreign document vanishes without
  a warning (`ImportIsAlwaysLossAware`). `InOrder` and `ImportOfExport` show that the
  first positions of distinct names are all positions.
* A document that loads is not refused by a later layer: the backend applies its
  operations (`LoadedOpsAlwaysApply`), its stream starts
  (`LoadedStreamAlwaysStarts`) from the base of its joins (`StreamIsAlwaysTheBase`),
  its view compiles (`LoadedViewAlwaysCompiles`), what contract and semantic seed
  promise is produced (`PromisesAreAlwaysProduced`), and its normalized
  materialization runs and loads again unchanged
  (`LoadedMaterializationAlwaysRuns`).
* The view that a pipeline compiles to returns the rows that running its steps
  does (`ViewsAgree`), for any tables with NULLs and repeated rows, filters, null
  drops, OR groups, columns, chains of joins of every kind but cross joins, and
  outputs. A table maps occurrences to rows, so that equality of two results counts
  repeated rows. By induction on the joins, both sides have the same occurrences and
  agree in the columns that the interpreter keeps; the compiled tree has more
  columns (the right keys of an ON join), and an ON join reads its key from the table
  it names: the invariant `OwnAgrees` says of each table in the tree what every row
  has of it. Filters, added columns, groups and measures read no other column
  (`OutputFits`).
* A file of partials loads exactly when it reaches no file that includes itself
  (`CyclesAreAlwaysRefused`). A call at some depth is accepted when no walk of that
  length meets a file twice (`AcceptedWalks`); the number of files bounds such a walk
  (the pigeonhole principle), and a file met twice is one that reaches itself
  (`LoadedRoots`).

`GovernanceAssumption` says of the inputs what the callers establish before: a
cached environment was read from the same version of the file (the cache is keyed
by path and time of modification), a table lies in a schema that exists,
limits lie under the ceilings (`ServiceLimits` refuses others), capability ids
are distinct and have a dot, so that no tool name is `query`, the keys of a
catalogue are distinct, the hash of a state is never the marker of an unreadable one.
Settings and thresholds lie in the ranges their constructors enforce
(`stability_runs` at least 1, a percentile between 0 and 100). A chain of events
moves on, its stamps do not decrease and its ids are distinct; within one stamp
it does not return to a state it left, since events of one time stamp are
otherwise ordered by nothing. A filter has an operator of the model, the rows of a
pipeline are a list; a contract that travels names each output field once (its
`output` is a mapping), and its grain lists some of these names, which the
loader enforces. A pipeline that is run names columns that its tables have, joins a table
that is there to one that is not, and shares columns between them only as the keys
of a USING join; SQL and the engine refuse others as ambiguous (`PipelineDomain`).
The tables, partials and joins of a document are lists, a
materialization has one of the three types, and files of partials are finitely
many. Nothing
is assumed of declarations, arguments, tokens, reports or a model's answers. TLC evaluates
the assumption on both runs of the module.

What these functions compute is defined by recursive functions over numbers
(levels, pages, attributes): that such a function exists is proved where it is
used (`LevelsOfSchema`, `PagesInTurn`, `Iterates`), by the least counterexample.

### Only model-checked

* Liveness (`CallsReturn`, `RequestsEnd`) needs fairness and `ENABLED`.
* The five properties of `MCData`: each says of one enumerated input what a
  function returns. Planner, compiler, analyzer and lineage are written with
  recursive operators over graphs, trees and documents, and a module that reaches
  one has no SMT backend; what they compute for every input needs induction over
  data, which the provers do not have. These outcomes are compared with references
  over enumerated inputs instead. Recursive operators are in `MCData`,
  `LegacyAnalyzer` and `LineageRegistry`, which no proof uses.
* `NoopMeansCurrent`, `PublishedDataPassedChecks` with a resume, and the other
  properties of the runs that expect a violation do not hold of the code.

## 5. What is not modelled

`components` in `PROJECT.json` says, part by part, what was left out. Whole
parts without a model:

* **Contract texts, audit and catalog mirror**: rendering, and a one-way copy of
  descriptions to Unity Catalog.
* **Model authoring inputs**: reading notebooks and glossaries, clients of
  language models. What a language model answers is an input everywhere.
* **Service layer, HTTP API, serving, CLI**: routing, scope checks, error
  mapping and printing. What they change goes through the modelled parts.

Within modelled parts: splitting of CTEs, recurring expressions and reports of the
legacy analyzer, and its expressions beyond columns; hashing and serialization (identities are values, a hash
is the payload it is computed from); the wording of messages, reports and
generated texts; YAML and Python syntax trees; BM25 weights and tokens;
floating-point values other than where a rounding decides (percentiles); SQL
layout; remote Spark modes and Spark itself, which appears as what it does to
rows and tables; the MCP SDK and HTTP transport.

## 6. Where the code and its documents disagree

Each of these is a run that TLC must find violated:

* `publication_unchecked`: `docs/governance.md` has the checks run before one of
  two paths is taken. A crash after STAGED and before the check results are
  stored leaves a run that `resume` promotes with no check at all.
* `execution_shared_spark`: two overlapping connects share the local Spark
  session, and the superseded one stops it under the engine reported as ready.
* `query_filters`: a base filter `A OR B` of a model and a filter `F` of a query
  become `A OR (B AND F)`, because a single-model statement joins them without
  parentheses.
* `semantic_promotion`: once a draft carries the pipeline's hash, `--promote`
  says "already current" although the curated model is older.
* `derived_checks`: a uniqueness check derived from `drop_duplicates_on` fails
  on correct output when a key is NULL or not selected.

Further limits, met while modelling and kept out of the properties, so that a
reader knows what they do not say:

**Capabilities.** Two processes on one journal both call (section 4). A clock
that steps back between two events of one request makes an executed request look
lost. A compensation in shadow mode runs nothing, returns "succeeded", and the
original is recorded as COMPENSATED. `docs/capabilities.md:56` has the
precondition rechecked immediately before execution; `CapabilityInvoker` rechecks
before it calls the credential provider. In `workflows` the invoker's world is
allowing or not; a state that moved and is still allowed is covered by the
precondition cases of `governance_decisions`. Over MCP, a "refused" status may
stand for a call that was executed but could not be stored, and one ambiguous
tool name hides the whole capability listing. The default limit of 100 is refused
where `max_query_rows` is smaller (`mcp/tools.py:264`), `in` lists are bounded by
the hard limit rather than the configured one, and `get_run` ignores a critical
ERROR that promotion blocks on.

**Publication and quality.** Two runs of one target that overlap may leave the
rows of one certified as the other, and two open incidents of a check; a run_id
published again together with crashes, or a resume during a publish, can promote
unchecked rows; a clock that steps back between two runs keeps the certification
with the older one. An operator's late write reopens an incident that a promotion
resolved. A freshness check that is critical is always skipped, and blocks
without an incident. Checks on columns that the select drops or renames fail as
errors. A reused list of checks keeps its first volume baseline.

**Execution service.** An exception while the Spark job group is set leaves a job
running until its TTL. Cancelling frees the slot at once, while the cancelled
thread goes on. An engine construction that fails after it obtained a Spark
session leaves that session (`spark_factory.py:136`; not modelled).

**Candidates and proposals.** With a minimum stability of 0 a candidate whose
every run failed is validated. A level-1 view created before a crash is left
behind (`candidates/promotion.py:339`). A level-2 view over no rows shows NULL
where a count is 0, and is not exact under a `having` that drops groups. Drafts
of a stamp that equals a move's sort after it. Two accepts that overlap may leave
an accepted proposal without its delivery record; accepting again after the
sources moved marks a delivered proposal stale; an accept that died leaves a file
that blocks its path.

**Semantic layer.** `evaluate_lifecycle` has no caller. The gate falls back to a
certificate under the logical name, and a view is checked at its root only.
Expiry counts whole days. Metric views carry the base filter but no row policy. An
override with a too distant end is refused now and accepted later. Date bounds
without a date dimension are ignored, and an inverted explicit period is accepted.
Metric filters with OR are not parenthesised. Operators that
`docs/agentic.md:235` names are missing from `_OPERATOR_MAP`. The validator does
not compare the lengths of composite keys. Promotion can drop or replace curated
items whose counterpart the pipeline generates (`docs/semantic.md:201`). The
projector keeps an earlier type after a later text operation; draft metrics of an
aggregated pipeline name the column before aggregation, and cardinality evidence
from an output grain does not hold for them. `output_projection.py:214` builds a
field without its required entity.

**Pipelines.** The loader does not compare the names of two tables, so a table
may take the name under which another is loaded (`core/interpreter.py:398`), and a
stream's joins then start from that one (`Shadowed` leaves such documents out of
`StreamIsTheBase`). A join type that nobody knows
loads, and is refused when the joins are parsed (`core/ir.py:384`). Operation names are checked case-insensitively at load and
case-sensitively when applied; a `when` with `sql` loads but cannot be dispatched;
operators of `having`, and the number of values of `between`, are not checked at
load. A select row without source and operations, `keep_all` and `add_columns`
with joins compile differently from how they run. So does an ON join on a key that
an earlier USING join merged: the view reads it from the table that the join names
(`core/sql_compiler.py:408`), which an outer join leaves NULL, and the
interpreter reads the merged column (`core/interpreter.py:527`); `KeysApart` leaves
such pipelines out of `CompiledViewAgrees`. Forcing an environment still
runs the detection (`core/core.py:187`), whose cache is never checked again. Two
user names that differ in punctuation share a sandbox suffix. A full refresh that
dies between purge and drop leaves rows that a replay duplicates, purge errors are
ignored, and the service's job does not pass an explicit checkpoint
(`services/execution.py:515`). Rules that read themselves are no dependency; a
fused stage reads the row before the stage. Checks after a plain write raise when
the table has already been overwritten.

**Lineage, knowledge, tracing.** A measure over an added or rule-made column has
no traceable edge, unqualified columns of joined tables go to the primary table,
and re-indexing an earlier definition leaves the later one current. Joins in both
directions make the merged graph cyclic, and queries on it refuse. Schemas that
cannot be listed withdraw every catalogue node; a source that could not be read
is overwritten by a lower one. The exporters do not bound the number of events
(`docs/observability.md:441`), and a dual exporter whose second part fails to
start leaves a span open.

**Agents and exchange.** The model named by the second step of a translation may
differ from the one selected; the view, plan and policy follow the former, a
single-model statement is compiled from the latter. An unparsable second step
becomes an empty query over the selected model. A refusal by a row policy leaves
no history entry. A routed quality check ignores the default schema. Accents in
profile aliases are never matched. An ODCS document with a team and a steward
comes back as the steward only; a field without a type becomes "unknown"; a
single unique field becomes a grain.

**Legacy analyzer.** A condition is pushed to its table even when a later RIGHT
or FULL join makes that table optional, and keys of one name lose their alias, so
that `LEFT JOIN b ... WHERE b.k IS NULL` asks for the merged key
(`FiltersAreEarly` and `KeysStayApart` leave these out of the property). `LEFT
OUTER JOIN` is mapped to an inner join (`mapper.py:379`); the round trip reports
it. Drafts of a ROW_NUMBER deduplication and of a cross join do not run, because
the interpreter wants another `order_by` and a join column. SELECT DISTINCT with
OR, or with aliases, deduplicates other rows or columns. Of two units with one
path, and of two statements with one target, the last is drafted, and the graph
sees the reads of the last only. A draft is "unchanged" when its own script is,
whatever the rules wired into it. Rows that share a key, or have none, can make
equal tables differ.

## 7. Plan

Done: governed capabilities with credentials and invoker, publication with
incidents, execution service, candidates, adaptive proposals, the semantic layer
from planning to sync, pipelines and their targets, rules, lineage, registry,
knowledge, tracing, contracts, MCP, agents and the legacy analyzer.

Left, in this order:

1. Proofs: the certification decision of `SemanticAccess` and the planner's checks,
   by the same method as section 4's decisions.
2. Model: building an engine on a Spark session that exists already
   (`spark_factory.py`), the orchestration templates, the configuration
   validators, the joins that the compiler refuses.
3. Composition: a capability call through MCP, invoker and executor with the
   real broker, now checked in parts.
