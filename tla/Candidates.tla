------------------------------ MODULE Candidates -----------------------------
(***************************************************************************)
(* The life of one metric candidate: the agent that records requests       *)
(* (agentic/candidate_agent.py), the validation job (candidates/           *)
(* validator.py, promotion.py) and the human decisions (candidates/        *)
(* service.py) over one store without transactions.  Every operation reads *)
(* the row once, then performs its writes one by one; other actors run and *)
(* processes die in between.                                               *)
(*                                                                         *)
(* The append-only history is kept as what the code and the properties ask *)
(* of it: the state after the last event, the states some event led to,    *)
(* the layer versions of reports and of decisions.                         *)
(***************************************************************************)
EXTENDS Naturals, FiniteSets

CONSTANTS Actors,        \* processes: agents, jobs, people at a command line
          Versions,      \* versions of the semantic layer
          MaxRequests,   \* bound of request_count
          MaxOperations, \* bound of the operations started
          SqlMayFail     \* whether the warehouse may refuse a statement

CandidatesAssumption ==
    /\ MaxRequests \in Nat /\ MaxOperations \in Nat /\ SqlMayFail \in BOOLEAN
    /\ "none" \notin Actors

VARIABLES serial,    \* TRUE: operations do not overlap and nobody dies
          row,       \* the row of metric_candidates
          log,       \* metric_certification_history
          view,      \* whether the level 1 view exists
          node,      \* its node in the knowledge index
          runs,      \* successful answer runs
          files,     \* the two drafts: none, or the actor that made them
          layer,     \* current semantic layer version
          started,   \* operations started so far
          frame      \* what each actor is doing

cvars == <<serial, row, log, view, node, runs, files, layer, started, frame>>

ALLOWED_TRANSITIONS ==
    [candidate    |-> {"validated", "needs_review", "rejected"},
     validated    |-> {"promoted", "needs_review", "rejected"},
     needs_review |-> {"promoted", "rejected"},
     promoted     |-> {"under_review", "demoted"},
     under_review |-> {"promoted", "demoted"},
     demoted      |-> {"candidate"},
     rejected     |-> {}]
CANDIDATE_STATES == DOMAIN ALLOWED_TRANSITIONS

\* check_transition as the constructor of an event applies it.
check_transition(from, to) == from = to \/ to \in ALLOWED_TRANSITIONS[from]

NoRow == [state |-> "none", published |-> FALSE, count |-> 0]
Idle == [op |-> "none", at |-> "idle", row |-> NoRow, version |-> 0, outcome |-> "none"]

Init ==
    /\ serial \in BOOLEAN
    /\ row = NoRow
    /\ log = [last |-> "none", recorded |-> {}, judged |-> 0, reported |-> {}, decided |-> {}]
    /\ view = FALSE /\ node = "absent" /\ runs = 0
    /\ files = [i \in 1..2 |-> "none"]
    /\ layer \in Versions
    /\ started = 0
    /\ frame = [a \in Actors |-> Idle]

Free(a) == frame[a] = Idle /\ started < MaxOperations /\ (serial => \A b \in Actors : frame[b] = Idle)
At(a, op, at) == frame[a].op = op /\ frame[a].at = at
Start(a, op, at, version, outcome) ==
    /\ frame' = [frame EXCEPT ![a] = [op |-> op, at |-> at, row |-> row, version |-> version,
                                      outcome |-> outcome]]
    /\ started' = started + 1
Goto(a, at) == frame' = [frame EXCEPT ![a].at = at] /\ UNCHANGED started
End(a) == frame' = [frame EXCEPT ![a] = Idle] /\ UNCHANGED started

\* append_event: version 0 is an event without one, report one with a report.
Logged(l, new, version, report) ==
    [l EXCEPT !.last = new, !.recorded = @ \union {new},
              !.judged = IF report THEN version ELSE @,
              !.reported = IF report THEN @ \union {version} ELSE @]
Decided(l, new, version) ==
    [Logged(l, new, version, FALSE) EXCEPT !.decided = @ \union ({version} \ {0})]
------------------------------------------------------------------------------
\* The agent answered: _persist reads by fingerprint, writes, and only for a
\* new candidate appends the event; answer then appends the run.
AnswerRead(a) ==
    /\ Free(a) /\ runs < MaxRequests /\ row.count < MaxRequests
    /\ Start(a, "answer", "write", 0, "none")
    /\ UNCHANGED <<serial, row, log, view, node, runs, files, layer>>

AnswerWrite(a) ==
    /\ At(a, "answer", "write")
    /\ IF frame[a].row = NoRow
       THEN row' = [state |-> "candidate", published |-> FALSE, count |-> 1] /\ Goto(a, "event")
       ELSE row' = [frame[a].row EXCEPT !.count = @ + 1] /\ Goto(a, "run")
    /\ UNCHANGED <<serial, log, view, node, runs, files, layer>>

AnswerEvent(a) ==
    /\ At(a, "answer", "event")
    /\ log' = Logged(log, "candidate", 0, FALSE)
    /\ Goto(a, "run")
    /\ UNCHANGED <<serial, row, view, node, runs, files, layer>>

AnswerRun(a) ==
    /\ At(a, "answer", "run")
    /\ runs' = runs + 1
    /\ End(a)
    /\ UNCHANGED <<serial, row, log, view, node, files, layer>>

\* The candidate could not be computed: _record_failure rejects it, row first.
FailRead(a) ==
    /\ Free(a) /\ row # NoRow /\ "rejected" \in ALLOWED_TRANSITIONS[row.state]
    /\ Start(a, "fail", "write", 0, "none")
    /\ UNCHANGED <<serial, row, log, view, node, runs, files, layer>>

FailWrite(a) ==
    /\ At(a, "fail", "write")
    /\ row' = [frame[a].row EXCEPT !.state = "rejected"]
    /\ Goto(a, "event")
    /\ UNCHANGED <<serial, log, view, node, runs, files, layer>>

FailEvent(a) ==
    /\ At(a, "fail", "event")
    /\ log' = Logged(log, "rejected", 0, FALSE)
    /\ End(a)
    /\ UNCHANGED <<serial, row, view, node, runs, files, layer>>
------------------------------------------------------------------------------
\* skifer candidates validate: the report, judged on one reading of the row.
Judge(a) ==
    /\ Free(a) /\ row # NoRow
    /\ \E outcome \in {"validated", "needs_review", "pending"} :
           Start(a, "validate", "apply", layer, outcome)
    /\ UNCHANGED <<serial, row, log, view, node, runs, files, layer>>

\* apply_report reads the row again; a measured stability is stored at once.
ApplyRead(a) ==
    /\ At(a, "validate", "apply")
    /\ \E measured \in BOOLEAN :
        /\ frame[a].outcome = "validated" => measured
        /\ frame[a].outcome = "pending" => ~measured
        /\ frame' = [frame EXCEPT ![a].row = row, ![a].at = IF measured THEN "score" ELSE "outcome"]
    /\ UNCHANGED started
    /\ UNCHANGED <<serial, row, log, view, node, runs, files, layer>>

ApplyScore(a) ==
    /\ At(a, "validate", "score")
    /\ row' = frame[a].row
    /\ Goto(a, "outcome")
    /\ UNCHANGED <<serial, log, view, node, runs, files, layer>>

\* pending ends here, needs_review goes on if the graph allows it, validated
\* publishes unless its metric view cannot be translated.
ApplyOutcome(a) ==
    /\ At(a, "validate", "outcome")
    /\ \E translated \in BOOLEAN :
        IF frame[a].outcome = "validated" /\ translated THEN Goto(a, "publish")
        ELSE IF /\ frame[a].outcome # "pending"
                /\ "needs_review" \in ALLOWED_TRANSITIONS[frame[a].row.state]
        THEN Goto(a, "review_event")
        ELSE End(a)
    /\ UNCHANGED <<serial, row, log, view, node, runs, files, layer>>

\* The level 1 statements; a failure leaves what ran before it.
ApplyPublish(a) ==
    /\ At(a, "validate", "publish")
    /\ \/ view' = TRUE /\ Goto(a, IF frame[a].row.state = "candidate" THEN "valid_event" ELSE "promote_event")
       \/ SqlMayFail /\ view' \in {view, TRUE} /\ End(a)
    /\ UNCHANGED <<serial, row, log, node, runs, files, layer>>

ApplyValidated(a) ==
    /\ At(a, "validate", "valid_event")
    /\ log' = Logged(log, "validated", frame[a].version, FALSE)
    /\ Goto(a, "promote_event")
    /\ UNCHANGED <<serial, row, view, node, runs, files, layer>>

\* The event constructor raises on an illegal transition: the job stops there.
ApplyPromoted(a) ==
    /\ At(a, "validate", "promote_event")
    /\ LET from == IF frame[a].row.state = "candidate" THEN "validated" ELSE frame[a].row.state
       IN IF check_transition(from, "promoted")
          THEN log' = Logged(log, "promoted", frame[a].version, TRUE) /\ Goto(a, "promote_row")
          ELSE End(a) /\ UNCHANGED log
    /\ UNCHANGED <<serial, row, view, node, runs, files, layer>>

ApplyRow(a) ==
    /\ At(a, "validate", "promote_row")
    /\ row' = [frame[a].row EXCEPT !.state = "promoted", !.published = TRUE]
    /\ Goto(a, "index")
    /\ UNCHANGED <<serial, log, view, node, runs, files, layer>>

ApplyReviewEvent(a) ==
    /\ At(a, "validate", "review_event")
    /\ log' = Logged(log, "needs_review", frame[a].version, TRUE)
    /\ Goto(a, "review_row")
    /\ UNCHANGED <<serial, row, view, node, runs, files, layer>>

ApplyReviewRow(a) ==
    /\ At(a, "validate", "review_row")
    /\ row' = [frame[a].row EXCEPT !.state = "needs_review"]
    /\ End(a)
    /\ UNCHANGED <<serial, log, view, node, runs, files, layer>>

Apply(a) ==
    \/ Judge(a) \/ ApplyRead(a) \/ ApplyScore(a) \/ ApplyOutcome(a) \/ ApplyPublish(a)
    \/ ApplyValidated(a) \/ ApplyPromoted(a) \/ ApplyRow(a) \/ ApplyReviewEvent(a) \/ ApplyReviewRow(a)
------------------------------------------------------------------------------

\* _check_fresh: the last report was made against the current layer.
Fresh == log.judged = layer

\* After the checks: the event at once, or first the SQL of approve and demote.
FirstPhase == [reject |-> "event", review |-> "event", approve |-> "publish", demote |-> "drop"]
Target == [reject |-> "rejected", review |-> "under_review", approve |-> "promoted", demote |-> "demoted"]

\* A human decision: state and freshness are checked on one reading.
Decide(a) ==
    /\ Free(a) /\ row # NoRow
    /\ \E op \in DOMAIN Target :
        /\ Target[op] \in ALLOWED_TRANSITIONS[row.state]
        /\ op # "reject" => Fresh
        /\ Start(a, op, FirstPhase[op], IF op = "reject" THEN 0 ELSE layer, "none")
    /\ UNCHANGED <<serial, row, log, view, node, runs, files, layer>>

\* approve revalidates coherence, then publishes; demote drops the views.
DecideSql(a) ==
    /\ \/ At(a, "approve", "publish") /\ view' = TRUE /\ Goto(a, "event")
       \/ At(a, "approve", "publish") /\ End(a) /\ UNCHANGED view          \* coherence refused
       \/ At(a, "demote", "drop") /\ view' = (view /\ ~frame[a].row.published) /\ Goto(a, "event")
       \/ SqlMayFail /\ At(a, "approve", "publish") /\ view' \in {view, TRUE} /\ End(a)
       \/ SqlMayFail /\ At(a, "demote", "drop") /\ End(a) /\ UNCHANGED view
    /\ UNCHANGED <<serial, row, log, node, runs, files, layer>>

\* Mutant of TransitionEvent: a decision about a published candidate writes
\* the row first.
TransitionRowFirst(a) ==
    /\ frame[a].op \in DOMAIN Target /\ frame[a].at = "event"
    /\ Goto(a, "row")
    /\ IF frame[a].op = "reject"
       THEN log' = Decided(log, "rejected", frame[a].version) /\ UNCHANGED row
       ELSE row' = [frame[a].row EXCEPT !.state = Target[frame[a].op]] /\ UNCHANGED log
    /\ UNCHANGED <<serial, view, node, runs, files, layer>>

\* _transition: the event, then the row.
TransitionEvent(a) ==
    /\ frame[a].op \in DOMAIN Target /\ frame[a].at = "event"
    /\ log' = Decided(log, Target[frame[a].op], frame[a].version)
    /\ Goto(a, "row")
    /\ UNCHANGED <<serial, row, view, node, runs, files, layer>>

TransitionRow(a) ==
    /\ frame[a].op \in DOMAIN Target /\ frame[a].at = "row"
    /\ row' = [frame[a].row EXCEPT
                  !.state = Target[frame[a].op],
                  !.published = frame[a].op = "approve" \/ (@ /\ frame[a].op # "demote")]
    /\ IF frame[a].op \in {"approve", "demote"} THEN Goto(a, "index") ELSE End(a)
    /\ UNCHANGED <<serial, log, view, node, runs, files, layer>>

\* The knowledge index follows the row, last.
Index(a) ==
    /\ frame[a].op \in {"validate", "approve", "demote"} /\ frame[a].at = "index"
    /\ node' = IF frame[a].op = "demote" THEN IF node = "absent" THEN node ELSE "removed" ELSE "present"
    /\ End(a)
    /\ UNCHANGED <<serial, row, log, view, runs, files, layer>>
------------------------------------------------------------------------------
\* candidates promote: both drafts must be absent, then are created O_EXCL.
DraftStart(a) ==
    /\ Free(a) /\ row.state \in {"promoted", "validated"} /\ Fresh
    /\ \A i \in 1..2 : files[i] = "none"
    /\ Start(a, "draft", "first", layer, "none")
    /\ UNCHANGED <<serial, row, log, view, node, runs, files, layer>>

\* Mutant of Mine: the file that could not be created counts as created.
MineOrTheirs(a) == 1..2

\* The files _create_all removes when it fails: those it created itself.
Mine(a) == {i \in 1..2 : files[i] = a}

Clean(a) == files' = [i \in 1..2 |-> IF i \in Mine(a) THEN "none" ELSE files[i]]

DraftCreate(a) ==
    /\ \E i \in 1..2 :
        /\ At(a, "draft", IF i = 1 THEN "first" ELSE "second")
        /\ IF files[i] = "none"
           THEN files' = [files EXCEPT ![i] = a] /\ Goto(a, IF i = 1 THEN "second" ELSE "content")
           ELSE Clean(a) /\ End(a)
    /\ UNCHANGED <<serial, row, log, view, node, runs, layer>>

\* The contents are written and synced; an error removes both files.
DraftContent(a) ==
    /\ At(a, "draft", "content")
    /\ \/ Goto(a, "event") /\ UNCHANGED files
       \/ Clean(a) /\ End(a)
    /\ UNCHANGED <<serial, row, log, view, node, runs, layer>>

DraftEvent(a) ==
    /\ At(a, "draft", "event")
    /\ log' = Decided(log, frame[a].row.state, frame[a].version)
    /\ Goto(a, "row")
    /\ UNCHANGED <<serial, row, view, node, runs, files, layer>>

DraftRow(a) ==
    /\ At(a, "draft", "row")
    /\ row' = frame[a].row
    /\ End(a)
    /\ UNCHANGED <<serial, log, view, node, runs, files, layer>>

\* semantic_catalog.yaml is edited.
LayerChanges ==
    /\ serial => \A a \in Actors : frame[a] = Idle
    /\ layer' \in Versions \ {layer}
    /\ UNCHANGED <<serial, row, log, view, node, runs, files, started, frame>>

\* A process dies between two of its writes.
Crash(a) == ~serial /\ frame[a] # Idle /\ End(a)
            /\ UNCHANGED <<serial, row, log, view, node, runs, files, layer>>

Next ==
    \/ \E a \in Actors :
        \/ AnswerRead(a) \/ AnswerWrite(a) \/ AnswerEvent(a) \/ AnswerRun(a)
        \/ FailRead(a) \/ FailWrite(a) \/ FailEvent(a)
        \/ Apply(a)
        \/ Decide(a) \/ DecideSql(a) \/ TransitionEvent(a) \/ TransitionRow(a) \/ Index(a)
        \/ DraftStart(a) \/ DraftCreate(a) \/ DraftContent(a) \/ DraftEvent(a) \/ DraftRow(a)
        \/ Crash(a)
    \/ LayerChanges

Spec == Init /\ [][Next]_cvars
------------------------------------------------------------------------------
TypeOK ==
    /\ row.state \in CANDIDATE_STATES \union {"none"} /\ row.count \in 0..MaxRequests
    /\ log.last \in CANDIDATE_STATES \union {"none"}
    /\ log.recorded \subseteq CANDIDATE_STATES /\ log.judged \in Versions \union {0}
    /\ view \in BOOLEAN /\ node \in {"absent", "present", "removed"}
    /\ files \in [1..2 -> Actors \union {"none"}] /\ started \in 0..MaxOperations
    /\ layer \in Versions

Quiet == serial /\ \A a \in Actors : frame[a] = Idle
Live == row.state \in {"promoted", "under_review"}

\* Whatever overlaps or dies, a candidate is never found promoted, demoted or
\* under review without a history event that says who decided it.
StateIsRecorded == row.state \in {"needs_review", "promoted", "under_review", "demoted"}
                       => row.state \in log.recorded

\* Every human decision that needs a judgement refers to a layer version for
\* which a validation report is on record.
DecisionRestsOnReport == log.decided \subseteq log.reported

\* Drafts are created O_EXCL and removed only by their creator: a concurrent
\* promotion neither overwrites nor deletes another one's files.
DraftsAreNotTakenOver ==
    \A i \in 1..2 : files[i] # "none" /\ files'[i] # files[i]
        => files'[i] = "none" /\ frame[files[i]].op = "draft"

\* Operations one after the other: the row is where the history ends, counts
\* every answered request, and its index node follows it.
SerialBooksAgree ==
    Quiet /\ row # NoRow =>
        /\ row.state = log.last
        /\ row.count = runs
        /\ Live <=> node = "present"

\* Operations one after the other: what is promoted has its level 1 view,
\* and a draft never has only one of its two files.
SerialObjectsExist ==
    Quiet => /\ Live => view
             /\ files[1] = "none" <=> files[2] = "none"

\* Operations one after the other: no report, request or decision brings a
\* rejected candidate back.
RejectedIsFinal == serial /\ row.state = "rejected" => row'.state = "rejected"
==============================================================================
