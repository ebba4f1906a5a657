---------------------------- MODULE AdaptiveWorkflow -------------------------
(***************************************************************************)
(* The review of one adaptive proposal (adaptive/workflow.py, generator.py *)
(* and the adaptive command of cli.py).  Its state is files: proposal.json *)
(* with the status, delivery.json, decision.json, evaluation.json and the  *)
(* delivered schema.  Each command reads once and then writes file by      *)
(* file, without a lock; a write may fail and a process may die anywhere.  *)
(***************************************************************************)
EXTENDS Naturals, FiniteSets

CONSTANTS Reviewers,     \* processes running the command
          Outputs,       \* paths a schema may be delivered to
          MaxCommands    \* bound of the commands started

AdaptiveAssumption == MaxCommands \in Nat /\ "none" \notin Outputs

VARIABLES serial,       \* TRUE: commands do not overlap (they may still die)
          status,       \* of proposal.json, or "absent"
          delivery,     \* the path in delivery.json, or "none"
          decision,     \* whether decision.json exists
          evaluation,   \* whether evaluation.json exists
          output,       \* the files at Outputs
          current,      \* whether the sources are those of the proposal
          commands,     \* commands started
          proc          \* what each process is doing

wvars == <<serial, status, delivery, decision, evaluation, output, current, commands, proc>>

Statuses == {"proposed", "accepted", "rejected", "stale", "measured"}
Idle == [at |-> "idle", to |-> "none"]

ReviewInit ==
    /\ serial \in BOOLEAN
    /\ status = "absent" /\ delivery = "none" /\ decision = FALSE /\ evaluation = FALSE
    /\ output = [o \in Outputs |-> "absent"]
    /\ current = TRUE /\ commands = 0
    /\ proc = [p \in Reviewers |-> Idle]

Begin(p, at, to) ==
    /\ proc[p] = Idle /\ commands < MaxCommands
    /\ serial => \A q \in Reviewers : proc[q] = Idle
    /\ commands' = commands + 1
    /\ proc' = [proc EXCEPT ![p] = [at |-> at, to |-> to]]
Goto(p, at) == proc' = [proc EXCEPT ![p].at = at] /\ UNCHANGED commands
End(p) == proc' = [proc EXCEPT ![p] = Idle] /\ UNCHANGED commands
------------------------------------------------------------------------------
\* generate stages everything and renames the directory; a directory that is
\* there already is left as it is, whether it is identical or not.
Generate(p) ==
    /\ proc[p] = Idle /\ commands < MaxCommands /\ (serial => \A q \in Reviewers : proc[q] = Idle)
    /\ status = "absent"
    /\ status' = "proposed" /\ commands' = commands + 1
    /\ UNCHANGED <<serial, delivery, decision, evaluation, output, current, proc>>

\* accept: a proposal that is not stale but whose sources moved is marked.
AcceptOutdated(p, o) ==
    /\ status \notin {"absent", "stale"} /\ ~current
    /\ Begin(p, "mark stale", o)
    /\ UNCHANGED <<serial, status, delivery, decision, evaluation, output, current>>
MarkStale(p) ==
    /\ proc[p].at = "mark stale"
    /\ \/ status' = "stale"
       \/ UNCHANGED status
    /\ End(p)
    /\ UNCHANGED <<serial, delivery, decision, evaluation, output, current>>

\* An existing output is a conflict (or, if identical and accepted, nothing
\* is done); so is a status other than proposed.
AcceptRead(p, o) ==
    /\ status = "proposed" /\ current /\ output[o] = "absent"
    /\ Begin(p, "create", o)
    /\ UNCHANGED <<serial, status, delivery, decision, evaluation, output, current>>

AcceptCreate(p) ==
    /\ proc[p].at = "create"
    /\ IF output[proc[p].to] = "absent"      \* O_EXCL
       THEN output' = [output EXCEPT ![proc[p].to] = "partial"] /\ Goto(p, "content")
       ELSE UNCHANGED output /\ End(p)
    /\ UNCHANGED <<serial, status, delivery, decision, evaluation, current>>
AcceptContent(p) ==
    /\ proc[p].at = "content"
    /\ \/ output' = [output EXCEPT ![proc[p].to] = "complete"] /\ Goto(p, "deliver")
       \/ output' = [output EXCEPT ![proc[p].to] = "absent"] /\ End(p)
    /\ UNCHANGED <<serial, status, delivery, decision, evaluation, current>>

\* A write that fails after the content undoes the output and the delivery.
Undo(p) ==
    /\ output' = [output EXCEPT ![proc[p].to] = "absent"]
    /\ delivery' = "none"
    /\ End(p)
AcceptDelivery(p) ==
    /\ proc[p].at = "deliver"
    /\ \/ delivery' = proc[p].to /\ Goto(p, "accept") /\ UNCHANGED output
       \/ Undo(p)
    /\ UNCHANGED <<serial, status, decision, evaluation, current>>
AcceptStatus(p) ==
    /\ proc[p].at = "accept"
    /\ \/ status' = "accepted" /\ End(p) /\ UNCHANGED <<delivery, output>>
       \/ Undo(p) /\ UNCHANGED status
    /\ UNCHANGED <<serial, decision, evaluation, current>>

\* reject: only a proposed one; repeating a rejection does nothing.
RejectRead(p) ==
    /\ status = "proposed"
    /\ Begin(p, "decide", "none")
    /\ UNCHANGED <<serial, status, delivery, decision, evaluation, output, current>>
RejectDecision(p) ==
    /\ proc[p].at = "decide"
    /\ \/ decision' = TRUE /\ Goto(p, "reject")
       \/ UNCHANGED decision /\ End(p)
    /\ UNCHANGED <<serial, status, delivery, evaluation, output, current>>
RejectStatus(p) ==
    /\ proc[p].at = "reject"
    /\ \/ status' = "rejected"
       \/ UNCHANGED status
    /\ End(p)
    /\ UNCHANGED <<serial, delivery, decision, evaluation, output, current>>

\* evaluate: load_delivery insists on a status and on the file, the usage is
\* evaluated, and record_outcome loads the proposal again.
EvaluateLoad(p) ==
    /\ status \in {"accepted", "measured"} /\ delivery # "none"
    /\ Begin(p, "evaluated", "none")
    /\ UNCHANGED <<serial, status, delivery, decision, evaluation, output, current>>
RecordLoad(p) ==
    /\ proc[p].at = "evaluated"
    /\ IF status \in {"accepted", "measured"} THEN Goto(p, "record") ELSE End(p)
    /\ UNCHANGED <<serial, status, delivery, decision, evaluation, output, current>>
RecordOutcome(p) ==
    /\ proc[p].at = "record"
    /\ \/ evaluation' = TRUE /\ Goto(p, "measure")
       \/ UNCHANGED evaluation /\ End(p)
    /\ UNCHANGED <<serial, status, delivery, decision, output, current>>
RecordStatus(p) ==
    /\ proc[p].at = "measure"
    /\ \/ status' = "measured"
       \/ UNCHANGED status
    /\ End(p)
    /\ UNCHANGED <<serial, delivery, decision, evaluation, output, current>>

SourcesMove ==
    /\ current' = ~current
    /\ UNCHANGED <<serial, status, delivery, decision, evaluation, output, commands, proc>>
Die(p) ==
    /\ proc[p] # Idle
    /\ End(p)
    /\ UNCHANGED <<serial, status, delivery, decision, evaluation, output, current>>

ReviewNext ==
    \/ \E p \in Reviewers :
          \/ Generate(p)
          \/ \E o \in Outputs : AcceptOutdated(p, o) \/ AcceptRead(p, o)
          \/ MarkStale(p) \/ AcceptCreate(p) \/ AcceptContent(p) \/ AcceptDelivery(p) \/ AcceptStatus(p)
          \/ RejectRead(p) \/ RejectDecision(p) \/ RejectStatus(p)
          \/ EvaluateLoad(p) \/ RecordLoad(p) \/ RecordOutcome(p) \/ RecordStatus(p)
          \/ Die(p)
    \/ SourcesMove

ReviewSpec == ReviewInit /\ [][ReviewNext]_wvars
------------------------------------------------------------------------------
ReviewTypeOK ==
    /\ serial \in BOOLEAN /\ current \in BOOLEAN /\ decision \in BOOLEAN /\ evaluation \in BOOLEAN
    /\ status \in Statuses \union {"absent"}
    /\ delivery \in Outputs \union {"none"}
    /\ output \in [Outputs -> {"absent", "partial", "complete"}]
    /\ commands \in 0..MaxCommands
    /\ proc \in [Reviewers -> [at : {"idle", "mark stale", "create", "content", "deliver", "accept", "decide",
                                     "reject", "evaluated", "record", "measure"},
                               to : Outputs \union {"none"}]]

\* However commands overlap, fail or die, a proposal that says rejected has
\* its reason on disk and one that says measured has its evaluation: the
\* record is written before the status.
StatusHasRecord ==
    /\ status = "rejected" => decision
    /\ status = "measured" => evaluation

\* While commands do not overlap, a proposal that says accepted or measured
\* names a delivered schema that is complete, whatever failed or died.
DeliveredIsComplete ==
    serial /\ status \in {"accepted", "measured"} => delivery # "none" /\ output[delivery] = "complete"

\* While commands do not overlap, a decision is taken once: nothing reopens
\* a proposal, and a delivered one is not rejected nor a rejected one delivered.
DecidedOnce ==
    serial => \/ status' = status
              \/ status = "absent" /\ status' = "proposed"
              \/ status = "proposed" /\ status' \in {"accepted", "rejected", "stale"}
              \/ status \in {"accepted", "measured"} /\ status' \in {"measured", "stale"}
              \/ status = "rejected" /\ status' = "stale"

\* A delivered schema is only ever removed by the command that created it,
\* before that command reported success; no second delivery replaces it.
OutputIsNotReplaced ==
    \A o \in Outputs : output[o] = "complete" /\ output'[o] # "complete" =>
        /\ output'[o] = "absent"
        /\ \E p \in Reviewers : proc[p].to = o /\ proc[p].at \in {"deliver", "accept"}
                                /\ \A q \in Reviewers \ {p} : proc[q].at \in {"deliver", "accept"} => proc[q].to # o
==============================================================================
