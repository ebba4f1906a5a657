------------------------- MODULE CertificationStore -------------------------
(***************************************************************************)
(* The certification store (observability/certification_store.py): its run *)
(* log and its incidents.                                                  *)
(*                                                                         *)
(* The run log (table materialization_runs) is given as pure operators.  A *)
(* log is the table's rows in rowid order; a row keeps the run, the state  *)
(* and the stamp.  The event id of a row is "<run>:<state>", so a state is *)
(* stored at most once per run.                                            *)
(***************************************************************************)
EXTENDS Naturals, Sequences, FiniteSets

RunState == {"STARTED", "STAGING", "STAGED", "PROMOTING", "PROMOTED",
             "QUARANTINED", "CHECK_ERROR"}

RunEvent(run, state, at) == [run |-> run, state |-> state, at |-> at]

Has(log, run, state) == \E i \in DOMAIN log : log[i].run = run /\ log[i].state = state

RowsOf(log, run) == {i \in DOMAIN log : log[i].run = run}

\* ORDER BY occurred_at DESC, rowid DESC LIMIT 1, among the rows in I.
LatestRow(log, I) ==
    CHOOSE i \in I : \A j \in I : \/ log[j].at < log[i].at
                                  \/ log[j].at = log[i].at /\ j <= i

\* The state that get_run reports, "missing" when the run has no row.
get_run(log, run) ==
    IF RowsOf(log, run) = {} THEN "missing"
    ELSE log[LatestRow(log, RowsOf(log, run))].state

\* get_latest_promoted: the run that certifies a dataset, none if there is none.
get_latest_promoted(log, runs, none) ==
    LET P == {i \in DOMAIN log : log[i].run \in runs /\ log[i].state = "PROMOTED"}
    IN  IF P = {} THEN none ELSE log[LatestRow(log, P)].run

\* Mutant of next_run_event_time: the clock is trusted.
UnadjustedEventTime(log, run, now) == now

\* Never before, or at, the run's latest row, whatever the clock says.
next_run_event_time(log, run, now) ==
    LET I    == RowsOf(log, run)
        last == log[LatestRow(log, I)].at
    IN  IF I = {} \/ now > last THEN now ELSE last + 1

\* INSERT OR IGNORE on the event id.
append_run_event(log, run, state, now) ==
    IF Has(log, run, state) THEN log
    ELSE Append(log, RunEvent(run, state, next_run_event_time(log, run, now)))

-----------------------------------------------------------------------------
(***************************************************************************)
(* Data-quality incidents (observability/incidents.py and the incidents    *)
(* table of the certification store).  An incident's id is the pair of the *)
(* run that opened it and the failed check.  Opening, updating and         *)
(* resolving each read rows first and write them in a later statement, so  *)
(* a publication and an operator's command can interleave between the two. *)
(***************************************************************************)

CONSTANTS Runs, Targets, TargetOf, Checks, Operators, None

ASSUME IncidentsAssumption ==
    /\ TargetOf \in [Runs -> Targets]
    /\ None \notin Runs \union Targets \union Checks

VARIABLES
    incident,   \* the row of each incident id
    command     \* what each operator's command has read and is about to write

IncidentStatus == {"NEW", "ACKNOWLEDGED", "ASSIGNED", "RESOLVED"}

Allowed == [NEW          |-> {"ACKNOWLEDGED", "ASSIGNED", "RESOLVED"},
            ACKNOWLEDGED |-> {"ASSIGNED", "RESOLVED"},
            ASSIGNED     |-> {"ASSIGNED", "RESOLVED"},
            RESOLVED     |-> {}]

IncidentId == Runs \X Checks
Absent     == [status |-> "none", cause |-> None]
NewIncident == [status |-> "NEW", cause |-> None]
Incident   == [status: IncidentStatus \union {"none"}, cause: {None, "recovered", "operator"}]
Command    == [id: IncidentId \union {None}, row: Incident]

IsOpen(row) == row.status \notin {"none", "RESOLVED"}

InitIncidents ==
    /\ incident = [id \in IncidentId |-> Absent]
    /\ command = [o \in Operators |-> [id |-> None, row |-> Absent]]

\* Incident.transition; only RESOLVED comes with a root cause here.
Transition(row, status, cause) ==
    [status |-> status, cause |-> IF cause = None THEN row.cause ELSE cause]

get_open_incident(target, check) ==
    {id \in IncidentId : TargetOf[id[1]] = target /\ id[2] = check /\ IsOpen(incident[id])}

list_open_incidents(target) ==
    {id \in IncidentId : TargetOf[id[1]] = target /\ IsOpen(incident[id])}

\* INSERT OR IGNORE: the row of a run published twice is left as it is.
InsertIncident(id) ==
    incident' = [incident EXCEPT ![id] = IF @ = Absent THEN NewIncident ELSE @]

\* resolve_open_incidents, its UPDATEs: the rows as they were listed, resolved.
ResolveListed(listed) ==
    incident' = [id \in IncidentId |->
                    IF listed[id] = Absent THEN incident[id]
                    ELSE Transition(listed[id], "RESOLVED", "recovered")]

\* update_incident, its read: incidents ack, assign and resolve.
CommandRead(o) ==
    \E id \in IncidentId, status \in IncidentStatus :
        /\ command[o].id = None
        /\ incident[id] # Absent
        /\ status \in Allowed[incident[id].status]
        /\ command' = [command EXCEPT ![o] =
                [id  |-> id,
                 row |-> Transition(incident[id], status,
                                    IF status = "RESOLVED" THEN "operator" ELSE None)]]
        /\ UNCHANGED incident

\* update_incident, its UPDATE.
CommandWrite(o) ==
    /\ command[o].id # None
    /\ incident' = [incident EXCEPT ![command[o].id] = command[o].row]
    /\ command' = [command EXCEPT ![o] = [id |-> None, row |-> Absent]]

TypeOKIncidents ==
    /\ incident \in [IncidentId -> Incident]
    /\ command \in [Operators -> Command]
=============================================================================
