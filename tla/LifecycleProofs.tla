---------------------------- MODULE LifecycleProofs ----------------------------
(***************************************************************************)
(* Proofs about machines whose steps are far apart: the life of a          *)
(* candidate, of a curated model, of the spans of a trace, and of the      *)
(* credential leases under capability calls.  The four sections do not     *)
(* rest on each other.                                                     *)
(***************************************************************************)
EXTENDS Candidates, SemanticSync, SpanTree, CapabilityInvoker, FiniteSetTheorems, WellFoundedInduction, TLAPS

(***************************************************************************)
(* Candidates, for every number of actors, layer versions, requests and    *)
(* operations, whether the operations overlap, die half way or come one    *)
(* after the other.  The invariant has three parts: types, with the phases *)
(* that each operation goes through; what is on record of the row and of   *)
(* every row that a call has read; and how row, history, index, views and  *)
(* drafts agree while nothing overlaps.                                    *)
(***************************************************************************)
-----------------------------------------------------------------------------
(* What is known of a candidate's row, its history and the calls in        *)
(* progress, whatever overlaps or dies.                                    *)

State == CANDIDATE_STATES \union {"none"}
Row == [state : State, published : BOOLEAN, count : 0..MaxRequests]
History == [last : State, recorded : SUBSET CANDIDATE_STATES, judged : Versions \union {0},
            reported : SUBSET (Versions \union {0}), decided : SUBSET (Versions \union {0})]

Decisions == {"reject", "review", "approve", "demote"}
Phases ==
    [none |-> {"idle"},
     answer |-> {"write", "event", "run"},
     fail |-> {"write", "event"},
     validate |-> {"apply", "score", "outcome", "publish", "valid_event", "promote_event", "promote_row",
                   "review_event", "review_row", "index"},
     reject |-> {"event", "row"}, review |-> {"event", "row"},
     approve |-> {"publish", "event", "row", "index"},
     demote |-> {"drop", "event", "row", "index"},
     draft |-> {"first", "second", "content", "event", "row"}]
Frame == [op : DOMAIN Phases, at : UNION {Phases[op] : op \in DOMAIN Phases}, row : Row,
          version : Versions \union {0}, outcome : {"validated", "needs_review", "pending", "none"}]

Typed ==
    /\ serial \in BOOLEAN /\ row \in Row /\ log \in History /\ view \in BOOLEAN
    /\ node \in {"absent", "present", "removed"} /\ runs \in Nat
    /\ files \in [1..2 -> Actors \union {"none"}] /\ layer \in Versions
    /\ started \in 0..MaxOperations /\ frame \in [Actors -> Frame]

\* A reading of the row: only what was never written has no state, and the
\* states that somebody decided are on record.
Decidable == {"needs_review", "promoted", "under_review", "demoted"}
Reading(r) ==
    /\ r.state = "none" => r = NoRow
    /\ r.state \in Decidable => r.state \in log.recorded

\* The transition that a call is about to make, of the row that it has read.
Legal(f) ==
    /\ f.op \in Decisions /\ f.at # "index" => Target[f.op] \in ALLOWED_TRANSITIONS[f.row.state]
    /\ f.op = "fail" /\ f.at = "write" => "rejected" \in ALLOWED_TRANSITIONS[f.row.state]
    /\ f.op = "validate" /\ f.at \in {"review_event", "review_row"}
           => "needs_review" \in ALLOWED_TRANSITIONS[f.row.state]
    /\ f.op = "validate" /\ f.at = "valid_event" => f.row.state = "candidate"
    /\ f.op = "validate" /\ f.at = "promote_row" => f.row.state # "rejected"

\* A call and what it has read and logged so far.
FrameOf(a) ==
    LET f == frame[a]
    IN  /\ f.at \in Phases[f.op] /\ (f.op = "none" => f = Idle)
        /\ Reading(f.row) /\ Legal(f)
        /\ f.op \notin {"none", "answer"} => f.row.state # "none" /\ row.state # "none"
        /\ f.op = "answer" /\ f.at = "write" => f.row.count < MaxRequests
        /\ f.op \in Decisions \union {"draft"} => f.version \in log.reported \union {0}
        /\ f.op = "validate" /\ f.at = "promote_row" => "promoted" \in log.recorded
        /\ f.op = "validate" /\ f.at = "review_row" => "needs_review" \in log.recorded
        /\ f.op \in Decisions /\ f.at = "row" => Target[f.op] \in log.recorded

RecordInv ==
    /\ Reading(row)
    /\ log.judged \in log.reported \union {0} /\ log.decided \subseteq log.reported
    /\ \A a \in Actors : FrameOf(a)

-----------------------------------------------------------------------------
(* Operations one after the other.                                         *)

\* The row, the history, the answered requests, the index, the view and the
\* drafts agree.
Paired == files[1] = "none" <=> files[2] = "none"
Books ==
    /\ row.state = log.last /\ row.count = runs
    /\ (Live <=> node = "present") /\ (Live => view) /\ Paired

\* Neither the row nor the history is ahead of the other.
Level(f) ==
    /\ f.at \notin {"promote_event", "promote_row", "review_row"}
    /\ ~(f.op \in {"answer", "fail"} /\ f.at = "event") /\ ~(f.op \in Decisions /\ f.at = "row")

\* How far they agree while a is at work.
SerialOf(a) ==
    LET f == frame[a]
    IN  /\ f.at \in {"run", "index"} \/ (f.op \in {"answer", "fail"} /\ f.at = "event") \/ f.row = row
        /\ row.count = IF f.op = "answer" /\ f.at \in {"event", "run"} THEN runs + 1 ELSE runs
        /\ Level(f) => row.state = log.last
        /\ f.op = "answer" /\ f.at = "event" => row.state = "candidate"
        /\ f.op = "fail" /\ f.at = "event" => row.state = "rejected"
        /\ f.at = "promote_event" => row.state = log.last \/ (row.state = "candidate" /\ log.last = "validated")
        /\ f.at = "promote_row" => log.last = "promoted"
        /\ f.at = "review_row" => log.last = "needs_review"
        /\ f.op \in Decisions /\ f.at = "row" => log.last = Target[f.op]
        /\ f.at = "index" => row.state = IF f.op = "demote" THEN "demoted" ELSE "promoted"
        /\ f.at # "index" => (Live <=> node = "present")
        /\ f.op # "demote" \/ f.at = "drop" => (Live => view)
        /\ f.at \in {"valid_event", "promote_event", "promote_row"} => view
        /\ f.op = "approve" /\ f.at # "publish" => view
        /\ f.op = "draft" /\ f.at = "first" => files[1] = "none" /\ files[2] = "none"
        /\ f.op = "draft" /\ f.at = "second" => files[1] = a /\ files[2] = "none"
        /\ f.op = "draft" /\ f.at = "content" => files[1] = a /\ files[2] = a
        /\ f.op # "draft" \/ f.at \in {"event", "row"} => Paired

SerialInv == serial =>
    /\ \A a, b \in Actors : frame[a].op # "none" /\ frame[b].op # "none" => a = b
    /\ (\A a \in Actors : frame[a].op = "none") => Books
    /\ \A a \in Actors : frame[a].op # "none" => SerialOf(a)

\* The states and the transitions, spelled out.
LEMMA Graph ==
    /\ CANDIDATE_STATES = {"candidate", "validated", "needs_review", "promoted", "under_review",
                           "demoted", "rejected"}
    /\ "none" \notin CANDIDATE_STATES
    /\ \A op \in Decisions : Target[op] \in CANDIDATE_STATES
    /\ DOMAIN Target = Decisions
    /\ ALLOWED_TRANSITIONS["rejected"] = {}
    /\ \A s \in CANDIDATE_STATES :
           /\ "needs_review" \in ALLOWED_TRANSITIONS[s] => s \in {"candidate", "validated"}
           /\ "rejected" \in ALLOWED_TRANSITIONS[s] => s \in {"candidate", "validated", "needs_review"}
           /\ "demoted" \in ALLOWED_TRANSITIONS[s] => s \in {"promoted", "under_review"}
           /\ "under_review" \in ALLOWED_TRANSITIONS[s] => s = "promoted"
           /\ check_transition(s, "promoted") => s # "rejected"
           /\ check_transition("validated", "promoted")
  BY DEF CANDIDATE_STATES, ALLOWED_TRANSITIONS, Target, Decisions, check_transition

-----------------------------------------------------------------------------
(* The steps of a call, and what each does to the locals of its actor.     *)

\* Only the actor a moves, and its frame stays typed.
Moves(a) ==
    /\ frame' \in [Actors -> Frame] /\ started' \in 0..MaxOperations
    /\ \A b \in Actors : b # a => frame'[b] = frame[b]

\* a goes on to the phase at, with what it has read.
Turns(a, at) ==
    /\ Moves(a) /\ frame'[a].op = frame[a].op /\ frame'[a].at = at
    /\ frame'[a].row = frame[a].row /\ frame'[a].version = frame[a].version
    /\ frame'[a].outcome = frame[a].outcome

\* The call of a is over.
Ends(a) == Moves(a) /\ frame'[a] = Idle

\* a starts an operation with a reading of the row.
Begins(a, op, at, version) ==
    /\ Moves(a) /\ frame[a].op = "none" /\ (serial => \A b \in Actors : frame[b].op = "none")
    /\ frame'[a].op = op /\ frame'[a].at = at /\ frame'[a].row = row /\ frame'[a].version = version

\* An actor without a call has a typed frame.
LEMMA IdleFrame == CandidatesAssumption => Idle \in Frame
  <1>1. CandidatesAssumption => NoRow \in Row
    BY DEF NoRow, Row, State, CandidatesAssumption
  <1>2. "none" \in DOMAIN Phases /\ "idle" \in Phases["none"]
    BY DEF Phases
  <1>3. QED
    BY <1>1, <1>2 DEF Idle, Frame

\* Goto changes the phase only.
LEMMA GotoTurns ==
    ASSUME Typed, NEW a \in Actors, NEW op \in DOMAIN Phases, NEW at \in Phases[op], Goto(a, at)
    PROVE  Turns(a, at)
  <1>1. at \in UNION {Phases[o] : o \in DOMAIN Phases}
    OBVIOUS
  <1>2. [frame[a] EXCEPT !.at = at] \in Frame
    BY <1>1 DEF Typed, Frame
  <1>3. frame' = [frame EXCEPT ![a] = [frame[a] EXCEPT !.at = at]] /\ started' = started
    BY DEF Goto
  <1>4. frame'[a] = [frame[a] EXCEPT !.at = at] /\ Moves(a)
    BY <1>2, <1>3 DEF Typed, Moves
  <1>5. QED
    BY <1>2, <1>4 DEF Turns, Typed, Frame

\* End ends the call.
LEMMA EndEnds ==
    ASSUME CandidatesAssumption, Typed, NEW a \in Actors, End(a)
    PROVE  Ends(a)
  BY IdleFrame DEF End, Ends, Moves, Typed

\* Start begins one, when no call of this actor, and in a serial history none
\* at all, is in progress.
LEMMA StartBegins ==
    ASSUME CandidatesAssumption, Typed, NEW a \in Actors, NEW op \in DOMAIN Phases, NEW at \in Phases[op],
           NEW version \in Versions \union {0}, NEW outcome \in {"validated", "needs_review", "pending", "none"},
           Free(a), Start(a, op, at, version, outcome)
    PROVE  Begins(a, op, at, version) /\ frame'[a].outcome = outcome
  <1> DEFINE f == [op |-> op, at |-> at, row |-> row, version |-> version, outcome |-> outcome]
  <1>1. at \in UNION {Phases[o] : o \in DOMAIN Phases}
    OBVIOUS
  <1>2. /\ f \in Frame /\ f.op = op /\ f.at = at /\ f.row = row /\ f.version = version
        /\ f.outcome = outcome
    BY <1>1 DEF Typed, Frame
  <1>3. frame' = [frame EXCEPT ![a] = f] /\ started' = started + 1 /\ started < MaxOperations
    BY DEF Start, Free
  <1>4. Idle.op = "none"
    BY DEF Idle
  <1> HIDE DEF f
  <1>5. started' \in 0..MaxOperations
    BY <1>3 DEF Typed, CandidatesAssumption
  <1>6. QED
    BY <1>2, <1>3, <1>4, <1>5 DEF Begins, Moves, Typed, Free

\* An event that leads to the state new: a plain one, one with a report about a
\* layer version, one with a decision that rests on a version.
Appends(new) ==
    /\ log' \in History /\ log'.last = new /\ log'.recorded = log.recorded \union {new}
    /\ log.reported \subseteq log'.reported
PlainEvent(new) ==
    Appends(new) /\ log'.decided = log.decided /\ log'.judged = log.judged /\ log'.reported = log.reported
ReportEvent(new, version) ==
    /\ Appends(new) /\ log'.decided = log.decided /\ log'.judged = version
    /\ log'.reported = log.reported \union {version}
DecisionEvent(new, version) ==
    /\ Appends(new) /\ log'.decided = log.decided \union ({version} \ {0}) /\ log'.judged = log.judged
    /\ log'.reported = log.reported

\* What _add_event appends without a report.
LEMMA PlainAdds ==
    ASSUME Typed, NEW new \in CANDIDATE_STATES, NEW version, log' = Logged(log, new, version, FALSE)
    PROVE  PlainEvent(new)
  BY DEF Typed, History, State, Logged, PlainEvent, Appends

\* What it appends with the report of a validation.
LEMMA ReportAdds ==
    ASSUME Typed, NEW new \in CANDIDATE_STATES, NEW version \in Versions \union {0},
           log' = Logged(log, new, version, TRUE)
    PROVE  ReportEvent(new, version)
  BY DEF Typed, History, State, Logged, ReportEvent, Appends

\* What a decision appends, with the version that it rests on.
LEMMA DecisionAdds ==
    ASSUME Typed, NEW new \in CANDIDATE_STATES, NEW version \in Versions \union {0},
           log' = Decided(log, new, version)
    PROVE  DecisionEvent(new, version)
  <1> DEFINE m == Logged(log, new, version, FALSE)
  <1>1. /\ m \in History /\ m.last = new /\ m.recorded = log.recorded \union {new}
        /\ m.decided = log.decided /\ m.judged = log.judged /\ m.reported = log.reported
    BY DEF Typed, History, State, Logged
  <1>2. log' = [m EXCEPT !.decided = @ \union ({version} \ {0})]
    BY DEF Decided
  <1> HIDE DEF m
  <1>3. QED
    BY <1>1, <1>2 DEF History, DecisionEvent, Appends

-----------------------------------------------------------------------------
(* What keeps the invariants.                                              *)

\* Nothing changes but the frame of a.
Others == UNCHANGED <<serial, row, log, view, node, runs, files, layer>>

\* What is on record stays on record, and a row that is there stays there.
Grows ==
    /\ log.recorded \subseteq log'.recorded /\ log.reported \subseteq log'.reported
    /\ row.state # "none" => row'.state # "none"

\* The part of the history that decisions rest on.
Rests == log.judged \in log.reported \union {0} /\ log.decided \subseteq log.reported

\* A reading stays one.
LEMMA ReadingStays ==
    ASSUME NEW r, Reading(r), log.recorded \subseteq log'.recorded
    PROVE  /\ r.state = "none" => r = NoRow
           /\ r.state \in Decidable => r.state \in log'.recorded
  BY DEF Reading

\* Nobody but a has to look at what a did.
LEMMA RecordMove ==
    ASSUME Typed, RecordInv, NEW a \in Actors, Moves(a), Grows, Rests', Reading(row)', FrameOf(a)'
    PROVE  RecordInv'
  <1>1. ASSUME NEW b \in Actors, b # a
        PROVE  FrameOf(b)'
    <2>1. frame'[b] = frame[b] /\ FrameOf(b)
      BY <1>1 DEF Moves, RecordInv
    <2> DEFINE f == frame[b]
    <2>2. /\ f.at \in Phases[f.op] /\ (f.op = "none" => f = Idle)
          /\ Reading(f.row) /\ Legal(f)
          /\ f.op \notin {"none", "answer"} => f.row.state # "none" /\ row.state # "none"
          /\ f.op = "answer" /\ f.at = "write" => f.row.count < MaxRequests
          /\ f.op \in Decisions \union {"draft"} => f.version \in log.reported \union {0}
          /\ f.op = "validate" /\ f.at = "promote_row" => "promoted" \in log.recorded
          /\ f.op = "validate" /\ f.at = "review_row" => "needs_review" \in log.recorded
          /\ f.op \in Decisions /\ f.at = "row" => Target[f.op] \in log.recorded
      BY <2>1 DEF FrameOf
    <2>3. /\ f.row.state = "none" => f.row = NoRow
          /\ f.row.state \in Decidable => f.row.state \in log'.recorded
      BY <2>2, ReadingStays DEF Grows
    <2> HIDE DEF f
    <2>4. /\ f.at \in Phases[f.op] /\ (f.op = "none" => f = Idle)
          /\ Reading(f.row)' /\ Legal(f)
          /\ f.op \notin {"none", "answer"} => f.row.state # "none" /\ row'.state # "none"
          /\ f.op = "answer" /\ f.at = "write" => f.row.count < MaxRequests
          /\ f.op \in Decisions \union {"draft"} => f.version \in log'.reported \union {0}
          /\ f.op = "validate" /\ f.at = "promote_row" => "promoted" \in log'.recorded
          /\ f.op = "validate" /\ f.at = "review_row" => "needs_review" \in log'.recorded
          /\ f.op \in Decisions /\ f.at = "row" => Target[f.op] \in log'.recorded
      <3>1. Reading(f.row)'
        BY <2>1, <2>3 DEF Reading, f
      <3>2. QED
        BY <2>2, <3>1 DEF Grows
    <2>5. QED
      BY <2>1, <2>4 DEF FrameOf, Legal, f
  <1>2. QED
    BY <1>1 DEF RecordInv, Rests

\* An actor whose call is over has nothing to keep.
LEMMA IdleKeeps ==
    ASSUME NEW a \in Actors, frame'[a] = Idle
    PROVE  FrameOf(a)'
  <1>1. Idle.op = "none" /\ Idle.at = "idle" /\ Idle.row = NoRow /\ NoRow.state = "none"
    BY DEF Idle, NoRow
  <1>2. Phases["none"] = {"idle"}
    BY DEF Phases
  <1>3. QED
    BY <1>1, <1>2 DEF FrameOf, Reading, Decidable, Legal, Decisions

\* Operations one after the other: while a works nobody else does.
LEMMA SerialMove ==
    ASSUME Typed, SerialInv, NEW a \in Actors, Moves(a), serial' = serial,
           frame[a].op = "none" => (serial => \A b \in Actors : frame[b].op = "none"),
           serial => (frame'[a].op # "none" /\ SerialOf(a)') \/ (frame'[a].op = "none" /\ Books')
    PROVE  SerialInv'
  <1>1. SUFFICES ASSUME serial
                 PROVE  /\ \A b, c \in Actors : frame'[b].op # "none" /\ frame'[c].op # "none" => b = c
                        /\ (\A b \in Actors : frame'[b].op = "none") => Books'
                        /\ \A b \in Actors : frame'[b].op # "none" => SerialOf(b)'
    BY DEF SerialInv
  <1>2. \A b \in Actors : b # a => frame'[b].op = "none"
    BY <1>1 DEF SerialInv, Moves
  <1>3. QED
    BY <1>1, <1>2

\* What a may rely on while it works alone.
LEMMA SerialHere ==
    ASSUME SerialInv, serial, NEW a \in Actors,
           frame[a].op # "none" \/ \A b \in Actors : frame[b].op = "none"
    PROVE  IF frame[a].op = "none" THEN Books ELSE SerialOf(a)
  BY DEF SerialInv

-----------------------------------------------------------------------------
(* The steps of every operation keep all three.                            *)

CandidateInv == Typed /\ RecordInv /\ SerialInv

\* The steps of a are looked at from a alone.
LEMMA ActorStep ==
    ASSUME CandidateInv, NEW a \in Actors, Moves(a), Typed', serial' = serial,
           Grows, Rests', Reading(row)', FrameOf(a)',
           frame[a].op = "none" => (serial => \A b \in Actors : frame[b].op = "none"),
           serial => (frame'[a].op # "none" /\ SerialOf(a)') \/ (frame'[a].op = "none" /\ Books')
    PROVE  CandidateInv'
  BY RecordMove, SerialMove DEF CandidateInv

\* What an actor at work knows.
LEMMA ActorKnows ==
    ASSUME CandidateInv, NEW a \in Actors
    PROVE  /\ frame[a] \in Frame /\ row \in Row /\ log \in History /\ FrameOf(a) /\ Reading(row) /\ Rests
           /\ serial /\ frame[a].op # "none" => SerialOf(a)
  BY DEF CandidateInv, Typed, RecordInv, SerialInv, Rests

\* What a call has read goes on being a reading.
LEMMA FrameReads ==
    ASSUME CandidateInv, NEW a \in Actors, Grows, frame'[a].row = frame[a].row \/ frame'[a].row = row
    PROVE  Reading(frame[a].row)'
  <1>1. Reading(frame[a].row) /\ Reading(row)
    BY DEF CandidateInv, RecordInv, FrameOf
  <1>2. QED
    BY <1>1 DEF Reading, Grows

\* A call that begins has read the row and is legal; the rest follows.
LEMMA BeginStep ==
    ASSUME CandidateInv, NEW a \in Actors, NEW op \in DOMAIN Phases \ {"none"}, NEW at \in Phases[op],
           NEW version \in Versions \union {0}, Begins(a, op, at, version), Others,
           at \in {"write", "apply", "publish", "drop", "first"} \/ (at = "event" /\ op \in {"reject", "review"}),
           op = "validate" => at = "apply", op = "approve" => at = "publish", op = "demote" => at = "drop",
           op \in Decisions => Target[op] \in ALLOWED_TRANSITIONS[row.state],
           op = "fail" => "rejected" \in ALLOWED_TRANSITIONS[row.state],
           op # "answer" => row.state # "none",
           op = "answer" => at = "write" /\ row.count < MaxRequests,
           op \in Decisions \union {"draft"} => version \in log.reported \union {0},
           op = "draft" => at = "first" /\ files[1] = "none" /\ files[2] = "none"
    PROVE  CandidateInv'
  <1>1. /\ Moves(a) /\ frame[a].op = "none" /\ (serial => \A b \in Actors : frame[b].op = "none")
        /\ frame'[a].op = op /\ frame'[a].at = at /\ frame'[a].row = row /\ frame'[a].version = version
    BY DEF Begins
  <1>2. Typed'
    BY <1>1 DEF CandidateInv, Typed, Others, Moves
  <1>3. Grows /\ Rests' /\ Reading(row)'
    BY ActorKnows DEF Others, Grows, Rests, Reading
  <1>4. FrameOf(a)'
    <2>1. Reading(row)
      BY ActorKnows
    <2>2. Reading(row)'
      BY <1>3
    <2>3. Legal(frame'[a])
      BY <1>1 DEF Legal, Decisions
    <2>4. /\ frame'[a].at \in Phases[frame'[a].op] /\ frame'[a].op # "none"
          /\ row' = row /\ log' = log
      BY <1>1 DEF Others
    <2>5. ~(op = "validate" /\ at \in {"promote_row", "review_row"}) /\ at # "row"
      OBVIOUS
    <2>6. op \in Decisions \union {"draft"} => version \in log'.reported \union {0}
      BY <2>4
    <2>7. op \notin {"none", "answer"} => row'.state # "none"
      BY <2>4
    <2> QED
      BY <1>1, <2>2, <2>3, <2>4, <2>5, <2>6, <2>7 DEF FrameOf
  <1>5. ASSUME serial
        PROVE  frame'[a].op # "none" /\ SerialOf(a)'
    <2>1. Books
      BY <1>1, <1>5, SerialHere DEF CandidateInv
    <2>2. Books' /\ row' = row /\ log' = log /\ runs' = runs /\ files' = files /\ view' = view /\ node' = node
      BY <2>1 DEF Books, Others, Live, Paired
    <2>3. /\ at \notin {"run", "index", "row", "promote_event", "promote_row", "review_row", "valid_event"}
          /\ op \in {"answer", "fail"} => at # "event"
          /\ op = "demote" => at = "drop"
          /\ op = "approve" => at = "publish"
      OBVIOUS
    <2>4. QED
      BY <1>1, <2>2, <2>3 DEF SerialOf, Books
  <1>6. QED
    BY <1>1, <1>2, <1>3, <1>4, <1>5, ActorStep DEF Others

\* An agent answers a request: the row is read.
LEMMA AnswerReadStep ==
    ASSUME CandidatesAssumption, CandidateInv, NEW a \in Actors, AnswerRead(a)
    PROVE  CandidateInv'
  <1>1. Begins(a, "answer", "write", 0)
    <2>1. "answer" \in DOMAIN Phases /\ "write" \in Phases["answer"]
      BY DEF Phases
    <2>2. QED
      BY <2>1, StartBegins DEF AnswerRead, CandidateInv
  <1>2. Others /\ row.count < MaxRequests
    BY DEF AnswerRead, Others
  <1>3. "answer" \in DOMAIN Phases \ {"none"} /\ "write" \in Phases["answer"]
    BY DEF Phases
  <1>4. QED
    BY <1>1, <1>2, <1>3, BeginStep DEF Decisions

\* A computation failed: the row is read and its state must allow a rejection.
LEMMA FailReadStep ==
    ASSUME CandidatesAssumption, CandidateInv, NEW a \in Actors, FailRead(a)
    PROVE  CandidateInv'
  <1>1. "fail" \in DOMAIN Phases \ {"none"} /\ "write" \in Phases["fail"]
    BY DEF Phases
  <1>2. Begins(a, "fail", "write", 0)
    BY <1>1, StartBegins DEF FailRead, CandidateInv
  <1>3. Others /\ row.state # "none" /\ "rejected" \in ALLOWED_TRANSITIONS[row.state]
    BY ActorKnows DEF FailRead, Others, Reading
  <1>4. QED
    BY <1>1, <1>2, <1>3, BeginStep DEF Decisions

\* A validation judges the candidate against the layer version of now.
LEMMA JudgeStep ==
    ASSUME CandidatesAssumption, CandidateInv, NEW a \in Actors, Judge(a)
    PROVE  CandidateInv'
  <1>1. "validate" \in DOMAIN Phases \ {"none"} /\ "apply" \in Phases["validate"]
    BY DEF Phases
  <1>2. Begins(a, "validate", "apply", layer) /\ layer \in Versions \union {0}
    BY <1>1, StartBegins DEF Judge, CandidateInv, Typed
  <1>3. Others /\ row.state # "none"
    BY ActorKnows DEF Judge, Others, Reading
  <1>4. QED
    BY <1>1, <1>2, <1>3, BeginStep DEF Decisions

\* A person decides; all but a rejection need a report about the layer of now.
LEMMA DecideStep ==
    ASSUME CandidatesAssumption, CandidateInv, NEW a \in Actors, Decide(a)
    PROVE  CandidateInv'
  <1>1. Others /\ row.state # "none" /\ Free(a)
    BY ActorKnows DEF Decide, Others, Reading
  <1>2. PICK op \in Decisions :
            /\ Target[op] \in ALLOWED_TRANSITIONS[row.state]
            /\ op # "reject" => Fresh
            /\ Start(a, op, FirstPhase[op], IF op = "reject" THEN 0 ELSE layer, "none")
    BY Graph DEF Decide
  <1> DEFINE version == IF op = "reject" THEN 0 ELSE layer
             at == FirstPhase[op]
  <1>3. /\ op \in DOMAIN Phases \ {"none"} /\ at \in Phases[op]
        /\ at \in {"publish", "drop"} \/ (at = "event" /\ op \in {"reject", "review"})
        /\ op = "approve" => at = "publish"
        /\ op = "demote" => at = "drop"
        /\ op \notin {"validate", "fail", "answer", "draft"}
    BY DEF Decisions, Phases, FirstPhase
  <1>4. version \in Versions \union {0} /\ version \in log.reported \union {0}
    BY <1>2, ActorKnows DEF Fresh, CandidateInv, Typed, Rests
  <1>5. Start(a, op, at, version, "none")
    BY <1>2
  <1> HIDE DEF at, version
  <1>6. Begins(a, op, at, version)
    BY <1>1, <1>3, <1>4, <1>5, StartBegins DEF CandidateInv
  <1>7. QED
    BY <1>1, <1>2, <1>3, <1>4, <1>6, BeginStep

\* A promotion to drafts starts where neither file is there.
LEMMA DraftStartStep ==
    ASSUME CandidatesAssumption, CandidateInv, NEW a \in Actors, DraftStart(a)
    PROVE  CandidateInv'
  <1>1. "draft" \in DOMAIN Phases \ {"none"} /\ "first" \in Phases["draft"]
    BY DEF Phases
  <1>2. Begins(a, "draft", "first", layer) /\ layer \in Versions \union {0}
    BY <1>1, StartBegins DEF DraftStart, CandidateInv, Typed
  <1>3. /\ Others /\ row.state # "none" /\ files[1] = "none" /\ files[2] = "none"
        /\ layer \in log.reported \union {0}
    BY ActorKnows DEF DraftStart, Others, Reading, Rests, Fresh
  <1>4. QED
    BY <1>1, <1>2, <1>3, BeginStep DEF Decisions

\* A call that ends.
LEMMA EndStep ==
    ASSUME CandidatesAssumption, CandidateInv, NEW a \in Actors, Ends(a), frame[a].op # "none",
           Typed', serial' = serial, Grows, Rests', Reading(row)', serial => Books'
    PROVE  CandidateInv'
  <1>1. Moves(a) /\ frame'[a] = Idle /\ Idle.op = "none"
    BY DEF Ends, Idle
  <1>2. FrameOf(a)'
    BY <1>1, IdleKeeps
  <1>3. QED
    BY <1>1, <1>2, ActorStep

\* Nothing is taken back by a step that leaves the row and the history alone.
LEMMA Untouched ==
    ASSUME CandidateInv, UNCHANGED <<row, log>>
    PROVE  Grows /\ Rests' /\ Reading(row)'
  BY DEF CandidateInv, RecordInv, Grows, Rests, Reading

\* A call that goes on.
LEMMA TurnStep ==
    ASSUME CandidateInv, NEW a \in Actors, frame[a].op # "none", Moves(a), frame'[a].op = frame[a].op,
           frame'[a].version = frame[a].version, frame'[a].at \in Phases[frame[a].op],
           frame'[a].row = frame[a].row \/ frame'[a].row = row,
           Typed', serial' = serial, Grows, Rests', Reading(row)', Legal(frame'[a]),
           frame[a].op = "answer" => frame'[a].at # "write",
           frame'[a].at = "promote_row" => "promoted" \in log'.recorded,
           frame'[a].at = "review_row" => "needs_review" \in log'.recorded,
           frame[a].op \in Decisions /\ frame'[a].at = "row" => Target[frame[a].op] \in log'.recorded,
           serial => SerialOf(a)'
    PROVE  CandidateInv'
  <1>1. FrameOf(a)
    BY ActorKnows
  <1>2. Reading(frame[a].row)'
    BY FrameReads
  <1>3. frame[a].op \notin {"none", "answer"} => frame'[a].row.state # "none" /\ row'.state # "none"
    BY <1>1 DEF FrameOf, Grows
  <1>4. frame[a].op \in Decisions \union {"draft"} => frame'[a].version \in log'.reported \union {0}
    BY <1>1 DEF FrameOf, Grows
  <1>5. FrameOf(a)'
    BY <1>2, <1>3, <1>4 DEF FrameOf
  <1>6. QED
    BY <1>5, ActorStep

\* The row is written from what the call has read, in a state that is on record.
LEMMA RowWrites ==
    ASSUME CandidateInv, NEW a \in Actors, NEW s \in CANDIDATE_STATES, NEW p \in BOOLEAN,
           row' = [frame[a].row EXCEPT !.state = s, !.published = p],
           s \in Decidable => s \in log.recorded, log' = log
    PROVE  /\ row' \in Row /\ row'.state = s /\ row'.count = frame[a].row.count
           /\ Grows /\ Rests' /\ Reading(row)'
  <1>1. row' \in Row /\ row'.state = s /\ row'.count = frame[a].row.count
    BY DEF CandidateInv, Typed, Frame, Row, State
  <1>2. Reading(row)'
    BY <1>1, Graph DEF Reading
  <1>3. QED
    BY <1>1, <1>2, ActorKnows, Graph DEF Grows, Rests

\* An event adds to the history and leaves what is on record there.
LEMMA EventGrows ==
    ASSUME CandidateInv, NEW new, Appends(new), row' = row
    PROVE  Grows /\ Reading(row)'
  BY DEF CandidateInv, RecordInv, Appends, Grows, Reading

\* The agent's answer: the row, the event of a new candidate, the run.
LEMMA AnswerWriteStep ==
    ASSUME CandidatesAssumption, CandidateInv, NEW a \in Actors, AnswerWrite(a)
    PROVE  CandidateInv'
  <1> DEFINE r == frame[a].row
  <1>1. /\ frame[a].op = "answer" /\ frame[a].at = "write"
        /\ UNCHANGED <<serial, log, view, node, runs, files, layer>>
    BY DEF AnswerWrite, At
  <1>2. r \in Row /\ Reading(r) /\ r.count < MaxRequests /\ r.count + 1 \in 0..MaxRequests
    <2>1. r \in Row /\ Reading(r) /\ r.count < MaxRequests
      BY <1>1, ActorKnows DEF FrameOf, Frame
    <2>2. r.count \in 0..MaxRequests
      BY <2>1 DEF Row
    <2>3. QED
      BY <2>1, <2>2 DEF CandidatesAssumption
  <1>3. \/ r = NoRow /\ row' = [state |-> "candidate", published |-> FALSE, count |-> 1] /\ Turns(a, "event")
        \/ r # NoRow /\ row' = [r EXCEPT !.count = @ + 1] /\ Turns(a, "run")
    <2>1. "answer" \in DOMAIN Phases /\ "event" \in Phases["answer"] /\ "run" \in Phases["answer"]
      BY DEF Phases
    <2>2. (Goto(a, "event") => Turns(a, "event")) /\ (Goto(a, "run") => Turns(a, "run"))
      BY <2>1, GotoTurns DEF CandidateInv
    <2>3. QED
      BY <2>2 DEF AnswerWrite
  <1>4. NoRow.count = 0 /\ NoRow.state = "none"
    BY DEF NoRow
  <1> HIDE DEF r
  <1>5. /\ row' \in Row /\ row'.count = r.count + 1
        /\ row'.state = IF r = NoRow THEN "candidate" ELSE r.state
        /\ row'.state # "none"
    <2>1. CASE r = NoRow
      <3>1. r.count = 0 /\ 1 \in 0..MaxRequests
        BY <1>2, <1>4, <2>1
      <3>2. row' = [state |-> "candidate", published |-> FALSE, count |-> 1]
        BY <1>3, <2>1
      <3>3. QED
        BY <2>1, <3>1, <3>2, Graph DEF Row, State
    <2>2. CASE r # NoRow
      <3>1. row' = [r EXCEPT !.count = @ + 1] /\ r.state # "none"
        BY <1>2, <1>3, <2>2 DEF Reading
      <3>2. QED
        BY <1>2, <2>2, <3>1 DEF Row
    <2>3. QED
      BY <2>1, <2>2
  <1>6. /\ Moves(a) /\ frame'[a].op = "answer" /\ frame'[a].row = r
        /\ frame'[a].at = IF r = NoRow THEN "event" ELSE "run"
    BY <1>1, <1>3 DEF Turns, r
  <1>7. Typed'
    BY <1>1, <1>5, <1>6 DEF CandidateInv, Typed, Moves
  <1>8. Grows /\ Rests' /\ Reading(row)'
    <2>1. Reading(row)'
      BY <1>1, <1>2, <1>5 DEF Reading, Decidable
    <2>2. QED
      BY <1>1, <1>5, <2>1, ActorKnows DEF Grows, Rests
  <1>9. ASSUME serial
         PROVE  SerialOf(a)'
    <2>1. SerialOf(a)
      BY <1>1, <1>9, ActorKnows
    <2>2. r = row /\ row.count = runs /\ row.state = log.last /\ (Live <=> node = "present")
          /\ (Live => view) /\ Paired
      BY <1>1, <2>1 DEF SerialOf, Level, Decisions, r
    <2>3. row'.count = runs' + 1 /\ row'.state = IF r = NoRow THEN "candidate" ELSE log'.last
      BY <1>1, <1>5, <2>2
    <2>4. (Live' <=> node' = "present") /\ (Live' => view') /\ Paired'
      BY <1>1, <1>4, <1>5, <2>2 DEF Live, Paired
    <2>5. QED
      BY <1>6, <2>3, <2>4 DEF SerialOf, Level, Decisions
  <1>10. frame'[a].at \in Phases["answer"] /\ Legal(frame'[a])
    BY <1>6 DEF Phases, Legal, Decisions
  <1>11. frame'[a].version = frame[a].version /\ frame'[a].row = frame[a].row
    BY <1>3 DEF Turns
  <1>12. QED
    BY <1>1, <1>6, <1>7, <1>8, <1>9, <1>10, <1>11, TurnStep DEF Decisions

\* A new candidate gets its first event.
LEMMA AnswerEventStep ==
    ASSUME CandidatesAssumption, CandidateInv, NEW a \in Actors, AnswerEvent(a)
    PROVE  CandidateInv'
  <1>1. /\ frame[a].op = "answer" /\ frame[a].at = "event" /\ log' = Logged(log, "candidate", 0, FALSE)
        /\ UNCHANGED <<serial, row, view, node, runs, files, layer>>
    BY DEF AnswerEvent, At
  <1>2. Turns(a, "run")
    <2>1. "answer" \in DOMAIN Phases /\ "run" \in Phases["answer"]
      BY DEF Phases
    <2>2. QED
      BY <2>1, GotoTurns DEF AnswerEvent, CandidateInv
  <1>3. PlainEvent("candidate")
    BY <1>1, Graph, PlainAdds DEF CandidateInv
  <1>4. Typed'
    BY <1>1, <1>2, <1>3 DEF CandidateInv, Typed, Moves, Turns, PlainEvent, Appends
  <1>5. Grows /\ Rests' /\ Reading(row)'
    BY <1>1, <1>3, EventGrows, ActorKnows DEF Rests, PlainEvent
  <1>6. "run" \in Phases["answer"] /\ Legal(frame'[a])
    BY <1>1, <1>2 DEF Phases, Legal, Decisions, Turns
  <1>7. ASSUME serial
        PROVE  SerialOf(a)'
    <2>1. SerialOf(a)
      BY <1>1, <1>7, ActorKnows
    <2>2. row.count = runs + 1 /\ row.state = "candidate" /\ (Live <=> node = "present")
          /\ (Live => view) /\ Paired
      BY <1>1, <2>1 DEF SerialOf
    <2>3. (Live' <=> node' = "present") /\ (Live' => view') /\ Paired'
      BY <1>1, <2>2 DEF Live, Paired
    <2>4. QED
      BY <1>1, <1>2, <1>3, <2>2, <2>3 DEF SerialOf, Level, Decisions, Turns, PlainEvent, Appends
  <1>8. QED
    BY <1>1, <1>2, <1>4, <1>5, <1>6, <1>7, TurnStep DEF Turns, Decisions

\* The run of the answer is recorded last.
LEMMA AnswerRunStep ==
    ASSUME CandidatesAssumption, CandidateInv, NEW a \in Actors, AnswerRun(a)
    PROVE  CandidateInv'
  <1>1. /\ frame[a].op = "answer" /\ frame[a].at = "run" /\ runs' = runs + 1
        /\ UNCHANGED <<serial, row, log, view, node, files, layer>>
    BY DEF AnswerRun, At
  <1>2. Ends(a)
    BY EndEnds DEF AnswerRun, CandidateInv
  <1>3. Typed'
    BY <1>1, <1>2 DEF CandidateInv, Typed, Ends, Moves
  <1>4. ASSUME serial
        PROVE  Books'
    <2>1. SerialOf(a)
      BY <1>1, <1>4, ActorKnows
    <2>2. row.count = runs + 1 /\ row.state = log.last /\ (Live <=> node = "present")
          /\ (Live => view) /\ Paired
      BY <1>1, <2>1 DEF SerialOf, Level, Decisions
    <2>3. (Live' <=> node' = "present") /\ (Live' => view') /\ Paired'
      BY <1>1, <2>2 DEF Live, Paired
    <2>4. QED
      BY <1>1, <2>2, <2>3 DEF Books
  <1>5. QED
    BY <1>1, <1>2, <1>3, <1>4, Untouched, EndStep

\* A failed computation rejects the candidate, the row first.
LEMMA FailWriteStep ==
    ASSUME CandidatesAssumption, CandidateInv, NEW a \in Actors, FailWrite(a)
    PROVE  CandidateInv'
  <1> DEFINE r == frame[a].row
  <1>1. /\ frame[a].op = "fail" /\ frame[a].at = "write" /\ row' = [r EXCEPT !.state = "rejected"]
        /\ UNCHANGED <<serial, log, view, node, runs, files, layer>>
    BY DEF FailWrite, At
  <1>2. "fail" \in DOMAIN Phases /\ "event" \in Phases["fail"]
    BY DEF Phases
  <1>3. Turns(a, "event")
    BY <1>2, GotoTurns DEF FailWrite, CandidateInv
  <1>4. /\ row' \in Row /\ row'.state = "rejected" /\ row'.count = r.count
        /\ Grows /\ Rests' /\ Reading(row)'
    <2>1. r.published \in BOOLEAN /\ row' = [r EXCEPT !.state = "rejected", !.published = r.published]
      BY <1>1, ActorKnows DEF Frame, Row
    <2>2. "rejected" \in CANDIDATE_STATES /\ "rejected" \notin Decidable
      BY Graph DEF Decidable
    <2>3. QED
      BY <1>1, <2>1, <2>2, RowWrites
  <1>5. Typed'
    BY <1>1, <1>3, <1>4 DEF CandidateInv, Typed, Moves, Turns
  <1>6. Legal(frame'[a])
    BY <1>1, <1>3 DEF Legal, Decisions, Turns
  <1>7. ASSUME serial
        PROVE  SerialOf(a)'
    <2>1. SerialOf(a)
      BY <1>1, <1>7, ActorKnows
    <2>2. r = row /\ row.count = runs /\ (Live <=> node = "present") /\ (Live => view) /\ Paired
      BY <1>1, <2>1 DEF SerialOf, Level, Decisions
    <2>3. ~Live /\ ~Live' /\ Paired'
      <3>1. "rejected" \in ALLOWED_TRANSITIONS[r.state] /\ r.state \in CANDIDATE_STATES
        BY <1>1, ActorKnows DEF FrameOf, Legal, Frame, Row, State
      <3>2. QED
        BY <1>1, <1>4, <2>2, <3>1, Graph DEF Live, Paired
    <2>4. QED
      BY <1>1, <1>3, <1>4, <2>2, <2>3 DEF SerialOf, Level, Decisions, Turns
  <1>8. QED
    BY <1>1, <1>2, <1>3, <1>4, <1>5, <1>6, <1>7, TurnStep DEF Turns, Decisions

\* The event of the rejection follows its row.
LEMMA FailEventStep ==
    ASSUME CandidatesAssumption, CandidateInv, NEW a \in Actors, FailEvent(a)
    PROVE  CandidateInv'
  <1>1. /\ frame[a].op = "fail" /\ frame[a].at = "event" /\ log' = Logged(log, "rejected", 0, FALSE)
        /\ UNCHANGED <<serial, row, view, node, runs, files, layer>>
    BY DEF FailEvent, At
  <1>2. Ends(a)
    BY EndEnds DEF FailEvent, CandidateInv
  <1>3. PlainEvent("rejected")
    BY <1>1, Graph, PlainAdds DEF CandidateInv
  <1>4. Typed'
    BY <1>1, <1>2, <1>3 DEF CandidateInv, Typed, Ends, Moves, PlainEvent, Appends
  <1>5. Grows /\ Rests' /\ Reading(row)'
    BY <1>1, <1>3, EventGrows, ActorKnows DEF Rests, PlainEvent
  <1>6. ASSUME serial
        PROVE  Books'
    <2>1. SerialOf(a)
      BY <1>1, <1>6, ActorKnows
    <2>2. row.count = runs /\ row.state = "rejected" /\ (Live <=> node = "present") /\ (Live => view) /\ Paired
      BY <1>1, <2>1 DEF SerialOf
    <2>3. (Live' <=> node' = "present") /\ (Live' => view') /\ Paired'
      BY <1>1, <2>2 DEF Live, Paired
    <2>4. QED
      BY <1>1, <1>3, <2>2, <2>3 DEF Books, PlainEvent, Appends
  <1>7. QED
    BY <1>1, <1>2, <1>4, <1>5, <1>6, EndStep

\* The report is applied to what the row says now.
LEMMA ApplyReadStep ==
    ASSUME CandidatesAssumption, CandidateInv, NEW a \in Actors, ApplyRead(a)
    PROVE  CandidateInv'
  <1>1. /\ frame[a].op = "validate" /\ frame[a].at = "apply"
        /\ UNCHANGED <<serial, row, log, view, node, runs, files, layer, started>>
    BY DEF ApplyRead, At
  <1>2. PICK at \in {"score", "outcome"} : frame' = [frame EXCEPT ![a].row = row, ![a].at = at]
    BY DEF ApplyRead
  <1>3. at \in Phases["validate"] /\ at \in UNION {Phases[o] : o \in DOMAIN Phases}
    <2>1. at \in Phases["validate"] /\ "validate" \in DOMAIN Phases
      BY DEF Phases
    <2>2. QED
      BY <2>1
  <1>4. /\ Moves(a) /\ frame'[a].op = "validate" /\ frame'[a].at = at /\ frame'[a].row = row
        /\ frame'[a].version = frame[a].version
    <2> DEFINE f == [frame[a] EXCEPT !.row = row, !.at = at]
    <2>1. f \in Frame /\ f.op = "validate" /\ f.at = at /\ f.row = row /\ f.version = frame[a].version
      BY <1>1, <1>3, ActorKnows DEF Frame
    <2>2. frame' = [frame EXCEPT ![a] = f]
      BY <1>2
    <2> HIDE DEF f
    <2>3. QED
      BY <1>1, <2>1, <2>2 DEF CandidateInv, Typed, Moves
  <1>5. Typed'
    BY <1>1, <1>4 DEF CandidateInv, Typed, Moves
  <1>6. Legal(frame'[a])
    BY <1>4 DEF Legal, Decisions
  <1>7. ASSUME serial
        PROVE  SerialOf(a)'
    <2>1. SerialOf(a)
      BY <1>1, <1>7, ActorKnows
    <2>2. /\ row.count = runs /\ row.state = log.last /\ (Live <=> node = "present") /\ (Live => view) /\ Paired
      BY <1>1, <2>1 DEF SerialOf, Level, Decisions
    <2>3. (Live' <=> node' = "present") /\ (Live' => view') /\ Paired'
      BY <1>1, <2>2 DEF Live, Paired
    <2>4. QED
      BY <1>1, <1>4, <2>2, <2>3 DEF SerialOf, Level, Decisions
  <1>8. QED
    BY <1>1, <1>3, <1>4, <1>5, <1>6, <1>7, Untouched, TurnStep DEF Decisions

\* The stability is stored in the row as it was read.
LEMMA ApplyScoreStep ==
    ASSUME CandidatesAssumption, CandidateInv, NEW a \in Actors, ApplyScore(a)
    PROVE  CandidateInv'
  <1>1. /\ frame[a].op = "validate" /\ frame[a].at = "score" /\ row' = frame[a].row
        /\ UNCHANGED <<serial, log, view, node, runs, files, layer>>
    BY DEF ApplyScore, At
  <1>2. "validate" \in DOMAIN Phases /\ "outcome" \in Phases["validate"]
    BY DEF Phases
  <1>3. Turns(a, "outcome")
    BY <1>2, GotoTurns DEF ApplyScore, CandidateInv
  <1>4. row' \in Row /\ Grows /\ Rests' /\ Reading(row)'
    <2>1. frame[a].row \in Row /\ Reading(frame[a].row) /\ frame[a].row.state # "none" /\ Rests
      BY <1>1, ActorKnows DEF FrameOf, Frame
    <2>2. QED
      BY <1>1, <2>1 DEF Grows, Rests, Reading
  <1>5. Typed'
    BY <1>1, <1>3, <1>4 DEF CandidateInv, Typed, Moves, Turns
  <1>6. Legal(frame'[a])
    BY <1>1, <1>3 DEF Legal, Decisions, Turns
  <1>7. ASSUME serial
        PROVE  SerialOf(a)'
    <2>1. SerialOf(a)
      BY <1>1, <1>7, ActorKnows
    <2>2. /\ frame[a].row = row /\ row.count = runs /\ row.state = log.last
          /\ (Live <=> node = "present") /\ (Live => view) /\ Paired
      BY <1>1, <2>1 DEF SerialOf, Level, Decisions
    <2>3. (Live' <=> node' = "present") /\ (Live' => view') /\ Paired'
      BY <1>1, <2>2 DEF Live, Paired
    <2>4. QED
      BY <1>1, <1>3, <2>2, <2>3 DEF SerialOf, Level, Decisions, Turns
  <1>8. QED
    BY <1>1, <1>2, <1>3, <1>4, <1>5, <1>6, <1>7, TurnStep DEF Turns, Decisions

\* What comes of the report: nothing, a review, or the views.
LEMMA ApplyOutcomeStep ==
    ASSUME CandidatesAssumption, CandidateInv, NEW a \in Actors, ApplyOutcome(a)
    PROVE  CandidateInv'
  <1>1. /\ frame[a].op = "validate" /\ frame[a].at = "outcome" /\ Others
    BY DEF ApplyOutcome, At, Others
  <1>2. \/ Turns(a, "publish")
        \/ Turns(a, "review_event") /\ "needs_review" \in ALLOWED_TRANSITIONS[frame[a].row.state]
        \/ Ends(a)
    <2>1. "validate" \in DOMAIN Phases /\ "publish" \in Phases["validate"] /\ "review_event" \in Phases["validate"]
      BY DEF Phases
    <2>2. /\ Goto(a, "publish") => Turns(a, "publish")
          /\ Goto(a, "review_event") => Turns(a, "review_event")
          /\ End(a) => Ends(a)
      BY <2>1, GotoTurns, EndEnds DEF CandidateInv
    <2>3. QED
      BY <2>2 DEF ApplyOutcome
  <1>3. Typed'
    BY <1>1, <1>2 DEF CandidateInv, Typed, Turns, Ends, Moves, Others
  <1>4. Grows /\ Rests' /\ Reading(row)'
    BY <1>1, Untouched DEF Others
  <1>5. ASSUME serial
        PROVE  frame[a].row = row /\ Books /\ Books'
    <2>1. SerialOf(a)
      BY <1>1, <1>5, ActorKnows
    <2>2. frame[a].row = row /\ Books
      BY <1>1, <2>1 DEF SerialOf, Level, Decisions, Books
    <2>3. QED
      BY <1>1, <2>2 DEF Books, Live, Paired, Others
  <1>6. CASE Ends(a)
    BY <1>1, <1>3, <1>4, <1>5, <1>6, EndStep DEF Others
  <1>7. ASSUME NEW at \in {"publish", "review_event"}, Turns(a, at),
               at = "review_event" => "needs_review" \in ALLOWED_TRANSITIONS[frame[a].row.state]
        PROVE  CandidateInv'
    <2>1. Legal(frame'[a]) /\ at \in Phases["validate"]
      BY <1>1, <1>7 DEF Legal, Decisions, Turns, Phases
    <2>2. serial => SerialOf(a)'
      BY <1>1, <1>5, <1>7 DEF SerialOf, Level, Decisions, Turns, Books, Others
    <2>3. QED
      BY <1>1, <1>3, <1>4, <1>7, <2>1, <2>2, TurnStep DEF Turns, Others, Decisions
  <1>8. QED
    BY <1>2, <1>6, <1>7

\* The level 1 views exist, or the warehouse refused one of the statements.
LEMMA ApplyPublishStep ==
    ASSUME CandidatesAssumption, CandidateInv, NEW a \in Actors, ApplyPublish(a)
    PROVE  CandidateInv'
  <1> DEFINE at == IF frame[a].row.state = "candidate" THEN "valid_event" ELSE "promote_event"
  <1>1. /\ frame[a].op = "validate" /\ frame[a].at = "publish"
        /\ UNCHANGED <<serial, row, log, node, runs, files, layer>>
    BY DEF ApplyPublish, At
  <1>2. at \in Phases["validate"] /\ "validate" \in DOMAIN Phases
    BY DEF Phases
  <1>3. (view' = TRUE /\ Turns(a, at)) \/ (view' \in {view, TRUE} /\ Ends(a))
    <2>1. (Goto(a, at) => Turns(a, at)) /\ (End(a) => Ends(a))
      BY <1>2, GotoTurns, EndEnds DEF CandidateInv
    <2>2. QED
      BY <2>1 DEF ApplyPublish
  <1>4. Typed'
    <2>1. view' \in BOOLEAN
      BY <1>3 DEF CandidateInv, Typed
    <2>2. QED
      BY <1>1, <1>3, <2>1 DEF CandidateInv, Typed, Turns, Ends, Moves
  <1>5. Grows /\ Rests' /\ Reading(row)'
    BY <1>1, Untouched
  <1>6. ASSUME serial
        PROVE  frame[a].row = row /\ Books /\ Books'
    <2>1. SerialOf(a)
      BY <1>1, <1>6, ActorKnows
    <2>2. frame[a].row = row /\ Books
      BY <1>1, <2>1 DEF SerialOf, Level, Decisions, Books
    <2>3. view => view'
      BY <1>3
    <2>4. QED
      BY <1>1, <2>2, <2>3 DEF Books, Live, Paired
  <1>7. CASE Ends(a)
    BY <1>1, <1>4, <1>5, <1>6, <1>7, EndStep
  <1>8. CASE view' = TRUE /\ Turns(a, at)
    <2>1. at \in {"valid_event", "promote_event"} /\ (at = "valid_event" => frame[a].row.state = "candidate")
      OBVIOUS
    <2> HIDE DEF at
    <2>2. Legal(frame'[a])
      BY <1>1, <1>8, <2>1 DEF Legal, Decisions, Turns
    <2>3. serial => SerialOf(a)'
      BY <1>1, <1>6, <1>8, <2>1 DEF SerialOf, Level, Decisions, Turns, Books
    <2>4. QED
      BY <1>1, <1>2, <1>4, <1>5, <1>8, <2>1, <2>2, <2>3, TurnStep DEF Turns, Decisions
  <1>9. QED
    BY <1>3, <1>7, <1>8

\* A candidate is logged as validated.
LEMMA ApplyValidatedStep ==
    ASSUME CandidatesAssumption, CandidateInv, NEW a \in Actors, ApplyValidated(a)
    PROVE  CandidateInv'
  <1>1. /\ frame[a].op = "validate" /\ frame[a].at = "valid_event"
        /\ log' = Logged(log, "validated", frame[a].version, FALSE)
        /\ UNCHANGED <<serial, row, view, node, runs, files, layer>>
    BY DEF ApplyValidated, At
  <1>2. Turns(a, "promote_event") /\ "promote_event" \in Phases["validate"]
    <2>1. "validate" \in DOMAIN Phases /\ "promote_event" \in Phases["validate"]
      BY DEF Phases
    <2>2. QED
      BY <2>1, GotoTurns DEF ApplyValidated, CandidateInv
  <1>3. PlainEvent("validated")
    BY <1>1, Graph, PlainAdds DEF CandidateInv
  <1>4. Typed'
    BY <1>1, <1>2, <1>3 DEF CandidateInv, Typed, Moves, Turns, PlainEvent, Appends
  <1>5. Grows /\ Rests' /\ Reading(row)'
    BY <1>1, <1>3, EventGrows, ActorKnows DEF Rests, PlainEvent
  <1>6. Legal(frame'[a])
    BY <1>1, <1>2 DEF Legal, Decisions, Turns
  <1>7. ASSUME serial
        PROVE  SerialOf(a)'
    <2>1. SerialOf(a) /\ FrameOf(a)
      BY <1>1, <1>7, ActorKnows
    <2>2. /\ frame[a].row = row /\ row.state = "candidate" /\ row.count = runs
          /\ (Live <=> node = "present") /\ (Live => view) /\ view /\ Paired
      BY <1>1, <2>1 DEF SerialOf, FrameOf, Legal
    <2>3. (Live' <=> node' = "present") /\ (Live' => view') /\ view' /\ Paired'
      BY <1>1, <2>2 DEF Live, Paired
    <2>4. QED
      BY <1>1, <1>2, <1>3, <2>2, <2>3 DEF SerialOf, Level, Decisions, Turns, PlainEvent, Appends
  <1>8. QED
    BY <1>1, <1>2, <1>4, <1>5, <1>6, <1>7, TurnStep DEF Turns, Decisions

\* A candidate is logged as promoted, unless its state does not allow that.
LEMMA ApplyPromotedStep ==
    ASSUME CandidatesAssumption, CandidateInv, NEW a \in Actors, ApplyPromoted(a)
    PROVE  CandidateInv'
  <1> DEFINE from == IF frame[a].row.state = "candidate" THEN "validated" ELSE frame[a].row.state
  <1>1. /\ frame[a].op = "validate" /\ frame[a].at = "promote_event"
        /\ UNCHANGED <<serial, row, view, node, runs, files, layer>>
    BY DEF ApplyPromoted, At
  <1>2. frame[a].row.state \in CANDIDATE_STATES
    BY <1>1, ActorKnows DEF FrameOf, Frame, Row, State
  <1>3. "promote_row" \in Phases["validate"] /\ "validate" \in DOMAIN Phases
    BY DEF Phases
  <1>4. \/ /\ check_transition(from, "promoted")
           /\ log' = Logged(log, "promoted", frame[a].version, TRUE) /\ Turns(a, "promote_row")
        \/ ~check_transition(from, "promoted") /\ Ends(a) /\ log' = log
    <2>1. (Goto(a, "promote_row") => Turns(a, "promote_row")) /\ (End(a) => Ends(a))
      BY <1>3, GotoTurns, EndEnds DEF CandidateInv
    <2>2. QED
      BY <2>1 DEF ApplyPromoted
  <1>5. ASSUME serial
        PROVE  /\ frame[a].row = row /\ row.count = runs
               /\ (Live <=> node = "present") /\ (Live => view) /\ view /\ Paired
               /\ row.state = log.last \/ (row.state = "candidate" /\ log.last = "validated")
               /\ (Live' <=> node' = "present") /\ (Live' => view') /\ view' /\ Paired'
    <2>1. SerialOf(a)
      BY <1>1, <1>5, ActorKnows
    <2>2. /\ frame[a].row = row /\ row.count = runs
          /\ (Live <=> node = "present") /\ (Live => view) /\ view /\ Paired
          /\ row.state = log.last \/ (row.state = "candidate" /\ log.last = "validated")
      BY <1>1, <2>1 DEF SerialOf
    <2>3. QED
      BY <1>1, <2>2 DEF Live, Paired
  <1>6. CASE check_transition(from, "promoted") /\ Turns(a, "promote_row")
             /\ log' = Logged(log, "promoted", frame[a].version, TRUE)
    <2>1. ReportEvent("promoted", frame[a].version)
      BY <1>6, Graph, ReportAdds, ActorKnows DEF CandidateInv, Frame
    <2>2. Typed'
      BY <1>1, <1>6, <2>1 DEF CandidateInv, Typed, Moves, Turns, ReportEvent, Appends
    <2>3. Grows /\ Rests' /\ Reading(row)'
      BY <1>1, <2>1, EventGrows, ActorKnows DEF Rests, ReportEvent
    <2>4. frame[a].row.state # "rejected"
      BY <1>2, <1>6, Graph
    <2>5. Legal(frame'[a])
      BY <1>1, <1>6, <2>4 DEF Legal, Decisions, Turns
    <2>6. serial => SerialOf(a)'
      BY <1>1, <1>5, <1>6, <2>1 DEF SerialOf, Level, Decisions, Turns, ReportEvent, Appends
    <2>7. QED
      BY <1>1, <1>3, <1>6, <2>1, <2>2, <2>3, <2>5, <2>6, TurnStep DEF Turns, Decisions, ReportEvent, Appends
  <1>7. CASE ~check_transition(from, "promoted") /\ Ends(a) /\ log' = log
    <2>1. Typed'
      BY <1>1, <1>7 DEF CandidateInv, Typed, Moves, Ends
    <2>2. frame[a].row.state # "candidate"
      BY <1>7, Graph DEF CANDIDATE_STATES
    <2>3. serial => Books'
      BY <1>1, <1>5, <1>7, <2>2 DEF Books
    <2>4. QED
      BY <1>1, <1>7, <2>1, <2>3, Untouched, EndStep
  <1>8. QED
    BY <1>4, <1>6, <1>7

\* The row follows the promotion.
LEMMA ApplyRowStep ==
    ASSUME CandidatesAssumption, CandidateInv, NEW a \in Actors, ApplyRow(a)
    PROVE  CandidateInv'
  <1>1. /\ frame[a].op = "validate" /\ frame[a].at = "promote_row"
        /\ row' = [frame[a].row EXCEPT !.state = "promoted", !.published = TRUE]
        /\ UNCHANGED <<serial, log, view, node, runs, files, layer>>
    BY DEF ApplyRow, At
  <1>2. Turns(a, "index") /\ "index" \in Phases["validate"]
    <2>1. "validate" \in DOMAIN Phases /\ "index" \in Phases["validate"]
      BY DEF Phases
    <2>2. QED
      BY <2>1, GotoTurns DEF ApplyRow, CandidateInv
  <1>3. /\ row' \in Row /\ row'.state = "promoted" /\ row'.count = frame[a].row.count
        /\ Grows /\ Rests' /\ Reading(row)'
    <2>1. "promoted" \in CANDIDATE_STATES /\ "promoted" \in log.recorded
      BY <1>1, Graph, ActorKnows DEF FrameOf
    <2>2. QED
      BY <1>1, <2>1, RowWrites
  <1>4. Typed'
    BY <1>1, <1>2, <1>3 DEF CandidateInv, Typed, Moves, Turns
  <1>5. Legal(frame'[a])
    BY <1>1, <1>2 DEF Legal, Decisions, Turns
  <1>6. ASSUME serial
        PROVE  SerialOf(a)'
    <2>1. SerialOf(a)
      BY <1>1, <1>6, ActorKnows
    <2>2. frame[a].row = row /\ row.count = runs /\ log.last = "promoted" /\ view /\ Paired
      BY <1>1, <2>1 DEF SerialOf
    <2>3. view' /\ Paired'
      BY <1>1, <2>2 DEF Paired
    <2>4. QED
      BY <1>1, <1>2, <1>3, <2>2, <2>3 DEF SerialOf, Level, Decisions, Turns
  <1>7. QED
    BY <1>1, <1>2, <1>3, <1>4, <1>5, <1>6, TurnStep DEF Turns, Decisions

\* A review is asked for, in the history and then in the row.
LEMMA ApplyReviewEventStep ==
    ASSUME CandidatesAssumption, CandidateInv, NEW a \in Actors, ApplyReviewEvent(a)
    PROVE  CandidateInv'
  <1>1. /\ frame[a].op = "validate" /\ frame[a].at = "review_event"
        /\ log' = Logged(log, "needs_review", frame[a].version, TRUE)
        /\ UNCHANGED <<serial, row, view, node, runs, files, layer>>
    BY DEF ApplyReviewEvent, At
  <1>2. Turns(a, "review_row") /\ "review_row" \in Phases["validate"]
    <2>1. "validate" \in DOMAIN Phases /\ "review_row" \in Phases["validate"]
      BY DEF Phases
    <2>2. QED
      BY <2>1, GotoTurns DEF ApplyReviewEvent, CandidateInv
  <1>3. ReportEvent("needs_review", frame[a].version)
    BY <1>1, Graph, ReportAdds, ActorKnows DEF CandidateInv, Frame
  <1>4. Typed'
    BY <1>1, <1>2, <1>3 DEF CandidateInv, Typed, Moves, Turns, ReportEvent, Appends
  <1>5. Grows /\ Rests' /\ Reading(row)'
    BY <1>1, <1>3, EventGrows, ActorKnows DEF Rests, ReportEvent
  <1>6. Legal(frame'[a])
    BY <1>1, <1>2, ActorKnows DEF FrameOf, Legal, Decisions, Turns
  <1>7. ASSUME serial
        PROVE  SerialOf(a)'
    <2>1. SerialOf(a)
      BY <1>1, <1>7, ActorKnows
    <2>2. /\ frame[a].row = row /\ row.count = runs
          /\ (Live <=> node = "present") /\ (Live => view) /\ Paired
      BY <1>1, <2>1 DEF SerialOf
    <2>3. (Live' <=> node' = "present") /\ (Live' => view') /\ Paired'
      BY <1>1, <2>2 DEF Live, Paired
    <2>4. QED
      BY <1>1, <1>2, <1>3, <2>2, <2>3 DEF SerialOf, Level, Decisions, Turns, ReportEvent, Appends
  <1>8. QED
    BY <1>1, <1>2, <1>3, <1>4, <1>5, <1>6, <1>7, TurnStep DEF Turns, Decisions, ReportEvent, Appends

\* The row follows the review that was asked for.
LEMMA ApplyReviewRowStep ==
    ASSUME CandidatesAssumption, CandidateInv, NEW a \in Actors, ApplyReviewRow(a)
    PROVE  CandidateInv'
  <1> DEFINE r == frame[a].row
  <1>1. /\ frame[a].op = "validate" /\ frame[a].at = "review_row"
        /\ row' = [r EXCEPT !.state = "needs_review"]
        /\ UNCHANGED <<serial, log, view, node, runs, files, layer>>
    BY DEF ApplyReviewRow, At
  <1>2. Ends(a)
    BY EndEnds DEF ApplyReviewRow, CandidateInv
  <1>3. /\ row' \in Row /\ row'.state = "needs_review" /\ row'.count = r.count
        /\ Grows /\ Rests' /\ Reading(row)'
    <2>1. r.published \in BOOLEAN /\ row' = [r EXCEPT !.state = "needs_review", !.published = r.published]
      BY <1>1, ActorKnows DEF Frame, Row
    <2>2. "needs_review" \in CANDIDATE_STATES /\ "needs_review" \in log.recorded
      BY <1>1, Graph, ActorKnows DEF FrameOf
    <2>3. QED
      BY <1>1, <2>1, <2>2, RowWrites
  <1>4. Typed'
    BY <1>1, <1>2, <1>3 DEF CandidateInv, Typed, Ends, Moves
  <1>5. ASSUME serial
        PROVE  Books'
    <2>1. SerialOf(a) /\ FrameOf(a) /\ r \in Row
      BY <1>1, <1>5, ActorKnows DEF Frame
    <2>2. r = row /\ row.count = runs /\ log.last = "needs_review" /\ (Live <=> node = "present") /\ Paired
      BY <1>1, <2>1 DEF SerialOf
    <2>3. "needs_review" \in ALLOWED_TRANSITIONS[row.state] /\ row.state \in CANDIDATE_STATES
      BY <1>1, <2>1, <2>2 DEF FrameOf, Legal, Row, State
    <2>4. ~Live /\ ~Live' /\ Paired'
      BY <1>1, <1>3, <2>2, <2>3, Graph DEF Live, Paired
    <2>5. QED
      BY <1>1, <1>3, <2>2, <2>4 DEF Books
  <1>6. QED
    BY <1>1, <1>2, <1>3, <1>4, <1>5, EndStep

\* The statements of a human decision: views created, dropped, or refused.
LEMMA DecideSqlStep ==
    ASSUME CandidatesAssumption, CandidateInv, NEW a \in Actors, DecideSql(a)
    PROVE  CandidateInv'
  <1>1. /\ UNCHANGED <<serial, row, log, node, runs, files, layer>>
        /\ \/ frame[a].op = "approve" /\ frame[a].at = "publish"
           \/ frame[a].op = "demote" /\ frame[a].at = "drop"
    BY DEF DecideSql, At
  <1>2. \/ Turns(a, "event") /\ frame[a].op = "approve" /\ view' = TRUE
        \/ Turns(a, "event") /\ frame[a].op = "demote" /\ view' = (view /\ ~frame[a].row.published)
        \/ Ends(a) /\ view' \in {view, TRUE}
    <2>1. /\ "approve" \in DOMAIN Phases /\ "event" \in Phases["approve"]
          /\ "demote" \in DOMAIN Phases /\ "event" \in Phases["demote"]
      BY DEF Phases
    <2>2. (Goto(a, "event") => Turns(a, "event")) /\ (End(a) => Ends(a))
      BY <2>1, GotoTurns, EndEnds DEF CandidateInv
    <2>3. QED
      BY <2>2 DEF DecideSql, At
  <1>3. Typed'
    <2>1. view' \in BOOLEAN
      BY <1>2 DEF CandidateInv, Typed
    <2>2. QED
      BY <1>1, <1>2, <2>1 DEF CandidateInv, Typed, Turns, Ends, Moves
  <1>4. Grows /\ Rests' /\ Reading(row)'
    BY <1>1, Untouched
  <1>5. ASSUME serial
        PROVE  frame[a].row = row /\ Books /\ Paired'
    <2>1. SerialOf(a)
      BY <1>1, <1>5, ActorKnows
    <2>2. frame[a].row = row /\ Books
      BY <1>1, <2>1 DEF SerialOf, Level, Decisions, Books
    <2>3. QED
      BY <1>1, <2>2 DEF Books, Paired
  <1>6. CASE Ends(a) /\ view' \in {view, TRUE}
    <2>1. serial => Books'
      <3>1. view => view'
        BY <1>6
      <3>2. QED
        BY <1>1, <1>5, <3>1 DEF Books, Live
    <2>2. QED
      BY <1>1, <1>3, <1>4, <1>6, <2>1, EndStep
  <1>7. CASE Turns(a, "event") /\ (frame[a].op = "approve" => view')
    <2>1. "event" \in Phases[frame[a].op]
      BY <1>1 DEF Phases
    <2>2. Legal(frame'[a])
      BY <1>1, <1>7, ActorKnows DEF FrameOf, Legal, Decisions, Turns
    <2>3. serial => SerialOf(a)'
      <3>1. serial => (Live' <=> node' = "present")
        BY <1>1, <1>5 DEF Books, Live
      <3>2. QED
        BY <1>1, <1>5, <1>7, <3>1 DEF SerialOf, Level, Decisions, Turns, Books
    <2>4. QED
      BY <1>1, <1>3, <1>4, <1>7, <2>1, <2>2, <2>3, TurnStep DEF Turns
  <1>8. QED
    BY <1>2, <1>6, <1>7, <1>1

\* _transition appends the event ...
LEMMA TransitionEventStep ==
    ASSUME CandidatesAssumption, CandidateInv, NEW a \in Actors, TransitionEvent(a)
    PROVE  CandidateInv'
  <1> DEFINE op == frame[a].op
             new == Target[op]
  <1>1. /\ op \in Decisions /\ frame[a].at = "event" /\ log' = Decided(log, new, frame[a].version)
        /\ UNCHANGED <<serial, row, view, node, runs, files, layer>>
    BY Graph DEF TransitionEvent
  <1>2. new \in CANDIDATE_STATES
    BY <1>1, Graph
  <1>3. Turns(a, "row") /\ "row" \in Phases[op]
    <2>1. op \in DOMAIN Phases /\ "row" \in Phases[op]
      BY <1>1 DEF Decisions, Phases
    <2>2. QED
      BY <2>1, GotoTurns DEF TransitionEvent, CandidateInv
  <1>4. FrameOf(a) /\ frame[a].version \in Versions \union {0}
    BY ActorKnows DEF Frame
  <1> HIDE DEF new
  <1>5. DecisionEvent(new, frame[a].version)
    BY <1>1, <1>2, <1>4, DecisionAdds DEF CandidateInv
  <1>6. Typed'
    BY <1>1, <1>3, <1>5 DEF CandidateInv, Typed, Moves, Turns, DecisionEvent, Appends
  <1>7. Grows /\ Rests' /\ Reading(row)'
    <2>1. frame[a].version \in log.reported \union {0}
      BY <1>1, <1>4 DEF FrameOf
    <2>2. Rests'
      BY <1>1, <1>5, <2>1, ActorKnows DEF Rests, DecisionEvent
    <2>3. QED
      BY <1>1, <1>5, <2>2, EventGrows DEF DecisionEvent
  <1>8. Legal(frame'[a])
    BY <1>1, <1>3, <1>4 DEF FrameOf, Legal, Decisions, Turns
  <1>9. ASSUME serial
        PROVE  SerialOf(a)'
    <2>1. SerialOf(a)
      BY <1>1, <1>9, ActorKnows DEF Decisions
    <2>2. /\ frame[a].row = row /\ row.count = runs /\ (Live <=> node = "present")
          /\ op # "demote" => (Live => view)
          /\ op = "approve" => view
          /\ Paired
      BY <1>1, <2>1 DEF SerialOf, Decisions
    <2>3. (Live' <=> node' = "present") /\ (Live' <=> Live) /\ Paired'
      BY <1>1, <2>2 DEF Live, Paired
    <2>4. log'.last = Target[op]
      BY <1>5 DEF DecisionEvent, Appends, new
    <2>5. /\ frame'[a].op = op /\ frame'[a].at = "row" /\ frame'[a].row = frame[a].row
          /\ row' = row /\ runs' = runs /\ view' = view
      BY <1>1, <1>3 DEF Turns
    <2>6. QED
      BY <1>1, <2>2, <2>3, <2>4, <2>5 DEF SerialOf, Level, Decisions
  <1>10. Target[op] \in log'.recorded
    BY <1>5 DEF DecisionEvent, Appends, new
  <1>11. QED
    BY <1>1, <1>3, <1>6, <1>7, <1>8, <1>9, <1>10, TurnStep DEF Turns, Decisions

\* ... and then writes the row.
LEMMA TransitionRowStep ==
    ASSUME CandidatesAssumption, CandidateInv, NEW a \in Actors, TransitionRow(a)
    PROVE  CandidateInv'
  <1> DEFINE op == frame[a].op
             r == frame[a].row
             new == Target[op]
             published == op = "approve" \/ (r.published /\ op # "demote")
  <1>1. /\ op \in Decisions /\ frame[a].at = "row"
        /\ row' = [r EXCEPT !.state = new, !.published = published]
        /\ UNCHANGED <<serial, log, view, node, runs, files, layer>>
    BY Graph DEF TransitionRow
  <1>2. new \in CANDIDATE_STATES /\ published \in BOOLEAN
    BY <1>1, Graph
  <1>3. \/ op \in {"approve", "demote"} /\ Turns(a, "index") /\ "index" \in Phases[op]
        \/ op \in {"reject", "review"} /\ Ends(a)
    <2>1. op \in {"approve", "demote"} => op \in DOMAIN Phases /\ "index" \in Phases[op]
      BY DEF Phases
    <2>2. op \in {"approve", "demote"} /\ Goto(a, "index") => Turns(a, "index")
      BY <2>1, GotoTurns DEF CandidateInv
    <2>3. End(a) => Ends(a)
      BY EndEnds DEF CandidateInv
    <2>4. QED
      BY <1>1, <2>1, <2>2, <2>3 DEF TransitionRow, Decisions
  <1>4. FrameOf(a) /\ r \in Row
    BY ActorKnows DEF Frame
  <1>5. /\ Target[op] \in log.recorded /\ r.state # "none"
        /\ Target[op] \in ALLOWED_TRANSITIONS[r.state] /\ r.state \in CANDIDATE_STATES
    BY <1>1, <1>4 DEF FrameOf, Legal, Decisions, Row, State
  <1> HIDE DEF published
  <1>6. /\ row' \in Row /\ row'.state = Target[op] /\ row'.count = r.count
        /\ Grows /\ Rests' /\ Reading(row)'
    BY <1>1, <1>2, <1>5, RowWrites
  <1>7. Typed'
    BY <1>1, <1>3, <1>6 DEF CandidateInv, Typed, Moves, Turns, Ends
  <1>8. ASSUME serial
        PROVE  /\ r = row /\ row.count = runs /\ (Live <=> node = "present") /\ log.last = Target[op]
               /\ op # "demote" => (Live => view)
               /\ op = "approve" => view
               /\ Paired /\ Paired'
    <2>1. SerialOf(a)
      BY <1>1, <1>8, ActorKnows DEF Decisions
    <2>2. /\ r = row /\ row.count = runs /\ (Live <=> node = "present") /\ log.last = Target[op]
          /\ op # "demote" => (Live => view)
          /\ op = "approve" => view
          /\ Paired
      BY <1>1, <2>1 DEF SerialOf, Decisions
    <2>3. QED
      BY <1>1, <2>2 DEF Paired
  <1>9. CASE op \in {"reject", "review"} /\ Ends(a)
    <2>1. ASSUME serial
          PROVE  Live' <=> Live
      <3>1. CASE op = "reject"
        BY <1>5, <1>6, <1>8, <2>1, <3>1, Graph DEF Live, Target
      <3>2. CASE op = "review"
        BY <1>5, <1>6, <1>8, <2>1, <3>2, Graph DEF Live, Target
      <3>3. QED
        BY <1>9, <3>1, <3>2
    <2>2. serial => Books'
      BY <1>1, <1>6, <1>8, <1>9, <2>1 DEF Books
    <2>3. QED
      BY <1>1, <1>6, <1>7, <1>9, <2>2, EndStep
  <1>10. CASE op \in {"approve", "demote"} /\ Turns(a, "index") /\ "index" \in Phases[op]
    <2>1. Legal(frame'[a])
      BY <1>10 DEF Legal, Turns, Decisions
    <2>2. ASSUME serial
          PROVE  SerialOf(a)'
      <3>1. row'.state = (IF op = "demote" THEN "demoted" ELSE "promoted")
        BY <1>6, <1>10 DEF Target
      <3>2. /\ frame'[a].op = op /\ frame'[a].at = "index" /\ op \in {"approve", "demote"}
            /\ log' = log /\ runs' = runs /\ view' = view
        BY <1>1, <1>10 DEF Turns
      <3>3. op = "approve" => view
        BY <1>8, <2>2
      <3>4. row'.count = runs' /\ row'.state = log'.last /\ Paired'
        BY <1>6, <1>8, <2>2, <3>2
      <3>5. QED
        BY <3>1, <3>2, <3>3, <3>4 DEF SerialOf, Level, Decisions
    <2>3. QED
      BY <1>1, <1>6, <1>7, <1>10, <2>1, <2>2, TurnStep DEF Turns, Decisions
  <1>11. QED
    BY <1>3, <1>9, <1>10

\* The knowledge index follows the row.
LEMMA IndexStep ==
    ASSUME CandidatesAssumption, CandidateInv, NEW a \in Actors, Index(a)
    PROVE  CandidateInv'
  <1>1. /\ frame[a].op \in {"validate", "approve", "demote"} /\ frame[a].at = "index"
        /\ node' = IF frame[a].op = "demote" THEN IF node = "absent" THEN node ELSE "removed" ELSE "present"
        /\ UNCHANGED <<serial, row, log, view, runs, files, layer>>
    BY DEF Index
  <1>2. Ends(a)
    BY EndEnds DEF Index, CandidateInv
  <1>3. Typed'
    BY <1>1, <1>2 DEF CandidateInv, Typed, Ends, Moves
  <1>4. ASSUME serial
        PROVE  Books'
    <2>1. SerialOf(a)
      BY <1>1, <1>4, ActorKnows
    <2>2. /\ row.count = runs /\ row.state = log.last /\ Paired
          /\ row.state = IF frame[a].op = "demote" THEN "demoted" ELSE "promoted"
          /\ frame[a].op # "demote" => (Live => view)
      BY <1>1, <2>1 DEF SerialOf, Level, Decisions
    <2>3. (Live' <=> node' = "present") /\ (Live' => view') /\ Paired'
      BY <1>1, <2>2 DEF Live, Paired
    <2>4. QED
      BY <1>1, <2>2, <2>3 DEF Books
  <1>5. QED
    BY <1>1, <1>2, <1>3, <1>4, Untouched, EndStep

\* Files that are not this call's own stay when it cleans up.
LEMMA CleanRemoves ==
    ASSUME CandidatesAssumption, Typed, NEW a \in Actors, Clean(a)
    PROVE  /\ files' \in [1..2 -> Actors \union {"none"}]
           /\ \A i \in 1..2 : files'[i] = IF files[i] = a THEN "none" ELSE files[i]
  BY DEF CandidatesAssumption, Typed, Clean, Mine

\* The two drafts are created one after the other, or not at all.
LEMMA DraftCreateStep ==
    ASSUME CandidatesAssumption, CandidateInv, NEW a \in Actors, DraftCreate(a)
    PROVE  CandidateInv'
  <1>1. PICK i \in 1..2 :
            /\ At(a, "draft", IF i = 1 THEN "first" ELSE "second")
            /\ IF files[i] = "none"
               THEN files' = [files EXCEPT ![i] = a] /\ Goto(a, IF i = 1 THEN "second" ELSE "content")
               ELSE Clean(a) /\ End(a)
    BY DEF DraftCreate
  <1>2. /\ frame[a].op = "draft" /\ frame[a].at = IF i = 1 THEN "first" ELSE "second"
        /\ UNCHANGED <<serial, row, log, view, node, runs, layer>>
    BY <1>1 DEF DraftCreate, At
  <1>3. Grows /\ Rests' /\ Reading(row)'
    BY <1>2, Untouched
  <1>4. files \in [1..2 -> Actors \union {"none"}]
    BY DEF CandidateInv, Typed
  <1>5. ASSUME serial
        PROVE  /\ frame[a].row = row /\ row.count = runs /\ row.state = log.last
               /\ (Live <=> node = "present") /\ (Live => view)
               /\ (Live' <=> node' = "present") /\ (Live' => view')
               /\ files[2] = "none" /\ files[1] = IF i = 1 THEN "none" ELSE a
    <2>1. SerialOf(a)
      BY <1>2, <1>5, ActorKnows
    <2>2. /\ frame[a].row = row /\ row.count = runs /\ row.state = log.last
          /\ (Live <=> node = "present") /\ (Live => view)
      BY <1>2, <2>1 DEF SerialOf, Level, Decisions
    <2>3. files[2] = "none" /\ files[1] = IF i = 1 THEN "none" ELSE a
      BY <1>2, <2>1 DEF SerialOf
    <2>4. QED
      BY <1>2, <2>2, <2>3 DEF Live
  <1>6. CASE files[i] = "none"
    <2> DEFINE at == IF i = 1 THEN "second" ELSE "content"
    <2>1. "draft" \in DOMAIN Phases /\ at \in Phases["draft"]
      BY DEF Phases
    <2>2. files' = [files EXCEPT ![i] = a] /\ Turns(a, at)
      BY <1>1, <1>6, <2>1, GotoTurns DEF CandidateInv
    <2>3. Typed'
      BY <1>2, <1>4, <2>2 DEF CandidateInv, Typed, Moves, Turns
    <2>4. Legal(frame'[a])
      BY <1>2, <2>2 DEF Legal, Turns, Decisions
    <2>5. ASSUME serial
          PROVE  SerialOf(a)'
      <3>1. files'[1] = a /\ files'[2] = IF i = 1 THEN "none" ELSE a
        BY <1>4, <1>5, <2>2, <2>5
      <3>2. /\ frame'[a].op = "draft" /\ frame'[a].at = at /\ frame'[a].row = frame[a].row
        BY <1>2, <2>2 DEF Turns
      <3>3. /\ frame'[a].row = row' /\ row'.count = runs' /\ row'.state = log'.last
        BY <1>2, <1>5, <2>5, <3>2
      <3>4. QED
        BY <1>5, <2>5, <3>1, <3>2, <3>3 DEF SerialOf, Level, Decisions
    <2>6. QED
      BY <1>2, <1>3, <2>1, <2>2, <2>3, <2>4, <2>5, TurnStep DEF Turns, Decisions
  <1>7. CASE files[i] # "none"
    <2>1. Clean(a) /\ Ends(a)
      BY <1>1, <1>7, EndEnds DEF CandidateInv
    <2>2. Typed'
      BY <1>2, <2>1, CleanRemoves DEF CandidateInv, Typed, Moves, Ends
    <2>3. ~serial
      BY <1>5, <1>7
    <2>4. QED
      BY <1>2, <1>3, <2>1, <2>2, <2>3, EndStep
  <1>8. QED
    BY <1>6, <1>7

\* Both drafts get their content, or neither stays.
LEMMA DraftContentStep ==
    ASSUME CandidatesAssumption, CandidateInv, NEW a \in Actors, DraftContent(a)
    PROVE  CandidateInv'
  <1>1. /\ frame[a].op = "draft" /\ frame[a].at = "content"
        /\ UNCHANGED <<serial, row, log, view, node, runs, layer>>
    BY DEF DraftContent, At
  <1>2. "draft" \in DOMAIN Phases /\ "event" \in Phases["draft"]
    BY DEF Phases
  <1>3. (Turns(a, "event") /\ files' = files) \/ (Clean(a) /\ Ends(a))
    BY <1>2, GotoTurns, EndEnds DEF DraftContent, CandidateInv
  <1>4. Grows /\ Rests' /\ Reading(row)'
    BY <1>1, Untouched
  <1>5. ASSUME serial
        PROVE  /\ frame[a].row = row /\ row.count = runs /\ row.state = log.last
               /\ (Live' <=> node' = "present") /\ (Live' => view')
               /\ files[1] = a /\ files[2] = a
    <2>1. SerialOf(a)
      BY <1>1, <1>5, ActorKnows
    <2>2. /\ frame[a].row = row /\ row.count = runs /\ row.state = log.last
          /\ (Live <=> node = "present") /\ (Live => view) /\ files[1] = a /\ files[2] = a
      BY <1>1, <2>1 DEF SerialOf, Level, Decisions
    <2>3. QED
      BY <1>1, <2>2 DEF Live
  <1>6. CASE Turns(a, "event") /\ files' = files
    <2>1. Typed'
      BY <1>1, <1>6 DEF CandidateInv, Typed, Moves, Turns
    <2>2. Legal(frame'[a])
      BY <1>1, <1>6 DEF Legal, Turns, Decisions
    <2>3. serial => SerialOf(a)'
      BY <1>1, <1>5, <1>6 DEF SerialOf, Level, Decisions, Turns, Paired
    <2>4. QED
      BY <1>1, <1>2, <1>4, <1>6, <2>1, <2>2, <2>3, TurnStep DEF Turns, Decisions
  <1>7. CASE Clean(a) /\ Ends(a)
    <2>1. /\ files' \in [1..2 -> Actors \union {"none"}]
          /\ \A i \in 1..2 : files'[i] = IF files[i] = a THEN "none" ELSE files[i]
      BY <1>7, CleanRemoves DEF CandidateInv
    <2>2. Typed'
      BY <1>1, <1>7, <2>1 DEF CandidateInv, Typed, Moves, Ends
    <2>3. serial => Books'
      <3>1. serial => files'[1] = "none" /\ files'[2] = "none"
        BY <1>5, <2>1
      <3>2. QED
        BY <1>1, <1>5, <3>1 DEF Books, Paired
    <2>4. QED
      BY <1>1, <1>4, <1>7, <2>2, <2>3, EndStep
  <1>8. QED
    BY <1>3, <1>6, <1>7

\* The promotion to a draft is logged, and the row stays what it was read as.
LEMMA DraftEventStep ==
    ASSUME CandidatesAssumption, CandidateInv, NEW a \in Actors, DraftEvent(a)
    PROVE  CandidateInv'
  <1> DEFINE r == frame[a].row
  <1>1. /\ frame[a].op = "draft" /\ frame[a].at = "event" /\ log' = Decided(log, r.state, frame[a].version)
        /\ UNCHANGED <<serial, row, view, node, runs, files, layer>>
    BY DEF DraftEvent, At
  <1>2. Turns(a, "row") /\ "row" \in Phases["draft"]
    <2>1. "draft" \in DOMAIN Phases /\ "row" \in Phases["draft"]
      BY DEF Phases
    <2>2. QED
      BY <2>1, GotoTurns DEF DraftEvent, CandidateInv
  <1>3. /\ r.state \in CANDIDATE_STATES /\ frame[a].version \in Versions \union {0}
        /\ frame[a].version \in log.reported \union {0}
    BY <1>1, ActorKnows DEF FrameOf, Frame, Row, State
  <1>4. DecisionEvent(r.state, frame[a].version)
    BY <1>1, <1>3, DecisionAdds DEF CandidateInv
  <1>5. Typed'
    BY <1>1, <1>2, <1>4 DEF CandidateInv, Typed, Moves, Turns, DecisionEvent, Appends
  <1>6. Grows /\ Rests' /\ Reading(row)'
    <2>1. Rests'
      BY <1>3, <1>4, ActorKnows DEF Rests, DecisionEvent
    <2>2. QED
      BY <1>1, <1>4, <2>1, EventGrows DEF DecisionEvent
  <1>7. Legal(frame'[a])
    BY <1>1, <1>2 DEF Legal, Decisions, Turns
  <1>8. ASSUME serial
        PROVE  SerialOf(a)'
    <2>1. SerialOf(a)
      BY <1>1, <1>8, ActorKnows
    <2>2. /\ r = row /\ row.count = runs /\ (Live <=> node = "present") /\ (Live => view) /\ Paired
      BY <1>1, <2>1 DEF SerialOf, Level, Decisions
    <2>3. (Live' <=> node' = "present") /\ (Live' => view') /\ Paired'
      BY <1>1, <2>2 DEF Live, Paired
    <2>4. log'.last = row'.state
      BY <1>1, <1>4, <2>2 DEF DecisionEvent, Appends
    <2>5. QED
      BY <1>1, <1>2, <2>2, <2>3, <2>4 DEF SerialOf, Level, Decisions, Turns
  <1>9. QED
    BY <1>1, <1>2, <1>5, <1>6, <1>7, <1>8, TurnStep DEF Turns, Decisions

\* The row is written as it was read: a draft changes no state.
LEMMA DraftRowStep ==
    ASSUME CandidatesAssumption, CandidateInv, NEW a \in Actors, DraftRow(a)
    PROVE  CandidateInv'
  <1>1. /\ frame[a].op = "draft" /\ frame[a].at = "row" /\ row' = frame[a].row
        /\ UNCHANGED <<serial, log, view, node, runs, files, layer>>
    BY DEF DraftRow, At
  <1>2. Ends(a)
    BY EndEnds DEF DraftRow, CandidateInv
  <1>3. row' \in Row /\ Grows /\ Rests' /\ Reading(row)'
    <2>1. frame[a].row \in Row /\ Reading(frame[a].row) /\ frame[a].row.state # "none" /\ Rests
      BY <1>1, ActorKnows DEF FrameOf, Frame
    <2>2. QED
      BY <1>1, <2>1 DEF Grows, Rests, Reading
  <1>4. Typed'
    BY <1>1, <1>2, <1>3 DEF CandidateInv, Typed, Moves, Ends
  <1>5. ASSUME serial
        PROVE  Books'
    <2>1. SerialOf(a)
      BY <1>1, <1>5, ActorKnows
    <2>2. frame[a].row = row /\ Books
      BY <1>1, <2>1 DEF SerialOf, Level, Decisions, Books
    <2>3. QED
      BY <1>1, <2>2 DEF Books, Live, Paired
  <1>6. QED
    BY <1>1, <1>2, <1>3, <1>4, <1>5, EndStep

\* A process dies only where operations may overlap.
LEMMA CrashStep ==
    ASSUME CandidatesAssumption, CandidateInv, NEW a \in Actors, Crash(a)
    PROVE  CandidateInv'
  <1>1. ~serial /\ frame[a] # Idle /\ Others
    BY DEF Crash, Others
  <1>2. Ends(a)
    BY EndEnds DEF Crash, CandidateInv
  <1>3. frame[a].op # "none"
    BY <1>1, ActorKnows DEF FrameOf
  <1>4. Typed'
    BY <1>1, <1>2 DEF CandidateInv, Typed, Ends, Moves, Others
  <1>5. QED
    BY <1>1, <1>2, <1>3, <1>4, Untouched, EndStep DEF Others

\* An edited layer changes nothing else.
LEMMA LayerStep ==
    ASSUME CandidateInv, LayerChanges
    PROVE  CandidateInv'
  <1>1. UNCHANGED <<serial, row, log, view, node, runs, files, started, frame>> /\ layer' \in Versions
    BY DEF LayerChanges
  <1>2. Typed'
    BY <1>1 DEF CandidateInv, Typed
  <1>3. RecordInv'
    BY <1>1 DEF CandidateInv, RecordInv, FrameOf, Reading, Legal
  <1>4. SerialInv'
    BY <1>1 DEF CandidateInv, SerialInv, SerialOf, Books, Live, Paired, Level
  <1>5. QED
    BY <1>2, <1>3, <1>4 DEF CandidateInv

-----------------------------------------------------------------------------

\* An empty table, one operation after the other or not.
LEMMA CandidateInit ==
    ASSUME CandidatesAssumption, Init
    PROVE  CandidateInv
  <1>1. /\ Idle \in Frame /\ Idle.op = "none" /\ Idle.at = "idle" /\ Idle.row = NoRow
        /\ NoRow.state = "none" /\ NoRow.count = 0 /\ NoRow \in Row
    <2>1. NoRow.state = "none" /\ NoRow.count = 0 /\ NoRow \in Row
      BY DEF NoRow, Row, State, CandidatesAssumption
    <2>2. QED
      BY <2>1, IdleFrame DEF Idle
  <1>2. log \in History /\ log.last = "none" /\ log.judged = 0 /\ log.decided = {}
    BY DEF Init, History, State
  <1>3. files \in [1..2 -> Actors \union {"none"}] /\ Paired
    BY DEF Init, Paired
  <1>4. Typed
    <2>1. started \in 0..MaxOperations /\ runs \in Nat
      BY DEF Init, CandidatesAssumption
    <2>2. frame \in [Actors -> Frame]
      BY <1>1 DEF Init
    <2>3. row \in Row /\ view \in BOOLEAN /\ node \in {"absent", "present", "removed"}
      BY <1>1 DEF Init
    <2>4. QED
      BY <1>2, <1>3, <2>1, <2>2, <2>3 DEF Init, Typed
  <1>5. Reading(NoRow)
    BY <1>1 DEF Reading, Decidable
  <1>6. RecordInv
    <2>1. \A a \in Actors : frame[a] = Idle
      BY DEF Init
    <2>2. Idle.at \in Phases[Idle.op] /\ Legal(Idle)
      BY <1>1 DEF Phases, Legal, Decisions
    <2>3. ASSUME NEW a \in Actors
          PROVE  FrameOf(a)
      BY <1>1, <1>5, <2>1, <2>2 DEF FrameOf, Decisions
    <2>4. QED
      BY <1>2, <1>5, <2>3 DEF RecordInv, Init
  <1>7. SerialInv
    <2>1. Books
      BY <1>1, <1>2, <1>3 DEF Books, Live, Init
    <2>2. \A a \in Actors : frame[a].op = "none"
      BY <1>1 DEF Init
    <2>3. QED
      BY <2>1, <2>2 DEF SerialInv
  <1>8. QED
    BY <1>4, <1>6, <1>7 DEF CandidateInv

\* One step of the specification.
LEMMA CandidateNext ==
    ASSUME CandidatesAssumption, CandidateInv, [Next]_cvars
    PROVE  CandidateInv'
  <1>1. CASE UNCHANGED cvars
    BY <1>1 DEF CandidateInv, Typed, RecordInv, FrameOf, Reading, Legal, SerialInv, SerialOf, Books, Live,
                Paired, Level, cvars
  <1>2. CASE LayerChanges
    BY <1>2, LayerStep
  <1>3. ASSUME NEW a \in Actors,
               \/ AnswerRead(a) \/ AnswerWrite(a) \/ AnswerEvent(a) \/ AnswerRun(a)
               \/ FailRead(a) \/ FailWrite(a) \/ FailEvent(a)
        PROVE  CandidateInv'
    BY <1>3, AnswerReadStep, AnswerWriteStep, AnswerEventStep, AnswerRunStep, FailReadStep, FailWriteStep,
       FailEventStep
  <1>4. ASSUME NEW a \in Actors, Apply(a)
        PROVE  CandidateInv'
    BY <1>4, JudgeStep, ApplyReadStep, ApplyScoreStep, ApplyOutcomeStep, ApplyPublishStep, ApplyValidatedStep,
       ApplyPromotedStep, ApplyRowStep, ApplyReviewEventStep, ApplyReviewRowStep DEF Apply
  <1>5. ASSUME NEW a \in Actors,
               \/ Decide(a) \/ DecideSql(a) \/ TransitionEvent(a) \/ TransitionRow(a) \/ Index(a)
               \/ DraftStart(a) \/ DraftCreate(a) \/ DraftContent(a) \/ DraftEvent(a) \/ DraftRow(a)
               \/ Crash(a)
        PROVE  CandidateInv'
    BY <1>5, DecideStep, DecideSqlStep, TransitionEventStep, TransitionRowStep, IndexStep, DraftStartStep,
       DraftCreateStep, DraftContentStep, DraftEventStep, DraftRowStep, CrashStep
  <1>6. QED
    BY <1>1, <1>2, <1>3, <1>4, <1>5 DEF Next

\* What the invariant says of a state.
LEMMA CandidateHolds ==
    ASSUME CandidatesAssumption, CandidateInv
    PROVE  TypeOK /\ StateIsRecorded /\ DecisionRestsOnReport /\ SerialBooksAgree /\ SerialObjectsExist
  <1>1. TypeOK
    BY DEF CandidateInv, Typed, Row, State, History, TypeOK
  <1>2. StateIsRecorded /\ DecisionRestsOnReport
    BY DEF CandidateInv, RecordInv, Reading, Decidable, StateIsRecorded, DecisionRestsOnReport
  <1>3. Quiet => Books
    BY DEF Quiet, CandidateInv, SerialInv, Idle
  <1>4. SerialBooksAgree /\ SerialObjectsExist
    BY <1>3 DEF Books, Paired, SerialBooksAgree, SerialObjectsExist, Quiet
  <1>5. QED
    BY <1>1, <1>2, <1>4

\* Only a draft that is being made, or that failed, changes the files.
LEMMA DraftsStay ==
    ASSUME CandidatesAssumption, CandidateInv, [Next]_cvars
    PROVE  DraftsAreNotTakenOver
  <1>1. CASE files' = files
    BY <1>1 DEF DraftsAreNotTakenOver
  <1>2. ASSUME NEW a \in Actors, Clean(a), frame[a].op = "draft"
        PROVE  DraftsAreNotTakenOver
    BY <1>2, CleanRemoves DEF CandidateInv, DraftsAreNotTakenOver
  <1>3. ASSUME NEW a \in Actors, DraftCreate(a)
        PROVE  DraftsAreNotTakenOver
    <2>1. PICK i \in 1..2 :
              /\ At(a, "draft", IF i = 1 THEN "first" ELSE "second")
              /\ IF files[i] = "none" THEN files' = [files EXCEPT ![i] = a] ELSE Clean(a)
      BY <1>3 DEF DraftCreate
    <2>2. CASE files[i] = "none"
      BY <2>1, <2>2 DEF CandidateInv, Typed, DraftsAreNotTakenOver
    <2>3. CASE files[i] # "none"
      BY <1>2, <2>1, <2>3 DEF At
    <2>4. QED
      BY <2>2, <2>3
  <1>4. ASSUME NEW a \in Actors, DraftContent(a)
        PROVE  DraftsAreNotTakenOver
    <2>1. files' = files \/ (Clean(a) /\ frame[a].op = "draft")
      BY <1>4 DEF DraftContent, At
    <2>2. QED
      BY <1>1, <1>2, <2>1
  <1>5. files' = files \/ \E a \in Actors : DraftCreate(a) \/ DraftContent(a)
    BY DEF Next, cvars, LayerChanges, AnswerRead, AnswerWrite, AnswerEvent, AnswerRun, FailRead, FailWrite, FailEvent,
           Apply, Judge, ApplyRead, ApplyScore, ApplyOutcome, ApplyPublish, ApplyValidated, ApplyPromoted, ApplyRow,
           ApplyReviewEvent, ApplyReviewRow, Decide, DecideSql, TransitionEvent, TransitionRow, Index,
           DraftStart, DraftEvent, DraftRow, Crash
  <1>6. QED
    BY <1>1, <1>3, <1>4, <1>5

\* Who writes the row of a rejected candidate writes that it is rejected.
LEMMA RejectedStays ==
    ASSUME CandidatesAssumption, CandidateInv, [Next]_cvars
    PROVE  RejectedIsFinal
  <1>1. SUFFICES ASSUME serial, row.state = "rejected"
                 PROVE  row'.state = "rejected"
    BY DEF RejectedIsFinal
  <1>2. CASE row' = row
    BY <1>1, <1>2
  <1>3. ASSUME NEW a \in Actors, frame[a].op # "none", frame[a].at \notin {"run", "index"},
               ~(frame[a].op \in {"answer", "fail"} /\ frame[a].at = "event")
        PROVE  frame[a].row = row /\ FrameOf(a) /\ row \in Row /\ ALLOWED_TRANSITIONS[row.state] = {}
    BY <1>1, <1>3, Graph, ActorKnows DEF SerialOf
  <1>4. ASSUME NEW a \in Actors, AnswerWrite(a)
        PROVE  row'.state = "rejected"
    <2>1. frame[a].row = row /\ row \in Row
      BY <1>3, <1>4 DEF AnswerWrite, At
    <2>2. row' = [row EXCEPT !.count = @ + 1]
      BY <1>1, <1>4, <2>1 DEF AnswerWrite, NoRow
    <2>3. QED
      BY <1>1, <2>1, <2>2 DEF Row
  <1>5. ASSUME NEW a \in Actors, FailWrite(a)
        PROVE  row'.state = "rejected"
    <2>1. frame[a].row = row /\ row \in Row
      BY <1>3, <1>5 DEF FailWrite, At
    <2>2. QED
      BY <1>5, <2>1 DEF FailWrite, Row
  <1>6. ASSUME NEW a \in Actors, ApplyScore(a) \/ DraftRow(a)
        PROVE  row'.state = "rejected"
    BY <1>1, <1>3, <1>6 DEF ApplyScore, DraftRow, At
  <1>7. ASSUME NEW a \in Actors, ApplyRow(a)
        PROVE  FALSE
    BY <1>1, <1>3, <1>7 DEF ApplyRow, At, FrameOf, Legal
  <1>8. ASSUME NEW a \in Actors, ApplyReviewRow(a)
        PROVE  FALSE
    BY <1>3, <1>8 DEF ApplyReviewRow, At, FrameOf, Legal
  <1>9. ASSUME NEW a \in Actors, TransitionRow(a)
        PROVE  FALSE
    <2>1. frame[a].op \in Decisions /\ frame[a].at = "row"
      BY <1>9, Graph DEF TransitionRow
    <2>2. QED
      BY <1>3, <2>1 DEF FrameOf, Legal, Decisions
  <1>10. row' = row \/ \E a \in Actors : \/ AnswerWrite(a) \/ FailWrite(a) \/ ApplyScore(a) \/ DraftRow(a)
                                         \/ ApplyRow(a) \/ ApplyReviewRow(a) \/ TransitionRow(a)
    BY DEF Next, cvars, LayerChanges, AnswerRead, AnswerEvent, AnswerRun, FailRead, FailEvent,
           Apply, Judge, ApplyRead, ApplyOutcome, ApplyPublish, ApplyValidated, ApplyPromoted,
           ApplyReviewEvent, Decide, DecideSql, TransitionEvent, Index,
           DraftStart, DraftCreate, DraftContent, DraftEvent, Crash
  <1>11. QED
    BY <1>2, <1>4, <1>5, <1>6, <1>7, <1>8, <1>9, <1>10

\* What holds of every state of a candidate's life.
LEMMA CandidateSpec == CandidatesAssumption => (Spec => []CandidateInv)
  <1> SUFFICES ASSUME CandidatesAssumption PROVE Spec => []CandidateInv
    OBVIOUS
  <1>1. Init => CandidateInv
    BY CandidateInit
  <1>2. CandidateInv /\ [Next]_cvars => CandidateInv'
    BY CandidateNext
  <1>3. QED
    BY <1>1, <1>2, PTL DEF Spec

\* Whatever overlaps or dies (two validation jobs, a person and a job, a process
\* killed between two writes), a candidate that is found promoted, demoted or
\* under review has its event in the history, and every decision rests on a
\* version of the layer for which a report is on record.  Operations one after
\* the other: row, history, index, views and drafts agree.
THEOREM CandidatesAreOnRecord ==
    CandidatesAssumption =>
        (Spec => [](TypeOK /\ StateIsRecorded /\ DecisionRestsOnReport /\ SerialBooksAgree /\ SerialObjectsExist))
  <1> SUFFICES ASSUME CandidatesAssumption
               PROVE  Spec => [](TypeOK /\ StateIsRecorded /\ DecisionRestsOnReport
                                 /\ SerialBooksAgree /\ SerialObjectsExist)
    OBVIOUS
  <1>1. CandidateInv
            => TypeOK /\ StateIsRecorded /\ DecisionRestsOnReport /\ SerialBooksAgree /\ SerialObjectsExist
    BY CandidateHolds
  <1>2. Spec => []CandidateInv
    BY CandidateSpec
  <1>3. QED
    BY <1>1, <1>2, PTL

\* Operations one after the other, no report, answer or decision brings a
\* rejected candidate back; and whatever overlaps, nobody replaces or removes the
\* drafts of another promotion.
THEOREM CandidatesStand ==
    CandidatesAssumption => (Spec => [][RejectedIsFinal /\ DraftsAreNotTakenOver]_cvars)
  <1> SUFFICES ASSUME CandidatesAssumption PROVE Spec => [][RejectedIsFinal /\ DraftsAreNotTakenOver]_cvars
    OBVIOUS
  <1>1. CandidateInv /\ [Next]_cvars => [RejectedIsFinal /\ DraftsAreNotTakenOver]_cvars
    BY RejectedStays, DraftsStay
  <1>2. Spec => []CandidateInv
    BY CandidateSpec
  <1>3. QED
    BY <1>1, <1>2, PTL DEF Spec

(***************************************************************************)
(* Curated models (SemanticSync), for every set of pipelines, names, keys, *)
(* similar names and widening types.                                       *)
(***************************************************************************)
-----------------------------------------------------------------------------
(* What a file may hold.                                                   *)

Items == [Collections -> [Names -> Item]]
Payload(f) == DOMAIN f = Fields /\ f.items \in Items
SyncTyped ==
    /\ pipeline \in Pipelines
    /\ draft # NoFile => Payload(draft)
    /\ curated # NoFile => Payload(curated)
    /\ promoting # NoFile => Payload(promoting)

\* What a pipeline generates is a payload.
LEMMA GeneratedPayload ==
    ASSUME SyncAssumption, NEW p \in Pipelines
    PROVE  Payload(p)
  <1>1. \A c \in Collections, n \in Names, k \in Keys : p.items[c][n][k] \in Generated
    BY DEF Generated
  <1>2. \A c \in Collections, n \in Names : [k \in Keys |-> p.items[c][n][k]] \in Item
    BY <1>1 DEF Item
  <1>3. [c \in Collections |-> [n \in Names |-> [k \in Keys |-> p.items[c][n][k]]]] \in Items
    BY <1>2 DEF Items
  <1>4. QED
    BY <1>3 DEF SyncAssumption, Payload

\* The name that is in no collection, and what a person writes, are items.
LEMMA HumanItems ==
    /\ NoItem \in Item /\ [k \in Keys |-> HumanValue] \in Item
    /\ HumanValue \in {Absent, HumanValue} \union Generated
  BY DEF NoItem, Item

\* The merge of an item is an item.
LEMMA MergedItem ==
    ASSUME NEW base, NEW cur, NEW candidate, Payload(base), Payload(cur), Payload(candidate),
           NEW c \in Collections, NEW n \in Names
    PROVE  MergeItem(c, n, base, cur, candidate).value \in Item
  <1> DEFINE b == base.items[c][n]
             h == cur.items[c][n]
             g == candidate.items[c][n]
             held == IF h = NoItem THEN b ELSE h
  <1>1. b \in Item /\ h \in Item /\ g \in Item /\ held \in Item /\ NoItem \in Item
    BY HumanItems DEF Payload, Items
  <1>2. _merge_dict(b, held, g).value \in Item
    <2>1. \A k \in Keys : MergeKey(k, b[k], held[k], g[k]).value \in {held[k], g[k]}
      BY DEF MergeKey, _merge_scalar, Kept, Taken, Refused
    <2>2. \A k \in Keys : MergeKey(k, b[k], held[k], g[k]).value \in {Absent, HumanValue} \union Generated
      <3> HIDE DEF b, held, g
      <3>1. \A k \in Keys : /\ held[k] \in {Absent, HumanValue} \union Generated
                             /\ g[k] \in {Absent, HumanValue} \union Generated
        BY <1>1 DEF Item
      <3>2. QED
        BY <2>1, <3>1
    <2> DEFINE merged == [k \in Keys |-> MergeKey(k, b[k], held[k], g[k])]
    <2>3. _merge_dict(b, held, g).value = [k \in Keys |-> merged[k].value]
      BY DEF _merge_dict
    <2>4. [k \in Keys |-> merged[k].value] \in Item
      BY <2>2 DEF Item
    <2>5. QED
      BY <2>3, <2>4
  <1>3. MergeItem(c, n, base, cur, candidate).value \in {g, h, held, NoItem, _merge_dict(b, held, g).value}
    BY DEF MergeItem, Kept, Taken, Refused
  <1>4. QED
    BY <1>1, <1>2, <1>3

\* The merge of two models and a candidate: a person must decide, or it is a
\* payload whose every value is the one that its merge kept.
LEMMA MergedModels ==
    ASSUME NEW base, NEW cur, NEW candidate, Payload(base), Payload(cur), Payload(candidate),
           ~MergeModels(base, cur, candidate).conflict
    PROVE  LET new == MergeModels(base, cur, candidate).payload
               S(k) == _merge_scalar(base.model[k], cur.model[k], candidate.model[k])
               I(c, n) == MergeItem(c, n, base, cur, candidate)
           IN  /\ Payload(new)
               /\ \A k \in ModelKeys : ~S(k).conflict /\ new.model[k] = S(k).value
               /\ \A c \in Collections, n \in Names : ~I(c, n).conflict /\ new.items[c][n] = I(c, n).value
  <1> DEFINE S(k) == _merge_scalar(base.model[k], cur.model[k], candidate.model[k])
             I(c, n) == MergeItem(c, n, base, cur, candidate)
             scalars == [k \in ModelKeys |-> S(k)]
             items == [c \in Collections |-> [n \in Names |-> I(c, n)]]
             all == {Flags(scalars[k]) : k \in ModelKeys} \union {Flags(items[c][n]) : c \in Collections, n \in Names}
             conflict == \/ base.grain # candidate.grain
                         \/ \E r \in all : r.conflict
                         \/ \E c \in Collections : _suggest_renames(c, base, candidate)
             model == [k \in ModelKeys |-> scalars[k].value]
             kept == [c \in Collections |-> [n \in Names |-> items[c][n].value]]
             new == [candidate EXCEPT !.model = model, !.items = kept]
  <1>1. MergeModels(base, cur, candidate)
            = Report(IF conflict THEN NoFile ELSE new, \E r \in all : r.changed, conflict)
    BY DEF MergeModels
  <1> HIDE DEF new, conflict
  <1>2. ~conflict /\ MergeModels(base, cur, candidate).payload = new
    BY <1>1 DEF Report
  <1>3. \A r \in all : ~r.conflict
    BY <1>2 DEF conflict
  <1>4. \A k \in ModelKeys : ~S(k).conflict
    <2>1. \A k \in ModelKeys : Flags(S(k)) \in all
      OBVIOUS
    <2> HIDE DEF all, S
    <2>2. QED
      BY <1>3, <2>1 DEF Flags
  <1>5. \A c \in Collections, n \in Names : ~I(c, n).conflict
    <2>1. \A c \in Collections, n \in Names : Flags(I(c, n)) \in all
      OBVIOUS
    <2> HIDE DEF all, I
    <2>2. QED
      BY <1>3, <2>1 DEF Flags
  <1>6. kept \in Items /\ \A c \in Collections, n \in Names : kept[c][n] = I(c, n).value
    <2>1. \A c \in Collections, n \in Names : I(c, n).value \in Item
      BY MergedItem
    <2> HIDE DEF I
    <2>2. QED
      BY <2>1 DEF Items
  <1>7. \A k \in ModelKeys : model[k] = S(k).value
    OBVIOUS
  <1> HIDE DEF model, kept, S, I
  <1>8. new.model = model /\ new.items = kept /\ DOMAIN new = Fields
    BY DEF new, Payload, Fields
  <1>9. QED
    BY <1>2, <1>4, <1>5, <1>6, <1>7, <1>8 DEF Payload, S, I

\* What a synchronisation without conflict reports is a payload.
LEMMA SyncedPayload ==
    ASSUME SyncAssumption, SyncTyped, ~sync.conflict
    PROVE  Payload(sync.payload)
  <1>1. Payload(pipeline)
    BY GeneratedPayload DEF SyncTyped
  <1>2. CASE curated = NoFile
    BY <1>1, <1>2 DEF sync, _plan_merge, Report
  <1>3. CASE curated # NoFile
    <2>1. draft # NoFile
      BY <1>3 DEF sync, _plan_merge, Report
    <2>2. Payload(draft) /\ Payload(curated)
      BY <1>3, <2>1 DEF SyncTyped
    <2>3. CASE sync = MergeModels(draft, curated, pipeline)
      BY <1>1, <2>2, <2>3, MergedModels
    <2>4. CASE sync # MergeModels(draft, curated, pipeline)
      BY <1>3, <2>1, <2>2, <2>4 DEF sync, _plan_merge, Report
    <2>5. QED
      BY <2>3, <2>4
  <1>4. QED
    BY <1>2, <1>3

\* An edited file is a payload.
LEMMA CuratedPayload ==
    ASSUME SyncTyped, Curate
    PROVE  Payload(curated')
  <1>1. DOMAIN curated = Fields /\ curated.items \in Items
    BY DEF Curate, SyncTyped, Payload
  <1>2. ASSUME NEW c \in Collections, NEW n \in Names, NEW i \in Item,
               curated' = [curated EXCEPT !.items[c][n] = i]
        PROVE  Payload(curated')
    <2> DEFINE items == [curated.items EXCEPT ![c][n] = i]
    <2>1. items \in Items
      BY <1>1 DEF Items
    <2>2. curated' = [curated EXCEPT !.items = items]
      BY <1>2
    <2> HIDE DEF items
    <2>3. QED
      BY <1>1, <2>1, <2>2 DEF Payload, Fields
  <1>3. ASSUME NEW c \in Collections, NEW n \in Names, NEW k \in Keys,
               curated' = [curated EXCEPT !.items[c][n][k] = HumanValue]
        PROVE  Payload(curated')
    <2> DEFINE i == [curated.items[c][n] EXCEPT ![k] = HumanValue]
    <2>1. curated.items[c][n] \in Item
      BY <1>1 DEF Items
    <2>2. i \in Item
      BY <2>1, HumanItems DEF Item
    <2>3. curated' = [curated EXCEPT !.items[c][n] = i]
      BY <1>3
    <2> HIDE DEF i
    <2>4. QED
      BY <1>2, <2>2, <2>3
  <1>4. ASSUME NEW k \in ModelKeys, curated' = [curated EXCEPT !.model[k] = HumanValue]
        PROVE  Payload(curated')
    BY <1>1, <1>4 DEF Payload, Fields
  <1>5. QED
    BY <1>2, <1>3, <1>4, HumanItems DEF Curate

\* Types are kept.
LEMMA SyncKeepsTypes ==
    ASSUME SyncAssumption, SyncTyped, [SyncNext]_syncVars
    PROVE  SyncTyped'
  <1>1. CASE UNCHANGED syncVars
    BY <1>1 DEF SyncTyped, Payload, syncVars
  <1>2. CASE ChangePipeline
    BY <1>2 DEF SyncTyped, ChangePipeline
  <1>3. CASE Curate
    BY <1>3, CuratedPayload DEF SyncTyped, Curate
  <1>4. CASE WriteDraft
    BY <1>4, SyncedPayload DEF SyncTyped, WriteDraft
  <1>5. CASE Promote
    BY <1>5, SyncedPayload DEF SyncTyped, Promote, WouldPromote
  <1>6. CASE WriteCurated
    BY <1>6 DEF SyncTyped, WriteCurated
  <1>7. CASE PromotionDies
    BY <1>7 DEF SyncTyped, PromotionDies
  <1>8. QED
    BY <1>1, <1>2, <1>3, <1>4, <1>5, <1>6, <1>7 DEF SyncNext

\* A merge that does not stop keeps a value that differs from the base.
LEMMA EditIsKept ==
    ASSUME NEW base, NEW here, NEW candidate, here # base
    PROVE  /\ LET m == _merge_scalar(base, here, candidate) IN ~m.conflict => m.value = here
           /\ \A key : LET m == MergeKey(key, base, here, candidate) IN ~m.conflict => m.value = here
  BY DEF MergeKey, _merge_scalar, _type_conflict, Kept, Taken, Refused

\* What a promotion would write keeps what people edited.
LEMMA EditsAreKept ==
    ASSUME SyncAssumption, SyncTyped
    PROVE  PromotionKeepsEdits
  <1> SUFFICES ASSUME promoting = NoFile, draft # NoFile, curated # NoFile, WouldPromote
               PROVE  LET new == sync.payload
                      IN  /\ \A k \in ModelKeys : curated.model[k] # draft.model[k] => new.model[k] = curated.model[k]
                          /\ \A c \in Collections, n \in Names :
                               /\ \A k \in Keys : Edited(c, n, k) /\ Has(pipeline, c, n)
                                      => new.items[c][n][k] = curated.items[c][n][k]
                               /\ ~Has(draft, c, n) /\ ~Has(pipeline, c, n) => new.items[c][n] = curated.items[c][n]
    BY DEF PromotionKeepsEdits
  <1> DEFINE new == sync.payload
  <1>1. sync = MergeModels(draft, curated, pipeline) /\ ~sync.conflict
    BY DEF WouldPromote, AlreadyCurrent, sync, _plan_merge, Report
  <1>2. Payload(draft) /\ Payload(curated) /\ Payload(pipeline)
    BY GeneratedPayload DEF SyncTyped
  <1> DEFINE S(k) == _merge_scalar(draft.model[k], curated.model[k], pipeline.model[k])
             I(c, n) == MergeItem(c, n, draft, curated, pipeline)
  <1>3. /\ \A k \in ModelKeys : ~S(k).conflict /\ new.model[k] = S(k).value
        /\ \A c \in Collections, n \in Names : ~I(c, n).conflict /\ new.items[c][n] = I(c, n).value
    BY <1>1, <1>2, MergedModels
  <1>4. \A k \in ModelKeys : curated.model[k] # draft.model[k] => new.model[k] = curated.model[k]
    BY <1>3, EditIsKept
  <1>5. ASSUME NEW c \in Collections, NEW n \in Names
        PROVE  /\ \A k \in Keys : Edited(c, n, k) /\ Has(pipeline, c, n)
                      => new.items[c][n][k] = curated.items[c][n][k]
               /\ ~Has(draft, c, n) /\ ~Has(pipeline, c, n) => new.items[c][n] = curated.items[c][n]
    <2> DEFINE b == draft.items[c][n]
               h == curated.items[c][n]
               g == pipeline.items[c][n]
               m == [k \in Keys |-> MergeKey(k, b[k], h[k], g[k])]
    <2>1. ASSUME NEW k \in Keys, Edited(c, n, k), Has(pipeline, c, n)
          PROVE  new.items[c][n][k] = h[k]
      <3>1. b # NoItem /\ h # NoItem /\ g # NoItem /\ h[k] # b[k]
        BY <2>1 DEF Edited, Has
      <3>2. I(c, n) = _merge_dict(b, h, g)
        BY <3>1 DEF MergeItem
      <3>3. I(c, n).conflict = (\E q \in Keys : m[q].conflict) /\ I(c, n).value = [q \in Keys |-> m[q].value]
        BY <3>2 DEF _merge_dict
      <3>4. m[k] = MergeKey(k, b[k], h[k], g[k])
        OBVIOUS
      <3> HIDE DEF I, m, new
      <3>5. ~m[k].conflict /\ new.items[c][n][k] = m[k].value
        BY <1>3, <3>3
      <3> HIDE DEF b, h, g
      <3>6. ~MergeKey(k, b[k], h[k], g[k]).conflict => MergeKey(k, b[k], h[k], g[k]).value = h[k]
        BY <3>1, EditIsKept
      <3>7. QED
        BY <3>4, <3>5, <3>6
    <2>2. ASSUME ~Has(draft, c, n), ~Has(pipeline, c, n)
          PROVE  new.items[c][n] = h
      BY <1>3, <2>2 DEF Has, MergeItem, Kept
    <2>3. QED
      BY <2>1, <2>2
  <1>6. QED
    BY <1>4, <1>5

\* Whatever the pipeline, the curated file and the drafts go through, and
\* wherever a promotion dies, promotion never replaces what a person wrote: an
\* edited value of an item that is still generated, an edited key of the model
\* and an item that only people know are in the promoted file, or it stops.
THEOREM EditsSurvive == SyncAssumption => (SyncSpec => [](SyncTypeOK /\ PromotionKeepsEdits))
  <1> SUFFICES ASSUME SyncAssumption PROVE SyncSpec => [](SyncTypeOK /\ PromotionKeepsEdits)
    OBVIOUS
  <1>1. SyncInit => SyncTyped
    BY DEF SyncInit, SyncTyped
  <1>2. SyncTyped /\ [SyncNext]_syncVars => SyncTyped'
    BY SyncKeepsTypes
  <1>3. SyncTyped => SyncTypeOK /\ PromotionKeepsEdits
    BY EditsAreKept DEF SyncTyped, SyncTypeOK, Payload, Items
  <1>4. QED
    BY <1>1, <1>2, <1>3, PTL DEF SyncSpec

(***************************************************************************)
(* The tree of spans (SpanTree), for every number of spans and scopes.     *)
(***************************************************************************)
-----------------------------------------------------------------------------
(* The walk to the nearest open ancestor is a recursive function.  That its *)
(* equation has a solution, and where the walk ends, is shown by looking at *)
(* a least counterexample.                                                  *)

\* Every nonempty set of natural numbers has a least element.
LEMMA LeastNatural ==
    ASSUME NEW S, S \subseteq Nat, S # {}
    PROVE  \E n \in S : \A m \in S : n <= m
  <1> DEFINE R == OpToRel(<, Nat)
  <1>1. IsWellFoundedOn(R, Nat)
    BY NatLessThanWellFounded
  <1>2. ASSUME NEW m \in Nat, NEW n \in Nat, m < n
        PROVE  <<m, n>> \in R
    BY <1>2 DEF OpToRel
  <1> HIDE DEF R
  <1>3. PICK n \in S : \A m \in S : ~ (<<m, n>> \in R)
    BY <1>1, WFMin
  <1>4. ASSUME NEW m \in S
        PROVE  n <= m
    <2>1. m \in Nat /\ n \in Nat /\ ~(m < n)
      BY <1>2, <1>3
    <2>2. QED
      BY <2>1
  <1>5. QED
    BY <1>4

\* A walk upwards: from s to parent[s] until stop is reached.
Walk(L, parent, stop, u) == [s \in 0..L |-> IF s \in stop THEN s ELSE u[parent[s]]]
Descends(L, parent, stop) == L \in Nat /\ 0 \in stop /\ \A s \in 1..L : parent[s] \in 0..s - 1

\* The equation of the walk has a solution, since parents are older.
LEMMA WalkExists ==
    ASSUME NEW L, NEW parent, NEW stop, Descends(L, parent, stop)
    PROVE  \E u : u = Walk(L, parent, stop, u)
  <1> DEFINE Value(u, s) == IF s \in stop THEN s ELSE u[parent[s]]
             Solved(n) == \E u \in [0..n -> Nat] : \A s \in 0..n : u[s] = Value(u, s)
             unsolved == {n \in 0..L : ~Solved(n)}
  <1>1. L \in Nat /\ 0 \in stop /\ \A s \in 1..L : parent[s] \in 0..s - 1
    BY DEF Descends
  <1>2. Solved(0)
    <2>1. [s \in 0..0 |-> 0] \in [0..0 -> Nat] /\ \A s \in 0..0 : [t \in 0..0 |-> 0][s] = Value([t \in 0..0 |-> 0], s)
      BY <1>1
    <2>2. QED
      BY <2>1
  <1>3. ASSUME NEW n \in 1..L, Solved(n - 1)
        PROVE  Solved(n)
    <2>1. PICK u \in [0..n - 1 -> Nat] : \A s \in 0..n - 1 : u[s] = Value(u, s)
      BY <1>3
    <2> DEFINE v == [s \in 0..n |-> IF s < n THEN u[s] ELSE Value(u, n)]
    <2>2. parent[n] \in 0..n - 1 /\ n \in Nat
      BY <1>1
    <2>3. v \in [0..n -> Nat]
      BY <1>1, <2>2
    <2>4. ASSUME NEW s \in 0..n
          PROVE  v[s] = Value(v, s)
      <3>1. s = 0 \/ parent[s] \in 0..s - 1
        BY <1>1
      <3>2. CASE s < n
        BY <1>1, <2>1, <3>1, <3>2
      <3>3. CASE s = n
        BY <1>1, <2>1, <2>2, <3>3
      <3>4. QED
        BY <3>2, <3>3
    <2> HIDE DEF v
    <2>5. QED
      BY <2>3, <2>4
  <1> HIDE DEF Solved
  <1>4. unsolved = {}
    <2>1. SUFFICES ASSUME unsolved # {} PROVE FALSE
      OBVIOUS
    <2>2. PICK n \in unsolved : \A m \in unsolved : n <= m
      <3>1. unsolved \subseteq Nat
        BY <1>1
      <3>2. QED
        BY <2>1, <3>1, LeastNatural
    <2>3. n \in 1..L /\ n - 1 \in 0..L /\ n - 1 \notin unsolved
      BY <1>1, <1>2, <2>2
    <2>4. QED
      BY <1>3, <2>2, <2>3
  <1>5. Solved(L)
    BY <1>1, <1>4
  <1>6. PICK u \in [0..L -> Nat] : \A s \in 0..L : u[s] = Value(u, s)
    BY <1>5 DEF Solved
  <1>7. u = Walk(L, parent, stop, u)
    BY <1>6 DEF Walk
  <1>8. QED
    BY <1>7

\* A walk ends where it stops, at or above where it began, and never leaves a
\* set that is closed under parents.
LEMMA WalkEnds ==
    ASSUME NEW L, NEW parent, NEW stop, Descends(L, parent, stop), NEW u, u = Walk(L, parent, stop, u),
           NEW x \in 0..L
    PROVE  /\ u[x] \in 0..x /\ u[x] \in stop /\ (x \in stop => u[x] = x)
           /\ \A closed : x \in closed /\ (\A s \in closed : s # 0 => parent[s] \in closed) => u[x] \in closed
  <1>1. L \in Nat /\ 0 \in stop /\ \A s \in 1..L : parent[s] \in 0..s - 1
    BY DEF Descends
  <1>2. \A s \in 0..L : u[s] = IF s \in stop THEN s ELSE u[parent[s]]
    BY DEF Walk
  <1>3. ASSUME NEW closed, \A s \in closed : s # 0 => parent[s] \in closed
        PROVE  \A s \in 0..L : s \in closed => u[s] \in 0..s /\ u[s] \in stop /\ u[s] \in closed
    <2> DEFINE wrong == {s \in 0..L : s \in closed /\ ~(u[s] \in 0..s /\ u[s] \in stop /\ u[s] \in closed)}
    <2>1. SUFFICES ASSUME wrong # {} PROVE FALSE
      OBVIOUS
    <2>2. wrong \subseteq Nat
      BY <1>1
    <2>3. PICK s \in wrong : \A t \in wrong : s <= t
      BY <2>1, <2>2, LeastNatural
    <2>4. s \in 0..L /\ s \in closed /\ s \notin stop /\ s # 0 /\ u[s] = u[parent[s]]
      BY <1>1, <1>2, <2>3
    <2>5. parent[s] \in 0..s - 1 /\ parent[s] \in 0..L /\ parent[s] \in closed /\ parent[s] \notin wrong
      BY <1>1, <1>3, <2>3, <2>4
    <2>6. u[s] \in 0..parent[s] /\ u[s] \in stop /\ u[s] \in closed
      BY <2>4, <2>5
    <2>7. u[s] \in 0..s
      BY <2>4, <2>5, <2>6
    <2>8. QED
      BY <2>3, <2>6, <2>7
  <1>4. u[x] \in 0..x /\ u[x] \in stop
    <2> DEFINE all == 0..L
    <2>1. \A s \in all : s # 0 => parent[s] \in all
      BY <1>1
    <2>2. \A s \in 0..L : s \in all => u[s] \in 0..s /\ u[s] \in stop /\ u[s] \in all
      BY <1>3, <2>1
    <2>3. QED
      BY <2>2
  <1>5. QED
    BY <1>2, <1>3, <1>4

-----------------------------------------------------------------------------
(* Types, and what is known of every span.                                 *)

SpanRow == [parent : Nat, trace : Nat, run : Nat, home : Contexts, old : Nat, start : Nat, end : Nat]
SpanTyped ==
    /\ spans \in Seq(SpanRow) /\ copied \in BOOLEAN /\ opened \in Nat /\ clock \in Nat
    /\ current \in [Contexts -> 0..Len(spans)] /\ ambient \in [Contexts -> Nat]
    /\ scopes \in [Contexts -> Seq(Nat)] /\ nested \in [Contexts -> BOOLEAN]

\* Parents, and the spans that tokens restore, are older.
Older(all) == \A s \in 1..Len(all) : all[s].parent \in 0..s - 1 /\ all[s].old \in 0..s - 1

\* Spans start and end by the clock; a parent was open when its child started.
Tree ==
    /\ \A s \in 1..Len(spans) : spans[s].start <= clock /\ spans[s].end <= clock
    /\ ParentWasOpen

\* The nearest open ancestor is x or above it, is open, and is in every set of
\* spans with x that is closed under parents.
LEMMA LiveAncestor ==
    ASSUME NEW all \in Seq(SpanRow), Older(all), NEW x \in 0..Len(all)
    PROVE  LET y == _live_ancestor(all, x)
           IN  /\ y \in 0..x /\ (y # 0 => all[y].end = 0) /\ (x = 0 \/ all[x].end = 0 => y = x)
               /\ \A closed : x \in closed /\ (\A s \in closed : s # 0 => all[s].parent \in closed) => y \in closed
  <1> DEFINE L == Len(all)
             stop == {s \in 0..L : s = 0 \/ all[s].end = 0}
             parent == [s \in 1..L |-> all[s].parent]
             F(u) == [s \in 0..Len(all) |-> IF s = 0 \/ all[s].end = 0 THEN s ELSE u[all[s].parent]]
             up == CHOOSE u : u = F(u)
  <1>1. _live_ancestor(all, x) = up[x]
    BY DEF _live_ancestor
  <1>2. Descends(L, parent, stop) /\ L \in Nat
    BY DEF Descends, Older
  <1>3. \A u : F(u) = Walk(L, parent, stop, u)
    <2>1. ASSUME NEW u, NEW s \in 0..L
          PROVE  (IF s = 0 \/ all[s].end = 0 THEN s ELSE u[all[s].parent]) = (IF s \in stop THEN s ELSE u[parent[s]])
      <3>1. CASE s = 0
        BY <3>1
      <3>2. CASE s # 0
        <4>1. s \in 1..L
          BY <1>2, <3>2
        <4>2. parent[s] = all[s].parent
          BY <4>1
        <4>3. QED
          BY <4>2
      <3>3. QED
        BY <3>1, <3>2
    <2>2. QED
      BY <2>1 DEF Walk
  <1>4. up = Walk(L, parent, stop, up)
    <2>1. \E u : u = F(u)
      <3> HIDE DEF L, parent, stop, F
      <3>1. \E u : u = Walk(L, parent, stop, u)
        BY <1>2, WalkExists
      <3>2. QED
        BY <1>3, <3>1
    <2>2. up = F(up)
      BY <2>1
    <2> HIDE DEF F, up
    <2>3. QED
      BY <1>3, <2>2
  <1>5. x \in 0..L
    OBVIOUS
  <1> HIDE DEF up, F
  <1>6. /\ up[x] \in 0..x /\ up[x] \in stop /\ (x \in stop => up[x] = x)
        /\ \A closed : x \in closed /\ (\A s \in closed : s # 0 => parent[s] \in closed) => up[x] \in closed
    <2> HIDE DEF L, parent, stop
    <2>1. QED
      BY <1>2, <1>4, <1>5, WalkEnds
  <1>7. ASSUME NEW closed, x \in closed, \A s \in closed : s # 0 => all[s].parent \in closed
        PROVE  up[x] \in closed
    <2> DEFINE here == closed \intersect (0..L)
    <2>1. ASSUME NEW s \in here, s # 0
          PROVE  parent[s] \in here
      <3>1. s \in 1..L
        BY <1>2, <2>1
      <3>2. parent[s] = all[s].parent /\ all[s].parent \in 0..s - 1
        BY <3>1 DEF Older
      <3>3. all[s].parent \in 0..L
        BY <1>2, <3>1, <3>2
      <3>4. QED
        BY <1>7, <2>1, <3>2, <3>3
    <2>2. x \in here
      BY <1>5, <1>7
    <2> HIDE DEF here
    <2>3. up[x] \in here
      BY <1>6, <2>1, <2>2
    <2>4. QED
      BY <2>3 DEF here
  <1>8. QED
    BY <1>1, <1>5, <1>6, <1>7

\* What a context works under: nothing, a span of its own, or one that is older
\* than all of its own.
Inherits(c, x) == x = 0 \/ spans[x].home = c \/ \A t \in 1..Len(spans) : spans[t].home = c => x < t
\* It is still open, if it is of the context's own.
StillOpen(c, x) == x = 0 \/ spans[x].home # c \/ Open(x)

Inheritance ==
    /\ ~copied => \A s \in 1..Len(spans) : spans[s].home = "main"
    /\ \A c \in Contexts : Inherits(c, current[c])
    /\ \A s \in 1..Len(spans) : Inherits(spans[s].home, spans[s].old) /\ Inherits(spans[s].home, spans[s].parent)

\* While c closes its spans innermost first.
Nesting(c) ==
    /\ StillOpen(c, current[c])
    /\ \A s \in 1..Len(spans) : Open(s) /\ spans[s].home = c =>
          /\ s <= current[c] /\ StillOpen(c, spans[s].old)
          /\ \A t \in 1..s - 1 : Open(t) /\ spans[t].home = c => t <= spans[s].old

SpanInv ==
    /\ SpanTyped /\ Older(spans) /\ Tree /\ Inheritance
    /\ \A c \in Contexts : nested[c] => Nesting(c)

-----------------------------------------------------------------------------
(* What the steps do to the spans.                                         *)

\* A span that starts is the last one, below an open ancestor of the active one.
Started(c, p) ==
    LET n == Len(spans)
    IN  /\ spans' \in Seq(SpanRow) /\ Len(spans') = n + 1 /\ (\A s \in 1..n : spans'[s] = spans[s])
        /\ p \in 0..current[c] /\ (p # 0 => p \in 1..n /\ Open(p)) /\ Inherits(c, p)
        /\ spans'[n + 1].parent = p /\ spans'[n + 1].old = current[c]
        /\ spans'[n + 1].trace = (IF p = 0 THEN n + 1 ELSE spans[p].trace)
        /\ spans'[n + 1].home = c /\ spans'[n + 1].start = clock + 1 /\ spans'[n + 1].end = 0
        /\ current' = [current EXCEPT ![c] = n + 1] /\ clock' = clock + 1

\* Only the end of the span s changes.
Ended(s) ==
    /\ spans' \in Seq(SpanRow) /\ Len(spans') = Len(spans) /\ Open(s)
    /\ \A t \in 1..Len(spans) :
          /\ spans'[t].parent = spans[t].parent /\ spans'[t].trace = spans[t].trace /\ spans'[t].home = spans[t].home
          /\ spans'[t].old = spans[t].old /\ spans'[t].start = spans[t].start
          /\ spans'[t].end = (IF t = s THEN clock + 1 ELSE spans[t].end)
    /\ clock' = clock + 1

\* What a context works under is closed under parents.
LEMMA InheritsUp ==
    ASSUME SpanInv, NEW c \in Contexts, NEW x \in 0..Len(spans), x # 0, Inherits(c, x)
    PROVE  spans[x].parent \in 0..Len(spans) /\ Inherits(c, spans[x].parent)
  <1>1. x \in 1..Len(spans) /\ spans[x].parent \in 0..x - 1 /\ Inherits(spans[x].home, spans[x].parent)
    BY DEF SpanInv, Older, Inheritance, SpanTyped
  <1>2. Len(spans) \in Nat
    BY DEF SpanInv, SpanTyped
  <1>3. CASE spans[x].home = c
    BY <1>1, <1>2, <1>3
  <1>4. CASE \A t \in 1..Len(spans) : spans[t].home = c => x < t
    BY <1>1, <1>2, <1>4 DEF Inherits
  <1>5. QED
    BY <1>3, <1>4 DEF Inherits

\* So is the nearest open ancestor.
LEMMA InheritsLive ==
    ASSUME SpanInv, NEW c \in Contexts, NEW x \in 0..Len(spans), Inherits(c, x),
           NEW all \in Seq(SpanRow), Older(all), Len(all) = Len(spans),
           \A t \in 1..Len(spans) : all[t].parent = spans[t].parent
    PROVE  Inherits(c, _live_ancestor(all, x))
  <1> DEFINE closed == {t \in 0..Len(spans) : Inherits(c, t)}
  <1>1. x \in closed
    OBVIOUS
  <1>2. ASSUME NEW t \in closed, t # 0
        PROVE  all[t].parent \in closed
    <2>1. t \in 1..Len(spans)
      BY <1>2 DEF SpanInv, SpanTyped
    <2>2. all[t].parent = spans[t].parent
      BY <2>1
    <2>3. QED
      BY <1>2, <2>2, InheritsUp
  <1> HIDE DEF closed
  <1>3. _live_ancestor(all, x) \in closed
    BY <1>1, <1>2, LiveAncestor
  <1>4. QED
    BY <1>3 DEF closed

\* A started span.
LEMMA StartsSpan ==
    ASSUME SpanInv, NEW c \in Contexts, start_span(c)
    PROVE  \E p : Started(c, p)
  <1> DEFINE n == Len(spans)
             p == _live_ancestor(spans, current[c])
             r == [parent |-> p, trace |-> IF p = 0 THEN n + 1 ELSE spans[p].trace,
                   run |-> IF ambient[c] # 0 \/ p = 0 THEN ambient[c] ELSE spans[p].run,
                   home |-> c, old |-> current[c], start |-> clock + 1, end |-> 0]
  <1>1. n \in Nat /\ current[c] \in 0..n /\ clock \in Nat /\ ambient[c] \in Nat /\ spans \in Seq(SpanRow)
    BY DEF SpanInv, SpanTyped
  <1>2. p \in 0..current[c] /\ (p # 0 => spans[p].end = 0)
    BY <1>1, LiveAncestor DEF SpanInv
  <1>3. Inherits(c, p)
    BY <1>1, InheritsLive DEF SpanInv, Inheritance
  <1> HIDE DEF p
  <1>4. p # 0 => p \in 1..n
    BY <1>1, <1>2
  <1>5. r \in SpanRow
    <2>1. p # 0 => spans[p] \in SpanRow
      BY <1>1, <1>4
    <2>2. p # 0 => spans[p].trace \in Nat /\ spans[p].run \in Nat
      BY <2>1 DEF SpanRow
    <2>3. p \in Nat /\ current[c] \in Nat
      BY <1>1, <1>2
    <2>4. (IF p = 0 THEN n + 1 ELSE spans[p].trace) \in Nat
          /\ (IF ambient[c] # 0 \/ p = 0 THEN ambient[c] ELSE spans[p].run) \in Nat /\ clock + 1 \in Nat
      BY <1>1, <2>2
    <2>5. QED
      BY <2>3, <2>4 DEF SpanRow
  <1>6. spans' = Append(spans, r) /\ current' = [current EXCEPT ![c] = n + 1] /\ clock' = clock + 1
    BY DEF start_span, p
  <1>7. /\ r.parent = p /\ r.old = current[c] /\ r.home = c /\ r.start = clock + 1 /\ r.end = 0
        /\ r.trace = (IF p = 0 THEN n + 1 ELSE spans[p].trace)
    OBVIOUS
  <1> HIDE DEF r
  <1>8. spans' \in Seq(SpanRow) /\ Len(spans') = n + 1 /\ (\A s \in 1..n : spans'[s] = spans[s]) /\ spans'[n + 1] = r
    BY <1>1, <1>5, <1>6
  <1>9. QED
    BY <1>2, <1>3, <1>4, <1>6, <1>7, <1>8 DEF Started, Open

\* An ended span.
LEMMA EndsSpan ==
    ASSUME SpanInv, NEW c \in Contexts, NEW s \in 1..Len(spans), _end_span(c, s)
    PROVE  Ended(s)
  <1>1. spans \in Seq(SpanRow) /\ Len(spans) \in Nat /\ clock \in Nat
    BY DEF SpanInv, SpanTyped
  <1> DEFINE r == [spans[s] EXCEPT !.end = clock + 1]
  <1>2. spans[s] \in SpanRow /\ clock + 1 \in Nat
    BY <1>1
  <1>3. /\ r \in SpanRow /\ r.parent = spans[s].parent /\ r.trace = spans[s].trace /\ r.home = spans[s].home
        /\ r.old = spans[s].old /\ r.start = spans[s].start /\ r.end = clock + 1
    BY <1>2 DEF SpanRow
  <1>4. spans' = [spans EXCEPT ![s] = r] /\ clock' = clock + 1 /\ Open(s)
    BY DEF _end_span
  <1> HIDE DEF r
  <1>5. /\ spans' \in Seq(SpanRow) /\ Len(spans') = Len(spans)
        /\ \A t \in 1..Len(spans) : spans'[t] = IF t = s THEN r ELSE spans[t]
    BY <1>1, <1>3, <1>4
  <1>6. QED
    BY <1>3, <1>4, <1>5 DEF Ended

-----------------------------------------------------------------------------
(* What keeps the invariant.                                               *)

\* The fields of a span.
LEMMA SpanFields ==
    ASSUME SpanInv, NEW s \in 1..Len(spans)
    PROVE  spans[s].start \in Nat /\ spans[s].end \in Nat /\ spans[s].home \in Contexts
  <1>1. spans[s] \in SpanRow
    BY DEF SpanInv, SpanTyped
  <1>2. QED
    BY <1>1 DEF SpanRow

\* A span that starts keeps the types and the tree.
LEMMA StartKeepsTree ==
    ASSUME SpanInv, NEW c \in Contexts, start_span(c), NEW p, Started(c, p)
    PROVE  SpanTyped' /\ Older(spans)' /\ Tree'
  <1> DEFINE n == Len(spans)
  <1>1. /\ n \in Nat /\ clock \in Nat /\ current[c] \in 0..n /\ p \in 0..n
        /\ \A s \in 1..n + 1 : s \in 1..n \/ s = n + 1
    BY DEF SpanInv, SpanTyped, Started
  <1>2. SpanTyped'
    BY <1>1 DEF SpanInv, SpanTyped, Started, start_span
  <1>3. Older(spans)'
    <2>1. ASSUME NEW s \in 1..n + 1
          PROVE  spans'[s].parent \in 0..s - 1 /\ spans'[s].old \in 0..s - 1
      BY <1>1 DEF SpanInv, Older, Started
    <2>2. QED
      BY <2>1 DEF Older, Started
  <1>4. ASSUME NEW s \in 1..n + 1
        PROVE  spans'[s].start <= clock' /\ spans'[s].end <= clock'
    <2>1. CASE s \in 1..n
      <3>1. spans'[s] = spans[s] /\ spans[s].start <= clock /\ spans[s].end <= clock /\ clock' = clock + 1
        BY <2>1 DEF SpanInv, Tree, Started
      <3>2. spans[s].start \in Nat /\ spans[s].end \in Nat
        BY <2>1, SpanFields
      <3>3. QED
        BY <1>1, <3>1, <3>2
    <2>2. CASE s = n + 1
      BY <1>1, <2>2 DEF Started
    <2>3. QED
      BY <1>1, <2>1, <2>2
  <1>5. ASSUME NEW s \in 1..n + 1, spans'[s].parent # 0
        PROVE  LET q == spans'[s].parent
               IN  /\ q < s /\ spans'[q].trace = spans'[s].trace
                   /\ spans'[q].end = 0 \/ spans'[q].end > spans'[s].start
    <2>1. CASE s \in 1..n
      <3>1. spans'[s] = spans[s] /\ spans[s].parent \in 0..s - 1
        BY <2>1 DEF Started, SpanInv, Older
      <3>2. spans[s].parent \in 1..n
        BY <1>1, <1>5, <2>1, <3>1
      <3>3. spans'[spans[s].parent] = spans[spans[s].parent]
        BY <3>2 DEF Started
      <3>4. QED
        BY <1>5, <2>1, <3>1, <3>3 DEF SpanInv, Tree, ParentWasOpen
    <2>2. CASE s = n + 1
      <3>1. p # 0 /\ spans'[s].parent = p /\ p \in 1..n /\ Open(p) /\ spans'[p] = spans[p]
        BY <1>5, <2>2 DEF Started
      <3>2. QED
        BY <1>1, <2>2, <3>1 DEF Started, Open
    <2>3. QED
      BY <1>1, <2>1, <2>2
  <1>6. Len(spans') = n + 1
    BY DEF Started
  <1>7. QED
    BY <1>2, <1>3, <1>4, <1>5, <1>6 DEF Tree, ParentWasOpen

\* A span that ends keeps them.
LEMMA EndKeepsTree ==
    ASSUME SpanInv, NEW c \in Contexts, NEW s \in 1..Len(spans), _end_span(c, s), Ended(s)
    PROVE  /\ SpanTyped' /\ Older(spans)' /\ Tree'
           /\ current'[c] = _live_ancestor(spans', Restored(c, s)) /\ Restored(c, s) \in 0..Len(spans)
           /\ \A d \in Contexts : d # c => current'[d] = current[d]
  <1> DEFINE n == Len(spans)
  <1>1. n \in Nat /\ clock \in Nat /\ Len(spans') = n /\ spans' \in Seq(SpanRow)
    BY DEF SpanInv, SpanTyped, Ended
  <1>2. Older(spans)'
    BY <1>1 DEF SpanInv, Older, Ended
  <1>3. Restored(c, s) \in 0..n
    BY <1>1 DEF SpanInv, SpanTyped, Older, Restored
  <1>4. _live_ancestor(spans', Restored(c, s)) \in 0..n
    <2>1. _live_ancestor(spans', Restored(c, s)) \in 0..Restored(c, s)
      <3> HIDE DEF n
      <3>1. Restored(c, s) \in 0..Len(spans')
        BY <1>1, <1>3
      <3>2. Older(spans')
        BY <1>2
      <3> DEFINE all == spans'
                 x == Restored(c, s)
      <3>3. all \in Seq(SpanRow) /\ Older(all) /\ x \in 0..Len(all)
        BY <1>1, <3>1, <3>2
      <3> HIDE DEF all, x
      <3>4. _live_ancestor(all, x) \in 0..x
        BY <3>3, LiveAncestor
      <3>5. QED
        BY <3>4 DEF all, x
    <2>2. QED
      BY <1>1, <1>3, <2>1
  <1>5. /\ current' = [current EXCEPT ![c] = _live_ancestor(spans', Restored(c, s))]
        /\ nested' = [nested EXCEPT ![c] = @ /\ current[c] = s, ![spans[s].home] = @ /\ spans[s].home = c /\ current[c] = s]
        /\ UNCHANGED <<ambient, scopes, copied, opened>>
    BY DEF _end_span
  <1>6. spans[s].home \in Contexts
    BY SpanFields
  <1>7. SpanTyped'
    <2>1. nested' \in [Contexts -> BOOLEAN]
      BY <1>5, <1>6 DEF SpanInv, SpanTyped
    <2>2. current' \in [Contexts -> 0..n]
      BY <1>4, <1>5 DEF SpanInv, SpanTyped
    <2>3. clock' \in Nat
      BY <1>1 DEF Ended
    <2>4. QED
      BY <1>1, <1>5, <2>1, <2>2, <2>3 DEF SpanInv, SpanTyped
  <1>8. ASSUME NEW t \in 1..n
        PROVE  spans'[t].start <= clock' /\ spans'[t].end <= clock'
    <2>1. /\ spans[t].start <= clock /\ spans[t].end <= clock /\ clock' = clock + 1
          /\ spans'[t].start = spans[t].start /\ spans'[t].end = (IF t = s THEN clock + 1 ELSE spans[t].end)
      BY DEF SpanInv, Tree, Ended
    <2>2. spans[t].start \in Nat /\ spans[t].end \in Nat
      BY SpanFields
    <2>3. QED
      BY <1>1, <2>1, <2>2
  <1>9. ASSUME NEW t \in 1..n, spans'[t].parent # 0
        PROVE  LET q == spans'[t].parent
               IN  /\ q < t /\ spans'[q].trace = spans'[t].trace
                   /\ spans'[q].end = 0 \/ spans'[q].end > spans'[t].start
    <2> DEFINE q == spans[t].parent
    <2>1. spans'[t].parent = q /\ q \in 0..t - 1 /\ q # 0 /\ spans'[t].trace = spans[t].trace
          /\ spans'[t].start = spans[t].start
      BY <1>9 DEF SpanInv, Older, Ended
    <2>2. q \in 1..n
      BY <1>1, <2>1
    <2>3. q < t /\ spans[q].trace = spans[t].trace /\ (spans[q].end = 0 \/ spans[q].end > spans[t].start)
      BY <2>1 DEF SpanInv, Tree, ParentWasOpen
    <2>4. spans'[q].trace = spans[q].trace /\ spans'[q].end = (IF q = s THEN clock + 1 ELSE spans[q].end)
      BY <2>2 DEF Ended
    <2>5. spans[t].start \in Nat /\ spans[t].start <= clock
      BY SpanFields DEF SpanInv, Tree
    <2> HIDE DEF q
    <2>6. QED
      BY <1>1, <2>1, <2>3, <2>4, <2>5
  <1>10. Tree'
    BY <1>1, <1>8, <1>9 DEF Tree, ParentWasOpen
  <1>11. QED
    BY <1>2, <1>3, <1>5, <1>7, <1>10 DEF SpanInv, SpanTyped

\* What was inherited stays so when a span starts: the new one is the youngest.
LEMMA StartKeepsInheritance ==
    ASSUME SpanInv, NEW c \in Contexts, start_span(c), (c = "task" => copied), NEW p, Started(c, p)
    PROVE  Inheritance'
  <1> DEFINE n == Len(spans)
  <1>1. /\ n \in Nat /\ current \in [Contexts -> 0..n] /\ p \in 0..n /\ Len(spans') = n + 1
        /\ \A s \in 1..n + 1 : s \in 1..n \/ s = n + 1
        /\ (\A s \in 1..n : spans'[s] = spans[s]) /\ spans'[n + 1].home = c /\ copied' = copied
    BY DEF SpanInv, SpanTyped, Started, start_span
  <1>2. ASSUME NEW d \in Contexts, NEW x \in 0..n, Inherits(d, x)
        PROVE  x = 0 \/ spans'[x].home = d \/ \A t \in 1..n + 1 : spans'[t].home = d => x < t
    <2>1. CASE x = 0
      BY <2>1
    <2>2. CASE x # 0 /\ spans[x].home = d
      BY <1>1, <2>2
    <2>3. CASE \A t \in 1..n : spans[t].home = d => x < t
      BY <1>1, <2>3
    <2>4. QED
      BY <1>2, <2>1, <2>2, <2>3 DEF Inherits
  <1>3. ~copied' => \A s \in 1..Len(spans') : spans'[s].home = "main"
    <2>1. ~copied => c = "main"
      BY DEF Contexts
    <2>2. QED
      BY <1>1, <2>1 DEF SpanInv, Inheritance
  <1>4. ASSUME NEW d \in Contexts
        PROVE  LET x == current'[d]
               IN  x = 0 \/ spans'[x].home = d \/ \A t \in 1..n + 1 : spans'[t].home = d => x < t
    <2>1. CASE d = c
      BY <1>1, <2>1 DEF Started
    <2>2. CASE d # c
      <3>1. current'[d] = current[d] /\ current[d] \in 0..n /\ Inherits(d, current[d])
        BY <1>1, <2>2 DEF Started, SpanInv, Inheritance
      <3>2. QED
        BY <1>2, <3>1
    <2>3. QED
      BY <2>1, <2>2
  <1>5. ASSUME NEW s \in 1..n + 1, NEW x \in {spans'[s].old, spans'[s].parent}
        PROVE  x = 0 \/ spans'[x].home = spans'[s].home \/ \A t \in 1..n + 1 : spans'[t].home = spans'[s].home => x < t
    <2>1. CASE s \in 1..n
      <3>1. spans'[s] = spans[s] /\ x \in 0..n /\ Inherits(spans[s].home, x) /\ spans[s].home \in Contexts
        BY <1>1, <1>5, <2>1, SpanFields DEF SpanInv, Inheritance, Older
      <3>2. QED
        BY <1>2, <3>1
    <2>2. CASE s = n + 1
      <3>1. x \in 0..n /\ Inherits(c, x) /\ spans'[s].home = c
        BY <1>1, <1>5, <2>2 DEF Started, SpanInv, Inheritance
      <3>2. QED
        BY <1>2, <3>1
    <2>3. QED
      BY <1>1, <2>1, <2>2
  <1>6. QED
    BY <1>1, <1>3, <1>4, <1>5 DEF Inheritance, Inherits

\* An ended span was inherited as before.
LEMMA EndKeepsInheritance ==
    ASSUME SpanInv, NEW c \in Contexts, NEW s \in 1..Len(spans), _end_span(c, s), Ended(s)
    PROVE  Inheritance' /\ Inherits(c, current'[c])
  <1> DEFINE n == Len(spans)
             x == Restored(c, s)
  <1>1. /\ n \in Nat /\ Len(spans') = n /\ (\A t \in 1..n : spans'[t].home = spans[t].home) /\ copied' = copied
        /\ (\A t \in 1..n : spans'[t].old = spans[t].old /\ spans'[t].parent = spans[t].parent)
        /\ spans' \in Seq(SpanRow)
    BY DEF SpanInv, SpanTyped, Ended, _end_span
  <1>2. \A d, y : y \in 0..n /\ Inherits(d, y) => y = 0 \/ spans'[y].home = d \/ \A t \in 1..n : spans'[t].home = d => y < t
    BY <1>1 DEF Inherits
  <1>3. x \in 0..n /\ Inherits(c, x)
    BY <1>1, EndKeepsTree DEF Restored, SpanInv, Inheritance
  <1>4. Inherits(c, current'[c]) /\ current'[c] \in 0..n
    <2> DEFINE all == spans'
    <2>1. all \in Seq(SpanRow) /\ Older(all) /\ Len(all) = n /\ \A t \in 1..n : all[t].parent = spans[t].parent
      BY <1>1, EndKeepsTree
    <2>2. current'[c] = _live_ancestor(all, x)
      BY EndKeepsTree
    <2> HIDE DEF all, x
    <2>3. _live_ancestor(all, x) \in 0..x
      BY <1>3, <2>1, LiveAncestor
    <2>4. QED
      BY <1>1, <1>3, <2>1, <2>2, <2>3, InheritsLive
  <1>5. ASSUME NEW d \in Contexts
        PROVE  current'[d] \in 0..n /\ Inherits(d, current'[d])
    <2>1. CASE d = c
      BY <1>4, <2>1
    <2>2. CASE d # c
      BY <2>2, EndKeepsTree DEF SpanInv, SpanTyped, Inheritance
    <2>3. QED
      BY <2>1, <2>2
  <1>6. \A t \in 1..n : /\ spans[t].old \in 0..n /\ Inherits(spans[t].home, spans[t].old)
                        /\ spans[t].parent \in 0..n /\ Inherits(spans[t].home, spans[t].parent)
    <2>1. \A t \in 1..n : spans[t].old \in 0..t - 1 /\ spans[t].parent \in 0..t - 1
      BY DEF SpanInv, Older
    <2>2. \A t \in 1..n : 0..t - 1 \subseteq 0..n
      BY <1>1
    <2>3. \A t \in 1..n : Inherits(spans[t].home, spans[t].old) /\ Inherits(spans[t].home, spans[t].parent)
      BY DEF SpanInv, Inheritance
    <2>4. QED
      BY <2>1, <2>2, <2>3
  <1>7. (\A d \in Contexts : Inherits(d, current[d]))'
    BY <1>1, <1>2, <1>5 DEF Inherits
  <1>8. (\A t \in 1..Len(spans) : Inherits(spans[t].home, spans[t].old) /\ Inherits(spans[t].home, spans[t].parent))'
    <2>1. ASSUME NEW t \in 1..n, NEW y \in {spans[t].old, spans[t].parent}
          PROVE  y = 0 \/ spans'[y].home = spans'[t].home \/ \A r \in 1..n : spans'[r].home = spans'[t].home => y < r
      <3>1. y \in 0..n /\ Inherits(spans[t].home, y) /\ spans'[t].home = spans[t].home
        BY <1>1, <1>6
      <3>2. QED
        BY <1>2, <3>1
    <2>2. QED
      BY <1>1, <2>1 DEF Inherits
  <1>9. (~copied => \A t \in 1..Len(spans) : spans[t].home = "main")'
    BY <1>1 DEF SpanInv, Inheritance
  <1>10. QED
    BY <1>4, <1>7, <1>8, <1>9 DEF Inheritance

\* A span that starts hangs below the last one that its context has open.
LEMMA StartKeepsNesting ==
    ASSUME SpanInv, NEW c \in Contexts, start_span(c), NEW p, Started(c, p), NEW d \in Contexts, nested'[d]
    PROVE  Nesting(d)'
  <1> DEFINE n == Len(spans)
  <1>1. /\ n \in Nat /\ current \in [Contexts -> 0..n] /\ Len(spans') = n + 1
        /\ \A s \in 1..n + 1 : s \in 1..n \/ s = n + 1
        /\ (\A s \in 1..n : spans'[s] = spans[s] /\ spans[s].old \in 0..s - 1)
        /\ spans'[n + 1].home = c /\ spans'[n + 1].end = 0 /\ spans'[n + 1].old = current[c]
        /\ current' = [current EXCEPT ![c] = n + 1]
    <2>1. n \in Nat /\ current \in [Contexts -> 0..n] /\ \A s \in 1..n : spans[s].old \in 0..s - 1
      <3>1. spans \in Seq(SpanRow) /\ current \in [Contexts -> 0..n] /\ Older(spans)
        BY DEF SpanInv, SpanTyped
      <3>2. n \in Nat
        BY <3>1
      <3>3. QED
        BY <3>1, <3>2, Zenon DEF Older
    <2>2. \A s \in 1..n + 1 : s \in 1..n \/ s = n + 1
      BY <2>1
    <2>3. QED
      BY <2>1, <2>2 DEF Started
  <1>2. Nesting(d)
    BY DEF SpanInv, start_span
  <1>3. ASSUME NEW x \in 0..n, StillOpen(d, x)
        PROVE  x = 0 \/ spans'[x].home # d \/ spans'[x].end = 0
    BY <1>1, <1>3 DEF StillOpen, Open
  <1>4. current'[d] = 0 \/ spans'[current'[d]].home # d \/ spans'[current'[d]].end = 0
    <2>1. CASE d = c
      BY <1>1, <2>1
    <2>2. CASE d # c
      <3>1. current'[d] = current[d] /\ current[d] \in 0..n
        BY <1>1, <2>2
      <3>2. QED
        BY <1>2, <1>3, <3>1 DEF Nesting
    <2>3. QED
      BY <2>1, <2>2
  <1>5. ASSUME NEW s \in 1..n + 1, spans'[s].end = 0, spans'[s].home = d
        PROVE  /\ s <= current'[d]
               /\ spans'[s].old = 0 \/ spans'[spans'[s].old].home # d \/ spans'[spans'[s].old].end = 0
               /\ \A t \in 1..s - 1 : spans'[t].end = 0 /\ spans'[t].home = d => t <= spans'[s].old
    <2>1. CASE s \in 1..n
      <3>1. /\ spans'[s] = spans[s] /\ s <= current[d] /\ StillOpen(d, spans[s].old) /\ spans[s].old \in 0..n
            /\ \A t \in 1..s - 1 : Open(t) /\ spans[t].home = d => t <= spans[s].old
        BY <1>1, <1>2, <1>5, <2>1 DEF Nesting, Open
      <3>2. s <= current'[d]
        BY <1>1, <2>1, <3>1
      <3>3. \A t \in 1..s - 1 : t \in 1..n /\ spans'[t] = spans[t]
        BY <1>1, <2>1
      <3>4. QED
        BY <1>3, <3>1, <3>2, <3>3 DEF Open
    <2>2. CASE s = n + 1
      <3>1. c = d /\ current'[d] = n + 1 /\ spans'[s].old = current[d] /\ current[d] \in 0..n
        BY <1>1, <1>5, <2>2
      <3>2. StillOpen(d, current[d])
        BY <1>2 DEF Nesting
      <3>3. \A t \in 1..s - 1 : spans'[t] = spans[t] /\ (Open(t) /\ spans[t].home = d => t <= current[d])
        BY <1>1, <1>2, <2>2 DEF Nesting
      <3>4. QED
        BY <1>1, <1>3, <2>2, <3>1, <3>2, <3>3 DEF Open
    <2>3. QED
      BY <1>1, <2>1, <2>2
  <1>6. (\A s \in 1..Len(spans) : Open(s) /\ spans[s].home = d =>
            /\ s <= current[d] /\ StillOpen(d, spans[s].old)
            /\ \A t \in 1..s - 1 : Open(t) /\ spans[t].home = d => t <= spans[s].old)'
    BY <1>1, <1>5 DEF Open, StillOpen
  <1>7. StillOpen(d, current[d])'
    BY <1>4 DEF StillOpen, Open
  <1>8. QED
    BY <1>6, <1>7 DEF Nesting

\* A span that ends leaves the one below it active, if its context ended it and
\* it was the active one.
LEMMA EndKeepsNesting ==
    ASSUME SpanInv, NEW c \in Contexts, NEW s \in 1..Len(spans), _end_span(c, s), Ended(s),
           NEW d \in Contexts, nested'[d]
    PROVE  Nesting(d)'
  <1> DEFINE n == Len(spans)
             x == Restored(c, s)
             y == current'[c]
  <1>1. /\ n \in Nat /\ Len(spans') = n /\ current \in [Contexts -> 0..n] /\ spans[s].home \in Contexts /\ Open(s)
        /\ \A t \in 1..n : /\ spans'[t].home = spans[t].home /\ spans'[t].old = spans[t].old
                           /\ spans'[t].end = (IF t = s THEN clock + 1 ELSE spans[t].end)
                           /\ spans[t].old \in 0..t - 1
    BY SpanFields DEF SpanInv, SpanTyped, Older, Ended
  <1>2. clock + 1 # 0 /\ spans' \in Seq(SpanRow) /\ Older(spans)'
    BY EndKeepsTree DEF SpanInv, SpanTyped
  <1>3. nested[d] /\ Nesting(d) /\ (d = c => current[c] = s) /\ (spans[s].home = d => c = d /\ current[c] = s)
    <2>1. nested' = [nested EXCEPT ![c] = @ /\ current[c] = s, ![spans[s].home] = @ /\ spans[s].home = c /\ current[c] = s]
      BY DEF _end_span
    <2>2. nested \in [Contexts -> BOOLEAN]
      BY DEF SpanInv, SpanTyped
    <2>3. nested[d] /\ (d = c => current[c] = s) /\ (spans[s].home = d => c = d /\ current[c] = s)
      BY <1>1, <2>1, <2>2
    <2>4. QED
      BY <2>3 DEF SpanInv
  <1>4. x \in 0..n /\ y \in 0..x /\ (y # 0 => y \in 1..n /\ spans'[y].end = 0)
        /\ (x = 0 \/ spans'[x].end = 0 => y = x) /\ (\A e \in Contexts : e # c => current'[e] = current[e])
    <2> DEFINE all == spans'
    <2>1. all \in Seq(SpanRow) /\ Older(all) /\ Len(all) = n /\ x \in 0..n
      BY <1>1, <1>2, EndKeepsTree
    <2>2. y = _live_ancestor(all, x)
      BY EndKeepsTree
    <2> HIDE DEF x, y
    <2>3. y \in 0..x /\ (y # 0 => all[y].end = 0) /\ (x = 0 \/ all[x].end = 0 => y = x)
      <3> HIDE DEF all
      <3>1. QED
        BY <2>1, <2>2, LiveAncestor
    <2>4. QED
      BY <1>1, <2>1, <2>3, EndKeepsTree
  \* What is still open of d was open, and is not s.
  <1>5. \A t \in 1..n : spans'[t].end = 0 => t # s /\ Open(t)
    BY <1>1, <1>2 DEF Open
  \* The span s is of d and ended by d, or d had none open, or it was not d.
  <1>6. ASSUME NEW t \in 1..n, Open(t), t # s, spans[t].home = d
        PROVE  t <= current'[d]
    <2>1. t <= current[d]
      BY <1>3, <1>6 DEF Nesting
    <2>2. CASE d # c
      BY <1>4, <2>1, <2>2
    <2>3. CASE d = c /\ spans[s].home = d
      <3>1. current[d] = s /\ x = spans[s].old /\ x \in 0..s - 1 /\ StillOpen(d, x)
        BY <1>1, <1>3, <2>3 DEF Restored, Nesting
      <3>2. t \in 1..s - 1 /\ t <= x
        <4>1. t \in 1..s - 1
          BY <1>1, <1>6, <2>1, <3>1
        <4>2. t <= spans[s].old
          BY <1>1, <1>3, <1>6, <2>3, <4>1 DEF Nesting
        <4>3. QED
          BY <3>1, <4>1, <4>2
      <3>3. x # 0 /\ x \in 1..n /\ Inherits(d, x)
        BY <1>1, <2>3, <3>1, <3>2 DEF SpanInv, Inheritance
      <3>4. spans[x].home = d
        BY <1>1, <1>6, <3>2, <3>3 DEF Inherits
      <3>5. spans[x].end = 0 /\ x # s
        BY <1>1, <3>1, <3>3, <3>4 DEF StillOpen, Open
      <3>6. spans'[x].end = 0
        BY <1>1, <3>3, <3>5
      <3>7. QED
        BY <1>4, <2>3, <3>2, <3>6
    <2>4. CASE d = c /\ spans[s].home # d
      <3>1. current[d] = s /\ Inherits(d, s) /\ s # 0
        BY <1>1, <1>3, <2>4 DEF SpanInv, Inheritance
      <3>2. s < t /\ t <= s
        BY <1>6, <2>1, <2>4, <3>1 DEF Inherits
      <3>3. QED
        BY <1>1, <3>2
    <2>5. QED
      BY <2>2, <2>3, <2>4
  <1>7. (StillOpen(d, current[d]))'
    <2>1. CASE d = c
      BY <1>4, <2>1 DEF StillOpen, Open
    <2>2. CASE d # c
      <3>1. current'[d] = current[d] /\ current[d] \in 0..n /\ StillOpen(d, current[d]) /\ spans[s].home # d
        BY <1>1, <1>3, <1>4, <2>2 DEF Nesting
      <3>2. QED
        BY <1>1, <3>1 DEF StillOpen, Open
    <2>3. QED
      BY <2>1, <2>2
  <1>8. ASSUME NEW t \in 1..n, spans'[t].end = 0, spans'[t].home = d
        PROVE  /\ t <= current'[d]
               /\ spans'[t].old = 0 \/ spans'[spans'[t].old].home # d \/ spans'[spans'[t].old].end = 0
               /\ \A r \in 1..t - 1 : spans'[r].end = 0 /\ spans'[r].home = d => r <= spans'[t].old
    <2>1. /\ t # s /\ Open(t) /\ spans[t].home = d /\ spans'[t].old = spans[t].old /\ spans[t].old \in 0..t - 1
          /\ t <= current[d]
      BY <1>1, <1>3, <1>5, <1>8 DEF Nesting
    <2>2. StillOpen(d, spans[t].old) /\ \A r \in 1..t - 1 : Open(r) /\ spans[r].home = d => r <= spans[t].old
      BY <1>3, <2>1 DEF Nesting
    <2>3. t <= current'[d]
      BY <1>6, <2>1
    <2>4. spans[t].old # 0 /\ spans[spans[t].old].home = d => spans[t].old # s
      <3>1. ASSUME spans[t].old = s, spans[s].home = d
            PROVE  FALSE
        <4>1. current[d] = s
          BY <1>3, <3>1
        <4>2. QED
          BY <1>1, <2>1, <3>1, <4>1
      <3>2. QED
        BY <3>1
    <2>5. spans[t].old = 0 \/ spans'[spans[t].old].home # d \/ spans'[spans[t].old].end = 0
      <3>1. spans[t].old # 0 => spans[t].old \in 1..n
        BY <1>1, <2>1
      <3>2. QED
        BY <1>1, <2>2, <2>4, <3>1 DEF StillOpen, Open
    <2>6. \A r \in 1..t - 1 : r \in 1..n
      BY <1>1
    <2>7. QED
      BY <1>1, <1>5, <2>1, <2>2, <2>3, <2>5, <2>6
  <1>9. (\A t \in 1..Len(spans) : Open(t) /\ spans[t].home = d =>
            /\ t <= current[d] /\ StillOpen(d, spans[t].old)
            /\ \A r \in 1..t - 1 : Open(r) /\ spans[r].home = d => r <= spans[t].old)'
    BY <1>1, <1>8 DEF Open, StillOpen
  <1>10. QED
    BY <1>7, <1>9 DEF Nesting

\* A step that changes no span and no active one keeps everything.
LEMMA SpansUntouched ==
    ASSUME SpanInv, UNCHANGED <<spans, current, clock, copied, nested>>,
           opened' \in Nat, ambient' \in [Contexts -> Nat], scopes' \in [Contexts -> Seq(Nat)]
    PROVE  SpanInv'
  BY DEF SpanInv, SpanTyped, Older, Tree, ParentWasOpen, Inheritance, Inherits, Nesting, StillOpen, Open

\* A task starts under what its creator works under.
LEMMA CopyKeeps ==
    ASSUME SpanInv, CopyContext
    PROVE  SpanInv'
  <1>1. /\ ~copied /\ copied' = TRUE /\ current' = [current EXCEPT !["task"] = current["main"]]
        /\ ambient' = [ambient EXCEPT !["task"] = ambient["main"]]
        /\ UNCHANGED <<spans, scopes, nested, opened, clock>>
    BY DEF CopyContext
  <1>2. "main" \in Contexts /\ "task" \in Contexts /\ Len(spans) \in Nat
    BY DEF Contexts, SpanInv, SpanTyped
  <1>3. SpanTyped'
    BY <1>1, <1>2 DEF SpanInv, SpanTyped
  <1>4. \A s \in 1..Len(spans) : spans[s].home = "main"
    BY <1>1 DEF SpanInv, Inheritance
  <1>5. Older(spans)' /\ Tree'
    BY <1>1 DEF SpanInv, Older, Tree, ParentWasOpen
  <1>6. \A c \in Contexts : c # "task" => current'[c] = current[c]
    BY <1>1 DEF SpanInv, SpanTyped
  <1>7. current'["task"] = current["main"] /\ current["main"] \in 0..Len(spans)
    BY <1>1, <1>2 DEF SpanInv, SpanTyped
  <1>8. ASSUME NEW c \in Contexts
        PROVE  LET x == current'[c]
               IN  x = 0 \/ spans[x].home = c \/ \A t \in 1..Len(spans) : spans[t].home = c => x < t
    BY <1>4, <1>6, <1>7 DEF SpanInv, Inheritance, Inherits
  <1>9. Inheritance'
    BY <1>1, <1>8 DEF SpanInv, Inheritance, Inherits
  <1>10. ASSUME NEW c \in Contexts, nested[c]
         PROVE  Nesting(c)'
    <2>1. CASE c = "task"
      <3>1. \A s \in 1..Len(spans) : spans[s].home # c
        BY <1>4, <2>1
      <3>2. current'[c] = 0 \/ current'[c] \in 1..Len(spans)
        BY <1>2, <1>7, <2>1
      <3>3. QED
        BY <1>1, <3>1, <3>2 DEF Nesting, StillOpen
    <2>2. CASE c # "task"
      <3>1. Nesting(c) /\ current'[c] = current[c]
        BY <1>6, <1>10, <2>2 DEF SpanInv
      <3>2. QED
        BY <1>1, <3>1 DEF Nesting, StillOpen, Open
    <2>3. QED
      BY <2>1, <2>2
  <1>11. QED
    BY <1>1, <1>3, <1>5, <1>9, <1>10 DEF SpanInv

\* One step of the specification.
LEMMA SpanSteps ==
    ASSUME SpanInv, [SpanNext]_spanVars
    PROVE  SpanInv'
  <1>1. CASE UNCHANGED spanVars
    <2>1. UNCHANGED <<spans, current, clock, copied, nested>>
      BY <1>1 DEF spanVars
    <2>2. opened' \in Nat /\ ambient' \in [Contexts -> Nat] /\ scopes' \in [Contexts -> Seq(Nat)]
      BY <1>1 DEF spanVars, SpanInv, SpanTyped
    <2>3. QED
      BY <2>1, <2>2, SpansUntouched
  <1>2. CASE CopyContext
    BY <1>2, CopyKeeps
  <1>3. ASSUME NEW c \in Contexts, c = "task" => copied, start_span(c)
        PROVE  SpanInv'
    <2>1. PICK p : Started(c, p)
      BY <1>3, StartsSpan
    <2>2. SpanTyped' /\ Older(spans)' /\ Tree' /\ Inheritance'
      BY <1>3, <2>1, StartKeepsTree, StartKeepsInheritance
    <2>3. \A d \in Contexts : nested'[d] => Nesting(d)'
      BY <1>3, <2>1, StartKeepsNesting
    <2>4. QED
      BY <2>2, <2>3 DEF SpanInv
  <1>4. ASSUME NEW c \in Contexts, NEW s \in 1..Len(spans), _end_span(c, s)
        PROVE  SpanInv'
    <2>1. Ended(s)
      BY <1>4, EndsSpan
    <2>2. SpanTyped' /\ Older(spans)' /\ Tree' /\ Inheritance'
      BY <1>4, <2>1, EndKeepsTree, EndKeepsInheritance
    <2>3. \A d \in Contexts : nested'[d] => Nesting(d)'
      BY <1>4, <2>1, EndKeepsNesting
    <2>4. QED
      BY <2>2, <2>3 DEF SpanInv
  <1>5. ASSUME NEW c \in Contexts, use_context(c)
        PROVE  SpanInv'
    <2>1. UNCHANGED <<spans, current, clock, copied, nested>>
      BY <1>5 DEF use_context
    <2>2. opened' \in Nat /\ ambient' \in [Contexts -> Nat]
      BY <1>5 DEF use_context, SpanInv, SpanTyped
    <2>3. scopes' \in [Contexts -> Seq(Nat)]
      <3>1. scopes[c] \in Seq(Nat) /\ ambient[c] \in Nat
        BY DEF SpanInv, SpanTyped
      <3>2. Append(scopes[c], ambient[c]) \in Seq(Nat)
        BY <3>1
      <3>3. scopes' = [scopes EXCEPT ![c] = Append(scopes[c], ambient[c])]
        BY <1>5 DEF use_context
      <3>4. QED
        BY <3>2, <3>3 DEF SpanInv, SpanTyped
    <2>4. QED
      BY <2>1, <2>2, <2>3, SpansUntouched
  <1>6. ASSUME NEW c \in Contexts, LeaveContext(c)
        PROVE  SpanInv'
    <2>1. UNCHANGED <<spans, current, clock, copied, nested>> /\ opened' = opened
      BY <1>6 DEF LeaveContext
    <2>2. scopes[c] \in Seq(Nat) /\ scopes[c] # <<>>
      BY <1>6 DEF LeaveContext, SpanInv, SpanTyped
    <2>3. Len(scopes[c]) \in 1..Len(scopes[c]) /\ scopes[c][Len(scopes[c])] \in Nat
          /\ SubSeq(scopes[c], 1, Len(scopes[c]) - 1) \in Seq(Nat)
      BY <2>2
    <2>4. ambient' \in [Contexts -> Nat] /\ scopes' \in [Contexts -> Seq(Nat)]
      BY <1>6, <2>3 DEF LeaveContext, SpanInv, SpanTyped
    <2>5. QED
      BY <2>1, <2>4, SpansUntouched DEF SpanInv, SpanTyped
  <1>7. QED
    BY <1>1, <1>2, <1>3, <1>4, <1>5, <1>6 DEF SpanNext

\* The spans of a trace form a tree that can be exported, whichever context opens
\* and closes them and in whatever order: a parent is older, was open when its
\* child started and is of the same trace; and while a context closes its spans
\* innermost first, what it starts next hangs below the last one it has open.
THEOREM SpansAreATree == SpanSpec => [](ParentWasOpen /\ NestedScopesNest)
  <1>1. SpanInit => SpanInv
    <2> SUFFICES ASSUME SpanInit PROVE SpanInv
      OBVIOUS
    <2>2. /\ spans = <<>> /\ copied = FALSE /\ opened = 0 /\ clock = 0
          /\ current = [c \in Contexts |-> 0] /\ ambient = [c \in Contexts |-> 0]
          /\ scopes = [c \in Contexts |-> <<>>] /\ nested = [c \in Contexts |-> TRUE]
      BY DEF SpanInit
    <2>3. Len(spans) = 0 /\ spans \in Seq(SpanRow) /\ 1..Len(spans) = {}
      BY <2>2
    <2>4. SpanTyped
      <3>1. <<>> \in Seq(Nat)
        OBVIOUS
      <3>2. scopes \in [Contexts -> Seq(Nat)] /\ nested \in [Contexts -> BOOLEAN] /\ ambient \in [Contexts -> Nat]
        BY <2>2, <3>1
      <3>3. current \in [Contexts -> 0..Len(spans)]
        BY <2>2, <2>3
      <3>4. QED
        BY <2>2, <2>3, <3>2, <3>3 DEF SpanTyped
    <2>5. QED
      BY <2>2, <2>3, <2>4 DEF SpanInv, Older, Tree, ParentWasOpen, Inheritance, Inherits, Nesting, StillOpen
  <1>2. SpanInv /\ [SpanNext]_spanVars => SpanInv'
    BY SpanSteps
  <1>3. SpanInv => ParentWasOpen /\ NestedScopesNest
    <2> SUFFICES ASSUME SpanInv PROVE ParentWasOpen /\ NestedScopesNest
      OBVIOUS
    <2>2. ParentWasOpen
      BY DEF SpanInv, Tree
    <2>3. ASSUME NEW c \in Contexts, nested[c], NEW s \in 1..Len(spans), Open(s), spans[s].home = c
          PROVE  current[c] >= s
      <3>1. s <= current[c] /\ Len(spans) \in Nat /\ current[c] \in 0..Len(spans)
        BY <2>3 DEF SpanInv, Nesting, SpanTyped
      <3>2. QED
        BY <3>1
    <2>4. QED
      BY <2>2, <2>3 DEF NestedScopesNest
  <1>4. QED
    BY <1>1, <1>2, <1>3, PTL DEF SpanSpec


(***************************************************************************)
(* Credentials and calls: CredentialBroker and CapabilityInvoker, which    *)
(* calls it, for every finite set of clients, all definitions and every    *)
(* value of the bounds.                                                    *)
(***************************************************************************)
-----------------------------------------------------------------------------
(* The cap is checked against active leases and reservations, but a lease  *)
(* is in both between its registration and the finally block, so the sum   *)
(* may exceed the cap.  What never does is the number of clients that have *)
(* entered issue_for or hold a lease: they are the union of the two.       *)

Occupied == {c \in Clients : phase[c] # "out"}

\* The WeakSet holds the leases that were registered and not dropped.
ActiveIsRegistered == active = {c \in Clients : phase[c] \in {"registered", "held"}}

CapInv ==
    /\ BrokerTypeOK
    /\ ActiveIsRegistered
    /\ PendingIsInFlight
    /\ Cardinality(Occupied) <= MaxLeases
    /\ HeldLeaseIsBound

\* No lease is a well typed lease.
LEMMA NoLeaseType == BrokerAssumption => NoLease \in Lease
  BY DEF BrokerAssumption, NoLease, Lease

\* Sets of clients are finite, and the ones that matter here are related.
LEMMA OccupiedParts ==
    ASSUME BrokerAssumption, CapInv
    PROVE  /\ IsFiniteSet(InFlight) /\ IsFiniteSet(active) /\ IsFiniteSet(Occupied)
           /\ Cardinality(InFlight) \in Nat /\ Cardinality(active) \in Nat
           /\ Cardinality(Occupied) <= Cardinality(active) + Cardinality(InFlight)
  <1>1. IsFiniteSet(InFlight) /\ IsFiniteSet(active) /\ IsFiniteSet(Occupied)
    BY FS_Subset DEF BrokerAssumption, InFlight, Occupied, CapInv, BrokerTypeOK
  <1>2. Occupied = active \cup InFlight
    BY DEF CapInv, BrokerTypeOK, ActiveIsRegistered, Occupied, InFlight, Phase
  <1>3. /\ Cardinality(InFlight) \in Nat /\ Cardinality(active) \in Nat
        /\ Cardinality(active \cap InFlight) \in Nat
    BY <1>1, FS_CardinalityType, FS_Intersection
  <1>4. Cardinality(Occupied) =
            Cardinality(active) + Cardinality(InFlight) - Cardinality(active \cap InFlight)
    BY <1>1, <1>2, FS_Union
  <1>5. QED
    BY <1>1, <1>3, <1>4

In(ph, S) == {d \in Clients : ph[d] \in S}

\* What moving one client does to the number of clients in a set of phases.
LEMMA MoveCounts ==
    ASSUME BrokerAssumption, BrokerTypeOK, NEW c \in Clients, NEW from, NEW to,
           Move(c, from, to), NEW S
    PROVE  /\ Cardinality(In(phase, S)) \in Nat
           /\ from \in S /\ to \notin S => Cardinality(In(phase', S)) = Cardinality(In(phase, S)) - 1
           /\ from \notin S /\ to \in S => Cardinality(In(phase', S)) = Cardinality(In(phase, S)) + 1
           /\ (from \in S <=> to \in S) => In(phase', S) = In(phase, S)
  <1> DEFINE before == In(phase, S)
             after  == In(phase', S)
  <1>1. /\ phase[c] = from /\ phase'[c] = to
        /\ \A d \in Clients : d # c => phase'[d] = phase[d]
    BY DEF BrokerTypeOK, Move
  <1>2. IsFiniteSet(before) /\ Cardinality(before) \in Nat
    BY FS_Subset, FS_CardinalityType DEF BrokerAssumption, In
  <1>3. from \in S /\ to \notin S => after = before \ {c} /\ c \in before
    BY <1>1 DEF In
  <1>4. from \notin S /\ to \in S => after = before \cup {c} /\ c \notin before
    BY <1>1 DEF In
  <1>5. (from \in S <=> to \in S) => after = before
    BY <1>1 DEF In
  <1> HIDE DEF before, after
  <1>6. Cardinality(before \ {c}) = IF c \in before THEN Cardinality(before) - 1 ELSE Cardinality(before)
    BY <1>2, FS_RemoveElement
  <1>7. Cardinality(before \cup {c}) = IF c \in before THEN Cardinality(before) ELSE Cardinality(before) + 1
    BY <1>2, FS_AddElement
  <1>8. QED
    BY <1>2, <1>3, <1>4, <1>5, <1>6, <1>7 DEF before, after

Issuing == {"issuing", "answered", "verified", "registered", "releasing"}
Inside == Issuing \union {"held"}

\* A client that moves counts as Reserve, GiveBack and Drop say: a place is
\* taken only on the way in, under the lock, and given back on the way out.
LEMMA MoveKeepsCap ==
    ASSUME BrokerAssumption, CapInv, NEW c \in Clients, NEW from \in Phase, NEW to \in Phase,
           Move(c, from, to),
           from = "out" => to \in Issuing /\ ~Full,
           pending' = IF from \notin Issuing /\ to \in Issuing THEN pending + 1
                      ELSE IF from \in Issuing /\ to \notin Issuing THEN pending - 1
                      ELSE pending
    PROVE  /\ pending' \in Nat /\ PendingIsInFlight'
           /\ (Cardinality(Occupied) <= MaxLeases)'
  <1>1. BrokerTypeOK /\ phase' \in [Clients -> Phase]
    BY DEF CapInv, BrokerTypeOK, Move
  <1>2. InFlight = In(phase, Issuing) /\ InFlight' = In(phase', Issuing)
    BY DEF Issuing, InFlight, In
  <1>3. Occupied = In(phase, Inside) /\ Occupied' = In(phase', Inside)
    BY <1>1 DEF Occupied, BrokerTypeOK, Inside, Issuing, Phase, In
  <1>4. /\ Cardinality(InFlight) \in Nat
        /\ from \in Issuing /\ to \notin Issuing => Cardinality(InFlight') = Cardinality(InFlight) - 1
        /\ from \notin Issuing /\ to \in Issuing => Cardinality(InFlight') = Cardinality(InFlight) + 1
        /\ (from \in Issuing <=> to \in Issuing) => InFlight' = InFlight
    BY <1>1, <1>2, MoveCounts
  <1>5. /\ Cardinality(Occupied) \in Nat
        /\ from \in Inside /\ to \notin Inside => Cardinality(Occupied') = Cardinality(Occupied) - 1
        /\ from \notin Inside /\ to \in Inside => Cardinality(Occupied') = Cardinality(Occupied) + 1
        /\ (from \in Inside <=> to \in Inside) => Occupied' = Occupied
    BY <1>1, <1>3, MoveCounts
  <1>6. PendingIsInFlight'
    BY <1>4 DEF PendingIsInFlight, CapInv
  <1>7. IsFiniteSet(InFlight')
    BY FS_Subset, <1>2 DEF BrokerAssumption, In
  <1>8. pending' \in Nat
    BY <1>6, <1>7, FS_CardinalityType DEF PendingIsInFlight
  <1>9. from \notin Inside => Cardinality(Occupied) < MaxLeases
    <2>1. from \notin Inside => ~(Cardinality(active) + Cardinality(InFlight) >= MaxLeases)
      BY DEF Full, CapInv, PendingIsInFlight, Inside, Issuing, Phase
    <2>2. /\ Cardinality(InFlight) \in Nat /\ Cardinality(active) \in Nat
          /\ Cardinality(Occupied) <= Cardinality(active) + Cardinality(InFlight)
      BY OccupiedParts
    <2>3. QED
      BY <2>1, <2>2, <1>5 DEF BrokerAssumption
  <1>10. Cardinality(Occupied') <= MaxLeases
    BY <1>5, <1>9 DEF CapInv, BrokerAssumption
  <1>11. QED
    BY <1>6, <1>8, <1>10

\* Every step of a client keeps the invariant.
LEMMA ClientStep ==
    ASSUME BrokerAssumption, CapInv, NEW c \in Clients,
           \/ \E s \in SUBSET Scopes : Reserve(c, s)
           \/ ProviderAnswers(c) \/ ProviderFails(c) \/ Verify(c)
           \/ Register(c) \/ GiveBack(c) \/ Drop(c)
    PROVE  CapInv'
  <1> USE DEF Issuing, Phase
  <1>0. /\ BrokerTypeOK /\ ActiveIsRegistered /\ HeldLeaseIsBound
        /\ MaxTtl \in Nat \ {0} /\ MaxTime \in Nat /\ NoLease \in Lease
    BY NoLeaseType DEF CapInv, BrokerAssumption
  <1>1. ASSUME NEW s \in SUBSET Scopes, Reserve(c, s)
        PROVE  CapInv'
    <2>1. pending' \in Nat /\ PendingIsInFlight' /\ (Cardinality(Occupied) <= MaxLeases)'
      BY <1>1, MoveKeepsCap DEF Reserve
    <2>2. BrokerTypeOK'
      BY <1>0, <1>1, <2>1 DEF BrokerTypeOK, Reserve, Move
    <2>3. ActiveIsRegistered' /\ HeldLeaseIsBound'
      BY <1>0, <1>1 DEF BrokerTypeOK, Reserve, Move, ActiveIsRegistered, HeldLeaseIsBound
    <2>4. QED
      BY <2>1, <2>2, <2>3 DEF CapInv
  <1>2. CASE ProviderAnswers(c)
    <2>1. pending' \in Nat /\ PendingIsInFlight' /\ (Cardinality(Occupied) <= MaxLeases)'
      BY <1>2, MoveKeepsCap DEF ProviderAnswers
    <2>2. BrokerTypeOK'
      BY <1>0, <1>2, <2>1 DEF BrokerTypeOK, ProviderAnswers, Move
    <2>3. ActiveIsRegistered' /\ HeldLeaseIsBound'
      BY <1>0, <1>2 DEF BrokerTypeOK, ProviderAnswers, Move, ActiveIsRegistered, HeldLeaseIsBound
    <2>4. QED
      BY <2>1, <2>2, <2>3 DEF CapInv
  <1>3. CASE ProviderFails(c)
    <2>1. pending' \in Nat /\ PendingIsInFlight' /\ (Cardinality(Occupied) <= MaxLeases)'
      BY <1>3, MoveKeepsCap DEF ProviderFails
    <2>2. BrokerTypeOK'
      BY <1>0, <1>3, <2>1 DEF BrokerTypeOK, ProviderFails, Move
    <2>3. ActiveIsRegistered' /\ HeldLeaseIsBound'
      BY <1>0, <1>3 DEF BrokerTypeOK, ProviderFails, Move, ActiveIsRegistered, HeldLeaseIsBound
    <2>4. QED
      BY <2>1, <2>2, <2>3 DEF CapInv
  <1>4. CASE Verify(c)
    <2>1. /\ UNCHANGED <<wanted, active, pending, now>>
          /\ \/ /\ Move(c, "answered", "verified") /\ UNCHANGED lease
                /\ verify_lease(lease[c], wanted[c], now)
             \/ Move(c, "answered", "releasing") /\ lease' = [lease EXCEPT ![c] = NoLease]
      BY <1>4 DEF Verify
    <2>2. pending' \in Nat /\ PendingIsInFlight' /\ (Cardinality(Occupied) <= MaxLeases)'
      BY <2>1, MoveKeepsCap
    <2>3. BrokerTypeOK'
      BY <1>0, <2>1, <2>2 DEF BrokerTypeOK, Move
    <2>4. ActiveIsRegistered'
      BY <1>0, <2>1 DEF BrokerTypeOK, Move, ActiveIsRegistered
    <2>5. HeldLeaseIsBound'
      BY <1>0, <2>1 DEF BrokerTypeOK, Move, HeldLeaseIsBound, verify_lease
    <2>6. QED
      BY <2>2, <2>3, <2>4, <2>5 DEF CapInv
  <1>5. CASE Register(c)
    <2>1. pending' \in Nat /\ PendingIsInFlight' /\ (Cardinality(Occupied) <= MaxLeases)'
      BY <1>5, MoveKeepsCap DEF Register
    <2>2. BrokerTypeOK'
      BY <1>0, <1>5, <2>1 DEF BrokerTypeOK, Register, Move
    <2>3. ActiveIsRegistered' /\ HeldLeaseIsBound'
      BY <1>0, <1>5 DEF BrokerTypeOK, Register, Move, ActiveIsRegistered, HeldLeaseIsBound
    <2>4. QED
      BY <2>1, <2>2, <2>3 DEF CapInv
  <1>6. CASE GiveBack(c)
    <2>1. /\ UNCHANGED <<wanted, lease, active, now>> /\ pending' = pending - 1
          /\ \/ Move(c, "registered", "held")
             \/ Move(c, "releasing", "out")
      BY <1>6 DEF GiveBack
    <2>2. pending' \in Nat /\ PendingIsInFlight' /\ (Cardinality(Occupied) <= MaxLeases)'
      BY <2>1, MoveKeepsCap
    <2>3. BrokerTypeOK'
      BY <1>0, <2>1, <2>2 DEF BrokerTypeOK, Move
    <2>4. ActiveIsRegistered' /\ HeldLeaseIsBound'
      BY <1>0, <2>1 DEF BrokerTypeOK, Move, ActiveIsRegistered, HeldLeaseIsBound
    <2>5. QED
      BY <2>2, <2>3, <2>4 DEF CapInv
  <1>7. CASE Drop(c)
    <2>1. pending' \in Nat /\ PendingIsInFlight' /\ (Cardinality(Occupied) <= MaxLeases)'
      BY <1>7, MoveKeepsCap DEF Drop
    <2>2. BrokerTypeOK'
      BY <1>0, <1>7, <2>1 DEF BrokerTypeOK, Drop, Move
    <2>3. ActiveIsRegistered' /\ HeldLeaseIsBound'
      BY <1>0, <1>7 DEF BrokerTypeOK, Drop, Move, ActiveIsRegistered, HeldLeaseIsBound
    <2>4. QED
      BY <2>1, <2>2, <2>3 DEF CapInv
  <1>8. QED
    BY <1>1, <1>2, <1>3, <1>4, <1>5, <1>6, <1>7

\* The broker starts in it.
LEMMA BrokerStart ==
    ASSUME BrokerAssumption, BrokerInit
    PROVE  CapInv
  <1>1. InFlight = {} /\ Occupied = {}
    BY DEF BrokerInit, InFlight, Occupied
  <1>2. BrokerTypeOK
    BY NoLeaseType DEF BrokerInit, BrokerTypeOK, BrokerAssumption, Phase
  <1>3. ActiveIsRegistered /\ HeldLeaseIsBound
    BY DEF BrokerInit, ActiveIsRegistered, HeldLeaseIsBound
  <1>4. QED
    BY <1>1, <1>2, <1>3, FS_EmptySet DEF CapInv, BrokerInit, PendingIsInFlight, BrokerAssumption

\* Every step of the broker keeps it.
LEMMA CapStep ==
    ASSUME BrokerAssumption, CapInv, [BrokerNext]_brokerVars
    PROVE  CapInv'
  <1>1. CASE UNCHANGED brokerVars \/ \E c \in Clients : Refuse(c)
    BY <1>1 DEF Refuse, brokerVars, CapInv, BrokerTypeOK, ActiveIsRegistered,
                PendingIsInFlight, InFlight, Occupied, HeldLeaseIsBound
  <1>2. CASE BrokerTick
    BY <1>2 DEF BrokerTick, CapInv, BrokerTypeOK, ActiveIsRegistered, Lease, BrokerAssumption,
                PendingIsInFlight, InFlight, Occupied, HeldLeaseIsBound
  <1>3. QED
    BY <1>1, <1>2, ClientStep DEF BrokerNext

\* The invariant holds in every reachable state of the broker.
LEMMA CapInvariance == BrokerAssumption => (BrokerSpec => []CapInv)
  <1> SUFFICES ASSUME BrokerAssumption PROVE BrokerSpec => []CapInv
    OBVIOUS
  <1>1. BrokerInit => CapInv
    BY BrokerStart
  <1>2. CapInv /\ [BrokerNext]_brokerVars => CapInv'
    BY CapStep
  <1>3. QED
    BY <1>1, <1>2, PTL DEF BrokerSpec

\* However many clients ask at once and however their providers answer, fail
\* or delay, the leases that exist never exceed the cap.
THEOREM CapHolds == BrokerAssumption => (BrokerSpec => []LeaseCap)
  <1> SUFFICES ASSUME BrokerAssumption PROVE BrokerSpec => []LeaseCap
    OBVIOUS
  <1>1. CapInv => LeaseCap
    <2> SUFFICES ASSUME CapInv PROVE LeaseCap
      OBVIOUS
    <2>1. Holders \in SUBSET Occupied /\ IsFiniteSet(Occupied)
      BY OccupiedParts DEF Holders, Occupied
    <2>2. Cardinality(Holders) <= Cardinality(Occupied) /\ Cardinality(Holders) \in Nat
          /\ Cardinality(Occupied) \in Nat
      BY <2>1, FS_Subset, FS_CardinalityType
    <2>3. QED
      BY <2>2 DEF CapInv, LeaseCap, BrokerAssumption
  <1>2. QED
    BY CapInvariance, <1>1, PTL

\* The reservations are exactly the requests under way: a provider that raises,
\* or whose lease is refused, leaves nothing behind that eats a place.
THEOREM ReservationsAreReturned == BrokerAssumption => (BrokerSpec => []PendingIsInFlight)
  <1> SUFFICES ASSUME BrokerAssumption PROVE BrokerSpec => []PendingIsInFlight
    OBVIOUS
  <1>1. CapInv => PendingIsInFlight
    BY DEF CapInv
  <1>2. QED
    BY CapInvariance, <1>1, PTL

\* A lease that reaches its caller is for the request, carries no scope that the
\* definition does not declare, and ends within the ceiling.
THEOREM HeldLeasesAreBound == BrokerAssumption => (BrokerSpec => []HeldLeaseIsBound)
  <1> SUFFICES ASSUME BrokerAssumption PROVE BrokerSpec => []HeldLeaseIsBound
    OBVIOUS
  <1>1. CapInv => HeldLeaseIsBound
    BY DEF CapInv
  <1>2. QED
    BY CapInvariance, <1>1, PTL
-----------------------------------------------------------------------------
(* The calls that use the broker. *)

\* Where each client is with the broker follows from where it is in its call.
CallsAndLeases ==
    \A c \in Clients :
        /\ stage[c] \notin {"leasing", "calling"} => phase[c] = "out"
        /\ stage[c] = "calling" => phase[c] \in {"out", "held"}
        /\ stage[c] = "calling" /\ def[c].executor = "cred" => phase[c] = "held"

InvokerInv == CapInv /\ InvokerTypeOK /\ CacheAgreesWithCatalog /\ CallsAndLeases

\* A step of a call moves its own client, and no definition but its own.
Within(c) == \A d \in Clients \ {c} : stage'[d] = stage[d] /\ def'[d] = def[d] /\ phase'[d] = phase[d]

\* What get answers is well typed, and agrees with the catalogue.
LEMMA GetAgrees ==
    ASSUME InvokerAssumption, InvokerInv
    PROVE  /\ Get \in Definitions \union {NoDefinition}
           /\ Get # NoDefinition => Get.valid /\ Agrees(catalog, Get)
  BY DEF Get, InvokerInv, InvokerTypeOK, CacheAgreesWithCatalog

\* A step that leaves the broker and the registry alone.
LEMMA QuietStep ==
    ASSUME InvokerInv, NEW c \in Clients, Within(c), UNCHANGED <<brokerVars, registryVars, world>>,
           def' \in [Clients -> Definitions \union {NoDefinition}],
           stage' \in [Clients -> {"idle", "evaluated", "leasing", "calling"} \union Answered],
           phase[c] = "out", stage'[c] = "calling" => def'[c].executor # "cred"
    PROVE  InvokerInv'
  <1>1. CapInv'
    BY DEF InvokerInv, brokerVars, CapInv, BrokerTypeOK, ActiveIsRegistered,
           PendingIsInFlight, InFlight, Occupied, HeldLeaseIsBound
  <1>2. InvokerTypeOK'
    BY <1>1 DEF InvokerInv, InvokerTypeOK, registryVars, CapInv
  <1>3. CallsAndLeases' /\ CacheAgreesWithCatalog'
    BY DEF InvokerInv, CallsAndLeases, CacheAgreesWithCatalog, Within, brokerVars, registryVars
  <1>4. QED
    BY <1>1, <1>2, <1>3 DEF InvokerInv

\* A step of the broker for a client that is leasing or calling.
LEMMA LeaseStep ==
    ASSUME InvokerAssumption, InvokerInv, NEW c \in Clients, CapInv', Within(c),
           UNCHANGED <<registryVars, world, def>>,
           stage' \in [Clients -> {"idle", "evaluated", "leasing", "calling"} \union Answered],
           stage'[c] \notin {"leasing", "calling"} => phase'[c] = "out",
           stage'[c] = "calling" => phase'[c] \in {"out", "held"},
           stage'[c] = "calling" /\ def[c].executor = "cred" => phase'[c] = "held"
    PROVE  InvokerInv'
  <1>1. InvokerTypeOK'
    BY DEF InvokerInv, InvokerTypeOK, registryVars, CapInv
  <1>2. CallsAndLeases' /\ CacheAgreesWithCatalog'
    BY DEF InvokerInv, CallsAndLeases, CacheAgreesWithCatalog, Within, registryVars
  <1>3. QED
    BY <1>1, <1>2 DEF InvokerInv

\* The broker's steps move one client.
LEMMA BrokerMoves ==
    ASSUME BrokerTypeOK, NEW c \in Clients,
           \/ \E s \in SUBSET Scopes : Reserve(c, s)
           \/ ProviderAnswers(c) \/ ProviderFails(c) \/ Verify(c)
           \/ Register(c) \/ GiveBack(c) \/ Drop(c)
    PROVE  /\ \A d \in Clients \ {c} : phase'[d] = phase[d]
           /\ Drop(c) => phase'[c] = "out"
           /\ GiveBack(c) => phase'[c] = IF phase[c] = "releasing" THEN "out" ELSE "held"
  BY DEF Reserve, ProviderAnswers, ProviderFails, Verify, Register, GiveBack, Drop, Move,
         BrokerTypeOK

\* Every step of a call keeps the invariant.
LEMMA CallStep ==
    ASSUME InvokerAssumption, InvokerInv, NEW c \in Clients,
           \/ Invoke(c) \/ Prepare(c) \/ Leasing(c) \/ UseLease(c) \/ Finish(c) \/ Again(c)
    PROVE  InvokerInv'
  <1> DEFINE Stages == {"idle", "evaluated", "leasing", "calling"} \union Answered
  <1>0. /\ BrokerTypeOK /\ CapInv /\ BrokerAssumption /\ stage \in [Clients -> Stages]
        /\ def \in [Clients -> Definitions \union {NoDefinition}]
        /\ stage[c] \notin {"leasing", "calling"} => phase[c] = "out"
        /\ stage[c] = "calling" => phase[c] \in {"out", "held"}
    BY DEF InvokerInv, InvokerTypeOK, CapInv, InvokerAssumption, CallsAndLeases
  <1>1. CASE Invoke(c)
    <2>1. /\ stage[c] = "idle" /\ cache' = Get
          /\ UNCHANGED <<brokerVars, world, catFile, defFile, catalog>>
          /\ \/ stage' = [stage EXCEPT ![c] = "evaluated"] /\ def' = [def EXCEPT ![c] = Get]
             \/ stage' = [stage EXCEPT ![c] = "raised"] /\ UNCHANGED def
      BY <1>1 DEF Invoke, Stage
    <2>2. /\ Get \in Definitions \union {NoDefinition}
          /\ Get # NoDefinition => Get.valid /\ Agrees(catalog, Get)
      BY GetAgrees
    <2>3. CapInv'
      BY <1>0, <2>1 DEF brokerVars, CapInv, BrokerTypeOK, ActiveIsRegistered,
             PendingIsInFlight, InFlight, Occupied, HeldLeaseIsBound
    <2>4. stage' \in [Clients -> Stages] /\ def' \in [Clients -> Definitions \union {NoDefinition}]
          /\ \A d \in Clients : d # c => stage'[d] = stage[d] /\ def'[d] = def[d]
          /\ stage'[c] \notin {"leasing", "calling"}
      BY <1>0, <2>1, <2>2 DEF Answered
    <2>5. InvokerTypeOK'
      BY <2>1, <2>2, <2>3, <2>4 DEF InvokerInv, InvokerTypeOK, CapInv
    <2>6. CacheAgreesWithCatalog'
      BY <2>1, <2>2 DEF CacheAgreesWithCatalog
    <2>7. CallsAndLeases'
      BY <1>0, <2>1, <2>4 DEF InvokerInv, CallsAndLeases, brokerVars
    <2>8. QED
      BY <2>3, <2>5, <2>6, <2>7 DEF InvokerInv
  <1>2. CASE Prepare(c)
    <2>1. /\ stage[c] = "evaluated" /\ UNCHANGED <<brokerVars, registryVars, world, def>>
          /\ \E to \in {"failed", "raised", "calling", "leasing"} :
                /\ stage' = [stage EXCEPT ![c] = to]
                /\ to = "calling" => def[c].executor = "plain"
      BY <1>2 DEF Prepare, Stage
    <2>2. /\ stage' \in [Clients -> Stages] /\ phase[c] = "out" /\ Within(c)
          /\ stage'[c] = "calling" => def'[c].executor # "cred"
      BY <1>0, <2>1 DEF Within, Answered, brokerVars
    <2>3. def' \in [Clients -> Definitions \union {NoDefinition}]
      BY <1>0, <2>1
    <2>4. QED
      BY <2>1, <2>2, <2>3, QuietStep
  <1>3. CASE Again(c)
    <2>1. /\ UNCHANGED <<brokerVars, registryVars, world>>
          /\ stage[c] \in Answered /\ stage' = [stage EXCEPT ![c] = "idle"]
          /\ def' = [def EXCEPT ![c] = NoDefinition]
      BY <1>3 DEF Again, Stage
    <2>2. stage' \in [Clients -> Stages] /\ phase[c] = "out" /\ Within(c) /\ stage'[c] = "idle"
      BY <1>0, <2>1 DEF Within, Answered, brokerVars
    <2>3. def' \in [Clients -> Definitions \union {NoDefinition}]
      BY <1>0, <2>1
    <2>4. QED
      BY <2>1, <2>2, <2>3, QuietStep
  <1>4. CASE Leasing(c)
    <2>1. /\ stage[c] = "leasing" /\ UNCHANGED <<registryVars, world, def>>
          /\ \/ /\ stage' = [stage EXCEPT ![c] = "raised"] /\ Refuse(c)
             \/ /\ stage' = stage
                /\ \/ Reserve(c, def[c].scopes) \/ ProviderAnswers(c) \/ ProviderFails(c)
                   \/ Verify(c) \/ Register(c)
                   \/ GiveBack(c) /\ phase[c] # "releasing"
             \/ /\ stage' = [stage EXCEPT ![c] = "raised"]
                /\ GiveBack(c) /\ phase[c] = "releasing"
      BY <1>4 DEF Leasing, Stage
    <2>2. def[c].scopes \in SUBSET Scopes
      <3>1. NoDefinition.scopes = {}
        BY DEF NoDefinition
      <3>2. QED
        BY <1>0, <3>1 DEF InvokerAssumption
    <2>3. CASE Refuse(c) /\ stage' = [stage EXCEPT ![c] = "raised"]
      <3>1. phase[c] = "out" /\ UNCHANGED brokerVars
        BY <2>3 DEF Refuse
      <3>2. stage' \in [Clients -> Stages] /\ Within(c) /\ stage'[c] = "raised"
        BY <1>0, <2>1, <2>3, <3>1 DEF Within, Answered, brokerVars
      <3>3. def' \in [Clients -> Definitions \union {NoDefinition}]
        BY <1>0, <2>1
      <3>4. QED
        BY <2>1, <3>1, <3>2, <3>3, QuietStep
    <2>4. CASE \/ /\ stage' = stage
                  /\ \/ Reserve(c, def[c].scopes) \/ ProviderAnswers(c) \/ ProviderFails(c)
                     \/ Verify(c) \/ Register(c)
                     \/ GiveBack(c) /\ phase[c] # "releasing"
               \/ /\ stage' = [stage EXCEPT ![c] = "raised"]
                  /\ GiveBack(c) /\ phase[c] = "releasing"
      <3>1. \/ \E s \in SUBSET Scopes : Reserve(c, s)
            \/ ProviderAnswers(c) \/ ProviderFails(c) \/ Verify(c)
            \/ Register(c) \/ GiveBack(c)
        BY <2>1, <2>2, <2>4
      <3>2. CapInv' /\ \A d \in Clients \ {c} : phase'[d] = phase[d]
        BY <1>0, <3>1, ClientStep, BrokerMoves
      <3>3. /\ stage' \in [Clients -> Stages] /\ Within(c) /\ stage'[c] \in {"leasing", "raised"}
            /\ stage'[c] = "raised" => phase'[c] = "out"
        BY <1>0, <2>1, <2>4, <3>2, BrokerMoves DEF Within, Answered
      <3>4. QED
        BY <2>1, <3>2, <3>3, LeaseStep
    <2>5. QED
      BY <2>1, <2>3, <2>4
  <1>5. CASE UseLease(c)
    <2>1. /\ stage[c] = "leasing" /\ phase[c] = "held" /\ UNCHANGED <<registryVars, world, def>>
          /\ \/ stage' = [stage EXCEPT ![c] = "calling"] /\ UNCHANGED brokerVars
             \/ stage' = [stage EXCEPT ![c] = "raised"] /\ Drop(c)
      BY <1>5 DEF UseLease, Stage
    <2>2. CASE stage' = [stage EXCEPT ![c] = "calling"] /\ UNCHANGED brokerVars
      <3>1. CapInv'
        BY <1>0, <2>2 DEF brokerVars, CapInv, BrokerTypeOK, ActiveIsRegistered,
               PendingIsInFlight, InFlight, Occupied, HeldLeaseIsBound
      <3>2. /\ stage' \in [Clients -> Stages] /\ Within(c) /\ stage'[c] = "calling"
            /\ phase'[c] = "held"
        BY <1>0, <2>1, <2>2 DEF Within, Answered, brokerVars
      <3>3. QED
        BY <2>1, <3>1, <3>2, LeaseStep
    <2>3. CASE stage' = [stage EXCEPT ![c] = "raised"] /\ Drop(c)
      <3>1. CapInv' /\ phase'[c] = "out" /\ \A d \in Clients \ {c} : phase'[d] = phase[d]
        BY <1>0, <2>3, ClientStep, BrokerMoves
      <3>2. stage' \in [Clients -> Stages] /\ Within(c) /\ stage'[c] = "raised"
        BY <1>0, <2>1, <2>3, <3>1 DEF Within, Answered
      <3>3. QED
        BY <2>1, <3>1, <3>2, LeaseStep
    <2>4. QED
      BY <2>1, <2>2, <2>3
  <1>6. CASE Finish(c)
    <2>1. /\ stage[c] = "calling" /\ UNCHANGED <<registryVars, world, def>>
          /\ \E outcome \in {"succeeded", "failed"} : stage' = [stage EXCEPT ![c] = outcome]
          /\ IF phase[c] = "held" THEN Drop(c) ELSE UNCHANGED brokerVars
      BY <1>6 DEF Finish, Stage
    <2>2. CapInv' /\ phase'[c] = "out" /\ \A d \in Clients \ {c} : phase'[d] = phase[d]
      <3>1. CASE phase[c] = "held"
        BY <1>0, <2>1, <3>1, ClientStep, BrokerMoves
      <3>2. CASE phase[c] # "held"
        BY <1>0, <2>1, <3>2 DEF brokerVars, CapInv, BrokerTypeOK, ActiveIsRegistered,
               PendingIsInFlight, InFlight, Occupied, HeldLeaseIsBound
      <3>3. QED
        BY <3>1, <3>2
    <2>3. stage' \in [Clients -> Stages] /\ Within(c) /\ stage'[c] \notin {"leasing", "calling"}
      BY <1>0, <2>1, <2>2 DEF Within, Answered
    <2>4. QED
      BY <2>1, <2>2, <2>3, LeaseStep
  <1>7. QED
    BY <1>1, <1>2, <1>3, <1>4, <1>5, <1>6

\* What a call does to the broker is what the broker does, or nothing.
LEMMA BrokerStep ==
    ASSUME InvokerAssumption, InvokerInv, [InvokerNext]_vars
    PROVE  [BrokerNext]_brokerVars
  <1>1. CASE UNCHANGED brokerVars
    BY <1>1
  <1>2. ASSUME NEW c \in Clients, Leasing(c)
        PROVE  BrokerNext
    <2>1. def[c].scopes \in SUBSET Scopes
      <3>1. NoDefinition.scopes = {} /\ def[c] \in Definitions \union {NoDefinition}
        BY DEF NoDefinition, InvokerInv, InvokerTypeOK
      <3>2. QED
        BY <3>1 DEF InvokerAssumption
    <2>2. \/ Reserve(c, def[c].scopes) \/ Refuse(c) \/ ProviderAnswers(c) \/ ProviderFails(c)
          \/ Verify(c) \/ Register(c) \/ GiveBack(c)
      BY <1>2 DEF Leasing
    <2>3. QED
      BY <2>1, <2>2 DEF BrokerNext
  <1>3. ASSUME NEW c \in Clients, Drop(c)
        PROVE  BrokerNext
    BY <1>3 DEF BrokerNext
  <1>4. CASE BrokerTick
    BY <1>4 DEF BrokerNext
  <1>5. ASSUME NEW c \in Clients,
               \/ Invoke(c) \/ Prepare(c) \/ Leasing(c) \/ UseLease(c) \/ Finish(c) \/ Again(c)
        PROVE  UNCHANGED brokerVars \/ Leasing(c) \/ Drop(c)
    BY <1>5 DEF Invoke, Prepare, UseLease, Finish, Again
  <1>6. UNCHANGED vars \/ Registry \/ WorldMoves => UNCHANGED brokerVars
    BY DEF vars, Registry, WorldMoves
  <1>7. Time => BrokerTick
    BY DEF Time
  <1>8. QED
    BY <1>1, <1>2, <1>3, <1>4, <1>5, <1>6, <1>7 DEF InvokerNext

\* The invariant holds in every reachable state.
LEMMA InvokerInvariance == InvokerAssumption => (InvokerSpec => []InvokerInv)
  <1> SUFFICES ASSUME InvokerAssumption PROVE InvokerSpec => []InvokerInv
    OBVIOUS
  <1>1. InvokerInit => InvokerInv
    <2> SUFFICES ASSUME InvokerInit PROVE InvokerInv
      OBVIOUS
    <2>1. CapInv
      BY BrokerStart DEF InvokerInit, InvokerAssumption
    <2>2. /\ defFile \in Definitions /\ catFile = Summary(defFile) /\ catalog = catFile
          /\ cache = NoDefinition /\ world \in World
          /\ stage = [c \in Clients |-> "idle"] /\ def = [c \in Clients |-> NoDefinition]
          /\ phase = [c \in Clients |-> "out"]
      BY DEF InvokerInit, BrokerInit
    <2>3. InvokerTypeOK
      BY <2>1, <2>2 DEF InvokerTypeOK, CapInv, CatalogContent
    <2>4. CacheAgreesWithCatalog /\ CallsAndLeases
      BY <2>2 DEF CacheAgreesWithCatalog, CallsAndLeases
    <2>5. QED
      BY <2>1, <2>3, <2>4 DEF InvokerInv
  <1>2. InvokerInv /\ [InvokerNext]_vars => InvokerInv'
    <2> SUFFICES ASSUME InvokerInv, [InvokerNext]_vars PROVE InvokerInv'
      OBVIOUS
    <2>1. CapInv'
      BY BrokerStep, CapStep DEF InvokerInv, InvokerAssumption
    <2>2. CASE UNCHANGED vars
      BY <2>1, <2>2 DEF vars, brokerVars, registryVars, callVars, InvokerInv, InvokerTypeOK, CapInv,
                        CacheAgreesWithCatalog, CallsAndLeases
    <2>3. CASE Registry
      <3>1. UNCHANGED <<brokerVars, world, callVars>>
        BY <2>3 DEF Registry
      <3>2. /\ catFile' \in CatalogContent /\ catalog' \in CatalogContent
            /\ defFile' \in Definitions /\ cache' \in Definitions \union {NoDefinition}
            /\ CacheAgreesWithCatalog'
        BY <2>3 DEF Registry, EditCatalog, EditDefinition, Reload, ReloadFails, registryVars,
                    InvokerInv, InvokerTypeOK, CacheAgreesWithCatalog
      <3>3. InvokerTypeOK' /\ CallsAndLeases'
        BY <2>1, <3>1, <3>2 DEF InvokerInv, InvokerTypeOK, CapInv, CallsAndLeases, brokerVars, callVars
      <3>4. QED
        BY <2>1, <3>2, <3>3 DEF InvokerInv
    <2>4. CASE WorldMoves
      BY <2>1, <2>4 DEF WorldMoves, brokerVars, registryVars, callVars, InvokerInv, InvokerTypeOK,
                        CapInv, CacheAgreesWithCatalog, CallsAndLeases
    <2>5. CASE Time
      BY <2>1, <2>5 DEF Time, BrokerTick, registryVars, callVars, InvokerInv, InvokerTypeOK, CapInv,
                        CacheAgreesWithCatalog, CallsAndLeases
    <2>6. QED
      BY <2>2, <2>3, <2>4, <2>5, CallStep DEF InvokerNext
  <1>3. QED
    BY <1>1, <1>2, PTL DEF InvokerSpec

\* The invoker uses the broker as a client of it: whatever it does is a
\* behaviour of the broker alone.
THEOREM CallsUseTheBroker == InvokerAssumption => (InvokerSpec => BrokerSpec)
  <1> SUFFICES ASSUME InvokerAssumption PROVE InvokerSpec => BrokerSpec
    OBVIOUS
  <1>1. InvokerInit => BrokerInit
    BY DEF InvokerInit
  <1>2. QED
    BY InvokerInvariance, BrokerStep, <1>1, PTL DEF InvokerSpec, BrokerSpec

\* So the leases that capability calls hold never exceed the cap.
THEOREM CallsKeepTheCap == InvokerAssumption => (InvokerSpec => []LeaseCap)
  BY CallsUseTheBroker, CapHolds DEF InvokerAssumption

\* However definitions are edited and reloaded, clocks move and providers fail,
\* a call works with a cached definition that agrees with the catalogue, holds
\* its registered lease while its executor runs, and no longer.
THEOREM CallsAreSound == InvokerAssumption => (InvokerSpec => []InvocationIsSound)
  <1> SUFFICES ASSUME InvokerAssumption PROVE InvokerSpec => []InvocationIsSound
    OBVIOUS
  <1>1. InvokerInv => InvocationIsSound
    BY DEF InvokerInv, CapInv, CallsAndLeases, InvocationIsSound, ActiveIsRegistered,
           NoLeaseAfterReply, CredentialCallHasLease
  <1>2. QED
    BY InvokerInvariance, <1>1, PTL
=============================================================================
