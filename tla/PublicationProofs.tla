-------------------------- MODULE PublicationProofs --------------------------
(***************************************************************************)
(* Proofs about Publication, for every set of runs, targets, checks,       *)
(* batches, processes and operators and every value of the bounds.         *)
(***************************************************************************)
EXTENDS Publication, FiniteSetTheorems, WellFoundedInduction, TLAPS

-----------------------------------------------------------------------------
(* The run log: what appending an event does to what is read from it. *)

RunRow == [run: Runs, state: RunState, at: Nat]

\* The stamps of a run increase in the order its rows were stored.
Ordered(lg) ==
    \A i, j \in DOMAIN lg : i < j /\ lg[i].run = lg[j].run => lg[i].at < lg[j].at

Last(lg, r, i) == i \in RowsOf(lg, r) /\ \A j \in RowsOf(lg, r) : j <= i

\* The rows of a log are typed.
LEMMA RowType ==
    ASSUME NEW lg \in Seq(RunRow), NEW k \in DOMAIN lg
    PROVE  k \in Nat /\ lg[k] \in RunRow /\ lg[k].at \in Nat
  <1>1. k \in Nat /\ lg[k] \in RunRow
    OBVIOUS
  <1>2. QED
    BY <1>1 DEF RunRow

Below == {ss \in Nat \X Nat : ss[1] < ss[2]}

\* A set of indices that is not empty has a greatest one.
LEMMA Greatest ==
    ASSUME NEW n \in Nat, NEW I \in SUBSET (1..n), I # {}
    PROVE  \E i \in I : \A j \in I : j <= i
  <1> DEFINE T == {n - i : i \in I}
  <1>1. T \subseteq Nat /\ T # {}
    <2>1. \A i \in I : n - i \in Nat
      OBVIOUS
    <2>2. QED
      BY <2>1
  <1>2. IsWellFoundedOn(Below, Nat)
    BY NatLessThanWellFounded DEF OpToRel, Below
  <1>3. PICK x \in T : \A y \in T : <<y, x>> \notin Below
    <2> HIDE DEF T
    <2> QED BY <1>1, <1>2, WFMin
  <1>4. PICK i \in I : x = n - i
    BY <1>3
  <1>5. ASSUME NEW j \in I
        PROVE  j <= i
    <2>1. n - j \in T /\ n - j \in Nat /\ n - i \in Nat
      OBVIOUS
    <2>2. ~(n - j < n - i)
      BY <2>1, <1>3, <1>4 DEF Below
    <2>3. QED
      BY <2>2
  <1>6. QED
    BY <1>5

\* So a set of rows that is not empty has a last one.
LEMMA LastRow ==
    ASSUME NEW lg \in Seq(RunRow), NEW I \in SUBSET DOMAIN lg, I # {}
    PROVE  \E i \in I : \A j \in I : j <= i
  <1>1. Len(lg) \in Nat /\ I \in SUBSET (1..Len(lg))
    OBVIOUS
  <1>2. QED
    BY <1>1, Greatest

\* The row with the greatest stamp is the one that the query returns.
LEMMA LatestRowIs ==
    ASSUME NEW lg \in Seq(RunRow), NEW I \in SUBSET DOMAIN lg, NEW i \in I,
           \A j \in I : j # i => lg[j].at < lg[i].at
    PROVE  LatestRow(lg, I) = i
  <1> DEFINE Best(k) == \A j \in I : lg[j].at < lg[k].at \/ (lg[j].at = lg[k].at /\ j <= k)
  <1>0. \A k \in I : k \in Nat /\ lg[k].at \in Nat
    BY RowType
  <1>1. Best(i)
    BY <1>0
  <1>2. \A k \in I : Best(k) => k = i
    BY <1>0
  <1>3. LatestRow(lg, I) = CHOOSE k \in I : Best(k)
    BY DEF LatestRow
  <1> HIDE DEF Best
  <1>4. QED
    BY <1>1, <1>2, <1>3

\* get_run reports the row of the run that was stored last.
LEMMA LastIsReported ==
    ASSUME NEW lg \in Seq(RunRow), Ordered(lg), NEW r \in Runs, NEW i, Last(lg, r, i)
    PROVE  LatestRow(lg, RowsOf(lg, r)) = i /\ get_run(lg, r) = lg[i].state
  <1>1. /\ RowsOf(lg, r) \in SUBSET DOMAIN lg /\ i \in RowsOf(lg, r)
        /\ \A j \in RowsOf(lg, r) : j \in Nat /\ j <= i
    BY DEF RowsOf, Last
  <1>2. \A j \in RowsOf(lg, r) : j # i => lg[j].at < lg[i].at
    BY <1>1 DEF Ordered, RowsOf
  <1>3. LatestRow(lg, RowsOf(lg, r)) = i
    BY <1>1, <1>2, LatestRowIs
  <1>4. QED
    BY <1>1, <1>3 DEF get_run

\* A state other than "missing" that is reported has been stored.
LEMMA ReportedIsStored ==
    ASSUME TypeOK, Ordered(log), NEW r \in Runs, NEW s \in RunState, get_run(log, r) = s
    PROVE  Has(log, r, s)
  <1>1. log \in Seq(RunRow)
    BY DEF TypeOK, RunRow
  <1>2. RowsOf(log, r) # {}
    BY DEF get_run, RunState
  <1>3. PICK i : Last(log, r, i)
    BY <1>1, <1>2, LastRow DEF Last, RowsOf
  <1>4. i \in DOMAIN log /\ log[i].run = r
    BY <1>3 DEF Last, RowsOf
  <1>5. log[i].state = s
    BY <1>1, <1>3, LastIsReported
  <1>6. QED
    BY <1>4, <1>5 DEF Has

\* new is lg with one more row, of run r, later than every row of r.
Extends(lg, new, r, s) ==
    /\ Len(new) = Len(lg) + 1
    /\ \A i \in DOMAIN lg : new[i] = lg[i]
    /\ new[Len(lg) + 1].run = r /\ new[Len(lg) + 1].state = s
    /\ \A i \in RowsOf(lg, r) : lg[i].at < new[Len(lg) + 1].at

\* The stamp of a new event is a later one than all of its run, and is the
\* clock's if that is later.
LEMMA EventTime ==
    ASSUME NEW lg \in Seq(RunRow), Ordered(lg), NEW r \in Runs, NEW n \in Nat
    PROVE  LET at == next_run_event_time(lg, r, n)
           IN  /\ at \in Nat
               /\ \A i \in RowsOf(lg, r) : lg[i].at < at
               /\ (\A i \in RowsOf(lg, r) : lg[i].at < n) => at = n
  <1>1. CASE RowsOf(lg, r) = {}
    BY <1>1 DEF next_run_event_time
  <1>2. CASE RowsOf(lg, r) # {}
    <2>1. PICK i : Last(lg, r, i)
      BY <1>2, LastRow DEF Last, RowsOf
    <2>2. LatestRow(lg, RowsOf(lg, r)) = i
      BY <2>1, LastIsReported
    <2>3. \A j \in RowsOf(lg, r) : j \in Nat /\ lg[j].at \in Nat
      BY RowType DEF RowsOf
    <2>4. \A j \in RowsOf(lg, r) : lg[j].at <= lg[i].at
      BY <2>1, <2>3 DEF Ordered, Last, RowsOf
    <2>5. next_run_event_time(lg, r, n) = IF n > lg[i].at THEN n ELSE lg[i].at + 1
      BY <1>2, <2>2 DEF next_run_event_time
    <2>6. i \in RowsOf(lg, r)
      BY <2>1 DEF Last
    <2>7. QED
      BY <2>3, <2>4, <2>5, <2>6
  <1>3. QED
    BY <1>1, <1>2

\* append_run_event ignores an event that is stored already, and appends any
\* other one.
LEMMA AppendExtends ==
    ASSUME NEW lg \in Seq(RunRow), Ordered(lg), NEW r \in Runs, NEW s \in RunState, NEW n \in Nat
    PROVE  LET new == append_run_event(lg, r, s, n)
           IN  /\ new \in Seq(RunRow)
               /\ Has(lg, r, s) => new = lg
               /\ ~Has(lg, r, s) => Extends(lg, new, r, s)
               /\ ~Has(lg, r, s) /\ (\A i \in RowsOf(lg, r) : lg[i].at < n) => new[Len(lg) + 1].at = n
  <1> DEFINE at == next_run_event_time(lg, r, n)
             e  == RunEvent(r, s, at)
  <1>1. /\ at \in Nat
        /\ \A i \in RowsOf(lg, r) : lg[i].at < at
        /\ (\A i \in RowsOf(lg, r) : lg[i].at < n) => at = n
    BY EventTime
  <1>2. e \in RunRow /\ e.run = r /\ e.state = s /\ e.at = at
    BY <1>1 DEF RunEvent, RunRow
  <1>3. append_run_event(lg, r, s, n) = IF Has(lg, r, s) THEN lg ELSE Append(lg, e)
    BY DEF append_run_event
  <1> HIDE DEF at, e
  <1>4. /\ Append(lg, e) \in Seq(RunRow) /\ Len(Append(lg, e)) = Len(lg) + 1
        /\ \A i \in DOMAIN lg : Append(lg, e)[i] = lg[i]
        /\ Append(lg, e)[Len(lg) + 1] = e
    BY <1>2
  <1>5. QED
    BY <1>1, <1>2, <1>3, <1>4 DEF Extends

\* What is read from a log after one more row.
LEMMA ExtendedLog ==
    ASSUME NEW lg \in Seq(RunRow), Ordered(lg), NEW new \in Seq(RunRow),
           NEW r \in Runs, NEW s \in RunState, Extends(lg, new, r, s)
    PROVE  /\ Ordered(new)
           /\ \A q, x : Has(new, q, x) <=> Has(lg, q, x) \/ (q = r /\ x = s)
           /\ \A q \in Runs : RowsOf(new, q) = IF q = r THEN RowsOf(lg, q) \union {Len(lg) + 1}
                                               ELSE RowsOf(lg, q)
           /\ \A q \in Runs : get_run(new, q) = IF q = r THEN s ELSE get_run(lg, q)
  <1> DEFINE m == Len(lg) + 1
  <1>1. /\ m \in Nat /\ DOMAIN lg = 1..(m - 1) /\ DOMAIN new = 1..m
        /\ DOMAIN new = DOMAIN lg \union {m} /\ m \notin DOMAIN lg
    BY DEF Extends
  <1>2. /\ \A i \in DOMAIN lg : new[i] = lg[i] /\ i < m /\ i \in Nat
        /\ new[m].run = r /\ new[m].state = s
        /\ \A i \in DOMAIN lg : lg[i].run = r => lg[i].at < new[m].at
    BY DEF Extends, RowsOf
  <1> HIDE DEF m
  <1>3. \A q, x : Has(new, q, x) <=> Has(lg, q, x) \/ (q = r /\ x = s)
    BY <1>1, <1>2 DEF Has
  <1>4. \A q \in Runs : RowsOf(new, q) = IF q = r THEN RowsOf(lg, q) \union {m} ELSE RowsOf(lg, q)
    BY <1>1, <1>2 DEF RowsOf
  <1>5. \A i, j \in DOMAIN new : i < j /\ new[i].run = new[j].run => new[i].at < new[j].at
    BY <1>1, <1>2 DEF Ordered
  <1>6. Last(new, r, m)
    <2>1. \A j \in RowsOf(lg, r) : j <= m
      BY <1>1, <1>2 DEF RowsOf
    <2>2. QED
      BY <1>1, <1>4, <2>1 DEF Last
  <1>7. \A q \in Runs : q # r /\ RowsOf(lg, q) # {} => \E i : Last(lg, q, i) /\ Last(new, q, i)
    <2>1. \A q \in Runs : RowsOf(lg, q) \in SUBSET DOMAIN lg
      BY DEF RowsOf
    <2>2. QED
      BY <2>1, <1>4, LastRow DEF Last
  <1>8. Ordered(new)
    BY <1>5 DEF Ordered
  <1>9. get_run(new, r) = s
    BY <1>6, <1>8, <1>2, LastIsReported
  <1>10. ASSUME NEW q \in Runs, q # r
         PROVE  get_run(new, q) = get_run(lg, q)
    <2>1. CASE RowsOf(lg, q) = {}
      BY <1>10, <2>1, <1>4 DEF get_run
    <2>2. CASE RowsOf(lg, q) # {}
      <3>1. PICK i : Last(lg, q, i) /\ Last(new, q, i)
        BY <1>7, <1>10, <2>2
      <3>2. new[i] = lg[i]
        BY <1>2, <3>1 DEF Last, RowsOf
      <3>3. QED
        BY <3>1, <3>2, <1>8, LastIsReported
    <2>3. QED
      BY <2>1, <2>2
  <1>11. QED
    BY <1>3, <1>4, <1>8, <1>9, <1>10 DEF m

\* The certification that is read after one more row, when every stamp in the
\* log is earlier than that of the row.
LEMMA ExtendedCertification ==
    ASSUME NEW lg \in Seq(RunRow), NEW new \in Seq(RunRow),
           NEW r \in Runs, NEW s \in RunState, Extends(lg, new, r, s),
           \A i, j \in DOMAIN lg : i < j => lg[i].at < lg[j].at,
           \A i \in DOMAIN lg : lg[i].at < new[Len(lg) + 1].at,
           NEW S \in SUBSET Runs
    PROVE  get_latest_promoted(new, S, None) =
               IF r \in S /\ s = "PROMOTED" THEN r ELSE get_latest_promoted(lg, S, None)
  <1> DEFINE m == Len(lg) + 1
             Promoted(l) == {i \in DOMAIN l : l[i].run \in S /\ l[i].state = "PROMOTED"}
  <1>1. /\ m \in Nat /\ DOMAIN new = DOMAIN lg \union {m} /\ m \notin DOMAIN lg
        /\ \A i \in DOMAIN lg : new[i] = lg[i]
        /\ new[m].run = r /\ new[m].state = s
        /\ \A i \in DOMAIN lg : lg[i].at < new[m].at
    BY DEF Extends
  <1> HIDE DEF m
  <1>2. CASE r \in S /\ s = "PROMOTED"
    <2>1. Promoted(new) \in SUBSET DOMAIN new /\ m \in Promoted(new)
      BY <1>1, <1>2
    <2>2. \A j \in Promoted(new) : j # m => new[j].at < new[m].at
      BY <1>1
    <2>3. LatestRow(new, Promoted(new)) = m
      <3> HIDE DEF Promoted
      <3> QED BY <2>1, <2>2, LatestRowIs
    <2>4. QED
      BY <1>1, <1>2, <2>1, <2>3 DEF get_latest_promoted
  <1>3. CASE ~(r \in S /\ s = "PROMOTED")
    <2>1. Promoted(new) = Promoted(lg)
      BY <1>1, <1>3
    <2>2. \A i \in Promoted(lg) : new[i] = lg[i] /\ i \in DOMAIN lg
      BY <1>1
    <2>4. CASE Promoted(lg) = {}
      BY <1>3, <2>1, <2>4 DEF get_latest_promoted
    <2>5. CASE Promoted(lg) # {}
      <3>1. PICK i \in Promoted(lg) : \A j \in Promoted(lg) : j <= i
        <4> HIDE DEF Promoted
        <4> QED BY <2>2, <2>5, LastRow
      <3>2. ASSUME NEW j \in Promoted(lg), j # i
            PROVE  lg[j].at < lg[i].at /\ new[j].at < new[i].at
        <4>1. i \in DOMAIN lg /\ j \in DOMAIN lg /\ new[i] = lg[i] /\ new[j] = lg[j]
          BY <2>2
        <4>2. i \in Nat /\ j \in Nat
          BY <4>1, RowType
        <4>3. j < i
          BY <4>2, <3>1, <3>2
        <4>4. QED
          BY <4>1, <4>3
      <3>3. LatestRow(lg, Promoted(lg)) = i /\ LatestRow(new, Promoted(lg)) = i
        <4>1. Promoted(lg) \in SUBSET DOMAIN lg /\ Promoted(lg) \in SUBSET DOMAIN new
          BY <2>2, <1>1
        <4> HIDE DEF Promoted
        <4> QED BY <4>1, <3>1, <3>2, LatestRowIs
      <3>4. /\ get_latest_promoted(new, S, None) = new[i].run
            /\ get_latest_promoted(lg, S, None) = lg[i].run
        BY <2>1, <2>5, <3>3 DEF get_latest_promoted
      <3>5. QED
        BY <3>4, <2>2, <1>3
    <2>6. QED
      BY <2>4, <2>5
  <1>4. QED
    BY <1>2, <1>3

-----------------------------------------------------------------------------
(* The steps of a call, and what each does to the locals of its process.   *)

\* Only the process p moves, and its call stays typed.
Moves(p) ==
    /\ proc' \in [Procs -> Call]
    /\ \A q \in Procs : q # p => proc'[q] = proc[q]

\* p goes on with the same run and batch.
GoesOn(p) ==
    Moves(p) /\ proc'[p].run = proc[p].run /\ proc'[p].batch = proc[p].batch

SameReport(p) == proc'[p].report = proc[p].report

\* p goes on to pc with all its locals.
Turns(p, pc) ==
    /\ GoesOn(p) /\ SameReport(p) /\ proc'[p].pc = pc
    /\ proc'[p].todo = proc[p].todo /\ proc'[p].at = proc[p].at

\* The call of p is over.
Ends(p) == Moves(p) /\ proc'[p].pc = "idle"

\* The locals of a process that is in no call are typed.
LEMMA IdleType == Idle \in Call
  <1>1. Absent \in Incident
    BY DEF Absent, Incident
  <1>2. [id \in IncidentId |-> Absent] \in [IncidentId -> Incident]
    BY <1>1
  <1>3. QED
    BY <1>2 DEF Idle, Call, PC

\* A call that is replaced by another one.
LEMMA CallMoves ==
    ASSUME proc \in [Procs -> Call], NEW p \in Procs, NEW c \in Call,
           proc' = [proc EXCEPT ![p] = c]
    PROVE  Moves(p) /\ proc'[p] = c
  BY DEF Moves

\* Goto changes the program counter only.
LEMMA GotoTurns ==
    ASSUME proc \in [Procs -> Call], NEW p \in Procs, NEW k \in PC, Goto(p, k)
    PROVE  Turns(p, k)
  <1>1. [proc[p] EXCEPT !.pc = k] \in Call
    BY DEF Call
  <1>2. proc' = [proc EXCEPT ![p] = [proc[p] EXCEPT !.pc = k]]
    BY DEF Goto
  <1>3. Moves(p) /\ proc'[p] = [proc[p] EXCEPT !.pc = k]
    BY <1>1, <1>2, CallMoves
  <1>4. QED
    BY <1>3 DEF Turns, GoesOn, SameReport, Call

\* Finish ends the call.
LEMMA FinishEnds ==
    ASSUME proc \in [Procs -> Call], NEW p \in Procs, Finish(p)
    PROVE  Ends(p)
  <1>1. Moves(p) /\ proc'[p] = Idle
    BY IdleType, CallMoves DEF Finish
  <1>2. QED
    BY <1>1 DEF Ends, Idle

\* publish starts with the batch that it is given, resume with none.
LEMMA PublishMoves ==
    ASSUME proc \in [Procs -> Call], NEW p \in Procs, NEW r \in Runs, NEW b \in Batches,
           proc' = [proc EXCEPT ![p] = [Idle EXCEPT !.pc = "staging", !.run = r, !.batch = b]]
    PROVE  /\ Moves(p) /\ proc'[p].pc = "staging"
           /\ proc'[p].run = r /\ proc'[p].batch = b
  <1> DEFINE c == [Idle EXCEPT !.pc = "staging", !.run = r, !.batch = b]
  <1>1. c \in Call /\ c.pc = "staging" /\ c.run = r /\ c.batch = b
    BY IdleType DEF Call, PC
  <1>2. QED
    BY <1>1, CallMoves

\* resume starts a call of its own, at the promotion.
LEMMA ResumeMoves ==
    ASSUME proc \in [Procs -> Call], NEW p \in Procs, NEW r \in Runs,
           proc' = [proc EXCEPT ![p] = [Idle EXCEPT !.pc = "promote", !.run = r]]
    PROVE  Moves(p) /\ proc'[p].pc = "promote" /\ proc'[p].run = r
  <1> DEFINE c == [Idle EXCEPT !.pc = "promote", !.run = r]
  <1>1. c \in Call /\ c.pc = "promote" /\ c.run = r
    BY IdleType DEF Call, PC
  <1>2. QED
    BY <1>1, CallMoves

\* The steps that touch other locals.
LEMMA CheckMoves ==
    ASSUME proc \in [Procs -> Call], NEW p \in Procs, CheckStaging(p)
    PROVE  /\ GoesOn(p) /\ proc'[p].pc = "record" /\ proc'[p].todo = Checks
           /\ IF staging[proc[p].run] = None THEN proc'[p].report = Checks
              ELSE Fails[staging[proc[p].run]] \subseteq proc'[p].report
  <1>1. PICK failed \in SUBSET Checks :
           /\ IF staging[proc[p].run] = None THEN failed = Checks
              ELSE Fails[staging[proc[p].run]] \subseteq failed
           /\ proc' = [proc EXCEPT ![p].pc = "record", ![p].report = failed, ![p].todo = Checks]
    BY DEF CheckStaging
  <1> DEFINE c == [proc[p] EXCEPT !.pc = "record", !.report = failed, !.todo = Checks]
  <1>2. /\ c \in Call /\ c.pc = "record" /\ c.report = failed /\ c.todo = Checks
        /\ c.run = proc[p].run /\ c.batch = proc[p].batch
    BY DEF Call, PC
  <1>3. proc' = [proc EXCEPT ![p] = c]
    BY <1>1
  <1>4. QED
    BY <1>1, <1>2, <1>3, CallMoves DEF GoesOn

\* A call that records check results goes on until none is left, and stores
\* each outcome at most once.
LEMMA RecordMoves ==
    ASSUME proc \in [Procs -> Call], NEW p \in Procs, RecordChecks(p)
    PROVE  /\ GoesOn(p) /\ SameReport(p)
           /\ proc'[p].pc = IF proc'[p].todo = {} THEN Decision(p) ELSE "record"
           /\ proc'[p].todo \subseteq proc[p].todo
           /\ check' = [check EXCEPT ![proc[p].run] = [k \in Checks |->
                  IF k \in proc[p].todo \ proc'[p].todo /\ @[k] = "none" THEN Outcome(p, k) ELSE @[k]]]
  <1>1. PICK batch \in SUBSET proc[p].todo :
           /\ check' = [check EXCEPT ![proc[p].run] = [k \in Checks |->
                  IF k \in batch /\ @[k] = "none" THEN Outcome(p, k) ELSE @[k]]]
           /\ proc' = [proc EXCEPT ![p].todo = @ \ batch,
                                   ![p].pc = IF proc[p].todo = batch THEN Decision(p) ELSE @]
    BY DEF RecordChecks
  <1> DEFINE left == proc[p].todo \ batch
             c == [proc[p] EXCEPT !.todo = left,
                                  !.pc = IF proc[p].todo = batch THEN Decision(p) ELSE "record"]
  <1>2. Decision(p) \in PC /\ left \in SUBSET Checks
    BY DEF Decision, PC, Call
  <1>3. /\ c \in Call /\ c.todo = left /\ c.report = proc[p].report
        /\ c.pc = IF left = {} THEN Decision(p) ELSE "record"
        /\ c.run = proc[p].run /\ c.batch = proc[p].batch
    BY <1>2 DEF Call, PC
  <1>4. proc' = [proc EXCEPT ![p] = c]
    BY <1>1 DEF RecordChecks
  <1>5. batch = proc[p].todo \ left
    OBVIOUS
  <1> HIDE DEF c
  <1>6. Moves(p) /\ proc'[p] = c
    BY <1>3, <1>4, CallMoves
  <1>7. GoesOn(p) /\ SameReport(p) /\ proc'[p].todo = left
        /\ proc'[p].pc = IF left = {} THEN Decision(p) ELSE "record"
    BY <1>3, <1>6 DEF GoesOn, SameReport
  <1>8. proc[p].todo \ proc'[p].todo = batch
    BY <1>5, <1>7
  <1>9. QED
    BY <1>1, <1>7, <1>8

\* After the staging table is dropped, an incident is due for each failed check.
LEMMA DropQuarantinedMoves ==
    ASSUME proc \in [Procs -> Call], NEW p \in Procs, DropQuarantined(p)
    PROVE  /\ GoesOn(p) /\ SameReport(p) /\ proc'[p].pc = "open_incident"
           /\ proc'[p].todo = proc[p].report
  <1> DEFINE c == [proc[p] EXCEPT !.pc = "open_incident", !.todo = proc[p].report]
  <1>1. /\ c \in Call /\ c.pc = "open_incident" /\ c.todo = proc[p].report
        /\ c.report = proc[p].report /\ c.run = proc[p].run /\ c.batch = proc[p].batch
    BY DEF Call, PC
  <1>2. proc' = [proc EXCEPT ![p] = c]
    BY DEF DropQuarantined
  <1> QED
    BY <1>1, <1>2, CallMoves DEF GoesOn, SameReport

\* A check that has an open incident is passed over; one that has none gets one
\* in the next statement; after the last the call ends.
LEMMA OpenMoves ==
    ASSUME proc \in [Procs -> Call], NEW p \in Procs, OpenIncident(p)
    PROVE  \/ Ends(p)
           \/ /\ GoesOn(p) /\ SameReport(p)
              /\ \/ /\ proc'[p].pc = "insert_incident" /\ proc'[p].todo = proc[p].todo
                    /\ proc'[p].at \in proc[p].todo
                    /\ get_open_incident(TargetOf[proc[p].run], proc'[p].at) = {}
                 \/ /\ proc'[p].pc = "open_incident" /\ proc'[p].todo \subseteq proc[p].todo
  <1>1. ASSUME NEW k \in proc[p].todo,
               get_open_incident(TargetOf[proc[p].run], k) = {},
               proc' = [proc EXCEPT ![p].pc = "insert_incident", ![p].at = k]
        PROVE  /\ GoesOn(p) /\ SameReport(p)
               /\ proc'[p].pc = "insert_incident" /\ proc'[p].todo = proc[p].todo
               /\ proc'[p].at = k
    <2> DEFINE c == [proc[p] EXCEPT !.pc = "insert_incident", !.at = k]
    <2>1. /\ c \in Call /\ c.pc = "insert_incident" /\ c.at = k /\ c.todo = proc[p].todo
          /\ c.report = proc[p].report /\ c.run = proc[p].run /\ c.batch = proc[p].batch
      BY DEF Call, PC
    <2>2. proc' = [proc EXCEPT ![p] = c]
      BY <1>1
    <2> QED
      BY <2>1, <2>2, CallMoves DEF GoesOn, SameReport
  <1>2. ASSUME NEW k \in proc[p].todo, proc[p].pc = "open_incident",
               proc' = [proc EXCEPT ![p].todo = @ \ {k}]
        PROVE  /\ GoesOn(p) /\ SameReport(p)
               /\ proc'[p].pc = "open_incident" /\ proc'[p].todo \subseteq proc[p].todo
    <2> DEFINE c == [proc[p] EXCEPT !.todo = proc[p].todo \ {k}]
    <2>1. /\ c \in Call /\ c.pc = "open_incident" /\ c.todo \subseteq proc[p].todo
          /\ c.report = proc[p].report /\ c.run = proc[p].run /\ c.batch = proc[p].batch
      BY <1>2 DEF Call, PC
    <2>2. proc' = [proc EXCEPT ![p] = c]
      BY <1>2
    <2> QED
      BY <2>1, <2>2, CallMoves DEF GoesOn, SameReport
  <1>3. QED
    BY <1>1, <1>2, FinishEnds DEF OpenIncident

\* An incident that was inserted is no longer due.
LEMMA InsertMoves ==
    ASSUME proc \in [Procs -> Call], NEW p \in Procs, InsertNewIncident(p)
    PROVE  /\ GoesOn(p) /\ SameReport(p)
           /\ proc'[p].pc = "open_incident" /\ proc'[p].todo \subseteq proc[p].todo
  <1> DEFINE c == [proc[p] EXCEPT !.pc = "open_incident", !.todo = proc[p].todo \ {proc[p].at},
                                  !.at = None]
  <1>1. /\ c \in Call /\ c.pc = "open_incident" /\ c.todo \subseteq proc[p].todo
        /\ c.report = proc[p].report /\ c.run = proc[p].run /\ c.batch = proc[p].batch
    BY DEF Call, PC
  <1>2. proc' = [proc EXCEPT ![p] = c]
    BY DEF InsertNewIncident
  <1> QED
    BY <1>1, <1>2, CallMoves DEF GoesOn, SameReport

\* A promotion resolves what it listed, and it lists incidents that exist.
LEMMA ListMoves ==
    ASSUME proc \in [Procs -> Call], incident \in [IncidentId -> Incident],
           NEW p \in Procs, ListOpen(p)
    PROVE  /\ GoesOn(p) /\ proc'[p].pc = "resolve_write"
           /\ \A id \in IncidentId : proc'[p].listed[id] # Absent => incident[id] # Absent
  <1> DEFINE open == list_open_incidents(TargetOf[proc[p].run])
             rows == [id \in IncidentId |-> IF id \in open THEN incident[id] ELSE Absent]
             c == [proc[p] EXCEPT !.pc = "resolve_write", !.listed = rows]
  <1>1. rows \in [IncidentId -> Incident]
    <2>1. Absent \in Incident
      BY DEF Absent, Incident
    <2>2. QED
      BY <2>1
  <1>2. proc' = [proc EXCEPT ![p] = c]
    BY DEF ListOpen
  <1>3. \A id \in IncidentId : rows[id] # Absent => incident[id] # Absent
    OBVIOUS
  <1> HIDE DEF rows
  <1>4. /\ c \in Call /\ c.pc = "resolve_write" /\ c.listed = rows
        /\ c.run = proc[p].run /\ c.batch = proc[p].batch
    BY <1>1 DEF Call, PC
  <1> HIDE DEF c
  <1> QED
    BY <1>2, <1>3, <1>4, CallMoves DEF GoesOn

-----------------------------------------------------------------------------
(* Type correctness, with the order of the log and what a call works on.   *)

Busy ==
    \A p \in Procs :
        /\ proc[p].pc # "idle" => proc[p].run \in Runs
        /\ proc[p].pc \in {"staging", "write_staging"} => proc[p].batch \in Batches
        /\ proc[p].pc = "insert_incident" => proc[p].at \in Checks

TypeInv == TypeOK /\ Ordered(log) /\ Busy

\* What is read from the log after the event s of run r.
Stores(r, s) ==
    /\ log' \in Seq(RunRow) /\ Ordered(log')
    /\ \A q, x : Has(log', q, x) <=> Has(log, q, x) \/ (q = r /\ x = s)
    /\ \A q \in Runs : get_run(log', q) = IF q = r /\ ~Has(log, r, s) THEN s ELSE get_run(log, q)
    /\ \A q \in Runs \ {r} : RowsOf(log', q) = RowsOf(log, q)

\* A transition that is logged is stored once and is the run's latest.
LEMMA LogRunStores ==
    ASSUME TypeInv, NEW r \in Runs, NEW s \in RunState, LogRun(r, s)
    PROVE  Stores(r, s) /\ now' \in Nat /\ check' = check /\ aborts' = aborts
  <1>1. log \in Seq(RunRow) /\ Ordered(log) /\ now \in Nat
    BY DEF TypeInv, TypeOK, RunRow
  <1>2. log' = append_run_event(log, r, s, now)
    BY DEF LogRun
  <1>3. /\ log' \in Seq(RunRow)
        /\ Has(log, r, s) => log' = log
        /\ ~Has(log, r, s) => Extends(log, log', r, s)
    BY <1>1, <1>2, AppendExtends
  <1>4. now' \in Nat /\ check' = check /\ aborts' = aborts
    BY <1>1 DEF LogRun
  <1>5. CASE Has(log, r, s)
    BY <1>1, <1>3, <1>4, <1>5 DEF Stores
  <1>6. CASE ~Has(log, r, s)
    <2>1. /\ Ordered(log')
          /\ \A q, x : Has(log', q, x) <=> Has(log, q, x) \/ (q = r /\ x = s)
          /\ \A q \in Runs : RowsOf(log', q) = IF q = r THEN RowsOf(log, q) \union {Len(log) + 1}
                                               ELSE RowsOf(log, q)
          /\ \A q \in Runs : get_run(log', q) = IF q = r THEN s ELSE get_run(log, q)
      BY <1>1, <1>3, <1>6, ExtendedLog
    <2>2. QED
      BY <1>3, <1>4, <1>6, <2>1 DEF Stores
  <1>7. QED
    BY <1>5, <1>6

\* A call in progress works on a run.
LEMMA RunOfCall ==
    ASSUME TypeInv, NEW p \in Procs, proc[p].pc # "idle"
    PROVE  proc[p].run \in Runs
  BY DEF TypeInv, Busy

\* A call logs for its own run.
LEMMA LogStores ==
    ASSUME TypeInv, NEW p \in Procs, proc[p].pc # "idle", NEW s \in RunState, Log(p, s)
    PROVE  Stores(proc[p].run, s) /\ now' \in Nat /\ UNCHANGED <<check, aborts, published>>
  BY RunOfCall, LogRunStores DEF Log

\* append_check_results stores an outcome once, and touches one run only.
LEMMA RecordStores ==
    ASSUME TypeInv, NEW p \in Procs, RecordChecks(p)
    PROVE  LET r == proc[p].run
               new == proc[p].todo \ proc'[p].todo
           IN  /\ check' \in [Runs -> [Checks -> {"none", "PASS", "FAIL"}]]
               /\ \A q \in Runs \ {r} : check'[q] = check[q]
               /\ \A k \in Checks : check'[r][k] =
                      IF k \in new /\ check[r][k] = "none" THEN Outcome(p, k) ELSE check[r][k]
  <1> DEFINE r == proc[p].run
             new == proc[p].todo \ proc'[p].todo
             row == [k \in Checks |-> IF k \in new /\ check[r][k] = "none" THEN Outcome(p, k)
                                                                        ELSE check[r][k]]
  <1>1. /\ check \in [Runs -> [Checks -> {"none", "PASS", "FAIL"}]]
        /\ r \in Runs /\ proc \in [Procs -> Call]
    BY RunOfCall DEF TypeInv, TypeOK, RecordChecks
  <1>2. check' = [check EXCEPT ![r] = row]
    BY <1>1, RecordMoves
  <1>3. \A k \in Checks : Outcome(p, k) \in {"PASS", "FAIL"}
    BY DEF Outcome
  <1>4. row \in [Checks -> {"none", "PASS", "FAIL"}]
    BY <1>1, <1>3
  <1>5. \A k \in Checks : row[k] = IF k \in new /\ check[r][k] = "none" THEN Outcome(p, k) ELSE check[r][k]
    OBVIOUS
  <1> HIDE DEF row, new, r
  <1>6. /\ check' \in [Runs -> [Checks -> {"none", "PASS", "FAIL"}]]
        /\ \A q \in Runs \ {r} : check'[q] = check[q]
        /\ check'[r] = row
    BY <1>1, <1>2, <1>4
  <1>7. QED
    BY <1>5, <1>6 DEF row, new, r

\* A call that goes on still has its run, its batch and its check.
LEMMA BusyGoesOn ==
    ASSUME TypeInv, NEW p \in Procs, GoesOn(p), proc[p].pc # "idle",
           proc'[p].pc \in {"staging", "write_staging"} => proc[p].pc \in {"staging", "write_staging"},
           proc'[p].pc = "insert_incident" => proc'[p].at \in Checks
    PROVE  Busy'
  BY DEF TypeInv, Busy, GoesOn, Moves

\* A call that ends needs none of them.
LEMMA BusyEnds ==
    ASSUME TypeInv, NEW p \in Procs, Ends(p)
    PROVE  Busy'
  BY DEF TypeInv, Busy, Ends, Moves

\* A row of an incident that changes status or cause stays typed.
LEMMA TransitionType ==
    ASSUME NEW row \in Incident, NEW s \in IncidentStatus, NEW c \in {None, "recovered", "operator"}
    PROVE  Transition(row, s, c) \in Incident
  <1>1. row.cause \in {None, "recovered", "operator"}
    BY DEF Incident
  <1>2. QED
    BY <1>1 DEF Transition, Incident

\* Resolving the listed incidents keeps the table typed.
LEMMA ResolveType ==
    ASSUME TypeOK, NEW listed \in [IncidentId -> Incident], ResolveListed(listed)
    PROVE  incident' \in [IncidentId -> Incident]
  <1>1. \A id \in IncidentId : Transition(listed[id], "RESOLVED", "recovered") \in Incident
    BY TransitionType DEF IncidentStatus
  <1>2. \A id \in IncidentId : incident[id] \in Incident
    BY DEF TypeOK, TypeOKIncidents
  <1>3. QED
    BY <1>1, <1>2 DEF ResolveListed

\* An operator's command keeps the incidents and the commands typed.
LEMMA OperatorType ==
    ASSUME TypeOK, NEW o \in Operators, CommandRead(o) \/ CommandWrite(o)
    PROVE  TypeOKIncidents'
  <1>1. /\ incident \in [IncidentId -> Incident] /\ command \in [Operators -> Command]
        /\ Absent \in Incident
    BY DEF TypeOK, TypeOKIncidents, Absent, Incident
  <1>2. ASSUME CommandRead(o)
        PROVE  TypeOKIncidents'
    <2>1. PICK id \in IncidentId, status \in IncidentStatus :
             /\ incident' = incident
             /\ command' = [command EXCEPT ![o] =
                    [id |-> id, row |-> Transition(incident[id], status,
                                          IF status = "RESOLVED" THEN "operator" ELSE None)]]
      BY <1>2 DEF CommandRead
    <2> DEFINE row == Transition(incident[id], status, IF status = "RESOLVED" THEN "operator" ELSE None)
    <2>2. row \in Incident
      BY <1>1, TransitionType
    <2> HIDE DEF row
    <2>3. [id |-> id, row |-> row] \in Command
      BY <2>2 DEF Command
    <2>4. command' = [command EXCEPT ![o] = [id |-> id, row |-> row]]
      BY <2>1 DEF row
    <2> QED
      BY <1>1, <2>1, <2>3, <2>4 DEF TypeOKIncidents
  <1>3. ASSUME CommandWrite(o)
        PROVE  TypeOKIncidents'
    <2>1. command[o] \in Command
      BY <1>1
    <2>2. command[o].row \in Incident /\ command[o].id \in IncidentId
      BY <1>3, <2>1 DEF Command, CommandWrite
    <2>3. [id |-> None, row |-> Absent] \in Command
      BY <1>1 DEF Command
    <2>4. /\ incident' = [incident EXCEPT ![command[o].id] = command[o].row]
          /\ command' = [command EXCEPT ![o] = [id |-> None, row |-> Absent]]
      BY <1>3 DEF CommandWrite
    <2> QED
      BY <1>1, <2>2, <2>3, <2>4 DEF TypeOKIncidents
  <1>4. QED
    BY <1>2, <1>3

\* The warehouse and the counters, apart from the log and the processes.
StoreType ==
    /\ check \in [Runs -> [Checks -> {"none", "PASS", "FAIL"}]]
    /\ staging \in [Runs -> Batches \union {None}]
    /\ quarantine \in [Runs -> Batches \union {None}]
    /\ table \in [Targets -> Rows]
    /\ published \in [Runs -> Nat] /\ aborts \in Nat /\ now \in Nat
    /\ TypeOKIncidents

\* The type invariant, split into the parts that the steps change.
LEMMA TypeParts ==
    TypeInv <=> log \in Seq(RunRow) /\ Ordered(log) /\ proc \in [Procs -> Call] /\ StoreType /\ Busy
  BY DEF TypeInv, TypeOK, StoreType, RunRow

\* Whoever keeps the parts keeps the type invariant.
LEMMA TypePartsNext ==
    ASSUME log' \in Seq(RunRow), Ordered(log'), proc' \in [Procs -> Call], StoreType', Busy'
    PROVE  TypeInv'
  BY DEF TypeInv, TypeOK, StoreType, RunRow

\* Every step of a call keeps the invariant.
LEMMA StepType ==
    ASSUME TypeInv, NEW p \in Procs, Step(p)
    PROVE  TypeInv'
  <1>0. /\ log \in Seq(RunRow) /\ Ordered(log) /\ proc \in [Procs -> Call] /\ StoreType /\ Busy
        /\ TypeOK
    BY TypeParts DEF TypeInv
  <1> USE DEF warehouse, store, counters, incidentVars, PC, RunState
  <1>1. CASE LogStaging(p)
    <2>1. Turns(p, "write_staging") /\ proc[p].pc = "staging"
      BY <1>0, <1>1, GotoTurns DEF LogStaging
    <2>2. Stores(proc[p].run, "STAGING") /\ now' \in Nat /\ UNCHANGED <<check, aborts, published>>
      BY <1>1, LogStores DEF LogStaging
    <2>3. StoreType'
      BY <1>0, <1>1, <2>2 DEF LogStaging, StoreType, TypeOKIncidents
    <2>4. Busy'
      BY <2>1, BusyGoesOn DEF Turns
    <2>5. QED
      BY <2>1, <2>2, <2>3, <2>4, TypePartsNext DEF Stores, Turns, GoesOn, Moves
  <1>2. CASE WriteStaging(p)
    <2>1. Turns(p, "staged") /\ proc[p].pc = "write_staging"
      BY <1>0, <1>2, GotoTurns DEF WriteStaging
    <2>2. StoreType'
      <3>1. proc[p].run \in Runs /\ proc[p].batch \in Batches
        BY <1>0, <2>1 DEF Busy
      <3>2. QED
        BY <1>0, <1>2, <3>1 DEF WriteStaging, StoreType, TypeOKIncidents
    <2>3. Busy'
      BY <2>1, BusyGoesOn DEF Turns
    <2>4. QED
      BY <1>0, <1>2, <2>1, <2>2, <2>3, TypePartsNext DEF WriteStaging, Turns, GoesOn, Moves
  <1>3. CASE LogStaged(p)
    <2>1. Turns(p, "check") /\ proc[p].pc = "staged"
      BY <1>0, <1>3, GotoTurns DEF LogStaged
    <2>2. Stores(proc[p].run, "STAGED") /\ now' \in Nat /\ UNCHANGED <<check, aborts, published>>
      BY <1>3, LogStores DEF LogStaged
    <2>3. StoreType'
      BY <1>0, <1>3, <2>2 DEF LogStaged, StoreType, TypeOKIncidents
    <2>4. Busy'
      BY <2>1, BusyGoesOn DEF Turns
    <2>5. QED
      BY <2>1, <2>2, <2>3, <2>4, TypePartsNext DEF Stores, Turns, GoesOn, Moves
  <1>4. CASE CheckStaging(p)
    <2>1. GoesOn(p) /\ proc'[p].pc = "record" /\ proc[p].pc = "check"
      BY <1>0, <1>4, CheckMoves DEF CheckStaging
    <2>2. log' = log /\ StoreType'
      BY <1>0, <1>4 DEF CheckStaging, StoreType, TypeOKIncidents
    <2>3. Busy'
      BY <2>1, BusyGoesOn
    <2>4. QED
      BY <1>0, <2>1, <2>2, <2>3, TypePartsNext DEF GoesOn, Moves
  <1>5. CASE RecordChecks(p)
    <2>1. /\ GoesOn(p) /\ proc'[p].pc \in {"record", "promote", "quarantine"}
          /\ proc[p].pc = "record" /\ log' = log
      BY <1>0, <1>5, RecordMoves DEF RecordChecks, Decision
    <2>2. StoreType'
      <3>1. check' \in [Runs -> [Checks -> {"none", "PASS", "FAIL"}]]
        BY <1>5, RecordStores
      <3>2. QED
        BY <1>0, <1>5, <3>1 DEF RecordChecks, StoreType, TypeOKIncidents
    <2>3. Busy'
      BY <2>1, BusyGoesOn
    <2>4. QED
      BY <1>0, <2>1, <2>2, <2>3, TypePartsNext DEF GoesOn, Moves
  <1>6. CASE Quarantine(p)
    <2>1. proc[p].pc = "quarantine" /\ proc[p].run \in Runs
      BY <1>6, RunOfCall DEF Quarantine
    <2>2. CASE Goto(p, "quarantined") /\ quarantine' = [quarantine EXCEPT ![proc[p].run] = staging[proc[p].run]]
               /\ UNCHANGED <<store, counters>>
      <3>1. Turns(p, "quarantined")
        BY <1>0, <2>2, GotoTurns
      <3>2. log' = log /\ StoreType'
        BY <1>0, <1>6, <2>1, <2>2 DEF Quarantine, StoreType, TypeOKIncidents
      <3>3. Busy'
        BY <2>1, <3>1, BusyGoesOn DEF Turns
      <3>4. QED
        BY <1>0, <3>1, <3>2, <3>3, TypePartsNext DEF Turns, GoesOn, Moves
    <2>3. CASE Log(p, "CHECK_ERROR") /\ Finish(p) /\ UNCHANGED quarantine
      <3>1. Ends(p)
        BY <1>0, <2>3, FinishEnds
      <3>2. Stores(proc[p].run, "CHECK_ERROR") /\ now' \in Nat /\ UNCHANGED <<check, aborts, published>>
        BY <2>1, <2>3, LogStores
      <3>3. StoreType'
        BY <1>0, <1>6, <2>3, <3>2 DEF Quarantine, StoreType, TypeOKIncidents
      <3>4. Busy'
        BY <3>1, BusyEnds
      <3>5. QED
        BY <3>1, <3>2, <3>3, <3>4, TypePartsNext DEF Stores, Ends, Moves
    <2>4. QED
      BY <1>6, <2>2, <2>3 DEF Quarantine
  <1>7. CASE LogQuarantined(p)
    <2>1. Turns(p, "quarantine_drop") /\ proc[p].pc = "quarantined"
      BY <1>0, <1>7, GotoTurns DEF LogQuarantined
    <2>2. Stores(proc[p].run, "QUARANTINED") /\ now' \in Nat /\ UNCHANGED <<check, aborts, published>>
      BY <1>7, LogStores DEF LogQuarantined
    <2>3. StoreType'
      BY <1>0, <1>7, <2>2 DEF LogQuarantined, StoreType, TypeOKIncidents
    <2>4. Busy'
      BY <2>1, BusyGoesOn DEF Turns
    <2>5. QED
      BY <2>1, <2>2, <2>3, <2>4, TypePartsNext DEF Stores, Turns, GoesOn, Moves
  <1>8. CASE DropQuarantined(p)
    <2>1. GoesOn(p) /\ proc'[p].pc = "open_incident" /\ proc[p].pc = "quarantine_drop"
      BY <1>0, <1>8, DropQuarantinedMoves DEF DropQuarantined
    <2>2. log' = log /\ StoreType'
      BY <1>0, <1>8 DEF DropQuarantined, StoreType, TypeOKIncidents
    <2>3. Busy'
      BY <2>1, BusyGoesOn
    <2>4. QED
      BY <1>0, <2>1, <2>2, <2>3, TypePartsNext DEF GoesOn, Moves
  <1>9. CASE OpenIncident(p)
    <2>1. log' = log /\ StoreType' /\ proc[p].pc = "open_incident" /\ proc[p].todo \subseteq Checks
      BY <1>0, <1>9 DEF OpenIncident, StoreType, TypeOKIncidents, Call
    <2>2. CASE Ends(p)
      BY <1>0, <2>1, <2>2, BusyEnds, TypePartsNext DEF Ends, Moves
    <2>3. CASE GoesOn(p) /\ (\/ proc'[p].pc = "insert_incident" /\ proc'[p].at \in proc[p].todo
                             \/ proc'[p].pc = "open_incident")
      <3>1. Busy'
        BY <2>1, <2>3, BusyGoesOn
      <3>2. QED
        BY <1>0, <2>1, <2>3, <3>1, TypePartsNext DEF GoesOn, Moves
    <2>4. QED
      BY <1>0, <1>9, <2>2, <2>3, OpenMoves
  <1>10. CASE InsertNewIncident(p)
    <2>1. GoesOn(p) /\ proc'[p].pc = "open_incident" /\ proc[p].pc = "insert_incident"
      BY <1>0, <1>10, InsertMoves DEF InsertNewIncident
    <2>2. incident' \in [IncidentId -> Incident]
      <3>1. NewIncident \in Incident
        BY DEF NewIncident, Incident, IncidentStatus
      <3>2. QED
        BY <1>0, <1>10, <3>1 DEF InsertNewIncident, InsertIncident, StoreType, TypeOKIncidents
    <2>3. log' = log /\ StoreType'
      BY <1>0, <1>10, <2>2 DEF InsertNewIncident, StoreType, TypeOKIncidents
    <2>4. Busy'
      BY <2>1, BusyGoesOn
    <2>5. QED
      BY <1>0, <2>1, <2>3, <2>4, TypePartsNext DEF GoesOn, Moves
  <1>11. CASE Promote(p)
    <2>1. log' = log /\ StoreType' /\ proc[p].pc = "promote"
      BY <1>0, <1>11 DEF Promote, StoreType, TypeOKIncidents
    <2>2. Ends(p) \/ Turns(p, "promote_drop") \/ Turns(p, "promoting")
      BY <1>0, <1>11, FinishEnds, GotoTurns DEF Promote
    <2>3. CASE Ends(p)
      BY <1>0, <2>1, <2>3, BusyEnds, TypePartsNext DEF Ends, Moves
    <2>4. CASE GoesOn(p) /\ proc'[p].pc \in {"promote_drop", "promoting"}
      <3>1. Busy'
        BY <2>1, <2>4, BusyGoesOn
      <3>2. QED
        BY <1>0, <2>1, <2>4, <3>1, TypePartsNext DEF GoesOn, Moves
    <2>5. QED
      BY <2>2, <2>3, <2>4 DEF Turns
  <1>12. CASE LogPromoting(p)
    <2>1. Turns(p, "write_table") /\ proc[p].pc = "promoting"
      BY <1>0, <1>12, GotoTurns DEF LogPromoting
    <2>2. Stores(proc[p].run, "PROMOTING") /\ now' \in Nat /\ UNCHANGED <<check, aborts, published>>
      BY <1>12, LogStores DEF LogPromoting
    <2>3. StoreType'
      BY <1>0, <1>12, <2>2 DEF LogPromoting, StoreType, TypeOKIncidents
    <2>4. Busy'
      BY <2>1, BusyGoesOn DEF Turns
    <2>5. QED
      BY <2>1, <2>2, <2>3, <2>4, TypePartsNext DEF Stores, Turns, GoesOn, Moves
  <1>13. CASE WriteTable(p)
    <2>1. proc[p].pc = "write_table" /\ proc[p].run \in Runs /\ log' = log
      BY <1>13, RunOfCall DEF WriteTable
    <2>2. StoreType'
      <3>1. [batch |-> staging[proc[p].run], run |-> proc[p].run] \in Rows
        BY <1>0, <2>1 DEF StoreType, Rows
      <3>2. table' \in [Targets -> Rows]
        BY <1>0, <1>13, <3>1 DEF WriteTable, StoreType
      <3>3. QED
        BY <1>0, <1>13, <3>2 DEF WriteTable, StoreType, TypeOKIncidents
    <2>3. Ends(p) \/ Turns(p, "promoted")
      BY <1>0, <1>13, FinishEnds, GotoTurns DEF WriteTable
    <2>4. CASE Ends(p)
      BY <1>0, <2>1, <2>2, <2>4, BusyEnds, TypePartsNext DEF Ends, Moves
    <2>5. CASE Turns(p, "promoted")
      <3>1. Busy'
        BY <2>1, <2>5, BusyGoesOn DEF Turns
      <3>2. QED
        BY <1>0, <2>1, <2>2, <2>5, <3>1, TypePartsNext DEF Turns, GoesOn, Moves
    <2>6. QED
      BY <2>3, <2>4, <2>5
  <1>14. CASE LogPromoted(p)
    <2>1. Turns(p, "promote_drop") /\ proc[p].pc = "promoted"
      BY <1>0, <1>14, GotoTurns DEF LogPromoted
    <2>2. Stores(proc[p].run, "PROMOTED") /\ now' \in Nat /\ UNCHANGED <<check, aborts, published>>
      BY <1>14, LogStores DEF LogPromoted
    <2>3. StoreType'
      BY <1>0, <1>14, <2>2 DEF LogPromoted, StoreType, TypeOKIncidents
    <2>4. Busy'
      BY <2>1, BusyGoesOn DEF Turns
    <2>5. QED
      BY <2>1, <2>2, <2>3, <2>4, TypePartsNext DEF Stores, Turns, GoesOn, Moves
  <1>15. CASE DropPromoted(p)
    <2>1. Turns(p, "resolve") /\ proc[p].pc = "promote_drop"
      BY <1>0, <1>15, GotoTurns DEF DropPromoted
    <2>2. log' = log /\ StoreType'
      BY <1>0, <1>15 DEF DropPromoted, StoreType, TypeOKIncidents
    <2>3. Busy'
      BY <2>1, BusyGoesOn DEF Turns
    <2>4. QED
      BY <1>0, <2>1, <2>2, <2>3, TypePartsNext DEF Turns, GoesOn, Moves
  <1>16. CASE ListOpen(p)
    <2>1. GoesOn(p) /\ proc'[p].pc = "resolve_write" /\ proc[p].pc = "resolve"
      BY <1>0, <1>16, ListMoves DEF ListOpen, StoreType, TypeOKIncidents
    <2>2. log' = log /\ StoreType'
      BY <1>0, <1>16 DEF ListOpen, StoreType, TypeOKIncidents
    <2>3. Busy'
      BY <2>1, BusyGoesOn
    <2>4. QED
      BY <1>0, <2>1, <2>2, <2>3, TypePartsNext DEF GoesOn, Moves
  <1>17. CASE ResolveRecovered(p)
    <2>1. Ends(p) /\ log' = log
      BY <1>0, <1>17, FinishEnds DEF ResolveRecovered
    <2>2. proc[p].listed \in [IncidentId -> Incident]
      BY <1>0 DEF Call
    <2>3. incident' \in [IncidentId -> Incident]
      BY <1>0, <1>17, <2>2, ResolveType DEF ResolveRecovered
    <2>4. StoreType'
      BY <1>0, <1>17, <2>3 DEF ResolveRecovered, StoreType, TypeOKIncidents
    <2>5. QED
      BY <1>0, <2>1, <2>4, BusyEnds, TypePartsNext DEF Ends, Moves
  <1>18. QED
    BY <1>1, <1>2, <1>3, <1>4, <1>5, <1>6, <1>7, <1>8, <1>9, <1>10, <1>11, <1>12, <1>13,
       <1>14, <1>15, <1>16, <1>17 DEF Step

\* Publish starts a call and logs it.
LEMMA PublishType ==
    ASSUME TypeInv, NEW p \in Procs, Publish(p)
    PROVE  /\ TypeInv'
           /\ \E r \in Runs, b \in Batches :
                 /\ proc[p].pc = "idle" /\ published[r] < MaxPublish
                 /\ published' = [published EXCEPT ![r] = @ + 1]
                 /\ Moves(p) /\ proc'[p].pc = "staging" /\ proc'[p].run = r /\ proc'[p].batch = b
                 /\ Stores(r, "STARTED") /\ LogRun(r, "STARTED")
                 /\ UNCHANGED <<check, warehouse, incidentVars>>
  <1>0. /\ proc \in [Procs -> Call] /\ StoreType /\ Busy
    BY TypeParts
  <1>1. PICK r \in Runs, b \in Batches :
           /\ proc[p].pc = "idle" /\ published[r] < MaxPublish
           /\ published' = [published EXCEPT ![r] = @ + 1]
           /\ proc' = [proc EXCEPT ![p] = [Idle EXCEPT !.pc = "staging", !.run = r, !.batch = b]]
           /\ LogRun(r, "STARTED")
           /\ UNCHANGED <<warehouse, incidentVars>>
    BY DEF Publish
  <1>2. Moves(p) /\ proc'[p].pc = "staging" /\ proc'[p].run = r /\ proc'[p].batch = b
    <2>1. proc' = [proc EXCEPT ![p] = [Idle EXCEPT !.pc = "staging", !.run = r, !.batch = b]]
      BY <1>1
    <2>2. QED
      BY <1>0, <2>1, PublishMoves
  <1>3. Stores(r, "STARTED") /\ now' \in Nat /\ check' = check /\ aborts' = aborts
    BY <1>1, LogRunStores DEF RunState
  <1>4. StoreType'
    BY <1>0, <1>1, <1>3 DEF StoreType, TypeOKIncidents, warehouse, incidentVars
  <1>5. Busy'
    BY <1>0, <1>2 DEF Busy, Moves
  <1>6. TypeInv'
    BY <1>2, <1>3, <1>4, <1>5, TypePartsNext DEF Stores, Moves
  <1>7. QED
    BY <1>1, <1>2, <1>3, <1>6

\* Resume starts a call and writes nothing.
LEMMA ResumeType ==
    ASSUME TypeInv, NEW p \in Procs, Resume(p)
    PROVE  /\ TypeInv'
           /\ proc[p].pc = "idle" /\ p \in Resumers
           /\ Moves(p) /\ proc'[p].pc = "promote" /\ RowsOf(log, proc'[p].run) # {}
           /\ UNCHANGED <<store, warehouse, counters, incidentVars>>
  <1>0. log \in Seq(RunRow) /\ Ordered(log) /\ proc \in [Procs -> Call] /\ StoreType /\ Busy
    BY TypeParts
  <1>1. PICK r \in Runs :
           /\ p \in Resumers /\ proc[p].pc = "idle" /\ RowsOf(log, r) # {}
           /\ proc' = [proc EXCEPT ![p] = [Idle EXCEPT !.pc = "promote", !.run = r]]
           /\ UNCHANGED <<store, warehouse, counters, incidentVars>>
    BY DEF Resume
  <1>2. Moves(p) /\ proc'[p].pc = "promote" /\ proc'[p].run = r
    BY <1>0, <1>1, ResumeMoves
  <1>3. StoreType' /\ log' = log
    BY <1>0, <1>1 DEF StoreType, TypeOKIncidents, store, warehouse, counters, incidentVars
  <1>4. Busy'
    BY <1>0, <1>2 DEF Busy, Moves
  <1>5. QED
    BY <1>0, <1>1, <1>2, <1>3, <1>4, TypePartsNext DEF Moves

\* A call that is cut short leaves what it has written.
LEMMA AbortType ==
    ASSUME TypeInv, NEW p \in Procs, Abort(p)
    PROVE  TypeInv' /\ Ends(p) /\ UNCHANGED <<store, warehouse, published, now, incidentVars>>
  <1>0. log \in Seq(RunRow) /\ Ordered(log) /\ proc \in [Procs -> Call] /\ StoreType /\ Busy
    BY TypeParts
  <1>1. Ends(p) /\ UNCHANGED <<store, warehouse, published, now, incidentVars>>
    BY <1>0, FinishEnds DEF Abort
  <1>2. StoreType' /\ log' = log
    BY <1>0, <1>1 DEF Abort, StoreType, TypeOKIncidents, store, warehouse, incidentVars
  <1>3. QED
    BY <1>0, <1>1, <1>2, BusyEnds, TypePartsNext DEF Ends, Moves

\* So do the steps of the operators and of the clock, outside the calls.
LEMMA OutsideType ==
    ASSUME TypeInv, (\E o \in Operators : OperatorStep(o)) \/ Tick \/ StepBack \/ UNCHANGED vars
    PROVE  TypeInv'
  <1>0. log \in Seq(RunRow) /\ Ordered(log) /\ proc \in [Procs -> Call] /\ StoreType /\ Busy /\ TypeOK
    BY TypeParts DEF TypeInv
  <1> USE DEF store, warehouse, counters, incidentVars
  <1>1. CASE \E o \in Operators : OperatorStep(o)
    <2>1. PICK o \in Operators : OperatorStep(o)
      BY <1>1
    <2>2. TypeOKIncidents'
      BY <1>0, <2>1, OperatorType DEF OperatorStep
    <2>3. StoreType' /\ log' = log /\ proc' = proc
      BY <1>0, <2>1, <2>2 DEF OperatorStep, StoreType
    <2>4. QED
      BY <1>0, <2>3, TypePartsNext DEF Busy
  <1>2. CASE Tick \/ StepBack
    <2>1. now' \in Nat
      BY <1>0, <1>2 DEF Tick, StepBack, StoreType
    <2>2. StoreType' /\ log' = log /\ proc' = proc
      BY <1>0, <1>2, <2>1 DEF Tick, StepBack, StoreType, TypeOKIncidents
    <2>3. QED
      BY <1>0, <2>2, TypePartsNext DEF Busy
  <1>3. CASE UNCHANGED vars
    <2>1. StoreType' /\ log' = log /\ proc' = proc
      BY <1>0, <1>3 DEF vars, StoreType, TypeOKIncidents
    <2>2. QED
      BY <1>0, <2>1, TypePartsNext DEF Busy
  <1>4. QED
    BY <1>1, <1>2, <1>3

\* The type invariant holds at the start.
LEMMA InitType == Init => TypeInv
  <1> SUFFICES ASSUME Init
               PROVE  TypeInv
    OBVIOUS
  <1>1. log = <<>> /\ log \in Seq(RunRow) /\ Ordered(log)
    BY DEF Init, Ordered
  <1>2. proc \in [Procs -> Call] /\ Busy
    BY IdleType DEF Init, Busy, Idle
  <1>3. StoreType
    <2>1. /\ check \in [Runs -> [Checks -> {"none", "PASS", "FAIL"}]]
          /\ staging \in [Runs -> Batches \union {None}]
          /\ quarantine \in [Runs -> Batches \union {None}]
          /\ table \in [Targets -> Rows]
          /\ published \in [Runs -> Nat] /\ aborts \in Nat /\ now \in Nat
      BY DEF Init, Rows
    <2>2. TypeOKIncidents
      BY DEF Init, InitIncidents, TypeOKIncidents, Absent, Incident, Command
    <2>3. QED
      BY <2>1, <2>2 DEF StoreType
  <1>4. QED
    BY <1>1, <1>2, <1>3, TypeParts

\* Every step keeps the invariant, whatever the clock does.
LEMMA NextType == TypeInv /\ [SettableClockNext]_vars => TypeInv'
  BY StepType, PublishType, ResumeType, AbortType, OutsideType DEF SettableClockNext, Next

-----------------------------------------------------------------------------
(* What the log reports. *)

\* The records of a publication are well typed at all times, whatever the
\* clock does: any number of processes publish, resume and crash.
THEOREM TypeCorrect == Init /\ [][SettableClockNext]_vars => []TypeOK
  <1>1. TypeInv => TypeOK
    BY DEF TypeInv
  <1>2. QED
    BY <1>1, InitType, NextType, PTL

\* get_run reports the transition that was stored last, although the rows are
\* ordered by a wall clock that may stand still or be set back between any two
\* events: next_run_event_time keeps the stamps of a run increasing.
THEOREM LastStoredIsReported ==
    Init /\ [][SettableClockNext]_vars => []RunStateIsLastStored
  <1>1. TypeInv => RunStateIsLastStored
    <2> SUFFICES ASSUME TypeInv, NEW r \in Runs, NEW i \in RowsOf(log, r),
                        \A j \in RowsOf(log, r) : j <= i
                 PROVE  get_run(log, r) = log[i].state
      BY DEF RunStateIsLastStored
    <2>1. log \in Seq(RunRow) /\ Ordered(log) /\ Last(log, r, i)
      BY TypeParts DEF Last
    <2>2. QED
      BY <2>1, LastIsReported
  <1>2. QED
    BY <1>1, InitType, NextType, PTL

-----------------------------------------------------------------------------
(* No staged batch is lost, however many processes publish or resume a run, *)
(* however often, and wherever they stop.                                   *)

Accounted(r) ==
    \/ Has(log, r, "PROMOTED")
    \/ Has(log, r, "QUARANTINED") /\ quarantine[r] # None

\* What the call of p, at its place in the code, has already done.
StageOf(p) ==
    LET r == proc[p].run
    IN  /\ proc[p].pc = "staged" => staging[r] # None \/ Accounted(r)
        /\ proc[p].pc = "quarantined" => quarantine[r] # None
        /\ proc[p].pc = "quarantine_drop" => Has(log, r, "QUARANTINED") /\ quarantine[r] # None
        /\ proc[p].pc = "promote_drop" => Has(log, r, "PROMOTED")

StageInv == StagedDataSurvives /\ \A p \in Procs : StageOf(p)

\* Rows are never deleted from the log, nor a snapshot from the quarantine.
StoreGrows ==
    /\ \A r \in Runs : \A x : Has(log, r, x) => Has(log', r, x)
    /\ \A r \in Runs : quarantine[r] # None => quarantine'[r] # None

\* A step of p that drops no staging table without an account of its rows, and
\* logs STAGED after they were written, keeps the invariant.
LEMMA StageMove ==
    ASSUME TypeInv, StageInv, NEW p \in Procs,
           \A q \in Procs : q # p => proc'[q] = proc[q],
           StoreGrows,
           \A r \in Runs : staging'[r] = None /\ Has(log', r, "STAGED") =>
               Accounted(r)' \/ (staging[r] = None /\ Has(log, r, "STAGED")),
           \A r \in Runs : staging'[r] = None => staging[r] = None \/ Accounted(r)',
           StageOf(p)'
    PROVE  StageInv'
  <1>1. \A r \in Runs : Accounted(r) => Accounted(r)'
    BY DEF Accounted, StoreGrows
  <1>2. StagedDataSurvives'
    BY <1>1 DEF StageInv, StagedDataSurvives, Accounted
  <1>3. ASSUME NEW q \in Procs, q # p
        PROVE  StageOf(q)'
    <2>1. StageOf(q) /\ proc'[q] = proc[q]
      BY <1>3 DEF StageInv
    <2>2. proc[q].pc # "idle" => proc[q].run \in Runs
      BY RunOfCall
    <2>3. QED
      BY <1>1, <2>1, <2>2 DEF StageOf, StoreGrows
  <1>4. QED
    BY <1>2, <1>3 DEF StageInv

\* The log only grows.
LEMMA StoresGrow ==
    ASSUME NEW r, NEW s, Stores(r, s)
    PROVE  \A q \in Runs : \A x : Has(log, q, x) => Has(log', q, x)
  BY DEF Stores

\* A step that writes nothing, or one row of the log that is not STAGED, needs
\* a look at its own process only.
LEMMA StageQuiet ==
    ASSUME TypeInv, StageInv, NEW p \in Procs, Moves(p), UNCHANGED <<staging, quarantine>>,
           log' = log \/ \E r \in Runs, s \in RunState \ {"STAGED"} : Stores(r, s),
           StageOf(p)'
    PROVE  StageInv'
  <1>1. /\ StoreGrows
        /\ \A r \in Runs : Has(log', r, "STAGED") => Has(log, r, "STAGED")
    BY StoresGrow DEF StoreGrows, Stores
  <1>2. QED
    BY <1>1, StageMove DEF Moves

\* Every step of a call keeps staged data where the log says it is.
LEMMA StageStep ==
    ASSUME TypeInv, StageInv, NEW p \in Procs, Step(p)
    PROVE  StageInv'
  <1>0. /\ proc \in [Procs -> Call] /\ TypeOK /\ StoreType /\ StageOf(p)
        /\ proc[p].pc # "idle" => proc[p].run \in Runs
    BY TypeParts, RunOfCall DEF StageInv, TypeInv
  <1> USE DEF PC, RunState
  <1>1. CASE LogStaging(p)
    <2>1. Turns(p, "write_staging")
      BY <1>0, <1>1, GotoTurns DEF LogStaging
    <2>2. Stores(proc[p].run, "STAGING") /\ proc[p].run \in Runs
      BY <1>0, <1>1, LogStores DEF LogStaging
    <2>3. UNCHANGED <<staging, quarantine>>
      BY <1>1 DEF LogStaging, warehouse
    <2>4. QED
      BY <2>1, <2>2, <2>3, StageQuiet DEF Turns, GoesOn, StageOf
  <1>2. CASE WriteStaging(p)
    <2>1. Turns(p, "staged") /\ proc[p].run \in Runs /\ proc[p].batch \in Batches
      BY <1>0, <1>2, GotoTurns DEF WriteStaging, TypeInv, Busy
    <2>2. /\ staging' = [staging EXCEPT ![proc[p].run] = proc[p].batch]
          /\ log' = log /\ quarantine' = quarantine /\ staging \in [Runs -> Batches \union {None}]
      BY <1>0, <1>2 DEF WriteStaging, store, StoreType
    <2>3. staging'[proc[p].run] # None /\ \A r \in Runs : staging'[r] = None => staging[r] = None
      BY <2>1, <2>2, PublicationAssumption
    <2>4. StageOf(p)'
      BY <2>1, <2>3 DEF StageOf, Turns, GoesOn
    <2>5. QED
      BY <2>1, <2>2, <2>3, <2>4, StageMove DEF Turns, GoesOn, Moves, StoreGrows
  <1>3. CASE LogStaged(p)
    <2>1. Turns(p, "check") /\ proc[p].pc = "staged" /\ proc[p].run \in Runs
      BY <1>0, <1>3, GotoTurns DEF LogStaged
    <2>2. Stores(proc[p].run, "STAGED")
      BY <1>3, LogStores DEF LogStaged
    <2>3. staging' = staging /\ quarantine' = quarantine
      BY <1>3 DEF LogStaged, warehouse
    <2>4. StoreGrows
      BY <2>2, <2>3, StoresGrow DEF StoreGrows
    <2>5. ASSUME NEW r \in Runs, r = proc[p].run
          PROVE  staging[r] # None \/ Accounted(r)'
      BY <1>0, <2>1, <2>3, <2>4, <2>5 DEF StageOf, Accounted, StoreGrows
    <2>6. \A r \in Runs : staging'[r] = None /\ Has(log', r, "STAGED") =>
               Accounted(r)' \/ (staging[r] = None /\ Has(log, r, "STAGED"))
      BY <2>2, <2>3, <2>5 DEF Stores
    <2>7. QED
      BY <2>1, <2>3, <2>4, <2>6, StageMove DEF Turns, GoesOn, Moves, StageOf
  <1>4. CASE CheckStaging(p)
    BY <1>0, <1>4, CheckMoves, StageQuiet DEF CheckStaging, store, warehouse, GoesOn, StageOf
  <1>5. CASE RecordChecks(p)
    <2>1. GoesOn(p) /\ proc'[p].pc \in {"record", "promote", "quarantine"}
      BY <1>0, <1>5, RecordMoves DEF Decision
    <2>2. QED
      BY <1>5, <2>1, StageQuiet DEF RecordChecks, warehouse, GoesOn, StageOf
  <1>6. CASE Quarantine(p)
    <2>1. proc[p].pc = "quarantine" /\ proc[p].run \in Runs
      BY <1>0, <1>6 DEF Quarantine
    <2>2. CASE /\ staging[proc[p].run] # None /\ Goto(p, "quarantined")
               /\ quarantine' = [quarantine EXCEPT ![proc[p].run] = staging[proc[p].run]]
               /\ UNCHANGED <<store, staging>>
      <3>1. Turns(p, "quarantined") /\ log' = log /\ staging' = staging
        BY <1>0, <2>2, GotoTurns DEF store
      <3>2. /\ quarantine'[proc[p].run] # None
            /\ \A r \in Runs : quarantine[r] # None => quarantine'[r] # None
        BY <1>0, <2>1, <2>2 DEF StoreType
      <3>3. StageOf(p)'
        BY <3>1, <3>2 DEF StageOf, Turns, GoesOn
      <3>4. QED
        BY <3>1, <3>2, <3>3, StageMove DEF Turns, GoesOn, Moves, StoreGrows
    <2>3. CASE Log(p, "CHECK_ERROR") /\ Finish(p) /\ UNCHANGED <<quarantine, staging>>
      <3>1. Ends(p) /\ Stores(proc[p].run, "CHECK_ERROR")
        BY <1>0, <2>1, <2>3, FinishEnds, LogStores
      <3>2. QED
        BY <2>1, <2>3, <3>1, StageQuiet DEF Ends, StageOf
    <2>4. QED
      BY <1>6, <2>2, <2>3 DEF Quarantine
  <1>7. CASE LogQuarantined(p)
    <2>1. Turns(p, "quarantine_drop") /\ proc[p].pc = "quarantined" /\ proc[p].run \in Runs
      BY <1>0, <1>7, GotoTurns DEF LogQuarantined
    <2>2. Stores(proc[p].run, "QUARANTINED")
      BY <1>7, LogStores DEF LogQuarantined
    <2>3. UNCHANGED <<staging, quarantine>>
      BY <1>7 DEF LogQuarantined, warehouse
    <2>4. Has(log', proc[p].run, "QUARANTINED") /\ quarantine'[proc[p].run] # None
      BY <1>0, <2>1, <2>2, <2>3 DEF StageOf, Stores
    <2>5. StageOf(p)'
      BY <2>1, <2>4 DEF StageOf, Turns, GoesOn
    <2>6. QED
      BY <2>1, <2>2, <2>3, <2>5, StageQuiet DEF Turns, GoesOn
  <1>8. CASE DropQuarantined(p)
    <2>1. /\ GoesOn(p) /\ proc'[p].pc = "open_incident"
          /\ proc[p].pc = "quarantine_drop" /\ proc[p].run \in Runs
      BY <1>0, <1>8, DropQuarantinedMoves DEF DropQuarantined
    <2>2. /\ staging' = [staging EXCEPT ![proc[p].run] = None]
          /\ log' = log /\ quarantine' = quarantine /\ staging \in [Runs -> Batches \union {None}]
      BY <1>0, <1>8 DEF DropQuarantined, store, StoreType
    <2>3. ASSUME NEW r \in Runs, r = proc[p].run
          PROVE  Accounted(r)'
      BY <1>0, <2>1, <2>2, <2>3 DEF StageOf, Accounted
    <2>4. \A r \in Runs : staging'[r] = None => staging[r] = None \/ Accounted(r)'
      BY <2>2, <2>3
    <2>5. QED
      BY <2>1, <2>2, <2>4, StageMove DEF GoesOn, Moves, StoreGrows, StageOf
  <1>9. CASE OpenIncident(p)
    <2>1. UNCHANGED <<log, staging, quarantine>>
      BY <1>9 DEF OpenIncident, store, warehouse
    <2>2. Moves(p) /\ proc'[p].pc \in {"idle", "insert_incident", "open_incident"}
      BY <1>0, <1>9, OpenMoves DEF Ends, GoesOn
    <2>3. QED
      BY <2>1, <2>2, StageQuiet DEF StageOf
  <1>10. CASE InsertNewIncident(p)
    BY <1>0, <1>10, InsertMoves, StageQuiet DEF InsertNewIncident, store, warehouse, GoesOn, StageOf
  <1>11. CASE Promote(p)
    <2>1. UNCHANGED <<log, staging, quarantine>> /\ proc[p].run \in Runs
      BY <1>0, <1>11 DEF Promote, store, warehouse
    <2>2. CASE get_run(log, proc[p].run) = "PROMOTED" /\ Goto(p, "promote_drop")
      <3>1. Turns(p, "promote_drop")
        BY <1>0, <2>2, GotoTurns
      <3>2. Has(log, proc[p].run, "PROMOTED")
        BY <2>1, <2>2, ReportedIsStored DEF TypeInv
      <3>3. StageOf(p)'
        BY <2>1, <3>1, <3>2 DEF StageOf, Turns, GoesOn
      <3>4. QED
        BY <2>1, <3>1, <3>3, StageQuiet DEF Turns, GoesOn
    <2>3. CASE Goto(p, "promoting")
      BY <1>0, <2>1, <2>3, GotoTurns, StageQuiet DEF Turns, GoesOn, StageOf
    <2>4. CASE Finish(p)
      BY <1>0, <2>1, <2>4, FinishEnds, StageQuiet DEF Ends, StageOf
    <2>5. QED
      BY <1>11, <2>2, <2>3, <2>4 DEF Promote
  <1>12. CASE LogPromoting(p)
    <2>1. Turns(p, "write_table")
      BY <1>0, <1>12, GotoTurns DEF LogPromoting
    <2>2. Stores(proc[p].run, "PROMOTING") /\ proc[p].run \in Runs
      BY <1>0, <1>12, LogStores DEF LogPromoting
    <2>3. UNCHANGED <<staging, quarantine>>
      BY <1>12 DEF LogPromoting, warehouse
    <2>4. QED
      BY <2>1, <2>2, <2>3, StageQuiet DEF Turns, GoesOn, StageOf
  <1>13. CASE WriteTable(p)
    <2>1. UNCHANGED <<log, staging, quarantine>>
      BY <1>13 DEF WriteTable, store
    <2>2. Ends(p) \/ Turns(p, "promoted")
      BY <1>0, <1>13, FinishEnds, GotoTurns DEF WriteTable
    <2>3. QED
      BY <2>1, <2>2, StageQuiet DEF Ends, Turns, GoesOn, StageOf
  <1>14. CASE LogPromoted(p)
    <2>1. Turns(p, "promote_drop")
      BY <1>0, <1>14, GotoTurns DEF LogPromoted
    <2>2. Stores(proc[p].run, "PROMOTED") /\ proc[p].run \in Runs
      BY <1>0, <1>14, LogStores DEF LogPromoted
    <2>3. UNCHANGED <<staging, quarantine>>
      BY <1>14 DEF LogPromoted, warehouse
    <2>4. StageOf(p)'
      BY <2>1, <2>2 DEF StageOf, Stores, Turns, GoesOn
    <2>5. QED
      BY <2>1, <2>2, <2>3, <2>4, StageQuiet DEF Turns, GoesOn
  <1>15. CASE DropPromoted(p)
    <2>1. Turns(p, "resolve") /\ proc[p].pc = "promote_drop" /\ proc[p].run \in Runs
      BY <1>0, <1>15, GotoTurns DEF DropPromoted
    <2>2. /\ staging' = [staging EXCEPT ![proc[p].run] = None]
          /\ log' = log /\ quarantine' = quarantine /\ staging \in [Runs -> Batches \union {None}]
      BY <1>0, <1>15 DEF DropPromoted, store, StoreType
    <2>3. ASSUME NEW r \in Runs, r = proc[p].run
          PROVE  Accounted(r)'
      BY <1>0, <2>1, <2>2, <2>3 DEF StageOf, Accounted
    <2>4. \A r \in Runs : staging'[r] = None => staging[r] = None \/ Accounted(r)'
      BY <2>2, <2>3
    <2>5. QED
      BY <2>1, <2>2, <2>4, StageMove DEF Turns, GoesOn, Moves, StoreGrows, StageOf
  <1>16. CASE ListOpen(p)
    BY <1>0, <1>16, ListMoves, StageQuiet
    DEF ListOpen, store, warehouse, GoesOn, StageOf, StoreType, TypeOKIncidents
  <1>17. CASE ResolveRecovered(p)
    BY <1>0, <1>17, FinishEnds, StageQuiet DEF ResolveRecovered, store, warehouse, Ends, StageOf
  <1>18. QED
    BY <1>1, <1>2, <1>3, <1>4, <1>5, <1>6, <1>7, <1>8, <1>9, <1>10, <1>11, <1>12, <1>13,
       <1>14, <1>15, <1>16, <1>17 DEF Step

\* So does every step of the system.
LEMMA StageNext == TypeInv /\ StageInv /\ [Next]_vars => StageInv'
  <1> SUFFICES ASSUME TypeInv, StageInv, [Next]_vars
               PROVE  StageInv'
    OBVIOUS
  <1> USE DEF store, warehouse, counters, incidentVars
  <1>1. ASSUME NEW p \in Procs, Publish(p)
        PROVE  StageInv'
    <2>1. PICK r \in Runs : Moves(p) /\ proc'[p].pc = "staging" /\ Stores(r, "STARTED")
                            /\ UNCHANGED <<staging, quarantine>>
      BY <1>1, PublishType
    <2>2. QED
      BY <2>1, StageQuiet DEF StageOf, RunState
  <1>2. ASSUME NEW p \in Procs, Resume(p)
        PROVE  StageInv'
    BY <1>2, ResumeType, StageQuiet DEF StageOf
  <1>3. ASSUME NEW p \in Procs, Abort(p)
        PROVE  StageInv'
    BY <1>3, AbortType, StageQuiet DEF StageOf, Ends
  <1>4. CASE (\E o \in Operators : OperatorStep(o)) \/ UNCHANGED vars
    <2>1. UNCHANGED <<log, staging, quarantine, proc>>
      BY <1>4 DEF OperatorStep, vars
    <2>2. QED
      BY <2>1 DEF StageInv, StagedDataSurvives, StageOf, Accounted
  <1>5. QED
    BY <1>1, <1>2, <1>3, <1>4, StageStep DEF Next

\* "Staging is dropped only after a quarantine or a promotion was logged": no
\* interleaving of publications and resumes of the same runs, no crash and no
\* second call under the same run_id loses a staged batch.
THEOREM StagedDataIsKept == Spec => []StagedDataSurvives
  <1>1. Init => StageInv
    BY DEF Init, StageInv, StagedDataSurvives, StageOf, Has, Idle
  <1>2. TypeInv /\ [Next]_vars => TypeInv'
    BY NextType DEF SettableClockNext
  <1>3. StageInv => StagedDataSurvives
    BY DEF StageInv
  <1>4. QED
    BY <1>1, <1>2, <1>3, InitType, StageNext, PTL DEF Spec

-----------------------------------------------------------------------------
(* The stored checks of a run, when each run_id is passed to publish once:  *)
(* a run that is published twice may be checked twice, with two outcomes.   *)

Unchecked    == {"staging", "write_staging", "staged", "check"}
Quarantining == {"quarantine", "quarantined", "quarantine_drop", "open_incident", "insert_incident"}
Publishing   == Unchecked \union {"record"} \union Quarantining

\* What the store holds of the checks of the run that p is publishing.
CheckOf(p) ==
    LET c == proc[p]
        r == proc[p].run
    IN  /\ c.pc \in Unchecked => \A k \in Checks : check[r][k] = "none"
        /\ c.pc = "record" => \A k \in Checks :
               check[r][k] = IF k \in c.todo THEN "none" ELSE Outcome(p, k)
        /\ c.pc \in Quarantining => \A k \in c.report : check[r][k] = "FAIL"
        /\ c.pc \in {"quarantine_drop", "open_incident", "insert_incident"} => Has(log, r, "QUARANTINED")
        /\ c.pc \in {"open_incident", "insert_incident"} => c.todo \subseteq c.report
        /\ c.pc = "insert_incident" => c.at \in c.todo

CheckInv ==
    /\ \A r \in Runs : published[r] = 0 =>
           RowsOf(log, r) = {} /\ \A k \in Checks : check[r][k] = "none"
    /\ \A p \in Procs : proc[p].pc # "idle" => published[proc[p].run] > 0
    /\ \A p, q \in Procs : proc[p].pc \in Publishing /\ proc[q].pc \in Publishing
                             /\ proc[p].run = proc[q].run => p = q
    /\ \A p \in Procs : CheckOf(p)

\* A step of p that touches only its own run, and whose call was publishing if
\* it still is or if it stores a check, keeps the invariant.
LEMMA CheckMove ==
    ASSUME TypeInv, CheckInv, NEW p \in Procs, Moves(p), proc[p].pc # "idle",
           published' = published,
           log' = log \/ \E s \in RunState : Stores(proc[p].run, s),
           \A r \in Runs \ {proc[p].run} : check'[r] = check[r],
           check' = check \/ proc[p].pc \in Publishing,
           proc'[p].pc # "idle" => proc'[p].run = proc[p].run,
           proc'[p].pc \in Publishing => proc[p].pc \in Publishing,
           CheckOf(p)'
    PROVE  CheckInv'
  <1>0. /\ \A q \in Procs : proc[q].pc # "idle" => proc[q].run \in Runs
        /\ \A q \in Procs : proc[q].pc \in Publishing => proc[q].pc # "idle"
        /\ \A q \in Procs : proc'[q].pc \in Publishing => proc'[q].pc # "idle"
    BY RunOfCall DEF Publishing, Unchecked, Quarantining
  <1>1. /\ \A q, x : Has(log, q, x) => Has(log', q, x)
        /\ \A r \in Runs \ {proc[p].run} : RowsOf(log', r) = RowsOf(log, r)
    BY DEF Stores
  <1>2. \A r \in Runs : published'[r] = 0 =>
           RowsOf(log', r) = {} /\ \A k \in Checks : check'[r][k] = "none"
    BY <1>0, <1>1 DEF CheckInv
  <1>3. \A q \in Procs : proc'[q].pc # "idle" => published'[proc'[q].run] > 0
    BY DEF CheckInv, Moves
  <1>4. \A a, b \in Procs : proc'[a].pc \in Publishing /\ proc'[b].pc \in Publishing
                             /\ proc'[a].run = proc'[b].run => a = b
    BY <1>0 DEF CheckInv, Moves
  <1>5. ASSUME NEW q \in Procs, q # p
        PROVE  CheckOf(q)'
    <2>1. proc'[q] = proc[q] /\ CheckOf(q)
      BY <1>5 DEF CheckInv, Moves
    <2>2. CASE proc[q].pc \in Publishing
      <3>1. check'[proc[q].run] = check[proc[q].run]
        BY <1>0, <1>5, <2>2 DEF CheckInv
      <3>2. \A k \in Checks : Outcome(q, k)' = Outcome(q, k)
        BY <2>1 DEF Outcome
      <3>3. QED
        BY <1>1, <2>1, <3>1, <3>2 DEF CheckOf
    <2>3. CASE proc[q].pc \notin Publishing
      BY <2>1, <2>3 DEF CheckOf, Publishing, Unchecked, Quarantining
    <2>4. QED
      BY <2>2, <2>3
  <1>6. QED
    BY <1>2, <1>3, <1>4, <1>5 DEF CheckInv

\* A step that ends the call, or takes it past its publishing, keeps it too.
LEMMA CheckQuiet ==
    ASSUME TypeInv, CheckInv, NEW p \in Procs, Moves(p), proc[p].pc # "idle",
           published' = published, check' = check,
           log' = log \/ \E s \in RunState : Stores(proc[p].run, s),
           proc'[p].pc # "idle" => proc'[p].run = proc[p].run,
           proc'[p].pc \notin Publishing
    PROVE  CheckInv'
  <1>1. CheckOf(p)'
    BY DEF CheckOf, Publishing, Unchecked, Quarantining
  <1>2. QED
    BY <1>1, CheckMove

\* Every step of a call keeps check results and the report in agreement.
LEMMA CheckStep ==
    ASSUME TypeInv, CheckInv, NEW p \in Procs, Step(p)
    PROVE  CheckInv'
  <1>0. /\ proc \in [Procs -> Call] /\ TypeOK /\ StoreType /\ CheckOf(p)
        /\ proc[p].pc # "idle" => proc[p].run \in Runs
    BY TypeParts, RunOfCall DEF CheckInv, TypeInv
  <1> USE DEF PC, RunState, Publishing, Unchecked, Quarantining
  <1>1. CASE LogStaging(p)
    <2>1. Turns(p, "write_staging") /\ proc[p].pc = "staging"
      BY <1>0, <1>1, GotoTurns DEF LogStaging
    <2>2. Stores(proc[p].run, "STAGING") /\ check' = check /\ published' = published
      BY <1>1, LogStores DEF LogStaging
    <2>3. CheckOf(p)'
      BY <1>0, <2>1, <2>2 DEF CheckOf, Turns, GoesOn
    <2>4. QED
      BY <2>1, <2>2, <2>3, CheckMove DEF Turns, GoesOn
  <1>2. CASE WriteStaging(p)
    <2>1. Turns(p, "staged") /\ proc[p].pc = "write_staging"
      BY <1>0, <1>2, GotoTurns DEF WriteStaging
    <2>2. UNCHANGED <<log, check, published>>
      BY <1>2 DEF WriteStaging, store, counters
    <2>3. CheckOf(p)'
      BY <1>0, <2>1, <2>2 DEF CheckOf, Turns, GoesOn
    <2>4. QED
      BY <2>1, <2>2, <2>3, CheckMove DEF Turns, GoesOn
  <1>3. CASE LogStaged(p)
    <2>1. Turns(p, "check") /\ proc[p].pc = "staged"
      BY <1>0, <1>3, GotoTurns DEF LogStaged
    <2>2. Stores(proc[p].run, "STAGED") /\ check' = check /\ published' = published
      BY <1>3, LogStores DEF LogStaged
    <2>3. CheckOf(p)'
      BY <1>0, <2>1, <2>2 DEF CheckOf, Turns, GoesOn
    <2>4. QED
      BY <2>1, <2>2, <2>3, CheckMove DEF Turns, GoesOn
  <1>4. CASE CheckStaging(p)
    <2>1. GoesOn(p) /\ proc'[p].pc = "record" /\ proc'[p].todo = Checks /\ proc[p].pc = "check"
      BY <1>0, <1>4, CheckMoves DEF CheckStaging
    <2>2. UNCHANGED <<log, check, published>>
      BY <1>4 DEF CheckStaging, store, counters
    <2>3. CheckOf(p)'
      BY <1>0, <2>1, <2>2 DEF CheckOf, GoesOn
    <2>4. QED
      BY <2>1, <2>2, <2>3, CheckMove DEF GoesOn
  <1>5. CASE RecordChecks(p)
    <2>1. /\ GoesOn(p) /\ SameReport(p) /\ proc[p].pc = "record"
          /\ proc'[p].pc = IF proc'[p].todo = {} THEN Decision(p) ELSE "record"
          /\ proc'[p].todo \subseteq proc[p].todo
      BY <1>0, <1>5, RecordMoves DEF RecordChecks
    <2>2. UNCHANGED <<log, published>>
      BY <1>5 DEF RecordChecks, counters
    <2>3. /\ \A q \in Runs \ {proc[p].run} : check'[q] = check[q]
          /\ \A k \in Checks : check'[proc[p].run][k] =
                 IF k \in proc[p].todo \ proc'[p].todo /\ check[proc[p].run][k] = "none"
                 THEN Outcome(p, k) ELSE check[proc[p].run][k]
      BY <1>5, RecordStores
    <2>4. \A k \in Checks : /\ Outcome(p, k)' = Outcome(p, k)
                            /\ k \in proc[p].report => Outcome(p, k) = "FAIL"
      BY <2>1 DEF Outcome, SameReport
    <2>5. \A k \in Checks : check'[proc[p].run][k] = IF k \in proc'[p].todo THEN "none" ELSE Outcome(p, k)
      BY <1>0, <2>1, <2>3 DEF CheckOf
    <2>6. CheckOf(p)'
      <3>1. CASE proc'[p].pc = "record"
        BY <2>1, <2>4, <2>5, <3>1 DEF CheckOf, GoesOn
      <3>2. CASE proc'[p].pc = "quarantine"
        <4>1. proc'[p].todo = {} /\ proc[p].report \subseteq Checks
          BY <1>0, <2>1, <3>2 DEF Call
        <4>2. QED
          BY <2>1, <2>4, <2>5, <3>2, <4>1 DEF CheckOf, GoesOn, SameReport
      <3>3. CASE proc'[p].pc = "promote"
        BY <3>3 DEF CheckOf
      <3>4. QED
        BY <2>1, <3>1, <3>2, <3>3 DEF Decision
    <2>7. proc'[p].run = proc[p].run
      BY <2>1 DEF GoesOn
    <2>8. QED
      BY <2>1, <2>2, <2>3, <2>6, <2>7, CheckMove DEF GoesOn
  <1>6. CASE Quarantine(p)
    <2>1. proc[p].pc = "quarantine"
      BY <1>6 DEF Quarantine
    <2>2. CASE Goto(p, "quarantined") /\ UNCHANGED <<store, counters>>
      <3>1. Turns(p, "quarantined") /\ UNCHANGED <<log, check, published>>
        BY <1>0, <2>2, GotoTurns DEF store, counters
      <3>2. CheckOf(p)'
        BY <1>0, <2>1, <3>1 DEF CheckOf, Turns, GoesOn, SameReport
      <3>3. QED
        BY <2>1, <3>1, <3>2, CheckMove DEF Turns, GoesOn
    <2>3. CASE Log(p, "CHECK_ERROR") /\ Finish(p)
      <3>1. Ends(p) /\ Stores(proc[p].run, "CHECK_ERROR") /\ UNCHANGED <<check, published>>
        BY <1>0, <2>1, <2>3, FinishEnds, LogStores
      <3>2. QED
        BY <2>1, <3>1, CheckQuiet DEF Ends
    <2>4. QED
      BY <1>6, <2>2, <2>3 DEF Quarantine
  <1>7. CASE LogQuarantined(p)
    <2>1. Turns(p, "quarantine_drop") /\ proc[p].pc = "quarantined"
      BY <1>0, <1>7, GotoTurns DEF LogQuarantined
    <2>2. Stores(proc[p].run, "QUARANTINED") /\ check' = check /\ published' = published
      BY <1>7, LogStores DEF LogQuarantined
    <2>3. Has(log', proc[p].run, "QUARANTINED")
      BY <2>2 DEF Stores
    <2>4. CheckOf(p)'
      BY <1>0, <2>1, <2>2, <2>3 DEF CheckOf, Turns, GoesOn, SameReport
    <2>5. QED
      BY <2>1, <2>2, <2>4, CheckMove DEF Turns, GoesOn
  <1>8. CASE DropQuarantined(p)
    <2>1. /\ GoesOn(p) /\ SameReport(p) /\ proc'[p].pc = "open_incident"
          /\ proc'[p].todo = proc[p].report /\ proc[p].pc = "quarantine_drop"
      BY <1>0, <1>8, DropQuarantinedMoves DEF DropQuarantined
    <2>2. UNCHANGED <<log, check, published>>
      BY <1>8 DEF DropQuarantined, store, counters
    <2>3. CheckOf(p)'
      BY <1>0, <2>1, <2>2 DEF CheckOf, GoesOn, SameReport
    <2>4. QED
      BY <2>1, <2>2, <2>3, CheckMove DEF GoesOn
  <1>9. CASE OpenIncident(p)
    <2>1. UNCHANGED <<log, check, published>> /\ proc[p].pc = "open_incident"
      BY <1>9 DEF OpenIncident, store, counters
    <2>2. CASE Ends(p)
      BY <2>1, <2>2, CheckQuiet DEF Ends
    <2>3. CASE /\ GoesOn(p) /\ SameReport(p)
               /\ proc'[p].pc \in {"open_incident", "insert_incident"}
               /\ proc'[p].todo \subseteq proc[p].todo
               /\ proc'[p].pc = "insert_incident" => proc'[p].at \in proc'[p].todo
      <3>1. CheckOf(p)'
        BY <1>0, <2>1, <2>3 DEF CheckOf, GoesOn, SameReport
      <3>2. QED
        BY <2>1, <2>3, <3>1, CheckMove DEF GoesOn
    <2>4. QED
      BY <1>0, <1>9, <2>2, <2>3, OpenMoves
  <1>10. CASE InsertNewIncident(p)
    <2>1. /\ GoesOn(p) /\ SameReport(p) /\ proc'[p].pc = "open_incident"
          /\ proc'[p].todo \subseteq proc[p].todo /\ proc[p].pc = "insert_incident"
      BY <1>0, <1>10, InsertMoves DEF InsertNewIncident
    <2>2. UNCHANGED <<log, check, published>>
      BY <1>10 DEF InsertNewIncident, store, counters
    <2>3. CheckOf(p)'
      BY <1>0, <2>1, <2>2 DEF CheckOf, GoesOn, SameReport
    <2>4. QED
      BY <2>1, <2>2, <2>3, CheckMove DEF GoesOn
  <1>11. CASE Promote(p)
    <2>1. UNCHANGED <<log, check, published>> /\ proc[p].pc = "promote"
      BY <1>11 DEF Promote, store, counters
    <2>2. Ends(p) \/ Turns(p, "promote_drop") \/ Turns(p, "promoting")
      BY <1>0, <1>11, FinishEnds, GotoTurns DEF Promote
    <2>3. QED
      BY <2>1, <2>2, CheckQuiet DEF Ends, Turns, GoesOn
  <1>12. CASE LogPromoting(p)
    <2>1. Turns(p, "write_table") /\ proc[p].pc = "promoting"
      BY <1>0, <1>12, GotoTurns DEF LogPromoting
    <2>2. Stores(proc[p].run, "PROMOTING") /\ check' = check /\ published' = published
      BY <1>12, LogStores DEF LogPromoting
    <2>3. QED
      BY <2>1, <2>2, CheckQuiet DEF Turns, GoesOn
  <1>13. CASE WriteTable(p)
    <2>1. UNCHANGED <<log, check, published>> /\ proc[p].pc = "write_table"
      BY <1>13 DEF WriteTable, store, counters
    <2>2. Ends(p) \/ Turns(p, "promoted")
      BY <1>0, <1>13, FinishEnds, GotoTurns DEF WriteTable
    <2>3. QED
      BY <2>1, <2>2, CheckQuiet DEF Ends, Turns, GoesOn
  <1>14. CASE LogPromoted(p)
    <2>1. Turns(p, "promote_drop") /\ proc[p].pc = "promoted"
      BY <1>0, <1>14, GotoTurns DEF LogPromoted
    <2>2. Stores(proc[p].run, "PROMOTED") /\ check' = check /\ published' = published
      BY <1>14, LogStores DEF LogPromoted
    <2>3. QED
      BY <2>1, <2>2, CheckQuiet DEF Turns, GoesOn
  <1>15. CASE DropPromoted(p)
    <2>1. Turns(p, "resolve") /\ proc[p].pc = "promote_drop"
      BY <1>0, <1>15, GotoTurns DEF DropPromoted
    <2>2. UNCHANGED <<log, check, published>>
      BY <1>15 DEF DropPromoted, store, counters
    <2>3. QED
      BY <2>1, <2>2, CheckQuiet DEF Turns, GoesOn
  <1>16. CASE ListOpen(p)
    <2>1. GoesOn(p) /\ proc'[p].pc = "resolve_write" /\ proc[p].pc = "resolve"
      BY <1>0, <1>16, ListMoves DEF ListOpen, StoreType, TypeOKIncidents
    <2>2. UNCHANGED <<log, check, published>>
      BY <1>16 DEF ListOpen, store, counters
    <2>3. QED
      BY <2>1, <2>2, CheckQuiet DEF GoesOn
  <1>17. CASE ResolveRecovered(p)
    <2>1. Ends(p) /\ proc[p].pc = "resolve_write" /\ UNCHANGED <<log, check, published>>
      BY <1>0, <1>17, FinishEnds DEF ResolveRecovered, store, counters
    <2>2. QED
      BY <2>1, CheckQuiet DEF Ends
  <1>18. QED
    BY <1>1, <1>2, <1>3, <1>4, <1>5, <1>6, <1>7, <1>8, <1>9, <1>10, <1>11, <1>12, <1>13,
       <1>14, <1>15, <1>16, <1>17 DEF Step

\* The first publication of a run finds no row and no check of it.
LEMMA CheckNext ==
    ASSUME MaxPublish <= 1, TypeInv, CheckInv, [Next]_vars
    PROVE  CheckInv'
  <1> USE DEF store, warehouse, counters, incidentVars
  <1>1. ASSUME NEW p \in Procs, Publish(p)
        PROVE  CheckInv'
    <2>1. PICK r \in Runs :
              /\ proc[p].pc = "idle" /\ published[r] < MaxPublish
              /\ published' = [published EXCEPT ![r] = @ + 1]
              /\ Moves(p) /\ proc'[p].pc = "staging" /\ proc'[p].run = r
              /\ Stores(r, "STARTED") /\ check' = check
      BY <1>1, PublishType
    <2>2. published[r] = 0 /\ published'[r] = 1 /\ \A q \in Runs \ {r} : published'[q] = published[q]
      BY <2>1, PublicationAssumption DEF TypeInv, TypeOK
    <2>3. \A q \in Procs : proc[q].pc # "idle" => proc[q].run \in Runs \ {r}
      BY <2>2, RunOfCall DEF CheckInv
    <2>4. /\ \A q, x : Has(log, q, x) => Has(log', q, x)
          /\ \A q \in Runs \ {r} : RowsOf(log', q) = RowsOf(log, q)
      BY <2>1 DEF Stores
    <2>5. \A q \in Runs : published'[q] = 0 =>
             RowsOf(log', q) = {} /\ \A k \in Checks : check'[q][k] = "none"
      BY <2>1, <2>2, <2>4 DEF CheckInv
    <2>6. \A q \in Procs : proc'[q].pc # "idle" => published'[proc'[q].run] > 0
      BY <2>1, <2>2, <2>3 DEF CheckInv, Moves
    <2>7. \A a, b \in Procs : proc'[a].pc \in Publishing /\ proc'[b].pc \in Publishing
                               /\ proc'[a].run = proc'[b].run => a = b
      BY <2>1, <2>3 DEF CheckInv, Moves, Publishing, Unchecked, Quarantining
    <2>8. CheckOf(p)'
      BY <2>1, <2>2 DEF CheckInv, CheckOf, Unchecked, Quarantining
    <2>9. ASSUME NEW q \in Procs, q # p
          PROVE  CheckOf(q)'
      <3>1. proc'[q] = proc[q] /\ CheckOf(q)
        BY <2>1, <2>9 DEF CheckInv, Moves
      <3>2. \A k \in Checks : Outcome(q, k)' = Outcome(q, k)
        BY <3>1 DEF Outcome
      <3>3. QED
        BY <2>1, <2>4, <3>1, <3>2 DEF CheckOf
    <2>10. QED
      BY <2>5, <2>6, <2>7, <2>8, <2>9 DEF CheckInv
  <1>2. ASSUME NEW p \in Procs, Resume(p)
        PROVE  CheckInv'
    <2>1. /\ Moves(p) /\ proc[p].pc = "idle" /\ proc'[p].pc = "promote"
          /\ RowsOf(log, proc'[p].run) # {} /\ UNCHANGED <<log, check, published>>
          /\ TypeInv'
      BY <1>2, ResumeType
    <2>2. proc'[p].run \in Runs
      BY <2>1 DEF TypeInv, Busy
    <2>3. published \in [Runs -> Nat] /\ published[proc'[p].run] > 0
      BY <2>1, <2>2 DEF CheckInv, TypeInv, TypeOK
    <2>4. CheckOf(p)'
      BY <2>1 DEF CheckOf, Unchecked, Quarantining
    <2>5. ASSUME NEW q \in Procs, q # p
          PROVE  CheckOf(q)'
      <3>1. proc'[q] = proc[q] /\ CheckOf(q)
        BY <2>1, <2>5 DEF CheckInv, Moves
      <3>2. \A k \in Checks : Outcome(q, k)' = Outcome(q, k)
        BY <3>1 DEF Outcome
      <3>3. QED
        BY <2>1, <3>1, <3>2 DEF CheckOf
    <2>6. \A q \in Procs : proc'[q].pc # "idle" => published'[proc'[q].run] > 0
      BY <2>1, <2>3 DEF CheckInv, Moves
    <2>7. \A a, b \in Procs : proc'[a].pc \in Publishing /\ proc'[b].pc \in Publishing
                               /\ proc'[a].run = proc'[b].run => a = b
      BY <2>1 DEF CheckInv, Moves, Publishing, Unchecked, Quarantining
    <2>8. QED
      BY <2>1, <2>4, <2>5, <2>6, <2>7 DEF CheckInv
  <1>3. ASSUME NEW p \in Procs, Abort(p)
        PROVE  CheckInv'
    <2>1. Ends(p) /\ proc[p].pc # "idle" /\ UNCHANGED <<log, check, published>>
      BY <1>3, AbortType DEF Abort
    <2>2. QED
      BY <2>1, CheckQuiet DEF Ends, Publishing, Unchecked, Quarantining
  <1>4. CASE (\E o \in Operators : OperatorStep(o)) \/ UNCHANGED vars
    <2>1. UNCHANGED <<log, check, published, proc>>
      BY <1>4 DEF OperatorStep, vars
    <2>2. QED
      BY <2>1 DEF CheckInv, CheckOf, Outcome
  <1>5. QED
    BY <1>1, <1>2, <1>3, <1>4, CheckStep DEF Next

\* A step of a call logs at most one event, of its own run, and changes no
\* stored check.
LEMMA StepGrows ==
    ASSUME TypeInv, NEW p \in Procs, Step(p)
    PROVE  /\ proc[p].pc # "idle"
           /\ log' = log \/ \E s \in RunState : Stores(proc[p].run, s)
           /\ \A r \in Runs, k \in Checks : check[r][k] # "none" => check'[r][k] = check[r][k]
  <1> USE DEF RunState, store
  <1>0. /\ proc[p].pc # "idle" => proc[p].run \in Runs
        /\ proc[p].pc # "idle"
    BY RunOfCall
    DEF Step, LogStaging, WriteStaging, LogStaged, CheckStaging, RecordChecks, Quarantine,
        LogQuarantined, DropQuarantined, OpenIncident, InsertNewIncident, Promote, LogPromoting,
        WriteTable, LogPromoted, DropPromoted, ListOpen, ResolveRecovered
  <1>1. CASE RecordChecks(p)
    BY <1>0, <1>1, RecordStores DEF RecordChecks
  <1>2. CASE \E s \in RunState : Log(p, s)
    BY <1>0, <1>2, LogStores
  <1>3. CASE log' = log /\ check' = check
    BY <1>0, <1>3
  <1>4. RecordChecks(p) \/ (\E s \in RunState : Log(p, s)) \/ (log' = log /\ check' = check)
    BY DEF Step, LogStaging, WriteStaging, LogStaged, CheckStaging, Quarantine,
           LogQuarantined, DropQuarantined, OpenIncident, InsertNewIncident, Promote, LogPromoting,
           WriteTable, LogPromoted, DropPromoted, ListOpen, ResolveRecovered
  <1>5. QED
    BY <1>1, <1>2, <1>3, <1>4

\* Nothing is deleted from the log, and no stored check is changed.
LEMMA NextGrows ==
    ASSUME TypeInv, [Next]_vars
    PROVE  /\ \A r \in Runs : \A x : Has(log, r, x) => Has(log', r, x)
           /\ \A r \in Runs, k \in Checks : check[r][k] # "none" => check'[r][k] = check[r][k]
  <1>1. ASSUME NEW p \in Procs, Publish(p)
        PROVE  (\E r, s : Stores(r, s)) /\ check' = check
    BY <1>1, PublishType
  <1>2. ASSUME NEW p \in Procs, Resume(p)
        PROVE  log' = log /\ check' = check
    BY <1>2, ResumeType DEF store
  <1>3. ASSUME NEW p \in Procs, Abort(p)
        PROVE  log' = log /\ check' = check
    BY <1>3, AbortType DEF store
  <1>4. CASE (\E o \in Operators : OperatorStep(o)) \/ UNCHANGED vars
    BY <1>4 DEF OperatorStep, vars, store
  <1>5. QED
    BY <1>1, <1>2, <1>3, <1>4, StepGrows, StoresGrow DEF Next

-----------------------------------------------------------------------------
(* Incidents are backed by evidence.                                        *)

\* What a command is about to write, and what a promotion has listed, are rows
\* of incidents that exist.
PendingWrites ==
    /\ \A o \in Operators : command[o].id # None =>
           command[o].row.status \in IncidentStatus /\ incident[command[o].id] # Absent
    /\ \A p \in Procs : proc[p].pc = "resolve_write" =>
           \A id \in IncidentId : proc[p].listed[id] # Absent => incident[id] # Absent

EvidenceInv == CheckInv /\ PendingWrites /\ IncidentHasEvidence

Evident(id) == Has(log, id[1], "QUARANTINED") /\ check[id[1]][id[2]] = "FAIL"

\* Incidents are never deleted, and a new one has its evidence.
IncidentsGrow ==
    \A id \in IncidentId :
        /\ incident[id] # Absent => incident'[id] # Absent
        /\ incident'[id] # Absent => incident[id] # Absent \/ Evident(id)

\* The steps that write an incident or are about to.
LEMMA EvidenceMove ==
    ASSUME TypeInv, EvidenceInv, [Next]_vars, IncidentsGrow,
           \A o \in Operators : \/ command'[o] = command[o]
                                \/ command'[o].id = None
                                \/ command'[o].row.status \in IncidentStatus
                                   /\ incident'[command'[o].id] # Absent,
           \A p \in Procs : \/ proc'[p] = proc[p]
                            \/ proc'[p].pc # "resolve_write"
                            \/ \A id \in IncidentId : proc'[p].listed[id] # Absent => incident[id] # Absent
    PROVE  PendingWrites' /\ IncidentHasEvidence'
  <1>1. \A id \in IncidentId : Evident(id) => Evident(id)'
    BY NextGrows DEF Evident, IncidentId
  <1>2. IncidentHasEvidence'
    BY <1>1 DEF IncidentHasEvidence, EvidenceInv, IncidentsGrow, Evident
  <1>3. \A o \in Operators : command[o].id # None => command[o].id \in IncidentId
    BY DEF TypeInv, TypeOK, TypeOKIncidents, Command
  <1>4. QED
    BY <1>2, <1>3 DEF PendingWrites, EvidenceInv, IncidentsGrow

\* A row with a status is a row.
LEMMA StatusIsThere ==
    ASSUME NEW row, row.status \in IncidentStatus
    PROVE  row # Absent
  BY DEF Absent, IncidentStatus

\* Every step keeps the evidence of the incidents, also of those that a pending
\* write will bring.
LEMMA EvidenceNext ==
    ASSUME MaxPublish <= 1, TypeInv, EvidenceInv, [Next]_vars
    PROVE  EvidenceInv'
  <1>0. /\ CheckInv' /\ proc \in [Procs -> Call] /\ StoreType /\ CheckInv
        /\ incident \in [IncidentId -> Incident] /\ command \in [Operators -> Command]
    BY CheckNext, TypeParts DEF EvidenceInv, StoreType, TypeOKIncidents
  <1> USE DEF incidentVars
  <1>1. CASE incident' = incident /\ command' = command
             /\ \A p \in Procs : proc'[p] = proc[p] \/ proc'[p].pc # "resolve_write"
    BY <1>0, <1>1, EvidenceMove DEF EvidenceInv, IncidentsGrow
  <1>2. ASSUME NEW p \in Procs, Publish(p) \/ Resume(p) \/ Abort(p)
        PROVE  EvidenceInv'
    BY <1>1, <1>2, PublishType, ResumeType, AbortType DEF Moves, Ends
  <1>3. ASSUME NEW p \in Procs, ListOpen(p)
        PROVE  EvidenceInv'
    <2>1. /\ GoesOn(p) /\ incident' = incident /\ command' = command
          /\ \A id \in IncidentId : proc'[p].listed[id] # Absent => incident[id] # Absent
      BY <1>0, <1>3, ListMoves DEF ListOpen
    <2>2. QED
      BY <1>0, <2>1, EvidenceMove DEF EvidenceInv, IncidentsGrow, GoesOn, Moves
  <1>4. ASSUME NEW p \in Procs, InsertNewIncident(p)
        PROVE  EvidenceInv'
    <2>1. GoesOn(p) /\ proc'[p].pc = "open_incident" /\ proc[p].pc = "insert_incident"
      BY <1>0, <1>4, InsertMoves DEF InsertNewIncident
    <2>2. /\ proc[p].run \in Runs /\ proc[p].at \in Checks
          /\ Evident(<<proc[p].run, proc[p].at>>)
      <3>1. proc[p].run \in Runs /\ proc[p].at \in Checks
        BY <2>1 DEF TypeInv, Busy
      <3>2. /\ Has(log, proc[p].run, "QUARANTINED")
            /\ check[proc[p].run][proc[p].at] = "FAIL"
        BY <1>0, <2>1, <3>1 DEF CheckInv, CheckOf, Quarantining
      <3>3. QED
        BY <3>1, <3>2 DEF Evident
    <2>3. NewIncident # Absent
      BY StatusIsThere DEF NewIncident, IncidentStatus
    <2>4. /\ incident' = [incident EXCEPT ![<<proc[p].run, proc[p].at>>] =
                             IF @ = Absent THEN NewIncident ELSE @]
          /\ command' = command
      BY <1>4 DEF InsertNewIncident, InsertIncident
    <2>5. IncidentsGrow
      BY <1>0, <2>2, <2>3, <2>4 DEF IncidentsGrow
    <2>6. QED
      BY <1>0, <2>1, <2>4, <2>5, EvidenceMove DEF EvidenceInv, GoesOn, Moves
  <1>5. ASSUME NEW p \in Procs, ResolveRecovered(p)
        PROVE  EvidenceInv'
    <2>1. Ends(p) /\ proc[p].pc = "resolve_write"
      BY <1>0, <1>5, FinishEnds DEF ResolveRecovered
    <2>2. \A row \in Incident : Transition(row, "RESOLVED", "recovered") # Absent
      BY StatusIsThere DEF Transition, IncidentStatus
    <2>3. proc[p].listed \in [IncidentId -> Incident]
      BY <1>0 DEF Call
    <2>4. /\ incident' = [id \in IncidentId |->
                             IF proc[p].listed[id] = Absent THEN incident[id]
                             ELSE Transition(proc[p].listed[id], "RESOLVED", "recovered")]
          /\ command' = command
      BY <1>5 DEF ResolveRecovered, ResolveListed
    <2>5. IncidentsGrow
      BY <2>1, <2>2, <2>3, <2>4 DEF IncidentsGrow, EvidenceInv, PendingWrites
    <2>6. QED
      BY <1>0, <2>1, <2>4, <2>5, EvidenceMove DEF EvidenceInv, Ends, Moves
  <1>6. ASSUME NEW p \in Procs, Step(p), ~ListOpen(p), ~InsertNewIncident(p), ~ResolveRecovered(p)
        PROVE  EvidenceInv'
    <2>1. incident' = incident /\ command' = command
      BY <1>6
      DEF Step, LogStaging, WriteStaging, LogStaged, CheckStaging, RecordChecks, Quarantine,
          LogQuarantined, DropQuarantined, OpenIncident, Promote, LogPromoting,
          WriteTable, LogPromoted, DropPromoted
    <2>2. proc' = [proc EXCEPT ![p] = Idle] \/ (\E k \in PC \ {"resolve_write"} : Goto(p, k))
          \/ CheckStaging(p) \/ RecordChecks(p) \/ DropQuarantined(p) \/ OpenIncident(p)
      BY <1>6
      DEF Step, LogStaging, WriteStaging, LogStaged, Quarantine, Finish, PC,
          LogQuarantined, Promote, LogPromoting, WriteTable, LogPromoted, DropPromoted
    <2>3. Moves(p) /\ proc'[p].pc # "resolve_write"
      BY <1>0, <2>2, FinishEnds, GotoTurns, CheckMoves, RecordMoves, DropQuarantinedMoves, OpenMoves
      DEF Finish, Ends, Turns, GoesOn, Decision
    <2>4. QED
      BY <1>1, <2>1, <2>3 DEF Moves
  <1>7. ASSUME NEW o \in Operators, CommandRead(o), proc' = proc
        PROVE  EvidenceInv'
    <2>1. PICK id \in IncidentId, status \in IncidentStatus :
             /\ incident[id] # Absent /\ incident' = incident
             /\ command' = [command EXCEPT ![o] =
                    [id |-> id, row |-> Transition(incident[id], status,
                                          IF status = "RESOLVED" THEN "operator" ELSE None)]]
      BY <1>7 DEF CommandRead
    <2>2. command'[o].id = id /\ command'[o].row.status = status
      BY <1>0, <2>1 DEF Transition
    <2>3. \A q \in Operators : q # o => command'[q] = command[q]
      BY <1>0, <2>1
    <2>4. QED
      BY <1>0, <1>7, <2>1, <2>2, <2>3, EvidenceMove DEF EvidenceInv, IncidentsGrow
  <1>8. ASSUME NEW o \in Operators, CommandWrite(o), proc' = proc
        PROVE  EvidenceInv'
    <2>1. /\ command[o].id # None
          /\ incident' = [incident EXCEPT ![command[o].id] = command[o].row]
          /\ command' = [command EXCEPT ![o] = [id |-> None, row |-> Absent]]
      BY <1>8 DEF CommandWrite
    <2>2. /\ command[o].id \in IncidentId /\ command[o].row # Absent
          /\ incident[command[o].id] # Absent
      BY <1>0, <2>1, StatusIsThere DEF Command, EvidenceInv, PendingWrites
    <2>3. IncidentsGrow
      BY <1>0, <2>1, <2>2 DEF IncidentsGrow
    <2>4. \A q \in Operators : command'[q] = command[q] \/ command'[q].id = None
      BY <1>0, <2>1
    <2>5. QED
      BY <1>0, <1>8, <2>3, <2>4, EvidenceMove DEF EvidenceInv
  <1>9. ASSUME NEW o \in Operators, OperatorStep(o)
        PROVE  EvidenceInv'
    BY <1>7, <1>8, <1>9 DEF OperatorStep
  <1>10. CASE UNCHANGED vars
    BY <1>1, <1>10 DEF vars
  <1>11. QED
    BY <1>2, <1>3, <1>4, <1>5, <1>6, <1>9, <1>10 DEF Next

\* There are no incidents, and none is pending, at the start.
LEMMA EvidenceInit == Init => EvidenceInv
  BY DEF Init, EvidenceInv, CheckInv, CheckOf, PendingWrites, IncidentHasEvidence, InitIncidents,
         RowsOf, Idle, Publishing, Unchecked, Quarantining

\* Every incident has its evidence: the run that it names was quarantined, and
\* the check that it names is stored as failed, although operators and later
\* promotions write incidents from rows that they read before.
THEOREM IncidentsHaveEvidence ==
    MaxPublish <= 1 => (Spec => []IncidentHasEvidence)
  <1> SUFFICES ASSUME MaxPublish <= 1
               PROVE  Spec => []IncidentHasEvidence
    OBVIOUS
  <1>1. TypeInv /\ [Next]_vars => TypeInv'
    BY NextType DEF SettableClockNext
  <1>2. TypeInv /\ EvidenceInv /\ [Next]_vars => EvidenceInv'
    BY EvidenceNext
  <1>3. EvidenceInv => IncidentHasEvidence
    BY DEF EvidenceInv
  <1>4. QED
    BY <1>1, <1>2, <1>3, InitType, EvidenceInit, PTL DEF Spec

-----------------------------------------------------------------------------
(* Promotion happens once and never to a blocked run, as long as no two     *)
(* calls work on the same run at the same time: resume is for runs whose    *)
(* process is gone, and nothing in the store keeps a second call out.       *)

OneCallPerRun ==
    \A p, q \in Procs : p # q /\ proc[p].pc # "idle" /\ proc[q].pc # "idle" =>
        proc[p].run # proc[q].run

Promoting == {"promoting", "write_table", "promoted"}

\* Once a run is logged as PROMOTING it is only ever promoted, and that is the
\* last event of it.
RunEnds(r) ==
    /\ Has(log, r, "PROMOTED") => get_run(log, r) = "PROMOTED" /\ ~Blocked(r)
    /\ Has(log, r, "PROMOTING") => get_run(log, r) \in {"PROMOTING", "PROMOTED"}

PromoteOf(p) ==
    LET r == proc[p].run
    IN  /\ proc[p].pc \in Publishing => ~Has(log, r, "PROMOTING") /\ ~Has(log, r, "PROMOTED")
        /\ proc[p].pc \in Promoting => ~Has(log, r, "PROMOTED") /\ ~Blocked(r)
        /\ proc[p].pc \in {"write_table", "promoted"} => Has(log, r, "PROMOTING")

PromoteInv == (\A r \in Runs : RunEnds(r)) /\ (\A p \in Procs : PromoteOf(p))

\* A step of p touches its own run only, and no other call is in that run.
LEMMA PromoteMove ==
    ASSUME TypeInv, OneCallPerRun, PromoteInv, NEW p \in Procs, Moves(p), proc[p].pc # "idle",
           log' = log \/ \E s \in RunState : Stores(proc[p].run, s),
           \A r \in Runs \ {proc[p].run} : check'[r] = check[r],
           \A r \in Runs : r = proc[p].run => RunEnds(r)',
           PromoteOf(p)'
    PROVE  PromoteInv'
  <1>1. ASSUME NEW r \in Runs, r # proc[p].run
        PROVE  /\ \A x : Has(log', r, x) <=> Has(log, r, x)
               /\ get_run(log', r) = get_run(log, r)
               /\ Blocked(r)' <=> Blocked(r)
    BY <1>1 DEF Stores, Blocked
  <1>2. ASSUME NEW r \in Runs
        PROVE  RunEnds(r)'
    BY <1>1, <1>2 DEF PromoteInv, RunEnds
  <1>3. ASSUME NEW q \in Procs, q # p
        PROVE  PromoteOf(q)'
    <2>1. proc'[q] = proc[q] /\ PromoteOf(q)
      BY <1>3 DEF PromoteInv, Moves
    <2>2. CASE proc[q].pc = "idle"
      BY <2>1, <2>2 DEF PromoteOf, Publishing, Unchecked, Quarantining, Promoting
    <2>3. CASE proc[q].pc # "idle"
      <3>1. proc[q].run \in Runs /\ proc[q].run # proc[p].run
        BY <1>3, <2>3, RunOfCall DEF OneCallPerRun
      <3>2. QED
        BY <1>1, <2>1, <3>1 DEF PromoteOf
    <2>4. QED
      BY <2>2, <2>3
  <1>4. QED
    BY <1>2, <1>3 DEF PromoteInv

\* A step that writes neither the log nor a check.
LEMMA PromoteQuiet ==
    ASSUME TypeInv, OneCallPerRun, PromoteInv, NEW p \in Procs, Moves(p), proc[p].pc # "idle",
           log' = log, check' = check, PromoteOf(p)'
    PROVE  PromoteInv'
  <1>1. \A r \in Runs : RunEnds(r)'
    BY DEF PromoteInv, RunEnds, Blocked
  <1>2. QED
    BY <1>1, PromoteMove

\* A publication that goes on or ends, and logs at most that.
LEMMA PromotePublishing ==
    ASSUME TypeInv, OneCallPerRun, PromoteInv, NEW p \in Procs, Moves(p),
           proc[p].pc \in Publishing, proc'[p].pc \notin Promoting,
           log' = log \/ \E s \in RunState \ {"PROMOTING", "PROMOTED"} : Stores(proc[p].run, s),
           \A r \in Runs \ {proc[p].run} : check'[r] = check[r],
           proc'[p].pc # "idle" => proc'[p].run = proc[p].run
    PROVE  PromoteInv'
  <1>1. proc[p].pc # "idle" /\ proc[p].run \in Runs
    BY RunOfCall DEF Publishing, Unchecked, Quarantining
  <1>2. ~Has(log, proc[p].run, "PROMOTING") /\ ~Has(log, proc[p].run, "PROMOTED")
    BY DEF PromoteInv, PromoteOf
  <1>3. ~Has(log', proc[p].run, "PROMOTING") /\ ~Has(log', proc[p].run, "PROMOTED")
    BY <1>2 DEF Stores
  <1>4. \A r \in Runs : r = proc[p].run => RunEnds(r)'
    BY <1>3 DEF RunEnds
  <1>5. PromoteOf(p)'
    BY <1>3 DEF PromoteOf, Publishing, Unchecked, Quarantining, Promoting
  <1>6. QED
    BY <1>1, <1>4, <1>5, PromoteMove

\* Every step of a call keeps blocked and promoted runs apart.
LEMMA PromoteStep ==
    ASSUME TypeInv, OneCallPerRun, PromoteInv, NEW p \in Procs, Step(p)
    PROVE  PromoteInv'
  <1>0. /\ proc \in [Procs -> Call] /\ TypeOK /\ Ordered(log) /\ StoreType /\ PromoteOf(p)
        /\ proc[p].pc # "idle" /\ proc[p].run \in Runs /\ RunEnds(proc[p].run)
    BY TypeParts, StepGrows, RunOfCall DEF PromoteInv, TypeInv
  <1> USE DEF PC, RunState, Publishing, Unchecked, Quarantining, Promoting
  <1>1. CASE LogStaging(p)
    <2>1. Turns(p, "write_staging") /\ proc[p].pc = "staging"
      BY <1>0, <1>1, GotoTurns DEF LogStaging
    <2>2. Stores(proc[p].run, "STAGING") /\ check' = check
      BY <1>1, LogStores DEF LogStaging
    <2>3. QED
      BY <2>1, <2>2, PromotePublishing DEF Turns, GoesOn
  <1>2. CASE WriteStaging(p)
    <2>1. Turns(p, "staged") /\ proc[p].pc = "write_staging" /\ log' = log /\ check' = check
      BY <1>0, <1>2, GotoTurns DEF WriteStaging, store
    <2>2. QED
      BY <2>1, PromotePublishing DEF Turns, GoesOn
  <1>3. CASE LogStaged(p)
    <2>1. Turns(p, "check") /\ proc[p].pc = "staged"
      BY <1>0, <1>3, GotoTurns DEF LogStaged
    <2>2. Stores(proc[p].run, "STAGED") /\ check' = check
      BY <1>3, LogStores DEF LogStaged
    <2>3. QED
      BY <2>1, <2>2, PromotePublishing DEF Turns, GoesOn
  <1>4. CASE CheckStaging(p)
    <2>1. /\ GoesOn(p) /\ proc'[p].pc = "record" /\ proc[p].pc = "check"
          /\ log' = log /\ check' = check
      BY <1>0, <1>4, CheckMoves DEF CheckStaging, store
    <2>2. QED
      BY <2>1, PromotePublishing DEF GoesOn
  <1>5. CASE RecordChecks(p)
    <2>1. /\ GoesOn(p) /\ proc'[p].pc \in {"record", "promote", "quarantine"} /\ proc[p].pc = "record"
          /\ log' = log /\ \A r \in Runs \ {proc[p].run} : check'[r] = check[r]
      BY <1>0, <1>5, RecordMoves, RecordStores DEF RecordChecks, Decision
    <2>2. QED
      BY <2>1, PromotePublishing DEF GoesOn
  <1>6. CASE Quarantine(p)
    <2>1. proc[p].pc = "quarantine"
      BY <1>6 DEF Quarantine
    <2>2. CASE Goto(p, "quarantined") /\ UNCHANGED store
      <3>1. Turns(p, "quarantined") /\ log' = log /\ check' = check
        BY <1>0, <2>2, GotoTurns DEF store
      <3>2. QED
        BY <2>1, <3>1, PromotePublishing DEF Turns, GoesOn
    <2>3. CASE Log(p, "CHECK_ERROR") /\ Finish(p)
      <3>1. Ends(p) /\ Stores(proc[p].run, "CHECK_ERROR") /\ check' = check
        BY <1>0, <2>3, FinishEnds, LogStores
      <3>2. QED
        BY <2>1, <3>1, PromotePublishing DEF Ends
    <2>4. QED
      BY <1>6, <2>2, <2>3 DEF Quarantine
  <1>7. CASE LogQuarantined(p)
    <2>1. Turns(p, "quarantine_drop") /\ proc[p].pc = "quarantined"
      BY <1>0, <1>7, GotoTurns DEF LogQuarantined
    <2>2. Stores(proc[p].run, "QUARANTINED") /\ check' = check
      BY <1>7, LogStores DEF LogQuarantined
    <2>3. QED
      BY <2>1, <2>2, PromotePublishing DEF Turns, GoesOn
  <1>8. CASE DropQuarantined(p)
    <2>1. /\ GoesOn(p) /\ proc'[p].pc = "open_incident" /\ proc[p].pc = "quarantine_drop"
          /\ log' = log /\ check' = check
      BY <1>0, <1>8, DropQuarantinedMoves DEF DropQuarantined, store
    <2>2. QED
      BY <2>1, PromotePublishing DEF GoesOn
  <1>9. CASE OpenIncident(p)
    <2>1. /\ log' = log /\ check' = check /\ proc[p].pc = "open_incident"
          /\ Moves(p) /\ proc'[p].pc \in {"idle", "open_incident", "insert_incident"}
          /\ proc'[p].pc # "idle" => proc'[p].run = proc[p].run
      BY <1>0, <1>9, OpenMoves DEF OpenIncident, store, Ends, GoesOn
    <2>2. QED
      BY <2>1, PromotePublishing
  <1>10. CASE InsertNewIncident(p)
    <2>1. /\ GoesOn(p) /\ proc'[p].pc = "open_incident" /\ proc[p].pc = "insert_incident"
          /\ log' = log /\ check' = check
      BY <1>0, <1>10, InsertMoves DEF InsertNewIncident, store
    <2>2. QED
      BY <2>1, PromotePublishing DEF GoesOn
  <1>11. CASE Promote(p)
    <2>1. log' = log /\ check' = check /\ proc[p].pc = "promote"
      BY <1>11 DEF Promote, store
    <2>2. CASE Goto(p, "promoting") /\ get_run(log, proc[p].run) # "PROMOTED" /\ ~Blocked(proc[p].run)
      <3>1. Turns(p, "promoting")
        BY <1>0, <2>2, GotoTurns
      <3>2. ~Has(log, proc[p].run, "PROMOTED")
        BY <1>0, <2>2 DEF RunEnds
      <3>3. PromoteOf(p)'
        BY <2>1, <2>2, <3>1, <3>2 DEF PromoteOf, Turns, GoesOn, Blocked
      <3>4. QED
        BY <1>0, <2>1, <3>1, <3>3, PromoteQuiet DEF Turns, GoesOn
    <2>3. CASE Goto(p, "promote_drop") \/ Finish(p)
      <3>1. Moves(p) /\ proc'[p].pc \in {"promote_drop", "idle"}
        BY <1>0, <2>3, GotoTurns, FinishEnds DEF Turns, GoesOn, Ends
      <3>2. QED
        BY <1>0, <2>1, <3>1, PromoteQuiet DEF PromoteOf
    <2>4. QED
      BY <1>11, <2>2, <2>3 DEF Promote
  <1>12. CASE LogPromoting(p)
    <2>1. Turns(p, "write_table") /\ proc[p].pc = "promoting"
      BY <1>0, <1>12, GotoTurns DEF LogPromoting
    <2>2. Stores(proc[p].run, "PROMOTING") /\ check' = check
      BY <1>12, LogStores DEF LogPromoting
    <2>3. /\ ~Has(log', proc[p].run, "PROMOTED") /\ Has(log', proc[p].run, "PROMOTING")
          /\ get_run(log', proc[p].run) \in {"PROMOTING", "PROMOTED"}
          /\ ~Blocked(proc[p].run)
      BY <1>0, <2>1, <2>2 DEF Stores, PromoteOf, RunEnds
    <2>4. PromoteOf(p)'
      BY <2>1, <2>2, <2>3 DEF PromoteOf, Turns, GoesOn, Blocked
    <2>5. \A r \in Runs : r = proc[p].run => RunEnds(r)'
      BY <2>3 DEF RunEnds
    <2>6. QED
      BY <1>0, <2>1, <2>2, <2>4, <2>5, PromoteMove DEF Turns, GoesOn
  <1>13. CASE WriteTable(p)
    <2>1. proc[p].pc = "write_table" /\ log' = log /\ check' = check
      BY <1>13 DEF WriteTable, store
    <2>2. CASE Finish(p)
      BY <1>0, <2>1, <2>2, FinishEnds, PromoteQuiet DEF Ends, PromoteOf
    <2>3. CASE Goto(p, "promoted")
      <3>1. Turns(p, "promoted")
        BY <1>0, <2>3, GotoTurns
      <3>2. PromoteOf(p)'
        BY <1>0, <2>1, <3>1 DEF PromoteOf, Turns, GoesOn, Blocked
      <3>3. QED
        BY <1>0, <2>1, <3>1, <3>2, PromoteQuiet DEF Turns, GoesOn
    <2>4. QED
      BY <1>13, <2>2, <2>3 DEF WriteTable
  <1>14. CASE LogPromoted(p)
    <2>1. Turns(p, "promote_drop") /\ proc[p].pc = "promoted"
      BY <1>0, <1>14, GotoTurns DEF LogPromoted
    <2>2. Stores(proc[p].run, "PROMOTED") /\ check' = check
      BY <1>14, LogStores DEF LogPromoted
    <2>3. get_run(log', proc[p].run) = "PROMOTED" /\ ~Blocked(proc[p].run)
      BY <1>0, <2>1, <2>2 DEF Stores, PromoteOf
    <2>4. \A r \in Runs : r = proc[p].run => RunEnds(r)'
      BY <2>2, <2>3 DEF RunEnds, Blocked
    <2>5. PromoteOf(p)'
      BY <2>1 DEF PromoteOf, Turns
    <2>6. QED
      BY <1>0, <2>1, <2>2, <2>4, <2>5, PromoteMove DEF Turns, GoesOn
  <1>15. CASE DropPromoted(p)
    <2>1. Turns(p, "resolve") /\ log' = log /\ check' = check
      BY <1>0, <1>15, GotoTurns DEF DropPromoted, store
    <2>2. QED
      BY <1>0, <2>1, PromoteQuiet DEF Turns, GoesOn, PromoteOf
  <1>16. CASE ListOpen(p)
    <2>1. GoesOn(p) /\ proc'[p].pc = "resolve_write" /\ log' = log /\ check' = check
      BY <1>0, <1>16, ListMoves DEF ListOpen, StoreType, TypeOKIncidents, store
    <2>2. QED
      BY <1>0, <2>1, PromoteQuiet DEF GoesOn, PromoteOf
  <1>17. CASE ResolveRecovered(p)
    <2>1. Ends(p) /\ log' = log /\ check' = check
      BY <1>0, <1>17, FinishEnds DEF ResolveRecovered, store
    <2>2. QED
      BY <1>0, <2>1, PromoteQuiet DEF Ends, PromoteOf
  <1>18. QED
    BY <1>1, <1>2, <1>3, <1>4, <1>5, <1>6, <1>7, <1>8, <1>9, <1>10, <1>11, <1>12, <1>13,
       <1>14, <1>15, <1>16, <1>17 DEF Step

\* So does every step of the system, as long as a run has one call at a time.
LEMMA PromoteNext ==
    ASSUME MaxPublish <= 1, TypeInv, CheckInv, OneCallPerRun, PromoteInv, [Next]_vars
    PROVE  PromoteInv'
  <1> USE DEF store, warehouse, counters, incidentVars
  <1>1. ASSUME NEW p \in Procs, Publish(p)
        PROVE  PromoteInv'
    <2>1. PICK r \in Runs :
              /\ proc[p].pc = "idle" /\ published[r] < MaxPublish
              /\ Moves(p) /\ proc'[p].pc = "staging" /\ proc'[p].run = r
              /\ Stores(r, "STARTED") /\ check' = check
      BY <1>1, PublishType
    <2>2. published[r] = 0
      BY <2>1, PublicationAssumption DEF TypeInv, TypeOK
    <2>3. ~Has(log', r, "PROMOTING") /\ ~Has(log', r, "PROMOTED")
      <3>1. ~Has(log, r, "PROMOTING") /\ ~Has(log, r, "PROMOTED")
        BY <2>2 DEF CheckInv, RowsOf, Has
      <3>2. QED
        BY <2>1, <3>1 DEF Stores
    <2>4. ASSUME NEW q \in Runs
          PROVE  RunEnds(q)'
      BY <2>1, <2>3, <2>4 DEF PromoteInv, RunEnds, Stores, Blocked
    <2>5. PromoteOf(p)'
      BY <2>1, <2>3 DEF PromoteOf, Promoting
    <2>6. ASSUME NEW q \in Procs, q # p
          PROVE  PromoteOf(q)'
      <3>1. proc'[q] = proc[q] /\ PromoteOf(q)
        BY <2>1, <2>6 DEF PromoteInv, Moves
      <3>2. CASE proc[q].pc = "idle"
        BY <3>1, <3>2 DEF PromoteOf, Publishing, Unchecked, Quarantining, Promoting
      <3>3. CASE proc[q].pc # "idle"
        <4>1. proc[q].run \in Runs /\ proc[q].run # r
          BY <2>2, <3>3, RunOfCall DEF CheckInv
        <4>2. QED
          BY <2>1, <3>1, <4>1 DEF PromoteOf, Stores, Blocked
      <3>4. QED
        BY <3>2, <3>3
    <2>7. QED
      BY <2>4, <2>5, <2>6 DEF PromoteInv
  <1>2. ASSUME NEW p \in Procs, Resume(p) \/ Abort(p)
        PROVE  PromoteInv'
    <2>1. Moves(p) /\ proc'[p].pc \in {"promote", "idle"} /\ log' = log /\ check' = check
      BY <1>2, ResumeType, AbortType DEF Ends
    <2>2. QED
      BY <2>1 DEF PromoteInv, RunEnds, PromoteOf, Blocked, Moves, Publishing, Unchecked,
                  Quarantining, Promoting
  <1>3. CASE (\E o \in Operators : OperatorStep(o)) \/ UNCHANGED vars
    <2>1. UNCHANGED <<log, check, proc>>
      BY <1>3 DEF OperatorStep, vars
    <2>2. QED
      BY <2>1 DEF PromoteInv, RunEnds, PromoteOf, Blocked
  <1>4. QED
    BY <1>1, <1>2, <1>3, PromoteStep DEF Next

\* No run is blocked or promoted at the start.
LEMMA PromoteInit == Init => PromoteInv
  BY DEF Init, PromoteInv, RunEnds, PromoteOf, Has, Idle, Publishing, Unchecked, Quarantining, Promoting

\* Only one step writes a target, that of a run logged as PROMOTING.
LEMMA OnlyPromotionWrites ==
    ASSUME TypeInv, [Next]_vars, NEW t \in Targets, table'[t] # table[t]
    PROVE  \E p \in Procs : /\ WriteTable(p) /\ proc[p].pc = "write_table"
                            /\ table'[t].run = proc[p].run /\ TargetOf[proc[p].run] = t
  <1>1. ASSUME table' # table
        PROVE  \E p \in Procs : WriteTable(p)
    <2>1. ASSUME NEW p \in Procs, Publish(p) \/ Resume(p) \/ Abort(p)
          PROVE  FALSE
      BY <1>1, <2>1 DEF Publish, Resume, Abort, warehouse
    <2>2. ASSUME NEW p \in Procs, Step(p)
          PROVE  WriteTable(p)
      BY <1>1, <2>2
      DEF Step, LogStaging, WriteStaging, LogStaged, CheckStaging, RecordChecks, Quarantine,
          LogQuarantined, DropQuarantined, OpenIncident, InsertNewIncident, Promote, LogPromoting,
          LogPromoted, DropPromoted, ListOpen, ResolveRecovered, warehouse
    <2>3. ~UNCHANGED vars /\ ~(\E o \in Operators : OperatorStep(o))
      BY <1>1 DEF vars, OperatorStep, warehouse
    <2>4. QED
      BY <2>1, <2>2, <2>3 DEF Next
  <1>2. PICK p \in Procs : WriteTable(p)
    BY <1>1
  <1>3. /\ proc[p].pc = "write_table" /\ proc[p].run \in Runs
        /\ table \in [Targets -> Rows] /\ TargetOf[proc[p].run] \in Targets
        /\ table' = [table EXCEPT ![TargetOf[proc[p].run]] =
                        [batch |-> staging[proc[p].run], run |-> proc[p].run]]
    BY <1>2, RunOfCall, IncidentsAssumption DEF WriteTable, TypeInv, TypeOK
  <1>4. QED
    BY <1>2, <1>3

\* A run with a stored critical failure is never promoted, by its publication
\* or by a resume after a crash at any point.
THEOREM BlockedIsNotPromoted ==
    MaxPublish <= 1 => (Spec /\ []OneCallPerRun => []BlockedRunIsNotPromoted)
  <1> SUFFICES ASSUME MaxPublish <= 1
               PROVE  Spec /\ []OneCallPerRun => []BlockedRunIsNotPromoted
    OBVIOUS
  <1>1. TypeInv /\ [Next]_vars => TypeInv'
    BY NextType DEF SettableClockNext
  <1>2. TypeInv /\ CheckInv /\ [Next]_vars => CheckInv'
    BY CheckNext
  <1>3. TypeInv /\ CheckInv /\ OneCallPerRun /\ PromoteInv /\ [Next]_vars => PromoteInv'
    BY PromoteNext
  <1>4. Init => CheckInv
    BY EvidenceInit DEF EvidenceInv
  <1>5. PromoteInv => BlockedRunIsNotPromoted
    BY DEF PromoteInv, RunEnds, BlockedRunIsNotPromoted
  <1>6. QED
    BY <1>1, <1>2, <1>3, <1>4, <1>5, InitType, PromoteInit, PTL DEF Spec

\* A promoted run is never written to its target again, however often it is
\* resumed.
THEOREM PromotionHappensOnce ==
    MaxPublish <= 1 => (Spec /\ []OneCallPerRun => PromotionIsIdempotent)
  <1> SUFFICES ASSUME MaxPublish <= 1
               PROVE  Spec /\ []OneCallPerRun => PromotionIsIdempotent
    OBVIOUS
  <1> DEFINE Once == \A t \in Targets : table'[t] # table[t] => ~Has(log, table'[t].run, "PROMOTED")
  <1>1. TypeInv /\ [Next]_vars => TypeInv'
    BY NextType DEF SettableClockNext
  <1>2. TypeInv /\ CheckInv /\ [Next]_vars => CheckInv'
    BY CheckNext
  <1>3. TypeInv /\ CheckInv /\ OneCallPerRun /\ PromoteInv /\ [Next]_vars => PromoteInv'
    BY PromoteNext
  <1>4. Init => CheckInv
    BY EvidenceInit DEF EvidenceInv
  <1>5. TypeInv /\ PromoteInv /\ [Next]_vars => Once
    BY OnlyPromotionWrites DEF PromoteInv, PromoteOf, Promoting
  <1>6. TypeInv /\ PromoteInv /\ [Next]_vars => [Once]_vars
    BY <1>5
  <1> HIDE DEF Once
  <1>7. Spec /\ []OneCallPerRun => [][Once]_vars
    BY <1>1, <1>2, <1>3, <1>4, <1>6, InitType, PromoteInit, PTL DEF Spec
  <1>8. QED
    BY <1>7 DEF PromotionIsIdempotent, Once

-----------------------------------------------------------------------------
(* The certification of a target describes its rows, under a clock that     *)
(* runs and as long as the calls on one target do not overlap: the latest   *)
(* PROMOTED row of a dataset is found by its stamp, across runs.            *)

OneCallPerTarget ==
    \A p, q \in Procs : p # q /\ proc[p].pc # "idle" /\ proc[q].pc # "idle" =>
        TargetOf[proc[p].run] # TargetOf[proc[q].run]

\* Calls of different targets are calls of different runs.
LEMMA TargetsSeparateRuns == OneCallPerTarget => OneCallPerRun
  BY DEF OneCallPerTarget, OneCallPerRun

\* Every stored stamp is in the past, and stamps increase over the whole log.
Stamped ==
    /\ \A i \in DOMAIN log : log[i].at < now
    /\ \A i, j \in DOMAIN log : i < j => log[i].at < log[j].at

Certified(t) ==
    table[t].run # None =>
        /\ TargetOf[table[t].run] = t
        /\ \/ get_run(log, table[t].run) = "PROMOTING"
           \/ get_latest_promoted(log, RunsOf(t), None) = table[t].run

CertInv ==
    /\ Stamped
    /\ \A t \in Targets : Certified(t)
    /\ \A p \in Procs : proc[p].pc = "promoted" => table[TargetOf[proc[p].run]].run = proc[p].run

\* An event gets the time of the clock, and what certifies the targets changes
\* with a PROMOTED row only.
LEMMA LogRunCertifies ==
    ASSUME ClockRuns, TypeInv, Stamped, NEW r \in Runs, NEW s \in RunState, LogRun(r, s)
    PROVE  /\ Stamped'
           /\ \A t \in Targets :
                 get_latest_promoted(log', RunsOf(t), None) =
                     IF ~Has(log, r, s) /\ s = "PROMOTED" /\ TargetOf[r] = t THEN r
                     ELSE get_latest_promoted(log, RunsOf(t), None)
  <1>1. log \in Seq(RunRow) /\ Ordered(log) /\ now \in Nat
    BY DEF TypeInv, TypeOK, RunRow
  <1>2. log' = append_run_event(log, r, s, now) /\ now' = now + 1
    BY DEF LogRun
  <1>3. \A i \in RowsOf(log, r) : log[i].at < now
    BY DEF RowsOf, Stamped
  <1>4. /\ log' \in Seq(RunRow)
        /\ Has(log, r, s) => log' = log
        /\ ~Has(log, r, s) => Extends(log, log', r, s) /\ log'[Len(log) + 1].at = now
    BY <1>1, <1>2, <1>3, AppendExtends
  <1>5. \A i \in DOMAIN log : i \in Nat /\ log[i].at \in Nat
    BY <1>1, RowType
  <1>6. CASE Has(log, r, s)
    <2>1. Stamped'
      BY <1>1, <1>2, <1>4, <1>5, <1>6 DEF Stamped
    <2>2. \A t : RunsOf(t)' = RunsOf(t)
      BY DEF RunsOf
    <2>3. QED
      BY <1>4, <1>6, <2>1, <2>2
  <1>7. CASE ~Has(log, r, s)
    <2> DEFINE m == Len(log) + 1
    <2>1. /\ m \in Nat /\ DOMAIN log = 1..(m - 1)
          /\ DOMAIN log' = DOMAIN log \union {m} /\ m \notin DOMAIN log
          /\ \A i \in DOMAIN log : log'[i] = log[i] /\ i < m
          /\ log'[m].at = now
      BY <1>1, <1>4, <1>7 DEF Extends
    <2> HIDE DEF m
    <2>2. Stamped'
      BY <1>1, <1>2, <1>5, <2>1 DEF Stamped
    <2>3. \A i \in DOMAIN log : log[i].at < log'[Len(log) + 1].at
      BY <2>1 DEF Stamped, m
    <2>4. ASSUME NEW t \in Targets
          PROVE  get_latest_promoted(log', RunsOf(t), None) =
                     IF s = "PROMOTED" /\ TargetOf[r] = t THEN r
                     ELSE get_latest_promoted(log, RunsOf(t), None)
      <3>1. RunsOf(t) \in SUBSET Runs /\ (r \in RunsOf(t) <=> TargetOf[r] = t)
        BY DEF RunsOf
      <3>2. \A i, j \in DOMAIN log : i < j => log[i].at < log[j].at
        BY DEF Stamped
      <3>3. get_latest_promoted(log', RunsOf(t), None) =
                IF r \in RunsOf(t) /\ s = "PROMOTED" THEN r
                ELSE get_latest_promoted(log, RunsOf(t), None)
        BY <1>1, <1>4, <1>7, <2>3, <3>1, <3>2, ExtendedCertification
      <3>4. QED
        BY <3>1, <3>3
    <2>5. QED
      BY <1>7, <2>2, <2>4
  <1>8. QED
    BY <1>6, <1>7

\* A row that is neither the promotion of a run nor after it leaves the
\* certifications as they are.
LEMMA CertLogged ==
    ASSUME ClockRuns, TypeInv, CertInv, NEW r \in Runs, NEW s \in RunState \ {"PROMOTED"},
           LogRun(r, s), Stores(r, s), s = "PROMOTING" \/ ~Has(log, r, "PROMOTING"), table' = table
    PROVE  Stamped' /\ \A t \in Targets : Certified(t)'
  <1>1. /\ Stamped'
        /\ \A t \in Targets : get_latest_promoted(log', RunsOf(t), None) = get_latest_promoted(log, RunsOf(t), None)
    BY LogRunCertifies DEF CertInv
  <1>2. ASSUME NEW t \in Targets
        PROVE  Certified(t)'
    <2>1. Certified(t) /\ table'[t] = table[t] /\ (table[t].run # None => table[t].run \in Runs)
      BY DEF CertInv, TypeInv, TypeOK, Rows
    <2>2. ~Has(log, r, "PROMOTING") => get_run(log, r) # "PROMOTING"
      BY ReportedIsStored DEF TypeInv, RunState
    <2>3. table[t].run # None /\ get_run(log, table[t].run) = "PROMOTING" =>
              get_run(log', table[t].run) = "PROMOTING"
      BY <2>1, <2>2 DEF Stores
    <2>4. RunsOf(t)' = RunsOf(t)
      BY DEF RunsOf
    <2>5. QED
      BY <1>1, <2>1, <2>3, <2>4 DEF Certified
  <1>3. QED
    BY <1>1, <1>2

\* A step that writes neither the log nor a target.
LEMMA CertQuiet ==
    ASSUME CertInv, NEW p \in Procs, Moves(p), UNCHANGED <<log, now, table>>,
           proc'[p].pc # "promoted"
    PROVE  CertInv'
  <1>1. \A t : RunsOf(t)' = RunsOf(t)
    BY DEF RunsOf
  <1>2. QED
    BY <1>1 DEF CertInv, Stamped, Certified, Moves

\* A step of p that logs an event other than PROMOTED.
LEMMA CertLogStep ==
    ASSUME ClockRuns, TypeInv, CertInv, NEW p \in Procs, Moves(p), proc'[p].pc # "promoted",
           NEW r \in Runs, NEW s \in RunState \ {"PROMOTED"},
           LogRun(r, s), s = "PROMOTING" \/ ~Has(log, r, "PROMOTING"), table' = table
    PROVE  CertInv'
  <1>1. Stores(r, s)
    BY LogRunStores
  <1>2. Stamped' /\ \A t \in Targets : Certified(t)'
    BY <1>1, CertLogged
  <1>3. QED
    BY <1>2 DEF CertInv, Moves

\* Every step of a call keeps the latest promoted run of a target the one whose
\* rows it holds.
LEMMA CertStep ==
    ASSUME ClockRuns, TypeInv, OneCallPerTarget, PromoteInv, CertInv, NEW p \in Procs, Step(p)
    PROVE  CertInv'
  <1>0. /\ proc \in [Procs -> Call] /\ TypeOK /\ StoreType /\ PromoteOf(p)
        /\ proc[p].pc # "idle" /\ proc[p].run \in Runs /\ RunEnds(proc[p].run)
    BY TypeParts, StepGrows, RunOfCall DEF PromoteInv, TypeInv
  <1> USE DEF PC, RunState, Publishing, Unchecked, Quarantining, Promoting
  <1>1. CASE LogStaging(p)
    BY <1>0, <1>1, GotoTurns, CertLogStep DEF LogStaging, Log, Turns, GoesOn, warehouse, PromoteOf
  <1>2. CASE LogStaged(p)
    BY <1>0, <1>2, GotoTurns, CertLogStep DEF LogStaged, Log, Turns, GoesOn, warehouse, PromoteOf
  <1>3. CASE LogQuarantined(p)
    BY <1>0, <1>3, GotoTurns, CertLogStep DEF LogQuarantined, Log, Turns, GoesOn, warehouse, PromoteOf
  <1>4. CASE LogPromoting(p)
    BY <1>0, <1>4, GotoTurns, CertLogStep DEF LogPromoting, Log, Turns, GoesOn, warehouse
  <1>5. CASE Quarantine(p)
    <2>1. proc[p].pc = "quarantine" /\ table' = table
      BY <1>5 DEF Quarantine
    <2>2. CASE Goto(p, "quarantined") /\ UNCHANGED <<store, counters>>
      BY <1>0, <2>1, <2>2, GotoTurns, CertQuiet DEF Turns, GoesOn, store, counters
    <2>3. CASE Log(p, "CHECK_ERROR") /\ Finish(p)
      BY <1>0, <2>1, <2>3, FinishEnds, CertLogStep DEF Log, Ends, PromoteOf
    <2>4. QED
      BY <1>5, <2>2, <2>3 DEF Quarantine
  <1>6. CASE WriteTable(p)
    <2>1. proc[p].pc = "write_table" /\ UNCHANGED <<log, now>>
      BY <1>6 DEF WriteTable, store, counters
    <2>2. CASE Finish(p) /\ table' = table
      BY <1>0, <2>1, <2>2, FinishEnds, CertQuiet DEF Ends
    <2>3. CASE Goto(p, "promoted")
      <3>1. Turns(p, "promoted") /\ TargetOf[proc[p].run] \in Targets
        BY <1>0, <2>3, GotoTurns, IncidentsAssumption
      <3>2. /\ table'[TargetOf[proc[p].run]].run = proc[p].run
            /\ \A t \in Targets : t # TargetOf[proc[p].run] => table'[t] = table[t]
        <4>1. CASE staging[proc[p].run] = None
          BY <1>0, <1>6, <2>3, <3>1, <4>1, FinishEnds DEF WriteTable, Ends, Turns
        <4>2. CASE staging[proc[p].run] # None
          BY <1>0, <1>6, <3>1, <4>2 DEF WriteTable, StoreType
        <4>3. QED
          BY <4>1, <4>2
      <3>3. get_run(log, proc[p].run) = "PROMOTING"
        <4>1. Has(log, proc[p].run, "PROMOTING") /\ ~Has(log, proc[p].run, "PROMOTED")
          BY <1>0, <2>1 DEF PromoteOf
        <4>2. get_run(log, proc[p].run) \in {"PROMOTING", "PROMOTED"}
          BY <1>0, <4>1 DEF RunEnds
        <4>3. QED
          BY <1>0, <4>1, <4>2, ReportedIsStored DEF TypeInv
      <3>4. ASSUME NEW t \in Targets
            PROVE  Certified(t)'
        <4>1. RunsOf(t)' = RunsOf(t)
          BY DEF RunsOf
        <4>2. CASE t = TargetOf[proc[p].run]
          BY <2>1, <3>2, <3>3, <4>2 DEF Certified
        <4>3. CASE t # TargetOf[proc[p].run]
          BY <2>1, <3>2, <4>1, <4>3 DEF CertInv, Certified
        <4>4. QED
          BY <4>2, <4>3
      <3>5. ASSUME NEW q \in Procs, proc'[q].pc = "promoted"
            PROVE  table'[TargetOf[proc'[q].run]].run = proc'[q].run
        <4>1. CASE q = p
          BY <3>1, <3>2, <4>1 DEF Turns, GoesOn
        <4>2. CASE q # p
          <5>1. proc'[q] = proc[q] /\ proc[q].pc # "idle"
            BY <3>1, <3>5, <4>2 DEF Turns, GoesOn, Moves
          <5>2. TargetOf[proc[q].run] # TargetOf[proc[p].run] /\ proc[q].run \in Runs
            BY <1>0, <4>2, <5>1, RunOfCall DEF OneCallPerTarget
          <5>3. TargetOf[proc[q].run] \in Targets
            BY <5>2, IncidentsAssumption
          <5>4. QED
            BY <3>2, <3>5, <5>1, <5>2, <5>3 DEF CertInv
        <4>3. QED
          BY <4>1, <4>2
      <3>6. QED
        BY <2>1, <3>4, <3>5 DEF CertInv, Stamped
    <2>4. QED
      BY <1>6, <2>2, <2>3 DEF WriteTable
  <1>7. CASE LogPromoted(p)
    <2> DEFINE r == proc[p].run
               o == TargetOf[r]
    <2>1. /\ Turns(p, "promote_drop") /\ proc[p].pc = "promoted" /\ LogRun(r, "PROMOTED")
          /\ table' = table /\ o \in Targets
      BY <1>0, <1>7, GotoTurns, IncidentsAssumption DEF LogPromoted, Log, warehouse
    <2>2. ~Has(log, r, "PROMOTED") /\ table[o].run = r
      BY <1>0, <2>1 DEF PromoteOf, CertInv
    <2>3. /\ Stamped'
          /\ \A t \in Targets : get_latest_promoted(log', RunsOf(t), None) =
                 IF o = t THEN r ELSE get_latest_promoted(log, RunsOf(t), None)
      BY <1>0, <2>1, <2>2, LogRunCertifies DEF CertInv
    <2>4. \A q \in Runs : q # r => get_run(log', q) = get_run(log, q)
      BY <1>0, <2>1, LogRunStores DEF Stores
    <2>5. ASSUME NEW t \in Targets
          PROVE  Certified(t)'
      <3>1. RunsOf(t)' = RunsOf(t) /\ table'[t] = table[t] /\ Certified(t)
            /\ (table[t].run # None => table[t].run \in Runs)
        BY <1>0, <2>1 DEF RunsOf, CertInv, StoreType, Rows
      <3>2. CASE t = o
        BY <2>2, <2>3, <3>1, <3>2 DEF Certified
      <3>3. CASE t # o
        <4>1. table[t].run # None => table[t].run # r
          BY <3>1, <3>3 DEF Certified
        <4>2. QED
          BY <2>3, <2>4, <3>1, <3>3, <4>1 DEF Certified
      <3>4. QED
        BY <3>2, <3>3
    <2>6. QED
      BY <2>1, <2>3, <2>5 DEF CertInv, Turns, GoesOn, Moves
  <1>8. ASSUME ~LogStaging(p), ~LogStaged(p), ~LogQuarantined(p), ~LogPromoting(p),
               ~Quarantine(p), ~WriteTable(p), ~LogPromoted(p)
        PROVE  CertInv'
    <2>1. UNCHANGED <<log, now, table>>
      BY <1>8
      DEF Step, WriteStaging, CheckStaging, RecordChecks, DropQuarantined, OpenIncident,
          InsertNewIncident, Promote, DropPromoted, ListOpen, ResolveRecovered, store, counters, warehouse
    <2>2. \/ \E k \in PC \ {"promoted"} : Goto(p, k)
          \/ Finish(p)
          \/ CheckStaging(p) \/ RecordChecks(p) \/ DropQuarantined(p) \/ OpenIncident(p)
          \/ InsertNewIncident(p) \/ ListOpen(p)
      BY <1>8 DEF Step, WriteStaging, Promote, DropPromoted, ResolveRecovered
    <2>3. Moves(p) /\ proc'[p].pc # "promoted"
      BY <1>0, <2>2, FinishEnds, GotoTurns, CheckMoves, RecordMoves, DropQuarantinedMoves, OpenMoves,
         InsertMoves, ListMoves
      DEF Ends, Turns, GoesOn, Decision, StoreType, TypeOKIncidents
    <2>4. QED
      BY <2>1, <2>3, CertQuiet
  <1>9. QED
    BY <1>1, <1>2, <1>3, <1>4, <1>5, <1>6, <1>7, <1>8

\* So does every step of the system.
LEMMA CertNext ==
    ASSUME MaxPublish <= 1, ClockRuns, TypeInv, CheckInv, OneCallPerTarget, PromoteInv, CertInv,
           [Next]_vars
    PROVE  CertInv'
  <1> USE DEF store, warehouse, counters, incidentVars
  <1>1. ASSUME NEW p \in Procs, Publish(p)
        PROVE  CertInv'
    <2>1. PICK r \in Runs :
              /\ published[r] < MaxPublish
              /\ Moves(p) /\ proc'[p].pc = "staging"
              /\ LogRun(r, "STARTED") /\ table' = table
      BY <1>1, PublishType
    <2>2. published[r] = 0
      BY <2>1, PublicationAssumption DEF TypeInv, TypeOK
    <2>3. ~Has(log, r, "PROMOTING")
      BY <2>2 DEF CheckInv, RowsOf, Has
    <2>4. QED
      BY <2>1, <2>3, CertLogStep DEF RunState
  <1>2. ASSUME NEW p \in Procs, Resume(p) \/ Abort(p)
        PROVE  CertInv'
    <2>1. Moves(p) /\ proc'[p].pc \in {"promote", "idle"} /\ UNCHANGED <<log, now, table>>
      BY <1>2, ResumeType, AbortType DEF Ends
    <2>2. QED
      BY <2>1, CertQuiet
  <1>3. CASE (\E o \in Operators : OperatorStep(o)) \/ UNCHANGED vars
    <2>1. UNCHANGED <<log, now, table, proc>>
      BY <1>3 DEF OperatorStep, vars
    <2>2. \A t : RunsOf(t)' = RunsOf(t)
      BY DEF RunsOf
    <2>3. QED
      BY <2>1, <2>2 DEF CertInv, Stamped, Certified
  <1>4. QED
    BY <1>1, <1>2, <1>3, CertStep DEF Next

\* The rows of a target are those of the run that its certification names, or
\* of a run that is still being promoted and that a resume completes.
THEOREM CertificationIsTrue ==
    MaxPublish <= 1 /\ ClockRuns =>
        (Spec /\ []OneCallPerTarget => []CertificationDescribesTable)
  <1> SUFFICES ASSUME MaxPublish <= 1, ClockRuns
               PROVE  Spec /\ []OneCallPerTarget => []CertificationDescribesTable
    OBVIOUS
  <1>1. TypeInv /\ [Next]_vars => TypeInv'
    BY NextType DEF SettableClockNext
  <1>2. TypeInv /\ CheckInv /\ [Next]_vars => CheckInv'
    BY CheckNext
  <1>3. TypeInv /\ CheckInv /\ OneCallPerTarget /\ PromoteInv /\ [Next]_vars => PromoteInv'
    BY PromoteNext, TargetsSeparateRuns
  <1>4. TypeInv /\ CheckInv /\ OneCallPerTarget /\ PromoteInv /\ CertInv /\ [Next]_vars => CertInv'
    BY CertNext
  <1>5. Init => CheckInv /\ PromoteInv /\ CertInv
    <2>1. Init => CertInv
      BY DEF Init, CertInv, Stamped, Certified, Idle
    <2>2. QED
      BY <2>1, EvidenceInit, PromoteInit DEF EvidenceInv
  <1>6. CertInv => CertificationDescribesTable
    BY DEF CertInv, Certified, CertificationDescribesTable
  <1>7. QED
    BY <1>1, <1>2, <1>3, <1>4, <1>5, <1>6, InitType, PTL DEF Spec

-----------------------------------------------------------------------------
(* Without resumes, nothing unchecked reaches a target.                     *)

\* What the call of p publishes, and what is known of it.
CleanOf(p) ==
    LET c == proc[p]
    IN  /\ c.pc # "idle" => c.batch \in Batches /\ staging[c.run] \in {None, c.batch}
        /\ c.pc = "record" => Fails[c.batch] \subseteq c.report
        /\ c.pc \in {"promote"} \union Promoting => Fails[c.batch] = {}

CleanInv ==
    /\ TargetPassedChecks /\ OneCallPerRun
    /\ \A r \in Runs : published[r] = 0 => staging[r] = None
    /\ \A p \in Procs : CleanOf(p)

\* A step of p touches the staging table of its own run only.
LEMMA CleanMove ==
    ASSUME TypeInv, CheckInv, CleanInv, NEW p \in Procs, Moves(p), proc[p].pc # "idle",
           published' = published,
           \A r \in Runs \ {proc[p].run} : staging'[r] = staging[r],
           proc'[p].pc # "idle" => proc'[p].run = proc[p].run,
           TargetPassedChecks', CleanOf(p)'
    PROVE  CleanInv'
  <1>1. \A q \in Procs : proc[q].pc # "idle" => proc[q].run \in Runs /\ published[proc[q].run] > 0
    BY RunOfCall DEF CheckInv
  <1>2. OneCallPerRun'
    BY DEF CleanInv, OneCallPerRun, Moves
  <1>3. \A r \in Runs : published'[r] = 0 => staging'[r] = None
    BY <1>1 DEF CleanInv
  <1>4. ASSUME NEW q \in Procs, q # p
        PROVE  CleanOf(q)'
    BY <1>1, <1>4 DEF CleanInv, CleanOf, OneCallPerRun, Moves, Promoting
  <1>5. QED
    BY <1>2, <1>3, <1>4 DEF CleanInv

\* One that writes neither a target nor a staging table.
LEMMA CleanQuiet ==
    ASSUME TypeInv, CheckInv, CleanInv, NEW p \in Procs, Moves(p), proc[p].pc # "idle",
           UNCHANGED <<published, staging, table>>,
           \/ proc'[p].pc = "idle"
           \/ GoesOn(p) /\ (proc'[p].pc = "record" => Fails[proc[p].batch] \subseteq proc'[p].report)
                        /\ (proc'[p].pc \in {"promote"} \union Promoting => Fails[proc[p].batch] = {})
    PROVE  CleanInv'
  <1>1. TargetPassedChecks'
    BY DEF CleanInv, TargetPassedChecks
  <1>2. CleanOf(p) /\ CleanOf(p)'
    BY DEF CleanInv, CleanOf, GoesOn, Promoting
  <1>3. QED
    BY <1>1, <1>2, CleanMove DEF GoesOn

\* Every step of a call keeps unchecked rows out of the targets.
LEMMA CleanStep ==
    ASSUME TypeInv, CheckInv, CleanInv, NEW p \in Procs, Step(p)
    PROVE  CleanInv'
  <1>0. /\ proc \in [Procs -> Call] /\ TypeOK /\ StoreType /\ CleanOf(p)
        /\ proc[p].pc # "idle" /\ proc[p].run \in Runs
        /\ proc[p].batch \in Batches /\ staging[proc[p].run] \in {None, proc[p].batch}
    BY TypeParts, StepGrows, RunOfCall DEF CleanInv, CleanOf, TypeInv
  <1> USE DEF PC, RunState, Promoting
  <1>1. CASE WriteStaging(p)
    <2>1. Turns(p, "staged") /\ UNCHANGED <<table, published>>
      BY <1>0, <1>1, GotoTurns DEF WriteStaging, counters
    <2>2. staging' = [staging EXCEPT ![proc[p].run] = proc[p].batch] /\ staging \in [Runs -> Batches \union {None}]
      BY <1>0, <1>1 DEF WriteStaging, StoreType
    <2>3. CleanOf(p)' /\ \A r \in Runs \ {proc[p].run} : staging'[r] = staging[r]
      BY <1>0, <2>1, <2>2 DEF CleanOf, Turns, GoesOn
    <2>4. QED
      BY <1>0, <2>1, <2>3, CleanMove DEF Turns, GoesOn, CleanInv, TargetPassedChecks
  <1>2. CASE DropQuarantined(p)
    <2>1. GoesOn(p) /\ proc'[p].pc = "open_incident" /\ UNCHANGED <<table, published>>
      BY <1>0, <1>2, DropQuarantinedMoves DEF DropQuarantined, counters
    <2>2. staging' = [staging EXCEPT ![proc[p].run] = None] /\ staging \in [Runs -> Batches \union {None}]
      BY <1>0, <1>2 DEF DropQuarantined, StoreType
    <2>3. CleanOf(p)' /\ \A r \in Runs \ {proc[p].run} : staging'[r] = staging[r]
      BY <1>0, <2>1, <2>2 DEF CleanOf, GoesOn
    <2>4. QED
      BY <1>0, <2>1, <2>3, CleanMove DEF GoesOn, CleanInv, TargetPassedChecks
  <1>3. CASE DropPromoted(p)
    <2>1. Turns(p, "resolve") /\ UNCHANGED <<table, published>>
      BY <1>0, <1>3, GotoTurns DEF DropPromoted, counters
    <2>2. staging' = [staging EXCEPT ![proc[p].run] = None] /\ staging \in [Runs -> Batches \union {None}]
      BY <1>0, <1>3 DEF DropPromoted, StoreType
    <2>3. CleanOf(p)' /\ \A r \in Runs \ {proc[p].run} : staging'[r] = staging[r]
      BY <1>0, <2>1, <2>2 DEF CleanOf, Turns, GoesOn
    <2>4. QED
      BY <1>0, <2>1, <2>3, CleanMove DEF Turns, GoesOn, CleanInv, TargetPassedChecks
  <1>4. CASE CheckStaging(p)
    <2>1. /\ GoesOn(p) /\ proc'[p].pc = "record" /\ UNCHANGED <<published, staging, table>>
          /\ IF staging[proc[p].run] = None THEN proc'[p].report = Checks
             ELSE Fails[staging[proc[p].run]] \subseteq proc'[p].report
      BY <1>0, <1>4, CheckMoves DEF CheckStaging, warehouse, counters
    <2>2. Fails[proc[p].batch] \subseteq proc'[p].report
      BY <1>0, <2>1, PublicationAssumption
    <2>3. QED
      BY <1>0, <2>1, <2>2, CleanQuiet DEF GoesOn
  <1>5. CASE RecordChecks(p)
    <2>1. /\ GoesOn(p) /\ SameReport(p) /\ UNCHANGED <<published, staging, table>>
          /\ proc[p].pc = "record" /\ proc'[p].pc \in {"record", Decision(p)}
      BY <1>0, <1>5, RecordMoves DEF RecordChecks, warehouse, counters
    <2>2. Fails[proc[p].batch] \subseteq proc[p].report
      BY <1>0, <2>1 DEF CleanOf
    <2>3. proc'[p].pc = "promote" => Fails[proc[p].batch] = {}
      BY <2>1, <2>2 DEF Decision
    <2>4. proc'[p].pc \in {"record", "promote", "quarantine"} /\ proc'[p].report = proc[p].report
      BY <2>1 DEF Decision, SameReport
    <2>5. QED
      BY <1>0, <2>1, <2>2, <2>3, <2>4, CleanQuiet DEF GoesOn
  <1>6. CASE WriteTable(p)
    <2>1. proc[p].pc = "write_table" /\ UNCHANGED <<staging, published>>
      BY <1>6 DEF WriteTable, counters
    <2>2. CASE staging[proc[p].run] = None
      <3>1. Ends(p) /\ table' = table
        BY <1>0, <1>6, <2>2, FinishEnds DEF WriteTable
      <3>2. QED
        BY <1>0, <2>1, <3>1, CleanQuiet DEF Ends
    <2>3. CASE staging[proc[p].run] # None
      <3>1. /\ Turns(p, "promoted") /\ TargetOf[proc[p].run] \in Targets
            /\ table' = [table EXCEPT ![TargetOf[proc[p].run]] =
                            [batch |-> proc[p].batch, run |-> proc[p].run]]
        BY <1>0, <1>6, <2>3, GotoTurns, IncidentsAssumption DEF WriteTable
      <3>2. Fails[proc[p].batch] = {}
        BY <1>0, <2>1 DEF CleanOf
      <3>3. TargetPassedChecks'
        BY <1>0, <3>1, <3>2 DEF CleanInv, TargetPassedChecks, StoreType
      <3>4. CleanOf(p)'
        BY <1>0, <2>1, <3>1, <3>2 DEF CleanOf, Turns, GoesOn
      <3>5. QED
        BY <1>0, <2>1, <3>1, <3>3, <3>4, CleanMove DEF Turns, GoesOn
    <2>4. QED
      BY <2>2, <2>3
  <1>7. ASSUME ~WriteStaging(p), ~DropQuarantined(p), ~DropPromoted(p), ~CheckStaging(p),
               ~RecordChecks(p), ~WriteTable(p)
        PROVE  CleanInv'
    <2>1. UNCHANGED <<published, staging, table>>
      BY <1>7
      DEF Step, LogStaging, LogStaged, Quarantine, LogQuarantined, OpenIncident, InsertNewIncident,
          Promote, LogPromoting, LogPromoted, ListOpen, ResolveRecovered, Log, counters, warehouse
    <2>2. \/ Finish(p) \/ OpenIncident(p) \/ InsertNewIncident(p) \/ ListOpen(p)
          \/ \E k \in {"write_staging", "check", "quarantined", "quarantine_drop", "promote_drop"} : Goto(p, k)
          \/ proc[p].pc = "promote" /\ Goto(p, "promoting")
          \/ proc[p].pc = "promoting" /\ Goto(p, "write_table")
      BY <1>7
      DEF Step, LogStaging, LogStaged, Quarantine, LogQuarantined, Promote, LogPromoting, LogPromoted,
          ResolveRecovered
    <2>3. CASE Finish(p)
      BY <1>0, <2>1, <2>3, FinishEnds, CleanQuiet DEF Ends
    <2>4. CASE OpenIncident(p) \/ InsertNewIncident(p) \/ ListOpen(p)
      <3>1. Ends(p) \/ (GoesOn(p) /\ proc'[p].pc \in {"insert_incident", "open_incident", "resolve_write"})
        BY <1>0, <2>4, OpenMoves, InsertMoves, ListMoves DEF StoreType, TypeOKIncidents
      <3>2. QED
        BY <1>0, <2>1, <3>1, CleanQuiet DEF Ends, GoesOn
    <2>5. ASSUME NEW k \in {"write_staging", "check", "quarantined", "quarantine_drop", "promote_drop"},
                 Goto(p, k)
          PROVE  CleanInv'
      BY <1>0, <2>1, <2>5, GotoTurns, CleanQuiet DEF Turns, GoesOn
    <2>6. ASSUME NEW k \in {"promoting", "write_table"}, Goto(p, k),
                 proc[p].pc \in {"promote", "promoting"}
          PROVE  CleanInv'
      BY <1>0, <2>1, <2>6, GotoTurns, CleanQuiet DEF Turns, GoesOn, CleanOf
    <2>7. QED
      BY <2>2, <2>3, <2>4, <2>5, <2>6
  <1>8. QED
    BY <1>1, <1>2, <1>3, <1>4, <1>5, <1>6, <1>7

\* So does every step of the system, as long as nothing is resumed.
LEMMA CleanNext ==
    ASSUME MaxPublish <= 1, Resumers = {}, TypeInv, CheckInv, CleanInv, [Next]_vars
    PROVE  CleanInv'
  <1> USE DEF store, warehouse, counters, incidentVars
  <1>1. ASSUME NEW p \in Procs, Publish(p)
        PROVE  CleanInv'
    <2>1. PICK r \in Runs, b \in Batches :
              /\ proc[p].pc = "idle" /\ published[r] < MaxPublish
              /\ published' = [published EXCEPT ![r] = @ + 1]
              /\ Moves(p) /\ proc'[p].pc = "staging" /\ proc'[p].run = r /\ proc'[p].batch = b
              /\ staging' = staging /\ table' = table
      BY <1>1, PublishType
    <2>2. /\ published \in [Runs -> Nat] /\ published[r] = 0
          /\ \A q \in Runs : published'[q] = 0 => published[q] = 0
      BY <2>1, PublicationAssumption DEF TypeInv, TypeOK
    <2>3. \A q \in Procs : proc[q].pc # "idle" => proc[q].run # r
      BY <2>2 DEF CheckInv
    <2>4. OneCallPerRun'
      BY <2>1, <2>3 DEF CleanInv, OneCallPerRun, Moves
    <2>5. CleanOf(p)'
      BY <2>1, <2>2 DEF CleanInv, CleanOf, Promoting
    <2>6. \A q \in Procs : q # p => CleanOf(q)'
      BY <2>1 DEF CleanInv, CleanOf, Moves
    <2>7. QED
      BY <2>1, <2>2, <2>4, <2>5, <2>6 DEF CleanInv, TargetPassedChecks
  <1>2. ASSUME NEW p \in Procs, Resume(p)
        PROVE  FALSE
    BY <1>2, ResumeType
  <1>3. ASSUME NEW p \in Procs, Abort(p)
        PROVE  CleanInv'
    <2>1. Ends(p) /\ UNCHANGED <<published, staging, table>> /\ proc[p].pc # "idle"
      BY <1>3, AbortType DEF Abort
    <2>2. QED
      BY <2>1, CleanQuiet DEF Ends
  <1>4. CASE (\E o \in Operators : OperatorStep(o)) \/ UNCHANGED vars
    <2>1. UNCHANGED <<published, staging, table, proc>>
      BY <1>4 DEF OperatorStep, vars
    <2>2. QED
      BY <2>1 DEF CleanInv, TargetPassedChecks, OneCallPerRun, CleanOf
  <1>5. QED
    BY <1>1, <1>2, <1>3, <1>4, CleanStep DEF Next

\* The targets are empty at the start.
LEMMA CleanInit == Init => CleanInv
  BY DEF Init, CleanInv, TargetPassedChecks, OneCallPerRun, CleanOf, Idle, Promoting

\* "Only promoted to the target when no critical check blocks publication":
\* as long as runs are not resumed, a target holds only batches whose critical
\* checks passed, although any number of processes publish and stop anywhere.
\* (A resumed run is promoted on the checks stored so far; see the run
\* publication_unchecked.)
THEOREM PublishedDataPassedChecks ==
    MaxPublish <= 1 /\ Resumers = {} => (Spec => []TargetPassedChecks)
  <1> SUFFICES ASSUME MaxPublish <= 1, Resumers = {}
               PROVE  Spec => []TargetPassedChecks
    OBVIOUS
  <1>1. TypeInv /\ [Next]_vars => TypeInv'
    BY NextType DEF SettableClockNext
  <1>2. TypeInv /\ CheckInv /\ [Next]_vars => CheckInv'
    BY CheckNext
  <1>3. TypeInv /\ CheckInv /\ CleanInv /\ [Next]_vars => CleanInv'
    BY CleanNext
  <1>4. Init => CheckInv
    BY EvidenceInit DEF EvidenceInv
  <1>5. CleanInv => TargetPassedChecks
    BY DEF CleanInv
  <1>6. QED
    BY <1>1, <1>2, <1>3, <1>4, <1>5, InitType, CleanInit, PTL DEF Spec

\* Nor do two calls then work on one run, so that a blocked run is not
\* promoted, and a promoted one not promoted again, whatever else happens.
THEOREM PublishedRunsAreSafe ==
    MaxPublish <= 1 /\ Resumers = {} => (Spec => []BlockedRunIsNotPromoted /\ PromotionIsIdempotent)
  <1> SUFFICES ASSUME MaxPublish <= 1, Resumers = {}
               PROVE  Spec => []BlockedRunIsNotPromoted /\ PromotionIsIdempotent
    OBVIOUS
  <1>1. TypeInv /\ [Next]_vars => TypeInv'
    BY NextType DEF SettableClockNext
  <1>2. TypeInv /\ CheckInv /\ [Next]_vars => CheckInv'
    BY CheckNext
  <1>3. TypeInv /\ CheckInv /\ CleanInv /\ [Next]_vars => CleanInv'
    BY CleanNext
  <1>4. Init => CheckInv
    BY EvidenceInit DEF EvidenceInv
  <1>5. CleanInv => OneCallPerRun
    BY DEF CleanInv
  <1>6. Spec => []OneCallPerRun
    BY <1>1, <1>2, <1>3, <1>4, <1>5, InitType, CleanInit, PTL DEF Spec
  <1>7. QED
    BY <1>6, BlockedIsNotPromoted, PromotionHappensOnce, PTL

-----------------------------------------------------------------------------
(* A run_id that is published again.  Its second publication stages other   *)
(* rows and may even pass its checks, but what was logged stays: a run that *)
(* has an outcome is not promoted once more.                                *)

Outcomes == {"PROMOTED", "QUARANTINED", "CHECK_ERROR"}

\* The run has an outcome, and a new publication will log nothing before one.
Settled(r) ==
    /\ get_run(log, r) \in Outcomes
    /\ Has(log, r, "STARTED") /\ Has(log, r, "STAGING") /\ Has(log, r, "STAGED")

\* What the first publication of a run has logged by the time it reaches k.
Passed(k) ==
    {"STARTED"} \union (IF k = "staging" THEN {} ELSE {"STAGING"})
    \union (IF k \in {"staging", "write_staging", "staged"} THEN {} ELSE {"STAGED"})
    \union (IF k \in {"write_table", "promoted"} THEN {"PROMOTING"} ELSE {})

Deciding == {"check", "record", "quarantine", "quarantined", "promote"}

\* The first publication of a run, before its outcome: nothing else has logged,
\* staged or checked anything for the run.
FirstOf(p) ==
    LET c == proc[p]
    IN  /\ c.batch \in Batches
        /\ c.pc \in {"staging", "write_staging", "staged"} \union Deciding \union Promoting
        /\ \A s \in RunState : Has(log, c.run, s) <=> s \in Passed(c.pc)
        /\ c.pc \in Deciding => get_run(log, c.run) = "STAGED"
        /\ c.pc \notin {"staging", "write_staging"} => staging[c.run] = c.batch
        /\ \A k \in Checks :
               /\ c.pc \in Unchecked => check[c.run][k] = "none"
               /\ c.pc = "record" => check[c.run][k] \in {"none", Outcome(p, k)}
        /\ c.pc = "record" => Fails[c.batch] \subseteq c.report
        /\ c.pc \in {"promote"} \union Promoting => Fails[c.batch] = {} /\ ~Blocked(c.run)

\* A call on a run that has its outcome does not promote.
CallOf(p) == FirstOf(p) \/ (Settled(proc[p].run) /\ proc[p].pc \notin Promoting)

RunOnce(r) ==
    \/ RowsOf(log, r) = {} /\ \A k \in Checks : check[r][k] = "none"
    \/ Settled(r)
    \/ \E p \in Procs : proc[p].run = r /\ FirstOf(p)

AgainInv ==
    /\ TargetPassedChecks
    /\ \A r \in Runs : RunOnce(r)
    /\ \A p \in Procs : proc[p].pc # "idle" => CallOf(p)

\* An outcome is final: whatever is logged after it is known, or an outcome.
LEMMA SettledStays ==
    ASSUME NEW r \in Runs, Settled(r),
           log' = log \/ \E s \in RunState \ {"PROMOTING"} : Stores(r, s)
    PROVE  Settled(r)'
  <1>1. CASE log' = log
    BY <1>1 DEF Settled
  <1>2. ASSUME NEW s \in RunState \ {"PROMOTING"}, Stores(r, s)
        PROVE  Settled(r)'
    <2>1. /\ Has(log', r, "STARTED") /\ Has(log', r, "STAGING") /\ Has(log', r, "STAGED")
          /\ get_run(log', r) = IF ~Has(log, r, s) THEN s ELSE get_run(log, r)
      BY <1>2 DEF Settled, Stores
    <2>2. ~Has(log, r, s) => s \in Outcomes
      BY DEF Settled, RunState, Outcomes
    <2>3. QED
      BY <2>1, <2>2 DEF Settled
  <1>3. QED
    BY <1>1, <1>2

\* A step of p touches its own run only, and no other call is in that run.
LEMMA AgainMove ==
    ASSUME TypeInv, OneCallPerRun, AgainInv, NEW p \in Procs, Moves(p), proc[p].pc # "idle",
           NEW own \in Runs, own = proc[p].run,
           log' = log \/ \E s \in RunState : Stores(own, s),
           \A r \in Runs \ {own} : check'[r] = check[r] /\ staging'[r] = staging[r],
           TargetPassedChecks',
           \/ proc'[p].run = own /\ FirstOf(p)'
           \/ /\ Settled(own)'
              /\ proc'[p].pc = "idle" \/ (proc'[p].run = own /\ proc'[p].pc \notin Promoting)
    PROVE  AgainInv'
  <1>1. ASSUME NEW r \in Runs, r # own
        PROVE  /\ \A s : Has(log', r, s) <=> Has(log, r, s)
               /\ get_run(log', r) = get_run(log, r) /\ RowsOf(log', r) = RowsOf(log, r)
               /\ check'[r] = check[r] /\ staging'[r] = staging[r]
               /\ (Settled(r)' <=> Settled(r)) /\ (Blocked(r)' <=> Blocked(r))
    BY <1>1 DEF Stores, Settled, Blocked
  <1>2. ASSUME NEW q \in Procs, q # p, proc[q].run \in Runs, proc[q].run # own
        PROVE  (FirstOf(q)' <=> FirstOf(q)) /\ (CallOf(q)' <=> CallOf(q))
    <2>1. proc'[q] = proc[q]
      BY <1>2 DEF Moves
    <2>2. FirstOf(q)' <=> FirstOf(q)
      BY <1>1, <1>2, <2>1 DEF FirstOf, Outcome
    <2>3. \A r \in Runs : r = proc[q].run => (Settled(r)' <=> Settled(r))
      BY <1>1, <1>2
    <2>4. Settled(proc[q].run)' <=> Settled(proc[q].run)
      BY <1>2, <2>1, <2>3
    <2>5. QED
      BY <2>1, <2>2, <2>4 DEF CallOf
  <1>3. ASSUME NEW r \in Runs
        PROVE  RunOnce(r)'
    <2>1. CASE r = own
      BY <2>1 DEF RunOnce
    <2>2. CASE r # own
      <3>1. RunOnce(r)
        BY DEF AgainInv
      <3>2. CASE Settled(r) \/ (RowsOf(log, r) = {} /\ \A k \in Checks : check[r][k] = "none")
        BY <1>1, <2>2, <3>2 DEF RunOnce
      <3>3. ASSUME NEW q \in Procs, proc[q].run = r, FirstOf(q)
            PROVE  RunOnce(r)'
        <4>1. q # p /\ proc'[q] = proc[q]
          BY <2>2, <3>3 DEF Moves
        <4>2. FirstOf(q)'
          BY <1>2, <2>2, <3>3, <4>1
        <4>3. QED
          BY <3>3, <4>1, <4>2 DEF RunOnce
      <3>4. QED
        BY <3>1, <3>2, <3>3 DEF RunOnce
    <2>3. QED
      BY <2>1, <2>2
  <1>4. ASSUME NEW q \in Procs, proc'[q].pc # "idle"
        PROVE  CallOf(q)'
    <2>1. CASE q = p
      BY <1>4, <2>1 DEF CallOf
    <2>2. CASE q # p
      <3>1. proc'[q] = proc[q] /\ proc[q].pc # "idle"
        BY <1>4, <2>2 DEF Moves
      <3>2. proc[q].run \in Runs /\ proc[q].run # own /\ CallOf(q)
        BY <2>2, <3>1, RunOfCall DEF OneCallPerRun, AgainInv
      <3>3. QED
        BY <1>2, <2>2, <3>2
    <2>3. QED
      BY <2>1, <2>2
  <1>5. QED
    BY <1>3, <1>4 DEF AgainInv

\* A call on a run that has its outcome, step by step.
LEMMA SettledStep ==
    ASSUME TypeInv, OneCallPerRun, AgainInv, NEW p \in Procs, Step(p),
           Settled(proc[p].run), proc[p].pc \notin Promoting
    PROVE  AgainInv'
  <1> USE DEF PC, RunState, Promoting
  <1>0. /\ proc \in [Procs -> Call] /\ StoreType /\ Busy
        /\ proc[p].pc # "idle" /\ proc[p].run \in Runs
    BY TypeParts, StepGrows, RunOfCall
  <1>1. ~LogPromoting(p) /\ ~WriteTable(p) /\ ~LogPromoted(p)
    BY DEF LogPromoting, WriteTable, LogPromoted
  <1>2. get_run(log, proc[p].run) \in Outcomes
    BY DEF Settled
  <1>3. table' = table /\ TargetPassedChecks'
    <2>1. table' = table
      BY <1>1 DEF Step, LogStaging, WriteStaging, LogStaged, CheckStaging, RecordChecks, Quarantine,
            LogQuarantined, DropQuarantined, OpenIncident, InsertNewIncident, Promote,
            DropPromoted, ListOpen, ResolveRecovered, warehouse
    <2>2. QED
      BY <2>1 DEF AgainInv, TargetPassedChecks
  <1>4. log' = log \/ \E s \in RunState \ {"PROMOTING"} : Stores(proc[p].run, s)
    <2>1. log' = log \/ \E s \in RunState \ {"PROMOTING"} : Log(p, s)
      BY <1>1 DEF Step, LogStaging, WriteStaging, LogStaged, CheckStaging, RecordChecks, Quarantine,
            LogQuarantined, DropQuarantined, OpenIncident, InsertNewIncident, Promote,
            DropPromoted, ListOpen, ResolveRecovered, store
    <2>2. QED
      BY <1>0, <2>1, LogStores
  <1>5. \A r \in Runs : r = proc[p].run => Settled(r)'
    BY <1>4, SettledStays
  <1>6. \A r \in Runs \ {proc[p].run} : check'[r] = check[r]
    <2>1. CASE RecordChecks(p)
      BY <2>1, RecordStores
    <2>2. CASE ~RecordChecks(p)
      <3>1. check' = check
        BY <1>0, <2>2, LogStores DEF Step, LogStaging, WriteStaging, LogStaged, CheckStaging, Quarantine,
            LogQuarantined, DropQuarantined, OpenIncident, InsertNewIncident, Promote, LogPromoting,
            WriteTable, LogPromoted, DropPromoted, ListOpen, ResolveRecovered, store
      <3>2. QED
        BY <3>1
    <2>3. QED
      BY <2>1, <2>2
  <1>7. \A r \in Runs \ {proc[p].run} : staging'[r] = staging[r]
    BY <1>0 DEF StoreType, Step, LogStaging, WriteStaging, LogStaged, CheckStaging, RecordChecks, Quarantine,
            LogQuarantined, DropQuarantined, OpenIncident, InsertNewIncident, Promote, LogPromoting,
            WriteTable, LogPromoted, DropPromoted, ListOpen, ResolveRecovered, warehouse
  <1>8. /\ Moves(p)
        /\ proc'[p].pc = "idle" \/ (proc'[p].run = proc[p].run /\ proc'[p].pc \notin Promoting)
    <2>1. \/ Finish(p) \/ OpenIncident(p) \/ InsertNewIncident(p) \/ ListOpen(p)
          \/ CheckStaging(p) \/ RecordChecks(p) \/ DropQuarantined(p)
          \/ \E k \in {"write_staging", "staged", "check", "quarantined", "quarantine_drop",
                       "promote_drop", "resolve"} : Goto(p, k)
      BY <1>1, <1>2
      DEF Step, LogStaging, WriteStaging, LogStaged, Quarantine, LogQuarantined, Promote,
          DropPromoted, ResolveRecovered, Outcomes
    <2>2. CASE Finish(p)
      BY <1>0, <2>2, FinishEnds DEF Ends
    <2>3. CASE OpenIncident(p) \/ InsertNewIncident(p) \/ ListOpen(p)
      BY <1>0, <2>3, OpenMoves, InsertMoves, ListMoves DEF StoreType, TypeOKIncidents, Ends, GoesOn
    <2>4. CASE CheckStaging(p) \/ RecordChecks(p) \/ DropQuarantined(p)
      BY <1>0, <2>4, CheckMoves, RecordMoves, DropQuarantinedMoves DEF GoesOn, Decision
    <2>5. ASSUME NEW k \in {"write_staging", "staged", "check", "quarantined", "quarantine_drop",
                            "promote_drop", "resolve"}, Goto(p, k)
          PROVE  Moves(p) /\ proc'[p].run = proc[p].run /\ proc'[p].pc = k
      BY <1>0, <2>5, GotoTurns DEF Turns, GoesOn
    <2>6. QED
      BY <2>1, <2>2, <2>3, <2>4, <2>5
  <1>9. QED
    BY <1>0, <1>3, <1>4, <1>5, <1>6, <1>7, <1>8, AgainMove

\* A first publication that goes on and writes neither a target nor, of another
\* run, a check or a staging table.
LEMMA FirstGoesOn ==
    ASSUME TypeInv, OneCallPerRun, AgainInv, NEW p \in Procs, proc[p].pc # "idle", GoesOn(p),
           NEW own \in Runs, own = proc[p].run,
           log' = log \/ \E s \in RunState : Stores(own, s),
           \A r \in Runs \ {own} : check'[r] = check[r] /\ staging'[r] = staging[r],
           table' = table,
           FirstOf(p)' \/ (Settled(own)' /\ proc'[p].pc \notin Promoting)
    PROVE  AgainInv'
  <1>1. TargetPassedChecks'
    BY DEF AgainInv, TargetPassedChecks
  <1>2. QED
    BY <1>1, AgainMove DEF GoesOn

\* A first publication, step by step.
LEMMA FirstStep ==
    ASSUME TypeInv, OneCallPerRun, AgainInv, NEW p \in Procs, Step(p), FirstOf(p)
    PROVE  AgainInv'
  <1> USE DEF PC, RunState, Promoting, Deciding, Unchecked
  <1>0. /\ proc \in [Procs -> Call] /\ TypeOK /\ StoreType /\ Busy
        /\ proc[p].pc # "idle" /\ proc[p].run \in Runs
    BY TypeParts, StepGrows, RunOfCall DEF TypeInv
  <1>1. PICK own \in Runs : own = proc[p].run
    BY <1>0
  <1> DEFINE b == proc[p].batch
  <1>2. /\ b \in Batches
        /\ \A s \in RunState : Has(log, own, s) <=> s \in Passed(proc[p].pc)
        /\ proc[p].pc \in Deciding => get_run(log, own) = "STAGED"
        /\ proc[p].pc \notin {"staging", "write_staging"} => staging[own] = b
        /\ proc[p].pc \in Unchecked => \A k \in Checks : check[own][k] = "none"
        /\ proc[p].pc = "record" => \A k \in Checks : check[own][k] \in {"none", Outcome(p, k)}
        /\ proc[p].pc = "record" => Fails[b] \subseteq proc[p].report
        /\ proc[p].pc \in {"promote"} \union Promoting => Fails[b] = {} /\ ~Blocked(own)
    BY <1>1 DEF FirstOf
  <1>3. CASE LogStaging(p)
    <2>1. Turns(p, "write_staging") /\ proc[p].pc = "staging"
      BY <1>0, <1>3, GotoTurns DEF LogStaging
    <2>2. Stores(own, "STAGING") /\ UNCHANGED <<check, staging, table>>
      BY <1>1, <1>3, LogStores DEF LogStaging, warehouse
    <2>3. FirstOf(p)'
      BY <1>1, <1>2, <2>1, <2>2 DEF FirstOf, Turns, GoesOn, Stores, Passed
    <2>4. QED
      BY <1>0, <1>1, <2>1, <2>2, <2>3, FirstGoesOn DEF Turns
  <1>4. CASE WriteStaging(p)
    <2>1. Turns(p, "staged") /\ proc[p].pc = "write_staging"
      BY <1>0, <1>4, GotoTurns DEF WriteStaging
    <2>2. /\ staging'[own] = b /\ \A r \in Runs \ {own} : staging'[r] = staging[r]
          /\ UNCHANGED <<log, check, table>>
      BY <1>0, <1>1, <1>4 DEF WriteStaging, StoreType, store
    <2>3. FirstOf(p)'
      BY <1>1, <1>2, <2>1, <2>2 DEF FirstOf, Turns, GoesOn, Passed
    <2>4. QED
      BY <1>0, <1>1, <2>1, <2>2, <2>3, FirstGoesOn DEF Turns
  <1>5. CASE LogStaged(p)
    <2>1. Turns(p, "check") /\ proc[p].pc = "staged"
      BY <1>0, <1>5, GotoTurns DEF LogStaged
    <2>2. Stores(own, "STAGED") /\ UNCHANGED <<check, staging, table>>
      BY <1>1, <1>5, LogStores DEF LogStaged, warehouse
    <2>3. get_run(log', own) = "STAGED"
      BY <1>2, <2>1, <2>2 DEF Stores, Passed
    <2>4. FirstOf(p)'
      BY <1>1, <1>2, <2>1, <2>2, <2>3 DEF FirstOf, Turns, GoesOn, Stores, Passed
    <2>5. QED
      BY <1>0, <1>1, <2>1, <2>2, <2>4, FirstGoesOn DEF Turns
  <1>6. CASE CheckStaging(p)
    <2>1. /\ GoesOn(p) /\ proc'[p].pc = "record" /\ proc[p].pc = "check"
          /\ UNCHANGED <<log, check, staging, table>>
          /\ IF staging[own] = None THEN proc'[p].report = Checks
             ELSE Fails[staging[own]] \subseteq proc'[p].report
      BY <1>0, <1>1, <1>6, CheckMoves DEF CheckStaging, warehouse, store
    <2>2. Fails[b] \subseteq proc'[p].report
      BY <1>2, <2>1, PublicationAssumption
    <2>3. FirstOf(p)'
      BY <1>1, <1>2, <2>1, <2>2 DEF FirstOf, GoesOn, Passed
    <2>4. QED
      BY <1>0, <1>1, <2>1, <2>3, FirstGoesOn
  <1>7. CASE RecordChecks(p)
    <2>1. /\ GoesOn(p) /\ SameReport(p) /\ proc[p].pc = "record" /\ UNCHANGED <<log, staging, table>>
          /\ proc'[p].pc = "record" \/ proc'[p].pc = Decision(p)
      BY <1>0, <1>7, RecordMoves DEF RecordChecks, warehouse
    <2>2. /\ \A r \in Runs \ {own} : check'[r] = check[r]
          /\ \A k \in Checks : check'[own][k] \in {check[own][k], Outcome(p, k)}
      BY <1>1, <1>7, RecordStores
    <2>3. \A k \in Checks : Outcome(p, k)' = Outcome(p, k)
      BY <2>1 DEF Outcome, SameReport
    <2>4. \A k \in Checks : check'[own][k] \in {"none", Outcome(p, k)}
      BY <1>2, <2>1, <2>2
    <2>5. CASE proc'[p].pc = "record"
      BY <1>0, <1>1, <1>2, <2>1, <2>2, <2>3, <2>4, <2>5, FirstGoesOn DEF FirstOf, GoesOn, SameReport, Passed
    <2>6. CASE proc'[p].pc = Decision(p) /\ proc[p].report = {}
      <3>1. proc'[p].pc = "promote" /\ Fails[b] = {}
        BY <1>2, <2>1, <2>6 DEF Decision
      <3>2. \A k \in Checks : check'[own][k] # "FAIL"
        BY <2>4, <2>6 DEF Outcome
      <3>3. FirstOf(p)'
        BY <1>1, <1>2, <2>1, <3>1, <3>2 DEF FirstOf, GoesOn, Passed, Blocked
      <3>4. QED
        BY <1>0, <1>1, <2>1, <2>2, <3>3, FirstGoesOn
    <2>7. CASE proc'[p].pc = Decision(p) /\ proc[p].report # {}
      <3>1. proc'[p].pc = "quarantine"
        BY <2>7 DEF Decision
      <3>2. FirstOf(p)'
        BY <1>1, <1>2, <2>1, <3>1 DEF FirstOf, GoesOn, Passed
      <3>3. QED
        BY <1>0, <1>1, <2>1, <2>2, <3>2, FirstGoesOn
    <2>8. QED
      BY <2>1, <2>5, <2>6, <2>7
  <1>8. CASE Quarantine(p)
    <2>1. proc[p].pc = "quarantine" /\ UNCHANGED <<staging, table>>
      BY <1>8 DEF Quarantine
    <2>2. CASE Goto(p, "quarantined") /\ UNCHANGED store
      <3>1. Turns(p, "quarantined") /\ log' = log /\ check' = check
        BY <1>0, <2>2, GotoTurns DEF store
      <3>2. FirstOf(p)'
        BY <1>1, <1>2, <2>1, <3>1 DEF FirstOf, Turns, GoesOn, Passed
      <3>3. QED
        BY <1>0, <1>1, <2>1, <3>1, <3>2, FirstGoesOn DEF Turns
    <2>3. CASE Log(p, "CHECK_ERROR") /\ Finish(p)
      <3>1. Ends(p) /\ Stores(own, "CHECK_ERROR") /\ check' = check
        BY <1>0, <1>1, <2>3, FinishEnds, LogStores
      <3>2. Settled(own)'
        BY <1>2, <2>1, <3>1 DEF Settled, Stores, Passed, Outcomes
      <3>3. TargetPassedChecks'
        BY <2>1 DEF AgainInv, TargetPassedChecks
      <3>4. QED
        BY <1>0, <1>1, <2>1, <3>1, <3>2, <3>3, AgainMove DEF Ends
    <2>4. QED
      BY <1>8, <2>2, <2>3 DEF Quarantine
  <1>9. CASE LogQuarantined(p)
    <2>1. Turns(p, "quarantine_drop") /\ proc[p].pc = "quarantined"
      BY <1>0, <1>9, GotoTurns DEF LogQuarantined
    <2>2. Stores(own, "QUARANTINED") /\ UNCHANGED <<check, staging, table>>
      BY <1>1, <1>9, LogStores DEF LogQuarantined, warehouse
    <2>3. Settled(own)'
      BY <1>2, <2>1, <2>2 DEF Settled, Stores, Passed, Outcomes
    <2>4. QED
      BY <1>0, <1>1, <2>1, <2>2, <2>3, FirstGoesOn DEF Turns
  <1>10. CASE Promote(p)
    <2>1. proc[p].pc = "promote" /\ UNCHANGED <<log, check, staging, table>>
      BY <1>10 DEF Promote, store, warehouse
    <2>2. Goto(p, "promoting")
      BY <1>1, <1>2, <1>10, <2>1 DEF Promote
    <2>3. Turns(p, "promoting")
      BY <1>0, <2>2, GotoTurns
    <2>4. FirstOf(p)'
      BY <1>1, <1>2, <2>1, <2>3 DEF FirstOf, Turns, GoesOn, Passed, Blocked
    <2>5. QED
      BY <1>0, <1>1, <2>1, <2>3, <2>4, FirstGoesOn DEF Turns
  <1>11. CASE LogPromoting(p)
    <2>1. Turns(p, "write_table") /\ proc[p].pc = "promoting"
      BY <1>0, <1>11, GotoTurns DEF LogPromoting
    <2>2. Stores(own, "PROMOTING") /\ UNCHANGED <<check, staging, table>>
      BY <1>1, <1>11, LogStores DEF LogPromoting, warehouse
    <2>3. FirstOf(p)'
      BY <1>1, <1>2, <2>1, <2>2 DEF FirstOf, Turns, GoesOn, Stores, Passed, Blocked
    <2>4. QED
      BY <1>0, <1>1, <2>1, <2>2, <2>3, FirstGoesOn DEF Turns
  <1>12. CASE WriteTable(p)
    <2>1. proc[p].pc = "write_table" /\ UNCHANGED <<log, check, staging>> /\ staging[own] # None
      BY <1>2, <1>12, PublicationAssumption DEF WriteTable, store
    <2>2. /\ Turns(p, "promoted") /\ TargetOf[own] \in Targets
          /\ table' = [table EXCEPT ![TargetOf[own]] = [batch |-> b, run |-> own]]
      BY <1>0, <1>1, <1>2, <1>12, <2>1, GotoTurns, IncidentsAssumption DEF WriteTable
    <2>3. TargetPassedChecks'
      BY <1>0, <1>2, <2>1, <2>2 DEF AgainInv, TargetPassedChecks, StoreType
    <2>4. FirstOf(p)'
      BY <1>1, <1>2, <2>1, <2>2 DEF FirstOf, Turns, GoesOn, Passed, Blocked
    <2>5. QED
      BY <1>0, <1>1, <2>1, <2>2, <2>3, <2>4, AgainMove DEF Turns, GoesOn
  <1>13. CASE LogPromoted(p)
    <2>1. Turns(p, "promote_drop") /\ proc[p].pc = "promoted"
      BY <1>0, <1>13, GotoTurns DEF LogPromoted
    <2>2. Stores(own, "PROMOTED") /\ UNCHANGED <<check, staging, table>>
      BY <1>1, <1>13, LogStores DEF LogPromoted, warehouse
    <2>3. Settled(own)'
      BY <1>2, <2>1, <2>2 DEF Settled, Stores, Passed, Outcomes
    <2>4. QED
      BY <1>0, <1>1, <2>1, <2>2, <2>3, FirstGoesOn DEF Turns
  <1>14. ~(DropQuarantined(p) \/ OpenIncident(p) \/ InsertNewIncident(p) \/ DropPromoted(p)
           \/ ListOpen(p) \/ ResolveRecovered(p))
    BY DEF FirstOf, DropQuarantined, OpenIncident, InsertNewIncident, DropPromoted, ListOpen, ResolveRecovered
  <1>15. QED
    BY <1>3, <1>4, <1>5, <1>6, <1>7, <1>8, <1>9, <1>10, <1>11, <1>12, <1>13, <1>14 DEF Step

\* A run that a call takes up is new or has its outcome: there is no other call
\* on it, and none is cut short.
LEMMA AgainNext ==
    ASSUME MaxAborts = 0, TypeInv, OneCallPerRun, OneCallPerRun', AgainInv, [Next]_vars
    PROVE  AgainInv'
  <1> USE DEF store, warehouse, counters, incidentVars
  <1>1. ASSUME NEW p \in Procs, Publish(p) \/ Resume(p)
        PROVE  AgainInv'
    <2>1. /\ proc[p].pc = "idle" /\ Moves(p) /\ proc'[p].pc \in {"staging", "promote"}
          /\ proc'[p].run \in Runs /\ TypeInv'
          /\ UNCHANGED <<check, staging, table>>
          /\ \/ proc'[p].pc = "staging" /\ proc'[p].batch \in Batches /\ Stores(proc'[p].run, "STARTED")
             \/ proc'[p].pc = "promote" /\ RowsOf(log, proc'[p].run) # {} /\ log' = log
      BY <1>1, PublishType, ResumeType DEF TypeInv, Busy
    <2>2. PICK own \in Runs : own = proc'[p].run
      BY <2>1
    <2>3. \A q \in Procs : q # p /\ proc[q].pc # "idle" => proc[q].run # own
      BY <2>1, <2>2 DEF OneCallPerRun, Moves
    <2>4. \A q \in Procs : FirstOf(q) => proc[q].pc # "idle"
      BY DEF FirstOf, Deciding, Promoting
    <2>5. Settled(own) \/ (RowsOf(log, own) = {} /\ \A k \in Checks : check[own][k] = "none")
      BY <2>1, <2>3, <2>4 DEF AgainInv, RunOnce
    <2>6. (proc'[p].run = own /\ FirstOf(p)') \/ (Settled(own)' /\ proc'[p].pc \notin Promoting)
      <3>1. CASE Settled(own)
        <4>1. Settled(own)'
          BY <2>1, <2>2, <3>1, SettledStays DEF RunState
        <4>2. QED
          BY <2>1, <4>1 DEF Promoting
      <3>2. CASE RowsOf(log, own) = {} /\ \A k \in Checks : check[own][k] = "none"
        <4>1. proc'[p].pc = "staging" /\ proc'[p].batch \in Batches /\ Stores(own, "STARTED")
          BY <2>1, <2>2, <3>2
        <4>2. \A s : ~Has(log, own, s)
          BY <3>2 DEF Has, RowsOf
        <4>3. FirstOf(p)'
          BY <2>1, <2>2, <3>2, <4>1, <4>2
          DEF FirstOf, Stores, Passed, Deciding, Promoting, RunState, Unchecked
        <4>4. QED
          BY <2>2, <4>3
      <3>3. QED
        BY <2>5, <3>1, <3>2
    <2>7. ASSUME NEW r \in Runs, r # own
          PROVE  /\ \A s : Has(log', r, s) <=> Has(log, r, s)
                 /\ get_run(log', r) = get_run(log, r) /\ RowsOf(log', r) = RowsOf(log, r)
                 /\ check'[r] = check[r] /\ staging'[r] = staging[r]
                 /\ (Settled(r)' <=> Settled(r)) /\ (Blocked(r)' <=> Blocked(r))
      BY <2>1, <2>2, <2>7 DEF Stores, Settled, Blocked
    <2>8. ASSUME NEW q \in Procs, q # p, proc[q].pc # "idle"
          PROVE  (FirstOf(q)' <=> FirstOf(q)) /\ (CallOf(q)' <=> CallOf(q))
      <3>1. proc'[q] = proc[q] /\ proc[q].run \in Runs /\ proc[q].run # own
        BY <2>1, <2>3, <2>8, RunOfCall DEF Moves
      <3>2. FirstOf(q)' <=> FirstOf(q)
        BY <2>7, <3>1 DEF FirstOf, Outcome
      <3>3. \A r \in Runs : r = proc[q].run => (Settled(r)' <=> Settled(r))
        BY <2>7, <3>1
      <3>4. Settled(proc[q].run)' <=> Settled(proc[q].run)
        BY <3>1, <3>3
      <3>5. QED
        BY <3>1, <3>2, <3>4 DEF CallOf
    <2>9. ASSUME NEW r \in Runs
          PROVE  RunOnce(r)'
      <3>1. CASE r = own
        BY <2>6, <3>1 DEF RunOnce
      <3>2. CASE r # own
        <4>1. RunOnce(r)
          BY DEF AgainInv
        <4>2. CASE Settled(r) \/ (RowsOf(log, r) = {} /\ \A k \in Checks : check[r][k] = "none")
          BY <2>7, <3>2, <4>2 DEF RunOnce
        <4>3. ASSUME NEW q \in Procs, proc[q].run = r, FirstOf(q)
              PROVE  RunOnce(r)'
          <5>1. q # p /\ proc[q].pc # "idle" /\ proc'[q] = proc[q]
            BY <2>1, <2>4, <4>3 DEF Moves
          <5>2. FirstOf(q)'
            BY <2>8, <4>3, <5>1
          <5>3. QED
            BY <4>3, <5>1, <5>2 DEF RunOnce
        <4>4. QED
          BY <4>1, <4>2, <4>3 DEF RunOnce
      <3>3. QED
        BY <3>1, <3>2
    <2>10. ASSUME NEW q \in Procs, proc'[q].pc # "idle"
           PROVE  CallOf(q)'
      <3>1. CASE q = p
        BY <2>2, <2>6, <3>1 DEF CallOf
      <3>2. CASE q # p
        BY <2>1, <2>8, <2>10, <3>2 DEF AgainInv, Moves
      <3>3. QED
        BY <3>1, <3>2
    <2>11. QED
      BY <2>1, <2>9, <2>10 DEF AgainInv, TargetPassedChecks
  <1>2. ASSUME NEW p \in Procs, Step(p)
        PROVE  AgainInv'
    <2>1. CallOf(p)
      BY <1>2, StepGrows DEF AgainInv
    <2>2. QED
      BY <1>2, <2>1, FirstStep, SettledStep DEF CallOf
  <1>3. ASSUME NEW p \in Procs, Abort(p)
        PROVE  FALSE
    BY <1>3 DEF Abort, TypeInv, TypeOK
  <1>4. CASE (\E o \in Operators : OperatorStep(o)) \/ UNCHANGED vars
    <2>1. UNCHANGED <<log, check, staging, table, proc>>
      BY <1>4 DEF OperatorStep, vars
    <2>2. QED
      BY <2>1 DEF AgainInv, TargetPassedChecks, RunOnce, CallOf, FirstOf, Settled, Outcome, Blocked
  <1>5. QED
    BY <1>1, <1>2, <1>3, <1>4 DEF Next

\* No run is logged at the start.
LEMMA AgainInit == Init => AgainInv
  BY DEF Init, AgainInv, TargetPassedChecks, RunOnce, RowsOf, Idle

\* A run_id may be published any number of times, with any rows, and resumed:
\* as long as nothing dies or raises, and no two calls work on one run at the
\* same time, only rows that passed their critical checks reach a target.
THEOREM RepublishedRunsAreSafe ==
    MaxAborts = 0 => (Spec /\ []OneCallPerRun => []TargetPassedChecks)
  <1> SUFFICES ASSUME MaxAborts = 0
               PROVE  Spec /\ []OneCallPerRun => []TargetPassedChecks
    OBVIOUS
  <1>1. TypeInv /\ [Next]_vars => TypeInv'
    BY NextType DEF SettableClockNext
  <1>2. TypeInv /\ OneCallPerRun /\ OneCallPerRun' /\ AgainInv /\ [Next]_vars => AgainInv'
    BY AgainNext
  <1>3. AgainInv => TargetPassedChecks
    BY DEF AgainInv
  <1>4. QED
    BY <1>1, <1>2, <1>3, InitType, AgainInit, PTL DEF Spec

-----------------------------------------------------------------------------
(* At most one open incident per check of a dataset.                        *)

\* No command is overtaken: the incident that an operator is about to write is
\* still open.  A command that writes after a promotion resolved its incident
\* opens it again.
NoStaleCommand ==
    \A o \in Operators : command[o].id # None => IsOpen(incident[command[o].id])

OpenInv ==
    /\ \A t \in Targets, c \in Checks :
          \A x, y \in get_open_incident(t, c) : x = y
    /\ \A p \in Procs : proc[p].pc = "insert_incident" =>
          get_open_incident(TargetOf[proc[p].run], proc[p].at) = {}

\* No incident is opened that was not open.
NoneOpened == \A id \in IncidentId : IsOpen(incident'[id]) => IsOpen(incident[id])

\* Where no incident is opened, the open ones of a check become fewer.
LEMMA OpenShrinks ==
    ASSUME NoneOpened
    PROVE  \A t, c : get_open_incident(t, c)' \subseteq get_open_incident(t, c)
  BY DEF NoneOpened, get_open_incident

\* Then a check still has at most one, and an insertion that is due is still due.
LEMMA OpenQuiet ==
    ASSUME OpenInv, NoneOpened,
           \A p \in Procs : proc'[p].pc = "insert_incident" =>
               proc'[p] = proc[p] \/ get_open_incident(TargetOf[proc'[p].run], proc'[p].at) = {}
    PROVE  OpenInv'
  <1>1. \A t, c : get_open_incident(t, c)' \subseteq get_open_incident(t, c)
    BY OpenShrinks
  <1>2. \A t \in Targets, c \in Checks :
          \A x, y \in get_open_incident(t, c)' : x = y
    BY <1>1 DEF OpenInv
  <1>3. ASSUME NEW p \in Procs, proc'[p].pc = "insert_incident"
        PROVE  get_open_incident(TargetOf[proc[p].run], proc[p].at)' = {}
    <2> DEFINE t == TargetOf[proc'[p].run]
               c == proc'[p].at
    <2>1. get_open_incident(t, c) = {}
      BY <1>3 DEF OpenInv
    <2>2. get_open_incident(TargetOf[proc[p].run], proc[p].at)'
              = {id \in IncidentId : TargetOf[id[1]] = t /\ id[2] = c /\ IsOpen(incident'[id])}
      BY DEF get_open_incident, IsOpen
    <2>3. QED
      BY <2>1, <2>2 DEF NoneOpened, get_open_incident
  <1>4. QED
    BY <1>2, <1>3 DEF OpenInv

\* Every step keeps it so, as long as an operator writes no row that was
\* resolved since it was read.
LEMMA OpenNext ==
    ASSUME TypeInv, OneCallPerTarget, NoStaleCommand, OpenInv, [Next]_vars
    PROVE  OpenInv'
  <1>0. /\ proc \in [Procs -> Call] /\ StoreType
        /\ incident \in [IncidentId -> Incident] /\ command \in [Operators -> Command]
    BY TypeParts DEF StoreType, TypeOKIncidents
  <1> USE DEF incidentVars
  <1>1. CASE incident' = incident
             /\ \A p \in Procs : proc'[p] = proc[p] \/ proc'[p].pc # "insert_incident"
    BY <1>1, OpenQuiet DEF NoneOpened
  <1>2. ASSUME NEW p \in Procs, Publish(p) \/ Resume(p) \/ Abort(p)
        PROVE  OpenInv'
    <2>1. Moves(p) /\ proc'[p].pc # "insert_incident" /\ incident' = incident
      BY <1>2, PublishType, ResumeType, AbortType DEF Ends
    <2>2. QED
      BY <1>1, <2>1 DEF Moves
  <1>3. ASSUME NEW p \in Procs, OpenIncident(p)
        PROVE  OpenInv'
    <2>1. /\ incident' = incident /\ Moves(p)
          /\ proc'[p].pc = "insert_incident" =>
                 /\ get_open_incident(TargetOf[proc[p].run], proc'[p].at) = {}
                 /\ proc'[p].run = proc[p].run
      BY <1>0, <1>3, OpenMoves DEF OpenIncident, Ends, GoesOn
    <2>2. QED
      BY <2>1, OpenQuiet DEF NoneOpened, Moves
  <1>4. ASSUME NEW p \in Procs, InsertNewIncident(p)
        PROVE  OpenInv'
    <2> DEFINE r == proc[p].run
               k == proc[p].at
               new == <<r, k>>
    <2>1. /\ GoesOn(p) /\ proc'[p].pc = "open_incident" /\ proc[p].pc = "insert_incident"
          /\ r \in Runs /\ k \in Checks /\ new \in IncidentId
          /\ get_open_incident(TargetOf[r], k) = {}
      BY <1>0, <1>4, InsertMoves DEF InsertNewIncident, TypeInv, Busy, OpenInv, IncidentId
    <2>2. \A id \in IncidentId : IsOpen(incident'[id]) => IsOpen(incident[id]) \/ id = new
      BY <1>0, <1>4 DEF InsertNewIncident, InsertIncident
    <2>3. \A t, c : get_open_incident(t, c)' \subseteq
                        get_open_incident(t, c) \union
                        (IF t = TargetOf[r] /\ c = k THEN {new} ELSE {})
      BY <2>2 DEF get_open_incident
    <2>4. \A t \in Targets, c \in Checks : \A x, y \in get_open_incident(t, c)' : x = y
      BY <2>1, <2>3 DEF OpenInv
    <2>5. ASSUME NEW q \in Procs, proc'[q].pc = "insert_incident"
          PROVE  get_open_incident(TargetOf[proc[q].run], proc[q].at)' = {}
      <3>1. q # p /\ proc'[q] = proc[q] /\ proc[q].pc = "insert_incident"
        BY <2>1, <2>5 DEF GoesOn, Moves
      <3>2. TargetOf[proc[q].run] # TargetOf[r] /\ get_open_incident(TargetOf[proc[q].run], proc[q].at) = {}
        BY <2>1, <3>1 DEF OneCallPerTarget, OpenInv
      <3>3. ASSUME NEW id \in IncidentId, TargetOf[id[1]] = TargetOf[proc[q].run],
                   id[2] = proc[q].at, IsOpen(incident'[id])
            PROVE  FALSE
        BY <2>2, <3>2, <3>3 DEF get_open_incident
      <3>4. QED
        BY <3>1, <3>3 DEF get_open_incident, IsOpen
    <2>6. QED
      BY <2>4, <2>5 DEF OpenInv
  <1>5. ASSUME NEW p \in Procs, ResolveRecovered(p)
        PROVE  OpenInv'
    <2>1. Ends(p) /\ incident' = [id \in IncidentId |->
                             IF proc[p].listed[id] = Absent THEN incident[id]
                             ELSE Transition(proc[p].listed[id], "RESOLVED", "recovered")]
      BY <1>0, <1>5, FinishEnds DEF ResolveRecovered, ResolveListed
    <2>2. NoneOpened
      BY <2>1 DEF NoneOpened, Transition, IsOpen
    <2>3. QED
      BY <2>1, <2>2, OpenQuiet DEF Ends, Moves
  <1>6. ASSUME NEW p \in Procs, Step(p), ~OpenIncident(p), ~InsertNewIncident(p), ~ResolveRecovered(p)
        PROVE  OpenInv'
    <2>1. incident' = incident
      BY <1>6
      DEF Step, LogStaging, WriteStaging, LogStaged, CheckStaging, RecordChecks, Quarantine,
          LogQuarantined, DropQuarantined, Promote, LogPromoting,
          WriteTable, LogPromoted, DropPromoted, ListOpen
    <2>2. \/ Finish(p)
          \/ \E k \in PC \ {"insert_incident"} : Goto(p, k)
          \/ CheckStaging(p) \/ RecordChecks(p) \/ DropQuarantined(p) \/ ListOpen(p)
      BY <1>6
      DEF Step, LogStaging, WriteStaging, LogStaged, Quarantine, PC,
          LogQuarantined, Promote, LogPromoting, WriteTable, LogPromoted, DropPromoted
    <2>3. Moves(p) /\ proc'[p].pc # "insert_incident"
      BY <1>0, <2>2, FinishEnds, GotoTurns, CheckMoves, RecordMoves, DropQuarantinedMoves, ListMoves
      DEF Ends, Turns, GoesOn, Decision
    <2>4. QED
      BY <1>1, <2>1, <2>3 DEF Moves
  <1>7. ASSUME NEW o \in Operators, OperatorStep(o)
        PROVE  OpenInv'
    <2>1. proc' = proc
      BY <1>7 DEF OperatorStep
    <2>2. CASE CommandRead(o)
      BY <1>1, <2>1, <2>2 DEF CommandRead
    <2>3. CASE CommandWrite(o)
      <3>1. /\ command[o].id # None /\ IsOpen(incident[command[o].id])
            /\ incident' = [incident EXCEPT ![command[o].id] = command[o].row]
        BY <2>3 DEF CommandWrite, NoStaleCommand
      <3>2. NoneOpened
        BY <1>0, <3>1 DEF NoneOpened
      <3>3. QED
        BY <2>1, <3>2, OpenQuiet
    <2>4. QED
      BY <1>7, <2>2, <2>3 DEF OperatorStep
  <1>8. CASE UNCHANGED vars
    BY <1>1, <1>8 DEF vars
  <1>9. QED
    BY <1>2, <1>3, <1>4, <1>5, <1>6, <1>7, <1>8 DEF Next

\* A dataset has at most one open incident per check, however many runs fail
\* it, and each incident has its evidence: as long as the calls on one target
\* do not overlap, since an incident is looked up before it is inserted, and no
\* operator's command is overtaken by a promotion that resolves its incident.
THEOREM IncidentsAreCounted ==
    MaxPublish <= 1 =>
        (Spec /\ []OneCallPerTarget /\ []NoStaleCommand => []IncidentsAreTrue)
  <1> SUFFICES ASSUME MaxPublish <= 1
               PROVE  Spec /\ []OneCallPerTarget /\ []NoStaleCommand => []IncidentsAreTrue
    OBVIOUS
  <1>1. TypeInv /\ [Next]_vars => TypeInv'
    BY NextType DEF SettableClockNext
  <1>2. TypeInv /\ OneCallPerTarget /\ NoStaleCommand /\ OpenInv /\ [Next]_vars => OpenInv'
    BY OpenNext
  <1>3. Init => OpenInv
    BY DEF Init, InitIncidents, OpenInv, get_open_incident, IsOpen, Absent, Idle
  <1>4. OpenInv => AtMostOneOpenIncident
    <2> SUFFICES ASSUME OpenInv, NEW t \in Targets, NEW c \in Checks
                 PROVE  Cardinality(get_open_incident(t, c)) <= 1
      BY DEF AtMostOneOpenIncident
    <2>1. CASE get_open_incident(t, c) = {}
      BY <2>1, FS_EmptySet
    <2>2. CASE get_open_incident(t, c) # {}
      <3>1. PICK x : x \in get_open_incident(t, c)
        BY <2>2
      <3>2. get_open_incident(t, c) = {x}
        BY <3>1 DEF OpenInv
      <3>3. Cardinality({x}) = 1
        BY FS_Singleton
      <3>4. QED
        BY <3>2, <3>3
    <2>3. QED
      BY <2>1, <2>2
  <1>5. Spec => []IncidentHasEvidence
    BY IncidentsHaveEvidence
  <1>6. AtMostOneOpenIncident /\ IncidentHasEvidence => IncidentsAreTrue
    BY DEF IncidentsAreTrue
  <1>7. QED
    BY <1>1, <1>2, <1>3, <1>4, <1>5, <1>6, InitType, PTL DEF Spec
=============================================================================
