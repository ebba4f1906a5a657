---------------------------- MODULE DecisionProofs ----------------------------
(***************************************************************************)
(* Proofs about decisions, for any input of the kind that the code accepts *)
(* or produces: what a document says of contract, checks and volumes       *)
(* (DataContracts), what the loader accepts of it (PipelineSchema), the    *)
(* verdicts on metric candidates (CandidateJudgement), and both executions *)
(* of a pipeline (PipelineSemantics).                                      *)
(***************************************************************************)
EXTENDS DataContracts, WellFoundedInduction, FiniteSetTheorems, SequenceTheorems, TLAPS

------------------------------------------------------------------------------
(* Numbers and sets.                                                        *)

\* Every nonempty set of natural numbers has a least element.
LEMMA LeastNatural ==
    ASSUME NEW S, S \subseteq Nat, S # {}
    PROVE  \E n \in S : \A m \in S : n <= m
  <1> DEFINE R == OpToRel(<, Nat)
  <1>1. IsWellFoundedOn(R, Nat)
    BY NatLessThanWellFounded
  <1>2. ASSUME NEW m \in Nat, NEW n \in Nat, m < n
        PROVE  <<m, n>> \in R
    BY <1>2 DEF OpToRel
  <1> HIDE DEF R
  <1>3. PICK n \in S : \A m \in S : ~ (<<m, n>> \in R)
    BY <1>1, WFMin
  <1>4. ASSUME NEW m \in S
        PROVE  n <= m
    <2>1. m \in Nat /\ n \in Nat /\ ~(m < n)
      BY <1>2, <1>3
    <2>2. QED
      BY <2>1
  <1>5. QED
    BY <1>4

\* A set of natural numbers with 0 and every successor holds them all.
LEMMA Induction ==
    ASSUME NEW T, 0 \in T, \A m \in Nat : m \in T => m + 1 \in T
    PROVE  \A n \in Nat : n \in T
  <1> SUFFICES ASSUME NEW k \in Nat, k \notin T
               PROVE  FALSE
    OBVIOUS
  <1> DEFINE bad == {n \in Nat : n \notin T}
  <1>1. bad \subseteq Nat /\ bad # {}
    OBVIOUS
  <1>2. PICK n \in bad : \A m \in bad : n <= m
    BY <1>1, LeastNatural
  <1>3. n \in Nat /\ n \notin T /\ n # 0
    BY <1>2
  <1>4. n - 1 \in Nat /\ n = (n - 1) + 1 /\ ~(n <= n - 1)
    BY <1>3
  <1>5. QED
    BY <1>2, <1>3, <1>4

\* A finite nonempty set of natural numbers has a greatest element.
LEMMA GreatestNatural ==
    ASSUME NEW S, S \subseteq Nat, S # {}, NEW b \in Nat, \A x \in S : x <= b
    PROVE  \E n \in S : \A m \in S : n >= m
  <1> DEFINE room == {b - x : x \in S}
  <1>1. room \subseteq Nat /\ room # {}
    <2>1. \A x \in S : b - x \in Nat
      OBVIOUS
    <2>2. room # {}
      OBVIOUS
    <2>3. room \subseteq Nat
      BY <2>1
    <2>4. QED
      BY <2>2, <2>3
  <1>2. PICK r \in room : \A y \in room : r <= y
    <2> HIDE DEF room
    <2>1. QED
      BY <1>1, LeastNatural
  <1>3. PICK n \in S : r = b - n
    BY <1>2
  <1>4. ASSUME NEW m \in S
        PROVE  n >= m
    <2>1. b - m \in room
      OBVIOUS
    <2>2. r <= b - m
      BY <1>2, <2>1
    <2>3. QED
      BY <1>3, <2>2
  <1>5. QED
    BY <1>4

\* The places of a sequence are as many as it is long.
LEMMA LengthCounts ==
    ASSUME NEW s, Len(s) \in Nat
    PROVE  IsFiniteSet(1..Len(s)) /\ Cardinality(1..Len(s)) = Len(s)
  <1> DEFINE n == Len(s)
  <1>1. n \in Int /\ 1 \in Int
    OBVIOUS
  <1> HIDE DEF n
  <1>2. IsFiniteSet(1..n) /\ Cardinality(1..n) = IF 1 > n THEN 0 ELSE n - 1 + 1
    BY <1>1, FS_Interval
  <1>3. n \in Nat
    BY DEF n
  <1>4. (IF 1 > n THEN 0 ELSE n - 1 + 1) = n
    BY <1>3
  <1>5. QED
    BY <1>2, <1>4 DEF n

\* What is told apart by a name has as many names.
LEMMA CountOfNames ==
    ASSUME NEW S, IsFiniteSet(S), NEW name, \A x, y \in S : name[x] = name[y] => x = y
    PROVE  /\ IsFiniteSet({name[x] : x \in S})
           /\ Cardinality({name[x] : x \in S}) = Cardinality(S)
  <1> DEFINE T == {name[x] : x \in S}
             f == [x \in S |-> name[x]]
  <1>1. f \in Surjection(S, T)
    BY DEF Surjection
  <1>2. f \in Injection(S, T)
    BY DEF Injection, IsInjective
  <1>3. QED
    BY <1>1, <1>2, FS_Surjection

------------------------------------------------------------------------------
(* Quality, for any documents, rows, reports and runs.                      *)

\* A filter has one of the operators; rows are a list.
CheckDomain(in) ==
    /\ \A f \in in.schema.filter : f.operator \in Compiled \union {"sql"}
    /\ Len(in.rows) \in Nat /\ DOMAIN in.rows = 1..Len(in.rows)

\* Every reader of a report draws the same verdict.
LEMMA VerdictsAlwaysAgree ==
    ASSUME NEW report
    PROVE  VerdictsAgree(report)
  <1> DEFINE critical == {i \in DOMAIN report : ~Passed(report[i]) /\ report[i].severity = "critical"}
             bad == {i \in DOMAIN report : ~Passed(report[i])}
  <1>1. has_critical_failures(report) = (critical # {})
    BY DEF has_critical_failures
  <1>2. failures(report) = bad
    BY DEF failures
  <1>3. summary_status(report) = IF bad = {} THEN "PASS" ELSE IF critical # {} THEN "CRITICAL" ELSE "WARN"
    BY <1>2 DEF summary_status
  <1>4. \A s : SeverityRank(s) >= 0 /\ (SeverityRank(s) >= 2) = (s = "critical")
    BY DEF SeverityRank, Severity
  <1>5. SeverityRank("critical") = 2 /\ SeverityRank("info") = 0
    BY DEF SeverityRank, Severity
  <1>6. Alerted(report, "critical") = critical /\ Alerted(report, "info") = bad
    BY <1>2, <1>4, <1>5 DEF Alerted
  <1>7. critical # {} => bad # {}
    OBVIOUS
  <1> HIDE DEF critical, bad
  <1>8. /\ (dispatch(report, [min_severity |-> "critical", channels |-> {"slack"}], {}) # {}) = (critical # {})
        /\ (dispatch(report, [min_severity |-> "info", channels |-> {"slack"}], {}) = {}) = (bad = {})
    BY <1>6 DEF dispatch, _notify_channel
  <1>9. (_check_table(report, TRUE) = "DataQualityError") = (critical # {})
    BY <1>1 DEF _check_table
  <1>10. (summary_status(report) = "CRITICAL") = (critical # {})
    BY <1>3, <1>7
  <1>11. (summary_status(report) = "PASS") = (bad = {})
    BY <1>3
  <1>12. QED
    BY <1>1, <1>8, <1>9, <1>10, <1>11 DEF VerdictsAgree

\* A failing channel keeps no other from being told.
LEMMA EveryChannelIsAlwaysTold ==
    ASSUME NEW report, NEW config, NEW failing, config.recipients \in BOOLEAN
    PROVE  EveryChannelIsTold(report, config, failing)
  <1> DEFINE alerts == Alerted(report, config.min_severity)
             told == dispatch(report, config, failing)
             incident == dispatch_incident(IF alerts = {} THEN {} ELSE {"incident"}, config, failing)
  <1> SUFFICES /\ told = {} \/ told = config.channels \ failing
               /\ alerts # {} /\ config.channels \ failing # {} => told # {}
               /\ told \ (IF config.recipients THEN {} ELSE {"email"}) = incident
    BY Zenon DEF EveryChannelIsTold
  <1> HIDE DEF alerts
  <1>1. told = IF alerts = {} THEN {} ELSE config.channels \ failing
    BY DEF dispatch, _notify_channel, alerts
  <1>2. incident = IF alerts = {} THEN {} ELSE {c \in config.channels : (c = "email" => config.recipients) /\ c \notin failing}
    BY DEF dispatch_incident, _notify_channel
  <1> HIDE DEF told, incident
  <1>3. QED
    BY <1>1, <1>2

\* The places of a document's rows that its pipeline keeps.
Passing(schema, rows) == {i \in DOMAIN rows : \A f \in schema.filter : f.operator = "sql" \/ Holds(rows[i][f.column], f) = "true"}
WithValues(schema, rows) == {i \in Passing(schema, rows) : \A c \in schema.drop_nulls_in : rows[i][c] # Null}
Written(schema, rows) ==
    IF schema.drop_duplicates_on = {} THEN WithValues(schema, rows)
    ELSE {i \in WithValues(schema, rows) :
            ~\E j \in WithValues(schema, rows) : j < i /\ SameKey(rows[j], rows[i], schema.drop_duplicates_on)}

\* The output holds a row for each of them.
LEMMA OutputOfPlaces ==
    ASSUME NEW schema, NEW rows
    PROVE  LET out == Output(schema, rows)
           IN  /\ out.columns = DOMAIN schema.select /\ DOMAIN out.rows = Written(schema, rows)
               /\ \A i \in DOMAIN out.rows : \A c \in DOMAIN schema.select : out.rows[i][c] = rows[i][schema.select[c]]
  <1> DEFINE passing == filter(rows, schema.filter)
             full == drop_nulls(passing, schema.drop_nulls_in)
             kept == drop_duplicates(full, schema.drop_duplicates_on)
  <1>1. DOMAIN passing = Passing(schema, rows) /\ \A i \in DOMAIN passing : passing[i] = rows[i]
    BY DEF filter, Restrict, Passing
  <1> HIDE DEF passing
  <1>2. DOMAIN full = WithValues(schema, rows) /\ \A i \in DOMAIN full : full[i] = rows[i]
    BY <1>1 DEF drop_nulls, Restrict, WithValues
  <1> HIDE DEF full
  <1>3. DOMAIN kept = Written(schema, rows) /\ \A i \in DOMAIN kept : kept[i] = rows[i]
    <2>1. CASE schema.drop_duplicates_on = {}
      BY <1>2, <2>1 DEF drop_duplicates, Written
    <2>2. CASE schema.drop_duplicates_on # {}
      <3>1. kept = [i \in {i \in DOMAIN full : ~\E j \in DOMAIN full : j < i /\ SameKey(full[j], full[i], schema.drop_duplicates_on)} |-> full[i]]
        BY <2>2 DEF drop_duplicates, Restrict
      <3>2. {i \in DOMAIN full : ~\E j \in DOMAIN full : j < i /\ SameKey(full[j], full[i], schema.drop_duplicates_on)} = Written(schema, rows)
        BY <1>2, <2>2 DEF Written
      <3>3. Written(schema, rows) \subseteq DOMAIN full
        BY <3>2
      <3>4. QED
        BY <1>2, <3>1, <3>2, <3>3
    <2>3. QED
      BY <2>1, <2>2
  <1>4. Output(schema, rows) = [columns |-> DOMAIN schema.select,
                                  rows |-> [i \in DOMAIN kept |-> [c \in DOMAIN schema.select |-> kept[i][schema.select[c]]]]]
    BY DEF Output, kept, full, passing
  <1> HIDE DEF kept
  <1>5. QED
    BY <1>3, <1>4

\* A filter that let a row through is not violated by it.
LEMMA FilterIsConfirmed ==
    ASSUME NEW f, f.operator \in Compiled, NEW r, Holds(r[f.column], f) = "true"
    PROVE  ~violation_predicate(f, r)
  BY DEF violation_predicate, Holds, Truth, Compiled

\* A verdict is one of two.
LEMMA VerdictOf == \A b : Verdict(b) = (IF b THEN "PASS" ELSE "FAIL")
  BY DEF Verdict

\* The rows that are kept of a key are told apart by it.
LEMMA KeysAreDistinct ==
    ASSUME NEW schema, NEW rows, Len(rows) \in Nat, DOMAIN rows = 1..Len(rows), schema.drop_duplicates_on # {},
           NEW i \in Written(schema, rows), NEW j \in Written(schema, rows),
           \A c \in schema.drop_duplicates_on : rows[i][c] = rows[j][c]
    PROVE  i = j
  <1>1. i \in Nat /\ j \in Nat
    BY DEF Written, WithValues, Passing
  <1>2. SameKey(rows[i], rows[j], schema.drop_duplicates_on) /\ SameKey(rows[j], rows[i], schema.drop_duplicates_on)
    BY DEF SameKey
  <1>3. ~(j < i) /\ ~(i < j)
    BY <1>2 DEF Written
  <1>4. QED
    BY <1>1, <1>3

\* Only rows of the input are kept.
LEMMA FinitelyManyWritten ==
    ASSUME NEW schema, NEW rows, Len(rows) \in Nat, DOMAIN rows = 1..Len(rows)
    PROVE  IsFiniteSet(Written(schema, rows)) /\ Written(schema, rows) \subseteq WithValues(schema, rows)
  <1>1. Written(schema, rows) \subseteq WithValues(schema, rows)
    BY DEF Written
  <1>2. Written(schema, rows) \subseteq 1..Len(rows)
    BY <1>1 DEF WithValues, Passing
  <1>3. IsFiniteSet(1..Len(rows))
    BY LengthCounts
  <1>4. QED
    BY <1>1, <1>2, <1>3, FS_Subset

\* The derived check of a key counts each row that was kept once.
LEMMA UniqueIsConfirmed ==
    ASSUME NEW schema, NEW rows, Len(rows) \in Nat, DOMAIN rows = 1..Len(rows), schema.drop_duplicates_on # {},
           NEW check, check.columns = schema.drop_duplicates_on, check.columns \subseteq schema.drop_nulls_in,
           \A c \in check.columns : c \in DOMAIN schema.select /\ schema.select[c] = c
    PROVE  UniqueCheck(check, Output(schema, rows)) = "PASS"
  <1> DEFINE out == Output(schema, rows)
             places == DOMAIN out.rows
             key == [i \in places |-> [c \in check.columns |-> out.rows[i][c]]]
             known == {i \in places : \A c \in check.columns : out.rows[i][c] # Null}
             keys == {key[i] : i \in places}
  <1>1. places = Written(schema, rows) /\ IsFiniteSet(places) /\ places \subseteq WithValues(schema, rows)
    BY OutputOfPlaces, FinitelyManyWritten
  <1>2. \A i \in places : \A c \in check.columns : out.rows[i][c] = rows[i][c]
    BY OutputOfPlaces
  <1> HIDE DEF out
  <1>3. known = places
    BY <1>1, <1>2 DEF WithValues
  <1>4. \A i, j \in places : key[i] = key[j] => i = j
    <2> SUFFICES ASSUME NEW i \in places, NEW j \in places, key[i] = key[j]
                 PROVE  i = j
      OBVIOUS
    <2>1. \A c \in check.columns : key[i][c] = out.rows[i][c] /\ key[j][c] = out.rows[j][c]
      OBVIOUS
    <2>2. \A c \in schema.drop_duplicates_on : rows[i][c] = rows[j][c]
      BY <1>2, <2>1
    <2>3. QED
      BY <1>1, <2>2, KeysAreDistinct
  <1>5. {[c \in check.columns |-> out.rows[i][c]] : i \in known} = keys
    <2>1. \A i \in places : key[i] = [c \in check.columns |-> out.rows[i][c]]
      OBVIOUS
    <2>2. {[c \in check.columns |-> out.rows[i][c]] : i \in places} = {key[i] : i \in places}
      <3>1. ASSUME NEW i \in places PROVE [c \in check.columns |-> out.rows[i][c]] \in {key[j] : j \in places}
        <4> HIDE DEF key, places
        <4>1. key[i] \in {key[j] : j \in places}
          BY <3>1
        <4>2. QED
          BY <2>1, <3>1, <4>1
      <3>2. ASSUME NEW i \in places PROVE key[i] \in {[c \in check.columns |-> out.rows[j][c]] : j \in places}
        <4> HIDE DEF places
        <4>1. [c \in check.columns |-> out.rows[i][c]] \in {[c \in check.columns |-> out.rows[j][c]] : j \in places}
          BY <3>2
        <4>2. QED
          BY <2>1, <3>2, <4>1
      <3> DEFINE left == {[c \in check.columns |-> out.rows[i][c]] : i \in places}
                 right == {key[i] : i \in places}
      <3>3. (\A v \in left : \E i \in places : v = [c \in check.columns |-> out.rows[i][c]]) /\ \A v \in right : \E i \in places : v = key[i]
        <4> HIDE DEF key, places
        <4>1. QED
          OBVIOUS
      <3>4. (\A v \in left : v \in right) /\ \A v \in right : v \in left
        <4> HIDE DEF left, right, places
        <4>1. QED
          BY <3>1, <3>2, <3>3 DEF left, right
      <3> HIDE DEF left, right
      <3>5. left = right
        BY <3>4
      <3>6. QED
        BY <3>5 DEF left, right
    <2>3. QED
      <3> HIDE DEF key, places, known
      <3>1. QED
        BY <1>3, <2>2
  <1>6. Cardinality(keys) = Cardinality(places)
    <2> HIDE DEF key
    <2>1. QED
      BY <1>1, <1>4, CountOfNames
  <1>7. UniqueCheck(check, out) = Verdict(Cardinality(places) = Cardinality({[c \in check.columns |-> out.rows[i][c]] : i \in known}))
    BY DEF UniqueCheck
  <1> HIDE DEF places, key, known, keys
  <1>8. Cardinality(places) = Cardinality(keys)
    BY <1>6
  <1>9. QED
    BY <1>5, <1>7, <1>8, VerdictOf DEF out

\* What the pipeline enforced, the checks derived from its document confirm.
LEMMA RowChecksAlwaysHold ==
    ASSUME NEW in, CheckDomain(in)
    PROVE  RowChecksHoldOnOutput(in.schema, in.rows)
  <1> DEFINE schema == in.schema
             rows == in.rows
             out == Output(schema, rows)
             through(c) == c \in DOMAIN schema.select => schema.select[c] = c
             sound(check) ==
               \/ check.type = "FilterInvariantCheck" /\ \A c \in check.columns : through(c)
               \/ check.type = "NullCheck" /\ \A c \in check.columns : c \in DOMAIN schema.select /\ through(c)
               \/ check.type = "UniqueCheck" /\ check.columns \subseteq schema.drop_nulls_in
                    /\ \A c \in check.columns : c \in DOMAIN schema.select /\ through(c)
  <1> SUFFICES ASSUME NEW check \in extract(schema), sound(check)
               PROVE  evaluate(check, out) \in {"PASS", "SKIPPED"}
    BY DEF RowChecksHoldOnOutput
  <1>1. out.columns = DOMAIN schema.select /\ DOMAIN out.rows = Written(schema, rows)
        /\ \A i \in DOMAIN out.rows : \A c \in DOMAIN schema.select : out.rows[i][c] = rows[i][schema.select[c]]
    BY OutputOfPlaces
  <1>2. Len(rows) \in Nat /\ DOMAIN rows = 1..Len(rows) /\ \A f \in schema.filter : f.operator \in Compiled \union {"sql"}
    BY DEF CheckDomain
  <1>3. Written(schema, rows) \subseteq WithValues(schema, rows) /\ WithValues(schema, rows) \subseteq Passing(schema, rows)
    BY DEF Written, WithValues
  <1>4. \/ \E c \in schema.drop_nulls_in : check.type = "NullCheck" /\ check.columns = {c}
        \/ check.type = "UniqueCheck" /\ check.columns = schema.drop_duplicates_on /\ schema.drop_duplicates_on # {}
        \/ \E f \in schema.filter : check.type = "FilterInvariantCheck" /\ check.filter = f /\ check.columns = {f.column} /\ f.column \in DOMAIN schema.select
        \/ check.type = "LoadFreshnessCheck"
    BY DEF extract, _output_columns
  <1> HIDE DEF out
  <1>5. CASE check.type = "NullCheck"
    <2>1. PICK c \in schema.drop_nulls_in : check.columns = {c}
      BY <1>4, <1>5
    <2>2. c \in DOMAIN schema.select /\ schema.select[c] = c
      BY <1>5, <2>1
    <2>3. \A i \in DOMAIN out.rows : out.rows[i][c] # Null
      BY <1>1, <1>3, <2>2 DEF WithValues
    <2>4. NullCheck(check, out) = "PASS"
      BY <2>1, <2>3, VerdictOf DEF NullCheck
    <2>5. check.columns \subseteq out.columns
      BY <1>1, <2>1, <2>2
    <2>6. evaluate(check, out) = NullCheck(check, out)
      BY <1>5, <2>5 DEF evaluate
    <2>7. QED
      BY <2>4, <2>6
  <1>6. CASE check.type = "UniqueCheck"
    <2>1. check.columns = schema.drop_duplicates_on /\ schema.drop_duplicates_on # {}
      BY <1>4, <1>6
    <2>2. check.columns \subseteq schema.drop_nulls_in /\ \A c \in check.columns : c \in DOMAIN schema.select /\ schema.select[c] = c
      BY <1>6
    <2>3. UniqueCheck(check, out) = "PASS"
      BY <1>2, <2>1, <2>2, UniqueIsConfirmed DEF out
    <2>4. check.columns \subseteq out.columns
      BY <1>1, <2>2
    <2>5. evaluate(check, out) = UniqueCheck(check, out)
      BY <1>6, <2>4 DEF evaluate
    <2>6. QED
      BY <2>3, <2>5
  <1>7. CASE check.type = "FilterInvariantCheck"
    <2>1. PICK f \in schema.filter : check.filter = f /\ check.columns = {f.column} /\ f.column \in DOMAIN schema.select
      BY <1>4, <1>7
    <2>2. schema.select[f.column] = f.column
      BY <1>7, <2>1
    <2>3. check.columns \subseteq out.columns
      BY <1>1, <2>1
    <2>4. evaluate(check, out) = FilterInvariantCheck(check, out)
      BY <1>7, <2>3 DEF evaluate
    <2>5. CASE f.operator \notin Compiled
      BY <2>1, <2>4, <2>5 DEF FilterInvariantCheck
    <2>6. CASE f.operator \in Compiled
      <3>1. f.operator # "sql"
        BY <2>6 DEF Compiled
      <3>2. ASSUME NEW i \in DOMAIN out.rows
            PROVE  ~violation_predicate(f, out.rows[i])
        <4>1. Holds(rows[i][f.column], f) = "true"
          BY <1>1, <1>3, <3>1 DEF Passing
        <4>2. out.rows[i][f.column] = rows[i][f.column]
          BY <1>1, <2>1, <2>2
        <4>3. QED
          BY <2>6, <4>1, <4>2, FilterIsConfirmed
      <3>3. FilterInvariantCheck(check, out) = "PASS"
        BY <2>1, <2>6, <3>2, VerdictOf DEF FilterInvariantCheck
      <3>4. QED
        BY <2>4, <3>3
    <2>7. QED
      BY <2>5, <2>6
  <1>8. QED
    BY <1>5, <1>6, <1>7

\* Counts are natural numbers.
VolumeDomain(in) ==
    /\ Len(in.runs) \in Nat /\ DOMAIN in.runs = 1..Len(in.runs)
    /\ \A i \in DOMAIN in.runs : in.runs[i].count \in Nat /\ in.runs[i].broken \in BOOLEAN /\ in.runs[i].stored \in BOOLEAN

\* The runs of the monitor one after the other.
NothingYet == [report |-> <<>>, history |-> {}]
AfterRun(runs, i, state) == MonitorRun(state.history, runs[i])

\* Each run finds the history that the one before it left.
LEMMA RunsInTurn ==
    ASSUME NEW runs, Len(runs) \in Nat
    PROVE  LET state == CHOOSE f : f = [i \in 0..Len(runs) |-> IF i = 0 THEN NothingYet ELSE AfterRun(runs, i, f[i - 1])]
           IN  state[0] = NothingYet /\ \A i \in 1..Len(runs) : state[i] = AfterRun(runs, i, state[i - 1])
  <1> DEFINE n == Len(runs)
             Step(k, q) == AfterRun(runs, k, q)
             Run(f, m) == f = [k \in 0..m |-> IF k = 0 THEN NothingYet ELSE Step(k, f[k - 1])]
             T == {m \in Nat : \E f : Run(f, m)}
             state == CHOOSE f : Run(f, n)
  <1> HIDE DEF Step
  <1>1. 0 \in T
    <2> DEFINE f == [k \in 0..0 |-> NothingYet]
    <2>1. Run(f, 0)
      OBVIOUS
    <2> HIDE DEF f, Run
    <2>2. QED
      BY <2>1
  <1>2. ASSUME NEW m \in Nat, NEW f, Run(f, m)
        PROVE  \E g : Run(g, m + 1)
    <2> DEFINE x == Step(m + 1, f[m])
               g == [k \in 0..(m + 1) |-> IF k <= m THEN f[k] ELSE x]
    <2>1. /\ 0 \in 0..m /\ 0 \in 0..(m + 1) /\ 0 <= m
          /\ \A k \in 1..m : k \in 0..m /\ k # 0 /\ k <= m /\ k \in 0..(m + 1) /\ k - 1 \in 0..(m + 1) /\ k - 1 <= m
          /\ m \in 0..(m + 1) /\ m <= m /\ m + 1 \in 0..(m + 1) /\ ~(m + 1 <= m) /\ (m + 1) - 1 = m /\ m + 1 # 0
          /\ \A k \in 0..(m + 1) : k = 0 \/ k \in 1..m \/ k = m + 1
      OBVIOUS
    <2>2. f[0] = NothingYet /\ \A k \in 1..m : f[k] = Step(k, f[k - 1])
      BY <1>2, <2>1
    <2> HIDE DEF x
    <2>3. /\ g[0] = f[0] /\ g[m] = f[m] /\ g[m + 1] = x
          /\ \A k \in 1..m : g[k] = f[k] /\ g[k - 1] = f[k - 1]
      BY <2>1
    <2>4. g = [k \in 0..(m + 1) |-> g[k]]
      OBVIOUS
    <2> HIDE DEF g
    <2>5. ASSUME NEW k \in 0..(m + 1)
          PROVE  g[k] = IF k = 0 THEN NothingYet ELSE Step(k, g[k - 1])
      <3>1. CASE k = 0
        BY <2>2, <2>3, <3>1
      <3>2. CASE k \in 1..m
        BY <2>1, <2>2, <2>3, <3>2
      <3>3. CASE k = m + 1
        <4>1. k # 0 /\ k - 1 = m
          BY <2>1, <3>3
        <4>2. QED
          BY <2>3, <3>3, <4>1 DEF x
      <3>4. QED
        BY <2>1, <3>1, <3>2, <3>3
    <2>6. Run(g, m + 1)
      BY <2>4, <2>5
    <2> HIDE DEF Run
    <2>7. QED
      BY <2>6
  <1> HIDE DEF Run
  <1>3. \A m \in Nat : m \in T => m + 1 \in T
    BY <1>2
  <1>4. n \in T
    <2>1. n \in Nat
      OBVIOUS
    <2> HIDE DEF T, n
    <2>2. QED
      BY <1>1, <1>3, <2>1, Induction
  <1>5. Run(state, n)
    BY <1>4
  <1> HIDE DEF state
  <1>6. state = [k \in 0..n |-> IF k = 0 THEN NothingYet ELSE Step(k, state[k - 1])]
    BY <1>5 DEF Run
  <1>7. 0 \in 0..n /\ \A k \in 1..n : k \in 0..n /\ k # 0
    OBVIOUS
  <1>8. state[0] = NothingYet
    BY <1>6, <1>7, Zenon
  <1>9. ASSUME NEW k \in 1..n
        PROVE  state[k] = Step(k, state[k - 1])
    <2>1. state[k] = IF k = 0 THEN NothingYet ELSE Step(k, state[k - 1])
      BY <1>6, <1>7, Zenon
    <2>2. QED
      BY <1>7, <2>1, Zenon
  <1>10. QED
    BY <1>8, <1>9 DEF state, Step, Run, n

\* A run leaves a history: the one before, or one that has its count.
GivesBack(after, history, run) ==
    _hydrate_volume_variation_contracts(after) =
        IF ~run.stored THEN _hydrate_volume_variation_contracts(history) ELSE IF run.broken THEN {} ELSE {run.count}

\* The count that a history gives back is that of the last report in it.
LEMMA CountComesBack ==
    ASSUME NEW history, NEW run, run.broken \in BOOLEAN, run.stored \in BOOLEAN
    PROVE  GivesBack(MonitorRun(history, run).history, history, run)
  <1> DEFINE after == MonitorRun(history, run)
             report == after.report
             dict == _dict_to_report(_report_to_dict(report))
             counts == {i \in DOMAIN dict : dict[i].type = "VolumeCheck" /\ dict[i].actual # {}}
  <1>1. /\ Len(report) = 2 /\ DOMAIN report = 1..2
        /\ report[1].type = "VolumeCheck" /\ report[1].actual = IF run.broken THEN {} ELSE {run.count}
        /\ report[2].type = "VolumeVariationCheck"
    BY DEF MonitorRun
  <1>2. after.history = IF run.stored THEN {dict} ELSE history
    BY DEF MonitorRun
  <1> HIDE DEF after
  <1>3. DOMAIN dict = DOMAIN report /\ \A i \in DOMAIN report : dict[i].type = report[i].type /\ dict[i].actual = report[i].actual
    BY DEF _dict_to_report, _report_to_dict
  <1> HIDE DEF report, dict
  <1>4. CASE ~run.stored
    BY <1>2, <1>4 DEF after, GivesBack
  <1>5. CASE run.stored
    <2>1. after.history = {dict} /\ {dict} # {} /\ (CHOOSE h \in {dict} : TRUE) = dict
      BY <1>2, <1>5
    <2>2. _hydrate_volume_variation_contracts(after.history) = IF counts = {} THEN {} ELSE dict[Min(counts)].actual
      <3> DEFINE latest == CHOOSE h \in after.history : TRUE
                 places == {i \in DOMAIN latest : latest[i].type = "VolumeCheck" /\ latest[i].actual # {}}
      <3>1. _hydrate_volume_variation_contracts(after.history) =
              IF after.history = {} THEN {} ELSE IF places = {} THEN {} ELSE latest[Min(places)].actual
        BY DEF _hydrate_volume_variation_contracts
      <3>2. latest = dict
        BY <2>1
      <3> HIDE DEF latest
      <3>3. places = counts
        BY <3>2
      <3> HIDE DEF places, counts
      <3>4. QED
        BY <2>1, <3>1, <3>2, <3>3
    <2>3. 1 \in 1..2 /\ \A i \in 1..2 : i = 1 \/ i = 2
      OBVIOUS
    <2>4. counts = IF run.broken THEN {} ELSE {1}
      BY <1>1, <1>3, <2>3
    <2> HIDE DEF counts
    <2>5. CASE run.broken
      BY <1>5, <2>2, <2>4, <2>5 DEF after, GivesBack
    <2>6. CASE ~run.broken
      <3>1. Min({1}) = 1
        BY DEF Min
      <3>2. dict[1].actual = {run.count}
        BY <1>1, <1>3, <2>3, <2>6
      <3>3. QED
        BY <1>5, <2>2, <2>4, <2>6, <3>1, <3>2 DEF after, GivesBack
    <2>7. QED
      BY <2>5, <2>6
  <1>6. QED
    BY <1>4, <1>5

\* The run that a history is of: the last one that was stored.
LastStored(runs, i) == {l \in 1..i : runs[l].stored /\ ~runs[l].broken /\ \A j \in 1..i : runs[j].stored => j <= l}

\* A difference of more than three tenths.
FarOff(a, b) == IF a = 0 THEN b # 0 ELSE (IF b > a THEN b - a ELSE a - b) * 100 > 30 * a

\* The count compared with is that of the last run that was stored.
LEMMA VariationIsAlwaysAgainstLastStored ==
    ASSUME NEW in, VolumeDomain(in)
    PROVE  VariationIsAgainstLastStored(in.runs)
  <1> DEFINE runs == in.runs
             n == Len(runs)
             state == CHOOSE f : f = [i \in 0..Len(runs) |-> IF i = 0 THEN NothingYet ELSE AfterRun(runs, i, f[i - 1])]
             known(i) == _hydrate_volume_variation_contracts(state[i].history)
             stored(i) == {j \in 1..(i - 1) : runs[j].stored}
  <1>1. /\ n \in Nat
        /\ \A i \in 1..n : runs[i].count \in Nat /\ runs[i].broken \in BOOLEAN /\ runs[i].stored \in BOOLEAN
    BY DEF VolumeDomain
  <1>2. state[0] = NothingYet /\ \A i \in 1..n : state[i] = AfterRun(runs, i, state[i - 1])
    BY <1>1, RunsInTurn
  <1>3. SUFFICES ASSUME NEW i \in 1..n, ~runs[i].broken
                 PROVE  (state[i].report[2].status = "FAIL") =
                          (stored(i) # {} /\ ~runs[Max(stored(i))].broken /\ FarOff(runs[Max(stored(i))].count, runs[i].count))
    BY DEF VariationIsAgainstLastStored, NothingYet, AfterRun, FarOff
  <1> HIDE DEF state, runs
  <1> DEFINE T == {m \in Nat : m <= n => known(m) = {runs[l].count : l \in LastStored(runs, m)}}
  <1>4. 0 \in T
    <2>1. known(0) = {}
      BY <1>2 DEF NothingYet, _hydrate_volume_variation_contracts
    <2>2. LastStored(runs, 0) = {}
      BY DEF LastStored
    <2> HIDE DEF known
    <2>3. QED
      BY <2>1, <2>2
  <1>5. ASSUME NEW m \in Nat, m \in T
        PROVE  m + 1 \in T
    <2> SUFFICES ASSUME m + 1 <= n
                 PROVE  known(m + 1) = {runs[l].count : l \in LastStored(runs, m + 1)}
      OBVIOUS
    <2>1. m + 1 \in 1..n /\ (m + 1) - 1 = m /\ m <= n
      BY <1>1
    <2>2. state[m + 1] = MonitorRun(state[m].history, runs[m + 1])
      BY <1>2, <2>1 DEF AfterRun
    <2>3. known(m + 1) = IF ~runs[m + 1].stored THEN known(m) ELSE IF runs[m + 1].broken THEN {} ELSE {runs[m + 1].count}
      <3>1. runs[m + 1].broken \in BOOLEAN /\ runs[m + 1].stored \in BOOLEAN
        BY <1>1, <2>1
      <3>2. GivesBack(MonitorRun(state[m].history, runs[m + 1]).history, state[m].history, runs[m + 1])
        BY <3>1, CountComesBack
      <3>3. QED
        BY <2>2, <3>2 DEF GivesBack
    <2>4. known(m) = {runs[l].count : l \in LastStored(runs, m)}
      BY <1>5, <2>1
    <2>5. CASE ~runs[m + 1].stored
      <3>1. LastStored(runs, m + 1) = LastStored(runs, m)
        BY <2>5 DEF LastStored
      <3>2. QED
        BY <2>3, <2>4, <2>5, <3>1
    <2>6. CASE runs[m + 1].stored
      <3>1. LastStored(runs, m + 1) = IF runs[m + 1].broken THEN {} ELSE {m + 1}
        BY <1>1, <2>1, <2>6 DEF LastStored
      <3> HIDE DEF known
      <3>2. QED
        BY <1>1, <2>1, <2>3, <2>6, <3>1
    <2>7. QED
      BY <1>1, <2>1, <2>5, <2>6
  <1> DEFINE previous == known(i - 1)
             current == runs[i].count
  <1>6. previous = {runs[l].count : l \in LastStored(runs, i - 1)}
    <2>1. i - 1 \in Nat /\ i - 1 <= n
      BY <1>1, <1>3
    <2>2. i - 1 \in T
      <3> HIDE DEF T
      <3>1. QED
        BY <1>4, <1>5, <2>1, Induction
    <2>3. QED
      BY <2>1, <2>2
  <1>7. state[i].report[2].status = VolumeVariationCheck(current, previous, 30)
    <2>1. state[i] = MonitorRun(state[i - 1].history, runs[i])
      BY <1>2, <1>3 DEF AfterRun
    <2>2. MonitorRun(state[i - 1].history, runs[i]).report[2].status = VolumeVariationCheck(current, previous, 30)
      BY <1>3 DEF MonitorRun
    <2>3. QED
      BY <2>1, <2>2
  <1> HIDE DEF known, previous
  <1>8. current \in Nat
    BY <1>1, <1>3
  <1>9. CASE stored(i) = {}
    <2>1. LastStored(runs, i - 1) = {}
      BY <1>9 DEF LastStored
    <2>2. VolumeVariationCheck(current, previous, 30) = "PASS"
      BY <1>6, <2>1 DEF VolumeVariationCheck
    <2>3. QED
      BY <1>7, <1>9, <2>2
  <1>10. CASE stored(i) # {}
    <2>1. PICK l \in stored(i) : \A j \in stored(i) : l >= j
      <3>1. stored(i) \subseteq Nat /\ i \in Nat /\ \A j \in stored(i) : j <= i
        BY <1>3
      <3>2. QED
        BY <1>10, <3>1, GreatestNatural
    <2>2. Max(stored(i)) = l
      <3>1. \A m \in stored(i) : (\A j \in stored(i) : m >= j) => m = l
        BY <1>3, <2>1
      <3>2. QED
        BY <2>1, <3>1 DEF Max
    <2>3. l \in 1..n /\ runs[l].count \in Nat /\ runs[l].broken \in BOOLEAN
      BY <1>1, <1>3
    <2>4. LastStored(runs, i - 1) = IF runs[l].broken THEN {} ELSE {l}
      BY <1>3, <2>1, <2>3 DEF LastStored
    <2>5. CASE runs[l].broken
      <3>1. VolumeVariationCheck(current, previous, 30) = "PASS"
        BY <1>6, <2>4, <2>5 DEF VolumeVariationCheck
      <3>2. QED
        BY <1>7, <2>2, <2>5, <3>1
    <2>6. CASE ~runs[l].broken
      <3>1. previous = {runs[l].count}
        BY <1>6, <2>4, <2>6
      <3>2. previous # {} /\ (CHOOSE x \in previous : TRUE) = runs[l].count
        BY <3>1
      <3> DEFINE a == runs[l].count
      <3>3. VolumeVariationCheck(current, previous, 30) =
              IF a = 0 THEN Verdict(current = 0) ELSE Verdict((IF current > a THEN current - a ELSE a - current) * 100 <= 30 * a)
        BY <3>2 DEF VolumeVariationCheck
      <3>4. a \in Nat
        BY <2>3
      <3> HIDE DEF a, current
      <3>5. (VolumeVariationCheck(current, previous, 30) = "FAIL") = FarOff(a, current)
        <4> DEFINE by == IF current > a THEN current - a ELSE a - current
        <4>1. by * 100 \in Int /\ 30 * a \in Int
          BY <1>8, <3>4
        <4>2. (by * 100 > 30 * a) = ~(by * 100 <= 30 * a)
          <5> HIDE DEF by
          <5>1. QED
            BY <4>1
        <4>3. FarOff(a, current) = IF a = 0 THEN current # 0 ELSE by * 100 > 30 * a
          BY DEF FarOff
        <4> HIDE DEF by
        <4> DEFINE close == by * 100 <= 30 * a
                   wide == by * 100 > 30 * a
        <4>4. VolumeVariationCheck(current, previous, 30) = IF a = 0 THEN Verdict(current = 0) ELSE Verdict(close)
          BY <3>3 DEF by
        <4>5. FarOff(a, current) = (IF a = 0 THEN current # 0 ELSE ~close)
          BY <4>2, <4>3
        <4> HIDE DEF close
        <4>6. QED
          BY <4>4, <4>5, VerdictOf
      <3>6. QED
        BY <1>7, <1>10, <2>2, <2>6, <3>5 DEF a, current
    <2>7. QED
      BY <2>3, <2>5, <2>6
  <1>11. QED
    BY <1>9, <1>10 DEF stored

------------------------------------------------------------------------------
(* Contracts: versions, for any fields and terms.                           *)

\* A contract has a list of fields, which say whether they are required and unique.
FieldsDomain(s) ==
    /\ Len(s.output) \in Nat /\ DOMAIN s.output = 1..Len(s.output)
    /\ \A i \in DOMAIN s.output : s.output[i].required \in BOOLEAN /\ s.output[i].unique \in BOOLEAN
    /\ (s.output = <<>>) = (Len(s.output) = 0)

\* The place of the field that a name stands for: the last one of it.
PlaceOf(s, n) == Max({i \in DOMAIN s.output : s.output[i].name = n})

\* A name of a contract stands for a field of it.
LEMMA NameHasField ==
    ASSUME NEW s, FieldsDomain(s), NEW n \in Names(s)
    PROVE  /\ PlaceOf(s, n) \in DOMAIN s.output /\ s.output[PlaceOf(s, n)].name = n
           /\ Field(s, n) = s.output[PlaceOf(s, n)]
           /\ Field(s, n).required \in BOOLEAN /\ Field(s, n).unique \in BOOLEAN
  <1> DEFINE places == {i \in DOMAIN s.output : s.output[i].name = n}
  <1>1. places # {} /\ places \subseteq Nat /\ Len(s.output) \in Nat /\ \A i \in places : i <= Len(s.output)
    BY DEF Names, FieldsDomain
  <1>2. \E l \in places : \A i \in places : l >= i
    <2> HIDE DEF places
    <2>1. QED
      BY <1>1, GreatestNatural
  <1>3. Max(places) \in places
    <2> HIDE DEF places
    <2>1. QED
      BY <1>2 DEF Max
  <1>4. PlaceOf(s, n) = Max(places) /\ Field(s, n) = s.output[Max(places)]
    BY DEF PlaceOf, Field
  <1>5. QED
    BY <1>3, <1>4 DEF FieldsDomain

\* Two contracts whose fields say the same are told apart by no comparison.
SameFields(a, b) == /\ Names(a) = Names(b)
                    /\ \A n \in Names(a) :
                          /\ Type(Field(a, n)) = Type(Field(b, n)) /\ Entity(Field(a, n)) = Entity(Field(b, n))
                          /\ Classification(Field(a, n)) = Classification(Field(b, n))
                          /\ Field(a, n).required = Field(b, n).required /\ Field(a, n).unique = Field(b, n).unique
SameTerms(a, b) == a.grain = b.grain /\ a.sla = b.sla /\ a.security = b.security

\* The fields that changed are those that say something else.
LEMMA ChangesOfTheSame ==
    ASSUME NEW a, NEW b, NEW c, NEW d, SameFields(a, c), SameFields(b, d),
           NEW names, names \subseteq Names(a) \intersect Names(b)
    PROVE  FieldChanges(a, b, names) = FieldChanges(c, d, names)
  <1>1. \A n \in names : n \in Names(a) /\ n \in Names(b)
    OBVIOUS
  <1>2. Changed(a, b, names, Type) = Changed(c, d, names, Type)
    BY <1>1 DEF Changed, SameFields
  <1>3. Changed(a, b, names, Entity) = Changed(c, d, names, Entity)
    BY <1>1 DEF Changed, SameFields
  <1>4. Changed(a, b, names, Classification) = Changed(c, d, names, Classification)
    BY <1>1 DEF Changed, SameFields
  <1>5. Changed(a, b, names, LAMBDA f : f.required) = Changed(c, d, names, LAMBDA f : f.required)
    BY <1>1 DEF Changed, SameFields
  <1>6. Changed(a, b, names, LAMBDA f : f.unique) = Changed(c, d, names, LAMBDA f : f.unique)
    BY <1>1 DEF Changed, SameFields
  <1>7. QED
    BY <1>2, <1>3, <1>4, <1>5, <1>6 DEF FieldChanges

\* The comparison says the same of contracts that say the same.
LEMMA DiffOfTheSame ==
    ASSUME NEW a, NEW b, NEW c, NEW d, SameFields(a, c), SameFields(b, d), SameTerms(a, c), SameTerms(b, d)
    PROVE  diff_contracts(a, b) = diff_contracts(c, d)
  <1>1. _sla_tuple(a) = _sla_tuple(c) /\ _sla_tuple(b) = _sla_tuple(d)
    BY DEF SameTerms, _sla_tuple
  <1>2. _security_tuple(a) = _security_tuple(c) /\ _security_tuple(b) = _security_tuple(d)
    BY DEF SameTerms, _security_tuple
  <1>3. _diff_sla_breaking(a, b) = _diff_sla_breaking(c, d)
    BY <1>1 DEF _diff_sla_breaking
  <1>4. _diff_security_breaking(a, b) = _diff_security_breaking(c, d)
    BY <1>2 DEF _diff_security_breaking
  <1>5. Names(a) = Names(c) /\ Names(b) = Names(d)
    BY DEF SameFields
  <1>6. FieldChanges(a, b, Names(a) \intersect Names(b)) = FieldChanges(c, d, Names(c) \intersect Names(d))
    BY <1>5, ChangesOfTheSame
  <1>7. a.grain = c.grain /\ b.grain = d.grain
    BY DEF SameTerms
  <1>8. QED
    BY <1>3, <1>4, <1>5, <1>6, <1>7 DEF diff_contracts, Diff

\* What is read back from the store says what was stored.
LEMMA RebuiltIsTheSame ==
    ASSUME NEW s, FieldsDomain(s), canonicalize_contract(s).valid
    PROVE  LET back == schema_from_definition(canonicalize_contract(s))
           IN  SameFields(s, back) /\ SameTerms(s, back)
  <1> DEFINE payload == canonicalize_contract(s)
             back == schema_from_definition(payload)
  <1>1. /\ payload.grain = s.grain /\ payload.sla = s.sla /\ payload.security = s.security
        /\ payload.output = [i \in DOMAIN s.output |-> Stored(s.output[i])]
    BY DEF canonicalize_contract
  <1>2. back.output = payload.output /\ back.grain = payload.grain /\ back.sla = payload.sla /\ back.security = payload.security
    BY DEF schema_from_definition, Rebuilt
  <1> HIDE DEF payload, back
  <1>3. SameTerms(s, back)
    BY <1>1, <1>2 DEF SameTerms
  <1>4. DOMAIN back.output = DOMAIN s.output /\ \A i \in DOMAIN s.output : back.output[i] = Stored(s.output[i])
    BY <1>1, <1>2
  <1>5. \A i \in DOMAIN s.output : /\ back.output[i].name = s.output[i].name /\ back.output[i].type = s.output[i].type
                                   /\ back.output[i].required = s.output[i].required /\ back.output[i].unique = s.output[i].unique
                                   /\ back.output[i].classification = s.output[i].classification /\ back.output[i].entity = s.output[i].entity
    <2>1. \A f : LET g == Stored(f)
                IN  /\ g.name = f.name /\ g.type = f.type /\ g.required = f.required /\ g.unique = f.unique
                    /\ g.classification = f.classification /\ g.entity = f.entity
      BY DEF Stored
    <2>2. QED
      BY <1>4, <2>1
  <1>6. Names(back) = Names(s)
    BY <1>4, <1>5 DEF Names
  <1>7. ASSUME NEW n \in Names(s)
        PROVE  Field(back, n) = back.output[PlaceOf(s, n)]
    <2>1. {i \in DOMAIN back.output : back.output[i].name = n} = {i \in DOMAIN s.output : s.output[i].name = n}
      BY <1>4, <1>5
    <2>2. QED
      BY <2>1 DEF Field, PlaceOf
  <1>8. ASSUME NEW n \in Names(s)
        PROVE  /\ Type(Field(s, n)) = Type(Field(back, n)) /\ Entity(Field(s, n)) = Entity(Field(back, n))
               /\ Classification(Field(s, n)) = Classification(Field(back, n))
               /\ Field(s, n).required = Field(back, n).required /\ Field(s, n).unique = Field(back, n).unique
    <2>1. PlaceOf(s, n) \in DOMAIN s.output /\ Field(s, n) = s.output[PlaceOf(s, n)] /\ Field(back, n) = back.output[PlaceOf(s, n)]
      BY <1>7, NameHasField
    <2>2. QED
      BY <1>5, <2>1 DEF Type, Entity, Classification
  <1>9. SameFields(s, back)
    BY <1>6, <1>8 DEF SameFields
  <1>10. QED
    BY <1>3, <1>9 DEF back, payload

\* A comparison of stored definitions is the comparison of the documents.
LEMMA DiffAlwaysSurvivesStorage ==
    ASSUME NEW a, NEW b, FieldsDomain(a), FieldsDomain(b)
    PROVE  DiffSurvivesStorage(a, b)
  <1> DEFINE pa == canonicalize_contract(a)
             pb == canonicalize_contract(b)
             ra == schema_from_definition(pa)
             rb == schema_from_definition(pb)
  <1> SUFFICES ASSUME pa.valid, pb.valid
               PROVE  /\ diff_contracts(ra, rb) = diff_contracts(a, b)
                      /\ pa = pb => diff_contracts(a, b) = diff_contracts(a, a)
    BY DEF DiffSurvivesStorage
  <1>1. SameFields(a, ra) /\ SameTerms(a, ra) /\ SameFields(b, rb) /\ SameTerms(b, rb)
    BY RebuiltIsTheSame
  <1>2. pa = pb => ra = rb
    OBVIOUS
  <1> HIDE DEF pa, pb, ra, rb
  <1>3. diff_contracts(a, b) = diff_contracts(ra, rb) /\ diff_contracts(a, a) = diff_contracts(ra, ra)
    BY <1>1, DiffOfTheSame
  <1>4. QED
    BY <1>2, <1>3

\* The ranks of the levels are numbers, and so are the delays that are read.
LEMMA RanksAreNumbers ==
    (\A level : Rank(level) \in Nat) /\ (\A d \in DOMAIN Delays : Delays[d] \in Nat)
  BY DEF Rank, CLASSIFICATION_RANK, Delays

\* The SLA does not get worse in two steps without getting worse in one.
LEMMA SlaComposes ==
    ASSUME NEW a, NEW b, NEW c, ~_diff_sla_breaking(a, b).breaking, ~_diff_sla_breaking(b, c).breaking
    PROVE  ~_diff_sla_breaking(a, c).breaking
  <1> DEFINE x == _sla_tuple(a)
             y == _sla_tuple(b)
             z == _sla_tuple(c)
             worse(p, q) == p # q /\ (p[1] # q[1] \/ ~({p[2], q[2]} \subseteq DOMAIN Delays) \/ Delays[q[2]] > Delays[p[2]])
  <1>1. /\ _diff_sla_breaking(a, b).breaking = worse(x, y) /\ _diff_sla_breaking(b, c).breaking = worse(y, z)
        /\ _diff_sla_breaking(a, c).breaking = worse(x, z)
    BY DEF _diff_sla_breaking
  <1> HIDE DEF x, y, z
  <1>2. ~worse(x, y) /\ ~worse(y, z) => ~worse(x, z)
    <2> SUFFICES ASSUME ~worse(x, y), ~worse(y, z), x # y, y # z
                 PROVE  ~worse(x, z)
      OBVIOUS
    <2>1. /\ x[1] = y[1] /\ y[1] = z[1] /\ x[2] \in DOMAIN Delays /\ y[2] \in DOMAIN Delays /\ z[2] \in DOMAIN Delays
          /\ ~(Delays[y[2]] > Delays[x[2]]) /\ ~(Delays[z[2]] > Delays[y[2]])
      OBVIOUS
    <2>2. Delays[x[2]] \in Nat /\ Delays[y[2]] \in Nat /\ Delays[z[2]] \in Nat
      BY <2>1, RanksAreNumbers
    <2>3. ~(Delays[z[2]] > Delays[x[2]])
      BY <2>1, <2>2
    <2>4. QED
      BY <2>1, <2>3
  <1>3. QED
    BY <1>1, <1>2

\* Nor do the security terms.
LEMMA SecurityComposes ==
    ASSUME NEW a, NEW b, NEW c, ~_diff_security_breaking(a, b).breaking, ~_diff_security_breaking(b, c).breaking
    PROVE  ~_diff_security_breaking(a, c).breaking
  <1> DEFINE x == _security_tuple(a)
             y == _security_tuple(b)
             z == _security_tuple(c)
             known(p, q) == {p[1], q[1]} \subseteq DOMAIN CLASSIFICATION_RANK
             worse(p, q) == p # q /\ (p[2] # q[2] \/ ~known(p, q) \/ Rank(q[1]) < Rank(p[1]))
  <1>1. /\ _diff_security_breaking(a, b).breaking = worse(x, y) /\ _diff_security_breaking(b, c).breaking = worse(y, z)
        /\ _diff_security_breaking(a, c).breaking = worse(x, z)
    BY DEF _diff_security_breaking
  <1> HIDE DEF x, y, z
  <1>2. ~worse(x, y) /\ ~worse(y, z) => ~worse(x, z)
    <2> SUFFICES ASSUME ~worse(x, y), ~worse(y, z), x # y, y # z
                 PROVE  ~worse(x, z)
      OBVIOUS
    <2>1. /\ x[2] = y[2] /\ y[2] = z[2] /\ known(x, z)
          /\ ~(Rank(y[1]) < Rank(x[1])) /\ ~(Rank(z[1]) < Rank(y[1]))
      OBVIOUS
    <2>2. Rank(x[1]) \in Nat /\ Rank(y[1]) \in Nat /\ Rank(z[1]) \in Nat
      BY RanksAreNumbers
    <2>3. ~(Rank(z[1]) < Rank(x[1]))
      BY <2>1, <2>2
    <2>4. QED
      BY <2>1, <2>3
  <1>3. QED
    BY <1>1, <1>2

\* What two versions say of a field they share, unless that breaks.
FieldHolds(f, g) ==
    /\ Type(f) = Type(g) /\ (g.required => f.required) /\ (g.unique => f.unique)
    /\ Classification(f) = Classification(g) \/ ~(Rank(Classification(g)) < Rank(Classification(f)))
VersionHolds(a, b) ==
    /\ Names(a) \subseteq Names(b) /\ a.grain = b.grain
    /\ ~_diff_sla_breaking(a, b).breaking /\ ~_diff_security_breaking(a, b).breaking
    /\ \A n \in Names(a) : FieldHolds(Field(a, n), Field(b, n))

\* A comparison announces a break unless all of that holds.
LEMMA BreakIsAnnounced ==
    ASSUME NEW a, NEW b, FieldsDomain(a), FieldsDomain(b)
    PROVE  diff_contracts(a, b).breaking = ~VersionHolds(a, b)
  <1> DEFINE names == Names(a) \intersect Names(b)
             fields == FieldChanges(a, b, names)
             removed == Names(a) \ Names(b)
             f(n) == Field(a, n)
             g(n) == Field(b, n)
             sla == _diff_sla_breaking(a, b).breaking
             security == _diff_security_breaking(a, b).breaking
  <1>1. diff_contracts(a, b).breaking = Breaks(fields, removed, a.grain # b.grain, sla, security)
    BY DEF diff_contracts, Diff
  <1>2. /\ fields.retyped = {<<n, Type(f(n)), Type(g(n))>> : n \in {m \in names : Type(f(m)) # Type(g(m))}}
        /\ fields.required = {<<n, f(n).required, g(n).required>> : n \in {m \in names : f(m).required # g(m).required}}
        /\ fields.unique = {<<n, f(n).unique, g(n).unique>> : n \in {m \in names : f(m).unique # g(m).unique}}
        /\ fields.classification = {<<n, Classification(f(n)), Classification(g(n))>> :
                                      n \in {m \in names : Classification(f(m)) # Classification(g(m))}}
    BY DEF FieldChanges, Changed
  <1>3. \A n \in names : /\ f(n).required \in BOOLEAN /\ f(n).unique \in BOOLEAN
                         /\ g(n).required \in BOOLEAN /\ g(n).unique \in BOOLEAN
    BY NameHasField
  <1> HIDE DEF fields, f, g
  <1>4. (fields.retyped = {}) = (\A n \in names : Type(f(n)) = Type(g(n)))
    <2> DEFINE retyped == {m \in names : Type(f(m)) # Type(g(m))}
    <2>1. fields.retyped = {<<n, Type(f(n)), Type(g(n))>> : n \in retyped}
      BY <1>2
    <2>2. (retyped = {}) = (\A n \in names : Type(f(n)) = Type(g(n)))
      OBVIOUS
    <2> HIDE DEF retyped
    <2>3. (fields.retyped = {}) = (retyped = {})
      BY <2>1
    <2>4. QED
      BY <2>2, <2>3, Zenon
  <1>5. (\E c \in fields.required \union fields.unique : ~c[2] /\ c[3])
          = (\E n \in names : (~f(n).required /\ g(n).required) \/ (~f(n).unique /\ g(n).unique))
    <2>1. ASSUME NEW c \in fields.required, ~c[2], c[3]
          PROVE  \E n \in names : ~f(n).required /\ g(n).required
      <3>1. PICK n \in names : c = <<n, f(n).required, g(n).required>>
        BY <1>2
      <3>2. QED
        BY <2>1, <3>1
    <2>2. ASSUME NEW c \in fields.unique, ~c[2], c[3]
          PROVE  \E n \in names : ~f(n).unique /\ g(n).unique
      <3>1. PICK n \in names : c = <<n, f(n).unique, g(n).unique>>
        BY <1>2
      <3>2. QED
        BY <2>2, <3>1
    <2>3. ASSUME NEW n \in names, ~f(n).required, g(n).required
          PROVE  \E c \in fields.required : ~c[2] /\ c[3]
      <3>1. <<n, f(n).required, g(n).required>> \in fields.required
        BY <1>2, <1>3, <2>3
      <3>2. QED
        BY <2>3, <3>1
    <2>4. ASSUME NEW n \in names, ~f(n).unique, g(n).unique
          PROVE  \E c \in fields.unique : ~c[2] /\ c[3]
      <3>1. <<n, f(n).unique, g(n).unique>> \in fields.unique
        BY <1>2, <1>3, <2>4
      <3>2. QED
        BY <2>4, <3>1
    <2>5. QED
      BY <2>1, <2>2, <2>3, <2>4
  <1>6. (\E c \in fields.classification : Rank(c[3]) < Rank(c[2]))
          = (\E n \in names : Classification(f(n)) # Classification(g(n)) /\ Rank(Classification(g(n))) < Rank(Classification(f(n))))
    <2>1. ASSUME NEW c \in fields.classification, Rank(c[3]) < Rank(c[2])
          PROVE  \E n \in names : Classification(f(n)) # Classification(g(n)) /\ Rank(Classification(g(n))) < Rank(Classification(f(n)))
      <3>1. PICK n \in names : c = <<n, Classification(f(n)), Classification(g(n))>> /\ Classification(f(n)) # Classification(g(n))
        BY <1>2
      <3>2. QED
        BY <2>1, <3>1
    <2>2. ASSUME NEW n \in names, Classification(f(n)) # Classification(g(n)), Rank(Classification(g(n))) < Rank(Classification(f(n)))
          PROVE  \E c \in fields.classification : Rank(c[3]) < Rank(c[2])
      <3>1. <<n, Classification(f(n)), Classification(g(n))>> \in fields.classification
        BY <1>2, <2>2
      <3>2. QED
        BY <2>2, <3>1
    <2>3. QED
      BY <2>1, <2>2
  <1>7. VersionHolds(a, b) = (/\ removed = {} /\ a.grain = b.grain /\ ~sla /\ ~security
                              /\ \A n \in names : FieldHolds(f(n), g(n)))
    <2>1. (Names(a) \subseteq Names(b)) = (removed = {})
      OBVIOUS
    <2>2. Names(a) \subseteq Names(b) => names = Names(a)
      OBVIOUS
    <2>3. VersionHolds(a, b) = (/\ Names(a) \subseteq Names(b) /\ a.grain = b.grain /\ ~sla /\ ~security
                                /\ \A n \in Names(a) : FieldHolds(f(n), g(n)))
      BY DEF VersionHolds, f, g
    <2> HIDE DEF removed, names, sla, security
    <2>4. QED
      BY <2>1, <2>2, <2>3, Zenon
  <1>8. (\A n \in names : FieldHolds(f(n), g(n)))
          = (/\ \A n \in names : Type(f(n)) = Type(g(n))
             /\ ~\E n \in names : (~f(n).required /\ g(n).required) \/ (~f(n).unique /\ g(n).unique)
             /\ ~\E n \in names : Classification(f(n)) # Classification(g(n)) /\ Rank(Classification(g(n))) < Rank(Classification(f(n))))
    <2> HIDE DEF names
    <2>1. QED
      BY Zenon DEF FieldHolds
  <1> HIDE DEF names, removed, sla, security
  <1>9. Breaks(fields, removed, a.grain # b.grain, sla, security)
          = (\/ removed # {} \/ fields.retyped # {} \/ a.grain # b.grain \/ sla \/ security
             \/ \E c \in fields.required \union fields.unique : ~c[2] /\ c[3]
             \/ \E c \in fields.classification : Rank(c[3]) < Rank(c[2]))
    BY Zenon DEF Breaks
  <1>10. QED
    BY <1>1, <1>4, <1>5, <1>6, <1>7, <1>8, <1>9, Zenon

\* Two updates announced as harmless do not add up to a breaking one.
LEMMA NonBreakingAlwaysComposes ==
    ASSUME NEW a, NEW b, NEW c, FieldsDomain(a), FieldsDomain(b), FieldsDomain(c)
    PROVE  NonBreakingComposes(a, b, c)
  <1> SUFFICES ASSUME VersionHolds(a, b), VersionHolds(b, c)
               PROVE  VersionHolds(a, c)
    <2>1. /\ diff_contracts(a, b).breaking = ~VersionHolds(a, b) /\ diff_contracts(b, c).breaking = ~VersionHolds(b, c)
          /\ diff_contracts(a, c).breaking = ~VersionHolds(a, c)
      BY BreakIsAnnounced
    <2>2. QED
      BY <2>1, Zenon DEF NonBreakingComposes
  <1>1. ~_diff_sla_breaking(a, c).breaking /\ ~_diff_security_breaking(a, c).breaking
    BY SlaComposes, SecurityComposes DEF VersionHolds
  <1>2. Names(a) \subseteq Names(b) /\ Names(b) \subseteq Names(c) /\ a.grain = b.grain /\ b.grain = c.grain
    BY DEF VersionHolds
  <1>3. ASSUME NEW n \in Names(a)
        PROVE  FieldHolds(Field(a, n), Field(c, n))
    <2> DEFINE f == Field(a, n)
               g == Field(b, n)
               h == Field(c, n)
    <2>1. FieldHolds(f, g) /\ FieldHolds(g, h)
      BY <1>2 DEF VersionHolds
    <2> HIDE DEF f, g, h
    <2>2. Rank(Classification(f)) \in Nat /\ Rank(Classification(g)) \in Nat /\ Rank(Classification(h)) \in Nat
      BY RanksAreNumbers
    <2>3. FieldHolds(f, h)
      BY <2>1, <2>2 DEF FieldHolds
    <2>4. QED
      BY <2>3 DEF f, h
  <1>4. QED
    BY <1>1, <1>2, <1>3 DEF VersionHolds

------------------------------------------------------------------------------
(* Contracts: documents, for any entries.                                   *)

\* A document lists its fields and its SLA properties.
DocumentDomain(doc) ==
    /\ Len(doc.schema) \in Nat /\ DOMAIN doc.schema = 1..Len(doc.schema)
    /\ Len(doc.slaProperties) \in Nat /\ DOMAIN doc.slaProperties = 1..Len(doc.slaProperties)

\* The last of some places is one of them.
LEMMA LastPlace ==
    ASSUME NEW n \in Nat, NEW S, S \subseteq 1..n, S # {}
    PROVE  Max(S) \in S /\ \A i \in S : i <= Max(S)
  <1>1. S \subseteq Nat /\ \A i \in S : i <= n
    OBVIOUS
  <1>2. \E l \in S : \A i \in S : l >= i
    BY <1>1, GreatestNatural
  <1>3. Max(S) \in S /\ \A i \in S : Max(S) >= i
    BY <1>2 DEF Max
  <1>4. QED
    BY <1>1, <1>3

\* A place is found in the list of the places, at its rank.
LEMMA PlaceInOrder ==
    ASSUME NEW n \in Nat, NEW S, S \subseteq 1..n, NEW i \in S
    PROVE  LET k == Cardinality({j \in S : j <= i})
           IN  k \in DOMAIN InOrder(S) /\ InOrder(S)[k] = i
  <1> DEFINE upto(x) == {j \in S : j <= x}
             k == Cardinality(upto(i))
  <1>1. IsFiniteSet(S)
    <2>1. IsFiniteSet(1..n)
      BY FS_Interval
    <2>2. QED
      BY <2>1, FS_Subset
  <1>2. \A x \in S : x \in Nat
    OBVIOUS
  <1>3. \A x \in S : upto(x) \subseteq S /\ x \in upto(x) /\ \A y \in S : y < x => upto(y) \subseteq upto(x) /\ x \notin upto(y)
    <2>1. \A x \in S : upto(x) \subseteq S /\ x \in upto(x)
      BY <1>2
    <2>2. \A x, y \in S : y < x => x \notin upto(y)
      BY <1>2
    <2>3. ASSUME NEW x \in S, NEW y \in S, y < x, NEW j \in upto(y)
          PROVE  j \in upto(x)
      <3>1. j \in S /\ j \in Nat /\ x \in Nat /\ y \in Nat /\ j <= y
        BY <1>2, <2>3
      <3>2. j <= x
        BY <2>3, <3>1
      <3>3. QED
        BY <3>1, <3>2
    <2> HIDE DEF upto
    <2>4. QED
      BY <2>1, <2>2, <2>3
  <1> HIDE DEF upto
  <1>4. \A x \in S : IsFiniteSet(upto(x)) /\ Cardinality(upto(x)) \in Nat /\ Cardinality(upto(x)) <= Cardinality(S) /\ Cardinality(upto(x)) # 0
    <2> TAKE x \in S
    <2>1. IsFiniteSet(upto(x)) /\ Cardinality(upto(x)) <= Cardinality(S)
      BY <1>1, <1>3, FS_Subset
    <2>2. Cardinality(upto(x)) \in Nat /\ Cardinality(upto(x)) # 0
      BY <1>3, <2>1, FS_CardinalityType, FS_EmptySet
    <2>3. QED
      BY <2>1, <2>2
  <1>5. \A x, y \in S : y < x => Cardinality(upto(y)) # Cardinality(upto(x))
    <2> SUFFICES ASSUME NEW x \in S, NEW y \in S, y < x
                 PROVE  Cardinality(upto(y)) # Cardinality(upto(x))
      OBVIOUS
    <2>1. upto(y) \subseteq upto(x) /\ upto(y) # upto(x)
      BY <1>3
    <2>2. QED
      BY <1>4, <2>1, FS_Subset
  <1>6. \A x, y \in S : Cardinality(upto(y)) = Cardinality(upto(x)) => x = y
    BY <1>2, <1>5
  <1>7. k \in 1..Cardinality(S)
    <2>1. Cardinality(S) \in Nat
      BY <1>1, FS_CardinalityType
    <2>2. QED
      BY <1>4, <2>1
  <1>8. InOrder(S) = [m \in 1..Cardinality(S) |-> CHOOSE x \in S : Cardinality(upto(x)) = m]
    BY DEF InOrder, upto
  <1>9. (CHOOSE x \in S : Cardinality(upto(x)) = k) = i
    <2>1. \A x \in S : (Cardinality(upto(x)) = k) = (x = i)
      BY <1>6
    <2> HIDE DEF k
    <2>2. QED
      BY <2>1
  <1> HIDE DEF k
  <1>10. k \in DOMAIN InOrder(S) /\ InOrder(S)[k] = i
    BY <1>7, <1>8, <1>9
  <1>11. QED
    BY <1>10 DEF k, upto

\* The names that a document gives.
NamesOf(doc) == {doc.schema[i].name : i \in DOMAIN doc.schema} \ {None}

\* What the parts of an import are.
LEMMA ImportSays ==
    ASSUME NEW doc
    PROVE  LET in == import_odcs_31(doc)
               checks == _import_quality(doc.quality, NamesOf(doc))
           IN  /\ in.accepted = (NamesOf(doc) # {} /\ doc.id # None /\ doc.version # None)
               /\ in.accepted =>
                    /\ in.schema.product = [id |-> doc.id, version |-> doc.version, description |-> doc.description,
                                            owner |-> _import_team(doc.team), domain |-> _import_custom_properties(doc.customProperties)]
                    /\ in.schema.output = _import_properties(doc.schema, doc.quality, NamesOf(doc))
                    /\ in.schema.grain = checks.grain /\ in.schema.sla = _import_sla(doc.slaProperties)
                    /\ in.schema.security = _import_security(doc.security) /\ in.schema.status = doc.status
                    /\ checks.warnings \subseteq in.warnings
                    /\ Unplaced(doc.slaProperties, SlaKey, "sla") \subseteq in.warnings
                    /\ {<<"field", i>> : i \in {j \in DOMAIN doc.schema : doc.schema[j].name = None}} \subseteq in.warnings
  <1> DEFINE names == NamesOf(doc)
             ok == NamesOf(doc) # {} /\ doc.id # None /\ doc.version # None
  <1>1. {doc.schema[i].name : i \in DOMAIN doc.schema} \ {None} = names
    BY DEF NamesOf
  <1>2. CASE ok
    BY <1>1, <1>2 DEF import_odcs_31, Given
  <1>3. CASE ~ok
    BY <1>1, <1>3 DEF import_odcs_31, Given
  <1>4. QED
    BY <1>2, <1>3

\* A field with a name arrives, with the obligations that the rules put on it.
LEMMA FieldArrives ==
    ASSUME NEW doc, DocumentDomain(doc), NEW names, NEW n \in NamesOf(doc)
    PROVE  LET out == _import_properties(doc.schema, doc.quality, names)
           IN  \E k \in DOMAIN out :
                 /\ out[k].name = n
                 /\ out[k].required = (n \in Rules(doc.quality, "required", names))
                 /\ out[k].unique = (n \in Rules(doc.quality, "unique", names))
  <1> DEFINE out == _import_properties(doc.schema, doc.quality, names)
             firsts == FirstPositions(doc.schema)
             kept == InOrder(firsts)
             S == {j \in 1..Len(doc.schema) : doc.schema[j].name = n}
  <1>1. Len(doc.schema) \in Nat /\ DOMAIN doc.schema = 1..Len(doc.schema) /\ n # None
    BY DEF DocumentDomain, NamesOf
  <1>2. S # {} /\ S \subseteq Nat
    BY <1>1 DEF NamesOf
  <1>3. PICK p \in S : \A j \in S : p <= j
    <2> HIDE DEF S
    <2>1. QED
      BY <1>2, LeastNatural
  <1>4. p \in firsts
    <2>1. ASSUME NEW j \in 1..(p - 1)
          PROVE  doc.schema[j].name # doc.schema[p].name
      <3>1. p \in 1..Len(doc.schema) /\ doc.schema[p].name = n /\ j \in 1..Len(doc.schema) /\ ~(p <= j)
        BY <1>1, <1>3
      <3>2. QED
        BY <1>3, <3>1
    <2>2. p \in DOMAIN doc.schema /\ doc.schema[p].name = n
      BY <1>1, <1>3
    <2>3. QED
      BY <1>1, <2>1, <2>2 DEF FirstPositions, Given
  <1>5. firsts \subseteq 1..Len(doc.schema)
    BY <1>1 DEF FirstPositions
  <1> HIDE DEF firsts
  <1>6. PICK k \in DOMAIN kept : kept[k] = p
    BY <1>1, <1>4, <1>5, PlaceInOrder
  <1>7. /\ DOMAIN out = DOMAIN kept
        /\ out[k].name = doc.schema[kept[k]].name
        /\ out[k].required = (doc.schema[kept[k]].name \in Rules(doc.quality, "required", names))
        /\ out[k].unique = (doc.schema[kept[k]].name \in Rules(doc.quality, "unique", names))
    BY DEF _import_properties, firsts
  <1>8. doc.schema[p].name = n
    BY <1>3
  <1> HIDE DEF kept, out
  <1>9. QED
    BY <1>6, <1>7, <1>8 DEF out

\* The property at place i is there, or a later one of its key is.
Arrives(entries, i) ==
    \E j \in i..Len(entries) :
      /\ SlaKey(entries[i].property) = SlaKey(entries[j].property)
      /\ _import_sla(entries)[SlaKey(entries[j].property)] = entries[j].value

\* An SLA property that is placed is there, or a later one of its key is.
LEMMA SlaArrives ==
    ASSUME NEW entries, Len(entries) \in Nat, DOMAIN entries = 1..Len(entries), NEW i \in DOMAIN entries,
           SlaKey(entries[i].property) # None, entries[i].value # None
    PROVE  Arrives(entries, i)
  <1> DEFINE key == SlaKey(entries[i].property)
             at == {j \in DOMAIN entries : SlaKey(entries[j].property) = key /\ entries[j].value # None}
             l == Max(at)
  <1>1. i \in at /\ at \subseteq 1..Len(entries)
    OBVIOUS
  <1>2. l \in at /\ i <= l
    <2> HIDE DEF at
    <2>1. QED
      BY <1>1, LastPlace
  <1>3. l \in i..Len(entries)
    BY <1>2
  <1>4. key \in {"refresh_frequency", "max_latency"}
    BY DEF SlaKey
  <1>5. LastValue(entries, SlaKey, key) = entries[l].value
    BY <1>1 DEF LastValue, Given
  <1>6. _import_sla(entries)[key] = entries[l].value
    <2>1. _import_sla(entries) = [refresh_frequency |-> LastValue(entries, SlaKey, "refresh_frequency"),
                                    max_latency |-> LastValue(entries, SlaKey, "max_latency")]
      BY DEF _import_sla
    <2> DEFINE rf == LastValue(entries, SlaKey, "refresh_frequency")
               ml == LastValue(entries, SlaKey, "max_latency")
    <2>2. CASE key = "refresh_frequency"
      <3>1. rf = entries[l].value
        BY <1>5, <2>2
      <3> HIDE DEF rf, ml, key, l
      <3>2. _import_sla(entries)[key] = rf
        BY <2>1, <2>2 DEF rf, ml
      <3>3. QED
        BY <3>1, <3>2
    <2>3. CASE key = "max_latency"
      <3>1. ml = entries[l].value
        BY <1>5, <2>3
      <3> HIDE DEF rf, ml, key, l
      <3>2. _import_sla(entries)[key] = ml
        BY <2>1, <2>3 DEF rf, ml
      <3>3. QED
        BY <3>1, <3>2
    <2>4. QED
      BY <1>4, <2>2, <2>3
  <1>7. SlaKey(entries[l].property) = key
    BY <1>2
  <1> HIDE DEF key, l
  <1>8. QED
    BY <1>3, <1>6, <1>7 DEF key, Arrives

\* Nothing of an accepted document disappears without a warning.
LEMMA ImportIsAlwaysLossAware ==
    ASSUME NEW doc, DocumentDomain(doc)
    PROVE  ImportIsLossAware(doc)
  <1> DEFINE in == import_odcs_31(doc)
             names == NamesOf(doc)
             out == _import_properties(doc.schema, doc.quality, names)
  <1> SUFFICES ASSUME in.accepted
               PROVE  /\ \A i \in DOMAIN doc.quality :
                           \/ <<"quality", i>> \in in.warnings
                           \/ \E k \in DOMAIN in.schema.output :
                                in.schema.output[k].name = doc.quality[i].field
                                /\ (IF doc.quality[i].type = "required" THEN in.schema.output[k].required ELSE in.schema.output[k].unique)
                      /\ \A i \in DOMAIN doc.slaProperties :
                           \/ <<"sla", i>> \in in.warnings
                           \/ \E j \in i..Len(doc.slaProperties) :
                                SlaKey(doc.slaProperties[i].property) = SlaKey(doc.slaProperties[j].property)
                                /\ in.schema.sla[SlaKey(doc.slaProperties[j].property)] = doc.slaProperties[j].value
                      /\ \A i \in DOMAIN doc.schema :
                           <<"field", i>> \in in.warnings \/ \E k \in DOMAIN in.schema.output : in.schema.output[k].name = doc.schema[i].name
    BY DEF ImportIsLossAware
  <1>1. /\ in.schema.output = out /\ in.schema.sla = _import_sla(doc.slaProperties)
        /\ _import_quality(doc.quality, names).warnings \subseteq in.warnings
        /\ Unplaced(doc.slaProperties, SlaKey, "sla") \subseteq in.warnings
        /\ {<<"field", i>> : i \in {j \in DOMAIN doc.schema : doc.schema[j].name = None}} \subseteq in.warnings
    BY ImportSays
  <1> HIDE DEF in, out, names
  <1>2. ASSUME NEW i \in DOMAIN doc.quality, <<"quality", i>> \notin in.warnings
        PROVE  \E k \in DOMAIN out :
                 out[k].name = doc.quality[i].field
                 /\ (IF doc.quality[i].type = "required" THEN out[k].required ELSE out[k].unique)
    <2> DEFINE rule == doc.quality[i]
    <2>1. Supported(rule, names)
      BY <1>1, <1>2 DEF _import_quality
    <2>2. rule.field \in names /\ rule.type \in {"required", "unique"}
      BY <2>1 DEF Supported
    <2>3. rule.field \in Rules(doc.quality, rule.type, names)
      BY <2>1 DEF Rules
    <2>4. PICK k \in DOMAIN out : /\ out[k].name = rule.field
                                  /\ out[k].required = (rule.field \in Rules(doc.quality, "required", names))
                                  /\ out[k].unique = (rule.field \in Rules(doc.quality, "unique", names))
      BY <2>2, FieldArrives DEF names, out
    <2>5. CASE rule.type = "required"
      BY <2>3, <2>4, <2>5
    <2>6. CASE rule.type = "unique"
      BY <2>3, <2>4, <2>6
    <2>7. QED
      BY <2>2, <2>5, <2>6
  <1>3. ASSUME NEW i \in DOMAIN doc.slaProperties, <<"sla", i>> \notin in.warnings
        PROVE  \E j \in i..Len(doc.slaProperties) :
                 SlaKey(doc.slaProperties[i].property) = SlaKey(doc.slaProperties[j].property)
                 /\ in.schema.sla[SlaKey(doc.slaProperties[j].property)] = doc.slaProperties[j].value
    <2>1. SlaKey(doc.slaProperties[i].property) # None /\ doc.slaProperties[i].value # None
      BY <1>1, <1>3 DEF Unplaced, Given
    <2>2. Len(doc.slaProperties) \in Nat /\ DOMAIN doc.slaProperties = 1..Len(doc.slaProperties)
      BY DEF DocumentDomain
    <2>3. Arrives(doc.slaProperties, i)
      BY <2>1, <2>2, SlaArrives
    <2>4. QED
      BY <1>1, <2>3 DEF Arrives
  <1>4. ASSUME NEW i \in DOMAIN doc.schema, <<"field", i>> \notin in.warnings
        PROVE  \E k \in DOMAIN out : out[k].name = doc.schema[i].name
    <2>1. doc.schema[i].name # None
      BY <1>1, <1>4
    <2>2. doc.schema[i].name \in NamesOf(doc)
      BY <2>1 DEF NamesOf
    <2>3. QED
      BY <2>2, FieldArrives DEF out
  <1>5. QED
    BY <1>1, <1>2, <1>3, <1>4

------------------------------------------------------------------------------
(* Contracts: the journey through ODCS, for any contract.                   *)

\* Names that are given, and given once.
DistinctNames(q) ==
    /\ Len(q) \in Nat /\ DOMAIN q = 1..Len(q)
    /\ \A i \in DOMAIN q : q[i].name # None
    /\ \A i, j \in DOMAIN q : q[i].name = q[j].name => i = j

\* The places of a full list are in order as they are.
LEMMA AllInOrder ==
    ASSUME NEW n \in Nat
    PROVE  /\ DOMAIN InOrder(1..n) = 1..n
           /\ \A i \in 1..n : InOrder(1..n)[i] = i
  <1>1. \A i \in 0..n : Cardinality(1..i) = i
    BY FS_Interval
  <1>2. \A i \in 1..n : {j \in 1..n : j <= i} = 1..i
    OBVIOUS
  <1>3. Cardinality(1..n) = n
    BY <1>1
  <1>4. DOMAIN InOrder(1..n) = 1..n
    BY <1>3 DEF InOrder
  <1>5. ASSUME NEW i \in 1..n
        PROVE  InOrder(1..n)[i] = i
    <2> DEFINE k == Cardinality({j \in 1..n : j <= i})
    <2>1. k = i
      <3>1. Cardinality(1..i) = i
        BY <1>1
      <3>2. {j \in 1..n : j <= i} = 1..i
        BY <1>2
      <3>3. QED
        BY <3>1, <3>2
    <2>2. k \in DOMAIN InOrder(1..n) /\ InOrder(1..n)[k] = i
      BY PlaceInOrder
    <2> HIDE DEF k
    <2>3. QED
      BY <2>1, <2>2
  <1>6. QED
    BY <1>4, <1>5

\* The last entry of a name that is given once is the one at its place.
LEMMA LastIsTheOnly ==
    ASSUME NEW q, DistinctNames(q), NEW i \in DOMAIN q
    PROVE  Max({j \in DOMAIN q : q[j].name = q[i].name}) = i
  <1>1. {j \in DOMAIN q : q[j].name = q[i].name} = {i}
    BY DEF DistinctNames
  <1>2. {i} \subseteq 1..Len(q) /\ Len(q) \in Nat
    BY DEF DistinctNames
  <1>3. Max({i}) \in {i}
    BY <1>2, LastPlace
  <1>4. QED
    BY <1>1, <1>3

\* The fields of an import are those of the document, at their places.
LEMMA FieldsComeBack ==
    ASSUME NEW q, DistinctNames(q), NEW quality, NEW names
    PROVE  LET out == _import_properties(q, quality, names)
           IN  /\ Len(out) = Len(q) /\ DOMAIN out = DOMAIN q
               /\ \A i \in DOMAIN q :
                    out[i] = [name |-> q[i].name, type |-> q[i].logicalType, description |-> q[i].description,
                              classification |-> q[i].classification, entity |-> None,
                              required |-> q[i].name \in Rules(quality, "required", names),
                              unique |-> q[i].name \in Rules(quality, "unique", names)]
  <1> DEFINE kept == InOrder(FirstPositions(q))
             out == _import_properties(q, quality, names)
  <1>1. FirstPositions(q) = 1..Len(q)
    <2>1. \A i \in DOMAIN q : \A j \in 1..(i - 1) : j \in DOMAIN q /\ j # i
      BY DEF DistinctNames
    <2>2. \A i \in DOMAIN q : q[i].name # None /\ \A j \in 1..(i - 1) : q[j].name # q[i].name
      BY <2>1 DEF DistinctNames
    <2>3. QED
      BY <2>2 DEF FirstPositions, Given, DistinctNames
  <1>2. Len(q) \in Nat /\ DOMAIN q = 1..Len(q)
    BY DEF DistinctNames
  <1>3. DOMAIN kept = 1..Len(q) /\ \A i \in 1..Len(q) : kept[i] = i
    BY <1>1, <1>2, AllInOrder
  <1>4. \A i \in DOMAIN q : LastOf(q, q[i].name) = q[i]
    BY LastIsTheOnly DEF LastOf
  <1> DEFINE entry(n) == [name |-> n, type |-> LastOf(q, n).logicalType, description |-> LastOf(q, n).description,
                          classification |-> LastOf(q, n).classification, entity |-> None,
                          required |-> n \in Rules(quality, "required", names),
                          unique |-> n \in Rules(quality, "unique", names)]
  <1>5. out = [k \in DOMAIN kept |-> entry(q[kept[k]].name)]
    BY DEF _import_properties
  <1>6. ASSUME NEW i \in DOMAIN q
        PROVE  out[i] = [name |-> q[i].name, type |-> q[i].logicalType, description |-> q[i].description,
                         classification |-> q[i].classification, entity |-> None,
                         required |-> q[i].name \in Rules(quality, "required", names),
                         unique |-> q[i].name \in Rules(quality, "unique", names)]
    <2>1. i \in DOMAIN kept /\ kept[i] = i
      BY <1>2, <1>3
    <2>2. LastOf(q, q[i].name) = q[i]
      BY <1>4
    <2>3. entry(q[i].name) = [name |-> q[i].name, type |-> q[i].logicalType, description |-> q[i].description,
                         classification |-> q[i].classification, entity |-> None,
                         required |-> q[i].name \in Rules(quality, "required", names),
                         unique |-> q[i].name \in Rules(quality, "unique", names)]
      BY <2>2
    <2> HIDE DEF kept, out, entry
    <2>4. QED
      BY <1>5, <2>1, <2>3
  <1>7. Len(out) = Len(q)
    <2> HIDE DEF kept, entry
    <2>1. out = [k \in 1..Len(q) |-> entry(q[kept[k]].name)]
      BY <1>3, <1>5
    <2> HIDE DEF out
    <2>2. QED
      BY <1>2, <2>1
  <1>8. DOMAIN out = DOMAIN q
    <2> HIDE DEF kept, entry
    <2>1. DOMAIN out = DOMAIN kept
      BY <1>5
    <2>2. QED
      BY <1>2, <1>3, <2>1
  <1> HIDE DEF out
  <1>9. QED
    BY <1>6, <1>7, <1>8 DEF out

\* Two entries one after the other.
LEMMA TwoEntries ==
    ASSUME NEW a, NEW b
    PROVE  <<a>> \o <<b>> = <<a, b>>
  <1> DEFINE both == <<a>> \o <<b>>
  <1>1. <<a>> \in Seq({a, b}) /\ <<b>> \in Seq({a, b}) /\ <<a, b>> \in Seq({a, b})
    OBVIOUS
  <1>2. both \in Seq({a, b}) /\ Len(both) = 2
    BY <1>1
  <1>3. both[1] = a /\ both[2] = b
    BY <1>1
  <1> HIDE DEF both
  <1>4. both = <<a, b>>
    BY <1>1, <1>2, <1>3
  <1>5. QED
    BY <1>4 DEF both

\* A pair of optional values comes back from its entries.
LEMMA SlaComesBack ==
    ASSUME NEW x, NEW y
    PROVE  LET entries == Optional("refreshFrequency", x) \o Optional("latency", y)
           IN  _import_sla(entries) = [refresh_frequency |-> x, max_latency |-> y]
  <1> DEFINE entries == Optional("refreshFrequency", x) \o Optional("latency", y)
             at(key) == {i \in DOMAIN entries : SlaKey(entries[i].property) = key /\ entries[i].value # None}
  <1>1. SlaKey("refreshFrequency") = "refresh_frequency" /\ SlaKey("latency") = "max_latency"
    BY DEF SlaKey
  <1>2. /\ LastValue(entries, SlaKey, "refresh_frequency") = x
        /\ LastValue(entries, SlaKey, "max_latency") = y
    <2>1. Max({1}) = 1 /\ Max({2}) = 2
      <3>1. Max({1}) \in {1} /\ Max({2}) \in {2}
        BY LastPlace
      <3>2. QED
        BY <3>1
    <2>2. CASE x = None /\ y = None
      <3>1. entries = <<>>
        BY <2>2 DEF Optional, Given
      <3>2. QED
        BY <2>2, <3>1 DEF LastValue
    <2>3. CASE x # None /\ y = None
      <3>1. entries = <<[property |-> "refreshFrequency", value |-> x]>>
        BY <2>3 DEF Optional, Given
      <3> HIDE DEF entries
      <3>2. at("refresh_frequency") = {1} /\ at("max_latency") = {} /\ entries[1].value = x
        BY <1>1, <2>3, <3>1
      <3>3. QED
        BY <2>1, <2>3, <3>2 DEF LastValue, Given
    <2>4. CASE x = None /\ y # None
      <3>1. entries = <<[property |-> "latency", value |-> y]>>
        BY <2>4 DEF Optional, Given
      <3> HIDE DEF entries
      <3>2. at("refresh_frequency") = {} /\ at("max_latency") = {1} /\ entries[1].value = y
        BY <1>1, <2>4, <3>1
      <3>3. QED
        BY <2>1, <2>4, <3>2 DEF LastValue, Given
    <2>5. CASE x # None /\ y # None
      <3>1. entries = <<[property |-> "refreshFrequency", value |-> x], [property |-> "latency", value |-> y]>>
        <4>1. Optional("refreshFrequency", x) = <<[property |-> "refreshFrequency", value |-> x]>>
          BY <2>5 DEF Optional, Given
        <4>2. Optional("latency", y) = <<[property |-> "latency", value |-> y]>>
          BY <2>5 DEF Optional, Given
        <4>3. entries = <<[property |-> "refreshFrequency", value |-> x]>> \o <<[property |-> "latency", value |-> y]>>
          BY <4>1, <4>2
        <4>4. QED
          BY <4>3, TwoEntries
      <3> HIDE DEF entries
      <3>2. DOMAIN entries = {1, 2} /\ entries[1] = [property |-> "refreshFrequency", value |-> x]
            /\ entries[2] = [property |-> "latency", value |-> y]
        BY <3>1
      <3>3. at("refresh_frequency") = {1} /\ at("max_latency") = {2} /\ entries[1].value = x /\ entries[2].value = y
        BY <1>1, <2>5, <3>2
      <3>4. QED
        BY <2>1, <2>5, <3>3 DEF LastValue, Given
    <2>6. QED
      BY <2>2, <2>3, <2>4, <2>5
  <1> DEFINE rf == LastValue(entries, SlaKey, "refresh_frequency")
             ml == LastValue(entries, SlaKey, "max_latency")
  <1>3. _import_sla(entries) = [refresh_frequency |-> rf, max_latency |-> ml]
    BY DEF _import_sla
  <1>4. rf = x /\ ml = y
    BY <1>2
  <1> HIDE DEF rf, ml, entries
  <1>5. QED
    BY <1>3, <1>4 DEF entries

\* So does a security pair.
LEMMA SecurityComesBack ==
    ASSUME NEW x, NEW y
    PROVE  LET entries == Optional("level", x) \o Optional("accessPolicy", y)
           IN  _import_security(entries) = [level |-> x, access_policy |-> y]
  <1> DEFINE entries == Optional("level", x) \o Optional("accessPolicy", y)
             at(key) == {i \in DOMAIN entries : _security_target_key(entries[i].property) = key /\ entries[i].value # None}
  <1>1. _security_target_key("level") = "level" /\ _security_target_key("accessPolicy") = "access_policy"
    BY DEF _security_target_key
  <1>2. /\ LastValue(entries, _security_target_key, "level") = x
        /\ LastValue(entries, _security_target_key, "access_policy") = y
    <2>1. Max({1}) = 1 /\ Max({2}) = 2
      <3>1. Max({1}) \in {1} /\ Max({2}) \in {2}
        BY LastPlace
      <3>2. QED
        BY <3>1
    <2>2. CASE x = None /\ y = None
      <3>1. entries = <<>>
        BY <2>2 DEF Optional, Given
      <3>2. QED
        BY <2>2, <3>1 DEF LastValue
    <2>3. CASE x # None /\ y = None
      <3>1. entries = <<[property |-> "level", value |-> x]>>
        BY <2>3 DEF Optional, Given
      <3> HIDE DEF entries
      <3>2. at("level") = {1} /\ at("access_policy") = {} /\ entries[1].value = x
        BY <1>1, <2>3, <3>1
      <3>3. QED
        BY <2>1, <2>3, <3>2 DEF LastValue, Given
    <2>4. CASE x = None /\ y # None
      <3>1. entries = <<[property |-> "accessPolicy", value |-> y]>>
        BY <2>4 DEF Optional, Given
      <3> HIDE DEF entries
      <3>2. at("level") = {} /\ at("access_policy") = {1} /\ entries[1].value = y
        BY <1>1, <2>4, <3>1
      <3>3. QED
        BY <2>1, <2>4, <3>2 DEF LastValue, Given
    <2>5. CASE x # None /\ y # None
      <3>1. entries = <<[property |-> "level", value |-> x], [property |-> "accessPolicy", value |-> y]>>
        <4>1. Optional("level", x) = <<[property |-> "level", value |-> x]>>
          BY <2>5 DEF Optional, Given
        <4>2. Optional("accessPolicy", y) = <<[property |-> "accessPolicy", value |-> y]>>
          BY <2>5 DEF Optional, Given
        <4>3. entries = <<[property |-> "level", value |-> x]>> \o <<[property |-> "accessPolicy", value |-> y]>>
          BY <4>1, <4>2
        <4>4. QED
          BY <4>3, TwoEntries
      <3> HIDE DEF entries
      <3>2. DOMAIN entries = {1, 2} /\ entries[1] = [property |-> "level", value |-> x]
            /\ entries[2] = [property |-> "accessPolicy", value |-> y]
        BY <3>1
      <3>3. at("level") = {1} /\ at("access_policy") = {2} /\ entries[1].value = x /\ entries[2].value = y
        BY <1>1, <2>5, <3>2
      <3>4. QED
        BY <2>1, <2>5, <3>3 DEF LastValue, Given
    <2>6. QED
      BY <2>2, <2>3, <2>4, <2>5
  <1> DEFINE lv == LastValue(entries, _security_target_key, "level")
             po == LastValue(entries, _security_target_key, "access_policy")
  <1>3. _import_security(entries) = [level |-> lv, access_policy |-> po]
    BY DEF _import_security
  <1>4. lv = x /\ po = y
    BY <1>2
  <1> HIDE DEF lv, po, entries
  <1>5. QED
    BY <1>3, <1>4 DEF entries

\* The fields that are required, those that are unique, and the key of a grain.
RequiredOf(s) == {s.output[i].name : i \in {j \in DOMAIN s.output : s.output[j].required}}
UniqueOf(s) == {s.output[i].name : i \in {j \in DOMAIN s.output : s.output[j].unique}}
KeyOf(grain) == IF Len(grain) = 1 THEN {grain[1]} ELSE {}

\* The rules that require some names and make others unique.
RulesFor(required, unique) == {Rule("required", n) : n \in required} \union {Rule("unique", n) : n \in unique}

\* Rules are told apart by their type and their field.
LEMMA RulesDiffer ==
    \A t, u, n, m : Rule(t, n) = Rule(u, m) => t = u /\ n = m
  <1> SUFFICES ASSUME NEW t, NEW u, NEW n, NEW m, Rule(t, n) = Rule(u, m)
               PROVE  t = u /\ n = m
    OBVIOUS
  <1>1. Rule(t, n).type = t /\ Rule(t, n).field = n /\ Rule(u, m).type = u /\ Rule(u, m).field = m
    BY DEF Rule
  <1>2. QED
    BY <1>1

\* The fields' rules: each is listed once.
LEMMA FieldRulesAre ==
    ASSUME NEW s, DistinctNames(s.output)
    PROVE  /\ IsInjective(FieldRules(s))
           /\ Range(FieldRules(s)) = RulesFor(RequiredOf(s), UniqueOf(s))
           /\ <<"grain", 1>> \notin DOMAIN FieldRules(s)
  <1> DEFINE R == FieldRules(s)
             req == {j \in DOMAIN s.output : s.output[j].required}
             uni == {j \in DOMAIN s.output : s.output[j].unique}
             places == {<<"required", i>> : i \in req} \union {<<"unique", i>> : i \in uni}
  <1>1. R = [r \in places |-> Rule(r[1], s.output[r[2]].name)]
    BY DEF FieldRules
  <1>2. /\ \A i \in req : <<"required", i>> \in DOMAIN R /\ R[<<"required", i>>] = Rule("required", s.output[i].name)
        /\ \A i \in uni : <<"unique", i>> \in DOMAIN R /\ R[<<"unique", i>>] = Rule("unique", s.output[i].name)
    <2> HIDE DEF req, uni, R
    <2>1. QED
      BY <1>1
  <1>3. \A r \in DOMAIN R : (\E i \in req : r = <<"required", i>>) \/ (\E i \in uni : r = <<"unique", i>>)
    <2> HIDE DEF req, uni, R
    <2>1. QED
      BY <1>1
  <1>4. req \subseteq DOMAIN s.output /\ uni \subseteq DOMAIN s.output
    OBVIOUS
  <1>5. \A i, j \in DOMAIN s.output : s.output[i].name = s.output[j].name => i = j
    BY DEF DistinctNames
  <1>6. RequiredOf(s) = {s.output[i].name : i \in req} /\ UniqueOf(s) = {s.output[i].name : i \in uni}
    BY DEF RequiredOf, UniqueOf
  <1> HIDE DEF R, req, uni, places
  <1>7. ASSUME NEW a \in DOMAIN R, NEW b \in DOMAIN R, R[a] = R[b]
        PROVE  a = b
    <2>1. CASE \E i \in req, j \in req : a = <<"required", i>> /\ b = <<"required", j>>
      BY <1>2, <1>4, <1>5, <1>7, <2>1, RulesDiffer
    <2>2. CASE \E i \in uni, j \in uni : a = <<"unique", i>> /\ b = <<"unique", j>>
      BY <1>2, <1>4, <1>5, <1>7, <2>2, RulesDiffer
    <2>3. CASE \E i \in req, j \in uni : a = <<"required", i>> /\ b = <<"unique", j>>
      BY <1>2, <1>7, <2>3, RulesDiffer
    <2>4. CASE \E i \in uni, j \in req : a = <<"unique", i>> /\ b = <<"required", j>>
      BY <1>2, <1>7, <2>4, RulesDiffer
    <2>5. QED
      BY <1>3, <2>1, <2>2, <2>3, <2>4
  <1>8. Range(R) = RulesFor(RequiredOf(s), UniqueOf(s))
    <2>1. ASSUME NEW x \in Range(R)
          PROVE  x \in RulesFor(RequiredOf(s), UniqueOf(s))
      <3>1. PICK r \in DOMAIN R : x = R[r]
        BY <2>1 DEF Range
      <3>2. QED
        BY <1>2, <1>3, <1>6, <3>1 DEF RulesFor
    <2>2. ASSUME NEW n \in RequiredOf(s)
          PROVE  Rule("required", n) \in Range(R)
      <3>1. PICK i \in req : n = s.output[i].name
        BY <1>6, <2>2
      <3>2. QED
        BY <1>2, <3>1 DEF Range
    <2>3. ASSUME NEW n \in UniqueOf(s)
          PROVE  Rule("unique", n) \in Range(R)
      <3>1. PICK i \in uni : n = s.output[i].name
        BY <1>6, <2>3
      <3>2. QED
        BY <1>2, <3>1 DEF Range
    <2>4. QED
      BY <2>1, <2>2, <2>3 DEF RulesFor
  <1>9. <<"grain", 1>> \notin DOMAIN R
    BY <1>3
  <1>10. QED
    BY <1>7, <1>8, <1>9 DEF R, IsInjective

\* So are the rules that a document lists; a grain of one field adds its own.
LEMMA ListedRulesAre ==
    ASSUME NEW s, DistinctNames(s.output), NEW grain
    PROVE  LET rules == WithGrainRule(FieldRules(s), grain)
           IN  IsInjective(rules) /\ Range(rules) = RulesFor(RequiredOf(s), UniqueOf(s) \union KeyOf(grain))
  <1> DEFINE R == FieldRules(s)
             own == Rule("unique", grain[1])
             rules == WithGrainRule(R, grain)
  <1>1. IsInjective(R) /\ Range(R) = RulesFor(RequiredOf(s), UniqueOf(s)) /\ <<"grain", 1>> \notin DOMAIN R
    BY FieldRulesAre
  <1>2. rules = IF Len(grain) # 1 \/ own \in Range(R) THEN R
                ELSE [r \in DOMAIN R \union {<<"grain", 1>>} |-> IF r \in DOMAIN R THEN R[r] ELSE own]
    BY DEF WithGrainRule
  <1> HIDE DEF R, rules
  <1>3. CASE Len(grain) # 1
    <2>1. rules = R /\ KeyOf(grain) = {}
      BY <1>2, <1>3 DEF KeyOf
    <2>2. QED
      BY <1>1, <2>1 DEF rules, R
  <1>4. CASE Len(grain) = 1 /\ own \in Range(R)
    <2>1. rules = R /\ KeyOf(grain) = {grain[1]}
      BY <1>2, <1>4 DEF KeyOf
    <2>2. grain[1] \in UniqueOf(s)
      BY <1>1, <1>4, RulesDiffer DEF RulesFor
    <2>3. UniqueOf(s) \union KeyOf(grain) = UniqueOf(s)
      BY <2>1, <2>2
    <2>4. QED
      BY <1>1, <2>1, <2>3 DEF rules, R
  <1>5. CASE Len(grain) = 1 /\ own \notin Range(R)
    <2>1. KeyOf(grain) = {grain[1]}
      BY <1>5 DEF KeyOf
    <2> HIDE DEF own
    <2>2. DOMAIN rules = DOMAIN R \union {<<"grain", 1>>}
      BY <1>2, <1>5
    <2>3. (\A r \in DOMAIN R : rules[r] = R[r]) /\ rules[<<"grain", 1>>] = own
      BY <1>1, <1>2, <1>5
    <2>4. \A r \in DOMAIN R : R[r] # own
      BY <1>5 DEF Range
    <2>5. IsInjective(rules)
      BY <1>1, <2>2, <2>3, <2>4 DEF IsInjective
    <2>6. Range(rules) = Range(R) \union {own}
      BY <2>2, <2>3 DEF Range
    <2>7. RulesFor(RequiredOf(s), UniqueOf(s) \union KeyOf(grain)) = RulesFor(RequiredOf(s), UniqueOf(s)) \union {own}
      BY <2>1 DEF RulesFor, own
    <2>8. QED
      BY <1>1, <2>5, <2>6, <2>7 DEF rules, R
  <1>6. QED
    BY <1>3, <1>4, <1>5

\* An import reads the obligations off the rules.
LEMMA ObligationsComeBack ==
    ASSUME NEW q, NEW names, NEW R \in SUBSET names, NEW W \in SUBSET names, Range(q) = RulesFor(R, W)
    PROVE  /\ Rules(q, "required", names) = R
           /\ Rules(q, "unique", names) = W
  <1>1. \A n, t : Rule(t, n).type = t /\ Rule(t, n).field = n
    BY DEF Rule
  <1>2. \A i \in DOMAIN q : \/ \E n \in R : q[i] = Rule("required", n)
                            \/ \E n \in W : q[i] = Rule("unique", n)
    BY DEF Range, RulesFor
  <1>3. /\ \A n \in R : \E i \in DOMAIN q : q[i] = Rule("required", n)
        /\ \A n \in W : \E i \in DOMAIN q : q[i] = Rule("unique", n)
    BY DEF Range, RulesFor
  <1>4. \A n \in names, t \in {"required", "unique"} : Supported(Rule(t, n), names)
    BY <1>1 DEF Supported
  <1>5. \A n : n \in Rules(q, "required", names) <=> n \in R
    <2>1. ASSUME NEW n, n \in Rules(q, "required", names)
          PROVE  n \in R
      <3>1. PICK i \in DOMAIN q : q[i].type = "required" /\ q[i].field = n
        BY <2>1 DEF Rules
      <3>2. QED
        BY <1>1, <1>2, <3>1
    <2>2. ASSUME NEW n, n \in R
          PROVE  n \in Rules(q, "required", names)
      <3>1. PICK i \in DOMAIN q : q[i] = Rule("required", n)
        BY <1>3, <2>2
      <3>2. q[i].type = "required" /\ q[i].field = n /\ Supported(q[i], names)
        BY <1>1, <1>4, <2>2, <3>1
      <3>3. QED
        BY <3>2 DEF Rules
    <2>3. QED
      BY <2>1, <2>2
  <1>6. \A n : n \in Rules(q, "unique", names) <=> n \in W
    <2>1. ASSUME NEW n, n \in Rules(q, "unique", names)
          PROVE  n \in W
      <3>1. PICK i \in DOMAIN q : q[i].type = "unique" /\ q[i].field = n
        BY <2>1 DEF Rules
      <3>2. QED
        BY <1>1, <1>2, <3>1
    <2>2. ASSUME NEW n, n \in W
          PROVE  n \in Rules(q, "unique", names)
      <3>1. PICK i \in DOMAIN q : q[i] = Rule("unique", n)
        BY <1>3, <2>2
      <3>2. q[i].type = "unique" /\ q[i].field = n /\ Supported(q[i], names)
        BY <1>1, <1>4, <2>2, <3>1
      <3>3. QED
        BY <3>2 DEF Rules
    <2>3. QED
      BY <2>1, <2>2
  <1>7. QED
    BY <1>5, <1>6

\* A team comes back as it left.
LEMMA TeamComesBack ==
    ASSUME NEW owner
    PROVE  Team(_import_team(Team(owner))) = Team(owner)
  <1> DEFINE named(n, r) == <<[name |-> n, role |-> r]>>
             back(t) == Team(_import_team(t))
  <1>1. back(<<>>) = <<>>
    <2>1. _import_team(<<>>) = Absent
      BY DEF _import_team, Given
    <2>2. QED
      BY <2>1 DEF Team
  <1>2. ASSUME NEW n, n # None
        PROVE  back(named(n, None)) = named(n, None)
    <2>1. _import_team(named(n, None)) = [text |-> n]
      BY <1>2 DEF _import_team, Given
    <2>2. [text |-> n] # Absent
      BY DEF Absent
    <2>3. QED
      BY <1>2, <2>1, <2>2 DEF Team
  <1>3. ASSUME NEW n, n # None
        PROVE  back(named(n, "steward")) = named(n, "steward")
    <2> DEFINE w == Member(named(n, "steward"), "steward")
               t == Member(named(n, "steward"), "team")
               c == Member(named(n, "steward"), "contact")
    <2>1. "steward" # None
      BY DEF None
    <2>2. w = n /\ t = None
      <3>1. DOMAIN named(n, "steward") = {1} /\ named(n, "steward")[1].name = n /\ named(n, "steward")[1].role = "steward"
        OBVIOUS
      <3>2. Given(n) /\ RoleKey("steward") = "steward"
        BY <1>3 DEF Given, RoleKey
      <3> HIDE DEF named
      <3> DEFINE kept == {i \in DOMAIN named(n, "steward") : Given(named(n, "steward")[i].name)
                                                          /\ RoleKey(named(n, "steward")[i].role) = "steward"}
                 rest == {i \in DOMAIN named(n, "steward") : Given(named(n, "steward")[i].name)
                                                          /\ RoleKey(named(n, "steward")[i].role) = "team"}
      <3>3. w = IF kept = {} THEN None ELSE named(n, "steward")[Min(kept)].name
        BY DEF Member
      <3>4. t = IF rest = {} THEN None ELSE named(n, "steward")[Min(rest)].name
        BY DEF Member
      <3>5. kept = {1} /\ rest = {}
        BY <3>1, <3>2
      <3> HIDE DEF w, t, kept, rest
      <3>6. Min(kept) = 1
        BY <3>5 DEF Min
      <3>7. w = n
        BY <3>1, <3>3, <3>5, <3>6
      <3>8. QED
        BY <3>4, <3>5, <3>7
    <2> HIDE DEF w, t, c
    <2>3. _import_team(named(n, "steward")) = [text |-> None, team |-> t, steward |-> w, contact |-> c]
      BY <1>3, <2>1 DEF _import_team, Given, w, t, c
    <2>4. [text |-> None, team |-> t, steward |-> w, contact |-> c] # Absent
      BY DEF Absent
    <2>5. QED
      BY <1>3, <2>2, <2>3, <2>4 DEF Team, Given
  <1>4. \/ Team(owner) = <<>>
        \/ \E n : n # None /\ (Team(owner) = named(n, None) \/ Team(owner) = named(n, "steward"))
    BY DEF Team, Given
  <1> HIDE DEF named
  <1>5. QED
    BY <1>1, <1>2, <1>3, <1>4

\* A contract that the loader accepts: its output is a mapping with a name for
\* each field, and its grain lists some of those names.
TravellerDomain(s) ==
    /\ DistinctNames(s.output) /\ Len(s.output) # 0
    /\ \A i \in DOMAIN s.output : s.output[i].required \in BOOLEAN /\ s.output[i].unique \in BOOLEAN
    /\ s.product.id # None /\ s.product.version # None
    /\ s.grain \in Seq(Names(s))

\* A key of one field is the grain it came from.
LEMMA GrainComesBack ==
    ASSUME NEW S, NEW grain \in Seq(S), Len(grain) = 1, NEW W, grain[1] \in W, IsFiniteSet(W), Cardinality(W) = 1
    PROVE  SetToSeq(W) = grain
  <1>1. W = {grain[1]}
    <2>1. PICK x : W = {x}
      BY FS_Singleton
    <2>2. QED
      BY <2>1
  <1>2. grain = [i \in 1..1 |-> grain[1]]
    OBVIOUS
  <1>3. \A f \in [1..1 -> W] : f = grain
    BY <1>1, <1>2
  <1>4. grain \in [1..1 -> W] /\ IsInjective(grain)
    BY <1>1, <1>2 DEF IsInjective
  <1>5. SetToSeq(W) = CHOOSE f \in [1..1 -> W] : IsInjective(f)
    BY DEF SetToSeq
  <1> DEFINE f == CHOOSE f \in [1..1 -> W] : IsInjective(f)
  <1>6. f \in [1..1 -> W]
    BY <1>4
  <1>7. QED
    BY <1>3, <1>5, <1>6

\* What the parts of an exported document are.
LEMMA ExportSays ==
    ASSUME NEW s
    PROVE  LET out == export_odcs_31(s)
               doc == out.document
           IN  /\ doc = [id |-> s.product.id, version |-> s.product.version, description |-> s.product.description,
                         status |-> doc.status, schema |-> doc.schema, quality |-> doc.quality, security |-> doc.security,
                         slaProperties |-> doc.slaProperties, team |-> doc.team, customProperties |-> doc.customProperties]
               /\ doc.id = s.product.id /\ doc.version = s.product.version /\ doc.description = s.product.description
               /\ doc.status = IF Given(s.status) THEN s.status ELSE "draft"
               /\ doc.schema = [i \in DOMAIN s.output |-> Exported(s.output[i])]
               /\ doc.quality = WithGrainRule(FieldRules(s), s.grain)
               /\ doc.security = Optional("level", _security_tuple(s)[1]) \o Optional("accessPolicy", _security_tuple(s)[2])
               /\ doc.slaProperties = Optional("refreshFrequency", _sla_tuple(s)[1]) \o Optional("latency", _sla_tuple(s)[2])
               /\ doc.team = Team(s.product.owner)
               /\ doc.customProperties = Optional("skifer.domain", s.product.domain)
               /\ out.warnings = {<<"entity", n>> : n \in {m \in Names(s) : Given(Field(s, m).entity)}}
                                   \union (IF Len(s.grain) = 1 THEN {} ELSE {<<"grain">>})
                                   \union (IF s.semantic = Absent THEN {} ELSE {<<"semantic">>})
  <1> DEFINE status == IF Given(s.status) THEN s.status ELSE "draft"
             schema == [i \in DOMAIN s.output |-> Exported(s.output[i])]
             quality == WithGrainRule(FieldRules(s), s.grain)
             security == Optional("level", _security_tuple(s)[1]) \o Optional("accessPolicy", _security_tuple(s)[2])
             sla == Optional("refreshFrequency", _sla_tuple(s)[1]) \o Optional("latency", _sla_tuple(s)[2])
             team == Team(s.product.owner)
             custom == Optional("skifer.domain", s.product.domain)
             warnings == {<<"entity", n>> : n \in {m \in Names(s) : Given(Field(s, m).entity)}}
                           \union (IF Len(s.grain) = 1 THEN {} ELSE {<<"grain">>})
                           \union (IF s.semantic = Absent THEN {} ELSE {<<"semantic">>})
  <1>1. export_odcs_31(s) =
          [document |-> [id |-> s.product.id, version |-> s.product.version, description |-> s.product.description,
                         status |-> status, schema |-> schema, quality |-> quality, security |-> security,
                         slaProperties |-> sla, team |-> team, customProperties |-> custom],
           warnings |-> warnings]
    BY DEF export_odcs_31
  <1> HIDE DEF status, schema, quality, security, sla, team, custom, warnings
  <1>2. LET out == export_odcs_31(s)
            doc == out.document
        IN  /\ doc = [id |-> s.product.id, version |-> s.product.version, description |-> s.product.description,
                      status |-> status, schema |-> schema, quality |-> quality, security |-> security,
                      slaProperties |-> sla, team |-> team, customProperties |-> custom]
            /\ doc.id = s.product.id /\ doc.version = s.product.version /\ doc.description = s.product.description
            /\ doc.status = status /\ doc.schema = schema /\ doc.quality = quality /\ doc.security = security
            /\ doc.slaProperties = sla /\ doc.team = team /\ doc.customProperties = custom /\ out.warnings = warnings
    BY <1>1
  <1>3. QED
    BY <1>2 DEF status, schema, quality, security, sla, team, custom, warnings

\* The domain of a product comes back.
LEMMA DomainComesBack ==
    ASSUME NEW x
    PROVE  _import_custom_properties(Optional("skifer.domain", x)) = x
  <1> DEFINE entries == Optional("skifer.domain", x)
  <1>1. CASE x = None
    <2>1. entries = <<>>
      BY <1>1 DEF Optional, Given
    <2>2. QED
      BY <1>1, <2>1 DEF _import_custom_properties, LastValue
  <1>2. CASE x # None
    <2>1. entries = <<[property |-> "skifer.domain", value |-> x]>>
      BY <1>2 DEF Optional, Given
    <2>2. Max({1}) = 1
      <3>1. Max({1}) \in {1}
        BY LastPlace
      <3>2. QED
        BY <3>1
    <2>3. {i \in DOMAIN entries : (IF entries[i].property = "skifer.domain" THEN entries[i].property ELSE None) = "skifer.domain"
                                  /\ Given(entries[i].value)} = {1}
      BY <1>2, <2>1 DEF Given, None
    <2>4. QED
      BY <2>1, <2>2, <2>3 DEF _import_custom_properties, LastValue
  <1>3. QED
    BY <1>1, <1>2

\* What an import makes of a document that was exported.
LEMMA ImportOfExport ==
    ASSUME NEW s, TravellerDomain(s)
    PROVE  LET doc == export_odcs_31(s).document
               in == import_odcs_31(doc)
               W == UniqueOf(s) \union KeyOf(s.grain)
           IN  /\ in.accepted
               /\ Len(in.schema.output) = Len(s.output) /\ DOMAIN in.schema.output = DOMAIN s.output
               /\ \A i \in DOMAIN s.output :
                    in.schema.output[i] = [name |-> s.output[i].name, type |-> doc.schema[i].logicalType,
                                           description |-> s.output[i].description, classification |-> s.output[i].classification,
                                           entity |-> None, required |-> s.output[i].name \in RequiredOf(s),
                                           unique |-> s.output[i].name \in W]
               /\ in.schema.product = [id |-> doc.id, version |-> doc.version, description |-> doc.description,
                                       owner |-> _import_team(doc.team), domain |-> s.product.domain]
               /\ in.schema.grain = (IF Cardinality(W) = 1 THEN SetToSeq(W) ELSE <<>>)
               /\ (Cardinality(W) > 1 => <<"grain">> \in in.warnings)
               /\ _sla_tuple(in.schema) = _sla_tuple(s) /\ _security_tuple(in.schema) = _security_tuple(s)
               /\ in.schema.status = doc.status
  <1> DEFINE doc == export_odcs_31(s).document
             in == import_odcs_31(doc)
             W == UniqueOf(s) \union KeyOf(s.grain)
             names == Names(s)
             checks == _import_quality(doc.quality, names)
             out == _import_properties(doc.schema, doc.quality, names)
  <1>1. /\ doc.id = s.product.id /\ doc.version = s.product.version
        /\ doc.schema = [i \in DOMAIN s.output |-> Exported(s.output[i])]
        /\ doc.quality = WithGrainRule(FieldRules(s), s.grain)
        /\ doc.security = Optional("level", _security_tuple(s)[1]) \o Optional("accessPolicy", _security_tuple(s)[2])
        /\ doc.slaProperties = Optional("refreshFrequency", _sla_tuple(s)[1]) \o Optional("latency", _sla_tuple(s)[2])
        /\ doc.customProperties = Optional("skifer.domain", s.product.domain)
    BY ExportSays
  <1> HIDE DEF doc
  <1>2. /\ DistinctNames(s.output) /\ Len(s.output) \in Nat /\ Len(s.output) # 0 /\ DOMAIN s.output = 1..Len(s.output)
        /\ s.product.id # None /\ s.product.version # None /\ s.grain \in Seq(names)
    BY DEF TravellerDomain, DistinctNames
  <1>3. /\ DOMAIN doc.schema = DOMAIN s.output /\ Len(doc.schema) = Len(s.output)
        /\ \A i \in DOMAIN s.output : /\ doc.schema[i].name = s.output[i].name
                                      /\ doc.schema[i].description = s.output[i].description
                                      /\ doc.schema[i].classification = s.output[i].classification
    <2>1. doc.schema = [i \in 1..Len(s.output) |-> Exported(s.output[i])]
      BY <1>1, <1>2
    <2>2. \A f : Exported(f).name = f.name /\ Exported(f).description = f.description /\ Exported(f).classification = f.classification
      BY DEF Exported
    <2>3. QED
      BY <1>2, <2>1, <2>2
  <1>4. DistinctNames(doc.schema)
    BY <1>2, <1>3 DEF DistinctNames
  <1>5. NamesOf(doc) = names
    BY <1>2, <1>3 DEF NamesOf, Names, DistinctNames
  <1>6. names # {}
    <2>1. 1 \in DOMAIN s.output
      BY <1>2
    <2>2. QED
      BY <2>1 DEF Names
  <1>7. RequiredOf(s) \in SUBSET names /\ W \in SUBSET names
    <2>1. RequiredOf(s) \subseteq names /\ UniqueOf(s) \subseteq names
      BY DEF RequiredOf, UniqueOf, Names
    <2>2. KeyOf(s.grain) \subseteq names
      <3> HIDE DEF names
      <3>1. QED
        BY <1>2 DEF KeyOf
    <2>3. QED
      BY <2>1, <2>2
  <1>8. Rules(doc.quality, "required", names) = RequiredOf(s) /\ Rules(doc.quality, "unique", names) = W
    <2>1. Range(doc.quality) = RulesFor(RequiredOf(s), W)
      <3>1. Range(WithGrainRule(FieldRules(s), s.grain)) = RulesFor(RequiredOf(s), UniqueOf(s) \union KeyOf(s.grain))
        BY <1>2, ListedRulesAre
      <3>2. QED
        BY <1>1, <3>1
    <2> HIDE DEF names, W
    <2>2. QED
      BY <1>7, <2>1, ObligationsComeBack
  <1>9. /\ in.accepted
        /\ in.schema.product = [id |-> doc.id, version |-> doc.version, description |-> doc.description,
                                owner |-> _import_team(doc.team), domain |-> _import_custom_properties(doc.customProperties)]
        /\ in.schema.output = out /\ in.schema.grain = checks.grain /\ checks.warnings \subseteq in.warnings
        /\ in.schema.sla = _import_sla(doc.slaProperties) /\ in.schema.security = _import_security(doc.security)
        /\ in.schema.status = doc.status
    <2> HIDE DEF names, in, out, checks
    <2>1. NamesOf(doc) # {} /\ doc.id # None /\ doc.version # None
      BY <1>1, <1>2, <1>5, <1>6
    <2>2. in.accepted
      BY <2>1, ImportSays DEF in
    <2>3. QED
      BY <1>5, <2>2, ImportSays DEF in, out, checks
  <1>10. /\ checks.grain = (IF Cardinality(W) = 1 THEN SetToSeq(W) ELSE <<>>)
         /\ (Cardinality(W) > 1 => <<"grain">> \in checks.warnings)
    <2> HIDE DEF names, W
    <2>1. QED
      BY <1>8 DEF _import_quality
  <1>11. _import_custom_properties(doc.customProperties) = s.product.domain
    BY <1>1, DomainComesBack
  <1>12. /\ Len(out) = Len(doc.schema) /\ DOMAIN out = DOMAIN doc.schema
         /\ \A i \in DOMAIN doc.schema :
              out[i] = [name |-> doc.schema[i].name, type |-> doc.schema[i].logicalType, description |-> doc.schema[i].description,
                        classification |-> doc.schema[i].classification, entity |-> None,
                        required |-> doc.schema[i].name \in Rules(doc.quality, "required", names),
                        unique |-> doc.schema[i].name \in Rules(doc.quality, "unique", names)]
    BY <1>4, FieldsComeBack
  <1>13. _sla_tuple(in.schema) = _sla_tuple(s)
    <2> DEFINE x == _sla_tuple(s)[1]
               y == _sla_tuple(s)[2]
    <2>1. _sla_tuple(s) = <<x, y>>
      BY DEF _sla_tuple, Pair
    <2> HIDE DEF x, y, in
    <2>2. in.schema.sla = [refresh_frequency |-> x, max_latency |-> y]
      BY <1>1, <1>9, SlaComesBack DEF x, y
    <2>3. [refresh_frequency |-> x, max_latency |-> y] # Absent
      BY DEF Absent
    <2>4. _sla_tuple(in.schema) = <<x, y>>
      BY <2>2, <2>3 DEF _sla_tuple, Pair
    <2>5. QED
      BY <2>1, <2>4
  <1>14. _security_tuple(in.schema) = _security_tuple(s)
    <2> DEFINE x == _security_tuple(s)[1]
               y == _security_tuple(s)[2]
    <2>1. _security_tuple(s) = <<x, y>>
      BY DEF _security_tuple, Pair
    <2> HIDE DEF x, y, in
    <2>2. in.schema.security = [level |-> x, access_policy |-> y]
      BY <1>1, <1>9, SecurityComesBack DEF x, y
    <2>3. [level |-> x, access_policy |-> y] # Absent
      BY DEF Absent
    <2>4. _security_tuple(in.schema) = <<x, y>>
      BY <2>2, <2>3 DEF _security_tuple, Pair
    <2>5. QED
      BY <2>1, <2>4
  <1>15. \A i \in DOMAIN s.output :
           out[i] = [name |-> s.output[i].name, type |-> doc.schema[i].logicalType,
                     description |-> s.output[i].description, classification |-> s.output[i].classification,
                     entity |-> None, required |-> s.output[i].name \in RequiredOf(s),
                     unique |-> s.output[i].name \in W]
    <2> HIDE DEF out, names, W
    <2>1. QED
      BY <1>3, <1>8, <1>12
  <1>16. Len(out) = Len(s.output) /\ DOMAIN out = DOMAIN s.output
    BY <1>3, <1>12
  <1> HIDE DEF in, out, checks, W, names
  <1>17. QED
    BY <1>9, <1>10, <1>11, <1>13, <1>14, <1>15, <1>16 DEF doc, in, W

\* A field's obligations are what its name is listed for.
LEMMA ObligationsOfField ==
    ASSUME NEW s, TravellerDomain(s), NEW i \in DOMAIN s.output
    PROVE  /\ (s.output[i].name \in RequiredOf(s)) = s.output[i].required
           /\ (s.output[i].name \in UniqueOf(s)) = s.output[i].unique
           /\ (s.output[i].name \in KeyOf(s.grain)) = (s.grain = <<s.output[i].name>>)
           /\ Field(s, s.output[i].name) = s.output[i]
  <1>1. \A j \in DOMAIN s.output : s.output[j].name = s.output[i].name => j = i
    BY DEF TravellerDomain, DistinctNames
  <1>2. s.output[i].required \in BOOLEAN /\ s.output[i].unique \in BOOLEAN
    BY DEF TravellerDomain
  <1>3. (s.output[i].name \in RequiredOf(s)) <=> s.output[i].required
    BY <1>1, <1>2 DEF RequiredOf
  <1>4. (s.output[i].name \in UniqueOf(s)) <=> s.output[i].unique
    BY <1>1, <1>2 DEF UniqueOf
  <1>5. (s.output[i].name \in KeyOf(s.grain)) <=> (s.grain = <<s.output[i].name>>)
    <2>1. s.grain \in Seq(Names(s))
      BY DEF TravellerDomain
    <2>2. CASE Len(s.grain) = 1
      <3>1. s.grain = <<s.grain[1]>>
        BY <2>1, <2>2
      <3>2. KeyOf(s.grain) = {s.grain[1]}
        BY <2>2 DEF KeyOf
      <3>3. \A n : (s.grain = <<n>>) <=> (n = s.grain[1])
        BY <3>1
      <3>4. QED
        BY <3>2, <3>3
    <2>3. CASE Len(s.grain) # 1
      <3>1. KeyOf(s.grain) = {}
        BY <2>3 DEF KeyOf
      <3>2. \A n : s.grain # <<n>>
        BY <2>3
      <3>3. QED
        BY <3>1, <3>2
    <2>4. QED
      BY <2>2, <2>3
  <1>6. Field(s, s.output[i].name) = s.output[i]
    BY LastIsTheOnly DEF Field, TravellerDomain
  <1>7. QED
    BY <1>2, <1>3, <1>4, <1>5, <1>6

\* Two contracts that agree on everything but their rules give one document
\* up to its rules.
LEMMA SameDocument ==
    ASSUME NEW a, NEW b,
           a.product.id = b.product.id, a.product.version = b.product.version, a.product.description = b.product.description,
           Team(a.product.owner) = Team(b.product.owner), a.product.domain = b.product.domain,
           export_odcs_31(a).document.status = export_odcs_31(b).document.status,
           export_odcs_31(a).document.schema = export_odcs_31(b).document.schema,
           _sla_tuple(a) = _sla_tuple(b), _security_tuple(a) = _security_tuple(b)
    PROVE  [export_odcs_31(a).document EXCEPT !.quality = <<>>] = [export_odcs_31(b).document EXCEPT !.quality = <<>>]
  <1> DEFINE x == export_odcs_31(a).document
             y == export_odcs_31(b).document
  <1>1. x = [id |-> x.id, version |-> x.version, description |-> x.description, status |-> x.status, schema |-> x.schema,
             quality |-> x.quality, security |-> x.security, slaProperties |-> x.slaProperties, team |-> x.team,
             customProperties |-> x.customProperties]
    <2> HIDE DEF x
    <2>1. /\ x = [id |-> a.product.id, version |-> a.product.version, description |-> a.product.description,
                  status |-> x.status, schema |-> x.schema, quality |-> x.quality, security |-> x.security,
                  slaProperties |-> x.slaProperties, team |-> x.team, customProperties |-> x.customProperties]
          /\ x.id = a.product.id /\ x.version = a.product.version /\ x.description = a.product.description
      BY ExportSays DEF x
    <2>2. QED
      BY <2>1
  <1>2. y = [id |-> y.id, version |-> y.version, description |-> y.description, status |-> y.status, schema |-> y.schema,
             quality |-> y.quality, security |-> y.security, slaProperties |-> y.slaProperties, team |-> y.team,
             customProperties |-> y.customProperties]
    <2> HIDE DEF y
    <2>1. /\ y = [id |-> b.product.id, version |-> b.product.version, description |-> b.product.description,
                  status |-> y.status, schema |-> y.schema, quality |-> y.quality, security |-> y.security,
                  slaProperties |-> y.slaProperties, team |-> y.team, customProperties |-> y.customProperties]
          /\ y.id = b.product.id /\ y.version = b.product.version /\ y.description = b.product.description
      BY ExportSays DEF y
    <2>2. QED
      BY <2>1
  <1> DEFINE security(t) == Optional("level", t[1]) \o Optional("accessPolicy", t[2])
             terms(t) == Optional("refreshFrequency", t[1]) \o Optional("latency", t[2])
  <1>3. /\ x.id = y.id /\ x.version = y.version /\ x.description = y.description /\ x.status = y.status /\ x.schema = y.schema
        /\ x.security = y.security /\ x.slaProperties = y.slaProperties /\ x.team = y.team /\ x.customProperties = y.customProperties
    <2>1. x.id = y.id /\ x.version = y.version /\ x.description = y.description
      BY ExportSays
    <2>2. x.security = y.security /\ x.slaProperties = y.slaProperties
      <3>1. x.security = security(_security_tuple(a)) /\ x.slaProperties = terms(_sla_tuple(a))
        BY ExportSays
      <3>2. y.security = security(_security_tuple(b)) /\ y.slaProperties = terms(_sla_tuple(b))
        BY ExportSays
      <3> HIDE DEF x, y, security, terms
      <3>3. QED
        BY <3>1, <3>2
    <2>3. x.team = y.team /\ x.customProperties = y.customProperties
      <3>1. x.team = Team(a.product.owner) /\ x.customProperties = Optional("skifer.domain", a.product.domain)
        BY ExportSays
      <3>2. y.team = Team(b.product.owner) /\ y.customProperties = Optional("skifer.domain", b.product.domain)
        BY ExportSays
      <3> HIDE DEF x, y
      <3>3. QED
        BY <3>1, <3>2
    <2>4. QED
      BY <2>1, <2>2, <2>3
  <1> HIDE DEF x, y
  <1>4. [x EXCEPT !.quality = <<>>] = [y EXCEPT !.quality = <<>>]
    BY <1>1, <1>2, <1>3
  <1>5. QED
    BY <1>4 DEF x, y

\* A contract has finitely many names, and its rules and grain are about them.
LEMMA FiniteNames ==
    ASSUME NEW s, TravellerDomain(s)
    PROVE  /\ RequiredOf(s) \subseteq Names(s)
           /\ UniqueOf(s) \union KeyOf(s.grain) \subseteq Names(s)
           /\ IsFiniteSet(UniqueOf(s) \union KeyOf(s.grain))
  <1> DEFINE f == [i \in 1..Len(s.output) |-> s.output[i].name]
  <1>1. Len(s.output) \in Nat /\ DOMAIN s.output = 1..Len(s.output) /\ s.grain \in Seq(Names(s))
    BY DEF TravellerDomain, DistinctNames
  <1>2. RequiredOf(s) \subseteq Names(s) /\ UniqueOf(s) \subseteq Names(s)
    BY DEF RequiredOf, UniqueOf, Names
  <1>3. KeyOf(s.grain) \subseteq Names(s)
    BY <1>1 DEF KeyOf
  <1>4. IsFiniteSet(Names(s))
    <2>1. f \in Surjection(1..Len(s.output), Names(s))
      BY <1>1 DEF Surjection, Names
    <2>2. IsFiniteSet(1..Len(s.output))
      BY <1>1, FS_Interval
    <2> HIDE DEF f
    <2>3. QED
      BY <2>1, <2>2, FS_Surjection
  <1>5. QED
    BY <1>2, <1>3, <1>4, FS_Subset

\* A contract keeps its terms on the journey, and a second journey adds nothing.
LEMMA OdcsAlwaysRoundTrips ==
    ASSUME NEW s, TravellerDomain(s)
    PROVE  OdcsRoundTrip(s)
  <1> DEFINE out == export_odcs_31(s)
             doc == out.document
             in == import_odcs_31(doc)
             again == export_odcs_31(in.schema).document
             W == UniqueOf(s) \union KeyOf(s.grain)
  <1>1. /\ in.accepted
        /\ Len(in.schema.output) = Len(s.output) /\ DOMAIN in.schema.output = DOMAIN s.output
        /\ \A i \in DOMAIN s.output :
             in.schema.output[i] = [name |-> s.output[i].name, type |-> doc.schema[i].logicalType,
                                    description |-> s.output[i].description, classification |-> s.output[i].classification,
                                    entity |-> None, required |-> s.output[i].name \in RequiredOf(s),
                                    unique |-> s.output[i].name \in W]
        /\ in.schema.product = [id |-> doc.id, version |-> doc.version, description |-> doc.description,
                                owner |-> _import_team(doc.team), domain |-> s.product.domain]
        /\ in.schema.grain = (IF Cardinality(W) = 1 THEN SetToSeq(W) ELSE <<>>)
        /\ (Cardinality(W) > 1 => <<"grain">> \in in.warnings)
        /\ _sla_tuple(in.schema) = _sla_tuple(s) /\ _security_tuple(in.schema) = _security_tuple(s)
        /\ in.schema.status = doc.status
    BY ImportOfExport
  <1>2. /\ doc.id = s.product.id /\ doc.version = s.product.version /\ doc.description = s.product.description
        /\ doc.status = (IF Given(s.status) THEN s.status ELSE "draft")
        /\ doc.schema = [i \in DOMAIN s.output |-> Exported(s.output[i])]
        /\ doc.quality = WithGrainRule(FieldRules(s), s.grain)
        /\ doc.team = Team(s.product.owner)
        /\ {<<"entity", n>> : n \in {m \in Names(s) : Given(Field(s, m).entity)}} \subseteq out.warnings
        /\ (Len(s.grain) # 1 => <<"grain">> \in out.warnings)
    BY ExportSays
  <1> DEFINE new == in.schema
  <1>3. /\ again.status = (IF Given(new.status) THEN new.status ELSE "draft")
        /\ again.schema = [i \in DOMAIN new.output |-> Exported(new.output[i])]
        /\ again.quality = WithGrainRule(FieldRules(new), new.grain)
    BY ExportSays
  <1>4. DistinctNames(s.output) /\ Len(s.output) \in Nat /\ DOMAIN s.output = 1..Len(s.output) /\ s.grain \in Seq(Names(s))
    BY DEF TravellerDomain, DistinctNames
  <1> HIDE DEF again, in, doc, out
  <1>5. \A i \in DOMAIN s.output :
           /\ new.output[i].name = s.output[i].name /\ new.output[i].description = s.output[i].description
           /\ new.output[i].classification = s.output[i].classification /\ new.output[i].type = doc.schema[i].logicalType
           /\ new.output[i].required = (s.output[i].name \in RequiredOf(s)) /\ new.output[i].unique = (s.output[i].name \in W)
    <2> TAKE i \in DOMAIN s.output
    <2> DEFINE f == s.output[i]
               g == new.output[i]
               r == f.name \in RequiredOf(s)
               w == f.name \in W
               y == doc.schema[i].logicalType
    <2>1. g = [name |-> f.name, type |-> y, description |-> f.description, classification |-> f.classification,
               entity |-> None, required |-> r, unique |-> w]
      BY <1>1
    <2> HIDE DEF r, w, y, f, g
    <2>2. g.name = f.name /\ g.description = f.description /\ g.classification = f.classification
          /\ g.type = y /\ g.required = r /\ g.unique = w
      BY <2>1
    <2>3. QED
      BY <2>2 DEF r, w, y, f, g
  <1>6. \A i \in DOMAIN s.output :
          /\ Kept(s.output[i], new.output[i], s.grain)
          /\ (Given(s.output[i].entity) => <<"entity", s.output[i].name>> \in out.warnings)
    <2> SUFFICES ASSUME NEW i \in DOMAIN s.output
                 PROVE  /\ Kept(s.output[i], new.output[i], s.grain)
                        /\ (Given(s.output[i].entity) => <<"entity", s.output[i].name>> \in out.warnings)
      OBVIOUS
    <2> DEFINE f == s.output[i]
               g == new.output[i]
    <2>1. /\ (f.name \in RequiredOf(s)) = f.required /\ (f.name \in UniqueOf(s)) = f.unique
          /\ (f.name \in KeyOf(s.grain)) = (s.grain = <<f.name>>) /\ Field(s, f.name) = f
      BY ObligationsOfField
    <2>2. doc.schema[i].logicalType = (IF Given(f.type) THEN f.type ELSE "unknown")
      BY <1>2 DEF Exported
    <2>3. /\ g.name = f.name /\ g.description = f.description /\ g.classification = f.classification
          /\ g.type = doc.schema[i].logicalType /\ g.required = (f.name \in RequiredOf(s)) /\ g.unique = (f.name \in W)
      BY <1>5
    <2>4. f.unique \in BOOLEAN
      BY DEF TravellerDomain
    <2> HIDE DEF f, g
    <2>5. g.unique = (f.unique \/ s.grain = <<f.name>>)
      BY <2>1, <2>3, <2>4
    <2>6. Kept(f, g, s.grain)
      BY <2>1, <2>2, <2>3, <2>5 DEF Kept
    <2>7. f.name \in Names(s)
      BY DEF f, Names
    <2>8. Given(f.entity) => <<"entity", f.name>> \in out.warnings
      BY <1>2, <2>1, <2>7
    <2>9. QED
      BY <2>6, <2>8 DEF f, g
  <1>7. new.grain = s.grain \/ <<"grain">> \in out.warnings \union in.warnings
    <2>1. CASE Len(s.grain) # 1
      BY <1>2, <2>1
    <2>2. CASE Len(s.grain) = 1
      <3>1. s.grain[1] \in W
        BY <2>2 DEF KeyOf
      <3>2. IsFiniteSet(W)
        BY FiniteNames
      <3>3. Cardinality(W) \in Nat /\ Cardinality(W) # 0
        <4> HIDE DEF W
        <4>1. Cardinality(W) \in Nat /\ Cardinality(W) # 0
          BY <3>1, <3>2, FS_CardinalityType, FS_EmptySet
        <4>2. QED
          BY <4>1
      <3>4. CASE Cardinality(W) = 1
        <4> HIDE DEF W
        <4>1. SetToSeq(W) = s.grain
          BY <1>4, <2>2, <3>1, <3>2, <3>4, GrainComesBack
        <4>2. QED
          BY <1>1, <3>4, <4>1
      <3>5. CASE Cardinality(W) # 1
        <4> HIDE DEF W
        <4>1. Cardinality(W) > 1
          BY <3>3, <3>5
        <4>2. QED
          BY <1>1, <4>1
      <3>6. QED
        BY <3>4, <3>5
    <2>3. QED
      BY <2>1, <2>2
  <1>8. IsInjective(doc.quality) /\ Range(doc.quality) = RulesFor(RequiredOf(s), W)
    <2>1. IsInjective(WithGrainRule(FieldRules(s), s.grain))
          /\ Range(WithGrainRule(FieldRules(s), s.grain)) = RulesFor(RequiredOf(s), UniqueOf(s) \union KeyOf(s.grain))
      BY <1>4, ListedRulesAre
    <2>2. QED
      BY <1>2, <2>1
  <1>9. DistinctNames(new.output)
    <2>1. Len(new.output) = Len(s.output) /\ DOMAIN new.output = DOMAIN s.output
      BY <1>1
    <2>2. \A i \in DOMAIN s.output : new.output[i].name = s.output[i].name
      BY <1>5
    <2> HIDE DEF new
    <2>3. QED
      BY <1>4, <2>1, <2>2 DEF DistinctNames
  <1>10. RequiredOf(new) = RequiredOf(s) /\ UniqueOf(new) = W
    <2>1. /\ DOMAIN new.output = DOMAIN s.output
          /\ \A i \in DOMAIN s.output : /\ new.output[i].name = s.output[i].name
                                        /\ new.output[i].required = (s.output[i].name \in RequiredOf(s))
                                        /\ new.output[i].unique = (s.output[i].name \in W)
      BY <1>1, <1>5
    <2>2. RequiredOf(s) \subseteq Names(s) /\ W \subseteq Names(s)
      BY FiniteNames
    <2>3. Names(s) = {s.output[i].name : i \in DOMAIN s.output}
      BY DEF Names
    <2> HIDE DEF W, new
    <2>4. /\ \A i \in DOMAIN s.output : new.output[i].required <=> s.output[i].name \in RequiredOf(s)
          /\ \A i \in DOMAIN s.output : new.output[i].unique <=> s.output[i].name \in W
      BY <2>1, Zenon
    <2>5. ASSUME NEW R, R \subseteq Names(s), NEW key \in {"required", "unique"},
                 \A i \in DOMAIN s.output : new.output[i][key] <=> s.output[i].name \in R
          PROVE  {new.output[i].name : i \in {j \in DOMAIN new.output : new.output[j][key]}} = R
      <3>1. \A i \in DOMAIN s.output : new.output[i].name = s.output[i].name
        BY <2>1
      <3>2. {j \in DOMAIN new.output : new.output[j][key]} = {j \in DOMAIN s.output : s.output[j].name \in R}
        BY <2>1, <2>5
      <3>3. QED
        BY <2>3, <2>5, <3>1, <3>2
    <2>6. RequiredOf(new) = RequiredOf(s)
      <3> DEFINE req == RequiredOf(s)
      <3> HIDE DEF req
      <3>1. {new.output[i].name : i \in {j \in DOMAIN new.output : new.output[j].required}} = req
        BY <2>2, <2>4, <2>5 DEF req
      <3>2. QED
        BY <3>1 DEF req, RequiredOf
    <2>7. UniqueOf(new) = W
      BY <2>2, <2>4, <2>5 DEF UniqueOf
    <2>8. QED
      BY <2>6, <2>7
  <1>11. KeyOf(new.grain) \subseteq W
    <2>1. CASE Cardinality(W) = 1
      <3>1. PICK x : W = {x}
        <4> HIDE DEF W
        <4>1. Cardinality(W) = 1
          BY <2>1
        <4>2. IsFiniteSet(W)
          BY FiniteNames DEF W
        <4>3. QED
          BY <4>1, <4>2, FS_Singleton
      <3>2. new.grain = <<x>>
        <4>1. <<x>> \in Seq(W) /\ Len(<<x>>) = 1 /\ <<x>>[1] \in W
          <5> HIDE DEF W
          <5>1. QED
            BY <3>1
        <4>2. IsFiniteSet(W)
          BY <3>1, FS_Singleton
        <4> HIDE DEF W
        <4>3. SetToSeq(W) = <<x>>
          BY <2>1, <4>1, <4>2, GrainComesBack
        <4>4. QED
          BY <1>1, <2>1, <4>3
      <3> HIDE DEF W, new
      <3>3. QED
        BY <3>1, <3>2 DEF KeyOf
    <2>2. CASE Cardinality(W) # 1
      <3> HIDE DEF W
      <3>1. new.grain = <<>>
        BY <1>1, <2>2
      <3>2. QED
        BY <3>1 DEF KeyOf
    <2>3. QED
      BY <2>1, <2>2
  <1>12. Range(again.quality) = Range(doc.quality)
    <2>1. Range(WithGrainRule(FieldRules(new), new.grain)) = RulesFor(RequiredOf(new), UniqueOf(new) \union KeyOf(new.grain))
      BY <1>9, ListedRulesAre
    <2>2. UniqueOf(new) \union KeyOf(new.grain) = W
      BY <1>10, <1>11
    <2> HIDE DEF W, new
    <2>3. QED
      BY <1>3, <1>8, <1>10, <2>1, <2>2
  <1>13. [again EXCEPT !.quality = <<>>] = [doc EXCEPT !.quality = <<>>]
    <2>1. new.product.id = s.product.id /\ new.product.version = s.product.version
          /\ new.product.description = s.product.description /\ new.product.domain = s.product.domain
      BY <1>1, <1>2
    <2>2. Team(new.product.owner) = Team(s.product.owner)
      <3>1. new.product.owner = _import_team(Team(s.product.owner))
        BY <1>1, <1>2
      <3>2. QED
        BY <3>1, TeamComesBack
    <2>3. again.status = doc.status
      <3>1. "draft" # None
        BY DEF None
      <3>2. QED
        BY <1>1, <1>2, <1>3, <3>1 DEF Given
    <2>4. again.schema = doc.schema
      <3>1. \A i \in DOMAIN s.output : Exported(new.output[i]) = Exported(s.output[i])
        <4> TAKE i \in DOMAIN s.output
        <4> DEFINE f == s.output[i]
                   g == new.output[i]
                   y == IF Given(f.type) THEN f.type ELSE "unknown"
        <4>1. g.name = f.name /\ g.description = f.description /\ g.classification = f.classification /\ g.type = y
          BY <1>6 DEF Kept
        <4>2. Given(y)
          BY DEF Given, None
        <4> HIDE DEF f, g
        <4>3. Exported(g) = Exported(f)
          BY <4>1, <4>2 DEF Exported
        <4>4. QED
          BY <4>3 DEF f, g
      <3>2. DOMAIN new.output = DOMAIN s.output
        BY <1>1
      <3> HIDE DEF new
      <3>3. QED
        BY <1>2, <1>3, <3>1, <3>2
    <2>5. _sla_tuple(new) = _sla_tuple(s) /\ _security_tuple(new) = _security_tuple(s)
      BY <1>1
    <2> HIDE DEF new
    <2>6. QED
      BY <2>1, <2>2, <2>3, <2>4, <2>5, SameDocument DEF again, doc, out, new
  <1>14. QED
    BY <1>1, <1>6, <1>7, <1>8, <1>12, <1>13 DEF OdcsRoundTrip, again, in, doc, out

------------------------------------------------------------------------------
(* Iterations.                                                             *)
PS == INSTANCE PipelineSchema

\* B[i][x] is the i-th step of an iteration, from x.
StepsKeep(B, S, n) == \A i \in 1..n : \A x \in S : B[i][x] \in S
Iterates(f, B, S, a, n) == f \in [0..n -> S] /\ f[0] = a /\ \A i \in 1..n : f[i] = B[i][f[i - 1]]

\* An iteration whose steps keep a set goes through the set.
LEMMA Iteration ==
    ASSUME NEW n \in Nat, NEW S, NEW a \in S, NEW B, StepsKeep(B, S, n)
    PROVE  \E f : Iterates(f, B, S, a, n)
  <1> DEFINE Run(f, m) == f \in [0..m -> S] /\ f[0] = a /\ \A i \in 1..m : f[i] = B[i][f[i - 1]]
             T == {m \in Nat : m <= n => \E f : Run(f, m)}
  <1>1. \E f : Run(f, 0)
    <2> DEFINE f == [i \in 0..0 |-> a]
    <2>1. Run(f, 0)
      OBVIOUS
    <2>2. QED
      BY <2>1
  <1>2. ASSUME NEW m \in Nat, m + 1 <= n, NEW f, Run(f, m)
        PROVE  \E g : Run(g, m + 1)
    <2> DEFINE x == B[m + 1][f[m]]
               g == [i \in 0..(m + 1) |-> IF i <= m THEN f[i] ELSE x]
    <2>0. m + 1 <= n /\ f \in [0..m -> S] /\ f[0] = a
      BY <1>2, Zenon
    <2>1. f[m] \in S /\ m + 1 \in 1..n
      <3>1. m \in 0..m /\ m + 1 \in 1..n
        BY <2>0
      <3>2. QED
        BY <2>0, <3>1
    <2>2. x \in S
      BY <2>1 DEF StepsKeep
    <2> HIDE DEF x
    <2>3. g \in [0..(m + 1) -> S]
      <3>1. \A i \in 0..(m + 1) : i <= m => f[i] \in S
        BY <2>0
      <3>2. QED
        BY <2>2, <3>1
    <2>4. g[0] = a /\ g[m] = f[m] /\ g[m + 1] = x
      <3>1. /\ 0 \in 0..(m + 1) /\ m \in 0..(m + 1) /\ m + 1 \in 0..(m + 1)
            /\ 0 <= m /\ m <= m /\ ~(m + 1 <= m)
        OBVIOUS
      <3>2. QED
        BY <2>0, <3>1, Zenon
    <2>5. \A i \in 1..m : i \in 0..(m + 1) /\ i - 1 \in 0..(m + 1) /\ i <= m /\ i - 1 <= m
      OBVIOUS
    <2>6. \A i \in 1..m : g[i] = f[i] /\ g[i - 1] = f[i - 1]
      BY <2>5
    <2> HIDE DEF g
    <2>7. ASSUME NEW i \in 1..(m + 1)
          PROVE  g[i] = B[i][g[i - 1]]
      <3>1. CASE i \in 1..m
        BY <1>2, <2>6, <3>1
      <3>2. CASE i = m + 1
        <4>1. i - 1 = m
          BY <3>2
        <4>2. QED
          BY <2>4, <3>2, <4>1 DEF x
      <3>3. i \in 1..m \/ i = m + 1
        OBVIOUS
      <3>4. QED
        BY <3>1, <3>2, <3>3
    <2>8. Run(g, m + 1)
      BY <2>3, <2>4, <2>7
    <2>9. QED
      BY <2>8
  <1> HIDE DEF Run
  <1>3. 0 \in T
    BY <1>1
  <1>4. ASSUME NEW m \in Nat, m \in T
        PROVE  m + 1 \in T
    <2>1. m + 1 \in Nat /\ (m + 1 <= n => m <= n)
      OBVIOUS
    <2>2. m + 1 <= n => \E f : Run(f, m)
      BY <1>4, <2>1
    <2>3. m + 1 <= n => \E g : Run(g, m + 1)
      BY <1>2, <2>2
    <2>4. QED
      BY <2>1, <2>3
  <1>5. n \in T
    <2> HIDE DEF T
    <2>1. QED
      BY <1>3, <1>4, Induction
  <1>6. \E f : Run(f, n)
    BY <1>5
  <1>7. QED
    BY <1>6 DEF Run, Iterates

\*@@

------------------------------------------------------------------------------
(* Pipeline documents: what the loader accepts is not refused later.        *)

\* A validation complains of its condition only.
LEMMA NoComplaint == \A condition, complaint : PS!If(condition, complaint) = {} <=> ~condition
  BY DEF PS!If

\* An operation the loader accepts is one the backend dispatches with its arguments.
LEMMA LoadedOpApplies ==
    ASSUME NEW op, PS!_validate_col_op_str(op)
    PROVE  PS!apply_op(op)
  <1> DEFINE core == PS!Core(op)
  <1>1. \/ core = <<>>
        \/ core[1] = "when" /\ (Len(core) > 1 => core[2] \in PS!FILTER_OPERATORS)
        \/ core[1] \in DOMAIN PS!COLUMN_OPS /\ PS!_validate_col_op_arity(core[1], op.args)
    BY DEF PS!_validate_col_op_str
  <1>2. PS!apply_op(op) <=>
        \/ core = <<>>
        \/ core[1] = "when" /\ (Len(core) > 1 => core[2] \in PS!FILTER_OPERATORS)
        \/ core[1] \in DOMAIN PS!COLUMN_OPS /\ PS!_check_op_arity(core[1], op.args)
    BY DEF PS!apply_op, PS!_SPARK_FILTER_DISPATCH
  <1> HIDE DEF core
  <1>3. ASSUME NEW name \in DOMAIN PS!COLUMN_OPS, NEW args, PS!_validate_col_op_arity(name, args)
        PROVE  PS!_check_op_arity(name, args)
    BY <1>3 DEF PS!_validate_col_op_arity, PS!_check_op_arity, PS!_MIN_OP_ARGS, PS!_REQUIRED_ARGS, PS!COLUMN_OPS
  <1>4. QED
    BY <1>1, <1>2, <1>3

\* So is a list of operations of one column.
LEMMA LoadedOpsAlwaysApply ==
    ASSUME NEW ops
    PROVE  PS!LoadedOpsApply(ops)
  <1> SUFFICES ASSUME PS!_validate_ops_in_select_list(ops) PROVE PS!get_select_expressions(ops)
    BY DEF PS!LoadedOpsApply
  <1>1. \A i \in DOMAIN ops : PS!apply_op(ops[i])
    BY LoadedOpApplies DEF PS!_validate_ops_in_select_list
  <1>2. (ops # <<>> /\ PS!Starts(ops[1], "when")) => Len(ops) = 3 /\ PS!Starts(ops[2], "then") /\ PS!Starts(ops[3], "else")
    BY DEF PS!_validate_ops_in_select_list, PS!_validate_compact_when_chain
  <1>3. QED
    BY <1>1, <1>2 DEF PS!get_select_expressions

\* A document that loads has no complaint of any validation.
LEMMA LoadedBlocks ==
    ASSUME NEW s, PS!Loads(s)
    PROVE  /\ ~(s.keepAll /\ s.hasSelect)
           /\ PS!_normalize_partials(s) = {} /\ PS!SourceErrors(s) = {} /\ PS!JoinRefs(s) = {} /\ PS!_normalize_aggregate(s) = {}
           /\ PS!_normalize_agent_ready_metadata(s) = {} /\ PS!_validate_streaming(s) = {} /\ PS!_validate_materialized_view(s) = {}
  BY NoComplaint DEF PS!Loads, PS!_normalize_schema

\* One with a streaming table is a streaming run whose stream is alone, may
\* stream and is only joined as the base.
LEMMA LoadedStream ==
    ASSUME NEW s, PS!Loads(s), PS!Streams(s) # {}
    PROVE  /\ s.materialization = "streaming_table" /\ ~s.devLimit /\ ~s.aggregate
           /\ \A i, j \in PS!Streams(s) : i = j
           /\ \A i \in PS!Streams(s) : PS!StreamTableErrors(s.tables[i]) = {}
           /\ PS!StreamJoinErrors(s) = {}
  <1> DEFINE streamingRun == s.materialization = "streaming_table"
             E == UNION {PS!StreamTableErrors(s.tables[i]) : i \in PS!Streams(s)}
  <1>1. PS!_validate_streaming(s) = {}
    BY LoadedBlocks
  <1>2. /\ streamingRun /\ ~(\E i, j \in PS!Streams(s) : i # j) /\ E = {}
        /\ streamingRun => ~s.devLimit /\ ~s.aggregate /\ PS!StreamJoinErrors(s) = {}
    <2> DEFINE one == \E i, j \in PS!Streams(s) : i # j
    <2>1. PS!_validate_streaming(s) =
            PS!If(PS!_schema_contains_streaming(s), "stream in a partial")
            \union PS!If(PS!Streams(s) # {} /\ ~streamingRun, "stream needs materialization")
            \union PS!If(streamingRun /\ PS!Streams(s) = {}, "materialization needs a stream")
            \union PS!If(one, "two streams")
            \union E
            \union (IF streamingRun
                    THEN PS!If(s.devLimit, "dev_limit") \union PS!If(s.sink \in {"postgres", "jdbc"}, "sink")
                         \union PS!If(s.aggregate, "aggregate") \union PS!StreamJoinErrors(s)
                    ELSE {})
      BY Zenon DEF PS!_validate_streaming
    <2> HIDE DEF E, one, streamingRun
    <2>2. PS!If(PS!Streams(s) # {} /\ ~streamingRun, "stream needs materialization") = {} /\ PS!If(one, "two streams") = {} /\ E = {}
      BY <1>1, <2>1
    <2>3. streamingRun => PS!If(s.devLimit, "dev_limit") = {} /\ PS!If(s.aggregate, "aggregate") = {} /\ PS!StreamJoinErrors(s) = {}
      BY <1>1, <2>1
    <2>4. QED
      BY <2>2, <2>3, NoComplaint DEF one
  <1>3. \A i \in PS!Streams(s) : PS!StreamTableErrors(s.tables[i]) \subseteq E
    OBVIOUS
  <1> HIDE DEF E
  <1>4. QED
    BY <1>2, <1>3

\* The run does not refuse its stream.
LEMMA LoadedStreamAlwaysStarts ==
    ASSUME NEW s
    PROVE  PS!LoadedStreamStarts(s)
  <1> SUFFICES ASSUME PS!Loads(s), PS!Streams(s) # {} PROVE ~PS!_streaming_preflight(s, "inline", {})
    BY DEF PS!LoadedStreamStarts, PS!Preflight
  <1>1. ~s.devLimit /\ ~s.aggregate /\ \A i \in PS!Streams(s) : PS!StreamTableErrors(s.tables[i]) = {}
    BY LoadedStream
  <1>2. \A i \in PS!Streams(s) : ~s.tables[i].devLimit /\ ~s.tables[i].qualify /\ ~s.tables[i].dedup
    <2> TAKE i \in PS!Streams(s)
    <2> DEFINE t == s.tables[i]
    <2>1. PS!StreamTableErrors(t) = {}
      BY <1>1
    <2> HIDE DEF t
    <2>2. PS!If(t.devLimit, "dev_limit on stream") = {} /\ PS!If(t.qualify, "qualify on stream") = {} /\ PS!If(t.dedup, "deduplication on stream") = {}
      BY <2>1 DEF PS!StreamTableErrors
    <2>3. ~t.devLimit /\ ~t.qualify /\ ~t.dedup
      BY <2>2, NoComplaint
    <2>4. QED
      BY <2>3 DEF t
  <1>3. QED
    BY <1>1, <1>2 DEF PS!_streaming_preflight

\* The statement of a view that loads is compiled.
LEMMA LoadedViewAlwaysCompiles ==
    ASSUME NEW s
    PROVE  PS!LoadedViewCompiles(s)
  <1> DEFINE TableErrors(t) ==
                PS!If(t.streaming, "stream") \union PS!If(t.source # PS!None, "file source") \union PS!If(t.loader, "loader")
                \union PS!If(t.devLimit, "dev_limit") \union PS!If(t.dedup, "deduplication") \union PS!If(t.qualify, "qualify")
             E == UNION {TableErrors(t) : t \in PS!Range(s.tables)}
  <1> SUFFICES ASSUME PS!Loads(s), s.materialization = "materialized_view" PROVE ~PS!_reject_uncompilable(s)
    BY DEF PS!LoadedViewCompiles, PS!VALID_JOIN_TYPES, PS!_SQL_JOIN_TYPES
  <1>1. s.rules = {} /\ s.partials = <<>> /\ ~s.devLimit /\ E = {}
    <2>1. PS!_validate_materialized_view(s) =
            PS!If(s.rules # {}, "rules") \union PS!If(s.partials # <<>>, "partials") \union PS!If(s.devLimit, "dev_limit")
            \union PS!If(s.sink \in {"postgres", "jdbc"}, "sink")
            \union PS!If(s.keepAll /\ (Len(s.tables) > 1 \/ s.joins # <<>>), "keep_all_columns over a join")
            \union E
      BY Zenon DEF PS!_validate_materialized_view
    <2> HIDE DEF E
    <2>2. PS!If(s.rules # {}, "rules") = {} /\ PS!If(s.partials # <<>>, "partials") = {} /\ PS!If(s.devLimit, "dev_limit") = {} /\ E = {}
      BY <2>1, LoadedBlocks
    <2>3. QED
      BY <2>2, NoComplaint
  <1>2. ASSUME NEW t \in PS!Range(s.tables)
        PROVE  ~t.loader /\ t.source = PS!None /\ ~t.streaming /\ ~t.devLimit /\ ~t.dedup /\ ~t.qualify
    <2>1. TableErrors(t) = {}
      BY <1>1
    <2>2. /\ PS!If(t.streaming, "stream") = {} /\ PS!If(t.source # PS!None, "file source") = {} /\ PS!If(t.loader, "loader") = {}
          /\ PS!If(t.devLimit, "dev_limit") = {} /\ PS!If(t.dedup, "deduplication") = {} /\ PS!If(t.qualify, "qualify") = {}
      BY <2>1
    <2>3. QED
      BY <2>2, NoComplaint
  <1>3. QED
    BY <1>1, <1>2 DEF PS!_reject_uncompilable

\* What the contract and the seed of a document with explicit outputs promise is produced.
LEMMA PromisesAreAlwaysProduced ==
    ASSUME NEW s
    PROVE  PS!PromisesAreProduced(s)
  <1> DEFINE explicit == PS!_explicit_output_names(s)
             grouped == PS!Range(s.groupBy) \union PS!Range(s.measures)
  <1> SUFFICES ASSUME PS!Loads(s), PS!Explicit(s)
               PROVE  s.output \union PS!Range(s.grain) \union s.dimensions \subseteq PS!Produced(s, {})
    BY DEF PS!PromisesAreProduced
  <1>1. /\ ~(s.keepAll /\ s.hasSelect) /\ PS!_normalize_aggregate(s) = {} /\ PS!_normalize_agent_ready_metadata(s) = {}
    BY LoadedBlocks
  <1>2. s.aggregate => ~s.hasSelect /\ ~s.keepAll
    <2> SUFFICES ASSUME s.aggregate PROVE ~s.hasSelect /\ ~s.keepAll
      OBVIOUS
    <2>1. PS!If(s.hasSelect, "aggregate and select_final") = {} /\ PS!If(s.keepAll, "aggregate and keep_all_columns") = {}
      BY <1>1 DEF PS!_normalize_aggregate
    <2>2. QED
      BY <2>1, NoComplaint
  <1>3. s.output \subseteq explicit /\ PS!Range(s.grain) \subseteq s.output /\ s.dimensions \subseteq explicit
    <2> DEFINE declared == IF s.output # {} THEN s.output ELSE explicit
    <2>1. /\ PS!If(PS!Explicit(s) /\ s.output \ explicit # {}, "output not produced") = {}
          /\ PS!If(PS!Range(s.grain) \ s.output # {}, "grain not in output") = {}
          /\ PS!If((s.output # {} \/ PS!Explicit(s)) /\ s.dimensions \ declared # {}, "dimension not declared") = {}
      BY <1>1 DEF PS!_normalize_agent_ready_metadata
    <2> HIDE DEF declared, explicit
    <2>2. s.output \ explicit = {} /\ PS!Range(s.grain) \ s.output = {} /\ s.dimensions \ declared = {}
      BY <2>1, NoComplaint
    <2>3. declared \subseteq explicit
      BY <2>2 DEF declared
    <2>4. QED
      BY <2>2, <2>3
  <1>4. explicit \subseteq PS!Produced(s, {})
    <2>1. CASE s.aggregate
      BY <1>2, <2>1 DEF PS!_explicit_output_names, PS!Produced
    <2>2. CASE ~s.aggregate
      BY <1>1, <2>2 DEF PS!_explicit_output_names, PS!Produced, PS!Explicit
    <2>3. QED
      BY <2>1, <2>2
  <1> HIDE DEF explicit
  <1>5. QED
    BY <1>3, <1>4

\* Tables, partials and joins are lists.
LayoutDomain(in) ==
    /\ in.schema.tables \in Seq(PS!Range(in.schema.tables)) /\ in.schema.partials \in Seq(PS!Range(in.schema.partials))
    /\ in.schema.joins \in Seq(PS!Range(in.schema.joins))

\* A loaded name is the alias of a partial or the one of a table.
LEMMA LoadedNameIsSomeones ==
    ASSUME NEW in, LayoutDomain(in), NEW x \in PS!Range(PS!LoadedNames(in.schema))
    PROVE  \/ \E p \in PS!Range(in.schema.partials) : x = p.alias
           \/ \E i \in DOMAIN in.schema.tables : x = PS!AliasOf(in.schema.tables[i])
  <1> DEFINE s == in.schema
             first == [i \in DOMAIN s.partials |-> s.partials[i].alias]
             second == [i \in DOMAIN s.tables |-> PS!AliasOf(s.tables[i])]
             names == first \o second
             X == PS!Range(first) \union PS!Range(second)
  <1>1. PS!LoadedNames(s) = names
    BY DEF PS!LoadedNames
  <1>2. DOMAIN s.partials = 1..Len(s.partials) /\ Len(s.partials) \in Nat /\ DOMAIN s.tables = 1..Len(s.tables) /\ Len(s.tables) \in Nat
    BY DEF LayoutDomain
  <1>3. first \in Seq(X) /\ second \in Seq(X) /\ Len(first) = Len(s.partials) /\ Len(second) = Len(s.tables)
    BY <1>2 DEF PS!Range
  <1>4. PICK k \in DOMAIN names : x = names[k]
    BY <1>1 DEF PS!Range
  <1>5. DOMAIN first = DOMAIN s.partials /\ DOMAIN second = DOMAIN s.tables
    OBVIOUS
  <1> HIDE DEF first, second, X
  <1>6. /\ k \in 1..(Len(first) + Len(second)) /\ Len(first) \in Nat /\ Len(second) \in Nat
        /\ names[k] = IF k <= Len(first) THEN first[k] ELSE second[k - Len(first)]
    <2>1. /\ Len(names) = Len(first) + Len(second) /\ names \in Seq(X)
          /\ \A i \in 1..(Len(first) + Len(second)) : names[i] = IF i <= Len(first) THEN first[i] ELSE second[i - Len(first)]
      BY <1>3, ConcatProperties
    <2> HIDE DEF names
    <2>2. DOMAIN names = 1..(Len(first) + Len(second)) /\ Len(first) \in Nat /\ Len(second) \in Nat
      BY <1>3, <2>1, LenProperties
    <2>3. QED
      BY <1>4, <2>1, <2>2
  <1>7. CASE k <= Len(first)
    <2>1. k \in DOMAIN s.partials /\ x = first[k]
      BY <1>2, <1>3, <1>4, <1>6, <1>7
    <2>2. x = s.partials[k].alias
      BY <2>1 DEF first
    <2>3. QED
      BY <2>1, <2>2 DEF PS!Range
  <1>8. CASE ~(k <= Len(first))
    <2>1. k - Len(first) \in DOMAIN s.tables /\ x = second[k - Len(first)]
      BY <1>2, <1>3, <1>4, <1>6, <1>8
    <2>2. QED
      BY <2>1 DEF second
  <1>9. QED
    BY <1>7, <1>8

\* The stream of a document is one of its streaming tables.
LEMMA OneStream ==
    ASSUME NEW in, LayoutDomain(in), PS!Streams(in.schema) # {}
    PROVE  \E i \in PS!Streams(in.schema) : PS!Stream(in.schema) = in.schema.tables[i]
  <1> DEFINE S == PS!Streams(in.schema)
             i == CHOOSE i \in S : \A j \in S : i <= j
  <1>1. S \subseteq Nat
    BY DEF PS!Streams, LayoutDomain
  <1>2. \E n \in S : \A m \in S : n <= m
    <2> HIDE DEF S
    <2>1. QED
      BY <1>1, LeastNatural DEF S
  <1>3. i \in S
    <2> HIDE DEF S
    <2>1. QED
      BY <1>2
  <1>4. PS!Stream(in.schema) = in.schema.tables[i]
    BY DEF PS!Stream
  <1> HIDE DEF i
  <1>5. QED
    BY <1>3, <1>4

\* The base of the joins is the stream, if the first join calls it by the name
\* it is loaded under and no other table has that.
LEMMA StreamIsAlwaysTheBase ==
    ASSUME NEW in, LayoutDomain(in)
    PROVE  PS!StreamIsTheBase(in.schema)
  <1> DEFINE s == in.schema
             r == s.joins[1].from
  <1> SUFFICES ASSUME PS!Loads(s), PS!Streams(s) # {}, ~PS!Shadowed(s), s.joins # <<>>, r \in PS!Range(PS!LoadedNames(s))
               PROVE  PS!base_alias(s) = PS!AliasOf(PS!Stream(s))
    BY DEF PS!StreamIsTheBase
  <1>1. PS!base_alias(s) = r
    BY DEF PS!base_alias
  <1>2. PICK i \in PS!Streams(s) : PS!Stream(s) = s.tables[i]
    BY OneStream
  <1>3. r \in PS!TableRefs(PS!Stream(s))
    <2>1. PS!If(s.joins[1].from \notin PS!TableRefs(PS!Stream(s)), "stream is not the base") = {}
      BY LoadedStream DEF PS!StreamJoinErrors
    <2>2. QED
      BY <2>1, NoComplaint
  <1>4. r \in PS!_collect_table_refs(s)
    <2>1. PS!Stream(s) \in PS!Range(s.tables)
      BY <1>2 DEF PS!Range, PS!Streams
    <2>2. QED
      BY <1>3, <2>1 DEF PS!_collect_table_refs
  <1>5. \A p \in PS!Range(s.partials) : r # p.alias
    <2>1. PS!If(\E p \in PS!Range(s.partials) : p.alias \in PS!_collect_table_refs(s), "partial alias collides with a table") = {}
      BY LoadedBlocks DEF PS!_normalize_partials
    <2>2. QED
      BY <1>4, <2>1, NoComplaint
  <1>6. PICK k \in DOMAIN s.tables : r = PS!AliasOf(s.tables[k])
    BY <1>5, LoadedNameIsSomeones
  <1>7. k \in PS!Streams(s)
    BY <1>3, <1>6 DEF PS!Shadowed
  <1>8. k = i
    BY <1>7, LoadedStream
  <1>9. QED
    BY <1>1, <1>2, <1>6, <1>8

\* A block maps its type, one of those known, and options to values.
BlockDomain(in) ==
    /\ in.block = [key \in DOMAIN in.block |-> in.block[key]]
    /\ "type" \in DOMAIN in.block
    /\ in.block.type \in {"table", "streaming_table", "materialized_view"}

\* The normalized block has the options given and the defaults of the others.
LEMMA NormalizedBlock ==
    ASSUME NEW in, BlockDomain(in)
    PROVE  LET m == in.block
               n == PS!_normalize_materialization(m)
           IN  /\ DOMAIN n = DOMAIN m \union DOMAIN PS!Defaults[m.type]
               /\ \A key \in DOMAIN n : n[key] = PS!ValueOf(m, key)
               /\ "type" \in DOMAIN n /\ n.type = m.type
               /\ PS!_normalize_materialization(n) = n
  <1> DEFINE m == in.block
             n == PS!_normalize_materialization(m)
             D == DOMAIN m \union DOMAIN PS!Defaults[m.type]
  <1>1. n = [key \in D |-> PS!ValueOf(m, key)]
    BY DEF PS!_normalize_materialization
  <1>2. "type" \in D /\ PS!ValueOf(m, "type") = m["type"]
    BY DEF BlockDomain, PS!ValueOf
  <1> HIDE DEF m, n, D
  <1>3. DOMAIN n = D /\ \A key \in D : n[key] = PS!ValueOf(m, key)
    BY <1>1
  <1>4. n.type = m.type
    BY <1>2, <1>3
  <1>5. PS!_normalize_materialization(n) = n
    <2>1. DOMAIN n \union DOMAIN PS!Defaults[n.type] = D
      BY <1>3, <1>4 DEF D
    <2>2. \A key \in D : PS!ValueOf(n, key) = n[key]
      BY <1>3 DEF PS!ValueOf
    <2>3. PS!_normalize_materialization(n) = [key \in D |-> PS!ValueOf(n, key)]
      BY <2>1 DEF PS!_normalize_materialization
    <2>4. n = [key \in D |-> n[key]]
      BY <1>1, <1>3
    <2>5. QED
      BY <2>2, <2>3, <2>4
  <1>6. QED
    BY <1>2, <1>3, <1>4, <1>5 DEF m, n, D

\* When the loader has nothing against the block of a stream.
LEMMA StreamBlock ==
    ASSUME NEW m, m.type = "streaming_table"
    PROVE  PS!_materialization_errors(m) = {} <=>
              /\ DOMAIN m \subseteq {"type", "trigger", "checkpoint", "write_mode", "keys"}
              /\ "trigger" \in DOMAIN m => m["trigger"] \in PS!Valid["trigger"]
              /\ "write_mode" \in DOMAIN m => m["write_mode"] \in PS!Valid["write_mode"]
              /\ "checkpoint" \in DOMAIN m => m["checkpoint"] # ""
              /\ IF PS!ValueOf(m, "write_mode") = "upsert" THEN "keys" \in DOMAIN m /\ m["keys"] # <<>> /\ "" \notin PS!Range(m["keys"])
                 ELSE "keys" \notin DOMAIN m
  <1> DEFINE D == DOMAIN m
             upsert == PS!ValueOf(m, "write_mode") = "upsert"
             unknown == PS!If(D \ PS!MATERIALIZATION_ALLOWED_KEYS["streaming_table"] # {}, "unknown key")
             odd == PS!Odd(m, {"trigger", "write_mode"})
             blank == PS!Blanks(m, {"checkpoint"})
             noNames == PS!NoNames(m, {"keys"})
             keyed == IF upsert THEN PS!If("keys" \notin D, "keys") \union noNames ELSE PS!If("keys" \in D, "keys without upsert")
  <1>1. PS!_materialization_errors(m) = unknown \union (odd \union blank \union keyed)
    BY DEF PS!_materialization_errors
  <1>2. unknown = {} <=> D \subseteq {"type", "trigger", "checkpoint", "write_mode", "keys"}
    <2>1. PS!MATERIALIZATION_ALLOWED_KEYS["streaming_table"] = {"type", "trigger", "checkpoint", "write_mode", "keys"}
      BY DEF PS!MATERIALIZATION_ALLOWED_KEYS
    <2>2. QED
      BY <2>1, NoComplaint
  <1>3. odd = {} <=> /\ "trigger" \in D => m["trigger"] \in PS!Valid["trigger"]
                     /\ "write_mode" \in D => m["write_mode"] \in PS!Valid["write_mode"]
    <2>1. odd = {} <=> \A key \in {"trigger", "write_mode"} : PS!If(key \in D /\ m[key] \notin PS!Valid[key], key) = {}
      BY DEF PS!Odd
    <2>2. QED
      BY <2>1, NoComplaint
  <1>4. blank = {} <=> ("checkpoint" \in D => m["checkpoint"] # "")
    <2>1. blank = {} <=> \A key \in {"checkpoint"} : PS!If(key \in D /\ m[key] = "", key) = {}
      BY DEF PS!Blanks
    <2>2. QED
      BY <2>1, NoComplaint
  <1>5. noNames = {} <=> ("keys" \in D => ~(m["keys"] = <<>> \/ "" \in PS!Range(m["keys"])))
    <2>1. noNames = {} <=> \A key \in {"keys"} : PS!If(key \in D /\ (m[key] = <<>> \/ "" \in PS!Range(m[key])), key) = {}
      BY DEF PS!NoNames
    <2>2. QED
      BY <2>1, NoComplaint
  <1> HIDE DEF unknown, odd, blank, noNames, D, upsert
  <1>6. keyed = {} <=> IF upsert THEN "keys" \in D /\ noNames = {} ELSE "keys" \notin D
    BY NoComplaint
  <1> HIDE DEF keyed
  <1>7. PS!_materialization_errors(m) = {} <=> unknown = {} /\ odd = {} /\ blank = {} /\ keyed = {}
    BY <1>1
  <1>8. QED
    BY <1>2, <1>3, <1>4, <1>5, <1>6, <1>7 DEF D, upsert

\* When it has nothing against the block of a view.
LEMMA ViewBlock ==
    ASSUME NEW m, m.type = "materialized_view"
    PROVE  PS!_materialization_errors(m) = {} <=>
              /\ DOMAIN m \subseteq {"type", "schedule", "comment", "cluster_by", "partition_by", "refresh"}
              /\ "schedule" \in DOMAIN m => m["schedule"] \in PS!Valid["schedule"]
              /\ "refresh" \in DOMAIN m => m["refresh"] \in PS!Valid["refresh"]
              /\ "comment" \in DOMAIN m => m["comment"] # ""
              /\ \A key \in {"cluster_by", "partition_by"} : key \in DOMAIN m => m[key] # <<>> /\ "" \notin PS!Range(m[key])
              /\ ~({"cluster_by", "partition_by"} \subseteq DOMAIN m)
  <1> DEFINE D == DOMAIN m
             unknown == PS!If(D \ PS!MATERIALIZATION_ALLOWED_KEYS["materialized_view"] # {}, "unknown key")
             odd == PS!Odd(m, {"schedule", "refresh"})
             blank == PS!Blanks(m, {"comment"})
             noNames == PS!NoNames(m, {"cluster_by", "partition_by"})
             both == PS!If({"cluster_by", "partition_by"} \subseteq D, "one clustering")
  <1>1. PS!_materialization_errors(m) = unknown \union (odd \union blank \union noNames \union both)
    BY DEF PS!_materialization_errors
  <1>2. unknown = {} <=> D \subseteq {"type", "schedule", "comment", "cluster_by", "partition_by", "refresh"}
    <2>1. PS!MATERIALIZATION_ALLOWED_KEYS["materialized_view"] = {"type", "schedule", "comment", "cluster_by", "partition_by", "refresh"}
      BY DEF PS!MATERIALIZATION_ALLOWED_KEYS
    <2>2. QED
      BY <2>1, NoComplaint
  <1>3. odd = {} <=> /\ "schedule" \in D => m["schedule"] \in PS!Valid["schedule"]
                     /\ "refresh" \in D => m["refresh"] \in PS!Valid["refresh"]
    <2>1. odd = {} <=> \A key \in {"schedule", "refresh"} : PS!If(key \in D /\ m[key] \notin PS!Valid[key], key) = {}
      BY DEF PS!Odd
    <2>2. QED
      BY <2>1, NoComplaint
  <1>4. blank = {} <=> ("comment" \in D => m["comment"] # "")
    <2>1. blank = {} <=> \A key \in {"comment"} : PS!If(key \in D /\ m[key] = "", key) = {}
      BY DEF PS!Blanks
    <2>2. QED
      BY <2>1, NoComplaint
  <1>5. noNames = {} <=> \A key \in {"cluster_by", "partition_by"} : key \in D => m[key] # <<>> /\ "" \notin PS!Range(m[key])
    <2>1. noNames = {} <=> \A key \in {"cluster_by", "partition_by"} : PS!If(key \in D /\ (m[key] = <<>> \/ "" \in PS!Range(m[key])), key) = {}
      BY DEF PS!NoNames
    <2>2. QED
      BY <2>1, NoComplaint
  <1>6. both = {} <=> ~({"cluster_by", "partition_by"} \subseteq D)
    BY NoComplaint
  <1> HIDE DEF unknown, odd, blank, noNames, both, D
  <1>7. PS!_materialization_errors(m) = {} <=> unknown = {} /\ odd = {} /\ blank = {} /\ noNames = {} /\ both = {}
    BY <1>1
  <1>8. QED
    BY <1>2, <1>3, <1>4, <1>5, <1>6, <1>7 DEF D

\* A block that loads is one the writer starts, or the statement carries in full.
LEMMA LoadedMaterializationAlwaysRuns ==
    ASSUME NEW in, BlockDomain(in)
    PROVE  PS!LoadedMaterializationRuns(in.block)
  <1> DEFINE m == in.block
             n == PS!_normalize_materialization(m)
  <1> SUFFICES ASSUME PS!_materialization_errors(m) = {}
               PROVE  /\ PS!_materialization_errors(n) = {} /\ PS!_normalize_materialization(n) = n
                      /\ m.type = "streaming_table" => PS!write_stream_table(n)
                      /\ m.type = "materialized_view" => PS!_materialized_view_ddl(n) = DOMAIN n \ {"type", "refresh"}
    BY DEF PS!LoadedMaterializationRuns
  <1>0. m.type \in {"table", "streaming_table", "materialized_view"}
    BY DEF BlockDomain
  <1>1. /\ DOMAIN n = DOMAIN m \union DOMAIN PS!Defaults[m.type]
        /\ \A key \in DOMAIN n : n[key] = PS!ValueOf(m, key)
        /\ "type" \in DOMAIN n /\ n.type = m.type
        /\ \A key \in DOMAIN m : PS!ValueOf(m, key) = m[key]
    BY NormalizedBlock DEF PS!ValueOf
  <1>2. PS!_normalize_materialization(n) = n
    BY NormalizedBlock
  <1> HIDE DEF m, n
  <1>3. CASE m.type = "table"
    <2>1. DOMAIN n = DOMAIN m
      BY <1>1, <1>3 DEF PS!Defaults
    <2>2. PS!_materialization_errors(m) = PS!If(DOMAIN m \ PS!MATERIALIZATION_ALLOWED_KEYS["table"] # {}, "unknown key") \union {}
      BY <1>3 DEF PS!_materialization_errors
    <2>3. PS!_materialization_errors(n) = PS!If(DOMAIN n \ PS!MATERIALIZATION_ALLOWED_KEYS["table"] # {}, "unknown key") \union {}
      BY <1>1, <1>3 DEF PS!_materialization_errors
    <2>4. QED
      BY <1>2, <1>3, <2>1, <2>2, <2>3
  <1>4. CASE m.type = "streaming_table"
    <2>1. DOMAIN PS!Defaults[m.type] = {"trigger", "checkpoint", "write_mode"}
      BY <1>4 DEF PS!Defaults
    <2>2. /\ PS!ValueOf(m, "trigger") = IF "trigger" \in DOMAIN m THEN m["trigger"] ELSE "available_now"
          /\ PS!ValueOf(m, "checkpoint") = IF "checkpoint" \in DOMAIN m THEN m["checkpoint"] ELSE "auto"
          /\ PS!ValueOf(m, "write_mode") = IF "write_mode" \in DOMAIN m THEN m["write_mode"] ELSE "append"
      BY <1>4 DEF PS!ValueOf, PS!Defaults
    <2>3. /\ PS!Valid["trigger"] = {"available_now", "interval:30 seconds"} /\ PS!Valid["write_mode"] = {"append", "upsert"}
      BY DEF PS!Valid
    <2>4. /\ DOMAIN m \subseteq {"type", "trigger", "checkpoint", "write_mode", "keys"}
          /\ "trigger" \in DOMAIN m => m["trigger"] \in PS!Valid["trigger"]
          /\ "write_mode" \in DOMAIN m => m["write_mode"] \in PS!Valid["write_mode"]
          /\ "checkpoint" \in DOMAIN m => m["checkpoint"] # ""
          /\ IF PS!ValueOf(m, "write_mode") = "upsert" THEN "keys" \in DOMAIN m /\ m["keys"] # <<>> /\ "" \notin PS!Range(m["keys"])
             ELSE "keys" \notin DOMAIN m
      BY <1>4, StreamBlock
    <2>5. /\ n["trigger"] \in PS!Valid["trigger"] /\ n["write_mode"] \in PS!Valid["write_mode"] /\ n["checkpoint"] # ""
          /\ DOMAIN n \subseteq {"type", "trigger", "checkpoint", "write_mode", "keys"}
          /\ n["write_mode"] = PS!ValueOf(m, "write_mode") /\ PS!ValueOf(n, "write_mode") = n["write_mode"]
      BY <1>1, <2>1, <2>2, <2>3, <2>4 DEF PS!ValueOf
    <2>6. /\ "keys" \in DOMAIN n <=> "keys" \in DOMAIN m
          /\ "keys" \in DOMAIN m => n["keys"] = m["keys"]
      BY <1>1, <2>1
    <2>7. PS!_materialization_errors(n) = {}
      BY <1>1, <1>4, <2>4, <2>5, <2>6, StreamBlock
    <2>8. PS!write_stream_table(n)
      BY <1>1, <2>1, <2>3, <2>4, <2>5, <2>6 DEF PS!write_stream_table, PS!_apply_trigger
    <2>9. QED
      BY <1>2, <1>4, <2>7, <2>8
  <1>5. CASE m.type = "materialized_view"
    <2>1. DOMAIN PS!Defaults[m.type] = {"refresh"}
      BY <1>5 DEF PS!Defaults
    <2>2. PS!ValueOf(m, "refresh") = IF "refresh" \in DOMAIN m THEN m["refresh"] ELSE "auto"
      BY <1>5 DEF PS!ValueOf, PS!Defaults
    <2>3. PS!Valid["refresh"] = {"auto", "never"}
      BY DEF PS!Valid
    <2>4. /\ DOMAIN m \subseteq {"type", "schedule", "comment", "cluster_by", "partition_by", "refresh"}
          /\ "schedule" \in DOMAIN m => m["schedule"] \in PS!Valid["schedule"]
          /\ "refresh" \in DOMAIN m => m["refresh"] \in PS!Valid["refresh"]
          /\ "comment" \in DOMAIN m => m["comment"] # ""
          /\ \A key \in {"cluster_by", "partition_by"} : key \in DOMAIN m => m[key] # <<>> /\ "" \notin PS!Range(m[key])
          /\ ~({"cluster_by", "partition_by"} \subseteq DOMAIN m)
      BY <1>5, ViewBlock
    <2>5. n["refresh"] \in PS!Valid["refresh"]
      BY <1>1, <2>1, <2>2, <2>3, <2>4
    <2>6. \A key \in {"schedule", "comment", "cluster_by", "partition_by"} : (key \in DOMAIN n <=> key \in DOMAIN m) /\ (key \in DOMAIN m => n[key] = m[key])
      BY <1>1, <2>1
    <2>7. PS!_materialization_errors(n) = {}
      BY <1>1, <1>5, <2>1, <2>4, <2>5, <2>6, ViewBlock
    <2>8. PS!_materialized_view_ddl(n) = DOMAIN n \ {"type", "refresh"}
      BY <1>1, <2>1, <2>4, <2>6 DEF PS!_materialized_view_ddl
    <2>9. QED
      BY <1>2, <1>5, <2>7, <2>8
  <1>6. QED
    BY <1>0, <1>3, <1>4, <1>5

------------------------------------------------------------------------------
(* Lemmas on partials that load each other.                                 *)

\* The files are finitely many, and each lists files.
FileDomain(in) == IsFiniteSet(DOMAIN in.graph) /\ \A file \in DOMAIN in.graph : in.graph[file] \in Seq(DOMAIN in.graph)

\* The walks of k steps from a file to the partials of each file on the way.
Walks(graph, k, f) == {p \in [0..k -> DOMAIN graph] : p[0] = f /\ \A i \in 1..k : p[i] \in PS!Range(graph[p[i - 1]])}
\* A walk that meets no file seen before, nor one file twice.
Unseen(p, k, seen) == /\ \A i \in 0..k : p[i] \notin seen
                      /\ \A i, j \in 0..k : p[i] = p[j] => i = j

\* A part of a walk is one.
LEMMA PartOfWalk ==
    ASSUME NEW graph, NEW k \in Nat, NEW f, NEW p \in Walks(graph, k, f), NEW i \in 0..k, NEW n \in 0..(k - i)
    PROVE  [j \in 0..n |-> p[i + j]] \in Walks(graph, n, p[i])
  <1> DEFINE q == [j \in 0..n |-> p[i + j]]
  <1>1. i \in Nat /\ n \in Nat /\ n <= k - i /\ \A j \in 0..n : i + j \in 0..k /\ j \in Nat
    OBVIOUS
  <1>2. p \in [0..k -> DOMAIN graph] /\ \A j \in 1..k : p[j] \in PS!Range(graph[p[j - 1]])
    BY DEF Walks
  <1>3. q \in [0..n -> DOMAIN graph]
    BY <1>1, <1>2
  <1>4. q[0] = p[i]
    BY <1>1
  <1>5. ASSUME NEW j \in 1..n PROVE q[j] \in PS!Range(graph[q[j - 1]])
    <2>1. i + j \in 1..k /\ j \in 0..n /\ j - 1 \in 0..n /\ i + (j - 1) = (i + j) - 1
      BY <1>1
    <2>2. q[j] = p[i + j] /\ q[j - 1] = p[(i + j) - 1]
      BY <2>1
    <2>3. QED
      BY <1>2, <2>1, <2>2
  <1>6. QED
    BY <1>3, <1>4, <1>5 DEF Walks

\* A walk that goes on from where another ends.
GoOn(p, a, q, b) == [i \in 0..(a + b) |-> IF i <= a THEN p[i] ELSE q[i - a]]
\* Two walks, the second from where the first ends, are one.
Joined(graph, a, p, b, q) == \E r \in Walks(graph, a + b, p[0]) : (\A i \in 0..a : r[i] = p[i]) /\ \A i \in 0..b : r[a + i] = q[i]
\* They are, wherever the first starts.
LEMMA WalksJoin ==
    ASSUME NEW graph, NEW a \in Nat, NEW b \in Nat, NEW p, NEW q, p \in Walks(graph, a, p[0]), q \in Walks(graph, b, p[a])
    PROVE  Joined(graph, a, p, b, q)
  <1> DEFINE r == GoOn(p, a, q, b)
  <1>1. /\ p \in [0..a -> DOMAIN graph] /\ \A j \in 1..a : p[j] \in PS!Range(graph[p[j - 1]])
        /\ q \in [0..b -> DOMAIN graph] /\ q[0] = p[a] /\ \A j \in 1..b : q[j] \in PS!Range(graph[q[j - 1]])
    BY DEF Walks
  <1>2. ASSUME NEW i \in 0..a PROVE r[i] = p[i]
    <2>1. i \in 0..(a + b) /\ i <= a
      OBVIOUS
    <2>2. QED
      BY <2>1 DEF GoOn
  <1>3. ASSUME NEW i \in 0..b PROVE r[a + i] = q[i]
    <2>1. a + i \in 0..(a + b) /\ (a + i <= a <=> i = 0) /\ (a + i) - a = i /\ a \in 0..a /\ a + 0 = a
      OBVIOUS
    <2>2. CASE i = 0
      BY <1>1, <1>2, <2>1, <2>2
    <2>3. CASE i # 0
      BY <2>1, <2>3 DEF GoOn
    <2>4. QED
      BY <2>2, <2>3
  <1>4. ASSUME NEW i \in 0..(a + b) PROVE r[i] \in DOMAIN graph
    <2>1. i <= a => i \in 0..a
      OBVIOUS
    <2>2. ~(i <= a) => i - a \in 0..b
      OBVIOUS
    <2>3. r[i] = IF i <= a THEN p[i] ELSE q[i - a]
      BY DEF GoOn
    <2>4. QED
      BY <1>1, <2>1, <2>2, <2>3
  <1>5. r \in [0..(a + b) -> DOMAIN graph]
    <2>1. r = [i \in 0..(a + b) |-> r[i]]
      BY DEF GoOn
    <2> HIDE DEF r
    <2>2. QED
      BY <1>4, <2>1
  <1>6. ASSUME NEW i \in 1..(a + b) PROVE r[i] \in PS!Range(graph[r[i - 1]])
    <2> HIDE DEF r
    <2>1. CASE i <= a
      <3>1. i \in 1..a /\ i \in 0..a /\ i - 1 \in 0..a
        BY <2>1
      <3>2. QED
        BY <1>1, <1>2, <3>1
    <2>2. CASE ~(i <= a)
      <3>1. i - a \in 1..b /\ i - a \in 0..b /\ (i - a) - 1 \in 0..b /\ a + (i - a) = i /\ a + ((i - a) - 1) = i - 1
        BY <2>2
      <3>2. r[i] = q[i - a] /\ r[i - 1] = q[(i - a) - 1]
        <4>1. r[a + (i - a)] = q[i - a] /\ r[a + ((i - a) - 1)] = q[(i - a) - 1]
          BY <1>3, <3>1
        <4>2. QED
          BY <3>1, <4>1
      <3>3. QED
        BY <1>1, <3>1, <3>2
    <2>3. QED
      BY <2>1, <2>2
  <1>7. r[0] = p[0]
    BY <1>1, <1>2
  <1> HIDE DEF r
  <1>8. r \in Walks(graph, a + b, p[0])
    BY <1>5, <1>6, <1>7 DEF Walks
  <1>9. QED
    BY <1>2, <1>3, <1>8 DEF Joined

\* A file and one of its partials are a walk.
LEMMA WalkOfOne ==
    ASSUME NEW graph, NEW f \in DOMAIN graph, NEW g \in DOMAIN graph, g \in PS!Range(graph[f])
    PROVE  LET e == [i \in 0..1 |-> IF i = 0 THEN f ELSE g] IN e \in Walks(graph, 1, f) /\ e[0] = f /\ e[1] = g
  <1> DEFINE e == [i \in 0..1 |-> IF i = 0 THEN f ELSE g]
  <1>1. e \in [0..1 -> DOMAIN graph] /\ e[0] = f /\ e[1] = g
    OBVIOUS
  <1>2. \A i \in 1..1 : i = 1 /\ i - 1 = 0
    OBVIOUS
  <1> HIDE DEF e
  <1>3. \A i \in 1..1 : e[i] \in PS!Range(graph[e[i - 1]])
    BY <1>1, <1>2
  <1>4. e \in Walks(graph, 1, f)
    BY <1>1, <1>3 DEF Walks
  <1>5. QED
    BY <1>1, <1>4 DEF e

\* The schema loader counts as this one does.
LEMMA FilesCount == \A S : PS!Cardinality(S) = Cardinality(S)
  BY DEF PS!Cardinality, Cardinality

\* What it is to be accepted, of a file and the files above it.
LEMMA AcceptedOnes ==
    ASSUME NEW graph, NEW depth, NEW deeper, NEW file \in DOMAIN graph, NEW seen \in SUBSET DOMAIN graph
    PROVE  <<file, seen>> \in PS!Accepted(graph, depth, deeper) <=>
               file \notin seen /\ (depth > 0 => \A i \in DOMAIN graph[file] : <<graph[file][i], seen \union {file}>> \in deeper)
  <1> DEFINE P(call) == call[1] \notin call[2] /\ (depth > 0 => \A i \in DOMAIN graph[call[1]] : <<graph[call[1]][i], call[2] \union {call[1]}>> \in deeper)
             c == <<file, seen>>
             X == (DOMAIN graph) \X (SUBSET DOMAIN graph)
  <1>1. PS!Accepted(graph, depth, deeper) = {call \in X : P(call)}
    BY DEF PS!Accepted
  <1>2. c \in X /\ c[1] = file /\ c[2] = seen
    OBVIOUS
  <1>3. P(c) <=> file \notin seen /\ (depth > 0 => \A i \in DOMAIN graph[file] : <<graph[file][i], seen \union {file}>> \in deeper)
    <2> HIDE DEF c
    <2>1. QED
      BY <1>2
  <1> HIDE DEF P, X, c
  <1>4. c \in {call \in X : P(call)} <=> P(c)
    BY <1>2
  <1>5. QED
    BY <1>1, <1>3, <1>4 DEF c

\* They are calls.
LEMMA AcceptedCalls == \A graph, depth, deeper : PS!Accepted(graph, depth, deeper) \in SUBSET ((DOMAIN graph) \X (SUBSET DOMAIN graph))
  <1> TAKE graph, depth, deeper
  <1> DEFINE P(call) == call[1] \notin call[2] /\ (depth > 0 => \A i \in DOMAIN graph[call[1]] : <<graph[call[1]][i], call[2] \union {call[1]}>> \in deeper)
             X == (DOMAIN graph) \X (SUBSET DOMAIN graph)
  <1>1. PS!Accepted(graph, depth, deeper) = {call \in X : P(call)}
    BY DEF PS!Accepted
  <1> HIDE DEF P
  <1>2. QED
    BY <1>1

\* At depth 0 a call is accepted unless its file is above itself; at the others
\* the calls of its partials are accepted too.
LEMMA LevelsOfLoading ==
    ASSUME NEW in, FileDomain(in)
    PROVE  LET load == PS!Loading(in.graph)
           IN  \A file \in DOMAIN in.graph, seen \in SUBSET DOMAIN in.graph :
                  /\ <<file, seen>> \in load[0] <=> file \notin seen
                  /\ \A d \in 1..Cardinality(DOMAIN in.graph) :
                        <<file, seen>> \in load[d] <=>
                            /\ file \notin seen
                            /\ \A i \in DOMAIN in.graph[file] : <<in.graph[file][i], seen \union {file}>> \in load[d - 1]
  <1> DEFINE graph == in.graph
             F == DOMAIN graph
             N == Cardinality(F)
             load == CHOOSE f : f = [depth \in 0..N |-> PS!Accepted(graph, depth, IF depth = 0 THEN {} ELSE f[depth - 1])]
  <1>1. N \in Nat
    BY FS_CardinalityType DEF FileDomain
  <1>2. PS!Loading(graph) = load
    <2>1. PS!Cardinality(F) = N
      BY FilesCount
    <2>2. PS!Loading(graph) = CHOOSE f : f = [depth \in 0..PS!Cardinality(F) |-> PS!Accepted(graph, depth, IF depth = 0 THEN {} ELSE f[depth - 1])]
      BY DEF PS!Loading
    <2>3. QED
      BY <2>1, <2>2
  <1> HIDE DEF N, graph
  <1>3. \E f : f = [depth \in 0..N |-> PS!Accepted(graph, depth, IF depth = 0 THEN {} ELSE f[depth - 1])]
    <2> DEFINE S == SUBSET (F \X SUBSET F)
               a == PS!Accepted(graph, 0, {})
               B == [i \in 1..N |-> [x \in S |-> PS!Accepted(graph, i, x)]]
    <2>1. a \in S /\ \A i, x : PS!Accepted(graph, i, x) \in S
      BY AcceptedCalls
    <2> HIDE DEF S, a
    <2>2. StepsKeep(B, S, N)
      BY <2>1 DEF StepsKeep
    <2>3. PICK f : Iterates(f, B, S, a, N)
      <3> HIDE DEF B
      <3>1. QED
        BY <1>1, <2>1, <2>2, Iteration
    <2>4. f \in [0..N -> S] /\ f[0] = a /\ \A i \in 1..N : f[i] = PS!Accepted(graph, i, f[i - 1])
      <3>1. \A i \in 1..N : i - 1 \in 0..N
        BY <1>1
      <3>2. f \in [0..N -> S] /\ f[0] = a /\ \A i \in 1..N : f[i] = B[i][f[i - 1]]
        BY <2>3 DEF Iterates
      <3>3. ASSUME NEW i \in 1..N PROVE f[i] = PS!Accepted(graph, i, f[i - 1])
        <4>1. f[i - 1] \in S
          BY <3>1, <3>2
        <4>2. B[i][f[i - 1]] = PS!Accepted(graph, i, f[i - 1])
          BY <4>1
        <4>3. QED
          BY <3>2, <4>2
      <3>4. QED
        BY <3>2, <3>3
    <2>5. \A i \in 0..N : f[i] = PS!Accepted(graph, i, IF i = 0 THEN {} ELSE f[i - 1])
      <3>1. \A i \in 0..N : (i = 0 \/ i \in 1..N) /\ (i \in 1..N => i # 0)
        BY <1>1
      <3>2. QED
        BY <2>4, <3>1 DEF a
    <2>6. f = [depth \in 0..N |-> PS!Accepted(graph, depth, IF depth = 0 THEN {} ELSE f[depth - 1])]
      <3>1. f = [depth \in 0..N |-> f[depth]]
        BY <2>4
      <3>2. QED
        BY <2>5, <3>1
    <2>7. QED
      BY <2>6
  <1>4. load = [depth \in 0..N |-> PS!Accepted(graph, depth, IF depth = 0 THEN {} ELSE load[depth - 1])]
    BY <1>3
  <1> HIDE DEF load
  <1>5. ASSUME NEW file \in F, NEW seen \in SUBSET F
        PROVE  /\ <<file, seen>> \in load[0] <=> file \notin seen
               /\ \A d \in 1..N : <<file, seen>> \in load[d] <=>
                      file \notin seen /\ \A i \in DOMAIN graph[file] : <<graph[file][i], seen \union {file}>> \in load[d - 1]
    <2>1. 0 \in 0..N /\ ~(0 > 0)
      BY <1>1
    <2>2. load[0] = PS!Accepted(graph, 0, {})
      BY <1>4, <2>1
    <2>3. <<file, seen>> \in load[0] <=> file \notin seen
      BY <2>1, <2>2, AcceptedOnes
    <2>4. ASSUME NEW d \in 1..N
          PROVE <<file, seen>> \in load[d] <=>
                    file \notin seen /\ \A i \in DOMAIN graph[file] : <<graph[file][i], seen \union {file}>> \in load[d - 1]
      <3>1. d \in 0..N /\ d > 0 /\ d # 0
        BY <1>1
      <3>2. load[d] = PS!Accepted(graph, d, load[d - 1])
        BY <1>4, <3>1
      <3>3. <<file, seen>> \in PS!Accepted(graph, d, load[d - 1]) <=>
                file \notin seen /\ (d > 0 => \A i \in DOMAIN graph[file] : <<graph[file][i], seen \union {file}>> \in load[d - 1])
        BY AcceptedOnes
      <3>4. QED
        BY <3>1, <3>2, <3>3
    <2>5. QED
      BY <2>3, <2>4
  <1>6. QED
    BY <1>2, <1>5 DEF N, graph

\* The call of a file is accepted down to a depth exactly when no walk that long meets
\* one of the files above it, or one file twice.
LEMMA AcceptedWalks ==
    ASSUME NEW in, FileDomain(in)
    PROVE  \A d \in 0..Cardinality(DOMAIN in.graph), f \in DOMAIN in.graph, seen \in SUBSET DOMAIN in.graph :
               <<f, seen>> \in PS!Loading(in.graph)[d] <=> \A k \in 0..d : \A p \in Walks(in.graph, k, f) : Unseen(p, k, seen)
  <1> DEFINE graph == in.graph
             F == DOMAIN graph
             N == Cardinality(F)
             load == PS!Loading(graph)
             Agreed(d) == \A f \in F, seen \in SUBSET F :
                            <<f, seen>> \in load[d] <=> \A k \in 0..d : \A p \in Walks(graph, k, f) : Unseen(p, k, seen)
             T == {d \in Nat : d <= N => Agreed(d)}
  <1>1. N \in Nat
    BY FS_CardinalityType DEF FileDomain
  <1>2. \A f \in F, seen \in SUBSET F :
           /\ <<f, seen>> \in load[0] <=> f \notin seen
           /\ \A d \in 1..N : <<f, seen>> \in load[d] <=>
                  f \notin seen /\ \A i \in DOMAIN graph[f] : <<graph[f][i], seen \union {f}>> \in load[d - 1]
    BY LevelsOfLoading
  <1>3. \A f \in F : graph[f] \in Seq(F)
    BY DEF FileDomain
  <1> HIDE DEF load, graph, N
  <1>4. ASSUME NEW f \in F PROVE \E p \in Walks(graph, 0, f) : p[0] = f
    <2> DEFINE p == [i \in 0..0 |-> f]
    <2>1. p \in [0..0 -> F] /\ p[0] = f /\ 1..0 = {}
      OBVIOUS
    <2> HIDE DEF p
    <2>2. QED
      BY <2>1 DEF Walks
  <1>5. Agreed(0)
    <2> SUFFICES ASSUME NEW f \in F, NEW seen \in SUBSET F
                 PROVE <<f, seen>> \in load[0] <=> \A k \in 0..0 : \A p \in Walks(graph, k, f) : Unseen(p, k, seen)
      OBVIOUS
    <2>1. \A k \in 0..0 : k = 0
      OBVIOUS
    <2>2. \A p \in Walks(graph, 0, f) : p[0] = f
      BY DEF Walks
    <2>3. \A p \in Walks(graph, 0, f) : Unseen(p, 0, seen) <=> f \notin seen
      BY <2>1, <2>2 DEF Unseen
    <2>4. QED
      BY <1>2, <1>4, <2>1, <2>3
  <1>6. ASSUME NEW d \in Nat, d + 1 <= N, Agreed(d) PROVE Agreed(d + 1)
    <2> SUFFICES ASSUME NEW f \in F, NEW seen \in SUBSET F
                 PROVE <<f, seen>> \in load[d + 1] <=> \A k \in 0..(d + 1) : \A p \in Walks(graph, k, f) : Unseen(p, k, seen)
      OBVIOUS
    <2> DEFINE above == seen \union {f}
    <2>1. d + 1 \in 1..N /\ (d + 1) - 1 = d
      BY <1>1, <1>6
    <2>2. <<f, seen>> \in load[d + 1] <=> f \notin seen /\ \A i \in DOMAIN graph[f] : <<graph[f][i], above>> \in load[d]
      BY <1>2, <2>1
    <2>3. \A i \in DOMAIN graph[f] : graph[f][i] \in F /\ graph[f][i] \in PS!Range(graph[f])
      BY <1>3 DEF PS!Range
    <2>4. \A g \in PS!Range(graph[f]) : \E i \in DOMAIN graph[f] : g = graph[f][i]
      BY DEF PS!Range
    <2>5. above \in SUBSET F /\ f \in above /\ seen \subseteq above
      OBVIOUS
    <2>6. \A g \in F : <<g, above>> \in load[d] <=> \A k \in 0..d : \A q \in Walks(graph, k, g) : Unseen(q, k, above)
      BY <1>6, <2>5
    <2> HIDE DEF Agreed
    <2>7. ASSUME <<f, seen>> \in load[d + 1], NEW k \in 0..(d + 1), NEW p \in Walks(graph, k, f) PROVE Unseen(p, k, seen)
      <3>1. f \notin seen /\ \A g \in PS!Range(graph[f]) : \A n \in 0..d : \A q \in Walks(graph, n, g) : Unseen(q, n, above)
        BY <2>2, <2>3, <2>4, <2>6, <2>7
      <3>2. p[0] = f /\ \A j \in 1..k : p[j] \in PS!Range(graph[p[j - 1]])
        BY DEF Walks
      <3>3. CASE k = 0
        <4>1. \A j \in 0..k : j = 0
          BY <3>3
        <4>2. QED
          BY <3>1, <3>2, <4>1 DEF Unseen
      <3>4. CASE k # 0
        <4> DEFINE q == [j \in 0..(k - 1) |-> p[1 + j]]
        <4>1. k - 1 \in 0..d /\ k \in Nat /\ 1 \in 0..k /\ k - 1 \in 0..(k - 1) /\ 1 \in 1..k /\ 1 - 1 = 0
          BY <3>4
        <4>2. q \in Walks(graph, k - 1, p[1])
          BY <4>1, PartOfWalk
        <4>3. p[1] \in PS!Range(graph[f])
          BY <3>2, <4>1
        <4>4. Unseen(q, k - 1, above)
          BY <3>1, <4>1, <4>2, <4>3
        <4>5. \A j \in 1..k : j - 1 \in 0..(k - 1) /\ 1 + (j - 1) = j
          BY <4>1
        <4>6. \A j \in 1..k : q[j - 1] = p[j]
          BY <4>5
        <4> HIDE DEF q, above
        <4>7. \A j \in 1..k : p[j] \notin above
          BY <4>4, <4>5, <4>6 DEF Unseen
        <4>8. ASSUME NEW i \in 1..k, NEW j \in 1..k, p[i] = p[j] PROVE i = j
          <5>1. q[i - 1] = q[j - 1] /\ i - 1 \in 0..(k - 1) /\ j - 1 \in 0..(k - 1)
            BY <4>5, <4>6, <4>8
          <5>2. i - 1 = j - 1
            BY <4>4, <5>1 DEF Unseen
          <5>3. QED
            BY <5>2
        <4>9. \A j \in 0..k : j = 0 \/ j \in 1..k
          OBVIOUS
        <4>10. \A j \in 0..k : p[j] \notin seen
          BY <2>5, <3>1, <3>2, <4>7, <4>9
        <4>11. ASSUME NEW i \in 0..k, NEW j \in 0..k, p[i] = p[j] PROVE i = j
          <5>1. \A l \in 1..k : p[l] # f
            BY <2>5, <4>7
          <5>2. QED
            BY <3>2, <4>8, <4>9, <4>11, <5>1
        <4>12. QED
          BY <4>10, <4>11 DEF Unseen
      <3>5. QED
        BY <3>3, <3>4
    <2>8. ASSUME \A k \in 0..(d + 1) : \A p \in Walks(graph, k, f) : Unseen(p, k, seen) PROVE <<f, seen>> \in load[d + 1]
      <3>1. f \notin seen
        <4>1. PICK p \in Walks(graph, 0, f) : p[0] = f
          BY <1>4
        <4>2. 0 \in 0..(d + 1) /\ 0 \in 0..0
          OBVIOUS
        <4>3. QED
          BY <2>8, <4>1, <4>2 DEF Unseen
      <3>2. ASSUME NEW g \in F, g \in PS!Range(graph[f]), NEW k \in 0..d, NEW q \in Walks(graph, k, g) PROVE Unseen(q, k, above)
        <4> DEFINE e == [i \in 0..1 |-> IF i = 0 THEN f ELSE g]
        <4>1. e \in Walks(graph, 1, f) /\ e[0] = f /\ e[1] = g
          BY <3>2, WalkOfOne
        <4> HIDE DEF e
        <4>2. k \in Nat /\ 1 + k \in 0..(d + 1) /\ 0 \in 0..1 /\ 0 \in 0..(1 + k) /\ \A i \in 0..k : 1 + i \in 0..(1 + k) /\ 1 + i # 0
          OBVIOUS
        <4>3. PICK r \in Walks(graph, 1 + k, f) : (\A i \in 0..1 : r[i] = e[i]) /\ \A i \in 0..k : r[1 + i] = q[i]
          <5>1. Joined(graph, 1, e, k, q)
            BY <4>1, <4>2, WalksJoin
          <5>2. QED
            BY <4>1, <5>1 DEF Joined
        <4>4. Unseen(r, 1 + k, seen)
          BY <2>8, <4>2, <4>3
        <4>5. r[0] = f
          BY <4>1, <4>2, <4>3
        <4>6. \A i \in 0..k : q[i] \notin seen /\ q[i] # f
          BY <4>2, <4>3, <4>4, <4>5 DEF Unseen
        <4>7. ASSUME NEW i \in 0..k, NEW j \in 0..k, q[i] = q[j] PROVE i = j
          <5>1. 1 + i \in 0..(1 + k) /\ 1 + j \in 0..(1 + k) /\ r[1 + i] = r[1 + j]
            BY <4>2, <4>3, <4>7
          <5>2. 1 + i = 1 + j
            BY <4>4, <5>1 DEF Unseen
          <5>3. QED
            BY <5>2
        <4>8. QED
          BY <4>6, <4>7 DEF Unseen
      <3>3. QED
        BY <2>2, <2>3, <2>6, <3>1, <3>2
    <2>9. QED
      BY <2>7, <2>8
  <1>7. 0 \in T /\ \A m \in Nat : m \in T => m + 1 \in T
    <2> HIDE DEF Agreed
    <2>1. 0 \in T
      BY <1>5
    <2>2. ASSUME NEW m \in Nat, m \in T PROVE m + 1 \in T
      <3>1. m + 1 <= N => m <= N
        BY <1>1
      <3>2. m + 1 <= N => Agreed(m + 1)
        BY <1>6, <2>2, <3>1
      <3>3. QED
        BY <3>2
    <2>3. QED
      BY <2>1, <2>2
  <1>8. \A d \in Nat : d \in T
    <2> HIDE DEF T
    <2>1. QED
      BY <1>7, Induction
  <1>9. \A d \in 0..N : Agreed(d)
    <2> HIDE DEF Agreed
    <2>1. QED
      BY <1>1, <1>8
  <1>10. QED
    BY <1>9 DEF load, graph, N

\* A root loads when no walk from it meets a file twice.
LEMMA LoadedRoots ==
    ASSUME NEW in, FileDomain(in), NEW root \in DOMAIN in.graph
    PROVE  PS!load_schema(in.graph, root) <=>
               \A k \in 0..Cardinality(DOMAIN in.graph) : \A p \in Walks(in.graph, k, root) :
                   \A i, j \in 0..k : p[i] = p[j] => i = j
  <1> DEFINE graph == in.graph
             N == Cardinality(DOMAIN graph)
             Walked == \A k \in 0..N : \A p \in Walks(graph, k, root) : \A i, j \in 0..k : p[i] = p[j] => i = j
  <1>1. N \in Nat /\ PS!Cardinality(DOMAIN graph) = N
    BY FS_CardinalityType, FilesCount DEF FileDomain
  <1>2. {} \in SUBSET DOMAIN graph /\ N \in 0..N
    BY <1>1
  <1>3. <<root, {}>> \in PS!Loading(graph)[N] <=> \A k \in 0..N : \A p \in Walks(graph, k, root) : Unseen(p, k, {})
    BY <1>2, AcceptedWalks
  <1> HIDE DEF graph, N
  <1>4. ASSUME NEW k, NEW p PROVE Unseen(p, k, {}) <=> \A i, j \in 0..k : p[i] = p[j] => i = j
    BY DEF Unseen
  <1>5. PS!load_schema(graph, root) <=> <<root, {}>> \in PS!Loading(graph)[N]
    BY <1>1 DEF PS!load_schema
  <1>6. (\A k \in 0..N : \A p \in Walks(graph, k, root) : Unseen(p, k, {})) <=> Walked
    BY <1>4
  <1>7. PS!load_schema(graph, root) <=> Walked
    BY <1>3, <1>5, <1>6
  <1>8. QED
    BY <1>7 DEF graph, N

\* To reach a file is to walk to it.
LEMMA ReachedByWalks ==
    ASSUME NEW in, NEW f, NEW g
    PROVE  PS!Reaches(in.graph, f, g) <=>
               \E k \in 1..Cardinality(DOMAIN in.graph) : \E p \in Walks(in.graph, k, f) : p[k] = g
  <1> DEFINE graph == in.graph
             N == Cardinality(DOMAIN graph)
  <1>1. PS!Cardinality(DOMAIN graph) = N
    BY FilesCount
  <1> HIDE DEF N
  <1>2. PS!Reaches(graph, f, g) <=>
            \E k \in 1..N : \E p \in [0..k -> DOMAIN graph] :
                p[0] = f /\ p[k] = g /\ \A i \in 1..k : p[i] \in PS!Range(graph[p[i - 1]])
    BY <1>1 DEF PS!Reaches
  <1> HIDE DEF graph
  <1>3. ASSUME NEW k \in 1..N
        PROVE  (\E p \in [0..k -> DOMAIN graph] : p[0] = f /\ p[k] = g /\ \A i \in 1..k : p[i] \in PS!Range(graph[p[i - 1]]))
                   <=> \E p \in Walks(graph, k, f) : p[k] = g
    BY DEF Walks
  <1>4. QED
    BY <1>2, <1>3 DEF graph, N

\* A cycle that a root reaches is a file met twice within as many steps as there are
\* files, and a file met twice is on a cycle that the root reaches.
LEMMA CyclesAreAlwaysRefused ==
    ASSUME NEW in, FileDomain(in)
    PROVE  \A root \in DOMAIN in.graph : PS!CyclesAreRefused(in.graph, root)
  <1> SUFFICES ASSUME NEW root \in DOMAIN in.graph
               PROVE  PS!CyclesAreRefused(in.graph, root)
    OBVIOUS
  <1> DEFINE graph == in.graph
             F == DOMAIN graph
             N == Cardinality(F)
             Twice(p, k) == \E i, j \in 0..k : i < j /\ p[i] = p[j]
             Loads == PS!load_schema(graph, root)
  <1>1. N \in Nat /\ IsFiniteSet(F)
    BY FS_CardinalityType DEF FileDomain
  <1>2. Loads <=> \A k \in 0..N : \A p \in Walks(graph, k, root) : \A i, j \in 0..k : p[i] = p[j] => i = j
    BY LoadedRoots
  <1>3. \A f, g : PS!Reaches(graph, f, g) <=> \E k \in 1..N : \E p \in Walks(graph, k, f) : p[k] = g
    BY ReachedByWalks
  <1> HIDE DEF N, Loads
  <1>4. ASSUME Loads, NEW f \in F, f = root \/ PS!Reaches(graph, root, f), PS!Reaches(graph, f, f) PROVE FALSE
    <2>1. PICK b \in 1..N : \E q \in Walks(graph, b, f) : q[b] = f
      BY <1>3, <1>4
    <2>2. PICK q \in Walks(graph, b, f) : q[b] = f
      BY <2>1
    <2>3. \E a \in 0..N : \E p \in Walks(graph, a, root) : p[a] = f
      <3>1. CASE f = root
        <4> DEFINE p == [i \in 0..0 |-> f]
        <4>1. p \in [0..0 -> F] /\ p[0] = f /\ 1..0 = {} /\ 0 \in 0..N
          BY <1>1
        <4> HIDE DEF p
        <4>2. p \in Walks(graph, 0, root)
          BY <3>1, <4>1 DEF Walks
        <4>3. QED
          BY <4>1, <4>2
      <3>2. CASE PS!Reaches(graph, root, f)
        <4>1. \A k \in 1..N : k \in 0..N
          BY <1>1
        <4>2. QED
          BY <1>3, <3>2, <4>1
      <3>3. QED
        BY <1>4, <3>1, <3>2
    <2>4. PICK a \in 0..N : \E p \in Walks(graph, a, root) : p[a] = f
      BY <2>3
    <2>5. PICK p \in Walks(graph, a, root) : p[a] = f
      BY <2>4
    <2>6. /\ a \in Nat /\ b \in Nat /\ 0 \in 0..b /\ b \in 0..b /\ a \in 0..a /\ a + 0 = a
          /\ a \in 0..(a + b) /\ a + b \in 0..(a + b) /\ a # a + b /\ a + b \in Nat
      BY <1>1
    <2>7. p[0] = root /\ q[0] = f
      BY DEF Walks
    <2>8. Joined(graph, a, p, b, q)
      BY <2>5, <2>6, <2>7, WalksJoin
    <2>9. PICK r \in Walks(graph, a + b, root) : (\A i \in 0..a : r[i] = p[i]) /\ \A i \in 0..b : r[a + i] = q[i]
      BY <2>7, <2>8 DEF Joined
    <2>10. r[a] = f /\ r[a + b] = f
      BY <2>2, <2>5, <2>6, <2>9
    <2>11. CASE a + b <= N
      <3>1. a + b \in 0..N
        BY <2>6, <2>11
      <3>2. QED
        BY <1>2, <1>4, <2>6, <2>10, <3>1
    <2>12. CASE ~(a + b <= N)
      <3> DEFINE s == [j \in 0..N |-> r[0 + j]]
      <3>1. 0 \in 0..(a + b) /\ N \in 0..((a + b) - 0) /\ N \in 0..N
        BY <1>1, <2>6, <2>12
      <3>2. s \in Walks(graph, N, r[0])
        BY <2>6, <3>1, PartOfWalk
      <3>3. r[0] = root
        BY DEF Walks
      <3> HIDE DEF s
      <3>4. s \in [0..N -> F] /\ \A i, j \in 0..N : s[i] = s[j] => i = j
        <4>1. s \in [0..N -> F]
          BY <3>2 DEF Walks
        <4>2. QED
          BY <1>2, <1>4, <3>1, <3>2, <3>3, <4>1
      <3>5. IsFiniteSet(0..N) /\ Cardinality(0..N) = N + 1
        BY <1>1, FS_Interval
      <3>6. Cardinality(F) < Cardinality(0..N)
        BY <1>1, <3>5 DEF N
      <3>7. \E i, j \in 0..N : i # j /\ s[i] = s[j]
        <4> HIDE DEF F
        <4>1. QED
          BY <1>1, <3>4, <3>5, <3>6, FS_PigeonHole
      <3>8. QED
        BY <3>4, <3>7
    <2>13. QED
      BY <2>11, <2>12
  <1>5. ASSUME ~Loads PROVE \E f \in F : (f = root \/ PS!Reaches(graph, root, f)) /\ PS!Reaches(graph, f, f)
    <2>1. PICK k \in 0..N : \E p \in Walks(graph, k, root) : \E i, j \in 0..k : p[i] = p[j] /\ i # j
      BY <1>2, <1>5
    <2>2. PICK p \in Walks(graph, k, root) : \E i, j \in 0..k : p[i] = p[j] /\ i # j
      BY <2>1
    <2>3. \E i, j \in 0..k : p[i] = p[j] /\ i < j
      <3>1. \A i, j \in 0..k : i # j => i < j \/ j < i
        OBVIOUS
      <3>2. QED
        BY <2>2, <3>1
    <2>4. PICK i \in 0..k, j \in 0..k : p[i] = p[j] /\ i < j
      BY <2>3
    <2>5. /\ k \in Nat /\ i \in Nat /\ j - i \in 1..N /\ j - i \in 0..(k - i) /\ j - i \in 0..(j - i) /\ i + (j - i) = j
          /\ 0 \in 0..k /\ i \in 0..(k - 0) /\ i \in 0..i /\ 0 + i = i /\ (i # 0 => i \in 1..N)
      BY <1>1, <2>4
    <2>6. p \in [0..k -> F] /\ p[0] = root
      BY DEF Walks
    <2> DEFINE q == [l \in 0..(j - i) |-> p[i + l]]
               s == [l \in 0..i |-> p[0 + l]]
               n == j - i
    <2>7. q \in Walks(graph, n, p[i]) /\ q[n] = p[i]
      <3>1. q \in Walks(graph, j - i, p[i])
        BY <2>5, PartOfWalk
      <3>2. QED
        BY <2>4, <2>5, <3>1
    <2>8. s \in Walks(graph, i, root) /\ s[i] = p[i]
      <3>1. s \in Walks(graph, i, p[0])
        BY <2>5, PartOfWalk
      <3>2. QED
        BY <2>5, <2>6, <3>1
    <2> HIDE DEF q, s
    <2>9. PS!Reaches(graph, p[i], p[i])
      BY <1>3, <2>5, <2>7
    <2>10. p[i] = root \/ PS!Reaches(graph, root, p[i])
      BY <1>3, <2>5, <2>6, <2>8
    <2>11. QED
      BY <2>6, <2>9, <2>10
  <1>6. Loads <=> \A f \in F : (f = root \/ PS!Reaches(graph, root, f)) => ~PS!Reaches(graph, f, f)
    BY <1>4, <1>5
  <1>7. QED
    BY <1>6 DEF Loads, PS!CyclesAreRefused

------------------------------------------------------------------------------
J == INSTANCE CandidateJudgement

\* A set that an injection maps onto another has its number of members.
LEMMA CountIsKept ==
    ASSUME NEW S, NEW T, NEW h \in [S -> T], \A x, y \in S : h[x] = h[y] => x = y,
           NEW C, C \subseteq S, IsFiniteSet(C),
           NEW D, \A d \in D : \E x \in C : h[x] = d, \A x \in C : h[x] \in D
    PROVE  IsFiniteSet(D) /\ Cardinality(D) = Cardinality(C)
  <1>1. {h[x] : x \in C} = D
    OBVIOUS
  <1>2. \A x, y \in C : h[x] = h[y] => x = y
    OBVIOUS
  <1>3. QED
    BY <1>1, <1>2, CountOfNames

(* Candidates, for any proposal, evidence and thresholds.                   *)

\* The joins that the parser tells apart, as many runs as the thresholds ask
\* for, and their results.
JudgementDomain(in) ==
    /\ in.p.join \in {"declared", "undeclared", "no_key", "no_alias"}
    /\ in.stored \in Seq(STRING) /\ in.now \in Seq(STRING) /\ in.now # <<>>
    /\ in.t.runs \in Nat \ {0} /\ in.t.scale \in Nat \ {0}

\* Candidates are counted as this module does.
LEMMA SameCandidateCount == \A S : J!Cardinality(S) = Cardinality(S)
  BY DEF J!Cardinality, Cardinality

\* A coherent candidate waives no safety, and what may be waived is not safety.
LEMMA NoRouteEverWaivesSafety ==
    ASSUME NEW in, JudgementDomain(in)
    PROVE  J!NoRouteWaivesSafety(in)
  <1> DEFINE c == J!coherence(in.p, in.gate)
  <1> SUFFICES ASSUME c \subseteq J!WAIVABLE_REASONS
               PROVE  in.gate /\ in.p.tables /\ in.p.join \in {"declared", "undeclared"} /\ ~in.p.fanout
    <2>1. J!Judge(in.p, in.gate, in.e, in.stored, in.now, in.execute, in.t) = "validated" => c = {}
      BY DEF J!Judge
    <2>2. QED
      BY <2>1 DEF J!NoRouteWaivesSafety, J!Approvable
  <1>1. \A x \in {"invalid_schema", "missing_table", "join_without_key", "invalid_after_retries",
                  "unsafe_fanout", "source_not_certified"} : x \notin c
    BY DEF J!WAIVABLE_REASONS
  <1>2. in.p.parses /\ in.p.aggregate
    BY <1>1 DEF J!coherence
  <1>3. in.p.tables /\ in.p.join # "no_key" /\ in.p.join # "no_alias"
    BY <1>1, <1>2 DEF J!coherence
  <1>4. ~in.p.fanout
    BY <1>1, <1>2, <1>3 DEF J!coherence
  <1>5. in.gate
    BY <1>1, <1>2 DEF J!coherence
  <1>6. QED
    BY <1>3, <1>4, <1>5 DEF JudgementDomain

\* The best result of some runs is the result of that many.
LEMMA BestIsAResult ==
    ASSUME NEW hashes \in Seq(STRING)
    PROVE  /\ J!Best(hashes) \in Nat
           /\ J!Best(hashes) = 0 \/ \E h \in J!ToSet(hashes) \ {"error"} :
                 J!Best(hashes) = Cardinality({i \in DOMAIN hashes : hashes[i] = h})
  <1> DEFINE places(h) == {i \in DOMAIN hashes : hashes[i] = h}
             counts == {Cardinality(places(h)) : h \in J!ToSet(hashes) \ {"error"}} \union {0}
  <1>1. \A h : Cardinality(places(h)) \in Nat /\ Cardinality(places(h)) <= Len(hashes)
    <2> TAKE h
    <2>1. IsFiniteSet(1..Len(hashes)) /\ Cardinality(1..Len(hashes)) = Len(hashes)
      BY LengthCounts
    <2>2. places(h) \subseteq 1..Len(hashes)
      OBVIOUS
    <2> HIDE DEF places
    <2>3. QED
      BY <2>1, <2>2, FS_Subset, FS_CardinalityType
  <1>2. counts \subseteq Nat /\ counts # {} /\ \A x \in counts : x <= Len(hashes)
    <2> HIDE DEF places
    <2>1. Len(hashes) \in Nat
      OBVIOUS
    <2>2. QED
      BY <1>1, <2>1
  <1>3. J!Best(hashes) = CHOOSE x \in counts : \A y \in counts : x >= y
    BY SameCandidateCount DEF J!Best, J!Max
  <1>4. J!Best(hashes) \in counts
    <2> HIDE DEF counts
    <2>1. \E x \in counts : \A y \in counts : x >= y
      <3>1. Len(hashes) \in Nat
        OBVIOUS
      <3>2. QED
        BY <1>2, <3>1, GreatestNatural
    <2>2. QED
      BY <1>3, <2>1
  <1>5. QED
    BY <1>2, <1>4

\* At the strictest threshold stable runs have one result.
LEMMA StableRunsAgree ==
    ASSUME NEW hashes \in Seq(STRING), hashes # <<>>, NEW t, t.scale \in Nat \ {0}, t.stability = t.scale,
           J!Stable(hashes, t)
    PROVE  \E h \in J!ToSet(hashes) \ {"error"} : \A i \in DOMAIN hashes : hashes[i] = h
  <1> DEFINE b == J!Best(hashes)
             n == Len(hashes)
  <1>1. b \in Nat /\ n \in Nat \ {0}
    BY BestIsAResult
  <1>2. b * t.scale >= t.scale * n
    BY DEF J!Stable
  <1>3. b >= n
    <2> HIDE DEF b, n
    <2> SUFFICES ASSUME b + 1 <= n
                 PROVE  FALSE
      BY <1>1
    <2>1. (b + 1) * t.scale <= n * t.scale
      BY <1>1
    <2>2. (b + 1) * t.scale = b * t.scale + t.scale /\ n * t.scale = t.scale * n
      BY <1>1
    <2>3. b * t.scale \in Nat /\ t.scale * n \in Nat
      BY <1>1
    <2>4. QED
      BY <1>2, <2>1, <2>2, <2>3
  <1>4. PICK h \in J!ToSet(hashes) \ {"error"} : b = Cardinality({i \in DOMAIN hashes : hashes[i] = h})
    <2>1. b # 0
      <3> HIDE DEF b, n
      <3>1. QED
        BY <1>1, <1>3
    <2>2. QED
      BY <2>1, BestIsAResult
  <1> DEFINE places == {i \in DOMAIN hashes : hashes[i] = h}
  <1>5. IsFiniteSet(1..n) /\ Cardinality(1..n) = n /\ places \subseteq 1..n
    BY <1>1, LengthCounts
  <1>6. Cardinality(places) = n
    <2>1. Cardinality(places) <= n
      BY <1>5, FS_Subset
    <2>2. QED
      BY <1>1, <1>3, <1>4, <2>1
  <1>7. places = 1..n
    BY <1>5, <1>6, FS_Subset
  <1>8. QED
    BY <1>7

\* What is validated was asked for often enough, by enough, and is reproducible.
LEMMA ValidatedIsAlwaysBackedUp ==
    ASSUME NEW in, JudgementDomain(in)
    PROVE  J!ValidatedIsBackedUp(in)
  <1> DEFINE verdict == J!stability(in.stored, in.now, in.execute, in.t)
             from == Len(in.stored) - in.t.runs + 1
             last == SubSeq(in.stored, from, Len(in.stored))
             used == IF in.execute THEN in.now ELSE last
  <1> SUFFICES ASSUME J!Judge(in.p, in.gate, in.e, in.stored, in.now, in.execute, in.t) = "validated"
               PROVE  /\ in.e.requests >= in.t.requests /\ in.e.requesters >= in.t.requesters
                      /\ in.t.stability = in.t.scale =>
                            \E h \in J!ToSet(used) \ {"error"} : \A i \in DOMAIN used : used[i] = h
    BY DEF J!ValidatedIsBackedUp
  <1>1. J!frequency(in.e, in.t)
        /\ [pass |-> "validated", fail |-> "needs_review", not_measured |-> "pending"][verdict] = "validated"
    BY DEF J!Judge
  <1>2. verdict \in {"pass", "fail", "not_measured"}
    BY DEF J!stability
  <1>3. verdict = "pass"
    <2> HIDE DEF verdict
    <2>1. QED
      BY <1>1, <1>2
  <1>4. in.e.requests >= in.t.requests /\ in.e.requesters >= in.t.requesters
    BY <1>1 DEF J!frequency
  <1>5. ~in.execute => Len(in.stored) >= in.t.runs
    <2>1. Len(in.stored) \in Nat /\ in.t.runs \in Nat
      BY DEF JudgementDomain
    <2>2. ~in.execute => ~(Len(in.stored) < in.t.runs)
      BY <1>3 DEF J!stability
    <2>3. QED
      BY <2>1, <2>2
  <1>6. J!Stable(used, in.t)
    BY <1>3 DEF J!stability
  <1>7. used \in Seq(STRING) /\ used # <<>>
    <2>1. CASE in.execute
      BY <2>1 DEF JudgementDomain
    <2>2. CASE ~in.execute
      <3>1. in.stored \in Seq(STRING) /\ Len(in.stored) \in Nat /\ in.t.runs \in Nat \ {0}
        BY DEF JudgementDomain
      <3>2. from \in 1..Len(in.stored) /\ Len(in.stored) - from + 1 > 0
        BY <1>5, <2>2, <3>1
      <3>3. \A i \in from..Len(in.stored) : in.stored[i] \in STRING
        BY <3>1, <3>2
      <3> HIDE DEF from
      <3>4. /\ last \in Seq(STRING)
            /\ Len(last) = IF from <= Len(in.stored) THEN Len(in.stored) - from + 1 ELSE 0
        BY <3>1, <3>2, <3>3, SubSeqProperties
      <3>5. Len(last) > 0
        BY <3>1, <3>2, <3>4
      <3>6. last # <<>>
        <4> HIDE DEF last
        <4>1. Len(<<>>) = 0
          OBVIOUS
        <4>2. QED
          BY <3>5, <4>1
      <3>7. QED
        BY <2>2, <3>4, <3>6
    <2>3. QED
      BY <2>1, <2>2
  <1>8. in.t.scale \in Nat \ {0}
    BY DEF JudgementDomain
  <1> HIDE DEF used
  <1>9. in.t.stability = in.t.scale => \E h \in J!ToSet(used) \ {"error"} : \A i \in DOMAIN used : used[i] = h
    BY <1>6, <1>7, <1>8, StableRunsAgree
  <1>10. QED
    BY <1>4, <1>9

\* The model is asked at most three times, and never again after an answer
\* that is final; what it then answers with fails for waivable reasons only.
LEMMA AgentAnswerIsAlwaysCoherent ==
    ASSUME NEW in
    PROVE  J!AgentAnswerIsCoherent(in)
  <1> DEFINE verdict(i) == J!validate_proposal(in.answers[i])
             over == {i \in 1..J!MAX_CORRECTION_ATTEMPTS : verdict(i) = "valid" \/ ~J!Retryable(verdict(i))}
             last == IF over = {} THEN J!MAX_CORRECTION_ATTEMPTS ELSE J!Min(over)
             p == in.answers[last]
             answer == J!propose(in.answers)
  <1>1. answer.calls = last /\ answer.verdict = verdict(last) /\ answer.proposal = p
    BY DEF J!propose
  <1>2. last \in 1..3 /\ \A i \in 1..last - 1 : i \notin over
    <2>1. CASE over = {}
      <3>1. last = 3
        BY <2>1 DEF J!MAX_CORRECTION_ATTEMPTS
      <3>2. QED
        BY <2>1, <3>1
    <2>2. CASE over # {}
      <3>1. over \subseteq 1..3 /\ over \subseteq Nat
        BY DEF J!MAX_CORRECTION_ATTEMPTS
      <3> HIDE DEF over
      <3>2. \E n \in over : \A m \in over : n <= m
        BY <2>2, <3>1, LeastNatural
      <3>3. last = CHOOSE n \in over : \A m \in over : n <= m
        BY <2>2 DEF J!Min
      <3>4. last \in over /\ \A m \in over : last <= m
        BY <3>2, <3>3
      <3> HIDE DEF last
      <3>5. last \in 1..3
        BY <3>1, <3>4
      <3>6. ASSUME NEW i \in 1..last - 1, i \in over
            PROVE  FALSE
        <4>1. last <= i
          BY <3>4, <3>6
        <4>2. QED
          BY <3>5, <3>6, <4>1
      <3>7. QED
        BY <3>5, <3>6
    <2>3. QED
      BY <2>1, <2>2
  <1> HIDE DEF last, answer
  <1>3. answer.calls <= J!MAX_CORRECTION_ATTEMPTS
    BY <1>1, <1>2 DEF J!MAX_CORRECTION_ATTEMPTS
  <1>4. ASSUME NEW i \in 1..answer.calls - 1
        PROVE  J!Retryable(J!validate_proposal(in.answers[i]))
    <2>1. i \in 1..last - 1 /\ i \in 1..J!MAX_CORRECTION_ATTEMPTS
      BY <1>1, <1>2 DEF J!MAX_CORRECTION_ATTEMPTS
    <2>2. i \notin over
      BY <1>2, <2>1
    <2>3. QED
      BY <2>1, <2>2
  <1>5. ASSUME J!ask(TRUE, in.answers, in.gate, TRUE) = "candidate", answer.proposal.aggregate
        PROVE  J!Approvable(answer.proposal, in.gate)
    <2>1. verdict(last) = "valid" /\ in.gate
      <3>1. answer.verdict = "valid" \/ J!ask(TRUE, in.answers, in.gate, TRUE) = answer.verdict
        BY DEF J!ask, answer
      <3>2. answer.verdict # "candidate"
        BY <1>1 DEF J!validate_proposal
      <3>3. answer.verdict = "valid"
        BY <1>5, <3>1, <3>2
      <3>4. in.gate
        BY <1>5, <3>3 DEF J!ask, answer
      <3>5. QED
        BY <1>1, <3>3, <3>4
    <2>2. p.tables /\ p.parses /\ p.join # "no_key" /\ p.join # "no_alias" /\ (p.aggregate => ~p.fanout)
      BY <2>1 DEF J!validate_proposal
    <2>3. p.aggregate
      BY <1>1, <1>5
    <2>4. J!coherence(p, in.gate) \subseteq J!WAIVABLE_REASONS
      BY <2>1, <2>2, <2>3 DEF J!coherence, J!WAIVABLE_REASONS
    <2>5. QED
      BY <1>1, <2>4 DEF J!Approvable
  <1>6. QED
    BY <1>3, <1>4, <1>5 DEF J!AgentAnswerIsCoherent, answer

\* Questions of the three families; the expected node is found at one of the
\* ranks that are reported or not at all, and a denied answer has no mode.
EvaluationDomain(in) ==
    \A i \in DOMAIN in.qs : /\ in.qs[i].family \in {"A", "B", "C"} /\ in.qs[i].rank \in 0..2
                            /\ in.qs[i].denied \in BOOLEAN /\ (in.qs[i].denied => in.qs[i].mode = "error")

\* Every question is right or a failure, what is wrong is one, recall grows.
LEMMA EvaluationAlwaysAddsUp ==
    ASSUME NEW in, EvaluationDomain(in)
    PROVE  J!EvaluationAddsUp(in)
  <1> DEFINE qs == in.qs
             places == DOMAIN qs
             e == J!evaluate(qs)
  <1>1. /\ e.failures = {i \in places : J!Failed(qs[i])}
        /\ e.right = [f \in {"A", "B", "C"} |-> {i \in J!Family(qs, f) : J!Right(qs[i])}]
        /\ e.false_answer = {i \in J!Family(qs, "C") : J!Outcome(qs[i]) = "answered"}
        /\ e.false_refusal = {i \in J!Family(qs, "A") \union J!Family(qs, "B") : J!Outcome(qs[i]) = "refused"}
        /\ e.recall = [k \in {1, 2} |-> J!Recalled(qs, k)]
    BY DEF J!evaluate
  <1> HIDE DEF e
  <1>2. \A i \in places : /\ qs[i].family \in {"A", "B", "C"} /\ qs[i].rank \in 0..2
                          /\ qs[i].denied \in BOOLEAN /\ (qs[i].denied => qs[i].mode = "error")
    BY DEF EvaluationDomain
  <1>3. e.recall[1] = J!Recalled(qs, 1) /\ e.recall[2] = J!Recalled(qs, 2)
    BY <1>1
  <1>4. ASSUME NEW i \in places \ e.failures
        PROVE  /\ i \in e.right[qs[i].family]
               /\ qs[i].family = "A" => \E k \in {1, 2} : i \in e.recall[k]
    <2> DEFINE q == qs[i]
    <2>1. ~J!Failed(q) /\ q.family \in {"A", "B", "C"} /\ q.rank \in 0..2
      BY <1>1, <1>2, <1>4
    <2>2. J!Right(q) /\ (q.family = "A" => q.rank # 0)
      BY <2>1 DEF J!Failed
    <2>3. e.right[q.family] = {j \in J!Family(qs, q.family) : J!Right(qs[j])}
      BY <1>1, <2>1
    <2>4. i \in e.right[q.family]
      BY <2>2, <2>3 DEF J!Family
    <2>5. q.family = "A" => i \in e.recall[2]
      BY <1>3, <2>1, <2>2 DEF J!Recalled
    <2>6. QED
      BY <2>4, <2>5
  <1>5. ASSUME NEW i \in e.false_answer
        PROVE  i \in e.failures
    <2>1. i \in places /\ qs[i].family = "C" /\ J!Outcome(qs[i]) = "answered"
      BY <1>1, <1>5 DEF J!Family
    <2>2. J!Failed(qs[i])
      BY <2>1 DEF J!Failed, J!Right
    <2>3. QED
      BY <1>1, <2>1, <2>2
  <1>6. ASSUME NEW i \in e.false_refusal
        PROVE  i \in e.failures
    <2>1. i \in places /\ qs[i].family \in {"A", "B"} /\ J!Outcome(qs[i]) = "refused"
      BY <1>1, <1>6 DEF J!Family
    <2>2. ~J!Right(qs[i])
      <3>1. qs[i].mode # "query" /\ qs[i].mode # "candidate"
        <4>1. CASE qs[i].denied
          BY <1>2, <2>1, <4>1
        <4>2. CASE ~qs[i].denied
          BY <2>1, <4>2 DEF J!Outcome, J!ANSWERED_MODES
        <4>3. QED
          BY <1>2, <2>1, <4>1, <4>2
      <3>2. QED
        BY <2>1, <3>1 DEF J!Right
    <2>3. QED
      BY <1>1, <2>1, <2>2 DEF J!Failed
  <1>7. e.recall[1] \subseteq e.recall[2]
    <2>1. ASSUME NEW i \in places, qs[i].rank <= 1
          PROVE  qs[i].rank <= 2
      BY <1>2, <2>1
    <2>2. QED
      BY <1>3, <2>1 DEF J!Recalled
  <1>8. QED
    BY <1>4, <1>5, <1>6, <1>7 DEF J!EvaluationAddsUp, e

\* What the drift signals count: fallbacks and certified queries of a window,
\* and the metrics of a catalogue, which is finite.
DriftDomain(in) ==
    /\ in.fallbacks \in Nat /\ in.min \in Nat
    /\ in.usage \in Seq(SUBSET STRING)
    /\ IsFiniteSet(in.catalog)
    /\ in.redacted \in BOOLEAN

\* What is measured is a rate of a sample that is not empty.
LEMMA DriftIsAlwaysARate ==
    ASSUME NEW in, DriftDomain(in)
    PROVE  J!DriftIsARate(in)
  <1> DEFINE used == Len(in.usage)
             first == J!fallback_rate(in.fallbacks, in.usage, in.min)
             second == J!orphans(in.catalog, in.usage, in.min)
             third == J!rephrasing(in.fallbacks, Len(in.usage), in.redacted, in.min)
             left == in.catalog \ UNION J!ToSet(in.usage)
  <1>1. used \in Nat /\ in.fallbacks \in Nat /\ (in.usage # <<>> => used > 0)
    <2>1. in.usage \in Seq(SUBSET STRING) /\ in.fallbacks \in Nat
      BY DEF DriftDomain
    <2>2. used \in Nat
      BY <2>1
    <2>3. used = 0 => in.usage = <<>>
      BY <2>1, EmptySeq
    <2>4. QED
      BY <2>1, <2>2, <2>3
  <1>2. first.status = "measured" => first.of > 0 /\ first.value <= first.of
    <2>1. SUFFICES ASSUME first.status = "measured"
                   PROVE  first.of > 0 /\ first.value <= first.of
      OBVIOUS
    <2>2. in.usage # <<>> /\ first.value = in.fallbacks /\ first.of = in.fallbacks + used
      BY <2>1 DEF J!fallback_rate, J!Inconclusive, J!Measured
    <2> HIDE DEF first, used
    <2>3. QED
      BY <1>1, <2>2
  <1>3. second.status = "measured" => second.value <= second.of /\ (second.value = second.of /\ second.of > 0 => in.usage # <<>>)
    <2>1. SUFFICES ASSUME second.status = "measured"
                   PROVE  second.value <= second.of /\ in.usage # <<>>
      OBVIOUS
    <2>2. in.usage # <<>> /\ second.value = Cardinality(left) /\ second.of = Cardinality(in.catalog)
      BY <2>1, SameCandidateCount DEF J!orphans, J!Inconclusive, J!Measured
    <2>3. IsFiniteSet(in.catalog) /\ left \subseteq in.catalog
      BY DEF DriftDomain
    <2> HIDE DEF left
    <2>4. Cardinality(left) <= Cardinality(in.catalog)
      BY <2>3, FS_Subset
    <2>5. QED
      BY <2>2, <2>4
  <1>4. in.redacted => third.status = "inconclusive"
    BY DEF J!rephrasing, J!Inconclusive
  <1>5. QED
    BY <1>2, <1>3, <1>4 DEF J!DriftIsARate

\* A chain of events of different identifiers that moves on at every event,
\* in the order of its time stamps, and comes back to no state within one.
Follows(c) == \A i \in DOMAIN c : /\ c[i].from # c[i].to
                                  /\ c[i].from = IF i = 1 THEN "none" ELSE c[i - 1].to
Distinct(c) == \A i, j \in DOMAIN c : c[i].id = c[j].id => i = j
Stamped(c) == \A i, j \in DOMAIN c :
                 i < j => /\ c[i].at <= c[j].at
                          /\ c[i].at = c[j].at => c[i].from # c[j].to /\ c[i].to # c[j].to
Event == [at : Nat, id : Nat, from : STRING, to : STRING]
ChronologyDomain(in) ==
    /\ in.chain \in Seq(Event)
    /\ Follows(in.chain) /\ Distinct(in.chain) /\ Stamped(in.chain)

\* Where reading a chain has come to after k events.
StateAt(c, k) == IF k = 0 THEN "none" ELSE c[k].to
ReadUpTo(c, k) == [done |-> [i \in 1..k |-> c[i]], state |-> StateAt(c, k),
                   pending |-> {c[i] : i \in k + 1..Len(c)}]

\* Of the pending events of the earliest stamp one follows: the next of the chain.
LEMMA NextOfChain ==
    ASSUME NEW in, ChronologyDomain(in), NEW k \in 1..Len(in.chain),
           NEW group, group = J!Earliest({in.chain[i] : i \in k..Len(in.chain)})
    PROVE  /\ in.chain[k] \in group
           /\ \A o \in group : o.at = in.chain[k].at
           /\ J!NextEvent(StateAt(in.chain, k - 1), group) = in.chain[k]
  <1> DEFINE c == in.chain
             n == Len(in.chain)
             left == {c[i] : i \in k..n}
  <1>1. /\ n \in Nat /\ DOMAIN c = 1..n
        /\ \A i \in 1..n : c[i].at \in Nat /\ c[i].id \in Nat
    <2>1. c \in Seq(Event)
      BY DEF ChronologyDomain
    <2>2. n \in Nat /\ DOMAIN c = 1..n /\ \A i \in 1..n : c[i] \in Event
      BY <2>1
    <2>3. \A e \in Event : e.at \in Nat /\ e.id \in Nat
      BY DEF Event
    <2>4. QED
      BY <2>2, <2>3
  <1>2. Follows(c) /\ Distinct(c) /\ Stamped(c)
    BY DEF ChronologyDomain
  <1> HIDE DEF c, n
  <1>3. k \in 1..n /\ group = {e \in left : \A o \in left : e.at <= o.at}
    BY DEF J!Earliest, c, n
  <1>4. \A i \in k..n : i \in 1..n /\ (i = k \/ k < i)
    BY <1>1, <1>3
  <1>5. \A i \in k..n : c[k].at <= c[i].at
    <2> TAKE i \in k..n
    <2>1. CASE i = k
      BY <1>1, <1>4, <2>1
    <2>2. CASE k < i
      BY <1>1, <1>2, <1>3, <1>4, <2>2 DEF Stamped
    <2>3. QED
      BY <1>4, <2>1, <2>2
  <1>6. c[k] \in group
    <2>1. k \in k..n
      BY <1>1, <1>3
    <2>2. c[k] \in left
      BY <2>1
    <2>3. QED
      BY <1>3, <1>5, <2>2
  <1>7. \A o \in group : o.at = c[k].at /\ \E i \in k..n : o = c[i]
    <2> TAKE o \in group
    <2>1. PICK i \in k..n : o = c[i]
      BY <1>3
    <2>2. o.at <= c[k].at /\ c[k].at <= o.at /\ o.at \in Nat /\ c[k].at \in Nat
      BY <1>1, <1>3, <1>4, <1>5, <1>6, <2>1
    <2>3. QED
      BY <2>1, <2>2
  <1>8. c[k].from = StateAt(c, k - 1)
    <2>1. c[k].from = IF k = 1 THEN "none" ELSE c[k - 1].to
      BY <1>1, <1>2, <1>3 DEF Follows
    <2>2. k - 1 = 0 <=> k = 1
      BY <1>1, <1>3
    <2>3. QED
      BY <2>1, <2>2 DEF StateAt
  <1>9. ASSUME NEW o \in group, o.from = c[k].from
        PROVE  o = c[k]
    <2>1. PICK i \in k..n : o = c[i]
      BY <1>7
    <2>2. SUFFICES ASSUME k < i
                   PROVE  FALSE
      BY <1>4, <2>1
    <2>3. i \in 1..n /\ i - 1 \in 1..n /\ i # 1 /\ i - 1 < i /\ i - 1 \in k..n
      BY <1>1, <1>3, <2>2
    <2>4. c[i].from = c[i - 1].to
      BY <1>1, <1>2, <2>3 DEF Follows
    <2>5. c[i - 1].at = c[k].at
      <3>1. c[i - 1].at <= c[i].at
        BY <1>1, <1>2, <2>3 DEF Stamped
      <3>2. c[k].at <= c[i - 1].at /\ c[i].at = c[k].at
        BY <1>5, <1>7, <2>1, <2>3
      <3>3. c[i - 1].at \in Nat /\ c[k].at \in Nat
        BY <1>1, <1>3, <2>3
      <3>4. QED
        BY <3>1, <3>2, <3>3
    <2>6. c[k].from = c[i - 1].to
      BY <1>9, <2>1, <2>4
    <2>7. CASE i - 1 = k
      BY <1>1, <1>2, <1>3, <2>6, <2>7 DEF Follows
    <2>8. CASE k < i - 1
      BY <1>1, <1>2, <1>3, <2>3, <2>5, <2>6, <2>8 DEF Stamped
    <2>9. QED
      BY <1>4, <2>3, <2>7, <2>8
  <1>10. J!Moves(group) = group
    <2>1. \A o \in group : o.from # o.to
      BY <1>1, <1>2, <1>4, <1>7 DEF Follows
    <2>2. QED
      BY <2>1 DEF J!Moves
  <1> DEFINE now == StateAt(c, k - 1)
             follows == {e \in J!Moves(group) : e.from = now}
  <1>11. follows = {c[k]}
    BY <1>6, <1>8, <1>9, <1>10
  <1>12. J!NextEvent(now, group) = J!First(follows)
    BY <1>11 DEF J!NextEvent
  <1>13. J!First({c[k]}) = c[k]
    <2>1. c[k].id <= c[k].id
      BY <1>1, <1>3
    <2>2. QED
      BY <2>1 DEF J!First
  <1>14. QED
    BY <1>6, <1>7, <1>11, <1>12, <1>13 DEF c

\* Taking one event more from where reading has come to reads the next one.
LEMMA TakeFollowsChain ==
    ASSUME NEW in, ChronologyDomain(in), NEW k \in 1..Len(in.chain)
    PROVE  J!Take(ReadUpTo(in.chain, k - 1)) = ReadUpTo(in.chain, k)
  <1> DEFINE c == in.chain
             n == Len(in.chain)
             r == ReadUpTo(c, k - 1)
             group == J!Earliest(r.pending)
             last == r.done[Len(r.done)]
             now == IF r.done # <<>> /\ \A e \in group : e.at # last.at THEN last.to ELSE r.state
             e == J!NextEvent(now, group)
  <1>1. /\ n \in Nat /\ DOMAIN c = 1..n /\ k \in 1..n
        /\ \A i \in 1..n : c[i] \in Event
    BY DEF ChronologyDomain
  <1>2. Follows(c) /\ Distinct(c)
    BY DEF ChronologyDomain
  <1>3. /\ r.done = [i \in 1..k - 1 |-> c[i]] /\ r.state = StateAt(c, k - 1)
        /\ r.pending = {c[i] : i \in k..n}
    <2>1. k - 1 + 1 = k
      BY <1>1
    <2>2. QED
      BY <2>1 DEF ReadUpTo
  <1>4. J!Take(r) = [done |-> Append(r.done, e), state |-> IF e.from # e.to THEN e.to ELSE now, pending |-> r.pending \ {e}]
    BY DEF J!Take
  <1>5. Len(r.done) = k - 1
    BY <1>1, <1>3
  <1>6. now = StateAt(c, k - 1)
    <2>1. CASE k = 1
      <3>1. r.done = <<>>
        BY <1>3, <2>1
      <3>2. QED
        BY <1>3, <3>1
    <2>2. CASE k # 1
      <3>1. k - 1 \in 1..k - 1 /\ k - 1 # 0
        BY <1>1, <2>2
      <3>2. last = c[k - 1]
        BY <1>3, <1>5, <3>1
      <3>3. last.to = StateAt(c, k - 1)
        BY <3>1, <3>2 DEF StateAt
      <3>4. QED
        BY <1>3, <3>3
    <2>3. QED
      BY <2>1, <2>2
  <1>7. e = c[k]
    <2>1. group = J!Earliest({c[i] : i \in k..n})
      BY <1>3
    <2> HIDE DEF group
    <2>2. J!NextEvent(StateAt(c, k - 1), group) = c[k]
      BY <2>1, NextOfChain
    <2>3. QED
      BY <1>6, <2>2
  <1> HIDE DEF e, now, group, last, r
  <1>8. Append(r.done, e) = [i \in 1..k |-> c[i]]
    <2> DEFINE s == [i \in 1..k - 1 |-> c[i]]
               t == [i \in 1..k |-> c[i]]
    <2>1. s \in Seq(Event) /\ Len(s) = k - 1 /\ t \in Seq(Event) /\ Len(t) = k
      BY <1>1
    <2>2. c[k] \in Event
      BY <1>1
    <2>3. /\ Append(s, c[k]) \in Seq(Event) /\ Len(Append(s, c[k])) = k
          /\ \A i \in 1..k : Append(s, c[k])[i] = IF i < k THEN s[i] ELSE c[k]
      BY <1>1, <2>1, <2>2
    <2>4. \A i \in 1..k : Append(s, c[k])[i] = t[i]
      BY <1>1, <2>3
    <2>5. Append(s, c[k]) = t
      <3> HIDE DEF s, t
      <3>1. QED
        BY <2>1, <2>3, <2>4, SeqEqual
    <2>6. QED
      BY <1>3, <1>7, <2>5
  <1>9. (IF e.from # e.to THEN e.to ELSE now) = StateAt(c, k)
    <2>1. c[k].from # c[k].to
      BY <1>1, <1>2 DEF Follows
    <2>2. k # 0
      BY <1>1
    <2>3. QED
      BY <1>7, <2>1, <2>2 DEF StateAt
  <1>10. r.pending \ {e} = {c[i] : i \in k + 1..n}
    <2>1. \A i \in k..n : c[i] = c[k] => i = k
      BY <1>1, <1>2 DEF Distinct
    <2>2. \A i \in k..n : i = k \/ i \in k + 1..n
      BY <1>1
    <2>3. \A i \in k + 1..n : i \in k..n /\ i # k
      BY <1>1
    <2>4. QED
      BY <1>3, <1>7, <2>1, <2>2, <2>3
  <1>11. QED
    BY <1>4, <1>8, <1>9, <1>10 DEF ReadUpTo, r

\* The events of a chain are read in its order, whatever their identifiers.
LEMMA ChronologyAlwaysFollowsChain ==
    ASSUME NEW in, ChronologyDomain(in)
    PROVE  J!ChronologyFollowsChain(in)
  <1> DEFINE c == in.chain
             n == Len(in.chain)
             events == J!ToSet(c)
             start == [done |-> <<>>, state |-> "none", pending |-> events]
             Reads(step) == step = [k \in 0..n |-> IF k = 0 THEN start ELSE J!Take(step[k - 1])]
             w == [k \in 0..n |-> ReadUpTo(c, k)]
             run == CHOOSE step : Reads(step)
  <1>1. n \in Nat /\ DOMAIN c = 1..n /\ c = [i \in 1..n |-> c[i]]
    BY DEF ChronologyDomain
  <1>2. J!Cardinality(events) = n
    <2>1. IsFiniteSet(1..n) /\ Cardinality(1..n) = n
      BY <1>1, LengthCounts
    <2>2. \A i, j \in 1..n : c[i] = c[j] => i = j
      BY <1>1 DEF ChronologyDomain, Distinct
    <2>3. Cardinality({c[i] : i \in 1..n}) = Cardinality(1..n)
      BY <2>1, <2>2, CountOfNames
    <2>4. events = {c[i] : i \in 1..n}
      BY <1>1 DEF J!ToSet
    <2>5. QED
      BY <2>1, <2>3, <2>4, SameCandidateCount
  <1>3. J!chronological(events) = run[n].done
    BY <1>2 DEF J!chronological
  <1>4. ReadUpTo(c, 0) = start
    <2>1. {c[i] : i \in 0 + 1..n} = events
      BY <1>1 DEF J!ToSet
    <2>2. [i \in 1..0 |-> c[i]] = <<>>
      OBVIOUS
    <2>3. QED
      BY <2>1, <2>2 DEF ReadUpTo, StateAt
  <1>5. \A k \in 0..n : k # 0 => k \in 1..n /\ k - 1 \in 0..n
    BY <1>1
  <1>6. \A k \in 1..n : J!Take(ReadUpTo(c, k - 1)) = ReadUpTo(c, k)
    BY TakeFollowsChain
  <1> HIDE DEF start, events, c
  <1>7. Reads(w)
    <2>1. \A k \in 0..n : w[k] = IF k = 0 THEN start ELSE J!Take(w[k - 1])
      BY <1>4, <1>5, <1>6
    <2>2. QED
      BY <2>1
  <1>8. Reads(run)
    <2> HIDE DEF Reads, w
    <2>1. QED
      BY <1>7
  <1> HIDE DEF run, n
  <1>9. run[0] = start /\ \A k \in 1..n : run[k] = J!Take(run[k - 1])
    <2>1. \A k \in 0..n : run[k] = IF k = 0 THEN start ELSE J!Take(run[k - 1])
      BY <1>8
    <2>2. 0 \in 0..n /\ \A k \in 1..n : k \in 0..n /\ k # 0
      BY <1>1
    <2>3. QED
      BY <2>1, <2>2
  <1> DEFINE T == {k \in Nat : k <= n => run[k] = ReadUpTo(c, k)}
  <1>10. 0 \in T
    BY <1>4, <1>9
  <1>11. ASSUME NEW m \in Nat, m \in T
         PROVE  m + 1 \in T
    <2> SUFFICES ASSUME m + 1 <= n
                 PROVE  run[m + 1] = ReadUpTo(c, m + 1)
      OBVIOUS
    <2>1. m + 1 \in 1..n /\ m <= n /\ m + 1 - 1 = m
      BY <1>1
    <2>2. run[m + 1] = J!Take(run[m]) /\ J!Take(ReadUpTo(c, m)) = ReadUpTo(c, m + 1)
      BY <1>6, <1>9, <2>1
    <2>3. run[m] = ReadUpTo(c, m)
      BY <1>11, <2>1
    <2>4. QED
      BY <2>2, <2>3
  <1> HIDE DEF T
  <1>12. n \in T
    BY <1>1, <1>10, <1>11, Induction
  <1>13. run[n] = ReadUpTo(c, n)
    BY <1>1, <1>12 DEF T
  <1>14. run[n].done = c
    BY <1>1, <1>13 DEF ReadUpTo
  <1>15. QED
    BY <1>3, <1>14 DEF J!ChronologyFollowsChain, events, c

\* Filter conditions, and the schemas that they stand in, of any size.
Texts == STRING \union {J!P}
AnyCondition == [form : STRING, col : STRING, op : STRING, vals : Seq(Texts)]
AnySchema == [filter : Seq(AnyCondition), filter_groups : Seq(Seq(AnyCondition)),
              where : Seq(AnyCondition), where_groups : Seq(Seq(AnyCondition)),
              having : Seq(AnyCondition), group_by : Seq(STRING), measures : SUBSET STRING]

\* Two lists of conditions that differ in the order, the spelling and the values.
Reordered(h, a, b) == /\ \A i, j \in DOMAIN a : h[i] = h[j] => i = j
                      /\ \A j \in DOMAIN b : \E i \in DOMAIN a : h[i] = j
AlikeBy(h, a, b) == /\ Reordered(h, a, b)
                    /\ \A i \in DOMAIN a : /\ a[i].col = b[h[i]].col /\ a[i].op = b[h[i]].op
                                           /\ a[i].vals = <<>> <=> b[h[i]].vals = <<>>
Alike(a, b) == \E h \in [DOMAIN a -> DOMAIN b] : AlikeBy(h, a, b)
AlikeGroups(a, b) == \E h \in [DOMAIN a -> DOMAIN b] :
                        Reordered(h, a, b) /\ \A i \in DOMAIN a : Alike(a[i], b[h[i]])
AlikeNames(a, b) == \E h \in [DOMAIN a -> DOMAIN b] : Reordered(h, a, b) /\ \A i \in DOMAIN a : a[i] = b[h[i]]
AlikeSchemas(v, s) ==
    /\ Alike(v.filter, s.filter) /\ AlikeGroups(v.filter_groups, s.filter_groups)
    /\ Alike(v.where, s.where) /\ AlikeGroups(v.where_groups, s.where_groups)
    /\ Alike(v.having, s.having)
    /\ AlikeNames(v.group_by, s.group_by) /\ v.measures = s.measures
SchemaDomain(in) == in.s \in AnySchema /\ in.variant \in AnySchema /\ AlikeSchemas(in.variant, in.s)

\* A list of conditions without its values.
Replaced(cs) == [i \in DOMAIN cs |-> J!ParameterizeCondition(cs[i])]

\* A condition that takes a value loses it, and keeps everything else.
LEMMA ParameterizedCondition ==
    ASSUME NEW c \in AnyCondition
    PROVE  /\ J!ParameterizeCondition(c) \in AnyCondition
           /\ J!ParameterizeCondition(c).col = c.col
           /\ J!ParameterizeCondition(c).op = c.op
           /\ J!ParameterizeCondition(c).vals = <<>> <=> c.vals = <<>>
           /\ J!Arity(c.op) # "none" => J!ToSet(J!ParameterizeCondition(c).vals) \subseteq {J!P}
  <1> DEFINE d == J!ParameterizeCondition(c)
             blank == [i \in DOMAIN c.vals |-> J!P]
  <1>1. c.vals \in Seq(Texts) /\ c.form \in STRING /\ c.col \in STRING /\ c.op \in STRING
        /\ c = [form |-> c.form, col |-> c.col, op |-> c.op, vals |-> c.vals]
    BY DEF AnyCondition
  <1>2. blank \in Seq(Texts) /\ (blank = <<>> <=> c.vals = <<>>)
    <2>1. blank \in Seq(Texts) /\ Len(blank) = Len(c.vals)
      <3>1. DOMAIN c.vals = 1..Len(c.vals) /\ Len(c.vals) \in Nat
        BY <1>1
      <3>2. J!P \in Texts
        BY DEF Texts
      <3> DEFINE n == Len(c.vals)
      <3>3. n \in Nat /\ blank = [i \in 1..n |-> J!P]
        BY <3>1
      <3> HIDE DEF n, blank
      <3>4. blank \in Seq(Texts) /\ Len(blank) = n
        BY <3>2, <3>3
      <3>5. QED
        BY <3>4 DEF n
    <2> HIDE DEF blank
    <2>2. Len(blank) = 0 <=> Len(c.vals) = 0
      BY <2>1
    <2>3. (blank = <<>> <=> Len(blank) = 0) /\ (c.vals = <<>> <=> Len(c.vals) = 0)
      BY <1>1, <2>1, EmptySeq
    <2>4. QED
      BY <2>1, <2>2, <2>3
  <1>3. CASE J!Arity(c.op) = "none"
    <2>1. d = c
      BY <1>3 DEF J!ParameterizeCondition
    <2>2. QED
      BY <1>3, <2>1
  <1>4. CASE J!Arity(c.op) # "none"
    <2>1. d = [c EXCEPT !.vals = blank]
      BY <1>4 DEF J!ParameterizeCondition, J!Map
    <2> HIDE DEF d, blank
    <2>2. d.form = c.form /\ d.col = c.col /\ d.op = c.op /\ d.vals = blank
          /\ d = [form |-> c.form, col |-> c.col, op |-> c.op, vals |-> blank]
      BY <1>1, <2>1
    <2>3. d \in AnyCondition
      BY <1>1, <1>2, <2>2 DEF AnyCondition
    <2>4. J!ToSet(blank) \subseteq {J!P}
      BY DEF J!ToSet, blank
    <2>5. QED
      BY <1>2, <2>2, <2>3, <2>4 DEF d
  <1>5. QED
    BY <1>3, <1>4

\* So does every condition of a list.
LEMMA ReplacedConditions ==
    ASSUME NEW cs \in Seq(AnyCondition)
    PROVE  /\ Replaced(cs) \in Seq(AnyCondition) /\ DOMAIN Replaced(cs) = DOMAIN cs
           /\ J!Map(J!ParameterizeCondition, cs) = Replaced(cs)
           /\ \A c \in J!ToSet(Replaced(cs)) : J!Arity(c.op) # "none" => J!ToSet(c.vals) \subseteq {J!P}
  <1>1. DOMAIN cs = 1..Len(cs) /\ Len(cs) \in Nat /\ \A i \in DOMAIN cs : cs[i] \in AnyCondition
    OBVIOUS
  <1>2. \A i \in DOMAIN cs : J!ParameterizeCondition(cs[i]) \in AnyCondition
    BY <1>1, ParameterizedCondition
  <1>3. Replaced(cs) \in Seq(AnyCondition) /\ DOMAIN Replaced(cs) = DOMAIN cs
    BY <1>1, <1>2 DEF Replaced
  <1>4. J!Map(J!ParameterizeCondition, cs) = Replaced(cs)
    BY DEF J!Map, Replaced
  <1>5. ASSUME NEW c \in J!ToSet(Replaced(cs)), J!Arity(c.op) # "none"
        PROVE  J!ToSet(c.vals) \subseteq {J!P}
    <2>1. PICK i \in DOMAIN cs : c = J!ParameterizeCondition(cs[i])
      BY <1>5 DEF J!ToSet, Replaced
    <2>2. cs[i] \in AnyCondition
      BY <1>1
    <2>3. QED
      BY <1>5, <2>1, <2>2, ParameterizedCondition
  <1>6. QED
    BY <1>3, <1>4, <1>5

\* And every condition of a schema, wherever it stands.
ReplacedGroups(groups) == [i \in DOMAIN groups |-> Replaced(groups[i])]
LEMMA ParameterizedSchema ==
    ASSUME NEW s \in AnySchema, NEW t, t = J!parameterize_filters(s)
    PROVE  /\ t \in AnySchema
           /\ t.filter = Replaced(s.filter) /\ t.filter_groups = ReplacedGroups(s.filter_groups)
           /\ t.where = Replaced(s.where) /\ t.where_groups = ReplacedGroups(s.where_groups)
           /\ t.having = Replaced(s.having) /\ t.group_by = s.group_by /\ t.measures = s.measures
  <1>1. /\ s.filter \in Seq(AnyCondition) /\ s.where \in Seq(AnyCondition) /\ s.having \in Seq(AnyCondition)
        /\ s.filter_groups \in Seq(Seq(AnyCondition)) /\ s.where_groups \in Seq(Seq(AnyCondition))
        /\ s.group_by \in Seq(STRING) /\ s.measures \in SUBSET STRING
        /\ s = [filter |-> s.filter, filter_groups |-> s.filter_groups, where |-> s.where,
                where_groups |-> s.where_groups, having |-> s.having, group_by |-> s.group_by,
                measures |-> s.measures]
    BY DEF AnySchema
  <1> DEFINE f == Replaced(s.filter)
             fg == ReplacedGroups(s.filter_groups)
             w == Replaced(s.where)
             wg == ReplacedGroups(s.where_groups)
             g == Replaced(s.having)
  <1>2. t = [s EXCEPT !.filter = f, !.filter_groups = fg, !.where = w, !.where_groups = wg, !.having = g]
    <2>1. /\ \A i \in DOMAIN s.filter_groups : s.filter_groups[i] \in Seq(AnyCondition)
          /\ \A i \in DOMAIN s.where_groups : s.where_groups[i] \in Seq(AnyCondition)
      BY <1>1
    <2>2. t = [s EXCEPT !.filter = J!Map(J!ParameterizeCondition, s.filter),
                        !.filter_groups = [i \in DOMAIN s.filter_groups |-> J!Map(J!ParameterizeCondition, s.filter_groups[i])],
                        !.where = J!Map(J!ParameterizeCondition, s.where),
                        !.where_groups = [i \in DOMAIN s.where_groups |-> J!Map(J!ParameterizeCondition, s.where_groups[i])],
                        !.having = J!Map(J!ParameterizeCondition, s.having)]
      BY DEF J!parameterize_filters, J!Walk, J!Map
    <2>3. /\ J!Map(J!ParameterizeCondition, s.filter) = f /\ J!Map(J!ParameterizeCondition, s.where) = w
          /\ J!Map(J!ParameterizeCondition, s.having) = g
      BY <1>1, ReplacedConditions
    <2>4. [i \in DOMAIN s.filter_groups |-> J!Map(J!ParameterizeCondition, s.filter_groups[i])] = fg
      BY <2>1, ReplacedConditions DEF ReplacedGroups
    <2>5. [i \in DOMAIN s.where_groups |-> J!Map(J!ParameterizeCondition, s.where_groups[i])] = wg
      BY <2>1, ReplacedConditions DEF ReplacedGroups
    <2>6. QED
      BY <2>2, <2>3, <2>4, <2>5
  <1>3. f \in Seq(AnyCondition) /\ w \in Seq(AnyCondition) /\ g \in Seq(AnyCondition)
    BY <1>1, ReplacedConditions
  <1>4. fg \in Seq(Seq(AnyCondition)) /\ wg \in Seq(Seq(AnyCondition))
    <2>1. ASSUME NEW groups \in Seq(Seq(AnyCondition))
          PROVE  ReplacedGroups(groups) \in Seq(Seq(AnyCondition))
      <3>1. \A i \in DOMAIN groups : groups[i] \in Seq(AnyCondition)
        BY <2>1
      <3>2. \A i \in DOMAIN groups : Replaced(groups[i]) \in Seq(AnyCondition)
        BY <3>1, ReplacedConditions
      <3>3. DOMAIN groups = 1..Len(groups) /\ Len(groups) \in Nat
        BY <2>1
      <3>4. QED
        BY <3>2, <3>3 DEF ReplacedGroups
    <2>2. QED
      BY <1>1, <2>1
  <1> HIDE DEF f, fg, w, wg, g
  <1>5. t = [filter |-> f, filter_groups |-> fg, where |-> w, where_groups |-> wg,
             having |-> g, group_by |-> s.group_by, measures |-> s.measures]
    BY <1>1, <1>2
  <1>6. t \in AnySchema
    BY <1>1, <1>3, <1>4, <1>5 DEF AnySchema
  <1>7. QED
    BY <1>5, <1>6 DEF f, fg, w, wg, g

\* What the agent stores holds no value of the question.
LEMMA NoValueIsEverStored ==
    ASSUME NEW in, SchemaDomain(in)
    PROVE  J!NoValueIsStored(in)
  <1> DEFINE s == in.s
             t == J!parameterize_filters(s)
             containers == {t.filter, t.where, t.having} \union J!ToSet(t.filter_groups) \union J!ToSet(t.where_groups)
  <1>1. s \in AnySchema
    BY DEF SchemaDomain
  <1>2. /\ t.filter = Replaced(s.filter) /\ t.filter_groups = ReplacedGroups(s.filter_groups)
        /\ t.where = Replaced(s.where) /\ t.where_groups = ReplacedGroups(s.where_groups)
        /\ t.having = Replaced(s.having)
    BY <1>1, ParameterizedSchema
  <1>3. /\ s.filter \in Seq(AnyCondition) /\ s.where \in Seq(AnyCondition) /\ s.having \in Seq(AnyCondition)
        /\ \A i \in DOMAIN s.filter_groups : s.filter_groups[i] \in Seq(AnyCondition)
        /\ \A i \in DOMAIN s.where_groups : s.where_groups[i] \in Seq(AnyCondition)
    BY <1>1 DEF AnySchema
  <1> HIDE DEF s, t
  <1>4. \A cs \in containers : \E old \in Seq(AnyCondition) : cs = Replaced(old)
    <2>1. \A groups : (\A i \in DOMAIN groups : groups[i] \in Seq(AnyCondition)) =>
              \A cs \in J!ToSet(ReplacedGroups(groups)) : \E old \in Seq(AnyCondition) : cs = Replaced(old)
      BY DEF J!ToSet, ReplacedGroups
    <2>2. QED
      BY <1>2, <1>3, <2>1
  <1>5. \A cs \in containers : \A c \in J!ToSet(cs) : J!Arity(c.op) # "none" => J!ToSet(c.vals) \subseteq {J!P}
    BY <1>4, ReplacedConditions
  <1>6. J!Values(t) = UNION {UNION {J!ToSet(c.vals) : c \in {x \in J!ToSet(cs) : J!Arity(x.op) # "none"}} : cs \in containers}
    BY DEF J!Values
  <1> HIDE DEF containers
  <1>7. J!Values(t) \subseteq {J!P}
    BY <1>5, <1>6
  <1>8. QED
    BY <1>7 DEF J!NoValueIsStored, s, t

\* A list in another order has the bag of the list.
LEMMA SameBag ==
    ASSUME NEW a, NEW b, IsFiniteSet(DOMAIN a), NEW h \in [DOMAIN a -> DOMAIN b], Reordered(h, a, b),
           \A i \in DOMAIN a : a[i] = b[h[i]]
    PROVE  J!Bag(a) = J!Bag(b)
  <1> DEFINE In(s, x) == {i \in DOMAIN s : s[i] = x}
  <1>1. J!ToSet(a) = J!ToSet(b)
    BY DEF J!ToSet, Reordered
  <1>2. ASSUME NEW x
        PROVE  Cardinality(In(a, x)) = Cardinality(In(b, x))
    <2> DEFINE few == In(a, x)
               same == In(b, x)
    <2>1. few \subseteq DOMAIN a
      OBVIOUS
    <2>2. \A j \in same : \E i \in few : h[i] = j
      BY DEF Reordered
    <2>3. \A i \in few : h[i] \in same
      OBVIOUS
    <2>4. \A i, j \in DOMAIN a : h[i] = h[j] => i = j
      BY DEF Reordered
    <2> HIDE DEF few, same
    <2>5. IsFiniteSet(few)
      BY <2>1, FS_Subset
    <2>6. Cardinality(same) = Cardinality(few)
      BY <2>1, <2>2, <2>3, <2>4, <2>5, CountIsKept
    <2>7. QED
      BY <2>6 DEF few, same
  <1>3. J!Bag(a) = [x \in J!ToSet(a) |-> Cardinality(In(a, x))]
    BY SameCandidateCount DEF J!Bag
  <1>4. J!Bag(b) = [x \in J!ToSet(b) |-> Cardinality(In(b, x))]
    BY SameCandidateCount DEF J!Bag
  <1> HIDE DEF In
  <1>5. QED
    BY <1>1, <1>2, <1>3, <1>4

\* A sequence has finitely many places.
LEMMA FinitelyManyPlaces ==
    ASSUME NEW S, NEW s \in Seq(S)
    PROVE  IsFiniteSet(DOMAIN s)
  <1>1. Len(s) \in Nat /\ DOMAIN s = 1..Len(s)
    OBVIOUS
  <1>2. QED
    BY <1>1, LengthCounts

\* Conditions in another order, spelling and values have one canonical form.
LEMMA SameContainer ==
    ASSUME NEW a \in Seq(AnyCondition), NEW b, Alike(a, b)
    PROVE  J!Container(a) = J!Container(b)
  <1> DEFINE x == J!Map(J!Shape, a)
             y == J!Map(J!Shape, b)
  <1>1. PICK h \in [DOMAIN a -> DOMAIN b] : AlikeBy(h, a, b)
    BY DEF Alike
  <1>2. DOMAIN x = DOMAIN a /\ DOMAIN y = DOMAIN b
    BY DEF J!Map
  <1>3. \A i \in DOMAIN a : J!Shape(a[i]) = J!Shape(b[h[i]])
    BY <1>1 DEF J!Shape, AlikeBy
  <1>4. \A i \in DOMAIN x : x[i] = y[h[i]]
    BY <1>1, <1>3 DEF J!Map
  <1>5. IsFiniteSet(DOMAIN x)
    BY <1>2, FinitelyManyPlaces
  <1> HIDE DEF x, y
  <1>6. h \in [DOMAIN x -> DOMAIN y] /\ Reordered(h, x, y)
    BY <1>1, <1>2 DEF AlikeBy, Reordered
  <1>7. J!Bag(x) = J!Bag(y)
    BY <1>4, <1>5, <1>6, SameBag
  <1>8. QED
    BY <1>7 DEF J!Container, x, y

\* So have their groups.
LEMMA SameGroups ==
    ASSUME NEW a \in Seq(Seq(AnyCondition)), NEW b, AlikeGroups(a, b)
    PROVE  J!Bag(J!Map(J!Container, a)) = J!Bag(J!Map(J!Container, b))
  <1> DEFINE x == J!Map(J!Container, a)
             y == J!Map(J!Container, b)
  <1>1. PICK h \in [DOMAIN a -> DOMAIN b] : Reordered(h, a, b) /\ \A i \in DOMAIN a : Alike(a[i], b[h[i]])
    BY DEF AlikeGroups
  <1>2. DOMAIN x = DOMAIN a /\ DOMAIN y = DOMAIN b
    BY DEF J!Map
  <1>3. \A i \in DOMAIN a : J!Container(a[i]) = J!Container(b[h[i]])
    <2>1. \A i \in DOMAIN a : a[i] \in Seq(AnyCondition)
      OBVIOUS
    <2>2. QED
      BY <1>1, <2>1, SameContainer
  <1>4. \A i \in DOMAIN x : x[i] = y[h[i]]
    BY <1>1, <1>3 DEF J!Map
  <1>5. IsFiniteSet(DOMAIN x)
    BY <1>2, FinitelyManyPlaces
  <1> HIDE DEF x, y
  <1>6. h \in [DOMAIN x -> DOMAIN y] /\ Reordered(h, x, y)
    BY <1>1, <1>2 DEF Reordered
  <1>7. QED
    BY <1>4, <1>5, <1>6, SameBag DEF x, y

\* And schemas.
LEMMA SameFingerprint ==
    ASSUME NEW v \in AnySchema, NEW s, AlikeSchemas(v, s)
    PROVE  J!fingerprint_normal_form(v) = J!fingerprint_normal_form(s)
  <1>1. /\ v.filter \in Seq(AnyCondition) /\ v.where \in Seq(AnyCondition) /\ v.having \in Seq(AnyCondition)
        /\ v.filter_groups \in Seq(Seq(AnyCondition)) /\ v.where_groups \in Seq(Seq(AnyCondition))
        /\ v.group_by \in Seq(STRING)
    BY DEF AnySchema
  <1>2. /\ J!Container(v.filter) = J!Container(s.filter) /\ J!Container(v.where) = J!Container(s.where)
        /\ J!Container(v.having) = J!Container(s.having)
    BY <1>1, SameContainer DEF AlikeSchemas
  <1>3. J!Bag(J!Map(J!Container, v.filter_groups)) = J!Bag(J!Map(J!Container, s.filter_groups))
    BY <1>1, SameGroups DEF AlikeSchemas
  <1>4. J!Bag(J!Map(J!Container, v.where_groups)) = J!Bag(J!Map(J!Container, s.where_groups))
    BY <1>1, SameGroups DEF AlikeSchemas
  <1>5. J!Bag(v.group_by) = J!Bag(s.group_by)
    <2>1. PICK h \in [DOMAIN v.group_by -> DOMAIN s.group_by] :
             Reordered(h, v.group_by, s.group_by) /\ \A i \in DOMAIN v.group_by : v.group_by[i] = s.group_by[h[i]]
      BY DEF AlikeSchemas, AlikeNames
    <2>2. IsFiniteSet(DOMAIN v.group_by)
      BY <1>1, FinitelyManyPlaces
    <2>3. QED
      BY <2>1, <2>2, SameBag
  <1>6. v.measures = s.measures
    BY DEF AlikeSchemas
  <1>7. QED
    BY <1>2, <1>3, <1>4, <1>5, <1>6 DEF J!fingerprint_normal_form

\* A list without its values is the list but for the values.
LEMMA ReplacedIsAlike ==
    ASSUME NEW cs \in Seq(AnyCondition)
    PROVE  Alike(Replaced(cs), cs)
  <1> DEFINE h == [i \in DOMAIN cs |-> i]
             r == Replaced(cs)
  <1>1. DOMAIN r = DOMAIN cs
    BY DEF Replaced
  <1>2. \A i \in DOMAIN cs : /\ r[i].col = cs[i].col /\ r[i].op = cs[i].op
                             /\ r[i].vals = <<>> <=> cs[i].vals = <<>>
    <2>1. \A i \in DOMAIN cs : cs[i] \in AnyCondition
      OBVIOUS
    <2>2. \A i \in DOMAIN cs : r[i] = J!ParameterizeCondition(cs[i])
      BY DEF Replaced
    <2>3. QED
      BY <2>1, <2>2, ParameterizedCondition
  <1> HIDE DEF r
  <1>3. h \in [DOMAIN r -> DOMAIN cs] /\ \A i \in DOMAIN r : h[i] = i
    BY <1>1
  <1> HIDE DEF h
  <1>4. AlikeBy(h, r, cs)
    BY <1>1, <1>2, <1>3 DEF AlikeBy, Reordered
  <1>5. QED
    BY <1>3, <1>4 DEF Alike, r

\* Filter values, spelling and order have no part in a fingerprint.
LEMMA FingerprintAlwaysIgnoresValues ==
    ASSUME NEW in, SchemaDomain(in)
    PROVE  J!FingerprintIgnoresValues(in)
  <1> DEFINE s == in.s
             t == J!parameterize_filters(s)
  <1>1. s \in AnySchema /\ in.variant \in AnySchema /\ AlikeSchemas(in.variant, s)
    BY DEF SchemaDomain
  <1>2. /\ t \in AnySchema
        /\ t.filter = Replaced(s.filter) /\ t.filter_groups = ReplacedGroups(s.filter_groups)
        /\ t.where = Replaced(s.where) /\ t.where_groups = ReplacedGroups(s.where_groups)
        /\ t.having = Replaced(s.having) /\ t.group_by = s.group_by /\ t.measures = s.measures
    BY <1>1, ParameterizedSchema
  <1>3. /\ s.filter \in Seq(AnyCondition) /\ s.where \in Seq(AnyCondition) /\ s.having \in Seq(AnyCondition)
        /\ s.filter_groups \in Seq(Seq(AnyCondition)) /\ s.where_groups \in Seq(Seq(AnyCondition))
    BY <1>1 DEF AnySchema
  <1> HIDE DEF s, t
  <1>4. Alike(t.filter, s.filter) /\ Alike(t.where, s.where) /\ Alike(t.having, s.having)
    BY <1>2, <1>3, ReplacedIsAlike
  <1>5. ASSUME NEW groups \in Seq(Seq(AnyCondition))
        PROVE  AlikeGroups(ReplacedGroups(groups), groups)
    <2> DEFINE h == [i \in DOMAIN groups |-> i]
               r == ReplacedGroups(groups)
    <2>1. DOMAIN r = DOMAIN groups /\ h \in [DOMAIN r -> DOMAIN groups] /\ \A i \in DOMAIN groups : h[i] = i
      BY DEF ReplacedGroups
    <2>2. \A i \in DOMAIN groups : groups[i] \in Seq(AnyCondition) /\ r[i] = Replaced(groups[i])
      BY DEF ReplacedGroups
    <2> HIDE DEF h, r
    <2>3. \A i \in DOMAIN r : Alike(r[i], groups[h[i]])
      BY <2>1, <2>2, ReplacedIsAlike
    <2>4. QED
      BY <2>1, <2>3 DEF AlikeGroups, Reordered, r
  <1>6. AlikeGroups(t.filter_groups, s.filter_groups) /\ AlikeGroups(t.where_groups, s.where_groups)
    BY <1>2, <1>3, <1>5
  <1>7. AlikeNames(t.group_by, s.group_by)
    <2> DEFINE names == s.group_by
               h == [i \in DOMAIN names |-> i]
    <2>1. h \in [DOMAIN names -> DOMAIN names] /\ \A i \in DOMAIN names : h[i] = i
      OBVIOUS
    <2> HIDE DEF names, h
    <2>2. AlikeNames(names, names)
      BY <2>1 DEF AlikeNames, Reordered
    <2>3. QED
      BY <1>2, <2>2 DEF names
  <1>8. AlikeSchemas(t, s)
    BY <1>2, <1>4, <1>6, <1>7 DEF AlikeSchemas
  <1>9. J!fingerprint_normal_form(t) = J!fingerprint_normal_form(s)
    BY <1>2, <1>8, SameFingerprint
  <1>10. J!fingerprint_normal_form(in.variant) = J!fingerprint_normal_form(s)
    BY <1>1, SameFingerprint
  <1>11. QED
    BY <1>9, <1>10 DEF J!FingerprintIgnoresValues, s, t

\* The elements of a finite set can be told one after the other.
LEMMA EveryElementIsTold ==
    ASSUME NEW S, IsFiniteSet(S)
    PROVE  J!SetToSeq(S) \in Seq(S) /\ J!ToSet(J!SetToSeq(S)) = S
  <1> DEFINE n == Cardinality(S)
             f == J!SetToSeq(S)
  <1>1. n \in Nat /\ ExistsBijection(1..n, S)
    BY FS_CardinalityType
  <1>2. f = CHOOSE g \in [1..n -> S] : \A i, j \in 1..n : g[i] = g[j] => i = j
    <2>1. f = CHOOSE g \in [1..n -> S] : J!IsInjective(g)
      BY SameCandidateCount DEF J!SetToSeq
    <2>2. \A g \in [1..n -> S] : J!IsInjective(g) <=> \A i, j \in 1..n : g[i] = g[j] => i = j
      BY DEF J!IsInjective
    <2> HIDE DEF n, f
    <2>3. QED
      BY <2>1, <2>2
  <1> HIDE DEF n, f
  <1>3. \E g \in [1..n -> S] : \A i, j \in 1..n : g[i] = g[j] => i = j
    BY <1>1 DEF ExistsBijection, Bijection, Injection, IsInjective
  <1>4. f \in [1..n -> S] /\ \A i, j \in 1..n : f[i] = f[j] => i = j
    BY <1>2, <1>3
  <1>5. f \in Injection(1..n, S)
    BY <1>4 DEF Injection, IsInjective
  <1>6. Cardinality(1..n) = Cardinality(S)
    <2>1. n \in Int /\ 1 \in Int
      BY <1>1
    <2>2. Cardinality(1..n) = IF 1 > n THEN 0 ELSE n - 1 + 1
      BY <2>1, FS_Interval
    <2>3. (IF 1 > n THEN 0 ELSE n - 1 + 1) = n
      BY <1>1
    <2>4. QED
      BY <2>2, <2>3 DEF n
  <1>7. f \in Surjection(1..n, S)
    BY <1>5, <1>6, FS_Injection
  <1>8. J!ToSet(f) = S
    BY <1>4, <1>7 DEF J!ToSet, Surjection
  <1>9. f \in Seq(S)
    BY <1>1, <1>4
  <1>10. QED
    BY <1>8, <1>9 DEF f

\* Of a list of conditions those without a placeholder are kept, and the
\* columns of the others are finitely many.
LEMMA KeptAndConverted ==
    ASSUME NEW cs \in Seq(AnyCondition)
    PROVE  /\ J!ToSet(J!Kept(cs)) \subseteq J!ToSet(cs)
           /\ \A c \in J!ToSet(J!Kept(cs)) : ~J!HasPlaceholder(c)
           /\ \A c \in J!ToSet(cs) : J!HasPlaceholder(c) => c.col \in J!Columns(cs)
           /\ IsFiniteSet(J!Columns(cs))
  <1> DEFINE k == {i \in DOMAIN cs : ~J!HasPlaceholder(cs[i])}
  <1>1. J!ToSet(J!Kept(cs)) = {cs[i] : i \in k}
    BY DEF J!Kept, J!Restrict, J!ToSet
  <1>2. /\ J!ToSet(J!Kept(cs)) \subseteq J!ToSet(cs)
        /\ \A c \in J!ToSet(J!Kept(cs)) : ~J!HasPlaceholder(c)
    BY <1>1 DEF J!ToSet
  <1>3. \A c \in J!ToSet(cs) : J!HasPlaceholder(c) => c.col \in J!Columns(cs)
    BY DEF J!Columns
  <1>4. IsFiniteSet(J!Columns(cs))
    <2> DEFINE S == DOMAIN cs
               f == [i \in S |-> cs[i].col]
               T == {cs[i].col : i \in S}
    <2>1. IsFiniteSet(S)
      BY FinitelyManyPlaces
    <2>2. f \in Surjection(S, T)
      BY DEF Surjection
    <2> HIDE DEF f, T, S
    <2>3. IsFiniteSet(T)
      BY <2>1, <2>2, FS_Surjection
    <2>4. J!Columns(cs) \subseteq T
      BY DEF J!Columns, J!ToSet, T, S
    <2>5. QED
      BY <2>3, <2>4, FS_Subset
  <1>5. QED
    BY <1>2, <1>3, <1>4

\* A group list is taken as a whole or not at all.
LEMMA TakenGroups ==
    ASSUME NEW groups \in Seq(Seq(AnyCondition)), NEW t, t = J!TakeGroups(groups)
    PROVE  /\ t # <<>> => groups # <<>> /\ \A g \in J!ToSet(groups) : J!Kept(g) \in J!ToSet(t)
           /\ \A d \in J!ToSet(t) : \E g \in J!ToSet(groups) : d = J!Kept(g)
  <1>1. t = <<>> \/ t = [i \in DOMAIN groups |-> J!Kept(groups[i])]
    BY DEF J!TakeGroups, J!Map
  <1>2. CASE t = <<>>
    <2>1. J!ToSet(t) = {}
      BY <1>2 DEF J!ToSet
    <2>2. QED
      BY <1>2, <2>1
  <1>3. CASE t = [i \in DOMAIN groups |-> J!Kept(groups[i])] /\ t # <<>>
    <2>1. groups # <<>>
      <3> SUFFICES ASSUME groups = <<>>
                   PROVE  t = <<>>
        BY <1>3
      <3>1. DOMAIN groups = {}
        OBVIOUS
      <3>2. t = [i \in {} |-> J!Kept(groups[i])]
        BY <1>3, <3>1
      <3>3. QED
        BY <3>2
    <2>2. \A g \in J!ToSet(groups) : J!Kept(g) \in J!ToSet(t)
      BY <1>3 DEF J!ToSet
    <2>3. \A d \in J!ToSet(t) : \E g \in J!ToSet(groups) : d = J!Kept(g)
      BY <1>3 DEF J!ToSet
    <2>4. QED
      BY <2>1, <2>2, <2>3
  <1>4. QED
    BY <1>1, <1>2, <1>3

\* The columns that are converted to dimensions are finitely many.
LEMMA ConvertedIsFinite ==
    ASSUME NEW s \in AnySchema
    PROVE  IsFiniteSet(J!Converted(s))
  <1>1. /\ s.filter \in Seq(AnyCondition) /\ s.where \in Seq(AnyCondition) /\ s.having \in Seq(AnyCondition)
        /\ s.filter_groups \in Seq(Seq(AnyCondition)) /\ s.where_groups \in Seq(Seq(AnyCondition))
    BY DEF AnySchema
  <1>2. IsFiniteSet(J!Columns(s.filter)) /\ IsFiniteSet(J!Columns(s.where)) /\ IsFiniteSet(J!Columns(s.having))
    BY <1>1, KeptAndConverted
  <1>3. ASSUME NEW groups \in Seq(Seq(AnyCondition))
        PROVE  IsFiniteSet(UNION {J!Columns(g) : g \in J!ToSet(groups)})
    <2> DEFINE S == DOMAIN groups
               f == [i \in S |-> J!Columns(groups[i])]
               T == {J!Columns(g) : g \in J!ToSet(groups)}
    <2>1. IsFiniteSet(S)
      BY FinitelyManyPlaces
    <2>2. f \in Surjection(S, T)
      BY DEF Surjection, J!ToSet
    <2>3. \A g \in J!ToSet(groups) : g \in Seq(AnyCondition)
      BY DEF J!ToSet
    <2>4. \A x \in T : IsFiniteSet(x)
      BY <2>3, KeptAndConverted
    <2> HIDE DEF f, S, T
    <2>5. IsFiniteSet(T)
      BY <2>1, <2>2, FS_Surjection
    <2>6. IsFiniteSet(UNION T)
      BY <2>4, <2>5, FS_UNION
    <2>7. QED
      BY <2>6 DEF T
  <1> DEFINE a == J!Columns(s.filter)
             b == J!Columns(s.where)
             c == J!Columns(s.having)
             d == UNION {J!Columns(g) : g \in J!ToSet(s.filter_groups)}
             e == UNION {J!Columns(g) : g \in J!ToSet(s.where_groups)}
  <1>4. IsFiniteSet(d) /\ IsFiniteSet(e)
    BY <1>1, <1>3
  <1>5. J!Converted(s) \subseteq (a \union b) \union (c \union (d \union e))
    BY DEF J!Converted
  <1> HIDE DEF a, b, c, d, e
  <1>6. IsFiniteSet(a) /\ IsFiniteSet(b) /\ IsFiniteSet(c)
    BY <1>2 DEF a, b, c
  <1>7. IsFiniteSet(a \union b) /\ IsFiniteSet(d \union e)
    BY <1>4, <1>6, FS_Union
  <1>8. IsFiniteSet(c \union (d \union e))
    BY <1>6, <1>7, FS_Union
  <1>9. IsFiniteSet((a \union b) \union (c \union (d \union e)))
    BY <1>7, <1>8, FS_Union
  <1>10. QED
    BY <1>5, <1>9, FS_Subset

\* The definition that is published, field by field.
LEMMA DefinitionFields ==
    ASSUME NEW s \in AnySchema, NEW d, d = J!metric_definition(s)
    PROVE  /\ d.filter = J!Kept(s.filter) /\ d.filter_groups = J!TakeGroups(s.filter_groups)
           /\ d.where = J!Kept(s.where) /\ d.where_groups = J!TakeGroups(s.where_groups)
           /\ d.having = J!Kept(s.having)
           /\ J!ToSet(d.group_by) = J!ToSet(s.group_by) \union J!Converted(s)
  <1> DEFINE more == J!Converted(s) \ J!ToSet(s.group_by)
             by == s.group_by \o J!SetToSeq(more)
  <1>1. /\ s.group_by \in Seq(STRING)
        /\ s = [filter |-> s.filter, filter_groups |-> s.filter_groups, where |-> s.where,
                where_groups |-> s.where_groups, having |-> s.having, group_by |-> s.group_by,
                measures |-> s.measures]
    BY DEF AnySchema
  <1>2. d = [s EXCEPT !.filter = J!Kept(s.filter), !.filter_groups = J!TakeGroups(s.filter_groups),
                      !.where = J!Kept(s.where), !.where_groups = J!TakeGroups(s.where_groups),
                      !.having = J!Kept(s.having), !.group_by = by]
    BY DEF J!metric_definition
  <1> HIDE DEF by
  <1>3. /\ d.filter = J!Kept(s.filter) /\ d.filter_groups = J!TakeGroups(s.filter_groups)
        /\ d.where = J!Kept(s.where) /\ d.where_groups = J!TakeGroups(s.where_groups)
        /\ d.having = J!Kept(s.having) /\ d.group_by = by
    BY <1>1, <1>2
  <1>4. J!SetToSeq(more) \in Seq(more) /\ J!ToSet(J!SetToSeq(more)) = more
    <2>1. IsFiniteSet(J!Converted(s)) /\ more \subseteq J!Converted(s)
      BY ConvertedIsFinite
    <2> HIDE DEF more
    <2>2. QED
      BY <2>1, FS_Subset, EveryElementIsTold
  <1>5. J!ToSet(by) = J!ToSet(s.group_by) \union more
    <2> DEFINE x == s.group_by
               y == J!SetToSeq(more)
    <2>1. x \in Seq(STRING) /\ y \in Seq(more)
      BY <1>1, <1>4
    <2> HIDE DEF x, y, more
    <2>2. /\ DOMAIN x = 1..Len(x) /\ DOMAIN y = 1..Len(y) /\ Len(x) \in Nat /\ Len(y) \in Nat
          /\ DOMAIN (x \o y) = 1..Len(x) + Len(y)
          /\ \A i \in 1..Len(x) + Len(y) : (x \o y)[i] = IF i <= Len(x) THEN x[i] ELSE y[i - Len(x)]
      BY <2>1
    <2>3. J!ToSet(x \o y) = J!ToSet(x) \union J!ToSet(y)
      <3>1. ASSUME NEW z \in J!ToSet(x \o y)
            PROVE  z \in J!ToSet(x) \union J!ToSet(y)
        <4>1. PICK i \in 1..Len(x) + Len(y) : z = (x \o y)[i]
          BY <2>2 DEF J!ToSet
        <4>2. CASE i <= Len(x)
          <5>1. i \in DOMAIN x /\ z = x[i]
            BY <2>2, <4>1, <4>2
          <5>2. QED
            BY <5>1 DEF J!ToSet
        <4>3. CASE ~(i <= Len(x))
          <5>1. i - Len(x) \in DOMAIN y /\ z = y[i - Len(x)]
            BY <2>2, <4>1, <4>3
          <5>2. QED
            BY <5>1 DEF J!ToSet
        <4>4. QED
          BY <4>2, <4>3
      <3>2. ASSUME NEW z \in J!ToSet(x)
            PROVE  z \in J!ToSet(x \o y)
        <4>1. PICK i \in DOMAIN x : z = x[i]
          BY <3>2 DEF J!ToSet
        <4>2. i \in DOMAIN (x \o y) /\ (x \o y)[i] = z
          BY <2>2, <4>1
        <4>3. QED
          BY <4>2 DEF J!ToSet
      <3>3. ASSUME NEW z \in J!ToSet(y)
            PROVE  z \in J!ToSet(x \o y)
        <4>1. PICK i \in DOMAIN y : z = y[i]
          BY <3>3 DEF J!ToSet
        <4>2. i + Len(x) \in 1..Len(x) + Len(y) /\ ~(i + Len(x) <= Len(x)) /\ i + Len(x) - Len(x) = i
          BY <2>2
        <4>3. i + Len(x) \in DOMAIN (x \o y) /\ (x \o y)[i + Len(x)] = z
          BY <2>2, <4>1, <4>2
        <4>4. QED
          BY <4>3 DEF J!ToSet
      <3>4. QED
        BY <3>1, <3>2, <3>3
    <2>4. QED
      BY <1>4, <2>3 DEF by, x, y
  <1>6. J!ToSet(d.group_by) = J!ToSet(s.group_by) \union J!Converted(s)
    BY <1>3, <1>5
  <1>7. QED
    BY <1>3, <1>6

\* The published metric covers the rows that the question counted, and every
\* column that was filtered on is a dimension.
LEMMA DefinitionAlwaysCoversQuestion ==
    ASSUME NEW in, SchemaDomain(in)
    PROVE  J!DefinitionCoversQuestion(in)
  <1> DEFINE s == J!parameterize_filters(in.s)
             d == J!metric_definition(s)
  <1>1. s \in AnySchema
    BY ParameterizedSchema DEF SchemaDomain
  <1> HIDE DEF s
  <1>2. /\ d.filter = J!Kept(s.filter) /\ d.filter_groups = J!TakeGroups(s.filter_groups)
        /\ d.where = J!Kept(s.where) /\ d.where_groups = J!TakeGroups(s.where_groups)
        /\ d.having = J!Kept(s.having)
        /\ J!ToSet(d.group_by) = J!ToSet(s.group_by) \union J!Converted(s)
    BY <1>1, DefinitionFields
  <1> HIDE DEF d
  <1>3. /\ s.filter \in Seq(AnyCondition) /\ s.where \in Seq(AnyCondition) /\ s.having \in Seq(AnyCondition)
        /\ s.filter_groups \in Seq(Seq(AnyCondition)) /\ s.where_groups \in Seq(Seq(AnyCondition))
    BY <1>1 DEF AnySchema
  <1>4. \A g \in J!ToSet(s.filter_groups) \union J!ToSet(s.where_groups) : g \in Seq(AnyCondition)
    BY <1>3 DEF J!ToSet
  <1>5. /\ \A x \in J!ToSet(d.filter_groups) : \E g \in J!ToSet(s.filter_groups) : x = J!Kept(g)
        /\ \A x \in J!ToSet(d.where_groups) : \E g \in J!ToSet(s.where_groups) : x = J!Kept(g)
        /\ d.filter_groups # <<>> => s.filter_groups # <<>> /\ \A g \in J!ToSet(s.filter_groups) : J!Kept(g) \in J!ToSet(d.filter_groups)
        /\ d.where_groups # <<>> => s.where_groups # <<>> /\ \A g \in J!ToSet(s.where_groups) : J!Kept(g) \in J!ToSet(d.where_groups)
    BY <1>2, <1>3, TakenGroups
  <1>6. \A c \in J!Conditions(d) \union J!ToSet(d.having) : ~J!HasPlaceholder(c)
    <2>1. \A c \in J!ToSet(d.filter) \union J!ToSet(d.where) \union J!ToSet(d.having) : ~J!HasPlaceholder(c)
      BY <1>2, <1>3, KeptAndConverted
    <2>2. \A x \in J!ToSet(d.filter_groups) \union J!ToSet(d.where_groups) : \A c \in J!ToSet(x) : ~J!HasPlaceholder(c)
      BY <1>4, <1>5, KeptAndConverted
    <2>3. QED
      BY <2>1, <2>2 DEF J!Conditions
  <1>7. ASSUME NEW holds \in [J!Conditions(s) -> BOOLEAN], J!Passes(s, holds)
        PROVE  J!Passes(d, holds)
    <2>1. \A c \in J!ToSet(d.filter) \union J!ToSet(d.where) : holds[c]
      <3>1. J!ToSet(d.filter) \subseteq J!ToSet(s.filter) /\ J!ToSet(d.where) \subseteq J!ToSet(s.where)
        BY <1>2, <1>3, KeptAndConverted
      <3>2. QED
        BY <1>7, <3>1 DEF J!Passes
    <2>2. d.filter_groups # <<>> => \E g \in J!ToSet(d.filter_groups) : \A c \in J!ToSet(g) : holds[c]
      <3> SUFFICES ASSUME d.filter_groups # <<>>
                   PROVE  \E g \in J!ToSet(d.filter_groups) : \A c \in J!ToSet(g) : holds[c]
        OBVIOUS
      <3>1. PICK g \in J!ToSet(s.filter_groups) : \A c \in J!ToSet(g) : holds[c]
        BY <1>5, <1>7 DEF J!Passes
      <3>2. J!Kept(g) \in J!ToSet(d.filter_groups) /\ J!ToSet(J!Kept(g)) \subseteq J!ToSet(g)
        BY <1>4, <1>5, KeptAndConverted
      <3>3. QED
        BY <3>1, <3>2
    <2>3. d.where_groups # <<>> => \E g \in J!ToSet(d.where_groups) : \A c \in J!ToSet(g) : holds[c]
      <3> SUFFICES ASSUME d.where_groups # <<>>
                   PROVE  \E g \in J!ToSet(d.where_groups) : \A c \in J!ToSet(g) : holds[c]
        OBVIOUS
      <3>1. PICK g \in J!ToSet(s.where_groups) : \A c \in J!ToSet(g) : holds[c]
        BY <1>5, <1>7 DEF J!Passes
      <3>2. J!Kept(g) \in J!ToSet(d.where_groups) /\ J!ToSet(J!Kept(g)) \subseteq J!ToSet(g)
        BY <1>4, <1>5, KeptAndConverted
      <3>3. QED
        BY <3>1, <3>2
    <2>4. QED
      BY <2>1, <2>2, <2>3 DEF J!Passes
  <1>8. ASSUME NEW c \in J!Conditions(s), J!HasPlaceholder(c)
        PROVE  c.col \in J!ToSet(d.group_by)
    <2>1. CASE c \in J!ToSet(s.filter) \union J!ToSet(s.where)
      <3>1. c.col \in J!Columns(s.filter) \union J!Columns(s.where)
        BY <1>3, <1>8, <2>1, KeptAndConverted
      <3>2. QED
        BY <1>2, <3>1 DEF J!Converted
    <2>2. CASE c \notin J!ToSet(s.filter) \union J!ToSet(s.where)
      <3>1. PICK g \in J!ToSet(s.filter_groups) \union J!ToSet(s.where_groups) : c \in J!ToSet(g)
        BY <2>2 DEF J!Conditions
      <3>2. c.col \in J!Columns(g)
        BY <1>4, <1>8, <3>1, KeptAndConverted
      <3>3. c.col \in J!Converted(s)
        BY <3>1, <3>2 DEF J!Converted
      <3>4. QED
        BY <1>2, <3>3
    <2>3. QED
      BY <2>1, <2>2
  <1>9. QED
    BY <1>6, <1>7, <1>8 DEF J!DefinitionCoversQuestion, d, s

------------------------------------------------------------------------------
(* Sums over finite sets.                                                   *)

\* What a fold adds up: h is the sum of f over every part of S.
Sums(h, S, f) == /\ h \in [SUBSET S -> Int]
                 /\ h[{}] = 0
                 /\ \A T \in SUBSET S : \A y \in T : h[T] = f[y] + h[T \ {y}]

\* The order in which the fold takes the elements, and its recursion.
Taken(T) == CHOOSE x \in T : TRUE
Folds(h, parts, f) == h = [T \in parts |-> IF T = {} THEN 0 ELSE f[Taken(T)] + h[T \ {Taken(T)}]]

\* What is taken of a finite set is of it, and leaves one element less.
LEMMA TakenLeavesLess ==
    ASSUME NEW S, NEW T, T \subseteq S, IsFiniteSet(S), T # {}
    PROVE  /\ Taken(T) \in T /\ T \ {Taken(T)} \in SUBSET S
           /\ Cardinality(T) \in Nat \ {0} /\ IsFiniteSet(T)
           /\ \A y \in T : Cardinality(T \ {y}) = Cardinality(T) - 1
  <1>1. IsFiniteSet(T)
    BY FS_Subset
  <1>2. Taken(T) \in T
    BY DEF Taken
  <1>3. \A y \in T : Cardinality(T \ {y}) = Cardinality(T) - 1
    BY <1>1, FS_RemoveElement
  <1>4. Cardinality(T) \in Nat \ {0}
    BY <1>1, FS_CardinalityType, FS_EmptySet
  <1>5. QED
    BY <1>1, <1>2, <1>3, <1>4

\* A set with more elements than some number is not empty.
LEMMA MoreIsNotNone ==
    ASSUME NEW n \in Nat, NEW T, Cardinality(T) = n + 1
    PROVE  T # {}
  <1>1. n + 1 # 0 /\ Cardinality({}) = 0
    BY FS_EmptySet
  <1>2. QED
    BY <1>1

\* The recursion of the fold has a solution.
LEMMA FoldExists ==
    ASSUME NEW S, IsFiniteSet(S), NEW f \in [S -> Int]
    PROVE  \E h \in [SUBSET S -> Int] : Folds(h, SUBSET S, f)
  <1> DEFINE Upto(n) == {T \in SUBSET S : Cardinality(T) <= n}
             good == {n \in Nat : \E h \in [Upto(n) -> Int] : Folds(h, Upto(n), f)}
  <1>1. 0 \in good
    <2> DEFINE h == [T \in Upto(0) |-> 0]
    <2>1. \A T \in Upto(0) : T = {}
      BY TakenLeavesLess
    <2>2. Folds(h, Upto(0), f)
      BY <2>1 DEF Folds
    <2>3. h \in [Upto(0) -> Int]
      OBVIOUS
    <2> HIDE DEF h
    <2>4. QED
      BY <2>2, <2>3
  <1>2. ASSUME NEW n \in Nat, n \in good
        PROVE  n + 1 \in good
    <2>1. PICK h \in [Upto(n) -> Int] : Folds(h, Upto(n), f)
      BY <1>2
    <2> DEFINE k == [T \in Upto(n + 1) |-> IF T = {} THEN 0 ELSE f[Taken(T)] + h[T \ {Taken(T)}]]
    <2>2. \A T \in Upto(n + 1) : T # {} => Taken(T) \in S /\ T \ {Taken(T)} \in Upto(n)
      <3> TAKE T \in Upto(n + 1)
      <3> SUFFICES ASSUME T # {}
                   PROVE  Taken(T) \in S /\ T \ {Taken(T)} \in Upto(n)
        OBVIOUS
      <3>1. Taken(T) \in S /\ T \ {Taken(T)} \in SUBSET S
        BY TakenLeavesLess
      <3>2. Cardinality(T) \in Nat /\ Cardinality(T \ {Taken(T)}) = Cardinality(T) - 1 /\ Cardinality(T) <= n + 1
        BY TakenLeavesLess
      <3>3. Cardinality(T \ {Taken(T)}) <= n
        BY <3>2
      <3>4. QED
        BY <3>1, <3>3
    <2>3. \A T \in Upto(n) : T \in Upto(n + 1)
      <3> TAKE T \in Upto(n)
      <3>1. Cardinality(T) \in Nat /\ Cardinality(T) <= n
        BY FS_Subset, FS_CardinalityType
      <3>2. Cardinality(T) <= n + 1
        BY <3>1
      <3>3. QED
        BY <3>2
    <2>4. \A T \in Upto(n) : h[T] = IF T = {} THEN 0 ELSE f[Taken(T)] + h[T \ {Taken(T)}]
      BY <2>1 DEF Folds
    <2> HIDE DEF Upto
    <2>5. \A T \in Upto(n) : k[T] = h[T]
      BY <2>3, <2>4
    <2>6. \A T \in Upto(n + 1) : T # {} => k[T \ {Taken(T)}] = h[T \ {Taken(T)}]
      BY <2>2, <2>5
    <2>7. k = [T \in Upto(n + 1) |-> IF T = {} THEN 0 ELSE f[Taken(T)] + k[T \ {Taken(T)}]]
      BY <2>6
    <2>8. k \in [Upto(n + 1) -> Int]
      <3>1. \A T \in Upto(n + 1) : T # {} => f[Taken(T)] \in Int /\ h[T \ {Taken(T)}] \in Int
        BY <2>1, <2>2
      <3>2. \A T \in Upto(n + 1) : T # {} => f[Taken(T)] + h[T \ {Taken(T)}] \in Int
        <4> TAKE T \in Upto(n + 1)
        <4> DEFINE a == f[Taken(T)]
                   b == h[T \ {Taken(T)}]
        <4>1. T # {} => a \in Int /\ b \in Int
          BY <3>1
        <4> HIDE DEF a, b
        <4>2. T # {} => a + b \in Int
          BY <4>1
        <4>3. QED
          BY <4>2 DEF a, b
      <3>3. \A T \in Upto(n + 1) : k[T] \in Int
        <4> TAKE T \in Upto(n + 1)
        <4>1. k[T] = IF T = {} THEN 0 ELSE f[Taken(T)] + h[T \ {Taken(T)}]
          OBVIOUS
        <4> HIDE DEF k
        <4>2. 0 \in Int
          OBVIOUS
        <4>3. QED
          BY <3>2, <4>1, <4>2, Zenon
      <3>4. QED
        BY <3>3
    <2> HIDE DEF k
    <2>9. Folds(k, Upto(n + 1), f)
      BY <2>7 DEF Folds
    <2>10. QED
      BY <2>8, <2>9
  <1> HIDE DEF good
  <1>3. Cardinality(S) \in good
    BY <1>1, <1>2, FS_CardinalityType, Induction
  <1>4. Upto(Cardinality(S)) = SUBSET S
    BY FS_Subset
  <1>5. QED
    BY <1>3, <1>4 DEF good

\* Whatever the order in which the elements are taken.
LEMMA FoldSums ==
    ASSUME NEW S, IsFiniteSet(S), NEW f \in [S -> Int], NEW h \in [SUBSET S -> Int], Folds(h, SUBSET S, f)
    PROVE  Sums(h, S, f)
  <1> DEFINE good == {n \in Nat : \A T \in SUBSET S : Cardinality(T) = n => \A y \in T : h[T] = f[y] + h[T \ {y}]}
  <1>1. \A T \in SUBSET S : h[T] = IF T = {} THEN 0 ELSE f[Taken(T)] + h[T \ {Taken(T)}]
    BY DEF Folds
  <1>2. 0 \in good
    BY TakenLeavesLess
  <1>3. ASSUME NEW n \in Nat, n \in good
        PROVE  n + 1 \in good
    <2> SUFFICES ASSUME NEW T \in SUBSET S, Cardinality(T) = n + 1, NEW y \in T
                 PROVE  h[T] = f[y] + h[T \ {y}]
      OBVIOUS
    <2> DEFINE x == Taken(T)
    <2>1. x \in T /\ h[T] = f[x] + h[T \ {x}]
      BY <1>1, TakenLeavesLess
    <2> HIDE DEF x
    <2>2. CASE x = y
      BY <2>1, <2>2
    <2>3. CASE x # y
      <3>1. Cardinality(T \ {x}) = n /\ Cardinality(T \ {y}) = n
        BY <2>1, TakenLeavesLess
      <3>2. T \ {x} \in SUBSET S /\ T \ {y} \in SUBSET S /\ y \in T \ {x} /\ x \in T \ {y}
        BY <2>1, <2>3
      <3>3. h[T \ {x}] = f[y] + h[(T \ {x}) \ {y}] /\ h[T \ {y}] = f[x] + h[(T \ {y}) \ {x}]
        BY <1>3, <3>1, <3>2
      <3>4. (T \ {x}) \ {y} = (T \ {y}) \ {x} /\ (T \ {x}) \ {y} \in SUBSET S
        OBVIOUS
      <3>5. f[x] \in Int /\ f[y] \in Int /\ h[(T \ {y}) \ {x}] \in Int /\ h[T \ {y}] \in Int /\ h[T \ {x}] \in Int
        BY <2>1
      <3>6. f[x] + (f[y] + h[(T \ {y}) \ {x}]) = f[y] + (f[x] + h[(T \ {y}) \ {x}])
        BY <3>5
      <3>7. QED
        BY <2>1, <3>3, <3>4, <3>6
    <2>4. QED
      BY <2>2, <2>3
  <1> HIDE DEF good
  <1>4. \A n \in Nat : n \in good
    BY <1>2, <1>3, Induction
  <1>5. \A T \in SUBSET S : Cardinality(T) \in Nat
    BY FS_Subset, FS_CardinalityType
  <1>6. \A T \in SUBSET S : \A y \in T : h[T] = f[y] + h[T \ {y}]
    BY <1>4, <1>5 DEF good
  <1>7. h[{}] = 0
    BY <1>1
  <1>8. QED
    BY <1>6, <1>7 DEF Sums

\* A fold of + is a sum.
Total(f) == J!FoldFunction(+, 0, f)
LEMMA TotalIsASum ==
    ASSUME NEW S, IsFiniteSet(S), NEW f \in [S -> Int]
    PROVE  \E h : Sums(h, S, f) /\ Total(f) = h[S]
  <1> DEFINE g == CHOOSE h : Folds(h, SUBSET S, f)
  <1>1. PICK h \in [SUBSET S -> Int] : Folds(h, SUBSET S, f)
    BY FoldExists
  <1>2. Folds(g, SUBSET S, f)
    BY <1>1
  <1>3. Total(f) = g[S]
    <2>1. DOMAIN f = S
      OBVIOUS
    <2>2. Total(f) =
             (CHOOSE r : r = [T \in SUBSET S |-> IF T = {} THEN 0 ELSE f[Taken(T)] + r[T \ {Taken(T)}]])[S]
      BY <2>1 DEF Total, J!FoldFunction, J!FoldFunctionOnSet, J!MapThenFoldSet, Taken
    <2>3. QED
      BY <2>2 DEF Folds
  <1> HIDE DEF g
  <1>4. g \in [SUBSET S -> Int]
    <2> DEFINE good == {n \in Nat : \A T \in SUBSET S : Cardinality(T) = n => g[T] = h[T]}
    <2>1. \A T \in SUBSET S : g[T] = IF T = {} THEN 0 ELSE f[Taken(T)] + g[T \ {Taken(T)}]
      BY <1>2 DEF Folds
    <2>2. \A T \in SUBSET S : h[T] = IF T = {} THEN 0 ELSE f[Taken(T)] + h[T \ {Taken(T)}]
      BY <1>1 DEF Folds
    <2>3. 0 \in good
      BY <2>1, <2>2, TakenLeavesLess
    <2>4. ASSUME NEW n \in Nat, n \in good
          PROVE  n + 1 \in good
      <3> SUFFICES ASSUME NEW T \in SUBSET S, Cardinality(T) = n + 1
                   PROVE  g[T] = h[T]
        OBVIOUS
      <3>1. T # {}
        BY MoreIsNotNone
      <3>2. T \ {Taken(T)} \in SUBSET S /\ Cardinality(T \ {Taken(T)}) = n
        BY <3>1, TakenLeavesLess
      <3>3. g[T \ {Taken(T)}] = h[T \ {Taken(T)}]
        BY <2>4, <3>2
      <3>4. QED
        BY <2>1, <2>2, <3>1, <3>3
    <2> HIDE DEF good
    <2>5. \A n \in Nat : n \in good
      BY <2>3, <2>4, Induction
    <2>6. \A T \in SUBSET S : Cardinality(T) \in Nat
      BY FS_Subset, FS_CardinalityType
    <2>7. \A T \in SUBSET S : g[T] = h[T]
      BY <2>5, <2>6 DEF good
    <2>8. g = [T \in SUBSET S |-> g[T]]
      BY <1>2 DEF Folds
    <2>9. \A T \in SUBSET S : g[T] \in Int
      BY <1>1, <2>7
    <2>10. QED
      BY <2>8, <2>9
  <1>5. Sums(g, S, f)
    BY <1>2, <1>4, FoldSums
  <1>6. QED
    BY <1>3, <1>5

\* A sum depends on what is added, and on nothing else.
SameOn(f, e, T) == \A x \in T : f[x] = e[x]
LEMMA SumOfTheSame ==
    ASSUME NEW S, IsFiniteSet(S), NEW f, NEW h, Sums(h, S, f), NEW R, NEW e, NEW k, Sums(k, R, e),
           SameOn(f, e, S \intersect R)
    PROVE  \A T \in SUBSET (S \intersect R) : h[T] = k[T]
  <1> DEFINE both == S \intersect R
             good == {n \in Nat : \A T \in SUBSET both : Cardinality(T) = n => h[T] = k[T]}
  <1>1. IsFiniteSet(both)
    BY FS_Subset
  <1>2. 0 \in good
    <2>1. \A T \in SUBSET both : Cardinality(T) = 0 => T = {}
      BY <1>1, FS_Subset, FS_EmptySet
    <2>2. h[{}] = k[{}]
      BY DEF Sums
    <2>3. QED
      BY <2>1, <2>2
  <1>3. ASSUME NEW n \in Nat, n \in good
        PROVE  n + 1 \in good
    <2> SUFFICES ASSUME NEW T \in SUBSET both, Cardinality(T) = n + 1
                 PROVE  h[T] = k[T]
      OBVIOUS
    <2>1. T # {}
      BY MoreIsNotNone
    <2>2. PICK y \in T : TRUE
      BY <2>1
    <2>3. T \ {y} \in SUBSET both /\ Cardinality(T \ {y}) = n
      BY <1>1, <2>1, TakenLeavesLess
    <2>4. h[T \ {y}] = k[T \ {y}]
      BY <1>3, <2>3
    <2>5. h[T] = f[y] + h[T \ {y}] /\ k[T] = e[y] + k[T \ {y}] /\ f[y] = e[y]
      BY DEF Sums, SameOn
    <2>6. QED
      BY <2>4, <2>5
  <1> HIDE DEF good
  <1>4. \A n \in Nat : n \in good
    BY <1>2, <1>3, Induction
  <1>5. \A T \in SUBSET both : Cardinality(T) \in Nat
    BY <1>1, FS_Subset, FS_CardinalityType
  <1>6. QED
    BY <1>4, <1>5 DEF good

\* A measure of sets that adds up over disjoint parts.
Additive(m, S) == /\ m \in [SUBSET S -> Int] /\ m[{}] = 0
                  /\ \A A1, A2 \in SUBSET S : A1 \intersect A2 = {} => m[A1 \union A2] = m[A1] + m[A2]

\* A sum is one.
LEMMA SumIsAdditive ==
    ASSUME NEW S, IsFiniteSet(S), NEW f \in [S -> Int], NEW h, Sums(h, S, f)
    PROVE  Additive(h, S)
  <1> DEFINE good == {n \in Nat : \A X, Y \in SUBSET S :
                        X \intersect Y = {} /\ Cardinality(Y) = n => h[X \union Y] = h[X] + h[Y]}
  <1>1. h \in [SUBSET S -> Int] /\ h[{}] = 0 /\ \A T \in SUBSET S : \A y \in T : h[T] = f[y] + h[T \ {y}]
    BY DEF Sums
  <1>2. 0 \in good
    <2> SUFFICES ASSUME NEW X \in SUBSET S, NEW Y \in SUBSET S, Cardinality(Y) = 0
                 PROVE  h[X \union Y] = h[X] + h[Y]
      OBVIOUS
    <2>1. Y = {}
      BY FS_Subset, FS_EmptySet
    <2>2. X \union Y = X /\ h[Y] = 0 /\ h[X] \in Int
      BY <1>1, <2>1
    <2>3. h[X] + 0 = h[X]
      BY <2>2
    <2>4. QED
      BY <2>2, <2>3, Zenon
  <1>3. ASSUME NEW n \in Nat, n \in good
        PROVE  n + 1 \in good
    <2> SUFFICES ASSUME NEW X \in SUBSET S, NEW Y \in SUBSET S, X \intersect Y = {}, Cardinality(Y) = n + 1
                 PROVE  h[X \union Y] = h[X] + h[Y]
      OBVIOUS
    <2>1. PICK y \in Y : TRUE
      BY MoreIsNotNone
    <2> DEFINE Z == Y \ {y}
    <2>2. Z \in SUBSET S /\ Cardinality(Z) = n /\ X \intersect Z = {}
      BY TakenLeavesLess
    <2>3. (X \union Y) \ {y} = X \union Z /\ X \union Y \in SUBSET S /\ y \in X \union Y
      BY <2>1
    <2> HIDE DEF Z
    <2>4. h[X \union Z] = h[X] + h[Z]
      BY <1>3, <2>2
    <2>5. h[X \union Y] = f[y] + h[X \union Z] /\ h[Y] = f[y] + h[Z]
      <3>1. h[Y] = f[y] + h[Z]
        BY <1>1 DEF Z
      <3>2. h[X \union Y] = f[y] + h[X \union Z]
        <4>1. h[X \union Y] = f[y] + h[(X \union Y) \ {y}]
          BY <1>1, <2>3, Zenon
        <4>2. QED
          BY <2>3, <4>1, Zenon
      <3>3. QED
        BY <3>1, <3>2
    <2>6. f[y] \in Int /\ h[X] \in Int /\ h[Z] \in Int
      BY <1>1, <2>2
    <2>7. f[y] + (h[X] + h[Z]) = h[X] + (f[y] + h[Z])
      BY <2>6
    <2>8. QED
      BY <2>4, <2>5, <2>7
  <1> HIDE DEF good
  <1>4. \A n \in Nat : n \in good
    BY <1>2, <1>3, Induction
  <1>5. \A Y \in SUBSET S : Cardinality(Y) \in Nat
    BY FS_Subset, FS_CardinalityType
  <1>6. \A X, Y \in SUBSET S : X \intersect Y = {} => h[X \union Y] = h[X] + h[Y]
    BY <1>4, <1>5 DEF good
  <1>7. QED
    BY <1>1, <1>6 DEF Additive

\* The number of elements is one.
LEMMA CountIsAdditive ==
    ASSUME NEW S, IsFiniteSet(S)
    PROVE  Additive([T \in SUBSET S |-> Cardinality(T)], S)
  <1> DEFINE m == [T \in SUBSET S |-> Cardinality(T)]
  <1>1. \A T \in SUBSET S : IsFiniteSet(T) /\ Cardinality(T) \in Nat
    BY FS_Subset, FS_CardinalityType
  <1>2. m \in [SUBSET S -> Int] /\ m[{}] = 0
    <2>1. Cardinality({}) = 0
      BY FS_EmptySet
    <2>2. \A T \in SUBSET S : Cardinality(T) \in Int
      BY <1>1
    <2>3. QED
      BY <2>1, <2>2
  <1>3. ASSUME NEW X \in SUBSET S, NEW Y \in SUBSET S, X \intersect Y = {}
        PROVE  m[X \union Y] = m[X] + m[Y]
    <2>1. Cardinality(X \union Y) = Cardinality(X) + Cardinality(Y) - Cardinality({})
      BY <1>1, <1>3, FS_Union
    <2>2. Cardinality({}) = 0 /\ Cardinality(X) \in Nat /\ Cardinality(Y) \in Nat
      BY <1>1, FS_EmptySet
    <2>3. Cardinality(X \union Y) = Cardinality(X) + Cardinality(Y)
      BY <2>1, <2>2
    <2>4. QED
      BY <2>3
  <1> HIDE DEF m
  <1>4. QED
    BY <1>2, <1>3 DEF Additive, m

\* The sum over the groups is the measure of all that is in them.
InGroups(S, part, T) == {i \in S : part[i] \in T}
OverGroups(e, m, S, part, G) == \A g \in G : e[g] = m[{i \in S : part[i] = g}]
LEMMA SumOfGroups ==
    ASSUME NEW G, IsFiniteSet(G), NEW e, NEW k, Sums(k, G, e),
           NEW S, NEW m, Additive(m, S), NEW part, OverGroups(e, m, S, part, G)
    PROVE  k[G] = m[InGroups(S, part, G)]
  <1> DEFINE good == {n \in Nat : \A T \in SUBSET G : Cardinality(T) = n => k[T] = m[InGroups(S, part, T)]}
  <1>1. 0 \in good
    <2>1. \A T \in SUBSET G : Cardinality(T) = 0 => T = {}
      BY FS_Subset, FS_EmptySet
    <2>2. InGroups(S, part, {}) = {}
      BY DEF InGroups
    <2>3. k[{}] = m[{}]
      BY DEF Sums, Additive
    <2>4. QED
      BY <2>1, <2>2, <2>3
  <1>2. ASSUME NEW n \in Nat, n \in good
        PROVE  n + 1 \in good
    <2> SUFFICES ASSUME NEW T \in SUBSET G, Cardinality(T) = n + 1
                 PROVE  k[T] = m[InGroups(S, part, T)]
      OBVIOUS
    <2>1. PICK y \in T : TRUE
      BY MoreIsNotNone
    <2> DEFINE R == T \ {y}
               X == {i \in S : part[i] = y}
               Y == InGroups(S, part, R)
    <2>2. R \in SUBSET G /\ Cardinality(R) = n
      BY TakenLeavesLess
    <2>3. k[R] = m[Y]
      BY <1>2, <2>2
    <2>4. k[T] = e[y] + k[R] /\ e[y] = m[X]
      BY DEF Sums, OverGroups
    <2>5. X \in SUBSET S /\ Y \in SUBSET S /\ X \intersect Y = {} /\ X \union Y = InGroups(S, part, T)
      BY <2>1 DEF InGroups
    <2> HIDE DEF R, X, Y
    <2>6. m[X \union Y] = m[X] + m[Y]
      BY <2>5 DEF Additive
    <2>7. QED
      BY <2>3, <2>4, <2>5, <2>6
  <1> HIDE DEF good
  <1>3. \A n \in Nat : n \in good
    BY <1>1, <1>2, Induction
  <1>4. Cardinality(G) \in Nat
    BY FS_CardinalityType
  <1>5. QED
    BY <1>3, <1>4 DEF good

\* A finite set of numbers that is not empty has a least and a greatest one.
Least(m, S) == m \in S /\ \A x \in S : m <= x
Greatest(m, S) == m \in S /\ \A x \in S : m >= x
LEMMA ExtremesExist ==
    ASSUME NEW S, IsFiniteSet(S), S # {}, S \subseteq Int
    PROVE  (\E m : Least(m, S)) /\ (\E m : Greatest(m, S))
  <1> DEFINE Both(T) == (\E m : Least(m, T)) /\ (\E m : Greatest(m, T))
             good == {n \in Nat : \A T \in SUBSET S : T # {} /\ Cardinality(T) = n => Both(T)}
  <1>1. 0 \in good
    BY FS_Subset, FS_EmptySet
  <1>2. ASSUME NEW n \in Nat, n \in good
        PROVE  n + 1 \in good
    <2> SUFFICES ASSUME NEW T \in SUBSET S, Cardinality(T) = n + 1
                 PROVE  Both(T)
      OBVIOUS
    <2>1. PICK y \in T : TRUE
      BY MoreIsNotNone
    <2> DEFINE R == T \ {y}
    <2>2. R \in SUBSET S /\ Cardinality(R) = n
      <3>1. Cardinality(R) = Cardinality(T) - 1
        BY <2>1, TakenLeavesLess
      <3>2. QED
        BY <3>1
    <2>3. y \in Int
      OBVIOUS
    <2>4. CASE R = {}
      <3>1. T = {y} /\ y <= y /\ y >= y
        <4>1. y <= y /\ y >= y
          BY <2>3
        <4>2. T = {y}
          BY <2>1, <2>4
        <4>3. QED
          BY <4>1, <4>2
      <3>2. Least(y, T) /\ Greatest(y, T)
        BY <3>1 DEF Least, Greatest
      <3>3. QED
        BY <3>2
    <2>5. CASE R # {}
      <3>1. Both(R)
        BY <1>2, <2>2, <2>5
      <3>2. PICK a : Least(a, R)
        BY <3>1
      <3>3. PICK b : Greatest(b, R)
        BY <3>1
      <3>4. \A x \in T : x \in R \/ x = y
        OBVIOUS
      <3>5. a \in Int /\ b \in Int /\ a \in T /\ b \in T /\ R \subseteq Int
        BY <3>2, <3>3 DEF Least, Greatest
      <3> HIDE DEF R
      <3>6. Least(IF a <= y THEN a ELSE y, T)
        BY <2>1, <2>3, <3>2, <3>4, <3>5 DEF Least
      <3>7. Greatest(IF b >= y THEN b ELSE y, T)
        BY <2>1, <2>3, <3>3, <3>4, <3>5 DEF Greatest
      <3>8. QED
        BY <3>6, <3>7
    <2>6. QED
      BY <2>4, <2>5
  <1> HIDE DEF good
  <1>3. \A n \in Nat : n \in good
    BY <1>1, <1>2, Induction
  <1>4. Cardinality(S) \in Nat
    BY FS_CardinalityType
  <1>5. QED
    BY <1>3, <1>4 DEF good

\* They are the minimum and the maximum.
LEMMA MinIsLeast ==
    ASSUME NEW S, S \subseteq Int
    PROVE  /\ \A m : Least(m, S) => J!Min(S) = m
           /\ \A m : Greatest(m, S) => J!Max(S) = m
  <1>1. ASSUME NEW m, Least(m, S)
        PROVE  J!Min(S) = m
    <2>1. m \in S /\ \A y \in S : m <= y
      BY <1>1 DEF Least
    <2>2. \A x \in S : (\A y \in S : x <= y) => x = m
      <3> SUFFICES ASSUME NEW x \in S, \A y \in S : x <= y
                   PROVE  x = m
        OBVIOUS
      <3>1. x <= m /\ m <= x /\ x \in Int /\ m \in Int
        BY <2>1
      <3>2. QED
        BY <3>1
    <2>3. J!Min(S) = CHOOSE x \in S : \A y \in S : x <= y
      BY DEF J!Min
    <2>4. QED
      BY <2>1, <2>2, <2>3
  <1>2. ASSUME NEW m, Greatest(m, S)
        PROVE  J!Max(S) = m
    <2>1. m \in S /\ \A y \in S : m >= y
      BY <1>2 DEF Greatest
    <2>2. \A x \in S : (\A y \in S : x >= y) => x = m
      <3> SUFFICES ASSUME NEW x \in S, \A y \in S : x >= y
                   PROVE  x = m
        OBVIOUS
      <3>1. x >= m /\ m >= x /\ x \in Int /\ m \in Int
        BY <2>1
      <3>2. QED
        BY <3>1
    <2>3. J!Max(S) = CHOOSE x \in S : \A y \in S : x >= y
      BY DEF J!Max
    <2>4. QED
      BY <2>1, <2>2, <2>3
  <1>3. QED
    BY <1>1, <1>2

------------------------------------------------------------------------------
(* Roll-ups, for any rows and groups.                                       *)

\* Rows of some group, with a value that is known or not.
AnyValue == [known : BOOLEAN, n : Int]
AnyRow == [group : STRING, value : AnyValue]
RollupDomain(in) == in.rows \in Seq(AnyRow) /\ in.rows # <<>>

\* The places of a column where a value is known, and the rows of a group.
Known(c) == {x \in DOMAIN c : c[x].known}
Rows(part, g) == {i \in DOMAIN part : part[i] = g}
Within(v, S) == [i \in S |-> v[i]]
Level(func, v, part, G) == [g \in G |-> J!Aggregate(func, Within(v, Rows(part, g)))]

\* A column of values, in groups that are all there are, none of them empty.
Grouped(v, part, G, D) == /\ IsFiniteSet(D) /\ D # {} /\ v \in [D -> AnyValue] /\ part \in [D -> G]
                          /\ \A g \in G : \E i \in D : part[i] = g

\* What each aggregate is.
LEMMA AggregateIs ==
    ASSUME NEW c, NEW S, S = Known(c)
    PROVE  /\ J!Aggregate("count", c) = J!Value(Cardinality(S))
           /\ S = {} => \A func \in {"sum", "min", "max"} : J!Aggregate(func, c) = J!Null
           /\ S # {} => /\ J!Aggregate("sum", c) = J!Value(Total([x \in S |-> c[x].n]))
                        /\ J!Aggregate("min", c) = J!Value(J!Min({c[x].n : x \in S}))
                        /\ J!Aggregate("max", c) = J!Value(J!Max({c[x].n : x \in S}))
  <1>1. \A func : J!Aggregate(func, c) =
           IF func = "count" THEN J!Value(Cardinality(S))
           ELSE IF S = {} THEN J!Null
           ELSE IF func = "sum" THEN J!Value(Total([x \in S |-> c[x].n]))
           ELSE J!Value(IF func = "min" THEN J!Min({c[x].n : x \in S}) ELSE J!Max({c[x].n : x \in S}))
    BY SameCandidateCount DEF J!Aggregate, Known, Total
  <1>2. J!Aggregate("count", c) = J!Value(Cardinality(S))
    BY <1>1
  <1>3. S = {} => \A func \in {"sum", "min", "max"} : J!Aggregate(func, c) = J!Null
    BY <1>1
  <1>4. S # {} => J!Aggregate("sum", c) = J!Value(Total([x \in S |-> c[x].n]))
    BY <1>1
  <1>5. S # {} => J!Aggregate("min", c) = J!Value(J!Min({c[x].n : x \in S}))
    BY <1>1
  <1>6. S # {} => J!Aggregate("max", c) = J!Value(J!Max({c[x].n : x \in S}))
    BY <1>1
  <1>7. QED
    BY <1>2, <1>3, <1>4, <1>5, <1>6

\* The known values of a group are those of the column in its rows.
LEMMA KnownOfGroup ==
    ASSUME NEW v, NEW part, NEW G, NEW D, Grouped(v, part, G, D), NEW g \in G
    PROVE  /\ Known(Within(v, Rows(part, g))) = {i \in Known(v) : part[i] = g}
           /\ \A i \in Known(Within(v, Rows(part, g))) : Within(v, Rows(part, g))[i] = v[i]
  BY DEF Known, Within, Rows, Grouped

\* There are finitely many groups.
LEMMA FinitelyManyGroups ==
    ASSUME NEW v, NEW part, NEW G, NEW D, Grouped(v, part, G, D)
    PROVE  /\ IsFiniteSet(G) /\ G # {}
           /\ IsFiniteSet(Known(v)) /\ Known(v) \subseteq D
           /\ \A i \in Known(v) : part[i] \in G /\ v[i].n \in Int
  <1>1. part \in Surjection(D, G)
    BY DEF Grouped, Surjection
  <1>2. IsFiniteSet(G)
    BY <1>1, FS_Surjection DEF Grouped
  <1>3. Known(v) \subseteq D
    BY DEF Known, Grouped
  <1>4. IsFiniteSet(Known(v))
    BY <1>3, FS_Subset DEF Grouped
  <1>5. \A i \in D : part[i] \in G /\ v[i].n \in Int
    <2>1. \A i \in D : v[i] \in AnyValue /\ part[i] \in G
      BY DEF Grouped
    <2>2. \A x \in AnyValue : x.n \in Int
      BY DEF AnyValue
    <2>3. QED
      BY <2>1, <2>2
  <1>6. G # {}
    BY <1>5 DEF Grouped
  <1>7. QED
    BY <1>2, <1>3, <1>4, <1>5, <1>6

\* The sum of the counts of the groups is the count.
LEMMA CountRollsUp ==
    ASSUME NEW v, NEW part, NEW G, NEW D, Grouped(v, part, G, D)
    PROVE  J!Aggregate("sum", Level("count", v, part, G)) = J!Aggregate("count", v)
  <1> DEFINE S == Known(v)
             group(g) == {i \in S : part[i] = g}
             level == Level("count", v, part, G)
             e == [g \in G |-> Cardinality(group(g))]
             m == [T \in SUBSET S |-> Cardinality(T)]
  <1>1. IsFiniteSet(G) /\ G # {} /\ IsFiniteSet(S) /\ \A i \in S : part[i] \in G
    BY FinitelyManyGroups
  <1>2. \A g \in G : level[g] = J!Value(Cardinality(group(g)))
    <2> TAKE g \in G
    <2>1. level[g] = J!Aggregate("count", Within(v, Rows(part, g)))
      BY DEF Level
    <2>2. Known(Within(v, Rows(part, g))) = group(g)
      BY KnownOfGroup
    <2>3. QED
      BY <2>1, <2>2, AggregateIs
  <1>3. Known(level) = G /\ \A g \in G : level[g].n = Cardinality(group(g))
    <2>1. \A x : J!Value(x).known = TRUE /\ J!Value(x).n = x
      BY DEF J!Value
    <2>2. DOMAIN level = G
      BY DEF Level
    <2> HIDE DEF level, group
    <2>3. QED
      BY <1>2, <2>1, <2>2 DEF Known
  <1> HIDE DEF level
  <1>4. [g \in G |-> level[g].n] = e
    BY <1>3
  <1>5. J!Aggregate("sum", level) = J!Value(Total(e))
    <2>1. J!Aggregate("sum", level) = J!Value(Total([g \in G |-> level[g].n]))
      BY <1>1, <1>3, AggregateIs
    <2>2. QED
      BY <1>4, <2>1
  <1>6. \A g \in G : group(g) \in SUBSET S /\ IsFiniteSet(group(g))
    BY <1>1, FS_Subset
  <1>7. e \in [G -> Int]
    <2>1. \A g \in G : Cardinality(group(g)) \in Int
      BY <1>6, FS_CardinalityType
    <2>2. QED
      BY <2>1
  <1>8. OverGroups(e, m, S, part, G)
    BY <1>6 DEF OverGroups
  <1> HIDE DEF e
  <1>9. PICK k : Sums(k, G, e) /\ Total(e) = k[G]
    BY <1>1, <1>7, TotalIsASum
  <1>10. Additive(m, S)
    BY <1>1, CountIsAdditive
  <1>11. m[S] = Cardinality(S)
    OBVIOUS
  <1> HIDE DEF m, S
  <1>12. k[G] = m[InGroups(S, part, G)]
    BY <1>1, <1>8, <1>9, <1>10, SumOfGroups
  <1>13. InGroups(S, part, G) = S
    BY <1>1 DEF InGroups
  <1>14. J!Aggregate("count", v) = J!Value(Cardinality(S))
    BY AggregateIs DEF S
  <1>15. QED
    BY <1>5, <1>9, <1>11, <1>12, <1>13, <1>14 DEF level

\* A group without a known value has a Null, which the roll-up skips.
LEMMA KnownOfLevel ==
    ASSUME NEW v, NEW part, NEW G, NEW D, Grouped(v, part, G, D), NEW func \in {"sum", "min", "max"}
    PROVE  /\ Known(Level(func, v, part, G)) = {g \in G : {i \in Known(v) : part[i] = g} # {}}
           /\ Known(Level(func, v, part, G)) = {} => Known(v) = {}
           /\ \A i \in Known(v) : part[i] \in Known(Level(func, v, part, G))
           /\ Known(v) = {} => Known(Level(func, v, part, G)) = {}
  <1> DEFINE S == Known(v)
             group(g) == {i \in S : part[i] = g}
             level == Level(func, v, part, G)
  <1>1. \A g \in G : level[g].known <=> group(g) # {}
    <2> TAKE g \in G
    <2> DEFINE c == Within(v, Rows(part, g))
    <2>1. level[g] = J!Aggregate(func, c)
      BY DEF Level
    <2>2. Known(c) = group(g)
      BY KnownOfGroup
    <2>3. J!Null.known = FALSE /\ \A x : J!Value(x).known = TRUE
      BY DEF J!Null, J!Value
    <2> HIDE DEF level, c, group
    <2>4. CASE group(g) = {}
      <3>1. J!Aggregate(func, c) = J!Null
        BY <2>2, <2>4, AggregateIs
      <3>2. QED
        BY <2>1, <2>3, <2>4, <3>1
    <2>5. CASE group(g) # {}
      <3>1. \E x : J!Aggregate(func, c) = J!Value(x)
        BY <2>2, <2>5, AggregateIs
      <3>2. QED
        BY <2>1, <2>3, <2>5, <3>1
    <2>6. QED
      BY <2>4, <2>5
  <1>2. DOMAIN level = G /\ \A i \in S : part[i] \in G
    BY FinitelyManyGroups DEF Level
  <1> HIDE DEF level, S
  <1>3. Known(level) = {g \in G : group(g) # {}}
    BY <1>1, <1>2 DEF Known
  <1>4. \A i \in S : part[i] \in Known(level)
    BY <1>2, <1>3
  <1>5. QED
    BY <1>3, <1>4 DEF level, S

\* The sum of the sums of the groups is the sum.
LEMMA SumRollsUp ==
    ASSUME NEW v, NEW part, NEW G, NEW D, Grouped(v, part, G, D)
    PROVE  J!Aggregate("sum", Level("sum", v, part, G)) = J!Aggregate("sum", v)
  <1> DEFINE S == Known(v)
             group(g) == {i \in S : part[i] = g}
             level == Level("sum", v, part, G)
             H == Known(level)
             f == [i \in S |-> v[i].n]
             e == [g \in H |-> level[g].n]
  <1>1. IsFiniteSet(G) /\ IsFiniteSet(S) /\ \A i \in S : part[i] \in G /\ v[i].n \in Int
    BY FinitelyManyGroups
  <1>2. /\ H = {g \in G : group(g) # {}} /\ \A i \in S : part[i] \in H
        /\ H = {} <=> S = {}
    BY KnownOfLevel
  <1>3. CASE S = {}
    <2>1. J!Aggregate("sum", level) = J!Null /\ J!Aggregate("sum", v) = J!Null
      BY <1>2, <1>3, AggregateIs
    <2>2. QED
      BY <2>1
  <1>4. CASE S # {}
    <2>1. f \in [S -> Int]
      BY <1>1
    <2>2. PICK h : Sums(h, S, f) /\ Total(f) = h[S]
      BY <1>1, <2>1, TotalIsASum
    <2>3. Additive(h, S)
      BY <1>1, <2>1, <2>2, SumIsAdditive
    <2>4. ASSUME NEW g \in H
          PROVE  level[g].n = h[group(g)]
      <3> DEFINE c == Within(v, Rows(part, g))
                 F == [x \in group(g) |-> c[x].n]
      <3>1. level[g] = J!Aggregate("sum", c) /\ g \in G /\ group(g) # {}
        BY <1>2, <2>4 DEF Level
      <3>2. Known(c) = group(g) /\ \A i \in group(g) : c[i] = v[i]
        BY <3>1, KnownOfGroup
      <3>3. J!Aggregate("sum", c) = J!Value(Total(F))
        BY <3>1, <3>2, AggregateIs
      <3>4. group(g) \subseteq S /\ \A i \in S \intersect group(g) : f[i] = F[i]
        BY <3>2
      <3>5. F \in [group(g) -> Int]
        BY <1>1, <3>2
      <3>6. IsFiniteSet(group(g))
        BY <1>1, <3>4, FS_Subset
      <3> HIDE DEF F, c, group, f
      <3>7. PICK k : Sums(k, group(g), F) /\ Total(F) = k[group(g)]
        BY <3>5, <3>6, TotalIsASum
      <3>8. \A T \in SUBSET (S \intersect group(g)) : h[T] = k[T]
        <4>1. SameOn(f, F, S \intersect group(g))
          BY <3>4 DEF SameOn
        <4>2. QED
          BY <1>1, <2>2, <3>7, <4>1, SumOfTheSame
      <3>9. group(g) \in SUBSET (S \intersect group(g))
        BY <3>4
      <3>10. J!Value(k[group(g)]).n = k[group(g)]
        BY DEF J!Value
      <3>11. QED
        BY <3>1, <3>3, <3>7, <3>8, <3>9, <3>10
    <2>5. \A g \in H : group(g) \in SUBSET S
      OBVIOUS
    <2>6. e \in [H -> Int] /\ \A g \in H : e[g] = h[group(g)]
      <3>1. \A g \in H : h[group(g)] \in Int
        BY <2>3, <2>5 DEF Additive
      <3> HIDE DEF H, level, group
      <3>2. QED
        BY <2>4, <3>1
    <2>7. IsFiniteSet(H)
      BY <1>1, <1>2, FS_Subset
    <2>8. J!Aggregate("sum", level) = J!Value(Total(e)) /\ J!Aggregate("sum", v) = J!Value(Total(f))
      <3>1. H # {}
        BY <1>2, <1>4
      <3>2. QED
        BY <1>4, <3>1, AggregateIs
    <2> HIDE DEF e, f, level, S, H
    <2>9. PICK k : Sums(k, H, e) /\ Total(e) = k[H]
      BY <2>6, <2>7, TotalIsASum
    <2>10. k[H] = h[InGroups(S, part, H)]
      <3>1. OverGroups(e, h, S, part, H)
        BY <2>6 DEF OverGroups
      <3>2. QED
        BY <2>3, <2>7, <2>9, <3>1, SumOfGroups
    <2>11. InGroups(S, part, H) = S
      BY <1>2 DEF InGroups
    <2>12. QED
      BY <2>2, <2>8, <2>9, <2>10, <2>11 DEF level
  <1>5. QED
    BY <1>3, <1>4

\* The numbers of finitely many rows are finitely many.
LEMMA FiniteNumbers ==
    ASSUME NEW v, NEW S, IsFiniteSet(S), S # {}, \A i \in S : v[i].n \in Int
    PROVE  /\ {v[x].n : x \in S} \subseteq Int /\ {v[x].n : x \in S} # {}
           /\ IsFiniteSet({v[x].n : x \in S})
  <1> DEFINE T == {v[x].n : x \in S}
             f == [x \in S |-> v[x].n]
  <1>1. f \in Surjection(S, T)
    BY DEF Surjection
  <1>2. T \subseteq Int /\ T # {}
    OBVIOUS
  <1> HIDE DEF f, T
  <1>3. IsFiniteSet(T)
    BY <1>1, FS_Surjection
  <1>4. QED
    BY <1>2, <1>3 DEF T

\* The minimum of the minima of the groups is the minimum.
LEMMA MinRollsUp ==
    ASSUME NEW v, NEW part, NEW G, NEW D, Grouped(v, part, G, D)
    PROVE  J!Aggregate("min", Level("min", v, part, G)) = J!Aggregate("min", v)
  <1> DEFINE S == Known(v)
             group(g) == {i \in S : part[i] = g}
             level == Level("min", v, part, G)
             H == Known(level)
             numbers == {v[x].n : x \in S}
             some(g) == {v[x].n : x \in group(g)}
             tops == {level[g].n : g \in H}
  <1>1. IsFiniteSet(G) /\ IsFiniteSet(S) /\ \A i \in S : part[i] \in G /\ v[i].n \in Int
    BY FinitelyManyGroups
  <1>2. /\ H = {g \in G : group(g) # {}} /\ \A i \in S : part[i] \in H
        /\ H = {} <=> S = {}
    BY KnownOfLevel
  <1>3. CASE S = {}
    <2>1. J!Aggregate("min", level) = J!Null /\ J!Aggregate("min", v) = J!Null
      BY <1>2, <1>3, AggregateIs
    <2>2. QED
      BY <2>1
  <1>4. CASE S # {}
    <2>1. numbers \subseteq Int /\ numbers # {} /\ IsFiniteSet(numbers)
      BY <1>1, <1>4, FiniteNumbers
    <2>2. PICK m : Least(m, numbers)
      BY <2>1, ExtremesExist
    <2>3. J!Aggregate("min", v) = J!Value(m)
      <3>1. J!Min(numbers) = m
        BY <2>1, <2>2, MinIsLeast
      <3>2. J!Aggregate("min", v) = J!Value(J!Min(numbers))
        BY <1>4, AggregateIs
      <3>3. QED
        BY <3>1, <3>2
    <2>4. ASSUME NEW g \in H
          PROVE  Least(level[g].n, some(g))
      <3> DEFINE c == Within(v, Rows(part, g))
      <3>1. level[g] = J!Aggregate("min", c) /\ g \in G /\ group(g) # {}
        BY <1>2, <2>4 DEF Level
      <3>2. Known(c) = group(g) /\ \A i \in group(g) : c[i] = v[i]
        BY <3>1, KnownOfGroup
      <3>3. J!Aggregate("min", c) = J!Value(J!Min({c[x].n : x \in group(g)}))
        BY <3>1, <3>2, AggregateIs
      <3>4. {c[x].n : x \in group(g)} = some(g)
        BY <3>2
      <3>5. some(g) \subseteq Int /\ some(g) # {} /\ IsFiniteSet(some(g))
        <4>1. IsFiniteSet(group(g)) /\ \A i \in group(g) : v[i].n \in Int
          BY <1>1, FS_Subset
        <4>2. QED
          BY <3>1, <4>1, FiniteNumbers
      <3> HIDE DEF c, some, level
      <3>6. PICK x : Least(x, some(g))
        BY <3>5, ExtremesExist
      <3>7. J!Min(some(g)) = x
        BY <3>5, <3>6, MinIsLeast
      <3>8. level[g].n = x
        <4>1. level[g] = J!Value(J!Min(some(g)))
          BY <3>1, <3>3, <3>4
        <4>2. J!Value(x).n = x
          BY DEF J!Value
        <4>3. QED
          BY <3>7, <4>1, <4>2
      <3>9. QED
        BY <3>6, <3>8
    <2>5. \A g \in H : some(g) \subseteq numbers
      OBVIOUS
    <2>6. tops \subseteq numbers
      BY <2>4, <2>5 DEF Least
    <2>7. m \in tops
      <3>1. PICK i \in S : m = v[i].n
        BY <2>2 DEF Least
      <3>2. part[i] \in H /\ m \in some(part[i])
        BY <1>2, <3>1
      <3> HIDE DEF some, numbers, H, level
      <3>3. level[part[i]].n <= m /\ level[part[i]].n \in numbers
        BY <2>4, <2>5, <3>2 DEF Least
      <3>4. m <= level[part[i]].n
        BY <2>2, <3>3 DEF Least
      <3>5. m \in Int /\ level[part[i]].n \in Int
        BY <2>1, <2>2, <3>3 DEF Least
      <3> DEFINE t == level[part[i]].n
      <3>6. t <= m /\ m <= t /\ t \in Int /\ m \in Int
        BY <3>3, <3>4, <3>5
      <3> HIDE DEF t
      <3>7. t = m
        BY <3>6
      <3>8. QED
        BY <3>2, <3>7 DEF t
    <2>8. Least(m, tops)
      <3> HIDE DEF tops, numbers
      <3>1. QED
        BY <2>2, <2>6, <2>7 DEF Least
    <2>9. tops \subseteq Int
      BY <2>1, <2>6
    <2>10. J!Min(tops) = m
      <3> HIDE DEF tops
      <3>1. QED
        BY <2>8, <2>9, MinIsLeast
    <2>11. J!Aggregate("min", level) = J!Value(J!Min(tops))
      <3>1. H # {}
        BY <1>2, <1>4
      <3>2. QED
        BY <3>1, AggregateIs
    <2>12. QED
      BY <2>3, <2>10, <2>11
  <1>5. QED
    BY <1>3, <1>4

\* The maximum of the maxima of the groups is the maximum.
LEMMA MaxRollsUp ==
    ASSUME NEW v, NEW part, NEW G, NEW D, Grouped(v, part, G, D)
    PROVE  J!Aggregate("max", Level("max", v, part, G)) = J!Aggregate("max", v)
  <1> DEFINE S == Known(v)
             group(g) == {i \in S : part[i] = g}
             level == Level("max", v, part, G)
             H == Known(level)
             numbers == {v[x].n : x \in S}
             some(g) == {v[x].n : x \in group(g)}
             tops == {level[g].n : g \in H}
  <1>1. IsFiniteSet(G) /\ IsFiniteSet(S) /\ \A i \in S : part[i] \in G /\ v[i].n \in Int
    BY FinitelyManyGroups
  <1>2. /\ H = {g \in G : group(g) # {}} /\ \A i \in S : part[i] \in H
        /\ H = {} <=> S = {}
    BY KnownOfLevel
  <1>3. CASE S = {}
    <2>1. J!Aggregate("max", level) = J!Null /\ J!Aggregate("max", v) = J!Null
      BY <1>2, <1>3, AggregateIs
    <2>2. QED
      BY <2>1
  <1>4. CASE S # {}
    <2>1. numbers \subseteq Int /\ numbers # {} /\ IsFiniteSet(numbers)
      BY <1>1, <1>4, FiniteNumbers
    <2>2. PICK m : Greatest(m, numbers)
      BY <2>1, ExtremesExist
    <2>3. J!Aggregate("max", v) = J!Value(m)
      <3>1. J!Max(numbers) = m
        BY <2>1, <2>2, MinIsLeast
      <3>2. J!Aggregate("max", v) = J!Value(J!Max(numbers))
        BY <1>4, AggregateIs
      <3>3. QED
        BY <3>1, <3>2
    <2>4. ASSUME NEW g \in H
          PROVE  Greatest(level[g].n, some(g))
      <3> DEFINE c == Within(v, Rows(part, g))
      <3>1. level[g] = J!Aggregate("max", c) /\ g \in G /\ group(g) # {}
        BY <1>2, <2>4 DEF Level
      <3>2. Known(c) = group(g) /\ \A i \in group(g) : c[i] = v[i]
        BY <3>1, KnownOfGroup
      <3>3. J!Aggregate("max", c) = J!Value(J!Max({c[x].n : x \in group(g)}))
        BY <3>1, <3>2, AggregateIs
      <3>4. {c[x].n : x \in group(g)} = some(g)
        BY <3>2
      <3>5. some(g) \subseteq Int /\ some(g) # {} /\ IsFiniteSet(some(g))
        <4>1. IsFiniteSet(group(g)) /\ \A i \in group(g) : v[i].n \in Int
          BY <1>1, FS_Subset
        <4>2. QED
          BY <3>1, <4>1, FiniteNumbers
      <3> HIDE DEF c, some, level
      <3>6. PICK x : Greatest(x, some(g))
        BY <3>5, ExtremesExist
      <3>7. J!Max(some(g)) = x
        BY <3>5, <3>6, MinIsLeast
      <3>8. level[g].n = x
        <4>1. level[g] = J!Value(J!Max(some(g)))
          BY <3>1, <3>3, <3>4
        <4>2. J!Value(x).n = x
          BY DEF J!Value
        <4>3. QED
          BY <3>7, <4>1, <4>2
      <3>9. QED
        BY <3>6, <3>8
    <2>5. \A g \in H : some(g) \subseteq numbers
      OBVIOUS
    <2>6. tops \subseteq numbers
      BY <2>4, <2>5 DEF Greatest
    <2>7. m \in tops
      <3>1. PICK i \in S : m = v[i].n
        BY <2>2 DEF Greatest
      <3>2. part[i] \in H /\ m \in some(part[i])
        BY <1>2, <3>1
      <3> HIDE DEF some, numbers, H, level
      <3>3. level[part[i]].n >= m /\ level[part[i]].n \in numbers
        BY <2>4, <2>5, <3>2 DEF Greatest
      <3>4. m >= level[part[i]].n
        BY <2>2, <3>3 DEF Greatest
      <3>5. m \in Int /\ level[part[i]].n \in Int
        BY <2>1, <2>2, <3>3 DEF Greatest
      <3> DEFINE t == level[part[i]].n
      <3>6. t >= m /\ m >= t /\ t \in Int /\ m \in Int
        BY <3>3, <3>4, <3>5
      <3> HIDE DEF t
      <3>7. t = m
        BY <3>6
      <3>8. QED
        BY <3>2, <3>7 DEF t
    <2>8. Greatest(m, tops)
      <3> HIDE DEF tops, numbers
      <3>1. QED
        BY <2>2, <2>6, <2>7 DEF Greatest
    <2>9. tops \subseteq Int
      BY <2>1, <2>6
    <2>10. J!Max(tops) = m
      <3> HIDE DEF tops
      <3>1. QED
        BY <2>8, <2>9, MinIsLeast
    <2>11. J!Aggregate("max", level) = J!Value(J!Max(tops))
      <3>1. H # {}
        BY <1>2, <1>4
      <3>2. QED
        BY <3>1, AggregateIs
    <2>12. QED
      BY <2>3, <2>10, <2>11
  <1>5. QED
    BY <1>3, <1>4

\* What a metric view shows over any groups is the measure over their rows.
LEMMA RollupIsAlwaysExact ==
    ASSUME NEW in, RollupDomain(in)
    PROVE  J!RollupIsExact(in)
  <1> DEFINE D == DOMAIN in.rows
             v == [x \in D |-> in.rows[x].value]
             part == [x \in D |-> in.rows[x].group]
             G == {r.group : r \in J!ToSet(in.rows)}
  <1>1. /\ in.rows \in Seq(AnyRow) /\ in.rows # <<>>
    BY DEF RollupDomain
  <1>2. Grouped(v, part, G, D)
    <2>1. IsFiniteSet(D)
      BY <1>1, FinitelyManyPlaces
    <2>2. D # {}
      <3>1. D = 1..Len(in.rows) /\ Len(in.rows) \in Nat /\ Len(in.rows) # 0
        BY <1>1, EmptySeq
      <3>2. 1 \in D
        BY <3>1
      <3>3. QED
        BY <3>2
    <2>3. \A x \in D : in.rows[x] \in AnyRow
      BY <1>1
    <2>4. v \in [D -> AnyValue]
      <3>1. \A x \in AnyRow : x.value \in AnyValue
        BY DEF AnyRow
      <3>2. QED
        BY <2>3, <3>1
    <2>5. part \in [D -> G] /\ \A g \in G : \E i \in D : part[i] = g
      BY DEF J!ToSet
    <2> HIDE DEF v, part, G, D
    <2>6. QED
      BY <2>1, <2>2, <2>4, <2>5 DEF Grouped
  <1>3. \A func : J!level1_sql(func, in.rows) = Level(func, v, part, G)
    <2> TAKE func
    <2>1. \A g : [i \in {i \in DOMAIN in.rows : in.rows[i].group = g} |-> in.rows[i].value] = Within(v, Rows(part, g))
      <3> TAKE g
      <3>1. {i \in DOMAIN in.rows : in.rows[i].group = g} = Rows(part, g) /\ Rows(part, g) \subseteq D
        BY DEF Rows
      <3>2. QED
        BY <3>1 DEF Within
    <2>2. J!level1_sql(func, in.rows) = [g \in G |-> J!Aggregate(func, [i \in {i \in DOMAIN in.rows : in.rows[i].group = g} |-> in.rows[i].value])]
      BY DEF J!level1_sql
    <2>3. QED
      BY <2>1, <2>2 DEF Level
  <1> HIDE DEF v, part, G, D
  <1>4. /\ J!Aggregate("sum", Level("count", v, part, G)) = J!Aggregate("count", v)
        /\ J!Aggregate("sum", Level("sum", v, part, G)) = J!Aggregate("sum", v)
        /\ J!Aggregate("min", Level("min", v, part, G)) = J!Aggregate("min", v)
        /\ J!Aggregate("max", Level("max", v, part, G)) = J!Aggregate("max", v)
    BY <1>2, CountRollsUp, SumRollsUp, MinRollsUp, MaxRollsUp
  <1>5. ASSUME J!Publishable(in.funcs), NEW i \in DOMAIN in.funcs
        PROVE  J!Aggregate(J!level1_model(in.funcs)[i], J!level1_sql(in.funcs[i], in.rows)) = J!Aggregate(in.funcs[i], v)
    <2> DEFINE func == in.funcs[i]
    <2>1. func \in {"sum", "count", "min", "max"}
      BY <1>5 DEF J!Publishable, J!ROLLUP, J!ToSet
    <2>2. J!level1_model(in.funcs)[i] = J!ROLLUP[func]
      BY DEF J!level1_model
    <2>3. /\ func = "count" => J!ROLLUP[func] = "sum"
          /\ func # "count" => J!ROLLUP[func] = func
      BY <2>1 DEF J!ROLLUP
    <2> HIDE DEF func
    <2>4. J!Aggregate(J!ROLLUP[func], Level(func, v, part, G)) = J!Aggregate(func, v)
      BY <1>4, <2>1, <2>3
    <2>5. QED
      BY <1>3, <2>2, <2>4 DEF func
  <1>6. QED
    BY <1>5 DEF J!RollupIsExact, v, D

------------------------------------------------------------------------------
(* Pipelines: the interpreter and the compiled view.                        *)

E == INSTANCE PipelineSemantics

\* A conjunction holds where none of its values is false or unknown.
LEMMA ConjunctionHolds ==
    ASSUME NEW fs, NEW row
    PROVE  E!Conj(fs, row) = "true"
               <=> \A f \in E!Range(fs) : E!build_filter(f, row) \notin {"false", "unknown"}
  BY DEF E!Conj, E!And

\* Predicates compiled together hold where each of them holds.
LEMMA BothHold ==
    ASSUME NEW fs, NEW groups, NEW row
    PROVE  E!And({E!Conj(fs, row), E!Groups(groups, row)}) = "true"
               <=> E!Conj(fs, row) = "true" /\ E!Groups(groups, row) = "true"
  <1>1. E!Conj(fs, row) \in {"true", "false", "unknown"}
    BY DEF E!Conj, E!And
  <1>2. E!Groups(groups, row) \in {"true", "false", "unknown"}
    BY DEF E!Groups, E!Or
  <1>3. QED
    BY <1>1, <1>2 DEF E!And

\* The values of a concatenation are those of its parts.
LEMMA ValuesOfConcatenation ==
    ASSUME NEW S, NEW T, NEW s \in Seq(S), NEW t \in Seq(T)
    PROVE  E!Range(s \o t) = E!Range(s) \union E!Range(t)
  <1>1. s \in Seq(S \union T) /\ t \in Seq(S \union T)
    <2>1. S \subseteq S \union T /\ T \subseteq S \union T
      OBVIOUS
    <2>2. QED
      BY <2>1
  <1>2. /\ DOMAIN (s \o t) = 1..(Len(s) + Len(t)) /\ DOMAIN s = 1..Len(s) /\ DOMAIN t = 1..Len(t)
        /\ \A i \in 1..(Len(s) + Len(t)) : (s \o t)[i] = IF i <= Len(s) THEN s[i] ELSE t[i - Len(s)]
        /\ Len(s) \in Nat /\ Len(t) \in Nat
    BY <1>1, ConcatProperties, LenProperties
  <1>3. ASSUME NEW x \in E!Range(s \o t)
        PROVE  x \in E!Range(s) \union E!Range(t)
    <2>1. PICK i \in 1..(Len(s) + Len(t)) : x = (s \o t)[i]
      BY <1>2, <1>3 DEF E!Range
    <2>2. CASE i <= Len(s)
      BY <1>2, <2>1, <2>2 DEF E!Range
    <2>3. CASE ~(i <= Len(s))
      <3>1. i - Len(s) \in 1..Len(t)
        BY <1>2, <2>3
      <3>2. QED
        BY <1>2, <2>1, <2>3, <3>1 DEF E!Range
    <2>4. QED
      BY <2>2, <2>3
  <1>4. ASSUME NEW x \in E!Range(s)
        PROVE  x \in E!Range(s \o t)
    <2>1. PICK i \in 1..Len(s) : x = s[i]
      BY <1>2, <1>4 DEF E!Range
    <2>2. i \in 1..(Len(s) + Len(t)) /\ i <= Len(s)
      BY <1>2
    <2>3. QED
      BY <1>2, <2>1, <2>2 DEF E!Range
  <1>5. ASSUME NEW x \in E!Range(t)
        PROVE  x \in E!Range(s \o t)
    <2>1. PICK i \in 1..Len(t) : x = t[i]
      BY <1>2, <1>5 DEF E!Range
    <2>2. i + Len(s) \in 1..(Len(s) + Len(t)) /\ ~(i + Len(s) <= Len(s)) /\ (i + Len(s)) - Len(s) = i
      BY <1>2
    <2>3. QED
      BY <1>2, <2>1, <2>2 DEF E!Range
  <1>6. QED
    BY <1>3, <1>4, <1>5

\* The filters of a table and its columns without nulls, compiled together, hold where each does.
LEMMA FiltersAndNullsHold ==
    ASSUME NEW fs, NEW nulls, NEW row, fs \in Seq(E!Range(fs)), nulls \in Seq(E!Range(nulls))
    PROVE  E!Conj(fs \o E!NotNull(nulls), row) = "true"
               <=> E!Conj(fs, row) = "true" /\ \A c \in E!Range(nulls) : row[c] # E!Null
  <1> DEFINE ns == E!NotNull(nulls)
  <1>1. ns \in Seq(E!Range(ns)) /\ DOMAIN ns = DOMAIN nulls
    <2>1. DOMAIN nulls = 1..Len(nulls) /\ Len(nulls) \in Nat
      OBVIOUS
    <2>2. DOMAIN ns = 1..Len(nulls)
      BY <2>1 DEF E!NotNull
    <2>3. ns = [i \in 1..Len(nulls) |-> ns[i]] /\ \A i \in 1..Len(nulls) : ns[i] \in E!Range(ns)
      BY <2>1, <2>2 DEF E!NotNull, E!Range
    <2> HIDE DEF ns
    <2>4. QED
      BY <2>1, <2>2, <2>3
  <1>2. E!Range(fs \o ns) = E!Range(fs) \union E!Range(ns)
    <2> HIDE DEF ns
    <2>1. QED
      BY <1>1, ValuesOfConcatenation
  <1>3. ASSUME NEW i \in DOMAIN nulls
        PROVE  /\ ns[i] \in E!Range(ns) /\ nulls[i] \in E!Range(nulls)
               /\ E!build_filter(ns[i], row) \notin {"false", "unknown"} <=> row[nulls[i]] # E!Null
    <2>1. ns[i] = [column |-> nulls[i], operator |-> "is_not_null", value |-> 0]
      BY DEF E!NotNull
    <2>2. E!build_filter(ns[i], row) = IF row[nulls[i]] # E!Null THEN "true" ELSE "false"
      BY <2>1 DEF E!build_filter
    <2>3. QED
      BY <1>1, <2>2 DEF E!Range
  <1>4. (\A f \in E!Range(ns) : E!build_filter(f, row) \notin {"false", "unknown"})
            <=> \A c \in E!Range(nulls) : row[c] # E!Null
    <2>1. \A f \in E!Range(ns) : \E i \in DOMAIN nulls : f = ns[i]
      BY <1>1 DEF E!Range
    <2>2. \A c \in E!Range(nulls) : \E i \in DOMAIN nulls : c = nulls[i]
      BY DEF E!Range
    <2> HIDE DEF ns
    <2>3. QED
      BY <1>3, <2>1, <2>2
  <1>5. QED
    BY <1>2, <1>4, ConjunctionHolds

\* A table that the interpreter loads is the one that its common table expression selects.
LEMMA TablesAgree ==
    ASSUME NEW t, NEW rows, t.filters \in Seq(E!Range(t.filters)), t.dropNulls \in Seq(E!Range(t.dropNulls))
    PROVE  E!LoadTable(t, rows) = E!_compile_table_cte(t, rows)
  <1> DEFINE first == [o \in {i \in DOMAIN rows : E!Conj(t.filters, rows[i]) = "true"} |-> rows[o]]
             second == E!drop_nulls(first, t.dropNulls)
             third == [o \in {i \in DOMAIN second : E!Groups(t.groups, second[i]) = "true"} |-> second[o]]
             kept == [o \in {i \in DOMAIN rows : E!_compile_predicates(t.filters, t.dropNulls, t.groups, rows[i]) = "true"} |-> rows[o]]
  <1>1. ASSUME NEW row
        PROVE  E!_compile_predicates(t.filters, t.dropNulls, t.groups, row) = "true"
                   <=> /\ E!Conj(t.filters, row) = "true" /\ E!Groups(t.groups, row) = "true"
                       /\ \A c \in E!Range(t.dropNulls) : row[c] # E!Null
    <2>1. E!_compile_predicates(t.filters, t.dropNulls, t.groups, row)
              = E!And({E!Conj(t.filters \o E!NotNull(t.dropNulls), row), E!Groups(t.groups, row)})
      BY DEF E!_compile_predicates
    <2>2. E!_compile_predicates(t.filters, t.dropNulls, t.groups, row) = "true"
              <=> E!Conj(t.filters \o E!NotNull(t.dropNulls), row) = "true" /\ E!Groups(t.groups, row) = "true"
      BY <2>1, BothHold
    <2>3. E!Conj(t.filters \o E!NotNull(t.dropNulls), row) = "true"
              <=> E!Conj(t.filters, row) = "true" /\ \A c \in E!Range(t.dropNulls) : row[c] # E!Null
      BY FiltersAndNullsHold
    <2>4. QED
      BY <2>2, <2>3
  <1>2. second = [o \in {i \in DOMAIN rows : E!Conj(t.filters, rows[i]) = "true" /\ \A c \in E!Range(t.dropNulls) : rows[i][c] # E!Null} |-> rows[o]]
    BY DEF E!drop_nulls
  <1>3. third = kept
    <2> HIDE DEF second
    <2>1. QED
      BY <1>1, <1>2
  <1>4. QED
    BY <1>3 DEF E!LoadTable, E!_compile_table_cte, E!filter

\* What each join, or each added column, makes of what there is before it.
JoinedBy(s, data, left, n) ==
    LET j == s.joins[n]
        keys == [l \in DOMAIN left |-> [i \in DOMAIN j.onFrom |-> left[l][j.onFrom[i]]]]
    IN  E!JoinTables(left, keys, E!LoadTable(s.tables[j.to], data[j.to]), j, E!Columns(s)[n - 1], E!Shown(s, j))
TreeRows(s, data, tree, n) ==
    LET j == s.joins[n]
    IN  E!JoinTables(tree.rows, E!LeftKeys(s, data, tree, j), E!_compile_table_cte(s.tables[j.to], data[j.to]), j,
                     E!AllColumns(s)[n - 1], E!Visible(s, j))
TreeBy(s, data, tree, n) ==
    [rows |-> TreeRows(s, data, tree, n),
     own  |-> [o \in DOMAIN TreeRows(s, data, tree, n) |-> [t \in DOMAIN s.tables |->
                   IF t = s.joins[n].to THEN o[2] ELSE IF o[1] = {} THEN {} ELSE tree.own[E!One(o[1])][t]]]]
PipelineStep(what, s, data, x, n) ==
    IF what = "columns" THEN x \union E!Shown(s, s.joins[n])
    ELSE IF what = "all columns" THEN x \union E!Visible(s, s.joins[n])
    ELSE IF what = "rows" THEN JoinedBy(s, data, x, n)
    ELSE IF what = "tree" THEN TreeBy(s, data, x, n)
    ELSE E!with_column(x, s[n])

InTurn(f, what, s, data, start, n) ==
    f = [k \in 0..n |-> IF k = 0 THEN start ELSE PipelineStep(what, s, data, f[k - 1], k)]

\* One step after the other, from the first on.
LEMMA StepsInTurn ==
    ASSUME NEW what, NEW s, NEW data, NEW start, NEW n \in Nat
    PROVE  \E f : InTurn(f, what, s, data, start, n)
  <1> DEFINE Step(k, q) == PipelineStep(what, s, data, q, k)
             Run(f, m) == f = [k \in 0..m |-> IF k = 0 THEN start ELSE Step(k, f[k - 1])]
             T == {m \in Nat : \E f : Run(f, m)}
  <1> HIDE DEF Step
  <1>1. 0 \in T
    <2> DEFINE f == [k \in 0..0 |-> start]
    <2>1. Run(f, 0)
      OBVIOUS
    <2> HIDE DEF f, Run
    <2>2. QED
      BY <2>1
  <1>2. ASSUME NEW m \in Nat, NEW f, Run(f, m)
        PROVE  \E g : Run(g, m + 1)
    <2> DEFINE x == Step(m + 1, f[m])
               g == [k \in 0..(m + 1) |-> IF k <= m THEN f[k] ELSE x]
    <2>1. /\ 0 \in 0..m /\ 0 \in 0..(m + 1) /\ 0 <= m
          /\ \A k \in 1..m : k \in 0..m /\ k # 0 /\ k <= m /\ k \in 0..(m + 1) /\ k - 1 \in 0..(m + 1) /\ k - 1 <= m
          /\ m \in 0..(m + 1) /\ m <= m /\ m + 1 \in 0..(m + 1) /\ ~(m + 1 <= m) /\ (m + 1) - 1 = m /\ m + 1 # 0
          /\ \A k \in 0..(m + 1) : k = 0 \/ k \in 1..m \/ k = m + 1
      OBVIOUS
    <2>2. f[0] = start /\ \A k \in 1..m : f[k] = Step(k, f[k - 1])
      BY <1>2, <2>1
    <2> HIDE DEF x
    <2>3. /\ g[0] = f[0] /\ g[m] = f[m] /\ g[m + 1] = x
          /\ \A k \in 1..m : g[k] = f[k] /\ g[k - 1] = f[k - 1]
      BY <2>1
    <2>4. g = [k \in 0..(m + 1) |-> g[k]]
      OBVIOUS
    <2> HIDE DEF g
    <2>5. ASSUME NEW k \in 0..(m + 1)
          PROVE  g[k] = IF k = 0 THEN start ELSE Step(k, g[k - 1])
      <3>1. CASE k = 0
        BY <2>2, <2>3, <3>1
      <3>2. CASE k \in 1..m
        BY <2>1, <2>2, <2>3, <3>2
      <3>3. CASE k = m + 1
        <4>1. k # 0 /\ k - 1 = m
          BY <2>1, <3>3
        <4>2. QED
          BY <2>3, <3>3, <4>1 DEF x
      <3>4. QED
        BY <2>1, <3>1, <3>2, <3>3
    <2>6. Run(g, m + 1)
      BY <2>4, <2>5
    <2> HIDE DEF Run
    <2>7. QED
      BY <2>6
  <1> HIDE DEF Run
  <1>3. \A m \in Nat : m \in T => m + 1 \in T
    BY <1>2
  <1>4. n \in T
    <2> HIDE DEF T
    <2>1. QED
      BY <1>1, <1>3, Induction
  <1>5. PICK f : Run(f, n)
    BY <1>4
  <1>6. QED
    BY <1>5 DEF Run, Step, InTurn

\* The columns grow by those of each joined table.
LEMMA ColumnsInTurn ==
    ASSUME NEW s, Len(s.joins) \in Nat
    PROVE  /\ E!Columns(s)[0] = E!ColumnsOf(s.tables[s.base])
           /\ \A n \in 1..Len(s.joins) : E!Columns(s)[n] = E!Columns(s)[n - 1] \union E!Shown(s, s.joins[n])
  <1> DEFINE m == Len(s.joins)
             Run(f) == f = [n \in 0..m |-> IF n = 0 THEN E!ColumnsOf(s.tables[s.base]) ELSE f[n - 1] \union E!Shown(s, s.joins[n])]
             c == CHOOSE f : Run(f)
  <1>1. PICK f : InTurn(f, "columns", s, 0, E!ColumnsOf(s.tables[s.base]), m)
    BY StepsInTurn
  <1>2. Run(f)
    BY <1>1 DEF InTurn, PipelineStep
  <1>3. E!Columns(s) = c
    BY DEF E!Columns
  <1>4. Run(c)
    <2> HIDE DEF Run
    <2>1. QED
      BY <1>2
  <1> HIDE DEF c
  <1>5. QED
    BY <1>3, <1>4

\* So do those that the join tree has.
LEMMA AllColumnsInTurn ==
    ASSUME NEW s, Len(s.joins) \in Nat
    PROVE  /\ E!AllColumns(s)[0] = E!ColumnsOf(s.tables[s.base])
           /\ \A n \in 1..Len(s.joins) : E!AllColumns(s)[n] = E!AllColumns(s)[n - 1] \union E!Visible(s, s.joins[n])
  <1> DEFINE m == Len(s.joins)
             Run(f) == f = [n \in 0..m |-> IF n = 0 THEN E!ColumnsOf(s.tables[s.base]) ELSE f[n - 1] \union E!Visible(s, s.joins[n])]
             c == CHOOSE f : Run(f)
  <1>1. PICK f : InTurn(f, "all columns", s, 0, E!ColumnsOf(s.tables[s.base]), m)
    BY StepsInTurn
  <1>2. Run(f)
    BY <1>1 DEF InTurn, PipelineStep
  <1>3. E!AllColumns(s) = c
    BY DEF E!AllColumns
  <1>4. Run(c)
    <2> HIDE DEF Run
    <2>1. QED
      BY <1>2
  <1> HIDE DEF c
  <1>5. QED
    BY <1>3, <1>4

\* The joins of the interpreter.
LEMMA JoinedInTurn ==
    ASSUME NEW s, NEW data, Len(s.joins) \in Nat
    PROVE  /\ E!Joined(s, data)[0] = E!LoadTable(s.tables[s.base], data[s.base])
           /\ \A n \in 1..Len(s.joins) : E!Joined(s, data)[n] = JoinedBy(s, data, E!Joined(s, data)[n - 1], n)
  <1> DEFINE m == Len(s.joins)
             start == E!LoadTable(s.tables[s.base], data[s.base])
             Run(f) == f = [n \in 0..m |-> IF n = 0 THEN start ELSE JoinedBy(s, data, f[n - 1], n)]
             c == CHOOSE f : Run(f)
  <1>1. PICK f : InTurn(f, "rows", s, data, start, m)
    BY StepsInTurn
  <1>2. Run(f)
    BY <1>1 DEF InTurn, PipelineStep
  <1>3. E!Joined(s, data) = c
    BY DEF E!Joined, JoinedBy
  <1>4. Run(c)
    <2> HIDE DEF Run
    <2>1. QED
      BY <1>2
  <1> HIDE DEF c
  <1>5. QED
    BY <1>3, <1>4

TreeStart(s, data) ==
    LET base == E!_compile_table_cte(s.tables[s.base], data[s.base])
    IN  [rows |-> base, own |-> [o \in DOMAIN base |-> [t \in DOMAIN s.tables |-> IF t = s.base THEN {o} ELSE {}]]]

\* The join tree of the view.
LEMMA TreeInTurn ==
    ASSUME NEW s, NEW data, Len(s.joins) \in Nat
    PROVE  /\ E!_compile_join_tree(s, data)[0] = TreeStart(s, data)
           /\ \A n \in 1..Len(s.joins) : E!_compile_join_tree(s, data)[n] = TreeBy(s, data, E!_compile_join_tree(s, data)[n - 1], n)
  <1> DEFINE m == Len(s.joins)
             start == TreeStart(s, data)
             Run(f) == f = [n \in 0..m |-> IF n = 0 THEN start ELSE TreeBy(s, data, f[n - 1], n)]
             c == CHOOSE f : Run(f)
  <1>1. PICK f : InTurn(f, "tree", s, data, start, m)
    BY StepsInTurn
  <1>2. Run(f)
    BY <1>1 DEF InTurn, PipelineStep
  <1>3. E!_compile_join_tree(s, data) = c
    BY DEF E!_compile_join_tree, TreeStart, TreeBy, TreeRows
  <1>4. Run(c)
    <2> HIDE DEF Run
    <2>1. QED
      BY <1>2
  <1> HIDE DEF c
  <1>5. QED
    BY <1>3, <1>4

\* Pipelines that name tables, columns and kinds of join that there are: what the loader and the
\* first run of a pipeline refuse is left out.
Over(row, columns) == row = [c \in columns |-> row[c]]
JoinTypes == {"inner", "left", "right", "full", "left_semi", "left_anti"}
TablesThere(s, n) == {s.base} \union {s.joins[k].to : k \in {i \in 1..n : s.joins[i].type \notin E!_LEFT_ONLY_JOIN_TYPES}}
TablesFit(s, data) ==
    \A t \in DOMAIN s.tables :
        /\ s.tables[t].filters \in Seq(E!Range(s.tables[t].filters)) /\ s.tables[t].dropNulls \in Seq(E!Range(s.tables[t].dropNulls))
        /\ \A o \in DOMAIN data[t] : Over(data[t][o], s.tables[t].columns)
JoinFits(s, n) ==
    LET j == s.joins[n]
        columns == E!ColumnsOf(s.tables[j.to])
    IN  /\ j.type \in JoinTypes /\ j.from \in TablesThere(s, n - 1) /\ j.to \in DOMAIN s.tables \ TablesThere(s, n - 1)
        /\ E!Range(j.onFrom) \subseteq E!Columns(s)[n - 1]
        /\ j.onFrom # j.onTo => E!Range(j.onFrom) \subseteq E!ColumnsOf(s.tables[j.from])
        /\ j.type \notin E!_LEFT_ONLY_JOIN_TYPES =>
              columns \intersect E!AllColumns(s)[n - 1] \subseteq IF j.onFrom = j.onTo THEN E!Range(j.onTo) ELSE {}
JoinsFit(s) ==
    /\ DOMAIN s.joins = 1..Len(s.joins) /\ Len(s.joins) \in Nat /\ s.base \in DOMAIN s.tables
    /\ \A n \in 1..Len(s.joins) : JoinFits(s, n)

\* The rows of a loaded table have its columns.
LEMMA LoadedColumns ==
    ASSUME NEW t, NEW rows, \A o \in DOMAIN rows : Over(rows[o], t.columns), NEW o \in DOMAIN E!LoadTable(t, rows)
    PROVE  Over(E!LoadTable(t, rows)[o], E!ColumnsOf(t))
  <1> DEFINE first == E!filter(rows, LAMBDA row : E!Conj(t.filters, row))
             second == E!drop_nulls(first, t.dropNulls)
             third == E!filter(second, LAMBDA row : E!Groups(t.groups, row))
  <1>1. \A i \in DOMAIN first : i \in DOMAIN rows /\ first[i] = rows[i]
    BY DEF E!filter
  <1> HIDE DEF first
  <1>2. \A i \in DOMAIN second : i \in DOMAIN first /\ second[i] = first[i]
    BY DEF E!drop_nulls
  <1> HIDE DEF second
  <1>3. \A i \in DOMAIN third : i \in DOMAIN second /\ third[i] = second[i]
    BY DEF E!filter
  <1> HIDE DEF third
  <1>4. E!LoadTable(t, rows) = IF t.fields = <<>> THEN third ELSE E!select(third, t.fields)
    BY DEF E!LoadTable, first, second, third
  <1>5. CASE t.fields = <<>>
    BY <1>1, <1>2, <1>3, <1>4, <1>5 DEF E!ColumnsOf
  <1>6. CASE t.fields # <<>>
    <2>1. E!LoadTable(t, rows) = E!select(third, t.fields)
      BY <1>4, <1>6
    <2>2. Over(E!LoadTable(t, rows)[o], E!Targets(t.fields))
      BY <2>1 DEF E!select, Over
    <2>3. QED
      BY <1>6, <2>2 DEF E!ColumnsOf
  <1>7. QED
    BY <1>5, <1>6

\* The columns that the interpreter has are among those of the join tree, and so are those of each
\* table that is there.
LEMMA ColumnsIncluded ==
    ASSUME NEW s, JoinsFit(s), NEW n \in 0..Len(s.joins)
    PROVE  /\ E!Columns(s)[n] \subseteq E!AllColumns(s)[n]
           /\ \A t \in TablesThere(s, n) : E!ColumnsOf(s.tables[t]) \subseteq E!AllColumns(s)[n]
  <1> DEFINE m == Len(s.joins)
             good(k) == /\ E!Columns(s)[k] \subseteq E!AllColumns(s)[k]
                        /\ \A t \in TablesThere(s, k) : E!ColumnsOf(s.tables[t]) \subseteq E!AllColumns(s)[k]
             T == {k \in Nat : k <= m => good(k)}
  <1>0. m \in Nat
    BY DEF JoinsFit
  <1>1. 0 \in T
    <2>1. E!Columns(s)[0] = E!AllColumns(s)[0] /\ E!AllColumns(s)[0] = E!ColumnsOf(s.tables[s.base])
      BY <1>0, ColumnsInTurn, AllColumnsInTurn
    <2>2. TablesThere(s, 0) = {s.base}
      BY DEF TablesThere
    <2>3. QED
      BY <2>1, <2>2
  <1>2. ASSUME NEW k \in Nat, k \in T
        PROVE  k + 1 \in T
    <2> SUFFICES ASSUME k + 1 <= m
                 PROVE  good(k + 1)
      OBVIOUS
    <2> DEFINE j == s.joins[k + 1]
    <2>1. good(k) /\ k + 1 \in 1..m /\ (k + 1) - 1 = k
      BY <1>0, <1>2
    <2>2. /\ E!Columns(s)[k + 1] = E!Columns(s)[k] \union E!Shown(s, j)
          /\ E!AllColumns(s)[k + 1] = E!AllColumns(s)[k] \union E!Visible(s, j)
      BY <1>0, <2>1, ColumnsInTurn, AllColumnsInTurn
    <2>3. E!Shown(s, j) \subseteq E!Visible(s, j)
      BY DEF E!Shown, E!Visible
    <2>4. ASSUME NEW t \in TablesThere(s, k + 1)
          PROVE  t \in TablesThere(s, k) \/ (t = j.to /\ j.type \notin E!_LEFT_ONLY_JOIN_TYPES)
      BY <1>0, <2>1 DEF TablesThere
    <2>5. j.type \notin E!_LEFT_ONLY_JOIN_TYPES => E!Visible(s, j) = E!ColumnsOf(s.tables[j.to])
      BY DEF E!Visible
    <2>6. QED
      BY <2>1, <2>2, <2>3, <2>4, <2>5
  <1> HIDE DEF T
  <1>3. n \in T
    BY <1>1, <1>2, Induction
  <1>4. QED
    BY <1>3 DEF T

\* An occurrence of a join is at most one of the left with at most one of the right.
LEMMA OccurrenceOf ==
    ASSUME NEW keys, NEW right, NEW j, j.type \in JoinTypes, NEW o \in E!Occurrences(keys, right, j)
    PROVE  /\ o[1] = {} \/ \E l \in DOMAIN keys : o[1] = {l}
           /\ j.type \in E!_LEFT_ONLY_JOIN_TYPES => o[2] = {} /\ o[1] # {}
  <1> DEFINE partners(l) == {r \in DOMAIN right : E!Matches(keys[l], right[r], j)}
             both == UNION {{<<{l}, {r}>> : r \in partners(l)} : l \in DOMAIN keys}
             partnered == {<<{l}, {}>> : l \in {k \in DOMAIN keys : partners(k) # {}}}
             alone == {<<{l}, {}>> : l \in {k \in DOMAIN keys : partners(k) = {}}}
             strangers == {<<{}, {r}>> : r \in DOMAIN right \ UNION {partners(l) : l \in DOMAIN keys}}
  <1>1. E!Occurrences(keys, right, j) =
            CASE j.type = "inner" -> both [] j.type = "left" -> both \union alone [] j.type = "right" -> both \union strangers
              [] j.type = "full" -> both \union alone \union strangers [] j.type = "left_semi" -> partnered [] j.type = "left_anti" -> alone
    BY DEF E!Occurrences
  <1>2. \A x \in both : \E l \in DOMAIN keys : x[1] = {l}
    OBVIOUS
  <1>3. \A x \in partnered : x[2] = {} /\ \E l \in DOMAIN keys : x[1] = {l}
    OBVIOUS
  <1>4. \A x \in alone : x[2] = {} /\ \E l \in DOMAIN keys : x[1] = {l}
    OBVIOUS
  <1>5. \A x \in strangers : x[1] = {}
    OBVIOUS
  <1> HIDE DEF both, partnered, alone, strangers
  <1>6. j.type \in E!_LEFT_ONLY_JOIN_TYPES => o \in partnered \union alone
    BY <1>1 DEF E!_LEFT_ONLY_JOIN_TYPES
  <1>7. o \in both \union alone \union strangers \union partnered
    BY <1>1 DEF JoinTypes
  <1>8. QED
    BY <1>2, <1>3, <1>4, <1>5, <1>6, <1>7

\* What an occurrence of a join has on its left is there.
LEMMA LeftOf ==
    ASSUME NEW keys, NEW right, NEW j, j.type \in JoinTypes, NEW o \in E!Occurrences(keys, right, j), o[1] # {}
    PROVE  E!One(o[1]) \in DOMAIN keys
  <1>1. PICK l \in DOMAIN keys : o[1] = {l}
    BY OccurrenceOf
  <1>2. E!One(o[1]) \in o[1]
    BY <1>1 DEF E!One
  <1>3. QED
    BY <1>1, <1>2

ValuesJoined(row, o, R, right, B, V) ==
    /\ DOMAIN row = B \union V /\ Over(row, B \union V)
    /\ \A c \in B : o[1] # {} => row[c] = R[E!One(o[1])][c]
    /\ \A c \in B \ V : o[1] = {} => row[c] = E!Null
    /\ \A c \in V : o[1] = {} \/ c \notin B => row[c] = IF o[2] = {} THEN E!Null ELSE right[E!One(o[2])][c]

\* The values of a column that one side has.
LEMMA JoinValues ==
    ASSUME NEW R, NEW keys, NEW right, NEW j, NEW B, NEW V, NEW o \in E!Occurrences(keys, right, j)
    PROVE  ValuesJoined(E!JoinTables(R, keys, right, j, B, V)[o], o, R, right, B, V)
  <1> DEFINE r == E!JoinTables(R, keys, right, j, B, V)
  <1>1. r[o] = E!Merge(R, right, o, B, V)
    BY DEF E!JoinTables
  <1>2. r[o] = [c \in B \union V |-> IF c \in B /\ o[1] # {} THEN R[E!One(o[1])][c]
                                     ELSE IF c \in V /\ o[2] # {} THEN right[E!One(o[2])][c] ELSE E!Null]
    BY <1>1 DEF E!Merge
  <1> HIDE DEF r
  <1>3. QED
    BY <1>2 DEF r, Over, ValuesJoined

JoinsMatch(L, R, keys, right, j, A, B, S, V) ==
    LET l == E!JoinTables(L, keys, right, j, A, S)
        r == E!JoinTables(R, keys, right, j, B, V)
    IN  /\ DOMAIN l = E!Occurrences(keys, right, j) /\ DOMAIN r = E!Occurrences(keys, right, j)
        /\ \A o \in DOMAIN r : /\ Over(l[o], A \union S) /\ DOMAIN r[o] = B \union V
                              /\ \A c \in A \union S : l[o][c] = r[o][c]

\* Joins of tables that agree agree, where the columns that only one of them has are not in question.
LEMMA JoinsAgree ==
    ASSUME NEW L, NEW R, NEW keys, NEW right, NEW j, j.type \in JoinTypes, NEW A, NEW B, NEW S, NEW V,
           A \subseteq B, S \subseteq V, V \intersect A \subseteq S, S \intersect B \subseteq A,
           DOMAIN keys = DOMAIN R, \A o \in DOMAIN R : \A c \in A : L[o][c] = R[o][c]
    PROVE  JoinsMatch(L, R, keys, right, j, A, B, S, V)
  <1> DEFINE l == E!JoinTables(L, keys, right, j, A, S)
             r == E!JoinTables(R, keys, right, j, B, V)
             O == E!Occurrences(keys, right, j)
  <1>1. DOMAIN l = O /\ DOMAIN r = O
    BY DEF E!JoinTables
  <1>2. ASSUME NEW o \in O
        PROVE  Over(l[o], A \union S) /\ DOMAIN r[o] = B \union V /\ \A c \in A \union S : l[o][c] = r[o][c]
    <2>1. ValuesJoined(l[o], o, L, right, A, S)
      BY JoinValues
    <2>2. ValuesJoined(r[o], o, R, right, B, V)
      BY JoinValues
    <2>3. o[1] # {} => E!One(o[1]) \in DOMAIN R
      BY LeftOf
    <2> HIDE DEF l, r, O
    <2>4. ASSUME NEW c \in A \union S
          PROVE  l[o][c] = r[o][c]
      <3>1. CASE c \in A /\ o[1] # {}
        BY <2>1, <2>2, <2>3, <3>1 DEF ValuesJoined
      <3>2. CASE c \in A /\ o[1] = {}
        BY <2>1, <2>2, <3>2 DEF ValuesJoined
      <3>3. CASE c \notin A
        BY <2>1, <2>2, <3>3 DEF ValuesJoined
      <3>4. QED
        BY <3>1, <3>2, <3>3
    <2>5. QED
      BY <2>1, <2>2, <2>4 DEF ValuesJoined
  <1> HIDE DEF l, r, O
  <1>3. QED
    BY <1>1, <1>2 DEF l, r, O, JoinsMatch

\* What the interpreter has after n joins, and the join tree of the view: the same occurrences, that
\* agree on the columns of the interpreter; a column that no join merged is that of its own table.
Unmerged(s, n, c) == \A k \in 1..n : ~E!Merged(s.joins[k], c)
OwnValue(s, data, tree, o, t, c) ==
    IF tree.own[o][t] = {} THEN E!Null ELSE E!_compile_table_cte(s.tables[t], data[t])[E!One(tree.own[o][t])][c]
RowsAgree(s, left, tree, n) ==
    /\ DOMAIN left = DOMAIN tree.rows
    /\ \A o \in DOMAIN tree.rows :
          /\ Over(left[o], E!Columns(s)[n]) /\ DOMAIN tree.rows[o] = E!AllColumns(s)[n]
          /\ \A c \in E!Columns(s)[n] : left[o][c] = tree.rows[o][c]
OwnAgrees(s, data, tree, n) ==
    \A o \in DOMAIN tree.rows, t \in TablesThere(s, n) : \A c \in E!ColumnsOf(s.tables[t]) :
        Unmerged(s, n, c) => tree.rows[o][c] = OwnValue(s, data, tree, o, t, c)

\* Both compare the same keys.
LEMMA KeysAgree ==
    ASSUME NEW s, NEW data, JoinsFit(s), E!KeysApart(s), NEW n \in 1..Len(s.joins), NEW left, NEW tree,
           RowsAgree(s, left, tree, n - 1), OwnAgrees(s, data, tree, n - 1)
    PROVE  LET j == s.joins[n]
           IN  E!LeftKeys(s, data, tree, j) = [l \in DOMAIN left |-> [i \in DOMAIN j.onFrom |-> left[l][j.onFrom[i]]]]
  <1> DEFINE j == s.joins[n]
             named == E!_compile_table_cte(s.tables[j.from], data[j.from])
             value(l, c) == IF j.onFrom = j.onTo THEN tree.rows[l][c]
                            ELSE IF tree.own[l][j.from] = {} THEN E!Null ELSE named[E!One(tree.own[l][j.from])][c]
  <1>1. E!LeftKeys(s, data, tree, j) = [l \in DOMAIN tree.rows |-> [i \in DOMAIN j.onFrom |-> value(l, j.onFrom[i])]]
    BY DEF E!LeftKeys
  <1>2. JoinFits(s, n) /\ n \in DOMAIN s.joins
    BY DEF JoinsFit
  <1>3. DOMAIN left = DOMAIN tree.rows
    BY DEF RowsAgree
  <1>4. ASSUME NEW l \in DOMAIN tree.rows, NEW i \in DOMAIN j.onFrom
        PROVE  value(l, j.onFrom[i]) = left[l][j.onFrom[i]]
    <2> DEFINE c == j.onFrom[i]
    <2>1. c \in E!Range(j.onFrom)
      BY DEF E!Range
    <2>2. c \in E!Columns(s)[n - 1]
      BY <1>2, <2>1 DEF JoinFits
    <2>3. left[l][c] = tree.rows[l][c]
      BY <2>2 DEF RowsAgree
    <2>4. CASE j.onFrom = j.onTo
      BY <2>3, <2>4
    <2>5. CASE j.onFrom # j.onTo
      <3>1. j.from \in TablesThere(s, n - 1) /\ c \in E!ColumnsOf(s.tables[j.from])
        BY <1>2, <2>1, <2>5 DEF JoinFits
      <3>2. Unmerged(s, n - 1, c)
        BY <1>2, <2>1, <2>5 DEF E!KeysApart, Unmerged
      <3>3. tree.rows[l][c] = OwnValue(s, data, tree, l, j.from, c)
        BY <3>1, <3>2 DEF OwnAgrees
      <3>4. QED
        BY <2>3, <2>5, <3>3 DEF OwnValue
    <2>6. QED
      BY <2>4, <2>5
  <1> HIDE DEF value
  <1>5. QED
    BY <1>1, <1>3, <1>4

\* A join keeps the agreement.
LEMMA JoinKeepsAgreement ==
    ASSUME NEW s, NEW data, JoinsFit(s), TablesFit(s, data), E!KeysApart(s), NEW n \in 1..Len(s.joins), NEW left, NEW tree,
           RowsAgree(s, left, tree, n - 1), OwnAgrees(s, data, tree, n - 1)
    PROVE  RowsAgree(s, JoinedBy(s, data, left, n), TreeBy(s, data, tree, n), n) /\ OwnAgrees(s, data, TreeBy(s, data, tree, n), n)
  <1> DEFINE j == s.joins[n]
             keys == E!LeftKeys(s, data, tree, j)
             right == E!_compile_table_cte(s.tables[j.to], data[j.to])
             A == E!Columns(s)[n - 1]
             B == E!AllColumns(s)[n - 1]
             S == E!Shown(s, j)
             V == E!Visible(s, j)
             new == E!JoinTables(tree.rows, keys, right, j, B, V)
             after == TreeBy(s, data, tree, n)
  <1>1. JoinFits(s, n) /\ n - 1 \in 0..Len(s.joins) /\ Len(s.joins) \in Nat
    BY DEF JoinsFit
  <1>2. j.type \in JoinTypes /\ j.to \in DOMAIN s.tables /\ j.to \notin TablesThere(s, n - 1)
    BY <1>1 DEF JoinFits
  <1>3. right = E!LoadTable(s.tables[j.to], data[j.to])
    BY <1>2, TablesAgree DEF TablesFit
  <1>4. keys = [l \in DOMAIN left |-> [i \in DOMAIN j.onFrom |-> left[l][j.onFrom[i]]]]
    BY KeysAgree
  <1>5. DOMAIN keys = DOMAIN tree.rows
    BY DEF E!LeftKeys
  <1>6. JoinedBy(s, data, left, n) = E!JoinTables(left, keys, right, j, A, S)
    BY <1>3, <1>4 DEF JoinedBy
  <1>7. after.rows = new /\ after.own = [o \in DOMAIN new |-> [t \in DOMAIN s.tables |->
            IF t = j.to THEN o[2] ELSE IF o[1] = {} THEN {} ELSE tree.own[E!One(o[1])][t]]]
    BY DEF TreeBy, TreeRows
  <1>8. /\ A \subseteq B /\ S \subseteq V
        /\ \A t \in TablesThere(s, n - 1) : E!ColumnsOf(s.tables[t]) \subseteq B
    BY <1>1, ColumnsIncluded DEF E!Shown, E!Visible
  <1>9. j.type \in E!_LEFT_ONLY_JOIN_TYPES => S = {} /\ V = {}
    BY DEF E!Shown, E!Visible
  <1>10. j.type \notin E!_LEFT_ONLY_JOIN_TYPES =>
            /\ V = E!ColumnsOf(s.tables[j.to])
            /\ V \intersect B \subseteq IF j.onFrom = j.onTo THEN E!Range(j.onTo) ELSE {}
            /\ S = IF j.onFrom = j.onTo THEN V ELSE V \ E!Range(j.onTo)
    BY <1>1 DEF E!Shown, E!Visible, JoinFits
  <1>11. E!Range(j.onFrom) \subseteq A
    BY <1>1 DEF JoinFits
  <1>12. V \intersect A \subseteq S /\ S \intersect B \subseteq A
    <2> HIDE DEF A, B, S, V
    <2>1. QED
      BY <1>8, <1>9, <1>10, <1>11
  <1>13. E!Columns(s)[n] = A \union S /\ E!AllColumns(s)[n] = B \union V
    BY <1>1, ColumnsInTurn, AllColumnsInTurn
  <1>14. /\ DOMAIN E!JoinTables(left, keys, right, j, A, S) = E!Occurrences(keys, right, j) /\ DOMAIN new = E!Occurrences(keys, right, j)
         /\ \A o \in DOMAIN new : /\ Over(E!JoinTables(left, keys, right, j, A, S)[o], A \union S)
                                  /\ DOMAIN new[o] = B \union V
                                  /\ \A c \in A \union S : E!JoinTables(left, keys, right, j, A, S)[o][c] = new[o][c]
    <2>1. \A o \in DOMAIN tree.rows : \A c \in A : left[o][c] = tree.rows[o][c]
      BY DEF RowsAgree
    <2>2. JoinsMatch(left, tree.rows, keys, right, j, A, B, S, V)
      <3> HIDE DEF A, B, S, V, keys, right, j
      <3>1. QED
        BY <1>2, <1>5, <1>8, <1>12, <2>1, JoinsAgree
    <2> HIDE DEF A, B, S, V, keys, right, j
    <2>3. QED
      BY <2>2 DEF JoinsMatch
  <1>15. RowsAgree(s, JoinedBy(s, data, left, n), after, n)
    <2> DEFINE newLeft == E!JoinTables(left, keys, right, j, A, S)
    <2>1. JoinedBy(s, data, left, n) = newLeft
      BY <1>6
    <2>2. /\ DOMAIN newLeft = DOMAIN new
          /\ \A o \in DOMAIN new : /\ Over(newLeft[o], A \union S) /\ DOMAIN new[o] = B \union V
                                   /\ \A c \in A \union S : newLeft[o][c] = new[o][c]
      BY <1>14
    <2> HIDE DEF A, B, S, V, keys, right, j, new, newLeft, after
    <2>3. QED
      BY <1>7, <1>13, <2>1, <2>2 DEF RowsAgree
  <1>16. ASSUME NEW o \in DOMAIN after.rows, NEW t \in TablesThere(s, n), NEW c \in E!ColumnsOf(s.tables[t]), Unmerged(s, n, c)
         PROVE  after.rows[o][c] = OwnValue(s, data, after, o, t, c)
    <2>1. o \in E!Occurrences(keys, right, j) /\ o \in DOMAIN new
      BY <1>7, <1>14, <1>16
    <2>2. /\ \A d \in B : o[1] # {} => new[o][d] = tree.rows[E!One(o[1])][d]
          /\ \A d \in B \ V : o[1] = {} => new[o][d] = E!Null
          /\ \A d \in V : o[1] = {} \/ d \notin B => new[o][d] = IF o[2] = {} THEN E!Null ELSE right[E!One(o[2])][d]
      <3>1. ValuesJoined(new[o], o, tree.rows, right, B, V)
        BY <2>1, JoinValues
      <3> HIDE DEF new, B, V, right
      <3>2. QED
        BY <3>1 DEF ValuesJoined
    <2>3. ~E!Merged(j, c) /\ Unmerged(s, n - 1, c)
      BY <1>1, <1>16 DEF Unmerged
    <2>4. c \notin V \/ c \notin B
      BY <1>9, <1>10, <2>3 DEF E!Merged
    <2>5. t \in DOMAIN s.tables
      BY <1>1, <1>16 DEF TablesThere, JoinsFit, JoinFits
    <2>6. after.own[o][t] = IF t = j.to THEN o[2] ELSE IF o[1] = {} THEN {} ELSE tree.own[E!One(o[1])][t]
      BY <1>7, <2>1, <2>5
    <2>7. CASE t \in TablesThere(s, n - 1)
      <3>1. t # j.to /\ c \in B
        BY <1>2, <1>8, <1>16, <2>7
      <3>2. CASE o[1] = {}
        BY <1>7, <2>2, <2>4, <2>6, <3>1, <3>2 DEF OwnValue
      <3>3. CASE o[1] # {}
        <4>1. E!One(o[1]) \in DOMAIN tree.rows
          BY <1>2, <1>5, <2>1, <3>3, LeftOf
        <4>2. tree.rows[E!One(o[1])][c] = OwnValue(s, data, tree, E!One(o[1]), t, c)
          BY <1>16, <2>3, <2>7, <4>1 DEF OwnAgrees
        <4>3. after.rows[o][c] = tree.rows[E!One(o[1])][c]
          BY <1>7, <2>2, <3>1, <3>3
        <4>4. after.own[o][t] = tree.own[E!One(o[1])][t]
          BY <2>6, <3>1, <3>3
        <4> HIDE DEF after
        <4>5. QED
          BY <4>2, <4>3, <4>4 DEF OwnValue
      <3>4. QED
        BY <3>2, <3>3
    <2>8. CASE t \notin TablesThere(s, n - 1)
      <3>1. t = j.to /\ j.type \notin E!_LEFT_ONLY_JOIN_TYPES
        BY <1>1, <1>16, <2>8 DEF TablesThere
      <3>2. c \in V /\ c \notin B
        BY <1>10, <1>16, <2>4, <3>1
      <3>3. after.rows[o][c] = IF o[2] = {} THEN E!Null ELSE right[E!One(o[2])][c]
        BY <1>7, <2>2, <3>2
      <3>4. after.own[o][t] = o[2]
        BY <2>6, <3>1
      <3> HIDE DEF after
      <3>5. QED
        BY <3>1, <3>3, <3>4 DEF OwnValue
    <2>9. QED
      BY <2>7, <2>8
  <1>17. OwnAgrees(s, data, after, n)
    <2> HIDE DEF after
    <2>1. QED
      BY <1>16 DEF OwnAgrees
  <1>18. QED
    BY <1>15, <1>17

\* After any number of joins.
LEMMA TreesAgree ==
    ASSUME NEW s, NEW data, JoinsFit(s), TablesFit(s, data), E!KeysApart(s), NEW n \in 0..Len(s.joins)
    PROVE  RowsAgree(s, E!Joined(s, data)[n], E!_compile_join_tree(s, data)[n], n)
  <1> DEFINE m == Len(s.joins)
             L == E!Joined(s, data)
             R == E!_compile_join_tree(s, data)
             good(k) == RowsAgree(s, L[k], R[k], k) /\ OwnAgrees(s, data, R[k], k)
             T == {k \in Nat : k <= m => good(k)}
  <1>0. m \in Nat /\ s.base \in DOMAIN s.tables
    BY DEF JoinsFit
  <1>1. 0 \in T
    <2> DEFINE table == E!_compile_table_cte(s.tables[s.base], data[s.base])
    <2>1. L[0] = table
      BY <1>0, JoinedInTurn, TablesAgree DEF TablesFit
    <2>2. R[0] = TreeStart(s, data)
      BY <1>0, TreeInTurn
    <2>3. R[0].rows = table /\ \A o \in DOMAIN table : R[0].own[o][s.base] = {o}
      BY <1>0, <2>2 DEF TreeStart
    <2>4. E!Columns(s)[0] = E!ColumnsOf(s.tables[s.base]) /\ E!AllColumns(s)[0] = E!ColumnsOf(s.tables[s.base])
      BY <1>0, ColumnsInTurn, AllColumnsInTurn
    <2>5. \A o \in DOMAIN table : Over(table[o], E!ColumnsOf(s.tables[s.base]))
      <3>1. table = E!LoadTable(s.tables[s.base], data[s.base])
        BY <1>0, TablesAgree DEF TablesFit
      <3>2. QED
        BY <1>0, <3>1, LoadedColumns DEF TablesFit
    <2>6. TablesThere(s, 0) = {s.base}
      BY DEF TablesThere
    <2> HIDE DEF L, R
    <2>7. RowsAgree(s, L[0], R[0], 0)
      <3> HIDE DEF table
      <3>1. \A o \in DOMAIN table : DOMAIN table[o] = E!ColumnsOf(s.tables[s.base])
        BY <2>5 DEF Over
      <3>2. QED
        BY <2>1, <2>3, <2>4, <2>5, <3>1 DEF RowsAgree
    <2>8. \A o \in DOMAIN table : E!One({o}) = o
      BY DEF E!One
    <2>9. OwnAgrees(s, data, R[0], 0)
      BY <2>3, <2>6, <2>8 DEF OwnAgrees, OwnValue
    <2>10. QED
      BY <2>7, <2>9
  <1>2. ASSUME NEW k \in Nat, k \in T
        PROVE  k + 1 \in T
    <2> SUFFICES ASSUME k + 1 <= m
                 PROVE  good(k + 1)
      OBVIOUS
    <2>1. good(k) /\ k + 1 \in 1..m /\ (k + 1) - 1 = k
      BY <1>0, <1>2
    <2>2. L[k + 1] = JoinedBy(s, data, L[k], k + 1) /\ R[k + 1] = TreeBy(s, data, R[k], k + 1)
      BY <1>0, <2>1, JoinedInTurn, TreeInTurn
    <2> HIDE DEF L, R
    <2>3. QED
      BY <2>1, <2>2, JoinKeepsAgreement
  <1> HIDE DEF T
  <1>3. n \in T
    BY <1>1, <1>2, Induction
  <1>4. QED
    BY <1>0, <1>3 DEF T

\* Rows with the same values in the columns that filters read satisfy the same filters.
LEMMA SameFilters ==
    ASSUME NEW fs, NEW l, NEW r, \A f \in E!Range(fs) : l[f.column] = r[f.column]
    PROVE  E!Conj(fs, l) = E!Conj(fs, r)
  <1>1. \A f \in E!Range(fs) : E!build_filter(f, l) = E!build_filter(f, r)
    BY DEF E!build_filter
  <1>2. {E!build_filter(f, l) : f \in E!Range(fs)} = {E!build_filter(f, r) : f \in E!Range(fs)}
    BY <1>1
  <1>3. QED
    BY <1>2 DEF E!Conj

\* And the same groups.
LEMMA SameGroupFilters ==
    ASSUME NEW groups, NEW l, NEW r, \A g \in E!Range(groups) : \A f \in E!Range(g) : l[f.column] = r[f.column]
    PROVE  E!Groups(groups, l) = E!Groups(groups, r)
  <1>1. \A g \in E!Range(groups) : E!Conj(g, l) = E!Conj(g, r)
    BY SameFilters
  <1> DEFINE given == E!Range(groups) \ {<<>>}
  <1>2. {E!Conj(g, l) : g \in given} = {E!Conj(g, r) : g \in given}
    BY <1>1
  <1> HIDE DEF given
  <1>3. QED
    BY <1>2 DEF E!Groups, given

\* A column computed from the same value is the same.
LEMMA SameColumn ==
    ASSUME NEW spec, NEW l, NEW r, l[spec.source] = r[spec.source]
    PROVE  E!Column(spec, l) = E!Column(spec, r)
  <1> DEFINE f == [column |-> spec.source, operator |-> spec.when, value |-> 1]
  <1>1. f.column = spec.source
    OBVIOUS
  <1>2. E!build_filter(f, l) = E!build_filter(f, r)
    <2> HIDE DEF f
    <2>1. QED
      BY <1>1 DEF E!build_filter
  <1>3. QED
    BY <1>2 DEF E!Column

\* Tables with the same occurrences, that have some columns alike.
TablesAlike(l, r, C) ==
    /\ DOMAIN l = DOMAIN r
    /\ \A o \in DOMAIN r : C \subseteq DOMAIN l[o] /\ C \subseteq DOMAIN r[o] /\ \A c \in C : l[o][c] = r[o][c]

\* The output columns are those of a specification that there is.
LEMMA SpecOfTarget ==
    ASSUME NEW specs, NEW c \in E!Targets(specs)
    PROVE  E!SpecOf(specs, c) \in E!Range(specs) /\ E!SpecOf(specs, c).target = c
  BY DEF E!Targets, E!SpecOf

\* What is selected of columns that are alike is the same.
LEMMA SameSelection ==
    ASSUME NEW l, NEW r, NEW C, TablesAlike(l, r, C), NEW specs, \A spec \in E!Range(specs) : spec.source \in C
    PROVE  E!select(l, specs) = E!select(r, specs)
  <1>1. ASSUME NEW o \in DOMAIN r, NEW c \in E!Targets(specs)
        PROVE  E!Column(E!SpecOf(specs, c), l[o]) = E!Column(E!SpecOf(specs, c), r[o])
    BY SpecOfTarget, SameColumn DEF TablesAlike
  <1>2. DOMAIN l = DOMAIN r
    BY DEF TablesAlike
  <1>3. QED
    BY <1>1, <1>2 DEF E!select

\* A row with its added columns.
WithAdded(row, specs) ==
    LET upto[n \in 0..Len(specs)] == IF n = 0 THEN row ELSE E!with_column(upto[n - 1], specs[n]) IN upto[Len(specs)]
TargetsUpto(specs, n) == {specs[k].target : k \in 1..n}
Apart(specs) ==
    /\ DOMAIN specs = 1..Len(specs) /\ Len(specs) \in Nat
    /\ \A n, k \in 1..Len(specs) : n # k => specs[n].target # specs[k].target
    /\ \A n, k \in 1..Len(specs) : specs[n].target # specs[k].source
WithUpto(specs, row, f, n) ==
    /\ Over(f, DOMAIN f)
    /\ DOMAIN f = DOMAIN row \union TargetsUpto(specs, n)
    /\ \A k \in 1..n : f[specs[k].target] = E!Column(specs[k], row)
    /\ \A c \in DOMAIN row \ TargetsUpto(specs, n) : f[c] = row[c]

\* Columns added one after the other are those that are computed side by side from the row.
LEMMA AddedOneByOne ==
    ASSUME NEW specs, Apart(specs), NEW row, Over(row, DOMAIN row),
           \A k \in 1..Len(specs) : specs[k].source \in DOMAIN row
    PROVE  WithUpto(specs, row, WithAdded(row, specs), Len(specs))
  <1> DEFINE m == Len(specs)
             Run(f) == f = [n \in 0..m |-> IF n = 0 THEN row ELSE E!with_column(f[n - 1], specs[n])]
             upto == CHOOSE f : Run(f)
             T == {n \in Nat : n <= m => WithUpto(specs, row, upto[n], n)}
  <1>0. m \in Nat
    BY DEF Apart
  <1>1. PICK f : InTurn(f, "added", specs, 0, row, m)
    BY <1>0, StepsInTurn
  <1>2. Run(f)
    BY <1>1 DEF InTurn, PipelineStep
  <1>3. WithAdded(row, specs) = upto[m]
    BY DEF WithAdded
  <1>4. Run(upto)
    <2> HIDE DEF Run
    <2>1. QED
      BY <1>2
  <1> HIDE DEF upto
  <1>5. upto[0] = row /\ \A n \in 1..m : upto[n] = E!with_column(upto[n - 1], specs[n])
    BY <1>0, <1>4
  <1>6. 0 \in T
    <2>1. TargetsUpto(specs, 0) = {}
      BY DEF TargetsUpto
    <2>2. QED
      BY <1>5, <2>1 DEF WithUpto
  <1>7. ASSUME NEW k \in Nat, k \in T
        PROVE  k + 1 \in T
    <2> SUFFICES ASSUME k + 1 <= m
                 PROVE  WithUpto(specs, row, upto[k + 1], k + 1)
      OBVIOUS
    <2> DEFINE f0 == upto[k]
               f1 == upto[k + 1]
               spec == specs[k + 1]
    <2>1. WithUpto(specs, row, f0, k) /\ k + 1 \in 1..m /\ (k + 1) - 1 = k /\ 1..k \subseteq 1..m
          /\ 1..(k + 1) = 1..k \union {k + 1} /\ k + 1 \notin 1..k
      BY <1>0, <1>7
    <2>2. f1 = E!with_column(f0, spec)
      BY <1>5, <2>1
    <2>3. TargetsUpto(specs, k + 1) = TargetsUpto(specs, k) \union {spec.target}
      BY <2>1 DEF TargetsUpto
    <2>4. spec.target \notin TargetsUpto(specs, k) /\ spec.source \notin TargetsUpto(specs, k)
      BY <2>1 DEF TargetsUpto, Apart
    <2>5. spec.source \in DOMAIN row
      BY <2>1
    <2> HIDE DEF f0, f1, spec
    <2>6. f0[spec.source] = row[spec.source]
      BY <2>1, <2>4, <2>5 DEF WithUpto
    <2>7. E!Column(spec, f0) = E!Column(spec, row)
      BY <2>6, SameColumn
    <2>8. f1 = [c \in DOMAIN f0 \union {spec.target} |-> IF c = spec.target THEN E!Column(spec, f0) ELSE f0[c]]
      BY <2>2 DEF E!with_column
    <2>9. DOMAIN f1 = DOMAIN row \union TargetsUpto(specs, k + 1)
      BY <2>1, <2>3, <2>8 DEF WithUpto
    <2>10. ASSUME NEW i \in 1..(k + 1)
           PROVE  f1[specs[i].target] = E!Column(specs[i], row)
      <3>1. CASE i = k + 1
        BY <2>7, <2>8, <3>1 DEF spec
      <3>2. CASE i \in 1..k
        <4>1. specs[i].target \in TargetsUpto(specs, k)
          BY <3>2 DEF TargetsUpto
        <4>2. specs[i].target \in DOMAIN f0 /\ f0[specs[i].target] = E!Column(specs[i], row)
          BY <2>1, <3>2, <4>1 DEF WithUpto
        <4>3. QED
          BY <2>4, <2>8, <4>1, <4>2
      <3>3. QED
        BY <2>1, <3>1, <3>2
    <2>11. ASSUME NEW c \in DOMAIN row \ TargetsUpto(specs, k + 1)
           PROVE  f1[c] = row[c]
      BY <2>1, <2>3, <2>8 DEF WithUpto
    <2>12. WithUpto(specs, row, f1, k + 1)
      BY <2>8, <2>9, <2>10, <2>11 DEF WithUpto, Over
    <2>13. QED
      BY <2>12 DEF f1
  <1> HIDE DEF T
  <1>8. m \in T
    BY <1>0, <1>6, <1>7, Induction
  <1>9. QED
    BY <1>0, <1>3, <1>8 DEF T

\* The specification of a target, where the targets are distinct.
LEMMA SpecOfDistinct ==
    ASSUME NEW specs, Apart(specs), NEW k \in 1..Len(specs)
    PROVE  specs[k].target \in E!Targets(specs) /\ E!SpecOf(specs, specs[k].target) = specs[k]
  <1>1. specs[k] \in E!Range(specs)
    BY DEF Apart, E!Range
  <1>2. specs[k].target \in E!Targets(specs)
    BY <1>1 DEF E!Targets
  <1>3. PICK i \in 1..Len(specs) : E!SpecOf(specs, specs[k].target) = specs[i] /\ specs[i].target = specs[k].target
    BY <1>2, SpecOfTarget DEF Apart, E!Range
  <1>4. QED
    BY <1>2, <1>3 DEF Apart

\* The added columns of a table, one after the other or side by side.
LEMMA AddedColumnsAgree ==
    ASSUME NEW table, NEW specs, Apart(specs), \A o \in DOMAIN table : Over(table[o], DOMAIN table[o]),
           \A o \in DOMAIN table : \A k \in 1..Len(specs) : specs[k].source \in DOMAIN table[o]
    PROVE  E!_apply_add_columns(table, specs) = E!Extended(table, specs)
  <1>1. E!_apply_add_columns(table, specs) = [o \in DOMAIN table |-> WithAdded(table[o], specs)]
    BY DEF E!_apply_add_columns, WithAdded
  <1>2. ASSUME NEW o \in DOMAIN table
        PROVE  WithAdded(table[o], specs) = [c \in DOMAIN table[o] \union E!Targets(specs) |->
                   IF c \in E!Targets(specs) THEN E!Column(E!SpecOf(specs, c), table[o]) ELSE table[o][c]]
    <2> DEFINE w == WithAdded(table[o], specs)
               row == table[o]
    <2>1. WithUpto(specs, row, w, Len(specs))
      BY AddedOneByOne
    <2>2. TargetsUpto(specs, Len(specs)) = E!Targets(specs)
      BY DEF TargetsUpto, E!Targets, E!Range, Apart
    <2>3. w = [c \in DOMAIN w |-> w[c]]
      BY <2>1 DEF WithUpto, Over
    <2> HIDE DEF w, row
    <2>4. ASSUME NEW c \in E!Targets(specs)
          PROVE  w[c] = E!Column(E!SpecOf(specs, c), row)
      <3>1. PICK k \in 1..Len(specs) : c = specs[k].target
        BY <2>2 DEF TargetsUpto
      <3>2. QED
        BY <2>1, <3>1, SpecOfDistinct DEF WithUpto
    <2>5. DOMAIN w = DOMAIN row \union E!Targets(specs) /\ \A c \in DOMAIN row \ E!Targets(specs) : w[c] = row[c]
      BY <2>1, <2>2 DEF WithUpto
    <2>6. QED
      BY <2>3, <2>4, <2>5 DEF w, row
  <1>3. QED
    BY <1>1, <1>2 DEF E!Extended

\* An aggregate reads the values of its column at the occurrences of its group.
LEMMA SameMeasure ==
    ASSUME NEW l, NEW r, NEW C, TablesAlike(l, r, C), NEW rows, rows \subseteq DOMAIN r, NEW m,
           m.source \in C \/ (m.source = "*" /\ m.func = "count")
    PROVE  E!agg_expr(m, l, rows) = E!agg_expr(m, r, rows)
  <1>1. CASE m.source = "*" /\ m.func = "count"
    <2>1. E!agg_expr(m, l, rows) = E!Cardinality(rows)
      BY <1>1 DEF E!agg_expr
    <2>2. E!agg_expr(m, r, rows) = E!Cardinality(rows)
      BY <1>1 DEF E!agg_expr
    <2>3. QED
      BY <2>1, <2>2
  <1>2. CASE m.source \in C
    <2>1. \A o \in rows : l[o][m.source] = r[o][m.source]
      BY <1>2 DEF TablesAlike
    <2>2. E!Values(l, rows, m.source) = E!Values(r, rows, m.source)
      BY <2>1 DEF E!Values
    <2>3. QED
      BY <2>2 DEF E!agg_expr
  <1>3. QED
    BY <1>1, <1>2

\* What an aggregation reads is there.
AggregationReads(agg, C) ==
    /\ E!Range(agg.groupBy) \subseteq C
    /\ \A m \in E!Range(agg.measures) : m.source \in C \/ (m.source = "*" /\ m.func = "count")

\* Tables that are alike in what is read have the same groups.
LEMMA SameGroupRows ==
    ASSUME NEW l, NEW r, NEW C, TablesAlike(l, r, C), NEW agg, AggregationReads(agg, C)
    PROVE  E!group_by_agg(l, agg) = E!group_by_agg(r, agg)
  <1>1. \A o \in DOMAIN r : E!Key(agg, l[o]) = E!Key(agg, r[o])
    BY DEF TablesAlike, E!Key, AggregationReads
  <1>2. DOMAIN l = DOMAIN r
    BY DEF TablesAlike
  <1>3. {E!Key(agg, l[o]) : o \in DOMAIN l} = {E!Key(agg, r[o]) : o \in DOMAIN r}
    BY <1>1, <1>2
  <1>4. ASSUME NEW key
        PROVE  E!GroupRow(l, agg, key) = E!GroupRow(r, agg, key)
    <2> DEFINE rows == {o \in DOMAIN r : E!Key(agg, r[o]) = key}
               measure(c) == CHOOSE m \in E!Range(agg.measures) : m.target = c
               targets == E!Range(agg.groupBy) \union {m.target : m \in E!Range(agg.measures)}
    <2>1. {o \in DOMAIN l : E!Key(agg, l[o]) = key} = rows
      BY <1>1, <1>2
    <2>2. E!GroupRow(l, agg, key) = [c \in targets |->
              IF c \in E!Range(agg.groupBy) THEN key[c] ELSE E!agg_expr(measure(c), l, rows)]
      BY <2>1 DEF E!GroupRow
    <2>3. E!GroupRow(r, agg, key) = [c \in targets |->
              IF c \in E!Range(agg.groupBy) THEN key[c] ELSE E!agg_expr(measure(c), r, rows)]
      BY DEF E!GroupRow
    <2>4. ASSUME NEW c \in targets, c \notin E!Range(agg.groupBy)
          PROVE  E!agg_expr(measure(c), l, rows) = E!agg_expr(measure(c), r, rows)
      <3>1. measure(c) \in E!Range(agg.measures)
        BY <2>4
      <3>2. measure(c).source \in C \/ (measure(c).source = "*" /\ measure(c).func = "count")
        <4> HIDE DEF measure
        <4>1. QED
          BY <3>1 DEF AggregationReads
      <3>3. rows \subseteq DOMAIN r
        OBVIOUS
      <3> HIDE DEF measure, rows
      <3>4. QED
        BY <3>2, <3>3, SameMeasure
    <2> HIDE DEF measure, rows, targets
    <2>5. QED
      BY <2>2, <2>3, <2>4
  <1>5. QED
    BY <1>3, <1>4 DEF E!group_by_agg

\* What the pipeline itself reads is there.
LastColumns(s) == E!Columns(s)[Len(s.joins)]
OutputFits(s) ==
    LET last == LastColumns(s)
        reads(fs) == \A f \in E!Range(fs) : f.column \in last
    IN  /\ s.where \in Seq(E!Range(s.where)) /\ reads(s.where) /\ \A g \in E!Range(s.whereGroups) : reads(g)
        /\ DOMAIN s.added = 1..Len(s.added) /\ Len(s.added) \in Nat
        /\ s.output \in {"keep_all", "select", "aggregate", "none"}
        /\ s.output = "select" => \A spec \in E!Range(s.select) : spec.source \in last
        /\ s.output # "select" => \A spec \in E!Range(s.added) : spec.source \in last \union E!Targets(s.added)
        /\ s.output = "aggregate" => AggregationReads(s.aggregate, last \union E!Targets(s.added))
PipelineDomain(in) == JoinsFit(in.schema) /\ TablesFit(in.schema, in.data) /\ OutputFits(in.schema)

\* The occurrences that the filters of the pipeline keep.
KeptRows(s, table) == [o \in {i \in DOMAIN table : E!Conj(s.where, table[i]) = "true" /\ E!Groups(s.whereGroups, table[i]) = "true"} |-> table[o]]

\* One filter after the other, or all at once.
LEMMA FiltersFuse ==
    ASSUME NEW s, NEW table, s.where \in Seq(E!Range(s.where))
    PROVE  /\ E!filter(E!filter(table, LAMBDA row : E!Conj(s.where, row)), LAMBDA row : E!Groups(s.whereGroups, row)) = KeptRows(s, table)
           /\ E!filter(table, LAMBDA row : E!_compile_predicates(s.where, <<>>, s.whereGroups, row)) = KeptRows(s, table)
  <1>1. ASSUME NEW row
        PROVE  E!_compile_predicates(s.where, <<>>, s.whereGroups, row) = "true"
                   <=> E!Conj(s.where, row) = "true" /\ E!Groups(s.whereGroups, row) = "true"
    <2>1. E!_compile_predicates(s.where, <<>>, s.whereGroups, row)
              = E!And({E!Conj(s.where \o E!NotNull(<<>>), row), E!Groups(s.whereGroups, row)})
      BY DEF E!_compile_predicates
    <2>2. E!_compile_predicates(s.where, <<>>, s.whereGroups, row) = "true"
              <=> E!Conj(s.where \o E!NotNull(<<>>), row) = "true" /\ E!Groups(s.whereGroups, row) = "true"
      BY <2>1, BothHold
    <2>3. E!Range(<<>>) = {} /\ <<>> \in Seq(E!Range(<<>>))
      BY DEF E!Range
    <2>4. E!Conj(s.where \o E!NotNull(<<>>), row) = "true" <=> E!Conj(s.where, row) = "true"
      BY <2>3, FiltersAndNullsHold
    <2>5. QED
      BY <2>2, <2>4
  <1>2. E!filter(E!filter(table, LAMBDA row : E!Conj(s.where, row)), LAMBDA row : E!Groups(s.whereGroups, row)) = KeptRows(s, table)
    BY DEF E!filter, KeptRows
  <1>3. E!filter(table, LAMBDA row : E!_compile_predicates(s.where, <<>>, s.whereGroups, row)) = KeptRows(s, table)
    BY <1>1 DEF E!filter, KeptRows
  <1>4. QED
    BY <1>2, <1>3

\* Added columns that are apart are alike in the interpreter and in the view.
LEMMA AddedColumnsAlike ==
    ASSUME NEW l, NEW r, NEW C, TablesAlike(l, r, C), NEW specs, \A spec \in E!Range(specs) : spec.source \in C
    PROVE  TablesAlike(E!Extended(l, specs), E!Extended(r, specs), C \union E!Targets(specs))
  <1> DEFINE added(t, o) == [c \in DOMAIN t[o] \union E!Targets(specs) |->
                 IF c \in E!Targets(specs) THEN E!Column(E!SpecOf(specs, c), t[o]) ELSE t[o][c]]
  <1>1. /\ E!Extended(l, specs) = [o \in DOMAIN l |-> added(l, o)]
        /\ E!Extended(r, specs) = [o \in DOMAIN r |-> added(r, o)]
    BY DEF E!Extended
  <1>2. DOMAIN l = DOMAIN r
    BY DEF TablesAlike
  <1>3. ASSUME NEW o \in DOMAIN r
        PROVE  /\ C \union E!Targets(specs) \subseteq DOMAIN added(l, o) /\ C \union E!Targets(specs) \subseteq DOMAIN added(r, o)
               /\ \A c \in C \union E!Targets(specs) : added(l, o)[c] = added(r, o)[c]
    <2>1. C \subseteq DOMAIN l[o] /\ C \subseteq DOMAIN r[o] /\ \A c \in C : l[o][c] = r[o][c]
      BY DEF TablesAlike
    <2>2. \A c \in E!Targets(specs) : E!Column(E!SpecOf(specs, c), l[o]) = E!Column(E!SpecOf(specs, c), r[o])
      BY <2>1, SpecOfTarget, SameColumn
    <2>3. QED
      BY <2>1, <2>2
  <1> HIDE DEF added
  <1>4. QED
    BY <1>1, <1>2, <1>3 DEF TablesAlike

\* The rows that the filters keep are alike, and those of the interpreter are over its columns.
LEMMA KeptAlike ==
    ASSUME NEW s, NEW data, JoinsFit(s), TablesFit(s, data), OutputFits(s), E!KeysApart(s)
    PROVE  LET main == KeptRows(s, E!Joined(s, data)[Len(s.joins)])
               from == KeptRows(s, E!_compile_join_tree(s, data)[Len(s.joins)].rows)
           IN  TablesAlike(main, from, LastColumns(s)) /\ \A o \in DOMAIN main : Over(main[o], LastColumns(s))
  <1> DEFINE m == Len(s.joins)
             L == E!Joined(s, data)[m]
             R == E!_compile_join_tree(s, data)[m].rows
             C == LastColumns(s)
             main == KeptRows(s, L)
             from == KeptRows(s, R)
  <1>1. m \in Nat /\ m \in 0..m
    BY DEF JoinsFit
  <1>2. RowsAgree(s, L, E!_compile_join_tree(s, data)[m], m)
    BY <1>1, TreesAgree
  <1>3. C \subseteq E!AllColumns(s)[m]
    BY <1>1, ColumnsIncluded DEF LastColumns
  <1>4. /\ DOMAIN L = DOMAIN R
        /\ \A o \in DOMAIN R : Over(L[o], C) /\ DOMAIN R[o] = E!AllColumns(s)[m] /\ \A c \in C : L[o][c] = R[o][c]
    BY <1>2 DEF RowsAgree, LastColumns
  <1> HIDE DEF L, R, C
  <1>5. /\ \A f \in E!Range(s.where) : f.column \in C
        /\ \A g \in E!Range(s.whereGroups) : \A f \in E!Range(g) : f.column \in C
    BY DEF OutputFits, C
  <1>6. ASSUME NEW o \in DOMAIN R
        PROVE  E!Conj(s.where, L[o]) = E!Conj(s.where, R[o]) /\ E!Groups(s.whereGroups, L[o]) = E!Groups(s.whereGroups, R[o])
    <2>1. \A c \in C : L[o][c] = R[o][c]
      BY <1>4
    <2>2. E!Conj(s.where, L[o]) = E!Conj(s.where, R[o])
      BY <1>5, <2>1, SameFilters
    <2>3. E!Groups(s.whereGroups, L[o]) = E!Groups(s.whereGroups, R[o])
      BY <1>5, <2>1, SameGroupFilters
    <2>4. QED
      BY <2>2, <2>3
  <1>7. /\ DOMAIN main = DOMAIN from /\ DOMAIN from \subseteq DOMAIN R
        /\ \A o \in DOMAIN from : main[o] = L[o] /\ from[o] = R[o]
    BY <1>4, <1>6 DEF KeptRows
  <1> HIDE DEF main, from
  <1>8. \A o \in DOMAIN R : DOMAIN L[o] = C
    BY <1>4 DEF Over
  <1>9. TablesAlike(main, from, C)
    BY <1>3, <1>4, <1>7, <1>8 DEF TablesAlike
  <1>10. \A o \in DOMAIN main : Over(main[o], C)
    BY <1>4, <1>7
  <1>11. QED
    BY <1>9, <1>10 DEF main, from, L, R, C, m

\* The view of a pipeline returns what the interpreted pipeline does.
LEMMA ViewsAgree ==
    ASSUME NEW in, PipelineDomain(in)
    PROVE  E!CompiledViewAgrees(in.schema, in.data)
  <1> DEFINE s == in.schema
             data == in.data
             m == Len(s.joins)
             C == LastColumns(s)
             main == KeptRows(s, E!Joined(s, data)[m])
             from == KeptRows(s, E!_compile_join_tree(s, data)[m].rows)
  <1> SUFFICES ASSUME s.output # "none", s.output = "keep_all" => s.joins = <<>>, s.output # "select" => E!AddedApart(s), E!KeysApart(s)
               PROVE  E!process_schema(s, data) = E!compile_select(s, data)
    BY DEF E!CompiledViewAgrees
  <1>1. JoinsFit(s) /\ TablesFit(s, data) /\ OutputFits(s)
    BY DEF PipelineDomain
  <1> HIDE DEF s, data
  <1>2. TablesAlike(main, from, C) /\ \A o \in DOMAIN main : Over(main[o], C)
    BY <1>1, KeptAlike
  <1>3. s.where \in Seq(E!Range(s.where)) /\ s.output \in {"keep_all", "select", "aggregate"}
    BY <1>1 DEF OutputFits
  <1>4. E!process_schema(s, data) =
            CASE s.output = "keep_all" -> E!_apply_add_columns(main, s.added)
              [] s.output = "select" -> E!select(main, s.select)
              [] s.output = "aggregate" -> E!_apply_aggregate(E!_apply_add_columns(main, s.added), s.aggregate)
              [] OTHER -> main
    BY <1>3, FiltersFuse DEF E!process_schema
  <1>5. E!compile_select(s, data) =
            CASE s.output = "aggregate" -> E!filter(E!group_by_agg(E!Extended(from, s.added), s.aggregate), LAMBDA row : E!Conj(s.aggregate.having, row))
              [] s.output = "select" -> E!select(from, s.select)
              [] OTHER -> E!Extended(from, s.added)
    BY <1>3, FiltersFuse DEF E!compile_select
  <1> HIDE DEF main, from, C
  <1>6. CASE s.output = "select"
    <2>1. \A spec \in E!Range(s.select) : spec.source \in C
      BY <1>1, <1>6 DEF OutputFits, C
    <2>2. E!select(main, s.select) = E!select(from, s.select)
      BY <1>2, <2>1, SameSelection
    <2>3. QED
      BY <1>4, <1>5, <1>6, <2>2
  <1>7. ASSUME s.output # "select"
        PROVE  /\ \A spec \in E!Range(s.added) : spec.source \in C
               /\ E!_apply_add_columns(main, s.added) = E!Extended(main, s.added)
    <2>1. E!AddedApart(s) /\ DOMAIN s.added = 1..Len(s.added) /\ Len(s.added) \in Nat
      BY <1>1, <1>7 DEF OutputFits
    <2>2. \A spec \in E!Range(s.added) : spec.source \in C /\ spec.source \notin E!Targets(s.added)
      BY <1>1, <1>7, <2>1 DEF OutputFits, E!AddedApart, C
    <2>3. Apart(s.added)
      <3>1. \A k \in 1..Len(s.added) : s.added[k] \in E!Range(s.added) /\ s.added[k].target \in E!Targets(s.added)
        BY <2>1 DEF E!Range, E!Targets
      <3>2. QED
        BY <2>1, <2>2, <3>1 DEF Apart, E!AddedApart
    <2>4. \A o \in DOMAIN main : /\ Over(main[o], DOMAIN main[o])
                                 /\ \A k \in 1..Len(s.added) : s.added[k].source \in DOMAIN main[o]
      <3>1. \A o \in DOMAIN main : DOMAIN main[o] = C
        BY <1>2 DEF Over
      <3>2. \A k \in 1..Len(s.added) : s.added[k] \in E!Range(s.added)
        BY <2>1 DEF E!Range
      <3>3. QED
        BY <1>2, <2>2, <3>1, <3>2
    <2>5. QED
      BY <2>2, <2>3, <2>4, AddedColumnsAgree
  <1>8. CASE s.output = "keep_all"
    <2>1. main = from
      <3>1. m = 0 /\ s.base \in DOMAIN s.tables /\ m \in Nat
        BY <1>1, <1>8 DEF JoinsFit
      <3>2. E!Joined(s, data)[0] = E!LoadTable(s.tables[s.base], data[s.base])
        BY <3>1, JoinedInTurn
      <3>3. E!_compile_join_tree(s, data)[0].rows = E!_compile_table_cte(s.tables[s.base], data[s.base])
        <4>1. E!_compile_join_tree(s, data)[0] = TreeStart(s, data)
          BY <3>1, TreeInTurn
        <4>2. QED
          BY <4>1 DEF TreeStart
      <3>4. E!LoadTable(s.tables[s.base], data[s.base]) = E!_compile_table_cte(s.tables[s.base], data[s.base])
        BY <1>1, <3>1, TablesAgree DEF TablesFit
      <3>5. QED
        BY <3>1, <3>2, <3>3, <3>4 DEF main, from
    <2>2. QED
      BY <1>4, <1>5, <1>7, <1>8, <2>1
  <1>9. CASE s.output = "aggregate"
    <2> DEFINE D == C \union E!Targets(s.added)
    <2>1. TablesAlike(E!Extended(main, s.added), E!Extended(from, s.added), D)
      BY <1>2, <1>7, <1>9, AddedColumnsAlike
    <2>2. AggregationReads(s.aggregate, D)
      BY <1>1, <1>9 DEF OutputFits, C
    <2> HIDE DEF D
    <2>3. E!group_by_agg(E!Extended(main, s.added), s.aggregate) = E!group_by_agg(E!Extended(from, s.added), s.aggregate)
      BY <2>1, <2>2, SameGroupRows
    <2>4. E!_apply_aggregate(E!Extended(main, s.added), s.aggregate)
              = E!filter(E!group_by_agg(E!Extended(from, s.added), s.aggregate), LAMBDA row : E!Conj(s.aggregate.having, row))
      BY <2>3 DEF E!_apply_aggregate
    <2>5. QED
      BY <1>4, <1>5, <1>7, <1>9, <2>4
  <1>10. QED
    BY <1>3, <1>6, <1>8, <1>9
==============================================================================
