------------------------------ MODULE QueryLog ------------------------------
(***************************************************************************)
(* The database checks that read a log of finished statements instead of   *)
(* counters (mongo_queries.go: system.profile, clickhouse_queries.go:      *)
(* system.query_log) and remember the entries they have reported; and the  *)
(* limits on the execution plans all query checks ask for with the samples *)
(* they take. Time is in steps of the agent's clock; an entry is its id.   *)
(***************************************************************************)
EXTENDS Integers, FiniteSets, FiniteSetsExt, Sequences, Functions

CONSTANTS Entries,    \* ids of the entries of the log
          Skew,       \* how far the clock of the database is ahead
          Visible,    \* a reading asks for the entries of the last 5 minutes
          SampleLimit, \* entries of one reading
          Keep,       \* ids are forgotten after 6 minutes
          Digests,    \* statements that are sampled
          PlanWait,   \* 15 minutes between two plans of a statement
          PlanHour,   \* 1 hour
          PlanTable,  \* statements with a plan in the last hour: 60
          PlanRate,   \* plans of a statement in a window of an hour (PostgreSQL)
          PlanLimit,  \* plans of one sampling
          MaxLogTime, MaxPlans  \* bounds: clock, plans in all

ASSUME LogAssumption ==
  /\ Skew \in Int /\ Visible \in Nat /\ Keep \in Nat /\ Visible <= Keep
  /\ MaxLogTime \in Nat /\ PlanLimit \in Nat

VARIABLES
  source,     \* "mongo" or "clickhouse"
  logNow,
  entries,    \* id -> time of the database
  ids,       \* id -> time it was reported
  counted,    \* times an entry was delivered
  windowed,   \* the limit is that of PostgreSQL
  planRuns,   \* statement -> [start, count]; count stays 1 without windows
  collected,  \* plans of this sampling
  explained   \* the plans taken: <<statement, time>>

logVars == <<source, logNow, entries, ids, counted, windowed, planRuns, collected, explained>>

LogTypeOK ==
  /\ source \in {"mongo", "clickhouse"} /\ logNow \in 0 .. MaxLogTime /\ DOMAIN entries \subseteq Entries /\ DOMAIN ids \subseteq Entries
  /\ counted \in [Entries -> Nat] /\ windowed \in BOOLEAN
  /\ DOMAIN planRuns \subseteq Digests /\ collected \in 0 .. PlanLimit

NoPairs == [x \in {} |-> 0]
Noting(table, keys, v) == [x \in DOMAIN table \cup keys |-> IF x \in keys THEN v ELSE table[x]]

LogInit ==
  /\ source \in {"mongo", "clickhouse"} /\ logNow = 0 /\ entries = NoPairs /\ ids = NoPairs /\ counted = [e \in Entries |-> 0]
  /\ windowed \in BOOLEAN /\ planRuns = NoPairs /\ collected = 0 /\ explained = <<>>

LogTick ==
  /\ logNow < MaxLogTime /\ logNow' = logNow + 1
  /\ UNCHANGED <<source, entries, ids, counted, windowed, planRuns, collected, explained>>

\* A statement of the database ends.
Finish(e) ==
  /\ e \notin DOMAIN entries /\ entries' = Noting(entries, {e}, logNow + Skew)
  /\ UNCHANGED <<source, logNow, ids, counted, windowed, planRuns, collected, explained>>

-----------------------------------------------------------------------------
(* RunQueryStats, fresh, profileSamples *)

UnforgottenAt(table, age) == Restrict(table, {x \in DOMAIN table : logNow - table[x] < age})

Unforgotten(table, age) == Restrict(table, {x \in DOMAIN table : logNow - table[x] <= age})

\* mongo: every entry of the period that is not remembered is reported and remembered.
\* A row that cannot be decoded ends the reading with an error, and the ids before it
\* stay remembered; the window may also be lost later.
ReadProfile ==
  LET kept == Unforgotten(ids, Keep)
      fresh == {e \in DOMAIN entries : entries[e] >= logNow - Visible} \ DOMAIN kept
  IN  \E reached \in SUBSET fresh, delivered \in BOOLEAN :
        /\ source = "mongo" /\ (delivered => reached = fresh)
        /\ ids' = Noting(kept, reached, logNow)
        /\ counted' = [e \in Entries |-> IF delivered /\ e \in reached THEN counted[e] + 1 ELSE counted[e]]
        /\ UNCHANGED <<source, logNow, entries, windowed, planRuns, collected, explained>>

\* clickhouse: recent and fresh. The server cuts the period by its own clock and the
\* rows arrive as one answer; the samples stop at their limit.
ReadQueryLog ==
  LET kept == Unforgotten(ids, Keep)
      fresh == {e \in DOMAIN entries : entries[e] >= logNow + Skew - Visible} \ DOMAIN kept
  IN  \E reached \in SUBSET fresh, delivered \in BOOLEAN :
        /\ source = "clickhouse" /\ Cardinality(reached) = Min({Cardinality(fresh), SampleLimit})
        /\ ids' = Noting(kept, reached, logNow)
        /\ counted' = [e \in Entries |-> IF delivered /\ e \in reached THEN counted[e] + 1 ELSE counted[e]]
        /\ UNCHANGED <<source, logNow, entries, windowed, planRuns, collected, explained>>

-----------------------------------------------------------------------------
(* RunQuerySamples *)

\* The statements running now are listed again.
Sampling ==
  /\ collected # 0 /\ collected' = 0
  /\ UNCHANGED <<source, logNow, entries, ids, counted, windowed, planRuns, explained>>

\* allowPostgresRate: stale windows are only removed when the table is full and the
\* statement is new.
AllowRate(d) ==
  LET fullForNew == d \notin DOMAIN planRuns /\ Cardinality(DOMAIN planRuns) >= PlanTable
      table == IF fullForNew
               THEN Restrict(planRuns, {x \in DOMAIN planRuns : logNow - planRuns[x].start < PlanHour}) ELSE planRuns
      current == IF d \in DOMAIN table /\ logNow - table[d].start < PlanHour THEN table[d] ELSE [start |-> logNow, count |-> 0]
  IN  /\ d \notin DOMAIN table => Cardinality(DOMAIN table) < PlanTable
      /\ current.count < PlanRate
      /\ planRuns' = Noting(table, {d}, [current EXCEPT !.count = @ + 1])

AllowPlanEvicting(d) ==
  /\ d \in DOMAIN planRuns => logNow - planRuns[d].start >= PlanWait
  /\ LET table == Restrict(planRuns, {x \in DOMAIN planRuns : logNow - planRuns[x].start < PlanWait})
     IN  Cardinality(DOMAIN table) < PlanTable /\ planRuns' = Noting(table, {d}, [start |-> logNow, count |-> 1])

\* allowPlan of mysql, mssql, oracle and clickhouse.
AllowPlan(d) ==
  /\ d \in DOMAIN planRuns => logNow - planRuns[d].start >= PlanWait
  /\ LET table == Restrict(planRuns, {x \in DOMAIN planRuns : logNow - planRuns[x].start < PlanHour})
     IN  Cardinality(DOMAIN table) < PlanTable /\ planRuns' = Noting(table, {d}, [start |-> logNow, count |-> 1])

\* The plan counts whether or not the database answers. A statement is only asked for
\* if it reads (validateReadOnlyQuery) and took its time.
Explain(d) ==
  /\ collected < PlanLimit /\ collected' = collected + 1
  /\ Len(explained) < MaxPlans /\ explained' = Append(explained, <<d, logNow>>)
  /\ IF windowed THEN AllowRate(d) ELSE AllowPlan(d)
  /\ UNCHANGED <<source, logNow, entries, ids, counted, windowed>>

LogNext ==
  \/ LogTick \/ ReadProfile \/ ReadQueryLog \/ Sampling
  \/ \E e \in Entries : Finish(e)
  \/ \E d \in Digests : Explain(d)

LogSpec == LogInit /\ [][LogNext]_logVars

-----------------------------------------------------------------------------
(* Properties *)

\* The period is asked for in the time of the database for mongo and forgotten in that
\* of the agent: the clocks may not differ by more than what is kept beyond the period.
ClocksAgree == Skew <= Keep - Visible

\* No finished statement is counted twice, although readings overlap and ids are
\* forgotten. It needs ClocksAgree.
CountedOnce == \A e \in Entries : counted[e] <= 1

\* The load the plans put on the database is bounded for every stretch of an hour: no
\* statement is explained more often than its rate allows (twice the rate where windows
\* are fixed), and without windows no more statements than the table has places.
PlansBounded ==
  \A t \in 0 .. MaxLogTime :
    LET inHour == {i \in 1 .. Len(explained) : explained[i][2] \in t .. t + PlanHour - 1}
    IN  /\ \A d \in Digests : Cardinality({i \in inHour : explained[i][1] = d})
                                <= IF windowed THEN 2 * PlanRate ELSE PlanHour \div PlanWait
        /\ ~windowed => Cardinality({explained[i][1] : i \in inHour}) <= PlanTable
=============================================================================
