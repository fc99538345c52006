----------------------------- MODULE QueryStats -----------------------------
(***************************************************************************)
(* RunQueryStats of the postgres, mysql, mssql and oracle queries checks   *)
(* (internal/checks/*_queries.go): the server keeps cumulative counters per*)
(* row, the check turns two readings into the calls of a window. The text, *)
(* the times and the row counts of a query follow the calls and are left   *)
(* out.                                                                    *)
(***************************************************************************)
EXTENDS Integers, FiniteSets, FiniteSetsExt

CONSTANTS QueryEngines,   \* of "postgres", "mysql", "mssql", "oracle"
          Statements, \* rows of the view of the server
          QueryOf,   \* their identity for the check: digest, hash, or query and user
          QueryLimit,      \* query_limit
          MaxCalls   \* bound: counter of a row, and executions of a query

ASSUME QueryAssumption ==
  /\ QueryEngines \subseteq {"postgres", "mysql", "mssql", "oracle"} /\ MaxCalls \in Nat

Queries == {QueryOf[s] : s \in Statements}

VARIABLES
  engine,
  calls,     \* counter of each row; 0: the row is not in the view
  ran,       \* executions of a query since the check first read it
  previous,  \* counters of the last reading, None for a query never read
  rows,      \* rows of the current reading the loop has not reached
  window,    \* calls of the queries processed so far
  pushed     \* calls delivered

queryVars == <<engine, calls, ran, previous, rows, window, pushed>>

None == -1

QueryTypeOK ==
  /\ engine \in QueryEngines /\ calls \in [Statements -> 0 .. MaxCalls]
  /\ previous \in [Queries -> Int] /\ \A q \in Queries : ran[q] \in Nat /\ pushed[q] \in Nat
  /\ rows \subseteq [row : Statements \cup Queries, query : Queries, calls : Nat]

QueryInit ==
  /\ engine \in QueryEngines /\ calls \in [Statements -> 0 .. 1]
  /\ ran = [q \in Queries |-> 0] /\ previous = [q \in Queries |-> None]
  /\ rows = {} /\ window = [q \in Queries |-> 0] /\ pushed = [q \in Queries |-> 0]

-----------------------------------------------------------------------------
(* The server *)

\* The query was read, if only by the reading that is being processed.
Known(q) == previous[q] # None \/ \E r \in rows : r.query = q

ExecuteStatement(s) ==
  /\ calls[s] < MaxCalls /\ ran[QueryOf[s]] <= MaxCalls /\ calls' = [calls EXCEPT ![s] = @ + 1]
  /\ ran' = [ran EXCEPT ![QueryOf[s]] = IF Known(QueryOf[s]) THEN @ + 1 ELSE 0]
  /\ UNCHANGED <<engine, previous, rows, window, pushed>>

\* The statistics are reset, or a plan leaves the cache.
Evict(s) ==
  /\ calls[s] > 0 /\ calls' = [calls EXCEPT ![s] = 0]
  /\ UNCHANGED <<engine, ran, previous, rows, window, pushed>>

-----------------------------------------------------------------------------
(* RunQueryStats *)

EachRow(top) == {[row |-> s, query |-> QueryOf[s], calls |-> calls[s]] : s \in top}

Summed(top) ==
  {[row |-> q, query |-> q, calls |-> MapThenSumSet(LAMBDA s : calls[s], {s \in top : QueryOf[s] = q})]
     : q \in {QueryOf[s] : s \in top}}

\* PostgreSQL: one answer with all rows; MySQL: row by row. SQL Server and Oracle have
\* a row per plan and add the rows of one query up before they compare them.
ReadPostgres(top) == engine = "postgres" /\ rows' = EachRow(top)
ReadMySQL(top)    == engine = "mysql" /\ rows' = EachRow(top)
ReadMSSQL(top)    == engine = "mssql" /\ rows' = Summed(top)
ReadOracle(top)   == engine = "oracle" /\ rows' = Summed(top)

\* The rows that took most time, at most TopN of them.
QueryServer ==
  /\ rows = {} /\ window = [q \in Queries |-> 0]
  /\ LET present == {s \in Statements : calls[s] > 0}
     IN  \E top \in kSubset(Min({QueryLimit, Cardinality(present)}), present) :
           ReadPostgres(top) \/ ReadMySQL(top) \/ ReadMSSQL(top) \/ ReadOracle(top)
  /\ UNCHANGED <<engine, calls, ran, previous, window, pushed>>

DeltaFromStart(current, last) == IF current < last \/ last = None THEN current ELSE current - last

\* counterDelta; the first reading only sets the base.
Delta(current, last) ==
  IF last = None THEN 0 ELSE IF current < last THEN current ELSE current - last

ProcessRow(r) ==
  /\ r \in rows /\ rows' = rows \ {r}
  /\ previous' = [previous EXCEPT ![r.query] = r.calls]
  /\ window' = [window EXCEPT ![r.query] = @ + Delta(r.calls, previous[r.query])]
  /\ UNCHANGED <<engine, calls, ran, pushed>>

\* A row that cannot be scanned ends the reading; mysql has then already replaced the
\* counters of the rows before it. mssql and oracle scan all rows first.
ScanFails ==
  /\ rows # {} /\ engine = "mysql"
  /\ rows' = {} /\ window' = [q \in Queries |-> 0]
  /\ UNCHANGED <<engine, calls, ran, previous, pushed>>

\* The scheduler pushes the window, or drops it: the run timed out or the push failed.
PushWindow ==
  /\ rows = {} /\ \E q \in Queries : window[q] > 0
  /\ window' = [q \in Queries |-> 0]
  /\ \/ pushed' = [q \in Queries |-> pushed[q] + window[q]]
     \/ UNCHANGED pushed
  /\ UNCHANGED <<engine, calls, ran, previous, rows>>

QueryNext ==
  \/ QueryServer \/ ScanFails \/ PushWindow
  \/ \E s \in Statements : ExecuteStatement(s) \/ Evict(s)
  \/ \E r \in rows : ProcessRow(r)

QuerySpec == QueryInit /\ [][QueryNext]_queryVars

-----------------------------------------------------------------------------
(* Properties *)

\* Each row has an identity of its own: mssql and oracle have one plan per query.
OnePlan == \A s, t \in Statements : QueryOf[s] = QueryOf[t] => s = t

\* "Calls, TotalMS e Rows já são deltas; nunca são os contadores cumulativos crus":
\* what is delivered of a query never exceeds what ran since it was first read, across
\* resets, evictions, lost windows and readings that leave the query out.
WindowsAreDeltas ==
  \A q \in Queries : pushed[q] + window[q] <= ran[q]
=============================================================================
