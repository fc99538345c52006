---------------------------- MODULE DatabasePool ----------------------------
(***************************************************************************)
(* The database checks and the connections they share: mysql_pool.go (one  *)
(* pool for all checks of a MySQL server), postgres_pool.go (one for all   *)
(* checks of a DSN), sql_server.go (a pool of its own for SQL Server and   *)
(* Oracle), and the Run of the server, catalog, diagnostics and custom     *)
(* checks of each engine.                                                  *)
(*                                                                         *)
(* A Run asks its sections one after the other; what a section reads is    *)
(* its name. A connection keeps the database it was last switched to. Left *)
(* out: the WAL rate PostgreSQL diagnostics take between two Runs and the  *)
(* cuts of long texts and lists.                                           *)
(***************************************************************************)
EXTENDS Integers, Sequences, FiniteSets

CONSTANTS DbChecks,      \* instances of checks
          Deployments,   \* what each of them monitors: engine, kind, server, database
          DbMaxConns,    \* mysqlServerMaxConns, postgresMaxConns
          MaxOpens,      \* bound: pools opened
          MaxDbRuns      \* bound: Runs

Engines == {"mysql", "postgres", "mssql", "oracle"}
ASSUME DbPoolAssumption ==
  /\ IsFiniteSet(DbChecks) /\ "nobody" \notin DbChecks
  /\ Deployments \subseteq [DbChecks -> [engine : Engines, kind : {"server", "catalog", "diagnostics", "custom"},
                                       server : STRING, database : STRING]]
  /\ DbMaxConns \in Nat /\ MaxOpens \in Nat /\ MaxDbRuns \in Nat

VARIABLES
  plan,     \* the deployment
  pools,    \* every pool opened: references and connections
  byKey,    \* mysqlServers.byKey, pgxPools.byDSN: key -> its pool, or 0
  dbInst,   \* instance -> where it is
  dbResult, \* instance -> what its last Run returned
  dbRuns    \* Runs so far

dbPoolVars == <<plan, pools, byKey, dbInst, dbResult, dbRuns>>

Engine(c) == plan[c].engine
Shares(c) == Engine(c) \in {"mysql", "postgres"}

\* The DSN without its database for MySQL, the whole DSN for PostgreSQL; the
\* pools of the other engines are in no table.
KeyOf(c) ==
  CASE Engine(c) = "mysql" -> <<"mysql", plan[c].server>>
    [] Engine(c) = "postgres" -> <<"postgres", plan[c].server, plan[c].database>>
    [] OTHER -> <<Engine(c), c>>

Keys == {KeyOf(c) : c \in DbChecks}
Closed == [up |-> FALSE, db |-> "", by |-> "nobody"]
NewPool(c) == [key |-> KeyOf(c), refs |-> 1, open |-> TRUE, conns |-> [n \in 1 .. DbMaxConns |-> Closed]]
NoInst == [phase |-> "none", pool |-> 0, conn |-> 0, at |-> 1, read |-> {}, aborted |-> FALSE, expired |-> FALSE]
Error == [ok |-> FALSE, read |-> {}]

\* The queries of a Run, in order.
Program(c) ==
  CASE plan[c].kind = "catalog" -> IF Engine(c) = "postgres" THEN <<"query">> ELSE <<"version", "tables", "columns">>
    [] plan[c].kind = "custom" -> <<"query">>
    [] plan[c].kind = "diagnostics" -> <<"sessions", "waits", "blocking">>
    [] plan[c].kind = "server" -> CASE Engine(c) = "mysql" -> <<"version", "reads", "requests">>
                                    [] Engine(c) = "oracle" -> <<"sessions", "reads", "requests">>
                                    [] OTHER -> <<"sessions", "cache_hit_ratio">>

\* Whether the first query that fails ends the Run.
AllOrNothing(c) == plan[c].kind \in {"catalog", "custom"}

DbPoolInit ==
  /\ plan \in Deployments
  /\ pools = <<>> /\ byKey = [k \in Keys |-> 0]
  /\ dbInst = [c \in DbChecks |-> NoInst]
  /\ dbResult = [c \in DbChecks |-> Error]
  /\ dbRuns = 0

-----------------------------------------------------------------------------
(* Opening and closing *)

\* The factory, under the lock of the table: a part of the pool that is there,
\* or of a new one.
OpenPool(c) ==
  LET k == KeyOf(c)
      p == IF byKey[k] # 0 THEN byKey[k] ELSE Len(pools) + 1
  IN  /\ dbInst[c].phase = "none"
      /\ Len(pools) < MaxOpens \/ byKey[k] # 0
      /\ pools' = IF byKey[k] # 0 THEN [pools EXCEPT ![p].refs = @ + 1] ELSE Append(pools, NewPool(c))
      /\ byKey' = IF Shares(c) THEN [byKey EXCEPT ![k] = p] ELSE byKey
      /\ dbInst' = [dbInst EXCEPT ![c] = [NoInst EXCEPT !.phase = "ping", !.pool = p]]
      /\ UNCHANGED <<plan, dbResult, dbRuns>>

CloseAnyway(c) ==
  LET p == dbInst[c].pool
  IN  /\ pools' = [pools EXCEPT ![p].refs = @ - 1, ![p].open = FALSE,
                                ![p].conns = [n \in 1 .. DbMaxConns |-> Closed]]
      /\ byKey' = IF Shares(c) THEN [byKey EXCEPT ![KeyOf(c)] = 0] ELSE byKey
      /\ dbInst' = [dbInst EXCEPT ![c] = NoInst]
      /\ UNCHANGED <<plan, dbResult, dbRuns>>

\* Close of a part (once): the last one takes the pool out of the table and
\* closes it with its connections.
ClosePart(c) ==
  LET p == dbInst[c].pool
      last == pools[p].refs = 1
  IN  /\ pools' = [pools EXCEPT ![p] =
                    IF last
                    THEN [pools[p] EXCEPT !.refs = 0, !.open = FALSE, !.conns = [n \in 1 .. DbMaxConns |-> Closed]]
                    ELSE [pools[p] EXCEPT !.refs = @ - 1]]
      /\ byKey' = IF last /\ Shares(c) THEN [byKey EXCEPT ![KeyOf(c)] = 0] ELSE byKey
      /\ dbInst' = [dbInst EXCEPT ![c] = NoInst]
      /\ UNCHANGED <<plan, dbResult, dbRuns>>

\* The Ping of the factory, on a connection of the pool.
PingAnswers(c, ok) ==
  /\ dbInst[c].phase = "ping" /\ dbInst[c].conn # 0
  /\ pools' = [pools EXCEPT ![dbInst[c].pool].conns[dbInst[c].conn].by = "nobody"]
  /\ dbInst' = [dbInst EXCEPT ![c] = [@ EXCEPT !.phase = IF ok THEN "idle" ELSE "refused", !.conn = 0]]
  /\ UNCHANGED <<plan, byKey, dbResult, dbRuns>>

\* It failed, or got no connection: the part is closed and there is no check.
PingFails(c) ==
  /\ dbInst[c].phase \in {"ping", "refused"} /\ dbInst[c].conn = 0
  /\ ClosePart(c)

\* The instance was stopped; its goroutine closes it after its last Run.
StopCheck(c) == dbInst[c].phase = "idle" /\ ClosePart(c)

-----------------------------------------------------------------------------
(* Connections *)

Wanting(c) ==
  /\ dbInst[c].conn = 0
  /\ \/ dbInst[c].phase = "ping"
     \/ dbInst[c].phase = "run" /\ dbInst[c].at <= Len(Program(c)) /\ ~dbInst[c].aborted /\ ~dbInst[c].expired

\* What a new connection starts in: the DSN of a MySQL pool names no database.
StartsIn(c) == IF Engine(c) = "mysql" THEN "" ELSE plan[c].database

UsesNothing(c, db) == db

\* mysqlDatabasePool.conn switches what it borrowed to the database of the check.
Uses(c, db) == IF Engine(c) = "mysql" /\ plan[c].database # "" THEN plan[c].database ELSE db

\* The pool hands out a free connection, or opens one below its limit.
Borrow(c, n) ==
  LET p == dbInst[c].pool
      conn == pools[p].conns[n]
  IN  /\ Wanting(c)
      /\ conn.by = "nobody"
      /\ conn.up \/ \A m \in 1 .. DbMaxConns : pools[p].conns[m].up => pools[p].conns[m].by # "nobody"
      /\ pools' = [pools EXCEPT ![p].conns[n] =
                    [up |-> TRUE, db |-> Uses(c, IF conn.up THEN conn.db ELSE StartsIn(c)), by |-> c]]
      /\ dbInst' = [dbInst EXCEPT ![c].conn = n]
      /\ UNCHANGED <<plan, byKey, dbResult, dbRuns>>

\* The outcome of the query at hand.
After(c, ok) ==
  LET i == dbInst[c]
  IN  [i EXCEPT !.conn = 0, !.at = @ + 1,
                !.read = IF ok THEN @ \cup {Program(c)[i.at]} ELSE @,
                !.aborted = ~ok /\ AllOrNothing(c)]

KeepsConn(p, n) == pools

\* Scan of a row, or Close of the rows, gives the connection back.
GivesBack(p, n) == [pools EXCEPT ![p].conns[n].by = "nobody"]

Answer(c, ok) ==
  /\ dbInst[c].phase = "run" /\ dbInst[c].conn # 0
  /\ pools' = GivesBack(dbInst[c].pool, dbInst[c].conn)
  /\ dbInst' = [dbInst EXCEPT ![c] = After(c, ok /\ ~dbInst[c].expired)]
  /\ UNCHANGED <<plan, byKey, dbResult, dbRuns>>

\* No connection in time (none free, the server refuses, or USE fails), or the
\* context of the Run is over.
NoConnection(c) ==
  /\ dbInst[c].phase = "run" /\ dbInst[c].conn = 0
  /\ dbInst[c].at <= Len(Program(c)) /\ ~dbInst[c].aborted
  /\ dbInst' = [dbInst EXCEPT ![c] = After(c, FALSE)]
  /\ UNCHANGED <<plan, pools, byKey, dbResult, dbRuns>>

\* database/sql and pgxpool close connections that are idle for long.
Reap(p, n) ==
  /\ pools[p].conns[n].up /\ pools[p].conns[n].by = "nobody"
  /\ pools' = [pools EXCEPT ![p].conns[n] = Closed]
  /\ UNCHANGED <<plan, byKey, dbInst, dbResult, dbRuns>>

-----------------------------------------------------------------------------
(* Run *)

BeginRun(c) ==
  /\ dbInst[c].phase = "idle"
  /\ dbRuns < MaxDbRuns
  /\ dbRuns' = dbRuns + 1
  /\ dbInst' = [dbInst EXCEPT ![c] = [@ EXCEPT !.phase = "run", !.at = 1, !.read = {}, !.aborted = FALSE,
                                                !.expired = FALSE]]
  /\ UNCHANGED <<plan, pools, byKey, dbResult>>

Expire(c) ==
  /\ dbInst[c].phase = "run" /\ ~dbInst[c].expired
  /\ dbInst' = [dbInst EXCEPT ![c].expired = TRUE]
  /\ UNCHANGED <<plan, pools, byKey, dbResult, dbRuns>>

Returned(read) == [ok |-> TRUE, read |-> read]

\* The ratio is computed from two counters, when both were read.
Ratio(read) == IF {"reads", "requests"} \subseteq read THEN {"cache_hit_ratio"} ELSE {}

PostgresServer(i) == IF i.expired THEN Error ELSE Returned(i.read)

\* The version is no metric, nor are the counters of the ratio, but they count
\* as something that could be read.
MySQLServer(i) ==
  IF i.expired \/ i.read \ {"version"} = {} THEN Error ELSE Returned(Ratio(i.read))

MSSQLServer(i) == IF i.expired \/ i.read = {} THEN Error ELSE Returned(i.read)

OracleServer(i) == IF i.read = {} THEN Error ELSE Returned(i.read \cup Ratio(i.read))

\* Of the sections of the diagnostics each may be missing, but sessions and
\* waits not both; PostgreSQL returns whatever there is.
MySQLDiagnostics(i) == IF i.read \cap {"sessions", "waits"} = {} THEN Error ELSE Returned(i.read)
MSSQLDiagnostics(i) == IF i.read \cap {"sessions", "waits"} = {} THEN Error ELSE Returned(i.read)
OracleDiagnostics(i) == IF i.read \cap {"sessions", "waits"} = {} THEN Error ELSE Returned(i.read)
PostgresDiagnostics(i) == IF i.expired THEN Error ELSE Returned(i.read)

PostgresCatalog(i) == IF i.aborted \/ i.expired THEN Error ELSE Returned(i.read)

CatalogSoFar(i) == Returned(i.read)

MySQLCatalog(i) == IF i.aborted THEN Error ELSE Returned(i.read)
MSSQLCatalog(i) == IF i.aborted THEN Error ELSE Returned(i.read)
OracleCatalog(i) == IF i.aborted THEN Error ELSE Returned(i.read)

\* What is read must also be a number.
PostgresCustom(i, numeric) == IF i.aborted \/ ~numeric THEN Error ELSE Returned(i.read)
MySQLCustom(i, numeric) == IF i.aborted \/ ~numeric THEN Error ELSE Returned(i.read)
SQLCustom(i, numeric) == IF i.aborted \/ ~numeric THEN Error ELSE Returned(i.read)

ServerRun(c, i) ==
  CASE Engine(c) = "postgres" -> PostgresServer(i)
    [] Engine(c) = "mysql" -> MySQLServer(i)
    [] Engine(c) = "mssql" -> MSSQLServer(i)
    [] Engine(c) = "oracle" -> OracleServer(i)

DiagnosticsRun(c, i) ==
  CASE Engine(c) = "postgres" -> PostgresDiagnostics(i)
    [] Engine(c) = "mysql" -> MySQLDiagnostics(i)
    [] Engine(c) = "mssql" -> MSSQLDiagnostics(i)
    [] Engine(c) = "oracle" -> OracleDiagnostics(i)

CatalogRun(c, i) ==
  CASE Engine(c) = "postgres" -> PostgresCatalog(i)
    [] Engine(c) = "mysql" -> MySQLCatalog(i)
    [] Engine(c) = "mssql" -> MSSQLCatalog(i)
    [] Engine(c) = "oracle" -> OracleCatalog(i)

CustomRun(c, i, numeric) ==
  CASE Engine(c) = "postgres" -> PostgresCustom(i, numeric)
    [] Engine(c) = "mysql" -> MySQLCustom(i, numeric)
    [] Engine(c) \in {"mssql", "oracle"} -> SQLCustom(i, numeric)

Outcome(c, i, numeric) ==
  CASE plan[c].kind = "server" -> ServerRun(c, i)
    [] plan[c].kind = "diagnostics" -> DiagnosticsRun(c, i)
    [] plan[c].kind = "catalog" -> CatalogRun(c, i)
    [] plan[c].kind = "custom" -> CustomRun(c, i, numeric)

EndRun(c) ==
  /\ dbInst[c].phase = "run" /\ dbInst[c].conn = 0
  /\ dbInst[c].at > Len(Program(c)) \/ dbInst[c].aborted
  /\ \E numeric \in BOOLEAN : dbResult' = [dbResult EXCEPT ![c] = Outcome(c, dbInst[c], numeric)]
  /\ dbInst' = [dbInst EXCEPT ![c] = [NoInst EXCEPT !.phase = "idle", !.pool = dbInst[c].pool]]
  /\ UNCHANGED <<plan, pools, byKey, dbRuns>>

DbPoolNext ==
  \/ \E c \in DbChecks :
       \/ OpenPool(c) \/ PingFails(c) \/ StopCheck(c)
       \/ BeginRun(c) \/ NoConnection(c) \/ Expire(c) \/ EndRun(c)
       \/ \E ok \in BOOLEAN : PingAnswers(c, ok) \/ Answer(c, ok)
       \/ \E n \in 1 .. DbMaxConns : Borrow(c, n)
  \/ \E p \in DOMAIN pools, n \in 1 .. DbMaxConns : Reap(p, n)

DbPoolSpec == DbPoolInit /\ [][DbPoolNext]_dbPoolVars

-----------------------------------------------------------------------------
(* Properties *)

DbPoolTypeOK ==
  /\ plan \in Deployments
  /\ \A p \in DOMAIN pools :
       /\ pools[p].refs \in 0 .. Cardinality(DbChecks) /\ pools[p].open \in BOOLEAN
       /\ \A n \in 1 .. DbMaxConns : pools[p].conns[n].by \in DbChecks \cup {"nobody"}
  /\ Len(pools) <= MaxOpens /\ dbRuns \in 0 .. MaxDbRuns
  /\ \A k \in Keys : byKey[k] \in 0 .. Len(pools)
  /\ \A c \in DbChecks : dbInst[c].phase \in {"none", "ping", "refused", "idle", "run"} /\ dbInst[c].pool \in 0 .. Len(pools)

Holders(p) == {c \in DbChecks : dbInst[c].phase # "none" /\ dbInst[c].pool = p}

\* "o pool do servidor fecha quando a última checagem dele sai": in whatever order
\* the checks of a server come and go, one that is alive never finds its pool
\* closed by another, and a pool nobody has is closed and out of the table.
PoolsHeld ==
  /\ \A p \in DOMAIN pools : pools[p].open = (Holders(p) # {}) /\ pools[p].refs = Cardinality(Holders(p))
  /\ \A c \in DbChecks : dbInst[c].phase # "none" /\ Shares(c) => byKey[KeyOf(c)] = dbInst[c].pool
  /\ \A k \in Keys : byKey[k] # 0 => pools[byKey[k]].open

\* "cada uma continua vendo o seu database" and "nenhuma checagem segura duas
\* conexões ao mesmo tempo": a query runs in the database of its check although
\* the connection served another one, each check holds one connection at most,
\* and only while it asks.
OwnConnection ==
  \A c \in DbChecks, p \in DOMAIN pools, n \in 1 .. DbMaxConns :
    pools[p].conns[n].by = c =>
      /\ pools[p].conns[n].up /\ dbInst[c].pool = p /\ dbInst[c].conn = n
      /\ plan[c].database # "" => pools[p].conns[n].db = plan[c].database

\* All checks of one server together never have more connections than the limit,
\* pools that are being replaced included.
WithinConnections ==
  \A k \in Keys :
    Cardinality({x \in (DOMAIN pools) \X (1 .. DbMaxConns) :
                   pools[x[1]].key = k /\ pools[x[1]].conns[x[2]].up}) <= DbMaxConns

\* A catalog that is delivered has all its parts, and diagnostics say at least
\* who is connected or what waits (PostgreSQL's may be empty): a query that fails
\* half way is never taken for objects or sessions that are gone.
ResultsWhole ==
  \A c \in DbChecks :
    dbResult[c].ok =>
      CASE plan[c].kind = "catalog" -> \A n \in DOMAIN Program(c) : Program(c)[n] \in dbResult[c].read
        [] plan[c].kind = "diagnostics" /\ Engine(c) # "postgres" ->
             dbResult[c].read \cap {"sessions", "waits"} # {}
        [] OTHER -> TRUE

PoolsShared == PoolsHeld /\ OwnConnection /\ WithinConnections /\ ResultsWhole
=============================================================================
