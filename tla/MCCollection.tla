---------------------------- MODULE MCCollection ----------------------------
(***************************************************************************)
(* Small instances of the components that measure: what the checks of      *)
(* databases, devices, hosts and the kubelet read and report, the budget   *)
(* of series, the journald reader and the profiler. They share no state,   *)
(* so a behaviour moves one of them, part, and the others stay as they     *)
(* start.                                                                  *)
(***************************************************************************)
EXTENDS CheckSignals, SeriesBudget, SnmpCheck, Discovery, DatabasePool, ExternalCheck, HostRates, Kubelet, Journald,
        QueryStats, QueryLog

VARIABLES
  part,
  counts, stacks, alivePids, mods, flush, taken, profiles, raced   \* of the profiler

profVars == <<counts, stacks, alivePids, mods, flush, taken, profiles, raced>>
vars == <<part, signalVars, taggerVars, snmpVars, scanVars, queryVars, logVars, dbPoolVars, xVars, hostVars,
          kubeletVars, jVars, profVars>>

-----------------------------------------------------------------------------
\* The reading of the top statements leaves one of the two out. Each query has one plan.
MCQueryOf == [s \in Statements |-> s]

Db(e, k, d) == [engine |-> e, kind |-> k, server |-> "s", database |-> d]

\* Two checks of one server: of one database or two, of one DSN or two, of engines
\* that share a pool and of engines that do not.
MCDeployments ==
  {[x |-> Db("mysql", "server", "d1"), y |-> Db("mysql", "catalog", "d2")],
   [x |-> Db("mysql", "diagnostics", ""), y |-> Db("mysql", "custom", "d2")],
   [x |-> Db("postgres", "diagnostics", "d1"), y |-> Db("postgres", "catalog", "d1")],
   [x |-> Db("postgres", "server", "d1"), y |-> Db("postgres", "custom", "d2")],
   [x |-> Db("oracle", "catalog", "d1"), y |-> Db("mssql", "catalog", "d1")],
   [x |-> Db("oracle", "diagnostics", "d1"), y |-> Db("mssql", "diagnostics", "d2")],
   [x |-> Db("oracle", "server", "d1"), y |-> Db("mssql", "server", "d2")],
   [x |-> Db("oracle", "custom", "d1"), y |-> Db("oracle", "custom", "d2")]}

\* Two stacks that fall into one slot of the stack map, and a process of no pod.
MCImage == [p1 |-> "i1", p2 |-> "i2", p3 |-> "i2"]
MCBucket == [f |-> "b", g |-> "b"]
Prof == INSTANCE Profiler
  WITH ProfPids <- {"p1", "p2", "p3"}, Podless <- {"p3"}, Image <- MCImage, Frames <- {"f", "g"},
       Bucket <- MCBucket, CountCap <- 1, ModCap <- 1, MaxSamples <- 2, running <- alivePids

-----------------------------------------------------------------------------
Parts == {"signals", "tagger", "snmp", "scanner", "queries", "logs", "pool", "external",
          "host", "kubelet", "journal", "profiler"}

\* Every component starts; one that will not move starts in one way only.
Init ==
  /\ part \in Parts
  /\ SignalsInit /\ (part # "signals" => check = "explain" /\ dbAgent /\ named /\ tagged)
  /\ TaggerInit
  /\ SnmpInit /\ (part # "snmp" => custom)
  /\ ScanInit /\ (part # "scanner" => scanKind = "snmp" /\ runOnce /\ alive = {})
  /\ QueryInit /\ (part # "queries" => engine = "mysql" /\ \A s \in Statements : calls[s] = 0)
  /\ LogInit /\ (part # "logs" => source = "mongo" /\ windowed)
  /\ DbPoolInit /\ (part # "pool" => \A c \in DbChecks : plan[c].kind = "custom")
  /\ XInit /\ (part # "external" => target = {})
  /\ HostInit /\ (part # "host" => host = "linux.system")
  /\ KubeletInit
  /\ JInit
  /\ Prof!ProfInit

Next ==
  /\ UNCHANGED part
  /\ IF part = "signals" THEN SignalsNext ELSE UNCHANGED signalVars
  /\ IF part = "tagger" THEN TaggerNext ELSE UNCHANGED taggerVars
  /\ IF part = "snmp" THEN SnmpNext ELSE UNCHANGED snmpVars
  /\ IF part = "scanner" THEN ScanNext ELSE UNCHANGED scanVars
  /\ IF part = "queries" THEN QueryNext ELSE UNCHANGED queryVars
  /\ IF part = "logs" THEN LogNext ELSE UNCHANGED logVars
  /\ IF part = "pool" THEN DbPoolNext ELSE UNCHANGED dbPoolVars
  /\ IF part = "external" THEN XNext ELSE UNCHANGED xVars
  /\ IF part = "host" THEN HostNext ELSE UNCHANGED hostVars
  /\ IF part = "kubelet" THEN KubeletNext ELSE UNCHANGED kubeletVars
  /\ IF part = "journal" THEN JNext ELSE UNCHANGED jVars
  /\ IF part = "profiler" THEN Prof!ProfNext ELSE UNCHANGED profVars

Spec == Init /\ [][Next]_vars

-----------------------------------------------------------------------------
(* Properties *)

\* Each component keeps its types.
CollectionTypeOK ==
  CASE part = "signals" -> SignalsTypeOK
    [] part = "tagger" -> TaggerTypeOK
    [] part = "snmp" -> SnmpTypeOK
    [] part = "scanner" -> ScanTypeOK
    [] part = "queries" -> QueryTypeOK
    [] part = "logs" -> LogTypeOK
    [] part = "pool" -> DbPoolTypeOK
    [] part = "external" -> XTypeOK
    [] part = "host" -> HostTypeOK
    [] part = "kubelet" -> KubeletTypeOK
    [] part = "journal" -> JTypeOK
    [] part = "profiler" -> Prof!ProfTypeOK

\* What the agent takes of a host for samples stays within its limits: plans are asked
\* for no more often than their rate allows, and no profile sample is posted twice or
\* under the functions of another binary.
SamplesBounded ==
  /\ part = "logs" => PlansBounded
  /\ part = "profiler" => Prof!ProfilesTrue

\* What a check reports agrees with what it saw: a completed EXPLAIN was answered, and
\* capabilities follow their diagnostics; a device called unreachable delivers no
\* metric; a failed external run is incomplete and never an old success. No shared
\* database pool is closed under a check that lives or stays open for nobody, a borrowed
\* connection is in the database of its check, and a half-read catalog is never delivered.
ReportsHonest ==
  /\ AnsweredWhenCompleted /\ CapabilitiesAfterDiagnostics
  /\ ReportAgrees
  /\ NeverOldSuccess
  /\ PoolsShared

\* Rates of disks and services never claim more than was consumed between their two
\* readings, across replaced devices and failed reads; no more series than the budget
\* pass within any window; the windows of the statement checks never claim more
\* executions than happened (resets, evictions, lost windows), and no finished statement
\* is counted twice however readings overlap.
MeasuresTrue == RatesTrue /\ WithinBudget /\ WindowsAreDeltas /\ CountedOnce

\* A network scan that was not cut found every host that answers and left no
\* goroutine; every journal line met is delivered, queued or counted as dropped, once.
ReadersComplete == ScanComplete /\ JournalAccounted
=============================================================================
