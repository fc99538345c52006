-------------------------- MODULE CollectionProofs --------------------------
(***************************************************************************)
(* Proofs about the components that MCCollection brings together, each for *)
(* any value of its constants: CheckSignals, SeriesBudget, SnmpCheck,      *)
(* Discovery, ExternalCheck, HostRates, Journald, DatabasePool, Kubelet,   *)
(* QueryStats and QueryLog; and, since they share no state, about their    *)
(* composition.                                                            *)
(***************************************************************************)
EXTENDS MCCollection, FiniteSetTheorems, SequenceTheorems, TLAPS

-----------------------------------------------------------------------------
(* CheckSignals: the inductive invariant *)

\* What follows a delivery is behind it: capabilities wait to be posted, or were, only
\* once the diagnostics of their run were accepted or muted.
SignalsInv ==
  /\ SignalsTypeOK
  /\ AnsweredWhenCompleted
  /\ \A m \in posts \cup got : m.about = "capabilities" => Of("diagnostics", m.run) \in got \cup muted

-----------------------------------------------------------------------------
(* SeriesBudget: the inductive invariant *)

\* The table of the host holds what passed lately, with the time it last passed.
TableTrue ==
  /\ IsFiniteSet(DOMAIN seen) /\ Cardinality(DOMAIN seen) <= Budget
  /\ \A s \in Series : IF s \in DOMAIN seen THEN passed[s] = seen[s] ELSE passed[s] < now - Window

TaggerInv ==
  /\ TaggerTypeOK /\ TableTrue
  /\ \A s \in refused : passed[s] < now - Window

-----------------------------------------------------------------------------
(* SnmpCheck: the inductive invariant *)

\* One value for a metric and a row.
OneValueEach(found_) == \A m, n \in found_ : m.name = n.name /\ m.row = n.row => m = n

SnmpInv == OneValueEach(metrics) /\ ReportAgrees

-----------------------------------------------------------------------------
(* Discovery: the inductive invariant *)

\* While a scan runs a host that answers is found, probed or still ahead; no host is
\* ahead any more, and none probed, when the loop, and the run, is over.
ScanInv ==
  /\ ScanTypeOK /\ ScanComplete
  /\ scan # "idle" /\ ~cut => alive \subseteq found \cup busy \cup left
  /\ scan = "wait" => left = {}
  /\ scan = "idle" => busy = {}
  /\ scanDone \/ scan # "idle" => scans > 0

-----------------------------------------------------------------------------
(* ExternalCheck: the inductive invariant *)

Snapshots == [run : Nat, version : Nat, complete : BOOLEAN, resources : SUBSET Resources]
Outputs == [status : Statuses, resources : SUBSET Resources, all : BOOLEAN, truncated : BOOLEAN,
            mode : {"clustered", "unknown"}, counts : BOOLEAN]
Sendings == [snapshot : Snapshots, of : Nat, failed : BOOLEAN, truth : SUBSET Resources]

\* What the runner printed of the run is all that it read, or says that it was cut; and
\* what was mapped is of this run.
XInv ==
  /\ target \subseteq Resources /\ readAs \subseteq Resources /\ xrun \in Nat /\ version \in Nat
  /\ output \in Outputs /\ snapshot \in Snapshots /\ sent \in Sendings
  /\ xphase \in {"idle", "started", "verified", "mapped", "failed"}
  /\ xphase = "started" => output = NoOutput
  /\ xphase = "verified" /\ output # NoOutput => output.truncated \/ output.resources = readAs
  /\ xphase = "mapped" => /\ snapshot.run = xrun
                          /\ snapshot.complete => snapshot.resources = readAs
  /\ NeverOldSuccess

-----------------------------------------------------------------------------
(* HostRates: the inductive invariant *)

\* A counter is what it was at the last sample and what was consumed since; one that
\* started again at zero is at most that.
CountersTrue ==
  /\ \A d \in DOMAIN ioLast : IF d \in ioReset THEN disk[d].n <= ioUsed[d] ELSE disk[d].n = ioLast[d] + ioUsed[d]
  /\ \A g \in DOMAIN cpuLast \ unread : cgroup[g].n <= cpuLast[g] + cpuUsed[g]

HostShapes ==
  /\ spent \in 0 .. MaxSpend /\ disk \in [Devices -> [on : BOOLEAN, n : Nat]] /\ cgroup \in [Groups -> [on : BOOLEAN, n : Nat]]
  /\ ioUsed \in [Devices -> 0 .. spent] /\ cpuUsed \in [Groups -> 0 .. spent]
  /\ DOMAIN ioLast \subseteq Devices /\ \A d \in DOMAIN ioLast : ioLast[d] \in Nat
  /\ DOMAIN cpuLast \subseteq Groups /\ \A g \in DOMAIN cpuLast : cpuLast[g] \in Nat
  /\ scanned.groups \subseteq Groups

HostInv == HostShapes /\ CountersTrue /\ RatesTrue

-----------------------------------------------------------------------------
(* Journald: the inductive invariant *)

Lines == [unit : Units, form : {"line", "bad", "long"}, n : Nat]

\* What left the pipe (a) and what it still holds (p) is in the order written, up to the
\* n-th line.
InOrder(lines) == \A i, j \in 1 .. Len(lines) : i < j => lines[i].n < lines[j].n
Ordered(a, p, n) ==
  /\ InOrder(a) /\ InOrder(p)
  /\ \A i \in 1 .. Len(a) : a[i].n <= n /\ \A j \in 1 .. Len(p) : a[i].n < p[j].n
  /\ \A j \in 1 .. Len(p) : p[j].n <= n
OrderKept == Ordered(consumed \o jout, jpipe, jlines)

\* The bucket of a unit is its latest window.
WindowsTrue ==
  /\ \A w \in DOMAIN perWindow :
       /\ w \in Units \X Nat /\ perWindow[w] \in 0 .. LineLimit
       /\ buckets[w[1]].some /\ w[2] <= buckets[w[1]].end
       /\ w[2] = buckets[w[1]].end => perWindow[w] = buckets[w[1]].count
  /\ \A u \in Units : buckets[u].some => <<u, buckets[u].end>> \in DOMAIN perWindow

StatsKept == [lines : Nat, dropped : Nat, units : [Units -> Nat], seen : Nat]
JShapes ==
  /\ jtime \in Nat /\ jlines \in Nat /\ jpipe \in Seq(Lines) /\ jout \in Seq(Lines) /\ consumed \in Seq(Lines)
  /\ buckets \in [Units -> [count : Nat, end : Nat, some : BOOLEAN]]
  /\ stats \in StatsKept

DropMarks == UNION {DropsOf(u) : u \in Units}

\* Every line met is delivered, queued or has its mark among the drops.
LinesAccounted ==
  /\ Len(consumed) + Len(jout) + stats.dropped = stats.seen
  /\ IsFiniteSet(DropMarks) /\ stats.dropped = Cardinality(DropMarks)

JInv == JShapes /\ OrderKept /\ WindowsTrue /\ LinesAccounted

-----------------------------------------------------------------------------
(* DatabasePool: the inductive invariant *)

Sections == {"query", "version", "tables", "columns", "sessions", "waits", "blocking", "reads", "requests", "cache_hit_ratio"}
Databases == {""} \cup {plan[c].database : c \in DbChecks}
ConnShapes == [up : BOOLEAN, db : Databases, by : DbChecks \cup {"nobody"}]
PoolShapes == [key : Keys, refs : Nat, open : BOOLEAN, conns : [1 .. DbMaxConns -> ConnShapes]]
InstShapes == [phase : {"none", "ping", "refused", "idle", "run"}, pool : Nat, conn : Nat, at : Nat \ {0},
               read : SUBSET Sections, aborted : BOOLEAN, expired : BOOLEAN]
DbShapes ==
  /\ plan \in Deployments /\ pools \in Seq(PoolShapes) /\ byKey \in [Keys -> Nat]
  /\ dbInst \in [DbChecks -> InstShapes] /\ DOMAIN dbResult = DbChecks

\* A check that is there has a part of a pool of its key; one that is not has nothing.
PartsTrue ==
  \A c \in DbChecks :
    IF dbInst[c].phase = "none" THEN dbInst[c].pool = 0 /\ dbInst[c].conn = 0
    ELSE dbInst[c].pool \in 1 .. Len(pools) /\ pools[dbInst[c].pool].key = KeyOf(c)

\* The references of a pool are its holders; one without is closed, with its connections.
RefsTrue ==
  \A p \in 1 .. Len(pools) :
    /\ (pools[p].open <=> Holders(p) # {}) /\ pools[p].refs = Cardinality(Holders(p))
    /\ ~pools[p].open => \A n \in 1 .. DbMaxConns : pools[p].conns[n] = Closed

\* The table names the pool of every check that shares, and only pools with a holder.
TablePoints ==
  /\ \A c \in DbChecks : /\ ~Shares(c) => byKey[KeyOf(c)] = 0
                         /\ Shares(c) /\ dbInst[c].phase # "none" => byKey[KeyOf(c)] = dbInst[c].pool
  /\ \A k \in Keys : byKey[k] # 0 => \E c \in DbChecks : dbInst[c].phase # "none" /\ dbInst[c].pool = byKey[k] /\ KeyOf(c) = k

\* A connection in use and the check that uses it name each other, and it is in the
\* database of that check.
UsersTrue ==
  \A c \in DbChecks, p \in 1 .. Len(pools), n \in 1 .. DbMaxConns :
    pools[p].conns[n].by = c => pools[p].conns[n].up /\ dbInst[c].pool = p /\ dbInst[c].conn = n
UsersPlaced ==
  \A c \in DbChecks, p \in 1 .. Len(pools), n \in 1 .. DbMaxConns :
    pools[p].conns[n].by = c /\ plan[c].database # "" => pools[p].conns[n].db = plan[c].database
LoansTrue ==
  \A c \in DbChecks : dbInst[c].conn # 0 =>
    /\ dbInst[c].phase \in {"ping", "run"} /\ dbInst[c].conn \in 1 .. DbMaxConns
    /\ pools[dbInst[c].pool].conns[dbInst[c].conn].by = c

\* Where the DSN names the database, all connections of a pool are in it.
ConnsPlaced ==
  \A c \in DbChecks, p \in 1 .. Len(pools), n \in 1 .. DbMaxConns :
    pools[p].conns[n].up /\ KeyOf(c) = pools[p].key /\ Engine(c) # "mysql" => pools[p].conns[n].db = plan[c].database

\* A Run that ends at its first failure has read all that it asked so far.
ReadSoFar ==
  \A c \in DbChecks : AllOrNothing(c) /\ dbInst[c].phase = "run" /\ ~dbInst[c].aborted =>
    \A n \in 1 .. Len(Program(c)) : n < dbInst[c].at => Program(c)[n] \in dbInst[c].read

\* A Run that has a connection is at a query of its program.
AskingTrue ==
  \A c \in DbChecks : dbInst[c].phase = "run" /\ dbInst[c].conn # 0 =>
    dbInst[c].at \in 1 .. Len(Program(c)) /\ ~dbInst[c].aborted

DbInv == DbShapes /\ PartsTrue /\ RefsTrue /\ TablePoints /\ UsersTrue /\ UsersPlaced /\ LoansTrue /\ ConnsPlaced
         /\ ReadSoFar /\ AskingTrue /\ ResultsWhole

-----------------------------------------------------------------------------
(* CheckSignals *)

LEMMA SignalsInitInv == SignalsInit => SignalsInv
<1> SUFFICES ASSUME SignalsInit PROVE SignalsInv
  OBVIOUS
<1>1. SignalsTypeOK
  <2>1. run \in 0 .. MaxRuns
    BY SignalsAssumption DEF SignalsInit
  <2>2. module \in BOOLEAN /\ completed \in BOOLEAN
    BY DEF SignalsInit
  <2> QED
    BY <2>1, <2>2 DEF SignalsInit, SignalsTypeOK
<1>2. completed = FALSE /\ posts = {} /\ got = {}
  BY DEF SignalsInit
<1> QED
  BY <1>1, <1>2 DEF SignalsInv, AnsweredWhenCompleted

\* What a run adds is of this run, and is neither an answer nor capabilities.
LEMMA RunKeeps == SignalsInv /\ Run => SignalsInv'
<1> SUFFICES ASSUME SignalsInv, Run PROVE SignalsInv'
  OBVIOUS
<1> DEFINE n == IF run < MaxRuns THEN run + 1 ELSE run
<1>1. n \in 1 .. MaxRuns /\ run \in 0 .. MaxRuns
  BY SignalsAssumption DEF SignalsInv, SignalsTypeOK
<1>2. PICK new : /\ posts' = posts \cup new
                 /\ new \subseteq {Of(check, n), Of("explain", n), Of("status", n)}
  <2> HIDE DEF n
  <2>1. Pushed(n) \subseteq {Of(check, n)} /\ PushedOnError(n) \subseteq {Of("explain", n)}
    BY DEF Pushed, PushedOnError
  <2>2. \E result : /\ result \subseteq {Of(check, n), Of("explain", n)}
                    /\ posts' = posts \cup (result \cup {Of("status", n)})
    BY <2>1 DEF Run, n
  <2> QED
    BY <2>2
<1>3. UNCHANGED <<check, dbAgent, named, tagged, module, completed, got, muted>> /\ run' = n
  BY DEF Run
<1> HIDE DEF n
<1>4. new \subseteq Messages /\ \A m \in new : m.about # "capabilities"
  BY <1>1, <1>2 DEF Of, Messages, SignalsInv, SignalsTypeOK, Checks
<1>5. SignalsTypeOK'
  BY <1>1, <1>2, <1>3, <1>4 DEF SignalsInv, SignalsTypeOK
<1> QED
  BY <1>2, <1>3, <1>4, <1>5 DEF SignalsInv, AnsweredWhenCompleted

\* Capabilities are added only behind diagnostics that were delivered.
LEMMA PostKeeps ==
  ASSUME SignalsInv, NEW m \in posts, NEW answered \in BOOLEAN, Post(m, answered)
  PROVE  SignalsInv'
<1> DEFINE silent == Valid(m) /\ ~Allowed(m)
           delivered == Valid(m) /\ Allowed(m) /\ answered
<1>1. /\ got' = IF delivered THEN got \cup {m} ELSE got
      /\ muted' = IF silent THEN muted \cup {m} ELSE muted
      /\ posts' = (posts \ {m}) \cup Then(m, delivered \/ silent)
      /\ completed' = (completed \/ (m.about = "explain" /\ (delivered \/ silent)))
      /\ UNCHANGED <<check, dbAgent, named, tagged, module, run>>
  BY DEF Post
<1> HIDE DEF silent, delivered
<1>2. m \in Messages /\ m = Of(m.about, m.run)
  BY DEF SignalsInv, SignalsTypeOK, Messages, Of
<1>3. Then(m, delivered \/ silent) \subseteq Messages
  BY <1>2 DEF Then, Messages, Of
<1>4. SignalsTypeOK'
  BY <1>1, <1>2, <1>3 DEF SignalsInv, SignalsTypeOK
<1>5. AnsweredWhenCompleted'
  BY <1>1 DEF SignalsInv, SignalsTypeOK, AnsweredWhenCompleted
<1>6. \A x \in Then(m, delivered \/ silent) : x.about = "capabilities" => Of("diagnostics", x.run) \in got' \cup muted'
  BY <1>1, <1>2 DEF Then, Of
<1> QED
  BY <1>1, <1>4, <1>5, <1>6 DEF SignalsInv

LEMMA SignalsNextInv == SignalsInv /\ [SignalsNext]_signalVars => SignalsInv'
<1> SUFFICES ASSUME SignalsInv, [SignalsNext]_signalVars PROVE SignalsInv'
  OBVIOUS
<1>1. CASE SetEnabledModules \/ UNCHANGED signalVars
  <2>1. UNCHANGED <<check, dbAgent, named, tagged, run, completed, posts, got, muted>> /\ module' \in BOOLEAN
    BY <1>1 DEF SignalsInv, SignalsTypeOK, SetEnabledModules, signalVars
  <2>2. SignalsTypeOK'
    BY <2>1 DEF SignalsInv, SignalsTypeOK
  <2> QED
    BY <2>1, <2>2 DEF SignalsInv, AnsweredWhenCompleted
<1> QED
  BY <1>1, RunKeeps, PostKeeps DEF SignalsNext

\* postgresExplain.completed and the pushers of cmd/collector/main.go: an EXPLAIN ends
\* only once its plan or its failure was accepted or muted, and capabilities never reach
\* the backend before the diagnostics they follow, in whatever order goroutines post.
THEOREM SignalsHonest == SignalsSpec => [](AnsweredWhenCompleted /\ CapabilitiesAfterDiagnostics)
<1>1. SignalsInv => AnsweredWhenCompleted /\ CapabilitiesAfterDiagnostics
  BY DEF SignalsInv, CapabilitiesAfterDiagnostics
<1> QED
  BY <1>1, SignalsInitInv, SignalsNextInv, PTL DEF SignalsSpec

-----------------------------------------------------------------------------
(* SnmpCheck *)

\* executeDiscoveryRule: of two columns with one name only the first gives a row its value.
LEMMA OneValueEmitted ==
  ASSUME NEW p, NEW answered \in SUBSET Cells(p)
  PROVE  OneValueEach(Emitted(p, answered))
<1> DEFINE before(c) == {Columns(p)[i] : i \in {i \in 1 .. Len(Columns(p)) :
                           \E j \in i + 1 .. Len(Columns(p)) : Columns(p)[j] = c[1]}}
           first(c) == \A d \in answered : d[2] = c[2] /\ Canon(d[1]) = Canon(c[1]) => d[1] \notin before(c)
<1>1. ASSUME NEW c \in answered, NEW d \in answered, c[1] = "in32", d[1] = "in64", c[2] = d[2] PROVE ~first(c)
  <2>1. p # Generic
    BY <1>1 DEF Cells, Columns, Scalars
  <2>2. Columns(p) = <<"in64", "in32">>
    BY <2>1 DEF Columns
  <2>3. "in64" \in before(c)
    <3>1. Len(Columns(p)) = 2 /\ Columns(p)[1] = "in64" /\ Columns(p)[2] = "in32" /\ 1 \in 1 .. 2 /\ 2 \in 1 + 1 .. 2
      BY <2>2
    <3> QED
      BY <1>1, <3>1, Zenon
  <2> QED
    BY <1>1, <2>3 DEF Canon
<1>2. \A c \in answered : c[1] \in {"uptime", "in32", "in64"}
  <2>1. \A i \in 1 .. Len(Columns(p)) : Columns(p)[i] \in {"in32", "in64"}
    BY DEF Columns
  <2> QED
    BY <2>1 DEF Cells, Scalars
<1>3. ASSUME NEW c \in answered, NEW d \in answered, first(c), first(d), Canon(c[1]) = Canon(d[1]), c[2] = d[2]
      PROVE  c[1] = d[1]
  <2>1. ~(c[1] = "in32" /\ d[1] = "in64") /\ ~(d[1] = "in32" /\ c[1] = "in64")
    BY <1>1, <1>3
  <2> QED
    BY <1>2, <1>3, <2>1 DEF Canon
<1>4. Emitted(p, answered) = {[name |-> Canon(c[1]), row |-> c[2], by |-> c[1]] : c \in {c \in answered : first(c)}}
  BY DEF Emitted
<1> HIDE DEF first
<1> QED
  BY <1>3, <1>4 DEF OneValueEach

LEMMA SnmpInitInv == SnmpInit => SnmpInv
  BY DEF SnmpInit, SnmpInv, OneValueEach, ReportAgrees, NoReport

\* A run ends with a report of what it collected.
LEMMA ReportKeeps == SnmpInv /\ (FinishRun \/ Fail) => SnmpInv'
<1> SUFFICES ASSUME SnmpInv, NEW ok \in BOOLEAN, report' = Reported(ok), metrics' = metrics PROVE SnmpInv'
  BY DEF FinishRun, Fail
<1>1. CASE stopped
  BY <1>1 DEF Reported, SnmpInv, ReportAgrees, NoReport, OneValueEach
<1>2. CASE ~stopped
  <2> DEFINE wanted == {m \in metrics : m.name \notin Disabled}
             families == Families(resolved) \ Disabled
  <2>1. /\ report'.emitted = IF ok THEN wanted ELSE {}
        /\ report'.reachable = Reachable /\ report'.ok = ok
        /\ report'.expected = IF ok THEN families ELSE {}
        /\ report'.observed = IF ok THEN {m.name : m \in wanted} \cap families ELSE {}
    BY <1>2 DEF Reported
  <2>2. report'.emitted \subseteq metrics /\ (report'.emitted # {} => ok /\ metrics # {})
    BY <2>1
  <2>3. report'.observed \subseteq report'.expected
    BY <2>1
  <2> QED
    BY <2>1, <2>2, <2>3 DEF SnmpInv, ReportAgrees, OneValueEach, Reachable
<1> QED
  BY <1>1, <1>2

LEMMA SnmpNextInv == SnmpInv /\ [SnmpNext]_snmpVars => SnmpInv'
<1> SUFFICES ASSUME SnmpInv, [SnmpNext]_snmpVars PROVE SnmpInv'
  OBVIOUS
<1>1. CASE Probe
  BY <1>1 DEF Probe, SnmpInv, ReportAgrees, OneValueEach
<1>2. CASE CollectProfile
  <2>1. PICK answered : answered \in SUBSET Cells(resolved) /\ metrics' = Emitted(resolved, answered)
    BY <1>2 DEF CollectProfile
  <2>2. OneValueEach(metrics')
    BY <2>1, OneValueEmitted
  <2> QED
    BY <1>2, <2>2 DEF CollectProfile, SnmpInv, ReportAgrees, OneValueEach
<1>3. CASE Recreate
  BY <1>3 DEF Recreate, SnmpInv, ReportAgrees, OneValueEach, NoReport
<1>4. CASE Resolve \/ RegisterDynamicProfiles \/ CancelRun \/ DeviceChanges \/ IdentityDue \/ UNCHANGED snmpVars
  <2>1. UNCHANGED <<metrics, report>>
    BY <1>4 DEF Resolve, RegisterDynamicProfiles, CancelRun, DeviceChanges, IdentityDue, snmpVars
  <2> QED
    BY <2>1 DEF SnmpInv, ReportAgrees, OneValueEach
<1> QED
  BY <1>1, <1>2, <1>3, <1>4, ReportKeeps DEF SnmpNext

\* snmp_generic.go Run: a report with metrics calls the device reachable, gives one value
\* for a metric and a row, and observes only what it expected, however the device, the
\* profiles and the check change between the steps of a run.
THEOREM SnmpReportsAgree == SnmpSpec => []ReportAgrees
<1>1. SnmpInv => ReportAgrees
  BY DEF SnmpInv
<1> QED
  BY <1>1, SnmpInitInv, SnmpNextInv, PTL DEF SnmpSpec

-----------------------------------------------------------------------------
(* Discovery *)

LEMMA ScanInitInv == ScanInit => ScanInv
<1> SUFFICES ASSUME ScanInit PROVE ScanInv
  OBVIOUS
<1>1. scans \in 0 .. MaxScans /\ ~(scans > 0) /\ scan = "idle" /\ ~scanDone /\ busy = {}
  BY ScanAssumption DEF ScanInit
<1>2. ScanTypeOK
  <2>1. \A hosts \in {alive, left, busy, found, announced} : hosts \subseteq Hosts
    BY DEF ScanInit
  <2>2. scanDone \in BOOLEAN /\ cut \in BOOLEAN
    BY DEF ScanInit
  <2> QED
    BY <1>1, <2>1, <2>2 DEF ScanInit, ScanTypeOK
<1> QED
  BY <1>1, <1>2 DEF ScanInv, ScanComplete

LEMMA ScanNextInv == ScanInv /\ [ScanNext]_scanVars => ScanInv'
<1> SUFFICES ASSUME ScanInv, [ScanNext]_scanVars PROVE ScanInv'
  OBVIOUS
<1> USE ScanAssumption
<1>1. CASE BeginScan
  <2>1. /\ scan = "idle" /\ scans' = scans + 1 /\ scans \in Nat /\ scans' \in 0 .. MaxScans /\ scans' > 0
        /\ UNCHANGED <<scanKind, runOnce, scanDone, alive, busy, channel, announced>>
    BY <1>1 DEF BeginScan, ScanInv, ScanTypeOK
  <2>2. CASE runOnce /\ scanDone
    <3>1. UNCHANGED <<scan, left, found, cut>>
      BY <1>1, <2>2 DEF BeginScan
    <3>2. ScanTypeOK'
      BY <2>1, <3>1 DEF ScanInv, ScanTypeOK
    <3> QED
      BY <2>1, <2>2, <3>1, <3>2 DEF ScanInv, ScanComplete
  <2>3. CASE ~(runOnce /\ scanDone)
    <3>1. scan' = "launch" /\ left' = Hosts /\ found' = {} /\ cut' = FALSE
      BY <1>1, <2>3 DEF BeginScan
    <3>2. ScanTypeOK'
      <4>1. \A hosts \in {alive', left', busy', found', announced'} : hosts \subseteq Hosts
        BY <2>1, <3>1 DEF ScanInv, ScanTypeOK
      <4> QED
        BY <2>1, <3>1, <4>1 DEF ScanInv, ScanTypeOK
    <3> QED
      BY <2>1, <3>1, <3>2 DEF ScanInv, ScanComplete, ScanTypeOK
  <2> QED
    BY <2>2, <2>3
<1>2. ASSUME NEW h \in Hosts, Launch(h) PROVE ScanInv'
  BY <1>2 DEF Launch, ScanInv, ScanTypeOK, ScanComplete
<1>3. CASE EndLaunch
  BY <1>3 DEF EndLaunch, ScanInv, ScanTypeOK, ScanComplete
<1>4. ASSUME NEW h \in Hosts, ProbeEnds(h) PROVE ScanInv'
  BY <1>4 DEF ProbeEnds, ScanInv, ScanTypeOK, ScanComplete
<1>5. CASE EndScan
  BY <1>5 DEF EndScan, ScanInv, ScanTypeOK, ScanComplete
<1>6. CASE CutRun \/ UNCHANGED scanVars
  <2>1. /\ UNCHANGED <<scanKind, runOnce, scanDone, alive, scan, left, busy, found, scans, channel, announced>>
        /\ cut' \in BOOLEAN /\ (cut => cut') /\ (scan = "idle" => cut' = cut)
    BY <1>6 DEF CutRun, scanVars, ScanInv, ScanTypeOK
  <2>2. ScanTypeOK'
    BY <2>1 DEF ScanInv, ScanTypeOK
  <2> QED
    BY <2>1, <2>2 DEF ScanInv, ScanComplete
<1> QED
  BY <1>1, <1>2, <1>3, <1>4, <1>5, <1>6 DEF ScanNext

\* snmp_autodiscover.go and icmp_scan.go: whatever the number of hosts, of probes at once
\* and of runs, a scan that was not cut found every host that answers, and no goroutine
\* of it is left.
THEOREM ScansComplete == ScanSpec => []ScanComplete
<1>1. ScanInv => ScanComplete
  BY DEF ScanInv
<1> QED
  BY <1>1, ScanInitInv, ScanNextInv, PTL DEF ScanSpec

-----------------------------------------------------------------------------
(* ExternalCheck *)

LEMMA XInitInv == XInit => XInv
<1> SUFFICES ASSUME XInit PROVE XInv
  OBVIOUS
<1>1. NoSnapshot \in Snapshots /\ NoSnapshot.complete = FALSE /\ NoSnapshot.resources = {}
  BY DEF NoSnapshot, Snapshots
<1>2. NoOutput \in Outputs
  BY DEF NoOutput, Outputs, Statuses
<1>3. NoPush \in Sendings /\ NoPush.snapshot = NoSnapshot /\ NoPush.failed = FALSE
  BY <1>1 DEF NoPush, Sendings
<1> QED
  BY <1>1, <1>2, <1>3 DEF XInit, XInv, NeverOldSuccess

\* The target and the package change under a run: what was read stays what was read.
LEMMA SurroundingsKeep ==
  ASSUME XInv, \/ \E t \in SUBSET Resources : Change(t)
               \/ \E p \in [signed : BOOLEAN, declared : BOOLEAN, digests : BOOLEAN] : Install(p)
               \/ VerifyRun \/ InvokeFails \/ StopMidRun \/ UNCHANGED xVars
  PROVE  XInv'
<1>1. UNCHANGED <<xrun, output, snapshot, version, readAs, sent>> /\ target' \subseteq Resources
  BY DEF XInv, Change, Install, VerifyRun, InvokeFails, StopMidRun, xVars
<1>2. /\ xphase' \in {"idle", "started", "verified", "mapped", "failed"}
      /\ xphase' = "mapped" => xphase = "mapped"
      /\ xphase' = "verified" => xphase = "verified" \/ xphase = "started"
  BY DEF XInv, Change, Install, VerifyRun, InvokeFails, StopMidRun, xVars
<1>3. NeverOldSuccess'
  BY <1>1 DEF XInv, NeverOldSuccess
<1>4. xphase' = "verified" /\ output' # NoOutput => output'.truncated \/ output'.resources = readAs'
  BY <1>1, <1>2 DEF XInv
<1>5. xphase' = "started" => output' = NoOutput
  BY <1>1 DEF XInv, Change, Install, VerifyRun, InvokeFails, StopMidRun, xVars
<1> QED
  BY <1>1, <1>2, <1>3, <1>4, <1>5 DEF XInv

\* A run starts with a report that is a failure, and without an output.
LEMMA StartsKeep == XInv /\ (Reconfigure \/ StartRun) => XInv'
<1> SUFFICES ASSUME XInv, Reconfigure \/ StartRun PROVE XInv'
  OBVIOUS
<1>1. NoSnapshot \in Snapshots /\ NoOutput \in Outputs
  BY DEF NoSnapshot, Snapshots, NoOutput, Outputs, Statuses
<1>2. NoStored.resources = {} /\ Complete(NoStored) = FALSE
  BY DEF NoStored, Complete
<1>3. CASE Reconfigure
  BY <1>1, <1>3 DEF Reconfigure, XInv, NeverOldSuccess
<1>4. CASE StartRun
  <2>1. snapshot' = [run |-> xrun + 1, version |-> version, complete |-> FALSE, resources |-> {}]
    BY <1>2, <1>4 DEF StartRun, MakeInventoryReport
  <2>2. snapshot' \in Snapshots
    BY <2>1 DEF Snapshots, XInv
  <2> QED
    BY <1>1, <1>4, <2>2 DEF StartRun, XInv, NeverOldSuccess
<1> QED
  BY <1>3, <1>4

\* The runner prints all of the target or says that it cut the list.
LEMMA InvokeKeeps ==
  ASSUME XInv, NEW listed \in SUBSET Resources, NEW st \in Statuses, NEW mode \in {"clustered", "unknown"}, NEW c \in BOOLEAN,
         Invoke(listed, st, mode, c)
  PROVE  XInv'
<1>1. /\ xphase = "verified" /\ readAs' = target
      /\ output' = [status |-> st, resources |-> listed, all |-> TRUE, truncated |-> listed # target, mode |-> mode, counts |-> c]
      /\ UNCHANGED <<target, package, changes, xrun, xphase, stored, snapshot, version, sent>>
  BY DEF Invoke
<1>2. output' \in Outputs /\ output'.resources = listed /\ output'.truncated = (listed # target)
  BY <1>1 DEF Outputs
<1> QED
  BY <1>1, <1>2 DEF XInv, NeverOldSuccess

\* makeInventoryReport: complete only for a list that was not cut.
LEMMA MapKeeps == XInv /\ MapResponse => XInv'
<1> SUFFICES ASSUME XInv, MapResponse PROVE XInv'
  OBVIOUS
<1>1. output \in Outputs /\ (output.truncated \/ output.resources = readAs)
  BY DEF XInv, MapResponse
<1>2. CASE output.status \in {"error", "invalid"}
  BY <1>2 DEF MapResponse, XInv, NeverOldSuccess
<1>3. CASE output.status \notin {"error", "invalid"}
  <2>1. /\ stored'.resources = output.resources /\ stored'.truncated = output.truncated
        /\ snapshot' = MakeInventoryReport(xrun, stored') /\ xphase' = "mapped"
        /\ UNCHANGED <<target, package, changes, xrun, output, version, readAs, sent>>
    BY <1>3 DEF MapResponse
  <2>2. Complete(stored') \in BOOLEAN /\ (Complete(stored') => ~output.truncated)
    BY <2>1 DEF Complete
  <2>3. snapshot' = [run |-> xrun, version |-> version, complete |-> Complete(stored'), resources |-> output.resources]
    BY <2>1 DEF MakeInventoryReport
  <2>4. /\ snapshot' \in Snapshots /\ snapshot'.run = xrun
        /\ snapshot'.complete = Complete(stored') /\ snapshot'.resources = output.resources
    BY <1>1, <2>2, <2>3 DEF Snapshots, Outputs, XInv
  <2> QED
    BY <1>1, <2>1, <2>2, <2>4 DEF XInv, NeverOldSuccess
<1> QED
  BY <1>2, <1>3

\* runOnce: a failure or a deadline empties the snapshot.
LEMMA PushKeeps == ASSUME XInv, NEW timedOut \in BOOLEAN, Push(timedOut) PROVE XInv'
<1> DEFINE failed == xphase = "failed" \/ timedOut
           pushed_ == IF failed THEN [snapshot EXCEPT !.complete = FALSE, !.resources = {}] ELSE snapshot
<1>1. /\ sent' = [snapshot |-> pushed_, of |-> xrun, failed |-> failed, truth |-> readAs]
      /\ xphase' = "idle" /\ (failed \/ xphase = "mapped")
      /\ UNCHANGED <<target, package, changes, xrun, output, stored, snapshot, version, readAs>>
  BY DEF Push
<1>2. /\ pushed_ \in Snapshots /\ (failed => pushed_.complete = FALSE /\ pushed_.resources = {})
      /\ ~failed => pushed_ = snapshot
  BY DEF XInv, Snapshots
<1>3. failed \in BOOLEAN
  OBVIOUS
<1> HIDE DEF failed, pushed_
<1>4. sent' \in Sendings /\ sent'.snapshot = pushed_ /\ sent'.of = xrun /\ sent'.failed = failed /\ sent'.truth = readAs
  BY <1>1, <1>2, <1>3 DEF Sendings, XInv
<1>5. NeverOldSuccess'
  BY <1>1, <1>2, <1>3, <1>4 DEF XInv, NeverOldSuccess
<1> QED
  BY <1>1, <1>4, <1>5 DEF XInv

LEMMA XNextInv == XInv /\ [XNext]_xVars => XInv'
  BY SurroundingsKeep, StartsKeep, InvokeKeeps, MapKeeps, PushKeeps DEF XNext

\* external_python.go and runOnce: a complete snapshot is of the run it follows, which did
\* not fail, and lists all that the target held when the run read it; so the gateway never
\* removes resources because of an old or a cut list.
THEOREM ExternalNeverOld == XSpec => []NeverOldSuccess
<1>1. XInv => NeverOldSuccess
  BY DEF XInv
<1> QED
  BY <1>1, XInitInv, XNextInv, PTL DEF XSpec

-----------------------------------------------------------------------------
(* HostRates *)

LEMMA HostInitInv == HostInit => HostInv
<1> SUFFICES ASSUME HostInit PROVE HostInv
  OBVIOUS
<1> USE HostAssumption
<1>1. /\ spent = 0 /\ DOMAIN ioLast = {} /\ DOMAIN cpuLast = {} /\ ioOut = {} /\ svcOut = {}
      /\ scanned.groups = {} /\ unread = {}
  BY DEF HostInit, NoScan
<1>2. /\ disk \in [Devices -> [on : BOOLEAN, n : Nat]] /\ cgroup \in [Groups -> [on : BOOLEAN, n : Nat]]
      /\ ioUsed \in [Devices -> 0 .. spent] /\ cpuUsed \in [Groups -> 0 .. spent]
  BY <1>1 DEF HostInit, Off
<1> QED
  BY <1>1, <1>2 DEF HostInv, HostShapes, CountersTrue, RatesTrue

\* What is used counts against a growing total.
LEMMA UsedGrows ==
  ASSUME NEW S, NEW n \in Nat, NEW f \in [S -> 0 .. n], NEW x \in S
  PROVE  f \in [S -> 0 .. n + 1] /\ [f EXCEPT ![x] = @ + 1] \in [S -> 0 .. n + 1]
<1>1. \A y \in S : f[y] \in 0 .. n + 1 /\ f[y] + 1 \in 0 .. n + 1
  OBVIOUS
<1> QED
  BY <1>1

\* The disks: used, replaced and pulled.
LEMMA DisksKeep ==
  ASSUME HostInv, NEW d \in Devices, Transfer(d) \/ Replace(d) \/ Unplug(d)
  PROVE  HostInv'
<1> USE HostAssumption
<1>1. UNCHANGED <<ioLast, ioAt, ioOut, cgroup, cpuLast, cpuUsed, unread, scanned, svcOut>>
  BY DEF Transfer, Replace, Unplug, svcVars
<1>2. /\ disk \in [Devices -> [on : BOOLEAN, n : Nat]] /\ spent \in 0 .. MaxSpend
      /\ ioUsed \in [Devices -> 0 .. spent] /\ cpuUsed \in [Groups -> 0 .. spent]
      /\ DOMAIN ioLast \subseteq Devices /\ \A x \in DOMAIN ioLast : ioLast[x] \in Nat
  BY DEF HostInv, HostShapes
<1>3. CASE Transfer(d)
  <2>1. spent' = spent + 1 /\ disk' = [disk EXCEPT ![d].n = @ + 1] /\ ioUsed' = [ioUsed EXCEPT ![d] = @ + 1] /\ ioReset' = ioReset
        /\ spent' \in 0 .. MaxSpend
    BY <1>2, <1>3 DEF Transfer
  <2>2. ioUsed' \in [Devices -> 0 .. spent'] /\ cpuUsed' \in [Groups -> 0 .. spent']
    <3>1. spent \in Nat
      BY <1>2
    <3>2. ioUsed' \in [Devices -> 0 .. spent']
      BY <1>2, <2>1, <3>1, UsedGrows
    <3>3. \A g \in Groups : cpuUsed[g] \in 0 .. spent'
      BY <1>2, <2>1, <3>1
    <3> QED
      BY <1>1, <1>2, <3>2, <3>3
  <2>3. /\ disk' \in [Devices -> [on : BOOLEAN, n : Nat]] /\ disk'[d].n = disk[d].n + 1 /\ ioUsed'[d] = ioUsed[d] + 1
        /\ \A x \in Devices \ {d} : disk'[x] = disk[x] /\ ioUsed'[x] = ioUsed[x]
    BY <1>2, <2>1
  <2>4. \A x \in Devices : ioUsed[x] \in Nat /\ disk[x].n \in Nat
    BY <1>2
  <2>5. CountersTrue'
    BY <1>1, <1>2, <2>1, <2>3, <2>4 DEF HostInv, CountersTrue
  <2> QED
    BY <1>1, <2>1, <2>2, <2>3, <2>5 DEF HostInv, HostShapes, RatesTrue
<1>4. CASE Replace(d)
  <2>1. spent' = spent /\ disk' = [disk EXCEPT ![d].n = 0] /\ ioUsed' = ioUsed /\ ioReset' = ioReset \cup {d}
    BY <1>4 DEF Replace
  <2>2. /\ disk' \in [Devices -> [on : BOOLEAN, n : Nat]] /\ disk'[d].n = 0
        /\ \A x \in Devices \ {d} : disk'[x] = disk[x]
    BY <1>2, <2>1
  <2>3. ioUsed[d] >= 0
    BY <1>2
  <2>4. CountersTrue'
    BY <1>1, <1>2, <2>1, <2>2, <2>3 DEF HostInv, CountersTrue
  <2> QED
    BY <1>1, <2>1, <2>2, <2>4 DEF HostInv, HostShapes, RatesTrue
<1>5. CASE Unplug(d)
  <2>1. spent' = spent /\ disk' = [disk EXCEPT ![d].on = ~@] /\ ioUsed' = ioUsed /\ ioReset' = ioReset
    BY <1>5 DEF Unplug
  <2>2. /\ disk' \in [Devices -> [on : BOOLEAN, n : Nat]] /\ \A x \in Devices : disk'[x].n = disk[x].n
    BY <1>2, <2>1
  <2>3. CountersTrue'
    BY <1>1, <1>2, <2>1, <2>2 DEF HostInv, CountersTrue
  <2> QED
    BY <1>1, <2>1, <2>2, <2>3 DEF HostInv, HostShapes, RatesTrue
<1> QED
  BY <1>3, <1>4, <1>5

\* A remainder is no more than what is divided, and is that when it fits the width.
LEMMA Remainder ==
  ASSUME NEW x \in Nat, NEW w \in Nat \ {0}
  PROVE  x % w \in Nat /\ x % w <= x /\ (x < w => x % w = x)
  OBVIOUS

\* diskIOLatencyMetrics, and the new sample.
LEMMA RunSystemKeeps == HostInv /\ RunSystem => HostInv'
<1> SUFFICES ASSUME HostInv, RunSystem PROVE HostInv'
  OBVIOUS
<1> USE HostAssumption
<1>1. /\ ioOut' = DiskRates /\ ioLast' = [d \in {x \in Devices : disk[x].on} |-> disk[d].n]
      /\ ioUsed' = [d \in Devices |-> 0] /\ ioReset' = {}
      /\ UNCHANGED <<spent, disk, cgroup, cpuLast, cpuUsed, unread, scanned, svcOut>>
  BY DEF RunSystem, svcVars
<1>2. /\ disk \in [Devices -> [on : BOOLEAN, n : Nat]] /\ spent \in 0 .. MaxSpend
      /\ ioUsed \in [Devices -> 0 .. spent]
      /\ DOMAIN ioLast \subseteq Devices /\ \A x \in DOMAIN ioLast : ioLast[x] \in Nat
  BY DEF HostInv, HostShapes
<1>3. ASSUME NEW d \in DOMAIN ioLast, disk[d].n >= ioLast[d]
      PROVE  LET delta == (disk[d].n - ioLast[d]) % Width
             IN  delta <= ioUsed[d] /\ (d \notin ioReset => delta = ioUsed[d])
  <2>1. disk[d].n \in Nat /\ ioLast[d] \in Nat /\ ioUsed[d] \in Nat /\ ioUsed[d] < Width /\ Width \in Nat \ {0}
    BY <1>2
  <2> DEFINE x == disk[d].n - ioLast[d]
  <2>2. x \in Nat
    BY <1>3, <2>1
  <2>3. x <= ioUsed[d] /\ (d \notin ioReset => x = ioUsed[d])
    BY <2>1 DEF HostInv, CountersTrue
  <2> HIDE DEF x
  <2>4. x % Width \in Nat /\ x % Width <= x /\ (x < Width => x % Width = x)
    BY <2>1, <2>2, Remainder
  <2>5. x % Width <= ioUsed[d] /\ (d \notin ioReset => x % Width = ioUsed[d])
    BY <2>1, <2>2, <2>3, <2>4
  <2> QED
    BY <2>5 DEF x
<1>4. \A r \in ioOut' : r.delta <= r.used /\ (~r.reset => r.delta = r.used)
  <2> SUFFICES ASSUME NEW r \in DiskRates PROVE r.delta <= r.used /\ (~r.reset => r.delta = r.used)
    BY <1>1
  <2>1. PICK d \in DOMAIN ioLast :
          /\ disk[d].n >= ioLast[d]
          /\ r = [dev |-> d, delta |-> (disk[d].n - ioLast[d]) % Width, elapsed |-> htime - ioAt.at,
                  used |-> ioUsed[d], reset |-> d \in ioReset]
    BY DEF DiskRates, Monotonic
  <2>2. r.delta = (disk[d].n - ioLast[d]) % Width /\ r.used = ioUsed[d] /\ r.reset = (d \in ioReset)
    BY <2>1
  <2> QED
    BY <1>3, <2>1, <2>2
<1>5. /\ DOMAIN ioLast' \subseteq Devices
      /\ \A d \in DOMAIN ioLast' : ioLast'[d] = disk[d].n /\ disk[d].n \in Nat /\ ioUsed'[d] = 0
  BY <1>1, <1>2
<1>6. ioUsed' \in [Devices -> 0 .. spent]
  BY <1>1, <1>2
<1>7. CountersTrue'
  <2>1. \A d \in DOMAIN ioLast' : d \notin ioReset' /\ disk'[d].n = ioLast'[d] + ioUsed'[d]
    BY <1>1, <1>5
  <2>2. \A g \in DOMAIN cpuLast' \ unread' : cgroup'[g].n <= cpuLast'[g] + cpuUsed'[g]
    BY <1>1 DEF HostInv, CountersTrue
  <2> QED
    BY <2>1, <2>2 DEF CountersTrue
<1> QED
  BY <1>1, <1>4, <1>5, <1>6, <1>7 DEF HostInv, HostShapes, RatesTrue

\* The cgroups: started, ended, and using CPU.
LEMMA GroupsKeep ==
  ASSUME HostInv, NEW g \in Groups, StartGroup(g) \/ StopGroup(g) \/ Burn(g) \/ Track(g)
  PROVE  HostInv'
<1> USE HostAssumption
<1>1. UNCHANGED <<ioLast, disk, ioUsed, ioReset, ioOut, cpuLast, unread, scanned, svcOut>>
  BY DEF StartGroup, StopGroup, Burn, Track, ioVars
<1>2. /\ cgroup \in [Groups -> [on : BOOLEAN, n : Nat]] /\ spent \in 0 .. MaxSpend
      /\ ioUsed \in [Devices -> 0 .. spent] /\ cpuUsed \in [Groups -> 0 .. spent]
      /\ DOMAIN cpuLast \subseteq Groups /\ \A x \in DOMAIN cpuLast : cpuLast[x] \in Nat
  BY DEF HostInv, HostShapes
<1>3. CASE Burn(g)
  <2>1. spent' = spent + 1 /\ cgroup' = [cgroup EXCEPT ![g].n = @ + 1] /\ cpuUsed' = [cpuUsed EXCEPT ![g] = @ + 1]
        /\ spent' \in 0 .. MaxSpend
    BY <1>2, <1>3 DEF Burn
  <2>2. ioUsed' \in [Devices -> 0 .. spent'] /\ cpuUsed' \in [Groups -> 0 .. spent']
    <3>1. spent \in Nat
      BY <1>2
    <3>2. cpuUsed' \in [Groups -> 0 .. spent']
      BY <1>2, <2>1, <3>1, UsedGrows
    <3>3. \A d \in Devices : ioUsed[d] \in 0 .. spent'
      BY <1>2, <2>1, <3>1
    <3> QED
      BY <1>1, <1>2, <3>2, <3>3
  <2>3. /\ cgroup' \in [Groups -> [on : BOOLEAN, n : Nat]] /\ cgroup'[g].n = cgroup[g].n + 1 /\ cpuUsed'[g] = cpuUsed[g] + 1
        /\ \A x \in Groups \ {g} : cgroup'[x] = cgroup[x] /\ cpuUsed'[x] = cpuUsed[x]
    BY <1>2, <2>1
  <2>4. \A x \in Groups : cpuUsed[x] \in Nat /\ cgroup[x].n \in Nat
    BY <1>2
  <2>5. CountersTrue'
    BY <1>1, <1>2, <2>1, <2>3, <2>4 DEF HostInv, CountersTrue
  <2> QED
    BY <1>1, <2>1, <2>2, <2>3, <2>5 DEF HostInv, HostShapes, RatesTrue
<1>4. CASE StartGroup(g) \/ StopGroup(g) \/ Track(g)
  <2>1. spent' = spent /\ cpuUsed' = cpuUsed
    BY <1>4 DEF StartGroup, StopGroup, Track
  <2>2. /\ cgroup' \in [Groups -> [on : BOOLEAN, n : Nat]]
        /\ \A x \in Groups : cgroup'[x].n = cgroup[x].n \/ cgroup'[x].n = 0
    <3>1. CASE StartGroup(g)
      BY <1>2, <3>1 DEF StartGroup
    <3>2. CASE StopGroup(g)
      BY <1>2, <3>2 DEF StopGroup, Off
    <3>3. CASE Track(g)
      BY <1>2, <3>3 DEF Track
    <3> QED
      BY <1>4, <3>1, <3>2, <3>3
  <2>3. \A x \in DOMAIN cpuLast : cpuLast[x] + cpuUsed[x] >= 0
    BY <1>2
  <2>4. CountersTrue'
    BY <1>1, <1>2, <2>1, <2>2, <2>3 DEF HostInv, CountersTrue
  <2> QED
    BY <1>1, <2>1, <2>2, <2>4 DEF HostInv, HostShapes, RatesTrue
<1> QED
  BY <1>3, <1>4

\* A tick of linux.processes: the baselines that stay are of counters read now, or of
\* cgroups that are marked unread.
LEMMA RunProcessesKeeps ==
  ASSUME HostInv, NEW failed \in SUBSET scanned.groups, RunProcesses(failed)
  PROVE  HostInv'
<1> USE HostAssumption
<1> DEFINE readable == Readable(failed)
<1>1. /\ cpuLast' = [g \in Pruned(scanned.groups) \cup readable |-> IF g \in readable THEN cgroup[g].n ELSE cpuLast[g]]
      /\ cpuUsed' = [g \in Groups |-> 0] /\ unread' = scanned.groups \ readable /\ scanned' = NoScan
      /\ UNCHANGED <<spent, disk, ioLast, ioUsed, ioReset, ioOut, cgroup>>
  BY DEF RunProcesses, ioVars
<1>2. /\ cgroup \in [Groups -> [on : BOOLEAN, n : Nat]] /\ spent \in 0 .. MaxSpend
      /\ cpuUsed \in [Groups -> 0 .. spent] /\ scanned.groups \subseteq Groups
      /\ DOMAIN cpuLast \subseteq Groups /\ \A x \in DOMAIN cpuLast : cpuLast[x] \in Nat
  BY DEF HostInv, HostShapes
<1>3. readable \subseteq scanned.groups /\ Pruned(scanned.groups) \subseteq DOMAIN cpuLast \cap scanned.groups
  BY DEF Readable, Pruned
<1> HIDE DEF readable
<1>4. ASSUME NEW g \in scanned.groups, NEW known, g \notin unread
      PROVE  SampleOf(g, failed, known).delta <= SampleOf(g, failed, known).used
  <2>1. cpuUsed[g] \in Nat /\ cgroup[g].n \in Nat
    BY <1>2
  <2>2. CpuDelta(g) <= cpuUsed[g]
    <3>1. CASE g \in DOMAIN cpuLast
      <4>1. cgroup[g].n <= cpuLast[g] + cpuUsed[g] /\ cpuLast[g] \in Nat
        BY <1>2, <1>4, <3>1 DEF HostInv, CountersTrue
      <4> QED
        BY <2>1, <4>1 DEF CpuDelta
    <3>2. CASE g \notin DOMAIN cpuLast
      BY <2>1, <3>2 DEF CpuDelta
    <3> QED
      BY <3>1, <3>2
  <2> QED
    BY <2>1, <2>2 DEF SampleOf
<1>5. \A s \in svcOut' : ~s.late => s.delta <= s.used
  <2>1. PICK known : svcOut' \subseteq {SampleOf(g, failed, known) : g \in scanned.groups}
    BY DEF RunProcesses, Top
  <2>2. \A g \in scanned.groups : SampleOf(g, failed, known).late = (g \in unread)
    BY DEF SampleOf
  <2> QED
    BY <1>4, <2>1, <2>2
<1>6. /\ DOMAIN cpuLast' \subseteq Groups /\ (\A g \in DOMAIN cpuLast' : cpuLast'[g] \in Nat)
      /\ \A g \in DOMAIN cpuLast' \ unread' : cpuLast'[g] = cgroup[g].n /\ cpuUsed'[g] = 0 /\ cgroup[g].n \in Nat
  BY <1>1, <1>2, <1>3
<1>7. cpuUsed' \in [Groups -> 0 .. spent] /\ scanned'.groups \subseteq Groups
  BY <1>1, <1>2 DEF NoScan
<1>8. CountersTrue'
  <2>1. \A g \in DOMAIN cpuLast' \ unread' : cgroup'[g].n <= cpuLast'[g] + cpuUsed'[g]
    <3> TAKE g \in DOMAIN cpuLast' \ unread'
    <3>1. cpuLast'[g] = cgroup[g].n /\ cpuUsed'[g] = 0 /\ cgroup[g].n \in Nat
      BY <1>6
    <3>2. cgroup' = cgroup
      BY <1>1
    <3> QED
      BY <3>1, <3>2
  <2>2. \A d \in DOMAIN ioLast' : IF d \in ioReset' THEN disk'[d].n <= ioUsed'[d] ELSE disk'[d].n = ioLast'[d] + ioUsed'[d]
    BY <1>1 DEF HostInv, CountersTrue
  <2> QED
    BY <2>1, <2>2 DEF CountersTrue
<1> QED
  BY <1>1, <1>5, <1>6, <1>7, <1>8 DEF HostInv, HostShapes, RatesTrue

LEMMA HostNextInv == HostInv /\ [HostNext]_hostVars => HostInv'
<1> SUFFICES ASSUME HostInv, [HostNext]_hostVars PROVE HostInv'
  OBVIOUS
<1>1. CASE HTick \/ UNCHANGED hostVars
  BY <1>1 DEF HTick, hostVars, ioVars, svcVars, HostInv, HostShapes, CountersTrue, RatesTrue
<1>2. CASE ScanProcs
  <2>1. scanned'.groups \subseteq Groups /\ svcOut' = {}
    BY <1>2 DEF ScanProcs
  <2> QED
    BY <1>2, <2>1 DEF ScanProcs, ioVars, HostInv, HostShapes, CountersTrue, RatesTrue
<1> QED
  BY <1>1, <1>2, DisksKeep, RunSystemKeeps, GroupsKeep, RunProcessesKeeps DEF HostNext, SystemNext, ProcessesNext

\* linux_system.go and linux_processes.go: a rate never claims more than was consumed
\* between its two readings, for any devices, cgroups, width of the counters and order of
\* replaced devices, restarts and failed reads.
THEOREM HostRatesTrue == HostSpec => []RatesTrue
<1>1. HostInv => RatesTrue
  BY DEF HostInv
<1> QED
  BY <1>1, HostInitInv, HostNextInv, PTL DEF HostSpec

-----------------------------------------------------------------------------
(* SeriesBudget *)

LEMMA TaggerInitInv == TaggerInit => TaggerInv
<1> SUFFICES ASSUME TaggerInit PROVE TaggerInv
  OBVIOUS
<1> USE TaggerAssumption
<1>1. DOMAIN seen = {} /\ now = 0 /\ kept = {} /\ refused = {} /\ passed = [s \in Series |-> Never]
  BY DEF TaggerInit
<1>2. Never < now - Window
  BY <1>1 DEF Never
<1>3. IsFiniteSet(DOMAIN seen) /\ Cardinality(DOMAIN seen) = 0
  BY <1>1, FS_EmptySet
<1>4. TaggerTypeOK
  BY <1>1 DEF TaggerTypeOK
<1>5. TableTrue
  BY <1>1, <1>2, <1>3 DEF TableTrue
<1> QED
  BY <1>1, <1>4, <1>5 DEF TaggerInv

\* A table of the host: some of its series, each seen at a time that is past.
Table(t) ==
  /\ IsFiniteSet(DOMAIN t) /\ DOMAIN t \subseteq Series /\ Cardinality(DOMAIN t) <= Budget
  /\ \A s \in DOMAIN t : t[s] \in 0 .. now

\* Every series that is in the table before and is not stale stays, those added are seen
\* now, and a series that is not taken in was in no table.
LEMMA AdmitKeeps ==
  ASSUME TaggerTypeOK, NEW t, Table(t), NEW s \in Series
  PROVE  LET u == Admit(t, s)
         IN  /\ Table(u)
             /\ \A x \in DOMAIN u : IF x = s THEN u[x] = now ELSE x \in DOMAIN t /\ u[x] = t[x]
             /\ \A x \in DOMAIN t \ DOMAIN u : t[x] < now - Window
             /\ s \in DOMAIN t => s \in DOMAIN u
<1> USE TaggerAssumption
<1> DEFINE u == Admit(t, s)
<1>1. now \in Nat /\ Cardinality(DOMAIN t) \in Nat
  BY FS_CardinalityType DEF TaggerTypeOK, Table
<1>2. ASSUME NEW v, Table(v), s \in DOMAIN v \/ Cardinality(DOMAIN v) < Budget
      PROVE  Table(With(v, s)) /\ DOMAIN With(v, s) = DOMAIN v \cup {s}
             /\ \A x \in DOMAIN v \cup {s} : With(v, s)[x] = IF x = s THEN now ELSE v[x]
  <2>1. DOMAIN With(v, s) = DOMAIN v \cup {s} /\ \A x \in DOMAIN v \cup {s} : With(v, s)[x] = IF x = s THEN now ELSE v[x]
    BY DEF With
  <2>2. IsFiniteSet(DOMAIN v) /\ Cardinality(DOMAIN v) \in Nat
    BY <1>2, FS_CardinalityType DEF Table
  <2>3. IsFiniteSet(DOMAIN v \cup {s})
        /\ Cardinality(DOMAIN v \cup {s}) = IF s \in DOMAIN v THEN Cardinality(DOMAIN v) ELSE Cardinality(DOMAIN v) + 1
    BY <2>2, FS_AddElement
  <2>4. Cardinality(DOMAIN v \cup {s}) <= Budget
    BY <1>2, <2>2, <2>3 DEF Table
  <2>5. \A x \in DOMAIN v \cup {s} : With(v, s)[x] \in 0 .. now
    BY <1>1, <1>2, <2>1 DEF Table
  <2> QED
    BY <1>2, <2>1, <2>3, <2>4, <2>5 DEF Table
<1>3. CASE s \in DOMAIN t
  <2>1. u = With(t, s)
    BY <1>3 DEF Admit
  <2>2. Table(u) /\ DOMAIN u = DOMAIN t \cup {s} /\ \A x \in DOMAIN t \cup {s} : u[x] = IF x = s THEN now ELSE t[x]
    BY <1>2, <1>3, <2>1
  <2> QED
    BY <1>3, <2>2
<1>4. CASE s \notin DOMAIN t
  <2> DEFINE room == Room(t)
  <2>1. /\ DOMAIN room \subseteq DOMAIN t /\ (\A x \in DOMAIN room : room[x] = t[x])
        /\ \A x \in DOMAIN t \ DOMAIN room : t[x] < now - Window
    BY DEF Room, Collected, Stale
  <2>2. Table(room)
    <3>1. IsFiniteSet(DOMAIN room) /\ Cardinality(DOMAIN room) <= Cardinality(DOMAIN t) /\ Cardinality(DOMAIN room) \in Nat
      BY <2>1, FS_Subset, FS_CardinalityType DEF Table
    <3>2. Cardinality(DOMAIN room) <= Budget
      BY <1>1, <3>1 DEF Table
    <3> QED
      BY <2>1, <3>1, <3>2 DEF Table
  <2>3. u = IF Cardinality(DOMAIN room) >= Budget THEN room ELSE With(room, s)
    BY <1>4 DEF Admit
  <2> HIDE DEF room, u
  <2>4. CASE Cardinality(DOMAIN room) >= Budget
    BY <1>4, <2>1, <2>2, <2>3, <2>4 DEF u
  <2>5. CASE ~(Cardinality(DOMAIN room) >= Budget)
    <3>1. Cardinality(DOMAIN room) < Budget
      BY <2>2, <2>5, FS_CardinalityType DEF Table
    <3>2. Table(u) /\ DOMAIN u = DOMAIN room \cup {s} /\ \A x \in DOMAIN room \cup {s} : u[x] = IF x = s THEN now ELSE room[x]
      BY <1>2, <2>2, <2>3, <2>5, <3>1
    <3>3. \A x \in DOMAIN u : IF x = s THEN u[x] = now ELSE x \in DOMAIN t /\ u[x] = t[x]
      BY <2>1, <3>2
    <3>4. \A x \in DOMAIN t \ DOMAIN u : t[x] < now - Window
      BY <2>1, <3>2
    <3> QED
      BY <1>4, <3>2, <3>3, <3>4 DEF u
  <2> QED
    BY <2>4, <2>5
<1> QED
  BY <1>3, <1>4

\* A batch: what passes is in the table at the end, what is refused passed long ago.
LEMMA FilterKeeps == ASSUME TaggerInv, NEW s \in Series, NEW t \in Series, Filter(s, t) PROVE TaggerInv'
<1> USE TaggerAssumption
<1> DEFINE first == Admit(seen, s)
           both == Admit(first, t)
           in == {u \in {s} : u \in DOMAIN first} \cup {u \in {t} : u \in DOMAIN both}
<1>1. /\ seen' = both /\ kept' = in /\ refused' = {s, t} \ in /\ now' = now
      /\ passed' = [u \in Series |-> IF u \in in THEN now ELSE passed[u]]
  BY DEF Filter
<1>2. TaggerTypeOK /\ Table(seen) /\ now \in Nat
  BY DEF TaggerInv, TaggerTypeOK, TableTrue, Table
<1>3. /\ Table(first)
      /\ \A x \in DOMAIN first : IF x = s THEN first[x] = now ELSE x \in DOMAIN seen /\ first[x] = seen[x]
      /\ \A x \in DOMAIN seen \ DOMAIN first : seen[x] < now - Window
      /\ s \in DOMAIN seen => s \in DOMAIN first
  BY <1>2, AdmitKeeps
<1> HIDE DEF first
<1>4. /\ Table(both)
      /\ \A x \in DOMAIN both : IF x = t THEN both[x] = now ELSE x \in DOMAIN first /\ both[x] = first[x]
      /\ \A x \in DOMAIN first \ DOMAIN both : first[x] < now - Window
      /\ t \in DOMAIN first => t \in DOMAIN both
  BY <1>2, <1>3, AdmitKeeps
<1> HIDE DEF both
<1>5. in \subseteq {s, t} /\ (s \in DOMAIN first => s \in in) /\ (t \in DOMAIN both => t \in in)
      /\ \A x \in in : (x = s /\ s \in DOMAIN first) \/ (x = t /\ t \in DOMAIN both)
  OBVIOUS
<1> HIDE DEF in
<1>6. passed' \in [Series -> {Never} \cup 0 .. now] /\ \A x \in Series : passed'[x] = IF x \in in THEN now ELSE passed[x]
  BY <1>1, <1>2 DEF TaggerTypeOK
<1>7. TaggerTypeOK'
  BY <1>1, <1>2, <1>4, <1>5, <1>6 DEF TaggerTypeOK, Table
<1>8. \A x \in Series : IF x \in DOMAIN seen THEN passed[x] = seen[x] ELSE passed[x] < now - Window
  BY DEF TaggerInv, TableTrue
<1>9. \A x \in Series \ DOMAIN first : passed[x] < now - Window
  BY <1>3, <1>8
<1>10. \A x \in DOMAIN both : passed'[x] = both[x]
  <2> TAKE x \in DOMAIN both
  <2>1. x \in Series
    BY <1>4 DEF Table
  <2>2. CASE x = t
    BY <1>4, <1>5, <1>6, <2>1, <2>2
  <2>3. CASE x # t /\ x = s
    BY <1>3, <1>4, <1>5, <1>6, <2>1, <2>3
  <2>4. CASE x # t /\ x # s
    <3>1. x \notin in /\ both[x] = seen[x] /\ x \in DOMAIN seen
      BY <1>3, <1>4, <1>5, <2>4
    <3> QED
      BY <1>6, <1>8, <2>1, <3>1
  <2> QED
    BY <2>2, <2>3, <2>4
<1>11. \A x \in Series \ DOMAIN both : x \notin in /\ passed[x] < now - Window
  <2> TAKE x \in Series \ DOMAIN both
  <2>1. CASE x \in DOMAIN first
    <3>1. first[x] < now - Window /\ x # t
      BY <1>4, <2>1
    <3>2. ~(now < now - Window)
      BY <1>2
    <3>3. x # s /\ x \in DOMAIN seen /\ first[x] = seen[x]
      BY <1>3, <2>1, <3>1, <3>2
    <3> QED
      BY <1>5, <1>8, <3>1, <3>3
  <2>2. CASE x \notin DOMAIN first
    BY <1>5, <1>9, <2>2
  <2> QED
    BY <2>1, <2>2
<1>12. TableTrue'
  <2>1. \A x \in Series \ DOMAIN both : passed'[x] < now - Window
    BY <1>6, <1>11
  <2> QED
    BY <1>1, <1>4, <1>10, <2>1 DEF TableTrue, Table
<1>13. \A x \in refused' : passed'[x] < now' - Window
  <2>1. \A x \in {s, t} \ in : x \in Series \ DOMAIN first
    BY <1>4, <1>5
  <2> QED
    BY <1>1, <1>6, <1>9, <2>1
<1> QED
  BY <1>7, <1>12, <1>13 DEF TaggerInv

LEMMA TaggerNextInv == TaggerInv /\ [TaggerNext]_taggerVars => TaggerInv'
<1> SUFFICES ASSUME TaggerInv, [TaggerNext]_taggerVars PROVE TaggerInv'
  OBVIOUS
<1> USE TaggerAssumption
<1>1. CASE Tick
  <2>1. now' = now + 1 /\ now \in Nat /\ now' \in 0 .. MaxNow /\ UNCHANGED <<seen, passed, kept, refused>>
    BY <1>1 DEF Tick, TaggerInv, TaggerTypeOK
  <2>2. passed \in [Series -> {Never} \cup 0 .. now] /\ Never \in Int
    BY DEF TaggerInv, TaggerTypeOK, Never
  <2>3. \A x \in Series : passed[x] \in Int /\ (passed[x] < now - Window => passed[x] < now' - Window)
    BY <2>1, <2>2
  <2>4. TaggerTypeOK'
    BY <2>1, <2>2 DEF TaggerInv, TaggerTypeOK
  <2>5. TableTrue'
    BY <2>1, <2>3 DEF TaggerInv, TableTrue
  <2>6. refused \subseteq Series
    BY DEF TaggerInv, TaggerTypeOK
  <2>7. \A x \in refused' : passed'[x] < now' - Window
    BY <2>1, <2>3, <2>6 DEF TaggerInv
  <2> QED
    BY <2>4, <2>5, <2>7 DEF TaggerInv
<1>2. CASE UNCHANGED taggerVars
  BY <1>2 DEF taggerVars, TaggerInv, TaggerTypeOK, TableTrue
<1> QED
  BY <1>1, <1>2, FilterKeeps DEF TaggerNext

\* tagger.go Filter: within any window no more than the budget of series of a host pass,
\* and none that passed within it is refused, for any series, budget and window.
THEOREM BudgetOfSeries == TaggerSpec => []WithinBudget
<1>1. ASSUME TaggerInv PROVE WithinBudget
  <2> DEFINE recent == {s \in Series : passed[s] >= now - Window}
  <2>1. passed \in [Series -> Int] /\ now \in Int
    BY <1>1, TaggerAssumption DEF TaggerInv, TaggerTypeOK, Never
  <2>2. recent \subseteq DOMAIN seen
    <3>1. \A s \in Series \ DOMAIN seen : passed[s] < now - Window
      BY <1>1 DEF TaggerInv, TableTrue
    <3> QED
      BY <2>1, <3>1, TaggerAssumption
  <2>3. IsFiniteSet(DOMAIN seen) /\ Cardinality(DOMAIN seen) <= Budget
    BY <1>1 DEF TaggerInv, TableTrue
  <2> HIDE DEF recent
  <2>4. IsFiniteSet(recent) /\ Cardinality(recent) <= Cardinality(DOMAIN seen)
    BY <2>2, <2>3, FS_Subset
  <2>5. Cardinality(recent) <= Budget
    BY <2>3, <2>4, FS_CardinalityType, TaggerAssumption
  <2> QED
    BY <1>1, <2>5 DEF recent, TaggerInv, WithinBudget
<1> QED
  BY <1>1, TaggerInitInv, TaggerNextInv, PTL DEF TaggerSpec

-----------------------------------------------------------------------------
(* Journald *)

\* A line that leaves the pipe, or a pipe that is thrown away, leaves the rest in order.
LEMMA PipeShrinks ==
  ASSUME NEW a \in Seq(Lines), NEW p \in Seq(Lines), NEW n \in Nat, Ordered(a, p, n)
  PROVE  /\ Ordered(a, <<>>, n)
         /\ p # <<>> => Ordered(a, Tail(p), n) /\ Ordered(Append(a, Head(p)), Tail(p), n)
<1>1. Ordered(a, <<>>, n)
  BY DEF Ordered, InOrder
<1>2. ASSUME p # <<>> PROVE Ordered(a, Tail(p), n) /\ Ordered(Append(a, Head(p)), Tail(p), n)
  <2>1. /\ Head(p) \in Lines /\ Tail(p) \in Seq(Lines) /\ Len(Tail(p)) = Len(p) - 1
        /\ \A i \in 1 .. Len(Tail(p)) : Tail(p)[i] = p[i + 1]
    BY <1>2, HeadTailProperties
  <2>2. Len(p) \in Nat \ {0} /\ Head(p) = p[1]
    BY <1>2
  <2>3. Ordered(a, Tail(p), n)
    BY <2>1, <2>2 DEF Ordered, InOrder
  <2>4. /\ Len(Append(a, Head(p))) = Len(a) + 1 /\ Len(a) \in Nat
        /\ \A i \in 1 .. Len(a) : Append(a, Head(p))[i] = a[i]
        /\ Append(a, Head(p))[Len(a) + 1] = Head(p)
    BY <2>1, AppendProperties
  <2>5. \A j \in 1 .. Len(Tail(p)) : p[1].n < Tail(p)[j].n
    BY <2>1, <2>2 DEF Ordered, InOrder
  <2>6. p[1].n <= n /\ \A i \in 1 .. Len(a) : a[i].n < p[1].n
    BY <2>2 DEF Ordered
  <2>7. Ordered(Append(a, Head(p)), Tail(p), n)
    BY <2>2, <2>3, <2>4, <2>5, <2>6 DEF Ordered, InOrder
  <2> QED
    BY <2>3, <2>7
<1> QED
  BY <1>1, <1>2

\* A line that is written comes last.
LEMMA PipeGrows ==
  ASSUME NEW a \in Seq(Lines), NEW p \in Seq(Lines), NEW n \in Nat, Ordered(a, p, n), NEW l \in Lines, l.n = n + 1
  PROVE  Ordered(a, p, n + 1) /\ Ordered(a, Append(p, l), n + 1)
<1>0. \A x \in Lines : x.n \in Nat
  BY DEF Lines
<1>1. \A i \in 1 .. Len(a) : a[i].n \in Nat
  BY <1>0
<1>2. \A i \in 1 .. Len(p) : p[i].n \in Nat
  BY <1>0
<1>3. Ordered(a, p, n + 1)
  BY <1>1, <1>2 DEF Ordered
<1>4. /\ Len(Append(p, l)) = Len(p) + 1 /\ Len(p) \in Nat
      /\ \A i \in 1 .. Len(p) : Append(p, l)[i] = p[i]
      /\ Append(p, l)[Len(p) + 1] = l
  BY AppendProperties
<1> DEFINE q == Append(p, l)
<1> HIDE DEF q
<1>5. \A j \in 1 .. Len(q) : (j <= Len(p) /\ j \in 1 .. Len(p) /\ q[j] = p[j]) \/ (j = Len(p) + 1 /\ q[j].n = n + 1)
  BY <1>4 DEF q
<1>6. InOrder(q)
  <2>1. \A i, j \in 1 .. Len(p) : i < j => p[i].n < p[j].n
    BY DEF Ordered, InOrder
  <2>2. \A j \in 1 .. Len(p) : p[j].n < n + 1
    BY <1>2 DEF Ordered
  <2>3. ASSUME NEW i \in 1 .. Len(q), NEW j \in 1 .. Len(q), i < j PROVE q[i].n < q[j].n
    <3>1. i <= Len(p) /\ i \in 1 .. Len(p) /\ q[i] = p[i]
      BY <1>4, <1>5, <2>3 DEF q
    <3>2. CASE j = Len(p) + 1 /\ q[j].n = n + 1
      BY <2>2, <3>1, <3>2
    <3>3. CASE j \in 1 .. Len(p) /\ q[j] = p[j]
      BY <2>1, <2>3, <3>1, <3>3
    <3> QED
      BY <1>5, <3>2, <3>3
  <2> QED
    BY <2>3 DEF InOrder
<1>7. \A i \in 1 .. Len(a) : a[i].n <= n + 1 /\ \A j \in 1 .. Len(q) : a[i].n < q[j].n
  BY <1>1, <1>5 DEF Ordered
<1>8. \A j \in 1 .. Len(q) : q[j].n <= n + 1
  BY <1>2, <1>5 DEF Ordered
<1>9. Ordered(a, q, n + 1)
  BY <1>3, <1>6, <1>7, <1>8 DEF Ordered
<1> QED
  BY <1>3, <1>9 DEF q

\* The consumer moves a record from the channel, and the sequence of both stays the same.
LEMMA ConsumptionKeeps ==
  ASSUME NEW a \in Seq(Lines), NEW b \in Seq(Lines), b # <<>>
  PROVE  Append(a, Head(b)) \o Tail(b) = a \o b
<1>1. Head(b) \in Lines /\ Tail(b) \in Seq(Lines) /\ Len(Tail(b)) = Len(b) - 1 /\ Head(b) = b[1]
  BY HeadTailProperties
<1>2. /\ Append(a, Head(b)) \in Seq(Lines) /\ Len(Append(a, Head(b))) = Len(a) + 1
      /\ \A i \in 1 .. Len(a) : Append(a, Head(b))[i] = a[i]
      /\ Append(a, Head(b))[Len(a) + 1] = Head(b)
  BY <1>1, AppendProperties
<1>3. \A i \in 1 .. Len(Tail(b)) : Tail(b)[i] = b[i + 1]
  BY HeadTailProperties
<1> DEFINE x == Append(a, Head(b)) \o Tail(b)
           y == a \o b
<1>4. /\ x \in Seq(Lines) /\ Len(x) = Len(a) + Len(b)
      /\ \A i \in 1 .. Len(a) + Len(b) : x[i] = IF i <= Len(a) + 1 THEN Append(a, Head(b))[i] ELSE Tail(b)[i - (Len(a) + 1)]
  BY <1>1, <1>2, ConcatProperties
<1>5. /\ y \in Seq(Lines) /\ Len(y) = Len(a) + Len(b)
      /\ \A i \in 1 .. Len(a) + Len(b) : y[i] = IF i <= Len(a) THEN a[i] ELSE b[i - Len(a)]
  BY ConcatProperties
<1> HIDE DEF x, y
<1>6. Len(a) \in Nat /\ Len(b) \in Nat
  OBVIOUS
<1>7. \A i \in 1 .. Len(x) : x[i] = y[i]
  <2> TAKE i \in 1 .. Len(x)
  <2>1. CASE i <= Len(a)
    BY <1>2, <1>4, <1>5, <1>6, <2>1
  <2>2. CASE i = Len(a) + 1
    BY <1>1, <1>2, <1>4, <1>5, <1>6, <2>2
  <2>3. CASE i > Len(a) + 1
    <3>1. i - (Len(a) + 1) \in 1 .. Len(Tail(b)) /\ i - (Len(a) + 1) + 1 = i - Len(a)
      BY <1>1, <1>4, <1>6, <2>3
    <3>2. Tail(b)[i - (Len(a) + 1)] = b[i - Len(a)]
      BY <1>3, <3>1
    <3> QED
      BY <1>4, <1>5, <1>6, <2>3, <3>2
  <2> QED
    BY <1>4, <1>6, <2>1, <2>2, <2>3
<1>8. x = y
  BY <1>4, <1>5, <1>7, SeqEqual
<1> QED
  BY <1>8 DEF x, y

\* A record on the channel comes after all that was consumed or waits.
LEMMA ChannelGrows ==
  ASSUME NEW a \in Seq(Lines), NEW b \in Seq(Lines), NEW l \in Lines
  PROVE  a \o Append(b, l) = Append(a \o b, l)
<1>1. <<l>> \in Seq(Lines) /\ Append(b, l) = b \o <<l>> /\ a \o b \in Seq(Lines)
  BY AppendIsConcat, ConcatProperties
<1>2. Append(a \o b, l) = (a \o b) \o <<l>>
  BY <1>1, AppendIsConcat
<1> QED
  BY <1>1, <1>2, ConcatAssociative

LEMMA JInitInv == JInit => JInv
<1> SUFFICES ASSUME JInit PROVE JInv
  OBVIOUS
<1>1. DropMarks = {}
  BY DEF JInit, DropMarks, DropsOf
<1>2. LinesAccounted
  BY <1>1, FS_EmptySet DEF JInit, LinesAccounted
<1>3. JShapes
  <2>1. NoBucket \in [count : Nat, end : Nat, some : BOOLEAN]
    BY DEF NoBucket
  <2> QED
    BY <2>1 DEF JInit, JShapes, StatsKept
<1>4. OrderKept
  BY DEF JInit, OrderKept, Ordered, InOrder
<1>5. WindowsTrue
  BY DEF JInit, WindowsTrue, NoBucket
<1> QED
  BY <1>2, <1>3, <1>4, <1>5 DEF JInv

\* bumpDroppedUnit and the counters of a line that was put on the channel.
LEMMA StatsOf ==
  ASSUME stats \in StatsKept, NEW u \in Units
  PROVE  /\ BumpDroppedUnit(u) \in StatsKept
         /\ BumpDroppedUnit(u).dropped = stats.dropped + 1 /\ BumpDroppedUnit(u).seen = stats.seen + 1
         /\ BumpDroppedUnit(u).units = [stats.units EXCEPT ![u] = @ + 1]
         /\ [stats EXCEPT !.lines = @ + 1, !.seen = @ + 1] \in StatsKept
<1> DEFINE s1 == [stats EXCEPT !.dropped = @ + 1]
           s2 == [s1 EXCEPT !.units[u] = @ + 1]
           s3 == [s2 EXCEPT !.seen = @ + 1]
           t1 == [stats EXCEPT !.lines = @ + 1]
           t2 == [t1 EXCEPT !.seen = @ + 1]
<1>1. s1 \in StatsKept /\ s1.dropped = stats.dropped + 1 /\ s1.units = stats.units /\ s1.seen = stats.seen
  BY DEF StatsKept
<1>2. t1 \in StatsKept
  BY DEF StatsKept
<1>3. BumpDroppedUnit(u) = s3 /\ [stats EXCEPT !.lines = @ + 1, !.seen = @ + 1] = t2
  BY DEF BumpDroppedUnit
<1> HIDE DEF s1, t1
<1>4. s2 \in StatsKept /\ s2.dropped = s1.dropped /\ s2.units = [s1.units EXCEPT ![u] = @ + 1] /\ s2.seen = s1.seen
  BY <1>1 DEF StatsKept
<1> HIDE DEF s2
<1>5. s3 \in StatsKept /\ s3.dropped = s2.dropped /\ s3.units = s2.units /\ s3.seen = s2.seen + 1
  BY <1>4 DEF StatsKept
<1>6. t2 \in StatsKept
  BY <1>2 DEF StatsKept
<1> QED
  BY <1>1, <1>3, <1>4, <1>5, <1>6

\* One more drop of a unit is one more mark.
LEMMA DropMarked ==
  ASSUME JInv, NEW u \in Units, stats'.units = [stats.units EXCEPT ![u] = @ + 1]
  PROVE  IsFiniteSet(DropMarks') /\ Cardinality(DropMarks') = Cardinality(DropMarks) + 1
<1> DEFINE mark == <<u, stats.units[u] + 1>>
<1>1. stats.units \in [Units -> Nat]
  BY DEF JInv, JShapes, StatsKept
<1>2. \A v \in Units : DropsOf(v)' = IF v = u THEN DropsOf(v) \cup {mark} ELSE DropsOf(v)
  <2> TAKE v \in Units
  <2>1. CASE v = u
    <3>1. stats.units[u] \in Nat /\ stats'.units[u] = stats.units[u] + 1
      BY <1>1
    <3>2. 1 .. stats'.units[u] = (1 .. stats.units[u]) \cup {stats.units[u] + 1}
      BY <3>1
    <3> QED
      BY <2>1, <3>2 DEF DropsOf
  <2>2. CASE v # u
    BY <1>1, <2>2 DEF DropsOf
  <2> QED
    BY <2>1, <2>2
<1>3. DropMarks' = DropMarks \cup {mark}
  BY <1>2 DEF DropMarks
<1>4. mark \notin DropMarks
  BY <1>1 DEF DropMarks, DropsOf
<1>5. IsFiniteSet(DropMarks)
  BY DEF JInv, LinesAccounted
<1> HIDE DEF mark
<1> QED
  BY <1>3, <1>4, <1>5, FS_AddElement

\* allow: a line that passes opens the next window of its unit, or is within the limit
\* of the open one.
LEMMA WindowCounts ==
  ASSUME JInv, NEW u \in Units, Allow(u), buckets' = [buckets EXCEPT ![u] = Bumped(u)],
         LET w == <<u, Bumped(u).end>> IN
         perWindow' = [x \in DOMAIN perWindow \cup {w} |->
                         (IF x \in DOMAIN perWindow THEN perWindow[x] ELSE 0) + (IF x = w THEN 1 ELSE 0)]
  PROVE  WindowsTrue' /\ buckets' \in [Units -> [count : Nat, end : Nat, some : BOOLEAN]]
<1> DEFINE w == <<u, Bumped(u).end>>
<1>1. buckets \in [Units -> [count : Nat, end : Nat, some : BOOLEAN]] /\ jtime \in Nat
  BY DEF JInv, JShapes
<1>2. LineLimit \in Nat \ {0}
  BY JournalAssumption
<1>3. Bumped(u) \in [count : Nat, end : Nat, some : BOOLEAN] /\ Bumped(u).some
  BY <1>1 DEF Bumped, FreshWindow
<1>4. /\ buckets' \in [Units -> [count : Nat, end : Nat, some : BOOLEAN]]
      /\ buckets'[u] = Bumped(u) /\ \A v \in Units \ {u} : buckets'[v] = buckets[v]
  BY <1>1, <1>3
<1>5. WindowsTrue
  BY DEF JInv
<1>6. w \in Units \X Nat /\ w[1] = u /\ w[2] = Bumped(u).end
  BY <1>3
<1>7. /\ DOMAIN perWindow' = DOMAIN perWindow \cup {w}
      /\ \A x \in DOMAIN perWindow \ {w} : perWindow'[x] = perWindow[x]
      /\ perWindow'[w] = (IF w \in DOMAIN perWindow THEN perWindow[w] ELSE 0) + 1
  <2>1. \A x \in DOMAIN perWindow : perWindow[x] \in Nat
    BY <1>2, <1>5 DEF WindowsTrue
  <2> QED
    BY <2>1
<1>8. /\ perWindow'[w] = Bumped(u).count /\ perWindow'[w] \in 0 .. LineLimit
      /\ buckets[u].some => buckets[u].end <= Bumped(u).end
      /\ \A x \in DOMAIN perWindow \ {w} : x[1] = u => x[2] < Bumped(u).end
  <2>1. CASE FreshWindow(u)
    <3>1. Bumped(u) = [count |-> 1, end |-> jtime + 1, some |-> TRUE]
      BY <2>1 DEF Bumped
    <3>2. Bumped(u).end = jtime + 1 /\ Bumped(u).count = 1
      BY <3>1
    <3>3. buckets[u].some => buckets[u].end < jtime + 1
      BY <1>1, <2>1 DEF FreshWindow
    <3>4. \A x \in DOMAIN perWindow : x[1] = u => x[2] < Bumped(u).end
      BY <1>1, <1>5, <3>2, <3>3 DEF WindowsTrue
    <3>5. w \notin DOMAIN perWindow
      BY <1>6, <3>2, <3>4, <1>1
    <3> QED
      BY <1>1, <1>2, <1>7, <3>2, <3>3, <3>4, <3>5
  <2>2. CASE ~FreshWindow(u)
    <3>1. Bumped(u) = [buckets[u] EXCEPT !.count = @ + 1]
      BY <2>2 DEF Bumped
    <3>2. Bumped(u).end = buckets[u].end /\ Bumped(u).count = buckets[u].count + 1
      BY <1>1, <3>1
    <3>3. buckets[u].some /\ buckets[u].count < LineLimit
      BY <2>2 DEF FreshWindow, Allow
    <3>4. w \in DOMAIN perWindow /\ perWindow[w] = buckets[u].count
      BY <1>5, <1>6, <3>2, <3>3 DEF WindowsTrue
    <3>5. \A x \in DOMAIN perWindow \ {w} : x[1] = u => x[2] < Bumped(u).end
      <4> TAKE x \in DOMAIN perWindow \ {w}
      <4> HAVE x[1] = u
      <4>1. x \in Units \X Nat /\ x[2] <= buckets[u].end
        BY <1>5 DEF WindowsTrue
      <4>2. x = <<x[1], x[2]>>
        BY <4>1
      <4>3. x[2] # Bumped(u).end
        BY <4>2
      <4> QED
        BY <1>1, <3>2, <4>1, <4>3
    <3> QED
      BY <1>1, <1>2, <1>7, <3>2, <3>3, <3>4, <3>5
  <2> QED
    BY <2>1, <2>2
<1> HIDE DEF w
<1>9. ASSUME NEW x \in DOMAIN perWindow'
      PROVE  /\ x \in Units \X Nat /\ perWindow'[x] \in 0 .. LineLimit
             /\ buckets'[x[1]].some /\ x[2] <= buckets'[x[1]].end
             /\ x[2] = buckets'[x[1]].end => perWindow'[x] = buckets'[x[1]].count
  <2>1. CASE x = w
    BY <1>3, <1>4, <1>6, <1>8, <2>1
  <2>2. CASE x # w
    <3>1. x \in DOMAIN perWindow \ {w} /\ perWindow'[x] = perWindow[x]
      BY <1>7, <2>2
    <3>2. /\ x \in Units \X Nat /\ perWindow[x] \in 0 .. LineLimit /\ buckets[x[1]].some
          /\ x[2] <= buckets[x[1]].end /\ (x[2] = buckets[x[1]].end => perWindow[x] = buckets[x[1]].count)
      BY <1>5, <3>1 DEF WindowsTrue
    <3>3. CASE x[1] = u
      <4>1. x[2] < Bumped(u).end /\ x[2] \in Nat /\ Bumped(u).end \in Nat
        BY <1>3, <1>8, <3>1, <3>2, <3>3
      <4> QED
        BY <1>3, <1>4, <3>1, <3>2, <3>3, <4>1
    <3>4. CASE x[1] # u
      BY <1>4, <3>1, <3>2, <3>4
    <3> QED
      BY <3>3, <3>4
  <2> QED
    BY <2>1, <2>2
<1>10. ASSUME NEW v \in Units, buckets'[v].some PROVE <<v, buckets'[v].end>> \in DOMAIN perWindow'
  BY <1>4, <1>5, <1>7, <1>10 DEF WindowsTrue, w
<1>11. WindowsTrue'
  BY <1>9, <1>10 DEF WindowsTrue
<1> QED
  BY <1>4, <1>11

\* What leaves the channel, the windows and the counters alone keeps them true.
LEMMA ReaderKeeps ==
  ASSUME JInv, UNCHANGED <<buckets, stats, jout, consumed, perWindow>>, jtime' \in Nat, jlines' \in Nat,
         jpipe' \in Seq(Lines), Ordered(consumed \o jout, jpipe', jlines')
  PROVE  JInv'
<1>1. JShapes' /\ WindowsTrue' /\ OrderKept'
  BY DEF JInv, JShapes, WindowsTrue, OrderKept
<1>2. DropMarks' = DropMarks
  BY DEF DropMarks, DropsOf
<1> QED
  BY <1>1, <1>2 DEF JInv, LinesAccounted

LEMMA JNextInv == JInv /\ [JNext]_jVars => JInv'
<1> SUFFICES ASSUME JInv, [JNext]_jVars PROVE JInv'
  OBVIOUS
<1> USE JournalAssumption
<1>1. /\ jtime \in Nat /\ jlines \in Nat /\ jpipe \in Seq(Lines) /\ jout \in Seq(Lines) /\ consumed \in Seq(Lines)
      /\ Ordered(consumed \o jout, jpipe, jlines)
  BY DEF JInv, JShapes, OrderKept
<1>2. consumed \o jout \in Seq(Lines)
  BY <1>1, ConcatProperties
<1>3. /\ Ordered(consumed \o jout, <<>>, jlines)
      /\ jpipe # <<>> => /\ Ordered(consumed \o jout, Tail(jpipe), jlines)
                         /\ Ordered(Append(consumed \o jout, Head(jpipe)), Tail(jpipe), jlines)
                         /\ Tail(jpipe) \in Seq(Lines) /\ Head(jpipe) \in Lines
  BY <1>1, <1>2, PipeShrinks, HeadTailProperties
<1>4. stats \in StatsKept
  BY DEF JInv, JShapes
<1>5. /\ Len(consumed) + Len(jout) + stats.dropped = stats.seen
      /\ IsFiniteSet(DropMarks) /\ stats.dropped = Cardinality(DropMarks)
  BY DEF JInv, LinesAccounted
<1>6. ASSUME NEW u \in Units, NEW form \in {"line", "bad", "long"}, Write(u, form) PROVE JInv'
  <2> DEFINE l == [unit |-> u, form |-> form, n |-> jlines + 1]
  <2>1. l \in Lines /\ l.n = jlines + 1 /\ jlines' = jlines + 1 /\ (jpipe' = jpipe \/ jpipe' = Append(jpipe, l))
    BY <1>1, <1>6 DEF Write, Lines
  <2>2. jpipe' \in Seq(Lines) /\ Ordered(consumed \o jout, jpipe', jlines')
    <3> HIDE DEF l
    <3>1. Ordered(consumed \o jout, jpipe, jlines + 1) /\ Ordered(consumed \o jout, Append(jpipe, l), jlines + 1)
      BY <1>1, <1>2, <2>1, PipeGrows
    <3>2. Append(jpipe, l) \in Seq(Lines)
      BY <1>1, <2>1, AppendProperties
    <3> QED
      BY <1>1, <2>1, <3>1, <3>2
  <2> QED
    BY <1>1, <1>6, <2>1, <2>2, ReaderKeeps DEF Write
<1>7. CASE JTick \/ UNCHANGED jVars
  <2>1. /\ jtime' \in Nat /\ jlines' = jlines /\ jpipe' = jpipe
        /\ UNCHANGED <<buckets, stats, jout, consumed, perWindow>>
    BY <1>1, <1>7 DEF JTick, jVars
  <2> QED
    BY <1>1, <2>1, ReaderKeeps
<1>8. CASE ConsumeRecord
  <2>1. /\ jout # <<>> /\ consumed' = Append(consumed, Head(jout)) /\ jout' = Tail(jout)
        /\ UNCHANGED <<jtime, jlines, jpipe, reader, pause, buckets, stats, perWindow>>
    BY <1>8 DEF ConsumeRecord
  <2>2. /\ Head(jout) \in Lines /\ jout' \in Seq(Lines) /\ Len(jout') = Len(jout) - 1
        /\ consumed' \in Seq(Lines) /\ Len(consumed') = Len(consumed) + 1
    BY <1>1, <2>1, HeadTailProperties, AppendProperties
  <2>3. consumed' \o jout' = consumed \o jout
    BY <1>1, <2>1, ConsumptionKeeps
  <2>4. JShapes' /\ OrderKept' /\ WindowsTrue'
    BY <2>1, <2>2, <2>3 DEF JInv, JShapes, OrderKept, WindowsTrue
  <2>5. LinesAccounted'
    <3>1. DropMarks' = DropMarks
      BY <2>1 DEF DropMarks, DropsOf
    <3>2. Len(consumed) \in Nat /\ Len(jout) \in Nat
      BY <1>1
    <3>3. Len(consumed') + Len(jout') = Len(consumed) + Len(jout)
      BY <2>2, <3>2
    <3> QED
      BY <1>5, <2>1, <3>1, <3>3 DEF LinesAccounted
  <2> QED
    BY <2>4, <2>5 DEF JInv
<1>9. CASE Skips
  <2>1. /\ jpipe # <<>> /\ jpipe' = Tail(jpipe)
        /\ UNCHANGED <<jtime, jlines, buckets, stats, jout, consumed, perWindow>>
    BY <1>9 DEF Skips
  <2> QED
    BY <1>1, <1>3, <2>1, ReaderKeeps
<1>10. CASE Limited
  <2>1. PICK u \in Units : /\ jpipe # <<>> /\ jpipe' = Tail(jpipe) /\ stats' = BumpDroppedUnit(u)
                           /\ UNCHANGED <<jtime, jlines, reader, pause, buckets, jout, consumed, perWindow>>
    BY <1>10 DEF Limited, Due
  <2>2. /\ stats'.dropped = stats.dropped + 1 /\ stats'.seen = stats.seen + 1
        /\ stats'.units = [stats.units EXCEPT ![u] = @ + 1]
        /\ stats' \in StatsKept
    BY <1>4, <2>1, StatsOf
  <2>3. IsFiniteSet(DropMarks') /\ Cardinality(DropMarks') = Cardinality(DropMarks) + 1
    BY <2>2, DropMarked
  <2>4. JShapes' /\ OrderKept' /\ WindowsTrue'
    BY <1>3, <2>1, <2>2 DEF JInv, JShapes, OrderKept, WindowsTrue
  <2>5. LinesAccounted'
    <3>1. Len(consumed) \in Nat /\ Len(jout) \in Nat /\ stats.dropped \in Nat
      BY <1>1, <1>4 DEF StatsKept
    <3> QED
      BY <1>5, <2>1, <2>2, <2>3, <3>1 DEF LinesAccounted
  <2> QED
    BY <2>4, <2>5 DEF JInv
<1>11. CASE Scans
  <2>1. PICK u \in Units :
          /\ Due(u) /\ Allow(u) /\ jpipe' = Tail(jpipe) /\ buckets' = [buckets EXCEPT ![u] = Bumped(u)]
          /\ LET w == <<u, Bumped(u).end>> IN
             perWindow' = [x \in DOMAIN perWindow \cup {w} |->
                             (IF x \in DOMAIN perWindow THEN perWindow[x] ELSE 0) + (IF x = w THEN 1 ELSE 0)]
          /\ Counted(u, Head(jpipe))
          /\ UNCHANGED <<jtime, jlines, reader, pause, consumed>>
    BY <1>11 DEF Scans
  <2>2. WindowsTrue' /\ buckets' \in [Units -> [count : Nat, end : Nat, some : BOOLEAN]]
    BY <2>1, WindowCounts
  <2>3. jpipe # <<>>
    BY <2>1 DEF Due
  <2>4. Len(consumed) \in Nat /\ Len(jout) \in Nat /\ stats.dropped \in Nat
    BY <1>1, <1>4 DEF StatsKept
  <2>5. CASE Len(jout) < Buffer
    <3>1. jout' = Append(jout, Head(jpipe)) /\ stats' = [stats EXCEPT !.lines = @ + 1, !.seen = @ + 1]
      BY <2>1, <2>5 DEF Counted
    <3>2. /\ stats'.dropped = stats.dropped /\ stats'.seen = stats.seen + 1 /\ stats'.units = stats.units
          /\ stats' \in StatsKept
      <4>1. stats' \in StatsKept
        BY <1>4, <3>1, StatsOf
      <4> QED
        BY <1>4, <3>1, <4>1 DEF StatsKept
    <3>3. jout' \in Seq(Lines) /\ Len(jout') = Len(jout) + 1 /\ consumed' \o jout' = Append(consumed \o jout, Head(jpipe))
      BY <1>1, <1>3, <2>1, <2>3, <3>1, AppendProperties, ChannelGrows
    <3>4. JShapes' /\ OrderKept'
      BY <1>1, <1>3, <2>1, <2>2, <2>3, <3>2, <3>3 DEF JShapes, OrderKept
    <3>5. DropMarks' = DropMarks
      BY <3>2 DEF DropMarks, DropsOf
    <3>6. LinesAccounted'
      BY <1>5, <2>1, <2>4, <3>2, <3>3, <3>5 DEF LinesAccounted
    <3> QED
      BY <2>2, <3>4, <3>6 DEF JInv
  <2>6. CASE ~(Len(jout) < Buffer)
    <3>1. jout' = jout /\ stats' = [BumpDroppedUnit(u) EXCEPT !.lines = @ + 1]
      BY <2>1, <2>6 DEF Counted
    <3>2. /\ stats'.dropped = stats.dropped + 1 /\ stats'.seen = stats.seen + 1
          /\ stats'.units = [stats.units EXCEPT ![u] = @ + 1]
          /\ stats' \in StatsKept
      <4> DEFINE b == BumpDroppedUnit(u)
      <4>1. b \in StatsKept /\ b.dropped = stats.dropped + 1 /\ b.seen = stats.seen + 1
            /\ b.units = [stats.units EXCEPT ![u] = @ + 1]
        BY <1>4, StatsOf
      <4>2. stats' = [b EXCEPT !.lines = @ + 1]
        BY <3>1
      <4> HIDE DEF b
      <4> QED
        BY <4>1, <4>2 DEF StatsKept
    <3>3. IsFiniteSet(DropMarks') /\ Cardinality(DropMarks') = Cardinality(DropMarks) + 1
      BY <3>2, DropMarked
    <3>4. JShapes' /\ OrderKept'
      BY <1>1, <1>3, <2>1, <2>2, <2>3, <3>1, <3>2 DEF JShapes, OrderKept
    <3>5. LinesAccounted'
      BY <1>5, <2>1, <2>4, <3>1, <3>2, <3>3 DEF LinesAccounted
    <3> QED
      BY <2>2, <3>4, <3>5 DEF JInv
  <2> QED
    BY <2>5, <2>6
<1>12. CASE TooLong \/ ProcessExits \/ RunOnceReturns \/ Restart \/ Close
  <2>1. /\ jpipe' = jpipe \/ jpipe' = <<>>
        /\ UNCHANGED <<jtime, jlines, buckets, stats, jout, consumed, perWindow>>
    BY <1>12 DEF TooLong, ProcessExits, RunOnceReturns, Restart, Close, Pausing
  <2>2. jpipe' \in Seq(Lines) /\ Ordered(consumed \o jout, jpipe', jlines)
    <3>1. CASE jpipe' = jpipe
      BY <1>1, <3>1
    <3>2. CASE jpipe' = <<>>
      <4>1. <<>> \in Seq(Lines)
        OBVIOUS
      <4> QED
        BY <1>3, <3>2, <4>1
    <3> QED
      BY <2>1, <3>1, <3>2
  <2> QED
    BY <1>1, <2>1, <2>2, ReaderKeeps
<1> QED
  BY <1>6, <1>7, <1>8, <1>9, <1>10, <1>11, <1>12 DEF JNext

\* journald_linux.go: for any units, limits, room of the channel and restarts of
\* journalctl, every line of a unit that was met is delivered, queued or counted as
\* dropped for its unit, once and in order, and no window lets more than the limit through.
THEOREM JournalExact == JSpec => []JournalAccounted
<1>1. JInv => JournalAccounted
  <2> SUFFICES ASSUME JInv PROVE JournalAccounted
    OBVIOUS
  <2>1. \A w \in DOMAIN perWindow : perWindow[w] <= LineLimit
    BY JournalAssumption DEF JInv, WindowsTrue
  <2>2. InOrder(consumed \o jout)
    BY DEF JInv, OrderKept, Ordered
  <2> QED
    BY <2>1, <2>2 DEF JInv, LinesAccounted, DropMarks, InOrder, JournalAccounted
<1> QED
  BY <1>1, JInitInv, JNextInv, PTL DEF JSpec

-----------------------------------------------------------------------------
(* DatabasePool *)

LEMMA PlanShape ==
  ASSUME DbShapes, NEW c \in DbChecks
  PROVE  /\ Engine(c) \in Engines /\ plan[c].kind \in {"server", "catalog", "diagnostics", "custom"}
         /\ plan[c].database \in Databases /\ KeyOf(c) \in Keys
<1>1. plan \in [DbChecks -> [engine : Engines, kind : {"server", "catalog", "diagnostics", "custom"},
                             server : STRING, database : STRING]]
  BY DbPoolAssumption DEF DbShapes
<1>2. Engine(c) \in Engines /\ plan[c].kind \in {"server", "catalog", "diagnostics", "custom"}
  BY <1>1 DEF Engine
<1> QED
  BY <1>2 DEF Databases, Keys

\* The key tells the engine, the check where pools are not shared, and the database where
\* the DSN names it.
LEMMA KeyTells ==
  ASSUME DbShapes, NEW c \in DbChecks, NEW d \in DbChecks, KeyOf(c) = KeyOf(d)
  PROVE  /\ Engine(c) = Engine(d) /\ (Shares(c) \/ c = d)
         /\ Engine(c) # "mysql" => plan[c].database = plan[d].database
<1>1. ASSUME NEW x \in DbChecks PROVE KeyOf(x)[1] = Engine(x)
  <2>1. CASE Engine(x) = "mysql"
    BY <2>1 DEF KeyOf
  <2>2. CASE Engine(x) = "postgres"
    BY <2>2 DEF KeyOf
  <2>3. CASE Engine(x) \notin {"mysql", "postgres"}
    BY <2>3 DEF KeyOf
  <2> QED
    BY <2>1, <2>2, <2>3
<1>2. Engine(c) = Engine(d)
  BY <1>1
<1>3. CASE Engine(c) = "mysql"
  BY <1>2, <1>3 DEF Shares
<1>4. CASE Engine(c) = "postgres"
  <2>1. KeyOf(c)[3] = plan[c].database /\ KeyOf(d)[3] = plan[d].database
    BY <1>2, <1>4 DEF KeyOf
  <2> QED
    BY <1>2, <1>4, <2>1 DEF Shares
<1>5. CASE Engine(c) \notin {"mysql", "postgres"}
  <2>1. KeyOf(c)[2] = c /\ KeyOf(d)[2] = d
    BY <1>2, <1>5 DEF KeyOf
  <2> QED
    BY <1>2, <2>1
<1> QED
  BY <1>3, <1>4, <1>5

LEMMA ProgramShape ==
  ASSUME DbShapes, NEW c \in DbChecks
  PROVE  Program(c) \in Seq(Sections) /\ DOMAIN Program(c) = 1 .. Len(Program(c))
<1>0. /\ plan[c].kind \in {"server", "catalog", "diagnostics", "custom"}
  BY PlanShape
<1>1. \A x, y, z \in Sections : <<x>> \in Seq(Sections) /\ <<x, y>> \in Seq(Sections) /\ <<x, y, z>> \in Seq(Sections)
  OBVIOUS
<1>2. /\ {"query", "version", "tables", "columns", "sessions"} \subseteq Sections
      /\ {"waits", "blocking", "reads", "requests", "cache_hit_ratio"} \subseteq Sections
  BY DEF Sections
<1>3. CASE plan[c].kind = "catalog"
  <2>1. CASE Engine(c) = "postgres"
    <3>1. Program(c) = <<"query">>
      BY <1>3, <2>1 DEF Program
    <3> QED
      BY <1>1, <1>2, <3>1
  <2>2. CASE Engine(c) # "postgres"
    <3>1. Program(c) = <<"version", "tables", "columns">>
      BY <1>3, <2>2 DEF Program
    <3> QED
      BY <1>1, <1>2, <3>1
  <2> QED
    BY <2>1, <2>2
<1>4. CASE plan[c].kind = "custom"
  <2>1. Program(c) = <<"query">>
    BY <1>4 DEF Program
  <2> QED
    BY <1>1, <1>2, <2>1
<1>5. CASE plan[c].kind = "diagnostics"
  <2>1. Program(c) = <<"sessions", "waits", "blocking">>
    BY <1>5 DEF Program
  <2> QED
    BY <1>1, <1>2, <2>1
<1>6. CASE plan[c].kind = "server"
  <2>1. CASE Engine(c) = "mysql"
    <3>1. Program(c) = <<"version", "reads", "requests">>
      BY <1>6, <2>1 DEF Program
    <3> QED
      BY <1>1, <1>2, <3>1
  <2>2. CASE Engine(c) = "oracle"
    <3>1. Program(c) = <<"sessions", "reads", "requests">>
      BY <1>6, <2>2 DEF Program
    <3> QED
      BY <1>1, <1>2, <3>1
  <2>3. CASE Engine(c) \notin {"mysql", "oracle"}
    <3>1. Program(c) = <<"sessions", "cache_hit_ratio">>
      BY <1>6, <2>3 DEF Program
    <3> QED
      BY <1>1, <1>2, <3>1
  <2> QED
    BY <2>1, <2>2, <2>3
<1> QED
  BY <1>0, <1>3, <1>4, <1>5, <1>6

\* No two open pools for one key.
LEMMA OnePool ==
  ASSUME DbInv, NEW p \in 1 .. Len(pools), NEW q \in 1 .. Len(pools),
         pools[p].open, pools[q].open, pools[p].key = pools[q].key
  PROVE  p = q
<1>1. PICK c \in DbChecks : dbInst[c].phase # "none" /\ dbInst[c].pool = p
  BY DEF DbInv, RefsTrue, Holders
<1>2. PICK d \in DbChecks : dbInst[d].phase # "none" /\ dbInst[d].pool = q
  BY DEF DbInv, RefsTrue, Holders
<1>3. KeyOf(c) = KeyOf(d)
  BY <1>1, <1>2 DEF DbInv, PartsTrue
<1>4. Engine(c) = Engine(d) /\ (Shares(c) \/ c = d)
  BY <1>3, KeyTells DEF DbInv
<1> QED
  BY <1>1, <1>2, <1>3, <1>4 DEF DbInv, TablePoints, Shares

\* All that the theorem says of pools and connections follows.
LEMMA PoolsSharedOf == DbInv => PoolsShared
<1> SUFFICES ASSUME DbInv PROVE PoolsShared
  OBVIOUS
<1> USE DbPoolAssumption
<1>1. DOMAIN pools = 1 .. Len(pools) /\ Len(pools) \in Nat
  BY DEF DbInv, DbShapes
<1>2. PoolsHeld
  <2>1. \A k \in Keys : byKey[k] # 0 => pools[byKey[k]].open
    <3> TAKE k \in Keys
    <3> HAVE byKey[k] # 0
    <3>1. PICK c \in DbChecks : dbInst[c].phase # "none" /\ dbInst[c].pool = byKey[k]
      BY DEF DbInv, TablePoints
    <3>2. byKey[k] \in 1 .. Len(pools)
      BY <3>1 DEF DbInv, PartsTrue
    <3>3. Holders(byKey[k]) # {}
      BY <3>1 DEF Holders
    <3> QED
      BY <3>2, <3>3 DEF DbInv, RefsTrue
  <2> QED
    <3>0. \A p \in 1 .. Len(pools) : pools[p] \in PoolShapes
      BY DEF DbInv, DbShapes
    <3>1. \A p \in 1 .. Len(pools) : pools[p].open \in BOOLEAN
      BY <3>0 DEF PoolShapes
    <3>2. \A p \in 1 .. Len(pools) : pools[p].open = (Holders(p) # {}) /\ pools[p].refs = Cardinality(Holders(p))
      BY <3>1 DEF DbInv, RefsTrue
    <3> QED
      BY <1>1, <2>1, <3>2 DEF DbInv, TablePoints, PoolsHeld
<1>3. WithinConnections
  <2> SUFFICES ASSUME NEW k \in Keys
               PROVE  Cardinality({x \in (DOMAIN pools) \X (1 .. DbMaxConns) :
                                     pools[x[1]].key = k /\ pools[x[1]].conns[x[2]].up}) <= DbMaxConns
    BY DEF WithinConnections
  <2> DEFINE Up == {x \in (DOMAIN pools) \X (1 .. DbMaxConns) : pools[x[1]].key = k /\ pools[x[1]].conns[x[2]].up}
  <2>1. ASSUME NEW x \in Up PROVE x[1] \in 1 .. Len(pools) /\ x[2] \in 1 .. DbMaxConns /\ pools[x[1]].open
                                  /\ pools[x[1]].key = k /\ x = <<x[1], x[2]>>
    <3>1. x[1] \in 1 .. Len(pools) /\ x[2] \in 1 .. DbMaxConns /\ pools[x[1]].key = k /\ pools[x[1]].conns[x[2]].up
          /\ x = <<x[1], x[2]>>
      BY <1>1
    <3>2. pools[x[1]].conns[x[2]] # Closed
      <4>1. Closed.up = FALSE
        BY DEF Closed
      <4> QED
        BY <3>1, <4>1
    <3>3. pools[x[1]].open
      BY <3>1, <3>2 DEF DbInv, RefsTrue
    <3> QED
      BY <3>1, <3>3
  <2> HIDE DEF Up
  <2>2. CASE Up = {}
    BY <2>2, FS_EmptySet DEF Up
  <2>3. CASE Up # {}
    <3>1. PICK y : y \in Up
      BY <2>3
    <3>2. \A x \in Up : x[1] = y[1]
      BY <2>1, <3>1, OnePool
    <3> DEFINE R == {y[1]} \X (1 .. DbMaxConns)
    <3>3. Up \in SUBSET R
      BY <2>1, <3>2
    <3>4. IsFiniteSet({y[1]}) /\ Cardinality({y[1]}) = 1 /\ IsFiniteSet(1 .. DbMaxConns) /\ Cardinality(1 .. DbMaxConns) = DbMaxConns
      <4>1. IsFiniteSet({y[1]}) /\ Cardinality({y[1]}) = 1
        BY FS_Singleton
      <4>2. DbMaxConns \in Nat
        OBVIOUS
      <4>3. IsFiniteSet(1 .. DbMaxConns) /\ Cardinality(1 .. DbMaxConns) = DbMaxConns
        <5>1. 1 \in Int /\ DbMaxConns \in Int
          BY <4>2
        <5>2. Cardinality(1 .. DbMaxConns) = IF 1 > DbMaxConns THEN 0 ELSE DbMaxConns - 1 + 1
          BY <5>1, FS_Interval
        <5> QED
          BY <4>2, <5>1, <5>2, FS_Interval
      <4> QED
        BY <4>1, <4>3
    <3>5. IsFiniteSet(R) /\ Cardinality(R) = 1 * DbMaxConns
      BY <3>4, FS_Product
    <3> HIDE DEF R
    <3>6. Cardinality(Up) <= Cardinality(R)
      BY <3>3, <3>5, FS_Subset
    <3> QED
      BY <3>5, <3>6 DEF Up
  <2> QED
    BY <2>2, <2>3
<1>4. OwnConnection
  <2> SUFFICES ASSUME NEW c \in DbChecks, NEW p \in DOMAIN pools, NEW n \in 1 .. DbMaxConns, pools[p].conns[n].by = c
               PROVE  /\ pools[p].conns[n].up /\ dbInst[c].pool = p /\ dbInst[c].conn = n
                      /\ plan[c].database # "" => pools[p].conns[n].db = plan[c].database
    BY Zenon DEF OwnConnection
  <2>1. pools[p].conns[n].up /\ dbInst[c].pool = p /\ dbInst[c].conn = n
    BY <1>1 DEF DbInv, UsersTrue
  <2>2. plan[c].database # "" => pools[p].conns[n].db = plan[c].database
    BY <1>1 DEF DbInv, UsersPlaced
  <2> QED
    BY <2>1, <2>2
<1> QED
  BY <1>2, <1>3, <1>4 DEF DbInv, PoolsShared

LEMMA DbInitInv == DbPoolInit => DbInv
<1> SUFFICES ASSUME DbPoolInit PROVE DbInv
  OBVIOUS
<1>1. NoInst \in InstShapes /\ NoInst.phase = "none" /\ NoInst.pool = 0 /\ NoInst.conn = 0
  BY DEF NoInst, InstShapes
<1>2. DbShapes
  <2>1. <<>> \in Seq(PoolShapes) /\ pools = <<>>
    BY DEF DbPoolInit
  <2> QED
    BY <1>1, <2>1 DEF DbPoolInit, DbShapes
<1>3. Len(pools) = 0 /\ \A c \in DbChecks : dbInst[c] = NoInst
  BY DEF DbPoolInit
<1>4. PartsTrue /\ RefsTrue /\ TablePoints /\ ConnsPlaced /\ ReadSoFar /\ AskingTrue
  <2>1. PartsTrue /\ RefsTrue /\ ConnsPlaced /\ ReadSoFar /\ AskingTrue
    BY <1>1, <1>3 DEF PartsTrue, RefsTrue, ConnsPlaced, ReadSoFar, AskingTrue
  <2>2. TablePoints
    <3>1. \A k \in Keys : byKey[k] = 0
      BY DEF DbPoolInit
    <3>2. \A c \in DbChecks : KeyOf(c) \in Keys
      BY DEF Keys
    <3> QED
      BY <1>1, <1>3, <3>1, <3>2 DEF TablePoints
  <2> QED
    BY <2>1, <2>2
<1>5. UsersTrue /\ UsersPlaced /\ LoansTrue
  BY <1>1, <1>3 DEF UsersTrue, UsersPlaced, LoansTrue
<1>6. ResultsWhole
  <2>1. \A c \in DbChecks : ~dbResult[c].ok
    BY DEF DbPoolInit, Error
  <2> QED
    BY <2>1 DEF ResultsWhole
<1> QED
  BY <1>2, <1>4, <1>5, <1>6 DEF DbInv

\* The plan never changes, and so nothing that is read off it.
LEMMA SamePlan ==
  ASSUME plan' = plan
  PROVE  /\ Keys' = Keys /\ Databases' = Databases
         /\ \A c \in DbChecks : /\ KeyOf(c)' = KeyOf(c) /\ Engine(c)' = Engine(c) /\ Program(c)' = Program(c)
                                /\ (Shares(c)' <=> Shares(c)) /\ (AllOrNothing(c)' <=> AllOrNothing(c))
  BY DEF Keys, Databases, KeyOf, Engine, Program, Shares, AllOrNothing

\* Who has a part of which pool, and the references, stay as they are.
PartsSame ==
  /\ plan' = plan /\ byKey' = byKey /\ Len(pools') = Len(pools)
  /\ \A p \in 1 .. Len(pools) : pools'[p].key = pools[p].key /\ pools'[p].refs = pools[p].refs
                                /\ (pools'[p].open <=> pools[p].open)
  /\ \A c \in DbChecks : dbInst'[c].pool = dbInst[c].pool /\ (dbInst'[c].phase = "none" <=> dbInst[c].phase = "none")

LEMMA PartsKept ==
  ASSUME DbInv, PartsSame, \A c \in DbChecks : dbInst[c].phase = "none" => dbInst'[c].conn = 0,
         \A p \in 1 .. Len(pools) : ~pools[p].open => \A n \in 1 .. DbMaxConns : pools'[p].conns[n] = Closed
  PROVE  PartsTrue' /\ RefsTrue' /\ TablePoints'
<1>1. \A c \in DbChecks : KeyOf(c)' = KeyOf(c) /\ (Shares(c)' <=> Shares(c))
  BY SamePlan DEF PartsSame
<1>2. Keys' = Keys
  BY SamePlan DEF PartsSame
<1>3. \A p : Holders(p)' = Holders(p)
  BY DEF PartsSame, Holders
<1>4. PartsTrue'
  BY <1>1 DEF DbInv, PartsTrue, PartsSame
<1>5. RefsTrue'
  BY <1>3 DEF DbInv, RefsTrue, PartsSame
<1>6. TablePoints'
  <2>1. \A c \in DbChecks : /\ ~Shares(c)' => byKey'[KeyOf(c)'] = 0
                            /\ Shares(c)' /\ dbInst'[c].phase # "none" => byKey'[KeyOf(c)'] = dbInst'[c].pool
    BY <1>1 DEF DbInv, TablePoints, PartsSame
  <2>2. \A k \in Keys' : byKey'[k] # 0 =>
          \E c \in DbChecks : dbInst'[c].phase # "none" /\ dbInst'[c].pool = byKey'[k] /\ KeyOf(c)' = k
    <3> TAKE k \in Keys'
    <3> HAVE byKey'[k] # 0
    <3>1. k \in Keys /\ byKey[k] # 0
      BY <1>2 DEF PartsSame
    <3>2. PICK c \in DbChecks : dbInst[c].phase # "none" /\ dbInst[c].pool = byKey[k] /\ KeyOf(c) = k
      BY <3>1 DEF DbInv, TablePoints
    <3> QED
      BY <1>1, <3>2 DEF PartsSame
  <2> QED
    BY <2>1, <2>2 DEF TablePoints
<1> QED
  BY <1>4, <1>5, <1>6

\* A step that hands out no connection keeps the queries that are asked.
LEMMA AskingKept ==
  ASSUME DbInv, plan' = plan,
         \A c \in DbChecks : dbInst'[c].phase = "run" /\ dbInst'[c].conn # 0 =>
           /\ dbInst[c].phase = "run" /\ dbInst[c].conn # 0
           /\ dbInst'[c].at = dbInst[c].at /\ dbInst'[c].aborted = dbInst[c].aborted
  PROVE  AskingTrue'
<1>1. \A c \in DbChecks : Program(c)' = Program(c)
  BY SamePlan
<1> QED
  BY <1>1 DEF DbInv, AskingTrue

\* A step of a Run that borrows and gives back nothing.
LEMMA InstStep ==
  ASSUME DbInv, NEW c \in DbChecks, NEW i \in InstShapes, UNCHANGED <<plan, pools, byKey>>,
         dbInst' = [dbInst EXCEPT ![c] = i], i.pool = dbInst[c].pool, i.conn = dbInst[c].conn,
         i.phase # "none", dbInst[c].phase # "none", i.conn # 0 => i.phase = "run",
         DOMAIN dbResult' = DbChecks, ReadSoFar', AskingTrue', ResultsWhole'
  PROVE  DbInv'
<1>1. dbInst \in [DbChecks -> InstShapes]
  BY DEF DbInv, DbShapes
<1>2. dbInst' \in [DbChecks -> InstShapes] /\ dbInst'[c] = i /\ \A d \in DbChecks \ {c} : dbInst'[d] = dbInst[d]
  BY <1>1
<1>3. \A d \in DbChecks : dbInst'[d].pool = dbInst[d].pool /\ dbInst'[d].conn = dbInst[d].conn
                          /\ (dbInst'[d].phase = "none" <=> dbInst[d].phase = "none")
  BY <1>2
<1>4. PartsTrue' /\ RefsTrue' /\ TablePoints'
  <2>1. PartsSame
    BY <1>3 DEF PartsSame
  <2>2. \A d \in DbChecks : dbInst[d].phase = "none" => dbInst'[d].conn = 0
    BY <1>3 DEF DbInv, PartsTrue
  <2>3. \A p \in 1 .. Len(pools) : ~pools[p].open => \A n \in 1 .. DbMaxConns : pools'[p].conns[n] = Closed
    BY DEF DbInv, RefsTrue
  <2> QED
    BY <2>1, <2>2, <2>3, PartsKept
<1>5. DbShapes'
  <2>1. Keys' = Keys /\ Databases' = Databases
    BY SamePlan
  <2>2. InstShapes' = InstShapes /\ PoolShapes' = PoolShapes
    BY <2>1 DEF InstShapes, PoolShapes, ConnShapes
  <2> QED
    BY <1>2, <2>1, <2>2 DEF DbInv, DbShapes
<1>6. UsersTrue' /\ UsersPlaced' /\ LoansTrue'
  <2>1. UsersTrue'
    BY <1>3 DEF DbInv, UsersTrue
  <2>2. UsersPlaced'
    BY DEF DbInv, UsersPlaced
  <2>3. LoansTrue'
    BY <1>2, <1>3 DEF DbInv, LoansTrue
  <2> QED
    BY <2>1, <2>2, <2>3
<1>7. ConnsPlaced'
  <2>1. \A d \in DbChecks : KeyOf(d)' = KeyOf(d) /\ Engine(d)' = Engine(d)
    BY SamePlan
  <2> QED
    BY <2>1 DEF DbInv, ConnsPlaced
<1> QED
  BY <1>4, <1>5, <1>6, <1>7 DEF DbInv

\* What becomes of the pools when v takes the place of the n-th connection of pool p.
PoolsWith(p, n, v) ==
  /\ pools' \in Seq(PoolShapes) /\ Len(pools') = Len(pools)
  /\ \A q \in 1 .. Len(pools) : pools'[q].key = pools[q].key /\ pools'[q].refs = pools[q].refs
                                /\ pools'[q].open = pools[q].open
  /\ pools'[p].conns[n] = v
  /\ \A q \in 1 .. Len(pools), m \in 1 .. DbMaxConns : q # p \/ m # n => pools'[q].conns[m] = pools[q].conns[m]

SetsConn(p, n, v) == pools' = [pools EXCEPT ![p].conns[n] = v]

LEMMA ConnSet ==
  ASSUME DbInv, NEW p \in 1 .. Len(pools), NEW n \in 1 .. DbMaxConns, NEW v \in ConnShapes, SetsConn(p, n, v)
  PROVE  PoolsWith(p, n, v)
<1>1. pools \in Seq(PoolShapes) /\ pools[p] \in PoolShapes
  BY DEF DbInv, DbShapes
<1> DEFINE e == [pools[p] EXCEPT !.conns[n] = v]
<1>2. e \in PoolShapes /\ e.key = pools[p].key /\ e.refs = pools[p].refs /\ e.open = pools[p].open
  BY <1>1 DEF PoolShapes
<1>3. e.conns[n] = v /\ \A m \in 1 .. DbMaxConns : m # n => e.conns[m] = pools[p].conns[m]
  BY <1>1 DEF PoolShapes
<1>4. pools' = [pools EXCEPT ![p] = e]
  BY <1>1 DEF SetsConn
<1> HIDE DEF e
<1>5. pools' \in Seq(PoolShapes) /\ Len(pools') = Len(pools)
  BY <1>1, <1>2, <1>4, ExceptSeq
<1>6. pools'[p] = e /\ \A j \in 1 .. Len(pools) : j # p => pools'[j] = pools[j]
  BY <1>1, <1>2, <1>4
<1> QED
  BY <1>2, <1>3, <1>5, <1>6 DEF PoolsWith

\* Who has a connection after that.
LoansWith(p, n, v) ==
  /\ dbInst' \in [DbChecks -> InstShapes]
  /\ \A c \in DbChecks : dbInst'[c].pool = dbInst[c].pool /\ (dbInst'[c].phase = "none" <=> dbInst[c].phase = "none")
  /\ \A c \in DbChecks : v.by = c => dbInst[c].conn = 0 /\ dbInst[c].pool = p /\ dbInst[c].phase # "none"
                                     /\ v.up /\ dbInst'[c].conn = n
  /\ \A c \in DbChecks : v.by # c /\ pools[p].conns[n].by = c => dbInst'[c].conn = 0
  /\ \A c \in DbChecks : v.by # c /\ pools[p].conns[n].by # c => dbInst'[c].conn = dbInst[c].conn
  /\ \A c \in DbChecks : dbInst'[c].conn # 0 => dbInst'[c].phase \in {"ping", "run"}

\* The database v is in.
PlacedWith(p, v) ==
  /\ \A c \in DbChecks : v.by = c /\ plan[c].database # "" => v.db = plan[c].database
  /\ \A c \in DbChecks : v.up /\ KeyOf(c) = pools[p].key /\ Engine(c) # "mysql" => v.db = plan[c].database

LEMMA LoansKept ==
  ASSUME DbInv, NEW p \in 1 .. Len(pools), NEW n \in 1 .. DbMaxConns, NEW v \in ConnShapes,
         PoolsWith(p, n, v), LoansWith(p, n, v)
  PROVE  UsersTrue' /\ LoansTrue'
<1>1. Len(pools') = Len(pools) /\ pools'[p].conns[n] = v
  BY DEF PoolsWith
<1>2. \A q \in 1 .. Len(pools), m \in 1 .. DbMaxConns : q # p \/ m # n => pools'[q].conns[m] = pools[q].conns[m]
  BY DEF PoolsWith
<1>3. ASSUME NEW c \in DbChecks, NEW q \in 1 .. Len(pools), NEW m \in 1 .. DbMaxConns, pools'[q].conns[m].by = c
      PROVE  pools'[q].conns[m].up /\ dbInst'[c].pool = q /\ dbInst'[c].conn = m
  <2>1. CASE q = p /\ m = n
    <3>1. v.by = c
      BY <1>1, <1>3, <2>1
    <3> QED
      BY <1>1, <2>1, <3>1 DEF LoansWith
  <2>2. CASE q # p \/ m # n
    <3>1. pools'[q].conns[m] = pools[q].conns[m]
      BY <1>2, <2>2
    <3>2. pools[q].conns[m].up /\ dbInst[c].pool = q /\ dbInst[c].conn = m
      BY <1>3, <3>1 DEF DbInv, UsersTrue
    <3>3. v.by # c
      BY <3>2 DEF LoansWith
    <3>4. pools[p].conns[n].by # c
      BY <2>2, <3>2 DEF DbInv, UsersTrue
    <3> QED
      BY <3>1, <3>2, <3>3, <3>4 DEF LoansWith
  <2> QED
    BY <2>1, <2>2
<1>4. ASSUME NEW c \in DbChecks, dbInst'[c].conn # 0
      PROVE  dbInst'[c].conn \in 1 .. DbMaxConns /\ pools'[dbInst'[c].pool].conns[dbInst'[c].conn].by = c
             /\ dbInst'[c].phase \in {"ping", "run"}
  <2>1. dbInst'[c].phase \in {"ping", "run"} /\ dbInst'[c].pool = dbInst[c].pool
    BY <1>4 DEF LoansWith
  <2>2. CASE v.by = c
    <3>1. dbInst'[c].conn = n /\ dbInst'[c].pool = p
      BY <2>2 DEF LoansWith
    <3> QED
      BY <1>1, <2>1, <2>2, <3>1
  <2>3. CASE v.by # c
    <3>1. pools[p].conns[n].by # c /\ dbInst'[c].conn = dbInst[c].conn
      BY <1>4, <2>3 DEF LoansWith
    <3>2. /\ dbInst[c].conn \in 1 .. DbMaxConns /\ pools[dbInst[c].pool].conns[dbInst[c].conn].by = c
          /\ dbInst[c].phase # "none"
      BY <1>4, <3>1 DEF DbInv, LoansTrue
    <3>3. dbInst[c].pool \in 1 .. Len(pools)
      BY <3>2 DEF DbInv, PartsTrue
    <3>4. pools'[dbInst[c].pool].conns[dbInst[c].conn] = pools[dbInst[c].pool].conns[dbInst[c].conn]
      BY <1>2, <3>1, <3>2, <3>3
    <3> QED
      BY <2>1, <3>1, <3>2, <3>4
  <2> QED
    BY <2>2, <2>3
<1>5. UsersTrue'
  BY <1>1, <1>3 DEF UsersTrue
<1> QED
  BY <1>4, <1>5 DEF LoansTrue

LEMMA PlacesKept ==
  ASSUME DbInv, plan' = plan, NEW p \in 1 .. Len(pools), NEW n \in 1 .. DbMaxConns, NEW v \in ConnShapes,
         PoolsWith(p, n, v), PlacedWith(p, v)
  PROVE  UsersPlaced' /\ ConnsPlaced'
<1>1. Len(pools') = Len(pools) /\ pools'[p].conns[n] = v /\ \A q \in 1 .. Len(pools) : pools'[q].key = pools[q].key
  BY DEF PoolsWith
<1>2. \A q \in 1 .. Len(pools), m \in 1 .. DbMaxConns : q # p \/ m # n => pools'[q].conns[m] = pools[q].conns[m]
  BY DEF PoolsWith
<1>3. ASSUME NEW c \in DbChecks, NEW q \in 1 .. Len(pools), NEW m \in 1 .. DbMaxConns,
             pools'[q].conns[m].by = c, plan[c].database # ""
      PROVE  pools'[q].conns[m].db = plan[c].database
  <2>1. CASE q = p /\ m = n
    BY <1>1, <1>3, <2>1 DEF PlacedWith
  <2>2. CASE q # p \/ m # n
    <3>1. pools'[q].conns[m] = pools[q].conns[m]
      BY <1>2, <2>2
    <3>2. pools[q].conns[m].by = c
      BY <1>3, <3>1
    <3>3. UsersPlaced
      BY DEF DbInv
    <3>4. pools[q].conns[m].db = plan[c].database
      BY <1>3, <3>2, <3>3, Zenon DEF UsersPlaced
    <3> QED
      BY <3>1, <3>4
  <2> QED
    BY <2>1, <2>2
<1>4. ASSUME NEW c \in DbChecks, NEW q \in 1 .. Len(pools), NEW m \in 1 .. DbMaxConns,
             pools'[q].conns[m].up, KeyOf(c) = pools[q].key, Engine(c) # "mysql"
      PROVE  pools'[q].conns[m].db = plan[c].database
  <2>1. CASE q = p /\ m = n
    BY <1>1, <1>4, <2>1 DEF PlacedWith
  <2>2. CASE q # p \/ m # n
    <3>1. pools'[q].conns[m] = pools[q].conns[m]
      BY <1>2, <2>2
    <3> QED
      BY <1>4, <3>1 DEF DbInv, ConnsPlaced
  <2> QED
    BY <2>1, <2>2
<1>5. UsersPlaced'
  BY <1>1, <1>3 DEF UsersPlaced
<1>6. \A c \in DbChecks : KeyOf(c)' = KeyOf(c) /\ Engine(c)' = Engine(c)
  BY SamePlan
<1>7. ConnsPlaced'
  <2> SUFFICES ASSUME NEW c \in DbChecks, NEW q \in 1 .. Len(pools)', NEW m \in 1 .. DbMaxConns,
                      pools'[q].conns[m].up, KeyOf(c)' = pools'[q].key, Engine(c)' # "mysql"
               PROVE  pools'[q].conns[m].db = plan'[c].database
    BY Zenon DEF ConnsPlaced
  <2> QED
    BY <1>1, <1>4, <1>6
<1> QED
  BY <1>5, <1>7

\* A connection is lent, given back or closed.
LEMMA ConnStep ==
  ASSUME DbInv, UNCHANGED <<plan, byKey, dbResult>>,
         NEW p \in 1 .. Len(pools), NEW n \in 1 .. DbMaxConns, NEW v \in ConnShapes, SetsConn(p, n, v),
         pools[p].open \/ v = Closed, LoansWith(p, n, v), PlacedWith(p, v), ReadSoFar', AskingTrue'
  PROVE  DbInv'
<1>1. PoolsWith(p, n, v)
  BY ConnSet
<1>2. /\ pools' \in Seq(PoolShapes) /\ Len(pools') = Len(pools)
      /\ \A q \in 1 .. Len(pools) : pools'[q].key = pools[q].key /\ pools'[q].refs = pools[q].refs
                                    /\ pools'[q].open = pools[q].open
  BY <1>1 DEF PoolsWith
<1>3. PartsTrue' /\ RefsTrue' /\ TablePoints'
  <2>1. PartsSame
    BY <1>2 DEF PartsSame, LoansWith
  <2>2. \A c \in DbChecks : dbInst[c].phase = "none" => dbInst'[c].conn = 0
    <3> TAKE c \in DbChecks
    <3> HAVE dbInst[c].phase = "none"
    <3>1. dbInst'[c].phase = "none"
      BY DEF LoansWith
    <3> QED
      BY <3>1 DEF LoansWith
  <2>3. \A q \in 1 .. Len(pools) : ~pools[q].open => \A m \in 1 .. DbMaxConns : pools'[q].conns[m] = Closed
    <3> TAKE q \in 1 .. Len(pools)
    <3> HAVE ~pools[q].open
    <3> TAKE m \in 1 .. DbMaxConns
    <3>1. pools[q].conns[m] = Closed
      BY DEF DbInv, RefsTrue
    <3>2. CASE q = p /\ m = n
      BY <1>1, <3>2 DEF PoolsWith
    <3>3. CASE q # p \/ m # n
      BY <1>1, <3>1, <3>3 DEF PoolsWith
    <3> QED
      BY <3>2, <3>3
  <2> QED
    BY <2>1, <2>2, <2>3, PartsKept
<1>4. DbShapes'
  <2>1. Keys' = Keys /\ Databases' = Databases
    BY SamePlan
  <2>2. InstShapes' = InstShapes /\ PoolShapes' = PoolShapes
    BY <2>1 DEF InstShapes, PoolShapes, ConnShapes
  <2>3. dbInst' \in [DbChecks -> InstShapes]
    BY DEF LoansWith
  <2> QED
    BY <1>2, <2>1, <2>2, <2>3 DEF DbInv, DbShapes
<1>5. UsersTrue' /\ LoansTrue'
  BY <1>1, LoansKept
<1>6. UsersPlaced' /\ ConnsPlaced'
  BY <1>1, PlacesKept
<1>7. ResultsWhole'
  <2>1. \A c \in DbChecks : Engine(c)' = Engine(c) /\ Program(c)' = Program(c)
    BY SamePlan
  <2> QED
    BY <2>1 DEF DbInv, ResultsWhole
<1> QED
  BY <1>3, <1>4, <1>5, <1>6, <1>7 DEF DbInv

\* What an answer makes of a Run.
LEMMA AfterShape ==
  ASSUME DbInv, NEW c \in DbChecks, dbInst[c].phase = "run", NEW ok \in BOOLEAN,
         ok => dbInst[c].at \in 1 .. Len(Program(c))
  PROVE  /\ After(c, ok) \in InstShapes
         /\ After(c, ok).phase = "run" /\ After(c, ok).pool = dbInst[c].pool /\ After(c, ok).conn = 0
         /\ After(c, ok).at = dbInst[c].at + 1 /\ (After(c, ok).aborted <=> ~ok /\ AllOrNothing(c))
         /\ After(c, ok).read = IF ok THEN dbInst[c].read \cup {Program(c)[dbInst[c].at]} ELSE dbInst[c].read
<1> DEFINE o == dbInst[c]
           r == IF ok THEN o.read \cup {Program(c)[o.at]} ELSE o.read
<1>0. o \in InstShapes
  BY DEF DbInv, DbShapes
<1>1. r \in SUBSET Sections
  <2>1. o.read \in SUBSET Sections
    BY <1>0 DEF InstShapes
  <2>2. Program(c) \in Seq(Sections)
    BY ProgramShape DEF DbInv
  <2>3. ok => Program(c)[o.at] \in Sections
    BY <2>2
  <2> QED
    BY <2>1, <2>3
<1>2. (~ok /\ AllOrNothing(c)) \in BOOLEAN
  OBVIOUS
<1> DEFINE a == [o EXCEPT !.conn = 0]
           b == [a EXCEPT !.at = @ + 1]
           d == [b EXCEPT !.read = r]
           e == [d EXCEPT !.aborted = ~ok /\ AllOrNothing(c)]
<1>3. After(c, ok) = e
  BY DEF After
<1> HIDE DEF r
<1>4. a \in InstShapes /\ a.phase = o.phase /\ a.pool = o.pool /\ a.conn = 0 /\ a.at = o.at
  BY <1>0 DEF InstShapes
<1> HIDE DEF a
<1>5. b \in InstShapes /\ b.phase = a.phase /\ b.pool = a.pool /\ b.conn = a.conn /\ b.at = a.at + 1
  BY <1>4 DEF InstShapes
<1> HIDE DEF b
<1>6. d \in InstShapes /\ d.phase = b.phase /\ d.pool = b.pool /\ d.conn = b.conn /\ d.at = b.at /\ d.read = r
  BY <1>1, <1>5 DEF InstShapes
<1> HIDE DEF d
<1>7. e \in InstShapes /\ e.phase = d.phase /\ e.pool = d.pool /\ e.conn = d.conn /\ e.at = d.at /\ e.read = d.read
      /\ e.aborted = (~ok /\ AllOrNothing(c))
  BY <1>2, <1>6 DEF InstShapes
<1> HIDE DEF e
<1> QED
  BY <1>3, <1>4, <1>5, <1>6, <1>7 DEF r

\* BeginRun, Expire, NoConnection and EndRun: the steps of a Run without a connection.
LEMMA RunSteps ==
  ASSUME DbInv, NEW c \in DbChecks, BeginRun(c) \/ Expire(c) \/ NoConnection(c)
  PROVE  DbInv'
<1> DEFINE o == dbInst[c]
<1>0. o \in InstShapes /\ dbInst \in [DbChecks -> InstShapes] /\ DOMAIN dbResult = DbChecks
  BY DEF DbInv, DbShapes
<1>1. UNCHANGED <<plan, pools, byKey, dbResult>>
  BY DEF BeginRun, Expire, NoConnection
<1>2. \A d \in DbChecks : /\ Engine(d)' = Engine(d) /\ Program(d)' = Program(d)
                          /\ (AllOrNothing(d)' <=> AllOrNothing(d))
  BY <1>1, SamePlan
<1>3. ResultsWhole'
  BY <1>1, <1>2 DEF DbInv, ResultsWhole
<1>4. ASSUME NEW i \in InstShapes, dbInst' = [dbInst EXCEPT ![c] = i],
             i.phase = "run", ~i.aborted => \A n \in 1 .. Len(Program(c)) : n < i.at /\ AllOrNothing(c) => Program(c)[n] \in i.read
      PROVE  ReadSoFar'
  <2>1. dbInst'[c] = i /\ \A d \in DbChecks \ {c} : dbInst'[d] = dbInst[d]
    BY <1>0, <1>4
  <2> SUFFICES ASSUME NEW d \in DbChecks, AllOrNothing(d), dbInst'[d].phase = "run", ~dbInst'[d].aborted,
                      NEW n \in 1 .. Len(Program(d)), n < dbInst'[d].at
               PROVE  Program(d)[n] \in dbInst'[d].read
    BY <1>2 DEF ReadSoFar
  <2>2. CASE d = c
    BY <1>4, <2>1, <2>2
  <2>3. CASE d # c
    BY <2>1, <2>3 DEF DbInv, ReadSoFar
  <2> QED
    BY <2>2, <2>3
<1>5. CASE BeginRun(c)
  <2> DEFINE i == [o EXCEPT !.phase = "run", !.at = 1, !.read = {}, !.aborted = FALSE, !.expired = FALSE]
  <2>1. dbInst' = [dbInst EXCEPT ![c] = i] /\ o.phase = "idle"
    BY <1>5 DEF BeginRun
  <2>0. o.conn = 0
    BY <2>1 DEF DbInv, LoansTrue
  <2>2. i \in InstShapes /\ i.phase = "run" /\ i.pool = o.pool /\ i.conn = o.conn /\ i.at = 1
    <3> DEFINE a == [o EXCEPT !.phase = "run"]
               b == [a EXCEPT !.at = 1]
               d == [b EXCEPT !.read = {}]
               e == [d EXCEPT !.aborted = FALSE]
               f == [e EXCEPT !.expired = FALSE]
    <3>1. i = f
      OBVIOUS
    <3>2. a \in InstShapes /\ a.phase = "run" /\ a.pool = o.pool /\ a.conn = o.conn
      BY <1>0 DEF InstShapes
    <3> HIDE DEF a
    <3>3. b \in InstShapes /\ b.phase = a.phase /\ b.pool = a.pool /\ b.conn = a.conn /\ b.at = 1
      BY <3>2 DEF InstShapes
    <3> HIDE DEF b
    <3>4. d \in InstShapes /\ d.phase = b.phase /\ d.pool = b.pool /\ d.conn = b.conn /\ d.at = b.at
      BY <3>3 DEF InstShapes
    <3> HIDE DEF d
    <3>5. e \in InstShapes /\ e.phase = d.phase /\ e.pool = d.pool /\ e.conn = d.conn /\ e.at = d.at
      BY <3>4 DEF InstShapes
    <3> HIDE DEF e
    <3>6. f \in InstShapes /\ f.phase = e.phase /\ f.pool = e.pool /\ f.conn = e.conn /\ f.at = e.at
      BY <3>5 DEF InstShapes
    <3> QED
      BY <3>1, <3>2, <3>3, <3>4, <3>5, <3>6
  <2> HIDE DEF i
  <2>3. ReadSoFar'
    <3>1. \A n \in 1 .. Len(Program(c)) : ~(n < i.at)
      BY <2>2
    <3> QED
      BY <1>4, <2>1, <2>2, <3>1
  <2>4. AskingTrue'
    <3>1. \A d \in DbChecks \ {c} : dbInst'[d] = dbInst[d]
      BY <1>0, <2>1
    <3>2. dbInst'[c] = i
      BY <1>0, <2>1
    <3> QED
      BY <1>1, <2>0, <2>1, <2>2, <3>1, <3>2, AskingKept
  <2> QED
    BY <1>0, <1>1, <1>3, <2>1, <2>2, <2>3, <2>4, InstStep
<1>6. CASE Expire(c)
  <2> DEFINE i == [o EXCEPT !.expired = TRUE]
  <2>1. dbInst' = [dbInst EXCEPT ![c] = i] /\ o.phase = "run"
    BY <1>6 DEF Expire
  <2>2. i \in InstShapes /\ i.phase = "run" /\ i.pool = o.pool /\ i.conn = o.conn /\ i.at = o.at /\ i.read = o.read
        /\ i.aborted = o.aborted
    BY <1>0, <2>1 DEF InstShapes
  <2> HIDE DEF i
  <2>3. ReadSoFar'
    <3>1. ~i.aborted => \A n \in 1 .. Len(Program(c)) : n < i.at /\ AllOrNothing(c) => Program(c)[n] \in i.read
      BY <2>1, <2>2 DEF DbInv, ReadSoFar
    <3> QED
      BY <1>4, <2>1, <2>2, <3>1
  <2>4. AskingTrue'
    <3>1. \A d \in DbChecks \ {c} : dbInst'[d] = dbInst[d]
      BY <1>0, <2>1
    <3>2. dbInst'[c] = i
      BY <1>0, <2>1
    <3> QED
      BY <1>1, <2>1, <2>2, <3>1, <3>2, AskingKept
  <2> QED
    BY <1>0, <1>1, <1>3, <2>1, <2>2, <2>3, <2>4, InstStep
<1>7. CASE NoConnection(c)
  <2> DEFINE i == After(c, FALSE)
  <2>1. dbInst' = [dbInst EXCEPT ![c] = i] /\ o.phase = "run" /\ o.conn = 0 /\ ~o.aborted
    BY <1>7 DEF NoConnection
  <2>2. i \in InstShapes /\ i.phase = "run" /\ i.pool = o.pool /\ i.conn = 0 /\ (i.aborted <=> AllOrNothing(c))
    BY <2>1, AfterShape
  <2> HIDE DEF i
  <2>3. ReadSoFar'
    BY <1>4, <2>1, <2>2
  <2>4. AskingTrue'
    <3>1. \A d \in DbChecks \ {c} : dbInst'[d] = dbInst[d]
      BY <1>0, <2>1
    <3>2. dbInst'[c] = i
      BY <1>0, <2>1
    <3> QED
      BY <1>1, <2>1, <2>2, <3>1, <3>2, AskingKept
  <2> QED
    BY <1>0, <1>1, <1>3, <2>1, <2>2, <2>3, <2>4, InstStep
<1> QED
  BY <1>5, <1>6, <1>7

\* What a Run returns: a catalog only when no query failed, diagnostics only with
\* sessions or waits.
LEMMA OutcomeWhole ==
  ASSUME DbInv, NEW c \in DbChecks, EndRun(c), NEW numeric \in BOOLEAN, Outcome(c, dbInst[c], numeric).ok
  PROVE  /\ plan[c].kind = "catalog" => \A n \in 1 .. Len(Program(c)) : Program(c)[n] \in Outcome(c, dbInst[c], numeric).read
         /\ plan[c].kind = "diagnostics" /\ Engine(c) # "postgres" =>
              Outcome(c, dbInst[c], numeric).read \cap {"sessions", "waits"} # {}
<1> DEFINE i == dbInst[c]
           r == Outcome(c, i, numeric)
<1>0. Error.ok = FALSE /\ \A x : Returned(x).read = x
  BY DEF Error, Returned
<1>1. Engine(c) \in {"mysql", "postgres", "mssql", "oracle"}
  BY PlanShape DEF DbInv, Engines
<1>2. ASSUME plan[c].kind = "catalog" PROVE \A n \in 1 .. Len(Program(c)) : Program(c)[n] \in r.read
  <2>1. r = CatalogRun(c, i)
    BY <1>2 DEF Outcome
  <2>2. r = Error \/ (~i.aborted /\ r = Returned(i.read))
    BY <1>1, <2>1 DEF CatalogRun, PostgresCatalog, MySQLCatalog, MSSQLCatalog, OracleCatalog
  <2>3. ~i.aborted /\ r.read = i.read
    <3>1. r # Error
      BY <1>0
    <3> QED
      BY <1>0, <2>2, <3>1
  <2>4. i.phase = "run" /\ i.at > Len(Program(c))
    BY <2>3 DEF EndRun
  <2>5. AllOrNothing(c)
    BY <1>2 DEF AllOrNothing
  <2>6. i.at \in Nat /\ Len(Program(c)) \in Nat
    <3>1. i \in InstShapes
      BY DEF DbInv, DbShapes
    <3>2. Program(c) \in Seq(Sections)
      BY ProgramShape DEF DbInv
    <3> QED
      BY <3>1, <3>2 DEF InstShapes
  <2>7. \A n \in 1 .. Len(Program(c)) : n < i.at
    BY <2>4, <2>6
  <2>8. \A n \in 1 .. Len(Program(c)) : Program(c)[n] \in i.read
    BY <2>3, <2>4, <2>5, <2>7 DEF DbInv, ReadSoFar
  <2> QED
    BY <2>3, <2>8
<1>3. ASSUME plan[c].kind = "diagnostics", Engine(c) # "postgres" PROVE r.read \cap {"sessions", "waits"} # {}
  <2>1. r = DiagnosticsRun(c, i)
    BY <1>3 DEF Outcome
  <2>2. r = Error \/ (i.read \cap {"sessions", "waits"} # {} /\ r = Returned(i.read))
    BY <1>1, <1>3, <2>1 DEF DiagnosticsRun, MySQLDiagnostics, MSSQLDiagnostics, OracleDiagnostics
  <2>3. r # Error
    BY <1>0
  <2> QED
    BY <1>0, <2>2, <2>3
<1> QED
  BY <1>2, <1>3

LEMMA FreshInst ==
  ASSUME NEW ph \in {"ping", "idle"}, NEW p \in Nat
  PROVE  /\ [NoInst EXCEPT !.phase = ph, !.pool = p] \in InstShapes
         /\ [NoInst EXCEPT !.phase = ph, !.pool = p].phase = ph /\ [NoInst EXCEPT !.phase = ph, !.pool = p].pool = p
         /\ [NoInst EXCEPT !.phase = ph, !.pool = p].conn = 0
<1> DEFINE a == [NoInst EXCEPT !.phase = ph]
           b == [a EXCEPT !.pool = p]
<1>1. NoInst \in InstShapes /\ NoInst.conn = 0
  BY DEF NoInst, InstShapes
<1>2. [NoInst EXCEPT !.phase = ph, !.pool = p] = b
  OBVIOUS
<1>3. a \in InstShapes /\ a.phase = ph /\ a.conn = 0
  BY <1>1 DEF InstShapes
<1> HIDE DEF a
<1>4. b \in InstShapes /\ b.phase = ph /\ b.conn = 0 /\ b.pool = p
  BY <1>3 DEF InstShapes
<1> QED
  BY <1>2, <1>4

LEMMA EndRunKeeps ==
  ASSUME DbInv, NEW c \in DbChecks, EndRun(c)
  PROVE  DbInv'
<1> DEFINE i == [NoInst EXCEPT !.phase = "idle", !.pool = dbInst[c].pool]
<1>0. dbInst[c] \in InstShapes /\ dbInst \in [DbChecks -> InstShapes] /\ DOMAIN dbResult = DbChecks
  BY DEF DbInv, DbShapes
<1>1. PICK numeric \in BOOLEAN : dbResult' = [dbResult EXCEPT ![c] = Outcome(c, dbInst[c], numeric)]
  BY DEF EndRun
<1>2. /\ dbInst[c].phase = "run" /\ dbInst[c].conn = 0 /\ dbInst' = [dbInst EXCEPT ![c] = i]
      /\ UNCHANGED <<plan, pools, byKey>>
  BY DEF EndRun
<1>3. i \in InstShapes /\ i.phase = "idle" /\ i.pool = dbInst[c].pool /\ i.conn = 0
  <2>1. dbInst[c].pool \in Nat
    BY <1>0 DEF InstShapes
  <2> QED
    BY <2>1, FreshInst
<1> HIDE DEF i
<1>4. \A d \in DbChecks : /\ Engine(d)' = Engine(d) /\ Program(d)' = Program(d)
                          /\ (AllOrNothing(d)' <=> AllOrNothing(d))
  BY <1>2, SamePlan
<1>5. dbInst'[c] = i /\ \A d \in DbChecks \ {c} : dbInst'[d] = dbInst[d]
  BY <1>0, <1>2
<1>6. ReadSoFar'
  <2> SUFFICES ASSUME NEW d \in DbChecks, AllOrNothing(d), dbInst'[d].phase = "run", ~dbInst'[d].aborted,
                      NEW n \in 1 .. Len(Program(d)), n < dbInst'[d].at
               PROVE  Program(d)[n] \in dbInst'[d].read
    BY <1>4 DEF ReadSoFar
  <2>1. d # c /\ dbInst'[d] = dbInst[d]
    BY <1>3, <1>5
  <2> QED
    BY <2>1 DEF DbInv, ReadSoFar
<1>7. DOMAIN dbResult' = DbChecks /\ dbResult'[c] = Outcome(c, dbInst[c], numeric)
      /\ \A d \in DbChecks \ {c} : dbResult'[d] = dbResult[d]
  BY <1>0, <1>1
<1>8. ResultsWhole'
  <2> SUFFICES ASSUME NEW d \in DbChecks, dbResult'[d].ok
               PROVE  CASE plan[d].kind = "catalog" -> \A n \in DOMAIN Program(d) : Program(d)[n] \in dbResult'[d].read
                        [] plan[d].kind = "diagnostics" /\ Engine(d) # "postgres" ->
                             dbResult'[d].read \cap {"sessions", "waits"} # {}
                        [] OTHER -> TRUE
    BY <1>2, <1>4 DEF ResultsWhole
  <2>1. CASE d # c
    <3>1. dbResult'[d] = dbResult[d]
      BY <1>7, <2>1
    <3> QED
      BY <3>1 DEF DbInv, ResultsWhole
  <2>2. CASE d = c
    <3>1. Outcome(c, dbInst[c], numeric).ok
      BY <1>7, <2>2
    <3>2. DOMAIN Program(c) = 1 .. Len(Program(c))
      BY ProgramShape DEF DbInv
    <3> QED
      BY <1>7, <2>2, <3>1, <3>2, OutcomeWhole
  <2> QED
    BY <2>1, <2>2
<1>9. AskingTrue'
  BY <1>2, <1>3, <1>5, AskingKept
<1> QED
  BY <1>2, <1>3, <1>6, <1>7, <1>8, <1>9, InstStep

\* A step that asks no more and forgets nothing keeps what was read.
LEMMA ReadsKept ==
  ASSUME DbInv, plan' = plan,
         \A c \in DbChecks : dbInst'[c].phase = "run" => dbInst'[c].at = dbInst[c].at /\ dbInst'[c].read = dbInst[c].read
                                /\ dbInst'[c].aborted = dbInst[c].aborted /\ dbInst[c].phase = "run"
  PROVE  ReadSoFar'
<1>1. \A c \in DbChecks : Program(c)' = Program(c) /\ (AllOrNothing(c)' <=> AllOrNothing(c))
  BY SamePlan
<1> SUFFICES ASSUME NEW c \in DbChecks, AllOrNothing(c), dbInst'[c].phase = "run", ~dbInst'[c].aborted,
                    NEW n \in 1 .. Len(Program(c)), n < dbInst'[c].at
             PROVE  Program(c)[n] \in dbInst'[c].read
  BY <1>1 DEF ReadSoFar
<1> QED
  BY DEF DbInv, ReadSoFar

\* The pool hands out a connection that nobody uses, switched where that is needed.
LEMMA BorrowKeeps ==
  ASSUME DbInv, NEW c \in DbChecks, NEW n \in 1 .. DbMaxConns, Borrow(c, n)
  PROVE  DbInv'
<1> DEFINE p == dbInst[c].pool
           conn == pools[p].conns[n]
           db == Uses(c, IF conn.up THEN conn.db ELSE StartsIn(c))
           v == [up |-> TRUE, db |-> db, by |-> c]
           i == [dbInst[c] EXCEPT !.conn = n]
<1>0. dbInst[c] \in InstShapes /\ dbInst \in [DbChecks -> InstShapes]
  BY DEF DbInv, DbShapes
<1>1. /\ dbInst[c].conn = 0 /\ dbInst[c].phase \in {"ping", "run"} /\ conn.by = "nobody"
      /\ dbInst' = [dbInst EXCEPT ![c] = i] /\ SetsConn(p, n, v) /\ UNCHANGED <<plan, byKey, dbResult>>
  BY DEF Borrow, Wanting, SetsConn
<1>2. p \in 1 .. Len(pools) /\ pools[p].key = KeyOf(c)
  BY <1>1 DEF DbInv, PartsTrue
<1>3. pools[p].open
  <2>1. c \in Holders(p)
    BY <1>1 DEF Holders
  <2> QED
    BY <1>2, <2>1 DEF DbInv, RefsTrue
<1>4. pools[p] \in PoolShapes /\ conn \in ConnShapes
  <2>1. pools[p] \in PoolShapes
    BY <1>2 DEF DbInv, DbShapes
  <2> QED
    BY <2>1 DEF PoolShapes
<1>5. "nobody" \notin DbChecks
  BY DbPoolAssumption
<1>6. plan[c].database \in Databases /\ "" \in Databases /\ conn.db \in Databases
  <2>1. conn.db \in Databases
    BY <1>4 DEF ConnShapes
  <2> QED
    BY <2>1, PlanShape DEF DbInv, Databases
<1>7. db \in Databases
  BY <1>6 DEF Uses, StartsIn
<1>8. v \in ConnShapes /\ v.up /\ v.by = c /\ v.db = db
  BY <1>7 DEF ConnShapes
<1>9. Engine(c) # "mysql" => db = plan[c].database
  <2> SUFFICES ASSUME Engine(c) # "mysql" PROVE db = plan[c].database
    OBVIOUS
  <2>1. db = IF conn.up THEN conn.db ELSE plan[c].database
    BY DEF Uses, StartsIn
  <2>2. conn.up => conn.db = plan[c].database
    BY <1>2 DEF DbInv, ConnsPlaced
  <2> QED
    BY <2>1, <2>2
<1>10. plan[c].database # "" => db = plan[c].database
  <2>1. CASE Engine(c) = "mysql"
    BY <2>1 DEF Uses
  <2>2. CASE Engine(c) # "mysql"
    BY <1>9, <2>2
  <2> QED
    BY <2>1, <2>2
<1>11. i \in InstShapes /\ i.conn = n /\ i.pool = p /\ i.phase = dbInst[c].phase /\ i.at = dbInst[c].at
       /\ i.read = dbInst[c].read /\ i.aborted = dbInst[c].aborted
  BY <1>0 DEF InstShapes
<1> HIDE DEF i, db
<1>12. dbInst' \in [DbChecks -> InstShapes] /\ dbInst'[c] = i /\ \A d \in DbChecks \ {c} : dbInst'[d] = dbInst[d]
  BY <1>0, <1>1, <1>11
<1>13. PlacedWith(p, v)
  <2>1. \A d \in DbChecks : v.by = d /\ plan[d].database # "" => v.db = plan[d].database
    BY <1>8, <1>10
  <2>2. ASSUME NEW d \in DbChecks, KeyOf(d) = pools[p].key, Engine(d) # "mysql" PROVE v.db = plan[d].database
    <3>1. KeyOf(d) = KeyOf(c)
      BY <1>2, <2>2
    <3>2. Engine(d) = Engine(c) /\ plan[d].database = plan[c].database
      BY <2>2, <3>1, KeyTells DEF DbInv
    <3> QED
      BY <1>8, <1>9, <2>2, <3>2
  <2> QED
    BY <2>1, <2>2 DEF PlacedWith
<1>14. LoansWith(p, n, v)
  <2> HIDE DEF v
  <2>1. \A d \in DbChecks : dbInst'[d].pool = dbInst[d].pool /\ (dbInst'[d].phase = "none" <=> dbInst[d].phase = "none")
    BY <1>11, <1>12
  <2>2. \A d \in DbChecks : v.by = d => dbInst[d].conn = 0 /\ dbInst[d].pool = p /\ dbInst[d].phase # "none"
                                        /\ v.up /\ dbInst'[d].conn = n
    BY <1>1, <1>8, <1>11, <1>12
  <2>3. \A d \in DbChecks : v.by # d => pools[p].conns[n].by # d /\ dbInst'[d].conn = dbInst[d].conn
    BY <1>1, <1>5, <1>8, <1>12
  <2>4. \A d \in DbChecks : dbInst'[d].conn # 0 => dbInst'[d].phase \in {"ping", "run"}
    BY <1>1, <1>11, <1>12 DEF DbInv, LoansTrue
  <2> QED
    BY <1>12, <2>1, <2>2, <2>3, <2>4 DEF LoansWith
<1>15. ReadSoFar'
  BY <1>1, <1>11, <1>12, ReadsKept
<1>16. AskingTrue'
  <2>1. \A d \in DbChecks : Program(d)' = Program(d)
    BY <1>1, SamePlan
  <2>2. dbInst[c].phase = "run" => dbInst[c].at <= Len(Program(c)) /\ ~dbInst[c].aborted
    BY DEF Borrow, Wanting
  <2>3. dbInst[c].at \in Nat \ {0} /\ Program(c) \in Seq(Sections)
    BY <1>0, ProgramShape DEF InstShapes, DbInv
  <2>4. dbInst[c].phase = "run" => i.at \in 1 .. Len(Program(c)) /\ ~i.aborted
    BY <1>11, <2>2, <2>3
  <2>5. \A d \in DbChecks \ {c} : dbInst'[d].phase = "run" /\ dbInst'[d].conn # 0 =>
          dbInst'[d].at \in 1 .. Len(Program(d)) /\ ~dbInst'[d].aborted
    BY <1>12 DEF DbInv, AskingTrue
  <2> QED
    BY <1>11, <1>12, <2>1, <2>4, <2>5 DEF AskingTrue
<1> HIDE DEF v, p, conn
<1> QED
  BY <1>1, <1>2, <1>3, <1>8, <1>13, <1>14, <1>15, <1>16, ConnStep

\* A check gives its connection back.
LEMMA GiveBackKeeps ==
  ASSUME DbInv, NEW c \in DbChecks, dbInst[c].conn # 0, UNCHANGED <<plan, byKey, dbResult>>,
         pools' = [pools EXCEPT ![dbInst[c].pool].conns[dbInst[c].conn].by = "nobody"],
         NEW i \in InstShapes, dbInst' = [dbInst EXCEPT ![c] = i], i.pool = dbInst[c].pool, i.conn = 0, i.phase # "none",
         ReadSoFar'
  PROVE  DbInv'
<1> DEFINE p == dbInst[c].pool
           n == dbInst[c].conn
           v == [pools[p].conns[n] EXCEPT !.by = "nobody"]
<1>0. dbInst \in [DbChecks -> InstShapes]
  BY DEF DbInv, DbShapes
<1>1. dbInst[c].phase \in {"ping", "run"} /\ n \in 1 .. DbMaxConns /\ pools[p].conns[n].by = c
  BY DEF DbInv, LoansTrue
<1>2. p \in 1 .. Len(pools) /\ pools[p].key = KeyOf(c)
  BY <1>1 DEF DbInv, PartsTrue
<1>3. pools[p].open
  <2>1. c \in Holders(p)
    BY <1>1 DEF Holders
  <2> QED
    BY <1>2, <2>1 DEF DbInv, RefsTrue
<1>4. pools[p] \in PoolShapes /\ pools[p].conns[n] \in ConnShapes
  <2>1. pools[p] \in PoolShapes
    BY <1>2 DEF DbInv, DbShapes
  <2> QED
    BY <1>1, <2>1 DEF PoolShapes
<1>5. v \in ConnShapes /\ v.by = "nobody" /\ v.up = pools[p].conns[n].up /\ v.db = pools[p].conns[n].db
  BY <1>4 DEF ConnShapes
<1>6. SetsConn(p, n, v)
  BY DEF SetsConn
<1>7. \A d \in DbChecks : v.by # d
  BY <1>5, DbPoolAssumption
<1>8. dbInst' \in [DbChecks -> InstShapes] /\ dbInst'[c] = i /\ \A d \in DbChecks \ {c} : dbInst'[d] = dbInst[d]
  BY <1>0
<1> HIDE DEF v, p, n
<1>9. PlacedWith(p, v)
  <2>1. \A d \in DbChecks : v.up /\ KeyOf(d) = pools[p].key /\ Engine(d) # "mysql" => v.db = plan[d].database
    BY <1>1, <1>2, <1>5 DEF DbInv, ConnsPlaced
  <2> QED
    BY <1>7, <2>1 DEF PlacedWith
<1>10. LoansWith(p, n, v)
  <2>1. \A d \in DbChecks : dbInst'[d].pool = dbInst[d].pool /\ (dbInst'[d].phase = "none" <=> dbInst[d].phase = "none")
    BY <1>1, <1>8
  <2>2. \A d \in DbChecks : pools[p].conns[n].by = d => dbInst'[d].conn = 0
    BY <1>1, <1>8
  <2>3. \A d \in DbChecks : pools[p].conns[n].by # d => dbInst'[d].conn = dbInst[d].conn
    BY <1>1, <1>8
  <2>4. \A d \in DbChecks : dbInst'[d].conn # 0 => dbInst'[d].phase \in {"ping", "run"}
    BY <1>8 DEF DbInv, LoansTrue
  <2> QED
    BY <1>7, <1>8, <2>1, <2>2, <2>3, <2>4 DEF LoansWith
<1>11. AskingTrue'
  BY <1>8, AskingKept
<1> QED
  BY <1>1, <1>2, <1>3, <1>5, <1>6, <1>9, <1>10, <1>11, ConnStep

LEMMA AnswerKeeps ==
  ASSUME DbInv, NEW c \in DbChecks, NEW ok \in BOOLEAN, PingAnswers(c, ok) \/ Answer(c, ok)
  PROVE  DbInv'
<1>0. dbInst[c] \in InstShapes /\ dbInst \in [DbChecks -> InstShapes]
  BY DEF DbInv, DbShapes
<1>1. CASE PingAnswers(c, ok)
  <2> DEFINE ph == IF ok THEN "idle" ELSE "refused"
             a == [dbInst[c] EXCEPT !.phase = ph]
             i == [a EXCEPT !.conn = 0]
  <2>1. /\ dbInst[c].conn # 0 /\ dbInst' = [dbInst EXCEPT ![c] = i] /\ UNCHANGED <<plan, byKey, dbResult>>
        /\ pools' = [pools EXCEPT ![dbInst[c].pool].conns[dbInst[c].conn].by = "nobody"]
    BY <1>1 DEF PingAnswers
  <2>2. ph \in {"idle", "refused"}
    OBVIOUS
  <2> HIDE DEF ph
  <2>3. a \in InstShapes /\ a.phase = ph /\ a.pool = dbInst[c].pool
    BY <1>0, <2>2 DEF InstShapes
  <2> HIDE DEF a
  <2>4. i \in InstShapes /\ i.phase = ph /\ i.pool = dbInst[c].pool /\ i.conn = 0
    BY <2>3 DEF InstShapes
  <2> HIDE DEF i
  <2>5. dbInst'[c] = i /\ \A d \in DbChecks \ {c} : dbInst'[d] = dbInst[d]
    BY <1>0, <2>1
  <2>6. ReadSoFar'
    <3>1. \A d \in DbChecks : dbInst'[d].phase = "run" => dbInst'[d] = dbInst[d]
      BY <2>2, <2>4, <2>5
    <3> QED
      BY <2>1, <3>1, ReadsKept
  <2> QED
    BY <2>1, <2>2, <2>4, <2>6, GiveBackKeeps
<1>2. CASE Answer(c, ok)
  <2> DEFINE k == ok /\ ~dbInst[c].expired
             i == After(c, k)
  <2>1. /\ dbInst[c].phase = "run" /\ dbInst[c].conn # 0 /\ dbInst' = [dbInst EXCEPT ![c] = i]
        /\ UNCHANGED <<plan, byKey, dbResult>>
        /\ pools' = [pools EXCEPT ![dbInst[c].pool].conns[dbInst[c].conn].by = "nobody"]
    BY <1>2 DEF Answer, GivesBack
  <2>2. k \in BOOLEAN
    OBVIOUS
  <2>3. dbInst[c].at \in 1 .. Len(Program(c)) /\ ~dbInst[c].aborted
    BY <2>1 DEF DbInv, AskingTrue
  <2> HIDE DEF k
  <2>4. /\ i \in InstShapes /\ i.phase = "run" /\ i.pool = dbInst[c].pool /\ i.conn = 0
        /\ i.at = dbInst[c].at + 1 /\ (i.aborted <=> ~k /\ AllOrNothing(c))
        /\ i.read = IF k THEN dbInst[c].read \cup {Program(c)[dbInst[c].at]} ELSE dbInst[c].read
    BY <2>1, <2>2, <2>3, AfterShape
  <2> HIDE DEF i
  <2>5. dbInst'[c] = i /\ \A d \in DbChecks \ {c} : dbInst'[d] = dbInst[d]
    BY <1>0, <2>1
  <2>6. ReadSoFar'
    <3>1. \A d \in DbChecks : Program(d)' = Program(d) /\ (AllOrNothing(d)' <=> AllOrNothing(d))
      BY <2>1, SamePlan
    <3> SUFFICES ASSUME NEW d \in DbChecks, AllOrNothing(d), dbInst'[d].phase = "run", ~dbInst'[d].aborted,
                        NEW n \in 1 .. Len(Program(d)), n < dbInst'[d].at
                 PROVE  Program(d)[n] \in dbInst'[d].read
      BY <3>1 DEF ReadSoFar
    <3>2. CASE d # c
      BY <2>5, <3>2 DEF DbInv, ReadSoFar
    <3>3. CASE d = c
      <4>1. k /\ i.read = dbInst[c].read \cup {Program(c)[dbInst[c].at]} /\ n < dbInst[c].at + 1
        BY <2>4, <2>5, <3>3
      <4>2. n = dbInst[c].at \/ n < dbInst[c].at
        BY <2>3, <4>1
      <4>3. n < dbInst[c].at => Program(c)[n] \in dbInst[c].read
        BY <2>1, <2>3, <3>3 DEF DbInv, ReadSoFar
      <4> QED
        BY <2>5, <3>3, <4>1, <4>2, <4>3
    <3> QED
      BY <3>2, <3>3
  <2> QED
    BY <2>1, <2>4, <2>6, GiveBackKeeps
<1> QED
  BY <1>1, <1>2

\* A connection nobody uses is closed.
LEMMA ReapKeeps ==
  ASSUME DbInv, NEW p \in 1 .. Len(pools), NEW n \in 1 .. DbMaxConns, Reap(p, n)
  PROVE  DbInv'
<1>1. pools[p].conns[n].by = "nobody" /\ SetsConn(p, n, Closed) /\ UNCHANGED <<plan, byKey, dbInst, dbResult>>
  BY DEF Reap, SetsConn
<1>2. Closed \in ConnShapes /\ Closed.by = "nobody" /\ Closed.up = FALSE
  BY DEF Closed, ConnShapes, Databases
<1>3. \A c \in DbChecks : Closed.by # c /\ pools[p].conns[n].by # c
  BY <1>1, <1>2, DbPoolAssumption
<1>4. PlacedWith(p, Closed)
  BY <1>2, <1>3 DEF PlacedWith
<1>5. LoansWith(p, n, Closed)
  BY <1>1, <1>3 DEF DbInv, DbShapes, LoansTrue, LoansWith
<1>6. ReadSoFar'
  BY <1>1, ReadsKept
<1>7. AskingTrue'
  BY <1>1, AskingKept
<1> QED
  BY <1>1, <1>2, <1>4, <1>5, <1>6, <1>7, ConnStep

\* A check comes or goes: it has no connection, and the connections in use stay.
ComesOrGoes(c) ==
  /\ dbInst' \in [DbChecks -> InstShapes] /\ dbInst[c].conn = 0 /\ dbInst'[c].conn = 0 /\ dbInst'[c].phase # "run"
  /\ \A d \in DbChecks : d # c => dbInst'[d] = dbInst[d]
ConnsStay ==
  /\ \A q \in 1 .. Len(pools'), m \in 1 .. DbMaxConns :
       pools'[q].conns[m] = Closed \/ (q \in 1 .. Len(pools) /\ pools'[q].conns[m] = pools[q].conns[m])
  /\ \A q \in 1 .. Len(pools) : pools'[q].key = pools[q].key
  /\ \A d \in DbChecks : dbInst[d].conn # 0 =>
       pools'[dbInst[d].pool].conns[dbInst[d].conn] = pools[dbInst[d].pool].conns[dbInst[d].conn]

LEMMA ConnsKept ==
  ASSUME DbInv, NEW c \in DbChecks, plan' = plan, ComesOrGoes(c), ConnsStay
  PROVE  UsersTrue' /\ UsersPlaced' /\ LoansTrue' /\ ConnsPlaced' /\ ReadSoFar' /\ AskingTrue'
<1>0. \A d \in DbChecks : Closed.by # d /\ ~Closed.up
  BY DbPoolAssumption DEF Closed
<1>1. \A d \in DbChecks : dbInst'[d].conn # 0 \/ dbInst[d].conn # 0 => dbInst'[d] = dbInst[d]
  BY DEF ComesOrGoes
<1>2. ASSUME NEW d \in DbChecks, NEW q \in 1 .. Len(pools'), NEW m \in 1 .. DbMaxConns, pools'[q].conns[m].by = d
      PROVE  q \in 1 .. Len(pools) /\ pools'[q].conns[m] = pools[q].conns[m] /\ pools[q].conns[m].by = d
  BY <1>0, <1>2 DEF ConnsStay
<1>3. UsersTrue'
  <2>1. ASSUME NEW d \in DbChecks, NEW q \in 1 .. Len(pools'), NEW m \in 1 .. DbMaxConns, pools'[q].conns[m].by = d
        PROVE  pools'[q].conns[m].up /\ dbInst'[d].pool = q /\ dbInst'[d].conn = m
    <3>1. q \in 1 .. Len(pools) /\ pools'[q].conns[m] = pools[q].conns[m] /\ pools[q].conns[m].by = d
      BY <1>2, <2>1
    <3>2. pools[q].conns[m].up /\ dbInst[d].pool = q /\ dbInst[d].conn = m
      BY <3>1 DEF DbInv, UsersTrue
    <3> QED
      BY <1>1, <3>1, <3>2
  <2> QED
    BY <2>1 DEF UsersTrue
<1>4. UsersPlaced'
  <2>1. ASSUME NEW d \in DbChecks, NEW q \in 1 .. Len(pools'), NEW m \in 1 .. DbMaxConns, pools'[q].conns[m].by = d,
               plan[d].database # ""
        PROVE  pools'[q].conns[m].db = plan[d].database
    <3>1. q \in 1 .. Len(pools) /\ pools'[q].conns[m] = pools[q].conns[m] /\ pools[q].conns[m].by = d
      BY <1>2, <2>1
    <3>2. UsersPlaced
      BY DEF DbInv
    <3>3. pools[q].conns[m].db = plan[d].database
      BY <2>1, <3>1, <3>2, Zenon DEF UsersPlaced
    <3> QED
      BY <3>1, <3>3
  <2> QED
    BY <2>1 DEF UsersPlaced
<1>5. LoansTrue'
  <2>1. ASSUME NEW d \in DbChecks, dbInst'[d].conn # 0
        PROVE  /\ dbInst'[d].phase \in {"ping", "run"} /\ dbInst'[d].conn \in 1 .. DbMaxConns
               /\ pools'[dbInst'[d].pool].conns[dbInst'[d].conn].by = d
    <3>1. dbInst'[d] = dbInst[d]
      BY <1>1, <2>1
    <3>2. /\ dbInst[d].phase \in {"ping", "run"} /\ dbInst[d].conn \in 1 .. DbMaxConns
          /\ pools[dbInst[d].pool].conns[dbInst[d].conn].by = d
      BY <2>1, <3>1 DEF DbInv, LoansTrue
    <3>3. pools'[dbInst[d].pool].conns[dbInst[d].conn] = pools[dbInst[d].pool].conns[dbInst[d].conn]
      BY <2>1, <3>1 DEF ConnsStay
    <3> QED
      BY <3>1, <3>2, <3>3
  <2> QED
    BY <2>1 DEF LoansTrue
<1>6. ConnsPlaced'
  <2>0. \A d \in DbChecks : KeyOf(d)' = KeyOf(d) /\ Engine(d)' = Engine(d)
    BY SamePlan
  <2> SUFFICES ASSUME NEW d \in DbChecks, NEW q \in 1 .. Len(pools)', NEW m \in 1 .. DbMaxConns,
                      pools'[q].conns[m].up, KeyOf(d)' = pools'[q].key, Engine(d)' # "mysql"
               PROVE  pools'[q].conns[m].db = plan'[d].database
    BY Zenon DEF ConnsPlaced
  <2>1. q \in 1 .. Len(pools) /\ pools'[q].conns[m] = pools[q].conns[m]
    BY <1>0 DEF ConnsStay
  <2>2. pools[q].conns[m].up /\ KeyOf(d) = pools[q].key /\ Engine(d) # "mysql"
    BY <2>0, <2>1 DEF ConnsStay
  <2> QED
    BY <2>1, <2>2 DEF DbInv, ConnsPlaced
<1>7. ReadSoFar'
  BY ReadsKept DEF ComesOrGoes
<1>8. AskingTrue'
  BY <1>1, AskingKept
<1> QED
  BY <1>3, <1>4, <1>5, <1>6, <1>7, <1>8

\* The rest of the invariant then is about parts, references and the table.
LEMMA PartsEnough ==
  ASSUME DbInv, NEW c \in DbChecks, UNCHANGED <<plan, dbResult>>, ComesOrGoes(c), ConnsStay,
         pools' \in Seq(PoolShapes), byKey' \in [Keys -> Nat], PartsTrue', RefsTrue', TablePoints'
  PROVE  DbInv'
<1>1. Keys' = Keys /\ Databases' = Databases
  BY SamePlan
<1>2. InstShapes' = InstShapes /\ PoolShapes' = PoolShapes
  BY <1>1 DEF InstShapes, PoolShapes, ConnShapes
<1>3. DbShapes'
  BY <1>1, <1>2 DEF DbInv, DbShapes, ComesOrGoes
<1>4. ResultsWhole'
  <2>1. \A d \in DbChecks : Engine(d)' = Engine(d) /\ Program(d)' = Program(d)
    BY SamePlan
  <2> QED
    BY <2>1 DEF DbInv, ResultsWhole
<1> QED
  BY <1>3, <1>4, ConnsKept DEF DbInv

LEMMA HoldersFinite == \A p : IsFiniteSet(Holders(p))
<1>1. ASSUME NEW p PROVE Holders(p) \in SUBSET DbChecks
  BY DEF Holders
<1> QED
  BY <1>1, DbPoolAssumption, FS_Subset

\* The factory takes a part of the pool that is there.
LEMMA OpenSharedKeeps ==
  ASSUME DbInv, NEW c \in DbChecks, OpenPool(c), byKey[KeyOf(c)] # 0
  PROVE  DbInv'
<1>a. PICK p : p = byKey[KeyOf(c)]
  OBVIOUS
<1> DEFINE k == KeyOf(c)
           i == [NoInst EXCEPT !.phase = "ping", !.pool = p]
           e == [pools[p] EXCEPT !.refs = @ + 1]
<1>0. /\ dbInst \in [DbChecks -> InstShapes] /\ pools \in Seq(PoolShapes) /\ byKey \in [Keys -> Nat] /\ k \in Keys
      /\ byKey[k] # 0
  BY PlanShape DEF DbInv, DbShapes
<1>1. /\ dbInst[c].phase = "none" /\ dbInst' = [dbInst EXCEPT ![c] = i] /\ UNCHANGED <<plan, dbResult>>
      /\ pools' = [pools EXCEPT ![p] = e] /\ byKey' = IF Shares(c) THEN [byKey EXCEPT ![k] = p] ELSE byKey
  BY <1>a DEF OpenPool
<1>2. byKey' = byKey
  BY <1>a, <1>0, <1>1
<1>3. PICK d \in DbChecks : dbInst[d].phase # "none" /\ dbInst[d].pool = p /\ KeyOf(d) = k
  BY <1>a, <1>0 DEF DbInv, TablePoints
<1>4. p \in 1 .. Len(pools) /\ pools[p].key = k
  BY <1>3 DEF DbInv, PartsTrue
<1>5. pools[p] \in PoolShapes
  BY <1>0, <1>4
<1>6. e \in PoolShapes /\ e.key = pools[p].key /\ e.refs = pools[p].refs + 1 /\ e.open = pools[p].open /\ e.conns = pools[p].conns
  BY <1>5 DEF PoolShapes
<1>7. i \in InstShapes /\ i.phase = "ping" /\ i.pool = p /\ i.conn = 0
  <2>1. p \in Nat
    BY <1>a, <1>0
  <2> QED
    BY <2>1, FreshInst
<1> HIDE DEF e, i
<1>8. pools' \in Seq(PoolShapes) /\ Len(pools') = Len(pools)
  BY <1>0, <1>1, <1>4, <1>6, ExceptSeq
<1>9. pools'[p] = e /\ \A q \in 1 .. Len(pools) : q # p => pools'[q] = pools[q]
  BY <1>0, <1>1, <1>4, <1>6
<1>10. dbInst' \in [DbChecks -> InstShapes] /\ dbInst'[c] = i /\ \A x \in DbChecks : x # c => dbInst'[x] = dbInst[x]
  BY <1>0, <1>1, <1>7
<1>11. dbInst[c].conn = 0 /\ dbInst[c].pool = 0
  BY <1>1 DEF DbInv, PartsTrue
<1>12. ComesOrGoes(c)
  BY <1>7, <1>10, <1>11 DEF ComesOrGoes
<1>13. \A q \in 1 .. Len(pools) : pools'[q].key = pools[q].key /\ pools'[q].conns = pools[q].conns
                                  /\ pools'[q].open = pools[q].open
  BY <1>6, <1>9
<1>14. ConnsStay
  <2>1. \A x \in DbChecks : dbInst[x].conn # 0 => dbInst[x].pool \in 1 .. Len(pools)
    BY DEF DbInv, LoansTrue, PartsTrue
  <2> QED
    BY <1>8, <1>13, <2>1 DEF ConnsStay
<1>15. \A x \in DbChecks : KeyOf(x)' = KeyOf(x) /\ (Shares(x)' <=> Shares(x))
  BY <1>1, SamePlan
<1>16. PartsTrue'
  <2> SUFFICES ASSUME NEW x \in DbChecks
               PROVE  /\ dbInst'[x].phase = "none" => dbInst'[x].pool = 0 /\ dbInst'[x].conn = 0
                      /\ dbInst'[x].phase # "none" => dbInst'[x].pool \in 1 .. Len(pools) /\ pools'[dbInst'[x].pool].key = KeyOf(x)
    BY <1>8, <1>15 DEF PartsTrue
  <2>1. CASE x = c
    BY <1>4, <1>7, <1>10, <1>13, <2>1
  <2>2. CASE x # c
    <3>1. dbInst'[x] = dbInst[x]
      BY <1>10, <2>2
    <3> QED
      BY <1>13, <3>1 DEF DbInv, PartsTrue
  <2> QED
    BY <2>1, <2>2
<1>17. Holders(p)' = Holders(p) \cup {c} /\ c \notin Holders(p) /\ \A q \in 1 .. Len(pools) : q # p => Holders(q)' = Holders(q)
  <2>1. c \notin Holders(p) /\ \A q : c \notin Holders(q)
    BY <1>1 DEF Holders
  <2>2. Holders(p)' = Holders(p) \cup {c}
    BY <1>7, <1>10 DEF Holders
  <2>3. ASSUME NEW q \in 1 .. Len(pools), q # p PROVE Holders(q)' = Holders(q)
    BY <1>1, <1>7, <1>10, <2>3 DEF Holders
  <2> QED
    BY <2>1, <2>2, <2>3
<1>18. RefsTrue'
  <2> SUFFICES ASSUME NEW q \in 1 .. Len(pools)
               PROVE  /\ (pools'[q].open <=> Holders(q)' # {}) /\ pools'[q].refs = Cardinality(Holders(q)')
                      /\ ~pools'[q].open => \A n \in 1 .. DbMaxConns : pools'[q].conns[n] = Closed
    BY <1>8 DEF RefsTrue
  <2>1. /\ (pools[q].open <=> Holders(q) # {}) /\ pools[q].refs = Cardinality(Holders(q))
        /\ ~pools[q].open => \A n \in 1 .. DbMaxConns : pools[q].conns[n] = Closed
    BY DEF DbInv, RefsTrue
  <2>2. CASE q = p
    <3>1. Cardinality(Holders(p)') = Cardinality(Holders(p)) + 1
      BY <1>17, HoldersFinite, FS_AddElement
    <3>2. pools[p].open
      <4>1. d \in Holders(p)
        BY <1>3 DEF Holders
      <4> QED
        BY <2>1, <2>2, <4>1
    <3>3. pools'[p].open = pools[p].open /\ pools'[p].refs = pools[p].refs + 1 /\ Holders(p)' # {}
      BY <1>6, <1>9, <1>17
    <3> QED
      BY <2>1, <2>2, <3>1, <3>2, <3>3
  <2>3. CASE q # p
    BY <1>9, <1>17, <2>1, <2>3
  <2> QED
    BY <2>2, <2>3
<1>19. TablePoints'
  <2>1. ASSUME NEW x \in DbChecks, ~Shares(x) PROVE byKey[KeyOf(x)] = 0
    BY <2>1 DEF DbInv, TablePoints
  <2>2. ASSUME NEW x \in DbChecks, Shares(x), dbInst'[x].phase # "none" PROVE byKey[KeyOf(x)] = dbInst'[x].pool
    <3>1. CASE x = c
      BY <1>a, <1>7, <1>10, <3>1
    <3>2. CASE x # c
      BY <1>10, <2>2, <3>2 DEF DbInv, TablePoints
    <3> QED
      BY <3>1, <3>2
  <2>3. ASSUME NEW j \in Keys, byKey[j] # 0
        PROVE  \E x \in DbChecks : dbInst'[x].phase # "none" /\ dbInst'[x].pool = byKey[j] /\ KeyOf(x) = j
    <3>1. PICK x \in DbChecks : dbInst[x].phase # "none" /\ dbInst[x].pool = byKey[j] /\ KeyOf(x) = j
      BY <2>3 DEF DbInv, TablePoints
    <3>2. x # c /\ dbInst'[x] = dbInst[x]
      BY <1>1, <1>10, <3>1
    <3> QED
      BY <3>1, <3>2
  <2>4. Keys' = Keys
    BY <1>1, SamePlan
  <2> QED
    BY <1>2, <1>15, <2>1, <2>2, <2>3, <2>4 DEF TablePoints
<1> QED
  BY <1>0, <1>1, <1>2, <1>8, <1>12, <1>14, <1>16, <1>18, <1>19, PartsEnough

\* The factory opens a pool: no other check with that key can have one.
LEMMA OpenNewKeeps ==
  ASSUME DbInv, NEW c \in DbChecks, OpenPool(c), byKey[KeyOf(c)] = 0
  PROVE  DbInv'
<1>a. PICK p : p = Len(pools) + 1
  OBVIOUS
<1> DEFINE k == KeyOf(c)
           i == [NoInst EXCEPT !.phase = "ping", !.pool = p]
           e == NewPool(c)
<1>0. /\ dbInst \in [DbChecks -> InstShapes] /\ pools \in Seq(PoolShapes) /\ byKey \in [Keys -> Nat] /\ k \in Keys
      /\ Len(pools) \in Nat /\ p = Len(pools) + 1 /\ byKey[k] = 0
  BY <1>a, PlanShape DEF DbInv, DbShapes
<1>1. /\ dbInst[c].phase = "none" /\ dbInst' = [dbInst EXCEPT ![c] = i] /\ UNCHANGED <<plan, dbResult>>
      /\ pools' = Append(pools, e) /\ byKey' = IF Shares(c) THEN [byKey EXCEPT ![k] = p] ELSE byKey
  BY <1>0 DEF OpenPool
<1>2. e \in PoolShapes /\ e.key = k /\ e.refs = 1 /\ e.open = TRUE /\ \A m \in 1 .. DbMaxConns : e.conns[m] = Closed
  <2>1. Closed \in ConnShapes
    BY DEF Closed, ConnShapes, Databases
  <2> DEFINE z == [n \in 1 .. DbMaxConns |-> Closed]
  <2>2. z \in [1 .. DbMaxConns -> ConnShapes] /\ \A m \in 1 .. DbMaxConns : z[m] = Closed
    BY <2>1
  <2>3. e = [key |-> k, refs |-> 1, open |-> TRUE, conns |-> z]
    BY DEF NewPool
  <2> HIDE DEF z
  <2>4. e \in PoolShapes
    BY <1>0, <2>2, <2>3 DEF PoolShapes
  <2> QED
    BY <2>2, <2>3, <2>4
<1>3. i \in InstShapes /\ i.phase = "ping" /\ i.pool = p /\ i.conn = 0
  <2>1. p \in Nat
    BY <1>0
  <2> QED
    BY <2>1, FreshInst
<1> HIDE DEF e, i
<1>4. /\ pools' \in Seq(PoolShapes) /\ Len(pools') = p /\ pools'[p] = e
      /\ \A q \in 1 .. Len(pools) : pools'[q] = pools[q]
  BY <1>0, <1>1, <1>2, AppendProperties
<1>5. dbInst' \in [DbChecks -> InstShapes] /\ dbInst'[c] = i /\ \A x \in DbChecks : x # c => dbInst'[x] = dbInst[x]
  BY <1>0, <1>1, <1>3
<1>6. dbInst[c].conn = 0 /\ dbInst[c].pool = 0
  BY <1>1 DEF DbInv, PartsTrue
<1>7. ComesOrGoes(c)
  BY <1>3, <1>5, <1>6 DEF ComesOrGoes
<1>8. \A x \in DbChecks : dbInst[x].phase # "none" => dbInst[x].pool \in 1 .. Len(pools)
  BY DEF DbInv, PartsTrue
<1>9. \A q \in 1 .. p : q = p \/ q \in 1 .. Len(pools)
  BY <1>0
<1>10. ConnsStay
  <2>1. ASSUME NEW q \in 1 .. Len(pools'), NEW m \in 1 .. DbMaxConns
        PROVE  pools'[q].conns[m] = Closed \/ (q \in 1 .. Len(pools) /\ pools'[q].conns[m] = pools[q].conns[m])
    BY <1>2, <1>4, <1>9
  <2>2. ASSUME NEW x \in DbChecks, dbInst[x].conn # 0
        PROVE  pools'[dbInst[x].pool].conns[dbInst[x].conn] = pools[dbInst[x].pool].conns[dbInst[x].conn]
    <3>1. dbInst[x].phase # "none"
      BY <2>2 DEF DbInv, LoansTrue
    <3> QED
      BY <1>4, <1>8, <3>1
  <2>3. \A q \in 1 .. Len(pools) : pools'[q].key = pools[q].key
    BY <1>4
  <2> QED
    BY <2>1, <2>2, <2>3 DEF ConnsStay
<1>11. \A x \in DbChecks : KeyOf(x)' = KeyOf(x) /\ (Shares(x)' <=> Shares(x))
  BY <1>1, SamePlan
<1>12. PartsTrue'
  <2> SUFFICES ASSUME NEW x \in DbChecks
               PROVE  /\ dbInst'[x].phase = "none" => dbInst'[x].pool = 0 /\ dbInst'[x].conn = 0
                      /\ dbInst'[x].phase # "none" => dbInst'[x].pool \in 1 .. p /\ pools'[dbInst'[x].pool].key = KeyOf(x)
    BY <1>4, <1>11 DEF PartsTrue
  <2>1. CASE x = c
    BY <1>0, <1>2, <1>3, <1>4, <1>5, <2>1
  <2>2. CASE x # c
    <3>1. dbInst'[x] = dbInst[x]
      BY <1>5, <2>2
    <3>2. dbInst[x].phase # "none" => dbInst[x].pool \in 1 .. Len(pools) /\ pools[dbInst[x].pool].key = KeyOf(x)
      BY DEF DbInv, PartsTrue
    <3>3. dbInst[x].phase = "none" => dbInst[x].pool = 0 /\ dbInst[x].conn = 0
      BY DEF DbInv, PartsTrue
    <3> QED
      BY <1>0, <1>4, <3>1, <3>2, <3>3
  <2> QED
    BY <2>1, <2>2
<1>13. Holders(p)' = {c} /\ \A q \in 1 .. Len(pools) : Holders(q)' = Holders(q)
  <2>1. \A x \in DbChecks : x # c /\ dbInst'[x].phase # "none" => dbInst'[x].pool # p
    BY <1>0, <1>5, <1>8
  <2>2. Holders(p)' = {c}
    BY <1>3, <1>5, <2>1 DEF Holders
  <2>3. ASSUME NEW q \in 1 .. Len(pools) PROVE Holders(q)' = Holders(q)
    <3>1. q # p
      BY <1>0
    <3> QED
      BY <1>1, <1>3, <1>5, <3>1 DEF Holders
  <2> QED
    BY <2>2, <2>3
<1>14. RefsTrue'
  <2> SUFFICES ASSUME NEW q \in 1 .. p
               PROVE  /\ (pools'[q].open <=> Holders(q)' # {}) /\ pools'[q].refs = Cardinality(Holders(q)')
                      /\ ~pools'[q].open => \A n \in 1 .. DbMaxConns : pools'[q].conns[n] = Closed
    BY <1>4 DEF RefsTrue
  <2>1. CASE q = p
    <3>1. Cardinality({c}) = 1
      BY FS_Singleton
    <3> QED
      BY <1>2, <1>4, <1>13, <2>1, <3>1
  <2>2. CASE q \in 1 .. Len(pools)
    <3>1. /\ (pools[q].open <=> Holders(q) # {}) /\ pools[q].refs = Cardinality(Holders(q))
          /\ ~pools[q].open => \A n \in 1 .. DbMaxConns : pools[q].conns[n] = Closed
      BY <2>2 DEF DbInv, RefsTrue
    <3> QED
      BY <1>4, <1>13, <2>2, <3>1
  <2> QED
    BY <1>9, <2>1, <2>2
<1>15. byKey' \in [Keys -> Nat] /\ (Shares(c) => byKey'[k] = p) /\ (~Shares(c) => byKey'[k] = 0)
       /\ \A j \in Keys : j # k => byKey'[j] = byKey[j]
  BY <1>0, <1>1
<1>16. TablePoints'
  <2>1. ASSUME NEW x \in DbChecks, ~Shares(x) PROVE byKey'[KeyOf(x)] = 0
    <3>0. KeyOf(x) \in Keys
      BY DEF Keys
    <3>1. byKey[KeyOf(x)] = 0
      BY <2>1 DEF DbInv, TablePoints
    <3>2. CASE KeyOf(x) = k
      <4>1. ~Shares(c)
        BY <2>1, <3>2, KeyTells DEF DbInv, Shares
      <4> QED
        BY <1>15, <3>2, <4>1
    <3>3. CASE KeyOf(x) # k
      BY <1>15, <3>0, <3>1, <3>3
    <3> QED
      BY <3>2, <3>3
  <2>2. ASSUME NEW x \in DbChecks, Shares(x), dbInst'[x].phase # "none" PROVE byKey'[KeyOf(x)] = dbInst'[x].pool
    <3>0. KeyOf(x) \in Keys
      BY DEF Keys
    <3>1. CASE x = c
      BY <1>3, <1>5, <1>15, <2>2, <3>1
    <3>2. CASE x # c
      <4>1. dbInst'[x] = dbInst[x] /\ byKey[KeyOf(x)] = dbInst[x].pool /\ dbInst[x].pool \in 1 .. Len(pools)
        BY <1>5, <1>8, <2>2, <3>2 DEF DbInv, TablePoints
      <4>2. KeyOf(x) # k
        BY <1>0, <4>1
      <4> QED
        BY <1>15, <3>0, <4>1, <4>2
    <3> QED
      BY <3>1, <3>2
  <2>3. ASSUME NEW j \in Keys, byKey'[j] # 0
        PROVE  \E x \in DbChecks : dbInst'[x].phase # "none" /\ dbInst'[x].pool = byKey'[j] /\ KeyOf(x) = j
    <3>1. CASE j = k
      <4>1. byKey'[k] = p
        BY <1>15, <2>3, <3>1
      <4> QED
        BY <1>3, <1>5, <3>1, <4>1
    <3>2. CASE j # k
      <4>1. byKey'[j] = byKey[j]
        BY <1>15, <3>2
      <4>2. PICK x \in DbChecks : dbInst[x].phase # "none" /\ dbInst[x].pool = byKey[j] /\ KeyOf(x) = j
        BY <2>3, <4>1 DEF DbInv, TablePoints
      <4>3. dbInst'[x] = dbInst[x]
        BY <1>1, <1>5, <4>2
      <4> QED
        BY <4>1, <4>2, <4>3
    <3> QED
      BY <3>1, <3>2
  <2>4. Keys' = Keys
    BY <1>1, SamePlan
  <2> QED
    BY <1>11, <2>1, <2>2, <2>3, <2>4 DEF TablePoints
<1> QED
  BY <1>1, <1>4, <1>7, <1>10, <1>12, <1>14, <1>15, <1>16, PartsEnough

\* Close of a part: the last one takes the pool, and only the last.
LEMMA CloseKeeps ==
  ASSUME DbInv, NEW c \in DbChecks, ClosePart(c), dbInst[c].phase # "none", dbInst[c].conn = 0
  PROVE  DbInv'
<1>a. PICK p : p = dbInst[c].pool
  OBVIOUS
<1> DEFINE k == KeyOf(c)
           last == pools[p].refs = 1
           none == [n \in 1 .. DbMaxConns |-> Closed]
           s == [pools[p] EXCEPT !.refs = 0, !.open = FALSE, !.conns = none]
           t == [pools[p] EXCEPT !.refs = @ - 1]
           e == IF last THEN s ELSE t
<1>0. /\ dbInst \in [DbChecks -> InstShapes] /\ pools \in Seq(PoolShapes) /\ byKey \in [Keys -> Nat] /\ k \in Keys
      /\ Len(pools) \in Nat
  BY PlanShape DEF DbInv, DbShapes
<1>1. /\ dbInst' = [dbInst EXCEPT ![c] = NoInst] /\ UNCHANGED <<plan, dbResult>>
      /\ byKey' = IF last /\ Shares(c) THEN [byKey EXCEPT ![k] = 0] ELSE byKey
  BY <1>a DEF ClosePart
<1>2. pools' = [pools EXCEPT ![p] = e]
  BY <1>a, Zenon DEF ClosePart
<1>3. p \in 1 .. Len(pools) /\ pools[p].key = k
  BY <1>a DEF DbInv, PartsTrue
<1>4. pools[p] \in PoolShapes
  BY <1>0, <1>3
<1>5. c \in Holders(p)
  BY <1>a DEF Holders
<1>6. /\ (pools[p].open <=> Holders(p) # {}) /\ pools[p].refs = Cardinality(Holders(p))
      /\ IsFiniteSet(Holders(p)) /\ Cardinality(Holders(p)) \in Nat
  BY <1>3, HoldersFinite, FS_CardinalityType DEF DbInv, RefsTrue
<1>7. IsFiniteSet(Holders(p) \ {c}) /\ Cardinality(Holders(p) \ {c}) = Cardinality(Holders(p)) - 1
  BY <1>5, <1>6, FS_RemoveElement
<1>8. last <=> Holders(p) \ {c} = {}
  <2>1. Cardinality(Holders(p) \ {c}) = 0 <=> Holders(p) \ {c} = {}
    BY <1>7, FS_EmptySet
  <2> QED
    BY <1>6, <1>7, <2>1
<1>9. pools[p].refs - 1 \in Nat
  BY <1>6, <1>7, FS_CardinalityType
<1>10. s \in PoolShapes /\ s.key = pools[p].key /\ s.refs = 0 /\ s.open = FALSE /\ s.conns = none
  <2> DEFINE a == [pools[p] EXCEPT !.refs = 0]
             b == [a EXCEPT !.open = FALSE]
             d == [b EXCEPT !.conns = none]
  <2>1. s = d
    OBVIOUS
  <2>2. none \in [1 .. DbMaxConns -> ConnShapes]
    BY DEF Closed, ConnShapes, Databases
  <2> HIDE DEF none
  <2>3. a \in PoolShapes /\ a.key = pools[p].key /\ a.refs = 0
    BY <1>4 DEF PoolShapes
  <2> HIDE DEF a
  <2>4. b \in PoolShapes /\ b.key = a.key /\ b.refs = a.refs /\ b.open = FALSE
    BY <2>3 DEF PoolShapes
  <2> HIDE DEF b
  <2>5. d \in PoolShapes /\ d.key = b.key /\ d.refs = b.refs /\ d.open = b.open /\ d.conns = none
    BY <2>2, <2>4 DEF PoolShapes
  <2> QED
    BY <2>1, <2>3, <2>4, <2>5
<1>11. t \in PoolShapes /\ t.key = pools[p].key /\ t.refs = pools[p].refs - 1 /\ t.open = pools[p].open /\ t.conns = pools[p].conns
  BY <1>4, <1>9 DEF PoolShapes
<1>12. \A m \in 1 .. DbMaxConns : none[m] = Closed
  OBVIOUS
<1>13. e \in PoolShapes /\ (last => e = s) /\ (~last => e = t)
  BY <1>10, <1>11
<1> HIDE DEF s, t, none, e
<1>14. pools' \in Seq(PoolShapes) /\ Len(pools') = Len(pools)
  BY <1>0, <1>2, <1>3, <1>13, ExceptSeq
<1>15. pools'[p] = e /\ \A q \in 1 .. Len(pools) : q # p => pools'[q] = pools[q]
  BY <1>0, <1>2, <1>3, <1>13
<1>16. NoInst \in InstShapes /\ NoInst.phase = "none" /\ NoInst.pool = 0 /\ NoInst.conn = 0
  BY DEF NoInst, InstShapes
<1>17. dbInst' \in [DbChecks -> InstShapes] /\ dbInst'[c] = NoInst /\ \A x \in DbChecks : x # c => dbInst'[x] = dbInst[x]
  BY <1>0, <1>1, <1>16
<1>18. ComesOrGoes(c)
  BY <1>16, <1>17 DEF ComesOrGoes
<1> HIDE DEF last
<1>19. \A q \in 1 .. Len(pools) : pools'[q].key = pools[q].key
  BY <1>10, <1>11, <1>13, <1>15
<1>20. ConnsStay
  <2>1. ASSUME NEW q \in 1 .. Len(pools), NEW m \in 1 .. DbMaxConns
        PROVE  pools'[q].conns[m] = Closed \/ pools'[q].conns[m] = pools[q].conns[m]
    BY <1>10, <1>11, <1>12, <1>13, <1>15
  <2>2. ASSUME NEW x \in DbChecks, dbInst[x].conn # 0
        PROVE  pools'[dbInst[x].pool].conns[dbInst[x].conn] = pools[dbInst[x].pool].conns[dbInst[x].conn]
    <3>1. dbInst[x].phase # "none" /\ x # c
      BY <2>2 DEF DbInv, LoansTrue
    <3>2. dbInst[x].pool \in 1 .. Len(pools)
      BY <3>1 DEF DbInv, PartsTrue
    <3>3. CASE dbInst[x].pool = p
      <4>1. x \in Holders(p) \ {c}
        BY <3>1, <3>3 DEF Holders
      <4>2. pools'[p].conns = pools[p].conns
        BY <1>8, <1>11, <1>13, <1>15, <4>1
      <4> QED
        BY <3>3, <4>2
    <3>4. CASE dbInst[x].pool # p
      BY <1>15, <3>2, <3>4
    <3> QED
      BY <3>3, <3>4
  <2> QED
    BY <1>14, <1>19, <2>1, <2>2 DEF ConnsStay
<1>21. \A x \in DbChecks : KeyOf(x)' = KeyOf(x) /\ (Shares(x)' <=> Shares(x))
  BY <1>1, SamePlan
<1>22. PartsTrue'
  <2> SUFFICES ASSUME NEW x \in DbChecks
               PROVE  /\ dbInst'[x].phase = "none" => dbInst'[x].pool = 0 /\ dbInst'[x].conn = 0
                      /\ dbInst'[x].phase # "none" => dbInst'[x].pool \in 1 .. Len(pools) /\ pools'[dbInst'[x].pool].key = KeyOf(x)
    BY <1>14, <1>21 DEF PartsTrue
  <2>1. CASE x = c
    BY <1>16, <1>17, <2>1
  <2>2. CASE x # c
    <3>1. dbInst'[x] = dbInst[x]
      BY <1>17, <2>2
    <3> QED
      BY <1>19, <3>1 DEF DbInv, PartsTrue
  <2> QED
    BY <2>1, <2>2
<1>23. Holders(p)' = Holders(p) \ {c} /\ \A q \in 1 .. Len(pools) : q # p => Holders(q)' = Holders(q)
  <2>1. Holders(p)' = Holders(p) \ {c}
    BY <1>16, <1>17 DEF Holders
  <2>2. ASSUME NEW q \in 1 .. Len(pools), q # p PROVE Holders(q)' = Holders(q)
    BY <1>a, <1>16, <1>17, <2>2 DEF Holders
  <2> QED
    BY <2>1, <2>2
<1>24. RefsTrue'
  <2> SUFFICES ASSUME NEW q \in 1 .. Len(pools)
               PROVE  /\ (pools'[q].open <=> Holders(q)' # {}) /\ pools'[q].refs = Cardinality(Holders(q)')
                      /\ ~pools'[q].open => \A n \in 1 .. DbMaxConns : pools'[q].conns[n] = Closed
    BY <1>14 DEF RefsTrue
  <2>1. CASE q = p /\ last
    <3>1. Holders(p)' = {} /\ Cardinality({}) = 0
      BY <1>8, <1>23, <2>1, FS_EmptySet
    <3>2. pools'[p].open = FALSE /\ pools'[p].refs = 0 /\ pools'[p].conns = none
      BY <1>10, <1>13, <1>15, <2>1
    <3> QED
      BY <1>12, <2>1, <3>1, <3>2
  <2>2. CASE q = p /\ ~last
    <3>1. Holders(p)' # {} /\ Cardinality(Holders(p)') = pools[p].refs - 1
      BY <1>6, <1>7, <1>8, <1>23, <2>2
    <3>2. pools'[p].open = pools[p].open /\ pools'[p].refs = pools[p].refs - 1
      BY <1>11, <1>13, <1>15, <2>2
    <3>3. pools[p].open
      BY <1>5, <1>6
    <3> QED
      BY <2>2, <3>1, <3>2, <3>3
  <2>3. CASE q # p
    <3>1. /\ (pools[q].open <=> Holders(q) # {}) /\ pools[q].refs = Cardinality(Holders(q))
          /\ ~pools[q].open => \A n \in 1 .. DbMaxConns : pools[q].conns[n] = Closed
      BY DEF DbInv, RefsTrue
    <3> QED
      BY <1>15, <1>23, <2>3, <3>1
  <2> QED
    BY <2>1, <2>2, <2>3
<1>25. byKey' \in [Keys -> Nat] /\ (last /\ Shares(c) => byKey'[k] = 0) /\ (~(last /\ Shares(c)) => byKey' = byKey)
       /\ \A j \in Keys : j # k => byKey'[j] = byKey[j]
  BY <1>0, <1>1
<1>26. TablePoints'
  <2>1. ASSUME NEW x \in DbChecks, ~Shares(x) PROVE byKey'[KeyOf(x)] = 0
    <3>0. KeyOf(x) \in Keys
      BY DEF Keys
    <3>1. byKey[KeyOf(x)] = 0
      BY <2>1 DEF DbInv, TablePoints
    <3> QED
      BY <1>25, <3>0, <3>1
  <2>2. ASSUME NEW x \in DbChecks, Shares(x), dbInst'[x].phase # "none" PROVE byKey'[KeyOf(x)] = dbInst'[x].pool
    <3>0. KeyOf(x) \in Keys
      BY DEF Keys
    <3>1. x # c /\ dbInst'[x] = dbInst[x]
      BY <1>16, <1>17, <2>2
    <3>2. byKey[KeyOf(x)] = dbInst[x].pool
      BY <2>2, <3>1 DEF DbInv, TablePoints
    <3>3. CASE last /\ Shares(c) /\ KeyOf(x) = k
      <4>1. byKey[k] = p
        BY <1>a, <3>3 DEF DbInv, TablePoints
      <4>2. x \in Holders(p) \ {c}
        BY <2>2, <3>1, <3>2, <3>3, <4>1 DEF Holders
      <4> QED
        BY <1>8, <3>3, <4>2
    <3>4. CASE ~(last /\ Shares(c) /\ KeyOf(x) = k)
      BY <1>25, <3>0, <3>1, <3>2, <3>4
    <3> QED
      BY <3>3, <3>4
  <2>3. ASSUME NEW j \in Keys, byKey'[j] # 0
        PROVE  \E x \in DbChecks : dbInst'[x].phase # "none" /\ dbInst'[x].pool = byKey'[j] /\ KeyOf(x) = j
    <3>1. byKey'[j] = byKey[j] /\ (j = k => ~(last /\ Shares(c)))
      BY <1>25, <2>3
    <3>2. PICK x \in DbChecks : dbInst[x].phase # "none" /\ dbInst[x].pool = byKey[j] /\ KeyOf(x) = j
      BY <2>3, <3>1 DEF DbInv, TablePoints
    <3>3. CASE x # c
      <4>1. dbInst'[x] = dbInst[x]
        BY <1>17, <3>3
      <4> QED
        BY <3>1, <3>2, <4>1
    <3>4. CASE x = c
      <4>1. j = k /\ byKey[j] = p
        BY <1>a, <3>2, <3>4
      <4>2. Shares(c)
        BY <2>3, <3>1, <4>1 DEF DbInv, TablePoints
      <4>3. ~last
        BY <3>1, <4>1, <4>2
      <4>4. PICK y : y \in Holders(p) \ {c}
        BY <1>8, <4>3
      <4>5. y \in DbChecks /\ y # c /\ dbInst[y].phase # "none" /\ dbInst[y].pool = p
        BY <4>4 DEF Holders
      <4>6. KeyOf(y) = k
        BY <1>3, <4>5 DEF DbInv, PartsTrue
      <4>7. dbInst'[y] = dbInst[y]
        BY <1>17, <4>5
      <4> QED
        BY <3>1, <4>1, <4>5, <4>6, <4>7
    <3> QED
      BY <3>3, <3>4
  <2>4. Keys' = Keys
    BY <1>1, SamePlan
  <2> QED
    BY <1>21, <2>1, <2>2, <2>3, <2>4 DEF TablePoints
<1> QED
  BY <1>1, <1>14, <1>18, <1>20, <1>22, <1>24, <1>25, <1>26, PartsEnough

LEMMA DbNextInv == DbInv /\ [DbPoolNext]_dbPoolVars => DbInv'
<1> SUFFICES ASSUME DbInv, [DbPoolNext]_dbPoolVars PROVE DbInv'
  OBVIOUS
<1>1. ASSUME NEW c \in DbChecks, OpenPool(c) PROVE DbInv'
  BY <1>1, OpenSharedKeeps, OpenNewKeeps
<1>2. ASSUME NEW c \in DbChecks, PingFails(c) \/ StopCheck(c) PROVE DbInv'
  <2>1. ClosePart(c) /\ dbInst[c].phase \in {"ping", "refused", "idle"} /\ (dbInst[c].phase # "idle" => dbInst[c].conn = 0)
    BY <1>2 DEF PingFails, StopCheck
  <2>2. dbInst[c].conn = 0
    BY <2>1 DEF DbInv, LoansTrue
  <2> QED
    BY <2>1, <2>2, CloseKeeps
<1>3. ASSUME NEW c \in DbChecks, BeginRun(c) \/ NoConnection(c) \/ Expire(c) PROVE DbInv'
  BY <1>3, RunSteps
<1>4. ASSUME NEW c \in DbChecks, EndRun(c) PROVE DbInv'
  BY <1>4, EndRunKeeps
<1>5. ASSUME NEW c \in DbChecks, NEW ok \in BOOLEAN, PingAnswers(c, ok) \/ Answer(c, ok) PROVE DbInv'
  BY <1>5, AnswerKeeps
<1>6. ASSUME NEW c \in DbChecks, NEW n \in 1 .. DbMaxConns, Borrow(c, n) PROVE DbInv'
  BY <1>6, BorrowKeeps
<1>7. ASSUME NEW p \in DOMAIN pools, NEW n \in 1 .. DbMaxConns, Reap(p, n) PROVE DbInv'
  <2>1. DOMAIN pools = 1 .. Len(pools)
    BY DEF DbInv, DbShapes
  <2> QED
    BY <1>7, <2>1, ReapKeeps
<1>8. CASE UNCHANGED dbPoolVars
  <2>0. UNCHANGED <<plan, pools, byKey, dbInst, dbResult>>
    BY <1>8 DEF dbPoolVars
  <2>1. DbShapes' /\ UsersTrue' /\ UsersPlaced' /\ LoansTrue'
    <3>1. Keys' = Keys /\ Databases' = Databases
      BY <2>0, SamePlan
    <3>2. InstShapes' = InstShapes /\ PoolShapes' = PoolShapes
      BY <3>1 DEF InstShapes, PoolShapes, ConnShapes
    <3>3. DbShapes'
      BY <2>0, <3>1, <3>2 DEF DbInv, DbShapes
    <3>4. UsersTrue'
      BY <2>0 DEF DbInv, UsersTrue
    <3>5. UsersPlaced'
      BY <2>0 DEF DbInv, UsersPlaced
    <3>6. LoansTrue'
      BY <2>0 DEF DbInv, LoansTrue
    <3> QED
      BY <3>3, <3>4, <3>5, <3>6
  <2>2. PartsTrue' /\ RefsTrue' /\ TablePoints'
    <3>1. PartsSame
      BY <2>0 DEF PartsSame
    <3>2. \A c \in DbChecks : dbInst[c].phase = "none" => dbInst'[c].conn = 0
      BY <2>0 DEF DbInv, PartsTrue
    <3>3. \A p \in 1 .. Len(pools) : ~pools[p].open => \A n \in 1 .. DbMaxConns : pools'[p].conns[n] = Closed
      BY <2>0 DEF DbInv, RefsTrue
    <3> QED
      BY <3>1, <3>2, <3>3, PartsKept
  <2>3. ConnsPlaced'
    BY <2>0, SamePlan DEF DbInv, ConnsPlaced
  <2>4. ReadSoFar' /\ AskingTrue'
    BY <2>0, ReadsKept, AskingKept
  <2>5. ResultsWhole'
    BY <2>0, SamePlan DEF DbInv, ResultsWhole
  <2> QED
    BY <2>1, <2>2, <2>3, <2>4, <2>5 DEF DbInv
<1> QED
  BY <1>1, <1>2, <1>3, <1>4, <1>5, <1>6, <1>7, <1>8 DEF DbPoolNext

\* mysql_pool.go, postgres_pool.go and the Run of the database checks: for any checks,
\* deployments and limits, in whatever order checks start, stop, fail, borrow and expire,
\* no pool is closed under a check that lives or stays open for nobody, a borrowed
\* connection is in the database of its check and of no other's, the limit holds per
\* server, and a half-read catalog is never delivered.
THEOREM PoolsAlwaysShared == DbPoolSpec => []PoolsShared
  BY PoolsSharedOf, DbInitInv, DbNextInv, PTL DEF DbPoolSpec

-----------------------------------------------------------------------------
(* The kubelet check *)

\* The ghost readings are those of containers of some life.
TruthOf == [container : Containers, life : 0 .. MaxLives, value : 0 .. MaxUse, time : 1 .. MaxKubeTime]

\* The samples kept are the true readings of the last run that succeeded, each under its
\* container and its life.
SamplesTrue ==
  containerCPU = {[key |-> <<s.container, s.life>>, value |-> s.value, time |-> s.time] : s \in truth}

KubeletShapes ==
  /\ counter \in [Containers -> 0 .. MaxUse] /\ life \in [Containers -> 0 .. MaxLives]
  /\ kubeTime \in 1 .. MaxKubeTime /\ truth \subseteq TruthOf

KubeletInv == KubeletShapes /\ SamplesTrue

LEMMA KubeletStepInv == ASSUME KubeletSized, KubeletInv, [KubeletNext]_kubeletVars PROVE KubeletInv'
<1>1. ASSUME NEW c \in Containers, StartContainer(c) \/ Consume(c) PROVE KubeletInv'
  <2>1. UNCHANGED <<kubeTime, containerCPU, truth>>
    BY <1>1 DEF StartContainer, Consume
  <2>2. counter' \in [Containers -> 0 .. MaxUse] /\ life' \in [Containers -> 0 .. MaxLives]
    BY <1>1 DEF StartContainer, Consume, KubeletInv, KubeletShapes, KubeletSized
  <2> QED
    BY <2>1, <2>2 DEF KubeletInv, KubeletShapes, SamplesTrue
<1>2. CASE KubeTick
  BY <1>2 DEF KubeTick, KubeletInv, KubeletShapes, SamplesTrue, KubeletSized
<1>3. CASE SummaryFails \/ UNCHANGED kubeletVars
  BY <1>3 DEF SummaryFails, kubeletVars, KubeletInv, KubeletShapes, SamplesTrue
<1>4. ASSUME NEW shown \in SUBSET Containers, NEW answer, RunKubelet(shown, answer) PROVE KubeletInv'
  <2> DEFINE T(c) == [container |-> c, life |-> life[c], value |-> counter[c], time |-> kubeTime]
  <2>1. /\ containerCPU' = {Sample(c) : c \in shown} /\ truth' = {T(c) : c \in shown}
        /\ UNCHANGED <<counter, life, kubeTime>>
    BY <1>4 DEF RunKubelet
  <2>2. ASSUME NEW c \in shown
        PROVE  /\ T(c) \in TruthOf
               /\ Sample(c) = [key |-> <<T(c).container, T(c).life>>, value |-> T(c).value, time |-> T(c).time]
    BY DEF TruthOf, KubeletInv, KubeletShapes, Sample, CpuKey
  <2> HIDE DEF T
  <2>3. SamplesTrue'
    BY <2>1, <2>2 DEF SamplesTrue
  <2> QED
    BY <2>1, <2>2, <2>3 DEF KubeletInv, KubeletShapes
<1> QED
  BY <1>1, <1>2, <1>3, <1>4 DEF KubeletNext

\* The inductive invariant holds in every run of the check.
THEOREM KubeletInvariant == KubeletSpec => []KubeletInv
<1> USE KubeletAssumption
<1>1. KubeletInit => KubeletInv
  BY DEF KubeletInit, KubeletInv, KubeletShapes, SamplesTrue, KubeletSized
<1>2. KubeletInv /\ [KubeletNext]_kubeletVars => KubeletInv'
  BY KubeletStepInv
<1> QED
  BY <1>1, <1>2, PTL DEF KubeletSpec

\* Every CPU rate the check reports is what one life of the container used between two
\* readings, over the very time between them, for any containers, restarts, failed runs
\* and readings; and an endpoint counts as covered exactly when its series are sent.
THEOREM RatesOfOneLife == KubeletSpec => KubeletReport
<1> USE KubeletAssumption
<1> DEFINE Report ==
      (truth' # truth \/ kubeOut' # kubeOut) =>
        /\ \A r \in kubeOut'.rates :
             \E s \in truth : /\ s.container = r.container /\ s.life = life[r.container]
                              /\ r.used = counter[r.container] - s.value
                              /\ r.elapsed = kubeTime - s.time
        /\ kubeOut'.series = kubeOut'.up
<1>1. KubeletInv /\ [KubeletNext]_kubeletVars => [Report]_kubeletVars
  <2> SUFFICES ASSUME KubeletInv, KubeletNext, truth' # truth \/ kubeOut' # kubeOut PROVE Report
    BY DEF kubeletVars
  <2>1. CASE SummaryFails
    BY <2>1 DEF SummaryFails
  <2>2. ASSUME NEW shown \in SUBSET Containers, NEW answer, RunKubelet(shown, answer) PROVE Report
    <3>1. kubeOut' = [rates |-> Rates(shown), up |-> Coverage(answer), series |-> SeriesOf(answer)]
      BY <2>2 DEF RunKubelet
    <3>2. kubeOut'.series = kubeOut'.up /\ kubeOut'.rates = Rates(shown)
      BY <3>1 DEF SeriesOf, Coverage
    <3>3. ASSUME NEW r \in Rates(shown)
          PROVE  \E s \in truth : /\ s.container = r.container /\ s.life = life[r.container]
                                  /\ r.used = counter[r.container] - s.value
                                  /\ r.elapsed = kubeTime - s.time
      <4>0. PICK c \in shown :
              \E q \in CPURate({s \in containerCPU : s.key = CpuKey(c)}, Sample(c)) :
                r = [container |-> c, used |-> q.used, elapsed |-> q.elapsed]
        BY <3>3 DEF Rates
      <4>1. PICK q \in CPURate({s \in containerCPU : s.key = CpuKey(c)}, Sample(c)) :
              r = [container |-> c, used |-> q.used, elapsed |-> q.elapsed]
        BY <4>0
      <4>2. PICK p \in containerCPU : /\ p.key = CpuKey(c) /\ q.used = Sample(c).value - p.value
                                      /\ q.elapsed = Sample(c).time - p.time
        BY <4>1 DEF CPURate
      <4>3. PICK s \in truth : p = [key |-> <<s.container, s.life>>, value |-> s.value, time |-> s.time]
        BY DEF KubeletInv, SamplesTrue
      <4>4. s.container = c /\ s.life = life[c]
        BY <4>2, <4>3 DEF CpuKey
      <4>5. r.container = c /\ r.used = counter[c] - s.value /\ r.elapsed = kubeTime - s.time
        BY <4>1, <4>2, <4>3 DEF Sample
      <4> QED
        BY <4>4, <4>5
    <3> QED
      BY <3>2, <3>3
  <2>3. SummaryFails \/ \E shown \in SUBSET Containers, answer \in [Endpoints -> {"ok", "down", "torn"}] :
                          RunKubelet(shown, answer)
    BY DEF KubeletNext, StartContainer, Consume, KubeTick
  <2> QED
    BY <2>1, <2>2, <2>3
<1> QED
  BY <1>1, KubeletInvariant, PTL DEF KubeletSpec, KubeletReport

-----------------------------------------------------------------------------
(* Windows of the statement checks *)

\* Calls of a row that no window has claimed yet, for a base that was read.
Unclaimed(q, base) == \A s \in Statements : QueryOf[s] = q =>
  pushed[q] + window[q] + Delta(calls[s], base) <= ran[q]

\* The counters that were read are claims: a query that was never read claims nothing;
\* what the row of a query still in the reading adds, and what the counter adds to it,
\* has run since.
QueryInv ==
  /\ engine \in QueryEngines /\ calls \in [Statements -> Nat]
  /\ previous \in [Queries -> Nat \cup {None}]
  /\ ran \in [Queries -> Nat] /\ window \in [Queries -> Nat] /\ pushed \in [Queries -> Nat]
  /\ \A r \in rows : r.query \in Queries /\ r.calls \in Nat
  /\ \A r, u \in rows : r.query = u.query => r = u
  /\ \A q \in Queries : previous[q] = None => pushed[q] = 0 /\ window[q] = 0
  /\ \A q \in Queries : previous[q] # None => Unclaimed(q, previous[q])
  /\ \A r \in rows, s \in Statements : QueryOf[s] = r.query =>
       pushed[r.query] + window[r.query] + Delta(r.calls, previous[r.query]) + Delta(calls[s], r.calls) <= ran[r.query]

\* The sum over one plan is its counter.
LEMMA SumOfOne ==
  ASSUME NEW s, calls[s] \in Nat
  PROVE  MapThenSumSet(LAMBDA t : calls[t], {s}) = calls[s]
<1> DEFINE Pick(S) == CHOOSE x \in S : TRUE
<1> DEFINE Body(f) == [S \in SUBSET {s} |-> IF S = {} THEN 0 ELSE calls[Pick(S)] + f[S \ {Pick(S)}]]
<1> DEFINE iter == CHOOSE f : f = Body(f)
<1> DEFINE sum == [S \in SUBSET {s} |-> IF S = {} THEN 0 ELSE calls[s]]
<1>1. MapThenSumSet(LAMBDA t : calls[t], {s}) = iter[{s}]
  BY Zenon DEF MapThenSumSet, MapThenFoldSet
<1>2. \A S \in SUBSET {s} : S = {} \/ S = {s}
  OBVIOUS
<1>3. Pick({s}) = s
  OBVIOUS
<1> HIDE DEF Pick
<1>4. ASSUME NEW S \in SUBSET {s} PROVE Body(sum)[S] = sum[S]
  <2>1. CASE S = {}
    BY <2>1
  <2>2. CASE S = {s}
    BY <2>2, <1>3
  <2> QED
    BY <1>2, <2>1, <2>2
<1>5. sum = Body(sum)
  BY <1>4
<1> HIDE DEF sum
<1>6. \E f : f = Body(f)
  BY <1>5
<1>7. iter = Body(iter)
  <2> HIDE DEF Body
  <2> QED
    BY <1>6, Zenon
<1> HIDE DEF iter
<1>8. iter[{}] = 0 /\ iter[{s}] = calls[s] + iter[{s} \ {s}]
  <2>1. Body(iter)[{}] = 0
    OBVIOUS
  <2>2. Body(iter)[{s}] = calls[s] + iter[{s} \ {s}]
    BY <1>3
  <2> QED
    BY <1>7, <2>1, <2>2, Zenon
<1>9. {s} \ {s} = {}
  OBVIOUS
<1> QED
  BY <1>1, <1>8, <1>9

\* A difference is a number of calls, is nothing after an eviction and grows by at most one.
LEMMA DeltaFacts ==
  ASSUME NEW c \in Nat, NEW p \in Nat \cup {None}
  PROVE  /\ Delta(c, p) \in Nat /\ Delta(0, p) = 0 /\ Delta(c, c) = 0
         /\ Delta(c + 1, p) <= Delta(c, p) + 1
BY DEF Delta, None

\* A reading has one row per query, with the counter of its statement.
LEMMA ReadingTrue ==
  ASSUME OnePlan, QueryInv, NEW top \in SUBSET Statements,
         rows' = EachRow(top) \/ rows' = Summed(top)
  PROVE  /\ \A r \in rows' : \E s \in top : r.query = QueryOf[s] /\ r.calls = calls[s]
         /\ \A r, u \in rows' : r.query = u.query => r = u
<1>0. \A s \in Statements : calls[s] \in Nat
  BY DEF QueryInv
<1>1. CASE rows' = EachRow(top)
  BY <1>1 DEF EachRow, OnePlan
<1>2. CASE rows' = Summed(top)
  <2>1. ASSUME NEW s \in top
        PROVE  MapThenSumSet(LAMBDA t : calls[t], {t \in top : QueryOf[t] = QueryOf[s]}) = calls[s]
    <3>1. {t \in top : QueryOf[t] = QueryOf[s]} = {s}
      BY DEF OnePlan
    <3> QED
      BY <1>0, <3>1, SumOfOne
  <2>2. \A r \in rows' : \E s \in top : r.query = QueryOf[s] /\ r.calls = calls[s]
    <3> SUFFICES ASSUME NEW r \in rows' PROVE \E s \in top : r.query = QueryOf[s] /\ r.calls = calls[s]
      OBVIOUS
    <3>1. PICK q \in {QueryOf[s] : s \in top} :
            r = [row |-> q, query |-> q, calls |-> MapThenSumSet(LAMBDA s : calls[s], {s \in top : QueryOf[s] = q})]
      BY <1>2 DEF Summed
    <3>2. PICK s \in top : q = QueryOf[s]
      OBVIOUS
    <3>3. r.query = q /\ r.calls = MapThenSumSet(LAMBDA t : calls[t], {t \in top : QueryOf[t] = q})
      BY <3>1
    <3> QED
      BY <2>1, <3>2, <3>3
  <2>3. \A r, u \in rows' : r.query = u.query => r = u
    <3> DEFINE row(q) == [row |-> q, query |-> q, calls |-> MapThenSumSet(LAMBDA s : calls[s], {s \in top : QueryOf[s] = q})]
    <3>1. \A r \in rows' : \E q : r = row(q)
      BY <1>2 DEF Summed
    <3>2. \A q : row(q).query = q
      OBVIOUS
    <3> HIDE DEF row
    <3> QED
      BY <3>1, <3>2
  <2> QED
    BY <2>2, <2>3
<1> QED
  BY <1>1, <1>2

LEMMA QueryInitInv == QueryInit => QueryInv
BY QueryAssumption DEF QueryInit, QueryInv, Unclaimed, Queries, None

LEMMA QueryServerKeeps == ASSUME OnePlan, QueryInv, QueryServer PROVE QueryInv'
<1>1. PICK top \in SUBSET Statements : rows' = EachRow(top) \/ rows' = Summed(top)
  BY DEF QueryServer, kSubset, ReadPostgres, ReadMySQL, ReadMSSQL, ReadOracle
<1>2. /\ \A r \in rows' : \E s \in top : r.query = QueryOf[s] /\ r.calls = calls[s]
      /\ \A r, u \in rows' : r.query = u.query => r = u
  BY <1>1, ReadingTrue
<1>3. UNCHANGED <<engine, calls, ran, previous, window, pushed>> /\ window = [q \in Queries |-> 0]
  BY DEF QueryServer
<1>4. \A r \in rows' : r.query \in Queries /\ r.calls \in Nat
  BY <1>2 DEF QueryInv, Queries
<1>5. ASSUME NEW r \in rows', NEW s \in Statements, QueryOf[s] = r.query
      PROVE  pushed[r.query] + window[r.query] + Delta(r.calls, previous[r.query]) + Delta(calls[s], r.calls) <= ran[r.query]
  <2>1. PICK t \in top : r.query = QueryOf[t] /\ r.calls = calls[t]
    BY <1>2
  <2>2. r.calls = calls[s] /\ r.query \in Queries /\ calls[s] \in Nat
    BY <1>5, <2>1 DEF OnePlan, QueryInv, Queries
  <2>3. Delta(calls[s], r.calls) = 0
    BY <2>2, DeltaFacts
  <2>4. CASE previous[r.query] = None
    <3>1. Delta(r.calls, previous[r.query]) = 0
      BY <2>4 DEF Delta
    <3> QED
      BY <2>2, <2>3, <2>4, <3>1 DEF QueryInv
  <2>5. CASE previous[r.query] # None
    <3>1. pushed[r.query] + window[r.query] + Delta(calls[s], previous[r.query]) <= ran[r.query]
      BY <1>5, <2>2, <2>5 DEF QueryInv, Unclaimed
    <3>2. Delta(calls[s], previous[r.query]) \in Nat /\ pushed[r.query] \in Nat /\ window[r.query] \in Nat /\ ran[r.query] \in Nat
      BY <2>2, DeltaFacts DEF QueryInv
    <3> QED
      BY <2>2, <2>3, <3>1, <3>2
  <2> QED
    BY <2>4, <2>5
<1> QED
  BY <1>2, <1>3, <1>4, <1>5 DEF QueryInv, Unclaimed

LEMMA ProcessRowKeeps == ASSUME QueryInv, NEW r \in rows, ProcessRow(r) PROVE QueryInv'
<1> DEFINE q0 == r.query
<1>1. q0 \in Queries /\ r.calls \in Nat /\ r.calls # None /\ previous[q0] \in Nat \cup {None}
  BY DEF QueryInv, None
<1>2. Delta(r.calls, previous[q0]) \in Nat
  BY <1>1, DeltaFacts
<1>3. /\ previous' = [previous EXCEPT ![q0] = r.calls]
      /\ window' = [window EXCEPT ![q0] = @ + Delta(r.calls, previous[q0])]
      /\ rows' = rows \ {r} /\ UNCHANGED <<engine, calls, ran, pushed>>
  BY DEF ProcessRow
<1>4. \A u \in rows' : u \in rows /\ u.query # q0
  BY <1>3 DEF QueryInv
<1>5. previous' \in [Queries -> Nat \cup {None}] /\ window' \in [Queries -> Nat]
  BY <1>1, <1>2, <1>3 DEF QueryInv
<1>6. ASSUME NEW q \in Queries, previous'[q] = None PROVE pushed[q] = 0 /\ window'[q] = 0
  BY <1>1, <1>3, <1>6 DEF QueryInv
<1>7. ASSUME NEW q \in Queries, previous'[q] # None, NEW s \in Statements, QueryOf[s] = q
      PROVE  pushed[q] + window'[q] + Delta(calls[s], previous'[q]) <= ran[q]
  <2>1. CASE q = q0
    <3>1. previous'[q] = r.calls /\ window'[q] = window[q] + Delta(r.calls, previous[q])
      BY <1>1, <1>3, <2>1 DEF QueryInv
    <3>2. pushed[q] + window[q] + Delta(r.calls, previous[q]) + Delta(calls[s], r.calls) <= ran[q]
      BY <1>7, <2>1 DEF QueryInv
    <3>3. pushed[q] \in Nat /\ window[q] \in Nat /\ calls[s] \in Nat
      BY <1>7 DEF QueryInv
    <3> QED
      BY <1>2, <2>1, <3>1, <3>2, <3>3
  <2>2. CASE q # q0
    BY <1>3, <1>7, <2>2 DEF QueryInv, Unclaimed
  <2> QED
    BY <2>1, <2>2
<1>8. \A u \in rows', s \in Statements : QueryOf[s] = u.query =>
        pushed[u.query] + window'[u.query] + Delta(u.calls, previous'[u.query]) + Delta(calls[s], u.calls) <= ran[u.query]
  <2>1. \A u \in rows' : u.query \in Queries /\ previous'[u.query] = previous[u.query] /\ window'[u.query] = window[u.query]
    BY <1>3, <1>4 DEF QueryInv
  <2> QED
    BY <1>4, <2>1 DEF QueryInv
<1> QED
  BY <1>3, <1>4, <1>5, <1>6, <1>7, <1>8 DEF QueryInv, Unclaimed

\* An empty window claims less, whether or not what it held was pushed.
LEMMA WindowEmptied ==
  ASSUME QueryInv, rows' = {}, window' = [q \in Queries |-> 0], UNCHANGED <<engine, calls, ran, previous>>,
         UNCHANGED pushed \/ pushed' = [q \in Queries |-> pushed[q] + window[q]]
  PROVE  QueryInv'
<1>1. pushed' \in [Queries -> Nat] /\ window' \in [Queries -> Nat]
      /\ \A q \in Queries : window'[q] = 0 /\ pushed'[q] <= pushed[q] + window[q]
  BY DEF QueryInv
<1>2. ASSUME NEW q \in Queries, previous[q] = None PROVE pushed'[q] = 0
  BY <1>1, <1>2 DEF QueryInv
<1>3. ASSUME NEW q \in Queries, previous[q] # None, NEW s \in Statements, QueryOf[s] = q
      PROVE  pushed'[q] + window'[q] + Delta(calls[s], previous[q]) <= ran[q]
  <2>1. Delta(calls[s], previous[q]) \in Nat /\ pushed[q] \in Nat /\ window[q] \in Nat /\ ran[q] \in Nat /\ pushed'[q] \in Nat
    BY <1>1, <1>3, DeltaFacts DEF QueryInv
  <2>2. pushed[q] + window[q] + Delta(calls[s], previous[q]) <= ran[q]
    BY <1>3 DEF QueryInv, Unclaimed
  <2> QED
    BY <1>1, <2>1, <2>2
<1> QED
  BY <1>1, <1>2, <1>3 DEF QueryInv, Unclaimed

LEMMA ExecuteKeeps == ASSUME QueryInv, NEW s0 \in Statements, ExecuteStatement(s0) PROVE QueryInv'
<1> DEFINE q0 == QueryOf[s0]
<1>1. q0 \in Queries /\ calls[s0] \in Nat
  BY DEF QueryInv, Queries
<1>2. /\ calls' = [calls EXCEPT ![s0] = @ + 1] /\ UNCHANGED <<engine, previous, rows, window, pushed>>
      /\ ran' = [ran EXCEPT ![q0] = IF Known(q0) THEN @ + 1 ELSE 0]
  BY DEF ExecuteStatement
<1>3. calls' \in [Statements -> Nat] /\ ran' \in [Queries -> Nat]
  BY <1>1, <1>2 DEF QueryInv
<1>4. ASSUME NEW s \in Statements, NEW p \in Nat \cup {None}, Known(QueryOf[s])
      PROVE  /\ ran'[QueryOf[s]] - ran[QueryOf[s]] >= Delta(calls'[s], p) - Delta(calls[s], p)
             /\ Delta(calls'[s], p) \in Nat /\ Delta(calls[s], p) \in Nat
  <2>1. QueryOf[s] \in Queries /\ calls[s] \in Nat /\ calls'[s] \in Nat
    BY <1>3 DEF QueryInv, Queries
  <2>2. Delta(calls'[s], p) \in Nat /\ Delta(calls[s], p) \in Nat /\ Delta(calls[s] + 1, p) <= Delta(calls[s], p) + 1
    BY <2>1, DeltaFacts
  <2>3. CASE s = s0
    <3>1. calls'[s] = calls[s] + 1 /\ ran'[QueryOf[s]] = ran[QueryOf[s]] + 1
      BY <1>1, <1>2, <1>4, <2>3 DEF QueryInv
    <3> QED
      BY <2>1, <2>2, <3>1 DEF QueryInv
  <2>4. CASE s # s0
    <3>1. calls'[s] = calls[s] /\ ran'[QueryOf[s]] \in {ran[QueryOf[s]], ran[QueryOf[s]] + 1}
      BY <1>1, <1>2, <1>4, <2>1, <2>4 DEF QueryInv
    <3> QED
      BY <2>1, <2>2, <3>1 DEF QueryInv
  <2> QED
    BY <2>3, <2>4
<1>5. ASSUME NEW q \in Queries, previous[q] # None, NEW s \in Statements, QueryOf[s] = q
      PROVE  pushed[q] + window[q] + Delta(calls'[s], previous[q]) <= ran'[q]
  <2>1. Known(QueryOf[s]) /\ previous[q] \in Nat \cup {None}
    BY <1>5 DEF Known, QueryInv
  <2>2. pushed[q] + window[q] + Delta(calls[s], previous[q]) <= ran[q]
    BY <1>5 DEF QueryInv, Unclaimed
  <2>3. pushed[q] \in Nat /\ window[q] \in Nat /\ ran[q] \in Nat /\ ran'[q] \in Nat
    BY <1>3 DEF QueryInv
  <2> QED
    BY <1>4, <1>5, <2>1, <2>2, <2>3
<1>6. ASSUME NEW r \in rows, NEW s \in Statements, QueryOf[s] = r.query
      PROVE  pushed[r.query] + window[r.query] + Delta(r.calls, previous[r.query]) + Delta(calls'[s], r.calls) <= ran'[r.query]
  <2>1. Known(QueryOf[s]) /\ r.query \in Queries /\ r.calls \in Nat /\ previous[r.query] \in Nat \cup {None}
    BY <1>6 DEF Known, QueryInv
  <2>2. pushed[r.query] + window[r.query] + Delta(r.calls, previous[r.query]) + Delta(calls[s], r.calls) <= ran[r.query]
    BY <1>6 DEF QueryInv
  <2>3. /\ pushed[r.query] \in Nat /\ window[r.query] \in Nat /\ ran[r.query] \in Nat /\ ran'[r.query] \in Nat
        /\ Delta(r.calls, previous[r.query]) \in Nat
    BY <1>3, <2>1, DeltaFacts DEF QueryInv
  <2> QED
    BY <1>4, <1>6, <2>1, <2>2, <2>3
<1> QED
  BY <1>2, <1>3, <1>5, <1>6 DEF QueryInv, Unclaimed

LEMMA EvictKeeps == ASSUME QueryInv, NEW s0 \in Statements, Evict(s0) PROVE QueryInv'
<1>1. calls' = [calls EXCEPT ![s0] = 0] /\ UNCHANGED <<engine, ran, previous, rows, window, pushed>>
  BY DEF Evict
<1>2. calls' \in [Statements -> Nat]
  BY <1>1 DEF QueryInv
<1>3. ASSUME NEW s \in Statements, NEW p \in Nat \cup {None}
      PROVE  /\ Delta(calls'[s], p) <= Delta(calls[s], p)
             /\ Delta(calls'[s], p) \in Nat /\ Delta(calls[s], p) \in Nat
  <2>1. calls[s] \in Nat /\ calls'[s] \in {0, calls[s]}
    BY <1>1 DEF QueryInv
  <2>2. Delta(calls[s], p) \in Nat /\ Delta(0, p) = 0
    BY <2>1, DeltaFacts
  <2> QED
    BY <2>1, <2>2
<1>4. ASSUME NEW q \in Queries, previous[q] # None, NEW s \in Statements, QueryOf[s] = q
      PROVE  pushed[q] + window[q] + Delta(calls'[s], previous[q]) <= ran[q]
  <2>1. pushed[q] \in Nat /\ window[q] \in Nat /\ ran[q] \in Nat /\ previous[q] \in Nat \cup {None}
    BY DEF QueryInv
  <2>2. pushed[q] + window[q] + Delta(calls[s], previous[q]) <= ran[q]
    BY <1>4 DEF QueryInv, Unclaimed
  <2>3. /\ Delta(calls'[s], previous[q]) <= Delta(calls[s], previous[q])
        /\ Delta(calls'[s], previous[q]) \in Nat /\ Delta(calls[s], previous[q]) \in Nat
    BY <1>3, <2>1
  <2> QED
    BY <2>1, <2>2, <2>3
<1>5. ASSUME NEW r \in rows, NEW s \in Statements, QueryOf[s] = r.query
      PROVE  pushed[r.query] + window[r.query] + Delta(r.calls, previous[r.query]) + Delta(calls'[s], r.calls) <= ran[r.query]
  <2>1. r.query \in Queries /\ r.calls \in Nat /\ previous[r.query] \in Nat \cup {None}
    BY DEF QueryInv
  <2>2. /\ pushed[r.query] \in Nat /\ window[r.query] \in Nat /\ ran[r.query] \in Nat
        /\ Delta(r.calls, previous[r.query]) \in Nat
    BY <2>1, DeltaFacts DEF QueryInv
  <2>3. pushed[r.query] + window[r.query] + Delta(r.calls, previous[r.query]) + Delta(calls[s], r.calls) <= ran[r.query]
    BY <1>5 DEF QueryInv
  <2> QED
    BY <1>3, <2>1, <2>2, <2>3
<1> QED
  BY <1>1, <1>2, <1>4, <1>5 DEF QueryInv, Unclaimed

LEMMA QueryNextInv == ASSUME OnePlan PROVE QueryInv /\ [QueryNext]_queryVars => QueryInv'
<1> SUFFICES ASSUME QueryInv, [QueryNext]_queryVars PROVE QueryInv'
  OBVIOUS
<1>1. CASE QueryServer
  BY <1>1, QueryServerKeeps
<1>2. CASE ScanFails
  BY <1>2, WindowEmptied DEF ScanFails
<1>3. CASE PushWindow
  BY <1>3, WindowEmptied DEF PushWindow
<1>4. ASSUME NEW s \in Statements, ExecuteStatement(s) \/ Evict(s) PROVE QueryInv'
  BY <1>4, ExecuteKeeps, EvictKeeps
<1>5. ASSUME NEW r \in rows, ProcessRow(r) PROVE QueryInv'
  BY <1>5, ProcessRowKeeps
<1>6. CASE UNCHANGED queryVars
  BY <1>6 DEF queryVars, QueryInv, Unclaimed
<1> QED
  BY <1>1, <1>2, <1>3, <1>4, <1>5, <1>6 DEF QueryNext

\* What the windows of a query check deliver never exceeds what ran, for any statements,
\* limit of the reading and counters, across resets, evictions, lost windows and readings
\* that leave a query out, as long as a query has one plan.
THEOREM WindowsAlwaysDeltas == ASSUME OnePlan PROVE QuerySpec => []WindowsAreDeltas
<1>1. QueryInv => WindowsAreDeltas
  <2> SUFFICES ASSUME QueryInv, NEW q \in Queries PROVE pushed[q] + window[q] <= ran[q]
    BY DEF WindowsAreDeltas
  <2>1. PICK s \in Statements : QueryOf[s] = q
    BY DEF Queries
  <2>2. pushed[q] \in Nat /\ window[q] \in Nat /\ ran[q] \in Nat /\ calls[s] \in Nat /\ previous[q] \in Nat \cup {None}
    BY DEF QueryInv
  <2>3. CASE previous[q] = None
    BY <2>2, <2>3 DEF QueryInv
  <2>4. CASE previous[q] # None
    <3>1. pushed[q] + window[q] + Delta(calls[s], previous[q]) <= ran[q]
      BY <2>1, <2>4 DEF QueryInv, Unclaimed
    <3>2. Delta(calls[s], previous[q]) \in Nat
      BY <2>2, DeltaFacts
    <3> QED
      BY <2>2, <3>1, <3>2
  <2> QED
    BY <2>3, <2>4
<1> QED
  BY <1>1, QueryInitInv, QueryNextInv, PTL DEF QuerySpec

-----------------------------------------------------------------------------
(* The readers of statement logs *)

\* The entry is older than any further reading asks for.
Outdated(e) == entries[e] < (IF source = "mongo" THEN logNow ELSE logNow + Skew) - Visible

\* An entry is remembered no earlier than it ended, and one that was counted is
\* remembered until readings no longer ask for it.
LogInv ==
  /\ logNow \in Nat /\ source \in {"mongo", "clickhouse"}
  /\ DOMAIN ids \subseteq DOMAIN entries
  /\ counted \in [Entries -> Nat]
  /\ \A e \in DOMAIN entries : entries[e] \in Int /\ entries[e] <= logNow + Skew
  /\ \A e \in DOMAIN ids : ids[e] \in Nat /\ ids[e] <= logNow /\ entries[e] <= ids[e] + Skew
  /\ \A e \in Entries : counted[e] # 0 =>
       counted[e] = 1 /\ e \in DOMAIN entries /\ (e \in DOMAIN ids \/ Outdated(e))

LEMMA LogInitInv == LogInit => LogInv
BY LogAssumption DEF LogInit, LogInv, NoPairs

LEMMA LogTickKeeps == ASSUME LogInv, LogTick PROVE LogInv'
BY LogAssumption DEF LogInv, LogTick, Outdated

LEMMA FinishKeeps == ASSUME LogInv, NEW x \in Entries, Finish(x) PROVE LogInv'
<1>1. /\ DOMAIN entries' = DOMAIN entries \cup {x} /\ entries'[x] = logNow + Skew
      /\ \A e \in DOMAIN entries : entries'[e] = entries[e]
  BY DEF Finish, Noting
<1> QED
  BY <1>1, LogAssumption DEF Finish, LogInv, Outdated

\* A reading counts entries that are not remembered, and remembers them.
LEMMA ReadingKeeps ==
  ASSUME LogInv, ClocksAgree, NEW reached \in SUBSET DOMAIN entries, NEW delivered \in BOOLEAN,
         \A e \in reached : ~Outdated(e) /\ e \notin DOMAIN Unforgotten(ids, Keep),
         ids' = Noting(Unforgotten(ids, Keep), reached, logNow),
         counted' = [e \in Entries |-> IF delivered /\ e \in reached THEN counted[e] + 1 ELSE counted[e]],
         UNCHANGED <<source, logNow, entries>>
  PROVE  LogInv'
<1> DEFINE old == Unforgotten(ids, Keep)
<1>1. DOMAIN old = {x \in DOMAIN ids : logNow - ids[x] <= Keep} /\ \A x \in DOMAIN old : old[x] = ids[x]
  BY DEF Unforgotten, Restrict
<1> HIDE DEF old
<1>2. /\ DOMAIN ids' = DOMAIN old \cup reached
      /\ \A x \in DOMAIN ids' : ids'[x] = IF x \in reached THEN logNow ELSE old[x]
  BY DEF Noting, old
<1>3. DOMAIN ids' \subseteq DOMAIN entries'
  BY <1>1, <1>2 DEF LogInv
<1>4. ASSUME NEW e \in DOMAIN ids'
      PROVE  ids'[e] \in Nat /\ ids'[e] <= logNow' /\ entries'[e] <= ids'[e] + Skew
  BY <1>1, <1>2 DEF LogInv
<1>5. ASSUME NEW e \in DOMAIN ids, e \notin DOMAIN old PROVE Outdated(e)
  <2>1. /\ logNow - ids[e] > Keep /\ entries[e] <= ids[e] + Skew
        /\ ids[e] \in Nat /\ logNow \in Nat /\ entries[e] \in Int
    BY <1>1, <1>5, LogAssumption DEF LogInv
  <2> QED
    BY <2>1, LogAssumption DEF Outdated, ClocksAgree
<1>6. ASSUME NEW e \in Entries, counted'[e] # 0
      PROVE  counted'[e] = 1 /\ e \in DOMAIN entries' /\ (e \in DOMAIN ids' \/ Outdated(e)')
  <2>1. Outdated(e)' <=> Outdated(e)
    BY DEF Outdated
  <2>2. CASE delivered /\ e \in reached
    <3>1. counted[e] = 0
      BY <1>1, <1>5, <2>2 DEF LogInv, old
    <3> QED
      BY <1>2, <2>2, <3>1 DEF LogInv
  <2>3. CASE ~(delivered /\ e \in reached)
    <3>1. counted'[e] = counted[e] /\ counted[e] # 0
      BY <1>6, <2>3 DEF LogInv
    <3> QED
      BY <1>2, <1>5, <2>1, <3>1 DEF LogInv
  <2> QED
    BY <2>2, <2>3
<1>7. counted' \in [Entries -> Nat]
  BY DEF LogInv
<1> QED
  BY <1>3, <1>4, <1>6, <1>7 DEF LogInv

LEMMA ReadProfileKeeps == ASSUME LogInv, ClocksAgree, ReadProfile PROVE LogInv'
<1> DEFINE fresh == {e \in DOMAIN entries : entries[e] >= logNow - Visible} \ DOMAIN Unforgotten(ids, Keep)
<1>1. PICK reached \in SUBSET fresh, delivered \in BOOLEAN :
        /\ source = "mongo" /\ ids' = Noting(Unforgotten(ids, Keep), reached, logNow)
        /\ counted' = [e \in Entries |-> IF delivered /\ e \in reached THEN counted[e] + 1 ELSE counted[e]]
        /\ UNCHANGED <<source, logNow, entries>>
  BY DEF ReadProfile
<1>2. \A e \in reached : ~Outdated(e) /\ e \notin DOMAIN Unforgotten(ids, Keep) /\ e \in DOMAIN entries
  BY <1>1, LogAssumption DEF Outdated, LogInv
<1> HIDE DEF fresh
<1> QED
  BY <1>1, <1>2, ReadingKeeps

LEMMA ReadQueryLogKeeps == ASSUME LogInv, ClocksAgree, ReadQueryLog PROVE LogInv'
<1> DEFINE fresh == {e \in DOMAIN entries : entries[e] >= logNow + Skew - Visible} \ DOMAIN Unforgotten(ids, Keep)
<1>1. PICK reached \in SUBSET fresh, delivered \in BOOLEAN :
        /\ source = "clickhouse" /\ ids' = Noting(Unforgotten(ids, Keep), reached, logNow)
        /\ counted' = [e \in Entries |-> IF delivered /\ e \in reached THEN counted[e] + 1 ELSE counted[e]]
        /\ UNCHANGED <<source, logNow, entries>>
  BY DEF ReadQueryLog
<1>2. \A e \in reached : ~Outdated(e) /\ e \notin DOMAIN Unforgotten(ids, Keep) /\ e \in DOMAIN entries
  BY <1>1, LogAssumption DEF Outdated, LogInv
<1> HIDE DEF fresh
<1> QED
  BY <1>1, <1>2, ReadingKeeps

LEMMA LogNextInv == ASSUME ClocksAgree PROVE LogInv /\ [LogNext]_logVars => LogInv'
<1> SUFFICES ASSUME LogInv, [LogNext]_logVars PROVE LogInv'
  OBVIOUS
<1>1. CASE LogTick
  BY <1>1, LogTickKeeps
<1>2. CASE ReadProfile
  BY <1>2, ReadProfileKeeps
<1>3. CASE ReadQueryLog
  BY <1>3, ReadQueryLogKeeps
<1>4. ASSUME NEW e \in Entries, Finish(e) PROVE LogInv'
  BY <1>4, FinishKeeps
<1>5. ASSUME UNCHANGED <<source, logNow, entries, ids, counted>> PROVE LogInv'
  BY <1>5 DEF LogInv, Outdated
<1>6. CASE Sampling
  BY <1>5, <1>6 DEF Sampling
<1>7. ASSUME NEW d \in Digests, Explain(d) PROVE LogInv'
  BY <1>5, <1>7 DEF Explain
<1>8. CASE UNCHANGED logVars
  BY <1>5, <1>8 DEF logVars
<1> QED
  BY <1>1, <1>2, <1>3, <1>4, <1>6, <1>7, <1>8 DEF LogNext

\* No finished statement of a log is counted twice, for any entries, period and memory of
\* the reader, if the clock of the database is ahead by no more than what is kept beyond
\* the period.
THEOREM StatementsCountedOnce == ASSUME ClocksAgree PROVE LogSpec => []CountedOnce
<1>1. LogInv => CountedOnce
  BY DEF LogInv, CountedOnce
<1> QED
  BY <1>1, LogInitInv, LogNextInv, PTL DEF LogSpec

-----------------------------------------------------------------------------
(* The composition *)

\* The composition implements each of its components: a step of it is a step of the
\* component that moves and leaves the others as they are.
THEOREM EachComponentRuns ==
  Spec => /\ SignalsSpec /\ TaggerSpec /\ SnmpSpec /\ ScanSpec /\ DbPoolSpec /\ XSpec /\ HostSpec
          /\ KubeletSpec /\ JSpec /\ QuerySpec /\ LogSpec
<1>1. Init => /\ SignalsInit /\ TaggerInit /\ SnmpInit /\ ScanInit /\ DbPoolInit /\ XInit /\ HostInit
              /\ KubeletInit /\ JInit /\ QueryInit /\ LogInit
  BY DEF Init
<1>2. [Next]_vars => /\ [SignalsNext]_signalVars /\ [TaggerNext]_taggerVars /\ [SnmpNext]_snmpVars
                     /\ [ScanNext]_scanVars /\ [DbPoolNext]_dbPoolVars /\ [XNext]_xVars
                     /\ [HostNext]_hostVars /\ [KubeletNext]_kubeletVars /\ [JNext]_jVars
                     /\ [QueryNext]_queryVars /\ [LogNext]_logVars
  <2>1. CASE UNCHANGED vars
    BY <2>1 DEF vars
  <2>2. CASE Next
    BY <2>2 DEF Next
  <2> QED
    BY <2>1, <2>2
<1> QED
  BY <1>1, <1>2, PTL DEF Spec, SignalsSpec, TaggerSpec, SnmpSpec, ScanSpec, DbPoolSpec, XSpec, HostSpec, KubeletSpec, JSpec,
                              QuerySpec, LogSpec

\* What the run of MCCollection checks of the reports of the checks, for every value of
\* the constants: the signals, the SNMP reports, the snapshots of external checks and the
\* database pools.
THEOREM EveryReportHonest == Spec => []ReportsHonest
<1>1. (AnsweredWhenCompleted /\ CapabilitiesAfterDiagnostics) /\ ReportAgrees /\ NeverOldSuccess /\ PoolsShared
        => ReportsHonest
  BY DEF ReportsHonest
<1> QED
  BY <1>1, EachComponentRuns, SignalsHonest, SnmpReportsAgree, ExternalNeverOld, PoolsAlwaysShared, PTL

\* The same of the measures, with one plan per query and clocks that agree: the rates of
\* the host checks, the budget of series and the executions the statement checks count.
THEOREM EveryMeasureTrue == ASSUME OnePlan, ClocksAgree PROVE Spec => []MeasuresTrue
<1>1. RatesTrue /\ WithinBudget /\ WindowsAreDeltas /\ CountedOnce => MeasuresTrue
  BY DEF MeasuresTrue
<1> QED
  BY <1>1, EachComponentRuns, HostRatesTrue, BudgetOfSeries, WindowsAlwaysDeltas, StatementsCountedOnce, PTL

\* The same of the readers: network scans and the journald reader.
THEOREM EveryReaderComplete == Spec => []ReadersComplete
<1>1. ScanComplete /\ JournalAccounted => ReadersComplete
  BY DEF ReadersComplete
<1> QED
  BY <1>1, EachComponentRuns, ScansComplete, JournalExact, PTL
=============================================================================
