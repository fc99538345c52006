------------------------------ MODULE HostRates ------------------------------
(***************************************************************************)
(* Rates the host checks make of cumulative counters: linux.system (disk   *)
(* counters per device) and linux.processes (CPU per cgroup, L7 bytes per  *)
(* process).  Devices and cgroups come and go, counters start again at     *)
(* zero, and a read may fail between two samples.                          *)
(***************************************************************************)
EXTENDS Integers, FiniteSets, FiniteSetsExt

CONSTANTS Devices, Groups,   \* disks, and cgroups with one process each
          Replicas,     \* cgroups that docker knows by one and the same name
          TopN,         \* services emitted per tick
          Width,        \* the counters are unsigned: differences are modulo Width
          NameTTL,      \* age at which the names of docker are asked again
          MaxHTime, MaxSpend   \* bounds on the clock and on what is consumed

\* No more is consumed between two samples than the counters can tell apart.
ASSUME HostAssumption == MaxSpend \in Nat /\ MaxHTime \in Nat /\ Width \in Nat /\ MaxSpend < Width

Off == [on |-> FALSE, n |-> 0]
NoTime == [set |-> FALSE, at |-> 0]

VARIABLES host,         \* the check of this behaviour: the two share nothing
          htime, spent,
          disk, cgroup,     \* disk[d], cgroup[g]: present, and its counter
          ioLast, ioAt,     \* lastDiskIO and lastDiskIOAt
          ioUsed,       \* ioUsed[d]: consumed since the sample at ioAt (ghost)
          ioReset,      \* devices replaced since then (ghost)
          ioOut,        \* the rates of the last run
          cpuLast, cpuAt,   \* lastCpuUsage and lastSampleAt
          cpuUsed,      \* cpuUsed[g]: consumed since the tick at cpuAt (ghost)
          unread,       \* cgroups whose counter was not read at that tick (ghost)
          scanned,      \* what the walk of /proc found; "none" when no run is on
          tracked,      \* processes svcagg has bytes of
          names,        \* dockerNames: known, and when
          svcOut        \* the services of the last tick
ioVars == <<disk, ioLast, ioAt, ioUsed, ioReset, ioOut>>
svcVars == <<cgroup, cpuLast, cpuAt, cpuUsed, unread, scanned, tracked, names, svcOut>>
hostVars == <<host, htime, spent, ioVars, svcVars>>

NoScan == [running |-> FALSE, groups |-> {}]
HostInit ==
  /\ host \in {"linux.system", "linux.processes"}
  /\ htime = 1 /\ spent = 0
  /\ disk = [d \in Devices |-> [on |-> TRUE, n |-> 0]]
  /\ ioLast = <<>> /\ ioAt = NoTime /\ ioOut = {}
  /\ ioUsed = [d \in Devices |-> 0] /\ ioReset = {}
  /\ cgroup = [g \in Groups |-> Off]
  /\ cpuLast = <<>> /\ cpuAt = NoTime /\ cpuUsed = [g \in Groups |-> 0] /\ unread = {}
  /\ scanned = NoScan /\ tracked = {}
  /\ names = [known |-> {}, at |-> NoTime] /\ svcOut = {}

HTick ==
  /\ htime < MaxHTime /\ htime' = htime + 1
  /\ UNCHANGED <<host, spent, ioVars, svcVars>>

-----------------------------------------------------------------------------
(* linux.system *)

Transfer(d) ==
  /\ disk[d].on /\ spent < MaxSpend /\ spent' = spent + 1
  /\ disk' = [disk EXCEPT ![d].n = @ + 1] /\ ioUsed' = [ioUsed EXCEPT ![d] = @ + 1]
  /\ UNCHANGED <<host, htime, ioLast, ioAt, ioReset, ioOut, svcVars>>
\* A device is pulled and one with its name appears, at zero.
Replace(d) ==
  /\ disk[d].n > 0
  /\ disk' = [disk EXCEPT ![d].n = 0] /\ ioReset' = ioReset \cup {d}
  /\ UNCHANGED <<host, htime, spent, ioLast, ioAt, ioUsed, ioOut, svcVars>>
Unplug(d) ==
  /\ disk' = [disk EXCEPT ![d].on = ~@]
  /\ UNCHANGED <<host, htime, spent, ioLast, ioAt, ioUsed, ioReset, ioOut, svcVars>>

\* diskIOLatencyMetrics: a device has a rate when the sample before had it and
\* no counter went back; the time is that between the two samples.
MonotonicAssumed(d) == d \in Devices
Monotonic(d) == disk[d].n >= ioLast[d]
DiskRates ==
  IF ioLast = <<>> \/ ~ioAt.set \/ htime <= ioAt.at THEN {}
  ELSE {[dev |-> d, delta |-> (disk[d].n - ioLast[d]) % Width, elapsed |-> htime - ioAt.at,
         used |-> ioUsed[d], reset |-> d \in ioReset] :
        d \in {x \in DOMAIN ioLast : disk[x].on /\ Monotonic(x)}}
\* Run of linux.system; when the counters cannot be read the sample before stays.
RunSystem ==
  /\ ioOut' = DiskRates
  /\ ioLast' = [d \in {x \in Devices : disk[x].on} |-> disk[d].n]
  /\ ioAt' = [set |-> TRUE, at |-> htime]
  /\ ioUsed' = [d \in Devices |-> 0] /\ ioReset' = {}
  /\ UNCHANGED <<host, htime, spent, disk, svcVars>>

-----------------------------------------------------------------------------
(* linux.processes *)

StartGroup(g) ==
  /\ ~cgroup[g].on
  /\ cgroup' = [cgroup EXCEPT ![g] = [on |-> TRUE, n |-> 0]]
  /\ UNCHANGED <<host, htime, spent, ioVars, cpuLast, cpuAt, cpuUsed, unread, scanned, tracked, names, svcOut>>
StopGroup(g) ==
  /\ cgroup[g].on
  /\ cgroup' = [cgroup EXCEPT ![g] = Off]
  /\ UNCHANGED <<host, htime, spent, ioVars, cpuLast, cpuAt, cpuUsed, unread, scanned, tracked, names, svcOut>>
Burn(g) ==
  /\ cgroup[g].on /\ spent < MaxSpend /\ spent' = spent + 1
  /\ cgroup' = [cgroup EXCEPT ![g].n = @ + 1] /\ cpuUsed' = [cpuUsed EXCEPT ![g] = @ + 1]
  /\ UNCHANGED <<host, htime, ioVars, cpuLast, cpuAt, unread, scanned, tracked, names, svcOut>>
\* TrackRx and TrackTx of svcagg.
Track(g) ==
  /\ cgroup[g].on /\ tracked' = tracked \cup {g}
  /\ UNCHANGED <<host, htime, spent, ioVars, cgroup, cpuLast, cpuAt, cpuUsed, unread, scanned, names, svcOut>>

\* scanProcsByCgroup: the walk ends before the lock is taken.
ScanProcs ==
  /\ ~scanned.running
  /\ scanned' = [running |-> TRUE, groups |-> {g \in Groups : cgroup[g].on}] /\ svcOut' = {}
  /\ UNCHANGED <<host, htime, spent, ioVars, cgroup, cpuLast, cpuAt, cpuUsed, unread, tracked, names>>

\* refreshDockerNames: at most once per NameTTL; without an answer the old names stay.
RefreshDockerNames ==
  IF names.at.set /\ htime - names.at.at < NameTTL THEN {names}
  ELSE {names, [known |-> {g \in Replicas : cgroup[g].on}, at |-> [set |-> TRUE, at |-> htime]]}
\* serviceNameFromCgroup
Service(known, g) == IF g \in known THEN "service" ELSE g

Elapsed == IF cpuAt.set THEN htime - cpuAt.at ELSE 0
CpuDelta(g) == IF g \in DOMAIN cpuLast /\ Elapsed > 0 /\ cgroup[g].n > cpuLast[g]
               THEN cgroup[g].n - cpuLast[g] ELSE 0
\* CpuStat of a cgroup that ended after the walk, or whose file fails, is nil.
Readable(failed) == {g \in scanned.groups \ failed : cgroup[g].on}
\* What stays of lastCpuUsage: cgroups that were seen by this walk.
PrunedNever(groups) == DOMAIN cpuLast
Pruned(groups) == DOMAIN cpuLast \cap groups
\* The services of one tick, and the largest TopN of them by CPU and memory;
\* cgroups that used nothing yet are left out of the first tick.
SampleOf(g, failed, known) ==
  [group |-> g, service |-> Service(known, g), l7 |-> g \in tracked,
   delta |-> IF g \in Readable(failed) THEN CpuDelta(g) ELSE 0,
   elapsed |-> Elapsed, used |-> cpuUsed[g], late |-> g \in unread]
Top(all) == {top \in SUBSET all :
               LET most == Min({TopN, Cardinality(all)}) IN
               Cardinality(top) \in (IF cpuAt.set THEN {most} ELSE 0..most)}

\* Run of linux.processes, under its lock: names, samples, the baselines of the
\* cgroups that were read, then cgroups and processes not in the walk are forgotten.
RunProcesses(failed) ==
  /\ scanned.running /\ scanned' = NoScan
  /\ names' \in RefreshDockerNames
  /\ svcOut' \in Top({SampleOf(g, failed, names'.known) : g \in scanned.groups})
  /\ cpuLast' = [g \in Pruned(scanned.groups) \cup Readable(failed) |->
                   IF g \in Readable(failed) THEN cgroup[g].n ELSE cpuLast[g]]
  /\ cpuAt' = [set |-> TRUE, at |-> htime]
  /\ cpuUsed' = [g \in Groups |-> 0]
  /\ unread' = scanned.groups \ Readable(failed)
  /\ tracked' = tracked \cap scanned.groups
  /\ UNCHANGED <<host, htime, spent, ioVars, cgroup>>

SystemNext ==
  \/ RunSystem
  \/ \E d \in Devices : Transfer(d) \/ Replace(d) \/ Unplug(d)
ProcessesNext ==
  \/ ScanProcs
  \/ \E g \in Groups : StartGroup(g) \/ StopGroup(g) \/ Burn(g) \/ Track(g)
  \/ \E failed \in SUBSET scanned.groups : RunProcesses(failed)
HostNext ==
  \/ HTick
  \/ host = "linux.system" /\ SystemNext
  \/ host = "linux.processes" /\ ProcessesNext

HostSpec == HostInit /\ [][HostNext]_hostVars

HostTypeOK ==
  /\ htime \in 1..MaxHTime /\ spent \in 0..MaxSpend
  /\ DOMAIN ioLast \subseteq Devices /\ DOMAIN cpuLast \subseteq Groups
  /\ Cardinality(svcOut) <= TopN

\* A rate never claims more than was consumed in the time it is divided by:
\* exactly that for a disk that was not replaced, over replaced devices and
\* failed reads; for a cgroup as long as its counter was read at the tick before.
RatesTrue ==
  /\ \A r \in ioOut : r.delta <= r.used /\ (~r.reset => r.delta = r.used)
  /\ \A s \in svcOut : ~s.late => s.delta <= s.used
=============================================================================
