----------------------------- MODULE Discovery -----------------------------
(***************************************************************************)
(* The scans for devices: internal/checks/snmp_autodiscover.go with        *)
(* internal/discovery/snmp_scan.go, and internal/checks/icmp_scan.go. What *)
(* a scan finds goes to the channel of internal/checks/events.go, which    *)
(* cmd/collector/main.go never installs. The addresses of the networks are *)
(* the set Hosts.                                                          *)
(***************************************************************************)
EXTENDS Integers, FiniteSets

CONSTANTS Hosts,        \* hosts of the networks of the check
          Concurrency,  \* probes at once
          MaxScans      \* bound: runs of the check

ASSUME ScanAssumption == MaxScans \in Nat

VARIABLES
  scanKind,  \* "snmp" or "icmp"
  runOnce,
  scanDone,  \* done
  alive,     \* hosts that answer
  scan,      \* "idle", "launch" or "wait"
  left,      \* hosts the loop has not reached
  busy,      \* hosts whose goroutine runs
  found,     \* candidates of this run
  cut,       \* ctx of the run is done: the run timeout or a stopped check
  scans,     \* runs so far
  channel,   \* "none", or "open" or "full" once installed
  announced  \* hosts whose discovery reached the channel

scanVars == <<scanKind, runOnce, scanDone, alive, scan, left, busy, found, cut, scans, channel, announced>>

ScanTypeOK ==
  /\ scanKind \in {"snmp", "icmp"} /\ runOnce \in BOOLEAN /\ scanDone \in BOOLEAN /\ scan \in {"idle", "launch", "wait"}
  /\ \A hosts \in {alive, left, busy, found, announced} : hosts \subseteq Hosts
  /\ cut \in BOOLEAN /\ scans \in 0 .. MaxScans /\ channel \in {"none", "open", "full"}

\* eventsCh is nil and stays so: nothing calls SetEventsChannel.
ScanInit ==
  /\ scanKind \in {"snmp", "icmp"} /\ runOnce \in BOOLEAN /\ scanDone = FALSE /\ alive \in SUBSET Hosts
  /\ scan = "idle" /\ left = {} /\ busy = {} /\ found = {} /\ cut = FALSE /\ scans = 0
  /\ channel = "none" /\ announced = {}

\* Run begins; the hosts of the networks are listed without repetition.
BeginScan ==
  /\ scan = "idle" /\ scans < MaxScans /\ scans' = scans + 1
  /\ IF runOnce /\ scanDone THEN UNCHANGED <<scan, left, found, cut>>
     ELSE scan' = "launch" /\ left' = Hosts /\ found' = {} /\ cut' = FALSE
  /\ UNCHANGED <<scanKind, runOnce, scanDone, alive, busy, channel, announced>>

\* The semaphore is acquired and a goroutine starts.
Launch(h) ==
  /\ scan = "launch" /\ h \in left /\ Cardinality(busy) < Concurrency
  /\ cut => scanKind = "icmp"
  /\ left' = left \ {h} /\ busy' = busy \cup {h}
  /\ UNCHANGED <<scanKind, runOnce, scanDone, alive, scan, found, cut, scans, channel, announced>>

\* The loop is over: every host was started, or the SNMP scan saw the end of ctx. The
\* ICMP scan also looks at ctx, but its break only leaves the select.
EndLaunch ==
  /\ scan = "launch" /\ scan' = "wait"
  /\ left = {} \/ (cut /\ scanKind = "snmp")
  /\ left' = {}
  /\ UNCHANGED <<scanKind, runOnce, scanDone, alive, busy, found, cut, scans, channel, announced>>

\* scanOne, or a ping: a host that answers within its time is a candidate.
ProbeEnds(h) ==
  /\ h \in busy /\ busy' = busy \ {h}
  /\ found' = IF h \in alive /\ ~cut THEN found \cup {h} ELSE found
  /\ UNCHANGED <<scanKind, runOnce, scanDone, alive, scan, left, cut, scans, channel, announced>>

\* wg.Wait has returned. A run-once scan counts as done whether or not ctx ended it
\* and before its events are delivered; without a channel, or with a full one, they
\* are dropped.
EndScanEarly ==
  /\ scan = "wait" /\ scan' = "idle"
  /\ scanDone' = runOnce /\ announced' = IF channel = "open" THEN announced \cup found ELSE announced
  /\ UNCHANGED <<scanKind, runOnce, alive, left, busy, found, cut, scans, channel>>

EndScan ==
  /\ scan = "wait" /\ busy = {} /\ scan' = "idle"
  /\ scanDone' = runOnce /\ announced' = IF channel = "open" THEN announced \cup found ELSE announced
  /\ UNCHANGED <<scanKind, runOnce, alive, left, busy, found, cut, scans, channel>>

CutRun ==
  /\ scan # "idle" /\ ~cut /\ cut' = TRUE
  /\ UNCHANGED <<scanKind, runOnce, scanDone, alive, scan, left, busy, found, scans, channel, announced>>

ScanNext ==
  \/ BeginScan \/ EndLaunch \/ EndScan \/ CutRun
  \/ \E h \in Hosts : Launch(h) \/ ProbeEnds(h)

ScanSpec == ScanInit /\ [][ScanNext]_scanVars

-----------------------------------------------------------------------------
(* Properties *)

\* A scan that was not cut short found every host that answers, although the results
\* come from as many goroutines as the semaphore lets run; and it leaves no goroutine.
ScanComplete ==
  scan = "idle" /\ scans > 0 /\ ~cut => alive \subseteq found /\ busy = {}
=============================================================================
