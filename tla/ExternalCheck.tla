---------------------------- MODULE ExternalCheck ----------------------------
(***************************************************************************)
(* external.python: one run of a signed package (verify, execute, map the  *)
(* response) and the inventory snapshot the scheduler pushes after it.     *)
(* The gateway removes every resource that a complete snapshot lacks, so a *)
(* complete snapshot must be what the target holds.  The package on disk,  *)
(* the Python process and the target are external.                         *)
(***************************************************************************)
EXTENDS Naturals, FiniteSets

CONSTANTS Resources,    \* what the target can hold
          ResultLimit,  \* the most resources the runner lists
          MaxXRuns, MaxChanges  \* bounds on the runs, and on other changes

VARIABLES target,       \* the resources of the target now
          package,      \* the installed package: signed, declared, digests
          changes, xrun,
          xphase,       \* "idle", "started", "verified", "mapped" or "failed"
          output,       \* what the runner printed
          stored,       \* inventory, coverage and status of the check
          snapshot,     \* the snapshot of the check
          version,      \* config version of the running instance
          readAs,       \* the target when the run read it (ghost)
          sent          \* the last snapshot pushed, with its run's end
xVars == <<target, package, changes, xrun, xphase, output, stored, snapshot, version, readAs, sent>>

NoSnapshot == [run |-> 0, version |-> 0, complete |-> FALSE, resources |-> {}]
NoOutput == [status |-> "error", resources |-> {}, all |-> FALSE, truncated |-> FALSE, mode |-> "unknown", counts |-> FALSE]
NoStored == [status |-> "error", resources |-> {}, all |-> FALSE, truncated |-> FALSE, mode |-> "unknown"]
NoPush == [snapshot |-> NoSnapshot, of |-> 0, failed |-> FALSE, truth |-> {}]

\* newExternalPythonCheck: the factory verifies the package too, so an
\* instance starts with one that was right.
XInit ==
  /\ target \in SUBSET Resources
  /\ package = [signed |-> TRUE, declared |-> TRUE, digests |-> TRUE]
  /\ changes = 0 /\ xrun = 0 /\ xphase = "idle" /\ output = NoOutput
  /\ stored = NoStored /\ snapshot = NoSnapshot /\ version = 1
  /\ readAs = {} /\ sent = NoPush

Change(t) ==
  /\ changes < MaxChanges /\ changes' = changes + 1 /\ t # target /\ target' = t
  /\ UNCHANGED <<package, xrun, xphase, output, stored, snapshot, version, readAs, sent>>
Install(p) ==
  /\ changes < MaxChanges /\ changes' = changes + 1 /\ p # package /\ package' = p
  /\ UNCHANGED <<target, xrun, xphase, output, stored, snapshot, version, readAs, sent>>

\* Verify: identity and layout, signature of the manifest, the declared check,
\* and the digest of every file, declared and present.
Verify == package.signed /\ package.declared /\ package.digests
\* A new delta of the check: the old instance has stopped, the new one has no report.
Reconfigure ==
  /\ xphase = "idle" /\ changes < MaxChanges /\ changes' = changes + 1
  /\ Verify
  /\ version' = version + 1 /\ stored' = NoStored /\ snapshot' = NoSnapshot
  /\ UNCHANGED <<target, package, xrun, xphase, output, readAs, sent>>

\* makeInventoryReport: complete only when the runner says that it listed
\* everything, nothing was cut, and the cluster mode is known.
CompleteAnyway(s) == s.status # "error" /\ s.all /\ s.mode # "unknown"
Complete(s) == s.status # "error" /\ s.all /\ ~s.truncated /\ s.mode # "unknown"
MakeInventoryReport(run, s) ==
  [run |-> run, version |-> version, complete |-> Complete(s), resources |-> s.resources]

\* Run: the report of this run starts as a failure.
StartRun ==
  /\ xphase = "idle" /\ xrun < MaxXRuns /\ xrun' = xrun + 1
  /\ stored' = NoStored /\ snapshot' = MakeInventoryReport(xrun', stored')
  /\ xphase' = "started" /\ output' = NoOutput
  /\ UNCHANGED <<target, package, changes, version, readAs, sent>>
VerifyRun ==
  /\ xphase = "started"
  /\ xphase' = IF Verify THEN "verified" ELSE "failed"
  /\ UNCHANGED <<target, package, changes, xrun, output, stored, snapshot, version, readAs, sent>>
\* invokeExternal: the deadline, an output over its limit or an exit code.
InvokeFails ==
  /\ xphase = "verified" /\ xphase' = "failed"
  /\ UNCHANGED <<target, package, changes, xrun, output, stored, snapshot, version, readAs, sent>>
\* The runner reads the target and prints what it saw, cut at its limit.
Invoke(seen, status, mode, counts) ==
  /\ xphase = "verified" /\ output = NoOutput
  /\ seen \subseteq target /\ Cardinality(seen) <= ResultLimit
  /\ seen # target => Cardinality(seen) = ResultLimit
  /\ output' = [status |-> status, resources |-> seen, all |-> TRUE,
                truncated |-> seen # target, mode |-> mode, counts |-> counts]
  /\ readAs' = target
  /\ UNCHANGED <<target, package, changes, xrun, xphase, stored, snapshot, version, sent>>
\* mapExternalResponse: an error status or anything invalid fails the run;
\* metrics of type count are skipped and make the result partial.
MapResponse ==
  /\ xphase = "verified" /\ output # NoOutput
  /\ IF output.status \in {"error", "invalid"}
     THEN xphase' = "failed" /\ UNCHANGED <<stored, snapshot>>
     ELSE /\ stored' = [status |-> IF output.counts THEN "partial" ELSE output.status,
                        resources |-> output.resources, all |-> output.all,
                        truncated |-> output.truncated, mode |-> output.mode]
          /\ snapshot' = MakeInventoryReport(xrun, stored')
          /\ xphase' = "mapped"
  /\ UNCHANGED <<target, package, changes, xrun, output, version, readAs, sent>>

\* runOnce after the run: an error or a deadline makes the snapshot incomplete
\* and empty; a stopped check pushes nothing.
PushIgnoringTimeout(timedOut) ==
  /\ xphase \in {"mapped", "failed"} /\ xphase' = "idle"
  /\ sent' = [snapshot |-> snapshot, of |-> xrun, failed |-> xphase = "failed" \/ timedOut, truth |-> readAs]
  /\ UNCHANGED <<target, package, changes, xrun, output, stored, snapshot, version, readAs>>
Push(timedOut) ==
  LET failed == xphase = "failed" \/ timedOut IN
  /\ xphase \in {"mapped", "failed"} /\ xphase' = "idle"
  /\ sent' = [snapshot |-> IF failed THEN [snapshot EXCEPT !.complete = FALSE, !.resources = {}] ELSE snapshot,
                of |-> xrun, failed |-> failed, truth |-> readAs]
  /\ UNCHANGED <<target, package, changes, xrun, output, stored, snapshot, version, readAs>>
StopMidRun ==
  /\ xphase \in {"started", "verified", "mapped", "failed"} /\ xphase' = "idle"
  /\ UNCHANGED <<target, package, changes, xrun, output, stored, snapshot, version, readAs, sent>>

Statuses == {"ok", "partial", "error", "invalid"}
XNext ==
  \/ \E t \in SUBSET Resources : Change(t)
  \/ \E p \in [signed : BOOLEAN, declared : BOOLEAN, digests : BOOLEAN] : Install(p)
  \/ Reconfigure \/ StartRun \/ VerifyRun \/ InvokeFails \/ MapResponse \/ StopMidRun
  \/ \E seen \in SUBSET Resources, st \in Statuses, mode \in {"clustered", "unknown"}, c \in BOOLEAN :
       Invoke(seen, st, mode, c)
  \/ \E timedOut \in BOOLEAN : Push(timedOut)

XSpec == XInit /\ [][XNext]_xVars

XTypeOK ==
  /\ target \subseteq Resources /\ stored.resources \subseteq Resources
  /\ xphase \in {"idle", "started", "verified", "mapped", "failed"}
  /\ snapshot.run <= xrun /\ sent.of <= xrun

\* A complete snapshot is of the run it follows, which neither failed nor
\* timed out, and lists everything the target held when that run read it: a
\* failed run is incomplete and empty, never an old success.
NeverOldSuccess ==
  LET s == sent.snapshot IN
  /\ s.complete => /\ s.run = sent.of /\ ~sent.failed
                   /\ s.resources = sent.truth
  /\ sent.failed => s.resources = {}
=============================================================================
