----------------------------- MODULE SnmpCheck -----------------------------
(***************************************************************************)
(* internal/checks/snmp_generic.go on internal/snmp (profile.go, client.go,*)
(* walk.go): the runs of one SNMP check while config pull replaces the     *)
(* profiles of the tenant, the device comes and goes and the check may be  *)
(* cancelled. A column of a profile is its OID; values, units and the tags *)
(* of a row are left out, so a metric is its canonical name, its row and   *)
(* the column that gave it.                                                *)
(***************************************************************************)
EXTENDS Integers, Sequences, FiniteSets

CONSTANTS Rows,      \* rows of the tables of the device
          Disabled,  \* metrics the user switched off
          MaxEdits   \* bound: editions of the tenant's profile

VARIABLES
  custom,     \* the check names the tenant's profile; otherwise it is "auto"
  edits,     \* editions of the tenant's profile so far
  overlay,   \* the edition registered here, or 0
  device,    \* "up" or "down"
  resolved,  \* the profile the check keeps: NoProfile, "generic" or an edition
  due,       \* the identity was last taken 15 minutes ago, or never
  step,      \* where the run is
  probed,    \* reachable
  stopped,   \* ctx is cancelled
  metrics,   \* what Collect gave
  report     \* what the last run emitted

snmpVars == <<custom, edits, overlay, device, resolved, due, step, probed, stopped,
              metrics, report>>

NoProfile == -1
Generic == 0

\* canonMetricName: the 32 and the 64 bit counter are one metric.
Canon(oid) == IF oid \in {"in64", "in32"} THEN "in" ELSE oid

\* The bundled catch-all reads a table, the tenant's profile a discovery rule; both
\* read a scalar. The order of the columns is that of the profile.
Scalars(p) == {"uptime"}
Columns(p) == IF p = Generic THEN <<"in32">> ELSE <<"in64", "in32">>
Cells(p) == (Scalars(p) \X {0}) \cup ({Columns(p)[i] : i \in 1 .. Len(Columns(p))} \X Rows)

\* MetricFamilies.
Families(p) == {Canon(c[1]) : c \in Cells(p)}

NoReport == [emitted |-> {}, reachable |-> FALSE, ok |-> FALSE, expected |-> {}, observed |-> {}, silent |-> TRUE]

SnmpTypeOK ==
  /\ custom \in BOOLEAN /\ edits \in 0 .. MaxEdits /\ overlay \in 0 .. edits /\ device \in {"up", "down"}
  /\ resolved \in NoProfile .. edits
  /\ due \in BOOLEAN
  /\ step \in {"idle", "resolve", "collect", "meta", "failed"} /\ probed \in BOOLEAN /\ stopped \in BOOLEAN

SnmpInit ==
  /\ custom \in BOOLEAN /\ overlay = (IF custom THEN 1 ELSE 0) /\ edits = overlay /\ device = "up"
  /\ resolved = NoProfile /\ due = TRUE
  /\ step = "idle" /\ probed = FALSE /\ stopped = FALSE /\ metrics = {} /\ report = NoReport

\* A request is answered only by a device that is up, and not after a cancel.
MayAnswer == IF device = "up" /\ ~stopped THEN {TRUE, FALSE} ELSE {FALSE}

-----------------------------------------------------------------------------
(* Run *)

\* The client is made and asks for sysObjectID.
Probe ==
  /\ step = "idle" /\ ~stopped
  /\ \E answer \in MayAnswer : probed' = answer
  /\ step' = "resolve" /\ metrics' = {}
  /\ UNCHANGED <<custom, edits, overlay, device, resolved, due, stopped, report>>

\* LoadProfile and MatchSysObjectID: the tenant's profile has the longest base that
\* fits the device; a name that is not registered is an error.
Match == IF overlay # 0 THEN overlay ELSE IF custom THEN NoProfile ELSE Generic

\* resolveProfile: the first success is kept. "auto" asks the device once more.
Resolve ==
  /\ step = "resolve"
  /\ \E answer \in IF custom THEN {TRUE} ELSE MayAnswer :
       resolved' = IF resolved # NoProfile THEN resolved ELSE IF answer THEN Match ELSE NoProfile
  /\ step' = IF resolved' = NoProfile THEN "failed" ELSE "collect"
  /\ UNCHANGED <<custom, edits, overlay, device, due, probed, stopped, metrics, report>>

EmittedEach(p, answered) == {[name |-> Canon(c[1]), row |-> c[2], by |-> c[1]] : c \in answered}

\* Collect and executeDiscoveryRule: of the columns with one canonical name the first
\* that has a value for the row gives it.
Emitted(p, answered) ==
  LET before(c) == {Columns(p)[i] : i \in {i \in 1 .. Len(Columns(p)) :
                      \E j \in i + 1 .. Len(Columns(p)) : Columns(p)[j] = c[1]}}
      first(c) == \A d \in answered : d[2] = c[2] /\ Canon(d[1]) = Canon(c[1]) => d[1] \notin before(c)
  IN  {[name |-> Canon(c[1]), row |-> c[2], by |-> c[1]] : c \in {c \in answered : first(c)}}

ReachableByProbe == probed

\* Metrics of the device prove that it is there even if the probe was lost.
Reachable == probed \/ metrics # {}

\* Any part of the cells may be answered: walks fail one by one. Nothing at all is an
\* error.
CollectProfile ==
  /\ step = "collect"
  /\ \E answered \in IF TRUE \in MayAnswer THEN SUBSET Cells(resolved) ELSE {{}} :
       /\ metrics' = Emitted(resolved, answered)
       /\ step' = IF answered = {} THEN "failed" ELSE "meta"
  /\ UNCHANGED <<custom, edits, overlay, device, resolved, due, probed, stopped, report>>

\* What the deferred function and the coverage report add; a cancelled run is silent.
Reported(ok) ==
  LET kept == {m \in metrics : m.name \notin Disabled}
      wanted == Families(resolved) \ Disabled
  IN  IF stopped THEN NoReport
      ELSE [emitted |-> IF ok THEN kept ELSE {}, reachable |-> Reachable, ok |-> ok,
            expected |-> IF ok THEN wanted ELSE {},
            observed |-> IF ok THEN {m.name : m \in kept} \cap wanted ELSE {}, silent |-> FALSE]

\* maybeEmitDeviceMetadata, and the run returns. The time of the identity is set before
\* it is collected and posted, whatever comes of that.
FinishRun ==
  /\ step = "meta" /\ step' = "idle"
  /\ report' = Reported(TRUE)
  /\ due' = FALSE
  /\ UNCHANGED <<custom, edits, overlay, device, resolved, probed, stopped, metrics>>

Fail ==
  /\ step = "failed" /\ step' = "idle"
  /\ report' = Reported(FALSE)
  /\ UNCHANGED <<custom, edits, overlay, device, resolved, due, probed, stopped, metrics>>

-----------------------------------------------------------------------------
(* What happens meanwhile *)

\* RegisterDynamicProfiles of config pull: an edited profile, or none any more.
RegisterDynamicProfiles ==
  /\ \/ edits < MaxEdits /\ edits' = edits + 1 /\ overlay' = edits + 1
     \/ overlay # 0 /\ overlay' = 0 /\ UNCHANGED edits
  /\ UNCHANGED <<custom, device, resolved, due, step, probed, stopped, metrics, report>>

\* stopCheck cancels the context of the run.
CancelRun ==
  /\ ~stopped /\ stopped' = TRUE
  /\ UNCHANGED <<custom, edits, overlay, device, resolved, due, step, probed, metrics, report>>

\* newSnmpGenericCheck for a changed configuration, once the old run is over.
Recreate ==
  /\ stopped /\ step = "idle" /\ custom => overlay # 0
  /\ stopped' = FALSE /\ resolved' = NoProfile /\ due' = TRUE
  /\ report' = NoReport
  /\ UNCHANGED <<custom, edits, overlay, device, step, probed, metrics>>

DeviceChanges ==
  /\ device' \in {"up", "down"} \ {device}
  /\ UNCHANGED <<custom, edits, overlay, resolved, due, step, probed, stopped, metrics, report>>

\* 15 minutes pass.
IdentityDue ==
  /\ ~due /\ due' = TRUE
  /\ UNCHANGED <<custom, edits, overlay, device, resolved, step, probed, stopped, metrics, report>>

SnmpNext ==
  \/ Probe \/ Resolve \/ CollectProfile \/ FinishRun \/ Fail
  \/ RegisterDynamicProfiles \/ CancelRun \/ Recreate \/ DeviceChanges \/ IdentityDue

SnmpSpec == SnmpInit /\ [][SnmpNext]_snmpVars

-----------------------------------------------------------------------------
(* Properties *)

\* What a run says of the device agrees with what it brought: it never calls a device
\* unreachable and delivers its metrics, it gives one value for a metric and a row
\* although two counters of the device feed it, and what it counts as observed it
\* expected.
ReportAgrees ==
  /\ report.emitted # {} => report.reachable /\ report.ok
  /\ \A m, n \in report.emitted : m.name = n.name /\ m.row = n.row => m = n
  /\ report.observed \subseteq report.expected
=============================================================================
