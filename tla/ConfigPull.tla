------------------------------ MODULE ConfigPull ------------------------------
(***************************************************************************)
(* internal/configpull/configpull.go (pullOnce) with the tables it fills:  *)
(* the checks and pendingStarts of checks.Runtime (ApplyDelta and          *)
(* RetryFailedStarts), the PostgreSQL targets of the eBPF monitor and the  *)
(* overlay of custom SNMP profiles.                                        *)
(*                                                                         *)
(* One goroutine polls, so ApplyDelta never runs twice at once and is one  *)
(* step. A configuration of a check is its version; what the provider of   *)
(* versions is assumed to do (a monotonic version and exact deltas) is     *)
(* what the package comment says of the server.                            *)
(***************************************************************************)
EXTENDS Integers, Sequences

CONSTANTS Checks,       \* check ids
          MaxVersion,   \* bound: edits on the server
          MaxRestarts,  \* bound: restarts of the agent
          AsksUpdate    \* bound: whether the operator asks (once) for an update

\* The bounds are numbers.
Bounded == MaxVersion \in Nat /\ MaxRestarts \in Nat
ASSUME BoundAssumption == Bounded

\* "plain" has a factory that may fail for a while, "custom" also needs an SNMP
\* profile of the tenant, "unknown" is a check_type this agent does not have.
Types == {"plain", "custom", "unknown"}
Absent == [ver |-> 0, type |-> "plain"]

VARIABLES
  hist,       \* server: configuration after each edit
  update,     \* server: should_update, served once
  healthy,    \* environment: requests succeed and the APM policies are valid
  up,         \* environment: check -> its factory can reach its target
  restarts,   \* restarts so far
  pc,         \* where pullOnce is
  resp,       \* the response it works on
  since,      \* sinceVer
  running,    \* r.checks: check -> version of the running instance, or 0
  pending,    \* r.pendingStarts: check -> version waiting for its factory, or 0
  targets,    \* byCheck of the monitor registry: check -> version, or 0
  overlay,    \* version whose SNMP profiles are registered
  marker      \* the update marker was written

server == <<hist, update>>
env == <<healthy, up, restarts>>
tables == <<running, pending, targets, overlay>>
vars == <<server, env, pc, resp, since, tables, marker>>

Versions == 0 .. MaxVersion
Config == [Checks -> [ver : Versions, type : Types]]

At(v) == IF v = 0 THEN [c \in Checks |-> Absent] ELSE hist[v]
conf == At(Len(hist))

TypeOK ==
  /\ hist \in Seq(Config) /\ Len(hist) <= MaxVersion
  /\ update \in {"none", "asked", "served"}
  /\ healthy \in BOOLEAN /\ up \in [Checks -> BOOLEAN] /\ restarts \in 0 .. MaxRestarts
  /\ pc \in {"idle", "policies", "update", "delta", "store"}
  /\ resp \in [version : 0 .. Len(hist), update : BOOLEAN]
  /\ since \in 0 .. resp.version
  /\ running \in [Checks -> Versions] /\ pending \in [Checks -> Versions]
  /\ targets \in [Checks -> Versions] /\ overlay \in Versions
  /\ marker \in BOOLEAN

NoResponse == [version |-> 0, update |-> FALSE]
Nothing == [c \in Checks |-> 0]

Init ==
  /\ hist = <<>> /\ update = "none"
  /\ healthy = TRUE /\ up \in [Checks -> BOOLEAN] /\ restarts = 0
  /\ pc = "idle" /\ resp = NoResponse /\ since = 0
  /\ running = Nothing /\ pending = Nothing /\ targets = Nothing /\ overlay = 0
  /\ marker = FALSE

-----------------------------------------------------------------------------
(* The server *)

Edit(c, config) ==
  /\ Len(hist) < MaxVersion
  /\ hist' = Append(hist, [conf EXCEPT ![c] = config])
  /\ UNCHANGED <<update, env, pc, resp, since, tables, marker>>

Save(c) == \E t \in Types : Edit(c, [ver |-> Len(hist) + 1, type |-> t])
Delete(c) == conf[c].ver # 0 /\ Edit(c, Absent)

\* The operator clicks "Atualizar agora".
AskUpdate ==
  /\ AsksUpdate /\ update = "none"
  /\ update' = "asked"
  /\ UNCHANGED <<hist, env, pc, resp, since, tables, marker>>

\* added_or_updated and deleted_ids of a response.
Added(v) == {c \in Checks : At(v)[c].ver > since}
Deleted(v) == {c \in Checks : At(v)[c].ver = 0 /\ \E u \in since .. v : At(u)[c].ver # 0}

-----------------------------------------------------------------------------
(* pullOnce *)

\* The report of the tag sources and the GET. When either fails pullOnce
\* returns and nothing has changed.
Pull ==
  /\ pc = "idle"
  /\ healthy
  /\ resp' = [version |-> Len(hist), update |-> update = "asked"]
  /\ update' = IF update = "asked" THEN "served" ELSE update
  /\ pc' = "policies"
  /\ UNCHANGED <<hist, env, since, tables, marker>>

\* The APM policies (sampling, processing, remote, primary tags) are applied
\* and acknowledged one after the other.
PoliciesPass ==
  /\ pc = "policies"
  /\ pc' = "update"
  /\ UNCHANGED <<server, env, resp, since, tables, marker>>

\* One is invalid, or cannot be acknowledged: pullOnce returns.
PoliciesFail ==
  /\ pc = "policies"
  /\ ~healthy
  /\ pc' = "idle"
  /\ UNCHANGED <<server, env, resp, since, tables, marker>>

\* A failed write is only logged.
WriteMarker ==
  /\ pc = "update"
  /\ marker' \in {marker, marker \/ resp.update}
  /\ pc' = "delta"
  /\ UNCHANGED <<server, env, resp, since, tables>>

\* factory(cfg) for the configuration of c written at version v.
Starts(c, v) ==
  /\ up[c]
  /\ At(v)[c].type = "custom" => overlay >= v

NeverRetries(c) == FALSE

\* RetryFailedStarts starts c.
Retries(c) == pending[c] # 0 /\ Starts(c, pending[c])

\* Nothing changed.
ShortCircuit ==
  /\ pc = "delta"
  /\ resp.version = since
  /\ running' = [c \in Checks |-> IF Retries(c) THEN pending[c] ELSE running[c]]
  /\ pending' = [c \in Checks |-> IF Retries(c) THEN 0 ELSE pending[c]]
  /\ pc' = "idle"
  /\ UNCHANGED <<server, env, resp, since, targets, overlay, marker>>

StoppingFirst(c, v) ==
  CASE At(v)[c].type = "unknown" -> <<running[c], 0>>
    [] At(v)[c].type # "unknown" /\ Starts(c, v) -> <<v, 0>>
    [] OTHER -> <<0, v>>

\* What ApplyDelta leaves in checks and in pendingStarts for an added or
\* updated check: the instance it had goes on when there is none to replace it.
Installed(c, v) ==
  CASE At(v)[c].type = "unknown" -> <<running[c], 0>>
    [] At(v)[c].type # "unknown" /\ Starts(c, v) -> <<v, 0>>
    [] OTHER -> <<running[c], v>>

KeepingPending(c) == <<0, pending[c]>>

\* ... and for a deleted one.
Removed(c) == <<0, 0>>

\* ... and, from RetryFailedStarts, for the others when nothing was added.
Kept(c, v) ==
  IF Added(v) = {} /\ Retries(c) THEN <<pending[c], 0>> ELSE <<running[c], pending[c]>>

ApplyDelta ==
  LET v == resp.version
      table == [c \in Checks |->
                 CASE c \in Deleted(v) -> Removed(c)
                   [] c \in Added(v) -> Installed(c, At(v)[c].ver)
                   [] OTHER -> Kept(c, v)]
  IN  /\ pc = "delta"
      /\ v # since
      /\ running' = [c \in Checks |-> table[c][1]]
      /\ pending' = [c \in Checks |-> table[c][2]]
      /\ pc' = "store"
      /\ UNCHANGED <<server, env, resp, since, targets, overlay, marker>>

TargetsIfResolved(c, v) ==
  CASE c \in Deleted(v) -> {0}
    [] c \in Added(v) -> {targets[c], At(v)[c].ver}
    [] OTHER -> {targets[c]}

\* ApplyPostgresServerDelta: a new address, or none when it is incomplete or
\* does not resolve; never the address of an older configuration.
TargetsAfter(c, v) ==
  CASE c \in Deleted(v) -> {0}
    [] c \in Added(v) -> {0, At(v)[c].ver}
    [] OTHER -> {targets[c]}

\* The targets, the profiles, and sinceVer last.
StoreVersion ==
  /\ pc = "store"
  /\ targets' \in [Checks -> Versions]
  /\ \A c \in Checks : targets'[c] \in TargetsAfter(c, resp.version)
  /\ overlay' = resp.version
  /\ since' = resp.version
  /\ pc' = "idle"
  /\ UNCHANGED <<server, env, resp, running, pending, marker>>

-----------------------------------------------------------------------------
(* Environment *)

HealthChanges ==
  /\ healthy' = ~healthy
  /\ UNCHANGED <<server, up, restarts, pc, resp, since, tables, marker>>

TargetChanges(c) ==
  /\ up' = [up EXCEPT ![c] = ~@]
  /\ UNCHANGED <<server, healthy, restarts, pc, resp, since, tables, marker>>

RestartKeepingVersion ==
  /\ restarts < MaxRestarts
  /\ restarts' = restarts + 1
  /\ pc' = "idle" /\ resp' = NoResponse
  /\ running' = Nothing /\ pending' = Nothing /\ targets' = Nothing /\ overlay' = 0
  /\ UNCHANGED <<server, healthy, up, since, marker>>

\* Only the marker is on disk: the agent starts from version 0.
Restart ==
  /\ restarts < MaxRestarts
  /\ restarts' = restarts + 1
  /\ pc' = "idle" /\ resp' = NoResponse /\ since' = 0
  /\ running' = Nothing /\ pending' = Nothing /\ targets' = Nothing /\ overlay' = 0
  /\ UNCHANGED <<server, healthy, up, marker>>

PullStep ==
  Pull \/ PoliciesPass \/ PoliciesFail \/ WriteMarker \/ ShortCircuit \/ ApplyDelta \/ StoreVersion

Next ==
  \/ \E c \in Checks : Save(c) \/ Delete(c) \/ TargetChanges(c)
  \/ AskUpdate
  \/ PullStep
  \/ HealthChanges
  \/ Restart

\* The ticker of Run ticks and every call of pullOnce ends.
Fairness == WF_vars(PullStep)

Spec == Init /\ [][Next]_vars /\ Fairness

-----------------------------------------------------------------------------
(* Properties *)

\* The configuration the tables stand for.
Applied == At(IF pc = "store" THEN resp.version ELSE since)

\* sinceVer never claims more than was done, and never less is kept: the
\* server will not send again what is at or below it, so each check is gone,
\* or runs at exactly that version, or waits in pendingStarts for its factory
\* (an older instance, if there is one, going on). No sequence of edits,
\* deletes, failed starts and retries revives a superseded or deleted check.
InSync ==
  \A c \in Checks :
    LET v == Applied[c].ver
    IN  CASE v = 0 -> running[c] = 0 /\ pending[c] = 0
          [] v # 0 /\ Applied[c].type = "unknown" -> running[c] < v /\ pending[c] = 0
          [] OTHER -> \/ running[c] = v /\ pending[c] = 0
                      \/ running[c] < v /\ pending[c] = v

\* Collection stops only when the server deletes the check: a configuration
\* that cannot start (or is unknown here) never takes the running one down.
StopsOnlyDeleted ==
  [][\A c \in Checks :
       running[c] # 0 /\ running'[c] = 0 => At(resp.version)[c].ver = 0 \/ restarts' # restarts]_vars

\* eBPF never attributes traffic to a database by an address that a later
\* configuration replaced, even while the check itself still runs with it.
TargetsCurrent ==
  pc # "store" => \A c \in Checks : targets[c] \in {0, Applied[c].ver}

\* What pullOnce promises at every moment of the tables it fills, both parts.
ConfigInSync == InSync /\ TargetsCurrent

\* Once requests and factories keep succeeding the agent runs what the server
\* has, though a delta is sent only once: also a check whose factory had failed,
\* and one whose SNMP profile is registered only after its first start failed.
Converges ==
  <>[](healthy /\ \A c \in Checks : up[c]) =>
    <>[](\A c \in Checks : conf[c].type # "unknown" => running[c] = conf[c].ver)

\* "config-pull manda should_update -> agente escreve update-requested": the
\* flag is served once, so a response that carries it leads to the marker.
UpdateNotLost ==
  update = "served" => marker \/ (pc \in {"policies", "update"} /\ resp.update)
=============================================================================
