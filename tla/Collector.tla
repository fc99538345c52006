----------------------------- MODULE Collector -----------------------------
(***************************************************************************)
(* cmd/collector/main.go: one process of the agent from its start to its   *)
(* exit, and the supervisor that starts the next one. The producers of     *)
(* metrics share the channel out; one sender takes the batches from it to  *)
(* the durable outbox (SendQueue). A database agent also has a revocation  *)
(* marker on disk. Which environment variables switch which optional part  *)
(* on is left out: every producer of a kind is one producer here.          *)
(***************************************************************************)
EXTENDS Integers, Sequences, FiniteSets

CONSTANTS OutCap,     \* capacity of the channel out
          MaxBatches, \* bound: batches of metrics collected
          MaxStarts   \* bound: processes started

ASSUME CollectorAssumption == OutCap \in Nat /\ MaxBatches \in Nat /\ MaxStarts \in Nat

VARIABLES
  profile,   \* "database" or "default"
  kind,      \* TELVYN_AGENT_KIND
  marker,    \* disk: the revocation marker
  starts,    \* processes started so far
  main,      \* where the main goroutine is
  canceled,  \* ctx is done
  revoked,   \* databaseRevoked and its Once: "no", "noted" or "done"
  collector, \* the collector id is known
  reg,       \* the registration loop
  prod,      \* producer -> Off, On or the batch it holds
  out,       \* the channel
  sender,    \* <<where the sender is, batch it holds>>
  collected, \* batches collected so far
  early,     \* batches put in the channel before ctx was done
  outbox     \* batches offered to the outbox

vars == <<profile, kind, marker, starts, main, canceled, revoked, collector, reg, prod, out, sender,
          collected, early, outbox>>
process == <<canceled, revoked, collector, reg, prod, out, sender>>

\* Self metrics; the local check of the machine; the checks of config pull.
Producers == {"self", "local", "checks"}
NoBatch == 0
Kinds == {"linux", "docker", "k8s.node"}
\* A database agent is linux or docker.
Agents == {<<"database", "linux">>, <<"database", "docker">>} \cup ({"default"} \X Kinds)
Off == -1
On == 0
AllOff == [p \in Producers |-> Off]

TypeOK ==
  /\ <<profile, kind>> \in Agents /\ marker \in BOOLEAN
  /\ main \in {"boot", "registering", "starting", "up", "exited"}
  /\ canceled \in BOOLEAN /\ revoked \in {"no", "noted", "done"} /\ collector \in BOOLEAN
  /\ reg \in {"off", "try", "wait", "beat", "gone"}
  /\ prod \in [Producers -> -1 .. MaxBatches]
  /\ Len(out) <= OutCap
  /\ sender[1] \in {"off", "select", "post", "drain", "drainpost", "gone"}
  /\ collected <= MaxBatches /\ outbox \subseteq 1 .. collected /\ early \subseteq 1 .. collected

Fresh ==
  /\ canceled' = FALSE /\ revoked' = "no" /\ collector' = FALSE /\ reg' = "off"
  /\ out' = <<>> /\ early' = {}

Init ==
  /\ \E agent \in Agents : profile = agent[1] /\ kind = agent[2]
  /\ marker = FALSE /\ starts = 1 /\ main = "boot"
  /\ canceled = FALSE /\ revoked = "no" /\ collector = FALSE /\ reg = "off"
  /\ prod = AllOff /\ out = <<>> /\ sender = <<"off", NoBatch>>
  /\ collected = 0 /\ early = {} /\ outbox = {}

-----------------------------------------------------------------------------
(* main *)

BootWithSelfMetrics ==
  /\ main = "boot"
  /\ IF marker THEN main' = "exited" /\ UNCHANGED <<prod, sender>>
     ELSE main' = "registering" /\ prod' = [prod EXCEPT !["self"] = On] /\ sender' = <<"select", NoBatch>>
  /\ UNCHANGED <<profile, kind, marker, starts, canceled, revoked, collector, reg, out, collected, early, outbox>>

BootIgnoringMarker ==
  /\ main = "boot" /\ main' = "registering"
  /\ prod' = IF profile = "database" THEN prod ELSE [prod EXCEPT !["self"] = On]
  /\ sender' = <<"select", NoBatch>>
  /\ UNCHANGED <<profile, kind, marker, starts, canceled, revoked, collector, reg, out, collected, early, outbox>>

\* runIngestMode up to the sender: a revoked database agent, or one without its
\* identity, stops here; only other agents produce from the first moment.
Boot ==
  /\ main = "boot"
  /\ \/ /\ profile = "database"
        /\ main' = "exited"
        /\ UNCHANGED <<prod, sender>>
     \/ /\ profile = "database" => ~marker
        /\ main' = "registering"
        /\ prod' = IF profile = "database" THEN prod ELSE [prod EXCEPT !["self"] = On]
        /\ sender' = <<"select", NoBatch>>
  /\ UNCHANGED <<profile, kind, marker, starts, canceled, revoked, collector, reg, out, collected, early, outbox>>

\* databaseTerminalRemoval begins: a 410 reached a database agent for the first time.
Noted == IF profile = "database" /\ revoked = "no" THEN "noted" ELSE revoked

\* RegisterCollector: a collector id, an error, or 410.
CollectorReplies == IF canceled THEN {"error"} ELSE {"id", "error", "gone"}

\* registerHost and RegisterK8sNode. With ctx done no request succeeds.
HostReplies == IF canceled THEN {"error"} ELSE {"host", "error"}

\* The registration of the node, inline in main; a failure is only logged. The
\* kubelet check starts with the host id of the reply.
RegisterNode ==
  /\ main = "registering" /\ kind = "k8s.node" /\ main' = "starting"
  /\ \E host \in HostReplies :
       prod' = [prod EXCEPT !["local"] = IF host = "host" THEN On ELSE @]
  /\ UNCHANGED <<profile, kind, marker, starts, canceled, revoked, collector, reg, out, sender, collected,
                 early, outbox>>

\* The same for a machine: the collector first, then the host. A database agent
\* starts its self metrics with the first and creates no host.
RegisterMachine ==
  /\ main = "registering" /\ kind \in {"docker", "linux"} /\ main' = "starting"
  /\ \E reply \in CollectorReplies, host \in HostReplies :
       /\ collector' = (reply = "id")
       /\ revoked' = IF reply = "gone" THEN Noted ELSE revoked
       /\ prod' = IF profile = "database"
                    THEN [prod EXCEPT !["self"] = IF reply = "id" THEN On ELSE @]
                    ELSE [prod EXCEPT !["local"] = IF host = "host" THEN On ELSE @]
  /\ UNCHANGED <<profile, kind, marker, starts, canceled, reg, out, sender, collected, early, outbox>>

\* The optional parts start; startIngestChecks starts the registration loop.
StartLoops ==
  /\ main = "starting" /\ main' = "up" /\ reg' = "try"
  /\ UNCHANGED <<profile, kind, marker, starts, canceled, revoked, collector, prod, out, sender, collected,
                 early, outbox>>

\* SIGTERM or interrupt.
Signal ==
  /\ main \notin {"boot", "exited"} /\ ~canceled
  /\ canceled' = TRUE
  /\ UNCHANGED <<profile, kind, marker, starts, main, revoked, collector, reg, prod, out, sender, collected,
                 early, outbox>>

\* persistDatabaseAgentRevocation, which may fail, and then cancel.
Revoke ==
  /\ revoked = "noted" /\ revoked' = "done" /\ main # "exited"
  /\ marker' \in {marker, TRUE}
  /\ canceled' = TRUE
  /\ UNCHANGED <<profile, kind, starts, main, collector, reg, prod, out, sender, collected, early, outbox>>

\* Main waits for ctx and for the sender, and for nobody else.
Exit ==
  /\ main = "up" /\ canceled /\ sender[1] = "gone"
  /\ main' = "exited"
  /\ UNCHANGED <<profile, kind, marker, starts, process, collected, early, outbox>>

\* The supervisor starts the process again, after an exit or a crash.
Launch ==
  /\ starts < MaxStarts
  /\ starts' = starts + 1 /\ main' = "boot" /\ Fresh
  /\ prod' = AllOff /\ sender' = <<"off", NoBatch>>
  /\ UNCHANGED <<profile, kind, marker, collected, outbox>>

-----------------------------------------------------------------------------
(* runCollectorRegistrationLoop *)

\* The first registration that gives an id starts config pull and what waited
\* for it; later ones are the heartbeat.
Register ==
  /\ main # "exited" /\ reg \in {"try", "beat"}
  /\ \E reply \in CollectorReplies :
       /\ revoked' = IF reply = "gone" THEN Noted ELSE revoked
       /\ reg' = IF reg = "beat" THEN "beat" ELSE IF reply = "id" THEN "beat" ELSE "wait"
       /\ IF reg = "try" /\ reply = "id"
            THEN collector' = TRUE /\ prod' = [prod EXCEPT !["self"] = IF @ = Off THEN On ELSE @,
                                                           !["checks"] = On]
            ELSE UNCHANGED <<collector, prod>>
  /\ UNCHANGED <<profile, kind, marker, starts, main, canceled, out, sender, collected, early, outbox>>

\* The back-off ends, or ctx is done.
Retry ==
  /\ main # "exited"
  /\ \/ reg = "wait" /\ reg' = "try"
     \/ reg \in {"wait", "beat"} /\ canceled /\ reg' = "gone"
  /\ UNCHANGED <<profile, kind, marker, starts, main, canceled, revoked, collector, prod, out, sender, collected,
                 early, outbox>>

-----------------------------------------------------------------------------
(* Producers: a run of a check, then a send that does not block *)

\* After ctx is done a ticker may still win once more; the runtime of the checks
\* drops what such a run brings.
Collect(p) ==
  /\ main # "exited" /\ prod[p] = On /\ collected < MaxBatches
  /\ canceled => p # "checks"
  /\ collected' = collected + 1
  /\ prod' = [prod EXCEPT ![p] = collected + 1]
  /\ UNCHANGED <<profile, kind, marker, starts, main, canceled, revoked, collector, reg, out, sender, early, outbox>>

PutBlocking(p) ==
  /\ main # "exited" /\ prod[p] > 0
  /\ prod' = [prod EXCEPT ![p] = On]
  /\ out' = Append(out, prod[p]) /\ early' = IF canceled THEN early ELSE early \cup {prod[p]}
  /\ UNCHANGED <<profile, kind, marker, starts, main, canceled, revoked, collector, reg, sender, collected, outbox>>

\* A full channel drops the batch; with ctx done either branch may be taken.
Put(p) ==
  /\ main # "exited" /\ prod[p] > 0
  /\ prod' = [prod EXCEPT ![p] = On]
  /\ \/ Len(out) < OutCap /\ out' = Append(out, prod[p])
        /\ early' = IF canceled THEN early ELSE early \cup {prod[p]}
     \/ (Len(out) = OutCap \/ canceled) /\ UNCHANGED <<out, early>>
  /\ UNCHANGED <<profile, kind, marker, starts, main, canceled, revoked, collector, reg, sender, collected, outbox>>

Stop(p) ==
  /\ canceled /\ prod[p] = On
  /\ prod' = [prod EXCEPT ![p] = Off]
  /\ UNCHANGED <<profile, kind, marker, starts, main, canceled, revoked, collector, reg, out, sender, collected,
                 early, outbox>>

-----------------------------------------------------------------------------
(* The sender *)

Take(from, to) ==
  /\ sender[1] = from /\ out # <<>>
  /\ sender' = <<to, Head(out)>> /\ out' = Tail(out)
  /\ UNCHANGED <<profile, kind, marker, starts, main, canceled, revoked, collector, reg, prod, collected, early, outbox>>

\* PostMetrics: the batch enters the outbox whatever ctx and the gateway do.
Post(from, to) ==
  /\ main # "exited" /\ sender[1] = from
  /\ sender' = <<to, NoBatch>>
  /\ outbox' = outbox \cup {sender[2]}
  /\ revoked' \in {revoked, Noted}
  /\ UNCHANGED <<profile, kind, marker, starts, main, canceled, collector, reg, prod, out, collected, early>>

SeesDoneWithoutDraining ==
  /\ sender[1] = "select" /\ canceled
  /\ sender' = <<"gone", NoBatch>>
  /\ UNCHANGED <<profile, kind, marker, starts, main, canceled, revoked, collector, reg, prod, out, collected,
                 early, outbox>>

\* A revoked agent discards what is pending.
SeesDone ==
  /\ sender[1] = "select" /\ canceled
  /\ sender' = <<IF revoked = "no" THEN "drain" ELSE "gone", NoBatch>>
  /\ UNCHANGED <<profile, kind, marker, starts, main, canceled, revoked, collector, reg, prod, out, collected,
                 early, outbox>>

DrainEnds ==
  /\ sender[1] = "drain" /\ out = <<>>
  /\ sender' = <<"gone", NoBatch>>
  /\ UNCHANGED <<profile, kind, marker, starts, main, canceled, revoked, collector, reg, prod, out, collected,
                 early, outbox>>

SenderStep ==
  \/ Take("select", "post") \/ Post("post", "select") \/ SeesDone
  \/ Take("drain", "drainpost") \/ Post("drainpost", "drain") \/ DrainEnds

MainStep == Boot \/ RegisterNode \/ RegisterMachine \/ StartLoops \/ Exit

Next ==
  \/ MainStep \/ Signal \/ Revoke \/ Launch
  \/ Register \/ Retry
  \/ \E p \in Producers : Collect(p) \/ Put(p) \/ Stop(p)
  \/ SenderStep

\* Goroutines run, requests end by their time-outs, a supervisor restarts.
Fairness ==
  /\ WF_vars(MainStep) /\ WF_vars(SenderStep) /\ WF_vars(Revoke)
  /\ WF_vars(Retry)
  /\ WF_vars(Launch /\ main = "exited")

Spec == Init /\ [][Next]_vars /\ Fairness

-----------------------------------------------------------------------------
(* Properties *)

\* A batch that was in the channel when ctx was done is in the outbox when the
\* process has ended, unless the agent was revoked meanwhile: the sender empties
\* the channel before main may return.
DrainedBeforeExit ==
  main = "exited" /\ revoked = "no" => early \subseteq outbox

\* An agent whose revocation reached the disk ends and, however often it is started
\* again, stays out of operation.
RevokedForGood ==
  marker ~> [](main \in {"boot", "exited"})
=============================================================================
