----------------------------- MODULE MCProgress -----------------------------
(***************************************************************************)
(* Small instances, with the fairness of each, of components that must get *)
(* something done in the end: config pull, the process of the collector,   *)
(* the device jobs and the eBPF bridge. They share no state, so a          *)
(* behaviour moves one of them, part, and the others stay as they start.   *)
(***************************************************************************)
EXTENDS Collector, DeviceJobs

VARIABLES
  part,
  (* config pull *)
  hist, update, healthy, reachable, restarts, pulling, resp, since, running, pending, targets, overlay, written,
  (* eBPF bridge *)
  run, todo, open, used, sent, traced, tcp, l7, lost, events, conns, parsers, spans

configVars == <<hist, update, healthy, reachable, restarts, pulling, resp, since, running, pending, targets, overlay,
                written>>
bridgeVars == <<run, todo, open, used, sent, traced, tcp, l7, lost, events, conns, parsers, spans>>
progressVars == <<part, configVars, vars, jobVars, bridgeVars>>

-----------------------------------------------------------------------------
\* The operator also asks for an update.
Config == INSTANCE ConfigPull
  WITH Checks <- {"c1"}, MaxVersion <- 3, MaxRestarts <- 1, AsksUpdate <- TRUE, up <- reachable, marker <- written,
       pc <- pulling

\* A command that is allowed and one that is not.
MCCommand == [j1 |-> "read", j2 |-> "write"]

\* One place in the channel for two connections that are open already.
Bridge == INSTANCE EbpfBridge
  WITH Slots <- {1, 2}, ChanSize <- 1, RingSize <- 1, MaxConns <- 2, MaxSent <- 1

-----------------------------------------------------------------------------
\* Every component starts; one that will not move starts in one way only.
ProgressInit ==
  /\ part \in {"config", "process", "jobs", "bridge"}
  /\ Config!Init /\ (part # "config" => reachable["c1"])
  /\ Init /\ (part # "process" => profile = "default" /\ kind = "linux")
  /\ JobsInit
  /\ Bridge!BridgeInit

ProgressNext ==
  /\ UNCHANGED part
  /\ IF part = "config" THEN Config!Next ELSE UNCHANGED configVars
  /\ IF part = "process" THEN Next ELSE UNCHANGED vars
  /\ IF part = "jobs" THEN JobsNext ELSE UNCHANGED jobVars
  /\ IF part = "bridge" THEN Bridge!BridgeNext ELSE UNCHANGED bridgeVars

\* The Fairness of each component, while it is the one that moves.
ProgressFairness ==
  /\ WF_configVars(part = "config" /\ Config!PullStep)
  /\ WF_vars(part = "process" /\ MainStep) /\ WF_vars(part = "process" /\ SenderStep)
  /\ WF_vars(part = "process" /\ Revoke) /\ WF_vars(part = "process" /\ Retry)
  /\ WF_vars(part = "process" /\ main = "exited" /\ Launch)
  /\ \A j \in Jobs :
       /\ SF_jobVars(part = "jobs" /\ PullJob(j, TRUE))
       /\ WF_jobVars(part = "jobs" /\ current # j /\ LeaseLapses(j))
  /\ WF_jobVars(part = "jobs" /\ \E session \in Sessions : Execute(session))
  /\ SF_jobVars(part = "jobs" /\ PostAcknowledged) /\ WF_jobVars(part = "jobs" /\ WaitEnds)
  /\ WF_jobVars(part = "jobs" /\ pc = "stopped" /\ Restart)
  /\ WF_bridgeVars(part = "bridge" /\ Bridge!Load) /\ WF_bridgeVars(part = "bridge" /\ Bridge!List)
  /\ WF_bridgeVars(part = "bridge" /\ Bridge!Announced) /\ WF_bridgeVars(part = "bridge" /\ Bridge!Attach)
  /\ WF_bridgeVars(part = "bridge" /\ \E e \in todo : Bridge!Announce(e))
  /\ WF_bridgeVars(part = "bridge" /\ Bridge!Consume)

ProgressSpec == ProgressInit /\ [][ProgressNext]_progressVars /\ ProgressFairness

-----------------------------------------------------------------------------
(* Properties *)

\* Each component keeps its types.
ProgressTypeOK ==
  CASE part = "config" -> Config!TypeOK
    [] part = "process" -> TypeOK
    [] part = "jobs" -> JobsTypeOK
    [] part = "bridge" -> Bridge!BridgeTypeOK

\* What was taken over is not forgotten: a batch that was in the channel when the process
\* was told to stop is in the outbox when it has ended, and the result of an executed
\* device job stays pending until the server has it.
NothingForgotten == DrainedBeforeExit /\ ResultKept

\* Once requests and factories keep succeeding the agent runs what the server has,
\* though a delta is sent only once.
Converges == part = "config" => Config!Converges

\* Every device job is executed and its result recorded in the end.
AllServed == part = "jobs" => JobsServed

\* The tracer comes up or fails; announcing open connections does not block it.
TracerUp == part = "bridge" => Bridge!TracerUp
=============================================================================
