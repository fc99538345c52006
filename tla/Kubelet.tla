------------------------------ MODULE Kubelet ------------------------------
(***************************************************************************)
(* The k8s.kubelet check: the CPU rate of a container from two readings of *)
(* its cumulative counter, and the optional endpoints of the kubelet, each *)
(* with a coverage gauge of its own.  Containers run, restart and go, and  *)
(* the kubelet serves what it knows (external).                            *)
(***************************************************************************)
EXTENDS Naturals, FiniteSets

CONSTANTS Containers,   \* (namespace, pod, container) names
          Endpoints,    \* CRI images, cAdvisor, metrics, probes, SLIs
          MaxUse,       \* bound on the CPU a container consumes in a life
          MaxLives,     \* bound on the starts of a container
          MaxKubeTime   \* bound on the clock

KubeletSized == MaxUse \in Nat /\ MaxLives \in Nat /\ MaxKubeTime \in Nat \ {0}
ASSUME KubeletAssumption == KubeletSized

VARIABLES counter,      \* counter[c]: CPU used since its start
          life,         \* life[c]: its start time (and pod UID), 0 when absent
          kubeTime,
          containerCPU, \* the samples of the previous run
          truth,        \* what those containers really read then (ghost)
          kubeOut       \* rates and endpoint series of the last run
kubeletVars == <<counter, life, kubeTime, containerCPU, truth, kubeOut>>

KubeletInit ==
  /\ counter = [c \in Containers |-> 0]
  /\ life = [c \in Containers |-> 0]
  /\ kubeTime = 1
  /\ containerCPU = {}
  /\ truth = {}
  /\ kubeOut = [rates |-> {}, up |-> {}, series |-> {}]

\* A container starts: a fresh counter and a start time of its own.
StartContainer(c) ==
  /\ life[c] < MaxLives
  /\ life' = [life EXCEPT ![c] = @ + 1]
  /\ counter' = [counter EXCEPT ![c] = 0]
  /\ UNCHANGED <<kubeTime, containerCPU, truth, kubeOut>>

Consume(c) ==
  /\ life[c] > 0 /\ counter[c] < MaxUse
  /\ counter' = [counter EXCEPT ![c] = @ + 1]
  /\ UNCHANGED <<life, kubeTime, containerCPU, truth, kubeOut>>

KubeTick ==
  /\ kubeTime < MaxKubeTime
  /\ kubeTime' = kubeTime + 1
  /\ UNCHANGED <<counter, life, containerCPU, truth, kubeOut>>

\* The key without the start time: a restart looks like the same container.
SampleKeyByName(c) == <<c, 0>>
\* The key of a sample ends in the start time of the container.
CpuKey(c) == <<c, life[c]>>

(***************************************************************************)
(* kubeletContainerCPURate: no rate for a first sample, for no time in     *)
(* between, or for a counter that went back.                               *)
(***************************************************************************)
CPURate(previous, current) ==
  IF \/ previous = {}
     \/ \E p \in previous : current.time <= p.time \/ current.value < p.value
  THEN {}
  ELSE {[used |-> current.value - p.value, elapsed |-> current.time - p.time] : p \in previous}

Sample(c) == [key |-> CpuKey(c), value |-> counter[c], time |-> kubeTime]
\* The rate of each container that the summary shows.
Rates(shown) ==
  UNION {{[container |-> c, used |-> r.used, elapsed |-> r.elapsed] :
            r \in CPURate({s \in containerCPU : s.key = CpuKey(c)}, Sample(c))} : c \in shown}

(***************************************************************************)
(* An optional endpoint answers, fails, or breaks off while it is parsed;  *)
(* its series are kept only when the whole body was read.                  *)
(***************************************************************************)
SeriesOf(answer) == {e \in Endpoints : answer[e] = "ok"}
Coverage(answer) == {e \in Endpoints : answer[e] = "ok"}

\* Run: the summary answers; the samples of containers it no longer shows go.
RunKubelet(shown, answer) ==
  /\ shown \subseteq {c \in Containers : life[c] > 0}
  /\ kubeOut' = [rates |-> Rates(shown), up |-> Coverage(answer),
                 series |-> SeriesOf(answer)]
  /\ containerCPU' = {Sample(c) : c \in shown}
  /\ truth' = {[container |-> c, life |-> life[c], value |-> counter[c], time |-> kubeTime] :
                 c \in shown}
  /\ UNCHANGED <<counter, life, kubeTime>>

\* The summary fails: no metric at all, and the samples stay.
SummaryFails ==
  /\ kubeOut' = [rates |-> {}, up |-> {}, series |-> {}]
  /\ UNCHANGED <<counter, life, kubeTime, containerCPU, truth>>

KubeletNext ==
  \/ \E c \in Containers : StartContainer(c) \/ Consume(c)
  \/ KubeTick
  \/ \E shown \in SUBSET Containers, answer \in [Endpoints -> {"ok", "down", "torn"}] :
       RunKubelet(shown, answer)
  \/ SummaryFails

KubeletSpec == KubeletInit /\ [][KubeletNext]_kubeletVars

KubeletTypeOK ==
  /\ counter \in [Containers -> 0..MaxUse] /\ life \in [Containers -> 0..MaxLives]
  /\ kubeTime \in 1..MaxKubeTime
  /\ \A s \in containerCPU : s.value \in 0..MaxUse /\ s.time \in 1..MaxKubeTime
  /\ kubeOut.up \subseteq Endpoints /\ kubeOut.series \subseteq Endpoints

(***************************************************************************)
(* k8s.container.cpu_usage_nanocores: a run reports for a container what   *)
(* that same life of it used since the reading before, over the time in    *)
(* between, and never a difference across a restart or from a run that     *)
(* failed; an endpoint counts as covered exactly when its series are sent. *)
(***************************************************************************)
KubeletReport ==
  [][(truth' # truth \/ kubeOut' # kubeOut) =>
       /\ \A r \in kubeOut'.rates :
            \E s \in truth : /\ s.container = r.container /\ s.life = life[r.container]
                             /\ r.used = counter[r.container] - s.value
                             /\ r.elapsed = kubeTime - s.time
       /\ kubeOut'.series = kubeOut'.up]_kubeletVars
=============================================================================
