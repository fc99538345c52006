------------------------------ MODULE Webhook ------------------------------
(***************************************************************************)
(* The admission webhook: the poller that refreshes the Java marks and the *)
(* runtime policies, and /mutate, which reads the two under separate locks *)
(* and answers with a patch.  One workload, one container; a pod is what   *)
(* the decision reads of it.  The gateway and the API server are external. *)
(***************************************************************************)
EXTENDS Naturals, FiniteSets

CONSTANTS Languages,   \* node, python, dotnet, ruby, php
          Images,      \* the languages with an agent image configured
          Pods,        \* the shapes of the pods that are created
          MaxAge,      \* runtimePolicies are used for a minute
          PollTimeout, \* timeout of the HTTP client
          MaxHookTime  \* bound on the clock

NoPolicy == "none"

VARIABLES marked,      \* gateway: the workload is marked java_javaagent
          policy,      \* gateway: the language selected centrally
          revoked,     \* revoked[l]: when l last ceased to be selected (ghost)
          hookTime,
          enable,      \* Server.enable holds the workload
          runtimePolicies, runtimePoliciesAt,
          poll,        \* the request of the poller: what it asks, answer, since
          admission,   \* the pod under decision and its central selection
          admitted     \* the last answer
hookVars == <<marked, policy, revoked, hookTime, enable, runtimePolicies,
              runtimePoliciesAt, poll, admission, admitted>>

Never == 0
\* What decide reads of a pod: its annotated languages, whether its owner is a
\* ReplicaSet whose container runs the reviewed image, whether a container is
\* Java and how it sets JAVA_TOOL_OPTIONS, and what makes runtimePatch refuse.
PodShapes == [annotated : SUBSET Languages, reviewed : BOOLEAN,
              java : {"no", "unset", "literal", "indirect"}, refused : BOOLEAN]
NoPod == [annotated |-> {}, reviewed |-> FALSE, java |-> "no", refused |-> FALSE]
Idle == [ask |-> "idle", answer |-> NoPolicy, since |-> 0]
Waiting == [pod |-> NoPod, central |-> NoPolicy, step |-> "idle"]
Plain(pod, central) == [pod |-> pod, central |-> central, injected |-> {}, op |-> "none"]

\* "none" and "java" name no language of a runtime policy; a pod is one of PodShapes.
HookSized ==
  /\ MaxAge \in Nat /\ PollTimeout \in Nat /\ MaxHookTime \in Nat \ {0}
  /\ NoPolicy \notin Languages /\ "java" \notin Languages /\ Pods \subseteq PodShapes
ASSUME HookAssumption == HookSized

HookInit ==
  /\ marked \in BOOLEAN /\ policy \in Languages \cup {NoPolicy}
  /\ revoked = [l \in Languages |-> Never]
  /\ hookTime = 1
  /\ enable = FALSE /\ runtimePolicies = NoPolicy /\ runtimePoliciesAt = Never
  /\ poll = Idle /\ admission = Waiting
  /\ admitted = Plain(NoPod, NoPolicy)

\* The operator edits the selection in the portal.
Select(java, language) ==
  /\ marked' = java /\ policy' = language
  /\ admission.step = "idle"
  /\ revoked' = [l \in Languages |-> IF l = policy /\ l # language THEN hookTime ELSE revoked[l]]
  /\ UNCHANGED <<hookTime, enable, runtimePolicies, runtimePoliciesAt, poll, admission, admitted>>

\* Time passes; a request lasts PollTimeout at most and a decision takes none.
HookTick ==
  /\ hookTime < MaxHookTime
  /\ poll.ask = "idle" \/ hookTime < poll.since + PollTimeout
  /\ admission.step = "idle"
  /\ hookTime' = hookTime + 1
  /\ UNCHANGED <<marked, policy, revoked, enable, runtimePolicies, runtimePoliciesAt, poll,
                 admission, admitted>>

(***************************************************************************)
(* poll: the policies first, then the marks.  A failed request leaves what *)
(* was known, and the age of the policies.                                 *)
(***************************************************************************)
AskPolicies ==
  /\ poll.ask = "idle"
  /\ poll' = [ask |-> "policies", answer |-> policy, since |-> hookTime]
  /\ UNCHANGED <<marked, policy, revoked, hookTime, enable, runtimePolicies,
                 runtimePoliciesAt, admission, admitted>>
AskMarks == [ask |-> "marks", answer |-> IF marked THEN "java" ELSE NoPolicy, since |-> hookTime]
PoliciesArrive ==
  /\ poll.ask = "policies"
  /\ runtimePolicies' = poll.answer /\ runtimePoliciesAt' = hookTime
  /\ poll' = AskMarks
  /\ UNCHANGED <<marked, policy, revoked, hookTime, enable, admission, admitted>>
\* The age is renewed by the attempt, not by the answer.
AskFailsRenewing ==
  /\ poll.ask = "policies"
  /\ poll' = AskMarks
  /\ runtimePoliciesAt' = hookTime
  /\ UNCHANGED <<marked, policy, revoked, hookTime, enable, runtimePolicies, admission, admitted>>
AskFails ==
  /\ poll.ask = "policies"
  /\ poll' = AskMarks
  /\ UNCHANGED <<marked, policy, revoked, hookTime, enable, runtimePolicies,
                 runtimePoliciesAt, admission, admitted>>
MarksArrive ==
  /\ poll.ask = "marks"
  /\ enable' \in {enable, poll.answer = "java"} \* unchanged when the request fails
  /\ poll' = Idle
  /\ UNCHANGED <<marked, policy, revoked, hookTime, runtimePolicies, runtimePoliciesAt,
                 admission, admitted>>

\* runtimeSelection: a policy no older than MaxAge, for the reviewed image.
RuntimeSelection(pod) ==
  IF runtimePoliciesAt # Never /\ hookTime - runtimePoliciesAt <= MaxAge /\ pod.reviewed
  THEN runtimePolicies ELSE NoPolicy

Admit(pod) ==
  /\ admission.step = "idle"
  /\ admission' = [pod |-> pod, central |-> RuntimeSelection(pod), step |-> "selected"]
  /\ admitted' = Plain(NoPod, NoPolicy)
  /\ UNCHANGED <<marked, policy, revoked, hookTime, enable, runtimePolicies,
                 runtimePoliciesAt, poll>>

(***************************************************************************)
(* decide: two selections, or a central one that contradicts the annotated *)
(* container, inject nothing; one selection is final, also when its patch  *)
(* is refused; without any the Java mark applies.                          *)
(***************************************************************************)
Selected(pod, central) == pod.annotated \cup ({central} \ {NoPolicy})
\* nodePatch .. phpPatch, runtimePatch: the reserved names, mounts and
\* variables of the pod are checked before anything is added.
RuntimePatch(pod, language, central) ==
  IF language \notin Images \/ pod.refused THEN Plain(pod, central)
  ELSE [Plain(pod, central) EXCEPT !.injected = {language}, !.op = "add"]
\* buildPatch: JAVA_TOOL_OPTIONS is added, or replaced where the pod sets it.
BuildPatch(pod, central) ==
  [Plain(pod, central) EXCEPT !.injected = {"java"},
                              !.op = IF pod.java = "unset" THEN "add" ELSE "replace"]
\* Every selection is applied.
DecideAll ==
  LET pod == admission.pod
      chosen == Selected(pod, admission.central)
  IN /\ admission.step = "selected"
     /\ admitted' = [Plain(pod, admission.central) EXCEPT !.injected =
                       chosen \cup IF enable /\ pod.java # "no" THEN {"java"} ELSE {}]
     /\ admission' = Waiting
     /\ UNCHANGED <<marked, policy, revoked, hookTime, enable, runtimePolicies,
                    runtimePoliciesAt, poll>>
Decide ==
  LET pod == admission.pod
      chosen == Selected(pod, admission.central)
  IN /\ admission.step = "selected"
     /\ admitted' =
          IF Cardinality(chosen) > 1 THEN Plain(pod, admission.central)
          ELSE IF chosen # {} THEN RuntimePatch(pod, CHOOSE l \in chosen : TRUE, admission.central)
          ELSE IF enable /\ pod.java # "no" THEN BuildPatch(pod, admission.central)
          ELSE Plain(pod, admission.central)
     /\ admission' = Waiting
     /\ UNCHANGED <<marked, policy, revoked, hookTime, enable, runtimePolicies,
                    runtimePoliciesAt, poll>>

HookNext ==
  \/ \E java \in BOOLEAN, l \in Languages \cup {NoPolicy} : Select(java, l)
  \/ HookTick
  \/ AskPolicies \/ PoliciesArrive \/ AskFails \/ MarksArrive
  \/ \E pod \in Pods : Admit(pod)
  \/ Decide

HookSpec == HookInit /\ [][HookNext]_hookVars

HookTypeOK ==
  /\ marked \in BOOLEAN /\ enable \in BOOLEAN
  /\ {policy, runtimePolicies} \subseteq Languages \cup {NoPolicy}
  /\ hookTime \in 1..MaxHookTime /\ runtimePoliciesAt \in 0..MaxHookTime
  /\ poll.ask \in {"idle", "policies", "marks"}
  /\ admitted.injected \subseteq Languages \cup {"java"}

(***************************************************************************)
(* runtimeSelection: "Do not keep applying a revoked selection             *)
(* indefinitely during an outage".  Whatever polls fail or answer late, a  *)
(* language injected for the central selection was selected no longer than *)
(* MaxAge and one request ago; and whatever the poller changes in between  *)
(* the two locks, a pod gets one runtime, and none when its selections     *)
(* contradict each other.                                                  *)
(***************************************************************************)
SelectionBounded ==
  [][admitted' # admitted =>
       /\ Cardinality(admitted'.injected) <= 1
       /\ Cardinality(Selected(admitted'.pod, admitted'.central)) > 1 => admitted'.injected = {}
       /\ \A l \in admitted'.injected \cap {admitted'.central} :
            policy = l \/ hookTime - revoked[l] <= MaxAge + PollTimeout]_hookVars
=============================================================================
