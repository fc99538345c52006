------------------------------- MODULE MCAgent -------------------------------
(***************************************************************************)
(* Small instances of config pull and of what the agent does on            *)
(* Kubernetes: the admission webhook, the cluster agent, the identity of   *)
(* processes and addresses and the scans of pods. They share no state, so  *)
(* a behaviour moves one of them, part, and the others stay as they start. *)
(***************************************************************************)
EXTENDS ConfigPull, Webhook, Identity, PodScan, ClusterAgent, TLC

CONSTANTS c1, c2   \* two checks, interchangeable

VARIABLE part

agentVars == <<part, vars, clusterVars, identityVars, podVars, hookVars>>

-----------------------------------------------------------------------------
MCChecks == {c1, c2}
MCSymmetry == Permutations(MCChecks)

\* Two pods of one deployment, an ingress, and an event seen twice; a page holds one
\* object and no list is cut.
MCObjects == {"p1", "p2", "r1", "d1", "i1", "e1", "e2"}
MCKindOf == [o \in MCObjects |->
               CASE o \in {"p1", "p2"} -> "Pod" [] o = "r1" -> "ReplicaSet" [] o = "d1" -> "Deployment"
                 [] o = "i1" -> "Ingress" [] OTHER -> "Event"]
MCOwnerOf == [o \in MCObjects |-> CASE o \in {"p1", "p2"} -> "r1" [] o = "r1" -> "d1" [] OTHER -> "none"]
MCEventKey == [o \in MCObjects |-> IF MCKindOf[o] = "Event" THEN "k" ELSE ""]
MCEventCount == [o \in MCObjects |-> IF o = "e2" THEN 2 ELSE 1]
MCInventory == <<"Pod", "Deployment", "ReplicaSet">>
MCExtras == <<"Ingress">>

\* A pod with Java options, one that asks for Python itself, and one that is refused.
MCPods == {[annotated |-> {}, reviewed |-> TRUE, java |-> "literal", refused |-> FALSE],
           [annotated |-> {"python"}, reviewed |-> TRUE, java |-> "no", refused |-> FALSE],
           [annotated |-> {}, reviewed |-> FALSE, java |-> "unset", refused |-> TRUE]}

-----------------------------------------------------------------------------
Parts == {"config", "cluster", "identity", "pods", "webhook"}

\* Every component starts; one that will not move starts in one way only.
AgentInit ==
  /\ part \in Parts
  /\ Init /\ (part # "config" => \A c \in Checks : up[c])
  /\ ClusterInit
  /\ IdentityInit /\ (part # "identity" => resolver = "docker" /\ pidOwner = Nobody /\ ipOwner = Nobody)
  /\ PodsInit /\ (part # "pods" => wanted = {} /\ \A n \in DOMAIN procs : procs[n] = NoProc)
  /\ HookInit /\ (part # "webhook" => marked /\ policy = "node")

AgentNext ==
  /\ UNCHANGED part
  /\ IF part = "config" THEN Next ELSE UNCHANGED vars
  /\ IF part = "cluster" THEN ClusterNext ELSE UNCHANGED clusterVars
  /\ IF part = "identity" THEN IdentityNext ELSE UNCHANGED identityVars
  /\ IF part = "pods" THEN PodsNext ELSE UNCHANGED podVars
  /\ IF part = "webhook" THEN HookNext ELSE UNCHANGED hookVars

AgentSpec == AgentInit /\ [][AgentNext]_agentVars

-----------------------------------------------------------------------------
(* Properties *)

\* Each component keeps its types.
AgentTypeOK == TypeOK /\ ClusterTypeOK /\ IdentityTypeOK /\ PodsTypeOK /\ HookTypeOK

\* The inventory the gateway shows is that of one cycle, whole, and a kind that could not
\* be listed is reported down and without objects (cluster agent); a pid or an address
\* is resolved to a container that had it less than the life of the cache ago; a scraped
\* batch carries the pod that answered and a language report what was seen in the pod.
KubernetesHonest == SnapshotComplete /\ StateHonest /\ IdentityFresh /\ PodsAttributed
=============================================================================
