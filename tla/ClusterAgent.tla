---------------------------- MODULE ClusterAgent ----------------------------
(***************************************************************************)
(* The cluster agent (internal/clusteragent): one cycle per tick lists the *)
(* API server page by page and posts the events, the inventory snapshot    *)
(* and the kube-state metrics.  The API server serves each paged list from *)
(* the revision of its first page; the gateway replaces its inventory by a *)
(* snapshot of a higher sequence and tombstones what the snapshot omits    *)
(* (both external).                                                        *)
(***************************************************************************)
EXTENDS Naturals, Sequences, FiniteSets, SequencesExt

CONSTANTS Objects,    \* the objects the cluster may hold
          KindOf,     \* KindOf[o]: the kind of o
          OwnerOf,    \* OwnerOf[o]: the object that owns o, or "none"
          Placed,     \* the pods bound to a node and not finished
          EventKey,   \* EventKey[o]: the dedup key of an event, "" if filtered
          EventCount, \* EventCount[o]: how often the event occurred
          Inventory,  \* the kinds of the inventory, in listing order
          Extras,     \* the kinds of collectStateExtras, in listing order
          Limit,      \* EventLimit: objects per page
          MaxPages,   \* maxListPages
          MaxChurn, MaxCycles \* bounds on cluster changes and cycles

\* No list is longer than maxListPages pages: apiGetPaged cuts one that is, with a
\* warning only, and the cycle goes on with what it has.
ASSUME ClusterAssumption ==
  /\ IsFiniteSet(Objects) /\ "none" \notin Objects /\ Inventory \in Seq(STRING) /\ Extras \in Seq(STRING)
  /\ Limit \in Nat \ {0} /\ MaxPages \in Nat \ {0} /\ MaxChurn \in Nat /\ MaxCycles \in Nat
  /\ \A o \in Objects : Cardinality({x \in Objects : KindOf[x] = KindOf[o]}) <= MaxPages * Limit

VARIABLES cluster,    \* the objects that exist
          churn,      \* changes made so far
          cycle,      \* cycles begun
          at,         \* position in the agenda of the cycle, 0 when idle
          rest,       \* what the current list still holds, or "new"
          page,       \* pages read of the current list
          batch,      \* what the current list returned
          resources,  \* the inventory collected by this cycle
          gauges,     \* the kube-state reports collected by this cycle
          stable,     \* what existed during the whole cycle so far
          lived,      \* what existed at some time of the cycle
          inflight,   \* snapshots sent and not yet delivered
          view,       \* the inventory of the gateway
          posted      \* the last events, metrics and totals accepted

clusterVars == <<cluster, churn, cycle, at, rest, page, batch, resources,
                 gauges, stable, lived, inflight, view, posted>>

NoObject == "none"
Job(job, kind) == [job |-> job, kind |-> kind]
\* The lists of one cycle, in order.
Agenda == <<Job("events", "Event")>>
          \o [i \in 1..Len(Inventory) |-> Job("inventory", Inventory[i])]
          \o [i \in 1..Len(Extras) |-> Job("extra", Extras[i])]
          \o <<Job("phases", "Pod"), Job("deployments", "Deployment")>>
FirstExtra == Len(Inventory) + 2
Now == Agenda[at]

ClusterInit ==
  /\ cluster = Objects
  /\ churn = 0 /\ cycle = 0 /\ at = 0
  /\ rest = {} /\ page = 0 /\ batch = {} /\ resources = {} /\ gauges = {}
  /\ stable = {} /\ lived = {}
  /\ inflight = {}
  /\ view = [seq |-> 0, res |-> {}, stable |-> {}, lived |-> {}]
  /\ posted = [events |-> {}, gauges |-> {},
               metrics |-> [of |-> {}, counts |-> <<>>, declared |-> {}, totals |-> <<>>]]

\* Somebody creates or deletes an object.
Churn(o) ==
  /\ churn < MaxChurn
  /\ churn' = churn + 1
  /\ \/ o \in cluster /\ cluster' = cluster \ {o}
     \/ o \notin cluster /\ cluster' = cluster \cup {o}
  /\ stable' = stable \cap cluster'
  /\ lived' = IF at = 0 THEN lived ELSE lived \cup cluster'
  /\ UNCHANGED <<cycle, at, rest, page, batch, resources, gauges, inflight,
                 view, posted>>

\* The ticker fires: a cycle begins.
Collect ==
  /\ at = 0 /\ cycle < MaxCycles
  /\ cycle' = cycle + 1 /\ at' = 1 /\ page' = 0 /\ batch' = {}
  /\ resources' = {} /\ gauges' = {}
  /\ stable' = cluster /\ lived' = cluster
  /\ UNCHANGED <<cluster, churn, rest, inflight, view, posted>>

(***************************************************************************)
(* One request of apiGetPaged.  The list ends on the page without a token, *)
(* and also, with a warning only, after MaxPages pages.                    *)
(***************************************************************************)
Listed == {o \in cluster : KindOf[o] = Now.kind}
Left == IF page = 0 THEN Listed ELSE rest
PageOf(s) == {p \in SUBSET s : Cardinality(p) = IF Cardinality(s) < Limit
                                                THEN Cardinality(s) ELSE Limit}
Ends(p) == p = Left \/ page + 1 = MaxPages

MorePages(p) ==
  /\ ~Ends(p)
  /\ rest' = Left \ p /\ page' = page + 1 /\ batch' = batch \cup p
  /\ UNCHANGED <<at, resources, gauges>>

GoTo(n) == at' = n /\ page' = 0 /\ batch' = {} /\ rest' = {}

(***************************************************************************)
(* buildPayload: filter, then one entry per key, the one of highest count. *)
(***************************************************************************)
KeptEvents(s) == {o \in s : EventKey[o] # ""}
BuildPayload(s) ==
  {o \in KeptEvents(s) : \A e \in KeptEvents(s) :
                     EventKey[e] = EventKey[o] => EventCount[e] <= EventCount[o]}

(***************************************************************************)
(* inventoryMetrics: a pod is attributed to the workload its owners lead   *)
(* to, at most two hops and only through owners in the same snapshot; the  *)
(* total of a workload counts its pods that are bound and not finished.    *)
(***************************************************************************)
\* inventoryResource: the operational fields of an object.
Resource(o) == [kind |-> KindOf[o], owner |-> OwnerOf[o], placed |-> o \in Placed]
PodsOf(res) == {o \in res : Resource(o).kind = "Pod"}
Hop(o, res) == IF o \in res /\ Resource(o).owner # NoObject THEN Resource(o).owner ELSE o
Workload(o, res) == Hop(Hop(Resource(o).owner, res), res)
\* One count per object, and what the containers of every pod declare.
Counts(res) == [k \in {Resource(o).kind : o \in res} |->
                  Cardinality({o \in res : Resource(o).kind = k})]
Declared(res) == {<<o, Workload(o, res)>> : o \in PodsOf(res)}
AllocationTotals(res) ==
  [w \in {d[2] : d \in Declared(res)} |->
     Cardinality({d \in Declared(res) : d[2] = w /\ Resource(d[1]).placed})]
InventoryMetrics(res) ==
  [of |-> res, counts |-> Counts(res), declared |-> Declared(res), totals |-> AllocationTotals(res)]

\* The end of the list of events: filter, merge and post, if any is left.
EndEvents(all) ==
  /\ Now.job = "events"
  /\ GoTo(at + 1)
  /\ \/ posted' = posted
     \/ /\ BuildPayload(all) # {}
        /\ posted' = [posted EXCEPT !.events = BuildPayload(all)]
  /\ UNCHANGED <<resources, gauges, inflight, view>>

Accepted(snap) == IF snap.seq > view.seq THEN snap ELSE view
Measured(ok, res) == IF ok THEN [posted EXCEPT !.metrics = InventoryMetrics(res)]
                         ELSE posted

\* The end of one kind of the inventory; after the last the snapshot is sent,
\* with the clock as its sequence.  A request that timed out may still arrive.
EndInventory(all) ==
  /\ Now.job = "inventory"
  /\ resources' = resources \cup all
  /\ GoTo(at + 1)
  /\ gauges' = gauges
  /\ IF at + 1 < FirstExtra
     THEN UNCHANGED <<inflight, view, posted>>
     ELSE LET snap == [seq |-> cycle, res |-> resources', lived |-> lived,
                       stable |-> {o \in stable : KindOf[o] \in ToSet(Inventory)}]
          IN \/ /\ view' = Accepted(snap) /\ inflight' = inflight
                /\ \E ok \in BOOLEAN : posted' = Measured(ok, resources')
             \/ inflight' = inflight \cup {snap} /\ UNCHANGED <<view, posted>>

Report(job, kind, up, objs) ==
  [job |-> job, kind |-> kind, up |-> up, objs |-> objs,
   stable |-> {o \in stable : KindOf[o] = kind}]
EndGauges(all) ==
  /\ Now.job \in {"extra", "phases", "deployments"}
  /\ LET new == gauges \cup {Report(Now.job, Now.kind, TRUE, all)}
     IN IF at = Len(Agenda)
        THEN /\ GoTo(0) /\ gauges' = {}
             /\ posted' \in {posted, [posted EXCEPT !.gauges = new]}
        ELSE GoTo(at + 1) /\ gauges' = new /\ posted' = posted
  /\ UNCHANGED <<resources, inflight, view>>

ApiGet ==
  /\ at # 0
  /\ \E p \in PageOf(Left) :
       \/ MorePages(p) /\ UNCHANGED <<inflight, view, posted>>
       \/ Ends(p) /\ (EndEvents(batch \cup p) \/ EndInventory(batch \cup p)
                      \/ EndGauges(batch \cup p))
  /\ UNCHANGED <<cluster, churn, cycle, stable, lived>>

(***************************************************************************)
(* A request fails, or its body does not decode.  The inventory is given   *)
(* up as a whole; of the extras only the kind is, with up = 0; pods and    *)
(* deployments are skipped.  The next cycle starts over.                   *)
(***************************************************************************)
ApiFailsAt(up) ==
  /\ IF Now.job = "inventory" THEN GoTo(FirstExtra)
     ELSE IF at = Len(Agenda) THEN GoTo(0) ELSE GoTo(at + 1)
  /\ resources' = IF Now.job = "inventory" THEN {} ELSE resources
  /\ LET new == IF Now.job = "extra"
                THEN gauges \cup {Report("extra", Now.kind, up, {})} ELSE gauges
     IN IF at = Len(Agenda)
        THEN /\ gauges' = {}
             /\ posted' \in {posted} \cup (IF new = {} THEN {}
                                           ELSE {[posted EXCEPT !.gauges = new]})
        ELSE gauges' = new /\ posted' = posted
  /\ UNCHANGED <<cluster, churn, cycle, stable, lived, inflight, view>>
\* A kind that cannot be listed is left out and the inventory goes on.
ApiFailsSkipping ==
  /\ at # 0
  /\ IF Now.job = "inventory" THEN EndInventory(batch) ELSE
       /\ IF at = Len(Agenda) THEN GoTo(0) ELSE GoTo(at + 1)
       /\ UNCHANGED <<resources, gauges, inflight, view, posted>>
  /\ UNCHANGED <<cluster, churn, cycle, stable, lived>>
\* A kind that cannot be listed is reported up, with nothing in it.
ApiFailsUp == at # 0 /\ ApiFailsAt(TRUE)
ApiFails == at # 0 /\ ApiFailsAt(FALSE)

\* A delayed snapshot reaches the gateway, or is lost.
Deliver(snap) ==
  /\ inflight' = inflight \ {snap}
  /\ view' \in {view, Accepted(snap)}
  /\ UNCHANGED <<cluster, churn, cycle, at, rest, page, batch, resources, gauges,
                 stable, lived, posted>>

\* The pod of the agent is replaced: everything but the clock starts afresh.
ReplacePod ==
  /\ at # 0
  /\ GoTo(0) /\ resources' = {} /\ gauges' = {}
  /\ UNCHANGED <<cluster, churn, cycle, stable, lived, inflight, view, posted>>

ClusterNext ==
  \/ \E o \in Objects : Churn(o)
  \/ Collect \/ ApiGet \/ ApiFails \/ ReplacePod
  \/ \E snap \in inflight : Deliver(snap)
ClusterSpec == ClusterInit /\ [][ClusterNext]_clusterVars

-----------------------------------------------------------------------------
ClusterTypeOK ==
  /\ cluster \subseteq Objects /\ churn \in 0..MaxChurn /\ cycle \in 0..MaxCycles
  /\ at \in 0..Len(Agenda) /\ page \in 0..MaxPages
  /\ rest \cup batch \cup resources \cup stable \cup lived \subseteq Objects
  /\ view.seq \in 0..MaxCycles /\ view.res \subseteq Objects
  /\ \A snap \in inflight : snap.seq \in 1..MaxCycles

(***************************************************************************)
(* pushInventory sends "um snapshot completo" and the gateway tombstones   *)
(* what it omits: whatever failures, restarts and late deliveries came     *)
(* before, the inventory the gateway shows holds every object that existed *)
(* throughout the cycle it comes from, and nothing that did not exist in   *)
(* that cycle.                                                             *)
(***************************************************************************)
SnapshotComplete == view.stable \subseteq view.res /\ view.res \subseteq view.lived

\* The total of a workload counts its pods that are placed, each once, and the workload of
\* every pod has a total.
TotalsExact(m) ==
  /\ m.of \subseteq Objects
  /\ \A w \in DOMAIN m.totals :
       m.totals[w] = Cardinality({o \in m.of : KindOf[o] = "Pod" /\ o \in Placed /\ Workload(o, m.of) = w})
  /\ \A o \in m.of : KindOf[o] = "Pod" => Workload(o, m.of) \in DOMAIN m.totals

(***************************************************************************)
(* collectStateExtras, collectPodPhases and collectDeployments: a kind is  *)
(* reported up only with its whole list, and a failed kind reports no      *)
(* object; the totals of inventoryMetrics count every placed pod exactly   *)
(* once, under the root of its owners when these are in the snapshot.      *)
(***************************************************************************)
StateHonest ==
  /\ \A g \in posted.gauges : IF g.up THEN g.stable \subseteq g.objs ELSE g.objs = {}
  /\ TotalsExact(posted.metrics)
  /\ \A o \in posted.metrics.of :
       /\ KindOf[o] = "Pod" /\ OwnerOf[o] \in posted.metrics.of
       /\ OwnerOf[OwnerOf[o]] \in posted.metrics.of /\ OwnerOf[OwnerOf[OwnerOf[o]]] = NoObject
       => OwnerOf[OwnerOf[o]] \in DOMAIN posted.metrics.totals
=============================================================================
