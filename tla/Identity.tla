------------------------------ MODULE Identity ------------------------------
(***************************************************************************)
(* Who a span belongs to: internal/ebpf/podresolver.go (pids through       *)
(* /proc and a list of the kubelet, addresses through that list) and       *)
(* containerresolver.go (the same from Docker). An owner stands for a      *)
(* container and for its pod or service, which do not change for it; pids  *)
(* and addresses are given again to others.                                *)
(***************************************************************************)
EXTENDS Integers, FiniteSets

CONSTANTS Owners,    \* containers
          PidTTL,    \* life of a pid in the cache
          MissTTL,   \* life of a pid that could not be resolved (kubelet)
          ListTTL,   \* life of the list of addresses (Docker)
          MaxTime    \* bound: clock

\* "none" is no container; what is cached lives for a time.
ASSUME IdentityAssumption ==
  "none" \notin Owners /\ PidTTL \in Nat \ {0} /\ ListTTL \in Nat \ {0} /\ MissTTL \in Nat /\ MaxTime \in Nat

VARIABLES
  resolver,  \* "kubelet" or "docker"
  clockNow,
  pidOwner,  \* container of the process, None outside of containers
  ipOwner,   \* container with the address
  pidHeld,   \* owner -> last time the pid was its, -1 if never
  ipHeld,    \* the same of the address
  pidCache,  \* [owner, expires]
  listed,    \* owners in the list
  ipList,    \* container the list gives the address to
  listUntil, \* ipExpires
  answer     \* the last resolution: [by, owner]

identityVars == <<resolver, clockNow, pidOwner, ipOwner, pidHeld, ipHeld, pidCache, listed, ipList, listUntil, answer>>

Nobody == "none"
Known == Owners \cup {Nobody}
NoEntry == [owner |-> Nobody, expires |-> 0]

IdentityTypeOK ==
  /\ resolver \in {"kubelet", "docker"} /\ clockNow \in 0 .. MaxTime
  /\ pidOwner \in Known /\ ipOwner \in Known /\ ipList \in Known /\ listed \subseteq Owners
  /\ pidCache.owner \in Known /\ answer.owner \in Known

Held(held, owner) == [o \in Owners |-> IF o = owner THEN clockNow ELSE held[o]]

IdentityInit ==
  /\ resolver \in {"kubelet", "docker"} /\ clockNow = 0
  /\ pidOwner \in Known /\ ipOwner \in Known
  /\ pidHeld = [o \in Owners |-> IF o = pidOwner THEN 0 ELSE -1]
  /\ ipHeld = [o \in Owners |-> IF o = ipOwner THEN 0 ELSE -1]
  /\ pidCache = NoEntry /\ listed = {} /\ ipList = Nobody /\ listUntil = 0
  /\ answer = [by |-> "pid", owner |-> Nobody]

IdentityTick ==
  /\ clockNow < MaxTime /\ clockNow' = clockNow + 1
  /\ pidHeld' = [o \in Owners |-> IF o = pidOwner THEN clockNow + 1 ELSE pidHeld[o]]
  /\ ipHeld' = [o \in Owners |-> IF o = ipOwner THEN clockNow + 1 ELSE ipHeld[o]]
  /\ answer' = [answer EXCEPT !.owner = Nobody]
  /\ UNCHANGED <<resolver, pidOwner, ipOwner, pidCache, listed, ipList, listUntil>>

\* The process ends and its pid is another's; the address goes to another container.
Reused ==
  /\ \/ pidOwner' \in Known \ {pidOwner} /\ pidHeld' = Held(pidHeld, pidOwner') /\ UNCHANGED <<ipOwner, ipHeld>>
     \/ ipOwner' \in Known \ {ipOwner} /\ ipHeld' = Held(ipHeld, ipOwner') /\ UNCHANGED <<pidOwner, pidHeld>>
  /\ answer' = [answer EXCEPT !.owner = Nobody]
  /\ UNCHANGED <<resolver, clockNow, pidCache, listed, ipList, listUntil>>

-----------------------------------------------------------------------------
(* The lists *)

\* refresh every 30 seconds: a list that fails leaves the old one in place. Processes
\* may be running in containers the list does not have yet.
RefreshPods ==
  /\ resolver = "kubelet"
  /\ \E present \in SUBSET Owners : {ipOwner, pidOwner} \cap Owners \subseteq present /\ listed' = present
  /\ ipList' = ipOwner
  /\ UNCHANGED <<resolver, clockNow, pidOwner, ipOwner, pidHeld, ipHeld, pidCache, listUntil, answer>>

\* refreshIPMapIfStale: a list that fails leaves an empty one for the same time.
RefreshedIPs ==
  IF clockNow < listUntil THEN UNCHANGED <<ipList, listUntil>>
  ELSE ipList' \in {ipOwner, Nobody} /\ listUntil' = clockNow + ListTTL

-----------------------------------------------------------------------------
(* Resolve *)

EntrySliding(read) ==
  IF clockNow < pidCache.expires THEN [pidCache EXCEPT !.expires = clockNow + PidTTL]
  ELSE [owner |-> IF read THEN pidOwner ELSE Nobody, expires |-> clockNow + PidTTL]

\* containerIDFor: a live entry is used as it is; otherwise /proc is read, which fails
\* when the process is gone, and the failure is kept too.
Entry(read) ==
  IF clockNow < pidCache.expires THEN pidCache
  ELSE [owner |-> IF read THEN pidOwner ELSE Nobody,
        expires |-> clockNow + IF read \/ resolver = "docker" THEN PidTTL ELSE MissTTL]

\* Resolve: the container must also be in the list of the kubelet.
ResolvePid ==
  /\ \E read \in BOOLEAN : pidCache' = Entry(read)
  /\ answer' = [by |-> "pid", owner |-> IF resolver = "docker" \/ pidCache'.owner \in listed THEN pidCache'.owner ELSE Nobody]
  /\ UNCHANGED <<resolver, clockNow, pidOwner, ipOwner, pidHeld, ipHeld, listed, ipList, listUntil>>

\* ResolveIP and ResolveIPMeta.
ResolveIP ==
  /\ resolver = "kubelet" /\ answer' = [by |-> "ip", owner |-> ipList]
  /\ UNCHANGED <<resolver, clockNow, pidOwner, ipOwner, pidHeld, ipHeld, pidCache, listed, ipList, listUntil>>

ResolveServiceByIP ==
  /\ resolver = "docker" /\ RefreshedIPs /\ answer' = [by |-> "ip", owner |-> ipList']
  /\ UNCHANGED <<resolver, clockNow, pidOwner, ipOwner, pidHeld, ipHeld, pidCache, listed>>

IdentityNext ==
  IdentityTick \/ Reused \/ RefreshPods \/ ResolvePid \/ ResolveIP \/ ResolveServiceByIP

IdentitySpec == IdentityInit /\ [][IdentityNext]_identityVars

-----------------------------------------------------------------------------
(* Properties *)

\* Whom a pid is resolved to was the owner of it less than PidTTL ago, however often
\* the pid is asked for and whatever fails; with Docker the same holds of addresses and
\* ListTTL. (The list of the kubelet has no age: an address stays with its old pod for
\* as long as the kubelet does not answer.)
IdentityFresh ==
  answer.owner # Nobody =>
    IF answer.by = "pid" THEN clockNow - pidHeld[answer.owner] < PidTTL
    ELSE IF resolver = "docker" THEN clockNow - ipHeld[answer.owner] < ListTTL
    ELSE ipHeld[answer.owner] >= 0
=============================================================================
