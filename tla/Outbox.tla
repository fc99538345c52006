------------------------------- MODULE Outbox -------------------------------
(***************************************************************************)
(* What package sendbuf promises its callers, with no goroutine, POST,     *)
(* counter or cool-down in it: an outbox holds accepted payloads until the *)
(* gateway has received them or the outbox discards them on purpose.       *)
(* A payload on disk outlives the process, one in memory does not.         *)
(* SendQueue is shown to implement this when it has one sender.            *)
(***************************************************************************)
EXTENDS Naturals

CONSTANT Keys               \* the payloads that may ever be offered

VARIABLES onDisk,           \* accepted, waiting in the bbolt bucket
          inMem,            \* accepted, waiting in the fallback slice
          delivered,        \* received by the gateway at least once
          gone              \* evicted, refused, or lost with a process that had no disk

ovars == <<onDisk, inMem, delivered, gone>>

Waiting == onDisk \cup inMem

Init ==
  /\ onDisk = {}
  /\ inMem = {}
  /\ delivered = {}
  /\ gone = {}

\* A payload that was never seen is accepted; older ones of the same store
\* may be evicted to make room, never a newer one before an older one.
Accept(store, after) ==
  \E k \in Keys \ (Waiting \cup delivered \cup gone), out \in SUBSET store :
    /\ \A e \in out, j \in store \ out : e < j
    /\ \A j \in store : j < k
    /\ after = (store \ out) \cup {k}
    /\ gone' = gone \cup out
    /\ UNCHANGED delivered

\* The gateway receives the oldest waiting payload of a store.
Deliver ==
  \E store \in {onDisk, inMem} : \E k \in store :
    /\ \A j \in store : k <= j
    /\ delivered' = delivered \cup {k}
    /\ UNCHANGED <<onDisk, inMem, gone>>

\* A payload leaves because the gateway has it, or because it is refused.
Leave(store, after) ==
  \E k \in store :
    /\ after = store \ {k}
    /\ \/ k \in delivered /\ UNCHANGED gone
       \/ gone' = gone \cup {k}
    /\ UNCHANGED delivered

\* The process restarts: only what was on disk is still waiting.
Restart ==
  /\ inMem' = {}
  /\ gone' = gone \cup inMem
  /\ UNCHANGED <<onDisk, delivered>>

Next ==
  \/ Accept(onDisk, onDisk') /\ UNCHANGED inMem
  \/ Accept(inMem, inMem') /\ UNCHANGED onDisk
  \/ Deliver
  \/ Leave(onDisk, onDisk') /\ UNCHANGED inMem
  \/ Leave(inMem, inMem') /\ UNCHANGED onDisk
  \/ Restart

Spec == Init /\ [][Next]_ovars
=============================================================================
