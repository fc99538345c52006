--------------------------- MODULE ProgressProofs ---------------------------
(***************************************************************************)
(* Proofs about Collector and DeviceJobs, and about NothingForgotten of    *)
(* the composition MCProgress. The only parts of MCProgress that are used  *)
(* are the two components, with arbitrary constants.                       *)
(***************************************************************************)
EXTENDS MCProgress, SequenceTheorems, TLAPS

-----------------------------------------------------------------------------
(* Collector: the inductive invariant *)

Batches == 1 .. collected
SenderStates == {"off", "select", "post", "drain", "drainpost", "gone"}

\* Where every batch comes from: it was collected before.
Traced ==
  /\ collected \in Nat /\ prod \in [Producers -> Int] /\ out \in Seq(Batches)
  /\ \A p \in Producers : prod[p] > 0 => prod[p] \in Batches
  /\ sender \in SenderStates \X Nat
  /\ sender[1] \in {"post", "drainpost"} => sender[2] \in Batches

\* What is between the channel and the outbox.
Pending == {out[i] : i \in 1 .. Len(out)} \cup (IF sender[1] \in {"post", "drainpost"} THEN {sender[2]} ELSE {})

\* Nothing is lost on the way of a batch: it is posted, held or in the channel.
OnItsWay == early \subseteq outbox \cup Pending

\* The sender drains only once ctx is done, and when it is gone nothing early is left
\* unless the agent was revoked.
Drains ==
  /\ sender[1] \in {"drain", "drainpost", "gone"} => canceled
  /\ sender[1] = "gone" => revoked # "no" \/ early \subseteq outbox

\* Without a sender nothing was produced; main ends only before the sender starts or
\* after it is gone.
Ends ==
  /\ sender[1] = "off" => /\ main \in {"boot", "exited"} /\ reg = "off"
                          /\ early = {} /\ \A p \in Producers : prod[p] = Off
  /\ main = "boot" => sender[1] = "off"
  /\ main = "exited" => sender[1] \in {"off", "gone"}

ProcInv == TypeOK /\ Traced /\ OnItsWay /\ Drains /\ Ends

-----------------------------------------------------------------------------
(* DeviceJobs: the inductive invariant *)

\* The loop has a job exactly where it works on one, and the jobs executed since the
\* process started are recorded or are the one whose result is pending.
JobsInv ==
  /\ server \in [Jobs -> {"queued", "leased", "done"}]
  /\ pc \in {"pull", "execute", "post", "wait", "stopped"}
  /\ current \in Jobs \cup {None} /\ finished \subseteq Jobs /\ ran \in [Jobs -> Nat]
  /\ pc \in {"execute", "post"} => current \in Jobs
  /\ pc = "pull" => current = None
  /\ ResultKept

-----------------------------------------------------------------------------
(* DeviceJobs *)

LEMMA JobsInitInv == JobsInit => JobsInv
  BY DEF JobsInit, JobsInv, ResultKept, None

\* Asking, and answers that do not arrive.
LEMMA PullsKeep ==
  ASSUME JobsInv, \/ \E j \in Jobs : PullJob(j, TRUE) \/ PullJob(j, FALSE) \/ LeaseLapses(j)
                  \/ PullFails \/ PullEmpty(TRUE) \/ PullEmpty(FALSE)
  PROVE  JobsInv'
<1>1. ASSUME NEW j \in Jobs, NEW arrives \in BOOLEAN, PullJob(j, arrives) PROVE JobsInv'
  BY <1>1, JobsAssumption DEF JobsInv, ResultKept, PullJob, device
<1>2. ASSUME NEW j \in Jobs, LeaseLapses(j) PROVE JobsInv'
  BY <1>2 DEF JobsInv, ResultKept, LeaseLapses
<1>3. CASE PullFails \/ PullEmpty(TRUE) \/ PullEmpty(FALSE)
  BY <1>3 DEF JobsInv, ResultKept, PullFails, PullEmpty, device
<1> QED
  BY <1>1, <1>2, <1>3

\* A session is started only for a command of the allow list, or for a test, which
\* starts no command.
LEMMA ExecuteKeeps ==
  ASSUME JobsInv, NEW session \in Sessions, Execute(session)
  PROVE  JobsInv'
<1> USE JobsAssumption
<1>1. current \in Jobs /\ pc' = "post" /\ current' = current /\ server' = server /\ finished' = finished \cup {current}
  BY DEF JobsInv, Execute
<1>2. ran' \in [Jobs -> Nat] /\ \A j \in Jobs : ran'[j] > 0 => ran[j] > 0 \/ Command[j] = "read"
  BY <1>1 DEF JobsInv, Execute, ValidateReadOnlySSHCommand
<1> QED
  BY <1>1, <1>2 DEF JobsInv, ResultKept, None

\* The result leaves the loop only when the server has it.
LEMMA PostsKeep ==
  ASSUME JobsInv, PostAcknowledged \/ PostFails(TRUE) \/ PostFails(FALSE) \/ WaitEnds \/ StopPulling \/ Restart
  PROVE  JobsInv'
<1> USE JobsAssumption
<1>1. CASE PostAcknowledged
  BY <1>1 DEF JobsInv, ResultKept, PostAcknowledged, device
<1>2. ASSUME NEW recorded \in BOOLEAN, PostFails(recorded) PROVE JobsInv'
  BY <1>2 DEF JobsInv, ResultKept, PostFails, device
<1>3. CASE WaitEnds \/ StopPulling
  BY <1>3 DEF JobsInv, ResultKept, WaitEnds, StopPulling, device
<1>4. CASE Restart
  BY <1>4 DEF JobsInv, ResultKept, Restart
<1> QED
  BY <1>1, <1>2, <1>3, <1>4

LEMMA JobsNextInv == JobsInv /\ [JobsNext]_jobVars => JobsInv'
<1> SUFFICES ASSUME JobsInv, [JobsNext]_jobVars PROVE JobsInv'
  OBVIOUS
<1>1. ASSUME NEW session \in Sessions, Backup(session) PROVE JobsInv'
  BY <1>1 DEF JobsInv, ResultKept, Backup
<1>2. CASE UNCHANGED jobVars
  BY <1>2 DEF JobsInv, ResultKept, jobVars
<1> QED
  BY <1>1, <1>2, PullsKeep, ExecuteKeeps, PostsKeep DEF JobsNext

\* internal/jobpull Run: the result of an executed device job stays pending until the
\* server has it, through lost answers, refusals, lapsed leases and restarts; and no
\* command outside the allow list is started on a device.
THEOREM ResultAlwaysKept == JobsSpec => []ResultKept
<1>1. JobsInv => ResultKept
  BY DEF JobsInv
<1> QED
  BY <1>1, JobsInitInv, JobsNextInv, PTL DEF JobsSpec

-----------------------------------------------------------------------------
(* Collector *)

LEMMA ProcInitInv == Init => ProcInv
<1> SUFFICES ASSUME Init PROVE ProcInv
  OBVIOUS
<1> USE CollectorAssumption
<1>1. out \in Seq(Batches) /\ Len(out) = 0
  BY DEF Init
<1>2. TypeOK
  <2>1. <<profile, kind>> \in Agents
    BY DEF Init, Agents
  <2>2. prod \in [Producers -> -1 .. MaxBatches]
    BY DEF Init, AllOff, Off
  <2>3. sender[1] = "off" /\ collected = 0 /\ early = {} /\ outbox = {}
    BY DEF Init
  <2>4. collected <= MaxBatches /\ Len(out) <= OutCap
    BY <1>1, <2>3
  <2>5. marker \in BOOLEAN /\ canceled \in BOOLEAN /\ collector \in BOOLEAN /\ main = "boot" /\ reg = "off" /\ revoked = "no"
    BY DEF Init
  <2> QED
    BY <2>1, <2>2, <2>3, <2>4, <2>5 DEF TypeOK
<1>3. Traced
  BY <1>1 DEF Init, Traced, AllOff, Off, SenderStates, NoBatch
<1> QED
  BY <1>1, <1>2, <1>3 DEF Init, ProcInv, OnItsWay, Drains, Ends, AllOff, Off

\* What neither touches the channel nor the sender: nothing moves on the way of a batch.
Still == UNCHANGED <<out, sender, collected, early, outbox>>

\* The way of a batch is left alone.
LEMMA WayLeft ==
  ASSUME ProcInv, Still, prod' \in [Producers -> Int], \A p \in Producers : prod'[p] > 0 => prod'[p] = prod[p]
  PROVE  Traced' /\ OnItsWay'
  BY DEF ProcInv, Still, Traced, OnItsWay, Pending, Batches

\* Starts, registrations and signals: they switch producers on and decide how to end.
LEMMA MainKeeps ==
  ASSUME ProcInv, RegisterNode \/ RegisterMachine \/ StartLoops \/ Exit \/ Signal \/ Revoke \/ Register \/ Retry
  PROVE  ProcInv'
<1> USE CollectorAssumption
<1>1. Still
  BY DEF Still, RegisterNode, RegisterMachine, StartLoops, Exit, Signal, Revoke, Register, Retry, process
<1>2. prod' \in [Producers -> -1 .. MaxBatches] /\ \A p \in Producers : prod'[p] > 0 => prod'[p] = prod[p]
  <2>1. prod \in [Producers -> -1 .. MaxBatches] /\ {"self", "local", "checks"} = Producers
    BY DEF ProcInv, TypeOK, Producers
  <2>2. CASE RegisterNode
    BY <2>1, <2>2 DEF RegisterNode, On
  <2>3. CASE RegisterMachine
    BY <2>1, <2>3 DEF RegisterMachine, On
  <2>4. CASE Register
    BY <2>1, <2>4 DEF Register, On
  <2>5. CASE StartLoops \/ Exit \/ Signal \/ Revoke \/ Retry
    BY <2>1, <2>5 DEF StartLoops, Exit, Signal, Revoke, Retry, process
  <2> QED
    BY <2>2, <2>3, <2>4, <2>5
<1>3. TypeOK'
  <2>1. UNCHANGED <<profile, kind>> /\ (marker' = marker \/ marker' = TRUE)
    BY DEF ProcInv, TypeOK, RegisterNode, RegisterMachine, StartLoops, Exit, Signal, Revoke, Register, Retry, process
  <2>2. <<profile, kind>>' \in Agents /\ marker' \in BOOLEAN
    BY <2>1 DEF ProcInv, TypeOK
  <2>3. main' \in {"boot", "registering", "starting", "up", "exited"} /\ reg' \in {"off", "try", "wait", "beat", "gone"}
    BY DEF ProcInv, TypeOK, RegisterNode, RegisterMachine, StartLoops, Exit, Signal, Revoke, Register, Retry, process
  <2>4. canceled' \in BOOLEAN /\ revoked' \in {"no", "noted", "done"}
    BY DEF ProcInv, TypeOK, RegisterNode, RegisterMachine, StartLoops, Exit, Signal, Revoke, Register, Retry, process, Noted
  <2>5. collector' \in BOOLEAN
    BY DEF ProcInv, TypeOK, RegisterNode, RegisterMachine, StartLoops, Exit, Signal, Revoke, Register, Retry, process
  <2> QED
    BY <1>1, <1>2, <2>2, <2>3, <2>4, <2>5 DEF ProcInv, TypeOK, Still
<1>4. Traced' /\ OnItsWay'
  BY <1>1, <1>2, WayLeft
<1>5. (canceled => canceled') /\ (revoked # "no" => revoked' # "no")
  BY DEF ProcInv, TypeOK, RegisterNode, RegisterMachine, StartLoops, Exit, Signal, Revoke, Register, Retry, process, Noted
<1>6. Drains'
  BY <1>1, <1>5 DEF ProcInv, Drains, Still
<1>7. Ends'
  BY <1>1 DEF ProcInv, Ends, Traced, Still, RegisterNode, RegisterMachine, StartLoops, Exit, Signal, Revoke, Register,
         Retry, process, On
<1> QED
  BY <1>3, <1>4, <1>6, <1>7 DEF ProcInv

\* A process starts: before it nothing of this process exists.
LEMMA StartKeeps ==
  ASSUME ProcInv, Boot \/ Launch
  PROVE  ProcInv'
<1> USE CollectorAssumption
<1>1. CASE Boot
  <2>1. out' = out /\ early' = early /\ outbox' = outbox /\ collected' = collected /\ early = {}
    BY <1>1 DEF ProcInv, Ends, Boot
  <2>2. TypeOK'
    BY <1>1, <2>1 DEF ProcInv, TypeOK, Boot, On, Producers
  <2>3. Traced'
    BY <1>1, <2>1 DEF ProcInv, Traced, Boot, On, NoBatch, SenderStates, Batches
  <2>4. OnItsWay'
    BY <2>1 DEF OnItsWay
  <2>5. Drains' /\ Ends'
    BY <1>1, <2>1 DEF ProcInv, Drains, Ends, Boot
  <2> QED
    BY <2>2, <2>3, <2>4, <2>5 DEF ProcInv
<1>2. CASE Launch
  <2>1. out' = <<>> /\ early' = {} /\ outbox' = outbox /\ collected' = collected /\ prod' = AllOff
        /\ sender' = <<"off", NoBatch>> /\ main' = "boot" /\ reg' = "off" /\ canceled' = FALSE /\ revoked' = "no"
        /\ collector' = FALSE /\ profile' = profile /\ kind' = kind /\ marker' = marker
    BY <1>2 DEF Launch, Fresh
  <2>2. out' \in Seq(Batches') /\ Len(out') = 0
    BY <2>1
  <2>3. AllOff \in [Producers -> -1 .. MaxBatches] /\ \A p \in Producers : ~(AllOff[p] > 0)
    BY DEF AllOff, Off
  <2>4. TypeOK'
    <3>1. <<profile, kind>>' \in Agents /\ marker' \in BOOLEAN /\ collected' <= MaxBatches /\ outbox' \subseteq 1 .. collected'
      BY <2>1 DEF ProcInv, TypeOK
    <3>2. sender'[1] = "off" /\ early' \subseteq 1 .. collected'
      BY <2>1
    <3>3. Len(out') <= OutCap
      BY <2>2
    <3>4. prod' \in [Producers -> -1 .. MaxBatches]
      BY <2>1, <2>3
    <3>5. canceled' \in BOOLEAN /\ collector' \in BOOLEAN /\ main' = "boot" /\ reg' = "off" /\ revoked' = "no"
      BY <2>1
    <3> QED
      BY <3>1, <3>2, <3>3, <3>4, <3>5 DEF TypeOK
  <2>5. Traced'
    BY <2>1, <2>2, <2>3 DEF ProcInv, Traced, NoBatch, SenderStates
  <2>6. OnItsWay' /\ Drains' /\ Ends'
    BY <2>1, <2>3 DEF OnItsWay, Drains, Ends, AllOff, Off
  <2> QED
    BY <2>4, <2>5, <2>6 DEF ProcInv
<1> QED
  BY <1>1, <1>2

\* A batch is made; those made before stay.
LEMMA CollectKeeps ==
  ASSUME ProcInv, NEW p \in Producers, Collect(p)
  PROVE  ProcInv'
<1> USE CollectorAssumption
<1>1. /\ collected \in Nat /\ collected' = collected + 1 /\ collected' <= MaxBatches
      /\ prod' = [prod EXCEPT ![p] = collected + 1]
      /\ UNCHANGED <<out, sender, early, outbox, main, canceled, revoked, reg>>
  BY DEF ProcInv, Traced, Collect
<1>2. Batches \subseteq Batches' /\ collected + 1 \in Batches'
  BY <1>1 DEF Batches
<1>3. out' \in Seq(Batches')
  BY <1>1, <1>2 DEF ProcInv, Traced
<1>4. TypeOK'
  BY <1>1 DEF ProcInv, TypeOK, Collect
<1>5. Traced'
  BY <1>1, <1>2, <1>3 DEF ProcInv, Traced
<1>6. OnItsWay'
  BY <1>1 DEF ProcInv, OnItsWay, Pending
<1>7. Drains'
  BY <1>1 DEF ProcInv, Drains
<1>8. Ends'
  BY <1>1 DEF ProcInv, Ends, Collect, On, Off
<1> QED
  BY <1>4, <1>5, <1>6, <1>7, <1>8 DEF ProcInv

\* The batch enters the channel or is dropped; only before the end does it count as early.
LEMMA PutKeeps ==
  ASSUME ProcInv, NEW p \in Producers, Put(p)
  PROVE  ProcInv'
<1> USE CollectorAssumption
<1> DEFINE b == prod[p]
<1>1. /\ b \in Batches /\ sender[1] # "off" /\ main # "exited" /\ prod' = [prod EXCEPT ![p] = On]
      /\ UNCHANGED <<profile, kind, marker, starts, main, canceled, revoked, collector, reg, sender, collected, outbox>>
  BY DEF ProcInv, Traced, Ends, Put, Off
<1>2. prod' \in [Producers -> -1 .. MaxBatches] /\ \A q \in Producers : prod'[q] > 0 => prod'[q] = prod[q]
  BY <1>1 DEF ProcInv, TypeOK, On
<1>3. CASE Len(out) < OutCap /\ out' = Append(out, b) /\ early' = IF canceled THEN early ELSE early \cup {b}
  <2>1. out \in Seq(Batches)
    BY DEF ProcInv, Traced
  <2>2. /\ out' \in Seq(Batches) /\ Len(out') = Len(out) + 1 /\ out'[Len(out) + 1] = b
        /\ \A i \in 1 .. Len(out) : out'[i] = out[i]
    BY <1>1, <1>3, <2>1
  <2>3. \A i \in 1 .. Len(out) : out[i] \in {out'[k] : k \in 1 .. Len(out')}
    <3> TAKE i \in 1 .. Len(out)
    <3>1. i \in 1 .. Len(out') /\ out'[i] = out[i]
      BY <2>1, <2>2
    <3> QED
      BY <3>1, Zenon
  <2>4. b \in {out'[k] : k \in 1 .. Len(out')}
    <3>1. Len(out) + 1 \in 1 .. Len(out')
      BY <2>1, <2>2
    <3> QED
      BY <2>2, <3>1, Zenon
  <2>5. Pending \subseteq Pending' /\ b \in Pending'
    BY <1>1, <2>3, <2>4 DEF Pending
  <2>6. OnItsWay'
    BY <1>1, <1>3, <2>5 DEF ProcInv, OnItsWay
  <2>7. early' \subseteq Batches
    BY <1>1, <1>3 DEF ProcInv, TypeOK, Batches
  <2>8. TypeOK'
    BY <1>1, <1>2, <1>3, <2>2, <2>7 DEF ProcInv, TypeOK, Batches
  <2>9. Traced'
    BY <1>1, <1>2, <2>2 DEF ProcInv, Traced, Batches
  <2>10. Drains'
    BY <1>1, <1>3 DEF ProcInv, Drains
  <2>11. Ends'
    BY <1>1 DEF ProcInv, Ends
  <2> QED
    BY <2>6, <2>8, <2>9, <2>10, <2>11 DEF ProcInv
<1>4. CASE UNCHANGED <<out, early>>
  <2>1. Still
    BY <1>1, <1>4 DEF Still
  <2>2. TypeOK' /\ Drains' /\ Ends'
    BY <1>1, <1>2, <1>4 DEF ProcInv, TypeOK, Drains, Ends
  <2> QED
    BY <1>2, <2>1, <2>2, WayLeft DEF ProcInv
<1> QED
  BY <1>3, <1>4 DEF Put

\* A producer ends.
LEMMA StopKeeps ==
  ASSUME ProcInv, NEW p \in Producers, Stop(p)
  PROVE  ProcInv'
<1> USE CollectorAssumption
<1>1. prod' \in [Producers -> -1 .. MaxBatches] /\ \A q \in Producers : prod'[q] > 0 => prod'[q] = prod[q]
  BY DEF ProcInv, TypeOK, Stop, Off
<1>2. Still
  BY DEF Stop, Still
<1>3. TypeOK' /\ Drains' /\ Ends'
  BY <1>1 DEF ProcInv, TypeOK, Drains, Ends, Stop, Off
<1> QED
  BY <1>1, <1>2, <1>3, WayLeft DEF ProcInv

\* From the channel to the sender.
LEMMA TakeKeeps ==
  ASSUME ProcInv, Take("select", "post") \/ Take("drain", "drainpost")
  PROVE  ProcInv'
<1> USE CollectorAssumption
<1>1. /\ out # <<>> /\ out' = Tail(out) /\ sender'[2] = Head(out) /\ sender'[1] \in {"post", "drainpost"}
      /\ sender[1] \in {"select", "drain"} /\ (sender'[1] = "drainpost" => sender[1] = "drain")
      /\ sender' = <<sender'[1], Head(out)>>
      /\ UNCHANGED <<profile, kind, marker, starts, main, canceled, revoked, collector, reg, prod, collected, early, outbox>>
  BY DEF Take
<1>2. out \in Seq(Batches) /\ Len(out) > 0
  BY <1>1 DEF ProcInv, Traced
<1>3. Head(out) \in Batches /\ Head(out) = out[1]
  BY <1>1, <1>2
<1>4. Tail(out) \in Seq(Batches) /\ Len(Tail(out)) = Len(out) - 1 /\ \A i \in 1 .. Len(out) - 1 : Tail(out)[i] = out[i + 1]
  BY <1>1, <1>2
<1>5. \A i \in 1 .. Len(out) : out[i] \in Pending'
  <2> SUFFICES ASSUME NEW i \in 1 .. Len(out), i # 1 PROVE out[i] \in {out'[k] : k \in 1 .. Len(out')}
    BY <1>1, <1>3 DEF Pending
  <2>1. i - 1 \in 1 .. Len(out') /\ out'[i - 1] = out[i]
    BY <1>1, <1>2, <1>4
  <2> QED
    BY <2>1, Zenon
<1>6. Pending \subseteq Pending'
  BY <1>1, <1>5 DEF Pending
<1>10. OnItsWay'
  BY <1>1, <1>6 DEF ProcInv, OnItsWay
<1>7. TypeOK'
  BY <1>1, <1>2, <1>4 DEF ProcInv, TypeOK
<1>8. Traced'
  BY <1>1, <1>3, <1>4 DEF ProcInv, Traced, SenderStates, Batches
<1>9. Drains' /\ Ends'
  BY <1>1 DEF ProcInv, Drains, Ends
<1> QED
  BY <1>7, <1>8, <1>9, <1>10 DEF ProcInv

\* From the sender to the outbox.
LEMMA PostKeeps ==
  ASSUME ProcInv, Post("post", "select") \/ Post("drainpost", "drain")
  PROVE  ProcInv'
<1> USE CollectorAssumption
<1>1. /\ sender[1] \in {"post", "drainpost"} /\ sender'[1] \in {"select", "drain"}
      /\ (sender'[1] = "drain" => sender[1] = "drainpost") /\ sender' = <<sender'[1], NoBatch>>
      /\ outbox' = outbox \cup {sender[2]} /\ revoked' \in {revoked, Noted}
      /\ UNCHANGED <<profile, kind, marker, starts, main, canceled, collector, reg, prod, out, collected, early>>
  BY DEF Post
<1>2. sender[2] \in Batches
  BY <1>1 DEF ProcInv, Traced
<1>3. TypeOK'
  BY <1>1, <1>2 DEF ProcInv, TypeOK, Noted, Batches
<1>4. Traced'
  BY <1>1 DEF ProcInv, Traced, SenderStates, NoBatch, Batches
<1>5. OnItsWay'
  BY <1>1 DEF ProcInv, OnItsWay, Pending
<1>6. Drains' /\ Ends'
  BY <1>1 DEF ProcInv, Drains, Ends
<1> QED
  BY <1>3, <1>4, <1>5, <1>6 DEF ProcInv

\* The sender learns that ctx is done; it is gone once the channel is empty.
LEMMA DoneKeeps ==
  ASSUME ProcInv, SeesDone \/ DrainEnds
  PROVE  ProcInv'
<1> USE CollectorAssumption
<1>1. /\ canceled /\ sender[1] \in {"select", "drain"} /\ sender'[1] \in {"drain", "gone"}
      /\ sender' = <<sender'[1], NoBatch>>
      /\ sender'[1] = "gone" => revoked # "no" \/ out = <<>>
      /\ UNCHANGED <<profile, kind, marker, starts, main, canceled, revoked, collector, reg, prod, out, collected,
                     early, outbox>>
  BY DEF ProcInv, Drains, SeesDone, DrainEnds
<1>2. Pending' = Pending /\ (out = <<>> => Pending = {})
  BY <1>1 DEF ProcInv, Traced, Pending
<1>3. OnItsWay' /\ Drains'
  BY <1>1, <1>2 DEF ProcInv, OnItsWay, Drains
<1>4. TypeOK'
  BY <1>1 DEF ProcInv, TypeOK
<1>5. Traced'
  BY <1>1 DEF ProcInv, Traced, SenderStates, NoBatch, Batches
<1>6. Ends'
  BY <1>1 DEF ProcInv, Ends
<1> QED
  BY <1>3, <1>4, <1>5, <1>6 DEF ProcInv

LEMMA ProcNextInv == ProcInv /\ [Next]_vars => ProcInv'
<1> SUFFICES ASSUME ProcInv, [Next]_vars PROVE ProcInv'
  OBVIOUS
<1>1. CASE UNCHANGED vars
  BY <1>1 DEF vars, ProcInv, TypeOK, Traced, OnItsWay, Pending, Drains, Ends, Batches
<1>2. CASE Next
  BY <1>2, MainKeeps, StartKeeps, CollectKeeps, PutKeeps, StopKeeps, TakeKeeps, PostKeeps, DoneKeeps
  DEF Next, MainStep, SenderStep
<1> QED
  BY <1>1, <1>2

\* The process keeps its types; the channel never holds more than its capacity.
THEOREM ProcessTypeCorrect == Spec => []TypeOK
<1>1. ProcInv => TypeOK
  BY DEF ProcInv
<1> QED
  BY <1>1, ProcInitInv, ProcNextInv, PTL DEF Spec

\* cmd/collector/main.go: main returns only after the sender emptied the channel, so a
\* batch that was in it when ctx was done is in the outbox, unless the agent was revoked.
THEOREM DrainedAlways == Spec => []DrainedBeforeExit
<1>1. ProcInv => DrainedBeforeExit
  BY DEF ProcInv, DrainedBeforeExit, Drains, Ends
<1> QED
  BY <1>1, ProcInitInv, ProcNextInv, PTL DEF Spec

-----------------------------------------------------------------------------
(* Both, side by side *)

\* What the composition MCProgress checks on a small instance, for every capacity, number
\* of batches, starts and jobs: nothing that was taken over is forgotten.
THEOREM NothingIsForgotten == ProgressSpec => []NothingForgotten
<1>1. ProgressInit => ProcInv /\ JobsInv
  BY ProcInitInv, JobsInitInv DEF ProgressInit
<1>2. [ProgressNext]_progressVars => [Next]_vars /\ [JobsNext]_jobVars
  BY DEF ProgressNext, progressVars
<1>3. ProcInv /\ JobsInv => NothingForgotten
  BY DEF ProcInv, JobsInv, NothingForgotten, DrainedBeforeExit, Drains, Ends
<1> QED
  BY <1>1, <1>2, <1>3, ProcNextInv, JobsNextInv, PTL DEF ProgressSpec
=============================================================================
