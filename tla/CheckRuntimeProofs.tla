------------------------- MODULE CheckRuntimeProofs -------------------------
(***************************************************************************)
(* Proofs about CheckRuntime, for any checks, pool size, threshold of the  *)
(* breaker and number of starts.                                           *)
(***************************************************************************)
EXTENDS CheckRuntime, FiniteSetTheorems, TLAPS

-----------------------------------------------------------------------------
(* The inductive invariant *)

\* What stands in the table is alive, and its own check's.
TableLive ==
  \A c \in Checks : table[c] # 0 => inst[table[c]].check = c /\ ~inst[table[c]].canceled

\* ApplyDelta waits for an instance it canceled, and what it will start then has a
\* free place in the table.
CallerWaits ==
  /\ caller.victim # 0 => inst[caller.victim].canceled
  /\ caller.victim = 0 => caller.start = Nobody
  /\ caller.start # Nobody => table[caller.start] = 0 /\ Len(inst) < MaxStarts

\* A canceled instance has a result to publish only while stopCheck waits for it, and
\* only a pooled check waits for a slot.
Phases ==
  \A i \in Live :
    /\ inst[i].phase = "publish" => ~inst[i].canceled \/ caller.victim = i
    /\ inst[i].phase = "slot" => inst[i].check \in Pooled

\* The executions that hold a slot.
Busy == {i \in Live : inst[i].check \in Pooled /\ inst[i].phase \in {"run", "publish"}}

IInv == TypeOK /\ NoOrphan /\ TableLive /\ CallerWaits /\ Phases /\ SlotsAccounted

-----------------------------------------------------------------------------
(* Lemmas *)

\* The facts about the state that most steps use.
LEMMA Shape ==
  ASSUME TypeOK
  PROVE  /\ Len(inst) \in Nat /\ Live = 1 .. Len(inst)
         /\ \A i \in Live : inst[i] \in Instance
         /\ 0 \notin Live /\ \A c \in Checks : table[c] # 0 => table[c] \in Live
         /\ caller.victim # 0 => caller.victim \in Live
<1>1. inst \in Seq(Instance) /\ Len(inst) \in Nat /\ Live = 1 .. Len(inst)
  BY DEF TypeOK, Live
<1>2. \A i \in Live : inst[i] \in Instance
  BY <1>1
<1>3. \A c \in Checks : table[c] \in 0 .. Len(inst)
  BY DEF TypeOK
<1>4. caller.victim \in 0 .. Len(inst)
  BY DEF TypeOK
<1> QED
  BY <1>1, <1>2, <1>3, <1>4

\* One instance changes: the others and the number of them do not.
LEMMA OneChanged ==
  ASSUME TypeOK, NEW i \in Live, NEW r \in Instance, inst' = [inst EXCEPT ![i] = r]
  PROVE  /\ inst' \in Seq(Instance) /\ Len(inst') = Len(inst) /\ Live' = Live
         /\ inst'[i] = r /\ \A j \in Live \ {i} : inst'[j] = inst[j]
<1>1. inst \in Seq(Instance) /\ i \in 1 .. Len(inst)
  BY Shape DEF TypeOK
<1> QED
  BY <1>1 DEF Live

\* The slots in use are counted by a natural number.
LEMMA BusyFinite ==
  ASSUME TypeOK
  PROVE  IsFiniteSet(Busy) /\ Cardinality(Busy) \in Nat
<1>1. IsFiniteSet(1 .. Len(inst)) /\ Busy \in SUBSET (1 .. Len(inst))
  BY Shape, FS_Interval DEF Busy
<1> QED
  BY <1>1, FS_Subset, FS_CardinalityType

\* A slot is taken, given back or left alone, as the phase of one instance changes.
LEMMA BusyChange ==
  ASSUME TypeOK, SlotsAccounted, NEW i \in Live, NEW r \in Instance, inst' = [inst EXCEPT ![i] = r],
         slots' = CASE i \notin Busy /\ r.check \in Pooled /\ r.phase \in {"run", "publish"} -> slots + 1
                    [] i \in Busy /\ ~(r.check \in Pooled /\ r.phase \in {"run", "publish"}) -> slots - 1
                    [] OTHER -> slots
  PROVE  SlotsAccounted' /\ (i \in Busy => slots > 0)
<1>1. slots = Cardinality(Busy)
  BY DEF SlotsAccounted, Busy
<1>2. IsFiniteSet(Busy) /\ Cardinality(Busy) \in Nat
  BY BusyFinite
<1>3. Busy' = IF r.check \in Pooled /\ r.phase \in {"run", "publish"} THEN Busy \cup {i} ELSE Busy \ {i}
  BY OneChanged DEF Busy
<1>4. Cardinality(Busy \cup {i}) = IF i \in Busy THEN Cardinality(Busy) ELSE Cardinality(Busy) + 1
  BY <1>2, FS_AddElement
<1>5. /\ Cardinality(Busy \ {i}) = IF i \in Busy THEN Cardinality(Busy) - 1 ELSE Cardinality(Busy)
      /\ Cardinality(Busy \ {i}) \in Nat
  BY <1>2, FS_RemoveElement, FS_CardinalityType
<1>6. slots' = Cardinality(Busy')
  BY <1>1, <1>3, <1>4, <1>5
<1>7. i \in Busy => slots > 0
  BY <1>1, <1>2, <1>5
<1> QED
  BY <1>6, <1>7 DEF SlotsAccounted, Busy

\* A step of one goroutine that keeps its check and its context, whatever it does with
\* its phase and its breaker, keeps everything but the account of slots.
LEMMA GoroutineStep ==
  ASSUME IInv, NEW i \in Live, NEW r \in Instance, inst' = [inst EXCEPT ![i] = r],
         r.check = inst[i].check, r.canceled = inst[i].canceled,
         UNCHANGED <<table, caller, up>>,
         r.phase = "publish" => inst[i].phase = "publish" \/ ~r.canceled,
         r.phase = "slot" => r.check \in Pooled,
         overdue' \in SUBSET overdue, r.phase = "run" \/ i \notin overdue',
         slots' \in 0 .. PoolSize, SlotsAccounted'
  PROVE  IInv'
<1>1. /\ inst' \in Seq(Instance) /\ Len(inst') = Len(inst) /\ Live' = Live
      /\ inst'[i] = r /\ \A j \in Live \ {i} : inst'[j] = inst[j]
  BY OneChanged DEF IInv
<1>2. \A j \in Live : inst'[j].check = inst[j].check /\ inst'[j].canceled = inst[j].canceled
  BY <1>1
<1>3. /\ \A c \in Checks : table[c] # 0 => table[c] \in Live
      /\ caller.victim # 0 => caller.victim \in Live
  BY Shape DEF IInv
<1>4. TypeOK'
  <2>1. overdue' \in SUBSET {j \in Live' : inst'[j].phase = "run"}
    BY <1>1 DEF IInv, TypeOK
  <2> QED
    BY <1>1, <2>1 DEF IInv, TypeOK
<1>5. NoOrphan' /\ TableLive'
  BY <1>1, <1>2, <1>3 DEF IInv, NoOrphan, TableLive
<1>6. CallerWaits'
  BY <1>1, <1>2, <1>3 DEF IInv, CallerWaits
<1>7. Phases'
  BY <1>1, <1>2 DEF IInv, Phases
<1> QED
  BY <1>4, <1>5, <1>6, <1>7 DEF IInv

-----------------------------------------------------------------------------
(* The steps of a goroutine *)

LEMMA TickKeeps ==
  ASSUME IInv, NEW i \in Live, Tick(i) PROVE IInv'
<1> DEFINE r == [inst[i] EXCEPT !.phase = IF inst[i].check \in Pooled THEN "slot" ELSE "run",
                                !.cooling = inst[i].errs = Threshold]
<1>1. /\ inst' = [inst EXCEPT ![i] = r] /\ inst[i].phase = "idle"
      /\ UNCHANGED <<table, caller, slots, up, overdue>>
  BY DEF Tick
<1>2. inst[i] \in Instance
  BY Shape DEF IInv
<1>3. /\ r \in Instance /\ r.check = inst[i].check /\ r.canceled = inst[i].canceled
      /\ r.phase = IF inst[i].check \in Pooled THEN "slot" ELSE "run"
  BY <1>2 DEF Instance
<1> HIDE DEF r
<1>4. i \notin overdue
  BY <1>1 DEF IInv, TypeOK
<1>5. SlotsAccounted'
  BY <1>1, <1>3, BusyChange DEF IInv, Busy
<1> QED
  BY <1>1, <1>3, <1>4, <1>5, GoroutineStep DEF IInv, TypeOK

LEMMA GetSlotKeeps ==
  ASSUME IInv, NEW i \in Live, GetSlot(i) PROVE IInv'
<1> DEFINE r == [inst[i] EXCEPT !.phase = "run"]
<1>1. /\ inst' = [inst EXCEPT ![i] = r] /\ inst[i].phase = "slot"
      /\ slots' = slots + 1 /\ slots < PoolSize
      /\ UNCHANGED <<table, caller, up, overdue>>
  BY DEF GetSlot
<1>2. inst[i] \in Instance /\ slots \in 0 .. PoolSize
  BY Shape DEF IInv, TypeOK
<1>3. r \in Instance /\ r.check = inst[i].check /\ r.canceled = inst[i].canceled /\ r.phase = "run"
  BY <1>2 DEF Instance
<1> HIDE DEF r
<1>4. r.check \in Pooled /\ i \notin Busy
  BY <1>1, <1>3 DEF IInv, Phases, Busy
<1>5. SlotsAccounted'
  BY <1>1, <1>2, <1>3, <1>4, BusyChange DEF IInv
<1>6. slots' \in 0 .. PoolSize
  BY <1>1, <1>2, RuntimeAssumption
<1> QED
  BY <1>1, <1>3, <1>4, <1>5, <1>6, GoroutineStep

LEMMA GiveUpSlotKeeps ==
  ASSUME IInv, NEW i \in Live, GiveUpSlot(i) PROVE IInv'
<1> DEFINE r == [inst[i] EXCEPT !.phase = "idle"]
<1>1. /\ inst' = [inst EXCEPT ![i] = r] /\ inst[i].phase = "slot"
      /\ UNCHANGED <<table, caller, slots, up, overdue>>
  BY DEF GiveUpSlot
<1>2. inst[i] \in Instance /\ slots \in 0 .. PoolSize
  BY Shape DEF IInv, TypeOK
<1>3. r \in Instance /\ r.check = inst[i].check /\ r.canceled = inst[i].canceled /\ r.phase = "idle"
  BY <1>2 DEF Instance
<1> HIDE DEF r
<1>4. i \notin Busy /\ i \notin overdue
  BY <1>1 DEF IInv, Busy, TypeOK
<1>5. SlotsAccounted'
  BY <1>1, <1>2, <1>3, <1>4, BusyChange DEF IInv
<1> QED
  BY <1>1, <1>2, <1>3, <1>4, <1>5, GoroutineStep

\* Run returns: a result to publish, or nothing when the instance was canceled.
LEMMA RunEndsKeeps ==
  ASSUME IInv, NEW i \in Live, RunEnds(i) PROVE IInv'
<1> DEFINE r == IF inst[i].canceled THEN [inst[i] EXCEPT !.phase = "idle"]
                ELSE [inst[i] EXCEPT !.phase = "publish", !.ok = Outcome(i)]
<1>1. /\ inst' = [inst EXCEPT ![i] = r] /\ inst[i].phase = "run"
      /\ slots' = IF inst[i].canceled /\ inst[i].check \in Pooled THEN slots - 1 ELSE slots
      /\ overdue' = overdue \ {i} /\ UNCHANGED <<table, caller, up>>
  BY DEF RunEnds, Release
<1>2. inst[i] \in Instance /\ slots \in 0 .. PoolSize
  BY Shape DEF IInv, TypeOK
<1>3. Outcome(i) \in BOOLEAN
  BY DEF Outcome
<1>4. /\ r \in Instance /\ r.check = inst[i].check /\ r.canceled = inst[i].canceled
      /\ r.phase = IF inst[i].canceled THEN "idle" ELSE "publish"
  BY <1>2, <1>3 DEF Instance
<1> HIDE DEF r
<1>5. i \in Busy <=> inst[i].check \in Pooled
  BY <1>1 DEF Busy
<1>6. SlotsAccounted' /\ (i \in Busy => slots > 0)
  BY <1>1, <1>2, <1>4, <1>5, BusyChange DEF IInv
<1>7. slots' \in 0 .. PoolSize
  BY <1>1, <1>2, <1>5, <1>6, RuntimeAssumption
<1> QED
  BY <1>1, <1>4, <1>6, <1>7, GoroutineStep

\* The breaker hears of the result and the slot is free again.
LEMMA PublishKeeps ==
  ASSUME IInv, NEW i \in Live, Publish(i) PROVE IInv'
<1> DEFINE errs == IF inst[i].ok THEN 0
                   ELSE IF inst[i].errs = Threshold THEN Threshold ELSE inst[i].errs + 1
           opens == errs = Threshold
           r == [inst[i] EXCEPT !.phase = "idle", !.ok = FALSE, !.errs = errs, !.cooling = opens]
<1>1. /\ inst' = [inst EXCEPT ![i] = r] /\ inst[i].phase = "publish"
      /\ slots' = IF inst[i].check \in Pooled THEN slots - 1 ELSE slots
      /\ UNCHANGED <<table, caller, up, overdue>>
  BY DEF Publish, Release
<1>2. inst[i] \in Instance /\ slots \in 0 .. PoolSize
  BY Shape DEF IInv, TypeOK
<1>3. errs \in 0 .. Threshold /\ opens \in BOOLEAN
  BY <1>2, RuntimeAssumption DEF Instance
<1> HIDE DEF errs, opens
<1>4. /\ r \in Instance /\ r.check = inst[i].check /\ r.canceled = inst[i].canceled /\ r.phase = "idle"
  BY <1>2, <1>3 DEF Instance
<1> HIDE DEF r
<1>5. (i \in Busy <=> inst[i].check \in Pooled) /\ i \notin overdue
  BY <1>1 DEF Busy, IInv, TypeOK
<1>6. SlotsAccounted' /\ (i \in Busy => slots > 0)
  BY <1>1, <1>2, <1>4, <1>5, BusyChange DEF IInv
<1>7. slots' \in 0 .. PoolSize
  BY <1>1, <1>2, <1>5, <1>6, RuntimeAssumption
<1> QED
  BY <1>1, <1>4, <1>5, <1>6, <1>7, GoroutineStep

LEMMA ExitKeeps ==
  ASSUME IInv, NEW i \in Live, Exit(i) PROVE IInv'
<1> DEFINE r == [New(inst[i].check) EXCEPT !.phase = "gone", !.canceled = TRUE]
<1>1. /\ inst' = [inst EXCEPT ![i] = r] /\ inst[i].phase = "idle" /\ inst[i].canceled
      /\ UNCHANGED <<table, caller, slots, up, overdue>>
  BY DEF Exit
<1>2. inst[i] \in Instance /\ inst[i].canceled = TRUE
  BY <1>1, Shape DEF IInv, Instance
<1>3. /\ r \in Instance /\ r.check = inst[i].check /\ r.canceled = TRUE /\ r.phase = "gone"
  <2> DEFINE n == New(inst[i].check)
  <2>1. n \in Instance /\ n.check = inst[i].check
    BY <1>2, RuntimeAssumption DEF Instance, New
  <2> HIDE DEF n
  <2>2. LET q == [n EXCEPT !.phase = "gone", !.canceled = TRUE]
        IN  q \in Instance /\ q.check = inst[i].check /\ q.canceled = TRUE /\ q.phase = "gone"
    BY <2>1 DEF Instance
  <2> QED
    BY <2>2 DEF n
<1> HIDE DEF r
<1>4. i \notin Busy /\ i \notin overdue
  BY <1>1 DEF Busy, IInv, TypeOK
<1>5. SlotsAccounted'
  BY <1>1, <1>3, <1>4, BusyChange DEF IInv
<1> QED
  BY <1>1, <1>2, <1>3, <1>4, <1>5, GoroutineStep DEF IInv, TypeOK

LEMMA CooldownKeeps ==
  ASSUME IInv, NEW i \in Live, CooldownEnds(i) PROVE IInv'
<1> DEFINE r == [inst[i] EXCEPT !.cooling = FALSE]
<1>1. inst' = [inst EXCEPT ![i] = r] /\ UNCHANGED <<table, caller, slots, up, overdue>>
  BY DEF CooldownEnds
<1>2. inst[i] \in Instance
  BY Shape DEF IInv
<1>3. /\ r \in Instance /\ r.check = inst[i].check /\ r.canceled = inst[i].canceled
      /\ r.phase = inst[i].phase
  BY <1>2 DEF Instance
<1> HIDE DEF r
<1>4. SlotsAccounted'
  BY <1>1, <1>3, BusyChange DEF IInv, Busy
<1>5. (r.phase = "run" \/ i \notin overdue') /\ (r.phase = "slot" => r.check \in Pooled)
  BY <1>1, <1>3 DEF IInv, TypeOK, Phases
<1> QED
  BY <1>1, <1>3, <1>4, <1>5, GoroutineStep DEF IInv, TypeOK

-----------------------------------------------------------------------------
(* The steps of ApplyDelta and RetryFailedStarts *)

\* startCheck appends an instance that waits for its ticker; the table had no place
\* taken by the check, so no goroutine is cut off from it.
LEMMA StartKeeps ==
  ASSUME IInv, NEW c \in Checks \cup {Nobody}, Start(c), caller' = AtRest,
         UNCHANGED <<slots, up, overdue>>,
         c # Nobody => table[c] = 0 /\ Len(inst) < MaxStarts,
         caller.victim # 0 => inst[caller.victim].phase # "publish"
  PROVE  IInv'
<1>1. /\ Len(inst) \in Nat /\ Live = 1 .. Len(inst)
      /\ \A i \in Live : inst[i] \in Instance
      /\ 0 \notin Live /\ \A d \in Checks : table[d] # 0 => table[d] \in Live
  BY Shape DEF IInv
<1>2. /\ inst \in Seq(Instance) /\ Len(inst) <= MaxStarts /\ MaxStarts \in Nat
      /\ table \in [Checks -> 0 .. Len(inst)] /\ overdue \in SUBSET {i \in Live : inst[i].phase = "run"}
  BY RuntimeAssumption DEF IInv, TypeOK
<1>3. /\ caller'.victim = 0 /\ caller'.start = Nobody
      /\ \A n \in Nat : caller' \in [victim : 0 .. n, start : Checks \cup {Nobody}]
  BY DEF AtRest
<1>4. \A i \in Live : inst[i].phase = "publish" => ~inst[i].canceled
  BY <1>1 DEF IInv, Phases
<1>5. CASE c = Nobody
  <2>1. UNCHANGED <<inst, table, slots, up, overdue>>
    BY <1>5 DEF Start
  <2>2. TypeOK'
    BY <1>1, <1>3, <2>1 DEF IInv, TypeOK, Live
  <2>3. NoOrphan' /\ TableLive' /\ SlotsAccounted'
    BY <2>1 DEF IInv, NoOrphan, TableLive, SlotsAccounted, Live
  <2>4. CallerWaits' /\ Phases'
    BY <1>1, <1>3, <1>4, <2>1 DEF IInv, CallerWaits, Phases, Live
  <2> QED
    BY <2>2, <2>3, <2>4 DEF IInv
<1>6. CASE c # Nobody
  <2> DEFINE n == Len(inst) + 1
  <2>1. inst' = Append(inst, New(c)) /\ table' = [table EXCEPT ![c] = n] /\ c \in Checks /\ table[c] = 0
    BY <1>6 DEF Start
  <2>2. New(c) \in Instance /\ New(c).check = c /\ ~New(c).canceled /\ New(c).phase = "idle"
    BY <2>1, RuntimeAssumption DEF New, Instance
  <2>3. /\ inst' \in Seq(Instance) /\ Len(inst') = n /\ Live' = Live \cup {n}
        /\ inst'[n] = New(c) /\ \A i \in Live : inst'[i] = inst[i]
    BY <1>1, <1>2, <2>1, <2>2 DEF Live
  <2>4. n \notin Live /\ n # 0 /\ n \in Nat /\ n <= MaxStarts
    BY <1>1, <1>2, <1>6
  <2>5. table' \in [Checks -> 0 .. n]
    BY <1>1, <1>2, <2>1
  <2> HIDE DEF n
  <2>6. TypeOK'
    BY <1>2, <1>3, <2>3, <2>4, <2>5 DEF IInv, TypeOK
  <2>7. NoOrphan'
    BY <1>1, <1>2, <2>1, <2>2, <2>3, <2>4 DEF IInv, NoOrphan
  <2>8. TableLive'
    BY <1>1, <1>2, <2>1, <2>2, <2>3, <2>4 DEF IInv, TableLive
  <2>9. CallerWaits'
    BY <1>3, <2>3, <2>4 DEF CallerWaits
  <2>10. Phases'
    BY <1>4, <2>2, <2>3, <2>4 DEF IInv, Phases
  <2>11. SlotsAccounted'
    <3>1. Busy' = Busy
      BY <2>2, <2>3, <2>4 DEF Busy
    <3> QED
      BY <3>1 DEF IInv, SlotsAccounted, Busy
  <2> QED
    BY <2>6, <2>7, <2>8, <2>9, <2>10, <2>11 DEF IInv
<1> QED
  BY <1>5, <1>6

\* stopCheck takes the instance out of the table and cancels it.
LEMMA StopKeeps ==
  ASSUME IInv, NEW c \in Checks, NEW then \in {c, Nobody}, BeginStop(c, then),
         caller = AtRest, table[c] # 0, then = c => Len(inst) < MaxStarts,
         UNCHANGED <<slots, up, overdue>>
  PROVE  IInv'
<1> DEFINE v == table[c]
           r == [inst[v] EXCEPT !.canceled = TRUE]
<1>1. /\ inst' = [inst EXCEPT ![v] = r] /\ table' = [table EXCEPT ![c] = 0]
      /\ caller' = [victim |-> v, start |-> then]
  BY DEF BeginStop
<1>2. /\ v \in Live /\ Live = 1 .. Len(inst) /\ inst[v] \in Instance /\ Len(inst) \in Nat
      /\ inst[v].check = c /\ ~inst[v].canceled /\ v # 0
  BY Shape DEF IInv, TableLive
<1>3. /\ r \in Instance /\ r.check = c /\ r.canceled /\ r.phase = inst[v].phase
  BY <1>2 DEF Instance
<1>4. \A d \in Checks \ {c} : table[d] # v
  BY <1>2 DEF IInv, TableLive
<1> HIDE DEF r
<1>5. /\ inst' \in Seq(Instance) /\ Len(inst') = Len(inst) /\ Live' = Live
      /\ inst'[v] = r /\ \A j \in Live \ {v} : inst'[j] = inst[j]
  BY <1>1, <1>2, <1>3, OneChanged DEF IInv
<1>6. TypeOK'
  <2>1. table' \in [Checks -> 0 .. Len(inst')]
    BY <1>1, <1>2, <1>5 DEF IInv, TypeOK
  <2>2. caller' \in [victim : 0 .. Len(inst'), start : Checks \cup {Nobody}]
    BY <1>1, <1>2, <1>5
  <2>3. overdue' \in SUBSET {j \in Live' : inst'[j].phase = "run"}
    BY <1>2, <1>3, <1>5 DEF IInv, TypeOK
  <2> QED
    BY <1>5, <2>1, <2>2, <2>3 DEF IInv, TypeOK
<1>7. table \in [Checks -> 0 .. Len(inst)]
  BY DEF IInv, TypeOK
<1>8. NoOrphan'
  <2> SUFFICES ASSUME NEW j \in Live, ~inst'[j].canceled PROVE table'[inst'[j].check] = j
    BY <1>5 DEF NoOrphan
  <2>1. j # v /\ inst'[j] = inst[j] /\ inst[j].check \in Checks
    BY <1>3, <1>5, Shape DEF IInv, Instance
  <2>2. table[inst[j].check] = j
    BY <2>1 DEF IInv, NoOrphan
  <2> QED
    BY <1>1, <1>7, <2>1, <2>2
<1>9. TableLive'
  <2> SUFFICES ASSUME NEW d \in Checks, table'[d] # 0
               PROVE  inst'[table'[d]].check = d /\ ~inst'[table'[d]].canceled
    BY DEF TableLive
  <2>1. d # c /\ table'[d] = table[d] /\ table[d] # v /\ table[d] \in Live
    BY <1>1, <1>4, <1>7, Shape DEF IInv
  <2> QED
    BY <1>5, <2>1 DEF IInv, TableLive
<1>10. CallerWaits'
  BY <1>1, <1>2, <1>3, <1>5, <1>7 DEF CallerWaits
<1>11. Phases'
  BY <1>1, <1>2, <1>3, <1>5 DEF IInv, Phases, AtRest
<1>12. SlotsAccounted'
  <2>1. Busy' = Busy
    BY <1>2, <1>3, <1>5 DEF Busy
  <2> QED
    BY <2>1 DEF IInv, SlotsAccounted, Busy
<1> QED
  BY <1>6, <1>8, <1>9, <1>10, <1>11, <1>12 DEF IInv

\* Targets come and go and deadlines pass: no instance changes.
LEMMA EnvironmentKeeps ==
  ASSUME IInv,
         \/ \E c \in Checks : TargetChanges(c)
         \/ \E i \in Live : Overruns(i)
         \/ UNCHANGED vars
  PROVE  IInv'
<1>1. /\ UNCHANGED <<inst, table, caller, slots>> /\ up' \in [Checks -> BOOLEAN]
      /\ overdue' \in SUBSET {i \in Live : inst[i].phase = "run"}
  BY DEF TargetChanges, Overruns, vars, IInv, TypeOK
<1>2. TypeOK'
  BY <1>1 DEF IInv, TypeOK, Live
<1>3. NoOrphan' /\ TableLive' /\ CallerWaits' /\ Phases' /\ SlotsAccounted'
  BY <1>1 DEF IInv, NoOrphan, TableLive, CallerWaits, Phases, SlotsAccounted, Live
<1> QED
  BY <1>2, <1>3 DEF IInv

-----------------------------------------------------------------------------
(* The theorems *)

\* The strengthened invariant of the checks runtime holds in every reachable state.
THEOREM RuntimeInvariant == Spec => []IInv
<1>1. Init => IInv
  <2> SUFFICES ASSUME Init PROVE IInv
    OBVIOUS
  <2>1. inst = <<>> /\ Len(inst) = 0 /\ Live = {} /\ inst \in Seq(Instance)
    BY DEF Init, Live
  <2>2. TypeOK
    BY <2>1, RuntimeAssumption DEF Init, TypeOK, AtRest
  <2>3. NoOrphan /\ TableLive /\ CallerWaits /\ Phases
    BY <2>1 DEF Init, NoOrphan, TableLive, CallerWaits, Phases, AtRest
  <2>4. SlotsAccounted
    BY <2>1, FS_EmptySet DEF Init, SlotsAccounted
  <2> QED
    BY <2>2, <2>3, <2>4 DEF IInv
<1>2. IInv /\ [Next]_vars => IInv'
  <2> SUFFICES ASSUME IInv, [Next]_vars PROVE IInv'
    OBVIOUS
  <2>1. ASSUME NEW c \in Checks, Install(c) PROVE IInv'
    <3>1. CASE table[c] = 0
      BY <2>1, <3>1, StartKeeps, RuntimeAssumption DEF Install, AtRest
    <3>2. CASE table[c] # 0
      BY <2>1, <3>2, StopKeeps DEF Install
    <3> QED
      BY <3>1, <3>2
  <2>2. ASSUME NEW c \in Checks, Remove(c) PROVE IInv'
    BY <2>2, StopKeeps, RuntimeAssumption DEF Remove
  <2>3. ASSUME Stopped \/ StopTimeout PROVE IInv'
    <3>1. caller.start \in Checks \cup {Nobody}
      BY DEF IInv, TypeOK
    <3> QED
      BY <2>3, <3>1, StartKeeps DEF Stopped, StopTimeout, IInv, CallerWaits
  <2>4. ASSUME NEW i \in Live, InstanceStep(i) \/ GetSlot(i) \/ GiveUpSlot(i) \/ Exit(i) PROVE IInv'
    BY <2>4, TickKeeps, RunEndsKeeps, PublishKeeps, CooldownKeeps, GetSlotKeeps,
       GiveUpSlotKeeps, ExitKeeps DEF InstanceStep
  <2> QED
    BY <2>1, <2>2, <2>3, <2>4, EnvironmentKeeps DEF Next
<1> QED
  BY <1>1, <1>2, PTL DEF Spec

\* However stops time out and Runs return late: no goroutine escapes the table,
\* replaced and deleted checks are silent, and the pool's slots are those of the
\* executions under way.
THEOREM RuntimeIsSafe == Spec => []RuntimeSafe
<1>1. IInv => RuntimeSafe
  <2> SUFFICES ASSUME IInv PROVE SilentOnceStopped
    BY DEF IInv, RuntimeSafe
  <2> QED
    BY DEF IInv, NoOrphan, Phases, SilentOnceStopped
<1> QED
  BY <1>1, RuntimeInvariant, PTL

\* The pool never serves more executions than it has slots, the abandoned ones that
\* a stop timed out on included.
THEOREM PoolBounded == Spec => [](Cardinality(Busy) <= PoolSize)
<1>1. IInv => Cardinality(Busy) <= PoolSize
  BY RuntimeAssumption DEF IInv, TypeOK, SlotsAccounted, Busy
<1> QED
  BY <1>1, RuntimeInvariant, PTL
=============================================================================
