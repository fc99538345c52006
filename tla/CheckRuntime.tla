----------------------------- MODULE CheckRuntime -----------------------------
(***************************************************************************)
(* internal/checks/scheduler.go (startCheck, stopCheck, runCheckCore) and  *)
(* circuit_breaker.go: the goroutines that execute checks. ApplyDelta and  *)
(* RetryFailedStarts, both called by config pull's goroutine with reloadMu *)
(* held, stop and start instances one at a time; which ones, ConfigPull    *)
(* says. An instance is its number in the order of starting.               *)
(*                                                                         *)
(* A Run gets a context with a deadline but may ignore it and return late, *)
(* or never (overdue). Times are left out, except that stopTimeout (10 s)  *)
(* is long against everything a canceled instance does outside Run: it     *)
(* starts sends in goroutines of their own or under its canceled context,  *)
(* and emit never blocks.                                                  *)
(***************************************************************************)
EXTENDS Integers, Sequences, FiniteSets

CONSTANTS Checks,      \* check ids
          Pooled,      \* those of kind snmp (or icmp): they share a worker pool
          PoolSize,    \* its slots
          Threshold,   \* circuitBreakThreshold
          MaxStarts    \* bound: instances started in all

Nobody == "nobody"

ASSUME RuntimeAssumption ==
  /\ PoolSize \in Nat /\ Threshold \in Nat /\ MaxStarts \in Nat
  /\ Nobody \notin Checks

VARIABLES
  inst,    \* every instance started, by number
  table,   \* r.checks: check -> its instance, or 0
  caller,  \* ApplyDelta: instance stopCheck waits for (or 0), check to start then
  slots,   \* length of the channel that is the pool
  up,      \* environment: check -> its target answers
  overdue  \* instances whose Run is past its deadline; it returns some time, or never

vars == <<inst, table, caller, slots, up, overdue>>

Ids == 1 .. MaxStarts
Live == DOMAIN inst

\* phase: waiting for the ticker, for a slot, in Run, with a result to publish,
\* or returned. errs and cooling are the breaker: consecutive errors (counted to
\* the threshold) and, once it is open, now - lastAttempt < cooldown.
Instance ==
  [check : Checks, phase : {"idle", "slot", "run", "publish", "gone"},
   canceled : BOOLEAN, errs : 0 .. Threshold, cooling : BOOLEAN, ok : BOOLEAN]

TypeOK ==
  /\ inst \in Seq(Instance) /\ Len(inst) <= MaxStarts
  /\ table \in [Checks -> 0 .. Len(inst)]
  /\ caller \in [victim : 0 .. Len(inst), start : Checks \cup {Nobody}]
  /\ slots \in 0 .. PoolSize
  /\ up \in [Checks -> BOOLEAN]
  /\ overdue \in SUBSET {i \in Live : inst[i].phase = "run"}

AtRest == [victim |-> 0, start |-> Nobody]

Init ==
  /\ inst = <<>>
  /\ table = [c \in Checks |-> 0]
  /\ caller = AtRest
  /\ slots = 0
  /\ up \in [Checks -> BOOLEAN]
  /\ overdue = {}

-----------------------------------------------------------------------------
(* ApplyDelta and RetryFailedStarts *)

New(c) ==
  [check |-> c, phase |-> "idle", canceled |-> FALSE, errs |-> 0, cooling |-> FALSE, ok |-> FALSE]

\* startCheck, when there is a check to start.
Start(c) ==
  IF c = Nobody
  THEN UNCHANGED <<inst, table>>
  ELSE /\ inst' = Append(inst, New(c))
       /\ table' = [table EXCEPT ![c] = Len(inst) + 1]

\* stopCheck up to its select: out of the table, canceled.
BeginStop(c, then) ==
  /\ inst' = [inst EXCEPT ![table[c]].canceled = TRUE]
  /\ table' = [table EXCEPT ![c] = 0]
  /\ caller' = [victim |-> table[c], start |-> then]

InstallUnstopped(c) ==
  /\ caller = AtRest
  /\ Len(inst) < MaxStarts
  /\ Start(c)
  /\ UNCHANGED <<caller, slots, up, overdue>>

\* A check is added, updated or retried: the old instance, if any, stops first.
Install(c) ==
  /\ caller = AtRest
  /\ Len(inst) < MaxStarts
  /\ IF table[c] = 0
     THEN Start(c) /\ UNCHANGED caller
     ELSE BeginStop(c, c)
  /\ UNCHANGED <<slots, up, overdue>>

\* A check is deleted or disabled.
Remove(c) ==
  /\ caller = AtRest
  /\ table[c] # 0
  /\ BeginStop(c, Nobody)
  /\ UNCHANGED <<slots, up, overdue>>

\* The instance has returned.
Stopped ==
  /\ caller.victim # 0
  /\ inst[caller.victim].phase = "gone"
  /\ Start(caller.start)
  /\ caller' = AtRest
  /\ UNCHANGED <<slots, up, overdue>>

StopTimeoutIfReturning ==
  /\ caller.victim # 0
  /\ inst[caller.victim].phase = "run" /\ caller.victim \notin overdue
  /\ Start(caller.start)
  /\ caller' = AtRest
  /\ UNCHANGED <<slots, up, overdue>>

\* stopTimeout is over and it is still in Run: left behind.
StopTimeout ==
  /\ caller.victim # 0
  /\ inst[caller.victim].phase = "run"
  /\ Start(caller.start)
  /\ caller' = AtRest
  /\ UNCHANGED <<slots, up, overdue>>

-----------------------------------------------------------------------------
(* runCheckCore *)

AllowsUntilOpen(i) == inst[i].errs < Threshold

\* circuitBreaker.allow: closed, or a probe is due.
Allows(i) == inst[i].errs < Threshold \/ ~inst[i].cooling

\* The jitter or the ticker is over and the breaker lets the run begin; a probe
\* starts the next cool-down. The select may choose the ticker although the
\* context is canceled too.
Tick(i) ==
  /\ inst[i].phase = "idle"
  /\ Allows(i)
  /\ inst' = [inst EXCEPT ![i] =
               [@ EXCEPT !.phase = IF inst[i].check \in Pooled THEN "slot" ELSE "run",
                         !.cooling = inst[i].errs = Threshold]]
  /\ UNCHANGED <<table, caller, slots, up, overdue>>

GetSlot(i) ==
  /\ inst[i].phase = "slot"
  /\ slots < PoolSize
  /\ slots' = slots + 1
  /\ inst' = [inst EXCEPT ![i].phase = "run"]
  /\ UNCHANGED <<table, caller, up, overdue>>

GiveUpSlotReleasing(i) ==
  /\ inst[i].phase = "slot"
  /\ inst[i].canceled
  /\ inst' = [inst EXCEPT ![i].phase = "idle"]
  /\ slots' = slots - 1
  /\ UNCHANGED <<table, caller, up, overdue>>

\* Canceled while it waits for a slot: runOnce returns.
GiveUpSlot(i) ==
  /\ inst[i].phase = "slot"
  /\ inst[i].canceled
  /\ inst' = [inst EXCEPT ![i].phase = "idle"]
  /\ UNCHANGED <<table, caller, slots, up, overdue>>

ReleaseOnPublish(i) == IF inst[i].phase = "publish" /\ inst[i].check \in Pooled THEN slots - 1 ELSE slots

\* The deferred release of the slot, when runOnce returns.
Release(i) == IF inst[i].check \in Pooled THEN slots - 1 ELSE slots

\* What runOnce makes of the Run: one past its deadline failed, whatever it returns.
Outcome(i) == up[inst[i].check] /\ i \notin overdue

RunEndsUnchecked(i) ==
  /\ inst[i].phase = "run"
  /\ inst' = [inst EXCEPT ![i].phase = "publish", ![i].ok = Outcome(i)]
  /\ overdue' = overdue \ {i}
  /\ UNCHANGED <<table, caller, slots, up>>

\* Run returns: the result of a canceled instance is thrown away.
RunEnds(i) ==
  /\ inst[i].phase = "run"
  /\ IF inst[i].canceled
     THEN /\ inst' = [inst EXCEPT ![i].phase = "idle"]
          /\ slots' = Release(i)
     ELSE /\ inst' = [inst EXCEPT ![i].phase = "publish", ![i].ok = Outcome(i)]
          /\ UNCHANGED slots
  /\ overdue' = overdue \ {i}
  /\ UNCHANGED <<table, caller, up>>

\* breaker.success or breaker.failure, then reports and emit.
Publish(i) ==
  LET errs == IF inst[i].ok THEN 0
              ELSE IF inst[i].errs = Threshold THEN Threshold ELSE inst[i].errs + 1
  IN  /\ inst[i].phase = "publish"
      /\ inst' = [inst EXCEPT ![i] =
                   [@ EXCEPT !.phase = "idle", !.ok = FALSE, !.errs = errs,
                             !.cooling = errs = Threshold]]
      /\ slots' = Release(i)
      /\ UNCHANGED <<table, caller, up, overdue>>

\* The loop sees the canceled context; Close, then done is closed.
Exit(i) ==
  /\ inst[i].phase = "idle"
  /\ inst[i].canceled
  /\ inst' = [inst EXCEPT ![i] = [New(inst[i].check) EXCEPT !.phase = "gone", !.canceled = TRUE]]
  /\ UNCHANGED <<table, caller, slots, up, overdue>>

-----------------------------------------------------------------------------
(* Time and environment *)

CooldownEnds(i) ==
  /\ inst[i].cooling
  /\ inst' = [inst EXCEPT ![i].cooling = FALSE]
  /\ UNCHANGED <<table, caller, slots, up, overdue>>

TargetChanges(c) ==
  /\ up' = [up EXCEPT ![c] = ~@]
  /\ UNCHANGED <<inst, table, caller, slots, overdue>>

\* The deadline of runCtx passes and Run has not returned.
Overruns(i) ==
  /\ inst[i].phase = "run" /\ i \notin overdue
  /\ overdue' = overdue \cup {i}
  /\ UNCHANGED <<inst, table, caller, slots, up>>

InstanceStep(i) == Tick(i) \/ RunEnds(i) \/ Publish(i) \/ CooldownEnds(i)

Next ==
  \/ \E c \in Checks : Install(c) \/ Remove(c) \/ TargetChanges(c)
  \/ Stopped \/ StopTimeout
  \/ \E i \in Live : InstanceStep(i) \/ GetSlot(i) \/ GiveUpSlot(i) \/ Exit(i) \/ Overruns(i)

\* Goroutines run and timers fire; a Run ends or becomes overdue. A channel serves
\* its senders in turn, and a select that finds the context canceled again and
\* again takes that case.
Fairness ==
  /\ WF_vars(Stopped) /\ WF_vars(StopTimeout)
  /\ \A i \in Ids :
       /\ WF_vars(i \in Live /\ Tick(i)) /\ WF_vars(i \in Live \ overdue /\ RunEnds(i))
       /\ WF_vars(i \in Live /\ Publish(i)) /\ WF_vars(i \in Live /\ CooldownEnds(i))
       /\ SF_vars(i \in Live /\ GetSlot(i)) /\ SF_vars(i \in Live /\ GiveUpSlot(i))
       /\ SF_vars(i \in Live /\ Exit(i))

Spec == Init /\ [][Next]_vars /\ Fairness

-----------------------------------------------------------------------------
(* Properties *)

\* No goroutine escapes the table: one that is not canceled is the one its check
\* has there, so a delete or an update will find it. Instances that timed out
\* while stopping do not count against this.
NoOrphan == \A i \in Live : ~inst[i].canceled => table[inst[i].check] = i

\* Once ApplyDelta has moved on, replaced and deleted checks are silent, however
\* late their Run returns: a result is published only by the instance in the
\* table, or by the one stopCheck is still waiting for.
SilentOnceStopped ==
  \A i \in Live :
    inst[i].phase = "publish" => table[inst[i].check] = i \/ caller.victim = i

\* Every slot taken belongs to an execution under way, stale ones included: no
\* path of runOnce (skip, cancel, discard, error) leaks a slot or frees one twice.
SlotsAccounted ==
  slots = Cardinality({i \in Live : inst[i].check \in Pooled /\ inst[i].phase \in {"run", "publish"}})

\* What the execution of checks promises: no goroutine escapes the table, a stopped
\* check is silent, and slots are neither leaked nor freed twice.
RuntimeSafe == NoOrphan /\ SilentOnceStopped /\ SlotsAccounted

\* A Run that never returns cannot block config pull: stopCheck always returns.
StopReturns == (caller.victim # 0) ~> (caller.victim = 0)

\* A check whose target answers again is collected again and again, though its
\* breaker is open and its pool is contended, provided Runs return in the end.
CollectedAgain ==
  \A c \in Checks :
    <>[](up[c] /\ table[c] # 0 /\ overdue = {}) =>
      []<>(table[c] # 0 /\ inst[table[c]].phase = "publish" /\ inst[table[c]].ok)
=============================================================================
