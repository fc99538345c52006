------------------------------ MODULE SendQueue ------------------------------
(***************************************************************************)
(* internal/sendbuf/sendbuf.go: the outbox of one kind of payload, and the *)
(* send cycle of its callers (otlp.IngestExporter.PostMetrics and          *)
(* statsfwd.Forwarder.Send): Offer each body, then Flush.                  *)
(*                                                                         *)
(* q.mu is held inside each of peek, popFront, Offer and noteTerminal, but *)
(* not across peek -> POST -> popFront, so these are separate steps here.  *)
(* A payload is the key offerPersistentLocked gives it (metaNext); keys    *)
(* grow, so the head of the bucket, or of the slice, is the smallest key.  *)
(* Each store carries what its meta bucket (or the Queue struct) counts.   *)
(***************************************************************************)
EXTENDS Integers, FiniteSets

CONSTANTS Senders,      \* goroutines that send through this queue
          MaxOffers,    \* bound: how many payloads are offered in all
          SizeOf,       \* set of payloads -> bytes they take together
          MaxBytes      \* q.maxBytes

Keys == 0 .. MaxOffers - 1

ASSUME OffersAssumption == MaxOffers \in Nat
ASSUME SizeAssumption ==
  /\ SizeOf \in [SUBSET Keys -> Nat]
  /\ \A A, B \in SUBSET Keys :
       A \cap B = {} => SizeOf[A \cup B] = SizeOf[A] + SizeOf[B]
ASSUME MaxBytesAssumption == MaxBytes \in Nat

Modes == {"disk", "mem"}

VARIABLES
  mode,       \* q.db # nil: NewPersistent opened the bolt file in this process
  store,      \* mode -> payloads and counters (and "discarded", a history)
  next,       \* key of the next payload
  unflushed,  \* q.unflushedOffers
  blocked,    \* now < q.blockedTil
  cycle,      \* sender -> local state of its send cycle
  delivered,  \* history: payloads the gateway has received
  forgotten,  \* history: payloads that died with a memory-only process
  seen        \* history: payloads there at the last Flush snapshot or boot

vars == <<mode, store, next, unflushed, blocked, cycle, delivered, forgotten, seen>>

EmptyStore == [keys |-> {}, bytes |-> 0, count |-> 0, dropped |-> 0, discarded |-> {}]

\* Local state of PostMetrics/Send and Flush: failed is "sendError # nil",
\* carried is the history of what was retained when this Flush began.
Idle ==
  [pc |-> "idle", body |-> 0, retry |-> FALSE, sent |-> 0, retained |-> 0,
   failed |-> FALSE, carried |-> {}]

PCs == {"idle", "flush", "loop", "posting", "acked", "refused"}
InFlight == {"posting", "acked", "refused"}

Store == [keys : SUBSET Keys, bytes : Int, count : Int, dropped : Nat,
          discarded : SUBSET Keys]
Cycle == [pc : PCs, body : Nat, retry : BOOLEAN, sent : Nat, retained : Nat,
          failed : BOOLEAN, carried : SUBSET Keys]

TypeOK ==
  /\ mode \in Modes
  /\ store \in [Modes -> Store]
  /\ next \in 0 .. MaxOffers
  /\ unflushed \in Nat
  /\ blocked \in BOOLEAN
  /\ cycle \in [Senders -> Cycle]
  /\ \A s \in Senders : cycle[s].pc \in InFlight => cycle[s].body \in Keys
  /\ delivered \in SUBSET Keys
  /\ forgotten \in SUBSET Keys
  /\ seen \in SUBSET Keys

Size(k) == SizeOf[{k}]      \* len(body)
Oldest(k, K) == k \in K /\ \A j \in K : k <= j

\* NewPersistent: the bolt file opens, or the agent goes on in memory.
Init ==
  /\ mode \in Modes
  /\ store = [m \in Modes |-> EmptyStore]
  /\ next = 0
  /\ unflushed = 0
  /\ blocked = FALSE
  /\ cycle = [s \in Senders |-> Idle]
  /\ delivered = {}
  /\ forgotten = {}
  /\ seen = {}

-----------------------------------------------------------------------------
(* Offer *)

StopsTooLate(bytes, count) == bytes <= MaxBytes \/ count <= 2

\* The loop "for bytes > maxBytes && count > 1" ends.
Stops(bytes, count) == bytes <= MaxBytes \/ count <= 1

\* q with payload k appended and everything older than cut evicted.
Appended(q, k, cut) ==
  LET out == {j \in q.keys : j < cut}
  IN  [keys |-> (q.keys \ out) \cup {k},
       bytes |-> q.bytes + Size(k) - SizeOf[out],
       count |-> q.count + 1 - Cardinality(out),
       dropped |-> q.dropped + Cardinality(out),
       discarded |-> q.discarded \cup out]

\* The oldest payloads go, one at a time, until the loop stops at cut.
EvictsTo(q, k, cut) ==
  /\ Stops(Appended(q, k, cut).bytes, Appended(q, k, cut).count)
  /\ \A c \in q.keys : c < cut =>
       ~Stops(Appended(q, k, c).bytes, Appended(q, k, c).count)

\* Offer(body, nil), then Flush unless an earlier body of the batch failed.
Offer(s) ==
  /\ cycle[s].pc = "idle"
  /\ next < MaxOffers
  /\ \E cut \in store[mode].keys \cup {next} :
       /\ EvictsTo(store[mode], next, cut)
       /\ store' = [store EXCEPT ![mode] = Appended(store[mode], next, cut)]
  /\ next' = next + 1
  /\ unflushed' = unflushed + 1
  /\ cycle' = [cycle EXCEPT ![s].pc = IF cycle[s].failed THEN "idle" ELSE "flush"]
  /\ UNCHANGED <<mode, blocked, delivered, forgotten, seen>>

\* PostMetrics returns: after its last body, or because Offer could not write.
EndBatch(s) ==
  /\ cycle[s].pc = "idle"
  /\ cycle[s].failed
  /\ cycle' = [cycle EXCEPT ![s].failed = FALSE]
  /\ UNCHANGED <<mode, store, next, unflushed, blocked, delivered, forgotten, seen>>

-----------------------------------------------------------------------------
(* Flush *)

\* Blocked(): the cool-down is on, nothing is sent.
FlushBlocked(s) ==
  /\ cycle[s].pc = "flush"
  /\ blocked
  /\ cycle' = [cycle EXCEPT ![s].pc = "idle"]
  /\ UNCHANGED <<mode, store, next, unflushed, blocked, delivered, forgotten, seen>>

RetainedCountingAll(count, fresh) == count
RetainedUnclamped(count, fresh) == count - fresh

\* retainedToLog: what was pending before the offers of this cycle.
Retained(count, fresh) == IF count < fresh THEN 0 ELSE count - fresh

\* The locked snapshot at the head of Flush.
FlushStart(s) ==
  /\ cycle[s].pc = "flush"
  /\ ~blocked
  /\ cycle' = [cycle EXCEPT ![s] =
                [@ EXCEPT !.pc = "loop", !.sent = 0,
                          !.retained = Retained(store[mode].count, unflushed),
                          !.carried = seen]]
  /\ unflushed' = 0
  /\ seen' = store[mode].keys
  /\ UNCHANGED <<mode, store, next, blocked, delivered, forgotten>>

\* peek finds nothing: Flush returns nil.
PeekEmpty(s) ==
  /\ cycle[s].pc = "loop"
  /\ store[mode].keys = {}
  /\ cycle' = [cycle EXCEPT ![s].pc = "idle"]
  /\ UNCHANGED <<mode, store, next, unflushed, blocked, delivered, forgotten, seen>>

\* isRetry: one of the payloads retained before this cycle. sent is only
\* compared with retained, so it stops growing there.
IsRetry(c) == c.sent < c.retained

Peeked(c, k) ==
  [c EXCEPT !.pc = "posting", !.body = k, !.retry = IsRetry(c),
            !.sent = IF IsRetry(c) THEN @ + 1 ELSE @]

PeekNewest(s) ==
  /\ cycle[s].pc = "loop"
  /\ \E k \in store[mode].keys :
       /\ \A j \in store[mode].keys : j <= k
       /\ cycle' = [cycle EXCEPT ![s] = Peeked(@, k)]
  /\ UNCHANGED <<mode, store, next, unflushed, blocked, delivered, forgotten, seen>>

\* peek copies the head; incrementRetry counts it when it is a resend.
Peek(s) ==
  /\ cycle[s].pc = "loop"
  /\ \E k \in store[mode].keys :
       /\ Oldest(k, store[mode].keys)
       /\ cycle' = [cycle EXCEPT ![s] = Peeked(@, k)]
  /\ UNCHANGED <<mode, store, next, unflushed, blocked, delivered, forgotten, seen>>

\* The gateway answers 2xx.
ReplyOK(s) ==
  /\ cycle[s].pc = "posting"
  /\ delivered' = delivered \cup {cycle[s].body}
  /\ cycle' = [cycle EXCEPT ![s].pc = "acked"]
  /\ UNCHANGED <<mode, store, next, unflushed, blocked, forgotten, seen>>

\* Flush returns an error: sendError is set for the rest of the batch.
Failed(c) == [c EXCEPT !.pc = "idle", !.failed = TRUE]

ReplyLostAsSent(s) ==
  /\ cycle[s].pc = "posting"
  /\ cycle' = [cycle EXCEPT ![s].pc = "acked"]
  /\ UNCHANGED <<mode, store, next, unflushed, blocked, delivered, forgotten, seen>>

\* Network error, timeout or another status: Flush returns, the payload stays.
\* The gateway may have received it all the same.
ReplyLost(s) ==
  /\ cycle[s].pc = "posting"
  /\ delivered' \in {delivered, delivered \cup {cycle[s].body}}
  /\ cycle' = [cycle EXCEPT ![s] = Failed(@)]
  /\ UNCHANGED <<mode, store, next, unflushed, blocked, forgotten, seen>>

\* noteTerminal: 401 and 429 start the cool-down, 403 does not.
ReplyTerminal(s) ==
  /\ cycle[s].pc = "posting"
  /\ \E code \in {401, 403, 429} : blocked' = (blocked \/ code # 403)
  /\ cycle' = [cycle EXCEPT ![s].pc = "refused"]
  /\ UNCHANGED <<mode, store, next, unflushed, delivered, forgotten, seen>>

PoppedKeepingBytes(q, k) == [q EXCEPT !.keys = @ \ {k}, !.count = IF @ > 0 THEN @ - 1 ELSE @]

\* q without its head k.
Popped(q, k) ==
  [q EXCEPT !.keys = @ \ {k},
            !.bytes = IF Size(k) >= @ THEN 0 ELSE @ - Size(k),
            !.count = IF @ > 0 THEN @ - 1 ELSE @]

\* q with the refused payload b on its DroppedTotal.
Dropped(q, b) == [q EXCEPT !.dropped = @ + 1, !.discarded = @ \cup {b}]

\* popFront(false): whatever is at the head now goes; the loop goes on.
PopSent(s) ==
  /\ cycle[s].pc = "acked"
  /\ \/ store[mode].keys = {} /\ UNCHANGED store
     \/ \E k \in store[mode].keys :
          /\ Oldest(k, store[mode].keys)
          /\ store' = [store EXCEPT ![mode] = Popped(@, k)]
  /\ cycle' = [cycle EXCEPT ![s].pc = "loop"]
  /\ UNCHANGED <<mode, next, unflushed, blocked, delivered, forgotten, seen>>

\* popFront(true): the head goes and is counted; the payload thrown away on
\* purpose is the one the gateway refused. Flush returns the error.
PopRefused(s) ==
  /\ cycle[s].pc = "refused"
  /\ \/ store[mode].keys = {} /\ UNCHANGED store
     \/ \E k \in store[mode].keys :
          /\ Oldest(k, store[mode].keys)
          /\ store' = [store EXCEPT ![mode] = Dropped(Popped(@, k), cycle[s].body)]
  /\ cycle' = [cycle EXCEPT ![s] = Failed(@)]
  /\ UNCHANGED <<mode, next, unflushed, blocked, delivered, forgotten, seen>>

\* The bolt transaction of popFront fails: logged, the payload stays, and the
\* loop goes on (after a 2xx) or Flush returns (after a refusal).
PopFails(s) ==
  /\ mode = "disk"
  /\ cycle[s].pc \in {"acked", "refused"}
  /\ cycle' = [cycle EXCEPT ![s] =
                IF @.pc = "acked" THEN [@ EXCEPT !.pc = "loop"] ELSE Failed(@)]
  /\ UNCHANGED <<mode, store, next, unflushed, blocked, delivered, forgotten, seen>>

-----------------------------------------------------------------------------
(* The rest of the process *)

\* PostRaw of another signal met a 401.
NoteAuthFailure ==
  /\ blocked' = TRUE
  /\ UNCHANGED <<mode, store, next, unflushed, cycle, delivered, forgotten, seen>>

CooldownEnds ==
  /\ blocked
  /\ blocked' = FALSE
  /\ UNCHANGED <<mode, store, next, unflushed, cycle, delivered, forgotten, seen>>

\* The process stops anywhere and boots again: the bolt file is reopened, or
\* (another process holds it, the directory is unwritable) memory is used.
Restart ==
  /\ mode' \in Modes
  /\ store' = [store EXCEPT !["mem"] = EmptyStore]
  /\ forgotten' = forgotten \cup store["mem"].keys \cup store["mem"].discarded
  /\ unflushed' = 0
  /\ blocked' = FALSE
  /\ cycle' = [s \in Senders |-> Idle]
  /\ seen' = store'[mode'].keys
  /\ UNCHANGED <<next, delivered>>

Step(s) ==
  \/ Offer(s) \/ EndBatch(s)
  \/ FlushBlocked(s) \/ FlushStart(s)
  \/ PeekEmpty(s) \/ Peek(s)
  \/ ReplyOK(s) \/ ReplyLost(s) \/ ReplyTerminal(s)
  \/ PopSent(s) \/ PopRefused(s) \/ PopFails(s)

Next ==
  \/ \E s \in Senders : Step(s)
  \/ NoteAuthFailure
  \/ CooldownEnds
  \/ Restart

Spec == Init /\ [][Next]_vars

-----------------------------------------------------------------------------
(* Properties *)

\* No payload that Offer accepted disappears unnoticed, whatever POST fails
\* and wherever the process stops: it waits in a store, the gateway has it,
\* it was discarded on purpose (evicted or refused), or it was in the memory
\* of a process that had no bolt file. ("O restart conserva os payloads ainda
\* nao confirmados"; "O item so sai depois de uma resposta 2xx".)
NoSilentLoss ==
  \A k \in 0 .. next - 1 :
    \/ k \in delivered \cup forgotten
    \/ \E m \in Modes : k \in store[m].keys \cup store[m].discarded

Exact(q) ==
  /\ q.count = Cardinality(q.keys)
  /\ q.bytes = SizeOf[q.keys]
  /\ q.dropped = Cardinality(q.discarded)

\* The persisted meta counters describe the bucket: count, bytes and the
\* DroppedTotal of the heartbeat agree with the payloads waiting and discarded
\* after every transaction, crash and failed transaction.
LedgerExact == \A m \in Modes : Exact(store[m])

\* The outbox never outgrows maxBytes, except by holding one single payload.
BoundedOutbox ==
  \A m \in Modes : store[m].bytes <= MaxBytes \/ store[m].count <= 1

\* A payload offered in this send cycle is never counted as a retry: what
\* incrementRetry counts was already retained at an earlier Flush or boot.
FreshIsNotRetry ==
  \A s \in Senders :
    cycle[s].pc \in InFlight /\ cycle[s].retry => cycle[s].body \in cycle[s].carried

\* The inductive strengthening. HeadHeld is what the gap between peek and
\* popFront puts at risk: the payload in flight is still the head of the queue.
Past ==
  /\ delivered \cup forgotten \subseteq 0 .. next - 1
  /\ \A m \in Modes : store[m].keys \cup store[m].discarded \subseteq 0 .. next - 1

HeadHeld ==
  \A s \in Senders :
    /\ cycle[s].pc \in InFlight => Oldest(cycle[s].body, store[mode].keys)
    /\ cycle[s].pc = "acked" => cycle[s].body \in delivered

Apart == \A m \in Modes : store[m].keys \cap store[m].discarded = {}

Promise == INSTANCE Outbox WITH
  onDisk <- store["disk"].keys,
  inMem <- store["mem"].keys,
  gone <- store["disk"].discarded \cup store["mem"].discarded \cup forgotten

\* The queue keeps the promise of module Outbox: oldest first, a payload
\* leaves only when delivered or discarded, the disk survives a restart.
KeepsPromise == Promise!Spec
=============================================================================
