------------------------------- MODULE LogsWal -------------------------------
(***************************************************************************)
(* internal/otlp/logs.go (LogsExporter) over internal/sendbuf/durable.go:  *)
(* the write-ahead log of log records. Tailers call Push, which holds e.mu *)
(* until the record is on disk; the OTLP receiver calls EnqueueRaw for a   *)
(* request of an SDK; Run flushes on a ticker. All three share e.mu, and   *)
(* whoever flushes holds it during the POSTs.                              *)
(*                                                                         *)
(* A payload is its key in the bolt bucket. healthy stands for all that a  *)
(* POST depends on: gateway reachable and accepting, logs allowed by the   *)
(* tenant's policy; writable for what a bolt transaction depends on.       *)
(***************************************************************************)
EXTENDS Integers, FiniteSets

CONSTANTS Readers,      \* tailer goroutines: Push
          Receivers,    \* handlers of the OTLP receiver: EnqueueRaw
          Ticker,       \* the goroutine of Run
          MaxItems,     \* bound: Push and EnqueueRaw calls in all
          MaxCrashes,   \* bound: restarts of the process
          SizeOf,       \* set of payloads -> bytes they take together
          MaxBytes,     \* limit of the queue (64 MiB)
          BatchMax      \* LogsBatchMaxRecords

Keys == 0 .. MaxItems - 1
Producers == Readers \cup Receivers
Actors == Producers \cup {Ticker}
Nobody == "nobody"

ASSUME ItemsAssumption == MaxItems \in Nat /\ MaxBytes \in Nat /\ MaxCrashes \in Nat
ASSUME BatchAssumption == BatchMax \in Nat \ {0}
ASSUME ActorsAssumption ==
  Readers \cap Receivers = {} /\ Ticker \notin Producers /\ Nobody \notin Actors
ASSUME SizeAssumption ==
  /\ SizeOf \in [SUBSET Keys -> Nat]
  /\ \A A, B \in SUBSET Keys :
       A \cap B = {} => SizeOf[A \cup B] = SizeOf[A] + SizeOf[B]

VARIABLES
  wal,        \* keys of the payloads bucket
  bytes,      \* its metaBytes
  raws,       \* the payloads that are raw requests of an SDK
  next,       \* metaNext
  lock,       \* holder of e.mu
  pc,         \* actor -> where it is
  waiting,    \* now < e.retryAt (how long, 2 s doubling to 30 s, is left out)
  roomless,   \* the holder is a Push whose record is not on disk yet
  batch,      \* payloads FlushBatch is posting
  posted,     \* those of them already posted by this call
  sentOne,    \* a batch of this FlushBatch call was committed
  healthy,    \* environment: POSTs are accepted
  writable,   \* environment: bolt transactions succeed
  crashes,    \* restarts so far
  asked,      \* Push and EnqueueRaw calls so far
  confirmed,  \* history: payloads whose Push or EnqueueRaw returned success
  delivered   \* history: payloads the gateway has received

disk == <<wal, bytes, raws, next>>
flushing == <<batch, posted, sentOne>>
env == <<healthy, writable, crashes>>
vars == <<disk, lock, pc, roomless, waiting, flushing, env, asked, confirmed, delivered>>

PCs == {"idle", "want", "offer", "flush", "batch", "post", "sleep"}

TypeOK ==
  /\ wal \in SUBSET Keys /\ raws \in SUBSET Keys
  /\ bytes \in Int
  /\ next \in 0 .. MaxItems /\ asked \in 0 .. MaxItems
  /\ lock \in Actors \cup {Nobody}
  /\ pc \in [Actors -> PCs]
  /\ roomless \in BOOLEAN
  /\ waiting \in BOOLEAN
  /\ batch \in SUBSET Keys /\ posted \in SUBSET batch /\ sentOne \in BOOLEAN
  /\ healthy \in BOOLEAN /\ writable \in BOOLEAN /\ crashes \in 0 .. MaxCrashes
  /\ confirmed \in SUBSET Keys /\ delivered \in SUBSET Keys

Init ==
  /\ wal = {} /\ bytes = 0 /\ raws = {} /\ next = 0
  /\ lock = Nobody
  /\ pc = [a \in Actors |-> "idle"]
  /\ roomless = FALSE
  /\ waiting = FALSE
  /\ batch = {} /\ posted = {} /\ sentOne = FALSE
  /\ healthy \in BOOLEAN /\ writable = TRUE
  /\ crashes = 0 /\ asked = 0
  /\ confirmed = {} /\ delivered = {}

-----------------------------------------------------------------------------
(* e.mu *)

\* A tailer has a line, an SDK posts a request, or the ticker ticks.
Call(a) ==
  /\ pc[a] = "idle"
  /\ \/ a = Ticker /\ UNCHANGED asked
     \/ a \in Producers /\ asked < MaxItems /\ asked' = asked + 1
  /\ pc' = [pc EXCEPT ![a] = "want"]
  /\ UNCHANGED <<disk, lock, roomless, waiting, flushing, env, confirmed, delivered>>

Acquire(a) ==
  /\ pc[a] = "want"
  /\ lock = Nobody
  /\ lock' = a
  /\ pc' = [pc EXCEPT ![a] = IF a = Ticker THEN "flush" ELSE "offer"]
  /\ UNCHANGED <<disk, roomless, waiting, flushing, env, asked, confirmed, delivered>>

ReleaseStillLocked(a) ==
  /\ pc' = [pc EXCEPT ![a] = "idle"]
  /\ UNCHANGED lock

\* The call returns and the deferred Unlock runs.
Release(a) ==
  /\ lock' = Nobody
  /\ pc' = [pc EXCEPT ![a] = "idle"]

-----------------------------------------------------------------------------
(* OfferDurable, from Push and from EnqueueRaw *)

FitsOneMore(k) == bytes <= MaxBytes
Fits(k) == bytes + SizeOf[{k}] <= MaxBytes

\* The payload is written in one transaction. EnqueueRaw returns; Push also
\* flushes when a batch is full, and returns after that.
Persist(a) ==
  /\ lock = a /\ pc[a] = "offer"
  /\ Fits(next) /\ writable
  /\ wal' = wal \cup {next}
  /\ bytes' = bytes + SizeOf[{next}]
  /\ raws' = IF a \in Receivers THEN raws \cup {next} ELSE raws
  /\ next' = next + 1
  /\ roomless' = FALSE
  /\ IF a \in Readers /\ Cardinality(wal') >= BatchMax
     THEN pc' = [pc EXCEPT ![a] = "flush"] /\ UNCHANGED <<lock, confirmed>>
     ELSE Release(a) /\ confirmed' = confirmed \cup {next}
  /\ UNCHANGED <<waiting, flushing, env, asked, delivered>>

NoRoomConfirmed(a) ==
  /\ lock = a /\ pc[a] = "offer"
  /\ ~(Fits(next) /\ writable)
  /\ next' = next + 1
  /\ confirmed' = confirmed \cup {next}
  /\ Release(a)
  /\ UNCHANGED <<wal, bytes, raws, roomless, waiting, flushing, env, asked, delivered>>

\* OfferDurable fails: the queue is full, or the write failed. EnqueueRaw
\* returns the error; Push flushes, sleeps and tries again, holding e.mu.
NoRoom(a) ==
  /\ lock = a /\ pc[a] = "offer"
  /\ ~(Fits(next) /\ writable)
  /\ IF a \in Receivers
     THEN Release(a) /\ UNCHANGED roomless
     ELSE pc' = [pc EXCEPT ![a] = "flush"] /\ roomless' = TRUE /\ UNCHANGED lock
  /\ UNCHANGED <<disk, waiting, flushing, env, asked, confirmed, delivered>>

\* time.Sleep(LogsBatchFlushInterval) in the loop of Push.
Wake(a) ==
  /\ lock = a /\ pc[a] = "sleep"
  /\ pc' = [pc EXCEPT ![a] = "offer"]
  /\ UNCHANGED <<disk, lock, roomless, waiting, flushing, env, asked, confirmed, delivered>>

-----------------------------------------------------------------------------
(* flushLocked and FlushBatch *)

ReturnKeepingPosted(a) ==
  /\ batch' = {} /\ sentOne' = FALSE
  /\ IF roomless
     THEN pc' = [pc EXCEPT ![a] = "sleep"] /\ UNCHANGED <<lock, confirmed>>
     ELSE /\ Release(a)
          /\ confirmed' = IF a \in Readers THEN confirmed \cup {next - 1} ELSE confirmed
  /\ UNCHANGED <<disk, roomless, posted, env, asked>>

\* flushLocked returns to the loop of Push, or Push and Run return.
Return(a) ==
  /\ batch' = {} /\ posted' = {} /\ sentOne' = FALSE
  /\ IF roomless
     THEN pc' = [pc EXCEPT ![a] = "sleep"] /\ UNCHANGED <<lock, confirmed>>
     ELSE /\ Release(a)
          /\ confirmed' = IF a \in Readers THEN confirmed \cup {next - 1} ELSE confirmed
  /\ UNCHANGED <<disk, roomless, env, asked>>

\* The back-off is not over: nothing is sent.
SkipFlush(a) ==
  /\ lock = a /\ pc[a] = "flush"
  /\ waiting
  /\ Return(a)
  /\ UNCHANGED <<waiting, delivered>>

StartFlushFullBatch(a) ==
  /\ lock = a /\ pc[a] = "flush"
  /\ ~waiting
  /\ IF Cardinality(wal) >= BatchMax
     THEN /\ pc' = [pc EXCEPT ![a] = "batch"]
          /\ UNCHANGED <<disk, lock, roomless, flushing, env, asked, confirmed>>
     ELSE Return(a)
  /\ UNCHANGED <<waiting, delivered>>

StartFlush(a) ==
  /\ lock = a /\ pc[a] = "flush"
  /\ ~waiting
  /\ pc' = [pc EXCEPT ![a] = "batch"]
  /\ UNCHANGED <<disk, lock, roomless, waiting, flushing, env, asked, confirmed, delivered>>

\* The first BatchMax payloads of the bucket, in key order.
IsFront(B) ==
  /\ B # {} /\ B \subseteq wal
  /\ Cardinality(B) = IF Cardinality(wal) < BatchMax THEN Cardinality(wal) ELSE BatchMax
  /\ \A k \in B, j \in wal \ B : k < j

ReadBatch(a) ==
  /\ lock = a /\ pc[a] = "batch"
  /\ \E B \in SUBSET wal : IsFront(B) /\ batch' = B
  /\ posted' = {}
  /\ pc' = [pc EXCEPT ![a] = "post"]
  /\ UNCHANGED <<disk, lock, roomless, waiting, sentOne, env, asked, confirmed, delivered>>

\* The bucket is empty: FlushBatch returns nil and the back-off is reset.
FlushDone(a) ==
  /\ lock = a /\ pc[a] = "batch"
  /\ wal = {}
  /\ waiting' = FALSE
  /\ Return(a)
  /\ UNCHANGED delivered

RawsFirst(S) ==
  LET left == batch \ posted
  IN  \/ \E k \in raws \cap left : S = {k} /\ \A j \in raws \cap left : k <= j
      \/ raws \cap left = {} /\ S = left /\ S # {}

\* What the next POST carries: one raw request, or the records before it.
IsSegment(S) ==
  /\ S # {}
  /\ \A k \in S, j \in (batch \ posted) \ S : k < j
  /\ \/ \E k \in raws : S = {k}
     \/ /\ S \cap raws = {}
        /\ \A j \in (batch \ posted) \ S : \E r \in raws \cap (batch \ posted) : r <= j

PostSegment(a) ==
  /\ lock = a /\ pc[a] = "post"
  /\ healthy
  /\ \E S \in SUBSET (batch \ posted) :
       /\ IsSegment(S)
       /\ posted' = posted \cup S
       /\ delivered' = delivered \cup S
  /\ UNCHANGED <<disk, lock, pc, roomless, waiting, batch, sentOne, env, asked, confirmed>>

CommitLeakingBytes(a) ==
  /\ lock = a /\ pc[a] = "post"
  /\ writable
  /\ posted = batch
  /\ wal' = wal \ batch
  /\ batch' = {} /\ posted' = {} /\ sentOne' = TRUE
  /\ pc' = [pc EXCEPT ![a] = "batch"]
  /\ UNCHANGED <<bytes, raws, next, lock, roomless, waiting, env, asked, confirmed, delivered>>

\* The batch was accepted: its keys are deleted in one transaction.
Commit(a) ==
  /\ lock = a /\ pc[a] = "post"
  /\ writable
  /\ posted = batch
  /\ wal' = wal \ batch
  /\ bytes' = bytes - SizeOf[batch]
  /\ batch' = {} /\ posted' = {} /\ sentOne' = TRUE
  /\ pc' = [pc EXCEPT ![a] = "batch"]
  /\ UNCHANGED <<raws, next, lock, roomless, waiting, env, asked, confirmed, delivered>>

\* FlushBatch returns an error: no flush before retryAt.
Fail(a) ==
  /\ waiting' = TRUE
  /\ Return(a)

\* A POST fails, with or without reaching the gateway, or the delete fails:
\* the whole batch stays, what was posted of it will be posted again.
FlushFails(a) ==
  /\ lock = a /\ pc[a] = "post"
  /\ \/ ~healthy /\ posted # batch /\ UNCHANGED delivered
     \/ /\ ~healthy
        /\ \E S \in SUBSET (batch \ posted) :
             IsSegment(S) /\ delivered' = delivered \cup S
     \/ ~writable /\ posted = batch /\ UNCHANGED delivered
  /\ Fail(a)

\* ctx.Err() at the head of the loop: LogsRequestTimeout is used up.
FlushTimeout(a) ==
  /\ lock = a /\ pc[a] = "batch"
  /\ sentOne
  /\ UNCHANGED delivered
  /\ Fail(a)

-----------------------------------------------------------------------------
(* Environment *)

RetryDue ==
  /\ waiting
  /\ waiting' = FALSE
  /\ UNCHANGED <<disk, lock, pc, roomless, flushing, env, asked, confirmed, delivered>>

HealthChanges ==
  /\ healthy' = ~healthy
  /\ UNCHANGED <<disk, lock, pc, roomless, waiting, flushing, writable, crashes, asked,
                 confirmed, delivered>>

DiskChanges ==
  /\ writable' = ~writable
  /\ UNCHANGED <<disk, lock, pc, roomless, waiting, flushing, healthy, crashes, asked,
                 confirmed, delivered>>

\* The process dies and boots again; only the bolt file is left.
Restart ==
  /\ crashes < MaxCrashes
  /\ crashes' = crashes + 1
  /\ lock' = Nobody
  /\ pc' = [a \in Actors |-> "idle"]
  /\ roomless' = FALSE
  /\ waiting' = FALSE
  /\ batch' = {} /\ posted' = {} /\ sentOne' = FALSE
  /\ UNCHANGED <<disk, healthy, writable, asked, confirmed, delivered>>

HolderStep(a) ==
  \/ Persist(a) \/ NoRoom(a) \/ Wake(a)
  \/ SkipFlush(a) \/ StartFlush(a)
  \/ ReadBatch(a) \/ FlushDone(a) \/ PostSegment(a) \/ Commit(a)
  \/ FlushFails(a) \/ FlushTimeout(a)

Next ==
  \/ \E a \in Actors : Call(a) \/ Acquire(a) \/ HolderStep(a)
  \/ RetryDue
  \/ HealthChanges
  \/ DiskChanges
  \/ Restart

\* The scheduler runs every goroutine, sync.Mutex starves no waiter (a waiter
\* of more than 1 ms is handed the lock), the ticker ticks, time passes.
Fairness ==
  /\ \A a \in Actors : WF_vars(HolderStep(a)) /\ SF_vars(Acquire(a))
  /\ WF_vars(Call(Ticker))
  /\ WF_vars(RetryDue)

Spec == Init /\ [][Next]_vars /\ Fairness

-----------------------------------------------------------------------------
(* Properties *)

\* A tailer may move its cursor, and an SDK may drop its copy, only once the
\* payload is on disk, and it stays there until the gateway has it: whatever
\* is rejected, times out or half succeeds, and wherever the process stops.
ConfirmedIsSafe == confirmed \subseteq wal \cup delivered

\* The gateway sees payloads for the first time in the order they were
\* accepted, tailed records and raw SDK requests alike.
FirstDeliveryInOrder ==
  \A k \in delivered : \A j \in 0 .. k - 1 : j \in delivered

\* The WAL keeps to its limit, and metaBytes, on which OfferDurable decides,
\* is the size of the bucket.
WithinLimit == bytes = SizeOf[wal] /\ bytes <= MaxBytes

\* Once the gateway and the disk stay well, every payload on disk is delivered,
\* even if no new line arrives ("reenvia o WAL recuperado, mesmo sem novas
\* linhas na origem").
EventuallyDelivered ==
  <>[](healthy /\ writable) => \A k \in Keys : (k \in wal) ~> (k \in delivered)

\* ... and no caller waits for ever for e.mu: a full disk only pauses a tailer.
EventuallyServed ==
  <>[](healthy /\ writable) => \A a \in Producers : (pc[a] # "idle") ~> (pc[a] = "idle")

\* "fila cheia devolve erro ao receiver": however long the gateway is away, a
\* request of an SDK is not kept waiting for ever in front of a full WAL.
FullQueueAnswers ==
  \A a \in Receivers : []<>(pc[a] # "want" \/ Fits(next))
=============================================================================
