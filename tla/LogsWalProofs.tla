---------------------------- MODULE LogsWalProofs ----------------------------
(***************************************************************************)
(* Proofs about LogsWal, for any number of tailers and receivers, any      *)
(* number of records, payload sizes, byte limit, batch size and crashes.   *)
(***************************************************************************)
EXTENDS LogsWal, FiniteSetTheorems, TLAPS

-----------------------------------------------------------------------------
(* The inductive invariant *)

Held == {"offer", "flush", "batch", "post", "sleep"}
InFlush == {"flush", "batch", "post"}

\* e.mu: whoever is past Lock holds it, and only a producer offers a payload.
LockHeld ==
  /\ \A a \in Actors : pc[a] \in Held <=> lock = a
  /\ \A a \in Actors : pc[a] \in {"offer", "sleep"} => a \in Producers
  /\ \A a \in Actors : pc[a] = "sleep" => roomless
  /\ roomless => lock \in Readers
  /\ \A a \in Actors : a \in Receivers => pc[a] \notin InFlush \cup {"sleep"}

\* Calls whose payload has not got its key yet.
Owing ==
  {a \in Producers : pc[a] \in {"want", "offer", "sleep"} \/ (pc[a] \in InFlush /\ roomless)}

\* No key is given out that no call asked for.
KeysAsked == IsFiniteSet(Owing) /\ next + Cardinality(Owing) <= asked

\* Every key given out is on disk or was received: nothing falls between the two.
Covered ==
  /\ wal \subseteq 0 .. next - 1 /\ delivered \subseteq 0 .. next - 1
  /\ \A k \in 0 .. next - 1 : k \in wal \/ k \in delivered

\* What FlushBatch works on is the front of the bucket, and what it has posted of
\* it the gateway has.
FrontHeld ==
  /\ batch \subseteq wal
  /\ \A k \in batch, j \in wal \ batch : k < j
  /\ posted \subseteq delivered
  /\ batch # {} => \E a \in Actors : pc[a] = "post"

\* Only keys given out are confirmed, and the Push that is about to return gave one.
ConfirmedGiven ==
  /\ confirmed \subseteq 0 .. next - 1
  /\ \A a \in Readers : pc[a] \in InFlush /\ ~roomless => next # 0

IInv ==
  /\ TypeOK /\ LockHeld /\ KeysAsked /\ Covered /\ FrontHeld /\ ConfirmedGiven
  /\ FirstDeliveryInOrder /\ WithinLimit

-----------------------------------------------------------------------------
(* Lemmas *)

\* What the assumptions say of a payload: its key is a number and its size too.
LEMMA KeySizes ==
  /\ Keys \subseteq Nat
  /\ \A K \in SUBSET Keys : SizeOf[K] \in Nat
  /\ SizeOf[{}] = 0
  /\ \A K \in SUBSET Keys : \A k \in Keys \ K : SizeOf[K \cup {k}] = SizeOf[K] + SizeOf[{k}]
  /\ \A K \in SUBSET Keys : \A B \in SUBSET K : SizeOf[K \ B] = SizeOf[K] - SizeOf[B]
<1>1. Keys \subseteq Nat
  BY ItemsAssumption DEF Keys
<1>2. \A K \in SUBSET Keys : SizeOf[K] \in Nat
  BY SizeAssumption
<1>3. SizeOf[{}] = 0
  <2>1. {} \in SUBSET Keys /\ {} \cap {} = {} /\ {} \cup {} = {}
    OBVIOUS
  <2>2. SizeOf[{}] = SizeOf[{}] + SizeOf[{}]
    BY <2>1, SizeAssumption
  <2> QED
    BY <2>1, <2>2, <1>2
<1>4. ASSUME NEW K \in SUBSET Keys, NEW k \in Keys \ K
      PROVE  SizeOf[K \cup {k}] = SizeOf[K] + SizeOf[{k}]
  <2>1. {k} \in SUBSET Keys /\ K \cap {k} = {}
    OBVIOUS
  <2> QED
    BY <2>1, SizeAssumption
<1>5. ASSUME NEW K \in SUBSET Keys, NEW B \in SUBSET K
      PROVE  SizeOf[K \ B] = SizeOf[K] - SizeOf[B]
  <2>1. K \ B \in SUBSET Keys /\ B \in SUBSET Keys /\ (K \ B) \cap B = {} /\ (K \ B) \cup B = K
    OBVIOUS
  <2>2. SizeOf[K] = SizeOf[K \ B] + SizeOf[B]
    BY <2>1, SizeAssumption
  <2>3. SizeOf[K] \in Nat /\ SizeOf[K \ B] \in Nat /\ SizeOf[B] \in Nat
    BY <2>1, <1>2
  <2> QED
    BY <2>2, <2>3
<1> QED
  BY <1>1, <1>2, <1>3, <1>4, <1>5

\* The call of a that asks for a key is one of those next leaves room for.
LEMMA KeyLeft ==
  ASSUME IInv, NEW a \in Owing
  PROVE  /\ next \in Keys /\ next + 1 \in 0 .. MaxItems
         /\ IsFiniteSet(Owing \ {a})
         /\ next + 1 + Cardinality(Owing \ {a}) <= asked
<1>1. IsFiniteSet(Owing) /\ next + Cardinality(Owing) <= asked
  BY DEF IInv, KeysAsked
<1>2. Cardinality(Owing) \in Nat
  BY <1>1, FS_CardinalityType
<1>3. IsFiniteSet(Owing \ {a}) /\ Cardinality(Owing \ {a}) = Cardinality(Owing) - 1
  BY <1>1, FS_RemoveElement
<1>4. Cardinality(Owing \ {a}) \in Nat
  BY <1>3, FS_CardinalityType
<1>5. next \in Nat /\ asked \in 0 .. MaxItems /\ MaxItems \in Nat
  BY ItemsAssumption DEF IInv, TypeOK
<1> QED
  BY <1>1, <1>2, <1>3, <1>4, <1>5 DEF Keys

\* Who holds e.mu is the only one past Lock.
LEMMA HolderAlone ==
  ASSUME IInv, NEW a \in Actors, lock = a
  PROVE  /\ pc[a] \in Held
         /\ \A b \in Actors \ {a} : pc[b] \in {"idle", "want"}
<1>1. pc \in [Actors -> PCs]
  BY DEF IInv, TypeOK
<1> QED
  BY <1>1 DEF IInv, LockHeld, PCs, Held

\* A flush that ends, well or not, gives the lock back, or lets Push sleep with it;
\* a Push that returns then has its record on disk.
LEMMA ReturnKeeps ==
  ASSUME IInv, NEW a \in Actors, lock = a, pc[a] \in InFlush, Return(a)
  PROVE  /\ lock' \in Actors \cup {Nobody} /\ pc' \in [Actors -> PCs]
         /\ LockHeld' /\ KeysAsked' /\ ConfirmedGiven' /\ confirmed' \in SUBSET Keys
<1> USE DEF InFlush, Held, PCs
<1>0. /\ pc \in [Actors -> PCs] /\ next \in 0 .. MaxItems /\ MaxItems \in Nat /\ roomless \in BOOLEAN
      /\ confirmed \in SUBSET Keys
  BY ItemsAssumption DEF IInv, TypeOK
<1>1. next' = next /\ asked' = asked /\ roomless' = roomless
  BY DEF Return, disk
<1>2. \A b \in Actors \ {a} : pc[b] \in {"idle", "want"}
  BY HolderAlone
<1>3. Nobody \notin Actors
  BY ActorsAssumption
<1>4. CASE roomless
  <2>1. a \in Readers
    BY <1>4 DEF IInv, LockHeld
  <2>2. lock' = lock /\ confirmed' = confirmed /\ pc' = [pc EXCEPT ![a] = "sleep"]
    BY <1>4 DEF Return
  <2>3. LockHeld'
    BY <1>0, <1>1, <1>2, <1>3, <1>4, <2>1, <2>2, ActorsAssumption DEF IInv, LockHeld, Actors, Producers
  <2>4. Owing' = Owing
    BY <1>0, <1>1, <1>4, <2>2 DEF Owing, Actors
  <2>5. KeysAsked'
    BY <1>1, <2>4 DEF IInv, KeysAsked
  <2>6. ConfirmedGiven'
    BY <1>1, <1>4, <2>2 DEF IInv, ConfirmedGiven
  <2> QED
    BY <1>0, <2>2, <2>3, <2>5, <2>6 DEF IInv, TypeOK
<1>5. CASE ~roomless
  <2>1. lock' = Nobody /\ pc' = [pc EXCEPT ![a] = "idle"]
    BY <1>5 DEF Return, Release
  <2>2. confirmed' = IF a \in Readers THEN confirmed \cup {next - 1} ELSE confirmed
    BY <1>5 DEF Return
  <2>3. LockHeld'
    BY <1>0, <1>1, <1>2, <1>3, <1>5, <2>1 DEF IInv, LockHeld
  <2>4. Owing' = Owing
    BY <1>0, <1>1, <1>5, <2>1 DEF Owing, Actors
  <2>5. KeysAsked'
    BY <1>1, <2>4 DEF IInv, KeysAsked
  <2>6. a \in Readers => next - 1 \in 0 .. next - 1 /\ next - 1 \in Keys
    BY <1>0, <1>5 DEF IInv, ConfirmedGiven, Keys
  <2>7. ConfirmedGiven'
    <3>1. confirmed' \subseteq 0 .. next - 1
      BY <2>2, <2>6 DEF IInv, ConfirmedGiven
    <3>2. \A b \in Readers : pc'[b] \notin InFlush
      BY <1>0, <1>2, <2>1 DEF Actors, Producers
    <3> QED
      BY <1>1, <3>1, <3>2 DEF ConfirmedGiven
  <2> QED
    BY <1>0, <2>1, <2>2, <2>3, <2>5, <2>6, <2>7
<1> QED
  BY <1>0, <1>4, <1>5

\* A POST that reaches the gateway carries the oldest of what it has not got.
LEMMA SegmentInOrder ==
  ASSUME IInv, NEW S \in SUBSET (batch \ posted), IsSegment(S),
         delivered' = delivered \cup S
  PROVE  FirstDeliveryInOrder' /\ delivered' \subseteq 0 .. next - 1 /\ delivered' \in SUBSET Keys
<1>1. S \subseteq wal /\ S \subseteq batch
  BY DEF IInv, FrontHeld
<1>2. /\ wal \subseteq 0 .. next - 1 /\ delivered \subseteq 0 .. next - 1
      /\ next \in Nat /\ wal \in SUBSET Keys /\ delivered \in SUBSET Keys
  BY ItemsAssumption DEF IInv, Covered, TypeOK
<1>3. ASSUME NEW k \in S, NEW j \in 0 .. k - 1 PROVE j \in delivered \cup S
  <2>1. k \in 0 .. next - 1 /\ j \in 0 .. next - 1 /\ ~(k < j)
    BY <1>1, <1>2
  <2>2. j \in wal \/ j \in delivered
    BY <2>1 DEF IInv, Covered
  <2>3. j \in wal => j \in batch
    BY <1>1, <2>1 DEF IInv, FrontHeld
  <2>4. j \in batch /\ j \notin posted => j \in S
    BY <2>1 DEF IsSegment
  <2> QED
    BY <2>2, <2>3, <2>4 DEF IInv, FrontHeld
<1>4. ASSUME NEW k \in delivered, NEW j \in 0 .. k - 1 PROVE j \in delivered
  BY DEF IInv, FirstDeliveryInOrder
<1> QED
  BY <1>1, <1>2, <1>3, <1>4 DEF FirstDeliveryInOrder

-----------------------------------------------------------------------------
(* The invariant is inductive *)

\* The goroutines that ask for e.mu and get it.
LEMMA CallKeeps ==
  ASSUME IInv, NEW a \in Actors, Call(a) PROVE IInv'
<1> USE DEF IInv, PCs, Held, InFlush
<1>1. /\ UNCHANGED <<wal, bytes, raws, next, lock, roomless, waiting, batch, posted, sentOne>>
      /\ UNCHANGED <<healthy, writable, crashes, confirmed, delivered>>
      /\ pc[a] = "idle" /\ pc' = [pc EXCEPT ![a] = "want"]
  BY DEF Call, disk, flushing, env
<1>2. pc \in [Actors -> PCs] /\ asked \in 0 .. MaxItems /\ MaxItems \in Nat
  BY ItemsAssumption DEF TypeOK
<1>3. LockHeld'
  BY <1>1, <1>2 DEF LockHeld
<1>4. KeysAsked' /\ asked' \in 0 .. MaxItems
  <2>1. CASE a = Ticker /\ asked' = asked
    <3>1. Owing' = Owing
      BY <1>1, <1>2, <2>1, ActorsAssumption DEF Owing, Actors
    <3> QED
      BY <1>1, <1>2, <2>1, <3>1 DEF KeysAsked
  <2>2. CASE a \in Producers /\ asked < MaxItems /\ asked' = asked + 1
    <3>1. Owing' = Owing \cup {a} /\ a \notin Owing
      BY <1>1, <1>2, <2>2 DEF Owing, Actors
    <3>2. IsFiniteSet(Owing') /\ Cardinality(Owing') = Cardinality(Owing) + 1 /\ Cardinality(Owing) \in Nat
      BY <3>1, FS_AddElement, FS_CardinalityType DEF KeysAsked
    <3>3. next \in Nat
      BY ItemsAssumption DEF TypeOK
    <3> QED
      BY <1>1, <1>2, <2>2, <3>2, <3>3 DEF KeysAsked
  <2> QED
    BY <2>1, <2>2 DEF Call
<1>5. Covered' /\ FirstDeliveryInOrder' /\ WithinLimit'
  BY <1>1 DEF Covered, FirstDeliveryInOrder, WithinLimit
<1>6. FrontHeld' /\ ConfirmedGiven'
  BY <1>1, <1>2 DEF FrontHeld, ConfirmedGiven
<1>7. TypeOK'
  BY <1>1, <1>2, <1>4 DEF TypeOK
<1> QED
  BY <1>3, <1>4, <1>5, <1>6, <1>7

LEMMA AcquireKeeps ==
  ASSUME IInv, NEW a \in Actors, Acquire(a) PROVE IInv'
<1> USE DEF IInv, PCs, Held, InFlush
<1>1. /\ UNCHANGED <<wal, bytes, raws, next, roomless, waiting, batch, posted, sentOne>>
      /\ UNCHANGED <<healthy, writable, crashes, asked, confirmed, delivered>>
      /\ pc[a] = "want" /\ pc' = [pc EXCEPT ![a] = IF a = Ticker THEN "flush" ELSE "offer"]
      /\ lock = Nobody /\ lock' = a
  BY DEF Acquire, disk, flushing, env
<1>2. pc \in [Actors -> PCs] /\ Nobody \notin Actors /\ (a # Ticker <=> a \in Producers)
  BY ActorsAssumption DEF TypeOK, Actors
<1>3. ~roomless /\ \A b \in Actors : pc[b] \in {"idle", "want"}
  BY <1>1, <1>2 DEF LockHeld, Actors, Producers
<1>4. LockHeld'
  BY <1>1, <1>2, <1>3 DEF LockHeld, Producers
<1>5. Owing' = Owing
  BY <1>1, <1>2 DEF Owing, Actors
<1>6. KeysAsked' /\ Covered' /\ FirstDeliveryInOrder' /\ WithinLimit'
  BY <1>1, <1>5 DEF KeysAsked, Covered, FirstDeliveryInOrder, WithinLimit
<1>7. FrontHeld'
  BY <1>1, <1>2, <1>3 DEF FrontHeld
<1>8. ConfirmedGiven'
  BY <1>1, <1>2, <1>3 DEF ConfirmedGiven, Actors, Producers
<1>9. TypeOK'
  BY <1>1, <1>2 DEF TypeOK
<1> QED
  BY <1>4, <1>6, <1>7, <1>8, <1>9

\* OfferDurable writes the payload.
LEMMA PersistKeeps ==
  ASSUME IInv, NEW a \in Actors, Persist(a) PROVE IInv'
<1> USE DEF PCs, Held, InFlush
<1>1. /\ lock = a /\ pc[a] = "offer" /\ Fits(next)
      /\ wal' = wal \cup {next} /\ bytes' = bytes + SizeOf[{next}]
      /\ raws' = IF a \in Receivers THEN raws \cup {next} ELSE raws
      /\ next' = next + 1 /\ roomless' = FALSE
      /\ UNCHANGED <<waiting, batch, posted, sentOne, healthy, writable, crashes, asked, delivered>>
  BY DEF Persist, flushing, env
<1>2. /\ pc \in [Actors -> PCs] /\ next \in Nat /\ MaxItems \in Nat
      /\ wal \in SUBSET Keys /\ raws \in SUBSET Keys /\ confirmed \in SUBSET Keys
  BY ItemsAssumption DEF IInv, TypeOK
<1>3. a \in Producers /\ a \in Owing
  BY <1>1 DEF IInv, LockHeld, Owing
<1>4. /\ next \in Keys /\ next + 1 \in 0 .. MaxItems /\ IsFiniteSet(Owing \ {a})
      /\ next + 1 + Cardinality(Owing \ {a}) <= asked
  BY <1>3, KeyLeft
<1>5. \A b \in Actors \ {a} : pc[b] \in {"idle", "want"}
  BY <1>1, HolderAlone
<1>6. batch = {}
  BY <1>1, <1>5 DEF IInv, FrontHeld
<1>7. \/ a \in Readers /\ pc' = [pc EXCEPT ![a] = "flush"] /\ lock' = lock /\ confirmed' = confirmed
      \/ pc' = [pc EXCEPT ![a] = "idle"] /\ lock' = Nobody /\ confirmed' = confirmed \cup {next}
  BY DEF Persist, Release
<1>8. Nobody \notin Actors /\ Readers \cap Receivers = {} /\ Producers = Readers \cup Receivers
  BY ActorsAssumption DEF Producers
<1>9. LockHeld'
  BY <1>1, <1>2, <1>3, <1>5, <1>7, <1>8 DEF IInv, LockHeld
<1>10. KeysAsked'
  <2>1. Owing' = Owing \ {a}
    BY <1>1, <1>2, <1>5, <1>7 DEF Owing, Actors
  <2> QED
    BY <1>1, <1>4, <2>1 DEF KeysAsked
<1>11. Covered'
  <2>1. \A k \in 0 .. next + 1 - 1 : k = next \/ k \in 0 .. next - 1
    BY <1>2
  <2>2. 0 .. next - 1 \subseteq 0 .. next + 1 - 1 /\ next \in 0 .. next + 1 - 1
    BY <1>2
  <2>3. /\ wal \subseteq 0 .. next - 1 /\ delivered \subseteq 0 .. next - 1
        /\ \A k \in 0 .. next - 1 : k \in wal \/ k \in delivered
    BY DEF IInv, Covered
  <2>4. /\ wal \cup {next} \subseteq 0 .. next + 1 - 1 /\ delivered \subseteq 0 .. next + 1 - 1
        /\ \A k \in 0 .. next + 1 - 1 : k \in wal \cup {next} \/ k \in delivered
    BY <2>1, <2>2, <2>3, Zenon
  <2> QED
    BY <1>1, <2>4 DEF Covered
<1>12. FrontHeld'
  BY <1>1, <1>6 DEF IInv, FrontHeld
<1>13. ConfirmedGiven'
  <2>1. confirmed' \subseteq 0 .. next' - 1
    <3>1. confirmed \subseteq 0 .. next - 1 /\ confirmed' \subseteq confirmed \cup {next}
      BY <1>7 DEF IInv, ConfirmedGiven
    <3>2. 0 .. next - 1 \subseteq 0 .. next + 1 - 1 /\ next \in 0 .. next + 1 - 1
      BY <1>2
    <3> QED
      BY <1>1, <3>1, <3>2
  <2>2. next' # 0
    BY <1>1, <1>2
  <2> QED
    BY <2>1, <2>2 DEF ConfirmedGiven
<1>14. FirstDeliveryInOrder'
  BY <1>1 DEF IInv, FirstDeliveryInOrder
<1>15. WithinLimit'
  <2>1. next \notin wal
    BY <1>2 DEF IInv, Covered
  <2>2. SizeOf[wal \cup {next}] = SizeOf[wal] + SizeOf[{next}]
    BY <1>2, <1>4, <2>1, KeySizes
  <2> QED
    BY <1>1, <2>2 DEF IInv, WithinLimit, Fits
<1>16. TypeOK'
  <2>1. /\ wal' \in SUBSET Keys /\ raws' \in SUBSET Keys /\ confirmed' \in SUBSET Keys
        /\ lock' \in Actors \cup {Nobody} /\ pc' \in [Actors -> PCs] /\ next' \in 0 .. MaxItems
    BY <1>1, <1>2, <1>4, <1>7
  <2>2. bytes' \in Int
    BY <1>1, <1>4, KeySizes DEF IInv, TypeOK
  <2> QED
    BY <1>1, <2>1, <2>2 DEF IInv, TypeOK
<1> QED
  BY <1>9, <1>10, <1>11, <1>12, <1>13, <1>14, <1>15, <1>16 DEF IInv

\* OfferDurable fails: the receiver is told, Push goes to flush for room.
LEMMA NoRoomKeeps ==
  ASSUME IInv, NEW a \in Actors, NoRoom(a) PROVE IInv'
<1> USE DEF PCs, Held, InFlush
<1>1. /\ lock = a /\ pc[a] = "offer"
      /\ UNCHANGED <<wal, bytes, raws, next, waiting, batch, posted, sentOne>>
      /\ UNCHANGED <<healthy, writable, crashes, asked, confirmed, delivered>>
  BY DEF NoRoom, disk, flushing, env
<1>2. pc \in [Actors -> PCs] /\ roomless \in BOOLEAN
  BY DEF IInv, TypeOK
<1>3. a \in Producers /\ Producers = Readers \cup Receivers /\ Readers \cap Receivers = {} /\ Nobody \notin Actors
  BY <1>1, ActorsAssumption DEF IInv, LockHeld, Producers
<1>4. \/ a \in Receivers /\ pc' = [pc EXCEPT ![a] = "idle"] /\ lock' = Nobody /\ roomless' = roomless
      \/ a \in Readers /\ pc' = [pc EXCEPT ![a] = "flush"] /\ lock' = lock /\ roomless' = TRUE
  BY <1>3 DEF NoRoom, Release
<1>5. \A b \in Actors \ {a} : pc[b] \in {"idle", "want"}
  BY <1>1, HolderAlone
<1>6. LockHeld'
  BY <1>1, <1>2, <1>3, <1>4, <1>5 DEF IInv, LockHeld
<1>7. KeysAsked'
  <2>1. a \in Owing
    BY <1>1, <1>3 DEF Owing
  <2>2. Owing' = Owing \/ Owing' = Owing \ {a}
    BY <1>1, <1>2, <1>3, <1>4, <1>5 DEF Owing, Actors
  <2>3. IsFiniteSet(Owing \ {a}) /\ next + 1 + Cardinality(Owing \ {a}) <= asked
    BY <2>1, KeyLeft
  <2>4. Cardinality(Owing \ {a}) \in Nat /\ next \in Nat /\ asked \in Nat
    BY <2>3, FS_CardinalityType, ItemsAssumption DEF IInv, TypeOK
  <2>5. next + Cardinality(Owing \ {a}) <= asked
    BY <2>3, <2>4
  <2> QED
    BY <1>1, <2>2, <2>3, <2>5 DEF IInv, KeysAsked
<1>8. Covered' /\ FirstDeliveryInOrder' /\ WithinLimit'
  BY <1>1 DEF IInv, Covered, FirstDeliveryInOrder, WithinLimit
<1>9. FrontHeld'
  BY <1>1, <1>2, <1>4, <1>5 DEF IInv, FrontHeld
<1>10. ConfirmedGiven'
  BY <1>1, <1>2, <1>3, <1>4, <1>5 DEF IInv, ConfirmedGiven, Actors
<1>11. TypeOK'
  BY <1>1, <1>2, <1>4 DEF IInv, TypeOK
<1> QED
  BY <1>6, <1>7, <1>8, <1>9, <1>10, <1>11 DEF IInv

\* Push tries again, and a flush begins: the holder moves on, nothing else.
LEMMA HolderMoves ==
  ASSUME IInv, NEW a \in Actors, Wake(a) \/ StartFlush(a) PROVE IInv'
<1> USE DEF PCs, Held, InFlush
<1>1. /\ lock = a
      /\ \/ pc[a] = "sleep" /\ pc' = [pc EXCEPT ![a] = "offer"]
         \/ pc[a] = "flush" /\ pc' = [pc EXCEPT ![a] = "batch"]
      /\ UNCHANGED <<wal, bytes, raws, next, lock, roomless, waiting, batch, posted, sentOne>>
      /\ UNCHANGED <<healthy, writable, crashes, asked, confirmed, delivered>>
  BY DEF Wake, StartFlush, disk, flushing, env
<1>2. pc \in [Actors -> PCs]
  BY DEF IInv, TypeOK
<1>3. \A b \in Actors \ {a} : pc[b] \in {"idle", "want"}
  BY <1>1, HolderAlone
<1>4. LockHeld'
  BY <1>1, <1>2, <1>3 DEF IInv, LockHeld
<1>5. Owing' = Owing
  BY <1>1, <1>2 DEF Owing, Actors
<1>6. KeysAsked' /\ Covered' /\ FirstDeliveryInOrder' /\ WithinLimit'
  BY <1>1, <1>5 DEF IInv, KeysAsked, Covered, FirstDeliveryInOrder, WithinLimit
<1>7. FrontHeld'
  BY <1>1, <1>2, <1>3 DEF IInv, FrontHeld
<1>8. ConfirmedGiven'
  BY <1>1, <1>2 DEF IInv, ConfirmedGiven, Actors, Producers
<1>9. TypeOK'
  BY <1>1, <1>2 DEF IInv, TypeOK
<1> QED
  BY <1>4, <1>6, <1>7, <1>8, <1>9 DEF IInv

\* A flush that ends keeps the disk; a failed POST may have been received.
LEMMA FlushEnds ==
  ASSUME IInv, NEW a \in Actors,
         SkipFlush(a) \/ FlushDone(a) \/ FlushFails(a) \/ FlushTimeout(a)
  PROVE  IInv'
<1>1. lock = a /\ pc[a] \in InFlush /\ Return(a) /\ waiting' \in BOOLEAN
  BY DEF SkipFlush, FlushDone, FlushFails, FlushTimeout, Fail, InFlush, IInv, TypeOK
<1>2. /\ UNCHANGED <<wal, bytes, raws, next, roomless, healthy, writable, crashes, asked>>
      /\ batch' = {} /\ posted' = {} /\ sentOne' = FALSE
  BY <1>1 DEF Return, disk, env
<1>3. /\ lock' \in Actors \cup {Nobody} /\ pc' \in [Actors -> PCs]
      /\ LockHeld' /\ KeysAsked' /\ ConfirmedGiven' /\ confirmed' \in SUBSET Keys
  BY <1>1, ReturnKeeps
<1>4. /\ delivered \subseteq delivered' /\ delivered' \subseteq 0 .. next - 1
      /\ delivered' \in SUBSET Keys /\ FirstDeliveryInOrder'
  <2>1. CASE delivered' = delivered
    BY <2>1 DEF IInv, Covered, TypeOK, FirstDeliveryInOrder
  <2>2. CASE \E S \in SUBSET (batch \ posted) : IsSegment(S) /\ delivered' = delivered \cup S
    BY <2>2, SegmentInOrder
  <2> QED
    BY <2>1, <2>2 DEF SkipFlush, FlushDone, FlushFails, FlushTimeout
<1>5. Covered'
  BY <1>2, <1>4 DEF IInv, Covered
<1>6. FrontHeld' /\ WithinLimit'
  BY <1>2 DEF IInv, FrontHeld, WithinLimit
<1>7. TypeOK'
  BY <1>1, <1>2, <1>3, <1>4 DEF IInv, TypeOK
<1> QED
  BY <1>3, <1>4, <1>5, <1>6, <1>7 DEF IInv

\* FlushBatch reads the front of the bucket.
LEMMA ReadBatchKeeps ==
  ASSUME IInv, NEW a \in Actors, ReadBatch(a) PROVE IInv'
<1> USE DEF PCs, Held, InFlush
<1>1. /\ lock = a /\ pc[a] = "batch" /\ pc' = [pc EXCEPT ![a] = "post"]
      /\ batch' \in SUBSET wal /\ IsFront(batch') /\ posted' = {}
      /\ UNCHANGED <<wal, bytes, raws, next, lock, roomless, waiting, sentOne>>
      /\ UNCHANGED <<healthy, writable, crashes, asked, confirmed, delivered>>
  BY DEF ReadBatch, disk, env
<1>2. pc \in [Actors -> PCs] /\ wal \in SUBSET Keys
  BY DEF IInv, TypeOK
<1>3. LockHeld'
  BY <1>1, <1>2 DEF IInv, LockHeld
<1>4. Owing' = Owing
  BY <1>1, <1>2 DEF Owing, Actors
<1>5. KeysAsked' /\ Covered' /\ FirstDeliveryInOrder' /\ WithinLimit'
  BY <1>1, <1>4 DEF IInv, KeysAsked, Covered, FirstDeliveryInOrder, WithinLimit
<1>6. FrontHeld'
  BY <1>1, <1>2 DEF FrontHeld, IsFront
<1>7. ConfirmedGiven'
  BY <1>1, <1>2 DEF IInv, ConfirmedGiven, Actors, Producers
<1>8. TypeOK'
  BY <1>1, <1>2 DEF IInv, TypeOK
<1> QED
  BY <1>3, <1>5, <1>6, <1>7, <1>8 DEF IInv

\* A POST is accepted.
LEMMA PostKeeps ==
  ASSUME IInv, NEW a \in Actors, PostSegment(a) PROVE IInv'
<1>1. /\ UNCHANGED <<wal, bytes, raws, next, lock, pc, roomless, waiting, batch, sentOne>>
      /\ UNCHANGED <<healthy, writable, crashes, asked, confirmed>>
  BY DEF PostSegment, disk, env
<1>2. PICK S \in SUBSET (batch \ posted) :
        IsSegment(S) /\ posted' = posted \cup S /\ delivered' = delivered \cup S
  BY DEF PostSegment
<1>3. FirstDeliveryInOrder' /\ delivered' \subseteq 0 .. next - 1 /\ delivered' \in SUBSET Keys
  BY <1>2, SegmentInOrder
<1>4. Owing' = Owing
  BY <1>1 DEF Owing
<1>5. LockHeld' /\ KeysAsked' /\ ConfirmedGiven' /\ WithinLimit'
  BY <1>1, <1>4 DEF IInv, LockHeld, KeysAsked, ConfirmedGiven, WithinLimit
<1>6. Covered' /\ FrontHeld'
  BY <1>1, <1>2, <1>3 DEF IInv, Covered, FrontHeld
<1>7. TypeOK'
  BY <1>1, <1>2, <1>3 DEF IInv, TypeOK
<1> QED
  BY <1>3, <1>5, <1>6, <1>7 DEF IInv

\* The posted batch leaves the bucket, and all of it was received.
LEMMA CommitKeeps ==
  ASSUME IInv, NEW a \in Actors, Commit(a) PROVE IInv'
<1> USE DEF PCs, Held, InFlush
<1>1. /\ lock = a /\ pc[a] = "post" /\ pc' = [pc EXCEPT ![a] = "batch"] /\ posted = batch
      /\ wal' = wal \ batch /\ bytes' = bytes - SizeOf[batch]
      /\ batch' = {} /\ posted' = {} /\ sentOne' = TRUE
      /\ UNCHANGED <<raws, next, lock, roomless, waiting>>
      /\ UNCHANGED <<healthy, writable, crashes, asked, confirmed, delivered>>
  BY DEF Commit, env
<1>2. pc \in [Actors -> PCs] /\ wal \in SUBSET Keys /\ batch \in SUBSET wal /\ batch \subseteq delivered
  BY <1>1 DEF IInv, TypeOK, FrontHeld
<1>3. LockHeld'
  BY <1>1, <1>2 DEF IInv, LockHeld
<1>4. Owing' = Owing
  BY <1>1, <1>2 DEF Owing, Actors
<1>5. KeysAsked' /\ FirstDeliveryInOrder'
  BY <1>1, <1>4 DEF IInv, KeysAsked, FirstDeliveryInOrder
<1>6. Covered' /\ FrontHeld'
  BY <1>1, <1>2 DEF IInv, Covered, FrontHeld
<1>7. ConfirmedGiven'
  BY <1>1, <1>2 DEF IInv, ConfirmedGiven, Actors, Producers
<1>8. WithinLimit' /\ bytes' \in Int
  <2>1. SizeOf[wal \ batch] = SizeOf[wal] - SizeOf[batch]
    BY <1>2, KeySizes
  <2>2. SizeOf[wal] \in Nat /\ SizeOf[batch] \in Nat /\ MaxBytes \in Nat
    BY <1>2, KeySizes, ItemsAssumption
  <2> QED
    BY <1>1, <2>1, <2>2 DEF IInv, WithinLimit
<1>9. TypeOK'
  BY <1>1, <1>2, <1>8 DEF IInv, TypeOK
<1> QED
  BY <1>3, <1>5, <1>6, <1>7, <1>8, <1>9 DEF IInv

\* A crash leaves the bolt file; what was in the hands of a goroutine is forgotten.
LEMMA RestartKeeps ==
  ASSUME IInv, Restart PROVE IInv'
<1> USE DEF PCs, Held, InFlush
<1>1. /\ lock' = Nobody /\ pc' = [a \in Actors |-> "idle"] /\ roomless' = FALSE /\ waiting' = FALSE
      /\ batch' = {} /\ posted' = {} /\ sentOne' = FALSE /\ crashes < MaxCrashes /\ crashes' = crashes + 1
      /\ UNCHANGED <<wal, bytes, raws, next, healthy, writable, asked, confirmed, delivered>>
  BY DEF Restart, disk
<1>2. LockHeld'
  BY <1>1, ActorsAssumption DEF LockHeld
<1>3. KeysAsked'
  <2>1. Owing' = {}
    BY <1>1 DEF Owing, Actors
  <2>2. IsFiniteSet(Owing) /\ next + Cardinality(Owing) <= asked /\ Cardinality(Owing) \in Nat
    BY FS_CardinalityType DEF IInv, KeysAsked
  <2>3. next \in Nat /\ asked \in Nat
    BY ItemsAssumption DEF IInv, TypeOK
  <2> QED
    BY <1>1, <2>1, <2>2, <2>3, FS_EmptySet DEF KeysAsked
<1>4. Covered' /\ FrontHeld' /\ FirstDeliveryInOrder' /\ WithinLimit'
  BY <1>1 DEF IInv, Covered, FrontHeld, FirstDeliveryInOrder, WithinLimit
<1>5. ConfirmedGiven'
  BY <1>1 DEF IInv, ConfirmedGiven, Actors, Producers
<1>6. crashes' \in 0 .. MaxCrashes
  BY <1>1, ItemsAssumption DEF IInv, TypeOK
<1>7. TypeOK'
  BY <1>1, <1>6 DEF IInv, TypeOK
<1> QED
  BY <1>2, <1>3, <1>4, <1>5, <1>7 DEF IInv

\* Time, the gateway and the disk move nothing of the exporter but the back-off.
LEMMA EnvironmentKeeps ==
  ASSUME IInv, RetryDue \/ HealthChanges \/ DiskChanges \/ UNCHANGED vars PROVE IInv'
<1>1. /\ UNCHANGED <<wal, bytes, raws, next, lock, pc, roomless, batch, posted, sentOne>>
      /\ UNCHANGED <<crashes, asked, confirmed, delivered>>
      /\ waiting' \in BOOLEAN /\ healthy' \in BOOLEAN /\ writable' \in BOOLEAN
  BY DEF RetryDue, HealthChanges, DiskChanges, vars, disk, flushing, env, IInv, TypeOK
<1>2. Owing' = Owing
  BY <1>1 DEF Owing
<1>3. LockHeld' /\ KeysAsked' /\ Covered' /\ FrontHeld'
  BY <1>1, <1>2 DEF IInv, LockHeld, KeysAsked, Covered, FrontHeld
<1>4. ConfirmedGiven' /\ FirstDeliveryInOrder' /\ WithinLimit'
  BY <1>1 DEF IInv, ConfirmedGiven, FirstDeliveryInOrder, WithinLimit
<1>5. TypeOK'
  BY <1>1 DEF IInv, TypeOK
<1> QED
  BY <1>3, <1>4, <1>5 DEF IInv

\* The strengthened invariant of the write-ahead log holds in every reachable state.
THEOREM WalInvariant == Spec => []IInv
<1>1. Init => IInv
  <2> SUFFICES ASSUME Init PROVE IInv
    OBVIOUS
  <2> USE DEF Init, PCs, Held, InFlush
  <2>1. LockHeld
    BY ActorsAssumption DEF LockHeld
  <2>2. Owing = {}
    BY DEF Owing, Actors
  <2>3. KeysAsked
    BY <2>2, FS_EmptySet DEF KeysAsked
  <2>4. Covered /\ FrontHeld /\ ConfirmedGiven
    BY DEF Covered, FrontHeld, ConfirmedGiven, Actors, Producers
  <2>5. FirstDeliveryInOrder /\ WithinLimit
    BY KeySizes, ItemsAssumption DEF FirstDeliveryInOrder, WithinLimit
  <2>6. TypeOK
    <3>1. 0 \in 0 .. MaxItems /\ 0 \in 0 .. MaxCrashes /\ 0 \in Int
      BY ItemsAssumption
    <3>2. pc \in [Actors -> PCs]
      OBVIOUS
    <3> QED
      BY <3>1, <3>2 DEF TypeOK
  <2> QED
    BY <2>1, <2>3, <2>4, <2>5, <2>6 DEF IInv
<1>2. IInv /\ [Next]_vars => IInv'
  <2> SUFFICES ASSUME IInv, [Next]_vars PROVE IInv'
    OBVIOUS
  <2>1. ASSUME NEW a \in Actors, HolderStep(a) PROVE IInv'
    BY <2>1, PersistKeeps, NoRoomKeeps, HolderMoves, FlushEnds, ReadBatchKeeps, PostKeeps, CommitKeeps
       DEF HolderStep
  <2> QED
    BY <2>1, CallKeeps, AcquireKeeps, EnvironmentKeeps, RestartKeeps DEF Next
<1> QED
  BY <1>1, <1>2, PTL DEF Spec

-----------------------------------------------------------------------------
(* What the runs check, for every instance *)

\* The state of the exporter and of its bolt file is well typed in every reachable
\* state; in particular no key is given out that no call asked for.
THEOREM TypeCorrect == Spec => []TypeOK
<1>1. IInv => TypeOK
  BY DEF IInv
<1> QED
  BY <1>1, WalInvariant, PTL

\* A record whose Push returned, and a request whose EnqueueRaw was answered with
\* success, is on disk or was received, wherever POSTs fail and the process stops.
THEOREM ConfirmedSafe == Spec => []ConfirmedIsSafe
<1>1. IInv => ConfirmedIsSafe
  BY DEF IInv, ConfirmedGiven, Covered, ConfirmedIsSafe
<1> QED
  BY <1>1, WalInvariant, PTL

\* The gateway never receives a payload before one that was accepted earlier,
\* though batches are cut into segments and half of a batch may be posted again.
THEOREM DeliveredInOrder == Spec => []FirstDeliveryInOrder
<1>1. IInv => FirstDeliveryInOrder
  BY DEF IInv
<1> QED
  BY <1>1, WalInvariant, PTL

\* metaBytes is the size of the bucket after every transaction, and it never
\* exceeds the limit.
THEOREM LimitKept == Spec => []WithinLimit
<1>1. IInv => WithinLimit
  BY DEF IInv
<1> QED
  BY <1>1, WalInvariant, PTL
=============================================================================
