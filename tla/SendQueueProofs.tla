--------------------------- MODULE SendQueueProofs ---------------------------
(***************************************************************************)
(* Proofs about SendQueue, for every number of offers, payload size and    *)
(* byte limit; what needs a single sender says so (OneSender).             *)
(***************************************************************************)
EXTENDS SendQueue, FiniteSetTheorems, TLAPS

\* Any set of payloads is finite, and so is counted by a natural number.
LEMMA KeysFinite ==
  ASSUME NEW K \in SUBSET Keys
  PROVE  IsFiniteSet(K) /\ Cardinality(K) \in Nat
<1>1. IsFiniteSet(Keys)
  BY OffersAssumption, FS_Interval DEF Keys
<1> QED
  BY <1>1, FS_Subset, FS_CardinalityType

\* The record Offer leaves in a store is again a store.
LEMMA AppendedType ==
  ASSUME NEW q \in Store, NEW k \in Keys, NEW cut
  PROVE  Appended(q, k, cut) \in Store
<1> DEFINE out == {j \in q.keys : j < cut}
<1>1. out \in SUBSET Keys /\ (q.keys \ out) \cup {k} \in SUBSET Keys
  BY DEF Store
<1>2. Cardinality(out) \in Nat
  BY <1>1, KeysFinite
<1>3. SizeOf[out] \in Nat /\ Size(k) \in Nat
  BY <1>1, SizeAssumption DEF Size
<1> HIDE DEF out
<1>4. [keys |-> (q.keys \ out) \cup {k},
       bytes |-> q.bytes + Size(k) - SizeOf[out],
       count |-> q.count + 1 - Cardinality(out),
       dropped |-> q.dropped + Cardinality(out),
       discarded |-> q.discarded \cup out] \in Store
  BY <1>1, <1>2, <1>3 DEF Store
<1> QED
  BY <1>4 DEF Appended, out

\* Removing the head leaves a store.
LEMMA PoppedType ==
  ASSUME NEW q \in Store, NEW k \in Keys
  PROVE  Popped(q, k) \in Store
<1>1. Size(k) \in Nat
  BY SizeAssumption DEF Size
<1>2. (IF Size(k) >= q.bytes THEN 0 ELSE q.bytes - Size(k)) \in Int
  BY <1>1 DEF Store
<1>3. (IF q.count > 0 THEN q.count - 1 ELSE q.count) \in Int
  BY DEF Store
<1>4. q.keys \ {k} \in SUBSET Keys
  BY DEF Store
<1> QED
  BY <1>2, <1>3, <1>4 DEF Popped, Store

\* Counting a refused payload leaves a store.
LEMMA DroppedType ==
  ASSUME NEW q \in Store, NEW b \in Keys
  PROVE  Dropped(q, b) \in Store
<1>1. q.dropped + 1 \in Nat /\ q.discarded \cup {b} \in SUBSET Keys
  BY DEF Store
<1> QED
  BY <1>1 DEF Dropped, Store

\* What popFront takes from a store, field by field.
LEMMA PoppedFields ==
  ASSUME NEW q \in Store, NEW k \in q.keys
  PROVE  /\ Popped(q, k).keys = q.keys \ {k}
         /\ Popped(q, k).bytes = IF Size(k) >= q.bytes THEN 0 ELSE q.bytes - Size(k)
         /\ Popped(q, k).count = IF q.count > 0 THEN q.count - 1 ELSE q.count
         /\ Popped(q, k).dropped = q.dropped
         /\ Popped(q, k).discarded = q.discarded
BY DEF Popped, Store

\* popFront leaves a store, when the head is one of its payloads.
LEMMA PoppedInStore ==
  ASSUME NEW q \in Store, NEW k \in q.keys
  PROVE  Popped(q, k) \in Store
<1>1. k \in Keys
  BY DEF Store
<1> QED
  BY <1>1, PoppedType

\* What counting a refused payload changes, field by field.
LEMMA DroppedFields ==
  ASSUME NEW q \in Store, NEW b
  PROVE  /\ Dropped(q, b).keys = q.keys
         /\ Dropped(q, b).bytes = q.bytes
         /\ Dropped(q, b).count = q.count
         /\ Dropped(q, b).dropped = q.dropped + 1
         /\ Dropped(q, b).discarded = q.discarded \cup {b}
BY DEF Dropped, Store

\* A failed Flush leaves an idle send cycle.
LEMMA FailedType ==
  ASSUME NEW c \in Cycle
  PROVE  Failed(c) \in Cycle /\ Failed(c).pc = "idle"
BY DEF Failed, Cycle, PCs

\* peek leaves a well-formed send cycle that carries the peeked payload.
LEMMA PeekedType ==
  ASSUME NEW c \in Cycle, NEW k \in Nat
  PROVE  /\ Peeked(c, k) \in Cycle
         /\ Peeked(c, k).body = k
         /\ Peeked(c, k).pc = "posting"
<1> DEFINE n == IF IsRetry(c) THEN c.sent + 1 ELSE c.sent
           r == IsRetry(c)
<1>1. n \in Nat /\ r \in BOOLEAN
  BY DEF Cycle, IsRetry
<1>2. Peeked(c, k) = [c EXCEPT !.pc = "posting", !.body = k, !.retry = r, !.sent = n]
  BY DEF Peeked
<1> HIDE DEF n, r
<1> QED
  BY <1>1, <1>2 DEF Cycle, PCs

\* What a boot starts with has the right type.
LEMMA EmptyTypes == EmptyStore \in Store /\ Idle \in Cycle
<1>1. EmptyStore \in Store
  BY DEF EmptyStore, Store
<1>2. Idle \in Cycle
  BY DEF Idle, Cycle, PCs
<1> QED
  BY <1>1, <1>2

\* Every variable keeps its type under every operation of the queue.
THEOREM TypeCorrect == Spec => []TypeOK
<1>1. Init => TypeOK
  <2>3. 0 \in 0 .. MaxOffers /\ 0 \in Nat
    BY OffersAssumption
  <2> SUFFICES ASSUME Init PROVE TypeOK
    OBVIOUS
  <2>4. store \in [Modes -> Store] /\ cycle \in [Senders -> Cycle]
    BY EmptyTypes DEF Init
  <2> QED
    BY <2>3, <2>4 DEF Init, TypeOK, Idle, InFlight
<1>2. TypeOK /\ [Next]_vars => TypeOK'
  <2> SUFFICES ASSUME TypeOK, [Next]_vars PROVE TypeOK'
    OBVIOUS
  <2> USE DEF TypeOK
  <2>1. ASSUME NEW s \in Senders, Offer(s) PROVE TypeOK'
    <3>1. PICK cut \in store[mode].keys \cup {next} :
            store' = [store EXCEPT ![mode] = Appended(store[mode], next, cut)]
      BY <2>1 DEF Offer
    <3>2. next \in Keys
      BY <2>1, OffersAssumption DEF Offer, Keys
    <3>3. store' \in [Modes -> Store]
      BY <3>1, <3>2, AppendedType
    <3>4. cycle' \in [Senders -> Cycle]
      BY <2>1 DEF Offer, Cycle, PCs
    <3>5. \A t \in Senders : cycle'[t].pc \in InFlight => cycle'[t].body \in Keys
      BY <2>1 DEF Offer, Cycle, InFlight
    <3> QED
      BY <2>1, <3>3, <3>4, <3>5, OffersAssumption DEF Offer
  <2>2. ASSUME NEW s \in Senders, EndBatch(s) PROVE TypeOK'
    BY <2>2 DEF EndBatch, Cycle
  <2>3. ASSUME NEW s \in Senders, FlushBlocked(s) PROVE TypeOK'
    BY <2>3 DEF FlushBlocked, Cycle, PCs, InFlight
  <2>4. ASSUME NEW s \in Senders, FlushStart(s) PROVE TypeOK'
    <3>1. store[mode].count \in Int /\ store[mode].keys \in SUBSET Keys
      BY DEF Store
    <3>2. Retained(store[mode].count, unflushed) \in Nat
      BY <3>1 DEF Retained
    <3>3. cycle' \in [Senders -> Cycle]
      BY <2>4, <3>2 DEF FlushStart, Cycle, PCs
    <3>4. \A t \in Senders : cycle'[t].pc \in InFlight => cycle'[t].body \in Keys
      BY <2>4 DEF FlushStart, Cycle, InFlight
    <3> QED
      BY <2>4, <3>1, <3>3, <3>4 DEF FlushStart
  <2>5. ASSUME NEW s \in Senders, PeekEmpty(s) PROVE TypeOK'
    BY <2>5 DEF PeekEmpty, Cycle, PCs, InFlight
  <2>6. ASSUME NEW s \in Senders, Peek(s) PROVE TypeOK'
    <3>1. PICK k \in store[mode].keys : cycle' = [cycle EXCEPT ![s] = Peeked(@, k)]
      BY <2>6 DEF Peek
    <3>2. k \in Keys /\ k \in Nat
      BY OffersAssumption DEF Store, Keys
    <3>3. Peeked(cycle[s], k) \in Cycle /\ Peeked(cycle[s], k).body = k
      BY <3>2, PeekedType
    <3>4. cycle' \in [Senders -> Cycle]
      BY <3>1, <3>3
    <3>5. \A t \in Senders : cycle'[t].pc \in InFlight => cycle'[t].body \in Keys
      BY <3>1, <3>2, <3>3
    <3> QED
      BY <2>6, <3>4, <3>5 DEF Peek
  <2>7. ASSUME NEW s \in Senders, ReplyOK(s) PROVE TypeOK'
    BY <2>7 DEF ReplyOK, Cycle, PCs, InFlight
  <2>8. ASSUME NEW s \in Senders, ReplyLost(s) PROVE TypeOK'
    <3>1. delivered' \in SUBSET Keys
      BY <2>8 DEF ReplyLost, InFlight
    <3> QED
      BY <2>8, <3>1, FailedType DEF ReplyLost, InFlight
  <2>9. ASSUME NEW s \in Senders, ReplyTerminal(s) PROVE TypeOK'
    <3>1. blocked' \in BOOLEAN
      BY <2>9 DEF ReplyTerminal
    <3> QED
      BY <2>9, <3>1 DEF ReplyTerminal, Cycle, PCs, InFlight
  <2>10. ASSUME NEW s \in Senders, PopSent(s) PROVE TypeOK'
    <3>1. store' \in [Modes -> Store]
      BY <2>10, PoppedType DEF PopSent, Store
    <3> QED
      BY <2>10, <3>1 DEF PopSent, Cycle, PCs, InFlight
  <2>11. ASSUME NEW s \in Senders, PopRefused(s) PROVE TypeOK'
    <3>1. cycle[s].body \in Keys
      BY <2>11 DEF PopRefused, InFlight
    <3>2. ASSUME NEW k \in store[mode].keys
          PROVE  Dropped(Popped(store[mode], k), cycle[s].body) \in Store
      BY <3>1, PoppedType, DroppedType DEF Store
    <3>3. store' \in [Modes -> Store]
      BY <2>11, <3>2 DEF PopRefused
    <3>4. cycle' \in [Senders -> Cycle]
      BY <2>11, FailedType DEF PopRefused
    <3>5. \A t \in Senders : cycle'[t].pc \in InFlight => cycle'[t].body \in Keys
      BY <2>11, FailedType DEF PopRefused, InFlight
    <3> QED
      BY <2>11, <3>3, <3>4, <3>5 DEF PopRefused
  <2>12. ASSUME NEW s \in Senders, PopFails(s) PROVE TypeOK'
    BY <2>12, FailedType DEF PopFails, Cycle, PCs, InFlight
  <2>13. ASSUME NoteAuthFailure PROVE TypeOK'
    BY <2>13 DEF NoteAuthFailure
  <2>14. ASSUME CooldownEnds PROVE TypeOK'
    BY <2>14 DEF CooldownEnds
  <2>15. ASSUME Restart PROVE TypeOK'
    <3>1. store' \in [Modes -> Store] /\ cycle' \in [Senders -> Cycle]
      BY <2>15, EmptyTypes DEF Restart
    <3>2. forgotten' \in SUBSET Keys /\ seen' \in SUBSET Keys
      BY <2>15, <3>1 DEF Restart, Store, Modes
    <3> QED
      BY <2>15, <3>1, <3>2 DEF Restart, Idle, InFlight
  <2>16. CASE UNCHANGED vars
    BY <2>16 DEF vars
  <2> QED
    BY <2>1, <2>2, <2>3, <2>4, <2>5, <2>6, <2>7, <2>8, <2>9, <2>10, <2>11,
       <2>12, <2>13, <2>14, <2>15, <2>16 DEF Next, Step
<1> QED
  BY <1>1, <1>2, PTL DEF Spec

-----------------------------------------------------------------------------
(* A queue with one sender *)

OneSender == \A s, t \in Senders : s = t

IInv == TypeOK /\ Past /\ HeadHeld

\* Every payload in a store, delivered or discarded was offered before, and
\* the payload a sender has in flight is still the head of its queue when
\* popFront runs: with one sender nothing can come between peek and popFront.
THEOREM HeadIsHeld == ASSUME OneSender PROVE Spec => []IInv
<1>1. Init => Past /\ HeadHeld
  BY DEF Init, Past, HeadHeld, EmptyStore, Idle, InFlight
<1>2. TypeOK /\ TypeOK' /\ Past /\ HeadHeld /\ [Next]_vars => Past' /\ HeadHeld'
  <2> SUFFICES ASSUME TypeOK, TypeOK', Past, HeadHeld, [Next]_vars
               PROVE  Past' /\ HeadHeld'
    OBVIOUS
  <2>1. ASSUME NEW s \in Senders, Offer(s) PROVE Past' /\ HeadHeld'
    <3>1. PICK cut \in store[mode].keys \cup {next} :
            store' = [store EXCEPT ![mode] = Appended(store[mode], next, cut)]
      BY <2>1 DEF Offer
    <3>2. next \in Nat /\ next' = next + 1
      BY <2>1 DEF Offer, TypeOK
    <3>3. \A m \in Modes : store'[m].keys \cup store'[m].discarded \subseteq 0 .. next
      BY <3>1, <3>2 DEF Appended, Past, TypeOK
    <3>4. Past'
      BY <2>1, <3>2, <3>3 DEF Offer, Past
    <3>5. \A t \in Senders : cycle'[t].pc \notin InFlight
      BY <2>1, OneSender DEF Offer, OneSender, InFlight, TypeOK, Cycle
    <3>6. HeadHeld'
      BY <3>5 DEF HeadHeld, InFlight
    <3> QED
      BY <3>4, <3>6
  <2>2. ASSUME NEW s \in Senders,
               EndBatch(s) \/ FlushBlocked(s) \/ FlushStart(s) \/ PeekEmpty(s)
                 \/ PopFails(s)
        PROVE  Past' /\ HeadHeld'
    <3>1. cycle'[s].pc \notin InFlight
      <4> USE DEF TypeOK, Cycle, InFlight
      <4>1. CASE EndBatch(s)      BY <4>1 DEF EndBatch
      <4>2. CASE FlushBlocked(s)  BY <4>2 DEF FlushBlocked
      <4>3. CASE FlushStart(s)    BY <4>3 DEF FlushStart
      <4>4. CASE PeekEmpty(s)     BY <4>4 DEF PeekEmpty
      <4>5. CASE PopFails(s)      BY <4>5, FailedType DEF PopFails
      <4> QED
        BY <2>2, <4>1, <4>2, <4>3, <4>4, <4>5
    <3>2. UNCHANGED <<store, next, delivered, forgotten>>
      BY <2>2 DEF EndBatch, FlushBlocked, FlushStart, PeekEmpty, PopFails
    <3> QED
      BY <3>1, <3>2, OneSender DEF Past, HeadHeld, InFlight, OneSender
  <2>3. ASSUME NEW s \in Senders, Peek(s) PROVE Past' /\ HeadHeld'
    <3>1. PICK k \in store[mode].keys :
            /\ Oldest(k, store[mode].keys)
            /\ cycle' = [cycle EXCEPT ![s] = Peeked(@, k)]
      BY <2>3 DEF Peek
    <3>2. k \in Nat
      BY OffersAssumption DEF TypeOK, Store, Keys
    <3>3. cycle'[s].pc = "posting" /\ cycle'[s].body = k
      BY <3>1, <3>2, PeekedType DEF TypeOK
    <3>4. UNCHANGED <<mode, store, next, delivered, forgotten>>
      BY <2>3 DEF Peek
    <3> QED
      BY <3>1, <3>3, <3>4, OneSender DEF Past, HeadHeld, OneSender
  <2>4. ASSUME NEW s \in Senders, ReplyOK(s) PROVE Past' /\ HeadHeld'
    <3>1. Oldest(cycle[s].body, store[mode].keys)
      BY <2>4 DEF ReplyOK, HeadHeld, InFlight
    <3>2. cycle[s].body \in 0 .. next - 1
      BY <3>1 DEF Oldest, Past, TypeOK
    <3> QED
      BY <2>4, <3>1, <3>2, OneSender
      DEF ReplyOK, Past, HeadHeld, OneSender, TypeOK, Cycle, InFlight
  <2>5. ASSUME NEW s \in Senders, ReplyLost(s) PROVE Past' /\ HeadHeld'
    <3>1. cycle[s].body \in 0 .. next - 1
      BY <2>5 DEF ReplyLost, HeadHeld, InFlight, Oldest, Past, TypeOK
    <3>2. \A t \in Senders : cycle'[t].pc \notin InFlight
      BY <2>5, OneSender, FailedType DEF ReplyLost, OneSender, InFlight, TypeOK
    <3> QED
      BY <2>5, <3>1, <3>2 DEF ReplyLost, Past, HeadHeld, InFlight
  <2>6. ASSUME NEW s \in Senders, ReplyTerminal(s) PROVE Past' /\ HeadHeld'
    BY <2>6, OneSender
    DEF ReplyTerminal, Past, HeadHeld, OneSender, TypeOK, Cycle, InFlight
  <2>7. ASSUME NEW s \in Senders, PopSent(s) PROVE Past' /\ HeadHeld'
    <3>1. \A t \in Senders : cycle'[t].pc \notin InFlight
      BY <2>7, OneSender DEF PopSent, OneSender, InFlight, TypeOK, Cycle
    <3>2. \A m \in Modes : /\ store'[m].keys \subseteq store[m].keys
                          /\ store'[m].discarded = store[m].discarded
      BY <2>7, PoppedFields DEF PopSent, TypeOK
    <3> QED
      BY <2>7, <3>1, <3>2 DEF PopSent, Past, HeadHeld, InFlight
  <2>8. ASSUME NEW s \in Senders, PopRefused(s) PROVE Past' /\ HeadHeld'
    <3>1. \A t \in Senders : cycle'[t].pc \notin InFlight
      BY <2>8, OneSender, FailedType DEF PopRefused, OneSender, InFlight, TypeOK
    <3>2. cycle[s].body \in 0 .. next - 1
      BY <2>8 DEF PopRefused, HeadHeld, InFlight, Oldest, Past, TypeOK
    <3>3. \A m \in Modes : store'[m].keys \subseteq store[m].keys
            /\ store'[m].discarded \subseteq store[m].discarded \cup {cycle[s].body}
      BY <2>8, PoppedFields, DroppedFields, PoppedInStore DEF PopRefused, TypeOK
    <3> QED
      BY <2>8, <3>1, <3>2, <3>3 DEF PopRefused, Past, HeadHeld, InFlight
  <2>9. CASE NoteAuthFailure \/ CooldownEnds
    BY <2>9 DEF NoteAuthFailure, CooldownEnds, Past, HeadHeld
  <2>10. CASE Restart
    <3>1. \A t \in Senders : cycle'[t].pc \notin InFlight
      BY <2>10 DEF Restart, Idle, InFlight
    <3>2. \A m \in Modes : store'[m].keys \cup store'[m].discarded \subseteq 0 .. next - 1
      BY <2>10 DEF Restart, EmptyStore, Past, TypeOK
    <3> QED
      BY <2>10, <3>1, <3>2 DEF Restart, Past, HeadHeld, InFlight, Modes
  <2>11. CASE UNCHANGED vars
    BY <2>11 DEF vars, Past, HeadHeld
  <2> QED
    BY <2>1, <2>2, <2>3, <2>4, <2>5, <2>6, <2>7, <2>8, <2>9, <2>10, <2>11
    DEF Next, Step
<1> QED
  BY <1>1, <1>2, TypeCorrect, PTL DEF Spec, IInv

\* The actions that touch no store.
LEMMA QuietSteps ==
  ASSUME [Next]_vars
  PROVE  \/ UNCHANGED <<store, next, forgotten>> /\ delivered \subseteq delivered'
         \/ Restart
         \/ \E s \in Senders : Offer(s) \/ PopSent(s) \/ PopRefused(s)
<1> DEFINE Quiet == /\ UNCHANGED <<store, next, forgotten>>
                    /\ delivered \subseteq delivered'
<1>1. CASE UNCHANGED vars \/ NoteAuthFailure \/ CooldownEnds
  BY <1>1 DEF vars, NoteAuthFailure, CooldownEnds
<1>2. ASSUME NEW s \in Senders, EndBatch(s) \/ FlushBlocked(s) \/ FlushStart(s)
      PROVE  Quiet
  BY <1>2 DEF EndBatch, FlushBlocked, FlushStart
<1>3. ASSUME NEW s \in Senders, PeekEmpty(s) \/ Peek(s) \/ PopFails(s)
      PROVE  Quiet
  BY <1>3 DEF PeekEmpty, Peek, PopFails
<1>4. ASSUME NEW s \in Senders, ReplyOK(s) \/ ReplyLost(s) \/ ReplyTerminal(s)
      PROVE  Quiet
  BY <1>4 DEF ReplyOK, ReplyLost, ReplyTerminal
<1> QED
  BY <1>1, <1>2, <1>3, <1>4 DEF Next, Step

\* With one sender, popFront after a 2xx removes the payload that was posted.
LEMMA PopSentHead ==
  ASSUME IInv, NEW s \in Senders, PopSent(s)
  PROVE  /\ cycle[s].body \in store[mode].keys \cap delivered
         /\ store' = [store EXCEPT ![mode] = Popped(@, cycle[s].body)]
<1> USE DEF IInv
<1>1. Oldest(cycle[s].body, store[mode].keys) /\ cycle[s].body \in delivered
  BY DEF PopSent, HeadHeld, InFlight
<1>2. PICK k \in store[mode].keys :
        /\ Oldest(k, store[mode].keys)
        /\ store' = [store EXCEPT ![mode] = Popped(@, k)]
  BY <1>1 DEF PopSent, Oldest
<1>3. k = cycle[s].body
  BY <1>1, <1>2, OffersAssumption DEF Oldest, TypeOK, Store, Keys
<1> QED
  BY <1>1, <1>2, <1>3

\* With one sender, popFront after a refusal removes the refused payload.
LEMMA PopRefusedHead ==
  ASSUME IInv, NEW s \in Senders, PopRefused(s)
  PROVE  LET b == cycle[s].body
         IN  /\ b \in store[mode].keys
             /\ store' = [store EXCEPT ![mode] = Dropped(Popped(@, b), b)]
<1> USE DEF IInv
<1>1. Oldest(cycle[s].body, store[mode].keys)
  BY DEF PopRefused, HeadHeld, InFlight
<1>2. PICK k \in store[mode].keys :
        /\ Oldest(k, store[mode].keys)
        /\ store' = [store EXCEPT ![mode] = Dropped(Popped(@, k), cycle[s].body)]
  BY <1>1 DEF PopRefused, Oldest
<1>3. k = cycle[s].body
  BY <1>1, <1>2, OffersAssumption DEF Oldest, TypeOK, Store, Keys
<1> QED
  BY <1>2, <1>3

\* The outbox keeps to maxBytes, or to one payload that is larger by itself,
\* whatever the number of senders: Offer evicts until that is so and popFront
\* only takes away.
THEOREM OutboxBounded == Spec => []BoundedOutbox
<1>1. Init => BoundedOutbox
  BY MaxBytesAssumption DEF Init, BoundedOutbox, EmptyStore
<1>2. TypeOK /\ BoundedOutbox /\ [Next]_vars => BoundedOutbox'
  <2> SUFFICES ASSUME TypeOK, BoundedOutbox, [Next]_vars PROVE BoundedOutbox'
    OBVIOUS
  <2>1. CASE UNCHANGED store
    BY <2>1 DEF BoundedOutbox
  <2>2. CASE Restart
    BY <2>2, MaxBytesAssumption DEF Restart, BoundedOutbox, EmptyStore, TypeOK
  <2>3. ASSUME NEW s \in Senders, Offer(s) PROVE BoundedOutbox'
    BY <2>3 DEF Offer, EvictsTo, Stops, BoundedOutbox, TypeOK
  <2>4. ASSUME NEW k \in store[mode].keys
        PROVE  LET q == Popped(store[mode], k)
               IN  q.bytes <= MaxBytes \/ q.count <= 1
    <3>1. /\ store[mode] \in Store /\ store[mode].bytes \in Int
          /\ store[mode].count \in Int /\ k \in Keys
      BY DEF TypeOK, Store
    <3>2. Size(k) \in Nat
      BY <3>1, SizeAssumption DEF Size
    <3>3. store[mode].bytes <= MaxBytes \/ store[mode].count <= 1
      BY DEF BoundedOutbox, TypeOK
    <3> QED
      BY <3>1, <3>2, <3>3, PoppedFields, MaxBytesAssumption
  <2>5. ASSUME NEW s \in Senders, PopSent(s) PROVE BoundedOutbox'
    BY <2>4, <2>5 DEF PopSent, BoundedOutbox, TypeOK
  <2>6. ASSUME NEW s \in Senders, PopRefused(s) PROVE BoundedOutbox'
    <3>1. ASSUME NEW k \in store[mode].keys
          PROVE  LET q == Dropped(Popped(store[mode], k), cycle[s].body)
                 IN  q.bytes <= MaxBytes \/ q.count <= 1
      <4>1. Popped(store[mode], k) \in Store
        BY PoppedInStore DEF TypeOK
      <4> QED
        BY <2>4, <4>1, DroppedFields
    <3> QED
      BY <2>6, <3>1 DEF PopRefused, BoundedOutbox, TypeOK
  <2> QED
    BY <2>1, <2>2, <2>3, <2>5, <2>6, QuietSteps
<1> QED
  BY <1>1, <1>2, TypeCorrect, PTL DEF Spec

\* No accepted payload is lost unnoticed when the queue has one sender: it is
\* the payload that was just posted, and no other, that popFront removes.
THEOREM NothingLost == ASSUME OneSender PROVE Spec => []NoSilentLoss
<1>1. Init => NoSilentLoss
  BY DEF Init, NoSilentLoss
<1>2. IInv /\ NoSilentLoss /\ [Next]_vars => NoSilentLoss'
  <2> SUFFICES ASSUME IInv, NoSilentLoss, [Next]_vars PROVE NoSilentLoss'
    OBVIOUS
  <2> USE DEF IInv
  <2>1. CASE UNCHANGED <<store, next, forgotten>> /\ delivered \subseteq delivered'
    BY <2>1 DEF NoSilentLoss
  <2>2. CASE Restart
    BY <2>2 DEF Restart, NoSilentLoss, Modes, TypeOK
  <2>3. ASSUME NEW s \in Senders, Offer(s) PROVE NoSilentLoss'
    <3>1. PICK cut \in store[mode].keys \cup {next} :
            store' = [store EXCEPT ![mode] = Appended(store[mode], next, cut)]
      BY <2>3 DEF Offer
    <3>2. \A m \in Modes : store[m].keys \cup store[m].discarded
                             \subseteq store'[m].keys \cup store'[m].discarded
      BY <3>1 DEF Appended, TypeOK
    <3>3. next \in store'[mode].keys
      BY <3>1 DEF Appended, TypeOK
    <3>4. mode \in Modes /\ next \in Nat /\ next' = next + 1
      BY <2>3 DEF Offer, TypeOK
    <3>5. UNCHANGED <<delivered, forgotten>>
      BY <2>3 DEF Offer
    <3>6. \A k \in 0 .. next : k \in 0 .. next - 1 \/ k = next
      BY <3>4
    <3> QED
      BY <3>2, <3>3, <3>4, <3>5, <3>6 DEF NoSilentLoss
  <2>4. ASSUME NEW s \in Senders, PopSent(s) PROVE NoSilentLoss'
    <3>1. \A m \in Modes :
            /\ store[m].keys \subseteq store'[m].keys \cup delivered
            /\ store'[m].discarded = store[m].discarded
      BY <2>4, PopSentHead, PoppedFields DEF TypeOK
    <3>2. UNCHANGED <<next, delivered, forgotten>>
      BY <2>4 DEF PopSent
    <3> QED
      BY <3>1, <3>2 DEF NoSilentLoss
  <2>5. ASSUME NEW s \in Senders, PopRefused(s) PROVE NoSilentLoss'
    <3>1. \A m \in Modes : store[m].keys \cup store[m].discarded
                             \subseteq store'[m].keys \cup store'[m].discarded
      BY <2>5, PopRefusedHead, PoppedFields, PoppedInStore, DroppedFields DEF TypeOK
    <3>2. UNCHANGED <<next, delivered, forgotten>>
      BY <2>5 DEF PopRefused
    <3> QED
      BY <3>1, <3>2 DEF NoSilentLoss
  <2> QED
    BY <2>1, <2>2, <2>3, <2>4, <2>5, QuietSteps
<1> QED
  BY <1>1, <1>2, HeadIsHeld, PTL DEF Spec

-----------------------------------------------------------------------------
(* The counters *)

\* Counting and weighing two disjoint sets of payloads.
LEMMA DisjointUnion ==
  ASSUME NEW A \in SUBSET Keys, NEW B \in SUBSET Keys, A \cap B = {}
  PROVE  /\ Cardinality(A \cup B) = Cardinality(A) + Cardinality(B)
         /\ SizeOf[A \cup B] = SizeOf[A] + SizeOf[B]
<1>1. Cardinality(A \cup B) = Cardinality(A) + Cardinality(B) - Cardinality(A \cap B)
  BY KeysFinite, FS_Union
<1>2. Cardinality(A \cap B) = 0
  BY FS_EmptySet
<1>3. Cardinality(A) \in Nat /\ Cardinality(B) \in Nat
  BY KeysFinite
<1> QED
  BY <1>1, <1>2, <1>3, SizeAssumption

\* Adding one payload to a set of others.
LEMMA OneMore ==
  ASSUME NEW A \in SUBSET Keys, NEW k \in Keys \ A
  PROVE  /\ Cardinality(A \cup {k}) = Cardinality(A) + 1
         /\ SizeOf[A \cup {k}] = SizeOf[A] + Size(k)
<1>1. {k} \in SUBSET Keys /\ A \cap {k} = {}
  OBVIOUS
<1>2. SizeOf[A \cup {k}] = SizeOf[A] + SizeOf[{k}]
  BY <1>1, DisjointUnion
<1>3. Cardinality(A \cup {k}) = Cardinality(A) + 1
  BY KeysFinite, FS_AddElement
<1> QED
  BY <1>2, <1>3 DEF Size

\* An empty store counts nothing.
LEMMA EmptyExact == Exact(EmptyStore)
<1>1. {} \cup {} = {} /\ {} \cap {} = {} /\ {} \in SUBSET Keys
  OBVIOUS
<1>2. SizeOf[{} \cup {}] = SizeOf[{}] + SizeOf[{}]
  BY <1>1, SizeAssumption
<1>3. SizeOf[{}] \in Nat
  BY SizeAssumption
<1>4. SizeOf[{}] = 0
  <2> DEFINE n == SizeOf[{}]
  <2>1. n = n + n
    BY <1>1, <1>2, Zenon
  <2>2. n \in Nat
    BY <1>3
  <2> HIDE DEF n
  <2>3. n = 0
    BY <2>1, <2>2
  <2> QED
    BY <2>3 DEF n
<1>5. Cardinality({}) = 0
  BY FS_EmptySet
<1> QED
  BY <1>4, <1>5 DEF Exact, EmptyStore

\* Offer keeps the counters of a store exact.
LEMMA AppendedExact ==
  ASSUME NEW q \in Store, NEW k \in Keys \ q.keys, NEW cut, Exact(q),
         q.keys \cap q.discarded = {}
  PROVE  Exact(Appended(q, k, cut))
<1> DEFINE out == {j \in q.keys : j < cut}
           rest == q.keys \ out
<1>1. /\ out \in SUBSET Keys /\ rest \in SUBSET Keys /\ {k} \in SUBSET Keys
      /\ q.discarded \in SUBSET Keys /\ q.bytes \in Int /\ q.count \in Int
      /\ q.dropped \in Nat
  BY DEF Store
<1>2. /\ rest \cap out = {} /\ rest \cap {k} = {} /\ q.discarded \cap out = {}
      /\ q.keys = rest \cup out
  OBVIOUS
<1> HIDE DEF out, rest
<1>3. /\ Cardinality(q.keys) = Cardinality(rest) + Cardinality(out)
      /\ SizeOf[q.keys] = SizeOf[rest] + SizeOf[out]
  BY <1>1, <1>2, DisjointUnion
<1>4. /\ Cardinality(rest \cup {k}) = Cardinality(rest) + 1
      /\ SizeOf[rest \cup {k}] = SizeOf[rest] + Size(k)
  BY <1>1, <1>2, OneMore
<1>5. Cardinality(q.discarded \cup out) = Cardinality(q.discarded) + Cardinality(out)
  BY <1>1, <1>2, DisjointUnion
<1>6. /\ Cardinality(rest) \in Nat /\ Cardinality(out) \in Nat
      /\ SizeOf[rest] \in Nat /\ SizeOf[out] \in Nat /\ Size(k) \in Nat
  BY <1>1, KeysFinite, SizeAssumption DEF Size
<1>7. Appended(q, k, cut) =
        [keys |-> rest \cup {k},
         bytes |-> q.bytes + Size(k) - SizeOf[out],
         count |-> q.count + 1 - Cardinality(out),
         dropped |-> q.dropped + Cardinality(out),
         discarded |-> q.discarded \cup out]
  BY DEF Appended, out, rest
<1> QED
  BY <1>1, <1>3, <1>4, <1>5, <1>6, <1>7 DEF Exact

\* popFront keeps them exact: the clamp at zero bytes is never in effect.
LEMMA PoppedExact ==
  ASSUME NEW q \in Store, NEW k \in q.keys, Exact(q)
  PROVE  Exact(Popped(q, k))
<1> DEFINE rest == q.keys \ {k}
<1>1. rest \in SUBSET Keys /\ {k} \in SUBSET Keys /\ rest \cap {k} = {}
      /\ q.keys = rest \cup {k} /\ q.bytes \in Int /\ q.count \in Int
  BY DEF Store
<1> HIDE DEF rest
<1>2. /\ Cardinality(q.keys) = Cardinality(rest) + 1
      /\ SizeOf[q.keys] = SizeOf[rest] + Size(k)
  BY <1>1, OneMore
<1>3. Cardinality(rest) \in Nat /\ SizeOf[rest] \in Nat /\ Size(k) \in Nat
  BY <1>1, KeysFinite, SizeAssumption DEF Size
<1>4. Popped(q, k).keys = rest
  BY PoppedFields DEF rest
<1> QED
  BY <1>1, <1>2, <1>3, <1>4, PoppedFields DEF Exact

\* The counters the heartbeat reports are exact when the queue has one sender.
THEOREM LedgerIsExact == ASSUME OneSender PROVE Spec => [](LedgerExact /\ Apart)
<1>1. Init => LedgerExact /\ Apart
  BY EmptyExact DEF Init, LedgerExact, Apart, EmptyStore
<1>2. IInv /\ LedgerExact /\ Apart /\ [Next]_vars => LedgerExact' /\ Apart'
  <2> SUFFICES ASSUME IInv, LedgerExact, Apart, [Next]_vars
               PROVE  LedgerExact' /\ Apart'
    OBVIOUS
  <2> USE DEF IInv
  <2>1. CASE UNCHANGED store
    BY <2>1 DEF LedgerExact, Apart
  <2>2. CASE Restart
    <3>1. store' = [store EXCEPT !["mem"] = EmptyStore]
      BY <2>2 DEF Restart
    <3> QED
      BY <3>1, EmptyExact DEF LedgerExact, Apart, TypeOK, EmptyStore
  <2>3. ASSUME NEW s \in Senders, Offer(s) PROVE LedgerExact' /\ Apart'
    <3>1. PICK cut \in store[mode].keys \cup {next} :
            store' = [store EXCEPT ![mode] = Appended(store[mode], next, cut)]
      BY <2>3 DEF Offer
    <3>2. next \in Keys \ (store[mode].keys \cup store[mode].discarded)
      BY <2>3, OffersAssumption DEF Offer, Keys, Past, TypeOK
    <3>3. Exact(Appended(store[mode], next, cut))
      BY <3>2, AppendedExact DEF LedgerExact, Apart, TypeOK
    <3>4. Appended(store[mode], next, cut).keys
            \cap Appended(store[mode], next, cut).discarded = {}
      BY <3>2 DEF Appended, Apart, TypeOK
    <3> QED
      BY <3>1, <3>3, <3>4 DEF LedgerExact, Apart, TypeOK
  <2>4. ASSUME NEW s \in Senders, PopSent(s) PROVE LedgerExact' /\ Apart'
    BY <2>4, PopSentHead, PoppedExact, PoppedFields DEF LedgerExact, Apart, TypeOK
  <2>5. ASSUME NEW s \in Senders, PopRefused(s) PROVE LedgerExact' /\ Apart'
    <3> DEFINE b == cycle[s].body
               q == Popped(store[mode], b)
    <3>1. b \in store[mode].keys
      BY <2>5, PopRefusedHead
    <3>2. store' = [store EXCEPT ![mode] = Dropped(q, b)]
      BY <2>5, PopRefusedHead
    <3>3. q \in Store /\ Exact(q) /\ q.keys = store[mode].keys \ {b}
            /\ q.discarded = store[mode].discarded
      BY <3>1, PoppedInStore, PoppedExact, PoppedFields DEF LedgerExact, TypeOK
    <3>4. b \notin q.discarded
      BY <3>1, <3>3 DEF Apart, TypeOK
    <3>5. Cardinality(q.discarded \cup {b}) = Cardinality(q.discarded) + 1
      BY <3>3, <3>4, KeysFinite, FS_AddElement DEF Store
    <3> HIDE DEF b, q
    <3>6. Exact(Dropped(q, b))
      BY <3>3, <3>5, DroppedFields DEF Exact
    <3>7. Dropped(q, b).keys \cap Dropped(q, b).discarded = {}
      BY <3>3, DroppedFields DEF Apart, TypeOK
    <3> QED
      BY <3>2, <3>6, <3>7 DEF LedgerExact, Apart, TypeOK
  <2> QED
    BY <2>1, <2>2, <2>3, <2>4, <2>5, QuietSteps
<1> QED
  BY <1>1, <1>2, HeadIsHeld, PTL DEF Spec

-----------------------------------------------------------------------------
(* The promise of module Outbox *)

\* With one sender the queue implements Outbox: every step of Offer, Flush or
\* a restart is a step of the abstract outbox, or leaves it as it is.
THEOREM PromiseKept == ASSUME OneSender PROVE Spec => KeepsPromise
<1>1. Init => Promise!Init
  BY DEF Init, Promise!Init, EmptyStore, Modes
<1>2. IInv /\ IInv' /\ [Next]_vars => [Promise!Next]_(Promise!ovars)
  <2> SUFFICES ASSUME IInv, [Next]_vars, ~UNCHANGED Promise!ovars
               PROVE  Promise!Next
    OBVIOUS
  <2> USE DEF IInv
  <2>0. mode \in Modes /\ store \in [Modes -> Store] /\ Modes = {"disk", "mem"}
    BY DEF TypeOK, Modes
  <2>1. ASSUME NEW s \in Senders, Offer(s) PROVE Promise!Next
    <3>1. PICK cut \in store[mode].keys \cup {next} :
            store' = [store EXCEPT ![mode] = Appended(store[mode], next, cut)]
      BY <2>1 DEF Offer
    <3> DEFINE out == {j \in store[mode].keys : j < cut}
    <3>2. /\ store'[mode].keys = (store[mode].keys \ out) \cup {next}
          /\ store'[mode].discarded = store[mode].discarded \cup out
          /\ \A m \in Modes : m # mode => store'[m] = store[m]
      BY <3>1, <2>0 DEF Appended
    <3>3. /\ next \in Keys
          /\ \A m \in Modes : next \notin store[m].keys \cup store[m].discarded
          /\ next \notin delivered \cup forgotten
          /\ \A j \in store[mode].keys : j < next
      BY <2>0, <2>1, OffersAssumption DEF Offer, Keys, Past, TypeOK
    <3>4. \A e \in out, j \in store[mode].keys \ out : e < j
      BY <2>0, OffersAssumption DEF Store, Keys, TypeOK
    <3>5. out \in SUBSET store[mode].keys
      OBVIOUS
    <3>6. UNCHANGED <<delivered, forgotten>>
      BY <2>1 DEF Offer
    <3> HIDE DEF out
    <3>7. CASE mode = "disk"
      BY <2>0, <3>2, <3>3, <3>4, <3>5, <3>6, <3>7
      DEF Promise!Next, Promise!Accept, Promise!Waiting
    <3>8. CASE mode = "mem"
      BY <2>0, <3>2, <3>3, <3>4, <3>5, <3>6, <3>8
      DEF Promise!Next, Promise!Accept, Promise!Waiting
    <3> QED
      BY <2>0, <3>7, <3>8
  <2>2. ASSUME NEW s \in Senders, PopSent(s) PROVE Promise!Next
    <3> DEFINE b == cycle[s].body
    <3>1. /\ b \in store[mode].keys /\ b \in delivered
          /\ store'[mode].keys = store[mode].keys \ {b}
          /\ store'[mode].discarded = store[mode].discarded
          /\ \A m \in Modes : m # mode => store'[m] = store[m]
      BY <2>0, <2>2, PopSentHead, PoppedFields
    <3>2. UNCHANGED <<delivered, forgotten>>
      BY <2>2 DEF PopSent
    <3> HIDE DEF b
    <3> QED
      BY <2>0, <3>1, <3>2 DEF Promise!Next, Promise!Leave
  <2>3. ASSUME NEW s \in Senders, PopRefused(s) PROVE Promise!Next
    <3> DEFINE b == cycle[s].body
    <3>1. /\ b \in store[mode].keys
          /\ store'[mode].keys = store[mode].keys \ {b}
          /\ store'[mode].discarded = store[mode].discarded \cup {b}
          /\ \A m \in Modes : m # mode => store'[m] = store[m]
      BY <2>0, <2>3, PopRefusedHead, PoppedFields, PoppedInStore, DroppedFields
    <3>2. UNCHANGED <<delivered, forgotten>>
      BY <2>3 DEF PopRefused
    <3> HIDE DEF b
    <3> QED
      BY <2>0, <3>1, <3>2 DEF Promise!Next, Promise!Leave
  <2>4. CASE Restart
    BY <2>0, <2>4 DEF Restart, EmptyStore, Promise!Next, Promise!Restart
  <2>5. ASSUME NEW s \in Senders, ReplyOK(s) \/ ReplyLost(s) PROVE Promise!Next
    <3>1. Oldest(cycle[s].body, store[mode].keys)
      BY <2>5 DEF ReplyOK, ReplyLost, HeadHeld, InFlight
    <3>2. UNCHANGED <<store, forgotten>>
      BY <2>5 DEF ReplyOK, ReplyLost
    <3>3. delivered' = delivered \cup {cycle[s].body}
      BY <2>5, <3>2 DEF ReplyOK, ReplyLost, Promise!ovars
    <3> QED
      BY <2>0, <3>1, <3>2, <3>3 DEF Oldest, Promise!Next, Promise!Deliver
  <2>6. ASSUME UNCHANGED <<store, delivered, forgotten>> PROVE FALSE
    BY <2>6 DEF Promise!ovars
  <2>7. ASSUME NEW s \in Senders,
               EndBatch(s) \/ FlushBlocked(s) \/ FlushStart(s) \/ PeekEmpty(s)
                 \/ Peek(s) \/ ReplyTerminal(s) \/ PopFails(s)
        PROVE  FALSE
    BY <2>6, <2>7 DEF EndBatch, FlushBlocked, FlushStart, PeekEmpty, Peek,
                      ReplyTerminal, PopFails
  <2>8. ASSUME NoteAuthFailure \/ CooldownEnds \/ UNCHANGED vars PROVE FALSE
    BY <2>6, <2>8 DEF NoteAuthFailure, CooldownEnds, vars
  <2> QED
    BY <2>1, <2>2, <2>3, <2>4, <2>5, <2>7, <2>8 DEF Next, Step
<1> QED
  BY <1>1, <1>2, HeadIsHeld, PTL DEF Spec, KeepsPromise, Promise!Spec

-----------------------------------------------------------------------------
(* What incrementRetry counts *)

Waiting == store[mode].keys

\* The payloads offered since the last snapshot are the newest, and unflushedOffers
\* counts them (some of them may have been evicted again).
FreshCounted ==
  /\ seen \subseteq 0 .. next - 1
  /\ \A k \in Waiting \ seen, j \in seen : j < k
  /\ Cardinality(Waiting \ seen) <= unflushed

\* A Flush owes no more resends than it has payloads left that were there before, and
\* those are at the head of the queue.
RetriesOwed(c) ==
  /\ \A k \in Waiting \ c.carried, j \in c.carried : j < k
  /\ c.pc = "loop" => c.retained - c.sent <= Cardinality(Waiting \cap c.carried)
  /\ c.pc \in InFlight /\ c.retry =>
       c.body \in c.carried /\ c.retained - c.sent + 1 <= Cardinality(Waiting \cap c.carried)
  /\ c.pc \in InFlight /\ ~c.retry => c.retained <= c.sent

Retries ==
  FreshCounted /\ \A s \in Senders : cycle[s].pc \in {"loop"} \cup InFlight => RetriesOwed(cycle[s])

\* Fewer payloads are not counted as more.
LEMMA Fewer ==
  ASSUME NEW L \in SUBSET Keys, NEW K \in SUBSET L
  PROVE  /\ Cardinality(K) <= Cardinality(L)
         /\ Cardinality(K) \in Nat /\ Cardinality(L) \in Nat
BY KeysFinite, FS_Subset

\* The facts about the counters that the steps below use.
LEMMA Counters ==
  ASSUME TypeOK
  PROVE  /\ Waiting \in SUBSET Keys /\ seen \in SUBSET Keys /\ Keys \subseteq Nat
         /\ unflushed \in Nat /\ next \in Nat
         /\ \A s \in Senders : /\ cycle[s] \in Cycle /\ cycle[s].retained \in Nat
                               /\ cycle[s].sent \in Nat /\ cycle[s].carried \in SUBSET Keys
<1>1. Waiting \in SUBSET Keys
  BY DEF TypeOK, Store, Waiting
<1>2. Keys \subseteq Nat /\ next \in Nat
  BY OffersAssumption DEF Keys, TypeOK
<1> QED
  BY <1>1, <1>2 DEF TypeOK, Cycle

\* Payloads that leave the queue take nothing from what was said of the fresh ones.
LEMMA FreshAfterPop ==
  ASSUME TypeOK, FreshCounted, Waiting' \in SUBSET Waiting, UNCHANGED <<unflushed, next, seen>>
  PROVE  FreshCounted'
<1>1. Waiting' \ seen \in SUBSET (Waiting \ seen) /\ Waiting \ seen \in SUBSET Keys
  BY Counters
<1>2. Cardinality(Waiting' \ seen) <= unflushed
  BY <1>1, Fewer, Counters DEF FreshCounted
<1> QED
  BY <1>1, <1>2 DEF FreshCounted

\* Offer: one more payload, newer than all, and one more unflushed.
LEMMA FreshAfterOffer ==
  ASSUME TypeOK, FreshCounted, NEW s \in Senders, Offer(s)
  PROVE  FreshCounted'
<1>1. PICK cut \in store[mode].keys \cup {next} :
        store' = [store EXCEPT ![mode] = Appended(store[mode], next, cut)]
  BY DEF Offer
<1>2. /\ next \in Keys /\ next' = next + 1 /\ unflushed' = unflushed + 1
      /\ UNCHANGED <<mode, seen>>
  BY OffersAssumption DEF Offer, Keys, TypeOK
<1>3. Waiting' \in SUBSET (Waiting \cup {next})
  BY <1>1, <1>2 DEF Appended, Waiting, TypeOK
<1>4. Waiting' \ seen \in SUBSET ((Waiting \ seen) \cup {next}) /\ (Waiting \ seen) \cup {next} \in SUBSET Keys
  BY <1>2, <1>3, Counters
<1>5. Cardinality((Waiting \ seen) \cup {next}) <= Cardinality(Waiting \ seen) + 1
  <2>1. Waiting \ seen \in SUBSET Keys
    BY Counters
  <2>2. IsFiniteSet(Waiting \ seen) /\ Cardinality(Waiting \ seen) \in Nat
    BY <2>1, KeysFinite
  <2> QED
    BY <2>2, FS_AddElement
<1>6. Cardinality(Waiting' \ seen) <= unflushed + 1
  <2>1. Waiting \ seen \in SUBSET Keys
    BY Counters
  <2>2. Cardinality(Waiting' \ seen) <= Cardinality((Waiting \ seen) \cup {next})
    BY <1>4, Fewer
  <2>3. /\ Cardinality(Waiting \ seen) \in Nat /\ Cardinality(Waiting' \ seen) \in Nat
        /\ Cardinality((Waiting \ seen) \cup {next}) \in Nat
    BY <1>4, <2>1, KeysFinite
  <2> QED
    BY <1>5, <2>2, <2>3, Counters DEF FreshCounted
<1>7. \A j \in seen : j < next
  BY Counters DEF FreshCounted
<1>8. seen \subseteq 0 .. next
  BY Counters DEF FreshCounted
<1>9. \A k \in Waiting' \ seen, j \in seen : j < k
  BY <1>3, <1>7 DEF FreshCounted
<1>10. seen' = seen /\ seen' \subseteq 0 .. next' - 1
  <2>1. seen' = seen /\ next' - 1 = next
    BY <1>2, Counters
  <2> QED
    BY <1>8, <2>1
<1>11. \A k \in Waiting' \ seen', j \in seen' : j < k
  BY <1>9, <1>10
<1>12. Cardinality(Waiting' \ seen') <= unflushed'
  BY <1>2, <1>6, <1>10
<1> QED
  BY <1>10, <1>11, <1>12 DEF FreshCounted

\* retainedToLog is no more than what was there before.
LEMMA OwedAtStart ==
  ASSUME TypeOK, Past, LedgerExact, FreshCounted, NEW s \in Senders, FlushStart(s)
  PROVE  FreshCounted' /\ RetriesOwed(cycle[s])'
<1>1. /\ UNCHANGED <<mode, store, next>> /\ unflushed' = 0 /\ seen' = Waiting /\ Waiting' = Waiting
      /\ cycle'[s].pc = "loop" /\ cycle'[s].sent = 0 /\ cycle'[s].carried = seen
      /\ cycle'[s].retained = Retained(store[mode].count, unflushed)
  BY Counters DEF FlushStart, Waiting, TypeOK, Cycle
<1>2. store[mode].count = Cardinality(Waiting)
  BY DEF LedgerExact, Exact, Waiting, TypeOK
<1>3. Cardinality(Waiting) = Cardinality(Waiting \cap seen) + Cardinality(Waiting \ seen)
  <2>1. /\ Waiting \cap seen \in SUBSET Keys /\ Waiting \ seen \in SUBSET Keys
        /\ (Waiting \cap seen) \cap (Waiting \ seen) = {}
        /\ (Waiting \cap seen) \cup (Waiting \ seen) = Waiting
    BY Counters
  <2> QED
    BY <2>1, DisjointUnion
<1>4. Cardinality(Waiting \cap seen) \in Nat /\ Cardinality(Waiting \ seen) \in Nat
  <2>1. Waiting \cap seen \in SUBSET Keys /\ Waiting \ seen \in SUBSET Keys
    BY Counters
  <2> QED
    BY <2>1, KeysFinite
<1>5. Retained(store[mode].count, unflushed) - 0 <= Cardinality(Waiting \cap seen)
  BY <1>2, <1>3, <1>4, Counters DEF Retained, FreshCounted
<1>6. RetriesOwed(cycle[s])'
  BY <1>1, <1>5 DEF RetriesOwed, FreshCounted, InFlight
<1>7. FreshCounted'
  <2>1. Waiting \ Waiting = {}
    OBVIOUS
  <2>2. Waiting \subseteq 0 .. next - 1
    BY DEF Waiting, Past, TypeOK
  <2> QED
    BY <1>1, <2>1, <2>2, FS_EmptySet DEF FreshCounted
<1> QED
  BY <1>6, <1>7

\* peek of a payload counted as a resend finds one that was there before.
LEMMA OwedAfterPeek ==
  ASSUME TypeOK, NEW s \in Senders, RetriesOwed(cycle[s]), Peek(s)
  PROVE  RetriesOwed(cycle[s])'
<1> DEFINE c == cycle[s]
<1>1. PICK k \in Waiting : /\ \A j \in Waiting : k <= j
                           /\ cycle' = [cycle EXCEPT ![s] = Peeked(@, k)]
  BY DEF Peek, Oldest, Waiting
<1>2. c.pc = "loop" /\ UNCHANGED <<mode, store>> /\ Waiting' = Waiting
  BY DEF Peek, Waiting
<1>3. /\ c \in Cycle /\ c.retained \in Nat /\ c.sent \in Nat /\ c.carried \in SUBSET Keys
      /\ Waiting \in SUBSET Keys /\ Keys \subseteq Nat
  BY Counters
<1>4. /\ cycle'[s].pc = "posting" /\ cycle'[s].body = k /\ cycle'[s].retry = IsRetry(c)
      /\ cycle'[s].sent = (IF IsRetry(c) THEN c.sent + 1 ELSE c.sent)
      /\ cycle'[s].retained = c.retained /\ cycle'[s].carried = c.carried
  BY <1>1, <1>3 DEF Peeked, TypeOK, Cycle
<1>5. Cardinality(Waiting \cap c.carried) \in Nat
  <2>1. Waiting \cap c.carried \in SUBSET Keys
    BY <1>3
  <2> QED
    BY <2>1, KeysFinite
<1>6. c.retained - c.sent <= Cardinality(Waiting \cap c.carried)
  BY <1>2 DEF RetriesOwed
<1>7. \A x \in Waiting \ c.carried, j \in c.carried : j < x
  BY DEF RetriesOwed
<1>8. CASE c.sent < c.retained
  <2>1. Waiting \cap c.carried # {}
    BY <1>3, <1>5, <1>6, <1>8, FS_EmptySet
  <2>2. PICK j \in Waiting \cap c.carried : TRUE
    BY <2>1
  <2>3. k \in c.carried
    BY <1>1, <1>3, <1>7, <2>2
  <2>4. c.retained - (c.sent + 1) + 1 <= Cardinality(Waiting \cap c.carried)
    BY <1>3, <1>5, <1>6
  <2> QED
    BY <1>2, <1>4, <1>7, <1>8, <2>3, <2>4 DEF RetriesOwed, IsRetry, InFlight
<1>9. CASE ~(c.sent < c.retained)
  <2>1. c.retained <= c.sent
    BY <1>3, <1>9
  <2> QED
    BY <1>2, <1>4, <1>7, <1>9, <2>1 DEF RetriesOwed, IsRetry, InFlight
<1> QED
  BY <1>8, <1>9

\* After a 2xx the loop goes on with one payload, and one resend owed, less; or, when
\* the bolt transaction failed, with the payload still there.
LEMMA OwedAfterPop ==
  ASSUME TypeOK, NEW s \in Senders, RetriesOwed(cycle[s]), cycle[s].pc \in InFlight,
         cycle'[s] = [cycle[s] EXCEPT !.pc = "loop"],
         Waiting' \in {Waiting, Waiting \ {cycle[s].body}}, cycle[s].body \in Waiting
  PROVE  RetriesOwed(cycle[s])'
<1> DEFINE c == cycle[s]
           N == Cardinality(Waiting \cap c.carried)
<1>1. /\ c \in Cycle /\ c.retained \in Nat /\ c.sent \in Nat /\ c.carried \in SUBSET Keys
      /\ Waiting \in SUBSET Keys /\ Keys \subseteq Nat
  BY Counters
<1>2. /\ cycle'[s].pc = "loop" /\ cycle'[s].sent = c.sent
      /\ cycle'[s].retained = c.retained /\ cycle'[s].carried = c.carried
  BY <1>1 DEF Cycle
<1>3. \A x \in Waiting' \ c.carried, j \in c.carried : j < x
  BY DEF RetriesOwed
<1>4. IsFiniteSet(Waiting \cap c.carried) /\ N \in Nat
  <2>1. Waiting \cap c.carried \in SUBSET Keys
    BY <1>1
  <2> QED
    BY <2>1, KeysFinite
<1>5. Waiting' \cap c.carried = Waiting \cap c.carried \/ Waiting' \cap c.carried = (Waiting \cap c.carried) \ {c.body}
  OBVIOUS
<1>6. /\ Cardinality((Waiting \cap c.carried) \ {c.body}) >= N - 1
      /\ Cardinality((Waiting \cap c.carried) \ {c.body}) \in Nat
  <2> DEFINE S == Waiting \cap c.carried
  <2> HIDE DEF S
  <2>1. IsFiniteSet(S \ {c.body}) /\ Cardinality(S \ {c.body}) = IF c.body \in S THEN Cardinality(S) - 1 ELSE Cardinality(S)
    BY <1>4, FS_RemoveElement DEF S
  <2>2. Cardinality(S) = N /\ Cardinality(S \ {c.body}) \in Nat
    BY <2>1, FS_CardinalityType DEF S
  <2>3. Cardinality(S \ {c.body}) >= N - 1
    BY <1>4, <2>1, <2>2
  <2> QED
    BY <2>2, <2>3 DEF S
<1>7. c.retained - c.sent <= N - 1 \/ c.retained - c.sent <= 0
  <2>1. CASE c.retry
    BY <1>1, <1>4, <2>1 DEF RetriesOwed
  <2>2. CASE ~c.retry
    BY <1>1, <2>2 DEF RetriesOwed
  <2> QED
    BY <2>1, <2>2
<1> HIDE DEF N
<1>8. /\ c.retained - c.sent <= N
      /\ c.retained - c.sent <= Cardinality((Waiting \cap c.carried) \ {c.body})
  BY <1>1, <1>4, <1>6, <1>7
<1>9. c.retained - c.sent <= Cardinality(Waiting' \cap c.carried)
  BY <1>5, <1>8 DEF N
<1> QED
  BY <1>2, <1>3, <1>9 DEF RetriesOwed, InFlight

\* With one sender, what incrementRetry counts was retained at an earlier Flush or
\* boot: no payload offered in this send cycle is counted as a resend.
THEOREM FreshNotCounted == ASSUME OneSender PROVE Spec => []FreshIsNotRetry
<1>1. Init => Retries
  <2> SUFFICES ASSUME Init PROVE Retries
    OBVIOUS
  <2>1. Waiting = {} /\ seen = {} /\ unflushed = 0
    BY DEF Init, Waiting, EmptyStore
  <2>2. Waiting \ seen = {}
    BY <2>1
  <2> QED
    BY <2>1, <2>2, FS_EmptySet DEF Init, Retries, FreshCounted, Idle, InFlight
<1>2. IInv /\ IInv' /\ LedgerExact /\ Retries /\ [Next]_vars => Retries'
  <2> SUFFICES ASSUME IInv, IInv', LedgerExact, Retries, [Next]_vars
               PROVE  Retries'
    OBVIOUS
  <2> USE DEF IInv
  <2> DEFINE Quiet(t) == cycle'[t].pc \notin {"loop"} \cup InFlight
  <2>1. ASSUME NEW s \in Senders, Offer(s) PROVE Retries'
    <3>1. Quiet(s)
      BY <2>1 DEF Offer, TypeOK, Cycle, InFlight
    <3> QED
      BY <2>1, <3>1, FreshAfterOffer, OneSender DEF Retries, OneSender
  <2>2. ASSUME NEW s \in Senders, FlushStart(s) PROVE Retries'
    BY <2>2, OwedAtStart, OneSender DEF Retries, OneSender
  <2>3. ASSUME NEW s \in Senders, EndBatch(s) \/ FlushBlocked(s) \/ PeekEmpty(s) \/ ReplyLost(s)
        PROVE  Retries'
    <3>1. Quiet(s)
      <4> USE DEF TypeOK, Cycle, InFlight
      <4>1. CASE EndBatch(s)      BY <4>1 DEF EndBatch
      <4>2. CASE FlushBlocked(s)  BY <4>2 DEF FlushBlocked
      <4>3. CASE PeekEmpty(s)     BY <4>3 DEF PeekEmpty
      <4>4. CASE ReplyLost(s)     BY <4>4, FailedType DEF ReplyLost
      <4> QED
        BY <2>3, <4>1, <4>2, <4>3, <4>4
    <3>2. UNCHANGED <<mode, store, next, unflushed, seen>>
      BY <2>3 DEF EndBatch, FlushBlocked, PeekEmpty, ReplyLost
    <3>3. FreshCounted'
      BY <3>2 DEF Retries, FreshCounted, Waiting
    <3> QED
      BY <3>1, <3>3, OneSender DEF Retries, OneSender
  <2>4. ASSUME NEW s \in Senders, Peek(s) PROVE Retries'
    <3>1. UNCHANGED <<mode, store, next, unflushed, seen>> /\ cycle[s].pc = "loop"
      BY <2>4 DEF Peek
    <3>2. FreshCounted'
      BY <3>1 DEF Retries, FreshCounted, Waiting
    <3> QED
      BY <2>4, <3>1, <3>2, OwedAfterPeek, OneSender DEF Retries, OneSender
  <2>5. ASSUME NEW s \in Senders, ReplyOK(s) \/ ReplyTerminal(s) PROVE Retries'
    <3>1. /\ UNCHANGED <<mode, store, next, unflushed, seen>> /\ cycle[s].pc = "posting"
          /\ cycle'[s].pc \in InFlight /\ cycle'[s].pc # "loop" /\ cycle'[s].carried = cycle[s].carried
          /\ cycle'[s].body = cycle[s].body /\ cycle'[s].retry = cycle[s].retry
          /\ cycle'[s].retained = cycle[s].retained /\ cycle'[s].sent = cycle[s].sent
      BY <2>5 DEF ReplyOK, ReplyTerminal, TypeOK, Cycle, InFlight
    <3>2. FreshCounted' /\ Waiting' = Waiting
      BY <3>1 DEF Retries, FreshCounted, Waiting
    <3>3. RetriesOwed(cycle[s])'
      BY <3>1, <3>2 DEF Retries, RetriesOwed, InFlight
    <3> QED
      BY <3>2, <3>3, OneSender DEF Retries, OneSender
  <2>6. ASSUME NEW s \in Senders, PopSent(s) PROVE Retries'
    <3>1. /\ cycle[s].body \in Waiting /\ store' = [store EXCEPT ![mode] = Popped(@, cycle[s].body)]
      BY <2>6, PopSentHead DEF Waiting
    <3>2. /\ UNCHANGED <<mode, next, unflushed, seen>> /\ cycle[s].pc \in InFlight
          /\ cycle'[s] = [cycle[s] EXCEPT !.pc = "loop"]
      BY <2>6 DEF PopSent, InFlight, TypeOK
    <3>3. Waiting' = Waiting \ {cycle[s].body}
      BY <3>1, <3>2, PoppedFields DEF Waiting, TypeOK
    <3>4. FreshCounted'
      BY <3>2, <3>3, FreshAfterPop DEF Retries
    <3>5. RetriesOwed(cycle[s])'
      BY <3>1, <3>2, <3>3, OwedAfterPop DEF Retries
    <3> QED
      BY <3>4, <3>5, OneSender DEF Retries, OneSender
  <2>7. ASSUME NEW s \in Senders, PopRefused(s) PROVE Retries'
    <3> DEFINE b == cycle[s].body
    <3>1. b \in Waiting /\ store' = [store EXCEPT ![mode] = Dropped(Popped(@, b), b)]
      BY <2>7, PopRefusedHead DEF Waiting
    <3>2. UNCHANGED <<mode, next, unflushed, seen>> /\ Quiet(s)
      BY <2>7, FailedType DEF PopRefused, InFlight, TypeOK
    <3>3. Waiting' = Waiting \ {b}
      BY <3>1, <3>2, PoppedFields, PoppedInStore, DroppedFields DEF Waiting, TypeOK
    <3>4. FreshCounted'
      BY <3>2, <3>3, FreshAfterPop DEF Retries
    <3> QED
      BY <3>2, <3>4, OneSender DEF Retries, OneSender
  <2>8. ASSUME NEW s \in Senders, PopFails(s) PROVE Retries'
    <3>1. UNCHANGED <<mode, store, next, unflushed, seen>> /\ cycle[s].pc \in {"acked", "refused"}
      BY <2>8 DEF PopFails
    <3>2. FreshCounted' /\ Waiting' = Waiting
      BY <3>1 DEF Retries, FreshCounted, Waiting
    <3>3. CASE cycle[s].pc = "refused"
      <4>1. Quiet(s)
        BY <2>8, <3>3, FailedType DEF PopFails, InFlight, TypeOK
      <4> QED
        BY <3>2, <4>1, OneSender DEF Retries, OneSender
    <3>4. CASE cycle[s].pc = "acked"
      <4>1. cycle'[s] = [cycle[s] EXCEPT !.pc = "loop"] /\ cycle[s].pc \in InFlight
        BY <2>8, <3>4 DEF PopFails, TypeOK, InFlight
      <4>2. cycle[s].body \in Waiting
        BY <4>1 DEF HeadHeld, Oldest, Waiting
      <4>3. RetriesOwed(cycle[s])'
        BY <3>2, <4>1, <4>2, OwedAfterPop DEF Retries
      <4> QED
        BY <3>2, <4>3, OneSender DEF Retries, OneSender
    <3> QED
      BY <3>1, <3>3, <3>4
  <2>9. CASE Restart
    <3>1. seen' = Waiting' /\ unflushed' = 0 /\ \A t \in Senders : Quiet(t)
      BY <2>9 DEF Restart, Waiting, Idle, InFlight
    <3>2. Waiting' \ seen' = {} /\ Waiting' \subseteq (0 .. next - 1)'
      BY <3>1 DEF Waiting, Past, TypeOK
    <3>3. Cardinality(Waiting' \ seen') <= unflushed' /\ \A k \in Waiting' \ seen', j \in seen' : j < k
      BY <3>1, <3>2, FS_EmptySet
    <3>4. FreshCounted'
      BY <3>1, <3>2, <3>3 DEF FreshCounted
    <3> QED
      BY <3>1, <3>4 DEF Retries
  <2>10. CASE NoteAuthFailure \/ CooldownEnds \/ UNCHANGED vars
    <3>1. UNCHANGED <<mode, store, next, unflushed, cycle, seen>>
      BY <2>10 DEF NoteAuthFailure, CooldownEnds, vars
    <3> QED
      BY <3>1 DEF Retries, FreshCounted, RetriesOwed, Waiting
  <2> QED
    BY <2>1, <2>2, <2>3, <2>4, <2>5, <2>6, <2>7, <2>8, <2>9, <2>10 DEF Next, Step
<1>3. Retries => FreshIsNotRetry
  BY DEF Retries, RetriesOwed, FreshIsNotRetry
<1> QED
  BY <1>1, <1>2, <1>3, HeadIsHeld, LedgerIsExact, PTL DEF Spec
=============================================================================
