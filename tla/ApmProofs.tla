------------------------------ MODULE ApmProofs ------------------------------
(***************************************************************************)
(* Proofs about ApmPipeline, for any batches, spans, traces, size of the   *)
(* table of security traces and number of attempts of the SDKs;            *)
(* ApmSampler, for any traces, services, sizes of the ring and of the      *)
(* tables, target rate and times; and ApmUsage, for any services, traces   *)
(* and limits. They share no state; the last section is about their        *)
(* composition, MCApm.                                                     *)
(***************************************************************************)
EXTENDS MCApm, FiniteSetTheorems, TLAPS

-----------------------------------------------------------------------------
(* ApmPipeline: the inductive invariant *)

Request == [stage : {"none", "handle", "forward", "reply"}, out : SUBSET Ids, status : {0, 200, 400, 502}]

PipeShapes ==
  /\ sdk \in [Batches -> {"new", "sent", "acked", "refused", "gaveup"}]
  /\ tries \in [Batches -> 0 .. MaxTries] /\ request \in [Batches -> Request]
  /\ open \in [Ids -> Nat] /\ sent \in [Ids -> Nat] /\ details \subseteq Ids
  /\ phase \in {"up", "stopping", "flushed"} /\ due \in [Batches -> SUBSET Ids]

\* The table of security traces keeps its limit.
Table ==
  /\ marked \in [DOMAIN marked -> {"live", "expired"}] /\ DOMAIN marked \subseteq TraceIds
  /\ IsFiniteSet(DOMAIN marked) /\ Cardinality(DOMAIN marked) <= MaxSecurity

\* A trace that was marked while there was room is in the table until it expires: making
\* room for another never drops it.
Retained == owed \subseteq Live(marked)

\* Spans that are counted somewhere, or whose hits a disabled forwarder dropped.
Accounted == {i \in Ids : open[i] + sent[i] > 0 \/ i \in unsent}

\* A batch is worked on exactly while its SDK waits.
Waits == \A b \in Batches : request[b].stage = "none" <=> sdk[b] # "sent"

\* What is owed of a batch is on its way in the request, and once that is answered with
\* success it is at the gateway; the statistics come first.
Secured(b) ==
  /\ form[b] # "good" => due[b] = {}
  /\ request[b].stage = "forward" => due[b] \subseteq request[b].out
  /\ sdk[b] = "acked" \/ (request[b].stage = "reply" /\ request[b].status = 200) => due[b] \subseteq details
  /\ form[b] = "good" /\ (sdk[b] = "acked" \/ request[b].stage \in {"forward", "reply"}) =>
       phase = "flushed" \/ \A s \in SpansOf[b] : s.id \in Accounted

PipeInv == PipeShapes /\ Table /\ Retained /\ Waits /\ \A b \in Batches : Secured(b)

-----------------------------------------------------------------------------
(* Lemmas *)

LEMMA SpanIds ==
  ASSUME NEW b \in Batches, NEW s \in SpansOf[b]
  PROVE  s.id \in Ids /\ s.trace \in TraceIds
<1>1. s \in Spans
  BY DEF Spans
<1> QED
  BY <1>1 DEF Ids, TraceIds

\* securityTrace: the entries that live stay, and the new one is there unless as many
\* live ones as the table holds are.
LEMMA MarkRetains ==
  ASSUME PipeSized, Table, Retained, NEW t \in TraceIds
  PROVE  /\ Mark(marked, t) \in [DOMAIN Mark(marked, t) -> {"live", "expired"}]
         /\ DOMAIN Mark(marked, t) \subseteq TraceIds
         /\ IsFiniteSet(DOMAIN Mark(marked, t)) /\ Cardinality(DOMAIN Mark(marked, t)) <= MaxSecurity
         /\ Owed(t) \subseteq Live(Mark(marked, t))
<1> DEFINE L == Live(marked)
           room == IF Cardinality(DOMAIN marked) >= MaxSecurity THEN [u \in L |-> "live"] ELSE marked
           D == DOMAIN room
<1>1. /\ MaxSecurity \in Nat /\ IsFiniteSet(DOMAIN marked) /\ Cardinality(DOMAIN marked) \in Nat
      /\ DOMAIN marked \subseteq TraceIds /\ marked \in [DOMAIN marked -> {"live", "expired"}]
      /\ Cardinality(DOMAIN marked) <= MaxSecurity
  BY FS_CardinalityType DEF PipeSized, Table
<1>2. L \subseteq DOMAIN marked /\ IsFiniteSet(L) /\ Cardinality(L) \in Nat
      /\ Cardinality(L) <= Cardinality(DOMAIN marked)
  <2>1. L \subseteq DOMAIN marked
    BY DEF Live
  <2> HIDE DEF L
  <2> QED
    BY <1>1, <2>1, FS_Subset, FS_CardinalityType
<1>3. /\ D \subseteq TraceIds /\ IsFiniteSet(D) /\ Cardinality(D) \in Nat /\ Cardinality(D) <= MaxSecurity
      /\ room \in [D -> {"live", "expired"}] /\ L \subseteq D /\ \A u \in L : room[u] = "live"
  <2>1. CASE Cardinality(DOMAIN marked) >= MaxSecurity
    <3>1. room = [u \in L |-> "live"] /\ D = L
      BY <2>1
    <3> HIDE DEF L, room, D
    <3>2. D \subseteq TraceIds /\ IsFiniteSet(D) /\ Cardinality(D) \in Nat /\ Cardinality(D) <= MaxSecurity
      BY <1>1, <1>2, <3>1
    <3> QED
      BY <3>1, <3>2
  <2>2. CASE ~(Cardinality(DOMAIN marked) >= MaxSecurity)
    <3>1. room = marked /\ D = DOMAIN marked
      BY <2>2
    <3>2. \A u \in L : marked[u] = "live"
      BY DEF Live
    <3> HIDE DEF L, room, D
    <3> QED
      BY <1>1, <1>2, <3>1, <3>2
  <2> QED
    BY <2>1, <2>2
<1>4. Mark(marked, t) = IF Cardinality(D) < MaxSecurity
                        THEN [u \in D \cup {t} |-> IF u = t THEN "live" ELSE room[u]] ELSE room
  BY DEF Mark
<1>5. Cardinality(D) >= MaxSecurity => D = L
  BY <1>1
<1>6. owed \subseteq L /\ Owed(t) = IF Cardinality(L \cup {t}) <= MaxSecurity THEN owed \cup {t} ELSE owed
  BY DEF Retained, Owed
<1> HIDE DEF L, room, D
<1>7. CASE Cardinality(D) < MaxSecurity
  <2> DEFINE M == [u \in D \cup {t} |-> IF u = t THEN "live" ELSE room[u]]
  <2>1. Mark(marked, t) = M
    BY <1>4, <1>7
  <2>2. DOMAIN M = D \cup {t} /\ M \in [D \cup {t} -> {"live", "expired"}] /\ D \cup {t} \subseteq TraceIds
    BY <1>3
  <2>3. IsFiniteSet(D \cup {t}) /\ Cardinality(D \cup {t}) <= MaxSecurity
    <3>1. CASE t \in D
      <4>1. D \cup {t} = D
        BY <3>1
      <4> QED
        BY <1>3, <4>1
    <3>2. CASE t \notin D
      <4>1. IsFiniteSet(D \cup {t}) /\ Cardinality(D \cup {t}) = Cardinality(D) + 1
        BY <1>3, <3>2, FS_AddElement
      <4> QED
        BY <1>1, <1>3, <1>7, <4>1
    <3> QED
      BY <3>1, <3>2
  <2>4. L \cup {t} \subseteq Live(M)
    BY <1>3 DEF Live
  <2> HIDE DEF M
  <2> QED
    BY <1>6, <2>1, <2>2, <2>3, <2>4
<1>8. CASE ~(Cardinality(D) < MaxSecurity)
  <2>1. Mark(marked, t) = room /\ DOMAIN room = D
    BY <1>4, <1>8 DEF D
  <2>2. D = L /\ Cardinality(L) >= MaxSecurity
    BY <1>1, <1>3, <1>5, <1>8
  <2>3. L \subseteq Live(room)
    BY <1>3, <2>1 DEF Live
  <2>4. Owed(t) \subseteq L
    <3>1. CASE t \in L
      BY <1>6, <3>1
    <3>2. CASE t \notin L
      <4>1. Cardinality(L \cup {t}) = Cardinality(L) + 1
        BY <1>2, <3>2, FS_AddElement
      <4> QED
        BY <1>1, <1>2, <1>6, <2>2, <4>1
    <3> QED
      BY <3>1, <3>2
  <2> QED
    BY <1>3, <2>1, <2>3, <2>4
<1> QED
  BY <1>7, <1>8

\* A span of a batch is counted at least once when the batch is handled.
LEMMA CountedSpans ==
  ASSUME PipeSized, PipeShapes, NEW b \in Batches
  PROVE  /\ Counted(b) \in [Ids -> Nat] /\ \A i \in Ids : Counted(b)[i] >= open[i]
         /\ \A s \in SpansOf[b] : Counted(b)[s.id] > 0
<1>1. ASSUME NEW i \in Ids
      PROVE  Cardinality({s \in SpansOf[b] : s.id = i}) \in Nat /\ open[i] \in Nat
  <2> DEFINE S == {s \in SpansOf[b] : s.id = i}
  <2>1. IsFiniteSet(SpansOf[b]) /\ S \subseteq SpansOf[b]
    BY DEF PipeSized
  <2> HIDE DEF S
  <2>2. Cardinality(S) \in Nat
    BY <2>1, FS_Subset, FS_CardinalityType
  <2> QED
    BY <2>2 DEF S, PipeShapes
<1>2. ASSUME NEW s \in SpansOf[b] PROVE Cardinality({u \in SpansOf[b] : u.id = s.id}) > 0
  <2> DEFINE S == {u \in SpansOf[b] : u.id = s.id}
  <2>1. IsFiniteSet(SpansOf[b]) /\ S \subseteq SpansOf[b] /\ S # {}
    BY DEF PipeSized
  <2> HIDE DEF S
  <2>2. Cardinality(S) \in Nat /\ Cardinality(S) # 0
    BY <2>1, FS_Subset, FS_CardinalityType, FS_EmptySet
  <2> QED
    BY <2>2 DEF S
<1> QED
  BY <1>1, <1>2, SpanIds DEF Counted

\* A batch that a step leaves alone stays secured.
LEMMA StaysSecured ==
  ASSUME PipeInv, NEW c \in Batches, form' = form, details \subseteq details',
         request'[c] = request[c], sdk'[c] = sdk[c], due'[c] = due[c],
         phase = "flushed" => phase' = "flushed", Accounted \subseteq Accounted' \/ phase' = "flushed"
  PROVE  Secured(c)'
<1>1. Secured(c)
  BY DEF PipeInv
<1>2. form'[c] # "good" => due'[c] = {}
  BY <1>1 DEF Secured
<1>3. request'[c].stage = "forward" => due'[c] \subseteq request'[c].out
  BY <1>1 DEF Secured
<1>4. sdk'[c] = "acked" \/ (request'[c].stage = "reply" /\ request'[c].status = 200) => due'[c] \subseteq details'
  BY <1>1 DEF Secured
<1>5. form'[c] = "good" /\ (sdk'[c] = "acked" \/ request'[c].stage \in {"forward", "reply"}) =>
        phase' = "flushed" \/ \A s \in SpansOf[c] : s.id \in Accounted'
  BY <1>1 DEF Secured
<1> QED
  BY <1>2, <1>3, <1>4, <1>5 DEF Secured

\* One batch moves.
LEMMA BatchMoves ==
  ASSUME PipeInv, NEW b \in Batches, UNCHANGED <<form, phase>>, details \subseteq details', Accounted \subseteq Accounted',
         \A c \in Batches \ {b} : request'[c] = request[c] /\ sdk'[c] = sdk[c] /\ due'[c] = due[c],
         PipeShapes', Table', Retained', request'[b].stage = "none" <=> sdk'[b] # "sent", Secured(b)'
  PROVE  PipeInv'
<1>1. Waits'
  BY DEF Waits, PipeInv
<1>2. ASSUME NEW c \in Batches PROVE Secured(c)'
  <2>1. CASE c = b
    BY <2>1
  <2>2. CASE c # b
    BY <2>2, StaysSecured
  <2> QED
    BY <2>1, <2>2
<1> QED
  BY <1>1, <1>2 DEF PipeInv

\* No batch moves.
LEMMA NoBatchMoves ==
  ASSUME PipeInv, UNCHANGED <<form, details, request, sdk, tries, due>>, phase = "flushed" => phase' = "flushed",
         Accounted \subseteq Accounted' \/ phase' = "flushed", phase' \in {"up", "stopping", "flushed"},
         open' \in [Ids -> Nat], sent' \in [Ids -> Nat], Table', Retained'
  PROVE  PipeInv'
<1>1. PipeShapes' /\ Waits'
  BY DEF PipeInv, PipeShapes, Waits
<1>2. \A c \in Batches : Secured(c)'
  BY StaysSecured
<1> QED
  BY <1>1, <1>2 DEF PipeInv

LEMMA PipeInitInv == ASSUME PipeSized, PipeInit PROVE PipeInv
<1>1. NoRequest \in Request /\ NoRequest.stage = "none"
  BY DEF NoRequest, Request
<1>2. PipeShapes
  BY <1>1 DEF PipeInit, PipeShapes, PipeSized
<1>3. marked = None /\ DOMAIN None = {}
  BY DEF PipeInit, None
<1>4. Table
  BY <1>3, FS_EmptySet DEF Table, None, PipeSized
<1>5. Retained /\ Waits
  BY <1>1 DEF PipeInit, Retained, Waits
<1>6. \A b \in Batches : Secured(b)
  BY <1>1 DEF PipeInit, Secured
<1> QED
  BY <1>2, <1>4, <1>5, <1>6 DEF PipeInv

-----------------------------------------------------------------------------
(* The steps of a batch *)

LEMMA SdkSendsKeeps == ASSUME PipeSized, PipeInv, NEW b \in Batches, SdkSends(b) PROVE PipeInv'
<1> DEFINE r == [request[b] EXCEPT !.stage = "handle"]
<1>1. /\ sdk[b] = "new" /\ sdk' = [sdk EXCEPT ![b] = "sent"] /\ tries' = [tries EXCEPT ![b] = @ + 1]
      /\ tries[b] < MaxTries /\ request' = [request EXCEPT ![b] = r]
      /\ UNCHANGED <<open, sent, unsent, details, marked, form, phase, owed, due>>
  BY DEF SdkSends, stats, switches, PipeInv, PipeShapes
<1>2. r \in Request /\ r.stage = "handle"
  BY DEF PipeInv, PipeShapes, Request
<1> HIDE DEF r
<1>3. PipeShapes'
  <2>1. tries' \in [Batches -> 0 .. MaxTries]
    BY <1>1 DEF PipeInv, PipeShapes, PipeSized
  <2> QED
    BY <1>1, <1>2, <2>1 DEF PipeInv, PipeShapes
<1>4. Table' /\ Retained' /\ Accounted' = Accounted
  BY <1>1 DEF PipeInv, Table, Retained, Live, Accounted
<1>5. request'[b] = r /\ sdk'[b] = "sent" /\ due'[b] = due[b]
  BY <1>1 DEF PipeInv, PipeShapes
<1>6. Secured(b)'
  BY <1>1, <1>2, <1>5 DEF PipeInv, Secured
<1>7. \A c \in Batches \ {b} : request'[c] = request[c] /\ sdk'[c] = sdk[c] /\ due'[c] = due[c]
  BY <1>1 DEF PipeInv, PipeShapes
<1> QED
  BY <1>1, <1>2, <1>3, <1>4, <1>5, <1>6, <1>7, BatchMoves

\* An answer that is not a success promises nothing; neither does one for a batch that
\* owes nothing and was counted.
LEMMA RequestMoves ==
  ASSUME PipeSized, PipeInv, NEW b \in Batches, request[b].stage # "none", NEW r \in Request, r.stage # "none",
         request' = [request EXCEPT ![b] = r],
         UNCHANGED <<sdk, tries, open, sent, unsent, marked, form, phase, owed>>,
         details \subseteq details', details' \subseteq Ids, due' \in [Batches -> SUBSET Ids],
         \A c \in Batches \ {b} : due'[c] = due[c],
         form[b] # "good" => due'[b] = {},
         r.stage = "forward" => due'[b] \subseteq r.out,
         r.stage = "reply" /\ r.status = 200 => due'[b] \subseteq details',
         form[b] = "good" => phase = "flushed" \/ \A s \in SpansOf[b] : s.id \in Accounted
  PROVE  PipeInv'
<1>1. sdk[b] = "sent"
  BY DEF PipeInv, Waits
<1>2. PipeShapes'
  BY DEF PipeInv, PipeShapes
<1>3. Table' /\ Retained' /\ Accounted' = Accounted
  BY DEF PipeInv, Table, Retained, Live, Accounted
<1>4. request'[b] = r
  BY DEF PipeInv, PipeShapes
<1>5. Secured(b)'
  BY <1>1, <1>3, <1>4 DEF Secured
<1>6. \A c \in Batches \ {b} : request'[c] = request[c] /\ sdk'[c] = sdk[c] /\ due'[c] = due[c]
  BY DEF PipeInv, PipeShapes
<1> QED
  BY <1>1, <1>2, <1>3, <1>4, <1>5, <1>6, BatchMoves

LEMMA RefuseKeeps == ASSUME PipeSized, PipeInv, NEW b \in Batches, Refuse(b) PROVE PipeInv'
<1> DEFINE r == [stage |-> "reply", out |-> {}, status |-> 400]
<1>1. r \in Request /\ r.stage = "reply" /\ r.status = 400
  BY DEF Request
<1>2. request' = [request EXCEPT ![b] = r] /\ form[b] # "good"
  BY DEF Refuse, Reply
<1> HIDE DEF r
<1>3. due \in [Batches -> SUBSET Ids] /\ details \subseteq Ids /\ due[b] = {}
  BY <1>2 DEF PipeInv, PipeShapes, Secured
<1>4. /\ UNCHANGED <<sdk, tries, open, sent, unsent, marked, form, phase, owed, details, due>>
      /\ request[b].stage # "none"
  BY DEF Refuse, stats, switches
<1> QED
  BY <1>1, <1>2, <1>3, <1>4, RequestMoves

LEMMA PassOnKeeps == ASSUME PipeSized, PipeInv, NEW b \in Batches, PassOn(b) PROVE PipeInv'
<1> DEFINE r == [stage |-> "forward", out |-> {}, status |-> 0]
<1>1. r \in Request /\ r.stage = "forward"
  BY DEF Request
<1>2. request' = [request EXCEPT ![b] = r] /\ form[b] # "good"
  BY DEF PassOn
<1> HIDE DEF r
<1>3. due \in [Batches -> SUBSET Ids] /\ details \subseteq Ids /\ due[b] = {}
  BY <1>2 DEF PipeInv, PipeShapes, Secured
<1>4. /\ UNCHANGED <<sdk, tries, open, sent, unsent, marked, form, phase, owed, details, due>>
      /\ request[b].stage # "none"
  BY DEF PassOn, stats, switches
<1> QED
  BY <1>1, <1>2, <1>3, <1>4, RequestMoves

\* handleTraces: what is owed of the batch is among what is kept, and all is counted.
LEMMA HandleKeeps == ASSUME PipeSized, PipeInv, NEW b \in Batches, Handle(b) PROVE PipeInv'
<1> DEFINE kept == {s.id : s \in {u \in SpansOf[b] : u.trace \in Decided(b)}}
           owes == {s.id : s \in {u \in SpansOf[b] :
                     \E v \in SpansOf[b] : v.trace = u.trace /\ (v.error \/ v.event \/ v.trace \in owed)}}
           r == IF kept = {} THEN [stage |-> "reply", out |-> {}, status |-> 200]
                ELSE [stage |-> "forward", out |-> kept, status |-> 0]
           t == CHOOSE u \in Events(b) : TRUE
<1>1. /\ request[b].stage = "handle" /\ form[b] = "good" /\ open' = Counted(b)
      /\ request' = [request EXCEPT ![b] = r]
      /\ marked' = IF Events(b) = {} THEN marked ELSE Mark(marked, t)
      /\ owed' = IF Events(b) = {} THEN owed ELSE Owed(t)
      /\ due' = [due EXCEPT ![b] = owes]
      /\ UNCHANGED <<sdk, tries, sent, unsent, details, form, phase>>
  BY DEF Handle, Reply, switches
<1>2. kept \subseteq Ids /\ owes \subseteq Ids
  BY SpanIds
<1>3. owes \subseteq kept
  <2> SUFFICES ASSUME NEW u \in SpansOf[b], NEW v \in SpansOf[b], v.trace = u.trace,
                      v.error \/ v.event \/ v.trace \in owed
               PROVE  u.trace \in Decided(b)
    OBVIOUS
  <2>1. v.trace \in owed => v.trace \in Live(marked)
    BY DEF PipeInv, Retained
  <2> QED
    BY <2>1 DEF Decided
<1>4. /\ r \in Request /\ (r.stage = "forward" => r.out = kept) /\ (r.stage = "reply" => kept = {})
      /\ r.stage \in {"forward", "reply"}
  BY <1>2 DEF Request
<1> HIDE DEF kept, owes, r
<1>5. /\ Counted(b) \in [Ids -> Nat] /\ \A i \in Ids : Counted(b)[i] >= open[i]
      /\ \A s \in SpansOf[b] : Counted(b)[s.id] > 0
  BY CountedSpans DEF PipeInv
<1>6. Accounted \subseteq Accounted' /\ \A s \in SpansOf[b] : s.id \in Accounted'
  <2>1. open \in [Ids -> Nat] /\ sent \in [Ids -> Nat]
    BY DEF PipeInv, PipeShapes
  <2>2. ASSUME NEW i \in Accounted PROVE i \in Accounted'
    BY <1>1, <1>5, <2>1 DEF Accounted
  <2>3. ASSUME NEW s \in SpansOf[b] PROVE s.id \in Accounted'
    BY <1>1, <1>5, <2>1, SpanIds DEF Accounted
  <2> QED
    BY <2>2, <2>3
<1>7. Table' /\ Retained'
  <2>1. CASE Events(b) = {}
    BY <1>1, <2>1 DEF PipeInv, Table, Retained, Live
  <2>2. CASE Events(b) # {}
    <3>1. t \in Events(b)
      BY <2>2
    <3>2. t \in TraceIds
      BY <3>1, SpanIds DEF Events
    <3> HIDE DEF t
    <3>3. marked' = Mark(marked, t) /\ owed' = Owed(t)
      BY <1>1, <2>2
    <3>4. /\ Mark(marked, t) \in [DOMAIN Mark(marked, t) -> {"live", "expired"}]
          /\ DOMAIN Mark(marked, t) \subseteq TraceIds
          /\ IsFiniteSet(DOMAIN Mark(marked, t)) /\ Cardinality(DOMAIN Mark(marked, t)) <= MaxSecurity
          /\ Owed(t) \subseteq Live(Mark(marked, t))
      BY <3>2, MarkRetains DEF PipeInv
    <3>5. Live(marked)' = Live(Mark(marked, t))
      BY <3>3 DEF Live
    <3> QED
      BY <3>3, <3>4, <3>5 DEF Table, Retained
  <2> QED
    BY <2>1, <2>2
<1>8. PipeShapes'
  BY <1>1, <1>2, <1>4, <1>5 DEF PipeInv, PipeShapes
<1>9. request'[b] = r /\ due'[b] = owes /\ sdk'[b] = "sent"
  BY <1>1 DEF PipeInv, PipeShapes, Waits
<1>10. Secured(b)'
  <2>1. r.stage = "forward" => owes \subseteq r.out
    BY <1>3, <1>4
  <2>2. r.stage = "reply" => owes = {}
    BY <1>3, <1>4
  <2> QED
    BY <1>1, <1>6, <1>9, <2>1, <2>2 DEF Secured
<1>11. \A c \in Batches \ {b} : request'[c] = request[c] /\ sdk'[c] = sdk[c] /\ due'[c] = due[c]
  BY <1>1 DEF PipeInv, PipeShapes
<1> QED
  BY <1>1, <1>4, <1>6, <1>7, <1>8, <1>9, <1>10, <1>11, BatchMoves

\* PostRaw: a success follows the arrival of what the request carries, or a signal that
\* is switched off, which is owed nothing.
LEMMA ForwardKeeps ==
  ASSUME PipeSized, PipeInv, NEW b \in Batches, NEW arrives \in BOOLEAN, NEW answered \in BOOLEAN,
         Forward(b, arrives, answered)
  PROVE  PipeInv'
<1> DEFINE Replied(status) == [stage |-> "reply", out |-> {}, status |-> status]
<1>1. \A status \in {200, 502} :
        Replied(status) \in Request /\ Replied(status).stage = "reply" /\ Replied(status).status = status
  BY DEF Request
<1>2. /\ request[b].stage = "forward" /\ request[b].stage # "none"
      /\ UNCHANGED <<sdk, tries, open, sent, unsent, marked, form, phase, owed>>
  BY DEF Forward, stats, switches
<1>3. /\ due \in [Batches -> SUBSET Ids] /\ details \subseteq Ids /\ request[b].out \subseteq Ids
      /\ due[b] \subseteq request[b].out /\ (form[b] # "good" => due[b] = {})
      /\ form[b] = "good" => phase = "flushed" \/ \A s \in SpansOf[b] : s.id \in Accounted
  BY <1>2 DEF PipeInv, PipeShapes, Request, Secured
<1>4. CASE ~allowed
  <2>1. /\ request' = [request EXCEPT ![b] = Replied(200)] /\ details' = details
        /\ due' = [due EXCEPT ![b] = {}]
    BY <1>4 DEF Forward, Reply
  <2> HIDE DEF Replied
  <2>2. due' \in [Batches -> SUBSET Ids] /\ due'[b] = {} /\ \A c \in Batches \ {b} : due'[c] = due[c]
    BY <1>3, <2>1
  <2>3. Replied(200) \in Request /\ Replied(200).stage = "reply" /\ due'[b] \subseteq details'
    BY <1>1, <2>2
  <2> QED
    BY <1>2, <1>3, <2>1, <2>2, <2>3, RequestMoves
<1>5. CASE allowed
  <2> DEFINE status == IF answered THEN 200 ELSE 502
  <2>1. /\ request' = [request EXCEPT ![b] = Replied(status)] /\ due' = due /\ (answered => arrives)
        /\ details' = IF arrives THEN details \cup request[b].out ELSE details
    BY <1>5 DEF Forward, Reply
  <2>2. status \in {200, 502} /\ (status = 200 => answered)
    OBVIOUS
  <2> HIDE DEF Replied, status
  <2>3. /\ details \subseteq details' /\ details' \subseteq Ids
        /\ status = 200 => due'[b] \subseteq details'
    BY <1>3, <2>1, <2>2
  <2>4. Replied(status) \in Request /\ Replied(status).stage = "reply" /\ Replied(status).status = status
    BY <1>1, <2>2
  <2> QED
    BY <1>2, <1>3, <2>1, <2>3, <2>4, RequestMoves
<1> QED
  BY <1>4, <1>5

\* The SDK takes a batch as delivered only for a success.
LEMMA AnsweredKeeps ==
  ASSUME PipeSized, PipeInv, NEW b \in Batches, NEW missed \in BOOLEAN, Answered(b, missed) PROVE PipeInv'
<1> DEFINE e == CASE missed \/ request[b].status = 502 -> IF tries[b] < MaxTries THEN "new" ELSE "gaveup"
                  [] ~missed /\ request[b].status = 200 -> "acked"
                  [] OTHER -> "refused"
<1>1. /\ request[b].stage = "reply" /\ request' = [request EXCEPT ![b] = NoRequest]
      /\ sdk' = [sdk EXCEPT ![b] = e]
      /\ UNCHANGED <<tries, open, sent, unsent, details, marked, form, phase, owed, due>>
  BY DEF Answered, stats, switches
<1>2. /\ e \in {"new", "acked", "refused", "gaveup"}
      /\ e = "acked" => request[b].status = 200
  <2>1. CASE missed \/ request[b].status = 502
    <3>1. e \in {"new", "gaveup"}
      BY <2>1
    <3> QED
      BY <3>1
  <2>2. CASE ~(missed \/ request[b].status = 502)
    BY <2>2
  <2> QED
    BY <2>1, <2>2
<1> HIDE DEF e
<1>3. NoRequest \in Request /\ NoRequest.stage = "none"
  BY DEF NoRequest, Request
<1>4. PipeShapes'
  BY <1>1, <1>2, <1>3 DEF PipeInv, PipeShapes
<1>5. Table' /\ Retained' /\ Accounted' = Accounted
  BY <1>1 DEF PipeInv, Table, Retained, Live, Accounted
<1>6. request'[b] = NoRequest /\ sdk'[b] = e /\ due'[b] = due[b]
  BY <1>1 DEF PipeInv, PipeShapes
<1>7. Secured(b)'
  <2>1. Secured(b)
    BY DEF PipeInv
  <2> QED
    BY <1>1, <1>2, <1>3, <1>5, <1>6, <2>1 DEF Secured
<1>8. \A c \in Batches \ {b} : request'[c] = request[c] /\ sdk'[c] = sdk[c] /\ due'[c] = due[c]
  BY <1>1 DEF PipeInv, PipeShapes
<1> QED
  BY <1>1, <1>2, <1>3, <1>4, <1>5, <1>6, <1>7, <1>8, BatchMoves

-----------------------------------------------------------------------------
(* The other steps *)

LEMMA SecurityReportKeeps == ASSUME PipeSized, PipeInv, NEW t \in TraceIds, SecurityReport(t) PROVE PipeInv'
<1>1. /\ marked' = Mark(marked, t) /\ owed' = Owed(t)
      /\ UNCHANGED <<sdk, tries, request, open, sent, unsent, details, phase, form, due>>
  BY DEF SecurityReport, stats, switches
<1>2. /\ Mark(marked, t) \in [DOMAIN Mark(marked, t) -> {"live", "expired"}]
      /\ DOMAIN Mark(marked, t) \subseteq TraceIds
      /\ IsFiniteSet(DOMAIN Mark(marked, t)) /\ Cardinality(DOMAIN Mark(marked, t)) <= MaxSecurity
      /\ Owed(t) \subseteq Live(Mark(marked, t))
  BY MarkRetains DEF PipeInv
<1>3. Live(marked)' = Live(Mark(marked, t))
  BY <1>1 DEF Live
<1>4. Table' /\ Retained'
  BY <1>1, <1>2, <1>3 DEF Table, Retained
<1>5. Accounted' = Accounted
  BY <1>1 DEF Accounted
<1>6. open \in [Ids -> Nat] /\ sent \in [Ids -> Nat] /\ phase \in {"up", "stopping", "flushed"}
  BY DEF PipeInv, PipeShapes
<1> QED
  BY <1>1, <1>4, <1>5, <1>6, NoBatchMoves

LEMMA ExpireKeeps == ASSUME PipeSized, PipeInv, NEW t \in TraceIds, Expire(t) PROVE PipeInv'
<1>1. /\ marked' = [marked EXCEPT ![t] = "expired"] /\ owed' = owed \ {t} /\ t \in DOMAIN marked
      /\ UNCHANGED <<sdk, tries, request, open, sent, unsent, details, phase, form, due>>
  BY DEF Expire, stats, switches, Live
<1>2. DOMAIN marked' = DOMAIN marked
  BY <1>1
<1>3. marked' \in [DOMAIN marked -> {"live", "expired"}] /\ Live(marked)' = Live(marked) \ {t}
  BY <1>1, <1>2 DEF PipeInv, Table, Live
<1>4. Table' /\ Retained'
  BY <1>1, <1>2, <1>3 DEF PipeInv, Table, Retained
<1>5. Accounted' = Accounted
  BY <1>1 DEF Accounted
<1>6. open \in [Ids -> Nat] /\ sent \in [Ids -> Nat] /\ phase \in {"up", "stopping", "flushed"}
  BY DEF PipeInv, PipeShapes
<1> QED
  BY <1>1, <1>4, <1>5, <1>6, NoBatchMoves

LEMMA ForgetKeeps == ASSUME PipeSized, PipeInv, NEW t \in TraceIds, Forget(t) PROVE PipeInv'
<1> DEFINE D == DOMAIN marked \ {t}
<1>1. /\ marked' = [u \in D |-> marked[u]] /\ t \in DOMAIN marked /\ marked[t] = "expired"
      /\ UNCHANGED <<sdk, tries, request, open, sent, unsent, details, phase, form, owed, due>>
  BY DEF Forget, stats, switches
<1>2. DOMAIN marked' = D
  BY <1>1
<1>3. marked' \in [D -> {"live", "expired"}] /\ Live(marked)' = Live(marked)
  BY <1>1, <1>2 DEF PipeInv, Table, Live
<1>4. IsFiniteSet(D) /\ Cardinality(D) <= MaxSecurity
  <2>1. /\ IsFiniteSet(DOMAIN marked) /\ Cardinality(DOMAIN marked) <= MaxSecurity
        /\ D \subseteq DOMAIN marked /\ MaxSecurity \in Nat
    BY DEF PipeInv, Table, PipeSized
  <2> HIDE DEF D
  <2> QED
    BY <2>1, FS_Subset, FS_CardinalityType
<1>5. D \subseteq TraceIds
  BY DEF PipeInv, Table
<1> HIDE DEF D
<1>6. Table' /\ Retained'
  BY <1>1, <1>2, <1>3, <1>4, <1>5 DEF PipeInv, Table, Retained
<1>7. Accounted' = Accounted
  BY <1>1 DEF Accounted
<1>8. open \in [Ids -> Nat] /\ sent \in [Ids -> Nat] /\ phase \in {"up", "stopping", "flushed"}
  BY DEF PipeInv, PipeShapes
<1> QED
  BY <1>1, <1>6, <1>7, <1>8, NoBatchMoves

\* A flush moves the hits and loses none that it does not note.
LEMMA EmptiedAccounts ==
  ASSUME PipeInv, Emptied
  PROVE  open' \in [Ids -> Nat] /\ sent' \in [Ids -> Nat] /\ Accounted \subseteq Accounted'
<1>1. open \in [Ids -> Nat] /\ sent \in [Ids -> Nat]
  BY DEF PipeInv, PipeShapes
<1>2. open' = [i \in Ids |-> 0] /\ open' \in [Ids -> Nat]
  BY DEF Emptied
<1>3. CASE statsOn
  <2>1. sent' = [i \in Ids |-> sent[i] + open[i]] /\ unsent' = unsent
    BY <1>3 DEF Emptied
  <2>2. sent' \in [Ids -> Nat]
    BY <1>1, <2>1
  <2>3. ASSUME NEW i \in Accounted PROVE i \in Accounted'
    <3>1. i \in Ids /\ (open[i] + sent[i] > 0 \/ i \in unsent)
      BY <2>3 DEF Accounted
    <3>2. open'[i] = 0 /\ sent'[i] = sent[i] + open[i] /\ open[i] \in Nat /\ sent[i] \in Nat
      BY <1>1, <1>2, <2>1, <3>1
    <3>3. open'[i] + sent'[i] > 0 \/ i \in unsent'
      BY <2>1, <3>1, <3>2
    <3> QED
      BY <3>1, <3>3 DEF Accounted
  <2> QED
    BY <1>2, <2>2, <2>3
<1>4. CASE ~statsOn
  <2>1. sent' = sent /\ unsent' = unsent \cup {i \in Ids : open[i] > 0}
    BY <1>4 DEF Emptied
  <2>2. ASSUME NEW i \in Accounted PROVE i \in Accounted'
    <3>1. i \in Ids /\ (open[i] + sent[i] > 0 \/ i \in unsent)
      BY <2>2 DEF Accounted
    <3>2. open'[i] = 0 /\ sent'[i] = sent[i] /\ open[i] \in Nat /\ sent[i] \in Nat
      BY <1>1, <1>2, <2>1, <3>1
    <3>3. open'[i] + sent'[i] > 0 \/ i \in unsent'
      BY <2>1, <3>1, <3>2
    <3> QED
      BY <3>1, <3>3 DEF Accounted
  <2> QED
    BY <1>1, <1>2, <2>1, <2>2
<1> QED
  BY <1>3, <1>4

LEMMA FlushKeeps == ASSUME PipeSized, PipeInv, FlushStats \/ FinalFlush PROVE PipeInv'
<1>1. /\ Emptied /\ UNCHANGED <<sdk, tries, request, details, marked, form, owed, due>>
      /\ (phase' = phase \/ phase' = "flushed")
  BY DEF FlushStats, FinalFlush, switches
<1>2. open' \in [Ids -> Nat] /\ sent' \in [Ids -> Nat] /\ Accounted \subseteq Accounted'
  BY <1>1, EmptiedAccounts
<1>3. Table' /\ Retained'
  BY <1>1 DEF PipeInv, Table, Retained, Live
<1>4. phase \in {"up", "stopping", "flushed"}
  BY DEF PipeInv, PipeShapes
<1> QED
  BY <1>1, <1>2, <1>3, <1>4, NoBatchMoves

LEMMA SwitchesKeep ==
  ASSUME PipeSized, PipeInv, Shutdown \/ UpdateRules \/ SwitchModule \/ UNCHANGED pipeVars PROVE PipeInv'
<1>1. /\ UNCHANGED <<sdk, tries, request, open, sent, unsent, details, marked, form, owed, due>>
      /\ phase' = phase \/ (phase = "up" /\ phase' = "stopping")
  BY DEF Shutdown, UpdateRules, SwitchModule, pipeVars, stats
<1>2. Table' /\ Retained'
  BY <1>1 DEF PipeInv, Table, Retained, Live
<1>3. Accounted' = Accounted
  BY <1>1 DEF Accounted
<1>4. open \in [Ids -> Nat] /\ sent \in [Ids -> Nat] /\ phase \in {"up", "stopping", "flushed"}
  BY DEF PipeInv, PipeShapes
<1> QED
  BY <1>1, <1>2, <1>3, <1>4, NoBatchMoves

LEMMA PipeStepInv == ASSUME PipeSized, PipeInv, [PipeNext]_pipeVars PROVE PipeInv'
<1>1. ASSUME NEW b \in Batches,
             SdkSends(b) \/ Refuse(b) \/ PassOn(b) \/ Handle(b)
      PROVE  PipeInv'
  BY <1>1, SdkSendsKeeps, RefuseKeeps, PassOnKeeps, HandleKeeps
<1>2. ASSUME NEW b \in Batches,
             Forward(b, TRUE, TRUE) \/ Forward(b, TRUE, FALSE) \/ Forward(b, FALSE, FALSE)
      PROVE  PipeInv'
  BY <1>2, ForwardKeeps, TRUE \in BOOLEAN, FALSE \in BOOLEAN
<1>3. ASSUME NEW b \in Batches, Answered(b, TRUE) \/ Answered(b, FALSE) PROVE PipeInv'
  BY <1>3, AnsweredKeeps, TRUE \in BOOLEAN, FALSE \in BOOLEAN
<1>4. ASSUME NEW t \in TraceIds, SecurityReport(t) \/ Expire(t) \/ Forget(t) PROVE PipeInv'
  BY <1>4, SecurityReportKeeps, ExpireKeeps, ForgetKeeps
<1>5. CASE FlushStats \/ FinalFlush
  BY <1>5, FlushKeeps
<1>6. CASE Shutdown \/ UpdateRules \/ SwitchModule \/ UNCHANGED pipeVars
  BY <1>6, SwitchesKeep
<1> QED
  BY <1>1, <1>2, <1>3, <1>4, <1>5, <1>6 DEF PipeNext

-----------------------------------------------------------------------------
(* Theorems *)

\* The inductive invariant holds in every run of the pipeline.
THEOREM PipeInvariant == PipeSpec => []PipeInv
<1> USE PipelineAssumption
<1>1. PipeInit => PipeInv
  BY PipeInitInv
<1>2. PipeInv /\ [PipeNext]_pipeVars => PipeInv'
  BY PipeStepInv
<1> QED
  BY <1>1, <1>2, PTL DEF PipeSpec

\* The state has its types; among them, the table of security traces never outgrows
\* its limit, whoever marks traces in it and whatever it has to make room for.
THEOREM TableBounded == PipeSpec => []PipeTypeOK
<1> USE PipelineAssumption
<1>1. PipeInv => PipeTypeOK
  BY DEF PipeInv, PipeShapes, Table, PipeTypeOK
<1> QED
  BY <1>1, PipeInvariant, PTL

\* An acknowledged batch is safe, for any number of batches, attempts, lost answers,
\* switches of the module, flushes and a shutdown at any moment: what its errors and
\* security events owe the gateway is there, and each of its spans was counted.
THEOREM AckedSafe == PipeSpec => []AckedIsSafe
<1> USE PipelineAssumption
<1>1. PipeInv => AckedIsSafe
  <2> SUFFICES ASSUME PipeInv, NEW b \in Batches, sdk[b] = "acked"
               PROVE  /\ due[b] \subseteq details
                      /\ form[b] = "good" =>
                           \A s \in SpansOf[b] :
                             open[s.id] + sent[s.id] > 0 \/ s.id \in unsent \/ phase = "flushed"
    BY DEF AckedIsSafe
  <2>1. Secured(b)
    BY DEF PipeInv
  <2> QED
    BY <2>1 DEF Secured, Accounted
<1> QED
  BY <1>1, PipeInvariant, PTL

-----------------------------------------------------------------------------
(* ApmSampler: the inductive invariant *)

Decision == [keep : BOOLEAN, at : Int, seq : Int]
Entry == [id : Traces \cup {"none"}, seq : Int]

SamplerShapes ==
  /\ policy \in [mode : Modes, rate : Rates] /\ DOMAIN scopeRates \subseteq Scopes /\ time \in 0 .. MaxTime
  /\ DOMAIN decisions \subseteq Traces /\ decisions \in [DOMAIN decisions -> Decision]
  /\ ring \in [0 .. RingSize - 1 -> Entry] /\ seq \in Nat
  /\ window \in Int /\ tokens \in 0 .. Burst /\ tokenTime \in Int /\ tokenStart \in Int /\ granted \in Nat

\* Tokens that were not spent are still owed: what was granted and what is left never
\* exceed the burst and what time has refilled up to the last refill.
Ledger ==
  /\ window = -1 => granted = 0
  /\ window # -1 => /\ granted + tokens <= Burst + Target * (tokenTime - tokenStart)
                    /\ tokenTime <= time

\* Every decision that is remembered has its slot, so the ring bounds the table.
Held == \A t \in DOMAIN decisions : \E i \in DOMAIN ring : ring[i] = [id |-> t, seq |-> decisions[t].seq]

\* A slot holds the decision of one turn of the ring: its number is that of the slot.
Turns ==
  \A i \in DOMAIN ring :
    ring[i].id # "none" => ring[i].seq \in Nat /\ ring[i].seq < seq /\ ring[i].seq % RingSize = i

\* Only the shared entry for the rest comes on top of the limit.
Limited(entries, limit) == IsFiniteSet(entries) /\ Cardinality(entries \ {Overflow}) <= limit

Tables ==
  /\ DOMAIN traffic \subseteq Scopes \cup {Overflow} /\ Limited(DOMAIN traffic, MaxServices)
  /\ DOMAIN rare \subseteq Scopes \cup {Overflow} /\ Limited(DOMAIN rare, MaxRare)

SamplerInv == SamplerShapes /\ Ledger /\ Held /\ Turns /\ Tables

-----------------------------------------------------------------------------
(* Lemmas *)

LEMMA BurstNat == ASSUME SamplerSized PROVE Burst \in Nat /\ Burst > 0 /\ Target \in Nat
BY DEF SamplerSized, Burst

\* What is refilled in two spans of time is what is refilled in both together.
LEMMA Distribute ==
  ASSUME NEW a \in Int, NEW x \in Int, NEW y \in Int, NEW z \in Int
  PROVE  a * (y - x) + a * (z - y) = a * (z - x) /\ (z - y) * a = a * (z - y) /\ a * (y - x) \in Int
OBVIOUS

LEMMA ProductNat ==
  ASSUME NEW a \in Nat, NEW x \in Nat
  PROVE  a * x \in Nat
OBVIOUS

\* The next slot is one of the ring.
LEMMA Slot == ASSUME SamplerSized, NEW n \in Nat PROVE n % RingSize \in 0 .. RingSize - 1
BY DEF SamplerSized

\* Two decisions of the same slot are a turn of the ring apart.
LEMMA FullTurn ==
  ASSUME SamplerSized, NEW m \in Nat, NEW n \in Nat, m < n, m % RingSize = n % RingSize
  PROVE  n - m >= RingSize
<1> DEFINE R == RingSize
           p == m \div R
           q == n \div R
           s == n % R
<1>1. R \in Nat /\ R > 0
  BY DEF SamplerSized
<1>2. p \in Int /\ q \in Int /\ s \in Int /\ m = R * p + s /\ n = R * q + s
  BY <1>1
<1> HIDE DEF p, q, s, R
<1>3. n - m = R * (q - p)
  BY <1>1, <1>2
<1>4. q - p >= 1
  <2> SUFFICES ASSUME q - p <= 0 PROVE FALSE
    BY <1>2
  <2>1. R * (q - p) <= 0
    BY <1>1, <1>2
  <2> QED
    BY <1>3, <2>1
<1>5. R * (q - p) >= R
  BY <1>1, <1>2, <1>4
<1> QED
  BY <1>3, <1>5 DEF R

\* A table of the limit and the shared entry is one larger than the limit.
LEMMA LimitedCardinality ==
  ASSUME NEW D, NEW limit \in Nat, Limited(D, limit)
  PROVE  Cardinality(D) <= limit + 1
<1>1. IsFiniteSet(D) /\ Cardinality(D \ {Overflow}) <= limit
  BY DEF Limited
<1>2. CASE Overflow \in D
  <2>1. Cardinality(D \ {Overflow}) = Cardinality(D) - 1 /\ Cardinality(D) \in Nat
    BY <1>1, <1>2, FS_RemoveElement, FS_CardinalityType
  <2> QED
    BY <1>1, <2>1
<1>3. CASE Overflow \notin D
  <2>1. D \ {Overflow} = D
    BY <1>3
  <2>2. Cardinality(D) \in Nat
    BY <1>1, FS_CardinalityType
  <2> QED
    BY <1>1, <2>1, <2>2
<1> QED
  BY <1>2, <1>3

\* A new entry needs room, unless it is the shared one.
LEMMA LimitedPut ==
  ASSUME NEW D, NEW limit \in Nat, Limited(D, limit), NEW k,
         k \notin D /\ k # Overflow => Cardinality(D) < limit
  PROVE  Limited(D \cup {k}, limit)
<1>1. IsFiniteSet(D) /\ Cardinality(D \ {Overflow}) <= limit
  BY DEF Limited
<1>2. IsFiniteSet(D \cup {k}) /\ Cardinality(D) \in Nat
  BY <1>1, FS_AddElement, FS_CardinalityType
<1>3. CASE k \in D
  <2>1. D \cup {k} = D
    BY <1>3
  <2> QED
    BY <2>1
<1>4. CASE k = Overflow
  <2>1. (D \cup {k}) \ {Overflow} = D \ {Overflow}
    BY <1>4
  <2> QED
    BY <1>1, <1>2, <2>1 DEF Limited
<1>5. CASE k \notin D /\ k # Overflow
  <2> DEFINE E == D \cup {k}
  <2>1. Cardinality(E) = Cardinality(D) + 1 /\ IsFiniteSet(E)
    BY <1>1, <1>2, <1>5, FS_AddElement
  <2> HIDE DEF E
  <2>2. Cardinality(E \ {Overflow}) <= Cardinality(E) /\ Cardinality(E \ {Overflow}) \in Nat
    <3>1. E \ {Overflow} \subseteq E
      OBVIOUS
    <3> QED
      BY <2>1, <3>1, FS_Subset, FS_CardinalityType
  <2> QED
    BY <1>2, <1>5, <2>1, <2>2 DEF Limited, E
<1> QED
  BY <1>3, <1>4, <1>5

\* Forgetting entries makes room.
LEMMA LimitedSubset ==
  ASSUME NEW D, NEW limit \in Nat, Limited(D, limit), NEW E, E \subseteq D
  PROVE  Limited(E, limit)
<1>1. IsFiniteSet(D) /\ Cardinality(D \ {Overflow}) <= limit
  BY DEF Limited
<1>2. IsFiniteSet(E)
  BY <1>1, FS_Subset
<1>3. E \ {Overflow} \subseteq D \ {Overflow} /\ D \ {Overflow} \subseteq D
  OBVIOUS
<1>4. IsFiniteSet(D \ {Overflow})
  BY <1>1, <1>3, FS_Subset
<1>5. /\ Cardinality(E \ {Overflow}) <= Cardinality(D \ {Overflow}) /\ Cardinality(D \ {Overflow}) \in Nat
      /\ Cardinality(E \ {Overflow}) \in Nat
  BY <1>3, <1>4, FS_Subset, FS_CardinalityType
<1> QED
  BY <1>1, <1>2, <1>5 DEF Limited

-----------------------------------------------------------------------------
(* Decisions and their ring *)

\* The parts of the invariant that a decision touches.
Memory ==
  /\ DOMAIN decisions \subseteq Traces /\ decisions \in [DOMAIN decisions -> Decision]
  /\ ring \in [0 .. RingSize - 1 -> Entry] /\ seq \in Nat
  /\ Held /\ Turns

LEMMA RememberKeeps ==
  ASSUME SamplerSized, SamplerInv, NEW t \in Traces, NEW keep \in BOOLEAN, Remember(t, keep)
  PROVE  Memory'
<1> DEFINE slot == seq % RingSize
           old == ring[slot]
           d == [keep |-> keep, at |-> time, seq |-> seq]
           e == [id |-> t, seq |-> seq]
           kept == DOMAIN decisions \ Evicted
<1>1. /\ seq \in Nat /\ ring \in [0 .. RingSize - 1 -> Entry] /\ slot \in 0 .. RingSize - 1
      /\ DOMAIN decisions \subseteq Traces /\ decisions \in [DOMAIN decisions -> Decision]
      /\ time \in Int /\ DOMAIN ring = 0 .. RingSize - 1
  BY Slot DEF SamplerInv, SamplerShapes, SamplerSized
<1>2. /\ seq' = seq + 1 /\ ring' = [ring EXCEPT ![slot] = e]
      /\ decisions' = [u \in kept \cup {t} |-> IF u = t THEN d ELSE decisions[u]]
  <2>1. /\ seq' = seq + 1 /\ ring' = [ring EXCEPT ![slot] = e]
        /\ decisions' = Put([u \in kept |-> decisions[u]], t, d)
    BY DEF Remember
  <2> HIDE DEF kept, d
  <2> QED
    BY <2>1 DEF Put
<1>3. d \in Decision /\ d.seq = seq /\ e \in Entry /\ e.id = t /\ e.seq = seq /\ t # "none"
  BY <1>1 DEF Decision, Entry, SamplerSized
<1>4. Evicted = IF old.id \in DOMAIN decisions /\ decisions[old.id].seq = old.seq THEN {old.id} ELSE {}
  BY DEF Evicted
<1> HIDE DEF slot, d, e
<1>5. seq' \in Nat /\ ring' \in [0 .. RingSize - 1 -> Entry] /\ DOMAIN ring' = 0 .. RingSize - 1
  BY <1>1, <1>2, <1>3
<1>6. /\ DOMAIN decisions' = kept \cup {t} /\ DOMAIN decisions' \subseteq Traces
      /\ decisions' \in [DOMAIN decisions' -> Decision]
  BY <1>1, <1>2, <1>3
<1>7. Held'
  <2> SUFFICES ASSUME NEW u \in DOMAIN decisions'
               PROVE  \E i \in DOMAIN ring' : ring'[i] = [id |-> u, seq |-> decisions'[u].seq]
    BY DEF Held
  <2>1. CASE u = t
    <3>1. decisions'[u].seq = seq /\ ring'[slot] = e
      BY <1>1, <1>2, <1>3, <1>6, <2>1
    <3>2. ring'[slot] = [id |-> u, seq |-> decisions'[u].seq]
      BY <2>1, <3>1 DEF e
    <3> QED
      BY <1>1, <1>5, <3>2
  <2>2. CASE u # t
    <3>1. u \in DOMAIN decisions /\ u \notin Evicted /\ decisions'[u] = decisions[u]
      BY <1>2, <1>6, <2>2
    <3>2. PICK i \in DOMAIN ring : ring[i] = [id |-> u, seq |-> decisions[u].seq]
      BY <3>1 DEF SamplerInv, Held
    <3>3. i # slot
      <4> SUFFICES ASSUME i = slot PROVE FALSE
        OBVIOUS
      <4>1. old.id = u /\ old.seq = decisions[u].seq
        BY <3>2
      <4> QED
        BY <1>4, <3>1, <4>1
    <3>4. ring'[i] = ring[i]
      BY <1>1, <1>2, <3>3
    <3> QED
      BY <1>1, <1>5, <3>1, <3>2, <3>4
  <2> QED
    BY <2>1, <2>2
<1>8. Turns'
  <2> SUFFICES ASSUME NEW i \in 0 .. RingSize - 1, ring'[i].id # "none"
               PROVE  ring'[i].seq \in Nat /\ ring'[i].seq < seq' /\ ring'[i].seq % RingSize = i
    BY <1>5 DEF Turns
  <2>1. CASE i = slot
    <3>1. ring'[i].seq = seq
      BY <1>1, <1>2, <1>3, <2>1
    <3> QED
      BY <1>1, <1>2, <2>1, <3>1 DEF slot
  <2>2. CASE i # slot
    <3>1. ring'[i] = ring[i]
      BY <1>1, <1>2, <2>2
    <3>2. ring[i].seq \in Nat /\ ring[i].seq < seq /\ ring[i].seq % RingSize = i
      BY <1>1, <3>1 DEF SamplerInv, Turns
    <3>3. ring[i].seq < seq'
      BY <1>1, <1>2, <3>2
    <3> QED
      BY <3>1, <3>2, <3>3
  <2> QED
    BY <2>1, <2>2
<1> QED
  BY <1>5, <1>6, <1>7, <1>8 DEF Memory

\* A decision taken again keeps its slot.
LEMMA AgainKeeps ==
  ASSUME SamplerSized, SamplerInv, NEW t \in DOMAIN decisions, NEW b \in BOOLEAN,
         decisions' = [decisions EXCEPT ![t].keep = b], UNCHANGED <<ring, seq>>
  PROVE  Memory' /\ DOMAIN decisions' = DOMAIN decisions
<1>1. /\ DOMAIN decisions \subseteq Traces /\ decisions \in [DOMAIN decisions -> Decision]
      /\ ring \in [0 .. RingSize - 1 -> Entry] /\ seq \in Nat
  BY DEF SamplerInv, SamplerShapes
<1> DEFINE e == [decisions[t] EXCEPT !.keep = b]
<1>2. e \in Decision /\ e.seq = decisions[t].seq
  BY <1>1 DEF Decision
<1>3. decisions' = [decisions EXCEPT ![t] = e]
  BY <1>1
<1> HIDE DEF e
<1>4. DOMAIN decisions' = DOMAIN decisions /\ decisions' \in [DOMAIN decisions -> Decision]
  BY <1>1, <1>2, <1>3
<1>5. \A u \in DOMAIN decisions : decisions'[u].seq = decisions[u].seq
  BY <1>1, <1>2, <1>3
<1>6. Held' /\ Turns'
  BY <1>4, <1>5 DEF SamplerInv, Held, Turns
<1> QED
  BY <1>1, <1>4, <1>6 DEF Memory

\* A trace with a decision that counts is in the table.
LEMMA CurrentKnown ==
  ASSUME NEW t, Current(t) # NoDecision
  PROVE  t \in DOMAIN decisions /\ Current(t) = decisions[t]
BY DEF Current

\* Assembling the invariant from what a step touched.
LEMMA Assemble ==
  ASSUME Memory', Ledger', Tables',
         policy' \in [mode : Modes, rate : Rates], DOMAIN scopeRates' \subseteq Scopes, time' \in 0 .. MaxTime,
         window' \in Int, tokens' \in 0 .. Burst, tokenTime' \in Int, tokenStart' \in Int, granted' \in Nat
  PROVE  SamplerInv'
BY DEF SamplerInv, SamplerShapes, Memory

\* Nothing but the decisions and the table of rare combinations changes.
LEMMA BudgetUntouched ==
  ASSUME SamplerSized, SamplerInv, Memory',
         UNCHANGED <<policy, scopeRates, time, traffic, window, tokens, tokenTime, tokenStart, granted>>,
         DOMAIN rare' \subseteq Scopes \cup {Overflow}, Limited(DOMAIN rare', MaxRare)
  PROVE  SamplerInv'
<1>1. Ledger' /\ Tables'
  BY DEF SamplerInv, Ledger, Tables
<1> QED
  BY <1>1, Assemble DEF SamplerInv, SamplerShapes

-----------------------------------------------------------------------------
(* The invariant holds at the start and every step preserves it *)

LEMMA EmptyLimited == ASSUME NEW limit \in Nat PROVE Limited(DOMAIN Empty, limit)
<1>1. DOMAIN Empty = {} /\ {} \ {Overflow} = {}
  BY DEF Empty
<1> QED
  BY <1>1, FS_EmptySet DEF Limited

LEMMA SamplerInitInv == ASSUME SamplerSized, SamplerInit PROVE SamplerInv
<1>1. DOMAIN Empty = {} /\ NoEntry \in Entry /\ NoEntry.id = "none" /\ Burst \in Nat
  BY BurstNat DEF Empty, NoEntry, Entry
<1>2. SamplerShapes
  <2>1. policy \in [mode : Modes, rate : Rates]
    BY DEF SamplerInit, Modes, Rates
  <2>2. decisions \in [DOMAIN decisions -> Decision] /\ DOMAIN decisions = {}
    BY <1>1 DEF SamplerInit, Empty
  <2>3. ring \in [0 .. RingSize - 1 -> Entry]
    BY <1>1 DEF SamplerInit
  <2> QED
    BY <1>1, <2>1, <2>2, <2>3 DEF SamplerShapes, SamplerInit, SamplerSized
<1>3. Ledger /\ Held /\ Turns
  BY <1>1 DEF SamplerInit, Ledger, Held, Turns
<1>4. Tables
  BY <1>1, EmptyLimited DEF SamplerInit, Tables, SamplerSized
<1> QED
  BY <1>2, <1>3, <1>4 DEF SamplerInv

\* A change of mode forgets everything, the ring and the tokens included.
LEMMA ApplyPolicyKeeps ==
  ASSUME SamplerSized, SamplerInv, NEW p \in [mode : Modes, rate : Rates], ApplyPolicy(p)
  PROVE  SamplerInv'
<1>1. policy' = p /\ UNCHANGED <<scopeRates, time>>
  BY DEF ApplyPolicy
<1>2. CASE NewState
  <2>1. DOMAIN Empty = {} /\ NoEntry \in Entry /\ NoEntry.id = "none" /\ Burst \in Nat
    BY BurstNat DEF Empty, NoEntry, Entry
  <2>2. decisions' \in [DOMAIN decisions' -> Decision] /\ DOMAIN decisions' = {}
    BY <1>2, <2>1 DEF NewState, Empty
  <2>3. ring' \in [0 .. RingSize - 1 -> Entry] /\ \A i \in DOMAIN ring' : ring'[i].id = "none"
    BY <1>2, <2>1 DEF NewState
  <2>4. Held' /\ Turns' /\ Ledger'
    BY <1>2, <2>2, <2>3 DEF NewState, Held, Turns, Ledger
  <2>5. Memory'
    BY <1>2, <2>2, <2>3, <2>4 DEF Memory, NewState
  <2>6. Tables'
    BY <1>2, <2>1, EmptyLimited DEF NewState, Tables, SamplerSized
  <2>7. /\ window' \in Int /\ tokens' \in 0 .. Burst /\ tokenTime' \in Int /\ tokenStart' \in Int
        /\ granted' \in Nat
    BY <1>2, <2>1 DEF NewState
  <2> QED
    BY <1>1, <2>4, <2>5, <2>6, <2>7, Assemble DEF SamplerInv, SamplerShapes
<1>3. CASE UNCHANGED <<decisions, ring, seq, traffic, window, tokens, tokenTime, tokenStart, granted, rare>>
  <2>1. Memory' /\ Ledger' /\ Tables'
    BY <1>1, <1>3 DEF SamplerInv, SamplerShapes, Memory, Held, Turns, Ledger, Tables
  <2> QED
    BY <1>1, <1>3, <2>1, Assemble DEF SamplerInv, SamplerShapes
<1> QED
  BY <1>2, <1>3 DEF ApplyPolicy

LEMMA ApplyServiceRatesKeeps ==
  ASSUME SamplerInv, NEW rates, DOMAIN rates \subseteq Scopes, ApplyServiceRates(rates)
  PROVE  SamplerInv'
<1>1. Memory' /\ Ledger' /\ Tables'
  BY DEF ApplyServiceRates, SamplerInv, SamplerShapes, Memory, Held, Turns, Ledger, Tables
<1> QED
  BY <1>1, Assemble DEF ApplyServiceRates, SamplerInv, SamplerShapes

LEMMA TickKeeps == ASSUME SamplerSized, SamplerInv, Tick PROVE SamplerInv'
<1>1. Memory' /\ Tables'
  BY DEF Tick, SamplerInv, SamplerShapes, Memory, Held, Turns, Tables
<1>2. time' \in 0 .. MaxTime /\ time <= time'
  BY DEF Tick, SamplerInv, SamplerShapes, SamplerSized
<1>3. Ledger'
  BY <1>2 DEF Tick, SamplerInv, Ledger, SamplerShapes
<1> QED
  BY <1>1, <1>2, <1>3, Assemble DEF Tick, SamplerInv, SamplerShapes

LEMMA StaticKeeps ==
  ASSUME SamplerInv, NEW t, NEW s, NEW preserve, Static(t, s, preserve) \/ UNCHANGED samplerVars
  PROVE  SamplerInv'
<1>1. Memory' /\ Ledger' /\ Tables'
  BY DEF Static, samplerVars, SamplerInv, SamplerShapes, Memory, Held, Turns, Ledger, Tables
<1> QED
  BY <1>1, Assemble DEF Static, samplerVars, SamplerInv, SamplerShapes

LEMMA KeepAgainKeeps ==
  ASSUME SamplerSized, SamplerInv, NEW t \in Traces, NEW s \in Scopes, NEW preserve \in BOOLEAN, KeepAgain(t, s, preserve)
  PROVE  SamplerInv'
<1>1. t \in DOMAIN decisions
  BY CurrentKnown DEF KeepAgain
<1> DEFINE b == decisions[t].keep \/ preserve
<1>2. b \in BOOLEAN /\ decisions' = [decisions EXCEPT ![t].keep = b] /\ UNCHANGED <<ring, seq>>
  BY DEF KeepAgain
<1> HIDE DEF b
<1>3. Memory'
  BY <1>1, <1>2, AgainKeeps
<1> QED
  BY <1>3, BudgetUntouched DEF KeepAgain, SamplerInv, Tables

LEMMA KeepMonthlyKeeps ==
  ASSUME SamplerSized, SamplerInv, NEW t \in Traces, NEW s \in Scopes, NEW entry \in BOOLEAN, NEW preserve \in BOOLEAN,
         KeepMonthly(t, s, entry, preserve)
  PROVE  SamplerInv'
<1> DEFINE key == IF s \notin DOMAIN rare /\ Cardinality(DOMAIN rare) >= MaxRare THEN Overflow ELSE s
           isRare == entry /\ (key \in DOMAIN rare => time - rare[key] >= RareTime)
           keep == preserve \/ isRare \/ Below(policy.rate, t)
           old == Current(t)
           all == old.keep \/ keep
<1>1. /\ IF old = NoDecision THEN Remember(t, keep)
         ELSE decisions' = [decisions EXCEPT ![t].keep = all] /\ UNCHANGED <<ring, seq>>
      /\ rare' = IF all /\ entry THEN Put(rare, key, time) ELSE rare
      /\ UNCHANGED <<policy, scopeRates, time, traffic, window, tokens, tokenTime, tokenStart, granted>>
  BY DEF KeepMonthly
<1>2. keep \in BOOLEAN /\ all \in BOOLEAN
  OBVIOUS
<1>3. key \in Scopes \cup {Overflow} /\ Limited(DOMAIN rare \cup {key}, MaxRare)
  <2>1. Limited(DOMAIN rare, MaxRare) /\ MaxRare \in Nat
    BY DEF SamplerInv, Tables, SamplerSized
  <2>2. Cardinality(DOMAIN rare) \in Nat
    BY <2>1, FS_CardinalityType DEF Limited
  <2>3. key \notin DOMAIN rare /\ key # Overflow => Cardinality(DOMAIN rare) < MaxRare
    BY <2>1, <2>2
  <2> HIDE DEF key
  <2>4. Limited(DOMAIN rare \cup {key}, MaxRare)
    BY <2>1, <2>3, LimitedPut
  <2> QED
    BY <2>4 DEF key
<1> HIDE DEF key, keep, all, old
<1>4. DOMAIN rare' \subseteq Scopes \cup {Overflow} /\ Limited(DOMAIN rare', MaxRare)
  <2>1. rare' = rare \/ DOMAIN rare' = DOMAIN rare \cup {key}
    BY <1>1 DEF Put
  <2> QED
    BY <1>3, <2>1 DEF SamplerInv, Tables
<1>5. Memory'
  <2>1. CASE old = NoDecision
    BY <1>1, <1>2, <2>1, RememberKeeps
  <2>2. CASE old # NoDecision
    <3>1. t \in DOMAIN decisions
      BY <2>2, CurrentKnown DEF old
    <3> QED
      BY <1>1, <1>2, <2>2, <3>1, AgainKeeps
  <2> QED
    BY <2>1, <2>2
<1> QED
  BY <1>1, <1>4, <1>5, BudgetUntouched

\* The refill never exceeds the burst, nor what time allows.
LEMMA RefilledBounds ==
  ASSUME SamplerSized, SamplerInv
  PROVE  /\ Refilled \in 0 .. Burst /\ (window = -1 => Refilled = Burst)
         /\ window # -1 => granted + Refilled <= Burst + Target * (time - tokenStart)
<1>1. /\ Burst \in Nat /\ Target \in Nat /\ time \in Int /\ tokens \in 0 .. Burst /\ tokenTime \in Int
      /\ tokenStart \in Int /\ granted \in Nat
  BY BurstNat DEF SamplerInv, SamplerShapes
<1>2. CASE window = -1
  <2>1. (time - time) * Target = 0
    BY <1>1
  <2> QED
    BY <1>1, <1>2, <2>1 DEF Refilled
<1>3. CASE window # -1
  <2> DEFINE x == Target * (tokenTime - tokenStart)
             y == Target * (time - tokenTime)
             z == Target * (time - tokenStart)
  <2>1. x + y = z /\ (time - tokenTime) * Target = y /\ x \in Int /\ y \in Int
    BY <1>1, Distribute
  <2>2. time - tokenTime \in Nat /\ granted + tokens <= Burst + x
    BY <1>1, <1>3 DEF SamplerInv, Ledger
  <2>3. y \in Nat
    <3>1. time - tokenTime \in Nat /\ Target \in Nat
      BY <1>1, <2>2
    <3> QED
      BY <3>1, ProductNat, Zenon
  <2>4. Refilled = IF tokens + y > Burst THEN Burst ELSE tokens + y
    BY <1>3, <2>1 DEF Refilled
  <2> HIDE DEF x, y, z
  <2>5. Refilled \in 0 .. Burst /\ Refilled <= tokens + y
    BY <1>1, <2>3, <2>4
  <2>6. granted + Refilled <= Burst + z
    BY <1>1, <2>1, <2>2, <2>5
  <2> QED
    BY <1>3, <2>5, <2>6 DEF z
<1> QED
  BY <1>2, <1>3

\* A new trace pays with a token, unless it must be preserved.
LEMMA KeepNewKeeps ==
  ASSUME SamplerSized, SamplerInv, NEW t \in Traces, NEW s \in Scopes, NEW preserve \in BOOLEAN, KeepNew(t, s, preserve)
  PROVE  SamplerInv'
<1> DEFINE name == IF s \notin DOMAIN Turned /\ Cardinality(DOMAIN Turned) >= MaxServices THEN Overflow ELSE s
           was == IF name \in DOMAIN Turned THEN Turned[name] ELSE [observed |-> 0, rate |-> "full", last |-> 0]
           grant == ~preserve /\ Below(was.rate, t) /\ Refilled >= 1
           spent == IF grant THEN 1 ELSE 0
           entry == [observed |-> was.observed + (IF preserve THEN 0 ELSE 1), rate |-> was.rate, last |-> time]
<1>1. /\ traffic' = Put(Turned, name, entry)
      /\ window' = IF window = -1 \/ time - window >= Window THEN time ELSE window
      /\ IF preserve
         THEN /\ tokens' = IF window = -1 THEN Burst ELSE tokens
              /\ tokenTime' = IF window = -1 THEN time ELSE tokenTime
         ELSE tokens' = Refilled - spent /\ tokenTime' = time
      /\ tokenStart' = IF window = -1 THEN time ELSE tokenStart
      /\ granted' = granted + spent
      /\ Remember(t, preserve \/ grant)
      /\ UNCHANGED <<policy, scopeRates, time, rare>>
  BY DEF KeepNew
<1>2. Memory'
  <2> DEFINE keep == preserve \/ grant
  <2>1. keep \in BOOLEAN /\ Remember(t, keep)
    BY <1>1
  <2> HIDE DEF keep
  <2> QED
    BY <2>1, RememberKeeps
<1>3. Tables'
  <2>1. DOMAIN Turned \subseteq DOMAIN traffic
    BY DEF Turned
  <2>2. /\ Limited(DOMAIN traffic, MaxServices) /\ MaxServices \in Nat
        /\ DOMAIN traffic \subseteq Scopes \cup {Overflow}
    BY DEF SamplerInv, Tables, SamplerSized
  <2>3. Limited(DOMAIN Turned, MaxServices)
    BY <2>1, <2>2, LimitedSubset
  <2>4. Cardinality(DOMAIN Turned) \in Nat
    BY <2>3, FS_CardinalityType DEF Limited
  <2>5. /\ name \notin DOMAIN Turned /\ name # Overflow => Cardinality(DOMAIN Turned) < MaxServices
        /\ name \in Scopes \cup {Overflow}
    BY <2>2, <2>4
  <2> HIDE DEF name, entry
  <2>6. Limited(DOMAIN Turned \cup {name}, MaxServices)
    BY <2>2, <2>3, <2>5, LimitedPut
  <2>7. DOMAIN traffic' = DOMAIN Turned \cup {name}
    BY <1>1 DEF Put
  <2> QED
    BY <1>1, <2>1, <2>2, <2>5, <2>6, <2>7 DEF SamplerInv, Tables
<1>4. spent \in {0, 1} /\ (spent = 1 => Refilled >= 1) /\ (preserve => spent = 0)
  OBVIOUS
<1> HIDE DEF name, was, grant, entry, spent
<1>5. /\ Burst \in Nat /\ Target \in Nat /\ time \in 0 .. MaxTime /\ MaxTime \in Nat /\ tokens \in 0 .. Burst
      /\ tokenTime \in Int /\ tokenStart \in Int /\ granted \in Nat /\ window \in Int
  BY BurstNat DEF SamplerInv, SamplerShapes, SamplerSized
<1>6. /\ Refilled \in 0 .. Burst /\ (window = -1 => Refilled = Burst)
      /\ window # -1 => granted + Refilled <= Burst + Target * (time - tokenStart)
  BY RefilledBounds
<1>7. /\ window' \in Int /\ window' # -1 /\ granted' \in Nat /\ tokens' \in 0 .. Burst /\ tokenTime' \in Int
      /\ tokenStart' \in Int
  BY <1>1, <1>4, <1>5, <1>6
<1>8. granted' + tokens' <= Burst + Target * (tokenTime' - tokenStart') /\ tokenTime' <= time
  <2>1. CASE window = -1
    <3>1. granted = 0 /\ Target * (time - time) = 0
      BY <1>5, <2>1 DEF SamplerInv, Ledger
    <3>2. tokenTime' = time /\ tokenStart' = time /\ granted' = spent /\ tokens' = Burst - spent
      BY <1>1, <1>4, <1>5, <1>6, <2>1, <3>1
    <3> QED
      BY <1>4, <1>5, <3>1, <3>2
  <2>2. CASE window # -1 /\ preserve
    <3>1. granted' = granted /\ tokens' = tokens /\ tokenTime' = tokenTime /\ tokenStart' = tokenStart
      BY <1>1, <1>4, <1>5, <2>2
    <3> QED
      BY <2>2, <3>1 DEF SamplerInv, Ledger
  <2>3. CASE window # -1 /\ ~preserve
    <3>1. /\ granted' = granted + spent /\ tokens' = Refilled - spent /\ tokenTime' = time
          /\ tokenStart' = tokenStart
      BY <1>1, <2>3
    <3>2. granted' + tokens' = granted + Refilled
      BY <1>4, <1>5, <1>6, <3>1
    <3> QED
      BY <1>5, <1>6, <2>3, <3>1, <3>2
  <2> QED
    BY <2>1, <2>2, <2>3
<1>9. Ledger'
  BY <1>1, <1>7, <1>8 DEF Ledger
<1> QED
  BY <1>1, <1>2, <1>3, <1>5, <1>7, <1>9, Assemble DEF SamplerInv, SamplerShapes

LEMMA SamplerStepInv == ASSUME SamplerSized, SamplerInv, [SamplerNext]_samplerVars PROVE SamplerInv'
<1>1. ASSUME NEW p \in [mode : Modes, rate : {"none", "partial"}], ApplyPolicy(p) PROVE SamplerInv'
  <2>1. p \in [mode : Modes, rate : Rates]
    BY DEF Rates
  <2> QED
    BY <1>1, <2>1, ApplyPolicyKeeps
<1>2. ASSUME NEW s \in Scopes, ApplyServiceRates(Put(Empty, s, "partial")) PROVE SamplerInv'
  <2>1. DOMAIN Put(Empty, s, "partial") \subseteq Scopes
    BY DEF Put, Empty
  <2> QED
    BY <1>2, <2>1, ApplyServiceRatesKeeps
<1>3. CASE ApplyServiceRates(Empty)
  <2>1. DOMAIN Empty \subseteq Scopes
    BY DEF Empty
  <2> QED
    BY <1>3, <2>1, ApplyServiceRatesKeeps
<1>4. ASSUME NEW t \in Traces, NEW s \in Scopes, NEW preserve \in BOOLEAN,
             \/ Static(t, s, preserve) \/ KeepAgain(t, s, preserve) \/ KeepNew(t, s, preserve)
             \/ \E entry \in BOOLEAN : KeepMonthly(t, s, entry, preserve)
      PROVE  SamplerInv'
  BY <1>4, StaticKeeps, KeepAgainKeeps, KeepNewKeeps, KeepMonthlyKeeps
<1>5. CASE UNCHANGED samplerVars
  BY <1>5, StaticKeeps
<1> QED
  BY <1>1, <1>2, <1>3, <1>4, <1>5, TickKeeps DEF SamplerNext

-----------------------------------------------------------------------------
(* Theorems *)

\* The inductive invariant holds in every run of the sampler.
THEOREM SamplerInvariant == SamplerSpec => []SamplerInv
<1> USE SamplerAssumption
<1>1. SamplerInit => SamplerInv
  BY SamplerInitInv
<1>2. SamplerInv /\ [SamplerNext]_samplerVars => SamplerInv'
  BY SamplerStepInv
<1> QED
  BY <1>1, <1>2, PTL DEF SamplerSpec

\* The tables of services and of rare combinations never grow past their limit and the
\* shared entry, however many services send, and the tokens never past the burst.
THEOREM TablesBounded == SamplerSpec => []SamplerTypeOK
<1> USE SamplerAssumption
<1>1. ASSUME SamplerInv PROVE SamplerTypeOK
  <2>1. Cardinality(DOMAIN traffic) <= MaxServices + 1 /\ Cardinality(DOMAIN rare) <= MaxRare + 1
    BY <1>1, LimitedCardinality DEF SamplerInv, Tables, SamplerSized
  <2> QED
    BY <1>1, <2>1 DEF SamplerInv, SamplerShapes, Tables, SamplerTypeOK
<1> QED
  BY <1>1, SamplerInvariant, PTL

\* The adaptive policy grants no more than its burst and the target rate allow over any
\* time, and remembers no more decisions than the ring has slots.
THEOREM BudgetIsHeld == SamplerSpec => []BudgetHeld
<1> USE SamplerAssumption
<1>1. ASSUME SamplerInv PROVE BudgetHeld
  <2>1. ASSUME window # -1 PROVE granted <= Burst + Target * (time - tokenStart)
    <3>1. Refilled \in 0 .. Burst /\ granted + Refilled <= Burst + Target * (time - tokenStart)
      BY <1>1, <2>1, RefilledBounds
    <3>2. /\ Burst \in Nat /\ granted \in Nat /\ time \in Int /\ tokenStart \in Int /\ Target \in Int
      BY <1>1, BurstNat DEF SamplerInv, SamplerShapes
    <3>3. Target * (time - tokenStart) \in Int
      BY <3>2
    <3> QED
      BY <3>1, <3>2, <3>3
  <2> QED
    BY <1>1, <2>1 DEF SamplerInv, Held, BudgetHeld
<1> QED
  BY <1>1, SamplerInvariant, PTL

\* A new decision on another trace does not evict one that is less than a turn old, and
\* none is taken anew for a trace that is kept and has not expired.
LEMMA NotEvicted ==
  ASSUME SamplerSized, SamplerInv, NEW t \in Traces, NEW keep, Remember(t, keep), Current(t) = NoDecision,
         NEW u \in DOMAIN decisions, decisions[u].keep, time - decisions[u].at < TTL,
         seq' - decisions[u].seq <= RingSize
  PROVE  u # t /\ u \in DOMAIN decisions' /\ decisions'[u] = decisions[u]
<1>1. /\ seq \in Nat /\ seq' = seq + 1 /\ u \in Traces /\ u # "none" /\ decisions[u] \in Decision
      /\ seq % RingSize \in DOMAIN ring /\ RingSize \in Nat
  BY Slot DEF SamplerInv, SamplerShapes, Remember, SamplerSized
<1>2. u # t
  <2> SUFFICES ASSUME u = t PROVE FALSE
    OBVIOUS
  <2>1. decisions[u] = NoDecision
    BY DEF Current
  <2> QED
    BY <2>1 DEF NoDecision
<1>3. u \notin Evicted
  <2> SUFFICES ASSUME u \in Evicted PROVE FALSE
    OBVIOUS
  <2> DEFINE old == ring[seq % RingSize]
  <2>1. old.id = u /\ old.seq = decisions[u].seq
    BY DEF Evicted
  <2>2. old.seq \in Nat /\ old.seq < seq /\ old.seq % RingSize = seq % RingSize
    BY <1>1, <2>1 DEF SamplerInv, Turns
  <2> HIDE DEF old
  <2>3. seq - old.seq >= RingSize
    BY <1>1, <2>2, FullTurn
  <2> QED
    BY <1>1, <2>1, <2>2, <2>3
<1> DEFINE d == [keep |-> keep, at |-> time, seq |-> seq]
<1>4. decisions' = Put([w \in DOMAIN decisions \ Evicted |-> decisions[w]], t, d)
  BY DEF Remember
<1> HIDE DEF d
<1> QED
  BY <1>2, <1>3, <1>4 DEF Put

\* A kept trace stays kept, and is answered so, until it expires or a whole ring of newer
\* decisions followed.
THEOREM KeptForTTL == SamplerSpec => KeptStays
<1> USE SamplerAssumption
<1> DEFINE Stays ==
      \A t \in DOMAIN decisions :
        /\ decisions[t].keep /\ time' - decisions[t].at < TTL /\ policy'.mode = policy.mode
        /\ seq' - decisions[t].seq <= RingSize
        => /\ t \in DOMAIN decisions' /\ decisions'[t].keep
           /\ answer'.id = t /\ answer' # answer => answer'.keep
<1>1. ASSUME SamplerInv, [SamplerNext]_samplerVars PROVE [Stays]_samplerVars
  <2>0. SUFFICES ASSUME SamplerNext, NEW u \in DOMAIN decisions, decisions[u].keep,
                        time' - decisions[u].at < TTL, policy'.mode = policy.mode,
                        seq' - decisions[u].seq <= RingSize
                 PROVE  /\ u \in DOMAIN decisions' /\ decisions'[u].keep
                        /\ answer'.id = u /\ answer' # answer => answer'.keep
    BY <1>1
  <2>1. /\ u \in Traces /\ u # "none" /\ decisions \in [DOMAIN decisions -> Decision]
    BY <1>1 DEF SamplerInv, SamplerShapes, SamplerSized
  <2>2. CASE Tick
    BY <2>0, <2>2 DEF Tick
  <2>3. ASSUME NEW p, ApplyPolicy(p) PROVE decisions' = decisions /\ answer'.id # u
    BY <2>0, <2>1, <2>3 DEF ApplyPolicy, NoAnswer
  <2>4. ASSUME NEW r, ApplyServiceRates(r) PROVE decisions' = decisions /\ answer'.id # u
    BY <2>1, <2>4 DEF ApplyServiceRates, NoAnswer
  <2>5. ASSUME NEW t \in Traces, NEW s \in Scopes, NEW preserve \in BOOLEAN, Static(t, s, preserve)
        PROVE  decisions' = decisions /\ answer'.id # u
    BY <2>1, <2>5 DEF Static
  <2>6. ASSUME NEW t \in Traces, NEW s \in Scopes, NEW preserve \in BOOLEAN, KeepAgain(t, s, preserve)
        PROVE  /\ u \in DOMAIN decisions' /\ decisions'[u].keep
               /\ answer'.id = u /\ answer' # answer => answer'.keep
    <3> DEFINE b == decisions[t].keep \/ preserve
    <3>1. t \in DOMAIN decisions /\ Current(t) = decisions[t]
      BY <2>6, CurrentKnown DEF KeepAgain
    <3>2. decisions' = [decisions EXCEPT ![t].keep = b] /\ answer' = [id |-> t, keep |-> b]
      BY <2>6, <3>1 DEF KeepAgain, Answer
    <3>3. CASE u = t
      <4>1. b
        BY <2>0, <3>3
      <4> HIDE DEF b
      <4>2. decisions'[u].keep = b /\ u \in DOMAIN decisions' /\ answer'.keep = b
        BY <2>1, <3>2, <3>3 DEF Decision
      <4> QED
        BY <4>1, <4>2
    <3>4. CASE u # t
      <4> HIDE DEF b
      <4>1. decisions'[u] = decisions[u] /\ u \in DOMAIN decisions' /\ answer'.id # u
        BY <2>1, <3>2, <3>4
      <4> QED
        BY <2>0, <4>1
    <3> QED
      BY <3>3, <3>4
  <2>7. ASSUME NEW t \in Traces, NEW s \in Scopes, NEW preserve \in BOOLEAN, KeepNew(t, s, preserve)
        PROVE  /\ u \in DOMAIN decisions' /\ decisions'[u].keep
               /\ answer'.id = u /\ answer' # answer => answer'.keep
    <3>1. PICK keep : Remember(t, keep) /\ answer' = [id |-> t, keep |-> keep]
      BY <2>7 DEF KeepNew, Answer
    <3>2. Current(t) = NoDecision /\ time' = time
      BY <2>7 DEF KeepNew
    <3>3. u # t /\ u \in DOMAIN decisions' /\ decisions'[u] = decisions[u]
      BY <1>1, <2>0, <3>1, <3>2, NotEvicted
    <3>4. answer'.id # u
      BY <3>1, <3>3
    <3> QED
      BY <2>0, <3>3, <3>4
  <2>8. ASSUME NEW t \in Traces, NEW s \in Scopes, NEW entry \in BOOLEAN, NEW preserve \in BOOLEAN,
               KeepMonthly(t, s, entry, preserve)
        PROVE  /\ u \in DOMAIN decisions' /\ decisions'[u].keep
               /\ answer'.id = u /\ answer' # answer => answer'.keep
    <3> DEFINE old == Current(t)
    <3>1. PICK keep \in BOOLEAN :
            /\ IF old = NoDecision THEN Remember(t, keep)
               ELSE decisions' = [decisions EXCEPT ![t].keep = (old.keep \/ keep)]
            /\ answer' = [id |-> t, keep |-> (old.keep \/ keep)]
      BY <2>8 DEF KeepMonthly, Answer
    <3>2. time' = time
      BY <2>8 DEF KeepMonthly
    <3>3. CASE old = NoDecision
      <4>1. u # t /\ u \in DOMAIN decisions' /\ decisions'[u] = decisions[u]
        BY <1>1, <2>0, <3>1, <3>2, <3>3, NotEvicted
      <4>2. answer'.id # u
        BY <3>1, <4>1
      <4> QED
        BY <2>0, <4>1, <4>2
    <3>4. CASE old # NoDecision
      <4>1. t \in DOMAIN decisions /\ old = decisions[t]
        BY <3>4, CurrentKnown
      <4> DEFINE b == old.keep \/ keep
      <4>2. decisions' = [decisions EXCEPT ![t].keep = b] /\ answer' = [id |-> t, keep |-> b]
        BY <3>1, <3>4
      <4>3. CASE u = t
        <5>1. b
          BY <2>0, <4>1, <4>3
        <5> HIDE DEF b
        <5>2. decisions'[u].keep = b /\ u \in DOMAIN decisions' /\ answer'.keep = b
          BY <2>1, <4>2, <4>3 DEF Decision
        <5> QED
          BY <5>1, <5>2
      <4>4. CASE u # t
        <5> HIDE DEF b
        <5>1. decisions'[u] = decisions[u] /\ u \in DOMAIN decisions' /\ answer'.id # u
          BY <2>1, <4>2, <4>4
        <5> QED
          BY <2>0, <5>1
      <4> QED
        BY <4>3, <4>4
    <3> QED
      BY <3>3, <3>4
  <2> QED
    BY <2>0, <2>2, <2>3, <2>4, <2>5, <2>6, <2>7, <2>8 DEF SamplerNext
<1> QED
  BY <1>1, SamplerInvariant, PTL DEF SamplerSpec, KeptStays

-----------------------------------------------------------------------------
(* Usage counters: the inductive invariant *)

UsageRow == [spans : Nat, kept : Nat, in : SUBSET SpanTraces, out : SUBSET SpanTraces, revision : Nat,
             traces : BOOLEAN, services : BOOLEAN]
IsTable(rows) == DOMAIN rows \subseteq Keys /\ rows \in [DOMAIN rows -> UsageRow]

\* The budget of trace ids is what the rows hold.
TableExact(tab) ==
  /\ tab = [rows |-> tab.rows, ids |-> tab.ids] /\ IsTable(tab.rows)
  /\ tab.ids = Size(tab.rows) /\ tab.ids <= MaxTraceIDs

\* The minutes of the table are neither ahead nor pruned; those that were pruned are old
\* and counted.
MinutesTrue ==
  /\ \A k \in DOMAIN table.rows : k[1] <= minute /\ k[1] \notin gone
  /\ IsFiniteSet(gone) /\ lost = Cardinality(gone) /\ \A m \in gone : m \in Nat /\ m + MaxBuckets <= minute

\* The server has no row of the current minute that is not in memory too.
ServerTrue ==
  /\ IsTable(server)
  /\ \A k \in DOMAIN server : k[1] <= minute /\ (k[1] = minute => k \in DOMAIN table.rows)

\* A row in flight is in memory, the same or of a later revision, unless it was pruned.
FlightTrue ==
  /\ flushing = [at |-> flushing.at, rows |-> flushing.rows] /\ flushing.at \in Int /\ flushing.at <= minute
  /\ IsTable(flushing.rows)
  /\ \A k \in DOMAIN flushing.rows :
       /\ k[1] <= minute /\ (k \in DOMAIN table.rows \/ k[1] \in gone)
       /\ k \in DOMAIN table.rows =>
            \/ table.rows[k] = flushing.rows[k]
            \/ table.rows[k].revision > flushing.rows[k].revision

\* A row that claims to be complete is.
Complete(m, s) ==
  Row(<<m, "collector">>).services =>
    /\ Row(<<m, s>>).spans = seen[<<m, s>>].spans
    /\ Row(<<m, s>>).traces => Row(<<m, s>>).in = seen[<<m, s>>].traces
AllComplete == \A m \in (0 .. MaxMinute) \ gone, s \in {"collector"} \cup Services : Complete(m, s)

UsageInv ==
  /\ minute \in 0 .. MaxMinute /\ usageOn \in BOOLEAN
  /\ seen \in [Keys -> [spans : Nat, traces : SUBSET (SpanTraces \cup BadTraces)]]
  /\ TableExact(table) /\ MinutesTrue /\ ServerTrue /\ FlightTrue /\ AllComplete

-----------------------------------------------------------------------------
(* Lemmas about the table *)

\* Two sets that share nothing add up.
LEMMA DisjointUnion ==
  ASSUME NEW S, NEW T, IsFiniteSet(S), IsFiniteSet(T), S \cap T = {}
  PROVE  IsFiniteSet(S \cup T) /\ Cardinality(S \cup T) = Cardinality(S) + Cardinality(T)
<1>1. IsFiniteSet(S \cup T) /\ Cardinality(S \cup T) = Cardinality(S) + Cardinality(T) - Cardinality(S \cap T)
  BY FS_Union
<1>2. Cardinality(S \cap T) = 0 /\ Cardinality(S) \in Nat /\ Cardinality(T) \in Nat
  BY FS_EmptySet, FS_CardinalityType
<1> QED
  BY <1>1, <1>2

LEMMA KeysFinite == IsFiniteSet(Keys)
<1>1. IsFiniteSet(0 .. MaxMinute) /\ IsFiniteSet({"collector"} \cup Services)
  BY FS_Interval, FS_AddElement, UsageAssumption
<1> QED
  BY <1>1, FS_Product DEF Keys

\* The ids of the rows are finitely many.
LEMMA IdsFinite ==
  ASSUME NEW rows, IsTable(rows)
  PROVE  /\ IsFiniteSet(ReceivedIds(rows)) /\ IsFiniteSet(RetainedIds(rows)) /\ Size(rows) \in Nat
         /\ Cardinality(ReceivedIds(rows)) \in Nat /\ Cardinality(RetainedIds(rows)) \in Nat
<1>1. IsFiniteSet(DOMAIN rows)
  BY KeysFinite, FS_Subset DEF IsTable
<1>2. IsFiniteSet((DOMAIN rows) \X SpanTraces)
  BY <1>1, FS_Product, UsageAssumption
<1>3. ReceivedIds(rows) \subseteq (DOMAIN rows) \X SpanTraces /\ RetainedIds(rows) \subseteq (DOMAIN rows) \X SpanTraces
  BY DEF ReceivedIds, RetainedIds
<1>4. IsFiniteSet(ReceivedIds(rows)) /\ IsFiniteSet(RetainedIds(rows))
  BY <1>2, <1>3, FS_Subset
<1>5. Cardinality(ReceivedIds(rows)) \in Nat /\ Cardinality(RetainedIds(rows)) \in Nat
  BY <1>4, FS_CardinalityType
<1> QED
  BY <1>4, <1>5 DEF Size

\* Rows with the same ids have the same size.
LEMMA SameSize ==
  ASSUME NEW rows, NEW others, DOMAIN rows = DOMAIN others,
         \A k \in DOMAIN rows : rows[k].in = others[k].in /\ rows[k].out = others[k].out
  PROVE  Size(rows) = Size(others)
<1>1. ReceivedIds(rows) = ReceivedIds(others)
  BY DEF ReceivedIds
<1>2. RetainedIds(rows) = RetainedIds(others)
  BY DEF RetainedIds
<1> QED
  BY <1>1, <1>2 DEF Size

\* remove: the ids of the rows are free again, the other rows stay as they are.
LEMMA WithoutExact ==
  ASSUME NEW tab, TableExact(tab), NEW keys \in SUBSET DOMAIN tab.rows
  PROVE  /\ TableExact(Without(tab, keys)) /\ DOMAIN Without(tab, keys).rows = DOMAIN tab.rows \ keys
         /\ \A k \in DOMAIN tab.rows \ keys : Without(tab, keys).rows[k] = tab.rows[k]
<1> DEFINE rest == [k \in DOMAIN tab.rows \ keys |-> tab.rows[k]]
<1> DEFINE cut == [k \in keys |-> tab.rows[k]]
<1>0. IsTable(tab.rows) /\ tab.ids = Size(tab.rows) /\ tab.ids <= MaxTraceIDs
  BY DEF TableExact
<1>1. IsTable(rest) /\ IsTable(cut)
  BY <1>0 DEF IsTable
<1>2. /\ ReceivedIds(tab.rows) = ReceivedIds(rest) \cup ReceivedIds(cut)
      /\ ReceivedIds(rest) \cap ReceivedIds(cut) = {}
  BY DEF ReceivedIds
<1>3. /\ RetainedIds(tab.rows) = RetainedIds(rest) \cup RetainedIds(cut)
      /\ RetainedIds(rest) \cap RetainedIds(cut) = {}
  BY DEF RetainedIds
<1>4. Without(tab, keys) = [rows |-> rest, ids |-> tab.ids - Size(cut)]
  BY DEF Without
<1> HIDE DEF rest, cut
<1>5. /\ IsFiniteSet(ReceivedIds(rest)) /\ IsFiniteSet(RetainedIds(rest)) /\ Size(rest) \in Nat
      /\ Cardinality(ReceivedIds(rest)) \in Nat /\ Cardinality(RetainedIds(rest)) \in Nat
  BY <1>1, IdsFinite
<1>6. /\ IsFiniteSet(ReceivedIds(cut)) /\ IsFiniteSet(RetainedIds(cut)) /\ Size(cut) \in Nat
      /\ Cardinality(ReceivedIds(cut)) \in Nat /\ Cardinality(RetainedIds(cut)) \in Nat
  BY <1>1, IdsFinite
<1>7. Cardinality(ReceivedIds(tab.rows)) = Cardinality(ReceivedIds(rest)) + Cardinality(ReceivedIds(cut))
  BY <1>2, <1>5, <1>6, DisjointUnion
<1>8. Cardinality(RetainedIds(tab.rows)) = Cardinality(RetainedIds(rest)) + Cardinality(RetainedIds(cut))
  BY <1>3, <1>5, <1>6, DisjointUnion
<1>9. tab.ids - Size(cut) = Size(rest) /\ tab.ids - Size(cut) <= MaxTraceIDs
  BY <1>0, <1>5, <1>6, <1>7, <1>8, UsageAssumption DEF Size
<1>10. TableExact(Without(tab, keys))
  BY <1>1, <1>4, <1>9 DEF TableExact
<1> QED
  BY <1>4, <1>10 DEF rest

\* The row of k in a table, or a new one.
RowIn(tab, k) == IF k \in DOMAIN tab.rows THEN tab.rows[k] ELSE NewRow

\* get: at most one new row; what the table says of every key stays.
LEMMA GetExact ==
  ASSUME NEW tab, TableExact(tab), NEW k \in Keys
  PROVE  /\ TableExact(Get(tab, k))
         /\ DOMAIN tab.rows \subseteq DOMAIN Get(tab, k).rows
         /\ DOMAIN Get(tab, k).rows \subseteq DOMAIN tab.rows \cup {k}
         /\ \A l : RowIn(Get(tab, k), l) = RowIn(tab, l)
         /\ k[2] = "collector" => k \in DOMAIN Get(tab, k).rows
<1>1. CASE Get(tab, k) = tab /\ (k[2] = "collector" => k \in DOMAIN tab.rows)
  BY <1>1
<1>2. CASE /\ k \notin DOMAIN tab.rows
           /\ Get(tab, k) = [tab EXCEPT !.rows = [l \in DOMAIN @ \cup {k} |-> IF l = k THEN NewRow ELSE @[l]]]
  <2> DEFINE rows == [l \in DOMAIN tab.rows \cup {k} |-> IF l = k THEN NewRow ELSE tab.rows[l]]
  <2>1. tab = [rows |-> tab.rows, ids |-> tab.ids] /\ IsTable(tab.rows) /\ tab.ids = Size(tab.rows) /\ tab.ids <= MaxTraceIDs
    BY DEF TableExact
  <2>2. Get(tab, k) = [rows |-> rows, ids |-> tab.ids]
    BY <1>2, <2>1
  <2>3. NewRow \in UsageRow
    BY DEF NewRow, UsageRow
  <2>4. IsTable(rows)
    BY <2>1, <2>3 DEF IsTable
  <2>5. ReceivedIds(rows) = ReceivedIds(tab.rows)
    BY <1>2 DEF ReceivedIds, NewRow
  <2>6. RetainedIds(rows) = RetainedIds(tab.rows)
    BY <1>2 DEF RetainedIds, NewRow
  <2>7. Size(rows) = tab.ids
    BY <2>1, <2>5, <2>6 DEF Size
  <2>8. DOMAIN rows = DOMAIN tab.rows \cup {k} /\ \A l \in DOMAIN rows : rows[l] = IF l = k THEN NewRow ELSE tab.rows[l]
    OBVIOUS
  <2> HIDE DEF rows
  <2>9. TableExact(Get(tab, k))
    BY <2>1, <2>2, <2>4, <2>7 DEF TableExact
  <2>10. \A l : RowIn(Get(tab, k), l) = RowIn(tab, l)
    BY <1>2, <2>2, <2>8 DEF RowIn
  <2> QED
    BY <2>2, <2>8, <2>9, <2>10
<1> QED
  BY <1>1, <1>2 DEF Get

\* What counting a span of trace t does to a row.
SpanCounted(old, new, t, retained) ==
  /\ new \in UsageRow /\ new.revision > old.revision
  /\ new.spans = old.spans + (IF retained THEN 0 ELSE 1)
  /\ new.traces => old.traces /\ new.in = (IF retained THEN old.in ELSE old.in \cup {t})

\* add: the row is counted and the others stay.
LEMMA AddExact ==
  ASSUME NEW tab, TableExact(tab), NEW k \in DOMAIN tab.rows, NEW t \in SpanTraces \cup BadTraces,
         NEW retained \in BOOLEAN
  PROVE  /\ TableExact(Add(tab, k, t, retained))
         /\ DOMAIN Add(tab, k, t, retained).rows = DOMAIN tab.rows
         /\ SpanCounted(tab.rows[k], Add(tab, k, t, retained).rows[k], t, retained)
         /\ Add(tab, k, t, retained).rows[k].services = tab.rows[k].services
         /\ \A l \in DOMAIN tab.rows \ {k} : Add(tab, k, t, retained).rows[l] = tab.rows[l]
<1> DEFINE row == tab.rows[k]
<1> DEFINE set == IF retained THEN row.out ELSE row.in
<1> DEFINE counted == [row EXCEPT !.revision = @ + 1, !.spans = @ + (IF retained THEN 0 ELSE 1),
                                  !.kept = @ + (IF retained THEN 1 ELSE 0)]
<1> DEFINE full == t \in BadTraces \/ (t \notin set /\ tab.ids >= MaxTraceIDs)
<1>0. tab = [rows |-> tab.rows, ids |-> tab.ids] /\ IsTable(tab.rows) /\ tab.ids = Size(tab.rows) /\ tab.ids <= MaxTraceIDs
  BY DEF TableExact
<1>1. row \in UsageRow
  BY <1>0 DEF IsTable
<1>2. /\ counted \in UsageRow /\ counted.revision = row.revision + 1 /\ counted.in = row.in /\ counted.out = row.out
      /\ counted.spans = row.spans + (IF retained THEN 0 ELSE 1)
      /\ counted.services = row.services /\ counted.traces = row.traces
  <2> DEFINE fresh == IF retained THEN 0 ELSE 1
  <2> DEFINE stayed == IF retained THEN 1 ELSE 0
  <2>1. fresh \in Nat /\ stayed \in Nat
    OBVIOUS
  <2>2. counted = [row EXCEPT !.revision = @ + 1, !.spans = @ + fresh, !.kept = @ + stayed]
    OBVIOUS
  <2> HIDE DEF fresh, stayed, counted, row
  <2>3. counted = [spans |-> row.spans + fresh, kept |-> row.kept + stayed, in |-> row.in, out |-> row.out,
                   revision |-> row.revision + 1, traces |-> row.traces, services |-> row.services]
    BY <1>1, <2>2 DEF UsageRow
  <2>4. row.spans + fresh \in Nat /\ row.kept + stayed \in Nat /\ row.revision + 1 \in Nat
    BY <1>1, <2>1 DEF UsageRow
  <2>5. counted \in UsageRow
    BY <1>1, <2>3, <2>4 DEF UsageRow
  <2>6. counted.spans = row.spans + (IF retained THEN 0 ELSE 1)
    BY <2>3 DEF fresh
  <2> QED
    BY <2>3, <2>5, <2>6
<1>3. CASE full
  <2> DEFINE new == [counted EXCEPT !.traces = FALSE]
  <2> DEFINE rows == [tab.rows EXCEPT ![k] = new]
  <2>1. Add(tab, k, t, retained) = [tab EXCEPT !.rows[k] = new]
    BY <1>3 DEF Add
  <2> HIDE DEF counted, full
  <2>2. new \in UsageRow /\ new.revision = counted.revision /\ new.in = counted.in /\ new.out = counted.out /\ ~new.traces
        /\ new.spans = counted.spans /\ new.services = counted.services
    BY <1>2 DEF UsageRow
  <2> HIDE DEF new
  <2>3. Add(tab, k, t, retained) = [rows |-> rows, ids |-> tab.ids]
    BY <1>0, <2>1
  <2>4. DOMAIN rows = DOMAIN tab.rows /\ rows[k] = new /\ \A l \in DOMAIN tab.rows \ {k} : rows[l] = tab.rows[l]
    OBVIOUS
  <2>5. IsTable(rows)
    BY <1>0, <2>2 DEF IsTable
  <2> HIDE DEF rows
  <2>6. Size(rows) = tab.ids
    BY <1>0, <1>2, <2>2, <2>4, SameSize
  <2>7. TableExact(Add(tab, k, t, retained))
    BY <1>0, <2>3, <2>5, <2>6 DEF TableExact
  <2>8. SpanCounted(row, new, t, retained)
    BY <1>1, <1>2, <2>2 DEF SpanCounted, UsageRow
  <2> QED
    BY <1>2, <2>2, <2>3, <2>4, <2>7, <2>8
<1>4. CASE ~full
  <2> DEFINE new == IF retained THEN [counted EXCEPT !.out = @ \cup {t}] ELSE [counted EXCEPT !.in = @ \cup {t}]
  <2> DEFINE rows == [tab.rows EXCEPT ![k] = new]
  <2>1. Add(tab, k, t, retained) = [rows |-> rows, ids |-> tab.ids + (IF t \in set THEN 0 ELSE 1)]
    BY <1>4 DEF Add
  <2>2. t \in SpanTraces /\ (t \in set \/ tab.ids < MaxTraceIDs)
    <3>1. tab.ids \in Nat
      BY <1>0, IdsFinite
    <3> QED
      BY <1>4, <3>1, UsageAssumption
  <2> HIDE DEF counted, full
  <2>3. new \in UsageRow /\ new.revision = counted.revision /\ new.traces = counted.traces
        /\ new.spans = counted.spans /\ new.services = counted.services
        /\ new.in = (IF retained THEN row.in ELSE row.in \cup {t})
        /\ new.out = (IF retained THEN row.out \cup {t} ELSE row.out)
    BY <1>2, <2>2 DEF UsageRow
  <2> HIDE DEF new
  <2>4. DOMAIN rows = DOMAIN tab.rows /\ rows[k] = new /\ \A l \in DOMAIN tab.rows \ {k} : rows[l] = tab.rows[l]
    OBVIOUS
  <2>5. IsTable(rows)
    BY <1>0, <2>3 DEF IsTable
  <2> HIDE DEF rows
  <2>6. /\ IsFiniteSet(ReceivedIds(tab.rows)) /\ IsFiniteSet(RetainedIds(tab.rows)) /\ tab.ids \in Nat
        /\ Cardinality(ReceivedIds(tab.rows)) \in Nat /\ Cardinality(RetainedIds(tab.rows)) \in Nat
    BY <1>0, IdsFinite
  <2>7. Size(rows) = tab.ids + (IF t \in set THEN 0 ELSE 1)
    <3>1. CASE retained
      <4>1. ReceivedIds(rows) = ReceivedIds(tab.rows)
        BY <2>3, <2>4, <3>1 DEF ReceivedIds
      <4>2. RetainedIds(rows) = RetainedIds(tab.rows) \cup {<<k, t>>}
        BY <2>2, <2>3, <2>4, <3>1 DEF RetainedIds
      <4>3. <<k, t>> \in RetainedIds(tab.rows) <=> t \in set
        BY <2>2, <3>1 DEF RetainedIds
      <4>4. Cardinality(RetainedIds(rows)) = Cardinality(RetainedIds(tab.rows)) + (IF t \in set THEN 0 ELSE 1)
        <5> HIDE DEF set
        <5>1. Cardinality(RetainedIds(tab.rows) \cup {<<k, t>>}) =
                IF <<k, t>> \in RetainedIds(tab.rows) THEN Cardinality(RetainedIds(tab.rows)) ELSE Cardinality(RetainedIds(tab.rows)) + 1
          BY <2>6, FS_AddElement
        <5> QED
          BY <2>6, <4>2, <4>3, <5>1
      <4> HIDE DEF set
      <4> QED
        BY <1>0, <2>6, <4>1, <4>4 DEF Size
    <3>2. CASE ~retained
      <4>1. RetainedIds(rows) = RetainedIds(tab.rows)
        BY <2>3, <2>4, <3>2 DEF RetainedIds
      <4>2. ReceivedIds(rows) = ReceivedIds(tab.rows) \cup {<<k, t>>}
        BY <2>2, <2>3, <2>4, <3>2 DEF ReceivedIds
      <4>3. <<k, t>> \in ReceivedIds(tab.rows) <=> t \in set
        BY <2>2, <3>2 DEF ReceivedIds
      <4>4. Cardinality(ReceivedIds(rows)) = Cardinality(ReceivedIds(tab.rows)) + (IF t \in set THEN 0 ELSE 1)
        <5> HIDE DEF set
        <5>1. Cardinality(ReceivedIds(tab.rows) \cup {<<k, t>>}) =
                IF <<k, t>> \in ReceivedIds(tab.rows) THEN Cardinality(ReceivedIds(tab.rows)) ELSE Cardinality(ReceivedIds(tab.rows)) + 1
          BY <2>6, FS_AddElement
        <5> QED
          BY <2>6, <4>2, <4>3, <5>1
      <4> HIDE DEF set
      <4> QED
        BY <1>0, <2>6, <4>1, <4>4 DEF Size
    <3> QED
      BY <3>1, <3>2
  <2>8. TableExact(Add(tab, k, t, retained))
    BY <1>0, <2>1, <2>2, <2>5, <2>6, <2>7, UsageAssumption DEF TableExact
  <2>9. SpanCounted(row, new, t, retained)
    BY <1>1, <1>2, <2>3 DEF SpanCounted, UsageRow
  <2> QED
    BY <1>2, <2>1, <2>3, <2>4, <2>8, <2>9
<1> QED
  BY <1>3, <1>4

\* A row that gets other counts or flags and keeps its ids.
LEMMA RowReplaced ==
  ASSUME NEW tab, TableExact(tab), NEW k \in DOMAIN tab.rows, NEW r \in UsageRow,
         r.in = tab.rows[k].in, r.out = tab.rows[k].out, NEW new, new = [tab EXCEPT !.rows[k] = r]
  PROVE  /\ TableExact(new) /\ DOMAIN new.rows = DOMAIN tab.rows /\ new.rows[k] = r
         /\ \A l \in DOMAIN tab.rows \ {k} : new.rows[l] = tab.rows[l]
<1> DEFINE rows == [tab.rows EXCEPT ![k] = r]
<1>1. tab = [rows |-> tab.rows, ids |-> tab.ids] /\ IsTable(tab.rows) /\ tab.ids = Size(tab.rows) /\ tab.ids <= MaxTraceIDs
  BY DEF TableExact
<1>2. new = [rows |-> rows, ids |-> tab.ids]
  BY <1>1
<1>3. DOMAIN rows = DOMAIN tab.rows /\ rows[k] = r /\ \A l \in DOMAIN tab.rows \ {k} : rows[l] = tab.rows[l]
  OBVIOUS
<1>4. IsTable(rows)
  BY <1>1 DEF IsTable
<1> HIDE DEF rows
<1>5. Size(rows) = tab.ids
  BY <1>1, <1>3, SameSize
<1> QED
  BY <1>1, <1>2, <1>3, <1>4, <1>5 DEF TableExact

\* One span in one direction: the collector's row counts it; if that row still claims to
\* have every service, the row of the service counts it too.
CountedInto(tab, new, s, t, retained) ==
  /\ TableExact(new) /\ DOMAIN tab.rows \subseteq DOMAIN new.rows
  /\ DOMAIN new.rows \subseteq DOMAIN tab.rows \cup {<<minute, s>>}
  /\ SpanCounted(tab.rows[<<minute, "collector">>], new.rows[<<minute, "collector">>], t, retained)
  /\ new.rows[<<minute, "collector">>].services =>
       /\ tab.rows[<<minute, "collector">>].services
       /\ SpanCounted(RowIn(tab, <<minute, s>>), RowIn(new, <<minute, s>>), t, retained)
  /\ \A l \in DOMAIN tab.rows : new.rows[l] = tab.rows[l] \/ new.rows[l].revision > tab.rows[l].revision
  /\ \A l : l \notin {<<minute, "collector">>, <<minute, s>>} => RowIn(new, l) = RowIn(tab, l)

LEMMA CountExact ==
  ASSUME NEW tab, TableExact(tab), NEW s \in Services, NEW t \in SpanTraces \cup BadTraces,
         NEW retained \in BOOLEAN, minute \in 0 .. MaxMinute, <<minute, "collector">> \in DOMAIN tab.rows,
         NEW new, new = Count(tab, s, t, retained)
  PROVE  CountedInto(tab, new, s, t, retained)
<1> DEFINE gk == <<minute, "collector">>
<1> DEFINE sk == <<minute, s>>
<1> DEFINE all == Add(tab, gk, t, retained)
<1> DEFINE own == Get(all, sk)
<1>0. gk # sk /\ gk \in Keys /\ sk \in Keys
  BY UsageAssumption DEF Keys
<1>1. /\ TableExact(all) /\ DOMAIN all.rows = DOMAIN tab.rows /\ SpanCounted(tab.rows[gk], all.rows[gk], t, retained)
      /\ all.rows[gk].services = tab.rows[gk].services
      /\ \A l \in DOMAIN tab.rows \ {gk} : all.rows[l] = tab.rows[l]
  BY AddExact
<1> HIDE DEF all
<1>2. /\ TableExact(own) /\ DOMAIN all.rows \subseteq DOMAIN own.rows /\ DOMAIN own.rows \subseteq DOMAIN all.rows \cup {sk}
      /\ \A l : RowIn(own, l) = RowIn(all, l)
  BY <1>0, <1>1, GetExact
<1> HIDE DEF own
<1>3. new = IF sk \in DOMAIN own.rows THEN Add(own, sk, t, retained) ELSE [all EXCEPT !.rows[gk].services = FALSE]
  BY DEF Count, own, all
<1>4. own.rows[gk] = all.rows[gk]
  BY <1>1, <1>2 DEF RowIn
<1>5. \A l : l # gk => RowIn(all, l) = RowIn(tab, l)
  BY <1>1 DEF RowIn
<1>6. all.rows[gk] \in UsageRow
  BY <1>1 DEF SpanCounted
<1> HIDE DEF gk, sk
<1>7. CASE sk \in DOMAIN own.rows
  <2>1. /\ TableExact(new) /\ DOMAIN new.rows = DOMAIN own.rows /\ SpanCounted(own.rows[sk], new.rows[sk], t, retained)
        /\ \A l \in DOMAIN own.rows \ {sk} : new.rows[l] = own.rows[l]
    BY <1>2, <1>3, <1>7, AddExact
  <2>2. new.rows[gk] = all.rows[gk] /\ gk \in DOMAIN own.rows
    BY <1>0, <1>1, <1>2, <1>4, <2>1 DEF gk
  <2>3. own.rows[sk] = RowIn(tab, sk) /\ new.rows[sk] = RowIn(new, sk)
    BY <1>0, <1>2, <1>5, <1>7, <2>1 DEF RowIn
  <2>4. \A l : l \notin {gk, sk} => RowIn(new, l) = RowIn(tab, l)
    <3> SUFFICES ASSUME NEW l, l # gk, l # sk PROVE RowIn(new, l) = RowIn(own, l)
      BY <1>2, <1>5
    <3> QED
      BY <2>1 DEF RowIn
  <2>5. ASSUME NEW l \in DOMAIN tab.rows PROVE new.rows[l] = tab.rows[l] \/ new.rows[l].revision > tab.rows[l].revision
    <3>1. CASE l = gk
      BY <1>1, <2>2, <3>1 DEF SpanCounted, gk
    <3>2. CASE l = sk
      <4>1. RowIn(tab, sk) = tab.rows[sk]
        BY <3>2 DEF RowIn
      <4> QED
        BY <2>1, <2>3, <3>2, <4>1 DEF SpanCounted
    <3>3. CASE l # gk /\ l # sk
      <4>1. RowIn(new, l) = new.rows[l] /\ RowIn(tab, l) = tab.rows[l]
        BY <1>1, <1>2, <2>1 DEF RowIn
      <4> QED
        BY <2>4, <3>3, <4>1
    <3> QED
      BY <3>1, <3>2, <3>3
  <2>6. DOMAIN tab.rows \subseteq DOMAIN new.rows /\ DOMAIN new.rows \subseteq DOMAIN tab.rows \cup {sk}
    BY <1>1, <1>2, <2>1
  <2> QED
    BY <1>1, <2>1, <2>2, <2>3, <2>4, <2>5, <2>6 DEF gk, sk, CountedInto
<1>8. CASE sk \notin DOMAIN own.rows
  <2> DEFINE r == [all.rows[gk] EXCEPT !.services = FALSE]
  <2>1. new = [all EXCEPT !.rows[gk] = r]
    BY <1>3, <1>8
  <2>2. /\ r \in UsageRow /\ r.in = all.rows[gk].in /\ r.out = all.rows[gk].out /\ ~r.services
        /\ r.revision = all.rows[gk].revision /\ r.spans = all.rows[gk].spans /\ r.traces = all.rows[gk].traces
    BY <1>6 DEF UsageRow
  <2> HIDE DEF r
  <2>3. gk \in DOMAIN all.rows
    BY <1>1 DEF gk
  <2>4. /\ TableExact(new) /\ DOMAIN new.rows = DOMAIN all.rows /\ new.rows[gk] = r
        /\ \A l \in DOMAIN all.rows \ {gk} : new.rows[l] = all.rows[l]
    BY <1>1, <2>1, <2>2, <2>3, RowReplaced
  <2>5. SpanCounted(tab.rows[gk], new.rows[gk], t, retained)
    BY <1>1, <2>2, <2>4 DEF SpanCounted
  <2>6. \A l : l \notin {gk, sk} => RowIn(new, l) = RowIn(tab, l)
    BY <1>1, <2>4 DEF RowIn
  <2>7. \A l \in DOMAIN tab.rows : new.rows[l] = tab.rows[l] \/ new.rows[l].revision > tab.rows[l].revision
    BY <1>1, <2>4, <2>5 DEF SpanCounted
  <2> QED
    BY <1>1, <2>2, <2>4, <2>5, <2>6, <2>7 DEF gk, sk, CountedInto
<1> QED
  BY <1>7, <1>8

-----------------------------------------------------------------------------
(* Usage counters: the steps *)

\* What an observed span of trace t does to a row that keeps its claims.
Grown(old, new, t) ==
  /\ new.spans = old.spans + 1
  /\ new.traces => old.traces /\ new.in = old.in \cup {t}

\* What Observe makes of the table: old minutes go, the rows of the span count it or the
\* collector's no longer claims to be complete, the other rows stay.
ObservedTable(s, t) ==
  /\ TableExact(table') /\ DOMAIN table.rows \ Old(table) \subseteq DOMAIN table'.rows
  /\ DOMAIN table'.rows \subseteq (DOMAIN table.rows \ Old(table)) \cup {<<minute, "collector">>, <<minute, s>>}
  /\ \A l \in DOMAIN table.rows \ Old(table) :
       table'.rows[l] = table.rows[l] \/ table'.rows[l].revision > table.rows[l].revision
  /\ \A l : l \notin {<<minute, "collector">>, <<minute, s>>} \cup Old(table) => RowIn(table', l) = RowIn(table, l)
  /\ <<minute, "collector">> \in DOMAIN table'.rows
  /\ table'.rows[<<minute, "collector">>].services =>
       /\ RowIn(table, <<minute, "collector">>).services
       /\ Grown(RowIn(table, <<minute, "collector">>), table'.rows[<<minute, "collector">>], t)
       /\ Grown(RowIn(table, <<minute, s>>), RowIn(table', <<minute, s>>), t)

LEMMA ObserveTable ==
  ASSUME UsageInv, NEW s \in Services, NEW t \in SpanTraces \cup BadTraces, NEW retained \in BOOLEAN,
         NEW parsed \in BOOLEAN, Observe(s, t, retained, parsed)
  PROVE  ObservedTable(s, t)
<1> DEFINE gk == <<minute, "collector">>
<1> DEFINE sk == <<minute, s>>
<1> DEFINE kept == Without(table, Old(table))
<1> DEFINE opened == Get(kept, gk)
<1> DEFINE received == IF parsed THEN Count(opened, s, t, FALSE)
                       ELSE [opened EXCEPT !.rows[gk].traces = FALSE, !.rows[gk].services = FALSE]
<1> DEFINE done == IF parsed /\ retained THEN Count(received, s, t, TRUE) ELSE received
<1>0. gk # sk /\ gk \in Keys /\ sk \in Keys /\ gk[1] = minute /\ sk[1] = minute /\ gk[2] = "collector"
  BY UsageAssumption DEF Keys, UsageInv
<1>1. minute \in 0 .. MaxMinute /\ minute \in Nat /\ TableExact(table)
  BY UsageAssumption DEF UsageInv
<1>2. gk \notin Old(table) /\ sk \notin Old(table) /\ Old(table) \subseteq DOMAIN table.rows
  BY <1>0, <1>1, UsageAssumption DEF Old
<1>3. /\ TableExact(kept) /\ DOMAIN kept.rows = DOMAIN table.rows \ Old(table)
      /\ \A k \in DOMAIN table.rows \ Old(table) : kept.rows[k] = table.rows[k]
  BY <1>1, <1>2, WithoutExact
<1>4. table' = [done EXCEPT !.rows[gk].revision = @ + 1]
  BY DEF Observe
<1> HIDE DEF kept
<1>5. /\ TableExact(opened) /\ DOMAIN kept.rows \subseteq DOMAIN opened.rows
      /\ DOMAIN opened.rows \subseteq DOMAIN kept.rows \cup {gk}
      /\ \A l : RowIn(opened, l) = RowIn(kept, l)
      /\ gk \in DOMAIN opened.rows
  BY <1>0, <1>3, GetExact
<1> HIDE DEF opened
<1>6. \A l : l \notin Old(table) => RowIn(kept, l) = RowIn(table, l)
  BY <1>3 DEF RowIn
<1>7. opened.rows[gk] = RowIn(table, gk) /\ RowIn(opened, sk) = RowIn(table, sk)
  BY <1>2, <1>5, <1>6 DEF RowIn
<1>8. opened.rows[gk] \in UsageRow
  BY <1>5 DEF TableExact, IsTable
<1>9. /\ TableExact(received) /\ DOMAIN opened.rows \subseteq DOMAIN received.rows
      /\ DOMAIN received.rows \subseteq DOMAIN opened.rows \cup {sk}
      /\ \A l \in DOMAIN opened.rows : \/ received.rows[l] = opened.rows[l]
                                       \/ received.rows[l].revision > opened.rows[l].revision
                                       \/ l = gk /\ received.rows[l].revision = opened.rows[l].revision
      /\ \A l : l \notin {gk, sk} => RowIn(received, l) = RowIn(opened, l)
      /\ received.rows[gk].services =>
           /\ parsed /\ opened.rows[gk].services /\ Grown(opened.rows[gk], received.rows[gk], t)
           /\ Grown(RowIn(opened, sk), RowIn(received, sk), t)
  <2>1. CASE parsed
    <3>1. received = Count(opened, s, t, FALSE)
      BY <2>1
    <3> HIDE DEF received
    <3>2. /\ TableExact(received) /\ DOMAIN opened.rows \subseteq DOMAIN received.rows
          /\ DOMAIN received.rows \subseteq DOMAIN opened.rows \cup {sk}
          /\ SpanCounted(opened.rows[gk], received.rows[gk], t, FALSE)
          /\ received.rows[gk].services =>
               /\ opened.rows[gk].services /\ SpanCounted(RowIn(opened, sk), RowIn(received, sk), t, FALSE)
          /\ \A l \in DOMAIN opened.rows : received.rows[l] = opened.rows[l] \/ received.rows[l].revision > opened.rows[l].revision
          /\ \A l : l \notin {gk, sk} => RowIn(received, l) = RowIn(opened, l)
      <4> DEFINE direction == FALSE
      <4>1. direction \in BOOLEAN /\ received = Count(opened, s, t, direction)
        BY <3>1
      <4>2. direction = FALSE
        OBVIOUS
      <4> HIDE DEF direction
      <4>3. CountedInto(opened, received, s, t, direction)
        BY <1>1, <1>5, <4>1, CountExact
      <4> QED
        BY <4>2, <4>3 DEF CountedInto
    <3> HIDE DEF gk, sk
    <3> QED
      BY <2>1, <3>2 DEF SpanCounted, Grown
  <2>2. CASE ~parsed
    <3> DEFINE r == [[opened.rows[gk] EXCEPT !.traces = FALSE] EXCEPT !.services = FALSE]
    <3>1. received = [opened EXCEPT !.rows[gk] = r]
      <4>1. received = [opened EXCEPT !.rows[gk].traces = FALSE, !.rows[gk].services = FALSE]
        BY <2>2
      <4>2. opened = [rows |-> opened.rows, ids |-> opened.ids] /\ opened.rows = [k \in DOMAIN opened.rows |-> opened.rows[k]]
        BY <1>5 DEF TableExact, IsTable
      <4> HIDE DEF received, gk
      <4> QED
        BY <1>5, <1>8, <4>1, <4>2 DEF UsageRow
    <3>2. /\ r \in UsageRow /\ r.in = opened.rows[gk].in /\ r.out = opened.rows[gk].out /\ ~r.services
          /\ r.revision = opened.rows[gk].revision
      BY <1>8 DEF UsageRow
    <3> HIDE DEF r, received
    <3>3. /\ TableExact(received) /\ DOMAIN received.rows = DOMAIN opened.rows /\ received.rows[gk] = r
          /\ \A l \in DOMAIN opened.rows \ {gk} : received.rows[l] = opened.rows[l]
      BY <1>5, <3>1, <3>2, RowReplaced
    <3>4. \A l : l \notin {gk, sk} => RowIn(received, l) = RowIn(opened, l)
      BY <3>3 DEF RowIn
    <3> HIDE DEF gk, sk
    <3> QED
      BY <3>2, <3>3, <3>4
  <2> QED
    BY <2>1, <2>2
<1>10. gk \in DOMAIN received.rows
  BY <1>5, <1>9
<1> HIDE DEF received
<1>11. received.rows \in [DOMAIN received.rows -> UsageRow] /\ RowIn(received, sk) \in UsageRow
  BY <1>9 DEF TableExact, IsTable, RowIn, NewRow, UsageRow
<1>12. /\ TableExact(done) /\ DOMAIN opened.rows \subseteq DOMAIN done.rows
       /\ DOMAIN done.rows \subseteq DOMAIN opened.rows \cup {sk}
       /\ \A l \in DOMAIN opened.rows : \/ done.rows[l] = opened.rows[l]
                                        \/ done.rows[l].revision > opened.rows[l].revision
                                        \/ l = gk /\ done.rows[l].revision = opened.rows[l].revision
       /\ \A l : l \notin {gk, sk} => RowIn(done, l) = RowIn(opened, l)
       /\ done.rows[gk].services =>
            /\ opened.rows[gk].services /\ Grown(opened.rows[gk], done.rows[gk], t)
            /\ Grown(RowIn(opened, sk), RowIn(done, sk), t)
  <2>1. CASE parsed /\ retained
    <3> DEFINE direction == TRUE
    <3>1. direction \in BOOLEAN /\ done = Count(received, s, t, direction)
      BY <2>1
    <3>2. direction = TRUE
      OBVIOUS
    <3> HIDE DEF direction, done
    <3>3. CountedInto(received, done, s, t, direction)
      BY <1>1, <1>9, <1>10, <3>1, CountExact
    <3>4. /\ TableExact(done) /\ DOMAIN received.rows \subseteq DOMAIN done.rows
          /\ DOMAIN done.rows \subseteq DOMAIN received.rows \cup {sk}
          /\ SpanCounted(received.rows[gk], done.rows[gk], t, TRUE)
          /\ done.rows[gk].services =>
               /\ received.rows[gk].services /\ SpanCounted(RowIn(received, sk), RowIn(done, sk), t, TRUE)
          /\ \A l \in DOMAIN received.rows : done.rows[l] = received.rows[l] \/ done.rows[l].revision > received.rows[l].revision
          /\ \A l : l \notin {gk, sk} => RowIn(done, l) = RowIn(received, l)
      BY <3>2, <3>3 DEF CountedInto
    <3> HIDE DEF gk, sk
    <3>5. ASSUME NEW l \in DOMAIN opened.rows
          PROVE  \/ done.rows[l] = opened.rows[l]
                 \/ done.rows[l].revision > opened.rows[l].revision
                 \/ l = gk /\ done.rows[l].revision = opened.rows[l].revision
      <4>1. l \in DOMAIN received.rows /\ l \in DOMAIN done.rows
        BY <1>9, <3>4
      <4>2. received.rows[l].revision \in Nat /\ done.rows[l].revision \in Nat /\ opened.rows[l].revision \in Nat
        BY <1>5, <1>11, <3>4, <4>1 DEF TableExact, IsTable, UsageRow
      <4> QED
        BY <1>9, <3>4, <4>1, <4>2
    <3>6. ASSUME done.rows[gk].services
          PROVE  /\ opened.rows[gk].services /\ Grown(opened.rows[gk], done.rows[gk], t)
                 /\ Grown(RowIn(opened, sk), RowIn(done, sk), t)
      <4>1. /\ received.rows[gk].services /\ SpanCounted(RowIn(received, sk), RowIn(done, sk), t, TRUE)
            /\ opened.rows[gk].services /\ Grown(opened.rows[gk], received.rows[gk], t)
            /\ Grown(RowIn(opened, sk), RowIn(received, sk), t)
        BY <1>9, <3>4, <3>6
      <4>2. received.rows[gk].spans \in Nat /\ RowIn(received, sk).spans \in Nat
        BY <1>10, <1>11 DEF UsageRow
      <4>3. Grown(opened.rows[gk], done.rows[gk], t)
        BY <3>4, <4>1, <4>2 DEF SpanCounted, Grown
      <4>4. Grown(RowIn(opened, sk), RowIn(done, sk), t)
        BY <4>1, <4>2 DEF SpanCounted, Grown
      <4> QED
        BY <4>1, <4>3, <4>4
    <3> QED
      BY <1>9, <3>4, <3>5, <3>6
  <2>2. CASE ~(parsed /\ retained)
    <3>1. done = received
      BY <2>2
    <3> HIDE DEF done, gk, sk
    <3> QED
      BY <1>9, <3>1
  <2> QED
    BY <2>1, <2>2
<1>13. gk \in DOMAIN done.rows
  BY <1>5, <1>12
<1> HIDE DEF done
<1>14. done.rows[gk] \in UsageRow
  BY <1>12, <1>13 DEF TableExact, IsTable
<1> DEFINE last == [done.rows[gk] EXCEPT !.revision = @ + 1]
<1>15. table' = [done EXCEPT !.rows[gk] = last]
  BY <1>4
<1>16. /\ last \in UsageRow /\ last.in = done.rows[gk].in /\ last.out = done.rows[gk].out
       /\ last.revision = done.rows[gk].revision + 1 /\ last.spans = done.rows[gk].spans
       /\ last.traces = done.rows[gk].traces /\ last.services = done.rows[gk].services
  BY <1>14 DEF UsageRow
<1> HIDE DEF last
<1>17. /\ TableExact(table') /\ DOMAIN table'.rows = DOMAIN done.rows /\ table'.rows[gk] = last
       /\ \A l \in DOMAIN done.rows \ {gk} : table'.rows[l] = done.rows[l]
  BY <1>12, <1>13, <1>15, <1>16, RowReplaced
<1> HIDE DEF gk, sk
<1>18. ASSUME NEW l \in DOMAIN table.rows \ Old(table)
       PROVE  table'.rows[l] = table.rows[l] \/ table'.rows[l].revision > table.rows[l].revision
  <2>1. l \in DOMAIN opened.rows /\ l \in DOMAIN done.rows /\ opened.rows[l] = table.rows[l]
    BY <1>3, <1>5, <1>12 DEF RowIn
  <2>2. opened.rows[l].revision \in Nat /\ done.rows[l].revision \in Nat
    BY <1>5, <1>12, <2>1 DEF TableExact, IsTable, UsageRow
  <2>3. CASE l = gk
    BY <1>12, <1>16, <1>17, <2>1, <2>2, <2>3
  <2>4. CASE l # gk
    BY <1>12, <1>17, <2>1, <2>4
  <2> QED
    BY <2>3, <2>4
<1>19. ASSUME NEW l, l \notin {gk, sk} \cup Old(table) PROVE RowIn(table', l) = RowIn(table, l)
  <2>1. RowIn(done, l) = RowIn(opened, l) /\ RowIn(opened, l) = RowIn(table, l)
    BY <1>5, <1>6, <1>12, <1>19
  <2>2. RowIn(table', l) = RowIn(done, l)
    BY <1>17, <1>19 DEF RowIn
  <2> QED
    BY <2>1, <2>2
<1>20. ASSUME table'.rows[gk].services
       PROVE  /\ RowIn(table, gk).services /\ Grown(RowIn(table, gk), table'.rows[gk], t)
              /\ Grown(RowIn(table, sk), RowIn(table', sk), t)
  <2>1. /\ opened.rows[gk].services /\ Grown(opened.rows[gk], done.rows[gk], t)
        /\ Grown(RowIn(opened, sk), RowIn(done, sk), t)
    BY <1>12, <1>16, <1>17, <1>20
  <2>2. RowIn(table', sk) = RowIn(done, sk)
    BY <1>0, <1>17 DEF RowIn
  <2> QED
    BY <1>7, <1>16, <1>17, <2>1, <2>2 DEF Grown
<1>21. /\ DOMAIN table.rows \ Old(table) \subseteq DOMAIN table'.rows
       /\ DOMAIN table'.rows \subseteq (DOMAIN table.rows \ Old(table)) \cup {gk, sk}
  BY <1>3, <1>5, <1>12, <1>17
<1> QED
  BY <1>13, <1>17, <1>18, <1>19, <1>20, <1>21 DEF ObservedTable, gk, sk

LEMMA UsageInitInv == UsageInit => UsageInv
<1> SUFFICES ASSUME UsageInit PROVE UsageInv
  OBVIOUS
<1>1. table = [rows |-> NoRows, ids |-> 0] /\ server = NoRows /\ flushing = [at |-> -1, rows |-> NoRows] /\ minute = 0
      /\ gone = {} /\ lost = 0 /\ usageOn = TRUE /\ seen = [k \in Keys |-> [spans |-> 0, traces |-> {}]]
  BY DEF UsageInit, NoFlush
<1>2. DOMAIN NoRows = {} /\ IsTable(NoRows)
  BY DEF NoRows, IsTable
<1>3. ReceivedIds(NoRows) = {} /\ RetainedIds(NoRows) = {}
  BY <1>2 DEF ReceivedIds, RetainedIds
<1>4. TableExact(table)
  <2>1. Size(NoRows) = 0
    BY <1>3, FS_EmptySet DEF Size
  <2>2. table.rows = NoRows /\ table.ids = 0
    BY <1>1
  <2> QED
    BY <1>1, <1>2, <2>1, <2>2, UsageAssumption DEF TableExact
<1>5. MinutesTrue /\ ServerTrue /\ FlightTrue
  BY <1>1, <1>2, FS_EmptySet DEF MinutesTrue, ServerTrue, FlightTrue
<1>6. AllComplete
  <2> SUFFICES ASSUME NEW m \in 0 .. MaxMinute, NEW s \in {"collector"} \cup Services PROVE Complete(m, s)
    BY DEF AllComplete
  <2>1. Row(<<m, s>>) = NewRow /\ <<m, s>> \in Keys
    BY <1>1, <1>2 DEF Row, Keys
  <2>2. seen[<<m, s>>].spans = 0 /\ seen[<<m, s>>].traces = {} /\ NewRow.spans = 0 /\ NewRow.in = {}
    BY <1>1, <2>1 DEF NewRow
  <2> QED
    BY <2>1, <2>2 DEF Complete
<1> QED
  BY <1>1, <1>4, <1>5, <1>6, UsageAssumption DEF UsageInv

\* prune: the minutes that go were not counted before, and none of the rows that stay is
\* of one of them.
LEMMA PrunedTrue ==
  ASSUME UsageInv, Pruned
  PROVE  /\ IsFiniteSet(gone') /\ lost' = Cardinality(gone') /\ gone \subseteq gone'
         /\ \A m \in gone' : m \in Nat /\ m + MaxBuckets <= minute
         /\ \A k \in DOMAIN table.rows : k[1] \in Nat /\ (k \in Old(table) <=> k[1] \in gone')
         /\ minute \notin gone'
<1> DEFINE old == {k[1] : k \in Old(table)}
<1>1. gone' = gone \cup old /\ lost' = lost + Cardinality(old)
  BY DEF Pruned
<1>2. minute \in Nat /\ \A k \in DOMAIN table.rows : k[1] \in 0 .. MaxMinute /\ k[1] \in Nat /\ k[1] \notin gone
  BY UsageAssumption DEF UsageInv, TableExact, IsTable, MinutesTrue, Keys
<1>3. Old(table) = {k \in DOMAIN table.rows : k[1] <= minute - MaxBuckets}
  BY DEF Old
<1>4. old \subseteq 0 .. MaxMinute /\ gone \cap old = {}
  BY <1>2, <1>3
<1>5. IsFiniteSet(old)
  <2>1. IsFiniteSet(0 .. MaxMinute)
    BY FS_Interval, UsageAssumption
  <2> QED
    BY <1>4, <2>1, FS_Subset
<1>6. IsFiniteSet(gone) /\ lost = Cardinality(gone) /\ \A m \in gone : m \in Nat /\ m + MaxBuckets <= minute
  BY DEF UsageInv, MinutesTrue
<1>7. \A m \in old : m \in Nat /\ m + MaxBuckets <= minute
  BY <1>2, <1>3, UsageAssumption
<1>8. \A k \in DOMAIN table.rows : k \in Old(table) <=> k[1] \in gone'
  BY <1>1, <1>2, <1>3
<1> HIDE DEF old
<1>9. IsFiniteSet(gone') /\ lost' = Cardinality(gone')
  BY <1>1, <1>4, <1>5, <1>6, DisjointUnion
<1>10. minute \notin gone'
  BY <1>1, <1>2, <1>6, <1>7, UsageAssumption
<1> QED
  BY <1>1, <1>2, <1>6, <1>7, <1>8, <1>9, <1>10

\* When the table changes for the rows of the span only and old minutes go, what the
\* server and the request in flight have stays true.
LEMMA ObserveKeeps ==
  ASSUME UsageInv, NEW s \in Services, NEW t \in SpanTraces \cup BadTraces, NEW retained \in BOOLEAN,
         NEW parsed \in BOOLEAN, Observe(s, t, retained, parsed)
  PROVE  UsageInv'
<1> DEFINE gk == <<minute, "collector">>
<1> DEFINE sk == <<minute, s>>
<1>0. gk # sk /\ gk \in Keys /\ sk \in Keys /\ gk[1] = minute /\ sk[1] = minute
  BY UsageAssumption DEF Keys, UsageInv
<1>1. Pruned /\ UNCHANGED <<minute, usageOn, flushing, server>>
      /\ seen' = [k \in Keys |-> IF k \in {gk, sk}
                                 THEN [spans |-> seen[k].spans + 1, traces |-> seen[k].traces \cup {t}] ELSE seen[k]]
  BY DEF Observe
<1>2. ObservedTable(s, t)
  BY ObserveTable
<1>3. /\ IsFiniteSet(gone') /\ lost' = Cardinality(gone') /\ gone \subseteq gone'
      /\ \A m \in gone' : m \in Nat /\ m + MaxBuckets <= minute
      /\ \A k \in DOMAIN table.rows : k[1] \in Nat /\ (k \in Old(table) <=> k[1] \in gone')
      /\ minute \notin gone'
  BY <1>1, PrunedTrue
<1>4. /\ TableExact(table') /\ DOMAIN table.rows \ Old(table) \subseteq DOMAIN table'.rows
      /\ DOMAIN table'.rows \subseteq (DOMAIN table.rows \ Old(table)) \cup {gk, sk}
      /\ \A l \in DOMAIN table.rows \ Old(table) :
           table'.rows[l] = table.rows[l] \/ table'.rows[l].revision > table.rows[l].revision
      /\ \A l : l \notin {gk, sk} \cup Old(table) => RowIn(table', l) = RowIn(table, l)
      /\ gk \in DOMAIN table'.rows
      /\ table'.rows[gk].services =>
           /\ RowIn(table, gk).services /\ Grown(RowIn(table, gk), table'.rows[gk], t)
           /\ Grown(RowIn(table, sk), RowIn(table', sk), t)
  BY <1>2 DEF ObservedTable
<1>5. minute \in Nat /\ minute \in 0 .. MaxMinute
  BY UsageAssumption DEF UsageInv
<1>6. seen' \in [Keys -> [spans : Nat, traces : SUBSET (SpanTraces \cup BadTraces)]]
  BY <1>1 DEF UsageInv
<1>7. Old(table) \subseteq DOMAIN table.rows
  BY DEF Old
<1> HIDE DEF gk, sk
<1>8. MinutesTrue'
  <2>1. \A k \in DOMAIN table'.rows : k[1] <= minute /\ k[1] \notin gone'
    BY <1>0, <1>3, <1>4, <1>5 DEF UsageInv, MinutesTrue
  <2> QED
    BY <1>1, <1>3, <2>1 DEF MinutesTrue
<1>9. ServerTrue'
  BY <1>1, <1>3, <1>4 DEF UsageInv, ServerTrue
<1>10. FlightTrue'
  <2>1. ASSUME NEW k \in DOMAIN flushing.rows
        PROVE  /\ k[1] <= minute /\ (k \in DOMAIN table'.rows \/ k[1] \in gone')
               /\ k \in DOMAIN table'.rows => \/ table'.rows[k] = flushing.rows[k]
                                              \/ table'.rows[k].revision > flushing.rows[k].revision
    <3>1. k[1] <= minute /\ (k \in DOMAIN table.rows \/ k[1] \in gone)
      BY DEF UsageInv, FlightTrue
    <3>2. CASE k[1] \in gone'
      <4>1. k \notin DOMAIN table'.rows
        BY <1>8, <3>2 DEF MinutesTrue
      <4> QED
        BY <3>1, <3>2, <4>1
    <3>3. CASE k[1] \notin gone'
      <4>1. k \in DOMAIN table.rows \ Old(table)
        BY <1>3, <3>1, <3>3
      <4>2. k \in DOMAIN table'.rows
        BY <1>4, <4>1
      <4>3. table.rows[k].revision \in Nat /\ table'.rows[k].revision \in Nat /\ flushing.rows[k].revision \in Nat
        BY <1>4, <4>1, <4>2 DEF UsageInv, FlightTrue, TableExact, IsTable, UsageRow
      <4>4. \/ table.rows[k] = flushing.rows[k]
            \/ table.rows[k].revision > flushing.rows[k].revision
        BY <4>1 DEF UsageInv, FlightTrue
      <4>5. table'.rows[k] = table.rows[k] \/ table'.rows[k].revision > table.rows[k].revision
        BY <1>4, <4>1
      <4> QED
        BY <3>1, <4>2, <4>3, <4>4, <4>5
    <3> QED
      BY <3>2, <3>3
  <2> QED
    BY <1>1, <2>1 DEF UsageInv, FlightTrue
<1>11. AllComplete'
  <2> SUFFICES ASSUME NEW m \in (0 .. MaxMinute) \ gone', NEW s0 \in {"collector"} \cup Services PROVE Complete(m, s0)'
    BY DEF AllComplete
  <2>0. <<m, "collector">> \in Keys /\ <<m, s0>> \in Keys /\ <<m, "collector">>[1] = m /\ <<m, s0>>[1] = m
    BY DEF Keys
  <2>1. Complete(m, "collector") /\ Complete(m, s0)
    BY <1>3 DEF UsageInv, AllComplete
  <2>2. CASE m # minute
    <3>1. \A k \in {<<m, "collector">>, <<m, s0>>} : k \notin {gk, sk} \cup Old(table)
      BY <1>0, <1>3, <1>7, <2>0, <2>2
    <3>2. \A k \in {<<m, "collector">>, <<m, s0>>} : k \in DOMAIN table'.rows <=> k \in DOMAIN table.rows
      BY <1>4, <3>1
    <3>3. \A k \in {<<m, "collector">>, <<m, s0>>} : Row(k)' = Row(k)
      BY <1>1, <1>4, <3>1, <3>2 DEF Row, RowIn
    <3>4. seen'[<<m, s0>>] = seen[<<m, s0>>]
      BY <1>1, <2>0, <3>1
    <3> QED
      BY <2>1, <3>3, <3>4 DEF Complete
  <2>3. CASE m = minute
    <3>1. \A k : k[1] = minute => Row(k) = RowIn(table, k)
      BY DEF UsageInv, ServerTrue, Row, RowIn
    <3>2. \A k : k[1] = minute => Row(k)' = RowIn(table', k)
      BY <1>1, <1>9 DEF ServerTrue, Row, RowIn
    <3>3. /\ Row(<<m, "collector">>)' = RowIn(table', <<m, "collector">>) /\ Row(<<m, s0>>)' = RowIn(table', <<m, s0>>)
          /\ Row(<<m, "collector">>) = RowIn(table, <<m, "collector">>) /\ Row(<<m, s0>>) = RowIn(table, <<m, s0>>)
      BY <2>0, <2>3, <3>1, <3>2
    <3>4. <<m, "collector">> = gk /\ RowIn(table', gk) = table'.rows[gk]
      BY <1>4, <2>3 DEF gk, RowIn
    <3>5. ASSUME <<m, s0>> \in {gk, sk} PROVE Complete(m, s0)'
      <4>1. /\ seen'[<<m, s0>>].spans = seen[<<m, s0>>].spans + 1
            /\ seen'[<<m, s0>>].traces = seen[<<m, s0>>].traces \cup {t}
        BY <1>0, <1>1, <3>5
      <4>2. SUFFICES ASSUME table'.rows[gk].services
                     PROVE  /\ RowIn(table', <<m, s0>>).spans = seen'[<<m, s0>>].spans
                            /\ RowIn(table', <<m, s0>>).traces => RowIn(table', <<m, s0>>).in = seen'[<<m, s0>>].traces
        BY <3>3, <3>4 DEF Complete
      <4>3. RowIn(table, gk).services /\ Grown(RowIn(table, <<m, s0>>), RowIn(table', <<m, s0>>), t)
        BY <1>4, <3>4, <3>5, <4>2
      <4>4. /\ RowIn(table, <<m, s0>>).spans = seen[<<m, s0>>].spans
            /\ RowIn(table, <<m, s0>>).traces => RowIn(table, <<m, s0>>).in = seen[<<m, s0>>].traces
        BY <2>1, <3>3, <3>4, <4>3 DEF Complete
      <4> QED
        BY <4>1, <4>3, <4>4 DEF Grown
    <3>6. CASE s0 # "collector" /\ s0 # s
      <4>1. <<m, s0>> \notin {gk, sk} \cup Old(table)
        BY <1>3, <1>7, <2>0, <3>6 DEF gk, sk
      <4>2. Row(<<m, s0>>)' = Row(<<m, s0>>) /\ seen'[<<m, s0>>] = seen[<<m, s0>>]
        BY <1>1, <1>4, <2>0, <3>3, <4>1
      <4>3. Row(<<m, "collector">>)'.services => Row(<<m, "collector">>).services
        BY <1>4, <3>3, <3>4
      <4> QED
        BY <2>1, <4>2, <4>3 DEF Complete
    <3>7. s0 \in {"collector", s} => <<m, s0>> \in {gk, sk}
      BY <2>3 DEF gk, sk
    <3> QED
      BY <3>5, <3>6, <3>7
  <2> QED
    BY <2>2, <2>3
<1> QED
  BY <1>1, <1>4, <1>5, <1>6, <1>8, <1>9, <1>10, <1>11 DEF UsageInv

\* Flush up to the send: the snapshot is the table without the old minutes.
LEMMA BeginFlushKeeps == ASSUME UsageInv, BeginFlush PROVE UsageInv'
<1>1. Pruned /\ table' = Without(table, Old(table)) /\ UNCHANGED <<minute, usageOn, server, seen>>
      /\ flushing' = IF DOMAIN table'.rows = {} THEN NoFlush ELSE [at |-> minute, rows |-> table'.rows]
  BY DEF BeginFlush
<1>2. /\ IsFiniteSet(gone') /\ lost' = Cardinality(gone') /\ gone \subseteq gone'
      /\ \A m \in gone' : m \in Nat /\ m + MaxBuckets <= minute
      /\ \A k \in DOMAIN table.rows : k[1] \in Nat /\ (k \in Old(table) <=> k[1] \in gone')
      /\ minute \notin gone'
  BY <1>1, PrunedTrue
<1>3. Old(table) \subseteq DOMAIN table.rows /\ TableExact(table)
  BY DEF Old, UsageInv
<1>4. /\ TableExact(table') /\ DOMAIN table'.rows = DOMAIN table.rows \ Old(table)
      /\ \A k \in DOMAIN table.rows \ Old(table) : table'.rows[k] = table.rows[k]
  BY <1>1, <1>3, WithoutExact
<1>5. MinutesTrue'
  BY <1>1, <1>2, <1>4 DEF UsageInv, MinutesTrue
<1>6. ServerTrue'
  BY <1>1, <1>2, <1>4 DEF UsageInv, ServerTrue
<1>7. FlightTrue'
  <2>0. minute \in Nat /\ minute \in Int
    BY UsageAssumption DEF UsageInv
  <2>1. CASE DOMAIN table'.rows = {}
    <3>1. flushing' = [at |-> -1, rows |-> NoRows] /\ DOMAIN NoRows = {} /\ IsTable(NoRows)
      BY <1>1, <2>1 DEF NoFlush, NoRows, IsTable
    <3> QED
      BY <1>1, <2>0, <3>1 DEF FlightTrue
  <2>2. CASE DOMAIN table'.rows # {}
    <3>1. flushing' = [at |-> minute, rows |-> table'.rows]
      BY <1>1, <2>2
    <3>2. flushing'.at = minute /\ flushing'.rows = table'.rows /\ IsTable(table'.rows)
      BY <1>4, <3>1 DEF TableExact
    <3> QED
      BY <1>1, <1>5, <2>0, <3>1, <3>2 DEF FlightTrue, MinutesTrue
  <2> QED
    BY <2>1, <2>2
<1>8. AllComplete'
  <2> SUFFICES ASSUME NEW m \in (0 .. MaxMinute) \ gone', NEW s \in {"collector"} \cup Services PROVE Complete(m, s)'
    BY DEF AllComplete
  <2>1. \A k : k[1] = m => Row(k)' = Row(k)
    BY <1>1, <1>2, <1>4 DEF Row
  <2>2. Row(<<m, "collector">>)' = Row(<<m, "collector">>) /\ Row(<<m, s>>)' = Row(<<m, s>>)
    BY <2>1
  <2> QED
    BY <1>1, <1>2, <2>2 DEF UsageInv, AllComplete, Complete
<1> QED
  BY <1>1, <1>4, <1>5, <1>6, <1>7, <1>8 DEF UsageInv

\* What the server has once the snapshot has arrived.
LEMMA StoredTrue ==
  ASSUME UsageInv
  PROVE  /\ IsTable(Stored) /\ DOMAIN Stored = DOMAIN server \cup DOMAIN flushing.rows
         /\ \A k \in DOMAIN Stored : Stored[k] = IF k \in DOMAIN flushing.rows THEN flushing.rows[k] ELSE server[k]
         /\ \A k \in DOMAIN Stored : k[1] <= minute /\ (k[1] = minute => k \in DOMAIN table.rows)
<1>1. IsTable(server) /\ IsTable(flushing.rows)
  BY DEF UsageInv, ServerTrue, FlightTrue
<1>2. /\ DOMAIN Stored = DOMAIN server \cup DOMAIN flushing.rows
      /\ \A k \in DOMAIN Stored : Stored[k] = IF k \in DOMAIN flushing.rows THEN flushing.rows[k] ELSE server[k]
  BY DEF Stored
<1>3. IsTable(Stored)
  <2>1. \A k \in DOMAIN Stored : Stored[k] \in UsageRow /\ k \in Keys
    BY <1>1, <1>2 DEF IsTable
  <2>2. Stored = [k \in DOMAIN Stored |-> Stored[k]]
    BY <1>2 DEF Stored
  <2> QED
    BY <2>1, <2>2 DEF IsTable
<1>4. minute \notin gone
  BY UsageAssumption DEF UsageInv, MinutesTrue
<1>5. ASSUME NEW k \in DOMAIN Stored PROVE k[1] <= minute /\ (k[1] = minute => k \in DOMAIN table.rows)
  <2>1. CASE k \in DOMAIN server
    BY <2>1 DEF UsageInv, ServerTrue
  <2>2. CASE k \in DOMAIN flushing.rows
    BY <1>4, <2>2 DEF UsageInv, FlightTrue
  <2> QED
    BY <1>2, <2>1, <2>2
<1> QED
  BY <1>2, <1>3, <1>5

\* The answer comes: only rows that the server has as they are leave the table.
LEMMA AcknowledgedKeeps == ASSUME UsageInv, Acknowledged PROVE UsageInv'
<1>1. server' = Stored /\ table' = Without(table, Unchanged) /\ flushing' = [at |-> -1, rows |-> NoRows]
      /\ UNCHANGED <<minute, lost, usageOn, seen, gone>>
  BY DEF Acknowledged, NoFlush
<1>2. /\ IsTable(Stored) /\ DOMAIN Stored = DOMAIN server \cup DOMAIN flushing.rows
      /\ \A k \in DOMAIN Stored : Stored[k] = IF k \in DOMAIN flushing.rows THEN flushing.rows[k] ELSE server[k]
      /\ \A k \in DOMAIN Stored : k[1] <= minute /\ (k[1] = minute => k \in DOMAIN table.rows)
  BY StoredTrue
<1>3. Unchanged \subseteq DOMAIN table.rows /\ TableExact(table)
  BY DEF Unchanged, UsageInv
<1>4. /\ TableExact(table') /\ DOMAIN table'.rows = DOMAIN table.rows \ Unchanged
      /\ \A k \in DOMAIN table.rows \ Unchanged : table'.rows[k] = table.rows[k]
  BY <1>1, <1>3, WithoutExact
<1>5. minute \in Nat /\ flushing.at \in Int /\ flushing.at <= minute
  BY UsageAssumption DEF UsageInv, FlightTrue
<1>6. ASSUME NEW k \in Unchanged
      PROVE  k[1] # minute /\ k \in DOMAIN flushing.rows /\ table.rows[k] = flushing.rows[k]
  <2>1. k \in DOMAIN flushing.rows /\ k \in DOMAIN table.rows /\ k[1] < flushing.at
        /\ table.rows[k].revision = flushing.rows[k].revision
    BY DEF Unchanged
  <2>2. table.rows[k].revision \in Nat
    BY <2>1 DEF UsageInv, TableExact, IsTable, UsageRow
  <2>3. table.rows[k] = flushing.rows[k]
    BY <2>1, <2>2 DEF UsageInv, FlightTrue
  <2>4. k[1] # minute
    BY <1>5, <2>1
  <2> QED
    BY <2>1, <2>3, <2>4
<1>7. MinutesTrue'
  BY <1>1, <1>4 DEF UsageInv, MinutesTrue
<1>8. ServerTrue'
  BY <1>1, <1>2, <1>4, <1>6 DEF ServerTrue
<1>9. FlightTrue'
  <2>1. DOMAIN NoRows = {} /\ IsTable(NoRows)
    BY DEF NoRows, IsTable
  <2> QED
    BY <1>1, <1>5, <2>1 DEF FlightTrue
<1>10. AllComplete'
  <2> SUFFICES ASSUME NEW m \in (0 .. MaxMinute) \ gone, NEW s \in {"collector"} \cup Services PROVE Complete(m, s)'
    BY <1>1 DEF AllComplete
  <2>1. ASSUME NEW k, k[1] = m PROVE Row(k)' = Row(k)
    <3>1. CASE k \in DOMAIN table.rows \ Unchanged
      BY <1>4, <3>1 DEF Row
    <3>2. CASE k \in Unchanged
      BY <1>1, <1>2, <1>3, <1>4, <1>6, <3>2 DEF Row
    <3>3. CASE k \notin DOMAIN table.rows
      <4>1. k \notin DOMAIN flushing.rows
        BY <2>1, <3>3 DEF UsageInv, FlightTrue
      <4> QED
        BY <1>1, <1>2, <1>4, <3>3, <4>1 DEF Row
    <3> QED
      BY <3>1, <3>2, <3>3
  <2>2. Row(<<m, "collector">>)' = Row(<<m, "collector">>) /\ Row(<<m, s>>)' = Row(<<m, s>>)
    BY <2>1
  <2> QED
    BY <1>1, <2>2 DEF UsageInv, AllComplete, Complete
<1> QED
  BY <1>1, <1>4, <1>7, <1>8, <1>9, <1>10 DEF UsageInv

\* The send fails; the table keeps everything, whether or not the snapshot arrived.
LEMMA FlushFailsKeeps == ASSUME UsageInv, NEW arrived \in BOOLEAN, FlushFails(arrived) PROVE UsageInv'
<1>1. flushing' = [at |-> -1, rows |-> NoRows] /\ UNCHANGED <<minute, table, lost, usageOn, seen, gone>>
      /\ server' \in {Stored, server}
  BY DEF FlushFails, NoFlush
<1>2. /\ IsTable(Stored) /\ DOMAIN Stored = DOMAIN server \cup DOMAIN flushing.rows
      /\ \A k \in DOMAIN Stored : Stored[k] = IF k \in DOMAIN flushing.rows THEN flushing.rows[k] ELSE server[k]
      /\ \A k \in DOMAIN Stored : k[1] <= minute /\ (k[1] = minute => k \in DOMAIN table.rows)
  BY StoredTrue
<1>3. minute \in Nat
  BY UsageAssumption DEF UsageInv
<1>4. ServerTrue'
  BY <1>1, <1>2 DEF UsageInv, ServerTrue
<1>5. FlightTrue'
  <2>1. DOMAIN NoRows = {} /\ IsTable(NoRows)
    BY DEF NoRows, IsTable
  <2> QED
    BY <1>1, <1>3, <2>1 DEF FlightTrue
<1>6. AllComplete'
  <2> SUFFICES ASSUME NEW m \in (0 .. MaxMinute) \ gone, NEW s \in {"collector"} \cup Services PROVE Complete(m, s)'
    BY <1>1 DEF AllComplete
  <2>1. ASSUME NEW k, k[1] = m PROVE Row(k)' = Row(k)
    <3>1. CASE k \in DOMAIN table.rows
      BY <1>1, <3>1 DEF Row
    <3>2. CASE k \notin DOMAIN table.rows
      <4>1. k \notin DOMAIN flushing.rows
        BY <2>1, <3>2 DEF UsageInv, FlightTrue
      <4> QED
        BY <1>1, <1>2, <3>2, <4>1 DEF Row
    <3> QED
      BY <3>1, <3>2
  <2>2. Row(<<m, "collector">>)' = Row(<<m, "collector">>) /\ Row(<<m, s>>)' = Row(<<m, s>>)
    BY <2>1
  <2> QED
    BY <1>1, <2>2 DEF UsageInv, AllComplete, Complete
<1>7. MinutesTrue'
  BY <1>1 DEF UsageInv, MinutesTrue
<1> QED
  BY <1>1, <1>4, <1>5, <1>6, <1>7 DEF UsageInv

\* The turn of a minute: no row is of the new one yet.
LEMMA NextMinuteKeeps == ASSUME UsageInv, NextMinute PROVE UsageInv'
<1>1. minute' = minute + 1 /\ minute < MaxMinute /\ UNCHANGED <<table, lost, usageOn, flushing, server, seen, gone>>
  BY DEF NextMinute
<1>2. minute \in Nat /\ minute' \in 0 .. MaxMinute
  BY <1>1, UsageAssumption DEF UsageInv
<1>3. \A k \in Keys : k[1] \in Nat
  BY DEF Keys
<1>4. MinutesTrue'
  <2>1. \A k \in DOMAIN table.rows : k[1] \in Nat
    BY <1>3 DEF UsageInv, TableExact, IsTable
  <2> QED
    BY <1>1, <1>2, <2>1, UsageAssumption DEF UsageInv, MinutesTrue
<1>5. ServerTrue'
  <2>1. \A k \in DOMAIN server : k[1] \in Nat
    BY <1>3 DEF UsageInv, ServerTrue, IsTable
  <2> QED
    BY <1>1, <1>2, <2>1 DEF UsageInv, ServerTrue
<1>6. FlightTrue'
  <2>1. \A k \in DOMAIN flushing.rows : k[1] \in Nat
    BY <1>3 DEF UsageInv, FlightTrue, IsTable
  <2> QED
    BY <1>1, <1>2, <2>1 DEF UsageInv, FlightTrue
<1>7. AllComplete'
  BY <1>1 DEF UsageInv, AllComplete, Complete, Row
<1> QED
  BY <1>1, <1>2, <1>4, <1>5, <1>6, <1>7 DEF UsageInv

LEMMA UsageNextInv == UsageInv /\ [UsageNext]_usageVars => UsageInv'
<1> SUFFICES ASSUME UsageInv, [UsageNext]_usageVars PROVE UsageInv'
  OBVIOUS
<1>1. ASSUME NEW s \in Services, NEW t \in SpanTraces \cup BadTraces, NEW retained \in BOOLEAN, NEW parsed \in BOOLEAN,
             Observe(s, t, retained, parsed)
      PROVE  UsageInv'
  BY <1>1, ObserveKeeps
<1>2. CASE BeginFlush
  BY <1>2, BeginFlushKeeps
<1>3. CASE Acknowledged
  BY <1>3, AcknowledgedKeeps
<1>4. ASSUME NEW arrived \in BOOLEAN, FlushFails(arrived) PROVE UsageInv'
  BY <1>4, FlushFailsKeeps
<1>5. CASE NextMinute
  BY <1>5, NextMinuteKeeps
<1>6. ASSUME UNCHANGED <<minute, table, lost, flushing, server, seen, gone>>, usageOn' \in BOOLEAN PROVE UsageInv'
  BY <1>6 DEF UsageInv, MinutesTrue, ServerTrue, FlightTrue, AllComplete, Complete, Row
<1>7. CASE SetEnabled
  BY <1>6, <1>7 DEF SetEnabled
<1>8. CASE UNCHANGED usageVars
  BY <1>6, <1>8 DEF usageVars, UsageInv
<1> QED
  BY <1>1, <1>2, <1>3, <1>4, <1>5, <1>7, <1>8 DEF UsageNext

\* However observations, snapshots, lost answers and the turn of a minute interleave, for
\* any services, traces and limits: what Flush forgets the server has, a row that claims
\* to be complete is, and the budget of trace ids is what the rows hold.
THEOREM UsageAlwaysExact == UsageSpec => []UsageExact
<1>1. UsageInv => UsageExact
  <2> SUFFICES ASSUME UsageInv PROVE UsageExact
    OBVIOUS
  <2>1. table.ids = Size(table.rows) /\ table.ids <= MaxTraceIDs /\ lost = Cardinality(gone)
    BY DEF UsageInv, TableExact, MinutesTrue
  <2>2. ASSUME NEW m \in (0 .. MaxMinute) \ gone, Row(<<m, "collector">>).services,
               NEW s \in {"collector"} \cup Services
        PROVE  /\ Row(<<m, s>>).spans = seen[<<m, s>>].spans
               /\ Row(<<m, s>>).traces => Row(<<m, s>>).in = seen[<<m, s>>].traces
    BY <2>2 DEF UsageInv, AllComplete, Complete
  <2> QED
    BY <2>1, <2>2 DEF UsageExact
<1> QED
  BY <1>1, UsageInitInv, UsageNextInv, PTL DEF UsageSpec

-----------------------------------------------------------------------------
(* The composition *)

\* The composition implements the pipeline, the sampler and the usage counters: a step of
\* it is a step of the component that moves and leaves the others as they are.
THEOREM EachApmPartRuns == Spec => PipeSpec /\ SamplerSpec /\ UsageSpec
<1>1. Init => PipeInit /\ SamplerInit /\ UsageInit
  BY DEF Init
<1>2. [Next]_vars => [PipeNext]_pipeVars /\ [SamplerNext]_samplerVars /\ [UsageNext]_usageVars
  <2>1. CASE UNCHANGED vars
    BY <2>1 DEF vars
  <2>2. CASE Next
    BY <2>2 DEF Next
  <2> QED
    BY <2>1, <2>2
<1> QED
  BY <1>1, <1>2, PTL DEF Spec, PipeSpec, SamplerSpec, UsageSpec

\* What the run of MCApm checks of the sampler's rate and of the usage counters, for
\* every value of the constants.
THEOREM CountsAlwaysHeld == Spec => []CountsHeld
<1>1. BudgetHeld /\ UsageExact => CountsHeld
  BY DEF CountsHeld
<1> QED
  BY <1>1, EachApmPartRuns, BudgetIsHeld, UsageAlwaysExact, PTL
=============================================================================
