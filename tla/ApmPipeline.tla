----------------------------- MODULE ApmPipeline -----------------------------
(***************************************************************************)
(* Traces on their way through the collector: the OTLP/HTTP receiver       *)
(* (internal/otlp/http.go), the processing rules, the concentrator of      *)
(* statistics with its forwarder, the retention of security traces, and    *)
(* the raw forwarding to the gateway. An SDK sends a batch again when it   *)
(* gets no answer or a 502. The adaptive sampler is ApmSampler; here the   *)
(* static policy decides. The outbox behind statsfwd is SendQueue.         *)
(***************************************************************************)
EXTENDS Integers, FiniteSets

CONSTANTS Batches,
          Forms,        \* batch -> what it may be: "good" (JSON or protobuf), "broken" (not
                        \* decodable) or "refused" (by readBody)
          SpansOf,      \* batch -> set of [id, trace, error, event]
          Hashed,       \* traces whose hash is below the base rate
          MaxSecurity,  \* 10000, the table of security traces
          MaxTries      \* bound: attempts of an SDK

Spans == UNION {SpansOf[b] : b \in Batches}
Ids == {s.id : s \in Spans}
TraceIds == {s.trace : s \in Spans}

\* A batch is a finite set of spans. At most one of its traces carries an event: Handle
\* marks one trace.
PipeSized ==
  /\ MaxSecurity \in Nat /\ MaxTries \in Nat
  /\ \A b \in Batches :
       /\ IsFiniteSet(SpansOf[b])
       /\ \A s, u \in SpansOf[b] : s.event /\ u.event => s.trace = u.trace
ASSUME PipelineAssumption == PipeSized

VARIABLES
  form,      \* batch -> one of its forms
  sdk,       \* batch -> "new", "sent", "acked", "refused" or "gaveup"
  tries,     \* batch -> attempts
  request,   \* batch -> [stage |-> "none", "handle", "forward" or "reply", out, status]
  open,      \* concentrator: span -> hits in the open buckets
  sent,      \* statsfwd: span -> hits handed to the outbox
  details,   \* spans whose detail the gateway has
  marked,    \* securityTraces: trace -> "live" or "expired"
  rules,     \* a processing policy is in force
  statsOn,   \* statsfwd.enabled
  allowed,   \* signalAllowed("traces")
  phase,     \* "up", "stopping", or "flushed" once the final flush is done
  owed,      \* ghost: traces with a security event for which there was room
  due,       \* ghost: batch -> spans the gateway must have when the batch is acked
  unsent     \* ghost: spans whose hits were dropped by a disabled forwarder or at the end

pipeVars == <<form, sdk, tries, request, open, sent, details, marked, rules, statsOn, allowed, phase, owed, due, unsent>>

NoRequest == [stage |-> "none", out |-> {}, status |-> 0]
None == [t \in {} |-> "live"]

PipeTypeOK ==
  /\ sdk \in [Batches -> {"new", "sent", "acked", "refused", "gaveup"}]
  /\ tries \in [Batches -> 0 .. MaxTries] /\ details \subseteq Ids
  /\ DOMAIN marked \subseteq TraceIds /\ Cardinality(DOMAIN marked) <= MaxSecurity
  /\ phase \in {"up", "stopping", "flushed"}

PipeInit ==
  /\ form \in [Batches -> UNION {Forms[b] : b \in Batches}] /\ \A b \in Batches : form[b] \in Forms[b]
  /\ sdk = [b \in Batches |-> "new"] /\ tries = [b \in Batches |-> 0]
  /\ request = [b \in Batches |-> NoRequest]
  /\ open = [i \in Ids |-> 0] /\ sent = [i \in Ids |-> 0] /\ details = {}
  /\ marked = None /\ rules = FALSE /\ statsOn = TRUE /\ allowed = TRUE /\ phase = "up"
  /\ owed = {} /\ due = [b \in Batches |-> {}] /\ unsent = {}

stats == <<open, sent, unsent>>
switches == <<rules, statsOn, allowed, phase, form>>

-----------------------------------------------------------------------------
\* The application sends a batch, or sends it again.
SdkSends(b) ==
  /\ phase = "up" /\ sdk[b] = "new" /\ tries[b] < MaxTries
  /\ sdk' = [sdk EXCEPT ![b] = "sent"] /\ tries' = [tries EXCEPT ![b] = @ + 1]
  /\ request' = [request EXCEPT ![b].stage = "handle"]
  /\ UNCHANGED <<stats, details, marked, switches, owed, due>>

Reply(b, status) == request' = [request EXCEPT ![b] = [stage |-> "reply", out |-> {}, status |-> status]]

\* serveOTLP and readBody refuse it (method, encoding, size), or ProcessTraces cannot
\* decode what its rules are to apply to.
Refuse(b) ==
  /\ request[b].stage = "handle"
  /\ form[b] = "refused" \/ (form[b] = "broken" /\ rules)
  /\ Reply(b, 400)
  /\ UNCHANGED <<sdk, tries, stats, details, marked, switches, owed, due>>

\* Not decodable and no rules: the body goes on as it came, without statistics.
PassOn(b) ==
  /\ request[b].stage = "handle" /\ form[b] = "broken" /\ ~rules
  /\ request' = [request EXCEPT ![b] = [stage |-> "forward", out |-> {}, status |-> 0]]
  /\ UNCHANGED <<sdk, tries, stats, details, marked, switches, owed, due>>

Live(table) == {t \in DOMAIN table : table[t] = "live"}

MarkWithoutPurge(table, t) ==
  IF Cardinality(DOMAIN table) < MaxSecurity
  THEN [u \in DOMAIN table \cup {t} |-> IF u = t THEN "live" ELSE table[u]] ELSE table

\* securityTrace with marked set: a full table first drops what has expired.
Mark(table, t) ==
  LET room == IF Cardinality(DOMAIN table) >= MaxSecurity
              THEN [u \in Live(table) |-> "live"] ELSE table
  IN  IF Cardinality(DOMAIN room) < MaxSecurity
      THEN [u \in DOMAIN room \cup {t} |-> IF u = t THEN "live" ELSE room[u]] ELSE room

\* The traces a report or a batch has marked and that the limit has room for.
Owed(t) == IF Cardinality(Live(marked) \cup {t}) <= MaxSecurity THEN owed \cup {t} ELSE owed

\* tapAndSampleJSON and filterScopeSampledSpans: one decision per trace of the batch.
Decided(b) == {s.trace : s \in {u \in SpansOf[b] :
                  u.error \/ u.trace \in Hashed \/ u.event \/ u.trace \in Live(marked)}}

\* At most one trace of a batch carries an event in the instances.
Events(b) == {s.trace : s \in {u \in SpansOf[b] : u.event}}

\* Concentrator.Add for every span of the batch, before anything is sampled. A span
\* stands for its group.
Counted(b) == [i \in Ids |-> open[i] + Cardinality({s \in SpansOf[b] : s.id = i})]

\* handleTraces up to the forwarding: every span is counted, then the batch is sampled.
\* A batch of which nothing is kept is answered at once.
Handle(b) ==
  /\ request[b].stage = "handle" /\ form[b] = "good"
  /\ open' = Counted(b)
  /\ LET kept == {s.id : s \in {u \in SpansOf[b] : u.trace \in Decided(b)}}
     IN  IF kept = {} THEN Reply(b, 200)
         ELSE request' = [request EXCEPT ![b] = [stage |-> "forward", out |-> kept, status |-> 0]]
  /\ marked' = IF Events(b) = {} THEN marked
               ELSE Mark(marked, CHOOSE t \in Events(b) : TRUE)
  /\ owed' = IF Events(b) = {} THEN owed ELSE Owed(CHOOSE t \in Events(b) : TRUE)
  /\ due' = [due EXCEPT ![b] = {s.id : s \in {u \in SpansOf[b] :
               \E v \in SpansOf[b] : v.trace = u.trace /\ (v.error \/ v.event \/ v.trace \in owed)}}]
  /\ UNCHANGED <<sdk, tries, sent, unsent, details, switches>>

\* PostRaw through the gateway. A signal that is not allowed is dropped as if sent;
\* after the signal to stop the context is cancelled and the request fails.
Forward(b, arrives, answered) ==
  /\ request[b].stage = "forward"
  /\ IF ~allowed THEN Reply(b, 200) /\ due' = [due EXCEPT ![b] = {}] /\ UNCHANGED details
     ELSE /\ arrives => phase = "up"
          /\ answered => arrives
          /\ details' = IF arrives THEN details \cup request[b].out ELSE details
          /\ Reply(b, IF answered THEN 200 ELSE 502) /\ UNCHANGED due
  /\ UNCHANGED <<sdk, tries, stats, marked, switches, owed>>

\* The answer of the receiver: 2xx and 4xx end the batch, 502 and silence repeat it.
Answered(b, lost) ==
  /\ request[b].stage = "reply"
  /\ request' = [request EXCEPT ![b] = NoRequest]
  /\ sdk' = [sdk EXCEPT ![b] = CASE lost \/ request[b].status = 502 ->
                                      IF tries[b] < MaxTries THEN "new" ELSE "gaveup"
                                 [] ~lost /\ request[b].status = 200 -> "acked"
                                 [] OTHER -> "refused"]
  /\ UNCHANGED <<tries, stats, details, marked, switches, owed, due>>

\* handleSecurity: the trace of the event is retained, even if its spans come later.
SecurityReport(t) ==
  /\ phase = "up" /\ marked' = Mark(marked, t) /\ owed' = Owed(t)
  /\ UNCHANGED <<sdk, tries, request, stats, details, switches, due>>

\* Ten minutes later the entry is dead; it leaves the table when asked for.
Expire(t) ==
  /\ t \in Live(marked) /\ owed' = owed \ {t}
  /\ marked' = [marked EXCEPT ![t] = "expired"]
  /\ UNCHANGED <<sdk, tries, request, stats, details, switches, due>>

Forget(t) ==
  /\ t \in DOMAIN marked /\ marked[t] = "expired"
  /\ marked' = [u \in DOMAIN marked \ {t} |-> marked[u]]
  /\ UNCHANGED <<sdk, tries, request, stats, details, switches, owed, due>>

\* The flush of the loop, and the last one at the signal: Flush empties the concentrator
\* and Send hands the groups to the outbox, or drops them when it is disabled.
Emptied ==
  /\ open' = [i \in Ids |-> 0]
  /\ sent' = IF statsOn THEN [i \in Ids |-> sent[i] + open[i]] ELSE sent
  /\ unsent' = IF statsOn THEN unsent ELSE unsent \cup {i \in Ids : open[i] > 0}

FlushStats ==
  /\ phase = "up" /\ (\E i \in Ids : open[i] > 0) /\ Emptied
  /\ UNCHANGED <<sdk, tries, request, details, marked, switches, owed, due>>

Shutdown ==
  /\ phase = "up" /\ phase' = "stopping"
  /\ UNCHANGED <<sdk, tries, request, stats, details, marked, rules, statsOn, allowed, form, owed, due>>

FinalFlush ==
  /\ phase = "stopping" /\ phase' = "flushed" /\ Emptied
  /\ UNCHANGED <<sdk, tries, request, details, marked, rules, statsOn, allowed, form, owed, due>>

\* Remote configuration: processing rules come and go, the APM module is switched.
UpdateRules ==
  /\ phase = "up" /\ rules' = ~rules
  /\ UNCHANGED <<sdk, tries, request, stats, details, marked, statsOn, allowed, phase, form, owed, due>>

SwitchModule ==
  /\ phase = "up" /\ statsOn' = ~statsOn /\ allowed' = ~statsOn
  /\ UNCHANGED <<sdk, tries, request, stats, details, marked, rules, phase, form, owed, due>>

PipeNext ==
  \/ \E b \in Batches :
       \/ SdkSends(b) \/ Refuse(b) \/ PassOn(b) \/ Handle(b)
       \/ Forward(b, TRUE, TRUE) \/ Forward(b, TRUE, FALSE) \/ Forward(b, FALSE, FALSE)
       \/ Answered(b, TRUE) \/ Answered(b, FALSE)
  \/ \E t \in TraceIds : SecurityReport(t) \/ Expire(t) \/ Forget(t)
  \/ FlushStats \/ Shutdown \/ FinalFlush \/ UpdateRules \/ SwitchModule

PipeSpec == PipeInit /\ [][PipeNext]_pipeVars

-----------------------------------------------------------------------------
(* Properties *)

\* An acknowledged batch is safe: the gateway has every span of its traces with an
\* error or a security event, an event reported earlier or in another batch included
\* as long as the table has room; and each of its spans is in the statistics.
AckedIsSafe ==
  \A b \in Batches : sdk[b] = "acked" =>
    /\ due[b] \subseteq details
    /\ form[b] = "good" =>
         \A s \in SpansOf[b] : open[s.id] + sent[s.id] > 0 \/ s.id \in unsent \/ phase = "flushed"
=============================================================================
