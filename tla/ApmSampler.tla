----------------------------- MODULE ApmSampler -----------------------------
(***************************************************************************)
(* internal/apm/sampler: which traces keep their detail. KeepForScope      *)
(* decides one span under the lock: by a rate per service, by the monthly  *)
(* policy, by the adaptive policy with its token budget, or statically.    *)
(* Both adaptive policies remember a decision per trace for decisionTTL in *)
(* a table whose size is bounded by a ring. A rate between 0 and 1 is      *)
(* "partial": it keeps the traces of BelowRate. preserve is error or slow. *)
(***************************************************************************)
EXTENDS Integers, FiniteSets

CONSTANTS Traces, Scopes,     \* Scopes: services with their env and resource
          BelowRate,          \* traces whose hash is below a partial rate
          RingSize,           \* maxAdaptiveDecisions
          MaxServices,        \* maxAdaptiveServices - 1
          MaxRare,            \* bound on the table of rare combinations
          TTL, Window, Idle, RareTime,  \* decisionTTL, adaptiveWindow, 1 and 5 minutes
          Target,             \* TargetTracesPerSecond
          MaxTime, MaxDecided \* bounds: end of time, decisions taken

\* The sizes are numbers, the ring has a slot, and "none" is no trace id.
SamplerSized ==
  /\ RingSize \in Nat \ {0} /\ Target \in Nat /\ MaxTime \in Nat
  /\ MaxServices \in Nat /\ MaxRare \in Nat /\ "none" \notin Traces
ASSUME SamplerAssumption == SamplerSized

VARIABLES
  policy,     \* mode and base rate: [mode, rate]
  scopeRates, \* serviceRates: scope -> rate
  time,
  decisions,  \* trace -> [keep, at, seq]
  ring,       \* slot -> [id, seq]; slot next is overwritten by the next decision
  seq,        \* decisions taken: next = seq % RingSize
  traffic,    \* service -> [observed, rate, last]
  window,     \* start of the window, or -1
  tokens, tokenTime, tokenStart,
  granted,    \* ghost: normal traces kept by the adaptive budget
  rare,       \* scope -> when last kept
  answer      \* ghost: the last answer of the caches

samplerVars == <<policy, scopeRates, time, decisions, ring, seq, traffic, window, tokens,
                 tokenTime, tokenStart, granted, rare, answer>>

Modes == {"static", "adaptive_agent", "adaptive_monthly"}
Rates == {"none", "partial", "full"}
Overflow == "overflow"
Burst == IF Target < 1 THEN 1 ELSE Target
Empty == [k \in {} |-> 0]
NoEntry == [id |-> "none", seq |-> -1]
NoDecision == [keep |-> FALSE, at |-> -TTL, seq |-> -1]
NoAnswer == [id |-> "none", keep |-> FALSE]

SamplerTypeOK ==
  /\ policy \in [mode : Modes, rate : Rates] /\ DOMAIN scopeRates \subseteq Scopes
  /\ time \in 0 .. MaxTime /\ DOMAIN decisions \subseteq Traces
  /\ DOMAIN traffic \subseteq Scopes \cup {Overflow} /\ Cardinality(DOMAIN traffic) <= MaxServices + 1
  /\ DOMAIN rare \subseteq Scopes \cup {Overflow} /\ Cardinality(DOMAIN rare) <= MaxRare + 1
  /\ tokens \in 0 .. Burst

NewState ==
  /\ decisions' = Empty /\ ring' = [i \in 0 .. RingSize - 1 |-> NoEntry] /\ seq' = 0
  /\ traffic' = Empty /\ window' = -1 /\ tokens' = 0 /\ tokenTime' = 0 /\ tokenStart' = 0
  /\ granted' = 0 /\ rare' = Empty

SamplerInit ==
  /\ policy = [mode |-> "static", rate |-> "partial"] /\ scopeRates = Empty /\ time = 0
  /\ decisions = Empty /\ ring = [i \in 0 .. RingSize - 1 |-> NoEntry] /\ seq = 0
  /\ traffic = Empty /\ window = -1 /\ tokens = 0 /\ tokenTime = 0 /\ tokenStart = 0
  /\ granted = 0 /\ rare = Empty /\ answer = NoAnswer

-----------------------------------------------------------------------------
\* ApplyPolicy, and Apply for the static one. A change of mode forgets everything.
ApplyPolicy(p) ==
  /\ p # policy /\ policy' = p /\ answer' = NoAnswer
  /\ IF p.mode # policy.mode THEN NewState
     ELSE UNCHANGED <<decisions, ring, seq, traffic, window, tokens, tokenTime, tokenStart, granted, rare>>
  /\ UNCHANGED <<scopeRates, time>>

ApplyServiceRates(rates) ==
  /\ rates # scopeRates /\ scopeRates' = rates /\ answer' = NoAnswer
  /\ UNCHANGED <<policy, time, decisions, ring, seq, traffic, window, tokens, tokenTime,
                 tokenStart, granted, rare>>

Tick ==
  /\ time < MaxTime /\ time' = time + 1
  /\ UNCHANGED <<policy, scopeRates, decisions, ring, seq, traffic, window, tokens, tokenTime,
                 tokenStart, granted, rare, answer>>

Put(f, k, v) == [j \in DOMAIN f \cup {k} |-> IF j = k THEN v ELSE f[j]]

Below(rate, t) == rate = "full" \/ (rate = "partial" /\ t \in BelowRate)

\* The decision on t that has not expired.
Current(t) == IF t \in DOMAIN decisions /\ time - decisions[t].at < TTL THEN decisions[t] ELSE NoDecision

EvictedById == {ring[seq % RingSize].id}

\* A new decision takes the next slot; the one that held it is forgotten, unless its
\* trace has been decided again since.
Evicted == LET old == ring[seq % RingSize]
           IN  IF old.id \in DOMAIN decisions /\ decisions[old.id].seq = old.seq THEN {old.id} ELSE {}

Remember(t, keep) ==
  /\ seq < MaxDecided /\ seq' = seq + 1
  /\ ring' = [ring EXCEPT ![seq % RingSize] = [id |-> t, seq |-> seq]]
  /\ decisions' = Put([u \in DOMAIN decisions \ Evicted |-> decisions[u]], t,
                      [keep |-> keep, at |-> time, seq |-> seq])

Answer(t, keep) == answer' = [id |-> t, keep |-> keep]

\* Static policy, and a rate of remote configuration, which comes first.
Static(t, s, preserve) ==
  /\ s \in DOMAIN scopeRates \/ policy.mode = "static"
  /\ answer' = [id |-> "none",
                keep |-> preserve \/ Below(IF s \in DOMAIN scopeRates THEN scopeRates[s] ELSE policy.rate, t)]
  /\ UNCHANGED <<policy, scopeRates, time, decisions, ring, seq, traffic, window, tokens,
                 tokenTime, tokenStart, granted, rare>>

\* keepMonthly: an entry span of a combination not kept lately is preserved too.
KeepMonthly(t, s, entry, preserve) ==
  /\ policy.mode = "adaptive_monthly" /\ s \notin DOMAIN scopeRates
  /\ LET key == IF s \notin DOMAIN rare /\ Cardinality(DOMAIN rare) >= MaxRare THEN Overflow ELSE s
         isRare == entry /\ (key \in DOMAIN rare => time - rare[key] >= RareTime)
         keep == preserve \/ isRare \/ Below(policy.rate, t)
         old == Current(t)
         all == old.keep \/ keep
     IN  /\ IF old = NoDecision THEN Remember(t, keep)
            ELSE decisions' = [decisions EXCEPT ![t].keep = all] /\ UNCHANGED <<ring, seq>>
         /\ rare' = IF all /\ entry THEN Put(rare, key, time) ELSE rare
         /\ Answer(t, all)
  /\ UNCHANGED <<policy, scopeRates, time, traffic, window, tokens, tokenTime, tokenStart, granted>>

\* keep, when the trace has a decision.
KeepAgain(t, s, preserve) ==
  /\ policy.mode = "adaptive_agent" /\ s \notin DOMAIN scopeRates /\ Current(t) # NoDecision
  /\ decisions' = [decisions EXCEPT ![t].keep = @ \/ preserve]
  /\ Answer(t, Current(t).keep \/ preserve)
  /\ UNCHANGED <<policy, scopeRates, time, ring, seq, traffic, window, tokens, tokenTime,
                 tokenStart, granted, rare>>

\* The traffic after the window's turn: services idle for a minute are forgotten, the
\* others get an equal share of the target.
Turned ==
  IF window # -1 /\ time - window >= Window
  THEN LET alive == {s \in DOMAIN traffic : time - traffic[s].last <= Idle}
       IN  [s \in alive |->
             [traffic[s] EXCEPT !.observed = 0,
                !.rate = IF Target * (time - window) >= Cardinality(alive) * traffic[s].observed
                         THEN "full" ELSE "partial"]]
  ELSE traffic

RefilledFromStart == LET all == (IF window = -1 THEN Burst ELSE tokens)
                                 + (time - (IF window = -1 THEN time ELSE tokenStart)) * Target
                      IN  IF all > Burst THEN Burst ELSE all

\* Tokens refilled for the time since the last normal trace, up to the burst.
Refilled == LET all == (IF window = -1 THEN Burst ELSE tokens)
                       + (time - (IF window = -1 THEN time ELSE tokenTime)) * Target
            IN  IF all > Burst THEN Burst ELSE all

\* keep, for a trace without one.
KeepNew(t, s, preserve) ==
  /\ policy.mode = "adaptive_agent" /\ s \notin DOMAIN scopeRates /\ Current(t) = NoDecision
  /\ LET name == IF s \notin DOMAIN Turned /\ Cardinality(DOMAIN Turned) >= MaxServices
                 THEN Overflow ELSE s
         was == IF name \in DOMAIN Turned THEN Turned[name] ELSE [observed |-> 0, rate |-> "full", last |-> 0]
         grant == ~preserve /\ Below(was.rate, t) /\ Refilled >= 1
     IN  /\ traffic' = Put(Turned, name, [observed |-> was.observed + (IF preserve THEN 0 ELSE 1),
                                          rate |-> was.rate, last |-> time])
         /\ window' = IF window = -1 \/ time - window >= Window THEN time ELSE window
         /\ IF preserve
            THEN /\ tokens' = IF window = -1 THEN Burst ELSE tokens
                 /\ tokenTime' = IF window = -1 THEN time ELSE tokenTime
            ELSE tokens' = Refilled - (IF grant THEN 1 ELSE 0) /\ tokenTime' = time
         /\ tokenStart' = IF window = -1 THEN time ELSE tokenStart
         /\ granted' = granted + (IF grant THEN 1 ELSE 0)
         /\ Remember(t, preserve \/ grant) /\ Answer(t, preserve \/ grant)
  /\ UNCHANGED <<policy, scopeRates, time, rare>>

\* To the caches it only matters whether a scope has a rate of its own.
SamplerNext ==
  \/ Tick
  \/ \E p \in [mode : Modes, rate : {"none", "partial"}] : ApplyPolicy(p)
  \/ \E s \in Scopes : ApplyServiceRates(Put(Empty, s, "partial"))
  \/ ApplyServiceRates(Empty)
  \/ \E t \in Traces, s \in Scopes, preserve \in BOOLEAN :
       \/ Static(t, s, preserve) \/ KeepAgain(t, s, preserve) \/ KeepNew(t, s, preserve)
       \/ \E entry \in BOOLEAN : KeepMonthly(t, s, entry, preserve)

SamplerSpec == SamplerInit /\ [][SamplerNext]_samplerVars

-----------------------------------------------------------------------------
(* Properties *)

\* The adaptive policy keeps no more normal traces than its burst and the target rate
\* allow, and what it remembers is what the ring still holds, so neither the detail
\* sent nor the memory used can grow with the traffic.
BudgetHeld ==
  /\ window # -1 => granted <= Burst + Target * (time - tokenStart)
  /\ \A t \in DOMAIN decisions : \E i \in DOMAIN ring : ring[i] = [id |-> t, seq |-> decisions[t].seq]

\* A trace that was kept stays kept for decisionTTL, whatever is decided in between, as
\* long as fewer than a ring of newer decisions followed.
KeptStays ==
  [][ \A t \in DOMAIN decisions :
        /\ decisions[t].keep /\ time' - decisions[t].at < TTL /\ policy'.mode = policy.mode
        /\ seq' - decisions[t].seq <= RingSize
        => /\ t \in DOMAIN decisions' /\ decisions'[t].keep
           /\ answer'.id = t /\ answer' # answer => answer'.keep ]_samplerVars
=============================================================================
