---------------------------- MODULE SeriesBudget ----------------------------
(***************************************************************************)
(* internal/checks/tagger.go and Runtime.emit: the budget of series per    *)
(* host. A series is a metric name with its tags; the telvyn.tagger and    *)
(* telvyn.check metrics pass without being counted. Filter runs under one  *)
(* lock, so a batch is one step; seen is the table of one host.            *)
(***************************************************************************)
EXTENDS Integers, FiniteSets

CONSTANTS Series,  \* series of one host
          Budget,  \* Tagger.budget
          Window,  \* taggerSlidingWindow
          MaxNow   \* bound: end of time

ASSUME TaggerAssumption == Budget \in Nat /\ Window \in Nat /\ MaxNow \in Nat

VARIABLES
  now,
  seen,    \* the series in the table -> when each was last seen
  passed,  \* ghost: series -> when it last passed, or Never
  kept,    \* the last batch: what was kept
  refused  \* and what was replaced by telvyn.tagger.dropped

taggerVars == <<now, seen, passed, kept, refused>>
Never == -Window - 1

TaggerTypeOK ==
  /\ now \in 0 .. MaxNow
  /\ DOMAIN seen \subseteq Series /\ \A s \in DOMAIN seen : seen[s] \in 0 .. now
  /\ passed \in [Series -> {Never} \cup 0 .. now]
  /\ kept \subseteq Series /\ refused \subseteq Series

TaggerInit ==
  /\ now = 0 /\ seen = [s \in {} |-> 0] /\ passed = [s \in Series |-> Never]
  /\ kept = {} /\ refused = {}

Stale(table) == {s \in DOMAIN table : table[s] < now - Window}

\* gcLocked.
Collected(table) == [s \in DOMAIN table \ Stale(table) |-> table[s]]

With(table, s) == [t \in DOMAIN table \cup {s} |-> IF t = s THEN now ELSE table[t]]

\* A new series at the limit first makes the table drop what is stale.
Room(table) == IF Cardinality(DOMAIN table) >= Budget THEN Collected(table) ELSE table

RoomClearing(table) == IF Cardinality(DOMAIN table) >= Budget THEN [s \in {} |-> 0] ELSE table

\* One metric of the batch.
Admit(table, s) ==
  IF s \in DOMAIN table THEN With(table, s)
  ELSE LET room == Room(table)
       IN  IF Cardinality(DOMAIN room) >= Budget THEN room ELSE With(room, s)

\* Filter and emit over a batch of two metrics of the host, in their order; s = t
\* is a batch that repeats a series.
Filter(s, t) ==
  LET first == Admit(seen, s)
      both == Admit(first, t)
      in == {u \in {s} : u \in DOMAIN first} \cup {u \in {t} : u \in DOMAIN both}
  IN  /\ seen' = both
      /\ kept' = in /\ refused' = {s, t} \ in
      /\ passed' = [u \in Series |-> IF u \in in THEN now ELSE passed[u]]
      /\ UNCHANGED now

Tick ==
  /\ now < MaxNow /\ now' = now + 1
  /\ UNCHANGED <<seen, passed, kept, refused>>

TaggerNext == Tick \/ \E s, t \in Series : Filter(s, t)

TaggerSpec == TaggerInit /\ [][TaggerNext]_taggerVars

-----------------------------------------------------------------------------
(* Properties *)

\* No more than the budget of series of a host pass within any window, however
\* series come, go stale and return; and one that passed within the window is not
\* refused while its neighbours take its place.
WithinBudget ==
  /\ Cardinality({s \in Series : passed[s] >= now - Window}) <= Budget
  /\ \A s \in refused : passed[s] < now - Window \/ s \in kept
=============================================================================
