------------------------------ MODULE ApmUsage ------------------------------
(***************************************************************************)
(* internal/apm/usage: counts of received and retained spans and traces    *)
(* per minute, for the collector and for each service. Observe runs when a *)
(* trace request ends; Flush sends absolute snapshots and then forgets the *)
(* closed minutes that did not change meanwhile. A request is abstracted   *)
(* to one span. Requests and their answers may be lost; the server keeps   *)
(* the newest snapshot of a row.                                           *)
(***************************************************************************)
EXTENDS Integers, FiniteSets, FiniteSetsExt

CONSTANTS Services, SpanTraces, BadTraces,  \* BadTraces: ids that are not 32 hex digits
          MaxRows, MaxTraceIDs, MaxBuckets,
          MaxMinute, MaxSpans           \* bounds: end of time, observations

ASSUME UsageAssumption ==
  /\ IsFiniteSet(Services) /\ "collector" \notin Services
  /\ IsFiniteSet(SpanTraces) /\ SpanTraces \cap BadTraces = {}
  /\ MaxRows \in Nat /\ MaxTraceIDs \in Nat /\ MaxBuckets \in Nat \ {0} /\ MaxMinute \in Nat

VARIABLES
  minute,
  table,     \* [rows |-> key -> row, ids |-> traceIDs]
  lost,      \* lostBuckets
  usageOn,   \* enabled
  flushing,  \* the snapshot in flight and the minute it was taken in; NoFlush
  server,    \* key -> row as last received
  seen,      \* ghost: key -> [spans, traces] really observed
  gone       \* ghost: minutes pruned before they were acknowledged

usageVars == <<minute, table, lost, usageOn, flushing, server, seen, gone>>

Keys == (0 .. MaxMinute) \X ({"collector"} \cup Services)
NoRows == [k \in {} |-> 0]
NoFlush == [at |-> -1, rows |-> NoRows]
NewRow == [spans |-> 0, kept |-> 0, in |-> {}, out |-> {}, revision |-> 0,
           traces |-> TRUE, services |-> TRUE]

\* The trace ids in memory, received and retained.
ReceivedIds(rows) == {x \in (DOMAIN rows) \X SpanTraces : x[2] \in rows[x[1]].in}
RetainedIds(rows) == {x \in (DOMAIN rows) \X SpanTraces : x[2] \in rows[x[1]].out}
Size(rows) == Cardinality(ReceivedIds(rows)) + Cardinality(RetainedIds(rows))

UsageTypeOK ==
  /\ minute \in 0 .. MaxMinute /\ DOMAIN table.rows \subseteq Keys /\ DOMAIN server \subseteq Keys
  /\ lost \in 0 .. MaxMinute + 1 /\ usageOn \in BOOLEAN
  /\ flushing.at \in -1 .. MaxMinute /\ gone \subseteq 0 .. MaxMinute

UsageInit ==
  /\ minute = 0 /\ table = [rows |-> NoRows, ids |-> 0] /\ lost = 0 /\ usageOn = TRUE
  /\ flushing = NoFlush /\ server = NoRows /\ gone = {}
  /\ seen = [k \in Keys |-> [spans |-> 0, traces |-> {}]]

-----------------------------------------------------------------------------
\* remove, for every key of keys: the trace ids of the rows are free again.
Without(tab, keys) ==
  [rows |-> [k \in DOMAIN tab.rows \ keys |-> tab.rows[k]],
   ids |-> tab.ids - Size([k \in keys |-> tab.rows[k]])]

\* prune: what is older than MaxBuckets minutes.
Old(tab) == {k \in DOMAIN tab.rows : k[1] <= minute - MaxBuckets}

\* get: a service row is refused at MaxRows, the collector's never.
Get(tab, k) ==
  IF k \in DOMAIN tab.rows THEN tab
  ELSE IF Cardinality(DOMAIN tab.rows) >= MaxRows /\ k[2] # "collector" THEN tab
  ELSE [tab EXCEPT !.rows = [l \in DOMAIN @ \cup {k} |-> IF l = k THEN NewRow ELSE @[l]]]

\* add: the span is counted; its trace once, while there is room for its id.
Add(tab, k, t, retained) ==
  LET row == tab.rows[k]
      set == IF retained THEN row.out ELSE row.in
      counted == [row EXCEPT !.revision = @ + 1, !.spans = @ + (IF retained THEN 0 ELSE 1),
                             !.kept = @ + (IF retained THEN 1 ELSE 0)]
      full == t \in BadTraces \/ (t \notin set /\ tab.ids >= MaxTraceIDs)
  IN  IF full THEN [tab EXCEPT !.rows[k] = [counted EXCEPT !.traces = FALSE]]
      ELSE [rows |-> [tab.rows EXCEPT ![k] =
                        IF retained THEN [counted EXCEPT !.out = @ \cup {t}]
                        ELSE [counted EXCEPT !.in = @ \cup {t}]],
            ids |-> tab.ids + (IF t \in set THEN 0 ELSE 1)]

\* One span of service s in one direction, in the collector's row and in its own.
Count(tab, s, t, retained) ==
  LET all == Add(tab, <<minute, "collector">>, t, retained)
      own == Get(all, <<minute, s>>)
  IN  IF <<minute, s>> \in DOMAIN own.rows THEN Add(own, <<minute, s>>, t, retained)
      ELSE [all EXCEPT !.rows[<<minute, "collector">>].services = FALSE]

Pruned ==
  /\ lost' = lost + Cardinality({k[1] : k \in Old(table)})
  /\ gone' = gone \cup {k[1] : k \in Old(table)}

\* Observe; parsed is FALSE for a body that could not be decoded.
Observe(s, t, retained, parsed) ==
  /\ usageOn /\ FoldSet(LAMBDA m, n : n + seen[<<m, "collector">>].spans, 0, 0 .. MaxMinute) < MaxSpans
  /\ LET opened == Get(Without(table, Old(table)), <<minute, "collector">>)
         received == IF parsed THEN Count(opened, s, t, FALSE)
                     ELSE [opened EXCEPT !.rows[<<minute, "collector">>].traces = FALSE,
                                         !.rows[<<minute, "collector">>].services = FALSE]
         done == IF parsed /\ retained THEN Count(received, s, t, TRUE) ELSE received
     IN  table' = [done EXCEPT !.rows[<<minute, "collector">>].revision = @ + 1]
  /\ Pruned
  /\ seen' = [k \in Keys |->
               IF k \in {<<minute, "collector">>, <<minute, s>>}
               THEN [spans |-> seen[k].spans + 1, traces |-> seen[k].traces \cup {t}] ELSE seen[k]]
  /\ UNCHANGED <<minute, usageOn, flushing, server>>

\* Flush up to the send.
BeginFlush ==
  /\ usageOn /\ flushing = NoFlush /\ Pruned
  /\ table' = Without(table, Old(table))
  /\ flushing' = IF DOMAIN table'.rows = {} THEN NoFlush ELSE [at |-> minute, rows |-> table'.rows]
  /\ UNCHANGED <<minute, usageOn, server, seen>>

Stored == [k \in DOMAIN server \cup DOMAIN flushing.rows |->
             IF k \in DOMAIN flushing.rows THEN flushing.rows[k] ELSE server[k]]

UnchangedOrOpen == {k \in DOMAIN flushing.rows \cap DOMAIN table.rows : k[1] <= flushing.at}

\* The closed rows of the snapshot that did not change since.
Unchanged == {k \in DOMAIN flushing.rows \cap DOMAIN table.rows :
               k[1] < flushing.at /\ table.rows[k].revision = flushing.rows[k].revision}

Acknowledged ==
  /\ flushing # NoFlush /\ server' = Stored
  /\ table' = Without(table, Unchanged) /\ flushing' = NoFlush
  /\ UNCHANGED <<minute, lost, usageOn, seen, gone>>

\* send returns an error; the snapshot may have arrived.
FlushFails(arrived) ==
  /\ flushing # NoFlush /\ flushing' = NoFlush
  /\ server' = IF arrived THEN Stored ELSE server
  /\ UNCHANGED <<minute, table, lost, usageOn, seen, gone>>

SetEnabled ==
  /\ usageOn' = ~usageOn
  /\ UNCHANGED <<minute, table, lost, flushing, server, seen, gone>>

NextMinute ==
  /\ minute < MaxMinute /\ minute' = minute + 1
  /\ UNCHANGED <<table, lost, usageOn, flushing, server, seen, gone>>

UsageNext ==
  \/ \E s \in Services, t \in SpanTraces \cup BadTraces, retained \in BOOLEAN : Observe(s, t, retained, TRUE)
  \/ \E s \in Services, t \in SpanTraces : Observe(s, t, FALSE, FALSE)
  \/ BeginFlush \/ Acknowledged \/ FlushFails(TRUE) \/ FlushFails(FALSE) \/ SetEnabled \/ NextMinute

UsageSpec == UsageInit /\ [][UsageNext]_usageVars

-----------------------------------------------------------------------------
(* Properties *)

\* The row of k that stands: the one in memory, or the last one the server got.
Row(k) == IF k \in DOMAIN table.rows THEN table.rows[k]
          ELSE IF k \in DOMAIN server THEN server[k] ELSE NewRow

\* What Flush forgets, the server has: however observations, snapshots, lost answers
\* and the turn of a minute interleave, a row that claims to be complete counts every
\* span and every trace of its minute, unless the minute was pruned and reported in
\* lost_buckets; and the budget of trace ids is exactly what the rows hold.
UsageExact ==
  /\ table.ids = Size(table.rows) /\ table.ids <= MaxTraceIDs /\ lost = Cardinality(gone)
  /\ \A m \in 0 .. MaxMinute \ gone :
       LET all == Row(<<m, "collector">>)
       IN  all.services =>
             \A k \in {<<m, s>> : s \in {"collector"} \cup Services} :
               /\ Row(k).spans = seen[k].spans
               /\ Row(k).traces => Row(k).in = seen[k].traces
=============================================================================
