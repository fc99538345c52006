------------------------------ MODULE Journald ------------------------------
(***************************************************************************)
(* JournaldReader: a journalctl process whose lines are parsed, limited    *)
(* per unit and window, and put on a bounded channel without waiting; and  *)
(* the loop that starts the process again with a growing pause.            *)
(***************************************************************************)
EXTENDS Naturals, Sequences, FiniteSets, FiniteSetsExt

CONSTANTS Units,        \* units that log
          InitScope,    \* the unit that is always skipped
          LineLimit,    \* ratelimitLines
          Buffer,       \* room of the channel
          MaxBackoff,   \* the longest pause, in ticks
          MaxJTime, MaxJLines  \* bounds on the clock and on the lines written

ASSUME JournalAssumption ==
  /\ IsFiniteSet(Units) /\ LineLimit \in Nat \ {0} /\ Buffer \in Nat /\ MaxBackoff \in Nat \ {0}
  /\ MaxJTime \in Nat /\ MaxJLines \in Nat

VARIABLES jtime, jlines,    \* the clock, and the lines written so far
          jpipe,        \* lines of the process not yet read
          reader,       \* "running", "eof", "hung", "pause" or "closed"
          pause,        \* the next pause and the time the current one ends
          buckets,      \* buckets[u]: the window of a unit
          stats,        \* lines, and drops per unit, as Stats reports them
          jout,         \* the channel
          consumed,     \* records the consumer took (ghost: order and number)
          perWindow     \* perWindow[<<u, e>>]: records let through in a window (ghost)
jVars == <<jtime, jlines, jpipe, reader, pause, buckets, stats, jout, consumed, perWindow>>

NoBucket == [count |-> 0, end |-> 0, some |-> FALSE]

\* NewJournaldReader and the first runOnce.
JInit ==
  /\ jtime = 0 /\ jlines = 0 /\ jpipe = <<>>
  /\ reader = "running" /\ pause = [next |-> 1, until |-> 0]
  /\ buckets = [u \in Units |-> NoBucket]
  /\ stats = [lines |-> 0, dropped |-> 0, units |-> [u \in Units |-> 0], seen |-> 0]
  /\ jout = <<>> /\ consumed = <<>> /\ perWindow = <<>>

\* journalctl prints a line; with -n 0 the lines written while no process
\* runs are never printed.  A line may be no JSON, or longer than the scanner.
Write(u, form) ==
  /\ jlines < MaxJLines /\ jlines' = jlines + 1
  /\ jpipe' = IF reader = "running" THEN Append(jpipe, [unit |-> u, form |-> form, n |-> jlines']) ELSE jpipe
  /\ UNCHANGED <<jtime, reader, pause, buckets, stats, jout, consumed, perWindow>>
JTick ==
  /\ jtime < MaxJTime /\ jtime' = jtime + 1
  /\ UNCHANGED <<jlines, jpipe, reader, pause, buckets, stats, jout, consumed, perWindow>>
ConsumeRecord ==
  /\ jout # <<>>
  /\ consumed' = Append(consumed, Head(jout)) /\ jout' = Tail(jout)
  /\ UNCHANGED <<jtime, jlines, jpipe, reader, pause, buckets, stats, perWindow>>

\* allow: a window of one tick that starts with its first line.
FreshWindow(u) == ~buckets[u].some \/ jtime > buckets[u].end
Allow(u) == FreshWindow(u) \/ buckets[u].count < LineLimit
Bumped(u) == IF FreshWindow(u) THEN [count |-> 1, end |-> jtime + 1, some |-> TRUE]
             ELSE [buckets[u] EXCEPT !.count = @ + 1]
BumpDroppedUnit(u) == [stats EXCEPT !.dropped = @ + 1, !.units[u] = @ + 1, !.seen = @ + 1]

Reading == reader \in {"running", "eof"}
\* scanLoop, one line: not JSON or the unit of init is skipped; over the limit
\* it is dropped and counted; then it is put on the channel, or dropped and
\* counted when the channel is full.
Skips ==
  /\ Reading /\ jpipe # <<>>
  /\ Head(jpipe).form = "bad" \/ (Head(jpipe).form = "line" /\ Head(jpipe).unit = InitScope)
  /\ jpipe' = Tail(jpipe)
  /\ UNCHANGED <<jtime, jlines, reader, pause, buckets, stats, jout, consumed, perWindow>>
Due(u) == /\ Reading /\ jpipe # <<>>
          /\ Head(jpipe).form = "line" /\ u = Head(jpipe).unit /\ u # InitScope
Limited ==
  \E u \in Units :
    /\ Due(u) /\ ~Allow(u)
    /\ jpipe' = Tail(jpipe)
    /\ stats' = BumpDroppedUnit(u)
    /\ UNCHANGED <<jtime, jlines, reader, pause, buckets, jout, consumed, perWindow>>
CountedOnlyLines(u, l) ==
  /\ stats' = [stats EXCEPT !.lines = @ + 1, !.seen = @ + 1]
  /\ jout' = IF Len(jout) < Buffer THEN Append(jout, l) ELSE jout
Counted(u, l) ==
  IF Len(jout) < Buffer
  THEN /\ jout' = Append(jout, l)
       /\ stats' = [stats EXCEPT !.lines = @ + 1, !.seen = @ + 1]
  ELSE /\ stats' = [BumpDroppedUnit(u) EXCEPT !.lines = @ + 1]
       /\ UNCHANGED jout
Scans ==
  \E u \in Units :
    /\ Due(u) /\ Allow(u)
    /\ jpipe' = Tail(jpipe)
    /\ buckets' = [buckets EXCEPT ![u] = Bumped(u)]
    /\ LET w == <<u, Bumped(u).end>> IN
       perWindow' = [x \in DOMAIN perWindow \cup {w} |->
                       (IF x \in DOMAIN perWindow THEN perWindow[x] ELSE 0) + (IF x = w THEN 1 ELSE 0)]
    /\ Counted(u, Head(jpipe))
    /\ UNCHANGED <<jtime, jlines, reader, pause, consumed>>

PausingUncapped == /\ reader' = "pause"
                   /\ pause' = [next |-> 2 * pause.next, until |-> jtime + pause.next]
                   /\ jpipe' = <<>>
\* Run after runOnce returned: pause, then twice the pause the next time.
Pausing == /\ reader' = "pause"
           /\ pause' = [next |-> Min({2 * pause.next, MaxBackoff}), until |-> jtime + pause.next]
           /\ jpipe' = <<>>
\* A line longer than the scanner ends the loop; runOnce then waits for a
\* process that still runs and that nobody reads.
TooLong ==
  /\ Reading /\ jpipe # <<>> /\ Head(jpipe).form = "long"
  /\ IF reader = "eof" THEN Pausing
     ELSE reader' = "hung" /\ jpipe' = <<>> /\ UNCHANGED pause
  /\ UNCHANGED <<jtime, jlines, buckets, stats, jout, consumed, perWindow>>
\* The process ends: what it printed is still read.
ProcessExits ==
  /\ reader \in {"running", "hung"}
  /\ IF reader = "hung" THEN Pausing
     ELSE reader' = "eof" /\ UNCHANGED <<jpipe, pause>>
  /\ UNCHANGED <<jtime, jlines, buckets, stats, jout, consumed, perWindow>>
RunOnceReturns ==
  /\ reader = "eof" /\ jpipe = <<>>
  /\ Pausing
  /\ UNCHANGED <<jtime, jlines, buckets, stats, jout, consumed, perWindow>>
Restart ==
  /\ reader = "pause" /\ jtime >= pause.until
  /\ reader' = "running"
  /\ UNCHANGED <<jtime, jlines, jpipe, pause, buckets, stats, jout, consumed, perWindow>>
\* The context ends: the process is killed, the channel closed.
Close ==
  /\ reader # "closed"
  /\ reader' = "closed" /\ jpipe' = <<>>
  /\ UNCHANGED <<jtime, jlines, pause, buckets, stats, jout, consumed, perWindow>>

JNext ==
  \/ \E u \in Units, form \in {"line", "bad", "long"} : Write(u, form)
  \/ JTick \/ ConsumeRecord \/ Skips \/ Limited \/ Scans
  \/ TooLong \/ ProcessExits \/ RunOnceReturns \/ Restart \/ Close

JSpec == JInit /\ [][JNext]_jVars

JTypeOK ==
  /\ reader \in {"running", "eof", "hung", "pause", "closed"}
  /\ Len(jout) <= Buffer /\ pause.next \in 1..MaxBackoff
  /\ stats.lines <= stats.seen

\* One mark for each drop that Stats reports for a unit.
DropsOf(u) == {u} \X (1 .. stats.units[u])

\* Every line of a unit that the reader met is taken by the consumer, waits
\* on the channel, or is in the drop counters, once, over all restarts of
\* journalctl; records stay in order; and no window lets more than the limit through.
JournalAccounted ==
  /\ Len(consumed) + Len(jout) + stats.dropped = stats.seen
  /\ stats.dropped = Cardinality(UNION {DropsOf(u) : u \in Units})
  /\ LET all == consumed \o jout IN \A i, j \in 1..Len(all) : i < j => all[i].n < all[j].n
  /\ \A w \in DOMAIN perWindow : perWindow[w] <= LineLimit
=============================================================================
