---------------------------- MODULE LatencySketch ----------------------------
(***************************************************************************)
(* The latency summaries the agent sends: counts in logarithmic buckets,   *)
(* merged by adding and sent as sorted index differences.  A value is its  *)
(* bucket (the logarithm is left out), or Zero when it counts as zero.     *)
(***************************************************************************)
EXTENDS Integers, Sequences, FiniteSets, FiniteSetsExt, SequencesExt, Functions

CONSTANTS Indexes,      \* buckets values fall into, negative ones too
          Zero,         \* below every bucket
          Quarters,     \* the quantiles asked, in hundredths
          MaxAdds       \* bound on the values added

VARIABLES sketch,       \* sketch[s]: the summaries of two agents
          added,        \* added[s]: the values they were given (ghost)
          wire,         \* the bytes of the first summary, as numbers
          reader        \* the summary the backend made of them and of the second
sketchVars == <<sketch, added, wire, reader>>

Sides == {"a", "b"}
EmptySketch == [bins |-> <<>>, zeros |-> 0, count |-> 0]
Nothing == [sketch |-> EmptySketch, values |-> <<>>]
SketchInit ==
  /\ sketch = [s \in Sides |-> EmptySketch]
  /\ added = [s \in Sides |-> <<>>]
  /\ wire = <<>> /\ reader = Nothing

Plus(bins, i, w) == [x \in DOMAIN bins \cup {i} |-> (IF x \in DOMAIN bins THEN bins[x] ELSE 0)
                                                  + (IF x = i THEN w ELSE 0)]
AddZeroUncounted(sk, v) == IF v = Zero
                           THEN [sk EXCEPT !.zeros = @ + 1]
                           ELSE [sk EXCEPT !.bins = Plus(@, v, 1), !.count = @ + 1]
Add(sk, v) == IF v = Zero
              THEN [sk EXCEPT !.zeros = @ + 1, !.count = @ + 1]
              ELSE [sk EXCEPT !.bins = Plus(@, v, 1), !.count = @ + 1]
SortedIndexes(sk) == SetToSortSeq(DOMAIN sk.bins, <)

\* Quantile: the first bucket whose running count passes q * (count - 1).
Running(sk, n) == sk.zeros + FoldLeftDomain(LAMBDA acc, i : IF i <= n THEN acc + sk.bins[SortedIndexes(sk)[i]] ELSE acc,
                                            0, SortedIndexes(sk))
Quantile(sk, q) ==
  LET idx == SortedIndexes(sk)
      rank == q * (sk.count - 1)
  IN IF rank < 100 * sk.zeros \/ idx = <<>> THEN Zero
     ELSE idx[Min({n \in 1..Len(idx) : 100 * Running(sk, n) > rank} \cup {Len(idx)})]

MergeOverwriting(s, o) == [bins |-> [i \in DOMAIN s.bins \cup DOMAIN o.bins |->
                                       IF i \in DOMAIN o.bins THEN o.bins[i] ELSE s.bins[i]],
                           zeros |-> s.zeros + o.zeros, count |-> s.count + o.count]
MergeWith(s, o) ==
  [bins |-> FoldSet(LAMBDA i, acc : Plus(acc, i, o.bins[i]), s.bins, DOMAIN o.bins),
   zeros |-> s.zeros + o.zeros, count |-> s.count + o.count]

\* Encode: zeros, number of buckets, then (difference to the bucket before, count).
Encode(sk) ==
  LET idx == SortedIndexes(sk) IN
  <<sk.zeros, Len(idx)>> \o
  FlattenSeq([n \in 1..Len(idx) |-> <<idx[n] - (IF n = 1 THEN 0 ELSE idx[n - 1]), sk.bins[idx[n]]>>])
\* Decode: the sum of the differences gives each bucket back.
DecodePairs(b) ==
  FoldLeftDomain(LAMBDA acc, n :
      LET i == acc.index + b[2 * n + 1] IN
      [index |-> i, bins |-> Plus(acc.bins, i, b[2 * n + 2]), count |-> acc.count + b[2 * n + 2]],
    [index |-> 0, bins |-> <<>>, count |-> b[1]], [n \in 1..b[2] |-> n])
Decode(b) == [bins |-> DecodePairs(b).bins, zeros |-> b[1], count |-> DecodePairs(b).count]

AddValue(s, v) ==
  /\ Len(added["a"]) + Len(added["b"]) < MaxAdds
  /\ sketch' = [sketch EXCEPT ![s] = Add(@, v)] /\ added' = [added EXCEPT ![s] = Append(@, v)]
  /\ UNCHANGED <<wire, reader>>
Send ==
  /\ wire = <<>>
  /\ wire' = Encode(sketch["a"])
  /\ reader' = [reader EXCEPT !.values = added["a"]]
  /\ UNCHANGED <<sketch, added>>
Receive ==
  /\ wire # <<>>
  /\ reader' = [sketch |-> MergeWith(Decode(wire), sketch["b"]), values |-> reader.values \o added["b"]]
  /\ wire' = <<>>
  /\ UNCHANGED <<sketch, added>>
SketchNext == Send \/ Receive \/ \E s \in Sides, v \in Indexes \cup {Zero} : AddValue(s, v)

SketchTypeOK ==
  /\ \A s \in Sides : DOMAIN sketch[s].bins \subseteq Indexes /\ sketch[s].count = Len(added[s])
  /\ reader.sketch.count \in Nat

\* A summary that was sent, read and merged gives, for every quantile, the
\* bucket of the value at position floor(q * (n - 1)) of all values in order.
QuantileExact ==
  LET all == SortSeq(reader.values, <)
      n == Len(all)
  IN (wire = <<>> /\ n > 0) =>
       /\ reader.sketch.count = n
       /\ \A q \in Quarters : Quantile(reader.sketch, q) = all[1 + (q * (n - 1)) \div 100]
=============================================================================
