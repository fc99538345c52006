------------------------------ MODULE Profiler ------------------------------
(***************************************************************************)
(* The CPU profiler: samples that the kernel program counts by process and *)
(* stack id, and the flush that reads the two maps, folds the stacks of    *)
(* each pod, deletes what it read and posts one window per service.  The   *)
(* kernel keeps sampling while the flush runs.                             *)
(***************************************************************************)
EXTENDS Naturals, Sequences, FiniteSets, FiniteSetsExt, SequencesExt

CONSTANTS ProfPids,     \* processes of the node
          Podless,      \* those that belong to no pod
          Image,        \* Image[p]: the binary (device and inode) p runs
          Frames,       \* stacks, by their contents
          Bucket,       \* Bucket[f]: the slot of the stack map f hashes to
          CountCap,     \* room of the map of counts
          ModCap,       \* room of the cache of symbol tables
          MaxSamples    \* bound on the samples

NoStack == "none"

VARIABLES counts,       \* counts[<<p, id>>]: samples since the key was last deleted
          stacks,       \* stacks[b]: the stack in slot b
          running,      \* processes that still run
          mods,         \* cache of symbol tables, the most recent first
          flush,        \* where the flush is, and what it read
          taken,        \* taken[p][f]: samples the kernel counted (ghost)
          profiles,     \* profiles[<<p, f, names>>]: samples posted, by line
          raced         \* a sample was taken during a flush (ghost)
profVars == <<counts, stacks, running, mods, flush, taken, profiles, raced>>

Buckets == Range(Bucket)
NoFlush == [step |-> "idle", must |-> {}, drained |-> {}, ids |-> {}, agg |-> <<>>]
Extend(fun, k, n) == [x \in DOMAIN fun \cup {k} |-> (IF x \in DOMAIN fun THEN fun[x] ELSE 0)
                                                  + (IF x = k THEN n ELSE 0)]
Without(fun, S) == [x \in DOMAIN fun \ S |-> fun[x]]

\* New and Run: the maps are created empty.
ProfInit ==
  /\ counts = <<>> /\ stacks = [b \in Buckets |-> NoStack]
  /\ running = ProfPids /\ mods = <<>> /\ flush = NoFlush
  /\ taken = [p \in ProfPids |-> [f \in Frames |-> 0]]
  /\ profiles = <<>> /\ raced = FALSE

Taken(p) == MapThenSumSet(LAMBDA f : taken[p][f], Frames)
\* do_perf_event: bpf_get_stackid fails when another stack holds the slot; a
\* new key is not inserted when the map is full.
StackId(f) == IF stacks[Bucket[f]] \in {NoStack, f} THEN Bucket[f] ELSE NoStack
Sample(p, f) ==
  LET k == <<p, StackId(f)>> IN
  /\ p \in running
  /\ MapThenSumSet(Taken, ProfPids) < MaxSamples
  /\ stacks' = IF StackId(f) = NoStack THEN stacks ELSE [stacks EXCEPT ![Bucket[f]] = f]
  /\ IF k \in DOMAIN counts \/ Cardinality(DOMAIN counts) < CountCap
     THEN /\ counts' = Extend(counts, k, 1)
          /\ taken' = [taken EXCEPT ![p][f] = @ + 1]
     ELSE UNCHANGED <<counts, taken>>
  /\ raced' = (raced \/ flush.step # "idle")
  /\ UNCHANGED <<running, mods, flush, profiles>>
Exit(p) ==
  /\ p \in running
  /\ running' = running \ {p}
  /\ UNCHANGED <<counts, stacks, mods, flush, taken, profiles, raced>>

\* flush: the iteration visits every key that is there when it starts; a key
\* inserted meanwhile may be visited or not.
StartFlush ==
  /\ flush.step = "idle" /\ counts # <<>>
  /\ flush' = [NoFlush EXCEPT !.step = "read", !.must = DOMAIN counts]
  /\ UNCHANGED <<counts, stacks, running, mods, taken, profiles, raced>>

\* readStack: a slot that is empty gives no frames.
ReadStack(id) == IF id = NoStack THEN NoStack ELSE stacks[id]
\* modFor: the table of the module, by device and inode; put drops the least recent.
ModuleKeyByPath(p) == "path"
ModuleKey(p) == Image[p]
\* buildModSyms: the names of the functions of the binary (ELF, or the table of Go).
BuildModSyms(p) == [key |-> ModuleKey(p), names |-> Image[p]]
Cached(key) == SelectSeq(mods, LAMBDA m : m.key = key)
ModFor(p) == LET hit == Cached(ModuleKey(p)) IN
             IF hit # <<>> THEN hit[1] ELSE BuildModSyms(p)
Touched(m) == SubSeq(<<m>> \o SelectSeq(mods, LAMBDA x : x.key # m.key), 1,
                     Min({ModCap, 1 + Len(SelectSeq(mods, LAMBDA x : x.key # m.key))}))
\* user: a process that ended has no maps, its frames stay addresses.
Mapped(p) == p \in running
\* foldLine: the process, its stack, and the names of its frames.
FoldLine(p, f) == <<p, f, IF Mapped(p) /\ f # NoStack THEN ModFor(p).names ELSE NoStack>>

\* One key: its ids are noted; a process without a pod, or whose pod is not
\* resolved now, is not folded.
ReadKey(k, resolved) ==
  LET p == k[1]
      f == ReadStack(k[2])
      folded == resolved /\ p \notin Podless
  IN /\ flush.step = "read" /\ k \in DOMAIN counts \ flush.drained
     /\ flush' = [flush EXCEPT !.drained = @ \cup {k},
                               !.ids = @ \cup ({k[2]} \ {NoStack}),
                               !.agg = IF folded THEN Extend(@, FoldLine(p, f), counts[k]) ELSE @]
     /\ mods' = IF folded /\ Mapped(p) /\ f # NoStack THEN Touched(ModFor(p)) ELSE mods
     /\ UNCHANGED <<counts, stacks, running, taken, profiles, raced>>
EndRead ==
  /\ flush.step = "read" /\ flush.must \subseteq flush.drained
  /\ flush' = [flush EXCEPT !.step = "counts", !.must = flush.drained]
  /\ UNCHANGED <<counts, stacks, running, mods, taken, profiles, raced>>
\* A panic of the symbol reader is recovered: the window is not posted and
\* nothing has been deleted.
FlushPanics ==
  /\ flush.step = "read"
  /\ flush' = NoFlush
  /\ UNCHANGED <<counts, stacks, running, mods, taken, profiles, raced>>

\* The counts that were read are deleted, then the slots of their stacks.
DeleteCountLater(k) ==
  /\ flush.step = "counts" /\ k \in flush.must
  /\ flush' = [flush EXCEPT !.must = @ \ {k}]
  /\ UNCHANGED <<counts, stacks, running, mods, taken, profiles, raced>>
DeleteCount(k) ==
  /\ flush.step = "counts" /\ k \in flush.must
  /\ counts' = Without(counts, {k})
  /\ flush' = [flush EXCEPT !.must = @ \ {k}]
  /\ UNCHANGED <<stacks, running, mods, taken, profiles, raced>>
DeleteStacks ==
  /\ flush.step = "counts" /\ flush.must = {}
  /\ stacks' = [b \in Buckets |-> IF b \in flush.ids THEN NoStack ELSE stacks[b]]
  /\ flush' = [flush EXCEPT !.step = "emit"]
  /\ UNCHANGED <<counts, running, mods, taken, profiles, raced>>
\* emit: one post per service; one that fails is not repeated.
Emit(sent) ==
  /\ flush.step = "emit"
  /\ profiles' = FoldSet(LAMBDA l, acc : Extend(acc, l, flush.agg[l]), profiles,
                         {l \in DOMAIN flush.agg : l[1] \in sent})
  /\ flush' = NoFlush
  /\ UNCHANGED <<counts, stacks, running, mods, taken, raced>>

ProfNext ==
  \/ \E p \in ProfPids, f \in Frames : Sample(p, f)
  \/ \E p \in ProfPids : Exit(p)
  \/ StartFlush \/ EndRead \/ FlushPanics \/ DeleteStacks
  \/ \E k \in DOMAIN counts, r \in BOOLEAN : ReadKey(k, r)
  \/ \E k \in flush.must : DeleteCount(k)
  \/ \E sent \in SUBSET ProfPids : Emit(sent)

ProfTypeOK ==
  /\ DOMAIN counts \subseteq ProfPids \X (Buckets \cup {NoStack})
  /\ stacks \in [Buckets -> Frames \cup {NoStack}]
  /\ Len(mods) <= ModCap /\ raced \in BOOLEAN
  /\ flush.step \in {"idle", "read", "counts", "emit"}
  /\ DOMAIN profiles \subseteq ProfPids \X (Frames \cup {NoStack}) \X (Range(Image) \cup {NoStack})

PostedOf(S) == MapThenSumSet(LAMBDA l : profiles[l], S)
\* No sample is posted twice, whatever falls between the reading and the
\* deleting of a window and however often a flush panics; a line never names
\* the functions of another binary; and without samples during a flush, a line
\* never carries more samples of a stack than that stack had.
ProfilesTrue ==
  /\ \A p \in ProfPids : PostedOf({l \in DOMAIN profiles : l[1] = p}) <= Taken(p)
  /\ \A l \in DOMAIN profiles : l[1] \notin Podless /\ l[3] \in {Image[l[1]], NoStack}
  /\ ~raced => \A p \in ProfPids, f \in Frames :
                 PostedOf({l \in DOMAIN profiles : l[1] = p /\ l[2] = f}) <= taken[p][f]
=============================================================================
