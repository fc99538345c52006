----------------------------- MODULE AgentProofs -----------------------------
(***************************************************************************)
(* Proofs about ConfigPull, for any checks, number of edits on the server  *)
(* and restarts of the agent; the admission webhook (Webhook), for any     *)
(* languages, pods, age limit and timeout; the identity cache (Identity),  *)
(* the scans of pods (PodScan) and the cluster agent (ClusterAgent). They  *)
(* share no state; the last section is about their composition, MCAgent.   *)
(***************************************************************************)
EXTENDS MCAgent, FiniteSetTheorems, SequenceTheorems, TLAPS

-----------------------------------------------------------------------------
(* ConfigPull: the inductive invariant *)

\* The version of a configuration is that of the edit that wrote it, and from then on
\* it is what the server has: this makes "newer than sinceVer" an exact delta.
HistoryExact ==
  \A v \in 1 .. Len(hist), c \in Checks :
    /\ hist[v][c].ver <= v
    /\ hist[v][c].ver # 0 => \A u \in hist[v][c].ver .. v : hist[u][c] = hist[v][c]

\* The targets are those of sinceVer, also while the delta is being applied.
TargetsSince == \A c \in Checks : targets[c] \in {0, At(since)[c].ver}

PullInv == TypeOK /\ HistoryExact /\ InSync /\ TargetsSince

-----------------------------------------------------------------------------
(* Lemmas *)

\* A version that was served holds a configuration.
LEMMA VersionHolds ==
  ASSUME Bounded, TypeOK, NEW v \in 0 .. Len(hist)
  PROVE  /\ At(v) \in Config /\ v \in Versions
         /\ \A c \in Checks : At(v)[c].ver \in Versions /\ At(v)[c].type \in Types
<1>1. hist \in Seq(Config) /\ Len(hist) \in Nat /\ Len(hist) <= MaxVersion /\ MaxVersion \in Nat
  BY DEF TypeOK, Bounded
<1>2. Absent \in [ver : Versions, type : Types]
  BY <1>1 DEF Absent, Versions, Types
<1>3. At(v) \in Config
  <2>1. CASE v = 0
    BY <1>2, <2>1 DEF At, Config
  <2>2. CASE v # 0
    BY <1>1, <2>2 DEF At
  <2> QED
    BY <2>1, <2>2
<1> QED
  BY <1>1, <1>3 DEF Config, Versions

\* What a version has of a check, every version since that edit has.
LEMMA Unedited ==
  ASSUME Bounded, TypeOK, HistoryExact, NEW v \in 0 .. Len(hist), NEW c \in Checks
  PROVE  /\ At(v)[c].ver <= v
         /\ \A u \in 0 .. v : At(v)[c].ver # 0 /\ At(v)[c].ver <= u => At(u)[c] = At(v)[c]
<1>1. Len(hist) \in Nat /\ At(v)[c].ver \in Nat
  BY VersionHolds DEF TypeOK, Bounded, Versions
<1>2. CASE v = 0
  BY <1>2 DEF At, Absent
<1>3. CASE v # 0
  <2>1. v \in 1 .. Len(hist) /\ At(v) = hist[v]
    BY <1>1, <1>3 DEF At
  <2>2. ASSUME NEW u \in 0 .. v, At(v)[c].ver # 0, At(v)[c].ver <= u PROVE At(u)[c] = At(v)[c]
    <3>1. u # 0 /\ u \in hist[v][c].ver .. v
      BY <1>1, <2>1, <2>2
    <3> QED
      BY <2>1, <2>2, <3>1 DEF HistoryExact, At
  <2> QED
    BY <2>1, <2>2 DEF HistoryExact
<1> QED
  BY <1>2, <1>3

\* The facts about the response and sinceVer that the steps use.
LEMMA Served ==
  ASSUME Bounded, TypeOK
  PROVE  /\ since \in 0 .. Len(hist) /\ resp.version \in 0 .. Len(hist) /\ since \in 0 .. resp.version
         /\ since \in Nat /\ resp.version \in Nat /\ Len(hist) \in Nat
         /\ (IF pc = "store" THEN resp.version ELSE since) \in 0 .. Len(hist)
BY DEF TypeOK

\* A check that a response neither adds nor deletes is what it was at sinceVer.
LEMMA NotInDelta ==
  ASSUME Bounded, TypeOK, HistoryExact, NEW c \in Checks,
         c \notin Added(resp.version), c \notin Deleted(resp.version)
  PROVE  /\ At(since)[c].ver = At(resp.version)[c].ver
         /\ At(since)[c].ver # 0 => At(since)[c] = At(resp.version)[c]
<1> DEFINE v == resp.version
           w == At(v)[c].ver
<1>1. /\ since \in 0 .. v /\ v \in 0 .. Len(hist) /\ since \in Nat /\ v \in Nat
  BY Served
<1>2. w \in Nat
  BY <1>1, VersionHolds DEF Versions
<1>3. w <= since
  BY <1>1, <1>2 DEF Added
<1>4. CASE w # 0
  BY <1>1, <1>3, <1>4, Unedited
<1>5. CASE w = 0
  <2>1. since \in since .. v
    BY <1>1
  <2> QED
    BY <1>5, <2>1 DEF Deleted
<1> QED
  BY <1>4, <1>5

\* What InSync says of one check.
Synced(k, r, p) ==
  /\ k.ver = 0 => r = 0 /\ p = 0
  /\ k.ver # 0 /\ k.type = "unknown" => r < k.ver /\ p = 0
  /\ k.ver # 0 /\ k.type # "unknown" => \/ r = k.ver /\ p = 0
                                        \/ r < k.ver /\ p = k.ver

LEMMA InSyncSynced ==
  InSync <=> \A c \in Checks : Synced(Applied[c], running[c], pending[c])
<1>1. ASSUME InSync, NEW c \in Checks PROVE Synced(Applied[c], running[c], pending[c])
  <2>1. CASE Applied[c].ver = 0
    BY <1>1, <2>1 DEF InSync, Synced
  <2>2. CASE Applied[c].ver # 0 /\ Applied[c].type = "unknown"
    BY <1>1, <2>2 DEF InSync, Synced
  <2>3. CASE Applied[c].ver # 0 /\ Applied[c].type # "unknown"
    BY <1>1, <2>3 DEF InSync, Synced
  <2> QED
    BY <2>1, <2>2, <2>3
<1>2. ASSUME \A c \in Checks : Synced(Applied[c], running[c], pending[c]) PROVE InSync
  <2> SUFFICES ASSUME NEW c \in Checks
               PROVE  CASE Applied[c].ver = 0 -> running[c] = 0 /\ pending[c] = 0
                        [] Applied[c].ver # 0 /\ Applied[c].type = "unknown" ->
                             running[c] < Applied[c].ver /\ pending[c] = 0
                        [] OTHER -> \/ running[c] = Applied[c].ver /\ pending[c] = 0
                                    \/ running[c] < Applied[c].ver /\ pending[c] = Applied[c].ver
    BY DEF InSync
  <2>0. Synced(Applied[c], running[c], pending[c])
    BY <1>2
  <2>1. CASE Applied[c].ver = 0
    BY <2>0, <2>1 DEF Synced
  <2>2. CASE Applied[c].ver # 0 /\ Applied[c].type = "unknown"
    BY <2>0, <2>2 DEF Synced
  <2>3. CASE Applied[c].ver # 0 /\ Applied[c].type # "unknown"
    BY <2>0, <2>3 DEF Synced
  <2> QED
    BY <2>1, <2>2, <2>3
<1> QED
  BY <1>1, <1>2

-----------------------------------------------------------------------------
(* The invariant holds at the start and every step preserves it *)

LEMMA PullInitInv == ASSUME Bounded, Init PROVE PullInv
<1>1. Nothing \in [Checks -> Versions] /\ 0 \in Versions /\ MaxVersion \in Nat /\ MaxRestarts \in Nat
  BY DEF Bounded, Nothing, Versions
<1>2. hist \in Seq(Config) /\ Len(hist) = 0
  BY DEF Init
<1>3. TypeOK
  <2>1. resp \in [version : 0 .. Len(hist), update : BOOLEAN] /\ since \in 0 .. resp.version
    BY <1>2 DEF Init, NoResponse
  <2>2. restarts \in 0 .. MaxRestarts /\ Len(hist) <= MaxVersion
    BY <1>1, <1>2 DEF Init
  <2> QED
    BY <1>1, <1>2, <2>1, <2>2 DEF Init, TypeOK
<1>4. HistoryExact
  BY <1>2 DEF HistoryExact
<1>5. Applied = [c \in Checks |-> Absent] /\ At(since) = [c \in Checks |-> Absent]
  BY DEF Init, Applied, At
<1>6. InSync
  <2>1. \A c \in Checks : Synced(Applied[c], running[c], pending[c])
    BY <1>5 DEF Synced, Absent, Init, Nothing
  <2> QED
    BY <2>1, InSyncSynced
<1>7. TargetsSince
  BY <1>5 DEF TargetsSince, Init, Nothing
<1> QED
  BY <1>3, <1>4, <1>6, <1>7 DEF PullInv

\* A step of pullOnce before the delta, or of the environment, touches no table.
LEMMA Undisturbed ==
  ASSUME PullInv, UNCHANGED <<hist, since, running, pending, targets>>,
         \/ pc # "store" /\ pc' # "store"
         \/ pc' = pc /\ resp' = resp
  PROVE  HistoryExact' /\ InSync' /\ TargetsSince'
<1>1. HistoryExact' /\ TargetsSince'
  BY DEF PullInv, HistoryExact, TargetsSince, At
<1>2. Applied' = Applied
  BY DEF Applied, At
<1> QED
  BY <1>1, <1>2 DEF PullInv, InSync

\* An edit of the server appends a configuration; those before it stay.
LEMMA EditKeeps ==
  ASSUME Bounded, PullInv, NEW c \in Checks, NEW config \in [ver : {0, Len(hist) + 1}, type : Types],
         Edit(c, config)
  PROVE  PullInv'
<1> USE DEF PullInv
<1> DEFINE n == Len(hist)
<1>1. /\ n \in Nat /\ n < MaxVersion /\ MaxVersion \in Nat /\ hist \in Seq(Config)
  BY DEF Edit, TypeOK, Bounded
<1>2. /\ config \in [ver : Versions, type : Types] /\ config.ver \in {0, n + 1}
  BY <1>1 DEF Versions
<1>3. conf \in Config /\ conf = At(n)
  BY <1>1, VersionHolds DEF conf
<1> DEFINE new == [conf EXCEPT ![c] = config]
<1>4. new \in Config
  BY <1>2, <1>3 DEF Config
<1>5. /\ hist' = Append(hist, new) /\ hist' \in Seq(Config) /\ Len(hist') = n + 1
      /\ hist'[n + 1] = new /\ \A u \in 1 .. n : hist'[u] = hist[u]
  BY <1>1, <1>4 DEF Edit
<1>6. TypeOK'
  BY <1>1, <1>5 DEF TypeOK, Edit, env, tables
<1>7. \A u \in 0 .. n : At(u)' = At(u)
  BY <1>1, <1>5 DEF At
<1>8. HistoryExact'
  <2> SUFFICES ASSUME NEW v \in 1 .. n + 1, NEW d \in Checks
               PROVE  /\ hist'[v][d].ver <= v
                      /\ hist'[v][d].ver # 0 => \A u \in hist'[v][d].ver .. v : hist'[u][d] = hist'[v][d]
    BY <1>5 DEF HistoryExact
  <2>1. CASE v # n + 1
    <3>1. v \in 1 .. n
      BY <1>1, <2>1
    <3>2. hist[v][d].ver \in Nat
      BY <1>1, <3>1 DEF Config, Versions
    <3>3. /\ hist[v][d].ver <= v
          /\ hist[v][d].ver # 0 => \A u \in hist[v][d].ver .. v : hist[u][d] = hist[v][d]
      BY <3>1 DEF HistoryExact
    <3>4. ASSUME hist[v][d].ver # 0, NEW u \in hist[v][d].ver .. v PROVE hist'[u][d] = hist[v][d]
      <4>1. u \in 1 .. n
        BY <3>1, <3>2, <3>4
      <4> QED
        BY <1>5, <3>3, <3>4, <4>1
    <3> QED
      BY <1>5, <3>1, <3>3, <3>4
  <2>2. CASE v = n + 1 /\ d = c
    <3>1. hist'[v][d] = config
      BY <1>3, <1>5, <2>2 DEF Config
    <3>2. config.ver \in {0, v}
      BY <1>2, <2>2
    <3>3. \A u \in v .. v : u = v
      BY <1>1, <2>2
    <3> QED
      BY <1>1, <2>2, <3>1, <3>2, <3>3
  <2>3. CASE v = n + 1 /\ d # c
    <3>1. hist'[v][d] = At(n)[d]
      BY <1>3, <1>5, <2>3 DEF Config
    <3> DEFINE w == At(n)[d].ver
    <3>2. w \in Nat /\ w <= n
      BY <1>1, VersionHolds, Unedited DEF Versions
    <3>3. ASSUME w # 0, NEW u \in w .. v PROVE hist'[u][d] = At(n)[d]
      <4>1. CASE u = v
        BY <3>1, <4>1
      <4>2. CASE u # v
        <5>1. u \in 1 .. n /\ u \in 0 .. n /\ w <= u /\ n \in 0 .. n
          BY <1>1, <2>3, <3>2, <3>3, <4>2
        <5>2. At(u)[d] = At(n)[d]
          BY <3>3, <5>1, Unedited
        <5>3. hist'[u] = hist[u] /\ At(u) = hist[u]
          BY <1>5, <5>1 DEF At
        <5> QED
          BY <5>2, <5>3
      <4> QED
        BY <4>1, <4>2
    <3> QED
      BY <1>1, <2>3, <3>1, <3>2, <3>3
  <2> QED
    BY <2>1, <2>2, <2>3
<1>9. UNCHANGED <<pc, resp, since, running, pending, targets>>
  BY DEF Edit, tables
<1>10. At(since)' = At(since) /\ Applied' = Applied
  BY <1>5, <1>9, Served DEF At, Applied
<1>11. InSync' /\ TargetsSince'
  BY <1>9, <1>10 DEF InSync, TargetsSince
<1> QED
  BY <1>6, <1>8, <1>11

\* The answer of the server is its last version.
LEMMA PullKeeps == ASSUME Bounded, PullInv, Pull PROVE PullInv'
<1> DEFINE r == [version |-> Len(hist), update |-> update = "asked"]
<1>1. Len(hist) \in Nat /\ since \in 0 .. Len(hist)
  BY Served DEF PullInv
<1>2. resp' = r /\ r \in [version : 0 .. Len(hist), update : BOOLEAN] /\ r.version = Len(hist)
  BY <1>1 DEF Pull
<1>3. /\ UNCHANGED <<hist, healthy, up, restarts, since, running, pending, targets, overlay, marker>>
      /\ pc = "idle" /\ pc' = "policies" /\ update' \in {"none", "asked", "served"}
  BY DEF Pull, env, tables, PullInv, TypeOK
<1> HIDE DEF r
<1>4. TypeOK'
  BY <1>1, <1>2, <1>3 DEF PullInv, TypeOK
<1> QED
  BY <1>3, <1>4, Undisturbed DEF PullInv

\* RetryFailedStarts of the short circuit: what it starts is the version of sinceVer.
LEMMA ShortCircuitKeeps == ASSUME Bounded, PullInv, ShortCircuit PROVE PullInv'
<1> USE DEF PullInv
<1>1. /\ UNCHANGED <<hist, update, healthy, up, restarts, resp, since, targets, overlay, marker>>
      /\ pc = "delta" /\ pc' = "idle"
  BY DEF ShortCircuit, server, env
<1>2. 0 \in Versions
  BY DEF Versions, Bounded
<1>3. running' \in [Checks -> Versions] /\ pending' \in [Checks -> Versions]
  BY <1>2 DEF ShortCircuit, TypeOK
<1>4. TypeOK'
  BY <1>1, <1>3 DEF TypeOK
<1>5. HistoryExact' /\ TargetsSince'
  BY <1>1 DEF HistoryExact, TargetsSince, At
<1>6. Applied' = Applied
  BY <1>1 DEF Applied, At
<1>7. ASSUME NEW c \in Checks PROVE Synced(Applied'[c], running'[c], pending'[c])
  <2>1. Synced(Applied[c], running[c], pending[c])
    BY InSyncSynced
  <2>2. CASE Retries(c)
    <3>1. pending[c] # 0 /\ running'[c] = pending[c] /\ pending'[c] = 0
      BY <2>2 DEF ShortCircuit, Retries
    <3> QED
      BY <1>6, <2>1, <3>1 DEF Synced
  <2>3. CASE ~Retries(c)
    <3>1. running'[c] = running[c] /\ pending'[c] = pending[c]
      BY <2>3 DEF ShortCircuit
    <3> QED
      BY <1>6, <2>1, <3>1
  <2> QED
    BY <2>2, <2>3
<1>8. InSync'
  <2>1. (\A c \in Checks : Synced(Applied[c], running[c], pending[c]))'
    BY <1>7 DEF Synced
  <2> QED
    BY <2>1, InSyncSynced, PTL
<1> QED
  BY <1>4, <1>5, <1>8

\* What ApplyDelta leaves for a check is in step with the version of the response:
\* a configuration newer than sinceVer is newer than the instance that runs, and an
\* older one is the configuration that pendingStarts still holds.
LEMMA DeltaSyncs ==
  ASSUME Bounded, PullInv, pc # "store", NEW c \in Checks, NEW e,
         e = CASE c \in Deleted(resp.version) -> Removed(c)
               [] c \in Added(resp.version) -> Installed(c, At(resp.version)[c].ver)
               [] OTHER -> Kept(c, resp.version)
  PROVE  /\ e[1] \in Versions /\ e[2] \in Versions
         /\ Synced(At(resp.version)[c], e[1], e[2])
<1> USE DEF PullInv
<1> DEFINE v == resp.version
           k == At(v)[c]
           w == k.ver
<1>1. /\ since \in 0 .. v /\ v \in 0 .. Len(hist) /\ since \in 0 .. Len(hist)
      /\ since \in Nat /\ v \in Nat
  BY Served
<1>2. w \in Versions /\ w \in Nat /\ w <= v /\ 0 \in Versions
  BY <1>1, VersionHolds, Unedited DEF Versions, Bounded
<1>3. At(since)[c].ver \in Nat /\ At(since)[c].ver <= since
  BY <1>1, VersionHolds, Unedited DEF Versions
<1>4. Synced(At(since)[c], running[c], pending[c])
  BY InSyncSynced DEF Applied
<1>5. running[c] \in Versions /\ pending[c] \in Versions /\ running[c] \in Nat /\ pending[c] \in Nat
  BY DEF TypeOK, Versions
<1>6. running[c] <= since
  BY <1>1, <1>3, <1>4, <1>5 DEF Synced
<1>7. CASE c \in Deleted(v)
  <2>1. w = 0 /\ c \notin Added(v)
    BY <1>1, <1>7 DEF Deleted, Added
  <2>2. e = <<0, 0>>
    BY <1>7, <2>1 DEF Removed
  <2> QED
    BY <1>2, <2>1, <2>2 DEF Synced
<1>8. CASE c \notin Deleted(v) /\ c \in Added(v)
  <2>1. e = Installed(c, w)
    BY <1>8
  <2>2. w > since /\ w # 0 /\ running[c] < w
    BY <1>1, <1>2, <1>5, <1>6, <1>8 DEF Added
  <2>3. At(w)[c] = k
    BY <1>1, <1>2, <2>2, Unedited
  <2>4. CASE k.type = "unknown"
    <3>1. e = <<running[c], 0>>
      BY <2>1, <2>3, <2>4 DEF Installed
    <3> QED
      BY <1>2, <1>5, <2>2, <2>4, <3>1 DEF Synced
  <2>5. CASE k.type # "unknown" /\ Starts(c, w)
    <3>1. e = <<w, 0>>
      BY <2>1, <2>3, <2>5 DEF Installed
    <3> QED
      BY <1>2, <1>5, <2>2, <2>5, <3>1 DEF Synced
  <2>6. CASE k.type # "unknown" /\ ~Starts(c, w)
    <3>1. e = <<running[c], w>>
      BY <2>1, <2>3, <2>6 DEF Installed
    <3> QED
      BY <1>2, <1>5, <2>2, <2>6, <3>1 DEF Synced
  <2> QED
    BY <2>4, <2>5, <2>6
<1>9. CASE c \notin Deleted(v) /\ c \notin Added(v)
  <2>1. e = Kept(c, v)
    BY <1>9
  <2>2. At(since)[c].ver = w /\ (w # 0 => At(since)[c] = k)
    BY <1>9, NotInDelta
  <2>3. Synced(k, running[c], pending[c])
    BY <1>4, <2>2 DEF Synced
  <2>4. CASE Added(v) = {} /\ Retries(c)
    <3>1. e = <<pending[c], 0>> /\ pending[c] # 0
      BY <2>1, <2>4 DEF Kept, Retries
    <3> QED
      BY <1>2, <1>5, <2>3, <3>1 DEF Synced
  <2>5. CASE ~(Added(v) = {} /\ Retries(c))
    <3>1. e = <<running[c], pending[c]>>
      BY <2>1, <2>5 DEF Kept
    <3> QED
      BY <1>5, <2>3, <3>1
  <2> QED
    BY <2>4, <2>5
<1> QED
  BY <1>7, <1>8, <1>9

LEMMA ApplyDeltaKeeps == ASSUME Bounded, PullInv, ApplyDelta PROVE PullInv'
<1> USE DEF PullInv
<1> DEFINE v == resp.version
           table == [c \in Checks |->
                      CASE c \in Deleted(v) -> Removed(c)
                        [] c \in Added(v) -> Installed(c, At(v)[c].ver)
                        [] OTHER -> Kept(c, v)]
<1>1. /\ UNCHANGED <<hist, update, healthy, up, restarts, resp, since, targets, overlay, marker>>
      /\ pc = "delta" /\ pc' = "store"
      /\ running' = [c \in Checks |-> table[c][1]]
      /\ pending' = [c \in Checks |-> table[c][2]]
  BY DEF ApplyDelta, server, env
<1>2. \A c \in Checks : /\ table[c][1] \in Versions /\ table[c][2] \in Versions
                        /\ Synced(At(v)[c], table[c][1], table[c][2])
  BY <1>1, DeltaSyncs
<1> HIDE DEF table
<1>3. running' \in [Checks -> Versions] /\ pending' \in [Checks -> Versions]
  BY <1>1, <1>2
<1>4. TypeOK'
  BY <1>1, <1>3 DEF TypeOK
<1>5. HistoryExact' /\ TargetsSince'
  BY <1>1 DEF HistoryExact, TargetsSince, At
<1>6. Applied' = At(v)
  BY <1>1 DEF Applied, At
<1>7. \A c \in Checks : Synced(Applied'[c], running'[c], pending'[c])
  BY <1>1, <1>2, <1>6
<1>8. InSync'
  <2>1. (\A c \in Checks : Synced(Applied[c], running[c], pending[c]))'
    BY <1>7 DEF Synced
  <2> QED
    BY <2>1, InSyncSynced, PTL
<1> QED
  BY <1>4, <1>5, <1>8

\* The tables already stand for the version that becomes sinceVer.
LEMMA StoreVersionKeeps == ASSUME Bounded, PullInv, StoreVersion PROVE PullInv'
<1> USE DEF PullInv
<1> DEFINE v == resp.version
<1>1. /\ UNCHANGED <<hist, update, healthy, up, restarts, resp, running, pending, marker>>
      /\ pc = "store" /\ pc' = "idle" /\ since' = v /\ overlay' = v
      /\ targets' \in [Checks -> Versions]
      /\ \A c \in Checks : targets'[c] \in TargetsAfter(c, v)
  BY DEF StoreVersion, server, env
<1>2. v \in 0 .. Len(hist) /\ v \in Nat /\ v \in Versions /\ since \in Nat
  BY Served, VersionHolds
<1>3. TypeOK'
  BY <1>1, <1>2 DEF TypeOK
<1>4. HistoryExact'
  BY <1>1 DEF HistoryExact
<1>5. At(since)' = At(v) /\ Applied' = Applied
  BY <1>1 DEF Applied, At
<1>6. InSync'
  BY <1>1, <1>5 DEF InSync
<1>7. ASSUME NEW c \in Checks PROVE targets'[c] \in {0, At(v)[c].ver}
  <2>1. CASE c \in Deleted(v)
    <3>1. At(v)[c].ver = 0 /\ c \notin Added(v)
      BY <1>2, <2>1 DEF Deleted, Added
    <3> QED
      BY <1>1, <2>1, <3>1 DEF TargetsAfter
  <2>2. CASE c \notin Deleted(v) /\ c \in Added(v)
    BY <1>1, <2>2 DEF TargetsAfter
  <2>3. CASE c \notin Deleted(v) /\ c \notin Added(v)
    <3>1. targets'[c] = targets[c] /\ targets[c] \in {0, At(since)[c].ver}
      BY <1>1, <2>3 DEF TargetsAfter, TargetsSince
    <3>2. At(since)[c].ver = At(v)[c].ver
      BY <2>3, NotInDelta
    <3> QED
      BY <3>1, <3>2
  <2> QED
    BY <2>1, <2>2, <2>3
<1>8. TargetsSince'
  BY <1>5, <1>7 DEF TargetsSince
<1> QED
  BY <1>3, <1>4, <1>6, <1>8

\* A restart forgets the tables and sinceVer together.
LEMMA RestartKeeps == ASSUME Bounded, PullInv, Restart PROVE PullInv'
<1> USE DEF PullInv
<1>1. /\ UNCHANGED <<hist, update, healthy, up, marker>>
      /\ pc' = "idle" /\ resp' = NoResponse /\ since' = 0 /\ overlay' = 0
      /\ running' = Nothing /\ pending' = Nothing /\ targets' = Nothing
  BY DEF Restart, server
<1>2. Nothing \in [Checks -> Versions] /\ 0 \in Versions /\ Len(hist) \in Nat
  BY DEF Bounded, Nothing, Versions, TypeOK
<1>3. restarts' \in 0 .. MaxRestarts
  BY DEF Restart, TypeOK, Bounded
<1>4. resp' \in [version : 0 .. Len(hist), update : BOOLEAN] /\ since' \in 0 .. resp'.version
  BY <1>1, <1>2 DEF NoResponse
<1>5. TypeOK'
  BY <1>1, <1>2, <1>3, <1>4 DEF TypeOK
<1>6. HistoryExact'
  BY <1>1 DEF HistoryExact
<1>7. Applied' = [c \in Checks |-> Absent] /\ At(since)' = [c \in Checks |-> Absent]
  BY <1>1 DEF Applied, At
<1>8. InSync'
  <2>1. (\A c \in Checks : Synced(Applied[c], running[c], pending[c]))'
    BY <1>1, <1>7 DEF Synced, Absent, Nothing
  <2> QED
    BY <2>1, InSyncSynced, PTL
<1>9. TargetsSince'
  BY <1>1, <1>7 DEF TargetsSince, Nothing
<1> QED
  BY <1>5, <1>6, <1>8, <1>9

LEMMA PullStepInv == ASSUME Bounded, PullInv, [Next]_vars PROVE PullInv'
<1>1. ASSUME NEW c \in Checks, Save(c) PROVE PullInv'
  <2>1. PICK t \in Types : Edit(c, [ver |-> Len(hist) + 1, type |-> t])
    BY <1>1 DEF Save
  <2> QED
    BY <2>1, EditKeeps
<1>2. ASSUME NEW c \in Checks, Delete(c) PROVE PullInv'
  <2>1. Absent \in [ver : {0, Len(hist) + 1}, type : Types]
    BY DEF Absent, Types
  <2> QED
    BY <1>2, <2>1, EditKeeps DEF Delete
<1>3. ASSUME NEW c \in Checks, TargetChanges(c) PROVE PullInv'
  <2>1. TypeOK'
    BY <1>3 DEF TargetChanges, PullInv, TypeOK, server, tables
  <2> QED
    BY <1>3, <2>1, Undisturbed DEF PullInv, TargetChanges, server, tables
<1>4. CASE AskUpdate
  <2>1. TypeOK'
    BY <1>4 DEF AskUpdate, PullInv, TypeOK, env, tables
  <2> QED
    BY <1>4, <2>1, Undisturbed DEF PullInv, AskUpdate, tables
<1>5. CASE PoliciesPass \/ PoliciesFail
  <2>1. TypeOK'
    BY <1>5 DEF PoliciesPass, PoliciesFail, PullInv, TypeOK, server, env, tables
  <2> QED
    BY <1>5, <2>1, Undisturbed DEF PullInv, PoliciesPass, PoliciesFail, server, tables
<1>6. CASE WriteMarker
  <2>1. marker' \in BOOLEAN
    BY <1>6 DEF WriteMarker, PullInv, TypeOK
  <2>2. TypeOK'
    BY <1>6, <2>1 DEF WriteMarker, PullInv, TypeOK, server, env, tables
  <2> QED
    BY <1>6, <2>2, Undisturbed DEF PullInv, WriteMarker, server, tables
<1>7. CASE HealthChanges
  <2>1. TypeOK'
    BY <1>7 DEF HealthChanges, PullInv, TypeOK, server, tables
  <2> QED
    BY <1>7, <2>1, Undisturbed DEF PullInv, HealthChanges, server, tables
<1>8. CASE UNCHANGED vars
  <2>1. TypeOK'
    BY <1>8 DEF PullInv, TypeOK, vars, server, env, tables
  <2> QED
    BY <1>8, <2>1, Undisturbed DEF PullInv, vars, server, tables
<1> QED
  BY <1>1, <1>2, <1>3, <1>4, <1>5, <1>6, <1>7, <1>8, PullKeeps, ShortCircuitKeeps, ApplyDeltaKeeps,
     StoreVersionKeeps, RestartKeeps DEF Next, PullStep

-----------------------------------------------------------------------------
(* Theorems *)

\* The inductive invariant holds in every run of config pull.
THEOREM PullInvariant == Spec => []PullInv
<1> USE BoundAssumption
<1>1. Init => PullInv
  BY PullInitInv
<1>2. PullInv /\ [Next]_vars => PullInv'
  BY PullStepInv
<1> QED
  BY <1>1, <1>2, PTL DEF Spec

\* The variables of configpull.go and of the tables it fills keep their types.
THEOREM PullTypeCorrect == Spec => []TypeOK
<1> USE BoundAssumption
<1>1. PullInv => TypeOK
  BY DEF PullInv
<1> QED
  BY <1>1, PullInvariant, PTL

\* After any edits, deletes, failed starts, retries and restarts the running and the
\* pending checks are what the acknowledged version says, and no target of eBPF is the
\* address of a configuration that was replaced.
THEOREM PullInSync == Spec => []ConfigInSync
<1> USE BoundAssumption
<1>1. PullInv => ConfigInSync
  BY DEF PullInv, ConfigInSync, TargetsSince, TargetsCurrent, Applied
<1> QED
  BY <1>1, PullInvariant, PTL

\* A running check is taken down only by its deletion on the server, or by a restart.
THEOREM PullStopsOnlyDeleted == Spec => StopsOnlyDeleted
<1> USE BoundAssumption
<1> DEFINE Stop == \A c \in Checks : running[c] # 0 /\ running'[c] = 0 =>
                     At(resp.version)[c].ver = 0 \/ restarts' # restarts
<1>1. ASSUME PullInv, [Next]_vars PROVE [Stop]_vars
  <2>1. CASE ShortCircuit
    BY <2>1 DEF ShortCircuit, Retries
  <2>2. CASE ApplyDelta
    <3> DEFINE v == resp.version
               table == [c \in Checks |->
                          CASE c \in Deleted(v) -> Removed(c)
                            [] c \in Added(v) -> Installed(c, At(v)[c].ver)
                            [] OTHER -> Kept(c, v)]
    <3>1. pc = "delta" /\ running' = [c \in Checks |-> table[c][1]]
      BY <2>2 DEF ApplyDelta
    <3>2. ASSUME NEW c \in Checks, running[c] # 0, running'[c] = 0 PROVE At(v)[c].ver = 0
      <4>1. /\ table[c][1] = 0 /\ Synced(At(v)[c], table[c][1], table[c][2])
        BY <1>1, <3>1, <3>2, DeltaSyncs
      <4>2. SUFFICES ASSUME At(v)[c].ver # 0 PROVE FALSE
        OBVIOUS
      <4>3. c \notin Deleted(v)
        BY <4>2 DEF Deleted
      <4>4. CASE c \in Added(v)
        <5>1. table[c] = Installed(c, At(v)[c].ver)
          BY <4>3, <4>4
        <5>2. Installed(c, At(v)[c].ver)[1] \in {running[c], At(v)[c].ver}
          <6>1. Installed(c, At(v)[c].ver) \in {<<running[c], 0>>, <<At(v)[c].ver, 0>>, <<running[c], At(v)[c].ver>>}
            BY DEF Installed
          <6> QED
            BY <6>1
        <5> QED
          BY <3>2, <4>1, <4>2, <5>1, <5>2
      <4>5. CASE c \notin Added(v)
        <5>1. table[c] = Kept(c, v)
          BY <4>3, <4>5
        <5> QED
          BY <3>2, <4>1, <5>1 DEF Kept, Retries
      <4> QED
        BY <4>4, <4>5
    <3> QED
      BY <3>2
  <2>3. CASE Restart
    <3>1. restarts' # restarts
      BY <1>1, <2>3 DEF Restart, PullInv, TypeOK, Bounded
    <3> QED
      BY <3>1
  <2>4. CASE ~(ShortCircuit \/ ApplyDelta \/ Restart)
    <3>1. running' = running
      BY <1>1, <2>4 DEF Next, PullStep, Save, Delete, Edit, AskUpdate, TargetChanges, Pull, PoliciesPass,
         PoliciesFail, WriteMarker, StoreVersion, HealthChanges, vars, tables
    <3> QED
      BY <3>1
  <2> QED
    BY <2>1, <2>2, <2>3, <2>4
<1> QED
  BY <1>1, PullInvariant, PTL DEF Spec, StopsOnlyDeleted

-----------------------------------------------------------------------------
(* The webhook *)

Asks == {"idle", "policies", "marks"}
Answers == Languages \cup {NoPolicy, "java"}
Polls == [ask : Asks, answer : Answers, since : Nat]
Admissions == [pod : PodShapes, central : Languages \cup {NoPolicy}, step : {"idle", "selected"}]

HookShapes ==
  /\ marked \in BOOLEAN /\ enable \in BOOLEAN
  /\ policy \in Languages \cup {NoPolicy} /\ runtimePolicies \in Languages \cup {NoPolicy}
  /\ hookTime \in 1 .. MaxHookTime /\ runtimePoliciesAt \in 0 .. MaxHookTime
  /\ revoked \in [Languages -> Nat] /\ poll \in Polls /\ admission \in Admissions
  /\ admitted.injected \subseteq Languages \cup {"java"}

\* l is selected, or ceased to be no earlier than at t.
SelectedSince(l, t) == policy = l \/ t <= revoked[l]

\* A request has a start and a limit, and what it brings was selected when it began.
AnswerFresh ==
  poll.ask # "idle" =>
    /\ poll.since <= hookTime /\ hookTime <= poll.since + PollTimeout
    /\ poll.ask = "policies" => /\ poll.answer \in Languages \cup {NoPolicy}
                                /\ poll.answer \in Languages => SelectedSince(poll.answer, poll.since)

\* What is cached was selected less than one request before the age it carries.
CacheFresh ==
  /\ runtimePoliciesAt <= hookTime
  /\ runtimePoliciesAt = Never => runtimePolicies = NoPolicy
  /\ runtimePolicies \in Languages =>
       policy = runtimePolicies \/ runtimePoliciesAt <= revoked[runtimePolicies] + PollTimeout

\* What a pod is decided with was selected less than the age and one request ago.
CentralFresh ==
  admission.step = "selected" /\ admission.central \in Languages =>
    policy = admission.central \/ hookTime - revoked[admission.central] <= MaxAge + PollTimeout

HookInv == HookShapes /\ AnswerFresh /\ CacheFresh /\ CentralFresh

LEMMA HookInitInv == ASSUME HookSized, HookInit PROVE HookInv
<1>1. /\ Idle \in Polls /\ Idle.ask = "idle"
  BY DEF Idle, Polls, Asks, Answers
<1>2. /\ NoPod \in PodShapes /\ Waiting.step = "idle"
  BY DEF NoPod, PodShapes, Waiting
<1>3. Waiting \in Admissions
  BY <1>2 DEF Waiting, Admissions
<1>4. HookShapes
  <2>1. admitted.injected = {}
    BY DEF HookInit, Plain
  <2>2. revoked \in [Languages -> Nat] /\ 1 \in 1 .. MaxHookTime /\ 0 \in 0 .. MaxHookTime
    BY DEF HookInit, Never, HookSized
  <2> QED
    BY <1>1, <1>3, <2>1, <2>2 DEF HookInit, HookShapes, HookSized, Never
<1>5. AnswerFresh /\ CacheFresh /\ CentralFresh
  BY <1>1, <1>2 DEF HookInit, AnswerFresh, CacheFresh, CentralFresh, HookSized, Never
<1> QED
  BY <1>4, <1>5 DEF HookInv

\* The portal: what ceases to be selected does so now.
LEMMA SelectKeeps ==
  ASSUME HookSized, HookInv, NEW java \in BOOLEAN, NEW language \in Languages \cup {NoPolicy},
         Select(java, language)
  PROVE  HookInv'
<1>1. /\ marked' = java /\ policy' = language /\ admission.step = "idle"
      /\ revoked' = [l \in Languages |-> IF l = policy /\ l # language THEN hookTime ELSE revoked[l]]
      /\ UNCHANGED <<hookTime, enable, runtimePolicies, runtimePoliciesAt, poll, admission, admitted>>
  BY DEF Select
<1>2. hookTime \in Nat /\ runtimePoliciesAt \in Nat /\ poll.since \in Nat /\ PollTimeout \in Nat
  BY DEF HookInv, HookShapes, HookSized, Polls
<1>3. revoked \in [Languages -> Nat] /\ revoked' \in [Languages -> Nat]
  BY <1>1, <1>2 DEF HookInv, HookShapes
<1>4. HookShapes'
  BY <1>1, <1>3 DEF HookInv, HookShapes
<1>5. ASSUME NEW l \in Languages
      PROVE  /\ revoked[l] \in Nat /\ revoked'[l] \in Nat
             /\ policy = l => policy' = l \/ revoked'[l] = hookTime
             /\ policy # l => revoked'[l] = revoked[l]
  BY <1>1, <1>2, <1>3
<1>6. AnswerFresh'
  BY <1>1, <1>2, <1>5 DEF HookInv, AnswerFresh, SelectedSince
<1>7. CacheFresh'
  BY <1>1, <1>2, <1>5 DEF HookInv, CacheFresh
<1>8. CentralFresh'
  BY <1>1 DEF CentralFresh
<1> QED
  BY <1>4, <1>6, <1>7, <1>8 DEF HookInv

LEMMA HookTickKeeps == ASSUME HookSized, HookInv, HookTick PROVE HookInv'
<1>1. /\ hookTime < MaxHookTime /\ (poll.ask = "idle" \/ hookTime < poll.since + PollTimeout)
      /\ admission.step = "idle" /\ hookTime' = hookTime + 1
      /\ UNCHANGED <<marked, policy, revoked, enable, runtimePolicies, runtimePoliciesAt, poll, admission, admitted>>
  BY DEF HookTick
<1>2. /\ hookTime \in Nat /\ runtimePoliciesAt \in Nat /\ poll.since \in Nat /\ PollTimeout \in Nat
      /\ MaxHookTime \in Nat
  BY DEF HookInv, HookShapes, HookSized, Polls
<1>3. HookShapes'
  BY <1>1, <1>2 DEF HookInv, HookShapes
<1>4. AnswerFresh'
  BY <1>1, <1>2 DEF HookInv, AnswerFresh, SelectedSince
<1>5. CacheFresh'
  BY <1>1, <1>2 DEF HookInv, CacheFresh
<1>6. CentralFresh'
  BY <1>1 DEF CentralFresh
<1> QED
  BY <1>3, <1>4, <1>5, <1>6 DEF HookInv

\* The poller: a request is asked, answered or fails.
LEMMA PollKeeps ==
  ASSUME HookSized, HookInv, AskPolicies \/ PoliciesArrive \/ AskFails \/ MarksArrive
  PROVE  HookInv'
<1>1. /\ hookTime \in Nat /\ runtimePoliciesAt \in Nat /\ poll.since \in Nat /\ PollTimeout \in Nat
      /\ poll \in Polls /\ revoked \in [Languages -> Nat]
  BY DEF HookInv, HookShapes, HookSized, Polls
<1>2. UNCHANGED <<marked, policy, revoked, hookTime, admission, admitted>>
  BY DEF AskPolicies, PoliciesArrive, AskFails, MarksArrive
<1>3. CentralFresh'
  BY <1>2 DEF HookInv, CentralFresh
<1>4. AskMarks \in Polls /\ AskMarks.ask = "marks" /\ AskMarks.since = hookTime
  BY <1>1 DEF AskMarks, Polls, Asks, Answers
<1>5. CASE AskPolicies
  <2> DEFINE q == [ask |-> "policies", answer |-> policy, since |-> hookTime]
  <2>1. poll' = q /\ UNCHANGED <<enable, runtimePolicies, runtimePoliciesAt>>
    BY <1>5 DEF AskPolicies
  <2>2. q \in Polls /\ q.ask = "policies" /\ q.answer = policy /\ q.since = hookTime
    BY <1>1 DEF Polls, Asks, Answers, HookInv, HookShapes
  <2> HIDE DEF q
  <2>3. HookShapes' /\ CacheFresh'
    BY <1>2, <2>1, <2>2 DEF HookInv, HookShapes, CacheFresh
  <2>4. AnswerFresh'
    BY <1>1, <1>2, <2>1, <2>2 DEF HookInv, HookShapes, AnswerFresh, SelectedSince
  <2> QED
    BY <1>3, <2>3, <2>4 DEF HookInv
<1>6. CASE PoliciesArrive
  <2>1. /\ poll.ask = "policies" /\ runtimePolicies' = poll.answer /\ runtimePoliciesAt' = hookTime
        /\ poll' = AskMarks /\ enable' = enable
    BY <1>6 DEF PoliciesArrive
  <2>2. /\ poll.answer \in Languages \cup {NoPolicy} /\ hookTime <= poll.since + PollTimeout
        /\ poll.answer \in Languages => policy = poll.answer \/ poll.since <= revoked[poll.answer]
    BY <2>1 DEF HookInv, AnswerFresh, SelectedSince
  <2>3. HookShapes'
    BY <1>2, <1>4, <2>1, <2>2 DEF HookInv, HookShapes
  <2>4. AnswerFresh'
    BY <1>1, <1>2, <1>4, <2>1 DEF AnswerFresh
  <2>5. runtimePoliciesAt' # Never
    BY <2>1 DEF HookInv, HookShapes, Never
  <2>6. poll.answer \in Languages =>
          policy = poll.answer \/ hookTime <= revoked[poll.answer] + PollTimeout
    <3> SUFFICES ASSUME poll.answer \in Languages, poll.since <= revoked[poll.answer]
                 PROVE  hookTime <= revoked[poll.answer] + PollTimeout
      BY <2>2
    <3>1. revoked[poll.answer] \in Nat
      BY <1>1
    <3> QED
      BY <1>1, <2>2, <3>1
  <2>7. CacheFresh'
    BY <1>1, <1>2, <2>1, <2>5, <2>6 DEF CacheFresh
  <2> QED
    BY <1>3, <2>3, <2>4, <2>7 DEF HookInv
<1>7. CASE AskFails
  <2>1. poll' = AskMarks /\ UNCHANGED <<enable, runtimePolicies, runtimePoliciesAt>>
    BY <1>7 DEF AskFails
  <2>2. HookShapes' /\ CacheFresh'
    BY <1>2, <1>4, <2>1 DEF HookInv, HookShapes, CacheFresh
  <2>3. AnswerFresh'
    BY <1>1, <1>2, <1>4, <2>1 DEF AnswerFresh
  <2> QED
    BY <1>3, <2>2, <2>3 DEF HookInv
<1>8. CASE MarksArrive
  <2>1. /\ poll' = Idle /\ enable' \in {enable, poll.answer = "java"}
        /\ UNCHANGED <<runtimePolicies, runtimePoliciesAt>>
    BY <1>8 DEF MarksArrive
  <2>2. enable' \in BOOLEAN
    BY <2>1 DEF HookInv, HookShapes
  <2>3. Idle \in Polls /\ Idle.ask = "idle"
    BY DEF Idle, Polls, Asks, Answers
  <2>4. HookShapes' /\ CacheFresh' /\ AnswerFresh'
    BY <1>2, <2>1, <2>2, <2>3 DEF HookInv, HookShapes, CacheFresh, AnswerFresh
  <2> QED
    BY <1>3, <2>4 DEF HookInv
<1> QED
  BY <1>5, <1>6, <1>7, <1>8

\* runtimeSelection: a selection is taken from the cache while that is young enough.
LEMMA AdmitKeeps == ASSUME HookSized, HookInv, NEW pod \in Pods, Admit(pod) PROVE HookInv'
<1> DEFINE a == [pod |-> pod, central |-> RuntimeSelection(pod), step |-> "selected"]
<1>1. /\ admission' = a /\ admitted' = Plain(NoPod, NoPolicy)
      /\ UNCHANGED <<marked, policy, revoked, hookTime, enable, runtimePolicies, runtimePoliciesAt, poll>>
  BY DEF Admit
<1>2. RuntimeSelection(pod) \in Languages \cup {NoPolicy}
  BY DEF RuntimeSelection, HookInv, HookShapes
<1>3. a \in Admissions /\ a.central = RuntimeSelection(pod)
  BY <1>2 DEF Admissions, HookSized
<1>4. admitted'.injected = {}
  BY <1>1 DEF Plain
<1> HIDE DEF a
<1>5. HookShapes'
  BY <1>1, <1>3, <1>4 DEF HookInv, HookShapes
<1>6. AnswerFresh' /\ CacheFresh'
  BY <1>1 DEF HookInv, AnswerFresh, CacheFresh, SelectedSince
<1>7. ASSUME NEW l \in Languages, RuntimeSelection(pod) = l
      PROVE  policy = l \/ hookTime - revoked[l] <= MaxAge + PollTimeout
  <2>1. runtimePolicies = l /\ hookTime - runtimePoliciesAt <= MaxAge
    BY <1>7 DEF RuntimeSelection, HookSized
  <2>2. policy = l \/ runtimePoliciesAt <= revoked[l] + PollTimeout
    BY <2>1 DEF HookInv, CacheFresh
  <2>3. /\ hookTime \in Nat /\ runtimePoliciesAt \in Nat /\ revoked[l] \in Nat
        /\ MaxAge \in Nat /\ PollTimeout \in Nat
    BY DEF HookInv, HookShapes, HookSized
  <2> QED
    BY <2>1, <2>2, <2>3
<1>8. CentralFresh'
  BY <1>1, <1>3, <1>7 DEF CentralFresh
<1> QED
  BY <1>5, <1>6, <1>8 DEF HookInv

\* decide: at most one runtime, none against a contradiction, and for the central
\* selection only what it was selected with.
LEMMA Decided ==
  ASSUME HookSized, HookInv, Decide
  PROVE  /\ admitted'.injected \subseteq Languages \cup {"java"}
         /\ Cardinality(admitted'.injected) <= 1
         /\ Cardinality(Selected(admitted'.pod, admitted'.central)) > 1 => admitted'.injected = {}
         /\ \A l \in admitted'.injected \cap {admitted'.central} :
              l \in Languages /\ l = admission.central
<1> DEFINE pod == admission.pod
           central == admission.central
           chosen == Selected(pod, central)
           l == CHOOSE x \in chosen : TRUE
<1>1. /\ admission.step = "selected" /\ admission' = Waiting
      /\ admitted' =
           IF Cardinality(chosen) > 1 THEN Plain(pod, central)
           ELSE IF chosen # {} THEN RuntimePatch(pod, l, central)
           ELSE IF enable /\ pod.java # "no" THEN BuildPatch(pod, central)
           ELSE Plain(pod, central)
  BY DEF Decide
<1>2. pod.annotated \subseteq Languages /\ central \in Languages \cup {NoPolicy}
  BY DEF HookInv, HookShapes, Admissions, PodShapes
<1>3. chosen \subseteq Languages /\ (central \in Languages => central \in chosen)
  BY <1>2 DEF Selected, HookSized
<1>4. Plain(pod, central).injected = {} /\ Plain(pod, central).pod = pod /\ Plain(pod, central).central = central
  BY DEF Plain
<1>5. ASSUME NEW x
      PROVE  \/ RuntimePatch(pod, x, central) = Plain(pod, central)
             \/ /\ RuntimePatch(pod, x, central).injected = {x}
                /\ RuntimePatch(pod, x, central).pod = pod
                /\ RuntimePatch(pod, x, central).central = central
  BY DEF RuntimePatch, Plain
<1>6. /\ BuildPatch(pod, central).injected = {"java"} /\ BuildPatch(pod, central).pod = pod
      /\ BuildPatch(pod, central).central = central
  BY DEF BuildPatch, Plain
<1>7. Cardinality({}) = 0 /\ \A x : Cardinality({x}) = 1
  BY FS_EmptySet, FS_Singleton
<1> HIDE DEF pod, central, chosen
<1>8. CASE admitted' = Plain(pod, central)
  BY <1>4, <1>7, <1>8
<1>9. CASE ~(Cardinality(chosen) > 1) /\ chosen # {} /\ admitted' = RuntimePatch(pod, l, central)
  <2>1. l \in chosen
    BY <1>9
  <2> HIDE DEF l
  <2>2. CASE RuntimePatch(pod, l, central) = Plain(pod, central)
    BY <1>8, <1>9, <2>2
  <2>3. CASE /\ RuntimePatch(pod, l, central).injected = {l}
             /\ RuntimePatch(pod, l, central).pod = pod
             /\ RuntimePatch(pod, l, central).central = central
    <3>1. admitted'.injected = {l} /\ admitted'.pod = pod /\ admitted'.central = central
      BY <1>9, <2>3
    <3>2. ~(Cardinality(Selected(admitted'.pod, admitted'.central)) > 1)
      BY <1>9, <3>1 DEF chosen
    <3>3. l \in Languages
      BY <1>3, <2>1
    <3>4. Cardinality(admitted'.injected) = 1
      BY <1>7, <3>1
    <3>5. admitted'.injected \subseteq Languages /\ admitted'.central = admission.central
      BY <3>1, <3>3 DEF central
    <3> QED
      BY <3>2, <3>4, <3>5
  <2> QED
    BY <1>5, <2>2, <2>3
<1>10. CASE ~(Cardinality(chosen) > 1) /\ chosen = {} /\ admitted' = BuildPatch(pod, central)
  <2>1. admitted'.injected = {"java"} /\ admitted'.pod = pod /\ admitted'.central = central
    BY <1>6, <1>10
  <2>2. ~(Cardinality(Selected(admitted'.pod, admitted'.central)) > 1)
    BY <1>10, <2>1 DEF chosen
  <2>3. central = NoPolicy /\ "java" # NoPolicy
    BY <1>2, <1>3, <1>10 DEF NoPolicy, central
  <2>4. Cardinality(admitted'.injected) = 1
    BY <1>7, <2>1
  <2>5. admitted'.injected \cap {admitted'.central} = {}
    BY <2>1, <2>3
  <2> QED
    BY <2>1, <2>2, <2>4, <2>5
<1> QED
  BY <1>1, <1>8, <1>9, <1>10

LEMMA DecideKeeps == ASSUME HookSized, HookInv, Decide PROVE HookInv'
<1>1. /\ admission' = Waiting
      /\ UNCHANGED <<marked, policy, revoked, hookTime, enable, runtimePolicies, runtimePoliciesAt, poll>>
  BY DEF Decide
<1>2. NoPod \in PodShapes
  BY DEF NoPod, PodShapes
<1>3. Waiting \in Admissions /\ Waiting.step = "idle"
  BY <1>2 DEF Waiting, Admissions
<1>4. HookShapes'
  BY <1>1, <1>3, Decided DEF HookInv, HookShapes
<1>5. AnswerFresh' /\ CacheFresh' /\ CentralFresh'
  BY <1>1, <1>3 DEF HookInv, AnswerFresh, CacheFresh, CentralFresh, SelectedSince
<1> QED
  BY <1>4, <1>5 DEF HookInv

LEMMA HookStepInv == ASSUME HookSized, HookInv, [HookNext]_hookVars PROVE HookInv'
<1>1. CASE UNCHANGED hookVars
  <2>1. UNCHANGED <<marked, policy, revoked, hookTime, enable, runtimePolicies, runtimePoliciesAt, poll,
                    admission, admitted>>
    BY <1>1 DEF hookVars
  <2>2. HookShapes'
    BY <2>1 DEF HookInv, HookShapes
  <2>3. AnswerFresh' /\ CacheFresh' /\ CentralFresh'
    BY <2>1 DEF HookInv, AnswerFresh, CacheFresh, CentralFresh, SelectedSince
  <2> QED
    BY <2>2, <2>3 DEF HookInv
<1> QED
  BY <1>1, SelectKeeps, HookTickKeeps, PollKeeps, AdmitKeeps, DecideKeeps DEF HookNext

\* The inductive invariant holds in every run of the webhook.
THEOREM HookInvariant == HookSpec => []HookInv
<1> USE HookAssumption
<1>1. HookInit => HookInv
  BY HookInitInv
<1>2. HookInv /\ [HookNext]_hookVars => HookInv'
  BY HookStepInv
<1> QED
  BY <1>1, <1>2, PTL DEF HookSpec

\* Whatever polls fail or answer late, the webhook injects for the central selection only
\* a language that was selected no longer than the age of the cache and one request ago,
\* and a pod gets one runtime, or none when its selections contradict each other; for any
\* age, timeout, languages and pods.
THEOREM InjectsOnlySelected == HookSpec => SelectionBounded
<1> USE HookAssumption
<1> DEFINE Bounds ==
      admitted' # admitted =>
        /\ Cardinality(admitted'.injected) <= 1
        /\ Cardinality(Selected(admitted'.pod, admitted'.central)) > 1 => admitted'.injected = {}
        /\ \A l \in admitted'.injected \cap {admitted'.central} :
             policy = l \/ hookTime - revoked[l] <= MaxAge + PollTimeout
<1>1. HookInv /\ [HookNext]_hookVars => [Bounds]_hookVars
  <2> SUFFICES ASSUME HookInv, HookNext, admitted' # admitted PROVE Bounds
    BY DEF hookVars
  <2>1. CASE Decide
    <3>1. admission.step = "selected"
      BY <2>1 DEF Decide
    <3> QED
      BY <2>1, <3>1, Decided DEF HookInv, CentralFresh
  <2>2. CASE \E pod \in Pods : Admit(pod)
    <3>1. admitted'.injected = {}
      BY <2>2 DEF Admit, Plain
    <3> QED
      BY <3>1, FS_EmptySet
  <2>3. Decide \/ \E pod \in Pods : Admit(pod)
    BY DEF HookNext, Select, HookTick, AskPolicies, PoliciesArrive, AskFails, MarksArrive
  <2> QED
    BY <2>1, <2>2, <2>3
<1> QED
  BY <1>1, HookInvariant, PTL DEF HookSpec, SelectionBounded

-----------------------------------------------------------------------------
(* Identity *)

\* Whoever has the pid or the address now holds it now, and an entry of the cache or of
\* the list of Docker ends within its life after its owner last held what it stands for.
\* The list of the kubelet only has owners that did hold the address.
HeldTrue ==
  /\ pidHeld \in [Owners -> Int] /\ ipHeld \in [Owners -> Int]
  /\ \A o \in Owners : pidHeld[o] <= clockNow /\ ipHeld[o] <= clockNow
  /\ pidOwner # Nobody => pidHeld[pidOwner] = clockNow
  /\ ipOwner # Nobody => ipHeld[ipOwner] = clockNow
CacheTrue ==
  /\ pidCache \in [owner : Known, expires : Int] /\ listUntil \in Int
  /\ pidCache.owner # Nobody => pidCache.expires <= pidHeld[pidCache.owner] + PidTTL
  /\ ipList # Nobody => ipHeld[ipList] >= 0
  /\ ipList # Nobody /\ resolver = "docker" => listUntil <= ipHeld[ipList] + ListTTL
AnswerShape == answer \in [by : {"pid", "ip"}, owner : Known]

IdentityInv == IdentityTypeOK /\ HeldTrue /\ CacheTrue /\ AnswerShape /\ IdentityFresh

LEMMA IdentityInitInv == IdentityInit => IdentityInv
  BY IdentityAssumption
  DEF IdentityInit, IdentityInv, IdentityTypeOK, HeldTrue, CacheTrue, AnswerShape, IdentityFresh, Known, Nobody, NoEntry

LEMMA TickKeeps == IdentityInv /\ IdentityTick => IdentityInv'
<1> SUFFICES ASSUME IdentityInv, IdentityTick PROVE IdentityInv'
  OBVIOUS
<1> USE IdentityAssumption
<1>1. HeldTrue' /\ \A o \in Owners : pidHeld'[o] >= pidHeld[o] /\ ipHeld'[o] >= ipHeld[o]
  <2>1. \A o \in Owners : /\ pidHeld'[o] = (IF o = pidOwner THEN clockNow + 1 ELSE pidHeld[o])
                          /\ ipHeld'[o] = (IF o = ipOwner THEN clockNow + 1 ELSE ipHeld[o])
    BY DEF IdentityTick
  <2>2. pidHeld' \in [Owners -> Int] /\ ipHeld' \in [Owners -> Int]
    BY DEF IdentityTick, IdentityInv, IdentityTypeOK, HeldTrue
  <2> QED
    BY <2>1, <2>2 DEF IdentityTick, IdentityInv, IdentityTypeOK, HeldTrue, Known, Nobody
<1>2. CacheTrue'
  BY <1>1 DEF IdentityTick, IdentityInv, IdentityTypeOK, HeldTrue, CacheTrue, Known, Nobody
<1>3. AnswerShape' /\ answer'.owner = Nobody
  BY DEF IdentityTick, IdentityInv, AnswerShape, Known
<1>4. IdentityTypeOK'
  BY <1>3 DEF IdentityTick, IdentityInv, IdentityTypeOK, Known
<1> QED
  BY <1>1, <1>2, <1>3, <1>4 DEF IdentityInv, IdentityFresh

LEMMA ReusedKeeps == IdentityInv /\ Reused => IdentityInv'
<1> SUFFICES ASSUME IdentityInv, Reused PROVE IdentityInv'
  OBVIOUS
<1> USE IdentityAssumption
<1>0. /\ UNCHANGED <<resolver, clockNow, pidCache, listed, ipList, listUntil>>
      /\ clockNow \in Int /\ \A o \in Owners : pidHeld[o] \in Int /\ ipHeld[o] \in Int /\ pidHeld[o] <= clockNow /\ ipHeld[o] <= clockNow
  BY DEF Reused, IdentityInv, IdentityTypeOK, HeldTrue
<1>1. pidOwner' \in Known /\ ipOwner' \in Known
  BY DEF Reused, IdentityInv, IdentityTypeOK
<1>3. AnswerShape' /\ answer'.owner = Nobody
  BY DEF Reused, IdentityInv, AnswerShape, Known
<1>4. IdentityTypeOK'
  BY <1>0, <1>1, <1>3 DEF IdentityInv, IdentityTypeOK, Known
<1>5. CASE pidHeld' = Held(pidHeld, pidOwner') /\ UNCHANGED <<ipOwner, ipHeld>>
  <2>1. pidHeld' \in [Owners -> Int] /\ \A o \in Owners : pidHeld'[o] = (IF o = pidOwner' THEN clockNow ELSE pidHeld[o])
    BY <1>0, <1>5 DEF Held
  <2>2. HeldTrue'
    BY <1>0, <1>1, <1>5, <2>1 DEF IdentityInv, HeldTrue, Known, Nobody
  <2>3. CASE pidCache.owner = pidOwner'
    <3>1. CacheTrue'
      BY <1>0, <1>5, <2>1, <2>3, <1>1 DEF IdentityInv, IdentityTypeOK, CacheTrue, Known, Nobody
    <3> QED
      BY <1>3, <1>4, <2>2, <3>1 DEF IdentityInv, IdentityFresh
  <2>4. CASE pidCache.owner # pidOwner'
    <3>1. CacheTrue'
      BY <1>0, <1>5, <2>1, <2>4 DEF IdentityInv, CacheTrue, Known, Nobody
    <3> QED
      BY <1>3, <1>4, <2>2, <3>1 DEF IdentityInv, IdentityFresh
  <2> QED
    BY <2>3, <2>4
<1>6. CASE ipHeld' = Held(ipHeld, ipOwner') /\ UNCHANGED <<pidOwner, pidHeld>>
  <2>1. ipHeld' \in [Owners -> Int] /\ \A o \in Owners : ipHeld'[o] = (IF o = ipOwner' THEN clockNow ELSE ipHeld[o])
    BY <1>0, <1>6 DEF Held
  <2>2. HeldTrue'
    BY <1>0, <1>1, <1>6, <2>1 DEF IdentityInv, HeldTrue, Known, Nobody
  <2>3. CacheTrue'
    BY <1>0, <1>6, <2>1 DEF IdentityInv, IdentityTypeOK, CacheTrue, Known, Nobody
  <2> QED
    BY <1>3, <1>4, <2>2, <2>3 DEF IdentityInv, IdentityFresh
<1> QED
  BY <1>5, <1>6 DEF Reused

LEMMA ResolvePidKeeps == IdentityInv /\ ResolvePid => IdentityInv'
<1> SUFFICES ASSUME IdentityInv, ResolvePid PROVE IdentityInv'
  OBVIOUS
<1> USE IdentityAssumption
<1>1. PICK read \in BOOLEAN : pidCache' = Entry(read)
  BY DEF ResolvePid
<1>2. UNCHANGED <<resolver, clockNow, pidOwner, ipOwner, pidHeld, ipHeld, listed, ipList, listUntil>>
  BY DEF ResolvePid
<1>3. /\ pidCache' \in [owner : Known, expires : Int]
      /\ pidCache'.owner # Nobody => /\ pidCache'.expires <= pidHeld[pidCache'.owner] + PidTTL
                                     /\ clockNow < pidCache'.expires
  BY <1>1 DEF Entry, IdentityInv, IdentityTypeOK, HeldTrue, CacheTrue, Known, Nobody
<1>4. AnswerShape' /\ answer'.by = "pid" /\ answer'.owner \in {pidCache'.owner, Nobody}
  BY <1>3 DEF ResolvePid, AnswerShape, Known
<1>5. IdentityFresh'
  BY <1>2, <1>3, <1>4 DEF IdentityFresh, IdentityInv, IdentityTypeOK, HeldTrue, Known, Nobody
<1> QED
  BY <1>2, <1>3, <1>4, <1>5 DEF IdentityInv, IdentityTypeOK, HeldTrue, CacheTrue, AnswerShape

LEMMA ListsKeep == IdentityInv /\ (RefreshPods \/ ResolveIP \/ ResolveServiceByIP) => IdentityInv'
<1> SUFFICES ASSUME IdentityInv, RefreshPods \/ ResolveIP \/ ResolveServiceByIP PROVE IdentityInv'
  OBVIOUS
<1> USE IdentityAssumption
<1>1. CASE RefreshPods
  BY <1>1 DEF RefreshPods, IdentityInv, IdentityTypeOK, HeldTrue, CacheTrue, AnswerShape, IdentityFresh, Known, Nobody
<1>2. CASE ResolveIP
  BY <1>2 DEF ResolveIP, IdentityInv, IdentityTypeOK, HeldTrue, CacheTrue, AnswerShape, IdentityFresh, Known, Nobody
<1>3. CASE ResolveServiceByIP
  <2>1. /\ resolver = "docker" /\ answer' = [by |-> "ip", owner |-> ipList']
        /\ UNCHANGED <<resolver, clockNow, pidOwner, ipOwner, pidHeld, ipHeld, pidCache, listed>>
    BY <1>3 DEF ResolveServiceByIP
  <2>2. /\ ipList' \in Known /\ listUntil' \in Int /\ clockNow < listUntil'
        /\ ipList' # Nobody => ipHeld[ipList'] >= 0 /\ listUntil' <= ipHeld[ipList'] + ListTTL
    BY <1>3 DEF ResolveServiceByIP, RefreshedIPs, IdentityInv, IdentityTypeOK, HeldTrue, CacheTrue, Known, Nobody
  <2> QED
    BY <2>1, <2>2 DEF IdentityInv, IdentityTypeOK, HeldTrue, CacheTrue, AnswerShape, IdentityFresh, Known, Nobody
<1> QED
  BY <1>1, <1>2, <1>3

LEMMA IdentityNextInv == IdentityInv /\ [IdentityNext]_identityVars => IdentityInv'
<1>1. IdentityInv /\ UNCHANGED identityVars => IdentityInv'
  BY DEF identityVars, IdentityInv, IdentityTypeOK, HeldTrue, CacheTrue, AnswerShape, IdentityFresh
<1> QED
  BY <1>1, TickKeeps, ReusedKeeps, ResolvePidKeeps, ListsKeep DEF IdentityNext

\* podresolver.go and containerresolver.go: whom a pid is resolved to had it less than the
\* life of the cache ago, and with Docker the same of an address, however often pids and
\* addresses go to others and whatever lists and reads fail.
THEOREM IdentityAlwaysFresh == IdentitySpec => []IdentityFresh
<1>1. IdentityInv => IdentityFresh
  BY DEF IdentityInv
<1> QED
  BY <1>1, IdentityInitInv, IdentityNextInv, PTL DEF IdentitySpec

-----------------------------------------------------------------------------
(* PodScan *)

\* No two pods have one address, and an address that was read and did not change hands
\* since is still the address of its pod.
AddressesOwn ==
  /\ address \in [ScanPods -> Addresses \cup {NoAddress}]
  /\ \A p, q \in ScanPods : address[p] = address[q] /\ address[p] # NoAddress => p = q
ScrapesTrue ==
  \A t \in scrapes : /\ t.pod \in wanted /\ t.ip # NoAddress
                     /\ t.ip \notin reused => address[t.pod] = t.ip
BatchesTrue == IsFiniteSet(outbox) /\ \A b \in outbox : b.tag \in wanted /\ (b.clean => b.from = b.tag)

\* What a scan found so far: the tables have the pods seen, with the highest rank, and
\* the language of a process that was seen; a container that is not ambiguous has only
\* processes of its language, and one that is has two.
FoundTrue(s) ==
  /\ s.seen \subseteq ProcShapes
  /\ DOMAIN s.pods = {r.pod : r \in s.seen} /\ DOMAIN s.containers = {r.pod : r \in s.seen}
  /\ \A r \in s.seen : Rank(r.lang) <= Rank(s.pods[r.pod])
  /\ \A q \in DOMAIN s.pods : \E r \in s.seen : r.pod = q /\ r.lang = s.pods[q]
  /\ \A q \in DOMAIN s.containers : \E r \in s.seen : r.pod = q /\ r.lang = s.containers[q].lang
  /\ \A r \in s.seen : r.pod \notin s.ambiguous => r.lang = s.containers[r.pod].lang
  /\ \A q \in s.ambiguous : \E r, o \in s.seen : r.pod = q /\ o.pod = q /\ r.lang # o.lang

PodsShapes ==
  /\ wanted \subseteq ScanPods /\ moves \in 0 .. MaxMoves /\ rounds \in 0 .. MaxRounds
  /\ procs \in [1 .. Processes -> ProcShapes \cup {NoProc}] /\ scan.next \in 0 .. Processes + 1
  /\ Cardinality(outbox) <= OutSize

LanguagesTrue ==
  \A q \in DOMAIN languages.pods :
    LET seen == {p.lang : p \in {r \in languages.seen : r.pod = q}}
    IN /\ languages.pods[q] \in seen
       /\ \A l \in seen : Rank(l) <= Rank(languages.pods[q])
       /\ q \in DOMAIN languages.containers =>
          languages.containers[q] = IF Cardinality(seen) > 1 THEN "ambiguous" ELSE CHOOSE l \in seen : TRUE

PodsInv == PodsShapes /\ AddressesOwn /\ ScrapesTrue /\ BatchesTrue /\ FoundTrue(scan) /\ LanguagesTrue

LEMMA FoundSame == FoundTrue(scan) /\ scan' = scan => FoundTrue(scan)'
  BY DEF FoundTrue

LEMMA LanguagesSame == LanguagesTrue /\ languages' = languages => LanguagesTrue'
  BY Zenon DEF LanguagesTrue

LEMMA EmptyFound == FoundTrue(Empty) /\ FoundTrue([Empty EXCEPT !.next = 1])
  BY DEF FoundTrue, Empty

LEMMA PodsInitInv == PodsInit => PodsInv
<1> SUFFICES ASSUME PodsInit PROVE PodsInv
  OBVIOUS
<1> USE PodsAssumption
<1>1. IsFiniteSet({}) /\ Cardinality({}) = 0
  BY FS_EmptySet
<1>2. PodsShapes
  BY <1>1 DEF PodsInit, PodsShapes, Empty
<1>3. AddressesOwn /\ ScrapesTrue /\ BatchesTrue
  BY <1>1 DEF PodsInit, AddressesOwn, ScrapesTrue, BatchesTrue
<1>4. FoundTrue(scan)
  BY EmptyFound DEF PodsInit
<1>5. LanguagesTrue
  BY DEF PodsInit, LanguagesTrue
<1> QED
  BY <1>2, <1>3, <1>4, <1>5 DEF PodsInv

LEMMA ProcessFound ==
  ASSUME NEW s, FoundTrue(s), NEW p \in ProcShapes, NEW t,
         t.seen = s.seen \cup {p}, t.pods = Best(s.pods, p), t.containers = LanguageEntry(s.containers, p),
         t.ambiguous = (IF p.pod \in DOMAIN s.containers /\ Differs(s.containers[p.pod], p)
                        THEN s.ambiguous \cup {p.pod} ELSE s.ambiguous)
  PROVE  FoundTrue(t)
<1>0. s.seen \subseteq ProcShapes /\ \A r \in ProcShapes : Rank(r.lang) \in Nat
  BY DEF FoundTrue, Rank
<1>1. t.seen \subseteq ProcShapes
  BY <1>0
<1>2. DOMAIN t.containers = {r.pod : r \in t.seen} /\ t.containers[p.pod].lang = p.lang
      /\ \A q \in DOMAIN s.containers : q # p.pod => t.containers[q] = s.containers[q]
  BY DEF FoundTrue, LanguageEntry, ContainerLanguage
<1>3. \A q \in DOMAIN t.containers : \E r \in t.seen : r.pod = q /\ r.lang = t.containers[q].lang
  <2> TAKE q \in DOMAIN t.containers
  <2>1. CASE q = p.pod
    BY <1>2, <2>1
  <2>2. CASE q # p.pod
    <3>1. q \in DOMAIN s.containers
      BY <1>2, <2>2 DEF FoundTrue
    <3> QED
      BY <1>2, <2>2, <3>1 DEF FoundTrue
  <2> QED
    BY <2>1, <2>2
<1>4. /\ DOMAIN t.pods = {r.pod : r \in t.seen}
      /\ \A r \in t.seen : Rank(r.lang) <= Rank(t.pods[r.pod])
      /\ \A q \in DOMAIN t.pods : \E r \in t.seen : r.pod = q /\ r.lang = t.pods[q]
  <2>1. CASE p.pod \in DOMAIN s.pods /\ Rank(p.lang) <= Rank(s.pods[p.pod])
    <3>1. t.pods = s.pods
      BY <2>1 DEF Best
    <3> QED
      BY <2>1, <3>1 DEF FoundTrue
  <2>2. CASE ~(p.pod \in DOMAIN s.pods /\ Rank(p.lang) <= Rank(s.pods[p.pod]))
    <3>1. /\ DOMAIN t.pods = DOMAIN s.pods \cup {p.pod} /\ t.pods[p.pod] = p.lang
          /\ \A q \in DOMAIN s.pods : q # p.pod => t.pods[q] = s.pods[q]
      BY <2>2 DEF Best
    <3>2. DOMAIN t.pods = {r.pod : r \in t.seen}
      BY <3>1 DEF FoundTrue
    <3>3. ASSUME NEW r \in t.seen PROVE Rank(r.lang) <= Rank(t.pods[r.pod])
      <4>1. CASE r = p
        BY <1>0, <3>1, <4>1
      <4>2. CASE r # p /\ r.pod # p.pod
        BY <3>1, <4>2 DEF FoundTrue
      <4>3. CASE r # p /\ r.pod = p.pod
        <5>1. r \in s.seen /\ Rank(r.lang) <= Rank(s.pods[p.pod]) /\ p.pod \in DOMAIN s.pods
          BY <4>3 DEF FoundTrue
        <5>2. PICK o \in s.seen : o.pod = p.pod /\ o.lang = s.pods[p.pod]
          BY <5>1 DEF FoundTrue
        <5>3. Rank(s.pods[p.pod]) \in Nat /\ Rank(r.lang) \in Nat /\ Rank(p.lang) \in Nat
          BY <1>0, <5>1, <5>2
        <5> QED
          BY <2>2, <3>1, <4>3, <5>1, <5>3
      <4> QED
        BY <4>1, <4>2, <4>3
    <3>4. ASSUME NEW q \in DOMAIN t.pods PROVE \E r \in t.seen : r.pod = q /\ r.lang = t.pods[q]
      BY <3>1 DEF FoundTrue
    <3> QED
      BY <3>2, <3>3, <3>4
  <2> QED
    BY <2>1, <2>2
<1>5. \A r \in t.seen : r.pod \notin t.ambiguous => r.lang = t.containers[r.pod].lang
  <2> SUFFICES ASSUME NEW r \in t.seen, r.pod \notin t.ambiguous PROVE r.lang = t.containers[r.pod].lang
    OBVIOUS
  <2>1. CASE r = p
    BY <1>2, <2>1
  <2>2. CASE r # p
    <3>1. r \in s.seen /\ r.pod \in DOMAIN s.containers /\ r.pod \notin s.ambiguous
      BY <2>2 DEF FoundTrue
    <3>2. r.lang = s.containers[r.pod].lang
      BY <3>1 DEF FoundTrue
    <3> QED
      BY <1>2, <3>1, <3>2 DEF Differs
  <2> QED
    BY <2>1, <2>2
<1>6. \A q \in t.ambiguous : \E r, o \in t.seen : r.pod = q /\ o.pod = q /\ r.lang # o.lang
  <2> SUFFICES ASSUME NEW q \in t.ambiguous PROVE \E r, o \in t.seen : r.pod = q /\ o.pod = q /\ r.lang # o.lang
    OBVIOUS
  <2>1. CASE q \in s.ambiguous
    BY <2>1 DEF FoundTrue
  <2>2. CASE q \notin s.ambiguous
    <3>1. q = p.pod /\ p.pod \in DOMAIN s.containers /\ s.containers[p.pod].lang # p.lang
      BY <2>2 DEF Differs
    <3>2. PICK r \in s.seen : r.pod = p.pod /\ r.lang = s.containers[p.pod].lang
      BY <3>1 DEF FoundTrue
    <3> QED
      BY <3>1, <3>2
  <2> QED
    BY <2>1, <2>2
<1> QED
  BY <1>1, <1>2, <1>3, <1>4, <1>5, <1>6 DEF FoundTrue

LEMMA ReportTrue ==
  ASSUME NEW s, FoundTrue(s), NEW cs, NEW l,
         cs \in {<<>>, [q \in DOMAIN s.containers |-> IF q \in s.ambiguous THEN "ambiguous" ELSE s.containers[q].lang]},
         languages' = [pods |-> s.pods, seen |-> s.seen, containers |-> cs]
  PROVE  LanguagesTrue'
<1> SUFFICES ASSUME NEW q \in DOMAIN s.pods
             PROVE  LET seen == {p.lang : p \in {r \in s.seen : r.pod = q}}
                    IN /\ s.pods[q] \in seen
                       /\ \A k \in seen : Rank(k) <= Rank(s.pods[q])
                       /\ q \in DOMAIN cs => cs[q] = IF Cardinality(seen) > 1 THEN "ambiguous" ELSE CHOOSE k \in seen : TRUE
  BY DEF LanguagesTrue
<1> DEFINE seen == {p.lang : p \in {r \in s.seen : r.pod = q}}
<1>1. s.pods[q] \in seen /\ \A k \in seen : Rank(k) <= Rank(s.pods[q])
  BY DEF FoundTrue
<1>2. ASSUME q \in DOMAIN cs PROVE cs[q] = IF Cardinality(seen) > 1 THEN "ambiguous" ELSE CHOOSE k \in seen : TRUE
  <2>1. q \in DOMAIN s.containers
    BY DEF FoundTrue
  <2>2. cs[q] = IF q \in s.ambiguous THEN "ambiguous" ELSE s.containers[q].lang
    BY <1>2, <2>1
  <2>3. CASE q \in s.ambiguous
    <3>0. PICK r, o \in s.seen : r.pod = q /\ o.pod = q /\ r.lang # o.lang
      BY <2>3 DEF FoundTrue
    <3>1. PICK j, k \in seen : j # k
      BY <3>0
    <3>2. seen \subseteq {"java", "python"} /\ IsFiniteSet({"java", "python"})
      <4>1. seen \subseteq {"java", "python"}
        BY DEF FoundTrue, ProcShapes
      <4>2. IsFiniteSet({"java"})
        BY FS_Singleton
      <4>3. IsFiniteSet({"java"} \cup {"python"}) /\ {"java", "python"} = {"java"} \cup {"python"}
        BY <4>2, FS_AddElement
      <4> QED
        BY <4>1, <4>3
    <3> HIDE DEF seen
    <3>3. IsFiniteSet(seen)
      BY <3>2, FS_Subset
    <3>4. Cardinality({j, k}) = 2 /\ {j, k} \subseteq seen
      <4>1. IsFiniteSet({j}) /\ Cardinality({j}) = 1
        BY FS_Singleton
      <4>2. Cardinality({j} \cup {k}) = Cardinality({j}) + 1
        <5>1. k \notin {j}
          BY <3>1
        <5> QED
          BY <4>1, <5>1, FS_AddElement
      <4>3. {j, k} = {j} \cup {k}
        OBVIOUS
      <4> QED
        BY <4>1, <4>2, <4>3
    <3>5. Cardinality({j, k}) <= Cardinality(seen) /\ Cardinality(seen) \in Nat
      BY <3>3, <3>4, FS_Subset, FS_CardinalityType
    <3> QED
      BY <2>2, <2>3, <3>4, <3>5
  <2>4. CASE q \notin s.ambiguous
    <3>1. seen = {s.containers[q].lang}
      <4>1. s.containers[q].lang \in seen
        BY <2>1 DEF FoundTrue
      <4>2. \A k \in seen : k = s.containers[q].lang
        BY <2>4 DEF FoundTrue
      <4> QED
        BY <4>1, <4>2
    <3>2. Cardinality(seen) = 1
      BY <3>1, FS_Singleton
    <3>3. (CHOOSE k \in seen : TRUE) = s.containers[q].lang
      BY <3>1
    <3> HIDE DEF seen
    <3>4. ~(Cardinality(seen) > 1)
      BY <3>2
    <3> QED
      BY <2>2, <2>4, <3>3, <3>4
  <2> QED
    BY <2>3, <2>4
<1> QED
  BY <1>1, <1>2

LEMMA ScraperKeeps ==
  ASSUME PodsInv, Tick \/ \E t \in scrapes : Scrape(t)
  PROVE  PodsInv'
<1> USE PodsAssumption
<1>1. UNCHANGED <<address, wanted, moves, procs, scan, languages>>
  BY DEF Tick, Scrape
<1>2. FoundTrue(scan)' /\ LanguagesTrue' /\ AddressesOwn'
  BY <1>1, FoundSame, LanguagesSame DEF PodsInv, AddressesOwn
<1>3. CASE Tick
  <2>1. PodsShapes' /\ BatchesTrue'
    BY <1>3 DEF Tick, PodsInv, PodsShapes, BatchesTrue
  <2>2. ScrapesTrue'
    BY <1>3 DEF Tick, PodsInv, PodsShapes, ScrapesTrue
  <2> QED
    BY <1>2, <2>1, <2>2 DEF PodsInv
<1>4. ASSUME NEW t \in scrapes, Scrape(t) PROVE PodsInv'
  <2>1. ScrapesTrue' /\ UNCHANGED rounds
    BY <1>1, <1>4 DEF Scrape, PodsInv, ScrapesTrue
  <2>2. CASE outbox' = outbox
    BY <1>1, <1>2, <2>1, <2>2 DEF PodsInv, PodsShapes, BatchesTrue
  <2>3. CASE outbox' # outbox
    <3>1. Cardinality(outbox) < OutSize
      BY <1>4, <2>3 DEF Scrape
    <3>2. PICK q \in ScanPods : /\ address[q] = t.ip
                                /\ outbox' = outbox \cup {[tag |-> t.pod, from |-> q, clean |-> t.ip \notin reused]}
      BY <1>4, <2>3, <3>1 DEF Scrape
    <3>3. t.pod \in wanted /\ (t.ip \notin reused => q = t.pod)
      BY <3>2 DEF PodsInv, PodsShapes, ScrapesTrue, AddressesOwn
    <3>4. BatchesTrue'
      <4>1. IsFiniteSet(outbox')
        BY <3>2, FS_AddElement DEF PodsInv, BatchesTrue
      <4>2. ASSUME NEW x \in outbox' PROVE x.tag \in wanted' /\ (x.clean => x.from = x.tag)
        <5>1. CASE x \in outbox
          BY <1>1, <5>1 DEF PodsInv, BatchesTrue
        <5>2. CASE x \notin outbox
          <6>1. x = [tag |-> t.pod, from |-> q, clean |-> t.ip \notin reused]
            BY <3>2, <5>2
          <6>2. x.tag = t.pod /\ x.from = q
            BY <6>1
          <6>3. x.clean = (t.ip \notin reused)
            BY <6>1, Zenon
          <6>4. x.clean => t.ip \notin reused
            BY <6>3, Zenon
          <6> QED
            BY <1>1, <3>3, <6>2, <6>4
        <5> QED
          BY <5>1, <5>2
      <4> QED
        BY <4>1, <4>2 DEF BatchesTrue
    <3>5. Cardinality(outbox') <= Cardinality(outbox) + 1 /\ Cardinality(outbox) \in Nat /\ Cardinality(outbox') \in Nat
      <4> DEFINE b == [tag |-> t.pod, from |-> q, clean |-> t.ip \notin reused]
      <4>1. IsFiniteSet(outbox) /\ IsFiniteSet(outbox') /\ outbox' = outbox \cup {b} /\ b \notin outbox
        BY <2>3, <3>2, <3>4 DEF PodsInv, BatchesTrue
      <4> HIDE DEF b
      <4> QED
        BY <4>1, FS_AddElement, FS_CardinalityType
    <3>6. PodsShapes'
      BY <1>1, <2>1, <3>1, <3>5 DEF PodsInv, PodsShapes
    <3> QED
      BY <1>2, <2>1, <3>4, <3>6 DEF PodsInv
  <2> QED
    BY <2>2, <2>3
<1> QED
  BY <1>3, <1>4

LEMMA DetectorKeeps ==
  ASSUME PodsInv, BeginScan \/ ScanProcess \/ PushLanguages
  PROVE  PodsInv'
<1> USE PodsAssumption
<1>1. UNCHANGED <<address, wanted, moves, scrapes, reused, outbox, procs>>
  BY DEF BeginScan, ScanProcess, PushLanguages
<1>2. AddressesOwn' /\ ScrapesTrue' /\ BatchesTrue'
  BY <1>1 DEF PodsInv, AddressesOwn, ScrapesTrue, BatchesTrue
<1>3. CASE BeginScan
  <2>1. FoundTrue(scan')
    BY <1>3, EmptyFound DEF BeginScan
  <2>2. PodsShapes'
    BY <1>1, <1>3 DEF BeginScan, PodsInv, PodsShapes, Empty
  <2>3. LanguagesTrue'
    BY <1>3, LanguagesSame DEF BeginScan, PodsInv
  <2> QED
    BY <1>2, <2>1, <2>2, <2>3 DEF PodsInv, FoundTrue
<1>4. CASE ScanProcess
  <2>0. PICK p : p = procs[scan.next]
    OBVIOUS
  <2>1. UNCHANGED <<rounds, languages>> /\ scan.next \in 1 .. Processes /\ p \in ProcShapes \cup {NoProc}
    BY <1>4, <2>0 DEF ScanProcess, PodsInv, PodsShapes
  <2>2. LanguagesTrue'
    BY <2>1, LanguagesSame DEF PodsInv
  <2>3. CASE p = NoProc
    <3>1. scan' = [scan EXCEPT !.next = @ + 1]
      BY <1>4, <2>0, <2>3 DEF ScanProcess
    <3>2. FoundTrue(scan')
      BY <3>1 DEF PodsInv, FoundTrue
    <3> QED
      BY <1>1, <1>2, <2>1, <2>2, <3>1, <3>2 DEF PodsInv, FoundTrue, PodsShapes
  <2>4. CASE p # NoProc
    <3>1. /\ scan'.next = scan.next + 1 /\ scan'.seen = scan.seen \cup {p} /\ scan'.pods = Best(scan.pods, p)
          /\ scan'.containers = LanguageEntry(scan.containers, p)
          /\ scan'.ambiguous = (IF p.pod \in DOMAIN scan.containers /\ Differs(scan.containers[p.pod], p)
                                THEN scan.ambiguous \cup {p.pod} ELSE scan.ambiguous)
      BY <1>4, <2>0, <2>4 DEF ScanProcess
    <3>2. FoundTrue(scan')
      BY <2>1, <2>4, <3>1, ProcessFound DEF PodsInv
    <3>3. PodsShapes'
      BY <1>1, <2>1, <3>1 DEF PodsInv, PodsShapes
    <3> QED
      BY <1>2, <2>2, <3>2, <3>3 DEF PodsInv, FoundTrue
  <2> QED
    BY <2>3, <2>4
<1>5. CASE PushLanguages
  <2>1. UNCHANGED rounds /\ scan' = Empty
    BY <1>5 DEF PushLanguages
  <2>2. FoundTrue(scan') /\ PodsShapes'
    BY <1>1, <2>1, EmptyFound DEF PodsInv, PodsShapes, Empty
  <2>3. LanguagesTrue'
    <3>1. CASE languages' = languages
      BY <3>1, LanguagesSame DEF PodsInv
    <3>2. CASE languages' # languages
      BY <1>5, <3>2, ReportTrue DEF PushLanguages, PodsInv
    <3> QED
      BY <3>1, <3>2
  <2> QED
    BY <1>2, <2>2, <2>3 DEF PodsInv, FoundTrue
<1> QED
  BY <1>3, <1>4, <1>5

LEMMA PodsNextInv == PodsInv /\ [PodsNext]_podVars => PodsInv'
<1> SUFFICES ASSUME PodsInv, [PodsNext]_podVars PROVE PodsInv'
  OBVIOUS
<1> USE PodsAssumption
<1>1. ASSUME NEW p \in ScanPods, NEW a \in Addresses \cup {NoAddress}, MovePod(p, a) PROVE PodsInv'
  <2>1. /\ UNCHANGED <<wanted, rounds, scrapes, outbox, procs, scan, languages>>
        /\ address' = [address EXCEPT ![p] = a] /\ reused' = reused \cup ({address[p], a} \ {NoAddress})
        /\ a = NoAddress \/ \A q \in ScanPods : address[q] # a
    BY <1>1 DEF MovePod
  <2>2. FoundTrue(scan)' /\ LanguagesTrue' /\ BatchesTrue'
    BY <2>1, FoundSame, LanguagesSame DEF PodsInv, BatchesTrue
  <2>3. AddressesOwn' /\ \A q \in ScanPods : q # p => address'[q] = address[q]
    BY <2>1 DEF PodsInv, AddressesOwn
  <2>4. ScrapesTrue'
    BY <2>1, <2>3 DEF PodsInv, PodsShapes, ScrapesTrue
  <2>5. PodsShapes'
    BY <1>1, <2>1 DEF MovePod, PodsInv, PodsShapes
  <2> QED
    BY <2>2, <2>3, <2>4, <2>5 DEF PodsInv
<1>2. ASSUME NEW n \in 1 .. Processes, EndProcess(n) PROVE PodsInv'
  <2>1. UNCHANGED <<address, wanted, moves, rounds, scrapes, reused, outbox, scan, languages>>
        /\ procs' = [procs EXCEPT ![n] = NoProc]
    BY <1>2 DEF EndProcess
  <2>2. FoundTrue(scan)' /\ LanguagesTrue' /\ BatchesTrue' /\ AddressesOwn' /\ ScrapesTrue'
    BY <2>1, FoundSame, LanguagesSame DEF PodsInv, BatchesTrue, AddressesOwn, ScrapesTrue
  <2>3. PodsShapes'
    BY <2>1 DEF PodsInv, PodsShapes
  <2> QED
    BY <2>2, <2>3 DEF PodsInv
<1>3. CASE UNCHANGED podVars
  <2>1. FoundTrue(scan)' /\ LanguagesTrue'
    BY <1>3, FoundSame, LanguagesSame DEF podVars, PodsInv
  <2> QED
    BY <1>3, <2>1 DEF podVars, PodsInv, PodsShapes, BatchesTrue, AddressesOwn, ScrapesTrue
<1> QED
  BY <1>1, <1>2, <1>3, ScraperKeeps, DetectorKeeps DEF PodsNext

\* The Quarkus scraper and the language detector: for any pods, addresses and processes,
\* a batch carries the pod that answered unless the address changed hands during that
\* tick, and the report of languages is true of what was seen, in any order of /proc.
THEOREM PodsAlwaysAttributed == PodsSpec => []PodsAttributed
<1>1. PodsInv => PodsAttributed
  BY DEF PodsInv, BatchesTrue, LanguagesTrue, PodsAttributed
<1> QED
  BY <1>1, PodsInitInv, PodsNextInv, PTL DEF PodsSpec

-----------------------------------------------------------------------------
(* ClusterAgent *)

\* What existed throughout the cycle exists, and what exists lived during it.
CycleTrue == at # 0 => stable \subseteq cluster /\ cluster \subseteq lived /\ cycle # 0

\* The pages read of a list, and what it still holds, have all that was there throughout;
\* every page but the last is full.
ListTrue ==
  /\ page < MaxPages /\ (page = 0 => batch = {})
  /\ at # 0 /\ page # 0 =>
       /\ \A o \in stable : KindOf[o] = Now.kind => o \in batch \cup rest
       /\ batch \cup rest \subseteq lived /\ \A o \in batch \cup rest : KindOf[o] = Now.kind
       /\ batch \cap rest = {} /\ Cardinality(batch) = page * Limit

\* The inventory so far is whole in the kinds that were listed.
ResourcesTrue ==
  /\ at # 0 => resources \subseteq lived
  /\ at < FirstExtra => \A o \in stable, i \in 1 .. at - 2 : KindOf[o] = Inventory[i] => o \in resources

Whole(snap) ==
  snap.stable \subseteq snap.res /\ snap.res \subseteq snap.lived /\ snap.res \subseteq Objects /\ snap.seq \in 0 .. MaxCycles
ViewsTrue == Whole(view) /\ \A snap \in inflight : Whole(snap) /\ snap.seq # 0

Honest(g) == IF g.up THEN g.stable \subseteq g.objs ELSE g.objs = {}
GaugesTrue ==
  /\ DOMAIN posted = {"events", "gauges", "metrics"}
  /\ \A g \in gauges : Honest(g)
  /\ \A g \in posted.gauges : Honest(g)

ClusterInv == ClusterTypeOK /\ CycleTrue /\ ListTrue /\ ResourcesTrue /\ ViewsTrue /\ GaugesTrue

LEMMA Appended ==
  ASSUME NEW S, NEW s \in Seq(S), NEW t \in Seq(S)
  PROVE  /\ s \o t \in Seq(S) /\ Len(s \o t) = Len(s) + Len(t) /\ Len(s) \in Nat /\ Len(t) \in Nat
         /\ \A i \in 1 .. Len(s) : (s \o t)[i] = s[i]
         /\ \A i \in 1 .. Len(t) : (s \o t)[Len(s) + i] = t[i]
  OBVIOUS

\* The agenda of a cycle: the events, the kinds of the inventory, and the rest.
LEMMA AgendaShape ==
  /\ Len(Agenda) \in Nat /\ Len(Inventory) \in Nat /\ Len(Agenda) >= Len(Inventory) + 3
  /\ Agenda[1].job = "events"
  /\ \A i \in 1 .. Len(Inventory) : Agenda[i + 1] = Job("inventory", Inventory[i])
  /\ \A i \in FirstExtra .. Len(Agenda) : Agenda[i].job \in {"extra", "phases", "deployments"}
<1> DEFINE a == <<Job("events", "Event")>>
           b == [i \in 1..Len(Inventory) |-> Job("inventory", Inventory[i])]
           c == [i \in 1..Len(Extras) |-> Job("extra", Extras[i])]
           d == <<Job("phases", "Pod"), Job("deployments", "Deployment")>>
           S == {a[1], d[1], d[2]} \cup {b[i] : i \in 1 .. Len(Inventory)} \cup {c[i] : i \in 1 .. Len(Extras)}
           n == Len(Inventory)
           m == Len(Extras)
<1>0. Inventory \in Seq(STRING) /\ Extras \in Seq(STRING)
  BY ClusterAssumption
<1>1. n \in Nat /\ m \in Nat
  BY <1>0
<1>2. /\ a \in Seq(S) /\ Len(a) = 1 /\ a[1].job = "events"
  BY DEF Job
<1>3. /\ b \in Seq(S) /\ Len(b) = n
      /\ \A i \in 1 .. n : b[i] = Job("inventory", Inventory[i])
  <2>1. b \in [1 .. n -> S]
    OBVIOUS
  <2>2. \A i \in 1 .. n : b[i] = Job("inventory", Inventory[i])
    OBVIOUS
  <2> HIDE DEF S, b
  <2> QED
    BY <1>1, <2>1, <2>2
<1>4. /\ c \in Seq(S) /\ Len(c) = m
      /\ \A i \in 1 .. m : c[i].job = "extra"
  <2>1. c \in [1 .. m -> S]
    OBVIOUS
  <2>2. \A i \in 1 .. m : c[i].job = "extra"
    BY DEF Job
  <2> HIDE DEF S, c
  <2> QED
    BY <1>1, <2>1, <2>2
<1>5. /\ d \in Seq(S) /\ Len(d) = 2 /\ d[1].job = "phases" /\ d[2].job = "deployments"
  BY DEF Job
<1>6. Agenda = ((a \o b) \o c) \o d
  BY DEF Agenda
<1> HIDE DEF a, b, c, d, S
<1> DEFINE ab == a \o b
           abc == ab \o c
<1>7. /\ ab \in Seq(S) /\ Len(ab) = 1 + n /\ ab[1] = a[1]
      /\ \A i \in 1 .. n : ab[1 + i] = b[i]
  <2>1. /\ a \o b \in Seq(S) /\ Len(a \o b) = Len(a) + Len(b)
        /\ \A i \in 1 .. Len(a) : (a \o b)[i] = a[i]
        /\ \A i \in 1 .. Len(b) : (a \o b)[Len(a) + i] = b[i]
    <3>1. a \in Seq(S) /\ b \in Seq(S)
      BY <1>2, <1>3
    <3> QED
      BY <3>1, Appended
  <2> QED
    BY <1>1, <1>2, <1>3, <2>1
<1>10. Agenda = abc \o d
  BY <1>6
<1> HIDE DEF ab
<1>8. /\ abc \in Seq(S) /\ Len(abc) = 1 + n + m
      /\ \A i \in 1 .. 1 + n : abc[i] = ab[i]
      /\ \A i \in 1 .. m : abc[1 + n + i] = c[i]
  <2>1. /\ ab \o c \in Seq(S) /\ Len(ab \o c) = Len(ab) + Len(c)
        /\ \A i \in 1 .. Len(ab) : (ab \o c)[i] = ab[i]
        /\ \A i \in 1 .. Len(c) : (ab \o c)[Len(ab) + i] = c[i]
    <3>1. ab \in Seq(S) /\ c \in Seq(S)
      BY <1>4, <1>7
    <3> QED
      BY <3>1, Appended
  <2> QED
    BY <1>1, <1>4, <1>7, <2>1
<1> HIDE DEF abc
<1>11. /\ Len(Agenda) = 3 + n + m
       /\ \A i \in 1 .. 1 + n + m : Agenda[i] = abc[i]
       /\ Agenda[1 + n + m + 1] = d[1] /\ Agenda[1 + n + m + 2] = d[2]
  <2>1. /\ abc \o d \in Seq(S) /\ Len(abc \o d) = Len(abc) + Len(d)
        /\ \A i \in 1 .. Len(abc) : (abc \o d)[i] = abc[i]
        /\ \A i \in 1 .. Len(d) : (abc \o d)[Len(abc) + i] = d[i]
    <3>1. abc \in Seq(S) /\ d \in Seq(S)
      BY <1>5, <1>8
    <3> QED
      BY <3>1, Appended
  <2>2. 1 \in 1 .. Len(d) /\ 2 \in 1 .. Len(d)
    BY <1>5
  <2> QED
    BY <1>1, <1>5, <1>8, <1>10, <2>1, <2>2
<1> HIDE DEF n, m
<1>12. Agenda[1].job = "events"
  BY <1>1, <1>2, <1>7, <1>8, <1>11
<1>13. ASSUME NEW i \in 1 .. n PROVE Agenda[i + 1] = Job("inventory", Inventory[i])
  <2>1. i + 1 \in 1 .. 1 + n /\ i + 1 \in 1 .. 1 + n + m /\ i + 1 = 1 + i
    BY <1>1
  <2>2. Agenda[i + 1] = ab[1 + i] /\ ab[1 + i] = b[i]
    BY <1>7, <1>8, <1>11, <2>1
  <2> QED
    BY <1>3, <2>2
<1>14. ASSUME NEW i \in n + 2 .. Len(Agenda) PROVE Agenda[i].job \in {"extra", "phases", "deployments"}
  <2>0. i \in Nat /\ i >= n + 2 /\ i <= 3 + n + m
    BY <1>1, <1>11
  <2>1. CASE i <= 1 + n + m
    <3>1. i - 1 - n \in 1 .. m /\ i = 1 + n + (i - 1 - n) /\ i \in 1 .. 1 + n + m
      BY <1>1, <2>0, <2>1
    <3>2. abc[i] = c[i - 1 - n]
      BY <1>8, <3>1
    <3> QED
      BY <1>4, <1>11, <3>1, <3>2
  <2>2. CASE i = 1 + n + m + 1
    BY <1>5, <1>11, <2>2
  <2>3. CASE i = 1 + n + m + 2
    BY <1>5, <1>11, <2>3
  <2> QED
    BY <1>1, <2>0, <2>1, <2>2, <2>3
<1>15. FirstExtra = n + 2
  BY DEF FirstExtra, n
<1>16. Len(Agenda) \in Nat /\ Len(Agenda) >= n + 3
  BY <1>1, <1>11
<1> QED
  BY <1>1, <1>12, <1>13, <1>14, <1>15, <1>16 DEF n

LEMMA ClusterInitInv == ClusterInit => ClusterInv
<1> SUFFICES ASSUME ClusterInit PROVE ClusterInv
  OBVIOUS
<1> USE ClusterAssumption, AgendaShape
<1>1. ClusterTypeOK
  BY DEF ClusterInit, ClusterTypeOK
<1>2. CycleTrue /\ ListTrue
  BY DEF ClusterInit, CycleTrue, ListTrue
<1>3. ResourcesTrue
  BY DEF ClusterInit, ResourcesTrue
<1>4. ViewsTrue
  BY DEF ClusterInit, ViewsTrue, Whole
<1>5. GaugesTrue
  BY DEF ClusterInit, GaugesTrue
<1> QED
  BY <1>1, <1>2, <1>3, <1>4, <1>5 DEF ClusterInv

\* A page is a part of what the list still holds, and a full one unless it is all of it.
LEMMA PageShape ==
  ASSUME ClusterInv, at # 0, NEW p \in PageOf(Left)
  PROVE  /\ Left \subseteq Objects /\ \A o \in Left : KindOf[o] = Now.kind
         /\ Left \subseteq lived /\ p \subseteq Left /\ batch \cap Left = {} /\ IsFiniteSet(Left)
         /\ IsFiniteSet(batch) /\ Cardinality(batch) = page * Limit /\ batch \subseteq lived /\ batch \subseteq Objects
         /\ \A o \in batch : KindOf[o] = Now.kind
         /\ \A o \in stable : KindOf[o] = Now.kind => o \in batch \cup Left
         /\ p # Left => Cardinality(p) = Limit /\ Cardinality(Left) > Limit
<1> USE ClusterAssumption
<1>0. page \in Nat
  BY DEF ClusterInv, ClusterTypeOK
<1>1. /\ Left \subseteq Objects /\ (\A o \in Left : KindOf[o] = Now.kind) /\ Left \subseteq lived
      /\ batch \cap Left = {} /\ batch \subseteq lived /\ batch \subseteq Objects
      /\ (\A o \in batch : KindOf[o] = Now.kind)
      /\ \A o \in stable : KindOf[o] = Now.kind => o \in batch \cup Left
  <2>1. CASE page = 0
    BY <2>1 DEF Left, Listed, ClusterInv, ClusterTypeOK, CycleTrue, ListTrue
  <2>2. CASE page # 0
    BY <2>2 DEF Left, ClusterInv, ClusterTypeOK, ListTrue
  <2> QED
    BY <2>1, <2>2
<1>2. Cardinality(batch) = page * Limit
  <2>1. CASE page = 0
    <3>1. batch = {}
      BY <2>1 DEF ClusterInv, ListTrue
    <3>2. Cardinality(batch) = 0
      BY <3>1, FS_EmptySet
    <3>3. 0 * Limit = 0
      OBVIOUS
    <3> QED
      BY <2>1, <3>2, <3>3
  <2>2. CASE page # 0
    BY <2>2 DEF ClusterInv, ListTrue
  <2> QED
    BY <2>1, <2>2
<1>3. IsFiniteSet(Left) /\ IsFiniteSet(batch)
  BY <1>1, FS_Subset
<1>4. p \subseteq Left
  BY DEF PageOf
<1>5. ASSUME p # Left PROVE Cardinality(p) = Limit /\ Cardinality(Left) > Limit
  <2>1. IsFiniteSet(p) /\ Cardinality(p) <= Cardinality(Left) /\ Cardinality(p) # Cardinality(Left)
    BY <1>3, <1>4, <1>5, FS_Subset
  <2>2. Cardinality(p) \in Nat /\ Cardinality(Left) \in Nat
    BY <1>3, <2>1, FS_CardinalityType
  <2>3. Cardinality(p) = IF Cardinality(Left) < Limit THEN Cardinality(Left) ELSE Limit
    BY DEF PageOf
  <2> QED
    BY <2>1, <2>2, <2>3
<1> QED
  BY <1>1, <1>2, <1>3, <1>4, <1>5

\* The list ends with the page that has the rest of it.
LEMMA ListEnds ==
  ASSUME ClusterInv, at # 0, NEW p \in PageOf(Left), Ends(p)
  PROVE  p = Left
<1> USE ClusterAssumption
<1> SUFFICES ASSUME p # Left PROVE FALSE
  OBVIOUS
<1>1. page + 1 = MaxPages /\ page \in Nat
  BY DEF Ends, ClusterInv, ClusterTypeOK
<1>2. /\ Left \subseteq Objects /\ (\A o \in Left : KindOf[o] = Now.kind)
      /\ batch \cap Left = {} /\ IsFiniteSet(Left) /\ IsFiniteSet(batch) /\ batch \subseteq Objects
      /\ (\A o \in batch : KindOf[o] = Now.kind)
  BY PageShape
<1>2a. Cardinality(batch) = page * Limit /\ Cardinality(Left) > Limit
  BY PageShape
<1>3. PICK o \in Left : TRUE
  <2>1. Left # {}
    BY <1>2, <1>2a, FS_EmptySet
  <2> QED
    BY <2>1
<1> DEFINE K == {x \in Objects : KindOf[x] = KindOf[o]}
<1>4. batch \cup Left \subseteq K /\ IsFiniteSet(K) /\ Cardinality(K) <= MaxPages * Limit
  <2>1. IsFiniteSet(K)
    BY FS_Subset
  <2> QED
    BY <1>2, <1>3, <2>1
<1>5. Cardinality(batch \cup Left) = Cardinality(batch) + Cardinality(Left) - Cardinality(batch \cap Left)
  BY <1>2, FS_Union
<1>6. Cardinality(batch \cap Left) = 0
  BY <1>2, FS_EmptySet
<1> HIDE DEF K
<1>7. Cardinality(batch \cup Left) <= Cardinality(K)
  BY <1>4, FS_Subset
<1>8. /\ Cardinality(batch) \in Nat /\ Cardinality(Left) \in Nat /\ Cardinality(K) \in Nat
  BY <1>2, <1>4, FS_CardinalityType
<1>9. MaxPages * Limit = page * Limit + Limit /\ page * Limit \in Nat /\ MaxPages * Limit \in Nat
  BY <1>1
<1> QED
  BY <1>2a, <1>4, <1>5, <1>6, <1>7, <1>8, <1>9

LEMMA WholeList ==
  ASSUME ClusterInv, at # 0, NEW p \in PageOf(Left), Ends(p)
  PROVE  /\ batch \cup p \subseteq lived /\ batch \cup p \subseteq Objects
         /\ \A o \in stable : KindOf[o] = Now.kind => o \in batch \cup p
<1>1. p = Left
  BY ListEnds
<1> QED
  BY <1>1, PageShape

LEMMA JobAt ==
  ASSUME at \in 1 .. Len(Agenda)
  PROVE  /\ Now.job = "events" => at = 1
         /\ Now.job = "inventory" => at \in 2 .. Len(Inventory) + 1 /\ Now.kind = Inventory[at - 1]
         /\ Now.job \in {"extra", "phases", "deployments"} => at \in FirstExtra .. Len(Agenda)
         /\ Now.job \in {"events", "inventory", "extra", "phases", "deployments"}
<1> USE AgendaShape
<1>1. CASE at = 1
  BY <1>1 DEF Now
<1>2. CASE at \in 2 .. Len(Inventory) + 1
  <2>1. at - 1 \in 1 .. Len(Inventory) /\ at = (at - 1) + 1
    BY <1>2
  <2>2. Now = Job("inventory", Inventory[at - 1])
    BY <2>1 DEF Now
  <2>3. Now.job = "inventory" /\ Now.kind = Inventory[at - 1]
    BY <2>2 DEF Job
  <2> QED
    BY <1>2, <2>3
<1>3. CASE at \in FirstExtra .. Len(Agenda)
  <2>1. Now.job \in {"extra", "phases", "deployments"}
    BY <1>3 DEF Now
  <2> QED
    BY <1>3, <2>1
<1> QED
  BY <1>1, <1>2, <1>3 DEF FirstExtra

LEMMA NowSame == at' = at => Now' = Now
  BY DEF Now, Agenda, Job

\* A step that ends the list at hand and adds nothing to the inventory.
LEMMA TurnKeeps ==
  ASSUME ClusterInv, at # 0, NEW n \in 0 .. Len(Agenda), GoTo(n), UNCHANGED <<cluster, churn, cycle, stable, lived, inflight, view>>,
         resources' \in {resources, {}}, GaugesTrue', n < FirstExtra => n \in {0, 1, 2}
  PROVE  ClusterInv'
<1> USE ClusterAssumption, AgendaShape
<1>1. at' = n /\ page' = 0 /\ batch' = {} /\ rest' = {}
  BY DEF GoTo
<1>2. ClusterTypeOK'
  BY <1>1 DEF ClusterInv, ClusterTypeOK
<1>3. CycleTrue' /\ ListTrue'
  BY <1>1 DEF ClusterInv, CycleTrue, ListTrue
<1>4. ResourcesTrue'
  BY <1>1 DEF ClusterInv, ResourcesTrue
<1>5. ViewsTrue'
  BY DEF ClusterInv, ViewsTrue, Whole
<1> QED
  BY <1>2, <1>3, <1>4, <1>5 DEF ClusterInv

LEMMA ChurnKeeps == ASSUME ClusterInv, NEW o \in Objects, Churn(o) PROVE ClusterInv'
<1> USE ClusterAssumption
<1>1. /\ UNCHANGED <<cycle, at, rest, page, batch, resources, gauges, inflight, view, posted>>
      /\ cluster' \subseteq Objects /\ churn' \in 0 .. MaxChurn /\ stable' = stable \cap cluster'
      /\ lived' = IF at = 0 THEN lived ELSE lived \cup cluster'
  BY DEF Churn, ClusterInv, ClusterTypeOK
<1>2. stable' \subseteq stable /\ lived \subseteq lived' /\ Now' = Now
  BY <1>1, NowSame
<1>3. ClusterTypeOK'
  BY <1>1 DEF ClusterInv, ClusterTypeOK
<1>4. CycleTrue'
  BY <1>1 DEF ClusterInv, CycleTrue
<1>5. ListTrue'
  BY <1>1, <1>2 DEF ClusterInv, ListTrue
<1>6. ResourcesTrue'
  BY <1>1, <1>2 DEF ClusterInv, ResourcesTrue
<1>7. ViewsTrue' /\ GaugesTrue'
  BY <1>1 DEF ClusterInv, ViewsTrue, Whole, GaugesTrue, Honest
<1> QED
  BY <1>3, <1>4, <1>5, <1>6, <1>7 DEF ClusterInv

LEMMA CollectKeeps == ClusterInv /\ Collect => ClusterInv'
<1> SUFFICES ASSUME ClusterInv, Collect PROVE ClusterInv'
  OBVIOUS
<1> USE ClusterAssumption, AgendaShape
<1>1. ClusterTypeOK'
  BY DEF Collect, ClusterInv, ClusterTypeOK
<1>2. CycleTrue' /\ ListTrue'
  BY DEF Collect, ClusterInv, ClusterTypeOK, CycleTrue, ListTrue
<1>3. ResourcesTrue'
  BY DEF Collect, ResourcesTrue
<1>4. ViewsTrue' /\ GaugesTrue'
  BY DEF Collect, ClusterInv, ViewsTrue, Whole, GaugesTrue, Honest
<1> QED
  BY <1>1, <1>2, <1>3, <1>4 DEF ClusterInv

LEMMA PagesKeep ==
  ASSUME ClusterInv, at # 0, NEW p \in PageOf(Left), MorePages(p),
         UNCHANGED <<cluster, churn, cycle, stable, lived, inflight, view, posted>>
  PROVE  ClusterInv'
<1> USE ClusterAssumption
<1>1. /\ rest' = Left \ p /\ page' = page + 1 /\ batch' = batch \cup p /\ UNCHANGED <<at, resources, gauges>>
      /\ p # Left /\ page + 1 # MaxPages
  BY DEF MorePages, Ends
<1>2. /\ Left \subseteq Objects /\ (\A o \in Left : KindOf[o] = Now.kind)
      /\ Left \subseteq lived /\ p \subseteq Left /\ batch \cap Left = {} /\ IsFiniteSet(Left)
      /\ IsFiniteSet(batch) /\ batch \subseteq lived /\ batch \subseteq Objects
      /\ (\A o \in batch : KindOf[o] = Now.kind)
      /\ \A o \in stable : KindOf[o] = Now.kind => o \in batch \cup Left
  BY PageShape
<1>3. Cardinality(batch) = page * Limit /\ Cardinality(p) = Limit
  BY <1>1, PageShape
<1>4. page \in Nat /\ page < MaxPages /\ Now' = Now
  BY <1>1, NowSame DEF ClusterInv, ClusterTypeOK, ListTrue
<1>5. Cardinality(batch') = page' * Limit
  <2>1. IsFiniteSet(p) /\ batch \cap p = {}
    BY <1>2, FS_Subset
  <2>2. Cardinality(batch \cup p) = Cardinality(batch) + Cardinality(p) - Cardinality(batch \cap p)
    BY <1>2, <2>1, FS_Union
  <2>3. Cardinality(batch \cap p) = 0
    BY <2>1, FS_EmptySet
  <2>4. (page + 1) * Limit = page * Limit + Limit /\ page * Limit \in Nat
    BY <1>4
  <2> QED
    BY <1>1, <1>3, <2>2, <2>3, <2>4
<1>6. ListTrue'
  <2>1. page' < MaxPages /\ page' # 0
    BY <1>1, <1>4
  <2>2. /\ \A o \in stable : KindOf[o] = Now.kind => o \in batch' \cup rest'
        /\ batch' \cup rest' \subseteq lived
        /\ \A o \in batch' \cup rest' : KindOf[o] = Now.kind
        /\ batch' \cap rest' = {}
    BY <1>1, <1>2
  <2> QED
    BY <1>4, <1>5, <2>1, <2>2 DEF ListTrue
<1>7. ClusterTypeOK'
  BY <1>1, <1>2, <1>4 DEF ClusterInv, ClusterTypeOK
<1>8. CycleTrue' /\ ResourcesTrue'
  BY <1>1 DEF ClusterInv, CycleTrue, ResourcesTrue
<1>9. ViewsTrue' /\ GaugesTrue'
  BY <1>1 DEF ClusterInv, ViewsTrue, Whole, GaugesTrue, Honest
<1> QED
  BY <1>6, <1>7, <1>8, <1>9 DEF ClusterInv

LEMMA EventsKeep ==
  ASSUME ClusterInv, at # 0, NEW all, EndEvents(all), UNCHANGED <<cluster, churn, cycle, stable, lived>>
  PROVE  ClusterInv'
<1>1. at \in 1 .. Len(Agenda)
  BY DEF ClusterInv, ClusterTypeOK
<1>2. at = 1
  BY <1>1, JobAt DEF EndEvents
<1>3. GaugesTrue'
  BY DEF EndEvents, ClusterInv, GaugesTrue, Honest
<1>4. 2 \in 0 .. Len(Agenda)
  BY AgendaShape
<1> QED
  BY <1>2, <1>3, <1>4, TurnKeeps DEF EndEvents

LEMMA InventoryKeeps ==
  ASSUME ClusterInv, at # 0, NEW p \in PageOf(Left), Ends(p), EndInventory(batch \cup p),
         UNCHANGED <<cluster, churn, cycle, stable, lived>>
  PROVE  ClusterInv'
<1> USE ClusterAssumption, AgendaShape
<1> DEFINE all == batch \cup p
           snap == [seq |-> cycle, res |-> resources', lived |-> lived,
                    stable |-> {o \in stable : KindOf[o] \in ToSet(Inventory)}]
<1>1. at \in 1 .. Len(Agenda)
  BY DEF ClusterInv, ClusterTypeOK
<1>2. at \in 2 .. Len(Inventory) + 1 /\ Now.kind = Inventory[at - 1] /\ at < FirstExtra
  BY <1>1, JobAt DEF EndInventory, FirstExtra
<1>3. /\ all \subseteq lived /\ all \subseteq Objects
      /\ \A o \in stable : KindOf[o] = Now.kind => o \in all
  BY WholeList
<1>4. /\ resources' = resources \cup all /\ at' = at + 1 /\ page' = 0 /\ batch' = {} /\ rest' = {} /\ gauges' = gauges
  BY DEF EndInventory, GoTo
<1> HIDE DEF all
<1>5. resources' \subseteq lived /\ resources' \subseteq Objects
  BY <1>3, <1>4 DEF ClusterInv, ResourcesTrue, ClusterTypeOK
<1>6. \A o \in stable, i \in 1 .. at - 1 : KindOf[o] = Inventory[i] => o \in resources'
  <2> SUFFICES ASSUME NEW o \in stable, NEW i \in 1 .. at - 1, KindOf[o] = Inventory[i] PROVE o \in resources'
    OBVIOUS
  <2>1. CASE i = at - 1
    BY <1>2, <1>3, <1>4, <2>1
  <2>2. CASE i # at - 1
    <3>1. i \in 1 .. at - 2
      BY <1>2, <2>2
    <3> QED
      BY <1>2, <1>4, <3>1 DEF ClusterInv, ResourcesTrue
  <2> QED
    BY <2>1, <2>2
<1>7. CycleTrue' /\ ListTrue'
  BY <1>4 DEF ClusterInv, CycleTrue, ListTrue
<1>8. ResourcesTrue'
  <2>1. at' - 2 = at - 1
    BY <1>2, <1>4
  <2> QED
    BY <1>5, <1>6, <2>1 DEF ResourcesTrue
<1>9. cycle \in 0 .. MaxCycles /\ cycle # 0
  BY DEF ClusterInv, ClusterTypeOK, CycleTrue
<1>10. ASSUME at + 1 >= FirstExtra PROVE Whole(snap) /\ snap.seq # 0 /\ snap.seq = cycle
  <2>1. at = Len(Inventory) + 1
    BY <1>2, <1>10 DEF FirstExtra
  <2>2. {o \in stable : KindOf[o] \in ToSet(Inventory)} \subseteq resources'
    <3> SUFFICES ASSUME NEW o \in stable, KindOf[o] \in ToSet(Inventory) PROVE o \in resources'
      OBVIOUS
    <3>1. PICK i \in DOMAIN Inventory : KindOf[o] = Inventory[i]
      BY DEF ToSet
    <3>2. i \in 1 .. at - 1
      BY <2>1
    <3> QED
      BY <1>6, <3>1, <3>2
  <2>3. /\ snap.seq = cycle /\ snap.res = resources' /\ snap.lived = lived
        /\ snap.stable = {o \in stable : KindOf[o] \in ToSet(Inventory)}
    OBVIOUS
  <2> HIDE DEF snap
  <2> QED
    BY <1>5, <1>9, <2>2, <2>3 DEF Whole
<1>11. /\ ViewsTrue' /\ GaugesTrue' /\ view'.seq \in 0 .. MaxCycles /\ view'.res \subseteq Objects
       /\ \A s \in inflight' : s.seq \in 1 .. MaxCycles
  <2>1. CASE at + 1 < FirstExtra
    <3>1. UNCHANGED <<inflight, view, posted>>
      BY <2>1 DEF EndInventory
    <3> QED
      BY <1>4, <3>1 DEF ClusterInv, ClusterTypeOK, ViewsTrue, Whole, GaugesTrue, Honest
  <2>2. CASE ~(at + 1 < FirstExtra)
    <3>1. Whole(snap) /\ snap.seq # 0 /\ snap.seq = cycle
      BY <1>2, <1>10, <2>2 DEF FirstExtra
    <3>2. \/ view' = Accepted(snap) /\ inflight' = inflight
          \/ inflight' = inflight \cup {snap} /\ UNCHANGED view
      BY <2>2 DEF EndInventory
    <3>3. posted' = posted \/ posted' = [posted EXCEPT !.metrics = InventoryMetrics(resources')]
      BY <2>2 DEF EndInventory, Measured
    <3>4. GaugesTrue'
      BY <1>4, <3>3 DEF ClusterInv, GaugesTrue, Honest
    <3> HIDE DEF snap
    <3>5. view' \in {view, snap} /\ inflight' \subseteq inflight \cup {snap}
      BY <3>2 DEF Accepted
    <3>6. Whole(view') /\ \A s \in inflight' : Whole(s) /\ s.seq # 0
      BY <3>1, <3>5 DEF ClusterInv, ViewsTrue
    <3>7. ViewsTrue'
      BY <3>6 DEF ViewsTrue, Whole
    <3> QED
      BY <3>4, <3>6, <3>7 DEF Whole
  <2> QED
    BY <2>1, <2>2
<1>12. ClusterTypeOK'
  <2>1. at' \in 0 .. Len(Agenda) /\ page' \in 0 .. MaxPages
    BY <1>2, <1>4
  <2>2. rest' \cup batch' \cup resources' \cup stable' \cup lived' \subseteq Objects
    BY <1>4, <1>5 DEF ClusterInv, ClusterTypeOK
  <2>3. cluster' \subseteq Objects /\ churn' \in 0 .. MaxChurn /\ cycle' \in 0 .. MaxCycles
    BY DEF ClusterInv, ClusterTypeOK
  <2> QED
    BY <1>11, <2>1, <2>2, <2>3 DEF ClusterTypeOK
<1> QED
  BY <1>7, <1>8, <1>11, <1>12 DEF ClusterInv

LEMMA GaugesKeep ==
  ASSUME ClusterInv, at # 0, NEW p \in PageOf(Left), Ends(p), EndGauges(batch \cup p),
         UNCHANGED <<cluster, churn, cycle, stable, lived>>
  PROVE  ClusterInv'
<1> USE ClusterAssumption, AgendaShape
<1> DEFINE all == batch \cup p
           g == Report(Now.job, Now.kind, TRUE, all)
           new == gauges \cup {g}
<1>1. at \in 1 .. Len(Agenda)
  BY DEF ClusterInv, ClusterTypeOK
<1>2. at \in FirstExtra .. Len(Agenda)
  BY <1>1, JobAt DEF EndGauges
<1>3. \A o \in stable : KindOf[o] = Now.kind => o \in all
  BY WholeList
<1> HIDE DEF all
<1>4. Honest(g)
  <2>1. g.up = TRUE /\ g.objs = all /\ g.stable = {o \in stable : KindOf[o] = Now.kind}
    BY DEF Report
  <2> HIDE DEF g
  <2> QED
    BY <1>3, <2>1 DEF Honest
<1>5. /\ UNCHANGED <<resources, inflight, view>>
      /\ IF at = Len(Agenda) THEN /\ GoTo(0) /\ gauges' = {}
                                  /\ posted' \in {posted, [posted EXCEPT !.gauges = new]}
         ELSE GoTo(at + 1) /\ gauges' = new /\ posted' = posted
  BY DEF EndGauges, all
<1> HIDE DEF g
<1>6. GaugesTrue'
  <2>1. \A x \in new : Honest(x)
    BY <1>4 DEF ClusterInv, GaugesTrue
  <2> HIDE DEF new
  <2>2. DOMAIN posted' = {"events", "gauges", "metrics"} /\ (posted'.gauges = posted.gauges \/ posted'.gauges = new)
    BY <1>5 DEF ClusterInv, GaugesTrue
  <2>3. gauges' = {} \/ gauges' = new
    BY <1>5
  <2>4. \A x \in gauges' : Honest(x)
    BY <2>1, <2>3
  <2>5. \A x \in posted'.gauges : Honest(x)
    BY <2>1, <2>2 DEF ClusterInv, GaugesTrue
  <2> QED
    BY <2>2, <2>4, <2>5 DEF GaugesTrue, Honest
<1>7. CASE at = Len(Agenda)
  BY <1>5, <1>6, <1>7, TurnKeeps
<1>8. CASE at # Len(Agenda)
  <2>1. at + 1 \in 0 .. Len(Agenda) /\ ~(at + 1 < FirstExtra)
    BY <1>2, <1>8 DEF FirstExtra
  <2> QED
    BY <1>5, <1>6, <1>8, <2>1, TurnKeeps
<1> QED
  BY <1>7, <1>8

LEMMA FailsKeep == ClusterInv /\ (ApiFails \/ ReplacePod) => ClusterInv'
<1> SUFFICES ASSUME ClusterInv, ApiFails \/ ReplacePod PROVE ClusterInv'
  OBVIOUS
<1> USE ClusterAssumption, AgendaShape
<1>0. at \in 1 .. Len(Agenda) /\ at # 0
  <2>1. at # 0
    BY DEF ApiFails, ReplacePod
  <2>2. at \in 0 .. Len(Agenda)
    BY DEF ClusterInv, ClusterTypeOK
  <2> QED
    BY <2>1, <2>2
<1>1. CASE ReplacePod
  <2>1. GaugesTrue'
    BY <1>1 DEF ReplacePod, ClusterInv, GaugesTrue, Honest
  <2> QED
    BY <1>0, <1>1, <2>1, TurnKeeps DEF ReplacePod
<1>2. CASE ApiFails
  <2> DEFINE g == Report("extra", Now.kind, FALSE, {})
             new == IF Now.job = "extra" THEN gauges \cup {g} ELSE gauges
  <2>1. /\ UNCHANGED <<cluster, churn, cycle, stable, lived, inflight, view>> /\ resources' \in {resources, {}}
        /\ IF Now.job = "inventory" THEN GoTo(FirstExtra) ELSE IF at = Len(Agenda) THEN GoTo(0) ELSE GoTo(at + 1)
        /\ IF at = Len(Agenda) THEN gauges' = {} /\ posted' \in {posted, [posted EXCEPT !.gauges = new]}
           ELSE gauges' = new /\ posted' = posted
    BY <1>2 DEF ApiFails, ApiFailsAt
  <2>2. Honest(g)
    <3>1. g.up = FALSE /\ g.objs = {}
      BY DEF Report
    <3> HIDE DEF g
    <3> QED
      BY <3>1 DEF Honest
  <2> HIDE DEF g
  <2>3. \A x \in new : Honest(x)
    BY <2>2 DEF ClusterInv, GaugesTrue
  <2> HIDE DEF new
  <2>4. GaugesTrue'
    <3>2. DOMAIN posted' = {"events", "gauges", "metrics"} /\ (posted'.gauges = posted.gauges \/ posted'.gauges = new)
      BY <2>1 DEF ClusterInv, GaugesTrue
    <3>3. gauges' = {} \/ gauges' = new
      BY <2>1
    <3>4. \A x \in gauges' : Honest(x)
      BY <2>3, <3>3
    <3>5. \A x \in posted'.gauges : Honest(x)
      BY <2>3, <3>2 DEF ClusterInv, GaugesTrue
    <3> QED
      BY <3>2, <3>4, <3>5 DEF GaugesTrue, Honest
  <2>5. CASE Now.job = "inventory"
    <3>1. FirstExtra \in 0 .. Len(Agenda) /\ ~(FirstExtra < FirstExtra)
      BY DEF FirstExtra
    <3> QED
      BY <1>0, <2>1, <2>4, <2>5, <3>1, TurnKeeps
  <2>6. CASE Now.job # "inventory" /\ at = Len(Agenda)
    BY <1>0, <2>1, <2>4, <2>6, TurnKeeps
  <2>7. CASE Now.job # "inventory" /\ at # Len(Agenda)
    <3>1. at + 1 \in 0 .. Len(Agenda)
      BY <1>0, <2>7
    <3>2. at = 1 \/ at \in FirstExtra .. Len(Agenda)
      BY <1>0, <2>7, JobAt
    <3>3. at + 1 < FirstExtra => at + 1 \in {0, 1, 2}
      BY <3>2 DEF FirstExtra
    <3> QED
      BY <1>0, <2>1, <2>4, <2>7, <3>1, <3>3, TurnKeeps
  <2> QED
    BY <2>5, <2>6, <2>7
<1> QED
  BY <1>1, <1>2

LEMMA DeliverKeeps == ASSUME ClusterInv, NEW snap \in inflight, Deliver(snap) PROVE ClusterInv'
<1>1. /\ inflight' = inflight \ {snap} /\ view' \in {view, snap} /\ Now' = Now
      /\ UNCHANGED <<cluster, churn, cycle, at, rest, page, batch, resources, gauges, stable, lived, posted>>
  BY NowSame DEF Deliver, Accepted
<1>2. Whole(view') /\ \A s \in inflight' : Whole(s) /\ s.seq # 0
  BY <1>1 DEF ClusterInv, ViewsTrue
<1>3. ViewsTrue' /\ GaugesTrue'
  BY <1>1, <1>2 DEF ClusterInv, ViewsTrue, Whole, GaugesTrue, Honest
<1>4. ClusterTypeOK'
  BY <1>1, <1>2, ClusterAssumption DEF ClusterInv, ClusterTypeOK, Whole
<1>5. CycleTrue' /\ ListTrue' /\ ResourcesTrue'
  BY <1>1 DEF ClusterInv, CycleTrue, ListTrue, ResourcesTrue
<1> QED
  BY <1>3, <1>4, <1>5 DEF ClusterInv

LEMMA ClusterNextInv == ClusterInv /\ [ClusterNext]_clusterVars => ClusterInv'
<1> SUFFICES ASSUME ClusterInv, [ClusterNext]_clusterVars PROVE ClusterInv'
  OBVIOUS
<1>1. CASE ApiGet
  <2>1. at # 0 /\ UNCHANGED <<cluster, churn, cycle, stable, lived>>
    BY <1>1 DEF ApiGet
  <2>2. PICK p \in PageOf(Left) :
          \/ MorePages(p) /\ UNCHANGED <<inflight, view, posted>>
          \/ Ends(p) /\ (EndEvents(batch \cup p) \/ EndInventory(batch \cup p) \/ EndGauges(batch \cup p))
    BY <1>1 DEF ApiGet
  <2> QED
    BY <2>1, <2>2, PagesKeep, EventsKeep, InventoryKeeps, GaugesKeep
<1>2. CASE UNCHANGED clusterVars
  <2>1. UNCHANGED <<cluster, churn, cycle, at, rest, page, batch, resources, gauges, stable, lived, inflight, view, posted>>
        /\ Now' = Now
    BY <1>2, NowSame DEF clusterVars
  <2>2. ClusterTypeOK' /\ CycleTrue' /\ ListTrue' /\ ResourcesTrue'
    BY <2>1 DEF ClusterInv, ClusterTypeOK, CycleTrue, ListTrue, ResourcesTrue
  <2>3. ViewsTrue' /\ GaugesTrue'
    BY <2>1 DEF ClusterInv, ViewsTrue, Whole, GaugesTrue, Honest
  <2> QED
    BY <2>2, <2>3 DEF ClusterInv
<1> QED
  BY <1>1, <1>2, ChurnKeeps, CollectKeeps, FailsKeep, DeliverKeeps DEF ClusterNext

\* pushInventory: for any objects, kinds and page size, whatever changes, fails, restarts
\* or arrives late, the inventory the gateway shows holds all that existed throughout the
\* cycle it comes from and nothing that did not exist in it, as long as no list is longer
\* than maxListPages pages.
THEOREM InventoryAlwaysWhole == ClusterSpec => []SnapshotComplete
<1>1. ClusterInv => SnapshotComplete
  BY DEF ClusterInv, ViewsTrue, Whole, SnapshotComplete
<1> QED
  BY <1>1, ClusterInitInv, ClusterNextInv, PTL DEF ClusterSpec

\* collectStateExtras, collectPodPhases and collectDeployments: a kind is reported up only
\* with all that existed throughout, and a failed kind reports no object.
THEOREM GaugesAlwaysHonest ==
  ClusterSpec => [](\A g \in posted.gauges : IF g.up THEN g.stable \subseteq g.objs ELSE g.objs = {})
<1>1. ClusterInv => \A g \in posted.gauges : IF g.up THEN g.stable \subseteq g.objs ELSE g.objs = {}
  BY DEF ClusterInv, GaugesTrue, Honest
<1> QED
  BY <1>1, ClusterInitInv, ClusterNextInv, PTL DEF ClusterSpec

LEMMA TotalsOfInventory == ASSUME NEW res \in SUBSET Objects PROVE TotalsExact(InventoryMetrics(res))
<1> DEFINE m == InventoryMetrics(res)
           pod(o) == KindOf[o] = "Pod"
           decl == {<<o, Workload(o, res)>> : o \in {x \in res : pod(x)}}
<1>1. m.of = res /\ m.totals = AllocationTotals(res)
  BY DEF InventoryMetrics
<1>2. Declared(res) = decl
  BY DEF Declared, PodsOf, Resource
<1>3. /\ DOMAIN m.totals = {d[2] : d \in decl}
      /\ \A w \in DOMAIN m.totals : m.totals[w] = Cardinality({d \in decl : d[2] = w /\ d[1] \in Placed})
  BY <1>1, <1>2 DEF AllocationTotals, Resource
<1> HIDE DEF m
<1>4. \A o \in res : pod(o) => Workload(o, res) \in DOMAIN m.totals
  <2> SUFFICES ASSUME NEW o \in res, pod(o) PROVE Workload(o, res) \in DOMAIN m.totals
    OBVIOUS
  <2>1. PICK d \in decl : d[2] = Workload(o, res)
    <3>1. <<o, Workload(o, res)>> \in decl /\ <<o, Workload(o, res)>>[2] = Workload(o, res)
      OBVIOUS
    <3> QED
      BY <3>1
  <2> HIDE DEF decl
  <2> QED
    BY <1>3, <2>1
<1>5. ASSUME NEW w \in DOMAIN m.totals
      PROVE  m.totals[w] = Cardinality({o \in res : pod(o) /\ o \in Placed /\ Workload(o, res) = w})
  <2> DEFINE A == {o \in res : pod(o) /\ o \in Placed /\ Workload(o, res) = w}
             B == {d \in decl : d[2] = w /\ d[1] \in Placed}
             f == [o \in A |-> <<o, Workload(o, res)>>]
  <2>1. f \in [A -> B]
    OBVIOUS
  <2>2. \A x, y \in A : f[x] = f[y] => x = y
    OBVIOUS
  <2>3. \A d \in B : \E o \in A : f[o] = d
    OBVIOUS
  <2>4. IsFiniteSet(A)
    BY ClusterAssumption, FS_Subset
  <2> HIDE DEF A, B, f
  <2>5. f \in Bijection(A, B)
    BY <2>1, <2>2, <2>3 DEF Bijection, Injection, Surjection, IsInjective
  <2>6. ExistsBijection(A, B)
    BY <2>5 DEF ExistsBijection
  <2>7. Cardinality(B) = Cardinality(A)
    BY <2>4, <2>6, FS_Bijection
  <2> QED
    BY <1>3, <2>7 DEF A, B
<1> QED
  BY <1>1, <1>4, <1>5 DEF TotalsExact, m

\* inventoryMetrics: for any objects and owners, the totals accepted last count every pod
\* that is bound and not finished exactly once, under the workload its owners lead to.
THEOREM PodsCountedOnce == ClusterSpec => []TotalsExact(posted.metrics)
<1> DEFINE Inv == ClusterInv /\ TotalsExact(posted.metrics)
<1>1. ClusterInit => Inv
  <2>1. ClusterInit => TotalsExact(posted.metrics)
    BY DEF ClusterInit, TotalsExact
  <2> QED
    BY <2>1, ClusterInitInv
<1>2. Inv /\ [ClusterNext]_clusterVars => Inv'
  <2> SUFFICES ASSUME Inv, [ClusterNext]_clusterVars PROVE TotalsExact(posted.metrics)'
    BY ClusterNextInv
  <2>0. DOMAIN posted = {"events", "gauges", "metrics"}
    BY DEF ClusterInv, GaugesTrue
  <2>1. CASE posted'.metrics = posted.metrics
    BY <2>1 DEF TotalsExact
  <2>2. CASE posted'.metrics = InventoryMetrics(resources') /\ resources' \subseteq Objects
    <3>1. TotalsExact(posted'.metrics)
      BY <2>2, TotalsOfInventory
    <3> QED
      BY <3>1 DEF TotalsExact
  <2>3. resources' \subseteq Objects
    BY ClusterNextInv DEF ClusterInv, ClusterTypeOK
  <2>4. posted'.metrics = posted.metrics \/ posted'.metrics = InventoryMetrics(resources')
    <3>1. CASE ApiGet
      <4>1. PICK p \in PageOf(Left) :
              \/ MorePages(p) /\ UNCHANGED <<inflight, view, posted>>
              \/ Ends(p) /\ (EndEvents(batch \cup p) \/ EndInventory(batch \cup p) \/ EndGauges(batch \cup p))
        BY <3>1 DEF ApiGet
      <4>2. CASE EndEvents(batch \cup p)
        BY <2>0, <4>2 DEF EndEvents
      <4>3. CASE EndInventory(batch \cup p)
        <5>1. \/ posted' = posted
              \/ posted' = [posted EXCEPT !.metrics = InventoryMetrics(resources')]
          BY <4>3 DEF EndInventory, Measured
        <5> QED
          BY <2>0, <5>1
      <4>4. CASE EndGauges(batch \cup p)
        <5>1. \/ posted' = posted
              \/ \E new : posted' = [posted EXCEPT !.gauges = new]
          BY <4>4 DEF EndGauges
        <5> QED
          BY <2>0, <5>1
      <4> QED
        BY <4>1, <4>2, <4>3, <4>4
    <3>2. CASE ApiFails
      <4>1. \/ posted' = posted
            \/ \E new : posted' = [posted EXCEPT !.gauges = new]
        BY <3>2 DEF ApiFails, ApiFailsAt
      <4> QED
        BY <2>0, <4>1
    <3>3. CASE Collect \/ ReplacePod \/ (\E o \in Objects : Churn(o)) \/ (\E snap \in inflight : Deliver(snap)) \/ UNCHANGED clusterVars
      BY <3>3 DEF Collect, ReplacePod, Churn, Deliver, clusterVars
    <3> QED
      BY <3>1, <3>2, <3>3 DEF ClusterNext
  <2> QED
    BY <2>1, <2>2, <2>3, <2>4
<1> QED
  BY <1>1, <1>2, PTL DEF ClusterSpec

\* Both, and the root of the owners of a pod that are in the snapshot has a total.
THEOREM StateAlwaysHonest == ClusterSpec => []StateHonest
<1>1. ASSUME \A g \in posted.gauges : IF g.up THEN g.stable \subseteq g.objs ELSE g.objs = {},
             TotalsExact(posted.metrics)
      PROVE  StateHonest
  <2> SUFFICES ASSUME NEW o \in posted.metrics.of, KindOf[o] = "Pod", OwnerOf[o] \in posted.metrics.of,
                      OwnerOf[OwnerOf[o]] \in posted.metrics.of, OwnerOf[OwnerOf[OwnerOf[o]]] = NoObject
               PROVE  OwnerOf[OwnerOf[o]] \in DOMAIN posted.metrics.totals
    BY <1>1 DEF StateHonest
  <2> DEFINE r == OwnerOf[OwnerOf[o]]
  <2>1. r # NoObject
    BY <1>1, ClusterAssumption DEF TotalsExact, NoObject
  <2>2. Hop(OwnerOf[o], posted.metrics.of) = r /\ Hop(r, posted.metrics.of) = r
    BY <2>1 DEF Hop, Resource
  <2>3. Workload(o, posted.metrics.of) = r
    BY <2>2 DEF Workload, Resource
  <2> QED
    BY <1>1, <2>3 DEF TotalsExact
<1> QED
  BY <1>1, GaugesAlwaysHonest, PodsCountedOnce, PTL

-----------------------------------------------------------------------------
(* The composition *)

\* The composition implements its components on Kubernetes: a step of it is a step of the
\* component that moves and leaves the others as they are.
THEOREM EachPartRuns == AgentSpec => HookSpec /\ ClusterSpec /\ IdentitySpec /\ PodsSpec
<1>1. AgentInit => HookInit /\ ClusterInit /\ IdentityInit /\ PodsInit
  BY DEF AgentInit
<1>2. [AgentNext]_agentVars => /\ [HookNext]_hookVars /\ [ClusterNext]_clusterVars
                               /\ [IdentityNext]_identityVars /\ [PodsNext]_podVars
  <2>1. CASE UNCHANGED agentVars
    BY <2>1 DEF agentVars
  <2>2. CASE AgentNext
    BY <2>2 DEF AgentNext
  <2> QED
    BY <2>1, <2>2
<1> QED
  BY <1>1, <1>2, PTL DEF AgentSpec, HookSpec, ClusterSpec, IdentitySpec, PodsSpec

\* What the run of MCAgent checks of the agent on Kubernetes, for every value of the
\* constants: the inventory and the state of the cluster, the owners of pids and
\* addresses, and the batches and languages of pods.
THEOREM KubernetesAlwaysHonest == AgentSpec => []KubernetesHonest
<1>1. SnapshotComplete /\ StateHonest /\ IdentityFresh /\ PodsAttributed => KubernetesHonest
  BY DEF KubernetesHonest
<1> QED
  BY <1>1, EachPartRuns, InventoryAlwaysWhole, StateAlwaysHonest, IdentityAlwaysFresh, PodsAlwaysAttributed, PTL

\* Config pull and the components on Kubernetes keep their types, whatever the constants.
THEOREM AgentTypeCorrect == AgentSpec => []AgentTypeOK
<1> USE BoundAssumption, HookAssumption
<1>1. AgentInit => PullInv /\ HookInv /\ ClusterInv /\ IdentityInv /\ PodsInv
  BY PullInitInv, HookInitInv, ClusterInitInv, IdentityInitInv, PodsInitInv DEF AgentInit
<1>2. [AgentNext]_agentVars => /\ [Next]_vars /\ [HookNext]_hookVars /\ [ClusterNext]_clusterVars
                               /\ [IdentityNext]_identityVars /\ [PodsNext]_podVars
  <2>1. CASE UNCHANGED agentVars
    BY <2>1 DEF agentVars
  <2>2. CASE AgentNext
    BY <2>2 DEF AgentNext
  <2> QED
    BY <2>1, <2>2
<1>3. PullInv /\ [Next]_vars => PullInv'
  BY PullStepInv
<1>4. HookInv /\ [HookNext]_hookVars => HookInv'
  BY HookStepInv
<1>5. PullInv /\ HookInv /\ ClusterInv /\ IdentityInv /\ PodsInv => AgentTypeOK
  <2>1. HookInv => HookTypeOK
    BY DEF HookInv, HookShapes, HookTypeOK, Polls, Asks, Answers
  <2>2. PodsInv => PodsTypeOK
    BY DEF PodsInv, PodsShapes, AddressesOwn, PodsTypeOK
  <2> QED
    BY <2>1, <2>2 DEF PullInv, ClusterInv, IdentityInv, AgentTypeOK
<1> QED
  BY <1>1, <1>2, <1>3, <1>4, <1>5, ClusterNextInv, IdentityNextInv, PodsNextInv, PTL DEF AgentSpec
=============================================================================
