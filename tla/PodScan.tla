------------------------------ MODULE PodScan ------------------------------
(***************************************************************************)
(* Two loops over the pods of a node that run while pods come and go: the  *)
(* Quarkus scraper (addresses first, one request per pod after) and the    *)
(* language detector (one process after the other, then two reports).      *)
(* The kubelet, the gateway and the pods are external.                     *)
(***************************************************************************)
EXTENDS Naturals, FiniteSets, FiniteSetsExt

CONSTANTS ScanPods,     \* the pods of the node, one container each
          Addresses,    \* the addresses its pods get
          Processes,    \* process ids, in the order of /proc
          OutSize,      \* room left in the metric channel
          MaxMoves,     \* bound on the starts and stops of pods
          MaxRounds     \* bound on the ticks of the two loops

\* The sizes and the bounds are numbers.
ASSUME PodsAssumption == Processes \in Nat /\ OutSize \in Nat /\ MaxMoves \in Nat /\ MaxRounds \in Nat

VARIABLES address,      \* address[p]: the address of a running pod, or "none"
          wanted,       \* the pods whose workload is marked quarkus_metrics
          moves, rounds,
          scrapes,      \* addresses read by this tick and not yet scraped
          reused,       \* addresses whose owner changed during this tick (ghost)
          outbox,       \* batches sent: the tag, the pod that answered, its address
          procs,        \* procs[n]: the pod, runtime and ABI of a process, or "none"
          scan,         \* next process, and what the scan found so far
          languages     \* the last report: per pod, per container, and the truth
podVars == <<address, wanted, moves, rounds, scrapes, reused, outbox, procs, scan, languages>>

NoAddress == "none"
NoProc == [pod |-> NoAddress, lang |-> "", abi |-> TRUE]
ProcShapes == [pod : ScanPods, lang : {"java", "python"}, abi : BOOLEAN]
Empty == [next |-> 0, seen |-> {}, pods |-> <<>>, containers |-> <<>>, ambiguous |-> {}]

PodsInit ==
  /\ address = [p \in ScanPods |-> NoAddress]
  /\ wanted \in SUBSET ScanPods
  /\ moves = 0 /\ rounds = 0
  /\ scrapes = {} /\ reused = {} /\ outbox = {}
  /\ procs \in [1..Processes -> ProcShapes \cup {NoProc}]
  /\ scan = Empty
  /\ languages = [pods |-> <<>>, containers |-> <<>>, seen |-> {}]

\* A pod gets an address that is free, or stops.
MovePod(p, a) ==
  /\ moves < MaxMoves /\ moves' = moves + 1
  /\ a = NoAddress \/ \A q \in ScanPods : address[q] # a
  /\ a # address[p]
  /\ address' = [address EXCEPT ![p] = a]
  /\ reused' = reused \cup ({address[p], a} \ {NoAddress})
  /\ UNCHANGED <<wanted, rounds, scrapes, outbox, procs, scan, languages>>
\* A process ends while the scan runs.
EndProcess(n) ==
  /\ procs[n] # NoProc /\ scan.next > 0
  /\ procs' = [procs EXCEPT ![n] = NoProc]
  /\ UNCHANGED <<address, wanted, moves, rounds, scrapes, reused, outbox, scan, languages>>

\* tick: the list of the gateway and the addresses of the kubelet; the pods of
\* a marked workload are the targets.  Either request may fail: nothing then.
Tick ==
  /\ scrapes = {} /\ rounds < MaxRounds
  /\ rounds' = rounds + 1
  /\ scrapes' \in {{}, {[pod |-> p, ip |-> address[p]] : p \in {q \in wanted : address[q] # NoAddress}}}
  /\ reused' = {}
  /\ UNCHANGED <<address, wanted, moves, outbox, procs, scan, languages>>

\* scrapePod: whoever has the address answers, or the request fails; the batch
\* is dropped when the channel has no room.
Scrape(t) ==
  /\ t \in scrapes
  /\ scrapes' = scrapes \ {t}
  /\ outbox' \in {outbox} \cup
       IF Cardinality(outbox) < OutSize
       THEN {outbox \cup {[tag |-> t.pod, from |-> q, clean |-> t.ip \notin reused]} :
               q \in {r \in ScanPods : address[r] = t.ip}}
       ELSE {}
  /\ UNCHANGED <<address, wanted, moves, rounds, reused, procs, scan, languages>>

(***************************************************************************)
(* scanAndPush.  containerLanguage marks an ABI the package does not fit;  *)
(* two languages in a container make it ambiguous, the last process gives  *)
(* its entry; a pod keeps the language of highest rank.                    *)
(***************************************************************************)
Rank(lang) == IF lang = "java" THEN 5 ELSE IF lang = "python" THEN 3 ELSE 0
ContainerLanguage(p) == [lang |-> p.lang, supported |-> p.lang # "python" \/ p.abi]
\* The mark of the ABI takes part in the comparison.
DiffersMarked(entry, p) == entry # ContainerLanguage(p)
Differs(entry, p) == entry.lang # p.lang

Best(known, p) ==
  IF p.pod \in DOMAIN known /\ Rank(p.lang) <= Rank(known[p.pod]) THEN known
  ELSE [q \in DOMAIN known \cup {p.pod} |-> IF q = p.pod THEN p.lang ELSE known[q]]
LanguageEntry(known, p) ==
  [q \in DOMAIN known \cup {p.pod} |-> IF q = p.pod THEN ContainerLanguage(p) ELSE known[q]]

BeginScan ==
  /\ scan.next = 0 /\ rounds < MaxRounds
  /\ rounds' = rounds + 1
  /\ scan' = [Empty EXCEPT !.next = 1]
  /\ UNCHANGED <<address, wanted, moves, scrapes, reused, outbox, procs, languages>>
\* detectLang and the resolver: a process that ended, or of no pod, is skipped.
ScanProcess ==
  /\ scan.next \in 1..Processes
  /\ LET p == procs[scan.next]
     IN scan' = IF p = NoProc THEN [scan EXCEPT !.next = @ + 1]
                ELSE [next |-> scan.next + 1, seen |-> scan.seen \cup {p},
                      pods |-> Best(scan.pods, p),
                      containers |-> LanguageEntry(scan.containers, p),
                      ambiguous |-> IF p.pod \in DOMAIN scan.containers
                                       /\ Differs(scan.containers[p.pod], p)
                                    THEN scan.ambiguous \cup {p.pod} ELSE scan.ambiguous]
  /\ UNCHANGED <<address, wanted, moves, rounds, scrapes, reused, outbox, procs, languages>>
\* The report of the pods; the one of the containers follows when it was taken,
\* and may fail by itself.
PushLanguages ==
  /\ scan.next = Processes + 1
  /\ \/ languages' = languages
     \/ \E cs \in {<<>>, [q \in DOMAIN scan.containers |->
                            IF q \in scan.ambiguous THEN "ambiguous" ELSE scan.containers[q].lang]} :
          languages' = [pods |-> scan.pods, seen |-> scan.seen, containers |-> cs]
  /\ scan' = Empty
  /\ UNCHANGED <<address, wanted, moves, rounds, scrapes, reused, outbox, procs>>

PodsNext ==
  \/ \E p \in ScanPods, a \in Addresses \cup {NoAddress} : MovePod(p, a)
  \/ \E n \in 1..Processes : EndProcess(n)
  \/ Tick \/ \E t \in scrapes : Scrape(t)
  \/ BeginScan \/ ScanProcess \/ PushLanguages

PodsSpec == PodsInit /\ [][PodsNext]_podVars

PodsTypeOK ==
  /\ address \in [ScanPods -> Addresses \cup {NoAddress}]
  /\ wanted \subseteq ScanPods /\ Cardinality(outbox) <= OutSize
  /\ moves \in 0..MaxMoves /\ rounds \in 0..MaxRounds
  /\ scan.next \in 0..Processes + 1

(***************************************************************************)
(* Quarkus scraper: a batch carries the name of the pod that answered, for *)
(* a workload that is marked, unless the address changed hands in the      *)
(* middle of that very tick.  Language detector: whatever the order of     *)
(* /proc and whatever processes end meanwhile, a pod reports the language  *)
(* of highest rank seen, and a container is ambiguous exactly when two     *)
(* languages were seen in it.                                              *)
(***************************************************************************)
PodsAttributed ==
  /\ \A b \in outbox : b.tag \in wanted /\ (b.clean => b.from = b.tag)
  /\ \A q \in DOMAIN languages.pods :
       LET seen == {p.lang : p \in {r \in languages.seen : r.pod = q}}
       IN /\ languages.pods[q] \in seen
          /\ \A l \in seen : Rank(l) <= Rank(languages.pods[q])
          /\ q \in DOMAIN languages.containers =>
             languages.containers[q] = IF Cardinality(seen) > 1 THEN "ambiguous"
                                       ELSE CHOOSE l \in seen : TRUE
=============================================================================
