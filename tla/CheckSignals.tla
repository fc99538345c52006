---------------------------- MODULE CheckSignals ----------------------------
(***************************************************************************)
(* What the runs of one database check send to the backend:                *)
(* internal/checks/scheduler.go (runOnce and the push functions), the      *)
(* pushers that cmd/collector/main.go installs, internal/otlp/ingest.go    *)
(* and database_contract.go, internal/checks/postgres_explain.go.          *)
(*                                                                         *)
(* Every message is posted by a goroutine of its own. The fields that a    *)
(* pusher copies from the result to the payload are left out; a message is *)
(* what it is about and the run it comes from.                             *)
(***************************************************************************)
EXTENDS Integers, FiniteSets

CONSTANT MaxRuns   \* bound: runs of the check; the last one may repeat for ever

ASSUME SignalsAssumption == MaxRuns \in Nat \ {0}

VARIABLES
  check,     \* what the check collects
  dbAgent,   \* the exporter has an installation id: a database agent
  named,     \* the check has a database id
  tagged,    \* the tags of the check carry an installation id
  module,    \* BANCOS_DADOS is enabled
  run,       \* number of the last run
  completed, \* postgresExplain.completed
  posts,     \* goroutines that have a message to post
  got,       \* messages the backend accepted
  muted      \* messages PostRaw let fall because their module is off

signalVars == <<check, dbAgent, named, tagged, module, run, completed, posts, got, muted>>

\* databaseCheckSignal, and a check that only has metrics.
Checks == {"explain", "discovery", "queries", "catalog", "diagnostics", "metrics"}
Messages == [about : Checks \cup {"status", "runtime", "capabilities"}, run : 1 .. MaxRuns]

SignalsTypeOK ==
  /\ check \in Checks /\ dbAgent \in BOOLEAN /\ named \in BOOLEAN /\ tagged \in BOOLEAN /\ module \in BOOLEAN
  /\ run \in 0 .. MaxRuns /\ completed \in BOOLEAN
  /\ posts \subseteq Messages /\ got \subseteq Messages /\ muted \subseteq Messages

SignalsInit ==
  /\ check \in Checks /\ dbAgent \in BOOLEAN /\ named \in BOOLEAN
  /\ tagged \in BOOLEAN /\ module = TRUE /\ run = 0 /\ completed = FALSE
  /\ posts = {} /\ got = {} /\ muted = {}

-----------------------------------------------------------------------------
(* runOnce *)

Of(about, n) == [about |-> about, run |-> n]

\* The result of a run that went well; metrics go to the channel out (Collector).
Pushed(n) == IF check = "metrics" THEN {} ELSE {Of(check, n)}

\* Only EXPLAIN also pushes its failure.
PushedOnError(n) == IF check = "explain" THEN {Of("explain", n)} ELSE {}

\* The run goes well, fails, or ends without an error but after its time. A
\* completed EXPLAIN does not ask the database again and has no result. Every run
\* reports its execution.
Run ==
  /\ LET n == IF run < MaxRuns THEN run + 1 ELSE run
         done == check = "explain" /\ completed
     IN  /\ run < MaxRuns \/ posts = {}
         /\ run' = n
         /\ \E result \in {{}, IF done THEN {} ELSE Pushed(n), IF done THEN {} ELSE PushedOnError(n)} :
              posts' = posts \cup result \cup {Of("status", n)}
  /\ UNCHANGED <<check, dbAgent, named, tagged, module, completed, got, muted>>

-----------------------------------------------------------------------------
(* The pushers and IngestExporter *)

\* What the Post functions refuse before they send: a database agent must name the
\* database, and what describes an installation must say which.
Valid(m) ==
  CASE m.about \in {"explain", "queries", "catalog", "diagnostics"} -> dbAgent => named
    [] m.about \in {"discovery", "runtime", "capabilities"} -> dbAgent \/ tagged
    [] OTHER -> TRUE

\* signalAllowed: the status of a check belongs to no module.
Allowed(m) == m.about = "status" \/ module

\* What the same goroutine sends after m. The run time telemetry follows the status
\* even if that failed; capabilities follow diagnostics that were delivered.
Then(m, delivered) ==
  CASE m.about = "status" /\ check # "metrics" /\ tagged -> {Of("runtime", m.run)}
    [] m.about = "diagnostics" /\ delivered -> {Of("capabilities", m.run)}
    [] OTHER -> {}

PostMarkingFirst(m, answered) ==
  /\ m \in posts
  /\ LET sent == Valid(m) /\ Allowed(m) /\ answered
     IN  /\ got' = IF sent THEN got \cup {m} ELSE got
         /\ muted' = IF Valid(m) /\ ~Allowed(m) THEN muted \cup {m} ELSE muted
         /\ posts' = (posts \ {m}) \cup Then(m, sent)
         /\ completed' = (completed \/ m.about = "explain")
  /\ UNCHANGED <<check, dbAgent, named, tagged, module, run>>

\* A post and what follows it. A message of a module that is off counts as
\* delivered; one the gateway does not answer is lost. A delivered plan completes the EXPLAIN.
Post(m, answered) ==
  /\ m \in posts
  /\ LET silent == Valid(m) /\ ~Allowed(m)
         sent == Valid(m) /\ Allowed(m) /\ answered
     IN  /\ got' = IF sent THEN got \cup {m} ELSE got
         /\ muted' = IF silent THEN muted \cup {m} ELSE muted
         /\ posts' = (posts \ {m}) \cup Then(m, sent \/ silent)
         /\ completed' = (completed \/ (m.about = "explain" /\ (sent \/ silent)))
  /\ UNCHANGED <<check, dbAgent, named, tagged, module, run>>

\* PolicyChanged of config pull.
SetEnabledModules ==
  /\ module' = ~module
  /\ UNCHANGED <<check, dbAgent, named, tagged, run, completed, posts, got, muted>>

SignalsNext == Run \/ (\E m \in posts, answered \in BOOLEAN : Post(m, answered)) \/ SetEnabledModules

SignalsSpec == SignalsInit /\ [][SignalsNext]_signalVars

-----------------------------------------------------------------------------
(* Properties *)

\* An EXPLAIN ends only once its plan, or its failure, was accepted by the backend
\* or fell to a module that is off: "se o envio falhar, a solicitacao continua viva".
AnsweredWhenCompleted ==
  completed => \E m \in got \cup muted : m.about = "explain"

\* The capabilities of a run never reach the backend before its diagnostics.
CapabilitiesAfterDiagnostics ==
  \A m \in got : m.about = "capabilities" => Of("diagnostics", m.run) \in got \cup muted
=============================================================================
