----------------------------- MODULE DeviceJobs -----------------------------
(***************************************************************************)
(* internal/jobpull: the loop that asks the server for one device job, runs *)
(* it over SSH (internal/tools/ssh.go) and posts the result until it is     *)
(* acknowledged; and the device.config_backup check, which uses the same    *)
(* SSH session. The server leases a job to the collector and offers it      *)
(* again once the lease lapses; requests and answers may be lost.           *)
(***************************************************************************)
EXTENDS Naturals, FiniteSets

CONSTANTS Jobs,        \* jobs the server hands out
          Command,     \* Jobs -> "read", "write" (not in the allow list) or "test" (TestOnly)
          MaxDelay,    \* retryDelay is 2, 4, 8, 16, 30 s: MaxDelay doublings
          MaxCrashes,  \* bound: restarts of the process
          MaxLapses    \* bound: leases that lapse while the collector is alive

VARIABLES
  server,    \* job -> "queued", "leased" or "done"
  pc,        \* Run: "pull", "execute", "post", "wait" or "stopped"
  current,   \* the pulled job, or the one whose result is pending; None
  outcome,   \* result.success of the pending result
  delay,     \* retryDelay, in doublings
  ran,       \* ghost: job -> times its command was started on the device
  finished,  \* ghost: jobs that were executed since the process started
  crashes, lapses,
  backups    \* ghost: what device.config_backup has stored: "whole", "cut"

jobVars == <<server, pc, current, outcome, delay, ran, finished, crashes, lapses, backups>>
None == "none"

\* "none" is the id of no job.
ASSUME JobsAssumption == None \notin Jobs

JobsTypeOK ==
  /\ server \in [Jobs -> {"queued", "leased", "done"}]
  /\ pc \in {"pull", "execute", "post", "wait", "stopped"}
  /\ current \in Jobs \cup {None} /\ outcome \in BOOLEAN /\ delay \in 0 .. MaxDelay
  /\ ran \in [Jobs -> 0 .. 1 + MaxCrashes + MaxLapses] /\ finished \subseteq Jobs
  /\ crashes \in 0 .. MaxCrashes /\ lapses \in 0 .. MaxLapses
  /\ backups \subseteq {"whole", "cut"}

JobsInit ==
  /\ server = [j \in Jobs |-> "queued"]
  /\ pc = "pull" /\ current = None /\ outcome = FALSE /\ delay = 0
  /\ ran = [j \in Jobs |-> 0] /\ finished = {} /\ crashes = 0 /\ lapses = 0 /\ backups = {}

device == <<ran, finished, crashes, lapses, backups>>

-----------------------------------------------------------------------------
\* ssh.go: what a session can come to. A dial fails (host key, credentials, time);
\* a command ends with a status, or is killed at its timeout with exit code -1.
Sessions == {[started |-> FALSE, exit |-> 1, output |-> "none"]}
            \cup [started : {TRUE}, exit : {0, 1}, output : {"none", "whole", "cut"}]

\* ValidateReadOnlySSHCommand.
ValidateReadOnlySSHCommand(j) == Command[j] = "read"

\* pullOnce answers with the first job; the answer may be lost after the lease.
PullJob(j, arrives) ==
  /\ pc = "pull" /\ server[j] = "queued"
  /\ server' = [server EXCEPT ![j] = "leased"]
  /\ IF arrives
     THEN pc' = "execute" /\ current' = j /\ delay' = 0
     ELSE pc' = "wait" /\ UNCHANGED <<current, delay>>
  /\ UNCHANGED <<outcome, device>>

PullFailsReturning ==
  /\ pc = "pull" /\ pc' = "stopped"
  /\ UNCHANGED <<server, current, outcome, delay, device>>

\* A pull that fails waits for the delay and then doubles it.
PullFails ==
  /\ pc = "pull" /\ pc' = "wait"
  /\ delay' = IF delay < MaxDelay THEN delay + 1 ELSE delay
  /\ UNCHANGED <<server, current, outcome, device>>

\* 204 after the long poll asks again at once; an empty 200 waits PollInterval.
PullEmpty(longPoll) ==
  /\ pc = "pull" /\ \A j \in Jobs : server[j] # "queued"
  /\ pc' = IF longPoll THEN "pull" ELSE "wait"
  /\ UNCHANGED <<server, current, outcome, delay, device>>

\* execute: a command that is not read-only fails without a session.
Execute(session) ==
  /\ pc = "execute" /\ pc' = "post"
  /\ LET j == current
         test == Command[j] = "test"
         opens == test \/ ValidateReadOnlySSHCommand(j)
     IN  /\ opens \/ ~session.started
         /\ outcome' = (session.started /\ (test \/ session.exit = 0))
         /\ ran' = IF session.started /\ ~test THEN [ran EXCEPT ![j] = @ + 1] ELSE ran
         /\ finished' = finished \cup {j}
  /\ UNCHANGED <<server, current, delay, crashes, lapses, backups>>

\* postResult is acknowledged: the result is dropped and the loop pulls again.
PostAcknowledged ==
  /\ pc = "post" /\ pc' = "pull"
  /\ server' = [server EXCEPT ![current] = "done"]
  /\ current' = None /\ delay' = 0
  /\ UNCHANGED <<outcome, device>>

PostFailsForgetting(recorded) ==
  /\ pc = "post" /\ pc' = "wait"
  /\ server' = IF recorded THEN [server EXCEPT ![current] = "done"] ELSE server
  /\ current' = None
  /\ UNCHANGED <<outcome, delay, device>>

\* Lost, or refused with a status of 300 and above: the result stays and is posted
\* again after the delay, which does not grow. The server may have recorded it.
PostFails(recorded) ==
  /\ pc = "post" /\ pc' = "wait"
  /\ server' = IF recorded THEN [server EXCEPT ![current] = "done"] ELSE server
  /\ UNCHANGED <<current, outcome, delay, device>>

\* waitContext: the timer, or the end of the process.
WaitEnds ==
  /\ pc = "wait" /\ pc' = IF current = None THEN "pull" ELSE "post"
  /\ UNCHANGED <<server, current, outcome, delay, device>>

StopPulling ==
  /\ pc = "wait" /\ crashes < MaxCrashes /\ pc' = "stopped"
  /\ UNCHANGED <<server, current, outcome, delay, device>>

\* The result lives in memory only.
Restart ==
  /\ crashes < MaxCrashes /\ crashes' = crashes + 1
  /\ pc' = "pull" /\ current' = None /\ delay' = 0 /\ finished' = {}
  /\ UNCHANGED <<server, outcome, ran, lapses, backups>>

\* The server offers a job again: after a crash as long as its result is missing, and
\* a bounded number of times while the collector still works on it.
LeaseLapses(j) ==
  /\ server[j] = "leased" /\ server' = [server EXCEPT ![j] = "queued"]
  /\ IF current = j THEN lapses < MaxLapses /\ lapses' = lapses + 1 ELSE UNCHANGED lapses
  /\ UNCHANGED <<pc, current, outcome, delay, ran, finished, crashes, backups>>

\* device.config_backup: an empty or failed printout is not stored; one cut at
\* sshOutputCapBytes is, since the check does not look at "truncated".
Backup(session) ==
  /\ session.started /\ session.exit = 0 /\ session.output # "none"
  /\ backups' = backups \cup {session.output}
  /\ UNCHANGED <<server, pc, current, outcome, delay, ran, finished, crashes, lapses>>

-----------------------------------------------------------------------------
JobsNext ==
  \/ \E j \in Jobs : PullJob(j, TRUE) \/ PullJob(j, FALSE) \/ LeaseLapses(j)
  \/ PullFails \/ PullEmpty(TRUE) \/ PullEmpty(FALSE)
  \/ \E session \in Sessions : Execute(session) \/ Backup(session)
  \/ PostAcknowledged \/ PostFails(TRUE) \/ PostFails(FALSE)
  \/ WaitEnds \/ StopPulling \/ Restart

\* Jobs are leased for a time, an SSH session is bounded by its timeouts, and a
\* server that is asked often enough answers and accepts.
JobsFairness ==
  /\ \A j \in Jobs : /\ SF_jobVars(PullJob(j, TRUE))
                     /\ WF_jobVars(current # j /\ LeaseLapses(j))
  /\ WF_jobVars(\E session \in Sessions : Execute(session))
  /\ SF_jobVars(PostAcknowledged) /\ WF_jobVars(WaitEnds)
  /\ WF_jobVars(pc = "stopped" /\ Restart)

JobsSpec == JobsInit /\ [][JobsNext]_jobVars /\ JobsFairness

-----------------------------------------------------------------------------
(* Properties *)

\* Run keeps the result of an executed job until the server has it: lost answers,
\* refusals and a lease that lapses meanwhile leave it pending. And no command outside
\* the allow list is ever started on a device, whatever the server asks for.
ResultKept ==
  /\ \A j \in finished : server[j] = "done" \/ current = j
  /\ \A j \in Jobs : ran[j] > 0 => Command[j] = "read"

\* Every job of the server is executed and its result recorded in the end, through
\* lost answers, refusals, lapsed leases and restarts.
JobsServed == \A j \in Jobs : <>(server[j] = "done")
=============================================================================
