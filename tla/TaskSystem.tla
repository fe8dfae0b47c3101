----------------------------- MODULE TaskSystem -----------------------------
(***************************************************************************)
(* The task platform: the web process (TaskManager, called by the REST     *)
(* routes), the workers (WorkerService and TaskRunner) and the child       *)
(* processes they start.  They share nothing but the tables metadata.jobs, *)
(* metadata.job_attempts and metadata.workers of PostgreSQL.               *)
(*                                                                         *)
(* One action is one transaction of PostgresJobStore, or one operation of  *)
(* the operating system on a child.  The code between two transactions     *)
(* runs on what the first one returned, whatever the other processes have  *)
(* committed since: that is the snapshot each thread carries.              *)
(*                                                                         *)
(* An element of Workers is one start of a worker process: it registers    *)
(* under a fresh id and keeps the name and the node of the start before.   *)
(***************************************************************************)
EXTENDS Integers

CONSTANTS NumJobs,     \* submissions considered; a job is its creation index
          Workers,     \* starts of worker processes (workers.id)
          NoWorker,    \* a NULL assigned_worker_id
          Clients,     \* concurrent requests of the web process
          NameOf,      \* (name, node) of each worker start
          Mortal,      \* the worker starts that may crash
          CanRun,      \* jobs whose required_capability the worker has
          Priority,    \* jobs.priority
          RetryCap,    \* the largest max_retry the parameter models accept
          MaxRetry,    \* jobs.max_retry
          MaxFaults    \* bound: store calls that raise a database error

Jobs     == 1 .. NumJobs
Attempts == 1 .. RetryCap + 1

ASSUME TaskAssumption ==
    /\ NumJobs \in Nat \ {0}
    /\ NoWorker \notin Workers
    /\ Mortal \subseteq Workers
    /\ CanRun \in [Workers -> SUBSET Jobs]
    /\ Priority \in [Jobs -> Nat]
    /\ RetryCap \in Nat
    /\ MaxRetry \in [Jobs -> 0 .. RetryCap]
    /\ MaxFaults \in Nat

VARIABLES
    status, attempt, retry,  \* columns of metadata.jobs
    owner,                   \* jobs.assigned_worker_id
    cancelReq,               \* jobs.cancel_requested
    record,                  \* job_attempts: exit_code recorded per attempt
    proc,                    \* the child process of each attempt
    wpc,                     \* main thread of each worker start
    rpc,                     \* its executor thread (and the claim it runs)
    snap,                    \* the job dict that thread works on
    drainSeen,               \* status read by _request_running_cancellation
    api,                     \* manager call in flight per client
    faults                   \* database errors so far

jobVars    == <<status, attempt, retry, owner, cancelReq>>
workerVars == <<wpc, rpc, snap, drainSeen>>
vars == <<jobVars, record, proc, workerVars, api, faults>>

Lifecycle == INSTANCE JobLifecycle

Active   == Lifecycle!Active
Waiting  == Lifecycle!Waiting
Terminal == Lifecycle!Terminal
Status   == Lifecycle!Status

-----------------------------------------------------------------------------
(* The store.  A call may raise a database error (bounded by MaxFaults).   *)

\* A single transaction that succeeds, or raises without having committed.
Returns(ok) == IF ok THEN UNCHANGED faults
                     ELSE faults < MaxFaults /\ faults' = faults + 1

\* update_status commits its compare-and-swap and then reads the row back in
\* a second transaction: an error there is raised after the commit.
Outcomes     == {"ok", "readback", "refused", "error"}
Commits(out) == out \in {"ok", "readback"}

\* Mutant: the status is set whatever it was read as.
UpdateStatusBlindly(j, from, to, out) ==
    /\ status' = IF Commits(out) THEN [status EXCEPT ![j] = to] ELSE status
    /\ out # "refused"
    /\ Returns(out = "ok")

UpdateStatus(j, from, to, out) ==
    /\ status' = IF Commits(out) THEN [status EXCEPT ![j] = to] ELSE status
    /\ Commits(out) => status[j] = from
    /\ out = "refused" => status[j] # from
    /\ Returns(out \in {"ok", "refused"})

\* claim_next: highest priority first, then oldest, among the QUEUED jobs the
\* worker is capable of.
NextInQueue(w, j) ==
    LET queued == {i \in CanRun[w] : status[i] = "QUEUED"}
    IN  /\ j \in queued
        /\ \A i \in queued : \/ Priority[i] < Priority[j]
                             \/ Priority[i] = Priority[j] /\ i >= j

\* mark_stale.  The generated WHERE clause is "active AND mine AND stale OR
\* assigned to a namesake": the last disjunct is not guarded by the others.
\* Heartbeats are abstracted to the set of jobs whose heartbeat is NULL or
\* too old.
MarkStale(w, namesakes, stale) ==
    status' = [j \in Jobs |->
                 IF \/ status[j] \in Active /\ owner[j] = w /\ j \in stale
                    \/ owner[j] \in namesakes
                 THEN "INTERRUPTED" ELSE status[j]]

-----------------------------------------------------------------------------
(* TaskManager in the web process: read the row, then compare-and-swap.    *)

Idle == [op |-> "idle", job |-> 1, seen |-> "PENDING"]

ApiOps == {"submit", "cancel", "pause", "resume"}

Init ==
    /\ status = [j \in Jobs |-> "none"]
    /\ attempt = [j \in Jobs |-> 0]
    /\ retry = [j \in Jobs |-> 0]
    /\ owner = [j \in Jobs |-> NoWorker]
    /\ cancelReq = [j \in Jobs |-> FALSE]
    /\ record = [j \in Jobs |-> [a \in Attempts |-> "none"]]
    /\ proc = [j \in Jobs |-> [a \in Attempts |-> "none"]]
    /\ wpc = [w \in Workers |-> "off"]
    /\ rpc = [w \in Workers |-> "idle"]
    /\ snap = [w \in Workers |-> [job |-> 1, attempt |-> 0, retry |-> 0,
                                  cancel |-> FALSE, seen |-> "PENDING"]]
    /\ drainSeen = [w \in Workers |-> "PENDING"]
    /\ api = [c \in Clients |-> Idle]
    /\ faults = 0

\* submit, first transaction: the row is inserted as PENDING.
SubmitCreate(c, j) ==
    /\ api[c].op = "idle"
    /\ status[j] = "none"
    /\ \A i \in Jobs : i < j => status[i] # "none"
    /\ status' = [status EXCEPT ![j] = "PENDING"]
    /\ api' = [api EXCEPT ![c] = [op |-> "submit", job |-> j, seen |-> "PENDING"]]
    /\ UNCHANGED <<attempt, retry, owner, cancelReq, record, proc, workerVars, faults>>

\* Mutant: a failed job may still be cancelled.
AcceptsFailed(op) == CASE op = "cancel" -> Active \cup Waiting \cup {"FAILED"}
                       [] op = "pause"  -> {"QUEUED"}
                       [] op = "resume" -> {"PAUSED"}

Accepts(op) == CASE op = "cancel" -> Active \cup Waiting
                 [] op = "pause"  -> {"QUEUED"}
                 [] op = "resume" -> {"PAUSED"}

\* cancel, pause, resume: the status is read and tested; a status the call
\* does not accept ends it with a ValueError, changing nothing.
ApiRead(c, op, j) ==
    /\ api[c].op = "idle"
    /\ status[j] \in Accepts(op)
    /\ api' = [api EXCEPT ![c] = [op |-> op, job |-> j, seen |-> status[j]]]
    /\ UNCHANGED <<jobVars, record, proc, workerVars, faults>>

Target(call) ==
    CASE call.op = "submit" -> "QUEUED"
      [] call.op = "pause"  -> "PAUSED"
      [] call.op = "resume" -> "QUEUED"
      [] call.op = "cancel" -> IF call.seen \in Active THEN call.seen ELSE "CANCELLED"

\* ... and the second transaction swaps the status that was read; cancelling
\* an active job keeps the status and raises cancel_requested.
ApiCommit(c) ==
    LET call == api[c] IN
    /\ call.op # "idle"
    /\ \E out \in Outcomes :
          /\ UpdateStatus(call.job, call.seen, Target(call), out)
          /\ cancelReq' = IF Commits(out) /\ call.op = "cancel" /\ call.seen \in Active
                          THEN [cancelReq EXCEPT ![call.job] = TRUE] ELSE cancelReq
    /\ api' = [api EXCEPT ![c] = Idle]
    /\ UNCHANGED <<attempt, retry, owner, record, proc, workerVars>>

\* The web process dies between the two transactions of a call.
ApiCrash(c) ==
    /\ api[c].op # "idle"
    /\ Returns(FALSE)
    /\ api' = [api EXCEPT ![c] = Idle]
    /\ UNCHANGED <<jobVars, record, proc, workerVars>>

\* TaskManager.recover: mark_stale without a name.
ManagerRecover(w) ==
    /\ wpc[w] # "off"
    /\ \E stale \in SUBSET Jobs : MarkStale(w, {}, stale)
    /\ UNCHANGED <<attempt, retry, owner, cancelReq, record, proc, workerVars, api, faults>>

Api == \/ \E c \in Clients :
             \/ \E j \in Jobs :
                   \/ SubmitCreate(c, j)
                   \/ \E op \in ApiOps \ {"submit"} : ApiRead(c, op, j)
             \/ ApiCommit(c)
             \/ ApiCrash(c)
       \/ \E w \in Workers : ManagerRecover(w)

-----------------------------------------------------------------------------
(* WorkerService: the main thread of one start.                            *)

\* The runner thread (or the main thread, for a claim) moves to pc.
GoTo(w, pc) == rpc' = [rpc EXCEPT ![w] = pc]
Main(w, pc) == wpc' = [wpc EXCEPT ![w] = pc]

Register(w) ==
    /\ wpc[w] = "off"
    /\ Main(w, "registered")
    /\ UNCHANGED <<jobVars, record, proc, rpc, snap, drainSeen, api, faults>>

Namesakes(w) == {v \in Workers : wpc[v] # "off" /\ NameOf[v] = NameOf[w]}

\* The id is new, so only the namesake disjunct of mark_stale can match.
Recover(w) ==
    /\ wpc[w] = "registered"
    /\ \E stale \in SUBSET Jobs : MarkStale(w, Namesakes(w), stale)
    /\ Main(w, "polling")
    /\ UNCHANGED <<attempt, retry, owner, cancelReq, record, proc, rpc, snap,
                   drainSeen, api, faults>>

\* claim_next, first transaction: the UPDATE that hands the job out.
Claim(w) ==
    /\ wpc[w] = "polling" /\ rpc[w] = "idle"
    /\ \E j \in Jobs :
          /\ NextInQueue(w, j)
          /\ status' = [status EXCEPT ![j] = "ASSIGNED"]
          /\ owner' = [owner EXCEPT ![j] = w]
          /\ attempt' = [attempt EXCEPT ![j] = @ + 1]
          /\ snap' = [snap EXCEPT ![w].job = j]
    /\ GoTo(w, "claimed")
    /\ UNCHANGED <<retry, cancelReq, record, proc, wpc, drainSeen, api, faults>>

\* claim_next, second transaction: the row the runner will work on is read.
\* If that raises, the claim is forgotten and the worker only reports ERROR.
ClaimRead(w) ==
    /\ rpc[w] = "claimed"
    /\ \/ /\ Returns(TRUE)
          /\ snap' = [snap EXCEPT ![w].attempt = attempt[snap[w].job],
                                  ![w].cancel = cancelReq[snap[w].job]]
          /\ GoTo(w, "start")
       \/ /\ Returns(FALSE)
          /\ GoTo(w, "touch")
          /\ UNCHANGED snap
    /\ UNCHANGED <<jobVars, record, proc, wpc, drainSeen, api>>

\* The claim itself raises and commits nothing.
ClaimFails(w) ==
    /\ wpc[w] = "polling" /\ rpc[w] = "idle"
    /\ Returns(FALSE)
    /\ GoTo(w, "touch")
    /\ UNCHANGED <<jobVars, record, proc, wpc, snap, drainSeen, api>>

\* touch_worker_status(ERROR); an error there leaves the polling loop.
TouchError(w) ==
    /\ rpc[w] = "touch"
    /\ \E ok \in BOOLEAN :
          /\ Returns(ok)
          /\ IF ok THEN UNCHANGED wpc ELSE Main(w, "waiting")
    /\ GoTo(w, "idle")
    /\ UNCHANGED <<jobVars, record, proc, snap, drainSeen, api>>

\* SIGINT, SIGTERM or stop(): the loop ends, a running job is to be cancelled.
Stop(w) ==
    /\ wpc[w] = "polling" /\ rpc[w] \notin {"claimed", "touch"}
    /\ Main(w, IF rpc[w] = "idle" THEN "waiting" ELSE "draining")
    /\ UNCHANGED <<jobVars, record, proc, rpc, snap, drainSeen, api, faults>>

\* _request_running_cancellation: read the status of the job this worker was
\* running when it stopped ...
DrainRead(w) ==
    /\ wpc[w] = "draining"
    /\ \E ok \in BOOLEAN :
          /\ Returns(ok)
          /\ LET seen == status[snap[w].job] IN
             IF ok /\ seen \in Active
             THEN drainSeen' = [drainSeen EXCEPT ![w] = seen] /\ Main(w, "requesting")
             ELSE UNCHANGED drainSeen /\ Main(w, "waiting")
    /\ UNCHANGED <<jobVars, record, proc, rpc, snap, api>>

\* ... and raise cancel_requested if that status still stands.  A refusal is
\* logged and forgotten.
DrainCommit(w) ==
    LET j == snap[w].job IN
    /\ wpc[w] = "requesting"
    /\ \E out \in Outcomes :
          /\ UpdateStatus(j, drainSeen[w], drainSeen[w], out)
          /\ cancelReq' = IF Commits(out) THEN [cancelReq EXCEPT ![j] = TRUE] ELSE cancelReq
    /\ drainSeen' = [drainSeen EXCEPT ![w] = "PENDING"]
    /\ Main(w, "waiting")
    /\ UNCHANGED <<attempt, retry, owner, record, proc, rpc, snap, api>>

\* executor.shutdown(wait=True) returns, the workers row becomes OFFLINE.
Offline(w) ==
    /\ wpc[w] = "waiting" /\ rpc[w] = "idle"
    /\ Main(w, "gone")
    /\ UNCHANGED <<jobVars, record, proc, rpc, snap, drainSeen, api, faults>>

\* The worker process dies; the child it started lives on.
Crash(w) ==
    /\ w \in Mortal
    /\ wpc[w] \notin {"off", "gone"}
    /\ Main(w, "gone")
    /\ GoTo(w, "idle")
    /\ UNCHANGED <<jobVars, record, proc, snap, drainSeen, api, faults>>

MainThread(w) == \/ Recover(w) \/ Claim(w) \/ ClaimRead(w) \/ ClaimFails(w)
                 \/ TouchError(w) \/ DrainRead(w) \/ DrainCommit(w) \/ Offline(w)

-----------------------------------------------------------------------------
(* TaskRunner.run in the executor thread, and _run_job around it.          *)

Child(w) == proc[snap[w].job][snap[w].attempt]
SetChild(w, p) == proc' = [proc EXCEPT ![snap[w].job][snap[w].attempt] = p]
SetRecord(w, r) == record' = [record EXCEPT ![snap[w].job][snap[w].attempt] = r]

Exited == {"exit0", "exitN"}

\* proc.terminate(): no effect on a child that has already exited.
Terminate(w) == IF Child(w) = "alive" THEN SetChild(w, "termed") ELSE UNCHANGED proc

\* Mutant: the runner does not look at the cancellation it was handed.
NeverRefusesStart(w) == FALSE

\* The cancellation was in the row the claim returned.
RefusesStart(w) == snap[w].cancel

\* Mutant: the cancelled job is dropped in the status it has.
RunCancelledSilently(w) ==
    /\ rpc[w] = "start" /\ RefusesStart(w)
    /\ GoTo(w, "idle")
    /\ UNCHANGED <<jobVars, record, proc, wpc, snap, drainSeen, api, faults>>

\* A job cancelled before its start is settled without starting anything.
RunCancelled(w) ==
    /\ rpc[w] = "start" /\ RefusesStart(w)
    /\ \E out \in Outcomes : UpdateStatus(snap[w].job, "ASSIGNED", "CANCELLED", out)
    /\ GoTo(w, "idle")
    /\ UNCHANGED <<attempt, retry, owner, cancelReq, record, proc, wpc, snap, drainSeen, api>>

\* create_attempt; the argument vector may also fail to build, and then the
\* attempt is created only to be failed (_fail_start).
CreateAttempt(w) ==
    /\ rpc[w] = "start" /\ ~RefusesStart(w)
    /\ \/ /\ Returns(TRUE)
          /\ SetRecord(w, "open")
          /\ \E pc \in {"popen", "failing"} : GoTo(w, pc)
       \/ /\ Returns(FALSE)
          /\ GoTo(w, "fallback")
          /\ UNCHANGED record
    /\ UNCHANGED <<jobVars, proc, wpc, snap, drainSeen, api>>

Popen(w) ==
    /\ rpc[w] = "popen"
    /\ \/ SetChild(w, "alive") /\ GoTo(w, "launched")
       \/ UNCHANGED proc /\ GoTo(w, "failing")
    /\ UNCHANGED <<jobVars, record, wpc, snap, drainSeen, api, faults>>

\* _fail_start: the attempt gets exit_code -1 ...
FailAttempt(w) ==
    /\ rpc[w] = "failing"
    /\ \/ Returns(TRUE) /\ SetRecord(w, "exitN") /\ GoTo(w, "failed")
       \/ Returns(FALSE) /\ UNCHANGED record /\ GoTo(w, "fallback")
    /\ UNCHANGED <<jobVars, proc, wpc, snap, drainSeen, api>>

\* ... and the job fails without a retry.
FailStart(w) ==
    /\ rpc[w] = "failed"
    /\ \E out \in Outcomes : UpdateStatus(snap[w].job, "ASSIGNED", "FAILED", out)
    /\ GoTo(w, "idle")
    /\ UNCHANGED <<attempt, retry, owner, cancelReq, record, proc, wpc, snap, drainSeen, api>>

\* ASSIGNED -> RUNNING.  If the call raises, the child is terminated and the
\* runner is done with the job.
MarkRunning(w) ==
    /\ rpc[w] = "launched"
    /\ \E out \in Outcomes :
          /\ UpdateStatus(snap[w].job, "ASSIGNED", "RUNNING", out)
          /\ IF out = "ok" THEN UNCHANGED proc /\ GoTo(w, "pid")
                           ELSE Terminate(w) /\ GoTo(w, "idle")
    /\ UNCHANGED <<attempt, retry, owner, cancelReq, record, wpc, snap, drainSeen, api>>

\* The pid goes into the attempt; same exception handler.
RecordPid(w) ==
    /\ rpc[w] = "pid"
    /\ \/ Returns(TRUE) /\ UNCHANGED proc /\ GoTo(w, "monitor")
       \/ Returns(FALSE) /\ Terminate(w) /\ GoTo(w, "idle")
    /\ UNCHANGED <<jobVars, record, wpc, snap, drainSeen, api>>

\* One turn of _monitor reads the row and finds cancel_requested.  The child
\* may have exited since the turn began.
PollCancel(w) ==
    /\ rpc[w] = "monitor" /\ ~snap[w].cancel
    /\ cancelReq[snap[w].job]
    /\ snap' = [snap EXCEPT ![w].cancel = TRUE]
    /\ Terminate(w)
    /\ UNCHANGED <<jobVars, record, wpc, rpc, drainSeen, api, faults>>

\* Mutant: no escalation to SIGKILL.
NeverKill(w) == FALSE /\ UNCHANGED vars

\* The grace period of a terminated child is over.
Kill(w) ==
    /\ rpc[w] = "monitor" /\ snap[w].cancel
    /\ Child(w) = "termed"
    /\ SetChild(w, "killed")
    /\ UNCHANGED <<jobVars, record, workerVars, api, faults>>

MonitorEnds(w) ==
    /\ rpc[w] = "monitor"
    /\ Child(w) \in Exited
    /\ GoTo(w, "exited")
    /\ UNCHANGED <<jobVars, record, proc, wpc, snap, drainSeen, api, faults>>

\* Mutant: a failed write of the attempt is ignored.
FinishAttemptLoosely(w) ==
    /\ rpc[w] = "exited"
    /\ \E ok \in BOOLEAN :
          /\ Returns(ok)
          /\ IF ok THEN SetRecord(w, Child(w)) ELSE UNCHANGED record
    /\ GoTo(w, "finished")
    /\ UNCHANGED <<jobVars, proc, wpc, snap, drainSeen, api>>

\* _finalize: the exit code goes into the attempt ...
FinishAttempt(w) ==
    /\ rpc[w] = "exited"
    /\ \/ Returns(TRUE) /\ SetRecord(w, Child(w)) /\ GoTo(w, "finished")
       \/ Returns(FALSE) /\ UNCHANGED record /\ GoTo(w, "fallback")
    /\ UNCHANGED <<jobVars, proc, wpc, snap, drainSeen, api>>

\* ... the row is read for its retry counters ...
FinalRead(w) ==
    /\ rpc[w] = "finished"
    /\ \/ /\ Returns(TRUE)
          /\ snap' = [snap EXCEPT ![w].retry = retry[snap[w].job]]
          /\ GoTo(w, "settling")
       \/ Returns(FALSE) /\ UNCHANGED snap /\ GoTo(w, "fallback")
    /\ UNCHANGED <<jobVars, record, proc, wpc, drainSeen, api>>

\* Mutant: the exit code takes the place of the status.
VerdictIsCode(w) == IF snap[w].cancel THEN "CANCELLED" ELSE Child(w)

\* The status a job settles in.
Verdict(w) == IF snap[w].cancel THEN "CANCELLED"
              ELSE IF Child(w) = "exit0" THEN "SUCCESS" ELSE "FAILED"

\* Mutant: one retry too many.
RetryableOffByOne(w) == Verdict(w) = "FAILED" /\ snap[w].retry <= MaxRetry[snap[w].job]

Retryable(w) == Verdict(w) = "FAILED" /\ snap[w].retry < MaxRetry[snap[w].job]

\* ... and the job settles; exceptions are logged.
Settle(w) ==
    /\ rpc[w] = "settling"
    /\ \E out \in Outcomes :
          /\ UpdateStatus(snap[w].job, "RUNNING", Verdict(w), out)
          /\ GoTo(w, IF out = "ok" /\ Retryable(w) THEN "retrying" ELSE "idle")
    /\ UNCHANGED <<attempt, retry, owner, cancelReq, record, proc, wpc, snap, drainSeen, api>>

\* The second transaction of a retry: FAILED -> QUEUED.
Requeue(w) ==
    LET j == snap[w].job IN
    /\ rpc[w] = "retrying"
    /\ \E out \in Outcomes :
          /\ UpdateStatus(j, "FAILED", "QUEUED", out)
          /\ retry' = IF Commits(out) THEN [retry EXCEPT ![j] = @ + 1] ELSE retry
    /\ GoTo(w, "idle")
    /\ UNCHANGED <<attempt, owner, cancelReq, record, proc, wpc, snap, drainSeen, api>>

\* Mutant: an exception before the job was RUNNING is taken to be settled.
FallbackReadRunning(w) ==
    LET seen == status[snap[w].job] IN
    /\ rpc[w] = "fallback"
    /\ \E ok \in BOOLEAN :
          /\ Returns(ok)
          /\ IF ok /\ seen = "RUNNING"
             THEN snap' = [snap EXCEPT ![w].seen = seen] /\ GoTo(w, "giveup")
             ELSE UNCHANGED snap /\ GoTo(w, "idle")
    /\ UNCHANGED <<jobVars, record, proc, wpc, drainSeen, api>>

\* _run_job caught an exception of run(): the status is read ...
FallbackRead(w) ==
    LET seen == status[snap[w].job] IN
    /\ rpc[w] = "fallback"
    /\ \E ok \in BOOLEAN :
          /\ Returns(ok)
          /\ IF ok /\ seen \in Active
             THEN snap' = [snap EXCEPT ![w].seen = seen] /\ GoTo(w, "giveup")
             ELSE UNCHANGED snap /\ GoTo(w, "idle")
    /\ UNCHANGED <<jobVars, record, proc, wpc, drainSeen, api>>

\* ... and an active job fails.
FallbackFail(w) ==
    /\ rpc[w] = "giveup"
    /\ \E out \in Outcomes : UpdateStatus(snap[w].job, snap[w].seen, "FAILED", out)
    /\ GoTo(w, "idle")
    /\ UNCHANGED <<attempt, retry, owner, cancelReq, record, proc, wpc, snap, drainSeen, api>>

Runner(w) == \/ RunCancelled(w) \/ CreateAttempt(w) \/ Popen(w) \/ FailAttempt(w)
             \/ FailStart(w) \/ MarkRunning(w) \/ RecordPid(w) \/ PollCancel(w)
             \/ Kill(w) \/ MonitorEnds(w) \/ FinishAttempt(w) \/ FinalRead(w)
             \/ Settle(w) \/ Requeue(w) \/ FallbackRead(w) \/ FallbackFail(w)

\* A child exits by itself, with either code; a killed one cannot report 0.
ChildExit(j, a) ==
    /\ \E code \in Exited :
          /\ \/ proc[j][a] \in {"alive", "termed"}
             \/ proc[j][a] = "killed" /\ code = "exitN"
          /\ proc' = [proc EXCEPT ![j][a] = code]
    /\ UNCHANGED <<jobVars, record, workerVars, api, faults>>

-----------------------------------------------------------------------------
Next == \/ Api
        \/ \E w \in Workers : \/ Register(w) \/ Stop(w) \/ Crash(w)
                               \/ MainThread(w) \/ Runner(w)
        \/ \E j \in Jobs, a \in Attempts : ChildExit(j, a)

Spec == Init /\ [][Next]_vars

\* Threads that can run do run, and a killed child dies.  Nothing obliges an
\* operator to stop a worker, or a child to exit by itself.
Fairness == /\ \A w \in Workers : WF_vars(MainThread(w)) /\ WF_vars(Runner(w))
            /\ \A j \in Jobs, a \in Attempts :
                  WF_vars(proc[j][a] = "killed" /\ ChildExit(j, a))

FairSpec == Spec /\ Fairness

-----------------------------------------------------------------------------
(* Properties.                                                             *)

Snapshot == [job : Jobs, attempt : Nat, retry : Nat, cancel : BOOLEAN, seen : Status]
Call     == [op : ApiOps \cup {"idle"}, job : Jobs, seen : Status]

MainPC   == {"off", "registered", "polling", "draining", "requesting", "waiting", "gone"}
RunnerPC == {"idle", "claimed", "touch", "start", "popen", "failing", "failed",
             "launched", "pid", "monitor", "exited", "finished", "settling",
             "retrying", "fallback", "giveup"}

\* Every table, thread and call in flight keeps to its type.
TypeOK ==
    /\ status \in [Jobs -> Status \cup {"none"}]
    /\ attempt \in [Jobs -> Nat] /\ retry \in [Jobs -> Nat]
    /\ owner \in [Jobs -> Workers \cup {NoWorker}]
    /\ cancelReq \in [Jobs -> BOOLEAN]
    /\ record \in [Jobs -> [Attempts -> {"none", "open"} \cup Exited]]
    /\ proc \in [Jobs -> [Attempts -> {"none", "alive", "termed", "killed"} \cup Exited]]
    /\ wpc \in [Workers -> MainPC]
    /\ rpc \in [Workers -> RunnerPC]
    /\ snap \in [Workers -> Snapshot]
    /\ drainSeen \in [Workers -> Status]
    /\ api \in [Clients -> Call]
    /\ faults \in 0 .. MaxFaults

\* The runner of w is on job j.
Runs(w, j) == rpc[w] \notin {"idle", "touch"} /\ snap[w].job = j

\* No two workers ever work on the same job, retries, pauses, cancellations,
\* restarts and database errors included ("多 Worker 不重复领取", claim_next).
OneRunnerPerJob ==
    \A j \in Jobs : \A v, w \in Workers : Runs(v, j) /\ Runs(w, j) => v = w

Living == {"alive", "termed", "killed"}

\* A retry never overlaps the child process of an earlier attempt, not even
\* one that was only asked to terminate or that a crashed worker left behind.
OneChildPerJob ==
    \A j \in Jobs : \A a, b \in Attempts :
        proc[j][a] \in Living /\ proc[j][b] \in Living => a = b

\* Attempts and retries count the same thing: a job waiting in the queue has
\* spent one attempt per retry, an active one is in the attempt after those,
\* and there are at most max_retry retries, whoever wins the races.
AttemptAccounting ==
    \A j \in Jobs :
        /\ retry[j] <= MaxRetry[j]
        /\ attempt[j] \in retry[j] .. retry[j] + 1
        /\ status[j] \in Waiting \cup {"none"} => attempt[j] = retry[j]
        /\ status[j] \in Active => attempt[j] = retry[j] + 1

\* SUCCESS is only ever claimed of a job whose current attempt has been
\* recorded in job_attempts with exit code 0 (_finalize).
SuccessIsRecorded ==
    \A j \in Jobs : status[j] = "SUCCESS" =>
        attempt[j] \in Attempts /\ record[j][attempt[j]] = "exit0"

\* An active row that nobody works on, though the process it is assigned to is
\* alive: it stays as it is until a restart of that worker sweeps it.
Stranded(j) == status[j] \in Active /\ wpc[owner[j]] # "gone" /\ ~Runs(owner[j], j)

\* Until a call of the store raises, a job whose row says ASSIGNED or RUNNING
\* is in the hands of a runner of its worker, or that process is gone.
ActiveHasRunner ==
    faults = 0 => \A j \in Jobs : status[j] \in Active =>
                      owner[j] \in Workers /\ ~Stranded(j)

\* A worker that waits for its runner has told it to stop
\* (_request_running_cancellation: "Tell task runners to stop before waiting
\* for their child processes").
DrainIsCancelled ==
    \A w \in Workers : wpc[w] = "waiting" /\ rpc[w] \in {"launched", "pid", "monitor"}
                        /\ status[snap[w].job] \in Active
                        => cancelReq[snap[w].job]

\* A row is stranded only by the very step whose store call raises: an error
\* that came earlier, in any transaction of TaskRunner.run that lets it
\* through, has been made good by the fallback of _run_job ("no job stays in
\* RUNNING or ASSIGNED"), whatever sweeps, cancellations and crashes came first.
OnlyErrorsStrand ==
    [][\A j \in Jobs : Stranded(j)' /\ ~Stranded(j) => faults' > faults]_vars

\* Every status change but those to INTERRUPTED is an edge of the table of
\* state_machine.py, or the retry exception.
LegalTransitions ==
    [][\A j \in Jobs : status'[j] # status[j] =>
          \/ status[j] = "none" /\ status'[j] = "PENDING"
          \/ Lifecycle!CanTransition(status[j], status'[j])
          \/ status[j] = "FAILED" /\ status'[j] = "QUEUED" /\ retry'[j] > retry[j]
          \/ status'[j] = "INTERRUPTED"]_vars

\* Terminal states have no outgoing edge but the retry exception
\* (state_machine.py, rule 1).
TerminalIsFinal ==
    [][\A j \in Jobs : status[j] \in Terminal /\ status'[j] # status[j] =>
          status[j] = "FAILED" /\ status'[j] = "QUEUED"]_vars

\* A job that is back in the queue with its cancellation requested (the
\* request lost the race against a failing attempt) never starts a child again.
CancelledNeverRestarts ==
    \A j \in Jobs, a \in Attempts :
        [](cancelReq[j] /\ status[j] = "QUEUED" /\ attempt[j] = a - 1
              => [](proc[j][a] = "none"))

\* A cancellation accepted for an active job ends the attempt: the runner sees
\* it and escalates from SIGTERM to SIGKILL.  Only the death of the worker
\* process, or an error that strands the row, leaves the job active.
CancelTakesEffect ==
    \A j \in Jobs : (cancelReq[j] /\ status[j] \in Active)
                        ~> \/ status[j] \notin Active
                           \/ wpc[owner[j]] = "gone"
                           \/ faults > 0 /\ Stranded(j)

\* The platform keeps the promises of JobLifecycle.
ImplementsLifecycle == Lifecycle!LifecycleSpec

=============================================================================
