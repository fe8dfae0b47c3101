---------------------------- MODULE JobLifecycle ----------------------------
(***************************************************************************)
(* What the task platform promises about one row of metadata.jobs, whoever *)
(* moves it: the transition table of app/task/state_machine.py, the retry  *)
(* exception with its bound, and the numbering of attempts.  The table is  *)
(* never consulted by the store at run time (a status change is a compare  *)
(* and swap), so that the platform follows it is a theorem about the       *)
(* callers; module TaskSystem is that platform.                            *)
(*                                                                         *)
(* One promise is weaker than the table: the restart recovery of a worker  *)
(* may interrupt any job that was ever claimed, whatever its status.       *)
(***************************************************************************)
EXTENDS Naturals

CONSTANTS Jobs,      \* the jobs that may be submitted
          MaxRetry   \* max_retry of each job

VARIABLES status,    \* jobs.status, "none" before the row exists
          attempt,   \* jobs.attempt_no
          retry      \* jobs.retry_count

lifecycleVars == <<status, attempt, retry>>

Terminal == {"SUCCESS", "FAILED", "CANCELLED", "INTERRUPTED"}
Active   == {"ASSIGNED", "RUNNING"}
Waiting  == {"PENDING", "QUEUED", "PAUSED"}
Status   == Waiting \cup Active \cup Terminal

Allowed ==
    [PENDING  |-> {"QUEUED", "CANCELLED", "INTERRUPTED"},
     QUEUED   |-> {"ASSIGNED", "CANCELLED", "PAUSED", "FAILED", "INTERRUPTED"},
     PAUSED   |-> {"QUEUED", "CANCELLED", "INTERRUPTED"},
     ASSIGNED |-> {"RUNNING", "FAILED", "CANCELLED", "INTERRUPTED"},
     RUNNING  |-> {"SUCCESS", "FAILED", "CANCELLED", "INTERRUPTED"}]

CanTransition(from, to) == from \in DOMAIN Allowed /\ to \in Allowed[from]

-----------------------------------------------------------------------------
LifecycleInit ==
    /\ status = [j \in Jobs |-> "none"]
    /\ attempt = [j \in Jobs |-> 0]
    /\ retry = [j \in Jobs |-> 0]

Create(j) ==
    /\ status[j] = "none"
    /\ status' = [status EXCEPT ![j] = "PENDING"]
    /\ UNCHANGED <<attempt, retry>>

\* Any transition of the table but a claim.
Move(j) ==
    /\ \E to \in Status \ {"ASSIGNED"} :
          /\ CanTransition(status[j], to)
          /\ status' = [status EXCEPT ![j] = to]
    /\ UNCHANGED <<attempt, retry>>

\* A claim opens the next attempt; a job runs once plus once per retry.
Claim(j) ==
    /\ status[j] = "QUEUED"
    /\ attempt[j] = retry[j]
    /\ status' = [status EXCEPT ![j] = "ASSIGNED"]
    /\ attempt' = [attempt EXCEPT ![j] = @ + 1]
    /\ UNCHANGED retry

\* The retry exception: the one edge that leaves a terminal state.
Retry(j) ==
    /\ status[j] = "FAILED"
    /\ retry[j] < MaxRetry[j]
    /\ retry' = [retry EXCEPT ![j] = @ + 1]
    /\ attempt[j] = retry'[j]
    /\ status' = [status EXCEPT ![j] = "QUEUED"]
    /\ UNCHANGED attempt

\* Restart recovery: any set of jobs that have been claimed at least once.
Sweep ==
    /\ \E S \in SUBSET {j \in Jobs : attempt[j] > 0} :
          status' = [j \in Jobs |-> IF j \in S THEN "INTERRUPTED" ELSE status[j]]
    /\ UNCHANGED <<attempt, retry>>

LifecycleNext ==
    \/ \E j \in Jobs : Create(j) \/ Move(j) \/ Claim(j) \/ Retry(j)
    \/ Sweep

LifecycleSpec == LifecycleInit /\ [][LifecycleNext]_lifecycleVars
=============================================================================
