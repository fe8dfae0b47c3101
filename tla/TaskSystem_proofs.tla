------------------------- MODULE TaskSystem_proofs -------------------------
(***************************************************************************)
(* Proofs about TaskSystem, for any number of jobs, workers and clients,   *)
(* any names, priorities and retry limits, and any number of database      *)
(* errors: the inductive invariant, the safety invariants it implies, the  *)
(* legality of every status change, that TaskSystem implements             *)
(* JobLifecycle, that an active row has a runner and a runner settles its  *)
(* row as long as the database does not fail, and that a job whose runner  *)
(* saw the cancel request never comes back.                                *)
(***************************************************************************)
EXTENDS TaskSystem, TLAPS

-----------------------------------------------------------------------------
(* The inductive invariant.                                                *)

\* What the columns of one row have to do with each other.
JobOK(j) ==
    /\ retry[j] <= MaxRetry[j]
    /\ attempt[j] = retry[j] \/ attempt[j] = retry[j] + 1
    /\ status[j] \in Waiting \cup {"none"} => attempt[j] = retry[j]
    /\ status[j] \in Active => attempt[j] = retry[j] + 1 /\ owner[j] \in Workers
    /\ owner[j] \in Workers => attempt[j] > 0
    /\ status[j] = "SUCCESS" => attempt[j] > 0 /\ record[j][attempt[j]] = "exit0"

\* A living child belongs to the current attempt of a job that was started.
ChildOK(j) ==
    \A a \in Attempts : proc[j][a] \in Living =>
        a = attempt[j] /\ status[j] \notin Waiting \cup {"none"}

Busy(w) == rpc[w] \notin {"idle", "touch"}

\* A runner owns its job: nobody can put the job back in the queue before
\* this runner does, so the attempt it was handed is still the current one.
RunnerOK(w) ==
    Busy(w) =>
        /\ owner[snap[w].job] = w
        /\ status[snap[w].job] \in Active \cup {"FAILED", "CANCELLED", "INTERRUPTED"}
        /\ attempt[snap[w].job] = retry[snap[w].job] + 1
        /\ rpc[w] # "claimed" => snap[w].attempt = attempt[snap[w].job]
        /\ rpc[w] \in {"settling", "retrying"} => snap[w].retry = retry[snap[w].job]
        /\ rpc[w] = "retrying" => snap[w].retry < MaxRetry[snap[w].job]
        /\ rpc[w] = "giveup" => snap[w].seen \in Active
        /\ rpc[w] \in {"exited", "finished", "settling", "retrying"} => Child(w) \in Exited
        /\ rpc[w] \in {"finished", "settling"} =>
              record[snap[w].job][snap[w].attempt] = Child(w)

\* What the calls in flight have read.
CallOK(c) ==
    /\ api[c].op = "submit" => api[c].seen = "PENDING"
    /\ api[c].op = "pause"  => api[c].seen = "QUEUED"
    /\ api[c].op = "resume" => api[c].seen = "PAUSED"
    /\ api[c].op = "cancel" => api[c].seen \in Active \cup Waiting

DrainOK(w) == wpc[w] = "requesting" => drainSeen[w] \in Active

IInv == /\ TypeOK
        /\ \A j \in Jobs : JobOK(j) /\ ChildOK(j)
        /\ \A w \in Workers : RunnerOK(w) /\ DrainOK(w)
        /\ \A c \in Clients : CallOK(c)

-----------------------------------------------------------------------------
(* What the building blocks of the actions do to the variables.            *)

USE TaskAssumption DEF Jobs, Attempts, Status, Active, Waiting, Terminal, Lifecycle!Status,
    Lifecycle!Active, Lifecycle!Waiting, Lifecycle!Terminal

\* A store call keeps the count of database errors in bounds.
LEMMA ReturnsEffect ==
    ASSUME faults \in 0 .. MaxFaults, NEW ok \in BOOLEAN, Returns(ok)
    PROVE  faults' \in 0 .. MaxFaults
<1>1. CASE ok
  BY <1>1 DEF Returns
<1>2. CASE ~ok
  <2>1. faults < MaxFaults /\ faults' = faults + 1
    BY <1>2, Zenon DEF Returns
  <2>2. QED
    BY <2>1
<1>3. QED
  BY <1>1, <1>2

\* update_status touches the status of one row, and only from the status it
\* expects.
LEMMA UpdateStatusEffect ==
    ASSUME TypeOK, NEW j \in Jobs, NEW from, NEW to \in Status, NEW out \in Outcomes,
           UpdateStatus(j, from, to, out)
    PROVE  /\ status' \in [Jobs -> Status \cup {"none"}]
           /\ \A i \in Jobs : i # j => status'[i] = status[i]
           /\ Commits(out) => status[j] = from /\ status'[j] = to
           /\ ~Commits(out) => status' = status
           /\ faults' \in 0 .. MaxFaults
<1>1. faults' \in 0 .. MaxFaults
  <2>1. faults \in 0 .. MaxFaults /\ Returns(out \in {"ok", "refused"})
    BY DEF TypeOK, UpdateStatus
  <2>2. CASE out \in {"ok", "refused"}
    BY <2>1, <2>2 DEF Returns
  <2>3. CASE out \notin {"ok", "refused"}
    BY <2>1, <2>3 DEF Returns
  <2>4. QED
    BY <2>2, <2>3
<1>2. status \in [Jobs -> Status \cup {"none"}]
  BY DEF TypeOK
<1>3. QED
  BY <1>1, <1>2 DEF UpdateStatus, Commits, Outcomes

\* The runner (or main) thread of w moves, the others stay.
LEMMA GoToEffect ==
    ASSUME TypeOK, NEW w \in Workers, NEW pc \in RunnerPC, GoTo(w, pc)
    PROVE  /\ rpc' \in [Workers -> RunnerPC]
           /\ rpc'[w] = pc
           /\ \A v \in Workers : v # w => rpc'[v] = rpc[v]
BY DEF TypeOK, GoTo

\* The main thread of w moves, the others stay.
LEMMA MainEffect ==
    ASSUME TypeOK, NEW w \in Workers, NEW pc \in MainPC, Main(w, pc)
    PROVE  /\ wpc' \in [Workers -> MainPC]
           /\ wpc'[w] = pc
           /\ \A v \in Workers : v # w => wpc'[v] = wpc[v]
BY DEF TypeOK, Main

ChildState == {"none", "alive", "termed", "killed"} \cup Exited
RecordState == {"none", "open"} \cup Exited

\* One cell of a table of attempts is written.
LEMMA CellEffect ==
    ASSUME NEW S, NEW tab \in [Jobs -> [Attempts -> S]], NEW tab2,
           NEW j \in Jobs, NEW a \in Attempts, NEW x \in S,
           tab2 = [tab EXCEPT ![j][a] = x]
    PROVE  /\ tab2 \in [Jobs -> [Attempts -> S]]
           /\ tab2[j][a] = x
           /\ \A b \in Attempts : b # a => tab2[j][b] = tab[j][b]
           /\ \A i \in Jobs : i # j => tab2[i] = tab[i]
OBVIOUS

\* The snapshot of one runner changes, in one field.
LEMMA SnapEffect ==
    ASSUME TypeOK, NEW w \in Workers, NEW s \in Snapshot,
           snap' = [snap EXCEPT ![w] = s]
    PROVE  /\ snap' \in [Workers -> Snapshot]
           /\ snap'[w] = s
           /\ \A v \in Workers : v # w => snap'[v] = snap[v]
BY DEF TypeOK

\* The retry counter of the snapshot is read again (_finalize).
LEMMA SnapRetry ==
    ASSUME TypeOK, NEW w \in Workers, NEW n \in Nat,
           snap' = [snap EXCEPT ![w].retry = n]
    PROVE  /\ snap' \in [Workers -> Snapshot]
           /\ snap'[w] = [snap[w] EXCEPT !.retry = n]
           /\ \A v \in Workers : v # w => snap'[v] = snap[v]
<1>1. snap[w] \in Snapshot
  BY DEF TypeOK
<1>2. [snap[w] EXCEPT !.retry = n] \in Snapshot
  BY <1>1 DEF Snapshot
<1>3. snap' = [snap EXCEPT ![w] = [snap[w] EXCEPT !.retry = n]]
  OBVIOUS
<1>4. QED
  BY <1>2, <1>3, SnapEffect

\* The snapshot learns of the cancellation (_monitor).
LEMMA SnapCancel ==
    ASSUME TypeOK, NEW w \in Workers, snap' = [snap EXCEPT ![w].cancel = TRUE]
    PROVE  /\ snap' \in [Workers -> Snapshot]
           /\ snap'[w] = [snap[w] EXCEPT !.cancel = TRUE]
           /\ \A v \in Workers : v # w => snap'[v] = snap[v]
<1>1. snap[w] \in Snapshot
  BY DEF TypeOK
<1>2. [snap[w] EXCEPT !.cancel = TRUE] \in Snapshot
  BY <1>1 DEF Snapshot
<1>3. snap' = [snap EXCEPT ![w] = [snap[w] EXCEPT !.cancel = TRUE]]
  OBVIOUS
<1>4. QED
  BY <1>2, <1>3, SnapEffect

\* The snapshot keeps the status _run_job read.
LEMMA SnapSeen ==
    ASSUME TypeOK, NEW w \in Workers, NEW x \in Status,
           snap' = [snap EXCEPT ![w].seen = x]
    PROVE  /\ snap' \in [Workers -> Snapshot]
           /\ snap'[w] = [snap[w] EXCEPT !.seen = x]
           /\ \A v \in Workers : v # w => snap'[v] = snap[v]
<1>1. snap[w] \in Snapshot
  BY DEF TypeOK
<1>2. [snap[w] EXCEPT !.seen = x] \in Snapshot
  BY <1>1 DEF Snapshot
<1>3. snap' = [snap EXCEPT ![w] = [snap[w] EXCEPT !.seen = x]]
  OBVIOUS
<1>4. QED
  BY <1>2, <1>3, SnapEffect

\* A claim decides which job the snapshot is about.
LEMMA SnapJob ==
    ASSUME TypeOK, NEW w \in Workers, NEW j \in Jobs,
           snap' = [snap EXCEPT ![w].job = j]
    PROVE  /\ snap' \in [Workers -> Snapshot]
           /\ snap'[w] = [snap[w] EXCEPT !.job = j]
           /\ \A v \in Workers : v # w => snap'[v] = snap[v]
<1>1. snap[w] \in Snapshot
  BY DEF TypeOK
<1>2. [snap[w] EXCEPT !.job = j] \in Snapshot
  BY <1>1 DEF Snapshot
<1>3. snap' = [snap EXCEPT ![w] = [snap[w] EXCEPT !.job = j]]
  OBVIOUS
<1>4. QED
  BY <1>2, <1>3, SnapEffect

\* The rest of the claimed row is read into the snapshot.
LEMMA SnapRead ==
    ASSUME TypeOK, NEW w \in Workers, NEW n \in Nat, NEW x \in BOOLEAN,
           snap' = [snap EXCEPT ![w].attempt = n, ![w].cancel = x]
    PROVE  /\ snap' \in [Workers -> Snapshot]
           /\ snap'[w] = [snap[w] EXCEPT !.attempt = n, !.cancel = x]
           /\ \A v \in Workers : v # w => snap'[v] = snap[v]
<1>1. snap[w] \in Snapshot
  BY DEF TypeOK
<1>2. [snap[w] EXCEPT !.attempt = n, !.cancel = x] \in Snapshot
  BY <1>1 DEF Snapshot
<1>3. snap' = [snap EXCEPT ![w] = [snap[w] EXCEPT !.attempt = n, !.cancel = x]]
  OBVIOUS
<1>4. QED
  BY <1>2, <1>3, SnapEffect

-----------------------------------------------------------------------------
(* A runner at work.                                                       *)

\* What a runner knows of its job, and that it is alone with it.
LEMMA RunnerFacts ==
    ASSUME IInv, NEW w \in Workers, Busy(w)
    PROVE  /\ snap[w] \in Snapshot
           /\ snap[w].job \in Jobs
           /\ attempt[snap[w].job] \in Attempts
           /\ owner[snap[w].job] = w
           /\ rpc[w] # "claimed" => snap[w].attempt = attempt[snap[w].job]
           /\ \A v \in Workers : v # w /\ Busy(v) => snap[v].job # snap[w].job
<1>1. snap[w] \in Snapshot /\ snap[w].job \in Jobs
  BY DEF IInv, TypeOK, Snapshot
<1>2. /\ owner[snap[w].job] = w
      /\ rpc[w] # "claimed" => snap[w].attempt = attempt[snap[w].job]
      /\ attempt[snap[w].job] = retry[snap[w].job] + 1
  BY DEF IInv, RunnerOK
<1>3. attempt[snap[w].job] \in Attempts
  <2>1. JobOK(snap[w].job)
    BY <1>1 DEF IInv
  <2>2. /\ retry[snap[w].job] <= MaxRetry[snap[w].job]
        /\ MaxRetry[snap[w].job] \in 0 .. RetryCap
        /\ retry[snap[w].job] \in Nat
    BY <1>1, <2>1 DEF JobOK, IInv, TypeOK
  <2>3. QED
    BY <1>2, <2>2
<1>4. \A v \in Workers : v # w /\ Busy(v) => snap[v].job # snap[w].job
  BY <1>2 DEF IInv, RunnerOK
<1>5. QED
  BY <1>1, <1>2, <1>3, <1>4

\* A step that changes one row, whose only possible runner is w, preserves the
\* invariant if it does so for that row and that worker.
LEMMA OneRow ==
    ASSUME IInv, NEW w \in Workers, NEW j \in Jobs,
           \A v \in Workers : v # w /\ Busy(v) => snap[v].job # j,
           \A v \in Workers : v # w => /\ rpc'[v] = rpc[v]
                                      /\ snap'[v] = snap[v]
                                      /\ DrainOK(v)',
           \A i \in Jobs : i # j => /\ status'[i] = status[i]
                                   /\ attempt'[i] = attempt[i]
                                   /\ retry'[i] = retry[i]
                                   /\ owner'[i] = owner[i]
                                   /\ record'[i] = record[i]
                                   /\ proc'[i] = proc[i],
           api' = api,
           TypeOK', JobOK(j)', ChildOK(j)', RunnerOK(w)', DrainOK(w)'
    PROVE  IInv'
<1>1. ASSUME NEW i \in Jobs PROVE JobOK(i)'
  <2>1. CASE i = j
    BY <2>1
  <2>2. CASE i # j
    <3>1. JobOK(i)
      BY DEF IInv
    <3>2. QED
      BY <2>2, <3>1 DEF JobOK
  <2>3. QED
    BY <2>1, <2>2
<1>2. ASSUME NEW i \in Jobs PROVE ChildOK(i)'
  <2>1. CASE i = j
    BY <2>1
  <2>2. CASE i # j
    <3>1. ChildOK(i)
      BY DEF IInv
    <3>2. QED
      BY <2>2, <3>1 DEF ChildOK
  <2>3. QED
    BY <2>1, <2>2
<1>3. ASSUME NEW v \in Workers PROVE RunnerOK(v)'
  <2>1. CASE v = w
    BY <2>1
  <2>2. CASE v # w
    <3>1. rpc'[v] = rpc[v] /\ snap'[v] = snap[v] /\ RunnerOK(v)
      BY <2>2 DEF IInv
    <3>2. CASE ~Busy(v)
      <4>1. ~Busy(v)'
        BY <3>1, <3>2 DEF Busy
      <4>2. QED
        BY <4>1 DEF RunnerOK, Busy
    <3>3. CASE Busy(v)
      <4>1. snap[v].job \in Jobs /\ snap[v].job # j
        BY <2>2, <3>3 DEF IInv, TypeOK, Snapshot
      <4>2. /\ status'[snap[v].job] = status[snap[v].job]
            /\ attempt'[snap[v].job] = attempt[snap[v].job]
            /\ retry'[snap[v].job] = retry[snap[v].job]
            /\ owner'[snap[v].job] = owner[snap[v].job]
            /\ record'[snap[v].job] = record[snap[v].job]
            /\ proc'[snap[v].job] = proc[snap[v].job]
        BY <4>1
      <4>3. snap'[v].job = snap[v].job
        BY <3>1
      <4>4. Child(v)' = Child(v)
        BY <3>1, <4>2 DEF Child
      <4>5. QED
        BY <3>1, <3>3, <4>2, <4>3, <4>4 DEF RunnerOK, Busy
    <3>4. QED
      BY <3>2, <3>3
  <2>3. QED
    BY <2>1, <2>2
<1>4. \A v \in Workers : DrainOK(v)'
  OBVIOUS
<1>5. \A c \in Clients : CallOK(c)'
  BY DEF IInv, CallOK
<1>6. QED
  BY <1>1, <1>2, <1>3, <1>4, <1>5 DEF IInv

\* The same for a step of the runner of w.
LEMMA RunnerStep ==
    ASSUME IInv, NEW w \in Workers, Busy(w), NEW j \in Jobs, j = snap[w].job,
           UNCHANGED <<attempt, owner, wpc, drainSeen, api>>,
           \A v \in Workers : v # w => rpc'[v] = rpc[v] /\ snap'[v] = snap[v],
           \A i \in Jobs : i # j => /\ status'[i] = status[i] /\ retry'[i] = retry[i]
                                   /\ record'[i] = record[i] /\ proc'[i] = proc[i],
           TypeOK', JobOK(j)', ChildOK(j)', RunnerOK(w)'
    PROVE  IInv'
<1>1. \A v \in Workers : v # w /\ Busy(v) => snap[v].job # j
  BY RunnerFacts
<1>2. \A v \in Workers : DrainOK(v)'
  BY DEF IInv, DrainOK
<1>3. \A i \in Jobs : i # j => /\ status'[i] = status[i]
                              /\ attempt'[i] = attempt[i]
                              /\ retry'[i] = retry[i]
                              /\ owner'[i] = owner[i]
                              /\ record'[i] = record[i]
                              /\ proc'[i] = proc[i]
  OBVIOUS
<1>4. \A v \in Workers : v # w => /\ rpc'[v] = rpc[v]
                                 /\ snap'[v] = snap[v]
                                 /\ DrainOK(v)'
  BY <1>2
<1>5. DrainOK(w)' /\ api' = api
  BY <1>2
<1>6. QED
  BY <1>1, <1>3, <1>4, <1>5, OneRow

\* A runner that settles its active job without a retry and is done.
LEMMA SettleEnds ==
    ASSUME IInv, NEW w \in Workers, Busy(w),
           NEW from \in Active, NEW to \in {"CANCELLED", "FAILED"}, NEW out \in Outcomes,
           UpdateStatus(snap[w].job, from, to, out), GoTo(w, "idle"),
           UNCHANGED <<attempt, retry, owner, cancelReq, record, proc, wpc, snap, drainSeen, api>>
    PROVE  IInv'
<1>0. PICK j \in Jobs : j = snap[w].job
  BY RunnerFacts
<1>1. TypeOK
  BY DEF IInv
<1>2. /\ status' \in [Jobs -> Status \cup {"none"}]
      /\ \A i \in Jobs : i # j => status'[i] = status[i]
      /\ status'[j] = status[j] \/ (status[j] = from /\ status'[j] = to)
      /\ faults' \in 0 .. MaxFaults
  BY <1>0, <1>1, UpdateStatusEffect
<1>3. /\ rpc' \in [Workers -> RunnerPC] /\ rpc'[w] = "idle"
      /\ \A v \in Workers : v # w => rpc'[v] = rpc[v]
  BY <1>1, GoToEffect DEF RunnerPC
<1>4. TypeOK'
  BY <1>1, <1>2, <1>3 DEF TypeOK
<1>5. JobOK(j)'
  <2>1. JobOK(j)
    BY <1>1 DEF IInv
  <2>2. QED
    BY <1>2, <2>1 DEF JobOK
<1>6. ChildOK(j)'
  <2>1. ChildOK(j)
    BY <1>1 DEF IInv
  <2>2. QED
    BY <1>2, <2>1 DEF ChildOK
<1>7. RunnerOK(w)'
  BY <1>3 DEF RunnerOK, Busy
<1>8. QED
  BY <1>0, <1>2, <1>3, <1>4, <1>5, <1>6, <1>7, RunnerStep

\* A job cancelled before its start keeps the invariant.
LEMMA RunCancelledStep ==
    ASSUME IInv, NEW w \in Workers, RunCancelled(w) PROVE IInv'
<1>1. Busy(w)
  BY DEF RunCancelled, Busy
<1>2. PICK out \in Outcomes : UpdateStatus(snap[w].job, "ASSIGNED", "CANCELLED", out)
  BY DEF RunCancelled
<1>3. QED
  BY <1>1, <1>2, SettleEnds DEF RunCancelled

\* So does a job whose start failed ...
LEMMA FailStartStep ==
    ASSUME IInv, NEW w \in Workers, FailStart(w) PROVE IInv'
<1>1. Busy(w)
  BY DEF FailStart, Busy
<1>2. PICK out \in Outcomes : UpdateStatus(snap[w].job, "ASSIGNED", "FAILED", out)
  BY DEF FailStart
<1>3. QED
  BY <1>1, <1>2, SettleEnds DEF FailStart

\* ... and one whose runner raised an exception.
LEMMA FallbackFailStep ==
    ASSUME IInv, NEW w \in Workers, FallbackFail(w) PROVE IInv'
<1>1. Busy(w)
  BY DEF FallbackFail, Busy
<1>2. PICK out \in Outcomes : UpdateStatus(snap[w].job, snap[w].seen, "FAILED", out)
  BY DEF FallbackFail
<1>3. snap[w].seen \in Active
  BY <1>1 DEF FallbackFail, IInv, RunnerOK
<1>4. QED
  BY <1>1, <1>2, <1>3, SettleEnds DEF FallbackFail

\* Settling keeps the invariant: a SUCCESS has its exit code recorded, and a
\* retry that follows has room under max_retry.
LEMMA SettleStep ==
    ASSUME IInv, NEW w \in Workers, Settle(w) PROVE IInv'
<1>0. PICK j \in Jobs : j = snap[w].job
  BY DEF IInv, TypeOK, Snapshot
<1>1. /\ TypeOK /\ Busy(w) /\ rpc[w] = "settling"
      /\ j \in Jobs /\ attempt[j] \in Attempts /\ snap[w].attempt = attempt[j]
  <2>1. TypeOK /\ Busy(w) /\ rpc[w] = "settling"
    BY DEF IInv, Settle, Busy
  <2>2. QED
    BY <1>0, <2>1, RunnerFacts
<1>2. PICK out \in Outcomes :
          /\ UpdateStatus(j, "RUNNING", Verdict(w), out)
          /\ GoTo(w, IF out = "ok" /\ Retryable(w) THEN "retrying" ELSE "idle")
  BY <1>0 DEF Settle
<1>3. UNCHANGED <<attempt, retry, owner, cancelReq, record, proc, wpc, snap, drainSeen, api>>
  BY DEF Settle
<1>4. Verdict(w) \in {"CANCELLED", "SUCCESS", "FAILED"}
  BY DEF Verdict
<1>5. /\ status' \in [Jobs -> Status \cup {"none"}]
      /\ \A i \in Jobs : i # j => status'[i] = status[i]
      /\ Commits(out) => status[j] = "RUNNING" /\ status'[j] = Verdict(w)
      /\ ~Commits(out) => status'[j] = status[j]
      /\ faults' \in 0 .. MaxFaults
  BY <1>1, <1>2, <1>4, UpdateStatusEffect
<1>6. /\ rpc' \in [Workers -> RunnerPC]
      /\ rpc'[w] \in {"retrying", "idle"}
      /\ rpc'[w] = "retrying" => Commits(out) /\ Retryable(w)
      /\ \A v \in Workers : v # w => rpc'[v] = rpc[v]
  <2>1. CASE out = "ok" /\ Retryable(w)
    BY <1>1, <1>2, <2>1, GoToEffect DEF RunnerPC, Commits
  <2>2. CASE ~(out = "ok" /\ Retryable(w))
    BY <1>1, <1>2, <2>2, GoToEffect DEF RunnerPC
  <2>3. QED
    BY <2>1, <2>2
<1>7. TypeOK'
  BY <1>1, <1>3, <1>5, <1>6 DEF TypeOK
<1>8. /\ owner[j] = w /\ attempt[j] = retry[j] + 1 /\ snap[w].retry = retry[j]
      /\ Child(w) \in Exited /\ record[j][attempt[j]] = Child(w)
  BY <1>0, <1>1 DEF IInv, RunnerOK
<1>9. JobOK(j)'
  <2>1. JobOK(j)
    BY <1>1 DEF IInv
  <2>2. Verdict(w) = "SUCCESS" => Child(w) = "exit0"
    BY DEF Verdict
  <2>3. CASE Commits(out)
    BY <1>1, <1>3, <1>4, <1>5, <1>8, <2>1, <2>2, <2>3 DEF JobOK
  <2>4. CASE ~Commits(out)
    BY <1>3, <1>5, <2>1, <2>4 DEF JobOK
  <2>5. QED
    BY <2>3, <2>4
<1>10. ChildOK(j)'
  <2>1. ChildOK(j)
    BY <1>1 DEF IInv
  <2>2. QED
    BY <1>3, <1>4, <1>5, <2>1 DEF ChildOK
<1>11. RunnerOK(w)'
  <2>1. CASE rpc'[w] = "idle"
    BY <2>1 DEF RunnerOK, Busy
  <2>2. CASE rpc'[w] = "retrying"
    <3>1. status'[j] = "FAILED" /\ snap[w].retry < MaxRetry[j]
      BY <1>0, <1>5, <1>6, <2>2 DEF Retryable
    <3>2. Child(w)' = Child(w)
      BY <1>3 DEF Child
    <3>3. QED
      BY <1>0, <1>1, <1>3, <1>8, <2>2, <3>1, <3>2 DEF RunnerOK
  <2>3. QED
    BY <1>6, <2>1, <2>2
<1>12. QED
  BY <1>0, <1>1, <1>3, <1>5, <1>6, <1>7, <1>9, <1>10, <1>11, RunnerStep

\* A job goes back to the queue only when its child has exited and its runner
\* lets go of it.
LEMMA RequeueStep ==
    ASSUME IInv, NEW w \in Workers, Requeue(w) PROVE IInv'
<1>0. PICK j \in Jobs : j = snap[w].job
  BY DEF IInv, TypeOK, Snapshot
<1>1. /\ TypeOK /\ Busy(w) /\ rpc[w] = "retrying"
      /\ j \in Jobs /\ attempt[j] \in Attempts /\ snap[w].attempt = attempt[j]
  <2>1. TypeOK /\ Busy(w) /\ rpc[w] = "retrying"
    BY DEF IInv, Requeue, Busy
  <2>2. QED
    BY <1>0, <2>1, RunnerFacts
<1>2. PICK out \in Outcomes :
          /\ UpdateStatus(j, "FAILED", "QUEUED", out)
          /\ retry' = IF Commits(out) THEN [retry EXCEPT ![j] = @ + 1] ELSE retry
  BY <1>0 DEF Requeue
<1>3. /\ UNCHANGED <<attempt, owner, cancelReq, record, proc, wpc, snap, drainSeen, api>>
      /\ GoTo(w, "idle")
  BY DEF Requeue
<1>4. /\ rpc' \in [Workers -> RunnerPC] /\ rpc'[w] = "idle"
      /\ \A v \in Workers : v # w => rpc'[v] = rpc[v]
  BY <1>1, <1>3, GoToEffect DEF RunnerPC
<1>5. /\ status' \in [Jobs -> Status \cup {"none"}]
      /\ \A i \in Jobs : i # j => status'[i] = status[i]
      /\ Commits(out) => status[j] = "FAILED" /\ status'[j] = "QUEUED"
      /\ ~Commits(out) => status'[j] = status[j]
      /\ faults' \in 0 .. MaxFaults
  <2>1. "QUEUED" \in Status
    OBVIOUS
  <2>2. QED
    BY <1>1, <1>2, <2>1, UpdateStatusEffect
<1>6. /\ retry' \in [Jobs -> Nat]
      /\ \A i \in Jobs : i # j => retry'[i] = retry[i]
      /\ Commits(out) => retry'[j] = retry[j] + 1
      /\ ~Commits(out) => retry'[j] = retry[j]
  <2>1. retry \in [Jobs -> Nat]
    BY <1>1 DEF TypeOK
  <2>2. CASE Commits(out)
    BY <1>1, <1>2, <2>1, <2>2
  <2>3. CASE ~Commits(out)
    BY <1>2, <2>1, <2>3
  <2>4. QED
    BY <2>2, <2>3
<1>7. TypeOK'
  BY <1>1, <1>3, <1>4, <1>5, <1>6 DEF TypeOK
<1>8. /\ attempt[j] = retry[j] + 1 /\ retry[j] < MaxRetry[j]
      /\ proc[j][attempt[j]] \in Exited
  BY <1>0, <1>1 DEF IInv, RunnerOK, Child
<1>9. JobOK(j)'
  <2>1. JobOK(j)
    BY <1>1 DEF IInv
  <2>2. retry[j] \in Nat /\ MaxRetry[j] \in Nat /\ attempt[j] \in Nat
    BY <1>1 DEF TypeOK
  <2>3. CASE Commits(out)
    BY <1>3, <1>5, <1>6, <1>8, <2>1, <2>2, <2>3 DEF JobOK
  <2>4. CASE ~Commits(out)
    BY <1>3, <1>5, <1>6, <2>1, <2>4 DEF JobOK
  <2>5. QED
    BY <2>3, <2>4
<1>10. ChildOK(j)'
  <2>1. ChildOK(j)
    BY <1>1 DEF IInv
  <2>2. \A a \in Attempts : proc[j][a] \notin Living \/ ~Commits(out)
    BY <1>8, <2>1 DEF ChildOK, Living, Exited
  <2>3. QED
    BY <1>3, <1>5, <2>1, <2>2 DEF ChildOK
<1>11. RunnerOK(w)'
  BY <1>4 DEF RunnerOK, Busy
<1>12. QED
  BY <1>0, <1>1, <1>3, <1>4, <1>5, <1>6, <1>7, <1>9, <1>10, <1>11, RunnerStep

-----------------------------------------------------------------------------
(* Steps of a runner that leave the row of its job alone.                  *)

\* What such a step may do to the tables of attempts: write the cell of the
\* current attempt of job j.
CellOnly(tab, tab2, S, j) ==
    /\ tab2 \in [Jobs -> [Attempts -> S]]
    /\ \A i \in Jobs : i # j => tab2[i] = tab[i]
    /\ \A a \in Attempts : a # attempt[j] => tab2[j][a] = tab[j][a]

\* A step of a runner that leaves its row of metadata.jobs alone.
LEMMA QuietStep ==
    ASSUME IInv, NEW w \in Workers, Busy(w), NEW j \in Jobs, j = snap[w].job,
           UNCHANGED <<jobVars, wpc, drainSeen, api>>, faults' \in 0 .. MaxFaults,
           rpc' \in [Workers -> RunnerPC], snap' \in [Workers -> Snapshot],
           \A v \in Workers : v # w => rpc'[v] = rpc[v] /\ snap'[v] = snap[v],
           CellOnly(record, record', RecordState, j),
           CellOnly(proc, proc', ChildState, j),
           RunnerOK(w)'
    PROVE  IInv'
<1>1. TypeOK'
  BY DEF IInv, TypeOK, jobVars, CellOnly, RecordState, ChildState
<1>2. status[j] \notin Waiting \cup {"none", "SUCCESS"}
  BY DEF IInv, RunnerOK
<1>3. JobOK(j)'
  <2>1. JobOK(j)
    BY DEF IInv
  <2>2. QED
    BY <1>2, <2>1 DEF JobOK, jobVars
<1>4. ChildOK(j)'
  <2>1. ChildOK(j)
    BY DEF IInv
  <2>2. QED
    BY <1>2, <2>1 DEF ChildOK, CellOnly, jobVars
<1>5. QED
  BY <1>1, <1>3, <1>4, RunnerStep DEF CellOnly, jobVars

\* The child of the current attempt changes state ...
LEMMA SetChildEffect ==
    ASSUME IInv, NEW w \in Workers, Busy(w), rpc[w] # "claimed", NEW x \in ChildState,
           SetChild(w, x)
    PROVE  /\ CellOnly(proc, proc', ChildState, snap[w].job)
           /\ proc'[snap[w].job][snap[w].attempt] = x
<1>1. /\ snap[w].job \in Jobs /\ snap[w].attempt \in Attempts
      /\ snap[w].attempt = attempt[snap[w].job]
  BY RunnerFacts
<1>2. proc \in [Jobs -> [Attempts -> ChildState]]
  BY DEF IInv, TypeOK, ChildState
<1>3. proc' = [proc EXCEPT ![snap[w].job][snap[w].attempt] = x]
  BY DEF SetChild
<1>4. /\ proc' \in [Jobs -> [Attempts -> ChildState]]
      /\ proc'[snap[w].job][snap[w].attempt] = x
      /\ \A b \in Attempts : b # snap[w].attempt =>
            proc'[snap[w].job][b] = proc[snap[w].job][b]
      /\ \A i \in Jobs : i # snap[w].job => proc'[i] = proc[i]
  BY <1>1, <1>2, <1>3, CellEffect
<1>5. QED
  BY <1>1, <1>4 DEF CellOnly

\* ... or its record does, and no other cell of the table.
LEMMA SetRecordEffect ==
    ASSUME IInv, NEW w \in Workers, Busy(w), rpc[w] # "claimed", NEW x \in RecordState,
           SetRecord(w, x)
    PROVE  /\ CellOnly(record, record', RecordState, snap[w].job)
           /\ record'[snap[w].job][snap[w].attempt] = x
<1>1. /\ snap[w].job \in Jobs /\ snap[w].attempt \in Attempts
      /\ snap[w].attempt = attempt[snap[w].job]
  BY RunnerFacts
<1>2. record \in [Jobs -> [Attempts -> RecordState]]
  BY DEF IInv, TypeOK, RecordState
<1>3. record' = [record EXCEPT ![snap[w].job][snap[w].attempt] = x]
  BY DEF SetRecord
<1>4. /\ record' \in [Jobs -> [Attempts -> RecordState]]
      /\ record'[snap[w].job][snap[w].attempt] = x
      /\ \A b \in Attempts : b # snap[w].attempt =>
            record'[snap[w].job][b] = record[snap[w].job][b]
      /\ \A i \in Jobs : i # snap[w].job => record'[i] = record[i]
  BY <1>1, <1>2, <1>3, CellEffect
<1>5. QED
  BY <1>1, <1>4 DEF CellOnly

\* A table nobody writes keeps its cells.
LEMMA SameCells ==
    ASSUME IInv, NEW j \in Jobs
    PROVE  /\ UNCHANGED proc => CellOnly(proc, proc', ChildState, j)
           /\ UNCHANGED record => CellOnly(record, record', RecordState, j)
BY DEF IInv, TypeOK, CellOnly, ChildState, RecordState

\* terminate() concerns the current child at most, and raises no dead one.
LEMMA TerminateEffect ==
    ASSUME IInv, NEW w \in Workers, Busy(w), rpc[w] # "claimed", Terminate(w)
    PROVE  CellOnly(proc, proc', ChildState, snap[w].job)
<1>1. CASE Child(w) = "alive"
  BY <1>1, SetChildEffect DEF Terminate, ChildState
<1>2. CASE Child(w) # "alive"
  BY <1>2, RunnerFacts, SameCells DEF Terminate
<1>3. QED
  BY <1>1, <1>2

\* create_attempt opens the record of the current attempt only.
LEMMA CreateAttemptStep ==
    ASSUME IInv, NEW w \in Workers, CreateAttempt(w) PROVE IInv'
<1>0. PICK j \in Jobs : j = snap[w].job
  BY DEF IInv, TypeOK, Snapshot
<1>1. TypeOK /\ Busy(w) /\ rpc[w] = "start"
  BY DEF IInv, CreateAttempt, Busy
<1>2. UNCHANGED <<jobVars, proc, wpc, snap, drainSeen, api>>
  BY DEF CreateAttempt
<1>3. PICK pc \in {"popen", "failing", "fallback"} :
         /\ GoTo(w, pc)
         /\ SetRecord(w, "open") \/ UNCHANGED record
  BY DEF CreateAttempt
<1>4. faults' \in 0 .. MaxFaults
  BY <1>1 DEF CreateAttempt, Returns, TypeOK
<1>5. /\ rpc' \in [Workers -> RunnerPC] /\ rpc'[w] = pc
      /\ \A v \in Workers : v # w => rpc'[v] = rpc[v]
  BY <1>1, <1>3, GoToEffect DEF RunnerPC
<1>6. CellOnly(record, record', RecordState, j) /\ CellOnly(proc, proc', ChildState, j)
  BY <1>0, <1>1, <1>2, <1>3, SetRecordEffect, SameCells DEF RecordState
<1>7. RunnerOK(w)'
  <2>1. RunnerOK(w)
    BY DEF IInv
  <2>2. QED
    BY <1>1, <1>2, <1>5, <2>1 DEF RunnerOK, Busy, jobVars
<1>8. snap' \in [Workers -> Snapshot]
  BY <1>1, <1>2 DEF TypeOK
<1>9. QED
  BY <1>0, <1>1, <1>2, <1>4, <1>5, <1>6, <1>7, <1>8, QuietStep

\* The child that is started belongs to the current attempt.
LEMMA PopenStep ==
    ASSUME IInv, NEW w \in Workers, Popen(w) PROVE IInv'
<1>0. PICK j \in Jobs : j = snap[w].job
  BY DEF IInv, TypeOK, Snapshot
<1>1. TypeOK /\ Busy(w) /\ rpc[w] = "popen"
  BY DEF IInv, Popen, Busy
<1>2. UNCHANGED <<jobVars, record, wpc, snap, drainSeen, api, faults>>
  BY DEF Popen
<1>3. PICK pc \in {"launched", "failing"} :
         /\ GoTo(w, pc)
         /\ SetChild(w, "alive") \/ UNCHANGED proc
  BY DEF Popen
<1>5. /\ rpc' \in [Workers -> RunnerPC] /\ rpc'[w] = pc
      /\ \A v \in Workers : v # w => rpc'[v] = rpc[v]
  BY <1>1, <1>3, GoToEffect DEF RunnerPC
<1>6. CellOnly(record, record', RecordState, j) /\ CellOnly(proc, proc', ChildState, j)
  BY <1>0, <1>1, <1>2, <1>3, SetChildEffect, SameCells DEF ChildState
<1>7. RunnerOK(w)'
  <2>1. RunnerOK(w)
    BY DEF IInv
  <2>2. QED
    BY <1>1, <1>2, <1>5, <2>1 DEF RunnerOK, Busy, jobVars
<1>8. snap' \in [Workers -> Snapshot] /\ faults' \in 0 .. MaxFaults
  BY <1>1, <1>2 DEF TypeOK
<1>9. QED
  BY <1>0, <1>1, <1>2, <1>5, <1>6, <1>7, <1>8, QuietStep

\* _fail_start records the failure and leaves the row alone.
LEMMA FailAttemptStep ==
    ASSUME IInv, NEW w \in Workers, FailAttempt(w) PROVE IInv'
<1>0. PICK j \in Jobs : j = snap[w].job
  BY DEF IInv, TypeOK, Snapshot
<1>1. TypeOK /\ Busy(w) /\ rpc[w] = "failing"
  BY DEF IInv, FailAttempt, Busy
<1>2. UNCHANGED <<jobVars, proc, wpc, snap, drainSeen, api>>
  BY DEF FailAttempt
<1>3. PICK pc \in {"failed", "fallback"} :
         /\ GoTo(w, pc)
         /\ SetRecord(w, "exitN") \/ UNCHANGED record
  BY DEF FailAttempt
<1>4. faults' \in 0 .. MaxFaults
  BY <1>1 DEF FailAttempt, Returns, TypeOK
<1>5. /\ rpc' \in [Workers -> RunnerPC] /\ rpc'[w] = pc
      /\ \A v \in Workers : v # w => rpc'[v] = rpc[v]
  BY <1>1, <1>3, GoToEffect DEF RunnerPC
<1>6. CellOnly(record, record', RecordState, j) /\ CellOnly(proc, proc', ChildState, j)
  BY <1>0, <1>1, <1>2, <1>3, SetRecordEffect, SameCells DEF RecordState, Exited
<1>7. RunnerOK(w)'
  <2>1. RunnerOK(w)
    BY DEF IInv
  <2>2. QED
    BY <1>1, <1>2, <1>5, <2>1 DEF RunnerOK, Busy, jobVars
<1>8. snap' \in [Workers -> Snapshot]
  BY <1>1, <1>2 DEF TypeOK
<1>9. QED
  BY <1>0, <1>1, <1>2, <1>4, <1>5, <1>6, <1>7, <1>8, QuietStep

\* Recording the pid, or failing to and terminating the child.
LEMMA RecordPidStep ==
    ASSUME IInv, NEW w \in Workers, RecordPid(w) PROVE IInv'
<1>0. PICK j \in Jobs : j = snap[w].job
  BY DEF IInv, TypeOK, Snapshot
<1>1. TypeOK /\ Busy(w) /\ rpc[w] = "pid"
  BY DEF IInv, RecordPid, Busy
<1>2. UNCHANGED <<jobVars, record, wpc, snap, drainSeen, api>>
  BY DEF RecordPid
<1>3. PICK pc \in {"monitor", "idle"} :
         /\ GoTo(w, pc)
         /\ Terminate(w) \/ UNCHANGED proc
  BY DEF RecordPid
<1>4. faults' \in 0 .. MaxFaults
  BY <1>1 DEF RecordPid, Returns, TypeOK
<1>5. /\ rpc' \in [Workers -> RunnerPC] /\ rpc'[w] = pc
      /\ \A v \in Workers : v # w => rpc'[v] = rpc[v]
  BY <1>1, <1>3, GoToEffect DEF RunnerPC
<1>6. CellOnly(record, record', RecordState, j) /\ CellOnly(proc, proc', ChildState, j)
  BY <1>0, <1>1, <1>2, <1>3, TerminateEffect, SameCells
<1>7. RunnerOK(w)'
  <2>1. RunnerOK(w)
    BY DEF IInv
  <2>2. QED
    BY <1>1, <1>2, <1>5, <2>1 DEF RunnerOK, Busy, jobVars
<1>8. snap' \in [Workers -> Snapshot]
  BY <1>1, <1>2 DEF TypeOK
<1>9. QED
  BY <1>0, <1>1, <1>2, <1>4, <1>5, <1>6, <1>7, <1>8, QuietStep

\* _monitor finds the cancellation and terminates the child.
LEMMA PollCancelStep ==
    ASSUME IInv, NEW w \in Workers, PollCancel(w) PROVE IInv'
<1>0. PICK j \in Jobs : j = snap[w].job
  BY DEF IInv, TypeOK, Snapshot
<1>1. TypeOK /\ Busy(w) /\ rpc[w] = "monitor"
  BY DEF IInv, PollCancel, Busy
<1>2. UNCHANGED <<jobVars, record, wpc, rpc, drainSeen, api, faults>>
  BY DEF PollCancel
<1>3. /\ snap' \in [Workers -> Snapshot]
      /\ snap'[w] = [snap[w] EXCEPT !.cancel = TRUE]
      /\ \A v \in Workers : v # w => snap'[v] = snap[v]
  BY <1>1, SnapCancel DEF PollCancel
<1>4. CellOnly(record, record', RecordState, j) /\ CellOnly(proc, proc', ChildState, j)
  BY <1>0, <1>1, <1>2, TerminateEffect, SameCells DEF PollCancel
<1>5. RunnerOK(w)'
  <2>1. RunnerOK(w) /\ snap[w] \in Snapshot
    BY <1>1 DEF IInv, TypeOK
  <2>2. /\ snap'[w].job = snap[w].job /\ snap'[w].attempt = snap[w].attempt
        /\ snap'[w].retry = snap[w].retry /\ snap'[w].seen = snap[w].seen
    BY <1>3, <2>1 DEF Snapshot
  <2>3. QED
    BY <1>1, <1>2, <2>1, <2>2 DEF RunnerOK, Busy, jobVars
<1>6. rpc' \in [Workers -> RunnerPC] /\ faults' \in 0 .. MaxFaults
  BY <1>1, <1>2 DEF TypeOK
<1>7. QED
  BY <1>0, <1>1, <1>2, <1>3, <1>4, <1>5, <1>6, QuietStep

\* _monitor escalates.
LEMMA KillStep ==
    ASSUME IInv, NEW w \in Workers, Kill(w) PROVE IInv'
<1>0. PICK j \in Jobs : j = snap[w].job
  BY DEF IInv, TypeOK, Snapshot
<1>1. TypeOK /\ Busy(w) /\ rpc[w] = "monitor"
  BY DEF IInv, Kill, Busy
<1>2. UNCHANGED <<jobVars, record, workerVars, api, faults>>
  BY DEF Kill
<1>3. CellOnly(record, record', RecordState, j) /\ CellOnly(proc, proc', ChildState, j)
  BY <1>0, <1>1, <1>2, SetChildEffect, SameCells DEF Kill, ChildState
<1>4. RunnerOK(w)'
  <2>1. RunnerOK(w)
    BY DEF IInv
  <2>2. QED
    BY <1>1, <1>2, <2>1 DEF RunnerOK, Busy, jobVars, workerVars
<1>5. /\ rpc' \in [Workers -> RunnerPC] /\ faults' \in 0 .. MaxFaults
      /\ snap' \in [Workers -> Snapshot]
  BY <1>1, <1>2 DEF TypeOK, workerVars
<1>6. QED
  BY <1>0, <1>1, <1>2, <1>3, <1>4, <1>5, QuietStep DEF workerVars

\* _monitor returns: the child has exited.
LEMMA MonitorEndsStep ==
    ASSUME IInv, NEW w \in Workers, MonitorEnds(w) PROVE IInv'
<1>0. PICK j \in Jobs : j = snap[w].job
  BY DEF IInv, TypeOK, Snapshot
<1>1. TypeOK /\ Busy(w) /\ rpc[w] = "monitor"
  BY DEF IInv, MonitorEnds, Busy
<1>2. UNCHANGED <<jobVars, record, proc, wpc, snap, drainSeen, api, faults>>
  BY DEF MonitorEnds
<1>3. /\ rpc' \in [Workers -> RunnerPC] /\ rpc'[w] = "exited"
      /\ \A v \in Workers : v # w => rpc'[v] = rpc[v]
  BY <1>1, GoToEffect DEF RunnerPC, MonitorEnds
<1>4. CellOnly(record, record', RecordState, j) /\ CellOnly(proc, proc', ChildState, j)
  BY <1>2, SameCells
<1>5. RunnerOK(w)'
  <2>1. RunnerOK(w) /\ Child(w) \in Exited
    BY DEF IInv, MonitorEnds
  <2>2. Child(w)' \in Exited
    BY <1>2, <2>1 DEF Child
  <2>3. QED
    BY <1>1, <1>2, <1>3, <2>1, <2>2 DEF RunnerOK, Busy, jobVars
<1>6. snap' \in [Workers -> Snapshot] /\ faults' \in 0 .. MaxFaults
  BY <1>1, <1>2 DEF TypeOK
<1>7. QED
  BY <1>0, <1>1, <1>2, <1>3, <1>4, <1>5, <1>6, QuietStep

\* The exit code that is recorded is the one of the current child.
LEMMA FinishAttemptStep ==
    ASSUME IInv, NEW w \in Workers, FinishAttempt(w) PROVE IInv'
<1>0. PICK j \in Jobs : j = snap[w].job
  BY DEF IInv, TypeOK, Snapshot
<1>1. TypeOK /\ Busy(w) /\ rpc[w] = "exited"
  BY DEF IInv, FinishAttempt, Busy
<1>2. UNCHANGED <<jobVars, proc, wpc, snap, drainSeen, api>>
  BY DEF FinishAttempt
<1>3. RunnerOK(w) /\ Child(w) \in Exited
  BY <1>1 DEF IInv, RunnerOK
<1>4. faults' \in 0 .. MaxFaults /\ snap' \in [Workers -> Snapshot]
  BY <1>1, <1>2 DEF FinishAttempt, Returns, TypeOK
<1>5. Child(w)' = Child(w)
  BY <1>2 DEF Child
<1>6. CASE SetRecord(w, Child(w)) /\ GoTo(w, "finished")
  <2>1. /\ rpc' \in [Workers -> RunnerPC] /\ rpc'[w] = "finished"
        /\ \A v \in Workers : v # w => rpc'[v] = rpc[v]
    BY <1>1, <1>6, GoToEffect DEF RunnerPC
  <2>2. /\ CellOnly(record, record', RecordState, j)
        /\ record'[snap[w].job][snap[w].attempt] = Child(w)
    BY <1>0, <1>1, <1>3, <1>6, SetRecordEffect DEF RecordState
  <2>3. CellOnly(proc, proc', ChildState, j)
    BY <1>2, SameCells
  <2>4. RunnerOK(w)'
    BY <1>1, <1>2, <1>3, <1>5, <2>1, <2>2 DEF RunnerOK, Busy, jobVars
  <2>5. QED
    BY <1>0, <1>1, <1>2, <1>4, <2>1, <2>2, <2>3, <2>4, QuietStep
<1>7. CASE UNCHANGED record /\ GoTo(w, "fallback")
  <2>1. /\ rpc' \in [Workers -> RunnerPC] /\ rpc'[w] = "fallback"
        /\ \A v \in Workers : v # w => rpc'[v] = rpc[v]
    BY <1>1, <1>7, GoToEffect DEF RunnerPC
  <2>2. CellOnly(record, record', RecordState, j) /\ CellOnly(proc, proc', ChildState, j)
    BY <1>2, <1>7, SameCells
  <2>3. RunnerOK(w)'
    BY <1>1, <1>2, <1>3, <2>1 DEF RunnerOK, Busy, jobVars
  <2>4. QED
    BY <1>0, <1>1, <1>2, <1>4, <2>1, <2>2, <2>3, QuietStep
<1>8. QED
  BY <1>6, <1>7 DEF FinishAttempt

\* The retry counter _finalize reads is the current one.
LEMMA FinalReadStep ==
    ASSUME IInv, NEW w \in Workers, FinalRead(w) PROVE IInv'
<1>0. PICK j \in Jobs : j = snap[w].job
  BY DEF IInv, TypeOK, Snapshot
<1>1. TypeOK /\ Busy(w) /\ rpc[w] = "finished"
  BY DEF IInv, FinalRead, Busy
<1>2. UNCHANGED <<jobVars, record, proc, wpc, drainSeen, api>>
  BY DEF FinalRead
<1>3. RunnerOK(w) /\ snap[w] \in Snapshot /\ retry[j] \in Nat
  BY <1>1 DEF IInv, TypeOK
<1>4. faults' \in 0 .. MaxFaults
  BY <1>1 DEF FinalRead, Returns, TypeOK
<1>5. CellOnly(record, record', RecordState, j) /\ CellOnly(proc, proc', ChildState, j)
  BY <1>2, SameCells
<1>6. CASE snap' = [snap EXCEPT ![w].retry = retry[snap[w].job]] /\ GoTo(w, "settling")
  <2>1. /\ rpc' \in [Workers -> RunnerPC] /\ rpc'[w] = "settling"
        /\ \A v \in Workers : v # w => rpc'[v] = rpc[v]
    BY <1>1, <1>6, GoToEffect DEF RunnerPC
  <2>2. /\ snap' \in [Workers -> Snapshot]
        /\ snap'[w] = [snap[w] EXCEPT !.retry = retry[j]]
        /\ \A v \in Workers : v # w => snap'[v] = snap[v]
    BY <1>0, <1>1, <1>3, <1>6, SnapRetry
  <2>3. /\ snap'[w].job = snap[w].job /\ snap'[w].attempt = snap[w].attempt
        /\ snap'[w].retry = retry[snap[w].job]
    BY <1>0, <1>3, <2>2 DEF Snapshot
  <2>4. Child(w)' = Child(w)
    BY <1>2, <2>3 DEF Child
  <2>5. RunnerOK(w)'
    BY <1>1, <1>2, <1>3, <2>1, <2>3, <2>4 DEF RunnerOK, Busy, jobVars
  <2>6. QED
    BY <1>0, <1>1, <1>2, <1>4, <1>5, <2>1, <2>2, <2>5, QuietStep
<1>7. CASE UNCHANGED snap /\ GoTo(w, "fallback")
  <2>1. /\ rpc' \in [Workers -> RunnerPC] /\ rpc'[w] = "fallback"
        /\ \A v \in Workers : v # w => rpc'[v] = rpc[v]
    BY <1>1, <1>7, GoToEffect DEF RunnerPC
  <2>2. snap' \in [Workers -> Snapshot]
    BY <1>1, <1>7 DEF TypeOK
  <2>3. RunnerOK(w)'
    BY <1>1, <1>2, <1>3, <1>7, <2>1 DEF RunnerOK, Busy, jobVars
  <2>4. QED
    BY <1>0, <1>1, <1>2, <1>4, <1>5, <1>7, <2>1, <2>2, <2>3, QuietStep
<1>8. QED
  BY <1>6, <1>7 DEF FinalRead

\* _run_job remembers a status only if it is active.
LEMMA FallbackReadStep ==
    ASSUME IInv, NEW w \in Workers, FallbackRead(w) PROVE IInv'
<1>0. PICK j \in Jobs : j = snap[w].job
  BY DEF IInv, TypeOK, Snapshot
<1>1. TypeOK /\ Busy(w) /\ rpc[w] = "fallback"
  BY DEF IInv, FallbackRead, Busy
<1>2. UNCHANGED <<jobVars, record, proc, wpc, drainSeen, api>>
  BY DEF FallbackRead
<1>3. RunnerOK(w) /\ snap[w] \in Snapshot
  BY <1>1 DEF IInv, TypeOK
<1>4. faults' \in 0 .. MaxFaults
  BY <1>1 DEF FallbackRead, Returns, TypeOK
<1>5. CellOnly(record, record', RecordState, j) /\ CellOnly(proc, proc', ChildState, j)
  BY <1>2, SameCells
<1>6. CASE /\ status[j] \in Active
           /\ snap' = [snap EXCEPT ![w].seen = status[j]] /\ GoTo(w, "giveup")
  <2>1. /\ rpc' \in [Workers -> RunnerPC] /\ rpc'[w] = "giveup"
        /\ \A v \in Workers : v # w => rpc'[v] = rpc[v]
    BY <1>1, <1>6, GoToEffect DEF RunnerPC
  <2>2. /\ snap' \in [Workers -> Snapshot]
        /\ snap'[w] = [snap[w] EXCEPT !.seen = status[j]]
        /\ \A v \in Workers : v # w => snap'[v] = snap[v]
    BY <1>1, <1>6, SnapSeen
  <2>3. /\ snap'[w].job = snap[w].job /\ snap'[w].attempt = snap[w].attempt
        /\ snap'[w].seen \in Active
    BY <1>3, <1>6, <2>2 DEF Snapshot
  <2>4. RunnerOK(w)'
    BY <1>1, <1>2, <1>3, <2>1, <2>3 DEF RunnerOK, Busy, jobVars
  <2>5. QED
    BY <1>0, <1>1, <1>2, <1>4, <1>5, <2>1, <2>2, <2>4, QuietStep
<1>7. CASE UNCHANGED snap /\ GoTo(w, "idle")
  <2>1. /\ rpc' \in [Workers -> RunnerPC] /\ rpc'[w] = "idle"
        /\ \A v \in Workers : v # w => rpc'[v] = rpc[v]
    BY <1>1, <1>7, GoToEffect DEF RunnerPC
  <2>2. snap' \in [Workers -> Snapshot]
    BY <1>1, <1>7 DEF TypeOK
  <2>3. RunnerOK(w)'
    BY <2>1 DEF RunnerOK, Busy
  <2>4. QED
    BY <1>0, <1>1, <1>2, <1>4, <1>5, <1>7, <2>1, <2>2, <2>3, QuietStep
<1>8. QED
  BY <1>0, <1>6, <1>7 DEF FallbackRead

\* The runner is handed the attempt the claim opened.
LEMMA ClaimReadStep ==
    ASSUME IInv, NEW w \in Workers, ClaimRead(w) PROVE IInv'
<1>0. PICK j \in Jobs : j = snap[w].job
  BY DEF IInv, TypeOK, Snapshot
<1>1. TypeOK /\ Busy(w) /\ rpc[w] = "claimed"
  BY DEF IInv, ClaimRead, Busy
<1>2. UNCHANGED <<jobVars, record, proc, wpc, drainSeen, api>>
  BY DEF ClaimRead
<1>3. /\ RunnerOK(w) /\ snap[w] \in Snapshot
      /\ attempt[j] \in Nat /\ cancelReq[j] \in BOOLEAN
  BY <1>1 DEF IInv, TypeOK
<1>4. faults' \in 0 .. MaxFaults
  BY <1>1 DEF ClaimRead, Returns, TypeOK
<1>5. CellOnly(record, record', RecordState, j) /\ CellOnly(proc, proc', ChildState, j)
  BY <1>2, SameCells
<1>6. CASE /\ snap' = [snap EXCEPT ![w].attempt = attempt[j], ![w].cancel = cancelReq[j]]
           /\ GoTo(w, "start")
  <2>1. /\ rpc' \in [Workers -> RunnerPC] /\ rpc'[w] = "start"
        /\ \A v \in Workers : v # w => rpc'[v] = rpc[v]
    BY <1>1, <1>6, GoToEffect DEF RunnerPC
  <2>2. /\ snap' \in [Workers -> Snapshot]
        /\ snap'[w] = [snap[w] EXCEPT !.attempt = attempt[j], !.cancel = cancelReq[j]]
        /\ \A v \in Workers : v # w => snap'[v] = snap[v]
    BY <1>1, <1>3, <1>6, SnapRead
  <2>3. snap'[w].job = snap[w].job /\ snap'[w].attempt = attempt[snap[w].job]
    BY <1>0, <1>3, <2>2 DEF Snapshot
  <2>4. RunnerOK(w)'
    BY <1>1, <1>2, <1>3, <2>1, <2>3 DEF RunnerOK, Busy, jobVars
  <2>5. QED
    BY <1>0, <1>1, <1>2, <1>4, <1>5, <2>1, <2>2, <2>4, QuietStep
<1>7. CASE UNCHANGED snap /\ GoTo(w, "touch")
  <2>1. /\ rpc' \in [Workers -> RunnerPC] /\ rpc'[w] = "touch"
        /\ \A v \in Workers : v # w => rpc'[v] = rpc[v]
    BY <1>1, <1>7, GoToEffect DEF RunnerPC
  <2>2. snap' \in [Workers -> Snapshot]
    BY <1>1, <1>7 DEF TypeOK
  <2>3. RunnerOK(w)'
    BY <2>1 DEF RunnerOK, Busy
  <2>4. QED
    BY <1>0, <1>1, <1>2, <1>4, <1>5, <1>7, <2>1, <2>2, <2>3, QuietStep
<1>8. QED
  BY <1>0, <1>6, <1>7 DEF ClaimRead

\* ASSIGNED -> RUNNING, or the child is terminated and the runner ends.
LEMMA MarkRunningStep ==
    ASSUME IInv, NEW w \in Workers, MarkRunning(w) PROVE IInv'
<1>0. PICK j \in Jobs : j = snap[w].job
  BY DEF IInv, TypeOK, Snapshot
<1>1. TypeOK /\ Busy(w) /\ rpc[w] = "launched"
  BY DEF IInv, MarkRunning, Busy
<1>2. UNCHANGED <<attempt, retry, owner, cancelReq, record, wpc, snap, drainSeen, api>>
  BY DEF MarkRunning
<1>3. PICK out \in Outcomes :
         /\ UpdateStatus(j, "ASSIGNED", "RUNNING", out)
         /\ \/ UNCHANGED proc /\ GoTo(w, "pid")
            \/ Terminate(w) /\ GoTo(w, "idle")
  BY <1>0 DEF MarkRunning
<1>4. /\ status' \in [Jobs -> Status \cup {"none"}]
      /\ \A i \in Jobs : i # j => status'[i] = status[i]
      /\ status'[j] = status[j] \/ (status[j] = "ASSIGNED" /\ status'[j] = "RUNNING")
      /\ faults' \in 0 .. MaxFaults
  <2>1. "RUNNING" \in Status
    OBVIOUS
  <2>2. QED
    BY <1>1, <1>3, <2>1, UpdateStatusEffect
<1>5. /\ rpc' \in [Workers -> RunnerPC] /\ rpc'[w] \in {"pid", "idle"}
      /\ \A v \in Workers : v # w => rpc'[v] = rpc[v]
  BY <1>1, <1>3, GoToEffect DEF RunnerPC
<1>6. CellOnly(proc, proc', ChildState, j)
  BY <1>0, <1>1, <1>3, TerminateEffect, SameCells
<1>7. TypeOK'
  BY <1>1, <1>2, <1>4, <1>5, <1>6 DEF TypeOK, CellOnly, ChildState
<1>8. JobOK(j)'
  <2>1. JobOK(j)
    BY DEF IInv
  <2>2. QED
    BY <1>2, <1>4, <2>1 DEF JobOK
<1>9. ChildOK(j)'
  <2>1. ChildOK(j)
    BY DEF IInv
  <2>2. status'[j] \notin Waiting \cup {"none"}
    <3>1. status[j] \notin Waiting \cup {"none"}
      BY <1>0, <1>1 DEF IInv, RunnerOK
    <3>2. QED
      BY <1>4, <3>1
  <2>3. QED
    BY <1>2, <1>6, <2>1, <2>2 DEF ChildOK, CellOnly
<1>10. RunnerOK(w)'
  <2>1. RunnerOK(w)
    BY DEF IInv
  <2>2. QED
    BY <1>0, <1>1, <1>2, <1>4, <1>5, <2>1 DEF RunnerOK, Busy
<1>11. QED
  BY <1>0, <1>1, <1>2, <1>4, <1>5, <1>6, <1>7, <1>8, <1>9, <1>10, RunnerStep DEF CellOnly

-----------------------------------------------------------------------------
(* The web process, the main threads and the children.                     *)

\* A step that writes only statuses, as those actors may: it moves a job that
\* no runner has yet, or interrupts it.  Threads may end or go idle meanwhile.
LEMMA TableStep ==
    ASSUME IInv, UNCHANGED <<attempt, retry, owner, record, proc, snap>>,
           TypeOK',
           \A j \in Jobs : \/ status'[j] = status[j]
                           \/ /\ status[j] \in Waiting \cup {"none"}
                              /\ status'[j] \in Waiting \cup {"CANCELLED"}
                           \/ status'[j] = "INTERRUPTED",
           \A w \in Workers : rpc'[w] = rpc[w] \/ rpc'[w] \in {"idle", "touch"},
           \A w \in Workers : DrainOK(w)',
           \A c \in Clients : CallOK(c)'
    PROVE  IInv'
<1>1. ASSUME NEW j \in Jobs PROVE JobOK(j)'
  <2>1. JobOK(j)
    BY DEF IInv
  <2>2. QED
    BY <2>1 DEF JobOK
<1>2. ASSUME NEW j \in Jobs PROVE ChildOK(j)'
  <2>1. ChildOK(j)
    BY DEF IInv
  <2>2. QED
    BY <2>1 DEF ChildOK
<1>3. ASSUME NEW w \in Workers PROVE RunnerOK(w)'
  <2>1. RunnerOK(w) /\ snap[w].job \in Jobs
    BY DEF IInv, TypeOK, Snapshot
  <2>2. CASE rpc'[w] \in {"idle", "touch"}
    BY <2>2 DEF RunnerOK, Busy
  <2>3. CASE rpc'[w] = rpc[w]
    <3>1. Child(w)' = Child(w)
      BY DEF Child
    <3>2. CASE ~Busy(w)
      BY <2>3, <3>2 DEF RunnerOK, Busy
    <3>3. CASE Busy(w)
      <4>1. status'[snap[w].job] \in {status[snap[w].job], "INTERRUPTED"}
        BY <2>1, <3>3 DEF RunnerOK
      <4>2. QED
        BY <2>1, <2>3, <3>1, <3>3, <4>1 DEF RunnerOK, Busy
    <3>4. QED
      BY <3>2, <3>3
  <2>4. QED
    BY <2>2, <2>3
<1>4. QED
  BY <1>1, <1>2, <1>3 DEF IInv

\* submit inserts a row no runner, worker or child knows of.
LEMMA SubmitCreateStep ==
    ASSUME IInv, NEW c \in Clients, NEW j \in Jobs, SubmitCreate(c, j) PROVE IInv'
<1>1. TypeOK /\ (\A d \in Clients : CallOK(d)) /\ (\A w \in Workers : DrainOK(w))
  BY DEF IInv
<1>2. /\ UNCHANGED <<attempt, retry, owner, cancelReq, record, proc, workerVars, faults>>
      /\ status[j] = "none" /\ status' = [status EXCEPT ![j] = "PENDING"]
      /\ api' = [api EXCEPT ![c] = [op |-> "submit", job |-> j, seen |-> "PENDING"]]
  BY DEF SubmitCreate
<1>3. [op |-> "submit", job |-> j, seen |-> "PENDING"] \in Call
  BY DEF Call, ApiOps
<1>4. /\ api' \in [Clients -> Call]
      /\ api'[c] = [op |-> "submit", job |-> j, seen |-> "PENDING"]
      /\ \A d \in Clients : d # c => api'[d] = api[d]
  BY <1>1, <1>2, <1>3 DEF TypeOK
<1>5. TypeOK'
  BY <1>1, <1>2, <1>4 DEF TypeOK, workerVars
<1>6. ASSUME NEW d \in Clients PROVE CallOK(d)'
  <2>1. CASE d = c
    BY <1>4, <2>1 DEF CallOK
  <2>2. CASE d # c
    <3>1. CallOK(d) /\ api'[d] = api[d]
      BY <1>1, <1>4, <2>2
    <3>2. QED
      BY <3>1 DEF CallOK
  <2>3. QED
    BY <2>1, <2>2
<1>7. \A w \in Workers : DrainOK(w)'
  BY <1>1, <1>2 DEF DrainOK, workerVars
<1>8. \A i \in Jobs : \/ status'[i] = status[i]
                      \/ /\ status[i] \in Waiting \cup {"none"}
                         /\ status'[i] \in Waiting \cup {"CANCELLED"}
  BY <1>1, <1>2 DEF TypeOK
<1>9. QED
  BY <1>2, <1>5, <1>6, <1>7, <1>8, TableStep DEF workerVars

\* A call remembers only a status it accepts.
LEMMA ApiReadStep ==
    ASSUME IInv, NEW c \in Clients, NEW op \in ApiOps \ {"submit"}, NEW j \in Jobs,
           ApiRead(c, op, j)
    PROVE  IInv'
<1>1. TypeOK /\ (\A d \in Clients : CallOK(d)) /\ (\A w \in Workers : DrainOK(w))
  BY DEF IInv
<1>2. /\ UNCHANGED <<jobVars, record, proc, workerVars, faults>>
      /\ status[j] \in Accepts(op)
      /\ api' = [api EXCEPT ![c] = [op |-> op, job |-> j, seen |-> status[j]]]
  BY DEF ApiRead
<1>3. /\ op = "pause" => status[j] = "QUEUED"
      /\ op = "resume" => status[j] = "PAUSED"
      /\ op = "cancel" => status[j] \in Active \cup Waiting
      /\ status[j] \in Status
  BY <1>2 DEF Accepts, ApiOps
<1>4. /\ api' \in [Clients -> Call]
      /\ api'[c] = [op |-> op, job |-> j, seen |-> status[j]]
      /\ \A d \in Clients : d # c => api'[d] = api[d]
  <2>1. [op |-> op, job |-> j, seen |-> status[j]] \in Call
    BY <1>3 DEF Call
  <2>2. QED
    BY <1>1, <1>2, <2>1 DEF TypeOK
<1>5. TypeOK'
  BY <1>1, <1>2, <1>4 DEF TypeOK, workerVars, jobVars
<1>6. ASSUME NEW d \in Clients PROVE CallOK(d)'
  <2>1. CASE d = c
    BY <1>3, <1>4, <2>1 DEF CallOK
  <2>2. CASE d # c
    <3>1. CallOK(d) /\ api'[d] = api[d]
      BY <1>1, <1>4, <2>2
    <3>2. QED
      BY <3>1 DEF CallOK
  <2>3. QED
    BY <2>1, <2>2
<1>7. \A w \in Workers : DrainOK(w)'
  BY <1>1, <1>2 DEF DrainOK, workerVars
<1>8. QED
  BY <1>2, <1>5, <1>6, <1>7, TableStep DEF workerVars, jobVars

\* A call that is over leaves its client idle.
LEMMA CallEnds ==
    ASSUME IInv, NEW c \in Clients, api' = [api EXCEPT ![c] = Idle]
    PROVE  api' \in [Clients -> Call] /\ \A d \in Clients : CallOK(d)'
<1>1. TypeOK /\ (\A d \in Clients : CallOK(d))
  BY DEF IInv
<1>2. Idle \in Call /\ Idle.op = "idle"
  BY DEF Idle, Call
<1>3. /\ api' \in [Clients -> Call] /\ api'[c] = Idle
      /\ \A d \in Clients : d # c => api'[d] = api[d]
  BY <1>1, <1>2 DEF TypeOK
<1>4. QED
  BY <1>1, <1>2, <1>3 DEF CallOK

\* What a call swaps is an edge between statuses no runner has a hand in, or no
\* change at all.
LEMMA TargetEffect ==
    ASSUME IInv, NEW c \in Clients, api[c].op # "idle"
    PROVE  /\ api[c].job \in Jobs /\ api[c].seen \in Status
           /\ \/ Target(api[c]) = api[c].seen
              \/ /\ api[c].seen \in Waiting
                 /\ Target(api[c]) \in {"QUEUED", "PAUSED", "CANCELLED"}
                 /\ Lifecycle!CanTransition(api[c].seen, Target(api[c]))
<1>1. CallOK(c) /\ api[c] \in Call
  BY DEF IInv, TypeOK
<1>2. api[c].op \in ApiOps /\ api[c].job \in Jobs /\ api[c].seen \in Status
  BY <1>1 DEF Call
<1>3. CASE api[c].op = "submit"
  BY <1>1, <1>2, <1>3 DEF CallOK, Target, Lifecycle!CanTransition, Lifecycle!Allowed
<1>4. CASE api[c].op = "pause"
  BY <1>1, <1>2, <1>4 DEF CallOK, Target, Lifecycle!CanTransition, Lifecycle!Allowed
<1>5. CASE api[c].op = "resume"
  BY <1>1, <1>2, <1>5 DEF CallOK, Target, Lifecycle!CanTransition, Lifecycle!Allowed
<1>6. CASE api[c].op = "cancel"
  BY <1>1, <1>2, <1>6 DEF CallOK, Target, Lifecycle!CanTransition, Lifecycle!Allowed
<1>7. QED
  BY <1>2, <1>3, <1>4, <1>5, <1>6 DEF ApiOps

\* The second transaction of a call moves waiting jobs only.
LEMMA ApiCommitStep ==
    ASSUME IInv, NEW c \in Clients, ApiCommit(c) PROVE IInv'
<1>1. TypeOK /\ (\A w \in Workers : DrainOK(w)) /\ api[c].op # "idle"
  BY DEF IInv, ApiCommit
<1>2. UNCHANGED <<attempt, retry, owner, record, proc, workerVars>>
  BY DEF ApiCommit
<1>3. PICK out \in Outcomes :
         /\ UpdateStatus(api[c].job, api[c].seen, Target(api[c]), out)
         /\ cancelReq' \in {cancelReq, [cancelReq EXCEPT ![api[c].job] = TRUE]}
  BY DEF ApiCommit
<1>4. /\ api[c].job \in Jobs /\ api[c].seen \in Status
      /\ Target(api[c]) \in Status
      /\ \/ Target(api[c]) = api[c].seen
         \/ /\ api[c].seen \in Waiting
            /\ Target(api[c]) \in {"QUEUED", "PAUSED", "CANCELLED"}
  BY <1>1, TargetEffect
<1>5. /\ status' \in [Jobs -> Status \cup {"none"}]
      /\ \A i \in Jobs : i # api[c].job => status'[i] = status[i]
      /\ Commits(out) => /\ status[api[c].job] = api[c].seen
                         /\ status'[api[c].job] = Target(api[c])
      /\ ~Commits(out) => status' = status
      /\ faults' \in 0 .. MaxFaults
  BY <1>1, <1>3, <1>4, UpdateStatusEffect
<1>6. cancelReq' \in [Jobs -> BOOLEAN]
  BY <1>1, <1>3, <1>4 DEF TypeOK
<1>7. api' \in [Clients -> Call] /\ \A d \in Clients : CallOK(d)'
  BY CallEnds DEF ApiCommit
<1>8. TypeOK'
  BY <1>1, <1>2, <1>5, <1>6, <1>7 DEF TypeOK, workerVars
<1>9. \A w \in Workers : DrainOK(w)'
  BY <1>1, <1>2 DEF DrainOK, workerVars
<1>10. \A i \in Jobs : \/ status'[i] = status[i]
                       \/ /\ status[i] \in Waiting \cup {"none"}
                          /\ status'[i] \in Waiting \cup {"CANCELLED"}
  BY <1>4, <1>5
<1>11. QED
  BY <1>2, <1>7, <1>8, <1>9, <1>10, TableStep DEF workerVars

\* A call that dies half way leaves the tables alone.
LEMMA ApiCrashStep ==
    ASSUME IInv, NEW c \in Clients, ApiCrash(c) PROVE IInv'
<1>1. TypeOK /\ (\A w \in Workers : DrainOK(w))
  BY DEF IInv
<1>2. UNCHANGED <<jobVars, record, proc, workerVars>> /\ faults' \in 0 .. MaxFaults
  BY <1>1 DEF ApiCrash, Returns, TypeOK
<1>3. api' \in [Clients -> Call] /\ \A d \in Clients : CallOK(d)'
  BY CallEnds DEF ApiCrash
<1>4. TypeOK'
  BY <1>1, <1>2, <1>3 DEF TypeOK, workerVars, jobVars
<1>5. \A w \in Workers : DrainOK(w)'
  BY <1>1, <1>2 DEF DrainOK, workerVars
<1>6. QED
  BY <1>2, <1>3, <1>4, <1>5, TableStep DEF workerVars, jobVars

\* A sweep interrupts jobs, and only those that have been claimed.
LEMMA MarkStaleEffect ==
    ASSUME IInv, NEW w \in Workers, NEW S, S \subseteq Workers, NEW stale,
           MarkStale(w, S, stale)
    PROVE  /\ status' \in [Jobs -> Status \cup {"none"}]
           /\ \A j \in Jobs : status'[j] = status[j]
                               \/ (status'[j] = "INTERRUPTED" /\ attempt[j] > 0)
<1>1. status \in [Jobs -> Status \cup {"none"}]
  BY DEF IInv, TypeOK
<1>2. \A j \in Jobs : owner[j] \in Workers => attempt[j] > 0
  BY DEF IInv, JobOK
<1>3. QED
  BY <1>1, <1>2 DEF MarkStale

\* TaskManager.recover keeps the invariant ...
LEMMA ManagerRecoverStep ==
    ASSUME IInv, NEW w \in Workers, ManagerRecover(w) PROVE IInv'
<1>1. /\ TypeOK /\ (\A v \in Workers : DrainOK(v)) /\ (\A c \in Clients : CallOK(c))
  BY DEF IInv
<1>2. UNCHANGED <<attempt, retry, owner, cancelReq, record, proc, workerVars, api, faults>>
  BY DEF ManagerRecover
<1>3. /\ status' \in [Jobs -> Status \cup {"none"}]
      /\ \A j \in Jobs : status'[j] = status[j] \/ status'[j] = "INTERRUPTED"
  BY MarkStaleEffect DEF ManagerRecover
<1>4. TypeOK'
  BY <1>1, <1>2, <1>3 DEF TypeOK, workerVars
<1>5. (\A v \in Workers : DrainOK(v)') /\ (\A c \in Clients : CallOK(c)')
  BY <1>1, <1>2 DEF DrainOK, CallOK, workerVars
<1>6. QED
  BY <1>2, <1>3, <1>4, <1>5, TableStep DEF workerVars

\* ... and so does the restart recovery of a worker.
LEMMA RecoverStep ==
    ASSUME IInv, NEW w \in Workers, Recover(w) PROVE IInv'
<1>1. /\ TypeOK /\ (\A v \in Workers : DrainOK(v)) /\ (\A c \in Clients : CallOK(c))
  BY DEF IInv
<1>2. /\ UNCHANGED <<attempt, retry, owner, cancelReq, record, proc, rpc, snap>>
      /\ UNCHANGED <<drainSeen, api, faults>>
  BY DEF Recover
<1>3. /\ status' \in [Jobs -> Status \cup {"none"}]
      /\ \A j \in Jobs : status'[j] = status[j] \/ status'[j] = "INTERRUPTED"
  BY MarkStaleEffect DEF Recover, Namesakes
<1>4. /\ wpc' \in [Workers -> MainPC] /\ wpc'[w] = "polling"
      /\ \A v \in Workers : v # w => wpc'[v] = wpc[v]
  BY <1>1, MainEffect DEF Recover, MainPC
<1>5. TypeOK'
  BY <1>1, <1>2, <1>3, <1>4 DEF TypeOK
<1>6. (\A v \in Workers : DrainOK(v)') /\ (\A c \in Clients : CallOK(c)')
  BY <1>1, <1>2, <1>4 DEF DrainOK, CallOK
<1>7. QED
  BY <1>2, <1>3, <1>5, <1>6, TableStep

\* A step of a main thread that writes no table; its runner may go idle.
LEMMA MainStep ==
    ASSUME IInv, NEW w \in Workers, NEW pc \in MainPC, NEW rc \in {rpc[w], "idle", "touch"},
           UNCHANGED <<jobVars, record, proc, snap, api>>,
           wpc' = [wpc EXCEPT ![w] = pc], rpc' = [rpc EXCEPT ![w] = rc],
           faults' \in 0 .. MaxFaults, drainSeen' \in [Workers -> Status],
           \A v \in Workers : v # w => drainSeen'[v] = drainSeen[v],
           pc = "requesting" => drainSeen'[w] \in Active
    PROVE  IInv'
<1>1. /\ TypeOK /\ (\A v \in Workers : DrainOK(v)) /\ (\A c \in Clients : CallOK(c))
  BY DEF IInv
<1>2. /\ wpc' \in [Workers -> MainPC] /\ wpc'[w] = pc
      /\ \A v \in Workers : v # w => wpc'[v] = wpc[v]
  BY <1>1 DEF TypeOK
<1>3. /\ rpc' \in [Workers -> RunnerPC]
      /\ \A v \in Workers : rpc'[v] = rpc[v] \/ rpc'[v] \in {"idle", "touch"}
  BY <1>1 DEF TypeOK, RunnerPC
<1>4. TypeOK'
  BY <1>1, <1>2, <1>3 DEF TypeOK, jobVars
<1>5. (\A v \in Workers : DrainOK(v)') /\ (\A c \in Clients : CallOK(c)')
  BY <1>1, <1>2 DEF DrainOK, CallOK
<1>6. QED
  BY <1>3, <1>4, <1>5, TableStep DEF jobVars

\* Writing the value a thread already has changes nothing.
LEMMA SamePC ==
    ASSUME TypeOK, NEW w \in Workers
    PROVE  /\ wpc = [wpc EXCEPT ![w] = wpc[w]] /\ wpc[w] \in MainPC
           /\ rpc = [rpc EXCEPT ![w] = rpc[w]] /\ rpc[w] \in RunnerPC
BY DEF TypeOK

\* A worker registers.
LEMMA RegisterStep ==
    ASSUME IInv, NEW w \in Workers, Register(w) PROVE IInv'
<1>1. TypeOK
  BY DEF IInv
<1>2. /\ UNCHANGED <<jobVars, record, proc, snap, api>>
      /\ wpc' = [wpc EXCEPT ![w] = "registered"]
      /\ rpc' = [rpc EXCEPT ![w] = rpc[w]]
      /\ faults' \in 0 .. MaxFaults /\ drainSeen' \in [Workers -> Status]
      /\ \A v \in Workers : v # w => drainSeen'[v] = drainSeen[v]
  BY <1>1, SamePC DEF Register, Main, TypeOK
<1>3. "registered" \in MainPC /\ "registered" # "requesting"
  BY DEF MainPC
<1>4. QED
  BY <1>2, <1>3, MainStep

\* A claim that raises leaves the tables alone.
LEMMA ClaimFailsStep ==
    ASSUME IInv, NEW w \in Workers, ClaimFails(w) PROVE IInv'
<1>1. TypeOK
  BY DEF IInv
<1>2. /\ UNCHANGED <<jobVars, record, proc, snap, api>>
      /\ wpc[w] = "polling"
      /\ wpc' = [wpc EXCEPT ![w] = wpc[w]]
      /\ rpc' = [rpc EXCEPT ![w] = "touch"]
      /\ faults' \in 0 .. MaxFaults /\ drainSeen' \in [Workers -> Status]
      /\ \A v \in Workers : v # w => drainSeen'[v] = drainSeen[v]
  BY <1>1, SamePC DEF ClaimFails, GoTo, Returns, TypeOK
<1>3. wpc[w] \in MainPC
  BY <1>1, SamePC
<1>4. QED
  BY <1>2, <1>3, MainStep

\* Reporting ERROR, successfully or not, leaves the tables alone.
LEMMA TouchErrorStep ==
    ASSUME IInv, NEW w \in Workers, TouchError(w) PROVE IInv'
<1>1. TypeOK /\ DrainOK(w)
  BY DEF IInv
<1>2. /\ UNCHANGED <<jobVars, record, proc, snap, api>>
      /\ rpc' = [rpc EXCEPT ![w] = "idle"]
      /\ faults' \in 0 .. MaxFaults /\ drainSeen' \in [Workers -> Status]
      /\ drainSeen' = drainSeen
  BY <1>1, ReturnsEffect DEF TouchError, GoTo, TypeOK
<1>3. CASE UNCHANGED wpc
  <2>1. wpc' = [wpc EXCEPT ![w] = wpc[w]] /\ wpc[w] \in MainPC
    BY <1>1, <1>3, SamePC
  <2>2. wpc[w] = "requesting" => drainSeen'[w] \in Active
    BY <1>1, <1>2 DEF DrainOK
  <2>3. QED
    BY <1>2, <2>1, <2>2, MainStep
<1>4. CASE wpc' = [wpc EXCEPT ![w] = "waiting"]
  <2>1. "waiting" \in MainPC /\ "waiting" # "requesting"
    BY DEF MainPC
  <2>2. QED
    BY <1>2, <1>4, <2>1, MainStep
<1>5. QED
  BY <1>3, <1>4 DEF TouchError, Main

\* Stopping the loop leaves the tables alone.
LEMMA StopStep ==
    ASSUME IInv, NEW w \in Workers, Stop(w) PROVE IInv'
<1>1. TypeOK
  BY DEF IInv
<1>2. /\ UNCHANGED <<jobVars, record, proc, snap, api>>
      /\ rpc' = [rpc EXCEPT ![w] = rpc[w]]
      /\ faults' \in 0 .. MaxFaults /\ drainSeen' \in [Workers -> Status]
      /\ drainSeen' = drainSeen
  BY <1>1, SamePC DEF Stop, TypeOK
<1>3. PICK pc \in {"waiting", "draining"} : wpc' = [wpc EXCEPT ![w] = pc]
  BY DEF Stop, Main
<1>4. pc \in MainPC /\ pc # "requesting"
  BY DEF MainPC
<1>5. QED
  BY <1>2, <1>3, <1>4, MainStep

\* The drain remembers a status only if it is active.
LEMMA DrainReadStep ==
    ASSUME IInv, NEW w \in Workers, DrainRead(w) PROVE IInv'
<1>0. PICK j \in Jobs : j = snap[w].job
  BY DEF IInv, TypeOK, Snapshot
<1>1. TypeOK
  BY DEF IInv
<1>2. /\ UNCHANGED <<jobVars, record, proc, snap, api>>
      /\ rpc' = [rpc EXCEPT ![w] = rpc[w]]
      /\ faults' \in 0 .. MaxFaults
  BY <1>1, SamePC, ReturnsEffect DEF DrainRead, TypeOK
<1>3. CASE /\ status[j] \in Active
           /\ drainSeen' = [drainSeen EXCEPT ![w] = status[j]]
           /\ wpc' = [wpc EXCEPT ![w] = "requesting"]
  <2>1. /\ drainSeen' \in [Workers -> Status] /\ drainSeen'[w] = status[j]
        /\ \A v \in Workers : v # w => drainSeen'[v] = drainSeen[v]
    BY <1>1, <1>3 DEF TypeOK
  <2>2. "requesting" \in MainPC
    BY DEF MainPC
  <2>3. QED
    BY <1>2, <1>3, <2>1, <2>2, MainStep
<1>4. CASE UNCHANGED drainSeen /\ wpc' = [wpc EXCEPT ![w] = "waiting"]
  <2>1. "waiting" \in MainPC /\ "waiting" # "requesting"
    BY DEF MainPC
  <2>2. drainSeen' \in [Workers -> Status]
    BY <1>1, <1>4 DEF TypeOK
  <2>3. QED
    BY <1>2, <1>4, <2>1, <2>2, MainStep
<1>5. QED
  BY <1>0, <1>3, <1>4 DEF DrainRead, Main

\* Raising cancel_requested swaps a status for itself.
LEMMA DrainCommitStep ==
    ASSUME IInv, NEW w \in Workers, DrainCommit(w) PROVE IInv'
<1>0. PICK j \in Jobs : j = snap[w].job
  BY DEF IInv, TypeOK, Snapshot
<1>1. /\ TypeOK /\ (\A v \in Workers : DrainOK(v)) /\ (\A c \in Clients : CallOK(c))
      /\ wpc[w] = "requesting" /\ drainSeen[w] \in Status
  BY DEF IInv, DrainCommit, TypeOK
<1>2. UNCHANGED <<attempt, retry, owner, record, proc, rpc, snap, api>>
  BY DEF DrainCommit
<1>3. PICK out \in Outcomes :
         /\ UpdateStatus(j, drainSeen[w], drainSeen[w], out)
         /\ cancelReq' \in {cancelReq, [cancelReq EXCEPT ![j] = TRUE]}
  BY <1>0 DEF DrainCommit
<1>4. /\ status' \in [Jobs -> Status \cup {"none"}]
      /\ \A i \in Jobs : status'[i] = status[i]
      /\ faults' \in 0 .. MaxFaults
  BY <1>1, <1>3, UpdateStatusEffect
<1>5. cancelReq' \in [Jobs -> BOOLEAN]
  BY <1>1, <1>3 DEF TypeOK
<1>6. /\ wpc' \in [Workers -> MainPC] /\ wpc'[w] = "waiting"
      /\ \A v \in Workers : v # w => wpc'[v] = wpc[v]
  BY <1>1, MainEffect DEF DrainCommit, MainPC
<1>7. /\ drainSeen' \in [Workers -> Status]
      /\ \A v \in Workers : v # w => drainSeen'[v] = drainSeen[v]
  BY <1>1 DEF DrainCommit, TypeOK
<1>8. TypeOK'
  BY <1>1, <1>2, <1>4, <1>5, <1>6, <1>7 DEF TypeOK
<1>9. (\A v \in Workers : DrainOK(v)') /\ (\A c \in Clients : CallOK(c)')
  BY <1>1, <1>2, <1>6, <1>7 DEF DrainOK, CallOK
<1>10. QED
  BY <1>2, <1>4, <1>8, <1>9, TableStep

\* A worker goes offline.
LEMMA OfflineStep ==
    ASSUME IInv, NEW w \in Workers, Offline(w) PROVE IInv'
<1>1. TypeOK
  BY DEF IInv
<1>2. /\ UNCHANGED <<jobVars, record, proc, snap, api>>
      /\ wpc' = [wpc EXCEPT ![w] = "gone"]
      /\ rpc' = [rpc EXCEPT ![w] = rpc[w]]
      /\ faults' \in 0 .. MaxFaults /\ drainSeen' \in [Workers -> Status]
      /\ drainSeen' = drainSeen
  BY <1>1, SamePC DEF Offline, Main, TypeOK
<1>3. "gone" \in MainPC /\ "gone" # "requesting"
  BY DEF MainPC
<1>4. QED
  BY <1>2, <1>3, MainStep

\* A worker that dies leaves the tables alone.
LEMMA CrashStep ==
    ASSUME IInv, NEW w \in Workers, Crash(w) PROVE IInv'
<1>1. TypeOK
  BY DEF IInv
<1>2. /\ UNCHANGED <<jobVars, record, proc, snap, api>>
      /\ wpc' = [wpc EXCEPT ![w] = "gone"]
      /\ rpc' = [rpc EXCEPT ![w] = "idle"]
      /\ faults' \in 0 .. MaxFaults /\ drainSeen' \in [Workers -> Status]
      /\ drainSeen' = drainSeen
  BY <1>1 DEF Crash, Main, GoTo, TypeOK
<1>3. "gone" \in MainPC /\ "gone" # "requesting"
  BY DEF MainPC
<1>4. QED
  BY <1>2, <1>3, MainStep

\* A claimed job had no runner, since a runner's job is not in the queue.
LEMMA ClaimStep ==
    ASSUME IInv, NEW w \in Workers, Claim(w) PROVE IInv'
<1>1. TypeOK /\ wpc[w] = "polling" /\ rpc[w] = "idle"
  BY DEF IInv, Claim
<1>2. UNCHANGED <<retry, cancelReq, record, proc, wpc, drainSeen, api, faults>>
  BY DEF Claim
<1>3. PICK j \in Jobs :
         /\ NextInQueue(w, j)
         /\ status' = [status EXCEPT ![j] = "ASSIGNED"]
         /\ owner' = [owner EXCEPT ![j] = w]
         /\ attempt' = [attempt EXCEPT ![j] = @ + 1]
         /\ snap' = [snap EXCEPT ![w].job = j]
  BY DEF Claim
<1>4. status[j] = "QUEUED"
  BY <1>3 DEF NextInQueue
<1>5. /\ status' \in [Jobs -> Status \cup {"none"}] /\ status'[j] = "ASSIGNED"
      /\ owner' \in [Jobs -> Workers \cup {NoWorker}] /\ owner'[j] = w
      /\ attempt' \in [Jobs -> Nat] /\ attempt'[j] = attempt[j] + 1
      /\ \A i \in Jobs : i # j => /\ status'[i] = status[i]
                                 /\ owner'[i] = owner[i]
                                 /\ attempt'[i] = attempt[i]
  BY <1>1, <1>3 DEF TypeOK
<1>6. /\ snap' \in [Workers -> Snapshot] /\ snap'[w].job = j
      /\ \A v \in Workers : v # w => snap'[v] = snap[v]
  <2>1. snap[w] \in Snapshot
    BY <1>1 DEF TypeOK
  <2>2. QED
    BY <1>1, <1>3, <2>1, SnapJob DEF Snapshot
<1>7. /\ rpc' \in [Workers -> RunnerPC] /\ rpc'[w] = "claimed"
      /\ \A v \in Workers : v # w => rpc'[v] = rpc[v]
  BY <1>1, GoToEffect DEF Claim, RunnerPC
<1>8. TypeOK'
  BY <1>1, <1>2, <1>5, <1>6, <1>7 DEF TypeOK
<1>9. \A v \in Workers : Busy(v) => snap[v].job # j
  BY <1>4 DEF IInv, RunnerOK
<1>10. JobOK(j) /\ attempt[j] = retry[j] /\ retry[j] \in Nat
  BY <1>1, <1>4 DEF IInv, JobOK, TypeOK
<1>11. JobOK(j)'
  BY <1>2, <1>5, <1>10 DEF JobOK
<1>12. ChildOK(j)'
  <2>1. ChildOK(j)
    BY DEF IInv
  <2>2. QED
    BY <1>2, <1>4, <2>1 DEF ChildOK
<1>13. RunnerOK(w)'
  BY <1>2, <1>5, <1>6, <1>7, <1>10 DEF RunnerOK, Busy
<1>14. \A v \in Workers : DrainOK(v)'
  BY <1>2 DEF IInv, DrainOK
<1>15. \A i \in Jobs : i # j => record'[i] = record[i] /\ proc'[i] = proc[i] /\ retry'[i] = retry[i]
  BY <1>2
<1>16. QED
  BY <1>2, <1>5, <1>6, <1>7, <1>8, <1>9, <1>11, <1>12, <1>13, <1>14, <1>15, OneRow

\* A child that exits was not one a runner has already seen exited.
LEMMA ChildExitStep ==
    ASSUME IInv, NEW j \in Jobs, NEW a \in Attempts, ChildExit(j, a) PROVE IInv'
<1>1. TypeOK
  BY DEF IInv
<1>2. UNCHANGED <<jobVars, record, workerVars, api, faults>>
  BY DEF ChildExit
<1>3. PICK code \in Exited : proc' = [proc EXCEPT ![j][a] = code]
  BY DEF ChildExit
<1>4. proc[j][a] \in Living
  BY DEF ChildExit, Living
<1>5. /\ proc' \in [Jobs -> [Attempts -> ChildState]]
      /\ proc'[j][a] = code
      /\ \A b \in Attempts : b # a => proc'[j][b] = proc[j][b]
      /\ \A i \in Jobs : i # j => proc'[i] = proc[i]
  <2>1. proc \in [Jobs -> [Attempts -> ChildState]] /\ code \in ChildState
    BY <1>1, <1>3 DEF TypeOK, ChildState
  <2>2. QED
    BY <1>3, <2>1, CellEffect
<1>6. TypeOK'
  BY <1>1, <1>2, <1>5 DEF TypeOK, ChildState, jobVars, workerVars
<1>7. ASSUME NEW i \in Jobs PROVE JobOK(i)' /\ ChildOK(i)'
  <2>1. JobOK(i) /\ ChildOK(i)
    BY DEF IInv
  <2>2. JobOK(i)'
    BY <1>2, <2>1 DEF JobOK, jobVars
  <2>3. \A b \in Attempts : proc'[i][b] \in Living => proc[i][b] \in Living
    <3>1. code \notin Living
      BY <1>3 DEF Living, Exited
    <3>2. QED
      BY <1>5, <3>1
  <2>4. ChildOK(i)'
    BY <1>2, <2>1, <2>3 DEF ChildOK, jobVars
  <2>5. QED
    BY <2>2, <2>4
<1>8. ASSUME NEW w \in Workers PROVE RunnerOK(w)'
  <2>1. CASE ~Busy(w)
    BY <1>2, <2>1 DEF RunnerOK, Busy, workerVars
  <2>2. CASE Busy(w)
    <3>1. RunnerOK(w)
      BY DEF IInv
    <3>2. /\ snap[w].job \in Jobs
          /\ rpc[w] # "claimed" => snap[w].attempt \in Attempts
      BY <2>2, RunnerFacts
    <3>3. rpc[w] \in {"exited", "finished", "settling", "retrying"} => Child(w)' = Child(w)
      <4>1. ASSUME rpc[w] \in {"exited", "finished", "settling", "retrying"}
            PROVE  Child(w)' = Child(w)
        <5>1. Child(w) \in Exited /\ snap[w].attempt \in Attempts
          BY <2>2, <3>1, <3>2, <4>1 DEF RunnerOK
        <5>2. ~(snap[w].job = j /\ snap[w].attempt = a)
          BY <1>4, <5>1 DEF Child, Living, Exited
        <5>3. QED
          BY <1>2, <1>5, <3>2, <5>1, <5>2 DEF Child, workerVars
      <4>2. QED
        BY <4>1
    <3>4. QED
      BY <1>2, <3>1, <3>3 DEF RunnerOK, Busy, workerVars, jobVars
  <2>3. QED
    BY <2>1, <2>2
<1>9. (\A w \in Workers : DrainOK(w)') /\ (\A c \in Clients : CallOK(c)')
  BY <1>2 DEF IInv, DrainOK, CallOK, workerVars
<1>10. QED
  BY <1>6, <1>7, <1>8, <1>9 DEF IInv

-----------------------------------------------------------------------------
(* The invariant, and what it implies.                                     *)

\* The empty tables satisfy the invariant.
LEMMA InitIInv == Init => IInv
<1> SUFFICES ASSUME Init PROVE IInv
  OBVIOUS
<1>1. TypeOK
  <2>1. [job |-> 1, attempt |-> 0, retry |-> 0, cancel |-> FALSE, seen |-> "PENDING"]
           \in Snapshot
    BY DEF Snapshot
  <2>2. Idle \in Call
    BY DEF Idle, Call
  <2>3. QED
    BY <2>1, <2>2 DEF Init, TypeOK, MainPC, RunnerPC, Exited
<1>2. \A j \in Jobs : JobOK(j) /\ ChildOK(j)
  BY DEF Init, JobOK, ChildOK, Living
<1>3. \A w \in Workers : RunnerOK(w) /\ DrainOK(w)
  BY DEF Init, RunnerOK, DrainOK, Busy
<1>4. \A c \in Clients : CallOK(c)
  BY DEF Init, CallOK, Idle
<1>5. QED
  BY <1>1, <1>2, <1>3, <1>4 DEF IInv

\* Every step of a runner keeps the invariant.
LEMMA RunnerIInv ==
    ASSUME IInv, NEW w \in Workers, Runner(w) PROVE IInv'
<1>1. CASE RunCancelled(w)
  BY <1>1, RunCancelledStep
<1>2. CASE CreateAttempt(w)
  BY <1>2, CreateAttemptStep
<1>3. CASE Popen(w)
  BY <1>3, PopenStep
<1>4. CASE FailAttempt(w)
  BY <1>4, FailAttemptStep
<1>5. CASE FailStart(w)
  BY <1>5, FailStartStep
<1>6. CASE MarkRunning(w)
  BY <1>6, MarkRunningStep
<1>7. CASE RecordPid(w)
  BY <1>7, RecordPidStep
<1>8. CASE PollCancel(w)
  BY <1>8, PollCancelStep
<1>9. CASE Kill(w)
  BY <1>9, KillStep
<1>10. CASE MonitorEnds(w)
  BY <1>10, MonitorEndsStep
<1>11. CASE FinishAttempt(w)
  BY <1>11, FinishAttemptStep
<1>12. CASE FinalRead(w)
  BY <1>12, FinalReadStep
<1>13. CASE Settle(w)
  BY <1>13, SettleStep
<1>14. CASE Requeue(w)
  BY <1>14, RequeueStep
<1>15. CASE FallbackRead(w)
  BY <1>15, FallbackReadStep
<1>16. CASE FallbackFail(w)
  BY <1>16, FallbackFailStep
<1>17. QED
  BY <1>1, <1>2, <1>3, <1>4, <1>5, <1>6, <1>7, <1>8, <1>9, <1>10, <1>11, <1>12, <1>13,
     <1>14, <1>15, <1>16 DEF Runner

\* Every step of a main thread keeps the invariant.
LEMMA MainIInv ==
    ASSUME IInv, NEW w \in Workers, MainThread(w) PROVE IInv'
<1>1. CASE Recover(w)
  BY <1>1, RecoverStep
<1>2. CASE Claim(w)
  BY <1>2, ClaimStep
<1>3. CASE ClaimRead(w)
  BY <1>3, ClaimReadStep
<1>4. CASE ClaimFails(w)
  BY <1>4, ClaimFailsStep
<1>5. CASE TouchError(w)
  BY <1>5, TouchErrorStep
<1>6. CASE DrainRead(w)
  BY <1>6, DrainReadStep
<1>7. CASE DrainCommit(w)
  BY <1>7, DrainCommitStep
<1>8. CASE Offline(w)
  BY <1>8, OfflineStep
<1>9. QED
  BY <1>1, <1>2, <1>3, <1>4, <1>5, <1>6, <1>7, <1>8 DEF MainThread

\* Every step of the web process keeps the invariant.
LEMMA ApiIInv ==
    ASSUME IInv, Api PROVE IInv'
<1>1. CASE \E c \in Clients, j \in Jobs : SubmitCreate(c, j)
  BY <1>1, SubmitCreateStep
<1>2. CASE \E c \in Clients, op \in ApiOps \ {"submit"}, j \in Jobs : ApiRead(c, op, j)
  BY <1>2, ApiReadStep
<1>3. CASE \E c \in Clients : ApiCommit(c)
  BY <1>3, ApiCommitStep
<1>4. CASE \E c \in Clients : ApiCrash(c)
  BY <1>4, ApiCrashStep
<1>5. CASE \E w \in Workers : ManagerRecover(w)
  BY <1>5, ManagerRecoverStep
<1>6. QED
  BY <1>1, <1>2, <1>3, <1>4, <1>5 DEF Api

\* Nothing happens.
LEMMA StutterIInv == IInv /\ UNCHANGED vars => IInv'
<1> SUFFICES ASSUME IInv, UNCHANGED vars PROVE IInv'
  OBVIOUS
<1>1. UNCHANGED <<status, attempt, retry, owner, cancelReq, record, proc,
                  wpc, rpc, snap, drainSeen, api, faults>>
  BY DEF vars, jobVars, workerVars
<1>2. /\ TypeOK /\ (\A w \in Workers : DrainOK(w)) /\ (\A c \in Clients : CallOK(c))
  BY DEF IInv
<1>3. TypeOK'
  BY <1>1, <1>2 DEF TypeOK
<1>4. (\A w \in Workers : DrainOK(w)') /\ (\A c \in Clients : CallOK(c)')
  BY <1>1, <1>2 DEF DrainOK, CallOK
<1>5. QED
  BY <1>1, <1>3, <1>4, TableStep

\* The invariant is inductive.
LEMMA StepIInv == IInv /\ [Next]_vars => IInv'
<1> SUFFICES ASSUME IInv, [Next]_vars PROVE IInv'
  OBVIOUS
<1>1. CASE Api
  BY <1>1, ApiIInv
<1>2. ASSUME NEW w \in Workers,
             Register(w) \/ Stop(w) \/ Crash(w) \/ MainThread(w) \/ Runner(w)
      PROVE  IInv'
  BY <1>2, RegisterStep, StopStep, CrashStep, MainIInv, RunnerIInv
<1>3. ASSUME NEW j \in Jobs, NEW a \in Attempts, ChildExit(j, a) PROVE IInv'
  BY <1>3, ChildExitStep
<1>4. CASE UNCHANGED vars
  BY <1>4, StutterIInv
<1>5. QED
  BY <1>1, <1>2, <1>3, <1>4 DEF Next

\* The invariant holds in every reachable state.
THEOREM Invariance == Spec => []IInv
BY InitIInv, StepIInv, PTL DEF Spec

\* Every table, thread and call in flight keeps to its type: no operation of
\* the store, the manager, the worker or the runner leaves a row malformed.
THEOREM TypeCorrect == Spec => []TypeOK
<1>1. IInv => TypeOK
  BY DEF IInv
<1>2. QED
  BY <1>1, Invariance, PTL

\* No job is ever worked on by two workers (claim_next, TaskRunner.run): the
\* runner owns the row, and a row has one owner.
THEOREM OneRunner == Spec => []OneRunnerPerJob
<1>1. IInv => OneRunnerPerJob
  BY DEF IInv, RunnerOK, OneRunnerPerJob, Runs, Busy
<1>2. QED
  BY <1>1, Invariance, PTL

\* A job never has two living child processes, whatever crashed or was retried.
THEOREM OneChild == Spec => []OneChildPerJob
<1>1. IInv => OneChildPerJob
  BY DEF IInv, ChildOK, OneChildPerJob
<1>2. QED
  BY <1>1, Invariance, PTL

\* attempt_no and retry_count never part, and max_retry bounds the retries.
THEOREM Accounting == Spec => []AttemptAccounting
<1>1. IInv => AttemptAccounting
  <2> SUFFICES ASSUME IInv, NEW j \in Jobs
               PROVE  /\ retry[j] <= MaxRetry[j]
                      /\ attempt[j] \in retry[j] .. retry[j] + 1
                      /\ status[j] \in Waiting \cup {"none"} => attempt[j] = retry[j]
                      /\ status[j] \in Active => attempt[j] = retry[j] + 1
    BY DEF AttemptAccounting
  <2>1. JobOK(j) /\ attempt[j] \in Nat /\ retry[j] \in Nat
    BY DEF IInv, TypeOK
  <2>2. QED
    BY <2>1 DEF JobOK
<1>2. QED
  BY <1>1, Invariance, PTL

\* A SUCCESS is always backed by a recorded exit code 0 of the last attempt
\* (TaskRunner._finalize).
THEOREM RecordedSuccess == Spec => []SuccessIsRecorded
<1>1. IInv => SuccessIsRecorded
  <2> SUFFICES ASSUME IInv, NEW j \in Jobs, status[j] = "SUCCESS"
               PROVE  attempt[j] \in Attempts /\ record[j][attempt[j]] = "exit0"
    BY DEF SuccessIsRecorded
  <2>1. /\ JobOK(j) /\ attempt[j] \in Nat /\ retry[j] \in Nat
        /\ MaxRetry[j] \in 0 .. RetryCap
    BY DEF IInv, TypeOK
  <2>2. attempt[j] \in Attempts
    BY <2>1 DEF JobOK
  <2>3. QED
    BY <2>1, <2>2 DEF JobOK
<1>2. QED
  BY <1>1, Invariance, PTL

-----------------------------------------------------------------------------
(* The platform implements JobLifecycle.                                   *)

Stutters == UNCHANGED Lifecycle!lifecycleVars
Implements == Lifecycle!LifecycleNext \/ Stutters

\* An update_status along an edge of the table is a Move.
LEMMA UpdateIsMove ==
    ASSUME TypeOK, NEW j \in Jobs, NEW from, NEW to \in Status, NEW out \in Outcomes,
           UpdateStatus(j, from, to, out), UNCHANGED <<attempt, retry>>,
           from = to \/ (to # "ASSIGNED" /\ Lifecycle!CanTransition(from, to))
    PROVE  Implements
<1>1. CASE ~Commits(out)
  BY <1>1 DEF UpdateStatus, Implements, Stutters, Lifecycle!lifecycleVars
<1>2. CASE Commits(out)
  <2>1. status[j] = from /\ status' = [status EXCEPT ![j] = to]
    BY <1>2 DEF UpdateStatus
  <2>2. CASE from = to
    <3>1. status' = status
      BY <2>1, <2>2 DEF TypeOK
    <3>2. QED
      BY <3>1 DEF Implements, Stutters, Lifecycle!lifecycleVars
  <2>3. CASE to # "ASSIGNED" /\ Lifecycle!CanTransition(from, to)
    <3>1. Lifecycle!Move(j)
      BY <2>1, <2>3 DEF Lifecycle!Move
    <3>2. QED
      BY <3>1 DEF Implements, Lifecycle!LifecycleNext
  <2>4. QED
    BY <2>2, <2>3
<1>3. QED
  BY <1>1, <1>2

\* mark_stale, with or without the namesakes, is a Sweep.
LEMMA MarkStaleIsSweep ==
    ASSUME IInv, NEW w \in Workers, NEW S, S \subseteq Workers, NEW stale,
           MarkStale(w, S, stale), UNCHANGED <<attempt, retry>>
    PROVE  Implements
<1>1. /\ status' \in [Jobs -> Status \cup {"none"}]
      /\ \A j \in Jobs : status'[j] = status[j]
                          \/ (status'[j] = "INTERRUPTED" /\ attempt[j] > 0)
  BY MarkStaleEffect
<1>2. status \in [Jobs -> Status \cup {"none"}]
  BY DEF IInv, TypeOK
<1>3. PICK T : T = {j \in Jobs : attempt[j] > 0 /\ status'[j] = "INTERRUPTED"}
  OBVIOUS
<1>4. T \in SUBSET {j \in Jobs : attempt[j] > 0}
  BY <1>3
<1>5. status' = [j \in Jobs |-> IF j \in T THEN "INTERRUPTED" ELSE status[j]]
  <2>1. \A j \in Jobs : status'[j] = IF j \in T THEN "INTERRUPTED" ELSE status[j]
    BY <1>1, <1>3
  <2>2. QED
    BY <1>1, <2>1
<1>6. Lifecycle!Sweep
  BY <1>4, <1>5 DEF Lifecycle!Sweep
<1>7. QED
  BY <1>6 DEF Implements, Lifecycle!LifecycleNext

\* claim_next is a Claim: the queued job has used one attempt per retry.
LEMMA ClaimIsClaim ==
    ASSUME IInv, NEW w \in Workers, Claim(w) PROVE Implements
<1>1. PICK j \in Jobs :
         /\ NextInQueue(w, j)
         /\ status' = [status EXCEPT ![j] = "ASSIGNED"]
         /\ attempt' = [attempt EXCEPT ![j] = @ + 1]
  BY DEF Claim
<1>2. status[j] = "QUEUED" /\ JobOK(j) /\ UNCHANGED retry
  BY <1>1 DEF NextInQueue, IInv, Claim
<1>3. Lifecycle!Claim(j)
  BY <1>1, <1>2 DEF Lifecycle!Claim, JobOK
<1>4. QED
  BY <1>3 DEF Implements, Lifecycle!LifecycleNext

\* The second transaction of a retry is a Retry: nobody has touched the
\* counters since the runner read them.
LEMMA RequeueIsRetry ==
    ASSUME IInv, NEW w \in Workers, Requeue(w) PROVE Implements
<1>0. PICK j \in Jobs : j = snap[w].job
  BY DEF IInv, TypeOK, Snapshot
<1>1. TypeOK /\ RunnerOK(w) /\ Busy(w) /\ rpc[w] = "retrying" /\ UNCHANGED attempt
  BY DEF IInv, Requeue, Busy
<1>2. PICK out \in Outcomes :
         /\ UpdateStatus(j, "FAILED", "QUEUED", out)
         /\ retry' = IF Commits(out) THEN [retry EXCEPT ![j] = @ + 1] ELSE retry
  BY <1>0 DEF Requeue
<1>3. CASE ~Commits(out)
  BY <1>1, <1>2, <1>3 DEF UpdateStatus, Implements, Stutters, Lifecycle!lifecycleVars
<1>4. CASE Commits(out)
  <2>1. /\ status[j] = "FAILED" /\ status' = [status EXCEPT ![j] = "QUEUED"]
        /\ retry' = [retry EXCEPT ![j] = @ + 1]
    BY <1>2, <1>4 DEF UpdateStatus
  <2>2. retry[j] < MaxRetry[j] /\ attempt[j] = retry[j] + 1
    BY <1>0, <1>1 DEF RunnerOK
  <2>3. retry'[j] = retry[j] + 1
    BY <1>1, <2>1 DEF TypeOK
  <2>4. Lifecycle!Retry(j)
    BY <1>1, <2>1, <2>2, <2>3 DEF Lifecycle!Retry
  <2>5. QED
    BY <2>4 DEF Implements, Lifecycle!LifecycleNext
<1>5. QED
  BY <1>3, <1>4

\* The other steps of a runner settle its job along the table, or leave the
\* row alone.
LEMMA RunnerImplements ==
    ASSUME IInv, NEW w \in Workers, Runner(w) PROVE Implements
<1>0. PICK j \in Jobs : j = snap[w].job
  BY DEF IInv, TypeOK, Snapshot
<1>1. TypeOK /\ RunnerOK(w)
  BY DEF IInv
<1>2. CASE UNCHANGED jobVars
  BY <1>2 DEF jobVars, Implements, Stutters, Lifecycle!lifecycleVars
<1>3. CASE RunCancelled(w)
  <2>1. PICK out \in Outcomes : UpdateStatus(j, "ASSIGNED", "CANCELLED", out)
    BY <1>0, <1>3 DEF RunCancelled
  <2>2. Lifecycle!CanTransition("ASSIGNED", "CANCELLED") /\ "CANCELLED" \in Status
    BY DEF Lifecycle!CanTransition, Lifecycle!Allowed
  <2>3. QED
    BY <1>1, <1>3, <2>1, <2>2, UpdateIsMove DEF RunCancelled
<1>4. CASE FailStart(w)
  <2>1. PICK out \in Outcomes : UpdateStatus(j, "ASSIGNED", "FAILED", out)
    BY <1>0, <1>4 DEF FailStart
  <2>2. Lifecycle!CanTransition("ASSIGNED", "FAILED") /\ "FAILED" \in Status
    BY DEF Lifecycle!CanTransition, Lifecycle!Allowed
  <2>3. QED
    BY <1>1, <1>4, <2>1, <2>2, UpdateIsMove DEF FailStart
<1>5. CASE MarkRunning(w)
  <2>1. PICK out \in Outcomes : UpdateStatus(j, "ASSIGNED", "RUNNING", out)
    BY <1>0, <1>5 DEF MarkRunning
  <2>2. Lifecycle!CanTransition("ASSIGNED", "RUNNING") /\ "RUNNING" \in Status
    BY DEF Lifecycle!CanTransition, Lifecycle!Allowed
  <2>3. QED
    BY <1>1, <1>5, <2>1, <2>2, UpdateIsMove DEF MarkRunning
<1>6. CASE Settle(w)
  <2>1. PICK out \in Outcomes : UpdateStatus(j, "RUNNING", Verdict(w), out)
    BY <1>0, <1>6 DEF Settle
  <2>2. Verdict(w) \in {"CANCELLED", "SUCCESS", "FAILED"}
    BY DEF Verdict
  <2>3. Lifecycle!CanTransition("RUNNING", Verdict(w)) /\ Verdict(w) \in Status \ {"ASSIGNED"}
    BY <2>2 DEF Lifecycle!CanTransition, Lifecycle!Allowed
  <2>4. QED
    BY <1>1, <1>6, <2>1, <2>3, UpdateIsMove DEF Settle
<1>7. CASE Requeue(w)
  BY <1>7, RequeueIsRetry
<1>8. CASE FallbackFail(w)
  <2>1. PICK out \in Outcomes : UpdateStatus(j, snap[w].seen, "FAILED", out)
    BY <1>0, <1>8 DEF FallbackFail
  <2>2. snap[w].seen \in Active
    BY <1>1, <1>8 DEF RunnerOK, Busy, FallbackFail
  <2>3. Lifecycle!CanTransition(snap[w].seen, "FAILED") /\ "FAILED" \in Status
    BY <2>2 DEF Lifecycle!CanTransition, Lifecycle!Allowed
  <2>4. QED
    BY <1>1, <1>8, <2>1, <2>3, UpdateIsMove DEF FallbackFail
<1>9. QED
  <2>1. CreateAttempt(w) \/ Popen(w) \/ FailAttempt(w) \/ RecordPid(w) \/ PollCancel(w)
          => UNCHANGED jobVars
    BY DEF CreateAttempt, Popen, FailAttempt, RecordPid, PollCancel
  <2>2. Kill(w) \/ MonitorEnds(w) \/ FinishAttempt(w) \/ FinalRead(w) \/ FallbackRead(w)
          => UNCHANGED jobVars
    BY DEF Kill, MonitorEnds, FinishAttempt, FinalRead, FallbackRead
  <2>3. QED
    BY <1>2, <1>3, <1>4, <1>5, <1>6, <1>7, <1>8, <2>1, <2>2 DEF Runner

\* The main threads claim, sweep, or leave the rows alone.
LEMMA MainImplements ==
    ASSUME IInv, NEW w \in Workers,
           Register(w) \/ Stop(w) \/ Crash(w) \/ MainThread(w)
    PROVE  Implements
<1>0. PICK j \in Jobs : j = snap[w].job
  BY DEF IInv, TypeOK, Snapshot
<1>1. TypeOK
  BY DEF IInv
<1>2. CASE UNCHANGED jobVars
  BY <1>2 DEF jobVars, Implements, Stutters, Lifecycle!lifecycleVars
<1>3. CASE Recover(w)
  <2>1. PICK stale \in SUBSET Jobs : MarkStale(w, Namesakes(w), stale)
    BY <1>3 DEF Recover
  <2>2. Namesakes(w) \subseteq Workers
    BY DEF Namesakes
  <2>3. QED
    BY <1>3, <2>1, <2>2, MarkStaleIsSweep DEF Recover
<1>4. CASE Claim(w)
  BY <1>4, ClaimIsClaim
<1>5. CASE DrainCommit(w)
  <2>1. PICK out \in Outcomes : UpdateStatus(j, drainSeen[w], drainSeen[w], out)
    BY <1>0, <1>5 DEF DrainCommit
  <2>2. drainSeen[w] \in Status
    BY <1>1 DEF TypeOK
  <2>3. QED
    BY <1>1, <1>5, <2>1, <2>2, UpdateIsMove DEF DrainCommit
<1>6. QED
  <2>1. Register(w) \/ Stop(w) \/ Crash(w) \/ ClaimRead(w) \/ ClaimFails(w)
          \/ TouchError(w) \/ DrainRead(w) \/ Offline(w) => UNCHANGED jobVars
    BY DEF Register, Stop, Crash, ClaimRead, ClaimFails, TouchError, DrainRead, Offline
  <2>2. QED
    BY <1>2, <1>3, <1>4, <1>5, <2>1 DEF MainThread

\* The web process creates rows, moves waiting jobs, or sweeps.
LEMMA ApiImplements ==
    ASSUME IInv, Api PROVE Implements
<1>1. CASE \E c \in Clients, j \in Jobs : SubmitCreate(c, j)
  <2>1. PICK j \in Jobs : Lifecycle!Create(j)
    BY <1>1 DEF SubmitCreate, Lifecycle!Create
  <2>2. QED
    BY <2>1 DEF Implements, Lifecycle!LifecycleNext
<1>2. CASE \E c \in Clients, op \in ApiOps \ {"submit"}, j \in Jobs : ApiRead(c, op, j)
  BY <1>2 DEF ApiRead, jobVars, Implements, Stutters, Lifecycle!lifecycleVars
<1>3. CASE \E c \in Clients : ApiCommit(c)
  <2>1. PICK c \in Clients : ApiCommit(c)
    BY <1>3
  <2>2. PICK out \in Outcomes :
           UpdateStatus(api[c].job, api[c].seen, Target(api[c]), out)
    BY <2>1 DEF ApiCommit
  <2>3. /\ api[c].job \in Jobs /\ Target(api[c]) \in Status /\ TypeOK
        /\ \/ api[c].seen = Target(api[c])
           \/ /\ Target(api[c]) # "ASSIGNED"
              /\ Lifecycle!CanTransition(api[c].seen, Target(api[c]))
    BY <2>1, TargetEffect DEF ApiCommit, IInv
  <2>4. QED
    BY <2>1, <2>2, <2>3, UpdateIsMove DEF ApiCommit
<1>4. CASE \E c \in Clients : ApiCrash(c)
  BY <1>4 DEF ApiCrash, jobVars, Implements, Stutters, Lifecycle!lifecycleVars
<1>5. CASE \E w \in Workers : ManagerRecover(w)
  <2>1. PICK w \in Workers, stale \in SUBSET Jobs : MarkStale(w, {}, stale)
    BY <1>5 DEF ManagerRecover
  <2>2. UNCHANGED <<attempt, retry>>
    BY <1>5 DEF ManagerRecover
  <2>3. QED
    BY <2>1, <2>2, MarkStaleIsSweep
<1>6. QED
  BY <1>1, <1>2, <1>3, <1>4, <1>5 DEF Api

\* Every step maps to a step of JobLifecycle or to a stutter.
LEMMA StepImplements == IInv /\ [Next]_vars => Implements
<1> SUFFICES ASSUME IInv, [Next]_vars PROVE Implements
  OBVIOUS
<1>1. CASE Api
  BY <1>1, ApiImplements
<1>2. ASSUME NEW w \in Workers,
             Register(w) \/ Stop(w) \/ Crash(w) \/ MainThread(w) \/ Runner(w)
      PROVE  Implements
  BY <1>2, MainImplements, RunnerImplements
<1>3. ASSUME NEW j \in Jobs, NEW a \in Attempts, ChildExit(j, a) PROVE Implements
  BY <1>3 DEF ChildExit, jobVars, Implements, Stutters, Lifecycle!lifecycleVars
<1>4. CASE UNCHANGED vars
  BY <1>4 DEF vars, jobVars, Implements, Stutters, Lifecycle!lifecycleVars
<1>5. QED
  BY <1>1, <1>2, <1>3, <1>4 DEF Next

\* Every behaviour of the web process, the workers, the runners and the
\* children, seen on the job rows, is a behaviour of JobLifecycle.
THEOREM Refinement == Spec => ImplementsLifecycle
<1>1. Init => Lifecycle!LifecycleInit
  BY DEF Init, Lifecycle!LifecycleInit
<1>2. IInv /\ [Next]_vars => [Lifecycle!LifecycleNext]_(Lifecycle!lifecycleVars)
  BY StepImplements DEF Implements, Stutters
<1>3. QED
  BY <1>1, <1>2, Invariance, PTL DEF Spec, ImplementsLifecycle, Lifecycle!LifecycleSpec

\* What LegalTransitions allows one row to do in a step.
LegalStep(j) ==
    status'[j] # status[j] =>
        \/ status[j] = "none" /\ status'[j] = "PENDING"
        \/ Lifecycle!CanTransition(status[j], status'[j])
        \/ status[j] = "FAILED" /\ status'[j] = "QUEUED" /\ retry'[j] > retry[j]
        \/ status'[j] = "INTERRUPTED"

\* Every step of JobLifecycle is legal for every row.
LEMMA ImplementsIsLegal ==
    ASSUME TypeOK, Implements, NEW j \in Jobs PROVE LegalStep(j)
<1>1. CASE Stutters
  BY <1>1 DEF Stutters, Lifecycle!lifecycleVars, LegalStep
<1>2. ASSUME NEW i \in Jobs, Lifecycle!Create(i) PROVE LegalStep(j)
  BY <1>2 DEF TypeOK, Lifecycle!Create, LegalStep
<1>3. ASSUME NEW i \in Jobs, Lifecycle!Move(i) PROVE LegalStep(j)
  BY <1>3 DEF TypeOK, Lifecycle!Move, LegalStep
<1>4. ASSUME NEW i \in Jobs, Lifecycle!Claim(i) PROVE LegalStep(j)
  <2>1. Lifecycle!CanTransition("QUEUED", "ASSIGNED")
    BY DEF Lifecycle!CanTransition, Lifecycle!Allowed
  <2>2. QED
    BY <1>4, <2>1 DEF TypeOK, Lifecycle!Claim, LegalStep
<1>5. ASSUME NEW i \in Jobs, Lifecycle!Retry(i) PROVE LegalStep(j)
  BY <1>5 DEF TypeOK, Lifecycle!Retry, LegalStep
<1>6. CASE Lifecycle!Sweep
  BY <1>6 DEF Lifecycle!Sweep, LegalStep
<1>7. QED
  BY <1>1, <1>2, <1>3, <1>4, <1>5, <1>6 DEF Implements, Lifecycle!LifecycleNext

\* The table of state_machine.py, which the store never consults, is respected
\* by everything that moves a job, but for the interruptions of a restart.
THEOREM Legality == Spec => LegalTransitions
<1>1. IInv /\ [Next]_vars => [\A j \in Jobs : LegalStep(j)]_vars
  BY StepImplements, ImplementsIsLegal DEF IInv
<1>2. [\A j \in Jobs : LegalStep(j)]_vars =>
        [\A j \in Jobs : status'[j] # status[j] =>
            \/ status[j] = "none" /\ status'[j] = "PENDING"
            \/ Lifecycle!CanTransition(status[j], status'[j])
            \/ status[j] = "FAILED" /\ status'[j] = "QUEUED" /\ retry'[j] > retry[j]
            \/ status'[j] = "INTERRUPTED"]_vars
  BY Zenon DEF LegalStep
<1>3. QED
  BY <1>1, <1>2, Invariance, PTL DEF Spec, LegalTransitions

-----------------------------------------------------------------------------
(* Active rows and their runners.                                          *)

\* Where a runner is before, and after, it has marked its job as RUNNING.
Starting == {"claimed", "start", "popen", "failing", "failed", "launched"}
Marked   == {"pid", "monitor", "exited", "finished", "settling"}

\* Only its runner moves an active row on, so the row is never ahead of the
\* runner; a runner on its error path knows the status an active row has.
StageOK(w) ==
    /\ rpc[w] \in Starting => status[snap[w].job] # "RUNNING"
    /\ rpc[w] \in Marked => status[snap[w].job] # "ASSIGNED"
    /\ rpc[w] = "retrying" => status[snap[w].job] \notin Active
    /\ rpc[w] = "giveup" /\ status[snap[w].job] \in Active => status[snap[w].job] = snap[w].seen

\* A claim hands j to w.
Hands(w, j) ==
    /\ Claim(w)
    /\ status[j] = "QUEUED" /\ status'[j] = "ASSIGNED" /\ owner'[j] = w
    /\ rpc'[w] = "claimed" /\ snap'[w].job = j

\* What one claim does to every row and every thread.
LEMMA ClaimEffect ==
    ASSUME IInv, NEW w \in Workers, Claim(w)
    PROVE  \E j \in Jobs : /\ Hands(w, j)
                           /\ \A i \in Jobs : i # j => status'[i] = status[i] /\ owner'[i] = owner[i]
                           /\ \A v \in Workers : v # w => rpc'[v] = rpc[v] /\ snap'[v] = snap[v]
<1>0. TypeOK /\ Claim(w)
  BY DEF IInv
<1>1. PICK j \in Jobs : /\ NextInQueue(w, j)
                        /\ status' = [status EXCEPT ![j] = "ASSIGNED"]
                        /\ owner' = [owner EXCEPT ![j] = w]
                        /\ snap' = [snap EXCEPT ![w].job = j]
  BY DEF Claim
<1>2. status[j] = "QUEUED"
  BY <1>1 DEF NextInQueue
<1>3. snap'[w] = [snap[w] EXCEPT !.job = j] /\ \A v \in Workers : v # w => snap'[v] = snap[v]
  BY <1>0, <1>1, SnapJob
<1>4. snap'[w].job = j
  BY <1>0, <1>3 DEF TypeOK, Snapshot
<1>5. rpc'[w] = "claimed" /\ \A v \in Workers : v # w => rpc'[v] = rpc[v]
  <2>1. GoTo(w, "claimed") /\ "claimed" \in RunnerPC
    BY DEF Claim, RunnerPC
  <2> QED BY <1>0, <2>1, GoToEffect
<1>6. /\ status'[j] = "ASSIGNED" /\ owner'[j] = w
      /\ \A i \in Jobs : i # j => status'[i] = status[i] /\ owner'[i] = owner[i]
  BY <1>0, <1>1 DEF TypeOK
<1> QED BY <1>0, <1>2, <1>3, <1>4, <1>5, <1>6 DEF Hands

\* What no step of a runner touches.
LEMMA RunnerFrame ==
    ASSUME NEW w \in Workers, Runner(w)
    PROVE  /\ Busy(w)
           /\ UNCHANGED <<attempt, owner, cancelReq, wpc, drainSeen, api>>
           /\ UNCHANGED rpc \/ \E pc : GoTo(w, pc)
BY DEF Runner, RunCancelled, CreateAttempt, Popen, FailAttempt, FailStart, MarkRunning, RecordPid,
   PollCancel, Kill, MonitorEnds, FinishAttempt, FinalRead, Settle, Requeue, FallbackRead,
   FallbackFail, Busy, jobVars, workerVars

\* What a runner may do to the rows: it writes the status of its own job, and
\* only MarkRunning writes an active one.
LEMMA RunnerRows ==
    ASSUME IInv, NEW w \in Workers, Runner(w)
    PROVE  /\ owner' = owner
           /\ \A i \in Jobs : i # snap[w].job => status'[i] = status[i]
           /\ \/ status'[snap[w].job] = status[snap[w].job]
              \/ status'[snap[w].job] \notin Active
              \/ MarkRunning(w) /\ status'[snap[w].job] = "RUNNING" /\ status[snap[w].job] = "ASSIGNED"
<1>0. PICK j \in Jobs : j = snap[w].job
  BY DEF IInv, TypeOK, Snapshot
<1>1. TypeOK
  BY DEF IInv
<1>2. owner' = owner
  BY RunnerFrame
<1>3. ASSUME NEW from, NEW to \in Status \ Active, NEW out \in Outcomes,
             UpdateStatus(j, from, to, out)
      PROVE  /\ \A i \in Jobs : i # j => status'[i] = status[i]
             /\ status'[j] = status[j] \/ status'[j] \notin Active
  BY <1>1, <1>3, UpdateStatusEffect
<1>4. CASE UNCHANGED jobVars
  BY <1>2, <1>4 DEF jobVars
<1>5. CASE RunCancelled(w) \/ FailStart(w) \/ FallbackFail(w) \/ Requeue(w)
  <2>1. {"CANCELLED", "FAILED", "QUEUED"} \subseteq Status \ Active
    OBVIOUS
  <2>2. CASE RunCancelled(w)
    <3>1. \E out \in Outcomes : UpdateStatus(j, "ASSIGNED", "CANCELLED", out)
      BY <1>0, <2>2 DEF RunCancelled
    <3> QED BY <1>0, <1>2, <1>3, <2>1, <3>1
  <2>3. CASE FailStart(w)
    <3>1. \E out \in Outcomes : UpdateStatus(j, "ASSIGNED", "FAILED", out)
      BY <1>0, <2>3 DEF FailStart
    <3> QED BY <1>0, <1>2, <1>3, <2>1, <3>1
  <2>4. CASE FallbackFail(w)
    <3>1. \E out \in Outcomes : UpdateStatus(j, snap[w].seen, "FAILED", out)
      BY <1>0, <2>4 DEF FallbackFail
    <3> QED BY <1>0, <1>2, <1>3, <2>1, <3>1
  <2>5. CASE Requeue(w)
    <3>1. \E out \in Outcomes : UpdateStatus(j, "FAILED", "QUEUED", out)
      BY <1>0, <2>5 DEF Requeue
    <3> QED BY <1>0, <1>2, <1>3, <2>1, <3>1
  <2> QED BY <1>5, <2>2, <2>3, <2>4, <2>5
<1>6. CASE Settle(w)
  <2>1. Verdict(w) \in Status \ Active
    BY DEF Verdict
  <2>2. \E out \in Outcomes : UpdateStatus(j, "RUNNING", Verdict(w), out)
    BY <1>0, <1>6 DEF Settle
  <2> QED BY <1>0, <1>2, <1>3, <2>1, <2>2
<1>7. CASE MarkRunning(w)
  <2>1. PICK out \in Outcomes : UpdateStatus(j, "ASSIGNED", "RUNNING", out)
    BY <1>0, <1>7 DEF MarkRunning
  <2>2. /\ \A i \in Jobs : i # j => status'[i] = status[i]
        /\ Commits(out) => status[j] = "ASSIGNED" /\ status'[j] = "RUNNING"
        /\ ~Commits(out) => status' = status
    <3>1. "RUNNING" \in Status
      OBVIOUS
    <3> QED BY <1>1, <2>1, <3>1, UpdateStatusEffect
  <2> QED BY <1>0, <1>2, <1>7, <2>2
<1>8. CreateAttempt(w) \/ Popen(w) \/ FailAttempt(w) \/ RecordPid(w) \/ PollCancel(w) \/ Kill(w)
        \/ MonitorEnds(w) \/ FinishAttempt(w) \/ FinalRead(w) \/ FallbackRead(w) => UNCHANGED jobVars
  BY DEF CreateAttempt, Popen, FailAttempt, RecordPid, PollCancel, Kill, MonitorEnds, FinishAttempt,
         FinalRead, FallbackRead
<1> QED BY <1>4, <1>5, <1>6, <1>7, <1>8 DEF Runner

\* No other step of a worker, a client or a child makes a row active or hands
\* it to somebody else, and none of them moves a runner that is at work.
Elsewhere ==
    /\ owner' = owner
    /\ \A j \in Jobs : status'[j] = status[j] \/ status'[j] \notin Active

\* Marking the rows of lost workers makes none of them active.
LEMMA MarkStaleElsewhere ==
    ASSUME IInv, NEW w \in Workers, NEW S, S \subseteq Workers, NEW stale,
           MarkStale(w, S, stale), owner' = owner
    PROVE  Elsewhere
BY MarkStaleEffect DEF Elsewhere

\* Neither does a call of a client.
LEMMA ApiElsewhere ==
    ASSUME IInv, Api
    PROVE  Elsewhere /\ UNCHANGED <<wpc, rpc, snap>>
<1>1. TypeOK
  BY DEF IInv
<1>2. CASE \E c \in Clients, j \in Jobs : SubmitCreate(c, j)
  BY <1>1, <1>2 DEF SubmitCreate, TypeOK, Elsewhere, workerVars
<1>3. CASE \E c \in Clients, op \in ApiOps \ {"submit"}, j \in Jobs : ApiRead(c, op, j)
  BY <1>3 DEF ApiRead, Elsewhere, workerVars, jobVars
<1>4. CASE \E c \in Clients : ApiCommit(c)
  <2>1. PICK c \in Clients : ApiCommit(c)
    BY <1>4
  <2>2. /\ api[c].job \in Jobs /\ api[c].seen \in Status /\ Target(api[c]) \in Status
        /\ Target(api[c]) = api[c].seen \/ Target(api[c]) \notin Active
    BY <2>1, TargetEffect DEF ApiCommit
  <2>3. PICK j \in Jobs, from, to \in Status :
           j = api[c].job /\ from = api[c].seen /\ to = Target(api[c])
    BY <2>2
  <2>4. PICK out \in Outcomes : UpdateStatus(j, from, to, out)
    BY <2>1, <2>3 DEF ApiCommit
  <2>5. /\ \A i \in Jobs : i # j => status'[i] = status[i]
        /\ Commits(out) => status[j] = from /\ status'[j] = to
        /\ ~Commits(out) => status' = status
    BY <1>1, <2>4, UpdateStatusEffect
  <2> QED BY <2>1, <2>2, <2>3, <2>5 DEF ApiCommit, Elsewhere, workerVars
<1>5. CASE \E c \in Clients : ApiCrash(c)
  BY <1>5 DEF ApiCrash, Elsewhere, workerVars, jobVars
<1>6. CASE \E w \in Workers : ManagerRecover(w)
  <2>1. PICK w \in Workers, stale \in SUBSET Jobs : MarkStale(w, {}, stale)
    BY <1>6 DEF ManagerRecover
  <2>2. owner' = owner /\ UNCHANGED <<wpc, rpc, snap>>
    BY <1>6 DEF ManagerRecover, workerVars
  <2>3. Elsewhere
    BY <2>1, <2>2, MarkStaleElsewhere
  <2> QED BY <2>2, <2>3
<1> QED BY <1>2, <1>3, <1>4, <1>5, <1>6 DEF Api

\* The main thread makes a row active only with a claim.
LEMMA MainElsewhere ==
    ASSUME IInv, NEW w \in Workers,
           Register(w) \/ Stop(w) \/ Crash(w) \/ (MainThread(w) /\ ~Claim(w))
    PROVE  Elsewhere
<1>0. PICK j \in Jobs : j = snap[w].job
  BY DEF IInv, TypeOK, Snapshot
<1>1. TypeOK
  BY DEF IInv
<1>2. CASE Recover(w)
  <2>1. PICK stale \in SUBSET Jobs : MarkStale(w, Namesakes(w), stale)
    BY <1>2 DEF Recover
  <2>2. Namesakes(w) \subseteq Workers
    BY DEF Namesakes
  <2> QED BY <1>2, <2>1, <2>2, MarkStaleElsewhere DEF Recover
<1>3. CASE DrainCommit(w)
  <2>1. PICK out \in Outcomes : UpdateStatus(j, drainSeen[w], drainSeen[w], out)
    BY <1>0, <1>3 DEF DrainCommit
  <2>2. drainSeen[w] \in Status
    BY <1>1 DEF TypeOK
  <2>3. \A i \in Jobs : status'[i] = status[i]
    BY <1>1, <2>1, <2>2, UpdateStatusEffect
  <2> QED BY <1>3, <2>3 DEF DrainCommit, Elsewhere
<1>4. Register(w) \/ Stop(w) \/ Crash(w) \/ ClaimRead(w) \/ ClaimFails(w) \/ TouchError(w)
        \/ DrainRead(w) \/ Offline(w) => UNCHANGED jobVars
  BY DEF Register, Stop, Crash, ClaimRead, ClaimFails, TouchError, DrainRead, Offline
<1>5. UNCHANGED jobVars => Elsewhere
  BY DEF jobVars, Elsewhere
<1> QED BY <1>2, <1>3, <1>4, <1>5 DEF MainThread

\* A step of one start moves no thread of another.
LEMMA OthersStay ==
    ASSUME IInv, NEW w \in Workers,
           Register(w) \/ Stop(w) \/ Crash(w) \/ MainThread(w) \/ Runner(w)
    PROVE  \A v \in Workers : v # w => rpc'[v] = rpc[v] /\ snap'[v] = snap[v] /\ wpc'[v] = wpc[v]
<1>0. TypeOK
  BY DEF IInv
<1>1. /\ \A pc : GoTo(w, pc) => \A v \in Workers : v # w => rpc'[v] = rpc[v]
      /\ \A pc : Main(w, pc) => \A v \in Workers : v # w => wpc'[v] = wpc[v]
  BY <1>0 DEF TypeOK, GoTo, Main
<1>2. ASSUME NEW s, snap' = [snap EXCEPT ![w] = s]
      PROVE  \A v \in Workers : v # w => snap'[v] = snap[v]
  BY <1>0, <1>2 DEF TypeOK
<1>3. CASE Claim(w)
  <2>1. wpc' = wpc
    BY <1>3 DEF Claim
  <2> QED BY <1>3, <2>1, ClaimEffect
<1>4. CASE ClaimRead(w)
  <2>1. (UNCHANGED snap \/ \E s : snap' = [snap EXCEPT ![w] = s]) /\ wpc' = wpc
    BY <1>4 DEF ClaimRead
  <2>2. \E pc : GoTo(w, pc)
    BY <1>4 DEF ClaimRead
  <2> QED BY <1>1, <1>2, <2>1, <2>2
<1>5. CASE Register(w) \/ Stop(w) \/ Crash(w) \/ Recover(w) \/ ClaimFails(w) \/ TouchError(w)
           \/ DrainRead(w) \/ DrainCommit(w) \/ Offline(w)
  <2>1. snap' = snap
    BY <1>5 DEF Register, Stop, Crash, Recover, ClaimFails, TouchError, DrainRead, DrainCommit, Offline
  <2>2. UNCHANGED rpc \/ \E pc : GoTo(w, pc)
    BY <1>5 DEF Register, Stop, Crash, Recover, ClaimFails, TouchError, DrainRead, DrainCommit, Offline
  <2>3. UNCHANGED wpc \/ \E pc : Main(w, pc)
    BY <1>5 DEF Register, Stop, Crash, Recover, ClaimFails, TouchError, DrainRead, DrainCommit, Offline
  <2> QED BY <1>1, <2>1, <2>2, <2>3
<1>6. CASE Runner(w)
  <2>1. wpc' = wpc /\ (UNCHANGED rpc \/ \E pc : GoTo(w, pc))
    BY <1>6, RunnerFrame
  <2>2. UNCHANGED snap \/ \E s : snap' = [snap EXCEPT ![w] = s]
    BY <1>6 DEF Runner, RunCancelled, CreateAttempt, Popen, FailAttempt, FailStart, MarkRunning,
       RecordPid, PollCancel, Kill, MonitorEnds, FinishAttempt, FinalRead, Settle, Requeue,
       FallbackRead, FallbackFail, workerVars
  <2> QED BY <1>1, <1>2, <2>1, <2>2
<1> QED BY <1>3, <1>4, <1>5, <1>6 DEF MainThread

\* A row becomes active in a claim, or when its runner marks it.
LEMMA BecomesActive ==
    ASSUME IInv, [Next]_vars, NEW j \in Jobs
    PROVE  \/ status'[j] = status[j] /\ owner'[j] = owner[j]
           \/ status'[j] \notin Active /\ owner'[j] = owner[j]
           \/ \E w \in Workers : Hands(w, j)
           \/ \E w \in Workers : /\ MarkRunning(w) /\ snap[w].job = j
                                 /\ status[j] = "ASSIGNED" /\ owner'[j] = owner[j]
<1>1. Elsewhere => \/ status'[j] = status[j] /\ owner'[j] = owner[j]
                   \/ status'[j] \notin Active /\ owner'[j] = owner[j]
  BY DEF Elsewhere
<1>2. CASE Api
  BY <1>1, <1>2, ApiElsewhere
<1>3. ASSUME NEW w \in Workers, Claim(w)
      PROVE  Hands(w, j) \/ (status'[j] = status[j] /\ owner'[j] = owner[j])
  BY <1>3, ClaimEffect
<1>4. ASSUME NEW w \in Workers, Register(w) \/ Stop(w) \/ Crash(w) \/ (MainThread(w) /\ ~Claim(w))
      PROVE  Elsewhere
  BY <1>4, MainElsewhere
<1>5. ASSUME NEW w \in Workers, Runner(w)
      PROVE  \/ status'[j] = status[j] /\ owner'[j] = owner[j]
             \/ status'[j] \notin Active /\ owner'[j] = owner[j]
             \/ MarkRunning(w) /\ snap[w].job = j /\ status[j] = "ASSIGNED" /\ owner'[j] = owner[j]
  BY <1>5, RunnerRows
<1>6. CASE UNCHANGED jobVars
  BY <1>6 DEF jobVars
<1>7. \A i \in Jobs, a \in Attempts : ChildExit(i, a) => UNCHANGED jobVars
  BY DEF ChildExit
<1>8. UNCHANGED vars => UNCHANGED jobVars
  BY DEF vars
<1> QED BY <1>1, <1>2, <1>3, <1>4, <1>5, <1>6, <1>7, <1>8 DEF Next

\* The errors are only counted up.
LEMMA FaultsGrow ==
    ASSUME IInv, [Next]_vars
    PROVE  faults \in Nat /\ faults' \in {faults, faults + 1}
<1>0. faults \in Nat
  BY DEF IInv, TypeOK
<1>1. ASSUME NEW ok \in BOOLEAN, Returns(ok) PROVE faults' \in {faults, faults + 1}
  <2>1. CASE ok
    BY <1>1, <2>1 DEF Returns
  <2>2. CASE ~ok
    BY <1>1, <2>2 DEF Returns
  <2> QED BY <2>1, <2>2
<1>2. ASSUME NEW j, NEW from, NEW to, NEW out, UpdateStatus(j, from, to, out)
      PROVE  faults' \in {faults, faults + 1}
  <2>1. Returns(out \in {"ok", "refused"}) /\ (out \in {"ok", "refused"}) \in BOOLEAN
    BY <1>2 DEF UpdateStatus
  <2> QED BY <1>1, <2>1
<1>3. CASE faults' = faults
  BY <1>0, <1>3
<1>4. CASE \E c \in Clients : ApiCommit(c) \/ ApiCrash(c)
  <2>1. PICK c \in Clients : ApiCommit(c) \/ ApiCrash(c)
    BY <1>4
  <2>2. CASE ApiCommit(c)
    <3>1. \E out \in Outcomes : UpdateStatus(api[c].job, api[c].seen, Target(api[c]), out)
      BY <2>2 DEF ApiCommit
    <3> QED BY <1>0, <1>2, <3>1
  <2>3. CASE ApiCrash(c)
    BY <1>0, <1>1, <2>3 DEF ApiCrash
  <2> QED BY <2>1, <2>2, <2>3
<1>5. Api => faults' = faults \/ \E c \in Clients : ApiCommit(c) \/ ApiCrash(c)
  BY DEF Api, SubmitCreate, ApiRead, ManagerRecover
<1>6. ASSUME NEW w \in Workers, Register(w) \/ Stop(w) \/ Crash(w) \/ MainThread(w)
      PROVE  faults' \in {faults, faults + 1}
  <2>1. CASE ClaimRead(w) \/ ClaimFails(w) \/ TouchError(w) \/ DrainRead(w)
    BY <1>1, <2>1 DEF ClaimRead, ClaimFails, TouchError, DrainRead
  <2>2. CASE DrainCommit(w)
    BY <1>2, <2>2 DEF DrainCommit
  <2>3. Register(w) \/ Stop(w) \/ Crash(w) \/ Recover(w) \/ Claim(w) \/ Offline(w) => faults' = faults
    BY DEF Register, Stop, Crash, Recover, Claim, Offline
  <2> QED BY <1>3, <1>6, <2>1, <2>2, <2>3 DEF MainThread
<1>7. ASSUME NEW w \in Workers, Runner(w)
      PROVE  faults' \in {faults, faults + 1}
  <2>1. CASE CreateAttempt(w) \/ FailAttempt(w) \/ RecordPid(w) \/ FinishAttempt(w)
             \/ FinalRead(w) \/ FallbackRead(w)
    BY <1>1, <2>1 DEF CreateAttempt, FailAttempt, RecordPid, FinishAttempt, FinalRead, FallbackRead
  <2>2. CASE RunCancelled(w) \/ FailStart(w) \/ MarkRunning(w) \/ Settle(w) \/ Requeue(w)
             \/ FallbackFail(w)
    BY <1>2, <2>2 DEF RunCancelled, FailStart, MarkRunning, Settle, Requeue, FallbackFail
  <2>3. Popen(w) \/ PollCancel(w) \/ Kill(w) \/ MonitorEnds(w) => faults' = faults
    BY DEF Popen, PollCancel, Kill, MonitorEnds
  <2> QED BY <1>3, <1>7, <2>1, <2>2, <2>3 DEF Runner
<1>8. \A j \in Jobs, a \in Attempts : ChildExit(j, a) => faults' = faults
  BY DEF ChildExit
<1>9. UNCHANGED vars => faults' = faults
  BY DEF vars
<1> QED BY <1>0, <1>3, <1>4, <1>5, <1>6, <1>7, <1>8, <1>9 DEF Next

\* A step that raises no error keeps the runner of w on its job, or leaves that
\* job inactive.
StaysOrEnds(w) ==
    faults' = faults => \/ Busy(w)' /\ snap'[w].job = snap[w].job
                        \/ status'[snap[w].job] \notin Active

\* A runner moves on and leaves its row alone.
LEMMA QuietStage ==
    ASSUME IInv, NEW w \in Workers, StageOK(w), Busy(w), UNCHANGED status,
           snap'[w].job = snap[w].job,
           NEW pc \in RunnerPC, GoTo(w, pc) \/ (UNCHANGED rpc /\ pc = rpc[w]),
           \/ rpc[w] \in Starting /\ pc \in Starting
           \/ rpc[w] \in Marked /\ pc \in Marked
           \/ faults' # faults /\ pc \notin Starting \cup Marked \cup {"retrying", "giveup"}
    PROVE  StageOK(w)' /\ StaysOrEnds(w)
<1>1. rpc'[w] = pc
  BY GoToEffect DEF IInv
<1> QED BY <1>1 DEF StageOK, StaysOrEnds, Busy, Starting, Marked

\* A runner is done with its job: it writes the last status, or finds that the
\* job is not active.
LEMMA LastStage ==
    ASSUME IInv, NEW w \in Workers, StageOK(w), [Next]_vars, NEW from, NEW to \in Status \ Active,
           NEW out \in Outcomes, UpdateStatus(snap[w].job, from, to, out), GoTo(w, "idle"),
           status[snap[w].job] \in Active => from = status[snap[w].job]
    PROVE  StageOK(w)' /\ StaysOrEnds(w)
<1>0. PICK j \in Jobs : j = snap[w].job
  BY DEF IInv, TypeOK, Snapshot
<1>1. rpc'[w] = "idle"
  BY GoToEffect DEF IInv, RunnerPC
<1>2. StageOK(w)'
  BY <1>1 DEF StageOK, Starting, Marked
<1>3. ASSUME faults' = faults PROVE status'[j] \notin Active
  <2>1. faults \in Nat /\ faults' = faults
    BY <1>3, FaultsGrow
  <2>2. out \in {"ok", "refused"}
    <3>1. Returns(out \in {"ok", "refused"}) /\ out \in Outcomes
      BY DEF UpdateStatus
    <3>2. ASSUME out \notin {"ok", "refused"} PROVE FALSE
      BY <2>1, <3>1, <3>2 DEF Returns
    <3> QED BY <3>2
  <2>3. /\ Commits(out) => status'[j] = to
        /\ ~Commits(out) => status'[j] = status[j]
    BY <1>0, UpdateStatusEffect DEF IInv
  <2>4. out = "refused" => status[j] # from
    BY <1>0 DEF UpdateStatus
  <2> QED BY <1>0, <2>1, <2>2, <2>3, <2>4 DEF Commits
<1> QED BY <1>0, <1>2, <1>3 DEF StaysOrEnds

\* Each step of a runner.
LEMMA RunnerStage ==
    ASSUME IInv, NEW w \in Workers, StageOK(w), [Next]_vars, Runner(w)
    PROVE  StageOK(w)' /\ StaysOrEnds(w)
<1>0. PICK j \in Jobs : j = snap[w].job
  BY DEF IInv, TypeOK, Snapshot
<1>1. /\ faults \in Nat /\ faults' \in {faults, faults + 1}
      /\ Returns(FALSE) => faults' # faults
  BY FaultsGrow DEF Returns
<1>2. TypeOK
  BY DEF IInv
<1>3. /\ {"popen", "failing", "failed", "launched"} \subseteq Starting
      /\ {"monitor", "exited", "finished", "settling"} \subseteq Marked
      /\ Starting \cup Marked \cup {"retrying", "fallback", "giveup", "idle"} \subseteq RunnerPC
      /\ {"fallback", "idle"} \cap (Starting \cup Marked \cup {"retrying", "giveup"}) = {}
  BY DEF Starting, Marked, RunnerPC
<1>4. CASE RunCancelled(w)
  <2>1. PICK out \in Outcomes : UpdateStatus(snap[w].job, "ASSIGNED", "CANCELLED", out)
    BY <1>4 DEF RunCancelled
  <2>2. rpc[w] = "start" /\ GoTo(w, "idle")
    BY <1>4 DEF RunCancelled
  <2>3. status[snap[w].job] \in Active => status[snap[w].job] = "ASSIGNED"
    BY <2>2 DEF StageOK, Starting
  <2> QED BY <2>1, <2>2, <2>3, LastStage
<1>5. CASE CreateAttempt(w)
  <2>1. rpc[w] = "start" /\ UNCHANGED <<status, snap>>
    BY <1>5 DEF CreateAttempt, jobVars
  <2>2. \E pc \in RunnerPC : GoTo(w, pc) /\ (pc \in Starting \/ (pc = "fallback" /\ Returns(FALSE)))
    BY <1>3, <1>5 DEF CreateAttempt
  <2> QED BY <1>1, <1>3, <2>1, <2>2, QuietStage DEF Busy, Starting
<1>6. CASE Popen(w)
  <2>1. rpc[w] = "popen" /\ UNCHANGED <<status, snap>>
    BY <1>6 DEF Popen, jobVars
  <2>2. \E pc \in RunnerPC : GoTo(w, pc) /\ pc \in Starting
    BY <1>3, <1>6 DEF Popen
  <2> QED BY <2>1, <2>2, QuietStage DEF Busy, Starting
<1>7. CASE FailAttempt(w)
  <2>1. rpc[w] = "failing" /\ UNCHANGED <<status, snap>>
    BY <1>7 DEF FailAttempt, jobVars
  <2>2. \E pc \in RunnerPC : GoTo(w, pc) /\ (pc \in Starting \/ (pc = "fallback" /\ Returns(FALSE)))
    BY <1>3, <1>7 DEF FailAttempt
  <2> QED BY <1>1, <1>3, <2>1, <2>2, QuietStage DEF Busy, Starting
<1>8. CASE FailStart(w)
  <2>1. PICK out \in Outcomes : UpdateStatus(snap[w].job, "ASSIGNED", "FAILED", out)
    BY <1>8 DEF FailStart
  <2>2. rpc[w] = "failed" /\ GoTo(w, "idle")
    BY <1>8 DEF FailStart
  <2>3. status[snap[w].job] \in Active => status[snap[w].job] = "ASSIGNED"
    BY <2>2 DEF StageOK, Starting
  <2> QED BY <2>1, <2>2, <2>3, LastStage
<1>9. CASE MarkRunning(w)
  <2>1. PICK out \in Outcomes :
           /\ UpdateStatus(j, "ASSIGNED", "RUNNING", out)
           /\ GoTo(w, IF out = "ok" THEN "pid" ELSE "idle")
    BY <1>0, <1>9 DEF MarkRunning
  <2>2. rpc[w] = "launched" /\ UNCHANGED snap
    BY <1>9 DEF MarkRunning
  <2>3. status[j] # "RUNNING"
    BY <1>0, <2>2 DEF StageOK, Starting
  <2>4. rpc'[w] = IF out = "ok" THEN "pid" ELSE "idle"
    BY <1>2, <2>1, GoToEffect DEF RunnerPC
  <2>5. /\ Commits(out) => status'[j] = "RUNNING"
        /\ ~Commits(out) => status'[j] = status[j]
    BY <1>2, <2>1, UpdateStatusEffect
  <2>6. /\ out = "refused" => status[j] # "ASSIGNED"
        /\ out \in {"ok", "refused"} \/ Returns(FALSE)
    BY <2>1 DEF UpdateStatus, Returns
  <2>7. StageOK(w)'
    BY <1>0, <2>2, <2>4, <2>5 DEF StageOK, Starting, Marked, Commits
  <2> QED BY <1>0, <1>1, <2>2, <2>3, <2>4, <2>5, <2>6, <2>7 DEF StaysOrEnds, Busy, Commits
<1>10. CASE RecordPid(w)
  <2>1. rpc[w] = "pid" /\ UNCHANGED <<status, snap>>
    BY <1>10 DEF RecordPid, jobVars
  <2>2. \E pc \in RunnerPC : GoTo(w, pc) /\ (pc \in Marked \/ (pc = "idle" /\ Returns(FALSE)))
    BY <1>3, <1>10 DEF RecordPid
  <2> QED BY <1>1, <1>3, <2>1, <2>2, QuietStage DEF Busy, Marked
<1>11. CASE PollCancel(w)
  <2>1. rpc[w] = "monitor" /\ UNCHANGED <<status, rpc>> /\ snap' = [snap EXCEPT ![w].cancel = TRUE]
    BY <1>11 DEF PollCancel, jobVars
  <2>2. snap'[w] = [snap[w] EXCEPT !.cancel = TRUE] /\ snap[w] \in Snapshot
    BY <1>2, <2>1, SnapCancel DEF TypeOK
  <2>3. snap'[w].job = snap[w].job
    BY <2>2 DEF Snapshot
  <2> QED BY <1>3, <2>1, <2>3, QuietStage DEF Busy, Marked
<1>12. CASE Kill(w)
  <2>1. rpc[w] = "monitor" /\ UNCHANGED <<status, rpc, snap>>
    BY <1>12 DEF Kill, jobVars, workerVars
  <2> QED BY <1>3, <2>1, QuietStage DEF Busy, Marked
<1>13. CASE MonitorEnds(w)
  <2>1. rpc[w] = "monitor" /\ UNCHANGED <<status, snap>> /\ GoTo(w, "exited")
    BY <1>13 DEF MonitorEnds, jobVars
  <2> QED BY <1>3, <2>1, QuietStage DEF Busy, Marked
<1>14. CASE FinishAttempt(w)
  <2>1. rpc[w] = "exited" /\ UNCHANGED <<status, snap>>
    BY <1>14 DEF FinishAttempt, jobVars
  <2>2. \E pc \in RunnerPC : GoTo(w, pc) /\ (pc \in Marked \/ (pc = "fallback" /\ Returns(FALSE)))
    BY <1>3, <1>14 DEF FinishAttempt
  <2> QED BY <1>1, <1>3, <2>1, <2>2, QuietStage DEF Busy, Marked
<1>15. CASE FinalRead(w)
  <2>1. rpc[w] = "finished" /\ UNCHANGED status
    BY <1>15 DEF FinalRead, jobVars
  <2>2. UNCHANGED snap \/ snap' = [snap EXCEPT ![w].retry = retry[snap[w].job]]
    BY <1>15 DEF FinalRead
  <2>3. snap'[w].job = snap[w].job
    <3>1. snap[w] \in Snapshot /\ retry[snap[w].job] \in Nat
      BY <1>2 DEF TypeOK, Snapshot
    <3>2. UNCHANGED snap \/ snap'[w] = [snap[w] EXCEPT !.retry = retry[snap[w].job]]
      BY <1>2, <2>2, <3>1, SnapRetry
    <3> QED BY <3>1, <3>2 DEF Snapshot
  <2>4. \E pc \in RunnerPC : GoTo(w, pc) /\ (pc \in Marked \/ (pc = "fallback" /\ Returns(FALSE)))
    BY <1>3, <1>15 DEF FinalRead
  <2> QED BY <1>1, <1>3, <2>1, <2>3, <2>4, QuietStage DEF Busy, Marked
<1>16. CASE Settle(w)
  <2>1. PICK out \in Outcomes :
           /\ UpdateStatus(snap[w].job, "RUNNING", Verdict(w), out)
           /\ GoTo(w, IF out = "ok" /\ Retryable(w) THEN "retrying" ELSE "idle")
    BY <1>16 DEF Settle
  <2>2. rpc[w] = "settling" /\ UNCHANGED snap /\ Verdict(w) \in Status \ Active
    BY <1>16 DEF Settle, Verdict
  <2>3. status[snap[w].job] \in Active => status[snap[w].job] = "RUNNING"
    BY <2>2 DEF StageOK, Marked
  <2>4. CASE out = "ok" /\ Retryable(w)
    <3>1. rpc'[w] = "retrying"
      BY <1>2, <2>1, <2>4, GoToEffect DEF RunnerPC
    <3>2. status'[j] \notin Active
      <4>1. PICK to \in Status \ Active : to = Verdict(w)
        BY <2>2
      <4>2. UpdateStatus(j, "RUNNING", to, "ok") /\ "ok" \in Outcomes
        BY <1>0, <2>1, <2>4, <4>1 DEF Outcomes
      <4>3. status'[j] = to
        BY <1>2, <4>2, UpdateStatusEffect DEF Commits
      <4> QED BY <4>3
    <3> QED BY <1>0, <2>2, <3>1, <3>2 DEF StageOK, StaysOrEnds, Starting, Marked
  <2>5. CASE ~(out = "ok" /\ Retryable(w))
    <3>1. GoTo(w, "idle")
      BY <2>1, <2>5
    <3> QED BY <2>1, <2>2, <2>3, <3>1, LastStage
  <2> QED BY <2>4, <2>5
<1>17. CASE Requeue(w)
  <2>1. PICK out \in Outcomes : UpdateStatus(snap[w].job, "FAILED", "QUEUED", out)
    BY <1>17 DEF Requeue
  <2>2. rpc[w] = "retrying" /\ GoTo(w, "idle")
    BY <1>17 DEF Requeue
  <2>3. status[snap[w].job] \notin Active /\ "QUEUED" \in Status \ Active
    BY <2>2 DEF StageOK
  <2> QED BY <2>1, <2>2, <2>3, LastStage
<1>18. CASE FallbackRead(w)
  <2>1. rpc[w] = "fallback" /\ UNCHANGED status
    BY <1>18 DEF FallbackRead, jobVars
  <2>2. snap[w] \in Snapshot
    BY <1>2 DEF TypeOK
  <2>3. CASE /\ status[j] \in Active /\ GoTo(w, "giveup")
             /\ snap' = [snap EXCEPT ![w].seen = status[j]]
    <3>1. snap'[w] = [snap[w] EXCEPT !.seen = status[j]]
      BY <1>2, <2>3, SnapSeen
    <3>2. snap'[w].job = j /\ snap'[w].seen = status[j]
      BY <1>0, <2>2, <3>1 DEF Snapshot
    <3>3. rpc'[w] = "giveup"
      BY <1>2, <2>3, GoToEffect DEF RunnerPC
    <3> QED BY <1>0, <2>1, <3>2, <3>3 DEF StageOK, StaysOrEnds, Busy, Starting, Marked
  <2>4. CASE /\ UNCHANGED snap /\ GoTo(w, "idle")
             /\ faults' = faults => status[j] \notin Active
    <3>1. rpc'[w] = "idle"
      BY <1>2, <2>4, GoToEffect DEF RunnerPC
    <3> QED BY <1>0, <2>1, <2>4, <3>1 DEF StageOK, StaysOrEnds, Starting, Marked
  <2>5. \/ /\ status[j] \in Active /\ GoTo(w, "giveup")
           /\ snap' = [snap EXCEPT ![w].seen = status[j]]
        \/ /\ UNCHANGED snap /\ GoTo(w, "idle")
           /\ faults' = faults => status[j] \notin Active
    <3>1. PICK ok \in BOOLEAN :
             /\ Returns(ok)
             /\ IF ok /\ status[j] \in Active
                THEN snap' = [snap EXCEPT ![w].seen = status[j]] /\ GoTo(w, "giveup")
                ELSE UNCHANGED snap /\ GoTo(w, "idle")
      BY <1>0, <1>18 DEF FallbackRead
    <3>2. ok = FALSE => faults' # faults
      BY <1>1, <3>1
    <3> QED BY <3>1, <3>2
  <2> QED BY <2>3, <2>4, <2>5
<1>19. CASE FallbackFail(w)
  <2>1. PICK out \in Outcomes : UpdateStatus(snap[w].job, snap[w].seen, "FAILED", out)
    BY <1>19 DEF FallbackFail
  <2>2. rpc[w] = "giveup" /\ GoTo(w, "idle")
    BY <1>19 DEF FallbackFail
  <2>3. status[snap[w].job] \in Active => snap[w].seen = status[snap[w].job]
    BY <2>2 DEF StageOK
  <2>4. "FAILED" \in Status \ Active
    OBVIOUS
  <2> QED BY <2>1, <2>2, <2>3, <2>4, LastStage
<1> QED BY <1>4, <1>5, <1>6, <1>7, <1>8, <1>9, <1>10, <1>11, <1>12, <1>13, <1>14, <1>15, <1>16,
           <1>17, <1>18, <1>19 DEF Runner

\* Each step of a main thread: a claim starts a runner, and only an error ends
\* one before it starts.
LEMMA MainStage ==
    ASSUME IInv, NEW w \in Workers, StageOK(w), [Next]_vars,
           Register(w) \/ Stop(w) \/ MainThread(w)
    PROVE  StageOK(w)' /\ (Busy(w) => StaysOrEnds(w))
<1>0. TypeOK
  BY DEF IInv
<1>1. /\ faults \in Nat /\ faults' \in {faults, faults + 1}
      /\ Returns(FALSE) => faults' # faults
  BY FaultsGrow DEF Returns
<1>2. CASE Claim(w)
  <2>1. PICK j \in Jobs : Hands(w, j)
    BY <1>2, ClaimEffect
  <2>2. ~Busy(w)
    BY <1>2 DEF Claim, Busy
  <2> QED BY <2>1, <2>2 DEF Hands, StageOK, Starting, Marked
<1>3. CASE ClaimRead(w)
  <2>1. rpc[w] = "claimed" /\ UNCHANGED status
    BY <1>3 DEF ClaimRead, jobVars
  <2>2. snap'[w].job = snap[w].job
    <3>1. /\ snap[w] \in Snapshot
          /\ attempt[snap[w].job] \in Nat /\ cancelReq[snap[w].job] \in BOOLEAN
      BY <1>0 DEF TypeOK, Snapshot
    <3>2. \/ UNCHANGED snap
          \/ snap' = [snap EXCEPT ![w].attempt = attempt[snap[w].job],
                                  ![w].cancel = cancelReq[snap[w].job]]
      BY <1>3 DEF ClaimRead
    <3>3. \/ UNCHANGED snap
          \/ snap'[w] = [snap[w] EXCEPT !.attempt = attempt[snap[w].job],
                                        !.cancel = cancelReq[snap[w].job]]
      BY <1>0, <3>1, <3>2, SnapRead
    <3> QED BY <3>1, <3>3 DEF Snapshot
  <2>3. GoTo(w, "start") \/ (GoTo(w, "touch") /\ faults' # faults)
    BY <1>1, <1>3 DEF ClaimRead
  <2> QED BY <2>1, <2>2, <2>3, QuietStage DEF Busy, Starting, Marked, RunnerPC
<1>4. CASE ClaimFails(w)
  <2>1. rpc[w] = "idle" /\ GoTo(w, "touch")
    BY <1>4 DEF ClaimFails
  <2>2. rpc'[w] = "touch"
    BY <1>0, <2>1, GoToEffect DEF RunnerPC
  <2> QED BY <2>1, <2>2 DEF StageOK, Busy, Starting, Marked
<1>5. CASE TouchError(w)
  <2>1. rpc[w] = "touch" /\ GoTo(w, "idle")
    BY <1>5 DEF TouchError
  <2>2. rpc'[w] = "idle"
    BY <1>0, <2>1, GoToEffect DEF RunnerPC
  <2> QED BY <2>1, <2>2 DEF StageOK, Busy, Starting, Marked
<1>6. CASE Register(w) \/ Stop(w) \/ Recover(w) \/ DrainRead(w) \/ DrainCommit(w) \/ Offline(w)
  <2>1. UNCHANGED <<rpc, snap>>
    BY <1>6 DEF Register, Stop, Recover, DrainRead, DrainCommit, Offline
  <2>2. Elsewhere
    <3>1. ~Claim(w)
      BY <1>6, <2>1, ClaimEffect DEF Hands, Claim
    <3> QED BY <1>6, <3>1, MainElsewhere DEF MainThread
  <2>3. snap[w].job \in Jobs
    BY <1>0 DEF TypeOK, Snapshot
  <2> QED BY <1>1, <2>1, <2>2, <2>3 DEF Elsewhere, StageOK, StaysOrEnds, Busy, Starting, Marked
<1> QED BY <1>2, <1>3, <1>4, <1>5, <1>6 DEF MainThread

\* What others do to the row of a runner at work is to end it.
LEMMA SameStage ==
    ASSUME IInv, [Next]_vars, NEW w \in Workers, StageOK(w),
           rpc'[w] = rpc[w], snap'[w] = snap[w],
           Busy(w) => \/ status'[snap[w].job] = status[snap[w].job]
                      \/ status'[snap[w].job] \notin Active
    PROVE  StageOK(w)' /\ (Busy(w) => StaysOrEnds(w))
BY DEF StageOK, StaysOrEnds, Busy, Starting, Marked

\* A step that leaves the threads alone, or that another worker takes.
LEMMA OthersStage ==
    ASSUME IInv, NEW w \in Workers, StageOK(w), [Next]_vars,
           ~Crash(w), ~Register(w), ~Stop(w), ~MainThread(w), ~Runner(w)
    PROVE  /\ StageOK(w)' /\ (Busy(w) => StaysOrEnds(w))
           /\ wpc'[w] = wpc[w]
<1>0. snap[w].job \in Jobs
  BY DEF IInv, TypeOK, Snapshot
<1>1. CASE Api
  BY <1>0, <1>1, ApiElsewhere, SameStage DEF Elsewhere
<1>2. ASSUME NEW v \in Workers, v # w,
             Register(v) \/ Stop(v) \/ Crash(v) \/ MainThread(v) \/ Runner(v)
      PROVE  /\ StageOK(w)' /\ (Busy(w) => StaysOrEnds(w))
             /\ wpc'[w] = wpc[w]
  <2>1. rpc'[w] = rpc[w] /\ snap'[w] = snap[w] /\ wpc'[w] = wpc[w]
    BY <1>2, OthersStay
  <2>2. CASE Runner(v)
    <3>1. Busy(v) /\ (Busy(w) => snap[v].job # snap[w].job)
      <4>1. Busy(v)
        BY <2>2, RunnerFrame
      <4> QED BY <1>2, <4>1, RunnerFacts
    <3>2. Busy(w) => status'[snap[w].job] = status[snap[w].job]
      BY <1>0, <2>2, <3>1, RunnerRows
    <3> QED BY <2>1, <3>2, SameStage
  <2>3. CASE Claim(v)
    <3>1. PICK j \in Jobs : Hands(v, j) /\ \A i \in Jobs : i # j => status'[i] = status[i]
      BY <2>3, ClaimEffect
    <3>2. Busy(w) => snap[w].job # j
      BY <3>1 DEF IInv, RunnerOK, Hands
    <3> QED BY <1>0, <2>1, <3>1, <3>2, SameStage
  <2>4. CASE Register(v) \/ Stop(v) \/ Crash(v) \/ (MainThread(v) /\ ~Claim(v))
    <3>1. Elsewhere
      BY <2>4, MainElsewhere
    <3> QED BY <1>0, <2>1, <3>1, SameStage DEF Elsewhere
  <2> QED BY <1>2, <2>2, <2>3, <2>4
<1>3. CASE UNCHANGED <<status, wpc, rpc, snap>>
  BY <1>3, SameStage
<1>4. \A j \in Jobs, a \in Attempts : ChildExit(j, a) => UNCHANGED <<status, wpc, rpc, snap>>
  BY DEF ChildExit, jobVars, workerVars
<1>5. UNCHANGED vars => UNCHANGED <<status, wpc, rpc, snap>>
  BY DEF vars, jobVars, workerVars
<1> QED BY <1>1, <1>2, <1>3, <1>4, <1>5 DEF Next

\* A crash ends the runner with the process.
LEMMA CrashStage ==
    ASSUME IInv, NEW w \in Workers, Crash(w)
    PROVE  StageOK(w)' /\ wpc'[w] = "gone"
<1>1. Main(w, "gone") /\ GoTo(w, "idle") /\ TypeOK
  BY DEF Crash, IInv
<1>2. rpc'[w] = "idle" /\ wpc'[w] = "gone"
  BY <1>1, GoToEffect, MainEffect DEF RunnerPC, MainPC
<1> QED BY <1>2 DEF StageOK, Starting, Marked

\* A runner stays in its stage, and nobody but a crash or an error takes it off
\* an active job.
LEMMA StageStep ==
    ASSUME IInv, NEW w \in Workers, StageOK(w), [Next]_vars
    PROVE  /\ StageOK(w)'
           /\ Busy(w) => StaysOrEnds(w) \/ wpc'[w] = "gone"
BY CrashStage, MainStage, RunnerStage, OthersStage

\* A start of a worker that is gone stays gone, unless an error was being
\* reported and that fails as well.
LEMMA GoneStays ==
    ASSUME IInv, NEW w \in Workers, StageOK(w), [Next]_vars, wpc[w] = "gone", faults' = faults
    PROVE  wpc'[w] = "gone"
<1>1. CASE Crash(w)
  BY <1>1, CrashStage
<1>2. CASE Runner(w)
  BY <1>2, RunnerFrame
<1>3. CASE TouchError(w)
  <2>1. faults \in Nat
    BY FaultsGrow
  <2>2. PICK ok \in BOOLEAN : Returns(ok) /\ IF ok THEN UNCHANGED wpc ELSE Main(w, "waiting")
    BY <1>3 DEF TouchError
  <2>3. ok
    BY <2>1, <2>2 DEF Returns
  <2> QED BY <2>2, <2>3
<1>4. CASE Register(w) \/ Stop(w) \/ (MainThread(w) /\ ~TouchError(w))
  BY <1>4 DEF MainThread, Register, Stop, Recover, Claim, ClaimRead, ClaimFails,
       DrainRead, DrainCommit, Offline
<1> QED BY <1>1, <1>2, <1>3, <1>4, OthersStage

StageInv == IInv /\ \A w \in Workers : StageOK(w)

\* A step that raises no error leaves no row behind: the row that becomes
\* active has a runner, and the runner of an active row stays, or settles it.
LEMMA StrandStep ==
    ASSUME StageInv, [Next]_vars, NEW j \in Jobs, ~Stranded(j), Stranded(j)'
    PROVE  faults' > faults
<1>0. IInv /\ \A w \in Workers : StageOK(w)
  BY DEF StageInv
<1>1. SUFFICES ASSUME faults' = faults PROVE FALSE
  BY <1>0, FaultsGrow
<1>2. PICK w \in Workers : w = owner'[j]
  <2>1. IInv' /\ status'[j] \in Active
    BY <1>0, StepIInv DEF Stranded
  <2> QED BY <2>1 DEF IInv, JobOK
<1>3. /\ status'[j] \in Active /\ wpc'[w] # "gone"
      /\ ~(rpc'[w] \notin {"idle", "touch"} /\ snap'[w].job = j)
  BY <1>2 DEF Stranded, Runs
<1>4. CASE \E v \in Workers : Hands(v, j)
  BY <1>2, <1>3, <1>4 DEF Hands
<1>5. CASE status[j] \in Active /\ owner'[j] = owner[j]
  <2>1. w = owner[j] /\ (wpc[w] = "gone" \/ (Busy(w) /\ snap[w].job = j))
    BY <1>2, <1>5 DEF Stranded, Runs, Busy
  <2>2. CASE wpc[w] = "gone"
    BY <1>0, <1>1, <1>3, <2>2, GoneStays
  <2>3. CASE Busy(w) /\ snap[w].job = j
    <3>1. StaysOrEnds(w)
      BY <1>0, <1>3, <2>3, StageStep
    <3> QED BY <1>1, <1>3, <2>3, <3>1 DEF StaysOrEnds, Busy
  <2> QED BY <2>1, <2>2, <2>3
<1> QED BY <1>0, <1>3, <1>4, <1>5, BecomesActive

\* The stages of the runners are an invariant.
LEMMA StageInvariance == Spec => []StageInv
<1>1. Init => StageInv
  <2> SUFFICES ASSUME Init PROVE StageInv
    OBVIOUS
  <2>1. IInv
    BY InitIInv
  <2>2. \A w \in Workers : StageOK(w)
    BY DEF Init, StageOK, Starting, Marked
  <2> QED BY <2>1, <2>2 DEF StageInv
<1>2. StageInv /\ [Next]_vars => StageInv'
  <2> SUFFICES ASSUME StageInv, [Next]_vars PROVE StageInv'
    OBVIOUS
  <2>1. IInv'
    BY StepIInv DEF StageInv
  <2>2. \A w \in Workers : StageOK(w)'
    BY StageStep DEF StageInv
  <2> QED BY <2>1, <2>2 DEF StageInv
<1> QED BY <1>1, <1>2, PTL DEF Spec

\* A row is stranded only by the step whose store call raises, however many
\* calls have raised before: whatever _run_job catches, it settles.
THEOREM ErrorsAlone == Spec => OnlyErrorsStrand
<1>1. StageInv /\ [Next]_vars =>
        [\A j \in Jobs : Stranded(j)' /\ ~Stranded(j) => faults' > faults]_vars
  BY StrandStep
<1> QED BY <1>1, StageInvariance, PTL DEF Spec, OnlyErrorsStrand

\* As long as no call of the store has raised, an active row is in the hands
\* of a runner of its worker, or that worker process is gone: with any number
\* of workers, crashes, restarts, cancellations and retries.
THEOREM ActiveRowsHaveRunners == Spec => []ActiveHasRunner
<1>1. Init => (faults = 0 => \A j \in Jobs : ~Stranded(j))
  BY DEF Init, Stranded
<1>2. /\ StageInv /\ [Next]_vars
      /\ faults = 0 => \A j \in Jobs : ~Stranded(j)
      => (faults = 0 => \A j \in Jobs : ~Stranded(j))'
  <2> SUFFICES ASSUME StageInv, [Next]_vars, faults = 0 => \A j \in Jobs : ~Stranded(j),
                      faults' = 0, NEW j \in Jobs, Stranded(j)'
               PROVE  FALSE
    OBVIOUS
  <2>1. faults = 0 /\ ~(faults' > faults)
    BY FaultsGrow DEF StageInv
  <2> QED BY <2>1, StrandStep
<1>3. StageInv /\ (faults = 0 => \A j \in Jobs : ~Stranded(j)) => ActiveHasRunner
  <2> SUFFICES ASSUME StageInv, faults = 0, \A j \in Jobs : ~Stranded(j),
                      NEW j \in Jobs, status[j] \in Active
               PROVE  owner[j] \in Workers
    BY DEF ActiveHasRunner
  <2> QED BY DEF StageInv, IInv, JobOK
<1> QED BY <1>1, <1>2, <1>3, StageInvariance, PTL DEF Spec

-----------------------------------------------------------------------------
(* A cancelled job that is back in the queue.                              *)

\* The children of a job are those of the attempts it has had.
Born(j) == \A a \in Attempts : proc[j][a] # "none" => a <= attempt[j]

\* Job j will never start attempt a: its cancellation is requested, and who
\* has claimed that attempt has yet to read the row, or has read of it.
Doomed(j, a) ==
    /\ cancelReq[j]
    /\ proc[j][a] = "none"
    /\ attempt[j] + 1 >= a
    /\ attempt[j] = a =>
          \A w \in Workers : Busy(w) /\ snap[w].job = j =>
             rpc[w] = "claimed" \/ (rpc[w] = "start" /\ snap[w].cancel)

\* A request to cancel is never withdrawn.
LEMMA CancelStays ==
    ASSUME IInv, [Next]_vars, NEW j \in Jobs, cancelReq[j]
    PROVE  cancelReq'[j]
<1>0. cancelReq \in [Jobs -> BOOLEAN]
  BY DEF IInv, TypeOK
<1>1. ASSUME NEW i, cancelReq' = cancelReq \/ cancelReq' = [cancelReq EXCEPT ![i] = TRUE]
      PROVE  cancelReq'[j]
  BY <1>0, <1>1
<1>2. CASE UNCHANGED cancelReq
  BY <1>2
<1>3. Api => UNCHANGED cancelReq \/ \E i : cancelReq' = [cancelReq EXCEPT ![i] = TRUE]
  BY DEF Api, SubmitCreate, ApiRead, ApiCommit, ApiCrash, ManagerRecover, jobVars
<1>4. ASSUME NEW w \in Workers, Register(w) \/ Stop(w) \/ Crash(w) \/ MainThread(w)
      PROVE  UNCHANGED cancelReq \/ \E i : cancelReq' = [cancelReq EXCEPT ![i] = TRUE]
  BY <1>4 DEF MainThread, Register, Stop, Crash, Recover, Claim, ClaimRead, ClaimFails, TouchError,
     DrainRead, DrainCommit, Offline, jobVars
<1>5. \A w \in Workers : Runner(w) => UNCHANGED cancelReq
  BY RunnerFrame
<1>6. \A i \in Jobs, a \in Attempts : ChildExit(i, a) => UNCHANGED cancelReq
  BY DEF ChildExit, jobVars
<1>7. UNCHANGED vars => UNCHANGED cancelReq
  BY DEF vars, jobVars
<1> QED BY <1>1, <1>2, <1>3, <1>4, <1>5, <1>6, <1>7 DEF Next

\* Only a claim opens an attempt.
LEMMA AttemptGrows ==
    ASSUME IInv, [Next]_vars, NEW j \in Jobs
    PROVE  \/ attempt'[j] = attempt[j]
           \/ attempt'[j] = attempt[j] + 1 /\ \E w \in Workers : Hands(w, j)
<1>1. CASE UNCHANGED attempt
  BY <1>1
<1>2. Api => UNCHANGED attempt
  BY DEF Api, SubmitCreate, ApiRead, ApiCommit, ApiCrash, ManagerRecover, jobVars
<1>3. ASSUME NEW w \in Workers,
             Register(w) \/ Stop(w) \/ Crash(w) \/ (MainThread(w) /\ ~Claim(w)) \/ Runner(w)
      PROVE  UNCHANGED attempt
  BY <1>3, RunnerFrame DEF MainThread, Register, Stop, Crash, Recover, ClaimRead, ClaimFails,
     TouchError, DrainRead, DrainCommit, Offline, jobVars
<1>4. ASSUME NEW w \in Workers, Claim(w)
      PROVE  \/ attempt'[j] = attempt[j]
             \/ attempt'[j] = attempt[j] + 1 /\ Hands(w, j)
  <2>1. PICK i \in Jobs : status' = [status EXCEPT ![i] = "ASSIGNED"]
                          /\ attempt' = [attempt EXCEPT ![i] = @ + 1] /\ NextInQueue(w, i)
    BY <1>4 DEF Claim
  <2>2. PICK k \in Jobs : Hands(w, k) /\ \A m \in Jobs : m # k => status'[m] = status[m]
    BY <1>4, ClaimEffect
  <2>3. i = k
    BY <2>1, <2>2 DEF IInv, TypeOK, NextInQueue
  <2> QED BY <2>1, <2>2, <2>3 DEF IInv, TypeOK
<1>5. \A i \in Jobs, a \in Attempts : ChildExit(i, a) => UNCHANGED attempt
  BY DEF ChildExit, jobVars
<1>6. UNCHANGED vars => UNCHANGED attempt
  BY DEF vars, jobVars
<1> QED BY <1>1, <1>2, <1>3, <1>4, <1>5, <1>6 DEF Next

\* Only Popen starts a child, that of its attempt.
LEMMA OnlyPopenStarts ==
    ASSUME IInv, [Next]_vars, NEW j \in Jobs, NEW a \in Attempts,
           proc[j][a] = "none", proc'[j][a] # "none"
    PROVE  \E w \in Workers : rpc[w] = "popen" /\ snap[w].job = j /\ attempt[j] = a
<1>0. proc \in [Jobs -> [Attempts -> ChildState]]
  BY DEF IInv, TypeOK, ChildState
<1>1. proc' # proc
  OBVIOUS
<1>2. ~Api
  BY <1>1 DEF Api, SubmitCreate, ApiRead, ApiCommit, ApiCrash, ManagerRecover
<1>3. \A w \in Workers : ~(Register(w) \/ Stop(w) \/ Crash(w) \/ MainThread(w))
  BY <1>1 DEF MainThread, Register, Stop, Crash, Recover, Claim, ClaimRead, ClaimFails, TouchError,
     DrainRead, DrainCommit, Offline
<1>4. ASSUME NEW i \in Jobs, NEW b \in Attempts, ChildExit(i, b) PROVE FALSE
  <2>1. PICK code : proc' = [proc EXCEPT ![i][b] = code] /\ proc[i][b] # "none"
    BY <1>4 DEF ChildExit
  <2> QED BY <1>0, <2>1
<1>5. PICK w \in Workers : Runner(w)
  BY <1>1, <1>2, <1>3, <1>4 DEF Next, vars
<1>6. Child(w) # "none" => \A x : ~SetChild(w, x)
  BY <1>0 DEF Child, SetChild
<1>7. ~Terminate(w)
  BY <1>1, <1>6 DEF Terminate
<1>8. Popen(w)
  BY <1>1, <1>5, <1>6, <1>7 DEF Runner, RunCancelled, CreateAttempt, FailAttempt, FailStart,
     MarkRunning, RecordPid, PollCancel, Kill, MonitorEnds, FinishAttempt, FinalRead, Settle,
     Requeue, FallbackRead, FallbackFail
<1>9. rpc[w] = "popen" /\ SetChild(w, "alive")
  BY <1>1, <1>8 DEF Popen
<1>10. snap[w].job = j /\ snap[w].attempt = a
  BY <1>0, <1>9 DEF SetChild
<1>11. snap[w].attempt = attempt[snap[w].job]
  BY <1>9 DEF IInv, RunnerOK, Busy
<1> QED BY <1>9, <1>10, <1>11

\* Every step records the attempt before its child is born.
LEMMA BornStep ==
    ASSUME IInv, [Next]_vars, NEW j \in Jobs, Born(j)
    PROVE  Born(j)'
<1> SUFFICES ASSUME NEW a \in Attempts, proc'[j][a] # "none" PROVE a <= attempt'[j]
  BY DEF Born
<1>1. attempt[j] \in Nat /\ a \in Nat
  BY DEF IInv, TypeOK
<1>2. attempt'[j] = attempt[j] \/ attempt'[j] = attempt[j] + 1
  BY AttemptGrows
<1>3. CASE proc[j][a] # "none"
  BY <1>1, <1>2, <1>3 DEF Born
<1>4. CASE proc[j][a] = "none"
  <2>1. attempt[j] = a
    BY <1>4, OnlyPopenStarts
  <2> QED BY <1>1, <1>2, <2>1
<1> QED BY <1>3, <1>4

\* The runner that claimed the attempt reads of the cancellation and settles
\* the job.
LEMMA DoomedRunner ==
    ASSUME IInv, [Next]_vars, NEW j \in Jobs, NEW a \in Attempts, Doomed(j, a), attempt[j] = a,
           ~ \E v \in Workers : Hands(v, j),
           NEW w \in Workers, rpc'[w] \notin {"idle", "touch"}, snap'[w].job = j
    PROVE  rpc'[w] = "claimed" \/ (rpc'[w] = "start" /\ snap'[w].cancel)
<1>0. TypeOK
  BY DEF IInv
<1>1. CASE rpc'[w] = rpc[w] /\ snap'[w] = snap[w]
  BY <1>1 DEF Doomed, Busy
<1>2. \A pc \in RunnerPC : GoTo(w, pc) => rpc'[w] = pc
  BY <1>0, GoToEffect
<1>3. CASE ClaimRead(w)
  <2>1. rpc[w] = "claimed"
    BY <1>3 DEF ClaimRead
  <2>2. GoTo(w, "start") /\ snap' = [snap EXCEPT ![w].attempt = attempt[snap[w].job],
                                                ![w].cancel = cancelReq[snap[w].job]]
    BY <1>2, <1>3 DEF ClaimRead, RunnerPC
  <2>3. /\ snap[w] \in Snapshot
        /\ attempt[snap[w].job] \in Nat /\ cancelReq[snap[w].job] \in BOOLEAN
    BY <1>0 DEF TypeOK, Snapshot
  <2>4. snap'[w] = [snap[w] EXCEPT !.attempt = attempt[snap[w].job],
                                   !.cancel = cancelReq[snap[w].job]]
    BY <1>0, <2>2, <2>3, SnapRead
  <2>5. snap'[w].job = snap[w].job /\ snap'[w].cancel = cancelReq[snap[w].job]
    BY <2>3, <2>4 DEF Snapshot
  <2> QED BY <1>2, <2>2, <2>5 DEF Doomed, RunnerPC
<1>4. CASE Runner(w)
  <2>1. rpc[w] # "claimed" /\ Busy(w)
    BY <1>4 DEF Runner, RunCancelled, CreateAttempt, Popen, FailAttempt, FailStart, MarkRunning,
       RecordPid, PollCancel, Kill, MonitorEnds, FinishAttempt, FinalRead, Settle, Requeue,
       FallbackRead, FallbackFail, Busy
  <2>2. snap'[w].job = snap[w].job
    <3>0. snap[w] \in Snapshot
      BY <1>0 DEF TypeOK
    <3>1. UNCHANGED snap \/ PollCancel(w) \/ FinalRead(w) \/ FallbackRead(w)
      BY <1>4 DEF Runner, RunCancelled, CreateAttempt, Popen, FailAttempt, FailStart, MarkRunning,
         RecordPid, Kill, MonitorEnds, FinishAttempt, Settle, Requeue, FallbackFail, workerVars
    <3>2. \/ UNCHANGED snap
          \/ snap' = [snap EXCEPT ![w].cancel = TRUE]
          \/ snap' = [snap EXCEPT ![w].retry = retry[snap[w].job]]
          \/ snap' = [snap EXCEPT ![w].seen = status[snap[w].job]]
      BY <3>1 DEF PollCancel, FinalRead, FallbackRead
    <3>3. CASE snap' = [snap EXCEPT ![w].cancel = TRUE]
      BY <1>0, <3>0, <3>3, SnapCancel DEF Snapshot
    <3>4. CASE snap' = [snap EXCEPT ![w].retry = retry[snap[w].job]]
      <4>1. retry[snap[w].job] \in Nat
        BY <1>0, <3>0 DEF TypeOK, Snapshot
      <4>2. snap'[w] = [snap[w] EXCEPT !.retry = retry[snap[w].job]]
        BY <1>0, <3>4, <4>1, SnapRetry
      <4> QED BY <3>0, <4>2 DEF Snapshot
    <3>5. CASE snap' = [snap EXCEPT ![w].seen = status[snap[w].job]]
      <4>1. snap' = [snap EXCEPT ![w] = [snap[w] EXCEPT !.seen = status[snap[w].job]]]
        BY <3>5
      <4>2. snap'[w] = [snap[w] EXCEPT !.seen = status[snap[w].job]]
        BY <1>0, <4>1 DEF TypeOK
      <4> QED BY <3>0, <4>2 DEF Snapshot
    <3> QED BY <3>2, <3>3, <3>4, <3>5
  <2>3. rpc[w] = "start" /\ snap[w].cancel
    BY <2>1, <2>2 DEF Doomed
  <2>4. RunCancelled(w)
    BY <1>4, <2>3 DEF Runner, CreateAttempt, Popen, FailAttempt, FailStart, MarkRunning,
       RecordPid, PollCancel, Kill, MonitorEnds, FinishAttempt, FinalRead, Settle, Requeue,
       FallbackRead, FallbackFail, RefusesStart
  <2> QED BY <1>2, <2>4 DEF RunCancelled, RunnerPC
<1>5. CASE Claim(w)
  <2>1. PICK i \in Jobs : Hands(w, i)
    BY <1>5, ClaimEffect
  <2> QED BY <2>1 DEF Hands
<1>6. CASE ClaimFails(w) \/ TouchError(w) \/ Crash(w)
  BY <1>2, <1>6 DEF ClaimFails, TouchError, Crash, RunnerPC
<1>7. Register(w) \/ Stop(w) \/ Recover(w) \/ DrainRead(w) \/ DrainCommit(w) \/ Offline(w)
        => UNCHANGED <<rpc, snap>>
  BY DEF Register, Stop, Recover, DrainRead, DrainCommit, Offline
<1>8. Api \/ (\E i \in Jobs, b \in Attempts : ChildExit(i, b)) \/ UNCHANGED vars
        => UNCHANGED <<rpc, snap>>
  BY ApiElsewhere DEF ChildExit, vars, workerVars
<1>9. \A v \in Workers : v # w /\ (Register(v) \/ Stop(v) \/ Crash(v) \/ MainThread(v) \/ Runner(v))
        => rpc'[w] = rpc[w] /\ snap'[w] = snap[w]
  BY OthersStay
<1> QED BY <1>1, <1>3, <1>4, <1>5, <1>6, <1>7, <1>8, <1>9 DEF Next, MainThread

\* No step starts a child of a job that is doomed.
LEMMA DoomedStep ==
    ASSUME IInv, [Next]_vars, NEW j \in Jobs, NEW a \in Attempts, Doomed(j, a)
    PROVE  Doomed(j, a)'
<1>1. cancelReq'[j]
  BY CancelStays DEF Doomed
<1>2. proc'[j][a] = "none"
  <2> SUFFICES ASSUME proc'[j][a] # "none" PROVE FALSE
    OBVIOUS
  <2>1. PICK w \in Workers : rpc[w] = "popen" /\ snap[w].job = j /\ attempt[j] = a
    BY OnlyPopenStarts DEF Doomed
  <2> QED BY <2>1 DEF Doomed, Busy
<1>3. attempt'[j] + 1 >= a
  <2>1. attempt[j] \in Nat /\ attempt[j] + 1 >= a
    BY DEF Doomed, IInv, TypeOK
  <2>2. attempt'[j] = attempt[j] \/ attempt'[j] = attempt[j] + 1
    BY AttemptGrows
  <2> QED BY <2>1, <2>2
<1>4. ASSUME attempt'[j] = a, NEW w \in Workers, rpc'[w] \notin {"idle", "touch"}, snap'[w].job = j
      PROVE  rpc'[w] = "claimed" \/ (rpc'[w] = "start" /\ snap'[w].cancel)
  <2>1. CASE \E v \in Workers : Hands(v, j)
    <3>1. PICK v \in Workers : Hands(v, j)
      BY <2>1
    <3>2. CASE w = v
      BY <3>1, <3>2 DEF Hands
    <3>3. CASE w # v
      <4>1. rpc'[w] = rpc[w] /\ snap'[w] = snap[w]
        BY <3>1, <3>3, OthersStay DEF Hands, MainThread
      <4>2. Busy(w) /\ snap[w].job = j /\ status[j] = "QUEUED"
        BY <1>4, <3>1, <4>1 DEF Hands, Busy
      <4> QED BY <4>2 DEF IInv, RunnerOK
    <3> QED BY <3>2, <3>3
  <2>2. CASE ~ \E v \in Workers : Hands(v, j)
    <3>1. attempt[j] = a
      BY <1>4, <2>2, AttemptGrows
    <3> QED BY <1>4, <2>2, <3>1, DoomedRunner
  <2> QED BY <2>1, <2>2
<1> QED BY <1>1, <1>2, <1>3, <1>4 DEF Doomed, Busy

BornInv == IInv /\ \A j \in Jobs : Born(j)

\* No child is older than the attempt that is recorded.
LEMMA BornInvariance == Spec => []BornInv
<1>1. Init => BornInv
  BY InitIInv DEF Init, Born, BornInv
<1>2. BornInv /\ [Next]_vars => BornInv'
  BY BornStep, StepIInv DEF BornInv
<1> QED BY <1>1, <1>2, PTL DEF Spec

\* A job that is queued with its cancellation requested never starts a child
\* again, whichever worker claims it, crashes or errors in between.
THEOREM CancelledStaysDown == Spec => CancelledNeverRestarts
<1>1. ASSUME NEW j \in Jobs, NEW a \in Attempts
      PROVE  Spec => [](cancelReq[j] /\ status[j] = "QUEUED" /\ attempt[j] = a - 1
                          => [](proc[j][a] = "none"))
  <2>1. BornInv =>
           (cancelReq[j] /\ status[j] = "QUEUED" /\ attempt[j] = a - 1 => Doomed(j, a))
    BY DEF BornInv, IInv, TypeOK, Born, Doomed
  <2>2. BornInv /\ Doomed(j, a) /\ [Next]_vars => Doomed(j, a)'
    BY DoomedStep DEF BornInv
  <2>3. Doomed(j, a) => proc[j][a] = "none"
    BY DEF Doomed
  <2>4. Spec => [][Next]_vars
    BY DEF Spec
  <2> QED BY <2>1, <2>2, <2>3, <2>4, BornInvariance, PTL
<1> QED BY <1>1 DEF CancelledNeverRestarts

=============================================================================
