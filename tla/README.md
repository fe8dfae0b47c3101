# Verification of okx-data-downloader

TLA+ modules for the concurrent and failure-prone parts of the OKX data
platform, the TLC runs that check them on small instances, and TLAPS proofs of
what matters most for every value of the constants. File and line references
are to the repository.

## 1. The system

### 1.1 Components

| component | code | state | operations | hard behaviour |
|---|---|---|---|---|
| task platform | `app/task/{state_machine,store,manager}.py`, `app/web/routers/tasks.py` | tables `metadata.jobs`, `job_attempts`, `workers` | submit, batch, cancel, pause, resume, recover, claim, update_status | every call is several transactions; compare-and-swap races; recovery after restarts |
| worker and runner | `app/task/{worker_service,runner}.py` | main loop, one executor thread per job, the child process | register, recover, poll, heartbeat, run, monitor, finalize, drain, offline | crash between two transactions, orphaned children, cancellation racing completion, shutdown |
| realtime order book | `app/realtime/{orderbook,manager,recovery}.py` | book, sequence number, state INIT/RUNNING/GAP_DETECTED/RESYNCING, open gaps | apply_snapshot, apply_update, periodic snapshot, trigger_resync, mark_snapshot_ready | lost and reordered updates, a snapshot thread reading beside the WebSocket thread |
| WebSocket client | `app/realtime/okx_ws.py` | connection, receive and heartbeat tasks, last message and pong times | connect, subscribe, receive, ping, reconnect | silent connections, a heartbeat that ends alone, reconnects |
| realtime writers | `app/realtime/writer.py`, `trades.py`, `market_data.py`, `app/quality/conflict.py` | bounded queue, buffer, pending batch, counters | put, flush, retry with backoff, stop | full queue, failing batches, records left at stop |
| historical downloaders | `app/downloader/*.py`, `cli/backfill.py` | stored rows, sync state, verified watermark, write queue | download_range, missing windows, paging, merge, flush | holes under a watermark, writer thread life cycle |
| continuous sync | `cli/sync_continuous.py` | instrument list, insert queue, watermarks, phases | catch-up, writer loop, tail polling, stop | a dead writer thread, join without progress, newest-first tails |
| REST client and proxies | `app/client/okx_client.py`, `app/proxy/*.py` | rate limit, cooldown, token buckets, proxy health | acquire, report_ok, report_fail, 429 handling, retries | a late success ending a cooldown, stalls when every proxy is disabled |
| latency probe | `app/latency/*.py`, `cli/latency_probe.py` | connections, pending ping, statistics windows, row queue and counters | receive, ping, summarise, write, stop | late samples, row accounting at stop |
| job hub | `app/web/ws.py` | clients, seen stamps | poll, broadcast, stop | changes marked as seen before they are delivered |
| web, services, quality, aggregation, database, configuration, frontend | `app/web`, `app/services`, `app/quality`, `app/aggregation`, `app/db`, `app/config`, `app/utils`, `frontend` | none of their own | queries, validation, presentation | - |

### 1.2 Interactions

The web process and the workers never talk to each other: they share the
PostgreSQL tables, one transaction (`session_scope`) at a time. A worker starts
one child process (a command of `cli/`) per attempt and reads its exit code and
a progress file. The commands call the downloaders, which call the REST client
through the rate limiter and the proxy pool and hand rows to a writer thread.
The realtime manager owns the WebSocket thread, a snapshot thread and one
writer thread per table; a gap the order book finds becomes a row of
`data_gaps` that the recovery coordinator closes. The job hub polls the job
table and pushes changes to browsers.

### 1.3 What makes each component correct

* task platform: one runner and at most one child per job; only the
  transitions of `state_machine.py`; `max_retry` bounds retries; SUCCESS means
  a recorded exit code 0; a cancellation that was accepted takes effect; no job
  is stranded;
* order book: never apply an update that does not follow the book; a gap
  always leads to a resync, a snapshot record is one state of the book;
* writers: every accepted record is inserted or counted as dropped;
* downloaders: below a verified watermark there is no hole;
* sync: a watermark moves only over inserted data; the pipeline drains;
* rate limit: the slots of a proxy keep their distance, a cooldown is respected;
* latency probe: produced rows = written + failed + dropped;
* job hub: the last status a client has seen is eventually the current one.

## 2. Plan and state of the work

In the order of what the system depends on most; everything in the first list
is on disk, model-checked, and proved where a `_proofs` module is named.

1. `JobLifecycle`, `TaskSystem`, `MCTaskSystem`, `TaskSystem_proofs` - the task
   platform and its workers (section 3);
2. `BookFeed`, `OrderBook`, `OrderBook_proofs` - the order book: sequence
   checks, resync, gap table and snapshot thread (section 4);
3. `BatchWriter`, `BatchWriter_proofs` - queue, flush, retry and stop of the
   realtime writers (section 5);
4. `WsClient`, `TradeStore`, `TradeFeed`, `TradeFeed_proofs` - the connection,
   the writers of the trades table with their detection of conflicts, and the
   recoveries that put both together (section 6);
5. `CandleWindows`, `CandleWindows_proofs`, `WriteBuffer`, `ContinuousSync`,
   `ContinuousSync_proofs` - missing windows and watermarks, the write buffer,
   and the programs that use them (section 7);
6. `ProxyPool`, `DynamicPool`, `RestClient`, `RestClient_proofs` - slots,
   health, the build of a pool from Clash, throttling and retries (section 8);
7. `LatencyWriter`, `LatencyProbe`, `LatencyProbe_proofs` - samples, counters,
   windows and the shutdown of the latency probe (section 9).

`OrderBook` has a connection of its own, abstract, in `Drop` and `Connect`;
`WsClient` is the code behind those two actions. `RestClient` is not composed
with the downloaders: for them a request returns or fails.

Left for later: the connection of the latency probe; `JobHub`, the polling
broadcast of `web/ws.py`.

## 3. The task platform

### 3.1 Modules

`JobLifecycle` is the abstract promise about one row of `metadata.jobs`: the
transition table of `state_machine.py`, the retry exception with its bound, one
attempt per claim, and the interruptions of a restart recovery. The store never
consults that table (`JobStateMachine` is not called at run time); that the
platform follows it is a result about all the callers.

`TaskSystem` is the platform. One action is one transaction of
`PostgresJobStore`, or one operation on a child process. What a thread read in
an earlier transaction is kept in its snapshot (`snap`, `drainSeen`, `api`) and
used as the code uses it, whatever has been committed since.

| code | actions |
|---|---|
| `TaskManager.submit` | `SubmitCreate`, `ApiCommit` |
| `cancel`, `pause`, `resume` | `ApiRead`, `ApiCommit` |
| a web process dying inside a call | `ApiCrash` |
| `TaskManager.recover` | `ManagerRecover` |
| `WorkerService.register`, `recover` | `Register`, `Recover` |
| `_do_poll` and `claim_next` (two transactions) | `Claim`, `ClaimRead`, `ClaimFails`, `TouchError` |
| signals and `stop` | `Stop` |
| `_request_running_cancellation` | `DrainRead`, `DrainCommit` |
| `executor.shutdown`, `_do_offline` | `Offline` |
| `TaskRunner.run` | `RunCancelled`, `CreateAttempt`, `Popen`, `MarkRunning`, `RecordPid` |
| `_fail_start` | `FailAttempt`, `FailStart` |
| `_monitor` | `PollCancel`, `Kill`, `MonitorEnds` |
| `_finalize` | `FinishAttempt`, `FinalRead`, `Settle`, `Requeue` |
| the fallback of `_run_job` | `FallbackRead`, `FallbackFail` |
| the child | `ChildExit` |

An element of `Workers` is one start of a worker process (a restart has a new
id); `NameOf` says which starts share a name and node, which is what the
recovery of a restart goes by. `Mortal` starts may crash at any point, and
their children live on.

Store calls can raise. `update_status` commits and then reads the row back in
another transaction, so it has four outcomes: done, refused by the
compare-and-swap, failed before the commit, failed after it (`readback`). The
same holds for `claim_next`. The number of such errors is bounded by
`MaxFaults` in the actions' guards; nothing else is bounded artificially, the
retry limit being that of the parameter models (`registry.py`, `max_retry` at
most 3; `RetryCap` in the model).

Abstractions: heartbeats are the set of jobs a sweep finds stale, any set at any
time, which includes every timing of the real ones; `FOR UPDATE SKIP LOCKED`
with the order by priority and creation is `NextInQueue`; a worker runs one job
at a time, the default of `WorkerService`; progress rows, audit rows, log and
progress files are left out, no decision depends on them.

### 3.2 Runs

| run | instance | what it shows |
|---|---|---|
| `task_platform` | one job with one retry, two starts under one name, both mortal, one client, one database error anywhere | the type invariant, `OneRunnerPerJob`, `OneChildPerJob`, `AttemptAccounting`, `SuccessIsRecorded`, `ActiveHasRunner`, `LegalTransitions`, the refinement `ImplementsLifecycle`, `OnlyErrorsStrand`, `CancelTakesEffect`, `CancelledNeverRestarts` |
| `task_terminal` | as the first, without crashes and errors | finding: `TerminalIsFinal` is violated |
| `task_drain` | two jobs of different priority, one worker | finding: `DrainIsCancelled` is violated |

One job with two workers exercises every race on one row (the proofs cover any
number of rows); no property is about the order of the queue. One retry is
enough for an attempt to follow another, one error for every handler to be
entered at every place. Deadlock is not checked: a system in which all jobs
have ended and all workers are gone has stopped legitimately.

What errors do to a row is said by two properties. A row is *stranded* when it
is ASSIGNED or RUNNING, no runner works on it and the process it is assigned to
is alive; only a restart of that worker under its name ends that.
`ActiveHasRunner`: until a call of the store raises, no row is stranded.
`OnlyErrorsStrand`: with errors, a row is stranded only by the very step whose
call raises; an error that came earlier in the attempt does no harm, because
the fallback of `_run_job` makes it good, in whatever state the error left the
row (the mutant is a fallback that only thinks of RUNNING). The calls that do
strand a row are those whose exception is handled where it occurs:
`runner.py:65` (the cancellation before the start), 112 (RUNNING and the pid),
155 (the failed start), 297 (the settlement), the fallback's own calls, and the
second transaction of a claim (`store.py:170`). The comment in `_run_job`
(`worker_service.py:190`: 意外异常时确保任务不永久停留在 RUNNING/ASSIGNED, an
unexpected exception must not leave a job in RUNNING or ASSIGNED) promises more
than that; `OnlyErrorsStrand` is what is true.

Fairness (`FairSpec`): the threads of a live worker keep taking steps, and a
child that was sent SIGKILL dies. Nothing obliges an operator to stop a worker
or a child to exit by itself. `CancelTakesEffect` is checked under crashes and
an error at any call: a cancellation accepted for an active job makes the job
inactive, unless its worker process dies or an error strands the row.

### 3.3 Findings

* `task_terminal`: the WHERE clause that `mark_stale` builds for a restarting
  worker (`store.py:260-266`) has the form *active AND mine AND stale OR
  assigned to a namesake*. The namesake disjunct is not guarded, so the start
  of a worker turns jobs in SUCCESS, FAILED or CANCELLED, and running jobs of a
  live namesake, into INTERRUPTED. `state_machine.py:9` says terminal states
  have no outgoing edge. `JobLifecycle` is weakened accordingly (`Sweep`), and
  `LegalTransitions` excepts INTERRUPTED.
* `task_drain`: the drain of a stopping worker reads a job as ASSIGNED, its own
  runner makes it RUNNING, the swap is refused and only logged; the worker then
  waits for a child that nobody has asked to stop (`worker_service.py:224`
  promises the contrary).

### 3.4 Proofs

`TaskSystem_proofs` proves, for any finite or infinite number of workers and
clients, any number of jobs, any names, priorities, capabilities, retry limits
and bound on errors (`TaskAssumption` only fixes the types of the constants):

* `Invariance`: `Spec => []IInv`. `IInv` is needed because none of the safety
  invariants is inductive: that a retry never overlaps an earlier child, for
  one, holds because a runner *owns* its row. A runner's job is assigned to that
  worker and is not in the queue; nobody but that runner can put it back
  (the only way out of FAILED is its own retry), so the attempt it was handed
  stays the current one, the only living child is that attempt's, and it has
  exited by the time the runner lets go. `JobOK`, `ChildOK`, `RunnerOK`,
  `DrainOK` and `CallOK` say this of a row, its children, a runner, a draining
  main thread and a call in flight;
* the corollaries `TypeCorrect`, `OneRunner`, `OneChild`, `Accounting`,
  `RecordedSuccess`;
* `Refinement`: `Spec => ImplementsLifecycle`, every step maps to a step of
  `JobLifecycle` or a stutter, and from it `Legality`.

* `ErrorsAlone`: `OnlyErrorsStrand`, for any number of errors. `IInv` says what
  a runner's row is, not that a row has a runner; `StageInv` adds what a runner
  knows where it is (`StageOK`): its row is not RUNNING before `MarkRunning`,
  not ASSIGNED after it, not active when a retry is due, and on the error path
  an active row still has the status that was read. So each last transaction of
  a runner that does not raise finds the status it expects, or a row that is no
  longer active (`StrandStep`);
* `ActiveRowsHaveRunners`: `ActiveHasRunner`, by induction from it;
* `CancelledStaysDown`: `CancelledNeverRestarts`, with any number of errors and
  crashes. `Doomed(j, a)` is what every step keeps:
  the request stays, attempt `a` has no child, and a runner that holds it has
  either not read the row yet or read it with the request set, so that it
  refuses the start. It holds from the moment the job is queued, because no
  child is older than the recorded attempt (`Born`).

The proof has one lemma per action, and one lemma per shape of step
(`RunnerStep`, `QuietStep`, `SettleEnds`, `TableStep`, `MainStep`) that the
action lemmas instantiate. Only model-checked: `CancelTakesEffect`, which
depends on fairness.

## 4. The realtime order book

### 4.1 Modules

`BookFeed` is the abstract promise: a local book that is live is the exchange's
book at some moment; it moves from there to the very next one, or goes blind,
and comes back at a moment that is not earlier.

`OrderBook` is the code for one instrument. The handlers of two instruments
share nothing but the connection. The exchange is external: `hist` is the
sequence of its changes, and `last_update_ts` is the index of a change, so that
the time a record carries can be compared with the levels it shows. A book is
the set of its levels; `Levels` of two sides are enough to tell books apart and
to have an empty side (`periodic_snapshot` returns nothing then).

| code | actions |
|---|---|
| the books channel and the network (external) | `Publish`, `PublishReset`, `Lose`, `Drop` |
| `OKXWebSocketClient.connect`, which subscribes again | `Connect` |
| `handle` on an update: dropped, applied, refused | `UpdateDropped`, `UpdateApplied`, `UpdateRefused` |
| `prepare_resync` after a refusal | `PrepareResync` |
| `trigger_resync`: event, gap, event (three transactions) | `StartEvent`, `RegisterOpen`, `FinishEvent` |
| `handle` on a snapshot: clear, then apply | `SnapshotArrives`, `ApplySnapshot` |
| rest of `_handle_orderbook` | `HandOver`, `MarkSnapshotReady` |
| `periodic_snapshot`, `_emit_periodic_snapshot`: one action per read | `SampleTick`, `SampleCopy`, `SampleNothing`, `SampleTs`, `SampleSeq`, `SampleFactors`, `SampleSyncSeq`, `SampleSyncState`, `SamplePut` |
| the process dies and is started again | `Restart` |

A step ends where `OrderBookState._lock` is released, a transaction commits or
a field is read without the lock; what lies between is one action. The
WebSocket thread reads its own state (`handle`) without the lock but is the
only thread that writes it, so those reads are part of the action they guard.
A gap is registered with the time of detection as its end, so that two gaps
never coincide and the duplicate test of `register_open` never applies. A
connection delivers in order; `Lose` stands for whatever makes a message
disappear (the exchange's own drops, messages that fail to decode). Rows
handed to the writer count as stored: what the writer does with them is the
subject of `BatchWriter`.

### 4.2 Runs

| run | instance | what it shows |
|---|---|---|
| `book` | two levels a side, two changes, and one each of reset, loss, disconnection, restart, database error | `TypeOK`, `TrustedBookIsMirror`, `SampleIsReal`, `GapsFollowState`, the refinement `ImplementsFeed`, and the liveness of `ReconnectHeals` and `SyncCatchesUp` |
| `book_reset` | three changes, one reset, one loss | finding: `BookIsMirror` is violated |

Two changes after the first book are what a torn record needs (one between the
copy and the time, one between the time and the number, or one on each side of
the book within the copy), and with two levels a side there are several books
with both sides that can be mistaken for one another; the proofs cover any
number of either. `Start` and `ResetBelow` are small so that a reset is a reset and an
ordinary change is not. Every bound (`MaxChanges` and the rest) limits the
environment; no action of the code is bounded, except that `MaxFaults` counts
the transactions that raise. Deadlock is not checked: when the environment's
bounds are used up and the book waits for a snapshot, everything may rest.

`Trusted` is the exception the first finding makes necessary: the numbers were
never reset, or nothing was lost. `SampleIsReal` says what the reads outside
the lock leave of a record's consistency: the levels, bids and asks, are one
book of the exchange and not from after the time they are stored under; the
sequence number and the book of the factors, stored under that time as well,
are not from before it. A copy of the two sides in two critical sections, a
time that is read before the levels, or factors of the earlier copy each break
one of the three.

Fairness (`FairSpec`): the two threads keep taking steps (one loops on `recv`,
the other on a timer) and `connect` retries for ever. The exchange and the
network owe nothing. `ReconnectHeals` is therefore about a connection that is
already gone and loses no more snapshots.

### 4.3 Findings

* `book_reset`: `apply_update` reaches the test for a reset only when
  `prevSeqId` is not the book's `seqId` (`orderbook.py:108`, `117`); a reset
  whose predecessor was applied is an ordinary update. So the branch accepts an
  update precisely when something before it is missing, and the book runs on
  with wrong levels.

That a gap heals on a connection that stays up is not checked because it does
not hold: after a gap the handler waits for `action=snapshot`, which the
exchange sends to a new subscription only, and nothing subscribes again
(`README.md:325` of the repository calls the wait a resync). `ReconnectHeals`
says what is left: a replaced connection heals the book.

`GapsFollowState` is stated without database errors and, in part, without
restarts: a failed transaction of `trigger_resync` is only logged
(`manager.py:223`), and the first snapshot after a restart has type INITIAL and
closes no gap that an earlier process left open (`orderbook.py:261`).

### 4.4 Proofs

`OrderBook_proofs` proves for any levels, first number, threshold and bounds
(`BookAssumption` fixes their types):

* `Invariance`: `Spec => []IInv`. The book is the exchange's because the
  sequence numbers of `hist` are chained (`Chained`) and, without a reset, count
  the changes (`Numbered`); messages arrive in order and none is from before
  what the handler knows (`InOrder`); so an update that names the book's number
  as its predecessor is the next change (`FollowsIsNext`). With a reset that
  argument fails, and another takes its place: as long as nothing was lost, the
  messages in flight are all that is missing (`Complete`), so that no update is
  ever refused (`NoGapWithoutLoss`). `Placed` ties the state of the book to the
  point the handler has reached, `RowInv` follows the sampler's copies, `GapInv`
  the tables;
* the corollaries `TypeCorrect`, `Mirror`, `Samples`, `Gaps`;
* `Refinement`: `Spec => ImplementsFeed`.

Only model-checked: `ReconnectHeals` and `SyncCatchesUp`, which depend on
fairness.

## 5. The realtime writers

### 5.1 Module

`BatchWriter` is `BaseWriter` with the flush of `OrderBookWriter` or of
`MarketDataWriter`; which of the two is chosen in `Init`. It is where
`HandOver` and `SamplePut` of `OrderBook` put their rows. A record is its place
in the order of the puts, its table and its primary key; a table maps a key to
the last record written under it, which is what `ON CONFLICT DO UPDATE` leaves.

| code | actions |
|---|---|
| `put`: accepted; queue full for `PUT_TIMEOUT` | `Put`, `PutFails` |
| `stop`: the event; join gives up and the process ends | `Stop`, `Exit` |
| `_run`: retry, or go on to the buffer | `Retry`, `Poll` |
| `_buffer.get` with a timeout | `Take`, `GetTimesOut` |
| batch full or `FLUSH_INTERVAL` over; or not | `FlushBatch`, `NotDue` |
| after the loop | `FinalFlush` |
| `_flush`: one statement, in a transaction of its own | `WriteGroup` |
| a statement raises; the batch is kept | `FlushFails` |
| `_flush` returns | `FlushEnds` |

A statement fails for a reason outside (at most `MaxFaults` times) or because it
would write one row twice, which PostgreSQL refuses (`Rejected`); only
`_flush_sync_state` keeps one row per key. The other bounds, `MaxRecords`,
`Cap` and `BatchSize`, are the environment and the class constants. Two tables
stand for the five of `MarketDataWriter`, which are treated alike. Sleeping in a
backoff is not a state of its own: the thread does nothing meanwhile, which any
delay before `Retry` covers.

### 5.2 Runs

| run | instance | what it shows |
|---|---|---|
| `writer` | both writers; three records with two keys, a queue of one, batches of two, two database errors, a stop | `TypeOK`, `Kept`, `NeverBackwards`, `Delivered` |
| `writer_loss` | two records, one error | finding: `NothingLost` is violated |

Two records of one key in different batches are needed for an old batch to meet
a newer one, a third so that a batch fills while another is pending; a queue of
one is full at once. `NeverBackwards` holds because the thread takes nothing
from the queue while a batch is pending (the `continue` of `writer.py:91`), so
at most one batch is unwritten. `Kept` and `Delivered` are what
the finding leaves of the docstring: a record is held until it is stored,
unless it has lost its tag, the last flush fails or the process ends.
`Delivered` also excepts a batch with two rows of one key (`Poisoned`), which
is tried again for ever; see the hazards.

Fairness (`FairSpec`): the thread keeps taking steps, and `FLUSH_INTERVAL`
passes again and again, so that a batch that is not full is not left for ever
(strong fairness of `FlushBatch`, which `NotDue` disables in between).
Deadlock is not checked: a stopped writer rests.

### 5.3 Finding

* `writer_loss`: the flush methods of `OrderBookWriter` pop `__type` from the
  records before the statement runs (`writer.py:152`, `180`, `206`). If it
  fails, the retried batch contains no record of any type: `_flush` writes
  nothing and returns, and the rows are gone without a message, against
  `writer.py:27`.

### 5.4 Proofs

`BatchWriter_proofs` proves for any tables, keys, capacities and bounds:

* `Invariance`: `Spec => []IInv`. Nothing of what the runs check is inductive:
  that a stored row is never replaced by an older one (`Backed`) depends on
  where every accepted record is. Buffer, pending batch and queue together hold
  the accepted records in the order of their arrival (`Placed`, `Ordered`), so
  whatever is written now is newer than all that was written, and a batch that
  was half written and comes again is written over itself. `Written` follows one
  flush: what it has passed is stored or was left behind without its tag;
* `TypeCorrect`, `NothingElseLost` (`Kept`) and `RowsOnlyAdvance`
  (`NeverBackwards`).

Only model-checked: `Delivered`, which depends on fairness.

## 6. The connection, the trades table and the recoveries

### 6.1 Modules

`WsClient` is `okx_ws.py`: `connect()` and the two coroutines it gathers, the
receive loop and the heartbeat. Times are reduced to what is asked of them:
`quiet` (no message for `message_timeout`) and `pong` (the last pong is missing,
fresh or too old, and stays what it is across connections).

`TradeStore` is the trades table with everything that writes to it: the thread
of `TradeWriter`, and one download of `TradesDownloader` for each of its two
callers, the recovery and the backfill command. Each asks the conflict detector
in transactions of its own before it inserts, so a look, a registration and an
insert are three steps. Trades are numbered; a trade in `Odd` has other core
fields on the WebSocket than on the REST side, and a row is told by the side it
came from.

`TradeFeed` composes both into a collector of trades and one more kind of data,
as `RealtimeManager._run` does: the recoveries first, then the connection, and
the recoveries again, on the event loop, after each reconnection.

| code | actions |
|---|---|
| `connect`: dial, subscribe, gather, back off | `Connect`, `Dial`, `Subscribe`, `GatherReturns`, `Backoff` |
| `_receive_loop`, `TradesRealtimeHandler.handle` | `Receive`, `Pong`, `ReceiveEnds` |
| `_heartbeat_loop` | `HeartbeatEnds` |
| `close` | `Close` |
| the network and the exchange (external) | `PeerCloses`, `Silence`, `Trade` |
| `TradeWriter._flush`: detection, registration, insert | `Take`, `Look`, `Register`, `Flush` |
| `TradesDownloader.download_range` | `Fetch`, `RestLook`, `RestRegister`, `RestInsert`, `SyncState` |
| `_run_recovery` | `Begin` |
| `TimeRangeRecovery.recover`: event, gap, download, gap, event | `RangeEvent`, `RangeGap`, `RangeDownload`, `RangeMark`, `RangeFinish` |
| `TradeRecovery.recover`: latest trade, event, download, event | `Latest`, `Event`, `Download`, `Downloaded`, `Finish` |

The queue and retries of `BaseWriter` are those of section 5; here a batch that
fails is tried again, and the queue has no bound. A call of `close` that comes
while the start-up recovery runs has no effect (`connect` sets `_running`
afterwards), so `Close` needs a connection.

### 6.2 Runs

`trade_feed`: two trades, one made before the start and perhaps stored, both
odd; pages of one trade; one break of the connection (a dial that fails or a
peer that closes); one failing request or transaction, anywhere; both conflict
policies; mark prices, funding rates or open interest. One break reaches the
second recovery, with all of what the writer may be doing meanwhile; two trades
are what a page boundary and a batch of two need.

* `RawIsKept`: what is stored keeps its side, and a conflict is only registered
  against a row that stays (under the policy `ws` never against one of the
  WebSocket);
* `RecoveredIsFetched`: a recovery one of whose transactions or requests failed
  does not say RECOVERED. A gap that does has its window of candles stored
  (funding rates are excepted, below), the event of the range does not say it
  before the gap does, and when the event of the trades does, every trade the
  download asked for is stored. It does not say that these are the missed ones;
* `Reconnects`: a connection that was closed is replaced. It needs both
  coroutines to find out by themselves, since `gather` waits for both.

`trade_recovery`: one trade stored, two more to be made, no failure.
`RecoveredIsFilled`, what `trades.py:45` says of `after_trade_id`, is violated: a
trade made while nobody listens is in neither the table nor the writer when the
event of the trades says RECOVERED for `from_id` to `to_ts`. It is a finding.

Fairness: the event loop runs what is ready (`Connection`), and every request
and transaction of a recovery ends (`Recovery`). Nothing is asked of the
exchange, the writer thread or the backfill. Deadlock is not checked: a
collector that was closed rests.

### 6.3 What the model says of the code

* `_heartbeat_loop` promises to force a reconnection on a silent connection
  (`okx_ws.py:153`). It only ends itself: the receive loop of the same `gather`
  goes on, so nothing is replaced, and no ping is sent any more. A pong time of
  the last connection ends the first heartbeat of the next one.
* The recovery of trades passes the latest stored trade as `after`, which OKX
  reads as *older than*; the trades missed during a disconnection are newer.
  They are never fetched, and the event says RECOVERED: the run `trade_recovery`
  (`RecoveredIsFilled`). `latest_trade_id` of the sync state is the oldest trade
  the download saw.
* The recovery of funding rates starts after the newest stored rate if there is
  one from before the window (`funding.py:73`). A hole below that rate, left by
  an earlier recovery that failed, stays, and its window is marked RECOVERED.
  `RecoveredIsFetched` excepts funding rates, so no property covers this.
* Price candles are recovered with the default bar of one day over a window of
  five minutes, so there is hardly ever a row in it; the gap is RECOVERED.
* The detector reads before the insert. A differing row that loses that race is
  dropped by ON CONFLICT DO NOTHING, unregistered; two writers that both find
  no OPEN row register the same conflict twice; when detection fails,
  `TradeWriter` inserts without it.

### 6.4 Proofs

`TradeFeed_proofs` proves for any number of trades, any page size and any bound
on faults:

* `Invariance`: `Spec => []IInv`. A writer looks for conflicts, registers them
  and inserts in three transactions while the others insert, so `Conflicts`
  says what each of them knows in between: a row it found different is there
  and, as no insert replaces a row, still different. `RecoveryOK` and `Backing`
  follow one recovery from its event over its download to the mark: what the
  download has passed is stored, and an event is only marked by the recovery
  that opened it. `WsOK` ties the reconnection to the recoveries it waits for;
* `TypeCorrect`, `RawRowsStay` (`RawIsKept`), `RecoveriesAreFetched`
  (`RecoveredIsFetched`). The rows of the range have to be followed in their
  order: while a recovery is before its last transaction, its event does not say
  RECOVERED, and after the last but one its gap does if the download succeeded.

Only model-checked: `Reconnects`, which depends on fairness.

## 7. Candles: downloader, write buffer, continuous sync

### 7.1 Modules

`CandleWindows` is the arithmetic of `CandleDownloader` as operators: which
windows of a series are missing, how they are cut into days, what a page is,
and up to where a checked range counts as verified. Time is counted in bars.

`WriteBuffer` is `_WriteBuffer`: `put` appends and waits, one thread merges
what it finds into a transaction and answers every caller of that merge.
`stop`, which no code calls, is left out.

`ContinuousSync` is the backfill command and both phases of `sync_continuous`
over one database. A launch runs until it ends, is signalled or is killed
(`Kill`); the tables are all the next launch finds.

| code | actions |
|---|---|
| `catch_up_pass`, `download_range`: windows and tasks | `DetectSync`, `DetectBackfill`, `Take` |
| `_fetch_backtrack` | `FetchPage`, `LastPage`, `FetchFails`, `Saved`, `SaveFails` |
| `_WriteBuffer.put`, its thread | `Put`, `Flush`, `FlushFails`, `PutTimesOut` |
| `mark_verified`, `batch_refresh_watermark`, lag | `Mark`, `Refresh`, `RefreshFails`, `CheckLag` |
| `run_phase2`, `sync_round` | `StartRound`, `QueueTail`, `TailFails`, `RoundFetched`, `Join`, `EndRound`, `EndPhase2`, `Exit` |
| `writer_loop` | `WriterTakes`, `WriterIdles`, `WriterInserts`, `WriterUpserts`, `WriterTests`, `WriterReports`, `WriterEnds`, `WriterDies` |
| start, signal, end of a process | `LaunchSync`, `LaunchBackfill`, `Signal`, `Gone`, `Kill` |

### 7.2 Run

`sync_pipeline`: one instrument, two threads, five slots in days of two, pages
of one candle, two launches of either program, one failure. Two launches make
what one leaves behind the start of the next; two slots a day make a day with a
hole in it; two threads are what a merge of the write buffer needs. `Since` and
`Horizon` bound the clock, which keeps running under the programs.

* `AdvanceIsChecked`: the verified watermark moves over no hole of the range
  that was checked, except the head of its first day (below);
* `WatermarkIsStored`: `sync_state` names a stored candle, whatever fails or is
  killed between the two transactions;
* `PutIsDurable`: a `put` that returns has stored its caller's rows;
* `StopMeansStored`: a row of phase 2 stays in the queue or the batch until it is
  in the table, and `run_phase2` only returns when none is left, although
  `task_done` comes before the flush; a kill alone loses rows;
* `StagesEnd`: pools, rounds and the stop end, unless the writer thread died.

Fairness: the threads of a live process go on; nobody has to start, signal or
kill one. Deadlock is not checked: after the last launch everything rests.

### 7.3 What the model says of the code

* On the first checked day the oldest stored candle stands for the first there
  is (`candles.py:190`). A save that stored only the newer part of that day
  therefore hides its head, for ever once the watermark has moved.
* The watermark is set, not raised (`candles.py:279`): a range that ends below
  it moves it back, one that starts above it moves it over ground nobody
  checked.
* An exception of an insert ends the writer thread of phase 2, and
  `queue.join` then waits for ever; `StagesEnd` excepts exactly that. The wait
  for `idle_event` is at most 5 s and its result is not looked at.
* `writer_loop` says that `idle_event` is set when the queue is empty and the
  batch is flushed (`sync_continuous.py:430`), and `run_phase2` waits for it so
  that the next round sees the newest watermarks (line 547). The test
  (`WriterTests`) and the `set` (`WriterReports`) are two steps: the main thread
  may put rows, clear the event and join in between, and then finds the event set
  with those rows in the batch. The next round reads old watermarks and fetches
  rows again, which the primary key absorbs. No run states this; the variable
  `idle` is in the model so that the interleaving is.
* The forming candle may be stored by catch-up, and DO NOTHING keeps it when
  the closed one comes. The model tells candles apart by slot, so no property
  is about this.

### 7.4 Proofs

`CandleWindows_proofs` proves the arithmetic behind `AdvanceIsChecked`, for any
stored set, range, listing time and length of a day: `NoHoleIsVerified`. A slot
below `VerifiedUpto` of the windows that were found is stored, or is on the
first checked day with nothing stored from the start of the check up to it,
and something stored after it.
The argument goes day by day: a day in no window passed the count of
`Complete`, and a count that reaches `ExpectedBars` from `Base` is a day without
a hole above `Base` (`CompleteDay`, by the cardinality of an interval); the days
in windows begin at or above the least `from` (`MergeCovers`, `WindowStart`).
`Base` is the head of the day, except on the day of the listing, below which
there is nothing (`Listed`), and on the day of the oldest stored candle: the days
before that one are empty, so that they are in a window unless there are none
(`EmptyDay`).

`ContinuousSync_proofs` proves, for any instruments, threads, page and batch
sizes, launches, failures and lengths of a day: `TypeCorrect`,
`WatermarksAreStored`, `PutsAreDurable`, `StopsAreFlushed` (`StopMeansStored`) and
`AdvancesAreChecked`, which is `AdvanceIsChecked` itself. Between the step that
finds the windows and the step that sets the watermark other threads store
rows, requests and saves fail and puts time out, so `NoHoleIsVerified`, which
speaks of one state, is not enough. `IInv` adds

* `Saving`: a thread that waits owns one item of the queue, with at least its
  rows; that is what makes an answer of the buffer mean its caller's rows;
* `Kept`: while `writer_loop` is between its two transactions, the batch is in
  the table; `Rounds`: STOP is queued when the rounds are over, and last, and when
  it has been taken and counted the batch is empty and the writer gone;
* `Windows`: for every instrument with a task or a success, `Checked` - what
  `NoHoleIsVerified` says of its windows - is still true;
* `Trails`: days are stored from their end. What a thread has asked for and not
  saved reaches without a hole from its `after` to the end of its window, a
  window ends with a day or with the range (`Whole`), and so every item of the
  queue has, with a row, all that follows it on its day (`Contiguous`).

`Trails` is what keeps `Checked`: a head that was empty may not be stored in its
middle, or the slots between would be passed as neither stored nor before the
oldest. Each transaction therefore has to be `InOrder`, also when it merges the
items of a thread that gave up; `PageCovers` (a page leaves out no closed candle
between its oldest and the slot it was asked for) is where that begins. The
slot at the end of a range may still be forming and is left out of `Contiguous`.
Only model-checked: `StagesEnd`, which depends on fairness.

## 8. The REST client and its proxies

### 8.1 Modules

`ProxyPool` is the pool: a key keeps its proxy while that is healthy, a proxy
hands out slots one by one, failures disable it, a 429 cools its slots.
`DynamicPool` builds such a pool from the nodes of a running Clash: cache,
tests of the nodes, `Merge.yaml`, ports, exit IPs, and the way back when one of
them fails. `RestClient` is `OKXClient._get` and `_get_with_pool` of several
threads, with `build_proxy_pool` choosing in `Init` between no pool, a list and
a build.

| code | actions |
|---|---|
| `_get` without a pool | `Call`, `Throttle`, `StillCool`, `Direct` (with `On429`, `DirectAnswer`) |
| `_get_with_pool` | `Acquire`, `Wait`, `Send`, `PoolAnswer` |
| `report_ok`, `report_fail`, `set_cooldown` | `ReportOk`, `ReportFail`, `Report429` |
| `build_dynamic_pool` | `Discover`, `TestNode`, `EndTest`, `Apply`, `PortsReady`, `PortsTimeOut`, `Verify` |
| the monotonic clock (external) | `Tick`, `PoolTick` |

Deadlines are kept as the ticks left to them. The clock (`Tick`) waits for
nobody: `time.sleep` guarantees a minimum, so a thread that is awake may take
its next step at any later time, and a request takes as long as it likes. Each
step under a lock is one action.

### 8.2 Run

`rest_client`: two threads, one call each with up to three attempts, two
proxies or nodes with two exit IPs, a rate of two tokens a tick that a 429
halves. Three attempts are two retries, enough for every pause to follow every
other; two threads share a proxy or the bucket. A slot is one tick here and a
cooldown two, so that a thread can queue behind a slot, a cooldown and a late
thread; longer slots are left to the proof.

* `TypeOK`: limits of attempts, stalls, failures and the rate, a proxy of the
  pool for whoever has one, and the longest sleep, which is that of the longest
  queue for a slot;
* `Paced`: the slots of a proxy begin a slot apart and one at a time, whichever
  threads hold them, though each sleeps for its slot outside the lock and
  cooldowns move the next one; no request leaves before its slot begins; and
  after a 429 only those whose slot was reserved before are sent, though the
  success of an older request ends the proxy's own time out. It says nothing of
  the distance of the requests, which `wait` does not keep (8.3);
* `MergeRestored`: a build that fails puts `Merge.yaml` back, unless it was
  empty or unreadable or that very write fails;
* `CallsEnd`: every call returns or raises, under the fairness that threads and
  clock go on.

### 8.3 What the model says of the code

`_TokenBucket.wait` spaces slots, not requests: it sleeps outside the lock, so
a thread that wakes up late sends close to, or after, the owner of the next
slot, and as many requests can leave together as there are late threads. The
docstring (proxy_pool.py:73-75) speaks of requests handed out strictly
`1/rate` apart, without bursts; that holds of the slots (`Paced`) and, while
every thread is in time, of the requests.

`_throttle` does not look at `_cool_until`: only the thread that got the 429
sleeps, not all requests as its docstring says. An empty or unreadable
`Merge.yaml` is not restored although the error message says so. The second
result of `wait_ports_ready`, after the user pressed return, is ignored.
`unassign` has no caller, so threads that ended keep their proxies. Node IPs
from the cache may belong to nodes that are gone.

### 8.4 Proofs

`RestClient_proofs` proves for any number of threads, proxies, nodes and exit
IPs and any slots and pauses:

* `Invariance`: `Spec => []IInv`. `Slots` is why slots keep their distance
  although a thread sleeps outside the lock between reserving and sending: a
  slot to come ends before the next free one, begins a slot after the last one
  that began, and no two slots to come are less than one apart; of a thread
  that is late it only says that its slot is older than a 429 that binds. `Clocks` says that
  the bucket of a proxy is cold exactly while its last 429 binds it, whatever
  the proxy's own time out says; a slot that was reserved before the 429 is the
  only one that may still be used. `BuildOK` follows the copy of `Merge.yaml`
  from the read to the end of the build;
* `SlotsArePaced` (`Paced`; `BeginsBy` and `SlotBegins` are the two ways in
  which a slot begins) and `MergeIsRestored` (`MergeRestored`);
* `TypeInvariance` and `TypeCorrect` (`TypeOK`), for any number of threads. The
  bound on the sleeps is the hard part: a thread sleeps until the next free slot
  of its proxy, which each request and each 429 push further away. `Queues` is
  inductive where the bound is not: looking `x` ticks ahead, the next slot of a
  proxy is no further away than `Cool429`, or those `x` ticks, and a slot for
  each thread that holds one still to come; a tick turns what was `x + 1` ahead
  into what is `x` ahead. `PoolUse` says that without a pool nobody is on the
  way to a proxy, so that a pool that becomes ready finds `assigned` empty.
  The pauses double, and `Power2` is a recursive function: that it returns a
  natural number is proved from its definition by the least argument for which
  it would not (`TablesExist`, `TablesAgree`, `Powers`), as the induction
  theorems of the library are out of reach.

Only model-checked: `CallsEnd`, which depends on fairness.

## 9. The latency probe

### 9.1 Modules

`LatencyWriter` is where samples go: the queue, the thread and `stop` of
`LatencySampleWriter`, the counters of `StatsRegistry`, the windows of
`WindowSummarizer`, and their tables. A sample is the number of the window it
was received in. `LatencyProbe` adds the event loop's tasks and the main
coroutine of `cli/latency_probe.py` with its order of stopping.

| code | actions |
|---|---|
| `_handle_market_message`, pongs, REST times, strategy times | `MarketMessage`, `OtherSample` |
| `_run`: pending, queue, last flush | `TakePending`, `Get`, `LastFlush`, `Requeue`, `ThreadEnds` |
| `_flush`: counters, transaction, roll back | `ThreadBegins`, `ThreadCommits`, `ThreadFails` |
| `stop` | `SetStopped`, `Join`, `Drain`, `DrainBegins`, `DrainCommits`, `DrainFails`, `Report` |
| `tick`, `flush_all` | `Snapshot`, `Emit`, `CountersOnly`, `Prune` |
| the main coroutine | `RequestStop`, `FlushAll`, `StopWriter`, `Return` |

The lock of `_flush` is held from the first counter to the end of the
transaction; what the ticker sees in between is a registry that already counts
the batch, which is why a flush is two steps.

### 9.2 Run

`latency_probe`: two market samples and another, a queue of one, batches of
two, three windows, one failing transaction.

* `SamplesAccounted`: the equations `_log_accounting` prints hold, unless stop
  gave up on the thread;
* `WindowsAreStored`: a window the summarizer forgets is in the tables;
* `StopCompletes`: a probe that is asked to stop returns. Fairness: its tasks
  and threads go on. Deadlock is not checked, since it has then stopped.

### 9.3 What the model says of the code

The `written` row of a window can be wrong: a flush that commits between the
snapshot of the counters and their upsert has its newer row overwritten; a
flush after `prune` makes a new bucket whose lower value replaces the row; a
roll back after `prune` makes it negative. A window whose upsert fails is lost.
A stop that gives up on the thread leaves its batch unreconciled, and the
thread's last assignment to `_final_failed_rows` wipes the rows of `stop`.
None of this is contradicted by a property; `WindowsAreStored` is about the
counters of received, queued and dropped samples.

Not in the model, but seen while reading: a pending ping that is overwritten is
never counted as missed; the main loop goes on after it logged that all
subscriptions failed; a stop before `run()` has started is lost.

### 9.4 Proofs

`LatencyProbe_proofs` proves for any capacity, batch size, horizon, pruning
distance and number of messages and failures:

* `IInv` has two parts, each kept by every action on its own. `WriterInv` says
  which lists are empty where the thread is and where `stop` is, who may hold
  the lock there, that a join which did not give up leaves `stop` alone
  (`Alone`), and the three equations; the lemmas on `Market` are what a queue
  gains, loses and keeps when sequences are joined or cut. `WindowInv` says
  that a counter the registry has is right even after `prune` has forgotten
  others (`Exact`), that the counters of a window the summarizer has are all
  there (`Open`), that a window of the present which it does not have is empty,
  and what the window being emitted can be: all of an open one, or leftovers of
  a stored one (`Emitted`). Most steps touch only other counters; one lemma,
  `QuietKeeps`, is for all of them;
* `TypeCorrect`, `AllSamplesAccounted` (`SamplesAccounted`) and
  `ClosedWindowsAreStored` (`WindowsAreStored`).

Only model-checked: `StopCompletes`, which depends on fairness.

## 10. What is proved and what is only checked

| module | proved for every value of the constants | only model-checked |
|---|---|---|
| `TaskSystem` | `TypeOK`, `OneRunnerPerJob`, `OneChildPerJob`, `AttemptAccounting`, `SuccessIsRecorded`, `LegalTransitions`, the refinement of `JobLifecycle`, `CancelledNeverRestarts`, `ActiveHasRunner`, `OnlyErrorsStrand` | liveness |
| `OrderBook` | `TypeOK`, `TrustedBookIsMirror`, `SampleIsReal`, `GapsFollowState`, the refinement of `BookFeed` | liveness |
| `BatchWriter` | `TypeOK`, `Kept`, `NeverBackwards` | liveness |
| `TradeFeed` | `TypeOK`, `RawIsKept`, `RecoveredIsFetched` | liveness |
| `ContinuousSync` | the window arithmetic, `TypeOK`, `WatermarkIsStored`, `PutIsDurable`, `StopMeansStored`, `AdvanceIsChecked` | liveness |
| `RestClient` | `TypeOK`, `Paced`, `MergeRestored` | liveness |
| `LatencyProbe` | `TypeOK`, `SamplesAccounted`, `WindowsAreStored` | liveness |

The proofs assume what the modules state in their named ASSUMEs, which TLC
evaluates on every run, and nothing else. Liveness stays with TLC: the prover
has no rules for ENABLED, and so none for fairness. The findings are
counterexamples and need no proof.

## 11. Not modelled

* `JobHub` (`web/ws.py`): the polling broadcast of job changes. A change is
  marked as seen before it is sent, so a failed send is not repeated; the next
  change of the job is.
* The connection of the latency probe (`WSProbe`): composed with the writer it
  is beyond what TLC explores in reasonable time, and its samples are what the
  rest depends on. `ClockOffsetTracker` and the strategy are arithmetic.
* The REST endpoints of `OKXClient`, which only name a path and its parameters;
  the message fields that `market_data.py` renames; the downloader of
  instruments.
* For good, what has no protocol of its own: REST routes that only read tables,
  data-asset, health and score queries, the SQL of the quality validator, the
  arithmetic of the aggregations, schema and container bootstrap, configuration
  and formatting utilities, the frontend.
