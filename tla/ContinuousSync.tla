--------------------------- MODULE ContinuousSync ---------------------------
(***************************************************************************)
(* The candle pipeline: the backfill command and the two phases of         *)
(* sync_continuous over one database.  A launch of either program runs     *)
(* until it ends or is killed; what it leaves in the tables candles,       *)
(* download_state (the verified watermark of an instrument) and sync_state *)
(* (its newest candle) is what the next launch starts from.  Backfill and  *)
(* the catch-up phase page through missing windows and hand their rows to  *)
(* the write buffer; the second phase polls the newest candles of every    *)
(* instrument and inserts them in a writer thread of its own.              *)
(***************************************************************************)
EXTENDS CandleWindows, WriteBuffer

CONSTANTS Listing,      \* the first slot the exchange has a candle of
          ListTime,     \* {listTime} of the contracts; {} from main, which passes none
          Starts,       \* starts of the ranges that are asked for
          BulkRows,     \* BULK_SIZE * 4
          MaxPages,     \* --max-pages
          QueueSize,    \* --queue-size
          DbBatch,      \* --db-batch
          MaxAttempts,  \* --catchup-attempts
          LagBars,      \* --catchup-lag
          Since,        \* bound: the slot time starts in
          Horizon,      \* bound: the last slot time reaches
          MaxLaunches,  \* bound: program starts
          MaxFaults     \* bound: calls, transactions and waits that fail

ASSUME SyncAssumption ==
    /\ Insts # {}
    /\ Horizon \in Nat /\ Since \in 0 .. Horizon /\ Starts \subseteq 0 .. Horizon
    /\ {Listing, MaxAttempts, MaxLaunches, MaxFaults} \subseteq Nat
    /\ ListTime \subseteq 0 .. Listing    \* no candle is from before it

VARIABLES now,       \* the slot whose candle is forming
          verified,  \* download_state.verified_upto
          sync,      \* sync_state.latest_ts
          prog,      \* the program of this launch
          pc,        \* where its main thread is
          range,     \* start and end of this launch
          wins,      \* inst_windows
          todo,      \* tasks not taken by a thread
          good,      \* success_insts
          attempts,  \* passes of phase 1
          th,        \* the downloading threads
          q, batch,  \* phase 2: the queue, and what the writer took from it
          writer,    \* phase 2: where the writer thread is
          stopping,  \* the writer has taken STOP and not yet called task_done
          idle,      \* idle_event
          latest,    \* latest_map of this round
          poll,      \* instruments whose tail is still to be queued
          shutdown,  \* _shutdown
          launches, faults

marks  == <<verified, sync>>
task   == <<prog, range, wins, todo, good, attempts>>
phase2 == <<q, batch, writer, stopping, idle, latest, poll>>
vars   == <<now, buffer, marks, task, pc, th, phase2, shutdown, launches, faults>>

Slots == 0 .. Horizon

AnyInst == CHOOSE i \in Insts : TRUE

Resting == [pc |-> "idle", inst |-> AnyInst, from |-> 0, to |-> 0, after |-> 0,
            rows |-> {}, had |-> FALSE]

Stop == [inst |-> AnyInst, rows |-> {}]

Empty == [i \in Insts |-> {}]

Fault == faults < MaxFaults /\ faults' = faults + 1

\* What the exchange returns: the closed candles, and perhaps the forming one.
Closed == {s \in Slots : Listing <= s /\ s < now}
Views  == {Closed, Closed \cup {s \in Slots : Listing <= s /\ s = now}}

TypeOK ==
    /\ now \in Slots
    /\ BufferTypeOK(Slots)
    /\ verified \in [Insts -> NoSlot .. Horizon + 1]
    /\ sync \in [Insts -> Slots \cup {NoSlot}]
    /\ prog \in {"off", "backfill", "sync"}
    /\ pc \in {"off", "detect", "pool", "mark", "refresh", "lag",
               "round", "tail", "join", "wait", "stop"}
    /\ range \in [start : Slots \cup {NoSlot}, end : 0 .. Horizon + 1]
    /\ wins \in [Insts -> SUBSET [from : Slots, to : 0 .. Horizon + 1]]
    /\ todo \subseteq [inst : Insts, from : Slots, to : 0 .. Horizon + 1]
    /\ good \subseteq Insts
    /\ attempts \in 0 .. MaxAttempts
    /\ th \in [Threads -> [pc : {"idle", "page", "saving", "closing"}, inst : Insts,
                           from : Slots, to : 0 .. Horizon + 1, after : 0 .. Horizon + 1,
                           rows : SUBSET Slots, had : BOOLEAN]]
    /\ q \in Seq([inst : Insts, rows : SUBSET Slots])
    /\ batch \in [Insts -> SUBSET Slots]
    /\ writer \in {"off", "loop", "insert", "upsert", "test", "set", "dead"}
    /\ {stopping, idle, shutdown} \subseteq BOOLEAN
    /\ latest \in [Insts -> Slots \cup {NoSlot}]
    /\ poll \subseteq Insts
    /\ launches \in 0 .. MaxLaunches /\ faults \in 0 .. MaxFaults

Init ==
    /\ now = Since
    /\ candles = Empty
    /\ BufferInit
    /\ verified = [i \in Insts |-> NoSlot]
    /\ sync = [i \in Insts |-> NoSlot]
    /\ prog = "off" /\ pc = "off"
    /\ range = [start |-> NoSlot, end |-> 0]
    /\ wins = Empty /\ todo = {} /\ good = {} /\ attempts = 0
    /\ th = [t \in Threads |-> Resting]
    /\ q = <<>> /\ batch = Empty /\ writer = "off"
    /\ stopping = FALSE /\ idle = FALSE
    /\ latest = [i \in Insts |-> NoSlot] /\ poll = {}
    /\ shutdown = FALSE /\ launches = 0 /\ faults = 0

Tick ==
    /\ now < Horizon
    /\ now' = now + 1
    /\ UNCHANGED <<buffer, marks, task, pc, th, phase2, shutdown, launches, faults>>

-----------------------------------------------------------------------------
(* The life of a program.                                                  *)

\* MAX(ts) of what is stored, never below what was there (GREATEST).
Refreshed(S) ==
    [i \in Insts |-> IF i \in S /\ candles[i] # {} THEN Max(candles[i] \cup {sync[i]})
                                                   ELSE sync[i]]

\* ensure_sync_state: only instruments without a row get one.
EnsureSyncState == sync' = Refreshed({i \in Insts : sync[i] = NoSlot})

LaunchSync(start, skip) ==
    /\ pc = "off" /\ launches < MaxLaunches
    /\ launches' = launches + 1
    /\ prog' = "sync" /\ attempts' = 0
    /\ range' = [start |-> start, end |-> now + 1]
    /\ EnsureSyncState
    /\ pc' = IF skip THEN "round" ELSE "detect"
    /\ writer' = IF skip THEN "loop" ELSE "off"
    /\ UNCHANGED <<now, buffer, verified, wins, todo, good, th, q, batch, stopping, idle,
                   latest, poll, shutdown, faults>>

LaunchBackfill(start, end) ==
    /\ pc = "off" /\ launches < MaxLaunches
    /\ start < end
    /\ launches' = launches + 1
    /\ prog' = "backfill" /\ pc' = "detect"
    /\ range' = [start |-> start, end |-> end]
    /\ UNCHANGED <<now, buffer, marks, wins, todo, good, attempts, th, phase2, shutdown, faults>>

\* SIGINT or SIGTERM: sync_continuous only sets a flag.
Signal ==
    /\ prog = "sync" /\ ~shutdown
    /\ shutdown' = TRUE
    /\ UNCHANGED <<now, buffer, marks, task, pc, th, phase2, launches, faults>>

\* Nothing of a process survives it but the tables.
Gone ==
    /\ prog' = "off" /\ pc' = "off"
    /\ range' = [start |-> NoSlot, end |-> 0]
    /\ wins' = Empty /\ todo' = {} /\ good' = {} /\ attempts' = 0
    /\ th' = [t \in Threads |-> Resting]
    /\ wq' = <<>> /\ answer' = [t \in Threads |-> "none"]
    /\ q' = <<>> /\ batch' = Empty /\ writer' = "off"
    /\ stopping' = FALSE /\ idle' = FALSE
    /\ latest' = [i \in Insts |-> NoSlot] /\ poll' = {}
    /\ shutdown' = FALSE
    /\ UNCHANGED <<now, launches>>

Kill == pc # "off" /\ Gone /\ UNCHANGED <<candles, marks, faults>>

-----------------------------------------------------------------------------
(* Missing windows.                                                        *)

Missing(i) == FindMissingWindows(candles[i], range.start, range.end, verified[i], ListTime)

\* catch_up_pass, first part: the windows of every instrument, day by day as
\* tasks.  An instrument with none counts as a success.
DetectSync(bad) ==
    LET found == [i \in Insts |-> IF i \in bad THEN {} ELSE Missing(i)]
    IN  /\ prog = "sync" /\ pc = "detect"
        /\ ~shutdown /\ attempts < MaxAttempts
        /\ IF bad = {} THEN UNCHANGED faults ELSE Fault
        /\ wins' = found
        /\ good' = {i \in Insts \ bad : found[i] = {}}
        /\ todo' = UNION {{[inst |-> i, from |-> w.from, to |-> w.to] :
                               w \in SplitDays(found[i])} : i \in Insts}
        /\ attempts' = attempts + 1
        /\ pc' = "pool"
        /\ UNCHANGED <<now, buffer, marks, prog, range, th, phase2, shutdown, launches>>

\* main goes on with phase 2, unless there has been a signal.
Phase2 ==
    IF shutdown
    THEN Gone /\ UNCHANGED <<candles, marks>>
    ELSE /\ pc' = "round" /\ writer' = "loop"
         /\ UNCHANGED <<now, buffer, marks, task, th, q, batch, stopping, idle, latest, poll,
                        shutdown, launches>>

\* run_phase1 ends without another pass.
EndPhase1 ==
    /\ prog = "sync" /\ pc = "detect"
    /\ shutdown \/ attempts = MaxAttempts
    /\ Phase2
    /\ UNCHANGED faults

\* download_range of one instrument: whole windows.  With none the watermark
\* moves to the end of the range.
DetectBackfill(i) ==
    LET found == Missing(i)
    IN  /\ prog = "backfill" /\ pc = "detect"
        /\ wins' = [wins EXCEPT ![i] = found]
        /\ good' = {i}
        /\ todo' = {[inst |-> i, from |-> w.from, to |-> w.to] : w \in found}
        /\ pc' = IF found = {} THEN "mark" ELSE "pool"
        /\ UNCHANGED <<now, buffer, marks, prog, range, attempts, th, phase2, shutdown,
                       launches, faults>>

\* A thread takes a task: the pool the oldest of an instrument, the only thread
\* of a backfill the newest window.
Take(t, w) ==
    /\ pc = "pool" /\ th[t].pc = "idle" /\ w \in todo
    /\ IF prog = "backfill"
       THEN /\ \A u \in Threads : th[u].pc = "idle"
            /\ \A v \in todo : v.from <= w.from
       ELSE \A v \in todo : v.inst = w.inst => v.from >= w.from
    /\ todo' = todo \ {w}
    /\ th' = [th EXCEPT ![t] = [pc |-> "page", inst |-> w.inst, from |-> w.from, to |-> w.to,
                                after |-> w.to, rows |-> {}, had |-> FALSE]]
    /\ UNCHANGED <<now, buffer, marks, prog, pc, range, wins, good, attempts, phase2, shutdown,
                   launches, faults>>

-----------------------------------------------------------------------------
(* _fetch_backtrack: pages from the end of a window to its start.          *)

\* The window is done.  A backfill stops at a window without data, unless it
\* is the last one of the range.
Finish(t) ==
    /\ th' = [th EXCEPT ![t] = Resting]
    /\ good' = good \cup {th[t].inst}
    /\ todo' = IF prog = "backfill" /\ ~th[t].had /\ th[t].to < range.end THEN {} ELSE todo

\* The exception of a task is an error line of the pass, and the end of a backfill.
TaskFails(t) ==
    IF prog = "sync"
    THEN /\ th' = [th EXCEPT ![t] = Resting]
         /\ answer' = [answer EXCEPT ![t] = "none"]
         /\ UNCHANGED <<now, candles, wq, marks, task, pc, phase2, shutdown, launches>>
    ELSE Gone /\ UNCHANGED <<candles, marks>>

\* An empty page ends the window: what was collected is saved.
LastPage(t, available) ==
    /\ th[t].pc = "page"
    /\ Page(available, th[t].after) = {}
    /\ IF th[t].rows = {}
       THEN Finish(t) /\ NoPut
       ELSE /\ Put(t, th[t].inst, th[t].rows)
            /\ th' = [th EXCEPT ![t].pc = "closing"]
            /\ UNCHANGED <<good, todo>>
    /\ UNCHANGED <<now, candles, marks, prog, pc, range, wins, attempts, phase2, shutdown,
                   launches, faults>>

\* A page: its candles inside the window are collected, and saved when there
\* are enough of them or the start of the window is reached.
FetchPage(t, available) ==
    LET page   == Page(available, th[t].after)
        rows   == th[t].rows \cup {s \in page : th[t].from <= s /\ s <= th[t].to}
        oldest == Min(page)
        last   == oldest <= th[t].from
        full   == Cardinality(rows) >= BulkRows
        next   == [th[t] EXCEPT !.had = TRUE, !.rows = rows, !.after = oldest,
                                !.pc = IF full THEN "saving"
                                       ELSE IF last THEN "closing" ELSE "page"]
    IN  /\ th[t].pc = "page"
        /\ page # {}
        /\ IF next.pc = "closing" /\ rows = {}
           THEN Finish(t) /\ NoPut
           ELSE /\ th' = [th EXCEPT ![t] = next]
                /\ IF next.pc = "page" THEN NoPut ELSE Put(t, next.inst, rows)
                /\ UNCHANGED <<good, todo>>
        /\ UNCHANGED <<now, candles, marks, prog, pc, range, wins, attempts, phase2, shutdown,
                       launches, faults>>

\* The call of the REST client fails: what was collected is lost.
FetchFails(t) == th[t].pc = "page" /\ Fault /\ TaskFails(t)

\* put returns: the thread goes on with the next older page or is done.
Saved(t) ==
    /\ answer[t] = "ok"
    /\ answer' = [answer EXCEPT ![t] = "none"]
    /\ IF th[t].pc = "closing" \/ th[t].after <= th[t].from
       THEN Finish(t)
       ELSE /\ th' = [th EXCEPT ![t].pc = "page", ![t].rows = {}]
            /\ UNCHANGED <<good, todo>>
    /\ UNCHANGED <<now, candles, wq, marks, prog, pc, range, wins, attempts, phase2, shutdown,
                   launches, faults>>

\* put raises.
SaveFails(t) == answer[t] \in {"exc", "timeout"} /\ TaskFails(t) /\ UNCHANGED faults

BufferStep ==
    /\ \/ \E n \in 1 .. Len(wq) : Flush(n) /\ UNCHANGED faults
       \/ \E n \in 1 .. Len(wq) : FlushFails(n) /\ Fault
       \/ \E t \in Threads : PutTimesOut(t) /\ Fault
    /\ UNCHANGED <<now, marks, task, pc, th, phase2, shutdown, launches>>

PoolDone ==
    /\ pc = "pool" /\ todo = {}
    /\ \A t \in Threads : th[t].pc = "idle"
    /\ pc' = "mark"
    /\ UNCHANGED <<now, buffer, marks, task, th, phase2, shutdown, launches, faults>>

-----------------------------------------------------------------------------
(* The watermarks after a pass.                                            *)

\* mark_verified for every instrument of which some task succeeded; one whose
\* statement fails keeps its watermark.  download_range does the same.
Verify(lost) ==
    verified' = [i \in Insts |->
                   IF i \in good \ lost /\ (prog = "backfill" \/ wins[i] # {})
                   THEN VerifiedUpto(wins[i], range.end) ELSE verified[i]]

Mark(lost) ==
    /\ pc = "mark"
    /\ IF lost = {} THEN UNCHANGED faults ELSE Fault
    /\ Verify(lost)
    /\ IF prog = "sync"
       THEN /\ pc' = "refresh"
            /\ UNCHANGED <<now, wq, answer, task, th, phase2, shutdown, launches>>
       ELSE Gone
    /\ UNCHANGED <<candles, sync>>

\* batch_refresh_watermark; an exception of it ends the program.
Refresh ==
    /\ pc = "refresh"
    /\ sync' = Refreshed(good)
    /\ pc' = "lag"
    /\ UNCHANGED <<now, buffer, verified, task, th, phase2, shutdown, launches, faults>>

RefreshFails == pc = "refresh" /\ Fault /\ Gone /\ UNCHANGED <<candles, marks>>

\* Instruments without a watermark do not count.
Lagging == \E i \in Insts : sync[i] # NoSlot /\ now - sync[i] > LagBars

CheckLag ==
    /\ pc = "lag"
    /\ IF Lagging
       THEN /\ pc' = "detect"
            /\ UNCHANGED <<now, buffer, marks, task, th, phase2, shutdown, launches>>
       ELSE Phase2
    /\ UNCHANGED faults

-----------------------------------------------------------------------------
(* Phase 2: the main thread.                                               *)

StartRound ==
    /\ pc = "round" /\ ~shutdown
    /\ latest' = sync
    /\ poll' = Insts
    /\ pc' = "tail"
    /\ UNCHANGED <<now, buffer, marks, task, th, q, batch, writer, stopping, idle, shutdown,
                   launches, faults>>

\* fetch_tail: of the newest pages, what is confirmed and newer than the watermark.
NewRows(i, available) ==
    {s \in Newest(available, MaxPages * PageSize) : s < now /\ s > latest[i]}

\* sync_round: a tail is fetched and queued; put blocks while the queue is full.
QueueTail(i, available) ==
    LET rows == NewRows(i, available)
    IN  /\ pc = "tail" /\ i \in poll
        /\ poll' = poll \ {i}
        /\ \/ rows = {} /\ UNCHANGED q
           \/ /\ rows # {} /\ Len(q) < QueueSize
              /\ q' = Append(q, [inst |-> i, rows |-> rows])
        /\ UNCHANGED <<now, buffer, marks, task, pc, th, batch, writer, stopping, idle, latest,
                       shutdown, launches, faults>>

TailFails(i) ==
    /\ pc = "tail" /\ i \in poll
    /\ Fault
    /\ poll' = poll \ {i}
    /\ UNCHANGED <<now, buffer, marks, task, pc, th, q, batch, writer, stopping, idle, latest,
                   shutdown, launches>>

\* All tails are in, or a signal ends the loop over them; idle_event is cleared.
RoundFetched ==
    /\ pc = "tail" /\ (poll = {} \/ shutdown)
    /\ poll' = {}
    /\ idle' = FALSE
    /\ pc' = "join"
    /\ UNCHANGED <<now, buffer, marks, task, th, q, batch, writer, stopping, latest, shutdown,
                   launches, faults>>

\* queue.join: every item has had its task_done.
Joined == q = <<>> /\ ~stopping

Join ==
    /\ pc = "join" /\ Joined
    /\ pc' = "wait"
    /\ UNCHANGED <<now, buffer, marks, task, th, phase2, shutdown, launches, faults>>

\* idle_event.wait returns after 5 s at the latest, whatever the writer has done.
EndRound ==
    /\ pc = "wait"
    /\ pc' = "round"
    /\ latest' = [i \in Insts |-> NoSlot]
    /\ UNCHANGED <<now, buffer, marks, task, th, q, batch, writer, stopping, idle, poll, shutdown,
                   launches, faults>>

\* A signal, or the hours have passed.
EndPhase2 ==
    /\ pc = "round"
    /\ Len(q) < QueueSize
    /\ q' = Append(q, Stop)
    /\ pc' = "stop"
    /\ UNCHANGED <<now, buffer, marks, task, th, batch, writer, stopping, idle, latest, poll,
                   shutdown, launches, faults>>

Exit ==
    /\ pc = "stop" /\ Joined
    /\ Gone
    /\ UNCHANGED <<candles, marks, faults>>

-----------------------------------------------------------------------------
(* Phase 2: writer_loop.                                                   *)

BatchRows == FoldSet(LAMBDA i, n : n + Cardinality(batch[i]), 0, Insts)

\* Mutant: STOP ends the thread without a last flush.
WriterDropsRest ==
    /\ writer = "loop" /\ q # <<>> /\ ~stopping
    /\ q' = Tail(q)
    /\ LET it == Head(q)
       IN  /\ batch' = [batch EXCEPT ![it.inst] = @ \cup it.rows]
           /\ stopping' = (it = Stop)
           /\ writer' \in IF it = Stop THEN {"off"} ELSE {"insert", "loop"}
    /\ UNCHANGED <<now, buffer, marks, task, pc, th, idle, latest, poll, shutdown, launches, faults>>

\* An item is taken and, if it is not STOP, counted as done; a flush follows when
\* the batch is large enough or two seconds have passed since the last one.
WriterTakes ==
    /\ writer = "loop" /\ q # <<>> /\ ~stopping
    /\ q' = Tail(q)
    /\ LET it == Head(q)
       IN  /\ batch' = [batch EXCEPT ![it.inst] = @ \cup it.rows]
           /\ stopping' = (it = Stop)
           /\ writer' \in IF it = Stop THEN {IF batch = Empty THEN "off" ELSE "insert"}
                          ELSE {"insert"} \cup
                               (IF BatchRows + Cardinality(it.rows) >= DbBatch THEN {} ELSE {"loop"})
    /\ UNCHANGED <<now, buffer, marks, task, pc, th, idle, latest, poll, shutdown, launches, faults>>

\* get times out: what is in the batch is flushed.
WriterIdles ==
    /\ writer = "loop" /\ q = <<>>
    /\ writer' = IF batch = Empty THEN "test" ELSE "insert"
    /\ UNCHANGED <<now, buffer, marks, task, pc, th, q, batch, stopping, idle, latest, poll,
                   shutdown, launches, faults>>

\* With an empty batch the queue is asked, and idle_event is set afterwards: the
\* main thread may put, clear and join between the two.
WriterTests ==
    /\ writer = "test"
    /\ writer' = IF q = <<>> THEN "set" ELSE "loop"
    /\ UNCHANGED <<now, buffer, marks, task, pc, th, q, batch, stopping, idle, latest, poll,
                   shutdown, launches, faults>>

WriterReports ==
    /\ writer = "set"
    /\ writer' = "loop"
    /\ idle' = TRUE
    /\ UNCHANGED <<now, buffer, marks, task, pc, th, q, batch, stopping, latest, poll, shutdown,
                   launches, faults>>

\* Mutant: a failed insert is taken for done.
WriterInsertLost ==
    /\ writer = "insert"
    /\ writer' = "upsert"
    /\ UNCHANGED <<now, buffer, marks, task, pc, th, q, batch, stopping, idle, latest, poll,
                   shutdown, launches, faults>>

WriterInserts ==
    /\ writer = "insert"
    /\ candles' = [i \in Insts |-> candles[i] \cup batch[i]]
    /\ writer' = "upsert"
    /\ UNCHANGED <<now, wq, answer, marks, task, pc, th, q, batch, stopping, idle, latest, poll,
                   shutdown, launches, faults>>

\* upsert_sync_state with the newest row of every instrument of the batch.
WriterUpserts ==
    /\ writer = "upsert"
    /\ sync' = [i \in Insts |-> Max(batch[i] \cup {sync[i]})]
    /\ batch' = Empty
    /\ writer' = IF stopping THEN "off" ELSE "test"
    /\ UNCHANGED <<now, buffer, verified, task, pc, th, q, stopping, idle, latest, poll, shutdown,
                   launches, faults>>

\* After STOP: idle_event and task_done.
WriterEnds ==
    /\ writer = "off" /\ stopping
    /\ stopping' = FALSE
    /\ idle' = TRUE
    /\ UNCHANGED <<now, buffer, marks, task, pc, th, q, batch, writer, latest, poll, shutdown,
                   launches, faults>>

\* Nothing catches the exception of a transaction: the thread is gone.
WriterDies ==
    /\ writer \in {"insert", "upsert"}
    /\ Fault
    /\ writer' = "dead"
    /\ UNCHANGED <<now, buffer, marks, task, pc, th, q, batch, stopping, idle, latest, poll,
                   shutdown, launches>>

-----------------------------------------------------------------------------
Writer ==
    \/ WriterTakes \/ WriterIdles \/ WriterInserts \/ WriterUpserts
    \/ WriterTests \/ WriterReports \/ WriterEnds

Download(t) ==
    \/ \E w \in todo : Take(t, w)
    \/ \E available \in Views : LastPage(t, available) \/ FetchPage(t, available)
    \/ FetchFails(t) \/ Saved(t) \/ SaveFails(t)

Main ==
    \/ \E bad \in SUBSET Insts : DetectSync(bad)
    \/ \E i \in Insts : DetectBackfill(i)
    \/ EndPhase1 \/ PoolDone
    \/ \E lost \in SUBSET Insts : Mark(lost)
    \/ Refresh \/ RefreshFails \/ CheckLag
    \/ StartRound
    \/ \E i \in Insts : TailFails(i) \/ \E available \in Views : QueueTail(i, available)
    \/ RoundFetched \/ Join \/ EndRound \/ EndPhase2 \/ Exit

Next ==
    \/ Tick \/ Signal \/ Kill
    \/ \E start \in Starts, skip \in BOOLEAN : LaunchSync(start, skip)
    \/ \E start \in Starts, end \in 1 .. now + 1 : LaunchBackfill(start, end)
    \/ Main \/ Writer \/ WriterDies \/ BufferStep
    \/ \E t \in Threads : Download(t)

Spec == Init /\ [][Next]_vars

\* The threads of a live process go on; nobody is obliged to start or to stop one.
FairSpec == /\ Spec
            /\ WF_vars(Main)
            /\ WF_vars(Writer)
            /\ WF_vars(BufferStep)
            /\ \A t \in Threads : WF_vars(Download(t))

-----------------------------------------------------------------------------
\* sync_state never names a candle that is not in the table, whatever fails
\* between the insert of a batch and the update of its watermark.
WatermarkIsStored == \A i \in Insts : sync[i] # NoSlot => sync[i] \in candles[i]

\* A put that returns normally has stored the rows of its caller, whoever else
\* was merged into the transaction and whatever failed or timed out before.
PutIsDurable == \A t \in Threads : answer[t] = "ok" => th[t].rows \subseteq candles[th[t].inst]

\* A row that phase 2 has fetched is in the queue or the batch until it is in the
\* table.  task_done comes before the flush, so a join of the queue means nothing
\* for the batch; the join after STOP does, as that item is only counted after the
\* last flush: run_phase2 returns when every row is stored ("flush what remains",
\* sync_continuous.py:576), and does not if the writer thread has died.  Only a
\* kill loses rows.
Waiting(i) == batch[i] \cup UNION {item.rows : item \in {it \in Range(q) : it.inst = i}}
StopMeansStored ==
    [][\A i \in Insts :
         \/ Waiting(i) \subseteq candles'[i] \cup Waiting(i)'
         \/ pc' = "off" /\ ~(pc = "stop" /\ Joined)]_vars

\* The verified watermark moves over no hole of the range that was checked,
\* except the head of the first checked day, where the oldest stored candle is
\* taken for the first there is.
AdvanceIsChecked ==
    [][\A i \in Insts :
         LET from == CheckFrom(range.start, verified[i])
         IN  verified'[i] > verified[i] =>
               \A s \in from .. verified'[i] - 1 :
                  \/ s \in candles[i]
                  \/ DayOf(s) = DayOf(from) /\ (from .. s) \cap candles[i] = {}]_vars

\* Every pool of downloads ends, and every round and the stop of phase 2 end
\* unless an exception has ended the writer thread: then queue.join has nobody
\* to wait for.
StagesEnd ==
    /\ pc = "pool" ~> pc # "pool"
    /\ pc \in {"tail", "join", "stop"} ~> (pc \in {"wait", "off"} \/ writer = "dead")
=============================================================================
