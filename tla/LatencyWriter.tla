--------------------------- MODULE LatencyWriter ----------------------------
(***************************************************************************)
(* Where the samples of the latency probe go: the queue and the thread of  *)
(* LatencySampleWriter, the counters of StatsRegistry, the windows of      *)
(* WindowSummarizer, and the tables all of them are stored in.  A market   *)
(* sample is the number of the summary window it was received in; the      *)
(* samples no counter counts (pings, REST round trips, strategy times) are *)
(* all Other.  Time is the number of the current window.                   *)
(***************************************************************************)
EXTENDS Integers, Sequences, FiniteSetsExt, SequencesExt

CONSTANTS Other,       \* a sample that is not a market sample
          Cap,         \* MAX_BUFFER_SIZE
          BatchSize,   \* BATCH_SIZE
          Keep,        \* WRITTEN_PRUNE_HORIZON in windows
          Horizon,     \* bound: the last window
          MaxFaults    \* bound: transactions that fail

ASSUME LatencyAssumption == /\ {Cap, BatchSize} \subseteq Nat \ {0}
                            /\ {Keep, Horizon, MaxFaults} \subseteq Nat
                            /\ Other \notin Nat

VARIABLES now,         \* the current window
          buffer,      \* _buffer
          pending,     \* _pending
          batch,       \* the local list batch of _run
          stopped,     \* _stopped
          thread,      \* where the writer thread is
          flight,      \* the batch the thread is flushing
          rest,        \* the batch stop is flushing
          lock,        \* holder of _state_lock
          failed,      \* the local final_failed of _run
          finalFailed, \* _final_failed_rows
          committed,   \* _committed_written
          counters,    \* StatsRegistry: the counters of the known windows
          totals,      \* StatsRegistry: _totals
          series,      \* WindowSummarizer: samples of the open windows
          closed,      \* WindowSummarizer: _closed_windows
          event,       \* what tick or flush_all is doing
          todo,        \* windows it has still to emit
          emitting,    \* the window being emitted, its samples and its counters
          stop,        \* where LatencySampleWriter.stop is
          gaveUp,      \* its join timed out
          accepted,    \* history: samples that were queued, per window of their receipt
          refused,     \* history: samples that were dropped, per window of their receipt
          rows,        \* latency_samples: its market rows
          statRows,    \* latency_probe_stats
          sumRows,     \* latency_summaries: n per window
          skipped,     \* windows whose upsert failed
          faults

threads  == <<buffer, pending, batch, stopped, thread, flight, failed>>
registry == <<counters, totals>>
windows  == <<series, closed, event, todo, emitting>>
stopping == <<rest, finalFailed, stop, gaveUp>>
history  == <<accepted, refused>>
tables   == <<rows, statRows, sumRows, skipped, faults>>

Windows == 0 .. Horizon
Metrics == {"parsed", "queued", "dropped", "written", "errors", "final"}
Samples == Windows \cup {Other}

\* A counter that was never incremented is 0.
At(bucket, metric) == IF metric \in DOMAIN bucket THEN bucket[metric] ELSE 0
Bucket(w) == IF w \in DOMAIN counters THEN counters[w] ELSE [m \in {} |-> 0]
Stored(w, metric) == At(statRows, <<w, metric>>)

\* f with value v at argument x.
With(f, x, v) == [y \in DOMAIN f \cup {x} |-> IF y = x THEN v ELSE f[y]]

Count(s, w) == Cardinality({k \in DOMAIN s : s[k] = w})
Market(s) == Cardinality({k \in DOMAIN s : s[k] # Other})

Free == [kind |-> "free", upto |-> 0]

WriterInit ==
    /\ now = 0
    /\ buffer = <<>> /\ pending = <<>> /\ batch = <<>> /\ flight = <<>> /\ rest = <<>>
    /\ stopped = FALSE
    /\ thread = "loop"
    /\ lock = "free"
    /\ failed = <<>> /\ finalFailed = <<>>
    /\ committed = [w \in {} |-> 0]
    /\ counters = [w \in {} |-> [m \in {} |-> 0]]
    /\ totals = [m \in Metrics |-> 0]
    /\ series = [w \in {} |-> 0]
    /\ closed = {} /\ event = Free /\ todo = {} /\ emitting = <<>>
    /\ stop = "no" /\ gaveUp = FALSE
    /\ accepted = [w \in Windows |-> 0] /\ refused = [w \in Windows |-> 0]
    /\ rows = 0
    /\ statRows = [x \in {} |-> 0] /\ sumRows = [w \in {} |-> 0]
    /\ skipped = {} /\ faults = 0

Clock == /\ now < Horizon
         /\ now' = now + 1
         /\ UNCHANGED <<threads, stopping, lock, committed, registry, windows, tables, history>>

-----------------------------------------------------------------------------
(* StatsRegistry.                                                          *)

\* The metrics of updates, a function, are added to the counters of window w.
Increased(reg, w, updates) ==
    LET bucket == IF w \in DOMAIN reg THEN reg[w] ELSE [m \in {} |-> 0]
    IN  With(reg, w, [m \in DOMAIN bucket \cup DOMAIN updates |->
                        At(bucket, m) + At(updates, m)])

\* add {written: +-n} to the n market samples' window, for each window of s.
CountWritten(reg, s, sign) ==
    LET own    == ToSet(s) \ {Other}
        old(w) == IF w \in DOMAIN reg THEN reg[w] ELSE [m \in {} |-> 0]
    IN  [w \in DOMAIN reg \cup own |->
           IF w \notin own THEN reg[w]
           ELSE With(old(w), "written", At(old(w), "written") + sign * Count(s, w))]

Total(metric, n) == totals' = [totals EXCEPT ![metric] = @ + n]

\* The part of f that prune leaves: windows from before on.
Pruned(f, before) == [w \in {v \in DOMAIN f : v >= before} |-> f[w]]

-----------------------------------------------------------------------------
(* Producers: put, with the counters of _emit_sample.                      *)

\* Mutant: a queue without maxsize.
NoBound == TRUE

Room == Len(buffer) < Cap

\* The summarizer takes the sample whether or not the queue did.
Summed(x) == series' = IF x = Other THEN series
                       ELSE With(series, x, (IF x \in DOMAIN series THEN series[x] ELSE 0) + 1)

PutOther == /\ IF Room THEN buffer' = Append(buffer, Other) ELSE UNCHANGED buffer
            /\ UNCHANGED <<now, pending, batch, stopped, thread, flight, failed, stopping, lock,
                           committed, registry, windows, tables, history>>

\* PUT_TIMEOUT passes before a full queue has room: the sample is dropped.
PutMarket ==
    LET answer == IF Room THEN "queued" ELSE "dropped"
    IN  /\ IF Room THEN buffer' = Append(buffer, now) ELSE UNCHANGED buffer
        /\ Summed(now)
        /\ counters' = Increased(counters, now, [m \in {"parsed", answer} |-> 1])
        /\ totals' = [m \in Metrics |-> totals[m] + (IF m \in {"parsed", answer} THEN 1 ELSE 0)]
        /\ IF Room THEN accepted' = [accepted EXCEPT ![now] = @ + 1] /\ UNCHANGED refused
                   ELSE refused' = [refused EXCEPT ![now] = @ + 1] /\ UNCHANGED accepted
        /\ UNCHANGED <<now, pending, batch, stopped, thread, flight, failed, stopping, lock,
                       committed, closed, event, todo, emitting, tables>>

-----------------------------------------------------------------------------
(* _flush: the lock is held from the first counter to the end of the       *)
(* transaction, so that a flush of stop and one of the thread exclude each *)
(* other.  It is two steps: what tick and the producers see in between is  *)
(* a registry that already counts the batch.                               *)

BeginFlush(who, s) ==
    /\ lock = "free"
    /\ lock' = who
    /\ counters' = CountWritten(counters, s, 1)
    /\ Total("written", Market(s))

Cumulative(s, w) == (IF w \in DOMAIN committed THEN committed[w] ELSE 0) + Count(s, w)

\* The rows and the written counters of their windows, in one transaction.
Commit(who, s) ==
    LET own == ToSet(s) \ {Other}
        sum == [w \in DOMAIN committed \cup own |->
                  IF w \in own THEN Cumulative(s, w) ELSE committed[w]]
    IN  /\ lock = who
        /\ lock' = "free"
        /\ rows' = rows + Market(s)
        /\ statRows' = [x \in DOMAIN statRows \cup (own \X {"written"}) |->
                          IF x \in own \X {"written"} THEN Cumulative(s, x[1]) ELSE statRows[x]]
        /\ committed' = Pruned(sum, now - Keep)
        /\ UNCHANGED <<registry, sumRows, skipped, faults>>

\* Mutant: the exception leaves the lock behind.
Kept == UNCHANGED lock

Released == lock' = "free"

\* The transaction fails: the counters are taken back, and the error is counted
\* in the window it happened in, with an upsert whose own failure is ignored.
Rollback(who, s) ==
    /\ lock = who
    /\ Released
    /\ faults < MaxFaults /\ faults' = faults + 1
    /\ counters' = Increased(CountWritten(counters, s, -1), now, [m \in {"errors"} |-> 1])
    /\ totals' = [totals EXCEPT !["written"] = @ - Market(s), !["errors"] = @ + 1]
    /\ \/ statRows' = With(statRows, <<now, "errors">>, At(counters'[now], "errors"))
       \/ UNCHANGED statRows
    /\ UNCHANGED <<committed, rows, sumRows, skipped>>

-----------------------------------------------------------------------------
(* The thread.                                                             *)

Resume(to) == thread' = to

TakePending == /\ thread = "loop" /\ ~stopped
               /\ lock = "free"
               /\ pending # <<>>
               /\ flight' = pending
               /\ pending' = <<>>
               /\ Resume("retry")
               /\ UNCHANGED <<now, buffer, batch, stopped, failed, lock, committed, registry,
                              stopping, windows, tables, history>>

\* An item, or none within 0.1 s; then the batch is full, or its second is over.
Get == /\ thread = "loop" /\ ~stopped
       /\ lock = "free"
       /\ pending = <<>>
       /\ LET n   == IF buffer = <<>> THEN 0 ELSE 1
              got == batch \o SubSeq(buffer, 1, n)
          IN  /\ buffer' = SubSeq(buffer, n + 1, Len(buffer))
              /\ \/ /\ got # <<>>
                    /\ flight' = got
                    /\ batch' = <<>>
                    /\ Resume("flush")
                 \/ /\ Len(got) < BatchSize
                    /\ buffer # <<>>
                    /\ batch' = got
                    /\ UNCHANGED <<flight, thread>>
       /\ UNCHANGED <<now, pending, stopped, failed, lock, committed, registry,
                              stopping, windows, tables, history>>

\* Mutant: the last flush takes the batch, and not what waits for a retry.
OnlyBatch == batch

Remaining == pending \o batch

LastFlush == /\ thread = "loop" /\ stopped
             /\ lock = "free"
             /\ flight' = Remaining
             /\ pending' = <<>> /\ batch' = <<>>
             /\ Resume(IF Remaining = <<>> THEN "end" ELSE "last")
             /\ UNCHANGED <<now, buffer, stopped, failed, lock, committed, registry,
                              stopping, windows, tables, history>>

Flushing == thread \in {"retry", "flush", "last"}

ThreadBegins == /\ Flushing /\ BeginFlush("thread", flight)
                /\ UNCHANGED <<now, threads, committed, stopping, windows, tables, history>>

ThreadCommits == /\ Flushing /\ Commit("thread", flight)
                 /\ flight' = <<>>
                 /\ Resume(IF thread = "last" THEN "end" ELSE "loop")
                 /\ UNCHANGED <<now, buffer, pending, batch, stopped, failed, stopping, windows, history>>

\* The lock is free again before the exception reaches _run.
ThreadFails == /\ Flushing /\ Rollback("thread", flight)
               /\ Resume(IF thread = "last" THEN "end" ELSE "requeue")
               /\ IF thread = "last" THEN failed' = flight /\ flight' = <<>>
                                     ELSE UNCHANGED <<failed, flight>>
               /\ UNCHANGED <<now, buffer, pending, batch, stopped, stopping, windows, history>>

\* The batch goes back for a retry; a wait for the backoff ends with stop.
Requeue == /\ thread = "requeue"
           /\ lock = "free"
           /\ pending' = flight \o pending
           /\ flight' = <<>>
           /\ Resume("loop")
           /\ UNCHANGED <<now, buffer, batch, stopped, failed, lock, committed, registry,
                              stopping, windows, tables, history>>

ThreadEnds == /\ thread = "end"
              /\ lock = "free"
              /\ finalFailed' = failed
              /\ failed' = <<>>
              /\ Resume("done")
              /\ UNCHANGED <<now, buffer, pending, batch, stopped, flight, rest, stop, gaveUp, lock, committed,
                             registry, windows, tables, history>>

Thread == \/ TakePending \/ Get \/ LastFlush \/ ThreadBegins \/ ThreadCommits \/ ThreadFails
          \/ Requeue \/ ThreadEnds

-----------------------------------------------------------------------------
(* WindowSummarizer: tick closes the windows up to two behind the present  *)
(* one, flush_all every window.  Both run in the event loop, the thread    *)
(* goes on meanwhile.                                                      *)

\* Mutant: a window is closed while it is the present one.
NoDelay == now

Threshold == now - 2

Known == DOMAIN series \cup DOMAIN counters \cup closed

Close(kind, upto) == /\ event = Free
                     /\ event' = [kind |-> kind, upto |-> upto]
                     /\ todo' = {w \in DOMAIN series : w <= upto}
                     /\ UNCHANGED <<now, threads, lock, committed, registry, series, closed, emitting,
                                    stopping, tables, history>>

\* A tick that finds nothing to close changes nothing.
Tick == (\E w \in Known : w <= Threshold) /\ Close("tick", Threshold)

\* _emit_window: the counters are read here and stored in the next step.
Snapshot == /\ todo # {}
            /\ emitting = <<>>
            /\ LET w == Min(todo)
               IN  /\ emitting' = <<[w |-> w, n |-> IF w \in DOMAIN series THEN series[w] ELSE 0,
                                     stats |-> Bucket(w)]>>
                   /\ series' = [v \in DOMAIN series \ {w} |-> series[v]]
                   /\ closed' = closed \cup {w}
                   /\ todo' = todo \ {w}
            /\ UNCHANGED <<now, threads, lock, committed, registry, event, stopping, tables, history>>

\* upsert_summaries and upsert_stats: a transaction each, and _on_close only
\* logs the exception of either.
Emit == /\ emitting # <<>>
        /\ emitting' = <<>>
        /\ LET e    == emitting[1]
               sums == IF e.n = 0 THEN sumRows ELSE With(sumRows, e.w, e.n)
               own  == {e.w} \X DOMAIN e.stats
           IN  \/ /\ sumRows' = sums
                  /\ statRows' = [x \in DOMAIN statRows \cup own |->
                                    IF x \in own THEN e.stats[x[2]] ELSE statRows[x]]
                  /\ UNCHANGED <<skipped, faults>>
               \/ /\ faults < MaxFaults /\ faults' = faults + 1
                  /\ sumRows' \in {sumRows, sums}
                  /\ skipped' = skipped \cup {e.w}
                  /\ UNCHANGED statRows
        /\ UNCHANGED <<now, threads, lock, committed, registry, series, closed, event, todo,
                       stopping, rows, history>>

\* Windows that only have counters.
CountersOnly == /\ event.kind \in {"tick", "all"}
                /\ todo = {} /\ emitting = <<>>
                /\ event' = [event EXCEPT !.kind = IF @ = "tick" THEN "prune" ELSE "end"]
                /\ todo' = {w \in DOMAIN counters \ closed : w <= event.upto}
                /\ UNCHANGED <<now, threads, lock, committed, registry, series, closed, emitting,
                               stopping, tables, history>>

\* The tick that closes a window comes after the instant the window is due, so
\* that prune takes the window as well.
Prune == /\ event.kind \in {"prune", "end"}
         /\ todo = {} /\ emitting = <<>>
         /\ event' = Free
         /\ IF event.kind = "prune"
            THEN /\ counters' = Pruned(counters, event.upto + 1)
                 /\ closed' = {w \in closed : w > event.upto}
            ELSE UNCHANGED <<counters, closed>>
         /\ UNCHANGED <<now, threads, lock, committed, totals, series, todo, emitting, stopping,
                        tables, history>>

Closing == Snapshot \/ Emit \/ CountersOnly \/ Prune

-----------------------------------------------------------------------------
(* stop, called by the event loop's thread once the loop has nothing else  *)
(* to do.                                                                  *)

SetStopped == /\ stop = "no"
              /\ stopped' = TRUE
              /\ stop' = "join"
              /\ UNCHANGED <<now, buffer, pending, batch, thread, flight, failed, lock, committed,
                             registry, windows, rest, finalFailed, gaveUp, tables, history>>

\* The thread has ended, or join gives up.
Join == /\ stop = "join"
        /\ stop' = "drain"
        /\ gaveUp' = (thread # "done")
        /\ UNCHANGED <<now, threads, lock, committed, registry, windows, rest, finalFailed, tables,
                       history>>

Leftover == pending \o buffer

Drain == /\ stop = "drain"
         /\ lock = "free"
         /\ rest' = Leftover
         /\ pending' = <<>> /\ buffer' = <<>>
         /\ stop' = IF rest' = <<>> THEN "report" ELSE "flush"
         /\ UNCHANGED <<now, batch, stopped, thread, flight, failed, lock, committed, registry,
                        windows, finalFailed, gaveUp, tables, history>>

DrainBegins == /\ stop = "flush"
               /\ BeginFlush("stop", rest)
               /\ UNCHANGED <<now, threads, committed, windows, stopping, tables, history>>

DrainCommits == /\ stop = "flush" /\ Commit("stop", rest)
                /\ rest' = <<>>
                /\ stop' = "report"
                /\ UNCHANGED <<now, threads, windows, finalFailed, gaveUp, history>>

DrainFails == /\ stop = "flush" /\ Rollback("stop", rest)
              /\ finalFailed' = finalFailed \o rest
              /\ rest' = <<>>
              /\ stop' = "report"
              /\ UNCHANGED <<now, threads, windows, gaveUp, history>>

\* _report_final_failed: the rows nobody could write are counted, once.
Report == /\ stop = "report"
          /\ lock = "free"
          /\ stop' = "done"
          /\ finalFailed' = <<>>
          /\ IF Market(finalFailed) = 0 THEN UNCHANGED <<registry, statRows>>
             ELSE /\ counters' = Increased(counters, now, [m \in {"final"} |-> Market(finalFailed)])
                  /\ Total("final", Market(finalFailed))
                  /\ \/ statRows' = With(statRows, <<now, "final">>, At(counters'[now], "final"))
                     \/ UNCHANGED statRows
          /\ UNCHANGED <<now, threads, lock, committed, windows, rest, gaveUp, rows, sumRows, skipped,
                         faults, history>>

StopStep == Join \/ Drain \/ DrainBegins \/ DrainCommits \/ DrainFails \/ Report

writerVars == <<now, threads, lock, committed, registry, windows, stopping, tables, history>>
=============================================================================
