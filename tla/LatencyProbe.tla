---------------------------- MODULE LatencyProbe ----------------------------
(***************************************************************************)
(* The latency probe around its writer: the tasks of one event loop (the   *)
(* WebSocket probe, the ticker, the REST clock), the strategy's worker,    *)
(* and the main coroutine of cli/latency_probe.py, which stops them in a   *)
(* fixed order.  Of a connection only the samples it brings are modelled.  *)
(***************************************************************************)
EXTENDS LatencyWriter

CONSTANTS MaxMessages,  \* bound: market samples that are received
          MaxOther      \* bound: samples no counter counts

ASSUME ProbeAssumption == {MaxMessages, MaxOther} \subseteq Nat

VARIABLES stage,        \* where _run is
          received,     \* market samples received
          others        \* other samples

probeVars == <<stage, received, others>>
vars      == <<writerVars, probeVars>>

Init == /\ WriterInit
        /\ stage = "run"
        /\ received = 0 /\ others = 0

\* The event loop runs its other tasks, and is not inside tick.
LoopTurns == stage \in {"run", "tasks"} /\ event = Free

-----------------------------------------------------------------------------
(* What runs besides the main coroutine.                                   *)

\* _handle_market_message, for an item that parses.
MarketMessage == /\ LoopTurns
                 /\ received < MaxMessages
                 /\ received' = received + 1
                 /\ PutMarket
                 /\ UNCHANGED <<stage, others>>

\* A pong in the event loop, a REST round trip in a thread of the executor, or
\* a time the strategy's worker reports: stop waits for none of the threads.
OtherSample == /\ stage # "done"
               /\ others < MaxOther
               /\ others' = others + 1
               /\ PutOther
               /\ UNCHANGED <<stage, received>>

Ticker == /\ stage \in {"run", "tasks"}
          /\ Tick
          /\ UNCHANGED probeVars

TimePasses   == stage # "done" /\ Clock /\ UNCHANGED probeVars
WriterThread == stage # "done" /\ Thread /\ UNCHANGED probeVars
ClosingStep  == Closing /\ UNCHANGED probeVars
Stopping     == StopStep /\ UNCHANGED probeVars

-----------------------------------------------------------------------------
(* The main coroutine.                                                     *)

To(s) == stage' = s /\ UNCHANGED <<received, others>>

\* A signal, or the end of the duration: the probe is told to stop and waited
\* for, at most 10 s, then the REST loop, the strategy and the ticker.
RequestStop == /\ stage = "run"
               /\ event = Free
               /\ To("tasks")
               /\ UNCHANGED writerVars

FlushAll == /\ stage = "tasks"
            /\ To("flush")
            /\ Close("all", Horizon)

StopWriter == /\ stage = "flush"
              /\ event = Free
              /\ To("writer")
              /\ SetStopped

Return == /\ stage = "writer"
          /\ stop = "done"
          /\ To("done")
          /\ UNCHANGED writerVars

Main == FlushAll \/ StopWriter \/ Return

Next == \/ MarketMessage \/ OtherSample \/ Ticker \/ TimePasses
        \/ RequestStop \/ Main \/ WriterThread \/ ClosingStep \/ Stopping

Spec == Init /\ [][Next]_vars

\* Tasks and threads that can go on do; nobody has to stop the probe, and no
\* message has to come.
FairSpec == /\ Spec
            /\ WF_vars(Main)
            /\ WF_vars(WriterThread)
            /\ WF_vars(ClosingStep)
            /\ WF_vars(Stopping)

-----------------------------------------------------------------------------
TypeOK ==
    /\ now \in Windows
    /\ {buffer, pending, batch, flight, rest, failed, finalFailed} \subseteq Seq(Samples)
    /\ Len(buffer) <= Cap /\ Len(batch) < BatchSize
    /\ thread \in {"loop", "retry", "flush", "last", "requeue", "end", "done"}
    /\ stop \in {"no", "join", "drain", "flush", "report", "done"}
    /\ lock \in {"free", "thread", "stop"}
    /\ {stopped, gaveUp} \subseteq BOOLEAN
    /\ totals \in [Metrics -> Nat] /\ rows \in Nat
    /\ {accepted, refused} \subseteq [Windows -> Nat]
    /\ DOMAIN committed \cup DOMAIN counters \cup DOMAIN series \cup DOMAIN sumRows \subseteq Windows
    /\ DOMAIN statRows \subseteq Windows \X Metrics
    /\ stage \in {"run", "tasks", "flush", "writer", "done"}

\* Market samples the writer holds, in whatever list.
Held == Market(buffer) + Market(pending) + Market(batch) + Market(flight) + Market(rest)
        + Market(failed) + Market(finalFailed)

InFlight == CASE lock = "thread" -> Market(flight)
              [] lock = "stop"   -> Market(rest)
              [] OTHER           -> 0

\* The equations _log_accounting prints.  The written counter is exact but for
\* the batch of the running transaction, whatever fails and is retried; and
\* unless stop has given up on the thread, no sample that was queued is ever
\* unaccounted for: it is in the table, in a list of the writer, or counted as
\* finally failed.
SamplesAccounted ==
    /\ totals["parsed"] = totals["queued"] + totals["dropped"]
    /\ totals["written"] = rows + InFlight
    /\ ~gaveUp => totals["queued"] = rows + Held + totals["final"]
    /\ stop = "done" /\ ~gaveUp => totals["queued"] = totals["written"] + totals["final"]

\* A window is closed once: when the summarizer no longer has it and nothing
\* failed to store it, the tables say how many samples were received, queued
\* and dropped in it.
WindowsAreStored ==
    \A w \in Windows \ (DOMAIN series \cup skipped) :
       (emitting # <<>> => emitting[1].w # w) =>
          /\ Stored(w, "queued") = accepted[w]
          /\ Stored(w, "dropped") = refused[w]
          /\ At(sumRows, w) = accepted[w] + refused[w]

\* A probe that is asked to stop returns, whatever fails in the database and
\* wherever the writer thread is.
StopCompletes == stage = "tasks" ~> stage = "done"
=============================================================================
