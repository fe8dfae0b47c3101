------------------------------ MODULE TradeFeed ------------------------------
(***************************************************************************)
(* A collector of trades and of one more kind of data                       *)
(* (app/realtime/manager.py): the connection puts the trades it receives    *)
(* into the writer's queue, and at the start and after every reconnection   *)
(* the event loop stops to run the recoveries of app/realtime/recovery.py,  *)
(* each step of which is a transaction of its own while the writer's thread *)
(* goes on.  A backfill of trades may run at any time in another process.   *)
(***************************************************************************)
EXTENDS WsClient, TradeStore

CONSTANT Before      \* the trades made before the collector starts

ASSUME FeedAssumption == Before \in 0 .. MaxTrades

VARIABLES
    made,        \* the exchange's latest trade
    inbox,       \* sent on the connection and not yet received
    kind,        \* the other data type: "mark", "funding" or "oi"
    step,        \* where the recovery is, "none" outside it
    status,      \* status, of the recovery that runs
    from,        \* from_id of the trades event, 0 without one
    to,          \* its to_ts: the trades made by then
    rangeEvent,  \* recovery_events and data_gaps: the status of the rows this
    tradeEvent,  \* recovery has written (each recovery writes rows of its own)
    gap,
    covered      \* the gap's window is stored as far as REST has it

recVars == <<step, status, from, to, rangeEvent, tradeEvent, gap, covered>>
vars == <<wsVars, storeVars, recVars, made, inbox, kind>>

NoRow == "none"
Statuses == {NoRow, "RUNNING", "RECOVERED", "PARTIAL_RECOVERED", "UNRECOVERABLE"}
GapStatuses == {NoRow, "OPEN", "RECOVERED", "UNRECOVERABLE"}

\* An earlier run of the collector has stored some of the trades.
Init ==
    /\ WsInit
    /\ StoreInit
    /\ trades \in {t \in [Ids -> {"none", "WS"}] : \A k \in Ids : k > Before => t[k] = "none"}
    /\ made = Before
    /\ inbox = <<>>
    /\ kind \in IF policy = "ws" THEN {"mark"} ELSE {"oi", "funding"}    \* they do not interact
    /\ step = "range_event"
    /\ status = "RECOVERED"
    /\ from = 0
    /\ to = 0
    /\ rangeEvent = NoRow
    /\ tradeEvent = NoRow
    /\ gap = NoRow
    /\ covered = FALSE

-----------------------------------------------------------------------------
(* The recoveries: one transaction or one download a step.  An exception     *)
(* outside the try of recover ends that recovery, and is logged.            *)

Goto(s) == step' = s
\* After the range comes the trades recovery, after that the connection.
RangeEnds == Goto("latest") /\ status' = "RECOVERED"
TradesEnd == Goto("none") /\ at' = IF at = "recover" THEN "gather" ELSE at

\* The except of recover.
Unrecoverable(next) == Goto(next) /\ status' = "UNRECOVERABLE"

\* on_reconnect is called while the loop is in connect().
Begin ==
    /\ at = "recover" /\ step = "none"
    /\ status' = "RECOVERED"
    /\ from' = 0 /\ to' = 0
    /\ rangeEvent' = NoRow /\ tradeEvent' = NoRow
    /\ gap' = NoRow
    /\ covered' = FALSE
    /\ Goto("range_event")
    /\ UNCHANGED <<at, faults>>

RangeEvent ==
    /\ step = "range_event"
    /\ \/ rangeEvent' = "RUNNING"
          /\ Goto("range_gap") /\ UNCHANGED <<status, faults>>
       \/ Fault /\ RangeEnds /\ UNCHANGED rangeEvent
    /\ UNCHANGED <<at, from, to, tradeEvent, gap, covered>>

RangeGap ==
    /\ step = "range_gap"
    /\ \/ gap' = "OPEN"
          /\ Goto("range_download") /\ UNCHANGED <<status, faults>>
       \/ Fault /\ RangeEnds /\ UNCHANGED gap
    /\ UNCHANGED <<at, from, to, rangeEvent, tradeEvent, covered>>

\* The candles of the window are fetched and upserted, then the sync state is.
HistoryDownload ==
    /\ kind = "mark"
    /\ \/ covered' = TRUE
          /\ Goto("range_mark")
          /\ UNCHANGED <<status, faults>>
       \/ Fault /\ covered' \in {covered, TRUE} /\ Unrecoverable("range_mark")

\* Of funding rates what is stored is not asked for again: when there are some
\* from before the window, only those after the newest one are fetched, and a
\* hole below it stays.  They have no sync state.
FundingDownload ==
    /\ kind = "funding"
    /\ Goto("range_mark")
    /\ \/ covered' \in BOOLEAN /\ UNCHANGED <<status, faults>>
       \/ Fault /\ status' = "UNRECOVERABLE" /\ UNCHANGED covered

\* Open interest only has its present value.
PresentDownload ==
    /\ kind = "oi"
    /\ Goto("range_mark")
    /\ \/ status' = "PARTIAL_RECOVERED" /\ UNCHANGED faults
       \/ Fault /\ status' = "UNRECOVERABLE"
    /\ UNCHANGED covered

RangeDownload ==
    /\ step = "range_download"
    /\ HistoryDownload \/ FundingDownload \/ PresentDownload
    /\ UNCHANGED <<at, from, to, rangeEvent, tradeEvent, gap>>

RangeMark ==
    /\ step = "range_mark"
    /\ \/ /\ gap' = IF status = "RECOVERED" THEN "RECOVERED" ELSE "UNRECOVERABLE"
          /\ Goto("range_finish") /\ UNCHANGED <<status, faults>>
       \/ Fault /\ RangeEnds /\ UNCHANGED gap
    /\ UNCHANGED <<at, from, to, rangeEvent, tradeEvent, covered>>

RangeFinish ==
    /\ step = "range_finish"
    /\ RangeEnds
    /\ \/ rangeEvent' = status /\ UNCHANGED faults
       \/ Fault /\ UNCHANGED rangeEvent
    /\ UNCHANGED <<at, from, to, tradeEvent, gap, covered>>

\* The latest stored trade; without one there is nothing to recover from.
Stored == {k \in Ids : trades[k] # "none"}
Latest ==
    /\ step = "latest"
    /\ \/ /\ Stored # {}
          /\ from' = Max(Stored)
          /\ to' = made
          /\ Goto("event")
          /\ UNCHANGED <<at, faults>>
       \/ Stored = {} /\ TradesEnd /\ UNCHANGED <<from, to, faults>>
       \/ Fault /\ TradesEnd /\ UNCHANGED <<from, to>>
    /\ UNCHANGED <<status, rangeEvent, tradeEvent, gap, covered>>

Event ==
    /\ step = "event"
    /\ \/ tradeEvent' = "RUNNING"
          /\ Goto("download") /\ UNCHANGED <<at, faults>>
       \/ Fault /\ TradesEnd /\ UNCHANGED tradeEvent
    /\ UNCHANGED <<status, from, to, rangeEvent, gap, covered>>

Download ==
    /\ step = "download" /\ dAt["recovery"] = "idle"
    /\ Fetch("recovery", from)
    /\ UNCHANGED <<at, recVars>>

Downloaded ==
    /\ step = "download" /\ dAt["recovery"] \in {"done", "failed"}
    /\ Goto("finish")
    /\ status' = IF dAt["recovery"] = "done" THEN "RECOVERED" ELSE "UNRECOVERABLE"
    /\ At("recovery", "idle")
    /\ UNCHANGED <<at, policy, trades, open, writerVars, records, dBad, last, sync, faults,
                   from, to, rangeEvent, tradeEvent, gap, covered>>

Finish ==
    /\ step = "finish"
    /\ TradesEnd
    /\ \/ tradeEvent' = status /\ UNCHANGED faults
       \/ Fault /\ UNCHANGED tradeEvent
    /\ UNCHANGED <<status, from, to, rangeEvent, gap, covered>>

RecoveryStep ==
    /\ \/ Begin \/ RangeEvent \/ RangeGap \/ RangeDownload \/ RangeMark \/ RangeFinish
       \/ Latest \/ Event \/ Finish
    /\ UNCHANGED <<policy, trades, open, writerVars, downloadVars>>

Recovery ==
    /\ \/ RecoveryStep \/ Download \/ Downloaded
       \/ DownloadStep("recovery") /\ UNCHANGED <<at, recVars>>
    /\ UNCHANGED <<sock, subscribed, receiver, beat, first, running, quiet, pong, breaks,
                   made, inbox, kind>>

-----------------------------------------------------------------------------
(* The collector                                                           *)

\* A trade is made, and sent if anybody is subscribed.
Trade ==
    /\ made < MaxTrades
    /\ made' = made + 1
    /\ inbox' = IF subscribed THEN Append(inbox, made + 1) ELSE inbox
    /\ UNCHANGED <<wsVars, storeVars, recVars, kind>>

\* on_message: TradesRealtimeHandler puts the trade into the queue.
Receive ==
    /\ inbox # <<>>
    /\ Hear(pong)
    /\ queue' = Append(queue, Head(inbox))
    /\ inbox' = Tail(inbox)
    /\ UNCHANGED <<policy, trades, open, batch, wAt, wBad, downloadVars, faults, recVars, made, kind>>

\* _run recovers first and connects then; what was not received is gone with
\* its connection.
Connection ==
    /\ Loop
    /\ at = "before" => step = "none"
    /\ inbox' = IF at = "gather" /\ at' # at THEN <<>> ELSE inbox
    /\ UNCHANGED <<storeVars, recVars, made, kind>>

Environment ==
    /\ Outside \/ Pong
    /\ UNCHANGED <<storeVars, recVars, made, inbox, kind>>

\* backfill --type trades: from the newest trade on, once.
Backfill ==
    \/ dAt["backfill"] = "idle" /\ Fetch("backfill", made + 1)
    \/ DownloadStep("backfill")

Storing ==
    /\ Writer \/ Backfill
    /\ UNCHANGED <<wsVars, recVars, made, inbox, kind>>

Next == Trade \/ Receive \/ Connection \/ Environment \/ Storing \/ Recovery

Spec == Init /\ [][Next]_vars

\* The event loop runs what is ready; the recovery ends, since each of its
\* requests and transactions does.
FairSpec == Spec /\ WF_vars(Connection) /\ WF_vars(Recovery)

-----------------------------------------------------------------------------
TypeOK ==
    /\ trades \in [Ids -> Sources \cup {"none"}]
    /\ open \in SUBSET Odd
    /\ \A d \in Downloaders : records[d] \subseteq Ids /\ dBad[d] \subseteq Odd
    /\ from \in 0 .. MaxTrades /\ to \in 0 .. MaxTrades
    /\ gap \in GapStatuses
    /\ rangeEvent \in Statuses /\ tradeEvent \in Statuses
    /\ sync \in 0 .. MaxTrades
    /\ at = "recover" => receiver = "on" /\ beat = "on"
    /\ Len(queue) + Len(inbox) + Len(batch) <= MaxTrades - Before

\* "Raw data is not silently overwritten" (writer.py:351): a stored trade
\* keeps the side it came from, whichever of the two writers, retries and
\* policies comes after it; and a conflict is registered against a row that is
\* there and stays, under the policy "ws" never against one of the WebSocket.
RawIsKept ==
    [][/\ \A k \in Ids : trades[k] # "none" => trades'[k] = trades[k]
       /\ \A k \in open' : trades'[k] \in IF policy = "ws" THEN {"REST"} ELSE Sources]_vars

\* A recovery of which a request or a transaction fails, in whatever step and
\* with whatever the writer and the backfill do meanwhile, does not say
\* RECOVERED (recovery.py:364): when the gap does, the window of candles is
\* stored (a window of funding rates need not be, see FundingDownload); when the
\* range's event does, so does its gap, written before it; and when the event of
\* the trades does, every trade its download asked for is stored.  Whether these
\* are the trades that were missed is RecoveredIsFilled.
RecoveredIsFetched ==
    /\ gap = "RECOVERED" => covered \/ kind = "funding"
    /\ rangeEvent = "RECOVERED" => gap = "RECOVERED"
    /\ tradeEvent = "RECOVERED" => Reach(from) \subseteq Stored

\* after_trade_id means "fetch what comes after this tradeId, for recovery from a
\* disconnection" (trades.py:45): when the event of the trades says RECOVERED,
\* those made after its from_id and until its to_ts are in the table or on their
\* way into it.  TLC finds that they are not: the REST API's `after` asks for
\* OLDER trades.
RecoveredIsFilled ==
    tradeEvent = "RECOVERED" =>
        (from + 1) .. to \subseteq Stored \cup Range(queue) \cup Range(batch)
=============================================================================
