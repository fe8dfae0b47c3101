------------------------------ MODULE TradeStore ------------------------------
(***************************************************************************)
(* The trades table and its writers: TradeWriter's thread, which stores     *)
(* what the WebSocket brings (app/realtime/writer.py, trades.py), and the   *)
(* downloaders (app/downloader/trades.py) of the collector's recovery and   *)
(* of the backfill command.  All ask the conflict detector first            *)
(* (app/quality/conflict.py), in transactions of its own, and insert with   *)
(* ON CONFLICT DO NOTHING.                                                  *)
(*                                                                         *)
(* No code calls resolve, so a conflict stays OPEN.                         *)
(*                                                                         *)
(* Trades are numbered as the exchange numbers them.  A trade in Odd has   *)
(* other core fields on the WebSocket than on the REST side.                *)
(***************************************************************************)
EXTENDS Naturals, Sequences, FiniteSets, FiniteSetsExt, SequencesExt

CONSTANTS
    MaxTrades,    \* bound: the trades the exchange makes
    BatchSize,    \* the most rows of one flush
    Bulk,         \* BULK_SIZE of the downloader
    Past,         \* the trades up to this one are before the window
    Page,         \* limit: the trades of a page
    MaxPages,     \* max_pages
    MaxFaults,    \* bound: failing transactions and requests
    Odd           \* the trades whose core fields differ between the two sides

ASSUME StoreAssumption ==
    /\ {BatchSize, Bulk, Page, MaxPages} \subseteq Nat \ {0}
    /\ {MaxTrades, Past, MaxFaults} \subseteq Nat

Ids == 1 .. MaxTrades
Sources == {"WS", "REST"}
Downloaders == {"recovery", "backfill"}

VARIABLES
    policy,      \* CONFLICT_POLICY: "ws" or "strict"
    trades,      \* the table: the source of the row of each trade, or "none"
    open,        \* the trades with an OPEN row in data_conflicts
    queue,       \* the writer's buffer
    batch,       \* the batch it flushes or will retry
    wAt,         \* where the flush is: "idle", "register" or "insert"
    wBad,        \* the rows of the batch the detector found to differ
    dAt,         \* where each download is: "idle", ..., "done" or "failed"
    records,     \* its records, as a set: the rows still to insert
    dBad,        \* those of them the detector found to differ
    last,        \* last_trade_id, 0 for None
    sync,        \* latest_trade_id of trades_sync_state, 0 for NULL or no row
    faults

writerVars == <<queue, batch, wAt, wBad>>
downloadVars == <<dAt, records, dBad, last, sync>>
storeVars == <<policy, trades, open, writerVars, downloadVars, faults>>

StoreInit ==
    /\ policy \in {"ws", "strict"}
    /\ open = {}
    /\ queue = <<>>
    /\ batch = <<>>
    /\ wAt = "idle"
    /\ wBad = {}
    /\ dAt = [d \in Downloaders |-> "idle"]
    /\ records = [d \in Downloaders |-> {}]
    /\ dBad = [d \in Downloaders |-> {}]
    /\ last = [d \in Downloaders |-> 0]
    /\ sync = 0
    /\ faults = 0

Fault == faults < MaxFaults /\ faults' = faults + 1

\* detect_trades compares the hashes of the core fields with the stored row's.
Differs(k, source) == trades[k] \notin {"none", source} /\ k \in Odd

\* What is stored is never overwritten.
Overwrite(rows, source) ==    \* a bug: ON CONFLICT DO UPDATE
    [k \in Ids |-> IF k \in rows THEN source ELSE trades[k]]
Insert(rows, source) ==
    [k \in Ids |-> IF k \in rows /\ trades[k] = "none" THEN source ELSE trades[k]]

-----------------------------------------------------------------------------
(* TradeWriter                                                             *)

Again(n) == SubSeq(queue, n, Len(queue))    \* a bug: off by one
Rest(n) == SubSeq(queue, n + 1, Len(queue))
Take ==
    /\ wAt = "idle" /\ batch = <<>>
    /\ \E n \in 1 .. BatchSize :
          /\ n <= Len(queue)
          /\ batch' = SubSeq(queue, 1, n)
          /\ queue' = Rest(n)
    /\ UNCHANGED <<policy, trades, open, wAt, wBad, downloadVars, faults>>

\* The rows of the keys are read; when that fails the error is logged and the
\* batch is inserted as it is.
Look ==
    /\ wAt = "idle" /\ batch # <<>>
    /\ \/ /\ wBad' = {k \in Range(batch) : Differs(k, "WS")}
          /\ wAt' = IF wBad' = {} THEN "insert" ELSE "register"
          /\ UNCHANGED faults
       \/ /\ Fault
          /\ wBad' = {}
          /\ wAt' = "insert"
    /\ UNCHANGED <<policy, trades, open, queue, batch, downloadVars>>

\* register: an OPEN row for each key that has none.  (Two writers that count
\* before either inserts make two rows; here that is one member of open.)
Register ==
    /\ wAt = "register"
    /\ wAt' = "insert"
    /\ \/ open' = open \cup wBad /\ UNCHANGED <<wBad, faults>>
       \/ Fault /\ wBad' = {} /\ UNCHANGED open
    /\ UNCHANGED <<policy, trades, queue, batch, downloadVars>>

\* The rows that do not differ; a failure leaves the batch to the next try.
Flush ==
    /\ wAt = "insert"
    /\ wAt' = "idle"
    /\ wBad' = {}
    /\ \/ /\ trades' = Insert(Range(batch) \ wBad, "WS")
          /\ batch' = <<>>
          /\ UNCHANGED faults
       \/ /\ Fault
          /\ Range(batch) \ wBad # {}
          /\ UNCHANGED <<trades, batch>>
    /\ UNCHANGED <<policy, open, queue, downloadVars>>

Writer == Take \/ Look \/ Register \/ Flush

-----------------------------------------------------------------------------
(* TradesDownloader.download_range                                         *)

\* Page by page towards OLDER trades, as OKX understands `after`, until the
\* start of the window, the first trade or max_pages.
Oldest(id, n) == IF id > Page * n THEN id - Page * n ELSE 1
LastOf(id) ==
    Oldest(id, Min({MaxPages} \cup {n \in 1 .. MaxPages : Oldest(id, n) <= Max({Past, 1})}))
Reach(id) == {k \in Ids : k > Past /\ LastOf(id) <= k /\ k < id}

At(d, where) == dAt' = [dAt EXCEPT ![d] = where]
Swallowed == "done"    \* a bug: the exception is logged, and no more
Raised == "failed"

\* Whatever is left of the download's locals goes with it.
Leaves(d, how) ==
    /\ At(d, how)
    /\ records' = [records EXCEPT ![d] = {}]
    /\ dBad' = [dBad EXCEPT ![d] = {}]
    /\ last' = [last EXCEPT ![d] = 0]
Fails(d) == Fault /\ Leaves(d, Raised)

\* The pages before the trade `id`; a request that fails for good raises.
Fetch(d, id) ==
    /\ \/ /\ records' = [records EXCEPT ![d] = Reach(id)]
          /\ last' = [last EXCEPT ![d] = IF id = 1 THEN 0 ELSE LastOf(id)]
          /\ At(d, "look")
          /\ UNCHANGED <<dBad, faults>>
       \/ Fails(d)
    /\ UNCHANGED <<policy, trades, open, writerVars, sync>>

\* The detector, for rows of the REST side: under the policy "ws" a row of the
\* WebSocket stays and nothing is registered.
RestLook(d) ==
    /\ dAt[d] = "look"
    /\ LET differing == {k \in records[d] : Differs(k, "REST")}
       IN  \/ /\ records' = [records EXCEPT ![d] = @ \ differing]
              /\ dBad' = [dBad EXCEPT ![d] = IF policy = "ws" THEN {} ELSE differing]
              /\ At(d, IF dBad'[d] = {} THEN "insert" ELSE "register")
              /\ UNCHANGED <<last, faults>>
           \/ records[d] # {} /\ Fails(d)
    /\ UNCHANGED <<policy, trades, open, writerVars, sync>>

RestRegister(d) ==
    /\ dAt[d] = "register"
    /\ \/ /\ open' = open \cup dBad[d]
          /\ dBad' = [dBad EXCEPT ![d] = {}]
          /\ At(d, "insert")
          /\ UNCHANGED <<records, last, faults>>
       \/ Fails(d) /\ UNCHANGED open
    /\ UNCHANGED <<policy, trades, writerVars, sync>>

\* Bulk rows in each transaction, the newest first.
FirstRows(d) == {k \in records[d] : Cardinality({j \in records[d] : j > k}) < Bulk}
RestInsert(d) ==
    /\ dAt[d] = "insert"
    /\ \/ /\ records[d] # {}
          /\ trades' = Insert(FirstRows(d), "REST")
          /\ records' = [records EXCEPT ![d] = @ \ FirstRows(d)]
          /\ At(d, IF records'[d] = {} THEN "sync" ELSE "insert")
          /\ UNCHANGED <<dBad, last, faults>>
       \/ /\ records[d] = {}
          /\ At(d, "sync")
          /\ UNCHANGED <<trades, records, dBad, last, faults>>
       \/ records[d] # {} /\ Fails(d) /\ UNCHANGED trades
    /\ UNCHANGED <<policy, open, writerVars, sync>>

\* The sync state names the OLDEST trade of the last page as the latest one.
SyncState(d) ==
    /\ dAt[d] = "sync"
    /\ \/ sync' = last[d] /\ Leaves(d, "done") /\ UNCHANGED faults
       \/ Fails(d) /\ UNCHANGED sync
    /\ UNCHANGED <<policy, trades, open, writerVars>>

DownloadStep(d) == RestLook(d) \/ RestRegister(d) \/ RestInsert(d) \/ SyncState(d)
=============================================================================
