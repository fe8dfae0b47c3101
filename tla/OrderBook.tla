----------------------------- MODULE OrderBook ------------------------------
(***************************************************************************)
(* The realtime order book of one instrument: the exchange's books channel *)
(* (external), the WebSocket thread that runs OrderBookHandler and         *)
(* RealtimeManager._handle_orderbook on each message, the snapshot thread  *)
(* that samples the same OrderBookState every few seconds, and the tables  *)
(* recovery_events, data_gaps and order_book_sync_state they write.        *)
(*                                                                         *)
(* A step is what runs between two acquisitions of OrderBookState._lock,   *)
(* one database transaction, or one read of a field outside the lock.  A   *)
(* book is the set of levels it shows (the sizes are left out), the        *)
(* exchange's clock is the number of its changes: last_update_ts, which a  *)
(* message carries, identifies the change it announced.                    *)
(***************************************************************************)
EXTENDS Integers, Sequences

CONSTANTS Bids, Asks,      \* price levels of the two sides
          Start,           \* the exchange's first sequence number
          ResetBelow,      \* 1000 in _is_sequence_reset
          MaxChanges,      \* bound: changes of the exchange's book
          MaxResets,       \* bound: restarts of its sequence numbers
          MaxLost,         \* bound: messages that never arrive
          MaxDrops,        \* bound: disconnections
          MaxRestarts,     \* bound: restarts of the collector
          MaxFaults        \* bound: transactions that raise an error

Levels == Bids \cup Asks
NoSeq  == -1               \* None, and the prevSeqId of a snapshot

ASSUME BookAssumption ==
    /\ Start \in Nat \ {0}
    /\ ResetBelow \in Nat
    /\ {MaxChanges, MaxResets, MaxLost, MaxDrops, MaxRestarts, MaxFaults} \subseteq Nat

VARIABLES
    hist,      \* the exchange: every change, with the book it leads to
    up, wire,  \* the connection and the messages in flight (FIFO)
    state, book, seq, prev, ts,    \* OrderBookState
    resyncs,   \* OrderBookState.resync_count
    pc, msg,   \* WebSocket thread, and the snapshot it handles
    spc, row,  \* snapshot thread, and the record it builds
    synced,    \* order_book_sync_state: the last row handed over
    openGaps,  \* rows of data_gaps with status OPEN
    running,   \* rows of recovery_events left in status RUNNING
    bounds     \* how often each bounded event of the environment happened

exchange == <<hist, up, wire>>
local    == <<state, book, seq, prev, ts, resyncs>>
thread   == <<pc, msg>>
sampler  == <<spc, row>>
tables   == <<synced, openGaps, running>>
vars     == <<exchange, local, thread, sampler, tables, bounds>>

Now == Len(hist)
Last == hist[Now]

Spend(event, max) == /\ bounds[event] < max
                     /\ bounds' = [bounds EXCEPT ![event] = @ + 1]

-----------------------------------------------------------------------------
(* The exchange and the connection (external).                             *)

\* One level appears or disappears; seqId grows, prevSeqId is the seqId of
\* the change before.  After maintenance the numbers start again from 1.
Change(l, s) ==
    LET b == IF l \in Last.book THEN Last.book \ {l} ELSE Last.book \cup {l}
    IN  /\ hist' = Append(hist, [seq |-> s, prev |-> Last.seq, book |-> b,
                                 gone |-> Last.book \ b, new |-> b \ Last.book])
        /\ wire' = IF up THEN Append(wire, [action |-> "update", at |-> Now + 1])
                         ELSE wire
        /\ UNCHANGED <<up, local, thread, sampler, tables>>

Publish(l) == /\ Now <= MaxChanges
              /\ Change(l, Last.seq + 1)
              /\ UNCHANGED bounds

PublishReset(l) == /\ Now <= MaxChanges
                   /\ Last.seq > 1
                   /\ Spend("reset", MaxResets)
                   /\ Change(l, 1)

Lose == /\ wire # <<>>
        /\ Spend("lost", MaxLost)
        /\ wire' = Tail(wire)
        /\ UNCHANGED <<hist, up, local, thread, sampler, tables>>

Drop == /\ up
        /\ Spend("drop", MaxDrops)
        /\ up' = FALSE
        /\ wire' = <<>>
        /\ UNCHANGED <<hist, local, thread, sampler, tables>>

\* connect subscribes again: the channel starts with a full snapshot.
Connect == /\ ~up
           /\ pc = "idle"
           /\ up' = TRUE
           /\ wire' = <<[action |-> "snapshot", at |-> Now]>>
           /\ UNCHANGED <<hist, local, thread, sampler, tables, bounds>>

-----------------------------------------------------------------------------
(* The WebSocket thread: handle, then the rest of _handle_orderbook.       *)

Head1 == Head(wire)

Receive(action) == /\ pc = "idle"
                   /\ wire # <<>>
                   /\ Head1.action = action
                   /\ wire' = Tail(wire)
                   /\ UNCHANGED <<hist, up>>

IsSequenceReset(m) == m.seq < m.prev /\ m.seq < ResetBelow

ApplyDelta(m, at) == /\ book' = (book \ m.gone) \cup m.new
                     /\ seq' = m.seq
                     /\ prev' = m.prev
                     /\ ts' = at

\* Mutant: an update that is newer than the book is good enough.
Newer(m) == m.prev >= seq \/ IsSequenceReset(m)

\* apply_update's two ways to accept an update.
Follows(m) == m.prev = seq \/ IsSequenceReset(m)

\* Updates are dropped while RESYNCING.
UpdateDropped == /\ Receive("update")
                 /\ state = "RESYNCING"
                 /\ UNCHANGED <<local, thread, sampler, tables, bounds>>

UpdateApplied == /\ Receive("update")
                 /\ state = "RUNNING"
                 /\ Follows(hist[Head1.at])
                 /\ ApplyDelta(hist[Head1.at], Head1.at)
                 /\ UNCHANGED <<state, resyncs, thread, sampler, tables, bounds>>

\* A gap, or an update before the first snapshot (apply_update refuses it
\* without a change of state).
UpdateRefused == /\ Receive("update")
                 /\ state # "RESYNCING"
                 /\ state = "RUNNING" => ~ Follows(hist[Head1.at])
                 /\ state' = IF state = "RUNNING" THEN "GAP_DETECTED" ELSE state
                 /\ pc' = "resync"
                 /\ UNCHANGED <<book, seq, prev, ts, resyncs, msg, sampler, tables, bounds>>

\* prepare_resync; last_update_ts stays.
Cleared == /\ book' = {}
           /\ seq' = NoSeq
           /\ prev' = NoSeq
           /\ state' = "RESYNCING"
           /\ resyncs' = resyncs + 1
           /\ UNCHANGED ts

\* Mutant: only a gap between updates is registered.
PrepareAfterGapOnly ==
    /\ pc = "resync"
    /\ Cleared
    /\ pc' = IF state = "GAP_DETECTED" THEN "event" ELSE "idle"
    /\ UNCHANGED <<msg, exchange, sampler, tables, bounds>>

PrepareResync == /\ pc = "resync"
                 /\ Cleared
                 /\ pc' = "event"
                 /\ UNCHANGED <<msg, exchange, sampler, tables, bounds>>

\* A transaction commits, or raises and the handler only logs the error.
Transaction(here, next, effect) ==
    /\ pc = here
    /\ \/ /\ effect
          /\ pc' = next
          /\ UNCHANGED bounds
       \/ /\ Spend("fault", MaxFaults)
          /\ pc' = "idle"
          /\ UNCHANGED <<openGaps, running>>
    /\ UNCHANGED <<exchange, local, msg, sampler, synced>>

\* trigger_resync: three transactions.  No two gaps have the same end points,
\* which are the time of detection and five seconds before.
StartEvent   == Transaction("event", "gap", running' = running + 1 /\ UNCHANGED openGaps)
RegisterOpen == Transaction("gap", "finish", openGaps' = openGaps + 1 /\ UNCHANGED running)
FinishEvent  == Transaction("finish", "idle", running' = running - 1 /\ UNCHANGED openGaps)

\* Mutant: a book that runs takes the next snapshot as it is.
SnapshotOverRunning ==
    /\ Receive("snapshot")
    /\ IF state = "RESYNCING" THEN Cleared ELSE UNCHANGED local
    /\ msg' = Head1.at
    /\ pc' = "apply"
    /\ UNCHANGED <<sampler, tables, bounds>>

SnapshotArrives == /\ Receive("snapshot")
                   /\ IF state = "INIT" THEN UNCHANGED local ELSE Cleared
                   /\ msg' = Head1.at
                   /\ pc' = "apply"
                   /\ UNCHANGED <<sampler, tables, bounds>>

\* Mutant: the state is not set by a snapshot.
ApplyWithoutState ==
    /\ pc = "apply"
    /\ book' = hist[msg].book
    /\ seq' = hist[msg].seq
    /\ prev' = NoSeq
    /\ ts' = msg
    /\ state' = IF state = "INIT" THEN "RUNNING" ELSE state
    /\ pc' = "status"
    /\ UNCHANGED <<resyncs, msg, exchange, sampler, tables, bounds>>

ApplySnapshot == /\ pc = "apply"
                 /\ book' = hist[msg].book
                 /\ seq' = hist[msg].seq
                 /\ prev' = NoSeq
                 /\ ts' = msg
                 /\ state' = "RUNNING"
                 /\ pc' = "status"
                 /\ UNCHANGED <<resyncs, msg, exchange, sampler, tables, bounds>>

\* The record is handed to the writer, then the row of the sync state.
HandOver == /\ pc = "status"
            /\ synced' = [seq |-> seq, status |-> state]
            /\ pc' = IF resyncs > 0 THEN "close" ELSE "idle"
            /\ UNCHANGED <<msg, exchange, local, sampler, openGaps, running, bounds>>

\* Mutant: one gap is closed, whether there is one or not.
CloseOneGap == Transaction("close", "idle", openGaps' = openGaps - 1 /\ UNCHANGED running)

MarkSnapshotReady == Transaction("close", "idle", openGaps' = 0 /\ UNCHANGED running)

WebSocketThread ==
    \/ UpdateDropped \/ UpdateApplied \/ UpdateRefused \/ PrepareResync
    \/ StartEvent \/ RegisterOpen \/ FinishEvent
    \/ SnapshotArrives \/ ApplySnapshot \/ HandOver \/ MarkSnapshotReady

-----------------------------------------------------------------------------
(* The snapshot thread: periodic_snapshot and _emit_periodic_snapshot.     *)

NoRow == [book |-> {}, ts |-> 0, seq |-> NoSeq, factors |-> {}, status |-> "INIT"]

TwoSided(b) == b \cap Bids # {} /\ b \cap Asks # {}

Sample(here, next) == /\ spc = here
                      /\ spc' = next
                      /\ UNCHANGED <<exchange, local, thread, openGaps, running, bounds>>

\* Mutant: nothing is sampled while the sequence number has not moved.
SampleIfMoved == /\ Sample("wait", "copy")
                 /\ state = "RUNNING"
                 /\ seq # synced.seq
                 /\ UNCHANGED <<row, synced>>

SampleTick == /\ Sample("wait", "copy")
              /\ state = "RUNNING"
              /\ UNCHANGED <<row, synced>>

\* The levels are copied under the lock.
SampleCopy == /\ TwoSided(book)
              /\ Sample("copy", "ts")
              /\ row' = [row EXCEPT !.book = book]
              /\ UNCHANGED synced

SampleNothing == /\ ~TwoSided(book)
                 /\ Sample("copy", "wait")
                 /\ UNCHANGED <<row, synced>>

\* The fields of the record are read one by one, without the lock.
\* Mutant: the asks are copied in a critical section of their own.
SampleAsks == /\ Sample("ts", "seq")
              /\ row' = [row EXCEPT !.ts = ts,
                                     !.book = (@ \cap Bids) \cup (book \cap Asks)]
              /\ UNCHANGED synced

SampleTs == /\ Sample("ts", "seq")
            /\ row' = [row EXCEPT !.ts = ts]
            /\ UNCHANGED synced

SampleSeq == /\ Sample("seq", "factor")
             /\ row' = [row EXCEPT !.seq = seq]
             /\ UNCHANGED synced

\* full_book takes another copy, for the factors stored under the record's ts.
SampleFactors == /\ Sample("factor", "syncseq")
                 /\ row' = [row EXCEPT !.factors = IF TwoSided(book) THEN book ELSE {}]
                 /\ UNCHANGED synced

SampleSyncSeq == /\ Sample("syncseq", "syncstate")
                 /\ row' = [row EXCEPT !.seq = seq]
                 /\ UNCHANGED synced

SampleSyncState == /\ Sample("syncstate", "put")
                   /\ row' = [row EXCEPT !.status = state]
                   /\ UNCHANGED synced

SamplePut == /\ Sample("put", "wait")
             /\ synced' = [seq |-> row.seq, status |-> row.status]
             /\ row' = NoRow

SnapshotThread ==
    \/ SampleTick \/ SampleCopy \/ SampleNothing \/ SampleTs \/ SampleSeq
    \/ SampleFactors \/ SampleSyncSeq \/ SampleSyncState \/ SamplePut

-----------------------------------------------------------------------------
\* The collector is killed and started again; its tables persist.
Restart == /\ Spend("restart", MaxRestarts)
           /\ up' = FALSE
           /\ wire' = <<>>
           /\ state' = "INIT"
           /\ book' = {}
           /\ seq' = NoSeq
           /\ prev' = NoSeq
           /\ ts' = 0
           /\ resyncs' = 0
           /\ pc' = "idle"
           /\ msg' = 0
           /\ spc' = "wait"
           /\ row' = NoRow
           /\ UNCHANGED <<hist, tables>>

FirstChange == [seq |-> Start, prev |-> NoSeq, book |-> Levels, gone |-> {}, new |-> Levels]

Events == {"reset", "lost", "drop", "restart", "fault"}

Init == /\ hist = <<FirstChange>>
        /\ up = FALSE
        /\ wire = <<>>
        /\ state = "INIT"
        /\ book = {}
        /\ seq = NoSeq
        /\ prev = NoSeq
        /\ ts = 0
        /\ resyncs = 0
        /\ pc = "idle"
        /\ msg = 0
        /\ spc = "wait"
        /\ row = NoRow
        /\ synced = [seq |-> NoSeq, status |-> "INIT"]
        /\ openGaps = 0
        /\ running = 0
        /\ bounds = [e \in Events |-> 0]

Environment == \/ \E l \in Levels : Publish(l) \/ PublishReset(l)
               \/ Lose \/ Drop \/ Restart

Next == Environment \/ Connect \/ WebSocketThread \/ SnapshotThread

Spec == Init /\ [][Next]_vars

\* The two threads keep running and connect retries for ever.
FairSpec == Spec /\ WF_vars(Connect) /\ WF_vars(WebSocketThread) /\ WF_vars(SnapshotThread)

-----------------------------------------------------------------------------
(* Properties.                                                             *)

States == {"INIT", "RUNNING", "GAP_DETECTED", "RESYNCING"}

SeqNos == Nat \cup {NoSeq}

HistOK == /\ hist \in Seq([seq : Nat \ {0}, prev : SeqNos, book : SUBSET Levels,
                           gone : SUBSET Levels, new : SUBSET Levels])
          /\ hist # <<>>

Announced == [action : {"snapshot", "update"}, at : DOMAIN hist]

TypeOK ==
    /\ HistOK
    /\ up \in BOOLEAN
    /\ wire \in Seq(Announced)
    /\ state \in States
    /\ book \in SUBSET Levels
    /\ seq \in SeqNos
    /\ prev \in SeqNos
    /\ ts \in 0 .. Now
    /\ resyncs \in Nat
    /\ pc \in {"idle", "resync", "event", "gap", "finish", "apply", "status", "close"}
    /\ msg \in 0 .. Now
    /\ spc \in {"wait", "copy", "ts", "seq", "factor", "syncseq", "syncstate", "put"}
    /\ row \in [book : SUBSET Levels, ts : 0 .. Now, seq : SeqNos,
                factors : SUBSET Levels, status : States]
    /\ synced \in [seq : SeqNos, status : States]
    /\ openGaps \in Nat
    /\ running \in Nat
    /\ bounds \in [Events -> Nat]

\* The book in use is the exchange's, at the change whose sequence number and
\* time it carries.  apply_update promises it: "True if applied, False if gap
\* detected" (orderbook.py:98).
BookIsMirror == state = "RUNNING" => /\ ts \in DOMAIN hist
                                     /\ seq = hist[ts].seq
                                     /\ book = hist[ts].book

\* The numbers never started again, or nothing was lost on a connection: then
\* the branch for sequence resets accepts no update out of turn.
Trusted == bounds["reset"] = 0 \/ bounds["lost"] = 0

\* As above, as far as it is true of the code.
TrustedBookIsMirror == Trusted => BookIsMirror

\* What the snapshot thread puts together is torn in one direction only: the
\* levels of a record are one book of the exchange, bids and asks of the same
\* change, that is not from after the time the record carries; the sequence
\* number, and the book the factors are computed from, are not from before it
\* (_emit_periodic_snapshot stores all of them under that time).
SampleIsReal == Trusted =>
    /\ spc \in {"seq", "factor"} =>
         \E i \in 1 .. row.ts : hist[i].book = row.book
    /\ spc = "factor" /\ row.seq # NoSeq =>
         \E i \in row.ts .. Now : hist[i].seq = row.seq
    /\ spc = "syncseq" /\ row.factors # {} =>
         \E i \in row.ts .. Now : hist[i].book = row.factors

\* While no transaction fails, a row of data_gaps is open exactly while the
\* handler waits for a snapshot, unless the collector was restarted in
\* between, and no recovery event stays RUNNING.
GapsFollowState ==
    bounds["fault"] = 0 /\ pc = "idle" =>
       /\ state = "RESYNCING" => openGaps > 0
       /\ bounds["restart"] = 0 /\ openGaps > 0 => state = "RESYNCING"
       /\ bounds["restart"] = 0 => running = 0

\* A running book one can trust implements the abstract feed: it moves by one
\* change at a time, or goes blind.
Feed == INSTANCE BookFeed WITH
            books <- [i \in DOMAIN hist |-> hist[i].book],
            live  <- Trusted /\ state = "RUNNING",
            pos   <- IF Trusted THEN ts ELSE 0,
            copy  <- IF Trusted /\ state = "RUNNING" THEN book ELSE {}

ImplementsFeed == Feed!Spec

\* When a lost connection is replaced the book runs again, however the thread
\* had been waiting, provided no snapshot gets lost.
ReconnectHeals == ~up /\ bounds["lost"] = MaxLost ~> state = "RUNNING"

\* A row of the sync state that shows another status than RUNNING, although
\* the book runs, is replaced, unless a side of the book is empty.
SyncCatchesUp ==
    state = "RUNNING" /\ synced.status # "RUNNING"
       ~> synced.status = "RUNNING" \/ state # "RUNNING" \/ ~TwoSided(book)
=============================================================================
