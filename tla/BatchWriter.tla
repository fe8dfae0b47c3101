---------------------------- MODULE BatchWriter -----------------------------
(***************************************************************************)
(* A writer of the realtime collector (BaseWriter): producers put records  *)
(* into a bounded queue, one thread takes them in batches, writes each     *)
(* batch with one statement per table, and keeps a batch that failed for   *)
(* another try.  OrderBookWriter and MarketDataWriter differ in how a      *)
(* batch is divided among its tables.  A record is its number in the order *)
(* of the puts, its table and its primary key there; a table maps a key to *)
(* the number of the record that was written last (ON CONFLICT DO UPDATE). *)
(***************************************************************************)
EXTENDS Naturals, Sequences, SequencesExt

CONSTANTS Keys,        \* primary keys
          Cap,         \* MAX_BUFFER_SIZE
          BatchSize,   \* BATCH_SIZE
          MaxRecords,  \* bound: records that are put
          MaxFaults    \* bound: statements that fail without a reason of their own

ASSUME WriterAssumption == /\ {Cap, BatchSize} \subseteq Nat \ {0}
                           /\ {MaxRecords, MaxFaults} \subseteq Nat

\* The tables of each writer; OrderBookWriter writes them in this order.
Tables == [orderbook |-> <<"snapshot", "factor", "sync_state">>,
           market    |-> <<"candles", "mark_prices">>]

VARIABLES writer,      \* which of the two writers this is
          next,        \* number of the next record
          accepted,    \* records for which put returned True
          buffer,      \* _buffer
          pending,     \* _pending
          batch,       \* the local list batch of _run
          stopped,     \* _stopped
          pc,          \* where the thread is
          source,      \* in _flush: where its batch comes from
          flushing,    \* in _flush: its batch
          left,        \* in _flush: the records of the groups still to be written,
                       \* a set, as their numbers give their order
          untagged,    \* records that have lost their "__type"
          table,       \* the database
          stored,      \* records that were part of a committed statement
          faults       \* statements that failed

queues   == <<buffer, pending, batch>>
flush    == <<source, flushing, left>>
database == <<table, stored>>
vars     == <<writer, next, accepted, queues, stopped, pc, flush, untagged, database, faults>>

AllTables == UNION {ToSet(Tables[w]) : w \in DOMAIN Tables}
Record    == [id : 1 .. MaxRecords, table : AllTables, key : Keys]

-----------------------------------------------------------------------------
(* Producers.                                                              *)

\* Mutant: a queue without maxsize.
NoBound == TRUE

Room == Len(buffer) < Cap

\* Two snapshots never have one key, which contains the time they were taken;
\* factors of a book at rest and updates of one candle do.
Put(t, k) ==
    LET r == [id |-> next, table |-> t, key |-> k]
    IN  /\ pc # "gone"
        /\ next <= MaxRecords
        /\ t \in ToSet(Tables[writer])
        /\ t = "snapshot" => \A q \in accepted : <<q.table, q.key>> # <<t, k>>
        /\ Room
        /\ buffer' = Append(buffer, r)
        /\ accepted' = accepted \cup {r}
        /\ next' = next + 1
        /\ UNCHANGED <<writer, pending, batch, stopped, pc, flush, untagged, database, faults>>

\* The queue stayed full for PUT_TIMEOUT.
PutFails == /\ pc # "gone"
            /\ next <= MaxRecords
            /\ Len(buffer) = Cap
            /\ next' = next + 1
            /\ UNCHANGED <<writer, accepted, queues, stopped, pc, flush, untagged, database, faults>>

Stop == /\ ~stopped
        /\ stopped' = TRUE
        /\ UNCHANGED <<writer, next, accepted, queues, pc, flush, untagged, database, faults>>

\* stop gives up waiting and the process ends with its daemon threads.
Exit == /\ stopped
        /\ pc # "gone"
        /\ pc' = "gone"
        /\ UNCHANGED <<writer, next, accepted, queues, stopped, flush, untagged, database, faults>>

-----------------------------------------------------------------------------
(* The writer thread.                                                      *)

\* OrderBookWriter finds a record's table in its tag.
Recognised(s) == {r \in ToSet(s) : writer = "orderbook" => r \notin untagged}

BeginFlush(from, s) == /\ pc' = "flush"
                       /\ source' = from
                       /\ flushing' = s
                       /\ left' = Recognised(s)

Retry == /\ pc = "check"
         /\ ~stopped
         /\ pending # <<>>
         /\ BeginFlush("pending", pending)
         /\ pending' = <<>>
         /\ UNCHANGED <<writer, next, accepted, buffer, batch, stopped, untagged, database, faults>>

\* Mutant: the loop goes on to the buffer whether or not a batch is pending.
GoesOn == TRUE

NonePending == pending = <<>>

Poll == /\ pc = "check"
        /\ ~stopped
        /\ NonePending
        /\ pc' = "get"
        /\ UNCHANGED <<writer, next, accepted, queues, stopped, flush, untagged, database, faults>>

Take == /\ pc = "get"
        /\ buffer # <<>>
        /\ batch' = Append(batch, Head(buffer))
        /\ buffer' = Tail(buffer)
        /\ pc' = "due"
        /\ UNCHANGED <<writer, next, accepted, pending, stopped, flush, untagged, database, faults>>

GetTimesOut == /\ pc = "get"
               /\ buffer = <<>>
               /\ pc' = "due"
               /\ UNCHANGED <<writer, next, accepted, queues, stopped, flush, untagged, database, faults>>

Full == Len(batch) >= BatchSize

\* Mutant: only a full batch is written.
OnlyFull == Full

\* The batch is full, or FLUSH_INTERVAL has passed.
Due == batch # <<>>

FlushBatch == /\ pc = "due"
              /\ Due
              /\ BeginFlush("batch", batch)
              /\ batch' = <<>>
              /\ UNCHANGED <<writer, next, accepted, buffer, pending, stopped, untagged, database, faults>>

NotDue == /\ pc = "due"
          /\ ~Full
          /\ pc' = "check"
          /\ UNCHANGED <<writer, next, accepted, queues, stopped, flush, untagged, database, faults>>

\* After the loop: one last try, for what is not in the buffer.
FinalFlush == /\ pc = "check"
              /\ stopped
              /\ BeginFlush("final", pending \o batch)
              /\ pending' = <<>>
              /\ batch' = <<>>
              /\ UNCHANGED <<writer, next, accepted, buffer, stopped, untagged, database, faults>>

\* The group that _flush writes next: in the order of the tables, or of the
\* first records for them.
NextTable == IF writer = "market"
             THEN (CHOOSE r \in left : \A q \in left : r.id <= q.id).table
             ELSE LET i == CHOOSE i \in DOMAIN Tables[writer] :
                             /\ \E r \in left : r.table = Tables[writer][i]
                             /\ \A j \in 1 .. i - 1 : \A r \in left : r.table # Tables[writer][j]
                  IN  Tables[writer][i]

Group == {r \in left : r.table = NextTable}

\* One statement must not write a key twice (PostgreSQL rejects it);
\* _flush_sync_state keeps the last row of each key.
Rejected == /\ NextTable # "sync_state"
            /\ \E r, q \in Group : r # q /\ r.key = q.key

\* The tags are popped before the statement is executed.
PopTags == untagged' = IF writer = "orderbook" THEN untagged \cup Group ELSE untagged

Rows(k) == {r \in Group : r.key = k}
LastOf(rows) == CHOOSE r \in rows : \A q \in rows : q.id <= r.id

WriteGroup == /\ pc = "flush"
              /\ left # {}
              /\ ~Rejected
              /\ table' = [t \in AllTables |-> [k \in Keys |->
                             IF t = NextTable /\ Rows(k) # {}
                             THEN LastOf(Rows(k)).id ELSE table[t][k]]]
              /\ stored' = stored \cup Group
              /\ left' = left \ Group
              /\ PopTags
              /\ UNCHANGED <<writer, next, accepted, queues, stopped, pc, source, flushing, faults>>

\* Mutant: a batch is tried twice only.
KeepOnce == pending' = IF source = "batch" THEN flushing ELSE pending

\* _run keeps the whole batch, unless this was the last try.
KeepBatch == pending' = IF source = "final" THEN pending ELSE flushing

FlushFails == /\ pc = "flush"
              /\ left # {}
              /\ \/ Rejected /\ UNCHANGED faults
                 \/ faults < MaxFaults /\ faults' = faults + 1
              /\ PopTags
              /\ KeepBatch
              /\ pc' = IF source = "final" THEN "failed" ELSE "check"
              /\ source' = "none"
              /\ flushing' = <<>>
              /\ left' = {}
              /\ UNCHANGED <<writer, next, accepted, buffer, batch, stopped, database>>

FlushEnds == /\ pc = "flush"
             /\ left = {}
             /\ pc' = IF source = "final" THEN "done" ELSE "check"
             /\ source' = "none"
             /\ flushing' = <<>>
             /\ UNCHANGED <<writer, next, accepted, queues, stopped, left, untagged, database, faults>>

Thread == \/ Retry \/ Poll \/ Take \/ GetTimesOut \/ FlushBatch \/ NotDue
          \/ FinalFlush \/ WriteGroup \/ FlushFails \/ FlushEnds

-----------------------------------------------------------------------------
Init == /\ writer \in DOMAIN Tables
        /\ next = 1
        /\ accepted = {}
        /\ buffer = <<>>
        /\ pending = <<>>
        /\ batch = <<>>
        /\ stopped = FALSE
        /\ pc = "check"
        /\ source = "none"
        /\ flushing = <<>>
        /\ left = {}
        /\ untagged = {}
        /\ table = [t \in AllTables |-> [k \in Keys |-> 0]]
        /\ stored = {}
        /\ faults = 0

Next == \/ \E t \in AllTables, k \in Keys : Put(t, k)
        \/ PutFails \/ Stop \/ Exit \/ Thread

Spec == Init /\ [][Next]_vars

\* The thread runs, and FLUSH_INTERVAL passes again and again.
FairSpec == Spec /\ WF_vars(Thread) /\ SF_vars(FlushBatch)

-----------------------------------------------------------------------------
(* Properties.                                                             *)

TypeOK == /\ writer \in DOMAIN Tables
          /\ next \in 1 .. MaxRecords + 1
          /\ accepted \subseteq Record
          /\ {buffer, pending, batch, flushing} \subseteq Seq(Record)
          /\ Len(buffer) <= Cap
          /\ left \subseteq ToSet(flushing)
          /\ stopped \in BOOLEAN
          /\ pc \in {"check", "get", "due", "flush", "done", "failed", "gone"}
          /\ source \in {"none", "batch", "pending", "final"}
          /\ untagged \subseteq accepted
          /\ table \in [AllTables -> [Keys -> 0 .. MaxRecords]]
          /\ stored \subseteq accepted
          /\ faults \in 0 .. MaxFaults

Held == ToSet(buffer) \cup ToSet(pending) \cup ToSet(batch) \cup ToSet(flushing)

\* "A batch that fails is tried again after a backoff, nothing is lost
\* silently" (writer.py:27): while the thread runs, a record for which put
\* returned True is stored, or on its way.
NothingLost == pc \notin {"done", "failed", "gone"} => accepted \subseteq stored \cup Held

\* As far as it is true of the code: a record can only be lost once its tag
\* has been popped, in the last try, or by the end of the process.
Kept == pc \notin {"failed", "gone"} => accepted \ untagged \subseteq stored \cup Held

\* What a retry writes again, and what it writes late, never replaces a newer
\* record of the same key.
NeverBackwards ==
    [][\A t \in AllTables, k \in Keys : table'[t][k] >= table[t][k]]_vars

\* Two rows of one key in one batch, for a table that does not allow it: such
\* a batch is tried again for ever.
Poisoned == \E i, j \in DOMAIN (pending \o flushing) :
               LET a == (pending \o flushing)[i]
                   b == (pending \o flushing)[j]
               IN  i # j /\ a.table = b.table /\ a.key = b.key /\ a.table # "sync_state"

\* An accepted record is stored at last, unless the writer is stopped, the
\* record loses its tag or a batch is poisoned.
Delivered == \A i \in 1 .. MaxRecords :
    (\E r \in accepted : r.id = i)
       ~> \/ \E r \in stored \cup untagged : r.id = i
          \/ stopped \/ Poisoned
=============================================================================
