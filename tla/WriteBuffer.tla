---------------------------- MODULE WriteBuffer -----------------------------
(***************************************************************************)
(* The write buffer of the downloaders (_WriteBuffer): threads put rows    *)
(* into an unbounded queue and wait, one writer thread merges what it      *)
(* finds into one transaction and answers the threads of that merge.  A    *)
(* row is the slot of its candle; a table is the set of slots stored per   *)
(* instrument, which is all that ON CONFLICT DO NOTHING leaves to tell.    *)
(***************************************************************************)
EXTENDS Naturals, Sequences, SequencesExt, FiniteSets

CONSTANTS Insts,     \* instruments
          Threads,   \* threads that download candles
          Nobody,    \* in place of a thread that no longer waits
          MergeRows  \* _MAX_BUFFERED_ROWS

ASSUME BufferAssumption == Nobody \notin Threads /\ MergeRows \in Nat \ {0}

VARIABLES candles,  \* the table: instrument -> stored slots
          wq,       \* _queue
          answer    \* what the put of a thread knows: nothing, waiting, or its result

buffer == <<candles, wq, answer>>

BufferTypeOK(slots) ==
    /\ candles \in [Insts -> SUBSET slots]
    /\ wq \in Seq([owner : Threads \cup {Nobody}, inst : Insts, rows : SUBSET slots])
    /\ answer \in [Threads -> {"none", "waiting", "ok", "exc", "timeout"}]

BufferInit ==
    /\ wq = <<>>
    /\ answer = [t \in Threads |-> "none"]

Put(t, i, rows) ==
    /\ wq' = Append(wq, [owner |-> t, inst |-> i, rows |-> rows])
    /\ answer' = [answer EXCEPT ![t] = "waiting"]

NoPut == UNCHANGED <<wq, answer>>

RowCount(items) == FoldSeq(LAMBDA it, n : n + Cardinality(it.rows), 0, items)

\* The writer merges until 0.1 s pass without a new item or the limit is met.
Merges(n) == n \in 1 .. Len(wq) /\ RowCount(SubSeq(wq, 1, n - 1)) < MergeRows

Merged(i, n) == UNION {wq[k].rows : k \in {j \in 1 .. n : wq[j].inst = i}}

Owners(n) == {wq[k].owner : k \in 1 .. n} \ {Nobody}

Answer(n, result) == [t \in Threads |-> IF t \in Owners(n) THEN result ELSE answer[t]]

\* _flush: one transaction for the merged rows, then every waiting thread is told.
Flush(n) ==
    /\ Merges(n)
    /\ candles' = [i \in Insts |-> candles[i] \cup Merged(i, n)]
    /\ answer' = Answer(n, "ok")
    /\ wq' = SubSeq(wq, n + 1, Len(wq))

\* Mutant: the waiting threads are told that all is well whatever happened.
FlushFailsSilently(n) ==
    /\ Merges(n)
    /\ answer' = Answer(n, "ok")
    /\ wq' = SubSeq(wq, n + 1, Len(wq))
    /\ UNCHANGED candles

\* Mutant: nobody is told of a failure.
FlushFailsUnanswered(n) ==
    /\ Merges(n)
    /\ wq' = SubSeq(wq, n + 1, Len(wq))
    /\ UNCHANGED <<candles, answer>>

\* The transaction fails: every thread of the merge gets the exception.
FlushFails(n) ==
    /\ Merges(n)
    /\ answer' = Answer(n, "exc")
    /\ wq' = SubSeq(wq, n + 1, Len(wq))
    /\ UNCHANGED candles

\* put gives up after 300 s; its rows stay in the queue and may still be written.
PutTimesOut(t) ==
    /\ answer[t] = "waiting"
    /\ answer' = [answer EXCEPT ![t] = "timeout"]
    /\ wq' = [k \in DOMAIN wq |->
                IF wq[k].owner = t THEN [wq[k] EXCEPT !.owner = Nobody] ELSE wq[k]]
    /\ UNCHANGED candles
=============================================================================
