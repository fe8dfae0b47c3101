------------------------- MODULE BatchWriter_proofs -------------------------
(***************************************************************************)
(* Proofs about BatchWriter, for either writer and any keys, queue and      *)
(* batch sizes, numbers of records and of failing statements.               *)
(***************************************************************************)
EXTENDS BatchWriter, WellFoundedInduction, TLAPS

USE WriterAssumption DEF WriterAssumption

-----------------------------------------------------------------------------
(* The inductive invariant.                                                *)

\* A record is in one place at a time, until the process ends.
Placed == /\ Held \subseteq accepted
          /\ pending # <<>> => batch = <<>>
          /\ pc \in {"get", "due"} => pending = <<>>
          /\ pc = "flush" => pending = <<>> /\ batch = <<>>
          /\ pc \in {"check", "get", "due"} => flushing = <<>>
          /\ pc \in {"check", "get", "due"} => left = {}

\* The queue keeps the order of the puts, and what left it is older than all
\* that is in it.
Ordered == /\ \A r \in accepted : r.id < next
           /\ \A i, j \in DOMAIN buffer : i < j => buffer[i].id < buffer[j].id
           /\ \A r \in ToSet(pending) \cup ToSet(batch) \cup ToSet(flushing) :
                 \A q \in ToSet(buffer) : r.id < q.id
           /\ \A r \in stored : \A q \in ToSet(buffer) \cup ToSet(batch) : r.id < q.id

\* What has been tried before ends with what is in the table, or after it: of
\* the rows that share a key, the last one is not older than the table's.
NotOlder(rows) == \A r \in rows : \E q \in rows : /\ q.table = r.table /\ q.key = r.key
                                                  /\ table[r.table][r.key] <= q.id

Backed == /\ \A t \in AllTables, k \in Keys :
                table[t][k] = 0 \/ \E r \in stored : r.id = table[t][k]
          /\ NotOlder(Recognised(pending))
          /\ NotOlder(Recognised(flushing))
          /\ NotOlder(left)

\* A flush has written what it recognised, or will.
Written == pc = "flush" => /\ Recognised(flushing) \subseteq stored \cup left
                           /\ left \subseteq Recognised(flushing)
                           /\ writer = "orderbook" => left = Recognised(flushing)

IInv == TypeOK /\ Placed /\ Ordered /\ Backed /\ Written /\ Kept

-----------------------------------------------------------------------------
(* Sequences as sets, and the last of some rows.                            *)

LEMMA AppendSet ==
    ASSUME NEW s \in Seq(Record), NEW r \in Record
    PROVE  /\ Append(s, r) \in Seq(Record)
           /\ Len(Append(s, r)) = Len(s) + 1
           /\ ToSet(Append(s, r)) = ToSet(s) \cup {r}
<1> DEFINE a == Append(s, r)
<1>1. /\ a \in Seq(Record) /\ Len(a) = Len(s) + 1
      /\ DOMAIN a = 1 .. Len(s) + 1 /\ DOMAIN s = 1 .. Len(s) /\ Len(s) \in Nat
      /\ \A i \in 1 .. Len(s) : a[i] = s[i]
      /\ a[Len(s) + 1] = r
  OBVIOUS
<1>2. \A i \in DOMAIN a : i \in DOMAIN s \/ i = Len(s) + 1
  BY <1>1
<1>3. DOMAIN s \subseteq DOMAIN a /\ Len(s) + 1 \in DOMAIN a
  BY <1>1
<1> HIDE DEF a
<1>4. ToSet(a) = ToSet(s) \cup {r}
  BY <1>1, <1>2, <1>3 DEF ToSet
<1> QED BY <1>1, <1>4 DEF a

LEMMA TailSet ==
    ASSUME NEW s \in Seq(Record), s # <<>>
    PROVE  /\ Head(s) \in Record
           /\ Tail(s) \in Seq(Record)
           /\ Len(Tail(s)) < Len(s)
           /\ ToSet(s) = {Head(s)} \cup ToSet(Tail(s))
<1>1. /\ Len(s) \in Nat \ {0} /\ Head(s) = s[1] /\ Head(s) \in Record
      /\ DOMAIN s = 1 .. Len(s)
  OBVIOUS
<1>2. /\ Tail(s) \in Seq(Record) /\ DOMAIN Tail(s) = 1 .. Len(s) - 1
      /\ Len(Tail(s)) = Len(s) - 1
      /\ \A i \in DOMAIN Tail(s) : Tail(s)[i] = s[i + 1]
  BY <1>1
<1>3. \A i \in DOMAIN s : i = 1 \/ (i - 1 \in DOMAIN Tail(s) /\ s[i] = Tail(s)[i - 1])
  BY <1>1, <1>2
<1>4. \A i \in DOMAIN Tail(s) : i + 1 \in DOMAIN s
  BY <1>1, <1>2
<1>5. 1 \in DOMAIN s
  BY <1>1
<1>6. ToSet(s) \subseteq {Head(s)} \cup ToSet(Tail(s))
  <2> SUFFICES ASSUME NEW x \in ToSet(s) PROVE x \in {Head(s)} \cup ToSet(Tail(s))
    OBVIOUS
  <2>1. PICK i \in DOMAIN s : x = s[i]
    BY DEF ToSet
  <2>2. CASE i = 1
    BY <1>1, <2>1, <2>2
  <2>3. CASE i # 1
    BY <1>3, <2>1, <2>3 DEF ToSet
  <2> QED BY <2>2, <2>3
<1>7. {Head(s)} \cup ToSet(Tail(s)) \subseteq ToSet(s)
  BY <1>1, <1>2, <1>4, <1>5 DEF ToSet
<1> QED BY <1>1, <1>2, <1>6, <1>7

LEMMA EmptySet == ToSet(<<>>) = {}
BY DEF ToSet

LEMMA ConcatSet ==
    ASSUME NEW s \in Seq(Record), NEW t \in Seq(Record)
    PROVE  /\ s \o t \in Seq(Record)
           /\ ToSet(s \o t) = ToSet(s) \cup ToSet(t)
<1>1. /\ s \o t \in Seq(Record) /\ DOMAIN (s \o t) = 1 .. Len(s) + Len(t)
      /\ DOMAIN s = 1 .. Len(s) /\ DOMAIN t = 1 .. Len(t)
      /\ Len(s) \in Nat /\ Len(t) \in Nat
      /\ \A i \in 1 .. Len(s) : (s \o t)[i] = s[i]
      /\ \A i \in 1 .. Len(t) : (s \o t)[Len(s) + i] = t[i]
  OBVIOUS
<1>2. \A i \in DOMAIN (s \o t) : \/ i \in DOMAIN s
                                \/ (i - Len(s) \in DOMAIN t /\ i = Len(s) + (i - Len(s)))
  BY <1>1
<1>3. ToSet(s \o t) \subseteq ToSet(s) \cup ToSet(t)
  BY <1>1, <1>2 DEF ToSet
<1>4. \A i \in DOMAIN s : i \in DOMAIN (s \o t)
  BY <1>1
<1>5. \A i \in DOMAIN t : Len(s) + i \in DOMAIN (s \o t)
  BY <1>1
<1>6. ToSet(s) \cup ToSet(t) \subseteq ToSet(s \o t)
  BY <1>1, <1>4, <1>5 DEF ToSet
<1> QED BY <1>1, <1>3, <1>6

LEMMA SetOfRecords ==
    ASSUME NEW s \in Seq(Record)
    PROVE  ToSet(s) \subseteq Record
BY DEF ToSet

\* One of the rows has the greatest number.
LEMMA LastRow ==
    ASSUME NEW rows \in SUBSET Record, rows # {}
    PROVE  /\ LastOf(rows) \in rows
           /\ \A q \in rows : q.id <= LastOf(rows).id
<1> DEFINE T == {MaxRecords - r.id : r \in rows}
<1>1. T \subseteq Nat /\ T # {}
  BY DEF Record
<1>2. \E x \in T : \A y \in T : ~ (<<y, x>> \in OpToRel(<, Nat))
  <2> HIDE DEF T
  <2> QED BY <1>1, WFMin, NatLessThanWellFounded
<1>3. PICK x \in T : \A y \in T : ~ (y < x)
  BY <1>1, <1>2 DEF OpToRel
<1>4. PICK r \in rows : x = MaxRecords - r.id
  OBVIOUS
<1>5. \A q \in rows : q.id <= r.id
  <2> TAKE q \in rows
  <2>1. MaxRecords - q.id \in T /\ MaxRecords - q.id >= MaxRecords - r.id
    BY <1>1, <1>3, <1>4
  <2> QED BY <2>1 DEF Record
<1> QED BY <1>5 DEF LastOf

-----------------------------------------------------------------------------
(* Steps of the producers and of the process.                              *)

LEMMA BackedFrame ==
    ASSUME IInv, UNCHANGED <<writer, pending, flushing, left, untagged, table, stored>>
    PROVE  Backed'
BY DEF IInv, Backed, NotOlder, Recognised

LEMMA OrderedFrame ==
    ASSUME IInv, UNCHANGED <<accepted, buffer, pending, batch, flushing, stored>>,
           next' \in Nat, next' >= next
    PROVE  Ordered'
<1>1. \A r \in accepted : r.id \in Nat
  BY DEF IInv, TypeOK, Record
<1>2. next \in Nat
  BY DEF IInv, TypeOK
<1>3. \A r \in accepted : r.id < next'
  BY <1>1, <1>2 DEF IInv, Ordered
<1> QED BY <1>3 DEF IInv, Ordered

LEMMA PutFailsStep == IInv /\ PutFails => IInv'
<1> SUFFICES ASSUME IInv, PutFails PROVE IInv'
  OBVIOUS
<1> USE DEF PutFails, queues, flush, database
<1>1. next \in 1 .. MaxRecords + 1 /\ next <= MaxRecords
  BY DEF IInv, TypeOK
<1>2. TypeOK'
  BY <1>1 DEF IInv, TypeOK
<1>3. Placed'
  BY DEF IInv, Placed, Held
<1>4. Ordered'
  BY <1>1, OrderedFrame
<1>5. Backed'
  BY BackedFrame
<1>6. Written'
  BY DEF IInv, Written, Recognised
<1>7. Kept'
  BY DEF IInv, Kept, Held
<1> QED BY <1>2, <1>3, <1>4, <1>5, <1>6, <1>7 DEF IInv

LEMMA StopStep == IInv /\ Stop => IInv'
<1> SUFFICES ASSUME IInv, Stop PROVE IInv'
  OBVIOUS
<1> USE DEF Stop, queues, flush, database
<1>2. TypeOK'
  BY DEF IInv, TypeOK
<1>3. Placed'
  BY DEF IInv, Placed, Held
<1>4. Ordered'
  BY DEF IInv, Ordered
<1>5. Backed'
  BY BackedFrame
<1>6. Written'
  BY DEF IInv, Written, Recognised
<1>7. Kept'
  BY DEF IInv, Kept, Held
<1> QED BY <1>2, <1>3, <1>4, <1>5, <1>6, <1>7 DEF IInv

LEMMA ExitStep == IInv /\ Exit => IInv'
<1> SUFFICES ASSUME IInv, Exit PROVE IInv'
  OBVIOUS
<1> USE DEF Exit, queues, flush, database
<1>2. TypeOK'
  BY DEF IInv, TypeOK
<1>3. Placed'
  BY DEF IInv, Placed, Held
<1>4. Ordered'
  BY DEF IInv, Ordered
<1>5. Backed'
  BY BackedFrame
<1>6. Written'
  BY DEF Written
<1>7. Kept'
  BY DEF Kept
<1> QED BY <1>2, <1>3, <1>4, <1>5, <1>6, <1>7 DEF IInv

\* The new record is younger than all others, and is held in the queue.
LEMMA PutStep ==
    ASSUME IInv, NEW t \in AllTables, NEW k \in Keys, Put(t, k)
    PROVE  IInv'
<1> DEFINE r == [id |-> next, table |-> t, key |-> k]
<1>1. /\ next \in 1 .. MaxRecords /\ Len(buffer) < Cap /\ pc # "gone"
      /\ buffer' = Append(buffer, r) /\ accepted' = accepted \cup {r} /\ next' = next + 1
      /\ UNCHANGED <<writer, pending, batch, stopped, pc, source, flushing, left,
                     untagged, table, stored, faults>>
  BY DEF Put, Room, queues, flush, database, IInv, TypeOK
<1>2. r \in Record /\ r.id = next
  BY <1>1 DEF Record
<1>3. buffer \in Seq(Record)
  BY DEF IInv, TypeOK
<1> HIDE DEF r
<1>4. /\ buffer' \in Seq(Record) /\ Len(buffer') = Len(buffer) + 1
      /\ ToSet(buffer') = ToSet(buffer) \cup {r}
  BY <1>1, <1>2, <1>3, AppendSet
<1>5. TypeOK'
  <2>1. Len(buffer') <= Cap
    BY <1>1, <1>3, <1>4
  <2> QED BY <1>1, <1>2, <1>4, <2>1 DEF IInv, TypeOK
<1>6. Placed'
  BY <1>1, <1>4 DEF IInv, Placed, Held
<1>7. Ordered'
  <2>1. \A q \in accepted : q.id \in Nat /\ q.id < next
    BY DEF IInv, TypeOK, Ordered, Record
  <2>2. \A q \in accepted' : q.id < next'
    BY <1>1, <1>2, <2>1
  <2>3. \A i, j \in DOMAIN buffer' : i < j => buffer'[i].id < buffer'[j].id
    <3>1. \A i \in DOMAIN buffer : buffer[i] \in accepted
      BY DEF IInv, Placed, Held, ToSet
    <3>2. /\ DOMAIN buffer = 1 .. Len(buffer) /\ DOMAIN buffer' = 1 .. Len(buffer) + 1
          /\ \A i \in DOMAIN buffer : buffer'[i] = buffer[i]
          /\ buffer'[Len(buffer) + 1] = r /\ Len(buffer) \in Nat
      BY <1>1, <1>2, <1>3
    <3> QED BY <1>2, <2>1, <3>1, <3>2 DEF IInv, Ordered
  <2>4. /\ ToSet(pending) \cup ToSet(batch) \cup ToSet(flushing) \subseteq accepted
        /\ stored \subseteq accepted
    BY DEF IInv, TypeOK, Placed, Held
  <2> QED BY <1>1, <1>2, <1>4, <2>1, <2>2, <2>3, <2>4 DEF IInv, Ordered
<1>8. Backed'
  BY <1>1, BackedFrame
<1>9. Written'
  BY <1>1 DEF IInv, Written, Recognised
<1>10. Kept'
  BY <1>1, <1>4 DEF IInv, Kept, Held
<1> QED BY <1>5, <1>6, <1>7, <1>8, <1>9, <1>10 DEF IInv

-----------------------------------------------------------------------------
(* Steps of the thread.                                                    *)

LEMMA ThreadFrame ==
    ASSUME IInv, NEW where \in {"check", "get", "due"}, pc \in {"check", "get", "due"},
           where \in {"get", "due"} => pending = <<>>,
           pc' = where,
           UNCHANGED <<writer, next, accepted, queues, stopped, flush, untagged, database, faults>>
    PROVE  IInv'
<1> USE DEF queues, flush, database
<1>1. TypeOK'
  BY DEF IInv, TypeOK
<1>2. Placed'
  BY DEF IInv, Placed, Held
<1>3. Ordered'
  BY DEF IInv, Ordered
<1>4. Backed'
  BY BackedFrame
<1>5. Written'
  BY DEF Written
<1>6. Kept'
  BY DEF IInv, Kept, Held
<1> QED BY <1>1, <1>2, <1>3, <1>4, <1>5, <1>6 DEF IInv

LEMMA IdleStep == IInv /\ (Poll \/ GetTimesOut \/ NotDue) => IInv'
<1>1. IInv /\ Poll => IInv'
  BY ThreadFrame DEF Poll, NonePending
<1>2. IInv /\ GetTimesOut => IInv'
  BY ThreadFrame DEF GetTimesOut, IInv, Placed
<1>3. IInv /\ NotDue => IInv'
  BY ThreadFrame DEF NotDue, IInv, Placed
<1> QED BY <1>1, <1>2, <1>3

\* The oldest record of the queue becomes the youngest of the batch.
LEMMA TakeStep == IInv /\ Take => IInv'
<1> SUFFICES ASSUME IInv, Take PROVE IInv'
  OBVIOUS
<1> DEFINE h == Head(buffer)
<1>1. /\ pc = "get" /\ buffer # <<>> /\ pc' = "due"
      /\ batch' = Append(batch, h) /\ buffer' = Tail(buffer)
      /\ UNCHANGED <<writer, next, accepted, pending, stopped, source, flushing, left,
                     untagged, table, stored, faults>>
  BY DEF Take, flush, database
<1>2. /\ buffer \in Seq(Record) /\ batch \in Seq(Record) /\ Len(buffer) <= Cap
      /\ Cap \in Nat
  BY DEF IInv, TypeOK
<1>3. /\ h \in Record /\ buffer' \in Seq(Record) /\ Len(buffer') < Len(buffer)
      /\ ToSet(buffer) = {h} \cup ToSet(buffer')
  BY <1>1, <1>2, TailSet
<1>4. \A q \in ToSet(buffer') : h.id < q.id
  <2>1. /\ DOMAIN buffer = 1 .. Len(buffer) /\ Len(buffer) \in Nat \ {0}
        /\ h = buffer[1]
        /\ DOMAIN Tail(buffer) = 1 .. Len(buffer) - 1
        /\ \A i \in DOMAIN Tail(buffer) : Tail(buffer)[i] = buffer[i + 1]
    BY <1>1, <1>2
  <2>2. \A i \in DOMAIN buffer' : buffer'[i] = buffer[i + 1] /\ 1 \in DOMAIN buffer
                                   /\ i + 1 \in DOMAIN buffer /\ 1 < i + 1
    BY <1>1, <2>1
  <2>3. \A i \in DOMAIN buffer' : h.id < buffer'[i].id
    BY <2>1, <2>2 DEF IInv, Ordered
  <2> QED BY <2>3 DEF ToSet
<1>5. \A i, j \in DOMAIN buffer' : i < j => buffer'[i].id < buffer'[j].id
  <2>1. /\ DOMAIN buffer = 1 .. Len(buffer) /\ Len(buffer) \in Nat \ {0}
        /\ DOMAIN buffer' = 1 .. Len(buffer) - 1
        /\ \A i \in DOMAIN buffer' : buffer'[i] = buffer[i + 1]
    BY <1>1, <1>2
  <2>2. \A i, j \in DOMAIN buffer' : i < j => /\ i + 1 \in DOMAIN buffer
                                               /\ j + 1 \in DOMAIN buffer
                                               /\ i + 1 < j + 1
    BY <2>1
  <2> QED BY <2>1, <2>2 DEF IInv, Ordered
<1>6. /\ batch' \in Seq(Record) /\ ToSet(batch') = ToSet(batch) \cup {h}
  BY <1>1, <1>2, <1>3, AppendSet
<1> HIDE DEF h
<1>7. TypeOK'
  <2>1. Len(buffer') <= Cap
    BY <1>2, <1>3
  <2> QED BY <1>1, <1>3, <1>6, <2>1 DEF IInv, TypeOK
<1>8. Placed'
  BY <1>1, <1>3, <1>6 DEF IInv, Placed, Held
<1>9. Ordered'
  BY <1>1, <1>3, <1>4, <1>5, <1>6 DEF IInv, Ordered
<1>10. Backed'
  BY <1>1, BackedFrame
<1>11. Written'
  BY <1>1 DEF Written
<1>12. Kept'
  BY <1>1, <1>3, <1>6 DEF IInv, Kept, Held
<1> QED BY <1>7, <1>8, <1>9, <1>10, <1>11, <1>12 DEF IInv

\* A flush begins with all that is not in the queue.
LEMMA BeginStep ==
    ASSUME IInv, pc \in {"check", "due"},
           NEW s \in Seq(Record), ToSet(s) = ToSet(pending) \cup ToSet(batch),
           NEW from \in {"batch", "pending", "final"}, BeginFlush(from, s),
           pending' = <<>>, batch' = <<>>,
           UNCHANGED <<writer, next, accepted, buffer, stopped, untagged, database, faults>>
    PROVE  IInv'
<1> USE EmptySet DEF BeginFlush, database
<1>1. TypeOK'
  <2>1. left' \subseteq ToSet(flushing')
    BY DEF Recognised
  <2>2. {buffer', pending', batch', flushing'} \subseteq Seq(Record)
    BY DEF IInv, TypeOK
  <2> QED BY <2>1, <2>2 DEF IInv, TypeOK
<1>2. Placed'
  BY DEF IInv, Placed, Held
<1>3. Ordered'
  BY DEF IInv, Ordered
<1>4. Backed'
  <2>1. Recognised(pending') = {} /\ Recognised(pending)' = {}
    BY DEF Recognised
  <2>2. NotOlder(Recognised(s))
    <3> SUFFICES ASSUME NEW r \in Recognised(s)
                 PROVE  \E q \in Recognised(s) : /\ q.table = r.table /\ q.key = r.key
                                                 /\ table[r.table][r.key] <= q.id
      BY DEF NotOlder
    <3>1. CASE r \in ToSet(pending)
      <4>1. PICK q \in Recognised(pending) : /\ q.table = r.table /\ q.key = r.key
                                             /\ table[r.table][r.key] <= q.id
        BY <3>1 DEF IInv, Backed, NotOlder, Recognised
      <4> QED BY <4>1 DEF Recognised
    <3>2. CASE r \in ToSet(batch)
      <4>1. r \in Record
        BY <3>2, SetOfRecords DEF IInv, TypeOK
      <4>2. r.table \in AllTables /\ r.key \in Keys /\ r.id \in Nat
        BY <4>1 DEF Record
      <4>3. table[r.table][r.key] <= r.id
        <5>1. CASE table[r.table][r.key] = 0
          BY <4>2, <5>1
        <5>2. CASE \E p \in stored : p.id = table[r.table][r.key]
          <6>1. PICK p \in stored : p.id = table[r.table][r.key]
            BY <5>2
          <6>2. p.id < r.id /\ p.id \in Nat
            BY <3>2 DEF IInv, Ordered, TypeOK, Record
          <6> QED BY <4>2, <6>1, <6>2
        <5> QED BY <4>2, <5>1, <5>2 DEF IInv, Backed
      <4> QED BY <4>3
    <3> QED BY <3>1, <3>2 DEF Recognised
  <2>3. Recognised(flushing)' = Recognised(s) /\ left' = Recognised(s)
    BY DEF Recognised
  <2>4. NotOlder(Recognised(s))' = NotOlder(Recognised(s))
    BY DEF NotOlder, Recognised
  <2>5. NotOlder(Recognised(pending))' /\ NotOlder(Recognised(flushing))' /\ NotOlder(left)'
    BY <2>1, <2>2, <2>3 DEF NotOlder
  <2> QED BY <2>5 DEF IInv, Backed
<1>5. Written'
  BY DEF Written, Recognised
<1>6. Kept'
  BY DEF IInv, Kept, Held, Placed
<1> QED BY <1>1, <1>2, <1>3, <1>4, <1>5, <1>6 DEF IInv

LEMMA BeginSteps == IInv /\ (Retry \/ FlushBatch \/ FinalFlush) => IInv'
<1> USE EmptySet
<1>1. IInv => pending \in Seq(Record) /\ batch \in Seq(Record)
  BY DEF IInv, TypeOK
<1>2. IInv /\ Retry => IInv'
  BY <1>1, BeginStep DEF Retry, IInv, Placed
<1>3. IInv /\ FlushBatch => IInv'
  BY <1>1, BeginStep DEF FlushBatch, IInv, Placed
<1>4. IInv /\ FinalFlush => IInv'
  BY <1>1, BeginStep, ConcatSet DEF FinalFlush
<1> QED BY <1>2, <1>3, <1>4

\* Whose tags are popped: all the records of the group that were recognised.
LEMMA TagsPopped ==
    ASSUME IInv, pc = "flush", PopTags, UNCHANGED writer
    PROVE  /\ Group \subseteq left
           /\ left \subseteq ToSet(flushing)
           /\ left \subseteq accepted
           /\ untagged' \subseteq accepted
           /\ {r \in ToSet(flushing) : writer = "orderbook" => r \notin untagged'}
                = IF writer = "orderbook" THEN left \ Group ELSE ToSet(flushing)
BY DEF PopTags, Group, IInv, TypeOK, Placed, Held, Written, Recognised

\* A statement replaces the rows of its group, each by the last of its records.
LEMMA TableWritten ==
    ASSUME IInv, WriteGroup, NEW t \in AllTables, NEW k \in Keys
    PROVE  /\ table[t][k] \in 0 .. MaxRecords
           /\ t = NextTable /\ Rows(k) # {} =>
                 /\ LastOf(Rows(k)) \in Rows(k)
                 /\ table'[t][k] = LastOf(Rows(k)).id
                 /\ table'[t][k] \in 1 .. MaxRecords
                 /\ table[t][k] <= table'[t][k]
           /\ ~ (t = NextTable /\ Rows(k) # {}) => table'[t][k] = table[t][k]
<1>1. table[t][k] \in 0 .. MaxRecords
  BY DEF IInv, TypeOK
<1>2. table'[t][k] = IF t = NextTable /\ Rows(k) # {} THEN LastOf(Rows(k)).id ELSE table[t][k]
  BY DEF WriteGroup
<1>3. ASSUME t = NextTable, Rows(k) # {}
      PROVE  /\ LastOf(Rows(k)) \in Rows(k)
             /\ LastOf(Rows(k)).id \in 1 .. MaxRecords
             /\ table[t][k] <= LastOf(Rows(k)).id
  <2>1. left \subseteq Record
    <3>1. flushing \in Seq(Record) /\ left \subseteq ToSet(flushing)
      BY DEF IInv, TypeOK
    <3> QED BY <3>1, SetOfRecords
  <2>2. Rows(k) \subseteq Record
    BY <2>1 DEF Rows, Group
  <2>3. /\ LastOf(Rows(k)) \in Rows(k)
        /\ \A q \in Rows(k) : q.id <= LastOf(Rows(k)).id
    BY <1>3, <2>2, LastRow
  <2>4. PICK r \in Rows(k) : r \in left /\ r.table = t /\ r.key = k
    BY <1>3 DEF Rows, Group
  <2>5. PICK q \in left : q.table = t /\ q.key = k /\ table[t][k] <= q.id
    BY <2>4 DEF IInv, Backed, NotOlder
  <2>6. q \in Rows(k)
    BY <1>3, <2>5 DEF Rows, Group
  <2>7. q.id \in 1 .. MaxRecords /\ LastOf(Rows(k)).id \in 1 .. MaxRecords
    BY <2>2, <2>3, <2>6 DEF Record
  <2>8. q.id <= LastOf(Rows(k)).id
    BY <2>3, <2>6
  <2>9. table[t][k] <= LastOf(Rows(k)).id
    BY <1>1, <2>5, <2>7, <2>8
  <2> QED BY <2>3, <2>7, <2>9
<1> QED BY <1>1, <1>2, <1>3

LEMMA WriteStep == IInv /\ WriteGroup => IInv'
<1> SUFFICES ASSUME IInv, WriteGroup PROVE IInv'
  OBVIOUS
<1>1. /\ pc = "flush" /\ PopTags
      /\ stored' = stored \cup Group /\ left' = left \ Group
      /\ UNCHANGED <<writer, next, accepted, buffer, pending, batch, stopped, pc, source,
                     flushing, faults>>
  BY DEF WriteGroup, queues
<1>2. pending = <<>> /\ batch = <<>>
  BY <1>1 DEF IInv, Placed
<1>3. /\ Group \subseteq left /\ left \subseteq ToSet(flushing) /\ left \subseteq accepted
      /\ untagged' \subseteq accepted
  BY <1>1, TagsPopped
<1>4. Recognised(flushing)' = IF writer = "orderbook" THEN left \ Group ELSE ToSet(flushing)
  BY <1>1, TagsPopped DEF Recognised
<1>5. TypeOK'
  <2>1. table' \in [AllTables -> [Keys -> 0 .. MaxRecords]]
    <3>1. \A t \in AllTables, k \in Keys : table'[t][k] \in 0 .. MaxRecords
      BY TableWritten
    <3>2. table' = [t \in AllTables |-> [k \in Keys |-> table'[t][k]]]
      BY DEF WriteGroup
    <3> QED BY <3>1, <3>2
  <2>2. stored' \subseteq accepted' /\ left' \subseteq ToSet(flushing')
    BY <1>1, <1>3 DEF IInv, TypeOK
  <2> QED BY <1>1, <1>3, <2>1, <2>2 DEF IInv, TypeOK
<1>6. Placed'
  BY <1>1 DEF IInv, Placed, Held
<1>7. Ordered'
  <2>1. \A r \in Group : \A q \in ToSet(buffer) \cup ToSet(batch) : r.id < q.id
    BY <1>2, <1>3, EmptySet DEF IInv, Ordered
  <2> QED BY <1>1, <2>1 DEF IInv, Ordered
<1>8. Backed'
  <2>1. \A t \in AllTables, k \in Keys :
           table'[t][k] = 0 \/ \E r \in stored' : r.id = table'[t][k]
    <3> TAKE t \in AllTables, k \in Keys
    <3>1. CASE t = NextTable /\ Rows(k) # {}
      BY <1>1, <3>1, TableWritten DEF Rows
    <3>2. CASE ~ (t = NextTable /\ Rows(k) # {})
      BY <1>1, <3>2, TableWritten DEF IInv, Backed
    <3> QED BY <3>1, <3>2
  <2>2. NotOlder(Recognised(pending))'
    BY <1>1, <1>2, EmptySet DEF NotOlder, Recognised
  <2>3. left \subseteq Record /\ ToSet(flushing) \subseteq Record
    BY <1>3, SetOfRecords DEF IInv, TypeOK
  <2>4. NotOlder(left)'
    <3> SUFFICES ASSUME NEW r \in left \ Group
                 PROVE  \E q \in left \ Group : /\ q.table = r.table /\ q.key = r.key
                                                 /\ table'[r.table][r.key] <= q.id
      BY <1>1 DEF NotOlder
    <3>1. r.table # NextTable /\ r.table \in AllTables /\ r.key \in Keys
      BY <2>3 DEF Group, Record
    <3>2. PICK q \in left : /\ q.table = r.table /\ q.key = r.key
                            /\ table[r.table][r.key] <= q.id
      BY DEF IInv, Backed, NotOlder
    <3>3. q \notin Group
      BY <3>1, <3>2 DEF Group
    <3>4. table'[r.table][r.key] = table[r.table][r.key]
      BY <3>1, TableWritten
    <3> QED BY <3>2, <3>3, <3>4
  <2>5. NotOlder(Recognised(flushing))'
    <3>1. CASE writer = "orderbook"
      BY <1>1, <1>4, <2>4, <3>1 DEF NotOlder
    <3>2. CASE writer # "orderbook"
      <4>1. Recognised(flushing) = ToSet(flushing) /\ Recognised(flushing)' = ToSet(flushing)
        BY <1>4, <3>2 DEF Recognised
      <4> SUFFICES ASSUME NEW r \in ToSet(flushing)
                   PROVE  \E q \in ToSet(flushing) : /\ q.table = r.table /\ q.key = r.key
                                                     /\ table'[r.table][r.key] <= q.id
        BY <4>1 DEF NotOlder
      <4>2. r.table \in AllTables /\ r.key \in Keys
        BY <2>3 DEF Record
      <4>3. CASE r.table = NextTable /\ Rows(r.key) # {}
        <5> DEFINE q == LastOf(Rows(r.key))
        <5>1. q \in Rows(r.key) /\ table'[r.table][r.key] = q.id /\ q.id \in 1 .. MaxRecords
          BY <4>2, <4>3, TableWritten
        <5> HIDE DEF q
        <5>2. q \in ToSet(flushing) /\ q.table = r.table /\ q.key = r.key
          BY <1>3, <4>3, <5>1 DEF Rows, Group
        <5>3. table'[r.table][r.key] <= q.id
          BY <5>1
        <5> QED BY <5>2, <5>3
      <4>4. CASE ~ (r.table = NextTable /\ Rows(r.key) # {})
        <5>1. PICK q \in ToSet(flushing) : /\ q.table = r.table /\ q.key = r.key
                                           /\ table[r.table][r.key] <= q.id
          BY <4>1 DEF IInv, Backed, NotOlder
        <5>2. table'[r.table][r.key] = table[r.table][r.key]
          BY <4>2, <4>4, TableWritten
        <5> QED BY <5>1, <5>2
      <4> QED BY <4>3, <4>4
    <3> QED BY <3>1, <3>2
  <2> QED BY <2>1, <2>2, <2>4, <2>5 DEF Backed
<1>9. Written'
  <2>1. Recognised(flushing) \subseteq stored \cup left /\ left \subseteq Recognised(flushing)
    BY <1>1 DEF IInv, Written
  <2>2. CASE writer = "orderbook"
    BY <1>1, <1>4, <2>2 DEF Written
  <2>3. CASE writer # "orderbook"
    <3>1. Recognised(flushing) = ToSet(flushing)
      BY <2>3 DEF Recognised
    <3> QED BY <1>1, <1>4, <2>1, <2>3, <3>1 DEF Written
  <2> QED BY <2>2, <2>3
<1>10. Kept'
  <2>1. untagged \subseteq untagged'
    BY <1>1 DEF PopTags
  <2> QED BY <1>1, <2>1 DEF IInv, Kept, Held
<1> QED BY <1>5, <1>6, <1>7, <1>8, <1>9, <1>10 DEF IInv

LEMMA FailStep == IInv /\ FlushFails => IInv'
<1> SUFFICES ASSUME IInv, FlushFails PROVE IInv'
  OBVIOUS
<1>1. /\ pc = "flush" /\ PopTags /\ KeepBatch
      /\ pc' = IF source = "final" THEN "failed" ELSE "check"
      /\ source' = "none" /\ flushing' = <<>> /\ left' = {}
      /\ UNCHANGED <<writer, next, accepted, buffer, batch, stopped, table, stored>>
  BY DEF FlushFails, database
<1>2. faults' \in 0 .. MaxFaults
  BY DEF FlushFails, IInv, TypeOK
<1>3. pending = <<>> /\ batch = <<>>
  BY <1>1 DEF IInv, Placed
<1>4. /\ Group \subseteq left /\ left \subseteq ToSet(flushing) /\ left \subseteq accepted
      /\ untagged' \subseteq accepted
  BY <1>1, TagsPopped
<1>5. pending' = IF source = "final" THEN <<>> ELSE flushing
  BY <1>1, <1>3 DEF KeepBatch
<1>6. TypeOK'
  <2>1. pending' \in Seq(Record) /\ flushing' \in Seq(Record)
    BY <1>1, <1>5 DEF IInv, TypeOK
  <2> QED BY <1>1, <1>2, <1>4, <2>1 DEF IInv, TypeOK
<1>7. ToSet(pending') \subseteq ToSet(flushing) /\ ToSet(flushing') = {}
  BY <1>1, <1>5, EmptySet
<1>8. Placed'
  BY <1>1, <1>3, <1>7 DEF IInv, Placed, Held
<1>9. Ordered'
  BY <1>1, <1>7 DEF IInv, Ordered
<1>10. Backed'
  <2>1. NotOlder(Recognised(flushing))' /\ NotOlder(left)'
    BY <1>1, <1>7 DEF NotOlder, Recognised
  <2>2. NotOlder(Recognised(pending))'
    <3>1. CASE source = "final"
      BY <1>5, <3>1, EmptySet DEF NotOlder, Recognised
    <3>2. CASE source # "final" /\ writer = "orderbook"
      <4>1. Recognised(pending)' = left \ Group
        BY <1>1, <1>5, <3>2, TagsPopped DEF Recognised
      <4>2. \A r \in left \ Group : \E q \in left \ Group :
               q.table = r.table /\ q.key = r.key /\ table[r.table][r.key] <= q.id
        BY DEF IInv, Backed, NotOlder, Group
      <4> QED BY <1>1, <4>1, <4>2 DEF NotOlder
    <3>3. CASE source # "final" /\ writer # "orderbook"
      <4>1. Recognised(pending)' = Recognised(flushing)
        BY <1>1, <1>5, <3>3 DEF Recognised
      <4> QED BY <1>1, <4>1 DEF IInv, Backed, NotOlder
    <3> QED BY <3>1, <3>2, <3>3
  <2> QED BY <1>1, <2>1, <2>2 DEF IInv, Backed
<1>11. Written'
  BY <1>1 DEF Written
<1>12. Kept'
  <2>1. untagged \subseteq untagged'
    BY <1>1 DEF PopTags
  <2>2. CASE source = "final"
    BY <1>1, <2>2 DEF Kept
  <2>3. CASE source # "final"
    BY <1>1, <1>3, <1>5, <2>1, <2>3, EmptySet DEF IInv, Kept, Held
  <2> QED BY <2>2, <2>3
<1> QED BY <1>6, <1>8, <1>9, <1>10, <1>11, <1>12 DEF IInv

LEMMA EndStep == IInv /\ FlushEnds => IInv'
<1> SUFFICES ASSUME IInv, FlushEnds PROVE IInv'
  OBVIOUS
<1>1. /\ pc = "flush" /\ left = {}
      /\ pc' = IF source = "final" THEN "done" ELSE "check"
      /\ source' = "none" /\ flushing' = <<>>
      /\ UNCHANGED <<writer, next, accepted, buffer, pending, batch, stopped, left,
                     untagged, table, stored, faults>>
  BY DEF FlushEnds, queues, database
<1>2. ToSet(flushing') = {}
  BY <1>1, EmptySet
<1>3. TypeOK'
  BY <1>1, <1>2 DEF IInv, TypeOK
<1>4. Placed'
  BY <1>1, <1>2 DEF IInv, Placed, Held
<1>5. Ordered'
  BY <1>1, <1>2 DEF IInv, Ordered
<1>6. Backed'
  <2>1. NotOlder(Recognised(flushing))'
    BY <1>2 DEF NotOlder, Recognised
  <2> QED BY <1>1, <2>1 DEF IInv, Backed, NotOlder, Recognised
<1>7. Written'
  BY <1>1 DEF Written
<1>8. Kept'
  BY <1>1, <1>2 DEF IInv, Kept, Held, Written, Recognised
<1> QED BY <1>3, <1>4, <1>5, <1>6, <1>7, <1>8 DEF IInv

-----------------------------------------------------------------------------
(* The theorems.                                                           *)

LEMMA InitIInv == Init => IInv
<1> SUFFICES ASSUME Init PROVE IInv
  OBVIOUS
<1> USE EmptySet DEF Init
<1>1. TypeOK
  <2>1. Len(buffer) <= Cap /\ 1 \in 1 .. MaxRecords + 1 /\ 0 \in 0 .. MaxFaults
    OBVIOUS
  <2>2. table \in [AllTables -> [Keys -> 0 .. MaxRecords]]
    OBVIOUS
  <2>3. {buffer, pending, batch, flushing} \subseteq Seq(Record) /\ left \subseteq ToSet(flushing)
    OBVIOUS
  <2>4. /\ writer \in DOMAIN Tables /\ next \in 1 .. MaxRecords + 1 /\ faults \in 0 .. MaxFaults
        /\ accepted \subseteq Record /\ untagged \subseteq accepted /\ stored \subseteq accepted
    BY <2>1
  <2> HIDE DEF Init
  <2>5. /\ stopped \in BOOLEAN
        /\ pc \in {"check", "get", "due", "flush", "done", "failed", "gone"}
        /\ source \in {"none", "batch", "pending", "final"}
    BY DEF Init
  <2> QED BY <2>1, <2>2, <2>3, <2>4, <2>5 DEF TypeOK
<1>2. Placed
  BY DEF Placed, Held
<1>3. Ordered
  BY DEF Ordered
<1>4. Backed
  BY DEF Backed, NotOlder, Recognised
<1>5. Written
  BY DEF Written
<1>6. Kept
  BY DEF Kept
<1> QED BY <1>1, <1>2, <1>3, <1>4, <1>5, <1>6 DEF IInv

LEMMA StepIInv == IInv /\ [Next]_vars => IInv'
<1> SUFFICES ASSUME IInv, [Next]_vars PROVE IInv'
  OBVIOUS
<1>1. CASE \E t \in AllTables, k \in Keys : Put(t, k)
  BY <1>1, PutStep
<1>2. CASE PutFails \/ Stop \/ Exit
  BY <1>2, PutFailsStep, StopStep, ExitStep
<1>3. CASE Thread
  BY <1>3, IdleStep, TakeStep, BeginSteps, WriteStep, FailStep, EndStep DEF Thread
<1>4. CASE UNCHANGED vars
  <2> USE <1>4 DEF vars, queues, flush, database
  <2>1. TypeOK' /\ Placed' /\ Ordered'
    BY DEF IInv, TypeOK, Placed, Held, Ordered
  <2>2. Backed' /\ Written' /\ Kept'
    BY BackedFrame DEF IInv, Written, Recognised, Kept, Held
  <2> QED BY <2>1, <2>2 DEF IInv
<1> QED BY <1>1, <1>2, <1>3, <1>4 DEF Next

THEOREM Invariance == Spec => []IInv
<1> QED BY InitIInv, StepIInv, PTL DEF Spec

\* The writer's state has the types it should, and no record is in two places
\* it should not be in.
THEOREM TypeCorrect == Spec => []TypeOK
<1>1. IInv => TypeOK
  BY DEF IInv
<1> QED BY <1>1, Invariance, PTL

\* A record that was accepted is stored or held, until it loses its tag, the
\* last try fails or the process ends: whatever fails, and whenever.
THEOREM NothingElseLost == Spec => []Kept
<1>1. IInv => Kept
  BY DEF IInv
<1> QED BY <1>1, Invariance, PTL

\* No statement, of a first try or of a later one, replaces a row by an older
\* record of its key.
THEOREM RowsOnlyAdvance == Spec => NeverBackwards
<1> DEFINE Advance == \A t \in AllTables, k \in Keys : table'[t][k] >= table[t][k]
<1>1. IInv /\ [Next]_vars => [Advance]_vars
  <2> SUFFICES ASSUME IInv, [Next]_vars, ~ (UNCHANGED vars) PROVE Advance
    OBVIOUS
  <2>1. \A t \in AllTables, k \in Keys : table[t][k] \in Nat
    BY DEF IInv, TypeOK
  <2>2. CASE WriteGroup
    <3> SUFFICES ASSUME NEW t \in AllTables, NEW k \in Keys PROVE table'[t][k] >= table[t][k]
      OBVIOUS
    <3>1. \/ table'[t][k] \in 1 .. MaxRecords /\ table[t][k] <= table'[t][k]
          \/ table'[t][k] = table[t][k]
      BY <2>2, TableWritten
    <3> QED BY <2>1, <3>1
  <2>3. CASE table' = table
    BY <2>1, <2>3
  <2>4. WriteGroup \/ table' = table
    BY DEF Next, Thread, Put, PutFails, Stop, Exit, Retry, Poll, Take, GetTimesOut,
           FlushBatch, NotDue, FinalFlush, FlushFails, FlushEnds, database
  <2> QED BY <2>2, <2>3, <2>4
<1>2. Spec => [][Next]_vars
  BY DEF Spec
<1> QED BY <1>1, <1>2, Invariance, PTL DEF NeverBackwards
=============================================================================
