-------------------------- MODULE OrderBook_proofs --------------------------
(***************************************************************************)
(* Proofs about OrderBook, for any levels, any first sequence number and   *)
(* reset threshold, and any number of changes, resets, lost messages,      *)
(* disconnections, restarts and database errors.                           *)
(***************************************************************************)
EXTENDS OrderBook, SequenceTheorems, TLAPS

-----------------------------------------------------------------------------
(* The inductive invariant.                                                *)

\* Each change leads from the book before it to its own.
Chained == \A i \in 2 .. Now :
              /\ hist[i].prev = hist[i-1].seq
              /\ hist[i].book = (hist[i-1].book \ hist[i].gone) \cup hist[i].new

\* Without a reset the sequence number counts the changes.
Numbered == bounds["reset"] = 0 => \A i \in DOMAIN hist : hist[i].seq = Start + i - 1

\* The change the handler has got to.
Seen == IF pc = "apply" THEN msg ELSE ts

\* Messages announce changes in their order, none from before Seen.
InOrder == /\ ~up => wire = <<>>
           /\ \A k \in DOMAIN wire : /\ wire[k].at >= Seen
                                     /\ wire[k].action = "update" => wire[k].at >= 2
                                     /\ \A j \in 1 .. k : wire[j].at <= wire[k].at

\* As long as nothing was lost, the messages in flight announce all that is
\* missing: the book runs, unless a snapshot is coming.
Complete ==
    bounds["lost"] = 0 /\ up =>
        /\ \A k \in DOMAIN wire : /\ wire[k].at = Now - Len(wire) + k
                                  /\ k > 1 => wire[k].action = "update"
        /\ \/ wire # <<>> /\ wire[1].action = "snapshot"
           \/ Seen = Now - Len(wire) /\ (pc = "apply" \/ state = "RUNNING")

\* The state of the book at each point of the handler.
Placed == /\ pc = "resync" => state \in {"INIT", "GAP_DETECTED"}
          /\ pc \in {"event", "gap", "finish"} => state = "RESYNCING"
          /\ pc \in {"gap", "finish"} => running > 0
          /\ pc = "apply" => /\ state \in {"INIT", "RESYNCING"}
                             /\ msg \in DOMAIN hist
                             /\ msg >= ts
          /\ pc \in {"status", "close"} => state = "RUNNING"
          /\ state = "GAP_DETECTED" => pc = "resync"
          /\ state = "RESYNCING" \/ pc = "close" => resyncs > 0

\* A book with anything in it is the exchange's.
Real == /\ state \in {"INIT", "RESYNCING"} => book = {} /\ seq = NoSeq
        /\ Trusted /\ state \in {"RUNNING", "GAP_DETECTED"} =>
              /\ ts \in DOMAIN hist
              /\ seq = hist[ts].seq
              /\ book = hist[ts].book

BookInv == TypeOK /\ Chained /\ Numbered /\ InOrder /\ Complete /\ Placed /\ Real

\* What the snapshot thread has copied, point by point.
RowInv == /\ row.ts <= ts
          /\ Trusted /\ spc = "ts" => \E i \in 1 .. ts : hist[i].book = row.book
          /\ Trusted /\ spc = "syncseq" => row.ts > 0
          /\ SampleIsReal

\* The gap table and the event table, point by point.
GapInv ==
    bounds["fault"] = 0 =>
        /\ state = "RESYNCING" => pc \in {"event", "gap", "apply"} \/ openGaps > 0
        /\ pc = "finish" => openGaps > 0
        /\ bounds["restart"] = 0 =>
              /\ openGaps > 0 => state = "RESYNCING" \/ pc \in {"status", "close"}
              /\ openGaps > 0 => resyncs > 0
              /\ running = IF pc \in {"gap", "finish"} THEN 1 ELSE 0

IInv == BookInv /\ RowInv /\ GapInv

-----------------------------------------------------------------------------
(* Steps of the exchange and the connection.                               *)

USE BookAssumption DEF BookAssumption

\* The counters of bounded events stay counters.
LEMMA SpendEffect ==
    ASSUME bounds \in [Events -> Nat], NEW e \in Events, NEW max \in Nat, Spend(e, max)
    PROVE  /\ bounds' \in [Events -> Nat]
           /\ bounds'[e] > 0
           /\ \A f \in Events : f # e => bounds'[f] = bounds[f]
BY DEF Spend

\* Receiving takes the first message off the wire.
LEMMA TailEffect ==
    ASSUME NEW S, NEW q \in Seq(S), q # <<>>
    PROVE  /\ Tail(q) \in Seq(S)
           /\ Len(q) \in Nat \ {0}
           /\ Len(Tail(q)) = Len(q) - 1
           /\ DOMAIN q = 1 .. Len(q)
           /\ DOMAIN Tail(q) = 1 .. Len(q) - 1
           /\ Head(q) = q[1]
           /\ Head(q) \in S
           /\ \A k \in DOMAIN Tail(q) : Tail(q)[k] = q[k+1]
BY HeadTailProperties, LenProperties

\* A change of the exchange's book keeps the invariant, whichever number it
\* gets, as long as a reset is counted as one.
LEMMA ChangeStep ==
    ASSUME BookInv, NEW l \in Levels, NEW s \in Nat \ {0}, Change(l, s),
           bounds' \in [Events -> Nat],
           bounds'["reset"] = 0 => bounds["reset"] = 0 /\ s = Last.seq + 1,
           bounds'["lost"] = bounds["lost"]
    PROVE  /\ BookInv'
           /\ \E d \in SUBSET Levels :
                 [i \in DOMAIN hist' |-> hist'[i].book] =
                    Append([i \in DOMAIN hist |-> hist[i].book], d)
           /\ Now' = Now + 1
           /\ DOMAIN hist' = 1 .. Now'
           /\ \A i \in 1 .. Now : hist'[i] = hist[i]
<1> DEFINE b == IF l \in Last.book THEN Last.book \ {l} ELSE Last.book \cup {l}
           c == [seq |-> s, prev |-> Last.seq, book |-> b,
                 gone |-> Last.book \ b, new |-> b \ Last.book]
           m == [action |-> "update", at |-> Now + 1]
           C == [seq : Nat \ {0}, prev : SeqNos, book : SUBSET Levels,
                 gone : SUBSET Levels, new : SUBSET Levels]
<1> HIDE DEF C
<1>1. /\ hist \in Seq(C)
      /\ Now \in Nat \ {0}
      /\ Last \in C
  <2>1. hist \in Seq(C) /\ hist # <<>>
    BY DEF BookInv, TypeOK, HistOK, C
  <2>2. Now \in Nat \ {0} /\ DOMAIN hist = 1 .. Now
    BY <2>1, LenProperties, EmptySeq DEF Now
  <2>3. \A i \in 1 .. Now : hist[i] \in C
    BY <2>1, ElementOfSeq DEF Now
  <2>4. QED
    BY <2>1, <2>2, <2>3 DEF Last
<1>2. c \in C
  BY <1>1 DEF SeqNos, C
<1>3. /\ hist' = Append(hist, c)
      /\ wire' = IF up THEN Append(wire, m) ELSE wire
      /\ UNCHANGED <<up, local, thread, sampler, tables>>
  BY DEF Change
<1> HIDE DEF c, m
<1>4. /\ hist' \in Seq(C)
      /\ Now' = Now + 1
      /\ DOMAIN hist = 1 .. Now
      /\ DOMAIN hist' = 1 .. Now + 1
      /\ \A i \in 1 .. Now : hist'[i] = hist[i]
      /\ hist'[Now + 1] = c
      /\ hist' # <<>>
  BY <1>1, <1>2, <1>3, AppendProperties, LenProperties DEF Now
<1>5. /\ c.seq = s
      /\ c.prev = hist[Now].seq
      /\ c.book = (hist[Now].book \ c.gone) \cup c.new
  BY <1>1 DEF c, Last, C
<1>6. wire \in Seq(Announced) /\ DOMAIN wire = 1 .. Len(wire) /\ Len(wire) \in Nat
  BY LenProperties DEF BookInv, TypeOK
<1>7. wire' \in Seq(Announced')
  <2>1. Announced \subseteq Announced'
    BY <1>4, <1>1 DEF Announced
  <2>2. wire \in Seq(Announced')
    BY <1>6, <2>1, SeqMonotonic
  <2>3. m \in Announced'
    BY <1>4, <1>1 DEF m, Announced
  <2>4. QED
    BY <2>2, <2>3, <1>3, AppendProperties
<1>8. up => /\ Len(wire') = Len(wire) + 1
            /\ DOMAIN wire' = 1 .. Len(wire) + 1
            /\ \A k \in 1 .. Len(wire) : wire'[k] = wire[k]
            /\ wire'[Len(wire) + 1] = m
  <2>1. m \in Announced'
    BY <1>4, <1>1 DEF m, Announced
  <2>2. wire \in Seq(Announced \cup Announced')
    BY <1>6, SeqMonotonic
  <2>3. QED
    BY <2>1, <2>2, <1>6, <1>3, AppendProperties, LenProperties
<1>9. m.action = "update" /\ m.at = Now + 1
  BY DEF m
<1>10. UNCHANGED <<up, state, book, seq, prev, ts, resyncs, pc, msg, spc, row, synced,
                   openGaps, running>>
  BY <1>3 DEF local, thread, sampler, tables
<1>11. TypeOK'
  <2>1. HistOK'
    BY <1>4 DEF HistOK, C
  <2>2. Now \in Nat /\ Now' = Now + 1
    BY <1>1, <1>4
  <2>3. /\ up \in BOOLEAN /\ state \in States /\ book \in SUBSET Levels
        /\ seq \in SeqNos /\ prev \in SeqNos /\ resyncs \in Nat
        /\ pc \in {"idle", "resync", "event", "gap", "finish", "apply", "status", "close"}
        /\ spc \in {"wait", "copy", "ts", "seq", "factor", "syncseq", "syncstate", "put"}
        /\ synced \in [seq : SeqNos, status : States]
        /\ openGaps \in Nat /\ running \in Nat
        /\ ts \in 0 .. Now /\ msg \in 0 .. Now
        /\ row \in [book : SUBSET Levels, ts : 0 .. Now, seq : SeqNos,
                    factors : SUBSET Levels, status : States]
    BY DEF BookInv, TypeOK
  <2>4. 0 .. Now \subseteq 0 .. Now'
    BY <2>2
  <2>5. row \in [book : SUBSET Levels, ts : 0 .. Now', seq : SeqNos,
                factors : SUBSET Levels, status : States]
    BY <2>3, <2>4
  <2>6. QED
    BY <2>1, <2>3, <2>4, <2>5, <1>7, <1>10 DEF TypeOK
<1>12. Chained'
  <2>1. SUFFICES ASSUME NEW i \in 2 .. Now + 1
                 PROVE  /\ hist'[i].prev = hist'[i-1].seq
                        /\ hist'[i].book = (hist'[i-1].book \ hist'[i].gone) \cup hist'[i].new
    BY <1>4 DEF Chained
  <2>2. CASE i = Now + 1
    <3>1. Now \in 1 .. Now /\ i - 1 = Now
      BY <2>2, <1>1
    <3>2. hist'[i] = c /\ hist'[i-1] = hist[Now]
      BY <2>2, <3>1, <1>4
    <3>3. QED
      BY <3>2, <1>5
  <2>3. CASE i \in 2 .. Now
    <3>1. i \in 1 .. Now /\ i - 1 \in 1 .. Now
      BY <2>3, <1>1
    <3>2. hist'[i] = hist[i] /\ hist'[i-1] = hist[i-1]
      BY <3>1, <1>4
    <3>3. QED
      BY <2>3, <3>2 DEF BookInv, Chained
  <2>4. QED
    BY <2>2, <2>3, <1>1
<1>13. Numbered'
  <2>1. SUFFICES ASSUME bounds'["reset"] = 0, NEW i \in 1 .. Now + 1
                 PROVE  hist'[i].seq = Start + i - 1
    BY <1>4 DEF Numbered
  <2>2. hist[Now].seq = Start + Now - 1 /\ s = hist[Now].seq + 1
    <3>1. bounds["reset"] = 0 /\ s = Last.seq + 1
      BY <2>1
    <3>2. Now \in DOMAIN hist
      BY <1>1, <1>4
    <3>3. \A j \in DOMAIN hist : hist[j].seq = Start + j - 1
      BY <3>1 DEF BookInv, Numbered
    <3>4. QED
      BY <3>1, <3>2, <3>3 DEF Last
  <2>3. CASE i = Now + 1
    <3>1. hist'[i].seq = s
      BY <2>3, <1>4, <1>5
    <3>2. QED
      BY <3>1, <2>2, <2>3, <1>1
  <2>4. CASE i \in 1 .. Now
    BY <2>1, <2>4, <1>4 DEF BookInv, Numbered
  <2>5. QED
    BY <2>3, <2>4, <1>1
<1>14. InOrder'
  <2>1. Seen' = Seen /\ Seen \in Nat /\ Seen <= Now
    BY <1>10, <1>1 DEF Seen, BookInv, TypeOK
  <2>2. \A k \in DOMAIN wire : wire[k] \in Announced
    BY <1>6, ElementOfSeq
  <2>3. \A k \in DOMAIN wire : wire[k].at \in 1 .. Now
    BY <2>2, <1>4 DEF Announced
  <2>4. CASE up
    <3>1. ASSUME NEW k \in DOMAIN wire'
          PROVE  /\ wire'[k].at >= Seen
                 /\ wire'[k].action = "update" => wire'[k].at >= 2
                 /\ \A j \in 1 .. k : wire'[j].at <= wire'[k].at
      <4>1. CASE k = Len(wire) + 1
        <5>1. wire'[k] = m
          BY <4>1, <2>4, <1>8
        <5>2. \A j \in 1 .. Len(wire) : wire'[j].at \in 1 .. Now
          BY <2>3, <2>4, <1>6, <1>8
        <5>3. Now \in Nat \ {0} /\ Seen <= Now /\ wire'[k].at = Now + 1
          BY <5>1, <2>1, <1>9, <1>1
        <5>4. wire'[k].at >= Seen /\ wire'[k].at >= 2
          BY <5>3, <2>1
        <5>5. \A j \in 1 .. k : wire'[j].at <= wire'[k].at
          <6>1. TAKE j \in 1 .. k
          <6>2. j = k \/ j \in 1 .. Len(wire)
            BY <4>1, <1>6
          <6>3. QED
            BY <6>2, <5>2, <5>3
        <5>6. QED
          BY <5>4, <5>5
      <4>2. CASE k \in 1 .. Len(wire)
        BY <4>2, <2>4, <1>6, <1>8 DEF BookInv, InOrder
      <4>3. QED
        BY <4>1, <4>2, <2>4, <1>6, <1>8
    <3>2. QED
      BY <3>1, <2>1, <2>4, <1>10 DEF InOrder
  <2>5. CASE ~up
    BY <2>5, <2>1, <1>10, <1>3 DEF BookInv, InOrder
  <2>6. QED
    BY <2>4, <2>5
<1>15. Complete'
  <2>1. Seen' = Seen
    BY <1>10 DEF Seen
  <2>2. SUFFICES ASSUME bounds["lost"] = 0, up
                 PROVE  /\ \A k \in DOMAIN wire' : /\ wire'[k].at = Now' - Len(wire') + k
                                                   /\ k > 1 => wire'[k].action = "update"
                        /\ \/ wire' # <<>> /\ wire'[1].action = "snapshot"
                           \/ Seen = Now' - Len(wire') /\ (pc = "apply" \/ state = "RUNNING")
    BY <2>1, <1>10 DEF Complete
  <2>3. /\ \A k \in 1 .. Len(wire) : /\ wire[k].at = Now - Len(wire) + k
                                     /\ k > 1 => wire[k].action = "update"
        /\ \/ wire # <<>> /\ wire[1].action = "snapshot"
           \/ Seen = Now - Len(wire) /\ (pc = "apply" \/ state = "RUNNING")
    BY <2>2, <1>6 DEF BookInv, Complete
  <2>4. /\ Now \in Nat /\ Len(wire) \in Nat
        /\ Now' - Len(wire') = Now - Len(wire)
    BY <2>2, <1>1, <1>4, <1>6, <1>8
  <2>5. ASSUME NEW k \in DOMAIN wire'
        PROVE  /\ wire'[k].at = Now' - Len(wire') + k
               /\ k > 1 => wire'[k].action = "update"
    <3>1. k \in 1 .. Len(wire) \/ k = Len(wire) + 1
      BY <2>2, <2>4, <1>8
    <3>2. CASE k \in 1 .. Len(wire)
      BY <2>2, <2>3, <2>4, <3>2, <1>8
    <3>3. CASE k = Len(wire) + 1
      BY <2>2, <2>4, <3>3, <1>8, <1>9
    <3>4. QED
      BY <3>1, <3>2, <3>3
  <2>6. CASE wire # <<>> /\ wire[1].action = "snapshot"
    <3>1. 1 \in 1 .. Len(wire)
      BY <2>6, <1>6, EmptySeq
    <3>2. wire'[1] = wire[1] /\ wire' # <<>>
      BY <3>1, <2>2, <2>4, <1>8
    <3>3. QED
      BY <2>5, <2>6, <3>2
  <2>7. CASE Seen = Now - Len(wire) /\ (pc = "apply" \/ state = "RUNNING")
    BY <2>4, <2>5, <2>7
  <2>8. QED
    BY <2>3, <2>6, <2>7
<1>16. Placed'
  BY <1>10, <1>4, <1>1 DEF BookInv, Placed
<1>17. Real'
  BY <1>10, <1>4, <1>1 DEF BookInv, Real, Trusted
<1>18. \E d \in SUBSET Levels : [i \in DOMAIN hist' |-> hist'[i].book] =
                                Append([i \in DOMAIN hist |-> hist[i].book], d)
  <2> DEFINE old == [i \in DOMAIN hist |-> hist[i].book]
             new == [i \in DOMAIN hist' |-> hist'[i].book]
  <2>1. \A i \in 1 .. Now : hist[i].book \in SUBSET Levels
    <3>1. \A i \in 1 .. Now : hist[i] \in C
      BY <1>1, ElementOfSeq DEF Now
    <3>2. QED
      BY <3>1 DEF C
  <2>2. c.book \in SUBSET Levels
    BY <1>2 DEF C
  <2>3. old \in Seq(SUBSET Levels) /\ Len(old) = Now
    <3>1. Now \in Nat /\ DOMAIN hist = 1 .. Now
      BY <1>1, <1>4
    <3>2. old \in [1 .. Now -> SUBSET Levels]
      BY <2>1, <3>1
    <3> HIDE DEF old
    <3>3. old \in Seq(SUBSET Levels)
      BY <3>1, <3>2, SeqDef
    <3>4. Len(old) \in Nat /\ 1 .. Len(old) = 1 .. Now
      BY <3>2, <3>3, LenProperties
    <3>5. QED
      BY <3>1, <3>3, <3>4
  <2>4. new \in Seq(SUBSET Levels) /\ Len(new) = Now + 1
    <3>1. \A i \in 1 .. Now + 1 : hist'[i].book \in SUBSET Levels
      BY <2>1, <2>2, <1>4, <1>1
    <3>2. Now + 1 \in Nat
      BY <1>1
    <3>3. new \in [1 .. Now + 1 -> SUBSET Levels]
      BY <3>1, <1>4
    <3> HIDE DEF new
    <3>4. new \in Seq(SUBSET Levels)
      BY <3>2, <3>3, SeqDef
    <3>5. Len(new) \in Nat /\ DOMAIN new = 1 .. Len(new) /\ DOMAIN new = 1 .. Now + 1
      BY <3>3, <3>4, LenProperties
    <3>6. Now + 1 \in 1 .. Len(new) /\ Len(new) <= Now + 1
      <4>1. Now + 1 \in 1 .. Len(new)
        BY <3>2, <3>5, <1>1
      <4>2. Len(new) \in 1 .. Now + 1
        BY <4>1, <3>5
      <4>3. QED
        BY <4>1, <4>2
    <3>7. \A n \in Nat, k \in Nat : k + 1 \in 1 .. n /\ n <= k + 1 => n = k + 1
      OBVIOUS
    <3>8. Len(new) = Now + 1
      BY <1>1, <3>5, <3>6, <3>7
    <3>9. QED
      BY <3>4, <3>8
  <2> HIDE DEF old, new
  <2>5. /\ Append(old, c.book) \in Seq(SUBSET Levels)
        /\ Len(Append(old, c.book)) = Now + 1
        /\ \A i \in 1 .. Now : Append(old, c.book)[i] = old[i]
        /\ Append(old, c.book)[Now + 1] = c.book
    BY <2>2, <2>3, AppendProperties
  <2>6. \A i \in 1 .. Now + 1 : new[i] = Append(old, c.book)[i]
    <3>1. TAKE i \in 1 .. Now + 1
    <3>2. CASE i = Now + 1
      BY <3>2, <2>5, <1>4 DEF new
    <3>3. CASE i \in 1 .. Now
      BY <3>3, <2>5, <1>4 DEF old, new
    <3>4. i = Now + 1 \/ i \in 1 .. Now
      BY <1>1
    <3>5. QED
      BY <3>2, <3>3, <3>4
  <2>7. new = Append(old, c.book)
    BY <2>4, <2>5, <2>6, SeqEqual
  <2>8. QED
    BY <2>2, <2>7 DEF old, new
<1>19. QED
  BY <1>4, <1>11, <1>12, <1>13, <1>14, <1>15, <1>16, <1>17, <1>18 DEF BookInv

\* What the invariant says of the message that is received, and of those
\* behind it.
LEMMA Behind ==
    ASSUME BookInv, wire # <<>>
    PROVE  /\ up
           /\ Tail(wire) \in Seq(Announced)
           /\ Head(wire) = wire[1]
           /\ Head(wire).at \in DOMAIN hist
           /\ Head(wire).at >= Seen
           /\ Head(wire).action = "update" => Head(wire).at >= 2
           /\ \A k \in DOMAIN Tail(wire) :
                 /\ Tail(wire)[k].at \in DOMAIN hist
                 /\ Tail(wire)[k].at >= Head(wire).at
                 /\ Tail(wire)[k].action = "update" => Tail(wire)[k].at >= 2
                 /\ \A j \in 1 .. k : Tail(wire)[j].at <= Tail(wire)[k].at
           /\ bounds["lost"] = 0 =>
                 /\ Len(wire) = Len(Tail(wire)) + 1
                 /\ Head(wire).at = Now - Len(Tail(wire))
                 /\ \A k \in DOMAIN Tail(wire) :
                       /\ Tail(wire)[k].at = Now - Len(Tail(wire)) + k
                       /\ Tail(wire)[k].action = "update"
<1>1. wire \in Seq(Announced)
  BY DEF BookInv, TypeOK
<1>2. /\ Tail(wire) \in Seq(Announced)
      /\ Len(wire) \in Nat \ {0}
      /\ Len(Tail(wire)) = Len(wire) - 1
      /\ DOMAIN wire = 1 .. Len(wire)
      /\ DOMAIN Tail(wire) = 1 .. Len(wire) - 1
      /\ Head(wire) = wire[1]
      /\ Head(wire) \in Announced
      /\ \A k \in DOMAIN Tail(wire) : Tail(wire)[k] = wire[k+1]
  BY <1>1, TailEffect
<1>3. up
  BY DEF BookInv, InOrder
<1>4. Head(wire).at \in DOMAIN hist
  BY <1>2 DEF Announced
<1>5. Head(wire).at >= Seen /\ (Head(wire).action = "update" => Head(wire).at >= 2)
  BY <1>2 DEF BookInv, InOrder
<1>6. ASSUME NEW k \in DOMAIN Tail(wire)
      PROVE  /\ Tail(wire)[k].at \in DOMAIN hist
             /\ Tail(wire)[k].at >= Head(wire).at
             /\ Tail(wire)[k].action = "update" => Tail(wire)[k].at >= 2
             /\ \A j \in 1 .. k : Tail(wire)[j].at <= Tail(wire)[k].at
  <2>1. k + 1 \in DOMAIN wire /\ 1 \in 1 .. k + 1 /\ Tail(wire)[k] = wire[k+1]
    BY <1>2
  <2>2. \A j \in 1 .. k + 1 : wire[j].at <= wire[k+1].at
    BY <2>1 DEF BookInv, InOrder
  <2>3. \A i \in DOMAIN wire : wire[i].at \in DOMAIN hist
    <3>1. \A i \in DOMAIN wire : wire[i] \in Announced
      BY <1>1, <1>2, ElementOfSeq
    <3>2. QED
      BY <3>1 DEF Announced
  <2>4. wire[k+1].at \in DOMAIN hist /\ wire[1].at \in DOMAIN hist
    BY <2>1, <2>3, <1>2
  <2>5. wire[k+1].action = "update" => wire[k+1].at >= 2
    BY <2>1 DEF BookInv, InOrder
  <2>6. wire[1].at <= wire[k+1].at
    BY <2>1, <2>2
  <2>7. \A j \in 1 .. k : Tail(wire)[j].at <= Tail(wire)[k].at
    <3>1. TAKE j \in 1 .. k
    <3>2. j + 1 \in 1 .. k + 1 /\ Tail(wire)[j] = wire[j+1]
      BY <1>2
    <3>3. QED
      BY <3>2, <2>1, <2>2
  <2>8. DOMAIN hist = 1 .. Now
    BY LenProperties DEF BookInv, TypeOK, HistOK, Now
  <2>9. QED
    <3>1. Tail(wire)[k] = wire[k+1] /\ Head(wire) = wire[1]
      BY <2>1, <1>2
    <3>2. wire[k+1].at >= wire[1].at
      BY <2>4, <2>6, <2>8
    <3>3. QED
      BY <3>1, <3>2, <2>4, <2>5, <2>7
<1>7. ASSUME bounds["lost"] = 0
      PROVE  /\ Head(wire).at = Now - Len(Tail(wire))
             /\ \A k \in DOMAIN Tail(wire) :
                   /\ Tail(wire)[k].at = Now - Len(Tail(wire)) + k
                   /\ Tail(wire)[k].action = "update"
  <2>1. \A k \in DOMAIN wire : /\ wire[k].at = Now - Len(wire) + k
                               /\ k > 1 => wire[k].action = "update"
    BY <1>3, <1>7 DEF BookInv, Complete
  <2>2. Now \in Nat
    BY LenProperties DEF BookInv, TypeOK, HistOK, Now
  <2>3. Head(wire).at = Now - Len(Tail(wire))
    BY <2>1, <2>2, <1>2
  <2>4. ASSUME NEW k \in DOMAIN Tail(wire)
        PROVE  /\ Tail(wire)[k].at = Now - Len(Tail(wire)) + k
               /\ Tail(wire)[k].action = "update"
    <3>1. k \in Nat \ {0} /\ k + 1 \in DOMAIN wire /\ Tail(wire)[k] = wire[k+1]
      BY <1>2
    <3>2. wire[k+1].at = Now - Len(wire) + (k + 1) /\ wire[k+1].action = "update"
      BY <3>1, <2>1
    <3>3. QED
      BY <3>1, <3>2, <2>2, <1>2
  <2>5. QED
    BY <2>3, <2>4
<1>8. QED
  BY <1>2, <1>3, <1>4, <1>5, <1>6, <1>7

\* The exchange's clock, and the type of what it recorded.
LEMMA HistFacts ==
    ASSUME BookInv
    PROVE  /\ Now \in Nat \ {0}
           /\ DOMAIN hist = 1 .. Now
           /\ \A i \in DOMAIN hist : /\ hist[i].seq \in Nat \ {0}
                                     /\ hist[i].prev \in SeqNos
                                     /\ hist[i].book \in SUBSET Levels
                                     /\ hist[i].new \in SUBSET Levels
           /\ Seen \in 0 .. Now
<1> DEFINE C == [seq : Nat \ {0}, prev : SeqNos, book : SUBSET Levels,
                 gone : SUBSET Levels, new : SUBSET Levels]
<1> HIDE DEF C
<1>1. hist \in Seq(C) /\ hist # <<>>
  BY DEF BookInv, TypeOK, HistOK, C
<1>2. Now \in Nat \ {0} /\ DOMAIN hist = 1 .. Now
  BY <1>1, LenProperties, EmptySeq DEF Now
<1>3. \A i \in 1 .. Now : hist[i] \in C
  BY <1>1, ElementOfSeq DEF Now
<1>4. QED
  BY <1>2, <1>3 DEF C, Seen, BookInv, TypeOK

\* A lost message: from now on nothing is complete.
LEMMA LoseStep ==
    ASSUME BookInv, Lose
    PROVE  BookInv'
<1>1. /\ wire # <<>>
      /\ wire' = Tail(wire)
      /\ bounds' \in [Events -> Nat]
      /\ bounds'["lost"] > 0
      /\ bounds'["reset"] = bounds["reset"]
  BY SpendEffect DEF Lose, BookInv, TypeOK, Events
<1>2. UNCHANGED <<hist, up, state, book, seq, prev, ts, resyncs, pc, msg, spc, row, synced,
                  openGaps, running>>
  BY DEF Lose, local, thread, sampler, tables
<1>3. TypeOK'
  BY <1>1, <1>2, Behind DEF BookInv, TypeOK, HistOK, Announced, Now
<1>4. Chained' /\ Numbered' /\ Placed'
  BY <1>1, <1>2 DEF BookInv, Chained, Numbered, Placed, Now
<1>5. InOrder'
  <2>1. Seen' = Seen
    BY <1>2 DEF Seen
  <2>2. \A k \in DOMAIN Tail(wire) : Tail(wire)[k].at >= Seen
    BY <1>1, Behind, HistFacts
  <2>3. QED
    BY <2>1, <2>2, <1>1, <1>2, Behind DEF InOrder
<1>6. Complete'
  BY <1>1 DEF Complete
<1>7. Real'
  BY <1>1, <1>2 DEF BookInv, Real, Trusted
<1>8. QED
  BY <1>3, <1>4, <1>5, <1>6, <1>7 DEF BookInv

\* A connection that ends: nothing is in flight any more.
LEMMA DropStep ==
    ASSUME BookInv, Drop
    PROVE  BookInv'
<1>1. /\ up' = FALSE
      /\ wire' = <<>>
      /\ bounds' \in [Events -> Nat]
      /\ bounds'["lost"] = bounds["lost"]
      /\ bounds'["reset"] = bounds["reset"]
  BY SpendEffect DEF Drop, BookInv, TypeOK, Events
<1>2. UNCHANGED <<hist, state, book, seq, prev, ts, resyncs, pc, msg, spc, row, synced,
                  openGaps, running>>
  BY DEF Drop, local, thread, sampler, tables
<1>3. TypeOK'
  BY <1>1, <1>2, EmptySeq DEF BookInv, TypeOK, HistOK, Now
<1>4. Chained' /\ Numbered' /\ Placed' /\ Real'
  BY <1>1, <1>2 DEF BookInv, Chained, Numbered, Placed, Real, Trusted, Now
<1>5. InOrder' /\ Complete'
  BY <1>1, EmptySeq DEF InOrder, Complete
<1>6. QED
  BY <1>3, <1>4, <1>5 DEF BookInv

\* A new connection: its snapshot announces all that is missing.
LEMMA ConnectStep ==
    ASSUME BookInv, Connect
    PROVE  BookInv'
<1> DEFINE m == [action |-> "snapshot", at |-> Now]
<1>1. /\ up' = TRUE
      /\ wire' = <<m>>
      /\ pc = "idle"
      /\ UNCHANGED <<hist, state, book, seq, prev, ts, resyncs, pc, msg, spc, row, synced,
                     openGaps, running, bounds>>
  BY DEF Connect, local, thread, sampler, tables
<1>2. m.action = "snapshot" /\ m.at = Now /\ m \in Announced
  BY HistFacts DEF Announced
<1> HIDE DEF m
<1>3. /\ wire' \in Seq(Announced)
      /\ Len(wire') = 1
      /\ DOMAIN wire' = {1}
      /\ wire'[1] = m
      /\ wire' # <<>>
  BY <1>1, <1>2
<1>4. TypeOK'
  BY <1>1, <1>3 DEF BookInv, TypeOK, HistOK, Now, Announced
<1>5. Chained' /\ Numbered' /\ Placed' /\ Real'
  BY <1>1 DEF BookInv, Chained, Numbered, Placed, Real, Trusted, Now
<1>6. InOrder'
  <2>1. Seen' = Seen /\ Seen \in 0 .. Now /\ Now \in Nat
    BY <1>1, HistFacts DEF Seen
  <2>2. QED
    BY <2>1, <1>1, <1>2, <1>3 DEF InOrder
<1>7. Complete'
  BY <1>1, <1>2, <1>3, HistFacts DEF Complete, Now
<1>8. QED
  BY <1>4, <1>5, <1>6, <1>7 DEF BookInv

\* A restart of the collector: the book is empty again.
LEMMA RestartStep ==
    ASSUME BookInv, Restart
    PROVE  BookInv'
<1>1. /\ bounds' \in [Events -> Nat]
      /\ bounds'["lost"] = bounds["lost"]
      /\ bounds'["reset"] = bounds["reset"]
  BY SpendEffect DEF Restart, BookInv, TypeOK, Events
<1>2. TypeOK'
  <2>1. NoRow \in [book : SUBSET Levels, ts : 0 .. Now, seq : SeqNos,
                   factors : SUBSET Levels, status : States]
    BY HistFacts DEF NoRow, SeqNos, States
  <2>2. hist' = hist /\ Now' = Now /\ Announced' = Announced
    BY DEF Restart, Now, Announced
  <2>3. /\ up' = FALSE /\ wire' = <<>>
        /\ state' = "INIT" /\ book' = {} /\ seq' = NoSeq /\ prev' = NoSeq
        /\ ts' = 0 /\ resyncs' = 0 /\ pc' = "idle" /\ msg' = 0
        /\ spc' = "wait" /\ row' = NoRow
        /\ UNCHANGED <<synced, openGaps, running>>
    BY DEF Restart, tables
  <2>4. HistOK' /\ wire' \in Seq(Announced')
    BY <2>2, <2>3, EmptySeq DEF BookInv, TypeOK, HistOK
  <2>5. row' \in [book : SUBSET Levels, ts : 0 .. Now', seq : SeqNos,
                  factors : SUBSET Levels, status : States]
    BY <2>1, <2>2, <2>3, Zenon
  <2>6. NoSeq \in SeqNos /\ "INIT" \in States /\ 0 \in 0 .. Now'
    BY <2>2, HistFacts DEF SeqNos, States
  <2>7. QED
    BY <1>1, <2>3, <2>4, <2>5, <2>6 DEF BookInv, TypeOK
<1>3. Chained' /\ Numbered' /\ Placed' /\ Real'
  BY <1>1 DEF Restart, BookInv, Chained, Numbered, Placed, Real, Now
<1>4. InOrder' /\ Complete'
  BY EmptySeq DEF Restart, InOrder, Complete
<1>5. QED
  BY <1>2, <1>3, <1>4 DEF BookInv

-----------------------------------------------------------------------------
(* Steps of the WebSocket thread.                                          *)

\* The update that apply_update accepts is the next change, if the book can be
\* trusted: the linked numbers are those of neighbours.
LEMMA FollowsIsNext ==
    ASSUME BookInv, Trusted, wire # <<>>, pc = "idle", state = "RUNNING",
           Head(wire).action = "update", Follows(hist[Head(wire).at])
    PROVE  Head(wire).at = ts + 1
<1> DEFINE at == Head(wire).at
<1> HIDE DEF at
<1>1. /\ at \in DOMAIN hist
      /\ at >= 2
      /\ hist[at].prev = hist[at-1].seq
      /\ at - 1 \in DOMAIN hist
  <2>1. at \in DOMAIN hist /\ at >= 2
    BY Behind DEF at
  <2>2. at \in 2 .. Now /\ at - 1 \in DOMAIN hist
    BY <2>1, HistFacts
  <2>3. QED
    BY <2>1, <2>2 DEF BookInv, Chained
<1>2. ts \in DOMAIN hist /\ seq = hist[ts].seq
  BY DEF BookInv, Real
<1>3. CASE bounds["reset"] = 0
  <2>1. /\ hist[at].seq = Start + at - 1
        /\ hist[at-1].seq = Start + at - 2
        /\ seq = Start + ts - 1
    <3>1. \A i \in DOMAIN hist : hist[i].seq = Start + i - 1
      BY <1>3 DEF BookInv, Numbered
    <3>2. at \in Nat
      BY <1>1, HistFacts
    <3>3. QED
      BY <3>1, <3>2, <1>1, <1>2
  <2>2. ~ IsSequenceReset(hist[at])
    BY <2>1, <1>1, HistFacts DEF IsSequenceReset
  <2>3. hist[at].prev = seq
    BY <2>2 DEF Follows, at
  <2>4. at \in Nat /\ ts \in Nat
    BY <1>1, <1>2, HistFacts
  <2>5. at = ts + 1
    BY <2>1, <2>3, <2>4, <1>1
  <2>6. QED
    BY <2>5 DEF at
<1>4. CASE bounds["lost"] = 0
  <2>1. Seen = Now - Len(wire)
    BY <1>4, Behind DEF BookInv, Complete
  <2>2. Len(Tail(wire)) \in Nat
    BY Behind, LenProperties
  <2>3. QED
    BY <1>4, <2>1, <2>2, Behind, HistFacts DEF Seen
<1>5. QED
  BY <1>3, <1>4 DEF Trusted

\* On a connection that has lost nothing the book runs and every update
\* follows.
LEMMA NoGapWithoutLoss ==
    ASSUME BookInv, bounds["lost"] = 0, wire # <<>>, pc = "idle",
           Head(wire).action = "update"
    PROVE  state = "RUNNING" /\ Follows(hist[Head(wire).at])
<1> DEFINE at == Head(wire).at
<1> HIDE DEF at
<1>1. Seen = Now - Len(wire) /\ state = "RUNNING"
  BY Behind DEF BookInv, Complete
<1>2. Len(Tail(wire)) \in Nat
  BY Behind, LenProperties
<1>3. at = ts + 1
  BY <1>1, <1>2, Behind, HistFacts DEF Seen, at
<1>4. ts \in DOMAIN hist /\ seq = hist[ts].seq
  BY <1>1 DEF BookInv, Real, Trusted
<1>5. hist[at].prev = hist[at-1].seq
  <2>1. at \in DOMAIN hist /\ at >= 2
    BY Behind DEF at
  <2>2. at \in 2 .. Now
    BY <2>1, HistFacts
  <2>3. QED
    BY <2>2 DEF BookInv, Chained
<1>6. QED
  BY <1>1, <1>3, <1>4, <1>5, HistFacts DEF Follows, at

\* What is common to the steps that take a message off the wire: nobody but
\* the WebSocket thread moves, and the messages behind stay in order.
LEMMA ReceiveEffect ==
    ASSUME BookInv, NEW action, Receive(action), UNCHANGED <<sampler, tables, bounds>>,
           NEW now, Seen' = now, now \in Nat, now <= Head(wire).at
    PROVE  /\ wire # <<>>
           /\ wire' = Tail(wire)
           /\ Head(wire).action = action
           /\ pc = "idle"
           /\ UNCHANGED <<hist, up, spc, row, synced, openGaps, running, bounds>>
           /\ Now' = Now
           /\ HistOK'
           /\ wire' \in Seq(Announced')
           /\ Chained' /\ Numbered' /\ InOrder'
<1>1. /\ wire # <<>>
      /\ wire' = Tail(wire)
      /\ Head(wire).action = action
      /\ pc = "idle"
      /\ UNCHANGED <<hist, up, spc, row, synced, openGaps, running, bounds>>
      /\ Now' = Now
  BY DEF Receive, Head1, sampler, tables, Now
<1>2. HistOK'
  BY <1>1 DEF BookInv, TypeOK, HistOK
<1>3. wire' \in Seq(Announced')
  BY <1>1, Behind DEF Announced
<1>4. Chained' /\ Numbered'
  BY <1>1 DEF BookInv, Chained, Numbered
<1>5. InOrder'
  <2>1. up
    BY <1>1, Behind
  <2>2. \A k \in DOMAIN Tail(wire) : Tail(wire)[k].at >= now
    BY <1>1, Behind, HistFacts
  <2>3. QED
    BY <1>1, <2>1, <2>2, Behind DEF InOrder
<1>6. QED
  BY <1>1, <1>2, <1>3, <1>4, <1>5

\* An update that is dropped while a snapshot is awaited.
LEMMA DroppedStep ==
    ASSUME BookInv, UpdateDropped
    PROVE  BookInv'
<1>1. /\ Receive("update")
      /\ state = "RESYNCING"
      /\ UNCHANGED <<sampler, tables, bounds>>
      /\ UNCHANGED <<state, book, seq, prev, ts, resyncs, pc, msg>>
  BY DEF UpdateDropped, local, thread
<1>2. Seen' = Seen /\ Seen \in Nat /\ Seen <= Head(wire).at
  <2>1. wire # <<>>
    BY <1>1 DEF Receive
  <2>2. QED
    BY <1>1, <2>1, Behind, HistFacts DEF Seen
<1>3. /\ wire # <<>>
      /\ wire' = Tail(wire)
      /\ Head(wire).action = "update"
      /\ pc = "idle"
      /\ UNCHANGED <<hist, up, spc, row, synced, openGaps, running, bounds>>
      /\ Now' = Now
      /\ HistOK'
      /\ wire' \in Seq(Announced')
      /\ Chained' /\ Numbered' /\ InOrder'
  BY <1>1, <1>2, ReceiveEffect
<1>4. TypeOK'
  BY <1>1, <1>3 DEF BookInv, TypeOK
<1>5. Placed' /\ Real'
  BY <1>1, <1>3 DEF BookInv, Placed, Real, Trusted
<1>6. Complete'
  <2>1. bounds["lost"] # 0
    BY <1>1, <1>3, NoGapWithoutLoss
  <2>2. QED
    BY <2>1, <1>3 DEF Complete
<1>7. QED
  BY <1>3, <1>4, <1>5, <1>6 DEF BookInv

\* An update that is applied: a book one can trust becomes the next one.
LEMMA AppliedStep ==
    ASSUME BookInv, UpdateApplied
    PROVE  /\ BookInv'
           /\ Trusted => ts' = ts + 1 /\ ts' \in DOMAIN hist /\ book' = hist[ts'].book
<1> DEFINE at == Head(wire).at
<1>1. /\ Receive("update")
      /\ state = "RUNNING"
      /\ Follows(hist[at])
      /\ book' = (book \ hist[at].gone) \cup hist[at].new
      /\ seq' = hist[at].seq
      /\ prev' = hist[at].prev
      /\ ts' = at
      /\ UNCHANGED <<sampler, tables, bounds>>
      /\ UNCHANGED <<state, resyncs, pc, msg>>
  BY DEF UpdateApplied, ApplyDelta, thread, Head1
<1>2. wire # <<>> /\ pc = "idle"
  BY <1>1 DEF Receive
<1>3. at \in DOMAIN hist /\ at >= 2 /\ at \in Nat
  BY <1>1, <1>2, Behind, HistFacts DEF Receive, Head1
<1>4. Seen' = at
  BY <1>1, <1>2 DEF Seen
<1>5. /\ wire' = Tail(wire)
      /\ Head(wire).action = "update"
      /\ UNCHANGED <<hist, up, spc, row, synced, openGaps, running, bounds>>
      /\ Now' = Now
      /\ HistOK'
      /\ wire' \in Seq(Announced')
      /\ Chained' /\ Numbered' /\ InOrder'
  BY <1>1, <1>3, <1>4, ReceiveEffect
<1>6. Trusted => at = ts + 1
  BY <1>1, <1>2, <1>5, FollowsIsNext
<1>7. Trusted => book' = hist[at].book
  <2>1. ASSUME Trusted
        PROVE  book' = hist[at].book
    <3>1. at \in 2 .. Now /\ at - 1 = ts
      <4>1. ts \in Nat
        BY HistFacts DEF BookInv, TypeOK
      <4>2. at = ts + 1
        BY <2>1, <1>6
      <4>3. QED
        BY <4>1, <4>2, <1>3, HistFacts
    <3>2. book = hist[ts].book
      BY <2>1, <1>1 DEF BookInv, Real
    <3>3. hist[at].book = (hist[at-1].book \ hist[at].gone) \cup hist[at].new
      BY <3>1 DEF BookInv, Chained
    <3>4. QED
      BY <3>1, <3>2, <3>3, <1>1
  <2>2. QED
    BY <2>1
<1> HIDE DEF at
<1>8. TypeOK'
  <2>1. book' \in SUBSET Levels
    <3>1. hist[at].new \in SUBSET Levels
      BY <1>3, HistFacts
    <3>2. QED
      BY <3>1, <1>1 DEF BookInv, TypeOK
  <2>2. seq' \in SeqNos /\ prev' \in SeqNos /\ ts' \in 0 .. Now'
    BY <1>1, <1>3, <1>5, HistFacts DEF SeqNos
  <2>3. QED
    BY <2>1, <2>2, <1>1, <1>5 DEF BookInv, TypeOK
<1>9. Placed'
  BY <1>1, <1>2, <1>5 DEF BookInv, Placed
<1>10. Real'
  BY <1>1, <1>3, <1>5, <1>7 DEF Real, Trusted
<1>11. Complete'
  <2>1. SUFFICES ASSUME bounds["lost"] = 0
                 PROVE  /\ \A k \in DOMAIN Tail(wire) :
                              /\ Tail(wire)[k].at = Now - Len(Tail(wire)) + k
                              /\ Tail(wire)[k].action = "update"
                        /\ at = Now - Len(Tail(wire))
    BY <1>1, <1>4, <1>5 DEF Complete
  <2>2. QED
    BY <2>1, <1>2, Behind DEF at
<1>12. QED
  BY <1>1, <1>3, <1>5, <1>6, <1>7, <1>8, <1>9, <1>10, <1>11 DEF BookInv

\* An update that is refused: something was lost, or no snapshot came yet.
LEMMA RefusedStep ==
    ASSUME BookInv, UpdateRefused
    PROVE  BookInv'
<1>1. /\ Receive("update")
      /\ state # "RESYNCING"
      /\ state = "RUNNING" => ~ Follows(hist[Head(wire).at])
      /\ state' = IF state = "RUNNING" THEN "GAP_DETECTED" ELSE state
      /\ pc' = "resync"
      /\ UNCHANGED <<sampler, tables, bounds>>
      /\ UNCHANGED <<book, seq, prev, ts, resyncs, msg>>
  BY DEF UpdateRefused, Head1
<1>2. Seen' = Seen /\ Seen \in Nat /\ Seen <= Head(wire).at
  <2>1. wire # <<>> /\ pc = "idle"
    BY <1>1 DEF Receive
  <2>2. QED
    BY <1>1, <2>1, Behind, HistFacts DEF Seen
<1>3. /\ wire # <<>>
      /\ wire' = Tail(wire)
      /\ Head(wire).action = "update"
      /\ pc = "idle"
      /\ UNCHANGED <<hist, up, spc, row, synced, openGaps, running, bounds>>
      /\ Now' = Now
      /\ HistOK'
      /\ wire' \in Seq(Announced')
      /\ Chained' /\ Numbered' /\ InOrder'
  BY <1>1, <1>2, ReceiveEffect
<1>4. state \in {"INIT", "RUNNING"}
  BY <1>1, <1>3 DEF BookInv, TypeOK, States, Placed
<1>5. TypeOK'
  BY <1>1, <1>3, <1>4 DEF BookInv, TypeOK, States
<1>6. Placed' /\ Real'
  BY <1>1, <1>3, <1>4 DEF BookInv, Placed, Real, Trusted
<1>7. Complete'
  <2>1. bounds["lost"] # 0
    BY <1>1, <1>3, NoGapWithoutLoss
  <2>2. QED
    BY <2>1, <1>3 DEF Complete
<1>8. QED
  BY <1>3, <1>5, <1>6, <1>7 DEF BookInv

\* The book is cleared for a resync.
LEMMA PrepareStep ==
    ASSUME BookInv, PrepareResync
    PROVE  BookInv'
<1>1. /\ pc = "resync" /\ pc' = "event"
      /\ book' = {} /\ seq' = NoSeq /\ prev' = NoSeq
      /\ state' = "RESYNCING" /\ resyncs' = resyncs + 1
      /\ UNCHANGED <<ts, msg, hist, up, wire, spc, row, synced, openGaps, running, bounds>>
      /\ Now' = Now /\ Announced' = Announced
  BY DEF PrepareResync, Cleared, exchange, sampler, tables, Now, Announced
<1>2. state \in {"INIT", "GAP_DETECTED"}
  BY <1>1 DEF BookInv, Placed
<1>3. Seen' = Seen
  BY <1>1 DEF Seen
<1>4. TypeOK'
  BY <1>1 DEF BookInv, TypeOK, HistOK, States, SeqNos
<1>5. Chained' /\ Numbered' /\ InOrder' /\ Complete'
  BY <1>1, <1>2, <1>3 DEF BookInv, Chained, Numbered, InOrder, Complete
<1>6. Placed' /\ Real'
  BY <1>1 DEF BookInv, TypeOK, Placed, Real
<1>7. QED
  BY <1>4, <1>5, <1>6 DEF BookInv

Store == StartEvent \/ RegisterOpen \/ FinishEvent \/ MarkSnapshotReady

\* A transaction of the handler, committed or not.
LEMMA StoreEffect ==
    ASSUME BookInv, Store
    PROVE  /\ UNCHANGED <<hist, up, wire, state, book, seq, prev, ts, resyncs, msg,
                          spc, row, synced>>
           /\ bounds' \in [Events -> Nat]
           /\ bounds'["lost"] = bounds["lost"] /\ bounds'["reset"] = bounds["reset"]
           /\ bounds'["restart"] = bounds["restart"]
           /\ pc \in {"event", "gap", "finish", "close"}
           /\ \/ /\ bounds'["fault"] = bounds["fault"]
                 /\ \/ /\ pc = "event" /\ pc' = "gap"
                       /\ running' = running + 1 /\ openGaps' = openGaps
                    \/ /\ pc = "gap" /\ pc' = "finish"
                       /\ running' = running /\ openGaps' = openGaps + 1
                    \/ /\ pc = "finish" /\ pc' = "idle"
                       /\ running' = running - 1 /\ openGaps' = openGaps
                    \/ /\ pc = "close" /\ pc' = "idle"
                       /\ running' = running /\ openGaps' = 0
              \/ /\ bounds'["fault"] # 0 /\ pc' = "idle"
                 /\ running' = running /\ openGaps' = openGaps
<1>1. bounds \in [Events -> Nat]
  BY DEF BookInv, TypeOK
<1>2. /\ UNCHANGED <<hist, up, wire, state, book, seq, prev, ts, resyncs, msg, spc, row, synced>>
      /\ pc \in {"event", "gap", "finish", "close"}
  BY DEF Store, StartEvent, RegisterOpen, FinishEvent, MarkSnapshotReady, Transaction,
     exchange, local, sampler
<1>3. CASE UNCHANGED bounds
  <2>1. bounds' = bounds
    BY <1>3
  <2>2. CASE Spend("fault", MaxFaults)
    <3>1. bounds'["fault"] > 0
      BY <2>2, <1>1, SpendEffect DEF Events
    <3>2. bounds'["fault"] = bounds["fault"] + 1
      BY <2>2, <1>1 DEF Spend, Events
    <3>3. QED
      BY <3>1, <3>2, <2>1, <1>1 DEF Events
  <2>3. CASE ~ Spend("fault", MaxFaults)
    BY <2>1, <2>3, <1>1, <1>2 DEF Store, StartEvent, RegisterOpen, FinishEvent,
       MarkSnapshotReady, Transaction
  <2>4. QED
    BY <2>2, <2>3
<1>4. CASE Spend("fault", MaxFaults) /\ ~ UNCHANGED bounds
  <2>1. /\ bounds' \in [Events -> Nat] /\ bounds'["fault"] > 0
        /\ bounds'["lost"] = bounds["lost"] /\ bounds'["reset"] = bounds["reset"]
        /\ bounds'["restart"] = bounds["restart"]
    BY <1>1, <1>4, SpendEffect DEF Events
  <2>2. pc' = "idle" /\ UNCHANGED <<openGaps, running>>
    BY <1>4 DEF Store, StartEvent, RegisterOpen, FinishEvent, MarkSnapshotReady, Transaction
  <2>3. QED
    BY <1>2, <2>1, <2>2
<1>5. UNCHANGED bounds \/ Spend("fault", MaxFaults)
  BY DEF Store, StartEvent, RegisterOpen, FinishEvent, MarkSnapshotReady, Transaction
<1>6. QED
  BY <1>3, <1>4, <1>5

\* It leaves the book alone.
LEMMA StoreStep ==
    ASSUME BookInv, Store
    PROVE  BookInv'
<1>1. /\ UNCHANGED <<hist, up, wire, state, book, seq, prev, ts, resyncs, msg, spc, row, synced>>
      /\ bounds' \in [Events -> Nat]
      /\ bounds'["lost"] = bounds["lost"] /\ bounds'["reset"] = bounds["reset"]
      /\ pc \in {"event", "gap", "finish", "close"}
  BY StoreEffect
<1>2. /\ pc' \in {"gap", "finish", "idle"}
      /\ pc' \in {"gap", "finish"} => pc \in {"event", "gap"} /\ running' > 0
      /\ openGaps' \in Nat /\ running' \in Nat
  <2>1. openGaps \in Nat /\ running \in Nat /\ (pc \in {"gap", "finish"} => running > 0)
    BY DEF BookInv, TypeOK, Placed
  <2>2. QED
    BY <2>1, StoreEffect
<1>3. Seen' = Seen /\ Now' = Now /\ Announced' = Announced
  BY <1>1, <1>2 DEF Seen, Now, Announced
<1>4. TypeOK'
  BY <1>1, <1>2, <1>3 DEF BookInv, TypeOK, HistOK
<1>5. Chained' /\ Numbered' /\ InOrder' /\ Complete'
  BY <1>1, <1>2, <1>3 DEF BookInv, Chained, Numbered, InOrder, Complete
<1>6. Placed' /\ Real'
  BY <1>1, <1>2 DEF BookInv, Placed, Real, Trusted
<1>7. QED
  BY <1>4, <1>5, <1>6 DEF BookInv

\* A snapshot arrives: whatever was there is cleared.
LEMMA SnapshotStep ==
    ASSUME BookInv, SnapshotArrives
    PROVE  BookInv'
<1> DEFINE at == Head(wire).at
<1>1. /\ Receive("snapshot")
      /\ \/ state = "INIT" /\ UNCHANGED <<state, book, seq, prev, resyncs>>
         \/ /\ book' = {} /\ seq' = NoSeq /\ prev' = NoSeq
            /\ state' = "RESYNCING" /\ resyncs' = resyncs + 1
      /\ UNCHANGED ts
      /\ msg' = at
      /\ pc' = "apply"
      /\ UNCHANGED <<sampler, tables, bounds>>
  BY DEF SnapshotArrives, Cleared, local, Head1
<1>2. wire # <<>> /\ pc = "idle" /\ Head(wire).action = "snapshot"
  BY <1>1 DEF Receive, Head1
<1>3. at \in DOMAIN hist /\ at \in Nat /\ at >= ts /\ at <= Now
  BY <1>2, Behind, HistFacts DEF Seen
<1>4. Seen' = at
  BY <1>1 DEF Seen
<1>5. /\ wire' = Tail(wire)
      /\ UNCHANGED <<hist, up, spc, row, synced, openGaps, running, bounds>>
      /\ Now' = Now
      /\ HistOK'
      /\ wire' \in Seq(Announced')
      /\ Chained' /\ Numbered' /\ InOrder'
  BY <1>1, <1>3, <1>4, ReceiveEffect
<1> HIDE DEF at
<1>6. TypeOK'
  <2>1. state \in States /\ book \in SUBSET Levels /\ seq \in SeqNos /\ prev \in SeqNos
        /\ resyncs \in Nat /\ ts \in 0 .. Now
    BY DEF BookInv, TypeOK
  <2>2. state' \in States /\ book' \in SUBSET Levels /\ seq' \in SeqNos /\ prev' \in SeqNos
        /\ resyncs' \in Nat
    BY <2>1, <1>1 DEF States, SeqNos
  <2>3. msg' \in 0 .. Now' /\ ts' \in 0 .. Now'
    BY <2>1, <1>1, <1>3, <1>5, HistFacts
  <2>4. QED
    BY <2>2, <2>3, <1>1, <1>5 DEF BookInv, TypeOK
<1>7. Placed' /\ Real'
  BY <1>1, <1>3, <1>5 DEF BookInv, TypeOK, Placed, Real
<1>8. Complete'
  <2>1. SUFFICES ASSUME bounds["lost"] = 0
                 PROVE  /\ \A k \in DOMAIN Tail(wire) :
                              /\ Tail(wire)[k].at = Now - Len(Tail(wire)) + k
                              /\ Tail(wire)[k].action = "update"
                        /\ at = Now - Len(Tail(wire))
    BY <1>1, <1>4, <1>5 DEF Complete
  <2>2. QED
    BY <2>1, <1>2, Behind DEF at
<1>9. QED
  BY <1>5, <1>6, <1>7, <1>8 DEF BookInv

\* The snapshot is applied: the book is the one it announced.
LEMMA ApplySnapshotStep ==
    ASSUME BookInv, ApplySnapshot
    PROVE  /\ BookInv'
           /\ state \in {"INIT", "RESYNCING"}
           /\ ts' \in DOMAIN hist /\ ts' >= ts
           /\ state' = "RUNNING"
           /\ book' = hist[ts'].book
<1>1. /\ pc = "apply" /\ pc' = "status"
      /\ book' = hist[msg].book /\ seq' = hist[msg].seq /\ prev' = NoSeq
      /\ ts' = msg /\ state' = "RUNNING"
      /\ UNCHANGED <<resyncs, msg, hist, up, wire, spc, row, synced, openGaps, running, bounds>>
      /\ Now' = Now /\ Announced' = Announced
  BY DEF ApplySnapshot, exchange, sampler, tables, Now, Announced
<1>2. state \in {"INIT", "RESYNCING"} /\ msg \in DOMAIN hist /\ msg >= ts
  BY <1>1 DEF BookInv, Placed
<1>3. Seen' = Seen
  BY <1>1 DEF Seen
<1>4. TypeOK'
  <2>1. book' \in SUBSET Levels /\ seq' \in SeqNos /\ prev' \in SeqNos /\ ts' \in 0 .. Now'
    BY <1>1, <1>2, HistFacts DEF SeqNos
  <2>2. QED
    BY <2>1, <1>1 DEF BookInv, TypeOK, HistOK, States
<1>5. Chained' /\ Numbered' /\ InOrder' /\ Complete'
  BY <1>1, <1>2, <1>3 DEF BookInv, Chained, Numbered, InOrder, Complete
<1>6. Placed' /\ Real'
  BY <1>1, <1>2 DEF BookInv, Placed, Real
<1>7. QED
  BY <1>1, <1>2, <1>4, <1>5, <1>6 DEF BookInv

\* The sync state is handed over; the book is left alone.
LEMMA HandOverStep ==
    ASSUME BookInv, HandOver
    PROVE  BookInv'
<1>1. /\ pc = "status" /\ pc' \in {"close", "idle"}
      /\ pc' = "close" => resyncs > 0
      /\ synced' = [seq |-> seq, status |-> state]
      /\ UNCHANGED <<msg, hist, up, wire, state, book, seq, prev, ts, resyncs, spc, row,
                     openGaps, running, bounds>>
      /\ Now' = Now /\ Announced' = Announced
  BY DEF HandOver, exchange, local, sampler, Now, Announced
<1>2. Seen' = Seen
  BY <1>1 DEF Seen
<1>3. TypeOK'
  BY <1>1 DEF BookInv, TypeOK, HistOK
<1>4. Chained' /\ Numbered' /\ InOrder' /\ Complete'
  BY <1>1, <1>2 DEF BookInv, Chained, Numbered, InOrder, Complete
<1>5. Placed' /\ Real'
  BY <1>1 DEF BookInv, Placed, Real, Trusted
<1>6. QED
  BY <1>3, <1>4, <1>5 DEF BookInv

-----------------------------------------------------------------------------
(* The inductive invariant, for all steps.                                 *)

\* The snapshot thread writes nothing but its record and the sync state.
LEMMA SampleFrame ==
    ASSUME BookInv, NEW here, NEW next, Sample(here, next),
           spc' \in {"wait", "copy", "ts", "seq", "factor", "syncseq", "syncstate", "put"},
           row' \in [book : SUBSET Levels, ts : 0 .. Now, seq : SeqNos,
                     factors : SUBSET Levels, status : States],
           synced' \in [seq : SeqNos, status : States]
    PROVE  /\ BookInv'
           /\ UNCHANGED <<hist, ts, state, pc, resyncs, openGaps, running, bounds>>
           /\ Now' = Now
<1>1. /\ UNCHANGED <<hist, up, wire, state, book, seq, prev, ts, resyncs, pc, msg,
                     openGaps, running, bounds>>
      /\ Now' = Now /\ Announced' = Announced /\ Seen' = Seen
  BY DEF Sample, exchange, local, thread, Now, Announced, Seen
<1>2. TypeOK'
  BY <1>1 DEF BookInv, TypeOK, HistOK
<1>3. Chained' /\ Numbered' /\ InOrder' /\ Complete' /\ Placed' /\ Real'
  BY <1>1 DEF BookInv, Chained, Numbered, InOrder, Complete, Placed, Real, Trusted
<1>4. QED
  BY <1>1, <1>2, <1>3 DEF BookInv

\* One step of the snapshot thread: what it has copied stays what it claims.
LEMMA SamplerStep ==
    ASSUME BookInv, RowInv, SnapshotThread
    PROVE  /\ BookInv' /\ RowInv'
           /\ UNCHANGED <<hist, ts, state, pc, resyncs, openGaps, running, bounds>>
<1> DEFINE Rows == [book : SUBSET Levels, ts : 0 .. Now, seq : SeqNos,
                    factors : SUBSET Levels, status : States]
<1>1. /\ row \in Rows /\ book \in SUBSET Levels /\ ts \in 0 .. Now /\ ts \in Nat
      /\ seq \in SeqNos /\ state \in States /\ synced \in [seq : SeqNos, status : States]
      /\ row.ts \in Nat
  BY HistFacts DEF BookInv, TypeOK
<1>2. Now \in Nat \ {0} /\ DOMAIN hist = 1 .. Now
  BY HistFacts
<1>3. ASSUME NEW here, NEW next, Sample(here, next)
      PROVE  /\ spc = here /\ spc' = next
             /\ UNCHANGED <<hist, ts, bounds>> /\ Now' = Now /\ Trusted' = Trusted
  BY <1>3 DEF Sample, exchange, local, Now, Trusted
<1>4. ASSUME SampleTick \/ SampleNothing
      PROVE  /\ BookInv' /\ RowInv'
             /\ UNCHANGED <<hist, ts, state, pc, resyncs, openGaps, running, bounds>>
  <2>1. \/ Sample("wait", "copy") /\ UNCHANGED <<row, synced>>
        \/ Sample("copy", "wait") /\ UNCHANGED <<row, synced>>
    BY <1>4 DEF SampleTick, SampleNothing
  <2>2. /\ BookInv'
        /\ UNCHANGED <<hist, ts, state, pc, resyncs, openGaps, running, bounds>>
    BY <2>1, <1>1, <1>3, SampleFrame
  <2>3. RowInv'
    BY <2>1, <1>3, <2>2 DEF RowInv, SampleIsReal
  <2>4. QED
    BY <2>2, <2>3
<1>5. ASSUME SampleCopy
      PROVE  /\ BookInv' /\ RowInv'
             /\ UNCHANGED <<hist, ts, state, pc, resyncs, openGaps, running, bounds>>
  <2>1. /\ Sample("copy", "ts") /\ TwoSided(book)
        /\ row' = [row EXCEPT !.book = book] /\ synced' = synced
    BY <1>5 DEF SampleCopy
  <2>2. row' \in Rows /\ row'.ts = row.ts /\ row'.book = book
    BY <2>1, <1>1
  <2>3. /\ BookInv'
        /\ UNCHANGED <<hist, ts, state, pc, resyncs, openGaps, running, bounds>>
    BY <2>1, <2>2, <1>1, <1>3, SampleFrame
  <2>4. state \notin {"INIT", "RESYNCING"}
    BY <2>1 DEF TwoSided, BookInv, Real
  <2>5. Trusted => ts \in 1 .. ts /\ hist[ts].book = book
    BY <2>4, <1>1, <1>2 DEF BookInv, Real, States
  <2>6. RowInv'
    BY <2>1, <2>2, <2>5, <1>3, <1>1 DEF RowInv, SampleIsReal
  <2>7. QED
    BY <2>3, <2>6
<1>6. ASSUME SampleTs
      PROVE  /\ BookInv' /\ RowInv'
             /\ UNCHANGED <<hist, ts, state, pc, resyncs, openGaps, running, bounds>>
  <2>1. /\ Sample("ts", "seq")
        /\ row' = [row EXCEPT !.ts = ts] /\ synced' = synced
    BY <1>6 DEF SampleTs
  <2>2. row' \in Rows /\ row'.ts = ts /\ row'.book = row.book
    BY <2>1, <1>1
  <2>3. /\ BookInv'
        /\ UNCHANGED <<hist, ts, state, pc, resyncs, openGaps, running, bounds>>
    BY <2>1, <2>2, <1>1, <1>3, SampleFrame
  <2>4. RowInv'
    BY <2>1, <2>2, <1>3, <1>1 DEF RowInv, SampleIsReal
  <2>5. QED
    BY <2>3, <2>4
<1>7. ASSUME SampleSeq
      PROVE  /\ BookInv' /\ RowInv'
             /\ UNCHANGED <<hist, ts, state, pc, resyncs, openGaps, running, bounds>>
  <2>1. /\ Sample("seq", "factor")
        /\ row' = [row EXCEPT !.seq = seq] /\ synced' = synced
    BY <1>7 DEF SampleSeq
  <2>2. row' \in Rows /\ row'.ts = row.ts /\ row'.book = row.book /\ row'.seq = seq
    BY <2>1, <1>1
  <2>3. /\ BookInv'
        /\ UNCHANGED <<hist, ts, state, pc, resyncs, openGaps, running, bounds>>
    BY <2>1, <2>2, <1>1, <1>3, SampleFrame
  <2>4. Trusted /\ seq # NoSeq => ts \in row.ts .. Now /\ hist[ts].seq = seq
    BY <1>1, <1>2 DEF RowInv, BookInv, Real, TypeOK, States
  <2>5. RowInv'
    BY <2>1, <2>2, <2>4, <1>3, <1>1 DEF RowInv, SampleIsReal
  <2>6. QED
    BY <2>3, <2>5
<1>8. ASSUME SampleFactors
      PROVE  /\ BookInv' /\ RowInv'
             /\ UNCHANGED <<hist, ts, state, pc, resyncs, openGaps, running, bounds>>
  <2> DEFINE f == IF TwoSided(book) THEN book ELSE {}
  <2>1. /\ Sample("factor", "syncseq")
        /\ row' = [row EXCEPT !.factors = f] /\ synced' = synced
    BY <1>8 DEF SampleFactors
  <2>2. f \in SUBSET Levels /\ (f # {} => f = book /\ book # {})
    BY <1>1
  <2> HIDE DEF f
  <2>3. row' \in Rows /\ row'.ts = row.ts /\ row'.factors = f
    BY <2>1, <2>2, <1>1
  <2>4. /\ BookInv'
        /\ UNCHANGED <<hist, ts, state, pc, resyncs, openGaps, running, bounds>>
    BY <2>1, <2>3, <1>1, <1>3, SampleFrame
  <2>5. Trusted /\ f # {} => ts \in row.ts .. Now /\ hist[ts].book = f
    BY <2>2, <1>1, <1>2 DEF RowInv, BookInv, Real, TypeOK, States
  <2>6. RowInv'
    BY <2>1, <2>3, <2>5, <1>3, <1>1 DEF RowInv, SampleIsReal
  <2>7. QED
    BY <2>4, <2>6
<1>9. ASSUME SampleSyncSeq \/ SampleSyncState
      PROVE  /\ BookInv' /\ RowInv'
             /\ UNCHANGED <<hist, ts, state, pc, resyncs, openGaps, running, bounds>>
  <2>1. \/ /\ Sample("syncseq", "syncstate")
           /\ row' = [row EXCEPT !.seq = seq] /\ synced' = synced
        \/ /\ Sample("syncstate", "put")
           /\ row' = [row EXCEPT !.status = state] /\ synced' = synced
    BY <1>9 DEF SampleSyncSeq, SampleSyncState
  <2>2. row' \in Rows /\ row'.ts = row.ts
    BY <2>1, <1>1
  <2>3. /\ BookInv'
        /\ UNCHANGED <<hist, ts, state, pc, resyncs, openGaps, running, bounds>>
    BY <2>1, <2>2, <1>1, <1>3, SampleFrame
  <2>4. RowInv'
    BY <2>1, <2>2, <1>3, <1>1 DEF RowInv, SampleIsReal
  <2>5. QED
    BY <2>3, <2>4
<1>10. ASSUME SamplePut
       PROVE  /\ BookInv' /\ RowInv'
              /\ UNCHANGED <<hist, ts, state, pc, resyncs, openGaps, running, bounds>>
  <2>1. /\ Sample("put", "wait")
        /\ synced' = [seq |-> row.seq, status |-> row.status] /\ row' = NoRow
    BY <1>10 DEF SamplePut
  <2>2. row' \in Rows /\ row'.ts = 0 /\ synced' \in [seq : SeqNos, status : States]
    BY <2>1, <1>1, <1>2 DEF NoRow, SeqNos, States
  <2>3. /\ BookInv'
        /\ UNCHANGED <<hist, ts, state, pc, resyncs, openGaps, running, bounds>>
    BY <2>1, <2>2, <1>1, <1>3, SampleFrame
  <2>4. RowInv'
    BY <2>1, <2>2, <1>3, <1>1 DEF RowInv, SampleIsReal
  <2>5. QED
    BY <2>3, <2>4
<1>11. QED
  BY <1>4, <1>5, <1>6, <1>7, <1>8, <1>9, <1>10 DEF SnapshotThread

\* What every step does that is not of the snapshot thread and no restart.
Onward == /\ UNCHANGED <<spc, row>>
          /\ ts' \in Nat /\ ts' >= ts
          /\ Trusted' => Trusted
          /\ Now' \in Nat /\ Now' >= Now
          /\ DOMAIN hist' = 1 .. Now'
          /\ \A i \in 1 .. Now : hist'[i] = hist[i]

\* Such a step leaves what the snapshot thread has copied true.
LEMMA RowFrame ==
    ASSUME BookInv, RowInv, Onward
    PROVE  RowInv'
<1>1. /\ row.ts \in Nat /\ ts \in Nat /\ row.ts <= ts /\ ts <= Now
      /\ Now \in Nat \ {0} /\ DOMAIN hist = 1 .. Now
  BY HistFacts DEF BookInv, TypeOK, RowInv
<1>2. /\ row' = row /\ spc' = spc /\ ts' \in Nat /\ ts' >= ts /\ (Trusted' => Trusted)
      /\ Now' \in Nat /\ Now' >= Now /\ DOMAIN hist' = 1 .. Now'
      /\ \A i \in 1 .. Now : hist'[i] = hist[i]
  BY DEF Onward
<1>3. Trusted' /\ spc' = "ts" => \E i \in 1 .. ts' : hist'[i].book = row'.book
  BY <1>1, <1>2 DEF RowInv
<1>4. Trusted' /\ spc' \in {"seq", "factor"} => \E i \in 1 .. row'.ts : hist'[i].book = row'.book
  BY <1>1, <1>2 DEF RowInv, SampleIsReal
<1>5. Trusted' /\ spc' = "factor" /\ row'.seq # NoSeq =>
         \E i \in row'.ts .. Now' : hist'[i].seq = row'.seq
  <2>1. SUFFICES ASSUME Trusted, spc = "factor", row.seq # NoSeq
                 PROVE  \E i \in row.ts .. Now' : hist'[i].seq = row.seq
    BY <1>2
  <2>2. PICK i \in row.ts .. Now : hist[i].seq = row.seq
    BY <2>1 DEF RowInv, SampleIsReal
  <2>3. \E k \in 1 .. row.ts : hist[k].book = row.book
    BY <2>1 DEF RowInv, SampleIsReal
  <2>4. i \in 1 .. Now /\ i \in row.ts .. Now'
    BY <2>2, <2>3, <1>1, <1>2
  <2>5. QED
    BY <2>2, <2>4, <1>2
<1>6. Trusted' /\ spc' = "syncseq" /\ row'.factors # {} =>
         \E i \in row'.ts .. Now' : hist'[i].book = row'.factors
  <2>1. SUFFICES ASSUME Trusted, spc = "syncseq", row.factors # {}
                 PROVE  \E i \in row.ts .. Now' : hist'[i].book = row.factors
    BY <1>2
  <2>2. PICK i \in row.ts .. Now : hist[i].book = row.factors
    BY <2>1 DEF RowInv, SampleIsReal
  <2>3. row.ts \in Nat \ {0}
    BY <2>1, <1>1 DEF RowInv
  <2>4. i \in 1 .. Now /\ i \in row.ts .. Now'
    BY <2>2, <2>3, <1>1, <1>2
  <2>5. QED
    BY <2>2, <2>4, <1>2
<1>7. row'.ts <= ts' /\ (Trusted' /\ spc' = "syncseq" => row'.ts > 0)
  BY <1>1, <1>2 DEF RowInv
<1>8. QED
  BY <1>3, <1>4, <1>5, <1>6, <1>7 DEF RowInv, SampleIsReal

\* The exchange and the connection.
LEMMA OutsideStep ==
    ASSUME BookInv,
           \/ \E l \in Levels : Publish(l) \/ PublishReset(l)
           \/ Lose \/ Drop \/ Connect
    PROVE  BookInv' /\ Onward
<1>1. /\ ts \in Nat /\ Now \in Nat \ {0} /\ DOMAIN hist = 1 .. Now
      /\ bounds \in [Events -> Nat]
  BY HistFacts DEF BookInv, TypeOK
<1>2. ASSUME NEW l \in Levels, Publish(l)
      PROVE  BookInv' /\ Onward
  <2>1. Change(l, Last.seq + 1) /\ bounds' = bounds
    BY <1>2 DEF Publish
  <2>2. Last.seq + 1 \in Nat \ {0}
    BY HistFacts DEF Last
  <2>3. /\ BookInv' /\ Now' = Now + 1 /\ DOMAIN hist' = 1 .. Now'
        /\ \A i \in 1 .. Now : hist'[i] = hist[i]
    BY <2>1, <2>2, <1>1, ChangeStep
  <2>4. UNCHANGED <<spc, row, ts>> /\ Trusted' = Trusted
    BY <2>1 DEF Change, sampler, local, Trusted
  <2>5. QED
    BY <2>3, <2>4, <1>1 DEF Onward
<1>3. ASSUME NEW l \in Levels, PublishReset(l)
      PROVE  BookInv' /\ Onward
  <2>1. Change(l, 1) /\ Spend("reset", MaxResets)
    BY <1>3 DEF PublishReset
  <2>2. /\ bounds' \in [Events -> Nat]
        /\ bounds'["reset"] # 0
        /\ bounds'["lost"] = bounds["lost"]
    BY <2>1, <1>1, SpendEffect DEF Events
  <2>3. /\ BookInv' /\ Now' = Now + 1 /\ DOMAIN hist' = 1 .. Now'
        /\ \A i \in 1 .. Now : hist'[i] = hist[i]
    BY <2>1, <2>2, ChangeStep
  <2>4. UNCHANGED <<spc, row, ts>> /\ (Trusted' => Trusted)
    BY <2>1, <2>2 DEF Change, sampler, local, Trusted
  <2>5. QED
    BY <2>3, <2>4, <1>1 DEF Onward
<1>4. CASE Lose
  <2>1. /\ UNCHANGED <<hist, ts, spc, row>> /\ Now' = Now
        /\ bounds'["lost"] > 0 /\ bounds'["reset"] = bounds["reset"]
    BY <1>4, <1>1, SpendEffect DEF Lose, local, sampler, Now, Events
  <2>2. QED
    BY <1>4, <2>1, <1>1, LoseStep DEF Onward, Trusted
<1>5. CASE Drop
  <2>1. /\ UNCHANGED <<hist, ts, spc, row>> /\ Now' = Now
        /\ bounds'["lost"] = bounds["lost"] /\ bounds'["reset"] = bounds["reset"]
    BY <1>5, <1>1, SpendEffect DEF Drop, local, sampler, Now, Events
  <2>2. QED
    BY <1>5, <2>1, <1>1, DropStep DEF Onward, Trusted
<1>6. CASE Connect
  <2>1. UNCHANGED <<hist, ts, spc, row, bounds>> /\ Now' = Now
    BY <1>6 DEF Connect, local, sampler, Now
  <2>2. QED
    BY <1>6, <2>1, <1>1, ConnectStep DEF Onward, Trusted
<1>7. QED
  BY <1>2, <1>3, <1>4, <1>5, <1>6

\* The WebSocket thread.
LEMMA ThreadStep ==
    ASSUME BookInv, WebSocketThread
    PROVE  BookInv' /\ Onward
<1>1. /\ ts \in Nat /\ Now \in Nat \ {0} /\ DOMAIN hist = 1 .. Now
      /\ openGaps \in Nat /\ running \in Nat
  BY HistFacts DEF BookInv, TypeOK
<1>2. CASE UpdateDropped \/ UpdateRefused
  <2>1. UNCHANGED <<hist, ts, spc, row, bounds>> /\ Now' = Now
    BY <1>2 DEF UpdateDropped, UpdateRefused, Receive, local, sampler, Now
  <2>2. QED
    BY <1>2, <2>1, <1>1, DroppedStep, RefusedStep DEF Onward, Trusted
<1>3. CASE UpdateApplied
  <2>1. UNCHANGED <<hist, spc, row, bounds>> /\ Now' = Now /\ ts' = Head(wire).at
        /\ wire # <<>> /\ pc = "idle"
    BY <1>3 DEF UpdateApplied, Receive, ApplyDelta, sampler, Now, Head1
  <2>2. ts' \in DOMAIN hist /\ ts' >= ts
    BY <2>1, Behind DEF Seen
  <2>3. QED
    BY <1>3, <2>1, <2>2, <1>1, AppliedStep DEF Onward, Trusted
<1>4. CASE PrepareResync \/ HandOver
  <2>1. UNCHANGED <<hist, ts, spc, row, bounds>> /\ Now' = Now
    BY <1>4 DEF PrepareResync, Cleared, HandOver, exchange, local, sampler, Now
  <2>2. QED
    BY <1>4, <2>1, <1>1, PrepareStep, HandOverStep DEF Onward, Trusted
<1>5. CASE SnapshotArrives
  <2>1. UNCHANGED <<hist, ts, spc, row, bounds>> /\ Now' = Now
    BY <1>5 DEF SnapshotArrives, Cleared, Receive, local, sampler, Now
  <2>2. QED
    BY <1>5, <2>1, <1>1, SnapshotStep DEF Onward, Trusted
<1>6. CASE ApplySnapshot
  <2>1. UNCHANGED <<hist, spc, row, bounds>> /\ Now' = Now
    BY <1>6 DEF ApplySnapshot, exchange, sampler, Now
  <2>2. QED
    BY <1>6, <2>1, <1>1, ApplySnapshotStep DEF Onward, Trusted
<1>7. CASE Store
  <2>1. /\ UNCHANGED <<hist, ts, spc, row>>
        /\ bounds'["lost"] = bounds["lost"] /\ bounds'["reset"] = bounds["reset"]
    BY <1>7, StoreEffect
  <2>2. Now' = Now
    BY <2>1 DEF Now
  <2>3. QED
    BY <1>7, <2>1, <2>2, <1>1, StoreStep DEF Onward, Trusted
<1>8. QED
  BY <1>2, <1>3, <1>4, <1>5, <1>6, <1>7 DEF WebSocketThread, Store

\* The tables: a gap is registered while the handler waits for a snapshot, and
\* closed when it has come.
LEMMA GapStep ==
    ASSUME BookInv, GapInv, Next, ~Restart
    PROVE  GapInv'
<1>1. /\ bounds \in [Events -> Nat] /\ openGaps \in Nat /\ running \in Nat
      /\ resyncs \in Nat /\ state \in States
  BY DEF BookInv, TypeOK
<1> DEFINE Frame == /\ UNCHANGED <<state, resyncs, pc, openGaps, running>>
                    /\ bounds'["fault"] = bounds["fault"]
                    /\ bounds'["restart"] = bounds["restart"]
<1>2. ASSUME Frame PROVE GapInv'
  BY <1>2 DEF GapInv
<1>3. CASE \E l \in Levels : Publish(l) \/ PublishReset(l)
  <2>1. PICK l \in Levels : Publish(l) \/ PublishReset(l)
    BY <1>3
  <2>2. UNCHANGED <<state, resyncs, pc, openGaps, running>>
    BY <2>1 DEF Publish, PublishReset, Change, local, thread, tables
  <2>3. bounds' = bounds \/ Spend("reset", MaxResets)
    BY <2>1 DEF Publish, PublishReset
  <2>4. Frame
    BY <2>2, <2>3, <1>1, SpendEffect DEF Events
  <2>5. QED
    BY <2>4, <1>2
<1>4. CASE Lose \/ Drop
  <2>1. UNCHANGED <<state, resyncs, pc, openGaps, running>>
    BY <1>4 DEF Lose, Drop, local, thread, tables
  <2>2. Spend("lost", MaxLost) \/ Spend("drop", MaxDrops)
    BY <1>4 DEF Lose, Drop
  <2>3. Frame
    BY <2>1, <2>2, <1>1, SpendEffect DEF Events
  <2>4. QED
    BY <2>3, <1>2
<1>5. CASE Connect \/ UpdateDropped \/ UpdateApplied
  <2>1. Frame
    BY <1>5 DEF Connect, UpdateDropped, UpdateApplied, local, thread, tables
  <2>2. QED
    BY <2>1, <1>2
<1>6. CASE SnapshotThread
  <2>1. Frame
    BY <1>6 DEF SnapshotThread, SampleTick, SampleCopy, SampleNothing, SampleTs, SampleSeq,
       SampleFactors, SampleSyncSeq, SampleSyncState, SamplePut, Sample, local, thread
  <2>2. QED
    BY <2>1, <1>2
<1>7. CASE UpdateRefused
  <2>1. /\ pc = "idle" /\ pc' = "resync" /\ state # "RESYNCING" /\ state' # "RESYNCING"
        /\ UNCHANGED <<openGaps, running, bounds>>
    BY <1>7 DEF UpdateRefused, Receive, tables
  <2>2. QED
    BY <2>1, <1>1 DEF GapInv
<1>8. CASE PrepareResync
  <2>1. /\ pc = "resync" /\ pc' = "event" /\ state' = "RESYNCING" /\ resyncs' = resyncs + 1
        /\ UNCHANGED <<openGaps, running, bounds>>
    BY <1>8 DEF PrepareResync, Cleared, tables
  <2>2. QED
    BY <2>1, <1>1 DEF GapInv
<1>9. CASE SnapshotArrives
  <2>1. /\ pc = "idle" /\ pc' = "apply"
        /\ \/ state = "INIT" /\ state' = "INIT" /\ resyncs' = resyncs
           \/ state' = "RESYNCING" /\ resyncs' = resyncs + 1
        /\ UNCHANGED <<openGaps, running, bounds>>
    BY <1>9 DEF SnapshotArrives, Receive, Cleared, local, tables
  <2>2. QED
    BY <2>1, <1>1 DEF GapInv
<1>10. CASE ApplySnapshot \/ HandOver
  <2>1. /\ \/ pc = "apply" /\ pc' = "status" /\ state' = "RUNNING"
           \/ /\ pc = "status" /\ state' = state
              /\ pc' = IF resyncs > 0 THEN "close" ELSE "idle"
        /\ UNCHANGED <<resyncs, openGaps, running, bounds>>
    BY <1>10 DEF ApplySnapshot, HandOver, local, tables
  <2>2. pc = "status" => state = "RUNNING"
    BY DEF BookInv, Placed
  <2>3. QED
    BY <2>1, <2>2, <1>1 DEF GapInv
<1>11. CASE Store
  <2>1. /\ UNCHANGED <<state, resyncs>> /\ bounds'["restart"] = bounds["restart"]
        /\ pc \in {"event", "gap", "finish"} => state = "RESYNCING" /\ resyncs > 0
        /\ pc = "close" => state = "RUNNING"
    BY <1>11, StoreEffect DEF BookInv, Placed
  <2>2. CASE bounds'["fault"] # 0
    BY <2>2 DEF GapInv
  <2>3. CASE bounds'["fault"] = bounds["fault"] /\ bounds'["fault"] = 0
    <3>1. \/ /\ pc = "event" /\ pc' = "gap"
             /\ running' = running + 1 /\ openGaps' = openGaps
          \/ /\ pc = "gap" /\ pc' = "finish"
             /\ running' = running /\ openGaps' = openGaps + 1
          \/ /\ pc = "finish" /\ pc' = "idle"
             /\ running' = running - 1 /\ openGaps' = openGaps
          \/ /\ pc = "close" /\ pc' = "idle"
             /\ running' = running /\ openGaps' = 0
      BY <1>11, <2>3, StoreEffect
    <3>2. QED
      BY <3>1, <2>1, <2>3, <1>1 DEF GapInv
  <2>4. QED
    BY <2>2, <2>3, <1>11, StoreEffect
<1>12. QED
  BY <1>3, <1>4, <1>5, <1>6, <1>7, <1>8, <1>9, <1>10, <1>11
     DEF Next, Environment, WebSocketThread, Store

\* A restart leaves open what was open: nothing is claimed of the tables then.
LEMMA RestartAll ==
    ASSUME IInv, Restart
    PROVE  IInv'
<1>1. BookInv'
  BY RestartStep DEF IInv
<1>2. bounds \in [Events -> Nat] /\ Now \in Nat \ {0}
  BY HistFacts DEF IInv, BookInv, TypeOK
<1>3. RowInv'
  <2>1. spc' = "wait" /\ row' = NoRow /\ ts' = 0
    BY DEF Restart
  <2>2. row'.ts <= ts'
    BY <2>1 DEF NoRow
  <2>3. QED
    BY <2>1, <2>2 DEF RowInv, SampleIsReal
<1>4. GapInv'
  <2>1. bounds'["restart"] > 0 /\ state' = "INIT" /\ pc' = "idle"
    BY <1>2, SpendEffect DEF Restart, Events
  <2>2. QED
    BY <2>1 DEF GapInv
<1>5. QED
  BY <1>1, <1>3, <1>4 DEF IInv

\* The initial states.
LEMMA InitIInv ==
    ASSUME Init
    PROVE  IInv
<1>1. /\ hist = <<FirstChange>> /\ up = FALSE /\ wire = <<>> /\ state = "INIT" /\ book = {}
      /\ seq = NoSeq /\ prev = NoSeq /\ ts = 0 /\ resyncs = 0 /\ pc = "idle" /\ msg = 0
      /\ spc = "wait" /\ row = NoRow /\ synced = [seq |-> NoSeq, status |-> "INIT"]
      /\ openGaps = 0 /\ running = 0 /\ bounds = [e \in Events |-> 0]
  BY DEF Init
<1>2. Now = 1 /\ DOMAIN hist = {1} /\ hist[1] = FirstChange /\ DOMAIN wire = {}
  BY <1>1 DEF Now
<1>3. TypeOK
  <2>1. HistOK
    BY <1>1 DEF HistOK, FirstChange, SeqNos
  <2>2. wire \in Seq(Announced)
    BY <1>1, EmptySeq
  <2>3. row \in [book : SUBSET Levels, ts : 0 .. Now, seq : SeqNos,
                 factors : SUBSET Levels, status : States]
    BY <1>1, <1>2 DEF NoRow, SeqNos, States
  <2>4. bounds \in [Events -> Nat]
    BY <1>1
  <2>5. ts \in 0 .. Now /\ msg \in 0 .. Now
    BY <1>1, <1>2
  <2>6. /\ up \in BOOLEAN /\ state \in States /\ book \in SUBSET Levels
        /\ seq \in SeqNos /\ prev \in SeqNos /\ resyncs \in Nat
        /\ synced \in [seq : SeqNos, status : States]
        /\ openGaps \in Nat /\ running \in Nat
    BY <1>1 DEF States, SeqNos
  <2>7. QED
    BY <2>1, <2>2, <2>3, <2>4, <2>5, <2>6, <1>1 DEF TypeOK
<1>4. Chained /\ Numbered
  BY <1>2 DEF Chained, Numbered, FirstChange
<1>5. InOrder /\ Complete /\ Placed /\ Real
  BY <1>1, <1>2 DEF InOrder, Complete, Placed, Real
<1>6. RowInv
  BY <1>1 DEF RowInv, SampleIsReal, NoRow
<1>7. GapInv
  BY <1>1 DEF GapInv
<1>8. QED
  BY <1>3, <1>4, <1>5, <1>6, <1>7 DEF IInv, BookInv

\* Every step of the system.
LEMMA StepIInv ==
    ASSUME IInv, [Next]_vars
    PROVE  IInv'
<1>1. BookInv /\ RowInv /\ GapInv
  BY DEF IInv
<1>2. CASE UNCHANGED vars
  <2>1. /\ UNCHANGED <<hist, up, wire, state, book, seq, prev, ts, resyncs, pc, msg, spc, row,
                       synced, openGaps, running, bounds>>
        /\ Now' = Now /\ Announced' = Announced /\ Seen' = Seen
    BY <1>2 DEF vars, exchange, local, thread, sampler, tables, Now, Announced, Seen
  <2>2. TypeOK'
    BY <2>1, <1>1 DEF BookInv, TypeOK, HistOK
  <2>3. Chained' /\ Numbered' /\ InOrder' /\ Complete'
    BY <2>1, <1>1 DEF BookInv, Chained, Numbered, InOrder, Complete
  <2>4. Placed' /\ Real'
    BY <2>1, <1>1 DEF BookInv, Placed, Real, Trusted
  <2>5. RowInv' /\ GapInv'
    BY <2>1, <1>1 DEF RowInv, SampleIsReal, Trusted, GapInv
  <2>6. QED
    BY <2>2, <2>3, <2>4, <2>5 DEF IInv, BookInv
<1>3. CASE Restart
  BY <1>3, RestartAll
<1>4. CASE Next /\ ~Restart
  <2>1. GapInv'
    BY <1>1, <1>4, GapStep
  <2>2. CASE SnapshotThread
    BY <2>1, <2>2, <1>1, SamplerStep DEF IInv
  <2>3. CASE ~SnapshotThread
    <3>1. \/ \E l \in Levels : Publish(l) \/ PublishReset(l)
          \/ Lose \/ Drop \/ Connect \/ WebSocketThread
      BY <1>4, <2>3 DEF Next, Environment
    <3>2. BookInv' /\ Onward
      BY <3>1, <1>1, OutsideStep, ThreadStep
    <3>3. QED
      BY <2>1, <3>2, <1>1, RowFrame DEF IInv
  <2>4. QED
    BY <2>2, <2>3
<1>5. QED
  BY <1>2, <1>3, <1>4

-----------------------------------------------------------------------------
(* The theorems.                                                           *)

\* The inductive invariant holds of the realtime order book.
THEOREM Invariance == Spec => []IInv
<1>1. Init => IInv
  BY InitIInv
<1>2. IInv /\ [Next]_vars => IInv'
  BY StepIInv
<1>3. QED
  BY <1>1, <1>2, PTL DEF Spec

\* Every variable keeps its type: in particular the times that messages,
\* book and record carry are times of the exchange's changes.
THEOREM TypeCorrect == Spec => []TypeOK
<1>1. IInv => TypeOK
  BY DEF IInv, BookInv
<1>2. QED
  BY <1>1, Invariance, PTL

\* A running book is the exchange's at the change whose number and time it
\* carries, unless its numbers started again and messages were lost.
THEOREM Mirror == Spec => []TrustedBookIsMirror
<1>1. IInv => TrustedBookIsMirror
  BY DEF IInv, BookInv, Real, TrustedBookIsMirror, BookIsMirror
<1>2. QED
  BY <1>1, Invariance, PTL

\* What the snapshot thread reads without the lock is a book of the exchange,
\* stored under a time that is not before it.
THEOREM Samples == Spec => []SampleIsReal
<1>1. IInv => SampleIsReal
  BY DEF IInv, RowInv
<1>2. QED
  BY <1>1, Invariance, PTL

\* A gap is open in the table exactly while a snapshot is awaited, as long as
\* no transaction fails and the collector runs.
THEOREM Gaps == Spec => []GapsFollowState
<1>1. IInv => GapsFollowState
  BY DEF IInv, BookInv, TypeOK, Placed, GapInv, GapsFollowState
<1>2. QED
  BY <1>1, Invariance, PTL

-----------------------------------------------------------------------------
(* Refinement: OrderBook implements BookFeed.                              *)

\* A step that leaves what the feed shows as it is.
LEMMA FeedStutter ==
    ASSUME UNCHANGED <<hist, state, book, ts>>, Trusted' = Trusted
    PROVE  UNCHANGED Feed!vars
BY DEF Feed!vars

\* A step after which the book may not be used.
LEMMA FeedBlind ==
    ASSUME UNCHANGED hist, ts' \in {ts, 0}, Trusted' => Trusted,
           Trusted' => state' # "RUNNING"
    PROVE  Feed!GoBlind
<1>1. [i \in DOMAIN hist |-> hist[i].book]' = [i \in DOMAIN hist |-> hist[i].book]
  OBVIOUS
<1>2. (Trusted /\ state = "RUNNING")' = FALSE
  OBVIOUS
<1>3. (IF Trusted THEN ts ELSE 0)' \in {IF Trusted THEN ts ELSE 0, 0}
  OBVIOUS
<1>4. (IF Trusted /\ state = "RUNNING" THEN book ELSE {})' = {}
  OBVIOUS
<1>5. QED
  BY <1>1, <1>2, <1>3, <1>4 DEF Feed!GoBlind, Feed!Blinded

\* A change of the exchange's book, whether the numbers go on or not.
LEMMA FeedPublish ==
    ASSUME UNCHANGED <<state, book, ts>>, Trusted' => Trusted,
           \E d \in SUBSET Levels :
              [i \in DOMAIN hist' |-> hist'[i].book] =
                 Append([i \in DOMAIN hist |-> hist[i].book], d)
    PROVE  Feed!Publish
<1>1. CASE Trusted' = Trusted
  BY <1>1 DEF Feed!Publish
<1>2. CASE ~Trusted'
  BY <1>2 DEF Feed!Publish, Feed!Blinded
<1>3. Trusted \in BOOLEAN /\ Trusted' \in BOOLEAN
  BY DEF Trusted
<1>4. QED
  BY <1>1, <1>2, <1>3

\* The steps of the WebSocket thread.
LEMMA FeedThread ==
    ASSUME BookInv, WebSocketThread
    PROVE  [Feed!Next]_(Feed!vars)
<1>1. ASSUME UNCHANGED bounds PROVE Trusted' = Trusted
  BY <1>1 DEF Trusted
<1>2. CASE UpdateDropped \/ HandOver
  <2>1. UNCHANGED <<hist, state, book, ts, bounds>>
    BY <1>2 DEF UpdateDropped, HandOver, Receive, local, exchange
  <2>2. QED
    BY <2>1, <1>1, FeedStutter
<1>3. CASE UpdateApplied
  <2>1. UNCHANGED <<hist, state, bounds>> /\ state = "RUNNING"
    BY <1>3 DEF UpdateApplied, Receive
  <2>2. Trusted' = Trusted
    BY <2>1, <1>1
  <2>3. Trusted => ts' = ts + 1 /\ ts' \in DOMAIN hist /\ book' = hist[ts'].book
    BY <1>3, AppliedStep
  <2>4. CASE Trusted
    <3>1. Feed!Follow
      BY <2>1, <2>2, <2>3, <2>4 DEF Feed!Follow
    <3>2. QED
      BY <3>1 DEF Feed!Next
  <2>5. CASE ~Trusted
    BY <2>1, <2>2, <2>5 DEF Feed!vars
  <2>6. QED
    BY <2>4, <2>5
<1>4. CASE UpdateRefused \/ PrepareResync \/ SnapshotArrives
  <2>1. /\ UNCHANGED <<hist, ts, bounds>>
        /\ state' # "RUNNING"
    BY <1>4 DEF UpdateRefused, PrepareResync, SnapshotArrives, Cleared, Receive, local, exchange
  <2>2. Feed!GoBlind
    BY <2>1, <1>1, FeedBlind
  <2>3. QED
    BY <2>2 DEF Feed!Next
<1>5. CASE ApplySnapshot
  <2>1. UNCHANGED <<hist, bounds>> /\ Trusted' = Trusted
    BY <1>5, <1>1 DEF ApplySnapshot, exchange
  <2>2. /\ state \in {"INIT", "RESYNCING"} /\ state' = "RUNNING"
        /\ ts' \in DOMAIN hist /\ ts' >= ts /\ book' = hist[ts'].book
    BY <1>5, ApplySnapshotStep
  <2>3. CASE Trusted
    <3>1. Feed!Resync
      BY <2>1, <2>2, <2>3 DEF Feed!Resync
    <3>2. QED
      BY <3>1 DEF Feed!Next
  <2>4. CASE ~Trusted
    BY <2>1, <2>4 DEF Feed!vars
  <2>5. QED
    BY <2>3, <2>4
<1>6. CASE Store
  <2>1. /\ UNCHANGED <<hist, state, book, ts>>
        /\ bounds'["lost"] = bounds["lost"] /\ bounds'["reset"] = bounds["reset"]
    BY <1>6, StoreEffect
  <2>2. QED
    BY <2>1, FeedStutter DEF Trusted
<1>7. QED
  BY <1>2, <1>3, <1>4, <1>5, <1>6 DEF WebSocketThread, Store

\* The other steps.
LEMMA FeedRest ==
    ASSUME BookInv, Environment \/ Connect \/ SnapshotThread
    PROVE  [Feed!Next]_(Feed!vars)
<1>1. bounds \in [Events -> Nat]
  BY DEF BookInv, TypeOK
<1>2. ASSUME NEW l \in Levels, Publish(l)
      PROVE  Feed!Publish
  <2>1. Change(l, Last.seq + 1) /\ bounds' = bounds
    BY <1>2 DEF Publish
  <2>2. Last.seq + 1 \in Nat \ {0}
    BY HistFacts DEF Last
  <2>3. UNCHANGED <<state, book, ts>> /\ Trusted' = Trusted
    BY <2>1 DEF Change, local, Trusted
  <2>4. \E d \in SUBSET Levels : [i \in DOMAIN hist' |-> hist'[i].book] =
                                 Append([i \in DOMAIN hist |-> hist[i].book], d)
    BY <2>1, <2>2, <1>1, ChangeStep
  <2>5. QED
    BY <2>3, <2>4, FeedPublish
<1>3. ASSUME NEW l \in Levels, PublishReset(l)
      PROVE  Feed!Publish
  <2>1. Change(l, 1) /\ Spend("reset", MaxResets)
    BY <1>3 DEF PublishReset
  <2>2. /\ bounds' \in [Events -> Nat] /\ bounds'["reset"] # 0
        /\ bounds'["lost"] = bounds["lost"]
    BY <2>1, <1>1, SpendEffect DEF Events
  <2>3. UNCHANGED <<state, book, ts>> /\ (Trusted' => Trusted)
    BY <2>1, <2>2 DEF Change, local, Trusted
  <2>4. \E d \in SUBSET Levels : [i \in DOMAIN hist' |-> hist'[i].book] =
                                 Append([i \in DOMAIN hist |-> hist[i].book], d)
    <3>1. 1 \in Nat \ {0}
      OBVIOUS
    <3>2. bounds'["reset"] = 0 => bounds["reset"] = 0 /\ 1 = Last.seq + 1
      BY <2>2
    <3>3. QED
      BY <3>1, <3>2, <2>1, <2>2, ChangeStep
  <2>5. QED
    BY <2>3, <2>4, FeedPublish
<1>4. CASE Lose
  <2>1. /\ UNCHANGED <<hist, state, book, ts>>
        /\ bounds'["lost"] > 0 /\ bounds'["reset"] = bounds["reset"]
    BY <1>4, <1>1, SpendEffect DEF Lose, local, Events
  <2>2. Trusted' => Trusted
    BY <2>1 DEF Trusted
  <2>3. CASE Trusted' = Trusted
    BY <2>1, <2>3, FeedStutter
  <2>4. CASE ~Trusted'
    BY <2>1, <2>2, <2>4, FeedBlind DEF Feed!Next
  <2>5. Trusted' = Trusted \/ ~Trusted'
    BY <2>2 DEF Trusted
  <2>6. QED
    BY <2>3, <2>4, <2>5
<1>5. CASE Drop \/ Connect
  <2>1. /\ UNCHANGED <<hist, state, book, ts>>
        /\ bounds' = bounds \/ Spend("drop", MaxDrops)
    BY <1>5 DEF Drop, Connect, local
  <2>2. bounds'["lost"] = bounds["lost"] /\ bounds'["reset"] = bounds["reset"]
    BY <2>1, <1>1, SpendEffect DEF Events
  <2>3. QED
    BY <2>1, <2>2, FeedStutter DEF Trusted
<1>6. CASE Restart
  <2>1. /\ UNCHANGED hist /\ state' = "INIT" /\ ts' = 0
        /\ bounds'["lost"] = bounds["lost"] /\ bounds'["reset"] = bounds["reset"]
    BY <1>6, <1>1, SpendEffect DEF Restart, Events
  <2>2. QED
    BY <2>1, FeedBlind DEF Trusted, Feed!Next
<1>7. CASE SnapshotThread
  <2>1. UNCHANGED <<hist, state, book, ts, bounds>>
    BY <1>7 DEF SnapshotThread, SampleTick, SampleCopy, SampleNothing, SampleTs, SampleSeq,
       SampleFactors, SampleSyncSeq, SampleSyncState, SamplePut, Sample, local, exchange
  <2>2. QED
    BY <2>1, FeedStutter DEF Trusted
<1>8. QED
  BY <1>2, <1>3, <1>4, <1>5, <1>6, <1>7 DEF Environment, Feed!Next

\* The order book implements the feed: while it can be trusted it moves from
\* each of the exchange's books to the next, or goes blind until a snapshot
\* that is not older than what it knew.
THEOREM Refinement == Spec => ImplementsFeed
<1>1. Init => Feed!Init
  <2>1. SUFFICES ASSUME Init PROVE Feed!Init
    OBVIOUS
  <2>2. hist = <<FirstChange>> /\ state = "INIT" /\ ts = 0
    BY <2>1 DEF Init
  <2>3. [i \in DOMAIN hist |-> hist[i].book] = <<Levels>>
    BY <2>2 DEF FirstChange
  <2>4. QED
    BY <2>2, <2>3 DEF Feed!Init
<1>2. IInv /\ [Next]_vars => [Feed!Next]_(Feed!vars)
  <2>1. SUFFICES ASSUME IInv, [Next]_vars PROVE [Feed!Next]_(Feed!vars)
    OBVIOUS
  <2>2. CASE UNCHANGED vars
    BY <2>2, FeedStutter DEF vars, exchange, local, Trusted
  <2>3. CASE Next
    BY <2>1, <2>3, FeedThread, FeedRest DEF Next, IInv
  <2>4. QED
    BY <2>1, <2>2, <2>3
<1>3. QED
  BY <1>1, <1>2, Invariance, PTL DEF Spec, ImplementsFeed, Feed!Spec
=============================================================================
