-------------------------- MODULE TradeFeed_proofs --------------------------
(***************************************************************************)
(* Proofs about TradeFeed and the modules it is made of, for any numbers   *)
(* of trades, pages, rows, breaks and failures, and any trades that differ  *)
(* between the two sides.                                                  *)
(***************************************************************************)
EXTENDS TradeFeed, WellFoundedInduction, TLAPS

USE StoreAssumption, FeedAssumption DEF StoreAssumption, FeedAssumption

-----------------------------------------------------------------------------
(* The inductive invariant.                                                *)

WsOK == at = "recover" => receiver = "on" /\ beat = "on"

\* A trade is counted once, in flight or on its way to the table.
Queued == /\ {inbox, queue, batch} \subseteq Seq(Ids)
          /\ made \in Before .. MaxTrades
          /\ Len(queue) + Len(inbox) + Len(batch) <= made - Before

Places == {"idle", "look", "register", "insert", "sync", "done", "failed"}

StoreOK == /\ policy \in {"ws", "strict"}
           /\ trades \in [Ids -> Sources \cup {"none"}]
           /\ dAt \in [Downloaders -> Places]
           /\ records \in [Downloaders -> SUBSET Ids]
           /\ dBad \in [Downloaders -> SUBSET (Ids \cap Odd)]
           /\ last \in [Downloaders -> 0 .. MaxTrades]
           /\ sync \in 0 .. MaxTrades
           /\ wBad \subseteq Ids \cap Odd
           /\ open \subseteq Ids \cap Odd

\* What was found to differ from a stored row still does when it is registered.
Conflicts == /\ \A k \in wBad : trades[k] = "REST"
             /\ \A d \in Downloaders : \A k \in dBad[d] : trades[k] = "WS" /\ policy = "strict"
             /\ \A k \in open : trades[k] \in IF policy = "ws" THEN {"REST"} ELSE Sources

RangeSteps == {"range_event", "range_gap", "range_download", "range_mark", "range_finish"}

\* A recovery has rows of its own, and its download belongs to it.
RecoveryOK == /\ from \in 0 .. MaxTrades /\ to \in 0 .. MaxTrades
              /\ step \in {"event", "download"} => from # 0
              /\ status \in Statuses /\ gap \in GapStatuses
              /\ rangeEvent \in Statuses /\ tradeEvent \in Statuses
              /\ kind \in {"mark", "funding", "oi"}
              /\ step \in RangeSteps => rangeEvent \in {NoRow, "RUNNING"}
              /\ step # "download" => dAt["recovery"] = "idle"
              /\ step \notin {"none", "download", "finish"} => tradeEvent = NoRow
              /\ step \in {"download", "finish"} => tradeEvent = "RUNNING"

\* Before a row says so, the window is stored, and the trades are, or are among
\* the rows still to insert.
Backing ==
    /\ step \in {"range_mark", "range_finish"} /\ status = "RECOVERED"
          => covered \/ kind = "funding"
    /\ step = "range_finish" /\ status = "RECOVERED" => gap = "RECOVERED"
    /\ dAt["recovery"] \in {"look", "register", "insert", "sync"}
          => Reach(from) \subseteq Stored \cup records["recovery"]
    /\ dAt["recovery"] = "sync" => records["recovery"] = {}
    /\ dAt["recovery"] = "done" => Reach(from) \subseteq Stored
    /\ step = "finish" /\ status = "RECOVERED" => Reach(from) \subseteq Stored

IInv == WsOK /\ Queued /\ StoreOK /\ Conflicts /\ RecoveryOK /\ Backing /\ RecoveredIsFetched

-----------------------------------------------------------------------------
(* Numbers and sequences.                                                  *)

LEMMA LeastOf ==
    ASSUME NEW S \in SUBSET Nat, S # {}
    PROVE  Min(S) \in S /\ \A x \in S : Min(S) <= x
<1>1. \E x \in S : \A y \in S : ~ (<<y, x>> \in OpToRel(<, Nat))
  BY WFMin, NatLessThanWellFounded
<1>2. PICK x \in S : \A y \in S : ~ (y < x)
  BY <1>1 DEF OpToRel
<1>3. \A y \in S : x <= y
  BY <1>2
<1> QED BY <1>3 DEF Min

LEMMA GreatestOf ==
    ASSUME NEW n \in Nat, NEW S \in SUBSET (0 .. n), S # {}
    PROVE  Max(S) \in S /\ \A x \in S : x <= Max(S)
<1> DEFINE T == {n - x : x \in S}
<1>0. \A x \in S : x \in Nat /\ x <= n /\ n - x \in Nat
  OBVIOUS
<1>1. T \subseteq Nat /\ T # {}
  BY <1>0
<1>2. \E x \in T : \A y \in T : ~ (<<y, x>> \in OpToRel(<, Nat))
  <2> HIDE DEF T
  <2> QED BY <1>1, WFMin, NatLessThanWellFounded
<1>3. PICK x \in T : \A y \in T : ~ (y < x)
  BY <1>1, <1>2 DEF OpToRel
<1>4. PICK m \in S : x = n - m
  OBVIOUS
<1>5. \A y \in S : y <= m
  <2> TAKE y \in S
  <2>1. n - y \in T /\ ~ (n - y < n - m)
    BY <1>3, <1>4
  <2> QED BY <1>0, <2>1
<1> QED BY <1>5 DEF Max

\* The oldest trade of the last page is a trade, or 1.
LEMMA LastIsTrade ==
    ASSUME NEW id \in 1 .. MaxTrades + 1, id # 1
    PROVE  LastOf(id) \in 1 .. MaxTrades
<1> DEFINE S == {MaxPages} \cup
                {n \in 1 .. MaxPages : Oldest(id, n) <= Max({Past, 1})}
<1>1. S \subseteq 1 .. MaxPages /\ S # {} /\ S \subseteq Nat
  OBVIOUS
<1>2. Min(S) \in 1 .. MaxPages
  <2> HIDE DEF S
  <2> QED BY <1>1, LeastOf
<1>3. LastOf(id) = Oldest(id, Min(S))
  BY DEF LastOf
<1> HIDE DEF S
<1> DEFINE m == Page * Min(S)
<1>4. m \in Nat \ {0}
  BY <1>2
<1>5. LastOf(id) = IF id > m THEN id - m ELSE 1
  BY <1>3 DEF Oldest
<1> HIDE DEF m
<1> QED BY <1>4, <1>5

\* A batch is the head of the queue.
LEMMA TakeEffect ==
    ASSUME NEW s \in Seq(Ids), NEW n \in Nat, n <= Len(s)
    PROVE  /\ SubSeq(s, 1, n) \in Seq(Ids) /\ Len(SubSeq(s, 1, n)) = n
           /\ SubSeq(s, n + 1, Len(s)) \in Seq(Ids)
           /\ Len(SubSeq(s, n + 1, Len(s))) = Len(s) - n
OBVIOUS

LEMMA RangeOf ==
    ASSUME NEW s \in Seq(Ids)
    PROVE  Range(s) \subseteq Ids
BY DEF Range

-----------------------------------------------------------------------------
(* The table and the downloads.                                            *)

\* What a step of the store may do to the table.
Safe == \A k \in Ids : trades[k] # "none" => trades'[k] = trades[k]

LEMMA InsertEffect ==
    ASSUME StoreOK, NEW rows, NEW source \in Sources, trades' = Insert(rows, source)
    PROVE  /\ trades' \in [Ids -> Sources \cup {"none"}]
           /\ Safe
           /\ \A k \in Ids \cap rows : trades'[k] # "none"
           /\ Stored' = Stored \cup (Ids \cap rows)
BY DEF StoreOK, Insert, Safe, Stored, Sources

LEMMA ConflictsStay ==
    ASSUME StoreOK, Conflicts, Safe,
           wBad' \subseteq wBad, open' \subseteq open \cup wBad, UNCHANGED <<dBad, policy>>
    PROVE  Conflicts' /\ open' \subseteq Ids \cap Odd
BY DEF StoreOK, Conflicts, Safe, Sources

LEMMA WriterStep ==
    ASSUME StoreOK, Conflicts, Queued, Writer
    PROVE  StoreOK' /\ Conflicts' /\ Safe
<1>1. batch \in Seq(Ids)
  BY DEF Queued
<1>2. CASE Take
  BY <1>2 DEF Take, downloadVars, StoreOK, Conflicts, Safe
<1>3. CASE Look
  <2>1. UNCHANGED <<policy, trades, open, downloadVars>>
    BY <1>3 DEF Look
  <2>2. wBad' \subseteq Ids \cap Odd /\ \A k \in wBad' : trades[k] = "REST"
    <3>1. \A k \in Range(batch) : k \in Ids
      BY <1>1, RangeOf
    <3>2. \A k \in Ids : Differs(k, "WS") => k \in Odd /\ trades[k] = "REST"
      BY DEF Differs, StoreOK, Sources
    <3> QED BY <1>3, <3>1, <3>2 DEF Look
  <2> QED BY <2>1, <2>2 DEF downloadVars, StoreOK, Conflicts, Safe
<1>4. CASE Register
  <2>1. /\ UNCHANGED <<policy, trades, downloadVars>>
        /\ wBad' \subseteq wBad /\ open' \subseteq open \cup wBad
    BY <1>4 DEF Register
  <2>2. Safe
    BY <2>1 DEF Safe
  <2>3. Conflicts' /\ open' \subseteq Ids \cap Odd
    BY <2>1, <2>2, ConflictsStay DEF downloadVars
  <2> QED BY <2>1, <2>2, <2>3 DEF downloadVars, StoreOK
<1>5. CASE Flush
  <2>1. UNCHANGED <<policy, open, downloadVars>> /\ wBad' = {}
    BY <1>5 DEF Flush
  <2>2. trades' = Insert(Range(batch) \ wBad, "WS") \/ trades' = trades
    BY <1>5 DEF Flush
  <2>3. trades' \in [Ids -> Sources \cup {"none"}] /\ Safe
    BY <2>2, InsertEffect DEF StoreOK, Safe, Sources
  <2>4. Conflicts' /\ open' \subseteq Ids \cap Odd
    BY <2>1, <2>3, ConflictsStay DEF downloadVars
  <2> QED BY <2>1, <2>3, <2>4 DEF downloadVars, StoreOK
<1> QED BY <1>2, <1>3, <1>4, <1>5 DEF Writer

LEMMA AtType ==
    ASSUME dAt \in [Downloaders -> Places], NEW d \in Downloaders, NEW where \in Places,
           At(d, where)
    PROVE  dAt' \in [Downloaders -> Places]
BY DEF At

LEMMA SetType ==
    ASSUME NEW S, NEW f \in [Downloaders -> SUBSET S], NEW d \in Downloaders,
           NEW v \in SUBSET S
    PROVE  [f EXCEPT ![d] = v] \in [Downloaders -> SUBSET S]
OBVIOUS

\* An exception takes the locals of the download with it.
LEMMA LeavesStep ==
    ASSUME StoreOK, Conflicts, NEW d \in Downloaders, NEW how \in Places, Leaves(d, how),
           UNCHANGED <<policy, trades, open, wBad>>, sync' \in 0 .. MaxTrades
    PROVE  StoreOK' /\ Conflicts' /\ Safe
<1>1. /\ dAt' \in [Downloaders -> Places]
      /\ records' \in [Downloaders -> SUBSET Ids]
      /\ last' \in [Downloaders -> 0 .. MaxTrades]
  BY DEF StoreOK, Leaves, At
<1>2. /\ dBad' \in [Downloaders -> SUBSET (Ids \cap Odd)]
      /\ \A e \in Downloaders : dBad'[e] \subseteq dBad[e]
  BY DEF StoreOK, Leaves
<1>3. StoreOK'
  BY <1>1, <1>2 DEF StoreOK
<1>4. Conflicts'
  BY <1>2 DEF Conflicts
<1> QED BY <1>3, <1>4 DEF Safe

LEMMA FailsStep ==
    ASSUME StoreOK, Conflicts, NEW d \in Downloaders, Fails(d),
           UNCHANGED <<policy, trades, open, writerVars, sync>>
    PROVE  StoreOK' /\ Conflicts' /\ Safe
<1>1. Leaves(d, Raised) /\ Raised \in Places
  BY DEF Fails, Raised, Places
<1>2. UNCHANGED wBad /\ sync' \in 0 .. MaxTrades
  BY DEF writerVars, StoreOK
<1> QED BY <1>1, <1>2, LeavesStep

LEMMA FetchStep ==
    ASSUME StoreOK, Conflicts, NEW d \in Downloaders, NEW id \in 1 .. MaxTrades + 1,
           Fetch(d, id)
    PROVE  StoreOK' /\ Conflicts' /\ Safe /\ UNCHANGED trades
<1>1. UNCHANGED <<policy, trades, open, writerVars, sync>>
  BY DEF Fetch
<1>2. CASE Fails(d)
  BY <1>1, <1>2, FailsStep
<1>3. CASE ~ Fails(d)
  <2>1. /\ records' = [records EXCEPT ![d] = Reach(id)]
        /\ last' = [last EXCEPT ![d] = IF id = 1 THEN 0 ELSE LastOf(id)]
        /\ At(d, "look") /\ UNCHANGED dBad
    BY <1>3 DEF Fetch
  <2>2. Reach(id) \subseteq Ids
    BY DEF Reach
  <2>3. (IF id = 1 THEN 0 ELSE LastOf(id)) \in 0 .. MaxTrades
    BY LastIsTrade
  <2>4. /\ records' \in [Downloaders -> SUBSET Ids]
        /\ last' \in [Downloaders -> 0 .. MaxTrades]
    BY <2>1, <2>2, <2>3 DEF StoreOK
  <2>5. dAt' \in [Downloaders -> Places]
    BY <2>1, AtType DEF StoreOK, Places
  <2> QED BY <1>1, <2>1, <2>4, <2>5 DEF writerVars, StoreOK, Conflicts, Safe
<1> QED BY <1>1, <1>2, <1>3

LEMMA LookStep ==
    ASSUME StoreOK, Conflicts, NEW d \in Downloaders, RestLook(d)
    PROVE  StoreOK' /\ Conflicts' /\ Safe
<1> DEFINE differing == {k \in records[d] : Differs(k, "REST")}
<1>1. UNCHANGED <<policy, trades, open, writerVars, sync>>
  BY DEF RestLook
<1>2. CASE Fails(d)
  BY <1>1, <1>2, FailsStep
<1>3. CASE ~ Fails(d)
  <2>1. /\ records' = [records EXCEPT ![d] = @ \ differing]
        /\ dBad' = [dBad EXCEPT ![d] = IF policy = "ws" THEN {} ELSE differing]
        /\ At(d, IF dBad'[d] = {} THEN "insert" ELSE "register")
        /\ UNCHANGED <<last, faults>>
    BY <1>3 DEF RestLook
  <2>2. \A k \in differing : k \in Ids \cap Odd /\ trades[k] = "WS"
    BY DEF Differs, StoreOK, Sources
  <2> HIDE DEF differing
  <2>3. /\ records' \in [Downloaders -> SUBSET Ids]
        /\ dBad' \in [Downloaders -> SUBSET (Ids \cap Odd)]
        /\ dAt' \in [Downloaders -> Places]
    <3>1. records[d] \ differing \in SUBSET Ids
      BY DEF StoreOK
    <3>2. (IF policy = "ws" THEN {} ELSE differing) \in SUBSET (Ids \cap Odd)
      BY <2>2
    <3>3. dAt' \in [Downloaders -> Places]
      BY <2>1, AtType DEF StoreOK, Places
    <3> QED BY <2>1, <3>1, <3>2, <3>3, SetType DEF StoreOK
  <2>4. \A e \in Downloaders : \A k \in dBad'[e] : trades[k] = "WS" /\ policy = "strict"
    BY <2>1, <2>2 DEF StoreOK, Conflicts
  <2> QED BY <1>1, <2>1, <2>3, <2>4 DEF writerVars, StoreOK, Conflicts, Safe
<1> QED BY <1>2, <1>3

LEMMA RegisterStep ==
    ASSUME StoreOK, Conflicts, NEW d \in Downloaders, RestRegister(d)
    PROVE  StoreOK' /\ Conflicts' /\ Safe
<1>1. UNCHANGED <<policy, trades, writerVars, sync>>
  BY DEF RestRegister
<1>2. CASE Fails(d) /\ UNCHANGED open
  BY <1>1, <1>2, FailsStep
<1>3. CASE ~ (Fails(d) /\ UNCHANGED open)
  <2>1. /\ open' = open \cup dBad[d]
        /\ dBad' = [dBad EXCEPT ![d] = {}]
        /\ At(d, "insert")
        /\ UNCHANGED <<records, last, faults>>
    BY <1>3 DEF RestRegister
  <2>2. /\ dBad' \in [Downloaders -> SUBSET (Ids \cap Odd)]
        /\ \A e \in Downloaders : dBad'[e] \subseteq dBad[e]
        /\ dAt' \in [Downloaders -> Places]
        /\ open' \subseteq Ids \cap Odd
    <3>1. dBad' \in [Downloaders -> SUBSET (Ids \cap Odd)]
      BY <2>1, SetType DEF StoreOK
    <3>2. \A e \in Downloaders : dBad'[e] \subseteq dBad[e]
      BY <2>1 DEF StoreOK
    <3>3. dAt' \in [Downloaders -> Places]
      BY <2>1, AtType DEF StoreOK, Places
    <3>4. open' \subseteq Ids \cap Odd
      BY <2>1 DEF StoreOK
    <3> QED BY <3>1, <3>2, <3>3, <3>4
  <2>3. \A k \in open' : trades[k] \in IF policy = "ws" THEN {"REST"} ELSE Sources
    BY <2>1 DEF Conflicts, Sources
  <2> QED BY <1>1, <2>1, <2>2, <2>3 DEF writerVars, StoreOK, Conflicts, Safe
<1> QED BY <1>2, <1>3

LEMMA InsertStep ==
    ASSUME StoreOK, Conflicts, NEW d \in Downloaders, RestInsert(d)
    PROVE  StoreOK' /\ Conflicts' /\ Safe
<1>1. UNCHANGED <<policy, open, writerVars, sync>>
  BY DEF RestInsert
<1>2. CASE Fails(d) /\ UNCHANGED trades
  BY <1>1, <1>2, FailsStep
<1>3. CASE ~ (Fails(d) /\ UNCHANGED trades)
  <2>1. /\ trades' = Insert(FirstRows(d), "REST") \/ trades' = trades
        /\ records' = [records EXCEPT ![d] = @ \ FirstRows(d)] \/ records' = records
        /\ \E where \in {"sync", "insert"} : At(d, where)
        /\ UNCHANGED <<dBad, last>>
    BY <1>3 DEF RestInsert
  <2>2. /\ records' \in [Downloaders -> SUBSET Ids]
        /\ dAt' \in [Downloaders -> Places]
    <3>1. records[d] \ FirstRows(d) \in SUBSET Ids
      BY DEF StoreOK
    <3>2. records' \in [Downloaders -> SUBSET Ids]
      BY <2>1, <3>1, SetType DEF StoreOK
    <3>3. dAt' \in [Downloaders -> Places]
      BY <2>1, AtType DEF StoreOK, Places
    <3> QED BY <3>2, <3>3
  <2>3. trades' \in [Ids -> Sources \cup {"none"}] /\ Safe
    BY <2>1, InsertEffect DEF StoreOK, Safe, Sources
  <2>4. Conflicts'
    BY <1>1, <2>1, <2>3, ConflictsStay DEF writerVars
  <2> QED BY <1>1, <2>1, <2>2, <2>3, <2>4 DEF writerVars, StoreOK
<1> QED BY <1>2, <1>3

LEMMA SyncStep ==
    ASSUME StoreOK, Conflicts, NEW d \in Downloaders, SyncState(d)
    PROVE  StoreOK' /\ Conflicts' /\ Safe
<1>1. UNCHANGED <<policy, trades, open, writerVars>>
  BY DEF SyncState
<1>2. CASE Fails(d) /\ UNCHANGED sync
  BY <1>1, <1>2, FailsStep
<1>3. CASE ~ (Fails(d) /\ UNCHANGED sync)
  <2>1. sync' = last[d] /\ Leaves(d, "done")
    BY <1>3 DEF SyncState
  <2>2. sync' \in 0 .. MaxTrades
    BY <2>1 DEF StoreOK
  <2>3. UNCHANGED <<policy, trades, open, wBad>> /\ "done" \in Places
    BY <1>1 DEF writerVars, Places
  <2> QED BY <2>1, <2>2, <2>3, LeavesStep
<1> QED BY <1>2, <1>3

LEMMA StoreStep ==
    ASSUME StoreOK, Conflicts, NEW d \in Downloaders, DownloadStep(d)
    PROVE  StoreOK' /\ Conflicts' /\ Safe
BY LookStep, RegisterStep, InsertStep, SyncStep DEF DownloadStep

-----------------------------------------------------------------------------
(* Frames: what a step of one part leaves to be shown of the others.       *)

LEMMA StoreFrame ==
    ASSUME StoreOK, Conflicts,
           UNCHANGED <<policy, trades, open, dAt, records, dBad, last, sync, wBad>>
    PROVE  StoreOK' /\ Conflicts' /\ Safe
BY DEF StoreOK, Conflicts, Safe

LEMMA StoredGrows ==
    ASSUME StoreOK, Safe
    PROVE  Stored \subseteq Stored'
BY DEF Stored, Safe, StoreOK

LEMMA RecoveryFrame ==
    ASSUME RecoveryOK, Backing, RecoveredIsFetched, StoreOK, Safe,
           UNCHANGED <<recVars, kind>>,
           dAt'["recovery"] = dAt["recovery"], records'["recovery"] = records["recovery"]
    PROVE  RecoveryOK' /\ Backing' /\ RecoveredIsFetched'
<1>1. Stored \subseteq Stored'
  BY StoredGrows
<1>2. UNCHANGED <<step, status, from, to, rangeEvent, tradeEvent, gap, covered, kind>>
  BY DEF recVars
<1>3. Reach(from)' = Reach(from)
  BY <1>2 DEF Reach, LastOf, Oldest
<1>4. RecoveryOK'
  BY <1>2 DEF RecoveryOK
<1>5. Backing'
  BY <1>1, <1>2, <1>3 DEF Backing
<1>6. RecoveredIsFetched'
  BY <1>1, <1>2, <1>3 DEF RecoveredIsFetched
<1> QED BY <1>4, <1>5, <1>6

LEMMA WsFrame ==
    ASSUME WsOK, at' = "recover" => at = "recover", UNCHANGED <<receiver, beat>>
    PROVE  WsOK'
BY DEF WsOK

LEMMA QueueFrame ==
    ASSUME Queued, UNCHANGED <<inbox, queue, batch, made>>
    PROVE  Queued'
BY DEF Queued

-----------------------------------------------------------------------------
(* The connection, the exchange and the writer.                            *)

LEMMA LoopWs ==
    ASSUME WsOK, Loop \/ Outside \/ Pong
    PROVE  WsOK'
<1>1. CASE Loop
  BY <1>1 DEF Loop, WsOK, Connect, Dial, Subscribe, ReceiveEnds, HeartbeatEnds, GatherReturns,
              Backoff, Gathered
<1>2. CASE Outside
  BY <1>2 DEF Outside, WsOK, PeerCloses, Silence, Close
<1>3. CASE Pong
  BY <1>3 DEF Pong, Hear, WsOK, Gathered
<1> QED BY <1>1, <1>2, <1>3

LEMMA TradeStep == IInv /\ Trade => IInv' /\ Safe
<1> SUFFICES ASSUME IInv, Trade PROVE IInv' /\ Safe
  OBVIOUS
<1>1. /\ made < MaxTrades /\ made' = made + 1
      /\ inbox' = Append(inbox, made + 1) \/ inbox' = inbox
      /\ UNCHANGED <<wsVars, storeVars, recVars, kind>>
  BY DEF Trade
<1>2. UNCHANGED <<policy, trades, open, queue, batch, wBad, dAt, records, dBad, last, sync>>
  BY <1>1 DEF storeVars, writerVars, downloadVars
<1>3. WsOK'
  BY <1>1, WsFrame DEF wsVars, IInv
<1>4. Queued'
  <2>1. made + 1 \in Ids /\ made' \in Before .. MaxTrades
    BY <1>1 DEF IInv, Queued, Ids
  <2>2. inbox' \in Seq(Ids) /\ Len(inbox') <= Len(inbox) + 1 /\ Len(inbox) \in Nat
        /\ Len(inbox') \in Nat /\ Len(queue) \in Nat /\ Len(batch) \in Nat
    <3>1. inbox \in Seq(Ids) /\ queue \in Seq(Ids) /\ batch \in Seq(Ids)
      BY DEF IInv, Queued
    <3>2. Append(inbox, made + 1) \in Seq(Ids) /\ Len(Append(inbox, made + 1)) = Len(inbox) + 1
      BY <2>1, <3>1
    <3>3. Len(inbox) \in Nat /\ Len(queue) \in Nat /\ Len(batch) \in Nat
      BY <3>1
    <3>4. CASE inbox' = inbox
      BY <3>1, <3>3, <3>4
    <3>5. CASE inbox' = Append(inbox, made + 1)
      BY <3>1, <3>2, <3>3, <3>5
    <3> QED BY <1>1, <3>4, <3>5
  <2> QED BY <1>1, <1>2, <2>1, <2>2 DEF IInv, Queued
<1>5. StoreOK' /\ Conflicts' /\ Safe
  BY <1>2, StoreFrame DEF IInv
<1>6. RecoveryOK' /\ Backing' /\ RecoveredIsFetched'
  BY <1>1, <1>2, <1>5, RecoveryFrame DEF IInv
<1> QED BY <1>3, <1>4, <1>5, <1>6 DEF IInv

LEMMA ReceiveStep == IInv /\ Receive => IInv' /\ Safe
<1> SUFFICES ASSUME IInv, Receive PROVE IInv' /\ Safe
  OBVIOUS
<1>1. /\ inbox # <<>> /\ Hear(pong)
      /\ queue' = Append(queue, Head(inbox)) /\ inbox' = Tail(inbox)
      /\ UNCHANGED <<policy, trades, open, batch, wBad, dAt, records, dBad, last, sync,
                     recVars, made, kind>>
  BY DEF Receive, downloadVars
<1>2. WsOK'
  BY <1>1 DEF Hear, Gathered, WsOK
<1>3. Queued'
  <2>1. /\ inbox \in Seq(Ids) /\ queue \in Seq(Ids) /\ Head(inbox) \in Ids
        /\ Tail(inbox) \in Seq(Ids) /\ Len(Tail(inbox)) = Len(inbox) - 1
    BY <1>1 DEF IInv, Queued
  <2>2. queue' \in Seq(Ids) /\ Len(queue') = Len(queue) + 1
    BY <1>1, <2>1
  <2>3. Len(queue) \in Nat /\ Len(inbox) \in Nat /\ Len(batch) \in Nat
    BY DEF IInv, Queued
  <2> QED BY <1>1, <2>1, <2>2, <2>3 DEF IInv, Queued
<1>4. StoreOK' /\ Conflicts' /\ Safe
  BY <1>1, StoreFrame DEF IInv
<1>5. RecoveryOK' /\ Backing' /\ RecoveredIsFetched'
  BY <1>1, <1>4, RecoveryFrame DEF IInv
<1> QED BY <1>2, <1>3, <1>4, <1>5 DEF IInv

LEMMA ConnectionStep == IInv /\ (Connection \/ Environment) => IInv' /\ Safe
<1> SUFFICES ASSUME IInv, Connection \/ Environment PROVE IInv' /\ Safe
  OBVIOUS
<1>1. /\ Loop \/ Outside \/ Pong
      /\ inbox' = inbox \/ inbox' = <<>>
      /\ UNCHANGED <<storeVars, recVars, made, kind>>
  BY DEF Connection, Environment
<1>2. UNCHANGED <<policy, trades, open, queue, batch, wBad, dAt, records, dBad, last, sync>>
  BY <1>1 DEF storeVars, writerVars, downloadVars
<1>3. WsOK'
  BY <1>1, LoopWs DEF IInv
<1>4. Queued'
  <2>1. inbox' \in Seq(Ids) /\ Len(inbox') <= Len(inbox) /\ Len(inbox) \in Nat
        /\ Len(inbox') \in Nat /\ Len(queue) \in Nat /\ Len(batch) \in Nat
    <3>1. inbox \in Seq(Ids) /\ queue \in Seq(Ids) /\ batch \in Seq(Ids)
      BY DEF IInv, Queued
    <3>2. <<>> \in Seq(Ids) /\ Len(<<>>) = 0
      OBVIOUS
    <3>3. Len(inbox) \in Nat /\ Len(queue) \in Nat /\ Len(batch) \in Nat
      BY <3>1
    <3>4. CASE inbox' = inbox
      BY <3>1, <3>3, <3>4
    <3>5. CASE inbox' = <<>>
      BY <3>1, <3>2, <3>3, <3>5
    <3> QED BY <1>1, <3>4, <3>5
  <2> QED BY <1>1, <1>2, <2>1 DEF IInv, Queued
<1>5. StoreOK' /\ Conflicts' /\ Safe
  BY <1>2, StoreFrame DEF IInv
<1>6. RecoveryOK' /\ Backing' /\ RecoveredIsFetched'
  BY <1>1, <1>2, <1>5, RecoveryFrame DEF IInv
<1> QED BY <1>3, <1>4, <1>5, <1>6 DEF IInv

LEMMA WriterQueue ==
    ASSUME Queued, Writer, UNCHANGED <<inbox, made>>
    PROVE  Queued'
<1>1. Len(queue) \in Nat /\ Len(inbox) \in Nat /\ Len(batch) \in Nat
  BY DEF Queued
<1>2. CASE Take
  <2>1. batch = <<>> /\ Len(batch) = 0
    BY <1>2 DEF Take
  <2>2. PICK n \in 1 .. BatchSize : /\ n <= Len(queue)
                                    /\ batch' = SubSeq(queue, 1, n)
                                    /\ queue' = Rest(n)
    BY <1>2 DEF Take
  <2>3. /\ batch' \in Seq(Ids) /\ Len(batch') = n
        /\ queue' \in Seq(Ids) /\ Len(queue') = Len(queue) - n /\ n \in Nat
    <3>1. queue \in Seq(Ids) /\ n \in Nat
      BY DEF Queued
    <3> QED BY <2>2, <3>1, TakeEffect DEF Rest
  <2>4. Len(queue') + Len(inbox) + Len(batch') = Len(queue) + Len(inbox) + Len(batch)
    BY <1>1, <2>1, <2>3
  <2>5. inbox \in Seq(Ids) /\ made \in Before .. MaxTrades
        /\ Len(queue) + Len(inbox) + Len(batch) <= made - Before
    BY DEF Queued
  <2> QED BY <2>3, <2>4, <2>5 DEF Queued
<1>3. CASE ~ Take
  <2>1. UNCHANGED queue /\ (batch' = batch \/ batch' = <<>>)
    BY <1>3 DEF Writer, Look, Register, Flush
  <2>2. CASE batch' = batch
    BY <2>1, <2>2 DEF Queued
  <2>3. CASE batch' = <<>>
    <3>1. batch' \in Seq(Ids) /\ Len(batch') = 0
      BY <2>3
    <3>2. Len(queue) + Len(inbox) + 0 <= Len(queue) + Len(inbox) + Len(batch)
      BY <1>1
    <3>3. made \in Before .. MaxTrades /\ inbox \in Seq(Ids) /\ queue \in Seq(Ids)
          /\ Len(queue) + Len(inbox) + Len(batch) <= made - Before
      BY DEF Queued
    <3> QED BY <1>1, <2>1, <3>1, <3>2, <3>3 DEF Queued
  <2> QED BY <2>1, <2>2, <2>3
<1> QED BY <1>2, <1>3

LEMMA StoringStep == IInv /\ Storing => IInv' /\ Safe
<1> SUFFICES ASSUME IInv, Storing PROVE IInv' /\ Safe
  OBVIOUS
<1>1. UNCHANGED <<wsVars, recVars, made, inbox, kind>>
  BY DEF Storing
<1>2. WsOK'
  BY <1>1, WsFrame DEF wsVars, IInv
<1>3. CASE Writer
  <2>1. StoreOK' /\ Conflicts' /\ Safe
    BY <1>3, WriterStep DEF IInv
  <2>2. Queued'
    BY <1>1, <1>3, WriterQueue DEF IInv
  <2>3. UNCHANGED <<dAt, records>>
    BY <1>3 DEF Writer, Take, Look, Register, Flush, downloadVars
  <2>4. RecoveryOK' /\ Backing' /\ RecoveredIsFetched'
    BY <1>1, <2>1, <2>3, RecoveryFrame DEF IInv
  <2> QED BY <1>2, <2>1, <2>2, <2>4 DEF IInv
<1>4. CASE Backfill
  <2>1. "backfill" \in Downloaders /\ "recovery" \in Downloaders
    BY DEF Downloaders
  <2>2. made + 1 \in 1 .. MaxTrades + 1
    BY DEF IInv, Queued
  <2>3. StoreOK' /\ Conflicts' /\ Safe
    BY <1>4, <2>1, <2>2, FetchStep, StoreStep DEF Backfill, IInv
  <2>4. UNCHANGED writerVars
    BY <1>4 DEF Backfill, Fetch, DownloadStep, RestLook, RestRegister, RestInsert, SyncState
  <2>5. Queued'
    BY <1>1, <2>4, QueueFrame DEF writerVars, IInv
  <2>6. dAt'["recovery"] = dAt["recovery"] /\ records'["recovery"] = records["recovery"]
    BY <1>4, <2>1 DEF Backfill, Fetch, DownloadStep, RestLook, RestRegister, RestInsert,
                      SyncState, Fails, Leaves, At, IInv, StoreOK
  <2>7. RecoveryOK' /\ Backing' /\ RecoveredIsFetched'
    BY <1>1, <2>3, <2>6, RecoveryFrame DEF IInv
  <2> QED BY <1>2, <2>3, <2>5, <2>7 DEF IInv
<1> QED BY <1>3, <1>4 DEF Storing

-----------------------------------------------------------------------------
(* The recoveries.                                                         *)

\* A step that is neither a download nor before its end leaves nothing of a
\* download to be shown.
LEMMA ReachFrame ==
    UNCHANGED <<trades, from>> => Reach(from)' = Reach(from) /\ Stored' = Stored
BY DEF Reach, LastOf, Oldest, Stored

LEMMA LatestStep ==
    ASSUME IInv, Latest, UNCHANGED <<trades, dAt, records, kind>>
    PROVE  RecoveryOK' /\ Backing' /\ RecoveredIsFetched'
<1>1. /\ step = "latest" /\ step' \in {"event", "none"}
      /\ UNCHANGED <<status, rangeEvent, tradeEvent, gap, covered>>
      /\ \/ Stored # {} /\ from' = Max(Stored)
         \/ step' = "none" /\ from' = from
      /\ to' \in {to, made}
  BY DEF Latest, Goto, TradesEnd
<1>2. Stored \subseteq 0 .. MaxTrades
  BY DEF Stored, Ids
<1>3. from' \in 0 .. MaxTrades /\ (step' = "event" => from' # 0)
  <2>1. CASE step' = "none" /\ from' = from
    BY <2>1 DEF IInv, RecoveryOK
  <2>2. CASE Stored # {} /\ from' = Max(Stored)
    <3>1. Max(Stored) \in Stored
      BY <1>2, <2>2, GreatestOf
    <3> QED BY <1>2, <2>2, <3>1 DEF Stored, Ids
  <2> QED BY <1>1, <2>1, <2>2
<1>4. dAt["recovery"] = "idle" /\ tradeEvent = NoRow
  BY <1>1 DEF IInv, RecoveryOK
<1>8. to' \in 0 .. MaxTrades
  BY <1>1 DEF IInv, RecoveryOK, Queued
<1>5. RecoveryOK'
  BY <1>1, <1>3, <1>4, <1>8 DEF IInv, RecoveryOK, RangeSteps
<1>6. Backing'
  BY <1>1, <1>4 DEF Backing
<1>7. RecoveredIsFetched'
  BY <1>1, <1>4 DEF IInv, RecoveredIsFetched, NoRow
<1> QED BY <1>5, <1>6, <1>7

LEMMA RangeStep ==
    ASSUME IInv, RangeEvent \/ RangeGap \/ RangeDownload \/ RangeMark \/ RangeFinish,
           UNCHANGED <<trades, dAt, records, kind>>
    PROVE  RecoveryOK' /\ Backing' /\ RecoveredIsFetched'
<1> USE DEF RangeEvent, RangeGap, RangeDownload, RangeMark, RangeFinish, Goto, RangeEnds,
            Unrecoverable, HistoryDownload, FundingDownload, PresentDownload
<1>1. /\ step \in RangeSteps
      /\ step' \in (RangeSteps \ {"range_event"}) \cup {"latest"}
      /\ UNCHANGED <<from, to, tradeEvent>>
  BY DEF RangeSteps
<1>2. /\ dAt["recovery"] = "idle" /\ tradeEvent = NoRow
      /\ rangeEvent \in {NoRow, "RUNNING"}
  BY <1>1 DEF IInv, RecoveryOK, RangeSteps
<1>3. status' \in Statuses
  BY DEF IInv, RecoveryOK, Statuses
<1>4. gap' \in GapStatuses /\ rangeEvent' \in Statuses
  BY DEF IInv, RecoveryOK, Statuses, GapStatuses
<1>11. step' \in RangeSteps => rangeEvent' \in {NoRow, "RUNNING"}
  BY <1>2 DEF RangeSteps
<1>5. RecoveryOK'
  BY <1>1, <1>2, <1>3, <1>4, <1>11 DEF IInv, RecoveryOK, RangeSteps
<1>6. covered => covered' \/ kind = "funding"
  OBVIOUS
<1>7. step' \in {"range_mark", "range_finish"} /\ status' = "RECOVERED"
         => covered' \/ kind = "funding"
  BY DEF IInv, Backing
<1>12. step' = "range_finish" /\ status' = "RECOVERED" => gap' = "RECOVERED"
  OBVIOUS
<1>8. gap' = "RECOVERED" => covered' \/ kind = "funding"
  BY <1>6 DEF IInv, Backing, RecoveredIsFetched, Statuses, GapStatuses
<1>13. rangeEvent' = "RECOVERED" => gap' = "RECOVERED"
  BY <1>2 DEF IInv, Backing, NoRow
<1>9. Backing'
  BY <1>1, <1>2, <1>7, <1>12 DEF Backing, RangeSteps
<1>10. RecoveredIsFetched'
  BY <1>1, <1>2, <1>8, <1>13 DEF RecoveredIsFetched, NoRow
<1> QED BY <1>5, <1>9, <1>10

LEMMA EventSteps ==
    ASSUME IInv, Begin \/ Event \/ Finish, UNCHANGED <<trades, dAt, records, kind>>
    PROVE  RecoveryOK' /\ Backing' /\ RecoveredIsFetched'
<1> USE DEF Goto, TradesEnd
<1>1. CASE Begin
  BY <1>1 DEF Begin, IInv, RecoveryOK, Backing, RecoveredIsFetched, Statuses, GapStatuses, NoRow
<1>2. CASE Event
  <2>1. UNCHANGED <<status, from, to, rangeEvent, gap, covered>> /\ step' \in {"download", "none"}
        /\ (step' = "download" => tradeEvent' = "RUNNING")
        /\ tradeEvent' \in {tradeEvent, "RUNNING"}
        /\ step = "event"
    BY <1>2 DEF Event
  <2>2. dAt["recovery"] = "idle" /\ tradeEvent = NoRow
    BY <2>1 DEF IInv, RecoveryOK
  <2>3. RecoveryOK'
    BY <2>1, <2>2 DEF IInv, RecoveryOK, Statuses, RangeSteps
  <2>4. Backing'
    BY <2>1, <2>2 DEF Backing
  <2>5. RecoveredIsFetched'
    BY <2>1, <2>2 DEF IInv, RecoveredIsFetched, NoRow
  <2> QED BY <2>3, <2>4, <2>5
<1>3. CASE Finish
  <2>1. UNCHANGED <<status, from, to, rangeEvent, gap, covered>> /\ step' = "none"
        /\ tradeEvent' \in {tradeEvent, status}
        /\ step = "finish"
    BY <1>3 DEF Finish
  <2>2. dAt["recovery"] = "idle" /\ tradeEvent = "RUNNING"
    BY <2>1 DEF IInv, RecoveryOK
  <2>3. Reach(from)' = Reach(from) /\ Stored' = Stored
    BY <2>1, ReachFrame
  <2>4. RecoveryOK'
    BY <2>1, <2>2 DEF IInv, RecoveryOK, RangeSteps
  <2>5. Backing'
    BY <2>1, <2>2 DEF Backing
  <2>6. RecoveredIsFetched'
    BY <2>1, <2>2, <2>3 DEF IInv, Backing, RecoveredIsFetched
  <2> QED BY <2>4, <2>5, <2>6
<1> QED BY <1>1, <1>2, <1>3

\* The rows of a download that are not stored yet shrink as the table grows.
LEMMA DownloadBacking ==
    ASSUME IInv, Safe, DownloadStep("recovery"), UNCHANGED <<recVars, kind>>
    PROVE  RecoveryOK' /\ Backing' /\ RecoveredIsFetched'
<1> DEFINE d == "recovery"
<1>1. UNCHANGED <<step, status, from, to, rangeEvent, tradeEvent, gap, covered, kind>>
  BY DEF recVars
<1>2. d \in Downloaders /\ StoreOK /\ Conflicts /\ Stored \subseteq Stored'
  BY StoredGrows DEF Downloaders, IInv
<1>3. Reach(from)' = Reach(from)
  BY <1>1 DEF Reach, LastOf, Oldest
<1>4. dAt[d] \in {"look", "register", "insert", "sync"}
  BY DEF DownloadStep, RestLook, RestRegister, RestInsert, SyncState
<1>5. RecoveryOK'
  BY <1>1, <1>4 DEF IInv, RecoveryOK
<1>6. RecoveredIsFetched'
  BY <1>1, <1>2, <1>3 DEF IInv, RecoveredIsFetched
<1>7. Reach(from) \subseteq Stored \cup records[d] /\ (dAt[d] = "sync" => records[d] = {})
  BY <1>4 DEF IInv, Backing
<1>8. step \in {"range_mark", "range_finish"} /\ status = "RECOVERED"
         => covered \/ kind = "funding"
  BY DEF IInv, Backing
<1>9. step = "finish" /\ status = "RECOVERED" => Reach(from) \subseteq Stored
  BY DEF IInv, Backing
<1>12. step = "range_finish" /\ status = "RECOVERED" => gap = "RECOVERED"
  BY DEF IInv, Backing
<1>10. /\ dAt'[d] \in {"look", "register", "insert", "sync"}
             => Reach(from) \subseteq Stored' \cup records'[d]
       /\ dAt'[d] = "sync" => records'[d] = {}
       /\ dAt'[d] = "done" => Reach(from) \subseteq Stored'
  <2>0. dAt \in [Downloaders -> Places] /\ records \in [Downloaders -> SUBSET Ids]
    BY <1>2 DEF StoreOK
  <2> HIDE DEF d
  <2>1. CASE Fails(d)
    BY <1>2, <2>0, <2>1 DEF Fails, Leaves, At, Raised
  <2>2. CASE RestLook(d) /\ ~ Fails(d)
    <3>1. /\ records'[d] = records[d] \ {k \in records[d] : Differs(k, "REST")}
          /\ dAt'[d] \in {"insert", "register"}
          /\ UNCHANGED trades
      BY <1>2, <2>0, <2>2 DEF RestLook, At
    <3>2. \A k \in records[d] : Differs(k, "REST") => k \in Stored
      BY <1>2, <2>0 DEF Differs, Stored
    <3> QED BY <1>2, <1>7, <3>1, <3>2
  <2>3. CASE RestRegister(d) /\ ~ Fails(d)
    <3>1. UNCHANGED records /\ dAt'[d] = "insert"
      BY <1>2, <2>0, <2>3 DEF RestRegister, At
    <3> QED BY <1>2, <1>7, <3>1
  <2>4. CASE RestInsert(d) /\ ~ Fails(d)
    <3>1. CASE records[d] # {}
      <4>1. /\ trades' = Insert(FirstRows(d), "REST")
            /\ records'[d] = records[d] \ FirstRows(d)
            /\ dAt'[d] = IF records'[d] = {} THEN "sync" ELSE "insert"
        BY <1>2, <2>0, <2>4, <3>1 DEF RestInsert, At
      <4>2. Ids \cap FirstRows(d) \subseteq Stored' /\ FirstRows(d) \subseteq records[d]
        BY <1>2, <4>1, InsertEffect DEF FirstRows, Sources
      <4>3. records[d] \subseteq Ids
        BY <1>2, <2>0
      <4> QED BY <1>2, <1>7, <4>1, <4>2, <4>3
    <3>2. CASE records[d] = {}
      <4>1. UNCHANGED <<trades, records>> /\ dAt'[d] = "sync"
        BY <1>2, <2>0, <2>4, <3>2 DEF RestInsert, At
      <4> QED BY <1>2, <1>7, <3>2, <4>1
    <3> QED BY <3>1, <3>2
  <2>5. CASE SyncState(d) /\ ~ Fails(d)
    <3>1. dAt[d] = "sync" /\ dAt'[d] = "done" /\ UNCHANGED trades
      BY <1>2, <2>0, <2>5 DEF SyncState, Leaves, At
    <3> QED BY <1>2, <1>7, <3>1
  <2>6. DownloadStep(d)
    BY DEF d
  <2> QED BY <2>1, <2>2, <2>3, <2>4, <2>5, <2>6 DEF DownloadStep
<1>11. Backing'
  BY <1>1, <1>2, <1>3, <1>8, <1>9, <1>10, <1>12 DEF Backing
<1> QED BY <1>5, <1>6, <1>11

LEMMA DownloadEnds ==
    ASSUME IInv, Download \/ Downloaded, UNCHANGED kind
    PROVE  StoreOK' /\ Conflicts' /\ Safe /\ RecoveryOK' /\ Backing' /\ RecoveredIsFetched'
<1>1. "recovery" \in Downloaders /\ StoreOK /\ Conflicts
  BY DEF Downloaders, IInv
<1>2. from \in 1 .. MaxTrades /\ tradeEvent = "RUNNING" /\ step = "download"
  BY DEF Download, Downloaded, IInv, RecoveryOK
<1>4. CASE Download
  <2>1. Fetch("recovery", from) /\ from \in 1 .. MaxTrades + 1 /\ UNCHANGED recVars
    BY <1>2, <1>4 DEF Download
  <2>2. StoreOK' /\ Conflicts' /\ Safe /\ UNCHANGED trades
    BY <1>1, <2>1, FetchStep
  <2>3. Reach(from)' = Reach(from) /\ Stored' = Stored
    BY <2>1, <2>2, ReachFrame DEF recVars
  <2>4. \/ dAt'["recovery"] = "look" /\ records'["recovery"] = Reach(from)
        \/ dAt'["recovery"] = "failed"
    BY <1>1, <2>1 DEF Fetch, Fails, Leaves, At, Raised, StoreOK
  <2>5. RecoveryOK'
    BY <1>2, <2>1 DEF recVars, IInv, RecoveryOK
  <2>6. Backing'
    BY <1>2, <2>1, <2>3, <2>4 DEF recVars, Backing
  <2>7. RecoveredIsFetched'
    BY <1>2, <2>1, <2>3 DEF recVars, IInv, RecoveredIsFetched
  <2> QED BY <2>2, <2>5, <2>6, <2>7
<1>5. CASE Downloaded
  <2>1. /\ step' = "finish" /\ dAt' = [dAt EXCEPT !["recovery"] = "idle"]
        /\ status' = IF dAt["recovery"] = "done" THEN "RECOVERED" ELSE "UNRECOVERABLE"
        /\ UNCHANGED <<policy, trades, open, wBad, records, dBad, last, sync,
                       from, to, rangeEvent, tradeEvent, gap, covered>>
    BY <1>5 DEF Downloaded, Goto, At, writerVars
  <2>2. dAt' \in [Downloaders -> Places] /\ dAt'["recovery"] = "idle"
    BY <1>1, <2>1 DEF StoreOK, Places
  <2>3. StoreOK' /\ Conflicts' /\ Safe
    BY <2>1, <2>2 DEF IInv, StoreOK, Conflicts, Safe
  <2>4. Reach(from)' = Reach(from) /\ Stored' = Stored
    BY <2>1, ReachFrame
  <2>5. RecoveryOK'
    BY <1>2, <2>1, <2>2 DEF IInv, RecoveryOK, Statuses, RangeSteps
  <2>6. Backing'
    BY <2>1, <2>2, <2>4 DEF IInv, Backing
  <2>7. RecoveredIsFetched'
    BY <1>2, <2>1, <2>4 DEF IInv, RecoveredIsFetched
  <2> QED BY <2>3, <2>5, <2>6, <2>7
<1> QED BY <1>4, <1>5

LEMMA RecoveryStepAll == IInv /\ Recovery => IInv' /\ Safe
<1> SUFFICES ASSUME IInv, Recovery PROVE IInv' /\ Safe
  OBVIOUS
<1>1. /\ at' = at \/ at' = "gather"
      /\ UNCHANGED <<receiver, beat, made, inbox, kind>>
  BY DEF Recovery, RecoveryStep, Begin, RangeEvent, RangeGap, RangeDownload, RangeMark, RangeFinish,
         Latest, Event, Finish, Download, Downloaded, TradesEnd
<1>2. WsOK'
  BY <1>1 DEF IInv, WsOK
<1>3. UNCHANGED writerVars
  BY DEF Recovery, RecoveryStep, Download, Downloaded, Fetch, DownloadStep, RestLook, RestRegister,
         RestInsert, SyncState
<1>4. Queued'
  BY <1>1, <1>3, QueueFrame DEF writerVars, IInv
<1>5. CASE RecoveryStep
  <2>1. UNCHANGED <<policy, trades, open, writerVars, dAt, records, dBad, last, sync>>
    BY <1>5 DEF RecoveryStep, downloadVars
  <2>2. StoreOK' /\ Conflicts' /\ Safe
    BY <2>1, StoreFrame DEF writerVars, IInv
  <2>3. RecoveryOK' /\ Backing' /\ RecoveredIsFetched'
    BY <1>1, <1>5, <2>1, LatestStep, RangeStep, EventSteps DEF RecoveryStep
  <2> QED BY <1>2, <1>4, <2>2, <2>3 DEF IInv
<1>6. CASE Download \/ Downloaded
  BY <1>1, <1>2, <1>4, <1>6, DownloadEnds DEF IInv
<1>7. CASE DownloadStep("recovery") /\ UNCHANGED <<at, recVars>>
  <2>1. "recovery" \in Downloaders /\ StoreOK /\ Conflicts
    BY DEF Downloaders, IInv
  <2>2. StoreOK' /\ Conflicts' /\ Safe
    BY <1>7, <2>1, StoreStep
  <2>3. RecoveryOK' /\ Backing' /\ RecoveredIsFetched'
    BY <1>1, <1>7, <2>2, DownloadBacking
  <2> QED BY <1>2, <1>4, <2>2, <2>3 DEF IInv
<1> QED BY <1>5, <1>6, <1>7 DEF Recovery

-----------------------------------------------------------------------------
(* The theorems.                                                           *)

LEMMA InitIInv == Init => IInv
<1> SUFFICES ASSUME Init PROVE IInv
  OBVIOUS
<1> USE DEF Init, WsInit, StoreInit
<1>1. WsOK
  BY DEF WsOK
<1>2. Queued
  <2>1. inbox = <<>> /\ queue = <<>> /\ batch = <<>> /\ made = Before
    OBVIOUS
  <2>2. /\ inbox \in Seq(Ids) /\ queue \in Seq(Ids) /\ batch \in Seq(Ids)
        /\ Len(inbox) = 0 /\ Len(queue) = 0 /\ Len(batch) = 0
    BY <2>1
  <2>3. made \in Before .. MaxTrades
    BY <2>1
  <2> QED BY <2>1, <2>2, <2>3 DEF Queued
<1>3. StoreOK
  <2>1. policy \in {"ws", "strict"} /\ trades \in [Ids -> Sources \cup {"none"}]
    BY DEF Sources
  <2>2. /\ dAt \in [Downloaders -> Places]
        /\ records \in [Downloaders -> SUBSET Ids]
        /\ dBad \in [Downloaders -> SUBSET (Ids \cap Odd)]
        /\ last \in [Downloaders -> 0 .. MaxTrades]
    BY DEF Places
  <2>3. sync \in 0 .. MaxTrades /\ wBad = {} /\ open = {}
    OBVIOUS
  <2> QED BY <2>1, <2>2, <2>3 DEF StoreOK
<1>4. Conflicts
  BY DEF Conflicts
<1>5. dAt["recovery"] = "idle"
  BY DEF Downloaders
<1>6. RecoveryOK
  BY <1>5 DEF RecoveryOK, Statuses, GapStatuses
<1>7. Backing
  BY <1>5 DEF Backing
<1>8. RecoveredIsFetched
  BY DEF RecoveredIsFetched, NoRow
<1> QED BY <1>1, <1>2, <1>3, <1>4, <1>6, <1>7, <1>8 DEF IInv

LEMMA StepIInv == IInv /\ [Next]_vars => IInv' /\ Safe
<1> SUFFICES ASSUME IInv, [Next]_vars PROVE IInv' /\ Safe
  OBVIOUS
<1>1. CASE Next
  BY <1>1, TradeStep, ReceiveStep, ConnectionStep, StoringStep, RecoveryStepAll DEF Next
<1>2. CASE UNCHANGED vars
  <2>1. /\ UNCHANGED <<wsVars, recVars, made, inbox, kind, writerVars>>
        /\ UNCHANGED <<policy, trades, open, dAt, records, dBad, last, sync, wBad>>
    BY <1>2 DEF vars, storeVars, writerVars, downloadVars
  <2>2. WsOK' /\ Queued'
    BY <2>1, WsFrame, QueueFrame DEF wsVars, writerVars, IInv
  <2>3. StoreOK' /\ Conflicts' /\ Safe
    BY <2>1, StoreFrame DEF IInv
  <2>4. RecoveryOK' /\ Backing' /\ RecoveredIsFetched'
    BY <2>1, <2>3, RecoveryFrame DEF IInv
  <2> QED BY <2>2, <2>3, <2>4 DEF IInv
<1> QED BY <1>1, <1>2

THEOREM Invariance == Spec => []IInv
<1>1. IInv /\ [Next]_vars => IInv'
  BY StepIInv
<1> QED BY <1>1, InitIInv, PTL DEF Spec

\* The table, the conflicts, the downloads and the rows of the recoveries keep
\* their types, and no trade is queued that was not made.
THEOREM TypeCorrect == Spec => []TypeOK
<1>1. IInv => TypeOK
  <2> SUFFICES ASSUME IInv PROVE TypeOK
    OBVIOUS
  <2>1. \A d \in Downloaders : records[d] \subseteq Ids /\ dBad[d] \subseteq Odd
    BY DEF IInv, StoreOK
  <2>2. Len(queue) + Len(inbox) + Len(batch) <= MaxTrades - Before
    <3>1. made \in Before .. MaxTrades /\ Len(queue) + Len(inbox) + Len(batch) <= made - Before
          /\ Len(queue) \in Nat /\ Len(inbox) \in Nat /\ Len(batch) \in Nat
      BY DEF IInv, Queued
    <3> QED BY <3>1
  <2> QED BY <2>1, <2>2 DEF IInv, TypeOK, StoreOK, RecoveryOK, WsOK
<1> QED BY <1>1, Invariance, PTL

\* Whatever is stored keeps its side, and a conflict points at a row that is
\* there and was there first.
THEOREM RawRowsStay == Spec => RawIsKept
<1> DEFINE Step == /\ \A k \in Ids : trades[k] # "none" => trades'[k] = trades[k]
                   /\ \A k \in open' : trades'[k] \in IF policy = "ws" THEN {"REST"} ELSE Sources
<1>1. IInv /\ [Next]_vars => [Step]_vars
  <2> SUFFICES ASSUME IInv, [Next]_vars PROVE Step
    OBVIOUS
  <2>1. Conflicts' /\ Safe
    BY StepIInv DEF IInv
  <2>2. policy' = policy
    BY DEF Next, Trade, Receive, Connection, Environment, Storing, Writer, Take, Look, Register, Flush,
           Backfill, Fetch, DownloadStep, RestLook, RestRegister, RestInsert, SyncState, Recovery,
           RecoveryStep, Download, Downloaded, vars, storeVars
  <2> QED BY <2>1, <2>2 DEF Conflicts, Safe
<1>2. Spec => [][Next]_vars
  BY DEF Spec
<1> QED BY <1>1, <1>2, Invariance, PTL DEF RawIsKept

\* A recovery of which any request or transaction fails is not said to have
\* succeeded; one that is has stored what its download asked for, and the range's
\* event never runs ahead of its gap.  (That the download of trades asks for the
\* wrong ones is another matter: TLC refutes RecoveredIsFilled.)
THEOREM RecoveriesAreFetched == Spec => []RecoveredIsFetched
<1>1. IInv => RecoveredIsFetched
  BY DEF IInv
<1> QED BY <1>1, Invariance, PTL
=============================================================================
