------------------------ MODULE LatencyProbe_proofs -------------------------
(***************************************************************************)
(* Proofs about LatencyProbe, for any capacity, batch size, horizon and    *)
(* number of messages and failures: the types, the accounting of market    *)
(* samples, and what the tables say of a closed window.                    *)
(***************************************************************************)
EXTENDS LatencyProbe, FunctionTheorems, FiniteSetTheorems, SequenceTheorems,
        WellFoundedInduction, TLAPS

USE LatencyAssumption, ProbeAssumption DEF LatencyAssumption, ProbeAssumption

-----------------------------------------------------------------------------
(* The inductive invariant: the writer.                                    *)

Lists ==
    /\ buffer \in Seq(Samples) /\ pending \in Seq(Samples) /\ batch \in Seq(Samples)
    /\ flight \in Seq(Samples) /\ rest \in Seq(Samples)
    /\ failed \in Seq(Samples) /\ finalFailed \in Seq(Samples)
    /\ Len(buffer) <= Cap /\ Len(batch) < BatchSize
    /\ totals \in [Metrics -> Nat] /\ rows \in Nat

\* Which lists are empty where the thread is, where stop is, and who may hold
\* the lock there.
Places ==
    /\ thread \in {"loop", "retry", "flush", "last", "requeue", "end", "done"}
    /\ stop \in {"no", "join", "drain", "flush", "report", "done"}
    /\ lock \in {"free", "thread", "stop"}
    /\ stopped \in BOOLEAN /\ gaveUp \in BOOLEAN
    /\ stage \in {"run", "tasks", "flush", "writer", "done"}
    /\ stop = "no" <=> stage \notin {"writer", "done"}
    /\ stopped <=> stop # "no"
    /\ thread \in {"last", "end", "done"} => pending = <<>> /\ batch = <<>> /\ stopped
    /\ thread \in {"loop", "end", "done"} => flight = <<>>
    /\ thread # "end" => failed = <<>>
    /\ stop \in {"no", "join"} => ~gaveUp /\ (thread # "done" => finalFailed = <<>>)
    /\ stop # "flush" => rest = <<>>
    /\ lock = "stop" => stop = "flush"
    /\ lock = "thread" => thread \in {"retry", "flush", "last"}

\* The join that did not give up leaves stop alone with what is left.
Alone ==
    ~gaveUp =>
      /\ stop \notin {"no", "join"} => thread = "done"
      /\ stop \in {"flush", "report", "done"} => Market(buffer) = 0
      /\ stop = "done" => finalFailed = <<>>

Accounts ==
    /\ totals["parsed"] = totals["queued"] + totals["dropped"]
    /\ totals["written"] = rows + InFlight
    /\ ~gaveUp => totals["queued"] = rows + Held + totals["final"]

-----------------------------------------------------------------------------
(* The inductive invariant: the windows.                                   *)

Named ==
    /\ now \in Windows
    /\ accepted \in [Windows -> Nat] /\ refused \in [Windows -> Nat]
    /\ DOMAIN committed \subseteq Windows /\ DOMAIN series \subseteq Windows
    /\ DOMAIN counters \subseteq Windows /\ DOMAIN sumRows \subseteq Windows
    /\ \A w \in DOMAIN counters : DOMAIN counters[w] \subseteq Metrics
    /\ DOMAIN statRows \subseteq Windows \X Metrics
    /\ todo \subseteq Windows

Ended == {"all", "end"}

\* What tick or flush_all has done and has still to do.
Events ==
    /\ event \in [kind : {"free", "tick", "prune", "all", "end"}, upto : Int]
    /\ event.kind = "free" <=> event = Free
    /\ event.kind = "free" => todo = {} /\ emitting = <<>>
    /\ event.kind \in {"tick", "prune"} => event.upto <= now - 2
    /\ event.kind \in Ended => stage \notin {"run", "tasks"}
    /\ \A w \in todo : w <= event.upto
    /\ event.kind \in {"tick", "all"} => \A w \in DOMAIN series : w <= event.upto => w \in todo
    /\ event.kind \in {"prune", "end"} => \A w \in DOMAIN series : w > event.upto

\* A counter that is there is right.
Exact(bucket, w) ==
    /\ "queued" \in DOMAIN bucket => bucket["queued"] = accepted[w]
    /\ "dropped" \in DOMAIN bucket => bucket["dropped"] = refused[w]

Full(bucket, w) == At(bucket, "queued") = accepted[w] /\ At(bucket, "dropped") = refused[w]

Settled(w) == /\ Stored(w, "queued") = accepted[w]
              /\ Stored(w, "dropped") = refused[w]
              /\ At(sumRows, w) = accepted[w] + refused[w]

\* The summarizer has everything that was received in an open window.
Open(w) == series[w] = accepted[w] + refused[w] /\ series[w] > 0 /\ Full(Bucket(w), w)

\* What is being emitted is all of an open window, or of one that has been stored.
Emitted(e) ==
    /\ e.w \in Windows \ DOMAIN series /\ e.n \in Nat
    /\ DOMAIN e.stats \subseteq Metrics /\ Exact(e.stats, e.w)
    /\ \/ e.n = accepted[e.w] + refused[e.w] /\ e.n > 0 /\ Full(e.stats, e.w)
       \/ e.n = 0 /\ (e.w \in skipped \/ Settled(e.w))

Registered ==
    /\ \A w \in DOMAIN counters : Exact(counters[w], w)
    /\ \A w \in DOMAIN series : Open(w)
    /\ \A w \in Windows : /\ Stored(w, "queued") \in 0 .. accepted[w]
                          /\ Stored(w, "dropped") \in 0 .. refused[w]
    /\ \A w \in Windows : stage \in {"run", "tasks"} /\ w > now - 2 /\ w \notin DOMAIN series
                             => accepted[w] = 0 /\ refused[w] = 0
    /\ \A w \in Windows \ (DOMAIN series \cup skipped) :
          (emitting # <<>> => emitting[1].w # w) => Settled(w)
    /\ emitting # <<>> => Emitted(emitting[1])

WriterInv == Lists /\ Places /\ Alone /\ Accounts
WindowInv == Named /\ Events /\ Registered

IInv == WriterInv /\ WindowInv

-----------------------------------------------------------------------------
(* Market samples of a sequence.                                           *)

Marked(s) == {k \in 1 .. Len(s) : s[k] # Other}

\* The positions of the market samples of a sequence are finitely many.
LEMMA MarketIsNat ==
    ASSUME NEW s \in Seq(Samples)
    PROVE  /\ Market(s) = Cardinality(Marked(s)) /\ IsFiniteSet(Marked(s))
           /\ Market(s) \in Nat
<1>1. DOMAIN s = 1 .. Len(s) /\ Len(s) \in Nat
  OBVIOUS
<1>2. IsFiniteSet(1 .. Len(s))
  BY <1>1, FS_Interval
<1>3. IsFiniteSet(Marked(s))
  BY <1>2, FS_Subset DEF Marked
<1>4. Market(s) = Cardinality(Marked(s))
  BY <1>1 DEF Market, Marked
<1> QED BY <1>3, <1>4, FS_CardinalityType

\* No sample, no market sample.
LEMMA MarketEmpty == Market(<<>>) = 0
<1>1. {k \in DOMAIN <<>> : <<>>[k] # Other} = {}
  OBVIOUS
<1> QED BY <1>1, FS_EmptySet DEF Market

\* Two sequences together have the market samples of both.
LEMMA MarketConcat ==
    ASSUME NEW s \in Seq(Samples), NEW t \in Seq(Samples)
    PROVE  s \o t \in Seq(Samples) /\ Market(s \o t) = Market(s) + Market(t)
<1> DEFINE moved == {k + Len(s) : k \in Marked(t)}
<1>1. s \o t \in Seq(Samples) /\ Len(s) \in Nat /\ Len(t) \in Nat
  OBVIOUS
<1>2. Marked(s \o t) = Marked(s) \cup moved
  <2>1. \A k \in 1 .. Len(s) + Len(t) :
           (s \o t)[k] = IF k <= Len(s) THEN s[k] ELSE t[k - Len(s)]
    BY ConcatProperties
  <2>2. Len(s \o t) = Len(s) + Len(t)
    OBVIOUS
  <2>3. ASSUME NEW k \in Marked(s \o t)  PROVE k \in Marked(s) \cup moved
    <3>1. k \in 1 .. Len(s) + Len(t) /\ (s \o t)[k] # Other
      BY <2>2 DEF Marked
    <3>2. CASE k <= Len(s)
      BY <1>1, <2>1, <3>1, <3>2 DEF Marked
    <3>3. CASE k > Len(s)
      <4>1. k - Len(s) \in 1 .. Len(t) /\ k = (k - Len(s)) + Len(s)
        BY <1>1, <3>1, <3>3
      <4>2. k - Len(s) \in Marked(t)
        BY <1>1, <2>1, <3>1, <3>3, <4>1 DEF Marked
      <4> QED BY <4>1, <4>2
    <3> QED BY <1>1, <3>1, <3>2, <3>3
  <2>4. Marked(s) \subseteq Marked(s \o t)
    BY <1>1, <2>1, <2>2 DEF Marked
  <2>5. ASSUME NEW k \in Marked(t)  PROVE k + Len(s) \in Marked(s \o t)
    <3>1. k \in 1 .. Len(t) /\ t[k] # Other
      BY DEF Marked
    <3>2. k + Len(s) \in 1 .. Len(s) + Len(t) /\ ~ (k + Len(s) <= Len(s)) /\ k + Len(s) - Len(s) = k
      BY <1>1, <3>1
    <3> QED BY <2>1, <2>2, <3>1, <3>2 DEF Marked
  <2> QED BY <2>3, <2>4, <2>5
<1>3. Marked(s) \cap moved = {}
  BY <1>1 DEF Marked
<1>4. IsFiniteSet(moved) /\ Cardinality(moved) = Cardinality(Marked(t))
  <2> DEFINE f == [k \in Marked(t) |-> k + Len(s)]
  <2>1. \A a, b \in Marked(t) : f[a] = f[b] => a = b
    BY <1>1 DEF Marked
  <2>2. f \in Bijection(Marked(t), moved)
    <3>1. f \in [Marked(t) -> moved] /\ \A y \in moved : \E k \in Marked(t) : f[k] = y
      OBVIOUS
    <3> QED BY <2>1, <3>1, Fun_IsBij
  <2>3. ExistsBijection(Marked(t), moved)
    BY <2>2 DEF ExistsBijection
  <2> QED BY <2>3, MarketIsNat, FS_Bijection
<1>5. Cardinality(Marked(s) \cup moved) = Cardinality(Marked(s)) + Cardinality(moved) - Cardinality({})
  BY <1>3, <1>4, MarketIsNat, FS_Union
<1>6. Market(s \o t) = Cardinality(Marked(s \o t))
  BY <1>1, MarketIsNat
<1>7. /\ Market(s) = Cardinality(Marked(s)) /\ Market(t) = Cardinality(Marked(t))
      /\ Market(s) \in Nat /\ Market(t) \in Nat
  BY MarketIsNat
<1>8. Cardinality({}) = 0
  BY FS_EmptySet
<1> HIDE DEF moved
<1> QED BY <1>1, <1>2, <1>4, <1>5, <1>6, <1>7, <1>8

\* A sample that is appended counts unless it is another one.
LEMMA MarketAppend ==
    ASSUME NEW s \in Seq(Samples), NEW x \in Samples
    PROVE  /\ Append(s, x) \in Seq(Samples) /\ Len(Append(s, x)) = Len(s) + 1
           /\ Market(Append(s, x)) = Market(s) + (IF x = Other THEN 0 ELSE 1)
<1> DEFINE one == <<x>>
<1>1. Append(s, x) = s \o one /\ one \in Seq(Samples)
  BY AppendIsConcat
<1>2. Market(one) = IF x = Other THEN 0 ELSE 1
  <2>1. Marked(one) = IF x = Other THEN {} ELSE {1}
    BY DEF Marked
  <2> QED BY <1>1, <2>1, MarketIsNat, FS_EmptySet, FS_Singleton
<1>4. Append(s, x) \in Seq(Samples) /\ Len(Append(s, x)) = Len(s) + 1
  OBVIOUS
<1> HIDE DEF one
<1>3. Market(s \o one) = Market(s) + Market(one)
  BY <1>1, MarketConcat
<1> QED BY <1>1, <1>2, <1>3, <1>4

\* A sequence that is cut in two keeps its market samples.
LEMMA MarketSplit ==
    ASSUME NEW s \in Seq(Samples), NEW n \in 0 .. Len(s)
    PROVE  /\ SubSeq(s, 1, n) \in Seq(Samples) /\ SubSeq(s, n + 1, Len(s)) \in Seq(Samples)
           /\ Len(SubSeq(s, 1, n)) = n /\ Len(SubSeq(s, n + 1, Len(s))) = Len(s) - n
           /\ Market(s) = Market(SubSeq(s, 1, n)) + Market(SubSeq(s, n + 1, Len(s)))
<1> DEFINE head == SubSeq(s, 1, n)
           tail == SubSeq(s, n + 1, Len(s))
<1>1. Len(s) \in Nat /\ n \in Nat /\ n <= Len(s)
  OBVIOUS
<1>2. /\ head \in Seq(Samples) /\ tail \in Seq(Samples)
      /\ Len(head) = n /\ Len(tail) = Len(s) - n
  OBVIOUS
<1>3. head \o tail = s
  <2>1. 1 \in 1 .. Len(s) + 1 /\ n \in 1 - 1 .. Len(s) /\ Len(s) \in n .. Len(s)
    BY <1>1
  <2>2. SubSeq(s, 1, n) \o SubSeq(s, n + 1, Len(s)) = SubSeq(s, 1, Len(s))
    BY <2>1, ConcatAdjacentSubSeq
  <2>3. SubSeq(s, 1, Len(s)) = s
    BY SubSeqFull
  <2> QED BY <2>2, <2>3, Zenon
<1> HIDE DEF head, tail
<1>5. Market(head \o tail) = Market(head) + Market(tail)
  BY <1>2, MarketConcat
<1>6. Market(s) = Market(head) + Market(tail)
  BY <1>3, <1>5
<1> QED BY <1>2, <1>6 DEF head, tail

\* What the writer holds is counted in natural numbers.
LEMMA HeldIsNat ==
    ASSUME Lists
    PROVE  /\ Market(buffer) \in Nat /\ Market(pending) \in Nat /\ Market(batch) \in Nat
           /\ Market(flight) \in Nat /\ Market(rest) \in Nat
           /\ Market(failed) \in Nat /\ Market(finalFailed) \in Nat
BY MarketIsNat DEF Lists

\* The same of the state after a step whose lists are typed.
LEMMA HeldNext ==
    ASSUME Lists'
    PROVE  Held' \in Nat
<1>1. /\ Market(buffer') \in Nat /\ Market(pending') \in Nat /\ Market(batch') \in Nat
      /\ Market(flight') \in Nat /\ Market(rest') \in Nat
      /\ Market(failed') \in Nat /\ Market(finalFailed') \in Nat
  BY MarketIsNat DEF Lists
<1> QED BY <1>1 DEF Held

\* So are the counters of all windows together.
LEMMA TotalsAreNat ==
    ASSUME Lists
    PROVE  \A m \in Metrics : totals[m] \in Nat
BY DEF Lists

-----------------------------------------------------------------------------
(* The writer's part of the invariant.                                     *)

\* Nothing is held and nothing counted at first.
LEMMA WriterStarts ==
    ASSUME Init
    PROVE  WriterInv
<1> USE DEF Init, WriterInit
<1>1. Lists
  <2>1. <<>> \in Seq(Samples) /\ Len(<<>>) = 0
    BY EmptySeq
  <2>2. totals \in [Metrics -> Nat]
    OBVIOUS
  <2> QED BY <2>1, <2>2 DEF Lists
<1>2. Places
  BY DEF Places
<1>3. Alone
  BY DEF Alone
<1>4. Accounts
  BY MarketEmpty DEF Accounts, Held, InFlight, Metrics
<1> QED BY <1>1, <1>2, <1>3, <1>4 DEF WriterInv

\* Steps of the windows and of the main coroutine.
LEMMA WriterRests ==
    ASSUME WriterInv, UNCHANGED <<threads, stopping, lock, totals, rows>>,
           stage' \in {"run", "tasks", "flush", "writer", "done"},
           stage' \in {"writer", "done"} <=> stage \in {"writer", "done"}
    PROVE  WriterInv'
<1> USE DEF threads, stopping, WriterInv
<1>1. Lists'
  BY DEF Lists
<1>2. Places'
  BY DEF Places
<1>3. Alone'
  BY DEF Alone
<1>4. Accounts'
  BY DEF Accounts, Held, InFlight
<1> QED BY <1>1, <1>2, <1>3, <1>4

\* A sample no counter counts fills the queue and no equation.
LEMMA WriterPutOther ==
    ASSUME WriterInv, OtherSample
    PROVE  WriterInv'
<1> USE DEF threads, stopping, OtherSample, PutOther, registry, tables
<1>0. Lists /\ Places /\ Alone /\ Accounts /\ Other \in Samples
  BY DEF WriterInv, Samples
<1>1. CASE ~ Room
  BY <1>1, WriterRests DEF Places, WriterInv
<1>2. CASE Room
  <2>1. /\ buffer' \in Seq(Samples) /\ Len(buffer') = Len(buffer) + 1
        /\ Market(buffer') = Market(buffer) /\ Market(buffer) \in Nat /\ Len(buffer) \in Nat
    <3>1. buffer \in Seq(Samples) /\ buffer' = Append(buffer, Other)
      BY <1>0, <1>2 DEF Lists
    <3>2. Market(buffer') = Market(buffer) + 0
      BY <1>0, <3>1, MarketAppend
    <3> QED BY <1>0, <3>1, <3>2, MarketAppend, MarketIsNat
  <2>2. Lists'
    BY <1>0, <1>2, <2>1 DEF Lists, Room
  <2>3. Places'
    BY <1>0 DEF Places
  <2>4. Alone'
    BY <1>0, <2>1 DEF Alone
  <2>5. Accounts'
    BY <1>0, <2>1 DEF Accounts, Held, InFlight
  <2> QED BY <2>2, <2>3, <2>4, <2>5 DEF WriterInv
<1> QED BY <1>1, <1>2

\* A market sample is parsed, and queued or dropped.
LEMMA WriterPutMarket ==
    ASSUME WriterInv, now \in Windows, MarketMessage
    PROVE  WriterInv'
<1>0. Lists /\ Places /\ Alone /\ Accounts /\ now \in Samples /\ now # Other
  BY DEF WriterInv, Samples, Windows
<1>u. /\ UNCHANGED <<pending, batch, flight, failed, rest, finalFailed>>
      /\ UNCHANGED <<stopped, thread, stop, gaveUp, lock, rows, stage>>
  BY DEF threads, stopping, MarketMessage, PutMarket, tables
<1>1. stop = "no" /\ lock # "stop"
  BY <1>0 DEF Places, LoopTurns, MarketMessage
<1>2. /\ buffer' \in Seq(Samples) /\ Len(buffer') <= Cap
      /\ Market(buffer') = IF Room THEN Market(buffer) + 1 ELSE Market(buffer)
  <2>1. buffer \in Seq(Samples) /\ Len(buffer) \in Nat /\ Len(buffer) <= Cap
    BY <1>0 DEF Lists
  <2>2. CASE Room
    <3>1. buffer' = Append(buffer, now)
      BY <2>2 DEF MarketMessage, PutMarket
    <3>2. /\ Append(buffer, now) \in Seq(Samples) /\ Len(Append(buffer, now)) = Len(buffer) + 1
          /\ Market(Append(buffer, now)) = Market(buffer) + 1
      BY <1>0, <2>1, MarketAppend
    <3> QED BY <2>1, <2>2, <3>1, <3>2 DEF Room
  <2>3. CASE ~ Room
    BY <2>1, <2>3 DEF MarketMessage, PutMarket
  <2> QED BY <2>2, <2>3
<1>3. /\ totals' \in [Metrics -> Nat]
      /\ totals'["parsed"] = totals["parsed"] + 1
      /\ totals'["queued"] = IF Room THEN totals["queued"] + 1 ELSE totals["queued"]
      /\ totals'["dropped"] = IF Room THEN totals["dropped"] ELSE totals["dropped"] + 1
      /\ totals'["written"] = totals["written"] /\ totals'["final"] = totals["final"]
  <2>1. totals \in [Metrics -> Nat]
    BY <1>0 DEF Lists
  <2>2. \A x \in Metrics : totals[x] \in Nat
    BY <2>1
  <2>3. {"parsed", "queued", "dropped", "written", "final"} \subseteq Metrics
    BY DEF Metrics
  <2>4. CASE Room
    <3>1. totals' = [x \in Metrics |-> totals[x] + (IF x \in {"parsed", "queued"} THEN 1 ELSE 0)]
      BY <2>4 DEF MarketMessage, PutMarket
    <3> QED BY <2>2, <2>3, <2>4, <3>1
  <2>5. CASE ~ Room
    <3>1. totals' = [x \in Metrics |-> totals[x] + (IF x \in {"parsed", "dropped"} THEN 1 ELSE 0)]
      BY <2>5 DEF MarketMessage, PutMarket
    <3> QED BY <2>2, <2>3, <2>5, <3>1
  <2> QED BY <2>4, <2>5
<1>4. Lists'
  BY <1>0, <1>u, <1>2, <1>3 DEF Lists
<1>5. Places'
  BY <1>0, <1>u DEF Places
<1>6. Alone'
  BY <1>0, <1>u, <1>1 DEF Alone
<1>7. Accounts'
  <2>1. Held' = (IF Room THEN Held + 1 ELSE Held) /\ Held \in Nat
    <3>1. Market(buffer') = IF Room THEN Market(buffer) + 1 ELSE Market(buffer)
      BY <1>2
    <3>2. UNCHANGED <<pending, batch, flight, failed, rest, finalFailed>>
      BY <1>u
    <3> QED BY <1>0, <3>1, <3>2, HeldIsNat DEF Held
  <2>2. InFlight' = InFlight
    BY <1>u DEF InFlight
  <2>3. /\ totals["parsed"] \in Nat /\ totals["queued"] \in Nat /\ totals["dropped"] \in Nat
        /\ totals["final"] \in Nat /\ rows \in Nat
    BY <1>0, TotalsAreNat DEF Lists, Metrics
  <2> QED BY <1>0, <1>u, <1>3, <2>1, <2>2, <2>3 DEF Accounts
<1> QED BY <1>4, <1>5, <1>6, <1>7 DEF WriterInv

\* The thread takes what waits for a retry.
LEMMA WriterTakesPending ==
    ASSUME WriterInv, TakePending, UNCHANGED stage
    PROVE  WriterInv'
<1>0. Lists /\ Places /\ Alone /\ Accounts
  BY DEF WriterInv
<1>u. /\ thread = "loop" /\ thread' = "retry" /\ lock = "free" /\ lock' = "free" /\ stopped = FALSE
      /\ flight' = pending /\ pending' = <<>>
      /\ UNCHANGED <<buffer, batch, stopped, failed, rest, finalFailed>>
      /\ UNCHANGED <<stop, gaveUp, totals, rows>>
  BY DEF TakePending, Resume, registry, stopping, tables
<1>1. flight = <<>>
  BY <1>0, <1>u DEF Places
<1>2. Lists'
  BY <1>0, <1>u, EmptySeq DEF Lists
<1>3. Places'
  BY <1>0, <1>u DEF Places
<1>4. Alone'
  BY <1>0, <1>u DEF Alone
<1>5. Accounts'
  <2>1. Held' = Held
    <3>1. /\ Market(flight') = Market(pending) /\ Market(pending') = 0 /\ Market(flight) = 0
      BY <1>u, <1>1, MarketEmpty
    <3>2. UNCHANGED <<buffer, batch, failed, rest, finalFailed>>
      BY <1>u
    <3> QED BY <1>0, <3>1, <3>2, HeldIsNat DEF Held
  <2>2. InFlight' = 0 /\ InFlight = 0
    BY <1>u DEF InFlight
  <2> QED BY <1>0, <1>u, <2>1, <2>2 DEF Accounts
<1> QED BY <1>2, <1>3, <1>4, <1>5 DEF WriterInv

\* The thread takes a sample, and flushes the batch or waits for more.
LEMMA WriterGets ==
    ASSUME WriterInv, Get, UNCHANGED stage
    PROVE  WriterInv'
<1> DEFINE n    == IF buffer = <<>> THEN 0 ELSE 1
           head == SubSeq(buffer, 1, n)
           got  == batch \o head
<1>0. Lists /\ Places /\ Alone /\ Accounts
  BY DEF WriterInv
<1>u. /\ thread = "loop" /\ lock = "free" /\ lock' = "free" /\ stopped = FALSE
      /\ UNCHANGED <<pending, stopped, failed, rest, finalFailed>>
      /\ UNCHANGED <<stop, gaveUp, totals, rows>>
  BY DEF Get, registry, stopping, tables
<1>1. flight = <<>> /\ stop = "no"
  BY <1>0, <1>u DEF Places
<1>2. /\ buffer' = SubSeq(buffer, n + 1, Len(buffer))
      /\ \/ flight' = got /\ batch' = <<>> /\ thread' = "flush"
         \/ batch' = got /\ Len(got) < BatchSize /\ flight' = flight /\ thread' = thread
  BY DEF Get, Resume
<1>3. /\ buffer \in Seq(Samples) /\ batch \in Seq(Samples) /\ n \in 0 .. Len(buffer)
      /\ Len(buffer) \in Nat /\ Len(buffer) <= Cap /\ n \in Nat /\ Cap \in Nat
  <2>1. /\ buffer \in Seq(Samples) /\ batch \in Seq(Samples) /\ Len(buffer) \in Nat
        /\ Len(buffer) <= Cap /\ Cap \in Nat
    BY <1>0 DEF Lists
  <2>2. buffer # <<>> => Len(buffer) \in Nat \ {0}
    BY <2>1, EmptySeq
  <2> QED BY <2>1, <2>2
<1>4. /\ head \in Seq(Samples) /\ buffer' \in Seq(Samples)
      /\ Len(buffer') = Len(buffer) - n
      /\ Market(buffer) = Market(head) + Market(buffer')
  <2> HIDE DEF n
  <2> QED BY <1>2, <1>3, MarketSplit
<1> HIDE DEF n, head
<1>5. got \in Seq(Samples) /\ Market(got) = Market(batch) + Market(head)
  BY <1>3, <1>4, MarketConcat
<1> HIDE DEF got
<1>6. Lists'
  <2>1. flight' \in Seq(Samples) /\ batch' \in Seq(Samples) /\ Len(batch') < BatchSize
    <3>1. BatchSize \in Nat /\ 0 < BatchSize /\ <<>> \in Seq(Samples) /\ Len(<<>>) = 0
      BY EmptySeq
    <3>2. CASE batch' = <<>> /\ flight' = got
      BY <1>5, <3>1, <3>2
    <3>3. CASE batch' = got /\ Len(got) < BatchSize /\ flight' = flight
      BY <1>5, <1>0, <3>3 DEF Lists
    <3> QED BY <1>2, <3>2, <3>3
  <2>2. Len(buffer') <= Cap
    <3>1. Len(buffer') = Len(buffer) - n
      BY <1>4
    <3> QED BY <1>3, <3>1
  <2> QED BY <1>0, <1>u, <1>4, <2>1, <2>2 DEF Lists
<1>7. Places'
  BY <1>0, <1>u, <1>1, <1>2 DEF Places
<1>8. Alone'
  BY <1>0, <1>u, <1>1 DEF Alone
<1>9. Accounts'
  <2>1. Held' = Held
    <3>1. /\ Market(buffer) \in Nat /\ Market(batch) \in Nat /\ Market(head) \in Nat
          /\ Market(buffer') \in Nat
      BY <1>3, <1>4, MarketIsNat
    <3>2. /\ Market(buffer) = Market(head) + Market(buffer') /\ Market(got) = Market(batch) + Market(head)
          /\ Market(flight) = 0
      BY <1>1, <1>4, <1>5, MarketEmpty
    <3>3. Market(flight') + Market(batch') = Market(batch) + Market(head)
      <4>1. CASE flight' = got /\ batch' = <<>>
        BY <4>1, <3>1, <3>2, MarketEmpty
      <4>2. CASE batch' = got /\ flight' = flight
        BY <4>2, <3>1, <3>2
      <4> QED BY <1>2, <4>1, <4>2
    <3>4. UNCHANGED <<pending, failed, rest, finalFailed>>
      BY <1>u
    <3>5. Market(flight') \in Nat /\ Market(batch') \in Nat
      BY <1>6, MarketIsNat DEF Lists
    <3> QED BY <1>0, <3>1, <3>2, <3>3, <3>4, <3>5, HeldIsNat DEF Held
  <2>2. InFlight' = 0 /\ InFlight = 0
    BY <1>u DEF InFlight
  <2> QED BY <1>0, <1>u, <2>1, <2>2 DEF Accounts
<1> QED BY <1>6, <1>7, <1>8, <1>9 DEF WriterInv

\* The thread, told to stop, flushes all it holds.
LEMMA WriterFlushesLast ==
    ASSUME WriterInv, LastFlush, UNCHANGED stage
    PROVE  WriterInv'
<1>0. Lists /\ Places /\ Alone /\ Accounts
  BY DEF WriterInv
<1>u. /\ thread = "loop" /\ lock = "free" /\ lock' = "free" /\ stopped
      /\ flight' = Remaining /\ pending' = <<>> /\ batch' = <<>>
      /\ thread' = IF Remaining = <<>> THEN "end" ELSE "last"
      /\ UNCHANGED <<buffer, stopped, failed, rest, finalFailed>>
      /\ UNCHANGED <<stop, gaveUp, totals, rows>>
  BY DEF LastFlush, Resume, registry, stopping, tables
<1>1. flight = <<>>
  BY <1>0, <1>u DEF Places
<1>2. /\ Remaining \in Seq(Samples) /\ Market(Remaining) = Market(pending) + Market(batch)
  BY <1>0, MarketConcat DEF Remaining, Lists
<1>3. Lists'
  BY <1>0, <1>u, <1>2, EmptySeq DEF Lists
<1>4. Places'
  BY <1>0, <1>u DEF Places
<1>5. Alone'
  BY <1>0, <1>u DEF Alone
<1>6. Accounts'
  <2>1. Held' = Held
    <3>1. /\ Market(flight') = Market(pending) + Market(batch)
          /\ Market(pending') = 0 /\ Market(batch') = 0 /\ Market(flight) = 0
      BY <1>u, <1>1, <1>2, MarketEmpty
    <3>2. UNCHANGED <<buffer, failed, rest, finalFailed>>
      BY <1>u
    <3> QED BY <1>0, <3>1, <3>2, HeldIsNat DEF Held
  <2>2. InFlight' = 0 /\ InFlight = 0
    BY <1>u DEF InFlight
  <2> QED BY <1>0, <1>u, <2>1, <2>2 DEF Accounts
<1> QED BY <1>3, <1>4, <1>5, <1>6 DEF WriterInv

\* A batch that failed waits for a retry.
LEMMA WriterRequeues ==
    ASSUME WriterInv, Requeue, UNCHANGED stage
    PROVE  WriterInv'
<1>0. Lists /\ Places /\ Alone /\ Accounts
  BY DEF WriterInv
<1>u. /\ thread = "requeue" /\ thread' = "loop" /\ lock = "free" /\ lock' = "free"
      /\ pending' = flight \o pending /\ flight' = <<>>
      /\ UNCHANGED <<buffer, batch, stopped, failed, rest, finalFailed>>
      /\ UNCHANGED <<stop, gaveUp, totals, rows>>
  BY DEF Requeue, Resume, registry, stopping, tables
<1>2. /\ pending' \in Seq(Samples) /\ Market(pending') = Market(flight) + Market(pending)
  BY <1>0, <1>u, MarketConcat DEF Lists
<1>3. Lists'
  BY <1>0, <1>u, <1>2, EmptySeq DEF Lists
<1>4. Places'
  BY <1>0, <1>u DEF Places
<1>5. Alone'
  BY <1>0, <1>u DEF Alone
<1>6. Accounts'
  <2>1. Held' = Held
    <3>1. Market(pending') = Market(flight) + Market(pending) /\ Market(flight') = 0
      BY <1>u, <1>2, MarketEmpty
    <3>2. UNCHANGED <<buffer, batch, failed, rest, finalFailed>>
      BY <1>u
    <3> QED BY <1>0, <3>1, <3>2, HeldIsNat DEF Held
  <2>2. InFlight' = 0 /\ InFlight = 0
    BY <1>u DEF InFlight
  <2> QED BY <1>0, <1>u, <2>1, <2>2 DEF Accounts
<1> QED BY <1>3, <1>4, <1>5, <1>6 DEF WriterInv

\* The thread leaves what its last flush could not write to stop.
LEMMA WriterEnds ==
    ASSUME WriterInv, ThreadEnds, UNCHANGED stage
    PROVE  WriterInv'
<1>0. Lists /\ Places /\ Alone /\ Accounts
  BY DEF WriterInv
<1>u. /\ thread = "end" /\ thread' = "done" /\ lock = "free" /\ lock' = "free"
      /\ finalFailed' = failed /\ failed' = <<>>
      /\ UNCHANGED <<buffer, pending, batch, stopped, flight, rest>>
      /\ UNCHANGED <<stop, gaveUp, totals, rows>>
  BY DEF ThreadEnds, Resume, registry, tables
<1>3. Lists'
  BY <1>0, <1>u, EmptySeq DEF Lists
<1>4. Places'
  BY <1>0, <1>u DEF Places
<1>5. Alone'
  BY <1>0, <1>u DEF Alone
<1>6. Accounts'
  <2>1. ~ gaveUp => Held' = Held
    <3> SUFFICES ASSUME ~ gaveUp
                 PROVE  Held' = Held
      OBVIOUS
    <3>0. finalFailed = <<>>
      BY <1>0, <1>u DEF Alone, Places
    <3>1. Market(finalFailed') = Market(failed) /\ Market(failed') = 0 /\ Market(finalFailed) = 0
      BY <1>u, <3>0, MarketEmpty
    <3>2. UNCHANGED <<buffer, pending, batch, flight, rest>>
      BY <1>u
    <3> QED BY <1>0, <3>1, <3>2, HeldIsNat DEF Held
  <2>2. InFlight' = 0 /\ InFlight = 0
    BY <1>u DEF InFlight
  <2> QED BY <1>0, <1>u, <2>1, <2>2 DEF Accounts
<1> QED BY <1>3, <1>4, <1>5, <1>6 DEF WriterInv

\* What a transaction does to the counters of all windows together.
LEMMA TotalsBegin ==
    ASSUME Lists, NEW who, NEW s \in Seq(Samples), BeginFlush(who, s)
    PROVE  /\ totals' \in [Metrics -> Nat]
           /\ totals'["written"] = totals["written"] + Market(s)
           /\ \A m \in Metrics : m # "written" => totals'[m] = totals[m]
<1>1. totals' = [totals EXCEPT !["written"] = @ + Market(s)] /\ Market(s) \in Nat
  BY MarketIsNat DEF BeginFlush, Total
<1>2. totals \in [Metrics -> Nat] /\ "written" \in Metrics
  BY DEF Lists, Metrics
<1>3. totals["written"] + Market(s) \in Nat
  BY <1>1, <1>2
<1> HIDE DEF Metrics
<1> QED BY <1>1, <1>2, <1>3

\* The same when the transaction fails and the counters are taken back.
LEMMA TotalsBack ==
    ASSUME Lists, NEW who, NEW s \in Seq(Samples), Rollback(who, s), totals["written"] = rows + Market(s)
    PROVE  /\ totals' \in [Metrics -> Nat]
           /\ totals'["written"] = rows
           /\ \A m \in Metrics : m \notin {"written", "errors"} => totals'[m] = totals[m]
<1>1. totals' = [totals EXCEPT !["written"] = @ - Market(s), !["errors"] = @ + 1] /\ Market(s) \in Nat
  BY MarketIsNat DEF Rollback
<1>2. totals \in [Metrics -> Nat] /\ "written" \in Metrics /\ "errors" \in Metrics /\ rows \in Nat
  BY DEF Lists, Metrics
<1>3. totals["written"] - Market(s) = rows /\ totals["errors"] + 1 \in Nat
  BY <1>1, <1>2
<1> QED BY <1>1, <1>2, <1>3

\* A flush counts its batch before the batch is stored.
LEMMA WriterBegins ==
    ASSUME WriterInv, ThreadBegins \/ DrainBegins, UNCHANGED stage
    PROVE  WriterInv'
<1>0. Lists /\ Places /\ Alone /\ Accounts
  BY DEF WriterInv
<1>u. /\ lock = "free"
      /\ UNCHANGED <<buffer, pending, batch, flight, failed, rest, finalFailed>>
      /\ UNCHANGED <<stopped, thread, stop, gaveUp, rows, stage>>
      /\ \/ Flushing /\ lock' = "thread" /\ BeginFlush("thread", flight)
         \/ stop = "flush" /\ lock' = "stop" /\ BeginFlush("stop", rest)
  BY DEF ThreadBegins, DrainBegins, BeginFlush, threads, stopping, tables
<1>1. /\ totals' \in [Metrics -> Nat]
      /\ totals'["written"] = totals["written"] + InFlight'
      /\ \A m \in Metrics : m # "written" => totals'[m] = totals[m]
  <2>1. flight \in Seq(Samples) /\ rest \in Seq(Samples)
    BY <1>0 DEF Lists
  <2>2. CASE lock' = "thread" /\ BeginFlush("thread", flight)
    BY <1>0, <1>u, <2>1, <2>2, TotalsBegin DEF InFlight
  <2>3. CASE lock' = "stop" /\ BeginFlush("stop", rest)
    BY <1>0, <1>u, <2>1, <2>3, TotalsBegin DEF InFlight
  <2> QED BY <1>u, <2>2, <2>3
<1>2. Lists'
  BY <1>0, <1>u, <1>1 DEF Lists
<1>3. Places'
  BY <1>0, <1>u DEF Places, Flushing
<1>4. Alone'
  BY <1>0, <1>u DEF Alone
<1>5. Accounts'
  <2>1. Held' = Held
    BY <1>u DEF Held
  <2>2. InFlight = 0
    BY <1>u DEF InFlight
  <2>3. /\ totals'["parsed"] = totals["parsed"] /\ totals'["queued"] = totals["queued"]
        /\ totals'["dropped"] = totals["dropped"] /\ totals'["final"] = totals["final"]
    BY <1>1 DEF Metrics
  <2>4. rows \in Nat /\ rows' = rows
    BY <1>0, <1>u DEF Lists
  <2> QED BY <1>0, <1>u, <1>1, <2>1, <2>2, <2>3, <2>4 DEF Accounts
<1> QED BY <1>2, <1>3, <1>4, <1>5 DEF WriterInv

\* The batch of the thread is in the table.
LEMMA WriterCommits ==
    ASSUME WriterInv, ThreadCommits, UNCHANGED stage
    PROVE  WriterInv'
<1>0. Lists /\ Places /\ Alone /\ Accounts
  BY DEF WriterInv
<1>u. /\ Flushing /\ lock = "thread" /\ lock' = "free" /\ flight' = <<>>
      /\ thread' = (IF thread = "last" THEN "end" ELSE "loop")
      /\ rows' = rows + Market(flight)
      /\ UNCHANGED <<buffer, pending, batch, failed, rest, finalFailed>>
      /\ UNCHANGED <<stopped, stop, gaveUp, totals>>
  BY DEF ThreadCommits, Commit, Resume, registry, stopping
<1>1. rows \in Nat /\ Market(flight) \in Nat
  BY <1>0, HeldIsNat DEF Lists
<1>2. Lists'
  BY <1>0, <1>u, <1>1, EmptySeq DEF Lists
<1>3. Places'
  BY <1>0, <1>u DEF Places, Flushing
<1>4. Alone'
  BY <1>0, <1>u DEF Alone, Flushing
<1>5. Accounts'
  <2>1. Held = Held' + Market(flight)
    <3>1. Market(flight') = 0
      BY <1>u, MarketEmpty
    <3>2. UNCHANGED <<buffer, pending, batch, failed, rest, finalFailed>>
      BY <1>u
    <3> QED BY <1>0, <3>1, <3>2, HeldIsNat DEF Held
  <2>2. InFlight' = 0 /\ InFlight = Market(flight)
    BY <1>u DEF InFlight
  <2>3. Held' \in Nat
    BY <1>2, HeldNext
  <2>4. totals["final"] \in Nat /\ totals["queued"] \in Nat
    BY <1>0, TotalsAreNat DEF Metrics
  <2>5. rows' = rows + Market(flight) /\ UNCHANGED <<totals, gaveUp>>
    BY <1>u
  <2> QED BY <1>0, <1>1, <2>1, <2>2, <2>3, <2>4, <2>5 DEF Accounts
<1> QED BY <1>2, <1>3, <1>4, <1>5 DEF WriterInv

\* The batch of the thread is not: it is kept, or failed for good.
LEMMA WriterFails ==
    ASSUME WriterInv, ThreadFails, UNCHANGED stage
    PROVE  WriterInv'
<1>0. Lists /\ Places /\ Alone /\ Accounts
  BY DEF WriterInv
<1>u. /\ Flushing /\ lock = "thread" /\ lock' = "free" /\ Rollback("thread", flight)
      /\ thread' = (IF thread = "last" THEN "end" ELSE "requeue")
      /\ IF thread = "last" THEN failed' = flight /\ flight' = <<>>
                            ELSE failed' = failed /\ flight' = flight
      /\ UNCHANGED <<buffer, pending, batch, rest, finalFailed>>
      /\ UNCHANGED <<stopped, stop, gaveUp, rows>>
  BY DEF ThreadFails, Rollback, Released, Resume, stopping
<1>1. InFlight = Market(flight) /\ InFlight' = 0
  BY <1>u DEF InFlight
<1>2. /\ totals' \in [Metrics -> Nat] /\ totals'["written"] = rows
      /\ totals'["parsed"] = totals["parsed"] /\ totals'["queued"] = totals["queued"]
      /\ totals'["dropped"] = totals["dropped"] /\ totals'["final"] = totals["final"]
  <2>1. flight \in Seq(Samples) /\ totals["written"] = rows + Market(flight)
    BY <1>0, <1>1 DEF Lists, Accounts
  <2>2. /\ totals' \in [Metrics -> Nat] /\ totals'["written"] = rows
        /\ \A m \in Metrics : m \notin {"written", "errors"} => totals'[m] = totals[m]
    BY <1>0, <1>u, <2>1, TotalsBack
  <2> QED BY <2>2 DEF Metrics
<1>3. Lists'
  <2>1. failed' \in Seq(Samples) /\ flight' \in Seq(Samples)
    BY <1>0, <1>u, EmptySeq DEF Lists
  <2> QED BY <1>0, <1>u, <1>2, <2>1 DEF Lists
<1>4. Places'
  BY <1>0, <1>u DEF Places, Flushing
<1>5. Alone'
  BY <1>0, <1>u DEF Alone, Flushing
<1>6. Accounts'
  <2>1. Held' = Held
    <3>1. Market(failed') + Market(flight') = Market(failed) + Market(flight)
      <4>1. CASE thread = "last"
        <5>1. failed = <<>>
          BY <1>0, <4>1 DEF Places
        <5> QED BY <1>u, <4>1, <5>1, MarketEmpty, <1>0, HeldIsNat
      <4>2. CASE thread # "last"
        BY <1>u, <4>2
      <4> QED BY <4>1, <4>2
    <3>2. UNCHANGED <<buffer, pending, batch, rest, finalFailed>>
      BY <1>u
    <3>3. Market(failed') \in Nat /\ Market(flight') \in Nat
      BY <1>3, MarketIsNat DEF Lists
    <3> QED BY <1>0, <3>1, <3>2, <3>3, HeldIsNat DEF Held
  <2>2. rows \in Nat /\ rows' = rows /\ UNCHANGED gaveUp
    BY <1>0, <1>u DEF Lists
  <2> QED BY <1>0, <1>1, <1>2, <2>1, <2>2 DEF Accounts
<1> QED BY <1>3, <1>4, <1>5, <1>6 DEF WriterInv

\* The main coroutine tells the thread to stop.
LEMMA WriterStops ==
    ASSUME WriterInv, StopWriter
    PROVE  WriterInv'
<1>0. Lists /\ Places /\ Alone /\ Accounts
  BY DEF WriterInv
<1>u. /\ stop = "no" /\ stop' = "join" /\ stopped' = TRUE /\ stage' = "writer"
      /\ UNCHANGED <<buffer, pending, batch, thread, flight, failed, rest, finalFailed>>
      /\ UNCHANGED <<lock, gaveUp, totals, rows>>
  BY DEF StopWriter, SetStopped, To, registry, tables
<1>1. Lists'
  BY <1>0, <1>u DEF Lists
<1>2. Places'
  BY <1>0, <1>u DEF Places
<1>3. Alone'
  BY <1>u DEF Alone
<1>4. Accounts'
  BY <1>0, <1>u DEF Accounts, Held, InFlight
<1> QED BY <1>1, <1>2, <1>3, <1>4 DEF WriterInv

\* The join ends, with the thread or without it.
LEMMA WriterJoins ==
    ASSUME WriterInv, Join, UNCHANGED stage
    PROVE  WriterInv'
<1>0. Lists /\ Places /\ Alone /\ Accounts
  BY DEF WriterInv
<1>u. /\ stop = "join" /\ stop' = "drain" /\ gaveUp' = (thread # "done")
      /\ UNCHANGED <<buffer, pending, batch, stopped, thread, flight, failed, rest, finalFailed>>
      /\ UNCHANGED <<lock, totals, rows>>
  BY DEF Join, threads, registry, tables
<1>1. Lists'
  BY <1>0, <1>u DEF Lists
<1>2. Places'
  <2>1. gaveUp' \in BOOLEAN
    BY <1>u
  <2> QED BY <1>0, <1>u, <2>1 DEF Places
<1>3. Alone'
  BY <1>u DEF Alone
<1>4. Accounts'
  <2>1. ~ gaveUp
    BY <1>0, <1>u DEF Places
  <2> QED BY <1>0, <1>u, <2>1 DEF Accounts, Held, InFlight
<1> QED BY <1>1, <1>2, <1>3, <1>4 DEF WriterInv

\* stop takes what is left in the lists.
LEMMA WriterDrains ==
    ASSUME WriterInv, Drain, UNCHANGED stage
    PROVE  WriterInv'
<1>0. Lists /\ Places /\ Alone /\ Accounts
  BY DEF WriterInv
<1>u. /\ stop = "drain" /\ lock = "free" /\ lock' = "free"
      /\ rest' = Leftover /\ pending' = <<>> /\ buffer' = <<>>
      /\ stop' = IF Leftover = <<>> THEN "report" ELSE "flush"
      /\ UNCHANGED <<batch, stopped, thread, flight, failed, finalFailed>>
      /\ UNCHANGED <<gaveUp, totals, rows>>
  BY DEF Drain, registry, tables
<1>1. rest = <<>>
  BY <1>0, <1>u DEF Places
<1>2. Leftover \in Seq(Samples) /\ Market(Leftover) = Market(pending) + Market(buffer)
  BY <1>0, MarketConcat DEF Leftover, Lists
<1>3. Lists'
  <2>1. <<>> \in Seq(Samples) /\ Len(<<>>) = 0 /\ 0 <= Cap
    BY EmptySeq
  <2> QED BY <1>0, <1>u, <1>2, <2>1 DEF Lists
<1>4. Places'
  BY <1>0, <1>u DEF Places
<1>5. Alone'
  <2>1. Market(buffer') = 0
    BY <1>u, MarketEmpty
  <2> QED BY <1>0, <1>u, <2>1 DEF Alone
<1>6. Accounts'
  <2>1. Held' = Held
    <3>1. /\ Market(rest') = Market(pending) + Market(buffer)
          /\ Market(pending') = 0 /\ Market(buffer') = 0 /\ Market(rest) = 0
      BY <1>u, <1>1, <1>2, MarketEmpty
    <3>2. UNCHANGED <<batch, flight, failed, finalFailed>>
      BY <1>u
    <3> QED BY <1>0, <3>1, <3>2, HeldIsNat DEF Held
  <2>2. InFlight' = 0 /\ InFlight = 0
    BY <1>u DEF InFlight
  <2> QED BY <1>0, <1>u, <2>1, <2>2 DEF Accounts
<1> QED BY <1>3, <1>4, <1>5, <1>6 DEF WriterInv

\* What was left is in the table.
LEMMA DrainIsCommitted ==
    ASSUME WriterInv, DrainCommits, UNCHANGED stage
    PROVE  WriterInv'
<1>0. Lists /\ Places /\ Alone /\ Accounts
  BY DEF WriterInv
<1>u. /\ stop = "flush" /\ stop' = "report" /\ lock = "stop" /\ lock' = "free" /\ rest' = <<>>
      /\ rows' = rows + Market(rest)
      /\ UNCHANGED <<buffer, pending, batch, stopped, thread, flight, failed, finalFailed>>
      /\ UNCHANGED <<gaveUp, totals>>
  BY DEF DrainCommits, Commit, threads, registry
<1>1. rows \in Nat /\ Market(rest) \in Nat
  BY <1>0, HeldIsNat DEF Lists
<1>2. Lists'
  BY <1>0, <1>u, <1>1, EmptySeq DEF Lists
<1>3. Places'
  BY <1>0, <1>u DEF Places
<1>4. Alone'
  BY <1>0, <1>u DEF Alone
<1>5. Accounts'
  <2>1. Held = Held' + Market(rest)
    <3>1. Market(rest') = 0
      BY <1>u, MarketEmpty
    <3>2. UNCHANGED <<buffer, pending, batch, flight, failed, finalFailed>>
      BY <1>u
    <3> QED BY <1>0, <3>1, <3>2, HeldIsNat DEF Held
  <2>2. InFlight' = 0 /\ InFlight = Market(rest)
    BY <1>u DEF InFlight
  <2>3. Held' \in Nat
    BY <1>2, HeldNext
  <2>4. totals["final"] \in Nat /\ totals["queued"] \in Nat
    BY <1>0, TotalsAreNat DEF Metrics
  <2>5. rows' = rows + Market(rest) /\ UNCHANGED <<totals, gaveUp>>
    BY <1>u
  <2> QED BY <1>0, <1>1, <2>1, <2>2, <2>3, <2>4, <2>5 DEF Accounts
<1> QED BY <1>2, <1>3, <1>4, <1>5 DEF WriterInv

\* What was left has failed for good.
LEMMA DrainIsLost ==
    ASSUME WriterInv, DrainFails, UNCHANGED stage
    PROVE  WriterInv'
<1>0. Lists /\ Places /\ Alone /\ Accounts
  BY DEF WriterInv
<1>u. /\ stop = "flush" /\ stop' = "report" /\ lock = "stop" /\ lock' = "free"
      /\ Rollback("stop", rest) /\ finalFailed' = finalFailed \o rest /\ rest' = <<>>
      /\ UNCHANGED <<buffer, pending, batch, stopped, thread, flight, failed>>
      /\ UNCHANGED <<gaveUp, rows>>
  BY DEF DrainFails, Rollback, Released, threads
<1>1. InFlight = Market(rest) /\ InFlight' = 0
  BY <1>u DEF InFlight
<1>2. /\ totals' \in [Metrics -> Nat] /\ totals'["written"] = rows
      /\ totals'["parsed"] = totals["parsed"] /\ totals'["queued"] = totals["queued"]
      /\ totals'["dropped"] = totals["dropped"] /\ totals'["final"] = totals["final"]
  <2>1. rest \in Seq(Samples) /\ totals["written"] = rows + Market(rest)
    BY <1>0, <1>1 DEF Lists, Accounts
  <2>2. /\ totals' \in [Metrics -> Nat] /\ totals'["written"] = rows
        /\ \A m \in Metrics : m \notin {"written", "errors"} => totals'[m] = totals[m]
    BY <1>0, <1>u, <2>1, TotalsBack
  <2> QED BY <2>2 DEF Metrics
<1>3. /\ finalFailed' \in Seq(Samples)
      /\ Market(finalFailed') = Market(finalFailed) + Market(rest)
  BY <1>0, <1>u, MarketConcat DEF Lists
<1>4. Lists'
  BY <1>0, <1>u, <1>2, <1>3, EmptySeq DEF Lists
<1>5. Places'
  BY <1>0, <1>u DEF Places
<1>6. Alone'
  BY <1>0, <1>u DEF Alone
<1>7. Accounts'
  <2>1. Held' = Held
    <3>1. Market(finalFailed') = Market(finalFailed) + Market(rest) /\ Market(rest') = 0
      BY <1>u, <1>3, MarketEmpty
    <3>2. UNCHANGED <<buffer, pending, batch, flight, failed>>
      BY <1>u
    <3> QED BY <1>0, <3>1, <3>2, HeldIsNat DEF Held
  <2>2. rows \in Nat /\ rows' = rows /\ UNCHANGED gaveUp
    BY <1>0, <1>u DEF Lists
  <2> QED BY <1>0, <1>1, <1>2, <2>1, <2>2 DEF Accounts
<1> QED BY <1>4, <1>5, <1>6, <1>7 DEF WriterInv

\* What failed for good is counted.
LEMMA WriterReports ==
    ASSUME WriterInv, Report, UNCHANGED stage
    PROVE  WriterInv'
<1>0. Lists /\ Places /\ Alone /\ Accounts
  BY DEF WriterInv
<1>u. /\ stop = "report" /\ stop' = "done" /\ lock = "free" /\ lock' = "free" /\ finalFailed' = <<>>
      /\ IF Market(finalFailed) = 0 THEN UNCHANGED totals ELSE Total("final", Market(finalFailed))
      /\ UNCHANGED <<buffer, pending, batch, stopped, thread, flight, failed, rest>>
      /\ UNCHANGED <<gaveUp, rows>>
  BY DEF Report, threads, registry
<1>1. Market(finalFailed) \in Nat /\ totals \in [Metrics -> Nat] /\ rows \in Nat
  BY <1>0, HeldIsNat DEF Lists
<1>2. /\ totals' \in [Metrics -> Nat]
      /\ totals'["final"] = totals["final"] + Market(finalFailed)
      /\ totals'["parsed"] = totals["parsed"] /\ totals'["queued"] = totals["queued"]
      /\ totals'["dropped"] = totals["dropped"] /\ totals'["written"] = totals["written"]
  <2>1. {"parsed", "queued", "dropped", "written", "final"} \subseteq Metrics
    BY DEF Metrics
  <2>2. totals["final"] \in Nat
    BY <1>1, <2>1
  <2>3. CASE Market(finalFailed) = 0
    BY <1>u, <1>1, <2>2, <2>3
  <2>4. CASE Market(finalFailed) # 0
    <3>1. totals' = [totals EXCEPT !["final"] = @ + Market(finalFailed)]
      BY <1>u, <2>4 DEF Total
    <3>2. totals["final"] + Market(finalFailed) \in Nat
      BY <1>1, <2>2
    <3> QED BY <1>1, <2>1, <3>1, <3>2
  <2> QED BY <2>3, <2>4
<1>3. Lists'
  BY <1>0, <1>u, <1>2, EmptySeq DEF Lists
<1>4. Places'
  BY <1>0, <1>u DEF Places
<1>5. Alone'
  BY <1>0, <1>u DEF Alone
<1>6. Accounts'
  <2>1. Held = Held' + Market(finalFailed)
    <3>1. Market(finalFailed') = 0
      BY <1>u, MarketEmpty
    <3>2. UNCHANGED <<buffer, pending, batch, flight, failed, rest>>
      BY <1>u
    <3> QED BY <1>0, <3>1, <3>2, HeldIsNat DEF Held
  <2>2. InFlight' = 0 /\ InFlight = 0
    BY <1>u DEF InFlight
  <2>3. Held' \in Nat
    BY <1>3, HeldNext
  <2>4. totals["final"] \in Nat /\ totals["queued"] \in Nat
    BY <1>0, TotalsAreNat DEF Metrics
  <2>5. UNCHANGED <<rows, gaveUp>>
    BY <1>u
  <2> QED BY <1>0, <1>1, <1>2, <2>1, <2>2, <2>3, <2>4, <2>5 DEF Accounts
<1> QED BY <1>3, <1>4, <1>5, <1>6 DEF WriterInv

-----------------------------------------------------------------------------
(* The windows: steps that leave alone what was queued and dropped.        *)

Of(reg, w) == IF w \in DOMAIN reg THEN reg[w] ELSE [m \in {} |-> 0]

\* reg counts the known windows by the known metrics.
IsRegistry(reg) == /\ DOMAIN reg \subseteq Windows
                   /\ \A w \in DOMAIN reg :
                         /\ DOMAIN reg[w] \subseteq Metrics
                         /\ \A m \in DOMAIN reg[w] \cap {"queued", "dropped"} : reg[w][m] \in Nat

\* new has the counters of queued and dropped samples of old.
SameCounts(old, new) ==
    \A w \in Windows : \A m \in {"queued", "dropped"} :
       /\ m \in DOMAIN Of(new, w) <=> m \in DOMAIN Of(old, w)
       /\ m \in DOMAIN Of(old, w) => Of(new, w)[m] = Of(old, w)[m]

SameRows == /\ DOMAIN statRows' \subseteq Windows \X Metrics
            /\ \A w \in Windows : \A m \in {"queued", "dropped"} : Stored(w, m)' = Stored(w, m)

Quiet == /\ now' \in Windows /\ now' >= now
         /\ UNCHANGED <<series, event, todo, emitting, skipped, sumRows, accepted, refused>>
         /\ DOMAIN committed' \subseteq Windows
         /\ IsRegistry(counters') /\ SameCounts(counters, counters')
         /\ SameRows
         /\ stage' \in {"run", "tasks"} => stage \in {"run", "tasks"}

\* A quiet step keeps the invariant of the windows.
LEMMA QuietKeeps ==
    ASSUME WindowInv, Quiet
    PROVE  WindowInv'
<1>0. Named /\ Events /\ Registered
  BY DEF WindowInv
<1>u. /\ now' \in Windows /\ now' >= now /\ now \in Int /\ now' \in Int
      /\ UNCHANGED <<series, event, todo, emitting, skipped, sumRows, accepted, refused>>
      /\ stage' \in {"run", "tasks"} => stage \in {"run", "tasks"}
  BY <1>0 DEF Quiet, Named, Windows
<1>1. \A w \in Windows : /\ Stored(w, "queued")' = Stored(w, "queued")
                         /\ Stored(w, "dropped")' = Stored(w, "dropped")
  BY DEF Quiet, SameRows
<1>2. Named'
  BY <1>0 DEF Quiet, SameRows, IsRegistry, Named
<1>3. Events'
  BY <1>0, <1>u DEF Events, Ended
<1>4. \A w \in Windows : Settled(w)' <=> Settled(w)
  BY <1>u, <1>1 DEF Settled
<1>5. \A w \in DOMAIN counters' : Exact(counters[w], w)'
  <2> TAKE w \in DOMAIN counters'
  <2>1. w \in Windows /\ counters'[w] = Of(counters', w)
    BY <1>2 DEF Named, Of
  <2>2. Exact(Of(counters, w), w)
    <3>1. CASE w \in DOMAIN counters
      BY <1>0, <3>1 DEF Registered, Of
    <3>2. CASE w \notin DOMAIN counters
      BY <3>2 DEF Exact, Of
    <3> QED BY <3>1, <3>2
  <2>3. \A m \in {"queued", "dropped"} :
           /\ m \in DOMAIN Of(counters', w) <=> m \in DOMAIN Of(counters, w)
           /\ m \in DOMAIN Of(counters, w) => Of(counters', w)[m] = Of(counters, w)[m]
    BY <2>1 DEF Quiet, SameCounts
  <2> HIDE DEF Of
  <2> QED BY <1>u, <2>1, <2>2, <2>3 DEF Exact
<1>6. \A w \in Windows : Full(Bucket(w), w)' <=> Full(Bucket(w), w)
  <2> TAKE w \in Windows
  <2>1. Bucket(w) = Of(counters, w) /\ Bucket(w)' = Of(counters', w)
    BY DEF Bucket, Of
  <2>2. \A m \in {"queued", "dropped"} : At(Bucket(w), m)' = At(Bucket(w), m)
    BY <2>1 DEF Quiet, SameCounts, At
  <2> QED BY <1>u, <2>2 DEF Full
<1>7. Registered'
  <2>1. \A w \in DOMAIN series' : Open(w)'
    BY <1>0, <1>u, <1>6 DEF Registered, Open, Named
  <2>2. \A w \in Windows : /\ Stored(w, "queued")' \in 0 .. accepted'[w]
                           /\ Stored(w, "dropped")' \in 0 .. refused'[w]
    BY <1>0, <1>u, <1>1 DEF Registered
  <2>3. \A w \in Windows : stage' \in {"run", "tasks"} /\ w > now' - 2 /\ w \notin DOMAIN series'
                             => accepted'[w] = 0 /\ refused'[w] = 0
    BY <1>0, <1>u DEF Registered, Windows
  <2>4. \A w \in Windows \ (DOMAIN series' \cup skipped') :
          (emitting' # <<>> => emitting'[1].w # w) => Settled(w)'
    BY <1>0, <1>u, <1>4 DEF Registered
  <2>5. emitting' # <<>> => Emitted(emitting[1])'
    BY <1>0, <1>u, <1>4 DEF Registered, Emitted, Exact, Full
  <2> QED BY <1>5, <2>1, <2>2, <2>3, <2>4, <2>5 DEF Registered
<1> QED BY <1>2, <1>3, <1>7 DEF WindowInv

\* A market sample is the number of a window.
LEMMA SamplesOf ==
    ASSUME NEW s \in Seq(Samples)
    PROVE  ToSet(s) \ {Other} \subseteq Windows
BY DEF ToSet, Samples

\* Two quiet changes of the registry are one.
LEMMA CountsAreTransitive ==
    ASSUME NEW f, NEW g, NEW h, SameCounts(f, g), SameCounts(g, h)
    PROVE  SameCounts(f, h)
BY DEF SameCounts

\* The written counter of some windows changes.
LEMMA WrittenIsQuiet ==
    ASSUME NEW reg, IsRegistry(reg), NEW s \in Seq(Samples), NEW sign
    PROVE  /\ IsRegistry(CountWritten(reg, s, sign))
           /\ SameCounts(reg, CountWritten(reg, s, sign))
<1> DEFINE own == ToSet(s) \ {Other}
           g   == CountWritten(reg, s, sign)
           new(w) == With(Of(reg, w), "written", At(Of(reg, w), "written") + sign * Count(s, w))
<1>1. own \subseteq Windows
  BY SamplesOf
<1>2. g = [w \in DOMAIN reg \cup own |-> IF w \notin own THEN reg[w] ELSE new(w)]
  BY DEF CountWritten, Of
<1> HIDE DEF own, g
<1>3. \A w : /\ DOMAIN Of(reg, w) \subseteq Metrics
             /\ DOMAIN new(w) = DOMAIN Of(reg, w) \cup {"written"}
             /\ \A m \in DOMAIN Of(reg, w) : m # "written" => new(w)[m] = Of(reg, w)[m]
  BY DEF With, Of, IsRegistry
<1> HIDE DEF new
<1>4. IsRegistry(g)
  <2>1. DOMAIN g \subseteq Windows
    BY <1>1, <1>2 DEF IsRegistry
  <2>2. ASSUME NEW w \in DOMAIN g
        PROVE  /\ DOMAIN g[w] \subseteq Metrics
               /\ \A m \in DOMAIN g[w] \cap {"queued", "dropped"} : g[w][m] \in Nat
    <3>1. CASE w \in own
      <4>1. g[w] = new(w)
        BY <1>2, <3>1
      <4>2. \A m \in DOMAIN Of(reg, w) \cap {"queued", "dropped"} : Of(reg, w)[m] \in Nat
        BY DEF Of, IsRegistry
      <4> QED BY <1>3, <4>1, <4>2 DEF Metrics
    <3>2. CASE w \notin own
      BY <1>2, <3>2 DEF IsRegistry
    <3> QED BY <3>1, <3>2
  <2> QED BY <2>1, <2>2 DEF IsRegistry
<1>5. ASSUME NEW w \in Windows, NEW m \in {"queued", "dropped"}
      PROVE  /\ m \in DOMAIN Of(g, w) <=> m \in DOMAIN Of(reg, w)
             /\ m \in DOMAIN Of(reg, w) => Of(g, w)[m] = Of(reg, w)[m]
  <2>1. CASE w \in own
    <3>1. Of(g, w) = new(w)
      BY <1>2, <2>1 DEF Of
    <3> QED BY <1>3, <3>1
  <2>2. CASE w \notin own
    BY <1>2, <2>2 DEF Of
  <2> QED BY <2>1, <2>2
<1> QED BY <1>4, <1>5 DEF SameCounts, g

\* One counter of the present window goes up that counts neither.
LEMMA OtherCountIsQuiet ==
    ASSUME NEW reg, IsRegistry(reg), NEW w0 \in Windows, NEW metric \in {"errors", "final"}, NEW n
    PROVE  /\ IsRegistry(Increased(reg, w0, [m \in {metric} |-> n]))
           /\ SameCounts(reg, Increased(reg, w0, [m \in {metric} |-> n]))
<1> DEFINE bucket == Of(reg, w0)
           new == [m \in DOMAIN bucket \cup {metric} |-> At(bucket, m) + At([x \in {metric} |-> n], m)]
           g   == Increased(reg, w0, [m \in {metric} |-> n])
<1>1. g = [w \in DOMAIN reg \cup {w0} |-> IF w = w0 THEN new ELSE reg[w]]
  BY DEF Increased, With, Of
<1>2. /\ DOMAIN bucket \subseteq Metrics
      /\ \A m \in DOMAIN bucket \cap {"queued", "dropped"} : bucket[m] \in Nat
  BY DEF Of, IsRegistry
<1> HIDE DEF g, bucket
<1>3. /\ DOMAIN new = DOMAIN bucket \cup {metric} /\ DOMAIN new \subseteq Metrics
      /\ \A m \in {"queued", "dropped"} : m \in DOMAIN new <=> m \in DOMAIN bucket
  BY <1>2 DEF Metrics
<1>4. \A m \in DOMAIN bucket \cap {"queued", "dropped"} : new[m] = bucket[m]
  BY <1>2 DEF At
<1> HIDE DEF new
<1>5. IsRegistry(g)
  <2>1. DOMAIN g \subseteq Windows
    BY <1>1 DEF IsRegistry
  <2>2. ASSUME NEW w \in DOMAIN g
        PROVE  /\ DOMAIN g[w] \subseteq Metrics
               /\ \A m \in DOMAIN g[w] \cap {"queued", "dropped"} : g[w][m] \in Nat
    <3>1. CASE w = w0
      BY <1>1, <1>2, <1>3, <1>4, <3>1
    <3>2. CASE w # w0
      BY <1>1, <3>2 DEF IsRegistry
    <3> QED BY <3>1, <3>2
  <2> QED BY <2>1, <2>2 DEF IsRegistry
<1>6. ASSUME NEW w \in Windows, NEW m \in {"queued", "dropped"}
      PROVE  /\ m \in DOMAIN Of(g, w) <=> m \in DOMAIN Of(reg, w)
             /\ m \in DOMAIN Of(reg, w) => Of(g, w)[m] = Of(reg, w)[m]
  <2>1. CASE w = w0
    <3>1. Of(g, w) = new /\ Of(reg, w) = bucket
      BY <1>1, <2>1 DEF Of, bucket
    <3> QED BY <1>3, <1>4, <3>1
  <2>2. CASE w # w0
    BY <1>1, <2>2 DEF Of
  <2> QED BY <2>1, <2>2
<1> QED BY <1>5, <1>6 DEF SameCounts, g

\* The counters are a registry in every state of the invariant.
LEMMA RegistryOfInv ==
    ASSUME WindowInv
    PROVE  IsRegistry(counters)
<1>1. Named /\ Registered
  BY DEF WindowInv
<1> QED BY <1>1 DEF IsRegistry, Named, Registered, Exact

\* Nothing changes when nothing is assigned.
LEMMA NothingCounted ==
    ASSUME WindowInv, UNCHANGED <<counters, statRows>>
    PROVE  IsRegistry(counters') /\ SameCounts(counters, counters') /\ SameRows
BY RegistryOfInv DEF SameCounts, SameRows, WindowInv, Named, Stored

\* The tables of a transaction that is committed, and of one that is not.
LEMMA CommitIsQuiet ==
    ASSUME WindowInv, NEW who, NEW s \in Seq(Samples), Commit(who, s)
    PROVE  DOMAIN committed' \subseteq Windows /\ SameRows
<1> DEFINE own == ToSet(s) \ {Other}
<1>1. own \subseteq Windows
  BY SamplesOf
<1> HIDE DEF own
<1>2. statRows' = [x \in DOMAIN statRows \cup (own \X {"written"}) |->
                     IF x \in own \X {"written"} THEN Cumulative(s, x[1]) ELSE statRows[x]]
  BY DEF Commit, own
<1>3. DOMAIN statRows \subseteq Windows \X Metrics /\ DOMAIN committed \subseteq Windows
  BY DEF WindowInv, Named
<1>4. DOMAIN statRows' \subseteq Windows \X Metrics
  BY <1>1, <1>2, <1>3 DEF Metrics
<1>5. \A w \in Windows : \A m \in {"queued", "dropped"} : Stored(w, m)' = Stored(w, m)
  BY <1>2 DEF Stored, At
<1>6. DOMAIN committed' \subseteq DOMAIN committed \cup own
  BY DEF Commit, Pruned, own
<1> QED BY <1>1, <1>3, <1>4, <1>5, <1>6 DEF SameRows

\* A row of another metric is written, or is not.
LEMMA OtherRowIsQuiet ==
    ASSUME WindowInv, NEW metric \in {"errors", "final"}, NEW n,
           \/ statRows' = With(statRows, <<now, metric>>, n)
           \/ UNCHANGED statRows
    PROVE  SameRows
<1>1. DOMAIN statRows \subseteq Windows \X Metrics /\ now \in Windows
  BY DEF WindowInv, Named
<1>2. DOMAIN statRows' \subseteq Windows \X Metrics
  BY <1>1 DEF With, Metrics
<1>3. \A w \in Windows : \A m \in {"queued", "dropped"} : Stored(w, m)' = Stored(w, m)
  BY DEF Stored, At, With
<1> QED BY <1>2, <1>3 DEF SameRows

\* A transaction that fails changes counters of other metrics only.
LEMMA RollbackIsQuiet ==
    ASSUME WindowInv, NEW who, NEW s \in Seq(Samples), Rollback(who, s)
    PROVE  IsRegistry(counters') /\ SameCounts(counters, counters') /\ SameRows
<1> DEFINE back == CountWritten(counters, s, -1)
<1>1. IsRegistry(back) /\ SameCounts(counters, back)
  BY RegistryOfInv, WrittenIsQuiet
<1>2. counters' = Increased(back, now, [m \in {"errors"} |-> 1]) /\ now \in Windows
  BY DEF Rollback, WindowInv, Named
<1> HIDE DEF back
<1>3. IsRegistry(counters') /\ SameCounts(back, counters')
  BY <1>1, <1>2, OtherCountIsQuiet
<1>4. SameRows
  BY OtherRowIsQuiet DEF Rollback
<1> QED BY <1>1, <1>3, <1>4, CountsAreTransitive

\* Time, the thread, stop, and the samples no counter counts.
LEMMA QuietSteps ==
    ASSUME IInv,
           \/ OtherSample \/ TimePasses \/ RequestStop \/ StopWriter \/ Return
           \/ WriterThread \/ Stopping
    PROVE  Quiet
<1>0. WindowInv /\ WriterInv /\ Lists /\ now \in Windows /\ DOMAIN committed \subseteq Windows
  BY DEF IInv, WriterInv, WindowInv, Named
<1>1. flight \in Seq(Samples) /\ rest \in Seq(Samples) /\ now \in Int
  BY <1>0 DEF Lists, Windows
<1> DEFINE Frame == UNCHANGED <<series, event, todo, emitting, skipped, sumRows, accepted, refused>>
           Same  == UNCHANGED <<now, committed, counters, statRows>>
           Turn  == stage' \in {"run", "tasks"} => stage \in {"run", "tasks"}
<1>2. ASSUME Same, Frame, Turn  PROVE Quiet
  BY <1>0, <1>1, <1>2, NothingCounted DEF Quiet
<1>3. CASE TimePasses
  <2>1. Frame /\ Turn /\ UNCHANGED <<committed, counters, statRows>> /\ now' = now + 1 /\ now < Horizon
    BY <1>3 DEF TimePasses, Clock, registry, windows, tables, history, probeVars
  <2>2. now' \in Windows
    BY <1>0, <2>1 DEF Windows
  <2> QED BY <1>0, <1>1, <2>1, <2>2, NothingCounted DEF Quiet
<1>4. CASE OtherSample \/ RequestStop \/ StopWriter \/ Return
  <2>1. Same /\ Frame /\ Turn
    BY <1>4 DEF OtherSample, PutOther, RequestStop, StopWriter, SetStopped, Return, To,
                registry, windows, tables, history, writerVars
  <2> QED BY <1>2, <2>1
<1>5. ASSUME UNCHANGED stage, TakePending \/ Get \/ LastFlush \/ Requeue \/ ThreadEnds \/ Join \/ Drain
      PROVE  Quiet
  <2>1. Same /\ Frame /\ Turn
    BY <1>5 DEF TakePending, Get, LastFlush, Requeue, ThreadEnds, Join, Drain,
                registry, windows, tables, history
  <2> QED BY <1>2, <2>1
<1>6. ASSUME UNCHANGED stage, ThreadBegins \/ DrainBegins  PROVE Quiet
  <2>1. /\ Frame /\ Turn /\ UNCHANGED <<now, committed, statRows>>
        /\ \E s \in Seq(Samples) : counters' = CountWritten(counters, s, 1)
    BY <1>1, <1>6 DEF ThreadBegins, DrainBegins, BeginFlush, windows, tables, history
  <2>2. IsRegistry(counters') /\ SameCounts(counters, counters')
    BY <1>0, <2>1, RegistryOfInv, WrittenIsQuiet
  <2>3. SameRows
    BY <1>0, <2>1 DEF SameRows, WindowInv, Named, Stored
  <2> QED BY <1>0, <1>1, <2>1, <2>2, <2>3 DEF Quiet
<1>7. ASSUME UNCHANGED stage, ThreadCommits \/ DrainCommits  PROVE Quiet
  <2>1. /\ Frame /\ Turn /\ UNCHANGED <<now, counters>>
        /\ \E who : \E s \in Seq(Samples) : Commit(who, s)
    BY <1>1, <1>7 DEF ThreadCommits, DrainCommits, Commit, windows, registry, history
  <2>2. DOMAIN committed' \subseteq Windows /\ SameRows
    BY <1>0, <2>1, CommitIsQuiet
  <2>3. IsRegistry(counters') /\ SameCounts(counters, counters')
    BY <1>0, <2>1, RegistryOfInv DEF SameCounts
  <2> QED BY <1>0, <1>1, <2>1, <2>2, <2>3 DEF Quiet
<1>8. ASSUME UNCHANGED stage, ThreadFails \/ DrainFails  PROVE Quiet
  <2>1. /\ Frame /\ Turn /\ UNCHANGED <<now, committed>>
        /\ \E who : \E s \in Seq(Samples) : Rollback(who, s)
    BY <1>1, <1>8 DEF ThreadFails, DrainFails, Rollback, windows, history
  <2>2. IsRegistry(counters') /\ SameCounts(counters, counters') /\ SameRows
    BY <1>0, <2>1, RollbackIsQuiet
  <2> QED BY <1>0, <1>1, <2>1, <2>2 DEF Quiet
<1>9. ASSUME UNCHANGED stage, Report  PROVE Quiet
  <2>1. Frame /\ Turn /\ UNCHANGED <<now, committed>>
    BY <1>9 DEF Report, windows, history
  <2>2. CASE UNCHANGED <<counters, statRows>>
    BY <1>2, <2>1, <2>2
  <2>3. CASE /\ counters' = Increased(counters, now, [m \in {"final"} |-> Market(finalFailed)])
             /\ \/ statRows' = With(statRows, <<now, "final">>, At(counters'[now], "final"))
                \/ UNCHANGED statRows
    <3>1. IsRegistry(counters') /\ SameCounts(counters, counters')
      BY <1>0, <2>3, RegistryOfInv, OtherCountIsQuiet
    <3>2. SameRows
      BY <1>0, <2>3, OtherRowIsQuiet
    <3> QED BY <1>0, <1>1, <2>1, <3>1, <3>2 DEF Quiet
  <2> QED BY <1>9, <2>2, <2>3 DEF Report, registry
<1> HIDE DEF Frame, Same, Turn
<1> QED BY <1>3, <1>4, <1>5, <1>6, <1>7, <1>8, <1>9
        DEF WriterThread, Thread, Stopping, StopStep, probeVars

-----------------------------------------------------------------------------
(* The windows: samples that are received.                                 *)

\* What has been counted of the present window before a sample is received.
LEMMA PresentWindow ==
    ASSUME WindowInv, stage \in {"run", "tasks"}
    PROVE  /\ (IF now \in DOMAIN series THEN series[now] ELSE 0) = accepted[now] + refused[now]
           /\ Full(Of(counters, now), now)
           /\ accepted[now] \in Nat /\ refused[now] \in Nat
<1>0. Named /\ Registered /\ now \in Windows /\ now > now - 2
  BY DEF WindowInv, Named, Windows
<1>1. accepted[now] \in Nat /\ refused[now] \in Nat
  BY <1>0 DEF Named
<1>2. CASE now \in DOMAIN series
  <2>1. Open(now) /\ Bucket(now) = Of(counters, now)
    BY <1>0, <1>2 DEF Registered, Bucket, Of
  <2> QED BY <1>1, <1>2, <2>1 DEF Open
<1>3. CASE now \notin DOMAIN series
  <2>1. accepted[now] = 0 /\ refused[now] = 0
    BY <1>0, <1>3 DEF Registered
  <2>2. Exact(Of(counters, now), now)
    BY <1>0 DEF Registered, Of, Exact
  <2> QED BY <1>3, <2>1, <2>2 DEF Full, Exact, At
<1> QED BY <1>1, <1>2, <1>3

\* A market sample is counted once by each of the three: queue, registry, summary.
LEMMA WindowPutMarket ==
    ASSUME WindowInv, MarketMessage
    PROVE  WindowInv'
<1> DEFINE answer == IF Room THEN "queued" ELSE "dropped"
           bucket == Of(counters, now)
           new    == [m \in DOMAIN bucket \cup {"parsed", answer} |->
                        At(bucket, m) + At([x \in {"parsed", answer} |-> 1], m)]
           sum    == IF now \in DOMAIN series THEN series[now] ELSE 0
<1>0. Named /\ Events /\ Registered /\ now \in Windows /\ now \in Int /\ now # Other
  BY DEF WindowInv, Named, Windows
<1>u. /\ stage \in {"run", "tasks"} /\ stage' = stage /\ event = Free
      /\ UNCHANGED <<now, committed, event, todo, emitting, statRows, sumRows, skipped>>
  BY DEF MarketMessage, LoopTurns, PutMarket, tables
<1>1. /\ sum = accepted[now] + refused[now]
      /\ Full(bucket, now) /\ accepted[now] \in Nat /\ refused[now] \in Nat
  BY <1>u, PresentWindow
<1>2. todo = {} /\ emitting = <<>>
  BY <1>0, <1>u DEF Events
<1>3. series' = [w \in DOMAIN series \cup {now} |-> IF w = now THEN sum + 1 ELSE series[w]]
  BY <1>0 DEF MarketMessage, PutMarket, Summed, With
<1>4. counters' = [w \in DOMAIN counters \cup {now} |-> IF w = now THEN new ELSE counters[w]]
  BY DEF MarketMessage, PutMarket, Increased, With, Of
<1>5. /\ accepted' \in [Windows -> Nat] /\ refused' \in [Windows -> Nat]
      /\ accepted'[now] = accepted[now] + (IF Room THEN 1 ELSE 0)
      /\ refused'[now] = refused[now] + (IF Room THEN 0 ELSE 1)
      /\ \A w \in Windows \ {now} : accepted'[w] = accepted[w] /\ refused'[w] = refused[w]
  <2>1. accepted \in [Windows -> Nat] /\ refused \in [Windows -> Nat]
    BY <1>0 DEF Named
  <2>2. CASE Room
    <3>1. accepted' = [accepted EXCEPT ![now] = @ + 1] /\ refused' = refused
      BY <2>2 DEF MarketMessage, PutMarket
    <3> QED BY <1>0, <2>1, <2>2, <3>1
  <2>3. CASE ~ Room
    <3>1. refused' = [refused EXCEPT ![now] = @ + 1] /\ accepted' = accepted
      BY <2>3 DEF MarketMessage, PutMarket
    <3> QED BY <1>0, <2>1, <2>3, <3>1
  <2> QED BY <2>2, <2>3
<1> HIDE DEF bucket
<1>6. /\ DOMAIN new \subseteq DOMAIN bucket \cup {"parsed", "queued", "dropped"}
      /\ At(new, "queued") = accepted'[now] /\ At(new, "dropped") = refused'[now]
  <2>1. At(bucket, "queued") = accepted[now] /\ At(bucket, "dropped") = refused[now]
    BY <1>1 DEF Full
  <2>2. CASE Room
    BY <1>1, <1>5, <2>1, <2>2 DEF At
  <2>3. CASE ~ Room
    BY <1>1, <1>5, <2>1, <2>3 DEF At
  <2> QED BY <2>2, <2>3
<1> HIDE DEF new, sum
<1>7. DOMAIN bucket \subseteq Metrics
  BY <1>0 DEF bucket, Of, Named
<1>8. Named'
  BY <1>0, <1>u, <1>2, <1>3, <1>4, <1>5, <1>6, <1>7 DEF Named, Metrics
<1>9. Events'
  <2>1. event' = Free /\ todo' = {} /\ emitting' = <<>> /\ event'.kind = "free"
    BY <1>u, <1>2 DEF Free
  <2> QED BY <1>0, <1>u, <2>1 DEF Events, Ended
<1>10. Registered'
  <2>1. ASSUME NEW w \in DOMAIN counters'  PROVE Exact(counters[w], w)'
    <3>1. CASE w = now
      BY <1>4, <1>6, <3>1 DEF Exact, At
    <3>2. CASE w # now
      BY <1>0, <1>4, <1>5, <3>2 DEF Exact, Registered, Named
    <3> QED BY <3>1, <3>2
  <2>2. ASSUME NEW w \in DOMAIN series'  PROVE Open(w)'
    <3>1. CASE w = now
      <4>1. Bucket(w)' = new
        BY <1>4, <3>1 DEF Bucket
      <4>2. Full(Bucket(w), w)'
        BY <1>6, <3>1, <4>1, <1>u DEF Full
      <4>3. series'[w] = accepted'[w] + refused'[w] /\ series'[w] > 0
        BY <1>1, <1>3, <1>5, <3>1
      <4> QED BY <4>2, <4>3 DEF Open
    <3>2. CASE w # now
      <4>1. w \in DOMAIN series /\ w \in Windows /\ series'[w] = series[w] /\ Open(w)
        BY <1>0, <1>3, <3>2 DEF Registered, Named
      <4>2. Bucket(w)' = Bucket(w)
        BY <1>4, <3>2 DEF Bucket
      <4>3. accepted'[w] = accepted[w] /\ refused'[w] = refused[w]
        BY <1>5, <3>2, <4>1
      <4> QED BY <4>1, <4>2, <4>3 DEF Open, Full
    <3> QED BY <3>1, <3>2
  <2>3. ASSUME NEW w \in Windows
        PROVE  Stored(w, "queued")' \in 0 .. accepted'[w] /\ Stored(w, "dropped")' \in 0 .. refused'[w]
    <3>1. Stored(w, "queued") \in 0 .. accepted[w] /\ Stored(w, "dropped") \in 0 .. refused[w]
      BY <1>0 DEF Registered
    <3>2. Stored(w, "queued")' = Stored(w, "queued") /\ Stored(w, "dropped")' = Stored(w, "dropped")
      BY <1>u DEF Stored
    <3>3. /\ accepted[w] \in Nat /\ refused[w] \in Nat /\ accepted'[w] \in Nat /\ refused'[w] \in Nat
          /\ accepted'[w] >= accepted[w] /\ refused'[w] >= refused[w]
      BY <1>0, <1>1, <1>5 DEF Named
    <3> QED BY <3>1, <3>2, <3>3
  <2>4. \A w \in Windows : stage' \in {"run", "tasks"} /\ w > now' - 2 /\ w \notin DOMAIN series'
                             => accepted'[w] = 0 /\ refused'[w] = 0
    BY <1>0, <1>u, <1>3, <1>5 DEF Registered
  <2>5. \A w \in Windows \ (DOMAIN series' \cup skipped') :
          (emitting' # <<>> => emitting'[1].w # w) => Settled(w)'
    <3> TAKE w \in Windows \ (DOMAIN series' \cup skipped')
    <3>1. w # now /\ w \notin DOMAIN series /\ w \notin skipped
      BY <1>3, <1>u
    <3>2. Settled(w)
      BY <1>0, <1>2, <3>1 DEF Registered
    <3> QED BY <1>u, <1>5, <3>1, <3>2 DEF Settled, Stored
  <2>6. emitting' = <<>>
    BY <1>u, <1>2
  <2> QED BY <2>1, <2>2, <2>3, <2>4, <2>5, <2>6 DEF Registered
<1> QED BY <1>8, <1>9, <1>10 DEF WindowInv

-----------------------------------------------------------------------------
(* The windows: the steps that close them.                                 *)

\* A set of naturals that is not empty has a least element, which is its Min.
LEMMA LeastOf ==
    ASSUME NEW S \in SUBSET Nat, S # {}
    PROVE  Min(S) \in S /\ \A x \in S : Min(S) <= x
<1>1. \E x \in S : \A y \in S : ~ (<<y, x>> \in OpToRel(<, Nat))
  BY WFMin, NatLessThanWellFounded
<1>2. PICK x \in S : \A y \in S : ~ (y < x)
  BY <1>1 DEF OpToRel
<1>3. \A y \in S : x <= y
  BY <1>2
<1> QED BY <1>3 DEF Min

\* A tick or flush_all picks the windows it closes.
LEMMA WindowsClose ==
    ASSUME WindowInv, Ticker \/ FlushAll
    PROVE  WindowInv'
<1>0. Named /\ Events /\ Registered /\ now \in Int
  BY DEF WindowInv, Named, Windows
<1>u. /\ event = Free
      /\ UNCHANGED <<now, committed, counters, series, emitting, statRows, sumRows, skipped>>
      /\ UNCHANGED <<accepted, refused>>
      /\ \/ event' = [kind |-> "tick", upto |-> now - 2] /\ stage' = stage
         \/ event' = [kind |-> "all", upto |-> Horizon] /\ stage' = "flush"
      /\ todo' = {w \in DOMAIN series : w <= event'.upto}
      /\ stage \in {"run", "tasks"}
  BY DEF Ticker, Tick, FlushAll, Close, To, Threshold, registry, tables, history, probeVars
<1>1. emitting = <<>>
  BY <1>0, <1>u DEF Events, Free
<1>2. Named'
  BY <1>0, <1>u DEF Named
<1>3. Events'
  <2>1. event' \in [kind : {"free", "tick", "prune", "all", "end"}, upto : Int]
    BY <1>0, <1>u
  <2>2. event'.kind \in {"tick", "all"} /\ event' # Free
    BY <1>u DEF Free
  <2>3. /\ event'.kind = "tick" => event'.upto = now - 2
        /\ event'.kind = "all" => stage' = "flush"
    BY <1>u
  <2> QED BY <1>u, <2>1, <2>2, <2>3 DEF Events, Ended
<1>4. Registered'
  <2>1. \A w : Settled(w)' <=> Settled(w)
    BY <1>u DEF Settled, Stored
  <2>2. /\ \A w \in DOMAIN counters' : Exact(counters[w], w)'
        /\ \A w \in DOMAIN series' : Open(w)'
        /\ \A w \in Windows : /\ Stored(w, "queued")' \in 0 .. accepted'[w]
                              /\ Stored(w, "dropped")' \in 0 .. refused'[w]
    BY <1>0, <1>u DEF Registered, Exact, Open, Full, Bucket, Stored
  <2>3. \A w \in Windows : stage' \in {"run", "tasks"} /\ w > now' - 2 /\ w \notin DOMAIN series'
                             => accepted'[w] = 0 /\ refused'[w] = 0
    BY <1>0, <1>u DEF Registered
  <2>4. \A w \in Windows \ (DOMAIN series' \cup skipped') :
          (emitting' # <<>> => emitting'[1].w # w) => Settled(w)'
    BY <1>0, <1>1, <1>u, <2>1 DEF Registered
  <2>5. emitting' = <<>>
    BY <1>u, <1>1
  <2> QED BY <2>2, <2>3, <2>4, <2>5 DEF Registered
<1> QED BY <1>2, <1>3, <1>4 DEF WindowInv

\* The counters are read, and the summarizer gives the window up.
LEMMA WindowIsRead ==
    ASSUME WindowInv, Snapshot, UNCHANGED stage
    PROVE  WindowInv'
<1> DEFINE w0 == Min(todo)
           n  == IF w0 \in DOMAIN series THEN series[w0] ELSE 0
           e  == [w |-> w0, n |-> n, stats |-> Bucket(w0)]
<1>0. Named /\ Events /\ Registered /\ now \in Int
  BY DEF WindowInv, Named, Windows
<1>u. /\ todo # {} /\ emitting = <<>> /\ emitting' = <<e>>
      /\ series' = [v \in DOMAIN series \ {w0} |-> series[v]]
      /\ todo' = todo \ {w0}
      /\ UNCHANGED <<now, committed, counters, event, statRows, sumRows, skipped, stage>>
      /\ UNCHANGED <<accepted, refused>>
  BY DEF Snapshot, registry, tables, history
<1>1. w0 \in todo /\ w0 \in Windows /\ w0 \in Int
  <2>1. todo \in SUBSET Nat /\ todo # {} /\ todo \subseteq Windows
    BY <1>0, <1>u DEF Named, Windows
  <2>2. w0 \in todo
    BY <2>1, LeastOf
  <2> HIDE DEF w0
  <2> QED BY <2>1, <2>2 DEF Windows
<1> HIDE DEF w0
<1>2. emitting' # <<>> /\ emitting'[1] = e /\ e.w = w0 /\ e.n = n /\ e.stats = Bucket(w0)
  BY <1>u
<1> HIDE DEF e
<1>3. Named'
  BY <1>0, <1>u DEF Named
<1>4. event.kind # "free" /\ w0 <= event.upto
  BY <1>0, <1>u, <1>1 DEF Events
<1>5. Events'
  <2>1. \A w \in todo' : w <= event'.upto
    BY <1>0, <1>u DEF Events
  <2>2. event'.kind \in {"tick", "all"} => \A w \in DOMAIN series' : w <= event'.upto => w \in todo'
    BY <1>0, <1>u DEF Events
  <2>3. event'.kind \in {"prune", "end"} => \A w \in DOMAIN series' : w > event'.upto
    BY <1>0, <1>u DEF Events
  <2> QED BY <1>0, <1>u, <1>4, <2>1, <2>2, <2>3 DEF Events
<1>6. Exact(Bucket(w0), w0) /\ DOMAIN Bucket(w0) \subseteq Metrics
  BY <1>0 DEF Registered, Named, Bucket, Exact
<1>7. Emitted(emitting[1])'
  <2>1. e.w \in Windows \ DOMAIN series' /\ accepted'[w0] = accepted[w0] /\ refused'[w0] = refused[w0]
    BY <1>u, <1>1, <1>2
  <2>2. CASE w0 \in DOMAIN series
    <3>1. /\ n = accepted[w0] + refused[w0] /\ n > 0 /\ Full(Bucket(w0), w0)
      BY <1>0, <2>2 DEF Registered, Open
    <3>2. n \in Nat
      BY <1>0, <1>1, <3>1 DEF Named
    <3> HIDE DEF n
    <3> QED BY <1>2, <1>6, <2>1, <3>1, <3>2 DEF Emitted, Exact, Full
  <2>3. CASE w0 \notin DOMAIN series
    <3>1. n = 0
      BY <2>3
    <3>2. w0 \in skipped \/ Settled(w0)
      BY <1>0, <1>u, <1>1, <2>3 DEF Registered
    <3> HIDE DEF n
    <3> QED BY <1>u, <1>2, <1>6, <2>1, <3>1, <3>2 DEF Emitted, Exact, Settled, Stored
  <2> QED BY <2>2, <2>3
<1>8. Registered'
  <2>1. \A w \in DOMAIN counters' : Exact(counters[w], w)'
    BY <1>0, <1>u DEF Registered, Exact
  <2>2. \A w \in DOMAIN series' : Open(w)'
    BY <1>0, <1>u DEF Registered, Open, Full, Bucket
  <2>3. \A w \in Windows : /\ Stored(w, "queued")' \in 0 .. accepted'[w]
                           /\ Stored(w, "dropped")' \in 0 .. refused'[w]
    <3>1. \A w \in Windows : /\ Stored(w, "queued") \in 0 .. accepted[w]
                             /\ Stored(w, "dropped") \in 0 .. refused[w]
      BY <1>0 DEF Registered
    <3>2. UNCHANGED <<statRows, accepted, refused>>
      BY <1>u
    <3> QED BY <3>1, <3>2 DEF Stored
  <2>4. \A w \in Windows : stage' \in {"run", "tasks"} /\ w > now' - 2 /\ w \notin DOMAIN series'
                             => accepted'[w] = 0 /\ refused'[w] = 0
    <3> SUFFICES ASSUME NEW w \in Windows, stage \in {"run", "tasks"}, w > now - 2, w \notin DOMAIN series'
                 PROVE  accepted[w] = 0 /\ refused[w] = 0
      BY <1>u
    <3>1. event.kind \in {"tick", "prune"} /\ event.upto <= now - 2 /\ event.upto \in Int
      BY <1>0, <1>4 DEF Events, Ended
    <3>2. w # w0
      BY <1>0, <1>1, <1>4, <3>1
    <3> QED BY <1>0, <1>u, <3>2 DEF Registered
  <2>5. \A w \in Windows \ (DOMAIN series' \cup skipped') :
          (emitting' # <<>> => emitting'[1].w # w) => Settled(w)'
    <3> SUFFICES ASSUME NEW w \in Windows \ (DOMAIN series' \cup skipped'), w # w0
                 PROVE  Settled(w)'
      BY <1>2
    <3>1. Settled(w)
      BY <1>0, <1>u DEF Registered
    <3> QED BY <1>u, <3>1 DEF Settled, Stored
  <2> QED BY <1>7, <2>1, <2>2, <2>3, <2>4, <2>5 DEF Registered
<1> QED BY <1>3, <1>5, <1>8 DEF WindowInv

\* What an emission stores of its window is what was queued and dropped in it.
LEMMA EmissionSettles ==
    ASSUME WindowInv, NEW e, Emitted(e), UNCHANGED <<accepted, refused>>,
           sumRows' = IF e.n = 0 THEN sumRows ELSE With(sumRows, e.w, e.n),
           statRows' = [x \in DOMAIN statRows \cup ({e.w} \X DOMAIN e.stats) |->
                          IF x \in {e.w} \X DOMAIN e.stats THEN e.stats[x[2]] ELSE statRows[x]]
    PROVE  /\ Stored(e.w, "queued")' \in 0 .. accepted[e.w]
           /\ Stored(e.w, "dropped")' \in 0 .. refused[e.w]
           /\ e.w \in skipped \/ Settled(e.w)'
<1> DEFINE w == e.w
           stats == e.stats
<1>0. /\ w \in Windows /\ accepted[w] \in Nat /\ refused[w] \in Nat
      /\ Stored(w, "queued") \in 0 .. accepted[w] /\ Stored(w, "dropped") \in 0 .. refused[w]
  BY DEF WindowInv, Named, Registered, Emitted
<1>1. \A m \in {"queued", "dropped"} :
         Stored(w, m)' = IF m \in DOMAIN stats THEN stats[m] ELSE Stored(w, m)
  BY DEF Stored, At
<1>2. Exact(stats, w)
  BY DEF Emitted
<1> HIDE DEF stats
<1>3. /\ Stored(w, "queued")' = accepted[w] \/ Stored(w, "queued")' = Stored(w, "queued")
      /\ Stored(w, "dropped")' = refused[w] \/ Stored(w, "dropped")' = Stored(w, "dropped")
  BY <1>1, <1>2 DEF Exact
<1>4. Stored(w, "queued")' \in 0 .. accepted[w] /\ Stored(w, "dropped")' \in 0 .. refused[w]
  BY <1>0, <1>3
<1>5. CASE e.n = accepted[w] + refused[w] /\ e.n > 0 /\ Full(stats, w)
  <2>1. At(sumRows', w) = accepted[w] + refused[w]
    BY <1>0, <1>5 DEF With, At
  <2>2. Stored(w, "queued")' = accepted[w]
    BY <1>0, <1>1, <1>2, <1>5 DEF Full, Exact, At
  <2>3. Stored(w, "dropped")' = refused[w]
    BY <1>0, <1>1, <1>2, <1>5 DEF Full, Exact, At
  <2>4. Settled(w)'
    BY <2>1, <2>2, <2>3 DEF Settled
  <2> QED BY <1>4, <2>4
<1>6. CASE e.n = 0 /\ w \in skipped
  BY <1>4, <1>6
<1>7. CASE e.n = 0 /\ Settled(w)
  <2>1. sumRows' = sumRows
    BY <1>7
  <2>2. Stored(w, "queued")' = accepted[w] /\ Stored(w, "dropped")' = refused[w]
    BY <1>3, <1>7 DEF Settled
  <2>3. Settled(w)'
    BY <1>7, <2>1, <2>2 DEF Settled
  <2> QED BY <1>4, <2>3
<1> QED BY <1>5, <1>6, <1>7 DEF Emitted, stats

\* The window is stored, or its upsert fails.
LEMMA WindowIsStored ==
    ASSUME WindowInv, Emit, UNCHANGED stage
    PROVE  WindowInv'
<1>e. PICK e : e = emitting[1]
  OBVIOUS
<1> DEFINE sums == IF e.n = 0 THEN sumRows ELSE With(sumRows, e.w, e.n)
           own  == {e.w} \X DOMAIN e.stats
<1>0. Named /\ Events /\ Registered /\ Emitted(e) /\ emitting # <<>>
  BY <1>e DEF WindowInv, Registered, Emit
<1>u. /\ emitting' = <<>>
      /\ UNCHANGED <<now, committed, counters, series, event, todo, stage>>
      /\ UNCHANGED <<accepted, refused>>
      /\ \/ /\ sumRows' = sums
            /\ statRows' = [x \in DOMAIN statRows \cup own |->
                              IF x \in own THEN e.stats[x[2]] ELSE statRows[x]]
            /\ skipped' = skipped
         \/ /\ sumRows' \in {sumRows, sums}
            /\ skipped' = skipped \cup {e.w}
            /\ statRows' = statRows
  BY <1>e DEF Emit, registry, history
<1>1. /\ DOMAIN sumRows' \subseteq DOMAIN sumRows \cup {e.w}
      /\ DOMAIN statRows' \subseteq DOMAIN statRows \cup own
  BY <1>u DEF With
<1>2. e.w \in Windows \ DOMAIN series /\ DOMAIN e.stats \subseteq Metrics
  BY <1>0 DEF Emitted
<1>3. Named'
  <2>1. own \subseteq Windows \X Metrics
    BY <1>2
  <2> HIDE DEF own, sums
  <2> QED BY <1>0, <1>u, <1>1, <1>2, <2>1 DEF Named
<1>4. Events'
  BY <1>0, <1>u DEF Events
<1>5. \A w \in Windows \ {e.w} :
         /\ Stored(w, "queued")' = Stored(w, "queued") /\ Stored(w, "dropped")' = Stored(w, "dropped")
         /\ At(sumRows', w) = At(sumRows, w)
  BY <1>u DEF Stored, At, With
<1>6. /\ Stored(e.w, "queued")' \in 0 .. accepted[e.w] /\ Stored(e.w, "dropped")' \in 0 .. refused[e.w]
      /\ e.w \in skipped' \/ Settled(e.w)'
  <2>1. CASE statRows' = statRows /\ skipped' = skipped \cup {e.w}
    BY <1>0, <1>2, <2>1 DEF Registered, Stored
  <2>2. CASE /\ sumRows' = sums /\ skipped' = skipped
             /\ statRows' = [x \in DOMAIN statRows \cup own |->
                               IF x \in own THEN e.stats[x[2]] ELSE statRows[x]]
    BY <1>0, <1>u, <2>2, EmissionSettles
  <2> QED BY <1>u, <2>1, <2>2
<1>7. Registered'
  <2>1. /\ \A w \in DOMAIN counters' : Exact(counters[w], w)'
        /\ \A w \in DOMAIN series' : Open(w)'
        /\ \A w \in Windows : stage' \in {"run", "tasks"} /\ w > now' - 2 /\ w \notin DOMAIN series'
                                 => accepted'[w] = 0 /\ refused'[w] = 0
    BY <1>0, <1>u DEF Registered, Exact, Open, Full, Bucket
  <2>2. ASSUME NEW w \in Windows
        PROVE  Stored(w, "queued")' \in 0 .. accepted'[w] /\ Stored(w, "dropped")' \in 0 .. refused'[w]
    <3>1. CASE w = e.w
      BY <1>u, <1>6, <3>1
    <3>2. CASE w # e.w
      BY <1>0, <1>u, <1>5, <3>2 DEF Registered
    <3> QED BY <3>1, <3>2
  <2>3. ASSUME NEW w \in Windows \ (DOMAIN series' \cup skipped')  PROVE Settled(w)'
    <3>1. CASE w = e.w
      BY <1>6, <3>1
    <3>2. CASE w # e.w
      <4>1. w \notin DOMAIN series /\ w \notin skipped
        BY <1>u
      <4>2. Settled(w)
        BY <1>0, <1>e, <3>2, <4>1 DEF Registered
      <4> QED BY <1>u, <1>5, <3>2, <4>2 DEF Settled
    <3> QED BY <3>1, <3>2
  <2>4. emitting' = <<>>
    BY <1>u
  <2> QED BY <2>1, <2>2, <2>3, <2>4 DEF Registered
<1> QED BY <1>3, <1>4, <1>7 DEF WindowInv

\* A window that has been given up is emitted once more when it has counters again.
LEMMA WindowsOnlyCount ==
    ASSUME WindowInv, CountersOnly, UNCHANGED stage
    PROVE  WindowInv'
<1>0. Named /\ Events /\ Registered
  BY DEF WindowInv
<1>u. /\ event.kind \in {"tick", "all"} /\ todo = {} /\ emitting = <<>> /\ emitting' = <<>>
      /\ event' = [event EXCEPT !.kind = IF @ = "tick" THEN "prune" ELSE "end"]
      /\ todo' = {w \in DOMAIN counters \ closed : w <= event.upto}
      /\ UNCHANGED <<now, committed, counters, series, statRows, sumRows, skipped, stage>>
      /\ UNCHANGED <<accepted, refused>>
  BY DEF CountersOnly, registry, tables, history
<1>1. /\ event' \in [kind : {"free", "tick", "prune", "all", "end"}, upto : Int]
      /\ event'.upto = event.upto
      /\ event.kind = "tick" => event'.kind = "prune"
      /\ event.kind = "all" => event'.kind = "end"
      /\ event' # Free
  <2>1. event \in [kind : {"free", "tick", "prune", "all", "end"}, upto : Int]
    BY <1>0 DEF Events
  <2> QED BY <1>u, <2>1 DEF Free
<1>2. Named'
  BY <1>0, <1>u DEF Named
<1>3. Events'
  <2>1. \A w \in DOMAIN series : w > event.upto
    <3> SUFFICES ASSUME NEW w \in DOMAIN series
                 PROVE  w > event.upto
      OBVIOUS
    <3>1. ~ (w <= event.upto)
      BY <1>0, <1>u DEF Events
    <3>2. w \in Int /\ event.upto \in Int
      BY <1>0 DEF Named, Windows, Events
    <3> QED BY <3>1, <3>2
  <2> QED BY <1>0, <1>u, <1>1, <2>1 DEF Events, Ended
<1>4. Registered'
  <2>1. /\ \A w \in DOMAIN counters' : Exact(counters[w], w)'
        /\ \A w \in DOMAIN series' : Open(w)'
        /\ \A w \in Windows : stage' \in {"run", "tasks"} /\ w > now' - 2 /\ w \notin DOMAIN series'
                                 => accepted'[w] = 0 /\ refused'[w] = 0
    BY <1>0, <1>u DEF Registered, Exact, Open, Full, Bucket
  <2>2. \A w \in Windows : /\ Stored(w, "queued")' \in 0 .. accepted'[w]
                           /\ Stored(w, "dropped")' \in 0 .. refused'[w]
    BY <1>0, <1>u DEF Registered, Stored
  <2>3. \A w \in Windows \ (DOMAIN series' \cup skipped') : Settled(w)'
    BY <1>0, <1>u DEF Registered, Settled, Stored
  <2> QED BY <1>u, <2>1, <2>2, <2>3 DEF Registered
<1> QED BY <1>2, <1>3, <1>4 DEF WindowInv

\* prune forgets windows the summarizer no longer has.
LEMMA WindowsArePruned ==
    ASSUME WindowInv, Prune, UNCHANGED stage
    PROVE  WindowInv'
<1>0. Named /\ Events /\ Registered
  BY DEF WindowInv
<1>u. /\ event.kind \in {"prune", "end"} /\ todo = {} /\ emitting = <<>>
      /\ event' = Free /\ todo' = {} /\ emitting' = <<>>
      /\ \/ counters' = Pruned(counters, event.upto + 1)
         \/ counters' = counters
      /\ UNCHANGED <<now, committed, series, statRows, sumRows, skipped, stage>>
      /\ UNCHANGED <<accepted, refused>>
  BY DEF Prune, tables, history
<1>1. event.upto \in Int /\ \A w \in DOMAIN series : w \in Int /\ w >= event.upto + 1
  <2>1. event.upto \in Int /\ \A w \in DOMAIN series : w > event.upto
    BY <1>0, <1>u DEF Events
  <2>2. \A w \in DOMAIN series : w \in Int
    BY <1>0 DEF Named, Windows
  <2> QED BY <2>1, <2>2
<1>2. /\ DOMAIN counters' \subseteq DOMAIN counters
      /\ \A w \in DOMAIN counters' : counters'[w] = counters[w]
      /\ \A w \in DOMAIN series : Bucket(w)' = Bucket(w)
  BY <1>u, <1>1 DEF Pruned, Bucket
<1>3. Named'
  BY <1>0, <1>u, <1>2 DEF Named
<1>4. Events'
  BY <1>u DEF Events, Free, Ended
<1>5. Registered'
  <2>1. \A w \in DOMAIN counters' : Exact(counters[w], w)'
    BY <1>0, <1>u, <1>2 DEF Registered, Exact
  <2>2. \A w \in DOMAIN series' : Open(w)'
    BY <1>0, <1>u, <1>2 DEF Registered, Open, Full
  <2>3. \A w \in Windows : stage' \in {"run", "tasks"} /\ w > now' - 2 /\ w \notin DOMAIN series'
                             => accepted'[w] = 0 /\ refused'[w] = 0
    BY <1>0, <1>u DEF Registered
  <2>4. \A w \in Windows : /\ Stored(w, "queued")' \in 0 .. accepted'[w]
                           /\ Stored(w, "dropped")' \in 0 .. refused'[w]
    BY <1>0, <1>u DEF Registered, Stored
  <2>5. \A w \in Windows \ (DOMAIN series' \cup skipped') : Settled(w)'
    BY <1>0, <1>u DEF Registered, Settled, Stored
  <2> QED BY <1>u, <2>1, <2>2, <2>3, <2>4, <2>5 DEF Registered
<1> QED BY <1>3, <1>4, <1>5 DEF WindowInv

\* No window has been seen at first.
LEMMA WindowsStart ==
    ASSUME Init
    PROVE  WindowInv
<1>u. /\ now = 0 /\ event = Free /\ todo = {} /\ emitting = <<>>
      /\ DOMAIN committed = {} /\ DOMAIN counters = {} /\ DOMAIN series = {}
      /\ statRows = [x \in {} |-> 0] /\ sumRows = [w \in {} |-> 0]
      /\ accepted = [w \in Windows |-> 0] /\ refused = [w \in Windows |-> 0]
  BY DEF Init, WriterInit
<1>1. Named
  BY <1>u DEF Named, Windows
<1>2. Events
  BY <1>u DEF Events, Free, Ended
<1>3. \A w \in Windows : Settled(w) /\ Stored(w, "queued") = 0 /\ Stored(w, "dropped") = 0
  BY <1>u DEF Settled, Stored, At
<1>4. Registered
  BY <1>u, <1>3 DEF Registered
<1> QED BY <1>1, <1>2, <1>4 DEF WindowInv

-----------------------------------------------------------------------------
(* The theorems.                                                           *)

\* Every action keeps both parts of the invariant.
LEMMA InvNext ==
    ASSUME IInv, [Next]_vars
    PROVE  IInv'
<1>0. WriterInv /\ WindowInv /\ now \in Windows
  BY DEF IInv, WindowInv, Named
<1>1. stage \in {"run", "tasks", "flush", "writer", "done"}
  BY <1>0 DEF WriterInv, Places
<1>2. CASE MarketMessage
  BY <1>0, <1>2, WriterPutMarket, WindowPutMarket DEF IInv
<1>3. CASE OtherSample
  BY <1>0, <1>3, WriterPutOther, QuietSteps, QuietKeeps DEF IInv
<1>4. CASE Ticker
  <2>1. WriterInv'
    BY <1>0, <1>1, <1>4, WriterRests DEF Ticker, Tick, Close, probeVars, registry, tables
  <2> QED BY <1>0, <1>4, <2>1, WindowsClose DEF IInv
<1>5. CASE TimePasses
  <2>1. WriterInv'
    BY <1>0, <1>1, <1>5, WriterRests DEF TimePasses, Clock, probeVars, registry, tables
  <2> QED BY <1>0, <1>5, <2>1, QuietSteps, QuietKeeps DEF IInv
<1>6. CASE RequestStop
  <2>1. WriterInv'
    BY <1>0, <1>1, <1>6, WriterRests DEF RequestStop, To, writerVars, registry, tables
  <2> QED BY <1>0, <1>6, <2>1, QuietSteps, QuietKeeps DEF IInv
<1>7. CASE FlushAll
  <2>1. WriterInv'
    BY <1>0, <1>1, <1>7, WriterRests DEF FlushAll, To, Close, registry, tables
  <2> QED BY <1>0, <1>7, <2>1, WindowsClose DEF IInv
<1>8. CASE StopWriter
  BY <1>0, <1>8, WriterStops, QuietSteps, QuietKeeps DEF IInv
<1>9. CASE Return
  <2>1. WriterInv'
    BY <1>0, <1>1, <1>9, WriterRests DEF Return, To, writerVars, registry, tables
  <2> QED BY <1>0, <1>9, <2>1, QuietSteps, QuietKeeps DEF IInv
<1>10. CASE WriterThread
  <2>1. UNCHANGED stage /\ Thread
    BY <1>10 DEF WriterThread, probeVars
  <2>2. WriterInv'
    BY <1>0, <2>1, WriterTakesPending, WriterGets, WriterFlushesLast, WriterBegins, WriterCommits,
       WriterFails, WriterRequeues, WriterEnds DEF Thread
  <2> QED BY <1>10, <2>2, <1>0, QuietSteps, QuietKeeps DEF IInv
<1>11. CASE Stopping
  <2>1. UNCHANGED stage /\ StopStep
    BY <1>11 DEF Stopping, probeVars
  <2>2. WriterInv'
    BY <1>0, <2>1, WriterJoins, WriterDrains, WriterBegins, DrainIsCommitted, DrainIsLost, WriterReports
    DEF StopStep
  <2> QED BY <1>11, <2>2, <1>0, QuietSteps, QuietKeeps DEF IInv
<1>12. CASE ClosingStep
  <2>1. UNCHANGED stage /\ Closing
    BY <1>12 DEF ClosingStep, probeVars
  <2>2. UNCHANGED <<threads, stopping, lock, totals, rows>>
    BY <2>1 DEF Closing, Snapshot, Emit, CountersOnly, Prune, registry, tables
  <2>3. WriterInv'
    BY <1>0, <1>1, <2>1, <2>2, WriterRests
  <2>4. WindowInv'
    BY <1>0, <2>1, WindowIsRead, WindowIsStored, WindowsOnlyCount, WindowsArePruned DEF Closing
  <2> QED BY <2>3, <2>4 DEF IInv
<1>13. CASE UNCHANGED vars
  <2>1. WriterInv'
    BY <1>0, <1>1, <1>13, WriterRests DEF vars, writerVars, probeVars, registry, tables
  <2>2. Quiet
    <3>1. /\ UNCHANGED <<series, event, todo, emitting, skipped, sumRows, accepted, refused>>
          /\ UNCHANGED <<now, committed, counters, statRows, stage>>
      BY <1>13 DEF vars, writerVars, probeVars, registry, windows, tables, history
    <3>2. DOMAIN committed \subseteq Windows /\ now \in Int
      BY <1>0 DEF WindowInv, Named, Windows
    <3> QED BY <1>0, <3>1, <3>2, NothingCounted DEF Quiet
  <2> QED BY <1>0, <2>1, <2>2, QuietKeeps DEF IInv
<1> QED BY <1>2, <1>3, <1>4, <1>5, <1>6, <1>7, <1>8, <1>9, <1>10, <1>11, <1>12, <1>13 DEF Next, Main

\* The inductive invariant holds in every reachable state.
THEOREM Invariance == Spec => []IInv
<1>1. Init => IInv
  BY WriterStarts, WindowsStart DEF IInv
<1>2. IInv /\ [Next]_vars => IInv'
  BY InvNext
<1> QED BY <1>1, <1>2, PTL DEF Spec

\* The variables keep their types: the queue is never longer than its maximum,
\* the counters never fall below 0, the tables hold rows of known windows only.
THEOREM TypeCorrect == Spec => []TypeOK
<1>1. IInv => TypeOK
  BY DEF IInv, WriterInv, WindowInv, Lists, Places, Named, TypeOK
<1> QED BY <1>1, Invariance, PTL

\* Every market sample that was received is queued or dropped, the written counter
\* is the rows of the table and the batch in flight, and unless stop gave up on the
\* thread every sample that was queued is in the table, in a list of the writer, or
\* counted as failed; at the end it is one of the first and the last.
THEOREM AllSamplesAccounted == Spec => []SamplesAccounted
<1>1. IInv => SamplesAccounted
  <2> SUFFICES ASSUME IInv  PROVE SamplesAccounted
    OBVIOUS
  <2>0. Lists /\ Places /\ Alone /\ Accounts
    BY DEF IInv, WriterInv
  <2>1. ASSUME stop = "done", ~ gaveUp
        PROVE  totals["queued"] = totals["written"] + totals["final"]
    <3>1. thread = "done" /\ rest = <<>> /\ Market(buffer) = 0 /\ finalFailed = <<>>
      BY <2>0, <2>1 DEF Alone, Places
    <3>2. /\ pending = <<>> /\ batch = <<>> /\ flight = <<>> /\ failed = <<>>
          /\ lock = "free"
      BY <2>0, <2>1, <3>1 DEF Places
    <3>3. Held = 0
      BY <3>1, <3>2, MarketEmpty DEF Held
    <3>4. InFlight = 0
      BY <3>2 DEF InFlight
    <3>5. rows \in Nat /\ totals["final"] \in Nat
      BY <2>0, TotalsAreNat DEF Lists, Metrics
    <3> QED BY <2>0, <2>1, <3>3, <3>4, <3>5 DEF Accounts
  <2> QED BY <2>0, <2>1 DEF Accounts, SamplesAccounted
<1> QED BY <1>1, Invariance, PTL

\* What the tables say of a window that was closed, and that nothing failed to
\* store, is what was received, queued and dropped in it.
THEOREM ClosedWindowsAreStored == Spec => []WindowsAreStored
<1>1. IInv => WindowsAreStored
  BY DEF IInv, WindowInv, Registered, Settled, WindowsAreStored
<1> QED BY <1>1, Invariance, PTL
=============================================================================
