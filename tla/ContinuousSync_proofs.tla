------------------------ MODULE ContinuousSync_proofs ------------------------
(***************************************************************************)
(* Proofs about ContinuousSync, for any number of instruments, threads,     *)
(* launches and failures and any length of a day: the types, and that what  *)
(* the database says of itself is true whatever fails or is killed.         *)
(***************************************************************************)
EXTENDS ContinuousSync, CandleWindows_proofs, SequenceTheorems

USE SyncAssumption, BufferAssumption DEF SyncAssumption, BufferAssumption

-----------------------------------------------------------------------------
(* The inductive invariant.                                                *)

\* Nothing is fetched that is older than the listing.
Fetched == {s \in Slots : Listing <= s}

Ends == 0 .. Horizon + 1

\* Where the writer thread of phase 2 does not exist yet.
Early == {"off", "detect", "pool", "mark", "refresh", "lag"}

Controlled ==
    /\ now \in Slots
    /\ prog \in {"off", "backfill", "sync"}
    /\ pc \in {"off", "detect", "pool", "mark", "refresh", "lag",
               "round", "tail", "join", "wait", "stop"}
    /\ range \in [start : Slots \cup {NoSlot}, end : Ends]
    /\ pc # "off" => range.start \in Slots
    /\ attempts \in 0 .. MaxAttempts
    /\ writer \in {"off", "loop", "insert", "upsert", "test", "set", "dead"}
    /\ stopping \in BOOLEAN /\ idle \in BOOLEAN /\ shutdown \in BOOLEAN
    /\ launches \in 0 .. MaxLaunches /\ faults \in 0 .. MaxFaults
    /\ pc \in Early => writer = "off"

Marked == /\ verified \in [Insts -> NoSlot .. Horizon + 1]
          /\ sync \in [Insts -> Slots \cup {NoSlot}]
          /\ latest \in [Insts -> Slots \cup {NoSlot}]

Worker == [pc : {"idle", "page", "saving", "closing"}, inst : Insts, from : Slots, to : Ends,
           after : Ends, rows : SUBSET Fetched, had : BOOLEAN]

Worked == /\ wins \in [Insts -> SUBSET [from : Slots, to : Ends]]
          /\ todo \subseteq [inst : Insts, from : Slots, to : Ends]
          /\ good \subseteq Insts
          /\ th \in [Threads -> Worker]

Chunk == [inst : Insts, rows : SUBSET Fetched]
Polled == /\ q \in Seq(Chunk)
          /\ batch \in [Insts -> SUBSET Fetched]
          /\ poll \subseteq Insts

Item == [owner : Threads \cup {Nobody}, inst : Insts, rows : SUBSET Fetched]

\* A thread that waits has one item in the queue, unless that was merged or it
\* gave up.
Saving ==
    /\ \A t \in Threads : th[t].pc \in {"idle", "page"} => answer[t] = "none"
    /\ \A k \in DOMAIN wq : wq[k].owner # Nobody =>
          /\ answer[wq[k].owner] = "waiting"
          /\ wq[k].inst = th[wq[k].owner].inst
          /\ th[wq[k].owner].rows \subseteq wq[k].rows
    /\ \A k, l \in DOMAIN wq : k # l /\ wq[k].owner = wq[l].owner => wq[k].owner = Nobody
    /\ PutIsDurable

\* The batch is in the table before its watermark is written.
Kept == /\ WatermarkIsStored
        /\ writer = "upsert" => \A i \in Insts : batch[i] \subseteq candles[i]

\* STOP is only sent when the rounds are over, and last; once it has been taken and
\* counted, the writer has flushed its batch and is gone.
Rounds == /\ stopping => pc = "stop"
          /\ \A k \in DOMAIN q : q[k] = Stop => pc = "stop"
          /\ pc = "stop" /\ q # <<>> => q[Len(q)] = Stop
          /\ pc = "stop" /\ q = <<>> /\ ~stopping => writer = "off"
          /\ writer = "off" => batch = Empty

\* What the windows of an instrument leave out has been checked.
FirstHead(i, s) == /\ s < range.end - 1
              /\ DayOf(s) = DayOf(CheckFrom(range.start, verified[i]))
              /\ (CheckFrom(range.start, verified[i]) .. s) \cap candles[i] = {}
Checked(i) ==
    \A s \in Int : CheckFrom(range.start, verified[i]) <= s /\ s < VerifiedUpto(wins[i], range.end)
        => s \in candles[i] \/ FirstHead(i, s)

\* Only an instrument whose windows were found has tasks, or succeeds.
Busy(t) == th[t].pc # "idle"
Windows == /\ \A t \in Threads : Busy(t) => pc = "pool"
           /\ pc \in {"pool", "mark"} =>
                 /\ \A i \in good : Checked(i)
                 /\ \A w \in todo : Checked(w.inst)
                 /\ \A t \in Threads : Busy(t) => Checked(th[t].inst)

\* Rows are saved newest first: with a row, whatever follows it on its day is in
\* the table or saved with it.  The newest slot of the range may still be forming.
Contiguous(i, rows) ==
    \A x \in rows : \A s \in Int :
        x <= s /\ s < range.end - 1 /\ DayOf(s) = DayOf(x) => s \in candles[i] \cup rows

\* A window ends with a day, or with the range.
Whole(u) == u = range.end \/ \E d \in Int : u = DayStart(d)

\* Between the oldest slot a thread has asked for and the end of its window
\* nothing is missing.
Trail(w) ==
    /\ Whole(w.to) /\ w.after <= w.to
    /\ \A x \in w.rows : w.after <= x /\ w.from <= x /\ x < w.to
    /\ \A s \in Int : w.after <= s /\ w.from <= s /\ s < w.to /\ s < range.end - 1
          => s \in candles[w.inst] \cup w.rows

Trails == /\ range.end <= now + 1
          /\ pc = "off" => wq = <<>>
          /\ pc = "pool" => \A w \in todo : Whole(w.to)
          /\ \A t \in Threads : Busy(t) => Trail(th[t])
          /\ \A k \in DOMAIN wq : Contiguous(wq[k].inst, wq[k].rows)

Typed == Controlled /\ Marked /\ Worked /\ Polled /\ BufferTypeOK(Fetched)

IInv == Typed /\ Saving /\ Kept /\ Rounds /\ Windows /\ Trails

-----------------------------------------------------------------------------
(* Small facts.                                                            *)

LEMMA AnyInstrument == AnyInst \in Insts
BY DEF AnyInst

LEMMA RestingTyped == Resting \in Worker /\ Stop \in Chunk
BY AnyInstrument DEF Resting, Stop, Worker, Chunk, Slots, Ends

LEMMA EmptyTyped == Empty \in [Insts -> SUBSET Fetched] /\ \A i \in Insts : Empty[i] = {}
BY DEF Empty

LEMMA FetchedSlots == Fetched \subseteq Slots /\ Slots \subseteq Nat /\ Slots \subseteq Ends
BY DEF Fetched, Slots, Ends

LEMMA ViewsFetched ==
    ASSUME NEW available \in Views
    PROVE  available \subseteq Fetched
BY DEF Views, Closed, Fetched

\* The newest of some slots.
LEMMA NewestSlot ==
    ASSUME NEW S \in SUBSET Slots, NEW m \in Slots \cup {NoSlot}
    PROVE  /\ Max(S \cup {m}) \in S \cup {m}
           /\ S # {} => Max(S \cup {m}) \in S \/ (Max(S \cup {m}) = m /\ m # NoSlot)
<1> DEFINE T == S \cup {m}
<1>1. T \in SUBSET (-1 .. Horizon) /\ T # {}
  BY DEF Slots, NoSlot
<1>2. Max(T) \in T /\ \A x \in T : x <= Max(T)
  <2> HIDE DEF T
  <2> QED BY <1>1, GreatestOf
<1>3. CASE S # {}
  <2>1. PICK x \in S : x <= Max(T)
    BY <1>2, <1>3
  <2>2. x \in Nat
    BY DEF Slots
  <2>3. Max(T) # NoSlot
    BY <1>1, <1>2, <2>1, <2>2 DEF NoSlot
  <2> QED BY <1>2, <2>3
<1> QED BY <1>2, <1>3

LEMMA RefreshedSync ==
    ASSUME Typed, WatermarkIsStored, NEW S, sync' = Refreshed(S), candles' = candles
    PROVE  sync' \in [Insts -> Slots \cup {NoSlot}] /\ WatermarkIsStored'
<1>1. \A i \in Insts : /\ sync'[i] \in Slots \cup {NoSlot}
                       /\ sync'[i] # NoSlot => sync'[i] \in candles[i]
  <2> TAKE i \in Insts
  <2>1. candles[i] \in SUBSET Slots /\ sync[i] \in Slots \cup {NoSlot}
    BY FetchedSlots DEF Typed, BufferTypeOK, Marked
  <2>2. Max(candles[i] \cup {sync[i]}) \in candles[i] \cup {sync[i]}
    BY <2>1, NewestSlot
  <2>3. sync'[i] = Max(candles[i] \cup {sync[i]}) \/ sync'[i] = sync[i]
    BY DEF Refreshed
  <2> QED BY <2>1, <2>2, <2>3 DEF WatermarkIsStored
<1>2. sync' = [i \in Insts |-> sync'[i]]
  BY DEF Refreshed
<1> QED BY <1>1, <1>2 DEF WatermarkIsStored

-----------------------------------------------------------------------------
(* What a step leaves alone.                                               *)

Grows == candles \in [Insts -> SUBSET Fetched] /\ candles' \in [Insts -> SUBSET Fetched]
         /\ \A i \in Insts : candles[i] \subseteq candles'[i]

LEMMA SavingFrame ==
    ASSUME Typed, Saving, Grows, UNCHANGED <<wq, answer, th>>
    PROVE  Saving'
<1>1. \A t \in Threads : th[t].inst \in Insts
  BY DEF Typed, Worked, Worker
<1> QED BY <1>1 DEF Saving, PutIsDurable, Grows

LEMMA KeptFrame ==
    ASSUME Kept, Grows, UNCHANGED <<sync, batch>>, writer' = "upsert" => writer = "upsert"
    PROVE  Kept'
BY DEF Kept, WatermarkIsStored, Grows

\* What is added to a day of the table comes with all that follows it there.
InOrder ==
    \A i \in Insts : \A x \in candles'[i] \ candles[i] : \A s \in Int :
        x <= s /\ s < range.end - 1 /\ DayOf(s) = DayOf(x) => s \in candles'[i]

LEMMA CheckedSlot ==
    ASSUME NEW start \in Int, NEW mark \in Int
    PROVE  CheckFrom(start, mark) \in Int
BY MaxOfTwo DEF CheckFrom

LEMMA CheckedFrame ==
    ASSUME Typed, NEW i \in Insts, Checked(i), Grows, InOrder, UNCHANGED <<range, verified, wins>>
    PROVE  Checked(i)'
<1> DEFINE from == CheckFrom(range.start, verified[i])
<1>1. from \in Int
  <2>1. range.start \in Int /\ verified[i] \in Int
    BY DEF Typed, Controlled, Marked, Slots, NoSlot
  <2> QED BY <2>1, CheckedSlot
<1>2. /\ candles[i] \subseteq Int /\ candles'[i] \subseteq Int /\ candles[i] \subseteq candles'[i]
  <2>1. candles[i] \subseteq Fetched /\ candles'[i] \subseteq Fetched /\ candles[i] \subseteq candles'[i]
    BY DEF Grows
  <2>2. \A x \in Fetched : x \in Int
    BY DEF Fetched, Slots
  <2> QED BY <2>1, <2>2
<1>3. ASSUME NEW s \in Int, s < range.end - 1, DayOf(s) = DayOf(from), s \notin candles'[i],
             (from .. s) \cap candles[i] = {}
      PROVE  (from .. s) \cap candles'[i] = {}
  <2> SUFFICES ASSUME NEW x \in candles'[i], x \in from .. s PROVE FALSE
    OBVIOUS
  <2> HIDE DEF from
  <2>1. x \in Int /\ x <= s /\ from <= x /\ x \notin candles[i]
    BY <1>1, <1>3
  <2>2. DayOf(from) <= DayOf(x) /\ DayOf(x) <= DayOf(s)
    BY <1>1, <2>1, DayOfInOrder
  <2>3. DayOf(from) \in Int /\ DayOf(x) \in Int
    BY <1>1, <2>1, WithinDay
  <2>4. DayOf(s) = DayOf(x)
    BY <1>3, <2>2, <2>3
  <2> QED BY <1>3, <2>1, <2>4 DEF InOrder
<1> QED BY <1>2, <1>3 DEF Checked, FirstHead

LEMMA WindowsFrame ==
    ASSUME Typed, Windows, Grows, InOrder, UNCHANGED <<range, verified, wins, good, todo, th, pc>>
    PROVE  Windows'
<1>1. (\A t \in Threads : th[t].inst \in Insts) /\ (\A w \in todo : w.inst \in Insts)
  BY DEF Typed, Worked, Worker
<1> QED BY <1>1, CheckedFrame DEF Windows, Busy, Typed, Worked

LEMMA TrailFrame ==
    ASSUME NEW w, w.inst \in Insts, Trail(w), Grows, range' = range
    PROVE  Trail(w)'
BY DEF Trail, Whole, Grows

LEMMA TrailsFrame ==
    ASSUME Typed, Trails, Grows, UNCHANGED <<range, th, wq, todo>>, now' \in Int, now <= now',
           pc' = "pool" => pc = "pool", pc' = "off" => pc = "off"
    PROVE  Trails'
<1>1. \A t \in Threads : th[t].inst \in Insts
  BY DEF Typed, Worked, Worker
<1>2. \A k \in DOMAIN wq : wq[k].inst \in Insts
  <2>1. wq \in Seq(Item)
    BY DEF Typed, BufferTypeOK, Item
  <2>2. \A k \in DOMAIN wq : wq[k] \in Item
    BY <2>1
  <2> QED BY <2>2 DEF Item
<1>3. \A t \in Threads : Busy(t)' => Trail(th[t])'
  BY <1>1, TrailFrame DEF Trails, Busy
<1>4. \A k \in DOMAIN wq' : Contiguous(wq[k].inst, wq[k].rows)'
  BY <1>2 DEF Trails, Contiguous, Grows
<1>5. range'.end <= now' + 1
  <2>1. range.end \in Int /\ now \in Int /\ range.end <= now + 1 /\ range' = range
    BY DEF Trails, Typed, Controlled, Ends, Slots
  <2> QED BY <2>1
<1> QED BY <1>3, <1>4, <1>5 DEF Trails, Whole

LEMMA AllRest ==
    ASSUME IInv, pc # "pool", NEW t \in Threads
    PROVE  ~Busy(t)
BY DEF IInv, Windows

\* Outside the downloads no thread is busy and nothing is waiting to be checked.
LEMMA Elsewhere ==
    ASSUME IInv, pc # "pool", UNCHANGED th, pc' \notin {"pool", "mark"}
    PROVE  Windows'
BY AllRest DEF Windows, Busy

LEMMA NoStop ==
    ASSUME IInv, pc # "stop", pc' # "stop", UNCHANGED <<q, stopping, batch>>,
           writer' = "off" => writer = "off"
    PROVE  Rounds'
BY DEF IInv, Rounds

LEMMA RoundsFrame ==
    ASSUME Rounds, UNCHANGED <<q, batch, writer, stopping, pc>>
    PROVE  Rounds'
BY DEF Rounds

LEMMA FaultBound ==
    ASSUME Typed, UNCHANGED faults \/ Fault
    PROVE  faults' \in 0 .. MaxFaults
BY DEF Typed, Controlled, Fault

LEMMA SameTable ==
    ASSUME Typed, UNCHANGED candles
    PROVE  Grows /\ InOrder
BY DEF Typed, BufferTypeOK, Grows, InOrder

-----------------------------------------------------------------------------
(* Starts, signals and ends.                                               *)

LEMMA ClockSteps == IInv /\ (Tick \/ Signal) => IInv'
<1> SUFFICES ASSUME IInv, Tick \/ Signal PROVE IInv'
  OBVIOUS
<1>1. UNCHANGED <<buffer, marks, task, pc, th, phase2, launches, faults>>
      /\ now' \in Slots /\ now <= now' /\ shutdown' \in BOOLEAN
  <2>1. CASE Tick
    BY <2>1 DEF Tick, IInv, Typed, Controlled, Slots
  <2>2. CASE Signal
    BY <2>2 DEF Signal, IInv, Typed, Controlled, Slots
  <2> QED BY <2>1, <2>2
<1>2. Typed'
  BY <1>1 DEF IInv, Typed, Controlled, Marked, Worked, Polled, BufferTypeOK, buffer, marks, task, phase2
<1>3. Grows /\ InOrder
  BY <1>1, SameTable DEF IInv, buffer
<1>4. Saving'
  BY <1>1, <1>3, SavingFrame DEF IInv, buffer
<1>5. Kept'
  BY <1>1, <1>3, KeptFrame DEF IInv, marks, phase2
<1>6. Rounds'
  BY <1>1, RoundsFrame DEF IInv, phase2
<1>7. Windows'
  BY <1>1, <1>3, WindowsFrame DEF IInv, task, marks
<1>8. Trails'
  <2>1. now' \in Int
    BY <1>1 DEF Slots
  <2> QED BY <1>1, <1>3, <2>1, TrailsFrame DEF IInv, task, buffer
<1> QED BY <1>2, <1>4, <1>5, <1>6, <1>7, <1>8 DEF IInv

\* A process starts with an empty queue.
LEMMA FreshTrails ==
    ASSUME IInv, pc = "off", UNCHANGED <<wq, th>>, range'.end <= now' + 1, pc' # "pool"
    PROVE  Trails'
<1>1. wq = <<>>
  BY DEF IInv, Trails
<1>2. \A t \in Threads : ~Busy(t)'
  BY AllRest DEF Busy
<1> QED BY <1>1, <1>2 DEF Trails

LEMMA LaunchSyncStep ==
    ASSUME IInv, NEW start \in Starts, NEW skip \in BOOLEAN, LaunchSync(start, skip)
    PROVE  IInv'
<1>1. /\ pc = "off" /\ launches' \in 0 .. MaxLaunches
      /\ prog' = "sync" /\ attempts' = 0 /\ range' = [start |-> start, end |-> now + 1]
      /\ pc' \in {"round", "detect"} /\ writer' \in {"off", "loop"}
      /\ pc' \in Early => writer' = "off"
      /\ UNCHANGED <<now, buffer, verified, wins, todo, good, th, q, batch, stopping, idle,
                     latest, poll, shutdown, faults>>
  BY DEF LaunchSync, IInv, Typed, Controlled, Early
<1>2. /\ sync' \in [Insts -> Slots \cup {NoSlot}]
      /\ WatermarkIsStored'
  BY <1>1, RefreshedSync DEF LaunchSync, EnsureSyncState, IInv, Kept, buffer
<1>3. range' \in [start : Slots \cup {NoSlot}, end : Ends] /\ range'.start \in Slots
  <2>1. now \in Slots
    BY DEF IInv, Typed, Controlled
  <2>2. start \in 0 .. Horizon /\ Horizon \in Nat
    OBVIOUS
  <2>3. now + 1 \in Ends /\ start \in Slots
    BY <2>1, <2>2 DEF Slots, Ends
  <2> QED BY <1>1, <2>3
<1>4. Typed'
  BY <1>1, <1>2, <1>3 DEF IInv, Typed, Controlled, Marked, Worked, Polled, BufferTypeOK, buffer
<1>5. Saving'
  BY <1>1, SavingFrame, SameTable DEF IInv, buffer
<1>6. Kept'
  BY <1>1, <1>2 DEF Kept
<1>7. Rounds'
  BY <1>1, NoStop DEF IInv, Typed, Controlled, Early
<1>8. Windows'
  BY <1>1, Elsewhere
<1>9. Trails'
  <2>1. range'.end <= now' + 1
    <3>1. range'.end = now + 1 /\ now' = now /\ now \in Int
      BY <1>1 DEF IInv, Typed, Controlled, Slots
    <3> QED BY <3>1
  <2> QED BY <1>1, <2>1, FreshTrails DEF buffer
<1> QED BY <1>4, <1>5, <1>6, <1>7, <1>8, <1>9 DEF IInv

LEMMA LaunchBackfillStep ==
    ASSUME IInv, NEW start \in Starts, NEW end \in 1 .. now + 1, LaunchBackfill(start, end)
    PROVE  IInv'
<1>1. /\ pc = "off" /\ launches' \in 0 .. MaxLaunches
      /\ prog' = "backfill" /\ pc' = "detect" /\ range' = [start |-> start, end |-> end]
      /\ UNCHANGED <<now, buffer, marks, wins, todo, good, attempts, th, phase2, shutdown, faults>>
  BY DEF LaunchBackfill, IInv, Typed, Controlled
<1>2. range' \in [start : Slots \cup {NoSlot}, end : Ends] /\ range'.start \in Slots
  BY <1>1 DEF IInv, Typed, Controlled, Slots, Ends
<1>3. Typed'
  BY <1>1, <1>2 DEF IInv, Typed, Controlled, Marked, Worked, Polled, BufferTypeOK, buffer, marks, phase2, Early
<1>4. Saving'
  BY <1>1, SavingFrame, SameTable DEF IInv, buffer
<1>5. Kept'
  BY <1>1, KeptFrame, SameTable DEF IInv, buffer, marks, phase2
<1>6. Rounds'
  BY <1>1, NoStop DEF phase2
<1>7. Windows'
  BY <1>1, Elsewhere
<1>8. Trails'
  <2>1. range'.end <= now' + 1
    BY <1>1 DEF IInv, Typed, Controlled, Slots
  <2> QED BY <1>1, <2>1, FreshTrails DEF buffer
<1> QED BY <1>3, <1>4, <1>5, <1>6, <1>7, <1>8 DEF IInv

\* Only the tables outlive a process.
LEMMA GoneStep ==
    ASSUME IInv, Gone, UNCHANGED <<candles, sync>>, UNCHANGED faults \/ Fault,
           verified' \in [Insts -> NoSlot .. Horizon + 1]
    PROVE  IInv'
<1>1. faults' \in 0 .. MaxFaults
  BY FaultBound DEF IInv
<1>2. Controlled'
  <2>1. range' = [start |-> NoSlot, end |-> 0] /\ 0 \in Ends /\ 0 \in 0 .. MaxAttempts
    BY DEF Gone, Ends
  <2>2. range' \in [start : Slots \cup {NoSlot}, end : Ends]
    <3>1. NoSlot \in Slots \cup {NoSlot}
      OBVIOUS
    <3>2. [start |-> NoSlot, end |-> 0] \in [start : Slots \cup {NoSlot}, end : Ends]
      BY <2>1, <3>1
    <3> QED BY <2>1, <3>2
  <2>3. /\ prog' = "off" /\ pc' = "off" /\ writer' = "off" /\ attempts' = 0
        /\ stopping' = FALSE /\ idle' = FALSE /\ shutdown' = FALSE
        /\ now' = now /\ launches' = launches
    BY DEF Gone
  <2> QED BY <1>1, <2>1, <2>2, <2>3 DEF IInv, Typed, Controlled
<1>3. Marked'
  <2>1. latest' \in [Insts -> Slots \cup {NoSlot}]
    BY DEF Gone
  <2> QED BY <2>1 DEF IInv, Typed, Marked
<1>4. Worked'
  <2>1. wins' \in [Insts -> SUBSET [from : Slots, to : Ends]]
    BY DEF Gone, Empty
  <2>2. th' \in [Threads -> Worker]
    BY RestingTyped DEF Gone
  <2> QED BY <2>1, <2>2 DEF Gone, Worked
<1>5. Polled'
  <2>1. <<>> \in Seq(Chunk)
    OBVIOUS
  <2> QED BY <2>1, EmptyTyped DEF Gone, Polled
<1>6. BufferTypeOK(Fetched)'
  <2>1. <<>> \in Seq([owner : Threads \cup {Nobody}, inst : Insts, rows : SUBSET Fetched])
    OBVIOUS
  <2>2. answer' \in [Threads -> {"none", "waiting", "ok", "exc", "timeout"}]
    BY DEF Gone
  <2>3. candles' \in [Insts -> SUBSET Fetched]
    BY DEF IInv, Typed, BufferTypeOK
  <2> QED BY <2>1, <2>2, <2>3 DEF Gone, BufferTypeOK
<1>7. Saving'
  <2>1. \A t \in Threads : answer'[t] = "none"
    BY DEF Gone
  <2>2. DOMAIN wq' = {}
    BY DEF Gone
  <2> QED BY <2>1, <2>2 DEF Saving, PutIsDurable
<1>8. Kept'
  BY DEF Gone, IInv, Kept, WatermarkIsStored
<1>9. Rounds' /\ Windows'
  <2>1. \A t \in Threads : ~Busy(t)'
    BY DEF Gone, Busy, Resting
  <2>2. DOMAIN q' = {} /\ pc' = "off" /\ stopping' = FALSE /\ batch' = Empty
    BY DEF Gone
  <2> QED BY <2>1, <2>2 DEF Rounds, Windows
<1>10. Trails'
  <2>1. \A t \in Threads : ~Busy(t)'
    BY DEF Gone, Busy, Resting
  <2>2. range'.end <= now' + 1
    <3>1. range'.end = 0 /\ now' = now /\ now \in Nat
      BY DEF Gone, IInv, Typed, Controlled, Slots
    <3> QED BY <3>1
  <2>3. wq' = <<>> /\ pc' = "off"
    BY DEF Gone
  <2> QED BY <2>1, <2>2, <2>3 DEF Trails
<1> QED BY <1>2, <1>3, <1>4, <1>5, <1>6, <1>7, <1>8, <1>9, <1>10 DEF IInv, Typed

LEMMA KillStep == IInv /\ (Kill \/ Exit \/ RefreshFails) => IInv'
<1> SUFFICES ASSUME IInv, Kill \/ Exit \/ RefreshFails PROVE IInv'
  OBVIOUS
<1>1. Gone /\ UNCHANGED <<candles, sync, verified>> /\ (UNCHANGED faults \/ Fault)
  BY DEF Kill, Exit, RefreshFails, marks
<1> QED BY <1>1, GoneStep DEF IInv, Typed, Marked

-----------------------------------------------------------------------------
(* Missing windows.                                                        *)

LEMMA ListedTable ==
    ASSUME Typed, NEW i \in Insts
    PROVE  candles[i] \in SUBSET Nat /\ Listed(candles[i], ListTime)
<1>1. candles[i] \subseteq Fetched
  BY DEF Typed, BufferTypeOK
<1>2. \A u \in ListTime : u \in Int /\ u <= Listing
  <2>1. Listing \in Nat /\ ListTime \subseteq 0 .. Listing
    OBVIOUS
  <2>2. \A u \in 0 .. Listing : u \in Int /\ u <= Listing
    BY <2>1
  <2> QED BY <2>1, <2>2
<1>3. \A s \in Fetched : s \in Nat /\ Listing <= s
  BY DEF Fetched, Slots
<1>4. candles[i] \in SUBSET Nat
  BY <1>1, <1>3
<1>5. Listing \in Int
  OBVIOUS
<1> QED BY <1>1, <1>2, <1>3, <1>4, <1>5 DEF Listed

LEMMA MissingWindows ==
    ASSUME Typed, pc # "off", NEW i \in Insts
    PROVE  /\ Missing(i) \in SUBSET [from : Slots, to : Ends]
           /\ \A w \in Missing(i) : Whole(w.to) /\ \E d \in Int : w.from = DayStart(d)
<1>1. range.start \in Nat /\ range.end \in Nat /\ range.end <= Horizon + 1 /\ verified[i] \in Int
  BY DEF Typed, Controlled, Marked, Slots, Ends, NoSlot
<1>2. ASSUME NEW w \in Missing(i)
      PROVE  w \in [from : Slots, to : Ends]
  <2>1. w \in [from : 0 .. range.end - 1, to : 0 .. range.end]
    BY <1>1, <1>2, WindowTypes DEF Missing
  <2>2. 0 .. range.end - 1 \subseteq Slots /\ 0 .. range.end \subseteq Ends
    <3>1. PICK e \in Nat : e = range.end
      BY <1>1
    <3>2. e <= Horizon + 1 /\ Horizon \in Nat
      BY <1>1, <3>1
    <3>3. 0 .. e - 1 \subseteq 0 .. Horizon /\ 0 .. e \subseteq 0 .. Horizon + 1
      BY <3>2
    <3> QED BY <3>1, <3>3 DEF Slots, Ends
  <2> QED BY <2>1, <2>2
<1>3. ASSUME NEW w \in Missing(i)
      PROVE  Whole(w.to) /\ \E d \in Int : w.from = DayStart(d)
  <2> DEFINE from == CheckFrom(range.start, verified[i])
             days == MissingDays(candles[i], from, range.end, ListTime)
  <2>1. verified[i] < range.end
    BY <1>1, <1>3, WindowTypes DEF Missing
  <2>2. w \in Merge(days, range.end)
    BY <1>1, <1>3, <2>1 DEF Missing, FindMissingWindows
  <2>3. from \in Int
    <3>1. PICK s, m \in Int : s = range.start /\ m = verified[i]
      BY <1>1
    <3>2. CheckFrom(s, m) \in Int
      BY CheckedSlot
    <3> QED BY <3>1, <3>2
  <2>4. days \subseteq Int
    <3>1. days \subseteq DayOf(from) .. DayOf(range.end - 1)
      BY DEF MissingDays
    <3>2. DayOf(from) \in Int /\ DayOf(range.end - 1) \in Int
      BY <1>1, <2>3, WithinDay
    <3> QED BY <3>1, <3>2
  <2> HIDE DEF days
  <2>5. PICK d, e \in days : w = [from |-> DayStart(d), to |-> DayEnd(e, range.end)]
    BY <2>2, WindowStart
  <2>6. e + 1 \in Int /\ d \in Int
    <3>1. \A x \in days : x + 1 \in Int /\ x \in Int
      BY <2>4
    <3>2. d \in days /\ e \in days
      BY <2>5
    <3> QED BY <3>1, <3>2
  <2>7. DayStart(e + 1) \in Int /\ range.end \in Int
    BY <1>1, <2>6, NextDay
  <2>8. DayEnd(e, range.end) = range.end \/ DayEnd(e, range.end) = DayStart(e + 1)
    BY <2>7, MinOfTwo DEF DayEnd
  <2> QED BY <2>5, <2>6, <2>8 DEF Whole
<1> QED BY <1>2, <1>3

LEMMA WholeDays ==
    ASSUME NEW a \in Int, NEW s \in Int, (s - a) % DayBars = 0
    PROVE  \E k \in Int : s = a + k * DayBars
<1> DEFINE k == (s - a) \div DayBars
<1>1. k \in Int /\ s - a = DayBars * k + ((s - a) % DayBars)
  BY PositiveDay
<1> QED BY <1>1, PositiveDay

LEMMA DayTasks ==
    ASSUME NEW windows \in SUBSET [from : Slots, to : Ends], NEW w \in SplitDays(windows)
    PROVE  /\ w.from \in Slots /\ w.to \in Ends /\ windows # {}
           /\ (\A v \in windows : Whole(v.to) /\ \E d \in Int : v.from = DayStart(d)) => Whole(w.to)
<1>1. PICK v \in windows :
         \E s \in v.from .. v.to - 1 : /\ w = [from |-> s, to |-> Min({s + DayBars, v.to})]
                                       /\ (s - v.from) % DayBars = 0
  BY DEF SplitDays
<1> PICK s \in v.from .. v.to - 1 : /\ w = [from |-> s, to |-> Min({s + DayBars, v.to})]
                                    /\ (s - v.from) % DayBars = 0
  BY <1>1
<1>2. v.from \in Nat /\ v.to \in Nat /\ v.to <= Horizon + 1
  BY DEF Slots, Ends
<1>3. s \in Nat /\ s <= Horizon /\ s + DayBars \in Nat
  BY <1>1, <1>2, PositiveDay
<1>4. Min({s + DayBars, v.to}) \in Nat /\ Min({s + DayBars, v.to}) <= v.to
  BY <1>2, <1>3, MinOfTwo
<1>5. ASSUME Whole(v.to), \E d \in Int : v.from = DayStart(d)
      PROVE  Whole(w.to)
  <2>1. CASE Min({s + DayBars, v.to}) = v.to
    BY <1>5, <2>1
  <2>2. CASE Min({s + DayBars, v.to}) = s + DayBars
    <3>1. PICK d \in Int : v.from = DayStart(d)
      BY <1>5
    <3>2. \E k \in Int : s = v.from + k * DayBars
      BY <1>2, WholeDays
    <3>3. PICK k \in Int : s = v.from + k * DayBars
      BY <3>2
    <3>4. s + DayBars = DayStart(d + k + 1)
      BY <3>1, <3>3, PositiveDay DEF DayStart
    <3>5. w.to = DayStart(d + k + 1) /\ d + k + 1 \in Int
      BY <2>2, <3>4
    <3> QED BY <3>5 DEF Whole
  <2> QED BY <1>2, <1>3, <2>1, <2>2, MinOfTwo
<1> QED BY <1>1, <1>2, <1>3, <1>4, <1>5 DEF Slots, Ends

\* The windows of an instrument are all that is missing, but for the first day.
LEMMA FoundIsChecked ==
    ASSUME Typed, pc # "off", NEW i \in Insts, wins'[i] = Missing(i),
           UNCHANGED <<candles, verified, range>>
    PROVE  Checked(i)'
<1>1. range.start \in Nat /\ range.end \in Nat /\ verified[i] \in Int
  BY DEF Typed, Controlled, Marked, Slots, Ends, NoSlot
<1>2. ASSUME NEW s \in Int, CheckFrom(range.start, verified[i]) <= s,
             s < VerifiedUpto(Missing(i), range.end)
      PROVE  s \in candles[i] \/ FirstHead(i, s)
  <2>1. \/ s \in candles[i]
        \/ /\ DayOf(s) = DayOf(CheckFrom(range.start, verified[i]))
           /\ (CheckFrom(range.start, verified[i]) .. s) \cap candles[i] = {}
           /\ \E u \in candles[i] : s < u /\ u < range.end
    BY <1>1, <1>2, ListedTable, NoHoleIsVerified DEF Missing
  <2>2. \A u \in candles[i] : u \in Int
    BY ListedTable
  <2> QED BY <1>1, <2>1, <2>2 DEF FirstHead
<1> QED BY <1>2 DEF Checked, FirstHead

LEMMA DetectFrame ==
    ASSUME IInv, pc = "detect", UNCHANGED <<buffer, marks, th, phase2>>, pc' \in {"pool", "mark"}
    PROVE  /\ Marked' /\ Polled' /\ BufferTypeOK(Fetched)' /\ Saving' /\ Kept' /\ Rounds'
           /\ \A t \in Threads : ~Busy(t)'
<1>1. Marked' /\ Polled' /\ BufferTypeOK(Fetched)'
  BY DEF IInv, Typed, Marked, Polled, BufferTypeOK, marks, phase2, buffer
<1>2. Grows
  BY SameTable DEF IInv, buffer
<1>3. Saving'
  BY <1>2, SavingFrame DEF IInv, buffer
<1>4. Kept'
  BY <1>2, KeptFrame DEF IInv, marks, phase2
<1>5. Rounds'
  BY NoStop DEF phase2
<1> QED BY <1>1, <1>3, <1>4, <1>5, AllRest DEF Busy

LEMMA DetectTrails ==
    ASSUME IInv, pc = "detect", UNCHANGED <<now, buffer, th, range>>, pc' # "off",
           \A w \in todo' : Whole(w.to)
    PROVE  Trails'
<1>1. \A t \in Threads : ~Busy(t)'
  BY AllRest DEF Busy
<1> QED BY <1>1 DEF IInv, Trails, buffer, Whole, Contiguous

LEMMA DetectSyncStep ==
    ASSUME IInv, NEW bad \in SUBSET Insts, DetectSync(bad)
    PROVE  IInv'
<1> DEFINE found == [i \in Insts |-> IF i \in bad THEN {} ELSE Missing(i)]
<1>1. /\ prog = "sync" /\ pc = "detect" /\ attempts < MaxAttempts
      /\ UNCHANGED faults \/ Fault
      /\ wins' = found
      /\ good' = {i \in Insts \ bad : found[i] = {}}
      /\ todo' = UNION {{[inst |-> i, from |-> w.from, to |-> w.to] :
                               w \in SplitDays(found[i])} : i \in Insts}
      /\ attempts' = attempts + 1 /\ pc' = "pool"
      /\ UNCHANGED <<now, buffer, marks, prog, range, th, phase2, shutdown, launches>>
  BY DEF DetectSync
<1>2. \A i \in Insts : found[i] \in SUBSET [from : Slots, to : Ends]
  BY <1>1, MissingWindows DEF IInv
<1>3. \A i \in Insts \ bad : Checked(i)'
  <2> TAKE i \in Insts \ bad
  <2>1. wins'[i] = Missing(i)
    BY <1>1
  <2> QED BY <1>1, <2>1, FoundIsChecked DEF IInv, buffer, marks
<1>4. \A v \in todo' : /\ v \in [inst : Insts, from : Slots, to : Ends] /\ v.inst \notin bad
                       /\ Whole(v.to)
  <2> TAKE v \in todo'
  <2>1. PICK i \in Insts : v \in {[inst |-> i, from |-> w.from, to |-> w.to] : w \in SplitDays(found[i])}
    BY <1>1
  <2>2. PICK w \in SplitDays(found[i]) : v = [inst |-> i, from |-> w.from, to |-> w.to]
    BY <2>1
  <2>3. w.from \in Slots /\ w.to \in Ends /\ found[i] # {}
    BY <1>2, <2>2, DayTasks
  <2>4. i \notin bad
    BY <2>3
  <2>5. \A u \in found[i] : Whole(u.to) /\ \E d \in Int : u.from = DayStart(d)
    BY <1>1, <2>4, MissingWindows DEF IInv
  <2>6. Whole(w.to)
    BY <1>2, <2>2, <2>5, DayTasks
  <2> QED BY <2>2, <2>3, <2>4, <2>6
<1>5. Controlled'
  <2>1. faults' \in 0 .. MaxFaults /\ attempts' \in 0 .. MaxAttempts
    BY <1>1, FaultBound DEF IInv, Typed, Controlled
  <2> QED BY <1>1, <2>1 DEF IInv, Typed, Controlled, phase2, Early
<1>6. Worked'
  <2>1. wins' \in [Insts -> SUBSET [from : Slots, to : Ends]]
    BY <1>1, <1>2
  <2>2. todo' \subseteq [inst : Insts, from : Slots, to : Ends] /\ good' \subseteq Insts
    BY <1>1, <1>4
  <2> QED BY <1>1, <2>1, <2>2 DEF IInv, Typed, Worked
<1>7. Windows'
  <2>1. \A i \in good' : Checked(i)'
    BY <1>1, <1>3
  <2>2. \A v \in todo' : Checked(v.inst)'
    BY <1>3, <1>4
  <2>3. \A t \in Threads : ~Busy(t)'
    BY <1>1, DetectFrame
  <2> QED BY <2>1, <2>2, <2>3 DEF Windows
<1>8. Trails'
  BY <1>1, <1>4, DetectTrails
<1> QED BY <1>1, <1>5, <1>6, <1>7, <1>8, DetectFrame DEF IInv, Typed

LEMMA DetectBackfillStep ==
    ASSUME IInv, NEW i \in Insts, DetectBackfill(i)
    PROVE  IInv'
<1> DEFINE found == Missing(i)
<1>1. /\ pc = "detect"
      /\ wins' = [wins EXCEPT ![i] = found]
      /\ good' = {i}
      /\ todo' = {[inst |-> i, from |-> w.from, to |-> w.to] : w \in found}
      /\ pc' \in {"pool", "mark"}
      /\ UNCHANGED <<now, buffer, marks, prog, range, attempts, th, phase2, shutdown, launches, faults>>
  BY DEF DetectBackfill
<1>2. found \in SUBSET [from : Slots, to : Ends]
  BY <1>1, MissingWindows DEF IInv
<1>3. Checked(i)'
  <2>1. wins'[i] = Missing(i)
    BY <1>1 DEF IInv, Typed, Worked
  <2> QED BY <1>1, <2>1, FoundIsChecked DEF IInv, buffer, marks
<1>4. \A v \in todo' : v \in [inst : Insts, from : Slots, to : Ends] /\ v.inst = i /\ Whole(v.to)
  <2> TAKE v \in todo'
  <2>1. PICK w \in found : v = [inst |-> i, from |-> w.from, to |-> w.to]
    BY <1>1
  <2>2. Whole(w.to)
    BY <1>1, MissingWindows DEF IInv
  <2> HIDE DEF found
  <2>3. w.from \in Slots /\ w.to \in Ends
    BY <1>2
  <2> QED BY <2>1, <2>2, <2>3
<1>5. Controlled'
  BY <1>1 DEF IInv, Typed, Controlled, phase2, Early
<1>6. Worked'
  <2>1. wins' \in [Insts -> SUBSET [from : Slots, to : Ends]]
    BY <1>1, <1>2 DEF IInv, Typed, Worked
  <2>2. todo' \subseteq [inst : Insts, from : Slots, to : Ends] /\ good' \subseteq Insts
    BY <1>1, <1>4
  <2> QED BY <1>1, <2>1, <2>2 DEF IInv, Typed, Worked
<1>7. Windows'
  BY <1>1, <1>3, <1>4, DetectFrame DEF Windows
<1>8. Trails'
  BY <1>1, <1>4, DetectTrails
<1> QED BY <1>1, <1>5, <1>6, <1>7, <1>8, DetectFrame DEF IInv, Typed

-----------------------------------------------------------------------------
(* The downloading threads.                                                *)

\* What a thread waits for is the only item it owns; one that does not wait
\* owns none.
LEMMA OwnsNothing ==
    ASSUME Typed, Saving, NEW t \in Threads, answer[t] # "waiting"
    PROVE  \A k \in DOMAIN wq : wq[k].owner \in (Threads \ {t}) \cup {Nobody}
<1> TAKE k \in DOMAIN wq
<1>1. wq \in Seq(Item)
  BY DEF Typed, BufferTypeOK, Item
<1>2. wq[k] \in Item
  BY <1>1
<1>3. wq[k].owner # t
  BY DEF Saving
<1> QED BY <1>2, <1>3 DEF Item

\* A thread goes on without a new put.
LEMMA GoesOn ==
    ASSUME Typed, Saving, NEW t \in Threads, answer[t] # "waiting",
           answer' = [answer EXCEPT ![t] = "none"], UNCHANGED <<wq, candles>>,
           NEW r, th' = [th EXCEPT ![t] = r]
    PROVE  Saving' /\ BufferTypeOK(Fetched)'
<1>1. /\ answer' \in [Threads -> {"none", "waiting", "ok", "exc", "timeout"}]
      /\ answer'[t] = "none"
      /\ \A u \in Threads \ {t} : answer'[u] = answer[u] /\ th'[u] = th[u]
  BY DEF Typed, BufferTypeOK, Worked
<1>2. \A k \in DOMAIN wq : wq[k].owner \in (Threads \ {t}) \cup {Nobody}
  BY OwnsNothing
<1>3. PutIsDurable'
  BY <1>1 DEF Saving, PutIsDurable
<1>4. \A u \in Threads : th'[u].pc \in {"idle", "page"} => answer'[u] = "none"
  BY <1>1 DEF Saving
<1>5. \A k \in DOMAIN wq' : wq'[k].owner # Nobody =>
          /\ answer'[wq'[k].owner] = "waiting"
          /\ wq'[k].inst = th'[wq'[k].owner].inst
          /\ th'[wq'[k].owner].rows \subseteq wq'[k].rows
  BY <1>1, <1>2 DEF Saving
<1>6. \A k, l \in DOMAIN wq' : k # l /\ wq'[k].owner = wq'[l].owner => wq'[k].owner = Nobody
  BY DEF Saving
<1>7. Saving'
  BY <1>3, <1>4, <1>5, <1>6 DEF Saving
<1> QED BY <1>1, <1>7 DEF Typed, BufferTypeOK

\* A thread puts what it has collected, and waits.
LEMMA PutStep ==
    ASSUME Typed, Saving, NEW t \in Threads, answer[t] = "none",
           NEW r \in Worker, r.pc \in {"saving", "closing"}, th' = [th EXCEPT ![t] = r],
           Put(t, r.inst, r.rows), UNCHANGED candles
    PROVE  Saving' /\ BufferTypeOK(Fetched)'
<1> DEFINE it == [owner |-> t, inst |-> r.inst, rows |-> r.rows]
           n == Len(wq)
<1>1. /\ answer' \in [Threads -> {"none", "waiting", "ok", "exc", "timeout"}]
      /\ answer'[t] = "waiting" /\ th'[t] = r
      /\ \A u \in Threads \ {t} : answer'[u] = answer[u] /\ th'[u] = th[u]
  BY DEF Typed, BufferTypeOK, Worked, Put
<1>2. it \in Item
  BY DEF Item, Worker
<1>3. wq \in Seq(Item) /\ wq' = Append(wq, it)
  BY DEF Typed, BufferTypeOK, Item, Put
<1>4. /\ n \in Nat /\ DOMAIN wq = 1 .. n /\ DOMAIN wq' = 1 .. n + 1 /\ wq' \in Seq(Item)
      /\ wq'[n + 1] = it /\ \A k \in 1 .. n : wq'[k] = wq[k]
  BY <1>2, <1>3
<1>5. \A k \in 1 .. n : wq[k].owner \in (Threads \ {t}) \cup {Nobody}
  BY <1>4, OwnsNothing
<1>6. it.owner = t /\ it.inst = r.inst /\ it.rows = r.rows /\ t # Nobody
  OBVIOUS
<1> HIDE DEF it, n
<1>7. PutIsDurable'
  BY <1>1 DEF Saving, PutIsDurable
<1>8. \A u \in Threads : th'[u].pc \in {"idle", "page"} => answer'[u] = "none"
  BY <1>1 DEF Saving
<1>9. \A k \in 1 .. n + 1 : k = n + 1 \/ k \in 1 .. n
  BY <1>4
<1>10. \A k \in DOMAIN wq' : wq'[k].owner # Nobody =>
          /\ answer'[wq'[k].owner] = "waiting"
          /\ wq'[k].inst = th'[wq'[k].owner].inst
          /\ th'[wq'[k].owner].rows \subseteq wq'[k].rows
  <2> TAKE k \in DOMAIN wq'
  <2>1. CASE k = n + 1
    BY <1>1, <1>4, <1>6, <2>1
  <2>2. CASE k \in 1 .. n
    BY <1>1, <1>4, <1>5, <2>2 DEF Saving
  <2> QED BY <1>4, <1>9, <2>1, <2>2
<1>11. \A k, l \in DOMAIN wq' : k # l /\ wq'[k].owner = wq'[l].owner => wq'[k].owner = Nobody
  <2> TAKE k, l \in DOMAIN wq'
  <2>1. CASE k \in 1 .. n /\ l \in 1 .. n
    BY <1>4, <2>1 DEF Saving
  <2>2. CASE k = n + 1 /\ l \in 1 .. n
    BY <1>4, <1>5, <1>6, <2>2
  <2>3. CASE l = n + 1 /\ k \in 1 .. n
    BY <1>4, <1>5, <1>6, <2>3
  <2> QED BY <1>4, <1>9, <2>1, <2>2, <2>3
<1>12. Saving'
  BY <1>7, <1>8, <1>10, <1>11 DEF Saving
<1> QED BY <1>1, <1>4, <1>12 DEF Typed, BufferTypeOK, Item

\* What a thread does to the tasks of the pool.
LEMMA TaskStep ==
    ASSUME IInv, pc = "pool", NEW t \in Threads, NEW r \in Worker,
           UNCHANGED <<pc, range, verified, wins, candles>>, todo' \subseteq todo,
           good' \subseteq Insts, \A i \in good' \ good : Checked(i),
           th' = [th EXCEPT ![t] = r], r.pc = "idle" \/ Checked(r.inst)
    PROVE  Windows' /\ Worked'
<1>1. th' \in [Threads -> Worker] /\ th'[t] = r /\ \A u \in Threads \ {t} : th'[u] = th[u]
  BY DEF IInv, Typed, Worked
<1>2. Worked'
  BY <1>1 DEF IInv, Typed, Worked
<1>3. Grows /\ InOrder
  BY SameTable DEF IInv
<1>4. \A i \in Insts : Checked(i) => Checked(i)'
  BY <1>3, CheckedFrame DEF IInv
<1>5. \A i \in good' : Checked(i)'
  BY <1>4 DEF IInv, Windows
<1>6. \A w \in todo' : Checked(w.inst)'
  <2> TAKE w \in todo'
  <2>1. w.inst \in Insts /\ Checked(w.inst)
    BY DEF IInv, Typed, Worked, Windows
  <2> QED BY <1>4, <2>1
<1>7. ASSUME NEW u \in Threads, Busy(u)' PROVE Checked(th[u].inst)'
  <2>1. th'[u].inst \in Insts /\ Checked(th'[u].inst)
    BY <1>1, <1>7 DEF IInv, Windows, Busy, Worker
  <2> QED BY <1>4, <2>1, <1>3 DEF Checked, FirstHead
<1> QED BY <1>2, <1>5, <1>6, <1>7 DEF Windows, Busy

\* What follows a row of a thread on its day, the thread has or has saved.
LEMMA TrailRows ==
    ASSUME Typed, NEW r \in Worker, Trail(r)
    PROVE  Contiguous(r.inst, r.rows)
<1> SUFFICES ASSUME NEW x \in r.rows, NEW s \in Int, x <= s, s < range.end - 1, DayOf(s) = DayOf(x)
             PROVE  s \in candles[r.inst] \cup r.rows
  BY DEF Contiguous
<1>1. x \in Int /\ r.from \in Int /\ r.to \in Int /\ r.after \in Int /\ range.end \in Int
  <2>1. \A y \in Fetched : y \in Int
    BY DEF Fetched, Slots
  <2> QED BY <2>1 DEF Worker, Typed, Controlled, Slots, Ends
<1>2. r.after <= x /\ r.from <= x /\ x < r.to /\ Whole(r.to)
  BY DEF Trail
<1>3. s < r.to
  <2>1. CASE r.to = range.end
    BY <1>1, <2>1
  <2>2. ASSUME NEW d \in Int, r.to = DayStart(d)
        PROVE  s < r.to
    <3>1. DayOf(s) \in Int /\ DayStart(DayOf(x)) <= x /\ s < DayStart(DayOf(s) + 1)
      BY <1>1, WithinDay
    <3>2. DayOf(s) + 1 <= d
      <4>1. CASE d <= DayOf(s)
        <5>1. DayStart(d) <= DayStart(DayOf(x)) /\ DayStart(DayOf(x)) \in Int /\ DayStart(d) \in Int
          BY <3>1, <4>1, DaysInOrder, NextDay
        <5> QED BY <1>1, <1>2, <2>2, <3>1, <5>1
      <4> QED BY <3>1, <4>1
    <3>3. DayStart(DayOf(s) + 1) <= DayStart(d)
      BY <3>1, <3>2, DaysInOrder
    <3>4. DayOf(s) + 1 \in Int /\ DayStart(DayOf(s) + 1) \in Int /\ DayStart(d) \in Int
      BY <3>1, NextDay
    <3> QED BY <2>2, <3>1, <3>3, <3>4
  <2> QED BY <1>2, <2>1, <2>2 DEF Whole
<1>4. r.after <= s /\ r.from <= s
  BY <1>1, <1>2
<1> QED BY <1>3, <1>4 DEF Trail

\* A thread goes on, and perhaps puts what it has collected.
LEMMA TrailStep ==
    ASSUME IInv, NEW t \in Threads, NEW r \in Worker, th' = [th EXCEPT ![t] = r],
           UNCHANGED <<now, pc, range, candles>>, todo' \subseteq todo, r.pc = "idle" \/ Trail(r),
           wq' = wq \/ (Trail(r) /\ Put(t, r.inst, r.rows)), pc = "pool"
    PROVE  Trails'
<1>1. th'[t] = r /\ \A u \in Threads \ {t} : th'[u] = th[u]
  BY DEF IInv, Typed, Worked
<1>2. \A u \in Threads : Busy(u)' => Trail(th[u])'
  <2> SUFFICES ASSUME NEW u \in Threads, th'[u].pc # "idle" PROVE Trail(th[u])'
    BY DEF Busy
  <2>1. Trail(r) => (u = t => Trail(th[u])')
    BY <1>1 DEF Trail, Whole
  <2>2. u # t => Trail(th[u])
    BY <1>1 DEF IInv, Trails, Busy
  <2>3. u # t => Trail(th[u])'
    BY <1>1, <2>2 DEF Trail, Whole
  <2> QED BY <1>1, <2>1, <2>3
<1>3. \A k \in DOMAIN wq' : Contiguous(wq[k].inst, wq[k].rows)'
  <2>1. \A k \in DOMAIN wq : Contiguous(wq[k].inst, wq[k].rows)
    BY DEF IInv, Trails
  <2>2. CASE wq' = wq
    BY <2>1, <2>2 DEF Contiguous
  <2>3. CASE Trail(r) /\ Put(t, r.inst, r.rows)
    <3> DEFINE it == [owner |-> t, inst |-> r.inst, rows |-> r.rows]
               n == Len(wq)
    <3>1. it \in Item /\ it.inst = r.inst /\ it.rows = r.rows
      BY DEF Item, Worker
    <3>2. wq \in Seq(Item) /\ wq' = Append(wq, it)
      BY <2>3 DEF IInv, Typed, BufferTypeOK, Item, Put
    <3>3. /\ n \in Nat /\ DOMAIN wq = 1 .. n /\ DOMAIN wq' = 1 .. n + 1
          /\ wq'[n + 1] = it /\ \A k \in 1 .. n : wq'[k] = wq[k]
      BY <3>1, <3>2
    <3> HIDE DEF it, n
    <3>4. Contiguous(r.inst, r.rows)
      BY <2>3, TrailRows DEF IInv
    <3>5. \A k \in 1 .. n + 1 : k = n + 1 \/ k \in 1 .. n
      BY <3>3
    <3> TAKE k \in DOMAIN wq'
    <3>6. CASE k = n + 1
      <4>1. wq'[k].inst = r.inst /\ wq'[k].rows = r.rows
        BY <3>1, <3>3, <3>6
      <4> QED BY <3>4, <4>1 DEF Contiguous
    <3>7. CASE k \in 1 .. n
      <4>1. wq'[k] = wq[k] /\ Contiguous(wq[k].inst, wq[k].rows)
        BY <2>1, <3>3, <3>7
      <4> QED BY <4>1 DEF Contiguous
    <3> QED BY <3>3, <3>5, <3>6, <3>7
  <2> QED BY <2>2, <2>3
<1> QED BY <1>2, <1>3 DEF IInv, Trails, Whole

\* A step of a thread, from its parts.
LEMMA ThreadStep ==
    ASSUME IInv, pc = "pool", UNCHANGED faults \/ Fault,
           UNCHANGED <<now, candles, marks, prog, pc, range, wins, attempts, phase2, shutdown, launches>>,
           Saving', BufferTypeOK(Fetched)', Worked', Windows', Trails'
    PROVE  IInv'
<1>1. faults' \in 0 .. MaxFaults
  BY FaultBound DEF IInv
<1>2. Controlled' /\ Marked' /\ Polled'
  BY <1>1 DEF IInv, Typed, Controlled, Marked, Polled, marks, phase2
<1>3. Kept'
  BY SameTable, KeptFrame DEF IInv, marks, phase2
<1>4. Rounds'
  BY RoundsFrame DEF IInv, phase2
<1> QED BY <1>2, <1>3, <1>4 DEF IInv, Typed

LEMMA BusyThread ==
    ASSUME IInv, NEW t \in Threads, Busy(t)
    PROVE  /\ pc = "pool" /\ th[t] \in Worker /\ th[t].inst \in Insts
           /\ Checked(th[t].inst) /\ Trail(th[t])
BY DEF IInv, Typed, Worked, Worker, Windows, Trails

LEMMA NotWaiting ==
    ASSUME Typed, Saving, NEW t \in Threads, th[t].pc \in {"idle", "page"}, NoPut
    PROVE  answer[t] = "none" /\ answer' = [answer EXCEPT ![t] = "none"] /\ wq' = wq
BY DEF Typed, BufferTypeOK, Saving, NoPut

LEMMA FinishStep ==
    ASSUME IInv, NEW t \in Threads, Busy(t), Finish(t),
           UNCHANGED <<now, pc, range, verified, wins, candles, wq>>
    PROVE  Windows' /\ Worked' /\ Trails'
<1>1. pc = "pool" /\ th[t].inst \in Insts /\ Checked(th[t].inst)
  BY BusyThread
<1>2. /\ th' = [th EXCEPT ![t] = Resting] /\ todo' \subseteq todo
      /\ good' = good \cup {th[t].inst}
  BY DEF Finish
<1>3. good' \subseteq Insts /\ \A i \in good' \ good : Checked(i)
  BY <1>1, <1>2 DEF IInv, Typed, Worked
<1>4. Resting \in Worker /\ Resting.pc = "idle"
  BY RestingTyped DEF Resting
<1> QED BY <1>1, <1>2, <1>3, <1>4, TaskStep, TrailStep

LEMMA TakeStep ==
    ASSUME IInv, NEW t \in Threads, NEW w \in todo, Take(t, w)
    PROVE  IInv'
<1> DEFINE r == [pc |-> "page", inst |-> w.inst, from |-> w.from, to |-> w.to,
                 after |-> w.to, rows |-> {}, had |-> FALSE]
<1>1. /\ pc = "pool" /\ th[t].pc = "idle" /\ todo' = todo \ {w}
      /\ th' = [th EXCEPT ![t] = r]
      /\ UNCHANGED <<now, buffer, marks, prog, pc, range, wins, good, attempts, phase2, shutdown,
                     launches, faults>>
  BY DEF Take
<1>2. w.inst \in Insts /\ w.from \in Slots /\ w.to \in Ends /\ Checked(w.inst)
  BY <1>1 DEF IInv, Typed, Worked, Windows
<1>3. r \in Worker /\ r.inst = w.inst /\ Trail(r)
  <2>1. Whole(w.to) /\ w.to \in Int
    BY <1>1, <1>2 DEF IInv, Trails, Ends
  <2>2. r \in Worker /\ r.inst = w.inst
    BY <1>2 DEF Worker
  <2> QED BY <2>1, <2>2 DEF Trail
<1> HIDE DEF r
<1>4. Windows' /\ Worked' /\ Trails'
  <2>1. good' \subseteq Insts /\ good' \ good = {} /\ todo' \subseteq todo
    BY <1>1 DEF IInv, Typed, Worked
  <2> QED BY <1>1, <1>2, <1>3, <2>1, TaskStep, TrailStep DEF buffer, marks
<1>5. Saving' /\ BufferTypeOK(Fetched)'
  <2>1. answer[t] = "none" /\ answer' = [answer EXCEPT ![t] = "none"] /\ wq' = wq /\ candles' = candles
    BY <1>1, NotWaiting DEF IInv, buffer, NoPut
  <2> QED BY <1>1, <2>1, GoesOn DEF IInv
<1> QED BY <1>1, <1>4, <1>5, ThreadStep DEF buffer

LEMMA LastPageStep ==
    ASSUME IInv, NEW t \in Threads, NEW available \in Views, LastPage(t, available)
    PROVE  IInv'
<1>1. /\ th[t].pc = "page"
      /\ UNCHANGED <<now, candles, marks, prog, pc, range, wins, attempts, phase2, shutdown,
                     launches, faults>>
  BY DEF LastPage
<1>2. Busy(t) /\ pc = "pool" /\ th[t] \in Worker /\ Checked(th[t].inst) /\ Trail(th[t])
  <2>1. Busy(t)
    BY <1>1 DEF Busy
  <2> QED BY <2>1, BusyThread
<1>3. CASE th[t].rows = {}
  <2>1. Finish(t) /\ NoPut
    BY <1>3 DEF LastPage
  <2>2. Windows' /\ Worked' /\ Trails'
    BY <1>1, <1>2, <2>1, FinishStep DEF marks, NoPut
  <2>3. Saving' /\ BufferTypeOK(Fetched)'
    <3>1. answer[t] = "none" /\ answer' = [answer EXCEPT ![t] = "none"] /\ wq' = wq
      BY <1>1, <2>1, NotWaiting DEF IInv
    <3>2. th' = [th EXCEPT ![t] = Resting]
      BY <2>1 DEF Finish
    <3> QED BY <1>1, <3>1, <3>2, GoesOn DEF IInv
  <2> QED BY <1>1, <1>2, <2>2, <2>3, ThreadStep
<1>4. CASE th[t].rows # {}
  <2> DEFINE r == [th[t] EXCEPT !.pc = "closing"]
  <2>1. /\ Put(t, th[t].inst, th[t].rows) /\ th' = [th EXCEPT ![t] = r]
        /\ UNCHANGED <<good, todo>>
    BY <1>4 DEF LastPage
  <2>2. r \in Worker /\ r.pc = "closing" /\ r.inst = th[t].inst /\ r.rows = th[t].rows
    BY <1>2 DEF Worker
  <2>5. Trail(r)
    <3>1. r.from = th[t].from /\ r.to = th[t].to /\ r.after = th[t].after
      BY <1>2 DEF Worker
    <3> QED BY <1>2, <2>2, <3>1 DEF Trail
  <2> HIDE DEF r
  <2>3. Windows' /\ Worked' /\ Trails'
    <3>1. good' \subseteq Insts /\ good' \ good = {} /\ todo' \subseteq todo
      BY <2>1 DEF IInv, Typed, Worked
    <3>2. Put(t, r.inst, r.rows)
      BY <2>1, <2>2
    <3> QED BY <1>1, <1>2, <2>1, <2>2, <2>5, <3>1, <3>2, TaskStep, TrailStep DEF marks
  <2>4. Saving' /\ BufferTypeOK(Fetched)'
    <3>1. answer[t] = "none"
      BY <1>1 DEF IInv, Saving
    <3>2. Put(t, r.inst, r.rows)
      BY <2>1, <2>2
    <3> QED BY <1>1, <2>1, <2>2, <3>1, <3>2, PutStep DEF IInv
  <2> QED BY <1>1, <1>2, <2>3, <2>4, ThreadStep
<1> QED BY <1>3, <1>4

\* A page is a set of fetched slots.
LEMMA PageSlots ==
    ASSUME NEW available \in Views, NEW after
    PROVE  /\ Page(available, after) \subseteq Fetched
           /\ Page(available, after) # {} => Min(Page(available, after)) \in Ends
<1>1. Page(available, after) \subseteq available
  BY DEF Page, Newest
<1>2. Page(available, after) \subseteq Fetched
  BY <1>1, ViewsFetched
<1>3. Page(available, after) \in SUBSET Nat
  BY <1>2, FetchedSlots
<1>4. Page(available, after) # {} => Min(Page(available, after)) \in Page(available, after)
  BY <1>3, LeastOf
<1> QED BY <1>2, <1>4, FetchedSlots

\* A page leaves out no closed candle between its oldest and the slot it was asked for.
LEMMA PageCovers ==
    ASSUME now \in Slots, NEW available \in Views, NEW after \in Int, Page(available, after) # {}
    PROVE  /\ \A x \in Page(available, after) : Min(Page(available, after)) <= x /\ x < after
           /\ Min(Page(available, after)) \in Page(available, after)
           /\ \A s \in Int : Min(Page(available, after)) <= s /\ s < after /\ s < now
                 => s \in Page(available, after)
<1> DEFINE page == Page(available, after)
           below == {s \in available : s < after}
           m == Min(page)
           Newer(s) == {u \in below : u > s}
<1>1. page = {s \in below : Cardinality(Newer(s)) < PageSize}
  BY DEF Page, Newest
<1>2. page \in SUBSET Nat /\ page \subseteq Fetched
  BY PageSlots, FetchedSlots
<1>3. m \in page /\ \A x \in page : m <= x
  BY <1>2, LeastOf
<1>4. \A x \in page : x < after
  BY <1>1
<1>5. ASSUME NEW s \in Int, m <= s, s < after, s < now
      PROVE  s \in page
  <2>1. m \in Nat /\ Listing <= m /\ now \in Nat /\ now <= Horizon
    BY <1>2, <1>3 DEF Fetched, Slots
  <2>2. s \in Slots /\ Listing <= s
    BY <1>5, <2>1 DEF Slots
  <2>3. s \in below
    BY <1>5, <2>2 DEF Views, Closed
  <2>4. below \subseteq 0 .. Horizon
    BY ViewsFetched, FetchedSlots DEF Slots
  <2>5. IsFiniteSet(Newer(m))
    <3>1. IsFiniteSet(0 .. Horizon)
      BY FS_Interval
    <3> QED BY <2>4, <3>1, FS_Subset
  <2>6. Newer(s) \subseteq Newer(m)
    BY <1>5, <2>1, <2>4
  <2>7. Cardinality(Newer(s)) <= Cardinality(Newer(m))
    BY <2>5, <2>6, FS_Subset
  <2>8. Cardinality(Newer(m)) < PageSize
    BY <1>1, <1>3
  <2>9. Cardinality(Newer(s)) \in Nat /\ Cardinality(Newer(m)) \in Nat /\ PageSize \in Nat
    <3>1. IsFiniteSet(Newer(s))
      BY <2>5, <2>6, FS_Subset
    <3> QED BY <2>5, <3>1, FS_CardinalityType, WindowAssumption DEF WindowAssumption
  <2>10. Cardinality(Newer(s)) < PageSize
    BY <2>7, <2>8, <2>9
  <2> QED BY <1>1, <2>3, <2>10
<1> QED BY <1>3, <1>4, <1>5

\* What a thread has after a page.
LEMMA PageTrail ==
    ASSUME IInv, NEW available \in Views, NEW w \in Worker, Trail(w),
           Page(available, w.after) # {}, NEW r,
           r.rows = w.rows \cup {s \in Page(available, w.after) : w.from <= s /\ s <= w.to},
           r.inst = w.inst, r.from = w.from, r.to = w.to, r.after = Min(Page(available, w.after))
    PROVE  Trail(r)
<1> DEFINE page == Page(available, w.after)
<1>1. /\ w.after \in Int /\ w.to \in Int /\ w.from \in Int /\ range.end \in Int /\ now \in Int
      /\ range.end <= now + 1 /\ now \in Slots
  BY DEF Worker, IInv, Typed, Controlled, Trails, Slots, Ends
<1>2. /\ \A x \in page : r.after <= x /\ x < w.after
      /\ r.after \in page
      /\ \A s \in Int : r.after <= s /\ s < w.after /\ s < now => s \in page
  BY <1>1, PageCovers
<1>3. \A x \in page \cup w.rows : x \in Int
  <2>1. page \subseteq Fetched /\ w.rows \subseteq Fetched
    BY PageSlots DEF Worker
  <2> QED BY <2>1 DEF Fetched, Slots
<1> HIDE DEF page
<1>4. r.rows = w.rows \cup {s \in page : w.from <= s /\ s <= w.to}
  BY DEF page
<1>5. /\ Whole(w.to) /\ w.after <= w.to
      /\ \A x \in w.rows : w.after <= x /\ w.from <= x /\ x < w.to
      /\ \A s \in Int : w.after <= s /\ w.from <= s /\ s < w.to /\ s < range.end - 1
            => s \in candles[w.inst] \cup w.rows
  BY DEF Trail
<1>6. r.after <= r.to /\ r.after <= w.after
  BY <1>1, <1>2, <1>3, <1>5
<1>7. \A x \in r.rows : r.after <= x /\ r.from <= x /\ x < r.to
  BY <1>1, <1>2, <1>3, <1>4, <1>5, <1>6
<1>8. ASSUME NEW s \in Int, r.after <= s, r.from <= s, s < r.to, s < range.end - 1
      PROVE  s \in candles[r.inst] \cup r.rows
  <2>1. CASE w.after <= s
    BY <1>4, <1>5, <1>8, <2>1
  <2>2. CASE s < w.after
    <3>1. s < now /\ s <= w.to
      BY <1>1, <1>8
    <3> QED BY <1>2, <1>4, <1>8, <2>2, <3>1
  <2> QED BY <1>1, <2>1, <2>2
<1> QED BY <1>5, <1>6, <1>7, <1>8 DEF Trail

LEMMA FetchPageStep ==
    ASSUME IInv, NEW t \in Threads, NEW available \in Views, FetchPage(t, available)
    PROVE  IInv'
<1> DEFINE page == Page(available, th[t].after)
           rows == th[t].rows \cup {s \in page : th[t].from <= s /\ s <= th[t].to}
           oldest == Min(page)
           next == [th[t] EXCEPT !.had = TRUE, !.rows = rows, !.after = oldest,
                                 !.pc = IF Cardinality(rows) >= BulkRows THEN "saving"
                                        ELSE IF oldest <= th[t].from THEN "closing" ELSE "page"]
<1>1. /\ th[t].pc = "page" /\ page # {}
      /\ UNCHANGED <<now, candles, marks, prog, pc, range, wins, attempts, phase2, shutdown,
                     launches, faults>>
  BY DEF FetchPage
<1>2. \/ Finish(t) /\ NoPut
      \/ /\ th' = [th EXCEPT ![t] = next]
         /\ IF next.pc = "page" THEN NoPut ELSE Put(t, next.inst, rows)
         /\ UNCHANGED <<good, todo>>
  BY DEF FetchPage
<1>3. Busy(t) /\ pc = "pool" /\ th[t] \in Worker /\ Checked(th[t].inst) /\ Trail(th[t])
  <2>1. Busy(t)
    BY <1>1 DEF Busy
  <2> QED BY <2>1, BusyThread
<1>4. /\ next \in Worker /\ next.inst = th[t].inst /\ next.rows = rows
      /\ next.pc \in {"page", "saving", "closing"}
      /\ next.from = th[t].from /\ next.to = th[t].to /\ next.after = oldest
  <2>1. page \subseteq Fetched /\ oldest \in Ends
    BY <1>1, PageSlots
  <2>2. rows \subseteq Fetched
    BY <1>3, <2>1 DEF Worker
  <2> HIDE DEF rows, oldest, page
  <2> QED BY <1>3, <2>1, <2>2 DEF Worker
<1>8. Trail(next)
  BY <1>1, <1>3, <1>4, PageTrail
<1>5. answer[t] = "none"
  BY <1>1 DEF IInv, Saving
<1> HIDE DEF next, rows, page, oldest
<1>6. CASE Finish(t) /\ NoPut
  <2>1. Windows' /\ Worked' /\ Trails'
    BY <1>1, <1>3, <1>6, FinishStep DEF marks, NoPut
  <2>2. Saving' /\ BufferTypeOK(Fetched)'
    <3>1. answer' = [answer EXCEPT ![t] = "none"] /\ wq' = wq
      BY <1>1, <1>6, NotWaiting DEF IInv
    <3>2. th' = [th EXCEPT ![t] = Resting]
      BY <1>6 DEF Finish
    <3> QED BY <1>1, <1>5, <3>1, <3>2, GoesOn DEF IInv
  <2> QED BY <1>1, <1>3, <2>1, <2>2, ThreadStep
<1>7. CASE /\ th' = [th EXCEPT ![t] = next]
           /\ IF next.pc = "page" THEN NoPut ELSE Put(t, next.inst, rows)
           /\ UNCHANGED <<good, todo>>
  <2>1. Windows' /\ Worked' /\ Trails'
    <3>1. good' \subseteq Insts /\ good' \ good = {} /\ todo' \subseteq todo
      BY <1>7 DEF IInv, Typed, Worked
    <3>2. wq' = wq \/ Put(t, next.inst, next.rows)
      BY <1>4, <1>7 DEF NoPut
    <3> QED BY <1>1, <1>3, <1>4, <1>7, <1>8, <3>1, <3>2, TaskStep, TrailStep DEF marks
  <2>2. Saving' /\ BufferTypeOK(Fetched)'
    <3>1. CASE next.pc = "page"
      <4>1. answer' = [answer EXCEPT ![t] = "none"] /\ wq' = wq
        BY <1>1, <1>7, <3>1, NotWaiting DEF IInv
      <4> QED BY <1>1, <1>5, <1>7, <4>1, GoesOn DEF IInv
    <3>2. CASE next.pc # "page"
      <4>1. Put(t, next.inst, next.rows) /\ next.pc \in {"saving", "closing"}
        BY <1>4, <1>7, <3>2
      <4> QED BY <1>1, <1>4, <1>5, <1>7, <4>1, PutStep DEF IInv
    <3> QED BY <3>1, <3>2
  <2> QED BY <1>1, <1>3, <2>1, <2>2, ThreadStep
<1> QED BY <1>2, <1>6, <1>7

LEMMA SavedStep ==
    ASSUME IInv, NEW t \in Threads, Saved(t)
    PROVE  IInv'
<1>1. /\ answer[t] = "ok" /\ answer' = [answer EXCEPT ![t] = "none"]
      /\ UNCHANGED <<now, candles, wq, marks, prog, pc, range, wins, attempts, phase2, shutdown,
                     launches, faults>>
      /\ \/ Finish(t)
         \/ /\ th' = [th EXCEPT ![t].pc = "page", ![t].rows = {}]
            /\ UNCHANGED <<good, todo>>
  BY DEF Saved
<1>2. Busy(t)
  BY <1>1 DEF IInv, Saving, Busy
<1>3. pc = "pool" /\ th[t] \in Worker /\ Checked(th[t].inst) /\ Trail(th[t])
  BY <1>2, BusyThread
<1>4. CASE Finish(t)
  <2>1. Windows' /\ Worked' /\ Trails'
    BY <1>1, <1>2, <1>4, FinishStep DEF marks
  <2>2. th' = [th EXCEPT ![t] = Resting]
    BY <1>4 DEF Finish
  <2>3. Saving' /\ BufferTypeOK(Fetched)'
    BY <1>1, <2>2, GoesOn DEF IInv
  <2> QED BY <1>1, <1>3, <2>1, <2>3, ThreadStep
<1>5. CASE /\ th' = [th EXCEPT ![t].pc = "page", ![t].rows = {}]
           /\ UNCHANGED <<good, todo>>
  <2> DEFINE r == [th[t] EXCEPT !.pc = "page", !.rows = {}]
  <2>1. th' = [th EXCEPT ![t] = r] /\ UNCHANGED <<good, todo>>
    BY <1>5 DEF IInv, Typed, Worked
  <2>2. r \in Worker /\ r.inst = th[t].inst
    BY <1>3 DEF Worker
  <2>5. Trail(r)
    <3>1. th[t].rows \subseteq candles[th[t].inst]
      BY <1>1 DEF IInv, Saving, PutIsDurable
    <3>2. r.from = th[t].from /\ r.to = th[t].to /\ r.after = th[t].after /\ r.rows = {}
      BY <1>3 DEF Worker
    <3> QED BY <1>3, <2>2, <3>1, <3>2 DEF Trail
  <2> HIDE DEF r
  <2>3. Windows' /\ Worked' /\ Trails'
    <3>1. good' \subseteq Insts /\ good' \ good = {} /\ todo' \subseteq todo
      BY <2>1 DEF IInv, Typed, Worked
    <3> QED BY <1>1, <1>3, <2>1, <2>2, <2>5, <3>1, TaskStep, TrailStep DEF marks
  <2>4. Saving' /\ BufferTypeOK(Fetched)'
    BY <1>1, <2>1, GoesOn DEF IInv
  <2> QED BY <1>1, <1>3, <2>3, <2>4, ThreadStep
<1> QED BY <1>1, <1>4, <1>5

LEMMA FailsStep ==
    ASSUME IInv, NEW t \in Threads, FetchFails(t) \/ SaveFails(t)
    PROVE  IInv'
<1>1. TaskFails(t) /\ (UNCHANGED faults \/ Fault) /\ Busy(t) /\ answer[t] # "waiting"
  BY DEF FetchFails, SaveFails, IInv, Saving, Busy
<1>2. pc = "pool" /\ th[t] \in Worker /\ Checked(th[t].inst)
  BY <1>1, BusyThread
<1>3. CASE prog = "sync"
  <2>1. /\ th' = [th EXCEPT ![t] = Resting]
        /\ answer' = [answer EXCEPT ![t] = "none"]
        /\ UNCHANGED <<now, candles, wq, marks, task, pc, phase2, shutdown, launches>>
    BY <1>1, <1>3 DEF TaskFails
  <2>2. Windows' /\ Worked' /\ Trails'
    <3>1. good' \subseteq Insts /\ good' \ good = {} /\ todo' \subseteq todo
      BY <2>1 DEF IInv, Typed, Worked, task
    <3>2. Resting \in Worker /\ Resting.pc = "idle"
      BY RestingTyped DEF Resting
    <3> QED BY <1>2, <2>1, <3>1, <3>2, TaskStep, TrailStep DEF marks, task
  <2>3. Saving' /\ BufferTypeOK(Fetched)'
    BY <1>1, <2>1, GoesOn DEF IInv
  <2> QED BY <1>1, <1>2, <2>1, <2>2, <2>3, ThreadStep DEF task
<1>4. CASE prog # "sync"
  <2>1. Gone /\ UNCHANGED <<candles, sync, verified>>
    BY <1>1, <1>4 DEF TaskFails, marks
  <2> QED BY <1>1, <2>1, GoneStep DEF IInv, Typed, Marked
<1> QED BY <1>3, <1>4

-----------------------------------------------------------------------------
(* The thread of the write buffer.                                         *)

\* The rows of the queue are rows that were in it.
OldItems == \A k \in DOMAIN wq' : \E j \in DOMAIN wq : wq'[k].inst = wq[j].inst /\ wq'[k].rows = wq[j].rows

\* The n oldest items leave the queue, and their owners learn the result.
LEMMA Answered ==
    ASSUME Typed, Saving, Grows, NEW n \in 1 .. Len(wq), NEW result \in {"ok", "exc"},
           answer' = Answer(n, result), wq' = SubSeq(wq, n + 1, Len(wq)), UNCHANGED th,
           result = "ok" => \A i \in Insts : Merged(i, n) \subseteq candles'[i]
    PROVE  Saving' /\ BufferTypeOK(Fetched)' /\ OldItems
<1> DEFINE m == Len(wq)
<1>1. wq \in Seq(Item) /\ m \in Nat /\ DOMAIN wq = 1 .. m /\ n \in 1 .. m
  BY DEF Typed, BufferTypeOK, Item
<1>2. /\ wq' \in Seq(Item) /\ DOMAIN wq' = 1 .. m - n
      /\ \A k \in 1 .. m - n : wq'[k] = wq[k + n] /\ k + n \in 1 .. m /\ k + n \notin 1 .. n
  BY <1>1
<1>3. /\ answer' \in [Threads -> {"none", "waiting", "ok", "exc", "timeout"}]
      /\ \A t \in Threads : answer'[t] = IF t \in Owners(n) THEN result ELSE answer[t]
  BY DEF Answer, Typed, BufferTypeOK
<1>4. \A t \in Owners(n) : \E k \in 1 .. n : wq[k].owner = t /\ t # Nobody
  BY DEF Owners
<1>5. \A k \in 1 .. n : wq[k].owner \in Owners(n) \cup {Nobody}
  BY DEF Owners
<1>6. \A k \in 1 .. m : wq[k] \in Item
  BY <1>1
<1> HIDE DEF m
<1>7. \A t \in Owners(n) : answer[t] = "waiting"
  <2> TAKE t \in Owners(n)
  <2>1. PICK k \in 1 .. n : wq[k].owner = t /\ t # Nobody
    BY <1>4
  <2>2. k \in 1 .. m
    BY <1>1, <2>1
  <2> QED BY <1>1, <2>1, <2>2 DEF Saving
<1>8. PutIsDurable'
  <2> SUFFICES ASSUME NEW t \in Threads, answer'[t] = "ok"
               PROVE  th[t].rows \subseteq candles'[th[t].inst]
    BY DEF PutIsDurable
  <2>1. th[t].inst \in Insts
    BY DEF Typed, Worked, Worker
  <2>2. CASE t \in Owners(n)
    <3>1. PICK k \in 1 .. n : wq[k].owner = t /\ t # Nobody
      BY <1>4, <2>2
    <3>2. k \in 1 .. m
      BY <1>1, <3>1
    <3>3. wq[k].inst = th[t].inst /\ th[t].rows \subseteq wq[k].rows
      BY <1>1, <3>1, <3>2 DEF Saving
    <3>4. wq[k].rows \subseteq Merged(th[t].inst, n)
      BY <3>1, <3>3 DEF Merged
    <3>5. result = "ok"
      BY <1>3, <2>2
    <3> QED BY <2>1, <3>3, <3>4, <3>5
  <2>3. CASE t \notin Owners(n)
    <3>1. answer[t] = "ok"
      BY <1>3, <2>3
    <3>2. th[t].rows \subseteq candles[th[t].inst]
      BY <3>1 DEF Saving, PutIsDurable
    <3> QED BY <2>1, <3>2 DEF Grows
  <2> QED BY <2>2, <2>3
<1>9. \A t \in Threads : th'[t].pc \in {"idle", "page"} => answer'[t] = "none"
  BY <1>3, <1>7 DEF Saving
<1>10. \A k \in DOMAIN wq' : wq'[k].owner # Nobody =>
          /\ answer'[wq'[k].owner] = "waiting"
          /\ wq'[k].inst = th'[wq'[k].owner].inst
          /\ th'[wq'[k].owner].rows \subseteq wq'[k].rows
  <2> SUFFICES ASSUME NEW k \in 1 .. m - n, wq'[k].owner # Nobody
               PROVE  /\ answer'[wq'[k].owner] = "waiting"
                      /\ wq'[k].inst = th'[wq'[k].owner].inst
                      /\ th'[wq'[k].owner].rows \subseteq wq'[k].rows
    BY <1>2
  <2> DEFINE o == wq'[k].owner
             j == k + n
  <2>1. j \in 1 .. m /\ j \notin 1 .. n /\ wq'[k] = wq[j] /\ wq[j] \in Item
    BY <1>2, <1>6
  <2>2. o \in Threads
    BY <2>1 DEF Item
  <2> HIDE DEF j
  <2>3. o \notin Owners(n)
    <3> SUFFICES ASSUME o \in Owners(n) PROVE FALSE
      OBVIOUS
    <3>1. PICK l \in 1 .. n : wq[l].owner = o
      BY <1>4
    <3>2. l \in 1 .. m /\ l # j
      BY <1>1, <2>1, <3>1
    <3> QED BY <1>1, <2>1, <3>1, <3>2 DEF Saving
  <2>4. j \in DOMAIN wq /\ wq[j].owner = o /\ wq[j].inst = wq'[k].inst /\ wq[j].rows = wq'[k].rows
    BY <1>1, <2>1
  <2>5. o # Nobody
    OBVIOUS
  <2> HIDE DEF o
  <2>6. answer[o] = "waiting" /\ wq[j].inst = th[o].inst /\ th[o].rows \subseteq wq[j].rows
    BY <2>4, <2>5 DEF Saving
  <2>7. answer'[o] = "waiting"
    BY <1>3, <2>2, <2>3, <2>6
  <2> QED BY <2>4, <2>6, <2>7 DEF o
<1>11. \A k, l \in DOMAIN wq' : k # l /\ wq'[k].owner = wq'[l].owner => wq'[k].owner = Nobody
  <2> SUFFICES ASSUME NEW k \in 1 .. m - n, NEW l \in 1 .. m - n, k # l, wq'[k].owner = wq'[l].owner
               PROVE  wq'[k].owner = Nobody
    BY <1>2
  <2>1. k + n \in 1 .. m /\ l + n \in 1 .. m /\ k + n # l + n
    BY <1>1, <1>2
  <2>2. wq'[k] = wq[k + n] /\ wq'[l] = wq[l + n]
    BY <1>2
  <2>3. \A x, y \in 1 .. m : x # y /\ wq[x].owner = wq[y].owner => wq[x].owner = Nobody
    BY <1>1 DEF Saving
  <2> QED BY <2>1, <2>2, <2>3
<1>12. Saving'
  BY <1>8, <1>9, <1>10, <1>11 DEF Saving
<1>13. OldItems
  BY <1>1, <1>2 DEF OldItems
<1> QED BY <1>2, <1>3, <1>12, <1>13 DEF Grows, BufferTypeOK, Item

LEMMA MergedRows ==
    ASSUME Typed, NEW n \in 1 .. Len(wq), NEW i \in Insts
    PROVE  Merged(i, n) \subseteq Fetched
<1>1. wq \in Seq(Item)
  BY DEF Typed, BufferTypeOK, Item
<1>2. \A k \in 1 .. n : k \in 1 .. Len(wq)
  BY <1>1
<1>3. \A k \in 1 .. n : wq[k] \in Item
  BY <1>1, <1>2
<1> QED BY <1>3 DEF Merged, Item

\* Who gives up leaves its rows behind.
LEMMA TimedOut ==
    ASSUME Typed, Saving, NEW t \in Threads, PutTimesOut(t), UNCHANGED th
    PROVE  Saving' /\ BufferTypeOK(Fetched)' /\ OldItems
<1>1. wq \in Seq(Item)
  BY DEF Typed, BufferTypeOK, Item
<1>2. \A k \in DOMAIN wq : wq[k] \in Item
  BY <1>1
<1>3. /\ DOMAIN wq' = DOMAIN wq
      /\ \A k \in DOMAIN wq : wq'[k] = IF wq[k].owner = t THEN [wq[k] EXCEPT !.owner = Nobody] ELSE wq[k]
  BY DEF PutTimesOut
<1>4. \A k \in DOMAIN wq :
         /\ wq'[k] \in Item /\ wq'[k].inst = wq[k].inst /\ wq'[k].rows = wq[k].rows
         /\ wq'[k].owner = IF wq[k].owner = t THEN Nobody ELSE wq[k].owner
  <2> TAKE k \in DOMAIN wq
  <2>1. CASE wq[k].owner = t
    BY <1>2, <1>3, <2>1 DEF Item
  <2>2. CASE wq[k].owner # t
    BY <1>2, <1>3, <2>2
  <2> QED BY <2>1, <2>2
<1>5. wq' \in Seq(Item)
  <2>1. wq' = [k \in 1 .. Len(wq) |-> wq'[k]] /\ Len(wq) \in Nat /\ DOMAIN wq = 1 .. Len(wq)
    BY <1>1 DEF PutTimesOut
  <2> QED BY <1>4, <2>1
<1>6. /\ answer[t] = "waiting" /\ answer'[t] = "timeout"
      /\ answer' \in [Threads -> {"none", "waiting", "ok", "exc", "timeout"}]
      /\ \A u \in Threads \ {t} : answer'[u] = answer[u]
  BY DEF PutTimesOut, Typed, BufferTypeOK
<1>7. PutIsDurable'
  BY <1>6 DEF PutTimesOut, Saving, PutIsDurable
<1>8. \A u \in Threads : th'[u].pc \in {"idle", "page"} => answer'[u] = "none"
  BY <1>6 DEF Saving
<1>9. \A k \in DOMAIN wq' : wq'[k].owner # Nobody =>
          /\ answer'[wq'[k].owner] = "waiting"
          /\ wq'[k].inst = th'[wq'[k].owner].inst
          /\ th'[wq'[k].owner].rows \subseteq wq'[k].rows
  <2> SUFFICES ASSUME NEW k \in DOMAIN wq, wq'[k].owner # Nobody
               PROVE  /\ answer'[wq'[k].owner] = "waiting"
                      /\ wq'[k].inst = th'[wq'[k].owner].inst
                      /\ th'[wq'[k].owner].rows \subseteq wq'[k].rows
    BY <1>3
  <2>1. wq'[k].owner = wq[k].owner /\ wq[k].owner \in Threads \ {t}
    BY <1>2, <1>4 DEF Item
  <2> QED BY <1>4, <1>6, <2>1 DEF Saving
<1>10. \A k, l \in DOMAIN wq' : k # l /\ wq'[k].owner = wq'[l].owner => wq'[k].owner = Nobody
  BY <1>3, <1>4 DEF Saving
<1>11. Saving'
  BY <1>7, <1>8, <1>9, <1>10 DEF Saving
<1>12. candles' = candles
  BY DEF PutTimesOut
<1>13. OldItems
  BY <1>3, <1>4 DEF OldItems
<1> QED BY <1>5, <1>6, <1>11, <1>12, <1>13 DEF Typed, BufferTypeOK, Item

\* A transaction stores days from their end.
LEMMA FlushInOrder ==
    ASSUME Typed, Trails, NEW n \in 1 .. Len(wq), Flush(n)
    PROVE  InOrder
<1>1. wq \in Seq(Item) /\ candles \in [Insts -> SUBSET Fetched]
  BY DEF Typed, BufferTypeOK, Item
<1>2. \A k \in 1 .. n : k \in DOMAIN wq
  BY <1>1
<1>3. \A i \in Insts : candles'[i] = candles[i] \cup Merged(i, n)
  BY DEF Flush
<1> SUFFICES ASSUME NEW i \in Insts, NEW x \in candles'[i], x \notin candles[i], NEW s \in Int,
                    x <= s, s < range.end - 1, DayOf(s) = DayOf(x)
             PROVE  s \in candles'[i]
  BY DEF InOrder
<1>4. x \in Merged(i, n)
  BY <1>3
<1>5. PICK k \in 1 .. n : wq[k].inst = i /\ x \in wq[k].rows
  BY <1>4 DEF Merged
<1>6. Contiguous(i, wq[k].rows)
  BY <1>2, <1>5 DEF Trails
<1>7. s \in candles[i] \/ s \in wq[k].rows
  BY <1>5, <1>6 DEF Contiguous
<1>8. wq[k].rows \subseteq Merged(i, n)
  BY <1>5 DEF Merged
<1> QED BY <1>3, <1>7, <1>8

LEMMA QueueTrails ==
    ASSUME Typed, Trails, Grows, OldItems, UNCHANGED <<now, range, th, todo, pc>>, pc # "off"
    PROVE  Trails'
<1>1. (\A t \in Threads : th[t].inst \in Insts) /\ (\A k \in DOMAIN wq : wq[k].inst \in Insts)
  <2>1. wq \in Seq(Item)
    BY DEF Typed, BufferTypeOK, Item
  <2>2. \A k \in DOMAIN wq : wq[k] \in Item
    BY <2>1
  <2> QED BY <2>2 DEF Item, Typed, Worked, Worker
<1>2. \A t \in Threads : Busy(t)' => Trail(th[t])'
  BY <1>1, TrailFrame DEF Trails, Busy
<1>3. \A k \in DOMAIN wq' : Contiguous(wq[k].inst, wq[k].rows)'
  <2> TAKE k \in DOMAIN wq'
  <2>1. PICK j \in DOMAIN wq : wq'[k].inst = wq[j].inst /\ wq'[k].rows = wq[j].rows
    BY DEF OldItems
  <2>2. Contiguous(wq[j].inst, wq[j].rows) /\ wq[j].inst \in Insts
    BY <1>1 DEF Trails
  <2> QED BY <2>1, <2>2 DEF Contiguous, Grows
<1> QED BY <1>2, <1>3 DEF Trails, Whole

LEMMA BufferSteps ==
    ASSUME IInv, BufferStep
    PROVE  IInv'
<1>1. UNCHANGED <<now, marks, task, pc, th, phase2, shutdown, launches>> /\ (UNCHANGED faults \/ Fault)
  BY DEF BufferStep
<1>2. Grows /\ InOrder /\ OldItems /\ pc # "off" /\ Saving' /\ BufferTypeOK(Fetched)'
  <2>1. CASE \E n \in 1 .. Len(wq) : Flush(n)
    <3>1. PICK n \in 1 .. Len(wq) : Flush(n)
      BY <2>1
    <3>2. /\ candles' = [i \in Insts |-> candles[i] \cup Merged(i, n)]
          /\ answer' = Answer(n, "ok") /\ wq' = SubSeq(wq, n + 1, Len(wq))
      BY <3>1 DEF Flush
    <3>3. Grows
      BY <3>1, <3>2, MergedRows DEF Grows, IInv, Typed, BufferTypeOK
    <3>4. InOrder
      BY <3>1, FlushInOrder DEF IInv
    <3>5. pc # "off"
      BY <3>1 DEF IInv, Trails
    <3> QED BY <1>1, <3>1, <3>2, <3>3, <3>4, <3>5, Answered DEF IInv
  <2>2. CASE \E n \in 1 .. Len(wq) : FlushFails(n)
    <3>1. PICK n \in 1 .. Len(wq) : FlushFails(n)
      BY <2>2
    <3>2. /\ candles' = candles
          /\ answer' = Answer(n, "exc") /\ wq' = SubSeq(wq, n + 1, Len(wq))
      BY <3>1 DEF FlushFails
    <3>3. Grows /\ InOrder
      BY <3>2, SameTable DEF IInv
    <3>4. pc # "off"
      BY <3>1 DEF IInv, Trails
    <3> QED BY <1>1, <3>1, <3>2, <3>3, <3>4, Answered DEF IInv
  <2>3. CASE \E t \in Threads : PutTimesOut(t)
    <3>1. PICK t \in Threads : PutTimesOut(t)
      BY <2>3
    <3>2. candles' = candles
      BY <3>1 DEF PutTimesOut
    <3>3. Grows /\ InOrder
      BY <3>2, SameTable DEF IInv
    <3>4. pc # "off"
      BY <3>1 DEF PutTimesOut, IInv, Saving, Windows, Busy
    <3> QED BY <1>1, <3>1, <3>3, <3>4, TimedOut DEF IInv
  <2> QED BY <2>1, <2>2, <2>3 DEF BufferStep
<1>3. faults' \in 0 .. MaxFaults
  BY <1>1, FaultBound DEF IInv
<1>4. Controlled' /\ Marked' /\ Worked' /\ Polled'
  BY <1>1, <1>3 DEF IInv, Typed, Controlled, Marked, Worked, Polled, marks, task, phase2
<1>5. Kept'
  BY <1>1, <1>2, KeptFrame DEF IInv, marks, phase2
<1>6. Rounds'
  BY <1>1, RoundsFrame DEF IInv, phase2
<1>7. Windows'
  BY <1>1, <1>2, WindowsFrame DEF IInv, marks, task
<1>8. Trails'
  BY <1>1, <1>2, QueueTrails DEF IInv, task
<1> QED BY <1>2, <1>4, <1>5, <1>6, <1>7, <1>8 DEF IInv, Typed

-----------------------------------------------------------------------------
(* The main thread between the downloads.                                  *)

\* What the tables and the threads keep when only the main thread moves.
LEMMA MainFrame ==
    ASSUME IInv, UNCHANGED <<buffer, th>>
    PROVE  /\ BufferTypeOK(Fetched)' /\ Saving' /\ Grows /\ InOrder
           /\ UNCHANGED <<now, task>> /\ pc' \notin {"pool", "off"} => Trails'
           /\ pc # "pool" /\ pc' \notin {"pool", "mark"} => Windows'
           /\ /\ pc # "stop" /\ pc' # "stop"
              /\ UNCHANGED <<q, stopping, batch>> /\ (writer' = "off" => writer = "off")
              => Rounds'
<1>1. BufferTypeOK(Fetched)'
  BY DEF IInv, Typed, BufferTypeOK, buffer
<1>2. Grows /\ InOrder
  BY SameTable DEF IInv, buffer
<1>3. UNCHANGED <<now, task>> /\ pc' \notin {"pool", "off"} => Trails'
  <2>1. now \in Int
    BY DEF IInv, Typed, Controlled, Slots
  <2> QED BY <1>2, <2>1, TrailsFrame DEF IInv, buffer, task
<1> QED BY <1>1, <1>2, <1>3, SavingFrame, Elsewhere, NoStop DEF IInv, buffer

LEMMA Phase2Step ==
    ASSUME IInv, Phase2, pc \notin {"pool", "stop", "off"}, UNCHANGED faults
    PROVE  IInv'
<1>1. CASE shutdown
  BY <1>1, GoneStep DEF Phase2, marks, IInv, Typed, Marked
<1>2. CASE ~shutdown
  <2>1. /\ pc' = "round" /\ writer' = "loop"
        /\ UNCHANGED <<now, buffer, marks, task, th, q, batch, stopping, idle, latest, poll,
                       shutdown, launches, faults>>
    BY <1>2 DEF Phase2
  <2>2. BufferTypeOK(Fetched)' /\ Saving' /\ Windows' /\ Rounds' /\ Grows /\ Trails'
    BY <2>1, MainFrame
  <2>3. Controlled' /\ Marked' /\ Worked' /\ Polled'
    BY <2>1 DEF IInv, Typed, Controlled, Marked, Worked, Polled, marks, task, Early
  <2>4. Kept'
    BY <2>1, <2>2, KeptFrame DEF IInv, marks
  <2> QED BY <2>2, <2>3, <2>4 DEF IInv, Typed
<1> QED BY <1>1, <1>2

LEMMA PoolDoneStep == IInv /\ PoolDone => IInv'
<1> SUFFICES ASSUME IInv, PoolDone PROVE IInv'
  OBVIOUS
<1>1. /\ pc = "pool" /\ \A t \in Threads : ~Busy(t)
      /\ pc' = "mark"
      /\ UNCHANGED <<now, buffer, marks, task, th, phase2, shutdown, launches, faults>>
  BY DEF PoolDone, Busy
<1>2. BufferTypeOK(Fetched)' /\ Saving' /\ Rounds' /\ Grows /\ Trails'
  BY <1>1, MainFrame DEF phase2
<1>3. Controlled' /\ Marked' /\ Worked' /\ Polled'
  BY <1>1 DEF IInv, Typed, Controlled, Marked, Worked, Polled, marks, task, phase2, Early
<1>4. Kept'
  BY <1>1, <1>2, KeptFrame DEF IInv, marks, phase2
<1>5. Windows'
  <2>1. \A i \in Insts : Checked(i) => Checked(i)'
    BY <1>1, <1>3, MainFrame, CheckedFrame DEF IInv, marks, task
  <2>2. good \subseteq Insts /\ \A w \in todo : w.inst \in Insts
    BY DEF IInv, Typed, Worked
  <2> QED BY <1>1, <2>1, <2>2 DEF IInv, Windows, Busy, task
<1> QED BY <1>2, <1>3, <1>4, <1>5 DEF IInv, Typed

LEMMA VerifyTyped ==
    ASSUME IInv, NEW lost, Verify(lost)
    PROVE  verified' \in [Insts -> NoSlot .. Horizon + 1]
<1>1. verified' = [i \in Insts |->
                     IF i \in good \ lost /\ (prog = "backfill" \/ wins[i] # {})
                     THEN VerifiedUpto(wins[i], range.end) ELSE verified[i]]
  BY DEF Verify
<1>2. \A i \in Insts : VerifiedUpto(wins[i], range.end) \in NoSlot .. Horizon + 1
  <2> TAKE i \in Insts
  <2>1. range.end \in Nat /\ range.end <= Horizon + 1
    BY DEF IInv, Typed, Controlled, Ends
  <2>2. \A w \in wins[i] : w.from \in Nat /\ w.from <= Horizon
    BY DEF IInv, Typed, Worked, Slots
  <2> DEFINE windows == wins[i]
             end == range.end
  <2> HIDE DEF windows, end
  <2>3. end \in Nat /\ end <= Horizon + 1 /\ \A w \in windows : w.from \in Nat /\ w.from <= Horizon
    BY <2>1, <2>2 DEF windows, end
  <2>4. /\ VerifiedUpto(windows, end) \in Nat
        /\ windows = {} => VerifiedUpto(windows, end) = end
        /\ windows # {} => \E w \in windows : VerifiedUpto(windows, end) = w.from
    BY <2>3, UptoIsLeast
  <2>5. VerifiedUpto(windows, end) \in Nat /\ VerifiedUpto(windows, end) <= Horizon + 1
    <3> DEFINE v == VerifiedUpto(windows, end)
    <3> HIDE DEF v
    <3>1. v \in Nat /\ (v = end \/ \E w \in windows : v = w.from)
      BY <2>4 DEF v
    <3> QED BY <2>3, <3>1 DEF v
  <2> QED BY <2>5 DEF NoSlot, windows, end
<1>3. \A i \in Insts : verified[i] \in NoSlot .. Horizon + 1
  BY DEF IInv, Typed, Marked
<1> QED BY <1>1, <1>2, <1>3

LEMMA MarkStep ==
    ASSUME IInv, NEW lost \in SUBSET Insts, Mark(lost)
    PROVE  IInv'
<1>1. /\ pc = "mark" /\ UNCHANGED <<candles, sync>> /\ (UNCHANGED faults \/ Fault)
      /\ verified' \in [Insts -> NoSlot .. Horizon + 1]
  BY VerifyTyped DEF Mark
<1>2. CASE prog = "sync"
  <2>1. /\ pc' = "refresh"
        /\ UNCHANGED <<now, wq, answer, task, th, phase2, shutdown, launches>>
    BY <1>2 DEF Mark
  <2>2. BufferTypeOK(Fetched)' /\ Saving' /\ Windows' /\ Rounds' /\ Grows /\ Trails'
    BY <1>1, <2>1, MainFrame DEF buffer, phase2
  <2>3. faults' \in 0 .. MaxFaults
    BY <1>1, FaultBound DEF IInv
  <2>4. Controlled' /\ Marked' /\ Worked' /\ Polled'
    BY <1>1, <2>1, <2>3 DEF IInv, Typed, Controlled, Marked, Worked, Polled, task, phase2, Early
  <2>5. Kept'
    BY <1>1, <2>1, <2>2, KeptFrame DEF IInv, phase2
  <2> QED BY <2>2, <2>4, <2>5 DEF IInv, Typed
<1>3. CASE prog # "sync"
  BY <1>1, <1>3, GoneStep DEF Mark
<1> QED BY <1>2, <1>3

LEMMA RefreshStep == IInv /\ Refresh => IInv'
<1> SUFFICES ASSUME IInv, Refresh PROVE IInv'
  OBVIOUS
<1>1. /\ pc = "refresh" /\ sync' = Refreshed(good) /\ pc' = "lag"
      /\ UNCHANGED <<now, buffer, verified, task, th, phase2, shutdown, launches, faults>>
  BY DEF Refresh
<1>2. BufferTypeOK(Fetched)' /\ Saving' /\ Windows' /\ Rounds' /\ Grows /\ Trails'
  BY <1>1, MainFrame DEF phase2
<1>3. sync' \in [Insts -> Slots \cup {NoSlot}] /\ WatermarkIsStored'
  BY <1>1, RefreshedSync DEF IInv, Kept, buffer
<1>4. Controlled' /\ Marked' /\ Worked' /\ Polled'
  BY <1>1, <1>3 DEF IInv, Typed, Controlled, Marked, Worked, Polled, task, phase2, Early
<1>5. Kept'
  BY <1>1, <1>3 DEF IInv, Kept, phase2, buffer
<1> QED BY <1>2, <1>4, <1>5 DEF IInv, Typed

LEMMA CheckLagStep == IInv /\ (CheckLag \/ EndPhase1) => IInv'
<1> SUFFICES ASSUME IInv, CheckLag \/ EndPhase1 PROVE IInv'
  OBVIOUS
<1>1. UNCHANGED faults /\ pc \in {"lag", "detect"}
  BY DEF CheckLag, EndPhase1
<1>2. CASE Phase2
  BY <1>1, <1>2, Phase2Step
<1>3. CASE ~Phase2
  <2>1. /\ pc' = "detect" /\ pc = "lag"
        /\ UNCHANGED <<now, buffer, marks, task, th, phase2, shutdown, launches>>
    BY <1>3 DEF CheckLag, EndPhase1
  <2>2. BufferTypeOK(Fetched)' /\ Saving' /\ Windows' /\ Rounds' /\ Grows /\ Trails'
    BY <2>1, MainFrame DEF phase2
  <2>3. Controlled' /\ Marked' /\ Worked' /\ Polled'
    BY <1>1, <2>1 DEF IInv, Typed, Controlled, Marked, Worked, Polled, marks, task, phase2, Early
  <2>4. Kept'
    BY <2>1, <2>2, KeptFrame DEF IInv, marks, phase2
  <2> QED BY <2>2, <2>3, <2>4 DEF IInv, Typed
<1> QED BY <1>2, <1>3

-----------------------------------------------------------------------------
(* Phase 2: the main thread.                                               *)

\* A step of the rounds, from what it changes.
LEMMA RoundStep ==
    ASSUME IInv, pc # "pool", pc' \in {"round", "tail", "join", "wait", "stop"},
           pc' # "off" => range.start \in Slots,
           UNCHANGED <<now, buffer, marks, task, th, batch, writer, shutdown, launches>>,
           UNCHANGED faults \/ Fault,
           UNCHANGED stopping, idle' \in BOOLEAN, latest' \in [Insts -> Slots \cup {NoSlot}],
           poll' \subseteq Insts, q' \in Seq(Chunk), Rounds'
    PROVE  IInv'
<1>1. BufferTypeOK(Fetched)' /\ Saving' /\ Windows' /\ Grows /\ Trails'
  BY MainFrame
<1>2. faults' \in 0 .. MaxFaults
  BY FaultBound DEF IInv
<1>3. Controlled' /\ Marked' /\ Worked' /\ Polled'
  BY <1>2 DEF IInv, Typed, Controlled, Marked, Worked, Polled, marks, task, Early
<1>4. Kept'
  BY <1>1, KeptFrame DEF IInv, marks
<1> QED BY <1>1, <1>3, <1>4 DEF IInv, Typed

LEMMA PhaseTypes ==
    ASSUME IInv
    PROVE  /\ idle \in BOOLEAN /\ latest \in [Insts -> Slots \cup {NoSlot}] /\ poll \subseteq Insts
           /\ sync \in [Insts -> Slots \cup {NoSlot}]
           /\ q \in Seq(Chunk)
           /\ pc # "off" => range.start \in Slots
BY DEF IInv, Typed, Controlled, Marked, Polled

LEMMA StartRoundStep == IInv /\ StartRound => IInv'
<1> SUFFICES ASSUME IInv, StartRound PROVE IInv'
  OBVIOUS
<1>1. Rounds'
  BY NoStop DEF StartRound
<1> QED BY <1>1, PhaseTypes, RoundStep DEF StartRound

LEMMA QueueTailStep ==
    ASSUME IInv, NEW i \in Insts, NEW available \in Views, QueueTail(i, available)
    PROVE  IInv'
<1> DEFINE rows == NewRows(i, available)
           it == [inst |-> i, rows |-> rows]
<1>1. /\ pc = "tail" /\ pc' = "tail" /\ poll' = poll \ {i}
      /\ UNCHANGED <<now, buffer, marks, task, pc, th, batch, writer, stopping, idle, latest,
                     shutdown, launches, faults>>
      /\ UNCHANGED q \/ (rows # {} /\ q' = Append(q, it))
  BY DEF QueueTail
<1>2. rows \subseteq Fetched
  BY ViewsFetched DEF NewRows, Newest
<1>3. it \in Chunk /\ (rows # {} => it # Stop)
  BY <1>2 DEF Chunk, Stop
<1>4. poll' \subseteq Insts
  BY <1>1, PhaseTypes
<1> HIDE DEF rows, it
<1>5. CASE UNCHANGED q
  <2>1. Rounds'
    BY <1>1, <1>5, NoStop
  <2> QED BY <1>1, <1>4, <1>5, <2>1, PhaseTypes, RoundStep
<1>6. CASE rows # {} /\ q' = Append(q, it)
  <2>1. q' \in Seq(Chunk) /\ \A k \in DOMAIN q' : q'[k] = it \/ \E l \in DOMAIN q : q'[k] = q[l]
    BY <1>3, <1>6, PhaseTypes
  <2>2. Rounds'
    BY <1>1, <1>3, <1>6, <2>1 DEF IInv, Rounds
  <2> QED BY <1>1, <1>4, <2>1, <2>2, PhaseTypes, RoundStep
<1> QED BY <1>1, <1>5, <1>6

LEMMA TailFailsStep ==
    ASSUME IInv, NEW i \in Insts, TailFails(i)
    PROVE  IInv'
<1>1. Rounds'
  BY NoStop DEF TailFails
<1>2. poll' \subseteq Insts
  BY PhaseTypes DEF TailFails
<1> QED BY <1>1, <1>2, PhaseTypes, RoundStep DEF TailFails

LEMMA RoundFetchedStep == IInv /\ RoundFetched => IInv'
<1> SUFFICES ASSUME IInv, RoundFetched PROVE IInv'
  OBVIOUS
<1>1. Rounds'
  BY NoStop DEF RoundFetched
<1> QED BY <1>1, PhaseTypes, RoundStep DEF RoundFetched

LEMMA JoinStep == IInv /\ Join => IInv'
<1> SUFFICES ASSUME IInv, Join PROVE IInv'
  OBVIOUS
<1>1. Rounds'
  BY NoStop DEF Join, phase2
<1> QED BY <1>1, PhaseTypes, RoundStep DEF Join, phase2

LEMMA EndRoundStep == IInv /\ EndRound => IInv'
<1> SUFFICES ASSUME IInv, EndRound PROVE IInv'
  OBVIOUS
<1>1. Rounds'
  BY NoStop DEF EndRound
<1>2. latest' \in [Insts -> Slots \cup {NoSlot}]
  BY DEF EndRound
<1> QED BY <1>1, <1>2, PhaseTypes, RoundStep DEF EndRound

LEMMA EndPhase2Step == IInv /\ EndPhase2 => IInv'
<1> SUFFICES ASSUME IInv, EndPhase2 PROVE IInv'
  OBVIOUS
<1>1. q' \in Seq(Chunk)
  BY PhaseTypes, RestingTyped DEF EndPhase2
<1>2. Rounds'
  <2>1. q' # <<>> /\ q'[Len(q')] = Stop
    BY PhaseTypes, RestingTyped DEF EndPhase2
  <2> QED BY <2>1 DEF EndPhase2, IInv, Rounds
<1> QED BY <1>1, <1>2, PhaseTypes, RoundStep DEF EndPhase2

-----------------------------------------------------------------------------
(* Phase 2: the writer thread.                                             *)

\* A step of the writer, from what it changes.
LEMMA WriterStep ==
    ASSUME IInv, UNCHANGED <<now, wq, answer, verified, task, pc, th, latest, poll, shutdown, launches>>,
           UNCHANGED faults \/ Fault, Grows,
           sync' \in [Insts -> Slots \cup {NoSlot}], q' \in Seq(Chunk),
           batch' \in [Insts -> SUBSET Fetched], stopping' \in BOOLEAN, idle' \in BOOLEAN,
           writer' \in {"off", "loop", "insert", "upsert", "test", "set", "dead"}, Kept', Rounds',
           writer # "off" \/ stopping
    PROVE  IInv'
<1>5. pc \notin Early
  BY DEF IInv, Typed, Controlled, Rounds, Early
<1>1. faults' \in 0 .. MaxFaults
  BY FaultBound DEF IInv
<1>2. Typed'
  BY <1>1, <1>5 DEF IInv, Typed, Controlled, Marked, Worked, Polled, BufferTypeOK, Grows, task
<1>3. Saving'
  BY SavingFrame DEF IInv
<1>4. Windows'
  BY <1>5, Elsewhere DEF Early
<1>6. Trails'
  <2>1. now \in Int
    BY DEF IInv, Typed, Controlled, Slots
  <2> QED BY <2>1, TrailsFrame DEF IInv, task
<1> QED BY <1>2, <1>3, <1>4, <1>6 DEF IInv

LEMMA WriterTypes ==
    ASSUME IInv
    PROVE  /\ sync \in [Insts -> Slots \cup {NoSlot}] /\ q \in Seq(Chunk)
           /\ batch \in [Insts -> SUBSET Fetched] /\ stopping \in BOOLEAN /\ idle \in BOOLEAN
           /\ writer \in {"off", "loop", "insert", "upsert", "test", "set", "dead"}
           /\ UNCHANGED candles => Grows
BY SameTable DEF IInv, Typed, Controlled, Marked, Polled

LEMMA WriterTakesStep == IInv /\ WriterTakes => IInv'
<1> SUFFICES ASSUME IInv, WriterTakes PROVE IInv'
  OBVIOUS
<1> DEFINE it == Head(q)
<1>1. /\ writer = "loop" /\ q # <<>> /\ ~stopping
      /\ q' = Tail(q)
      /\ batch' = [batch EXCEPT ![it.inst] = @ \cup it.rows]
      /\ stopping' = (it = Stop)
      /\ writer' \in {"off", "insert", "loop"}
      /\ writer' = "off" => it = Stop /\ batch = Empty
      /\ UNCHANGED <<now, buffer, marks, task, pc, th, idle, latest, poll, shutdown, launches, faults>>
  BY DEF WriterTakes
<1>2. /\ q \in Seq(Chunk) /\ it \in Chunk /\ q' \in Seq(Chunk)
      /\ it = q[1] /\ 1 \in DOMAIN q
      /\ \A k \in DOMAIN q' : q'[k] = q[k + 1] /\ k + 1 \in DOMAIN q
  BY <1>1, WriterTypes
<1>3. batch' \in [Insts -> SUBSET Fetched]
  BY <1>1, <1>2, WriterTypes DEF Chunk
<1>4. Kept'
  BY <1>1, KeptFrame, WriterTypes DEF buffer, marks, Kept, IInv, WatermarkIsStored
<1>5. Rounds'
  <2>0. Len(q') = Len(q) - 1 /\ Len(q) \in Nat /\ (q' # <<>> => Len(q') \in DOMAIN q')
    BY <1>1, <1>2
  <2>1. q' = <<>> => Len(q) = 1
    BY <1>2, <2>0
  <2>2. q' # <<>> => q'[Len(q')] = q[Len(q)]
    <3>1. q' # <<>> => q'[Len(q')] = q[Len(q') + 1]
      BY <1>2, <2>0
    <3>2. Len(q') + 1 = Len(q)
      BY <2>0
    <3> QED BY <3>1, <3>2
  <2>3. writer' = "off" => batch' = Empty
    <3>1. writer' = "off" => batch' = batch
      BY <1>1, <1>3, WriterTypes DEF Stop
    <3> QED BY <1>1, <3>1
  <2> QED BY <1>1, <1>2, <2>1, <2>2, <2>3 DEF IInv, Rounds
<1> QED BY <1>1, <1>2, <1>3, <1>4, <1>5, WriterTypes, WriterStep DEF buffer, marks

LEMMA WriterIdlesStep == IInv /\ (WriterIdles \/ WriterTests \/ WriterReports) => IInv'
<1> SUFFICES ASSUME IInv, WriterIdles \/ WriterTests \/ WriterReports PROVE IInv'
  OBVIOUS
<1>1. /\ writer \in {"loop", "test", "set"} /\ writer' \in {"insert", "test", "set", "loop"}
      /\ idle' \in {idle, TRUE}
      /\ UNCHANGED <<now, buffer, marks, task, pc, th, q, batch, stopping, latest, poll, shutdown,
                     launches, faults>>
  BY DEF WriterIdles, WriterTests, WriterReports
<1>2. Kept'
  BY <1>1, KeptFrame, WriterTypes DEF buffer, marks, IInv
<1>3. Rounds'
  BY <1>1 DEF IInv, Rounds
<1>4. writer' \in {"off", "loop", "insert", "upsert", "test", "set", "dead"} /\ idle' \in BOOLEAN
  BY <1>1, WriterTypes
<1> QED BY <1>1, <1>2, <1>3, <1>4, WriterTypes, WriterStep DEF buffer, marks

LEMMA WriterInsertsStep == IInv /\ WriterInserts => IInv'
<1> SUFFICES ASSUME IInv, WriterInserts PROVE IInv'
  OBVIOUS
<1>1. /\ writer = "insert" /\ writer' = "upsert"
      /\ candles' = [i \in Insts |-> candles[i] \cup batch[i]]
      /\ UNCHANGED <<now, wq, answer, marks, task, pc, th, q, batch, stopping, idle, latest, poll,
                     shutdown, launches, faults>>
  BY DEF WriterInserts
<1>2. Grows
  BY <1>1, WriterTypes DEF Grows, IInv, Typed, BufferTypeOK
<1>3. Kept'
  BY <1>1, <1>2 DEF IInv, Kept, WatermarkIsStored, Grows, marks
<1>4. Rounds'
  BY <1>1 DEF IInv, Rounds
<1> QED BY <1>1, <1>2, <1>3, <1>4, WriterTypes, WriterStep DEF marks

LEMMA WriterUpsertsStep == IInv /\ WriterUpserts => IInv'
<1> SUFFICES ASSUME IInv, WriterUpserts PROVE IInv'
  OBVIOUS
<1>1. /\ writer = "upsert"
      /\ sync' = [i \in Insts |-> Max(batch[i] \cup {sync[i]})]
      /\ batch' = Empty
      /\ writer' = IF stopping THEN "off" ELSE "test"
      /\ UNCHANGED <<now, buffer, verified, task, pc, th, q, stopping, idle, latest, poll, shutdown,
                     launches, faults>>
  BY DEF WriterUpserts
<1>2. \A i \in Insts : /\ sync'[i] \in Slots \cup {NoSlot}
                       /\ sync'[i] # NoSlot => sync'[i] \in candles[i]
  <2> TAKE i \in Insts
  <2>1. batch[i] \in SUBSET Slots /\ sync[i] \in Slots \cup {NoSlot}
    BY WriterTypes, FetchedSlots
  <2>2. sync'[i] \in batch[i] \cup {sync[i]}
    BY <1>1, <2>1, NewestSlot
  <2> QED BY <1>1, <2>1, <2>2 DEF IInv, Kept, WatermarkIsStored
<1>3. sync' \in [Insts -> Slots \cup {NoSlot}]
  <2>1. sync' = [i \in Insts |-> sync'[i]]
    BY <1>1
  <2> QED BY <1>2, <2>1
<1>4. Kept'
  BY <1>1, <1>2 DEF Kept, WatermarkIsStored, buffer
<1>5. Rounds'
  BY <1>1 DEF IInv, Rounds
<1>6. writer' \in {"off", "loop", "insert", "upsert", "test", "set", "dead"} /\ idle' \in BOOLEAN
  BY <1>1, WriterTypes
<1> QED BY <1>1, <1>3, <1>4, <1>5, <1>6, WriterTypes, EmptyTyped, WriterStep DEF buffer

LEMMA WriterEndsStep == IInv /\ (WriterEnds \/ WriterDies) => IInv'
<1> SUFFICES ASSUME IInv, WriterEnds \/ WriterDies PROVE IInv'
  OBVIOUS
<1>1. CASE WriterEnds
  <2>1. Kept'
    BY <1>1, KeptFrame, WriterTypes DEF WriterEnds, buffer, marks, IInv
  <2>2. Rounds'
    BY <1>1 DEF WriterEnds, IInv, Rounds
  <2> QED BY <1>1, <2>1, <2>2, WriterTypes, WriterStep DEF WriterEnds, buffer, marks
<1>2. CASE WriterDies
  <2>1. Kept'
    BY <1>2, KeptFrame, WriterTypes DEF WriterDies, buffer, marks, IInv
  <2>2. Rounds'
    BY <1>2 DEF WriterDies, IInv, Rounds
  <2> QED BY <1>2, <2>1, <2>2, WriterTypes, WriterStep DEF WriterDies, buffer, marks
<1> QED BY <1>1, <1>2
-----------------------------------------------------------------------------
(* The specification.                                                      *)

LEMMA InitIInv == Init => IInv
<1> SUFFICES ASSUME Init PROVE IInv
  OBVIOUS
<1>1. \A t \in Threads : th[t] = Resting /\ answer[t] = "none"
  BY DEF Init, BufferInit
<1>2. Controlled /\ Marked
  <2>1. range \in [start : Slots \cup {NoSlot}, end : Ends]
    <3>1. range = [start |-> NoSlot, end |-> 0] /\ 0 \in Ends /\ NoSlot \in Slots \cup {NoSlot}
      BY DEF Init, Ends
    <3> QED BY <3>1
  <2>2. NoSlot \in NoSlot .. Horizon + 1
    BY DEF NoSlot
  <2>3. Since \in Slots /\ 0 \in 0 .. MaxAttempts /\ 0 \in 0 .. MaxLaunches /\ 0 \in 0 .. MaxFaults
    BY DEF Slots
  <2> QED BY <2>1, <2>2, <2>3 DEF Init, Controlled, Marked
<1>3. Worked
  BY RestingTyped, EmptyTyped DEF Init, Worked
<1>4. Polled /\ BufferTypeOK(Fetched)
  BY EmptyTyped DEF Init, Polled, BufferTypeOK, BufferInit
<1>5. Saving
  BY <1>1 DEF Init, Saving, PutIsDurable, BufferInit, Resting
<1>6. Kept /\ Rounds
  BY DEF Init, Kept, WatermarkIsStored, Rounds
<1>7. Windows
  BY <1>1 DEF Init, Windows, Busy, Resting
<1>8. Trails
  <2>1. range.end = 0 /\ now \in Nat /\ wq = <<>>
    BY DEF Init, BufferInit
  <2>2. 0 <= now + 1
    BY <2>1
  <2> QED BY <1>1, <2>1, <2>2 DEF Init, Trails, Busy, Resting
<1> QED BY <1>2, <1>3, <1>4, <1>5, <1>6, <1>7, <1>8 DEF IInv, Typed

LEMMA NothingStep == IInv /\ UNCHANGED vars => IInv'
<1> SUFFICES ASSUME IInv, UNCHANGED vars PROVE IInv'
  OBVIOUS
<1>1. UNCHANGED <<now, buffer, marks, task, pc, th, phase2, shutdown, launches, faults>>
  BY DEF vars
<1>2. Grows /\ InOrder
  BY <1>1, SameTable DEF IInv, buffer
<1>3. Typed'
  BY <1>1 DEF IInv, Typed, Controlled, Marked, Worked, Polled, BufferTypeOK, buffer, marks, task, phase2
<1>4. Saving'
  BY <1>1, <1>2, SavingFrame DEF IInv, buffer
<1>5. Kept'
  BY <1>1, <1>2, KeptFrame DEF IInv, marks, phase2
<1>6. Rounds'
  BY <1>1, RoundsFrame DEF IInv, phase2
<1>7. Windows'
  BY <1>1, <1>2, WindowsFrame DEF IInv, task, marks
<1>8. Trails'
  <2>1. now \in Int
    BY DEF IInv, Typed, Controlled, Slots
  <2> QED BY <1>1, <1>2, <2>1, TrailsFrame DEF IInv, task, buffer
<1> QED BY <1>3, <1>4, <1>5, <1>6, <1>7, <1>8 DEF IInv

LEMMA DownloadStep ==
    ASSUME IInv, NEW t \in Threads, Download(t)
    PROVE  IInv'
<1>1. CASE \E w \in todo : Take(t, w)
  BY <1>1, TakeStep
<1>2. CASE \E available \in Views : LastPage(t, available)
  BY <1>2, LastPageStep
<1>3. CASE \E available \in Views : FetchPage(t, available)
  BY <1>3, FetchPageStep
<1>4. CASE Saved(t)
  BY <1>4, SavedStep
<1>5. CASE FetchFails(t) \/ SaveFails(t)
  BY <1>5, FailsStep
<1> QED BY <1>1, <1>2, <1>3, <1>4, <1>5 DEF Download

LEMMA MainStep == IInv /\ Main => IInv'
<1> SUFFICES ASSUME IInv, Main PROVE IInv'
  OBVIOUS
<1>1. CASE \E bad \in SUBSET Insts : DetectSync(bad)
  BY <1>1, DetectSyncStep
<1>2. CASE \E i \in Insts : DetectBackfill(i)
  BY <1>2, DetectBackfillStep
<1>3. CASE EndPhase1 \/ CheckLag
  BY <1>3, CheckLagStep
<1>4. CASE PoolDone \/ Refresh \/ RefreshFails \/ Exit
  BY <1>4, PoolDoneStep, RefreshStep, KillStep
<1>5. CASE \E lost \in SUBSET Insts : Mark(lost)
  BY <1>5, MarkStep
<1>6. CASE StartRound \/ RoundFetched \/ Join \/ EndRound \/ EndPhase2
  BY <1>6, StartRoundStep, RoundFetchedStep, JoinStep, EndRoundStep, EndPhase2Step
<1>7. CASE \E i \in Insts : TailFails(i)
  BY <1>7, TailFailsStep
<1>8. CASE \E i \in Insts : \E available \in Views : QueueTail(i, available)
  BY <1>8, QueueTailStep
<1> QED BY <1>1, <1>2, <1>3, <1>4, <1>5, <1>6, <1>7, <1>8 DEF Main

LEMMA StepIInv == IInv /\ [Next]_vars => IInv'
<1> SUFFICES ASSUME IInv, [Next]_vars PROVE IInv'
  OBVIOUS
<1>1. CASE Tick \/ Signal \/ Kill
  BY <1>1, ClockSteps, KillStep
<1>2. CASE \E start \in Starts, skip \in BOOLEAN : LaunchSync(start, skip)
  BY <1>2, LaunchSyncStep
<1>3. CASE \E start \in Starts, end \in 1 .. now + 1 : LaunchBackfill(start, end)
  BY <1>3, LaunchBackfillStep
<1>4. CASE Main
  BY <1>4, MainStep
<1>5. CASE Writer \/ WriterDies
  BY <1>5, WriterTakesStep, WriterIdlesStep, WriterInsertsStep, WriterUpsertsStep, WriterEndsStep
     DEF Writer
<1>6. CASE BufferStep
  BY <1>6, BufferSteps
<1>7. CASE \E t \in Threads : Download(t)
  BY <1>7, DownloadStep
<1>8. CASE UNCHANGED vars
  BY <1>8, NothingStep
<1> QED BY <1>1, <1>2, <1>3, <1>4, <1>5, <1>6, <1>7, <1>8 DEF Next

\* The inductive invariant holds in every reachable state.
THEOREM Invariance == Spec => []IInv
<1> QED BY InitIInv, StepIInv, PTL DEF Spec
LEMMA TypedIsTypeOK == IInv => TypeOK
<1> SUFFICES ASSUME IInv PROVE TypeOK
  OBVIOUS
<1>1. \A x : x \in Fetched => x \in Slots
  BY FetchedSlots
<1>2. BufferTypeOK(Slots)
  <2>1. candles \in [Insts -> SUBSET Slots]
    BY <1>1 DEF IInv, Typed, BufferTypeOK
  <2>2. Item \subseteq [owner : Threads \cup {Nobody}, inst : Insts, rows : SUBSET Slots]
    BY <1>1 DEF Item
  <2>3. wq \in Seq([owner : Threads \cup {Nobody}, inst : Insts, rows : SUBSET Slots])
    BY <2>2, SeqMonotonic DEF IInv, Typed, BufferTypeOK, Item
  <2> QED BY <2>1, <2>3 DEF IInv, Typed, BufferTypeOK
<1>3. q \in Seq([inst : Insts, rows : SUBSET Slots]) /\ batch \in [Insts -> SUBSET Slots]
  <2>1. q \in Seq(Chunk) /\ batch \in [Insts -> SUBSET Fetched]
    BY DEF IInv, Typed, Polled
  <2>2. Chunk \subseteq [inst : Insts, rows : SUBSET Slots]
    BY <1>1 DEF Chunk
  <2>3. batch \in [Insts -> SUBSET Slots]
    BY <2>1, <1>1
  <2> QED BY <2>1, <2>2, <2>3, SeqMonotonic
<1>4. th \in [Threads -> [pc : {"idle", "page", "saving", "closing"}, inst : Insts,
                          from : Slots, to : 0 .. Horizon + 1, after : 0 .. Horizon + 1,
                          rows : SUBSET Slots, had : BOOLEAN]]
  <2>1. th \in [Threads -> Worker]
    BY DEF IInv, Typed, Worked
  <2> QED BY <2>1, <1>1 DEF Worker, Ends
<1>5. /\ wins \in [Insts -> SUBSET [from : Slots, to : 0 .. Horizon + 1]]
      /\ todo \subseteq [inst : Insts, from : Slots, to : 0 .. Horizon + 1]
      /\ good \subseteq Insts /\ poll \subseteq Insts
  BY DEF IInv, Typed, Worked, Polled, Ends
<1>6. Controlled /\ Marked
  BY DEF IInv, Typed
<1> QED BY <1>2, <1>3, <1>4, <1>5, <1>6 DEF TypeOK, Controlled, Marked, Ends

\* Every variable has its type.
THEOREM TypeCorrect == Spec => []TypeOK
<1> QED BY Invariance, TypedIsTypeOK, PTL

\* sync_state names only candles that are in the table, for any failure and any
\* kill between the insert of a batch and the update of its watermark.
THEOREM WatermarksAreStored == Spec => []WatermarkIsStored
<1>1. IInv => WatermarkIsStored
  BY DEF IInv, Kept
<1> QED BY <1>1, Invariance, PTL

\* A put of the write buffer that returns normally has stored the rows of its
\* caller, in whatever order items are merged, fail and time out.
THEOREM PutsAreDurable == Spec => []PutIsDurable
<1>1. IInv => PutIsDurable
  BY DEF IInv, Saving
<1> QED BY <1>1, Invariance, PTL

\* What waits in the queue and the batch stays there until it is in the table,
\* unless the process goes.
LEMMA SameWaiting ==
    ASSUME UNCHANGED <<q, batch>>, NEW i \in Insts
    PROVE  Waiting(i)' = Waiting(i)
BY DEF Waiting

LEMMA MoreWaiting ==
    ASSUME IInv, NEW it \in Chunk, q' = Append(q, it), UNCHANGED batch, NEW i \in Insts
    PROVE  Waiting(i) \subseteq Waiting(i)'
<1>1. q \in Seq(Chunk)
  BY PhaseTypes
<1>2. \A k \in DOMAIN q : k \in DOMAIN q' /\ q'[k] = q[k]
  BY <1>1
<1>3. Range(q) \subseteq Range(q')
  BY <1>2 DEF Range
<1> QED BY <1>3 DEF Waiting

LEMMA TakenWaiting ==
    ASSUME IInv, WriterTakes, NEW i \in Insts
    PROVE  Waiting(i) \subseteq Waiting(i)'
<1> DEFINE it == Head(q)
<1>1. q # <<>> /\ q' = Tail(q) /\ batch' = [batch EXCEPT ![it.inst] = @ \cup it.rows]
  BY DEF WriterTakes
<1>2. q \in Seq(Chunk) /\ it \in Chunk /\ batch \in [Insts -> SUBSET Fetched]
  BY <1>1, WriterTypes
<1>5. \A k \in DOMAIN q : k # 1 => k - 1 \in DOMAIN q' /\ q'[k - 1] = q[k]
  BY <1>1, <1>2
<1>6. q[1] = it
  BY <1>1, <1>2
<1>3. Range(q) \subseteq Range(q') \cup {it}
  <2> HIDE DEF it
  <2> QED BY <1>5, <1>6 DEF Range
<1>4. batch[i] \subseteq batch'[i] /\ (it.inst = i => it.rows \subseteq batch'[i])
  BY <1>1, <1>2 DEF Chunk
<1> HIDE DEF it
<1> QED BY <1>3, <1>4 DEF Waiting

LEMMA UpsertedWaiting ==
    ASSUME IInv, WriterUpserts, NEW i \in Insts
    PROVE  Waiting(i) \subseteq candles'[i] \cup Waiting(i)'
<1>1. batch[i] \subseteq candles[i] /\ UNCHANGED <<q, candles>>
  BY DEF WriterUpserts, IInv, Kept, buffer
<1> QED BY <1>1 DEF Waiting

\* A process that ends by itself in phase 2 has been through its last join.
LEMMA GoneWaiting ==
    ASSUME IInv, pc = "stop", Joined, NEW i \in Insts
    PROVE  Waiting(i) = {}
<1>1. q = <<>> /\ batch = Empty
  BY DEF IInv, Rounds, Joined
<1>2. Range(q) = {}
  BY <1>1 DEF Range
<1> QED BY <1>1, <1>2 DEF Waiting, Empty

LEMMA StepWaiting ==
    ASSUME IInv, [Next]_vars, NEW i \in Insts
    PROVE  Waiting(i) \subseteq candles'[i] \cup Waiting(i)' \/ (Gone /\ pc' = "off")
<1>1. ASSUME NEW t \in Threads, Download(t) PROVE Gone \/ UNCHANGED <<q, batch>>
  BY <1>1 DEF Download, Take, LastPage, FetchPage, FetchFails, Saved, SaveFails, TaskFails, phase2
<1>2. CASE Tick \/ Signal \/ BufferStep
  <2>1. UNCHANGED <<q, batch>>
    BY <1>2 DEF Tick, Signal, BufferStep, phase2
  <2> QED BY <2>1, SameWaiting
<1>3. CASE Kill
  BY <1>3 DEF Kill, Gone
<1>4. CASE \E start \in Starts, skip \in BOOLEAN : LaunchSync(start, skip)
  <2>1. UNCHANGED <<q, batch>>
    BY <1>4 DEF LaunchSync
  <2> QED BY <2>1, SameWaiting
<1>5. CASE \E start \in Starts, end \in 1 .. now + 1 : LaunchBackfill(start, end)
  <2>1. UNCHANGED <<q, batch>>
    BY <1>5 DEF LaunchBackfill, phase2
  <2> QED BY <2>1, SameWaiting
<1>6. CASE Main
  <2>1. CASE \E j \in Insts : \E available \in Views : QueueTail(j, available)
    <3>1. PICK j \in Insts, available \in Views : QueueTail(j, available)
      BY <2>1
    <3>2. [inst |-> j, rows |-> NewRows(j, available)] \in Chunk
      BY ViewsFetched DEF NewRows, Newest, Chunk
    <3>3. UNCHANGED batch /\ (UNCHANGED q \/
                             q' = Append(q, [inst |-> j, rows |-> NewRows(j, available)]))
      BY <3>1 DEF QueueTail
    <3> QED BY <3>2, <3>3, SameWaiting, MoreWaiting
  <2>2. CASE EndPhase2
    BY <2>2, RestingTyped, MoreWaiting DEF EndPhase2
  <2>3. CASE ~EndPhase2 /\ ~(\E j \in Insts : \E available \in Views : QueueTail(j, available))
    <3>1. Gone \/ UNCHANGED <<q, batch>>
      BY <1>6, <2>3 DEF Main, DetectSync, DetectBackfill, EndPhase1, Phase2, PoolDone, Mark, Refresh,
         RefreshFails, CheckLag, StartRound, TailFails, RoundFetched, Join, EndRound, Exit, phase2
    <3> QED BY <3>1, SameWaiting DEF Gone
  <2> QED BY <2>1, <2>2, <2>3
<1>7. CASE Writer \/ WriterDies
  <2>1. CASE WriterIdles \/ WriterTests \/ WriterReports \/ WriterInserts \/ WriterEnds \/ WriterDies
    <3>1. UNCHANGED <<q, batch>>
      BY <2>1 DEF WriterIdles, WriterTests, WriterReports, WriterInserts, WriterEnds, WriterDies
    <3> QED BY <3>1, SameWaiting
  <2> QED BY <1>7, <2>1, TakenWaiting, UpsertedWaiting DEF Writer
<1>8. CASE \E t \in Threads : Download(t)
  BY <1>1, <1>8, SameWaiting DEF Gone
<1>9. CASE UNCHANGED vars
  <2>1. UNCHANGED <<q, batch>>
    BY <1>9 DEF vars, phase2
  <2> QED BY <2>1, SameWaiting
<1> QED BY <1>2, <1>3, <1>4, <1>5, <1>6, <1>7, <1>8, <1>9 DEF Next

\* No row of phase 2 is lost while its process runs, whatever fails; and when it
\* ends by itself every row is in the table.
THEOREM StopsAreFlushed == Spec => StopMeansStored
<1> DEFINE Step == \A i \in Insts :
                     \/ Waiting(i) \subseteq candles'[i] \cup Waiting(i)'
                     \/ pc' = "off" /\ ~(pc = "stop" /\ Joined)
<1>1. IInv /\ [Next]_vars => [Step]_vars
  <2> SUFFICES ASSUME IInv, [Next]_vars, NEW i \in Insts
               PROVE  \/ Waiting(i) \subseteq candles'[i] \cup Waiting(i)'
                      \/ pc' = "off" /\ ~(pc = "stop" /\ Joined)
    OBVIOUS
  <2> QED BY StepWaiting, GoneWaiting
<1>2. Spec => [][Next]_vars
  BY DEF Spec
<1> QED BY <1>1, <1>2, Invariance, PTL DEF StopMeansStored

\* A verified watermark moves in the step that records a pass, and no other.
LEMMA OnlyMarkVerifies ==
    ASSUME [Next]_vars, verified' # verified
    PROVE  \E lost \in SUBSET Insts : Mark(lost)
<1>1. ASSUME NEW t \in Threads, Download(t) PROVE UNCHANGED verified
  <2>1. TaskFails(t) => UNCHANGED verified
    BY DEF TaskFails, marks
  <2>2. CASE FetchFails(t) \/ SaveFails(t)
    BY <2>1, <2>2 DEF FetchFails, SaveFails
  <2>3. \A w : Take(t, w) => UNCHANGED verified
    BY DEF Take, marks
  <2>4. \A available : LastPage(t, available) => UNCHANGED verified
    BY DEF LastPage, marks
  <2>5. \A available : FetchPage(t, available) => UNCHANGED verified
    BY DEF FetchPage, marks
  <2>6. Saved(t) => UNCHANGED verified
    BY DEF Saved, marks
  <2> QED BY <1>1, <2>2, <2>3, <2>4, <2>5, <2>6 DEF Download
<1>2. Writer \/ WriterDies => UNCHANGED verified
  BY DEF Writer, WriterTakes, WriterIdles, WriterTests, WriterReports, WriterInserts, WriterUpserts,
         WriterEnds, WriterDies, marks
<1>3. Tick \/ Signal \/ Kill \/ BufferStep => UNCHANGED verified
  BY DEF Tick, Signal, Kill, BufferStep, marks
<1>4. \A start, skip : LaunchSync(start, skip) => UNCHANGED verified
  BY DEF LaunchSync
<1>5. \A start, end : LaunchBackfill(start, end) => UNCHANGED verified
  BY DEF LaunchBackfill, marks
<1>6. Main => UNCHANGED verified \/ \E lost \in SUBSET Insts : Mark(lost)
  BY DEF marks, Main, DetectSync, DetectBackfill, EndPhase1, Phase2, PoolDone, Refresh, RefreshFails,
         CheckLag, StartRound, TailFails, QueueTail, RoundFetched, Join, EndRound, EndPhase2, Exit
<1> QED BY <1>1, <1>2, <1>3, <1>4, <1>5, <1>6 DEF Next, vars, marks

\* A candle that is missing below the new watermark is one of the first day, older
\* than any that is stored.
LEMMA MarkIsChecked ==
    ASSUME IInv, NEW lost \in SUBSET Insts, Mark(lost), NEW i \in Insts, verified'[i] > verified[i],
           NEW s \in CheckFrom(range.start, verified[i]) .. verified'[i] - 1
    PROVE  \/ s \in candles[i]
           \/ /\ DayOf(s) = DayOf(CheckFrom(range.start, verified[i]))
              /\ (CheckFrom(range.start, verified[i]) .. s) \cap candles[i] = {}
<1> DEFINE from == CheckFrom(range.start, verified[i])
           upto == VerifiedUpto(wins[i], range.end)
<1>1. verified[i] \in Int /\ verified'[i] \in Int /\ range.start \in Int
  BY VerifyTyped DEF Mark, IInv, Typed, Controlled, Marked, Slots, NoSlot
<1>2. i \in good /\ verified'[i] = upto
  BY <1>1 DEF Mark, Verify
<1>3. Checked(i)
  BY <1>2 DEF Mark, IInv, Windows
<1>4. from \in Int
  BY <1>1, CheckedSlot
<1>5. s \in Int /\ from <= s /\ s < upto
  <2> HIDE DEF from, upto
  <2> QED BY <1>1, <1>2, <1>4 DEF from
<1> QED BY <1>3, <1>5 DEF Checked, FirstHead

\* The verified watermark moves over no hole of the range that was checked, but
\* for the head of its first day, whatever was fetched, merged, lost or killed.
THEOREM AdvancesAreChecked == Spec => AdvanceIsChecked
<1> DEFINE Step == \A i \in Insts :
                     LET from == CheckFrom(range.start, verified[i])
                     IN  verified'[i] > verified[i] =>
                           \A s \in from .. verified'[i] - 1 :
                              \/ s \in candles[i]
                              \/ DayOf(s) = DayOf(from) /\ (from .. s) \cap candles[i] = {}
<1>1. IInv /\ [Next]_vars => [Step]_vars
  <2> SUFFICES ASSUME IInv, [Next]_vars, NEW i \in Insts, verified'[i] > verified[i],
                      NEW s \in CheckFrom(range.start, verified[i]) .. verified'[i] - 1
               PROVE  \/ s \in candles[i]
                      \/ /\ DayOf(s) = DayOf(CheckFrom(range.start, verified[i]))
                         /\ (CheckFrom(range.start, verified[i]) .. s) \cap candles[i] = {}
    OBVIOUS
  <2>1. verified[i] \in Int
    BY DEF IInv, Typed, Marked, NoSlot
  <2>2. verified' # verified
    BY <2>1
  <2> QED BY <2>2, OnlyMarkVerifies, MarkIsChecked
<1>2. Spec => [][Next]_vars
  BY DEF Spec
<1> QED BY <1>1, <1>2, Invariance, PTL DEF AdvanceIsChecked
=============================================================================
