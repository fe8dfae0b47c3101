-------------------------- MODULE RestClient_proofs --------------------------
(***************************************************************************)
(* Proofs about RestClient, for any number of threads, proxies and nodes    *)
(* and any durations: what keeps the slots of a proxy apart, what a         *)
(* build of a pool that fails leaves of Merge.yaml, and how far attempts,   *)
(* rates, queues and sleeps can go.                                         *)
(***************************************************************************)
EXTENDS RestClient, FiniteSetTheorems, WellFoundedInduction, TLAPS

-----------------------------------------------------------------------------
(* The pauses: Power2 is a recursive function, and what it returns is       *)
(* proved by the least argument that were an exception.                     *)

\* A set of naturals has a least element.
LEMMA LeastOf ==
    ASSUME NEW S \in SUBSET Nat, S # {}
    PROVE  Min(S) \in S /\ \A x \in S : Min(S) <= x
<1>1. \E x \in S : \A y \in S : ~ (<<y, x>> \in OpToRel(<, Nat))
  BY WFMin, NatLessThanWellFounded
<1>2. PICK x \in S : \A y \in S : ~ (y < x)
  BY <1>1 DEF OpToRel
<1>3. \A y \in S : x <= y
  BY <1>2
<1> QED BY <1>3 DEF Min

\* A table of the powers up to n.
Table(n, f) == f \in [0 .. n -> Nat] /\ \A i \in 0 .. n : f[i] = IF i = 0 THEN 1 ELSE 2 * f[i - 1]

\* There is a table of the powers up to any number.
LEMMA TablesExist == \A n \in Nat : \E f : Table(n, f)
<1> DEFINE Bad == {n \in Nat : ~ \E f : Table(n, f)}
<1> SUFFICES ASSUME Bad # {} PROVE FALSE
  OBVIOUS
<1>1. PICK n \in Bad : \A m \in Bad : n <= m
  <2> HIDE DEF Bad
  <2>1. Bad \in SUBSET Nat
    BY DEF Bad
  <2> QED BY <2>1, LeastOf
<1>2. n # 0
  <2>1. Table(0, [i \in 0 .. 0 |-> 1])
    BY DEF Table
  <2> QED BY <2>1, <1>1
<1>3. n - 1 \in Nat /\ n - 1 \notin Bad
  BY <1>1, <1>2
<1>4. PICK f : Table(n - 1, f)
  BY <1>3
<1>5. Table(n, [i \in 0 .. n |-> IF i = n THEN 2 * f[n - 1] ELSE f[i]])
  BY <1>1, <1>2, <1>3, <1>4 DEF Table
<1> QED BY <1>1, <1>5

\* Two tables agree where both have an entry.
LEMMA TablesAgree ==
    \A n \in Nat : \A m, l \in Nat : \A f, g :
       n <= m /\ n <= l /\ Table(m, f) /\ Table(l, g) => f[n] = g[n]
<1> DEFINE Agree(n) == \A m, l \in Nat : \A f, g :
              n <= m /\ n <= l /\ Table(m, f) /\ Table(l, g) => f[n] = g[n]
           Bad == {n \in Nat : ~ Agree(n)}
<1> SUFFICES ASSUME Bad # {} PROVE FALSE
  OBVIOUS
<1>1. PICK n \in Bad : \A m \in Bad : n <= m
  <2> HIDE DEF Bad
  <2>1. Bad \in SUBSET Nat
    BY DEF Bad
  <2> QED BY <2>1, LeastOf
<1>2. PICK m, l \in Nat : \E f, g : n <= m /\ n <= l /\ Table(m, f) /\ Table(l, g) /\ f[n] # g[n]
  BY <1>1
<1>3. PICK f, g : n <= m /\ n <= l /\ Table(m, f) /\ Table(l, g) /\ f[n] # g[n]
  BY <1>2
<1>4. n # 0
  BY <1>1, <1>3 DEF Table
<1>5. n - 1 \in Nat /\ Agree(n - 1)
  BY <1>1, <1>4
<1>6. f[n - 1] = g[n - 1]
  BY <1>1, <1>3, <1>5
<1> QED BY <1>1, <1>3, <1>4, <1>6 DEF Table

\* The powers of two.
LEMMA Powers == Power2 \in [Nat -> Nat]
<1> DEFINE h == [n \in Nat |-> (CHOOSE f : Table(n, f))[n]]
           step(f) == [n \in Nat |-> IF n = 0 THEN 1 ELSE 2 * f[n - 1]]
<1>1. \A n \in Nat : Table(n, CHOOSE f : Table(n, f))
  BY TablesExist
<1>2. \A n \in Nat : h[n] \in Nat /\ h[n] = IF n = 0 THEN 1 ELSE 2 * h[n - 1]
  <2> SUFFICES ASSUME NEW n \in Nat PROVE h[n] \in Nat /\ h[n] = IF n = 0 THEN 1 ELSE 2 * h[n - 1]
    OBVIOUS
  <2>1. PICK f : f = CHOOSE x : Table(n, x)
    OBVIOUS
  <2>2. Table(n, f) /\ h[n] = f[n]
    BY <1>1, <2>1
  <2>3. CASE n = 0
    BY <2>2, <2>3 DEF Table
  <2>4. CASE n # 0
    <3>1. PICK g : g = CHOOSE x : Table(n - 1, x)
      OBVIOUS
    <3>2. n - 1 \in Nat /\ Table(n - 1, g) /\ h[n - 1] = g[n - 1]
      BY <1>1, <2>4, <3>1
    <3>3. g[n - 1] = f[n - 1]
      BY <2>2, <2>4, <3>2, TablesAgree
    <3> HIDE DEF h
    <3> QED BY <2>2, <2>4, <3>2, <3>3 DEF Table
  <2> QED BY <2>3, <2>4
<1>3. h = step(h)
  <2>1. \A n \in Nat : h[n] = IF n = 0 THEN 1 ELSE 2 * h[n - 1]
    BY <1>2
  <2> DEFINE e(n) == IF n = 0 THEN 1 ELSE 2 * h[n - 1]
             t(n) == (CHOOSE f : Table(n, f))[n]
  <2>2. \A n \in Nat : t(n) = e(n)
    BY <2>1
  <2>3. h = [n \in Nat |-> t(n)] /\ step(h) = [n \in Nat |-> e(n)]
    OBVIOUS
  <2> HIDE DEF h, step, t, e
  <2> QED BY <2>2, <2>3
<1>4. Power2 = CHOOSE f : f = step(f)
  BY DEF Power2
<1>5. Power2 = step(Power2)
  <2> HIDE DEF h, step
  <2> QED BY <1>3, <1>4
<1>6. \A n \in Nat : Power2[n] = IF n = 0 THEN 1 ELSE 2 * Power2[n - 1]
  <2> HIDE DEF Power2
  <2> QED BY <1>5
<1> DEFINE Bad == {n \in Nat : Power2[n] \notin Nat}
<1>7. Bad = {}
  <2> SUFFICES ASSUME Bad # {} PROVE FALSE
    OBVIOUS
  <2>1. PICK n \in Bad : \A m \in Bad : n <= m
    <3> HIDE DEF Bad
    <3>1. Bad \in SUBSET Nat
      BY DEF Bad
    <3> QED BY <3>1, LeastOf
  <2>2. n # 0
    BY <1>6, <2>1
  <2>3. n - 1 \in Nat /\ n - 1 \notin Bad
    BY <2>1, <2>2
  <2> HIDE DEF Power2
  <2> QED BY <1>6, <2>1, <2>2, <2>3
<1>8. Power2 = [n \in Nat |-> Power2[n]]
  <2>1. Power2 = [n \in Nat |-> IF n = 0 THEN 1 ELSE 2 * Power2[n - 1]]
    BY <1>5
  <2> HIDE DEF Power2
  <2> QED BY <2>1
<1> HIDE DEF Power2
<1> QED BY <1>7, <1>8

-----------------------------------------------------------------------------
(* The inductive invariant.                                                *)

PoolOK == /\ pool \in Seq(Ports)
          /\ rr \in Nat
          /\ assigned \in [Keys -> Ports \cup {None}]

\* The bucket of a proxy is cold exactly while its last 429 binds it.
Clocks == /\ next \in [Ports -> Nat]
          /\ cold \in [Ports -> Nat]
          /\ hot = cold
          /\ since \in [Ports -> 0 .. Slot]

Calls == /\ pc \in [Keys -> Steps]
         /\ asleep = [k \in Keys |-> asleep[k]]
         /\ proxy = [k \in Keys |-> proxy[k]]
         /\ \A k \in Keys : pc[k] \in {"bucket", "reserved"} => proxy[k] \in Ports

\* A thread that has its slot of a proxy: as long as it is to come, it is over
\* before the next one is handed out, it begins a slot after the last one that
\* began, and no other one to come is less than a slot away; and it is older
\* than the 429 that still binds.  A thread that is late has a slot no more.
Reserved(k, p) == pc[k] = "reserved" /\ proxy[k] = p
ToCome(k, p) == Reserved(k, p) /\ asleep[k] > 0
OwnSlot(k, p) ==
    /\ asleep[k] + Slot <= next[p]
    /\ since[p] + asleep[k] >= Slot
    /\ \A j \in Keys \ {k} : ToCome(j, p) =>
          asleep[j] + Slot <= asleep[k] \/ asleep[k] + Slot <= asleep[j]

Slots == \A p \in Ports :
            /\ since[p] + next[p] >= Slot
            /\ \A k \in Keys : ToCome(k, p) => OwnSlot(k, p)
            /\ \A k \in Keys : Reserved(k, p) => /\ asleep[k] \in Nat
                                                 /\ hot[p] > 0 => k \in early

\* What was read of Merge.yaml is remembered from its change to the end.
BuildOK == /\ nodeIps \in Seq(Ips \cup {Unknown})
           /\ build \in {"discover", "test", "apply"} => original = "empty"
           /\ original # "empty" => merge # "none"
           /\ original # "none"
           /\ MergeRestored

IInv == PoolOK /\ Clocks /\ Calls /\ Slots /\ BuildOK

-----------------------------------------------------------------------------
(* Minima.                                                                 *)

\* What the constants are.
LEMMA Durations == Slot \in Nat \ {0} /\ Cool429 \in Nat \ {0}
BY PoolAssumption DEF PoolAssumption

\* Proxies and exit IPs are finite sets.
LEMMA PortsAndIps ==
    /\ IsFiniteSet(Ports) /\ Cardinality(Ports) \in Nat /\ Ports = 1 .. Cardinality(Ports)
    /\ PoolSize \in Ports /\ IsFiniteSet(Ips)
<1>1. IsFiniteSet(Ports) /\ Ports = 1 .. Cardinality(Ports)
  BY PoolAssumption DEF PoolAssumption
<1>2. Cardinality(Ports) \in Nat
  BY <1>1, FS_CardinalityType
<1>3. PoolSize \in Ports /\ IsFiniteSet(Ips)
  BY BuildAssumption DEF BuildAssumption
<1> QED BY <1>1, <1>2, <1>3

\* The smaller of two numbers.
LEMMA MinOfTwo ==
    ASSUME NEW a \in Nat, NEW b \in Nat
    PROVE  Min({a, b}) = IF a <= b THEN a ELSE b
<1>1. Min({a, b}) \in {a, b} /\ Min({a, b}) <= a /\ Min({a, b}) <= b
  BY LeastOf, {a, b} \in SUBSET Nat
<1> QED BY <1>1

\* The larger of two numbers.
LEMMA MaxOfTwo ==
    ASSUME NEW a \in Int, NEW b \in Int
    PROVE  Max({a, b}) = IF a >= b THEN a ELSE b
<1>1. \E x \in {a, b} : \A y \in {a, b} : x >= y
  OBVIOUS
<1>2. Max({a, b}) \in {a, b} /\ Max({a, b}) >= a /\ Max({a, b}) >= b
  BY <1>1 DEF Max
<1> QED BY <1>2

\* A deadline comes nearer, or has passed.
LEMMA SoonerEffect ==
    ASSUME NEW S, NEW f \in [S -> Nat]
    PROVE  /\ Sooner(f) \in [S -> Nat]
           /\ \A x \in S : Sooner(f)[x] = IF f[x] > 0 THEN f[x] - 1 ELSE 0
<1>1. \A x \in S : Max({f[x] - 1, 0}) = IF f[x] > 0 THEN f[x] - 1 ELSE 0
  <2> TAKE x \in S
  <2>1. f[x] \in Nat /\ f[x] - 1 \in Int
    OBVIOUS
  <2> QED BY <2>1, MaxOfTwo
<1> QED BY <1>1 DEF Sooner

-----------------------------------------------------------------------------
(* The pool.                                                               *)

\* Going round, there is a first healthy position.
LEMMA RoundIsHealthy ==
    ASSUME PoolOK, HealthyAt # {}
    PROVE  Round \in HealthyAt
<1> DEFINE n == Len(pool)
           far(i) == (i - 2 - rr + n) % n
           T == {far(i) : i \in HealthyAt}
<1>1. n \in Nat \ {0} /\ rr \in Nat /\ HealthyAt \subseteq 1 .. n
  BY DEF PoolOK, HealthyAt
<1>2. \A i \in HealthyAt : far(i) \in Nat
  <2> SUFFICES ASSUME NEW i \in HealthyAt PROVE far(i) \in Nat
    OBVIOUS
  <2>1. i - 2 - rr + n \in Int
    BY <1>1
  <2> QED BY <1>1, <2>1
<1>3. T \in SUBSET Nat /\ T # {}
  BY <1>2
<1>4. Min(T) \in T /\ \A x \in T : Min(T) <= x
  <2> HIDE DEF T
  <2> QED BY <1>3, LeastOf
<1>5. PICK i \in HealthyAt : Min(T) = far(i)
  BY <1>4
<1>6. \A j \in HealthyAt : far(i) <= far(j)
  BY <1>4, <1>5
<1>7. Round = CHOOSE r \in HealthyAt : \A j \in HealthyAt : far(r) <= far(j)
  BY DEF Round
<1> HIDE DEF far
<1> QED BY <1>6, <1>7

\* Whoever is assigned a proxy has one of the ports.
LEMMA AssignEffect ==
    ASSUME PoolOK, NEW k \in Keys, Assign(k)
    PROVE  PoolOK' /\ assigned'[k] \in Ports /\ UNCHANGED <<cold, next>>
<1>1. CASE Keeps(k) /\ UNCHANGED <<assigned, rr>>
  BY <1>1 DEF Assign, Keeps, PoolOK
<1>2. CASE FreeAt(k) # {} /\ assigned' = [assigned EXCEPT ![k] = pool[Min(FreeAt(k))]] /\ UNCHANGED rr
  <2>1. FreeAt(k) \in SUBSET Nat /\ FreeAt(k) \subseteq 1 .. Len(pool)
    BY DEF FreeAt, HealthyAt, PoolOK
  <2>2. Min(FreeAt(k)) \in 1 .. Len(pool)
    BY <1>2, <2>1, LeastOf
  <2>3. pool[Min(FreeAt(k))] \in Ports
    BY <2>2 DEF PoolOK
  <2> QED BY <1>2, <2>3 DEF Assign, PoolOK
<1>3. CASE assigned' = [assigned EXCEPT ![k] = pool[Round]] /\ rr' = Round - 1
  <2>1. Round \in 1 .. Len(pool)
    BY RoundIsHealthy DEF Assign, HealthyAt, PoolOK
  <2>2. pool[Round] \in Ports /\ Round - 1 \in Nat
    BY <2>1 DEF PoolOK
  <2> QED BY <1>3, <2>2 DEF Assign, PoolOK
<1> QED BY <1>1, <1>2, <1>3 DEF Assign

-----------------------------------------------------------------------------
(* Steps of a thread.                                                      *)

\* What a thread does before it has a slot, or once it is answered, is nothing
\* to the slots of the others.
LEMMA Elsewhere ==
    ASSUME Clocks, Calls, Slots, NEW k \in Keys, NEW where \in Steps, where # "reserved",
           where = "bucket" => proxy'[k] \in Ports,
           pc' = [pc EXCEPT ![k] = where],
           UNCHANGED <<next, cold, hot, since, early>>,
           \A j \in Keys \ {k} : asleep'[j] = asleep[j] /\ proxy'[j] = proxy[j],
           asleep' = [j \in Keys |-> asleep'[j]], proxy' = [j \in Keys |-> proxy'[j]]
    PROVE  Clocks' /\ Calls' /\ Slots'
<1>1. Clocks'
  BY DEF Clocks
<1>2. Calls'
  BY DEF Calls
<1>3. \A j \in Keys, p \in Ports : Reserved(j, p)' => j # k /\ Reserved(j, p) /\ asleep'[j] = asleep[j]
  BY DEF Reserved, Calls
<1>4. Slots'
  BY <1>3 DEF Slots, OwnSlot, ToCome
<1> QED BY <1>1, <1>2, <1>4

\* A thread that goes to sleep leaves the sleep of the others alone.
LEMMA SleepEffect ==
    ASSUME Calls, NEW k \in Keys, NEW n, SleepFor(k, n) \/ UNCHANGED asleep
    PROVE  /\ asleep' = [j \in Keys |-> asleep'[j]]
           /\ \A j \in Keys \ {k} : asleep'[j] = asleep[j]
BY DEF Calls, SleepFor

\* A call that begins has no slot yet.
LEMMA CallStep ==
    ASSUME Clocks, Calls, Slots, NEW k \in Keys, Call(k), UNCHANGED poolVars
    PROVE  Clocks' /\ Calls' /\ Slots'
<1> DEFINE where == IF Pooled THEN "acquire" ELSE "throttle"
<1>1. where \in Steps /\ where \notin {"bucket", "reserved"}
  BY DEF Steps
<1>2. pc' = [pc EXCEPT ![k] = where] /\ UNCHANGED <<asleep, proxy, next, cold, hot, since, early>>
  BY DEF Call, Goto, poolVars, watch
<1> HIDE DEF where
<1> QED BY <1>1, <1>2, Elsewhere DEF Calls

\* Where the threads of the shared bucket go.
LEMMA DirectMove ==
    ASSUME Calls, NEW k \in Keys, Direct(k)
    PROVE  /\ pc[k] \in {"throttle", "sent", "cool"}
           /\ \E where \in {"throttle", "sent", "cool", "ok", "error"} : pc' = [pc EXCEPT ![k] = where]
<1>1. CASE Throttle(k)
  <2>1. pc[k] = "throttle" /\ (Goto(k, "sent") \/ UNCHANGED pc)
    BY <1>1 DEF Throttle
  <2>2. pc = [pc EXCEPT ![k] = pc[k]]
    BY DEF Calls
  <2> QED BY <2>1, <2>2 DEF Goto
<1>2. CASE DirectAnswer(k)
  <2>1. pc[k] = "sent" /\ \E where \in {"ok", "error", "cool", "throttle"} : Goto(k, where)
    BY <1>2 DEF DirectAnswer, Ends, On429, Again
  <2> QED BY <2>1 DEF Goto
<1>3. CASE Cooled(k)
  <2>1. pc[k] = "cool" /\ (Goto(k, "throttle") \/ Goto(k, "error"))
    BY <1>3 DEF Cooled, Again, Ends
  <2> QED BY <2>1 DEF Goto
<1>4. CASE StillCool(k)
  <2>1. pc[k] = "cool" /\ UNCHANGED pc
    BY <1>4 DEF StillCool
  <2> QED BY <2>1 DEF Calls
<1> QED BY <1>1, <1>2, <1>3, <1>4 DEF Direct

\* Without a pool no thread has a slot.
LEMMA DirectStep ==
    ASSUME Clocks, Calls, Slots, NEW k \in Keys, Direct(k), UNCHANGED poolVars
    PROVE  Clocks' /\ Calls' /\ Slots'
<1>1. PICK where \in {"throttle", "sent", "cool", "ok", "error"} : pc' = [pc EXCEPT ![k] = where]
  BY DirectMove
<1>2. \E n : SleepFor(k, n) \/ UNCHANGED asleep
  BY DEF Direct, Throttle, DirectAnswer, Cooled, StillCool, Ends, On429, Again
<1>3. UNCHANGED <<proxy, next, cold, hot, since, early>>
  BY DEF Direct, Throttle, DirectAnswer, poolVars, watch
<1> QED BY <1>1, <1>2, <1>3, SleepEffect, Elsewhere DEF Calls, Steps

\* A thread that has its proxy has no slot of it yet.
LEMMA AcquireStep ==
    ASSUME PoolOK, Clocks, Calls, Slots, NEW k \in Keys, Acquire(k)
    PROVE  PoolOK' /\ Clocks' /\ Calls' /\ Slots'
<1>1. UNCHANGED <<hot, since, early>> /\ pc[k] = "acquire"
  BY DEF Acquire, watch
<1>2. CASE /\ Assign(k) /\ proxy' = [proxy EXCEPT ![k] = assigned'[k]]
           /\ Goto(k, "bucket") /\ UNCHANGED asleep
  <2>1. PoolOK' /\ assigned'[k] \in Ports /\ UNCHANGED <<cold, next>>
    BY <1>2, AssignEffect
  <2>2. /\ proxy' = [j \in Keys |-> proxy'[j]] /\ proxy'[k] \in Ports
        /\ \A j \in Keys \ {k} : proxy'[j] = proxy[j]
    BY <1>2, <2>1 DEF Calls
  <2> QED BY <1>1, <1>2, <2>1, <2>2, Elsewhere DEF Calls, Goto, Steps
<1>3. CASE Unassign(k) /\ UNCHANGED proxy
  <2>1. PoolOK' /\ UNCHANGED <<cold, next>>
    BY <1>3 DEF Unassign, PoolOK
  <2>2. \E n : SleepFor(k, n) \/ UNCHANGED asleep
    BY DEF Acquire
  <2>3. \E where \in {"acquire", "error"} : pc' = [pc EXCEPT ![k] = where]
    <3>1. CASE UNCHANGED pc
      BY <1>1, <3>1 DEF Calls
    <3>2. CASE Goto(k, "error")
      BY <3>2 DEF Goto
    <3> QED BY <1>3, <3>1, <3>2 DEF Acquire, Unassign, Assign
  <2> QED BY <1>1, <1>3, <2>1, <2>2, <2>3, SleepEffect, Elsewhere DEF Calls, Steps
<1> QED BY <1>2, <1>3 DEF Acquire

\* A slot begins when the last one that was handed out is over, or now.
LEMMA WaitStep ==
    ASSUME Clocks, Calls, Slots, NEW k \in Keys, Wait(k)
    PROVE  Clocks' /\ Calls' /\ Slots'
<1>0. PICK q \in Ports : q = proxy[k]
  BY DEF Wait, Calls
<1>1. pc[k] = "bucket" /\ UNCHANGED <<proxy, cold, hot, early>>
  BY DEF Wait, poolVars, Reserve
<1>2. CASE SleepFor(k, cold[q]) /\ UNCHANGED <<pc, poolVars, since>>
  <2>1. pc' = [pc EXCEPT ![k] = "bucket"] /\ UNCHANGED next
    BY <1>0, <1>1, <1>2 DEF Calls, poolVars
  <2>2. /\ asleep' = [j \in Keys |-> asleep'[j]]
        /\ \A j \in Keys \ {k} : asleep'[j] = asleep[j]
    BY <1>2, SleepEffect
  <2> QED BY <1>0, <1>1, <1>2, <2>1, <2>2, Elsewhere DEF Calls, Steps
<1>3. CASE /\ Reserve(q) /\ SleepFor(k, next[q]) /\ Goto(k, "reserved")
           /\ since' = IF next[q] = 0 THEN [since EXCEPT ![q] = 0] ELSE since
  <2>1. /\ next' = [next EXCEPT ![q] = next[q] + Slot]
        /\ cold[q] = 0 /\ next[q] \in Nat
    BY <1>0, <1>1, <1>3 DEF Reserve, TakeSlot, Clocks
  <2>2. /\ since' \in [Ports -> 0 .. Slot]
        /\ \A p \in Ports : since'[p] = IF p = q /\ next[q] = 0 THEN 0 ELSE since[p]
    BY <1>0, <1>3, Durations DEF Clocks
  <2>3. Clocks'
    <3>1. next' \in [Ports -> Nat]
      BY <1>0, <2>1, Durations DEF Clocks
    <3> QED BY <1>1, <2>2, <3>1 DEF Clocks
  <2>4. Calls'
    BY <1>0, <1>1, <1>3 DEF Calls, SleepFor, Goto, Steps
  <2>5. /\ asleep'[k] = next[q]
        /\ \A j \in Keys \ {k} : asleep'[j] = asleep[j]
    BY <1>3, <1>1 DEF Calls, SleepFor
  <2>6. \A p \in Ports : next'[p] = IF p = q THEN next[q] + Slot ELSE next[p]
    BY <2>1 DEF Clocks
  <2>7. \A p \in Ports : since'[p] + next'[p] >= Slot
    <3> TAKE p \in Ports
    <3>1. since[p] + next[p] >= Slot /\ since[p] \in Nat /\ next[p] \in Nat
      BY Durations DEF Slots, Clocks
    <3> QED BY <2>2, <2>6, <3>1, Durations
  <2>8. \A j \in Keys \ {k}, p \in Ports : Reserved(j, p)' <=> Reserved(j, p)
    BY <1>0, <1>1, <1>3 DEF Reserved, Calls, Goto
  <2>9. \A p \in Ports : Reserved(k, p)' => p = q
    BY <1>0, <1>1 DEF Reserved
  <2>10. \A j \in Keys \ {k}, p \in Ports : ToCome(j, p)' <=> ToCome(j, p)
    BY <2>5, <2>8 DEF ToCome
  <2>11. \A j \in Keys \ {k}, p \in Ports : ToCome(j, p) => OwnSlot(j, p)'
    <3> SUFFICES ASSUME NEW j \in Keys \ {k}, NEW p \in Ports, ToCome(j, p)
                 PROVE  OwnSlot(j, p)'
      OBVIOUS
    <3>1. OwnSlot(j, p) /\ asleep[j] \in Nat \ {0}
      BY DEF Slots, ToCome
    <3>2. next[p] \in Nat /\ since[p] \in Nat
      BY Durations DEF Clocks
    <3>3. p = q => next[q] # 0
      BY <3>1, <3>2, Durations DEF OwnSlot
    <3>4. asleep'[j] + Slot <= next'[p] /\ since'[p] + asleep'[j] >= Slot
      BY <2>2, <2>5, <2>6, <3>1, <3>2, <3>3, Durations DEF OwnSlot
    <3>5. \A i \in Keys \ {j, k} : ToCome(i, p)' =>
             asleep'[i] + Slot <= asleep'[j] \/ asleep'[j] + Slot <= asleep'[i]
      BY <2>5, <2>10, <3>1 DEF OwnSlot
    <3>6. ToCome(k, p)' => asleep'[j] + Slot <= asleep'[k]
      BY <2>5, <2>9, <3>1 DEF OwnSlot, ToCome
    <3> QED BY <3>4, <3>5, <3>6 DEF OwnSlot
  <2>12. ToCome(k, q)' => OwnSlot(k, q)'
    <3> SUFFICES ASSUME next[q] > 0 PROVE OwnSlot(k, q)'
      BY <2>5 DEF ToCome
    <3>1. asleep'[k] + Slot <= next'[q]
      BY <1>0, <2>1, <2>5, <2>6, Durations
    <3>2. since'[q] + asleep'[k] >= Slot
      BY <1>0, <2>1, <2>2, <2>5 DEF Slots
    <3>3. \A j \in Keys \ {k} : ToCome(j, q)' => asleep'[j] + Slot <= asleep'[k]
      BY <1>0, <2>5, <2>10 DEF Slots, OwnSlot
    <3> QED BY <3>1, <3>2, <3>3 DEF OwnSlot
  <2>13. \A j \in Keys, p \in Ports : Reserved(j, p)' =>
            asleep'[j] \in Nat /\ (hot'[p] > 0 => j \in early')
    <3>1. \A j \in Keys \ {k}, p \in Ports : Reserved(j, p)' =>
             asleep'[j] \in Nat /\ (hot'[p] > 0 => j \in early')
      BY <1>1, <2>5, <2>8 DEF Slots
    <3>2. asleep'[k] \in Nat /\ ~ hot'[q] > 0
      BY <1>0, <1>1, <2>1, <2>5 DEF Clocks
    <3> QED BY <2>9, <3>1, <3>2
  <2>14. Slots'
    BY <2>7, <2>9, <2>10, <2>11, <2>12, <2>13 DEF Slots, ToCome
  <2> QED BY <2>3, <2>4, <2>14
<1> QED BY <1>0, <1>2, <1>3 DEF Wait

\* A request that is sent gives up its slot, which has begun.
LEMMA SendStep ==
    ASSUME Clocks, Calls, Slots, NEW k \in Keys, Send(k)
    PROVE  Clocks' /\ Calls' /\ Slots'
<1>1. /\ pc[k] = "reserved"
      /\ pc' = [pc EXCEPT ![k] = "sent"]
      /\ early' = early \ {k}
      /\ UNCHANGED <<proxy, asleep, hot, next, cold, since>>
  BY DEF Send, Goto, poolVars
<1>2. Clocks'
  BY <1>1 DEF Clocks
<1>3. Calls'
  BY <1>1 DEF Calls, Steps
<1>4. \A j \in Keys, p \in Ports : Reserved(j, p)' => j # k /\ Reserved(j, p)
  BY <1>1 DEF Reserved, Calls
<1>5. Slots'
  BY <1>1, <1>4 DEF Slots, OwnSlot, ToCome
<1> QED BY <1>2, <1>3, <1>5

\* An answer: a 429 makes the bucket cold, and the threads that have a slot are
\* noted as early.
LEMMA AnswerStep ==
    ASSUME Clocks, Calls, Slots, NEW k \in Keys, PoolAnswer(k)
    PROVE  Clocks' /\ Calls' /\ Slots'
<1>0. /\ pc[k] = "sent" /\ UNCHANGED <<proxy, since>>
  BY DEF PoolAnswer, watch
<1>1. PICK where \in {"ok", "error", "acquire"} : pc' = [pc EXCEPT ![k] = where]
  BY DEF PoolAnswer, Ends, Retry, Again, Goto
<1>2. /\ asleep' = [j \in Keys |-> asleep'[j]]
      /\ \A j \in Keys \ {k} : asleep'[j] = asleep[j]
  BY SleepEffect DEF PoolAnswer, Ends, Retry, Again
<1>3. CASE UNCHANGED <<next, cold, hot, early>>
  BY <1>0, <1>1, <1>2, <1>3, Elsewhere DEF Calls, Steps
<1>4. ASSUME NEW q, q = proxy[k], Report429(q),
             hot' = [hot EXCEPT ![q] = Cool429],
             early' = early \cup {j \in Keys : pc[j] = "reserved" /\ proxy[j] = q}
      PROVE  Clocks' /\ Calls' /\ Slots'
  <2>1. \A p \in Ports : Max({next[p], Cool429}) \in Nat /\ Max({next[p], Cool429}) >= next[p]
    <3> TAKE p \in Ports
    <3>1. next[p] \in Nat /\ next[p] \in Int /\ Cool429 \in Nat /\ Cool429 \in Int
      BY Durations DEF Clocks
    <3> QED BY <3>1, MaxOfTwo
  <2>2. /\ next' = [next EXCEPT ![q] = Max({next[q], Cool429})]
        /\ cold' = [cold EXCEPT ![q] = Cool429]
    BY <1>4 DEF Report429
  <2>3. next' \in [Ports -> Nat] /\ \A p \in Ports : next'[p] >= next[p]
    <3>1. \A p \in Ports : next'[p] \in Nat /\ next'[p] >= next[p]
      <4> DEFINE m(p) == Max({next[p], Cool429})
      <4>1. \A p \in Ports : m(p) \in Nat /\ m(p) >= next[p]
        BY <2>1
      <4>2. next' = [next EXCEPT ![q] = m(q)]
        BY <2>2
      <4> HIDE DEF m
      <4> QED BY <4>1, <4>2 DEF Clocks
    <3> QED BY <2>2, <3>1 DEF Clocks
  <2>4. Clocks'
    BY <1>0, <1>4, <2>2, <2>3, Durations DEF Clocks
  <2>5. Calls'
    BY <1>0, <1>1, <1>2 DEF Calls, Steps
  <2>6. \A j \in Keys, p \in Ports : Reserved(j, p)' => j # k /\ Reserved(j, p) /\ asleep'[j] = asleep[j]
    BY <1>0, <1>1, <1>2 DEF Reserved, Calls
  <2>7. \A j \in Keys, p \in Ports : ToCome(j, p)' => OwnSlot(j, p)'
    <3> SUFFICES ASSUME NEW j \in Keys, NEW p \in Ports, ToCome(j, p)'
                 PROVE  OwnSlot(j, p)'
      OBVIOUS
    <3>0. j # k /\ ToCome(j, p)
      BY <2>6 DEF ToCome
    <3>1. OwnSlot(j, p) /\ asleep[j] \in Nat
      BY <3>0 DEF Slots, ToCome
    <3>2. asleep'[j] + Slot <= next'[p] /\ since'[p] + asleep'[j] >= Slot
      <4>1. asleep'[j] = asleep[j] /\ since' = since
        BY <1>0, <1>2, <3>0
      <4>2. next'[p] \in Nat /\ next[p] \in Nat /\ next'[p] >= next[p]
        BY <2>3 DEF Clocks
      <4> QED BY <3>1, <4>1, <4>2, Durations DEF OwnSlot
    <3>3. \A i \in Keys \ {j} : ToCome(i, p)' =>
             asleep'[i] + Slot <= asleep'[j] \/ asleep'[j] + Slot <= asleep'[i]
      BY <1>2, <2>6, <3>0, <3>1 DEF OwnSlot, ToCome
    <3> QED BY <3>2, <3>3 DEF OwnSlot
  <2>8. \A p \in Ports : since'[p] + next'[p] >= Slot
    BY <1>0, <2>3, Durations DEF Slots, Clocks
  <2>9. \A j \in Keys, p \in Ports : Reserved(j, p)' =>
           asleep'[j] \in Nat /\ (hot'[p] > 0 => j \in early')
    <3> SUFFICES ASSUME NEW j \in Keys, NEW p \in Ports, Reserved(j, p)'
                 PROVE  asleep'[j] \in Nat /\ (hot'[p] > 0 => j \in early')
      OBVIOUS
    <3>1. Reserved(j, p) /\ asleep'[j] = asleep[j]
      BY <2>6
    <3>2. asleep[j] \in Nat /\ (hot[p] > 0 => j \in early)
      BY <3>1 DEF Slots
    <3> QED BY <1>4, <3>1, <3>2 DEF Reserved, Clocks
  <2>10. Slots'
    BY <2>7, <2>8, <2>9 DEF Slots
  <2> QED BY <2>4, <2>5, <2>10
<1> QED BY <1>3, <1>4 DEF PoolAnswer, ReportOk, ReportFail, watch

\* The clock goes on: the slots to come are nearer by a tick, and one of a
\* proxy may begin, as the only one.
LEMMA TickStep ==
    ASSUME PoolOK, Clocks, Calls, Slots, Tick
    PROVE  PoolOK' /\ Clocks' /\ Calls' /\ Slots'
<1>1. PoolOK'
  BY DEF Tick, PoolTick, PoolOK
<1>2. \A p \in Ports : Min({since[p] + 1, Slot}) = IF since[p] < Slot THEN since[p] + 1 ELSE Slot
  <2> TAKE p \in Ports
  <2>1. since[p] + 1 \in Nat /\ Slot \in Nat /\ since[p] \in 0 .. Slot
    BY Durations DEF Clocks
  <2>2. Min({since[p] + 1, Slot}) = IF since[p] + 1 <= Slot THEN since[p] + 1 ELSE Slot
    BY <2>1, MinOfTwo
  <2> QED BY <2>1, <2>2
<1>3. /\ since' \in [Ports -> 0 .. Slot]
      /\ \A p \in Ports : since'[p] = IF Coming(p) # {} THEN 0
                                      ELSE IF since[p] < Slot THEN since[p] + 1 ELSE Slot
  <2> DEFINE m(p) == Min({since[p] + 1, Slot})
             n(p) == IF Coming(p) # {} THEN 0 ELSE m(p)
  <2>1. \A p \in Ports : m(p) = IF since[p] < Slot THEN since[p] + 1 ELSE Slot
    BY <1>2
  <2>2. since' = [p \in Ports |-> n(p)]
    BY DEF Tick
  <2> HIDE DEF m
  <2> QED BY <2>1, <2>2, Durations DEF Clocks
<1>4. /\ next' \in [Ports -> Nat] /\ cold' \in [Ports -> Nat] /\ hot' = cold'
      /\ \A p \in Ports : next'[p] = IF next[p] > 0 THEN next[p] - 1 ELSE 0
      /\ \A p \in Ports : hot'[p] = IF hot[p] > 0 THEN hot[p] - 1 ELSE 0
  BY SoonerEffect DEF Tick, PoolTick, Clocks
<1>5. Clocks'
  BY <1>3, <1>4 DEF Clocks
<1>6. UNCHANGED <<pc, proxy, early>>
  BY DEF Tick
<1>7. asleep' = [k \in Keys |-> Max({asleep[k] - 1, 0})]
  BY DEF Tick, Sooner, Calls
<1>8. Calls'
  BY <1>6, <1>7 DEF Calls
<1>9. \A k \in Keys, p \in Ports : Reserved(k, p) =>
         /\ asleep[k] \in Nat /\ asleep'[k] \in Nat
         /\ asleep'[k] = IF asleep[k] > 0 THEN asleep[k] - 1 ELSE 0
  <2> SUFFICES ASSUME NEW k \in Keys, NEW p \in Ports, Reserved(k, p)
               PROVE  /\ asleep[k] \in Nat /\ asleep'[k] \in Nat
                      /\ asleep'[k] = IF asleep[k] > 0 THEN asleep[k] - 1 ELSE 0
    OBVIOUS
  <2>1. asleep[k] \in Nat
    BY DEF Slots
  <2>2. asleep'[k] = IF asleep[k] > 0 THEN asleep[k] - 1 ELSE 0
    BY <1>7, <2>1, MaxOfTwo
  <2> QED BY <2>1, <2>2
<1>10. \A k \in Keys, p \in Ports : k \in Coming(p) => ToCome(k, p) /\ asleep[k] = 1
  BY DEF Coming, ToCome, Reserved
<1>11. \A p \in Ports : since'[p] + next'[p] >= Slot
  <2> TAKE p \in Ports
  <2>1. since[p] \in 0 .. Slot /\ next[p] \in Nat /\ since[p] + next[p] >= Slot
    BY DEF Slots, Clocks
  <2>2. /\ since'[p] = IF Coming(p) # {} THEN 0 ELSE IF since[p] < Slot THEN since[p] + 1 ELSE Slot
        /\ next'[p] = IF next[p] > 0 THEN next[p] - 1 ELSE 0
    BY <1>3, <1>4
  <2>3. Coming(p) # {} => 1 + Slot <= next[p]
    BY <1>10 DEF Slots, OwnSlot, Coming
  <2> QED BY <2>1, <2>2, <2>3, Durations
<1>12. \A k \in Keys, p \in Ports : ToCome(k, p)' => OwnSlot(k, p)'
  <2> SUFFICES ASSUME NEW k \in Keys, NEW p \in Ports, ToCome(k, p)'
               PROVE  OwnSlot(k, p)'
    OBVIOUS
  <2>1. Reserved(k, p) /\ asleep'[k] > 0
    BY <1>6 DEF ToCome, Reserved
  <2>2. ToCome(k, p) /\ asleep[k] \in Nat \ {0, 1} /\ asleep'[k] = asleep[k] - 1
    BY <1>9, <2>1 DEF ToCome
  <2>3. OwnSlot(k, p)
    BY <2>2 DEF Slots
  <2>4. asleep'[k] + Slot <= next'[p]
    <3>1. next[p] \in Nat /\ next'[p] = IF next[p] > 0 THEN next[p] - 1 ELSE 0
      BY <1>4 DEF Clocks
    <3> QED BY <2>2, <2>3, <3>1, Durations DEF OwnSlot
  <2>5. \A j \in Keys \ {k} : ToCome(j, p) =>
           /\ asleep[j] \in Nat \ {0} /\ asleep'[j] = asleep[j] - 1
           /\ asleep[j] + Slot <= asleep[k] \/ asleep[k] + Slot <= asleep[j]
    BY <1>9, <2>3 DEF ToCome, OwnSlot
  <2>6. Coming(p) # {} => asleep'[k] >= Slot
    <3> SUFFICES ASSUME NEW j \in Keys, j \in Coming(p) PROVE asleep'[k] >= Slot
      BY DEF Coming
    <3>1. ToCome(j, p) /\ asleep[j] = 1 /\ j # k
      BY <1>10, <2>2
    <3>2. 1 + Slot <= asleep[k] \/ asleep[k] + Slot <= 1
      BY <2>5, <3>1
    <3> QED BY <2>2, <3>2, Durations
  <2>7. since'[p] + asleep'[k] >= Slot
    <3>1. since[p] \in 0 .. Slot
      BY DEF Clocks
    <3>2. since'[p] = IF Coming(p) # {} THEN 0 ELSE IF since[p] < Slot THEN since[p] + 1 ELSE Slot
      BY <1>3
    <3>3. since[p] + asleep[k] >= Slot
      BY <2>3 DEF OwnSlot
    <3> QED BY <2>2, <2>6, <3>1, <3>2, <3>3, Durations
  <2>8. \A j \in Keys \ {k} : ToCome(j, p)' =>
           asleep'[j] + Slot <= asleep'[k] \/ asleep'[k] + Slot <= asleep'[j]
    <3> SUFFICES ASSUME NEW j \in Keys \ {k}, ToCome(j, p)'
                 PROVE  asleep'[j] + Slot <= asleep'[k] \/ asleep'[k] + Slot <= asleep'[j]
      OBVIOUS
    <3>1. Reserved(j, p) /\ asleep'[j] > 0
      BY <1>6 DEF ToCome, Reserved
    <3>2. ToCome(j, p)
      BY <1>9, <3>1 DEF ToCome
    <3> QED BY <2>2, <2>5, <3>2, Durations
  <2> QED BY <2>4, <2>7, <2>8 DEF OwnSlot
<1>13. \A k \in Keys, p \in Ports : Reserved(k, p)' =>
          asleep'[k] \in Nat /\ (hot'[p] > 0 => k \in early')
  <2> SUFFICES ASSUME NEW k \in Keys, NEW p \in Ports, Reserved(k, p)'
               PROVE  asleep'[k] \in Nat /\ (hot'[p] > 0 => k \in early')
    OBVIOUS
  <2>1. Reserved(k, p)
    BY <1>6 DEF Reserved
  <2>2. hot[p] \in Nat /\ (hot[p] > 0 => k \in early)
    BY <2>1 DEF Slots, Clocks
  <2> QED BY <1>4, <1>6, <1>9, <2>1, <2>2
<1>14. Slots'
  BY <1>11, <1>12, <1>13 DEF Slots
<1> QED BY <1>1, <1>5, <1>8, <1>14

-----------------------------------------------------------------------------
(* The build of a pool.                                                    *)

\* At most as many ports as proxies there can be are opened.
LEMMA PicksArePorts ==
    ASSUME BuildOK
    PROVE  NumPicks \in Nat /\ 1 .. NumPicks \subseteq Ports
<1>1. IpsOf(nodeIps) \in SUBSET Ips
  BY DEF BuildOK, IpsOf, Range
<1>2. Cardinality(IpsOf(nodeIps)) \in Nat
  BY <1>1, FS_Subset, FS_CardinalityType, PortsAndIps
<1>3. Cardinality(Ports) \in Nat /\ PoolSize \in 1 .. Cardinality(Ports)
  BY FS_CardinalityType, PortsAndIps
<1>4. NumPicks \in Nat /\ NumPicks <= PoolSize
  BY <1>2, <1>3, MinOfTwo DEF NumPicks
<1> QED BY <1>3, <1>4, PortsAndIps

\* What restore_merge leaves in the file.
LEMMA RestoreEffect ==
    ASSUME BuildOK, Restore, UNCHANGED original
    PROVE  /\ original' # "empty" => merge' # "none"
           /\ original' # "empty" /\ ~unrestored' => merge' = original'
BY DEF BuildOK, Restore

\* A step of the build keeps what was read of Merge.yaml.
LEMMA BuildStep ==
    ASSUME PoolOK, BuildOK, Build, UNCHANGED <<assigned, rr>>
    PROVE  PoolOK' /\ BuildOK'
<1> DEFINE Results == Ips \cup {Unknown}
<1>1. CASE Discover /\ UNCHANGED pool
  <2>1. nodeIps' \in Seq(Results)
    BY <1>1 DEF Discover, BuildOK
  <2>2. original = "empty" /\ UNCHANGED <<original, merge>>
    BY <1>1 DEF Discover, BuildOK
  <2> QED BY <1>1, <2>1, <2>2 DEF PoolOK, BuildOK, MergeRestored
<1>2. CASE TestNode /\ UNCHANGED pool
  <2>1. nodeIps' \in Seq(Results)
    BY <1>2 DEF TestNode, BuildOK
  <2> QED BY <1>2, <2>1 DEF TestNode, PoolOK, BuildOK, MergeRestored
<1>3. CASE EndTest /\ UNCHANGED pool
  BY <1>3 DEF EndTest, PoolOK, BuildOK, MergeRestored
<1>4. CASE Apply /\ UNCHANGED pool
  <2>1. build = "apply" /\ original = "empty" /\ UNCHANGED nodeIps
    BY <1>4 DEF Apply, BuildOK
  <2>2. \/ build' \in {"failed", "verify"} /\ UNCHANGED <<merge, original>>
        \/ build' = "wait" /\ merge # "none" /\ merge' = "listeners" /\ original' \in {merge, "empty"}
    BY <1>4 DEF Apply, Raise, WriteListeners
  <2> QED BY <1>4, <2>1, <2>2 DEF PoolOK, BuildOK, MergeRestored
<1>5. CASE PortsReady /\ UNCHANGED pool
  BY <1>5 DEF PortsReady, PoolOK, BuildOK, MergeRestored
<1>6. CASE PortsTimeOut /\ UNCHANGED pool
  <2>1. build' = "failed" /\ Restore /\ UNCHANGED <<original, nodeIps>>
    BY <1>6 DEF PortsTimeOut, Raise
  <2> QED BY <1>6, <2>1, RestoreEffect DEF PoolOK, BuildOK, MergeRestored
<1>7. CASE Verify
  <2>1. nodeIps' \in Seq(Results)
    BY <1>7 DEF Verify
  <2>2. CASE Raise /\ Restore /\ UNCHANGED <<pool, original>>
    BY <2>1, <2>2, RestoreEffect DEF Raise, PoolOK, BuildOK, MergeRestored
  <2>3. ASSUME NEW good \in SUBSET (1 .. NumPicks), build' = "ready", pool' \in InOrder(good),
               original' = "empty"
        PROVE  PoolOK' /\ BuildOK'
    <3>1. NumPicks \in Nat /\ good \subseteq Ports
      BY <2>3, PicksArePorts
    <3>2. IsFiniteSet(1 .. NumPicks)
      <4>1. 1 \in Int /\ NumPicks \in Int
        BY <3>1
      <4> QED BY <4>1, FS_Interval
    <3>3. Cardinality(good) \in Nat
      BY <2>3, <3>2, FS_Subset, FS_CardinalityType
    <3>4. pool' \in Seq(Ports)
      <4>1. pool' \in [1 .. Cardinality(good) -> good]
        BY <2>3 DEF InOrder
      <4> DEFINE n == Cardinality(good)
      <4>2. n \in Nat /\ pool' \in [1 .. n -> Ports]
        BY <3>1, <3>3, <4>1
      <4> HIDE DEF n
      <4> QED BY <4>2
    <3> QED BY <2>1, <2>3, <3>4 DEF PoolOK, BuildOK, MergeRestored
  <2> QED BY <1>7, <2>2, <2>3 DEF Verify
<1> QED BY <1>1, <1>2, <1>3, <1>4, <1>5, <1>6, <1>7 DEF Build

-----------------------------------------------------------------------------
(* The results.                                                            *)

\* The invariant holds when the client is made.
LEMMA InitIInv ==
    Init => IInv
<1> SUFFICES ASSUME Init PROVE IInv
  OBVIOUS
<1>1. PoolOK
  <2>1. Cardinality(Ports) \in Nat
    BY FS_CardinalityType, PortsAndIps
  <2>2. \E proxies \in Seq(Ports) : PoolInit(proxies)
    <3>1. CASE PoolInit(<<>>)
      <4>1. <<>> \in Seq(Ports)
        OBVIOUS
      <4> QED BY <3>1, <4>1, Zenon
    <3>2. ASSUME NEW n \in Ports, PoolInit([i \in 1 .. n |-> i])
          PROVE  \E proxies \in Seq(Ports) : PoolInit(proxies)
      <4>1. n \in Nat /\ 1 .. n \subseteq Ports
        BY <2>1, PortsAndIps
      <4>2. [i \in 1 .. n |-> i] \in [1 .. n -> Ports]
        BY <4>1
      <4>3. [i \in 1 .. n |-> i] \in Seq(Ports)
        BY <4>1, <4>2
      <4> QED BY <3>2, <4>3
    <3>3. PoolInit(<<>>) \/ \E n \in Ports : PoolInit([i \in 1 .. n |-> i])
      BY Zenon DEF Init
    <3> QED BY <3>1, <3>2, <3>3, Zenon
  <2> QED BY <2>2 DEF PoolInit, PoolOK
<1>2. Clocks
  BY Durations DEF Init, PoolInit, Clocks
<1>3. Calls /\ \A k \in Keys : pc[k] = "idle"
  BY DEF Init, Calls, Steps
<1>4. Slots
  BY <1>3, Durations DEF Init, PoolInit, Slots, Reserved, ToCome
<1>5. BuildOK
  <2>1. build \in {"none", "off", "discover"} /\ original = "empty" /\ nodeIps = <<>>
    BY DEF Init, BuildInit
  <2> QED BY <2>1 DEF BuildOK, MergeRestored
<1> QED BY <1>1, <1>2, <1>3, <1>4, <1>5 DEF IInv

\* Every step of the threads, the clock and the build keeps it.
LEMMA StepIInv ==
    IInv /\ [Next]_vars => IInv'
<1> SUFFICES ASSUME IInv, [Next]_vars PROVE IInv'
  OBVIOUS
<1> USE DEF IInv
<1>1. UNCHANGED buildVars => BuildOK'
  BY DEF buildVars, BuildOK, MergeRestored
<1>2. ASSUME NEW k \in Keys, Thread(k), UNCHANGED buildVars
      PROVE  IInv'
  <2>1. CASE Call(k) /\ UNCHANGED poolVars
    BY <1>1, <1>2, <2>1, CallStep DEF poolVars, PoolOK
  <2>2. CASE Direct(k) /\ UNCHANGED poolVars
    BY <1>1, <1>2, <2>2, DirectStep DEF poolVars, PoolOK
  <2>3. CASE Acquire(k)
    BY <1>1, <1>2, <2>3, AcquireStep
  <2>4. CASE Wait(k)
    <3>1. PoolOK'
      BY <2>4 DEF Wait, Reserve, poolVars, PoolOK
    <3> QED BY <1>1, <1>2, <2>4, <3>1, WaitStep
  <2>5. CASE Send(k)
    <3>1. PoolOK'
      BY <2>5 DEF Send, poolVars, PoolOK
    <3> QED BY <1>1, <1>2, <2>5, <3>1, SendStep
  <2>6. CASE PoolAnswer(k)
    <3>1. PoolOK'
      BY <2>6 DEF PoolAnswer, ReportOk, Report429, ReportFail, PoolOK
    <3> QED BY <1>1, <1>2, <2>6, <3>1, AnswerStep
  <2> QED BY <1>2, <2>1, <2>2, <2>3, <2>4, <2>5, <2>6 DEF Thread
<1>3. CASE Tick /\ UNCHANGED buildVars
  BY <1>1, <1>3, TickStep
<1>4. CASE Build /\ UNCHANGED <<assigned, rr, fails, disabled, cold, next, callVars, rateVars, watch>>
  <2>1. PoolOK' /\ BuildOK'
    BY <1>4, BuildStep
  <2>2. Clocks' /\ Calls' /\ Slots'
    BY <1>4 DEF callVars, watch, Clocks, Calls, Slots, OwnSlot, Reserved, ToCome
  <2> QED BY <2>1, <2>2
<1>5. CASE UNCHANGED vars
  <2>1. UNCHANGED buildVars
    BY <1>5 DEF vars
  <2> QED BY <1>1, <1>5, <2>1
       DEF vars, poolVars, callVars, watch, PoolOK, Clocks, Calls, Slots, OwnSlot, Reserved,
           ToCome
<1> QED BY <1>2, <1>3, <1>4, <1>5 DEF Next

\* The inductive invariant of the slots, the clocks and the build.
THEOREM Invariance == Spec => []IInv
<1>1. IInv /\ [Next]_vars => IInv'
  BY StepIInv
<1> QED BY <1>1, InitIInv, PTL DEF Spec

\* What a step does to the slot of one thread: a thread gets to a slot from
\* the bucket, and only a tick brings one that is slept for.
LEMMA BeginsBy ==
    ASSUME IInv, [Next]_vars, NEW k \in Keys, Begins(k)
    PROVE  /\ proxy[k] \in Ports
           /\ pc[k] = "reserved" => Tick /\ asleep[k] = 1
           /\ pc[k] # "reserved" => /\ Wait(k)
                                    /\ next[proxy[k]] = 0
                                    /\ \A j \in Keys \ {k} : ~Begins(j)
<1>1. /\ pc'[k] = "reserved" /\ asleep'[k] = 0
      /\ ~ (pc[k] = "reserved" /\ asleep[k] = 0)
  BY DEF Begins, Begun
<1>2. \A j \in Keys : \A where : Goto(j, where) =>
         \A i \in Keys \ {j} : pc'[i] = pc[i]
  BY DEF Goto, IInv, Calls
<1>3. \A j \in Keys : Thread(j) => \A i \in Keys \ {j} : ~Begins(i)
  <2> SUFFICES ASSUME NEW j \in Keys, Thread(j), NEW i \in Keys \ {j}
               PROVE  pc'[i] = pc[i] /\ asleep'[i] = asleep[i]
    BY DEF Begins, Begun
  <2>1. UNCHANGED pc \/ \E where : Goto(j, where)
    BY DEF Thread, Call, Direct, Throttle, DirectAnswer, Cooled, StillCool, Ends, On429,
           Again, Acquire, Wait, Send, PoolAnswer, Retry
  <2>2. UNCHANGED asleep \/ \E n : SleepFor(j, n)
    BY DEF Thread, Call, Direct, Throttle, DirectAnswer, Cooled, StillCool, Ends, On429,
           Again, Acquire, Wait, Send, PoolAnswer, Retry
  <2>3. asleep'[i] = asleep[i]
    BY <2>2, SleepEffect DEF IInv
  <2> QED BY <1>2, <2>1, <2>3
<1>4. ASSUME Thread(k) PROVE pc[k] # "reserved" /\ Wait(k) /\ next[proxy[k]] = 0
  <2>1. Wait(k)
    <3>1. pc'[k] = "reserved" /\ \A where : Goto(k, where) => where = "reserved"
      BY <1>1 DEF Goto, IInv, Calls
    <3>2. \/ pc[k] # "reserved" /\ UNCHANGED pc
          \/ Wait(k)
      BY <1>4, <3>1 DEF Thread, Call, Direct, Throttle, DirectAnswer, Cooled, StillCool, Ends,
             On429, Again, Acquire, Send, PoolAnswer, Retry
    <3> QED BY <1>1, <3>2
  <2>2. pc[k] = "bucket" /\ SleepFor(k, next[proxy[k]])
    BY <1>1, <2>1 DEF Wait
  <2> QED BY <1>1, <2>1, <2>2 DEF SleepFor, IInv, Calls
<1>5. CASE \E j \in Keys : Thread(j)
  <2>1. Thread(k)
    BY <1>3, <1>5
  <2>2. pc[k] = "bucket"
    BY <1>4, <2>1 DEF Wait
  <2> QED BY <1>3, <1>4, <2>1, <2>2 DEF IInv, Calls
<1>6. CASE Tick
  <2>1. pc[k] = "reserved" /\ proxy[k] \in Ports
    BY <1>1, <1>6 DEF Tick, IInv, Calls
  <2>2. asleep[k] \in Nat
    BY <2>1 DEF IInv, Slots, Reserved
  <2>3. asleep'[k] = Max({asleep[k] - 1, 0})
    BY <1>6 DEF Tick, Sooner, IInv, Calls
  <2>4. asleep[k] = 1
    <3>1. PICK a \in Nat : a = asleep[k]
      BY <2>2
    <3>2. a # 0 /\ Max({a - 1, 0}) = 0
      BY <1>1, <2>1, <2>3, <3>1
    <3>3. a - 1 \in Int /\ 0 \in Int
      BY <3>1
    <3>4. Max({a - 1, 0}) = IF a - 1 >= 0 THEN a - 1 ELSE 0
      BY <3>3, MaxOfTwo
    <3> QED BY <3>1, <3>2, <3>4
  <2> QED BY <1>6, <2>1, <2>4
<1>7. CASE UNCHANGED <<pc, asleep>>
  BY <1>1, <1>7
<1> QED BY <1>5, <1>6, <1>7 DEF Next, vars, callVars

\* A slot begins a slot after the last one of its proxy, and alone.
LEMMA SlotBegins ==
    ASSUME IInv, [Next]_vars, NEW k \in Keys, Begins(k)
    PROVE  Apart(k)
<1>1. PICK q \in Ports : q = proxy[k]
  BY BeginsBy
<1>2. since[q] \in 0 .. Slot /\ next[q] \in Nat /\ since[q] + next[q] >= Slot
  BY DEF IInv, Clocks, Slots
<1>3. CASE pc[k] # "reserved"
  <2>1. next[q] = 0 /\ \A j \in Keys \ {k} : ~Begins(j)
    BY <1>1, <1>3, BeginsBy
  <2> QED BY <1>1, <1>2, <1>3, <2>1, Durations DEF Apart
<1>4. CASE pc[k] = "reserved"
  <2>1. asleep[k] = 1 /\ ToCome(k, q)
    BY <1>1, <1>4, BeginsBy DEF ToCome, Reserved
  <2>2. OwnSlot(k, q)
    BY <2>1 DEF IInv, Slots
  <2>3. since[q] + 1 >= Slot
    BY <2>1, <2>2 DEF OwnSlot
  <2>4. ASSUME NEW j \in Keys \ {k}, Begins(j), proxy[j] = q PROVE FALSE
    <3>1. pc[j] = "reserved"
      BY <1>4, <2>4, BeginsBy, k \in Keys \ {j}
    <3>2. asleep[j] = 1 /\ ToCome(j, q)
      BY <2>4, <3>1, BeginsBy DEF ToCome, Reserved
    <3> QED BY <2>1, <2>2, <3>2, Durations DEF OwnSlot
  <2> QED BY <1>1, <1>4, <2>3, <2>4 DEF Apart
<1> QED BY <1>3, <1>4

\* The slots of a proxy begin a slot apart, no request leaves before its own,
\* and after a 429 only those that had their slot before are sent.
THEOREM SlotsArePaced == Spec => Paced
<1>1. IInv /\ [Next]_vars => \A k \in Keys : Sends(k) => asleep[k] = 0
  <2> SUFFICES ASSUME IInv, [Next]_vars, NEW k \in Keys, Sends(k)
               PROVE  asleep[k] = 0
    OBVIOUS
  <2>1. pc[k] = "reserved" /\ pc'[k] = "sent" /\ pc \in [Keys -> Steps]
    BY DEF Sends, IInv, Calls
  <2>2. PICK j \in Keys : Thread(j)
    BY <2>1 DEF Next, Tick, callVars, vars
  <2>3. \A where : Goto(j, where) => j = k \/ pc'[k] = pc[k]
    BY <2>1 DEF Goto
  <2>4. CASE j # k
    <3>1. UNCHANGED pc \/ \E where : Goto(j, where)
      BY <2>2 DEF Thread, Call, Direct, Throttle, DirectAnswer, Cooled, StillCool, Ends, On429,
                  Again, Acquire, Wait, Send, PoolAnswer, Retry
    <3> QED BY <2>1, <2>3, <2>4, <3>1
  <2>5. CASE j = k
    <3>1. Send(k)
      BY <2>1, <2>2, <2>5 DEF Thread, Call, Direct, Throttle, DirectAnswer, Cooled, StillCool,
                  Acquire, Wait, PoolAnswer
    <3> QED BY <3>1 DEF Send, Awake
  <2> QED BY <2>4, <2>5
<1>2. IInv => \A k \in Keys : pc[k] = "reserved" => (hot[proxy[k]] > 0 => k \in early)
  BY DEF IInv, Calls, Slots, Reserved
<1>3. IInv /\ [Next]_vars =>
         [\A k \in Keys : /\ Begins(k) => Apart(k)
                          /\ Sends(k) => asleep[k] = 0 /\ (hot[proxy[k]] > 0 => k \in early)]_vars
  BY <1>1, <1>2, SlotBegins DEF Sends
<1>4. Spec => [][Next]_vars
  BY DEF Spec
<1> QED BY <1>3, <1>4, Invariance, PTL DEF Paced

\* A build that fails puts Merge.yaml back.
THEOREM MergeIsRestored == Spec => []MergeRestored
<1>1. IInv => MergeRestored
  BY DEF IInv, BuildOK
<1> QED BY <1>1, Invariance, PTL
-----------------------------------------------------------------------------
(* The types: what the threads and the proxies count, and how long a thread *)
(* sleeps at most, which depends on how long the queue for a slot becomes.  *)

\* Without a pool nobody is on the way to a proxy; with one, whoever has a
\* proxy has one of the pool.
PoolUse ==
    /\ rr \in 0 .. Len(pool)
    /\ \A k \in Keys : assigned[k] \in Range(pool) \cup {None}
    /\ \A k \in Keys : pc[k] \in {"bucket", "reserved"} => proxy[k] \in Range(pool)
    /\ ~Pooled => /\ rr = 0
                  /\ \A k \in Keys : /\ assigned[k] = None
                                     /\ pc[k] \notin {"acquire", "bucket", "reserved"}

Counts ==
    /\ fails \in [Ports -> 0 .. 3]
    /\ attempt \in [Keys -> 0 .. MaxRetries]
    /\ \A k \in Keys : pc[k] # "idle" => attempt[k] > 0
    /\ stall \in [Keys -> 0 .. StallMax - 1]

Rates ==
    /\ rate \in 1 .. Normal
    /\ tokens \in 0 .. Normal
    /\ elapsed \in {0, 1}
    /\ coolLeft \in Nat

Sleeps ==
    /\ asleep \in [Keys -> 0 .. MaxSleep]
    /\ \A p \in Ports : cold[p] <= Cool429

\* The slots of a proxy that are taken: the next one is not further away than
\* those of the threads that are still to send, after a cooldown, however far
\* ahead one looks.
Behind(p, x) == {k \in Keys : Reserved(k, p) /\ asleep[k] >= x}
InTime(p, x, n) ==
    next[p] <= Cool429 + Slot * n \/ next[p] <= x - 1 + Slot + Slot * n
Queues == \A p \in Ports, x \in Nat \ {0} : InTime(p, x, Cardinality(Behind(p, x)))

TInv == PoolUse /\ Counts /\ Rates /\ Sleeps /\ Queues

\* What the constants are.
LEMMA Parameters ==
    /\ IsFiniteSet(Keys) /\ None \notin Ports
    /\ Slot \in Nat \ {0} /\ Cool429 \in Nat \ {0}
    /\ Normal \in Nat \ {0} /\ MaxRetries \in Nat \ {0} /\ StallMax \in Nat \ {0}
    /\ Cool \in Nat /\ Pause429 \in Nat /\ PauseFail \in Nat
    /\ PoolPause \in Nat /\ NonePause \in Nat
BY PoolAssumption, ClientAssumption DEF PoolAssumption, ClientAssumption

\* One more in the queue takes one more slot.
LEMMA OneMore ==
    ASSUME NEW n \in Nat
    PROVE  Slot * n \in Nat /\ Slot * (n + 1) = Slot * n + Slot
<1>1. Slot \in Nat
  BY Parameters
<1> QED BY <1>1

\* A longer queue takes no less time.
LEMMA Monotone ==
    ASSUME NEW a \in Nat, NEW b \in Nat, a <= b
    PROVE  Slot * a \in Nat /\ Slot * b \in Nat /\ Slot * a <= Slot * b
<1>1. Slot \in Nat
  BY Parameters
<1>2. PICK d \in Nat : b = a + d
  <2>1. b - a \in Nat /\ b = a + (b - a)
    OBVIOUS
  <2> QED BY <2>1
<1>3. Slot * b = Slot * a + Slot * d /\ Slot * a \in Nat /\ Slot * d \in Nat
  BY <1>1, <1>2
<1> QED BY <1>3

\* There are finitely many threads, and no more of them in any queue.
LEMMA KeyCount ==
    ASSUME NEW S, S \subseteq Keys
    PROVE  /\ IsFiniteSet(S) /\ Cardinality(S) \in Nat /\ Cardinality(Keys) \in Nat
           /\ Cardinality(S) <= Cardinality(Keys)
BY Parameters, FS_Subset, FS_CardinalityType

\* No pause and no queue is longer than MaxSleep.
LEMMA LongestSleep ==
    /\ MaxSleep \in Nat
    /\ Cool429 + Slot * Cardinality(Keys) <= MaxSleep
    /\ Pause429 <= MaxSleep /\ PauseFail <= MaxSleep /\ PoolPause <= MaxSleep
    /\ NonePause <= MaxSleep /\ 1 <= MaxSleep
<1> DEFINE q == Cool429 + Slot * Cardinality(Keys)
           S == {q, Pause429, PauseFail, PoolPause, NonePause, 1}
<1>1. q \in Nat
  <2>1. Cardinality(Keys) \in Nat
    BY KeyCount
  <2>2. Slot * Cardinality(Keys) \in Nat
    BY <2>1, OneMore
  <2> QED BY <2>2, Parameters
<1>2. S \in SUBSET Nat
  <2> HIDE DEF q
  <2> QED BY <1>1, Parameters
<1>3. \E x \in S : \A y \in S : x >= y
  <2> HIDE DEF q
  <2> DEFINE two(a, b) == IF a >= b THEN a ELSE b
             m == two(two(two(q, Pause429), two(PauseFail, PoolPause)), two(NonePause, 1))
  <2>1. /\ m \in S /\ m >= q /\ m >= Pause429 /\ m >= PauseFail
        /\ m >= PoolPause /\ m >= NonePause /\ m >= 1
    BY <1>1, Parameters
  <2> HIDE DEF m
  <2> QED BY <2>1
<1>4. MaxSleep = Max(S)
  BY DEF MaxSleep
<1>5. MaxSleep \in S /\ \A y \in S : MaxSleep >= y
  <2> HIDE DEF S
  <2> QED BY <1>3, <1>4 DEF Max
<1> HIDE DEF q
<1>6. MaxSleep \in Nat
  <2> HIDE DEF S
  <2> QED BY <1>2, <1>5
<1>7. q <= MaxSleep
  BY <1>1, <1>5, <1>6
<1> QED BY <1>5, <1>6, <1>7, Parameters DEF q

\* A pause that doubles stays below its bound.
LEMMA DoublingEffect ==
    ASSUME NEW k \in Keys, attempt[k] \in Nat \ {0}, NEW most \in Nat
    PROVE  Doubling(k, most) \in 0 .. most
<1>1. Power2[attempt[k] - 1] \in Nat
  BY Powers
<1> DEFINE e == Power2[attempt[k] - 1]
<1>2. Min({e, most}) = IF e <= most THEN e ELSE most
  <2> HIDE DEF e
  <2>1. e \in Nat
    BY <1>1 DEF e
  <2> QED BY <2>1, MinOfTwo
<1> QED BY <1>1, <1>2 DEF Doubling

-----------------------------------------------------------------------------
(* One part of TInv after a thread moves.                                  *)

\* The pool in use, after a move that leaves the pool alone.
LEMMA MovePoolUse ==
    ASSUME Calls, PoolUse, NEW k \in Keys, NEW where,
           pc' = [pc EXCEPT ![k] = where],
           where \in {"bucket", "reserved"} => proxy'[k] \in Range(pool),
           where \in {"acquire", "bucket", "reserved"} => Pooled,
           \A j \in Keys \ {k} : proxy'[j] = proxy[j],
           UNCHANGED <<pool, rr, assigned, build>>
    PROVE  PoolUse'
<1>1. \A j \in Keys \ {k} : pc'[j] = pc[j]
  BY DEF Calls
<1>2. pc'[k] = where
  BY DEF Calls
<1>3. Pooled' = Pooled /\ Range(pool)' = Range(pool)
  BY DEF Pooled, Range
<1>4. \A j \in Keys : pc'[j] \in {"bucket", "reserved"} => proxy'[j] \in Range(pool)
  BY <1>1, <1>2 DEF PoolUse
<1>5. ~Pooled => \A j \in Keys : pc'[j] \notin {"acquire", "bucket", "reserved"}
  BY <1>1, <1>2 DEF PoolUse
<1> HIDE DEF Pooled
<1> QED BY <1>3, <1>4, <1>5 DEF PoolUse

\* The counters, after a move with an attempt within the limit.
LEMMA MoveCounts ==
    ASSUME Calls, Counts, NEW k \in Keys, NEW where, NEW n \in 1 .. MaxRetries,
           pc' = [pc EXCEPT ![k] = where],
           attempt' = [attempt EXCEPT ![k] = n],
           UNCHANGED <<fails, stall>>
    PROVE  Counts'
<1>1. attempt' \in [Keys -> 0 .. MaxRetries] /\ attempt'[k] > 0
  BY DEF Counts
<1>2. \A j \in Keys \ {k} : pc'[j] = pc[j] /\ attempt'[j] = attempt[j]
  BY DEF Counts, Calls
<1> QED BY <1>1, <1>2 DEF Counts

\* The sleeps, after a move with a pause that is not too long.
LEMMA MoveSleeps ==
    ASSUME Sleeps, NEW k \in Keys, NEW n \in 0 .. MaxSleep,
           SleepFor(k, n) \/ UNCHANGED asleep,
           UNCHANGED cold
    PROVE  Sleeps'
<1>1. asleep' \in [Keys -> 0 .. MaxSleep]
  BY DEF Sleeps, SleepFor
<1>2. MaxSleep' = MaxSleep
  BY DEF MaxSleep
<1> QED BY <1>1, <1>2 DEF Sleeps

\* A queue for a proxy only grows when a slot is taken.
LEMMA MoveQueues ==
    ASSUME Calls, Queues, Clocks, NEW k \in Keys, NEW where, where # "reserved",
           pc[k] # "reserved" \/ asleep[k] = 0,
           pc' = [pc EXCEPT ![k] = where],
           \A j \in Keys \ {k} : asleep'[j] = asleep[j] /\ proxy'[j] = proxy[j],
           next' \in [Ports -> Nat],
           \A p \in Ports : next'[p] <= next[p] \/ next'[p] <= Cool429
    PROVE  Queues'
<1>1. ASSUME NEW p \in Ports, NEW x \in Nat \ {0}
      PROVE  Behind(p, x)' = Behind(p, x)
  <2>1. \A j \in Keys \ {k} : Reserved(j, p)' <=> Reserved(j, p)
    BY DEF Reserved, Calls
  <2>2. ~Reserved(k, p)' /\ ~(Reserved(k, p) /\ asleep[k] >= x)
    BY DEF Reserved, Calls
  <2> QED BY <2>1, <2>2 DEF Behind
<1>2. ASSUME NEW p \in Ports, NEW x \in Nat \ {0}
      PROVE  InTime(p, x, Cardinality(Behind(p, x)))'
  <2>1. PICK n : n = Cardinality(Behind(p, x))
    OBVIOUS
  <2>2. n \in Nat
    BY <2>1, KeyCount DEF Behind
  <2>3. InTime(p, x, n)
    BY <2>1 DEF Queues
  <2>4. next[p] \in Nat /\ next'[p] \in Nat /\ Slot * n \in Nat
    BY <2>2, OneMore DEF Clocks
  <2>5. next'[p] <= Cool429 + Slot * n \/ next'[p] <= x - 1 + Slot + Slot * n
    BY <2>3, <2>4, Parameters DEF InTime
  <2> QED BY <1>1, <2>1, <2>5 DEF InTime
<1> QED BY <1>2 DEF Queues

\* The attempts of a thread: it goes on from one to the next, and no further
\* than the last.
LEMMA DirectAttempt ==
    ASSUME Calls, Counts, NEW k \in Keys, Direct(k)
    PROVE  \E n \in 1 .. MaxRetries : attempt' = [attempt EXCEPT ![k] = n]
<1>1. attempt[k] \in 1 .. MaxRetries
  BY DirectMove, Parameters DEF Counts
<1>2. CASE UNCHANGED attempt
  BY <1>1, <1>2 DEF Counts
<1>3. CASE attempt[k] < MaxRetries /\ attempt' = [attempt EXCEPT ![k] = @ + 1]
  <2>1. attempt[k] + 1 \in 1 .. MaxRetries
    BY <1>1, <1>3, Parameters
  <2> QED BY <1>3, <2>1
<1> QED BY <1>2, <1>3 DEF Direct, Throttle, DirectAnswer, Cooled, StillCool, Ends, On429, Again

-----------------------------------------------------------------------------
(* The shared bucket.                                                      *)

\* The rate recovers up to the normal one, and falls to one at least.
LEMMA RateBounds ==
    ASSUME Rates
    PROVE  NewRate \in 1 .. Normal /\ Refilled \in 0 .. Normal /\ Halved \in 1 .. Normal
<1>1. rate \in 1 .. Normal /\ tokens \in 0 .. Normal /\ elapsed \in {0, 1} /\ Normal \in Nat \ {0}
  BY Parameters DEF Rates
<1>2. rate + 1 \in Nat /\ (rate * 5) \div 4 \in Nat /\ rate \div 2 \in Nat /\ rate \div 2 <= rate
  BY <1>1
<1>3. Max({rate + 1, (rate * 5) \div 4}) \in Nat \ {0}
  <2> DEFINE a == rate + 1
             b == (rate * 5) \div 4
  <2>1. a \in Nat \ {0} /\ b \in Nat
    BY <1>1, <1>2
  <2>2. Max({a, b}) = IF a >= b THEN a ELSE b
    <3> HIDE DEF a, b
    <3> QED BY <2>1, MaxOfTwo
  <2> QED BY <2>1, <2>2
<1>4. Recovered \in 1 .. Normal
  BY <1>1, <1>3, MinOfTwo DEF Recovered
<1>5. NewRate \in 1 .. Normal
  BY <1>1, <1>4 DEF NewRate
<1>6. elapsed * NewRate \in Nat
  <2>1. elapsed = 0 \/ elapsed = 1
    BY <1>1
  <2>2. NewRate \in Nat
    BY <1>5
  <2> QED BY <2>1, <2>2
<1>7. tokens + elapsed * NewRate \in Nat /\ NewRate \in Nat
  BY <1>1, <1>5, <1>6
<1>8. Refilled \in 0 .. Normal
  <2> DEFINE t == tokens + elapsed * NewRate
  <2>1. Refilled = Min({NewRate, t}) /\ t \in Nat
    BY <1>7 DEF Refilled
  <2> HIDE DEF t
  <2> QED BY <1>1, <1>5, <2>1, MinOfTwo
<1>9. Halved \in 1 .. Normal
  <2> DEFINE h == rate \div 2
  <2>1. Halved = Max({1, h}) /\ h \in Nat /\ h <= rate
    BY <1>2 DEF Halved
  <2> HIDE DEF h
  <2> QED BY <1>1, <2>1, MaxOfTwo
<1> QED BY <1>5, <1>8, <1>9

\* The shared bucket stays within its rate.
LEMMA DirectRates ==
    ASSUME Rates, NEW k \in Keys, Direct(k)
    PROVE  Rates'
<1>1. CASE Throttle(k)
  <2>1. rate' \in 1 .. Normal /\ elapsed' = 0 /\ coolLeft' = coolLeft
    BY <1>1, RateBounds DEF Throttle
  <2>2. tokens' \in 0 .. Normal
    <3>1. /\ Refilled \in 0 .. Normal
          /\ \/ Refilled >= 1 /\ tokens' = Refilled - 1
             \/ tokens' = Refilled
      BY <1>1, RateBounds DEF Throttle
    <3> HIDE DEF Refilled
    <3> QED BY <3>1, Parameters
  <2> QED BY <2>1, <2>2 DEF Rates
<1>2. CASE UNCHANGED rateVars
  BY <1>2 DEF Rates, rateVars
<1>3. CASE On429(k)
  <2>1. rate' \in 1 .. Normal
    BY <1>3, RateBounds DEF On429
  <2> QED BY <1>3, <2>1, Parameters DEF On429, Rates
<1> QED BY <1>1, <1>2, <1>3 DEF Direct, DirectAnswer

\* No pause of a thread is too long.
LEMMA DirectSleeps ==
    ASSUME Calls, Counts, Rates, Sleeps, NEW k \in Keys, Direct(k), UNCHANGED poolVars
    PROVE  Sleeps'
<1>1. attempt[k] \in Nat \ {0}
  BY DirectMove, Parameters DEF Counts
<1>2. 0 \in 0 .. MaxSleep /\ 1 \in 0 .. MaxSleep
  BY LongestSleep
<1>3. \E n \in 0 .. MaxSleep : SleepFor(k, n) \/ UNCHANGED asleep
  <2>1. CASE UNCHANGED asleep \/ SleepFor(k, 1)
    BY <1>2, <2>1
  <2>2. CASE SleepFor(k, Doubling(k, PauseFail))
    <3>1. Doubling(k, PauseFail) \in 0 .. PauseFail
      BY <1>1, Parameters, DoublingEffect
    <3>2. Doubling(k, PauseFail) \in 0 .. MaxSleep
      BY <3>1, LongestSleep, Parameters
    <3> QED BY <2>2, <3>2
  <2>3. CASE SleepFor(k, Doubling(k, Pause429))
    <3>1. Doubling(k, Pause429) \in 0 .. Pause429
      BY <1>1, Parameters, DoublingEffect
    <3>2. Doubling(k, Pause429) \in 0 .. MaxSleep
      BY <3>1, LongestSleep, Parameters
    <3> QED BY <2>3, <3>2
  <2>4. CASE SleepFor(k, Min({coolLeft, 1}))
    <3>1. Min({coolLeft, 1}) \in {0, 1}
      BY MinOfTwo DEF Rates
    <3> QED BY <1>2, <2>4, <3>1
  <2> QED BY <2>1, <2>2, <2>3, <2>4
       DEF Direct, Throttle, DirectAnswer, Cooled, StillCool, Ends, On429, Again
<1> QED BY <1>3, MoveSleeps DEF poolVars

-----------------------------------------------------------------------------
(* The steps.                                                              *)

\* A call begins with its first attempt.
LEMMA CallTypes ==
    ASSUME IInv, TInv, NEW k \in Keys, Call(k), UNCHANGED <<poolVars, buildVars>>
    PROVE  TInv'
<1> DEFINE where == IF Pooled THEN "acquire" ELSE "throttle"
<1>1. /\ pc[k] = "idle" /\ pc' = [pc EXCEPT ![k] = where]
      /\ attempt' = [attempt EXCEPT ![k] = 1]
      /\ UNCHANGED <<proxy, asleep, stall, rateVars>>
      /\ UNCHANGED <<pool, rr, assigned, build, fails, cold, next>>
  BY DEF Call, Goto, poolVars, buildVars
<1>2. where \notin {"bucket", "reserved"} /\ (where = "acquire" => Pooled)
  OBVIOUS
<1> HIDE DEF where
<1>3. PoolUse'
  BY <1>1, <1>2, MovePoolUse DEF IInv, TInv
<1>4. Counts'
  <2>1. 1 \in 1 .. MaxRetries
    BY Parameters
  <2> QED BY <1>1, <2>1, MoveCounts DEF IInv, TInv
<1>5. Rates'
  BY <1>1 DEF TInv, Rates, rateVars
<1>6. Sleeps'
  BY <1>1, LongestSleep, MoveSleeps DEF TInv
<1>7. Queues'
  <2>1. next' \in [Ports -> Nat] /\ \A p \in Ports : next'[p] <= next[p]
    BY <1>1 DEF IInv, Clocks
  <2> QED BY <1>1, <1>2, <2>1, MoveQueues DEF IInv, TInv
<1> QED BY <1>3, <1>4, <1>5, <1>6, <1>7 DEF TInv

\* A step of a thread on the shared bucket.
LEMMA DirectTypes ==
    ASSUME IInv, TInv, NEW k \in Keys, Direct(k), UNCHANGED <<poolVars, buildVars>>
    PROVE  TInv'
<1>1. /\ UNCHANGED <<proxy, stall>>
      /\ UNCHANGED <<pool, rr, assigned, build, fails, cold, next>>
  BY DEF Direct, Throttle, DirectAnswer, poolVars, buildVars
<1>2. PICK where \in {"throttle", "sent", "cool", "ok", "error"} : pc' = [pc EXCEPT ![k] = where]
  BY DirectMove DEF IInv
<1>3. pc[k] \in {"throttle", "sent", "cool"}
  BY DirectMove DEF IInv
<1>4. PoolUse'
  BY <1>1, <1>2, MovePoolUse DEF IInv, TInv
<1>5. Counts'
  BY <1>1, <1>2, DirectAttempt, MoveCounts DEF IInv, TInv
<1>6. Rates'
  BY DirectRates DEF TInv
<1>7. Sleeps'
  BY DirectSleeps DEF IInv, TInv
<1>8. Queues'
  <2>1. next' \in [Ports -> Nat] /\ \A p \in Ports : next'[p] <= next[p]
    BY <1>1 DEF IInv, Clocks
  <2>2. \E n : SleepFor(k, n) \/ UNCHANGED asleep
    BY DEF Direct, Throttle, DirectAnswer, Cooled, StillCool, Ends, On429, Again
  <2>3. \A j \in Keys \ {k} : asleep'[j] = asleep[j] /\ proxy'[j] = proxy[j]
    BY <1>1, <2>2, SleepEffect DEF IInv
  <2> QED BY <1>2, <1>3, <2>1, <2>3, MoveQueues DEF IInv, TInv
<1> QED BY <1>4, <1>5, <1>6, <1>7, <1>8 DEF TInv

\* What is assigned is a proxy of the pool.
LEMMA AssignUse ==
    ASSUME PoolOK, PoolUse, NEW k \in Keys, Assign(k)
    PROVE  /\ rr' \in 0 .. Len(pool)
           /\ assigned'[k] \in Range(pool)
           /\ \A j \in Keys \ {k} : assigned'[j] = assigned[j]
<1>1. CASE Keeps(k) /\ UNCHANGED <<assigned, rr>>
  BY <1>1 DEF Keeps, PoolUse
<1>2. CASE FreeAt(k) # {} /\ assigned' = [assigned EXCEPT ![k] = pool[Min(FreeAt(k))]] /\ UNCHANGED rr
  <2>1. FreeAt(k) \in SUBSET Nat /\ FreeAt(k) \subseteq DOMAIN pool
    BY DEF FreeAt, HealthyAt, PoolOK
  <2>2. Min(FreeAt(k)) \in DOMAIN pool
    BY <1>2, <2>1, LeastOf
  <2>3. pool[Min(FreeAt(k))] \in Range(pool)
    BY <2>2 DEF Range
  <2> QED BY <1>2, <2>3 DEF PoolOK, PoolUse
<1>3. CASE assigned' = [assigned EXCEPT ![k] = pool[Round]] /\ rr' = Round - 1
  <2>1. Round \in 1 .. Len(pool) /\ Round \in DOMAIN pool
    BY RoundIsHealthy DEF Assign, HealthyAt, PoolOK
  <2>2. pool[Round] \in Range(pool)
    BY <2>1 DEF Range
  <2>3. rr' \in 0 .. Len(pool)
    BY <1>3, <2>1 DEF PoolOK
  <2> QED BY <1>3, <2>2, <2>3 DEF PoolOK
<1> QED BY <1>1, <1>2, <1>3 DEF Assign

\* A thread gets a proxy of the pool, or pauses, or gives up.
LEMMA AcquireTypes ==
    ASSUME IInv, TInv, NEW k \in Keys, Acquire(k), UNCHANGED buildVars
    PROVE  TInv'
<1>1. /\ pc[k] = "acquire" /\ Pooled
      /\ UNCHANGED <<attempt, rateVars, pool, build, fails, cold, next>>
      /\ Pooled' = Pooled
  BY DEF Acquire, Assign, Unassign, buildVars, TInv, PoolUse, Pooled
<1>2. \E where \in {"acquire", "bucket", "error"} : pc' = [pc EXCEPT ![k] = where]
  <2>1. UNCHANGED pc => pc' = [pc EXCEPT ![k] = "acquire"]
    BY <1>1 DEF IInv, Calls
  <2> QED BY <2>1 DEF Acquire, Goto
<1>3. \A j \in Keys \ {k} : pc'[j] = pc[j] /\ proxy'[j] = proxy[j] /\ assigned'[j] = assigned[j]
  <2>1. \A j \in Keys \ {k} : pc'[j] = pc[j]
    BY <1>2 DEF IInv, Calls
  <2>2. \A j \in Keys \ {k} : proxy'[j] = proxy[j]
    BY DEF Acquire, IInv, Calls
  <2>3. Assign(k) => \A j \in Keys \ {k} : assigned'[j] = assigned[j]
    BY AssignUse DEF IInv, TInv
  <2>4. Unassign(k) => \A j \in Keys \ {k} : assigned'[j] = assigned[j]
    BY DEF Unassign, IInv, PoolOK
  <2> QED BY <2>1, <2>2, <2>3, <2>4 DEF Acquire
<1>4. /\ rr' \in 0 .. Len(pool)
      /\ assigned'[k] \in Range(pool) \cup {None}
      /\ pc'[k] = "bucket" => proxy'[k] \in Range(pool)
  <2>1. CASE /\ Assign(k) /\ proxy' = [proxy EXCEPT ![k] = assigned'[k]]
    <3>1. proxy'[k] = assigned'[k]
      BY <2>1 DEF IInv, Calls
    <3> QED BY <2>1, <3>1, AssignUse DEF IInv, TInv
  <2>2. CASE Unassign(k) /\ (UNCHANGED pc \/ Goto(k, "error"))
    <3>1. assigned'[k] = None /\ rr' = rr
      BY <2>2 DEF Unassign, IInv, PoolOK
    <3>2. pc'[k] # "bucket"
      BY <1>1, <2>2 DEF Goto, IInv, Calls
    <3> QED BY <3>1, <3>2 DEF TInv, PoolUse
  <2> QED BY <2>1, <2>2 DEF Acquire
<1>5. PoolUse'
  <2>1. pc'[k] \in {"acquire", "bucket", "error"}
    BY <1>2 DEF IInv, Calls
  <2>2. \A j \in Keys : pc'[j] \in {"bucket", "reserved"} => proxy'[j] \in Range(pool)
    BY <1>3, <1>4, <2>1 DEF TInv, PoolUse
  <2>3. \A j \in Keys : assigned'[j] \in Range(pool) \cup {None}
    BY <1>3, <1>4 DEF TInv, PoolUse
  <2> HIDE DEF Pooled
  <2> QED BY <1>1, <1>4, <2>2, <2>3 DEF PoolUse
<1>6. Counts'
  <2>1. stall' \in [Keys -> 0 .. StallMax - 1]
    <3>1. 0 \in 0 .. StallMax - 1
      BY Parameters
    <3>2. stall[k] + 1 < StallMax => stall[k] + 1 \in 0 .. StallMax - 1
      BY Parameters DEF TInv, Counts
    <3> QED BY <3>1, <3>2 DEF Acquire, TInv, Counts
  <2>2. \A j \in Keys : pc'[j] # "idle" => pc[j] # "idle"
    BY <1>1, <1>3
  <2> QED BY <1>1, <2>1, <2>2 DEF TInv, Counts
<1>7. Rates'
  BY <1>1 DEF TInv, Rates, rateVars
<1>8. \E n \in 0 .. MaxSleep : SleepFor(k, n) \/ UNCHANGED asleep
  <2>1. NonePause \in 0 .. MaxSleep
    BY LongestSleep, Parameters
  <2> QED BY <2>1 DEF Acquire
<1>9. Sleeps'
  BY <1>1, <1>8, MoveSleeps DEF TInv
<1>10. Queues'
  <2>1. next' \in [Ports -> Nat] /\ \A p \in Ports : next'[p] <= next[p]
    BY <1>1 DEF IInv, Clocks
  <2>2. \A j \in Keys \ {k} : asleep'[j] = asleep[j] /\ proxy'[j] = proxy[j]
    BY <1>3, <1>8, SleepEffect DEF IInv
  <2> QED BY <1>1, <1>2, <2>1, <2>2, MoveQueues DEF IInv, TInv
<1> QED BY <1>5, <1>6, <1>7, <1>9, <1>10 DEF TInv

\* The sleep before a slot: as many slots as there are threads, after a
\* cooldown, when this thread does not hold one yet.
LEMMA QueueBound ==
    ASSUME Clocks, Queues, NEW k \in Keys, pc[k] # "reserved", NEW p \in Ports
    PROVE  next[p] \in 0 .. MaxSleep
<1>1. PICK n : n = Cardinality(Behind(p, 1))
  OBVIOUS
<1>2. n \in Nat /\ Cardinality(Keys) \in Nat /\ n + 1 <= Cardinality(Keys)
  <2>1. Behind(p, 1) \subseteq Keys /\ k \notin Behind(p, 1)
    BY DEF Behind, Reserved
  <2>2. IsFiniteSet(Behind(p, 1)) /\ n \in Nat /\ Cardinality(Keys) \in Nat
    BY <1>1, <2>1, KeyCount
  <2>3. Cardinality(Behind(p, 1) \cup {k}) = n + 1
    BY <1>1, <2>1, <2>2, FS_AddElement
  <2>4. Cardinality(Behind(p, 1) \cup {k}) <= Cardinality(Keys)
    BY <2>1, KeyCount
  <2> QED BY <2>2, <2>3, <2>4
<1>3. InTime(p, 1, n)
  BY <1>1 DEF Queues
<1>4. PICK a, b \in Nat : a = Slot * n /\ b = Slot * Cardinality(Keys) /\ a + Slot <= b
  <2>1. Slot * n \in Nat /\ Slot * (n + 1) = Slot * n + Slot
    BY <1>2, OneMore
  <2>2. n + 1 \in Nat
    BY <1>2
  <2>3. Slot * Cardinality(Keys) \in Nat /\ Slot * (n + 1) <= Slot * Cardinality(Keys)
    BY <1>2, <2>2, Monotone
  <2> QED BY <2>1, <2>3
<1>5. next[p] <= Cool429 + a \/ next[p] <= Slot + a
  <2>1. next[p] <= Cool429 + a \/ next[p] <= 1 - 1 + Slot + a
    BY <1>3, <1>4 DEF InTime
  <2> QED BY <2>1, <1>4, Parameters
<1>6. Cool429 + b <= MaxSleep /\ MaxSleep \in Nat
  BY <1>4, LongestSleep
<1> QED BY <1>4, <1>5, <1>6, Parameters DEF Clocks

\* A thread sleeps out a cooldown, or until its slot: the queue is one longer.
LEMMA WaitTypes ==
    ASSUME IInv, TInv, NEW k \in Keys, Wait(k), UNCHANGED buildVars
    PROVE  TInv'
<1>0. PICK q \in Ports : q = proxy[k]
  BY DEF Wait, IInv, Calls
<1>1. /\ pc[k] = "bucket" /\ Pooled
      /\ UNCHANGED <<attempt, proxy, stall, rateVars, pool, rr, assigned, build, fails, cold>>
  BY DEF Wait, poolVars, Reserve, buildVars, TInv, PoolUse
<1>2. PICK where \in {"bucket", "reserved"} : pc' = [pc EXCEPT ![k] = where]
  <2>1. UNCHANGED pc => pc' = [pc EXCEPT ![k] = "bucket"]
    BY <1>1 DEF IInv, Calls
  <2> QED BY <2>1 DEF Wait, Goto
<1>3. PoolUse'
  <2>1. proxy'[k] \in Range(pool)
    BY <1>1 DEF TInv, PoolUse
  <2> QED BY <1>1, <1>2, <2>1, MovePoolUse DEF IInv, TInv
<1>4. Counts'
  <2>1. attempt[k] \in 1 .. MaxRetries /\ attempt' = [attempt EXCEPT ![k] = attempt[k]]
    BY <1>1, Parameters DEF TInv, Counts
  <2> QED BY <1>1, <1>2, <2>1, MoveCounts DEF IInv, TInv
<1>5. Rates'
  BY <1>1 DEF TInv, Rates, rateVars
<1>6. Sleeps'
  <2>1. cold[q] \in 0 .. MaxSleep
    <3>1. cold[q] \in Nat /\ cold[q] <= Cool429
      BY DEF IInv, Clocks, TInv, Sleeps
    <3>2. Slot * Cardinality(Keys) \in Nat
      BY KeyCount, OneMore
    <3> QED BY <3>1, <3>2, LongestSleep, Parameters
  <2>2. next[q] \in 0 .. MaxSleep
    BY <1>1, QueueBound DEF IInv, TInv
  <2>3. SleepFor(k, cold[q]) \/ SleepFor(k, next[q])
    BY <1>0 DEF Wait
  <2> QED BY <1>1, <2>1, <2>2, <2>3, MoveSleeps DEF TInv
<1>7. CASE SleepFor(k, cold[q]) /\ UNCHANGED <<pc, poolVars>>
  <2>1. next' \in [Ports -> Nat] /\ \A p \in Ports : next'[p] <= next[p]
    BY <1>7 DEF IInv, Clocks, poolVars
  <2>2. \A j \in Keys \ {k} : asleep'[j] = asleep[j] /\ proxy'[j] = proxy[j]
    BY <1>1, <1>7, SleepEffect DEF IInv
  <2>3. pc' = [pc EXCEPT ![k] = "bucket"]
    BY <1>1, <1>7 DEF IInv, Calls
  <2>4. Queues'
    BY <1>1, <2>1, <2>2, <2>3, MoveQueues DEF IInv, TInv
  <2> QED BY <1>3, <1>4, <1>5, <1>6, <2>4 DEF TInv
<1>8. CASE Reserve(q) /\ SleepFor(k, next[q]) /\ Goto(k, "reserved")
  <2>1. /\ next' = [next EXCEPT ![q] = next[q] + Slot] /\ next[q] \in Nat
        /\ \A p \in Ports : next'[p] = IF p = q THEN next[q] + Slot ELSE next[p]
    BY <1>8 DEF Reserve, TakeSlot, IInv, Clocks
  <2>2. asleep'[k] = next[q] /\ \A j \in Keys \ {k} : asleep'[j] = asleep[j]
    BY <1>8 DEF SleepFor, IInv, Calls
  <2>3. \A j \in Keys \ {k}, p \in Ports : Reserved(j, p)' <=> Reserved(j, p)
    BY <1>1, <1>8 DEF Reserved, IInv, Calls, Goto
  <2>4. \A p \in Ports : ~Reserved(k, p) /\ (Reserved(k, p)' <=> p = q)
    BY <1>0, <1>1, <1>8 DEF Reserved, IInv, Calls, Goto
  <2>5. ASSUME NEW p \in Ports, NEW x \in Nat \ {0}
        PROVE  InTime(p, x, Cardinality(Behind(p, x)))'
    <3>1. PICK n : n = Cardinality(Behind(p, x))
      OBVIOUS
    <3>2. n \in Nat /\ IsFiniteSet(Behind(p, x)) /\ Slot * n \in Nat /\ Slot * (n + 1) = Slot * n + Slot
      BY <3>1, KeyCount, OneMore DEF Behind
    <3>3. InTime(p, x, n)
      BY <3>1 DEF TInv, Queues
    <3>4. CASE p = q /\ x <= next[q]
      <4>1. Behind(p, x)' = Behind(p, x) \cup {k} /\ k \notin Behind(p, x)
        BY <2>2, <2>3, <2>4, <3>4 DEF Behind
      <4>2. Cardinality(Behind(p, x))' = n + 1
        BY <3>1, <3>2, <4>1, FS_AddElement
      <4>3. next'[p] <= Cool429 + Slot * (n + 1) \/ next'[p] <= x - 1 + Slot + Slot * (n + 1)
        BY <2>1, <3>2, <3>3, <3>4, Parameters DEF InTime
      <4> QED BY <4>2, <4>3 DEF InTime
    <3>5. CASE ~(p = q /\ x <= next[q])
      <4>1. Behind(p, x)' = Behind(p, x)
        BY <2>1, <2>2, <2>3, <2>4, <3>5 DEF Behind
      <4>2. next'[p] <= Cool429 + Slot * n \/ next'[p] <= x - 1 + Slot + Slot * n
        BY <2>1, <3>2, <3>3, <3>5, Parameters DEF InTime
      <4> QED BY <3>1, <4>1, <4>2 DEF InTime
    <3> QED BY <3>4, <3>5
  <2>6. Queues'
    BY <2>5 DEF Queues
  <2> QED BY <1>3, <1>4, <1>5, <1>6, <2>6 DEF TInv
<1> QED BY <1>0, <1>7, <1>8 DEF Wait

\* A request that is sent leaves the queue.
LEMMA SendTypes ==
    ASSUME IInv, TInv, NEW k \in Keys, Send(k), UNCHANGED buildVars
    PROVE  TInv'
<1>1. /\ pc[k] = "reserved" /\ asleep[k] = 0 /\ pc' = [pc EXCEPT ![k] = "sent"]
      /\ UNCHANGED <<attempt, proxy, asleep, stall, rateVars>>
      /\ UNCHANGED <<pool, rr, assigned, build, fails, cold, next>>
  BY DEF Send, Awake, Goto, poolVars, buildVars
<1>2. PoolUse'
  BY <1>1, MovePoolUse DEF IInv, TInv
<1>3. Counts'
  <2>1. attempt[k] \in 1 .. MaxRetries /\ attempt' = [attempt EXCEPT ![k] = attempt[k]]
    BY <1>1, Parameters DEF TInv, Counts
  <2> QED BY <1>1, <2>1, MoveCounts DEF IInv, TInv
<1>4. Rates'
  BY <1>1 DEF TInv, Rates, rateVars
<1>5. Sleeps'
  BY <1>1, LongestSleep, MoveSleeps DEF TInv
<1>6. Queues'
  <2>1. next' \in [Ports -> Nat] /\ \A p \in Ports : next'[p] <= next[p]
    BY <1>1 DEF IInv, Clocks
  <2> QED BY <1>1, <2>1, MoveQueues DEF IInv, TInv
<1> QED BY <1>2, <1>3, <1>4, <1>5, <1>6 DEF TInv

\* The failures of a proxy count up to three, and its bucket is cold for
\* Cool429 at most.
LEMMA ReportEffect ==
    ASSUME Clocks, Counts, Sleeps, NEW q, ReportOk(q) \/ Report429(q) \/ ReportFail(q)
    PROVE  /\ fails' \in [Ports -> 0 .. 3]
           /\ \A p \in Ports : cold'[p] <= Cool429
           /\ next' \in [Ports -> Nat]
           /\ \A p \in Ports : next'[p] <= next[p] \/ next'[p] <= Cool429
<1>1. fails' \in [Ports -> 0 .. 3]
  <2>1. CASE fails' = [fails EXCEPT ![q] = 0]
    <3>1. \A p \in Ports : fails'[p] \in 0 .. 3
      BY <2>1 DEF Counts
    <3> QED BY <2>1, <3>1 DEF Counts
  <2>2. CASE fails' = Failed(q)
    <3>1. q \in Ports => Min({fails[q] + 1, 3}) \in 0 .. 3
      <4> SUFFICES ASSUME q \in Ports PROVE Min({fails[q] + 1, 3}) \in 0 .. 3
        OBVIOUS
      <4> DEFINE f == fails[q] + 1
      <4>1. f \in Nat
        BY DEF Counts
      <4> HIDE DEF f
      <4>2. Min({f, 3}) \in 0 .. 3
        BY <4>1, MinOfTwo
      <4> QED BY <4>2 DEF f
    <3> QED BY <2>2, <3>1 DEF Failed, Counts
  <2> QED BY <2>1, <2>2 DEF ReportOk, Report429, ReportFail
<1>2. \A p \in Ports : cold'[p] <= Cool429
  BY Parameters DEF ReportOk, Report429, ReportFail, Clocks, Sleeps
<1>3. next' \in [Ports -> Nat] /\ \A p \in Ports : next'[p] <= next[p] \/ next'[p] <= Cool429
  <2>1. CASE UNCHANGED next
    BY <2>1 DEF Clocks
  <2>2. CASE next' = [next EXCEPT ![q] = Max({next[q], Cool429})]
    <3> DEFINE m(p) == Max({next[p], Cool429})
    <3>1. \A p \in Ports : m(p) \in Nat /\ (m(p) <= next[p] \/ m(p) <= Cool429)
      <4> TAKE p \in Ports
      <4>1. next[p] \in Nat /\ next[p] \in Int /\ Cool429 \in Nat /\ Cool429 \in Int
        BY Durations DEF Clocks
      <4> QED BY <4>1, MaxOfTwo
    <3>2. next' = [next EXCEPT ![q] = m(q)]
      BY <2>2
    <3> HIDE DEF m
    <3>3. \A p \in Ports : next'[p] \in Nat /\ (next'[p] <= next[p] \/ next'[p] <= Cool429)
      BY <3>1, <3>2 DEF Clocks
    <3> QED BY <2>2, <3>3 DEF Clocks
  <2> QED BY <2>1, <2>2 DEF ReportOk, Report429, ReportFail
<1> QED BY <1>1, <1>2, <1>3

\* An answer, and what the client does about it.
LEMMA AnswerTypes ==
    ASSUME IInv, TInv, NEW k \in Keys, PoolAnswer(k), UNCHANGED buildVars
    PROVE  TInv'
<1>1. /\ pc[k] = "sent" /\ Pooled
      /\ UNCHANGED <<proxy, stall, rateVars, pool, rr, assigned, build>>
  BY DEF PoolAnswer, ReportOk, Report429, ReportFail, buildVars
<1>2. PICK where \in {"ok", "error", "acquire"} : pc' = [pc EXCEPT ![k] = where]
  BY DEF PoolAnswer, Ends, Retry, Again, Goto
<1>3. \E q : ReportOk(q) \/ Report429(q) \/ ReportFail(q)
  BY DEF PoolAnswer
<1>4. /\ fails' \in [Ports -> 0 .. 3]
      /\ \A p \in Ports : cold'[p] <= Cool429
      /\ next' \in [Ports -> Nat]
      /\ \A p \in Ports : next'[p] <= next[p] \/ next'[p] <= Cool429
  BY <1>3, ReportEffect DEF IInv, TInv
<1>5. PoolUse'
  BY <1>1, <1>2, MovePoolUse DEF IInv, TInv
<1>6. attempt[k] \in 1 .. MaxRetries
  BY <1>1, Parameters DEF TInv, Counts
<1>7. \E n \in 1 .. MaxRetries : attempt' = [attempt EXCEPT ![k] = n]
  <2>1. CASE UNCHANGED attempt
    BY <1>6, <2>1 DEF TInv, Counts
  <2>2. CASE attempt[k] < MaxRetries /\ attempt' = [attempt EXCEPT ![k] = @ + 1]
    <3>1. attempt[k] + 1 \in 1 .. MaxRetries
      BY <1>6, <2>2, Parameters
    <3> QED BY <2>2, <3>1
  <2> QED BY <2>1, <2>2 DEF PoolAnswer, Retry, Again, Ends
<1>8. Counts'
  <2>1. attempt' \in [Keys -> 0 .. MaxRetries] /\ attempt'[k] > 0
    BY <1>7 DEF TInv, Counts
  <2>2. \A j \in Keys \ {k} : pc'[j] = pc[j] /\ attempt'[j] = attempt[j]
    BY <1>2, <1>7 DEF TInv, Counts, IInv, Calls
  <2> QED BY <1>1, <1>4, <2>1, <2>2 DEF TInv, Counts
<1>9. Rates'
  BY <1>1 DEF TInv, Rates, rateVars
<1>10. SleepFor(k, PoolPause) \/ UNCHANGED asleep
  BY DEF PoolAnswer, Retry, Again, Ends
<1>11. Sleeps'
  <2>1. PoolPause \in 0 .. MaxSleep /\ MaxSleep' = MaxSleep
    BY LongestSleep, Parameters DEF MaxSleep
  <2>2. asleep' \in [Keys -> 0 .. MaxSleep]
    BY <1>10, <2>1 DEF SleepFor, TInv, Sleeps
  <2> QED BY <1>4, <2>1, <2>2 DEF Sleeps
<1>12. Queues'
  <2>1. \A j \in Keys \ {k} : asleep'[j] = asleep[j] /\ proxy'[j] = proxy[j]
    BY <1>1, <1>10, SleepEffect DEF IInv
  <2> QED BY <1>1, <1>2, <1>4, <2>1, MoveQueues DEF IInv, TInv
<1> QED BY <1>5, <1>8, <1>9, <1>11, <1>12 DEF TInv

\* The clock goes on: whoever looks x ahead sees what was x + 1 ahead.
LEMMA TickTypes ==
    ASSUME IInv, TInv, Tick, UNCHANGED buildVars
    PROVE  TInv'
<1>1. /\ UNCHANGED <<pc, attempt, proxy, stall, rate, tokens, pool, rr, assigned, build, fails>>
      /\ elapsed' = 1 /\ coolLeft' = Max({coolLeft - 1, 0})
      /\ asleep' = Sooner(asleep) /\ cold' = Sooner(cold) /\ next' = Sooner(next)
  BY DEF Tick, PoolTick, buildVars
<1>2. asleep \in [Keys -> Nat] /\ cold \in [Ports -> Nat] /\ next \in [Ports -> Nat]
  <2>1. \A k \in Keys : asleep[k] \in Nat
    BY LongestSleep DEF TInv, Sleeps
  <2> QED BY <2>1 DEF IInv, Calls, Clocks
<1>3. /\ asleep' \in [Keys -> Nat]
      /\ \A k \in Keys : asleep'[k] = IF asleep[k] > 0 THEN asleep[k] - 1 ELSE 0
  BY <1>1, <1>2, SoonerEffect
<1>4. /\ \A p \in Ports : cold'[p] = IF cold[p] > 0 THEN cold[p] - 1 ELSE 0
      /\ \A p \in Ports : next'[p] = IF next[p] > 0 THEN next[p] - 1 ELSE 0
  BY <1>1, <1>2, SoonerEffect
<1>5. PoolUse'
  <2>1. Pooled' = Pooled
    BY <1>1 DEF Pooled
  <2> HIDE DEF Pooled
  <2> QED BY <1>1, <2>1 DEF TInv, PoolUse
<1>6. Counts'
  BY <1>1 DEF TInv, Counts
<1>7. Rates'
  <2>1. coolLeft \in Nat /\ coolLeft - 1 \in Int
    BY DEF TInv, Rates
  <2>2. coolLeft' \in Nat
    BY <1>1, <2>1, MaxOfTwo
  <2> QED BY <1>1, <2>2 DEF TInv, Rates
<1>8. Sleeps'
  <2>1. \A k \in Keys : asleep'[k] \in 0 .. MaxSleep
    BY <1>2, <1>3, LongestSleep DEF TInv, Sleeps
  <2>2. \A p \in Ports : cold'[p] <= Cool429
    BY <1>2, <1>4, Parameters DEF TInv, Sleeps
  <2>3. MaxSleep' = MaxSleep
    BY DEF MaxSleep
  <2> QED BY <1>3, <2>1, <2>2, <2>3 DEF Sleeps
<1>9. ASSUME NEW p \in Ports, NEW x \in Nat \ {0}
      PROVE  InTime(p, x, Cardinality(Behind(p, x)))'
  <2>1. PICK n : n = Cardinality(Behind(p, x + 1))
    OBVIOUS
  <2>2. n \in Nat /\ Slot * n \in Nat
    BY <2>1, KeyCount, OneMore DEF Behind
  <2>3. Behind(p, x)' = Behind(p, x + 1)
    <3>1. \A k \in Keys : Reserved(k, p)' <=> Reserved(k, p)
      BY <1>1 DEF Reserved
    <3>2. \A k \in Keys : Reserved(k, p) => (asleep'[k] >= x <=> asleep[k] >= x + 1)
      BY <1>2, <1>3 DEF Reserved
    <3> QED BY <3>1, <3>2 DEF Behind
  <2>4. x + 1 \in Nat \ {0}
    OBVIOUS
  <2>5. InTime(p, x + 1, n)
    BY <2>1, <2>4 DEF TInv, Queues
  <2>6. next'[p] <= Cool429 + Slot * n \/ next'[p] <= x - 1 + Slot + Slot * n
    <3>1. PICK s \in Nat : s = Slot * n
      BY <2>2
    <3>2. next[p] <= Cool429 + s \/ next[p] <= x + 1 - 1 + Slot + s
      BY <2>5, <3>1 DEF InTime
    <3>3. next'[p] <= Cool429 + s \/ next'[p] <= x - 1 + Slot + s
      BY <1>2, <1>4, <3>2, Parameters
    <3> QED BY <3>1, <3>3
  <2> QED BY <2>1, <2>3, <2>6 DEF InTime
<1>10. Queues'
  BY <1>9 DEF Queues
<1> QED BY <1>5, <1>6, <1>7, <1>8, <1>10 DEF TInv

\* A pool that becomes ready finds no thread on the way to a proxy, and a step
\* of nobody changes nothing.
LEMMA RestTypes ==
    ASSUME IInv, TInv,
           \/ Build
           \/ UNCHANGED <<pool, build>>,
           UNCHANGED <<assigned, rr, fails, cold, next, callVars, rateVars>>
    PROVE  TInv'
<1>1. UNCHANGED <<pc, attempt, proxy, asleep, stall>>
  BY DEF callVars
<1>2. Counts'
  BY <1>1 DEF TInv, Counts
<1>3. Rates'
  BY DEF TInv, Rates, rateVars
<1>4. Sleeps'
  <2>1. MaxSleep' = MaxSleep
    BY DEF MaxSleep
  <2> QED BY <1>1, <2>1 DEF TInv, Sleeps
<1>5. Queues'
  <2>1. ASSUME NEW p \in Ports, NEW x \in Nat \ {0}
        PROVE  InTime(p, x, Cardinality(Behind(p, x)))'
    <3>1. Behind(p, x)' = Behind(p, x)
      BY <1>1 DEF Behind, Reserved
    <3>2. PICK n : n = Cardinality(Behind(p, x))
      OBVIOUS
    <3>3. InTime(p, x, n)
      BY <3>2 DEF TInv, Queues
    <3>4. next'[p] <= Cool429 + Slot * n \/ next'[p] <= x - 1 + Slot + Slot * n
      BY <3>3 DEF InTime
    <3> QED BY <3>1, <3>2, <3>4 DEF InTime
  <2> QED BY <2>1 DEF Queues
<1>6. PoolUse'
  <2>1. CASE UNCHANGED <<pool, build>>
    <3>1. Pooled' = Pooled
      BY <2>1 DEF Pooled
    <3> HIDE DEF Pooled
    <3> QED BY <1>1, <2>1, <3>1 DEF TInv, PoolUse
  <2>2. CASE Build
    <3>1. ~Pooled
      BY <2>2 DEF Build, Discover, TestNode, EndTest, Apply, PortsReady, PortsTimeOut, Verify, Pooled
    <3>2. PoolOK'
      BY <2>2, BuildStep DEF IInv
    <3>3. Len(pool') \in Nat
      BY <3>2 DEF PoolOK
    <3> HIDE DEF Pooled
    <3> QED BY <1>1, <3>1, <3>3 DEF TInv, PoolUse
  <2> QED BY <2>1, <2>2
<1> QED BY <1>2, <1>3, <1>4, <1>5, <1>6 DEF TInv

\* Everything starts at nothing.
LEMMA InitTInv ==
    ASSUME Init
    PROVE  TInv
<1>1. /\ pc = [k \in Keys |-> "idle"] /\ attempt = [k \in Keys |-> 0]
      /\ proxy = [k \in Keys |-> None] /\ asleep = [k \in Keys |-> 0]
      /\ stall = [k \in Keys |-> 0] /\ rate = Normal /\ tokens = Normal
      /\ elapsed = 0 /\ coolLeft = 0
  BY DEF Init
<1>2. /\ assigned = [k \in Keys |-> None] /\ rr = 0
      /\ fails = [p \in Ports |-> 0]
      /\ cold = [p \in Ports |-> 0] /\ next = [p \in Ports |-> 0]
  BY DEF Init, PoolInit
<1>3. PoolUse
  <2>1. Len(pool) \in Nat
    BY InitIInv DEF IInv, PoolOK
  <2> QED BY <1>1, <1>2, <2>1 DEF PoolUse
<1>4. Counts
  BY <1>1, <1>2, Parameters DEF Counts
<1>5. Rates
  BY <1>1, Parameters DEF Rates
<1>6. Sleeps
  BY <1>1, <1>2, LongestSleep, Parameters DEF Sleeps
<1>7. Queues
  <2> SUFFICES ASSUME NEW p \in Ports, NEW x \in Nat \ {0}
               PROVE  InTime(p, x, Cardinality(Behind(p, x)))
    BY DEF Queues
  <2>1. PICK n : n = Cardinality(Behind(p, x))
    OBVIOUS
  <2>2. Slot * n \in Nat
    BY <2>1, KeyCount, OneMore DEF Behind
  <2>3. InTime(p, x, n)
    BY <1>2, <2>2, Parameters DEF InTime
  <2> QED BY <2>1, <2>3
<1> QED BY <1>3, <1>4, <1>5, <1>6, <1>7 DEF TInv

\* Every step of the threads, the clock and the build.
LEMMA StepTInv ==
    IInv /\ TInv /\ [Next]_vars => TInv'
<1> SUFFICES ASSUME IInv, TInv, [Next]_vars PROVE TInv'
  OBVIOUS
<1>1. ASSUME NEW k \in Keys, Thread(k), UNCHANGED buildVars
      PROVE  TInv'
  <2>1. CASE Call(k) /\ UNCHANGED poolVars
    BY <1>1, <2>1, CallTypes
  <2>2. CASE Direct(k) /\ UNCHANGED poolVars
    BY <1>1, <2>2, DirectTypes
  <2>3. CASE Acquire(k)
    BY <1>1, <2>3, AcquireTypes
  <2>4. CASE Wait(k)
    BY <1>1, <2>4, WaitTypes
  <2>5. CASE Send(k)
    BY <1>1, <2>5, SendTypes
  <2>6. CASE PoolAnswer(k)
    BY <1>1, <2>6, AnswerTypes
  <2> QED BY <1>1, <2>1, <2>2, <2>3, <2>4, <2>5, <2>6 DEF Thread
<1>2. CASE Tick /\ UNCHANGED buildVars
  BY <1>2, TickTypes
<1>3. CASE Build /\ UNCHANGED <<assigned, rr, fails, disabled, cold, next, callVars, rateVars, watch>>
  BY <1>3, RestTypes
<1>4. CASE UNCHANGED vars
  BY <1>4, RestTypes DEF vars, poolVars, buildVars
<1> QED BY <1>1, <1>2, <1>3, <1>4 DEF Next

\* The inductive invariant of the counters, the queues and the sleeps.
THEOREM TypeInvariance == Spec => []TInv
<1>1. IInv /\ TInv /\ [Next]_vars => TInv'
  BY StepTInv
<1>2. Init => TInv
  BY InitTInv
<1> QED BY <1>1, <1>2, Invariance, PTL DEF Spec

\* The rate never falls to nothing, attempts and stalls stay within their
\* limits, and no thread sleeps longer than the longest pause or queue.
THEOREM TypeCorrect == Spec => []TypeOK
<1>1. IInv /\ TInv => TypeOK
  <2> SUFFICES ASSUME IInv, TInv PROVE TypeOK
    OBVIOUS
  <2>1. Range(pool) \subseteq Ports
    BY DEF IInv, PoolOK, Range
  <2> QED BY <2>1 DEF IInv, TInv, PoolOK, Calls, PoolUse, Counts, Rates, Sleeps, TypeOK
<1> QED BY <1>1, Invariance, TypeInvariance, PTL
=============================================================================
