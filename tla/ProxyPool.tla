------------------------------ MODULE ProxyPool ------------------------------
(***************************************************************************)
(* app/proxy/proxy_pool.py: the proxies the REST client spreads its        *)
(* requests over.  A key (the name of the calling thread) keeps its proxy   *)
(* while that is healthy; each proxy hands out its sending slots one by     *)
(* one; failures disable a proxy for a while, and a 429 cools its slots.    *)
(*                                                                         *)
(* Deadlines on the monotonic clock are kept as the ticks left to them.     *)
(***************************************************************************)
EXTENDS Naturals, Sequences, FiniteSets, FiniteSetsExt, SequencesExt

CONSTANTS
    Keys,           \* the threads that call the client
    Ports,          \* the proxies there can be, as 1..n
    None,           \* no proxy
    Slot,           \* 1 / per_ip_rate: from one request of a proxy to the next
    Cool429,        \* COOL_429_SECONDS
    DisableFail,    \* DISABLE_FAIL_SECONDS, from the third failure on
    DisableShort    \* the 5 s of the first two failures

ASSUME PoolAssumption ==
    /\ IsFiniteSet(Keys)
    /\ IsFiniteSet(Ports) /\ Ports = 1 .. Cardinality(Ports)
    /\ None \notin Ports
    /\ {Slot, Cool429, DisableFail, DisableShort} \subseteq Nat \ {0}

VARIABLES
    pool,        \* _proxies, in their order
    assigned,    \* _assigned: the proxy of each key
    rr,          \* _rr
    fails,       \* Proxy.fails, which only matter up to 3
    disabled,    \* ticks to Proxy.disable_until
    cold,        \* ticks to _TokenBucket._cooldown_until
    next         \* ticks to _TokenBucket._next

poolVars == <<pool, assigned, rr, fails, disabled, cold, next>>

PoolInit(proxies) ==
    /\ pool = proxies
    /\ assigned = [k \in Keys |-> None]
    /\ rr = 0
    /\ fails = [p \in Ports |-> 0]
    /\ disabled = [p \in Ports |-> 0]
    /\ cold = [p \in Ports |-> 0]
    /\ next = [p \in Ports |-> 0]

Healthy(p) == disabled[p] = 0

\* The proxies other keys hold; a key whose thread has ended still holds its
\* own, since unassign has no caller.
Taken(k) == {assigned[j] : j \in Keys \ {k}}

HealthyAt == {i \in DOMAIN pool : Healthy(pool[i])}
FreeAt(k) == {i \in HealthyAt : pool[i] \notin Taken(k)}

\* The first healthy position after _rr, going round: _rr counts from 0.
Round == CHOOSE i \in HealthyAt :
            \A j \in HealthyAt :
               (i - 2 - rr + Len(pool)) % Len(pool) <= (j - 2 - rr + Len(pool)) % Len(pool)

Keeps(k) == assigned[k] # None /\ Healthy(assigned[k])

\* Under the pool's lock: the key keeps its proxy, or gets the first healthy
\* one nobody holds, or shares a healthy one in turn.
Assign(k) ==
    /\ HealthyAt # {}
    /\ \/ /\ Keeps(k)
          /\ UNCHANGED <<assigned, rr>>
       \/ /\ ~Keeps(k)
          /\ FreeAt(k) # {}
          /\ assigned' = [assigned EXCEPT ![k] = pool[Min(FreeAt(k))]]
          /\ UNCHANGED rr
       \/ /\ ~Keeps(k)
          /\ FreeAt(k) = {}
          /\ assigned' = [assigned EXCEPT ![k] = pool[Round]]
          /\ rr' = Round - 1
    /\ UNCHANGED <<pool, fails, disabled, cold, next>>

\* Nothing is healthy: the key loses its proxy and has to wait.
Unassign(k) ==
    /\ HealthyAt = {}
    /\ assigned' = [assigned EXCEPT ![k] = None]
    /\ UNCHANGED <<pool, rr, fails, disabled, cold, next>>

\* wait: the next slot is taken under the bucket's lock and slept for outside
\* it; nothing is taken while the bucket is cold.
TwoSlots(p) == next    \* a bug: the slot is read and not taken
TakeSlot(p) == [next EXCEPT ![p] = next[p] + Slot]
Reserve(p) ==
    /\ cold[p] = 0
    /\ next' = TakeSlot(p)
    /\ UNCHANGED <<pool, assigned, rr, fails, disabled, cold>>

ReportOk(p) ==
    /\ fails' = [fails EXCEPT ![p] = 0]
    /\ disabled' = [disabled EXCEPT ![p] = 0]
    /\ UNCHANGED <<pool, assigned, rr, cold, next>>

Failed(p) == [fails EXCEPT ![p] = Min({fails[p] + 1, 3})]

Report429(p) ==
    /\ fails' = Failed(p)
    /\ disabled' = [disabled EXCEPT ![p] = Cool429]
    /\ cold' = [cold EXCEPT ![p] = Cool429]
    /\ next' = [next EXCEPT ![p] = Max({next[p], Cool429})]
    /\ UNCHANGED <<pool, assigned, rr>>

ReportFail(p) ==
    /\ fails' = Failed(p)
    /\ disabled' = [disabled EXCEPT ![p] =
                       IF fails[p] + 1 >= 3 THEN DisableFail ELSE DisableShort]
    /\ UNCHANGED <<pool, assigned, rr, cold, next>>

\* A tick of the clock, for a function of deadlines.
Sooner(deadline) == [x \in DOMAIN deadline |-> Max({deadline[x] - 1, 0})]

PoolTick ==
    /\ disabled' = Sooner(disabled)
    /\ cold' = Sooner(cold)
    /\ next' = Sooner(next)
    /\ UNCHANGED <<pool, assigned, rr, fails>>
=============================================================================
