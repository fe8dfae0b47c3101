------------------------------ MODULE RestClient ------------------------------
(***************************************************************************)
(* app/client/okx_client.py: the requests of several threads through one    *)
(* OKXClient.  Without proxies they share a token bucket whose rate halves  *)
(* on a 429 and recovers step by step (_get); with a pool each thread has a *)
(* proxy of its own (_get_with_pool).  build_proxy_pool decides which.      *)
(*                                                                         *)
(* Time passes in ticks, whatever the threads do: a sleep takes at least    *)
(* its time, a thread that is awake may be late with any step, and a        *)
(* request takes as long as it likes.                                       *)
(***************************************************************************)
EXTENDS DynamicPool

CONSTANTS
    Normal,        \* rate_limit_per_second, as tokens in a tick
    Cool,          \* the 5 s of _on_429, and of a step of the recovery
    MaxRetries,    \* MAX_RETRIES
    Pause429,      \* the bound of the pause before a retry after a 429
    PauseFail,     \* the bound of the pause after a failed connection
    PoolPause,     \* the pause of _get_with_pool
    NonePause,     \* ACQUIRE_NONE_SLEEP
    StallMax       \* STALL_MAX_NONE

ASSUME ClientAssumption ==
    /\ Normal \in Nat \ {0} /\ MaxRetries \in Nat \ {0} /\ StallMax \in Nat \ {0}
    /\ {Cool, Pause429, PauseFail, PoolPause, NonePause} \subseteq Nat

VARIABLES
    pc,          \* where each call is
    attempt,     \* attempt
    proxy,       \* the proxy of the attempt
    asleep,      \* the ticks its thread still sleeps
    stall,       \* stall, in acquire
    rate,        \* _rate
    tokens,      \* _tokens
    elapsed,     \* 1 when a tick has passed since _last_refill
    coolLeft,    \* ticks to _cool_until
    recoverLeft, \* ticks to _recover_at
    since,       \* ticks since the last slot of each proxy began, up to Slot
    hot,         \* ticks for which the last 429 of each proxy binds it
    early        \* the threads that had their slot when that 429 came

callVars == <<pc, attempt, proxy, asleep, stall>>
rateVars == <<rate, tokens, elapsed, coolLeft, recoverLeft>>
watch == <<since, hot, early>>
vars == <<poolVars, buildVars, callVars, rateVars, watch>>

Pooled == build \in {"off", "ready"}

\* build_proxy_pool: no source, a list of proxies, or a dynamic pool.
Init ==
    /\ \/ PoolInit(<<>>) /\ BuildInit("none") /\ merge = "none" /\ cache = "none"
       \/ \E n \in Ports : /\ PoolInit([i \in 1 .. n |-> i])
                           /\ BuildInit("off") /\ merge = "none" /\ cache = "none"
       \/ PoolInit(<<>>) /\ BuildInit("discover")
    /\ pc = [k \in Keys |-> "idle"]
    /\ attempt = [k \in Keys |-> 0]
    /\ proxy = [k \in Keys |-> None]
    /\ asleep = [k \in Keys |-> 0]
    /\ stall = [k \in Keys |-> 0]
    /\ rate = Normal
    /\ tokens = Normal
    /\ elapsed = 0
    /\ coolLeft = 0
    /\ recoverLeft = 0
    /\ since = [p \in Ports |-> Slot]
    /\ hot = [p \in Ports |-> 0]
    /\ early = {}

Awake(k) == asleep[k] = 0
Goto(k, where) == pc' = [pc EXCEPT ![k] = where]
SleepFor(k, n) == asleep' = [asleep EXCEPT ![k] = n]

\* One call of each thread; a thread that never calls stays idle.
Call(k) ==
    /\ pc[k] = "idle"
    /\ build \in {"none", "off", "ready"}
    /\ Goto(k, IF Pooled THEN "acquire" ELSE "throttle")
    /\ attempt' = [attempt EXCEPT ![k] = 1]
    /\ UNCHANGED <<proxy, asleep, stall, rateVars, watch>>

-----------------------------------------------------------------------------
(* _get: the shared token bucket                                           *)

\* After the cooldown the rate grows by a quarter, and by one at least.
Recovered == Min({Normal, Max({rate + 1, (rate * 5) \div 4})})
NewRate == IF recoverLeft = 0 /\ rate < Normal THEN Recovered ELSE rate
Refilled == Min({NewRate, tokens + elapsed * NewRate})

Throttle(k) ==
    /\ pc[k] = "throttle" /\ Awake(k)
    /\ rate' = NewRate
    /\ recoverLeft' = IF rate' # rate THEN Cool ELSE recoverLeft
    /\ elapsed' = 0
    /\ \/ /\ Refilled >= 1
          /\ tokens' = Refilled - 1
          /\ Goto(k, "sent")
          /\ UNCHANGED asleep
       \/ /\ Refilled < 1
          /\ tokens' = Refilled
          /\ SleepFor(k, 1)
          /\ UNCHANGED pc
    /\ UNCHANGED <<attempt, proxy, stall, coolLeft, watch>>

Ends(k, how) == Goto(k, how) /\ UNCHANGED <<attempt, asleep>>

\* The pause doubles with the attempts, up to a bound.
Again(k, where, pause) ==
    /\ attempt' = [attempt EXCEPT ![k] = @ + 1]
    /\ SleepFor(k, pause)
    /\ Goto(k, where)
Power2[n \in Nat] == IF n = 0 THEN 1 ELSE 2 * Power2[n - 1]
Doubling(k, most) == Min({Power2[attempt[k] - 1], most})

\* A 429 halves the rate for all threads, empties the bucket, and makes this
\* thread wait; the others only meet the empty bucket.
ToZero == rate \div 2    \* a bug: the rate has no floor
Halved == Max({1, rate \div 2})
On429(k) ==
    /\ rate' = Halved
    /\ tokens' = 0
    /\ coolLeft' = Cool
    /\ recoverLeft' = Cool
    /\ Goto(k, "cool")
    /\ UNCHANGED <<attempt, asleep, elapsed>>

DirectAnswer(k) ==
    /\ pc[k] = "sent" /\ ~Pooled
    /\ \/ Ends(k, "ok") /\ UNCHANGED rateVars
       \/ Ends(k, "error") /\ UNCHANGED rateVars    \* a business error, or one not worth a retry
       \/ On429(k)
       \/ /\ attempt[k] < MaxRetries                \* a connection that failed, a 5xx
          /\ Again(k, "throttle", Doubling(k, PauseFail))
          /\ UNCHANGED rateVars
    /\ UNCHANGED <<proxy, stall, watch>>

\* _throttle_after_429, and what _get does after it.
Uncounted(k) ==    \* a bug: a 429 does not use up an attempt
    /\ pc[k] = "cool" /\ Awake(k) /\ coolLeft = 0
    /\ Goto(k, "throttle")
    /\ UNCHANGED <<attempt, asleep>>
Cooled(k) ==
    /\ pc[k] = "cool" /\ Awake(k) /\ coolLeft = 0
    /\ \/ attempt[k] < MaxRetries /\ Again(k, "throttle", Doubling(k, Pause429))
       \/ attempt[k] >= MaxRetries /\ Ends(k, "error")

StillCool(k) ==
    /\ pc[k] = "cool" /\ Awake(k) /\ coolLeft > 0
    /\ SleepFor(k, Min({coolLeft, 1}))
    /\ UNCHANGED <<pc, attempt>>

Direct(k) ==
    \/ Throttle(k)
    \/ DirectAnswer(k)
    \/ (Cooled(k) \/ StillCool(k)) /\ UNCHANGED <<proxy, stall, rateVars, watch>>

-----------------------------------------------------------------------------
(* _get_with_pool: a proxy for each thread                                 *)

Acquire(k) ==
    /\ pc[k] = "acquire" /\ Awake(k)
    /\ \/ /\ Assign(k)
          /\ proxy' = [proxy EXCEPT ![k] = assigned'[k]]
          /\ stall' = [stall EXCEPT ![k] = 0]
          /\ Goto(k, "bucket")
          /\ UNCHANGED asleep
       \/ /\ Unassign(k)
          /\ stall[k] + 1 < StallMax
          /\ stall' = [stall EXCEPT ![k] = @ + 1]
          /\ SleepFor(k, NonePause)
          /\ UNCHANGED <<pc, proxy>>
       \/ /\ Unassign(k)
          /\ stall[k] + 1 >= StallMax
          /\ Goto(k, "error")
          /\ UNCHANGED <<proxy, stall, asleep>>
    /\ UNCHANGED <<attempt, rateVars, watch>>

\* wait: sleep until the bucket is no longer cold and look again, or take a
\* slot and sleep until it begins, which may be now.
Wait(k) ==
    /\ pc[k] = "bucket" /\ Awake(k)
    /\ LET p == proxy[k]
       IN  \/ /\ cold[p] > 0
              /\ SleepFor(k, cold[p])
              /\ UNCHANGED <<pc, poolVars, since>>
           \/ /\ Reserve(p)
              /\ SleepFor(k, next[p])
              /\ Goto(k, "reserved")
              /\ since' = IF next[p] = 0 THEN [since EXCEPT ![p] = 0] ELSE since
    /\ UNCHANGED <<attempt, proxy, stall, rateVars, hot, early>>

Send(k) ==
    /\ pc[k] = "reserved" /\ Awake(k)
    /\ Goto(k, "sent")
    /\ early' = early \ {k}
    /\ UNCHANGED <<attempt, proxy, asleep, stall, rateVars, since, hot, poolVars>>

Retry(k) ==
    \/ attempt[k] < MaxRetries /\ Again(k, "acquire", PoolPause)
    \/ attempt[k] >= MaxRetries /\ Ends(k, "error")

PoolAnswer(k) ==
    /\ pc[k] = "sent" /\ Pooled
    /\ LET p == proxy[k]
       IN  \/ /\ ReportOk(p)                  \* data, or a business error
              /\ Ends(k, "ok") \/ Ends(k, "error")
              /\ UNCHANGED watch
           \/ /\ Report429(p)
              /\ Retry(k)
              /\ hot' = [hot EXCEPT ![p] = Cool429]
              /\ early' = early \cup {j \in Keys : pc[j] = "reserved" /\ proxy[j] = p}
              /\ UNCHANGED since
           \/ /\ ReportFail(p)
              /\ Retry(k)
              /\ UNCHANGED watch
    /\ UNCHANGED <<proxy, stall, rateVars>>

-----------------------------------------------------------------------------
\* The slots that begin with the tick.
Coming(p) == {k \in Keys : pc[k] = "reserved" /\ proxy[k] = p /\ asleep[k] = 1}

Tick ==
    /\ PoolTick
    /\ asleep' = Sooner(asleep)
    /\ elapsed' = 1
    /\ coolLeft' = Max({coolLeft - 1, 0})
    /\ recoverLeft' = Max({recoverLeft - 1, 0})
    /\ since' = [p \in Ports |-> IF Coming(p) # {} THEN 0 ELSE Min({since[p] + 1, Slot})]
    /\ hot' = Sooner(hot)
    /\ UNCHANGED <<pc, attempt, proxy, stall, rate, tokens, early>>

Thread(k) ==
    \/ (Call(k) \/ Direct(k)) /\ UNCHANGED poolVars
    \/ Acquire(k)
    \/ Wait(k)
    \/ Send(k)
    \/ PoolAnswer(k)

Next ==
    \/ (\E k \in Keys : Thread(k)) /\ UNCHANGED buildVars
    \/ Tick /\ UNCHANGED buildVars
    \/ /\ Build
       /\ UNCHANGED <<assigned, rr, fails, disabled, cold, next, callVars, rateVars, watch>>

Spec == Init /\ [][Next]_vars

\* A thread that can run runs, and the clock goes on; a request is answered
\* or runs into TIMEOUT.
FairSpec ==
    /\ Spec
    /\ \A k \in Keys : WF_vars(pc[k] # "idle" /\ Thread(k) /\ UNCHANGED buildVars)
    /\ WF_vars(Tick /\ UNCHANGED buildVars)

-----------------------------------------------------------------------------
Steps == {"idle", "throttle", "cool", "acquire", "bucket", "reserved", "sent", "ok", "error"}

\* No sleep is longer than the longest queue for a slot after a cooldown, or
\* one of the pauses.
MaxSleep == Max({Cool429 + Slot * Cardinality(Keys),
                 Pause429, PauseFail, PoolPause, NonePause, 1})

TypeOK ==
    /\ Range(pool) \subseteq Ports
    /\ assigned \in [Keys -> Ports \cup {None}]
    /\ rr \in 0 .. Len(pool)
    /\ fails \in [Ports -> 0 .. 3]
    /\ pc \in [Keys -> Steps]
    /\ attempt \in [Keys -> 0 .. MaxRetries]
    /\ asleep \in [Keys -> 0 .. MaxSleep]
    /\ stall \in [Keys -> 0 .. StallMax - 1]
    /\ rate \in 1 .. Normal
    /\ tokens \in 0 .. Normal
    /\ \A k \in Keys : pc[k] \in {"bucket", "reserved"} => proxy[k] \in Range(pool)

\* The slots of a proxy begin a slot apart, whichever threads hold them and
\* whatever answers, cooldowns and shared proxies come in between; no request
\* leaves before its slot begins; and after a 429 a proxy only sends what had
\* its slot before: neither the success of an older request, which ends the
\* proxy's own time out (proxy_pool.py:280), nor a thread that shares the
\* proxy starts one within the cooldown.  The requests themselves may be late,
\* and then closer together than their slots.
Begun(k) == pc[k] = "reserved" /\ asleep[k] = 0
Begins(k) == ~Begun(k) /\ Begun(k)'
Apart(k) ==    \* a slot that is slept for begins with the tick
    /\ since[proxy[k]] + (IF pc[k] = "reserved" THEN 1 ELSE 0) >= Slot
    /\ \A j \in Keys \ {k} : Begins(j) => proxy[j] # proxy[k]
Sends(k) == pc[k] = "reserved" /\ pc'[k] = "sent"
Paced ==
    [][\A k \in Keys :
          /\ Begins(k) => Apart(k)
          /\ Sends(k) => asleep[k] = 0 /\ (hot[proxy[k]] > 0 => k \in early)]_vars

\* Every call returns or raises, whatever the exchange answers.
CallsEnd == \A k \in Keys : pc[k] # "idle" ~> pc[k] \in {"ok", "error"}
=============================================================================
