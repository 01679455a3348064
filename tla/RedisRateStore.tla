---------------------------- MODULE RedisRateStore ----------------------------
(***************************************************************************)
(* RateLimiter over the Store of examples/ratelimit-redis, which keeps the  *)
(* bucket in a Redis hash.  AtomicUpdate cannot send the limiter's closure  *)
(* to Redis: it calls it twice on probe states, guesses burst and cost from *)
(* what it returns, and runs a Lua script with these.  The closure is where *)
(* the limiter learns whether it may go on.  Take stands for Allow, Execute *)
(* and Wait too, which ask by the same tryConsume.  The script's numbers    *)
(* are scaled as RateLimiter scales tokens; Redis and its clients show the  *)
(* same clock.                                                              *)
(***************************************************************************)
EXTENDS RateLimiter

CONSTANT Second   \* one second in ticks of the clock, positive

\* int64(x) of an amount of tokens, and 1 in place of what is not positive.
Whole(x) == IF x < Cost(1) THEN 1 ELSE x \div Interval

\* The two calls of updateFn: on no bucket, and on what the first one returned, when
\* time.Now() may have moved on.
Probe(n) == Consumed(NoBucket, n, clock)
ProbeAfter(n, later) == Consumed(Probe(n), n, later)

burst(n) == Whole(Probe(n).tokens)
consumed(n, later) == Whole(Probe(n).tokens - ProbeAfter(n, later).tokens)

\* What the script adds for the elapsed time: by the rate and interval in the context
\* or, without them, burst tokens in a second.
ScriptRefill(elapsed, n, attached) ==
  IF attached THEN elapsed * Rate ELSE (elapsed * Cost(burst(n))) \div Second

\* The script's bucket before and after it takes the cost, if it can.
ScriptFilled(n, attached) ==
  IF bucket = NoBucket THEN Cost(burst(n))
  ELSE LET elapsed == IF clock < bucket.last THEN 0 ELSE Least(clock - bucket.last, MaxElapsed)
       IN  Least(bucket.tokens + ScriptRefill(elapsed, n, attached), Cost(burst(n)))

atomicScript(n, later, attached) ==
  LET filled == ScriptFilled(n, attached)
      need == Cost(consumed(n, later))
  IN  [tokens |-> IF filled >= need THEN filled - need ELSE filled, last |-> clock]

\* tryConsume over AtomicUpdate: allowed is what the last call of the closure set, and
\* that was the second probe; the script's own verdict is not used.
AtomicUpdate(n, later, attached) ==
  /\ up /\ bucket' = atomicScript(n, later, attached) /\ lastAccess' = clock
  /\ IF Affords(Probe(n), n, later) THEN granted' = granted + n /\ spent' = clock
                                    ELSE UNCHANGED <<granted, spent>>
  /\ UNCHANGED <<up, closed, clock, since>>

RedisTake(n) ==
  /\ ~closed /\ n <= MaxTokensPerRequest
  /\ (\E later \in clock..(clock + 1), attached \in BOOLEAN : AtomicUpdate(n, later, attached))
     \/ StoreError
  /\ UNCHANGED wait

\* The store has no Reset: the limiter only logs that.  Its Close does nothing.
RedisClose ==
  /\ ~closed /\ closed' = TRUE
  /\ UNCHANGED <<bucket, lastAccess, up, clock, wait, history>>

RedisNext == \/ \E n \in 1..MaxTokensPerRequest : RedisTake(n)
             \/ RedisClose \/ Evict \/ StoreToggles \/ Tick \/ Observe

RedisSpec == Init /\ [][RedisNext]_vars

-----------------------------------------------------------------------------

\* No stretch of time is granted more than the burst and what the rate pays for: the
\* example's README shows the demo refusing all beyond them, "allowed=20 denied=30
\* (rate=10/s burst=20)".
RedisLimitHolds == Cost(granted) <= Full + Rate * (clock - since)
===============================================================================
