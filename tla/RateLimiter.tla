----------------------------- MODULE RateLimiter -----------------------------
(***************************************************************************)
(* ratelimit/limiter.go: the token bucket of one key.  Keys do not interact *)
(* here; the store that keeps them apart is MemoryStore.                    *)
(*                                                                         *)
(* Token amounts are counted in units of 1/Interval of a token, so that one *)
(* tick of the clock adds Rate units and every quantity of the code is a    *)
(* whole number.  The store applies tryConsume's updateFn atomically, may   *)
(* fail, and forgets a bucket that was not used for TTL.                    *)
(***************************************************************************)
EXTENDS Integers

CONSTANTS
  Waiters,              \* goroutines calling Wait
  Rate, Interval, Burst, MaxTokensPerRequest, FailOpen, \* Config, after setDefaults
  MaxElapsed, Epsilon,  \* maxElapsed; floatEpsilon in units
  MinWait, MaxWait, MaxIterations, MaxTotalWait, MaxWaitTimeLimit, \* limits of Wait
  TTL,                  \* the store's entryTTL
  MaxClock,             \* bound on the clock
  NoBucket

ASSUME ConfigAssumption ==
  /\ Rate \in Nat \ {0} /\ Interval \in Nat \ {0} /\ Burst \in Nat \ {0}
  /\ MaxTokensPerRequest \in Nat \ {0} /\ FailOpen \in BOOLEAN
  /\ MaxElapsed \in Nat \ {0} /\ Epsilon \in Nat
  /\ MinWait \in Nat /\ MaxWait \in Nat /\ MaxIterations \in Nat
  /\ MaxTotalWait \in Nat /\ MaxWaitTimeLimit \in Nat
  /\ TTL \in Nat /\ MaxClock \in Nat
\* floatEpsilon is 0.0001 of a token; the slowest rate, 1 in 24 h, earns more in
\* maxElapsed.
ASSUME EpsilonAssumption == Epsilon <= Interval /\ Epsilon <= MaxElapsed * Rate
ASSUME NoBucketAssumption == NoBucket \notin [tokens : Int, last : Int]

Full == Burst * Interval
Cost(n) == n * Interval
Least(a, b) == IF a <= b THEN a ELSE b

VARIABLES
  bucket,     \* the BucketState in the store, or NoBucket
  lastAccess, \* when the store last applied an update to it
  up,         \* the store works
  closed,     \* the limiter is closed
  clock,      \* time.Now()
  wait,       \* per waiter: where its Wait is
  since,      \* history: an observer began to count grants at this time
  granted,    \* history: tokens taken from the store since then
  spent       \* history: when tokens were last taken

vars == <<bucket, lastAccess, up, closed, clock, wait, since, granted, spent>>
history == <<since, granted, spent>>

NotWaiting == [pc |-> "idle", start |-> 0, iterations |-> 0, wake |-> 0]

Init ==
  /\ bucket = NoBucket /\ lastAccess = 0
  /\ up = TRUE /\ closed = FALSE /\ clock = 0
  /\ wait = [w \in Waiters |-> NotWaiting]
  /\ since = 0 /\ granted = 0 /\ spent = 0

-----------------------------------------------------------------------------
(* refill, tryConsume and calculateWaitTime                                 *)

\* What the elapsed time is worth, before the bucket's own cap.
Earned(elapsed) == Least(Least(elapsed, MaxElapsed) * Rate, Full)

\* Slip: LastRefill is left where it was, so that time is paid for twice.
RefillKeepingLast(b, now) ==
  IF now <= b.last \/ Earned(now - b.last) < Epsilon THEN b
  ELSE [tokens |-> Least(b.tokens + Earned(now - b.last), Full), last |-> b.last]

\* Slip: time too short to be worth a refill is forgotten.
RefillForgetful(b, now) ==
  IF now <= b.last THEN b
  ELSE [tokens |-> IF Earned(now - b.last) < Epsilon THEN b.tokens
                   ELSE Least(b.tokens + Earned(now - b.last), Full),
        last |-> now]

Refill(b, now) ==
  IF now <= b.last \/ Earned(now - b.last) < Epsilon THEN b
  ELSE [tokens |-> Least(b.tokens + Earned(now - b.last), Full), last |-> now]

\* updateFn's first part: a missing bucket is created full.
Refilled(b, now) ==
  Refill(IF b = NoBucket THEN [tokens |-> Full, last |-> now] ELSE b, now)

Affords(b, n, now) == Refilled(b, now).tokens >= Cost(n)

Consumed(b, n, now) ==
  IF Affords(b, n, now) THEN [Refilled(b, now) EXCEPT !.tokens = @ - Cost(n)]
  ELSE Refilled(b, now)

\* Slip: the time since the last refill is not credited.
WaitTimeIgnoringElapsed(b, now) ==
  IF b = NoBucket \/ b.tokens >= Cost(1) THEN 0
  ELSE Least((Cost(1) - b.tokens) \div Rate, MaxWaitTimeLimit)

\* calculateWaitTime for one token, cut to whole clock units as the code does.
WaitTime(b, now) ==
  IF b = NoBucket THEN 0
  ELSE LET elapsed == IF now <= b.last THEN 0 ELSE now - b.last
           current == Least(b.tokens + Earned(elapsed), Full)
       IN  IF current >= Cost(1) THEN 0
           ELSE Least((Cost(1) - current) \div Rate, MaxWaitTimeLimit)

-----------------------------------------------------------------------------
(* tryConsume against the store                                             *)

Consume(n) ==
  /\ up
  /\ bucket' = Consumed(bucket, n, clock)
  /\ lastAccess' = clock
  /\ IF Affords(bucket, n, clock) THEN granted' = granted + n /\ spent' = clock
                                  ELSE UNCHANGED <<granted, spent>>
  /\ UNCHANGED <<up, closed, clock, since>>

StoreError == ~up /\ UNCHANGED <<bucket, lastAccess, up, closed, clock, history>>

\* Allow is Take of one token; Execute and ExecuteN call them and then run the
\* operation or build the error.  handleError changes nothing.
Take(n) ==
  /\ ~closed /\ n <= MaxTokensPerRequest
  /\ Consume(n) \/ StoreError
  /\ UNCHANGED wait

-----------------------------------------------------------------------------
(* Wait                                                                     *)

WaitBegin(w) ==
  /\ wait[w].pc = "idle" /\ ~closed
  /\ wait' = [wait EXCEPT ![w] = [NotWaiting EXCEPT !.pc = "try", !.start = clock]]
  /\ UNCHANGED <<bucket, lastAccess, up, closed, clock, history>>

WaitReturns(w) == wait' = [wait EXCEPT ![w] = NotWaiting]

\* The next iteration would pass a limit (ErrWaitTimeout), or ctx is done.
WaitGivesUp(w) ==
  /\ \/ wait[w].pc = "try" /\ wait[w].iterations >= MaxIterations
     \/ wait[w].pc = "try" /\ clock - wait[w].start > MaxTotalWait
     \/ wait[w].pc \in {"try", "sleep"}
  /\ WaitReturns(w)
  /\ UNCHANGED <<bucket, lastAccess, up, closed, clock, history>>

\* tryConsume; a store error lets the caller pass under FailOpen, else retry.
WaitTry(w) ==
  /\ wait[w].pc = "try"
  /\ wait[w].iterations < MaxIterations /\ clock - wait[w].start <= MaxTotalWait
  /\ \/ Consume(1) /\ IF Affords(bucket, 1, clock) THEN WaitReturns(w)
                      ELSE wait' = [wait EXCEPT ![w].pc = "measure", ![w].iterations = @ + 1]
     \/ StoreError /\ IF FailOpen THEN WaitReturns(w)
                      ELSE wait' = [wait EXCEPT ![w].pc = "measure", ![w].iterations = @ + 1]

\* calculateWaitTime reads the bucket again (0 when Get fails); the limits.
WaitMeasure(w) ==
  /\ wait[w].pc = "measure"
  /\ LET t == IF up THEN WaitTime(bucket, clock) ELSE 0
         d == Least(IF t <= 0 THEN MinWait ELSE t, MaxWait)
     IN  wait' = [wait EXCEPT ![w].pc = "sleep", ![w].wake = clock + d]
  /\ UNCHANGED <<bucket, lastAccess, up, closed, clock, history>>

WaitWakes(w) ==
  /\ wait[w].pc = "sleep" /\ clock >= wait[w].wake
  /\ wait' = [wait EXCEPT ![w].pc = "try", ![w].wake = 0]
  /\ UNCHANGED <<bucket, lastAccess, up, closed, clock, history>>

-----------------------------------------------------------------------------
(* Reset, Close, and the store                                              *)

\* Reset forgets the bucket on purpose; the observer starts anew.
Reset ==
  /\ ~closed /\ up
  /\ bucket' = NoBucket /\ since' = clock /\ granted' = 0
  /\ UNCHANGED <<lastAccess, up, closed, clock, wait, spent>>

\* closed.Swap, then Store.Close.
Close ==
  /\ ~closed /\ closed' = TRUE /\ up' = FALSE
  /\ UNCHANGED <<bucket, lastAccess, clock, wait, history>>

Evict ==
  /\ up /\ bucket # NoBucket /\ clock - lastAccess > TTL
  /\ bucket' = NoBucket
  /\ UNCHANGED <<lastAccess, up, closed, clock, wait, history>>

\* A store on the other side of a network fails and comes back.
StoreToggles ==
  /\ ~closed /\ up' = ~up
  /\ UNCHANGED <<bucket, lastAccess, closed, clock, wait, history>>

Tick ==
  /\ clock < MaxClock /\ clock' = clock + 1
  /\ UNCHANGED <<bucket, lastAccess, up, closed, wait, history>>

\* The observer may begin anywhere, so what it sees holds for every stretch of time.
Observe ==
  /\ since' = clock /\ granted' = 0
  /\ UNCHANGED <<bucket, lastAccess, up, closed, clock, wait, spent>>

Waiting(w) == WaitBegin(w) \/ WaitGivesUp(w) \/ WaitTry(w) \/ WaitMeasure(w) \/ WaitWakes(w)

Next == \/ \E n \in 1..MaxTokensPerRequest : Take(n)
        \/ \E w \in Waiters : Waiting(w)
        \/ Reset \/ Close \/ Evict \/ StoreToggles \/ Tick \/ Observe

Spec == Init /\ [][Next]_vars

-----------------------------------------------------------------------------
(* Properties                                                               *)

\* A bucket holds between 0 and Burst tokens and was last refilled at some time;
\* Wait is at one of its steps (limiter.go:124-133, store.go:14-23).
TypeOK ==
  /\ bucket \in [tokens : 0..Full, last : Nat] \cup {NoBucket}
  /\ lastAccess \in Nat
  /\ up \in BOOLEAN /\ closed \in BOOLEAN
  /\ clock \in Nat
  /\ wait \in [Waiters -> [pc : {"idle", "try", "measure", "sleep"}, start : Nat,
                           iterations : Nat, wake : Nat]]
  /\ since \in Nat /\ granted \in Nat /\ spent \in Nat

\* In every stretch of time the store grants at most Burst tokens and what Rate
\* pays for that stretch (docs/concepts.md:194), whatever mix of Allow, Take and
\* Wait asks, as long as a bucket is kept for at least the time it needs to fill.
\* Epsilon is the price of not refilling for less than floatEpsilon: a full bucket
\* may carry that much unpaid time into the stretch (limiter.go:593-595).
RateBound == Cost(granted) <= Full + Epsilon + Rate * (clock - since)

\* One refill pays for at most maxElapsed (limiter.go:568), which is one hour.
FillsWithinMaxElapsed == MaxElapsed * Rate >= Full
EarnsWithinMaxElapsed == MaxElapsed * Rate >= Cost(1)

\* A bucket that fills within maxElapsed, and from which nothing was taken for the
\* time it takes to fill (and to earn Epsilon), is full: its refills lose no time
\* that counts, however often refused calls interrupt them (limiter.go:559-619).
\* A slower bucket, such as 100 tokens in 24 hours, is excepted: what elapses
\* beyond maxElapsed between two refills is forgotten.
IdleBucketFills ==
  FillsWithinMaxElapsed /\ bucket # NoBucket /\ (clock - spent) * Rate >= Full + Epsilon
    => Refill(bucket, clock).tokens = Full

\* The time in which Epsilon is earned, and refill begins to store what it adds.
Lag == (Epsilon + Rate - 1) \div Rate

\* calculateWaitTime repeats the arithmetic of refill without storing it; the two
\* agree up to floatEpsilon, which only refill applies: the token is there one
\* unit and Lag after the announced time, and is not there one unit before it
\* (limiter.go:559-619, 623-702).  It is claimed of rates that earn a token within
\* maxElapsed: a slower one is promised a token that no single refill pays for.
WaitTimeAgreesWithRefill ==
  LET t == WaitTime(bucket, clock)
  IN  EarnsWithinMaxElapsed /\ bucket # NoBucket =>
        /\ Refill(bucket, clock + t + 1 + Lag).tokens >= Cost(1)
        /\ t > 0 => Refill(bucket, clock + t - 1).tokens < Cost(1)
=============================================================================
