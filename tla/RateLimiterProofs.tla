-------------------------- MODULE RateLimiterProofs --------------------------
(***************************************************************************)
(* The token bucket, for every rate, interval, burst and mix of callers.    *)
(* The rate bound: the inductive invariant weighs the tokens granted in a   *)
(* stretch of time together with the tokens the bucket could still grant    *)
(* now (Potential): Burst and Epsilon to begin with, and Rate per tick.     *)
(* The refill: a bucket holds what the time between the last grant and its  *)
(* last refill was worth (Kept), so what is still to be credited fills it.  *)
(***************************************************************************)
EXTENDS RateLimiter, TLAPS

\* What the bucket could grant at once, the time not yet credited included.
Potential(b, now) ==
  IF b = NoBucket THEN Full
  ELSE Least(b.tokens + Rate * (now - b.last), Full + Epsilon)

Ordered ==
  /\ since <= clock /\ lastAccess <= clock
  /\ bucket # NoBucket => bucket.last <= lastAccess

Weighed == Cost(granted) + Potential(bucket, clock) <= Full + Epsilon + Rate * (clock - since)

IInv == TypeOK /\ Ordered /\ Weighed

\* What the time t is worth.
Pay(t) == t * Rate

\* Nothing of the time since the last grant was forgotten.
Kept == bucket # NoBucket => bucket.tokens = Full \/ bucket.tokens >= Pay(bucket.last - spent)

Buckets == [tokens : 0..Full, last : Nat]
WaitRecords == [pc : {"idle", "try", "measure", "sleep"}, start : Nat, iterations : Nat, wake : Nat]

-----------------------------------------------------------------------------

\* The constants of a normalised Config are numbers (config.go:159-217).
LEMMA ConstantsTyped ==
  /\ Rate \in Nat /\ Rate > 0 /\ Interval \in Nat /\ Interval > 0 /\ Burst \in Nat /\ Burst > 0
  /\ MaxElapsed \in Nat /\ Epsilon \in Nat /\ TTL \in Nat
BY ConfigAssumption

\* Products of naturals are naturals.
LEMMA ProductNat == ASSUME NEW a \in Nat, NEW b \in Nat PROVE a * b \in Nat
OBVIOUS

\* A product grows with its first factor.
LEMMA ProductMonotone ==
  ASSUME NEW r \in Nat, NEW a \in Nat, NEW b \in Nat, a <= b
  PROVE  r * a <= r * b /\ a * r <= b * r
<1> DEFINE d == b - a
<1>1. d \in Nat /\ b = a + d
  OBVIOUS
<1>2. r * b = r * a + r * d /\ b * r = a * r + d * r
  BY <1>1, Z3
<1>3. r * d \in Nat /\ d * r \in Nat
  BY <1>1, ProductNat
<1>4. r * a \in Nat /\ a * r \in Nat
  BY ProductNat
<1> HIDE DEF d
<1> QED BY <1>2, <1>3, <1>4

\* A full bucket is worth at least the smallest refill.
LEMMA FullFacts == Full \in Nat /\ Epsilon <= Full
<1>1. Full \in Nat
  BY ConstantsTyped, ProductNat DEF Full
<1>2. Interval * 1 <= Interval * Burst
  BY ConstantsTyped, ProductMonotone
<1>3. Interval * 1 = Interval /\ Interval * Burst = Burst * Interval
  BY ConstantsTyped
<1> QED BY <1>1, <1>2, <1>3, EpsilonAssumption, ConstantsTyped DEF Full

\* The price of n tokens, in the units a bucket is kept in.
LEMMA CostNat == ASSUME NEW n \in Nat PROVE Cost(n) \in Nat
BY ConstantsTyped, ProductNat DEF Cost

\* A stored bucket is not the missing one.
LEMMA BucketIsNoBucket == ASSUME NEW b \in Buckets PROVE b # NoBucket
<1>1. b \in [tokens : Int, last : Int]
  BY FullFacts DEF Buckets
<1> QED BY <1>1, NoBucketAssumption

\* The time credited is never worth more than it was.  When it is worth less
\* than Epsilon, so is the time itself.
LEMMA EarnedFacts ==
  ASSUME NEW e \in Nat
  PROVE  /\ Earned(e) \in 0..Full
         /\ Earned(e) <= Rate * e
         /\ Earned(e) < Epsilon => Rate * e < Epsilon
<1> DEFINE c == Least(e, MaxElapsed)
<1>1. c \in Nat /\ c <= e /\ (c = e \/ c = MaxElapsed)
  BY ConstantsTyped DEF Least
<1>2. c * Rate <= e * Rate /\ c * Rate \in Nat /\ e * Rate \in Nat /\ e * Rate = Rate * e
  BY <1>1, ConstantsTyped, ProductMonotone, ProductNat
<1>3. Earned(e) = Least(c * Rate, Full)
  BY DEF Earned
<1>4. c = MaxElapsed => Epsilon <= c * Rate
  BY EpsilonAssumption
<1> HIDE DEF c
<1> DEFINE p == c * Rate  q == Rate * e
<1>5. p \in Nat /\ q \in Nat /\ p <= q /\ (c = e => p = q) /\ (c = MaxElapsed => Epsilon <= p)
  BY <1>2, <1>4
<1>6. Earned(e) = Least(p, Full)
  BY <1>3
<1> HIDE DEF p
<1>7. Earned(e) \in 0..Full /\ Earned(e) <= q /\ (Earned(e) < Epsilon => q < Epsilon)
  <2> HIDE DEF q
  <2> QED BY <1>1, <1>5, <1>6, FullFacts, ConstantsTyped DEF Least
<1> QED BY <1>7

\* A refill yields a bucket, moves its time forward but not past now, and never
\* raises its potential; afterwards the bucket holds all of its potential or
\* has less than Epsilon of it outstanding.
LEMMA RefillFacts ==
  ASSUME NEW b \in Buckets, NEW now \in Nat, b.last <= now
  PROVE  /\ Refill(b, now) \in Buckets
         /\ Refill(b, now).last <= now
         /\ Refill(b, now).tokens + Rate * (now - Refill(b, now).last) <= Potential(b, now)
<1> DEFINE e == now - b.last  g == Earned(e)  r == Refill(b, now)
<1>1. e \in Nat /\ b.tokens \in 0..Full /\ b.last \in Nat /\ b.tokens \in Nat /\ b.tokens <= Full
  BY FullFacts DEF Buckets
<1>2. g \in Nat /\ g <= Full /\ g <= Rate * e /\ (g < Epsilon => Rate * e < Epsilon)
  BY <1>1, EarnedFacts, FullFacts
<1>3. Rate * e \in Nat /\ (e = 0 => Rate * e = 0)
  BY <1>1, ConstantsTyped, ProductNat
<1>4. Potential(b, now) = Least(b.tokens + Rate * e, Full + Epsilon)
  BY BucketIsNoBucket DEF Potential
<1>5. CASE now <= b.last \/ g < Epsilon
  <2>1. r = b
    BY <1>5 DEF Refill
  <2>2. Rate * e <= Epsilon
    BY <1>1, <1>2, <1>3, <1>5, ConstantsTyped
  <2>3. b.tokens + Rate * e <= Potential(b, now)
    <3> DEFINE q == Rate * e
    <3>1. q \in Nat /\ q <= Epsilon /\ Potential(b, now) = Least(b.tokens + q, Full + Epsilon)
      BY <1>3, <1>4, <2>2
    <3> HIDE DEF q
    <3>2. b.tokens + q <= Potential(b, now)
      BY <1>1, <3>1, FullFacts, ConstantsTyped DEF Least
    <3> QED BY <3>2 DEF q
  <2> QED BY <2>1, <2>3
<1>6. CASE ~(now <= b.last \/ g < Epsilon)
  <2>1. r = [tokens |-> Least(b.tokens + g, Full), last |-> now]
    BY <1>6 DEF Refill
  <2>2. Least(b.tokens + g, Full) \in 0..Full
    BY <1>1, <1>2, FullFacts DEF Least
  <2>3. Rate * (now - now) = 0
    BY ConstantsTyped
  <2>4. Least(b.tokens + g, Full) <= Potential(b, now)
    <3> DEFINE q == Rate * e
    <3>1. q \in Nat /\ g <= q /\ Potential(b, now) = Least(b.tokens + q, Full + Epsilon)
      BY <1>2, <1>3, <1>4
    <3> HIDE DEF q, g
    <3> QED BY <1>1, <1>2, <3>1, FullFacts, ConstantsTyped DEF Least
  <2>5. r \in Buckets /\ r.last = now /\ r.tokens = Least(b.tokens + g, Full)
    BY <2>1, <2>2 DEF Buckets
  <2> HIDE DEF r, g
  <2>6. r.tokens + Rate * (now - r.last) = Least(b.tokens + g, Full)
    BY <2>2, <2>3, <2>5, FullFacts
  <2> QED BY <2>4, <2>5, <2>6 DEF r
<1> QED BY <1>5, <1>6

\* The same of the bucket tryConsume works on, which may just have been created.
LEMMA RefilledFacts ==
  ASSUME NEW b \in Buckets \cup {NoBucket}, NEW now \in Nat, b # NoBucket => b.last <= now
  PROVE  /\ Refilled(b, now) \in Buckets
         /\ Refilled(b, now).last <= now
         /\ Refilled(b, now).tokens + Rate * (now - Refilled(b, now).last) <= Potential(b, now)
<1>1. CASE b # NoBucket
  BY <1>1, RefillFacts DEF Refilled
<1>2. CASE b = NoBucket
  <2> DEFINE n == [tokens |-> Full, last |-> now]
  <2>1. n \in Buckets /\ n.last = now /\ n.tokens = Full
    BY FullFacts DEF Buckets
  <2>2. Refilled(b, now) = n
    BY <1>2, <2>1 DEF Refilled, Refill
  <2>3. Potential(b, now) = Full /\ Rate * (now - now) = 0
    BY <1>2, ConstantsTyped DEF Potential
  <2> HIDE DEF n
  <2> QED BY <2>1, <2>2, <2>3, FullFacts
<1> QED BY <1>1, <1>2

\* What a call takes out of the bucket is taken out of the potential.
LEMMA ConsumedFacts ==
  ASSUME NEW b \in Buckets \cup {NoBucket}, NEW now \in Nat, b # NoBucket => b.last <= now,
         NEW n \in Nat
  PROVE  /\ Consumed(b, n, now) \in Buckets
         /\ Consumed(b, n, now).last <= now
         /\ Potential(Consumed(b, n, now), now)
              + (IF Affords(b, n, now) THEN Cost(n) ELSE 0) <= Potential(b, now)
<1> DEFINE r == Refilled(b, now)  c == Consumed(b, n, now)
           q == Rate * (now - r.last)
<1>1. r \in Buckets /\ r.last <= now /\ r.tokens + q <= Potential(b, now)
  BY RefilledFacts
<1>2. r.tokens \in 0..Full /\ r.last \in Nat
  BY <1>1 DEF Buckets
<1>3. Cost(n) \in Nat
  BY CostNat
<1>4. q \in Nat
  BY <1>1, <1>2, ConstantsTyped, ProductNat
<1>5. CASE Affords(b, n, now)
  <2>1. Cost(n) <= r.tokens
    BY <1>5, <1>2, <1>3, FullFacts DEF Affords
  <2>2. c = [r EXCEPT !.tokens = @ - Cost(n)]
    BY <1>5 DEF Consumed
  <2> HIDE DEF r
  <2>3. c \in Buckets /\ c.last = r.last /\ c.tokens = r.tokens - Cost(n)
    BY <1>1, <1>2, <1>3, <2>1, <2>2, FullFacts DEF Buckets
  <2>4. Potential(c, now) = Least(r.tokens - Cost(n) + q, Full + Epsilon)
    BY <2>3, BucketIsNoBucket DEF Potential
  <2> HIDE DEF c, q
  <2>5. Potential(c, now) <= r.tokens - Cost(n) + q
    BY <1>2, <1>3, <1>4, <2>4, FullFacts, ConstantsTyped DEF Least
  <2>6. Potential(c, now) + Cost(n) <= Potential(b, now)
    <3>1. Potential(c, now) \in Int /\ Potential(b, now) \in Int
      <4>1. Potential(c, now) \in Int
        BY <1>2, <1>3, <1>4, <2>4, FullFacts, ConstantsTyped DEF Least
      <4>2. b # NoBucket => b.tokens \in Int /\ Rate * (now - b.last) \in Int
        BY FullFacts, ConstantsTyped DEF Buckets
      <4>3. Potential(b, now) \in Int
        BY <4>2, FullFacts, ConstantsTyped DEF Potential, Least
      <4> QED BY <4>1, <4>3
    <3> QED BY <1>1, <1>2, <1>3, <1>4, <2>5, <3>1, FullFacts
  <2> QED BY <1>1, <1>5, <2>3, <2>6 DEF c
<1>6. CASE ~Affords(b, n, now)
  <2>1. c = r
    BY <1>6 DEF Consumed
  <2>2. Potential(r, now) = Least(r.tokens + q, Full + Epsilon)
    BY <1>1, BucketIsNoBucket DEF Potential
  <2> HIDE DEF r, q
  <2>3. Potential(r, now) <= Potential(b, now) /\ Potential(r, now) \in Int
    <3>1. b # NoBucket => b.tokens \in Int /\ Rate * (now - b.last) \in Int
      BY FullFacts, ConstantsTyped DEF Buckets
    <3>2. Potential(b, now) \in Int
      BY <3>1, FullFacts, ConstantsTyped DEF Potential, Least
    <3> QED BY <1>1, <1>2, <1>4, <2>2, <3>2, FullFacts, ConstantsTyped DEF Least
  <2> QED BY <1>1, <1>6, <2>1, <2>3 DEF c
<1> QED BY <1>5, <1>6

\* What a bucket can still pay for is a number.
LEMMA PotentialTyped ==
  ASSUME NEW b \in Buckets \cup {NoBucket}, NEW now \in Nat, b # NoBucket => b.last <= now
  PROVE  Potential(b, now) \in 0..(Full + Epsilon)
<1>1. b # NoBucket => b.tokens \in Nat /\ Rate * (now - b.last) \in Nat
  BY FullFacts, ConstantsTyped, ProductNat DEF Buckets
<1> QED BY <1>1, FullFacts, ConstantsTyped DEF Potential, Least

-----------------------------------------------------------------------------
(* Typing, one lemma per kind of step.                                      *)

\* calculateWaitTime returns a time.
LEMMA WaitTimeTyped ==
  ASSUME NEW b \in Buckets \cup {NoBucket}, NEW now \in Nat
  PROVE  WaitTime(b, now) \in Nat
<1>1. CASE b = NoBucket
  BY <1>1 DEF WaitTime
<1>2. CASE b # NoBucket
  <2> DEFINE e == IF now <= b.last THEN 0 ELSE now - b.last
             c == Least(b.tokens + Earned(e), Full)
  <2>1. b.tokens \in Nat /\ e \in Nat
    BY <1>2, FullFacts DEF Buckets
  <2>2. Earned(e) \in Nat
    BY <2>1, EarnedFacts, FullFacts
  <2>3. c \in Nat
    BY <2>1, <2>2, FullFacts DEF Least
  <2>4. Cost(1) \in Nat
    BY CostNat
  <2>5. WaitTime(b, now) = IF c >= Cost(1) THEN 0
                           ELSE Least((Cost(1) - c) \div Rate, MaxWaitTimeLimit)
    BY <1>2 DEF WaitTime
  <2> HIDE DEF c
  <2>6. c < Cost(1) => (Cost(1) - c) \div Rate \in Nat
    BY <2>3, <2>4, ConstantsTyped
  <2> QED BY <2>3, <2>4, <2>5, <2>6, ConfigAssumption DEF Least
<1> QED BY <1>1, <1>2

\* What the type invariant and the order of the clock readings say of a bucket.
LEMMA StateTyped ==
  ASSUME TypeOK, Ordered
  PROVE  /\ bucket \in Buckets \cup {NoBucket} /\ lastAccess \in Nat /\ clock \in Nat
         /\ since \in Nat /\ granted \in Nat /\ spent \in Nat
         /\ up \in BOOLEAN /\ closed \in BOOLEAN /\ wait \in [Waiters -> WaitRecords]
         /\ bucket # NoBucket => bucket.last \in Nat /\ bucket.last <= clock
<1>1. bucket # NoBucket => bucket.last \in Nat
  BY DEF TypeOK
<1> QED BY <1>1 DEF TypeOK, Ordered, Buckets, WaitRecords

\* tryConsume leaves a bucket whose time lies in the past.
LEMMA ConsumeTyped ==
  ASSUME TypeOK, Ordered, NEW n \in Nat, Consume(n)
  PROVE  /\ bucket' \in Buckets /\ lastAccess' \in Nat /\ granted' \in Nat /\ spent' \in Nat
         /\ Ordered'
<1>1. bucket' \in Buckets /\ bucket'.last <= clock
  BY StateTyped, ConsumedFacts DEF Consume
<1>2. granted' \in Nat /\ spent' \in Nat
  BY StateTyped DEF Consume
<1>3. lastAccess' = clock /\ clock' = clock /\ since' = since
  BY DEF Consume
<1> QED BY <1>1, <1>2, <1>3, StateTyped DEF Ordered

\* tryConsume keeps the weight: what it grants, the bucket has lost.
LEMMA ConsumeStep ==
  ASSUME TypeOK, Ordered, Weighed, NEW n \in Nat, Consume(n)
  PROVE  Weighed'
<1> DEFINE take == IF Affords(bucket, n, clock) THEN Cost(n) ELSE 0
<1>1. /\ bucket' \in Buckets /\ bucket'.last <= clock
      /\ Potential(bucket', clock) + take <= Potential(bucket, clock)
  BY StateTyped, ConsumedFacts DEF Consume
<1>2. Cost(n) \in Nat /\ Cost(granted) \in Nat /\ Cost(granted + n) = Cost(granted) + Cost(n)
  BY StateTyped, CostNat, ConstantsTyped DEF Cost
<1>3. Cost(granted') = Cost(granted) + take
  BY StateTyped, <1>2 DEF Consume
<1>4. clock' = clock /\ since' = since
  BY DEF Consume
<1>5. Potential(bucket, clock) \in Int /\ Potential(bucket', clock) \in Int /\ take \in Nat
  BY StateTyped, <1>1, <1>2, PotentialTyped, FullFacts, ConstantsTyped
<1>6. Rate * (clock - since) \in Int
  BY StateTyped, ConstantsTyped
<1> HIDE DEF take
<1>7. Cost(granted) + take + Potential(bucket', clock) <= Full + Epsilon + Rate * (clock - since)
  BY <1>1, <1>2, <1>5, <1>6, FullFacts, ConstantsTyped DEF Weighed
<1> QED BY <1>7, <1>3, <1>4 DEF Weighed

\* The steps of Wait keep its own record in its type.
LEMMA WaitTyped ==
  ASSUME TypeOK, NEW w \in Waiters, Waiting(w)
  PROVE  wait' \in [Waiters -> WaitRecords]
<1>1. /\ wait \in [Waiters -> WaitRecords] /\ clock \in Nat /\ NotWaiting \in WaitRecords
      /\ bucket \in Buckets \cup {NoBucket}
  BY DEF TypeOK, WaitRecords, NotWaiting, Buckets
<1>2. CASE WaitBegin(w)
  <2>1. [NotWaiting EXCEPT !.pc = "try", !.start = clock] \in WaitRecords
    BY <1>1 DEF WaitRecords, NotWaiting
  <2> QED BY <1>1, <1>2, <2>1 DEF WaitBegin
<1>3. CASE WaitReturns(w)
  BY <1>1, <1>3 DEF WaitReturns
<1>4. CASE wait' = [wait EXCEPT ![w].pc = "measure", ![w].iterations = @ + 1]
  <2>1. wait[w] \in WaitRecords
    BY <1>1
  <2> DEFINE i == wait[w].iterations + 1
  <2>2. [wait[w] EXCEPT !.pc = "measure", !.iterations = i] \in WaitRecords
    <3>1. i \in Nat
      BY <2>1 DEF WaitRecords
    <3> HIDE DEF i
    <3> QED BY <2>1, <3>1 DEF WaitRecords
  <2>3. wait' = [wait EXCEPT ![w] = [wait[w] EXCEPT !.pc = "measure", !.iterations = i]]
    BY <1>1, <1>4
  <2> QED BY <1>1, <2>2, <2>3
<1>5. CASE WaitMeasure(w)
  <2> DEFINE t == IF up THEN WaitTime(bucket, clock) ELSE 0
             d == Least(IF t <= 0 THEN MinWait ELSE t, MaxWait)
  <2>1. t \in Nat
    BY <1>1, WaitTimeTyped
  <2>2. d \in Nat
    <3> HIDE DEF t
    <3> QED BY <2>1, ConfigAssumption DEF Least
  <2>3. wait' = [wait EXCEPT ![w].pc = "sleep", ![w].wake = clock + d]
    BY <1>5 DEF WaitMeasure
  <2> HIDE DEF d
  <2>4. wait[w] \in WaitRecords /\ clock + d \in Nat
    BY <1>1, <2>2
  <2> DEFINE k == clock + d
  <2>5. [wait[w] EXCEPT !.pc = "sleep", !.wake = k] \in WaitRecords
    <3>1. k \in Nat
      BY <2>4
    <3> HIDE DEF k
    <3> QED BY <2>4, <3>1 DEF WaitRecords
  <2>6. wait' = [wait EXCEPT ![w] = [wait[w] EXCEPT !.pc = "sleep", !.wake = k]]
    BY <1>1, <2>3
  <2> QED BY <1>1, <2>5, <2>6
<1>6. CASE WaitWakes(w)
  <2>1. wait[w] \in WaitRecords
    BY <1>1
  <2>2. [wait[w] EXCEPT !.pc = "try", !.wake = 0] \in WaitRecords
    BY <2>1 DEF WaitRecords
  <2>3. wait' = [wait EXCEPT ![w] = [wait[w] EXCEPT !.pc = "try", !.wake = 0]]
    BY <1>1, <1>6 DEF WaitWakes
  <2> QED BY <1>1, <2>2, <2>3
<1> QED BY <1>2, <1>3, <1>4, <1>5, <1>6 DEF Waiting, WaitGivesUp, WaitTry

-----------------------------------------------------------------------------

\* A limiter that New has just made.
LEMMA InitIInv == Init => IInv
<1> SUFFICES ASSUME Init PROVE IInv
  OBVIOUS
<1>1. TypeOK
  BY ConfigAssumption DEF Init, TypeOK, NotWaiting
<1>2. Ordered
  BY DEF Init, Ordered
<1>3. Cost(0) = 0 /\ Rate * (0 - 0) = 0 /\ Potential(NoBucket, 0) = Full
  BY ConstantsTyped DEF Cost, Potential
<1>4. Weighed
  BY <1>3, FullFacts, ConstantsTyped DEF Init, Weighed
<1> QED BY <1>1, <1>2, <1>4 DEF IInv

\* Every step keeps the types and the order of the clock readings.
LEMMA NextTyped ==
  ASSUME TypeOK, Ordered, [Next]_vars
  PROVE  TypeOK' /\ Ordered'
<1>1. ASSUME NEW n \in 1..MaxTokensPerRequest, Take(n) PROVE TypeOK' /\ Ordered'
  <2>1. CASE Consume(n)
    <3>1. /\ bucket' \in Buckets /\ lastAccess' \in Nat /\ granted' \in Nat /\ spent' \in Nat
          /\ Ordered'
      BY <2>1, ConfigAssumption, ConsumeTyped
    <3>2. UNCHANGED <<up, closed, clock, since, wait>>
      BY <1>1, <2>1 DEF Take, Consume
    <3> QED BY StateTyped, <3>1, <3>2 DEF TypeOK, Buckets, WaitRecords
  <2>2. CASE StoreError
    BY <1>1, <2>2 DEF Take, StoreError, history, TypeOK, Ordered
  <2> QED BY <1>1, <2>1, <2>2 DEF Take
<1>2. ASSUME NEW w \in Waiters, Waiting(w) PROVE TypeOK' /\ Ordered'
  <2>1. wait' \in [Waiters -> WaitRecords]
    BY <1>2, WaitTyped
  <2>2. CASE Consume(1)
    <3>1. /\ bucket' \in Buckets /\ lastAccess' \in Nat /\ granted' \in Nat /\ spent' \in Nat
          /\ Ordered'
      BY <2>2, ConsumeTyped
    <3>2. UNCHANGED <<up, closed, clock, since>>
      BY <2>2 DEF Consume
    <3> QED BY StateTyped, <2>1, <3>1, <3>2 DEF TypeOK, Buckets, WaitRecords
  <2>3. CASE UNCHANGED <<bucket, lastAccess, up, closed, clock, history>>
    BY StateTyped, <2>1, <2>3 DEF TypeOK, Ordered, Buckets, WaitRecords, history
  <2> QED BY <1>2, <2>2, <2>3 DEF Waiting, WaitBegin, WaitGivesUp, WaitTry, WaitMeasure, WaitWakes,
                                 StoreError
<1>3. CASE Reset
  BY StateTyped, <1>3 DEF Reset, TypeOK, Ordered, Buckets, WaitRecords
<1>4. CASE Observe
  BY StateTyped, <1>4 DEF Observe, TypeOK, Ordered, Buckets, WaitRecords
<1>5. CASE Evict
  BY StateTyped, <1>5 DEF Evict, history, TypeOK, Ordered, Buckets, WaitRecords
<1>6. CASE Tick
  BY StateTyped, <1>6 DEF Tick, history, TypeOK, Ordered, Buckets, WaitRecords
<1>7. CASE Close \/ StoreToggles \/ UNCHANGED vars
  BY StateTyped, <1>7 DEF Close, StoreToggles, vars, history, TypeOK, Ordered, Buckets, WaitRecords
<1> QED BY <1>1, <1>2, <1>3, <1>4, <1>5, <1>6, <1>7 DEF Next

\* What a step may do to the bucket and the observer: tryConsume, a loss of the
\* bucket, the observer's start, a tick, or nothing.
LEMMA StepKinds ==
  ASSUME [Next]_vars
  PROVE  \/ \E n \in Nat : Consume(n)
         \/ Reset \/ Evict \/ Tick \/ Observe
         \/ UNCHANGED <<bucket, lastAccess, clock, since, granted, spent>>
<1>1. ASSUME NEW n \in 1..MaxTokensPerRequest, Take(n)
      PROVE  Consume(n) \/ UNCHANGED <<bucket, lastAccess, clock, since, granted, spent>>
  BY <1>1 DEF Take, StoreError, history
<1>2. ASSUME NEW w \in Waiters, Waiting(w)
      PROVE  Consume(1) \/ UNCHANGED <<bucket, lastAccess, clock, since, granted, spent>>
  BY <1>2 DEF Waiting, WaitBegin, WaitGivesUp, WaitTry, WaitMeasure, WaitWakes, StoreError, history
<1>3. ASSUME Close \/ StoreToggles \/ UNCHANGED vars
      PROVE  UNCHANGED <<bucket, lastAccess, clock, since, granted, spent>>
  BY <1>3 DEF Close, StoreToggles, vars, history
<1>4. 1..MaxTokensPerRequest \subseteq Nat /\ 1 \in Nat
  BY ConfigAssumption
<1> QED BY <1>1, <1>2, <1>3, <1>4 DEF Next

\* Every step keeps the weight, provided a bucket is kept long enough to fill.
LEMMA NextWeighed ==
  ASSUME TTL * Rate >= Full, IInv, [Next]_vars
  PROVE  Weighed'
<1> USE DEF IInv
<1>1. /\ bucket \in Buckets \cup {NoBucket} /\ lastAccess \in Nat /\ clock \in Nat
      /\ since \in Nat /\ granted \in Nat
      /\ bucket # NoBucket => bucket.last \in Nat /\ bucket.last <= clock
  BY StateTyped
<1>2. Cost(0) = 0 /\ \A t \in Nat : Rate * (t - t) = 0
  BY ConstantsTyped DEF Cost
<1>3. ASSUME NEW n \in Nat, Consume(n) PROVE Weighed'
  BY <1>3, ConsumeStep
<1>5. CASE Reset
  BY <1>1, <1>2, <1>5, FullFacts, ConstantsTyped DEF Reset, Weighed, Potential
<1>6. CASE Observe
  <2>2. Potential(bucket, clock) \in 0..(Full + Epsilon)
    BY <1>1, PotentialTyped
  <2> QED BY <1>1, <1>2, <1>6, <2>2, FullFacts, ConstantsTyped DEF Observe, Weighed
<1>7. CASE Evict
  <2>2. bucket # NoBucket /\ TTL <= clock - bucket.last /\ clock - bucket.last \in Nat
    BY <1>1, <1>7, ConstantsTyped DEF Evict, Ordered
  <2>3. Rate * TTL <= Rate * (clock - bucket.last)
    BY <2>2, ConstantsTyped, ProductMonotone
  <2>4. Full <= Rate * (clock - bucket.last)
    <3>1. Rate * TTL = TTL * Rate /\ Rate * TTL \in Int /\ Rate * (clock - bucket.last) \in Int
      BY <2>2, ConstantsTyped
    <3> QED BY <2>3, <3>1, FullFacts
  <2>5. Full <= Potential(bucket, clock)
    <3> DEFINE q == Rate * (clock - bucket.last)
    <3>1. q \in Int /\ Full <= q
      BY <2>2, <2>4, ConstantsTyped
    <3>2. bucket.tokens \in Nat
      BY <1>1, <2>2, FullFacts DEF Buckets
    <3>3. Potential(bucket, clock) = Least(bucket.tokens + q, Full + Epsilon)
      BY <2>2 DEF Potential
    <3> HIDE DEF q
    <3> QED BY <3>1, <3>2, <3>3, FullFacts, ConstantsTyped DEF Least
  <2>6. Potential(bucket, clock) \in Int /\ Cost(granted) \in Int /\ Rate * (clock - since) \in Int
    BY <1>1, PotentialTyped, CostNat, FullFacts, ConstantsTyped
  <2>7. Cost(granted) + Full <= Full + Epsilon + Rate * (clock - since)
    BY <2>5, <2>6, FullFacts, ConstantsTyped DEF Weighed
  <2>8. Weighed'
    BY <1>7, <2>7 DEF Evict, history, Weighed, Potential
  <2> QED BY <2>8
<1>8. CASE Tick
  <2>2. PICK next \in Nat : next = clock + 1
    BY <1>1
  <2>3. bucket' = bucket /\ clock' = next /\ since' = since /\ granted' = granted
    BY <1>8, <2>2 DEF Tick, history
  <2>4. Rate * (next - since) = Rate * (clock - since) + Rate
    BY <1>1, <2>2, ConstantsTyped
  <2>5. Potential(bucket, next) <= Potential(bucket, clock) + Rate
    <3>1. CASE bucket = NoBucket
      BY <3>1, FullFacts, ConstantsTyped DEF Potential
    <3>2. CASE bucket # NoBucket
      <4> DEFINE q == Rate * (clock - bucket.last)
      <4>1. q \in Int /\ Rate * (next - bucket.last) = q + Rate
        BY <1>1, <2>2, <3>2, ConstantsTyped
      <4>2. Potential(bucket, clock) = Least(bucket.tokens + q, Full + Epsilon)
        BY <3>2 DEF Potential
      <4>3. Potential(bucket, next) = Least(bucket.tokens + (q + Rate), Full + Epsilon)
        BY <3>2, <4>1 DEF Potential
      <4>4. bucket.tokens \in Nat
        BY <1>1, <3>2, FullFacts DEF Buckets
      <4> HIDE DEF q
      <4> QED BY <4>1, <4>2, <4>3, <4>4, FullFacts, ConstantsTyped DEF Least
    <3> QED BY <3>1, <3>2
  <2>6. /\ Potential(bucket, clock) \in Int /\ Potential(bucket, next) \in Int
        /\ Cost(granted) \in Int /\ Rate * (clock - since) \in Int
    BY <1>1, <2>2, PotentialTyped, CostNat, FullFacts, ConstantsTyped
  <2>7. Cost(granted) + Potential(bucket, next) <= Full + Epsilon + Rate * (next - since)
    BY <2>4, <2>5, <2>6, FullFacts, ConstantsTyped DEF Weighed
  <2>8. Weighed'
    BY <2>3, <2>7 DEF Weighed
  <2> QED BY <2>8
<1>9. CASE UNCHANGED <<bucket, lastAccess, clock, since, granted, spent>>
  BY <1>9 DEF Weighed, Potential
<1> QED BY <1>3, <1>5, <1>6, <1>7, <1>8, <1>9, StepKinds

-----------------------------------------------------------------------------

\* In every stretch of time the grants stay within Burst and Rate, for every
\* configuration whose TTL (memory.go:49-57) is at least the time a bucket needs
\* to fill, whatever Allow, Take and Wait calls, store failures, evictions and
\* refused requests come in between.
THEOREM RateIsBounded == TTL * Rate >= Full => (Spec => []RateBound)
<1> SUFFICES ASSUME TTL * Rate >= Full PROVE Spec => []RateBound
  OBVIOUS
<1>1. IInv /\ [Next]_vars => IInv'
  BY NextTyped, NextWeighed DEF IInv
<1>2. IInv => RateBound
  <2> SUFFICES ASSUME IInv PROVE RateBound
    OBVIOUS
  <2>1. /\ bucket \in Buckets \cup {NoBucket} /\ clock \in Nat /\ granted \in Nat /\ since \in Nat
        /\ bucket # NoBucket => bucket.last <= clock
    <3>1. bucket # NoBucket => bucket.last \in Nat
      BY DEF IInv, TypeOK
    <3> QED BY <3>1 DEF IInv, TypeOK, Ordered, Buckets
  <2>2. Potential(bucket, clock) \in Nat /\ Cost(granted) \in Nat /\ Rate * (clock - since) \in Int
    BY <2>1, PotentialTyped, CostNat, FullFacts, ConstantsTyped
  <2> QED BY <2>2, FullFacts, ConstantsTyped DEF IInv, Weighed, RateBound
<1> QED BY <1>1, <1>2, InitIInv, PTL DEF Spec

-----------------------------------------------------------------------------
(* What time is worth.                                                      *)

\* Time earns the rate, evenly.
LEMMA PaySum ==
  ASSUME NEW a \in Int, NEW b \in Int
  PROVE  Pay(a) \in Int /\ Pay(a + b) = Pay(a) + Pay(b)
BY ConstantsTyped, Z3 DEF Pay

\* More time earns no less.
LEMMA PayFacts ==
  ASSUME NEW a \in Int, NEW b \in Int
  PROVE  /\ Pay(a) \in Int
         /\ Pay(a + b) = Pay(a) + Pay(b)
         /\ a >= 0 => Pay(a) >= 0
         /\ a <= 0 => Pay(a) <= 0
         /\ a <= b => Pay(a) <= Pay(b)
<1>1. Pay(a) \in Int /\ Pay(a + b) = Pay(a) + Pay(b)
  BY PaySum
<1>2. ASSUME NEW c \in Nat PROVE Pay(c) \in Nat
  BY ConstantsTyped, ProductNat DEF Pay
<1>3. a >= 0 => Pay(a) >= 0
  BY <1>2
<1>4. a <= 0 => Pay(a) <= 0
  <2> SUFFICES ASSUME a <= 0 PROVE Pay(a) <= 0
    OBVIOUS
  <2>1. PICK c \in Nat : c = 0 - a
    OBVIOUS
  <2>2. Pay(a) = 0 - Pay(c)
    BY <2>1, ConstantsTyped, Z3 DEF Pay
  <2> QED BY <1>2, <2>2
<1>5. a <= b => Pay(a) <= Pay(b)
  <2> SUFFICES ASSUME a <= b PROVE Pay(a) <= Pay(b)
    OBVIOUS
  <2>1. PICK c \in Nat : b = a + c
    <3>1. b - a \in Nat /\ b = a + (b - a)
      OBVIOUS
    <3> QED BY <3>1
  <2>2. Pay(b) = Pay(a) + Pay(c)
    BY <2>1, ConstantsTyped, Z3 DEF Pay
  <2> QED BY <1>1, <1>2, <2>2
<1> QED BY <1>1, <1>3, <1>4, <1>5

\* What refill credits is the worth of the time, of maxElapsed, or a full bucket.
LEMMA EarnedIsPaid ==
  ASSUME NEW e \in Nat
  PROVE  /\ Earned(e) \in Nat /\ Earned(e) <= Full /\ Earned(e) <= Pay(e)
         /\ Earned(e) \in {Pay(e), Pay(MaxElapsed), Full}
         /\ Earned(e) # Full => Earned(e) = Pay(Least(e, MaxElapsed))
<1>1. Earned(e) = Least(Pay(Least(e, MaxElapsed)), Full)
  BY DEF Earned, Pay
<1>2. Least(e, MaxElapsed) \in {e, MaxElapsed}
  BY DEF Least
<1>3. Earned(e) \in 0..Full /\ Earned(e) <= Rate * e /\ Rate * e = Pay(e)
  BY EarnedFacts, ConstantsTyped DEF Pay
<1>4. \A x : Least(x, Full) \in {x, Full}
  BY DEF Least
<1> QED BY <1>1, <1>2, <1>3, <1>4, FullFacts

\* A refill adds what was earned, unless that is less than Epsilon.
LEMMA RefillTokens ==
  ASSUME NEW b \in Buckets, NEW now \in Nat, b.last <= now
  PROVE  LET g == Earned(now - b.last)
         IN  \/ /\ Refill(b, now) = b /\ (now = b.last \/ g < Epsilon)
             \/ /\ Refill(b, now).tokens = Least(b.tokens + g, Full)
                /\ Refill(b, now).last = now
<1>1. b.last \in Nat
  BY DEF Buckets
<1> QED BY <1>1 DEF Refill

-----------------------------------------------------------------------------
(* Refills forget no time.                                                  *)

\* A refill keeps what it should, when maxElapsed is enough to fill a bucket.
LEMMA RefillKeeps ==
  ASSUME MaxElapsed * Rate >= Full,
         NEW b \in Buckets, NEW now \in Nat, b.last <= now, NEW s \in Nat,
         b.tokens = Full \/ b.tokens >= Pay(b.last - s)
  PROVE  LET r == Refill(b, now) IN r.tokens = Full \/ r.tokens >= Pay(r.last - s)
<1> DEFINE r == Refill(b, now)  e == now - b.last  g == Earned(e)
<1>1. b.last \in Nat /\ b.tokens \in Nat /\ b.tokens <= Full /\ e \in Nat /\ Full \in Nat
  BY FullFacts DEF Buckets
<1>2. CASE r = b
  BY <1>2
<1>3. CASE r.tokens = Least(b.tokens + g, Full) /\ r.last = now
  <2>1. g \in Nat /\ (g = Pay(e) \/ g >= Full)
    <3>1. Pay(MaxElapsed) >= Full
      BY DEF Pay
    <3> QED BY <1>1, <3>1, EarnedIsPaid
  <2>2. Pay(now - s) = Pay(b.last - s) + Pay(e) /\ Pay(b.last - s) \in Int /\ Pay(e) \in Int
    <3>1. PICK u \in Int : u = b.last - s
      BY <1>1
    <3>2. now - s = u + e
      BY <1>1, <3>1
    <3> HIDE DEF e
    <3>3. e \in Int /\ Pay(u) \in Int /\ Pay(e) \in Int /\ Pay(u + e) = Pay(u) + Pay(e)
      <4>1. e \in Int
        BY <1>1
      <4>2. Pay(u) \in Int /\ Pay(u + e) = Pay(u) + Pay(e)
        BY <4>1, PaySum
      <4>3. Pay(e) \in Int
        BY <4>1, PaySum
      <4> QED BY <4>1, <4>2, <4>3
    <3> QED BY <3>1, <3>2, <3>3
  <2>3. r.tokens = Full \/ r.tokens = b.tokens + g
    BY <1>3 DEF Least
  <2>4. b.tokens = Full \/ g >= Full => r.tokens = Full
    <3> HIDE DEF g, e
    <3> QED BY <1>1, <1>3, <2>1 DEF Least
  <2>5. r.tokens = b.tokens + g /\ b.tokens >= Pay(b.last - s) /\ g = Pay(e) => r.tokens >= Pay(now - s)
    <3> HIDE DEF r, g
    <3> QED BY <1>1, <2>1, <2>2
  <2> QED BY <1>3, <2>1, <2>3, <2>4, <2>5
<1> QED BY <1>1, <1>2, <1>3, RefillTokens

\* tryConsume keeps it: a grant starts the time anew, and a refusal takes nothing.
LEMMA ConsumeKeeps ==
  ASSUME MaxElapsed * Rate >= Full, TypeOK, Ordered, Kept, NEW n \in Nat, Consume(n)
  PROVE  Kept'
<1> DEFINE r == Refilled(bucket, clock)
<1>1. r \in Buckets /\ r.last <= clock /\ bucket' \in Buckets
  BY StateTyped, RefilledFacts, ConsumeTyped
<1>2. CASE Affords(bucket, n, clock)
  <2>1. spent' = clock /\ bucket' = [r EXCEPT !.tokens = @ - Cost(n)]
    BY <1>2 DEF Consume, Consumed
  <2>2. bucket'.last = r.last
    BY <1>1, <2>1 DEF Buckets
  <2>3. bucket'.last - spent' \in Int /\ bucket'.last - spent' <= 0
    BY <1>1, <2>1, <2>2, StateTyped DEF Buckets
  <2>4. Pay(bucket'.last - spent') <= 0 /\ Pay(bucket'.last - spent') \in Int
    BY <2>3, PayFacts
  <2>5. bucket'.tokens \in Nat
    BY <1>1, FullFacts DEF Buckets
  <2> QED BY <2>4, <2>5 DEF Kept
<1>3. CASE ~Affords(bucket, n, clock)
  <2>1. spent' = spent /\ bucket' = r
    BY <1>3 DEF Consume, Consumed
  <2>2. CASE bucket # NoBucket
    <3>1. bucket \in Buckets /\ bucket.last <= clock /\ clock \in Nat /\ spent \in Nat
      BY <2>2, StateTyped
    <3>2. r = Refill(bucket, clock)
      BY <2>2 DEF Refilled
    <3>3. bucket.tokens = Full \/ bucket.tokens >= Pay(bucket.last - spent)
      BY <2>2 DEF Kept
    <3>4. r.tokens = Full \/ r.tokens >= Pay(r.last - spent)
      <4>1. PICK b \in Buckets : b = bucket
        BY <3>1
      <4>2. PICK now \in Nat : now = clock
        BY <3>1
      <4>3. PICK s \in Nat : s = spent
        BY <3>1
      <4> QED BY <3>1, <3>2, <3>3, <4>1, <4>2, <4>3, RefillKeeps
    <3> QED BY <2>1, <3>4 DEF Kept
  <2>3. CASE bucket = NoBucket
    <3>1. r = Refill([tokens |-> Full, last |-> clock], clock)
      BY <2>3 DEF Refilled
    <3>2. r = [tokens |-> Full, last |-> clock]
      BY <3>1, StateTyped DEF Refill
    <3> QED BY <2>1, <3>2 DEF Kept
  <2> QED BY <2>2, <2>3
<1> QED BY <1>2, <1>3

\* Every step keeps it; a bucket the store has lost comes back full.
LEMMA NextKept ==
  ASSUME MaxElapsed * Rate >= Full, TypeOK, Ordered, Kept, [Next]_vars
  PROVE  Kept'
<1>1. ASSUME NEW n \in Nat, Consume(n) PROVE Kept'
  BY <1>1, ConsumeKeeps
<1>2. CASE Reset \/ Evict
  BY <1>2 DEF Reset, Evict, Kept
<1>3. CASE UNCHANGED <<bucket, spent>>
  BY <1>3 DEF Kept
<1> QED BY <1>1, <1>2, <1>3, StepKinds DEF Tick, Observe, history

\* A bucket that kept what it earned is full when the time since the last grant
\* is worth it.
LEMMA KeptFills ==
  ASSUME MaxElapsed * Rate >= Full, TypeOK, Ordered, Kept
  PROVE  IdleBucketFills
<1> SUFFICES ASSUME bucket # NoBucket, (clock - spent) * Rate >= Full + Epsilon
             PROVE  Refill(bucket, clock).tokens = Full
  BY DEF IdleBucketFills
<1>1. PICK b \in Buckets : b = bucket
  BY StateTyped
<1>2. PICK now \in Nat : now = clock
  BY StateTyped
<1>3. PICK s \in Nat : s = spent
  BY StateTyped
<1> DEFINE r == Refill(b, now)  e == now - b.last  g == Earned(e)
<1>4. b.last \in Nat /\ b.last <= now /\ b.tokens \in Nat /\ b.tokens <= Full /\ e \in Nat
  BY <1>1, <1>2, StateTyped, FullFacts DEF Buckets
<1>5. g \in Nat /\ (g = Pay(e) \/ g >= Full) /\ g <= Pay(e)
  <2>1. Pay(MaxElapsed) >= Full
    BY DEF Pay
  <2> QED BY <1>4, <2>1, EarnedIsPaid
<1>6. b.tokens = Full \/ b.tokens + Pay(e) >= Full + Epsilon
  <2>1. Pay(now - s) >= Full + Epsilon
    BY <1>2, <1>3 DEF Pay
  <2>2. PICK u \in Int : u = b.last - s
    BY <1>4
  <2>3. Pay(now - s) = Pay(b.last - s) + Pay(e) /\ Pay(b.last - s) \in Int /\ Pay(e) \in Int
    <3>1. now - s = u + e
      BY <1>4, <2>2
    <3> HIDE DEF e
    <3>2. e \in Int /\ Pay(u) \in Int /\ Pay(e) \in Int /\ Pay(u + e) = Pay(u) + Pay(e)
      <4>1. e \in Int
        BY <1>4
      <4>2. Pay(u) \in Int /\ Pay(u + e) = Pay(u) + Pay(e)
        BY <4>1, PaySum
      <4>3. Pay(e) \in Int
        BY <4>1, PaySum
      <4> QED BY <4>1, <4>2, <4>3
    <3> QED BY <2>2, <3>1, <3>2
  <2>4. b.tokens = Full \/ b.tokens >= Pay(b.last - s)
    BY <1>1, <1>3 DEF Kept
  <2> HIDE DEF e
  <2> QED BY <1>4, <2>1, <2>3, <2>4, FullFacts, ConstantsTyped
<1>7. Pay(e) \in Nat /\ (now = b.last => Pay(e) = 0)
  <2>1. Pay(e) \in Nat
    BY <1>4, ConstantsTyped, ProductNat DEF Pay
  <2>2. now = b.last => e = 0
    BY <1>4
  <2>3. Pay(0) = 0
    BY ConstantsTyped DEF Pay
  <2> QED BY <2>1, <2>2, <2>3
<1>8. r.tokens = Full
  <2>1. CASE r = b /\ (now = b.last \/ g < Epsilon)
    <3> HIDE DEF r, g, e
    <3> QED BY <1>4, <1>5, <1>6, <1>7, <2>1, FullFacts, ConstantsTyped
  <2>2. CASE r.tokens = Least(b.tokens + g, Full)
    <3> HIDE DEF r, g, e
    <3> QED BY <1>4, <1>5, <1>6, <1>7, <2>2, FullFacts, ConstantsTyped DEF Least
  <2> QED BY <1>4, <2>1, <2>2, RefillTokens
<1> QED BY <1>1, <1>2, <1>8

-----------------------------------------------------------------------------
(* calculateWaitTime and refill agree.                                      *)

\* What is left by a division is less than the divisor.
LEMMA DivisionFacts ==
  ASSUME NEW x \in Nat
  PROVE  /\ x \div Rate \in Nat
         /\ Pay(x \div Rate) <= x
         /\ x < Pay(x \div Rate) + Rate
<1>1. Rate \in Nat /\ Rate > 0
  BY ConstantsTyped
<1> QED BY <1>1, Z3 DEF Pay

\* Within Lag, Epsilon is earned.
LEMMA LagFacts == Lag \in Nat /\ Pay(Lag) >= Epsilon
<1>1. PICK x \in Nat : x = Epsilon + Rate - 1
  BY ConstantsTyped
<1>2. Lag \in Nat /\ Epsilon + Rate - 1 < Pay(Lag) + Rate /\ Pay(Lag) <= Epsilon + Rate - 1
  BY <1>1, DivisionFacts DEF Lag
<1>3. Pay(Lag) \in Int
  BY <1>2, PayFacts
<1> QED BY <1>2, <1>3, ConstantsTyped

\* One token fits into a bucket.
LEMMA TokenFits == Cost(1) = Interval /\ Cost(1) \in Nat /\ Cost(1) > 0 /\ Cost(1) <= Full
<1>1. Cost(1) = Interval /\ Interval * 1 = Interval /\ Interval * Burst = Full
  BY ConstantsTyped DEF Cost, Full
<1>2. Interval * 1 <= Interval * Burst
  BY ConstantsTyped, ProductMonotone
<1> QED BY <1>1, <1>2, ConstantsTyped

\* One unit and Lag after the announced time, refill finds a token.
LEMMA TokenIsThere ==
  ASSUME MaxElapsed * Rate >= Interval, MaxWaitTimeLimit >= Interval,
         NEW b \in Buckets, NEW now \in Nat, b.last <= now
  PROVE  Refill(b, now + WaitTime(b, now) + 1 + Lag).tokens >= Cost(1)
<1> DEFINE e == now - b.last  t == WaitTime(b, now)  c == Least(b.tokens + Earned(e), Full)
           d == t + 1 + Lag  f == e + d  g == Earned(f)  r == Refill(b, now + d)
<1>1. b.last \in Nat /\ b.tokens \in Nat /\ b.tokens <= Full /\ e \in Nat
  BY FullFacts DEF Buckets
<1>2. t \in Nat /\ Lag \in Nat /\ d \in Nat /\ f \in Nat /\ d > 0 /\ Full \in Nat
  BY <1>1, WaitTimeTyped, LagFacts, FullFacts
<1>3. Earned(e) \in Nat /\ Earned(e) <= Pay(e) /\ c \in Nat /\ c <= b.tokens + Earned(e)
  BY <1>1, EarnedIsPaid, FullFacts DEF Least
<1>4. t = IF c >= Cost(1) THEN 0 ELSE Least((Cost(1) - c) \div Rate, MaxWaitTimeLimit)
  <2>1. (IF now <= b.last THEN 0 ELSE now - b.last) = e
    BY <1>1
  <2> QED BY <2>1, BucketIsNoBucket DEF WaitTime
<1>5. c + Pay(t) + Rate >= Cost(1)
  <2>1. Pay(t) \in Nat
    BY <1>2, ConstantsTyped, ProductNat DEF Pay
  <2>2. CASE c >= Cost(1)
    <3> HIDE DEF c, t
    <3> QED BY <1>3, <2>1, <2>2, TokenFits, ConstantsTyped
  <2>3. CASE c < Cost(1) /\ t = (Cost(1) - c) \div Rate
    <3>1. PICK x \in Nat : x = Cost(1) - c
      BY <1>3, <2>3, TokenFits
    <3>2. x < Pay(t) + Rate
      BY <2>3, <3>1, DivisionFacts
    <3> HIDE DEF c, t
    <3> QED BY <1>3, <2>1, <3>1, <3>2, TokenFits, ConstantsTyped
  <2>4. CASE t = MaxWaitTimeLimit
    <3>1. t * Rate >= Interval
      <4>1. Interval <= t /\ MaxWaitTimeLimit \in Nat
        BY <2>4, ConfigAssumption
      <4>2. t * 1 <= t * Rate
        BY <1>2, ConstantsTyped, ProductMonotone
      <4>3. t * 1 = t /\ t * Rate \in Nat
        BY <1>2, ConstantsTyped, ProductNat
      <4> HIDE DEF t
      <4> QED BY <1>2, <4>1, <4>2, <4>3, ConstantsTyped
    <3>2. Pay(t) >= Cost(1)
      BY <3>1, TokenFits DEF Pay
    <3> HIDE DEF c, t
    <3> QED BY <1>3, <2>1, <3>2, TokenFits, ConstantsTyped
  <2>5. c >= Cost(1) \/ c < Cost(1)
    BY <1>3, TokenFits
  <2> QED BY <1>4, <2>2, <2>3, <2>4, <2>5 DEF Least
<1>6. Pay(f) = Pay(e) + Pay(t) + Rate + Pay(Lag) /\ Pay(e) \in Nat /\ Pay(t) \in Nat /\ Pay(f) \in Nat
  <2>1. Pay(e) \in Nat /\ Pay(t) \in Nat /\ Pay(f) \in Nat
    BY <1>1, <1>2, ConstantsTyped, ProductNat DEF Pay
  <2>2. Pay(f) = Pay(e) + Pay(d)
    <3> HIDE DEF e, d
    <3> QED BY <1>1, <1>2, PayFacts
  <2>3. Pay(d) = Pay(t + 1) + Pay(Lag) /\ Pay(t + 1) = Pay(t) + Pay(1)
    BY <1>2, PayFacts
  <2>4. Pay(1) = Rate
    BY ConstantsTyped DEF Pay
  <2>5. Pay(Lag) \in Int
    BY <1>2, PayFacts
  <2> HIDE DEF d, f, t, e
  <2> QED BY <2>1, <2>2, <2>3, <2>4, <2>5, ConstantsTyped
<1>7. g \in Nat /\ g <= Full /\ g \in {Pay(f), Pay(MaxElapsed), Full}
  BY <1>2, EarnedIsPaid
<1>8. Pay(MaxElapsed) >= Cost(1) /\ Pay(MaxElapsed) >= Epsilon
  BY EpsilonAssumption, TokenFits DEF Pay
<1>9. g >= Epsilon
  <2>1. Pay(Lag) \in Int
    BY <1>2, PayFacts
  <2>2. Pay(f) >= Epsilon
    <3> HIDE DEF f, e, t
    <3> QED BY <1>6, <2>1, LagFacts, ConstantsTyped
  <2> HIDE DEF g, f
  <2> QED BY <1>7, <1>8, <2>2, FullFacts, ConstantsTyped
<1>10. b.tokens + g >= Cost(1)
  <2>1. Pay(Lag) \in Int
    BY <1>2, PayFacts
  <2>2. CASE g = Pay(f)
    <3> HIDE DEF g, f, e, t, c
    <3> QED BY <1>1, <1>3, <1>5, <1>6, <2>1, <2>2, LagFacts, TokenFits, ConstantsTyped
  <2>3. CASE g = Pay(MaxElapsed) \/ g = Full
    <3> HIDE DEF g
    <3> QED BY <1>1, <1>7, <1>8, <2>3, TokenFits, FullFacts
  <2> QED BY <1>7, <2>2, <2>3
<1>11. now + d \in Nat /\ b.last <= now + d /\ (now + d) - b.last = f /\ now + d # b.last
  BY <1>1, <1>2
<1>12. r.tokens = Least(b.tokens + g, Full)
  <2>1. ~(g < Epsilon)
    <3> HIDE DEF g
    <3> QED BY <1>7, <1>9, ConstantsTyped
  <2> QED BY <1>11, <2>1, RefillTokens
<1>13. r.tokens >= Cost(1)
  <2> HIDE DEF r, g
  <2> QED BY <1>1, <1>7, <1>10, <1>12, TokenFits, FullFacts DEF Least
<1>14. now + d = now + WaitTime(b, now) + 1 + Lag
  <2> HIDE DEF t
  <2> QED BY <1>2 DEF t
<1> QED BY <1>13, <1>14

\* One unit before the announced time, refill finds none.
LEMMA TokenIsNotThere ==
  ASSUME NEW b \in Buckets, NEW now \in Nat, b.last <= now, WaitTime(b, now) > 0
  PROVE  Refill(b, now + WaitTime(b, now) - 1).tokens < Cost(1)
<1> DEFINE e == now - b.last  t == WaitTime(b, now)  c == Least(b.tokens + Earned(e), Full)
           k == t - 1  g == Earned(e + k)  r == Refill(b, now + k)
<1>1. b.last \in Nat /\ b.tokens \in Nat /\ b.tokens <= Full /\ e \in Nat
  BY FullFacts DEF Buckets
<1>2. t \in Nat /\ t > 0 /\ k \in Nat /\ e + k \in Nat /\ t = k + 1 /\ Full \in Nat
  BY <1>1, WaitTimeTyped, FullFacts
<1>3. t = IF c >= Cost(1) THEN 0 ELSE Least((Cost(1) - c) \div Rate, MaxWaitTimeLimit)
  <2>1. (IF now <= b.last THEN 0 ELSE now - b.last) = e
    BY <1>1
  <2> QED BY <2>1, BucketIsNoBucket DEF WaitTime
<1>4. Earned(e) \in Nat /\ Earned(e) <= Full /\ c \in Nat
  BY <1>1, EarnedIsPaid, FullFacts DEF Least
<1>5. c < Cost(1) /\ c = b.tokens + Earned(e)
  <2>1. ~(c >= Cost(1))
    BY <1>2, <1>3
  <2>2. c < Cost(1)
    <3> HIDE DEF c
    <3> QED BY <1>4, <2>1, TokenFits
  <2>3. c = b.tokens + Earned(e) \/ c = Full
    BY DEF Least
  <2> HIDE DEF c
  <2> QED BY <1>1, <1>4, <2>2, <2>3, TokenFits, FullFacts
<1>6. c + Pay(k) + Rate <= Cost(1)
  <2>1. PICK x \in Nat : x = Cost(1) - c
    BY <1>4, <1>5, TokenFits
  <2>2. t <= x \div Rate /\ x \div Rate \in Nat
    <3>1. t = Least(x \div Rate, MaxWaitTimeLimit) /\ x \div Rate \in Nat
      BY <1>3, <1>4, <1>5, <2>1, TokenFits, DivisionFacts
    <3> QED BY <3>1, ConfigAssumption DEF Least
  <2>3. Pay(t) <= Pay(x \div Rate) /\ Pay(x \div Rate) <= x
    <3>1. PICK y \in Nat : y = x \div Rate
      BY <2>2
    <3>2. Pay(t) <= Pay(y)
      <4> HIDE DEF t
      <4> QED BY <1>2, <2>2, <3>1, PayFacts
    <3>3. Pay(x \div Rate) <= x
      BY DivisionFacts
    <3> QED BY <3>1, <3>2, <3>3
  <2>4. Pay(t) = Pay(k) + Pay(1) /\ Pay(1) = Rate /\ Pay(k) \in Int /\ Pay(x \div Rate) \in Int
    <3>1. Pay(k + 1) = Pay(k) + Pay(1) /\ Pay(k) \in Int
      BY <1>2, PayFacts
    <3>2. Pay(1) = Rate
      BY ConstantsTyped DEF Pay
    <3>3. Pay(t) = Pay(k + 1)
      BY <1>2
    <3> QED BY <2>2, <3>1, <3>2, <3>3, PayFacts
  <2> HIDE DEF c, t, k
  <2> QED BY <1>4, <2>1, <2>3, <2>4, TokenFits, ConstantsTyped
<1>7. g \in Nat /\ g <= Earned(e) + Pay(k)
  <2> DEFINE a == Least(e, MaxElapsed)  h == Least(e + k, MaxElapsed)
  <2>1. a \in Nat /\ h \in Nat /\ h <= a + k /\ a + k \in Nat
    BY <1>1, <1>2, ConstantsTyped DEF Least
  <2>2. Pay(h) <= Pay(a + k) /\ Pay(a + k) = Pay(a) + Pay(k) /\ Pay(a) \in Int /\ Pay(k) \in Nat
        /\ Pay(h) \in Int
    <3>1. Pay(k) \in Nat
      BY <1>2, ConstantsTyped, ProductNat DEF Pay
    <3> HIDE DEF a, h, k
    <3>2. PICK u \in Nat : u = a + k
      BY <2>1
    <3>3. Pay(h) <= Pay(u) /\ Pay(h) \in Int
      BY <2>1, <3>2, PayFacts
    <3>4. Pay(a + k) = Pay(a) + Pay(k) /\ Pay(a) \in Int
      <4>1. a \in Int /\ k \in Int
        BY <1>2, <2>1
      <4> QED BY <4>1, PaySum
    <3> QED BY <3>1, <3>2, <3>3, <3>4
  <2>3. Earned(e) = Least(Pay(a), Full) /\ g = Least(Pay(h), Full)
    BY DEF Earned, Pay
  <2>4. g \in Nat
    BY <1>2, EarnedIsPaid
  <2> HIDE DEF a, h, k, g, e
  <2> QED BY <1>2, <1>4, <2>2, <2>3, <2>4 DEF Least
<1>8. Pay(k) \in Int
  BY <1>2, PayFacts
<1>9. b.tokens + g < Cost(1) /\ b.tokens < Cost(1)
  <2> HIDE DEF c, g, k, e
  <2> QED BY <1>1, <1>4, <1>5, <1>6, <1>7, <1>8, TokenFits, ConstantsTyped
<1>10. now + k \in Nat /\ b.last <= now + k /\ (now + k) - b.last = e + k
  BY <1>1, <1>2
<1>11. r = b \/ r.tokens = Least(b.tokens + g, Full)
  BY <1>10, RefillTokens
<1>12. r.tokens < Cost(1)
  <2> HIDE DEF r, g
  <2> QED BY <1>1, <1>7, <1>9, <1>11, TokenFits, FullFacts DEF Least
<1>13. now + k = now + WaitTime(b, now) - 1
  <2> HIDE DEF t
  <2> QED BY <1>2 DEF t
<1> QED BY <1>12, <1>13

-----------------------------------------------------------------------------

\* The bucket stays between empty and Burst, its time does not run ahead of the
\* clock, and Wait keeps its record (limiter.go:124-133, store.go:14-23).
THEOREM TypeCorrect == Spec => []TypeOK
<1>1. Init => TypeOK /\ Ordered
  BY InitIInv DEF IInv
<1>2. TypeOK /\ Ordered /\ [Next]_vars => (TypeOK /\ Ordered)'
  BY NextTyped
<1> QED BY <1>1, <1>2, PTL DEF Spec

\* A bucket that fills within maxElapsed, and from which nothing was taken for the
\* time it needs to fill, is full, however many refused calls, skipped refills and
\* evictions came in between (limiter.go:559-619), for every configuration.
THEOREM RefillsForgetNothing == Spec => []IdleBucketFills
<1> DEFINE Earning == FillsWithinMaxElapsed => Kept
<1>1. Init => TypeOK /\ Ordered /\ Earning
  <2>1. Init => Kept
    BY DEF Init, Kept
  <2> QED BY <2>1, InitIInv DEF IInv
<1>2. TypeOK /\ Ordered /\ Earning /\ [Next]_vars => (TypeOK /\ Ordered /\ Earning)'
  <2>1. FillsWithinMaxElapsed /\ TypeOK /\ Ordered /\ Kept /\ [Next]_vars => Kept'
    BY NextKept DEF FillsWithinMaxElapsed
  <2> QED BY <2>1, NextTyped
<1>3. TypeOK /\ Ordered /\ Earning => IdleBucketFills
  <2>1. FillsWithinMaxElapsed /\ TypeOK /\ Ordered /\ Kept => IdleBucketFills
    BY KeptFills DEF FillsWithinMaxElapsed
  <2>2. ~FillsWithinMaxElapsed => IdleBucketFills
    BY DEF IdleBucketFills
  <2> QED BY <2>1, <2>2
<1> QED BY <1>1, <1>2, <1>3, PTL DEF Spec

\* The time calculateWaitTime announces is the time after which refill has a token
\* to give (limiter.go:623-702), for every rate that earns a token within maxElapsed
\* and every configuration that keeps its interval within maxWaitTimeLimit, as
\* setDefaults makes sure of (config.go:198-204).
THEOREM WaitTimeIsTrue == MaxWaitTimeLimit >= Interval => (Spec => []WaitTimeAgreesWithRefill)
<1> SUFFICES ASSUME MaxWaitTimeLimit >= Interval PROVE Spec => []WaitTimeAgreesWithRefill
  OBVIOUS
<1>1. Init => TypeOK /\ Ordered
  BY InitIInv DEF IInv
<1>2. TypeOK /\ Ordered /\ [Next]_vars => (TypeOK /\ Ordered)'
  BY NextTyped
<1>3. TypeOK /\ Ordered => WaitTimeAgreesWithRefill
  <2> SUFFICES ASSUME TypeOK, Ordered, EarnsWithinMaxElapsed, bucket # NoBucket
               PROVE  WaitTimeAgreesWithRefill
    BY DEF WaitTimeAgreesWithRefill
  <2>0. MaxElapsed * Rate >= Interval
    <3>1. Cost(1) = Interval
      BY ConfigAssumption DEF Cost
    <3> QED BY <3>1 DEF EarnsWithinMaxElapsed
  <2>1. PICK b \in Buckets : b = bucket
    BY StateTyped
  <2>2. PICK now \in Nat : now = clock
    BY StateTyped
  <2>3. b.last <= now
    BY <2>1, <2>2, StateTyped
  <2>4. Refill(b, now + WaitTime(b, now) + 1 + Lag).tokens >= Cost(1)
    BY <2>0, <2>3, TokenIsThere
  <2>5. WaitTime(b, now) > 0 => Refill(b, now + WaitTime(b, now) - 1).tokens < Cost(1)
    BY <2>0, <2>3, TokenIsNotThere
  <2> QED BY <2>1, <2>2, <2>4, <2>5 DEF WaitTimeAgreesWithRefill
<1> QED BY <1>1, <1>2, <1>3, PTL DEF Spec
=============================================================================
