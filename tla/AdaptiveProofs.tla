---------------------------- MODULE AdaptiveProofs ----------------------------
(***************************************************************************)
(* The limit stays within the configured range and moves gently, if that    *)
(* range is one of int32s, and the calls in flight are counted exactly, for *)
(* any number of callers, any configuration and any latencies.  A limit is computed from values loaded *)
(* earlier, of which nothing is known but that they were once true: what    *)
(* makes the step safe is the compare-and-swap, which lets it happen only   *)
(* from the very limit it was computed for.                                 *)
(***************************************************************************)
EXTENDS Adaptive, FiniteSetTheorems, WellFoundedInduction, TLAPS

-----------------------------------------------------------------------------
(* Greatest and least elements.                                             *)

\* A set of naturals that is not empty has a least element.
LEMMA LeastNatural ==
  ASSUME NEW T \in SUBSET Nat, T # {}
  PROVE  \E x \in T : \A y \in T : x <= y
<1>1. PICK x \in T : \A y \in T : ~(<<y, x>> \in OpToRel(<, Nat))
  BY NatLessThanWellFounded, WFMin
<1>2. ASSUME NEW y \in T PROVE ~(y < x)
  BY <1>1 DEF OpToRel
<1> QED BY <1>2

\* Max of a bounded set of naturals is its greatest element.
LEMMA MaxOfBounded ==
  ASSUME NEW n \in Nat, NEW T \in SUBSET (0..n), T # {}
  PROVE  Max(T) \in T /\ \A y \in T : Max(T) >= y
<1> DEFINE D == {n - t : t \in T}
<1>1. \A t \in T : t \in Nat /\ n - t \in Nat
  OBVIOUS
<1>2. D \in SUBSET Nat /\ D # {}
  BY <1>1
<1>3. PICK d \in D : \A y \in D : d <= y
  <2> HIDE DEF D
  <2> QED BY <1>2, LeastNatural
<1>4. n - d \in T /\ \A y \in T : n - d >= y
  BY <1>1, <1>3
<1> QED BY <1>4 DEF Max

\* Max and Min of two integers.
LEMMA MaxOfTwo ==
  ASSUME NEW a \in Int, NEW b \in Int
  PROVE  /\ Max({a, b}) \in Int /\ Max({a, b}) = IF a >= b THEN a ELSE b
         /\ Min({a, b}) \in Int /\ Min({a, b}) = IF a <= b THEN a ELSE b
<1>1. Max({a, b}) \in {a, b} /\ \A y \in {a, b} : Max({a, b}) >= y
  <2>1. \E m \in {a, b} : \A y \in {a, b} : m >= y
    OBVIOUS
  <2> QED BY <2>1 DEF Max
<1>2. Min({a, b}) \in {a, b} /\ \A y \in {a, b} : Min({a, b}) <= y
  <2>1. \E m \in {a, b} : \A y \in {a, b} : m <= y
    OBVIOUS
  <2> QED BY <2>1 DEF Min
<1> QED BY <1>1, <1>2

-----------------------------------------------------------------------------
(* Gradient2's arithmetic.                                                  *)

\* Multiplication by a natural keeps the order.
LEMMA TimesMonotone ==
  ASSUME NEW a \in Int, NEW b \in Int, NEW k \in Nat, a <= b
  PROVE  a * k <= b * k
OBVIOUS

\* A rise whose square is at most the limit, seen through a common factor.
LEMMA SquareRoot ==
  ASSUME NEW d \in Nat, NEW cur \in Nat, NEW e \in Nat \ {0}, (d * e) * (d * e) <= e * e * cur
  PROVE  d * d <= cur
<1> DEFINE f == e * e
           q == d * d
<1>1. f \in Nat \ {0} /\ q \in Nat
  OBVIOUS
<1>2. (d * e) * (d * e) = q * f /\ e * e * cur = cur * f
  OBVIOUS
<1> HIDE DEF f, q
<1>3. q * f <= cur * f
  BY <1>2
<1>4. CASE q > cur
  <2>1. (cur + 1) * f <= q * f
    BY <1>1, <1>4, TimesMonotone
  <2>2. (cur + 1) * f = cur * f + f
    BY <1>1
  <2> QED BY <1>1, <1>3, <2>1, <2>2
<1> QED BY <1>1, <1>4 DEF q

\* A gradient between one half and one never takes the limit below one half of itself,
\* nor adds more than its square root.
LEMMA GradientIsGentle ==
  ASSUME NEW cur \in Nat, NEW num \in Nat \ {0}, NEW den \in Nat \ {0},
         num <= den, den <= 2 * num
  PROVE  LET t == GradientStep(cur, num, den)
         IN  /\ t \in Nat /\ t >= cur \div 2
             /\ t > cur => (t - cur) * (t - cur) <= cur
<1> DEFINE bound == 2 * cur
           half == cur \div 2
           beyond(t) == t * den - cur * num
           floor(t) == beyond(t) <= 0 \/ beyond(t) * beyond(t) <= den * den * cur
           T == {t \in 0..bound : floor(t)}
           t == Max(T)
<1>1. bound \in Nat /\ cur * num \in Nat /\ half \in Nat /\ 2 * half <= cur /\ half <= cur
  OBVIOUS
<1>2. beyond(half) <= 0
  <2>1. den * half <= (2 * num) * half
    BY <1>1, TimesMonotone
  <2>2. (2 * half) * num <= cur * num
    BY <1>1, TimesMonotone
  <2> HIDE DEF half
  <2>3. (2 * num) * half = (2 * half) * num /\ half * den = den * half
    BY <1>1
  <2>4. half * den \in Int /\ (2 * half) * num \in Int
    BY <1>1
  <2> QED BY <1>1, <2>1, <2>2, <2>3, <2>4
<1>3. half \in T
  BY <1>1, <1>2
<1>4. T \in SUBSET (0..bound) /\ T # {}
  BY <1>3
<1>5. t \in T /\ \A y \in T : t >= y
  <2> HIDE DEF T, bound
  <2> QED BY <1>1, <1>4, MaxOfBounded
<1>6. GradientStep(cur, num, den) = t
  BY DEF GradientStep
<1>7. t \in Nat /\ t >= half /\ floor(t)
  <2>1. t \in 0..bound /\ floor(t)
    BY <1>5
  <2>2. t >= half
    BY <1>3, <1>5
  <2> HIDE DEF t, half, bound, floor
  <2> QED BY <1>1, <2>1, <2>2
<1>8. ASSUME t > cur PROVE (t - cur) * (t - cur) <= cur
  <2> DEFINE d == t - cur
             b == t * den - cur * num
  <2>1. b <= 0 \/ b * b <= den * den * cur
    BY <1>7
  <2> HIDE DEF t
  <2>2. d \in Nat /\ d > 0
    BY <1>7, <1>8
  <2>3. num * cur <= den * cur
    BY TimesMonotone
  <2>4. d * den = t * den - den * cur /\ d * den \in Nat /\ d * den > 0
    BY <1>7, <2>2
  <2>5. d * den <= b /\ b \in Nat
    BY <1>7, <2>2, <2>3, <2>4
  <2> DEFINE a == d * den
  <2>6. a * a <= b * a /\ a * b <= b * b
    <3> HIDE DEF b, d
    <3>1. a \in Nat /\ b \in Nat /\ a <= b
      BY <2>4, <2>5
    <3> HIDE DEF a
    <3> QED BY <3>1, TimesMonotone
  <2>7. a * a <= b * b
    <3>1. a \in Nat /\ b \in Nat
      BY <2>4, <2>5
    <3> HIDE DEF a, b
    <3> QED BY <2>6, <3>1
  <2>8. ~(b <= 0)
    <3> HIDE DEF b
    <3> QED BY <2>4, <2>5
  <2>9. b * b \in Nat /\ a * a \in Nat /\ den * den * cur \in Nat
    BY <2>4, <2>5
  <2>10. a * a <= den * den * cur
    <3> HIDE DEF a, b
    <3> QED BY <2>1, <2>7, <2>8, <2>9
  <2> HIDE DEF d, b
  <2>11. d * d <= cur
    BY <2>2, <2>10, SquareRoot
  <2> QED BY <2>11 DEF d
<1> HIDE DEF t, half, T, floor
<1> QED BY <1>6, <1>7, <1>8 DEF half

-----------------------------------------------------------------------------
(* The inductive invariant.                                                 *)

Pcs == {"idle", "compare", "acquire", "run", "release", "succeed", "restart", "loadRaise",
        "raise", "fail", "loadHalve", "halve", "loadMin", "min", "loadEMA", "ema", "sample",
        "readMin", "readEMA", "loadLimit", "adjust"}
Ops == [pc : Pcs, cur : Int, rtt : Nat, min : Nat, ema : Int]
Outside == {"idle", "compare", "acquire"}

\* What setDefaults promises of any configuration.
Sound(k) ==
  /\ k.MinLimit \in Nat \ {0} /\ k.MaxLimit \in Nat /\ k.MinLimit <= k.MaxLimit
  /\ k.InitialLimit \in k.MinLimit..k.MaxLimit
  /\ k.MinSamples \in Nat \ {0}
  /\ k.GradientSmoothing[1] \in Int /\ k.GradientSmoothing[2] \in Nat

\* The ceiling is an int32; and what a limit then is.
Fits == cfg.MaxLimit <= MaxInt32
Inside(x) == x \in Int32s /\ (Fits => x \in MinLimit..MaxLimit)

Typed ==
  /\ cfg \in {Defaulted(c) : c \in Configs} /\ Sound(cfg)
  /\ inFlight \in Nat /\ successes \in Int32s
  /\ minRTT \in Nat /\ emaRTT \in Int /\ rttSamples \in 0..cfg.MinSamples
  /\ op \in [Callers -> Ops]
  /\ failures \in 0..MaxFailures

\* An increment is tried only from below the ceiling, and Vegas and Gradient2 compute
\* only with round trip times that exist.
WellLoaded ==
  \A c \in Callers :
    /\ op[c].pc = "raise" => op[c].cur < MaxLimit
    /\ op[c].pc \in {"loadLimit", "adjust"} => op[c].min # 0 /\ op[c].ema # 0

IInv == Typed /\ Inside(limit) /\ WellLoaded /\ InFlightExact

\* setDefaults repairs whatever the user left out or contradicted.
LEMMA DefaultedSound ==
  ASSUME NEW c \in Configs
  PROVE  Sound(Defaulted(c))
<1> DEFINE min == OrDefault(c.MinLimit, 1)
           max == Max({OrDefault(c.MaxLimit, 200), min})
           init == Min({Max({OrDefault(c.InitialLimit, 10), min}), max})
           thr == OrDefault(c.SuccessThreshold, 10)
           alpha == OrDefault(c.VegasAlpha, 3)
           beta == IF c.VegasBeta <= alpha THEN alpha * 2 ELSE c.VegasBeta
           samples == OrDefault(c.MinSamples, 10)
           sm == IF /\ c.GradientSmoothing[2] # 0
                    /\ \/ c.GradientSmoothing[1] <= 0
                       \/ c.GradientSmoothing[1] > c.GradientSmoothing[2]
                 THEN <<1, 5>> ELSE c.GradientSmoothing
           k == [c EXCEPT !.MinLimit = min, !.MaxLimit = max, !.InitialLimit = init,
                          !.SuccessThreshold = thr, !.VegasAlpha = alpha, !.VegasBeta = beta,
                          !.MinSamples = samples, !.GradientSmoothing = sm]
<1>1. c \in [Algorithm : {"aimd", "vegas", "gradient2"}, InitialLimit : Int,
               MinLimit : Int, MaxLimit : Int, SuccessThreshold : Int,
               VegasAlpha : Int, VegasBeta : Int, MinSamples : Int,
               GradientSmoothing : Int \X Nat]
  BY ConfigAssumption
<1>3. /\ c.InitialLimit \in Int /\ c.MinLimit \in Int /\ c.MaxLimit \in Int
      /\ c.MinSamples \in Int
  BY <1>1
<1>4. Defaulted(c) = k
  BY DEF Defaulted
<1>5. /\ min \in Nat \ {0} /\ samples \in Nat \ {0}
      /\ OrDefault(c.MaxLimit, 200) \in Nat \ {0} /\ OrDefault(c.InitialLimit, 10) \in Nat \ {0}
  BY <1>3 DEF OrDefault
<1>6. sm[1] \in Int /\ sm[2] \in Nat
  BY <1>1
<1> HIDE DEF min, thr, alpha, beta, samples, sm
<1>8. max \in Nat /\ min <= max
  BY <1>5, MaxOfTwo
<1>9. init \in min..max
  <2> DEFINE raised == Max({OrDefault(c.InitialLimit, 10), min})
  <2>1. raised \in Int /\ raised >= min
    BY <1>5, MaxOfTwo
  <2>2. init = Min({raised, max})
    OBVIOUS
  <2> HIDE DEF raised, max, init
  <2>3. init = IF raised <= max THEN raised ELSE max
    <3>1. raised \in Int /\ max \in Int
      BY <1>8, <2>1
    <3> QED BY <2>2, <3>1, MaxOfTwo
  <2> QED BY <1>5, <1>8, <2>1, <2>3
<1> HIDE DEF max, init
<1>10. /\ k.MinLimit = min /\ k.MaxLimit = max /\ k.InitialLimit = init
      /\ k.SuccessThreshold = thr /\ k.VegasAlpha = alpha /\ k.VegasBeta = beta
      /\ k.MinSamples = samples /\ k.GradientSmoothing = sm
  BY <1>1
<1> HIDE DEF k
<1> QED BY <1>4, <1>5, <1>6, <1>8, <1>9, <1>10 DEF Sound

-----------------------------------------------------------------------------
(* The targets.                                                             *)

\* What Vegas and Gradient2 may make of the limit they loaded.
Gentle(from, to) ==
  /\ to >= from \div 2
  /\ to > from => (to - from) * (to - from) <= from

\* int32(x) is an int32, and x if x was one.
LEMMA Int32Conversion ==
  ASSUME NEW x \in Int
  PROVE  Int32(x) \in Int32s /\ (x \in Int32s => Int32(x) = x)
<1> DEFINE m == 2 * (MaxInt32 + 1)
           y == x + MaxInt32 + 1
<1>1. m \in Nat \ {0} /\ y \in Int /\ MaxInt32 \in Nat
  BY Int32Assumption
<1>2. Int32(x) = (y % m) - (MaxInt32 + 1)
  BY DEF Int32
<1>3. y % m \in 0..(m - 1) /\ (y \in 0..(m - 1) => y % m = y)
  <2> HIDE DEF m, y
  <2> QED BY <1>1
<1>4. x \in Int32s => y \in 0..(m - 1)
  BY <1>1 DEF Int32s
<1>5. \A z \in 0..(m - 1) : z - (MaxInt32 + 1) \in Int32s
  BY <1>1 DEF Int32s
<1>6. y - (MaxInt32 + 1) = x
  BY <1>1
<1> HIDE DEF m, y
<1> QED BY <1>2, <1>3, <1>4, <1>5, <1>6

\* The wrapped limits, which are the configured ones if those fit.
LEMMA LimitsTyped ==
  ASSUME Sound(cfg)
  PROVE  /\ MinLimit \in Int32s /\ MaxLimit \in Int32s
         /\ MinLimit \in Int /\ MaxLimit \in Int
         /\ Fits => /\ MinLimit = cfg.MinLimit /\ MaxLimit = cfg.MaxLimit
                    /\ MinLimit \in Nat \ {0} /\ MaxLimit \in Nat /\ MinLimit <= MaxLimit
<1>1. /\ cfg.MinLimit \in Nat \ {0} /\ cfg.MaxLimit \in Nat /\ cfg.MinLimit <= cfg.MaxLimit
      /\ MaxInt32 \in Nat
  BY Int32Assumption DEF Sound
<1>2. Fits => cfg.MinLimit \in Int32s /\ cfg.MaxLimit \in Int32s
  BY <1>1 DEF Fits, Int32s
<1>3. /\ Int32(cfg.MinLimit) \in Int32s /\ Int32(cfg.MaxLimit) \in Int32s
      /\ cfg.MinLimit \in Int32s => Int32(cfg.MinLimit) = cfg.MinLimit
      /\ cfg.MaxLimit \in Int32s => Int32(cfg.MaxLimit) = cfg.MaxLimit
  BY <1>1, Int32Conversion
<1>4. \A x \in Int32s : x \in Int
  BY <1>1 DEF Int32s
<1> QED BY <1>1, <1>2, <1>3, <1>4 DEF MinLimit, MaxLimit

\* A limit is an int32, and positive if the ceiling fits.
LEMMA InsideTyped ==
  ASSUME Sound(cfg), NEW x, Inside(x)
  PROVE  /\ x \in Int /\ -(MaxInt32 + 1) <= x /\ x <= MaxInt32
         /\ Fits => x \in Nat \ {0} /\ MinLimit <= x /\ x <= MaxLimit
BY LimitsTyped, Int32Assumption DEF Inside, Int32s

\* Vegas moves by one, inside the range.
LEMMA VegasIsGentle ==
  ASSUME Sound(cfg), NEW cur, Inside(cur), NEW min, NEW ema
  PROVE  /\ Inside(VegasTarget(cur, min, ema))
         /\ Fits => Gentle(cur, VegasTarget(cur, min, ema))
<1>1. \/ VegasTarget(cur, min, ema) = cur + 1 /\ cur < MaxLimit
      \/ VegasTarget(cur, min, ema) = cur - 1 /\ cur > MinLimit
      \/ VegasTarget(cur, min, ema) = cur
  BY DEF VegasTarget
<1>2. /\ cur \in Int /\ -(MaxInt32 + 1) <= cur /\ cur <= MaxInt32
      /\ MinLimit \in Int /\ -(MaxInt32 + 1) <= MinLimit /\ MinLimit <= MaxInt32
      /\ MaxLimit \in Int /\ -(MaxInt32 + 1) <= MaxLimit /\ MaxLimit <= MaxInt32
      /\ Fits => cur \in Nat \ {0} /\ MinLimit <= cur /\ cur <= MaxLimit
      /\ MaxInt32 \in Nat
  BY InsideTyped, LimitsTyped, Int32Assumption DEF Int32s
<1> QED BY <1>1, <1>2 DEF Gentle, Inside, Int32s

\* Whatever is clamped is a limit.
LEMMA ClampInside ==
  ASSUME Sound(cfg), NEW t \in Int
  PROVE  /\ Inside(Clamp(t))
         /\ Fits => Clamp(t) = IF t < MinLimit THEN MinLimit
                               ELSE IF t > MaxLimit THEN MaxLimit ELSE t
<1>1. /\ MinLimit \in Int /\ -(MaxInt32 + 1) <= MinLimit /\ MinLimit <= MaxInt32
      /\ MaxLimit \in Int /\ -(MaxInt32 + 1) <= MaxLimit /\ MaxLimit <= MaxInt32
      /\ Fits => MinLimit <= MaxLimit
      /\ MaxInt32 \in Nat
  BY LimitsTyped, Int32Assumption DEF Int32s
<1> DEFINE raised == Max({t, MinLimit})
<1>2. raised \in Int /\ raised = IF t >= MinLimit THEN t ELSE MinLimit
  BY <1>1, MaxOfTwo
<1>3. Clamp(t) = Min({raised, MaxLimit})
  BY DEF Clamp
<1> HIDE DEF raised
<1>4. Clamp(t) = IF raised <= MaxLimit THEN raised ELSE MaxLimit
  BY <1>1, <1>2, <1>3, MaxOfTwo
<1> QED BY <1>1, <1>2, <1>4 DEF Inside, Int32s

\* Clamping brings a target no further from a limit inside the range.
LEMMA ClampIsGentle ==
  ASSUME Sound(cfg), Fits, NEW cur, Inside(cur), NEW t \in Nat, Gentle(cur, t)
  PROVE  Gentle(cur, Clamp(t))
<1>1. /\ cur \in Nat \ {0} /\ MinLimit \in Nat \ {0} /\ MaxLimit \in Nat
      /\ MinLimit <= cur /\ cur <= MaxLimit
  BY InsideTyped, LimitsTyped
<1>2. CASE t < MinLimit
  <2>1. Clamp(t) = MinLimit
    BY <1>2, ClampInside
  <2> QED BY <1>1, <1>2, <2>1 DEF Gentle
<1>3. CASE t > MaxLimit
  <2>1. Clamp(t) = MaxLimit
    BY <1>1, <1>3, ClampInside
  <2>2. CASE MaxLimit = cur
    BY <1>1, <2>1, <2>2 DEF Gentle
  <2>3. CASE MaxLimit > cur
    <3> DEFINE a == MaxLimit - cur
               b == t - cur
    <3>1. a \in Nat /\ b \in Nat /\ a <= b
      BY <1>1, <1>3, <2>3
    <3>2. b * b <= cur
      BY <1>1, <1>3, <2>3 DEF Gentle
    <3> HIDE DEF a, b
    <3>3. a * a <= b * a /\ a * b <= b * b
      BY <3>1, TimesMonotone
    <3>4. a * a <= cur
      BY <1>1, <3>1, <3>2, <3>3
    <3> QED BY <1>1, <2>1, <2>3, <3>4 DEF Gentle, a
  <2> QED BY <1>1, <2>2, <2>3
<1>4. CASE ~(t < MinLimit) /\ ~(t > MaxLimit)
  <2>1. Clamp(t) = t
    BY <1>4, ClampInside
  <2> QED BY <2>1
<1> QED BY <1>2, <1>3, <1>4

\* Squares keep the order.
LEMMA SquareOrder ==
  ASSUME NEW d \in Nat, NEW e \in Nat, d * d <= e * e
  PROVE  d <= e
<1>1. CASE d > e
  <2>1. (e + 1) * d <= d * d /\ e * e <= d * e
    BY <1>1, TimesMonotone
  <2>2. (e + 1) * d = d * e + d
    OBVIOUS
  <2>3. d * d \in Int /\ e * e \in Int /\ d * e \in Int
    OBVIOUS
  <2> QED BY <1>1, <2>1, <2>2, <2>3
<1> QED BY <1>1

\* With headroom the sum of a limit and its root is an int32.
LEMMA RootFits ==
  ASSUME Sound(cfg), Headroom, NEW cur, Inside(cur), NEW t \in Nat, Gentle(cur, t)
  PROVE  t <= MaxInt32
<1> DEFINE room == MaxInt32 - cfg.MaxLimit
           d == t - cur
<1>1. room \in Nat /\ room * room >= cfg.MaxLimit /\ Fits /\ cfg.MaxLimit \in Nat
  BY Int32Assumption DEF Headroom, Fits, Sound
<1>2. cur \in Nat \ {0} /\ cur <= cfg.MaxLimit
  BY <1>1, InsideTyped, LimitsTyped
<1>3. CASE t <= cur
  BY <1>1, <1>2, <1>3, Int32Assumption
<1>4. CASE t > cur
  <2>1. d \in Nat /\ d * d <= cur
    BY <1>2, <1>4 DEF Gentle
  <2>2. d * d <= room * room
    <3> HIDE DEF d, room
    <3>1. d * d \in Int /\ room * room \in Int
      BY <1>1, <2>1
    <3> QED BY <1>1, <1>2, <2>1, <3>1
  <2>3. d <= room
    <3> HIDE DEF d, room
    <3> QED BY <1>1, <2>1, <2>2, SquareOrder
  <2> QED BY <1>1, <1>2, <2>3, Int32Assumption
<1> QED BY <1>2, <1>3, <1>4

\* Gradient2 clamps its gradient between one half and one, then the limit.
LEMMA Gradient2IsGentle ==
  ASSUME Sound(cfg), NEW cur, Inside(cur), NEW min \in Nat \ {0}, NEW ema \in Int \ {0},
         NEW x \in Gradient2Targets(cur, min, ema)
  PROVE  Inside(x) /\ (Headroom => Gentle(cur, x))
<1>1. ASSUME NEW num \in Nat \ {0}, NEW den \in Nat \ {0}, num <= den, den <= 2 * num,
             x \in Converted(cur, num, den)
      PROVE  Inside(x) /\ (Headroom => Gentle(cur, x))
  <2> DEFINE t == GradientStep(cur, num, den)
  <2>1. cur \in Int /\ (Fits => cur \in Nat) /\ \A y \in Int32s : y \in Int
    BY InsideTyped, Int32Assumption DEF Int32s
  <2>2. cur >= 0 => t \in Nat /\ Gentle(cur, t)
    BY <1>1, <2>1, GradientIsGentle DEF Gentle
  <2>3. \/ cur >= 0 /\ x = Clamp(t)
        \/ \E y \in Int32s : x = Clamp(y)
    BY <1>1 DEF Converted
  <2>4. Headroom => cur >= 0 /\ x = Clamp(t)
    <3> SUFFICES ASSUME Headroom PROVE cur >= 0 /\ x = Clamp(t)
      OBVIOUS
    <3>1. Fits /\ cur >= 0
      BY <2>1, Int32Assumption DEF Headroom, Fits, Sound
    <3>2. t <= MaxInt32
      <4> HIDE DEF t
      <4> QED BY <2>2, <3>1, RootFits
    <3> QED BY <1>1, <3>1, <3>2 DEF Converted
  <2> HIDE DEF t
  <2>5. Inside(x)
    BY <2>1, <2>2, <2>3, ClampInside
  <2>6. Headroom => Fits
    BY Int32Assumption DEF Headroom, Fits, Sound
  <2> QED BY <2>2, <2>4, <2>5, <2>6, ClampIsGentle
<1>2. CASE ema < 0 \/ min * 2 < ema
  <2>1. x \in Converted(cur, 1, 2)
    BY <1>2 DEF Gradient2Targets
  <2> QED BY <1>1, <2>1
<1>3. CASE ~(ema < 0 \/ min * 2 < ema) /\ ema > 0 /\ min > ema
  <2>1. x \in Converted(cur, 1, 1)
    BY <1>3 DEF Gradient2Targets
  <2> QED BY <1>1, <2>1
<1>4. CASE ~(ema < 0 \/ min * 2 < ema) /\ ~(ema > 0 /\ min > ema)
  <2>1. x \in Converted(cur, min, ema)
    BY <1>4 DEF Gradient2Targets
  <2>2. min <= ema /\ ema <= 2 * min /\ ema \in Nat \ {0}
    BY <1>4
  <2> QED BY <1>1, <2>1, <2>2
<1> QED BY <1>2, <1>3, <1>4

\* The moving average of times is an integer.
LEMMA SmoothedTyped ==
  ASSUME Sound(cfg), NEW cur \in Int, NEW rtt \in Nat
  PROVE  Smoothed(cur, rtt) \subseteq Int
<1>1. SmoothingNum \in Int /\ SmoothingDen \in Nat
  BY DEF Sound, SmoothingNum, SmoothingDen
<1>2. cur * (SmoothingDen - SmoothingNum) + rtt * SmoothingNum \in Int
  BY <1>1
<1>3. \A a \in Int, b \in Nat \ {0} : a \div b \in Int
  OBVIOUS
<1>4. SmoothingDen # 0 =>
        (cur * (SmoothingDen - SmoothingNum) + rtt * SmoothingNum) \div SmoothingDen \in Int
  BY <1>1, <1>2, <1>3
<1>5. (cur * 7 + rtt) \div 8 \in Int /\ NaNAsInt64 \subseteq Int
  BY DEF NaNAsInt64
<1> QED BY <1>4, <1>5 DEF Smoothed

-----------------------------------------------------------------------------
(* The steps of one caller.                                                 *)

\* An operation's record with its place and its loaded values replaced.
LEMMA OpTyped ==
  ASSUME NEW o \in [Callers -> Ops], NEW c \in Callers, NEW r \in Ops
  PROVE  /\ [o EXCEPT ![c] = r] \in [Callers -> Ops]
         /\ [o EXCEPT ![c] = r][c] = r
         /\ \A d \in Callers \ {c} : [o EXCEPT ![c] = r][d] = o[d]
OBVIOUS

\* c's operation goes to p, and the other callers' stay.
Moves(c, p) ==
  /\ op' \in [Callers -> Ops] /\ op'[c].pc = p
  /\ \A d \in Callers \ {c} : op'[d] = op[d]

\* Goto moves c and keeps what it has loaded.
LEMMA GotoMoves ==
  ASSUME op \in [Callers -> Ops], NEW c \in Callers, NEW p \in Pcs, op' = [op EXCEPT ![c].pc = p]
  PROVE  /\ Moves(c, p)
         /\ op'[c].cur = op[c].cur /\ op'[c].min = op[c].min /\ op'[c].ema = op[c].ema
<1>1. op[c] \in Ops
  OBVIOUS
<1>2. /\ [op[c] EXCEPT !.pc = p] \in Ops /\ [op[c] EXCEPT !.pc = p].pc = p
      /\ [op[c] EXCEPT !.pc = p].cur = op[c].cur
      /\ [op[c] EXCEPT !.pc = p].min = op[c].min /\ [op[c] EXCEPT !.pc = p].ema = op[c].ema
  BY <1>1 DEF Ops
<1>3. op' = [op EXCEPT ![c] = [op[c] EXCEPT !.pc = p]]
  OBVIOUS
<1> QED BY <1>2, <1>3, OpTyped DEF Moves

\* Loaded moves c with a new value.
LEMMA LoadedMoves ==
  ASSUME op \in [Callers -> Ops], NEW c \in Callers, NEW p \in Pcs, NEW x \in Int, Loaded(c, p, x)
  PROVE  /\ Moves(c, p)
         /\ op'[c].cur = x /\ op'[c].min = op[c].min /\ op'[c].ema = op[c].ema
<1>1. op[c] \in Ops
  OBVIOUS
<1> DEFINE r == [op[c] EXCEPT !.pc = p, !.cur = x]
<1>2. r \in Ops /\ r.pc = p /\ r.cur = x /\ r.min = op[c].min /\ r.ema = op[c].ema
  BY <1>1 DEF Ops
<1>3. op' = [op EXCEPT ![c] = r]
  BY DEF Loaded
<1> HIDE DEF r
<1> QED BY <1>2, <1>3, OpTyped DEF Moves

\* A step that begins or ends a call's stay counts it, and any other step does not.
LEMMA CountedStep ==
  ASSUME op \in [Callers -> Ops], inFlight \in Nat, InFlightExact,
         NEW c \in Callers, NEW p \in Pcs, Moves(c, p),
         \/ inFlight' = inFlight /\ (op[c].pc \in Outside <=> p \in Outside)
         \/ inFlight' = inFlight + 1 /\ op[c].pc \in Outside /\ p \notin Outside
         \/ inFlight' = inFlight - 1 /\ op[c].pc \notin Outside /\ p \in Outside
  PROVE  InFlightExact' /\ inFlight' \in Nat
<1> DEFINE H == {d \in Callers : op[d].pc \notin Outside}
           K == {d \in Callers : op'[d].pc \notin Outside}
<1>1. Holders = H /\ Holders' = K
  BY DEF Holders, Outside
<1>2. IsFiniteSet(H) /\ IsFiniteSet(K) /\ Cardinality(H) \in Nat /\ Cardinality(K) \in Nat
  <2>1. H \in SUBSET Callers /\ K \in SUBSET Callers
    OBVIOUS
  <2> QED BY <2>1, CallersAssumption, FS_Subset, FS_CardinalityType
<1>3. inFlight = Cardinality(H)
  BY <1>1 DEF InFlightExact
<1>4. CASE inFlight' = inFlight /\ (op[c].pc \in Outside <=> p \in Outside)
  <2>1. H = K
    BY <1>4 DEF Moves
  <2> QED BY <1>1, <1>2, <1>3, <1>4, <2>1 DEF InFlightExact
<1>5. CASE inFlight' = inFlight + 1 /\ op[c].pc \in Outside /\ p \notin Outside
  <2>1. K = H \cup {c} /\ c \notin H
    BY <1>5 DEF Moves
  <2>2. Cardinality(K) = Cardinality(H) + 1
    BY <1>2, <2>1, FS_AddElement
  <2> QED BY <1>1, <1>2, <1>3, <1>5, <2>2 DEF InFlightExact
<1>6. CASE inFlight' = inFlight - 1 /\ op[c].pc \notin Outside /\ p \in Outside
  <2>1. K = H \ {c} /\ c \in H
    BY <1>6 DEF Moves
  <2>2. Cardinality(K) = Cardinality(H) - 1
    <3> HIDE DEF H, K
    <3> QED BY <1>2, <2>1, FS_RemoveElement
  <2> QED BY <1>1, <1>2, <1>3, <1>6, <2>2 DEF InFlightExact
<1> QED BY <1>4, <1>5, <1>6

\* What is left to show of a step of c.
LEMMA StepOf ==
  ASSUME IInv, NEW c \in Callers, NEW p \in Pcs, Moves(c, p), cfg' = cfg,
         Inside(limit'),
         successes' \in Int32s, minRTT' \in Nat, emaRTT' \in Int,
         rttSamples' \in 0..cfg.MinSamples, failures' \in 0..MaxFailures,
         p = "raise" => op'[c].cur < MaxLimit,
         p \in {"loadLimit", "adjust"} => op'[c].min # 0 /\ op'[c].ema # 0,
         \/ inFlight' = inFlight /\ (op[c].pc \in Outside <=> p \in Outside)
         \/ inFlight' = inFlight + 1 /\ op[c].pc \in Outside /\ p \notin Outside
         \/ inFlight' = inFlight - 1 /\ op[c].pc \notin Outside /\ p \in Outside
  PROVE  IInv'
<1>1. InFlightExact' /\ inFlight' \in Nat
  BY CountedStep DEF IInv, Typed
<1>2. Typed'
  BY <1>1 DEF IInv, Typed, Moves
<1>3. Inside(limit)'
  BY DEF Inside, Fits, MinLimit, MaxLimit
<1>4. WellLoaded'
  <2> SUFFICES ASSUME NEW d \in Callers
               PROVE  /\ op'[d].pc = "raise" => op'[d].cur < MaxLimit
                      /\ op'[d].pc \in {"loadLimit", "adjust"} => op'[d].min # 0 /\ op'[d].ema # 0
    BY DEF WellLoaded, MaxLimit
  <2>1. CASE d = c
    BY <2>1 DEF Moves
  <2>2. CASE d # c
    BY <2>2 DEF Moves, IInv, WellLoaded
  <2> QED BY <2>1, <2>2
<1> QED BY <1>1, <1>2, <1>3, <1>4 DEF IInv

\* Back to the beginning.
LEMMA IdleMoves ==
  ASSUME op \in [Callers -> Ops], NEW c \in Callers, op' = [op EXCEPT ![c] = Idle]
  PROVE  Moves(c, "idle")
<1>1. Idle \in Ops /\ Idle.pc = "idle"
  BY DEF Idle, Ops, Pcs
<1> QED BY <1>1, OpTyped DEF Moves

\* A step of c that touches no shared word.
LEMMA PrivateStep ==
  ASSUME IInv, NEW c \in Callers, NEW p \in Pcs, Moves(c, p),
         UNCHANGED <<cfg, limit, inFlight, successes, minRTT, emaRTT, rttSamples>>,
         failures' \in 0..MaxFailures,
         p = "raise" => op'[c].cur < MaxLimit,
         p \in {"loadLimit", "adjust"} => op'[c].min # 0 /\ op'[c].ema # 0,
         op[c].pc \in Outside <=> p \in Outside
  PROVE  IInv'
<1>1. /\ Inside(limit') /\ successes' \in Int32s /\ minRTT' \in Nat
      /\ emaRTT' \in Int /\ rttSamples' \in 0..cfg.MinSamples
  BY DEF IInv, Typed
<1> QED BY <1>1, StepOf

\* tryAcquire.
LEMMA ArrivingStep ==
  ASSUME IInv, NEW c \in Callers, Arriving(c), cfg' = cfg
  PROVE  IInv'
<1> USE DEF Pcs, Outside
<1>1. op \in [Callers -> Ops] /\ inFlight \in Nat /\ failures \in 0..MaxFailures
  BY DEF IInv, Typed
<1>2. CASE LoadInFlight(c)
  <2>1. Moves(c, "compare")
    <3>1. PICK x \in Nat : x = inFlight
      BY <1>1
    <3> QED BY <1>1, <1>2, <3>1, LoadedMoves DEF LoadInFlight
  <2> QED BY <1>1, <1>2, <2>1, PrivateStep DEF LoadInFlight, rttVars, At
<1>3. CASE CompareWithLimit(c)
  <2>1. CASE op[c].cur >= limit
    <3>1. Moves(c, "idle")
      BY <1>1, <1>3, <2>1, IdleMoves DEF CompareWithLimit
    <3> QED BY <1>1, <1>3, <3>1, PrivateStep DEF CompareWithLimit, rttVars, At
  <2>2. CASE ~(op[c].cur >= limit)
    <3>1. Moves(c, "acquire")
      BY <1>1, <1>3, <2>2, GotoMoves DEF CompareWithLimit
    <3> QED BY <1>1, <1>3, <3>1, PrivateStep DEF CompareWithLimit, rttVars, At
  <2> QED BY <2>1, <2>2
<1>4. CASE Acquire(c)
  <2>1. CASE inFlight' = inFlight + 1 /\ Loaded(c, "run", 0)
    <3>1. Moves(c, "run")
      BY <1>1, <2>1, LoadedMoves
    <3>2. /\ Inside(limit') /\ successes' \in Int32s /\ minRTT' \in Nat
          /\ emaRTT' \in Int /\ rttSamples' \in 0..cfg.MinSamples /\ failures' \in 0..MaxFailures
      BY <1>4 DEF IInv, Typed, Acquire, rttVars
    <3> QED BY <1>4, <2>1, <3>1, <3>2, StepOf DEF Acquire, At
  <2>2. CASE inFlight' = inFlight /\ op' = [op EXCEPT ![c] = Idle]
    <3>1. Moves(c, "idle")
      BY <1>1, <2>2, IdleMoves
    <3> QED BY <1>1, <1>4, <2>2, <3>1, PrivateStep DEF Acquire, rttVars, At
  <2> QED BY <1>4, <2>1, <2>2 DEF Acquire
<1> QED BY <1>2, <1>3, <1>4 DEF Arriving

\* What fn does, and the deferred release.
LEMMA RunStep ==
  ASSUME IInv, NEW c \in Callers, cfg' = cfg,
         Succeeding(c) \/ FnFails(c) \/ FnPanics(c) \/ Release(c)
  PROVE  IInv'
<1> USE DEF Pcs, Outside
<1>1. op \in [Callers -> Ops] /\ inFlight \in Nat /\ failures \in 0..MaxFailures
  BY DEF IInv, Typed
<1>2. ASSUME NEW rtt \in RTTs, FnSucceeds(c, rtt) PROVE IInv'
  <2>1. \E p \in {"succeed", "release", "loadMin"} : Moves(c, p)
    <3>1. CASE op' = [op EXCEPT ![c].pc = "succeed"]
      BY <1>1, <3>1, GotoMoves
    <3>2. CASE op' = [op EXCEPT ![c].pc = "release"]
      BY <1>1, <3>2, GotoMoves
    <3>3. CASE op' = [op EXCEPT ![c].pc = "loadMin", ![c].rtt = rtt]
      <4>1. op[c] \in Ops /\ rtt \in Nat
        BY <1>1, ConfigAssumption
      <4> DEFINE r == [op[c] EXCEPT !.pc = "loadMin", !.rtt = rtt]
      <4>2. r \in Ops /\ r.pc = "loadMin"
        BY <4>1 DEF Ops
      <4>3. op' = [op EXCEPT ![c] = r]
        BY <3>3
      <4> HIDE DEF r
      <4> QED BY <1>1, <4>2, <4>3, OpTyped DEF Moves
    <3> QED BY <1>2, <3>1, <3>2, <3>3 DEF FnSucceeds
  <2> QED BY <1>1, <1>2, <2>1, PrivateStep DEF FnSucceeds, rttVars, At
<1>3. CASE FnFails(c)
  <2>1. Moves(c, "fail")
    BY <1>1, <1>3, GotoMoves DEF FnFails, Goto
  <2>2. failures' \in 0..MaxFailures
    BY <1>1, <1>3, ConfigAssumption DEF FnFails
  <2> QED BY <1>3, <2>1, <2>2, PrivateStep DEF FnFails, rttVars, At
<1>4. CASE FnPanics(c)
  <2>1. Moves(c, "release")
    BY <1>1, <1>4, GotoMoves DEF FnPanics, Goto
  <2>2. failures' \in 0..MaxFailures
    BY <1>1, <1>4, ConfigAssumption DEF FnPanics
  <2> QED BY <1>4, <2>1, <2>2, PrivateStep DEF FnPanics, rttVars, At
<1>5. CASE Release(c)
  <2>1. Moves(c, "idle")
    BY <1>1, <1>5, IdleMoves DEF Release
  <2>2. /\ Inside(limit') /\ successes' \in Int32s /\ minRTT' \in Nat
        /\ emaRTT' \in Int /\ rttSamples' \in 0..cfg.MinSamples /\ failures' \in 0..MaxFailures
    BY <1>5 DEF IInv, Typed, Release, rttVars
  <2> QED BY <1>5, <2>1, <2>2, StepOf DEF Release, At
<1> QED BY <1>2, <1>3, <1>4, <1>5 DEF Succeeding

\* The limit of a reachable state.
LEMMA LimitTyped ==
  ASSUME IInv
  PROVE  /\ Sound(cfg) /\ limit \in Int /\ MinLimit \in Int /\ MaxLimit \in Int
         /\ -(MaxInt32 + 1) <= limit /\ limit <= MaxInt32
         /\ -(MaxInt32 + 1) <= MinLimit /\ MinLimit <= MaxInt32 /\ MaxLimit <= MaxInt32
         /\ Fits => limit \in Nat \ {0} /\ MinLimit <= limit /\ limit <= MaxLimit
BY InsideTyped, LimitsTyped DEF IInv, Typed, Int32s

\* What a step may do to the limit if the configuration leaves room.
GentleStep == Headroom => Gentle(limit, limit')

\* Room means that the ceiling fits.
LEMMA HeadroomFits == ASSUME Sound(cfg) PROVE Headroom => Fits
BY Int32Assumption DEF Headroom, Fits, Sound

\* A step that leaves the limit is gentle.
LEMMA StillIsGentle ==
  ASSUME IInv, limit' = limit
  PROVE  GentleStep
BY LimitTyped, HeadroomFits DEF GentleStep, Gentle

\* onSuccess of AIMD.
LEMMA AIMDStep ==
  ASSUME IInv, NEW c \in Callers, AIMD(c), cfg' = cfg
  PROVE  IInv' /\ GentleStep
<1> USE DEF Pcs, Outside
<1>1. /\ op \in [Callers -> Ops] /\ inFlight \in Nat /\ failures \in 0..MaxFailures
      /\ Inside(limit) /\ successes \in Int32s /\ minRTT \in Nat
      /\ emaRTT \in Int /\ rttSamples \in 0..cfg.MinSamples
  BY DEF IInv, Typed
<1>2. CASE CountSuccess(c)
  <2>1. \E p \in {"release", "restart"} : Moves(c, p)
    <3>1. CASE Goto(c, "release")
      BY <1>1, <3>1, GotoMoves DEF Goto
    <3>2. CASE Goto(c, "restart")
      BY <1>1, <3>2, GotoMoves DEF Goto
    <3> QED BY <1>2, <3>1, <3>2 DEF CountSuccess
  <2>2. limit' = limit /\ op[c].pc = "succeed" /\ successes' = Int32(successes + 1)
        /\ UNCHANGED <<inFlight, minRTT, emaRTT, rttSamples, failures>>
    BY <1>2 DEF CountSuccess, rttVars, At
  <2>3. successes' \in Int32s
    <3>1. successes + 1 \in Int
      BY <1>1, Int32Assumption DEF Int32s
    <3> QED BY <2>2, <3>1, Int32Conversion
  <2> QED BY <1>1, <2>1, <2>2, <2>3, StepOf, StillIsGentle
<1>3. CASE RestartSuccesses(c)
  <2>1. Moves(c, "loadRaise")
    BY <1>1, <1>3, GotoMoves DEF RestartSuccesses, Goto
  <2>2. limit' = limit /\ successes' \in Int32s /\ op[c].pc = "restart"
        /\ UNCHANGED <<inFlight, minRTT, emaRTT, rttSamples, failures>>
    BY <1>1, <1>3, Int32Assumption DEF RestartSuccesses, rttVars, At, Int32s
  <2> QED BY <1>1, <2>1, <2>2, StepOf, StillIsGentle
<1>4. CASE LoadToRaise(c)
  <2>1. /\ UNCHANGED <<limit, inFlight, successes, minRTT, emaRTT, rttSamples, failures>>
        /\ op[c].pc = "loadRaise"
    BY <1>4 DEF LoadToRaise, rttVars, At
  <2>2. CASE Goto(c, "release")
    <3>1. Moves(c, "release")
      BY <1>1, <2>2, GotoMoves DEF Goto
    <3> QED BY <1>1, <2>1, <3>1, PrivateStep, StillIsGentle
  <2>3. CASE ~(limit >= MaxLimit) /\ Loaded(c, "raise", limit)
    <3>1. PICK x \in Int : x = limit
      BY LimitTyped
    <3>2. Moves(c, "raise") /\ op'[c].cur = limit
      BY <1>1, <2>3, <3>1, LoadedMoves
    <3>3. op'[c].cur < MaxLimit
      BY <2>3, <3>2, LimitTyped
    <3> QED BY <1>1, <2>1, <3>2, <3>3, PrivateStep, StillIsGentle
  <2> QED BY <1>4, <2>2, <2>3 DEF LoadToRaise
<1>5. CASE Raise(c)
  <2>1. /\ UNCHANGED <<inFlight, successes, minRTT, emaRTT, rttSamples, failures>>
        /\ op[c].pc = "raise"
    BY <1>5 DEF Raise, rttVars, At
  <2>2. CASE limit = op[c].cur /\ limit' = limit + 1 /\ Goto(c, "release")
    <3>1. Moves(c, "release")
      BY <1>1, <2>2, GotoMoves DEF Goto
    <3>2. limit < MaxLimit
      BY <2>1, <2>2 DEF IInv, WellLoaded
    <3>3. Inside(limit')
      BY <2>2, <3>2, LimitTyped, Int32Assumption DEF Inside, Int32s
    <3>4. GentleStep
      <4>1. \A x \in Nat \ {0} : Gentle(x, x + 1)
        BY DEF Gentle
      <4> QED BY <2>2, <4>1, LimitTyped, HeadroomFits DEF GentleStep
    <3> QED BY <1>1, <2>1, <3>1, <3>3, <3>4, StepOf
  <2>3. CASE Goto(c, "loadRaise") /\ limit' = limit
    <3>1. Moves(c, "loadRaise")
      BY <1>1, <2>3, GotoMoves DEF Goto
    <3> QED BY <1>1, <2>1, <2>3, <3>1, PrivateStep, StillIsGentle
  <2> QED BY <1>5, <2>2, <2>3 DEF Raise
<1> QED BY <1>2, <1>3, <1>4, <1>5 DEF AIMD

\* onFailure.
LEMMA OnFailureStep ==
  ASSUME IInv, NEW c \in Callers, OnFailure(c), cfg' = cfg
  PROVE  IInv' /\ GentleStep
<1> USE DEF Pcs, Outside
<1>1. /\ op \in [Callers -> Ops] /\ inFlight \in Nat /\ failures \in 0..MaxFailures
      /\ Inside(limit) /\ successes \in Int32s /\ minRTT \in Nat
      /\ emaRTT \in Int /\ rttSamples \in 0..cfg.MinSamples
  BY DEF IInv, Typed
<1>2. CASE FailRestart(c)
  <2>1. Moves(c, "loadHalve")
    BY <1>1, <1>2, GotoMoves DEF FailRestart, Goto
  <2>2. limit' = limit /\ successes' \in Int32s /\ op[c].pc = "fail"
        /\ UNCHANGED <<inFlight, minRTT, emaRTT, rttSamples, failures>>
    BY <1>1, <1>2, Int32Assumption DEF FailRestart, rttVars, At, Int32s
  <2> QED BY <1>1, <2>1, <2>2, StepOf, StillIsGentle
<1>3. CASE LoadToHalve(c)
  <2>1. /\ UNCHANGED <<limit, inFlight, successes, minRTT, emaRTT, rttSamples, failures>>
        /\ op[c].pc = "loadHalve"
    BY <1>3 DEF LoadToHalve, rttVars, At
  <2>2. CASE Goto(c, "release")
    <3>1. Moves(c, "release")
      BY <1>1, <2>2, GotoMoves DEF Goto
    <3> QED BY <1>1, <2>1, <3>1, PrivateStep, StillIsGentle
  <2>3. CASE Loaded(c, "halve", limit)
    <3>1. PICK x \in Int : x = limit
      BY LimitTyped
    <3>2. Moves(c, "halve")
      BY <1>1, <2>3, <3>1, LoadedMoves
    <3> QED BY <1>1, <2>1, <3>2, PrivateStep, StillIsGentle
  <2> QED BY <1>3, <2>2, <2>3 DEF LoadToHalve
<1>4. CASE Halve(c)
  <2>1. /\ UNCHANGED <<inFlight, successes, minRTT, emaRTT, rttSamples, failures>>
        /\ op[c].pc = "halve"
    BY <1>4 DEF Halve, rttVars, At
  <2>2. CASE limit' = Halved(limit) /\ Goto(c, "release")
    <3>1. Moves(c, "release")
      BY <1>1, <2>2, GotoMoves DEF Goto
    <3>2. Inside(limit') /\ GentleStep
      <4> DEFINE half == Quotient(limit, 2)
      <4>1. /\ half \in Int /\ (limit >= 0 => half = limit \div 2 /\ half <= limit)
            /\ -(MaxInt32 + 1) <= half /\ half <= MaxInt32
        BY LimitTyped, Int32Assumption DEF Quotient
      <4> HIDE DEF half
      <4>2. limit' = IF half >= MinLimit THEN half ELSE MinLimit
        BY <2>2, <4>1, LimitTyped, MaxOfTwo DEF Halved, half
      <4>3. Inside(limit')
        <5>1. limit' \in Int32s
          <6>1. MaxInt32 \in Int /\ MinLimit \in Int32s
            BY LimitTyped, LimitsTyped, Int32Assumption
          <6>2. half \in Int32s
            BY <4>1, <6>1 DEF Int32s
          <6> QED BY <4>2, <6>1, <6>2
        <5>2. Fits => limit' \in MinLimit..MaxLimit
          BY <4>1, <4>2, LimitTyped
        <5> QED BY <5>1, <5>2 DEF Inside
      <4>4. GentleStep
        BY <4>1, <4>2, LimitTyped, HeadroomFits DEF GentleStep, Gentle
      <4> QED BY <4>3, <4>4
    <3> QED BY <1>1, <2>1, <3>1, <3>2, StepOf
  <2>3. CASE Goto(c, "loadHalve") /\ limit' = limit
    <3>1. Moves(c, "loadHalve")
      BY <1>1, <2>3, GotoMoves DEF Goto
    <3> QED BY <1>1, <2>1, <2>3, <3>1, PrivateStep, StillIsGentle
  <2> QED BY <1>4, <2>2, <2>3 DEF Halve
<1> QED BY <1>2, <1>3, <1>4 DEF OnFailure

\* onSuccess of Vegas and Gradient2: the samples.
LEMMA SampleStep ==
  ASSUME IInv, NEW c \in Callers, cfg' = cfg,
         LoadMin(c) \/ StoreMin(c) \/ LoadEMA(c) \/ StoreEMA(c) \/ CountSample(c)
  PROVE  IInv' /\ limit' = limit
<1> USE DEF Pcs, Outside
<1>1. /\ op \in [Callers -> Ops] /\ inFlight \in Nat /\ failures \in 0..MaxFailures
      /\ Inside(limit) /\ successes \in Int32s /\ minRTT \in Nat
      /\ emaRTT \in Int /\ rttSamples \in 0..cfg.MinSamples /\ Sound(cfg)
  BY DEF IInv, Typed
<1>2. op[c].cur \in Int /\ op[c].rtt \in Nat
  BY <1>1 DEF Ops
<1>3. CASE LoadMin(c)
  <2>1. \E p \in {"loadEMA", "min"} : Moves(c, p)
    <3>1. CASE Goto(c, "loadEMA")
      BY <1>1, <3>1, GotoMoves DEF Goto
    <3>2. CASE Loaded(c, "min", minRTT)
      <4>1. PICK x \in Nat : x = minRTT
        BY <1>1
      <4> QED BY <1>1, <3>2, <4>1, LoadedMoves
    <3> QED BY <1>3, <3>1, <3>2 DEF LoadMin
  <2> QED BY <1>1, <1>3, <2>1, PrivateStep DEF LoadMin, rttVars, At
<1>4. CASE StoreMin(c)
  <2>1. \E p \in {"loadEMA", "loadMin"} : Moves(c, p)
    <3>1. CASE Goto(c, "loadEMA")
      BY <1>1, <3>1, GotoMoves DEF Goto
    <3>2. CASE Goto(c, "loadMin")
      BY <1>1, <3>2, GotoMoves DEF Goto
    <3> QED BY <1>4, <3>1, <3>2 DEF StoreMin
  <2>2. /\ minRTT' \in Nat /\ op[c].pc = "min"
        /\ UNCHANGED <<limit, inFlight, successes, emaRTT, rttSamples, failures>>
    BY <1>1, <1>2, <1>4 DEF StoreMin, At
  <2> QED BY <1>1, <2>1, <2>2, StepOf
<1>5. CASE LoadEMA(c)
  <2>1. PICK x \in Int : x = emaRTT
    BY <1>1
  <2>2. Moves(c, "ema")
    BY <1>1, <1>5, <2>1, LoadedMoves DEF LoadEMA
  <2> QED BY <1>1, <1>5, <2>2, PrivateStep DEF LoadEMA, rttVars, At
<1>6. CASE StoreEMA(c)
  <2>1. \E p \in {"sample", "loadEMA"} : Moves(c, p)
    <3>1. CASE Goto(c, "sample")
      BY <1>1, <3>1, GotoMoves DEF Goto
    <3>2. CASE Goto(c, "loadEMA")
      BY <1>1, <3>2, GotoMoves DEF Goto
    <3> QED BY <1>6, <3>1, <3>2 DEF StoreEMA
  <2>2. Smoothed(op[c].cur, op[c].rtt) \subseteq Int
    <3>1. PICK cur \in Int, rtt \in Nat : cur = op[c].cur /\ rtt = op[c].rtt
      BY <1>2
    <3> QED BY <1>1, <3>1, SmoothedTyped
  <2>3. /\ emaRTT' \in Int /\ op[c].pc = "ema"
        /\ UNCHANGED <<limit, inFlight, successes, minRTT, rttSamples, failures>>
    BY <1>1, <1>6, <2>2 DEF StoreEMA, At
  <2> QED BY <1>1, <2>1, <2>3, StepOf
<1>7. CASE CountSample(c)
  <2>1. \E p \in {"release", "readMin"} : Moves(c, p)
    <3>1. CASE op' = [op EXCEPT ![c].pc = "release"]
      BY <1>1, <3>1, GotoMoves
    <3>2. CASE op' = [op EXCEPT ![c].pc = "readMin", ![c].rtt = 0]
      <4>1. op[c] \in Ops
        BY <1>1
      <4> DEFINE r == [op[c] EXCEPT !.pc = "readMin", !.rtt = 0]
      <4>2. r \in Ops /\ r.pc = "readMin"
        BY <4>1 DEF Ops
      <4>3. op' = [op EXCEPT ![c] = r]
        BY <3>2
      <4> HIDE DEF r
      <4> QED BY <1>1, <4>2, <4>3, OpTyped DEF Moves
    <3> QED BY <1>7, <3>1, <3>2 DEF CountSample
  <2>2. /\ op[c].pc = "sample"
        /\ UNCHANGED <<limit, inFlight, successes, minRTT, emaRTT, failures>>
    BY <1>7 DEF CountSample, At
  <2>3. rttSamples' \in 0..cfg.MinSamples
    BY <1>1, <1>7 DEF CountSample, Sound
  <2> QED BY <1>1, <2>1, <2>2, <2>3, StepOf
<1> QED BY <1>3, <1>4, <1>5, <1>6, <1>7

\* onSuccess of Vegas and Gradient2: the adjustment.
LEMMA AdjustmentStep ==
  ASSUME IInv, NEW c \in Callers, cfg' = cfg,
         ReadMin(c) \/ ReadEMA(c) \/ LoadLimit(c) \/ Adjust(c)
  PROVE  IInv' /\ GentleStep
<1> USE DEF Pcs, Outside
<1>1. /\ op \in [Callers -> Ops] /\ inFlight \in Nat /\ failures \in 0..MaxFailures
      /\ Inside(limit) /\ successes \in Int32s /\ minRTT \in Nat
      /\ emaRTT \in Int /\ rttSamples \in 0..cfg.MinSamples /\ Sound(cfg)
  BY DEF IInv, Typed
<1>2. op[c] \in Ops /\ op[c].min \in Nat /\ op[c].ema \in Int
  BY <1>1 DEF Ops
<1>3. CASE ReadMin(c)
  <2> DEFINE r == [op[c] EXCEPT !.pc = "readEMA", !.min = minRTT]
  <2>1. r \in Ops /\ r.pc = "readEMA"
    BY <1>1, <1>2 DEF Ops
  <2>2. op' = [op EXCEPT ![c] = r]
    BY <1>3 DEF ReadMin
  <2> HIDE DEF r
  <2>3. Moves(c, "readEMA")
    BY <1>1, <2>1, <2>2, OpTyped DEF Moves
  <2> QED BY <1>1, <1>3, <2>3, PrivateStep, StillIsGentle DEF ReadMin, rttVars, At
<1>4. CASE ReadEMA(c)
  <2> DEFINE p == IF op[c].min = 0 \/ emaRTT = 0 THEN "release" ELSE "loadLimit"
             r == [op[c] EXCEPT !.pc = p, !.ema = emaRTT]
  <2>1. p \in {"release", "loadLimit"} /\ (p = "loadLimit" => op[c].min # 0 /\ emaRTT # 0)
    OBVIOUS
  <2>2. op' = [op EXCEPT ![c] = r]
    BY <1>4 DEF ReadEMA
  <2> HIDE DEF p
  <2>3. r \in Ops /\ r.pc = p /\ r.min = op[c].min /\ r.ema = emaRTT
    BY <1>1, <1>2, <2>1 DEF Ops
  <2> HIDE DEF r
  <2>4. Moves(c, p) /\ op'[c].min = op[c].min /\ op'[c].ema = emaRTT
    BY <1>1, <2>2, <2>3, OpTyped DEF Moves
  <2>5. PICK q \in {"release", "loadLimit"} : q = p
    BY <2>1
  <2> QED BY <1>1, <1>4, <2>1, <2>4, <2>5, PrivateStep, StillIsGentle DEF ReadEMA, rttVars, At
<1>5. CASE LoadLimit(c)
  <2>1. PICK x \in Int : x = limit
    BY LimitTyped
  <2>2. Moves(c, "adjust") /\ op'[c].min = op[c].min /\ op'[c].ema = op[c].ema
    BY <1>1, <1>5, <2>1, LoadedMoves DEF LoadLimit
  <2>3. op[c].min # 0 /\ op[c].ema # 0
    BY <1>5 DEF LoadLimit, At, IInv, WellLoaded
  <2> QED BY <1>1, <1>5, <2>2, <2>3, PrivateStep, StillIsGentle DEF LoadLimit, rttVars, At
<1>6. CASE Adjust(c)
  <2>1. Moves(c, "release")
    BY <1>1, <1>6, GotoMoves DEF Adjust, Goto
  <2>2. /\ op[c].pc = "adjust" /\ op[c].min # 0 /\ op[c].ema # 0
        /\ UNCHANGED <<inFlight, successes, minRTT, emaRTT, rttSamples, failures>>
    BY <1>6 DEF Adjust, At, rttVars, IInv, WellLoaded
  <2>3. CASE limit = op[c].cur /\ limit' \in Targets(c)
    <3>1. PICK min \in Nat \ {0}, ema \in Int \ {0} : min = op[c].min /\ ema = op[c].ema
      BY <1>2, <2>2
    <3>2. \/ limit' = VegasTarget(limit, min, ema)
          \/ limit' \in Gradient2Targets(limit, min, ema)
      BY <2>3, <3>1 DEF Targets
    <3>3. CASE limit' = VegasTarget(limit, min, ema)
      <4>1. Inside(limit') /\ GentleStep
        BY <1>1, <3>3, VegasIsGentle, HeadroomFits DEF GentleStep
      <4> QED BY <1>1, <2>1, <2>2, <4>1, StepOf
    <3>4. CASE limit' \in Gradient2Targets(limit, min, ema)
      <4>1. Inside(limit') /\ GentleStep
        BY <1>1, <3>4, Gradient2IsGentle DEF GentleStep
      <4> QED BY <1>1, <2>1, <2>2, <4>1, StepOf
    <3> QED BY <3>2, <3>3, <3>4
  <2>4. CASE limit' = limit
    BY <1>1, <2>1, <2>2, <2>4, PrivateStep, StillIsGentle
  <2> QED BY <1>6, <2>3, <2>4 DEF Adjust
<1> QED BY <1>3, <1>4, <1>5, <1>6

-----------------------------------------------------------------------------
(* The theorems.                                                            *)

\* Every step keeps the invariant and is gentle.
LEMMA NextStep ==
  ASSUME IInv, Next
  PROVE  IInv' /\ GentleStep
<1>1. PICK c \in Callers :
        Arriving(c) \/ Succeeding(c) \/ FnFails(c) \/ FnPanics(c) \/ Settling(c)
  BY DEF Next
<1>2. cfg' = cfg
  BY DEF Next
<1>3. CASE Arriving(c)
  <2>1. limit' = limit
    BY <1>3 DEF Arriving, LoadInFlight, CompareWithLimit, Acquire
  <2> QED BY <1>2, <1>3, <2>1, ArrivingStep, StillIsGentle
<1>4. CASE Succeeding(c) \/ FnFails(c) \/ FnPanics(c) \/ Release(c)
  <2>1. limit' = limit
    BY <1>4 DEF Succeeding, FnSucceeds, FnFails, FnPanics, Release
  <2> QED BY <1>2, <1>4, <2>1, RunStep, StillIsGentle
<1>5. CASE AIMD(c)
  BY <1>2, <1>5, AIMDStep
<1>6. CASE OnFailure(c)
  BY <1>2, <1>6, OnFailureStep
<1>7. CASE OnSample(c)
  BY <1>2, <1>7, SampleStep, AdjustmentStep, StillIsGentle DEF OnSample
<1> QED BY <1>1, <1>3, <1>4, <1>5, <1>6, <1>7 DEF Settling

\* Every reachable state satisfies the inductive invariant.
THEOREM Invariance == Spec => []IInv
<1>1. Init => IInv
  <2> SUFFICES ASSUME Init PROVE IInv
    OBVIOUS
  <2>1. Sound(cfg)
    BY DefaultedSound DEF Init
  <2>2. Typed
    BY <2>1, ConfigAssumption, Int32Assumption DEF Init, Typed, Idle, Ops, Pcs, Sound, Int32s
  <2>3. Inside(limit)
    <3>1. cfg.InitialLimit \in Nat /\ (Fits => cfg.InitialLimit \in Int32s)
      BY <2>1, Int32Assumption DEF Sound, Fits, Int32s
    <3>2. limit \in Int32s /\ (Fits => limit = cfg.InitialLimit)
      BY <3>1, Int32Conversion DEF Init
    <3>3. Fits => cfg.InitialLimit \in MinLimit..MaxLimit
      BY <2>1, LimitsTyped DEF Sound
    <3> QED BY <3>2, <3>3 DEF Inside
  <2>4. WellLoaded
    BY DEF Init, WellLoaded, Idle
  <2>5. InFlightExact
    <3>1. Holders = {}
      BY DEF Init, Holders, Idle
    <3> QED BY <3>1, FS_EmptySet DEF Init, InFlightExact
  <2> QED BY <2>2, <2>3, <2>4, <2>5 DEF IInv
<1>2. IInv /\ [Next]_vars => IInv'
  <2>1. IInv /\ Next => IInv'
    BY NextStep
  <2>2. IInv /\ UNCHANGED vars => IInv'
    BY DEF vars, IInv, Typed, Inside, Fits, WellLoaded, InFlightExact, Holders, MinLimit, MaxLimit
  <2> QED BY <2>1, <2>2
<1> QED BY <1>1, <1>2, PTL DEF Spec

\* No counter leaves its type, and every value loaded is one a counter had.
THEOREM TypeCorrect == Spec => []TypeOK
<1>1. IInv => TypeOK
  BY DEF IInv, Inside, Typed, TypeOK, Ops
<1> QED BY <1>1, Invariance, PTL

\* For every configuration whose ceiling is an int32, and every race of increases and
\* decreases, the limit stays between the floor and the ceiling (adaptive.go's
\* compare-and-swaps, config.go's setDefaults).
THEOREM LimitStaysInRange == Spec => []LimitInRange
<1>1. IInv => LimitInRange
  <2> SUFFICES ASSUME IInv PROVE LimitInRange
    OBVIOUS
  <2>1. Sound(cfg) /\ Inside(limit)
    BY DEF IInv, Typed
  <2>2. cfg.MinLimit >= 1
    BY <2>1 DEF Sound
  <2>3. Fits => limit \in cfg.MinLimit..cfg.MaxLimit
    BY <2>1, LimitsTyped DEF Inside
  <2> QED BY <2>2, <2>3 DEF LimitInRange, Fits
<1> QED BY <1>1, Invariance, PTL

\* However many callers race, each call in flight is counted once and given back on
\* every way out (adaptive.go's tryAcquire and the deferred inFlight.Add(-1)).
THEOREM InFlightIsExact == Spec => []InFlightExact
BY Invariance, PTL DEF IInv

\* No step of any algorithm more than halves the limit or adds more than its square
\* root, for any limit that leaves room for it and any round trip times, however stale.
THEOREM LimitMovesGently == Spec => StepsAreGentle
<1>1. IInv /\ [Next]_vars =>
        [Headroom => /\ limit' >= limit \div 2
                     /\ limit' > limit => (limit' - limit) * (limit' - limit) <= limit]_vars
  BY NextStep DEF GentleStep, Gentle
<1> QED BY <1>1, Invariance, PTL DEF Spec, StepsAreGentle
=============================================================================
