------------------------------- MODULE Adaptive -------------------------------
(***************************************************************************)
(* adaptive/adaptive.go: a concurrency limit that its own callers move.     *)
(* Everything is an atomic word and there is no lock, so one step is one    *)
(* load, store, add or compare-and-swap.  notify only logs and calls        *)
(* OnLimitChange.  Round trip times are small whole numbers, a smoothing    *)
(* factor is a fraction, divisions cut like the code's, and the fields of   *)
(* Config, which are Go ints, are wrapped where the code writes int32(...). *)
(***************************************************************************)
EXTENDS Integers, FiniteSets, FiniteSetsExt

CONSTANTS
  Callers,      \* goroutines calling Execute
  Configs,      \* Config values as the user writes them; GradientSmoothing as a fraction
                \* <<num, den>>, NaN if den = 0; VegasMinSamples and GradientMinSamples are
                \* one MinSamples
  MaxInt32,     \* the largest int32, 2^31 - 1 in Go
  RTTs,         \* the latencies of a call, 0 = below the clock's resolution
  MaxFailures   \* bound: calls that fail or panic

ASSUME Int32Assumption == MaxInt32 \in Nat /\ MaxInt32 >= 200   \* the default limits fit
ASSUME ConfigAssumption ==
  /\ Configs \subseteq
       [Algorithm : {"aimd", "vegas", "gradient2"}, InitialLimit : Int, MinLimit : Int,
        MaxLimit : Int, SuccessThreshold : Int, VegasAlpha : Int, VegasBeta : Int,
        MinSamples : Int, GradientSmoothing : Int \X Nat]
  /\ RTTs \subseteq Nat /\ MaxFailures \in Nat
ASSUME CallersAssumption == IsFiniteSet(Callers)

VARIABLES
  cfg,                          \* the Config after setDefaults, which never changes
  limit, inFlight, successes,   \* the atomics
  minRTT, emaRTT, rttSamples,   \* the atomics of the RTT-aware algorithms, 0 = none yet
  op,                           \* per caller: where its Execute is and what it has loaded
  failures                      \* history: calls that failed or panicked

vars == <<cfg, limit, inFlight, successes, minRTT, emaRTT, rttSamples, op, failures>>
rttVars == <<minRTT, emaRTT, rttSamples>>

-----------------------------------------------------------------------------
(* setDefaults                                                              *)

OrDefault(value, default) == IF value <= 0 THEN default ELSE value

\* A MaxLimit below MinLimit is raised to it; InitialLimit is brought between them.
Defaulted(c) ==
  LET min == OrDefault(c.MinLimit, 1)
      max == Max({OrDefault(c.MaxLimit, 200), min})
      alpha == OrDefault(c.VegasAlpha, 3)
      smoothing == c.GradientSmoothing
  IN  [c EXCEPT !.MinLimit = min, !.MaxLimit = max,
                !.InitialLimit = Min({Max({OrDefault(@, 10), min}), max}),
                !.SuccessThreshold = OrDefault(@, 10),
                !.VegasAlpha = alpha, !.VegasBeta = IF @ <= alpha THEN alpha * 2 ELSE @,
                !.MinSamples = OrDefault(@, 10),
                !.GradientSmoothing =
                   IF smoothing[2] # 0 /\ (smoothing[1] <= 0 \/ smoothing[1] > smoothing[2])
                   THEN <<1, 5>> ELSE @]

-----------------------------------------------------------------------------
(* Go's integers                                                            *)

Int32s == -(MaxInt32 + 1)..MaxInt32

\* The conversion of an int, and what an addition leaves of its result.
Int32(x) == ((x + MaxInt32 + 1) % (2 * (MaxInt32 + 1))) - (MaxInt32 + 1)

\* a / b, for b > 0: cuts towards 0.
Quotient(a, b) == IF a >= 0 THEN a \div b ELSE -((-a) \div b)

\* int64(NaN) is whatever the implementation makes of it: one value for the negative
\* ones, 0, and one for the positive ones.
NaNAsInt64 == -1..1

algorithm == cfg.Algorithm
MinLimit == Int32(cfg.MinLimit)
MaxLimit == Int32(cfg.MaxLimit)
SmoothingNum == cfg.GradientSmoothing[1]
SmoothingDen == cfg.GradientSmoothing[2]

-----------------------------------------------------------------------------

Idle == [pc |-> "idle", cur |-> 0, rtt |-> 0, min |-> 0, ema |-> 0]

Init ==
  /\ cfg \in {Defaulted(c) : c \in Configs}
  /\ limit = Int32(cfg.InitialLimit) /\ inFlight = 0 /\ successes = 0
  /\ minRTT = 0 /\ emaRTT = 0 /\ rttSamples = 0
  /\ op = [c \in Callers |-> Idle]
  /\ failures = 0

At(c, pc) == op[c].pc = pc
Goto(c, pc) == op' = [op EXCEPT ![c].pc = pc]
Loaded(c, pc, x) == op' = [op EXCEPT ![c].pc = pc, ![c].cur = x]

-----------------------------------------------------------------------------
(* tryAcquire and the end of Execute                                        *)

LoadInFlight(c) ==
  /\ At(c, "idle") /\ Loaded(c, "compare", inFlight)
  /\ UNCHANGED <<limit, inFlight, successes, rttVars, failures>>

\* limit.Load() and the comparison; at capacity Execute returns ErrLimitExceeded.
CompareWithLimit(c) ==
  /\ At(c, "compare")
  /\ op' = IF op[c].cur >= limit THEN [op EXCEPT ![c] = Idle] ELSE [op EXCEPT ![c].pc = "acquire"]
  /\ UNCHANGED <<limit, inFlight, successes, rttVars, failures>>

\* inFlight.CompareAndSwap(cur, cur+1); when it is lost, start over.
Acquire(c) ==
  /\ At(c, "acquire")
  /\ \/ inFlight = op[c].cur /\ inFlight' = inFlight + 1 /\ Loaded(c, "run", 0)
     \/ inFlight # op[c].cur /\ UNCHANGED inFlight /\ op' = [op EXCEPT ![c] = Idle]
  /\ UNCHANGED <<limit, successes, rttVars, failures>>

\* The deferred inFlight.Add(-1).
Release(c) ==
  /\ At(c, "release")
  /\ inFlight' = inFlight - 1
  /\ op' = [op EXCEPT ![c] = Idle]
  /\ UNCHANGED <<limit, successes, rttVars, failures>>

\* fn succeeds; a latency of 0 is not a sample.
FnSucceeds(c, rtt) ==
  /\ At(c, "run")
  /\ op' = IF algorithm = "aimd" THEN [op EXCEPT ![c].pc = "succeed"]
           ELSE IF rtt = 0 THEN [op EXCEPT ![c].pc = "release"]
           ELSE [op EXCEPT ![c].pc = "loadMin", ![c].rtt = rtt]
  /\ UNCHANGED <<limit, inFlight, successes, rttVars, failures>>

FnFails(c) ==
  /\ At(c, "run") /\ failures < MaxFailures
  /\ failures' = failures + 1
  /\ Goto(c, "fail")
  /\ UNCHANGED <<limit, inFlight, successes, rttVars>>

\* Slip: a panic skips the release.
FnPanicsLeaking(c) ==
  /\ At(c, "run") /\ failures < MaxFailures
  /\ failures' = failures + 1
  /\ op' = [op EXCEPT ![c] = Idle]
  /\ UNCHANGED <<limit, inFlight, successes, rttVars>>

\* A panic runs the deferred release and no adjustment.
FnPanics(c) ==
  /\ At(c, "run") /\ failures < MaxFailures
  /\ failures' = failures + 1
  /\ Goto(c, "release")
  /\ UNCHANGED <<limit, inFlight, successes, rttVars>>

-----------------------------------------------------------------------------
(* AIMD                                                                     *)

\* successes.Add(1) and the comparison with the threshold.
CountSuccess(c) ==
  /\ At(c, "succeed")
  /\ successes' = Int32(successes + 1)
  /\ Goto(c, IF successes' < Int32(cfg.SuccessThreshold) THEN "release" ELSE "restart")
  /\ UNCHANGED <<limit, inFlight, rttVars, failures>>

RestartSuccesses(c) ==
  /\ At(c, "restart")
  /\ successes' = 0
  /\ Goto(c, "loadRaise")
  /\ UNCHANGED <<limit, inFlight, rttVars, failures>>

LoadToRaise(c) ==
  /\ At(c, "loadRaise")
  /\ IF limit >= MaxLimit THEN Goto(c, "release") ELSE Loaded(c, "raise", limit)
  /\ UNCHANGED <<limit, inFlight, successes, rttVars, failures>>

\* Slip: limit.Add(1) in place of the compare-and-swap.
RaiseBlindly(c) ==
  /\ At(c, "raise")
  /\ limit' = limit + 1
  /\ Goto(c, "release")
  /\ UNCHANGED <<inFlight, successes, rttVars, failures>>

Raise(c) ==
  /\ At(c, "raise")
  /\ \/ limit = op[c].cur /\ limit' = limit + 1 /\ Goto(c, "release")
     \/ limit # op[c].cur /\ Goto(c, "loadRaise") /\ UNCHANGED limit
  /\ UNCHANGED <<inFlight, successes, rttVars, failures>>

-----------------------------------------------------------------------------
(* onFailure, of every algorithm                                            *)

FailRestart(c) ==
  /\ At(c, "fail")
  /\ successes' = 0
  /\ Goto(c, "loadHalve")
  /\ UNCHANGED <<limit, inFlight, rttVars, failures>>

Halved(x) == Max({Quotient(x, 2), MinLimit})

LoadToHalve(c) ==
  /\ At(c, "loadHalve")
  /\ IF Halved(limit) = limit THEN Goto(c, "release") ELSE Loaded(c, "halve", limit)
  /\ UNCHANGED <<limit, inFlight, successes, rttVars, failures>>

Halve(c) ==
  /\ At(c, "halve")
  /\ \/ limit = op[c].cur /\ limit' = Halved(limit) /\ Goto(c, "release")
     \/ limit # op[c].cur /\ Goto(c, "loadHalve") /\ UNCHANGED limit
  /\ UNCHANGED <<inFlight, successes, rttVars, failures>>

-----------------------------------------------------------------------------
(* Vegas and Gradient2: the samples                                         *)

LoadMin(c) ==
  /\ At(c, "loadMin")
  /\ IF minRTT # 0 /\ op[c].rtt >= minRTT THEN Goto(c, "loadEMA") ELSE Loaded(c, "min", minRTT)
  /\ UNCHANGED <<limit, inFlight, successes, rttVars, failures>>

StoreMin(c) ==
  /\ At(c, "min")
  /\ \/ minRTT = op[c].cur /\ minRTT' = op[c].rtt /\ Goto(c, "loadEMA")
     \/ minRTT # op[c].cur /\ Goto(c, "loadMin") /\ UNCHANGED minRTT
  /\ UNCHANGED <<limit, inFlight, successes, emaRTT, rttSamples, failures>>

LoadEMA(c) ==
  /\ At(c, "loadEMA") /\ Loaded(c, "ema", emaRTT)
  /\ UNCHANGED <<limit, inFlight, successes, rttVars, failures>>

\* What the next average may be.
Smoothed(cur, rtt) ==
  CASE cur = 0 -> {rtt}
    [] cur # 0 /\ algorithm = "vegas" -> {(cur * 7 + rtt) \div 8}
    [] cur # 0 /\ algorithm # "vegas" /\ SmoothingDen # 0 ->
         {(cur * (SmoothingDen - SmoothingNum) + rtt * SmoothingNum) \div SmoothingDen}
    [] OTHER -> NaNAsInt64

StoreEMA(c) ==
  /\ At(c, "ema")
  /\ \/ emaRTT = op[c].cur /\ emaRTT' \in Smoothed(op[c].cur, op[c].rtt) /\ Goto(c, "sample")
     \/ emaRTT # op[c].cur /\ Goto(c, "loadEMA") /\ UNCHANGED emaRTT
  /\ UNCHANGED <<limit, inFlight, successes, minRTT, rttSamples, failures>>

\* rttSamples.Add(1): beyond MinSamples the number makes no difference.
CountSample(c) ==
  /\ At(c, "sample")
  /\ rttSamples' = IF rttSamples < cfg.MinSamples THEN rttSamples + 1 ELSE rttSamples
  /\ op' = IF rttSamples + 1 < cfg.MinSamples THEN [op EXCEPT ![c].pc = "release"]
           ELSE [op EXCEPT ![c].pc = "readMin", ![c].rtt = 0]
  /\ UNCHANGED <<limit, inFlight, successes, minRTT, emaRTT, failures>>

ReadMin(c) ==
  /\ At(c, "readMin")
  /\ op' = [op EXCEPT ![c].pc = "readEMA", ![c].min = minRTT]
  /\ UNCHANGED <<limit, inFlight, successes, rttVars, failures>>

ReadEMA(c) ==
  /\ At(c, "readEMA")
  /\ op' = [op EXCEPT ![c].pc = IF op[c].min = 0 \/ emaRTT = 0 THEN "release" ELSE "loadLimit",
                      ![c].ema = emaRTT]
  /\ UNCHANGED <<limit, inFlight, successes, rttVars, failures>>

LoadLimit(c) ==
  /\ At(c, "loadLimit") /\ Loaded(c, "adjust", limit)
  /\ UNCHANGED <<limit, inFlight, successes, rttVars, failures>>

-----------------------------------------------------------------------------
(* Vegas and Gradient2: the new limit, computed from what was loaded        *)

VegasTarget(cur, min, ema) ==
  LET queue == Int32(Quotient(cur * (ema - min), ema))
  IN  CASE queue < Int32(cfg.VegasAlpha) -> IF cur < MaxLimit THEN cur + 1 ELSE cur
        [] OTHER -> IF queue > Int32(cfg.VegasBeta) /\ cur > MinLimit THEN cur - 1 ELSE cur

\* floor(cur * num/den + sqrt(cur)), for a gradient of at most 1
GradientStep(cur, num, den) ==
  LET beyond(t) == t * den - cur * num
      floor(t) == beyond(t) <= 0 \/ beyond(t) * beyond(t) <= den * den * cur
  IN  Max({t \in 0..(2 * cur) : floor(t)})

Clamp(t) == Min({Max({t, MinLimit}), MaxLimit})

\* The new limits the implementation may come to: the root of a negative limit is NaN,
\* and int32 of NaN, or of a number it cannot hold, may be anything.
Converted(cur, num, den) ==
  IF cur >= 0 /\ GradientStep(cur, num, den) <= MaxInt32
  THEN {Clamp(GradientStep(cur, num, den))}
  ELSE {Clamp(t) : t \in Int32s}

\* The gradient min/ema is kept between 1/2 and 1.
Gradient2Targets(cur, min, ema) ==
  CASE ema < 0 \/ min * 2 < ema -> Converted(cur, 1, 2)
    [] ema > 0 /\ min > ema     -> Converted(cur, 1, 1)
    [] OTHER                    -> Converted(cur, min, ema)

Targets(c) == IF algorithm = "vegas" THEN {VegasTarget(op[c].cur, op[c].min, op[c].ema)}
              ELSE Gradient2Targets(op[c].cur, op[c].min, op[c].ema)

\* Slip: the new limit is stored without the compare-and-swap.
AdjustBlindly(c) ==
  /\ At(c, "adjust")
  /\ limit' \in Targets(c)
  /\ Goto(c, "release")
  /\ UNCHANGED <<inFlight, successes, rttVars, failures>>

\* One compare-and-swap; when it is lost the adjustment is dropped.
Adjust(c) ==
  /\ At(c, "adjust")
  /\ IF limit = op[c].cur THEN limit' \in Targets(c) ELSE UNCHANGED limit
  /\ Goto(c, "release")
  /\ UNCHANGED <<inFlight, successes, rttVars, failures>>

-----------------------------------------------------------------------------

Arriving(c) == LoadInFlight(c) \/ CompareWithLimit(c) \/ Acquire(c)
Succeeding(c) == \E rtt \in RTTs : FnSucceeds(c, rtt)
AIMD(c) == CountSuccess(c) \/ RestartSuccesses(c) \/ LoadToRaise(c) \/ Raise(c)
OnFailure(c) == FailRestart(c) \/ LoadToHalve(c) \/ Halve(c)
OnSample(c) == \/ LoadMin(c) \/ StoreMin(c) \/ LoadEMA(c) \/ StoreEMA(c) \/ CountSample(c)
               \/ ReadMin(c) \/ ReadEMA(c) \/ LoadLimit(c) \/ Adjust(c)
Settling(c) == AIMD(c) \/ OnFailure(c) \/ OnSample(c) \/ Release(c)

Next == /\ \E c \in Callers :
             Arriving(c) \/ Succeeding(c) \/ FnFails(c) \/ FnPanics(c) \/ Settling(c)
        /\ UNCHANGED cfg

Spec == Init /\ [][Next]_vars

-----------------------------------------------------------------------------
(* Properties                                                               *)

Holders == {c \in Callers : op[c].pc \notin {"idle", "compare", "acquire"}}

\* The atomics of the limiter keep their widths; inFlight and the best time never go
\* negative (adaptive.go:69-80).
TypeOK ==
  /\ cfg \in {Defaulted(c) : c \in Configs}
  /\ limit \in Int32s /\ inFlight \in Nat /\ successes \in Int32s
  /\ minRTT \in Nat /\ emaRTT \in Int /\ rttSamples \in 0..cfg.MinSamples
  /\ \A c \in Callers : /\ op[c].cur \in Int /\ op[c].rtt \in Nat
                        /\ op[c].min \in Nat /\ op[c].ema \in Int
  /\ failures \in 0..MaxFailures

\* The limit stays between a floor of at least 1 and the ceiling, whatever fields of
\* the configuration are missing or contradict each other and whatever increases and
\* decreases race (config.go:68-78), as long as the ceiling is an int32.  A larger
\* MaxLimit is accepted by setDefaults and wrapped where it is used (adaptive.go:88,
\* 162, 236, 322): the code promises no range then, and the limit may become negative,
\* which admits nobody.
LimitInRange ==
  /\ cfg.MinLimit >= 1
  /\ cfg.MaxLimit <= MaxInt32 => limit \in cfg.MinLimit..cfg.MaxLimit

\* Each call in flight is counted once and given back on every way out, panics
\* included; so a limiter without calls admits again (adaptive.go:103).
InFlightExact == inFlight = Cardinality(Holders)

\* Gradient2 can add a square root to any limit of the range and still have an int32.
Headroom == LET room == MaxInt32 - cfg.MaxLimit IN room >= 0 /\ room * room >= cfg.MaxLimit

\* No step of any algorithm more than halves the limit or adds more than its
\* square root, also when minRTT and emaRTT were loaded at different times
\* (adaptive.go:261-263), as long as the limit's sum with its root is an int32: above
\* that the conversion of adaptive.go:317 may return any number.
StepsAreGentle ==
  [][Headroom => /\ limit' >= limit \div 2
                 /\ limit' > limit => (limit' - limit) * (limit' - limit) <= limit]_vars
=============================================================================
