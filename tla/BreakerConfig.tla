---------------------------- MODULE BreakerConfig ----------------------------
(***************************************************************************)
(* What circuitbreaker.New makes of a Config: setDefaults and the clamping *)
(* of the sliding-window fields.  Rates are whole percentages or NaN.      *)
(***************************************************************************)
EXTENDS TripPredicates

CONSTANT MaxUint32     \* the largest value of a Counts field, positive

DefaultCountWindowSize      == 100
DefaultTimeWindowSeconds    == 60
DefaultMinimumCalls         == 10
DefaultFailureRateThreshold == Percent(50)
MaxSlidingWindowSize        == 1000000
DefaultTimeout              == 60
DefaultFailuresToTrip       == 5

-----------------------------------------------------------------------------
(* normalizeSlidingWindow and setDefaults                                   *)

NormalizedSize(c) ==
  LET size == IF c.SlidingWindowSize > 0 THEN c.SlidingWindowSize
              ELSE IF c.SlidingWindowType = "count" THEN DefaultCountWindowSize
              ELSE DefaultTimeWindowSeconds
  IN  IF size > MaxSlidingWindowSize THEN MaxSlidingWindowSize ELSE size

\* Slip: the minimum may exceed a count window's size.
NormalizedMinimumUncapped(c) == IF c.MinimumCalls <= 0 THEN DefaultMinimumCalls ELSE c.MinimumCalls

NormalizedMinimum(c) ==
  LET min == IF c.MinimumCalls <= 0 THEN DefaultMinimumCalls ELSE c.MinimumCalls
  IN  IF c.SlidingWindowType = "count" /\ min > NormalizedSize(c) THEN NormalizedSize(c) ELSE min

\* FailureRateThreshold <= 0 || FailureRateThreshold > 1, which no NaN satisfies.
OutsideRange(rate) == ~rate.nan /\ (rate.pct <= 0 \/ rate.pct > 100)

NormalizeSlidingWindow(c) ==
  CASE c.SlidingWindowType \in {"count", "time"} ->
         [c EXCEPT !.SlidingWindowSize = NormalizedSize(c),
                   !.MinimumCalls = NormalizedMinimum(c),
                   !.FailureRateThreshold =
                      IF OutsideRange(@) THEN DefaultFailureRateThreshold ELSE @]
    [] c.SlidingWindowType \notin {"count", "time"} ->
         [c EXCEPT !.SlidingWindowType = "disabled"]

\* ReadyToTrip is "nil", "shipped" (a predicate of predicates.go, built from
\* FailuresToTrip) or "custom"; nil becomes TripOnConsecutiveFailures(5).
SetDefaults(c) ==
  LET d == [c EXCEPT !.MaxRequests = IF @ = 0 THEN 1 ELSE @,
                     !.Timeout = IF @ <= 0 THEN DefaultTimeout ELSE @,
                     !.Interval = IF @ < 0 THEN 0 ELSE @]
      n == NormalizeSlidingWindow(d)
  IN  IF c.ReadyToTrip # "nil" THEN n
      ELSE [n EXCEPT !.ReadyToTrip = "shipped", !.FailuresToTrip = DefaultFailuresToTrip]

\* New consults the window only when the caller set no ReadyToTrip of its own.
UsesWindow(raw) == /\ raw.ReadyToTrip = "nil"
                   /\ SetDefaults(raw).SlidingWindowType # "disabled"
=============================================================================
