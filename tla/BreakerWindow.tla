---------------------------- MODULE BreakerWindow ----------------------------
(***************************************************************************)
(* A Config on its way through circuitbreaker.New, and the sliding window  *)
(* New builds from it, beside the full history of what was recorded since  *)
(* the last reset.  The history is the reference: what the window reports  *)
(* is compared with a count over it.  The wall clock the time window reads *)
(* (now.Unix()) may step back.                                             *)
(***************************************************************************)
EXTENDS SlidingWindow, BreakerConfig, Sequences, FiniteSets

CONSTANTS
  RawConfigs,        \* the configurations callers pass to New
  Exercised,         \* those of them whose breaker is then used; all have a window (bound)
  FirstSec, LastSec, \* the seconds the wall clock may show (bound)
  MaxHist            \* outcomes recorded between two resets (bound)

VARIABLES
  raw,     \* the Config passed to New
  cfg,     \* the Config as New leaves it
  built,   \* New has returned
  window,  \* cb.window: a countWindow, a timeWindow or nil (<<>>)
  hist,    \* every outcome since the last reset: [failed, sec], oldest first
  sec,     \* now.Unix()
  stepped  \* the wall clock has been set back since the last reset

vars == <<raw, cfg, built, window, hist, sec, stepped>>

Size == cfg.SlidingWindowSize
Counting == cfg.SlidingWindowType = "count"

\* newSlidingWindow of a normalized configuration.  A window that is not
\* exercised is not built here: its size may be a million.
NewWindow(c) ==
  IF c.SlidingWindowType = "count" THEN NewCountWindow(c.SlidingWindowSize)
                                   ELSE NewTimeWindow(c.SlidingWindowSize)

Init == /\ raw \in RawConfigs \union Exercised
        /\ cfg = raw
        /\ built = FALSE
        /\ window = <<>>
        /\ hist = <<>>
        /\ sec = FirstSec
        /\ stepped = FALSE

New == /\ ~built
       /\ cfg' = SetDefaults(raw)
       /\ built' = TRUE
       /\ window' = IF raw \in Exercised THEN NewWindow(cfg') ELSE <<>>
       /\ UNCHANGED <<raw, hist, sec, stepped>>

InUse == built /\ raw \in Exercised

\* window.record(success, now).
Record(success) ==
  /\ InUse
  /\ Len(hist) < MaxHist
  /\ window' = IF Counting THEN CountRecord(window, Size, success)
                           ELSE TimeRecord(window, Size, success, sec)
  /\ hist' = Append(hist, [failed |-> ~success, sec |-> sec])
  /\ UNCHANGED <<raw, cfg, built, sec, stepped>>

\* window.reset(): clear(w.outcomes) and the counters, or clear(w.buckets).
Reset == /\ InUse
         /\ window' = NewWindow(cfg)
         /\ hist' = <<>>
         /\ stepped' = FALSE
         /\ UNCHANGED <<raw, cfg, built, sec>>

ClockAdvances == /\ InUse /\ sec < LastSec
                 /\ sec' = sec + 1
                 /\ UNCHANGED <<raw, cfg, built, window, hist, stepped>>

\* The system clock is corrected backwards by one second.
ClockStepsBack == /\ InUse /\ sec > FirstSec
                  /\ sec' = sec - 1
                  /\ stepped' = TRUE
                  /\ UNCHANGED <<raw, cfg, built, window, hist>>

Next == \/ New
        \/ \E success \in BOOLEAN : Record(success)
        \/ Reset
        \/ ClockAdvances
        \/ ClockStepsBack

Spec == Init /\ [][Next]_vars

-----------------------------------------------------------------------------
(* Reference definitions over the history.                                  *)

LastN == {i \in 1..Len(hist) : i > Len(hist) - Size}
InLastSeconds == {i \in 1..Len(hist) : hist[i].sec > sec - Size /\ hist[i].sec <= sec}
Failed(S) == {i \in S : hist[i].failed}

-----------------------------------------------------------------------------

\* The count window reports exactly the last Size outcomes since the reset.
CountWindowExact ==
  InUse /\ Counting =>
    CountStats(window) = [calls |-> Cardinality(LastN), failures |-> Cardinality(Failed(LastN))]

\* While the clock only moves forward the time window reports exactly the
\* outcomes of the last Size seconds.  When it has been set back outcomes may be
\* forgotten, but none is invented.
TimeWindowExact ==
  InUse /\ ~Counting =>
    LET s == TimeStats(window, Size, sec)
        calls == Cardinality(InLastSeconds)
        failures == Cardinality(Failed(InLastSeconds))
    IN  /\ s.calls <= calls /\ s.failures <= failures
        /\ ~stepped => s.calls = calls /\ s.failures = failures

\* The window reports what happened: the last Size outcomes however often its ring
\* has wrapped, or the last Size seconds with no lap of the ring counted twice or
\* lost at a bucket boundary; and a clock correction opens no circuit on phantom
\* failures (window.go:94-96: "keeps the last size outcomes ... no boundary to
\* straddle", 139-151).
WindowExact == CountWindowExact /\ TimeWindowExact

\* What the state machine relies on: a positive number of trials and a positive
\* timeout, and a window with at least one slot, one required call and, unless it
\* is NaN, a rate in (0, 100].
FieldsUsable ==
    /\ cfg.MaxRequests \in 1..MaxUint32
    /\ cfg.Timeout > 0 /\ cfg.Interval >= 0
    /\ cfg.ReadyToTrip # "nil"
    /\ cfg.SlidingWindowType # "disabled" =>
         /\ cfg.SlidingWindowSize \in 1..MaxSlidingWindowSize
         /\ cfg.MinimumCalls > 0
         /\ cfg.FailureRateThreshold.nan \/ cfg.FailureRateThreshold.pct \in 1..100

\* A window holds as many calls as the rate is evaluated for, reaches the threshold
\* when all of them fail, exactly if the caller's threshold is a number, and does
\* not reach it when none does.
WindowCanTrip ==
  UsesWindow(raw) =>
    LET min == cfg.MinimumCalls
    IN  /\ Counting => Size >= min
        /\ Reaches(min, min, cfg.FailureRateThreshold) <=> ~raw.FailureRateThreshold.nan
        /\ ~Reaches(0, min, cfg.FailureRateThreshold)

\* Under the default policy, or a shipped predicate built from any int and any
\* ratio, NaN included, no breaker opens before a failure was counted and none
\* asks for more failures than a Counts field can hold.
PredicatesReachable ==
  cfg.ReadyToTrip = "shipped" =>
    LET n == cfg.FailuresToTrip
        counts(k) == [Requests |-> k, TotalFailures |-> k, ConsecutiveFailures |-> k]
    IN  /\ ~TripOnConsecutiveFailures(n, MaxUint32, counts(0))
        /\ ~TripOnFailureRatio(cfg.FailureRateThreshold, n, MaxUint32, counts(0))
        /\ TripOnConsecutiveFailures(n, MaxUint32, counts(MaxUint32))
        /\ TripOnFailureRatio(cfg.FailureRateThreshold, n, MaxUint32, counts(MaxUint32))

\* Whatever a caller writes into a Config, New makes a breaker that can be used and
\* can trip, and that does not trip without a failure (window.go:228-230: otherwise
\* it "would silently never trip"; predicates.go:32-34, 60-63).  With one exception:
\* a window with a NaN FailureRateThreshold passes window.go:235 as it is and never
\* trips (window.go:247), although config.go:101-102 says that values outside (0, 1]
\* fall back to the default; the shipped predicates turn a NaN into 0.
EveryConfigCanTrip == built => FieldsUsable /\ WindowCanTrip /\ PredicatesReachable
=============================================================================
