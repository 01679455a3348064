--------------------------- MODULE BreakerEvidence ---------------------------
(* The evidence that breakers judge by, side by side: shared by several         *)
(* instances in a Redis hash, and kept in one process's sliding window.         *)
EXTENDS RedisBreaker, Sequences

CONSTANTS MaxUint32, RawConfigs, Exercised, FirstSec, LastSec, MaxHist

VARIABLES raw, local, built, window, hist, sec, stepped

windowVars == <<raw, local, built, window, hist, sec, stepped>>

W == INSTANCE BreakerWindow WITH cfg <- local

\* The window reports what happened: the last Size outcomes or the last Size seconds,
\* and none that never happened when the clock is set back (window.go:94-96, 139-151).
WindowExact == W!WindowExact

\* Whatever a caller writes into a Config, New makes a breaker that can trip, and that
\* does not trip without a failure (window.go:228-230, predicates.go:32-34, 60-63); but
\* for a window with a NaN FailureRateThreshold, which never trips (window.go:235, 247).
EveryConfigCanTrip == W!EveryConfigCanTrip
=============================================================================
