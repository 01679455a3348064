---------------------------- MODULE TripPredicates ----------------------------
(* circuitbreaker/predicates.go: the shipped ReadyToTrip predicates.  A ratio, *)
(* a float64, is a whole percentage or NaN; max is the largest value of a      *)
(* Counts field.                                                               *)
EXTENDS Integers

Percent(p) == [nan |-> FALSE, pct |-> p]
NaN == [nan |-> TRUE, pct |-> 0]

\* failures / calls >= ratio; every comparison with NaN is false.
Reaches(failures, calls, ratio) == ~ratio.nan /\ failures * 100 >= ratio.pct * calls

ClampToUint32(n, max) == IF n < 1 THEN 1 ELSE IF n > max THEN max ELSE n

TripOnConsecutiveFailures(n, max, counts) ==
  counts.ConsecutiveFailures >= ClampToUint32(n, max)

ClampRatio(r) == IF r.nan \/ r.pct < 0 THEN Percent(0)
                 ELSE IF r.pct > 100 THEN Percent(100) ELSE r

TripOnFailureRatio(r, minRequests, max, counts) ==
  /\ counts.Requests >= ClampToUint32(minRequests, max)
  /\ counts.Requests # 0
  /\ Reaches(counts.TotalFailures, counts.Requests, ClampRatio(r))
=============================================================================
