--------------------------- MODULE MCCircuitBreaker ---------------------------
(* TLC instances of CircuitBreaker: the shipped trip predicates with small     *)
(* thresholds, and the symmetry of the callers.                                *)
EXTENDS CircuitBreaker, TripPredicates, TLC

TwoConsecutive(counts) == TripOnConsecutiveFailures(2, CountModulus - 1, counts)
OneFailure(counts) == TripOnConsecutiveFailures(0, CountModulus - 1, counts)

CallerSymmetry == Permutations(Callers)
=============================================================================
