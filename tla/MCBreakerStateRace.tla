-------------------------- MODULE MCBreakerStateRace --------------------------
(* TLC instance of BreakerStateRace.                                          *)
EXTENDS BreakerStateRace, TripPredicates, TLC

OneFailure(counts) == TripOnConsecutiveFailures(0, CountModulus - 1, counts)
ReaderSymmetry == Permutations(Readers)
=============================================================================
