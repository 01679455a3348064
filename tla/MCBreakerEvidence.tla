-------------------------- MODULE MCBreakerEvidence --------------------------
(* TLC instance of the evidence that breakers judge by: kept in one process's  *)
(* sliding window, or shared by several instances in a Redis hash.  One of the *)
(* two is in use; the other takes no step.                                     *)
(*                                                                             *)
(* Windows: every field of a Config at and around its boundaries; small        *)
(* windows of both types are put to use.  The clock starts before second 0,    *)
(* where a cleared bucket's epoch field (0) could be mistaken for a real       *)
(* second.  Redis: two instances, one of them with two callers.                *)
EXTENDS BreakerEvidence, TLC

CONSTANTS i1, i2, c1, c2, c3

Rate == INSTANCE TripPredicates

MCFirstSec == -1

MCRawConfigs ==
  [MaxRequests : {0, 3}, Timeout : {-1, 0, 2}, Interval : {-1, 0, 2},
   ReadyToTrip : {"nil", "shipped", "custom"},
   FailuresToTrip : {-1, 0, 1, 16},
   SlidingWindowType : {"disabled", "count", "time", "unknown"},
   SlidingWindowSize : {-1, 0, 1, 5, 1000001},
   MinimumCalls : {-1, 0, 1, 6, 101},
   FailureRateThreshold : {Rate!NaN} \cup {Rate!Percent(p) : p \in {-1, 0, 1, 100, 101}}]

MCExercised ==
  [MaxRequests : {1}, Timeout : {2}, Interval : {2}, ReadyToTrip : {"nil"},
   FailuresToTrip : {1}, SlidingWindowType : {"count", "time"},
   SlidingWindowSize : {2, 3}, MinimumCalls : {1}, FailureRateThreshold : {Rate!Percent(50)}]

MCHome == c1 :> i1 @@ c2 :> i1 @@ c3 :> i2

MCConfigs ==
  { [threshold |-> 2, openTimeout |-> 1, maxRequests |-> 0, failOpen |-> TRUE],
    [threshold |-> 1, openTimeout |-> 1, maxRequests |-> 2, failOpen |-> FALSE],
    [threshold |-> 0, openTimeout |-> 0, maxRequests |-> 1, failOpen |-> TRUE] }

-----------------------------------------------------------------------------

\* A Redis breaker that nobody calls.
Unused == [threshold |-> 1, openTimeout |-> 1, maxRequests |-> 1, failOpen |-> FALSE]
RedisIdle ==
  /\ cfg = Unused /\ hash = NoHash /\ clock = 0
  /\ call = [c \in Callers |-> "idle"] /\ admitted = [c \in Callers |-> 0]
  /\ lastState = [i \in Instances |-> "closed"] /\ current = {}
  /\ seen = [streak |-> 0, trials |-> 0, leaked |-> 0, resets |-> 0, straddled |-> FALSE]

\* A Config that is never passed to New.
WindowIdle ==
  /\ raw = <<>> /\ local = raw /\ built = FALSE /\ window = <<>> /\ hist = <<>>
  /\ sec = FirstSec /\ stepped = FALSE

EvidenceInit == (Init /\ WindowIdle) \/ (W!Init /\ RedisIdle)
EvidenceNext == \/ raw = <<>> /\ Next /\ UNCHANGED windowVars
                \/ raw # <<>> /\ W!Next /\ UNCHANGED vars
EvidenceSpec == EvidenceInit /\ [][EvidenceNext]_<<vars, windowVars>> /\ Fairness
=============================================================================
