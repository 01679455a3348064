---------------------------- MODULE SlidingWindow ----------------------------
(***************************************************************************)
(* The two outcome windows of circuitbreaker/window.go as pure operators.  *)
(* A window is a record; record, stats and reset map windows to windows or *)
(* to numbers.  n is the window's size: a number of calls for the count    *)
(* window, a number of seconds for the time window.  Failures are TRUE, as *)
(* in the source.                                                          *)
(***************************************************************************)
EXTENDS Integers, FiniteSetsExt

Slots(n) == 0..(n - 1)

-----------------------------------------------------------------------------
(* countWindow: the last n outcomes in a ring, failures kept incrementally. *)

NewCountWindow(n) ==
  [outcomes |-> [i \in Slots(n) |-> FALSE], next |-> 0, filled |-> 0, failures |-> 0]

\* Slip: a failure that leaves the ring stays counted.
CountRecordKeepingEvicted(w, n, success) ==
  [outcomes |-> [w.outcomes EXCEPT ![w.next] = ~success],
   next     |-> (w.next + 1) % n,
   filled   |-> IF w.filled < n THEN w.filled + 1 ELSE w.filled,
   failures |-> w.failures + (IF success THEN 0 ELSE 1)]

CountRecord(w, n, success) ==
  LET evicted == IF w.filled = n /\ w.outcomes[w.next] THEN 1 ELSE 0
      added   == IF success THEN 0 ELSE 1
  IN  [outcomes |-> [w.outcomes EXCEPT ![w.next] = ~success],
       next     |-> (w.next + 1) % n,
       filled   |-> IF w.filled < n THEN w.filled + 1 ELSE w.filled,
       failures |-> w.failures - evicted + added]

CountStats(w) == [calls |-> w.filled, failures |-> w.failures]

-----------------------------------------------------------------------------
(* timeWindow: n one-second buckets, each tagged with the second it holds.  *)

EmptyBucket == [epoch |-> 0, calls |-> 0, failures |-> 0]

NewTimeWindow(n) == [i \in Slots(n) |-> EmptyBucket]

\* Slip: a bucket of an earlier lap is relabelled without being emptied.
BucketForKeepingLap(w, n, epoch) == [w[epoch % n] EXCEPT !.epoch = epoch]

\* bucketFor: the bucket that owns this second, emptied if it holds another lap.
BucketFor(w, n, epoch) ==
  IF w[epoch % n].epoch = epoch THEN w[epoch % n] ELSE [EmptyBucket EXCEPT !.epoch = epoch]

TimeRecord(w, n, success, epoch) ==
  LET b == BucketFor(w, n, epoch)
  IN  [w EXCEPT ![epoch % n] =
         [b EXCEPT !.calls    = @ + 1,
                   !.failures = @ + (IF success THEN 0 ELSE 1)]]

\* stats skips the buckets that are empty, older than the window or ahead of now.
TimeStats(w, n, epoch) ==
  LET live == {i \in Slots(n) : /\ w[i].calls # 0
                                /\ w[i].epoch >= epoch - n + 1
                                /\ w[i].epoch <= epoch}
  IN  [calls    |-> MapThenSumSet(LAMBDA i : w[i].calls, live),
       failures |-> MapThenSumSet(LAMBDA i : w[i].failures, live)]
=============================================================================
