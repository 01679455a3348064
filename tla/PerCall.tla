------------------------------- MODULE PerCall -------------------------------
(* The patterns that keep no state between calls, side by side: one call of     *)
(* StreamTimeout and one hedged call, with what each promises.                  *)
EXTENDS Integers, Sequences

CONSTANTS StreamConfigs, LastMark, MaxClock, Kinds, RawAttempts, MaxOverall

VARIABLES cfg, clock, dog, deadline, marked, stage, parent, fn, answer, lastMark, longest,
          hedge, hpc, attempt, outcome, results, timer, fired, collected, winner, ctxDone

streamVars == <<cfg, clock, dog, deadline, marked, stage, parent, fn, answer, lastMark, longest>>

Stream == INSTANCE StreamTimeout WITH Configs <- StreamConfigs

hedgeVars == <<hedge, hpc, attempt, outcome, results, timer, fired, collected, winner, ctxDone>>

Hedge == INSTANCE Hedge WITH cfg <- hedge, pc <- hpc, answer <- winner

\* New refuses a stream timeout without any deadline (streamtimeout.go:79-90).
ASSUME StreamAssumption ==
  \A c \in StreamConfigs :
    c \in [Stream!Watchdogs -> Nat] /\ \E w \in Stream!Watchdogs : c[w] > 0
\* Every timer that a mark can set has time to expire.
ASSUME ClockAssumption ==
  /\ LastMark \in Nat /\ MaxClock \in Nat
  /\ \A c \in StreamConfigs, w \in Stream!Watchdogs : LastMark + c[w] <= MaxClock
\* MaxAttempts may be any int; none larger than the bound is examined.
ASSUME HedgeAssumption == MaxOverall \in Nat /\ RawAttempts \subseteq Int

\* The stage a stream timeout reports was missed: the longest gap between two chunks
\* reached IdleTimeout, or the call lasted as long as the deadline that fired
\* (streamtimeout.go:49-55).
StageIsTrue == Stream!StageIsTrue

\* A stream that misses an enabled deadline ends, and its watchdogs with it
\* (streamtimeout.go:124-226).
DeadlinesBite == Stream!DeadlinesBite

\* A hedged call gives up with an error only when every attempt it dispatched has
\* failed, none is under way, and hedge.Execute has tried all of them (hedge.go:37-38).
FailsOnlyWhenAllFail == Hedge!FailsOnlyWhenAllFail

\* Every hedged call returns and leaves no goroutine behind (hedge.go:74-85).
CallEndsCleanly == Hedge!CallEndsCleanly
==============================================================================
