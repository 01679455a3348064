---------------------------- MODULE StreamTimeout ----------------------------
(***************************************************************************)
(* One StreamTimeout.Execute: the caller's fn, which marks chunks, and the *)
(* watchdog goroutines for the first byte, the idle gap and the total      *)
(* duration.  A watchdog that has received from its timer calls fire as a  *)
(* later step, so fn may mark or return in between.  Timers are those of   *)
(* Go 1.23 and later: Stop and Reset leave no stale tick behind.  Mark is  *)
(* called by fn's own goroutine.                                           *)
(***************************************************************************)
EXTENDS Integers

CONSTANTS
  Configs,   \* [first, idle, total]: the three timeouts, 0 = disabled
  LastMark,  \* bound: no chunk arrives after this time
  MaxClock   \* bound on the clock

Watchdogs == {"first", "idle", "total"}

VARIABLES
  cfg,
  clock,     \* time since startAt
  dog,       \* per watchdog: "off", "waiting", "firing" or "gone"
  deadline,  \* per watchdog: when its timer expires
  marked,    \* seenMark; the firstMark channel is closed
  stage,     \* the stage that fired, "none" while firedAt is nil
  parent,    \* the caller's context is cancelled
  fn,        \* "running", "returned" (idleStop closed), "judging", "over"
  answer,    \* what Execute returned: "result", "cancelled" or a stage
  lastMark,  \* history: when the last chunk was marked
  longest    \* history: the longest gap between two marks so far

vars == <<cfg, clock, dog, deadline, marked, stage, parent, fn, answer, lastMark, longest>>

Init ==
  /\ cfg \in Configs
  /\ clock = 0 /\ marked = FALSE /\ stage = "none" /\ parent = FALSE
  /\ dog = [w \in Watchdogs |-> IF cfg[w] > 0 /\ w # "idle" THEN "waiting" ELSE "off"]
  /\ deadline = cfg
  /\ fn = "running" /\ answer = "none" /\ lastMark = 0 /\ longest = 0

\* cctx.Done(): a watchdog fired, the caller cancelled, or Execute has returned.
Done == stage # "none" \/ parent \/ fn = "over"

-----------------------------------------------------------------------------
(* Mark                                                                     *)

\* The first chunk: firstMark is closed and the idle watchdog starts.
FirstMark ==
  /\ fn = "running" /\ ~marked /\ clock <= LastMark
  /\ marked' = TRUE /\ lastMark' = clock
  /\ IF cfg["idle"] > 0
     THEN /\ dog' = [dog EXCEPT !["idle"] = "waiting"]
          /\ deadline' = [deadline EXCEPT !["idle"] = clock + cfg["idle"]]
     ELSE UNCHANGED <<dog, deadline>>
  /\ UNCHANGED <<cfg, clock, stage, parent, fn, answer, longest>>

Gap == clock - lastMark

\* Slip: a later chunk does not move the idle deadline.
LaterMarkIgnored ==
  /\ fn = "running" /\ marked /\ clock <= LastMark
  /\ lastMark' = clock /\ longest' = IF Gap > longest THEN Gap ELSE longest
  /\ UNCHANGED <<cfg, clock, dog, deadline, marked, stage, parent, fn, answer>>

\* Later chunks: Stop, drain and Reset of the idle timer, if there is one.
LaterMark ==
  /\ fn = "running" /\ marked /\ clock <= LastMark
  /\ lastMark' = clock /\ longest' = IF Gap > longest THEN Gap ELSE longest
  /\ deadline' = IF cfg["idle"] > 0 THEN [deadline EXCEPT !["idle"] = clock + cfg["idle"]] ELSE deadline
  /\ UNCHANGED <<cfg, clock, dog, marked, stage, parent, fn, answer>>

-----------------------------------------------------------------------------
(* The watchdogs                                                            *)

\* The timer case of a watchdog's select.
Expire(w) ==
  /\ dog[w] = "waiting" /\ clock >= deadline[w]
  /\ dog' = [dog EXCEPT ![w] = "firing"]
  /\ UNCHANGED <<cfg, clock, deadline, marked, stage, parent, fn, answer, lastMark, longest>>

\* fire: the first stage is recorded and cctx cancelled; later ones are no-ops.
Fire(w) ==
  /\ dog[w] = "firing"
  /\ dog' = [dog EXCEPT ![w] = "gone"]
  /\ stage' = IF stage = "none" THEN w ELSE stage
  /\ UNCHANGED <<cfg, clock, deadline, marked, parent, fn, answer, lastMark, longest>>

\* Slip: the total watchdog too is content with the first chunk.
DismissedOnMark(w) == Done \/ (w # "idle" /\ marked) \/ (w = "idle" /\ fn # "running")

\* The other cases: the context is done, the first chunk has come, fn has returned.
Dismissed(w) == Done \/ (w = "first" /\ marked) \/ (w = "idle" /\ fn # "running")

Retire(w) ==
  /\ dog[w] = "waiting" /\ Dismissed(w)
  /\ dog' = [dog EXCEPT ![w] = "gone"]
  /\ UNCHANGED <<cfg, clock, deadline, marked, stage, parent, fn, answer, lastMark, longest>>

-----------------------------------------------------------------------------
(* The end of Execute                                                       *)

\* fn returns: of its own accord, or because its context is done.
FnReturns ==
  /\ fn = "running" /\ fn' = "returned"
  /\ UNCHANGED <<cfg, clock, dog, deadline, marked, stage, parent, answer, lastMark, longest>>

\* The stage is read under mu.  No deadline fired: fn's own result is returned.
Collect ==
  /\ fn = "returned"
  /\ IF stage = "none" THEN fn' = "over" /\ answer' = "result"
                       ELSE fn' = "judging" /\ UNCHANGED answer
  /\ UNCHANGED <<cfg, clock, dog, deadline, marked, stage, parent, lastMark, longest>>

\* A deadline fired: the caller's own cancellation still takes precedence.
Judge ==
  /\ fn = "judging" /\ fn' = "over"
  /\ answer' = IF parent THEN "cancelled" ELSE stage
  /\ UNCHANGED <<cfg, clock, dog, deadline, marked, stage, parent, lastMark, longest>>

CallerCancels ==
  /\ ~parent /\ fn # "over" /\ parent' = TRUE
  /\ UNCHANGED <<cfg, clock, dog, deadline, marked, stage, fn, answer, lastMark, longest>>

Tick ==
  /\ fn # "over" /\ clock < MaxClock /\ clock' = clock + 1
  /\ UNCHANGED <<cfg, dog, deadline, marked, stage, parent, fn, answer, lastMark, longest>>

-----------------------------------------------------------------------------

Watches(w) == Expire(w) \/ Fire(w) \/ Retire(w)
Returns == Collect \/ Judge

Next == \/ FirstMark \/ LaterMark \/ FnReturns \/ Returns
        \/ \E w \in Watchdogs : Watches(w)
        \/ CallerCancels
        \/ Tick

\* Goroutines are scheduled and time passes.  Of fn it is assumed, as Execute
\* demands (streamtimeout.go:100-101), that it returns once its context is done,
\* and nothing else: it need not mark, and need not return by itself.
Fairness ==
  /\ \A w \in Watchdogs : WF_vars(Watches(w))
  /\ WF_vars(Done /\ FnReturns) /\ WF_vars(Returns) /\ WF_vars(Tick)

FairSpec == Init /\ [][Next]_vars /\ Fairness

-----------------------------------------------------------------------------

\* The deadline that fired was really missed, whatever marks, ticks and
\* goroutines did in between: FirstByteTimeout had passed, some gap between two
\* chunks reached IdleTimeout, the call lasted TotalTimeout.  A chunk that races
\* with the idle timer cannot make a healthy stream look stalled
\* (streamtimeout.go:49-55).  That no chunk came before FirstByteTimeout is not
\* claimed: a watchdog first scheduled after the timeout finds both channels ready
\* and select may choose the timer.
StageIsTrue ==
  /\ stage = "idle" => Gap >= cfg["idle"] \/ longest >= cfg["idle"]
  /\ stage \in {"first", "total"} => clock >= cfg[stage]

\* No stream outlives its deadlines: with a total timeout every call ends, with a
\* first-byte timeout one that never marks, with an idle timeout one that has
\* marked and then stalls; and the watchdogs end with the call.
DeadlinesBite ==
  /\ cfg["total"] > 0 ~> fn = "over"
  /\ cfg["first"] > 0 ~> fn = "over" \/ marked
  /\ cfg["idle"] > 0 /\ marked ~> fn = "over"
  /\ fn = "over" ~> \A w \in Watchdogs : dog[w] \in {"off", "gone"}
=============================================================================
