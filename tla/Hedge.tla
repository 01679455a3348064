-------------------------------- MODULE Hedge --------------------------------
(***************************************************************************)
(* One hedged call: hedge.Execute, and the hand-written variant            *)
(* LLMHedgeRunner.Run.  A coordinator selects over the results of the      *)
(* attempts, the hedge timer and the caller's context; every attempt is a  *)
(* goroutine that sends its outcome into a channel with room for all, or   *)
(* gives up once the shared context is done.  Time is left out: a running  *)
(* timer fires sooner or later.  A panic in fn ends the process and is not *)
(* a step.                                                                 *)
(***************************************************************************)
EXTENDS Integers, Sequences, FiniteSets

CONSTANTS
  Kinds,        \* which of "hedge" and "llm" are examined
  RawAttempts,  \* Config.MaxAttempts, or the length of LLMHedgeConfig.Attempts
  MaxOverall    \* bound: the largest number of attempts examined

DefaultMaxAttempts == 2
MaxAttemptsCap == 16

VARIABLES
  cfg,       \* the kind and the number of attempts after New
  pc,        \* the coordinator: "start", "select" or "returned"
  attempt,   \* per attempt: "unfired", "running", "sending" or "ended"
  outcome,   \* per attempt: what fn returned, "none" before
  results,   \* the buffered channel
  timer,     \* "off", "running" or "due"
  fired,     \* attempts dispatched
  collected, \* results received
  answer,    \* what the call returned
  ctxDone    \* the caller's context is cancelled

vars == <<cfg, pc, attempt, outcome, results, timer, fired, collected, answer, ctxDone>>
Attempts == 1..MaxOverall

\* setDefaults of hedge.Config.
MaxAttempts(raw) ==
  IF raw <= 0 THEN DefaultMaxAttempts ELSE IF raw > MaxAttemptsCap THEN MaxAttemptsCap ELSE raw

\* hedge.New repairs the number of attempts, LLMHedge refuses an empty list.
HedgeConfigs ==
  {[kind |-> "hedge", max |-> MaxAttempts(raw)] : raw \in RawAttempts} \cup
  {[kind |-> "llm", max |-> raw] : raw \in RawAttempts \cap (1..MaxOverall)}

Init ==
  /\ cfg \in {c \in HedgeConfigs : c.kind \in Kinds /\ c.max <= MaxOverall}
  /\ pc = "start" /\ answer = "none" /\ ctxDone = FALSE
  /\ attempt = [i \in Attempts |-> "unfired"] /\ outcome = [i \in Attempts |-> "none"]
  /\ results = <<>> /\ timer = "off" /\ fired = 0 /\ collected = 0

\* The context the attempts run with: cancelled with the caller's, and by the
\* deferred cancel.
SharedDone == ctxDone \/ pc = "returned"

Return(a) == pc' = "returned" /\ answer' = a

-----------------------------------------------------------------------------
(* The attempts                                                             *)

FnReturns(i, result) ==
  /\ attempt[i] = "running"
  /\ attempt' = [attempt EXCEPT ![i] = "sending"]
  /\ outcome' = [outcome EXCEPT ![i] = result]
  /\ UNCHANGED <<cfg, pc, results, timer, fired, collected, answer, ctxDone>>

Send(i) ==
  /\ attempt[i] = "sending" /\ Len(results) < cfg.max
  /\ attempt' = [attempt EXCEPT ![i] = "ended"]
  /\ results' = Append(results, outcome[i])
  /\ UNCHANGED <<cfg, pc, outcome, timer, fired, collected, answer, ctxDone>>

\* The other case of the select: nobody listens any more.
GiveUpSend(i) ==
  /\ attempt[i] = "sending" /\ SharedDone
  /\ attempt' = [attempt EXCEPT ![i] = "ended"]
  /\ UNCHANGED <<cfg, pc, outcome, results, timer, fired, collected, answer, ctxDone>>

-----------------------------------------------------------------------------
(* The coordinator                                                          *)

Fire(i) == attempt' = [attempt EXCEPT ![i] = "running"] /\ fired' = fired + 1

\* Execute looks at the context first; Run does not.
Refuse ==
  /\ pc = "start" /\ cfg.kind = "hedge" /\ ctxDone
  /\ Return("cancelled")
  /\ UNCHANGED <<cfg, attempt, outcome, results, timer, fired, collected, ctxDone>>

FirePrimary ==
  /\ pc = "start" /\ (cfg.kind = "hedge" => ~ctxDone)
  /\ pc' = "select" /\ Fire(1) /\ timer' = "running"
  /\ UNCHANGED <<cfg, outcome, results, collected, answer, ctxDone>>

\* Slip: nothing is left to wait for once all attempts fired so far have failed.
AllFailedSoFar == collected + 1 = fired

\* Execute goes on until MaxAttempts have failed; Run stops when none is pending.
AllFailed == collected + 1 = fired /\ (cfg.kind = "hedge" => fired = cfg.max)

Receive ==
  /\ pc = "select" /\ results # <<>>
  /\ results' = Tail(results) /\ collected' = collected + 1
  /\ CASE Head(results) = "ok" -> Return("ok")
       [] Head(results) = "error" /\ AllFailed -> Return("error")
       [] Head(results) = "error" /\ ~AllFailed -> UNCHANGED <<pc, answer>>
  /\ UNCHANGED <<cfg, attempt, outcome, timer, fired, ctxDone>>

\* Slip: the timer is good for one hedge only.
FireHedgeOnce ==
  /\ pc = "select" /\ timer = "due" /\ fired < cfg.max
  /\ Fire(fired + 1) /\ timer' = "off"
  /\ UNCHANGED <<cfg, pc, outcome, results, collected, answer, ctxDone>>

\* The timer is set again; by Run only if another attempt is left.
FireHedge ==
  /\ pc = "select" /\ timer = "due" /\ fired < cfg.max
  /\ Fire(fired + 1)
  /\ timer' = IF cfg.kind = "hedge" \/ fired + 1 < cfg.max THEN "running" ELSE "off"
  /\ UNCHANGED <<cfg, pc, outcome, results, collected, answer, ctxDone>>

\* Run calls OnHedge without a recover, before it dispatches: a panic unwinds it.
OnHedgePanics ==
  /\ pc = "select" /\ timer = "due" /\ fired < cfg.max /\ cfg.kind = "llm"
  /\ Return("panic")
  /\ UNCHANGED <<cfg, attempt, outcome, results, timer, fired, collected, ctxDone>>

\* All attempts fired; Execute takes the last tick and waits for results.
IgnoreTimer ==
  /\ pc = "select" /\ timer = "due" /\ fired = cfg.max /\ cfg.kind = "hedge"
  /\ timer' = "off"
  /\ UNCHANGED <<cfg, pc, attempt, outcome, results, fired, collected, answer, ctxDone>>

SeeCancelled ==
  /\ pc = "select" /\ ctxDone
  /\ Return("cancelled")
  /\ UNCHANGED <<cfg, attempt, outcome, results, timer, fired, collected, ctxDone>>

-----------------------------------------------------------------------------

TimerFires ==
  /\ timer = "running" /\ pc = "select" /\ timer' = "due"
  /\ UNCHANGED <<cfg, pc, attempt, outcome, results, fired, collected, answer, ctxDone>>

CallerCancels ==
  /\ ~ctxDone /\ pc # "returned" /\ ctxDone' = TRUE
  /\ UNCHANGED <<cfg, pc, attempt, outcome, results, timer, fired, collected, answer>>

Ends(i) == \E result \in {"ok", "error"} : FnReturns(i, result)
Reports(i) == Send(i) \/ GiveUpSend(i)
Begins == Refuse \/ FirePrimary
Hedges == FireHedge \/ OnHedgePanics \/ IgnoreTimer

Next == \/ \E i \in Attempts : Ends(i) \/ Reports(i)
        \/ Begins \/ Receive \/ Hedges \/ SeeCancelled
        \/ TimerFires
        \/ CallerCancels

\* Goroutines are scheduled, timers fire, and fn returns.  A select with several
\* ready cases takes each of them sooner or later (SF).
\* The caller is not assumed to cancel.
Fairness ==
  /\ \A i \in Attempts : WF_vars(Ends(i)) /\ WF_vars(Reports(i))
  /\ WF_vars(Begins) /\ WF_vars(TimerFires)
  /\ SF_vars(Receive) /\ SF_vars(Hedges) /\ SF_vars(SeeCancelled)

FairSpec == Init /\ [][Next]_vars /\ Fairness

-----------------------------------------------------------------------------

\* A call gives up with an error only when there is nothing left that could
\* succeed: every attempt that was dispatched has failed, none is under way or
\* was dropped with a success in hand, and hedge.Execute has tried all
\* MaxAttempts, also when failures outrun the hedge timer (hedge.go:37-38).
FailsOnlyWhenAllFail ==
  answer = "error" =>
    /\ \A i \in 1..fired : outcome[i] = "error"
    /\ cfg.kind = "hedge" => fired = cfg.max

\* Every call returns and leaves no goroutine behind: the losers that finish
\* later find room in the channel or see the context done (hedge.go:74-85).
CallEndsCleanly ==
  <>(pc = "returned" /\ \A i \in Attempts : attempt[i] \in {"unfired", "ended"})
=============================================================================
