-------------------------------- MODULE Chain --------------------------------
(***************************************************************************)
(* A middleware chain: fallback, gate, circuit breaker, retry, budget and  *)
(* timeout layers in any order around one operation, and a caller that     *)
(* makes one logical call after another.  Every layer is two steps, the    *)
(* way in and the way out, so the caller's context and the timeout's       *)
(* deadline can end between any two of them.  The breaker and the budget   *)
(* are reduced to what CircuitBreaker and Budget show of them to one       *)
(* caller; the breaker's counting interval does not end.  A gate is what   *)
(* other layers see of a rate limiter, a bulkhead or an adaptive limiter:  *)
(* it lets a call pass or turns it away.  The operation panics in no       *)
(* behaviour.                                                              *)
(***************************************************************************)
EXTENDS Integers, Sequences

CONSTANTS
  Chains,    \* [layers, in the order of the With... calls; retry, a retry.Config as the user
             \* writes it; trip, the breaker's consecutive failures; trials, its MaxRequests;
             \* maxCalls and maxSpend, the budget's ceilings, 0 = none; whether it is a preset]
  MaxCalls   \* bound on the logical calls

Layers == {"fallback", "gate", "breaker", "retry", "budget", "timeout"}
Errors == {"transient", "marked", "open", "refused", "budget", "cancelled", "deadline", "timeout"}

Has(c, l) == \E i \in 1..Len(c.layers) : c.layers[i] = l

\* Delays in milliseconds; hasCustom: IsRetryable is set, and custom is the set of
\* errors it accepts.
RetryConfigs ==
  [policy : {"exponential", "linear", "constant"}, attempts : Int, initial : Int, max : Int,
   multiplier : Int, jitter : BOOLEAN, hasCustom : BOOLEAN, custom : SUBSET Errors,
   retryable : SUBSET Errors, nonRetryable : SUBSET Errors]

\* Every layer at most once; a budget has a ceiling.
ASSUME ChainAssumption ==
  /\ Chains \subseteq [layers : Seq(Layers), retry : RetryConfigs, trip : Nat \ {0},
                       trials : Nat \ {0}, maxCalls : Nat, maxSpend : Nat, preset : BOOLEAN]
  /\ \A c \in Chains :
       /\ \A i, j \in 1..Len(c.layers) : c.layers[i] = c.layers[j] => i = j
       /\ Has(c, "budget") => c.maxCalls > 0 \/ c.maxSpend > 0
  /\ MaxCalls \in Nat

VARIABLES
  chain,     \* the chain, its retry configuration after setDefaults
  at,        \* the layer that runs: 0 is the caller, Operation the operation
  phase,     \* "enter", "back" (the inner layer returned) or "backoff"
  ret,       \* the error returned by the inner layer, "nil" for success
  attempt,   \* retry's loop counter
  expired,   \* the timeout layer's deadline has passed
  parent,    \* the caller's context is cancelled
  breaker,   \* its state, ConsecutiveFailures and ConsecutiveSuccesses
  budget,    \* its calls, what they cost, and breached
  calls,     \* history: logical calls begun
  log        \* history: of this call [runs, open, budget, waited, rescued]; the calls that
             \* failed in a row before it; all runs under a budget

chainVars == <<chain, at, phase, ret, attempt, expired, parent, breaker, budget, calls, log>>
shared == <<breaker, budget>>
order == chain.layers
cfg == chain.retry

-----------------------------------------------------------------------------
(* Construction: retry/config.go and middleware/chain.go                    *)

MaxBackoffDuration == 24 * 3600 * 1000

setDefaults(c) ==
  [c EXCEPT !.attempts   = IF @ <= 0 THEN 3 ELSE @,
            !.initial    = IF @ <= 0 THEN 100 ELSE @,
            !.max        = IF @ < 0 THEN 0 ELSE @,
            !.multiplier = IF @ <= 0 THEN 2 ELSE IF @ > 100 THEN 100 ELSE @]

Fresh == [runs |-> 0, open |-> 0, budget |-> 0, waited |-> 0, rescued |-> FALSE]

ChainInit ==
  /\ chain \in {[c EXCEPT !.retry = setDefaults(@)] : c \in Chains}
  /\ at = 0 /\ phase = "enter" /\ ret = "nil" /\ attempt = 0
  /\ expired = FALSE /\ parent = FALSE
  /\ breaker = [state |-> "closed", failures |-> 0, successes |-> 0]
  /\ budget = [calls |-> 0, spent |-> 0, breached |-> FALSE]
  /\ calls = 0 /\ log = [call |-> Fresh, streak |-> 0, runs |-> 0]

Operation == Len(order) + 1

\* Slip: the layers are nested from left to right, the last added outermost.
LayerFromTheLeft(k) == order[Len(order) + 1 - k]

\* Execute wraps from right to left: the first layer added is the outermost.
Layer(k) == order[k]

Is(l) == at \in 1..Len(order) /\ Layer(at) = l

\* ctx.Err() of the context that layer k was given: every layer inside the timeout
\* has its deadline, all have the caller's cancellation.
ContextError(k) ==
  IF parent THEN "cancelled"
  ELSE IF expired /\ \E i \in 1..(k - 1) : Layer(i) = "timeout" THEN "deadline"
  ELSE "nil"

GoIn == at' = at + 1 /\ phase' = "enter" /\ UNCHANGED ret
GoOut(e) == at' = at - 1 /\ phase' = "back" /\ ret' = e

\* The early return on a context that is already done; otherwise the layer inside.
InUnlessDone == IF ContextError(at) # "nil" THEN GoOut(ContextError(at)) ELSE GoIn

-----------------------------------------------------------------------------
(* The caller                                                               *)

StartCall ==
  /\ at = 0 /\ phase = "enter" /\ calls < MaxCalls
  /\ at' = 1 /\ calls' = calls + 1 /\ expired' = FALSE /\ parent' = FALSE
  /\ log' = [log EXCEPT !.call = Fresh]
  /\ UNCHANGED <<chain, phase, ret, attempt, shared>>

EndCall ==
  /\ at = 0 /\ phase = "back"
  /\ phase' = "enter"
  /\ log' = [log EXCEPT !.streak = IF ret = "nil" /\ ~log.call.rescued THEN 0 ELSE @ + 1]
  /\ UNCHANGED <<chain, at, ret, attempt, expired, parent, shared, calls>>

CallerCancels ==
  /\ at > 0 /\ ~parent /\ parent' = TRUE
  /\ UNCHANGED <<chain, at, phase, ret, attempt, expired, shared, calls, log>>

\* The operation answers, a provider's own rate limit included, or notices that its
\* context is done.
Run ==
  /\ at = Operation
  /\ \/ \E e \in {"nil", "transient", "marked", "refused"} : GoOut(e)
     \/ ContextError(at) # "nil" /\ GoOut(ContextError(at))
  /\ log' = [log EXCEPT !.call.runs = @ + 1,
                        !.runs = IF Has(chain, "budget") THEN @ + 1 ELSE @]
  /\ UNCHANGED <<chain, attempt, expired, parent, shared, calls>>

-----------------------------------------------------------------------------
(* Timeout: timeout.go                                                      *)

TimeoutIn ==
  /\ Is("timeout") /\ phase = "enter"
  /\ expired' = FALSE /\ GoIn
  /\ UNCHANGED <<chain, attempt, parent, shared, calls, log>>

\* Until the timeout looks at its context, which it does after the inner layer returned.
DeadlinePasses ==
  /\ ~expired
  /\ \E k \in 1..Len(order) : Layer(k) = "timeout" /\ (k < at \/ (k = at /\ phase = "back"))
  /\ expired' = TRUE
  /\ UNCHANGED <<chain, at, phase, ret, attempt, parent, shared, calls, log>>

\* The caller's own cancellation takes precedence over the deadline, and either
\* over the result.
TimeoutOut ==
  /\ Is("timeout") /\ phase = "back"
  /\ GoOut(IF parent THEN "cancelled" ELSE IF expired THEN "timeout" ELSE ret)
  /\ UNCHANGED <<chain, attempt, expired, parent, shared, calls, log>>

-----------------------------------------------------------------------------
(* Gates: WithRateLimit, WithBulkhead and WithAdaptive of chain.go          *)

\* The wait for a token or a slot ends with it, with a refusal or with ctx's error.
GateIn ==
  /\ Is("gate") /\ phase = "enter"
  /\ GoOut("refused") \/ InUnlessDone
  /\ UNCHANGED <<chain, attempt, expired, parent, shared, calls, log>>

GateOut ==
  /\ Is("gate") /\ phase = "back" /\ GoOut(ret)
  /\ UNCHANGED <<chain, attempt, expired, parent, shared, calls, log>>

-----------------------------------------------------------------------------
(* Circuit breaker: Execute of breaker.go                                   *)

BreakerIn ==
  /\ Is("breaker") /\ phase = "enter"
  /\ IF ContextError(at) = "nil" /\ breaker.state = "open"
     THEN GoOut("open") /\ log' = [log EXCEPT !.call.open = @ + 1]
     ELSE InUnlessDone /\ UNCHANGED log
  /\ UNCHANGED <<chain, attempt, expired, parent, shared, calls>>

To(state) == [state |-> state, failures |-> 0, successes |-> 0]

\* IsSuccessful is err == nil: a cancelled call counts as a failure.  One failed trial
\* opens the breaker again, MaxRequests good ones in a row close it (only then are
\* successes kept).
Judged(ok) ==
  LET b == [state     |-> breaker.state,
            failures  |-> IF ok THEN 0 ELSE breaker.failures + 1,
            successes |-> IF ok THEN breaker.successes + 1 ELSE 0]
  IN CASE b.state = "half-open" /\ ~ok -> To("open")
       [] b.state = "half-open" /\ b.successes >= chain.trials -> To("closed")
       [] b.state = "closed" /\ b.failures >= chain.trip -> To("open")
       [] b.state = "closed" -> [b EXCEPT !.successes = 0]
       [] OTHER -> b

BreakerOut ==
  /\ Is("breaker") /\ phase = "back"
  /\ breaker' = Judged(ret = "nil") /\ GoOut(ret)
  /\ UNCHANGED <<chain, attempt, expired, parent, budget, calls, log>>

\* Config.Timeout has passed since the breaker opened.
BreakerRests ==
  /\ breaker.state = "open" /\ breaker' = To("half-open")
  /\ UNCHANGED <<chain, at, phase, ret, attempt, expired, parent, budget, calls, log>>

-----------------------------------------------------------------------------
(* Budget: executeLockFree of budget.go                                     *)

Exhausted == GoOut("budget") /\ log' = [log EXCEPT !.call.budget = @ + 1]

\* The call is counted before it runs; the context is not looked at.
BudgetIn ==
  /\ Is("budget") /\ phase = "enter"
  /\ \/ budget.breached /\ UNCHANGED budget /\ Exhausted
     \/ /\ ~budget.breached /\ chain.maxCalls > 0 /\ budget.calls + 1 > chain.maxCalls
        /\ budget' = [budget EXCEPT !.calls = @ + 1, !.breached = TRUE]
        /\ Exhausted
     \/ /\ ~budget.breached /\ (chain.maxCalls > 0 => budget.calls + 1 <= chain.maxCalls)
        /\ budget' = [budget EXCEPT !.calls = @ + 1]
        /\ GoIn /\ UNCHANGED log
  /\ UNCHANGED <<chain, attempt, expired, parent, breaker, calls>>

\* Charge is asked whatever the outcome; the call that crosses the ceiling returns
\* BudgetExceeded even if it succeeded.
BudgetOut ==
  /\ Is("budget") /\ phase = "back"
  /\ \E cost \in IF chain.maxSpend > 0 THEN 0..1 ELSE {0} :
       IF chain.maxSpend > 0 /\ budget.spent + cost > chain.maxSpend
       THEN budget' = [budget EXCEPT !.spent = @ + cost, !.breached = TRUE] /\ Exhausted
       ELSE budget' = [budget EXCEPT !.spent = @ + cost] /\ GoOut(ret) /\ UNCHANGED log
  /\ UNCHANGED <<chain, attempt, expired, parent, breaker, calls>>

-----------------------------------------------------------------------------
(* Retry: retry.go and backoff.go                                           *)

\* errors.Is: a TimeoutError is a context.DeadlineExceeded too.
Matches(e, targets) == e \in targets \/ (e = "timeout" /\ "deadline" \in targets)

\* Slip: an open circuit is an error like any other.
isRetryableBlindly(e) ==
  IF cfg.hasCustom THEN e \in cfg.custom
  ELSE /\ ~Matches(e, cfg.nonRetryable)
       /\ cfg.retryable # {} => Matches(e, cfg.retryable)

\* The predicate; else the lists, the negative one first; else an error marked by
\* AsRetryable and everything but ErrCircuitOpen.
isRetryable(e) ==
  IF cfg.hasCustom THEN e \in cfg.custom
  ELSE /\ ~Matches(e, cfg.nonRetryable)
       /\ IF cfg.retryable # {} THEN Matches(e, cfg.retryable)
                                ELSE e = "marked" \/ e # "open"

\* Slip: neither the overflow guard nor MaxDelay is applied.
BackoffUncapped(n) ==
  CASE cfg.policy = "exponential" -> cfg.initial * cfg.multiplier ^ (n - 1)
    [] cfg.policy = "linear" -> cfg.initial * n
    [] OTHER -> cfg.initial

\* calculateBackoff without the jitter: policy, overflow guard, MaxDelay.
Backoff(n) ==
  LET raw == CASE cfg.policy = "exponential" -> cfg.initial * cfg.multiplier ^ (n - 1)
               [] cfg.policy = "linear" -> cfg.initial * n
               [] OTHER -> cfg.initial
      safe == IF raw \in 0..MaxBackoffDuration THEN raw ELSE MaxBackoffDuration
  IN IF cfg.max > 0 /\ safe > cfg.max THEN cfg.max ELSE safe

\* addJitter adds up to a tenth: its extremes.
Delays(n) == {Backoff(n)} \cup (IF cfg.jitter THEN {Backoff(n) + Backoff(n) \div 10} ELSE {})

RetryIn ==
  /\ Is("retry") /\ phase = "enter"
  /\ attempt' = 1 /\ InUnlessDone
  /\ UNCHANGED <<chain, expired, parent, shared, calls, log>>

\* Success, an error that is not retryable, or the last attempt.
RetryOut ==
  /\ Is("retry") /\ phase = "back"
  /\ ret = "nil" \/ ~isRetryable(ret) \/ attempt = cfg.attempts
  /\ GoOut(ret)
  /\ UNCHANGED <<chain, attempt, expired, parent, shared, calls, log>>

\* OnRetry, then the timer is set.
RetryWaits ==
  /\ Is("retry") /\ phase = "back" /\ ret # "nil" /\ isRetryable(ret) /\ attempt < cfg.attempts
  /\ phase' = "backoff"
  /\ \E d \in Delays(attempt) : log' = [log EXCEPT !.call.waited = @ + d]
  /\ UNCHANGED <<chain, at, ret, attempt, expired, parent, shared, calls>>

\* The timer fires (the context is checked again before the next attempt) or the
\* context is done; with both ready, select takes either.
RetryWakes ==
  /\ phase = "backoff"
  /\ \/ attempt' = attempt + 1 /\ InUnlessDone
     \/ ContextError(at) # "nil" /\ GoOut(ContextError(at)) /\ UNCHANGED attempt
  /\ UNCHANGED <<chain, expired, parent, shared, calls, log>>

-----------------------------------------------------------------------------
(* Fallback: fallback.go                                                    *)

FallbackIn ==
  /\ Is("fallback") /\ phase = "enter" /\ InUnlessDone
  /\ UNCHANGED <<chain, attempt, expired, parent, shared, calls, log>>

\* On an error ShouldFallback may decline, or the fallback fails: the original
\* error is returned.  Otherwise its value replaces the error.
FallbackOut ==
  /\ Is("fallback") /\ phase = "back"
  /\ \/ GoOut(ret) /\ UNCHANGED log
     \/ ret # "nil" /\ GoOut("nil") /\ log' = [log EXCEPT !.call.rescued = TRUE]
  /\ UNCHANGED <<chain, attempt, expired, parent, shared, calls>>

-----------------------------------------------------------------------------

ChainNext ==
  \/ StartCall \/ EndCall \/ CallerCancels \/ Run
  \/ TimeoutIn \/ DeadlinePasses \/ TimeoutOut
  \/ GateIn \/ GateOut
  \/ BreakerIn \/ BreakerOut \/ BreakerRests
  \/ BudgetIn \/ BudgetOut
  \/ RetryIn \/ RetryOut \/ RetryWaits \/ RetryWakes
  \/ FallbackIn \/ FallbackOut

ChainSpec == ChainInit /\ [][ChainNext]_chainVars

-----------------------------------------------------------------------------

AddedBefore(l, m) == \E i, j \in 1..Len(order) : i < j /\ order[i] = l /\ order[j] = m

\* A breaker added before retry counts calls, not attempts: it leaves Closed only
\* after as many failed calls in a row as its threshold says, however many attempts
\* failed in calls that retry recovered (chain.go:94-99, presets.go:550-553).
BreakerCountsCalls ==
  [][AddedBefore("breaker", "retry") /\ breaker.state = "closed" /\ breaker'.state = "open"
       => log.streak + 1 >= chain.trip]_chainVars

\* Asks for retries after a refusal e: by predicate, by list, or by leaving a spent
\* budget to the default.
OptsIn(e) ==
  IF cfg.hasCustom THEN e \in cfg.custom
  ELSE e \notin cfg.nonRetryable /\ (e \in cfg.retryable \/ (cfg.retryable = {} /\ e = "budget"))

\* A timeout between retry and l: a refusal by l that it answers too late is a timeout
\* to retry (timeout.go:72-96).
Masked(l) == AddedBefore("retry", "timeout") /\ AddedBefore("timeout", l)

\* Unless its own configuration opts in, a call meets an open circuit and a spent
\* budget at most once, whatever the order of layers (but for a timeout that hides
\* the refusal from retry), and with a breaker that opens or half-opens between two
\* attempts; in a preset always (retry.go:195-207, presets.go:308-312).
RefusalsNotRetried ==
  /\ log.call.open <= 1 \/ (~chain.preset /\ (OptsIn("open") \/ Masked("breaker")))
  /\ log.call.budget <= 1 \/ (~chain.preset /\ (OptsIn("budget") \/ Masked("budget")))

\* What calls can cost, in any order of layers: each at most MaxAttempts runs of the
\* operation, and between them waits of MaxDelay (24 hours when it is 0) plus a
\* tenth at most; all together no more runs than the budget has calls, times the
\* attempts if the budget is outside retry (chain.go:155-157, 196-199,
\* backoff.go:25-28).
CallCostBounded ==
  LET ceiling == IF cfg.max > 0 THEN cfg.max ELSE MaxBackoffDuration
      retries == IF Has(chain, "retry") THEN cfg.attempts - 1 ELSE 0
  IN /\ log.call.runs <= 1 + retries
     /\ log.call.waited <= retries * (ceiling + ceiling \div 10)
     /\ Has(chain, "budget") /\ chain.maxCalls > 0 =>
          log.runs <= chain.maxCalls * (IF AddedBefore("budget", "retry") THEN 1 + retries ELSE 1)
=============================================================================
