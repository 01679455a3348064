----------------------------- MODULE StacksProofs -----------------------------
(***************************************************************************)
(* Two kinds of stacks.  First what a chain of layers promises in every    *)
(* order of the layers and for every configuration.  A call is somewhere   *)
(* in the chain, on its way in or out; only retry sends it in again.  So a *)
(* layer outside retry is passed once in a call, and one inside it once in *)
(* an attempt.  Then HTTP middlewares around a handler.                    *)
(***************************************************************************)
EXTENDS Stacks, FiniteSetTheorems, TLAPS

K == 1..Len(order)

\* The positions of the layers never change, and no layer is there twice.
Built ==
  /\ chain \in [layers : Seq(Layers), retry : RetryConfigs, trip : Nat \ {0},
                trials : Nat \ {0}, maxCalls : Nat, maxSpend : Nat, preset : BOOLEAN]
  /\ \A i, j \in K : order[i] = order[j] => i = j
  /\ cfg.attempts \in Nat \ {0} /\ cfg.max \in Nat

\* The fields of the histories; how long a call has waited is bounded below.
Logged ==
  /\ log = [call |-> log.call, streak |-> log.streak, runs |-> log.runs]
  /\ log.call = [runs |-> log.call.runs, open |-> log.call.open, budget |-> log.call.budget,
                 waited |-> log.call.waited, rescued |-> log.call.rescued]
  /\ log.streak \in Nat /\ log.runs \in Nat
  /\ log.call.runs \in Nat /\ log.call.open \in Nat /\ log.call.budget \in Nat
  /\ log.call.waited \in Nat /\ log.call.rescued \in BOOLEAN

Typed ==
  /\ Built /\ Logged
  /\ at \in 0..Operation /\ attempt \in Nat
  /\ phase \in {"enter", "back", "backoff"} /\ (phase = "backoff" => Is("retry"))
  /\ (at = Operation => phase = "enter")
  /\ ret \in Errors \cup {"nil"}
  /\ parent \in BOOLEAN /\ expired \in BOOLEAN
  /\ breaker \in [state : {"closed", "open", "half-open"}, failures : Nat, successes : Nat]
  /\ budget \in [calls : Nat, spent : Nat, breached : BOOLEAN]

-----------------------------------------------------------------------------
(* Construction.                                                            *)

\* c and d tell the same errors from one another.
SameClasses(d, c) ==
  /\ d.hasCustom = c.hasCustom /\ d.custom = c.custom
  /\ d.retryable = c.retryable /\ d.nonRetryable = c.nonRetryable

\* setDefaults leaves at least one attempt and no negative ceiling, and touches no class of
\* errors.
LEMMA DefaultsTyped ==
  ASSUME NEW c \in RetryConfigs
  PROVE  /\ setDefaults(c) \in RetryConfigs
         /\ setDefaults(c).attempts \in Nat \ {0} /\ setDefaults(c).max \in Nat
         /\ SameClasses(setDefaults(c), c)
<1> DEFINE a == IF c.attempts <= 0 THEN 3 ELSE c.attempts
           i == IF c.initial <= 0 THEN 100 ELSE c.initial
           x == IF c.max < 0 THEN 0 ELSE c.max
           m == IF c.multiplier <= 0 THEN 2 ELSE IF c.multiplier > 100 THEN 100 ELSE c.multiplier
           c1 == [c EXCEPT !.attempts = a]
           c2 == [c1 EXCEPT !.initial = i]
           c3 == [c2 EXCEPT !.max = x]
           c4 == [c3 EXCEPT !.multiplier = m]
<1>1. setDefaults(c) = c4
  BY Zenon DEF setDefaults
<1>2. a \in Nat \ {0} /\ i \in Int /\ x \in Nat /\ m \in Int
  BY DEF RetryConfigs
<1> HIDE DEF a, i, x, m
<1>3. c1 \in RetryConfigs /\ c1.attempts = a /\ SameClasses(c1, c)
  BY <1>2 DEF RetryConfigs, SameClasses
<1> HIDE DEF c1
<1>4. c2 \in RetryConfigs /\ c2.attempts = a /\ SameClasses(c2, c)
  BY <1>2, <1>3 DEF RetryConfigs, SameClasses
<1> HIDE DEF c2
<1>5. c3 \in RetryConfigs /\ c3.attempts = a /\ c3.max = x /\ SameClasses(c3, c)
  BY <1>2, <1>4 DEF RetryConfigs, SameClasses
<1> HIDE DEF c3
<1>6. c4 \in RetryConfigs /\ c4.attempts = a /\ c4.max = x /\ SameClasses(c4, c)
  BY <1>2, <1>5 DEF RetryConfigs, SameClasses
<1> HIDE DEF c4
<1> QED BY <1>1, <1>2, <1>6

\* The initial state.
LEMMA InitTyped ==
  ASSUME ChainInit
  PROVE  Typed
<1>1. PICK c \in Chains : chain = [c EXCEPT !.retry = setDefaults(c.retry)]
  BY DEF ChainInit
<1>2. c \in [layers : Seq(Layers), retry : RetryConfigs, trip : Nat \ {0},
             trials : Nat \ {0}, maxCalls : Nat, maxSpend : Nat, preset : BOOLEAN]
  BY ChainAssumption
<1> DEFINE s == setDefaults(c.retry)
<1>3. s \in RetryConfigs /\ s.attempts \in Nat \ {0} /\ s.max \in Nat
  BY <1>2, DefaultsTyped
<1>4. chain = [c EXCEPT !.retry = s]
  BY <1>1
<1> HIDE DEF s
<1>5. /\ chain \in [layers : Seq(Layers), retry : RetryConfigs, trip : Nat \ {0},
                    trials : Nat \ {0}, maxCalls : Nat, maxSpend : Nat, preset : BOOLEAN]
      /\ chain.layers = c.layers /\ chain.retry = s
  BY <1>2, <1>3, <1>4
<1>6. Built
  BY <1>3, <1>5, ChainAssumption DEF Built, K, order, cfg
<1>7. Logged
  BY DEF ChainInit, Logged, Fresh
<1>8. Len(order) \in Nat
  BY <1>5 DEF order
<1>9. at \in 0..Operation /\ attempt \in Nat /\ phase = "enter" /\ ret = "nil"
  BY <1>8 DEF ChainInit, Operation
<1>10. /\ breaker \in [state : {"closed", "open", "half-open"}, failures : Nat, successes : Nat]
       /\ budget \in [calls : Nat, spent : Nat, breached : BOOLEAN]
  BY DEF ChainInit
<1>11. parent \in BOOLEAN /\ expired \in BOOLEAN
  BY Zenon DEF ChainInit
<1> QED BY <1>6, <1>7, <1>9, <1>10, <1>11 DEF Typed

-----------------------------------------------------------------------------
(* One step.                                                                *)

\* What a wait may be at most: MaxDelay, or a day, and a tenth of it.
Ceiling == IF cfg.max > 0 THEN cfg.max ELSE MaxBackoffDuration
Longest == Ceiling + Ceiling \div 10

\* No wait is longer.
LEMMA DelaysBounded ==
  ASSUME Built, NEW n \in Nat, NEW d \in Delays(n)
  PROVE  d \in Nat /\ d <= Longest
<1>1. cfg.max \in Nat /\ MaxBackoffDuration \in Nat
  BY DEF Built, MaxBackoffDuration
<1>2. PICK safe \in 0..MaxBackoffDuration :
        Backoff(n) = IF cfg.max > 0 /\ safe > cfg.max THEN cfg.max ELSE safe
  BY <1>1 DEF Backoff
<1>3. Backoff(n) \in Nat /\ Backoff(n) <= Ceiling /\ Ceiling \in Nat
  BY <1>1, <1>2 DEF Ceiling
<1>4. d = Backoff(n) \/ d = Backoff(n) + Backoff(n) \div 10
  BY DEF Delays
<1>5. \A x, y \in Nat : x <= y => x \div 10 <= y \div 10 /\ x \div 10 \in Nat
  OBVIOUS
<1> HIDE DEF Ceiling
<1> QED BY <1>3, <1>4, <1>5 DEF Longest

\* What InUnlessDone, GoIn and GoOut do to the position, whatever the errors are.
LEMMA Moved ==
  ASSUME Typed, at \in 1..Operation
  PROVE  /\ GoIn => at' = at + 1 /\ phase' = "enter" /\ ret' = ret
         /\ \A e : GoOut(e) => at' = at - 1 /\ phase' = "back" /\ ret' = e
         /\ ContextError(at) \in {"nil", "cancelled", "deadline"}
         /\ InUnlessDone => \/ GoIn
                            \/ ContextError(at) # "nil" /\ GoOut(ContextError(at))
  BY DEF GoIn, GoOut, ContextError, InUnlessDone

\* The chain never changes.
LEMMA ChainFixed ==
  ASSUME [ChainNext]_chainVars
  PROVE  chain' = chain
  BY DEF ChainNext, chainVars, StartCall, EndCall, CallerCancels, Run, TimeoutIn, DeadlinePasses,
         TimeoutOut, GateIn, GateOut, BreakerIn, BreakerOut, BreakerRests, BudgetIn, BudgetOut,
         RetryIn, RetryOut, RetryWaits, RetryWakes, FallbackIn, FallbackOut

\* The histories after a step.
Count(r, o, b, w, x, s, t) ==
  /\ Logged' /\ log'.call.runs = r /\ log'.call.open = o /\ log'.call.budget = b
  /\ log'.call.waited = w /\ log'.call.rescued = x /\ log'.streak = s /\ log'.runs = t

\* The fields of a new log.
LEMMA Counted ==
  ASSUME NEW r \in Nat, NEW o \in Nat, NEW b \in Nat, NEW w \in Nat, NEW x \in BOOLEAN,
         NEW s \in Nat, NEW t \in Nat,
         log' = [call |-> [runs |-> r, open |-> o, budget |-> b, waited |-> w, rescued |-> x],
                 streak |-> s, runs |-> t]
  PROVE  Count(r, o, b, w, x, s, t)
  BY DEF Count, Logged

\* How each action changes the histories.
LEMMA Histories ==
  ASSUME Typed
  PROVE  LET r == log.call.runs  o == log.call.open  b == log.call.budget
             w == log.call.waited  x == log.call.rescued  s == log.streak  t == log.runs
         IN /\ StartCall => Count(0, 0, 0, 0, FALSE, s, t)
            /\ EndCall => \/ ret = "nil" /\ ~x /\ Count(r, o, b, w, x, 0, t)
                          \/ (ret # "nil" \/ x) /\ Count(r, o, b, w, x, s + 1, t)
            /\ Run => \/ ~Has(chain, "budget") /\ Count(r + 1, o, b, w, x, s, t)
                      \/ Has(chain, "budget") /\ Count(r + 1, o, b, w, x, s, t + 1)
            /\ BreakerIn => \/ InUnlessDone /\ log' = log
                            \/ GoOut("open") /\ Count(r, o + 1, b, w, x, s, t)
            /\ Exhausted => Count(r, o, b + 1, w, x, s, t)
            /\ RetryWaits => \E d \in Nat : d <= Longest /\ Count(r, o, b, w + d, x, s, t)
            /\ FallbackOut => \/ GoOut(ret) /\ log' = log
                              \/ GoOut("nil") /\ ret # "nil" /\ Count(r, o, b, w, TRUE, s, t)
<1> DEFINE r == log.call.runs  o == log.call.open  b == log.call.budget
           w == log.call.waited  x == log.call.rescued  s == log.streak  t == log.runs
<1>1. /\ log = [call |-> [runs |-> r, open |-> o, budget |-> b, waited |-> w, rescued |-> x],
                streak |-> s, runs |-> t]
      /\ r \in Nat /\ o \in Nat /\ b \in Nat /\ w \in Nat /\ s \in Nat /\ t \in Nat
  BY DEF Typed, Logged
<1>2. x \in BOOLEAN
  BY DEF Typed, Logged
<1>3. ASSUME StartCall PROVE Count(0, 0, 0, 0, FALSE, s, t)
  BY <1>1, <1>3, Counted DEF StartCall, Fresh
<1>4. ASSUME EndCall
      PROVE  \/ ret = "nil" /\ ~x /\ Count(r, o, b, w, x, 0, t)
             \/ (ret # "nil" \/ x) /\ Count(r, o, b, w, x, s + 1, t)
  BY <1>1, <1>2, <1>4, Counted DEF EndCall
<1>5. ASSUME Run
      PROVE  \/ ~Has(chain, "budget") /\ Count(r + 1, o, b, w, x, s, t)
             \/ Has(chain, "budget") /\ Count(r + 1, o, b, w, x, s, t + 1)
  <2> DEFINE n == IF Has(chain, "budget") THEN t + 1 ELSE t
  <2>1. log' = [log EXCEPT !.call.runs = r + 1, !.runs = n]
    BY <1>5 DEF Run
  <2>2. n \in Nat /\ (n = t \/ n = t + 1)
    BY <1>1
  <2>3. /\ Has(chain, "budget") => n = t + 1
        /\ ~Has(chain, "budget") => n = t
    OBVIOUS
  <2> HIDE DEF n
  <2> HIDE DEF r, o, b, w, x, s, t
  <2>4. log' = [call |-> [runs |-> r + 1, open |-> o, budget |-> b, waited |-> w, rescued |-> x],
                streak |-> s, runs |-> n]
    BY <1>1, <2>1
  <2>5. Count(r + 1, o, b, w, x, s, n)
    BY <1>1, <1>2, <2>2, <2>4, Counted, SMTT(30)
  <2> QED BY <2>3, <2>5
<1>6. ASSUME BreakerIn
      PROVE  \/ InUnlessDone /\ log' = log
             \/ GoOut("open") /\ Count(r, o + 1, b, w, x, s, t)
  BY <1>1, <1>2, <1>6, Counted DEF BreakerIn
<1>7. ASSUME Exhausted PROVE Count(r, o, b + 1, w, x, s, t)
  BY <1>1, <1>2, <1>7, Counted DEF Exhausted
<1>8. ASSUME RetryWaits
      PROVE  \E d \in Nat : d <= Longest /\ Count(r, o, b, w + d, x, s, t)
  BY <1>1, <1>2, <1>8, Counted, DelaysBounded DEF RetryWaits, Typed
<1>9. ASSUME FallbackOut
      PROVE  \/ GoOut(ret) /\ log' = log
             \/ GoOut("nil") /\ ret # "nil" /\ Count(r, o, b, w, TRUE, s, t)
  <2>1. CASE ret # "nil" /\ GoOut("nil") /\ log' = [log EXCEPT !.call.rescued = TRUE]
    <3> HIDE DEF r, o, b, w, x, s, t
    <3>1. log' = [call |-> [runs |-> r, open |-> o, budget |-> b, waited |-> w, rescued |-> TRUE],
                  streak |-> s, runs |-> t]
      BY <1>1, <2>1
    <3>2. Count(r, o, b, w, TRUE, s, t)
      BY <1>1, <3>1, Counted
    <3> QED BY <2>1, <3>2
  <2> QED BY <1>9, <2>1 DEF FallbackOut
<1> QED BY <1>3, <1>4, <1>5, <1>6, <1>7, <1>8, <1>9

\* Where the call is, what it carries and which attempt it is have the types of Typed.
LEMMA PositionTyped ==
  ASSUME Typed, [ChainNext]_chainVars
  PROVE  /\ at' \in 0..Operation /\ attempt' \in Nat
         /\ phase' \in {"enter", "back", "backoff"}
         /\ (phase' = "backoff" => at' \in K /\ order[at'] = "retry")
         /\ (at' = Operation => phase' = "enter")
         /\ ret' \in Errors \cup {"nil"}
<1>1. /\ Len(order) \in Nat /\ at \in 0..(Len(order) + 1) /\ attempt \in Nat
      /\ phase \in {"enter", "back", "backoff"}
      /\ phase = "backoff" => at \in 1..Len(order) /\ order[at] = "retry"
      /\ at = Len(order) + 1 => phase = "enter"
      /\ ret \in Errors \cup {"nil"}
  BY DEF Typed, Built, order, Operation, Is, Layer
<1>2. /\ ContextError(at) \in Errors \cup {"nil"} 
      /\ {"open", "budget", "cancelled", "timeout", "refused", "transient", "marked"} \subseteq Errors
  BY DEF ContextError, Errors
<1> HIDE DEF Errors
<1>3. CASE StartCall \/ EndCall \/ CallerCancels \/ DeadlinePasses \/ BreakerRests \/ UNCHANGED chainVars
  BY <1>1, <1>3 DEF StartCall, EndCall, CallerCancels, DeadlinePasses, BreakerRests, chainVars, K, Operation
<1>4. CASE Run
  BY <1>1, <1>2, <1>4 DEF Run, GoOut, K, Operation
<1>5. CASE TimeoutIn \/ GateIn \/ BreakerIn \/ RetryIn \/ FallbackIn
  BY <1>1, <1>2, <1>5 DEF TimeoutIn, GateIn, BreakerIn, RetryIn, FallbackIn, InUnlessDone, GoIn, GoOut, K, Operation, Is
<1>6. CASE TimeoutOut \/ GateOut \/ BreakerOut \/ RetryOut \/ FallbackOut
  BY <1>1, <1>2, <1>6 DEF TimeoutOut, GateOut, BreakerOut, RetryOut, FallbackOut, GoOut, K, Operation, Is
<1>7. CASE BudgetIn \/ BudgetOut
  <2>1. /\ Is("budget") /\ (phase = "enter" \/ phase = "back") /\ attempt' = attempt
        /\ GoOut("budget") \/ GoOut(ret) \/ GoIn
    BY <1>7 DEF BudgetIn, BudgetOut, Exhausted
  <2> QED BY <1>1, <1>2, <2>1 DEF GoIn, GoOut, K, Operation, Is
<1>8. CASE RetryWaits \/ RetryWakes
  BY <1>1, <1>2, <1>8 DEF RetryWaits, RetryWakes, InUnlessDone, GoIn, GoOut, K, Operation, Is, Layer
<1> QED BY <1>3, <1>4, <1>5, <1>6, <1>7, <1>8 DEF ChainNext

\* What a step leaves alone, and the types of what it does not.
LEMMA Frame ==
  ASSUME Typed, [ChainNext]_chainVars
  PROVE  /\ chain' = chain /\ order' = order /\ cfg' = cfg /\ K' = K /\ Operation' = Operation
         /\ Logged'
<1>1. chain' = chain /\ order' = order /\ cfg' = cfg /\ K' = K /\ Operation' = Operation
  BY ChainFixed DEF order, cfg, K, Operation
<1> SUFFICES Logged'
  BY <1>1
<1>2. ASSUME log' = log PROVE Logged'
  BY <1>2 DEF Typed, Logged
<1>3. CASE StartCall \/ EndCall \/ Run \/ BreakerIn \/ RetryWaits \/ FallbackOut
  BY <1>2, <1>3, Histories DEF Count
<1>4. CASE BudgetIn \/ BudgetOut
  <2>1. Exhausted \/ log' = log
    BY <1>4 DEF BudgetIn, BudgetOut
  <2> QED BY <1>2, <2>1, Histories DEF Count
<1>5. CASE UNCHANGED chainVars \/ CallerCancels \/ TimeoutIn \/ DeadlinePasses \/ TimeoutOut \/ GateIn
           \/ GateOut \/ BreakerOut \/ BreakerRests \/ RetryIn \/ RetryOut \/ RetryWakes \/ FallbackIn
  <2>1. log' = log
    BY <1>5 DEF chainVars, CallerCancels, TimeoutIn, DeadlinePasses, TimeoutOut, GateIn, GateOut,
                BreakerOut, BreakerRests, RetryIn, RetryOut, RetryWakes, FallbackIn
  <2> QED BY <1>2, <2>1
<1> QED BY <1>3, <1>4, <1>5 DEF ChainNext

\* What the breaker makes of an outcome.
LEMMA JudgedSound ==
  ASSUME Typed, NEW ok \in BOOLEAN
  PROVE  /\ Judged(ok) \in [state : {"closed", "open", "half-open"}, failures : Nat, successes : Nat]
         /\ Judged(ok).state = "closed" =>
              \/ Judged(ok).failures = 0
              \/ ~ok /\ breaker.state = "closed" /\ Judged(ok).failures = breaker.failures + 1
         /\ breaker.state = "closed" /\ Judged(ok).state = "open" =>
              ~ok /\ breaker.failures + 1 >= chain.trip
<1>1. PICK st \in {"closed", "open", "half-open"}, f \in Nat, u \in Nat :
        breaker = [state |-> st, failures |-> f, successes |-> u]
  BY DEF Typed
<1>2. chain.trip \in Nat \ {0} /\ chain.trials \in Nat \ {0}
  BY DEF Typed, Built
<1> DEFINE b == [state |-> breaker.state,
                 failures |-> IF ok THEN 0 ELSE breaker.failures + 1,
                 successes |-> IF ok THEN breaker.successes + 1 ELSE 0]
<1>3. /\ ok => b = [state |-> st, failures |-> 0, successes |-> u + 1]
      /\ ~ok => b = [state |-> st, failures |-> f + 1, successes |-> 0]
  BY <1>1
<1>4. /\ b \in [state : {"closed", "open", "half-open"}, failures : Nat, successes : Nat]
      /\ b.state = breaker.state /\ (ok => b.failures = 0)
      /\ (~ok => b.failures = breaker.failures + 1)
  BY <1>1, <1>3
<1>5. \/ Judged(ok) = To("open") /\ b.state = "half-open" /\ ~ok
      \/ Judged(ok) = To("closed") /\ b.state = "half-open"
      \/ Judged(ok) = To("open") /\ b.state = "closed" /\ b.failures >= chain.trip
      \/ Judged(ok) = [b EXCEPT !.successes = 0] /\ b.state = "closed"
      \/ Judged(ok) = b /\ b.state # "closed"
  BY DEF Judged
<1> HIDE DEF b
<1>6. ASSUME b.state = "closed", Judged(ok) = [b EXCEPT !.successes = 0]
      PROVE  /\ Judged(ok) \in [state : {"closed", "open", "half-open"}, failures : Nat, successes : Nat]
             /\ Judged(ok).state = "closed" /\ Judged(ok).failures = b.failures
  BY <1>4, <1>6
<1>7. /\ \A s \in {"open", "closed"} :
           /\ To(s) \in [state : {"closed", "open", "half-open"}, failures : Nat, successes : Nat]
           /\ To(s).state = s /\ To(s).failures = 0
  BY DEF To
<1> QED BY <1>2, <1>4, <1>5, <1>6, <1>7

\* What the budget makes of a call: BudgetIn counts it, BudgetOut charges it.
LEMMA BudgetCharged ==
  ASSUME Typed
  PROVE  /\ BudgetIn =>
              /\ Is("budget") /\ phase = "enter" /\ breaker' = breaker /\ attempt' = attempt
              /\ budget' \in [calls : Nat, spent : Nat, breached : BOOLEAN]
              /\ \/ budget'.breached /\ Exhausted /\ budget'.calls >= budget.calls
                 \/ /\ ~budget.breached /\ GoIn /\ log' = log /\ budget'.calls = budget.calls + 1
                    /\ chain.maxCalls > 0 => budget.calls + 1 <= chain.maxCalls
         /\ BudgetOut =>
              /\ Is("budget") /\ phase = "back" /\ breaker' = breaker /\ attempt' = attempt
              /\ budget' \in [calls : Nat, spent : Nat, breached : BOOLEAN]
              /\ budget'.calls = budget.calls
              /\ \/ budget'.breached /\ Exhausted
                 \/ budget'.breached = budget.breached /\ GoOut(ret) /\ log' = log
<1>1. PICK c \in Nat, s \in Nat, f \in BOOLEAN : budget = [calls |-> c, spent |-> s, breached |-> f]
  BY DEF Typed
<1>2. chain.maxCalls \in Nat /\ chain.maxSpend \in Nat
  BY DEF Typed, Built
<1>3. ASSUME BudgetIn
      PROVE  /\ budget' \in [calls : Nat, spent : Nat, breached : BOOLEAN]
             /\ \/ budget'.breached /\ Exhausted /\ budget'.calls >= budget.calls
                \/ /\ ~budget.breached /\ GoIn /\ log' = log /\ budget'.calls = budget.calls + 1
                   /\ chain.maxCalls > 0 => budget.calls + 1 <= chain.maxCalls
  <2>1. CASE budget.breached /\ UNCHANGED budget /\ Exhausted
    BY <1>1, <2>1
  <2>2. CASE budget' = [budget EXCEPT !.calls = @ + 1, !.breached = TRUE] /\ Exhausted
    <3>1. budget' = [calls |-> c + 1, spent |-> s, breached |-> TRUE]
      BY <1>1, <2>2
    <3>2. /\ budget' \in [calls : Nat, spent : Nat, breached : BOOLEAN]
          /\ budget'.breached /\ budget'.calls >= budget.calls
      BY <1>1, <3>1
    <3> QED BY <2>2, <3>2
  <2>3. CASE /\ ~budget.breached /\ (chain.maxCalls > 0 => budget.calls + 1 <= chain.maxCalls)
             /\ budget' = [budget EXCEPT !.calls = @ + 1] /\ GoIn /\ UNCHANGED log
    <3>1. budget' = [calls |-> c + 1, spent |-> s, breached |-> f]
      BY <1>1, <2>3
    <3> QED BY <1>1, <2>3, <3>1
  <2> QED BY <1>3, <2>1, <2>2, <2>3 DEF BudgetIn
<1>4. ASSUME BudgetOut
      PROVE  /\ budget' \in [calls : Nat, spent : Nat, breached : BOOLEAN]
             /\ budget'.calls = budget.calls
             /\ \/ budget'.breached /\ Exhausted
                \/ budget'.breached = budget.breached /\ GoOut(ret) /\ log' = log
  <2> DEFINE P(cost) ==
        \/ budget' = [budget EXCEPT !.spent = @ + cost, !.breached = TRUE] /\ Exhausted
        \/ budget' = [budget EXCEPT !.spent = @ + cost] /\ GoOut(ret) /\ UNCHANGED log
  <2>0. \E cost \in IF chain.maxSpend > 0 THEN 0..1 ELSE {0} : P(cost)
    BY <1>4 DEF BudgetOut
  <2>1. PICK cost \in Nat : P(cost)
    <3> HIDE DEF P
    <3> QED BY <2>0
  <2>2. CASE budget' = [budget EXCEPT !.spent = @ + cost, !.breached = TRUE] /\ Exhausted
    <3>1. budget' = [calls |-> c, spent |-> s + cost, breached |-> TRUE]
      BY <1>1, <2>2
    <3>2. /\ budget' \in [calls : Nat, spent : Nat, breached : BOOLEAN]
          /\ budget'.breached /\ budget'.calls = budget.calls
      BY <1>1, <3>1
    <3> QED BY <2>2, <3>2
  <2>3. CASE budget' = [budget EXCEPT !.spent = @ + cost] /\ GoOut(ret) /\ UNCHANGED log
    <3>1. budget' = [calls |-> c, spent |-> s + cost, breached |-> f]
      BY <1>1, <2>3
    <3> QED BY <1>1, <2>3, <3>1
  <2> QED BY <2>1, <2>2, <2>3
<1>5. /\ BudgetIn => Is("budget") /\ phase = "enter" /\ breaker' = breaker /\ attempt' = attempt
      /\ BudgetOut => Is("budget") /\ phase = "back" /\ breaker' = breaker /\ attempt' = attempt
  BY DEF BudgetIn, BudgetOut
<1> QED BY <1>3, <1>4, <1>5

\* The types are kept.
LEMMA StepTyped ==
  ASSUME Typed, [ChainNext]_chainVars
  PROVE  Typed'
<1>1. Built' /\ Logged' /\ chain' = chain /\ order' = order /\ K' = K /\ Operation' = Operation
  BY Frame DEF Built, Typed
<1>2. /\ at' \in 0..Operation' /\ attempt' \in Nat /\ phase' \in {"enter", "back", "backoff"}
      /\ phase' = "backoff" => Is("retry")'
      /\ at' = Operation' => phase' = "enter"
      /\ ret' \in Errors \cup {"nil"}
  BY <1>1, PositionTyped DEF Is, Layer, K
<1>3. parent' \in BOOLEAN /\ expired' \in BOOLEAN
  BY DEF Typed, ChainNext, chainVars, StartCall, EndCall, CallerCancels, Run, TimeoutIn, DeadlinePasses,
         TimeoutOut, GateIn, GateOut, BreakerIn, BreakerOut, BreakerRests, BudgetIn, BudgetOut,
         RetryIn, RetryOut, RetryWaits, RetryWakes, FallbackIn, FallbackOut
<1>4. breaker' \in [state : {"closed", "open", "half-open"}, failures : Nat, successes : Nat]
  <2>1. CASE BreakerOut
    BY <2>1, JudgedSound DEF BreakerOut
  <2>2. CASE BreakerRests
    BY <2>2 DEF BreakerRests, To
  <2>3. CASE ~BreakerOut /\ ~BreakerRests
    BY <2>3 DEF Typed, ChainNext, chainVars, shared, StartCall, EndCall, CallerCancels, Run, TimeoutIn,
         DeadlinePasses, TimeoutOut, GateIn, GateOut, BreakerIn, BudgetIn, BudgetOut,
         RetryIn, RetryOut, RetryWaits, RetryWakes, FallbackIn, FallbackOut
  <2> QED BY <2>1, <2>2, <2>3
<1>5. budget' \in [calls : Nat, spent : Nat, breached : BOOLEAN]
  <2>1. CASE BudgetIn
    BY <2>1, BudgetCharged
  <2>2. CASE BudgetOut
    BY <2>2, BudgetCharged
  <2>3. CASE ~BudgetIn /\ ~BudgetOut
    BY <2>3 DEF Typed, ChainNext, chainVars, shared, StartCall, EndCall, CallerCancels, Run, TimeoutIn,
         DeadlinePasses, TimeoutOut, GateIn, GateOut, BreakerIn, BreakerOut, BreakerRests,
         RetryIn, RetryOut, RetryWaits, RetryWakes, FallbackIn, FallbackOut
  <2> QED BY <2>1, <2>2, <2>3
<1> QED BY <1>1, <1>2, <1>3, <1>4, <1>5 DEF Typed

\* What the inductive steps below use of a state, and of a step.
LEMMA Facts ==
  ASSUME Typed
  PROVE  /\ Len(order) \in Nat /\ at \in 0..(Len(order) + 1) /\ attempt \in Nat
         /\ phase \in {"enter", "back", "backoff"}
         /\ (phase = "backoff" => at \in K /\ order[at] = "retry")
         /\ (at = Len(order) + 1 => phase = "enter")
         /\ \A i, j \in K : order[i] = order[j] => i = j
         /\ cfg.attempts \in Nat \ {0} /\ Longest \in Nat
         /\ chain.maxCalls \in Nat /\ budget.calls \in Nat
         /\ \A l : Is(l) <=> at \in K /\ order[at] = l
         /\ \A l : Has(chain, l) <=> \E i \in K : order[i] = l
<1>1. /\ \A i, j \in K : order[i] = order[j] => i = j
      /\ cfg.attempts \in Nat \ {0} /\ cfg.max \in Nat
      /\ Len(order) \in Nat /\ chain.maxCalls \in Nat
  BY DEF Typed, Built, order
<1>2. Longest \in Nat
  <2>1. Ceiling \in Nat
    BY <1>1 DEF Ceiling, MaxBackoffDuration
  <2> QED BY <2>1 DEF Longest
<1>3. budget.calls \in Nat
  BY DEF Typed
<1>4. /\ at \in 0..(Len(order) + 1) /\ attempt \in Nat /\ phase \in {"enter", "back", "backoff"}
      /\ (at = Len(order) + 1 => phase = "enter")
  BY DEF Typed, Operation
<1>5. /\ \A l : Is(l) <=> at \in K /\ order[at] = l
      /\ \A l : Has(chain, l) <=> \E i \in K : order[i] = l
  BY DEF Is, Has, Layer, K, order
<1>6. phase = "backoff" => at \in K /\ order[at] = "retry"
  BY <1>5 DEF Typed
<1> QED BY <1>1, <1>2, <1>3, <1>4, <1>5, <1>6

\* The ways through a layer.
Enters(l) == Is(l) /\ phase = "enter" /\ at' = at + 1 /\ phase' = "enter" /\ ret' = ret
TurnsBack(l) == Is(l) /\ phase = "enter" /\ at' = at - 1 /\ phase' = "back" /\ ret' # "nil"
Leaves(l) == Is(l) /\ phase = "back" /\ at' = at - 1 /\ phase' = "back"
Keeps == attempt' = attempt /\ breaker' = breaker /\ budget' = budget
Still ==
  /\ at' = at /\ phase' = phase /\ ret' = ret /\ attempt' = attempt /\ budget' = budget /\ log' = log
  /\ breaker' = breaker \/ (breaker.state = "open" /\ breaker' = To("half-open"))

\* The steps that are not a layer's.
LEMMA Outside ==
  ASSUME Typed
  PROVE  /\ CallerCancels \/ DeadlinePasses \/ BreakerRests \/ UNCHANGED chainVars => Still
         /\ StartCall => /\ at = 0 /\ phase = "enter" /\ at' = 1 /\ phase' = "enter" /\ ret' = ret
                         /\ Keeps
         /\ EndCall => at = 0 /\ phase = "back" /\ at' = 0 /\ phase' = "enter" /\ ret' = ret /\ Keeps
         /\ Run => at = Operation /\ at' = at - 1 /\ phase' = "back" /\ Keeps
<1>1. CallerCancels \/ DeadlinePasses \/ BreakerRests \/ UNCHANGED chainVars => Still
  BY DEF CallerCancels, DeadlinePasses, BreakerRests, chainVars, shared, Still
<1>2. StartCall \/ EndCall =>
        at = 0 /\ phase' = "enter" /\ ret' = ret /\ Keeps
  BY DEF StartCall, EndCall, Keeps, shared
<1>3. /\ StartCall => phase = "enter" /\ at' = 1
      /\ EndCall => phase = "back" /\ at' = at
  BY DEF StartCall, EndCall
<1>4. Run => at = Operation /\ at' = at - 1 /\ phase' = "back" /\ Keeps
  BY DEF Run, GoOut, Keeps, shared
<1> QED BY <1>1, <1>2, <1>3, <1>4

\* The steps of the layers that neither retry nor count.
LEMMA Through ==
  ASSUME Typed
  PROVE  /\ TimeoutIn \/ GateIn \/ FallbackIn =>
              /\ Keeps /\ log' = log
              /\ \E l \in {"timeout", "gate", "fallback"} : Enters(l) \/ TurnsBack(l)
         /\ BreakerIn =>
              /\ Keeps
              /\ \/ log' = log /\ (Enters("breaker") \/ TurnsBack("breaker"))
                 \/ TurnsBack("breaker") /\ ret' = "open" /\ breaker.state = "open"
         /\ TimeoutOut => Keeps /\ log' = log /\ Leaves("timeout") /\ ret' \in {ret, "cancelled", "timeout"}
         /\ GateOut => Keeps /\ log' = log /\ Leaves("gate") /\ ret' = ret
         /\ FallbackOut => /\ Keeps /\ Leaves("fallback")
                           /\ (ret' = ret /\ log' = log) \/ (ret' = "nil" /\ ret # "nil")
         /\ BreakerOut => /\ Leaves("breaker") /\ ret' = ret /\ breaker' = Judged(ret = "nil")
                          /\ attempt' = attempt /\ budget' = budget /\ log' = log
<1>1. ContextError(at) \in {"nil", "cancelled", "deadline"}
  BY DEF ContextError
<1>2. TimeoutIn \/ GateIn \/ FallbackIn =>
        /\ Keeps /\ log' = log
        /\ \E l \in {"timeout", "gate", "fallback"} : Enters(l) \/ TurnsBack(l)
  BY <1>1 DEF TimeoutIn, GateIn, FallbackIn, InUnlessDone, GoIn, GoOut, Keeps, shared, Enters, TurnsBack
<1>3. BreakerIn => Keeps /\ Is("breaker") /\ phase = "enter"
  BY DEF BreakerIn, Keeps, shared
<1>4. BreakerIn => \/ log' = log /\ InUnlessDone
                   \/ GoOut("open") /\ breaker.state = "open" /\ log' = [log EXCEPT !.call.open = @ + 1]
  BY DEF BreakerIn
<1>5. BreakerIn => \/ log' = log /\ (Enters("breaker") \/ TurnsBack("breaker"))
                   \/ TurnsBack("breaker") /\ ret' = "open" /\ breaker.state = "open"
  BY <1>1, <1>3, <1>4 DEF InUnlessDone, GoIn, GoOut, Enters, TurnsBack
<1>6. TimeoutOut => Keeps /\ log' = log /\ Leaves("timeout") /\ ret' \in {ret, "cancelled", "timeout"}
  BY DEF TimeoutOut, GoOut, Keeps, shared, Leaves
<1>7. GateOut => Keeps /\ log' = log /\ Leaves("gate") /\ ret' = ret
  BY DEF GateOut, GoOut, Keeps, shared, Leaves
<1>8. FallbackOut => /\ Keeps /\ Leaves("fallback")
                     /\ (ret' = ret /\ log' = log) \/ (ret' = "nil" /\ ret # "nil")
  BY DEF FallbackOut, GoOut, Keeps, shared, Leaves
<1>9. BreakerOut => /\ Leaves("breaker") /\ ret' = ret /\ breaker' = Judged(ret = "nil")
                    /\ attempt' = attempt /\ budget' = budget /\ log' = log
  BY DEF BreakerOut, GoOut, Leaves
<1> QED BY <1>2, <1>3, <1>5, <1>6, <1>7, <1>8, <1>9

\* The steps of retry.
LEMMA Retrying ==
  ASSUME Typed
  PROVE  /\ RetryIn => /\ Enters("retry") \/ TurnsBack("retry")
                       /\ attempt' = 1 /\ breaker' = breaker /\ budget' = budget /\ log' = log
         /\ RetryOut => Keeps /\ log' = log /\ Leaves("retry") /\ ret' = ret
         /\ RetryWaits => /\ Keeps /\ Is("retry") /\ phase = "back" /\ phase' = "backoff"
                          /\ at' = at /\ ret' = ret /\ ret # "nil" /\ isRetryable(ret)
                          /\ attempt < cfg.attempts
         /\ RetryWakes => /\ phase = "backoff" /\ breaker' = breaker /\ budget' = budget /\ log' = log
                          /\ \/ attempt' = attempt + 1 /\ at' = at + 1 /\ phase' = "enter" /\ ret' = ret
                             \/ /\ attempt' \in {attempt, attempt + 1}
                                /\ at' = at - 1 /\ phase' = "back" /\ ret' # "nil"
<1>1. RetryIn => /\ Enters("retry") \/ TurnsBack("retry")
                 /\ attempt' = 1 /\ breaker' = breaker /\ budget' = budget /\ log' = log
  BY DEF RetryIn, InUnlessDone, GoIn, GoOut, shared, Enters, TurnsBack
<1>2. RetryOut => Keeps /\ log' = log /\ Leaves("retry") /\ ret' = ret
  BY DEF RetryOut, GoOut, Keeps, shared, Leaves
<1>3. RetryWaits => /\ Keeps /\ Is("retry") /\ phase = "back" /\ phase' = "backoff"
                    /\ at' = at /\ ret' = ret /\ ret # "nil" /\ isRetryable(ret)
                    /\ attempt < cfg.attempts
  BY DEF RetryWaits, Keeps, shared
<1>4. RetryWakes => /\ phase = "backoff" /\ breaker' = breaker /\ budget' = budget /\ log' = log
                    /\ \/ attempt' = attempt + 1 /\ at' = at + 1 /\ phase' = "enter" /\ ret' = ret
                       \/ /\ attempt' \in {attempt, attempt + 1}
                          /\ at' = at - 1 /\ phase' = "back" /\ ret' # "nil"
  BY DEF RetryWakes, InUnlessDone, GoIn, GoOut, shared
<1> QED BY <1>1, <1>2, <1>3, <1>4

-----------------------------------------------------------------------------
(* What a call can cost.                                                    *)

\* The time of n waits.
Cost(n) == n * Longest

\* Without retry: one run, going out.
PaidOnce ==
  /\ log.call.waited = 0 /\ log.call.runs <= 1
  /\ at > 0 /\ phase = "enter" => log.call.runs = 0

\* With retry at r: going in, the operation has run in every earlier attempt; going out, in
\* this one too.  A call has waited once between two attempts, and is about to make the next
\* one while it waits.
PaidUnder(r) ==
  /\ log.call.runs <= cfg.attempts /\ log.call.waited <= Cost(cfg.attempts - 1)
  /\ at \in 1..r /\ phase = "enter" => log.call.runs = 0 /\ log.call.waited = 0
  /\ at > r \/ (at = r /\ phase # "enter") =>
       /\ attempt \in 1..cfg.attempts
       /\ phase = "enter" => log.call.runs <= attempt - 1
       /\ phase # "enter" => log.call.runs <= attempt
       /\ phase # "backoff" => log.call.waited <= Cost(attempt - 1)
       /\ phase = "backoff" => attempt < cfg.attempts /\ log.call.waited <= Cost(attempt)

CallPaid ==
  /\ ~Has(chain, "retry") => PaidOnce
  /\ \A r \in K : order[r] = "retry" => PaidUnder(r)

\* A layer that does not retry, on the way in or out, as far as the costs go.
Crosses ==
  /\ at \in K /\ order[at] # "retry" /\ attempt' = attempt
  /\ log'.call.runs = log.call.runs /\ log'.call.waited = log.call.waited
  /\ \/ phase = "enter" /\ at' = at + 1 /\ phase' = "enter"
     \/ phase \in {"enter", "back"} /\ at' = at - 1 /\ phase' = "back"

\* The other steps, as far as the costs go; AtRetry: at the retry layer.
Costless == log'.call.runs = log.call.runs /\ log'.call.waited = log.call.waited
Outward == at' = at - 1 /\ phase' = "back"
Inward == at' = at + 1 /\ phase' = "enter"
AtRetry(ph) == at \in K /\ order[at] = "retry" /\ phase = ph
Rests == Costless /\ at' = at /\ phase' = phase /\ attempt' = attempt
Begins == at' = 1 /\ phase' = "enter" /\ log'.call.runs = 0 /\ log'.call.waited = 0
Ends == Costless /\ at' = 0 /\ phase' = "enter"
Works ==
  /\ at = Len(order) + 1 /\ phase = "enter" /\ Outward /\ attempt' = attempt
  /\ log'.call.runs = log.call.runs + 1 /\ log'.call.waited = log.call.waited
FirstTry == Costless /\ AtRetry("enter") /\ attempt' = 1 /\ (Inward \/ Outward)
GivesUp == Costless /\ AtRetry("back") /\ Outward
Waits ==
  /\ AtRetry("back") /\ at' = at /\ phase' = "backoff"
  /\ attempt' = attempt /\ attempt < cfg.attempts /\ log'.call.runs = log.call.runs
  /\ \E d \in Nat : d <= Longest /\ log'.call.waited = log.call.waited + d
NextTry == Costless /\ AtRetry("backoff") /\ (Outward \/ (Inward /\ attempt' = attempt + 1))

\* Every other layer crosses.
LEMMA Crossing ==
  ASSUME Typed, \/ TimeoutIn \/ TimeoutOut \/ GateIn \/ GateOut \/ BreakerIn \/ BreakerOut
                \/ BudgetIn \/ BudgetOut \/ FallbackIn \/ FallbackOut
  PROVE  Crosses
<1>1. \A l : Is(l) <=> at \in K /\ order[at] = l
  BY Facts
<1>2. CASE TimeoutIn \/ GateIn \/ FallbackIn
  BY <1>1, <1>2, Through DEF Crosses, Enters, TurnsBack, Keeps
<1>3. CASE TimeoutOut \/ GateOut \/ BreakerOut
  BY <1>1, <1>3, Through DEF Crosses, Leaves, Keeps
<1>4. CASE BreakerIn
  <2>1. log' = log \/ (log'.call.runs = log.call.runs /\ log'.call.waited = log.call.waited)
    BY <1>4, Histories DEF Count
  <2> QED BY <1>1, <1>4, <2>1, Through DEF Crosses, Enters, TurnsBack, Keeps
<1>5. CASE FallbackOut
  <2>1. log' = log \/ (log'.call.runs = log.call.runs /\ log'.call.waited = log.call.waited)
    BY <1>5, Histories DEF Count
  <2> QED BY <1>1, <1>5, <2>1, Through DEF Crosses, Leaves, Keeps
<1>6. CASE BudgetIn \/ BudgetOut
  <2>1. Exhausted => log'.call.runs = log.call.runs /\ log'.call.waited = log.call.waited
    BY Histories DEF Count
  <2>2. Exhausted => GoOut("budget")
    BY DEF Exhausted
  <2>3. /\ Is("budget") /\ attempt' = attempt
        /\ \/ phase = "enter" /\ (Exhausted \/ (GoIn /\ log' = log))
           \/ phase = "back" /\ (Exhausted \/ (GoOut(ret) /\ log' = log))
    BY <1>6, BudgetCharged
  <2> QED BY <1>1, <2>1, <2>2, <2>3 DEF Crosses, GoIn, GoOut
<1> QED BY <1>2, <1>3, <1>4, <1>5, <1>6

\* More waits take longer, and one more takes one wait longer.
LEMMA Costs ==
  ASSUME Typed
  PROVE  /\ \A n \in Nat : Cost(n) \in Nat /\ Cost(n + 1) = Cost(n) + Longest
         /\ \A n, m \in Nat : n <= m => Cost(n) <= Cost(m)
         /\ Cost(0) = 0
<1>1. Longest \in Nat
  BY Facts
<1>2. \A x \in Nat : /\ \A n \in Nat : n * x \in Nat /\ (n + 1) * x = n * x + x
                     /\ \A n, m \in Nat : n <= m => n * x <= m * x
                     /\ 0 * x = 0
  OBVIOUS
<1> QED BY <1>1, <1>2 DEF Cost

\* The steps as far as the costs go.
LEMMA CostMoves ==
  ASSUME Typed, [ChainNext]_chainVars
  PROVE  \/ Rests \/ Begins \/ Ends \/ Works \/ Crosses \/ FirstTry \/ GivesUp \/ Waits \/ NextTry
<1> USE DEF Costless, Outward, Inward, AtRetry
<1>1. CASE Still
  BY <1>1 DEF Still, Rests
<1>2. CASE StartCall
  BY <1>2, Outside, Histories DEF Count, Begins
<1>3. CASE EndCall
  <2>1. log'.call.runs = log.call.runs /\ log'.call.waited = log.call.waited
    BY <1>3, Histories DEF Count
  <2> QED BY <1>3, <2>1, Outside DEF Ends
<1>4. CASE Run
  <2>1. log'.call.runs = log.call.runs + 1 /\ log'.call.waited = log.call.waited
    BY <1>4, Histories DEF Count
  <2> QED BY <1>4, <2>1, Outside, Facts DEF Operation, Keeps, Works
<1>5. CASE \/ TimeoutIn \/ TimeoutOut \/ GateIn \/ GateOut \/ BreakerIn \/ BreakerOut
           \/ BudgetIn \/ BudgetOut \/ FallbackIn \/ FallbackOut
  BY <1>5, Crossing
<1>6. CASE RetryIn
  BY <1>6, Retrying, Facts DEF Enters, TurnsBack, FirstTry
<1>7. CASE RetryOut
  BY <1>7, Retrying, Facts DEF Leaves, GivesUp
<1>8. CASE RetryWaits
  <2>1. /\ at \in K /\ order[at] = "retry" /\ phase = "back" /\ at' = at /\ phase' = "backoff"
        /\ attempt' = attempt /\ attempt < cfg.attempts /\ log'.call.runs = log.call.runs
    BY <1>8, Retrying, Facts, Histories DEF Keeps, Count
  <2>2. \E d \in Nat : d <= Longest /\ log'.call.waited = log.call.waited + d
    BY <1>8, Histories DEF Count
  <2> QED BY <2>1, <2>2 DEF Waits
<1>9. CASE RetryWakes
  <2>1. /\ log' = log /\ phase = "backoff"
        /\ \/ attempt' = attempt + 1 /\ at' = at + 1 /\ phase' = "enter"
           \/ at' = at - 1 /\ phase' = "back"
    BY <1>9, Retrying
  <2>2. at \in K /\ order[at] = "retry"
    BY <2>1, Facts
  <2> QED BY <2>1, <2>2 DEF NextTry
<1> QED BY <1>1, <1>2, <1>3, <1>4, <1>5, <1>6, <1>7, <1>8, <1>9, Outside DEF ChainNext

\* The cost of a call is kept track of.
LEMMA StepPaid ==
  ASSUME Typed, CallPaid, [ChainNext]_chainVars
  PROVE  CallPaid'
<1>1. /\ order' = order /\ cfg' = cfg /\ K' = K /\ (Has(chain, "retry")' <=> Has(chain, "retry"))
      /\ \A n : Cost(n)' = Cost(n)
  BY Frame DEF Longest, Ceiling, Cost, Has
<1>2. log.call.runs \in Nat /\ log.call.waited \in Nat /\ log'.call.runs \in Nat
  BY Frame DEF Typed, Logged
<1>3. ASSUME ~Has(chain, "retry") PROVE PaidOnce'
  <2>1. \A i \in K : order[i] # "retry"
    BY <1>3, Facts
  <2>2. PaidOnce
    BY <1>3 DEF CallPaid
  <2>3. Len(order) \in Nat /\ at \in 0..(Len(order) + 1)
    BY Facts
  <2>4. CASE Rests \/ Begins \/ Ends
    BY <2>2, <2>4 DEF PaidOnce, Rests, Begins, Ends, Costless
  <2>5. CASE Works \/ Crosses
    BY <1>2, <2>2, <2>3, <2>5 DEF PaidOnce, Works, Crosses, Outward, K
  <2>6. CASE FirstTry \/ GivesUp \/ Waits \/ NextTry
    BY <2>1, <2>6 DEF FirstTry, GivesUp, Waits, NextTry, AtRetry
  <2> QED BY <2>4, <2>5, <2>6, CostMoves
<1>4. ASSUME NEW r \in K, order[r] = "retry" PROVE PaidUnder(r)'
  <2>1. \A i \in K : order[i] = "retry" <=> i = r
    BY <1>4, Facts
  <2>2. PaidUnder(r)
    BY <1>4 DEF CallPaid
  <2>3. /\ r \in 1..Len(order) /\ Len(order) \in Nat /\ at \in 0..(Len(order) + 1)
        /\ cfg.attempts \in Nat \ {0} /\ attempt \in Nat /\ phase \in {"enter", "back", "backoff"}
        /\ (phase = "backoff" => at = r)
    BY <2>1, Facts DEF K
  <2>4. Cost(0) = 0 /\ Cost(cfg.attempts - 1) \in Nat
    <3>1. cfg.attempts - 1 \in Nat
      BY <2>3
    <3> QED BY <3>1, Costs, Zenon
  <2> DEFINE Goal == /\ log'.call.runs <= cfg.attempts /\ log'.call.waited <= Cost(cfg.attempts - 1)
                     /\ at' \in 1..r /\ phase' = "enter" => log'.call.runs = 0 /\ log'.call.waited = 0
                     /\ at' > r \/ (at' = r /\ phase' # "enter") =>
                          /\ attempt' \in 1..cfg.attempts
                          /\ phase' = "enter" => log'.call.runs <= attempt' - 1
                          /\ phase' # "enter" => log'.call.runs <= attempt'
                          /\ phase' # "backoff" => log'.call.waited <= Cost(attempt' - 1)
                          /\ phase' = "backoff" =>
                               attempt' < cfg.attempts /\ log'.call.waited <= Cost(attempt')
  <2>5. SUFFICES Goal
    BY <1>1 DEF PaidUnder
  <2>6. CASE Rests \/ Begins \/ Ends
    BY <2>2, <2>3, <2>4, <2>6 DEF PaidUnder, Rests, Begins, Ends, Costless
  <2>7. CASE Works
    BY <1>2, <2>2, <2>3, <2>4, <2>7 DEF PaidUnder, Works, Outward
  <2>8. CASE Crosses
    BY <1>2, <2>1, <2>2, <2>3, <2>4, <2>8 DEF PaidUnder, Crosses, K
  <2>9. CASE FirstTry
    BY <1>2, <2>1, <2>2, <2>3, <2>4, <2>9 DEF PaidUnder, FirstTry, AtRetry, Costless, Inward, Outward
  <2>10. CASE GivesUp
    BY <1>2, <2>1, <2>2, <2>3, <2>4, <2>10 DEF PaidUnder, GivesUp, AtRetry, Costless, Outward
  <2>11. CASE Waits
    <3>1. /\ at = r /\ attempt \in 1..cfg.attempts /\ attempt < cfg.attempts
          /\ log.call.waited <= Cost(attempt - 1) /\ log.call.runs <= attempt
          /\ at' = r /\ phase' = "backoff" /\ attempt' = attempt /\ log'.call.runs = log.call.runs
      BY <2>1, <2>2, <2>3, <2>11 DEF PaidUnder, Waits, AtRetry
    <3>2. PICK d \in Nat : d <= Longest /\ log'.call.waited = log.call.waited + d
      BY <2>11 DEF Waits
    <3>3. /\ Cost((attempt - 1) + 1) = Cost(attempt - 1) + Longest
          /\ Cost(attempt) <= Cost(cfg.attempts - 1) /\ Cost(attempt - 1) \in Nat /\ Cost(attempt) \in Nat
      <4>1. attempt - 1 \in Nat /\ cfg.attempts - 1 \in Nat /\ attempt <= cfg.attempts - 1
        BY <2>3, <3>1
      <4> QED BY <2>3, <4>1, Costs, Zenon
    <3>4. (attempt - 1) + 1 = attempt
      BY <2>3
    <3>5. log'.call.waited <= Cost(attempt)
      BY <1>2, <3>1, <3>2, <3>3, <3>4, Facts, SMTT(30)
    <3>6. log'.call.waited \in Nat /\ log'.call.waited <= Cost(cfg.attempts - 1)
      BY <1>2, <2>4, <3>2, <3>3, <3>5
    <3> QED BY <1>2, <2>3, <3>1, <3>5, <3>6
  <2>12. CASE NextTry
    <3>1. (attempt + 1) - 1 = attempt
      BY <2>3
    <3> QED
      BY <1>2, <2>1, <2>2, <2>3, <2>4, <2>12, <3>1, SMTT(30)
        DEF PaidUnder, NextTry, AtRetry, Costless, Inward, Outward
  <2> QED BY <2>6, <2>7, <2>8, <2>9, <2>10, <2>11, <2>12, CostMoves
<1> QED BY <1>1, <1>3, <1>4 DEF CallPaid

\* The first call has cost nothing.
LEMMA InitPaid ==
  ASSUME ChainInit
  PROVE  CallPaid
<1>1. Typed
  BY InitTyped
<1>2. at = 0 /\ phase = "enter" /\ log.call.runs = 0 /\ log.call.waited = 0
  BY DEF ChainInit, Fresh
<1>3. cfg.attempts \in Nat \ {0} /\ cfg.attempts - 1 \in Nat
  BY <1>1, Facts
<1>4. Cost(cfg.attempts - 1) \in Nat
  BY <1>1, <1>3, Costs, Zenon
<1> QED BY <1>2, <1>3, <1>4 DEF CallPaid, PaidOnce, PaidUnder, K

\* The runs that n calls may make.
Grant(n) == n * cfg.attempts

\* The call is inside the layer at p.
Within(p) == at > p \/ (at = p /\ phase = "back")

\* The budget at p has counted a call before it runs; outside retry, once for all its
\* attempts.
CountedInside(p) ==
  /\ log.runs <= budget.calls /\ log.runs <= chain.maxCalls
  /\ at > p /\ phase = "enter" => log.runs <= budget.calls - 1
CountedOutside(p) ==
  /\ log.runs <= Grant(chain.maxCalls)
  /\ Within(p) => log.runs <= Grant(budget.calls - 1) + log.call.runs
  /\ ~Within(p) => log.runs <= Grant(budget.calls)
BudgetPaid ==
  \A p \in K : order[p] = "budget" /\ chain.maxCalls > 0 =>
    /\ Within(p) => budget.calls \in 1..chain.maxCalls
    /\ (\A r \in K : order[r] = "retry" => r < p) => CountedInside(p)
    /\ \A r \in K : order[r] = "retry" /\ p < r => CountedOutside(p)

\* The steps as far as a budget at p goes.
Free(p) ==
  /\ budget' = budget /\ log'.runs = log.runs /\ log'.call.runs = log.call.runs
  /\ \/ at' = at /\ phase' = phase
     \/ at = 0 /\ at' = 0 /\ phase' = "enter"
     \/ at \in K /\ at # p /\ at' = at + 1 /\ phase' = "enter" /\ phase = "enter"
     \/ at \in K /\ at # p /\ at' = at - 1 /\ phase' = "back"
     \/ at # p /\ AtRetry("back") /\ at' = at /\ phase' = "backoff"
     \/ at # p /\ AtRetry("backoff") /\ at' = at + 1 /\ phase' = "enter"
Anew ==
  /\ budget' = budget /\ log'.runs = log.runs /\ log'.call.runs = 0
  /\ at = 0 /\ at' = 1 /\ phase' = "enter"
Spends ==
  /\ budget' = budget /\ log'.runs = log.runs + 1 /\ log'.call.runs = log.call.runs + 1
  /\ at = Len(order) + 1 /\ phase = "enter" /\ at' = at - 1 /\ phase' = "back"
Granted(p) ==
  /\ log' = log /\ at = p /\ phase = "enter" /\ at' = p + 1 /\ phase' = "enter"
  /\ budget'.calls = budget.calls + 1
  /\ chain.maxCalls > 0 => budget.calls + 1 <= chain.maxCalls
Refused(p) ==
  /\ log'.runs = log.runs /\ log'.call.runs = log.call.runs
  /\ at = p /\ at' = p - 1 /\ phase' = "back" /\ budget'.calls \in Nat
  /\ phase = "enter" => budget'.calls >= budget.calls
  /\ phase # "enter" => phase = "back" /\ budget'.calls = budget.calls

\* These are all the steps.
LEMMA BudgetMoves ==
  ASSUME Typed, [ChainNext]_chainVars, NEW p \in K, order[p] = "budget"
  PROVE  Free(p) \/ Anew \/ Spends \/ Granted(p) \/ Refused(p)
<1>1. /\ \A l : Is(l) <=> at \in K /\ order[at] = l
      /\ Has(chain, "budget")
      /\ \A l : l # "budget" /\ Is(l) => at \in K /\ at # p
      /\ Is("budget") => at = p
  BY Facts
<1>2. CASE Still
  BY <1>2 DEF Still, Free
<1>3. CASE StartCall
  BY <1>3, Outside, Histories DEF Count, Anew, Keeps
<1>4. CASE EndCall
  <2>1. log'.runs = log.runs /\ log'.call.runs = log.call.runs
    BY <1>4, Histories DEF Count
  <2> QED BY <1>4, <2>1, Outside DEF Free, Keeps
<1>5. CASE Run
  <2>1. log'.runs = log.runs + 1 /\ log'.call.runs = log.call.runs + 1
    BY <1>1, <1>5, Histories DEF Count
  <2> QED BY <1>5, <2>1, Outside, Facts DEF Spends, Keeps, Operation
<1>6. CASE \/ TimeoutIn \/ TimeoutOut \/ GateIn \/ GateOut \/ BreakerIn \/ BreakerOut
           \/ FallbackIn \/ FallbackOut
  <2>1. at \in K /\ at # p /\ budget' = budget
    BY <1>1, <1>6, Through DEF Keeps, Enters, TurnsBack, Leaves
  <2>2. log' = log \/ log'.runs = log.runs
    BY <1>6, Histories, Through DEF Count, Keeps
  <2>3. Crosses
    BY <1>6, Crossing
  <2> QED BY <2>1, <2>2, <2>3 DEF Free, Crosses
<1>7. CASE BudgetIn \/ BudgetOut
  <2>1. Exhausted => log'.runs = log.runs /\ log'.call.runs = log.call.runs
    BY Histories DEF Count
  <2>2. Exhausted => GoOut("budget")
    BY DEF Exhausted
  <2>3. at = p /\ budget'.calls \in Nat /\ budget.calls \in Nat
    BY <1>1, <1>7, BudgetCharged DEF Typed
  <2>4. CASE BudgetIn
    BY <2>1, <2>2, <2>3, <2>4, BudgetCharged DEF Granted, Refused, GoIn, GoOut
  <2>5. CASE BudgetOut
    BY <2>1, <2>2, <2>3, <2>5, BudgetCharged DEF Refused, GoOut
  <2> QED BY <1>7, <2>4, <2>5
<1>8. CASE RetryIn \/ RetryOut
  BY <1>1, <1>8, Retrying DEF Free, Enters, TurnsBack, Leaves, Keeps
<1>9. CASE RetryWaits
  <2>1. log'.runs = log.runs /\ log'.call.runs = log.call.runs
    BY <1>9, Histories DEF Count
  <2> QED BY <1>1, <1>9, <2>1, Retrying DEF Free, Keeps, AtRetry
<1>10. CASE RetryWakes
  <2>1. phase = "backoff" /\ at \in K /\ order[at] = "retry" /\ at # p
    BY <1>1, <1>10, Retrying, Facts
  <2> QED BY <1>10, <2>1, Retrying DEF Free, AtRetry
<1> QED BY <1>2, <1>3, <1>4, <1>5, <1>6, <1>7, <1>8, <1>9, <1>10, Outside DEF ChainNext

\* More calls may make more runs, and one more as many as a call has attempts.
LEMMA Grants ==
  ASSUME Typed
  PROVE  /\ \A n \in Nat : Grant(n) \in Nat /\ Grant(n + 1) = Grant(n) + cfg.attempts
         /\ \A n, m \in Nat : n <= m => Grant(n) <= Grant(m)
<1>1. cfg.attempts \in Nat
  BY Facts
<1>2. \A x \in Nat : /\ \A n \in Nat : n * x \in Nat /\ (n + 1) * x = n * x + x
                     /\ \A n, m \in Nat : n <= m => n * x <= m * x
  OBVIOUS
<1> QED BY <1>1, <1>2 DEF Grant

\* The budget is charged before anything runs.
LEMMA StepCharged ==
  ASSUME Typed, Typed', CallPaid, CallPaid', BudgetPaid, [ChainNext]_chainVars
  PROVE  BudgetPaid'
<1>1. order' = order /\ cfg' = cfg /\ K' = K /\ chain' = chain /\ \A n : Grant(n)' = Grant(n)
  BY Frame DEF Grant
<1>2. SUFFICES ASSUME NEW p \in K, order[p] = "budget", chain.maxCalls > 0
      PROVE  /\ Within(p)' => budget'.calls \in 1..chain.maxCalls
             /\ (\A r \in K : order[r] = "retry" => r < p) => CountedInside(p)'
             /\ \A r \in K : order[r] = "retry" /\ p < r => CountedOutside(p)'
  BY <1>1 DEF BudgetPaid
<1>3. /\ p \in 1..Len(order) /\ Len(order) \in Nat /\ at \in 0..(Len(order) + 1)
      /\ phase \in {"enter", "back", "backoff"} /\ budget.calls \in Nat /\ budget'.calls \in Nat
      /\ chain.maxCalls \in Nat /\ log.runs \in Nat /\ log.call.runs \in Nat /\ log'.call.runs \in Nat
  BY <1>2, Facts DEF K, Typed, Logged
<1>4. /\ Within(p) => budget.calls \in 1..chain.maxCalls
  BY <1>2 DEF BudgetPaid
<1>5. Free(p) \/ Anew \/ Spends \/ Granted(p) \/ Refused(p)
  BY <1>2, BudgetMoves
<1>6. Within(p)' <=> at' > p \/ (at' = p /\ phase' = "back")
  BY DEF Within
<1>7. /\ Free(p) => (Within(p)' <=> Within(p)) /\ budget' = budget
      /\ Anew => ~Within(p) /\ ~Within(p)' /\ budget' = budget
      /\ Spends => Within(p) /\ Within(p)' /\ budget' = budget
      /\ Granted(p) => ~Within(p) /\ Within(p)' /\ budget'.calls \in 1..chain.maxCalls
      /\ Refused(p) => ~Within(p)'
  BY <1>2, <1>3, <1>6 DEF Free, Anew, Spends, Granted, Refused, Within, AtRetry
<1>8. Within(p)' => budget'.calls \in 1..chain.maxCalls
  BY <1>4, <1>5, <1>7
<1>9. ASSUME \A r \in K : order[r] = "retry" => r < p
      PROVE  CountedInside(p)'
  <2>1. CountedInside(p)
    BY <1>2, <1>9 DEF BudgetPaid
  <2>2. AtRetry("backoff") \/ AtRetry("back") => at < p
    BY <1>9 DEF AtRetry
  <2>3. SUFFICES /\ log'.runs <= budget'.calls /\ log'.runs <= chain.maxCalls
                 /\ at' > p /\ phase' = "enter" => log'.runs <= budget'.calls - 1
    BY <1>1 DEF CountedInside
  <2>4. CASE Free(p)
    BY <1>3, <2>1, <2>2, <2>4 DEF CountedInside, Free
  <2>5. CASE Anew
    BY <1>3, <2>1, <2>5 DEF CountedInside, Anew
  <2>6. CASE Spends
    <3>1. log.runs <= budget.calls - 1 /\ budget.calls <= chain.maxCalls
      BY <1>3, <1>4, <1>7, <2>1, <2>6 DEF CountedInside, Spends
    <3> QED BY <1>3, <2>6, <3>1 DEF Spends
  <2>7. CASE Granted(p)
    BY <1>2, <1>3, <2>1, <2>7 DEF CountedInside, Granted
  <2>8. CASE Refused(p)
    BY <1>3, <2>1, <2>8 DEF CountedInside, Refused
  <2> QED BY <1>5, <2>4, <2>5, <2>6, <2>7, <2>8
<1>10. ASSUME NEW r \in K, order[r] = "retry", p < r
       PROVE  CountedOutside(p)'
  <2>1. CountedOutside(p)
    BY <1>2, <1>10 DEF BudgetPaid
  <2>2. /\ log'.call.runs <= cfg.attempts /\ log.call.runs <= cfg.attempts
        /\ at = p /\ phase = "enter" => log.call.runs = 0
    <3>1. PaidUnder(r) /\ PaidUnder(r)'
      BY <1>1, <1>10 DEF CallPaid
    <3> QED BY <1>1, <1>2, <1>3, <1>10, <3>1 DEF PaidUnder
  <2>3. /\ Grant(budget.calls) \in Nat /\ Grant(budget'.calls) \in Nat /\ Grant(chain.maxCalls) \in Nat
        /\ budget'.calls >= budget.calls => Grant(budget.calls) <= Grant(budget'.calls)
        /\ cfg.attempts \in Nat
    BY <1>3, Grants, Facts
  <2>4. Within(p) => /\ Grant(budget.calls) = Grant(budget.calls - 1) + cfg.attempts
                     /\ Grant(budget.calls) <= Grant(chain.maxCalls)
                     /\ Grant(budget.calls - 1) \in Nat
    <3>1. Within(p) => budget.calls - 1 \in Nat /\ (budget.calls - 1) + 1 = budget.calls
                       /\ budget.calls <= chain.maxCalls
      BY <1>3, <1>4
    <3>2. \A n, m : n \in Nat /\ m = n + 1 => Grant(m) = Grant(n) + cfg.attempts
      BY Grants
    <3> QED BY <1>3, <3>1, <3>2, Grants
  <2>5. SUFFICES /\ log'.runs <= Grant(chain.maxCalls)
                 /\ Within(p)' => log'.runs <= Grant(budget'.calls - 1) + log'.call.runs
                 /\ ~Within(p)' => log'.runs <= Grant(budget'.calls)
    BY <1>1 DEF CountedOutside
  <2>6. CASE Free(p)
    BY <1>3, <1>7, <2>1, <2>6 DEF CountedOutside, Free
  <2>7. CASE Anew
    BY <1>3, <1>7, <2>1, <2>7 DEF CountedOutside, Anew
  <2>8. CASE Spends
    <3>1. log.runs <= Grant(budget.calls - 1) + log.call.runs
      BY <1>7, <2>1, <2>8 DEF CountedOutside
    <3>2. Within(p) /\ Within(p)' /\ budget' = budget
      BY <1>7, <2>8
    <3>3. log'.runs = log.runs + 1 /\ log'.call.runs = log.call.runs + 1
      BY <2>8 DEF Spends
    <3>4. Grant(budget'.calls - 1) = Grant(budget.calls - 1)
      BY <3>2
    <3>5. PICK g \in Nat, h \in Nat, t \in Nat, n \in Nat, a \in Nat :
            /\ g = Grant(budget.calls - 1) /\ h = Grant(chain.maxCalls)
            /\ t = log.runs /\ n = log.call.runs /\ a = cfg.attempts
      BY <1>3, <2>3, <2>4, <3>2
    <3>6. g + a <= h /\ t <= g + n /\ n + 1 <= a
      BY <2>2, <2>4, <3>1, <3>2, <3>3, <3>5
    <3>7. t + 1 <= g + (n + 1) /\ t + 1 <= h
      BY <3>6
    <3> QED BY <3>2, <3>3, <3>4, <3>5, <3>7
  <2>9. CASE Granted(p)
    <3>1. /\ log.runs <= Grant(budget.calls) /\ log.runs <= Grant(chain.maxCalls)
          /\ Within(p)' /\ log.call.runs = 0
      BY <1>7, <2>1, <2>2, <2>9 DEF CountedOutside, Granted
    <3>2. budget'.calls - 1 = budget.calls /\ log' = log
      BY <1>3, <2>9 DEF Granted
    <3>3. Grant(budget'.calls - 1) = Grant(budget.calls)
      BY <3>2, Zenon
    <3>4. log'.runs = log.runs /\ log'.call.runs = 0
      BY <3>1, <3>2
    <3> QED BY <1>3, <2>3, <3>1, <3>3, <3>4
  <2>10. CASE Refused(p)
    <3>1. /\ ~Within(p)' /\ log'.runs = log.runs /\ log.runs <= Grant(chain.maxCalls)
      BY <1>7, <2>1, <2>10 DEF CountedOutside, Refused
    <3>2. log.runs \in Nat /\ log.call.runs \in Nat
      BY <1>3
    <3>3. CASE phase = "enter"
      <4>1. ~Within(p) /\ budget'.calls >= budget.calls
        BY <1>3, <2>10, <3>3 DEF Refused, Within
      <4>2. log.runs <= Grant(budget.calls)
        BY <2>1, <4>1 DEF CountedOutside
      <4> QED BY <2>3, <3>1, <3>2, <4>1, <4>2
    <3>4. CASE phase # "enter"
      <4>1. Within(p) /\ budget'.calls = budget.calls
        BY <2>10, <3>4 DEF Refused, Within
      <4>2. log.runs <= Grant(budget.calls - 1) + log.call.runs
        BY <2>1, <4>1 DEF CountedOutside
      <4>3. log.runs <= Grant(budget.calls)
        BY <2>2, <2>3, <2>4, <3>2, <4>1, <4>2
      <4> QED BY <3>1, <4>1, <4>3
    <3> QED BY <3>3, <3>4
  <2> QED BY <1>5, <2>6, <2>7, <2>8, <2>9, <2>10
<1> QED BY <1>8, <1>9, <1>10

\* No call has been charged.
LEMMA InitCharged ==
  ASSUME ChainInit
  PROVE  BudgetPaid
<1>1. Typed
  BY InitTyped
<1>2. at = 0 /\ phase = "enter" /\ log.runs = 0 /\ log.call.runs = 0 /\ budget.calls = 0
  BY DEF ChainInit, Fresh
<1>3. chain.maxCalls \in Nat
  BY <1>1, Facts
<1>4. Grant(chain.maxCalls) \in Nat /\ Grant(0) \in Nat
  BY <1>1, <1>3, Grants
<1> QED BY <1>2, <1>3, <1>4 DEF BudgetPaid, CountedInside, CountedOutside, Within, K

\* The two together are the bounds of CallCostBounded.
LEMMA PaidBounds ==
  ASSUME Typed, CallPaid, BudgetPaid
  PROVE  CallCostBounded
<1> DEFINE retries == IF Has(chain, "retry") THEN cfg.attempts - 1 ELSE 0
           limit == IF AddedBefore("budget", "retry") THEN 1 + retries ELSE 1
<1>1. /\ log.call.runs \in Nat /\ log.call.waited \in Nat /\ log.runs \in Nat
      /\ cfg.attempts \in Nat \ {0} /\ Longest \in Nat /\ chain.maxCalls \in Nat
  BY Facts DEF Typed, Logged
<1>2. log.call.runs <= 1 + retries /\ log.call.waited <= retries * Longest
  <2>1. CASE Has(chain, "retry")
    <3>1. PICK r \in K : order[r] = "retry"
      BY <2>1, Facts
    <3>2. log.call.runs <= cfg.attempts /\ log.call.waited <= (cfg.attempts - 1) * Longest
      BY <3>1 DEF CallPaid, PaidUnder, Cost
    <3>3. retries = cfg.attempts - 1
      BY <2>1
    <3> HIDE DEF retries
    <3> QED BY <1>1, <3>2, <3>3
  <2>2. CASE ~Has(chain, "retry")
    BY <1>1, <2>2 DEF CallPaid, PaidOnce
  <2> QED BY <2>1, <2>2
<1>3. ASSUME Has(chain, "budget"), chain.maxCalls > 0
      PROVE  log.runs <= chain.maxCalls * limit
  <2>1. PICK p \in K : order[p] = "budget"
    BY <1>3, Facts
  <2>2. CASE AddedBefore("budget", "retry")
    <3>1. PICK i, r \in 1..Len(order) : i < r /\ order[i] = "budget" /\ order[r] = "retry"
      BY <2>2 DEF AddedBefore
    <3>2. i = p /\ Has(chain, "retry")
      BY <2>1, <3>1, Facts DEF K
    <3>3. log.runs <= chain.maxCalls * cfg.attempts
      BY <1>3, <2>1, <3>1, <3>2 DEF BudgetPaid, CountedOutside, Grant, K
    <3>4. limit = cfg.attempts
      BY <1>1, <2>2, <3>2
    <3> QED BY <3>3, <3>4
  <2>3. CASE ~AddedBefore("budget", "retry")
    <3>1. \A r \in K : order[r] = "retry" => r < p
      <4> SUFFICES ASSUME NEW r \in K, order[r] = "retry", ~(r < p) PROVE FALSE
        OBVIOUS
      <4>1. p < r
        BY <2>1, Facts DEF K
      <4> QED BY <2>1, <2>3, <4>1 DEF AddedBefore, K
    <3>2. log.runs <= chain.maxCalls
      BY <1>3, <2>1, <3>1 DEF BudgetPaid, CountedInside
    <3>3. limit = 1
      BY <2>3
    <3> HIDE DEF limit
    <3> QED BY <1>1, <3>2, <3>3
  <2> QED BY <2>2, <2>3
<1> HIDE DEF retries
<1>4. /\ log.call.runs <= 1 + retries
      /\ log.call.waited <= retries * (Ceiling + Ceiling \div 10)
      /\ Has(chain, "budget") /\ chain.maxCalls > 0 => log.runs <= chain.maxCalls * limit
  BY <1>2, <1>3 DEF Longest
<1> QED BY <1>4, Zenon DEF CallCostBounded, Ceiling, retries

-----------------------------------------------------------------------------
(* The breaker's streak.                                                    *)

\* A breaker at b, outside retry, has counted the calls that failed in a row, and the one
\* that is on its way to the caller.
StreakAt(b) ==
  /\ ~(at < b /\ phase = "back") => breaker.failures <= log.streak
  /\ at < b /\ phase = "back" =>
       /\ breaker.failures <= log.streak + 1
       /\ ret = "nil" /\ ~log.call.rescued => breaker.failures = 0
StreakCounted ==
  \A b, r \in K : order[b] = "breaker" /\ order[r] = "retry" /\ b < r /\ breaker.state = "closed" =>
    StreakAt(b)

\* The steps as far as a breaker at b goes: before it has seen a call, while the call is
\* inside it, and after.
NotSeen ==
  /\ breaker' = breaker /\ log'.streak = log.streak /\ phase = "enter"
  /\ phase' = "enter" \/ ret' # "nil"
Inside(b) == breaker' = breaker /\ log'.streak = log.streak /\ at > b /\ at' >= b
Seen(b) ==
  /\ breaker' = breaker /\ log'.streak = log.streak /\ at < b /\ phase = "back"
  /\ at' < b /\ phase' = "back"
  /\ ret' # "nil" \/ (ret' = ret /\ log'.call.rescued = log.call.rescued) \/ log'.call.rescued
Reported ==
  /\ breaker' = breaker /\ at = 0 /\ phase = "back" /\ at' = 0 /\ phase' = "enter"
  /\ \/ ret = "nil" /\ ~log.call.rescued /\ log'.streak = 0
     \/ log'.streak = log.streak + 1
Judges(b) ==
  /\ breaker' = Judged(ret = "nil") /\ log' = log /\ at = b /\ phase = "back"
  /\ at' = b - 1 /\ phase' = "back" /\ ret' = ret

\* These are all the steps.
LEMMA StreakMoves ==
  ASSUME Typed, [ChainNext]_chainVars, NEW b \in K, NEW r \in K, order[b] = "breaker", order[r] = "retry", b < r
  PROVE  Still \/ NotSeen \/ Inside(b) \/ Seen(b) \/ Reported \/ Judges(b)
<1>1. /\ \A l : Is(l) /\ l # "breaker" => at \in K /\ at # b
      /\ Is("breaker") => at = b
      /\ Is("retry") => at = r
      /\ b \in Nat /\ r \in Nat /\ at \in Nat /\ b <= Len(order) /\ Len(order) \in Nat
  BY Facts DEF K
<1>2. CASE StartCall
  BY <1>2, Outside, Histories DEF NotSeen, Keeps, Count
<1>3. CASE EndCall
  BY <1>3, Outside, Histories DEF Reported, Keeps, Count
<1>4. CASE Run
  <2>1. log'.streak = log.streak
    BY <1>4, Histories DEF Count
  <2> QED BY <1>1, <1>4, <2>1, Outside DEF Inside, Keeps, Operation
<1>5. CASE TimeoutIn \/ GateIn \/ FallbackIn
  BY <1>5, Through DEF NotSeen, Keeps, Enters, TurnsBack
<1>6. CASE BreakerIn
  <2>1. log'.streak = log.streak
    BY <1>6, Histories DEF Count
  <2> QED BY <1>6, <2>1, Through DEF NotSeen, Keeps, Enters, TurnsBack
<1>7. CASE TimeoutOut \/ GateOut
  BY <1>1, <1>7, Through DEF Inside, Seen, Keeps, Leaves
<1>8. CASE FallbackOut
  <2>1. /\ Keeps /\ Leaves("fallback") /\ log'.streak = log.streak
        /\ (ret' = ret /\ log'.call.rescued = log.call.rescued) \/ log'.call.rescued
    <3>1. \/ GoOut(ret) /\ log' = log
          \/ log'.streak = log.streak /\ log'.call.rescued = TRUE
      BY <1>8, Histories DEF Count
    <3> QED BY <1>8, <3>1, Through DEF GoOut
  <2> QED BY <1>1, <2>1 DEF Inside, Seen, Keeps, Leaves
<1>9. CASE BreakerOut
  BY <1>1, <1>9, Through DEF Judges, Leaves
<1>10. CASE BudgetIn \/ BudgetOut
  <2>1. Exhausted => log'.streak = log.streak /\ GoOut("budget")
    BY Histories DEF Count, Exhausted
  <2>2. Is("budget") /\ breaker' = breaker
    BY <1>10, BudgetCharged
  <2>3. CASE BudgetIn
    BY <2>1, <2>2, <2>3, BudgetCharged DEF NotSeen, GoIn, GoOut
  <2>4. CASE BudgetOut
    BY <1>1, <2>1, <2>2, <2>4, BudgetCharged DEF Inside, Seen, GoOut
  <2> QED BY <1>10, <2>3, <2>4
<1>11. CASE RetryIn
  BY <1>11, Retrying DEF NotSeen, Enters, TurnsBack
<1>12. CASE RetryOut
  BY <1>1, <1>12, Retrying DEF Inside, Leaves, Keeps
<1>13. CASE RetryWaits
  <2>1. log'.streak = log.streak
    BY <1>13, Histories DEF Count
  <2> QED BY <1>1, <1>13, <2>1, Retrying DEF Inside, Keeps
<1>14. CASE RetryWakes
  <2>1. at = r
    BY <1>14, Retrying, Facts
  <2> QED BY <1>1, <1>14, <2>1, Retrying DEF Inside
<1> QED BY <1>2, <1>3, <1>4, <1>5, <1>6, <1>7, <1>8, <1>9, <1>10, <1>11, <1>12, <1>13, <1>14,
           Outside DEF ChainNext

\* What a judgement does to a streak.
LEMMA JudgesSound ==
  ASSUME Typed, NEW b \in K, Judges(b)
  PROVE  /\ breaker'.state = "closed" =>
              \/ breaker'.failures = 0
              \/ ret # "nil" /\ breaker.state = "closed" /\ breaker'.failures = breaker.failures + 1
         /\ breaker.state = "closed" /\ breaker'.state = "open" => breaker.failures + 1 >= chain.trip
<1>1. PICK ok \in BOOLEAN : ok = (ret = "nil")
  OBVIOUS
<1>2. breaker' = Judged(ok)
  BY <1>1 DEF Judges
<1> QED BY <1>1, <1>2, JudgedSound

\* The streak is kept.
LEMMA StepCounted ==
  ASSUME Typed, Typed', StreakCounted, [ChainNext]_chainVars
  PROVE  StreakCounted'
<1>1. order' = order /\ K' = K
  BY Frame
<1>2. SUFFICES ASSUME NEW b \in K, NEW r \in K, order[b] = "breaker", order[r] = "retry", b < r,
                      breaker'.state = "closed"
               PROVE  StreakAt(b)'
  BY <1>1 DEF StreakCounted
<1>3. breaker.state = "closed" => StreakAt(b)
  BY <1>2 DEF StreakCounted
<1>4. /\ breaker.failures \in Nat /\ breaker'.failures \in Nat /\ log.streak \in Nat /\ log'.streak \in Nat
      /\ b \in Nat \ {0} /\ at \in Nat /\ at' \in Nat
  <2>1. at' \in 0..Operation /\ Len(order) \in Nat
    BY PositionTyped, Facts
  <2>2. b \in Nat \ {0} /\ at \in Nat /\ at' \in Nat
    BY <2>1, Facts DEF K, Operation
  <2>3. breaker.failures \in Nat /\ breaker'.failures \in Nat
    BY DEF Typed
  <2>4. log.streak \in Nat /\ log'.streak \in Nat
    BY DEF Typed, Logged
  <2> QED BY <2>2, <2>3, <2>4
<1>5. SUFFICES /\ ~(at' < b /\ phase' = "back") => breaker'.failures <= log'.streak
               /\ at' < b /\ phase' = "back" =>
                    /\ breaker'.failures <= log'.streak + 1
                    /\ ret' = "nil" /\ ~log'.call.rescued => breaker'.failures = 0
  BY DEF StreakAt
<1>6. CASE Still
  BY <1>2, <1>3, <1>6 DEF Still, To, StreakAt
<1>7. CASE NotSeen
  BY <1>2, <1>3, <1>4, <1>7 DEF NotSeen, StreakAt
<1>8. CASE Inside(b)
  BY <1>2, <1>3, <1>4, <1>8 DEF Inside, StreakAt
<1>9. CASE Seen(b)
  BY <1>2, <1>3, <1>4, <1>9 DEF Seen, StreakAt
<1>10. CASE Reported
  BY <1>2, <1>3, <1>4, <1>10 DEF Reported, StreakAt
<1>11. CASE Judges(b)
  <2>1. \/ breaker'.failures = 0
        \/ ret # "nil" /\ breaker.state = "closed" /\ breaker'.failures = breaker.failures + 1
    BY <1>2, <1>11, JudgesSound
  <2>2. at = b /\ at' = b - 1 /\ phase' = "back" /\ ret' = ret /\ log' = log
    BY <1>11 DEF Judges
  <2> QED BY <1>3, <1>4, <2>1, <2>2 DEF StreakAt
<1> QED BY <1>2, <1>6, <1>7, <1>8, <1>9, <1>10, <1>11, StreakMoves

\* A breaker that opens has seen that many calls fail.
LEMMA StepTrips ==
  ASSUME Typed, StreakCounted, [ChainNext]_chainVars,
         AddedBefore("breaker", "retry"), breaker.state = "closed", breaker'.state = "open"
  PROVE  log.streak + 1 >= chain.trip
<1>1. PICK b, r \in K : b < r /\ order[b] = "breaker" /\ order[r] = "retry"
  BY DEF AddedBefore, K
<1>2. StreakAt(b)
  BY <1>1 DEF StreakCounted
<1>3. Judges(b)
  BY <1>1, StreakMoves DEF Still, NotSeen, Inside, Seen, Reported, To
<1>4. breaker.failures + 1 >= chain.trip
  BY <1>3, JudgesSound
<1>5. breaker.failures <= log.streak
  BY <1>2, <1>3, Facts DEF StreakAt, Judges, K
<1>6. breaker.failures \in Nat /\ log.streak \in Nat /\ chain.trip \in Nat
  BY DEF Typed, Logged, Built
<1> QED BY <1>4, <1>5, <1>6

-----------------------------------------------------------------------------
(* Refusals.                                                                *)

\* After a refusal e by the layer at b the call is out of reach of retry, on its way to a
\* retry that will not take e up, or held up by a budget inside retry that is spent.
PastRefusal(b, e) ==
  \/ /\ at < b /\ (phase = "back" \/ at = 0)
     /\ \A r \in K : order[r] = "retry" /\ r < b => at < r
  \/ at < b /\ phase = "back" /\ ret \in {e, "nil"}
  \/ \E r, p \in K : /\ order[r] = "retry" /\ order[p] = "budget" /\ r < p /\ p < b
                     /\ budget.breached /\ r <= at /\ at <= p

\* Nothing between retry and l hides a refusal e, and retry does not opt in to it.
Heeded(l, e) == ~OptsIn(e) /\ ~Masked(l)

RefusedOnce(l, e, n) ==
  /\ ~Has(chain, l) => n = 0
  /\ \A b \in K : order[b] = l /\ Heeded(l, e) => n <= 1 /\ (n = 1 => PastRefusal(b, e))

\* The steps of a call, as far as it is or is not kept away from a layer.
Spent == budget.breached => budget'.breached
WalksIn ==
  /\ at \in K /\ phase = "enter" /\ at' = at + 1 /\ phase' = "enter" /\ Spent
  /\ order[at] = "budget" => ~budget.breached
WalksBack == at \in K /\ phase = "enter" /\ at' = at - 1 /\ phase' = "back" /\ Spent
WalksOut ==
  /\ at \in K /\ phase = "back" /\ at' = at - 1 /\ phase' = "back" /\ Spent
  /\ \/ ret' \in {ret, "nil"}
     \/ order[at] = "timeout"
     \/ order[at] = "budget" /\ budget'.breached
WaitsFor == /\ AtRetry("back") /\ at' = at /\ phase' = "backoff" /\ Spent
            /\ ret # "nil" /\ isRetryable(ret)
Wakes == /\ AtRetry("backoff") /\ Spent
         /\ (at' = at + 1 /\ phase' = "enter") \/ (at' = at - 1 /\ phase' = "back")
Walks ==
  \/ at' = at /\ phase' = phase /\ ret' = ret /\ Spent
  \/ at = 0 /\ at' = 0 /\ phase' = "enter"
  \/ at = Len(order) + 1
  \/ WalksIn \/ WalksBack \/ WalksOut \/ WaitsFor \/ Wakes

\* Retry takes up these two refusals only where it is asked to.
LEMMA RetryDeclines ==
  ASSUME Typed, NEW e \in {"open", "budget"}, isRetryable(e)
  PROVE  OptsIn(e)
  BY DEF isRetryable, OptsIn, Matches

\* None of the steps brings the call back to the layer that refused it.
LEMMA PastKept ==
  ASSUME Typed, [ChainNext]_chainVars, NEW b \in K, NEW e \in {"open", "budget"}, Heeded(order[b], e),
         PastRefusal(b, e), Walks
  PROVE  PastRefusal(b, e)'
<1>1. order' = order /\ K' = K
  BY Frame
<1>2. /\ K = 1..Len(order) /\ Len(order) \in Nat /\ at \in 0..(Len(order) + 1)
      /\ phase \in {"enter", "back", "backoff"}
      /\ \A i, j \in K : order[i] = order[j] => i = j
  BY Facts DEF K
<1> DEFINE Gone == /\ at' < b /\ (phase' = "back" \/ at' = 0)
                   /\ \A r \in K : order[r] = "retry" /\ r < b => at' < r
           Declined == at' < b /\ phase' = "back" /\ ret' \in {e, "nil"}
           Held == \E r, p \in K : /\ order[r] = "retry" /\ order[p] = "budget" /\ r < p /\ p < b
                                   /\ budget'.breached /\ r <= at' /\ at' <= p
<1>3. SUFFICES Gone \/ Declined \/ Held
  BY <1>1 DEF PastRefusal
<1>4. at < b
  BY <1>2 DEF PastRefusal
<1>5. CASE /\ at < b /\ (phase = "back" \/ at = 0)
           /\ \A r \in K : order[r] = "retry" /\ r < b => at < r
  BY <1>2, <1>5 DEF Walks, WalksIn, WalksBack, WalksOut, WaitsFor, Wakes, AtRetry
<1>6. CASE at < b /\ phase = "back" /\ ret \in {e, "nil"}
  <2>1. CASE at = 0
    BY <1>2, <1>5, <2>1, <1>6
  <2>2. CASE \/ at' = at /\ phase' = phase /\ ret' = ret
             \/ at' = at - 1 /\ phase' = "back" /\ ret' \in {ret, "nil"}
    BY <1>2, <1>6, <2>2
  <2>3. CASE at \in K /\ order[at] = "timeout" /\ at' = at - 1 /\ phase' = "back"
    <3>1. ASSUME NEW r \in K, order[r] = "retry", r < b PROVE at' < r
      <4>1. ~(r < at)
        BY <1>2, <1>4, <2>3, <3>1 DEF Heeded, Masked, AddedBefore
      <4> QED BY <1>2, <2>3, <3>1, <4>1
    <3> QED BY <1>2, <1>4, <2>3, <3>1
  <2>4. CASE at \in K /\ order[at] = "budget" /\ at' = at - 1 /\ phase' = "back" /\ budget'.breached
    <3>1. CASE \E r \in K : order[r] = "retry" /\ r < at
      BY <1>2, <1>4, <2>4, <3>1
    <3>2. CASE ~\E r \in K : order[r] = "retry" /\ r < at
      BY <1>2, <1>4, <2>4, <3>2
    <3> QED BY <3>1, <3>2
  <2>5. ~WaitsFor
    BY <1>6, RetryDeclines DEF WaitsFor, Heeded
  <2> QED BY <1>2, <1>6, <2>1, <2>2, <2>3, <2>4, <2>5
          DEF Walks, WalksIn, WalksBack, WalksOut, Wakes, AtRetry
<1>7. CASE \E r, p \in K : /\ order[r] = "retry" /\ order[p] = "budget" /\ r < p /\ p < b
                           /\ budget.breached /\ r <= at /\ at <= p
  <2>1. PICK r, p \in K : /\ order[r] = "retry" /\ order[p] = "budget" /\ r < p /\ p < b
                         /\ budget.breached /\ r <= at /\ at <= p
    BY <1>7
  <2>2. CASE Spent /\ r <= at' /\ at' <= p
    BY <2>1, <2>2 DEF Spent
  <2>3. CASE at' = at - 1 /\ phase' = "back" /\ Spent
    <3>1. CASE at = r
      BY <1>2, <2>1, <2>3, <3>1
    <3>2. CASE at # r
      BY <1>2, <2>1, <2>2, <2>3, <3>2
    <3> QED BY <3>1, <3>2
  <2>4. CASE WalksIn
    BY <1>2, <2>1, <2>2, <2>4 DEF WalksIn
  <2>5. CASE Wakes
    BY <1>2, <2>1, <2>2, <2>3, <2>5 DEF Wakes, AtRetry
  <2> QED BY <1>2, <2>1, <2>2, <2>3, <2>4, <2>5 DEF Walks, WalksBack, WalksOut, WaitsFor
<1> QED BY <1>5, <1>6, <1>7 DEF PastRefusal

\* The layer l refuses with e.
Refuses(l, e) == at \in K /\ order[at] = l /\ at' = at - 1 /\ phase' = "back" /\ ret' = e

\* A step starts a call, is a refusal that is counted, or walks.
LEMMA Walking ==
  ASSUME Typed, [ChainNext]_chainVars
  PROVE  /\ \/ log'.call.open = 0
            \/ Refuses("breaker", "open") /\ log'.call.open = log.call.open + 1
            \/ Walks /\ log'.call.open = log.call.open
         /\ \/ log'.call.budget = 0
            \/ Refuses("budget", "budget") /\ log'.call.budget = log.call.budget + 1
            \/ Walks /\ log'.call.budget = log.call.budget
<1> DEFINE Uncounted == log'.call.open = log.call.open /\ log'.call.budget = log.call.budget
<1>1. \A l : Is(l) <=> at \in K /\ order[at] = l
  BY Facts
<1>2. CASE Still
  BY <1>2 DEF Still, Walks, Spent
<1>3. CASE StartCall
  BY <1>3, Histories DEF Count
<1>4. CASE EndCall
  <2>1. Uncounted
    BY <1>4, Histories DEF Count
  <2> QED BY <1>4, <2>1, Outside DEF Walks
<1>5. CASE Run
  <2>1. Uncounted
    BY <1>5, Histories DEF Count
  <2> QED BY <1>5, <2>1, Outside DEF Walks, Operation
<1>6. CASE TimeoutIn \/ GateIn \/ FallbackIn \/ RetryIn
  BY <1>1, <1>6, Through, Retrying DEF Keeps, Enters, TurnsBack, Walks, WalksIn, WalksBack, Spent
<1>7. CASE BreakerIn
  <2>1. \/ Uncounted
        \/ GoOut("open") /\ log'.call.open = log.call.open + 1 /\ log'.call.budget = log.call.budget
    BY <1>7, Histories DEF Count
  <2>2. Walks /\ Is("breaker")
    BY <1>1, <1>7, Through DEF Keeps, Enters, TurnsBack, Walks, WalksIn, WalksBack, Spent
  <2> QED BY <1>1, <2>1, <2>2 DEF Refuses, GoOut
<1>8. CASE TimeoutOut \/ GateOut \/ BreakerOut \/ RetryOut
  BY <1>1, <1>8, Through, Retrying DEF Keeps, Leaves, Walks, WalksOut, Spent
<1>9. CASE FallbackOut
  <2>1. Uncounted
    BY <1>9, Histories DEF Count
  <2> QED BY <1>1, <1>9, <2>1, Through DEF Keeps, Leaves, Walks, WalksOut, Spent
<1>10. CASE BudgetIn \/ BudgetOut
  <2>1. Exhausted => /\ GoOut("budget") /\ log'.call.open = log.call.open
                     /\ log'.call.budget = log.call.budget + 1
    BY Histories DEF Count, Exhausted
  <2>2. CASE BudgetIn
    <3>1. Walks
      BY <1>1, <2>1, <2>2, BudgetCharged DEF Walks, WalksIn, WalksBack, Spent, GoIn, GoOut
    <3>2. Is("budget") /\ (Exhausted \/ log' = log)
      BY <2>2, BudgetCharged
    <3> QED BY <1>1, <2>1, <3>1, <3>2 DEF Refuses, GoOut
  <2>3. CASE BudgetOut
    <3>1. Walks
      BY <1>1, <2>1, <2>3, BudgetCharged DEF Walks, WalksOut, Spent, GoOut
    <3>2. Is("budget") /\ (Exhausted \/ log' = log)
      BY <2>3, BudgetCharged
    <3> QED BY <1>1, <2>1, <3>1, <3>2 DEF Refuses, GoOut
  <2> QED BY <1>10, <2>2, <2>3
<1>11. CASE RetryWaits
  <2>1. Uncounted
    BY <1>11, Histories DEF Count
  <2> QED BY <1>1, <1>11, <2>1, Retrying DEF Keeps, Walks, WaitsFor, AtRetry, Spent
<1>12. CASE RetryWakes
  <2>1. at \in K /\ order[at] = "retry" /\ phase = "backoff"
    BY <1>12, Retrying, Facts
  <2> QED BY <1>12, <2>1, Retrying DEF Walks, Wakes, AtRetry, Spent
<1> QED BY <1>2, <1>3, <1>4, <1>5, <1>6, <1>7, <1>8, <1>9, <1>10, <1>11, <1>12, Outside DEF ChainNext

\* What the two refusals have in common.
LEMMA StepRefused ==
  ASSUME Typed, [ChainNext]_chainVars, NEW l \in {"breaker", "budget"}, NEW e \in {"open", "budget"},
         NEW n \in Nat, NEW m \in Nat, RefusedOnce(l, e, n),
         m = 0 \/ (Refuses(l, e) /\ m = n + 1) \/ (Walks /\ m = n)
  PROVE  /\ ~Has(chain, l) => m = 0
         /\ \A b \in K : order[b] = l /\ Heeded(l, e) => m <= 1 /\ (m = 1 => PastRefusal(b, e)')
<1>1. \A i, j \in K : order[i] = order[j] => i = j
  BY Facts
<1>2. ~Has(chain, l) => m = 0
  BY Facts DEF RefusedOnce, Refuses
<1>3. ASSUME NEW b \in K, order[b] = l, Heeded(l, e)
      PROVE  m <= 1 /\ (m = 1 => PastRefusal(b, e)')
  <2>1. n <= 1 /\ (n = 1 => PastRefusal(b, e))
    BY <1>3 DEF RefusedOnce
  <2>2. CASE m = 0
    BY <2>2
  <2>3. CASE Walks /\ m = n
    BY <1>3, <2>1, <2>3, PastKept
  <2>4. CASE Refuses(l, e) /\ m = n + 1
    <3>1. at = b /\ b \in Int
      BY <1>1, <1>3, <2>4 DEF Refuses, K
    <3>2. n = 0
      BY <2>1, <3>1, Facts DEF PastRefusal, K
    <3>3. at' < b /\ phase' = "back" /\ ret' = e
      BY <2>4, <3>1 DEF Refuses
    <3> QED BY <2>4, <3>2, <3>3 DEF PastRefusal
  <2> QED BY <2>2, <2>3, <2>4
<1> QED BY <1>2, <1>3

\* Chains are the user's own or one of the four presets, as presets.go builds them.
PresetsAsBuilt ==
  \A c \in Chains : c.preset =>
    \E p : c \in HTTPClient(p) \cup DatabaseQuery(p) \cup RPCDownstream(p) \cup LLMCall(p)

\* In a preset retry heeds the refusals of the layers it has.
PresetsHeed ==
  chain.preset => /\ Heeded("breaker", "open")
                  /\ Has(chain, "budget") => Heeded("budget", "budget")

\* The four presets: which layers, and whether an open circuit and a spent budget are retried.
LEMMA PresetChains ==
  ASSUME NEW p, NEW c \in HTTPClient(p) \cup DatabaseQuery(p) \cup RPCDownstream(p) \cup LLMCall(p)
  PROVE  /\ \/ c.layers = <<"breaker", "retry", "timeout">>
            \/ /\ c.layers = <<"gate", "breaker", "retry", "budget", "timeout">>
               /\ c.retry.hasCustom /\ "budget" \notin c.retry.custom
         /\ c.retry.hasCustom => "open" \notin c.retry.custom
         /\ c.retry.retryable = {}
<1>1. CASE c \in HTTPClient(p)
  <2> DEFINE es == {e \in Errors : e # "open" /\ ~ContextEnded(e)}
             b == Backoffs(OrDefault(p.maxRetries, 3), OrDefault(p.initial, 100), 0)
  <2>1. c = Protected(Accepting(b, es), OrDefault(p.threshold, 5), 3)
    BY <1>1 DEF HTTPClient, OnlyIf
  <2>2. "open" \notin es
    OBVIOUS
  <2> HIDE DEF es
  <2>3. Accepting(b, es).hasCustom /\ Accepting(b, es).custom = es /\ Accepting(b, es).retryable = {}
    BY DEF Backoffs, Accepting
  <2> HIDE DEF b
  <2>4. c.retry = Accepting(b, es) /\ c.layers = <<"breaker", "retry", "timeout">>
    BY <2>1 DEF Protected
  <2> QED BY <2>2, <2>3, <2>4
<1>2. CASE c \in DatabaseQuery(p) \cup RPCDownstream(p)
  BY <1>2 DEF DatabaseQuery, RPCDownstream, OnlyIf, Protected, Backoffs
<1>3. CASE c \in LLMCall(p)
  <2> DEFINE es == {e \in Errors : llmIsRetryable(e, p.idempotent)}
             b == Backoffs(OrDefault(p.maxRetries, 3), OrDefault(p.initial, 250), 0)
             d == Protected(Accepting(b, es), OrDefault(p.threshold, 5), 3)
  <2>1. c = [d EXCEPT !.layers = <<"gate", "breaker", "retry", "budget", "timeout">>,
                      !.maxCalls = p.maxCalls, !.maxSpend = p.maxSpend]
    BY <1>3 DEF LLMCall, OnlyIf
  <2>2. "open" \notin es /\ "budget" \notin es
    BY DEF llmIsRetryable
  <2> HIDE DEF es
  <2>3. b.retryable = {} /\ Accepting(b, es).hasCustom /\ Accepting(b, es).custom = es
        /\ Accepting(b, es).retryable = {}
    BY DEF Backoffs, Accepting
  <2> HIDE DEF b
  <2>4. c.retry = Accepting(b, es) /\ c.layers = <<"gate", "breaker", "retry", "budget", "timeout">>
    BY <2>1 DEF Protected
  <2> QED BY <2>2, <2>3, <2>4
<1> QED BY <1>1, <1>2, <1>3

\* So the presets heed refusals.
LEMMA InitHeeds ==
  ASSUME PresetsAsBuilt, ChainInit
  PROVE  PresetsHeed
<1> SUFFICES ASSUME chain.preset
             PROVE  Heeded("breaker", "open") /\ (Has(chain, "budget") => Heeded("budget", "budget"))
  BY DEF PresetsHeed
<1>1. PICK c \in Chains : chain = [c EXCEPT !.retry = setDefaults(c.retry)]
  BY DEF ChainInit
<1>2. c \in [layers : Seq(Layers), retry : RetryConfigs, trip : Nat \ {0},
             trials : Nat \ {0}, maxCalls : Nat, maxSpend : Nat, preset : BOOLEAN]
  BY ChainAssumption
<1>3. c.preset /\ order = c.layers /\ SameClasses(cfg, c.retry)
  <2>1. SameClasses(setDefaults(c.retry), c.retry)
    BY <1>2, DefaultsTyped
  <2> DEFINE s == setDefaults(c.retry)
  <2>2. chain = [c EXCEPT !.retry = s]
    BY <1>1
  <2> HIDE DEF s
  <2>3. chain.preset = c.preset /\ chain.layers = c.layers /\ chain.retry = s
    BY <1>2, <2>2
  <2> QED BY <2>1, <2>3 DEF order, cfg, s
<1>4. PICK p : c \in HTTPClient(p) \cup DatabaseQuery(p) \cup RPCDownstream(p) \cup LLMCall(p)
  BY <1>3 DEF PresetsAsBuilt
<1>5. /\ \/ order = <<"breaker", "retry", "timeout">>
         \/ /\ order = <<"gate", "breaker", "retry", "budget", "timeout">>
            /\ cfg.hasCustom /\ "budget" \notin cfg.custom
      /\ cfg.hasCustom => "open" \notin cfg.custom
      /\ cfg.retryable = {}
  BY <1>3, <1>4, PresetChains DEF SameClasses
<1>6. ~OptsIn("open")
  BY <1>5 DEF OptsIn
<1>7. ~AddedBefore("timeout", "breaker") /\ ~AddedBefore("timeout", "budget")
  BY <1>5 DEF AddedBefore
<1>8. Has(chain, "budget") => ~OptsIn("budget")
  <2>1. order = <<"breaker", "retry", "timeout">> => ~Has(chain, "budget")
    BY DEF Has, order
  <2> QED BY <1>5, <2>1 DEF OptsIn
<1> QED BY <1>6, <1>7, <1>8 DEF Heeded, Masked

-----------------------------------------------------------------------------
(* The theorems.                                                            *)

IInv ==
  /\ Typed /\ CallPaid /\ BudgetPaid /\ StreakCounted
  /\ RefusedOnce("breaker", "open", log.call.open)
  /\ RefusedOnce("budget", "budget", log.call.budget)

\* It holds at first.
LEMMA InitInv ==
  ASSUME ChainInit
  PROVE  IInv
<1>1. StreakCounted
  <2>1. breaker.failures = 0 /\ log.streak = 0 /\ phase = "enter"
    BY DEF ChainInit
  <2> QED BY <2>1 DEF StreakCounted, StreakAt
<1>2. log.call.open = 0 /\ log.call.budget = 0
  BY DEF ChainInit, Fresh
<1>3. RefusedOnce("breaker", "open", log.call.open) /\ RefusedOnce("budget", "budget", log.call.budget)
  BY <1>2 DEF RefusedOnce
<1> QED BY <1>1, <1>3, InitTyped, InitPaid, InitCharged DEF IInv

\* Every step keeps it.
LEMMA StepInv ==
  ASSUME IInv, [ChainNext]_chainVars
  PROVE  IInv'
<1>1. Typed /\ CallPaid /\ BudgetPaid /\ StreakCounted
  BY DEF IInv
<1>2. Typed' /\ CallPaid'
  BY <1>1, StepTyped, StepPaid
<1>3. BudgetPaid' /\ StreakCounted'
  BY <1>1, <1>2, StepCharged, StepCounted
<1>4. /\ log.call.open \in Nat /\ log'.call.open \in Nat
      /\ log.call.budget \in Nat /\ log'.call.budget \in Nat
  BY <1>1, <1>2 DEF Typed, Logged
<1>5. /\ \A l : Has(chain, l)' <=> Has(chain, l)
      /\ \A l, e : Heeded(l, e)' <=> Heeded(l, e)
      /\ order' = order /\ K' = K
  BY <1>1, Frame DEF Has, Heeded, OptsIn, Masked, AddedBefore
<1>6. RefusedOnce("breaker", "open", log.call.open)'
  <2>1. PICK n \in Nat, m \in Nat : n = log.call.open /\ m = log'.call.open
    BY <1>4
  <2>2. RefusedOnce("breaker", "open", n)
    BY <2>1 DEF IInv
  <2>3. m = 0 \/ (Refuses("breaker", "open") /\ m = n + 1) \/ (Walks /\ m = n)
    BY <1>1, <2>1, Walking
  <2>4. /\ ~Has(chain, "breaker") => m = 0
        /\ \A b \in K : order[b] = "breaker" /\ Heeded("breaker", "open") =>
             m <= 1 /\ (m = 1 => PastRefusal(b, "open")')
    BY <1>1, <2>2, <2>3, StepRefused
  <2> QED BY <1>5, <2>1, <2>4 DEF RefusedOnce
<1>7. RefusedOnce("budget", "budget", log.call.budget)'
  <2>1. PICK n \in Nat, m \in Nat : n = log.call.budget /\ m = log'.call.budget
    BY <1>4
  <2>2. RefusedOnce("budget", "budget", n)
    BY <2>1 DEF IInv
  <2>3. m = 0 \/ (Refuses("budget", "budget") /\ m = n + 1) \/ (Walks /\ m = n)
    BY <1>1, <2>1, Walking
  <2>4. /\ ~Has(chain, "budget") => m = 0
        /\ \A b \in K : order[b] = "budget" /\ Heeded("budget", "budget") =>
             m <= 1 /\ (m = 1 => PastRefusal(b, "budget")')
    BY <1>1, <2>2, <2>3, StepRefused
  <2> QED BY <1>5, <2>1, <2>4 DEF RefusedOnce
<1> QED BY <1>2, <1>3, <1>6, <1>7 DEF IInv

\* The inductive invariant holds of every chain.
THEOREM Invariance == ChainSpec => []IInv
  BY InitInv, StepInv, PTL DEF ChainSpec

\* CallCostBounded: whatever the order of the layers, the retry configuration and the
\* budget, a call makes no more runs and no longer waits than its retries allow, and all
\* calls together no more runs than the budget grants.
THEOREM CallCostIsBounded == ChainSpec => []CallCostBounded
<1>1. IInv => CallCostBounded
  BY PaidBounds DEF IInv
<1> QED BY <1>1, Invariance, PTL

\* BreakerCountsCalls: a breaker outside retry opens only after as many failed calls in a
\* row as its threshold, for every chain.
THEOREM BreakerCountsWholeCalls == ChainSpec => BreakerCountsCalls
<1>1. IInv /\ [ChainNext]_chainVars =>
        [AddedBefore("breaker", "retry") /\ breaker.state = "closed" /\ breaker'.state = "open"
           => log.streak + 1 >= chain.trip]_chainVars
  BY StepTrips DEF IInv
<1> QED BY <1>1, Invariance, PTL DEF ChainSpec, BreakerCountsCalls

\* RefusalsNotRetried: with presets built as presets.go builds them, no call meets an open
\* circuit or a spent budget twice, for every chain of the user's own that does not opt in
\* to it and hides no refusal behind a timeout, and for every preset.
THEOREM RefusalsMetOnce == PresetsAsBuilt => (ChainSpec => []RefusalsNotRetried)
<1> SUFFICES ASSUME PresetsAsBuilt PROVE ChainSpec => []RefusalsNotRetried
  OBVIOUS
<1>1. ChainInit => PresetsHeed
  BY InitHeeds
<1>2. IInv /\ PresetsHeed /\ [ChainNext]_chainVars => PresetsHeed'
  <2> SUFFICES ASSUME IInv, PresetsHeed, [ChainNext]_chainVars PROVE PresetsHeed'
    OBVIOUS
  <2>1. chain' = chain /\ order' = order /\ cfg' = cfg
    BY Frame DEF IInv
  <2> QED BY <2>1 DEF PresetsHeed, Heeded, OptsIn, Masked, AddedBefore, Has
<1>3. IInv /\ PresetsHeed => RefusalsNotRetried
  <2> SUFFICES ASSUME IInv, PresetsHeed PROVE RefusalsNotRetried
    OBVIOUS
  <2>1. /\ Has(chain, "breaker") /\ Heeded("breaker", "open") => log.call.open <= 1
        /\ ~Has(chain, "breaker") => log.call.open = 0
        /\ Has(chain, "budget") /\ Heeded("budget", "budget") => log.call.budget <= 1
        /\ ~Has(chain, "budget") => log.call.budget = 0
    BY Facts DEF IInv, RefusedOnce
  <2> QED BY <2>1 DEF RefusalsNotRetried, PresetsHeed, Heeded
<1> QED BY <1>1, <1>2, <1>3, Invariance, PTL DEF ChainSpec

-----------------------------------------------------------------------------
(***************************************************************************)
(* The other way to stack: HTTP middlewares around a handler, in every      *)
(* order, of any depth, each as often as one likes.  A request goes in once *)
(* and comes out once.  Until a Flush intervenes the recorders that it has  *)
(* still to pass agree with what the client has, so what a layer decides by *)
(* its own recorder it decides by the response.                             *)
(***************************************************************************)

Statuses == {200, 404, 429, 500, 503, 504}
Errs == {"deadline", "canceled"}

\* Where the request is and what has been written on the way.
Shaped ==
  /\ stack \in Seq(H!Layers) /\ hat \in 0..H!Handler /\ hphase \in {"in", "back"}
  /\ (hat = H!Handler => hphase = "in") /\ (hat = 0 => hphase = "back")
  /\ rec \in [H!K -> [status : Statuses, written : BOOLEAN]]
  /\ wire \in [status : Statuses \cup {0}, authors : SUBSET (1..H!Handler), flushed : BOOLEAN]
  /\ ctx \in [0..Len(stack) -> Errs \cup {"nil"}] /\ fired \subseteq H!K
  /\ verdict \in [H!K -> {"none", "refused", "failure", "success"}]
  /\ writes \in Nat /\ ran \in BOOLEAN

\* On the way in nothing has been written.
Blank == wire.status = 0 /\ wire.authors = {}
Untouched == hphase = "in" /\ hat \in H!K => Blank

\* The recorders still to be passed on the way out agree with what the client has.
Ahead(j) == j <= hat \/ hphase = "in"
Recorded ==
  ~wire.flushed => \A j \in H!K : Ahead(j) /\ stack[j] # "ratelimit" =>
    /\ rec[j].written <=> wire.status # 0
    /\ rec[j].status = IF wire.status = 0 THEN 200 ELSE wire.status

\* Who has written, by what the client has.
Authored ==
  /\ wire.status = 0 => wire.authors = {}
  /\ wire.flushed => H!Handler \in wire.authors
  /\ hat = H!Handler => wire.authors \subseteq {H!Handler}
  /\ ~wire.flushed /\ wire.status = 200 =>
       \A p \in wire.authors : p = H!Handler \/ stack[p] = "timeout"
  /\ ~wire.flushed /\ wire.status # 200 => \E p \in 1..H!Handler : wire.authors \subseteq {p}

\* A context ends with those derived from it, and begins to end where a deadline is.
Ended ==
  /\ \A i, j \in 0..Len(stack) : i <= j /\ ctx[i] # "nil" => ctx[j] # "nil"
  /\ \A k \in fired : ctx[k] # "nil" /\ stack[k] = "stream"
  /\ \A k \in H!K : ctx[k] # "nil" /\ ctx[k - 1] = "nil" =>
       stack[k] \in {"timeout", "preset"} \/ k \in fired

\* The layers inside of k left no deadline unanswered.
Well(k) == ran /\ \A j \in k..Len(stack) : ctx[j] = "nil"

\* A response that is still missing is owed by somebody further out, or by nobody.
Owed ==
  /\ hphase = "back" /\ wire.status = 0 => ctx[hat] # "nil" \/ Well(hat)
  /\ wire.status = 200 /\ H!Handler \notin wire.authors =>
       hat = 0 /\ (ctx[0] # "nil" \/ Well(0))

\* A verdict was right when it was given, and only layers further out write after it.
Verdicts ==
  ~wire.flushed => \A k \in H!K :
    /\ verdict[k] \in {"success", "failure"} => hat < k /\ hphase = "back"
    /\ verdict[k] = "failure" => wire.status >= 500 \/ ctx[k] # "nil"
    /\ verdict[k] = "success" =>
         /\ wire.status < 500 \/ wire.authors \cap 1..(k - 1) # {}
         /\ k \notin fired /\ (ctx[k] = "nil" \/ ctx[k - 1] # "nil")

HttpIInv == Shaped /\ Untouched /\ Recorded /\ Authored /\ Ended /\ Owed /\ Verdicts

-----------------------------------------------------------------------------
(* What the steps do, told by the response and not by the recorders.        *)

\* A layer lets the request in.
LetsIn ==
  /\ hphase = "in" /\ hat \in H!K /\ hat' = hat + 1 /\ hphase' = "in"
  /\ UNCHANGED <<stack, rec, wire, ctx, fired, verdict, writes, ran>>

\* A layer answers for the handler, or drops a request whose context has ended.
TurnsAway ==
  /\ hphase = "in" /\ hat \in H!K /\ hat' = hat - 1 /\ hphase' = "back"
  /\ \/ verdict' = verdict
     \/ verdict' = [verdict EXCEPT ![hat] = "refused"]
  /\ \/ \E s \in Statuses \ {200} : H!Write(hat, hat - 1, s)
     \/ ctx[hat - 1] # "nil" /\ rec' = rec /\ wire' = wire
  /\ UNCHANGED <<stack, ctx, fired, writes, ran>>

\* What a layer may write on the way out: an answer where there is none, or, for Timeout,
\* more after a 200.
Answers ==
  \/ /\ \E s \in Statuses \ {200}, k \in {hat - 1, hat} : H!Write(hat, k, s)
     /\ \/ wire.flushed
        \/ wire.status = 0
        \/ wire.status = 200 /\ stack[hat] = "timeout"
  \/ /\ rec' = rec /\ wire' = wire
     /\ wire.status = 0 => ctx[hat - 1] # "nil" \/ ctx[hat] = "nil"

\* What a layer may record on the way out.
Records ==
  \/ verdict' = verdict
  \/ /\ verdict' = [verdict EXCEPT ![hat] = "failure"]
     /\ wire.flushed \/ wire.status >= 500 \/ ctx[hat] # "nil"
  \/ /\ verdict' = [verdict EXCEPT ![hat] = "success"]
     /\ wire.flushed \/ wire.status < 500
     /\ hat \notin fired /\ (ctx[hat] = "nil" \/ ctx[hat - 1] # "nil")
     /\ wire' = wire

ComesBack ==
  /\ hphase = "back" /\ hat \in H!K /\ hat' = hat - 1 /\ hphase' = "back"
  /\ Answers /\ Records
  /\ UNCHANGED <<stack, ctx, fired, writes, ran>>

\* The context of layer k ends while k waits for what is inside of it.
Stops ==
  \E k \in 0..Len(stack), e \in Errs :
    /\ hat > 0 /\ k <= hat /\ (k = hat => hphase = "back") /\ H!Cancel(k, e)
    /\ \/ fired' = fired /\ (k = 0 \/ stack[k] \in {"timeout", "preset"})
       \/ fired' = fired \cup {k} /\ k \in H!K /\ stack[k] = "stream"
    /\ UNCHANGED <<stack, hat, hphase, rec, wire, verdict, writes, ran>>

\* Facts of arithmetic about positions.
LEMMA Positions ==
  ASSUME Shaped
  PROVE  /\ Len(stack) \in Nat /\ H!Handler = Len(stack) + 1 /\ H!Handler \in 1..H!Handler
         /\ H!K = 1..Len(stack) /\ hat \in Int
         /\ \A k \in H!K : k \in Nat /\ k - 1 \in 0..Len(stack) /\ k \in 0..Len(stack)
                         /\ k \in 1..H!Handler /\ stack[k] \in H!Layers
<1>1. Len(stack) \in Nat /\ \A k \in 1..Len(stack) : stack[k] \in H!Layers
  BY DEF Shaped
<1> QED BY <1>1 DEF Shaped, H!K, H!Handler

\* What each layer does on the way in.
LEMMA InKinds ==
  ASSUME HttpIInv, H!RateLimitIn \/ H!BreakerIn \/ H!TimeoutIn \/ H!StreamIn \/ H!PresetIn
  PROVE  LetsIn \/ TurnsAway
<1> USE DEF H!Is, H!GoIn, H!GoOut, H!Silent, H!Error, H!Judge, Statuses
<1>0. Shaped /\ hat \in Int BY Positions DEF HttpIInv
<1>1. CASE H!RateLimitIn
  BY <1>1 DEF H!RateLimitIn, LetsIn, TurnsAway
<1>2. CASE H!BreakerIn
  BY <1>2 DEF H!BreakerIn, LetsIn, TurnsAway
<1>3. CASE H!TimeoutIn
  BY <1>3 DEF H!TimeoutIn, LetsIn, TurnsAway
<1>4. CASE H!StreamIn
  BY <1>4 DEF H!StreamIn, LetsIn, TurnsAway
<1>5. CASE H!PresetIn
  <2>1. hat \in H!K BY <1>5 DEF H!PresetIn
  <2>2. ctx[hat - 1] \in Errs \cup {"nil"}
    <3>1. ctx \in [0..Len(stack) -> Errs \cup {"nil"}] BY <1>0 DEF Shaped
    <3>2. hat - 1 \in 0..Len(stack) BY <1>0, <2>1, Positions
    <3> QED BY <3>1, <3>2
  <2>3. ctx[hat - 1] # "nil" => H!Status(ctx[hat - 1]) \in Statuses \ {200}
    BY <2>2 DEF H!Status, Errs
  <2>4. H!Status("open") \in Statuses \ {200} BY DEF H!Status
  <2> QED BY <1>5, <2>3, <2>4 DEF H!PresetIn, LetsIn, TurnsAway
<1> QED BY <1>1, <1>2, <1>3, <1>4, <1>5

\* The recorder of the layer that is being left tells what the client has.
LEMMA RecorderTells ==
  ASSUME HttpIInv, hphase = "back", hat \in H!K, stack[hat] # "ratelimit"
  PROVE  /\ ~wire.flushed => (rec[hat].written <=> wire.status # 0)
         /\ ~wire.flushed => rec[hat].status = IF wire.status = 0 THEN 200 ELSE wire.status
         /\ wire.status = 0 => ~wire.flushed
         /\ wire.status \in Nat /\ rec[hat].status \in Nat /\ rec[hat].written \in BOOLEAN
<1>1. hat \in Int BY Positions DEF HttpIInv
<1>2. wire.status \in Nat /\ rec[hat].status \in Nat /\ rec[hat].written \in BOOLEAN
  <2>1. rec[hat].written \in BOOLEAN BY DEF HttpIInv, Shaped
  <2>2. rec[hat].status \in Statuses BY DEF HttpIInv, Shaped
  <2>3. wire.status \in Statuses \cup {0} BY DEF HttpIInv, Shaped
  <2>4. wire.status \in Nat BY <2>3 DEF Statuses
  <2>5. rec[hat].status \in Nat BY <2>2 DEF Statuses
  <2> QED BY <2>1, <2>4, <2>5, Zenon
<1>3. wire.status = 0 => ~wire.flushed
  BY DEF HttpIInv, Authored
<1> QED BY <1>1, <1>2, <1>3 DEF HttpIInv, Recorded, Ahead

\* Where no deadline is, a context ends only with the one outside.
LEMMA EndsOutside ==
  ASSUME HttpIInv, hat \in H!K, ctx[hat - 1] = "nil"
  PROVE  /\ stack[hat] \in {"ratelimit", "breaker"} => ctx[hat] = "nil"
         /\ stack[hat] = "stream" /\ hat \notin fired => ctx[hat] = "nil"
BY DEF HttpIInv, Ended

\* What each layer does on the way out.
LEMMA OutKinds ==
  ASSUME HttpIInv, H!RateLimitOut \/ H!BreakerOut \/ H!TimeoutOut \/ H!StreamOut \/ H!PresetOut
  PROVE  ComesBack
<1> DEFINE s == rec[hat].status
           w == wire.status
<1>0. Shaped BY DEF HttpIInv
<1>1. CASE H!RateLimitOut
  <2>1. /\ hat \in H!K /\ stack[hat] = "ratelimit" /\ hphase = "back" /\ hat' = hat - 1
        /\ hphase' = "back"
        /\ rec' = rec /\ wire' = wire /\ verdict' = verdict
        /\ UNCHANGED <<stack, ctx, fired, writes, ran>>
    BY <1>1 DEF H!RateLimitOut, H!Is, H!GoOut
  <2> QED BY <2>1, EndsOutside DEF ComesBack, Answers, Records
<1>2. CASE H!BreakerOut
  <2>1. /\ hat \in H!K /\ stack[hat] = "breaker" /\ hphase = "back" /\ hat' = hat - 1
        /\ hphase' = "back"
        /\ UNCHANGED <<stack, ctx, fired, writes, ran>>
        /\ verdict' = [verdict EXCEPT ![hat] = IF s >= 500 THEN "failure" ELSE "success"]
        /\ \/ s >= 500 /\ ~rec[hat].written /\ H!Write(hat, hat - 1, 503)
           \/ rec' = rec /\ wire' = wire
    BY <1>2 DEF H!BreakerOut, H!Is, H!GoOut, H!Judge, H!Fails, H!Error, H!Silent
  <2>2. stack[hat] # "ratelimit" BY <2>1
  <2>3. Answers
    <3>1. CASE ~rec[hat].written /\ H!Write(hat, hat - 1, 503)
      <4>1. wire.flushed \/ w = 0 BY <2>1, <2>2, <3>1, RecorderTells
      <4> QED BY <3>1, <4>1 DEF Answers, Statuses
    <3>2. CASE rec' = rec /\ wire' = wire
      BY <3>2, <2>1, EndsOutside DEF Answers
    <3> QED BY <2>1, <3>1, <3>2
  <2>4. Records
    <3>1. s >= 500 => wire.flushed \/ w >= 500 BY <2>1, <2>2, RecorderTells
    <3>2. ~(s >= 500) => wire.flushed \/ w < 500 BY <2>1, <2>2, RecorderTells
    <3>3. hat \notin fired /\ (ctx[hat] = "nil" \/ ctx[hat - 1] # "nil")
      BY <2>1 DEF HttpIInv, Ended
    <3> QED BY <2>1, <3>1, <3>2, <3>3, ZenonT(60) DEF Records
  <2> QED BY <2>1, <2>3, <2>4 DEF ComesBack
<1>3. CASE H!TimeoutOut
  <2>1. /\ hat \in H!K /\ stack[hat] = "timeout" /\ hphase = "back" /\ hat' = hat - 1
        /\ hphase' = "back"
        /\ UNCHANGED <<stack, ctx, fired, writes, ran>>
        /\ verdict' = verdict
        /\ \/ (~rec[hat].written \/ s = 200) /\ H!Write(hat, hat, 504)
           \/ (ctx[hat] = "nil" \/ rec[hat].written) /\ rec' = rec /\ wire' = wire
    BY <1>3 DEF H!TimeoutOut, H!Is, H!GoOut, H!Silent
  <2>2. stack[hat] # "ratelimit" BY <2>1
  <2>3. Answers
    <3>1. CASE (~rec[hat].written \/ s = 200) /\ H!Write(hat, hat, 504)
      <4>1. wire.flushed \/ w = 0 \/ w = 200 BY <2>1, <2>2, <3>1, RecorderTells
      <4> QED BY <2>1, <3>1, <4>1 DEF Answers, Statuses
    <3>2. CASE (ctx[hat] = "nil" \/ rec[hat].written) /\ rec' = rec /\ wire' = wire
      <4>1. w = 0 => ctx[hat] = "nil" BY <2>1, <2>2, <3>2, RecorderTells
      <4> QED BY <3>2, <4>1 DEF Answers
    <3> QED BY <2>1, <3>1, <3>2
  <2> QED BY <2>1, <2>3 DEF ComesBack, Records
<1>4. CASE H!StreamOut
  <2>1. /\ hat \in H!K /\ stack[hat] = "stream" /\ hphase = "back" /\ hat' = hat - 1
        /\ hphase' = "back"
        /\ UNCHANGED <<stack, ctx, fired, writes, ran>>
        /\ verdict' = [verdict EXCEPT ![hat] = IF hat \in fired \/ s >= 500
                                               THEN "failure" ELSE "success"]
        /\ \/ hat \in fired /\ ~rec[hat].written /\ H!Write(hat, hat - 1, 504)
           \/ /\ (hat \notin fired \/ ctx[hat - 1] # "nil" \/ rec[hat].written)
              /\ rec' = rec /\ wire' = wire
    BY <1>4 DEF H!StreamOut, H!Is, H!GoOut, H!Judge, H!Fails, H!Error, H!Silent, H!StreamAnswers
  <2>2. stack[hat] # "ratelimit" BY <2>1
  <2>3. Answers
    <3>1. CASE ~rec[hat].written /\ H!Write(hat, hat - 1, 504)
      <4>1. wire.flushed \/ w = 0 BY <2>1, <2>2, <3>1, RecorderTells
      <4> QED BY <3>1, <4>1 DEF Answers, Statuses
    <3>2. CASE /\ (hat \notin fired \/ ctx[hat - 1] # "nil" \/ rec[hat].written)
               /\ rec' = rec /\ wire' = wire
      <4>1. w = 0 => hat \notin fired \/ ctx[hat - 1] # "nil"
        BY <2>1, <2>2, <3>2, RecorderTells
      <4> QED BY <2>1, <3>2, <4>1, EndsOutside DEF Answers
    <3> QED BY <2>1, <3>1, <3>2
  <2>4. Records
    <3>1. hat \in fired => ctx[hat] # "nil" BY DEF HttpIInv, Ended
    <3>2. s >= 500 => wire.flushed \/ w >= 500 BY <2>1, <2>2, RecorderTells
    <3>3. ~(s >= 500) => wire.flushed \/ w < 500 BY <2>1, <2>2, RecorderTells
    <3>4. ctx[hat] = "nil" \/ ctx[hat - 1] # "nil" \/ hat \in fired
      BY <2>1 DEF HttpIInv, Ended
    <3> QED BY <2>1, <3>1, <3>2, <3>3, <3>4, ZenonT(60) DEF Records
  <2> QED BY <2>1, <2>3, <2>4 DEF ComesBack
<1>5. CASE H!PresetOut
  <2>1. /\ hat \in H!K /\ stack[hat] = "preset" /\ hphase = "back" /\ hat' = hat - 1
        /\ hphase' = "back"
        /\ UNCHANGED <<stack, ctx, fired, writes, ran>>
        /\ verdict' = [verdict EXCEPT ![hat] = IF H!PresetError = "nil"
                                               THEN "success" ELSE "failure"]
        /\ \/ ~rec[hat].written /\ H!PresetError # "nil"
                /\ H!Write(hat, hat - 1, H!Status(H!PresetError))
           \/ (H!PresetError = "nil" \/ rec[hat].written) /\ rec' = rec /\ wire' = wire
    BY <1>5 DEF H!PresetOut, H!Is, H!GoOut, H!Judge, H!Error, H!Silent
  <2>2. stack[hat] # "ratelimit" BY <2>1
  <2>0. ctx[hat] \in Errs \cup {"nil"} /\ ctx[hat - 1] \in Errs \cup {"nil"}
    BY <2>1, <1>0, Positions DEF Shaped
  <2>5. /\ H!PresetError = "nil" => ctx[hat] = "nil" /\ ~(s >= 500)
        /\ H!PresetError # "nil" => ctx[hat] # "nil" \/ s >= 500
        /\ H!PresetError \in {"nil", "open", "deadline", "canceled"}
    BY <2>0 DEF H!PresetError, Errs, H!Fails
  <2>6. H!PresetError # "nil" => H!Status(H!PresetError) \in Statuses \ {200}
    BY <2>5 DEF H!Status, Statuses
  <2>3. Answers
    <3>1. CASE ~rec[hat].written /\ H!PresetError # "nil"
                 /\ H!Write(hat, hat - 1, H!Status(H!PresetError))
      <4>1. wire.flushed \/ w = 0 BY <2>1, <2>2, <3>1, RecorderTells
      <4> QED BY <3>1, <4>1, <2>6 DEF Answers
    <3>2. CASE (H!PresetError = "nil" \/ rec[hat].written) /\ rec' = rec /\ wire' = wire
      <4>1. w = 0 => H!PresetError = "nil" BY <2>1, <2>2, <3>2, RecorderTells
      <4> QED BY <3>2, <4>1, <2>5 DEF Answers
    <3> QED BY <2>1, <3>1, <3>2
  <2>4. Records
    <3>2. s >= 500 => wire.flushed \/ w >= 500 BY <2>1, <2>2, RecorderTells
    <3>3. ~(s >= 500) => wire.flushed \/ w < 500 BY <2>1, <2>2, RecorderTells
    <3>4. hat \notin fired BY <2>1 DEF HttpIInv, Ended
    <3> QED BY <2>1, <3>2, <3>3, <3>4, <2>5, ZenonT(60) DEF Records
  <2> QED BY <2>1, <2>3, <2>4 DEF ComesBack
<1> QED BY <1>1, <1>2, <1>3, <1>4, <1>5

\* What ends a context.
LEMMA StopKinds ==
  ASSUME HttpIInv, H!ClientLeaves \/ \E k \in H!K : H!DeadlinePasses(k) \/ H!WatchdogFires(k)
  PROVE  Stops
<1>0. Shaped BY DEF HttpIInv
<1>1. CASE H!ClientLeaves
  <2>1. 0 \in 0..Len(stack) /\ "canceled" \in Errs /\ 0 <= hat /\ 0 # hat
    BY <1>0, <1>1, Positions DEF Errs, H!ClientLeaves, Shaped
  <2> QED BY <1>1, <2>1 DEF H!ClientLeaves, Stops
<1>2. ASSUME NEW k \in H!K, H!DeadlinePasses(k) \/ H!WatchdogFires(k) PROVE Stops
  <2>1. k \in 0..Len(stack) /\ {"canceled", "deadline"} = Errs /\ k >= 1
    BY <1>0, Positions DEF Errs, H!K
  <2>2. H!Running(k) /\ k <= hat /\ (k = hat => hphase = "back") /\ hat > 0
    BY <1>0, <1>2, <2>1, Positions DEF H!DeadlinePasses, H!WatchdogFires, H!Running
  <2>3. CASE H!DeadlinePasses(k)
    BY <2>1, <2>2, <2>3 DEF H!DeadlinePasses, Stops
  <2>4. CASE H!WatchdogFires(k)
    BY <2>1, <2>2, <2>4 DEF H!WatchdogFires, Stops
  <2> QED BY <1>2, <2>3, <2>4
<1> QED BY <1>1, <1>2

\* Every step is one of these.
LEMMA StepKinds ==
  ASSUME HttpIInv, H!Next
  PROVE  \/ LetsIn \/ TurnsAway \/ ComesBack \/ Stops
         \/ H!HandlerWrites \/ H!HandlerFlushes \/ H!HandlerReturns \/ H!ServerEnds
<1>1. CASE H!RateLimitIn \/ H!BreakerIn \/ H!TimeoutIn \/ H!StreamIn \/ H!PresetIn
  BY <1>1, InKinds
<1>2. CASE H!RateLimitOut \/ H!BreakerOut \/ H!TimeoutOut \/ H!StreamOut \/ H!PresetOut
  BY <1>2, OutKinds
<1>3. CASE H!ClientLeaves \/ \E k \in H!K : H!DeadlinePasses(k) \/ H!WatchdogFires(k)
  BY <1>3, StopKinds
<1> QED BY <1>1, <1>2, <1>3 DEF H!Next, H!Step

-----------------------------------------------------------------------------
(* The invariant is kept.                                                   *)

RecType == [status : Statuses, written : BOOLEAN]
WireType == [status : Statuses \cup {0}, authors : SUBSET (1..H!Handler), flushed : BOOLEAN]

\* What WriteHeader does to the response.
LEMMA WireWritten ==
  ASSUME Shaped, NEW p \in 1..H!Handler, NEW k \in Int, NEW s \in Statuses, H!Write(p, k, s)
  PROVE  /\ wire'.status = IF wire.status = 0 THEN s ELSE wire.status
         /\ wire'.authors = wire.authors \cup {p}
         /\ wire'.flushed = wire.flushed
         /\ wire' \in WireType
<1> DEFINE st == IF wire.status = 0 THEN s ELSE wire.status
           au == wire.authors \cup {p}
<1>1. wire \in WireType BY DEF Shaped, WireType, RecType
<1>2. wire' = [wire EXCEPT !.status = st, !.authors = au] BY DEF H!Write
<1>3. st \in Statuses \cup {0} /\ au \in SUBSET (1..H!Handler) BY <1>1 DEF WireType
<1> HIDE DEF st, au
<1>4. wire' = [status |-> st, authors |-> au, flushed |-> wire.flushed]
  BY <1>1, <1>2 DEF WireType
<1>5. wire.flushed \in BOOLEAN BY <1>1 DEF WireType
<1> QED BY <1>3, <1>4, <1>5 DEF WireType, st, au

\* What WriteHeader does to the recorders: those on the way take the status unless they
\* have one.
LEMMA RecWritten ==
  ASSUME Shaped, NEW p \in 1..H!Handler, NEW k \in Int, NEW s \in Statuses, H!Write(p, k, s),
         NEW j \in H!K, j <= k, stack[j] # "ratelimit"
  PROVE  /\ rec'[j].written
         /\ rec'[j].status = IF rec[j].written THEN rec[j].status ELSE s
<1>1. rec'[j] = IF ~rec[j].written THEN [status |-> s, written |-> TRUE] ELSE rec[j]
  BY DEF H!Write
<1>2. rec[j] \in RecType
  BY DEF Shaped, RecType
<1>3. CASE rec[j].written
  <2>1. rec'[j] = rec[j] BY <1>1, <1>3
  <2> QED BY <2>1, <1>2, <1>3 DEF RecType
<1>4. CASE ~rec[j].written
  <2>1. rec'[j] = [status |-> s, written |-> TRUE] BY <1>1, <1>4
  <2> QED BY <2>1, <1>4
<1> QED BY <1>3, <1>4

\* WriteHeader keeps the recorders' types.
LEMMA RecTyped ==
  ASSUME Shaped, NEW p \in 1..H!Handler, NEW k \in Int, NEW s \in Statuses, H!Write(p, k, s)
  PROVE  rec' \in [H!K -> RecType]
<1>1. rec' = [i \in H!K |-> IF i <= k /\ stack[i] # "ratelimit" /\ ~rec[i].written
                          THEN [status |-> s, written |-> TRUE] ELSE rec[i]]
  BY DEF H!Write
<1>2. \A j \in H!K : rec[j] \in RecType
  BY DEF Shaped, RecType
<1>3. [status |-> s, written |-> TRUE] \in RecType
  BY DEF RecType
<1> QED BY <1>1, <1>2, <1>3

\* After WriteHeader the recorders inside which the writer is agree with the client.
LEMMA WriteRecorded ==
  ASSUME HttpIInv, NEW p \in 1..H!Handler, NEW k \in Int, k <= hat, NEW s \in Statuses,
         H!Write(p, k, s),
         stack' = stack, \A j \in H!K : Ahead(j)' => j <= k
  PROVE  Recorded'
<1>0. Shaped /\ Recorded BY DEF HttpIInv
<1>1. SUFFICES ASSUME ~wire'.flushed, NEW j \in H!K, Ahead(j)', stack[j] # "ratelimit"
               PROVE  /\ rec'[j].written <=> wire'.status # 0
                      /\ rec'[j].status = IF wire'.status = 0 THEN 200 ELSE wire'.status
  <2>1. H!K' = H!K BY DEF H!K
  <2> QED BY <2>1 DEF Recorded
<1>2. /\ wire'.status = IF wire.status = 0 THEN s ELSE wire.status
      /\ wire'.flushed = wire.flushed
  BY <1>0, WireWritten
<1>3. j <= k /\ j <= hat /\ hat \in Int /\ j \in Int
  BY <1>0, <1>1, Positions
<1>4. /\ rec'[j].written
      /\ rec'[j].status = IF rec[j].written THEN rec[j].status ELSE s
  BY <1>0, <1>1, <1>3, RecWritten
<1>5. /\ rec[j].written <=> wire.status # 0
      /\ rec[j].status = IF wire.status = 0 THEN 200 ELSE wire.status
  BY <1>0, <1>1, <1>2, <1>3 DEF Recorded, Ahead
<1>6. wire'.status # 0 BY <1>2 DEF Statuses
<1>7. CASE wire.status = 0
  BY <1>2, <1>4, <1>5, <1>6, <1>7
<1>8. CASE wire.status # 0
  BY <1>2, <1>4, <1>5, <1>6, <1>8
<1> QED BY <1>7, <1>8

\* The types are kept.
LEMMA ShapedKept == HttpIInv /\ H!Next => Shaped'
<1> SUFFICES ASSUME HttpIInv, H!Next PROVE Shaped'
  OBVIOUS
<1>0. Shaped /\ Len(stack) \in Nat /\ hat \in Int /\ H!Handler \in 1..H!Handler
  BY Positions DEF HttpIInv
<1>p. ASSUME stack' = stack PROVE H!K' = H!K /\ H!Handler' = H!Handler
  BY <1>p DEF H!K, H!Handler
<1>1. CASE LetsIn
  <2>1. stack' = stack /\ hat' \in 0..H!Handler
          /\ hat' # 0 BY <1>0, <1>1 DEF LetsIn, H!K, H!Handler
  <2> QED BY <1>0, <1>1, <1>p, <2>1 DEF LetsIn, Shaped
<1>2. CASE TurnsAway
  <2>1. stack' = stack /\ hat' \in 0..H!Handler /\ hat' # H!Handler /\ hat \in 1..H!Handler
          /\ hat - 1 \in Int
    BY <1>0, <1>2 DEF TurnsAway, H!K, H!Handler
  <2>2. verdict' \in [H!K -> {"none", "refused", "failure", "success"}]
    BY <1>0, <1>2 DEF TurnsAway, Shaped
  <2>3. /\ rec' \in [H!K -> RecType] /\ wire' \in WireType
    <3>1. CASE \E s \in Statuses \ {200} : H!Write(hat, hat - 1, s)
      BY <1>0, <2>1, <3>1, WireWritten, RecTyped
    <3>2. CASE rec' = rec /\ wire' = wire
      BY <1>0, <3>2 DEF Shaped, WireType, RecType
    <3> QED BY <1>2, <3>1, <3>2 DEF TurnsAway
  <2> QED BY <1>0, <1>2, <1>p, <2>1, <2>2, <2>3 DEF TurnsAway, Shaped, WireType, RecType
<1>3. CASE ComesBack
  <2>1. stack' = stack /\ hat' \in 0..H!Handler /\ hat' # H!Handler /\ hat \in 1..H!Handler
          /\ hat - 1 \in Int
    BY <1>0, <1>3 DEF ComesBack, H!K, H!Handler
  <2>2. verdict' \in [H!K -> {"none", "refused", "failure", "success"}]
    BY <1>0, <1>3 DEF ComesBack, Records, Shaped
  <2>3. /\ rec' \in [H!K -> RecType] /\ wire' \in WireType
    <3>1. CASE \E s \in Statuses \ {200}, k \in {hat - 1, hat} : H!Write(hat, k, s)
      BY <1>0, <2>1, <3>1, WireWritten, RecTyped
    <3>2. CASE rec' = rec /\ wire' = wire
      BY <1>0, <3>2 DEF Shaped, WireType, RecType
    <3> QED BY <1>3, <3>1, <3>2 DEF ComesBack, Answers
  <2> QED BY <1>0, <1>3, <1>p, <2>1, <2>2, <2>3 DEF ComesBack, Shaped, WireType, RecType
<1>4. CASE Stops
  <2> PICK k \in 0..Len(stack), e \in Errs :
         /\ H!Cancel(k, e)
         /\ fired' = fired \/ (fired' = fired \cup {k} /\ k \in H!K)
         /\ UNCHANGED <<stack, hat, hphase, rec, wire, verdict, writes, ran>>
    BY <1>4 DEF Stops
  <2>1. ctx' \in [0..Len(stack) -> Errs \cup {"nil"}] /\ fired' \subseteq H!K
    BY <1>0 DEF H!Cancel, Shaped
  <2> QED BY <1>0, <1>p, <2>1 DEF Shaped
<1>5. CASE H!HandlerWrites
  <2>1. /\ UNCHANGED <<stack, hat, hphase, ctx, fired, verdict, ran>> /\ writes' = writes + 1
        /\ \E s \in Statuses : H!Write(H!Handler, Len(stack), s)
    BY <1>5 DEF H!HandlerWrites, Statuses
  <2>2. /\ rec' \in [H!K -> RecType] /\ wire' \in WireType
    BY <1>0, <2>1, WireWritten, RecTyped
  <2> QED BY <1>0, <1>p, <2>1, <2>2 DEF Shaped, WireType, RecType
<1>6. CASE H!HandlerFlushes
  <2>1. UNCHANGED <<stack, hat, hphase, rec, ctx, fired, verdict, ran>> /\ writes' = writes + 1
    BY <1>6 DEF H!HandlerFlushes
  <2>2. wire' \in WireType
    <3>1. wire \in WireType BY <1>0 DEF Shaped, WireType, RecType
    <3>2. CASE wire' = wire
      BY <3>1, <3>2
    <3>3. CASE wire' = [status |-> IF wire.status = 0 THEN 200 ELSE wire.status,
                        authors |-> wire.authors \cup {H!Handler},
                        flushed |-> wire.flushed \/ wire.status = 0]
      BY <1>0, <3>1, <3>3 DEF WireType, Statuses
    <3> QED BY <1>6, <3>2, <3>3 DEF H!HandlerFlushes
  <2> QED BY <1>0, <1>p, <2>1, <2>2 DEF Shaped, WireType, RecType
<1>7. CASE H!HandlerReturns
  <2>1. /\ UNCHANGED <<stack, rec, wire, ctx, fired, verdict, writes>> /\ ran' = TRUE
        /\ hat' = hat - 1 /\ hat = H!Handler /\ hphase' = "back"
    BY <1>7 DEF H!HandlerReturns, H!GoOut
  <2>2. hat' \in 0..H!Handler /\ hat' # H!Handler BY <1>0, <2>1 DEF H!Handler
  <2> QED BY <1>0, <1>p, <2>1, <2>2 DEF Shaped
<1>8. CASE H!ServerEnds
  <2>1. /\ UNCHANGED <<stack, hat, hphase, rec, ctx, fired, verdict, writes, ran>>
        /\ wire' = [wire EXCEPT !.status = 200]
    BY <1>8 DEF H!ServerEnds
  <2>2. wire' \in WireType BY <1>0, <2>1 DEF Shaped, WireType, Statuses
  <2> QED BY <1>0, <1>p, <2>1, <2>2 DEF Shaped, WireType, RecType
<1> QED BY StepKinds, <1>1, <1>2, <1>3, <1>4, <1>5, <1>6, <1>7, <1>8

\* A layer that is left has written where it was allowed to, or nothing.
Turned ==
  /\ hat \in H!K /\ hat' = hat - 1 /\ hphase' = "back"
  /\ UNCHANGED <<stack, ctx, fired, ran>> /\ wire'.flushed = wire.flushed
  /\ \/ wire' = wire
          /\ (wire.status = 0 => ctx[hat - 1] # "nil" \/ (hphase = "back" /\ ctx[hat] = "nil"))
     \/ /\ wire'.authors = wire.authors \cup {hat}
        /\ \E s \in Statuses \ {200} : wire'.status = IF wire.status = 0 THEN s ELSE wire.status
        /\ \/ wire.flushed
           \/ wire.status = 0
           \/ wire.status = 200 /\ stack[hat] = "timeout"

\* Both ways out of a layer are of this kind.
LEMMA OutTurned == HttpIInv /\ (TurnsAway \/ ComesBack) => Turned
<1> SUFFICES ASSUME HttpIInv, TurnsAway \/ ComesBack PROVE Turned
  OBVIOUS
<1>0. Shaped BY DEF HttpIInv
<1>1. /\ hat \in H!K /\ hat' = hat - 1 /\ hphase' = "back" /\ UNCHANGED <<stack, ctx, fired, ran>>
  BY DEF TurnsAway, ComesBack
<1>2. hat \in 1..H!Handler /\ hat \in Int /\ hat - 1 \in Int
  BY <1>0, <1>1, Positions
<1>3. ASSUME NEW s \in Statuses \ {200}, NEW k \in {hat - 1, hat}, H!Write(hat, k, s),
             wire.flushed \/ wire.status = 0 \/ (wire.status = 200 /\ stack[hat] = "timeout")
      PROVE  Turned
  <2>1. k \in Int BY <1>2
  <2>2. /\ wire'.status = IF wire.status = 0 THEN s ELSE wire.status
        /\ wire'.authors = wire.authors \cup {hat}
        /\ wire'.flushed = wire.flushed
    BY <1>0, <1>2, <1>3, <2>1, WireWritten
  <2> QED BY <1>1, <1>3, <2>2 DEF Turned
<1>4. CASE TurnsAway
  <2>1. wire.status = 0 BY <1>4 DEF TurnsAway, HttpIInv, Untouched, Blank
  <2> QED BY <1>1, <1>3, <1>4, <2>1 DEF TurnsAway, Turned
<1>5. CASE ComesBack
  BY <1>1, <1>3, <1>5 DEF ComesBack, Answers, Turned
<1> QED BY <1>4, <1>5

\* The recorders further out keep agreeing with the client.
LEMMA RecordedKept == HttpIInv /\ H!Next => Recorded'
<1> SUFFICES ASSUME HttpIInv, H!Next PROVE Recorded'
  OBVIOUS
<1>0. Shaped /\ Recorded /\ Len(stack) \in Nat /\ hat \in Int /\ H!Handler \in 1..H!Handler
      /\ H!Handler = Len(stack) + 1
  BY Positions DEF HttpIInv
<1>p. ASSUME stack' = stack PROVE H!K' = H!K
  BY <1>p DEF H!K
<1>q. ASSUME stack' = stack, rec' = rec, wire'.flushed = wire.flushed, wire'.status = wire.status,
             \A j \in H!K : Ahead(j)' => Ahead(j)
      PROVE  Recorded'
  BY <1>0, <1>p, <1>q DEF Recorded
<1>1. CASE LetsIn
  BY <1>1, <1>q DEF LetsIn, Ahead
<1>2. CASE TurnsAway \/ ComesBack
  <2>0. \A j \in H!K : j \in Int BY <1>0, Positions
  <2>1. /\ hat \in H!K /\ hat' = hat - 1 /\ hphase' = "back" /\ stack' = stack /\ hat - 1 \in Int
        /\ hat \in 1..H!Handler
    BY <1>0, <1>2, Positions DEF TurnsAway, ComesBack
  <2>2. \/ rec' = rec /\ wire' = wire
        \/ \E s \in Statuses, k \in {hat - 1, hat} : H!Write(hat, k, s)
    BY <1>2 DEF TurnsAway, ComesBack, Answers
  <2>3. CASE rec' = rec /\ wire' = wire
    BY <1>0, <1>q, <2>1, <2>3, <2>0 DEF Ahead
  <2>4. ASSUME NEW s \in Statuses, NEW k \in {hat - 1, hat}, H!Write(hat, k, s) PROVE Recorded'
    <3>1. k \in Int /\ k <= hat
            /\ \A j \in H!K : Ahead(j)' => j <= k BY <1>0, <2>0, <2>1 DEF Ahead
    <3> QED BY <2>1, <2>4, <3>1, WriteRecorded
  <2> QED BY <2>2, <2>3, <2>4
<1>4. CASE Stops
  BY <1>0, <1>4, <1>q DEF Stops, Ahead
<1>5. CASE H!HandlerWrites
  <2>1. PICK s \in Statuses : H!Write(H!Handler, Len(stack), s)
    BY <1>5 DEF H!HandlerWrites, Statuses
  <2>2. stack' = stack /\ hat' = hat /\ hat = H!Handler BY <1>5 DEF H!HandlerWrites
  <2>3. \A j \in H!K : j <= Len(stack) BY <1>0 DEF H!K
  <2>4. Len(stack) <= hat /\ Len(stack) \in Int BY <1>0, <2>2
  <2> QED BY <1>0, <2>1, <2>2, <2>3, <2>4, WriteRecorded
<1>6. CASE H!HandlerFlushes
  <2>1. /\ UNCHANGED <<stack, hat, hphase, rec>>
        /\ \/ wire' = wire
           \/ wire' = [status |-> IF wire.status = 0 THEN 200 ELSE wire.status,
                       authors |-> wire.authors \cup {H!Handler},
                       flushed |-> wire.flushed \/ wire.status = 0]
    BY <1>6 DEF H!HandlerFlushes
  <2>2. wire'.flushed \/ (wire'.flushed = wire.flushed /\ wire'.status = wire.status)
    <3> DEFINE f == wire.flushed \/ wire.status = 0
               s == IF wire.status = 0 THEN 200 ELSE wire.status
    <3>1. wire.flushed \in BOOLEAN /\ f \in BOOLEAN BY <1>0 DEF Shaped
    <3>2. CASE wire' = wire
      BY <3>2
    <3>3. CASE wire' = [status |-> s, authors |-> wire.authors \cup {H!Handler}, flushed |-> f]
      <4> HIDE DEF f, s
      <4>1. wire'.flushed = f /\ wire'.status = s BY <3>3
      <4>2. f \/ (f = wire.flushed /\ s = wire.status)
        BY <3>1 DEF f, s
      <4> QED BY <4>1, <4>2
    <3> QED BY <2>1, <3>2, <3>3
  <2>3. CASE wire'.flushed
    BY <2>3 DEF Recorded
  <2>4. CASE wire'.flushed = wire.flushed /\ wire'.status = wire.status
    BY <1>q, <2>1, <2>4 DEF Ahead
  <2> QED BY <2>2, <2>3, <2>4
<1>7. CASE H!HandlerReturns
  <2>1. \A j \in H!K : j <= hat BY <1>0, <1>7 DEF H!HandlerReturns, H!K
  <2> QED BY <1>0, <1>7, <1>q, <2>1 DEF H!HandlerReturns, H!GoOut, Ahead
<1>8. CASE H!ServerEnds
  <2>1. hat' = 0 /\ stack' = stack /\ hphase' = "back" BY <1>0, <1>8 DEF H!ServerEnds, Shaped
  <2>2. \A j \in H!K : ~(j <= 0) BY <1>0 DEF H!K
  <2> QED BY <1>p, <2>1, <2>2 DEF Recorded, Ahead
<1> QED BY StepKinds, <1>1, <1>2, <1>4, <1>5, <1>6, <1>7, <1>8

\* Nothing is written on the way in.
LEMMA UntouchedKept == HttpIInv /\ H!Next => Untouched'
<1> SUFFICES ASSUME HttpIInv, H!Next PROVE Untouched'
  OBVIOUS
<1>0. Shaped /\ Untouched /\ Len(stack) \in Nat /\ H!Handler = Len(stack) + 1
  BY Positions DEF HttpIInv
<1>p. ASSUME stack' = stack PROVE H!K' = H!K
  BY <1>p DEF H!K
<1>1. CASE LetsIn
  BY <1>0, <1>1, <1>p DEF LetsIn, Untouched, Blank
<1>2. CASE TurnsAway \/ ComesBack \/ H!HandlerReturns
  BY <1>2 DEF TurnsAway, ComesBack, H!HandlerReturns, H!GoOut, Untouched
<1>3. CASE Stops
  BY <1>0, <1>3, <1>p DEF Stops, Untouched, Blank
<1>4. CASE H!HandlerWrites \/ H!HandlerFlushes
  <2>1. hat' = H!Handler /\ stack' = stack BY <1>4 DEF H!HandlerWrites, H!HandlerFlushes
  <2>2. H!Handler \notin H!K BY <1>0 DEF H!K
  <2> QED BY <1>p, <2>1, <2>2 DEF Untouched
<1>5. CASE H!ServerEnds
  BY <1>0, <1>5 DEF H!ServerEnds, Untouched, Shaped
<1> QED BY StepKinds, <1>1, <1>2, <1>3, <1>4, <1>5

\* Only Timeout adds to a response, and only to a 200.
LEMMA AuthoredKept == HttpIInv /\ H!Next => Authored'
<1> SUFFICES ASSUME HttpIInv, H!Next PROVE Authored'
  OBVIOUS
<1>0. Shaped /\ Untouched /\ Authored /\ Len(stack) \in Nat /\ H!Handler = Len(stack) + 1
      /\ hat \in Int /\ H!Handler \in 1..H!Handler
  BY Positions DEF HttpIInv
<1>p. ASSUME stack' = stack PROVE H!K' = H!K /\ H!Handler' = H!Handler
  BY <1>p DEF H!K, H!Handler
<1>q. ASSUME stack' = stack, wire' = wire, hat' = H!Handler => hat = H!Handler
      PROVE  Authored'
  BY <1>0, <1>p, <1>q DEF Authored
<1>1. CASE LetsIn
  <2>1. Blank /\ wire' = wire /\ stack' = stack
    BY <1>0, <1>1 DEF LetsIn, Untouched
  <2> QED BY <1>0, <1>p, <2>1 DEF Authored, Blank
<1>2. CASE TurnsAway \/ ComesBack
  <2>1. Turned BY <1>2, OutTurned
  <2>2. /\ hat \in H!K /\ hat' # H!Handler /\ stack' = stack /\ hat \in 1..H!Handler
    BY <1>0, <2>1 DEF Turned, H!K
  <2>3. CASE wire' = wire
    BY <1>q, <2>2, <2>3
  <2>4. CASE /\ wire'.authors = wire.authors \cup {hat}
             /\ \E s \in Statuses \ {200} : wire'.status = IF wire.status = 0
                                                           THEN s ELSE wire.status
             /\ \/ wire.flushed
                \/ wire.status = 0
                \/ wire.status = 200 /\ stack[hat] = "timeout"
    <3>0. wire'.flushed = wire.flushed BY <2>1 DEF Turned
    <3>1. wire'.status # 0 BY <2>4 DEF Statuses
    <3>2. CASE wire.flushed
      BY <1>0, <1>p, <2>2, <2>4, <3>0, <3>1, <3>2 DEF Authored
    <3>3. CASE wire.status = 0
      <4>1. wire'.authors = {hat} /\ wire'.status # 200 /\ ~wire'.flushed
        BY <1>0, <2>4, <3>0, <3>3 DEF Authored, Shaped
      <4> QED BY <1>p, <2>2, <3>1, <4>1 DEF Authored
    <3>4. CASE ~wire.flushed /\ wire.status = 200 /\ stack[hat] = "timeout"
      <4>1. wire'.status = 200 BY <2>4, <3>4
      <4>2. \A p \in wire'.authors : p = H!Handler \/ stack[p] = "timeout"
        BY <1>0, <2>4, <3>4 DEF Authored
      <4> QED BY <1>p, <2>2, <3>0, <3>4, <4>1, <4>2 DEF Authored
    <3> QED BY <2>4, <3>2, <3>3, <3>4
  <2> QED BY <2>1, <2>3, <2>4 DEF Turned
<1>3. CASE Stops \/ H!HandlerReturns
  <2>1. wire' = wire /\ stack' = stack /\ (hat' = H!Handler => hat = H!Handler)
    BY <1>3 DEF Stops, H!HandlerReturns
  <2> QED BY <1>q, <2>1
<1>4. CASE H!HandlerWrites
  <2>1. PICK s \in Statuses : H!Write(H!Handler, Len(stack), s)
    BY <1>4 DEF H!HandlerWrites, Statuses
  <2>2. stack' = stack /\ hat' = hat /\ hat = H!Handler BY <1>4 DEF H!HandlerWrites
  <2>3. Len(stack) \in Int BY <1>0
  <2>4. /\ wire'.status = IF wire.status = 0 THEN s ELSE wire.status
        /\ wire'.authors = wire.authors \cup {H!Handler}
    BY <1>0, <2>1, <2>3, WireWritten
  <2>5. wire'.authors = {H!Handler} /\ wire'.status # 0
    BY <1>0, <2>2, <2>4 DEF Authored, Statuses
  <2> QED BY <1>0, <1>p, <2>2, <2>5 DEF Authored
<1>5. CASE H!HandlerFlushes
  <2>1. hat = H!Handler /\ hat' = hat /\ stack' = stack BY <1>5 DEF H!HandlerFlushes
  <2>2. CASE wire' = wire
    BY <1>q, <2>1, <2>2
  <2>3. CASE wire' = [status |-> IF wire.status = 0 THEN 200 ELSE wire.status,
                      authors |-> wire.authors \cup {H!Handler},
                      flushed |-> wire.flushed \/ wire.status = 0]
    <3>1. wire'.authors = {H!Handler} /\ wire'.status # 0
      BY <1>0, <2>1, <2>3 DEF Authored
    <3> QED BY <1>0, <1>p, <2>1, <3>1 DEF Authored
  <2> QED BY <1>5, <2>2, <2>3 DEF H!HandlerFlushes
<1>6. CASE H!ServerEnds
  <2>1. hat' = 0 /\ stack' = stack /\ wire' = [wire EXCEPT !.status = 200] /\ wire.status = 0
    BY <1>6 DEF H!ServerEnds
  <2>2. wire'.authors = wire.authors /\ wire'.flushed = wire.flushed /\ wire'.status = 200
    BY <1>0, <2>1 DEF Shaped
  <2>3. 0 # H!Handler /\ wire.authors = {} BY <1>0, <2>1 DEF Authored
  <2> QED BY <1>0, <1>p, <2>1, <2>2, <2>3 DEF Authored
<1> QED BY StepKinds, <1>1, <1>2, <1>3, <1>4, <1>5, <1>6

\* Contexts keep ending from the outside in.
LEMMA EndedKept == HttpIInv /\ H!Next => Ended'
<1> SUFFICES ASSUME HttpIInv, H!Next PROVE Ended'
  OBVIOUS
<1>0. Shaped /\ Ended /\ Len(stack) \in Nat /\ H!K = 1..Len(stack)
  BY Positions DEF HttpIInv
<1>p. ASSUME stack' = stack PROVE H!K' = H!K
  BY <1>p DEF H!K
<1>1. CASE Stops
  <2> PICK k \in 0..Len(stack), e \in Errs :
         /\ H!Cancel(k, e)
         /\ \/ fired' = fired /\ (k = 0 \/ stack[k] \in {"timeout", "preset"})
            \/ fired' = fired \cup {k} /\ k \in H!K /\ stack[k] = "stream"
         /\ stack' = stack
    BY <1>1 DEF Stops
  <2>1. \A i \in 0..Len(stack) : ctx'[i] = IF i >= k /\ ctx[i] = "nil" THEN e ELSE ctx[i]
    BY <1>0 DEF H!Cancel, Shaped
  <2>2. e # "nil" BY DEF Errs
  <2>3. \A i \in 0..Len(stack) : ctx'[i] = "nil" <=> ctx[i] = "nil" /\ i < k
    BY <2>1, <2>2
  <2>4. \A i, j \in 0..Len(stack) : i <= j /\ ctx'[i] # "nil" => ctx'[j] # "nil"
    BY <1>0, <2>3 DEF Ended
  <2>5. \A i \in fired' : ctx'[i] # "nil" /\ stack[i] = "stream"
    <3>1. \A i \in fired : i \in 0..Len(stack) BY <1>0 DEF Shaped
    <3> QED BY <1>0, <2>3, <3>1 DEF Ended
  <2>6. ASSUME NEW i \in H!K, ctx'[i] # "nil", ctx'[i - 1] = "nil"
        PROVE  stack[i] \in {"timeout", "preset"} \/ i \in fired'
    <3>1. i \in 0..Len(stack) /\ i - 1 \in 0..Len(stack) /\ i \in Int BY <1>0
    <3>2. ctx[i - 1] = "nil" /\ i - 1 < k BY <2>3, <2>6, <3>1
    <3>3. CASE ctx[i] # "nil"
      BY <1>0, <3>2, <3>3 DEF Ended
    <3>4. CASE ctx[i] = "nil"
      <4>1. i = k BY <2>3, <2>6, <3>1, <3>2, <3>4
      <4>2. k # 0 BY <1>0, <4>1
      <4> QED BY <4>1, <4>2
    <3> QED BY <3>3, <3>4
  <2> QED BY <1>p, <2>4, <2>5, <2>6 DEF Ended
<1>2. CASE ~Stops
  <2>1. stack' = stack /\ ctx' = ctx /\ fired' = fired
    BY <1>2, StepKinds DEF LetsIn, TurnsAway, ComesBack, H!HandlerWrites, H!HandlerFlushes,
       H!HandlerReturns, H!ServerEnds
  <2> QED BY <1>0, <1>p, <2>1 DEF Ended
<1> QED BY <1>1, <1>2

\* A response that nobody has given is never forgotten by the layers whose deadline it missed.
LEMMA OwedKept == HttpIInv /\ H!Next => Owed'
<1> SUFFICES ASSUME HttpIInv, H!Next PROVE Owed'
  OBVIOUS
<1>0. Shaped /\ Authored /\ Ended /\ Owed /\ Untouched /\ Len(stack) \in Nat
        /\ H!Handler = Len(stack) + 1
      /\ hat \in Int /\ H!K = 1..Len(stack) /\ H!Handler \in 1..H!Handler
  BY Positions DEF HttpIInv
<1>p. ASSUME stack' = stack PROVE H!Handler' = H!Handler
  BY <1>p DEF H!Handler
<1>1. CASE LetsIn
  <2>1. Blank /\ wire' = wire /\ hphase' = "in" BY <1>0, <1>1 DEF LetsIn, Untouched
  <2> QED BY <2>1 DEF Owed, Blank
<1>2. CASE TurnsAway \/ ComesBack
  <2>1. Turned BY <1>2, OutTurned
  <2>2. /\ hat \in H!K /\ stack' = stack /\ ctx' = ctx /\ ran' = ran /\ hat' = hat - 1
        /\ hphase' = "back"
        /\ hat # 0
    BY <1>0, <2>1 DEF Turned
  <2>3. wire'.status = 0 => ctx[hat - 1] # "nil" \/ Well(hat - 1)
    <3>1. SUFFICES ASSUME wire'.status = 0, ctx[hat - 1] = "nil" PROVE Well(hat - 1)
      OBVIOUS
    <3>2. wire' = wire /\ hphase = "back" /\ ctx[hat] = "nil"
      BY <2>1, <3>1 DEF Turned, Statuses
    <3>3. Well(hat) BY <1>0, <3>1, <3>2 DEF Owed
    <3>4. \A j \in (hat - 1)..Len(stack) : j = hat - 1 \/ j \in hat..Len(stack)
      BY <1>0
    <3> QED BY <3>1, <3>3, <3>4 DEF Well
  <2>4. ~(wire'.status = 200 /\ H!Handler \notin wire'.authors)
    BY <1>0, <2>1, <2>2 DEF Turned, Authored, Owed, Statuses
  <2> QED BY <1>p, <2>2, <2>3, <2>4 DEF Owed, Well
<1>3. CASE Stops
  <2> PICK k \in 0..Len(stack), e \in Errs :
         /\ hat > 0 /\ k <= hat /\ (k = hat => hphase = "back") /\ H!Cancel(k, e)
         /\ UNCHANGED <<stack, hat, hphase, rec, wire, verdict, writes, ran>>
    BY <1>3 DEF Stops
  <2>1. ~(wire.status = 200 /\ H!Handler \notin wire.authors) BY <1>0 DEF Owed
  <2>2. hphase = "back" => ctx'[hat] # "nil"
    <3>1. hphase = "back" => hat \in 0..Len(stack)
      BY <1>0 DEF Shaped
    <3>2. hphase = "back" => ctx'[hat] = IF hat >= k /\ ctx[hat] = "nil" THEN e ELSE ctx[hat]
      BY <1>0, <3>1 DEF H!Cancel, Shaped
    <3> QED BY <1>0, <3>2 DEF Errs
  <2> QED BY <1>p, <2>1, <2>2 DEF Owed
<1>4. CASE H!HandlerWrites
  <2>1. PICK s \in Statuses : H!Write(H!Handler, Len(stack), s)
    BY <1>4 DEF H!HandlerWrites, Statuses
  <2>2. stack' = stack /\ Len(stack) \in Int BY <1>0, <1>4 DEF H!HandlerWrites
  <2>3. H!Handler \in wire'.authors /\ wire'.status # 0
    BY <1>0, <2>1, <2>2, WireWritten DEF Statuses
  <2> QED BY <1>p, <2>2, <2>3 DEF Owed
<1>5. CASE H!HandlerFlushes
  <2>1. stack' = stack /\ hphase' = hphase /\ hphase = "in" /\ hat > 0
    BY <1>0, <1>5 DEF H!HandlerFlushes, Shaped
  <2>2. wire' = wire \/ H!Handler \in wire'.authors BY <1>5 DEF H!HandlerFlushes
  <2> QED BY <1>0, <1>p, <2>1, <2>2 DEF Owed
<1>6. CASE H!HandlerReturns
  <2>1. /\ stack' = stack /\ ctx' = ctx /\ wire' = wire /\ ran' = TRUE /\ hat' = Len(stack)
        /\ hat > 0
    BY <1>0, <1>6 DEF H!HandlerReturns, H!GoOut
  <2>2. ~(wire.status = 200 /\ H!Handler \notin wire.authors) BY <1>0, <2>1 DEF Owed
  <2>3. \A j \in Len(stack)..Len(stack) : j = Len(stack) BY <1>0
  <2>4. ctx[Len(stack)] # "nil" \/ Well(hat)' BY <2>1, <2>3 DEF Well
  <2> QED BY <1>p, <2>1, <2>2, <2>4 DEF Owed
<1>7. CASE H!ServerEnds
  <2>1. /\ hat = 0 /\ hat' = hat /\ stack' = stack /\ ctx' = ctx /\ ran' = ran /\ hphase' = hphase
        /\ wire' = [wire EXCEPT !.status = 200] /\ wire.status = 0
    BY <1>7 DEF H!ServerEnds
  <2>2. wire'.status = 200 BY <1>0, <2>1 DEF Shaped
  <2>3. ctx[0] # "nil" \/ Well(0) BY <1>0, <2>1 DEF Owed, Shaped
  <2> QED BY <1>p, <2>1, <2>2, <2>3 DEF Owed, Well
<1> QED BY StepKinds, <1>1, <1>2, <1>3, <1>4, <1>5, <1>6, <1>7

\* What a breaker has recorded about k, by the response.
Verdict(k) ==
  /\ verdict[k] \in {"success", "failure"} => hat < k /\ hphase = "back"
  /\ verdict[k] = "failure" => wire.status >= 500 \/ ctx[k] # "nil"
  /\ verdict[k] = "success" =>
       /\ wire.status < 500 \/ wire.authors \cap 1..(k - 1) # {}
       /\ k \notin fired /\ (ctx[k] = "nil" \/ ctx[k - 1] # "nil")

\* Verdicts stay right: only layers outside of a breaker write after it.
LEMMA JudgedKept == HttpIInv /\ H!Next => Verdicts'
<1> SUFFICES ASSUME HttpIInv, H!Next PROVE Verdicts'
  OBVIOUS
<1>0. Shaped /\ Verdicts /\ Len(stack) \in Nat /\ H!Handler = Len(stack) + 1
      /\ hat \in Int /\ H!K = 1..Len(stack) /\ H!Handler \in 1..H!Handler
      /\ wire.status \in Nat
  BY Positions DEF HttpIInv, Shaped, Statuses
<1>p. ASSUME stack' = stack PROVE H!K' = H!K
  BY <1>p DEF H!K
<1>j. ~wire.flushed => \A k \in H!K : Verdict(k) BY <1>0 DEF Verdicts, Verdict
<1>g. SUFFICES ASSUME ~wire'.flushed, NEW k \in H!K PROVE Verdict(k)'
  <2>1. stack' = stack
    BY StepKinds DEF LetsIn, TurnsAway, ComesBack, Stops, H!HandlerWrites, H!HandlerFlushes,
       H!HandlerReturns, H!ServerEnds
  <2> QED BY <1>p, <2>1 DEF Verdicts, Verdict
<1>k. k \in Int /\ k >= 1 /\ k <= Len(stack) /\ k \in 0..Len(stack) BY <1>0
<1>u. ASSUME UNCHANGED <<hat, hphase, verdict>>, wire'.flushed = wire.flushed,
             wire'.status = wire.status, wire'.authors = wire.authors,
             ctx[k] # "nil" => ctx'[k] # "nil",
             verdict[k] = "success" /\ k \notin fired /\ (ctx[k] = "nil" \/ ctx[k - 1] # "nil")
               => k \notin fired' /\ (ctx'[k] = "nil" \/ ctx'[k - 1] # "nil")
      PROVE  Verdict(k)'
  BY <1>g, <1>j, <1>u DEF Verdict
<1>n. ASSUME hphase = "in", ~wire.flushed, verdict'[k] = verdict[k] PROVE Verdict(k)'
  BY <1>j, <1>n DEF Verdict
<1>1. CASE LetsIn
  BY <1>1, <1>g, <1>n DEF LetsIn
<1>2. CASE TurnsAway \/ ComesBack
  <2>1. Turned BY <1>2, OutTurned
  <2>2. /\ hat' = hat - 1 /\ hphase' = "back" /\ ctx' = ctx /\ ~wire.flushed /\ hat \in H!K
        /\ hat \in Int
        /\ wire'.status \in Nat
    BY <1>0, <1>g, <2>1 DEF Turned, Statuses
  <2>f. fired' = fired BY <1>2 DEF TurnsAway, ComesBack
  <2>3. Verdict(k) BY <1>j, <2>2
  <2>4. wire.status >= 500 => wire'.status >= 500
    BY <1>0, <2>1 DEF Turned
  <2>5. hat < k => wire'.status < 500 \/ wire.status >= 500 \/ hat \in wire'.authors
    <3>1. wire' = wire \/ hat \in wire'.authors BY <2>1 DEF Turned
    <3> QED BY <1>0, <3>1
  <2>6. wire.authors \subseteq wire'.authors BY <2>1 DEF Turned
  <2>7. CASE verdict'[k] = verdict[k]
    <3>1. SUFFICES ASSUME verdict[k] \in {"success", "failure"} PROVE Verdict(k)'
      BY <2>7 DEF Verdict
    <3>2. hat < k /\ hphase = "back" BY <2>3, <3>1 DEF Verdict
    <3>3. hat' < k BY <1>k, <2>2, <3>2
    <3>4. CASE verdict[k] = "failure"
      BY <2>2, <2>3, <2>4, <2>7, <3>3, <3>4 DEF Verdict
    <3>5. CASE verdict[k] = "success"
      <4>1. hat \in 1..(k - 1) BY <1>0, <1>k, <2>2, <3>2
      <4>2. wire'.status < 500 \/ wire'.authors \cap 1..(k - 1) # {}
        BY <1>0, <2>3, <2>5, <2>6, <3>2, <3>5, <4>1 DEF Verdict
      <4> QED BY <2>2, <2>f, <2>3, <2>7, <3>3, <3>5, <4>2 DEF Verdict
    <3> QED BY <3>1, <3>4, <3>5
  <2>8. CASE verdict'[k] # verdict[k]
    <3>1. k = hat /\ hat' < k
      <4>1. verdict' = verdict \/ \E v : verdict' = [verdict EXCEPT ![hat] = v]
        BY <1>2 DEF TurnsAway, ComesBack, Records
      <4>2. k # hat => verdict'[k] = verdict[k] BY <1>0, <4>1 DEF Shaped
      <4> QED BY <1>k, <2>2, <2>8, <4>2
    <3>2. CASE verdict'[k] \notin {"success", "failure"}
      BY <3>2 DEF Verdict
    <3>3. CASE verdict'[k] = "failure"
      <4>1. wire.status >= 500 \/ ctx[hat] # "nil"
        BY <1>0, <1>2, <2>2, <2>8, <3>1, <3>3 DEF TurnsAway, ComesBack, Records, Shaped
      <4> QED BY <2>2, <2>4, <3>1, <3>3, <4>1 DEF Verdict
    <3>4. CASE verdict'[k] = "success"
      <4>1. /\ wire.status < 500 /\ wire' = wire
            /\ hat \notin fired /\ (ctx[hat] = "nil" \/ ctx[hat - 1] # "nil")
        BY <1>0, <1>2, <2>2, <2>8, <3>1, <3>4 DEF TurnsAway, ComesBack, Records, Shaped
      <4> QED BY <2>2, <2>f, <3>1, <3>4, <4>1 DEF Verdict
    <3> QED BY <3>2, <3>3, <3>4
  <2> QED BY <2>7, <2>8
<1>3. CASE Stops
  <2>1. PICK i \in 0..Len(stack), e \in Errs :
          /\ H!Cancel(i, e) /\ UNCHANGED <<hat, hphase, wire, verdict>>
          /\ i <= hat /\ (fired' = fired \/ fired' = fired \cup {i})
    BY <1>3 DEF Stops
  <2>2. ctx'[k] = IF k >= i /\ ctx[k] = "nil" THEN e ELSE ctx[k]
    BY <1>0, <1>k, <2>1 DEF H!Cancel, Shaped
  <2>3. ctx[k] # "nil" => ctx'[k] # "nil" BY <2>2
  <2>4. ctx'[k - 1] = IF k - 1 >= i /\ ctx[k - 1] = "nil" THEN e ELSE ctx[k - 1]
    BY <1>0, <1>k, <2>1 DEF H!Cancel, Shaped
  <2>5. e # "nil" /\ wire'.flushed = wire.flushed BY <2>1 DEF Errs
  <2>6. verdict[k] = "success" => i < k
    BY <1>0, <1>g, <1>j, <1>k, <2>1, <2>5 DEF Verdict
  <2>7. verdict[k] = "success" /\ k \notin fired /\ (ctx[k] = "nil" \/ ctx[k - 1] # "nil")
          => k \notin fired' /\ (ctx'[k] = "nil" \/ ctx'[k - 1] # "nil")
    <3>1. i < k => k - 1 >= i /\ k # i BY <1>k
    <3>2. i < k => ctx'[k - 1] # "nil" BY <2>4, <2>5, <3>1
    <3> QED BY <2>1, <2>6, <3>1, <3>2
  <2> QED BY <1>u, <2>1, <2>3, <2>7
<1>4. CASE H!HandlerWrites \/ H!HandlerFlushes \/ H!HandlerReturns
  <2>1. /\ hat = H!Handler /\ verdict' = verdict
    BY <1>4 DEF H!HandlerWrites, H!HandlerFlushes, H!HandlerReturns
  <2>2. hphase = "in" BY <1>0, <2>1 DEF Shaped
  <2>3. ~wire.flushed
    <3>1. CASE H!HandlerWrites
      <4>1. PICK s \in Statuses : H!Write(H!Handler, Len(stack), s)
        BY <3>1 DEF H!HandlerWrites, Statuses
      <4>2. Len(stack) \in Int BY <1>0
      <4> QED BY <1>0, <1>g, <4>1, <4>2, WireWritten
    <3>2. CASE H!HandlerFlushes
      <4>1. CASE wire' = wire BY <1>g, <4>1
      <4>2. CASE wire' = [status |-> IF wire.status = 0 THEN 200 ELSE wire.status,
                          authors |-> wire.authors \cup {H!Handler},
                          flushed |-> wire.flushed \/ wire.status = 0]
        <5>1. wire'.flushed = (wire.flushed \/ wire.status = 0) BY <4>2
        <5> QED BY <1>g, <5>1
      <4> QED BY <3>2, <4>1, <4>2 DEF H!HandlerFlushes
    <3>3. CASE H!HandlerReturns
      BY <1>g, <3>3 DEF H!HandlerReturns
    <3> QED BY <1>4, <3>1, <3>2, <3>3
  <2> QED BY <1>n, <2>1, <2>2, <2>3
<1>5. CASE H!ServerEnds
  <2>1. /\ UNCHANGED <<hat, hphase, ctx, fired, verdict>> /\ wire' = [wire EXCEPT !.status = 200]
        /\ wire.status = 0
    BY <1>5 DEF H!ServerEnds
  <2>2. wire'.status = 200 /\ wire'.authors = wire.authors /\ wire'.flushed = wire.flushed
    BY <1>0, <2>1 DEF Shaped
  <2>3. ~(wire.status >= 500) /\ 200 < 500 BY <2>1
  <2>4. Verdict(k) BY <1>g, <1>j, <2>2
  <2> QED BY <2>1, <2>2, <2>3, <2>4 DEF Verdict
<1> QED BY StepKinds, <1>1, <1>2, <1>3, <1>4, <1>5

\* The invariant holds at the beginning.
LEMMA HttpInit == HttpStacks \subseteq Seq(H!Layers) /\ H!Init => HttpIInv
<1> SUFFICES ASSUME HttpStacks \subseteq Seq(H!Layers), H!Init PROVE HttpIInv
  OBVIOUS
<1>1. stack \in Seq(H!Layers) /\ Len(stack) \in Nat BY DEF H!Init
<1>2. Shaped
  <2>1. hat \in 0..H!Handler /\ 1 # 0 /\ hat = 1 BY <1>1 DEF H!Init, H!Handler
  <2>2. wire \in [status : Statuses \cup {0}, authors : SUBSET (1..H!Handler), flushed : BOOLEAN]
    BY DEF H!Init
  <2>3. rec \in [H!K -> [status : Statuses, written : BOOLEAN]]
    BY DEF H!Init, Statuses
  <2> QED BY <1>1, <2>1, <2>2, <2>3 DEF H!Init, Shaped, Errs
<1>3. Untouched /\ Recorded /\ Ended /\ Verdicts
  BY <1>1 DEF H!Init, Untouched, Blank, Recorded, Ended, Verdicts, H!K
<1>4. Authored
  <2>1. 1 \in 1..H!Handler BY <1>1 DEF H!Handler
  <2> QED BY <2>1 DEF H!Init, Authored
<1>5. Owed BY DEF H!Init, Owed
<1> QED BY <1>2, <1>3, <1>4, <1>5 DEF HttpIInv

\* Every step keeps it.
LEMMA HttpNext == HttpIInv /\ [H!Next]_H!vars => HttpIInv'
<1> SUFFICES ASSUME HttpIInv, [H!Next]_H!vars PROVE HttpIInv'
  OBVIOUS
<1>1. CASE H!Next
  BY <1>1, ShapedKept, UntouchedKept, RecordedKept, AuthoredKept, EndedKept, OwedKept, JudgedKept
     DEF HttpIInv
<1>2. CASE UNCHANGED H!vars
  BY <1>2 DEF H!vars, HttpIInv, Shaped, Untouched, Blank, Recorded, Ahead, Authored, Ended, Owed,
              Well, Verdicts, H!K, H!Handler
<1> QED BY <1>1, <1>2

\* The invariant holds in every behaviour.
THEOREM HttpInvariance == HttpStacks \subseteq Seq(H!Layers) => (H!Spec => []HttpIInv)
<1> SUFFICES ASSUME HttpStacks \subseteq Seq(H!Layers) PROVE H!Spec => []HttpIInv
  OBVIOUS
<1>1. H!Init => HttpIInv BY HttpInit
<1>2. HttpIInv /\ [H!Next]_H!vars => HttpIInv' BY HttpNext
<1> QED BY <1>1, <1>2, PTL DEF H!Spec

\* HttpMiddleware counts as this module does.
LEMMA HttpCardinality == \A S : H!Cardinality(S) = Cardinality(S)
BY DEF H!Cardinality, Cardinality

\* OneAuthor: in every stack of middlewares, of any depth and order, a response has one author,
\* whatever deadlines pass and whichever layers refuse.  Before a Flush a layer writes only
\* where its recorder is empty, that is where nobody has written, or, Timeout, after a 200.
THEOREM ResponsesHaveOneAuthor == HttpStacks \subseteq Seq(H!Layers) => (H!Spec => []OneAuthor)
<1> SUFFICES ASSUME HttpStacks \subseteq Seq(H!Layers) PROVE H!Spec => []OneAuthor
  OBVIOUS
<1>1. HttpIInv => OneAuthor
  <2> SUFFICES ASSUME HttpIInv, ~wire.flushed, wire.status # 200
               PROVE  H!Cardinality(wire.authors) <= 1
    BY DEF HttpIInv, Authored, OneAuthor, H!OneAuthor
  <2>1. PICK p \in 1..H!Handler : wire.authors \subseteq {p} BY DEF HttpIInv, Authored
  <2>2. H!Cardinality({p}) = 1 /\ IsFiniteSet({p}) BY FS_Singleton, HttpCardinality
  <2>3. H!Cardinality(wire.authors) <= H!Cardinality({p})
    BY <2>1, <2>2, FS_Subset, HttpCardinality
  <2> QED BY <2>2, <2>3
<1> QED BY <1>1, HttpInvariance, PTL

\* NoFalseSuccess: net/http's default 200 is given only to a request that the handler saw and
\* no deadline cut short, or to nobody because the client has left: a layer that drops a
\* request without an answer does so because a context further out has ended, and that one's
\* layer answers.
THEOREM SilenceIsNoSuccess == HttpStacks \subseteq Seq(H!Layers) => (H!Spec => []NoFalseSuccess)
<1> SUFFICES ASSUME HttpStacks \subseteq Seq(H!Layers) PROVE H!Spec => []NoFalseSuccess
  OBVIOUS
<1>1. HttpIInv => NoFalseSuccess
  <2>1. ASSUME HttpIInv PROVE H!K \subseteq 0..Len(stack)
    BY <2>1, Positions DEF HttpIInv
  <2> QED BY <2>1 DEF HttpIInv, Owed, Well, NoFalseSuccess, H!NoFalseSuccess
<1> QED BY <1>1, HttpInvariance, PTL

\* BreakersJudgeTheResponse: in any stack, a recorded failure is a 5xx or a request whose
\* context ended; a recorded success is a status below 500, or one that a middleware outside
\* of the breaker answered, and neither a watchdog nor a deadline of the breaker's own layer
\* cut it short (http/middleware.go:66-70, http/streaming.go:78-85, http_handler.go:111-122).
\* Responses whose header a Flush sent are excepted; a context ended from outside is not.
THEOREM VerdictsAreRight ==
  HttpStacks \subseteq Seq(H!Layers) => (H!Spec => []BreakersJudgeTheResponse)
<1> SUFFICES ASSUME HttpStacks \subseteq Seq(H!Layers)
             PROVE H!Spec => []BreakersJudgeTheResponse
  OBVIOUS
<1>1. HttpIInv => BreakersJudgeTheResponse
  BY DEF HttpIInv, Verdicts, BreakersJudgeTheResponse, H!BreakersJudgeTheResponse, H!Breakers
<1> QED BY <1>1, HttpInvariance, PTL
===============================================================================
