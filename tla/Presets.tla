------------------------------- MODULE Presets -------------------------------
(***************************************************************************)
(* The chains that middleware/presets.go assembles: each preset takes its   *)
(* configuration as the user writes it, applies its defaults and gives the  *)
(* set of chains it returns, one, or none when it returns an error.         *)
(* HTTPRoundTripper is HTTPClient around a transport.                       *)
(***************************************************************************)
EXTENDS Chain

OrDefault(value, default) == IF value <= 0 THEN default ELSE value
OnlyIf(valid, c) == IF valid THEN {c} ELSE {}

\* What the presets give to retry.New.
Backoffs(attempts, initial, max) ==
  [policy |-> "exponential", attempts |-> attempts, initial |-> initial, max |-> max,
   multiplier |-> 2, jitter |-> TRUE,
   hasCustom |-> FALSE, custom |-> {}, retryable |-> {}, nonRetryable |-> {}]

Accepting(retry, es) == [retry EXCEPT !.hasCustom = TRUE, !.custom = es]

\* breaker, retry, timeout, from the outermost to the innermost.
Protected(retry, trip, trials) ==
  [preset |-> TRUE, layers |-> <<"breaker", "retry", "timeout">>, retry |-> retry,
   trip |-> trip, trials |-> trials, maxCalls |-> 0, maxSpend |-> 0]

ContextEnded(e) == Matches(e, {"cancelled", "deadline"})

\* Everything is retried but an open circuit and an ended context: a TimeoutError of
\* one attempt is among these.
HTTPClient(c) ==
  OnlyIf(c.timeout > 0,
         Protected(Accepting(Backoffs(OrDefault(c.maxRetries, 3), OrDefault(c.initial, 100), 0),
                             {e \in Errors : e # "open" /\ ~ContextEnded(e)}),
                   OrDefault(c.threshold, 5), 3))

DatabaseQuery(c) ==
  OnlyIf(c.timeout > 0,
         Protected(Backoffs(OrDefault(c.maxRetries, 2), 50, 500), OrDefault(c.threshold, 10), 2))

RPCDownstream(c) ==
  OnlyIf(c.timeout > 0,
         Protected(Backoffs(OrDefault(c.maxRetries, 3), 100, 2000), OrDefault(c.threshold, 5), 3))

\* A spent budget, an open circuit and an ended context never; a rate limit and an
\* error marked retryable always; others if the calls are idempotent.
llmIsRetryable(e, assumeIdempotent) ==
  /\ e \notin {"budget", "open"} /\ ~ContextEnded(e)
  /\ e \in {"refused", "marked"} \/ assumeIdempotent

\* The budget inside retry, so that every attempt is charged.
LLMCall(c) ==
  OnlyIf(c.timeout > 0 /\ (c.maxCalls > 0 \/ c.maxSpend > 0),
         [Protected(Accepting(Backoffs(OrDefault(c.maxRetries, 3), OrDefault(c.initial, 250), 0),
                              {e \in Errors : llmIsRetryable(e, c.idempotent)}),
                    OrDefault(c.threshold, 5), 3)
          EXCEPT !.layers = <<"gate", "breaker", "retry", "budget", "timeout">>,
                 !.maxCalls = c.maxCalls, !.maxSpend = c.maxSpend])
=============================================================================
