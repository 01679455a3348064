---------------------------- MODULE MCCutStreams ----------------------------
(* TLC instance of HttpMiddleware that remembers which contexts had ended     *)
(* while the handler was still running.                                        *)
EXTENDS HttpMiddleware

VARIABLE cut  \* history: the layers whose context ended before the handler returned

MCStacks == {<<"stream">>, <<"ratelimit", "stream">>, <<"stream", "timeout">>}

CutInit == Init /\ cut = {}
CutNext == /\ Next
           /\ cut' = IF at = Handler THEN {k \in K : ctx[k] # "nil"} ELSE cut
CutSpec == CutInit /\ [][CutNext]_<<vars, cut>>

\* What http/streaming.go:79-80 says of CircuitBreakerStream: when the watchdog fired
\* or the context was cancelled, the breaker counts a failure.  Here: no request whose
\* context ended while its handler ran is recorded as a success.  The code does not
\* keep it: unless a watchdog fired, the stream timeout's Execute returns what its
\* function did, which is nil whatever became of the context, and the status decides.
CutStreamsAreFailures ==
  \A k \in K : stack[k] = "stream" /\ k \in cut => verdict[k] # "success"
=============================================================================
