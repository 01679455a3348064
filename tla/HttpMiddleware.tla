---------------------------- MODULE HttpMiddleware ----------------------------
(***************************************************************************)
(* One request through a stack of HTTP middlewares around a handler: the   *)
(* adapters of package http (CircuitBreaker, RateLimit, Timeout,           *)
(* CircuitBreakerStream) and the HTTPHandler preset, in any order.  Each   *)
(* middleware but RateLimit hands its inner handler a recording writer, so *)
(* a header travels outwards through the recorders until one has a header  *)
(* already.  Deadlines pass and the client leaves between any two steps;   *)
(* the breakers and limiters, shown elsewhere, let a request in or refuse  *)
(* it.  Handlers neither panic nor hijack the connection nor push.         *)
(***************************************************************************)
EXTENDS Integers, Sequences, FiniteSets

CONSTANTS Stacks, MaxWrites  \* the stacks, outermost first; bound on the handler's writes

Layers == {"breaker", "ratelimit", "timeout", "stream", "preset"}

VARIABLES
  stack,
  at,       \* the layer that runs: 0 the server, Len(stack) + 1 the handler
  phase,    \* "in" or "back"
  rec,      \* per layer: its recorder's status and whether it has written
  wire,     \* what the client has: the status (0 = none yet), the layers that wrote,
            \* and whether the status was sent by a Flush
  ctx,      \* ctx[k]: the error of the context that layer k gives to k + 1; ctx[0]: the request's
  fired,    \* stream layers whose watchdog has fired
  verdict,  \* per layer with a breaker: what was recorded
  writes,   \* how often the handler has written or flushed
  ran       \* history: the handler has run

vars == <<stack, at, phase, rec, wire, ctx, fired, verdict, writes, ran>>

K == 1..Len(stack)
Handler == Len(stack) + 1

Init ==
  /\ stack \in Stacks /\ at = 1 /\ phase = "in"
  /\ rec = [k \in K |-> [status |-> 200, written |-> FALSE]]
  /\ wire = [status |-> 0, authors |-> {}, flushed |-> FALSE]
  /\ ctx = [k \in 0..Len(stack) |-> "nil"] /\ fired = {}
  /\ verdict = [k \in K |-> "none"] /\ writes = 0 /\ ran = FALSE

Is(l) == at \in K /\ stack[at] = l
Breakers == {k \in K : stack[k] \in {"breaker", "stream", "preset"}}

-----------------------------------------------------------------------------
(* Writers                                                                  *)

\* WriteHeader by layer p to the writer of layers 1..k, and the body after it.
\* A recorder that has a header has passed it to all outside it, so each one on the
\* way takes this status or keeps its own.
Write(p, k, status) ==
  /\ rec' = [i \in K |-> IF i <= k /\ stack[i] # "ratelimit" /\ ~rec[i].written
                         THEN [status |-> status, written |-> TRUE] ELSE rec[i]]
  /\ wire' = [wire EXCEPT !.status = IF @ = 0 THEN status ELSE @, !.authors = @ \cup {p}]

\* http.Error by layer p to the writer that it was given.
Error(p, status) == Write(p, p - 1, status)

Silent == UNCHANGED <<rec, wire>>

\* The context of layer k, and those derived from it, end with e.
Cancel(k, e) == ctx' = [i \in DOMAIN ctx |-> IF i >= k /\ ctx[i] = "nil" THEN e ELSE ctx[i]]

GoIn == at' = at + 1 /\ phase' = "in"
GoOut == at' = at - 1 /\ phase' = "back"
Judge(v) == verdict' = [verdict EXCEPT ![at] = v]

-----------------------------------------------------------------------------
(* The handler                                                              *)

\* WriteHeader and Write: a first Write without a header means 200.
HandlerWrites ==
  /\ at = Handler /\ writes < MaxWrites
  /\ \E status \in {200, 404, 500} : Write(Handler, Len(stack), status)
  /\ writes' = writes + 1
  /\ UNCHANGED <<stack, at, phase, ctx, fired, verdict, ran>>

\* Flush goes out unrecorded; net/http then sends a 200.  The preset's recorder has
\* no Flush, so nothing inside it gets through.
HandlerFlushes ==
  /\ at = Handler /\ writes < MaxWrites /\ writes' = writes + 1
  /\ wire' = IF \E k \in K : stack[k] = "preset" THEN wire
             ELSE [status |-> IF wire.status = 0 THEN 200 ELSE wire.status,
                   authors |-> wire.authors \cup {Handler},
                   flushed |-> wire.flushed \/ wire.status = 0]
  /\ UNCHANGED <<stack, at, phase, rec, ctx, fired, verdict, ran>>

HandlerReturns ==
  /\ at = Handler /\ GoOut /\ ran' = TRUE
  /\ UNCHANGED <<stack, rec, wire, ctx, fired, verdict, writes>>

-----------------------------------------------------------------------------
(* RateLimit                                                                *)

RateLimitIn ==
  /\ Is("ratelimit") /\ phase = "in"
  /\ \/ GoOut /\ Error(at, 429)
     \/ GoIn /\ Silent
  /\ UNCHANGED <<stack, ctx, fired, verdict, writes, ran>>

RateLimitOut ==
  /\ Is("ratelimit") /\ phase = "back" /\ GoOut
  /\ UNCHANGED <<stack, rec, wire, ctx, fired, verdict, writes, ran>>

-----------------------------------------------------------------------------
(* CircuitBreaker                                                           *)

\* The breaker's Execute returns at once when the context is done or it is open;
\* the error is 503 either way.
BreakerIn ==
  /\ Is("breaker") /\ phase = "in"
  /\ \/ GoOut /\ Judge("refused") /\ Error(at, 503)
     \/ ctx[at - 1] = "nil" /\ GoIn /\ Silent /\ UNCHANGED verdict
  /\ UNCHANGED <<stack, ctx, fired, writes, ran>>

\* Slip: any error status trips the breaker.
FailsAnyError(status) == status >= 400

Fails(status) == status >= 500

\* A failed handler has written: 503 is for a breaker that did not let it run.
BreakerOut ==
  /\ Is("breaker") /\ phase = "back" /\ GoOut
  /\ Judge(IF Fails(rec[at].status) THEN "failure" ELSE "success")
  /\ IF Fails(rec[at].status) /\ ~rec[at].written THEN Error(at, 503) ELSE Silent
  /\ UNCHANGED <<stack, ctx, fired, writes, ran>>

-----------------------------------------------------------------------------
(* Timeout                                                                  *)

TimeoutIn ==
  /\ Is("timeout") /\ phase = "in" /\ GoIn
  /\ UNCHANGED <<stack, rec, wire, ctx, fired, verdict, writes, ran>>

\* The deadline or the caller ended the context: 504 through its own recorder, but
\* after a 200 too.
TimeoutOut ==
  /\ Is("timeout") /\ phase = "back" /\ GoOut
  /\ IF ctx[at] # "nil" /\ (~rec[at].written \/ rec[at].status = 200)
     THEN Write(at, at, 504)
     ELSE Silent
  /\ UNCHANGED <<stack, ctx, fired, verdict, writes, ran>>

-----------------------------------------------------------------------------
(* CircuitBreakerStream                                                     *)

\* A context that is done is dropped without an answer, an open breaker is 503.
StreamIn ==
  /\ Is("stream") /\ phase = "in"
  /\ \/ ctx[at - 1] # "nil" /\ GoOut /\ Judge("refused") /\ Silent
     \/ ctx[at - 1] = "nil" /\ GoOut /\ Judge("refused") /\ Error(at, 503)
     \/ ctx[at - 1] = "nil" /\ GoIn /\ Silent /\ UNCHANGED verdict
  /\ UNCHANGED <<stack, ctx, fired, writes, ran>>

\* Slip: StreamTimeoutError unwraps to DeadlineExceeded and is dropped like a
\* client that has left.
StreamAnswersNever(timedOut) == FALSE

\* Slip: the header is not looked at.
StreamAnswersAlways(timedOut) == timedOut

\* 504 only while no header is out: then the stream is simply cut.
StreamAnswers(timedOut) == timedOut /\ ~rec[at].written

\* A fired watchdog is an error, of the caller's context if that has ended; without
\* one the status decides.
StreamOut ==
  /\ Is("stream") /\ phase = "back" /\ GoOut
  /\ Judge(IF at \in fired \/ Fails(rec[at].status) THEN "failure" ELSE "success")
  /\ IF StreamAnswers(at \in fired /\ ctx[at - 1] = "nil") THEN Error(at, 504) ELSE Silent
  /\ UNCHANGED <<stack, ctx, fired, writes, ran>>

-----------------------------------------------------------------------------
(* The HTTPHandler preset: rate limit, breaker, timeout                     *)

Status(e) == CASE e = "open" -> 503 [] e = "deadline" -> 504 [] e = "canceled" -> 500

PresetIn ==
  /\ Is("preset") /\ phase = "in"
  /\ \/ GoOut /\ Error(at, 429) /\ UNCHANGED verdict
     \/ ctx[at - 1] # "nil" /\ GoOut /\ Judge("refused") /\ Error(at, Status(ctx[at - 1]))
     \/ ctx[at - 1] = "nil" /\ GoOut /\ Judge("refused") /\ Error(at, Status("open"))
     \/ ctx[at - 1] = "nil" /\ GoIn /\ Silent /\ UNCHANGED verdict
  /\ UNCHANGED <<stack, ctx, fired, writes, ran>>

\* The caller's error before the deadline before the status.
PresetError ==
  IF ctx[at] # "nil" THEN IF ctx[at - 1] # "nil" THEN ctx[at - 1] ELSE ctx[at]
  ELSE IF Fails(rec[at].status) THEN "open" ELSE "nil"

PresetOut ==
  /\ Is("preset") /\ phase = "back" /\ GoOut
  /\ Judge(IF PresetError = "nil" THEN "success" ELSE "failure")
  /\ IF PresetError # "nil" /\ ~rec[at].written THEN Error(at, Status(PresetError)) ELSE Silent
  /\ UNCHANGED <<stack, ctx, fired, writes, ran>>

-----------------------------------------------------------------------------
(* The environment                                                          *)

\* Layer k has started its inner handler, and has not yet looked at how it ended.
Running(k) == k < at \/ (k = at /\ phase = "back")

\* A deadline of a layer that is running passes.
DeadlinePasses(k) ==
  /\ Running(k) /\ stack[k] \in {"timeout", "preset"} /\ ctx[k] = "nil" /\ Cancel(k, "deadline")
  /\ UNCHANGED <<stack, at, phase, rec, wire, fired, verdict, writes, ran>>

\* A watchdog of a stream layer fires; it may do so after the caller's context ended.
WatchdogFires(k) ==
  /\ Running(k) /\ stack[k] = "stream" /\ k \notin fired
  /\ fired' = fired \cup {k} /\ Cancel(k, "canceled")
  /\ UNCHANGED <<stack, at, phase, rec, wire, verdict, writes, ran>>

ClientLeaves ==
  /\ at > 0 /\ ctx[0] = "nil" /\ Cancel(0, "canceled")
  /\ UNCHANGED <<stack, at, phase, rec, wire, fired, verdict, writes, ran>>

\* ServeHTTP has returned: net/http answers 200 where nobody has.
ServerEnds ==
  /\ at = 0 /\ wire.status = 0
  /\ wire' = [wire EXCEPT !.status = 200]
  /\ UNCHANGED <<stack, at, phase, rec, ctx, fired, verdict, writes, ran>>

-----------------------------------------------------------------------------

Step == \/ HandlerWrites \/ HandlerFlushes \/ HandlerReturns
        \/ RateLimitIn \/ RateLimitOut \/ BreakerIn \/ BreakerOut
        \/ TimeoutIn \/ TimeoutOut \/ StreamIn \/ StreamOut \/ PresetIn \/ PresetOut

Next == \/ Step \/ ServerEnds \/ ClientLeaves
        \/ \E k \in K : DeadlinePasses(k) \/ WatchdogFires(k)

Spec == Init /\ [][Next]_vars

-----------------------------------------------------------------------------

\* A response has one author, the handler or the middleware that answers for it,
\* however deadlines, refusals and nested recorders interleave
\* (http/middleware.go:78-85, http/streaming.go:95-102).  Two cases are excepted,
\* because the code does add to the handler's response there: Timeout writes after
\* a 200 (http/middleware.go:130), and a Flush sends a header no recorder knows of.
OneAuthor ==
  \/ Cardinality(wire.authors) <= 1
  \/ wire.flushed
  \/ wire.status = 200 /\ \A p \in wire.authors : p = Handler \/ stack[p] = "timeout"

\* No false success: a request that the handler never saw, or whose deadline passed
\* before it wrote anything, is not answered as net/http would by default, with 200;
\* also when an inner middleware drops it silently and leaves the answer to an outer
\* one (http/streaming.go:103-123, middleware/http_handler.go:133-140).  A client
\* that has left gets nothing.
NoFalseSuccess ==
  at = 0 /\ wire.status = 200 /\ ctx[0] = "nil" /\ Handler \notin wire.authors =>
    ran /\ \A k \in K : ctx[k] = "nil"

\* What a breaker in the stack records fits what the client got, although it looks
\* at its own recorder only and others write after it.  A failure: the status is
\* 5xx, or the context of the request ended.  A success: the status is below 500
\* (or a middleware outside of the breaker answered), no watchdog of the layer
\* fired, and no deadline of its own passed while the context it was given lasted
\* (http/middleware.go:66-70, http/streaming.go:78-85, middleware/http_handler.go:56-58,
\* 111-122).  Nothing is said of a response whose header a Flush sent, and a context
\* that ends from outside while the handler runs is compatible with a success
\* (CutStreamsAreFailures in MCCutStreams).
BreakersJudgeTheResponse ==
  at = 0 /\ ~wire.flushed => \A k \in Breakers :
    /\ verdict[k] = "failure" => wire.status >= 500 \/ ctx[k] # "nil"
    /\ verdict[k] = "success" =>
         /\ wire.status < 500 \/ wire.authors \cap 1..(k - 1) # {}
         /\ k \notin fired /\ (ctx[k] = "nil" \/ ctx[k - 1] # "nil")
===============================================================================
