------------------------------- MODULE Stacks -------------------------------
(* The two ways fortify stacks its patterns, side by side: chains around an     *)
(* operation, with their presets, and HTTP middlewares around a handler.        *)
EXTENDS Presets

CONSTANTS HttpStacks, MaxWrites

VARIABLES stack, hat, hphase, rec, wire, ctx, fired, verdict, writes, ran

httpVars == <<stack, hat, hphase, rec, wire, ctx, fired, verdict, writes, ran>>

H == INSTANCE HttpMiddleware WITH Stacks <- HttpStacks, at <- hat, phase <- hphase

\* A response has one author, the handler or the middleware that answers for it
\* (http/middleware.go:78-85, http/streaming.go:95-102).
OneAuthor == H!OneAuthor

\* A request that the handler never saw, or whose deadline passed before it wrote
\* anything, is not answered with 200 (http/streaming.go:103-123,
\* middleware/http_handler.go:133-140).
NoFalseSuccess == H!NoFalseSuccess

\* A breaker in the stack records a failure only for a 5xx or a request whose context
\* ended, and a success only for a status below 500 (or one that a middleware outside
\* of it answered) that no watchdog or deadline of its own layer cut short; responses
\* whose header a Flush sent are excepted (http/middleware.go:66-70,
\* http/streaming.go:78-85, middleware/http_handler.go:111-122).
BreakersJudgeTheResponse == H!BreakersJudgeTheResponse
=============================================================================
