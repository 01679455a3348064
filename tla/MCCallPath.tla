----------------------------- MODULE MCCallPath -----------------------------
(* TLC instance of what a request passes on its way to an operation and back:  *)
(* HTTP middlewares around a handler, over one request; a chain around an       *)
(* operation, over several calls; the rate limiter; and the store of its        *)
(* buckets.  They share no state, so one of them is the subject of a behaviour   *)
(* and the others take no step.  Chains are the presets, the documented order    *)
(* and its inversions, with retry configurations that need every default, cap    *)
(* and classification rule; HTTP stacks are all those of at most three           *)
(* different middlewares.                                                        *)
EXTENDS Stacks, RateLimiter, MemoryStore, TLC

VARIABLE subject

StoreSymmetry == Permutations(Clients) \cup Permutations(Keys) \cup Permutations(Entries)

MCHttpStacks == UNION {{s \in [1..n -> {"breaker", "ratelimit", "timeout", "stream", "preset"}] :
                      \A i, j \in 1..n : i # j => s[i] # s[j]} : n \in 1..3}

-----------------------------------------------------------------------------

Plain == [policy |-> "constant", attempts |-> 0, initial |-> 0, max |-> 0, multiplier |-> 0,
          jitter |-> FALSE, hasCustom |-> FALSE, custom |-> {}, retryable |-> {},
          nonRetryable |-> {}]

Steep == [Plain EXCEPT !.policy = "exponential", !.attempts = 4, !.initial = 10000,
                       !.multiplier = 500, !.jitter = TRUE]
Capped == [Plain EXCEPT !.policy = "exponential", !.attempts = 4, !.max = 150, !.jitter = TRUE,
                        !.nonRetryable = {"deadline"}]
Listed == [Plain EXCEPT !.policy = "linear", !.max = -1, !.retryable = {"open", "transient"},
                        !.nonRetryable = {"open"}]
Picked == [Plain EXCEPT !.attempts = 2, !.hasCustom = TRUE, !.custom = {"transient", "timeout"}]
Stubborn == [Plain EXCEPT !.retryable = {"open", "timeout"}]

Custom(layers, retry) ==
  [preset |-> FALSE, layers |-> layers, retry |-> retry, trip |-> 2, trials |-> 1,
   maxCalls |-> 0, maxSpend |-> 0]
Budgeted(layers, retry, maxCalls, maxSpend) ==
  [Custom(layers, retry) EXCEPT !.maxCalls = maxCalls, !.maxSpend = maxSpend]

CustomChains ==
  {Custom(o, r) : o \in { <<"fallback", "gate", "breaker", "retry", "timeout">>,
                          <<"retry", "gate", "breaker", "timeout">> },
                  r \in {Plain, Steep, Capped, Listed, Picked, Stubborn}}
  \cup {Custom(o, r) : o \in { <<"timeout", "breaker", "fallback", "retry">>,
                               <<"breaker", "timeout", "retry">> },
                       r \in {Plain, Capped, Picked}}
  \cup { Custom(<<"retry", "timeout", "breaker">>, Plain),
         Budgeted(<<"retry", "timeout", "budget">>, Listed, 2, 0),
         Budgeted(<<"retry", "budget", "breaker">>, Plain, 3, 1),
         Budgeted(<<"breaker", "retry", "budget", "timeout">>, Plain, 2, 0),
         Budgeted(<<"budget", "retry", "breaker">>, Listed, 2, 1),
         Budgeted(<<"retry", "budget", "timeout">>, Picked, 3, 1) }

Asked == [timeout |-> 1, maxRetries |-> 0, initial |-> 0, threshold |-> 2,
          idempotent |-> FALSE, maxCalls |-> 0, maxSpend |-> 0]
Unset == [Asked EXCEPT !.threshold = 0]
Refused == [Asked EXCEPT !.timeout = 0]

PresetChains ==
  UNION {HTTPClient(c) \cup DatabaseQuery(c) \cup RPCDownstream(c) \cup LLMCall(c) :
           c \in { Asked, Unset, Refused,
                   [Asked EXCEPT !.maxCalls = 3],
                   [Asked EXCEPT !.maxRetries = 4, !.maxSpend = 2, !.idempotent = TRUE] }}

MCChains == CustomChains \cup PresetChains

-----------------------------------------------------------------------------

\* A chain that was never used.
ChainEnded ==
  /\ chain = [Custom(<<"gate">>, Plain) EXCEPT !.retry = setDefaults(@)]
  /\ at = 0 /\ phase = "enter" /\ ret = "nil" /\ attempt = 0 /\ expired = FALSE /\ parent = FALSE
  /\ breaker = To("closed") /\ budget = [calls |-> 0, spent |-> 0, breached |-> FALSE]
  /\ calls = MaxCalls /\ log = [call |-> Fresh, streak |-> 0, runs |-> 0]

\* A request that RateLimit refused.
RequestEnded ==
  /\ stack = <<"ratelimit">> /\ hat = 0 /\ hphase = "back"
  /\ rec = [k \in {1} |-> [status |-> 200, written |-> FALSE]]
  /\ wire = [status |-> 429, authors |-> {1}, flushed |-> FALSE]
  /\ ctx = [k \in 0..1 |-> "nil"] /\ fired = {} /\ verdict = [k \in {1} |-> "none"]
  /\ writes = 0 /\ ran = FALSE

limiterVars == <<bucket, lastAccess, up, closed, clock, wait, since, granted, spent>>

CallPathInit ==
  \/ subject = "chain"   /\ ChainInit  /\ RequestEnded /\ Init /\ StoreInit
  \/ subject = "request" /\ ChainEnded /\ H!Init       /\ Init /\ StoreInit
  \/ subject = "limiter" /\ ChainEnded /\ RequestEnded /\ Init /\ StoreInit
  \/ subject = "store"   /\ ChainEnded /\ RequestEnded /\ Init /\ StoreInit

CallPathNext ==
  /\ \/ subject = "chain"   /\ ChainNext /\ UNCHANGED <<httpVars, limiterVars, storeVars>>
     \/ subject = "request" /\ H!Next    /\ UNCHANGED <<chainVars, limiterVars, storeVars>>
     \/ subject = "limiter" /\ Next      /\ UNCHANGED <<chainVars, httpVars, storeVars>>
     \/ subject = "store"   /\ StoreNext /\ UNCHANGED <<chainVars, httpVars, limiterVars>>
  /\ UNCHANGED subject

CallPathSpec ==
  CallPathInit
    /\ [][CallPathNext]_<<subject, chainVars, httpVars, limiterVars, storeVars>>
=============================================================================
