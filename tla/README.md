# TLA+ specifications of fortify

fortify is a Go library of resilience patterns: generic wrappers with one entry
point, `Execute(ctx, fn)`, that refuse, delay, repeat, time or bound the calls
of `fn`. Its value lies in what happens when many goroutines, timers,
cancellations and failures meet inside one pattern, and this is what the modules
here describe. They are translated from the Go source under `src/`; paths below
are relative to it.

Contents: 1 inventory of the system, 2 modules and their correspondence with
the code, 3 runs, 4 fairness, 5 proofs, 6 behaviours met on the way that a reader
of the docs would not expect, 7 what is not modelled, 8 plan.

To check: `tlc -config X.cfg M` with the pairs of section 3, `tlapm M.tla` for
the eight `...Proofs` modules.

## 1. Inventory

| Component | State it keeps | Operations | Hard behaviour |
|---|---|---|---|
| Circuit breaker (`circuitbreaker/breaker.go`) | state, counts, window, expiry, generation under `cb.mu`; three atomic mirrors; channel of state changes | `Execute` (lock-free and locked admission), `State`, `Reset`, `Close`, dispatcher | mirrors stored one by one while others load them; results that arrive in a later generation; panics that report nothing; `uint32` counts; lazy clearing; `State` mutating under a read lock |
| Sliding windows (`window.go`) | ring of outcomes, or ring of per-second buckets | `record`, `reset`, `stats` | eviction when the ring wraps; a clock that jumps or steps back |
| Breaker configuration (`config.go`, `predicates.go`) | none | `setDefaults`, `normalizeSlidingWindow`, predicates | combinations of raw values that produce a breaker which never or always trips |
| Bulkhead (`bulkhead/`) | `sem`, `queueSem`, an unbuffered queue, a worker | `Execute`, `enqueue`, `worker`, `drainQueue`, `Close` | slots handed from a caller to a goroutine that outlives it; cancellation, queue timeout and Close racing with the hand-over |
| Rate limiter store (`ratelimit/memory.go`) | `sync.Map` of entries, atomic `keyCount`, entry locks, cleanup goroutine | `AtomicUpdate`, `Get`, `Delete`, `Reset`, `Close` | count and map are two objects updated one after the other by concurrent operations |
| Rate limiter (`ratelimit/limiter.go`) | token bucket per key, in a store | `Allow`, `Take`, `Execute`, `ExecuteN`, `Wait`, `Reset`, `Close` | rounding, the epsilon below which nothing is refilled, eviction, failing stores |
| Budget (`budget/budget.go`) | three atomic totals, `breached`, rolling window under a mutex | `Execute` in two modes, `Reset` | check, charge, evaluate and mark are separate atomic steps of many calls |
| Adaptive limiter (`adaptive/`) | atomic `limit`, `inFlight`, `successes`, `minRTT`, `emaRTT`, `rttSamples` | `Execute`, three algorithms | six independent atomics, CAS loops that decide on values loaded earlier |
| Hedge (`hedge/`, `LLMHedge` in `middleware/presets.go`) | per call: attempts, result channel, timer | `Execute`, `Run` | late losers, results outrunning the timer, cancellation |
| Stream timeout (`streamtimeout/`) | per call: three watchdog goroutines | `Execute`, `Mark` | timers racing with chunks and with the end of the call |
| Retry, timeout, fallback (`retry/`, `timeout/`, `fallback/`) | per call: attempt, delay, deadline | `Execute` | only hard in composition |
| Middleware chain (`middleware/chain.go`, `compose.go`) | list of layers | `Execute` | the order decides what the breaker counts, what is retried and what the deadline covers |
| Presets (`middleware/presets.go`, `http_handler.go`) | none of their own | `HTTPClient`, `HTTPRoundTripper`, `DatabaseQuery`, `RPCDownstream`, `LLMCall`, `HTTPHandler` | which errors a preset's retry predicate lets through, given what the layers inside it return |
| Cost budget (`costbudget.go`) | none: a front of Budget | `WithCostBudget` | dollars in `float64` become integer micro-USD: rounding, NaN, infinities, overflow |
| HTTP adapters (`http/`) | per request: a recorder of status and header per middleware | `CircuitBreaker`, `RateLimit`, `Timeout`, `CircuitBreakerStream` | several layers that may all answer one request; deadlines and the leaving client in between |
| Redis breaker (`examples/circuitbreaker-redis`) | a Redis hash shared by instances | `Execute`, `State`, `Reset`, two Lua scripts | crash between admission and record, lost replies, clocks that differ |
| Redis rate store (`examples/ratelimit-redis`) | a Redis hash per key | `AtomicUpdate` and its Lua script | the limiter's closure cannot be sent to Redis: it is probed |
| gRPC adapters, errors, metrics, tracing, logging, chaos helpers, other examples | none that outlives a call | translate and report | see section 7 |

Interactions. Patterns do not know each other: they meet in a chain, as nested
calls of `Execute` that hand a context inwards and an error outwards. Two
patterns are themselves composed: the breaker of a state machine, a window, a
configuration and a dispatcher; the rate limiter of a token bucket and a store
that may be memory or somebody else's. Callbacks (`OnStateChange`, `OnExceeded`,
`OnHedge`, ...) lead out of the library; only those that are delivered by a
goroutine of the library or may change the course of a call are modelled.

What makes each part correct is stated, property by property, in section 3. The
list of hazards with their source lines is in `PROJECT.json`. The two Redis examples
are programs a service would deploy as they stand, and the only parts with state
shared between processes; that is why they are modelled and the demonstrations are
not.

## 2. Modules

Histories (variables that no code has) are marked `history` where declared.
Operators introduced by a comment beginning `Slip:` are deliberately wrong variants of the definition
that follows them; the specification never uses them, and each is caught by the
property listed with it in `PROJECT.json`.

**BreakerConfig, TripPredicates, SlidingWindow, BreakerWindow.** Pure
operators: `setDefaults`, `normalizeSlidingWindow`, the shipped predicates with
their clamps; and the two rings with their constructors, `record`, `reset` and
`stats`. `BreakerWindow` passes a raw `Config` through `New` and records outcomes
in the window that comes out, beside the full history as reference. Integers are
bounded by `MaxUint32`, a scaled-down 2^32-1. A rate is a number of hundredths or `NaN`,
which every comparison answers with no (`Reaches`, `OutsideRange`). Seconds are the wall clock the
code reads (`now.Unix()`), which may be set back.

**CircuitBreaker.** `cb` holds what `cb.mu` guards, `fast` the mirrors. A
critical section of `beforeRequest`, `afterRequest`, `State`, `Reset` is one
step on `cb`; what it then publishes outside its own memory
(`syncFastFields`, `emitStateChange`) is a sequence of single atomic steps taken
while `mu` is still held, because the lock-free path and the dispatcher run
beside them. Every load of that path is a step: state, clock, expiry, state
again, generation. A panic of `fn` takes a caller back to idle with no result
reported, as in the code. Counts are modulo `CountModulus` (2^32 in the code).
`MaxCalls` bounds the calls of a time window only, `MaxGen` the number of
generations, `MaxClock` time.

**BreakerStateRace** extends it with `State()` at word granularity, because
`State` holds only a read lock and two calls may overlap.

**Bulkhead** and **ConcurrencyLimit.** A channel used as a semaphore is a count;
the unbuffered queue is a rendezvous of one caller and the worker; each branch of
each `select` is an action. A queued function is a `task` apart from its caller.
`ConcurrencyLimit` is the abstract specification: work starts at most once and at most
`Limit` pieces run together. The refinement mapping is the set of requests
whose function is running, in the caller or in a task, and those whose function
has returned.

**MemoryStore.** One step per operation on the `sync.Map`, on `keyCount` and per
critical section of an entry. Entries are objects of a finite pool; one that nothing
refers to may be allocated again, so that a stale pointer to an evicted entry is
a real case. `Range` visits keys in any order and may see or miss concurrent
changes.

**RateLimiter.** One key. Tokens are exact rationals scaled by `Interval`
(`Cost(n) = n * Interval`, a unit of time earns `Rate`), so no rounding is hidden
by the scale; `Epsilon` is `floatEpsilon` and `MaxElapsed` the cap on the time a
refill pays for. The store is one atomic update (the guarantee `store.go` asks of
stores), may be down, and evicts the bucket after `TTL`. `since` and `granted` are
an observer that starts to count grants at any moment.

**Budget.** Both modes in one module: `window.length = 0` is the lock-free one.
Every atomic access is a step; the user's `Charge` may panic and `Reset` may be called in
either mode. Two histories mark what the code does not withstand: `torn`, the last lock-free
Reset overlapped a call's bookkeeping; `wedged`, a `Charge` panicked under `windowMu`.

**CostBudget.** A `float64` amount is a record: a finite number of tenths of a
micro-USD, NaN or an infinity; `MaxMicros` is the largest `int64`, scaled down. Its
operators make the monetary ceiling and the charges of the Budget instance.

**Adaptive.** Raw configurations go through `setDefaults`. Every load, add and compare-and-swap is a step of a caller; all three
algorithms; a latency is one of `RTTs`. Square roots and divisions are integer
operations as in the code; the smoothing factor is a fraction of two integers, NaN when
the denominator is 0. Limits pass through `int32(...)` where the code converts them: from an
`int` the conversion wraps (`Int32`, of width `MaxInt32`), from a `float64` out of range or
NaN it may return anything (`Converted`), as Go leaves it to the implementation.

**Hedge.** One call. The coordinator's `select` cases are actions, so are the
end of an attempt, its send, the timer and the caller's cancellation. `cfg.kind`
chooses `hedge.Execute` or `LLMHedgeRunner.Run`, which differ in what they do when
nothing is pending.

**StreamTimeout.** One call. Three watchdogs, each with a deadline, a timer channel
that is ready once the deadline has passed, and the step in which it fires; marks and the
return of `fn` at any time.

**Chain** and **Presets.** Calls one after the other through a stack of layers, `at`
walking inwards and outwards; cancellation and deadlines may strike at any point.
Breaker, retry, timeout, budget and fallback are present with their own code; rate
limiter, bulkhead and adaptive limiter, which matter to a chain only by refusing, are a
`gate`. An error is one of a few values, those the code can tell apart by `errors.Is`
and `errors.As`; `Matches` says which sentinel a value wraps. Delays are in milliseconds, with
the extremes of the jitter. `Presets` gives for each preset configuration the chain
it assembles, or none where it returns an error. `Chains` is the set of chains a run explores.

**HttpMiddleware.** One request through a stack of middlewares in any order. A
recorder is a status and a written flag per layer; a write passes outwards through
the recorders until one has a header. `ctx[k]` is the error of the context layer `k`
hands inwards. The breakers and limiters themselves are a choice: let in, or refuse.

**RedisBreaker.** Redis runs a Lua script atomically, so admission, record and
Reset are one step each on `hash`; between them anything may happen to the
process: a crash, a panic of `fn`, a script that fails, a reply that is lost after the
script ran. The client's clock is sent with the script and may be ahead by `Drift`.
`current` and `seen` are histories: the calls admitted since the state last changed,
and what they did.

**RedisRateStore** extends RateLimiter with the store of the example: the two
probes of the limiter's closure, the burst and cost inferred from them, the Lua script
with the refill it computes with or without `WithBucketParams`, and the key's expiry.

## 3. Runs

Model-checking covers the small instance named; why that is enough is said with
each. Every passing run ends with the full state space explored.

| Run | Module, cfg | Instance |
|---|---|---|
| BreakerEvidence | MCBreakerEvidence, BreakerEvidence.cfg | windows: every field of `Config` at and around its boundaries, sizes 2 and 3, histories of 4, seconds -1..3; Redis: 2 instances with 2 and 1 callers, 3 configurations, drift 1, clock to 2, 3 generations, 1 Reset |
| BreakerSafety | MCCircuitBreaker, BreakerSafety.cfg | 2 callers, 2 trials, `Interval` 2, `Timeout` 1, count window of 2 at 50%, counts modulo 3, 4 generations, clock to 6 |
| BreakerLiveness | MCCircuitBreaker, BreakerLiveness.cfg | 2 callers, trip on the first failure, callback with a buffer of 1, counts modulo 2, clock to 4 |
| BreakerStateRaceEvents | MCBreakerStateRace, BreakerStateRaceEvents.cfg | 1 caller, 2 readers, buffer of 2; a violation is expected |
| Bulkhead | MCBulkhead, Bulkhead.cfg | 3 requests, 1 slot, 1 queue place, queue timeout on |
| TrialLimit | MCCircuitBreaker, TrialLimit.cfg | 2 callers, 1 trial, trip on the first failure; a violation is expected |
| RedisRateLimit | RedisRateStore, RedisRateLimit.cfg | 2 tokens per 3 units, burst 4, one token per request, clock to 5; a violation is expected |
| Budget | MCBudget, Budget.cfg | 2 callers, ceilings of 2 (the monetary one from 2.3 micro-USD), both modes, 4 calls, one Reset, panics of `fn` and `Charge`, clock to 2 |
| Adaptive | MCAdaptive, Adaptive.cfg | 2 callers, three algorithms, 10 raw configurations, `MaxInt32` 255, latencies 0, 2, 20, 1 failure |
| PerCall | MCPerCall, PerCall.cfg | streams: every combination of first byte 0, 1, 2, idle 0, 2 and total 0, 1, 3; hedges: both runners, -1, 1 and 3 attempts asked for |
| CallPath | MCCallPath, CallPath.cfg | chains: 4 orders with up to 6 retry configurations, 6 further chains with budgets and timeouts inside retry, all presets from 5 configurations, 3 calls in a row; HTTP: all stacks of at most 3 different middlewares of 5, 2 writes of the handler; limiter: 1 waiter besides direct calls, 2 tokens per 3 units, burst 2, epsilon 3, TTL 3, clock to 6; store: 2 clients, 2 keys, 2 entries, `MaxKeys` 1, TTL 1, clock to 2 |
| CutStreams | MCCutStreams, CutStreams.cfg | `CircuitBreakerStream` alone, inside a rate limit and around a timeout; a violation is expected |

Three runs hold several subjects (a window or a Redis breaker; a stream or a hedge; a
chain, a request, the limiter or its store): in every behaviour one is in use and the others
take no step, so the state space is the sum of theirs and not the product. BreakerEvidence,
PerCall and Stacks are modules of such a pair: the variables and constants of both subjects,
the second as an instance under other names, what is assumed of the constants, and what each
promises; MCCallPath extends Stacks, RateLimiter and MemoryStore. The runs and the proofs
extend the same modules, so a theorem states the very definition that its run checks.

**BreakerEvidence.** A ring reports exactly what the history says as long as the
clock moves forward, and when it is set back it may forget but not invent
(`WindowExact`). A history of 4 wraps rings of 2 and 3 with evictions of both kinds of
outcome; the clock starts before second 0 because a cleared bucket has epoch 0. Whatever
`Config` goes in, the one that comes out is usable, its window can trip unless its
threshold is NaN (section 6), and no predicate asks for more failures than a count can hold
(`EveryConfigCanTrip`). On the
shared hash, the counter is the streak of failures of the calls admitted since the
breaker closed, over all instances (`StreakShared`), the Half-Open slots are those of running trials
and of those that were lost (`TrialSlotsExact`), and Half-Open is decided unless
a slot leaked or trials overlap for ever (`HalfOpenDecided`). Two instances are
enough for a slow call of one to meet the rotation of the other; three generations
are a full round.

**BreakerSafety.** A Half-Open breaker never refuses for want of room, so it never wedges
(`HalfOpenHasRoom`; that it does not limit the trials either is run TrialLimit); whoever
finds the lock free finds the mirrors equal to the fields (`MirrorsPublished`);
a result of an earlier generation does nothing beyond what the clock does
(`StaleResultsAreIgnored`); outcomes counted together are at most one interval
apart although counts are cleared lazily (`OutcomesShareAnInterval`); and no
result leaves evidence for a trip unconsidered (`NoTripOverdue`). Two callers and
four generations give a full round Closed, Open, Half-Open, Closed with a call
left over from before it; counts modulo 3 wrap within the run.

**BreakerLiveness.** An open breaker closes once failures stop, even if
trials panic (`Recovers`); Close ends the dispatcher (`DispatcherStops`); and
unless an event was dropped the state last told and the events on their way form a chain, link by
link, that ends in the present state, with no change left untold (`EventsTellTheState`).

**BreakerStateRaceEvents.** A violation. `breaker.go:203-204` says transitions are
delivered "in the order they were emitted"; two overlapping `State()` calls,
which hold only the read lock, announce the transition to Half-Open twice, or as
half-open to half-open.

**TrialLimit.** A violation. `docs/concepts.md:39` says "at most `MaxRequests` trial requests
are admitted", `circuitbreaker/config.go:51-52` that it "is the maximum number of requests
allowed to pass through"; but admission compares `MaxRequests` with a count that only results
raise (`breaker.go:344`), so two callers are let in one after the other where one trial is
allowed (`TrialsBounded`).

**Bulkhead.** Taken slots are exactly those of calls that will give them back
(`SlotsAccounted`); `ErrBulkheadFull` from an open bulkhead means that the function
has not run and will not (`RefusedNeverRuns`); it implements
`ConcurrencyLimit` (`LimitsConcurrency`); every Execute returns and Close ends the
worker (`NobodyIsLeft`). Three requests occupy the slot, the
queue and one place outside, which is where the paths meet.

**RedisRateLimit.** A violation. The demo of the example's README refuses everything beyond burst
and rate (`examples/ratelimit-redis/README.md:26`). In the code the limiter's verdict is
set by the closure, the store's last call of it is the second probe, and the script's own
verdict is dropped: once the shared bucket is empty requests are still granted
(`RedisLimitHolds`). The run needs no failure of Redis and no expiry to show it.

**Budget.** `fn` starts at most `MaxCalls` times between resets (`CallsCapped`);
after the bookkeeping, over a ceiling and breached are the same unless `torn`
(`BreachedWhenOver`); no charge is lost or torn by a window boundary
(`WindowTotalsExact`); every Execute returns unless `wedged` (`EveryCallReturns`). The
Resets and panics behind the two exceptions (section 6) are steps of the run, so the
properties hold around them and again after a Reset that overlaps nothing.

**Adaptive.** The limit stays in its range if `MaxLimit` is an `int32`, up to the last one
(`LimitInRange`), moves by at most a half down or a square root up if there is room for the
root (`StepsAreGentle`), and the in-flight count is exact (`InFlightExact`), through
failures and panics and from configurations that contradict themselves, leave every field
to its default, have a smoothing that is no number, or a ceiling that wraps to -1.

**PerCall.** A hedged call fails only when every attempt it fired failed, and
`hedge.Execute` has fired all (`FailsOnlyWhenAllFail`); every call returns and leaves
no goroutine (`CallEndsCleanly`). Three attempts give the timer one hedge and the
failures one to outrun it. The stage a stream timeout reports was missed
(`StageIsTrue`), every enabled deadline ends a stream that misses it, and watchdogs end
with the call (`DeadlinesBite`).

**CallPath.** Chains: a breaker added before retry opens only after as many failed calls
in a row as its threshold, however many attempts failed inside
(`BreakerCountsCalls`); an open circuit and a spent budget are met at most once per call
unless the configuration asks for more or a timeout stands between retry and the layer that
refuses, in a preset always (`RefusalsNotRetried`); runs and
waiting of one call are bounded by `MaxAttempts` and `MaxDelay`, and the runs of all calls by
the budget (`CallCostBounded`). Three calls are one more than the breaker needs to trip.
HTTP: a response has one author, with two exceptions the property names
(`OneAuthor`); a request that the handler never saw, or that was cut short before it wrote, is
not answered 200 (`NoFalseSuccess`); and what each breaker in the stack records fits the
response unless that was flushed: a failure stands for an answer of 500 or more or a context
that ended, a success for one below 500 (or replaced by a layer further out) that neither a
watchdog nor a deadline of that layer cut short (`BreakersJudgeTheResponse`). Three
middlewares put one on either side of every other.
Limiter: any stretch of time grants at most the burst, one epsilon and
what the rate pays for (`RateBound`); refills forget no time if `maxElapsed` pays for a whole
bucket (`IdleBucketFills`); the announced wait is the time until the token is
there if `maxElapsed` pays for one (`WaitTimeAgreesWithRefill`). The rate does not divide the
interval, the TTL is exactly the time a bucket needs to fill, and the clock runs for
two of them.
Store: `keyCount` is the number of keys plus the operations between their two
updates (`CountAccountsForKeys`), the map stays within `maxKeys`
(`KeysBounded`; there are more keys than places), and an entry lock is free or held by
somebody about to release it, so neither cleanup nor Close can be kept waiting
(`LocksComeFree`). The bucket contents do not influence them, so `States` is
empty: an update only touches an entry. A second entry is needed for the loser of
two racing creations, and to be reused while a stale pointer to it is still held.

**CutStreams.** A violation. `http/streaming.go:79-80` says "Watchdog fired or context
cancelled — surface as a generic timeout so the breaker counts the failure". When the client
leaves, or a deadline further out passes, while the handler runs, no watchdog fires;
`streamtimeout.Execute` returns the nil of its function, and a success is recorded
(`CutStreamsAreFailures`).

The type invariants of CircuitBreaker, MemoryStore, RateLimiter, Bulkhead, Budget and
Adaptive are proved (section 5) and not repeated in the cfgs.

`CHECK_DEADLOCK FALSE` stands where the modelled execution ends: one-shot calls
(hedges, streams, requests), bounded numbers of calls, times or recorded outcomes, or a
closed component.

## 4. Fairness

- CircuitBreaker: weak fairness of time, of publishing, of the lock-free path and of
  a callback's return (goroutines are scheduled, user callbacks return); strong
  fairness of taking `cb.mu` (`sync.RWMutex` starves no one) and of the
  dispatcher's exit (a `select` picks each ready case sooner or later). Of the
  environment: requests keep coming and some succeed. Failures are finite through
  `MaxGen`. Without a succeeding dependency no breaker may close.
- Bulkhead: weak fairness of callers and tasks, so protected functions return; strong
  fairness of the hand-over to the worker and of its start, which compete for a
  channel that serves waiters in order. Cancellation, timers and Close are not
  assumed, so `NobodyIsLeft` does not rest on a timeout.
- Budget: weak fairness of running and bookkeeping, strong fairness of entering
  (`sync.Mutex` hands itself over to a starved waiter).
- Hedge: weak fairness of attempts and timer, strong of the coordinator's `select`
  cases.
- StreamTimeout: weak fairness of watchdogs, time and the return; `fn` is assumed to return
  only once its context is done (`streamtimeout.go:100-101` demands it).

- RedisBreaker: weak fairness of the end of each admitted call, whether its record
  script succeeds or fails. New calls, `State`, `Reset`, crashes and lost replies are
  not assumed.

BreakerSafety, Adaptive, CallPath and the runs that expect a violation check safety only.

## 5. Proofs

TLAPS proves the following for all values of the constants that satisfy the named `ASSUME`s
of the modules, hence for any number of callers, clients, keys, waiters, any clock and any
configuration.

**CircuitBreakerProofs.** `IInv` is `TypeOK`, `HalfOpenHasRoom`, `Published` and `Admitted`.
`HalfOpenHasRoom` is not inductive alone: that a trial's result cannot leave a failure in
the Half-Open counts needs the types. `MirrorsPublished` speaks of moments when the lock is
free; `Published` extends it to the time in between, by saying for each stage of a
publication which mirrors are already stored. `Admitted` says that a running call carries a
generation no younger than its admission, and the admission one no younger than the present,
which is what makes a stale result recognisable on either path. From it follow
`TypeCorrect`, `HalfOpenNeverWedges`, `MirrorsAgree` and the action property
`StaleResultsIgnored`. Three more invariants are inductive together with `IInv`. `Told`:
what is queued and what a critical section has still to publish are one chain from the state
last observed to `cb.state`; a critical section starts with nothing pending and appends
links. It gives `EventsAreTrue`. `Aged`: a Closed breaker's counts expire within `Interval`
of their oldest outcome. It gives the action property `OutcomesCountTogether`. `Calm`: a
count window that a Closed breaker holds does not call for a trip. It gives
`TripsAreNeverOverdue`, which proves `NoTripOverdue` for a count window and, without a
window, for a predicate that only a failure can make true (`NeedsFailure`; the default,
`TripOnConsecutiveFailures(5)`, is such and `TripOnFailureRatio` is not, see section 6). For
a time window the full property is not claimed: seconds that leave it may raise the failure
rate while nobody calls, and the end of an interval then clears the counts without asking.
What holds for both windows is `EveryResultIsJudged`: no recorded result leaves evidence for
a trip unconsidered.

**MemoryStoreProofs.** `IInv` is `Typed`, `Known`, `CountAccountsForKeys` and `KeysBounded`.
The count is a sum of cardinalities (stored keys, clients that have counted and not stored,
or removed and not uncounted, the janitor); each step changes one of the sets by at most one
element, which the lemma `CardinalityOfChange` turns into arithmetic. `Known` says that an
operation past its first step has a key, and an entry where it uses one. From it follow
`KeyCountExact`, `KeysStayBounded` and `TypeCorrect`. `LocksAlwaysComeFree` proves
`LocksComeFree`, which is inductive together with `Typed` and `Known`: a lock is taken only
when free, by a step that moves its taker to a releasing one, and no other actor's step
touches it.

**RateLimiterProofs.** `RateBound` is not inductive: a step that grants tokens is bounded
only through what the bucket still holds. `Weighed` is the potential: what was granted since
the observer began, plus what the bucket holds, plus what it would be refilled now, stays
within the bound; `Ordered` puts the clock readings in order. `RateIsBounded` proves
`RateBound` under `TTL * Rate >= Full`, i.e. when the store keeps a bucket for at least as
long as it needs to fill. Without that hypothesis eviction gives tokens away (section 6).
`RefillsForgetNothing` proves `IdleBucketFills` from `Kept`: a bucket is full or holds at
least what the time between the last grant and its last refill was worth. The property's own
condition, `FillsWithinMaxElapsed`, says that one refill may pay for a whole bucket.
`WaitTimeIsTrue` proves `WaitTimeAgreesWithRefill`, a fact about two pieces of arithmetic in
every state with `Ordered`, on the property's condition that `maxElapsed` pays for one token; it needs
`MaxWaitTimeLimit >= Interval`, which the code guarantees (intervals are cut to 24 hours,
the limit). The bounds of a run (`MaxClock` and the like) are arbitrary in all of these.

**ChannelProofs.** The three components built on channels and `select`. Bulkhead: `IInv` is
`TypeOK`, `Coherent`, `SlotsAccounted` and `RefusedNeverRuns`. The last two speak of callers
and tasks separately; `Coherent` ties them together: a function that reached the worker
belongs to a caller that waits or has given up, the worker holds exactly the function marked
as held, and only a closed bulkhead answers a queued function with `ErrBulkheadFull`. From
it follow `SlotsAlwaysAccounted`, `RefusalsAreFinal` and `TypeCorrect`, and
`ImplementsConcurrencyLimit`: the initial state maps to one of ConcurrencyLimit, the start
and the end of a function map to its steps (a free slot in `sem` is a free place in the
abstract limit because the slots are accounted for) and every other step to a stutter.
StreamTimeout: `Timed` says that every timer is set to its own deadline (the idle one to the
last mark's) and that a watchdog about to fire has missed it, and a gap that was too long is
remembered when a mark ends it. From it follows `StagesAreTrue`, for all timeouts. Hedge:
`HedgeInv` says which attempts were dispatched, that the results collected and queued belong
to different attempts that have ended (`Traced`, an injection; this is what makes "as many
failures as attempts" mean "all of them") and what an error presupposes. From it follows
`FailuresAreComplete`, for any number of attempts. Both are stated of `FairSpec`, of which
they use the safety part only.

**BudgetProofs.** `IInv` is `TypeOK`, `Exclusive` (with a window, whoever is between Lock
and Unlock holds `windowMu`), `Balanced` (totals and charges differ only while their holder
is between two stores, and by how much) and `Counted` (`fn` has run at most as often as
`calls` says, so comparing before running caps it). From it follow `CallsAreCapped`,
`TotalsAreExact` and `TypeCorrect`. `FlagIsRight` needs three more parts: snapshots never
exceed the totals, `breached` is set only when something is over, and `Noticed`: a total
over its ceiling is marked, or some call has still to load it or has loaded it when it was
over. All three are claimed while not `torn`; a Reset that meets no bookkeeping clears every
total and the flag, and the argument begins anew.

**AdaptiveProofs.** `IInv` is `Typed`, `LimitInRange`, `WellLoaded` and `InFlightExact`.
Nothing is known of the values a caller loaded earlier but their types and the comparisons
it made on them (`WellLoaded`); what makes the step safe is the compare-and-swap, which
applies a limit only to the one it was computed from. The square root's bound is proved from
its definition as the greatest root, Gradient2's from an argument about fractions. A value
converted to `int32` is itself when in range and clamped afterwards, so the range needs only
that `MaxLimit` is an `int32`; the size of a step also that the sum is (`Headroom`). From it
follow `LimitStaysInRange`, `InFlightIsExact`, `TypeCorrect` and the action property
`LimitMovesGently`.

**BreakerEvidenceProofs.** Redis: `IInv` is `Typed`, `Fenced`, `StreakShared` and
`TrialSlotsExact`. `Fenced`: as long as no Reset has met running calls, the calls admitted
since the state last changed are exactly those that carry the hash's generation, and none
carries a later one. So the record script counts a result if and only if it belongs to the
present period. From it follow `StreakIsShared` and `TrialSlotsAreExact`, for any number of
instances, any drift and any crashes and lost replies. Configuration: `ConfigsCanTrip`
proves `EveryConfigCanTrip` for every `Config` Go can hold (`GoConfigs`: `uint32` and
integer fields, thresholds that are NaN and unknown window types included). Windows: `WindowsAreExact` proves
`WindowExact` for windows of every size and histories of every length, from two invariants.
`Ringed`: counted back from `next`, the d-th slot of a count window holds the d-th most
recent outcome, so that the slot overwritten is the outcome that leaves. `Lapped`: a
non-empty bucket stands in its second's slot and holds no more than that second had; and
until the clock is set back every second of the window that had outcomes has all of them in
its bucket, because two seconds less than a lap apart have different slots (`SlotsOfALap`).
That `stats` adds these buckets up to the number of outcomes is an induction over the live
slots (`SumsOfParts`): `SubsetInduction` states induction for a set of subsets in place of a
predicate and follows from the well-foundedness of strict inclusion, and `SumsExist` shows
that the recursive function behind `MapThenSumSet` exists, as the number of pairs of a slot
and a number up to its count.

**StacksProofs.** Chains: all chains of different layers, all retry configurations. A call
is somewhere in the stack, on its way in or out, and only retry sends it in again.
`CallPaid`: going in, the operation has run at most in every earlier attempt, going out in
this one too, with one wait between two attempts. `BudgetPaid`: a budget counts a call
before it runs, inside retry once per attempt, outside once for all of them.
`StreakCounted`: a breaker outside retry has counted the failed calls in a row, plus the one
on its way out. `RefusedOnce`: after a refusal the call is out of retry's reach, on its way
to a retry that will not take it up, or held up by a spent budget inside retry. None of the
three properties is inductive without the position of the call. From these follow
`CallCostIsBounded`, the action property `BreakerCountsWholeCalls` and `RefusalsMetOnce`.
The last assumes `PresetsAsBuilt`: chains that claim to be presets are those the operators
of Presets build, for any configuration; that their retry predicates decline both refusals
is proved, not assumed. HTTP: stacks of any depth and order. `HttpIInv` relates what every
recorder knows to what is on the wire (`Recorded`: short of a Flush, the recorder of every
layer the request has still to leave holds exactly what the client has), whom the response
belongs to (`Authored`), which contexts have ended (`Ended`: from some layer inwards), who
still owes an answer (`Owed`: a request dropped silently is owed one by the layer whose
context ended, or by nobody since the client has left) and what each breaker recorded
(`Verdicts`, with the contexts and watchdogs it decided on). The three properties speak of the end of a request; none is inductive without
the way there. From it follow `ResponsesHaveOneAuthor`, `SilenceIsNoSuccess` and
`VerdictsAreRight`.

Every safety property of a passing run is stated by a theorem; `NoTripOverdue` for time
windows alone rests on the weaker theorem above. Out of the prover's reach and left to TLC
is liveness (`Recovers`, `DispatcherStops`, `NobodyIsLeft`, `EveryCallReturns`,
`HalfOpenDecided`, `CallEndsCleanly`, `DeadlinesBite`). The four violations are TLC's as
well.

## 6. Behaviours met on the way

The modules do what the code does; the properties are stated so that the following is
visible.

- Half-Open admits more than `MaxRequests` concurrent trials, and the refusal at
  `circuitbreaker/breaker.go:344` is never met: the violation of TrialLimit.
- A NaN `FailureRateThreshold` of a window is neither below nor above its range
  (`window.go:235`), is kept, and no rate reaches it (`window.go:247`): the breaker never
  trips, although `config.go:101-102` says that values outside (0, 1] fall back to the
  default. It is the exception `WindowCanTrip` names; the shipped predicates treat NaN as 0.
- A lock-free admission may hand out a Half-Open generation when the trip and the
  timeout fall between its loads (`breaker.go:297`). Its result is then a trial's.
- A callback may run after `Close` has returned (`breaker.go:207`).
- A time window may come to call for a trip by ageing, when successes leave it before failures do; it
  is asked again at the next result only, and not when an interval ends (`breaker.go:393-399`).
- `TripOnFailureRatio` is only asked after failures, so a success that
  completes the minimum number of requests does not trip (`breaker.go:414`).
- Overlapping `State()` calls: the violation of BreakerStateRaceEvents. `State` in
  CircuitBreaker is one exclusive section; BreakerStateRace has it word by word.
- A queued bulkhead request keeps its queue place while it runs
  (`bulkhead/bulkhead.go:191`) and `QueueTimeout` keeps running with it (`:201`): the caller may get
  the context's error while its function runs on. After Close, callers get
  `ErrBulkheadFull` also for functions that still run.
- The store may evict an entry that was just refreshed (`ratelimit/memory.go:174`),
  lose an update to an entry that was deleted meanwhile (`:230`), and refuse a
  key although the map has room for it (`:208`).
- An evicted bucket comes back full (`memory.go:167`): with a TTL shorter than the
  fill time the rate is exceeded. A refill pays for at most `maxElapsed`
  (`limiter.go:568`): a slow bucket (100 per 24 hours) left alone for longer forgets the rest.
- In lock-free mode a `Reset` beside running calls may leave a budget breached
  below its ceilings, or over them unbreached (`budget/budget.go:198`, `:297`), until a Reset
  that meets none; `budget.go:108-109` calls budgets safe for concurrent use. `torn` is the
  exception `BreachedWhenOver` names.
- In windowed mode a panic of the user's `Charge` leaves `windowMu` locked
  (`budget.go:243`), and every later call waits for ever. `wedged` is the exception
  `EveryCallReturns` names.
- The adaptive limiter converts its limits to `int32` unchecked (`adaptive/adaptive.go:88`,
  `:162`, `:236`, `:245`): a `MaxLimit` above 2^31-1 becomes a small or negative ceiling, and
  with it the limit may leave its range and admit nobody. Within `int32`, a limit so large
  that its sum with its root is none may step anywhere in its range (`:317`).
- The adaptive limiter may run more calls than a limit lowered meanwhile
  (`adaptive/adaptive.go:144`), and a success counted before a failure may
  still raise the limit after it (`:159`).
- `LLMHedgeRunner.Run` gives up when nothing is pending before it has tried all
  attempts; `FailsOnlyWhenAllFail` claims the full number for
  `hedge.Execute` only.
- A stream watchdog scheduled late finds both the first mark and its timer ready and
  may report a first-byte timeout; the idle limit begins at the first mark.
- Jitter may exceed `MaxDelay` by a tenth (`retry/backoff.go:62-66`).
- In a chain, a call the caller cancelled counts as a failure of the breaker; in
  `HTTPHandler` too, which answers it with 500.
- Presets: a `TimeoutError` of one attempt unwraps to the deadline, so `HTTPClient` and
  `LLMCall` do not retry it; a spent budget counts as a failure of the breaker
  outside it and may open it; `WithBudget` under a retry with default rules retries
  `BudgetExceeded`; a budget outside retry is charged once per call, not per attempt.
- A timeout between retry and a breaker or budget may turn a late refusal into a timeout, which
  retry takes up again (`timeout/timeout.go:72-96`). The proof attempt of `RefusalsNotRetried`
  found it; `Masked` names the exception, and no preset is built that way.
- At less than one token per `maxElapsed` (an hour), `calculateWaitTime` promises a token that a single
  refill at that time does not yield (`limiter.go:568`, `:637`).
- The call that crosses a ceiling returns its result together with `BudgetExceeded`.
- A positive cost below half a micro-USD rounds to 0 and `WithCostBudget` panics through
  `budget.New`, which the comment at `costbudget.go:131` excludes.
- HTTP: `Timeout` appends its message to a response the handler began with 200
  (`http/middleware.go:130`); a handler that flushes first sends a header no recorder
  knows of, so a middleware may add to it. Both are exceptions of `OneAuthor`.
- HTTP: a handler that goes on after its client has left is a success for the breaker around
  it when it answers below 500: the violation of CutStreams for `CircuitBreakerStream`.
- Redis breaker: a trial whose process dies, whose record fails or whose admission reply is
  lost keeps its slot, and `State()`, which asks by the admission script, takes one;
  Half-Open has no timeout, so `MaxRequests` of these wedge it until `Reset`. It closes when a
  success brings the count of trials back to 0, so after one success though
  `MaxRequests` is larger, and never while trials keep overlapping. `Reset` starts the generations at
  0 again: a record from before it may then be counted (`seen.straddled`).
- Redis rate store: beside the violation above, the burst it infers is one request
  short, it refuses always when the burst holds less than two requests, it
  offers no Reset, and `WithBucketParams` is attached by no code of the limiter although
  the store's comment says it is.

## 7. Not modelled

- gRPC adapters: they call `Execute` of a modelled pattern and translate its error; they
  keep no state and share no writer.
- Metrics, tracing, logging: output to third-party libraries. Error texts and structured
  error fields. Chaos and benchmark helpers. Examples other than the two Redis ones.
- The hedge layer inside a chain, which runs the layers within it several times at
  once; Hedge models it alone. In a chain the breaker has no counting interval, and
  calls follow one another.
- HTTP: `Hijack` and `Push`, key extractors and `SanitizeKey`, panics of handlers.
- Redis: retries that the go-redis client makes by itself, which may run a script
  twice; several keys.
- The composition of RateLimiter over MemoryStore at the store's granularity.
  `AtomicUpdate` is one step in RateLimiter; that an update may be lost with an entry
  that is evicted or deleted meanwhile is visible in MemoryStore only.
- Within the modelled parts: key validation and cancelled contexts that change nothing
  in the rate limiter, floating-point rounding, Go's memory model beyond single-word interleaving, and panics of a
  function queued in a bulkhead, which end the process.

## 8. Plan

Order chosen so that the parts most used and most concurrent came first. Written:
the modules above, in the order breaker, windows and configuration, bulkhead, store,
rate limiter, budget, adaptive limiter, hedge, stream timeout, chain, Redis breaker,
presets and cost budget, HTTP adapters, Redis rate store. Next:

1. RateLimiter over MemoryStore, so that lost updates and evictions meet the token
   arithmetic.
2. The hedge layer in Chain, and concurrent calls through one chain.
