---------------------------- MODULE CircuitBreaker ----------------------------
(***************************************************************************)
(* circuitbreaker/breaker.go: the state machine guarded by cb.mu, the      *)
(* lock-free admission path over the three atomic mirrors, and the         *)
(* goroutine that delivers state changes to OnStateChange.                 *)
(*                                                                         *)
(* A critical section under cb.mu changes the guarded fields in one step,  *)
(* since nobody else can read them, and leaves in cb.pending the           *)
(* syncFastFields calls it makes, each with the event emitted after it.    *)
(* The atomic stores of a sync are separate steps because fastAdmit reads  *)
(* the mirrors without the lock.  The lock is held until pending is empty. *)
(*                                                                         *)
(* A lone State() call holds the read lock, which excludes every writer,   *)
(* so it is one critical section here.  Overlapping State() calls are      *)
(* modelled in BreakerStateRace.                                           *)
(***************************************************************************)
EXTENDS SlidingWindow, Sequences, FiniteSets

CONSTANTS
  Callers,          \* goroutines calling Execute
  MaxRequests,      \* Config.MaxRequests, after setDefaults
  Interval,         \* Config.Interval, 0 = counts never reset in Closed
  Timeout,          \* Config.Timeout, after setDefaults
  ReadyToTrip(_),   \* Config.ReadyToTrip, a predicate on Counts
  WindowType,       \* "disabled", "count" or "time"
  WindowSize, MinimumCalls, RatePercent, \* the sliding window's parameters
  TicksPerSecond,   \* clock ticks in one second
  HasCallback,      \* Config.OnStateChange # nil
  BufferSize,       \* stateChangeBufferSize
  CountModulus,     \* 2^32 in the code: Counts fields are uint32
  MaxClock, MaxGen, MaxCalls  \* bounds: see Tick, AfterRequest and Reset

States == {"closed", "open", "halfOpen"}
Free == "free"      \* cb.mu is not held
Admin == "admin"    \* a goroutine calling State, Reset or Close

ASSUME ConfigAssumption ==
  /\ MaxRequests \in Nat \ {0}
  /\ Interval \in Nat
  /\ Timeout \in Nat \ {0}
  /\ CountModulus \in Nat /\ MaxRequests < CountModulus
  /\ WindowType \in {"disabled", "count", "time"}
  /\ WindowSize \in Nat \ {0} /\ MinimumCalls \in Nat \ {0}
  /\ RatePercent \in 1..100
  /\ TicksPerSecond \in Nat \ {0}
  /\ HasCallback \in BOOLEAN
  /\ BufferSize \in Nat
ASSUME BoundAssumption == MaxClock \in Nat /\ MaxGen \in Nat /\ MaxCalls \in Nat
ASSUME ActorAssumption == Free \notin Callers /\ Admin \notin Callers

VARIABLES
  cb,       \* the fields guarded by cb.mu, and the pending publications
  mu,       \* the goroutine holding cb.mu, or Free
  stage,    \* the next store of the sync being published
  fast,     \* the atomic mirrors fastGen, fastExpiry, fastState
  clock,    \* time.Now()
  call,     \* per caller: where its Execute is and what it has read
  queue,    \* the stateChanges channel
  disp,     \* the dispatcher: "select", "callback" or "exited"
  done,     \* the done channel is closed
  observed, \* history: the state the last delivered event announced
  lost,     \* history: an event was dropped
  since     \* history: when the oldest outcome in cb.counts was counted

vars == <<cb, mu, stage, fast, clock, call, queue, disp, done, observed, lost, since>>
chanVars == <<queue, disp, done, observed, lost>>

-----------------------------------------------------------------------------
(* Counts (state.go).  The fields wrap like the uint32 they are.            *)

Inc(n) == (n + 1) % CountModulus

NoCounts == [Requests |-> 0, TotalSuccesses |-> 0, TotalFailures |-> 0,
             ConsecutiveSuccesses |-> 0, ConsecutiveFailures |-> 0]

CountsOnSuccess(c) == [c EXCEPT !.Requests = Inc(@), !.TotalSuccesses = Inc(@),
                                !.ConsecutiveSuccesses = Inc(@), !.ConsecutiveFailures = 0]

CountsOnFailure(c) == [c EXCEPT !.Requests = Inc(@), !.TotalFailures = Inc(@),
                                !.ConsecutiveFailures = Inc(@), !.ConsecutiveSuccesses = 0]

-----------------------------------------------------------------------------
(* The configured window: newSlidingWindow, record, windowTrips.            *)

UsesWindow == WindowType # "disabled"
Unix(now) == now \div TicksPerSecond

NewWindow == CASE WindowType = "count"    -> NewCountWindow(WindowSize)
               [] WindowType = "time"     -> NewTimeWindow(WindowSize)
               [] WindowType = "disabled" -> "nil"

WindowRecord(w, success, now) ==
  CASE WindowType = "count"    -> CountRecord(w, WindowSize, success)
    [] WindowType = "time"     -> TimeRecord(w, WindowSize, success, Unix(now))
    [] WindowType = "disabled" -> w

WindowStats(w, now) ==
  IF WindowType = "count" THEN CountStats(w) ELSE TimeStats(w, WindowSize, Unix(now))

\* float64(failures)/float64(calls) >= FailureRateThreshold, over the rationals.
WindowTrips(w, now) ==
  LET s == WindowStats(w, now)
  IN  s.calls >= MinimumCalls /\ s.failures * 100 >= RatePercent * s.calls

-----------------------------------------------------------------------------
(* The critical sections, as operators from guarded fields b to guarded     *)
(* fields.  Caller holds cb.mu.                                             *)

NoEvent == [from |-> "none", to |-> "none"]
Event(from, to) == IF HasCallback THEN [from |-> from, to |-> to] ELSE NoEvent

\* syncFastFields followed by emitStateChange(ev), if there is an event.
Publish(b, ev) ==
  [b EXCEPT !.pending = Append(@, [gen |-> b.generation, expiry |-> b.expiry,
                                   state |-> b.state, event |-> ev])]

\* The expiry of a regime that begins now; Half-Open keeps the one it finds.
NewExpiry(old, newState, now) ==
  CASE newState = "closed"   -> now + Interval
    [] newState = "open"     -> now + Timeout
    [] newState = "halfOpen" -> old

Entered(b, newState, now) ==
  [b EXCEPT !.state = newState, !.generation = @ + 1, !.counts = NoCounts,
            !.window = NewWindow, !.expiry = NewExpiry(@, newState, now)]

\* Slip: oldState taken after the assignment of cb.state.
SetStateLateOldState(b, newState, now) ==
  IF b.state = newState THEN b
  ELSE Publish(Entered(b, newState, now), Event(newState, newState))

SetState(b, newState, now) ==
  IF b.state = newState THEN b
  ELSE Publish(Entered(b, newState, now), Event(b.state, newState))

\* Slip: the interval rolls over but the counts are kept.
CurrentStateKeepingCounts(b, now) ==
  CASE b.state = "closed" /\ Interval > 0 /\ b.expiry < now ->
         Publish([b EXCEPT !.expiry = now + Interval], NoEvent)
    [] b.state = "open" /\ b.expiry < now -> SetState(b, "halfOpen", now)
    [] OTHER -> b

\* Slip: the interval rolls over without refreshing the mirrors.
CurrentStateWithoutSync(b, now) ==
  CASE b.state = "closed" /\ Interval > 0 /\ b.expiry < now ->
         [b EXCEPT !.counts = NoCounts, !.expiry = now + Interval]
    [] b.state = "open" /\ b.expiry < now -> SetState(b, "halfOpen", now)
    [] OTHER -> b

CurrentState(b, now) ==
  CASE b.state = "closed" /\ Interval > 0 /\ b.expiry < now ->
         Publish([b EXCEPT !.counts = NoCounts, !.expiry = now + Interval], NoEvent)
    [] b.state = "open" /\ b.expiry < now -> SetState(b, "halfOpen", now)
    [] OTHER -> b

\* onSuccess and onFailure in Closed: count, record, and trip when due.
TripIfDue(b, due, now) == IF due THEN SetState(b, "open", now) ELSE b

\* Slip: > for >=.
TrialsPassedTooLate(counts) == counts.ConsecutiveSuccesses > MaxRequests

TrialsPassed(counts) == counts.ConsecutiveSuccesses >= MaxRequests

\* Slip: the window is evaluated on failures only.
OnSuccessWithoutEvaluation(b, now) ==
  CASE b.state = "closed" ->
         [b EXCEPT !.counts = CountsOnSuccess(@), !.window = WindowRecord(@, TRUE, now)]
    [] b.state = "halfOpen" ->
         LET c == [b EXCEPT !.counts = CountsOnSuccess(@)]
         IN  IF TrialsPassed(c.counts) THEN SetState(c, "closed", now) ELSE c
    [] OTHER -> b

OnSuccess(b, now) ==
  CASE b.state = "closed" ->
         LET c == [b EXCEPT !.counts = CountsOnSuccess(@),
                            !.window = WindowRecord(@, TRUE, now)]
         IN  TripIfDue(c, UsesWindow /\ WindowTrips(c.window, now), now)
    [] b.state = "halfOpen" ->
         LET c == [b EXCEPT !.counts = CountsOnSuccess(@)]
         IN  IF TrialsPassed(c.counts) THEN SetState(c, "closed", now) ELSE c
    [] OTHER -> b

OnFailure(b, now) ==
  CASE b.state = "closed" ->
         LET c == [b EXCEPT !.counts = CountsOnFailure(@),
                            !.window = WindowRecord(@, FALSE, now)]
         IN  TripIfDue(c, IF UsesWindow THEN WindowTrips(c.window, now)
                                        ELSE ReadyToTrip(c.counts), now)
    [] b.state = "halfOpen" -> SetState(b, "open", now)
    [] OTHER -> b

\* beforeRequest rejects in Open and in a Half-Open state without room.
Rejects(b) == \/ b.state = "open"
              \/ b.state = "halfOpen" /\ b.counts.Requests >= MaxRequests

\* Slip: results are settled whatever generation they belong to.
SettleAnyGeneration(b, gen, success, now) ==
  IF success THEN OnSuccess(b, now) ELSE OnFailure(b, now)

\* afterRequest: a result that belongs to another generation is ignored.
Settle(b, gen, success, now) ==
  IF gen # b.generation THEN b
  ELSE IF success THEN OnSuccess(b, now) ELSE OnFailure(b, now)

ResetFields(b, now) ==
  Publish([b EXCEPT !.state = "closed", !.generation = @ + 1, !.counts = NoCounts,
                    !.window = NewWindow, !.expiry = now + Interval],
          Event(b.state, "closed"))

-----------------------------------------------------------------------------

Init ==
  /\ cb = [state |-> "closed", generation |-> 0, counts |-> NoCounts,
           expiry |-> Interval, window |-> NewWindow, pending |-> <<>>]
  /\ mu = Free
  /\ stage = "gen"
  /\ fast = [gen |-> 0, expiry |-> Interval, state |-> "closed"]
  /\ clock = 0
  /\ call = [c \in Callers |-> [pc |-> "idle", now |-> 0, gen |-> 0, adm |-> 0]]
  /\ queue = <<>>
  /\ disp = "select"
  /\ done = FALSE
  /\ observed = "closed"
  /\ lost = FALSE
  /\ since = 0

\* A goroutine enters a critical section, leaves the guarded fields at b and
\* keeps the lock while it has something to publish.
Critical(actor, b) ==
  /\ mu = Free
  /\ cb' = b
  /\ mu' = IF b.pending = <<>> THEN Free ELSE actor
  /\ since' = CASE b.counts = NoCounts -> 0
                [] b.counts.Requests = 1 /\ b # cb -> clock
                [] OTHER -> since

Goto(c, pc) == call' = [call EXCEPT ![c].pc = pc]

\* A caller whose own critical section is still publishing is not elsewhere.
At(c, pc) == call[c].pc = pc /\ mu # c

-----------------------------------------------------------------------------
(* Execute: fastAdmit, one atomic load per step.                            *)

FastLoadState(c) ==
  /\ At(c, "idle")
  /\ Goto(c, IF fast.state # "closed" THEN "slow"
             ELSE IF Interval > 0 THEN "now" ELSE "recheck")
  /\ UNCHANGED <<cb, mu, stage, fast, clock, since, chanVars>>

FastReadClock(c) ==
  /\ At(c, "now")
  /\ call' = [call EXCEPT ![c].pc = "expiry", ![c].now = clock]
  /\ UNCHANGED <<cb, mu, stage, fast, clock, since, chanVars>>

FastLoadExpiry(c) ==
  /\ At(c, "expiry")
  /\ call' = [call EXCEPT ![c].pc = IF call[c].now >= fast.expiry THEN "slow" ELSE "recheck",
                          ![c].now = 0]
  /\ UNCHANGED <<cb, mu, stage, fast, clock, since, chanVars>>

FastRecheck(c) ==
  /\ At(c, "recheck")
  /\ Goto(c, IF fast.state # "closed" THEN "slow" ELSE "gen")
  /\ UNCHANGED <<cb, mu, stage, fast, clock, since, chanVars>>

FastLoadGen(c) ==
  /\ At(c, "gen")
  /\ call' = [call EXCEPT ![c] = [pc |-> "running", now |-> 0, gen |-> fast.gen,
                                  adm |-> cb.generation]]
  /\ UNCHANGED <<cb, mu, stage, fast, clock, since, chanVars>>

-----------------------------------------------------------------------------
(* Execute: the slow path and the end of the call.                          *)

\* Slip: a Half-Open trial is counted when it is admitted.
BeforeRequestReserving(c) ==
  /\ At(c, "slow")
  /\ LET b == CurrentState(cb, clock)
         reserved == [b EXCEPT !.counts.Requests = Inc(@)]
     IN  /\ Critical(c, IF b.state = "halfOpen" /\ ~Rejects(b) THEN reserved ELSE b)
         /\ call' = [call EXCEPT ![c] =
                       IF Rejects(b) THEN [@ EXCEPT !.pc = "idle"]
                       ELSE [pc |-> "running", now |-> 0, gen |-> b.generation,
                             adm |-> b.generation]]
  /\ UNCHANGED <<stage, fast, clock, chanVars>>

BeforeRequest(c) ==
  /\ At(c, "slow")
  /\ LET b == CurrentState(cb, clock)
     IN  /\ Critical(c, b)
         /\ call' = [call EXCEPT ![c] =
                       IF Rejects(b) THEN [@ EXCEPT !.pc = "idle"]
                       ELSE [pc |-> "running", now |-> 0, gen |-> b.generation,
                             adm |-> b.generation]]
  /\ UNCHANGED <<stage, fast, clock, chanVars>>

\* fn has returned and IsSuccessful(err) = success: afterRequest.  The bounds
\* let the dependency fail only while fewer than MaxGen regimes have begun, and
\* a time window collect at most MaxCalls outcomes.
AfterRequest(c, success) ==
  /\ At(c, "running")
  /\ success \/ cb.generation < MaxGen
  /\ WindowType = "time" => WindowStats(cb.window, clock).calls < MaxCalls
  /\ Critical(c, Settle(CurrentState(cb, clock), call[c].gen, success, clock))
  /\ call' = [call EXCEPT ![c] = [pc |-> "idle", now |-> 0, gen |-> 0, adm |-> 0]]
  /\ UNCHANGED <<stage, fast, clock, chanVars>>

\* fn panics: the panic unwinds Execute, afterRequest never runs.
FnPanics(c) ==
  /\ At(c, "running")
  /\ call' = [call EXCEPT ![c] = [pc |-> "idle", now |-> 0, gen |-> 0, adm |-> 0]]
  /\ UNCHANGED <<cb, mu, stage, fast, clock, since, chanVars>>

-----------------------------------------------------------------------------
(* The other operations of the interface.                                   *)

State ==
  /\ Critical(Admin, CurrentState(cb, clock))
  /\ UNCHANGED <<stage, fast, clock, call, chanVars>>

Reset ==
  /\ cb.generation < MaxGen
  /\ Critical(Admin, ResetFields(cb, clock))
  /\ UNCHANGED <<stage, fast, clock, call, chanVars>>

Close ==
  /\ HasCallback /\ ~done
  /\ done' = TRUE
  /\ UNCHANGED <<cb, mu, stage, fast, clock, call, queue, disp, observed, lost, since>>

-----------------------------------------------------------------------------
(* Publication of the pending syncs, by the goroutine that holds cb.mu.     *)

\* The head of pending is published; the last one releases the lock.
Unlocking == /\ cb' = [cb EXCEPT !.pending = Tail(@)]
             /\ mu' = IF Len(cb.pending) = 1 THEN Free ELSE mu
             /\ stage' = "gen"

StoreGen ==
  /\ cb.pending # <<>> /\ stage = "gen"
  /\ fast' = [fast EXCEPT !.gen = Head(cb.pending).gen]
  /\ stage' = "expiry"
  /\ UNCHANGED <<cb, mu, clock, call, since, chanVars>>

StoreExpiry ==
  /\ cb.pending # <<>> /\ stage = "expiry"
  /\ fast' = [fast EXCEPT !.expiry = Head(cb.pending).expiry]
  /\ stage' = "state"
  /\ UNCHANGED <<cb, mu, clock, call, since, chanVars>>

StoreState ==
  /\ cb.pending # <<>> /\ stage = "state"
  /\ fast' = [fast EXCEPT !.state = Head(cb.pending).state]
  /\ IF Head(cb.pending).event = NoEvent
     THEN Unlocking ELSE stage' = "emit" /\ UNCHANGED <<cb, mu>>
  /\ UNCHANGED <<clock, call, since, chanVars>>

\* emitStateChange's select: send when there is room, drop when done is closed
\* (either may be picked when both are ready), drop when neither is ready.
EmitSend ==
  /\ cb.pending # <<>> /\ stage = "emit"
  /\ Len(queue) < BufferSize
  /\ queue' = Append(queue, Head(cb.pending).event)
  /\ Unlocking
  /\ UNCHANGED <<fast, clock, call, since, disp, done, observed, lost>>

EmitDrop ==
  /\ cb.pending # <<>> /\ stage = "emit"
  /\ done \/ Len(queue) >= BufferSize
  /\ lost' = TRUE
  /\ Unlocking
  /\ UNCHANGED <<fast, clock, call, since, queue, disp, done, observed>>

-----------------------------------------------------------------------------
(* dispatchStateChanges.                                                    *)

Deliver ==
  /\ HasCallback /\ disp = "select" /\ queue # <<>>
  /\ queue' = Tail(queue)
  /\ observed' = Head(queue).to
  /\ disp' = "callback"
  /\ UNCHANGED <<cb, mu, stage, fast, clock, call, done, lost, since>>

\* OnStateChange returns, or panics and is recovered by safeCallback.
CallbackReturns ==
  /\ disp = "callback"
  /\ disp' = "select"
  /\ UNCHANGED <<cb, mu, stage, fast, clock, call, queue, done, observed, lost, since>>

\* Slip: done is looked at only when an event has arrived.
DispatcherExitsOnEvent ==
  /\ disp = "select" /\ done /\ queue # <<>>
  /\ disp' = "exited"
  /\ UNCHANGED <<cb, mu, stage, fast, clock, call, queue, done, observed, lost, since>>

DispatcherExits ==
  /\ disp = "select" /\ done
  /\ disp' = "exited"
  /\ UNCHANGED <<cb, mu, stage, fast, clock, call, queue, done, observed, lost, since>>

-----------------------------------------------------------------------------

\* Ticks past the current deadline change no comparison in the code unless a
\* time window ages with them, so the clock stops there (and at MaxClock).
Tick ==
  /\ clock < MaxClock
  /\ clock <= cb.expiry \/ WindowType = "time"
  /\ clock' = clock + 1
  /\ UNCHANGED <<cb, mu, stage, fast, call, since, chanVars>>

FastPath(c) == \/ FastLoadState(c) \/ FastReadClock(c) \/ FastLoadExpiry(c)
               \/ FastRecheck(c) \/ FastLoadGen(c)

Locking(c) == BeforeRequest(c) \/ \E success \in BOOLEAN : AfterRequest(c, success)

Publishing == StoreGen \/ StoreExpiry \/ StoreState \/ EmitSend \/ EmitDrop

Dispatcher == Deliver \/ CallbackReturns \/ DispatcherExits

Next == \/ \E c \in Callers : FastPath(c) \/ Locking(c) \/ FnPanics(c)
        \/ State \/ Reset \/ Close
        \/ Publishing
        \/ Dispatcher
        \/ Tick

Spec == Init /\ [][Next]_vars

\* Goroutines are scheduled and sync.RWMutex starves no one, so a caller that
\* waits for cb.mu gets it even though it is only free now and then (SF); a
\* select picks every ready case sooner or later (SF on the exit).  Of the
\* environment: time passes, requests keep arriving, and calls of the protected
\* function keep succeeding now and then.  Panics, failures (which MaxGen makes
\* finite), State, Reset and Close are not assumed to happen.
Fairness ==
  /\ WF_vars(Tick)
  /\ WF_vars(Publishing)
  /\ \A c \in Callers : /\ WF_vars(FastPath(c))
                        /\ SF_vars(BeforeRequest(c))
                        /\ SF_vars(AfterRequest(c, TRUE))
  /\ WF_vars(CallbackReturns)
  /\ SF_vars(DispatcherExits)

FairSpec == Spec /\ Fairness

-----------------------------------------------------------------------------
(* Properties.                                                              *)

Counter == 0..(CountModulus - 1)
CountsType == [Requests : Counter, TotalSuccesses : Counter, TotalFailures : Counter,
               ConsecutiveSuccesses : Counter, ConsecutiveFailures : Counter]
WindowSet ==
  CASE WindowType = "count" ->
         [outcomes : [Slots(WindowSize) -> BOOLEAN], next : Slots(WindowSize),
          filled : 0..WindowSize, failures : Int]
    [] WindowType = "time" -> [Slots(WindowSize) -> [epoch : Int, calls : Nat, failures : Nat]]
    [] WindowType = "disabled" -> {"nil"}
EventSet == [from : States, to : States]
CallSet == [pc : {"idle", "now", "expiry", "recheck", "gen", "slow", "running"},
            now : Nat, gen : Nat, adm : Nat]
SyncSet == [gen : Nat, expiry : Nat, state : States, event : EventSet \cup {NoEvent}]

\* The breaker's fields, their atomic mirrors, the event queue and the calls keep
\* their types; uint32 counts stay below their modulus (breaker.go:123-152).
TypeOK ==
  /\ cb \in [state : States, generation : Nat, counts : CountsType, expiry : Nat,
             window : WindowSet, pending : Seq(SyncSet)]
  /\ mu \in Callers \cup {Free, Admin}
  /\ stage \in {"gen", "expiry", "state", "emit"}
  /\ fast \in [gen : Nat, expiry : Nat, state : States]
  /\ clock \in Nat
  /\ call \in [Callers -> CallSet]
  /\ queue \in Seq(EventSet)
  /\ disp \in {"select", "callback", "exited"}
  /\ done \in BOOLEAN /\ lost \in BOOLEAN
  /\ observed \in States
  /\ since \in Nat

\* Half-Open never wedges: its counters hold nothing but successes, fewer than
\* MaxRequests of them, so the refusal in beforeRequest (breaker.go:344), which
\* would turn away every caller with no timer to end it, is never met.  That is
\* because Requests counts finished trials only: the other side of it is that the
\* trials under way are not limited at all, against the documentation
\* (TrialsBounded).
HalfOpenHasRoom ==
  cb.state = "halfOpen" =>
    /\ cb.counts.Requests < MaxRequests
    /\ cb.counts.ConsecutiveSuccesses = cb.counts.Requests
    /\ cb.counts.TotalFailures = 0

\* What docs/concepts.md:39 and circuitbreaker/config.go:51-53 say of Half-Open: at
\* most MaxRequests trial requests are admitted.  Here, of one Half-Open regime, at
\* most so many run at once, whenever cb.mu is free.  The code does not keep it:
\* beforeRequest (breaker.go:344) compares MaxRequests with Requests, which
\* afterRequest increments, so that trials still running are not counted.
TrialsBounded ==
  mu = Free /\ cb.state = "halfOpen" =>
    Cardinality({c \in Callers : call[c].pc = "running" /\ call[c].gen = cb.generation})
      <= MaxRequests

\* Whenever cb.mu is free the lock-free path sees the very regime the locked
\* path would: every change of state, expiry or generation was published.
MirrorsPublished ==
  mu = Free => fast = [gen |-> cb.generation, expiry |-> cb.expiry, state |-> cb.state]

\* The result of a request admitted in an earlier regime does nothing beyond
\* what any caller looking at the clock would do: it is not counted, does not
\* trip the breaker and does not close it (breaker.go:377-380), whichever of
\* the two paths admitted it.
StaleResultsAreIgnored ==
  [][\A c \in Callers :
       /\ call[c].pc = "running" /\ call'[c].pc = "idle"
       /\ call[c].adm # cb.generation
       => cb' \in {cb, CurrentState(cb, clock)}]_vars

\* Outcomes counted together in Closed are at most Interval apart, although
\* counts are cleared lazily and the fast path never clears them
\* (config.go:42-44, breaker.go:393-399).
OutcomesShareAnInterval ==
  [][/\ Interval > 0 /\ cb'.state = "closed"
     /\ cb'.counts # cb.counts /\ cb'.counts # NoCounts
     => clock - since' <= Interval]_vars

\* The trip policy, as the breaker consults it.
TripDue(b, now) == IF UsesWindow THEN WindowTrips(b.window, now) ELSE ReadyToTrip(b.counts)

\* No result leaves the breaker Closed with evidence that calls for tripping:
\* every outcome that can complete the evidence is followed by an evaluation
\* (breaker.go:416-419; for ReadyToTrip, which is asked on failures only, this
\* is a demand on the predicate).
NoTripOverdue ==
  [][cb'.state = "closed" /\ cb'.counts # cb.counts => ~TripDue(cb', clock)]_vars

\* While no event was dropped, the state OnStateChange last announced plus the
\* events still on their way lead, link by link, to the breaker's state, and a
\* change of state that carries no event is none (docs/concepts.md:50 "Delivered
\* in order via dispatcher goroutine").
EventsTellTheState ==
  LET heard(i) == IF i = 0 THEN observed ELSE queue[i].to
      told(i) == IF i = 0 THEN heard(Len(queue)) ELSE cb.pending[i].state
  IN  HasCallback /\ ~lost =>
        /\ \A i \in 1..Len(queue) : queue[i].from = heard(i - 1)
        /\ \A i \in 1..Len(cb.pending) :
             IF cb.pending[i].event = NoEvent THEN cb.pending[i].state = told(i - 1)
             ELSE cb.pending[i].event = [from |-> told(i - 1), to |-> cb.pending[i].state]
        /\ told(Len(cb.pending)) = cb.state

\* An Open breaker closes again once the dependency has stopped failing, even
\* if trial requests panic in between and their result is never reported.
Recovers == cb.state = "open" ~> cb.state = "closed"

\* Close ends the dispatcher goroutine, also when it finds events in the queue
\* or a callback running (breaker.go:104-106).
DispatcherStops == done ~> disp = "exited"
=============================================================================
