-------------------------------- MODULE Budget --------------------------------
(***************************************************************************)
(* budget/budget.go: cost accounting over atomic counters, in its two       *)
(* modes.  With ResetAfter = 0 Execute and Reset are lock-free and every    *)
(* access to a counter or to breached is a step of its own.  With a rolling *)
(* window the same steps happen between Lock and Unlock of windowMu, and    *)
(* only fn and OnExceeded run outside it.  What the error values carry is   *)
(* left out.                                                                *)
(***************************************************************************)
EXTENDS Integers, FiniteSets

CONSTANTS
  Callers,                      \* goroutines calling Execute
  MaxTokens, MaxUSD, MaxCalls,  \* Config.Max; 0 = that dimension is not capped
  ResetAfters,                  \* the values of Config.ResetAfter; 0 = no window
  Costs,                        \* what Charge may return, as [tokens, usd]
  Resets,                       \* bound: calls of Reset
  MaxRuns,                      \* bound: calls of Execute that are begun
  MaxClock                      \* bound on the clock

Free == "free"
Admin == "admin"   \* the goroutine calling Reset
Actors == Callers \cup {Admin}

ASSUME ConfigAssumption ==
  /\ MaxTokens \in Nat /\ MaxUSD \in Nat /\ MaxCalls \in Nat
  /\ MaxTokens + MaxUSD + MaxCalls > 0       \* New refuses an empty Max
  /\ ResetAfters \subseteq Nat
  /\ Costs \subseteq [tokens : Nat, usd : Nat]
ASSUME BoundAssumption == Resets \in Nat /\ MaxRuns \in Nat /\ MaxClock \in Nat
ASSUME ActorAssumption == Free \notin Callers /\ Admin \notin Callers /\ IsFiniteSet(Callers)

VARIABLES
  total,     \* the atomics tokens, usdMicros and calls
  breached,  \* the atomic flag
  mu,        \* who holds windowMu
  window,    \* windowOpen, windowStart and, constant, ResetAfter as its length
  clock,     \* Config.Clock
  op,        \* per goroutine: where it is, what its call costs, what it has loaded
  charged,   \* history, with a window: the whole charges since the last reset ended
  ran,       \* history: calls of fn since calls was cleared
  begun,     \* history: calls of Execute
  resets,    \* history: calls of Reset
  torn,      \* history: the last lock-free Reset overlapped a call's bookkeeping
  wedged     \* history: a Charge panicked under windowMu

vars == <<total, breached, mu, window, clock, op, charged, ran, begun, resets, torn, wedged>>
history == <<charged, ran, begun, resets, torn, wedged>>

Windowed == window.length > 0
Zero == [tokens |-> 0, usd |-> 0, calls |-> 0]
NoCost == [tokens |-> 0, usd |-> 0]
Idle == [pc |-> "idle", cost |-> NoCost, seen |-> Zero]

Init ==
  /\ total = Zero /\ breached = FALSE /\ mu = Free
  /\ \E length \in ResetAfters : window = [open |-> FALSE, start |-> 0, length |-> length]
  /\ clock = 0
  /\ op = [a \in Actors |-> Idle]
  /\ charged = NoCost /\ ran = 0 /\ begun = 0 /\ resets = 0 /\ torn = FALSE /\ wedged = FALSE

Over(t) == \/ MaxTokens > 0 /\ t.tokens > MaxTokens
           \/ MaxUSD > 0 /\ t.usd > MaxUSD
           \/ MaxCalls > 0 /\ t.calls > MaxCalls

At(a, pc) == op[a].pc = pc
Goto(a, pc) == op' = [op EXCEPT ![a].pc = pc]
Return(a) == op' = [op EXCEPT ![a] = Idle]
Lock(a) == IF Windowed THEN mu = Free /\ mu' = a ELSE UNCHANGED mu
Unlock == mu' = Free

\* Where a call is in neither of its two stretches of bookkeeping.
Resting == {"idle", "enter", "run", "returned", "fire"}

\* A call begins its bookkeeping, perhaps beside a Reset that takes no lock.
MeetsReset == torn' = IF ~Windowed /\ ~At(Admin, "idle") THEN TRUE ELSE torn

-----------------------------------------------------------------------------
(* Clearing the budget: Reset and autoResetLocked store the four atomics    *)
(* one after the other.                                                     *)

Clear(a, field, from, to) ==
  /\ At(a, from)
  /\ total' = [total EXCEPT ![field] = 0]
  /\ ran' = IF field = "calls" THEN 0 ELSE ran
  /\ Goto(a, to)
  /\ UNCHANGED <<breached, mu, window, clock, charged, begun, resets, torn, wedged>>

ClearTokens(a) == Clear(a, "tokens", "clearTokens", "clearUSD")
ClearUSD(a) == Clear(a, "usd", "clearUSD", "clearCalls")
ClearCalls(a) == Clear(a, "calls", "clearCalls", "clearBreach")

\* The last store; Reset closes the window and returns, Execute goes on.
ClearBreach(a) ==
  /\ At(a, "clearBreach")
  /\ breached' = FALSE
  /\ IF a = Admin THEN /\ window' = IF Windowed THEN [window EXCEPT !.open = FALSE] ELSE window
                       /\ Unlock /\ Return(a)
     ELSE Goto(a, "check") /\ UNCHANGED <<window, mu>>
  /\ charged' = NoCost
  /\ UNCHANGED <<total, clock, ran, begun, resets, torn, wedged>>

Reset ==
  /\ At(Admin, "idle") /\ resets < Resets
  /\ Lock(Admin)
  /\ Goto(Admin, "clearTokens")
  /\ torn' = IF ~Windowed /\ (\E c \in Callers : op[c].pc \notin Resting) THEN TRUE ELSE FALSE
  /\ resets' = resets + 1
  /\ UNCHANGED <<total, breached, window, clock, charged, ran, begun, wedged>>

-----------------------------------------------------------------------------
(* Execute, up to fn.                                                       *)

Begin(c) ==
  /\ At(c, "idle") /\ begun < MaxRuns
  /\ begun' = begun + 1
  /\ Goto(c, "enter")
  /\ UNCHANGED <<total, breached, mu, window, clock, charged, ran, resets, torn, wedged>>

Enter(c) ==
  /\ At(c, "enter") /\ Lock(c)
  /\ Goto(c, IF Windowed THEN "roll" ELSE "check")
  /\ MeetsReset
  /\ UNCHANGED <<total, breached, window, clock, charged, ran, begun, resets, wedged>>

\* autoResetLocked: open the window, keep it, or start a new one and clear.
Roll(c) ==
  /\ At(c, "roll")
  /\ LET elapsed == window.open /\ clock - window.start >= window.length
     IN  /\ window' = IF window.open /\ ~elapsed THEN window
                      ELSE [window EXCEPT !.open = TRUE, !.start = clock]
         /\ Goto(c, IF elapsed THEN "clearTokens" ELSE "check")
  /\ UNCHANGED <<total, breached, mu, clock, history>>

\* Slip: the early return forgets the lock.
CheckBreachedLeavingLocked(c) ==
  /\ At(c, "check")
  /\ IF breached THEN Return(c) ELSE Goto(c, "count")
  /\ UNCHANGED <<total, breached, mu, window, clock, history>>

CheckBreached(c) ==
  /\ At(c, "check")
  /\ IF breached THEN Return(c) /\ Unlock ELSE Goto(c, "count") /\ UNCHANGED mu
  /\ UNCHANGED <<total, breached, window, clock, history>>

\* Slip: the cap is compared with the count from before this call.
CountCallLate(c) ==
  /\ At(c, "count")
  /\ total' = [total EXCEPT !.calls = @ + 1]
  /\ IF MaxCalls > 0 /\ total.calls > MaxCalls
     THEN Goto(c, "mark") /\ UNCHANGED <<mu, ran>>
     ELSE Goto(c, "run") /\ Unlock /\ ran' = ran + 1
  /\ UNCHANGED <<breached, window, clock, charged, begun, resets, torn, wedged>>

\* The pre-charge: calls.Add(1) and the comparison with the cap.
CountCall(c) ==
  /\ At(c, "count")
  /\ total' = [total EXCEPT !.calls = @ + 1]
  /\ IF MaxCalls > 0 /\ total.calls + 1 > MaxCalls
     THEN Goto(c, "mark") /\ UNCHANGED <<mu, ran>>
     ELSE Goto(c, "run") /\ Unlock /\ ran' = ran + 1
  /\ UNCHANGED <<breached, window, clock, charged, begun, resets, torn, wedged>>

\* fn returns, or panics and unwinds Execute; no lock is held.
FnReturns(c) ==
  /\ At(c, "run") /\ Goto(c, "returned")
  /\ UNCHANGED <<total, breached, mu, window, clock, history>>

FnPanics(c) ==
  /\ At(c, "run") /\ Return(c)
  /\ UNCHANGED <<total, breached, mu, window, clock, history>>

-----------------------------------------------------------------------------
(* Execute, after fn: Charge, the counters, the evaluation, the breach.     *)

\* Slip: the charge is added outside windowMu.
AskChargeUnlocked(c) ==
  /\ At(c, "returned")
  /\ \E x \in Costs : op' = [op EXCEPT ![c].pc = "chargeTokens", ![c].cost = x]
  /\ MeetsReset
  /\ UNCHANGED <<total, breached, mu, window, clock, charged, ran, begun, resets, wedged>>

\* Lock, and ask the configured Charge.
AskCharge(c) ==
  /\ At(c, "returned") /\ Lock(c)
  /\ \E x \in Costs : op' = [op EXCEPT ![c].pc = "chargeTokens", ![c].cost = x]
  /\ MeetsReset
  /\ UNCHANGED <<total, breached, window, clock, charged, ran, begun, resets, wedged>>

\* Charge panics: Execute unwinds past the Unlock, which is not deferred.
ChargePanics(c) ==
  /\ At(c, "returned") /\ Lock(c)
  /\ Return(c)
  /\ wedged' = IF Windowed THEN TRUE ELSE wedged
  /\ UNCHANGED <<total, breached, window, clock, charged, ran, begun, resets, torn>>

Charge(c, field, from, to) ==
  /\ At(c, from)
  /\ total' = [total EXCEPT ![field] = @ + op[c].cost[field]]
  /\ charged' = IF field = "tokens" \/ ~Windowed THEN charged
                ELSE [tokens |-> charged.tokens + op[c].cost.tokens,
                      usd |-> charged.usd + op[c].cost.usd]
  /\ Goto(c, to)
  /\ UNCHANGED <<breached, mu, window, clock, ran, begun, resets, torn, wedged>>

ChargeTokens(c) == Charge(c, "tokens", "chargeTokens", "chargeUSD")
ChargeUSD(c) == Charge(c, "usd", "chargeUSD", "loadTokens")

\* snapshot: three loads.
Load(c, field, from, to) ==
  /\ At(c, from)
  /\ op' = [op EXCEPT ![c].pc = to, ![c].seen[field] = total[field]]
  /\ UNCHANGED <<total, breached, mu, window, clock, history>>

LoadTokens(c) == Load(c, "tokens", "loadTokens", "loadUSD")
LoadUSD(c) == Load(c, "usd", "loadUSD", "loadCalls")
LoadCalls(c) == Load(c, "calls", "loadCalls", "evaluate")

\* Slip: the call's own cost is compared with the ceilings, not the aggregate.
EvaluateOwnCost(c) ==
  /\ At(c, "evaluate")
  /\ IF Over([op[c].seen EXCEPT !.tokens = op[c].cost.tokens, !.usd = op[c].cost.usd])
     THEN Goto(c, "mark") /\ UNCHANGED mu ELSE Return(c) /\ Unlock
  /\ UNCHANGED <<total, breached, window, clock, history>>

Evaluate(c) ==
  /\ At(c, "evaluate")
  /\ IF Over(op[c].seen) THEN Goto(c, "mark") /\ UNCHANGED mu ELSE Return(c) /\ Unlock
  /\ UNCHANGED <<total, breached, window, clock, history>>

\* markBreach, markBreachLocked: breached.CompareAndSwap(false, true).
MarkBreach(c) ==
  /\ At(c, "mark")
  /\ breached' = TRUE
  /\ Unlock
  /\ IF breached THEN Return(c) ELSE Goto(c, "fire")
  /\ UNCHANGED <<total, window, clock, history>>

\* OnExceeded, outside the lock; a panic in it is recovered.
FireOnExceeded(c) ==
  /\ At(c, "fire")
  /\ Return(c)
  /\ UNCHANGED <<total, breached, mu, window, clock, history>>

-----------------------------------------------------------------------------

Tick ==
  /\ Windowed /\ clock < MaxClock /\ clock' = clock + 1
  /\ UNCHANGED <<total, breached, mu, window, op, history>>

Clearing(a) == ClearTokens(a) \/ ClearUSD(a) \/ ClearCalls(a) \/ ClearBreach(a)
Running(c) == FnReturns(c) \/ FnPanics(c)
Entering(c) == Enter(c) \/ AskCharge(c) \/ ChargePanics(c)
Bookkeeping(c) ==
  \/ Roll(c) \/ CheckBreached(c) \/ CountCall(c) \/ ChargeTokens(c) \/ ChargeUSD(c)
  \/ LoadTokens(c) \/ LoadUSD(c) \/ LoadCalls(c) \/ Evaluate(c) \/ MarkBreach(c)
  \/ FireOnExceeded(c)

Next == \/ \E c \in Callers : Begin(c) \/ Entering(c) \/ Running(c) \/ Bookkeeping(c)
        \/ \E a \in Actors : Clearing(a)
        \/ Reset
        \/ Tick

Spec == Init /\ [][Next]_vars

\* Goroutines are scheduled; a function that was called returns or panics; and
\* sync.Mutex starves no one, so who waits for windowMu gets it although others
\* take it too (SF).  Nobody is assumed to call Execute or Reset.
Fairness ==
  /\ \A c \in Callers : WF_vars(Bookkeeping(c)) /\ WF_vars(Running(c)) /\ SF_vars(Entering(c))
  /\ \A a \in Actors : WF_vars(Clearing(a))

FairSpec == Spec /\ Fairness

-----------------------------------------------------------------------------
(* Properties                                                               *)

Counters == [tokens : Nat, usd : Nat, calls : Nat]
Pcs == {"idle", "enter", "roll", "check", "count", "run", "returned", "chargeTokens",
        "chargeUSD", "loadTokens", "loadUSD", "loadCalls", "evaluate", "mark", "fire",
        "clearTokens", "clearUSD", "clearCalls", "clearBreach"}

\* The counters never go negative and a goroutine is at one of its steps, whether
\* it runs executeLockFree, executeWindowed or Reset (budget.go:121-138).
TypeOK ==
  /\ total \in Counters /\ charged \in [tokens : Nat, usd : Nat] /\ ran \in Nat
  /\ breached \in BOOLEAN
  /\ mu \in Actors \cup {Free}
  /\ window \in [open : BOOLEAN, start : Nat, length : Nat]
  /\ clock \in Nat
  /\ op \in [Actors -> [pc : Pcs, cost : [tokens : Nat, usd : Nat], seen : Counters]]
  /\ begun \in Nat /\ resets \in Nat /\ torn \in BOOLEAN /\ wedged \in BOOLEAN

\* No bookkeeping is under way.
Settled == \A a \in Actors : op[a].pc \in {"idle", "enter", "run", "returned"}

\* fn is started at most MaxCalls times between two resets, however many callers
\* arrive together: the pre-charge lets no racer slip past the cap (budget.go:177).
CallsCapped == MaxCalls > 0 => ran <= MaxCalls

\* A budget refuses all and only what is spent: once the calls in progress have done
\* their bookkeeping, breached says exactly whether some counter is over its ceiling,
\* although each call evaluates a snapshot of three separate loads and a reset is four
\* separate stores (budget.go:196-200, 276-278, 329-335).  The exception is a Reset of
\* a budget without a window that overlaps a call's bookkeeping: it takes no lock, so
\* its last store (budget.go:297) may forget a breach and the call may mark one from a
\* snapshot that is cleared by then (budget.go:198), and the flag may be wrong until
\* the next Reset that overlaps none.
BreachedWhenOver == Settled /\ ~torn => (breached <=> Over(total))

\* No charge is lost at a window boundary and no reset is torn: once the
\* bookkeeping is done the counters are the charges made since the last reset,
\* in both dimensions (budget.go:205-211, 305-309).
WindowTotalsExact ==
  Windowed /\ Settled => total.tokens = charged.tokens /\ total.usd = charged.usd

\* Every Execute returns: nobody keeps windowMu, on any early return and in any
\* interleaving with Reset and the roll-over (budget.go:216-258, 283-291).  The
\* exception is the caller's own Charge: it runs between Lock and an Unlock that is not
\* deferred (budget.go:241-258), so after it has panicked there every call may wait
\* for ever.
EveryCallReturns ==
  \A c \in Callers : op[c].pc # "idle" ~> op[c].pc = "idle" \/ wedged
=============================================================================
