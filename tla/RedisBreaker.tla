----------------------------- MODULE RedisBreaker -----------------------------
(***************************************************************************)
(* The circuit breaker whose state several service instances share in one  *)
(* Redis hash.  Redis runs each of the two Lua scripts as one step; what   *)
(* happens between admission and record is another process's business:     *)
(* other instances admit, record and reset, the caller's process may die,  *)
(* fn may panic, a script may fail (Redis is unreachable, or the caller's  *)
(* context has ended: record runs under it), and the reply to a script     *)
(* that did run may be lost.  That fn returns is not a step of its own:    *)
(* nothing shared happens between it and the record script.                *)
(***************************************************************************)
EXTENDS Integers, FiniteSets

CONSTANTS
  Instances,      \* service instances, each with its own Breaker
  Callers,        \* concurrent calls of Execute
  Home,           \* the instance a caller belongs to
  Configs,        \* [threshold, openTimeout, maxRequests, failOpen] as the user writes them
  Drift,          \* how far a client's clock reading, sent with the script, may be ahead
  MaxTime,        \* bound on the clock
  MaxGeneration,  \* bound: no call is admitted at a later generation
  MaxResets       \* bound on Reset

ASSUME RedisAssumption ==
  /\ IsFiniteSet(Callers) /\ Home \in [Callers -> Instances]
  /\ Configs \subseteq [threshold : Int, openTimeout : Int, maxRequests : Int, failOpen : BOOLEAN]
  /\ {Drift, MaxTime, MaxGeneration, MaxResets} \subseteq Nat

VARIABLES
  cfg,        \* the configuration after setDefaults, the same on every instance
  hash,       \* the Redis hash
  clock,
  call,       \* per caller: "idle", "running" (admitted) or "unguarded"
  admitted,   \* per caller: the generation it was admitted at
  lastState,  \* per instance: Breaker.lastState
  current,    \* history: the calls admitted since the state last changed
  seen        \* history: since then, failures in a row, trials admitted and trial slots
              \* that no running call will give back; Resets, and whether one was
              \* called while calls were running

vars == <<cfg, hash, clock, call, admitted, lastState, current, seen>>

States == {"closed", "open", "half-open"}

-----------------------------------------------------------------------------
(* Construction                                                             *)

setDefaults(c) ==
  [c EXCEPT !.threshold   = IF @ <= 0 THEN 5 ELSE @,
            !.openTimeout = IF @ <= 0 THEN 30 ELSE @,
            !.maxRequests = IF @ <= 0 THEN 1 ELSE @]

\* What HMGET shows when the key does not exist.
NoHash == [state |-> "closed", generation |-> 0, expiry |-> 0,
           consecutive_failures |-> 0, half_open_admitted |-> 0]

Init ==
  /\ cfg \in {setDefaults(c) : c \in Configs}
  /\ hash = NoHash /\ clock = 0
  /\ call = [c \in Callers |-> "idle"] /\ admitted = [c \in Callers |-> 0]
  /\ lastState = [i \in Instances |-> "closed"]
  /\ current = {}
  /\ seen = [streak |-> 0, trials |-> 0, leaked |-> 0, resets |-> 0, straddled |-> FALSE]

-----------------------------------------------------------------------------
(* The Lua scripts: the hash they leave                                     *)

\* Open gives way to Half-Open once the timeout has passed.
Woken(h, now) ==
  IF h.state = "open" /\ now >= h.expiry
  THEN [h EXCEPT !.state = "half-open", !.generation = @ + 1, !.half_open_admitted = 0]
  ELSE h

\* Slip: Half-Open admits whoever asks.
AllowsAnyTrial(h) == h.state # "open"

Allows(h) ==
  \/ h.state = "closed"
  \/ h.state = "half-open" /\ h.half_open_admitted < cfg.maxRequests

\* An admission in Half-Open takes a slot.
admitScript(h, now) ==
  LET w == Woken(h, now)
  IN IF w.state = "half-open" /\ Allows(w)
     THEN [w EXCEPT !.half_open_admitted = @ + 1]
     ELSE w

Opened(h, now) ==
  [h EXCEPT !.state = "open", !.generation = @ + 1, !.expiry = now + cfg.openTimeout,
            !.consecutive_failures = 0,
            !.half_open_admitted = IF h.state = "half-open" THEN 0 ELSE @]

FailureRecorded(h, now) ==
  IF h.state = "half-open" \/ h.consecutive_failures + 1 >= cfg.threshold
  THEN Opened(h, now)
  ELSE [h EXCEPT !.consecutive_failures = @ + 1]

\* Slip: the slot given back is the last one only below zero.
SuccessKeepsHalfOpen(h) ==
  IF h.state = "closed" THEN [h EXCEPT !.consecutive_failures = 0]
  ELSE IF h.half_open_admitted - 1 < 0
  THEN [h EXCEPT !.state = "closed", !.generation = @ + 1]
  ELSE [h EXCEPT !.half_open_admitted = @ - 1]

\* In Half-Open a success gives its slot back, and the last one closes the breaker.
SuccessRecorded(h) ==
  IF h.state = "closed" THEN [h EXCEPT !.consecutive_failures = 0]
  ELSE IF h.half_open_admitted - 1 <= 0
  THEN [h EXCEPT !.state = "closed", !.generation = @ + 1,
                 !.consecutive_failures = 0, !.half_open_admitted = 0]
  ELSE [h EXCEPT !.half_open_admitted = @ - 1]

\* Slip: the generation is not looked at.
recordScriptUnfenced(h, gen, ok, now) ==
  IF h.state = "open" THEN h
  ELSE IF ok THEN SuccessRecorded(h) ELSE FailureRecorded(h, now)

\* The result of an earlier generation is discarded, and so is any in Open.
recordScript(h, gen, ok, now) ==
  IF gen # h.generation \/ h.state = "open" THEN h
  ELSE IF ok THEN SuccessRecorded(h) ELSE FailureRecorded(h, now)

-----------------------------------------------------------------------------
(* History                                                                  *)

Readings == clock..(clock + Drift)

\* A change of state begins a new period.
Changes == hash'.state # hash.state
NewPeriod(s) == [s EXCEPT !.streak = 0, !.trials = 0, !.leaked = 0]
Period == IF Changes THEN NewPeriod(seen) ELSE seen
Admitted == IF Changes THEN {} ELSE current

\* Of this period's trials, those among cs end without a record: their slots stay taken.
Leak(s, cs) ==
  [s EXCEPT !.leaked = @ + IF hash.state = "half-open" THEN Cardinality(cs \cap current) ELSE 0]

\* A slot was taken in the script's step: by a running call, or by nobody.
SlotTaken == hash'.half_open_admitted > (IF Changes THEN 0 ELSE hash.half_open_admitted)
Trial(s, running) ==
  IF ~SlotTaken THEN s
  ELSE [s EXCEPT !.trials = IF @ > cfg.maxRequests THEN @ ELSE @ + 1,
                 !.leaked = IF running THEN @ ELSE @ + 1]

-----------------------------------------------------------------------------
(* Execute                                                                  *)

\* admit succeeds: the transition is noted by this instance, the call runs or is
\* refused with a CircuitOpenError.
Admit(c) ==
  /\ call[c] = "idle" /\ hash.generation <= MaxGeneration
  /\ \E now \in Readings :
       /\ hash' = admitScript(hash, now)
       /\ IF Allows(Woken(hash, now))
          THEN /\ call' = [call EXCEPT ![c] = "running"]
               /\ admitted' = [admitted EXCEPT ![c] = hash'.generation]
               /\ current' = Admitted \cup {c}
          ELSE current' = Admitted /\ UNCHANGED <<call, admitted>>
  /\ lastState' = [lastState EXCEPT ![Home[c]] = hash'.state]
  /\ seen' = Trial(Period, TRUE)
  /\ UNCHANGED <<cfg, clock>>

\* admit fails, before or after Redis ran the script: FailMode decides.
AdmitFails(c) ==
  /\ call[c] = "idle" /\ hash.generation <= MaxGeneration
  /\ hash' \in {hash} \cup {admitScript(hash, now) : now \in Readings}
  /\ call' = [call EXCEPT ![c] = IF cfg.failOpen THEN "unguarded" ELSE "idle"]
  /\ current' = Admitted /\ seen' = Trial(Period, FALSE)
  /\ UNCHANGED <<cfg, clock, admitted, lastState>>

\* fn returns and its result reaches the hash; the reply may be lost, and then this
\* instance does not note the new state.
Record(c, ok) ==
  /\ call[c] = "running"
  /\ \E now \in Readings : hash' = recordScript(hash, admitted[c], ok, now)
  /\ lastState' \in {lastState, [lastState EXCEPT ![Home[c]] = hash'.state]}
  /\ seen' = IF c \in current /\ ~Changes
             THEN [Period EXCEPT !.streak = IF ok THEN 0 ELSE @ + 1]
             ELSE Period
  /\ call' = [call EXCEPT ![c] = "idle"] /\ admitted' = [admitted EXCEPT ![c] = 0]
  /\ current' = Admitted \ {c}
  /\ UNCHANGED <<cfg, clock>>

\* fn panics, or the record script does not run (its error is ignored).
NoRecord(c) ==
  /\ call[c] = "running"
  /\ call' = [call EXCEPT ![c] = "idle"] /\ admitted' = [admitted EXCEPT ![c] = 0]
  /\ current' = current \ {c} /\ seen' = Leak(seen, {c})
  /\ UNCHANGED <<cfg, hash, clock, lastState>>

UnguardedReturns(c) ==
  /\ call[c] = "unguarded" /\ call' = [call EXCEPT ![c] = "idle"]
  /\ UNCHANGED <<cfg, hash, clock, admitted, lastState, current, seen>>

-----------------------------------------------------------------------------
(* The other methods, and the environment                                   *)

\* State asks by the admission script: it half-opens the breaker and takes a trial
\* slot, but runs nothing and notes nothing.
State ==
  /\ hash.generation <= MaxGeneration
  /\ \E now \in Readings : hash' = admitScript(hash, now)
  /\ current' = Admitted /\ seen' = Trial(Period, FALSE)
  /\ UNCHANGED <<cfg, clock, call, admitted, lastState>>

\* Reset deletes the key, or fails to (the error is dropped); lastState either way.
Reset(i) ==
  /\ seen.resets < MaxResets
  /\ hash' \in {NoHash, hash}
  /\ lastState' = [lastState EXCEPT ![i] = "closed"]
  /\ IF hash' = NoHash
     THEN /\ current' = {}
          /\ seen' = [NewPeriod(seen) EXCEPT !.resets = @ + 1,
                        !.straddled = @ \/ \E c \in Callers : call[c] = "running"]
     ELSE current' = current /\ seen' = [seen EXCEPT !.resets = @ + 1]
  /\ UNCHANGED <<cfg, clock, call, admitted>>

\* The process ends and starts again: its calls are gone, its lastState is New's.
Crash(i) ==
  LET gone == {c \in Callers : Home[c] = i}
  IN /\ \E c \in gone : call[c] # "idle"
     /\ call' = [c \in Callers |-> IF c \in gone THEN "idle" ELSE call[c]]
     /\ admitted' = [c \in Callers |-> IF c \in gone THEN 0 ELSE admitted[c]]
     /\ lastState' = [lastState EXCEPT ![i] = "closed"]
     /\ current' = current \ gone /\ seen' = Leak(seen, gone)
     /\ UNCHANGED <<cfg, hash, clock>>

Tick ==
  /\ clock < MaxTime /\ clock' = clock + 1
  /\ UNCHANGED <<cfg, hash, call, admitted, lastState, current, seen>>

-----------------------------------------------------------------------------

Ends(c) == \/ \E ok \in BOOLEAN : Record(c, ok)
           \/ NoRecord(c)

Next == \/ \E c \in Callers : Admit(c) \/ AdmitFails(c) \/ Ends(c) \/ UnguardedReturns(c)
        \/ State
        \/ \E i \in Instances : Reset(i) \/ Crash(i)
        \/ Tick

Spec == Init /\ [][Next]_vars

\* fn returns, and Redis answers the record script or fails it.  New calls, State,
\* Reset and crashes are nobody's duty.
Fairness == \A c \in Callers : WF_vars(Ends(c))

FairSpec == Spec /\ Fairness

-----------------------------------------------------------------------------

\* In Closed the shared counter is the number of failures in a row among the calls
\* admitted since the breaker closed: no instance's slow call from before a trip is
\* counted, nor is a failure counted twice or lost.  The README of the example says
\* so of generations ("if state has rotated under a slow caller, the record is
\* discarded") and excepts Reset, which starts the generations again.
StreakShared ==
  hash.state = "closed" /\ ~seen.straddled => hash.consecutive_failures = seen.streak

\* In Half-Open the slots taken are those of the trials running on all instances,
\* and those lost with a call that never recorded, a State poll or a lost reply
\* (breaker.go:162-167, 209-217): never more trials than MaxRequests at a time.
TrialSlotsExact ==
  hash.state = "half-open" /\ ~seen.straddled =>
    /\ hash.half_open_admitted = Cardinality(current) + seen.leaked
    /\ hash.half_open_admitted <= cfg.maxRequests

\* Half-Open is left in the end, unless a slot has leaked (nothing gives it back:
\* there is no timeout in Half-Open) or trials keep overlapping, so that more than
\* MaxRequests are admitted and the count never returns to zero
\* (breaker.go:70-72, 209-217).
HalfOpenDecided ==
  hash.state = "half-open" ~>
    hash.state # "half-open" \/ seen.leaked > 0 \/ seen.trials > cfg.maxRequests
    \/ seen.straddled
===============================================================================
