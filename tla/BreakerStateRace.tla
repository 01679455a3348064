--------------------------- MODULE BreakerStateRace ---------------------------
(***************************************************************************)
(* Overlapping State() calls.  State takes only the read lock, yet          *)
(* currentState may clear the counts or call setState: the calls exclude    *)
(* every writer but not each other, so their reads and writes of the        *)
(* guarded fields interleave word by word.  Writers and the lock-free path  *)
(* are those of CircuitBreaker.                                             *)
(***************************************************************************)
EXTENDS CircuitBreaker

CONSTANT Readers   \* goroutines calling State()

VARIABLE rd        \* per reader: where its State() is, and its local values
raceVars == <<vars, rd>>

IdleReader == [pc |-> "idle", now |-> 0, old |-> "none", word |-> 0]

\* No State() call holds the read lock.
NoReaders == \A r \in Readers : rd[r].pc = "idle"

RaceInit == Init /\ rd = [r \in Readers |-> IdleReader]

Step(r, from, to) == rd[r].pc = from /\ rd' = [rd EXCEPT ![r].pc = to]
StepWith(r, from, to, word) ==
  rd[r].pc = from /\ rd' = [rd EXCEPT ![r].pc = to, ![r].word = word]

RLock(r) ==
  /\ mu = Free
  /\ rd[r].pc = "idle"
  /\ rd' = [rd EXCEPT ![r] = [IdleReader EXCEPT !.pc = "check", !.now = clock]]
  /\ UNCHANGED vars

\* currentState decides from the fields as they are now.
Check(r) ==
  /\ LET expired == cb.expiry < rd[r].now
     IN  Step(r, "check", CASE cb.state = "closed" /\ Interval > 0 /\ expired -> "clear"
                            [] cb.state = "open" /\ expired -> "enter"
                            [] OTHER -> "unlock")
  /\ UNCHANGED vars

\* The Closed case: counts.reset and the new expiry.
Clear(r) ==
  /\ Step(r, "clear", "loadExpiry")
  /\ cb' = [cb EXCEPT !.counts = NoCounts, !.expiry = rd[r].now + Interval]
  /\ UNCHANGED <<mu, stage, fast, clock, call, since, chanVars>>

LoadExpiry(r) == StepWith(r, "loadExpiry", "storeExpiry", cb.expiry) /\ UNCHANGED vars

StoreExpiryR(r) ==
  /\ Step(r, "storeExpiry", "unlock")
  /\ fast' = [fast EXCEPT !.expiry = rd[r].word]
  /\ UNCHANGED <<cb, mu, stage, clock, call, since, chanVars>>

\* setState(StateHalfOpen): the comparison, oldState := cb.state, the write.
Enter(r) ==
  /\ Step(r, "enter", IF cb.state = "halfOpen" THEN "unlock" ELSE "old")
  /\ UNCHANGED vars

ReadOld(r) ==
  /\ rd[r].pc = "old"
  /\ rd' = [rd EXCEPT ![r].pc = "write", ![r].old = cb.state]
  /\ UNCHANGED vars

WriteState(r) ==
  /\ Step(r, "write", "readGen")
  /\ cb' = [cb EXCEPT !.state = "halfOpen"]
  /\ UNCHANGED <<mu, stage, fast, clock, call, since, chanVars>>

\* generation++ is a read and a write; the resets that follow are idempotent.
ReadGen(r) == StepWith(r, "readGen", "writeGen", cb.generation) /\ UNCHANGED vars

WriteGen(r) ==
  /\ Step(r, "writeGen", "loadGen")
  /\ cb' = [cb EXCEPT !.generation = rd[r].word + 1, !.counts = NoCounts, !.window = NewWindow]
  /\ UNCHANGED <<mu, stage, fast, clock, call, since, chanVars>>

\* syncFastFields: cb.generation is loaded, then stored atomically; expiry has
\* not changed and state is stored last.
LoadGen(r) == StepWith(r, "loadGen", "storeGen", cb.generation) /\ UNCHANGED vars

StoreGenR(r) ==
  /\ Step(r, "storeGen", "storeState")
  /\ fast' = [fast EXCEPT !.gen = rd[r].word]
  /\ UNCHANGED <<cb, mu, stage, clock, call, since, chanVars>>

StoreStateR(r) ==
  /\ Step(r, "storeState", IF HasCallback THEN "emit" ELSE "unlock")
  /\ fast' = [fast EXCEPT !.state = cb.state, !.expiry = cb.expiry]
  /\ UNCHANGED <<cb, mu, stage, clock, call, since, chanVars>>

\* emitStateChange(oldState, HalfOpen), the same select as in CircuitBreaker.
EmitR(r) ==
  /\ Step(r, "emit", "unlock")
  /\ \/ /\ Len(queue) < BufferSize
        /\ queue' = Append(queue, [from |-> rd[r].old, to |-> "halfOpen"])
        /\ UNCHANGED lost
     \/ /\ done \/ Len(queue) >= BufferSize
        /\ lost' = TRUE
        /\ UNCHANGED queue
  /\ UNCHANGED <<cb, mu, stage, fast, clock, call, since, disp, done, observed>>

RUnlock(r) ==
  /\ rd[r].pc = "unlock"
  /\ rd' = [rd EXCEPT ![r] = IdleReader]
  /\ UNCHANGED vars

Reading(r) == \/ RLock(r) \/ Check(r) \/ Clear(r) \/ LoadExpiry(r) \/ StoreExpiryR(r)
              \/ Enter(r) \/ ReadOld(r) \/ WriteState(r) \/ ReadGen(r) \/ WriteGen(r)
              \/ LoadGen(r) \/ StoreGenR(r) \/ StoreStateR(r) \/ EmitR(r) \/ RUnlock(r)

\* Writers wait for the readers; everything else goes on beside them.
Writing == NoReaders /\ (Reset \/ \E c \in Callers : Locking(c))
Beside == \/ \E c \in Callers : FastPath(c) \/ FnPanics(c)
          \/ Close \/ Publishing \/ Dispatcher \/ Tick

RaceNext == \/ \E r \in Readers : Reading(r)
            \/ (Writing \/ Beside) /\ UNCHANGED rd

RaceSpec == RaceInit /\ [][RaceNext]_raceVars

-----------------------------------------------------------------------------

\* breaker.go:203-204: dispatchStateChanges "delivers state transitions to
\* OnStateChange in the order they were emitted".  Queued events link up, each
\* starting where the one before it ended: one event per transition.
OneEventPerTransition ==
  ~lost => \A i \in 2..Len(queue) : queue[i].from = queue[i - 1].to
=============================================================================
